----------------------------- MODULE LspServer -----------------------------
(* The language server between an editor and a disk (package lsp).         *)
(*                                                                         *)
(* The server is one goroutine that reads a message, handles it to the     *)
(* end, and reads the next.  What it knows of a file comes from three      *)
(* sides: the initial walk over the workspace, the live text the editor    *)
(* sends, and the editor's notices about changes on disk, after which it   *)
(* reads the disk itself.  Editor and disk move on meanwhile: messages     *)
(* wait in a queue, notices are delivered late and in batches, and files   *)
(* change while the walk runs and before anybody watches them.             *)
(*                                                                         *)
(* indexed is the text map of the index.  By IndexImplementsTable          *)
(* (IndexProofs) every answer of the index is a function of it, so this    *)
(* module keeps nothing else of the index.                                 *)
EXTENDS Naturals, Sequences, FiniteSets, SequencesExt

CONSTANTS
  Files,         \* workspace paths with a suffix that isIndexable accepts
  WalkOrder,     \* the same paths in the order filepath.WalkDir visits them
  Texts,         \* what a file or a buffer can hold
  NoText,        \* no file, no open document, nothing indexed
  Uris,          \* document URIs
  UriToPath,     \* uriToPath: [Uris -> Files]
  PathToUri,     \* pathToURI: [Files -> Uris], the spelling of Go's net/url
  EditorUri,     \* the spelling the editor uses: [Files -> Uris]
  Editable,      \* the files that are ever opened in the editor
  \* bounds
  MaxRequests,   \* feature requests sent in a session
  MaxInbox,      \* messages the editor has on the way
  MaxNotices     \* changes the editor has not reported yet

ASSUME TextsAssumption == NoText \notin Texts
ASSUME WalkAssumption == ToSet(WalkOrder) = Files /\ IsInjective(WalkOrder)
ASSUME UriAssumption ==
  /\ UriToPath \in [Uris -> Files]
  /\ PathToUri \in [Files -> Uris]
  /\ EditorUri \in [Files -> Uris]
  /\ \A f \in Files : UriToPath[PathToUri[f]] = f /\ UriToPath[EditorUri[f]] = f
ASSUME BoundsAssumption ==
  /\ MaxRequests \in Nat
  /\ MaxInbox \in Nat \ {0}
  /\ MaxNotices \in Nat \ {0}
  /\ Editable \subseteq Files

VARIABLES
  disk,      \* disk[f]: what the file holds, NoText if there is none
  \* the editor
  buffers,   \* buffers[f]: the text of the open buffer, NoText if none
  notices,   \* changes on disk seen by the editor's watcher and not yet sent
  watching,  \* the editor has registered the watchers
  sent,      \* feature requests sent so far; their ids are 1..sent
  received,  \* received[id]: responses the editor got for id
  \* the wire
  inbox,     \* editor to server
  outbox,    \* server to editor
  \* the server
  phase,     \* "starting", "walking", "serving" or "stopped"
  todo,      \* the files the walk has listed and not visited yet
  batch,     \* the changes of the notice being applied
  docs,      \* docs[uri]: the live text, NoText if the document is not open
  indexed,   \* indexed[f]: the text the index holds for f
  \* history
  missed     \* files whose last change fell between the walk and the watcher

diskVars   == <<disk, notices, missed>>
editorVars == <<buffers, watching, sent, received>>
serverVars == <<phase, todo, batch, docs, indexed>>
vars == <<diskVars, editorVars, inbox, outbox, serverVars>>

Ids == 0..MaxRequests    \* 0 is the initialize request
InitializeId == 0
RegisterId == 1          \* the server numbers its own requests, from 1 as well

Change == [type : {"created", "changed", "deleted"}, file : Files]
Message == [kind : {"initialize"}, id : {InitializeId}]
             \cup [kind : {"request"}, id : Ids, file : Files, seen : Texts]
             \cup [kind : {"didOpen", "didChange"}, uri : Uris, text : Texts]
             \cup [kind : {"didClose"}, uri : Uris]
             \cup [kind : {"watched"}, changes : Seq(Change)]
             \cup [kind : {"initialized", "exit"}]
             \cup [kind : {"reply"}, id : {RegisterId}]
Report == [kind : {"register"}] \cup [kind : {"response"}, id : Ids]

Init ==
  /\ disk \in [Files -> Texts \cup {NoText}]
  /\ buffers = [f \in Files |-> NoText]
  /\ notices = << >>
  /\ watching = FALSE
  /\ sent = 0
  /\ received = [id \in Ids |-> 0]
  /\ inbox = <<[kind |-> "initialize", id |-> InitializeId]>>
  /\ outbox = << >>
  /\ phase = "starting"
  /\ todo = {}
  /\ batch = << >>
  /\ docs = [u \in Uris |-> NoText]
  /\ indexed = [f \in Files |-> NoText]
  /\ missed = {}

----------------------------------------------------------------------------
(* The disk, and the watcher that runs in the editor once registered.      *)

\* The walk will still look at f.
BeforeWalk(f) == phase = "starting" \/ f \in todo

WriteDisk(f, t) ==
  /\ disk[f] # t
  /\ disk' = [disk EXCEPT ![f] = t]
  /\ IF watching
     THEN /\ Len(notices) < MaxNotices
          /\ notices' = Append(notices,
                          [file |-> f,
                           type |-> IF t = NoText THEN "deleted"
                                    ELSE IF disk[f] = NoText THEN "created" ELSE "changed"])
          /\ missed' = missed \ {f}
     ELSE /\ missed' = IF BeforeWalk(f) THEN missed ELSE missed \cup {f}
          /\ UNCHANGED notices

\* Another program writes, creates or deletes the file.
ExternalChange(f, t) == /\ WriteDisk(f, t)
                        /\ UNCHANGED <<editorVars, inbox, outbox, serverVars>>

\* The editor saves the buffer.
Save(f) == /\ buffers[f] # NoText
           /\ WriteDisk(f, buffers[f])
           /\ UNCHANGED <<editorVars, inbox, outbox, serverVars>>

----------------------------------------------------------------------------
(* The editor.  It sends nothing before it has the initialize response.    *)

Initialized == received[InitializeId] > 0
Leaving == \E i \in DOMAIN inbox : inbox[i].kind = "exit"

Send(m) == /\ Initialized
           /\ ~Leaving
           /\ phase # "stopped"
           /\ Len(inbox) < MaxInbox
           /\ inbox' = Append(inbox, m)
           /\ UNCHANGED <<outbox, serverVars>>

\* A buffer starts with what the file holds; a new file with anything.
OpenDoc(f, t) ==
  /\ f \in Editable
  /\ buffers[f] = NoText
  /\ disk[f] # NoText => t = disk[f]
  /\ buffers' = [buffers EXCEPT ![f] = t]
  /\ Send([kind |-> "didOpen", uri |-> EditorUri[f], text |-> t])
  /\ UNCHANGED <<diskVars, watching, sent, received>>

ChangeDoc(f, t) ==
  /\ buffers[f] \notin {NoText, t}
  /\ buffers' = [buffers EXCEPT ![f] = t]
  /\ Send([kind |-> "didChange", uri |-> EditorUri[f], text |-> t])
  /\ UNCHANGED <<diskVars, watching, sent, received>>

CloseDoc(f) ==
  /\ buffers[f] # NoText
  /\ buffers' = [buffers EXCEPT ![f] = NoText]
  /\ Send([kind |-> "didClose", uri |-> EditorUri[f]])
  /\ UNCHANGED <<diskVars, watching, sent, received>>

\* A feature request at the cursor of an open buffer; seen is what the user
\* sees when asking.
Request(f) ==
  /\ buffers[f] # NoText
  /\ sent < MaxRequests
  /\ sent' = sent + 1
  /\ Send([kind |-> "request", id |-> sent + 1, file |-> f, seen |-> buffers[f]])
  /\ UNCHANGED <<diskVars, buffers, watching, received>>

\* The watcher's notices travel in one message.
SendNotices ==
  /\ notices # << >>
  /\ notices' = << >>
  /\ Send([kind |-> "watched", changes |-> notices])
  /\ UNCHANGED <<disk, missed, editorVars>>

\* The editor quits when nothing it asked is outstanding.
Exit ==
  /\ \A id \in 1..sent : received[id] > 0
  /\ Send([kind |-> "exit"])
  /\ UNCHANGED <<diskVars, editorVars>>

\* The editor handles what the server sent: a response, the first of which it
\* acknowledges with initialized, or the request to register watchers, which
\* it replies to.
Receive ==
  /\ outbox # << >>
  /\ outbox' = Tail(outbox)
  /\ LET m == Head(outbox)
     IN  \/ /\ m.kind = "register"
            /\ watching' = TRUE
            /\ inbox' = Append(inbox, [kind |-> "reply", id |-> RegisterId])
            /\ UNCHANGED received
         \/ /\ m.kind = "response"
            /\ received' = [received EXCEPT ![m.id] = @ + 1]
            /\ inbox' = IF m.id = InitializeId THEN Append(inbox, [kind |-> "initialized"]) ELSE inbox
            /\ UNCHANGED watching
  /\ UNCHANGED <<diskVars, buffers, sent, serverVars>>

----------------------------------------------------------------------------
(* The server.                                                             *)

\* Mutant of SourceOf: the index is asked even for an open document.
SourceOfIndexed(f) == indexed[f]

\* sourceOf: the live document if open, else the indexed copy.
SourceOf(f) == IF docs[PathToUri[f]] # NoText THEN docs[PathToUri[f]] ELSE indexed[f]

\* The loop takes the next message when the last one is done with.
Take(kind) == /\ phase \in {"starting", "serving"}
              /\ batch = << >>
              /\ inbox # << >>
              /\ Head(inbox).kind = kind
              /\ inbox' = Tail(inbox)
              /\ UNCHANGED <<diskVars, editorVars>>

Reply(id) == outbox' = Append(outbox, [kind |-> "response", id |-> id])

\* The response goes out before the walk starts.  The walk visits the files
\* that exist when it lists the directory.
HandleInitialize ==
  /\ Take("initialize")
  /\ Reply(Head(inbox).id)
  /\ phase' = "walking"
  /\ todo' = {f \in Files : disk[f] # NoText}
  /\ UNCHANGED <<batch, docs, indexed>>

\* The next file in the order of the walk.  A file that cannot be read is
\* skipped.
VisitedBefore(g, f) ==
  \E i, j \in DOMAIN WalkOrder : i < j /\ WalkOrder[i] = g /\ WalkOrder[j] = f

WalkFile ==
  /\ phase = "walking"
  /\ \E f \in todo :
       /\ \A g \in todo : ~VisitedBefore(g, f)
       /\ todo' = todo \ {f}
       /\ indexed' = IF disk[f] = NoText THEN indexed ELSE [indexed EXCEPT ![f] = disk[f]]
  /\ UNCHANGED <<diskVars, editorVars, inbox, outbox, phase, batch, docs>>

WalkDone ==
  /\ phase = "walking"
  /\ todo = {}
  /\ phase' = "serving"
  /\ UNCHANGED <<diskVars, editorVars, inbox, outbox, todo, batch, docs, indexed>>

HandleInitialized ==
  /\ Take("initialized")
  /\ outbox' = Append(outbox, [kind |-> "register"])
  /\ UNCHANGED serverVars

\* Mutant of HandleReply: whatever has an id is answered.
HandleReplyAnswering ==
  /\ Take("reply")
  /\ Reply(Head(inbox).id)
  /\ UNCHANGED serverVars

\* The editor's reply to a request of the server has an id, which may well be
\* that of one of its own requests, and no method: it is ignored.
HandleReply ==
  /\ Take("reply")
  /\ UNCHANGED <<outbox, serverVars>>

\* Mutant of SetDoc: the text is indexed under the document's URI, for want of
\* uriToPath (server.go:195), and the index has an entry that is no file.
SetDocUnderUri(uri, text) ==
  /\ docs' = [docs EXCEPT ![uri] = text]
  /\ indexed' = [k \in DOMAIN indexed \cup {uri} |-> IF k = uri THEN text ELSE indexed[k]]

\* setDoc, for didOpen and for didChange.
SetDoc(uri, text) ==
  /\ docs' = [docs EXCEPT ![uri] = text]
  /\ indexed' = [indexed EXCEPT ![UriToPath[uri]] = text]

HandleDidOpen ==
  /\ Take("didOpen")
  /\ SetDoc(Head(inbox).uri, Head(inbox).text)
  /\ UNCHANGED <<outbox, phase, todo, batch>>

HandleDidChange ==
  /\ Take("didChange")
  /\ SetDoc(Head(inbox).uri, Head(inbox).text)
  /\ UNCHANGED <<outbox, phase, todo, batch>>

\* Only the live text goes: the index keeps the last one.
HandleDidClose ==
  /\ Take("didClose")
  /\ docs' = [docs EXCEPT ![Head(inbox).uri] = NoText]
  /\ UNCHANGED <<outbox, phase, todo, batch, indexed>>

HandleWatched ==
  /\ Take("watched")
  /\ batch' = Head(inbox).changes
  /\ UNCHANGED <<outbox, phase, todo, docs, indexed>>

\* Mutant of Unread: a change on disk counts even for an open document.
UnreadGone(f) == disk[f] = NoText

\* One change of a notice.  A created or changed file is read now, whatever
\* it held when it was reported, unless its document is open or it is gone.
Unread(f) == docs[PathToUri[f]] # NoText \/ disk[f] = NoText

\* Mutant of ApplyChange: a deleted file stays indexed.
ApplyChangeKeepingDeleted ==
  /\ batch # << >>
  /\ batch' = Tail(batch)
  /\ indexed' = IF Unread(Head(batch).file) THEN indexed
                ELSE [indexed EXCEPT ![Head(batch).file] = disk[Head(batch).file]]
  /\ UNCHANGED <<diskVars, editorVars, inbox, outbox, phase, todo, docs>>

ApplyChange ==
  /\ batch # << >>
  /\ batch' = Tail(batch)
  /\ LET ch == Head(batch)
     IN  \/ /\ ch.type = "deleted"
            /\ indexed' = [indexed EXCEPT ![ch.file] = NoText]
         \/ /\ ch.type # "deleted"
            /\ indexed' = IF Unread(ch.file) THEN indexed
                          ELSE [indexed EXCEPT ![ch.file] = disk[ch.file]]
  /\ UNCHANGED <<diskVars, editorVars, inbox, outbox, phase, todo, docs>>

\* Mutant of HandleRequest: a handler that panics does not reply.
HandleRequestOrPanic ==
  /\ Take("request")
  /\ Reply(Head(inbox).id) \/ UNCHANGED outbox
  /\ UNCHANGED serverVars

\* A feature handler reads docs and the index and replies once, with null
\* when it panics; it changes neither.
HandleRequest ==
  /\ Take("request")
  /\ Reply(Head(inbox).id)
  /\ UNCHANGED serverVars

HandleExit ==
  /\ Take("exit")
  /\ phase' = "stopped"
  /\ UNCHANGED <<outbox, todo, batch, docs, indexed>>

Server == \/ HandleInitialize \/ WalkFile \/ WalkDone \/ HandleInitialized
          \/ HandleDidOpen \/ HandleDidChange \/ HandleDidClose
          \/ HandleWatched \/ ApplyChange \/ HandleRequest \/ HandleReply \/ HandleExit

Editor == \/ \E f \in Files, t \in Texts : OpenDoc(f, t) \/ ChangeDoc(f, t)
          \/ \E f \in Files : CloseDoc(f) \/ Request(f) \/ Save(f)
          \/ SendNotices \/ Exit \/ Receive

Disk == \E f \in Files, t \in Texts \cup {NoText} : ExternalChange(f, t)

Next == Server \/ Editor \/ Disk

\* The loop always takes the next message, and the editor reads what is sent
\* to it and passes notices on.
Fairness == WF_vars(Server) /\ WF_vars(Receive) /\ SF_vars(SendNotices)

Spec == Init /\ [][Next]_vars
FairSpec == Spec /\ Fairness

----------------------------------------------------------------------------
(* Properties.                                                             *)

TypeOK ==
  /\ disk \in [Files -> Texts \cup {NoText}]
  /\ buffers \in [Files -> Texts \cup {NoText}]
  /\ notices \in Seq(Change)
  /\ watching \in BOOLEAN
  /\ sent \in 0..MaxRequests
  /\ received \in [Ids -> Nat]
  /\ phase \in {"starting", "walking", "serving", "stopped"}
  /\ todo \subseteq Files
  /\ batch \in Seq(Change)
  /\ docs \in [Uris -> Texts \cup {NoText}]
  /\ indexed \in [Files -> Texts \cup {NoText}]
  /\ missed \subseteq Files
  /\ inbox \in Seq(Message)
  /\ outbox \in Seq(Report)

\* While a document is open, the index holds its live text or nothing: a copy
\* read from the disk never takes its place.  It is also what makes the
\* positions of an answer right, whose byte offsets come from the index and
\* are converted with sourceOf.
LiveTextNotShadowed ==
  \A u \in Uris : docs[u] # NoText => indexed[UriToPath[u]] \in {docs[u], NoText}

\* A request is answered from the text that was on the screen when it was
\* asked, with any number of edits and notices before and after it.
AboutToAnswer == phase = "serving" /\ batch = << >> /\ inbox # << >> /\ Head(inbox).kind = "request"
RequestSeesBuffer == AboutToAnswer => SourceOf(Head(inbox).file) = Head(inbox).seen

\* Every request is in exactly one place: on its way, answered and on its way
\* back, or received, once.
Waiting(id) == {i \in DOMAIN inbox : inbox[i].kind \in {"initialize", "request"} /\ inbox[i].id = id}
Answered(id) == {i \in DOMAIN outbox : outbox[i].kind = "response" /\ outbox[i].id = id}
AnsweredOnce ==
  \A id \in 0..sent : Cardinality(Waiting(id)) + Cardinality(Answered(id)) + received[id] = 1

\* A file that is never opened is indexed as it is on disk, unless a notice
\* that will make it so is on its way, or its last change fell into the time
\* between the walk and the watcher, in which the code loses it although the
\* registration is to keep "the index fresh for files that are never opened in
\* the editor" (server.go:91-92).
Noticed(f, changes) == \E i \in DOMAIN changes : changes[i].file = f
Pending(f) ==
  \/ Noticed(f, notices)
  \/ Noticed(f, batch)
  \/ \E i \in DOMAIN inbox : inbox[i].kind = "watched" /\ Noticed(f, inbox[i].changes)
NeverOpened == Files \ Editable
FreshOrPending ==
  phase = "serving" =>
    \A f \in NeverOpened : indexed[f] = disk[f] \/ Pending(f) \/ f \in missed

\* Every feature request is answered in the end.
EventuallyAnswered == \A id \in 1..MaxRequests : sent >= id ~> received[id] = 1

\* When the disk stops changing, the index of the files that are never opened
\* catches up with it, unless the editor quits first.
EventuallyFresh ==
  (<>[][FALSE]_disk) =>
    \A f \in NeverOpened : <>[](indexed[f] = disk[f] \/ f \in missed \/ Leaving \/ phase = "stopped")

\* Nothing is under way between disk, editor and server.
Quiet == phase = "serving" /\ watching /\ notices = << >> /\ inbox = << >> /\ batch = << >>

\* "An open document's live text always wins" (server.go:286): with nothing
\* under way, an open document whose file exists is indexed with its live
\* text.  The code breaks it: deleting the file drops the document from the
\* index, and creating it again, as an atomic save does, is skipped.
OpenTextWins ==
  Quiet => \A u \in Uris : docs[u] # NoText /\ disk[UriToPath[u]] # NoText
                            => indexed[UriToPath[u]] = docs[u]
=============================================================================
