-------------------------- MODULE LspServerProofs --------------------------
(* Theorems about LspServer, for any files, texts, URIs and bounds.        *)
EXTENDS LspServer, SequenceTheorems, FiniteSetTheorems, TLAPS

----------------------------------------------------------------------------
(* Streams.                                                                *)

LEMMA TakenFrom ==
  ASSUME NEW S, NEW s \in Seq(S), s # << >>
  PROVE  /\ Len(s) \in Nat \ {0}
         /\ DOMAIN s = 1..Len(s)
         /\ Head(s) = s[1] /\ Head(s) \in S
         /\ Tail(s) \in Seq(S)
         /\ DOMAIN Tail(s) = 1..Len(s) - 1
         /\ \A i \in 1..Len(s) - 1 : Tail(s)[i] = s[i + 1]
  BY HeadTailProperties, LenProperties

LEMMA AppendedTo ==
  ASSUME NEW S, NEW s \in Seq(S), NEW e \in S
  PROVE  /\ Len(s) \in Nat
         /\ DOMAIN s = 1..Len(s)
         /\ Append(s, e) \in Seq(S)
         /\ DOMAIN Append(s, e) = 1..Len(s) + 1
         /\ \A i \in 1..Len(s) : Append(s, e)[i] = s[i]
         /\ Append(s, e)[Len(s) + 1] = e
  BY AppendProperties, LenProperties

\* What the fields of a message hold.
LEMMA MessageFields ==
  ASSUME NEW m \in Message
  PROVE  /\ m.kind \in {"initialize", "request", "didOpen", "didChange", "didClose", "watched", "initialized", "exit", "reply"}
         /\ m.kind = "initialize" => m.id = InitializeId
         /\ m.kind = "request" => m.id \in Ids /\ m.file \in Files /\ m.seen \in Texts
         /\ m.kind \in {"didOpen", "didChange"} => m.uri \in Uris /\ m.text \in Texts
         /\ m.kind = "didClose" => m.uri \in Uris
         /\ m.kind = "watched" => m.changes \in Seq(Change)
  BY DEF Message

LEMMA MessagesMade ==
  /\ \A f \in Files, t \in Texts, k \in {"didOpen", "didChange"} :
       [kind |-> k, uri |-> EditorUri[f], text |-> t] \in Message
  /\ \A f \in Files : [kind |-> "didClose", uri |-> EditorUri[f]] \in Message
  /\ \A f \in Files, t \in Texts, id \in Ids :
       [kind |-> "request", id |-> id, file |-> f, seen |-> t] \in Message
  /\ \A s \in Seq(Change) : [kind |-> "watched", changes |-> s] \in Message
  /\ [kind |-> "exit"] \in Message
  /\ [kind |-> "initialized"] \in Message
  /\ [kind |-> "reply", id |-> RegisterId] \in Message
  /\ [kind |-> "initialize", id |-> InitializeId] \in Message
  BY UriAssumption DEF Message

LEMMA RequestMade ==
  ASSUME TypeOK, NEW f \in Files, Request(f)
  PROVE  /\ sent \in Nat /\ sent + 1 \in Ids
         /\ [kind |-> "request", id |-> sent + 1, file |-> f, seen |-> buffers[f]] \in Message
<1>1. sent \in Nat /\ sent + 1 \in Ids /\ buffers[f] \in Texts
  BY BoundsAssumption DEF Request, TypeOK, Ids
<1> QED
  BY <1>1, MessagesMade

\* What the editor sends back when it reads a message.
LEMMA ReceiveSends ==
  ASSUME Receive
  PROVE  \/ inbox' = inbox
         \/ \E m \in Message : m.kind \in {"initialized", "reply"} /\ inbox' = Append(inbox, m)
<1>1. \/ inbox' = inbox
      \/ inbox' = Append(inbox, [kind |-> "initialized"])
      \/ inbox' = Append(inbox, [kind |-> "reply", id |-> RegisterId])
  BY DEF Receive
<1> QED
  BY <1>1, MessagesMade

\* The change that is applied next.
LEMMA ChangeTaken ==
  ASSUME TypeOK, ApplyChange
  PROVE  /\ Head(batch) \in Change
         /\ Head(batch).file \in Files
         /\ Tail(batch) \in Seq(Change)
<1>1. Head(batch) \in Change /\ Tail(batch) \in Seq(Change)
  BY TakenFrom DEF ApplyChange, TypeOK
<1> QED
  BY <1>1 DEF Change

----------------------------------------------------------------------------
(* Types.                                                                  *)

LEMMA TypeInit == Init => TypeOK
<1> SUFFICES ASSUME Init PROVE TypeOK
  OBVIOUS
<1>1. inbox \in Seq(Message)
  BY MessagesMade DEF Init
<1>2. /\ notices \in Seq(Change) /\ batch \in Seq(Change)
      /\ outbox \in Seq(Report)
  BY EmptySeq DEF Init
<1>3. 0 \in 0..MaxRequests /\ received \in [Ids -> Nat]
  BY BoundsAssumption DEF Init, Ids
<1> QED
  BY <1>1, <1>2, <1>3 DEF Init, TypeOK

LEMMA TypeNext == TypeOK /\ [Next]_vars => TypeOK'
<1> SUFFICES ASSUME TypeOK, [Next]_vars PROVE TypeOK'
  OBVIOUS
<1>1. ASSUME NEW m \in Message, Send(m) PROVE inbox' \in Seq(Message)
  BY <1>1, AppendedTo DEF Send, TypeOK
<1>2. ASSUME NEW kind, Take(kind)
      PROVE  Head(inbox) \in Message /\ Head(inbox).kind = kind /\ inbox' \in Seq(Message)
  BY <1>2, TakenFrom DEF Take, TypeOK
<1>3. ASSUME NEW id \in Ids, Reply(id) PROVE outbox' \in Seq(Report)
  <2>1. [kind |-> "response", id |-> id] \in Report
    BY DEF Report
  <2> QED
    BY <1>3, <2>1, AppendedTo DEF Reply, TypeOK
<1>4. ASSUME NEW f \in Files, NEW t \in Texts \cup {NoText}, WriteDisk(f, t)
      PROVE  /\ disk' \in [Files -> Texts \cup {NoText}]
             /\ notices' \in Seq(Change)
             /\ missed' \subseteq Files
  <2>1. CASE watching
    <3> DEFINE ch == [file |-> f, type |-> IF t = NoText THEN "deleted"
                                           ELSE IF disk[f] = NoText THEN "created" ELSE "changed"]
    <3>1. ch \in Change
      BY DEF Change
    <3>2. notices' = Append(notices, ch) /\ missed' = missed \ {f} /\ disk' = [disk EXCEPT ![f] = t]
      BY <1>4, <2>1 DEF WriteDisk
    <3>3. notices' \in Seq(Change)
      BY <3>1, <3>2, AppendedTo DEF TypeOK
    <3> QED
      BY <3>2, <3>3 DEF TypeOK
  <2>2. CASE ~watching
    BY <1>4, <2>2 DEF WriteDisk, TypeOK
  <2> QED
    BY <2>1, <2>2
<1>10. CASE HandleInitialize
  <2>1. Head(inbox) \in Message /\ Head(inbox).id \in Ids /\ inbox' \in Seq(Message)
    BY <1>10, <1>2, MessageFields, BoundsAssumption DEF HandleInitialize, Ids, InitializeId
  <2> QED
    BY <1>10, <2>1, <1>3 DEF HandleInitialize, Take, TypeOK, diskVars, editorVars
<1>11. CASE WalkFile
  BY <1>11 DEF WalkFile, TypeOK, diskVars, editorVars
<1>12. CASE WalkDone
  BY <1>12 DEF WalkDone, TypeOK, diskVars, editorVars
<1>13. CASE HandleInitialized
  <2>1. [kind |-> "register"] \in Report
    BY DEF Report
  <2> QED
    BY <1>13, <1>2, <2>1, AppendedTo DEF HandleInitialized, Take, TypeOK, diskVars, editorVars, serverVars
<1>14. CASE HandleDidOpen
  BY <1>14, <1>2, MessageFields, UriAssumption DEF HandleDidOpen, SetDoc, Take, TypeOK, diskVars, editorVars
<1>15. CASE HandleDidChange
  BY <1>15, <1>2, MessageFields, UriAssumption DEF HandleDidChange, SetDoc, Take, TypeOK, diskVars, editorVars
<1>16. CASE HandleDidClose
  BY <1>16, <1>2 DEF HandleDidClose, Take, TypeOK, diskVars, editorVars
<1>17. CASE HandleWatched
  BY <1>17, <1>2, MessageFields DEF HandleWatched, Take, TypeOK, diskVars, editorVars
<1>18. CASE ApplyChange
  <2>1. Head(batch).file \in Files /\ Tail(batch) \in Seq(Change)
    BY <1>18, ChangeTaken
  <2> QED
    BY <1>18, <2>1 DEF ApplyChange, TypeOK, diskVars, editorVars
<1>19. CASE HandleRequest
  <2>1. Head(inbox).id \in Ids /\ inbox' \in Seq(Message)
    BY <1>19, <1>2, MessageFields DEF HandleRequest
  <2> QED
    BY <1>19, <2>1, <1>3 DEF HandleRequest, Take, TypeOK, diskVars, editorVars, serverVars
<1>20. CASE HandleExit
  BY <1>20, <1>2 DEF HandleExit, Take, TypeOK, diskVars, editorVars
<1>31. CASE HandleReply
  BY <1>31, <1>2 DEF HandleReply, Take, TypeOK, diskVars, editorVars, serverVars
<1>21. ASSUME NEW f \in Files, NEW t \in Texts, OpenDoc(f, t) PROVE TypeOK'
  BY <1>21, <1>1, MessagesMade DEF OpenDoc, Send, TypeOK, diskVars, serverVars
<1>22. ASSUME NEW f \in Files, NEW t \in Texts, ChangeDoc(f, t) PROVE TypeOK'
  BY <1>22, <1>1, MessagesMade DEF ChangeDoc, Send, TypeOK, diskVars, serverVars
<1>23. ASSUME NEW f \in Files, CloseDoc(f) PROVE TypeOK'
  BY <1>23, <1>1, MessagesMade DEF CloseDoc, Send, TypeOK, diskVars, serverVars
<1>24. ASSUME NEW f \in Files, Request(f) PROVE TypeOK'
  <2>1. sent + 1 \in 0..MaxRequests /\ sent + 1 \in Ids /\ buffers[f] \in Texts
    BY <1>24, BoundsAssumption DEF Request, TypeOK, Ids
  <2>2. inbox' \in Seq(Message)
    BY <1>24, <2>1, <1>1, MessagesMade DEF Request
  <2> QED
    BY <1>24, <2>1, <2>2 DEF Request, Send, TypeOK, diskVars, serverVars
<1>25. ASSUME NEW f \in Files, Save(f) PROVE TypeOK'
  BY <1>25, <1>4 DEF Save, TypeOK, editorVars, serverVars
<1>26. CASE SendNotices
  <2>1. inbox' \in Seq(Message)
    BY <1>26, <1>1, MessagesMade DEF SendNotices, TypeOK
  <2>2. << >> \in Seq(Change)
    BY EmptySeq
  <2> QED
    BY <1>26, <2>1, <2>2 DEF SendNotices, Send, TypeOK, editorVars, serverVars
<1>27. CASE Exit
  BY <1>27, <1>1, MessagesMade DEF Exit, Send, TypeOK, diskVars, editorVars, serverVars
<1>28. CASE Receive
  <2>1. Head(outbox) \in Report /\ outbox' \in Seq(Report)
    BY <1>28, TakenFrom DEF Receive, TypeOK
  <2>2. /\ Append(inbox, [kind |-> "initialized"]) \in Seq(Message)
        /\ Append(inbox, [kind |-> "reply", id |-> RegisterId]) \in Seq(Message)
    BY MessagesMade, AppendedTo DEF TypeOK
  <2>3. CASE Head(outbox).kind = "register"
    BY <1>28, <2>1, <2>2, <2>3 DEF Receive, TypeOK, diskVars, serverVars
  <2>4. CASE Head(outbox).kind = "response"
    <3>1. Head(outbox).id \in Ids
      BY <2>1, <2>4 DEF Report
    <3>2. /\ received' = [received EXCEPT ![Head(outbox).id] = @ + 1]
          /\ inbox' \in {inbox, Append(inbox, [kind |-> "initialized"])}
          /\ watching' = watching
      BY <1>28, <2>4 DEF Receive
    <3>3. inbox' \in Seq(Message)
      BY <2>2, <3>2 DEF TypeOK
    <3>4. received[Head(outbox).id] + 1 \in Nat
      BY <3>1 DEF TypeOK
    <3>5. received' \in [Ids -> Nat]
      BY <3>1, <3>2, <3>4 DEF TypeOK
    <3> QED
      BY <1>28, <2>1, <3>2, <3>3, <3>5 DEF Receive, TypeOK, diskVars, serverVars
  <2> QED
    BY <1>28, <2>3, <2>4 DEF Receive
<1>29. ASSUME NEW f \in Files, NEW t \in Texts \cup {NoText}, ExternalChange(f, t) PROVE TypeOK'
  BY <1>29, <1>4 DEF ExternalChange, TypeOK, editorVars, serverVars
<1>30. CASE UNCHANGED vars
  BY <1>30 DEF vars, diskVars, editorVars, serverVars, TypeOK
<1> QED
  BY <1>10, <1>11, <1>12, <1>13, <1>14, <1>15, <1>16, <1>17, <1>18, <1>19, <1>20, <1>21, <1>22, <1>23, <1>24,
     <1>25, <1>26, <1>27, <1>28, <1>29, <1>30, <1>31 DEF Next, Server, Editor, Disk

\* Every variable of disk, editor, wire and server keeps its type.
THEOREM ServerTypeCorrect == Spec => []TypeOK
  BY TypeInit, TypeNext, PTL DEF Spec

----------------------------------------------------------------------------
(* The order of a session: one initialize, then the walk, then service.    *)

NoDocs  == [u \in Uris |-> NoText]
NoFiles == [f \in Files |-> NoText]

\* Messages that may wait in the inbox once the server has started, and
\* while the editor watches nothing.
Started    == {m \in Message : m.kind # "initialize"}
Unreported == {m \in Message : m.kind # "watched"}
\* URIs the editor uses, and the messages about them.
EditedUri(u) == UriToPath[u] \in Editable /\ u = EditorUri[UriToPath[u]]
DocKinds == {"didOpen", "didChange", "didClose"}
OfEditable == {m \in Message : m.kind \in DocKinds => EditedUri(m.uri)}

Starting ==
  phase = "starting" => /\ inbox = <<[kind |-> "initialize", id |-> InitializeId]>>
                        /\ outbox = << >>
                        /\ received[InitializeId] = 0
                        /\ indexed = NoFiles
Walking    == phase \in {"starting", "walking"} => docs = NoDocs
Serving    == phase # "starting" => inbox \in Seq(Started)
Listing    == todo # {} => phase = "walking"
Applying   == batch # << >> => phase = "serving"
Unwatched  == ~watching => notices = << >> /\ batch = << >> /\ inbox \in Seq(Unreported)
EditedOnly == /\ \A f \in Files : buffers[f] # NoText => f \in Editable
              /\ \A u \in Uris : docs[u] # NoText => EditedUri(u)
              /\ inbox \in Seq(OfEditable)

ProtocolInv == /\ TypeOK
               /\ Starting
               /\ Walking
               /\ Serving
               /\ Listing
               /\ Applying
               /\ Unwatched
               /\ EditedOnly

LEMMA ProtocolInit == Init => ProtocolInv
<1> SUFFICES ASSUME Init PROVE ProtocolInv
  OBVIOUS
<1> DEFINE first == [kind |-> "initialize", id |-> InitializeId]
<1>1. TypeOK
  BY TypeInit
<1>2. first \in Unreported /\ first \in OfEditable
  BY MessagesMade DEF Unreported, OfEditable, DocKinds
<1>3. Starting /\ Walking /\ Serving /\ Listing /\ Applying
  BY BoundsAssumption DEF Init, Starting, Walking, Serving, Listing, Applying, NoDocs, NoFiles, Ids, InitializeId
<1>4. Unwatched
  BY <1>2 DEF Init, Unwatched
<1>5. EditedOnly
  BY <1>2 DEF Init, EditedOnly
<1> QED
  BY <1>1, <1>3, <1>4, <1>5 DEF ProtocolInv

\* What the editor sends once it is initialized.
LEMMA SendKeeps ==
  ASSUME ProtocolInv, NEW m \in Message, Send(m), m \in Started, m \in OfEditable,
         m \in Unreported \/ notices # << >>
  PROVE  /\ inbox' \in Seq(Message)
         /\ phase \in {"walking", "serving"}
         /\ inbox' \in Seq(Started)
         /\ inbox' \in Seq(OfEditable)
         /\ ~watching => inbox' \in Seq(Unreported)
<1>1. phase \in {"walking", "serving"}
  BY BoundsAssumption DEF Send, Initialized, ProtocolInv, Starting, TypeOK, Ids, InitializeId
<1>2. /\ inbox \in Seq(Message) /\ inbox \in Seq(Started) /\ inbox \in Seq(OfEditable)
      /\ ~watching => inbox \in Seq(Unreported) /\ notices = << >>
  BY <1>1 DEF ProtocolInv, TypeOK, Serving, EditedOnly, Unwatched
<1> QED
  BY <1>1, <1>2, AppendedTo DEF Send

\* A message is taken from the inbox.
LEMMA TakeKeeps ==
  ASSUME ProtocolInv, NEW kind, Take(kind)
  PROVE  /\ Head(inbox) \in Message
         /\ Head(inbox).kind = kind
         /\ Head(inbox) \in OfEditable
         /\ ~watching => Head(inbox) \in Unreported
         /\ inbox' \in Seq(OfEditable)
         /\ ~watching => inbox' \in Seq(Unreported)
         /\ phase = "starting" => kind = "initialize"
         /\ phase = "serving" => inbox' \in Seq(Started) /\ kind # "initialize"
         /\ phase = "starting" => inbox' \in Seq(Started)
<1>1. inbox \in Seq(Message) /\ inbox \in Seq(OfEditable) /\ (~watching => inbox \in Seq(Unreported))
  BY DEF ProtocolInv, TypeOK, EditedOnly, Unwatched
<1>2. CASE phase = "starting"
  <2>1. inbox = <<[kind |-> "initialize", id |-> InitializeId]>>
    BY <1>2 DEF ProtocolInv, Starting
  <2>2. Tail(inbox) = << >> /\ Head(inbox).kind = "initialize"
    BY <2>1
  <2>3. Tail(inbox) \in Seq(Started)
    BY <2>2, EmptySeq
  <2> QED
    BY <1>1, <1>2, <2>2, <2>3, TakenFrom DEF Take
<1>3. CASE phase = "serving"
  <2>1. inbox \in Seq(Started)
    BY <1>3 DEF ProtocolInv, Serving
  <2>2. Head(inbox) \in Started /\ Tail(inbox) \in Seq(Started)
    BY <2>1, TakenFrom DEF Take
  <2> QED
    BY <1>1, <1>3, <2>2, TakenFrom DEF Take, Started
<1> QED
  BY <1>2, <1>3 DEF Take

LEMMA ProtocolNext == ProtocolInv /\ [Next]_vars => ProtocolInv'
<1> SUFFICES ASSUME ProtocolInv, [Next]_vars PROVE ProtocolInv'
  OBVIOUS
<1>1. TypeOK /\ TypeOK'
  BY TypeNext DEF ProtocolInv
<1> USE DEF ProtocolInv
<1>10. CASE HandleInitialize
  <2>1. Take("initialize") /\ phase = "starting"
    BY <1>10, TakeKeeps, <1>1 DEF HandleInitialize, Take
  <2> QED
    BY <1>10, <2>1, <1>1, TakeKeeps
    DEF HandleInitialize, Take, Starting, Walking, Serving, Listing, Applying, Unwatched, EditedOnly, diskVars, editorVars
<1>11. CASE WalkFile
  BY <1>11, <1>1 DEF WalkFile, Starting, Walking, Serving, Listing, Applying, Unwatched, EditedOnly, diskVars, editorVars
<1>12. CASE WalkDone
  BY <1>12, <1>1 DEF WalkDone, Starting, Walking, Serving, Listing, Applying, Unwatched, EditedOnly, diskVars, editorVars
<1>13. CASE HandleInitialized
  BY <1>13, <1>1, TakeKeeps
  DEF HandleInitialized, Take, Starting, Walking, Serving, Listing, Applying, Unwatched, EditedOnly, diskVars, editorVars, serverVars
<1>14. CASE HandleDidOpen \/ HandleDidChange
  <2> DEFINE m == Head(inbox)
  <2>1. /\ phase = "serving" /\ m \in Message /\ m \in OfEditable /\ m.kind \in {"didOpen", "didChange"}
        /\ inbox' \in Seq(OfEditable) /\ inbox' \in Seq(Started)
        /\ ~watching => inbox' \in Seq(Unreported)
    BY <1>14, TakeKeeps DEF HandleDidOpen, HandleDidChange, Take
  <2>2. m.uri \in Uris /\ EditedUri(m.uri)
    BY <2>1, MessageFields DEF OfEditable, DocKinds
  <2>3. docs' = [docs EXCEPT ![m.uri] = m.text]
    BY <1>14 DEF HandleDidOpen, HandleDidChange, SetDoc
  <2>4. EditedOnly'
    BY <1>14, <1>1, <2>1, <2>2, <2>3 DEF HandleDidOpen, HandleDidChange, Take, EditedOnly, TypeOK, editorVars
  <2> QED
    BY <1>14, <1>1, <2>1, <2>4
    DEF HandleDidOpen, HandleDidChange, Take, Starting, Walking, Serving, Listing, Applying, Unwatched, diskVars, editorVars
<1>16. CASE HandleDidClose
  <2>1. /\ phase = "serving" /\ inbox' \in Seq(OfEditable) /\ inbox' \in Seq(Started)
        /\ ~watching => inbox' \in Seq(Unreported)
    BY <1>16, TakeKeeps DEF HandleDidClose, Take
  <2>2. \A u \in Uris : docs'[u] \in {docs[u], NoText}
    BY <1>16, <1>1 DEF HandleDidClose, TypeOK
  <2>3. EditedOnly'
    BY <1>16, <2>1, <2>2 DEF HandleDidClose, Take, EditedOnly, editorVars
  <2> QED
    BY <1>16, <1>1, <2>1, <2>3
    DEF HandleDidClose, Take, Starting, Walking, Serving, Listing, Applying, Unwatched, diskVars, editorVars
<1>17. CASE HandleWatched
  <2>1. /\ phase = "serving" /\ inbox' \in Seq(OfEditable) /\ inbox' \in Seq(Started) /\ watching
    BY <1>17, TakeKeeps DEF HandleWatched, Take, Unreported
  <2> QED
    BY <1>17, <1>1, <2>1
    DEF HandleWatched, Take, Starting, Walking, Serving, Listing, Applying, Unwatched, EditedOnly, diskVars, editorVars
<1>18. CASE ApplyChange
  <2>1. phase = "serving" /\ watching
    BY <1>18 DEF ApplyChange, Applying, Unwatched
  <2> QED
    BY <1>18, <1>1, <2>1
    DEF ApplyChange, Starting, Walking, Serving, Listing, Applying, Unwatched, EditedOnly, diskVars, editorVars
<1>19. CASE HandleRequest
  BY <1>19, <1>1, TakeKeeps
  DEF HandleRequest, Take, Starting, Walking, Serving, Listing, Applying, Unwatched, EditedOnly, diskVars, editorVars, serverVars
<1>22. CASE HandleReply
  BY <1>22, <1>1, TakeKeeps
  DEF HandleReply, Take, Starting, Walking, Serving, Listing, Applying, Unwatched, EditedOnly, diskVars, editorVars, serverVars
<1>20. CASE HandleExit
  <2>1. phase = "serving" /\ inbox' \in Seq(OfEditable) /\ inbox' \in Seq(Started)
        /\ (~watching => inbox' \in Seq(Unreported))
    BY <1>20, TakeKeeps DEF HandleExit, Take
  <2> QED
    BY <1>20, <1>1, <2>1
    DEF HandleExit, Take, Starting, Walking, Serving, Listing, Applying, Unwatched, EditedOnly, diskVars, editorVars
<1>21. ASSUME NEW f \in Files, (\E t \in Texts : OpenDoc(f, t) \/ ChangeDoc(f, t)) \/ CloseDoc(f)
       PROVE  ProtocolInv'
  <2>1. f \in Editable
    BY <1>21 DEF OpenDoc, ChangeDoc, CloseDoc, EditedOnly
  <2>2. PICK m \in Message : Send(m) /\ m.kind \in {"didOpen", "didChange", "didClose"} /\ m.uri = EditorUri[f]
    BY <1>21, MessagesMade DEF OpenDoc, ChangeDoc, CloseDoc
  <2>3. m \in OfEditable /\ m \in Started /\ m \in Unreported
    BY <2>1, <2>2, UriAssumption DEF OfEditable, DocKinds, EditedUri, Started, Unreported
  <2>4. \A g \in Files : buffers'[g] # NoText => g \in Editable
    BY <1>21, <1>1, <2>1 DEF OpenDoc, ChangeDoc, CloseDoc, EditedOnly, TypeOK
  <2>5. UNCHANGED <<diskVars, watching, sent, received, outbox, serverVars>>
    BY <1>21 DEF OpenDoc, ChangeDoc, CloseDoc, Send
  <2> QED
    BY <1>1, <2>2, <2>3, <2>4, <2>5, SendKeeps
    DEF Starting, Walking, Serving, Listing, Applying, Unwatched, EditedOnly, diskVars, serverVars
<1>24. ASSUME NEW f \in Files, Request(f) PROVE ProtocolInv'
  <2> DEFINE m == [kind |-> "request", id |-> sent + 1, file |-> f, seen |-> buffers[f]]
  <2>1. m \in Message
    BY <1>24, <1>1, RequestMade
  <2>2. m \in OfEditable /\ m \in Started /\ m \in Unreported /\ Send(m)
    BY <1>24, <2>1 DEF OfEditable, DocKinds, Started, Unreported, Request
  <2> QED
    BY <1>24, <1>1, <2>1, <2>2, SendKeeps
    DEF Request, Send, Starting, Walking, Serving, Listing, Applying, Unwatched, EditedOnly, diskVars, serverVars
<1>25. ASSUME NEW f \in Files, Save(f) \/ \E t \in Texts \cup {NoText} : ExternalChange(f, t) PROVE ProtocolInv'
  <2>1. UNCHANGED <<editorVars, inbox, outbox, serverVars>> /\ (~watching => UNCHANGED notices)
    BY <1>25 DEF Save, ExternalChange, WriteDisk
  <2> QED
    BY <1>1, <2>1 DEF Starting, Walking, Serving, Listing, Applying, Unwatched, EditedOnly, editorVars, serverVars
<1>26. CASE SendNotices
  <2> DEFINE m == [kind |-> "watched", changes |-> notices]
  <2>1. m \in Message /\ m \in OfEditable /\ m \in Started /\ Send(m) /\ notices # << >> /\ watching
    BY <1>26, <1>1, MessagesMade DEF OfEditable, DocKinds, Started, SendNotices, TypeOK, Unwatched
  <2> QED
    BY <1>26, <1>1, <2>1, SendKeeps
    DEF SendNotices, Send, Starting, Walking, Serving, Listing, Applying, Unwatched, EditedOnly, editorVars, serverVars
<1>27. CASE Exit
  <2> DEFINE m == [kind |-> "exit"]
  <2>1. m \in Message /\ m \in OfEditable /\ m \in Started /\ m \in Unreported /\ Send(m)
    BY <1>27, MessagesMade DEF OfEditable, DocKinds, Started, Unreported, Exit
  <2> QED
    BY <1>27, <1>1, <2>1, SendKeeps
    DEF Exit, Send, Starting, Walking, Serving, Listing, Applying, Unwatched, EditedOnly, diskVars, editorVars, serverVars
<1>28. CASE Receive
  <2>1. \A m \in Message : m.kind \in {"initialized", "reply"} => m \in OfEditable /\ m \in Started /\ m \in Unreported
    BY DEF OfEditable, DocKinds, Started, Unreported
  <2>2. phase # "starting"
    BY <1>28 DEF Receive, Starting
  <2>3. watching => watching'
    BY <1>28, <1>1 DEF Receive, TypeOK
  <2>4. CASE inbox' = inbox
    BY <1>28, <1>1, <2>2, <2>3, <2>4
    DEF Receive, Starting, Walking, Serving, Listing, Applying, Unwatched, EditedOnly, diskVars, serverVars
  <2>5. ASSUME NEW m \in Message, m.kind \in {"initialized", "reply"}, inbox' = Append(inbox, m) PROVE ProtocolInv'
    <3>1. m \in OfEditable /\ m \in Started /\ m \in Unreported
      BY <2>1, <2>5
    <3>2. inbox' \in Seq(Started)
      BY <2>2, <2>5, <3>1, AppendedTo DEF Serving
    <3>3. inbox' \in Seq(OfEditable)
      BY <2>5, <3>1, AppendedTo DEF EditedOnly
    <3>4. ~watching => inbox' \in Seq(Unreported)
      BY <2>5, <3>1, AppendedTo DEF Unwatched
    <3> QED
      BY <1>28, <1>1, <2>2, <2>3, <3>2, <3>3, <3>4
      DEF Receive, Starting, Walking, Serving, Listing, Applying, Unwatched, EditedOnly, diskVars, serverVars
  <2> QED
    BY <1>28, <2>4, <2>5, ReceiveSends
<1>30. CASE UNCHANGED vars
  BY <1>30, <1>1
  DEF vars, diskVars, editorVars, serverVars, Starting, Walking, Serving, Listing, Applying, Unwatched, EditedOnly
<1>31. CASE Server
  BY <1>31, <1>10, <1>11, <1>12, <1>13, <1>14, <1>16, <1>17, <1>18, <1>19, <1>20, <1>22 DEF Server
<1>32. CASE Editor
  BY <1>32, <1>21, <1>24, <1>25, <1>26, <1>27, <1>28 DEF Editor
<1>33. CASE Disk
  BY <1>33, <1>25 DEF Disk
<1> QED
  BY <1>30, <1>31, <1>32, <1>33 DEF Next

----------------------------------------------------------------------------
(* Live text.                                                              *)

\* The editor and net/url spell every URI alike.
SameSpelling == \A f \in Files : EditorUri[f] = PathToUri[f]

\* The only steps that change a document or an entry of the index.
LEMMA TextSteps ==
  ASSUME [Next]_vars
  PROVE  \/ WalkFile \/ HandleDidOpen \/ HandleDidChange \/ HandleDidClose \/ ApplyChange
         \/ UNCHANGED <<docs, indexed>>
  BY DEF Next, Server, Editor, Disk, HandleInitialize, WalkDone, HandleInitialized, HandleWatched, HandleRequest,
         HandleReply, HandleExit, OpenDoc, ChangeDoc, CloseDoc, Request, Save, SendNotices, Exit, Receive,
         ExternalChange, Send, vars, serverVars

LEMMA LiveNext ==
  ASSUME SameSpelling, ProtocolInv, LiveTextNotShadowed, [Next]_vars
  PROVE  LiveTextNotShadowed'
<1>1. TypeOK /\ \A u \in Uris : docs[u] # NoText => EditedUri(u)
  BY DEF ProtocolInv, EditedOnly
<1>2. CASE WalkFile
  BY <1>2 DEF WalkFile, ProtocolInv, Walking, NoDocs, LiveTextNotShadowed
<1>3. CASE HandleDidOpen \/ HandleDidChange
  <2> DEFINE m == Head(inbox)
  <2>1. m \in Message /\ m \in OfEditable /\ m.kind \in {"didOpen", "didChange"}
    BY <1>3, TakeKeeps DEF HandleDidOpen, HandleDidChange
  <2>2. m.uri \in Uris /\ m.text \in Texts /\ EditedUri(m.uri) /\ UriToPath[m.uri] \in Files
    BY <2>1, MessageFields, UriAssumption DEF OfEditable, DocKinds
  <2>3. docs' = [docs EXCEPT ![m.uri] = m.text] /\ indexed' = [indexed EXCEPT ![UriToPath[m.uri]] = m.text]
    BY <1>3 DEF HandleDidOpen, HandleDidChange, SetDoc
  <2>4. ASSUME NEW u \in Uris, docs'[u] # NoText PROVE indexed'[UriToPath[u]] \in {docs'[u], NoText}
    <3>1. CASE u = m.uri
      BY <1>1, <2>2, <2>3, <3>1 DEF TypeOK
    <3>2. CASE u # m.uri
      <4>1. docs'[u] = docs[u] /\ EditedUri(u)
        BY <1>1, <2>2, <2>3, <2>4, <3>2 DEF TypeOK
      <4>2. UriToPath[u] # UriToPath[m.uri]
        BY <2>2, <3>2, <4>1 DEF EditedUri
      <4>3. indexed'[UriToPath[u]] = indexed[UriToPath[u]]
        BY <1>1, <2>3, <4>2, UriAssumption DEF TypeOK
      <4> QED
        BY <2>4, <4>1, <4>3 DEF LiveTextNotShadowed
    <3> QED
      BY <3>1, <3>2
  <2> QED
    BY <2>4 DEF LiveTextNotShadowed
<1>4. CASE HandleDidClose
  <2>1. \A u \in Uris : docs'[u] \in {docs[u], NoText}
    BY <1>1, <1>4 DEF HandleDidClose, TypeOK
  <2> QED
    BY <1>4, <2>1 DEF HandleDidClose, LiveTextNotShadowed
<1>5. CASE ApplyChange
  <2> DEFINE f == Head(batch).file
  <2>1. f \in Files
    BY <1>1, <1>5, ChangeTaken
  <2>2. CASE Head(batch).type = "deleted" \/ Unread(f)
    <3>1. \A g \in Files : indexed'[g] \in {indexed[g], NoText}
      BY <1>1, <1>5, <2>1, <2>2 DEF ApplyChange, TypeOK
    <3> QED
      BY <1>5, <3>1, UriAssumption DEF ApplyChange, LiveTextNotShadowed
  <2>3. CASE ~(Head(batch).type = "deleted") /\ ~Unread(f)
    <3>1. indexed' = [indexed EXCEPT ![f] = disk[f]] /\ docs' = docs
      BY <1>5, <2>3 DEF ApplyChange
    <3>2. \A u \in Uris : docs[u] # NoText => UriToPath[u] # f
      BY <1>1, <2>1, <2>3 DEF EditedUri, SameSpelling, Unread
    <3> QED
      BY <1>1, <3>1, <3>2, UriAssumption DEF LiveTextNotShadowed, TypeOK
  <2> QED
    BY <2>2, <2>3
<1>6. CASE UNCHANGED <<docs, indexed>>
  BY <1>6 DEF LiveTextNotShadowed
<1> QED
  BY <1>2, <1>3, <1>4, <1>5, <1>6, TextSteps

\* While a document is open, a copy read from the disk never takes the place of
\* its live text in the index, whatever happens on disk and however late the
\* notices are, provided that the editor spells its URIs as the server does.
THEOREM LiveTextNeverShadowed ==
  ASSUME SameSpelling
  PROVE  Spec => []LiveTextNotShadowed
<1>1. Init => ProtocolInv /\ LiveTextNotShadowed
  BY ProtocolInit DEF Init, LiveTextNotShadowed
<1>2. ProtocolInv /\ LiveTextNotShadowed /\ [Next]_vars => (ProtocolInv /\ LiveTextNotShadowed)'
  BY ProtocolNext, LiveNext
<1> QED
  BY <1>1, <1>2, PTL DEF Spec

----------------------------------------------------------------------------
(* The text a request is answered from.                                    *)

\* A message that changes the document of f, and what it leaves there.
About(m, f) == m.kind \in DocKinds /\ m.uri = EditorUri[f]
TextOf(m) == IF m.kind = "didClose" THEN NoText ELSE m.text

\* Once the first n messages are handled, the document of f holds t.
Holds(f, n, t) ==
  \/ \E i \in 1..n : /\ About(inbox[i], f)
                     /\ TextOf(inbox[i]) = t
                     /\ \A j \in i + 1..n : ~About(inbox[j], f)
  \/ /\ \A i \in 1..n : ~About(inbox[i], f)
     /\ docs[EditorUri[f]] = t

\* When everything sent has been handled, the documents are the buffers; when
\* a request is reached, its document is what its sender saw.
BuffersFollow == \A f \in Files : Holds(f, Len(inbox), buffers[f])
RequestsFollow ==
  \A i \in 1..Len(inbox) : inbox[i].kind = "request" => Holds(inbox[i].file, i - 1, inbox[i].seen)
Follow == BuffersFollow /\ RequestsFollow

\* A message leaves the inbox and takes its effect.
LEMMA HoldsTaken ==
  ASSUME TypeOK, inbox # << >>, inbox' = Tail(inbox), NEW f \in Files, NEW n \in 1..Len(inbox), NEW t,
         docs'[EditorUri[f]] = IF About(Head(inbox), f) THEN TextOf(Head(inbox)) ELSE docs[EditorUri[f]],
         Holds(f, n, t)
  PROVE  Holds(f, n - 1, t)'
<1>1. Head(inbox) = inbox[1] /\ \A j \in 1..n - 1 : inbox'[j] = inbox[j + 1]
  BY TakenFrom DEF TypeOK
<1>2. Len(inbox) \in Nat /\ n \in Nat \ {0}
  BY TakenFrom DEF TypeOK
<1>3. ASSUME NEW i \in 1..n, About(inbox[i], f), TextOf(inbox[i]) = t, \A j \in i + 1..n : ~About(inbox[j], f)
      PROVE  Holds(f, n - 1, t)'
  <2>1. CASE i = 1
    <3>1. docs'[EditorUri[f]] = t
      BY <1>1, <1>3, <2>1
    <3>2. \A j \in 1..n - 1 : j + 1 \in i + 1..n
      BY <1>2, <2>1
    <3>3. \A j \in 1..n - 1 : ~About(inbox'[j], f)
      BY <1>1, <1>3, <3>2
    <3> QED
      BY <3>1, <3>3 DEF Holds, About
  <2>2. CASE i # 1
    <3>1. i - 1 \in 1..n - 1 /\ (i - 1) + 1 = i
      BY <1>2, <2>2
    <3>2. inbox'[i - 1] = inbox[i]
      BY <1>1, <3>1
    <3>3. \A j \in (i - 1) + 1..n - 1 : j + 1 \in i + 1..n /\ j \in 1..n - 1
      BY <1>2, <3>1
    <3>4. \A j \in (i - 1) + 1..n - 1 : ~About(inbox'[j], f)
      BY <1>1, <1>3, <3>3
    <3> QED
      BY <1>3, <3>1, <3>2, <3>4 DEF Holds, About, TextOf
  <2> QED
    BY <2>1, <2>2
<1>4. ASSUME \A i \in 1..n : ~About(inbox[i], f), docs[EditorUri[f]] = t
      PROVE  Holds(f, n - 1, t)'
  <2>1. docs'[EditorUri[f]] = t
    BY <1>1, <1>2, <1>4
  <2>2. \A j \in 1..n - 1 : j + 1 \in 1..n
    BY <1>2
  <2>3. \A j \in 1..n - 1 : ~About(inbox'[j], f)
    BY <1>1, <1>4, <2>2
  <2> QED
    BY <2>1, <2>3 DEF Holds, About
<1> QED
  BY <1>3, <1>4 DEF Holds

\* A message joins the inbox.
LEMMA HoldsSent ==
  ASSUME TypeOK, NEW m \in Message, inbox' = Append(inbox, m), docs' = docs, NEW f \in Files, NEW t
  PROVE  /\ \A n \in 0..Len(inbox) : Holds(f, n, t) => Holds(f, n, t)'
         /\ ~About(m, f) /\ Holds(f, Len(inbox), t) => Holds(f, Len(inbox), t)'
         /\ About(m, f) /\ t = TextOf(m) => Holds(f, Len(inbox), t)'
<1>1. /\ Len(inbox) \in Nat
      /\ Len(inbox') = Len(inbox) + 1
      /\ inbox'[Len(inbox) + 1] = m
      /\ \A i \in 1..Len(inbox) : inbox'[i] = inbox[i]
  BY AppendedTo, AppendProperties DEF TypeOK
<1>2. ASSUME NEW n \in 0..Len(inbox), Holds(f, n, t) PROVE Holds(f, n, t)'
  <2>1. \A i \in 1..n : inbox'[i] = inbox[i]
    BY <1>1
  <2>2. ASSUME NEW i \in 1..n, About(inbox[i], f), TextOf(inbox[i]) = t, \A j \in i + 1..n : ~About(inbox[j], f)
        PROVE  Holds(f, n, t)'
    <3>1. \A j \in i + 1..n : j \in 1..n
      BY <1>1
    <3>2. \A j \in i + 1..n : ~About(inbox'[j], f)
      BY <2>1, <2>2, <3>1
    <3> QED
      BY <2>1, <2>2, <3>2 DEF Holds, About, TextOf
  <2> QED
    BY <1>2, <2>1, <2>2 DEF Holds, About
<1>3. ASSUME ~About(m, f), Holds(f, Len(inbox), t) PROVE Holds(f, Len(inbox), t)'
  <2>1. PICK n \in Nat : n = Len(inbox)
    BY <1>1
  <2>2. n \in 0..Len(inbox) /\ Holds(f, n, t)
    BY <1>3, <2>1
  <2>3. Holds(f, n, t)'
    BY <1>2, <2>2
  <2>4. Len(inbox') = n + 1 /\ ~About(inbox'[n + 1], f)
    BY <1>1, <1>3, <2>1
  <2>5. CASE \E i \in 1..n : /\ About(inbox'[i], f)
                             /\ TextOf(inbox'[i]) = t
                             /\ \A j \in i + 1..n : ~About(inbox'[j], f)
    <3>1. PICK i \in 1..n : /\ About(inbox'[i], f)
                            /\ TextOf(inbox'[i]) = t
                            /\ \A j \in i + 1..n : ~About(inbox'[j], f)
      BY <2>5
    <3>2. \A j \in i + 1..n + 1 : j \in i + 1..n \/ j = n + 1
      BY <2>1
    <3>3. i \in 1..n + 1 /\ \A j \in i + 1..n + 1 : ~About(inbox'[j], f)
      BY <2>1, <2>4, <3>1, <3>2
    <3> QED
      BY <2>4, <3>1, <3>3 DEF Holds, About, TextOf
  <2>6. CASE (\A i \in 1..n : ~About(inbox'[i], f)) /\ docs'[EditorUri[f]] = t
    BY <2>4, <2>6 DEF Holds, About, TextOf
  <2> QED
    BY <2>3, <2>5, <2>6 DEF Holds, About, TextOf
<1>4. ASSUME About(m, f), t = TextOf(m) PROVE Holds(f, Len(inbox), t)'
  <2>1. PICK n \in Nat : n = Len(inbox)
    BY <1>1
  <2>2. Len(inbox') = n + 1 /\ inbox'[n + 1] = m /\ n + 1 \in 1..n + 1 /\ (n + 1) + 1..n + 1 = {}
    BY <1>1, <2>1
  <2> QED
    BY <1>4, <2>2 DEF Holds, About, TextOf
<1> QED
  BY <1>2, <1>3, <1>4

LEMMA FollowTaken ==
  ASSUME TypeOK, Follow, inbox # << >>, inbox' = Tail(inbox), buffers' = buffers,
         \A f \in Files : docs'[EditorUri[f]] = IF About(Head(inbox), f) THEN TextOf(Head(inbox))
                                                ELSE docs[EditorUri[f]]
  PROVE  Follow'
<1>1. PICK n \in Nat \ {0} : n = Len(inbox)
  BY TakenFrom DEF TypeOK
<1>2. Len(inbox') = n - 1 /\ \A i \in 1..n - 1 : inbox'[i] = inbox[i + 1]
  BY <1>1, TakenFrom, HeadTailProperties DEF TypeOK
<1>3. ASSUME NEW f \in Files PROVE Holds(f, Len(inbox), buffers[f])'
  <2>1. PICK t : t = buffers[f]
    OBVIOUS
  <2>2. Holds(f, n, t)
    BY <1>1, <2>1 DEF Follow, BuffersFollow
  <2>3. Holds(f, n - 1, t)'
    BY <1>1, <2>2, HoldsTaken
  <2> QED
    BY <1>2, <2>1, <2>3 DEF Holds
<1>4. ASSUME NEW i \in 1..n - 1, inbox'[i].kind = "request"
      PROVE  Holds(inbox[i].file, i - 1, inbox[i].seen)'
  <2>1. inbox[i + 1] \in Message /\ i + 1 \in 1..Len(inbox) /\ i \in 1..Len(inbox)
    BY <1>1, ElementOfSeq DEF TypeOK
  <2>2. PICK f, t : f = inbox[i + 1].file /\ t = inbox[i + 1].seen
    OBVIOUS
  <2>3. f \in Files /\ inbox[i + 1].kind = "request"
    BY <1>2, <1>4, <2>1, <2>2, MessageFields
  <2>4. (i + 1) - 1 = i
    BY <1>1
  <2>5. Holds(f, i, t)
    BY <2>1, <2>2, <2>3, <2>4 DEF Follow, RequestsFollow
  <2>6. Holds(f, i - 1, t)'
    BY <2>1, <2>3, <2>5, HoldsTaken
  <2> QED
    BY <1>2, <2>2, <2>6 DEF Holds
<1> QED
  BY <1>2, <1>3, <1>4 DEF Follow, BuffersFollow, RequestsFollow

LEMMA FollowSent ==
  ASSUME TypeOK, Follow, NEW m \in Message, inbox' = Append(inbox, m), docs' = docs,
         \A f \in Files : buffers'[f] = IF About(m, f) THEN TextOf(m) ELSE buffers[f],
         m.kind = "request" => m.seen = buffers[m.file]
  PROVE  Follow'
<1>1. PICK n \in Nat : n = Len(inbox)
  BY AppendedTo DEF TypeOK
<1>2. Len(inbox') = n + 1 /\ inbox'[n + 1] = m /\ \A i \in 1..n : inbox'[i] = inbox[i]
  BY <1>1, AppendedTo, AppendProperties DEF TypeOK
<1>3. ASSUME NEW f \in Files PROVE Holds(f, Len(inbox), buffers[f])'
  <2>1. PICK t : t = buffers'[f]
    OBVIOUS
  <2>2. Holds(f, Len(inbox), buffers[f])
    BY DEF Follow, BuffersFollow
  <2>3. Holds(f, Len(inbox), t)'
    BY <2>1, <2>2, HoldsSent
  <2> QED
    BY <2>1, <2>3 DEF Holds
<1>4. ASSUME NEW i \in 1..n + 1, inbox'[i].kind = "request"
      PROVE  Holds(inbox[i].file, i - 1, inbox[i].seen)'
  <2>1. PICK f, t : f = inbox'[i].file /\ t = inbox'[i].seen
    OBVIOUS
  <2>2. f \in Files /\ Holds(f, i - 1, t) /\ i - 1 \in 0..Len(inbox)
    <3>1. CASE i \in 1..n
      <4>1. inbox[i] \in Message /\ inbox'[i] = inbox[i]
        BY <1>1, <1>2, <3>1, ElementOfSeq DEF TypeOK
      <4> QED
        BY <1>1, <1>4, <2>1, <3>1, <4>1, MessageFields DEF Follow, RequestsFollow
    <3>2. CASE i = n + 1
      <4>1. m.kind = "request" /\ f = m.file /\ t = buffers[f] /\ i - 1 = n
        BY <1>1, <1>2, <1>4, <2>1, <3>2
      <4> QED
        BY <1>1, <4>1, MessageFields DEF Follow, BuffersFollow
    <3> QED
      BY <1>1, <3>1, <3>2
  <2>3. Holds(f, i - 1, t)'
    BY <2>2, HoldsSent
  <2> QED
    BY <2>1, <2>3 DEF Holds
<1> QED
  BY <1>2, <1>3, <1>4 DEF Follow, BuffersFollow, RequestsFollow

LEMMA FollowInit == Init => Follow
<1> SUFFICES ASSUME Init PROVE Follow
  OBVIOUS
<1>1. Len(inbox) = 1 /\ inbox[1].kind = "initialize"
  BY DEF Init
<1>2. \A f \in Files : EditorUri[f] \in Uris /\ docs[EditorUri[f]] = buffers[f]
  BY UriAssumption DEF Init
<1>3. \A f \in Files, i \in 1..1 : ~About(inbox[i], f)
  BY <1>1 DEF About, DocKinds
<1>4. BuffersFollow
  BY <1>1, <1>2, <1>3 DEF BuffersFollow, Holds
<1> QED
  BY <1>1, <1>4 DEF Follow, RequestsFollow

LEMMA FollowNext == TypeOK /\ Follow /\ [Next]_vars => Follow'
<1> SUFFICES ASSUME TypeOK, Follow, [Next]_vars PROVE Follow'
  OBVIOUS
<1>1. ASSUME UNCHANGED <<inbox, docs, buffers>> PROVE Follow'
  BY <1>1 DEF Follow, BuffersFollow, RequestsFollow, Holds
<1>2. ASSUME NEW kind, Take(kind), kind \notin DocKinds, docs' = docs PROVE Follow'
  <2>1. \A f \in Files : ~About(Head(inbox), f)
    BY <1>2 DEF Take, About
  <2> QED
    BY <1>2, <2>1, FollowTaken DEF Take, editorVars
<1>3. ASSUME NEW m \in Message, Send(m), m.kind \notin DocKinds, buffers' = buffers,
             m.kind = "request" => m.seen = buffers[m.file]
      PROVE  Follow'
  BY <1>3, FollowSent DEF Send, serverVars, About
<1>4. CASE HandleInitialize \/ HandleInitialized \/ HandleWatched \/ HandleRequest \/ HandleReply \/ HandleExit
  BY <1>4, <1>2
  DEF HandleInitialize, HandleInitialized, HandleWatched, HandleRequest, HandleReply, HandleExit, serverVars, DocKinds
<1>5. CASE HandleDidOpen \/ HandleDidChange
  <2> DEFINE m == Head(inbox)
  <2>1. Take(m.kind) /\ m.kind \in {"didOpen", "didChange"} /\ docs' = [docs EXCEPT ![m.uri] = m.text]
    BY <1>5 DEF HandleDidOpen, HandleDidChange, SetDoc, Take
  <2>2. \A f \in Files : docs'[EditorUri[f]] = IF About(m, f) THEN TextOf(m) ELSE docs[EditorUri[f]]
    BY <2>1, UriAssumption DEF TypeOK, About, TextOf, DocKinds
  <2> QED
    BY <2>1, <2>2, FollowTaken DEF Take, editorVars
<1>6. CASE HandleDidClose
  <2> DEFINE m == Head(inbox)
  <2>1. Take("didClose") /\ m.kind = "didClose" /\ docs' = [docs EXCEPT ![m.uri] = NoText]
    BY <1>6 DEF HandleDidClose, Take
  <2>2. TextOf(m) = NoText /\ \A f \in Files : About(m, f) <=> m.uri = EditorUri[f]
    BY <2>1 DEF About, TextOf, DocKinds
  <2>3. \A f \in Files : docs'[EditorUri[f]] = IF m.uri = EditorUri[f] THEN NoText ELSE docs[EditorUri[f]]
    BY <2>1, UriAssumption DEF TypeOK
  <2>4. \A f \in Files : docs'[EditorUri[f]] = IF About(m, f) THEN TextOf(m) ELSE docs[EditorUri[f]]
    BY <2>2, <2>3
  <2> QED
    BY <2>1, <2>4, FollowTaken DEF Take, editorVars
<1>7. CASE WalkFile \/ WalkDone \/ ApplyChange
  BY <1>7, <1>1 DEF WalkFile, WalkDone, ApplyChange, editorVars
<1>8. ASSUME NEW f \in Files, (\E t \in Texts : OpenDoc(f, t) \/ ChangeDoc(f, t)) \/ CloseDoc(f) PROVE Follow'
  <2>1. PICK m \in Message : /\ Send(m) /\ m.kind \in DocKinds /\ m.uri = EditorUri[f]
                             /\ buffers' = [buffers EXCEPT ![f] = TextOf(m)]
    <3>1. ASSUME NEW t \in Texts, OpenDoc(f, t)
          PROVE  \E m \in Message : /\ Send(m) /\ m.kind = "didOpen" /\ m.uri = EditorUri[f]
                                    /\ buffers' = [buffers EXCEPT ![f] = m.text]
      BY <3>1, MessagesMade DEF OpenDoc
    <3>2. ASSUME NEW t \in Texts, ChangeDoc(f, t)
          PROVE  \E m \in Message : /\ Send(m) /\ m.kind = "didChange" /\ m.uri = EditorUri[f]
                                    /\ buffers' = [buffers EXCEPT ![f] = m.text]
      BY <3>2, MessagesMade DEF ChangeDoc
    <3>3. ASSUME CloseDoc(f)
          PROVE  \E m \in Message : /\ Send(m) /\ m.kind = "didClose" /\ m.uri = EditorUri[f]
                                    /\ buffers' = [buffers EXCEPT ![f] = NoText]
      BY <3>3, MessagesMade DEF CloseDoc
    <3> QED
      BY <1>8, <3>1, <3>2, <3>3 DEF TextOf, DocKinds
  <2>2. \A g \in Files : About(m, g) <=> g = f
    BY <2>1, UriAssumption DEF About
  <2>3. \A g \in Files : buffers'[g] = IF About(m, g) THEN TextOf(m) ELSE buffers[g]
    BY <2>1, <2>2 DEF TypeOK
  <2> QED
    BY <2>1, <2>3, FollowSent DEF Send, serverVars, DocKinds
<1>9. ASSUME NEW f \in Files, Request(f) PROVE Follow'
  <2> DEFINE m == [kind |-> "request", id |-> sent + 1, file |-> f, seen |-> buffers[f]]
  <2>1. m \in Message
    BY <1>9, RequestMade
  <2> QED
    BY <1>9, <1>3, <2>1 DEF Request, DocKinds
<1>10. CASE SendNotices \/ Exit
  BY <1>10, <1>3, MessagesMade DEF SendNotices, Exit, TypeOK, editorVars, DocKinds
<1>11. CASE Receive
  <2>1. docs' = docs /\ buffers' = buffers
    BY <1>11 DEF Receive, serverVars
  <2>2. CASE inbox' = inbox
    BY <2>1, <2>2, <1>1
  <2>3. ASSUME NEW m \in Message, m.kind \in {"initialized", "reply"}, inbox' = Append(inbox, m) PROVE Follow'
    BY <2>1, <2>3, FollowSent DEF About, DocKinds
  <2> QED
    BY <1>11, <2>2, <2>3, ReceiveSends
<1>12. ASSUME NEW f \in Files, Save(f) \/ \E t \in Texts \cup {NoText} : ExternalChange(f, t) PROVE Follow'
  BY <1>12, <1>1 DEF Save, ExternalChange, editorVars, serverVars
<1>13. CASE UNCHANGED vars
  BY <1>13, <1>1 DEF vars, editorVars, serverVars
<1>14. CASE Server
  BY <1>14, <1>4, <1>5, <1>6, <1>7 DEF Server
<1>15. CASE Editor
  BY <1>15, <1>8, <1>9, <1>10, <1>11, <1>12 DEF Editor
<1>16. CASE Disk
  BY <1>16, <1>12 DEF Disk
<1> QED
  BY <1>13, <1>14, <1>15, <1>16 DEF Next

LEMMA SeenIsShown ==
  ASSUME SameSpelling, TypeOK, Follow
  PROVE  RequestSeesBuffer
<1> SUFFICES ASSUME AboutToAnswer PROVE SourceOf(Head(inbox).file) = Head(inbox).seen
  BY DEF RequestSeesBuffer
<1> DEFINE m == Head(inbox)
<1>1. m = inbox[1] /\ 1 \in 1..Len(inbox) /\ m \in Message /\ m.kind = "request"
  BY TakenFrom DEF TypeOK, AboutToAnswer
<1>2. m.file \in Files /\ m.seen \in Texts
  BY <1>1, MessageFields
<1>3. Holds(m.file, 0, m.seen)
  <2>1. Holds(inbox[1].file, 1 - 1, inbox[1].seen)
    BY <1>1 DEF Follow, RequestsFollow
  <2> QED
    BY <1>1, <2>1
<1>4. docs[EditorUri[m.file]] = m.seen
  BY <1>3 DEF Holds
<1> QED
  BY <1>2, <1>4, TextsAssumption DEF SourceOf, SameSpelling

\* However many edits, notices and requests are under way, a request is
\* answered from the text that was on the screen when it was asked.
THEOREM RequestsSeeBuffers ==
  ASSUME SameSpelling
  PROVE  Spec => []RequestSeesBuffer
<1>1. Init => TypeOK /\ Follow
  BY TypeInit, FollowInit
<1>2. TypeOK /\ Follow /\ [Next]_vars => (TypeOK /\ Follow)'
  BY TypeNext, FollowNext
<1>3. TypeOK /\ Follow => RequestSeesBuffer
  BY SeenIsShown
<1> QED
  BY <1>1, <1>2, <1>3, PTL DEF Spec

----------------------------------------------------------------------------
(* Answers.                                                                *)

\* Where a stream holds messages of these kinds for id.
Places(s, kinds, id) == {i \in DOMAIN s : s[i].kind \in kinds /\ s[i].id = id}

LEMMA PlacesTaken ==
  ASSUME NEW S, NEW s \in Seq(S), s # << >>, NEW kinds, NEW id
  PROVE  /\ Head(s).kind \in kinds /\ Head(s).id = id <=> 1 \in Places(s, kinds, id)
         /\ Places(s, kinds, id) = {} => Places(Tail(s), kinds, id) = {}
         /\ Places(s, kinds, id) = {1} => Places(Tail(s), kinds, id) = {}
         /\ \A k : k # 1 /\ Places(s, kinds, id) = {k} => Places(Tail(s), kinds, id) = {k - 1}
<1>1. /\ Len(s) \in Nat \ {0} /\ DOMAIN s = 1..Len(s) /\ Head(s) = s[1]
      /\ DOMAIN Tail(s) = 1..Len(s) - 1 /\ \A i \in 1..Len(s) - 1 : Tail(s)[i] = s[i + 1]
  BY TakenFrom
<1>2. \A i \in 1..Len(s) - 1 : i \in Places(Tail(s), kinds, id) <=> i + 1 \in Places(s, kinds, id)
  BY <1>1 DEF Places
<1>3. Places(Tail(s), kinds, id) \subseteq 1..Len(s) - 1 /\ Places(s, kinds, id) \subseteq 1..Len(s)
  BY <1>1 DEF Places
<1>4. ASSUME NEW k, k # 1, Places(s, kinds, id) = {k} PROVE Places(Tail(s), kinds, id) = {k - 1}
  <2>1. k \in 1..Len(s) /\ k - 1 \in 1..Len(s) - 1 /\ (k - 1) + 1 = k
    BY <1>1, <1>3, <1>4
  <2>2. k - 1 \in Places(Tail(s), kinds, id)
    BY <1>2, <1>4, <2>1
  <2>3. \A i \in Places(Tail(s), kinds, id) : i = k - 1
    BY <1>1, <1>2, <1>3, <1>4, <2>1
  <2> QED
    BY <2>2, <2>3
<1>5. Places(s, kinds, id) \subseteq {1} => Places(Tail(s), kinds, id) = {}
  BY <1>1, <1>2, <1>3
<1> QED
  BY <1>1, <1>4, <1>5 DEF Places

LEMMA PlacesSent ==
  ASSUME NEW S, NEW s \in Seq(S), NEW m \in S, NEW kinds, NEW id
  PROVE  /\ m.kind \in kinds /\ m.id = id =>
              Places(Append(s, m), kinds, id) = Places(s, kinds, id) \cup {Len(s) + 1}
         /\ ~(m.kind \in kinds /\ m.id = id) => Places(Append(s, m), kinds, id) = Places(s, kinds, id)
<1>1. /\ Len(s) \in Nat /\ DOMAIN s = 1..Len(s) /\ DOMAIN Append(s, m) = 1..Len(s) + 1
      /\ \A i \in 1..Len(s) : Append(s, m)[i] = s[i]
      /\ Append(s, m)[Len(s) + 1] = m
  BY AppendedTo
<1>2. \A i \in 1..Len(s) : i \in Places(Append(s, m), kinds, id) <=> i \in Places(s, kinds, id)
  BY <1>1 DEF Places
<1>3. Len(s) + 1 \in Places(Append(s, m), kinds, id) <=> m.kind \in kinds /\ m.id = id
  BY <1>1 DEF Places
<1>4. Places(Append(s, m), kinds, id) \subseteq 1..Len(s) + 1 /\ Places(s, kinds, id) \subseteq 1..Len(s)
  BY <1>1 DEF Places
<1>5. ASSUME m.kind \in kinds /\ m.id = id
      PROVE  Places(Append(s, m), kinds, id) = Places(s, kinds, id) \cup {Len(s) + 1}
  <2>1. \A i : i \in Places(Append(s, m), kinds, id) <=> i \in Places(s, kinds, id) \/ i = Len(s) + 1
    <3>1. \A i \in 1..Len(s) + 1 : i \in 1..Len(s) \/ i = Len(s) + 1
      BY <1>1
    <3> QED
      BY <3>1, <1>2, <1>3, <1>4, <1>5
  <2> QED
    BY <2>1
<1>6. ASSUME ~(m.kind \in kinds /\ m.id = id)
      PROVE  Places(Append(s, m), kinds, id) = Places(s, kinds, id)
  <2>1. \A i \in 1..Len(s) + 1 : i \in 1..Len(s) \/ i = Len(s) + 1
    BY <1>1
  <2>2. \A i : i \in Places(Append(s, m), kinds, id) <=> i \in Places(s, kinds, id)
    BY <2>1, <1>2, <1>3, <1>4, <1>6
  <2> QED
    BY <2>2
<1> QED
  BY <1>5, <1>6

Asks    == {"initialize", "request"}
Answers == {"response"}

\* Where a request is, or that it has not been sent.
OnItsWay(id) == /\ \E i : Places(inbox, Asks, id) = {i}
                /\ Places(outbox, Answers, id) = {}
                /\ received[id] = 0
OnItsWayBack(id) == /\ Places(inbox, Asks, id) = {}
                    /\ \E i : Places(outbox, Answers, id) = {i}
                    /\ received[id] = 0
Arrived(id) == /\ Places(inbox, Asks, id) = {}
               /\ Places(outbox, Answers, id) = {}
               /\ received[id] = 1
Unsent(id) == /\ Places(inbox, Asks, id) = {}
              /\ Places(outbox, Answers, id) = {}
              /\ received[id] = 0
InOnePlace == \A id \in Ids : IF id <= sent THEN OnItsWay(id) \/ OnItsWayBack(id) \/ Arrived(id) ELSE Unsent(id)

LEMMA OnePlaceInit == Init => InOnePlace
<1> SUFFICES ASSUME Init, NEW id \in Ids
             PROVE  IF id <= sent THEN OnItsWay(id) \/ OnItsWayBack(id) \/ Arrived(id) ELSE Unsent(id)
  BY DEF InOnePlace
<1>1. /\ DOMAIN inbox = {1} /\ inbox[1].kind = "initialize" /\ inbox[1].id = 0
      /\ outbox = << >> /\ sent = 0 /\ received[id] = 0
  BY DEF Init, InitializeId
<1>2. Places(outbox, Answers, id) = {}
  BY <1>1 DEF Places
<1>3. CASE id = 0
  <2>1. Places(inbox, Asks, id) = {1}
    BY <1>1, <1>3 DEF Places, Asks
  <2>2. id <= sent
    BY <1>1, <1>3
  <2>3. \E i : Places(inbox, Asks, id) = {i}
    BY <2>1
  <2>4. OnItsWay(id)
    BY <1>1, <1>2, <2>3 DEF OnItsWay
  <2> QED
    BY <2>2, <2>4
<1>4. CASE id # 0
  <2>1. Places(inbox, Asks, id) = {}
    BY <1>1, <1>4 DEF Places
  <2>2. ~(id <= sent)
    BY <1>1, <1>4, BoundsAssumption DEF Ids
  <2> QED
    BY <1>1, <1>2, <2>1, <2>2 DEF Unsent
<1> QED
  BY <1>3, <1>4

\* The server takes a request and answers it.
LEMMA OnePlaceAnswered ==
  ASSUME TypeOK, InOnePlace, NEW kind \in Asks, Take(kind), Reply(Head(inbox).id)
  PROVE  InOnePlace'
<1> DEFINE m == Head(inbox)
           r == [kind |-> "response", id |-> m.id]
<1>1. m \in Message /\ m.kind \in Asks /\ inbox # << >> /\ inbox' = Tail(inbox) /\ outbox' = Append(outbox, r)
      /\ received' = received /\ sent' = sent
  BY TakenFrom DEF Take, Reply, TypeOK, editorVars
<1>2. m.id \in Ids /\ r \in Report
  BY <1>1, MessageFields, BoundsAssumption DEF Asks, Report, Ids, InitializeId
<1> SUFFICES ASSUME NEW id \in Ids
             PROVE  (IF id <= sent THEN OnItsWay(id) \/ OnItsWayBack(id) \/ Arrived(id) ELSE Unsent(id))'
  BY DEF InOnePlace
<1>3. CASE id = m.id
  <2>1. 1 \in Places(inbox, Asks, id)
    BY <1>1, <1>3, PlacesTaken DEF TypeOK
  <2>2. OnItsWay(id) /\ id <= sent
    BY <2>1 DEF InOnePlace, OnItsWay, OnItsWayBack, Arrived, Unsent
  <2>3. Places(inbox, Asks, id) = {1} /\ Places(outbox, Answers, id) = {} /\ received[id] = 0
    BY <2>1, <2>2 DEF OnItsWay
  <2>4. Places(inbox', Asks, id) = {}
    BY <1>1, <2>3, PlacesTaken DEF TypeOK
  <2>5. Places(outbox', Answers, id) = {Len(outbox) + 1}
    <3>1. outbox \in Seq(Report) /\ r.kind \in Answers /\ r.id = id
      BY <1>3 DEF TypeOK, Answers
    <3>2. Places(Append(outbox, r), Answers, id) = Places(outbox, Answers, id) \cup {Len(outbox) + 1}
      BY <1>2, <3>1, PlacesSent
    <3> QED
      BY <1>1, <2>3, <3>2
  <2> QED
    BY <1>1, <2>2, <2>3, <2>4, <2>5 DEF OnItsWayBack
<1>4. CASE id # m.id
  <2>1. 1 \notin Places(inbox, Asks, id)
    BY <1>1, <1>4, PlacesTaken DEF TypeOK
  <2>2. Places(outbox', Answers, id) = Places(outbox, Answers, id)
    BY <1>1, <1>2, <1>4, PlacesSent DEF TypeOK
  <2>3. Places(inbox, Asks, id) = {} => Places(inbox', Asks, id) = {}
    BY <1>1, PlacesTaken DEF TypeOK
  <2>4. \A k : Places(inbox, Asks, id) = {k} => Places(inbox', Asks, id) = {k - 1}
    <3> SUFFICES ASSUME NEW k, Places(inbox, Asks, id) = {k} PROVE Places(inbox', Asks, id) = {k - 1}
      OBVIOUS
    <3>1. inbox \in Seq(Message) /\ k # 1
      BY <2>1 DEF TypeOK
    <3>2. Places(Tail(inbox), Asks, id) = {k - 1}
      BY <1>1, <3>1, PlacesTaken
    <3> QED
      BY <1>1, <3>2
  <2> QED
    BY <1>1, <2>2, <2>3, <2>4 DEF InOnePlace, OnItsWay, OnItsWayBack, Arrived, Unsent
<1> QED
  BY <1>3, <1>4

\* The server takes a message that asks nothing, or the editor sends one.
LEMMA OnePlaceKept ==
  ASSUME TypeOK, InOnePlace, outbox' = outbox \/ outbox' = Append(outbox, [kind |-> "register"]),
         received' = received, sent' = sent,
         \/ inbox' = inbox
         \/ \E m \in Message : m.kind \notin Asks /\ inbox' = Append(inbox, m)
         \/ inbox # << >> /\ Head(inbox).kind \notin Asks /\ inbox' = Tail(inbox)
  PROVE  InOnePlace'
<1> SUFFICES ASSUME NEW id \in Ids
             PROVE  (IF id <= sent THEN OnItsWay(id) \/ OnItsWayBack(id) \/ Arrived(id) ELSE Unsent(id))'
  BY DEF InOnePlace
<1>1. inbox \in Seq(Message) /\ outbox \in Seq(Report)
  BY DEF TypeOK
<1>2. Places(outbox', Answers, id) = Places(outbox, Answers, id)
  <2>1. CASE outbox' = outbox
    BY <2>1
  <2>2. CASE outbox' = Append(outbox, [kind |-> "register"])
    <3>1. [kind |-> "register"] \in Report /\ [kind |-> "register"].kind \notin Answers
      BY DEF Report, Answers
    <3> QED
      BY <1>1, <2>2, <3>1, PlacesSent
  <2> QED
    BY <2>1, <2>2
<1>3. /\ Places(inbox, Asks, id) = {} => Places(inbox', Asks, id) = {}
      /\ (\E i : Places(inbox, Asks, id) = {i}) => \E i : Places(inbox', Asks, id) = {i}
  <2>1. CASE inbox' = inbox
    BY <2>1
  <2>2. ASSUME NEW m \in Message, m.kind \notin Asks, inbox' = Append(inbox, m)
        PROVE  Places(inbox', Asks, id) = Places(inbox, Asks, id)
    BY <1>1, <2>2, PlacesSent
  <2>3. CASE inbox # << >> /\ Head(inbox).kind \notin Asks /\ inbox' = Tail(inbox)
    <3>1. 1 \notin Places(inbox, Asks, id)
      BY <1>1, <2>3, PlacesTaken
    <3>2. Places(inbox, Asks, id) = {} => Places(inbox', Asks, id) = {}
      BY <1>1, <2>3, PlacesTaken
    <3>3. ASSUME NEW k, Places(inbox, Asks, id) = {k} PROVE Places(inbox', Asks, id) = {k - 1}
      <4>1. k # 1
        BY <3>1, <3>3
      <4>2. Places(Tail(inbox), Asks, id) = {k - 1}
        BY <1>1, <2>3, <3>3, <4>1, PlacesTaken
      <4> QED
        BY <2>3, <4>2
    <3> QED
      BY <3>2, <3>3
  <2> QED
    BY <2>1, <2>2, <2>3
<1>4. OnItsWay(id) => OnItsWay(id)'
  BY <1>2, <1>3 DEF OnItsWay
<1>5. (OnItsWayBack(id) => OnItsWayBack(id)') /\ (Arrived(id) => Arrived(id)') /\ (Unsent(id) => Unsent(id)')
  BY <1>2, <1>3 DEF OnItsWayBack, Arrived, Unsent
<1> QED
  BY <1>4, <1>5 DEF InOnePlace

\* A new request gets the next id.
LEMMA OnePlaceAsked ==
  ASSUME TypeOK, InOnePlace, NEW f \in Files, Request(f)
  PROVE  InOnePlace'
<1> DEFINE m == [kind |-> "request", id |-> sent + 1, file |-> f, seen |-> buffers[f]]
<1>1. /\ sent' = sent + 1 /\ received' = received /\ outbox' = outbox /\ inbox' = Append(inbox, m)
  BY DEF Request, Send
<1>2. sent \in Nat /\ sent + 1 \in Ids /\ m \in Message
  BY RequestMade
<1>3. inbox \in Seq(Message) /\ m.kind \in Asks /\ m.id = sent + 1
  BY DEF TypeOK, Asks
<1> SUFFICES ASSUME NEW id \in Ids
             PROVE  (IF id <= sent THEN OnItsWay(id) \/ OnItsWayBack(id) \/ Arrived(id) ELSE Unsent(id))'
  BY DEF InOnePlace
<1>4. id \in Nat
  BY BoundsAssumption DEF Ids
<1>5. CASE id = sent + 1
  <2>1. Unsent(id)
    BY <1>2, <1>5 DEF InOnePlace
  <2>2. Places(Append(inbox, m), Asks, id) = Places(inbox, Asks, id) \cup {Len(inbox) + 1}
    BY <1>2, <1>3, <1>5, PlacesSent
  <2>3. Places(inbox', Asks, id) = {Len(inbox) + 1}
    BY <1>1, <2>1, <2>2 DEF Unsent
  <2>4. OnItsWay(id)'
    BY <1>1, <2>1, <2>3 DEF OnItsWay, Unsent
  <2> QED
    BY <1>1, <1>2, <1>5, <2>4
<1>6. CASE id # sent + 1
  <2>1. Places(Append(inbox, m), Asks, id) = Places(inbox, Asks, id)
    BY <1>2, <1>3, <1>6, PlacesSent
  <2>2. id <= sent' <=> id <= sent
    BY <1>1, <1>2, <1>4, <1>6
  <2> QED
    BY <1>1, <2>1, <2>2 DEF InOnePlace, OnItsWay, OnItsWayBack, Arrived, Unsent
<1> QED
  BY <1>5, <1>6

\* The editor takes a response.
LEMMA OnePlaceReceived ==
  ASSUME TypeOK, InOnePlace, Receive
  PROVE  InOnePlace'
<1> DEFINE r == Head(outbox)
<1>1. outbox # << >> /\ outbox' = Tail(outbox) /\ sent' = sent /\ outbox \in Seq(Report) /\ inbox \in Seq(Message)
  BY DEF Receive, TypeOK
<1>2. r \in Report
  BY <1>1, TakenFrom
<1> SUFFICES ASSUME NEW id \in Ids
             PROVE  (IF id <= sent THEN OnItsWay(id) \/ OnItsWayBack(id) \/ Arrived(id) ELSE Unsent(id))'
  BY DEF InOnePlace
<1>3. Places(inbox', Asks, id) = Places(inbox, Asks, id)
  <2>1. ASSUME NEW m \in Message, m.kind \in {"initialized", "reply"}, inbox' = Append(inbox, m)
        PROVE  Places(inbox', Asks, id) = Places(inbox, Asks, id)
    <3>1. m.kind \notin Asks
      BY <2>1 DEF Asks
    <3>2. Places(Append(inbox, m), Asks, id) = Places(inbox, Asks, id)
      BY <1>1, <3>1, PlacesSent
    <3> QED
      BY <2>1, <3>2
  <2> QED
    BY <2>1, ReceiveSends
<1>4. CASE r.kind = "response" /\ r.id = id
  <2>1. 1 \in Places(outbox, Answers, id)
    BY <1>1, <1>4, PlacesTaken DEF Answers
  <2>2. OnItsWayBack(id) /\ id <= sent
    BY <2>1 DEF InOnePlace, OnItsWay, OnItsWayBack, Arrived, Unsent
  <2>3. Places(outbox, Answers, id) = {1} /\ Places(inbox, Asks, id) = {} /\ received[id] = 0
    BY <2>1, <2>2 DEF OnItsWayBack
  <2>4. Places(outbox', Answers, id) = {}
    BY <1>1, <2>3, PlacesTaken
  <2>5. received' = [received EXCEPT ![id] = @ + 1]
    BY <1>4 DEF Receive
  <2>6. received'[id] = 1
    BY <2>3, <2>5 DEF TypeOK
  <2> QED
    BY <1>1, <1>3, <2>2, <2>3, <2>4, <2>6 DEF Arrived
<1>5. CASE ~(r.kind = "response" /\ r.id = id)
  <2>1. 1 \notin Places(outbox, Answers, id)
    BY <1>1, <1>5, PlacesTaken DEF Answers
  <2>2. Places(outbox, Answers, id) = {} => Places(outbox', Answers, id) = {}
    BY <1>1, PlacesTaken
  <2>3. (\E i : Places(outbox, Answers, id) = {i}) => \E i : Places(outbox', Answers, id) = {i}
    <3> SUFFICES ASSUME NEW k, Places(outbox, Answers, id) = {k} PROVE Places(outbox', Answers, id) = {k - 1}
      OBVIOUS
    <3>1. k # 1
      BY <2>1
    <3>2. Places(Tail(outbox), Answers, id) = {k - 1}
      BY <1>1, <3>1, PlacesTaken
    <3> QED
      BY <1>1, <3>2
  <2>4. received'[id] = received[id]
    BY <1>5 DEF Receive, TypeOK
  <2>5. (OnItsWay(id) => OnItsWay(id)') /\ (OnItsWayBack(id) => OnItsWayBack(id)')
    BY <1>3, <2>2, <2>3, <2>4 DEF OnItsWay, OnItsWayBack
  <2>6. (Arrived(id) => Arrived(id)') /\ (Unsent(id) => Unsent(id)')
    BY <1>3, <2>2, <2>4 DEF Arrived, Unsent
  <2> QED
    BY <1>1, <2>5, <2>6 DEF InOnePlace
<1> QED
  BY <1>4, <1>5

LEMMA OnePlaceNext == TypeOK /\ InOnePlace /\ [Next]_vars => InOnePlace'
<1> SUFFICES ASSUME TypeOK, InOnePlace, [Next]_vars PROVE InOnePlace'
  OBVIOUS
<1>1. ASSUME NEW kind \in {"initialized", "didOpen", "didChange", "didClose", "watched", "reply", "exit"}, Take(kind)
      PROVE  inbox # << >> /\ Head(inbox).kind \notin Asks /\ inbox' = Tail(inbox) /\ received' = received /\ sent' = sent
  BY <1>1 DEF Take, Asks, editorVars
<1>2. CASE HandleInitialize \/ HandleRequest
  BY <1>2, OnePlaceAnswered DEF HandleInitialize, HandleRequest, Asks
<1>3. CASE HandleInitialized
  BY <1>3, <1>1, OnePlaceKept DEF HandleInitialized
<1>4. CASE HandleDidOpen \/ HandleDidChange \/ HandleDidClose
  BY <1>4, <1>1, OnePlaceKept DEF HandleDidOpen, HandleDidChange, HandleDidClose
<1>5. CASE HandleWatched \/ HandleReply \/ HandleExit
  BY <1>5, <1>1, OnePlaceKept DEF HandleWatched, HandleReply, HandleExit, serverVars
<1>6. CASE WalkFile \/ WalkDone \/ ApplyChange
  BY <1>6, OnePlaceKept DEF WalkFile, WalkDone, ApplyChange, editorVars
<1>7. ASSUME NEW m \in Message, m.kind \notin Asks, Send(m), received' = received, sent' = sent PROVE InOnePlace'
  <2>1. inbox' = Append(inbox, m) /\ outbox' = outbox
    BY <1>7 DEF Send
  <2> QED
    BY <1>7, <2>1, OnePlaceKept
<1>8. ASSUME NEW f \in Files, (\E t \in Texts : OpenDoc(f, t) \/ ChangeDoc(f, t)) \/ CloseDoc(f) PROVE InOnePlace'
  <2>1. PICK m \in Message : Send(m) /\ m.kind \in DocKinds
    BY <1>8, MessagesMade DEF OpenDoc, ChangeDoc, CloseDoc, DocKinds
  <2>2. received' = received /\ sent' = sent
    BY <1>8 DEF OpenDoc, ChangeDoc, CloseDoc
  <2> QED
    BY <1>7, <2>1, <2>2 DEF Asks, DocKinds
<1>9. ASSUME NEW f \in Files, Request(f) PROVE InOnePlace'
  BY <1>9, OnePlaceAsked
<1>10. CASE SendNotices \/ Exit
  <2>1. PICK m \in Message : Send(m) /\ m.kind \in {"watched", "exit"}
    BY <1>10, MessagesMade DEF SendNotices, Exit, TypeOK
  <2>2. received' = received /\ sent' = sent
    BY <1>10 DEF SendNotices, Exit, editorVars
  <2> QED
    BY <1>7, <2>1, <2>2 DEF Asks
<1>11. CASE Receive
  BY <1>11, OnePlaceReceived
<1>12. ASSUME NEW f \in Files, Save(f) \/ \E t \in Texts \cup {NoText} : ExternalChange(f, t) PROVE InOnePlace'
  BY <1>12, OnePlaceKept DEF Save, ExternalChange, editorVars
<1>13. CASE UNCHANGED vars
  BY <1>13, OnePlaceKept DEF vars, editorVars
<1>14. CASE Server
  BY <1>14, <1>2, <1>3, <1>4, <1>5, <1>6 DEF Server
<1>15. CASE Editor
  BY <1>15, <1>8, <1>9, <1>10, <1>11, <1>12 DEF Editor
<1>16. CASE Disk
  BY <1>16, <1>12 DEF Disk
<1> QED
  BY <1>13, <1>14, <1>15, <1>16 DEF Next

LEMMA OnePlaceCounts ==
  ASSUME TypeOK, InOnePlace
  PROVE  AnsweredOnce
<1> SUFFICES ASSUME NEW id \in 0..sent
             PROVE  Cardinality(Waiting(id)) + Cardinality(Answered(id)) + received[id] = 1
  BY DEF AnsweredOnce
<1>1. id \in Ids /\ id <= sent
  BY BoundsAssumption DEF TypeOK, Ids
<1>2. Waiting(id) = Places(inbox, Asks, id) /\ Answered(id) = Places(outbox, Answers, id)
  BY DEF Waiting, Answered, Places, Asks, Answers
<1>3. Cardinality({}) = 0 /\ \A i : Cardinality({i}) = 1
  BY FS_EmptySet, FS_Singleton
<1>4. OnItsWay(id) \/ OnItsWayBack(id) \/ Arrived(id)
  BY <1>1 DEF InOnePlace
<1>5. CASE OnItsWay(id)
  <2>1. Answered(id) = {} /\ received[id] = 0 /\ \E i : Waiting(id) = {i}
    BY <1>2, <1>5 DEF OnItsWay
  <2>2. Cardinality(Waiting(id)) = 1 /\ Cardinality(Answered(id)) = 0
    BY <1>3, <2>1
  <2> QED
    BY <2>1, <2>2
<1>6. CASE OnItsWayBack(id)
  <2>1. Waiting(id) = {} /\ received[id] = 0 /\ \E i : Answered(id) = {i}
    BY <1>2, <1>6 DEF OnItsWayBack
  <2>2. Cardinality(Waiting(id)) = 0 /\ Cardinality(Answered(id)) = 1
    BY <1>3, <2>1
  <2> QED
    BY <2>1, <2>2
<1>7. CASE Arrived(id)
  BY <1>2, <1>3, <1>7 DEF Arrived
<1> QED
  BY <1>4, <1>5, <1>6, <1>7

\* Every request, the initialize request too, is on its way to the server, on
\* its way back as one response, or answered once, whatever else travels.
THEOREM RequestsAnsweredOnce == Spec => []AnsweredOnce
<1>1. Init => TypeOK /\ InOnePlace
  BY TypeInit, OnePlaceInit
<1>2. TypeOK /\ InOnePlace /\ [Next]_vars => (TypeOK /\ InOnePlace)'
  BY TypeNext, OnePlaceNext
<1>3. TypeOK /\ InOnePlace => AnsweredOnce
  BY OnePlaceCounts
<1> QED
  BY <1>1, <1>2, <1>3, PTL DEF Spec

----------------------------------------------------------------------------
(* Freshness.  A change travels from the notices n through a message of    *)
(* the inbox q into the batch b.  What is said of f last is true of the    *)
(* disk, on which f holds t.                                               *)

Correct(ch, t) == ch.type = "deleted" <=> t = NoText
Tells(s, f, t) == \E i \in DOMAIN s : /\ s[i].file = f
                                      /\ Correct(s[i], t)
                                      /\ \A j \in DOMAIN s : j > i => s[j].file # f
Mentions(m, f) == m.kind = "watched" /\ Noticed(f, m.changes)
Mentioned(q, f) == \E i \in DOMAIN q : Mentions(q[i], f)
Says(q, f, t) == \E i \in DOMAIN q : /\ Mentions(q[i], f)
                                     /\ Tells(q[i].changes, f, t)
                                     /\ \A j \in DOMAIN q : j > i => ~Mentions(q[j], f)
Underway(n, q, b, f) == Noticed(f, n) \/ Mentioned(q, f) \/ Noticed(f, b)
Truthful(n, q, b, f, t) ==
  Underway(n, q, b, f) => \/ Tells(n, f, t)
                          \/ ~Noticed(f, n) /\ Says(q, f, t)
                          \/ ~Noticed(f, n) /\ ~Mentioned(q, f) /\ Tells(b, f, t)

LEMMA ChangeAppended ==
  ASSUME NEW s \in Seq(Change), NEW ch \in Change, NEW f, NEW t
  PROVE  /\ ch.file = f => Noticed(f, Append(s, ch))
         /\ ch.file = f /\ Correct(ch, t) => Tells(Append(s, ch), f, t)
         /\ ch.file # f => (Noticed(f, Append(s, ch)) <=> Noticed(f, s))
         /\ ch.file # f /\ Tells(s, f, t) => Tells(Append(s, ch), f, t)
<1>1. /\ Len(s) \in Nat /\ DOMAIN s = 1..Len(s) /\ DOMAIN Append(s, ch) = 1..Len(s) + 1
      /\ \A i \in 1..Len(s) : Append(s, ch)[i] = s[i]
      /\ Append(s, ch)[Len(s) + 1] = ch
  BY AppendedTo
<1>2. \A i \in 1..Len(s) + 1 : i \in 1..Len(s) \/ i = Len(s) + 1
  BY <1>1
<1>3. ch.file = f => Noticed(f, Append(s, ch))
  BY <1>1 DEF Noticed
<1>4. ASSUME ch.file = f, Correct(ch, t) PROVE Tells(Append(s, ch), f, t)
  <2>1. \A j \in DOMAIN Append(s, ch) : ~(j > Len(s) + 1)
    BY <1>1
  <2>2. Len(s) + 1 \in DOMAIN Append(s, ch)
    BY <1>1
  <2> QED
    BY <1>1, <1>4, <2>1, <2>2 DEF Tells
<1>5. ch.file # f => (Noticed(f, Append(s, ch)) <=> Noticed(f, s))
  BY <1>1, <1>2 DEF Noticed
<1>6. ASSUME ch.file # f, Tells(s, f, t) PROVE Tells(Append(s, ch), f, t)
  <2>1. PICK i \in 1..Len(s) : s[i].file = f /\ Correct(s[i], t) /\ \A j \in 1..Len(s) : j > i => s[j].file # f
    BY <1>1, <1>6 DEF Tells
  <2>2. \A j \in 1..Len(s) + 1 : j > i => Append(s, ch)[j].file # f
    BY <1>1, <1>2, <1>6, <2>1
  <2>3. i \in DOMAIN Append(s, ch) /\ Append(s, ch)[i] = s[i]
    BY <1>1, <2>1
  <2> QED
    BY <1>1, <2>1, <2>2, <2>3 DEF Tells
<1> QED
  BY <1>3, <1>4, <1>5, <1>6

LEMMA ChangeGone ==
  ASSUME NEW s \in Seq(Change), s # << >>, NEW f, NEW t
  PROVE  /\ Noticed(f, s) <=> Noticed(f, Tail(s)) \/ Head(s).file = f
         /\ Tells(s, f, t) => \/ Tells(Tail(s), f, t)
                              \/ ~Noticed(f, Tail(s)) /\ Head(s).file = f /\ Correct(Head(s), t)
<1>1. /\ Len(s) \in Nat \ {0} /\ DOMAIN s = 1..Len(s) /\ Head(s) = s[1]
      /\ DOMAIN Tail(s) = 1..Len(s) - 1 /\ \A i \in 1..Len(s) - 1 : Tail(s)[i] = s[i + 1]
  BY TakenFrom
<1>2. \A i \in 1..Len(s) : i = 1 \/ (i - 1 \in 1..Len(s) - 1 /\ Tail(s)[i - 1] = s[i])
  <2> SUFFICES ASSUME NEW i \in 1..Len(s), i # 1 PROVE i - 1 \in 1..Len(s) - 1 /\ Tail(s)[i - 1] = s[i]
    OBVIOUS
  <2>1. i - 1 \in 1..Len(s) - 1 /\ (i - 1) + 1 = i
    BY <1>1
  <2> QED
    BY <1>1, <2>1
<1>3. \A i \in 1..Len(s) - 1 : i + 1 \in 1..Len(s)
  BY <1>1
<1>4. Noticed(f, s) <=> Noticed(f, Tail(s)) \/ Head(s).file = f
  <2>1. Noticed(f, s) => Noticed(f, Tail(s)) \/ Head(s).file = f
    BY <1>1, <1>2 DEF Noticed
  <2>2. Noticed(f, Tail(s)) => Noticed(f, s)
    BY <1>1, <1>3 DEF Noticed
  <2>3. Head(s).file = f => Noticed(f, s)
    BY <1>1 DEF Noticed
  <2> QED
    BY <2>1, <2>2, <2>3
<1>5. ASSUME Tells(s, f, t)
      PROVE  Tells(Tail(s), f, t) \/ (~Noticed(f, Tail(s)) /\ Head(s).file = f /\ Correct(Head(s), t))
  <2>1. PICK i \in 1..Len(s) : s[i].file = f /\ Correct(s[i], t) /\ \A j \in 1..Len(s) : j > i => s[j].file # f
    BY <1>1, <1>5 DEF Tells
  <2>2. \A j \in 1..Len(s) - 1 : j + 1 > i => Tail(s)[j].file # f
    BY <1>1, <1>3, <2>1
  <2>3. CASE i = 1
    <3>1. ~Noticed(f, Tail(s))
      BY <1>1, <2>2, <2>3 DEF Noticed
    <3> QED
      BY <1>1, <2>1, <2>3, <3>1
  <2>4. CASE i # 1
    <3>1. i - 1 \in 1..Len(s) - 1 /\ Tail(s)[i - 1] = s[i]
      BY <1>2, <2>4
    <3>2. \A j \in 1..Len(s) - 1 : j > i - 1 => Tail(s)[j].file # f
      BY <2>2, <1>1
    <3> QED
      BY <1>1, <2>1, <3>1, <3>2 DEF Tells
  <2> QED
    BY <2>3, <2>4
<1> QED
  BY <1>4, <1>5

LEMMA MessageAppended ==
  ASSUME NEW q \in Seq(Message), NEW m \in Message, NEW f, NEW t
  PROVE  /\ Mentioned(Append(q, m), f) <=> Mentioned(q, f) \/ Mentions(m, f)
         /\ Mentions(m, f) /\ Tells(m.changes, f, t) => Says(Append(q, m), f, t)
         /\ ~Mentions(m, f) /\ Says(q, f, t) => Says(Append(q, m), f, t)
<1>1. /\ Len(q) \in Nat /\ DOMAIN q = 1..Len(q) /\ DOMAIN Append(q, m) = 1..Len(q) + 1
      /\ \A i \in 1..Len(q) : Append(q, m)[i] = q[i]
      /\ Append(q, m)[Len(q) + 1] = m
  BY AppendedTo
<1>2. \A i \in 1..Len(q) + 1 : i \in 1..Len(q) \/ i = Len(q) + 1
  BY <1>1
<1>3. /\ \A i \in 1..Len(q) : i \in 1..Len(q) + 1
      /\ Len(q) + 1 \in 1..Len(q) + 1
      /\ \A i \in 1..Len(q) + 1 : ~(i > Len(q) + 1)
  BY <1>1
<1>4. Mentioned(Append(q, m), f) <=> Mentioned(q, f) \/ Mentions(m, f)
  BY <1>1, <1>2, <1>3 DEF Mentioned
<1>5. Mentions(m, f) /\ Tells(m.changes, f, t) => Says(Append(q, m), f, t)
  BY <1>1, <1>3 DEF Says
<1>6. ASSUME ~Mentions(m, f), Says(q, f, t) PROVE Says(Append(q, m), f, t)
  <2>1. PICK i \in 1..Len(q) : /\ Mentions(q[i], f) /\ Tells(q[i].changes, f, t)
                               /\ \A j \in 1..Len(q) : j > i => ~Mentions(q[j], f)
    BY <1>1, <1>6 DEF Says
  <2>2. \A j \in 1..Len(q) + 1 : j > i => ~Mentions(Append(q, m)[j], f)
    BY <1>1, <1>2, <1>6, <2>1
  <2>3. i \in DOMAIN Append(q, m) /\ Append(q, m)[i] = q[i]
    BY <1>1, <1>3, <2>1
  <2> QED
    BY <1>1, <2>1, <2>2, <2>3 DEF Says
<1> QED
  BY <1>4, <1>5, <1>6

LEMMA MessageGone ==
  ASSUME NEW q \in Seq(Message), q # << >>, NEW f, NEW t
  PROVE  /\ Mentioned(q, f) <=> Mentioned(Tail(q), f) \/ Mentions(Head(q), f)
         /\ Says(q, f, t) => \/ Says(Tail(q), f, t)
                             \/ /\ ~Mentioned(Tail(q), f)
                                /\ Mentions(Head(q), f)
                                /\ Tells(Head(q).changes, f, t)
<1>1. /\ Len(q) \in Nat \ {0} /\ DOMAIN q = 1..Len(q) /\ Head(q) = q[1]
      /\ DOMAIN Tail(q) = 1..Len(q) - 1 /\ \A i \in 1..Len(q) - 1 : Tail(q)[i] = q[i + 1]
  BY TakenFrom
<1>2. \A i \in 1..Len(q) : i = 1 \/ (i - 1 \in 1..Len(q) - 1 /\ Tail(q)[i - 1] = q[i])
  <2> SUFFICES ASSUME NEW i \in 1..Len(q), i # 1 PROVE i - 1 \in 1..Len(q) - 1 /\ Tail(q)[i - 1] = q[i]
    OBVIOUS
  <2>1. i - 1 \in 1..Len(q) - 1 /\ (i - 1) + 1 = i
    BY <1>1
  <2> QED
    BY <1>1, <2>1
<1>3. \A i \in 1..Len(q) - 1 : i + 1 \in 1..Len(q)
  BY <1>1
<1>4. Mentioned(q, f) <=> Mentioned(Tail(q), f) \/ Mentions(Head(q), f)
  <2>1. Mentioned(q, f) => Mentioned(Tail(q), f) \/ Mentions(Head(q), f)
    BY <1>1, <1>2 DEF Mentioned
  <2>2. Mentioned(Tail(q), f) => Mentioned(q, f)
    BY <1>1, <1>3 DEF Mentioned
  <2>3. Mentions(Head(q), f) => Mentioned(q, f)
    BY <1>1 DEF Mentioned
  <2> QED
    BY <2>1, <2>2, <2>3
<1>5. ASSUME Says(q, f, t)
      PROVE  Says(Tail(q), f, t) \/ (~Mentioned(Tail(q), f) /\ Mentions(Head(q), f) /\ Tells(Head(q).changes, f, t))
  <2>1. PICK i \in 1..Len(q) : /\ Mentions(q[i], f) /\ Tells(q[i].changes, f, t)
                               /\ \A j \in 1..Len(q) : j > i => ~Mentions(q[j], f)
    BY <1>1, <1>5 DEF Says
  <2>2. \A j \in 1..Len(q) - 1 : j + 1 > i => ~Mentions(Tail(q)[j], f)
    BY <1>1, <1>3, <2>1
  <2>3. CASE i = 1
    <3>1. ~Mentioned(Tail(q), f)
      BY <1>1, <2>2, <2>3 DEF Mentioned
    <3> QED
      BY <1>1, <2>1, <2>3, <3>1
  <2>4. CASE i # 1
    <3>1. i - 1 \in 1..Len(q) - 1 /\ Tail(q)[i - 1] = q[i]
      BY <1>2, <2>4
    <3>2. \A j \in 1..Len(q) - 1 : j > i - 1 => ~Mentions(Tail(q)[j], f)
      BY <2>2, <1>1
    <3> QED
      BY <1>1, <2>1, <3>1, <3>2 DEF Says
  <2> QED
    BY <2>3, <2>4
<1> QED
  BY <1>4, <1>5

LEMMA NothingIn == \A f, t : ~Noticed(f, << >>) /\ ~Tells(<< >>, f, t)
  BY DEF Noticed, Tells

\* The stream moves on by one step of its way.
LEMMA ChangeReported ==
  ASSUME NEW n \in Seq(Change), NEW q, NEW b, NEW f, NEW t, NEW ch \in Change
  PROVE  /\ ch.file = f => Underway(Append(n, ch), q, b, f)
         /\ ch.file = f /\ Correct(ch, t) => Truthful(Append(n, ch), q, b, f, t)
         /\ ch.file # f => (Underway(Append(n, ch), q, b, f) <=> Underway(n, q, b, f))
         /\ ch.file # f /\ Truthful(n, q, b, f, t) => Truthful(Append(n, ch), q, b, f, t)
  BY ChangeAppended DEF Underway, Truthful

LEMMA NoticesSent ==
  ASSUME NEW n \in Seq(Change), NEW q \in Seq(Message), NEW b, NEW f, NEW t
  PROVE  LET q2 == Append(q, [kind |-> "watched", changes |-> n])
         IN  /\ Underway(<< >>, q2, b, f) <=> Underway(n, q, b, f)
             /\ Truthful(n, q, b, f, t) => Truthful(<< >>, q2, b, f, t)
<1> DEFINE m == [kind |-> "watched", changes |-> n]
<1>1. m \in Message /\ (Mentions(m, f) <=> Noticed(f, n)) /\ m.changes = n
  BY MessagesMade DEF Mentions
<1>2. ~Noticed(f, << >>)
  BY NothingIn
<1>3. /\ Mentioned(Append(q, m), f) <=> Mentioned(q, f) \/ Noticed(f, n)
      /\ Noticed(f, n) /\ Tells(n, f, t) => Says(Append(q, m), f, t)
      /\ ~Noticed(f, n) /\ Says(q, f, t) => Says(Append(q, m), f, t)
  BY <1>1, MessageAppended
<1>4. Tells(n, f, t) => Noticed(f, n)
  BY DEF Tells, Noticed
<1> QED
  BY <1>2, <1>3, <1>4 DEF Underway, Truthful

LEMMA OthersSent ==
  ASSUME NEW n, NEW q \in Seq(Message), NEW b, NEW f, NEW t, NEW m \in Message, m.kind # "watched"
  PROVE  /\ Underway(n, Append(q, m), b, f) <=> Underway(n, q, b, f)
         /\ Truthful(n, q, b, f, t) => Truthful(n, Append(q, m), b, f, t)
<1>1. ~Mentions(m, f)
  BY DEF Mentions
<1>2. /\ Mentioned(Append(q, m), f) <=> Mentioned(q, f)
      /\ Says(q, f, t) => Says(Append(q, m), f, t)
  BY <1>1, MessageAppended
<1> QED
  BY <1>2 DEF Underway, Truthful

LEMMA OthersTaken ==
  ASSUME NEW n, NEW q \in Seq(Message), q # << >>, Head(q).kind # "watched", NEW b, NEW f, NEW t
  PROVE  /\ Underway(n, Tail(q), b, f) <=> Underway(n, q, b, f)
         /\ Truthful(n, q, b, f, t) => Truthful(n, Tail(q), b, f, t)
<1>1. ~Mentions(Head(q), f)
  BY DEF Mentions
<1>2. /\ Mentioned(Tail(q), f) <=> Mentioned(q, f)
      /\ Says(q, f, t) => Says(Tail(q), f, t)
  BY <1>1, MessageGone
<1> QED
  BY <1>2 DEF Underway, Truthful

LEMMA WatchedTaken ==
  ASSUME NEW n, NEW q \in Seq(Message), q # << >>, Head(q).kind = "watched", NEW f, NEW t
  PROVE  /\ Underway(n, Tail(q), Head(q).changes, f) <=> Underway(n, q, << >>, f)
         /\ Truthful(n, q, << >>, f, t) => Truthful(n, Tail(q), Head(q).changes, f, t)
<1>1. Mentions(Head(q), f) <=> Noticed(f, Head(q).changes)
  BY DEF Mentions
<1>2. ~Noticed(f, << >>) /\ ~Tells(<< >>, f, t)
  BY NothingIn
<1>3. /\ Mentioned(q, f) <=> Mentioned(Tail(q), f) \/ Mentions(Head(q), f)
      /\ Says(q, f, t) => \/ Says(Tail(q), f, t)
                          \/ ~Mentioned(Tail(q), f) /\ Tells(Head(q).changes, f, t)
  BY MessageGone
<1> QED
  BY <1>1, <1>2, <1>3 DEF Underway, Truthful

LEMMA ChangeApplied ==
  ASSUME NEW n, NEW q, NEW b \in Seq(Change), b # << >>, NEW f, NEW t, Truthful(n, q, b, f, t)
  PROVE  /\ Truthful(n, q, Tail(b), f, t)
         /\ Head(b).file # f => (Underway(n, q, Tail(b), f) <=> Underway(n, q, b, f))
         /\ Head(b).file = f => Underway(n, q, Tail(b), f) \/ Correct(Head(b), t)
<1>1. /\ Noticed(f, b) <=> Noticed(f, Tail(b)) \/ Head(b).file = f
      /\ Tells(b, f, t) => \/ Tells(Tail(b), f, t)
                           \/ ~Noticed(f, Tail(b)) /\ Head(b).file = f /\ Correct(Head(b), t)
  BY ChangeGone
<1>2. /\ Tells(n, f, t) => Noticed(f, n)
      /\ Says(q, f, t) => Mentioned(q, f)
      /\ Tells(Tail(b), f, t) => Noticed(f, Tail(b))
  BY DEF Tells, Says, Noticed, Mentioned
<1> QED
  BY <1>1, <1>2 DEF Underway, Truthful

Fresh(f) ==
  /\ f \in todo => indexed[f] = NoText
  /\ phase # "starting" /\ f \notin todo => \/ Underway(notices, inbox, batch, f)
                                            \/ indexed[f] = disk[f]
                                            \/ f \in missed
  /\ Truthful(notices, inbox, batch, f, disk[f])
FreshInv == \A f \in NeverOpened : Fresh(f)

LEMMA FreshInit == Init => FreshInv
<1> SUFFICES ASSUME Init, NEW f \in NeverOpened PROVE Fresh(f)
  BY DEF FreshInv
<1>1. ~Noticed(f, notices) /\ ~Noticed(f, batch)
  BY NothingIn DEF Init
<1>2. ~Mentioned(inbox, f)
  <2>1. \A i \in DOMAIN inbox : inbox[i].kind = "initialize"
    BY DEF Init
  <2> QED
    BY <2>1 DEF Mentioned, Mentions
<1> QED
  BY <1>1, <1>2 DEF Fresh, Truthful, Underway, Init

\* A step that moves the stream on and has nothing else to do with f.
LEMMA FreshKept ==
  ASSUME NEW f, Fresh(f), todo' = todo, indexed'[f] = indexed[f], disk'[f] = disk[f],
         missed' = missed, phase # "starting", Underway(notices, inbox, batch, f)' <=> Underway(notices, inbox, batch, f),
         Truthful(notices, inbox, batch, f, disk[f]) => Truthful(notices, inbox, batch, f, disk[f])'
  PROVE  Fresh(f)'
  BY DEF Fresh

LEMMA FreshWalked ==
  ASSUME ProtocolInv, FreshInv, NEW f \in NeverOpened, HandleInitialize \/ WalkFile \/ WalkDone
  PROVE  Fresh(f)'
<1>1. Fresh(f) /\ f \in Files
  BY DEF FreshInv, NeverOpened
<1>2. CASE HandleInitialize
  <2>1. /\ inbox # << >> /\ Head(inbox).kind # "watched" /\ inbox' = Tail(inbox) /\ inbox \in Seq(Message)
        /\ notices' = notices /\ batch' = batch /\ disk' = disk
    BY <1>2 DEF HandleInitialize, Take, diskVars, ProtocolInv, TypeOK
  <2>2. Truthful(notices, inbox, batch, f, disk[f]) => Truthful(notices, inbox, batch, f, disk[f])'
    BY <2>1, OthersTaken
  <2>3. indexed' = indexed /\ indexed[f] = NoText /\ (f \notin todo' => disk[f] = NoText)
    BY <1>1, <1>2, TakeKeeps DEF HandleInitialize, Take, ProtocolInv, Starting, NoFiles
  <2> QED
    BY <1>1, <2>1, <2>2, <2>3 DEF Fresh
<1>3. CASE WalkFile
  <2>1. UNCHANGED <<diskVars, inbox, phase, batch>> /\ phase = "walking"
    BY <1>3 DEF WalkFile
  <2>2. PICK g \in todo : /\ todo' = todo \ {g}
                          /\ indexed' = IF disk[g] = NoText THEN indexed ELSE [indexed EXCEPT ![g] = disk[g]]
    BY <1>3 DEF WalkFile
  <2>3. CASE g = f
    BY <1>1, <2>1, <2>2, <2>3 DEF Fresh, diskVars, ProtocolInv, TypeOK
  <2>4. CASE g # f
    BY <1>1, <2>1, <2>2, <2>4 DEF Fresh, diskVars, ProtocolInv, TypeOK
  <2> QED
    BY <2>3, <2>4
<1>4. CASE WalkDone
  BY <1>1, <1>4 DEF WalkDone, Fresh, diskVars
<1> QED
  BY <1>2, <1>3, <1>4

LEMMA FreshServed ==
  ASSUME ProtocolInv, FreshInv, NEW f \in NeverOpened,
         \/ HandleInitialized \/ HandleDidOpen \/ HandleDidChange \/ HandleDidClose
         \/ HandleRequest \/ HandleReply \/ HandleExit
  PROVE  Fresh(f)'
<1>1. PICK kind \in {"initialized", "didOpen", "didChange", "didClose", "request", "reply", "exit"} : Take(kind)
  BY DEF HandleInitialized, HandleDidOpen, HandleDidChange, HandleDidClose, HandleRequest, HandleReply, HandleExit
<1>2. /\ Fresh(f) /\ f \in Files /\ f \notin Editable /\ inbox \in Seq(Message)
      /\ inbox # << >> /\ Head(inbox).kind # "watched" /\ inbox' = Tail(inbox)
      /\ notices' = notices /\ disk' = disk /\ missed' = missed
  BY <1>1 DEF FreshInv, NeverOpened, Take, diskVars, ProtocolInv, TypeOK
<1>3. phase # "starting"
  BY <1>1, TakeKeeps
<1>4. todo' = todo /\ batch' = batch
  BY DEF HandleInitialized, HandleDidOpen, HandleDidChange, HandleDidClose, HandleRequest, HandleReply, HandleExit,
         serverVars
<1>5. indexed'[f] = indexed[f]
  <2>1. CASE HandleDidOpen \/ HandleDidChange
    <3> DEFINE m == Head(inbox)
    <3>1. m \in Message /\ m \in OfEditable /\ m.kind \in {"didOpen", "didChange"}
      BY <2>1, TakeKeeps DEF HandleDidOpen, HandleDidChange
    <3>2. UriToPath[m.uri] # f
      BY <1>2, <3>1 DEF OfEditable, DocKinds, EditedUri
    <3>3. indexed' = [indexed EXCEPT ![UriToPath[m.uri]] = m.text]
      BY <2>1 DEF HandleDidOpen, HandleDidChange, SetDoc
    <3> QED
      BY <1>2, <3>2, <3>3 DEF ProtocolInv, TypeOK
  <2>2. CASE HandleInitialized \/ HandleDidClose \/ HandleRequest \/ HandleReply \/ HandleExit
    BY <2>2 DEF HandleInitialized, HandleDidClose, HandleRequest, HandleReply, HandleExit, serverVars
  <2> QED
    BY <2>1, <2>2
<1>6. /\ Underway(notices, inbox, batch, f)' <=> Underway(notices, inbox, batch, f)
      /\ Truthful(notices, inbox, batch, f, disk[f]) => Truthful(notices, inbox, batch, f, disk[f])'
  BY <1>2, <1>4, OthersTaken
<1> QED
  BY <1>2, <1>3, <1>4, <1>5, <1>6, FreshKept

\* A notice is taken apart, and its next change applied.
LEMMA FreshApplied ==
  ASSUME ProtocolInv, FreshInv, NEW f \in NeverOpened, HandleWatched \/ ApplyChange
  PROVE  Fresh(f)'
<1>1. Fresh(f) /\ f \in Files /\ f \notin Editable /\ inbox \in Seq(Message) /\ batch \in Seq(Change)
  BY DEF FreshInv, NeverOpened, ProtocolInv, TypeOK
<1>2. CASE HandleWatched
  <2>1. /\ inbox # << >> /\ Head(inbox).kind = "watched" /\ inbox' = Tail(inbox) /\ batch = << >>
        /\ batch' = Head(inbox).changes
        /\ UNCHANGED <<disk, notices, missed, todo, phase, indexed>>
    BY <1>2 DEF HandleWatched, Take, diskVars
  <2>2. phase # "starting"
    BY <1>2, TakeKeeps DEF HandleWatched
  <2>3. Underway(notices, inbox, batch, f)' <=> Underway(notices, inbox, batch, f)
    BY <1>1, <2>1, WatchedTaken
  <2>4. Truthful(notices, inbox, batch, f, disk[f]) => Truthful(notices, inbox, batch, f, disk[f])'
    BY <1>1, <2>1, WatchedTaken
  <2> QED
    BY <1>1, <2>1, <2>2, <2>3, <2>4, FreshKept
<1>3. CASE ApplyChange
  <2> DEFINE ch == Head(batch)
  <2>1. /\ batch # << >> /\ batch' = Tail(batch) /\ ch \in Change /\ ch.file \in Files
        /\ UNCHANGED <<disk, notices, missed, inbox, todo, phase>>
    BY <1>3, ChangeTaken DEF ApplyChange, diskVars, ProtocolInv
  <2>2. phase = "serving" /\ todo = {}
    BY <2>1 DEF ProtocolInv, Applying, Listing
  <2>3. Truthful(notices, inbox, batch, f, disk[f])
    BY <1>1 DEF Fresh
  <2>4. /\ Truthful(notices, inbox, Tail(batch), f, disk[f])
        /\ ch.file # f => (Underway(notices, inbox, Tail(batch), f) <=> Underway(notices, inbox, batch, f))
        /\ ch.file = f => Underway(notices, inbox, Tail(batch), f) \/ Correct(ch, disk[f])
    BY <1>1, <2>1, <2>3, ChangeApplied
  <2>5. CASE ch.file # f
    <3>1. indexed'[f] = indexed[f]
      BY <1>1, <1>3, <2>1, <2>5 DEF ApplyChange, ProtocolInv, TypeOK
    <3> QED
      BY <1>1, <2>1, <2>2, <2>4, <2>5, <3>1, FreshKept
  <2>6. CASE ch.file = f
    <3>1. docs[PathToUri[f]] = NoText
      BY <1>1, UriAssumption DEF ProtocolInv, EditedOnly, EditedUri
    <3>2. Correct(ch, disk[f]) => indexed'[f] = disk[f]
      <4>1. CASE ch.type = "deleted"
        BY <1>1, <1>3, <2>6, <4>1 DEF ApplyChange, Correct, ProtocolInv, TypeOK
      <4>2. CASE ch.type # "deleted"
        BY <1>1, <1>3, <2>6, <3>1, <4>2 DEF ApplyChange, Correct, Unread, ProtocolInv, TypeOK
      <4> QED
        BY <4>1, <4>2
    <3> QED
      BY <2>1, <2>2, <2>4, <2>6, <3>2 DEF Fresh
  <2> QED
    BY <2>5, <2>6
<1> QED
  BY <1>2, <1>3

\* The editor sends a message or reads one.
LEMMA FreshSent ==
  ASSUME ProtocolInv, FreshInv, NEW f \in NeverOpened,
         \/ \E g \in Files, t \in Texts : OpenDoc(g, t) \/ ChangeDoc(g, t)
         \/ \E g \in Files : CloseDoc(g) \/ Request(g)
         \/ SendNotices \/ Exit \/ Receive
  PROVE  Fresh(f)'
<1>1. Fresh(f) /\ inbox \in Seq(Message) /\ notices \in Seq(Change)
  BY DEF FreshInv, ProtocolInv, TypeOK
<1>2. UNCHANGED <<disk, missed, phase, todo, batch, indexed>>
  BY DEF OpenDoc, ChangeDoc, CloseDoc, Request, SendNotices, Exit, Receive, Send, diskVars, serverVars
<1>3. ASSUME Initialized PROVE phase # "starting"
  BY <1>3, BoundsAssumption DEF Initialized, ProtocolInv, Starting, TypeOK, Ids, InitializeId
<1>4. CASE SendNotices
  <2>1. notices' = << >> /\ inbox' = Append(inbox, [kind |-> "watched", changes |-> notices]) /\ Initialized
    BY <1>4 DEF SendNotices, Send
  <2>2. /\ Underway(notices, inbox, batch, f)' <=> Underway(notices, inbox, batch, f)
        /\ Truthful(notices, inbox, batch, f, disk[f]) => Truthful(notices, inbox, batch, f, disk[f])'
    BY <1>1, <1>2, <2>1, NoticesSent
  <2> QED
    BY <1>1, <1>2, <1>3, <2>1, <2>2, FreshKept
<1>5. ASSUME NEW m \in Message, m.kind # "watched", inbox' = Append(inbox, m), notices' = notices, phase # "starting"
      PROVE  Fresh(f)'
  <2>1. /\ Underway(notices, inbox, batch, f)' <=> Underway(notices, inbox, batch, f)
        /\ Truthful(notices, inbox, batch, f, disk[f]) => Truthful(notices, inbox, batch, f, disk[f])'
    BY <1>1, <1>2, <1>5, OthersSent
  <2> QED
    BY <1>1, <1>2, <1>5, <2>1, FreshKept
<1>6. ASSUME NEW m \in Message, m.kind # "watched", Send(m), notices' = notices PROVE Fresh(f)'
  BY <1>3, <1>5, <1>6 DEF Send
<1>7. ASSUME NEW g \in Files, (\E t \in Texts : OpenDoc(g, t) \/ ChangeDoc(g, t)) \/ CloseDoc(g) PROVE Fresh(f)'
  <2>1. \E m \in Message : Send(m) /\ m.kind # "watched"
    BY <1>7, MessagesMade DEF OpenDoc, ChangeDoc, CloseDoc
  <2>2. notices' = notices
    BY <1>7 DEF OpenDoc, ChangeDoc, CloseDoc, diskVars
  <2> QED
    BY <1>6, <2>1, <2>2
<1>8. ASSUME NEW g \in Files, Request(g) PROVE Fresh(f)'
  <2> DEFINE m == [kind |-> "request", id |-> sent + 1, file |-> g, seen |-> buffers[g]]
  <2>1. m \in Message
    BY <1>8, RequestMade DEF ProtocolInv
  <2> QED
    BY <1>6, <1>8, <2>1 DEF Request, diskVars
<1>9. CASE Exit
  BY <1>6, <1>9, MessagesMade DEF Exit, diskVars
<1>10. CASE Receive
  <2>1. notices' = notices /\ outbox # << >>
    BY <1>10 DEF Receive, diskVars
  <2>2. phase # "starting"
    BY <2>1 DEF ProtocolInv, Starting
  <2>3. CASE inbox' = inbox
    BY <1>1, <1>2, <2>1, <2>2, <2>3, FreshKept
  <2>4. ASSUME NEW m \in Message, m.kind \in {"initialized", "reply"}, inbox' = Append(inbox, m) PROVE Fresh(f)'
    BY <1>5, <2>1, <2>2, <2>4
  <2> QED
    BY <1>10, <2>3, <2>4, ReceiveSends
<1> QED
  BY <1>4, <1>7, <1>8, <1>9, <1>10

\* A file changes, and the watcher sees it once it is registered.
LEMMA FreshWritten ==
  ASSUME ProtocolInv, FreshInv, NEW f \in NeverOpened, NEW g \in Files, NEW t \in Texts \cup {NoText},
         WriteDisk(g, t), UNCHANGED <<watching, inbox, phase, todo, batch, indexed>>
  PROVE  Fresh(f)'
<1>1. Fresh(f) /\ f \in Files /\ notices \in Seq(Change) /\ disk' = [disk EXCEPT ![g] = t]
      /\ disk \in [Files -> Texts \cup {NoText}]
  BY DEF FreshInv, NeverOpened, ProtocolInv, TypeOK, WriteDisk
<1>2. CASE watching
  <2> DEFINE ch == [file |-> g, type |-> IF t = NoText THEN "deleted"
                                         ELSE IF disk[g] = NoText THEN "created" ELSE "changed"]
  <2>1. ch \in Change /\ ch.file = g /\ Correct(ch, t)
    BY DEF Change, Correct
  <2>2. notices' = Append(notices, ch) /\ missed' = missed \ {g}
    BY <1>2 DEF WriteDisk
  <2>3. CASE g = f
    <3>1. disk'[f] = t
      BY <1>1, <2>3
    <3>2. Underway(notices, inbox, batch, f)' /\ Truthful(notices, inbox, batch, f, disk[f])'
      BY <1>1, <2>1, <2>2, <2>3, <3>1, ChangeReported
    <3> QED
      BY <1>1, <3>2 DEF Fresh
  <2>4. CASE g # f
    <3>1. disk'[f] = disk[f] /\ (f \in missed <=> f \in missed')
      BY <1>1, <2>2, <2>4
    <3>2. /\ Underway(notices, inbox, batch, f)' <=> Underway(notices, inbox, batch, f)
          /\ Truthful(notices, inbox, batch, f, disk[f]) => Truthful(notices, inbox, batch, f, disk[f])'
      BY <1>1, <2>1, <2>2, <2>4, <3>1, ChangeReported
    <3> QED
      BY <1>1, <3>1, <3>2 DEF Fresh
  <2> QED
    BY <2>3, <2>4
<1>3. CASE ~watching
  <2>1. notices' = notices /\ missed' = IF BeforeWalk(g) THEN missed ELSE missed \cup {g}
    BY <1>3 DEF WriteDisk
  <2>2. CASE g = f
    <3>1. ~Underway(notices, inbox, batch, f)
      <4>1. notices = << >> /\ batch = << >> /\ inbox \in Seq(Unreported)
        BY <1>3 DEF ProtocolInv, Unwatched
      <4>2. \A i \in DOMAIN inbox : inbox[i].kind # "watched"
        BY <4>1 DEF Unreported
      <4> QED
        BY <4>1, <4>2, NothingIn DEF Underway, Mentioned, Mentions
    <3> QED
      BY <1>1, <2>1, <2>2, <3>1 DEF Fresh, Truthful, BeforeWalk
  <2>3. CASE g # f
    BY <1>1, <2>1, <2>3 DEF Fresh
  <2> QED
    BY <2>2, <2>3
<1> QED
  BY <1>2, <1>3

LEMMA FreshNext == ProtocolInv /\ FreshInv /\ [Next]_vars => FreshInv'
<1> SUFFICES ASSUME ProtocolInv, FreshInv, [Next]_vars, NEW f \in NeverOpened PROVE Fresh(f)'
  BY DEF FreshInv
<1>1. CASE Server
  BY <1>1, FreshWalked, FreshServed, FreshApplied DEF Server
<1>2. ASSUME NEW g \in Files, Save(g) \/ \E t \in Texts \cup {NoText} : ExternalChange(g, t) PROVE Fresh(f)'
  <2>1. \E t \in Texts \cup {NoText} : WriteDisk(g, t)
    BY <1>2 DEF Save, ExternalChange, ProtocolInv, TypeOK
  <2>2. UNCHANGED <<watching, inbox, phase, todo, batch, indexed>>
    BY <1>2 DEF Save, ExternalChange, editorVars, serverVars
  <2> QED
    BY <2>1, <2>2, FreshWritten
<1>3. CASE Editor
  BY <1>2, <1>3, FreshSent DEF Editor
<1>4. CASE Disk
  BY <1>2, <1>4 DEF Disk
<1>5. CASE UNCHANGED vars
  BY <1>5 DEF FreshInv, Fresh, vars, diskVars, serverVars
<1> QED
  BY <1>1, <1>3, <1>4, <1>5 DEF Next

\* Whatever the editor, the disk and the server do, and however its changes
\* are batched, a file that is never opened is indexed as it is on disk, or a
\* notice of its change is under way, or the change fell between walk and
\* watcher.
THEOREM UnopenedFresh == Spec => []FreshOrPending
<1>1. Init => ProtocolInv /\ FreshInv
  BY ProtocolInit, FreshInit
<1>2. ProtocolInv /\ FreshInv /\ [Next]_vars => (ProtocolInv /\ FreshInv)'
  BY ProtocolNext, FreshNext
<1>3. ProtocolInv /\ FreshInv => FreshOrPending
  <2> SUFFICES ASSUME ProtocolInv, FreshInv, phase = "serving", NEW f \in NeverOpened
               PROVE  indexed[f] = disk[f] \/ Pending(f) \/ f \in missed
    BY DEF FreshOrPending
  <2>1. Fresh(f) /\ f \notin todo
    BY DEF FreshInv, ProtocolInv, Listing
  <2>2. Underway(notices, inbox, batch, f) => Pending(f)
    BY DEF Underway, Mentioned, Mentions, Pending
  <2> QED
    BY <2>1, <2>2 DEF Fresh
<1> QED
  BY <1>1, <1>2, <1>3, PTL DEF Spec
=============================================================================
