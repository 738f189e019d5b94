# A TLA+ model of tcl-lsp.nvim

The repository is a language server for Tcl and RVT templates
(`src/server`, in Go) with thin Neovim and Vim plug-ins that build and start
it. These modules model the server: the index it keeps of a workspace, how it
keeps that index in step with an editor and a disk that both move on, how it
resolves names from it, what its analysis finds in a file beside what an
interpreter does with it, and how it maps templates to scripts and positions
to offsets. Paths below are relative to
`src/server/internal/` unless they start with `src/`.

    tlc -workers 2 -config MCIndex.cfg MCIndex      # model-check one run
    tlapm IndexProofs.tla                           # check the proofs

`PROJECT.json` lists the components, runs, mutants and theorems, the source
lines every definition stands for, the hazards, and the findings.

## The system

One goroutine (`lsp/server.go`) reads JSON-RPC messages from standard input,
handles each to the end and writes the answer. It owns all state: the open
documents and the index. So nothing inside the server interleaves; the
interleavings are those of the server with the editor and with the disk.

| component | state | operations | correct when |
|---|---|---|---|
| workspace index, `index/index.go` | definitions by name, classes with members and inherit edges, per-file stores and ledgers, a namespace memo | IndexFile, RemoveFile, Lookup, Class, FileRefs, Files, Source, Namespace, AllSymbols | after any history it answers as if built anew from the current texts |
| language server, `lsp/server.go`, `lsp/protocol.go` | open documents, the index | dispatch of every message, the initial walk, watched changes, panic recovery | live text wins over disk copies, the index follows the disk, every request has one answer |
| name resolution, `resolve/resolve.go` | none; reads index and documents | goto-definition, find-references | the two are inverse to each other |
| call hierarchy, `lsp/callhierarchy.go` | none | prepare, incoming and outgoing calls | who calls and who is called agree |
| inheritance walk, in both of the above | a visited set | methodInClass, ivarInClass, methodResolvesTo | returns on cyclic classes, first declaration depth first wins |
| reaching definitions, `tcl/reaching.go` | one analyzer per question | ReachingAt | never drops a binding that reaches the use |
| object types, `tcl/classof.go`, `tcl/objmethod.go` | none | the classes a receiver may hold | no possible class is dropped |
| template map, `rvt/rvt.go`, `source/source.go` | none | stitch the Tcl of a page, translate offsets | offsets map back into the page |
| positions, `lsp/position.go` | none | byte offset to UTF-16 position and back | round trip |
| JSON-RPC framing, `lsp/jsonrpc.go` | a byte stream | read, write | what is written is read back |
| Tcl analysis, the rest of `tcl/` | none | scan, parse, collect definitions, references, namespaces and classes | whatever the file does when it runs was found, in the context it runs in |
| symbols and folding, `lsp/symbols.go`, `lsp/folding.go`, `tcl/fold.go` | none | outline, workspace symbols, fold ranges | every definition is shown once, in order; bodies fold and data does not |
| client plug-ins, `src/lua`, `src/autoload` | a built binary | build when stale, start | the binary is that of the sources |

What is hard here:

* **Histories of the index.** RemoveFile undoes what IndexFile did, through
  ledgers of what that was; edges have owners; a memo spans files. An error
  shows only after some sequence of edits over several files.
* **Order between editor, disk and server.** Notices of changes on disk are
  late and batched, the server reads the disk when it handles them, documents
  open and close in between, and all of it waits while the first walk runs.
* **Two paths to one answer.** References, incoming calls and the
  inheritance walk each repeat a resolution in code of their own.
* **Control flow of analysed programs.** Loops and non-local exits.
* **Context.** Namespace, frame, scope and class of a command depend on all
  bodies around it, and what is a body depends on the command around that.

The directory walk, the code that edits the index and the feature handlers
call each other directly; there are no callbacks but the progress report of
the walk, which changes nothing.

## The modules

| module | models | depends on |
|---|---|---|
| `FileUnits` | what one text contributes (`Analysis`, a constant operator) and what a table of texts answers | |
| `WorkspaceTable` | the abstract index: a map from file to text, and queries of it | `FileUnits` |
| `Index` | `index.go` | `FileUnits`, `WorkspaceTable` |
| `IndexProofs` | theorems of `Index` | `Index` |
| `LspServer` | `server.go` with editor, disk and the two message streams | |
| `LspServerProofs` | theorems of `LspServer` | `LspServer` |
| `Hierarchy` | classes with bases: paths, the first match on them | |
| `MemberWalk` | `methodInClass`, `methodResolvesTo` step by step | `Hierarchy` |
| `MemberWalkProofs` | theorems of `MemberWalk`, and lemmas on these paths | `MemberWalk` |
| `Resolver` | `resolve.go` and `callhierarchy.go` over a changing workspace | `FileUnits`, `Hierarchy` |
| `ResolverProofs` | theorems of `Resolver` | `Resolver` |
| `ReachingDefs` | `reaching.go` beside a proc that executes | |
| `ObjectTypes` | `classof.go` and `$obj method` of `resolve.go`, beside the same proc | `ReachingDefs`, `Hierarchy` |
| `ReachingProofs` | theorems of `ReachingDefs` and `ObjectTypes` | `ObjectTypes` |
| `TclFile` | one walk over the commands of a file: `walk.go`, `bodies.go`, `defs.go`, `refs.go`, `nsdecl.go`, `classdecl.go`, `fold.go` | |
| `Outline` | the outline tree of `symbols.go` | `TclFile` |
| `TclRun` | an interpreter that runs the file, and what must have been found | `Outline` |
| `TclProofs` | theorems of `TclRun` | `TclRun` |
| `TclDataProofs` | the theorem of `TclRun` on words of data | `TclProofs` |
| `RvtMap` | `rvt.go` region by region, translation of offsets and names (`source.go`) | |
| `Position` | `position.go`: UTF-16 positions and byte offsets | |
| `PageCursor` | the way of a cursor from the editor to the script and back | `RvtMap`, `Position` |
| `PageCursorProofs` | theorems of `RvtMap` and `PageCursor` | `PageCursor` |
| `MCIndex`, `MCLspServer`, `MCMemberWalk`, `MCResolver`, `MCReachingDefs`, `MCTclRun`, `MCPageCursor` | the small instances | |

The layers meet in three places. `Index` implements `WorkspaceTable`, so
`LspServer` and `Resolver` keep the map of indexed texts only and compute
answers with the operators `WorkspaceTable` uses. `LiveTextNotShadowed` of
`LspServer` lets `Resolver` use the indexed text where the code reads the live
document. `FirstMatch` and `ReachedPastOthers` of `Hierarchy`, which
`MemberWalk` shows the two walks to compute, are what `Resolver` and
`ObjectTypes` use for them.

**Index.** The variables are the Go fields: `defsByName`, `classes`
(`DefSites`, `Methods`, `Ivars`, `Inherit`), `fileDefs`, `fileClassKeys`,
`fileClassInherit`, `fileNS`, `fileRefs`, `src`, `nsCache`; `answer` is what
the last query returned. One action per method. IndexFile is RemoveFile
followed by the additions, as in the code. Lists of sites are sets, since
their order is not what any property is about; the order of imports and paths
of a namespace, which decides resolution, is kept. The analysis of a text is
a constant, so theorems hold for whatever the parser does.

**LspServer.** `disk`, `buffers`, `notices`, `watching` are the world;
`inbox`, `outbox` the two streams; `docs`, `indexed`, `phase`, `todo`,
`batch` the server. Each case of dispatch is an action that takes a message.
Where the code looks at the disk more than once in one handler, the handler is
split, because the disk may change in between: the walk has one step per file,
a notice one per change. The walk lists the directory at once (as WalkDir does
for a flat one) and reads files later. Panics are modelled by what the
recovery does, a reply with null. The server's own requests (registerCapability,
the progress token) carry ids of their own numbering, so the ids of replies
to them and of requests overlap; `HandleReply` is what dispatch does with a
message without a method.

**MemberWalk.** The recursion of `methodInClassSeen` is a stack of classes.
The walk of incoming calls follows it from the same class, with its own rule:
a declaration other than the one asked about stops that branch only.
`DepthFirst` says what the stack is about, in terms of the recursion it
replaces: the calls in progress, and which of them lists each waiting class.

**Resolver.** State is the text map, actions index and remove; everything else
is operators on it, `Definition`, `ReferencesTo`, `incomingCalls` and
`outgoingCalls` with the functions they call under their Go names. A name is
one or two segments, an import pattern may end in a star. A relative qualified
name stands with what `qualify` makes of it (resolve.go:532-542), which depends on
the reference alone; `Requests` is `::request` with the namespaces nested in it,
such as the `::request::app` that a relative `app` in a page means.

**ReachingDefs.** A command is a record with nested bodies. Each Go function of
the analysis is an operator of that name, from the set at a point to the set
behind it, with whether that is live, what leaves the loop around by `break`
and `continue`, and what has been noted at uses (the fields of `analyzer`). The
recursion from a command into its bodies is a function of the nesting depth
(`Flow`), with depths up to the constant `Depth`: commands of one depth are
analyzed with the function for the depth below. The loops in `seq` and
`analyzeLoop` are folds. A `switch` comes in three forms, which the code treats
in different ways: arms in one list, one arm a line; a list on one line; arms
as words. The list is walked as a script of commands named for their patterns,
so bindings in the arms are collected but nothing else about them is known; of
a list on one line, and of words inside another conservative command, only the
last arm is seen (`childBodies`). The code asks for one use at a time and stops
noting once it is found; the model notes every use where the walk first meets
it. The execution is a state machine with a stack of bodies, each with the
command it is at and, for a loop, whether a pass has begun. One variable
suffices, as bindings of different variables do not interact in the analysis.
The invariant compares the value's origin with the analysis whenever a use is
about to run.

**ObjectTypes.** Each binding of that variable may make an object of a class.
`ClassOf` collects the classes of the bindings that reach a use, by a search
through nested bodies like the one in the code; `MethodDefinition` looks the
method up on each. The execution says which object the receiver holds.

**TclFile, Outline, TclRun.** A file is what the parser leaves: commands of
words, each with its kind, the commands in its brackets and the variables it
names. An offset is the path to a word, which keeps what offsets are compared
for. `FileAll` walks the commands like `walkAll`, with the context (namespace,
frame, scope, class) that `childBodies` gives each body; the helpers that
decide which words are bodies, conditions, parameters or names keep their Go
names. `buildDocumentSymbols` makes the outline from the definitions. `TclRun`
runs the file: a stack of scripts, with the procs and methods defined so far,
any of which may be called, in the namespace and class Tcl runs it in. What
the interpreter is taken to do is external to the repository and is marked so
in `PROJECT.json`. `now` is what the last step looked up, created, bound and
ran, and the properties compare it with what the walk found.

The code recurses from a command into its words; `walkAll`, `substRefs` and the
outline are functions of the depth instead, up to the constant `Nesting`, which
bounds how deep the words of a file nest (`Nested`). Which files may be run is
the assumption `SourcesAssumption`: each is `Accepted`, which says of the
commands the walk or a bracket reaches that they have the words Tcl wants of
them (`HasWords`, `HasMemberWords`), since Tcl stops with an error at others,
with names spelled out and bodies in braces, since the code looks at no others.
It leaves out what the code is known not to follow: a body behind a modifier or
a decorator that it has no rule for, a command with `proc` among its arguments
that defines none, quoted command names, a switch arm whose pattern is the name
of a command that takes data, and inside brackets a constructor with an init
script or the declaration of a method. The words also stand where the paths to
them lead (`InPlace`): the model counts commands and words where the code has
byte offsets, and this says of the one what the parser makes true of the other,
that two words are at two places and a word lies within the one it was cut from.
TLC evaluates the assumption on the files of the run.

**RvtMap.** `Extract` is a state machine with one step per region of the
page, whose variables are the Go locals `i`, the builder `script` and
`mapping`. `ToSource` and `ToVirtual` pick the first region that ends behind
an offset, as `sort.Search` does. A page is any sequence of bytes. `Mode` is a
second, independent reading of a page, byte by byte, against which
`CodeIsMapped` compares the map; `CodeSoFar` is what the two have in common at
any point of the extraction. In **Position**, a byte has the UTF-16 units
of the rune it starts, and none within a rune.

## The runs

| run | instance | shows |
|---|---|---|
| `index` | 3 files (two share a class, one is a page), 3 texts, 5 names, 2 classes | tables, ledgers, credits and memo exact after every history; `Index` implements `WorkspaceTable` |
| `inherit` | the same | *violation*: an edge two files declare is lost when one of them changes |
| `server` | a file that is edited and one that is only on disk, 2 texts, one request, FairSpec | live text not shadowed, requests see the buffer, one answer each, no change on disk lost; requests are answered, the index catches up with the disk |
| `deleted_open` | the same | *violation*: an open document falls out of the index |
| `member_walk` | all hierarchies of 4 classes within the limits below, all sets of declaring classes | first match, the order of what waits, nothing missed, both walks return, by a measure that each step takes down |
| `incoming_override` | the same | *violation*: an incoming call past an override |
| `resolver` | a `.tcl` file and two pages, each with none or one of 15 texts | references invert definitions, callers are found, pages keep apart |
| `hidden_procs` | the same | *violation*: a caller that does not call |
| `reaching` | bodies of a compound command of two items and a use behind it, every form of `switch` among them; a diamond of four classes | nothing dropped where the analysis follows the proc (`Followed`); the method of the object a variable holds is among the answers |
| `reaching_loops` | loops of two plain commands | *violation*: what comes round a loop is dropped |
| `analysis` | 4700 files: a script of one or two commands in every combination of two or three constructs | references, contexts, definitions, locals, bodies and declarations found as the file runs; the outline complete, and in order where the file is no page |
| `page_cursor` | pages of up to 4 pieces, or of a tag and up to 5, each one of 7 | all code mapped, translations and positions invert each other, names keep their bytes |

Why the bounds suffice, as far as one can say:

* `index`: the ledger code treats files alike and names alike; an error
  needs a file that changes, one that shares something with it, and a third to
  order imports around them. The theorems remove the bound.
* `server`: the open file and the unopened one are handled by different rules,
  and no rule relates two files of one kind. Two texts tell old from new.
  `MaxRequests`, `MaxInbox` and `MaxNotices` bound the counters and the
  queues, in guards of the editor; the server's own steps are never blocked
  by them. The run has two messages in the stream and one change in a batch:
  an edit or a notice waits with a request. The theorems remove the bounds for
  the safety properties, batches that delete and recreate a file included.
* `member_walk`: telling depth first from breadth first takes four classes.
  The call is made in one class, and the edge lists of the others are limited
  (`MCHierarchies`): cycles, diamonds and shared bases are all among them.
* `resolver`: every pair of ways to declare and to reach `run` occurs in one
  text or across files. All files define `go`, which calls it.
* `reaching`: nesting depth two inside each kind of compound command, all
  pairs of items, including every exit, and arms of each form of a `switch`
  at both levels. Bindings make objects of two classes
  or of none; from the first of them the two declarations differ by the order
  of bases only. A loop is analyzed until nothing new comes round, within
  `MaxPasses`; the code stops after 200 passes, which it never needs: one pass
  turns a set into what the body binds and some of the set, so the second adds
  nothing. The theorems remove the bound, on `Depth` too.
* `analysis`: every construct occurs inside every other, around every script,
  so each hand-over of a context from one body to another occurs, with its
  effect on one more level. Namespaces are reopened, classes have members in
  and outside their bodies, procs are called before and after others. The words
  of these files nest at most 7 deep, two levels for each of three constructs
  and one for the script, so `Nesting = 7` cuts nothing off; the theorems hold
  for any depth and any set of accepted files.
* `page_cursor`: with a tag and five pieces more there are pages of two
  regions with code or markup on both sides, with empty and unterminated ones,
  with runes and line breaks in any of these places. The theorems remove the
  bound for all five properties.

`CHECK_DEADLOCK FALSE` is set where the system stops: the server after `exit`,
a walk that has returned, a proc or a file that has ended. `Index` and
`Resolver` never stop and are checked for deadlock.

**Fairness.** Only the runs with liveness properties assume any.
`WF_vars(Server)`: the loop in `Run` blocks on nothing but the next message,
and no handler waits for the editor. `WF_vars(Receive)`: the editor reads what
it is sent. `SF_vars(SendNotices)`: the editor passes notices on again and
again while it can; strong, because the bound on the stream, which the real one
does not have, disables it from time to time. Nothing is assumed of users,
disk or the editor's other messages. `WF_vars(Next)` in MemberWalk: a function
call runs until it returns.

Each property of a passing run has a mutant in the module, an operator
described in a comment before the definition it stands in for; with it in
place, the run reports the property violated.

## What is proved

For every value of the constants that satisfies the named assumptions, TLAPS
checks:

* `IndexInvariant`: `Spec => []IndInv`. `IndInv` is the conjunction of type
  invariant, `LedgersExact`, `DefsExact`, `MembersExact`, `StoresExact`,
  `EdgesCredited` and `NsCacheCoherent`. No part is inductive alone: that
  RemoveFile takes every site of a file out of the tables needs the ledgers to
  name all of them, so `DefsExact`, `MembersExact` and `EdgesCredited` need
  `LedgersExact`, and the memo needs the stores. Both IndexFile and RemoveFile
  replace what one file contributes (`Replaces`), so each part is proved once,
  for a replacement, and the two actions are shown to be replacements.
* `IndexTypeCorrect`, `LedgersAlwaysExact`, `StoresAlwaysExact`,
  `DefsAlwaysExact`, `MembersAlwaysExact`, `EdgesAlwaysCredited`,
  `NsCacheAlwaysCoherent`: the parts, as invariants of `Spec`.
* `IndexImplementsTable`: `Spec` implements the abstract table. Its step
  lemma maps each method to `Put` or `Ask` or a stutter, from `IndInv`.
  `Inherit` is not part of the answers compared, because of the finding
  below.
* `ServerTypeCorrect`, and `ProtocolInv` of `LspServerProofs`, which
  `LiveTextNeverShadowed` and `UnopenedFresh` rest on: what the streams hold in
  each phase (nothing but `initialize` before the walk, no second one, no
  notices before the watcher) and that only editable files are ever open.
* `LiveTextNeverShadowed`: assuming `SameSpelling`, that editor and server
  spell URIs alike. Every write of `indexed` is a buffer's text for an open
  document, or a disk copy behind the guard.
* `RequestsSeeBuffers`: with `SameSpelling`. The invariant reads the stream
  forwards: the text of a file after all its messages is the buffer
  (`BuffersFollow`), and after those before a request it is what was on the
  screen when that was asked (`RequestsFollow`). Taking a message from the
  front and sending one at the end keep both; the request at the front then
  meets the document table as it is.
* `RequestsAnsweredOnce`: `InOnePlace`, by the *set of places* that hold an id
  in either stream instead of their number, so that no counting is needed but
  in the last step. Replies to the server's own requests share the ids and
  are told apart by kind.
* `UnopenedFresh`: `FreshInv` adds to the property that the *last* notice about
  a file, over the three queues it may be in (`Truthful`), agrees with the disk
  on whether the file exists. Without it, a batch could delete at the end what
  is there. A file in `todo` is not yet indexed.
* `WalkInvariant` of `MemberWalk`: what has been visited lacks the member and
  everything it inherits from is visited or on the stack. An empty stack
  therefore means that no ancestor declares the member, although all branches
  share one visited set.
* `FirstMatchHolds` of `MemberWalk`: the visited set cuts the search of a class
  short where it was met before, on another path, and the answer is still that
  of a search without the set. `FirstMatchWins` compares whole paths, the stack
  holds single classes; `DepthFirst` relates them. The calls in progress form a
  path over visited classes, and each waiting class is a base of one of them,
  the inner ones in front. Every base of a visited class that was not visited
  waits for it (`BasesWait`), and every path to a declaration leaves the path of
  the calls for a class that waits, after the base that was taken there and
  after those that wait before it (`HitsWait`). A visited class at the top of
  the stack can be dropped: a path through it to a declaration leaves the
  visited classes somewhere, for a base that waits for a call further out
  and so lies on the path twice (`NoHitBehindSeen`). A class that matches ends
  the path of the calls, and all other paths to a declaration come later
  (`FirstMatched`, `FirstMatchIs`).
* `WalkAlwaysShrinks`: each step ends a walk, or marks a class, or drops one
  from the stack, in this lexicographic order. That is what termination needs
  beside fairness, for every hierarchy with finitely many classes.
* `ResolvesIsReached`, `NoIncomingCallMissed` of `MemberWalk`: from `ReachInv`,
  by which both walks meet only classes that a path without another declaration
  leads to, and what the second has visited is closed under bases but for
  declaring classes. `MemberWalkProofs` begins with what this needs about
  paths: a base of a class that is reached is reached, by the beginning of the
  path where it was on it already (`BaseReached`); a set that is closed in this
  way holds all that is reached (`ReachedWithin`, by the least index outside).
  The number of classes is finite, which the code cannot but keep.
* `PagesApartHolds`: what a lookup from one page can see does not change with
  the sites of another that all lie under `::request`: candidates, scoped
  lookups, inheritance and bindings are compared one by one (`SameCandidates`,
  `SameLookups`, `SameInClass`).
* `ReferencesAlwaysInvert`, `NoCallerEverMissing`: under `RequestIsOfPages`, that
  no `.tcl` file defines a name in `::request` or may mean one, which
  resolve.go:500-501 calls outside the supported model; every state of
  the run satisfies it. That both directions pick the first candidate defined
  gives the first (`RefersToFirst`); for methods, the first match depth first
  lies on a path without other declarations (`FirstMatchPastOthers`), so the
  scan of incoming calls comes to it.
* `MapInvHolds` of `RvtMap`: regions stay in order and apart in script and
  page, are copied byte by byte and followed by a line break. The last two
  clauses make this inductive: a region ends no later than `i` and before the
  end of the script, so the next one lies behind it in both. `CodeSoFar`, the
  last part of `MapInv`, is that of the bytes read the mapped ones are the
  code, and that the reading byte by byte is in markup at `i`.
* `CodeIsMappedHolds`: from `CodeSoFar`, which says all at the end of the page.
  A step of the extraction reads many bytes, of which `Mode` reads one at a
  time: `TextGoesOn` and `CodeGoesOn` follow it through markup up to the next
  tag and through code up to the next `%>`, by the least index where it would
  stop doing so.
* `TranslationsInvertHolds`, `WordsKeptHolds`: consequences of `MapInv`. An
  offset lies in at most one region, and that is the one the search finds; a
  word that starts in a region cannot pass the line break behind it.
* `CursorKeptHolds` of `PageCursor`: a position is the line, which is the number
  of breaks before the offset, and the units from its start. The line found
  for this number starts where the offset's line starts (`LineOfOffset`); units
  grow with every rune, so the first boundary with that many is the offset
  (`UnitsGrow`, `OffsetComesBack`). It assumes of `Units` only that they are
  natural numbers (`UnitsAssumption`); that the first byte of a rune has at
  least one and the others none is the definition of a boundary.

* `ReachInvHolds` of `ReachingProofs`: the execution never leaves what the
  analysis has walked, in a proc without `for` and `foreach` in which no arm of
  a switch's list leaves a loop around the switch (`ArmExits`). In such an arm
  the analysis has no place, and the invariant says only what comes behind it.
  A binding of an arm that the walkers pass over (`Lost`) is excepted.
  `ReachInv` gives each body on the stack a *visit*, a depth and the set it was
  entered with, so that the walk of that body from that set is live at the
  command the body is at and holds the binding of the variable there
  (`Stands`). That alone is not inductive: what happens when a body ends or is
  left depends on those below. So `Awaits` adds for each body that waits that
  what the one above may end with is in the walk there (`Resumes`): what its
  own walk ends with for a branch or a pass (`Falls`), what goes round or
  leaves for a pass (`Rounds`), and everything the bodies above may bind for a
  `catch`, which may end anywhere (`Safe`). Breaks and continues pass through
  the blocks up to the loop (`Leaving`), and what a body in no later pass
  notes, the proc notes (`Notes`). One lemma per action. What the analysis
  contributes is that an `if` covers its branches, a `catch` or `switch` all
  that the walkers see its bodies bind, a `while` its entry, its first pass and
  a pass over what comes round (`IfDoes`, `ConservativeDoes`, `WhileDoes`); the
  last because passes only add bindings, of which there are finitely many, so
  that one of them adds nothing (`Settles`).
* `NothingDroppedHolds`: from `ReachInv`, for every such proc, of any length and
  nesting depth, as long as no loop is in a later pass, at every use outside the
  arms of lists, for every binding that is not in `Lost`. These are the limits of
  the property (`Followed`): the code drops bindings beyond each of them
  (finding 5, and the limits below).
* `ReceiverMethodHolds` of `ObjectTypes`: where nothing is dropped, the class of
  the object that `$x` holds is among those of the receiver, and so the method
  that runs is among the answers, for any hierarchy of classes. The search for
  the command that made the object goes by `childBodies` everywhere, so objects
  made in any earlier arm that is passed over (`Aside`) are excepted.

* `DepthFirstHolds` of `MemberWalk`: the part of that invariant that the run
  checks, as a theorem of its own.
* `TclInvHolds` of `TclProofs`: whatever runs was walked. `TclInv` gives each
  command of each script on the stack a *point* of the walk: that of the
  command itself if the script stands outside brackets, or else one whose
  brackets reach the command (`Follows`). While the text says where the script
  runs (`exact`), the point has its namespace, frame, scope and class. The same
  of every proc and method that is defined: its body is a body of a point, in
  the context the call will give it, or all of it is reached from brackets
  (`CallFollows`). This is needed because it may be called long after its
  definition, when nothing on the stack is left of that. What keeps this up is
  that each body that Tcl runs is among `childBodies` of its command, one lemma
  for every kind of construct (`StartedFollow`, `CallablesFollow`), and that the
  walk is closed under these (`WalkReaches`, by the nesting depth: a word nests
  less deep than the word around it). Inside brackets the code keeps no
  contexts, so there it is only said that every body is entered.
* `EveryReferenceFoundHolds`, `ContextsExactHolds`, `EveryDefinitionFoundHolds`
  and `EveryLocalFoundHolds`: what a command looks up, creates and binds is
  emitted at the point it follows. For every set of accepted files, whatever
  branches, brackets and calls run.
* `FoldsAreBodiesHolds` of `TclDataProofs`: a body that runs folds, since it is a
  body of the point its command follows (`BodiesFold`, a part of `TclInv`); and
  nothing inside a braced word of data is a fold or a reference. The second half
  is about the places of words. A place has one word (`OneSpot`), and a word
  inside another is only ever found by opening that one, for the body it is or
  for its brackets (`AroundOpened`). So nothing is found inside a word that the
  walk does not open (`UnopenedApart`), and it opens no word of data: none is an
  expression or a body of its command, or of any command that brackets reach
  (`DataIdle`). What is apart stays so while the file runs (`DataStays`).

Recursive functions over the naturals (`Mode`, `UnitsFrom`, and `Commands`,
`Below`, `Flow` and `walkAll` over the nesting depth) are in reach, since a
fact about them can be proved by the least index at which it would fail
(`WFMin` of WellFoundedInduction): the induction rules of the library are not
needed.

Only model-checked: the liveness properties (the prover has no fairness or
ENABLED), and three properties of the run `analysis`:

* `DeclarationsExact`, which compares sequences: it needs that the walk comes to
  the commands in the order they run in, and that everything it comes to ran.
  The latter is a fact of these files and not of the code, which takes the last
  braced word of any command it does not know for a body.
* `OutlineComplete` and `OutlineOrdered` (the latter of files that are no
  pages): the places of the words are different, as above, but `OutlineOrdered`
  also needs that they are in the order of the text along the walk, and both
  follow a tree that `rebuildNSChildren` builds level by level from namespace
  names.

## Findings

Five runs end in a violation; each is a sentence of the sources that the code
does not keep. PROJECT.json quotes it.

1. `inherit` (index.go:138): an inherit edge belongs to the file that adds it
   first, and goes with that file.
2. `deleted_open` (server.go:306): a deleted event takes an open document out
   of the index, and the created event that follows is skipped.
3. `incoming_override` (callhierarchy.go:208): incoming calls do not stop at
   an override.
4. `hidden_procs` (resolve.go:517): find-references does not look for a method
   of the class around a call.
5. `reaching_loops` (reaching.go:405): the reaching set of a use in a loop is
   noted before the fixpoint is reached.

Known limits without a run of their own, met while modelling:

* A file that changes after the first walk has read it and before the editor
  has installed the watcher stays stale until its next change
  (server.go:91-93). `missed` in LspServer names exactly these files, and
  `FreshOrPending` and `EventuallyFresh` hold for all others.
* The guard for open documents spells the URI anew (server.go:296). The
  runs let the editor spell URIs the same way, and the theorems assume it; with
  one that percent-encodes other characters the guard does not see the document.
* A qualified variable in a proc counts as a proc-local one (resolve.go:36)
  and has no definition, while find-references does count it.
* Imports and paths of `::request` are merged over all pages (index.go:303),
  so an import in one page changes what a name means in another, although
  resolve.go:498-499 calls the namespace not shared. So are the members of
  classes in `::request`: methodInClass does not ask for the file
  (resolve.go:134). `PagesApart` holds for pages with neither.
* A namespace path entry `::` makes the candidate `::::name`
  (resolve.go:321), which nothing is indexed under; commands of the global
  namespace named by a path are therefore tried last.
* A definition of a page that starts in one region and ends in another keeps
  its length from the script, so its end in the page is too early by the markup
  in between (source.go:33-35, 65-67). Its name is right (`WordsKept`); its
  extent decides which callable encloses a call.
* In reaching.go a `foreach` over an empty list loses what its variable held
  (149-151), and a `for` whose next script rebinds a variable loses the
  binding of its start script in the body (158-164).
* The innermost scope of a use may be the body of an `if` or `foreach` at
  namespace level (reaching.go:41-64), which loses bindings made before it.
* An arm of a `switch` with its arms in one list is a command named for its
  pattern to the walk (reaching.go:247-250), which command (294-336) does not go
  into. So a use in an arm is not met, although 222-223 says that it is found; and
  a `break` or `continue` there does not reach the loop: in
  `while 1 {set x 1; switch $k {a {break}}; set x 2}; puts $x` the use behind the
  loop finds the first binding, which the analysis drops, against 219.
* collectBindings goes into a command by childBodies (reaching.go:274), which
  gives the last braced word of a command it does not know. So of a `switch` with
  arms written as words that is itself in a `catch` or another conservative command,
  and of a list on one line anywhere, the bindings of the earlier arms are
  dropped: `catch {switch $k a {set x 1} b {}}; puts $x`, and
  `switch $k {a {set x 1} b {}}; puts $x`.
* The class of an object made in an arm that the walkers pass over is lost
  (classof.go:39-58), also where its binding is not: in any earlier arm of a
  `switch` written as words or as a list on one line.
* A `lassign` alone, as while it is being typed, makes the analysis panic
  (defs.go:398 takes `w[2:]` of one word). `LoopVars` answers that it has no
  variables; Tcl runs no such command, and `HasWords` leaves it out.
* The walk takes the list of `namespace path {a b}` and of an import in braces
  for a script (bodies.go:204), so it folds and its first name is a reference,
  against bodies.go:263-266 and fold.go:14-16.
* `set` of a qualified name in a proc becomes a local of the proc (defs.go:144),
  and a loop variable given as `$vars` one too (defs.go:408).
* Definitions inside brackets are not collected (refs.go:137-158 enters these
  for references only); the variables of `catch`, and parameters of methods,
  are no locals; `$name` in the braces of `expr` is no reference.
* The body of `proc ::a::b` is read in the namespace around the proc, not in
  `::a` (bodies.go:90-92 says so).
* In the outline of a page the symbols of `::request` are put in one piece where
  its node was, after the root has been sorted (symbols.go:216-228). So a namespace
  between two procs comes after both: `proc a {} {}; namespace eval ::foo {proc b
  {} {}}; proc c {} {}` shows `a`, `c`, `::foo`, against 289-290.
  `OutlineOrdered` is about files that are no pages, `OutlineComplete` about both.
* Procs and variables of a class, and methods of classes of other files, are not
  in the outline.

## Not modelled

* Scanner and parser, which cut a text into commands and words: functions on
  strings, of which a model would be a copy. `Index` takes the analysis of
  a text as a constant, any unit for any text; `TclFile` starts at the commands.
* Where a binding of a local use comes from, in Resolver: `Bindings` is a
  constant, empty in the runs; the analysis behind it is ReachingDefs. The
  references on a proc-local symbol.
* How the class name is read off `[Class name]`, and how a cursor is found to be
  on `$obj method` (`objmethod.go`): text again.
* The ranking of workspace symbols and the conversion of folds to lines, pure
  functions; progress notifications. `shutdown` and unknown requests are
  answered like feature requests and are not told apart from them.
* A panic in the initial walk, behind the reply to `initialize`. In `Index`, an
  analysis that panics leaves what a text with an empty unit leaves; the run has
  such a text.
* In RvtMap, the extents of definitions and of folds that cross regions.
  Malformed UTF-8 in Position, and positions of one text used in another.
* `.tcl` files that name `::request` themselves.
* More than one reference at a cursor: a cursor stands for one.
* Subdirectories in the first walk, and files it cannot read for another
  reason than that they are gone.
* In ReachingDefs: `try`, handler scripts, links made by `global` and `upvar`,
  the size limit, `lmap` and `dict for` (as `foreach`), finding the enclosing
  body.
* JSON-RPC framing: a sequential function of the byte stream that keeps nothing
  between two messages. A body that is no JSON ends the server (jsonrpc.go:85).
* The staleness test of the plug-ins (`src/lua/tcl-lsp/build.lua`): one
  comparison of timestamps, in seconds, for each source file.
* Static configuration of editors, key maps, `main.go`.

## Plan

Modelled and checked: the index, the server, the walks, resolver and call
hierarchy, reaching definitions and object types, the analysis of a file with
its outline, the template map and positions. Proved: every safety property that the
runs check of these, but for the three named above. What is left, in this order:

1. The outline: `posLess` orders the places of the words, which `InPlace` makes
   different, and `sortBySourcePosition` sorts by it.
2. An exact treatment of `for` and `foreach` in `ReachInv`, and the links of
   `global` and `upvar`.
3. The analysis of `TclFile` as the `Analysis` of Resolver's run, in place of
   units written out.
