-------------------------- MODULE WorkspaceTable --------------------------
(* What the index promises: a table of files whose every answer is a       *)
(* function of the contents the files hold NOW, whatever the order in      *)
(* which they were indexed, re-indexed and removed, and whatever was asked *)
(* before.  Index implements it, with Result the answers of FileUnits; its *)
(* ledgers and its memo are invisible from outside.                        *)
CONSTANTS
  Files,         \* workspace paths
  Contents,      \* the texts a file can hold
  NoText,        \* the file is not in the table
  Queries,       \* what can be asked
  Result(_, _)   \* Result(text, q): the answer to q when the files hold text

VARIABLES
  text,    \* text[f]: the content of f, or NoText
  answer   \* the last query with its result
vars == <<text, answer>>

NoAnswer == <<<<"none", "none">>, "none">>

Init == /\ text = [f \in Files |-> NoText]
        /\ answer = NoAnswer

Put(f, c) == /\ text' = [text EXCEPT ![f] = c]
             /\ UNCHANGED answer

Drop(f) == /\ text' = [text EXCEPT ![f] = NoText]
           /\ UNCHANGED answer

Ask(q) == /\ answer' = <<q, Result(text, q)>>
          /\ UNCHANGED text

Next == \/ \E f \in Files, c \in Contents : Put(f, c)
        \/ \E f \in Files : Drop(f)
        \/ \E q \in Queries : Ask(q)

Spec == Init /\ [][Next]_vars
=============================================================================
