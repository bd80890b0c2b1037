------------------------------- MODULE Mailbox -------------------------------
(***************************************************************************)
(* What a triple buffer promises its two threads: a mailbox with room for  *)
(* one value.  A post overwrites the value nobody took, a take empties the *)
(* box, and every value is handed over whole.  Values are numbered by the  *)
(* order of their posts and made of Chunks, the parts that are written and *)
(* read one at a time by the implementation.                               *)
(***************************************************************************)
EXTENDS Naturals

CONSTANT Chunks     \* the parts of one value

VARIABLES box,      \* the value posted last
          full,     \* it was not taken yet
          held      \* the value taken last

vars == <<box, full, held>>

Version(n) == [c \in Chunks |-> n]

Init == /\ box = Version(0)
        /\ held = Version(0)
        /\ full = FALSE

\* The next version replaces the one in the box, taken or not.
Post == /\ box' = [c \in Chunks |-> box[c] + 1]
        /\ full' = TRUE
        /\ UNCHANGED held

Take == /\ full
        /\ held' = box
        /\ full' = FALSE
        /\ UNCHANGED box

Next == Post \/ Take

Spec == Init /\ [][Next]_vars
=============================================================================
