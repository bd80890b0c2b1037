------------------------------ MODULE ByteQueue ------------------------------
(***************************************************************************)
(* What the ring buffer promises: a bounded first-in first-out queue of    *)
(* bytes.  The producer appends the next bytes of its stream in batches,   *)
(* the consumer takes a batch from the front or throws everything away.    *)
(***************************************************************************)
EXTENDS Naturals, Sequences

CONSTANT Cap        \* how many bytes the queue holds

VARIABLES queue,    \* the unread bytes, each the position it has in the stream
          next,     \* the position of the next byte to be appended
          taken     \* what the consumer has got, until it asks again

vars == <<queue, next, taken>>

Init == queue = <<>> /\ next = 0 /\ taken = <<>>

Append_(k) ==
  /\ Len(queue) + k <= Cap
  /\ queue' = queue \o [i \in 1..k |-> next + i - 1]
  /\ next' = next + k
  /\ UNCHANGED taken

Take(k) ==
  /\ k <= Len(queue)
  /\ queue' = SubSeq(queue, k + 1, Len(queue))
  /\ taken' = SubSeq(queue, 1, k)
  /\ UNCHANGED next

\* What was there some time ago: the producer may have appended since.
Discard(k) ==
  /\ k <= Len(queue)
  /\ queue' = SubSeq(queue, k + 1, Len(queue))
  /\ UNCHANGED <<next, taken>>

AskAgain ==
  /\ taken' = <<>>
  /\ UNCHANGED <<queue, next>>

Next == \/ \E k \in 1..Cap : Append_(k) \/ Take(k) \/ Discard(k)
        \/ AskAgain

Spec == Init /\ [][Next]_vars
=============================================================================
