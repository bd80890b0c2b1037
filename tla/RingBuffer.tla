----------------------------- MODULE RingBuffer -----------------------------
(***************************************************************************)
(* The single-producer single-consumer ring buffer of the WASM binding:    *)
(* wasm::ring_buffer in C++ and RingBuffer in avnd-ringbuf.js, two views   *)
(* of the same shared region.  The two indices run freely modulo 2^32 and  *)
(* are masked by the capacity.  Each atomic access and each byte copied is *)
(* a step of its own, so the other side may run anywhere in between.       *)
(*                                                                         *)
(* A byte is the position it has in the producer's stream.                 *)
(***************************************************************************)
EXTENDS Naturals, Sequences

CONSTANTS Cap,       \* capacity of the data area, a power of two
          Wrap,      \* the indices count modulo Wrap, 2^32 in the code
          Unit,      \* bytes of a float, 4 in the code
          MaxBytes   \* bound: length of the producer's stream

ASSUME CapAssumption == Cap \in Nat \ {0} /\ Wrap \in Nat /\ Wrap % Cap = 0 /\ Cap < Wrap
ASSUME UnitAssumption == Unit \in Nat \ {0} /\ Wrap % Unit = 0 /\ MaxBytes \in Nat

VARIABLES
  framed,                    \* the two sides use pushFloats and popFloats, not push and pop
  read_index, write_index,   \* the two words of the header
  data,                      \* the capacity bytes behind it
  push,                      \* the call the producer is in
  pop,                       \* the call the consumer is in
  sent,                      \* history: bytes of the stream committed by the producer
  got                        \* what the last pop returned, until the next call

ringVars == <<framed, read_index, write_index, data, push, pop, sent, got>>

\* Where a call is, the length it was asked for, the bytes it settled on
\* and how many of them it has copied.
Idle == [at |-> "idle", len |-> 0, n |-> 0, done |-> 0]
Copying(len, n) == [at |-> "copy", len |-> len, n |-> n, done |-> 0]

Offset(index) == index % Cap
Filled(wr, rd) == (wr + Wrap - rd) % Wrap
Lesser(a, b) == IF a < b THEN a ELSE b
WholeFloatsOf(bytes) == (bytes \div Unit) * Unit

\* Either the calls for bytes are used on a ring, or the ones for floats.
RingInit ==
  /\ framed \in BOOLEAN
  /\ read_index = 0
  /\ write_index = 0
  /\ data = [o \in 0..Cap - 1 |-> 0]
  /\ push = Idle
  /\ pop = Idle
  /\ sent = 0
  /\ got = <<>>

-----------------------------------------------------------------------------
(* The producer                                                            *)

\* A mutant of push(): it uses one byte more than there is.
LoadOffByOne(len) ==
  LET free == Cap + 1 - Filled(write_index, read_index)
      n    == Lesser(len, free)
  IN /\ push' = IF n = 0 THEN Idle ELSE Copying(len, n)
     /\ UNCHANGED <<framed, read_index, write_index, data, pop, sent, got>>

\* push() loads both indices and settles on what fits; write_index is its own.
PushLoad(len) ==
  LET free == Cap - Filled(write_index, read_index)
      n    == Lesser(len, free)
  IN /\ push' = IF n = 0 THEN Idle ELSE Copying(len, n)
     /\ UNCHANGED <<framed, read_index, write_index, data, pop, sent, got>>

Push(len) ==
  /\ push.at = "idle"
  /\ ~framed
  /\ sent + len <= MaxBytes
  /\ PushLoad(len)

\* pushFloats(): an availableWrite() that is too small returns 0 ...
PushFloats(len) ==
  /\ push.at = "idle"
  /\ framed
  /\ len % Unit = 0
  /\ sent + len <= MaxBytes
  /\ Cap - Filled(write_index, read_index) >= len
  /\ push' = [Idle EXCEPT !.at = "checked", !.len = len]
  /\ UNCHANGED <<framed, read_index, write_index, data, pop, sent, got>>

\* ... and otherwise push() loads the indices again.
PushChecked ==
  /\ push.at = "checked"
  /\ PushLoad(push.len)

\* One byte of the two memcpy: up to the end of the area, then from its start.
PushByte ==
  /\ push.at = "copy"
  /\ push.done < push.n
  /\ data' = [data EXCEPT ![Offset(write_index + push.done)] = sent + push.done]
  /\ push' = [push EXCEPT !.done = @ + 1]
  /\ UNCHANGED <<framed, read_index, write_index, pop, sent, got>>

PushCommit ==
  /\ push.at = "copy"
  /\ push.done = push.n
  /\ write_index' = (write_index + push.n) % Wrap
  /\ sent' = sent + push.n
  /\ push' = Idle
  /\ UNCHANGED <<framed, read_index, data, pop, got>>

-----------------------------------------------------------------------------
(* The consumer                                                            *)

PopLoad(len) ==
  LET n == Lesser(len, Filled(write_index, read_index))
  IN /\ pop' = IF n = 0 THEN Idle ELSE Copying(len, n)
     /\ got' = <<>>
     /\ UNCHANGED <<framed, read_index, write_index, data, push, sent>>

Pop(len) ==
  /\ pop.at = "idle"
  /\ ~framed
  /\ PopLoad(len)

\* A mutant of popFloats(): it asks pop() for floats, which counts bytes.
PopCountsFloats(len) ==
  LET n == Lesser(len, WholeFloatsOf(Filled(write_index, read_index))) \div Unit
  IN /\ pop.at = "idle"
     /\ framed
     /\ len % Unit = 0
     /\ n > 0
     /\ pop' = [Idle EXCEPT !.at = "checked", !.len = n]
     /\ UNCHANGED <<framed, read_index, write_index, data, push, sent, got>>

\* popFloats() rounds availableRead() down to whole floats before it pops.
PopFloats(len) ==
  LET n == Lesser(len, WholeFloatsOf(Filled(write_index, read_index)))
  IN /\ pop.at = "idle"
     /\ framed
     /\ len % Unit = 0
     /\ n > 0
     /\ pop' = [Idle EXCEPT !.at = "checked", !.len = n]
     /\ UNCHANGED <<framed, read_index, write_index, data, push, sent, got>>

PopChecked ==
  /\ pop.at = "checked"
  /\ PopLoad(pop.len)

PopByte ==
  /\ pop.at = "copy"
  /\ pop.done < pop.n
  /\ got' = Append(got, data[Offset(read_index + pop.done)])
  /\ pop' = [pop EXCEPT !.done = @ + 1]
  /\ UNCHANGED <<framed, read_index, write_index, data, push, sent>>

PopCommit ==
  /\ pop.at = "copy"
  /\ pop.done = pop.n
  /\ read_index' = (read_index + pop.n) % Wrap
  /\ pop' = Idle
  /\ UNCHANGED <<framed, write_index, data, push, sent, got>>

\* clear(): load the write index, then store it as the read index.
ClearLoad ==
  /\ pop.at = "idle"
  /\ pop' = [Idle EXCEPT !.at = "clear", !.n = write_index]
  /\ got' = <<>>
  /\ UNCHANGED <<framed, read_index, write_index, data, push, sent>>

ClearStore ==
  /\ pop.at = "clear"
  /\ read_index' = pop.n
  /\ pop' = Idle
  /\ UNCHANGED <<framed, write_index, data, push, sent, got>>

-----------------------------------------------------------------------------
Produce == \/ \E len \in 1..Cap + 1 : Push(len) \/ PushFloats(len)
           \/ PushChecked \/ PushByte \/ PushCommit
Consume == \/ \E len \in 1..Cap + 1 : Pop(len) \/ PopFloats(len)
           \/ PopChecked \/ PopByte \/ PopCommit \/ ClearLoad \/ ClearStore

RingNext == Produce \/ Consume

RingSpec == RingInit /\ [][RingNext]_ringVars

-----------------------------------------------------------------------------
(* Properties                                                              *)

RingTypeOK ==
  /\ framed \in BOOLEAN
  /\ read_index \in 0..Wrap - 1
  /\ write_index \in 0..Wrap - 1
  /\ data \in [0..Cap - 1 -> 0..MaxBytes]
  /\ push.at \in {"idle", "checked", "copy"}
  /\ pop.at \in {"idle", "checked", "copy", "clear"}
  /\ push.done <= push.n /\ (pop.at = "copy" => pop.done <= pop.n)
  /\ sent \in 0..MaxBytes
  /\ got \in Seq(0..MaxBytes)

\* With float calls only, the consumer never stops inside a float.
WholeFloats == framed => read_index % Unit = 0 /\ write_index % Unit = 0

\* The ring is a bounded queue: a push takes effect when it stores the write
\* index, a pop or a clear when it stores the read index.  A push that is under
\* way never touches an unread byte, also across the wrap of the indices, and a
\* pop returns the bytes it removes, in their order.
Queue == INSTANCE ByteQueue WITH
  queue <- [i \in 1..Filled(write_index, read_index) |-> data[Offset(read_index + i - 1)]],
  next  <- sent,
  taken <- IF pop.at = "idle" THEN got ELSE <<>>
ImplementsQueue == Queue!Spec
=============================================================================
