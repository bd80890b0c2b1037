---------------------------- MODULE TripleBuffer ----------------------------
(***************************************************************************)
(* The wait-free triple buffer of examples/Advanced/NetStream: one         *)
(* producer thread, one consumer thread, three slots, and a single atomic  *)
(* byte that says which slot is in the middle and whether it is unread.    *)
(*                                                                         *)
(* An atomic access is one step.  write_idx_ and read_idx_ belong to one   *)
(* thread each, so assigning them is part of the exchange before it.       *)
(* Filling and reading a slot take one step per chunk of the container: a  *)
(* slot both threads touch would show up as a value with mixed versions.   *)
(***************************************************************************)
EXTENDS Naturals

CONSTANTS Chunks,      \* the parts a container is written and read in
          MaxPublish   \* bound: how many values the producer publishes

ASSUME ChunksAssumption == Chunks # {}
ASSUME MaxPublishAssumption == MaxPublish \in Nat

Slot == 0..2

VARIABLES
  buffers,     \* buffers_: the version of each chunk of each slot
  mid_state,   \* mid_state_: the middle slot and its DIRTY_BIT
  write_idx,   \* write_idx_, the producer's slot
  read_idx,    \* read_idx_, the consumer's slot
  ppc,         \* where the producer is: between values or filling its slot
  to_write,    \* the chunks it has still to write
  cpc,         \* where the consumer is: polling, about to swap, or reading
  to_read,     \* the chunks it has still to read
  copy,        \* what it read
  published    \* history: how many values were published

producer == <<write_idx, ppc, to_write, published>>
consumer == <<read_idx, cpc, to_read, copy>>
bufferVars == <<buffers, mid_state, producer, consumer>>

Version(n) == [c \in Chunks |-> n]

BufferInit ==
  /\ buffers = [s \in Slot |-> Version(0)]
  /\ mid_state = [idx |-> 1, dirty |-> FALSE]
  /\ write_idx = 0
  /\ read_idx = 2
  /\ ppc = "idle"
  /\ to_write = {}
  /\ cpc = "idle"
  /\ to_read = {}
  /\ copy = Version(0)
  /\ published = 0

-----------------------------------------------------------------------------
(* The producer: write_buffer() or the assign of produce(), then publish() *)

BeginFill ==
  /\ ppc = "idle"
  /\ published < MaxPublish
  /\ ppc' = "fill"
  /\ to_write' = Chunks
  /\ UNCHANGED <<buffers, mid_state, write_idx, published, consumer>>

FillChunk(c) ==
  /\ ppc = "fill"
  /\ c \in to_write
  /\ buffers' = [buffers EXCEPT ![write_idx][c] = published + 1]
  /\ to_write' = to_write \ {c}
  /\ UNCHANGED <<mid_state, write_idx, ppc, published, consumer>>

\* Mutants of publish(): the slot it gets back is not taken over; it runs
\* before the container is complete; it forgets the DIRTY_BIT.
PublishKeepsSlot ==
  /\ ppc = "fill"
  /\ to_write = {}
  /\ mid_state' = [idx |-> write_idx, dirty |-> TRUE]
  /\ ppc' = "idle"
  /\ published' = published + 1
  /\ UNCHANGED <<write_idx, buffers, to_write, consumer>>
PublishEarly ==
  /\ ppc = "fill"
  /\ mid_state' = [idx |-> write_idx, dirty |-> TRUE]
  /\ write_idx' = mid_state.idx
  /\ ppc' = "idle"
  /\ to_write' = {}
  /\ published' = published + 1
  /\ UNCHANGED <<buffers, consumer>>
PublishClean ==
  /\ ppc = "fill"
  /\ to_write = {}
  /\ mid_state' = [idx |-> write_idx, dirty |-> FALSE]
  /\ write_idx' = mid_state.idx
  /\ ppc' = "idle"
  /\ published' = published + 1
  /\ UNCHANGED <<buffers, to_write, consumer>>

\* publish(): one exchange hands the slot over and yields the next one,
\* whether the consumer had taken what was in the middle or not.
Publish ==
  /\ ppc = "fill"
  /\ to_write = {}
  /\ mid_state' = [idx |-> write_idx, dirty |-> TRUE]
  /\ write_idx' = mid_state.idx
  /\ ppc' = "idle"
  /\ published' = published + 1
  /\ UNCHANGED <<buffers, to_write, consumer>>

-----------------------------------------------------------------------------
(* The consumer: consume(), then read_span() or read_buffer()              *)

\* Mutants of consume(): the load does not test the DIRTY_BIT; the exchange
\* leaves it set; the index is not masked.
ConsumeUntested ==
  /\ cpc = "idle"
  /\ cpc' = "swap"
  /\ UNCHANGED <<buffers, mid_state, read_idx, to_read, copy, producer>>

\* consume() loads mid_state_; when it is clean the call returns false and
\* changes nothing (a stuttering step).
ConsumeLoad ==
  /\ cpc = "idle"
  /\ mid_state.dirty
  /\ cpc' = "swap"
  /\ UNCHANGED <<buffers, mid_state, read_idx, to_read, copy, producer>>

SwapLeavesDirty ==
  /\ cpc = "swap"
  /\ mid_state' = [idx |-> read_idx, dirty |-> TRUE]
  /\ read_idx' = mid_state.idx
  /\ cpc' = "read"
  /\ to_read' = Chunks
  /\ UNCHANGED <<buffers, copy, producer>>

\* The exchange: between the load and here the producer may have published
\* again, and the newer slot is the one taken.
ConsumeSwap ==
  /\ cpc = "swap"
  /\ mid_state' = [idx |-> read_idx, dirty |-> FALSE]
  /\ read_idx' = mid_state.idx
  /\ cpc' = "read"
  /\ to_read' = Chunks
  /\ UNCHANGED <<buffers, copy, producer>>

ReadChunk(c) ==
  /\ cpc = "read"
  /\ c \in to_read
  /\ copy' = [copy EXCEPT ![c] = buffers[read_idx][c]]
  /\ to_read' = to_read \ {c}
  /\ UNCHANGED <<buffers, mid_state, read_idx, cpc, producer>>

EndRead ==
  /\ cpc = "read"
  /\ to_read = {}
  /\ cpc' = "idle"
  /\ UNCHANGED <<buffers, mid_state, read_idx, to_read, copy, producer>>

-----------------------------------------------------------------------------
ProducerStep == BeginFill \/ (\E c \in Chunks : FillChunk(c)) \/ Publish
ConsumerStep == ConsumeLoad \/ ConsumeSwap \/ (\E c \in Chunks : ReadChunk(c)) \/ EndRead

BufferNext == ProducerStep \/ ConsumerStep

\* The consumer thread polls in a loop and none of its steps can block; the
\* producer is driven by the host and promises nothing.
BufferSpec == BufferInit /\ [][BufferNext]_bufferVars
BufferFairSpec == BufferSpec /\ WF_bufferVars(ConsumerStep)

-----------------------------------------------------------------------------
(* Properties                                                              *)

BufferTypeOK ==
  /\ buffers \in [Slot -> [Chunks -> 0..MaxPublish]]
  /\ mid_state \in [idx : Slot, dirty : BOOLEAN]
  /\ write_idx \in Slot
  /\ read_idx \in Slot
  /\ ppc \in {"idle", "fill"}
  /\ to_write \in SUBSET Chunks
  /\ cpc \in {"idle", "swap", "read"}
  /\ to_read \in SUBSET Chunks
  /\ copy \in [Chunks -> 0..MaxPublish]
  /\ published \in 0..MaxPublish

\* The three roles never share a slot, however the exchanges of publish()
\* and consume() interleave.
ExclusiveSlots ==
  /\ write_idx # read_idx
  /\ write_idx # mid_state.idx
  /\ read_idx # mid_state.idx

\* What the consumer has read so far of read_span() is one version: the
\* producer never writes into a span that is being read.
WholeRead ==
  cpc = "read" =>
    \E n \in 1..MaxPublish : \A c \in Chunks \ to_read : copy[c] = n

\* The last published value is never lost: it waits in the middle slot while
\* the DIRTY_BIT is set, and is the consumer's once the bit is clear.
LatestKept ==
  buffers[IF mid_state.dirty THEN mid_state.idx ELSE read_idx] = Version(published)

\* consume() returning true always brings a value newer than the one held,
\* and the value held changes in no other way.
NewerOnly ==
  [][buffers'[read_idx'] # buffers[read_idx] =>
       \A c \in Chunks : buffers'[read_idx'][c] > buffers[read_idx][c]]_bufferVars

\* Every step is one of a mailbox with room for one value: the exchange of
\* publish() posts, the exchange of consume() takes.
Box == INSTANCE Mailbox WITH
         box  <- buffers[IF mid_state.dirty THEN mid_state.idx ELSE read_idx],
         full <- mid_state.dirty,
         held <- buffers[read_idx]
ImplementsMailbox == Box!Spec

\* A published value, or a newer one, reaches the polling consumer.
Delivered ==
  \A n \in 1..MaxPublish :
    published = n ~> to_read = {} /\ \A c \in Chunks : copy[c] >= n
=============================================================================
