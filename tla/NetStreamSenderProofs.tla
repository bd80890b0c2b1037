------------------------ MODULE NetStreamSenderProofs -------------------------
(***************************************************************************)
(* Proofs about the sending side of NetStream and its triple buffer.       *)
(*                                                                         *)
(* NetStreamSender, for any number of connections and with or without      *)
(* exceptions: no thread is started over one that was not joined, none is  *)
(* left behind by the destructor, and a connected flag has a thread that   *)
(* sends.  All of it rests on m_running, which only the host clears, at    *)
(* the start of a disconnect() that ends with the join.                    *)
(*                                                                         *)
(* TripleBuffer, for any set of chunks and any bound on the publications:  *)
(* the three indices stay a permutation of the slots, so a slot changes    *)
(* only while it is the producer's; everything else follows the contents   *)
(* of the middle and of the consumer's slot through the two exchanges.     *)
(***************************************************************************)
EXTENDS NetStreamSender, TripleBuffer, TLAPS

(* The connection                                                          *)

\* disconnect() begins by clearing m_running, and ends after the join.
StoppedByHost ==
  /\ host # "idle" => ~m_running
  /\ host = "reset" => thread = "none"

\* After the destructor nothing runs again.
GoneForGood == gone => ~m_running

\* From connect() to close() the thread has a connected socket: only disconnect()
\* shuts it down, and closes it after the join.
SocketOfThread == thread \in {"linked", "loop", "consume", "send", "close"} => SocketLive

IInv == StoppedByHost /\ GoneForGood /\ NeverJoinable /\ SocketOfThread /\ ConnectedIsLive

LEMMA InitInv == Init => IInv
BY DEF Init, IInv, StoppedByHost, GoneForGood, NeverJoinable,
       SocketOfThread, SocketLive, ConnectedIsLive

\* The steps of the host.
LEMMA HostStep == IInv /\ Host => IInv'
<1> SUFFICES ASSUME IInv, Host PROVE IInv'
  OBVIOUS
<1> USE DEF IInv, StoppedByHost, GoneForGood, NeverJoinable,
            SocketOfThread, SocketLive, ConnectedIsLive, hostVars, flags
<1>1. CASE Toggle
  BY <1>1 DEF Toggle
<1>2. CASE StartConnection
  BY <1>2 DEF StartConnection
<1>3. CASE TearDown
  BY <1>3 DEF TearDown
<1>4. CASE Destroy
  BY <1>4 DEF Destroy
<1>5. CASE ClearFinished
  BY <1>5 DEF ClearFinished
<1>6. CASE Shutdown
  BY <1>6 DEF Shutdown
<1>7. CASE Join
  BY <1>7 DEF Join
<1>8. CASE ResetConnected
  BY <1>8 DEF ResetConnected
<1>9. CASE Data
  BY <1>9 DEF Data
<1> QED
  BY <1>1, <1>2, <1>3, <1>4, <1>5, <1>6, <1>7, <1>8, <1>9 DEF Host, Tick, Disconnect

\* The steps of the thread: it never writes m_running, and as long as it is there
\* the host is not idle with m_running clear.
LEMMA SenderStep == IInv /\ (Sender \/ Peer) => IInv'
<1> SUFFICES ASSUME IInv, Sender \/ Peer PROVE IInv'
  OBVIOUS
<1> USE DEF IInv, StoppedByHost, GoneForGood, NeverJoinable,
            SocketOfThread, SocketLive, ConnectedIsLive, hostVars, flags
<1>1. CASE CreateSocket \/ Connect
  BY <1>1 DEF CreateSocket, Connect
<1>2. CASE Linked
  BY <1>2 DEF Linked
<1>3. CASE Loop
  BY <1>3 DEF Loop
<1>4. CASE Consume
  BY <1>4 DEF Consume
<1>5. CASE SendDone \/ PeerLost \/ SendFailed \/ SendThrows
  BY <1>5 DEF SendDone, PeerLost, SendFailed, SendThrows
<1>6. CASE CloseSocket
  BY <1>6 DEF CloseSocket
<1>7. CASE Unlink
  BY <1>7 DEF Unlink
<1>8. CASE Finish
  BY <1>8 DEF Finish
<1> QED
  BY <1>1, <1>2, <1>3, <1>4, <1>5, <1>6, <1>7, <1>8 DEF Sender, Peer

LEMMA StepInv == IInv /\ [Next]_vars => IInv'
<1>1. IInv /\ UNCHANGED vars => IInv'
  BY DEF IInv, StoppedByHost, GoneForGood, NeverJoinable,
         SocketOfThread, SocketLive, ConnectedIsLive, vars, hostVars, flags
<1> QED
  BY <1>1, HostStep, SenderStep DEF Next

-----------------------------------------------------------------------------
\* start_connection() never assigns to a joinable thread, and the destructor
\* leaves none.
THEOREM StartsJoined == Spec => []NeverJoinable
<1>1. IInv => NeverJoinable
  BY DEF IInv
<1> QED
  BY <1>1, InitInv, StepInv, PTL DEF Spec

\* m_connected is set only while its thread has a connected socket, and in the step
\* of that thread that is about to clear it.
THEOREM ConnectedLives == Spec => []ConnectedIsLive
<1>1. IInv => ConnectedIsLive
  BY DEF IInv
<1> QED
  BY <1>1, InitInv, StepInv, PTL DEF Spec

-----------------------------------------------------------------------------
(* The triple buffer                                                       *)

\* The chunks the producer has already written have the next version.
FilledSoFar ==
  ppc = "fill" =>
    /\ published < MaxPublish
    /\ \A c \in Chunks \ to_write : buffers[write_idx][c] = published + 1

\* The consumer's slot holds one version, an old one if the middle is dirty.
HeldVersion ==
  \E n \in 0..published :
    /\ \A c \in Chunks : buffers[read_idx][c] = n
    /\ mid_state.dirty => n < published
    /\ cpc = "read" => n >= 1

\* The last version, chunk by chunk: LatestKept without function equality.
LatestVersion ==
  /\ mid_state.dirty => \A c \in Chunks : buffers[mid_state.idx][c] = published
  /\ ~mid_state.dirty => \A c \in Chunks : buffers[read_idx][c] = published

\* Only the consumer cleans the middle, so what its load saw is still dirty.
LoadedDirty == cpc = "swap" => mid_state.dirty

CopiedSoFar ==
  cpc = "read" => \A c \in Chunks \ to_read : copy[c] = buffers[read_idx][c]

BufferInv ==
  /\ BufferTypeOK
  /\ ExclusiveSlots
  /\ FilledSoFar
  /\ HeldVersion
  /\ LatestVersion
  /\ LoadedDirty
  /\ CopiedSoFar

-----------------------------------------------------------------------------
\* The constructor establishes the strengthened invariant.
LEMMA BufferInvInit == BufferInit => BufferInv
BY MaxPublishAssumption
   DEF BufferInit, BufferInv, BufferTypeOK, ExclusiveSlots, FilledSoFar, HeldVersion,
       LatestVersion, LoadedDirty, CopiedSoFar, Slot, Version

\* Each action keeps the indices a permutation and every slot in its role.
LEMMA BufferInvKept == BufferInv /\ [BufferNext]_bufferVars => BufferInv'
<1> SUFFICES ASSUME BufferInv, [BufferNext]_bufferVars PROVE BufferInv'
  OBVIOUS
<1> USE MaxPublishAssumption DEF BufferInv, BufferTypeOK, Slot, producer, consumer
<1>1. CASE BeginFill
  BY <1>1 DEF BeginFill, ExclusiveSlots, FilledSoFar, HeldVersion,
              LatestVersion, LoadedDirty, CopiedSoFar
<1>2. ASSUME NEW c \in Chunks, FillChunk(c) PROVE BufferInv'
  <2>1. BufferTypeOK'
    BY <1>2 DEF FillChunk, FilledSoFar
  <2>2. \A s \in Slot \ {write_idx} : buffers'[s] = buffers[s]
    BY <1>2 DEF FillChunk
  <2>3. FilledSoFar'
    BY <1>2 DEF FillChunk, FilledSoFar
  <2>4. HeldVersion' /\ LatestVersion'
    BY <1>2, <2>2 DEF FillChunk, ExclusiveSlots, HeldVersion, LatestVersion
  <2>5. ExclusiveSlots' /\ LoadedDirty' /\ CopiedSoFar'
    BY <1>2, <2>2 DEF FillChunk, ExclusiveSlots, LoadedDirty, CopiedSoFar
  <2> QED BY <2>1, <2>3, <2>4, <2>5
<1>3. CASE Publish
  <2>1. BufferTypeOK' /\ ExclusiveSlots' /\ FilledSoFar'
    BY <1>3 DEF Publish, ExclusiveSlots, FilledSoFar
  <2>2. HeldVersion'
    BY <1>3 DEF Publish, HeldVersion
  <2>3. LatestVersion'
    BY <1>3 DEF Publish, FilledSoFar, LatestVersion
  <2>4. LoadedDirty' /\ CopiedSoFar'
    BY <1>3 DEF Publish, LoadedDirty, CopiedSoFar
  <2> QED BY <2>1, <2>2, <2>3, <2>4
<1>4. CASE ConsumeLoad
  BY <1>4 DEF ConsumeLoad, ExclusiveSlots, FilledSoFar, HeldVersion,
              LatestVersion, LoadedDirty, CopiedSoFar
<1>5. CASE ConsumeSwap
  <2>1. mid_state.dirty
    BY <1>5 DEF ConsumeSwap, LoadedDirty
  <2>2. BufferTypeOK' /\ ExclusiveSlots' /\ FilledSoFar' /\ LoadedDirty' /\ CopiedSoFar'
    BY <1>5 DEF ConsumeSwap, ExclusiveSlots, FilledSoFar, LoadedDirty, CopiedSoFar
  <2>3. published >= 1
    BY <2>1 DEF HeldVersion
  <2>4. HeldVersion' /\ LatestVersion'
    BY <1>5, <2>1, <2>3 DEF ConsumeSwap, HeldVersion, LatestVersion
  <2> QED BY <2>2, <2>4
<1>6. ASSUME NEW c \in Chunks, ReadChunk(c) PROVE BufferInv'
  <2>1. BufferTypeOK' /\ CopiedSoFar'
    BY <1>6 DEF ReadChunk, CopiedSoFar
  <2>2. /\ ExclusiveSlots' /\ FilledSoFar' /\ HeldVersion'
        /\ LatestVersion' /\ LoadedDirty'
    BY <1>6 DEF ReadChunk, ExclusiveSlots, FilledSoFar, HeldVersion,
                LatestVersion, LoadedDirty
  <2> QED BY <2>1, <2>2
<1>7. CASE EndRead
  BY <1>7 DEF EndRead, ExclusiveSlots, FilledSoFar, HeldVersion,
              LatestVersion, LoadedDirty, CopiedSoFar
<1>8. CASE UNCHANGED bufferVars
  BY <1>8 DEF bufferVars, ExclusiveSlots, FilledSoFar, HeldVersion,
              LatestVersion, LoadedDirty, CopiedSoFar
<1> QED
  BY <1>1, <1>2, <1>3, <1>4, <1>5, <1>6, <1>7, <1>8 DEF BufferNext, ProducerStep, ConsumerStep

\* The strengthened invariant holds in every state of every behaviour.
LEMMA BufferAlwaysInv == BufferSpec => []BufferInv
BY BufferInvInit, BufferInvKept, PTL DEF BufferSpec

-----------------------------------------------------------------------------
\* Type correctness of every variable of the triple buffer.
THEOREM TypeCorrect == BufferSpec => []BufferTypeOK
BY BufferAlwaysInv, PTL DEF BufferInv

\* publish() and consume() never leave two roles on one slot.
THEOREM SlotsExclusive == BufferSpec => []ExclusiveSlots
BY BufferAlwaysInv, PTL DEF BufferInv

\* What the consumer reads between two calls of consume() is one version.
THEOREM ReadsWhole == BufferSpec => []WholeRead
<1>1. BufferInv => WholeRead
  BY MaxPublishAssumption DEF BufferInv, BufferTypeOK, WholeRead, HeldVersion, CopiedSoFar
<1> QED BY <1>1, BufferAlwaysInv, PTL

\* The last published value is in the middle slot or with the consumer.
THEOREM NothingLost == BufferSpec => []LatestKept
<1>1. BufferInv => LatestKept
  BY DEF BufferInv, BufferTypeOK, LatestKept, LatestVersion, Version, Slot
<1> QED BY <1>1, BufferAlwaysInv, PTL

\* The contents of the slot the consumer owns change only in ConsumeSwap, and
\* what ConsumeSwap takes is newer: the middle was dirty when it was loaded
\* and only this thread could have cleaned it.
LEMMA StepNewer ==
  ASSUME BufferInv, [BufferNext]_bufferVars, buffers'[read_idx'] # buffers[read_idx]
  PROVE  \A c \in Chunks : buffers'[read_idx'][c] > buffers[read_idx][c]
<1> USE DEF BufferInv, BufferTypeOK, Slot, producer, consumer
<1>1. ASSUME NEW c \in Chunks, FillChunk(c) PROVE FALSE
  BY <1>1 DEF FillChunk, ExclusiveSlots
<1>2. CASE ConsumeSwap
  BY <1>2 DEF ConsumeSwap, LoadedDirty, HeldVersion, LatestVersion
<1>3. CASE BeginFill \/ Publish \/ ConsumeLoad \/ EndRead \/ UNCHANGED bufferVars
  BY <1>3 DEF BeginFill, Publish, ConsumeLoad, EndRead, bufferVars
<1>4. ASSUME NEW c \in Chunks, ReadChunk(c) PROVE FALSE
  BY <1>4 DEF ReadChunk
<1> QED BY <1>1, <1>2, <1>3, <1>4 DEF BufferNext, ProducerStep, ConsumerStep

\* A consumer never goes back to an older value, and a true result of
\* consume() always means a newer one.
THEOREM OnlyNewer == BufferSpec => NewerOnly
<1>1. BufferInv /\ [BufferNext]_bufferVars =>
        [buffers'[read_idx'] # buffers[read_idx] =>
           \A c \in Chunks : buffers'[read_idx'][c] > buffers[read_idx][c]]_bufferVars
  BY StepNewer
<1> QED BY <1>1, BufferAlwaysInv, PTL DEF BufferSpec, NewerOnly

-----------------------------------------------------------------------------
\* Every step of the two threads is a step of the mailbox or leaves it alone.
LEMMA StepMailbox == BufferInv /\ [BufferNext]_bufferVars => [Box!Next]_(Box!vars)
<1> SUFFICES ASSUME BufferInv, [BufferNext]_bufferVars PROVE [Box!Next]_(Box!vars)
  OBVIOUS
<1> USE DEF BufferInv, BufferTypeOK, Slot, producer, consumer, Box!vars
<1>1. ASSUME NEW c \in Chunks, FillChunk(c) PROVE UNCHANGED Box!vars
  BY <1>1 DEF FillChunk, ExclusiveSlots
<1>2. CASE Publish
  <2> DEFINE latest == buffers[IF mid_state.dirty THEN mid_state.idx ELSE read_idx]
  <2>1. buffers'[mid_state'.idx] = [c \in Chunks |-> published + 1]
    BY <1>2 DEF Publish, FilledSoFar
  <2>2. latest = [c \in Chunks |-> published]
    BY DEF LatestVersion
  <2>3. buffers'[mid_state'.idx] = [c \in Chunks |-> latest[c] + 1]
    BY <2>1, <2>2
  <2>4. Box!Post
    BY <1>2, <2>3 DEF Publish, Box!Post
  <2> QED BY <2>4 DEF Box!Next
<1>3. CASE ConsumeSwap
  <2>1. Box!Take
    BY <1>3 DEF ConsumeSwap, LoadedDirty, Box!Take
  <2> QED BY <2>1 DEF Box!Next
<1>4. CASE BeginFill \/ ConsumeLoad \/ EndRead \/ UNCHANGED bufferVars
  BY <1>4 DEF BeginFill, ConsumeLoad, EndRead, bufferVars
<1>5. ASSUME NEW c \in Chunks, ReadChunk(c) PROVE UNCHANGED Box!vars
  BY <1>5 DEF ReadChunk
<1> QED BY <1>1, <1>2, <1>3, <1>4, <1>5 DEF BufferNext, ProducerStep, ConsumerStep

\* The triple buffer implements the mailbox with room for one value.
THEOREM Refinement == BufferSpec => ImplementsMailbox
<1>1. BufferInit => Box!Init
  BY DEF BufferInit, Box!Init, Version, Box!Version, Slot
<1> QED BY <1>1, StepMailbox, BufferAlwaysInv, PTL DEF BufferSpec, ImplementsMailbox, Box!Spec
=============================================================================
