-------------------------- MODULE ClapPluginProofs --------------------------
(***************************************************************************)
(* Proofs about ClapPlugin, for any controls, values, setups and channel   *)
(* counts.  The container is never empty after the constructor: without    *)
(* that, growing it would lose the controls, and the events of a block     *)
(* would have nobody to go to.                                             *)
(***************************************************************************)
EXTENDS ClapPlugin, EffectContainerProofs

NeverEmpty == Len(effect) >= 1

IInv ==
  /\ TypeOK
  /\ NeverEmpty
  /\ SameControls
  /\ ValuesKept
  /\ ReadyToProcess

-----------------------------------------------------------------------------
\* The constructor leaves one instance, which has no setup and no value of the host.
LEMMA InitInv == Init => IInv
<1> SUFFICES ASSUME Init PROVE IInv
  OBVIOUS
<1> DEFINE empty == WireFallbacks(InitControls(<<>>))
<1>1. empty = <<>>
  BY DEF WireFallbacks, InitControls
<1>2. effect \in Seq(Instance) /\ Len(effect) = 1
  BY <1>1, InitChannelsType, EmptySeq DEF Init, Larger
<1>3. sent \in Changes
  BY DEF Init, Changes
<1>4. DOMAIN effect = 1..1 /\ DOMAIN sent = {}
  BY <1>2, LenProperties DEF Init
<1>5. active = FALSE /\ setup = 0
  BY DEF Init
<1>6. NeverEmpty /\ ReadyToProcess
  BY <1>2, <1>5 DEF NeverEmpty, ReadyToProcess
<1>7. TypeOK
  BY <1>2, <1>3, <1>5 DEF TypeOK
<1>8. SameControls
  <2>1. \A i, j \in DOMAIN effect : i = j
    BY <1>4
  <2> QED
    BY <2>1 DEF SameControls, Agree
<1>9. ValuesKept
  BY <1>4 DEF ValuesKept
<1> QED
  BY <1>6, <1>7, <1>8, <1>9 DEF IInv

\* start() makes an instance for each channel, with the controls of the first.
LEMMA StepActivate ==
  ASSUME IInv, NEW s \in Setup, Activate(s)
  PROVE  IInv'
<1> DEFINE grown == InitChannels(effect, InChannels, OutChannels)
<1>1. /\ s \in Nat /\ effect \in Seq(Instance) /\ effect # <<>> /\ Agree(effect)
      /\ DOMAIN effect = 1..Len(effect) /\ 1 \in DOMAIN effect
  BY ClapAssumption, EmptySeq, LenProperties DEF IInv, TypeOK, NeverEmpty, SameControls
<1>2. grown \in Seq(Instance) /\ Len(grown) = Larger(InChannels, OutChannels)
  BY <1>1, InitChannelsType, ClapAssumption
<1>3. \A i \in DOMAIN grown : grown[i].inputs = effect[1].inputs
  BY <1>1, InitChannelsKeeps, ClapAssumption
<1>4. Larger(InChannels, OutChannels) >= 1
  BY ClapAssumption DEF Larger
<1> HIDE DEF grown
<1>5. effect' = Prepare(grown, s)
  BY DEF Activate, Started, grown
<1>6. /\ effect' \in Seq(Instance) /\ Len(effect') = Len(grown)
      /\ \A i \in DOMAIN grown : effect'[i].inputs = effect[1].inputs
      /\ AllPrepared(effect', s)
  BY <1>1, <1>2, <1>3, <1>5, PrepareKeeps
<1>7. DOMAIN effect' = DOMAIN grown
  BY <1>2, <1>6, LenProperties
<1>8. TypeOK' /\ NeverEmpty'
  BY <1>2, <1>4, <1>6 DEF IInv, TypeOK, NeverEmpty, Activate
<1>9. SameControls' /\ ValuesKept'
  BY <1>1, <1>6, <1>7 DEF IInv, SameControls, Agree, ValuesKept, Activate
<1>10. ReadyToProcess'
  <2>1. Larger(InChannels, OutChannels) \in Nat
    BY ClapAssumption DEF Larger
  <2> QED
    BY <2>1, <1>2, <1>6 DEF ReadyToProcess, Activate
<1> QED
  BY <1>8, <1>9, <1>10 DEF IInv

\* A value the host sends replaces the last one, in the history and everywhere.
LEMMA StepParams ==
  ASSUME IInv, NEW new \in Changes,
         effect' = Params(new), sent' = Sent(new), UNCHANGED <<active, setup>>
  PROVE  IInv'
<1>1. effect \in Seq(Instance) /\ DOMAIN effect = 1..Len(effect) /\ Agree(effect)
  BY LenProperties DEF IInv, TypeOK, SameControls
<1>2. PICK P \in SUBSET Param : new \in [P -> Value]
  BY DEF Changes
<1>3. PICK Q \in SUBSET Param : sent \in [Q -> Value]
  BY DEF IInv, TypeOK, Changes
<1>4. /\ effect' \in Seq(Instance) /\ Len(effect') = Len(effect)
      /\ \A i \in DOMAIN effect :
           /\ effect'[i].inputs = Changed(effect[i].inputs, new)
           /\ effect'[i].prepared = effect[i].prepared
  <2>1. effect' = SetControls(effect, new)
    BY DEF Params
  <2> QED
    BY <1>1, <1>2, <2>1, SetControlsKeeps
<1>5. DOMAIN effect' = DOMAIN effect
  BY <1>1, <1>4, LenProperties
<1>6. /\ sent' = [p \in Q \cup P |-> IF p \in P THEN new[p] ELSE sent[p]]
      /\ sent' \in [Q \cup P -> Value]
  BY <1>2, <1>3 DEF Sent
<1>7. sent' \in Changes
  BY <1>6 DEF Changes
<1>8. TypeOK' /\ NeverEmpty'
  BY <1>4, <1>7 DEF IInv, TypeOK, NeverEmpty
<1>9. SameControls'
  BY <1>1, <1>4, <1>5 DEF SameControls, Agree
<1>10. ValuesKept'
  <2> SUFFICES ASSUME NEW i \in DOMAIN effect, NEW p \in Q \cup P
               PROVE  effect'[i].inputs[p] = sent'[p]
    BY <1>5, <1>6 DEF ValuesKept
  <2>1. p \in Param
    OBVIOUS
  <2>2. effect[i].inputs \in Inputs
    BY <1>1, InstanceInputs
  <2>3. effect'[i].inputs = Changed(effect[i].inputs, new)
    BY <1>4
  <2>4. CASE p \in P
    <3>1. Changed(effect[i].inputs, new)[p] = new[p]
      BY <2>2, <2>4, <1>2, ChangedControls
    <3>2. sent'[p] = new[p]
      BY <2>4, <1>6
    <3> QED
      BY <2>3, <3>1, <3>2
  <2>5. CASE p \notin P
    <3>1. effect[i].inputs[p] = sent[p]
      BY <2>5, <1>3 DEF IInv, ValuesKept
    <3>2. Changed(effect[i].inputs, new)[p] = effect[i].inputs[p]
      BY <2>1, <2>2, <2>5, <1>2, ChangedControls
    <3>3. sent'[p] = sent[p]
      BY <2>5, <1>6
    <3> QED
      BY <2>3, <3>1, <3>2, <3>3
  <2> QED
    BY <2>4, <2>5
<1>11. ReadyToProcess'
  BY <1>4, <1>5 DEF IInv, ReadyToProcess, AllPrepared
<1> QED
  BY <1>8, <1>9, <1>10, <1>11 DEF IInv

\* No call of the host breaks the invariant.
LEMMA StepInv == IInv /\ [Next]_vars => IInv'
<1> SUFFICES ASSUME IInv, [Next]_vars PROVE IInv'
  OBVIOUS
<1>1. ASSUME NEW s \in Setup, Activate(s) PROVE IInv'
  BY <1>1, StepActivate
<1>2. CASE Deactivate
  BY <1>2 DEF Deactivate, IInv, TypeOK, NeverEmpty, SameControls, ValuesKept, ReadyToProcess
<1>3. ASSUME NEW new \in Changes, Flush(new) PROVE IInv'
  BY <1>3, StepParams DEF Flush
<1>4. ASSUME NEW new \in Changes, Process(new) PROVE IInv'
  BY <1>4, StepParams DEF Process
<1>5. CASE UNCHANGED vars
  BY <1>5 DEF vars, IInv, TypeOK, NeverEmpty, SameControls, ValuesKept, ReadyToProcess
<1> QED
  BY <1>1, <1>2, <1>3, <1>4, <1>5 DEF Next

\* The invariant holds in every state of the plug-in.
LEMMA AlwaysInv == Spec => []IInv
BY InitInv, StepInv, PTL DEF Spec

-----------------------------------------------------------------------------
\* The type invariant: the instances stay well formed whatever the host does.
THEOREM TypeCorrect == Spec => []TypeOK
<1>1. IInv => TypeOK
  BY DEF IInv
<1> QED
  BY <1>1, AlwaysInv, PTL

\* Every channel runs with the same controls: process_param() reaches all the
\* instances and the ones init_channels() adds copy the first.
THEOREM ControlsSame == Spec => []SameControls
<1>1. IInv => SameControls
  BY DEF IInv
<1> QED
  BY <1>1, AlwaysInv, PTL

\* The last value the host sent survives flushes, blocks and activations.
THEOREM KeepsValues == Spec => []ValuesKept
<1>1. IInv => ValuesKept
  BY DEF IInv
<1> QED
  BY <1>1, AlwaysInv, PTL

\* An active plug-in has a prepared instance for every channel.
THEOREM ProcessesReady == Spec => []ReadyToProcess
<1>1. IInv => ReadyToProcess
  BY DEF IInv
<1> QED
  BY <1>1, AlwaysInv, PTL
=============================================================================
