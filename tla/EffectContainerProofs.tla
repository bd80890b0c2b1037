------------------------ MODULE EffectContainerProofs ------------------------
(***************************************************************************)
(* What the operations of the container keep, for any controls, values and *)
(* channel counts.  The lemmas are stated once here for the plug-in        *)
(* formats that are built on the container.                                *)
(***************************************************************************)
EXTENDS EffectContainer, SequenceTheorems, TLAPS

\* An instance of a default-constructed T is one.
LEMMA NewInstanceType == NewInstance \in Instance
BY ContainerAssumption DEF NewInstance, Instance, Inputs

\* std::max()
LEMMA LargerType ==
  ASSUME NEW m \in Nat, NEW n \in Nat
  PROVE  Larger(m, n) \in Nat /\ Larger(m, n) >= m /\ Larger(m, n) >= n
BY DEF Larger

\* A function on 1..n is a sequence of length n.
LEMMA FunctionIsSeq ==
  ASSUME NEW S, NEW n \in Nat, NEW f \in [1..n -> S]
  PROVE  f \in Seq(S) /\ Len(f) = n
<1>1. f \in Seq(S)
  BY SeqDef
<1>2. Len(f) \in Nat /\ 1..Len(f) = 1..n
  BY <1>1, LenProperties
<1> QED
  BY <1>1, <1>2

\* Each instance of a container has one value per control.
LEMMA InstanceInputs ==
  ASSUME NEW effect \in Seq(Instance), NEW i \in DOMAIN effect
  PROVE  effect[i] \in Instance /\ effect[i].inputs \in Inputs
<1>1. effect[i] \in Instance
  BY LenProperties, ElementOfSeq
<1> QED
  BY <1>1 DEF Instance

\* init_channels() makes exactly one instance per channel.
LEMMA InitChannelsType ==
  ASSUME NEW effect \in Seq(Instance), NEW in \in Nat, NEW out \in Nat
  PROVE  /\ InitChannels(effect, in, out) \in Seq(Instance)
         /\ Len(InitChannels(effect, in, out)) = Larger(in, out)
<1> DEFINE copy == IF effect = <<>> THEN NewInstance
                   ELSE [NewInstance EXCEPT !.inputs = effect[1].inputs]
           size == Larger(in, out)
           grown == [i \in 1..size |-> IF i <= Len(effect) THEN effect[i] ELSE copy]
<1>1. size \in Nat
  BY LargerType
<1>2. copy \in Instance
  <2>1. CASE effect = <<>>
    BY <2>1, NewInstanceType
  <2>2. CASE effect # <<>>
    <3>1. effect[1] \in Instance
      BY <2>2, EmptySeq, ElementOfSeq, LenProperties
    <3> QED
      BY <2>2, <3>1, NewInstanceType DEF Instance
  <2> QED
    BY <2>1, <2>2
<1>3. \A i \in 1..size : grown[i] \in Instance
  BY <1>1, <1>2, ElementOfSeq, LenProperties
<1>4. grown \in [1..size -> Instance]
  BY <1>3
<1> HIDE DEF grown
<1>5. grown \in Seq(Instance) /\ Len(grown) = size
  BY <1>1, <1>4, FunctionIsSeq
<1> QED
  BY <1>5 DEF InitChannels, grown

\* The new instances run with the controls of the first one, which keeps them.
LEMMA InitChannelsKeeps ==
  ASSUME NEW effect \in Seq(Instance), effect # <<>>, Agree(effect),
         NEW in \in Nat, NEW out \in Nat
  PROVE  \A i \in DOMAIN InitChannels(effect, in, out) :
            InitChannels(effect, in, out)[i].inputs = effect[1].inputs
<1>1. Larger(in, out) \in Nat
  BY LargerType
<1>2. 1 \in DOMAIN effect /\ Len(effect) \in Nat /\ DOMAIN effect = 1..Len(effect)
  BY EmptySeq, LenProperties
<1>3. NewInstance \in Instance
  BY NewInstanceType
<1> QED
  BY <1>1, <1>2, <1>3 DEF InitChannels, Agree, Instance

\* prepare() reaches every instance and leaves the controls alone.
LEMMA PrepareKeeps ==
  ASSUME NEW effect \in Seq(Instance), NEW setup \in Nat
  PROVE  /\ Prepare(effect, setup) \in Seq(Instance)
         /\ Len(Prepare(effect, setup)) = Len(effect)
         /\ \A i \in DOMAIN effect : Prepare(effect, setup)[i].inputs = effect[i].inputs
         /\ AllPrepared(Prepare(effect, setup), setup)
<1>1. DOMAIN effect = 1..Len(effect) /\ Len(effect) \in Nat
  BY LenProperties
<1>2. \A i \in DOMAIN effect : effect[i] \in Instance
  BY <1>1, ElementOfSeq
<1>3. \A i \in DOMAIN effect : Prepare(effect, setup)[i] \in Instance
  BY <1>2 DEF Prepare, Instance
<1>4. Prepare(effect, setup) \in Seq(Instance) /\ Len(Prepare(effect, setup)) = Len(effect)
  BY <1>1, <1>3, FunctionIsSeq DEF Prepare
<1> QED
  BY <1>2, <1>4 DEF Prepare, Instance, AllPrepared

\* A changed control has its new value, the others keep theirs.
LEMMA ChangedControls ==
  ASSUME NEW inputs \in Inputs, NEW P \in SUBSET Param, NEW new \in [P -> Value]
  PROVE  /\ Changed(inputs, new) \in Inputs
         /\ \A p \in P : Changed(inputs, new)[p] = new[p]
         /\ \A p \in Param \ P : Changed(inputs, new)[p] = inputs[p]
BY DEF Changed, Inputs

\* New values reach every instance, and change nothing else.
LEMMA SetControlsKeeps ==
  ASSUME NEW effect \in Seq(Instance), NEW P \in SUBSET Param, NEW new \in [P -> Value]
  PROVE  /\ SetControls(effect, new) \in Seq(Instance)
         /\ Len(SetControls(effect, new)) = Len(effect)
         /\ \A i \in DOMAIN effect :
              /\ SetControls(effect, new)[i].inputs = Changed(effect[i].inputs, new)
              /\ SetControls(effect, new)[i].prepared = effect[i].prepared
<1>1. DOMAIN effect = 1..Len(effect) /\ Len(effect) \in Nat
  BY LenProperties
<1>2. \A i \in DOMAIN effect : effect[i] \in Instance
  BY <1>1, ElementOfSeq
<1>3. \A i \in DOMAIN effect : Changed(effect[i].inputs, new) \in Inputs
  BY <1>2, ChangedControls DEF Instance
<1>4. \A i \in DOMAIN effect : SetControls(effect, new)[i] \in Instance
  BY <1>2, <1>3 DEF SetControls, Instance
<1>5. SetControls(effect, new) \in Seq(Instance) /\ Len(SetControls(effect, new)) = Len(effect)
  BY <1>1, <1>4, FunctionIsSeq DEF SetControls
<1> QED
  BY <1>2, <1>5 DEF SetControls, Instance

\* Whatever the instances are, each is one that was there or a copy of its
\* controls, and the first stays.
LEMMA InitChannelsCopies ==
  ASSUME NEW effect \in Seq(Instance), effect # <<>>, NEW in \in Nat, NEW out \in Nat
  PROVE  \A i \in DOMAIN InitChannels(effect, in, out) :
           /\ \E j \in DOMAIN effect : InitChannels(effect, in, out)[i].inputs = effect[j].inputs
           /\ i = 1 => InitChannels(effect, in, out)[i].inputs = effect[1].inputs
<1>1. Larger(in, out) \in Nat
  BY LargerType
<1>2. 1 \in DOMAIN effect /\ Len(effect) \in Nat /\ DOMAIN effect = 1..Len(effect)
  BY EmptySeq, LenProperties
<1>3. NewInstance \in Instance
  BY NewInstanceType
<1>4. SUFFICES ASSUME NEW i \in 1..Larger(in, out)
               PROVE  /\ \E j \in DOMAIN effect :
                           InitChannels(effect, in, out)[i].inputs = effect[j].inputs
                      /\ i = 1 => InitChannels(effect, in, out)[i].inputs = effect[1].inputs
  BY DEF InitChannels
<1>5. CASE i \in DOMAIN effect
  BY <1>2, <1>5 DEF InitChannels
<1>6. CASE i \notin DOMAIN effect
  <2>1. InitChannels(effect, in, out)[i].inputs = effect[1].inputs
    BY <1>2, <1>3, <1>6 DEF InitChannels, Instance
  <2> QED
    BY <1>2, <2>1
<1> QED
  BY <1>5, <1>6

\* init_controls() gives every instance the init of each control's range.
LEMMA InitControlsKeeps ==
  ASSUME NEW effect \in Seq(Instance)
  PROVE  /\ InitControls(effect) \in Seq(Instance)
         /\ Len(InitControls(effect)) = Len(effect)
         /\ \A i \in DOMAIN effect :
              InitControls(effect)[i].inputs = [p \in Param |-> RangeInit]
<1>1. DOMAIN effect = 1..Len(effect) /\ Len(effect) \in Nat
  BY LenProperties
<1>2. \A i \in DOMAIN effect : effect[i] \in Instance
  BY <1>1, ElementOfSeq
<1>3. [p \in Param |-> RangeInit] \in Inputs
  BY ContainerAssumption DEF Inputs
<1>4. \A i \in DOMAIN effect : InitControls(effect)[i] \in Instance
  BY <1>2, <1>3 DEF InitControls, Instance
<1>5. InitControls(effect) \in Seq(Instance) /\ Len(InitControls(effect)) = Len(effect)
  BY <1>1, <1>4, FunctionIsSeq DEF InitControls
<1> QED
  BY <1>2, <1>5 DEF InitControls, Instance

\* wire_fallback_callbacks() leaves the controls alone.
LEMMA WireFallbacksKeeps ==
  ASSUME NEW effect \in Seq(Instance)
  PROVE  /\ WireFallbacks(effect) \in Seq(Instance)
         /\ Len(WireFallbacks(effect)) = Len(effect)
         /\ \A i \in DOMAIN effect : WireFallbacks(effect)[i].inputs = effect[i].inputs
<1>1. DOMAIN effect = 1..Len(effect) /\ Len(effect) \in Nat
  BY LenProperties
<1>2. \A i \in DOMAIN effect : effect[i] \in Instance
  BY <1>1, ElementOfSeq
<1>3. \A i \in DOMAIN effect : WireFallbacks(effect)[i] \in Instance
  BY <1>2 DEF WireFallbacks, Instance
<1>4. WireFallbacks(effect) \in Seq(Instance) /\ Len(WireFallbacks(effect)) = Len(effect)
  BY <1>1, <1>3, FunctionIsSeq DEF WireFallbacks
<1> QED
  BY <1>2, <1>4 DEF WireFallbacks, Instance

\* New values of the instance that stands for the others.
LEMMA SetFirstKeeps ==
  ASSUME NEW effect \in Seq(Instance), effect # <<>>,
         NEW P \in SUBSET Param, NEW new \in [P -> Value]
  PROVE  /\ SetFirst(effect, new) \in Seq(Instance)
         /\ Len(SetFirst(effect, new)) = Len(effect)
         /\ SetFirst(effect, new)[1].inputs = Changed(effect[1].inputs, new)
         /\ \A i \in DOMAIN effect : SetFirst(effect, new)[i].prepared = effect[i].prepared
<1>1. DOMAIN effect = 1..Len(effect) /\ Len(effect) \in Nat /\ 1 \in DOMAIN effect
  BY EmptySeq, LenProperties
<1>2. \A i \in DOMAIN effect : effect[i] \in Instance
  BY <1>1, ElementOfSeq
<1>3. /\ SetControls(effect, new) \in Seq(Instance)
      /\ Len(SetControls(effect, new)) = Len(effect)
      /\ SetControls(effect, new)[1].inputs = Changed(effect[1].inputs, new)
      /\ SetControls(effect, new)[1].prepared = effect[1].prepared
  BY <1>1, SetControlsKeeps
<1>4. SetControls(effect, new)[1] \in Instance
  BY <1>1, <1>3, ElementOfSeq
<1>5. \A i \in DOMAIN effect : SetFirst(effect, new)[i] \in Instance
  BY <1>2, <1>4 DEF SetFirst
<1>6. SetFirst(effect, new) \in Seq(Instance) /\ Len(SetFirst(effect, new)) = Len(effect)
  BY <1>1, <1>5, FunctionIsSeq DEF SetFirst
<1> QED
  BY <1>1, <1>3, <1>6 DEF SetFirst
=============================================================================
