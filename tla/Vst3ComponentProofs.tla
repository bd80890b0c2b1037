-------------------------- MODULE Vst3ComponentProofs --------------------------
(***************************************************************************)
(* Proofs about Vst3Component, for any controls, ranges, values, setups    *)
(* and arrangements in which every bus has a channel, with and without     *)
(* busses.                                                                 *)
(* The channels of a state that was loaded may differ from the first, so   *)
(* the argument is about the first instance: whatever the container grows  *)
(* or shrinks to, it stays, and the others are copies of instances that    *)
(* were there.  For the controller it is about what is on its way: the     *)
(* edits of the next block, and the state it is to read.                   *)
(***************************************************************************)
EXTENDS Vst3Component, EffectContainerProofs

\* An arrangement always leaves an instance to hold the controls.
NeverEmpty == Len(effect) >= 1

\* The counts a processor without busses keeps are those of the arrangement.
CountsAsked == ~BusPorts => asked = <<ins, outs>>

\* The counts it keeps are never both zero.
SomeChannels == Larger(ins, outs) >= 1

\* What a setup has prepared stays prepared until the next arrangement.
Prepared ==
  ready => /\ BusPorts \/ Len(effect) >= Larger(ins, outs)
           /\ AllPrepared(effect, setup)

IInv ==
  /\ TypeOK
  /\ NeverEmpty
  /\ CountsAsked
  /\ SomeChannels
  /\ Prepared /\ (active => ready)
  /\ ValuesKept
  /\ OnlyLoadsDivide

-----------------------------------------------------------------------------
\* Both conversions give numbers.
LEMMA ConversionTypes ==
  ASSUME NEW p \in Param, NEW n \in Nat
  PROVE  map_control_from_01(p, n) \in Nat /\ map_control_to_01(p, n) \in Nat
<1>1. Top[p] \in Nat \ {0} /\ One \in Nat \ {0}
  BY ConversionAssumption
<1>2. \A a \in Nat, b \in Nat \ {0} : a \div b \in Nat
  OBVIOUS
<1>3. n * Top[p] \in Nat /\ 2 * n * One + Top[p] \in Nat /\ 2 * n + Top[p] \in Nat
  BY <1>1
<1>4. 2 * Top[p] \in Nat \ {0}
  BY <1>1
<1> QED
  BY <1>1, <1>2, <1>3, <1>4 DEF map_control_from_01, map_control_to_01

\* What the host gives the component are values of its controls.
LEMMA ConvertedType ==
  ASSUME NEW values, Partial(values, Given)
  PROVE  /\ DOMAIN values \in SUBSET Param
         /\ Converted(values) \in [DOMAIN values -> Value]
         /\ \A p \in DOMAIN values : Converted(values)[p] = map_control_from_01(p, values[p])
BY ConversionAssumption DEF Partial, Converted

\* No values at all.
LEMMA PartialEmpty ==
  ASSUME NEW S
  PROVE  Partial(<<>>, S) /\ DOMAIN <<>> = {}
<1>1. <<>> \in [{} -> S]
  OBVIOUS
<1> QED
  BY <1>1 DEF Partial

\* What the component was given, after more of it.
LEMMA Remembered ==
  ASSUME Partial(given, Value), NEW P \in SUBSET Param, NEW new \in [P -> Value], Remember(new)
  PROVE  /\ Partial(given', Value) /\ DOMAIN given' = DOMAIN given \cup P
         /\ \A p \in P : given'[p] = new[p]
         /\ \A p \in DOMAIN given \ P : given'[p] = given[p]
BY DEF Partial, Remember

-----------------------------------------------------------------------------
\* A container that is not empty has a first instance, which represents it.
LEMMA First ==
  ASSUME TypeOK, NeverEmpty
  PROVE  /\ effect \in Seq(Instance) /\ effect # <<>>
         /\ DOMAIN effect = 1..Len(effect) /\ 1 \in DOMAIN effect
         /\ Representative = effect[1].inputs /\ Representative \in Inputs
<1>1. effect \in Seq(Instance) /\ effect # <<>>
  BY EmptySeq DEF TypeOK, NeverEmpty
<1>2. DOMAIN effect = 1..Len(effect) /\ 1 \in DOMAIN effect
  BY <1>1, LenProperties DEF NeverEmpty
<1> QED
  BY <1>1, <1>2, InstanceInputs DEF Representative

\* The constructor: an instance per default channel, or one, and all of them with
\* the init of every control.
LEMMA InitInv == Init => IInv
<1> SUFFICES ASSUME Init PROVE IInv
  OBVIOUS
<1> DEFINE made == IF BusPorts THEN <<NewInstance>> ELSE InitChannels(<<>>, DefaultIn, DefaultOut)
<1>1. made \in Seq(Instance) /\ Len(made) >= 1
  <2>1. CASE BusPorts
    BY <2>1, NewInstanceType
  <2>2. CASE ~BusPorts
    <3>1. Larger(DefaultIn, DefaultOut) >= 1
      BY Vst3Assumption DEF Larger
    <3>2. <<>> \in Seq(Instance)
      BY EmptySeq
    <3>3. /\ InitChannels(<<>>, DefaultIn, DefaultOut) \in Seq(Instance)
          /\ Len(InitChannels(<<>>, DefaultIn, DefaultOut)) = Larger(DefaultIn, DefaultOut)
      BY <3>2, Vst3Assumption, InitChannelsType
    <3> QED
      BY <2>2, <3>1, <3>3
  <2> QED
    BY <2>1, <2>2
<1> HIDE DEF made
<1>2. effect = WireFallbacks(InitControls(made))
  BY DEF Init, made
<1>3. /\ InitControls(made) \in Seq(Instance) /\ Len(InitControls(made)) = Len(made)
      /\ \A i \in DOMAIN made : InitControls(made)[i].inputs = [p \in Param |-> RangeInit]
  BY <1>1, InitControlsKeeps
<1>4. /\ effect \in Seq(Instance) /\ Len(effect) = Len(made)
      /\ \A i \in DOMAIN InitControls(made) : effect[i].inputs = InitControls(made)[i].inputs
  BY <1>2, <1>3, WireFallbacksKeeps
<1>5. DOMAIN effect = DOMAIN made /\ DOMAIN effect = DOMAIN InitControls(made)
  BY <1>1, <1>3, <1>4, LenProperties
<1>6. \A i \in DOMAIN effect : effect[i].inputs = [p \in Param |-> RangeInit]
  BY <1>3, <1>4, <1>5
<1>7. NewInstance.inputs \in [Param -> Nat]
  BY NewInstanceType, ConversionAssumption DEF Instance, Inputs
<1>8. /\ Partial(queued, Given) /\ Partial(stream, Nat) /\ Partial(given, Value)
      /\ DOMAIN stream = {} /\ DOMAIN given = {}
  BY PartialEmpty DEF Init
<1>9. TypeOK
  BY <1>4, <1>7, <1>8, Vst3Assumption DEF TypeOK, Init
<1>10. NeverEmpty /\ CountsAsked /\ SomeChannels /\ Prepared /\ (active => ready)
  BY <1>1, <1>4, Vst3Assumption DEF NeverEmpty, CountsAsked, SomeChannels, Larger, Prepared, Init
<1>11. ValuesKept
  BY <1>8 DEF ValuesKept
<1>12. OnlyLoadsDivide
  BY <1>6 DEF OnlyLoadsDivide
<1> QED
  BY <1>9, <1>10, <1>11, <1>12 DEF IInv

-----------------------------------------------------------------------------
\* init_channels(), or nothing at all for a processor with busses: the first
\* instance stays, the others are copies.
LEMMA ResizedKeeps ==
  ASSUME TypeOK, NeverEmpty, NEW in \in Nat, NEW out \in Nat, Larger(in, out) >= 1
  PROVE  /\ Resized(effect, in, out) \in Seq(Instance)
         /\ Len(Resized(effect, in, out)) >= 1
         /\ BusPorts \/ Len(Resized(effect, in, out)) = Larger(in, out)
         /\ Resized(effect, in, out)[1].inputs = Representative
         /\ \A i \in DOMAIN Resized(effect, in, out) : \E j \in DOMAIN effect :
              Resized(effect, in, out)[i].inputs = effect[j].inputs
<1>1. /\ effect \in Seq(Instance) /\ effect # <<>>
      /\ 1 \in DOMAIN effect /\ Representative = effect[1].inputs
  BY First
<1>2. CASE BusPorts
  BY <1>1, <1>2 DEF Resized, NeverEmpty
<1>3. CASE ~BusPorts
  <2> DEFINE grown == InitChannels(effect, in, out)
  <2>1. grown \in Seq(Instance) /\ Len(grown) = Larger(in, out)
    BY <1>1, InitChannelsType
  <2>2. 1 \in DOMAIN grown
    BY <2>1, LenProperties
  <2>3. \A i \in DOMAIN grown :
          /\ \E j \in DOMAIN effect : grown[i].inputs = effect[j].inputs
          /\ i = 1 => grown[i].inputs = effect[1].inputs
    BY <1>1, InitChannelsCopies
  <2> HIDE DEF grown
  <2>4. Resized(effect, in, out) = grown
    BY <1>3 DEF Resized, grown
  <2> QED
    BY <1>1, <2>1, <2>2, <2>3, <2>4
<1> QED
  BY <1>2, <1>3

\* Copies of what there was hold the last values, and are as divided as it was.
LEMMA CopiesKeep ==
  ASSUME IInv, effect' \in Seq(Instance), Len(effect') >= 1,
         effect'[1].inputs = Representative,
         \A i \in DOMAIN effect' : \E j \in DOMAIN effect : effect'[i].inputs = effect[j].inputs,
         UNCHANGED historyVars
  PROVE  NeverEmpty' /\ ValuesKept' /\ OnlyLoadsDivide' /\ Representative' = Representative
<1>1. effect' # <<>>
  BY EmptySeq
<1>2. Representative' = Representative
  BY <1>1 DEF Representative
<1>3. ValuesKept'
  BY <1>2 DEF IInv, ValuesKept, historyVars
<1>4. OnlyLoadsDivide'
  <2> SUFFICES ASSUME NEW p \in Param \ loaded, NEW i \in DOMAIN effect', NEW j \in DOMAIN effect'
               PROVE  effect'[i].inputs[p] = effect'[j].inputs[p]
    BY DEF OnlyLoadsDivide, historyVars
  <2>1. PICK k \in DOMAIN effect : effect'[i].inputs = effect[k].inputs
    OBVIOUS
  <2>2. PICK l \in DOMAIN effect : effect'[j].inputs = effect[l].inputs
    OBVIOUS
  <2> QED
    BY <2>1, <2>2 DEF IInv, OnlyLoadsDivide
<1> QED
  BY <1>2, <1>3, <1>4 DEF NeverEmpty

LEMMA StepArrangement ==
  ASSUME IInv, 0 \notin Channels, NEW in \in Channels, NEW out \in Channels,
         SetBusArrangements(in, out)
  PROVE  IInv' /\ Representative' = Representative
<1>1. in \in Nat /\ out \in Nat /\ in >= 1 /\ out >= 1
  BY Vst3Assumption
<1>2. /\ ins' \in Nat /\ outs' \in Nat /\ ins' >= 1 /\ outs' >= 1
      /\ ~BusPorts => ins' = in /\ outs' = out
  BY <1>1 DEF SetBusArrangements, Counted, IInv, TypeOK
<1>3. Larger(ins', outs') >= 1
  BY <1>2 DEF Larger
<1>4. effect' = Resized(effect, ins', outs')
  BY DEF SetBusArrangements
<1>5. /\ effect' \in Seq(Instance) /\ Len(effect') >= 1
      /\ effect'[1].inputs = Representative
      /\ \A i \in DOMAIN effect' : \E j \in DOMAIN effect : effect'[i].inputs = effect[j].inputs
  BY <1>2, <1>3, <1>4, ResizedKeeps DEF IInv
<1>6. NeverEmpty' /\ ValuesKept' /\ OnlyLoadsDivide' /\ Representative' = Representative
  BY <1>5, CopiesKeep DEF SetBusArrangements
<1>7. TypeOK'
  BY <1>1, <1>2, <1>5 DEF IInv, TypeOK, SetBusArrangements, historyVars, handOverVars
<1>8. CountsAsked' /\ SomeChannels' /\ Prepared' /\ (active => ready)'
  BY <1>2, <1>3 DEF CountsAsked, SomeChannels, Prepared, SetBusArrangements
<1> QED
  BY <1>6, <1>7, <1>8 DEF IInv

LEMMA StepSetup ==
  ASSUME IInv, NEW s \in Setup, SetupProcessing(s)
  PROVE  IInv' /\ Representative' = Representative
<1> DEFINE grown == Resized(effect, ins, outs)
<1>1. ins \in Nat /\ outs \in Nat /\ s \in Nat /\ Larger(ins, outs) >= 1
  BY Vst3Assumption DEF IInv, TypeOK, SomeChannels
<1>2. /\ grown \in Seq(Instance) /\ Len(grown) >= 1
      /\ BusPorts \/ Len(grown) = Larger(ins, outs)
      /\ grown[1].inputs = Representative
      /\ \A i \in DOMAIN grown : \E j \in DOMAIN effect : grown[i].inputs = effect[j].inputs
  BY <1>1, ResizedKeeps DEF IInv
<1> HIDE DEF grown
<1>3. effect' = Prepare(grown, s)
  BY DEF SetupProcessing, grown
<1>4. /\ effect' \in Seq(Instance) /\ Len(effect') = Len(grown)
      /\ \A i \in DOMAIN grown : effect'[i].inputs = grown[i].inputs
      /\ AllPrepared(effect', s)
  BY <1>1, <1>2, <1>3, PrepareKeeps
<1>5. DOMAIN effect' = DOMAIN grown /\ 1 \in DOMAIN grown
  BY <1>2, <1>4, LenProperties
<1>6. NeverEmpty' /\ ValuesKept' /\ OnlyLoadsDivide' /\ Representative' = Representative
  BY <1>2, <1>4, <1>5, CopiesKeep DEF SetupProcessing
<1>7. TypeOK'
  BY <1>1, <1>4 DEF IInv, TypeOK, SetupProcessing, historyVars, handOverVars
<1>8. Larger(ins, outs) \in Nat
  BY <1>1 DEF Larger
<1>9. CountsAsked' /\ SomeChannels' /\ Prepared' /\ (active => ready)'
  BY <1>2, <1>4, <1>8 DEF IInv, CountsAsked, SomeChannels, Prepared, SetupProcessing
<1> QED
  BY <1>6, <1>7, <1>9 DEF IInv

-----------------------------------------------------------------------------
\* The last points of the changes of a block reach every instance.
LEMMA StepProcess ==
  ASSUME IInv, Process
  PROVE  IInv' /\ Representative' = Changed(Representative, Converted(queued))
<1> DEFINE P == DOMAIN queued
           new == Converted(queued)
<1>1. /\ effect \in Seq(Instance) /\ effect # <<>>
      /\ DOMAIN effect = 1..Len(effect) /\ 1 \in DOMAIN effect
      /\ Representative = effect[1].inputs
  BY First DEF IInv
<1>2. P \in SUBSET Param /\ new \in [P -> Value]
  BY ConvertedType DEF IInv, TypeOK
<1>3. /\ Partial(given', Value) /\ DOMAIN given' = DOMAIN given \cup P
      /\ \A p \in P : given'[p] = new[p]
      /\ \A p \in DOMAIN given \ P : given'[p] = given[p]
  <2>1. Partial(given, Value) /\ Remember(new)
    BY DEF IInv, TypeOK, Process
  <2> HIDE DEF P, new
  <2> QED
    BY <1>2, <2>1, Remembered
<1>4. effect' = SetControls(effect, new)
  BY DEF Process, Controls
<1>5. queued' = <<>> /\ loaded' = loaded \ P
  BY DEF Process
<1> HIDE DEF P, new
<1>6. /\ effect' \in Seq(Instance) /\ Len(effect') = Len(effect)
      /\ \A i \in DOMAIN effect :
           /\ effect'[i].inputs = Changed(effect[i].inputs, new)
           /\ effect'[i].prepared = effect[i].prepared
  BY <1>1, <1>2, <1>4, SetControlsKeeps
<1>7. DOMAIN effect' = DOMAIN effect /\ effect' # <<>>
  BY <1>1, <1>6, LenProperties, EmptySeq
<1>8. Representative' = effect'[1].inputs /\ Representative' = Changed(Representative, new)
  BY <1>1, <1>6, <1>7 DEF Representative
<1>9. Partial(queued', Given)
  BY <1>5, PartialEmpty
<1>10. TypeOK'
  BY <1>3, <1>5, <1>6, <1>9 DEF IInv, TypeOK, Process, handOverVars
<1>11. \A i \in DOMAIN effect :
          /\ \A p \in P : effect'[i].inputs[p] = new[p]
          /\ \A p \in Param \ P : effect'[i].inputs[p] = effect[i].inputs[p]
  <2> SUFFICES ASSUME NEW i \in DOMAIN effect
               PROVE  /\ \A p \in P : Changed(effect[i].inputs, new)[p] = new[p]
                      /\ \A p \in Param \ P : Changed(effect[i].inputs, new)[p] = effect[i].inputs[p]
    BY <1>6
  <2>1. effect[i].inputs \in Inputs
    BY <1>1, InstanceInputs
  <2> QED
    BY <1>2, <2>1, ChangedControls
<1>12. ValuesKept'
  <2> SUFFICES ASSUME NEW p \in DOMAIN given \cup P
               PROVE  Representative'[p] = given'[p]
    BY <1>3 DEF ValuesKept
  <2>1. CASE p \in P
    BY <2>1, <1>1, <1>3, <1>8, <1>11
  <2>2. CASE p \notin P
    <3>1. Representative[p] = given[p] /\ p \in Param
      BY <2>2 DEF IInv, ValuesKept, TypeOK, Partial
    <3> QED
      BY <2>2, <3>1, <1>1, <1>3, <1>8, <1>11
  <2> QED
    BY <2>1, <2>2
<1>13. OnlyLoadsDivide'
  <2> SUFFICES ASSUME NEW p \in Param, p \notin loaded', NEW i \in DOMAIN effect, NEW j \in DOMAIN effect
               PROVE  effect'[i].inputs[p] = effect'[j].inputs[p]
    BY <1>7 DEF OnlyLoadsDivide
  <2>1. CASE p \in P
    BY <2>1, <1>11
  <2>2. CASE p \notin P
    <3>1. effect[i].inputs[p] = effect[j].inputs[p]
      BY <1>5, <2>2 DEF IInv, OnlyLoadsDivide
    <3> QED
      BY <2>2, <3>1, <1>11
  <2> QED
    BY <2>1, <2>2
<1>14. NeverEmpty' /\ CountsAsked' /\ SomeChannels' /\ Prepared' /\ (active => ready)'
  BY <1>6, <1>7 DEF IInv, NeverEmpty, CountsAsked, SomeChannels, Prepared, AllPrepared, Process
<1> QED
  BY <1>8, <1>10, <1>12, <1>13, <1>14 DEF IInv, new

\* A state gives the first instance a value for each control it holds.
LEMMA StepSetState ==
  ASSUME IInv, NEW state \in States, SetState(state)
  PROVE  IInv' /\ Representative' = Changed(Representative, Converted(state))
<1> DEFINE P == DOMAIN state
           new == Converted(state)
<1>1. /\ effect \in Seq(Instance) /\ effect # <<>>
      /\ DOMAIN effect = 1..Len(effect) /\ 1 \in DOMAIN effect
      /\ Representative = effect[1].inputs /\ Representative \in Inputs
  BY First DEF IInv
<1>2. Partial(state, Given) /\ Partial(state, Nat)
  BY ConversionAssumption DEF States, Partial
<1>3. P \in SUBSET Param /\ new \in [P -> Value]
  BY <1>2, ConvertedType
<1>4. /\ Partial(given', Value) /\ DOMAIN given' = DOMAIN given \cup P
      /\ \A p \in P : given'[p] = new[p]
      /\ \A p \in DOMAIN given \ P : given'[p] = given[p]
  <2>1. Partial(given, Value) /\ Remember(new)
    BY DEF IInv, TypeOK, SetState
  <2> HIDE DEF P, new
  <2> QED
    BY <1>3, <2>1, Remembered
<1>5. /\ effect' = SetFirst(effect, new) /\ loaded' = loaded \cup P
      /\ stream' = state /\ later' \subseteq P
  BY DEF SetState, MakeStream
<1> HIDE DEF P, new
<1>6. /\ effect' \in Seq(Instance) /\ Len(effect') = Len(effect)
      /\ effect'[1].inputs = Changed(effect[1].inputs, new)
      /\ \A i \in DOMAIN effect : effect'[i].prepared = effect[i].prepared
  BY <1>1, <1>3, <1>5, SetFirstKeeps
<1>7. DOMAIN effect' = DOMAIN effect /\ effect' # <<>>
  BY <1>1, <1>6, LenProperties, EmptySeq
<1>8. Representative' = Changed(Representative, new)
  BY <1>1, <1>6, <1>7 DEF Representative
<1>9. /\ \A p \in P : Representative'[p] = new[p]
      /\ \A p \in Param \ P : Representative'[p] = Representative[p]
  BY <1>1, <1>3, <1>8, ChangedControls
<1>10. TypeOK'
  BY <1>2, <1>3, <1>4, <1>5, <1>6 DEF IInv, TypeOK, SetState, P
<1>11. ValuesKept'
  <2> SUFFICES ASSUME NEW p \in DOMAIN given \cup P
               PROVE  Representative'[p] = given'[p]
    BY <1>4 DEF ValuesKept
  <2>1. CASE p \in P
    BY <2>1, <1>4, <1>9
  <2>2. CASE p \notin P
    <3>1. Representative[p] = given[p] /\ p \in Param
      BY <2>2 DEF IInv, ValuesKept, TypeOK, Partial
    <3> QED
      BY <2>2, <3>1, <1>4, <1>9
  <2> QED
    BY <2>1, <2>2
<1>12. OnlyLoadsDivide'
  <2> SUFFICES ASSUME NEW p \in Param, p \notin loaded', NEW i \in DOMAIN effect, NEW j \in DOMAIN effect
               PROVE  effect'[i].inputs[p] = effect'[j].inputs[p]
    BY <1>7 DEF OnlyLoadsDivide
  <2>1. p \notin P /\ p \notin loaded
    BY <1>5
  <2>2. \A k \in DOMAIN effect : effect'[k].inputs[p] = effect[k].inputs[p]
    <3> SUFFICES ASSUME NEW k \in DOMAIN effect PROVE effect'[k].inputs[p] = effect[k].inputs[p]
      OBVIOUS
    <3>1. CASE k = 1
      BY <3>1, <1>1, <1>9, <1>7, <2>1 DEF Representative
    <3>2. CASE k # 1
      BY <3>2, <1>5 DEF SetFirst
    <3> QED
      BY <3>1, <3>2
  <2> QED
    BY <2>1, <2>2 DEF IInv, OnlyLoadsDivide
<1>13. NeverEmpty' /\ CountsAsked' /\ SomeChannels' /\ Prepared' /\ (active => ready)'
  BY <1>6, <1>7 DEF IInv, NeverEmpty, CountsAsked, SomeChannels, Prepared, AllPrepared, SetState
<1> QED
  BY <1>8, <1>10, <1>11, <1>12, <1>13 DEF IInv, new

\* What touches neither the component nor the arrangement.
LEMMA ComponentAlone ==
  ASSUME IInv, TypeOK', active' => ready',
         UNCHANGED <<componentVars, asked, setup, ready, historyVars>>
  PROVE  IInv' /\ Representative' = Representative
BY DEF IInv, NeverEmpty, CountsAsked, SomeChannels, Prepared, AllPrepared, ValuesKept,
       OnlyLoadsDivide, Representative, componentVars, historyVars

LEMMA StepEdit ==
  ASSUME IInv, NEW p \in Param, NEW n \in Given, Edit(p, n)
  PROVE  IInv' /\ Representative' = Representative
<1>1. Partial(queued', Given)
  BY DEF IInv, TypeOK, Partial, Edit
<1>2. mirror' \in [Param -> Nat]
  <2>1. map_control_from_01(p, n) \in Nat
    BY ConversionTypes, ConversionAssumption
  <2> QED
    BY <2>1 DEF Edit, Mirrored, IInv, TypeOK
<1>3. later' \subseteq DOMAIN stream' /\ synced' \subseteq Param
  BY DEF IInv, TypeOK, Edit
<1>4. TypeOK'
  BY <1>1, <1>2, <1>3 DEF IInv, TypeOK, Edit, componentVars, historyVars
<1> QED
  BY <1>4, ComponentAlone DEF Edit, IInv

LEMMA StepGetState ==
  ASSUME IInv, GetState
  PROVE  IInv' /\ Representative' = Representative
<1>1. Representative \in [Param -> Nat]
  BY First, ConversionAssumption DEF IInv, Inputs
<1>2. Written \in [Param -> Nat]
  BY <1>1, ConversionTypes DEF Written
<1>3. Partial(stream', Nat) /\ later' \subseteq DOMAIN stream'
  BY <1>2 DEF GetState, MakeStream, Partial
<1>4. TypeOK'
  BY <1>3 DEF IInv, TypeOK, GetState, componentVars, historyVars
<1> QED
  BY <1>4, ComponentAlone DEF GetState, IInv

LEMMA StepSetComponentState ==
  ASSUME IInv, SetComponentState
  PROVE  IInv' /\ Representative' = Representative
<1>1. mirror' \in [Param -> Nat]
  <2>1. \A p \in DOMAIN stream : Converted(stream)[p] \in Nat
    BY ConversionTypes DEF IInv, TypeOK, Partial, Converted
  <2> QED
    BY <2>1 DEF IInv, TypeOK, SetComponentState
<1>2. Partial(stream', Nat) /\ later' \subseteq DOMAIN stream' /\ synced' \subseteq Param
  BY PartialEmpty DEF IInv, TypeOK, Partial, SetComponentState
<1>3. TypeOK'
  BY <1>1, <1>2 DEF IInv, TypeOK, SetComponentState, componentVars, historyVars
<1> QED
  BY <1>3, ComponentAlone DEF SetComponentState, IInv

LEMMA StepOther ==
  ASSUME IInv, SetActive \/ UNCHANGED vars
  PROVE  IInv' /\ Representative' = Representative
<1>1. /\ UNCHANGED <<componentVars, mirror, asked, setup, ready, queued, historyVars, handOverVars>>
      /\ active' \in BOOLEAN /\ (active' => ready')
  <2>1. CASE SetActive
    BY <2>1, Zenon DEF IInv, TypeOK, SetActive
  <2>2. CASE UNCHANGED vars
    BY <2>2 DEF IInv, TypeOK, vars
  <2> QED
    BY <2>1, <2>2
<1>2. TypeOK'
  BY <1>1 DEF IInv, TypeOK, componentVars, historyVars, handOverVars
<1> QED
  BY <1>1, <1>2, ComponentAlone

LEMMA StepInv ==
  ASSUME 0 \notin Channels
  PROVE  IInv /\ [Next]_vars => IInv'
<1> SUFFICES ASSUME IInv, [Next]_vars PROVE IInv'
  OBVIOUS
<1>1. ASSUME NEW in \in Channels, NEW out \in Channels, SetBusArrangements(in, out) PROVE IInv'
  BY <1>1, StepArrangement
<1>2. ASSUME NEW s \in Setup, SetupProcessing(s) PROVE IInv'
  BY <1>2, StepSetup
<1>3. ASSUME NEW p \in Param, NEW n \in Given, Edit(p, n) PROVE IInv'
  BY <1>3, StepEdit
<1>4. CASE Process
  BY <1>4, StepProcess
<1>5. ASSUME NEW state \in States, SetState(state) PROVE IInv'
  BY <1>5, StepSetState
<1>6. CASE GetState \/ SetComponentState
  BY <1>6, StepGetState, StepSetComponentState
<1>7. CASE SetActive \/ UNCHANGED vars
  BY <1>7, StepOther
<1> QED
  BY <1>1, <1>2, <1>3, <1>4, <1>5, <1>6, <1>7 DEF Next

LEMMA AlwaysInv ==
  ASSUME 0 \notin Channels
  PROVE  Spec => []IInv
<1>1. Init => IInv
  BY InitInv
<1>2. IInv /\ [Next]_vars => IInv'
  BY StepInv
<1> QED
  BY <1>1, <1>2, PTL DEF Spec

-----------------------------------------------------------------------------
\* getState() saves the last value the component was given of every control,
\* through any number of arrangements, when each has a channel
\* (init_channels() keeps the first instance).
THEOREM KeepsValues ==
  ASSUME 0 \notin Channels
  PROVE  Spec => []ValuesKept
<1>1. IInv => ValuesKept
  BY DEF IInv
<1>2. Spec => []IInv
  BY AlwaysInv
<1> QED
  BY <1>1, <1>2, PTL

\* Only setState(), which reads into one instance, makes channels differ.
THEOREM LoadsDivide ==
  ASSUME 0 \notin Channels
  PROVE  Spec => []OnlyLoadsDivide
<1>1. IInv => OnlyLoadsDivide
  BY DEF IInv
<1>2. Spec => []IInv
  BY AlwaysInv
<1> QED
  BY <1>1, <1>2, PTL

\* An active component has a prepared instance for every channel it was granted.
THEOREM ProcessesReady ==
  ASSUME 0 \notin Channels
  PROVE  Spec => []ReadyToProcess
<1>1. IInv => ReadyToProcess
  BY DEF IInv, Prepared, CountsAsked, ReadyToProcess
<1>2. Spec => []IInv
  BY AlwaysInv
<1> QED
  BY <1>1, <1>2, PTL

-----------------------------------------------------------------------------
\* The value of a control once the next block has brought its edit.
Coming(p) ==
  IF p \in DOMAIN queued THEN map_control_from_01(p, queued[p]) ELSE Representative[p]

\* A value a controller may show for one of the component: the same, or what a
\* state makes of it.
Shows(p, shown, value) == shown \in {value, Stored(p, value)}

\* The controller is ahead of the component by the edits that the next block carries.
MirrorAhead == \A p \in synced \ DOMAIN stream : Shows(p, mirror[p], Coming(p))

\* The state on its way holds what the component has of every control without a
\* later edit: handing it over makes the mirror follow.
StreamHolds ==
  \A p \in DOMAIN stream \ later :
    p \notin DOMAIN queued /\ Shows(p, map_control_from_01(p, stream[p]), Representative[p])

Ahead == MirrorAhead /\ StreamHolds

\* What changes no control of the component and nothing of the hand-over.
LEMMA HandOverAlone ==
  ASSUME Ahead, Representative' = Representative, UNCHANGED <<mirror, queued, handOverVars>>
  PROVE  Ahead'
BY DEF Ahead, MirrorAhead, StreamHolds, Coming, handOverVars

\* A block brings the component the values that were coming.
LEMMA ProcessAhead ==
  ASSUME IInv, Ahead, Process
  PROVE  Ahead'
<1>1. Representative' = Changed(Representative, Converted(queued)) /\ Representative \in Inputs
  BY StepProcess, First DEF IInv
<1>2. /\ DOMAIN queued \in SUBSET Param
      /\ Converted(queued) \in [DOMAIN queued -> Value]
      /\ \A p \in DOMAIN queued : Converted(queued)[p] = map_control_from_01(p, queued[p])
  BY ConvertedType DEF IInv, TypeOK
<1>3. /\ \A p \in DOMAIN queued : Representative'[p] = Converted(queued)[p]
      /\ \A p \in Param \ DOMAIN queued : Representative'[p] = Representative[p]
  BY <1>1, <1>2, ChangedControls
<1>4. \A p \in Param : Representative'[p] = Coming(p)
  BY <1>2, <1>3 DEF Coming
<1>5. DOMAIN queued' = {} /\ UNCHANGED <<mirror, stream, later, synced>>
  BY PartialEmpty DEF Process, handOverVars
<1>6. MirrorAhead'
  <2> SUFFICES ASSUME NEW p \in synced \ DOMAIN stream
               PROVE  Shows(p, mirror[p], Coming(p)')
    BY <1>5 DEF MirrorAhead
  <2>1. p \in Param /\ Shows(p, mirror[p], Coming(p))
    BY DEF IInv, TypeOK, Ahead, MirrorAhead
  <2>2. Coming(p)' = Representative'[p]
    BY <1>5 DEF Coming
  <2> QED
    BY <2>1, <2>2, <1>4
<1>7. StreamHolds'
  <2> SUFFICES ASSUME NEW p \in DOMAIN stream \ later
               PROVE  Shows(p, map_control_from_01(p, stream[p]), Representative'[p])
    BY <1>5 DEF StreamHolds
  <2>1. /\ p \in Param /\ p \notin DOMAIN queued
        /\ Shows(p, map_control_from_01(p, stream[p]), Representative[p])
    BY DEF IInv, TypeOK, Partial, Ahead, StreamHolds
  <2> QED
    BY <2>1, <1>3
<1> QED
  BY <1>6, <1>7 DEF Ahead

\* An edit that the controller takes is in its mirror and coming; one of a control
\* on the stream is later than the state.
LEMMA EditAhead ==
  ASSUME IInv, Ahead, NEW p \in Param, NEW n \in Given, Edit(p, n)
  PROVE  Ahead'
<1>1. Representative' = Representative
  BY StepEdit
<1>2. /\ DOMAIN queued' = DOMAIN queued \cup {p} /\ queued'[p] = n
      /\ \A q \in DOMAIN queued \ {p} : queued'[q] = queued[q]
  BY DEF Edit
<1>3. /\ stream' = stream
      /\ later' = IF p \in DOMAIN stream THEN later \cup {p} ELSE later
      /\ synced' = IF Accepts(p) THEN synced \cup {p} ELSE synced \ {p}
  BY DEF Edit
<1>4. mirror \in [Param -> Nat] /\ mirror' = Mirrored(p, n)
  BY DEF Edit, IInv, TypeOK
<1>5. MirrorAhead'
  <2> SUFFICES ASSUME NEW q \in synced' \ DOMAIN stream
               PROVE  Shows(q, mirror'[q], Coming(q)')
    BY <1>3 DEF MirrorAhead
  <2>1. CASE q = p
    <3>1. Accepts(p)
      BY <2>1, <1>3
    <3>2. mirror'[q] = map_control_from_01(p, n)
      BY <2>1, <3>1, <1>4 DEF Mirrored
    <3>3. Coming(q)' = map_control_from_01(p, n)
      BY <2>1, <1>2 DEF Coming
    <3> QED
      BY <3>2, <3>3 DEF Shows
  <2>2. CASE q # p
    <3>1. q \in synced
      BY <2>2, <1>3
    <3>2. q \in Param /\ Shows(q, mirror[q], Coming(q))
      BY <3>1 DEF IInv, TypeOK, Ahead, MirrorAhead
    <3>3. mirror'[q] = mirror[q]
      BY <2>2, <3>2, <1>4 DEF Mirrored
    <3>4. Coming(q)' = Coming(q)
      BY <2>2, <1>1, <1>2 DEF Coming
    <3> QED
      BY <3>2, <3>3, <3>4
  <2> QED
    BY <2>1, <2>2
<1>6. StreamHolds'
  BY <1>1, <1>2, <1>3 DEF Ahead, StreamHolds
<1> QED
  BY <1>5, <1>6 DEF Ahead

\* A state that was loaded is what the component has of the controls in it.
LEMMA SetStateAhead ==
  ASSUME IInv, Ahead, NEW state \in States, SetState(state)
  PROVE  Ahead'
<1>1. Representative' = Changed(Representative, Converted(state)) /\ Representative \in Inputs
  BY StepSetState, First DEF IInv
<1>2. Partial(state, Given)
  BY DEF States, Partial
<1>3. /\ DOMAIN state \in SUBSET Param
      /\ Converted(state) \in [DOMAIN state -> Value]
      /\ \A p \in DOMAIN state : Converted(state)[p] = map_control_from_01(p, state[p])
  BY <1>2, ConvertedType
<1>4. /\ \A p \in DOMAIN state : Representative'[p] = map_control_from_01(p, state[p])
      /\ \A p \in Param \ DOMAIN state : Representative'[p] = Representative[p]
  BY <1>1, <1>3, ChangedControls
<1>5. /\ DOMAIN stream = {} /\ stream' = state
      /\ later' = DOMAIN state \cap DOMAIN queued
      /\ UNCHANGED <<mirror, queued, synced>>
  BY PartialEmpty DEF SetState, MakeStream
<1>6. MirrorAhead'
  <2> SUFFICES ASSUME NEW p \in synced \ DOMAIN state
               PROVE  Shows(p, mirror[p], Coming(p)')
    BY <1>5 DEF MirrorAhead
  <2>1. p \in Param /\ Shows(p, mirror[p], Coming(p))
    BY <1>5 DEF IInv, TypeOK, Ahead, MirrorAhead
  <2>2. Coming(p)' = Coming(p)
    BY <2>1, <1>4, <1>5 DEF Coming
  <2> QED
    BY <2>1, <2>2
<1>7. StreamHolds'
  BY <1>4, <1>5 DEF StreamHolds, Shows
<1> QED
  BY <1>6, <1>7 DEF Ahead

\* A state that was written is what the component has, after one conversion.
LEMMA GetStateAhead ==
  ASSUME IInv, Ahead, GetState
  PROVE  Ahead'
<1>1. Representative' = Representative
  BY StepGetState
<1>2. /\ DOMAIN stream = {} /\ stream' = Written /\ DOMAIN stream' = Param
      /\ later' = Param \cap DOMAIN queued
      /\ UNCHANGED <<mirror, queued, synced>>
  BY PartialEmpty DEF GetState, MakeStream, Written
<1>3. MirrorAhead'
  BY <1>2 DEF IInv, TypeOK, MirrorAhead
<1>4. \A p \in Param : map_control_from_01(p, stream'[p]) = Stored(p, Representative[p])
  BY <1>2 DEF Written, Stored
<1>5. StreamHolds'
  BY <1>1, <1>2, <1>4 DEF StreamHolds, Shows
<1> QED
  BY <1>3, <1>5 DEF Ahead

\* The hand-over takes every control of the state, and leaves out the ones that
\* were edited later.
LEMMA SetComponentStateAhead ==
  ASSUME IInv, Ahead, SetComponentState
  PROVE  Ahead'
<1>1. Representative' = Representative
  BY StepSetComponentState
<1>2. /\ DOMAIN stream' = {} /\ queued' = queued
      /\ synced' = (synced \ DOMAIN stream) \cup (DOMAIN stream \ later)
  BY PartialEmpty DEF SetComponentState
<1>3. /\ DOMAIN stream \subseteq Param /\ synced \subseteq Param
      /\ \A p \in DOMAIN stream : mirror'[p] = map_control_from_01(p, stream[p])
      /\ \A p \in Param \ DOMAIN stream : mirror'[p] = mirror[p]
  BY DEF SetComponentState, Converted, IInv, TypeOK, Partial
<1>4. MirrorAhead'
  <2> SUFFICES ASSUME NEW p \in synced'
               PROVE  Shows(p, mirror'[p], Coming(p))
    BY <1>1, <1>2 DEF MirrorAhead, Coming
  <2>1. CASE p \in DOMAIN stream
    <3>1. p \in DOMAIN stream \ later
      BY <2>1, <1>2
    <3>2. p \notin DOMAIN queued /\ Shows(p, map_control_from_01(p, stream[p]), Representative[p])
      BY <3>1 DEF Ahead, StreamHolds
    <3> QED
      BY <2>1, <3>2, <1>3 DEF Coming
  <2>2. CASE p \notin DOMAIN stream
    BY <2>2, <1>2, <1>3 DEF Ahead, MirrorAhead
  <2> QED
    BY <2>1, <2>2
<1>5. StreamHolds'
  BY <1>2 DEF StreamHolds
<1> QED
  BY <1>4, <1>5 DEF Ahead

LEMMA StepAhead ==
  ASSUME 0 \notin Channels
  PROVE  IInv /\ Ahead /\ [Next]_vars => Ahead'
<1> SUFFICES ASSUME IInv, Ahead, [Next]_vars PROVE Ahead'
  OBVIOUS
<1>1. ASSUME NEW in \in Channels, NEW out \in Channels, SetBusArrangements(in, out) PROVE Ahead'
  BY <1>1, StepArrangement, HandOverAlone DEF SetBusArrangements
<1>2. ASSUME NEW s \in Setup, SetupProcessing(s) PROVE Ahead'
  BY <1>2, StepSetup, HandOverAlone DEF SetupProcessing
<1>3. ASSUME NEW p \in Param, NEW n \in Given, Edit(p, n) PROVE Ahead'
  BY <1>3, EditAhead
<1>4. CASE Process
  BY <1>4, ProcessAhead
<1>5. ASSUME NEW state \in States, SetState(state) PROVE Ahead'
  BY <1>5, SetStateAhead
<1>6. CASE GetState \/ SetComponentState
  BY <1>6, GetStateAhead, SetComponentStateAhead
<1>7. CASE SetActive \/ UNCHANGED vars
  <2>1. Representative' = Representative
    BY <1>7, StepOther
  <2>2. UNCHANGED <<mirror, queued, handOverVars>>
    BY <1>7 DEF SetActive, vars
  <2> QED
    BY <2>1, <2>2, HandOverAlone
<1> QED
  BY <1>1, <1>2, <1>3, <1>4, <1>5, <1>6, <1>7 DEF Next

\* Whatever edits, blocks, states and hand-overs come between, the controller shows
\* every control whose last change it has taken as the component has it, or as a
\* state gives it back: for any ranges, any mix of int and float controls, tags that
\* are refused or not, and states that end early, when each bus has a channel.
THEOREM ControllerShows ==
  ASSUME 0 \notin Channels
  PROVE  Spec => []ControllerFollows
<1>1. Init => Ahead
  <2> SUFFICES ASSUME Init PROVE Ahead
    OBVIOUS
  <2>1. DOMAIN stream = {} /\ synced = {}
    BY PartialEmpty DEF Init
  <2> QED
    BY <2>1 DEF Ahead, MirrorAhead, StreamHolds
<1>2. IInv /\ Ahead /\ [Next]_vars => Ahead'
  BY StepAhead
<1>3. Spec => []IInv
  BY AlwaysInv
<1>4. Ahead => ControllerFollows
  BY DEF Ahead, MirrorAhead, Coming, Shows, ControllerFollows
<1> QED
  BY <1>1, <1>2, <1>3, <1>4, PTL DEF Spec
=============================================================================
