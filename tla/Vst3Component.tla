---------------------------- MODULE Vst3Component ----------------------------
(***************************************************************************)
(* A processor as a VST 3 plug-in: Component and Controller of             *)
(* include/avnd/binding/vst3, two objects the host keeps in step.  The     *)
(* component holds the effect container and gets the channels, the setups, *)
(* the blocks and the saved states; the controller holds a copy of the     *)
(* controls, its mirror, which is what the host shows.  An edit reaches    *)
(* the controller at once and the component with its next block; a state   *)
(* is written or read by the component, then read by the controller, and   *)
(* edits and blocks may come between the two.                              *)
(*                                                                         *)
(* The host and its states hold normalised values, from 0 to 1, here in    *)
(* fixed point from 0 to One, and each object converts them for itself.    *)
(* The controls are int and float ones with a range from 0 to Top[p];      *)
(* those of bool, enum and list type are not modelled.  A float is counted *)
(* in units of 1/One.                                                      *)
(*                                                                         *)
(* The host's side, external: it changes the arrangement and the setup     *)
(* only while the plug-in is inactive, makes a setup after a change of     *)
(* arrangement before it activates the plug-in, and hands one state to the *)
(* controller before it deals with the next.                               *)
(***************************************************************************)
EXTENDS EffectContainer, FiniteSets

CONSTANTS DefaultIn, DefaultOut,  \* the default channel counts
          Channels,               \* the channel counts of the arrangements of a bus
          Setup,                  \* what setupProcessing() is given, numbered from 1
          BusPorts,               \* the processor has dynamic busses: one instance, any channels
          One,                    \* the normalised value 1
          Top,                    \* the maximum of the range of each control
          Ints,                   \* the int controls; the others are float
          Given                   \* the normalised values of edits and of states that are loaded

\* Parameters are known by their raw field index.
ASSUME Vst3Assumption ==
  /\ Param \subseteq Nat
  /\ DefaultIn \in Nat /\ DefaultOut \in Nat /\ DefaultIn + DefaultOut > 0
  /\ Channels \subseteq Nat
  /\ Setup \subseteq Nat \ {0}
  /\ BusPorts \in BOOLEAN

-----------------------------------------------------------------------------
\* map_control_from_01(): an int control drops the fraction.
map_control_from_01(p, n) == IF p \in Ints THEN (n * Top[p]) \div One ELSE n * Top[p]

\* map_control_to_01(): the division rounds to the nearest value there is.
map_control_to_01(p, v) ==
  IF p \in Ints THEN (2 * v * One + Top[p]) \div (2 * Top[p])
                ELSE (2 * v + Top[p]) \div (2 * Top[p])

\* What a value is after it was written to a state and read again.
Stored(p, v) == map_control_from_01(p, map_control_to_01(p, v))

\* Normalised values of some controls, converted.
Converted(values) == [p \in DOMAIN values |-> map_control_from_01(p, values[p])]

\* The numbers that stand for the doubles and the ints.
ASSUME ConversionAssumption ==
  /\ One \in Nat \ {0}
  /\ Top \in [Param -> Nat \ {0}]
  /\ Given \subseteq Nat /\ Value \subseteq Nat
  /\ \A p \in Param, n \in Given : map_control_from_01(p, n) \in Value

VARIABLES effect,    \* Component: the instances
          ins, outs, \* its runtime_input_channel_count and runtime_output_channel_count
          told,      \* the channel counts its last prepare() carried
          mirror,    \* Controller: inputs_mirror
          \* the host
          asked,     \* the arrangement it was granted
          setup,     \* the last setup it made
          ready,     \* it made one since the arrangement changed
          active,
          queued,    \* the edits the next block carries
          stream,    \* the state the controller is to be given next
          \* history
          given,     \* the last value the component was given of each control
          loaded,    \* the controls whose last value came from a state
          later,     \* those of the stream with an edit that the state does not have
          synced     \* those whose last edit or state the controller has taken

componentVars == <<effect, ins, outs, told>>
historyVars == <<given, loaded>>
handOverVars == <<stream, later, synced>>
vars == <<componentVars, mirror, asked, setup, ready, active, queued, historyVars, handOverVars>>

\* A member of S for each of some controls.
Partial(f, S) == DOMAIN f \subseteq Param /\ f \in [DOMAIN f -> S]

\* A stream that ends early has the first controls only.
Prefix(P) == \A p \in P, q \in Param : q < p => q \in P
States == UNION {[P -> Given] : P \in {Q \in SUBSET Param : Prefix(Q)}}

TypeOK ==
  /\ effect \in Seq(Instance)
  /\ ins \in Nat /\ outs \in Nat /\ told \in Nat \X Nat
  /\ mirror \in [Param -> Nat]
  /\ asked \in Nat \X Nat
  /\ setup \in Setup \cup {0}
  /\ ready \in BOOLEAN /\ active \in BOOLEAN
  /\ Partial(queued, Given) /\ Partial(stream, Nat)
  /\ Partial(given, Value) /\ loaded \subseteq Param
  /\ later \subseteq DOMAIN stream /\ synced \subseteq Param

\* A processor with busses has one instance, whatever the channels.
Resized(e, in, out) == IF BusPorts THEN e ELSE InitChannels(e, in, out)

\* The constructors: the component's controls have the init of their range, the
\* controller's the values of a default-constructed inputs struct.
Init ==
  /\ ins = DefaultIn /\ outs = DefaultOut /\ told = <<0, 0>>
  /\ effect = WireFallbacks(InitControls(
                IF BusPorts THEN <<NewInstance>> ELSE InitChannels(<<>>, DefaultIn, DefaultOut)))
  /\ mirror = NewInstance.inputs
  /\ asked = <<DefaultIn, DefaultOut>>
  /\ setup = 0 /\ ready = FALSE /\ active = FALSE
  /\ queued = <<>> /\ stream = <<>>
  /\ given = <<>> /\ loaded = {}
  /\ later = {} /\ synced = {}

-----------------------------------------------------------------------------
\* setBusArrangements(): processors with busses add the channels of each to the
\* counts, the others have one bus and assign.
Counted(count, channels) == IF BusPorts THEN count + channels ELSE channels

SetBusArrangements(in, out) ==
  /\ ~active
  /\ ins' = Counted(ins, in) /\ outs' = Counted(outs, out)
  /\ effect' = Resized(effect, ins', outs')
  /\ asked' = <<in, out>>
  /\ ready' = FALSE
  /\ UNCHANGED <<told, mirror, setup, active, queued, historyVars, handOverVars>>

\* setupProcessing(): channels, then prepare().
SetupProcessing(s) ==
  /\ ~active
  /\ effect' = Prepare(Resized(effect, ins, outs), s)
  /\ told' = <<ins, outs>>
  /\ setup' = s
  /\ ready' = TRUE
  /\ UNCHANGED <<ins, outs, mirror, asked, active, queued, historyVars, handOverVars>>

\* setActive() does nothing.
SetActive ==
  /\ active \/ ready
  /\ active' = ~active
  /\ UNCHANGED <<componentVars, mirror, asked, setup, ready, queued, historyVars, handOverVars>>

-----------------------------------------------------------------------------
\* setParamNormalized() refuses a tag that is not below the number of
\* parameters, though tags are raw indices, which other ports also take.
Accepts(p) == p < Cardinality(Param)

Mirrored(p, n) ==
  IF Accepts(p) THEN [mirror EXCEPT ![p] = map_control_from_01(p, n)] ELSE mirror

\* The user, or automation, changes a control.
Edit(p, n) ==
  /\ mirror' = Mirrored(p, n)
  /\ queued' = [q \in DOMAIN queued \cup {p} |-> IF q = p THEN n ELSE queued[q]]
  /\ later' = IF p \in DOMAIN stream THEN later \cup {p} ELSE later
  /\ synced' = IF Accepts(p) THEN synced \cup {p} ELSE synced \ {p}
  /\ UNCHANGED <<componentVars, asked, setup, ready, active, stream, historyVars>>

\* Mutant: processControl() changes the representative instance.
ControlsToFirst(new) == SetFirst(effect, new)

\* processControl() for each changed parameter: its last point, to every instance.
Controls(new) == SetControls(effect, new)

\* The last values the component was given, after new ones of some controls.
Remember(new) ==
  given' = [p \in DOMAIN given \cup DOMAIN new |-> IF p \in DOMAIN new THEN new[p] ELSE given[p]]

\* process()
Process ==
  /\ active
  /\ effect' = Controls(Converted(queued))
  /\ Remember(Converted(queued))
  /\ loaded' = loaded \ DOMAIN queued
  /\ queued' = <<>>
  /\ UNCHANGED <<ins, outs, told, mirror, asked, setup, ready, active, handOverVars>>

-----------------------------------------------------------------------------
\* The host keeps a state for the controller; the edits under way are not in it.
MakeStream(state) ==
  /\ stream = <<>>
  /\ stream' = state
  /\ later' = DOMAIN state \cap DOMAIN queued

\* Component::setState() reads one value per control, up to the end of the stream,
\* into the representative instance.
SetState(state) ==
  /\ MakeStream(state)
  /\ effect' = SetFirst(effect, Converted(state))
  /\ Remember(Converted(state))
  /\ loaded' = loaded \cup DOMAIN state
  /\ UNCHANGED <<ins, outs, told, mirror, asked, setup, ready, active, queued, synced>>

\* The representative instance, or a default-constructed struct.
Representative == IF effect = <<>> THEN NewInstance.inputs ELSE effect[1].inputs

\* Mutant: no conversion is found for the control, and its value stays 0.
WrittenUnconverted == [p \in Param |-> 0]

\* Component::getState() writes the representative instance.
Written == [p \in Param |-> map_control_to_01(p, Representative[p])]

GetState ==
  /\ MakeStream(Written)
  /\ UNCHANGED <<componentVars, mirror, asked, setup, ready, active, queued, historyVars, synced>>

\* Controller::setComponentState() reads the state into the mirror, over any edit
\* that it has taken since the state was made.
SetComponentState ==
  /\ stream # <<>>
  /\ mirror' = [p \in Param |-> IF p \in DOMAIN stream THEN Converted(stream)[p] ELSE mirror[p]]
  /\ synced' = (synced \ DOMAIN stream) \cup (DOMAIN stream \ later)
  /\ stream' = <<>> /\ later' = {}
  /\ UNCHANGED <<componentVars, asked, setup, ready, active, queued, historyVars>>

-----------------------------------------------------------------------------
Next ==
  \/ \E in, out \in Channels : SetBusArrangements(in, out)
  \/ \E s \in Setup : SetupProcessing(s)
  \/ SetActive
  \/ \E p \in Param, n \in Given : Edit(p, n)
  \/ Process
  \/ \E state \in States : SetState(state)
  \/ GetState
  \/ SetComponentState

Spec == Init /\ [][Next]_vars

-----------------------------------------------------------------------------
\* While the plug-in is active there is an instance for every channel of the
\* arrangement the host was granted, and every one was prepared for the last
\* setup: process() runs the channels that have an instance and no other.
ReadyToProcess ==
  active => /\ BusPorts \/ Len(effect) >= Larger(asked[1], asked[2])
            /\ AllPrepared(effect, setup)

\* The component keeps, and getState() saves, the last value it was given of
\* every control, through any number of changes of arrangement.  Refuted when an
\* arrangement may have no channel.
ValuesKept == \A p \in DOMAIN given : Representative[p] = given[p]

\* The channels run with the same value of every control that was not loaded
\* from a state since its last change.
OnlyLoadsDivide ==
  \A p \in Param \ loaded : \A i, j \in DOMAIN effect : effect[i].inputs[p] = effect[j].inputs[p]

\* A control whose last edit or state the controller has taken is shown as the
\* component has it, or as a state gives it back, once its edits and its states
\* have arrived; edits, blocks and states of the other controls may be under way.
\* Controls that a state put back over a later edit, and edits that the controller
\* refused, are left out until the next one: see EditsShown and TagsAccepted.
ControllerFollows ==
  \A p \in synced \ (DOMAIN queued \cup DOMAIN stream) :
    mirror[p] \in {Representative[p], Stored(p, Representative[p])}

\* "called when we load a preset, the model has to be reloaded" (vst3/component.hpp:573):
\* the state that getState() writes brings back the values.  Refuted by int controls.
StateKept == \A p \in Param : Stored(p, Representative[p]) = Representative[p]

\* "A VST host sees one parameter set" (vst3/component.hpp:339): an edit on its way to
\* the component is what the controller shows.  Refuted: setComponentState() puts an
\* older value back, and nothing corrects it when the edit arrives.
EditsShown ==
  \A p \in DOMAIN queued : Accepts(p) => mirror[p] = map_control_from_01(p, queued[p])

\* The same line: the controller takes the tag of every control.  Refuted when other
\* ports come before some.
TagsAccepted == \A p \in Param : Accepts(p)

\* "A VST host sees one parameter set; avendish's polyphony is just internal
\* per-channel replication" (vst3/component.hpp:339-341).  Refuted.
OneParameterSet == Agree(effect)

\* "Safe no-op handlers for worker.request / request_channels members: an empty
\* std::function call terminates under -fno-exceptions" (vst3/component.hpp:111-112).
\* Refuted.
CallbacksWired == AllWired(effect)

\* "the channels of inputs and outputs will be set to the same count, which comes
\* from the host" (book/src/writing_processors/audio.polyphonic.md:13): what
\* prepare() is told is the arrangement.  Refuted when BusPorts is TRUE.
PreparedForArrangement == active => told = asked
=============================================================================
