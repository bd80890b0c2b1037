------------------------------ MODULE OssiaNode ------------------------------
(***************************************************************************)
(* A processor as a node of an ossia graph: safe_node_base                 *)
(* (binding/ossia/node.hpp) and the three nodes that differ in how they    *)
(* find their channels:                                                    *)
(*   "mono"    one instance per channel          (mono_audio_node.hpp)     *)
(*   "bus"     asks the channel manager          (poly_audio_node.hpp)     *)
(*   "native"  gives the ports what the graph has (ossia_audio_node.hpp)   *)
(*                                                                         *)
(* The graph's executor calls run() once per tick, and between ticks the   *)
(* commands the user interface posted to it.  The interface drains the     *)
(* queue of reports whenever it likes.  Within a tick nothing else touches *)
(* the node, so a tick is one step.                                        *)
(***************************************************************************)
EXTENDS EffectContainer, ChannelManager, FiniteSets

CONSTANTS Smoothed,    \* the controls that are smoothed
          Asker,       \* the control whose value a processor asks as channels
          Shapes,      \* processors: the node, the busses, when it asks
          Counts,      \* channel counts the graph delivers
          Lengths,     \* lengths of ticks, in frames
          BufferSize,  \* the buffer size the node is made with
          MaxEdits     \* bound on control changes

ASSUME OssiaAssumption ==
  /\ Smoothed \subseteq Param /\ Asker \in Param \ Smoothed
  /\ Value \subseteq Nat /\ \A v \in Value : 0..v \subseteq Value
  /\ Counts \subseteq Nat \ {0} /\ Lengths \subseteq Nat
  /\ BufferSize \in Nat \ {0} /\ MaxEdits \in Nat

\* Only a variable output can be asked other channels of, and a monophonic
\* processor has one bus each way (mono_audio_node.hpp).
ASSUME ShapesAssumption ==
  \A s \in Shapes :
    /\ s.node \in {"mono", "bus", "native"} /\ WellFormed(s.in, s.out)
    /\ s.node = "mono" => Len(s.in) = 1 /\ Len(s.out) = 1 /\ s.asks = "never"
    /\ s.asks \in {"never", "run", "prepare"}
    /\ s.asks # "never" => s.out[1].type = "variable"

VARIABLES shape,        \* the processor: never changes
          effect, manager,
          inlet, outlet,        \* channels of the graph's ports
          outlet_frames,        \* frames the channels of the outlets have
          buffer_size, audio_channels_changed,
          smoothed_inputs,      \* current and target value, one for all instances
          inputs_set,           \* the controls changed since the last report
          ins_queue,            \* reports on their way to the interface
          shown,                \* what the interface shows
          running,              \* the graph has configured the node
          edits,                \* bound
          delivered,    \* history: the channels the graph brought last
          parity,       \* history: of the number of ticks
          reconfigured  \* history: the last step was a tick that prepared

nodeVars == <<shape, effect, manager, inlet, outlet, outlet_frames, buffer_size,
              audio_channels_changed, smoothed_inputs, inputs_set, running>>
vars == <<nodeVars, ins_queue, shown, edits, delivered, parity, reconfigured>>

Plain == Param \ Smoothed
\* The graph runs the node, and the outlets have been given their channels.
SettledPorts == running /\ outlet_frames > 0

\* A setup of the processor, as the number an instance remembers.
SetupId(ins, outs, size) == 100 * size + 10 * ins + outs + 1

-----------------------------------------------------------------------------
\* The constructor: two channels each way.
ConstructedManager(s) ==
  IF s.node = "mono" THEN SetMonoChannels(NewManager(<<>>, <<>>), 2)
  ELSE SetOutputChannels(SetInputChannels(NewManager(s.in, s.out), s.in, s.out, 1, 2),
                         s.out, 1, 2)

\* init_channels() of the container this kind of processor has.
Instances(s, container, m) ==
  IF s.node = "mono" THEN InitChannels(container, m.ins, m.outs) ELSE container

-----------------------------------------------------------------------------
\* scan_audio_input_channels(): the manager, the ports, whether it changed.

\* Mutant: the manager is not told of the channels.
ScanMonoForgets(m, counts) ==
  [manager |-> m, inlet |-> counts, outlet |-> counts, changed |-> counts[1] # m.ins]

ScanMono(m, counts) ==
  LET n == counts[1]
      set == [SetMonoChannels(m, n) EXCEPT !.ins = n, !.outs = n]
  IN IF n # m.ins
     THEN [manager |-> set, inlet |-> counts, outlet |-> counts, changed |-> TRUE]
     ELSE [manager |-> m, inlet |-> counts, outlet |-> counts, changed |-> FALSE]

\* audio_inlet_scan: the inlets one after the other.
SetInputs(s, m, counts) ==
  LET after[k \in 0..Len(counts)] ==
        IF k = 0 THEN m
        ELSE SetInputChannels(after[k - 1], s.in, s.out, k, counts[k])
  IN after[Len(counts)]

\* Mutant: the counts are compared with what the manager keeps, too late.
ScanBusAfter(s, m, counts) ==
  LET set == SetInputs(s, m, counts)
  IN [manager |-> set, inlet |-> set.in, outlet |-> set.out,
      changed |-> set.in # counts /\ \E k \in DOMAIN s.in : s.in[k].type # "fixed"]

ScanBus(s, m, counts) ==
  LET set == SetInputs(s, m, counts)
      ok == set.in = counts \/ \A k \in DOMAIN s.in : s.in[k].type = "fixed"
  IN [manager |-> set, inlet |-> set.in, outlet |-> set.out,
      changed |-> ~ok \/ set.ins # m.ins \/ set.outs # m.outs]

\* The native node has no scan: the ports get the graph's counts, or the graph
\* the ports'.  compute_output_channels() finds those of the outputs.
OutputChannels(s, m) ==
  [k \in DOMAIN s.out |->
     CASE s.out[k].type \in {"fixed", "variable"} -> m.portOut[k]
       [] s.out[k].type = "mimic" -> m.portIn[s.out[k].n]
       [] s.out[k].type = "dynamic" -> IF k = 1 THEN m.portIn[1] ELSE 0]

FollowPorts(s, m, counts) ==
  LET set == [m EXCEPT !.portIn = [k \in DOMAIN s.in |->
                 IF s.in[k].type = "fixed" THEN s.in[k].n ELSE counts[k]]]
  IN [set EXCEPT !.portOut = OutputChannels(s, set)]

ScanNative(s, m, counts) ==
  LET set == FollowPorts(s, m, counts)
  IN [manager |-> set, inlet |-> set.portIn, outlet |-> set.portOut, changed |-> FALSE]

Scan(s, m, counts) ==
  CASE s.node = "mono"   -> ScanMono(m, counts)
    [] s.node = "bus"    -> ScanBus(s, m, counts)
    [] s.node = "native" -> ScanNative(s, m, counts)

-----------------------------------------------------------------------------
\* finish_init() wires the callbacks, gives the controls their default, and scans
\* the ports for the first time, whatever the graph has made of them.
Init ==
  /\ shape \in Shapes
  /\ \E counts \in [DOMAIN shape.in -> Counts] :
       LET made == ConstructedManager(shape)
           scan == Scan(shape, made, counts)
           one == IF shape.node = "mono" THEN <<>> ELSE <<NewInstance>>
       IN /\ delivered = counts
          /\ effect = InitControls(WireFallbacks(Instances(shape, one, made)))
          /\ manager = IF shape.node = "native" THEN made ELSE scan.manager
          /\ inlet = IF shape.node = "native" THEN counts ELSE scan.inlet
          /\ outlet = IF shape.node = "native" THEN [k \in DOMAIN shape.out |-> 0]
                      ELSE scan.outlet
  /\ buffer_size = BufferSize
  /\ outlet_frames = IF shape.node = "native" THEN 0 ELSE BufferSize
  /\ audio_channels_changed = FALSE
  /\ smoothed_inputs = [p \in Smoothed |-> [current |-> 0, target |-> 0]]
  /\ inputs_set = {}
  /\ ins_queue = <<>>
  /\ shown = effect[1].inputs
  /\ running = FALSE
  /\ edits = 0
  /\ parity = 0
  /\ reconfigured = FALSE

-----------------------------------------------------------------------------
\* request_channels() of a variable output, on the object and the manager.
RequestChannels(s, m, n) ==
  SetOutputChannels([m EXCEPT !.portOut[1] = n], s.out, 1, n)

\* audio_configuration_changed(): an instance per channel, each prepared with
\* the totals; the processor may ask for channels while it is prepared.
Configure(s, container, m, size) ==
  [effect  |-> Prepare(Instances(s, container, m), SetupId(m.ins, m.outs, size)),
   manager |-> IF s.asks = "prepare"
               THEN RequestChannels(s, m, container[1].inputs[Asker]) ELSE m,
   asked   |-> s.asks = "prepare"]

\* What process_before_run does with the value of a port: a smoothed control
\* gets a new target, any other its value, in every instance.
Targets(storage, new) ==
  [p \in Smoothed |->
     IF p \in DOMAIN new THEN [storage[p] EXCEPT !.target = new[p]] ELSE storage[p]]

\* The smoothing goes from c a ratio of the way to t, each time.  Here it goes by
\* one, so that it arrives.
Toward(c, t, steps) ==
  IF c <= t THEN (IF c + steps >= t THEN t ELSE c + steps)
            ELSE (IF c <= t + steps THEN t ELSE c - steps)

\* smooth_all(): each instance takes the next value of the one storage.
SmoothedEffect(container, storage) ==
  [i \in DOMAIN container |-> [container[i] EXCEPT !.inputs =
     [p \in Param |-> IF p \in Smoothed
                      THEN Toward(storage[p].current, storage[p].target, i)
                      ELSE container[i].inputs[p]]]]

\* Mutant: the storage stays where it is.
SmoothedStorageFrozen(container, storage) == storage

SmoothedStorage(container, storage) ==
  [p \in Smoothed |-> [storage[p] EXCEPT !.current =
     Toward(storage[p].current, storage[p].target, Len(container))]]

\* The processor compares its output with the control, and asks when it runs.
AsksInRun(s, m, container) ==
  s.asks # "never" /\ m.portOut[1] # container[1].inputs[Asker]

-----------------------------------------------------------------------------
\* Mutant: only the controls that changed are reported.
ReportChanged(changed, container) ==
  [p \in Param |-> IF p \in changed THEN container[1].inputs[p] ELSE RangeInit]

\* make_controls_in_tuple(): all the controls of the first instance.
Report(changed, container) == container[1].inputs

\* run(): prepare_run(), the processor, finish_run().
Tick(counts, length, new) ==
  /\ running
  /\ LET scan == Scan(shape, manager, counts)
         size == IF length > buffer_size THEN length ELSE buffer_size
         changed == scan.changed \/ length > buffer_size \/ audio_channels_changed
         conf == IF changed THEN Configure(shape, effect, scan.manager, size)
                 ELSE [effect |-> effect, manager |-> scan.manager, asked |-> FALSE]
         after == IF shape.node = "native"
                  THEN FollowPorts(shape, conf.manager, counts) ELSE conf.manager
         plain == [p \in DOMAIN new \ Smoothed |-> new[p]]
         storage == Targets(smoothed_inputs, new)
         ran == SmoothedEffect(SetControls(conf.effect, plain), storage)
         asks == AsksInRun(shape, after, ran)
         reports == inputs_set \cup DOMAIN new
     IN /\ effect' = ran
        /\ manager' = IF asks THEN RequestChannels(shape, after, ran[1].inputs[Asker])
                      ELSE after
        /\ inlet' = scan.inlet
        /\ outlet' = IF shape.node = "native" THEN after.portOut ELSE scan.outlet
        /\ buffer_size' = size
        /\ audio_channels_changed' = (conf.asked \/ asks)
        /\ smoothed_inputs' = SmoothedStorage(ran, storage)
        /\ inputs_set' = {}
        /\ ins_queue' = IF reports = {} THEN ins_queue
                        ELSE Append(ins_queue, Report(reports, ran))
        /\ edits' = edits + Cardinality(DOMAIN new)
        /\ reconfigured' = changed
        /\ delivered' = counts
        /\ parity' = 1 - parity
        /\ outlet_frames' = IF shape.node = "native" THEN size ELSE buffer_size
  /\ UNCHANGED <<shape, shown, running>>

\* The graph configures the node before the first tick.
ConfigurationChanged ==
  /\ ~running
  /\ LET conf == Configure(shape, effect, manager, buffer_size)
     IN /\ effect' = conf.effect
        /\ manager' = conf.manager
        /\ audio_channels_changed' = conf.asked
  /\ running' = TRUE
  /\ UNCHANGED <<shape, inlet, outlet, outlet_frames, buffer_size, smoothed_inputs,
                 inputs_set, ins_queue, shown, edits, delivered, parity, reconfigured>>

\* control_updated_from_ui(), a command of the interface between two ticks.
ControlUpdatedFromUi(p, v) ==
  /\ edits < MaxEdits
  /\ edits' = edits + 1
  /\ effect' = SetControls(effect, [q \in {p} |-> v])
  /\ inputs_set' = inputs_set \cup {p}
  /\ reconfigured' = FALSE
  /\ UNCHANGED <<shape, manager, inlet, outlet, outlet_frames, buffer_size,
                 audio_channels_changed, smoothed_inputs, running, ins_queue, shown,
                 delivered, parity>>

\* The interface takes all the reports, and shows the last one.
Show ==
  /\ ins_queue # <<>>
  /\ shown' = ins_queue[Len(ins_queue)]
  /\ ins_queue' = <<>>
  /\ reconfigured' = FALSE
  /\ UNCHANGED <<nodeVars, edits, delivered, parity>>

-----------------------------------------------------------------------------
\* The controls the graph gives values to in a tick.
PortValues == UNION {[D -> Value] : D \in {D \in SUBSET Param :
                                             Cardinality(D) + edits <= MaxEdits}}


Next ==
  \/ ConfigurationChanged
  \/ \E counts \in [DOMAIN inlet -> Counts], length \in Lengths, new \in PortValues :
       Tick(counts, length, new)
  \/ \E p \in Param, v \in Value : ControlUpdatedFromUi(p, v)
  \/ Show

Spec == Init /\ [][Next]_vars

\* The graph goes on ticking once it has configured the node, and the interface
\* has a timer.  A tick is the step that changes its parity.
Ticks == running /\ parity' = 1 - parity

FairSpec ==
  Spec /\ WF_vars(ConfigurationChanged) /\ WF_parity(Ticks) /\ WF_vars(Show)

-----------------------------------------------------------------------------
\* Every instance was prepared for the channels and the length of a buffer the
\* node has now, also those that were added by this tick; unless the processor
\* has just asked for other ones, which the next tick prepares it for
\* (node.hpp prepare_run(), audio_configuration_changed()).
PreparedOrPending ==
  running /\ ~audio_channels_changed =>
    AllPrepared(effect, SetupId(manager.ins, manager.outs, buffer_size))

Mimics(k) == shape.out[k].type = "mimic"
Mimicked(k) == shape.in[shape.out[k].n].type
MimicsFixed(k) == Mimics(k) /\ Mimicked(k) = "fixed"
Follows(k) == Mimics(k) => outlet[k] = inlet[shape.out[k].n]

\* When no request is pending, the graph's ports, the processor's ports and the
\* manager agree on every count, and the totals are their sums: a monophonic
\* node has one instance per channel it reads and writes.  An output that mimics
\* an input has its count; in a node that asks the manager, unless it is the first
\* output or the input is fixed.  The constructor gives a first output that mimics
\* an input the count of that one, and tells the manager only if it is two: if no
\* input is dynamic, they may disagree until an input takes a count.
PortsAgree ==
  SettledPorts /\ ~audio_channels_changed =>
    CASE shape.node = "mono" ->
           /\ inlet = <<manager.ins>> /\ outlet = <<manager.outs>>
           /\ Len(effect) = manager.ins /\ manager.ins = manager.outs
      [] shape.node = "bus" ->
           /\ inlet = manager.in /\ manager.in = manager.portIn
           /\ outlet = manager.out
           /\ \A k \in DOMAIN outlet :
                manager.out[k] = manager.portOut[k] \/ (k = 1 /\ Mimics(1) /\ Mimicked(1) # "dynamic")
           /\ TotalsAreSums(manager)
           /\ \A k \in 2..Len(outlet) : Follows(k) \/ MimicsFixed(k)
      [] shape.node = "native" ->
           /\ inlet = manager.portIn /\ outlet = manager.portOut
           /\ \A k \in DOMAIN outlet : Follows(k)

\* "We only care about the inputs of the first one, since they're all the same"
\* (node.hpp:563): they are, for controls that are not smoothed; and with no
\* report on its way the interface shows their values.
ReportsAgree ==
  /\ \A i, j \in DOMAIN effect, p \in Plain : effect[i].inputs[p] = effect[j].inputs[p]
  /\ inputs_set = {} /\ ins_queue = <<>> =>
       \A p \in Plain : shown[p] = effect[1].inputs[p]

\* A tick with the channels of the last one does not configure the node again:
\* its buffers are not reallocated and the processor is not reset.  Not so when
\* the processor asks for channels in prepare(), and when some inputs, but not all,
\* are fixed, or one is variable, and the graph gives such an input another count
\* (poly_audio_node.hpp:77).
Mixed(s) ==
  /\ \E k \in DOMAIN s.in : s.in[k].type # "fixed"
  /\ \E k \in DOMAIN s.in : s.in[k].type # "dynamic"

QuietTick ==
  [][/\ SettledPorts /\ delivered' = delivered /\ buffer_size' = buffer_size
     /\ ~audio_channels_changed /\ ~Mixed(shape)
     => ~reconfigured']_vars

\* When the controls have been left alone every instance reaches the target of
\* each smoothed control, and the interface ends up with the plain ones.
EventuallySettled ==
  <>[](/\ \A i \in DOMAIN effect, p \in Smoothed :
            effect[i].inputs[p] = smoothed_inputs[p].target
       /\ \A p \in Plain : shown[p] = effect[1].inputs[p])

-----------------------------------------------------------------------------
(* What comments, pages of the book and examples say, and TLC refutes        *)

\* "Ensure that we have enough output space" (poly_audio_node.hpp:84): the outlets
\* have as many frames as a tick reads and writes.  The scan resizes them before
\* prepare_run() takes over the new size.  Refuted.
EnoughFrames == SettledPorts => outlet_frames >= buffer_size

\* "Taking the member function pointer to an input will allow Avendish to match the
\* channel count at run-time" (channel_mimicking.md:48).  Refuted for the first
\* output of a node that asks the manager, which gets the count of the input that
\* was set last (audio_channel_manager.hpp:337), and for one that mimics a fixed
\* bus: a count the bus does not take (273) updates no output.
MimicsFollow ==
  SettledPorts /\ ~audio_channels_changed => \A k \in DOMAIN outlet : Follows(k)

\* "We only care about the inputs of the first one, since they're all the same"
\* (node.hpp:563).  Refuted for smoothed controls: the instances share one storage,
\* and each moves it on.
AllTheSame == Agree(effect)

\* "Initialize the controls with their default values" (node.hpp:368): a control
\* nobody has changed runs with its init.  Refuted for smoothed controls, whose
\* storage begins at 0.
DefaultKept ==
  edits = 0 => \A i \in DOMAIN effect, p \in Param : effect[i].inputs[p] = RangeInit

\* "the channels of inputs and outputs will be set to the same count, which comes
\* from the host" (audio.polyphonic.md:13): the processor was prepared with the
\* channels of the inlets.  Refuted for the native node, which never tells the
\* manager.
PreparedForInlets ==
  SettledPorts /\ ~audio_channels_changed => manager.ins = Total(inlet)

\* prepare() is where CustomChannels.hpp:40 asks for its channels, once: requests
\* end when the control is left alone.  Refuted for that processor: a request makes
\* the next tick prepare it again, and it asks again.
RequestsEnd == <>[]~audio_channels_changed

\* "Initialize the callbacks" (node.hpp:350): no instance has an empty one.
\* Refuted for instances that are added later.
CallbacksWired == AllWired(effect)
=============================================================================
