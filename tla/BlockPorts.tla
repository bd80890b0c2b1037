----------------------------- MODULE BlockPorts ------------------------------
(***************************************************************************)
(* What is kept for a processor between two blocks: the messages of a MIDI *)
(* input port (avnd::midi_storage, include/avnd/introspection/midi.hpp)    *)
(* and the timed values of a sample-accurate control                       *)
(* (avnd::control_storage, include/avnd/wrappers/controls_storage.hpp).    *)
(* Each binding reserves the storage, fills the ports before a block,      *)
(* lets the processor read them and clears them, at other moments and in   *)
(* another order: CLAP and VST 3 get the events with the block, VST 2 gets *)
(* lists of events between two blocks and may be bypassed, and the page of *)
(* a WASM plug-in pushes events one by one and opens the block before.     *)
(*                                                                         *)
(* The calls of one plug-in come one after the other; a block is split in  *)
(* its start, where it reads its ports, and its end.  An event or a value  *)
(* is its number in the order the host gave them.                          *)
(***************************************************************************)
EXTENDS Naturals, Sequences, SequencesExt

CONSTANTS Shapes,    \* the processors and bindings that are explored
          Sizes,     \* the block sizes of a host
          MaxEvents  \* bound on the events and values a host gives

Hosts == {"clap", "vst3", "vst2", "wasm"}

\* The MIDI input of a processor: an array and its size, a container, or none;
\* its sample-accurate control: an array with a slot per frame, a span of
\* timed values, a map from frames; "none": its control has one value only.
Shape == [host : Hosts, midi : {"raw", "dynamic", "none"},
          control : {"linear", "span", "dynamic", "none"}]

ASSUME BlockPortsAssumption ==
  /\ Shapes \subseteq Shape
  /\ Sizes \subseteq Nat \ {0} /\ Sizes # {}
  /\ MaxEvents \in Nat

Event == 1..MaxEvents
Frame == 0..Max(Sizes)
Timed == [frame : Frame, value : Event]

VARIABLES shape,
          buffer_size,
          storage,        \* messages that inputs_storage has room for
          midi_messages,  \* port.midi_messages[0] .. [port.size - 1]
          slots,          \* the values of an array or a map, by frame
          timed,          \* the vector of a span, in control_storage
          span,           \* how many values the span of the port covers
          value,          \* the value member of the control
          m_block_open,
          bypass,
          running,        \* the processor is in its operator()
          given,          \* number of the last event or value
          since,          \* history: the events the next block is meant to play
          scheduled,      \* history: the values scheduled in the open block
          lapse,          \* history: the storage was reserved, or events left over
          played          \* history: what the blocks read, one after the other

controls == <<slots, timed, span>>
ports == <<storage, midi_messages, controls>>
history == <<since, scheduled, lapse, played>>
vars == <<shape, buffer_size, ports, value, m_block_open, bypass, running, given, history>>

host == shape.host
Pending == since # <<>> \/ scheduled # <<>>

TypeOK ==
  /\ shape \in Shapes
  /\ buffer_size \in Sizes /\ storage \in Nat
  /\ midi_messages \in Seq(Event)
  /\ slots \subseteq Timed /\ timed \in Seq(Timed)
  /\ span \in Nat
  /\ value \in 0..MaxEvents
  /\ m_block_open \in BOOLEAN /\ bypass \in BOOLEAN /\ running \in BOOLEAN
  /\ given \in 0..MaxEvents

\* A binding that is configured for its first block.
Init ==
  /\ shape \in Shapes
  /\ buffer_size \in Sizes
  /\ storage = IF shape.midi = "raw" THEN buffer_size ELSE 0
  /\ midi_messages = <<>>
  /\ slots = {} /\ timed = <<>> /\ span = 0
  /\ value = 0
  /\ m_block_open = FALSE /\ bypass = FALSE /\ running = FALSE
  /\ given = 0
  /\ since = <<>> /\ scheduled = <<>> /\ lapse = FALSE /\ played = <<>>

-----------------------------------------------------------------------------
\* midi_storage::reserve_space(): the vector of a raw port is resized and its
\* messages forgotten; a container is emptied.
ReserveMidi(n) ==
  /\ storage' = IF shape.midi = "raw" THEN n ELSE storage
  /\ midi_messages' = <<>>

\* control_storage::reserve_space(): a slot per frame, those that exist kept;
\* an empty span, its vector kept; an empty map.
ReserveControls(n) ==
  /\ slots' = IF shape.control = "linear" THEN {v \in slots : v.frame < n} ELSE {}
  /\ span' = 0
  /\ UNCHANGED timed

\* clear_inputs() of both: the span still covers what its vector had.
ClearInputs == midi_messages' = <<>> /\ slots' = {} /\ timed' = <<>>

\* What a processor that runs reads in its span, which may cover more than its
\* vector has.
Stale == [frame |-> 0, value |-> 0]
Seen == [i \in 1..span |-> IF i \in DOMAIN timed THEN timed[i] ELSE Stale]

\* add_message(), push_midi_input(): at the index that is the count, or at the end.
AddMessages(port, events) == port \o events

NewEvents(n) == [i \in 1..n |-> given + i]

\* What a host of the first three APIs hands over: at most as many events as the bound.
Lists == {n \in 0..MaxEvents : given + n <= MaxEvents /\ (shape.midi = "none" => n = 0)}

\* The processor reads its ports.
Run(messages) ==
  /\ running' = TRUE
  /\ played' = played \o messages

-----------------------------------------------------------------------------
(* CLAP: start(), process().  VST 3: setupProcessing(), process().         *)

\* activate(): the storage of a plug-in that has MIDI inputs.
Activate(n) ==
  /\ host \in {"clap", "vst3"} /\ ~running
  /\ buffer_size' = n
  /\ IF shape.midi = "none" THEN UNCHANGED <<storage, midi_messages>> ELSE ReserveMidi(n)
  /\ ReserveControls(n)
  /\ UNCHANGED <<shape, value, m_block_open, bypass, running, given, history>>

\* add_message() of VST 3 does nothing for a raw port.
Accepts == ~(host = "vst3" /\ shape.midi = "raw")

\* The events of a block come with it.
ProcessEvents(n) ==
  LET events == NewEvents(n)
      read == IF Accepts THEN AddMessages(midi_messages, events) ELSE midi_messages
  IN /\ host \in {"clap", "vst3"} /\ ~running
     /\ n \in Lists
     /\ given' = given + n
     /\ since' = events
     /\ midi_messages' = read
     /\ Run(read)
     /\ UNCHANGED <<shape, buffer_size, storage, controls, value,
                    m_block_open, bypass, scheduled, lapse>>

\* VST 3: a host that has no input or no output bus for this block; the events
\* are added, the processor does not run, and the ports are cleared.
ProcessWithoutAudio(n) ==
  /\ host = "vst3" /\ ~running
  /\ n \in Lists
  /\ given' = given + n
  /\ ClearInputs
  /\ UNCHANGED <<shape, buffer_size, storage, span, value, m_block_open, bypass, running, history>>

-----------------------------------------------------------------------------
(* VST 2                                                                   *)

SetBlockSize(n) ==
  /\ host = "vst2" /\ ~running
  /\ buffer_size' = n
  /\ UNCHANGED <<shape, ports, value, m_block_open, bypass, running, given, history>>

\* start(), of MainsChanged.
Start ==
  /\ host = "vst2" /\ ~running
  /\ IF shape.midi = "none" THEN UNCHANGED <<storage, midi_messages>>
     ELSE ReserveMidi(buffer_size)
  /\ ReserveControls(buffer_size)
  /\ lapse' = (lapse \/ Pending)
  /\ UNCHANGED <<shape, buffer_size, value, m_block_open, bypass, running, given,
                 since, scheduled, played>>

\* event_input(): reserve_space() for as many events as this list has, then the events.
EventInput(n) ==
  /\ host = "vst2" /\ ~running /\ shape.midi # "none"
  /\ n \in Lists
  /\ given' = given + n
  /\ storage' = IF shape.midi = "raw" THEN n ELSE storage
  /\ midi_messages' = AddMessages(<<>>, NewEvents(n))
  /\ since' = since \o NewEvents(n)
  /\ lapse' = (lapse \/ since # <<>>)
  /\ UNCHANGED <<shape, buffer_size, controls, value, m_block_open, bypass, running,
                 scheduled, played>>

SetBypass(b) ==
  /\ host = "vst2" /\ ~running
  /\ bypass' = b
  /\ UNCHANGED <<shape, buffer_size, ports, value, m_block_open, running, given, history>>

\* process() of a bypassed plug-in returns first: the events of this block stay.
ProcessBypassed ==
  /\ host = "vst2" /\ ~running /\ bypass
  /\ since' = <<>>
  /\ lapse' = (lapse \/ since # <<>>)
  /\ UNCHANGED <<shape, buffer_size, ports, value, m_block_open, bypass, running, given,
                 scheduled, played>>

ProcessReplacing ==
  /\ host = "vst2" /\ ~running /\ ~bypass
  /\ Run(midi_messages)
  /\ UNCHANGED <<shape, buffer_size, ports, value, m_block_open, bypass, given,
                 since, scheduled, lapse>>

-----------------------------------------------------------------------------
(* WASM: plugin_module<T>                                                  *)

\* prepare(), which neither opens nor closes a block.
Prepare(n) ==
  /\ host = "wasm" /\ ~running
  /\ buffer_size' = n
  /\ ReserveMidi(n) /\ ReserveControls(n)
  /\ lapse' = (lapse \/ Pending)
  /\ UNCHANGED <<shape, value, m_block_open, bypass, running, given, since, scheduled, played>>

\* Mutant: a call opens a block whether or not one is open.
EmptyMidi == <<>>

\* Mutant: the span is left as it is.
SpanAsItWas == span

\* The ports when a call has opened the block it needs: begin_block() clears
\* them and has the span cover an empty buffer.
OpenMidi == IF m_block_open THEN midi_messages ELSE <<>>
OpenSlots == IF m_block_open THEN slots ELSE {}
OpenTimed == IF m_block_open THEN timed ELSE <<>>
OpenSpan == IF m_block_open THEN span ELSE 0

BeginBlock ==
  /\ host = "wasm" /\ ~running
  /\ midi_messages' = <<>> /\ slots' = {} /\ timed' = <<>> /\ span' = 0
  /\ m_block_open' = TRUE
  /\ since' = <<>> /\ scheduled' = <<>> /\ lapse' = FALSE
  /\ UNCHANGED <<shape, buffer_size, storage, value, bypass, running, given, played>>

PushMidi ==
  /\ host = "wasm" /\ ~running /\ shape.midi # "none" /\ given < MaxEvents
  /\ given' = given + 1
  /\ midi_messages' = AddMessages(OpenMidi, <<given + 1>>)
  /\ slots' = OpenSlots /\ timed' = OpenTimed /\ span' = OpenSpan
  /\ m_block_open' = TRUE
  /\ since' = Append(since, given + 1)
  /\ UNCHANGED <<shape, buffer_size, storage, value, bypass, running,
                 scheduled, lapse, played>>

\* The slot of an array or the entry of a map is that of the frame.
Put(values, v) == {w \in values : w.frame # v.frame} \cup {v}

\* schedule_control(), for an offset in the block: the value of its frame, or one
\* more at the end of the vector, which the span then covers.
ScheduleControl(frame) ==
  LET v == [frame |-> frame, value |-> given + 1]
      accepted == shape.control # "none" /\ frame < buffer_size
      spanned == shape.control = "span"
      values == IF accepted /\ spanned THEN Append(OpenTimed, v) ELSE OpenTimed
  IN /\ host = "wasm" /\ ~running /\ given < MaxEvents
     /\ given' = given + 1
     /\ midi_messages' = OpenMidi
     /\ slots' = IF accepted /\ ~spanned THEN Put(OpenSlots, v) ELSE OpenSlots
     /\ timed' = values
     /\ span' = IF accepted /\ spanned THEN Len(values) ELSE OpenSpan
     /\ m_block_open' = TRUE
     /\ value' = IF accepted \/ shape.control = "none" THEN given + 1 ELSE value
     /\ scheduled' = IF accepted THEN Append(scheduled, v) ELSE scheduled
     /\ UNCHANGED <<shape, buffer_size, storage, bypass, running, since, lapse, played>>

\* Mutant: the block stays open.
ProcessOpen ==
  /\ host = "wasm" /\ ~running
  /\ midi_messages' = OpenMidi
  /\ slots' = OpenSlots /\ timed' = OpenTimed /\ span' = OpenSpan
  /\ Run(OpenMidi)
  /\ UNCHANGED <<shape, buffer_size, storage, value, m_block_open, bypass, given,
                 since, scheduled, lapse>>

\* process(): opens a block if none is open, and closes it.
Process ==
  /\ host = "wasm" /\ ~running
  /\ midi_messages' = OpenMidi
  /\ slots' = OpenSlots /\ timed' = OpenTimed /\ span' = OpenSpan
  /\ m_block_open' = FALSE
  /\ Run(OpenMidi)
  /\ UNCHANGED <<shape, buffer_size, storage, value, bypass, given, since, scheduled, lapse>>

-----------------------------------------------------------------------------
\* The end of a block: the three plug-in APIs clear the inputs.
EndBlock ==
  /\ running
  /\ running' = FALSE
  /\ IF host = "wasm" THEN UNCHANGED <<midi_messages, slots, timed>> ELSE ClearInputs
  /\ since' = <<>> /\ scheduled' = <<>> /\ lapse' = FALSE
  /\ UNCHANGED <<shape, buffer_size, storage, span, value, m_block_open, bypass, given, played>>

Next ==
  \/ \E n \in Sizes : Activate(n) \/ SetBlockSize(n) \/ Prepare(n)
  \/ \E n \in 0..MaxEvents : ProcessEvents(n) \/ ProcessWithoutAudio(n) \/ EventInput(n)
  \/ Start \/ \E b \in BOOLEAN : SetBypass(b)
  \/ ProcessBypassed \/ ProcessReplacing
  \/ BeginBlock \/ PushMidi \/ \E frame \in Frame : ScheduleControl(frame)
  \/ Process
  \/ EndBlock

Spec == Init /\ [][Next]_vars

-----------------------------------------------------------------------------
\* No event is played twice or after a later one, whatever is prepared, bypassed
\* or left over in between (clear_inputs(), m_block_open).
PlayedOnce == \A i, j \in DOMAIN played : i < j => played[i] < played[j]

\* "allocate a large enough buffer to store MIDI messages" (book, midi.md:41).
\* Refuted: a block of fewer frames than events.  What the program does after
\* add_message() has left the storage is not modelled.
LargeEnough == shape.midi = "raw" => Len(midi_messages) <= storage

\* A block plays all the events its host gave since the last one, and only these,
\* unless the storage was reserved or a block was bypassed in between
\* (process() of each binding, pushMidi(), scheduleControl()).
OwnEvents == running /\ ~lapse /\ Accepts /\ LargeEnough => midi_messages = since

\* Those of the values that no later one of the same frame replaces.
LastOfFrame(values) ==
  {values[i] : i \in {i \in DOMAIN values :
      \A j \in DOMAIN values : j > i => values[j].frame # values[i].frame}}

\* The control of a WASM block holds the values scheduled in it: for a span all
\* of them, in order; with a slot per frame the last one of each frame.
OwnValues ==
  running /\ host = "wasm" /\ ~lapse =>
    IF shape.control = "span" THEN Seen = scheduled ELSE slots = LastOfFrame(scheduled)

\* "handled without loosing messages" (book, midi.md:60): every event given is
\* played or waits in its port.  Refuted: a second list, reserve_space().
NothingLost ==
  ~running /\ shape.midi = "dynamic" /\ shape.control = "none" =>
    ToSet(played) \cup ToSet(midi_messages) = 1..given

\* "MIDI ports" of either kind get the events (book, midi.md:5-9).  Refuted: the
\* raw ports of VST 3.
EitherPort == running => (since # <<>> => midi_messages # <<>>)

\* "`value` will always carry the running value at the beginning of the tick"
\* (book, sample_accurate.md:24).  Refuted: it is the last value scheduled.
ValueAtStart == running /\ scheduled # <<>> => value < scheduled[1].value
=============================================================================
