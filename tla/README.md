# TLA+ models of Avendish

Avendish (celtera/avendish) turns a plain C++ class into plug-ins and objects for
many hosts. Most of it is compile-time reflection. The part that *runs*, and that
is hard to test, is the glue between a host and the object: threads, lock-free
buffers, sockets, channel negotiation, copies of control values. That glue is what
is modelled here. Line numbers are those of the repository at this commit; paths
without a prefix are under `include/avnd/`.

Contents: [Inventory](#inventory) · [Modules](#modules) · [Runs](#runs) ·
[Fairness](#fairness) · [Proofs](#proofs) · [Disagreements](#disagreements) ·
[Not modelled](#not-modelled) · [Plan](#plan)

## Inventory

| Component | State it keeps | Operations | Talks to |
|---|---|---|---|
| Triple buffer (`examples/Advanced/NetStream/TripleBuffer.hpp`) | three slots, `mid_state_` (index and dirty bit), `write_idx_`, `read_idx_` | `produce`, `publish`, `consume`, `read_span` | shared memory between two threads |
| NetStream sender (`NetStreamSender.hpp`) | toggle, three atomic flags, socket, `std::thread`, triple buffer | `operator()`, `Data`, `start_connection`, `disconnect`, destructor, `sender_thread` | host thread and its own thread; socket to a receiver |
| NetStream receiver (`NetStreamReceiver.hpp`) | toggle, two atomic flags, listening and client socket, thread, triple buffer | `operator()`, `start_listening`, `stop_listening`, `receiver_thread` | the same on the other side |
| NetStream wire (`NetStreamProtocol.hpp`, `NetIO.hpp`) | bytes in flight, position in a packet on both sides | `send_scatter`, `send_linear`, `recv_all`, header check | TCP |
| WASM ring (`binding/wasm/ringbuffer.hpp`, `js/avnd-ringbuf.js`) | two free-running 32-bit indices, data area | `push`, `pop`, `clear`, `pushFloats`, `popFloats` | shared memory between two JavaScript/WASM threads |
| WASM page and worklet (`js/standalone.js.in`, `js/worklet.js.in`) | node, `paramValues`; `_proc`, `_ready`, `_pendingParams` | `start`, `stop`, `sendParam`, `sendMessage`, `_init`, `_onMessage` | message port, two ordered queues |
| Effect container (`wrappers/effect_container.hpp`, `controls.hpp`, `prepare.hpp`) | one instance of the class per channel | `init_channels`, `full_state` loops | called by every binding |
| CLAP plug-in (`binding/clap/audio_effect.hpp`) | container, setup | constructor, `activate`, `deactivate`, `flush`, `process` | CLAP host |
| VST3 plug-in (`binding/vst3`) | component: container, channel counts; controller: mirror of the controls | `setBusArrangements`, `setupProcessing`, `setActive`, `process`, `setState`, `getState`; `setParamNormalized`, `setComponentState` | VST3 host, which moves data between the two |
| VST2 controls (`binding/vintage/atomic_controls.hpp`, `audio_effect.hpp`, `dispatch.hpp`) | one atomic per control, the instances | `setParameter`, `read`, `write`, `process`, `SetProgram` | audio thread and interface thread |
| MIDI and sample-accurate storage (`introspection/midi.hpp`, `wrappers/controls_storage.hpp`, `binding/wasm/midi.hpp`, `sample_accurate.hpp`) | messages and timed values of the ports, room for them, an open block | `reserve_space`, `add_message`, `scheduleControl`, `clear_inputs`, `begin_block`, `process`, bypass | CLAP, VST3, VST2 hosts and the WASM page |
| Audio channel manager (`wrappers/audio_channel_manager.hpp`) | counts per bus, totals | `set_input_channels`, `set_output_channels`, mimics | the ossia nodes |
| ossia node (`binding/ossia/node.hpp`, `*_audio_node.hpp`, `wrappers/smooth.hpp`) | instances, channel manager, buffer size, changed and smoothed controls, reports | `scan_audio_input_channels`, `prepare_run`, `run`, `control_updated_from_ui`, `request_channels` | graph, interface (two queues), processor (callback) |
| Web Audio Module (`binding/wasm/js/wam`) | node: value cache; processor: `_ready`, `_pending`, `_vec`; GUI: poll | `setParameterValues`, `_onAvndMessage`, `_loadWasm`, `destroy`, `_refresh` | message port in both directions |

Each component, what is hard about it and what makes it correct:

* **Triple buffer** – the exchange of `publish()` can fall between the load and the
  exchange of `consume()`. Correct: no slot in two roles, reads whole, the last
  value never lost, older values never back.
* **Sender** – the host starts, stops and destroys while the thread connects, sends,
  fails or throws. Correct: no assignment to a joinable thread, stops that end,
  a connected flag only with the thread's connected socket (or in the step before the thread
  clears it), ended threads reaped, connections torn down only when they ended or are unwanted.
* **Receiver** – as the sender, and a client may arrive in the middle of a stop.
* **Wire** – a write or a read can end at any byte, a connection at any moment.
  Correct: what is published is what was sent, whole, in order.
* **WASM ring** – indices that wrap around, bytes copied while the other side runs,
  a check that is made before the call that uses it. Correct: a bounded queue of
  bytes, and floats never split.
* **Page and worklet** – the module loads asynchronously; parameters and messages
  sent before, during and after; Stop in between. Correct: messages in order and
  once, values never older, agreement in the end.
* **Container and plug-ins** – the number of instances changes between setups.
  Correct: every channel has a prepared instance, all of them run with the same
  controls, and values survive.
* **VST2 controls** – atomics are copied one by one into several instances while
  another thread stores to them. Correct: a block runs with values of that block,
  and everything is current when the changes end.

* **MIDI and sample-accurate storage** – each API reserves, fills, reads and clears
  the same storage at other moments; lists follow each other, a plug-in is bypassed or
  prepared again with a block half given. Correct: a block plays what it was given,
  once and in order, and timed values belong to their block.
* **Channel manager and ossia node** – three kinds of node find their channels in
  three ways, within the tick that uses them, and the processor may ask for others
  while it runs. Correct: instances are prepared for what they run with, graph, ports
  and manager agree, an unchanged graph configures nothing, reports and smoothing settle.
* **Web Audio Module** – the load, writes of the host, the GUI and an initial state
  overlap, components of a vector arrive one by one. Correct: the last write wins,
  whether it waited for the load or not, and GUI, node and plug-in agree in the end.

`PROJECT.json` lists the hazards at their lines (`hazards`) with the properties
that cover them, and every component, also the ones that are not modelled.

## Modules

| Module | Models | Extends / instantiates |
|---|---|---|
| `Mailbox` | what a triple buffer promises: a place for one value | |
| `TripleBuffer` | `TripleBuffer.hpp` | INSTANCE `Mailbox` |
| `ByteQueue` | what the ring promises: a bounded queue of bytes, and pops that return what they take | |
| `RingBuffer` | `ringbuffer.hpp` and `avnd-ringbuf.js` | INSTANCE `ByteQueue` |
| `NetStreamSender` | `NetStreamSender.hpp`; the triple buffer is the `Mailbox` it implements | |
| `NetStreamSenderProofs` | theorems on the sending side | `NetStreamSender`, `TripleBuffer`, `TLAPS` |
| `NetStreamReceiver` | `NetStreamReceiver.hpp`, likewise | |
| `NetStreamWire` | `send_scatter`, `send_linear`, `recv_all`, headers | |
| `NetStreamReceiverProofs` | theorems on the receiving side | `NetStreamReceiver`, `NetStreamWire`, `SequenceTheorems`, `TLAPS` |
| `WasmWorklet` | `standalone.js.in` and `worklet.js.in` | |
| `EffectContainer` | operators on a sequence of instances: `InitChannels`, `InitControls`, `WireFallbacks`, `Prepare`, `SetControls`, `SetFirst` | |
| `EffectContainerProofs` | lemmas on these operators | `EffectContainer`, `TLAPS` |
| `ClapPlugin` | the CLAP plug-in | `EffectContainer` |
| `ClapPluginProofs` | theorems | `ClapPlugin`, `EffectContainerProofs` |
| `Vst3Component` | component, controller and the host between them | `EffectContainer` |
| `Vst3ComponentProofs` | theorems | `Vst3Component`, `EffectContainerProofs` |
| `VintageControls` | VST2 controls and programs | |
| `BlockPorts` | MIDI and timed values around a block, in CLAP, VST3, VST2 and WASM | |
| `BlockProofs` | theorems on what a block runs with | `BlockPorts`, `VintageControls`, `SequenceTheorems`, `TLAPS` |
| `ChannelManager` | operators on the record of a channel manager, two of its cases | |
| `OssiaNode` | the node, composed of container, channel manager, smoothing and two queues | `EffectContainer`, `ChannelManager` |
| `OssiaNodeProofs` | theorems | `OssiaNode`, `EffectContainerProofs`, `WellFoundedInduction` |
| `WamModule` | node, processor, message port and GUI of a Web Audio Module | |
| `WasmProofs` | theorems on ring, worklet and Web Audio Module | `RingBuffer`, `WasmWorklet`, `WamModule`, `SequenceTheorems`, `TLAPS` |

`MC*.tla` give constants their values, `MC*.cfg` are the runs. `map` in
`PROJECT.json` names the lines each definition stands for. A proof module may extend
several specifications; one of them then has plain names (`Init`, `Next`, `Spec`,
`TypeOK`) and the others have names of their own: `BufferSpec`, `RingSpec`, `WireSpec`,
`ControlsSpec`, `WamSpec`, and likewise for the rest. Definitions that a
comment calls a *mutant* are plausible bugs; no specification uses them. They are
there to be put in the place of the correct definition, which must break the
property `mutants` pairs them with.

How state and steps correspond to the code:

* **Granularity.** An atomic load, store or exchange, a call on a shared socket and,
  in the two buffers, each chunk or byte copied is a step. What a thread does to
  its own variables belongs to the step before. Memory order: every access that
  synchronises in the code is acquire, release or both, so interleaving of the
  steps is adequate. The relaxed loads in the ring are each side's own index. The
  atomics of the VST2 controls are independent of each other: each load may see
  any value stored until then, and the model loads the last one.
* **TripleBuffer.** A slot is a function from chunks to the version written there;
  a torn read shows up as two versions in one copy.
* **RingBuffer.** A byte is its position in the producer's stream. `framed` is
  chosen at the start: on one ring either the byte calls or the float calls are used.
  The indices are taken modulo `Wrap`, a multiple of the capacity and of the size of a
  float, as 2^32 is of every capacity that is a power of two and of 4.
* **NetStreamSender / Receiver.** `host` and `thread` are program counters of
  the two threads; `m_socket` abstracts a handle to none, open, up, shut. Every
  socket call has its failure; an exception is an allocation failure inside the
  `try` block. Port, address and status texts are left out.
* **NetStreamWire.** A byte is `<<packet, position>>`, so any confusion of headers
  and payloads is visible. A write puts any number of bytes that fits on the stream.
* **WasmWorklet.** One parameter and one kind of message; values and messages are
  numbers in the order of their edits. Each worklet has a state: absent, waiting,
  loading, draining, ready, failed. While it drains, each entry of `_pendingParams` is
  applied in a step of its own: the audio thread handles no other message then, but the page
  goes on posting meanwhile.
* **EffectContainer.** An instance is its control values, whether its callbacks are
  wired, and the setup it was prepared with. What is modelled is a monophonic
  processor whose `inputs` are a member (effect_container.hpp:438-552, two
  specialisations with the same code). The other containers of several instances
  (effect_container.hpp:238-422) have no controls, or share one copy of them in
  `inputs_storage`, so none of the properties about the controls of one instance
  against another's says anything of them.
* **ClapPlugin / Vst3Component.** The hosts are external. Assumed of a CLAP host:
  `process()` only between `activate()` and `deactivate()`, no two of these calls at
  once. Assumed of a VST3 host: it changes arrangement and setup only while the
  plug-in is inactive, makes a setup after an arrangement and before activation, and
  hands a state to the controller before it loads or saves the next. Both are the formats'
  own contracts. Edits and blocks may come between the component's part of a hand-over
  (`SetState`, `GetState`) and the controller's (`SetComponentState`), and a state may end
  early, after some of the controls.
* **Conversions of VST3.** The host and its states hold normalised values, and component and
  controller convert them each for itself (`map_control_from_01`, `map_control_to_01`).
  Doubles are fixed-point numbers of which `One` is 1: an int control drops the fraction, a
  division rounds to the nearest number. In the code it is 29 of 0..100 that comes back as
  28; which value it is depends on the number format, that there is one does not, and in the
  run it is 2 of 0..3. A float control counts in units of 1/`One`. Ranges begin at 0;
  controls without a range, bool, enum and list controls are not modelled.
* **BlockPorts.** An event is its number in the order the host gave it. The calls of one
  plug-in come one after the other, as the formats and the worklet's thread require; a
  block is split in its start, where it reads its ports, and its end, where they are
  cleared. `shape` chooses API, MIDI port and timed control. The values of an array or a
  map are a set with one per frame (`slots`), those behind a span are the vector in
  `control_storage` (`timed`), of which the span covers the first ones. A processor's outputs are
  left out. `lapse` remembers that storage was reserved, or a block
  passed by, while events waited; the properties about one block do not speak of these.
* **OssiaNode.** The graph's executor runs a node and the commands of the interface on one
  thread, so a whole tick – scan, configuration, controls, processor, reports – is one
  step; `Tick` composes an operator per stage. The exponential filter of a smoothed
  control is a movement by one towards its target, which arrives; what is kept of
  `smooth.hpp` is that one storage is moved on by every instance in turn.
* **ChannelManager.** A bus is a type (fixed, dynamic, variable, mimic) and a number.
* **WamModule.** A value is the number of the call that wrote it. An id is a pair of a
  parameter and a component; a message holds one id, as on the port, and a call of the
  host writes a list of ids in the order of its keys. What waited for the load is replayed
  one write at a time.
* **VintageControls.** Two threads; a load of an atomic and the store of the plain
  float are separate steps of the thread that runs `write()`.

## Runs

| Run | Instance | Shows |
|---|---|---|
| `triple_buffer` | 2 chunks, 4 values | `ExclusiveSlots`, `WholeRead`, `LatestKept`, `NewerOnly`, refinement of `Mailbox`, `Delivered` |
| `ring` | 4 bytes, indices modulo 8, floats of 2 bytes, stream of 16 bytes | refinement of `ByteQueue`, `WholeFloats` |
| `sender` | 3 threads in a row, all failures and exceptions | `NeverJoinable`, `ConnectedIsLive`, `StopCompletes`, `FinishedIsReaped` |
| `receiver` | 3 threads, 3 packets, all failures and exceptions | `TerminatesOnlyAfterThrow`, `ConnectedIsServed`, `StopCompletes`, `Delivered` |
| `wire` | packets of 1, 0 and 2 floats, header of 2 bytes, 5 bytes in flight | `PublishedIsSent`, `AllArrive` |
| `wasm_worklet` | 2 starts, 2 edits, 2 messages | `MessagesInOrder`, `MessagesArrive`, `NoStaleParam`, `EventuallyAgree` |
| `clap` | 2 controls of 3 values, stereo, 3 setups | `SameControls`, `ValuesKept`, `ReadyToProcess` |
| `vst3` | an int control of 0..3 and a float one whose tag is refused, eighths for doubles, 2 normalised values, arrangements of 1 or 3 channels, 2 setups | `ValuesKept`, `OnlyLoadsDivide`, `ControllerFollows` |
| `vintage_controls` | 2 controls, 2 instances, 2 values, 2 presets, 2 changes | `HeldDuringBlock`, `EventuallyCurrent` |
| `ossia` | 1 plain and 1 smoothed control of 3 values, 1 or 3 channels, ticks of 1 or 2 frames, 10 processors, 2 edits | `PreparedOrPending`, `PortsAgree`, `ReportsAgree`, `QuietTick`, `EventuallySettled` |
| `wam` | parameters of 1 and 2 components, 3 calls that write one id, a vector in both orders, or all | `LatestDelivered`, `NodeAndPluginAgree` |
| `block_ports` | every MIDI port in every API, every timed control in WASM, blocks of 1 or 2 frames, 4 events | `PlayedOnce`, `OwnEvents`, `OwnValues` |

The type invariant of a module (`TypeOK`, `BufferTypeOK`, `ControlsTypeOK`, `RingTypeOK`,
`WamTypeOK`) documents its state and is in no run. Those of `TripleBuffer`, `RingBuffer` and
`ClapPlugin` are theorems, and that of `Vst3Component` is part of the invariant its proofs
use.

Why the bounds suffice:

* Two chunks are the least that can be torn; with four publications each of the
  three slots plays each role more than once.
* Indices modulo twice the capacity reach every pair of fill level and offset; the
  stream makes them wrap twice. In the code the modulus is 2^32, which like 8 is a
  multiple of the capacity, and nothing else about it is used.
* Three threads: what a first connection leaves behind can meet a second and its
  successor. Nothing in the code counts further back than the thread before.
* Packets of different size, one empty, and a header longer than one byte: a break
  or a partial write can fall in a header, in a payload and between packets; five
  bytes in flight are fewer than a packet, so writes do block.
* Two starts let a message of an old node arrive when the new one is there.
* One and three channels, and for CLAP one to three: arrangements below and above the two
  the plug-in was constructed with. Two controls show whether one change spills over to
  another.
* Eighths for `vst3`: the least power of two with which a control of 0..3 has a value that
  does not come back. The two normalised values make it 1, which does, and 2, which does not;
  a state has both controls, the first, or none.
* Two changes of the interface: one before and one after any point of the copy.
* Ten processors for `ossia`: each kind of node, each type of bus alone and beside
  another, a mimic that is the first output and one that is not, of inputs of each type,
  requests from `run` and from `prepare`. One and three channels are below and above the two of the constructor,
  and a tick of two frames is longer than the buffer the node is made with. Three values
  put a smoothed control two steps from its target, more than one instance moves in a tick.
* Three writes for `wam`: the initial state, one before and one after the load, to one
  component or both.
* Four events for `block_ports`: two lists of two, more than a buffer of one frame has
  room for, or a list, a block, and another list.

`CHECK_DEADLOCK FALSE` is set where the system may really stop: the host destroyed
the object, or a bound on values, threads or edits is used up. The runs of the
plug-ins, of the ossia node and of the block ports check deadlock.

## Fairness

* `triple_buffer`: `WF_bufferVars(ConsumerStep)` – the consumer polls in a loop and its calls
  never block. Nothing is assumed of the producer.
* `sender`: `WF(Tick)`, `WF(Sender)` – the host calls `operator()` on every tick, and
  the operating system schedules the thread. No fairness for the peer, who may
  never read, nor for the user: `StopCompletes` must hold because of `shutdown()`.
* `receiver`: the same, and `WF(Output)` because `operator()` polls the buffer on
  each tick whatever else it did.
* `wire`: `WF_wireVars(Send)`, `WF_wireVars(Take)` – both loops run; a break is never forced.
* `wasm_worklet`: for each node `n`, `WF(OnWorkletMessage(n))`, `WF(OnMessage(n))` and
  `WF(Load(n))`, each while `node = n`: posted messages are delivered in both directions
  and loading ends, with either outcome, and what waited is drained – what event loops
  do – but only for the node of the page: a closed context promises nothing.
* `vintage_controls`: `WF(Audio)`, `WF(Interface)` – the host goes on calling
  `process()`, and `SetProgram` runs to its end once it began. Edits are not fair.
* `ossia`: `WF(ConfigurationChanged)`, `WF_parity(Ticks)`, `WF(Show)` – the graph
  configures a node and goes on ticking it, and the interface drains its queue by a
  timer. A tick is the step that changes `parity`, so that a tick which leaves the node
  as it is counts as one.
* `wam`: `WF(OnProcMessage)`, `WF(OnAvndMessage)`, `WF(LoadWasm)`, `WF(Refresh)` –
  event loops deliver, a load ends in either way, a timer fires. Nobody
  has to write, to open the GUI or to leave it.

The ring, the plug-in runs and the block ports check safety only.

## Proofs

Every invariant and every action property of the runs, and both refinements, are theorems,
which `tlapm` proves for all values of the constants that satisfy the named assumptions:

| Theorems | Statement |
|---|---|
| `NetStreamSenderProofs`: `StartsJoined`, `ConnectedLives` | `Spec => []NeverJoinable`, `[]ConnectedIsLive` |
| `TypeCorrect`, `SlotsExclusive`, `ReadsWhole`, `NothingLost` | `BufferSpec => []BufferTypeOK`, `[]ExclusiveSlots`, `[]WholeRead`, `[]LatestKept` |
| `OnlyNewer`, `Refinement` | `BufferSpec => NewerOnly`, `ImplementsMailbox` |
| `NetStreamReceiverProofs`: `TerminatesAfterThrow`, `ConnectedServes` | `Spec => []TerminatesOnlyAfterThrow`, `[]ConnectedIsServed` |
| `StreamKeepsPackets` | if `Transient = FALSE`: `WireSpec => []PublishedIsSent` |
| `WasmProofs`: `TypeCorrect`, `StopsBetweenFloats` | `RingSpec => []RingTypeOK`, `[]WholeFloats` |
| `Refinement` | `RingSpec => ImplementsQueue` |
| `MessagesInOrderAlways`, `NoMessageLost`, `ValuesRise` | `Spec => []MessagesInOrder`, `[]MessagesArrive`, `NoStaleParam` |
| `WamLatestDelivered` | `WamSpec => []LatestDelivered` |
| `ClapPluginProofs`: `TypeCorrect`, `ControlsSame`, `KeepsValues`, `ProcessesReady` | `Spec => []TypeOK`, `[]SameControls`, `[]ValuesKept`, `[]ReadyToProcess` |
| `Vst3ComponentProofs`: `KeepsValues`, `LoadsDivide`, `ProcessesReady` | if `0 \notin Channels`: `Spec => []ValuesKept`, `[]OnlyLoadsDivide`, `[]ReadyToProcess` |
| `ControllerShows` | the same: `Spec => []ControllerFollows` |
| `BlockProofs`: `HoldsDuringBlock` | `ControlsSpec => []HeldDuringBlock` |
| `PlaysOnce`, `PlaysOwn`, `HoldsOwnValues` | `Spec => []PlayedOnce`, `[]OwnEvents`, `[]OwnValues` |
| `OssiaNodeProofs`: `InstancesPrepared`, `ChannelsAgree`, `InterfaceAgrees`, `QuietTicks` | `Spec => []PreparedOrPending`, `[]PortsAgree`, `[]ReportsAgree`, `QuietTick` |

None of the properties is inductive alone. What follows says, part by part, what is assumed
and what the inductive invariant adds. Bounds such as `MaxPublish` or `MaxEdits` are any
natural numbers in the theorems.

**Triple buffer** (`BufferInv`). Assumption: `Chunks` is not empty. The invariant adds: how
far a slot that is being filled has got (`FilledSoFar`), that the reader's slot holds one
published version (`HeldVersion`), that the last one is in the middle while the bit is set
and with the reader otherwise (`LatestVersion`, with a bound on what the middle holds), that
a consumer between load and exchange can rely on the bit (`LoadedDirty` – only it clears
it), and that what was copied is still what the slot holds (`CopiedSoFar`). The refinement
maps the box to the middle slot while the bit is set and to the reader's slot otherwise:
`Publish` posts, `ConsumeSwap` takes, and every other step stutters (`StepMailbox`).

**Sender.** `m_running` is cleared by the host alone, at the start of a `disconnect()` that
ends with the join (`StoppedByHost`), and never set again after the destructor
(`GoneForGood`); and from `connect()` to `close()` the thread has a connected socket, which
only `disconnect()` shuts down, to join it next (`SocketOfThread`). With these the two
properties are inductive.

**Receiver.** There the thread clears `m_running` too, on its way down. It goes down because
the host told it to – who then joins – or because of an exception (`DownWhenStopped`,
`NothingToJoin`); only the second leaves a joinable thread to a host that may start one.

**Wire** (`WireInv`). Assumptions: header, size of a float and room in flight are positive,
packets have any numbers of floats. The hypothesis `Transient = FALSE` says that a write
fails only on a connection that is down; without it the property is false (see below). The
argument is about `OnTheWay`, the bytes the receiver has of a packet followed by those in the
stream. Each byte stands at its place in its packet (`InPlace`), packets are in order
(`InOrder`), none after the last published one is missing (`NoGap`), and while the connection
is up the last byte is the last the sender has written (`EndsWith`). All of it is said of
pairs of places with quantifiers, so no step needs an induction: what is written is appended
(`WriteChained`), what is published is dropped in front (`DropChained`), a break takes a tail
(`PrefixChained`), and `recv_all()` only moves the border between the two.

**Ring** (`RingInv`). Assumptions: the capacity is positive and divides `Wrap`, which is
larger; for `WholeFloats`, the size of a float divides `Wrap` too. The invariant is that there
is a position in the stream up to which everything was removed (`Held`): both indices are
positions modulo `Wrap` (`Layout`), every byte from that position to the end of what a push
has copied is where its offset says, a call in progress has settled on bytes that fit or are
there (`PushFits`, `PopFits`), and with float calls everything is a multiple of `Unit`.
`Remainder` … `Rounded` are the arithmetic of indices that wrap around. The refinement maps
the queue to the bytes between the indices; `PushCommit`, `PopCommit` and the store of a
clear are its steps.

**Page and worklet** (`WorkletInv`). What a node was sent and has not applied is one queue,
`pendingParams` followed by the port: a step of the page appends to it, an applied message
is its head, and the load moves nothing in it. Of that queue `InStep` says that the messages
in it are those of `posted` that are not in `log`, and `Rising` that its values never
decrease, from that of the plug-in to that of the page. `Line` says what a queue can be in
each state of the worklet; that nothing waits in a ready one makes it safe to apply a
message without looking at the list.

**Web Audio Module** (`WamInv`). Assumptions: components are positive, and `Calls` are any
lists of ids. `Current` says of each id that its last delivered value either waits, with no
later write of that id behind it, or is in the plug-in; `VectorsAgree` that a vector in `_vec`
is what the plug-in has, so that writing one component does not disturb the others.

**Container and CLAP** (`IInv`). Assumptions: the two defaults are values, the channel
counts are natural numbers and not both zero, setups are positive. The lemmas of
`EffectContainerProofs` say of each operator what it keeps: `init_channels()` returns one
well-formed instance per channel, leaves the old ones alone, and gives new ones the controls
of the first; `prepare()` reaches all and changes no control; a changed control reaches all.
The invariant adds `NeverEmpty` – the container is not empty after the constructor – without
which growing it would lose the controls and an event would go to nobody.

**VST3** (`IInv`, `Ahead`). Assumptions: `ConversionAssumption`, that the numbers are
natural, ranges are not empty and the values of a host convert to values of a control; and
`0 \notin Channels`, since an arrangement without channels empties the container (see below).
A loaded state reaches the first instance only, so the proofs are about that one:
`init_channels()` keeps it whatever it grows or shrinks to (`NeverEmpty`), and new instances
are copies. `Prepared` and `CountsAsked` say what a setup leaves behind for `SetActive`.
For the controller `MirrorAhead` says that it shows what the component will have after the
next block, and `StreamHolds` that the state on its way has what the component has of every
control that was not edited later, so that reading it makes the mirror follow.

**VST2** (`ControlsInv`). The copy goes through the pairs of an instance and a parameter in
one order; `CopiedSoFar` says that what it has passed is held, `AtomicsHeld` and `LoadedHeld`
that what it is about to store is, and `OnlyWriter` that no other copy interferes. `Quotient`
and `Places` are the arithmetic: each pair has one place in that order.

**Block ports.** `Order` says where the events of a port are when no block runs: all later
than what was played, unless the port is that of a WASM module whose block is not open,
which the next call clears. `Own` says, per API, what a port holds between blocks if nothing
was left over, and `Values` the same of a timed control: all values of its block for a span,
the last of each frame for an array or a map. Lemmas on sequences (`Concatenated`, `Later`,
`OrderOfAdded`, `LastAppended`) carry these through the appends.

**ossia node** (`NodeInv`). Assumptions: counts and the buffer size are positive, the values
of controls are numbers with all smaller ones, and processors are well formed
(`ShapesAssumption`: a mimic names an input there is, a request is for a variable output).
`CountsInv` says, for each kind of node, which of graph, ports, manager and container agree
before and after the node is configured; for a node that asks the manager this is `Sound`
(the manager with itself) and `Settled` (with what the graph delivered last), which every
`set_input_channels()` and `set_output_channels()` keeps. `ReportsInv` is about the last
report in the queue instead of what is shown. The totals of the manager are sums over busses
and its updates loops over busses, both recursive functions: `Least`, `Induction` and
`Recursion` are derived from the well-foundedness of the natural numbers, with sets in the
place of predicates, so that the totals and loops are proved for any number of busses.
`PortsAgree` and `QuietTick` name their exceptions: outputs that mimic an input of fixed
count, a first output that mimics an input which is not dynamic, and ticks of processors with
inputs of several types.

**Left to TLC.** Liveness: `Delivered` (of the triple buffer and of the receiver),
`StopCompletes`, `FinishedIsReaped`, `AllArrive`, `EventuallyAgree`, `NodeAndPluginAgree`,
`EventuallyCurrent`, `EventuallySettled`. A proof needs ENABLED, which the prover does not
support.

## Disagreements

Found while modelling. Each can be seen by checking the named definition, which is in the
module, in the module's run, with the change of the `.cfg` that is given.

| What the repository says | What the code does | Shown by |
|---|---|---|
| NetStreamSender.hpp:345 "Check if we need to connect/disconnect" | `disconnect()` clears `m_thread_finished` (252) before the join; the thread sets it on its way out (120); the next connection, working and wanted, is torn down by the stale flag (354) | `TornDownOnlyWhenNeeded` (`Throws = FALSE` too), run of the sender |
| clap/audio_effect.hpp:200 "Safe no-op handlers for worker.request … an empty std::function call terminates" | the fallbacks go to an empty container (202); the first instance is made after that (209) | `CallbacksWired` of `ClapPlugin` |
| vst3/component.hpp:339 "A VST host sees one parameter set" | `setState()` reads into the first instance only (594) | `OneParameterSet` of `Vst3Component` |
| NetIO.hpp:130 "keep the fd valid so close() can still clean up after thread join" | the sender thread closes its socket itself (110), possibly just before the host's `shutdown()` (257) | `HandleStillOpen`, run of the sender |
| NetStreamReceiver.hpp:370 "Check if we need to start/stop the receiver" | after an exception `m_running` is false (153) with the thread unjoined, and the next start assigns over it (30): `std::terminate` | `receiver` with `~terminated` in the place of `TerminatesOnlyAfterThrow` |
| NetStreamReceiver.hpp:345 the output "Connected" | after an exception `m_connected` stays set (149-153), also in the next session, until another client has come and gone | `ConnectedIsServed` without `~threw` |
| NetStreamSender.hpp:212 "always handles partial writes correctly" | the fallback starts the packet again after part of it went out (169) | `PublishedIsSent`, `Transient = TRUE` |
| halp/buffer.hpp:29 `upload(const char* data, int64_t offset, int64_t bytesize)` | the GPU receiver passes a number of floats (NetStreamReceiver.hpp:462) | `OutputWhole`, `Gpu = TRUE` |
| standalone.js.in:205 "Seed the live DSP with values set before Start." | a ready message after Stop dereferences the null node (207) | `ReadyFindsNode` |
| wrappers/controls.hpp:54 "Used to set the initial value for controls" | CLAP calls it (197) on an empty container | `InitialValues` of `ClapPlugin` |
| vst3/component.hpp:111 "Safe no-op handlers…" | instances added by an arrangement (bus_info.hpp:327) are not wired | `CallbacksWired` of `Vst3Component` |
| vst3/component.hpp:339 | an arrangement without channels empties the container (effect_container.hpp:456), and the controls are gone | `ValuesKept`, `Channels <- NoneOrTwo` |
| vst3/component.hpp:339 | the controller compares a raw field index with the number of parameters (controller.hpp:154) and refuses edits of controls behind other ports | `TagsAccepted` |
| vst3/component.hpp:339 | `setComponentState()` puts the state back over an edit that came after it was made (controller.hpp:184); the component gets the edit with its next block, and the two differ until the next edit or hand-over | `EditsShown` |
| vst3/component.hpp:573 "called when we load a preset, the model has to be reloaded" | the state holds an int control as a fraction (615), and reading it drops what is below the next integer (588, controller.hpp:189): 29 of 0..100 becomes 28 | `StateKept` |
| audio.polyphonic.md:13 "which comes from the host" | with busses the counts are added to those of the last arrangement (bus_info.hpp:645) | `PreparedForArrangement`, `BusPorts = TRUE` |
| atomic_controls.hpp:130 "Controls are shared across the (internal) per-channel instances" | each instance loads the atomics again (107): one block can run with two values | `SharedControls`, `Programs <- NoPrograms` |
| vintage/audio_effect.hpp:186 "we copy all our atomics back into the struct" | `SetProgram` writes the instances during a block (dispatch.hpp:106) | `AtomicsCopied` |
| poly_audio_node.hpp:84 "Ensure that we have enough output space" | the scan resizes the outlets to the buffer size before `prepare_run()` takes over that of a longer tick | `EnoughFrames` |
| channel_mimicking.md:48 "Taking the member function pointer to an input will allow Avendish to match the channel count at run-time" | a first output gets the count of the input that was set last (audio_channel_manager.hpp:337), and a count a fixed input does not take updates no output (273) | `MimicsFollow` |
| ossia/node.hpp:563 "since they're all the same" | instances share the storage of a smoothed control, and each moves it on | `AllTheSame` |
| ossia/node.hpp:368 "Initialize the controls with their default values" | the storage of a smoothed control begins at 0 and replaces the default with the first tick | `DefaultKept` |
| audio.polyphonic.md:13 "which comes from the host" | the native node never tells the manager, whose totals `prepare()` gets | `PreparedForInlets` |
| examples/Helpers/CustomChannels.hpp:40 asks for its channels in `prepare()` | a request makes the next tick prepare again, which asks again, for ever | `RequestsEnd` |
| ossia/node.hpp:350 "Initialize the callbacks" | instances that are added later are not wired | `CallbacksWired` of `OssiaNode` |
| wam/node.js.in:25 "seeded from defaults", processor.js.in:148 "recombining compound (vector) params" | components that were not written are 0 in the plug-in (155) and the default in the node | `ComponentsAgree` |
| wam/gui.js.in:55 "Poll for host-automation changes" | an element that is moved in the document stops polling (162) and never starts again | `GuiFollows` |
| wam/processor.js.in:183-189: `destroy()` frees plug-in and buffers | a load that is running makes them again | `FreedForGood` |
| midi.md:60 "handled without loosing messages" | a second event list of VST2 reserves again (vintage/audio_effect.hpp:210), a bypassed block leaves its events for `reserve_space()` to drop (174), a VST3 block without audio clears them (component.hpp:550), `prepare()` of WASM drops those of an open block | `NothingLost` |
| midi.md:41 "allocate a large enough buffer to store MIDI messages" | a raw port has room for as many messages as a block has frames; `add_message()` (clap/audio_effect.hpp:108, wasm/midi.hpp:95) indexes with the count, whatever the room | `LargeEnough` |
| midi.md:5-9: MIDI ports of either kind | VST3 adds no event to a raw port (component.hpp:400-411) | `EitherPort` |
| sample_accurate.md:24 "`value` will always carry the running value at the beginning of the tick" | `scheduleControl()` assigns each value (sample_accurate.hpp:63, 92, 103): it is the last one | `ValueAtStart` |

Not expressed as a definition, but seen on the way: `port_run_postprocess.hpp:151` reads
`linear_inputs` for the linear outputs; CLAP, VST3 and VST2 call `reserve_space()` for MIDI
only when there are MIDI *inputs* (clap/audio_effect.hpp:233, vst3/component.hpp:320,
vintage/audio_effect.hpp:148).

## Not modelled

* Compile-time parts (concepts, introspection, reflection, process adapters): no run-time
  state but buffers of the size of a setup. They, the example processors, and the bindings
  below are most of the tree, which is why the definitions stand for a small part of its
  lines: what is left after them is the glue, and most of that is modelled.
* Hosts' and toolkits' own code, formatting, layout, painting, logging.
* Samples and arithmetic on them, including the shape of the smoothing filter.
* Bindings that are one sequential call of their host (Max, Pure Data, TouchDesigner, Godot,
  GStreamer, Python, dump, golden, fuzz, standalone, OSC).
* The polyphonic synthesizer of VST2 (`polyphonic_synth.hpp`) is dead code: no file includes
  it and it names templates that are gone.
* In modelled components: the audio sources of the page, state extensions of CLAP, event
  busses and string parameters of VST3, note names; messages, callbacks, textures, geometry,
  spectra, soundfiles and raw MIDI (a no-op marked FIXME) of the ossia node, a node with mono
  ports only, and timed controls of several instances; a container that is given no channels
  in the ossia node (FIXME at effect_container.hpp:253, so `Counts` are positive); variable
  channels, presets and the draining of outputs of the WASM module. `components` in
  `PROJECT.json` says it part by part.

## Plan

What is left, in order:

1. Audio sources of the page (`rebuildSource` in `standalone.js.in`): overlapping awaits of
   microphone and file, against Stop.
2. `reconcile_variable_channels` and presets of the WASM audio processor.
3. Proofs: that CLAP and VST3 implement one abstract plug-in, a set of channels that run
   with one value per control, as the two buffers implement a mailbox and a queue; and the
   type invariants of the other modules for every value of the constants.
4. Definitions the code refutes (see Disagreements) become properties of runs where the
   code changes.
