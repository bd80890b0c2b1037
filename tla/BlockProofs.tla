----------------------------- MODULE BlockProofs ------------------------------
(***************************************************************************)
(* Proofs about what a block of audio runs with.                           *)
(*                                                                         *)
(* BlockPorts, for any processors, block sizes and numbers of events: what *)
(* is played is never played again, and a block plays what its host gave   *)
(* it.  The argument is where the events of a port end when no block runs: *)
(* they are all later than what was played, unless the port is one of a    *)
(* WASM module whose block is not open, and is cleared first.  The control *)
(* of such a module has the values scheduled in its block: all of them, or *)
(* the last of each frame.                                                 *)
(*                                                                         *)
(* VintageControls, for any numbers of parameters, instances and changes:  *)
(* a block that no SetProgram disturbs runs every instance with values its *)
(* parameters had during the block.  The copy goes through the pairs of an *)
(* instance and a parameter in one order, and what it has passed stays     *)
(* held.                                                                   *)
(***************************************************************************)
EXTENDS BlockPorts, VintageControls, Integers, SequenceTheorems, TLAPS

(* The messages of a port                                                  *)

Increasing(s) == \A i, j \in DOMAIN s : i < j => s[i] < s[j]
Before(s, t) == \A i \in DOMAIN s, j \in DOMAIN t : s[i] < t[j]
UpTo(s, n) == \A i \in DOMAIN s : s[i] <= n

\* The port's messages wait to be played.
Waiting == ~running /\ (host = "wasm" => m_block_open)

Order ==
  /\ given \in Nat
  /\ played \in Seq(Nat) /\ midi_messages \in Seq(Nat)
  /\ Increasing(played) /\ Increasing(midi_messages)
  /\ UpTo(played, given) /\ UpTo(midi_messages, given)
  /\ Waiting => Before(played, midi_messages)
  /\ running /\ host = "wasm" => ~m_block_open

-----------------------------------------------------------------------------
LEMMA EmptyPort ==
  /\ <<>> \in Seq(Nat) /\ Increasing(<<>>)
  /\ \A s, n : UpTo(<<>>, n) /\ Before(s, <<>>)
BY EmptySeq DEF Increasing, UpTo, Before

\* What is appended comes later.
LEMMA Concatenated ==
  ASSUME NEW s \in Seq(Nat), NEW t \in Seq(Nat), NEW n \in Nat,
         Increasing(s), Increasing(t), Before(s, t), UpTo(s, n), UpTo(t, n)
  PROVE  s \o t \in Seq(Nat) /\ Increasing(s \o t) /\ UpTo(s \o t, n)
<1>1. /\ s \o t \in Seq(Nat) /\ Len(s \o t) = Len(s) + Len(t)
      /\ \A i \in 1..Len(s) + Len(t) :
           (s \o t)[i] = IF i <= Len(s) THEN s[i] ELSE t[i - Len(s)]
  BY ConcatProperties
<1>2. /\ Len(s) \in Nat /\ Len(t) \in Nat
      /\ DOMAIN s = 1..Len(s) /\ DOMAIN t = 1..Len(t)
      /\ DOMAIN (s \o t) = 1..Len(s) + Len(t)
  BY <1>1, LenProperties
<1> DEFINE u == s \o t
<1>3. \A i \in DOMAIN u : \/ i \in DOMAIN s /\ u[i] = s[i]
                          \/ i - Len(s) \in DOMAIN t /\ u[i] = t[i - Len(s)] /\ i > Len(s)
  BY <1>1, <1>2
<1>4. \A i \in DOMAIN u : i \in Nat
  BY <1>2
<1> HIDE DEF u
<1>5. UpTo(u, n)
  BY <1>3 DEF UpTo
<1>6. Increasing(u)
  <2> SUFFICES ASSUME NEW i \in DOMAIN u, NEW j \in DOMAIN u, i < j PROVE u[i] < u[j]
    BY DEF Increasing
  <2>1. CASE i \in DOMAIN s /\ u[i] = s[i] /\ j \in DOMAIN s /\ u[j] = s[j]
    BY <2>1 DEF Increasing
  <2>2. CASE i \in DOMAIN s /\ u[i] = s[i] /\ j - Len(s) \in DOMAIN t /\ u[j] = t[j - Len(s)]
    BY <2>2 DEF Before
  <2>3. CASE /\ i - Len(s) \in DOMAIN t /\ u[i] = t[i - Len(s)]
             /\ j - Len(s) \in DOMAIN t /\ u[j] = t[j - Len(s)]
    <3>1. i - Len(s) < j - Len(s)
      BY <1>2, <1>4
    <3> QED
      BY <2>3, <3>1 DEF Increasing
  <2>4. i \in Nat /\ j \in Nat /\ Len(s) \in Nat /\ DOMAIN s = 1..Len(s)
    BY <1>2, <1>4
  <2>5. CASE i - Len(s) \in DOMAIN t /\ i > Len(s) /\ j \in DOMAIN s
    BY <2>4, <2>5
  <2> QED
    BY <1>3, <2>1, <2>2, <2>3, <2>5
<1> QED
  BY <1>1, <1>5, <1>6 DEF u

\* The events a host gives are later than all it gave before.
LEMMA Later ==
  ASSUME NEW g \in Nat, NEW n \in Nat, g = given
  PROVE  /\ NewEvents(n) \in Seq(Nat) /\ Increasing(NewEvents(n))
         /\ UpTo(NewEvents(n), g + n)
         /\ \A s \in Seq(Nat) : UpTo(s, g) => Before(s, NewEvents(n)) /\ UpTo(s, g + n)
<1>1. NewEvents(n) = [i \in 1..n |-> g + i]
  BY DEF NewEvents
<1>2. NewEvents(n) \in [1..n -> Nat]
  BY <1>1
<1>3. NewEvents(n) \in Seq(Nat)
  BY <1>2, SeqDef
<1>4. \A s \in Seq(Nat) : \A i \in DOMAIN s : s[i] \in Nat
  BY ElementOfSeq, LenProperties
<1> QED
  BY <1>1, <1>3, <1>4 DEF Increasing, UpTo, Before

-----------------------------------------------------------------------------
LEMMA OrderAtFirst == Init => Order
BY EmptyPort DEF Init, Order, Waiting

\* What a block that runs reads comes after all that was played.
LEMMA OrderOfRun ==
  ASSUME Order, NEW messages \in Seq(Nat), Increasing(messages), UpTo(messages, given'),
         Before(played, messages), given' \in Nat, given <= given', Run(messages)
  PROVE  played' \in Seq(Nat) /\ Increasing(played') /\ UpTo(played', given')
<1>1. played \in Seq(Nat) /\ Increasing(played) /\ UpTo(played, given)
  BY DEF Order
<1>2. UpTo(played, given')
  BY <1>1, ElementOfSeq, LenProperties DEF UpTo, Order
<1> QED
  BY <1>1, <1>2, Concatenated DEF Run

\* The messages when a call has opened the block it needs.
LEMMA OpenWaits ==
  ASSUME Order, host = "wasm", ~running
  PROVE  /\ OpenMidi \in Seq(Nat) /\ Increasing(OpenMidi) /\ UpTo(OpenMidi, given)
         /\ Before(played, OpenMidi)
BY EmptyPort DEF Order, Waiting, OpenMidi

\* Appending what the host gives now to a port.
LEMMA OrderOfAdded ==
  ASSUME Order, NEW n \in Nat, NEW port \in Seq(Nat), Increasing(port), UpTo(port, given),
         Before(played, port)
  PROVE  LET added == port \o NewEvents(n)
         IN /\ added \in Seq(Nat) /\ Increasing(added) /\ UpTo(added, given + n)
            /\ Before(played, added)
<1>0. given \in Nat /\ played \in Seq(Nat) /\ UpTo(played, given) /\ given + n \in Nat
  BY DEF Order
<1> DEFINE new == NewEvents(n)
<1>1. /\ new \in Seq(Nat) /\ Increasing(new) /\ UpTo(new, given + n)
      /\ Before(port, new) /\ UpTo(port, given + n) /\ Before(played, new)
  BY <1>0, Later
<1> HIDE DEF new
<1>2. port \o new \in Seq(Nat) /\ Increasing(port \o new) /\ UpTo(port \o new, given + n)
  BY <1>0, <1>1, Concatenated
<1>3. \A i \in DOMAIN (port \o new) : \/ i \in DOMAIN port /\ (port \o new)[i] = port[i]
                                      \/ \E j \in DOMAIN new : (port \o new)[i] = new[j]
  BY <1>1, ConcatProperties, LenProperties
<1>4. Before(played, port \o new)
  BY <1>1, <1>3 DEF Before
<1> QED
  BY <1>2, <1>4 DEF new

LEMMA OrderKept == Order /\ [Next]_vars => Order'
<1> SUFFICES ASSUME Order, [Next]_vars PROVE Order'
  OBVIOUS
<1> USE BlockPortsAssumption
<1>0. /\ given \in Nat /\ played \in Seq(Nat) /\ midi_messages \in Seq(Nat)
      /\ Increasing(played) /\ Increasing(midi_messages)
      /\ UpTo(played, given) /\ UpTo(midi_messages, given)
  BY DEF Order
\* A step that plays nothing and leaves the port alone or empties it.
<1>1. ASSUME given' \in Nat, given <= given', played' = played, ~running',
             midi_messages' = <<>>
      PROVE  Order'
  <2>1. UpTo(played, given')
    BY <1>0, <1>1, ElementOfSeq, LenProperties DEF UpTo
  <2> QED
    BY <1>0, <1>1, <2>1, EmptyPort DEF Order, Waiting
<1>2. ASSUME UNCHANGED <<given, played, midi_messages, shape, m_block_open, running>>
      PROVE  Order'
  BY <1>2 DEF Order, Waiting, host
\* A step that fills the port, which waits from then on.
<1>3. ASSUME given' \in Nat, given <= given', played' = played, ~running',
             midi_messages' \in Seq(Nat), Increasing(midi_messages'),
             UpTo(midi_messages', given'), Before(played, midi_messages')
      PROVE  Order'
  <2>1. UpTo(played, given')
    BY <1>0, <1>3, ElementOfSeq, LenProperties DEF UpTo
  <2> QED
    BY <1>0, <1>3, <2>1 DEF Order, Waiting
\* A step that starts a block.
<1>4. ASSUME NEW messages \in Seq(Nat), Increasing(messages), UpTo(messages, given'),
             Before(played, messages), given' \in Nat, given <= given', Run(messages),
             midi_messages' = messages, host' = "wasm" => ~m_block_open'
      PROVE  Order'
  <2>1. played' \in Seq(Nat) /\ Increasing(played') /\ UpTo(played', given')
    BY <1>4, OrderOfRun
  <2> QED
    BY <1>4, <2>1 DEF Order, Waiting, Run
<1>5. ASSUME NEW n \in Sizes, Activate(n) PROVE Order'
  BY <1>1, <1>2, <1>0, <1>5 DEF Activate, ReserveMidi, history
<1>6. ASSUME NEW n \in Sizes, SetBlockSize(n) PROVE Order'
  BY <1>2, <1>6 DEF SetBlockSize, ports, history
<1>7. ASSUME NEW n \in Sizes, Prepare(n) PROVE Order'
  BY <1>1, <1>0, <1>7 DEF Prepare, ReserveMidi
<1>8. ASSUME NEW n \in 0..MaxEvents, ProcessEvents(n) PROVE Order'
  <2>1. host # "wasm" /\ ~running /\ Waiting /\ host' = host /\ given' = given + n /\ n \in Nat
    BY <1>8 DEF ProcessEvents, Waiting, host
  <2>2. Before(played, midi_messages)
    BY <2>1 DEF Order
  <2> DEFINE read == IF Accepts THEN AddMessages(midi_messages, NewEvents(n))
                     ELSE midi_messages
  <2>3. Run(read) /\ midi_messages' = read
    BY <1>8 DEF ProcessEvents
  <2>4. UpTo(midi_messages, given + n)
    BY <1>0, <2>1, ElementOfSeq, LenProperties DEF UpTo
  <2>5. read \in Seq(Nat) /\ Increasing(read) /\ UpTo(read, given + n) /\ Before(played, read)
    BY <1>0, <2>1, <2>2, <2>4, OrderOfAdded DEF AddMessages
  <2> HIDE DEF read
  <2>6. given + n \in Nat /\ given <= given + n
    BY <1>0, <2>1
  <2> QED
    BY <1>4, <2>1, <2>3, <2>5, <2>6
<1>9. ASSUME NEW n \in 0..MaxEvents, ProcessWithoutAudio(n) PROVE Order'
  BY <1>1, <1>0, <1>9 DEF ProcessWithoutAudio, ClearInputs, history
<1>10. ASSUME NEW n \in 0..MaxEvents, EventInput(n) PROVE Order'
  <2>1. /\ n \in Nat /\ given' = given + n /\ played' = played /\ ~running'
        /\ midi_messages' = <<>> \o NewEvents(n)
    BY <1>10 DEF EventInput, AddMessages
  <2>2. given + n \in Nat /\ given <= given + n
    BY <1>0, <2>1
  <2> DEFINE added == <<>> \o NewEvents(n)
  <2>3. added \in Seq(Nat) /\ Increasing(added) /\ UpTo(added, given + n) /\ Before(played, added)
    BY <2>1, EmptyPort, OrderOfAdded
  <2> HIDE DEF added
  <2> QED
    BY <1>3, <2>1, <2>2, <2>3 DEF added
<1>11. CASE Start
  BY <1>1, <1>2, <1>0, <1>11 DEF Start, ReserveMidi
<1>12. ASSUME NEW b \in BOOLEAN, SetBypass(b) PROVE Order'
  BY <1>2, <1>12 DEF SetBypass, ports, history
<1>13. CASE ProcessBypassed
  BY <1>2, <1>13 DEF ProcessBypassed, ports
<1>14. CASE ProcessReplacing
  <2>1. host # "wasm" /\ Waiting /\ host' = host /\ given' = given
        /\ Run(midi_messages) /\ midi_messages' = midi_messages
    BY <1>14 DEF ProcessReplacing, Waiting, host, ports
  <2>2. Before(played, midi_messages)
    BY <2>1 DEF Order
  <2> QED
    BY <1>0, <1>4, <2>1, <2>2
<1>15. CASE BeginBlock
  BY <1>1, <1>0, <1>15 DEF BeginBlock
<1>16. CASE PushMidi
  <2>1. /\ host = "wasm" /\ ~running /\ given' = given + 1 /\ played' = played
        /\ ~running' /\ midi_messages' = OpenMidi \o <<given + 1>>
    BY <1>16 DEF PushMidi, AddMessages
  <2>2. NewEvents(1) = <<given + 1>>
    BY <1>0 DEF NewEvents
  <2> DEFINE added == OpenMidi \o NewEvents(1)
  <2>3. added \in Seq(Nat) /\ Increasing(added) /\ UpTo(added, given + 1) /\ Before(played, added)
    BY <2>1, OpenWaits, OrderOfAdded
  <2>4. given + 1 \in Nat /\ given <= given + 1
    BY <1>0
  <2>5. midi_messages' = added
    BY <2>1, <2>2
  <2> HIDE DEF added
  <2> QED
    BY <1>3, <2>1, <2>3, <2>4, <2>5
<1>17. ASSUME NEW frame \in Frame, ScheduleControl(frame) PROVE Order'
  <2>1. /\ host = "wasm" /\ ~running /\ given' = given + 1 /\ played' = played
        /\ ~running' /\ midi_messages' = OpenMidi
    BY <1>17 DEF ScheduleControl
  <2>2. /\ OpenMidi \in Seq(Nat) /\ Increasing(OpenMidi) /\ UpTo(OpenMidi, given)
        /\ Before(played, OpenMidi)
    BY <2>1, OpenWaits
  <2>3. UpTo(OpenMidi, given + 1)
    BY <1>0, <2>2, ElementOfSeq, LenProperties DEF UpTo
  <2>4. given + 1 \in Nat /\ given <= given + 1
    BY <1>0
  <2> QED
    BY <1>3, <2>1, <2>2, <2>3, <2>4
<1>18. CASE Process
  <2>1. /\ host = "wasm" /\ ~running /\ given' = given /\ Run(OpenMidi)
        /\ midi_messages' = OpenMidi /\ ~m_block_open'
    BY <1>18 DEF Process
  <2>2. /\ OpenMidi \in Seq(Nat) /\ Increasing(OpenMidi) /\ UpTo(OpenMidi, given)
        /\ Before(played, OpenMidi)
    BY <2>1, OpenWaits
  <2> QED
    BY <1>0, <1>4, <2>1, <2>2
<1>19. CASE EndBlock
  <2>1. CASE host = "wasm"
    <3>1. UNCHANGED <<given, played, midi_messages, shape, m_block_open>> /\ running
          /\ host' = "wasm" /\ ~m_block_open'
      BY <1>19, <2>1 DEF EndBlock, Order, host
    <3> QED
      BY <3>1 DEF Order, Waiting
  <2>2. CASE host # "wasm"
    BY <1>0, <1>1, <1>19, <2>2 DEF EndBlock, ClearInputs
  <2> QED
    BY <2>1, <2>2
<1>20. CASE UNCHANGED vars
  BY <1>2, <1>20 DEF vars, ports, history
<1> QED
  BY <1>5, <1>6, <1>7, <1>8, <1>9, <1>10, <1>11, <1>12, <1>13, <1>14, <1>15, <1>16,
     <1>17, <1>18, <1>19, <1>20 DEF Next

\* No event is played twice or after a later one.
THEOREM PlaysOnce == Spec => []PlayedOnce
<1>1. Order => PlayedOnce
  BY DEF Order, Increasing, PlayedOnce
<1> QED
  BY <1>1, OrderAtFirst, OrderKept, PTL DEF Spec

-----------------------------------------------------------------------------
\* What a port holds between two blocks if nothing was left over: nothing for
\* the APIs that give the events with a block, all that was given since the
\* last block for VST 2, and for WASM too once a block is open.
Own ==
  ~lapse /\ Accepts =>
    IF running \/ host = "vst2" THEN midi_messages = since
    ELSE IF host # "wasm" THEN midi_messages = <<>>
    ELSE IF m_block_open THEN midi_messages = since
    ELSE since = <<>>

LEMMA OwnAtFirst == Init => Own
BY DEF Init, Own

LEMMA OwnKept == Order /\ Own /\ [Next]_vars => Own'
<1> SUFFICES ASSUME Order, Own, [Next]_vars PROVE Own'
  OBVIOUS
<1> USE BlockPortsAssumption
<1>0. given \in Nat /\ midi_messages \in Seq(Nat)
  BY DEF Order
<1>1. \A s \in Seq(Nat) : <<>> \o s = s
  OBVIOUS
<1>2. \A n \in Nat : NewEvents(n) \in Seq(Nat)
  BY <1>0, Later
<1>3. ASSUME UNCHANGED <<shape, midi_messages, since, lapse, m_block_open, running>>
      PROVE  Own'
  BY <1>3 DEF Own, Accepts, host
\* A step that leaves nothing to play.
<1>4. ASSUME midi_messages' = <<>>, since' = <<>>, UNCHANGED shape
      PROVE  Own'
  BY <1>4 DEF Own
<1>5. ASSUME NEW n \in Sizes, Activate(n) PROVE Own'
  <2>1. /\ host # "vst2" /\ host # "wasm" /\ ~running
        /\ UNCHANGED <<shape, since, lapse, m_block_open, running>>
        /\ midi_messages' = <<>> \/ midi_messages' = midi_messages
    BY <1>5 DEF Activate, ReserveMidi, history
  <2> QED
    BY <2>1 DEF Own, Accepts, host
<1>6. ASSUME NEW n \in Sizes, SetBlockSize(n) PROVE Own'
  BY <1>3, <1>6 DEF SetBlockSize, ports, history
<1>7. ASSUME NEW n \in Sizes, Prepare(n) PROVE Own'
  BY <1>7 DEF Prepare, ReserveMidi, Pending, Own, host
<1>8. ASSUME NEW n \in 0..MaxEvents, ProcessEvents(n) PROVE Own'
  <2>1. /\ host # "vst2" /\ host # "wasm" /\ ~running /\ running' /\ since' = NewEvents(n)
        /\ UNCHANGED <<shape, lapse>>
        /\ Accepts => midi_messages' = midi_messages \o NewEvents(n)
    BY <1>8 DEF ProcessEvents, AddMessages, Run
  <2>2. NewEvents(n) \in Seq(Nat)
    BY <1>2
  <2>3. ~lapse /\ Accepts => midi_messages = <<>>
    BY <2>1 DEF Own
  <2> QED
    BY <1>1, <2>1, <2>2, <2>3 DEF Own, Accepts, host
<1>9. ASSUME NEW n \in 0..MaxEvents, ProcessWithoutAudio(n) PROVE Own'
  BY <1>9 DEF ProcessWithoutAudio, ClearInputs, history, Own, Accepts, host
<1>10. ASSUME NEW n \in 0..MaxEvents, EventInput(n) PROVE Own'
  <2>1. /\ host = "vst2" /\ UNCHANGED <<shape, running>>
        /\ midi_messages' = <<>> \o NewEvents(n) /\ since' = since \o NewEvents(n)
        /\ ~lapse' => since = <<>>
    BY <1>10 DEF EventInput, AddMessages
  <2> QED
    BY <2>1 DEF Own, host
<1>11. CASE Start
  <2>1. /\ host = "vst2" /\ ~running /\ UNCHANGED <<shape, since, running>>
        /\ midi_messages' = <<>> \/ midi_messages' = midi_messages
        /\ ~lapse' => ~lapse /\ since = <<>>
    BY <1>11 DEF Start, ReserveMidi, Pending
  <2> QED
    BY <2>1 DEF Own, Accepts, host
<1>12. ASSUME NEW b \in BOOLEAN, SetBypass(b) PROVE Own'
  BY <1>3, <1>12 DEF SetBypass, ports, history
<1>13. CASE ProcessBypassed
  BY <1>13 DEF ProcessBypassed, ports, Own, Accepts, host
<1>14. CASE ProcessReplacing
  BY <1>14 DEF ProcessReplacing, ports, Run, Own, Accepts, host
<1>15. CASE BeginBlock
  BY <1>4, <1>15 DEF BeginBlock
<1>16. CASE PushMidi
  <2>1. /\ host = "wasm" /\ ~running /\ UNCHANGED <<shape, running, lapse>> /\ m_block_open'
        /\ midi_messages' = OpenMidi \o <<given + 1>> /\ since' = Append(since, given + 1)
    BY <1>16 DEF PushMidi, AddMessages
  <2>2. ~lapse /\ Accepts => OpenMidi = since
    BY <2>1 DEF Own, OpenMidi
  <2>3. OpenMidi \in Seq(Nat)
    BY <2>1, OpenWaits
  <2>4. OpenMidi \o <<given + 1>> = Append(OpenMidi, given + 1)
    BY <1>0, <2>3
  <2> QED
    BY <2>1, <2>2, <2>4 DEF Own, Accepts, host
<1>17. ASSUME NEW frame \in Frame, ScheduleControl(frame) PROVE Own'
  <2>1. /\ host = "wasm" /\ ~running /\ UNCHANGED <<shape, running, lapse, since>>
        /\ m_block_open' /\ midi_messages' = OpenMidi
    BY <1>17 DEF ScheduleControl
  <2> QED
    BY <2>1 DEF Own, OpenMidi, Accepts, host
<1>18. CASE Process
  BY <1>18 DEF Process, Run, Own, OpenMidi, Accepts, host
<1>19. CASE EndBlock
  <2>1. CASE host = "wasm"
    BY <1>19, <2>1 DEF EndBlock, Own, host, Order
  <2>2. CASE host # "wasm"
    BY <1>4, <1>19, <2>2 DEF EndBlock, ClearInputs
  <2> QED
    BY <2>1, <2>2
<1>20. CASE UNCHANGED vars
  BY <1>3, <1>20 DEF vars, ports, history
<1> QED
  BY <1>5, <1>6, <1>7, <1>8, <1>9, <1>10, <1>11, <1>12, <1>13, <1>14, <1>15, <1>16,
     <1>17, <1>18, <1>19, <1>20 DEF Next

\* A block plays all the events its host gave since the last one, and only these.
THEOREM PlaysOwn == Spec => []OwnEvents
<1>1. Own => OwnEvents
  BY DEF Own, OwnEvents
<1> QED
  BY <1>1, OrderAtFirst, OrderKept, OwnAtFirst, OwnKept, PTL DEF Spec

-----------------------------------------------------------------------------
\* The control of a WASM module, while a block is open or runs and nothing was
\* reserved in it, has the values that were scheduled.  Between two blocks none
\* are.
Holds ==
  IF shape.control = "span" THEN timed = scheduled /\ span = Len(timed)
  ELSE slots = LastOfFrame(scheduled)

TimedValue == [frame : Frame, value : Nat]

Values ==
  /\ scheduled \in Seq(TimedValue)
  /\ host = "wasm" /\ ~lapse =>
       IF m_block_open \/ running THEN Holds ELSE scheduled = <<>>

LEMMA NoLast == LastOfFrame(<<>>) = {}
BY DEF LastOfFrame

\* A value replaces the one of its frame.
LEMMA LastAppended ==
  ASSUME NEW s \in Seq(TimedValue), NEW v \in TimedValue
  PROVE  LastOfFrame(Append(s, v)) = Put(LastOfFrame(s), v)
<1> DEFINE t == Append(s, v)
           n == Len(s)
           Newest(x, i) == \A j \in DOMAIN x : j > i => x[j].frame # x[i].frame
<1>1. /\ n \in Nat /\ DOMAIN s = 1..n /\ DOMAIN t = 1..(n + 1)
      /\ \A i \in 1..n : t[i] = s[i]
      /\ t[n + 1] = v
  BY AppendProperties, LenProperties
<1>2. /\ LastOfFrame(t) = {t[i] : i \in {i \in DOMAIN t : Newest(t, i)}}
      /\ LastOfFrame(s) = {s[i] : i \in {i \in DOMAIN s : Newest(s, i)}}
  BY DEF LastOfFrame
<1> HIDE DEF t, n
<1>3. Newest(t, n + 1)
  BY <1>1
<1>4. ASSUME NEW i \in 1..n
      PROVE  Newest(t, i) <=> Newest(s, i) /\ s[i].frame # v.frame
  <2>1. ASSUME Newest(t, i) PROVE Newest(s, i) /\ s[i].frame # v.frame
    <3>1. n + 1 \in DOMAIN t /\ n + 1 > i
      BY <1>1
    <3>2. \A j \in 1..n : j \in DOMAIN t /\ t[j] = s[j]
      BY <1>1
    <3> QED
      BY <1>1, <2>1, <3>1, <3>2
  <2>2. ASSUME Newest(s, i), s[i].frame # v.frame PROVE Newest(t, i)
    <3> SUFFICES ASSUME NEW j \in 1..(n + 1), j > i PROVE t[j].frame # t[i].frame
      BY <1>1
    <3>1. j \in 1..n \/ j = n + 1
      BY <1>1
    <3> QED
      BY <1>1, <2>2, <3>1
  <2> QED
    BY <2>1, <2>2
<1> HIDE DEF Newest
<1>5. LastOfFrame(t) \subseteq Put(LastOfFrame(s), v)
  <2> SUFFICES ASSUME NEW i \in 1..(n + 1), Newest(t, i) PROVE t[i] \in Put(LastOfFrame(s), v)
    BY <1>1, <1>2
  <2>1. CASE i = n + 1
    BY <1>1, <2>1 DEF Put
  <2>2. CASE i \in 1..n
    <3>1. Newest(s, i) /\ s[i].frame # v.frame
      BY <1>4, <2>2
    <3>2. s[i] \in LastOfFrame(s)
      BY <1>1, <1>2, <2>2, <3>1
    <3> QED
      BY <1>1, <2>2, <3>1, <3>2 DEF Put
  <2> QED
    BY <1>1, <2>1, <2>2
<1>6. Put(LastOfFrame(s), v) \subseteq LastOfFrame(t)
  <2>1. v \in LastOfFrame(t)
    BY <1>1, <1>2, <1>3
  <2>2. ASSUME NEW w \in LastOfFrame(s), w.frame # v.frame PROVE w \in LastOfFrame(t)
    <3>1. PICK i \in 1..n : Newest(s, i) /\ w = s[i]
      BY <1>1, <1>2
    <3>2. Newest(t, i)
      BY <1>4, <2>2, <3>1
    <3>3. i \in DOMAIN t /\ t[i] = w
      BY <1>1, <3>1
    <3> QED
      BY <1>2, <3>2, <3>3
  <2> QED
    BY <2>1, <2>2 DEF Put
<1> QED
  BY <1>5, <1>6 DEF t

LEMMA ValuesAtFirst == Init => Values
BY DEF Init, Values

LEMMA ValuesKept == Order /\ Values /\ [Next]_vars => Values'
<1> SUFFICES ASSUME Order, Values, [Next]_vars PROVE Values'
  OBVIOUS
<1>0. given \in Nat /\ scheduled \in Seq(TimedValue)
  BY DEF Order, Values
<1>1. <<>> \in Seq(TimedValue) /\ Len(<<>>) = 0
  OBVIOUS
\* A step of another API.
<1>2. ASSUME host # "wasm", UNCHANGED shape,
             scheduled' = scheduled \/ scheduled' = <<>>
      PROVE  Values'
  BY <1>0, <1>1, <1>2 DEF Values, host
\* What a block starts with.
<1>3. ASSUME slots = {}, timed = <<>>, span = 0, scheduled = <<>>
      PROVE  Holds
  BY <1>1, <1>3, NoLast DEF Holds
\* Opening a block.
<1>4. ASSUME host = "wasm", ~running, ~lapse
      PROVE  IF shape.control = "span"
             THEN OpenTimed = scheduled /\ OpenSpan = Len(OpenTimed)
             ELSE OpenSlots = LastOfFrame(scheduled)
  <2>1. CASE m_block_open
    BY <1>4, <2>1 DEF Values, Holds, OpenTimed, OpenSpan, OpenSlots
  <2>2. CASE ~m_block_open
    <3>1. scheduled = <<>>
      BY <1>4, <2>2 DEF Values
    <3> QED
      BY <1>1, <2>2, <3>1, NoLast DEF OpenTimed, OpenSpan, OpenSlots
  <2> QED
    BY <2>1, <2>2
\* A step after which the ports are those of an open block.
<1>5. ASSUME host = "wasm", ~running, m_block_open' \/ running',
             slots' = OpenSlots, timed' = OpenTimed, span' = OpenSpan,
             UNCHANGED <<shape, lapse, scheduled>>
      PROVE  Values'
  <2>1. ~lapse => Holds'
    BY <1>4, <1>5 DEF Holds
  <2> QED
    BY <1>0, <1>5, <2>1 DEF Values
<1>6. ASSUME NEW n \in Sizes, Activate(n) PROVE Values'
  BY <1>2, <1>6 DEF Activate, history
<1>7. ASSUME NEW n \in Sizes, SetBlockSize(n) PROVE Values'
  BY <1>2, <1>7 DEF SetBlockSize, history
<1>8. ASSUME NEW n \in Sizes, Prepare(n) PROVE Values'
  <2>1. /\ host = "wasm" /\ ~running /\ ~running' /\ lapse' = (lapse \/ Pending)
        /\ UNCHANGED <<shape, scheduled, m_block_open>>
    BY <1>8 DEF Prepare
  <2>2. ASSUME ~lapse', m_block_open' PROVE Holds'
    <3>1. ~lapse /\ scheduled = <<>>
      BY <2>1, <2>2 DEF Pending
    <3>2. Holds
      BY <2>1, <2>2, <3>1 DEF Values
    <3>3. /\ slots' \subseteq slots /\ span' = 0 /\ timed' = timed
      BY <1>8 DEF Prepare, ReserveControls
    <3> QED
      BY <1>1, <2>1, <3>1, <3>2, <3>3, NoLast DEF Holds
  <2>3. ASSUME ~lapse', ~m_block_open' PROVE scheduled' = <<>>
    BY <2>1, <2>3 DEF Values
  <2> QED
    BY <1>0, <2>1, <2>2, <2>3 DEF Values
<1>9. ASSUME NEW n \in 0..MaxEvents, ProcessEvents(n) PROVE Values'
  BY <1>2, <1>9 DEF ProcessEvents
<1>10. ASSUME NEW n \in 0..MaxEvents, ProcessWithoutAudio(n) PROVE Values'
  BY <1>2, <1>10 DEF ProcessWithoutAudio, history
<1>11. ASSUME NEW n \in 0..MaxEvents, EventInput(n) PROVE Values'
  BY <1>2, <1>11 DEF EventInput
<1>12. CASE Start
  BY <1>2, <1>12 DEF Start
<1>13. ASSUME NEW b \in BOOLEAN, SetBypass(b) PROVE Values'
  BY <1>2, <1>13 DEF SetBypass, history
<1>14. CASE ProcessBypassed
  BY <1>2, <1>14 DEF ProcessBypassed
<1>15. CASE ProcessReplacing
  BY <1>2, <1>15 DEF ProcessReplacing
<1>16. CASE BeginBlock
  <2>1. Holds'
    BY <1>1, <1>16, NoLast DEF BeginBlock, Holds
  <2> QED
    BY <1>1, <1>16, <2>1 DEF BeginBlock, Values
<1>17. CASE PushMidi
  BY <1>5, <1>17 DEF PushMidi
<1>18. ASSUME NEW frame \in Frame, ScheduleControl(frame) PROVE Values'
  <2> DEFINE v == [frame |-> frame, value |-> given + 1]
             accepted == shape.control # "none" /\ frame < buffer_size
  <2>1. /\ host = "wasm" /\ ~running /\ m_block_open'
        /\ UNCHANGED <<shape, lapse>>
    BY <1>18 DEF ScheduleControl
  <2>2. CASE ~accepted
    <3>1. UNCHANGED scheduled /\ slots' = OpenSlots /\ timed' = OpenTimed /\ span' = OpenSpan
      BY <1>18, <2>2 DEF ScheduleControl
    <3> QED
      BY <1>5, <2>1, <3>1
  <2>3. CASE accepted
    <3>1. v \in TimedValue
      BY <1>0 DEF TimedValue
    <3>2. scheduled' = Append(scheduled, v)
      BY <1>18, <2>3 DEF ScheduleControl
    <3>3. scheduled' \in Seq(TimedValue)
      BY <1>0, <3>1, <3>2, AppendProperties
    <3>4. ASSUME ~lapse, shape.control = "span" PROVE Holds'
      <4>1. timed' = Append(OpenTimed, v) /\ span' = Len(Append(OpenTimed, v))
        BY <1>18, <2>3, <3>4 DEF ScheduleControl
      <4>2. OpenTimed = scheduled
        BY <1>4, <2>1, <3>4
      <4> QED
        BY <2>1, <3>2, <3>4, <4>1, <4>2 DEF Holds
    <3>5. ASSUME ~lapse, shape.control # "span" PROVE Holds'
      <4>1. slots' = Put(OpenSlots, v)
        BY <1>18, <2>3, <3>5 DEF ScheduleControl
      <4>2. OpenSlots = LastOfFrame(scheduled)
        BY <1>4, <2>1, <3>5
      <4>3. LastOfFrame(scheduled') = Put(LastOfFrame(scheduled), v)
        BY <1>0, <3>1, <3>2, LastAppended
      <4> QED
        BY <2>1, <3>5, <4>1, <4>2, <4>3 DEF Holds
    <3> QED
      BY <2>1, <3>3, <3>4, <3>5 DEF Values
  <2> QED
    BY <2>2, <2>3
<1>19. CASE Process
  BY <1>5, <1>19 DEF Process, Run
<1>20. CASE EndBlock
  <2>1. running /\ ~running' /\ scheduled' = <<>> /\ UNCHANGED <<shape, m_block_open>>
    BY <1>20 DEF EndBlock
  <2>2. host = "wasm" => ~m_block_open
    BY <2>1 DEF Order
  <2> QED
    BY <1>1, <2>1, <2>2 DEF Values, host
<1>21. CASE UNCHANGED vars
  BY <1>0, <1>21 DEF vars, ports, controls, history, Values, Holds, host
<1> QED
  BY <1>6, <1>7, <1>8, <1>9, <1>10, <1>11, <1>12, <1>13, <1>14, <1>15, <1>16,
     <1>17, <1>18, <1>19, <1>20, <1>21 DEF Next

\* The control of a WASM block holds the values scheduled in it: all of them for
\* a span, the last one of each frame otherwise.
THEOREM HoldsOwnValues == Spec => []OwnValues
<1>1. Values => OwnValues
  <2> SUFFICES ASSUME Values, running, host = "wasm", ~lapse
               PROVE  IF shape.control = "span" THEN Seen = scheduled
                      ELSE slots = LastOfFrame(scheduled)
    BY DEF OwnValues
  <2>1. Holds
    BY DEF Values
  <2>2. ASSUME shape.control = "span" PROVE Seen = scheduled
    <3>1. /\ timed = scheduled /\ span = Len(timed) /\ timed \in Seq(TimedValue)
      BY <2>1, <2>2 DEF Holds, Values
    <3>2. span \in Nat /\ DOMAIN timed = 1..span
      BY <3>1, LenProperties
    <3>3. Seen = [i \in 1..span |-> timed[i]]
      BY <3>2 DEF Seen
    <3>4. timed = [i \in DOMAIN timed |-> timed[i]]
      BY <3>1, SeqDef
    <3> QED
      BY <3>1, <3>2, <3>3, <3>4
  <2> QED
    BY <2>1, <2>2 DEF Holds
<1> QED
  BY <1>1, OrderAtFirst, OrderKept, ValuesAtFirst, ValuesKept, PTL DEF Spec

-----------------------------------------------------------------------------
(* The controls of VST2                                                    *)

InBlock == doing["audio"] \in {"write", "run"} /\ ~raced

\* The place of a pair in the order of the copy.
Place(i, p) == (i - 1) * Params + (p - 1)

\* The positions of both threads, and the shape of the instances.
Shaped ==
  /\ at \in [Thread -> Nat]
  /\ DOMAIN doing = Thread /\ DOMAIN loaded = Thread
  /\ DOMAIN parameters = Param /\ DOMAIN held = Param
  /\ DOMAIN inputs = 1..Instances
  /\ \A i \in 1..Instances : DOMAIN inputs[i] = Param

\* SetProgram writes no instance behind the back of an undisturbed block.
OnlyWriter == InBlock => doing["ui"] # "write"

\* The atomics themselves are held, and so is the value on its way.
AtomicsHeld == InBlock => \A p \in Param : parameters[p] \in held[p]
LoadedHeld ==
  InBlock /\ loaded["audio"] # "none" => loaded["audio"] \in held[ParamAt(at["audio"])]

\* A value that was loaded is stored before the copy ends.
NotLoaded == loaded["audio"] # "none" => doing["audio"] = "write" /\ at["audio"] < Stores

\* What the copy has passed is held.
CopiedSoFar ==
  InBlock => \A i \in 1..Instances, p \in Param :
               Place(i, p) < at["audio"] \/ doing["audio"] = "run" => inputs[i][p] \in held[p]

ControlsInv == Shaped /\ OnlyWriter /\ AtomicsHeld /\ LoadedHeld /\ NotLoaded /\ CopiedSoFar

-----------------------------------------------------------------------------
\* Division with remainder has one solution.
LEMMA Quotient ==
  ASSUME NEW m \in Nat \ {0}, NEW q \in Nat, NEW r \in 0..m - 1
  PROVE  (q * m + r) \div m = q /\ (q * m + r) % m = r
<1> DEFINE n == q * m + r
           d == n \div m
           s == n % m
<1>1. q * m \in Nat /\ n \in Nat
  OBVIOUS
<1>2. d \in Int /\ s \in 0..m - 1 /\ n = m * d + s
  BY <1>1
<1>3. m * (q - d) = s - r
  BY <1>2
<1> HIDE DEF d, s
<1>4. CASE q - d >= 1
  <2>1. m * (q - d) >= m
    BY <1>2, <1>4
  <2> QED
    BY <1>2, <1>3, <2>1
<1>5. CASE q - d <= -1
  <2>1. m * (q - d) <= -m
    BY <1>2, <1>5
  <2> QED
    BY <1>2, <1>3, <2>1
<1>6. q = d
  BY <1>2, <1>4, <1>5
<1>7. s = r
  BY <1>2, <1>3, <1>6
<1> QED
  BY <1>6, <1>7 DEF d, s

\* Each pair has the place the copy gives it, and each place before the end is one.
LEMMA Places ==
  ASSUME NEW i \in 1..Instances, NEW p \in Param
  PROVE  /\ Place(i, p) \in 0..Stores - 1
         /\ InstanceAt(Place(i, p)) = i /\ ParamAt(Place(i, p)) = p
<1> USE VintageAssumption DEF Param
<1>1. i - 1 \in Nat /\ p - 1 \in 0..Params - 1
  OBVIOUS
<1>2. Place(i, p) \div Params = i - 1 /\ Place(i, p) % Params = p - 1
  BY <1>1, Quotient DEF Place
<1>3. Place(i, p) \in Nat
  BY <1>1 DEF Place
<1>4. Place(i, p) < Stores
  <2>1. (i - 1) * Params + Params = i * Params
    OBVIOUS
  <2>2. i * Params <= Instances * Params
    OBVIOUS
  <2>3. Stores \in Nat /\ i * Params \in Nat /\ (i - 1) * Params \in Nat
    BY <1>1 DEF Stores
  <2> QED
    BY <1>1, <2>1, <2>2, <2>3 DEF Place, Stores
<1>5. Stores \in Nat
  BY DEF Stores
<1> QED
  BY <1>2, <1>3, <1>4, <1>5 DEF InstanceAt, ParamAt

-----------------------------------------------------------------------------
LEMMA ControlsInvInit == ControlsInit => ControlsInv
<1> SUFFICES ASSUME ControlsInit PROVE ControlsInv
  OBVIOUS
<1> USE DEF ControlsInit, Thread
<1>1. Shaped
  <2>1. 1 \in 1..Instances
    BY VintageAssumption
  <2> QED
    BY <2>1 DEF Shaped
<1>2. ~InBlock
  BY DEF InBlock
<1>3. NotLoaded
  BY DEF NotLoaded
<1> QED
  BY <1>1, <1>2, <1>3 DEF ControlsInv, OnlyWriter, AtomicsHeld, LoadedHeld, CopiedSoFar

LEMMA ControlsInvKept == ControlsInv /\ [ControlsNext]_controlsVars => ControlsInv'
<1> SUFFICES ASSUME ControlsInv, [ControlsNext]_controlsVars PROVE ControlsInv'
  OBVIOUS
<1> USE VintageAssumption DEF Thread
<1>0. Shaped /\ OnlyWriter /\ AtomicsHeld /\ LoadedHeld /\ NotLoaded /\ CopiedSoFar
  BY DEF ControlsInv
<1>1. CASE UNCHANGED controlsVars
  BY <1>1 DEF controlsVars, threadVars, ControlsInv, Shaped, OnlyWriter, AtomicsHeld,
              LoadedHeld, NotLoaded,
              CopiedSoFar, InBlock
<1>2. CASE BeginProcess
  <2>1. Shaped'
    BY <1>0, <1>2 DEF BeginProcess, Shaped
  <2>2. /\ doing["audio"] = "idle" /\ doing'["audio"] = "write" /\ doing'["ui"] = doing["ui"]
        /\ loaded' = loaded /\ loaded["audio"] = "none"
        /\ at'["audio"] = 0 /\ UNCHANGED <<parameters, inputs>>
        /\ \A p \in Param : held'[p] = {parameters[p]}
        /\ raced' = (doing["ui"] = "write")
    BY <1>0, <1>2 DEF BeginProcess, Shaped, NotLoaded
  <2>3. \A i \in 1..Instances, p \in Param : ~(Place(i, p) < 0)
    BY Places DEF Stores
  <2> QED
    BY <2>1, <2>2, <2>3 DEF ControlsInv, OnlyWriter, AtomicsHeld, LoadedHeld, NotLoaded,
                            CopiedSoFar,
                            InBlock, Place
<1>3. CASE Load("audio")
  <2>1. /\ doing["audio"] = "write" /\ at["audio"] < Stores
        /\ loaded'["audio"] = parameters[ParamAt(at["audio"])]
        /\ DOMAIN loaded' = Thread
        /\ UNCHANGED <<parameters, inputs, doing, at, held, raced>>
    BY <1>0, <1>3 DEF Load, Shaped
  <2>2. ParamAt(at["audio"]) \in Param
    BY <1>0 DEF Shaped, ParamAt, Param
  <2> QED
    BY <1>0, <2>1, <2>2 DEF ControlsInv, Shaped, OnlyWriter, AtomicsHeld, LoadedHeld, NotLoaded,
                            CopiedSoFar, InBlock
<1>4. CASE Store("audio")
  <2> DEFINE n == at["audio"]
             k == InstanceAt(n)
             q == ParamAt(n)
  <2>1. /\ doing["audio"] = "write" /\ loaded["audio"] # "none" /\ loaded'["audio"] = "none"
        /\ at'["audio"] = n + 1 /\ n \in Nat /\ at' \in [Thread -> Nat] /\ DOMAIN loaded' = Thread
        /\ inputs' = [inputs EXCEPT ![k][q] = loaded["audio"]]
        /\ UNCHANGED <<parameters, doing, held, raced>>
    BY <1>0, <1>4 DEF Store, Shaped
  <2>2. Shaped'
    BY <1>0, <2>1 DEF Shaped
  <2>3. CopiedSoFar'
    <3> SUFFICES ASSUME InBlock, NEW i \in 1..Instances, NEW p \in Param, Place(i, p) < n + 1
                 PROVE  inputs'[i][p] \in held[p]
      BY <2>1 DEF CopiedSoFar, InBlock
    <3>1. Place(i, p) \in Nat /\ InstanceAt(Place(i, p)) = i /\ ParamAt(Place(i, p)) = p
      BY Places DEF Stores
    <3>2. CASE i = k /\ p = q
      <4>1. inputs'[i][p] = loaded["audio"]
        BY <1>0, <2>1, <3>2 DEF Shaped
      <4> QED
        BY <1>0, <2>1, <3>2, <4>1 DEF LoadedHeld
    <3>3. CASE ~(i = k /\ p = q)
      <4>1. Place(i, p) # n
        BY <3>1, <3>3
      <4>2. Place(i, p) < n
        BY <2>1, <3>1, <4>1
      <4>3. inputs'[i][p] = inputs[i][p]
        BY <1>0, <2>1, <3>3 DEF Shaped
      <4> QED
        BY <1>0, <4>2, <4>3 DEF CopiedSoFar
    <3> QED
      BY <3>2, <3>3
  <2> QED
    BY <1>0, <2>1, <2>2, <2>3 DEF ControlsInv, OnlyWriter, AtomicsHeld, LoadedHeld,
                                  NotLoaded, InBlock
<1>5. CASE RunInstances
  <2>1. /\ doing["audio"] = "write" /\ at["audio"] = Stores /\ doing'["audio"] = "run"
        /\ doing'["ui"] = doing["ui"] /\ DOMAIN doing' = Thread
        /\ UNCHANGED <<parameters, inputs, at, loaded, held, raced>>
    BY <1>0, <1>5 DEF RunInstances, Written, Shaped
  <2>2. \A i \in 1..Instances, p \in Param : Place(i, p) < Stores
    BY Places DEF Stores
  <2>3. loaded["audio"] = "none"
    BY <1>0, <2>1 DEF NotLoaded, Stores
  <2>4. CopiedSoFar'
    BY <1>0, <2>1, <2>2 DEF CopiedSoFar, InBlock
  <2> QED
    BY <1>0, <2>1, <2>3, <2>4 DEF ControlsInv, Shaped, OnlyWriter, AtomicsHeld, LoadedHeld,
                                  NotLoaded, InBlock
<1>6. CASE EndProcess
  <2>1. ~InBlock'
    BY <1>0, <1>6 DEF EndProcess, InBlock, Shaped
  <2>2. Shaped' /\ NotLoaded'
    BY <1>0, <1>6 DEF EndProcess, Shaped, NotLoaded
  <2> QED
    BY <2>1, <2>2 DEF ControlsInv, OnlyWriter, AtomicsHeld, LoadedHeld, CopiedSoFar
\* A store to an atomic of the running block is held.
<1>7. ASSUME NEW p \in Param, NEW v, Set(p, v), at' \in [Thread -> Nat], DOMAIN doing' = Thread,
             at'["audio"] = at["audio"], doing' = doing, UNCHANGED <<inputs, loaded, raced>>
      PROVE  ControlsInv'
  <2>1. \A q \in Param : /\ parameters'[q] = (IF q = p THEN v ELSE parameters[q])
                         /\ held'[q] = held[q] \/ held'[q] = held[q] \cup {v}
                         /\ q = p => v \in held'[q]
    BY <1>0, <1>7 DEF Set, Shaped
  <2>2. Shaped'
    BY <1>0, <1>7 DEF Set, Shaped
  <2>3. AtomicsHeld'
    BY <1>0, <1>7, <2>1 DEF AtomicsHeld, InBlock
  <2>4. LoadedHeld'
    <3>1. ParamAt(at["audio"]) \in Param
      BY <1>0 DEF Shaped, ParamAt, Param
    <3> QED
      BY <1>0, <1>7, <2>1, <3>1 DEF LoadedHeld, InBlock
  <2>5. CopiedSoFar'
    BY <1>0, <1>7, <2>1 DEF CopiedSoFar, InBlock
  <2>6. OnlyWriter' /\ NotLoaded'
    BY <1>0, <1>7 DEF OnlyWriter, NotLoaded, InBlock
  <2> QED
    BY <2>2, <2>3, <2>4, <2>5, <2>6 DEF ControlsInv
<1>8. ASSUME NEW p \in Param, NEW v \in Value, SetParameter(p, v) PROVE ControlsInv'
  <2>1. at' \in [Thread -> Nat] /\ DOMAIN doing' = Thread /\ Set(p, v)
        /\ UNCHANGED <<at, doing, inputs, loaded, raced>>
    BY <1>0, <1>8 DEF SetParameter, threadVars, Shaped
  <2> QED
    BY <1>7, <2>1
\* A step of the interface that stores nothing.
<1>9. ASSUME at' \in [Thread -> Nat], DOMAIN doing' = Thread, DOMAIN loaded' = Thread,
             at'["audio"] = at["audio"], doing'["audio"] = doing["audio"],
             loaded'["audio"] = loaded["audio"], UNCHANGED <<parameters, inputs, held>>,
             raced' \/ (raced' = raced /\ (doing'["ui"] = "write" => doing["ui"] = "write"))
      PROVE  ControlsInv'
  BY <1>0, <1>9 DEF ControlsInv, Shaped, OnlyWriter, AtomicsHeld, LoadedHeld, NotLoaded,
                    CopiedSoFar,
                    InBlock
<1>10. ASSUME NEW preset \in Programs, SetProgram(preset) PROVE ControlsInv'
  BY <1>0, <1>9, <1>10 DEF SetProgram, Shaped
<1>11. CASE ReadProgram
  <2>1. /\ at' = [at EXCEPT !["ui"] = at["ui"] + 1]
        /\ Set(at["ui"] + 1, program[at["ui"] + 1])
        /\ UNCHANGED <<doing, inputs, loaded, raced>> /\ at["ui"] < Params
        /\ doing["ui"] = "read"
    BY <1>11 DEF ReadProgram
  <2>2. at["ui"] + 1 \in Param
    BY <1>0, <2>1 DEF Shaped, Param
  <2> QED
    BY <1>0, <1>7, <2>1, <2>2 DEF Shaped
<1>12. CASE WriteProgram
  BY <1>0, <1>9, <1>12 DEF WriteProgram, Shaped
<1>13. CASE Load("ui")
  BY <1>0, <1>9, <1>13 DEF Load, Shaped
<1>14. CASE EndProgram
  BY <1>0, <1>9, <1>14 DEF EndProgram, Written, Shaped
<1>15. CASE Store("ui")
  <2>1. doing["ui"] = "write" /\ UNCHANGED <<parameters, doing, held, raced>>
    BY <1>15 DEF Store
  <2>2. ~InBlock'
    BY <1>0, <2>1 DEF OnlyWriter, InBlock
  <2>3. Shaped' /\ NotLoaded'
    BY <1>0, <1>15 DEF Store, Shaped, NotLoaded
  <2> QED
    BY <2>2, <2>3 DEF ControlsInv, OnlyWriter, AtomicsHeld, LoadedHeld, CopiedSoFar
<1> QED
  BY <1>1, <1>2, <1>3, <1>4, <1>5, <1>6, <1>8, <1>10, <1>11, <1>12, <1>13, <1>14, <1>15
     DEF ControlsNext, Audio, Interface

\* An undisturbed block runs with values its parameters had since it began.
THEOREM HoldsDuringBlock == ControlsSpec => []HeldDuringBlock
<1>1. ControlsInv => HeldDuringBlock
  BY DEF ControlsInv, CopiedSoFar, InBlock, HeldDuringBlock
<1> QED
  BY <1>1, ControlsInvInit, ControlsInvKept, PTL DEF ControlsSpec
=============================================================================
