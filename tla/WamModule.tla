------------------------------ MODULE WamModule ------------------------------
(***************************************************************************)
(* A processor as a Web Audio Module (binding/wasm/js/wam): the node on    *)
(* the main thread with its cache of parameter values (node.js.in), the    *)
(* processor on the audio thread that loads the plug-in asynchronously     *)
(* (processor.js.in), the message port between them, and a GUI that polls  *)
(* the node (gui.js.in).                                                   *)
(*                                                                         *)
(* A parameter of several components is one WAM parameter per component;   *)
(* the processor puts the vector together again.  An id is a pair of a     *)
(* plug-in parameter and a component.  A value is the number of the call   *)
(* that wrote it, Default before any, Zero where a vector was filled up.   *)
(***************************************************************************)
EXTENDS Integers, Sequences

CONSTANTS Components,  \* of each parameter of the plug-in, how many
          Calls,       \* the ids that one call writes: Object.keys() of what the
                       \* caller passes, in its order
          MaxWrites    \* bound on calls that write parameters

ParamId == UNION {{i} \X (1..Components[i]) : i \in DOMAIN Components}

ASSUME WamAssumption ==
  /\ \A i \in DOMAIN Components : Components[i] \in Nat \ {0}
  /\ Calls \subseteq Seq(ParamId)
  /\ MaxWrites \in Nat \ {0}

Default == 0
Zero == -1

VARIABLES
  values,    \* the node: _values
  procReady, \* the node: _procReady
  toProcessor, toNode,  \* the port
  phase,     \* the processor: waiting, loading, replaying what waited, ready
             \* (_ready) or failed
  pending,   \* _pending
  vec,       \* _vec
  plugin,    \* _plugin and its buffers: none or live
  params,       \* the parameters of the plug-in
  destroyed, \* the host has called destroy()
  gui,       \* closed, polling, or detached from the document once
  shown,     \* what the GUI shows
  writes,    \* bound
  written,   \* history: the ids that were ever written
  delivered  \* history: the last value of each that reached the processor

wamNode == <<values, procReady, writes, written>>
processor == <<phase, pending, vec, plugin, params, delivered>>
wamVars == <<wamNode, toProcessor, toNode, processor, destroyed, gui, shown>>

WamTypeOK ==
  /\ values \in [ParamId -> 0..MaxWrites]
  /\ procReady \in BOOLEAN /\ destroyed \in BOOLEAN
  /\ phase \in {"waiting", "loading", "replaying", "ready", "failed"}
  /\ plugin \in {"none", "live"}
  /\ params \in [ParamId -> -1..MaxWrites]
  /\ DOMAIN vec \subseteq DOMAIN Components
  /\ gui \in {"closed", "polling", "detached"}
  /\ shown \in [ParamId -> 0..MaxWrites]
  /\ delivered \in [ParamId -> 0..MaxWrites]
  /\ writes \in 0..MaxWrites
  /\ written \subseteq ParamId

AvndSetParam(id, v) == [type |-> "setParam", id |-> id, value |-> v]
AvndLoad == [type |-> "load"]

Ids(call) == {call[k] : k \in DOMAIN call}

\* _writeParam() for each id of a call.
Writes(call, v) == [k \in DOMAIN call |-> AvndSetParam(call[k], v)]
Written(ids, v) == [id \in ParamId |-> IF id \in ids THEN v ELSE values[id]]

\* createAudioNode(): the node, the load, and the values of an initial state.
WamInit ==
  /\ \E call \in Calls :
       /\ writes = 1
       /\ values = [id \in ParamId |-> IF id \in Ids(call) THEN 1 ELSE Default]
       /\ written = Ids(call)
       /\ toProcessor = <<AvndLoad>> \o Writes(call, 1)
  /\ procReady = FALSE
  /\ toNode = <<>>
  /\ phase = "waiting"
  /\ pending = <<>>
  /\ vec = <<>>
  /\ plugin = "none"
  /\ params = [id \in ParamId |-> Default]
  /\ delivered = params
  /\ destroyed = FALSE
  /\ gui = "closed"
  /\ shown = values

-----------------------------------------------------------------------------
(* The node                                                                *)

\* setParameterValues(), setState() and an automation event of the host.
SetParameterValues(call) ==
  /\ writes < MaxWrites
  /\ writes' = writes + 1
  /\ values' = Written(Ids(call), writes + 1)
  /\ written' = written \cup Ids(call)
  /\ toProcessor' = toProcessor \o Writes(call, writes + 1)
  /\ UNCHANGED <<procReady, toNode, processor, destroyed, gui, shown>>

\* _onProcMessage(): an error goes to the console.
OnProcMessage ==
  /\ toNode # <<>>
  /\ toNode' = Tail(toNode)
  /\ procReady' = (procReady \/ Head(toNode) = "ready")
  /\ UNCHANGED <<values, writes, written, toProcessor, processor, destroyed, gui, shown>>

-----------------------------------------------------------------------------
(* The GUI                                                                 *)

\* createElement(): the rows show the values, and the poll begins.
OpenGui ==
  /\ gui = "closed"
  /\ gui' = "polling"
  /\ shown' = values
  /\ UNCHANGED <<wamNode, toProcessor, toNode, processor, destroyed>>

\* _refresh()
Refresh ==
  /\ gui = "polling"
  /\ shown' = values
  /\ UNCHANGED <<wamNode, toProcessor, toNode, processor, destroyed, gui>>

\* A row is moved: it shows its value at once and writes it.
MoveControl(id) ==
  /\ gui # "closed"
  /\ writes < MaxWrites
  /\ writes' = writes + 1
  /\ values' = Written({id}, writes + 1)
  /\ written' = written \cup {id}
  /\ toProcessor' = Append(toProcessor, AvndSetParam(id, writes + 1))
  /\ shown' = [shown EXCEPT ![id] = writes + 1]
  /\ UNCHANGED <<procReady, toNode, processor, destroyed, gui>>

\* disconnectedCallback(), when the host moves the element in the document: the
\* poll ends, and nothing begins it again.
Disconnected ==
  /\ gui = "polling"
  /\ gui' = "detached"
  /\ UNCHANGED <<wamNode, toProcessor, toNode, processor, destroyed, shown>>

-----------------------------------------------------------------------------
(* The processor                                                           *)

NewVector(i) == [c \in 1..Components[i] |-> Zero]

\* The vector of a parameter with one more component.
Combined(m) ==
  LET i == m.id[1]
      old == IF i \in DOMAIN vec THEN vec[i] ELSE NewVector(i)
  IN [old EXCEPT ![m.id[2]] = m.value]

\* _applyRaw(): a component goes into the vector of its parameter, which is set
\* as a whole; a vector begins with zeros.
ApplyRaw(m) ==
  LET i == m.id[1] IN
  \/ plugin = "none" /\ UNCHANGED <<vec, params>>
  \/ /\ plugin = "live"
     /\ vec' = IF Components[i] = 1 THEN vec
               ELSE [j \in DOMAIN vec \cup {i} |-> IF j = i THEN Combined(m) ELSE vec[j]]
     /\ params' = [id \in ParamId |-> IF id[1] = i THEN Combined(m)[id[2]] ELSE params[id]]

\* _onAvndMessage().  Not while what waited is replayed: that is a loop of the
\* same thread.
OnAvndMessage ==
  /\ toProcessor # <<>>
  /\ phase # "replaying"
  /\ toProcessor' = Tail(toProcessor)
  /\ LET m == Head(toProcessor) IN
     \/ /\ m.type = "load"
        /\ phase' = "loading"
        /\ UNCHANGED <<pending, vec, params, delivered>>
     \/ /\ m.type = "setParam" /\ phase = "ready"
        /\ ApplyRaw(m)
        /\ delivered' = [delivered EXCEPT ![m.id] = m.value]
        /\ UNCHANGED <<phase, pending>>
     \/ /\ m.type = "setParam" /\ phase # "ready"
        /\ pending' = Append(pending, m)
        /\ delivered' = [delivered EXCEPT ![m.id] = m.value]
        /\ UNCHANGED <<phase, vec, params>>
  /\ UNCHANGED <<wamNode, toNode, plugin, destroyed, gui, shown>>

\* _loadWasm(): there is a prepared plug-in with its buffers.
WasmInstantiated ==
  /\ phase = "loading"
  /\ phase' = "replaying"
  /\ plugin' = "live"
  /\ UNCHANGED <<wamNode, toProcessor, toNode, pending, vec, params, delivered, destroyed, gui, shown>>

\* A mutant of the loop: the last message is taken first.
ReplayLast ==
  /\ phase = "replaying" /\ pending # <<>>
  /\ ApplyRaw(pending[Len(pending)])
  /\ pending' = SubSeq(pending, 1, Len(pending) - 1)
  /\ UNCHANGED <<wamNode, toProcessor, toNode, phase, plugin, delivered, destroyed, gui, shown>>

\* A mutant of the loop: what waited is forgotten.
ReplayNever ==
  /\ phase = "replaying" /\ pending # <<>>
  /\ pending' = <<>>
  /\ UNCHANGED <<wamNode, toProcessor, toNode, phase, plugin, vec, params, delivered, destroyed, gui, shown>>

\* What waited is applied, one message after the other, while the page goes on.
Replay ==
  /\ phase = "replaying" /\ pending # <<>>
  /\ ApplyRaw(Head(pending))
  /\ pending' = Tail(pending)
  /\ UNCHANGED <<wamNode, toProcessor, toNode, phase, plugin, delivered, destroyed, gui, shown>>

\* The end of _loadWasm().
WasmReady ==
  /\ phase = "replaying" /\ pending = <<>>
  /\ phase' = "ready"
  /\ toNode' = Append(toNode, "ready")
  /\ UNCHANGED <<wamNode, toProcessor, pending, vec, plugin, params, delivered, destroyed, gui, shown>>

\* The module does not load; or the plug-in is there and prepare() or the
\* allocation of a buffer fails.
WasmFailed ==
  /\ phase = "loading"
  /\ phase' = "failed"
  /\ plugin' \in {"none", "live"}
  /\ toNode' = Append(toNode, "error")
  /\ UNCHANGED <<wamNode, toProcessor, pending, vec, params, delivered, destroyed, gui, shown>>

\* destroy(): _ready stays, and a load goes on.
Destroy ==
  /\ ~destroyed
  /\ phase # "replaying"
  /\ destroyed' = TRUE
  /\ plugin' = "none"
  /\ UNCHANGED <<wamNode, toProcessor, toNode, phase, pending, vec, params, delivered, gui,
                 shown>>

\* The steps of _loadWasm() after its request.
LoadWasm == WasmInstantiated \/ Replay \/ WasmReady \/ WasmFailed

-----------------------------------------------------------------------------
WamNext ==
  \/ \E call \in Calls \ {<<>>} : SetParameterValues(call)
  \/ \E id \in ParamId : MoveControl(id)
  \/ OnProcMessage
  \/ OpenGui \/ Refresh \/ Disconnected
  \/ OnAvndMessage \/ LoadWasm
  \/ Destroy

WamSpec == WamInit /\ [][WamNext]_wamVars

\* The event loops deliver the messages and run the timer, and a load ends.
FairWamSpec ==
  /\ WamSpec
  /\ WF_wamVars(OnProcMessage) /\ WF_wamVars(OnAvndMessage)
  /\ WF_wamVars(LoadWasm)
  /\ WF_wamVars(Refresh)

-----------------------------------------------------------------------------
Running == phase = "ready" /\ ~destroyed

\* Every value that was written, before, during or after the load, of a whole
\* parameter or a component of one, ends up in the plug-in; the node knows that
\* it is ready; and a GUI that polls shows what the node has.
NodeAndPluginAgree ==
  /\ <>[](Running => procReady /\ \A id \in written : params[id] = values[id])
  /\ <>[](gui = "polling" => shown = values)

\* What waits for the load is applied as if it had not waited: a running plug-in
\* has, of each parameter or component that was ever set, the value that reached
\* the processor last (processor.js.in:118-119, 139-141).
LatestDelivered ==
  Running => \A id \in ParamId : delivered[id] # Default => params[id] = delivered[id]

-----------------------------------------------------------------------------
(* What comments say, and TLC refutes                                      *)

\* "raw value cache, seeded from defaults" (node.js.in:25) and "recombining
\* compound (vector) params from components" (processor.js.in:148): the node and
\* the plug-in agree on every component.  Refuted: the vector is filled with
\* zeros (155), the cache with defaults.
ComponentsAgree ==
  Running /\ toProcessor = <<>> => params = values

\* "Poll for host-automation changes" (gui.js.in:55).  Refuted for an element
\* that was taken out of the document and put back.
GuiFollows == <>[](gui # "closed" => shown = values)

\* destroy() deletes the plug-in and frees the buffers (processor.js.in:183).
\* Refuted: a load that was running makes them again.
FreedForGood == destroyed => plugin = "none"
=============================================================================
