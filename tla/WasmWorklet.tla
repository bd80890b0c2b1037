----------------------------- MODULE WasmWorklet -----------------------------
(***************************************************************************)
(* The page and the audio worklet of the WASM binding: standalone.js.in on *)
(* the main thread, worklet.js.in on the audio thread, and the two ordered *)
(* channels of the node's message port between them.  The worklet loads    *)
(* its module asynchronously; what arrives before that waits in            *)
(* _pendingParams.  Stopping drops the node, but not what it has posted.   *)
(*                                                                         *)
(* One parameter and one kind of plug-in message are enough: neither end   *)
(* looks across indices.                                                   *)
(***************************************************************************)
EXTENDS Naturals, Sequences

CONSTANTS MaxNodes,     \* bound: how often Start is pressed
          MaxEdits,     \* bound: how often the user moves the control
          MaxMessages   \* bound: how many plug-in messages the user sends

ASSUME WorkletAssumption == MaxNodes \in Nat /\ MaxEdits \in Nat /\ MaxMessages \in Nat

Node == 1..MaxNodes
None == 0

VARIABLES
  node,         \* the page's AudioWorkletNode, None before Start and after Stop
  created,      \* how many nodes there were
  paramValue,   \* paramValues: the last edit, None when the control was not moved
  nextMessage,  \* the number of the next plug-in message
  toWorklet,    \* what the page posted to each node and the worklet has not read
  toMain,       \* what each worklet posted and the page has not read
  state,        \* each worklet: absent, waiting for init, loading, draining what
                \* waited, ready or failed
  pendingParams,      \* its _pendingParams
  dsp,          \* the value of the parameter in its plug-in instance
  log,          \* the messages its plug-in instance received
  posted,       \* history: the plug-in messages posted to each node
  lost          \* history: the page has handled a ready message without a node

page == <<node, created, paramValue, nextMessage, posted, lost>>
worklet == <<state, pendingParams, dsp, log>>
vars == <<page, worklet, toWorklet, toMain>>

SetParam(v) == [type |-> "setParam", value |-> v]
Message(m) == [type |-> "message", value |-> m]

Init ==
  /\ node = None /\ created = 0
  /\ paramValue = None
  /\ nextMessage = 1
  /\ toWorklet = [n \in Node |-> <<>>]
  /\ toMain = [n \in Node |-> <<>>]
  /\ state = [n \in Node |-> "absent"]
  /\ pendingParams = [n \in Node |-> <<>>]
  /\ dsp = [n \in Node |-> None]
  /\ log = [n \in Node |-> <<>>]
  /\ posted = [n \in Node |-> <<>>]
  /\ lost = FALSE

-----------------------------------------------------------------------------
(* The page                                                                *)

\* start(), once its fetches are done: a node, and the bytes posted to it.
Start ==
  /\ node = None
  /\ created < MaxNodes
  /\ created' = created + 1
  /\ node' = created + 1
  /\ toWorklet' = [toWorklet EXCEPT ![created + 1] = <<[type |-> "init", value |-> None]>>]
  /\ state' = [state EXCEPT ![created + 1] = "waiting"]
  /\ UNCHANGED <<paramValue, nextMessage, posted, lost, toMain, pendingParams, dsp, log>>

Stop ==
  /\ node # None
  /\ node' = None
  /\ UNCHANGED <<created, paramValue, nextMessage, posted, lost, worklet,
                 toWorklet, toMain>>

\* sendParam(): remember the value, and post it when there is a node.
SendParam ==
  /\ paramValue < MaxEdits
  /\ paramValue' = paramValue + 1
  /\ toWorklet' = IF node = None THEN toWorklet
                  ELSE [toWorklet EXCEPT ![node] = Append(@, SetParam(paramValue + 1))]
  /\ UNCHANGED <<node, created, nextMessage, posted, lost, worklet, toMain>>

\* sendMessage(): only a node gets it.
SendMessage ==
  /\ nextMessage <= MaxMessages
  /\ nextMessage' = nextMessage + 1
  /\ IF node = None THEN UNCHANGED <<toWorklet, posted>>
     ELSE /\ toWorklet' = [toWorklet EXCEPT ![node] = Append(@, Message(nextMessage))]
          /\ posted' = [posted EXCEPT ![node] = Append(@, nextMessage)]
  /\ UNCHANGED <<node, created, paramValue, lost, worklet, toMain>>

\* A mutant: the ready message only sets the status.
OnReadyUnseeded(n) == UNCHANGED <<toWorklet, lost>>

\* A mutant: the ready message's own descriptors are the seed.
OnReadyDefaults(n) ==
  /\ toWorklet' = IF node = None THEN toWorklet
                  ELSE [toWorklet EXCEPT ![node] = Append(@, SetParam(None))]
  /\ UNCHANGED lost

\* The ready message: the known value goes to the node of the moment, which
\* may be another one than the sender, or none.
OnReady(n) ==
  /\ lost' = (lost \/ (node = None /\ paramValue # None))
  /\ toWorklet' = IF node = None \/ paramValue = None THEN toWorklet
                  ELSE [toWorklet EXCEPT ![node] = Append(@, SetParam(paramValue))]

\* onWorkletMessage(): callbacks are shown, errors end in the status line.
OnWorkletMessage(n) ==
  /\ toMain[n] # <<>>
  /\ toMain' = [toMain EXCEPT ![n] = Tail(@)]
  /\ IF Head(toMain[n]).type = "ready" THEN OnReady(n)
     ELSE UNCHANGED <<toWorklet, lost>>
  /\ UNCHANGED <<node, created, paramValue, nextMessage, posted, worklet>>

-----------------------------------------------------------------------------
(* The worklet                                                             *)

\* _applyParam(): the parameter is set; or the plug-in gets the message, and the
\* callbacks that it emits are flushed.
Apply(n, m) ==
  \/ /\ m.type = "setParam"
     /\ dsp' = [dsp EXCEPT ![n] = m.value]
     /\ UNCHANGED <<log, toMain>>
  \/ /\ m.type = "message"
     /\ log' = [log EXCEPT ![n] = Append(@, m.value)]
     /\ toMain' = [toMain EXCEPT ![n] = Append(@, [type |-> "callbacks", value |-> m.value])]
     /\ UNCHANGED dsp

\* A mutant: messages before ready are dropped.
DropEarly(n) ==
  /\ toWorklet[n] # <<>>
  /\ toWorklet' = [toWorklet EXCEPT ![n] = Tail(@)]
  /\ LET m == Head(toWorklet[n]) IN
     \/ /\ m.type = "init"
        /\ state' = [state EXCEPT ![n] = "loading"]
        /\ UNCHANGED <<pendingParams, dsp, log, toMain>>
     \/ /\ state[n] = "ready"
        /\ Apply(n, m)
        /\ UNCHANGED <<state, pendingParams>>
     \/ /\ m.type # "init" /\ state[n] # "ready"
        /\ UNCHANGED <<pendingParams, state, dsp, log, toMain>>
  /\ UNCHANGED page

\* _onMessage(): init starts loading, everything else is applied or kept.  Not
\* while what waited is drained: that is a loop of the same thread.
OnMessage(n) ==
  /\ toWorklet[n] # <<>>
  /\ state[n] # "draining"
  /\ toWorklet' = [toWorklet EXCEPT ![n] = Tail(@)]
  /\ LET m == Head(toWorklet[n]) IN
     \/ /\ m.type = "init"
        /\ state' = [state EXCEPT ![n] = "loading"]
        /\ UNCHANGED <<pendingParams, dsp, log, toMain>>
     \/ /\ m.type # "init" /\ state[n] = "ready"
        /\ Apply(n, m)
        /\ UNCHANGED <<state, pendingParams>>
     \/ /\ m.type # "init" /\ state[n] # "ready"
        /\ pendingParams' = [pendingParams EXCEPT ![n] = Append(@, m)]
        /\ UNCHANGED <<state, dsp, log, toMain>>
  /\ UNCHANGED page

\* The module is instantiated, and the plug-in is there.
Instantiated(n) ==
  /\ state[n] = "loading"
  /\ state' = [state EXCEPT ![n] = "draining"]
  /\ UNCHANGED <<page, toWorklet, toMain, pendingParams, dsp, log>>

\* A mutant of the loop in _init(): the last message is taken first.
DrainLast(n) ==
  /\ state[n] = "draining" /\ pendingParams[n] # <<>>
  /\ Apply(n, pendingParams[n][Len(pendingParams[n])])
  /\ pendingParams' = [pendingParams EXCEPT ![n] = SubSeq(@, 1, Len(@) - 1)]
  /\ UNCHANGED <<page, toWorklet, state>>

\* What waited is applied, one message after the other, while the page goes on.
Drain(n) ==
  /\ state[n] = "draining" /\ pendingParams[n] # <<>>
  /\ Apply(n, Head(pendingParams[n]))
  /\ pendingParams' = [pendingParams EXCEPT ![n] = Tail(@)]
  /\ UNCHANGED <<page, toWorklet, state>>

\* Then the worklet is ready, and says so.
Loaded(n) ==
  /\ state[n] = "draining" /\ pendingParams[n] = <<>>
  /\ state' = [state EXCEPT ![n] = "ready"]
  /\ toMain' = [toMain EXCEPT ![n] = Append(@, [type |-> "ready", value |-> None])]
  /\ UNCHANGED <<page, toWorklet, pendingParams, dsp, log>>

\* The module does not load: the error is posted and messages keep waiting.
LoadFailed(n) ==
  /\ state[n] = "loading"
  /\ state' = [state EXCEPT ![n] = "failed"]
  /\ toMain' = [toMain EXCEPT ![n] = Append(@, [type |-> "error", value |-> None])]
  /\ UNCHANGED <<page, toWorklet, pendingParams, dsp, log>>

-----------------------------------------------------------------------------
\* The steps of _init() after the module's bytes have arrived.
Load(n) == Instantiated(n) \/ Drain(n) \/ Loaded(n) \/ LoadFailed(n)

Next ==
  \/ Start \/ Stop \/ SendParam \/ SendMessage
  \/ \E n \in Node : OnWorkletMessage(n) \/ OnMessage(n) \/ Load(n)

\* The event loops deliver what was posted and the load ends one way or the
\* other, as long as the audio context is open: stop() closes it.  The user
\* promises nothing.
Spec == Init /\ [][Next]_vars
FairSpec ==
  Spec /\ \A n \in Node : /\ WF_vars(node = n /\ OnWorkletMessage(n))
                           /\ WF_vars(node = n /\ OnMessage(n))
                           /\ WF_vars(node = n /\ Load(n))

-----------------------------------------------------------------------------
(* Properties                                                              *)

Drained(n) == state[n] = "ready" /\ toWorklet[n] = <<>> /\ toMain[n] = <<>>

\* A plug-in receives the messages posted to its node, in order, none twice.
MessagesInOrder ==
  \A n \in Node : /\ Len(log[n]) <= Len(posted[n])
                  /\ \A i \in DOMAIN log[n] : log[n][i] = posted[n][i]

\* ... and every one of them, once its module is there.
MessagesArrive ==
  \A n \in Node : Drained(n) => log[n] = posted[n]

\* A parameter that was moved before ready never overtakes one moved later:
\* the plug-in never goes back to an older value.
NoStaleParam == [][\A n \in Node : dsp'[n] >= dsp[n]]_dsp

\* A worklet that loads ends up with the last value, if the user lets it.
EventuallyAgree ==
  \A n \in Node :
    (state[n] = "ready" /\ node = n) ~> (node # n \/ dsp[n] = paramValue)

\* "Seed the live DSP with values set before Start." (standalone.js.in:205): the
\* ready message finds the node whose DSP it seeds.  Refuted.
ReadyFindsNode == ~lost
=============================================================================
