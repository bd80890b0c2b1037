--------------------------- MODULE VintageControls ---------------------------
(***************************************************************************)
(* The controls of a VST 2 plug-in, Controls<T> of                         *)
(* include/avnd/binding/vintage/atomic_controls.hpp: one atomic float per  *)
(* parameter, which any thread of the host sets and reads, and which the   *)
(* audio thread copies into every per-channel instance at the start of a   *)
(* block (SimpleAudioEffect::process()).  SetProgram does the same copy on *)
(* the thread that calls it, which is the user interface's, whether or not *)
(* a block is running (dispatch.hpp).                                      *)
(*                                                                         *)
(* write_control() loads an atomic and then stores an ordinary float; two  *)
(* threads that do it at once race, and the model has the outcomes in      *)
(* which each of these floats is loaded and stored whole.                  *)
(***************************************************************************)
EXTENDS Naturals

CONSTANTS Params,     \* number of parameters
          Instances,  \* number of instances
          Value, RangeInit,
          Programs,   \* the presets of the class, each a value per parameter
          MaxChanges  \* bound on setParameter and SetProgram calls

Param == 1..Params

ASSUME VintageAssumption ==
  /\ Params \in Nat \ {0} /\ Instances \in Nat \ {0} /\ MaxChanges \in Nat
  /\ RangeInit \in Value
  /\ Programs \subseteq [Param -> Value]

VARIABLES parameters,  \* the atomics
          inputs,      \* the controls of each instance
          doing,       \* what each thread is at: "audio" and "ui"
          at,          \* how many stores of its loop a thread has made
          loaded,      \* the value a thread has loaded and not stored yet, or "none"
          program,     \* the preset of the running SetProgram
          changes,     \* bound
          held,        \* history: the values the atomics had since the block began
          raced        \* history: SetProgram has been writing since the block began

threadVars == <<doing, at, loaded>>
controlsVars == <<parameters, inputs, threadVars, program, changes, held, raced>>

Thread == {"audio", "ui"}
Controls == [Param -> Value]

ControlsTypeOK ==
  /\ parameters \in Controls
  /\ inputs \in [1..Instances -> Controls]
  /\ doing \in [Thread -> {"idle", "read", "write", "run"}]
  /\ at \in [Thread -> 0..(Instances * Params)]
  /\ loaded \in [Thread -> Value \cup {"none"}]
  /\ program \in Controls
  /\ changes \in 0..MaxChanges
  /\ held \in [Param -> SUBSET Value]
  /\ raced \in BOOLEAN

\* The constructor: init_controls(), then read() from the first instance.
ControlsInit ==
  /\ inputs = [i \in 1..Instances |-> [p \in Param |-> RangeInit]]
  /\ parameters = inputs[1]
  /\ doing = [t \in Thread |-> "idle"]
  /\ at = [t \in Thread |-> 0]
  /\ loaded = [t \in Thread |-> "none"]
  /\ program = parameters
  /\ changes = 0
  /\ held = [p \in Param |-> {}]
  /\ raced = FALSE

\* An atomic gets a value, seen by the history of the running block.
Set(p, v) ==
  /\ parameters' = [parameters EXCEPT ![p] = v]
  /\ held' = [held EXCEPT ![p] = @ \cup {v}]

-----------------------------------------------------------------------------
\* write(), of either thread: for each instance, for each parameter.
InstanceAt(n) == (n \div Params) + 1
ParamAt(n) == (n % Params) + 1

\* Mutant: the loop ends after the representative instance.
FirstInstanceOnly == Params

Stores == Instances * Params

Load(t) ==
  /\ doing[t] = "write" /\ at[t] < Stores /\ loaded[t] = "none"
  /\ loaded' = [loaded EXCEPT ![t] = parameters[ParamAt(at[t])]]
  /\ UNCHANGED <<parameters, inputs, doing, at, program, changes, held, raced>>

Store(t) ==
  /\ doing[t] = "write" /\ loaded[t] # "none"
  /\ inputs' = [inputs EXCEPT ![InstanceAt(at[t])][ParamAt(at[t])] = loaded[t]]
  /\ loaded' = [loaded EXCEPT ![t] = "none"]
  /\ at' = [at EXCEPT ![t] = @ + 1]
  /\ UNCHANGED <<parameters, doing, program, changes, held, raced>>

Written(t) == doing[t] = "write" /\ at[t] = Stores

-----------------------------------------------------------------------------
\* Mutant: the position of the last copy is not reset.
BeginWhereLeft ==
  /\ doing["audio"] = "idle"
  /\ doing' = [doing EXCEPT !["audio"] = "write"]
  /\ held' = [p \in Param |-> {parameters[p]}]
  /\ raced' = (doing["ui"] = "write")
  /\ UNCHANGED <<parameters, inputs, at, loaded, program, changes>>

\* process()
BeginProcess ==
  /\ doing["audio"] = "idle"
  /\ doing' = [doing EXCEPT !["audio"] = "write"]
  /\ at' = [at EXCEPT !["audio"] = 0]
  /\ held' = [p \in Param |-> {parameters[p]}]
  /\ raced' = (doing["ui"] = "write")
  /\ UNCHANGED <<parameters, inputs, loaded, program, changes>>

\* The instances run with the controls they have.
RunInstances ==
  /\ Written("audio")
  /\ doing' = [doing EXCEPT !["audio"] = "run"]
  /\ UNCHANGED <<parameters, inputs, at, loaded, program, changes, held, raced>>

EndProcess ==
  /\ doing["audio"] = "run"
  /\ doing' = [doing EXCEPT !["audio"] = "idle"]
  /\ UNCHANGED <<parameters, inputs, at, loaded, program, changes, held, raced>>

-----------------------------------------------------------------------------
\* setParameter(), from any thread.
SetParameter(p, v) ==
  /\ changes < MaxChanges
  /\ changes' = changes + 1
  /\ Set(p, v)
  /\ UNCHANGED <<inputs, threadVars, program, raced>>

\* SetProgram: read() stores the atomics one after the other, then write().
SetProgram(preset) ==
  /\ doing["ui"] = "idle"
  /\ changes < MaxChanges
  /\ changes' = changes + 1
  /\ program' = preset
  /\ doing' = [doing EXCEPT !["ui"] = "read"]
  /\ at' = [at EXCEPT !["ui"] = 0]
  /\ UNCHANGED <<parameters, inputs, loaded, held, raced>>

ReadProgram ==
  /\ doing["ui"] = "read" /\ at["ui"] < Params
  /\ Set(at["ui"] + 1, program[at["ui"] + 1])
  /\ at' = [at EXCEPT !["ui"] = @ + 1]
  /\ UNCHANGED <<inputs, doing, loaded, program, changes, raced>>

WriteProgram ==
  /\ doing["ui"] = "read" /\ at["ui"] = Params
  /\ doing' = [doing EXCEPT !["ui"] = "write"]
  /\ at' = [at EXCEPT !["ui"] = 0]
  /\ raced' = TRUE
  /\ UNCHANGED <<parameters, inputs, loaded, program, changes, held>>

EndProgram ==
  /\ Written("ui")
  /\ doing' = [doing EXCEPT !["ui"] = "idle"]
  /\ UNCHANGED <<parameters, inputs, at, loaded, program, changes, held, raced>>

-----------------------------------------------------------------------------
Audio == BeginProcess \/ Load("audio") \/ Store("audio") \/ RunInstances \/ EndProcess
Interface == ReadProgram \/ WriteProgram \/ Load("ui") \/ Store("ui") \/ EndProgram

ControlsNext ==
  \/ Audio
  \/ Interface
  \/ \E p \in Param, v \in Value : SetParameter(p, v)
  \/ \E preset \in Programs : SetProgram(preset)

ControlsSpec == ControlsInit /\ [][ControlsNext]_controlsVars

\* The host keeps processing blocks, and its calls to the dispatcher run on.
ControlsFairSpec == ControlsSpec /\ WF_controlsVars(Audio) /\ WF_controlsVars(Interface)

-----------------------------------------------------------------------------
\* A block that no SetProgram disturbs runs every instance with values its
\* parameters had during the block: all equal to the atomics when none was set
\* in the meantime (write() loops over the instances).
HeldDuringBlock ==
  doing["audio"] = "run" /\ ~raced =>
    \A i \in 1..Instances, p \in Param : inputs[i][p] \in held[p]

\* When the changes end, every instance ends up with the parameters the host
\* sees, whatever the two copies did to each other.
EventuallyCurrent ==
  <>[](\A i \in 1..Instances : inputs[i] = parameters)

\* "Controls are shared across the (internal) per-channel instances"
\* (vintage/atomic_controls.hpp:130-131): a block runs them all with one value.
\* Refuted.
SharedControls ==
  doing["audio"] = "run" /\ ~raced => \A i, j \in 1..Instances : inputs[i] = inputs[j]

\* "Before processing starts, we copy all our atomics back into the struct"
\* (vintage/audio_effect.hpp:186): what a block runs with was an atomic's value
\* since it started.  Refuted when there are presets.
AtomicsCopied ==
  doing["audio"] = "run" =>
    \A i \in 1..Instances, p \in Param : inputs[i][p] \in held[p]
=============================================================================
