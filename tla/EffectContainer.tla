--------------------------- MODULE EffectContainer ---------------------------
(***************************************************************************)
(* effect_container<T> (include/avnd/wrappers/effect_container.hpp) of a   *)
(* monophonic processor whose inputs are a member of the class: a host     *)
(* that plays several channels gets one instance of T per channel, each    *)
(* with its own copy of the controls.  What the bindings do to all the     *)
(* instances -- default values, fallback callbacks, prepare(), one control *)
(* -- is a loop over full_state(), and does nothing on an empty container. *)
(*                                                                         *)
(* An instance is reduced to what the bindings tell apart: the values of   *)
(* its controls, whether the callback of its worker is wired, and the      *)
(* setup it was last prepared for (0: none).                               *)
(***************************************************************************)
EXTENDS Naturals, Sequences

CONSTANTS Param,          \* the controls of T
          Value,          \* their values
          MemberDefault,  \* the value a default-constructed T has
          RangeInit       \* the init of the control's range, what hosts are told

ASSUME ContainerAssumption ==
  MemberDefault \in Value /\ RangeInit \in Value

Inputs == [Param -> Value]
Instance == [inputs : Inputs, wired : BOOLEAN, prepared : Nat]

NewInstance ==
  [inputs |-> [p \in Param |-> MemberDefault], wired |-> FALSE, prepared |-> 0]

Larger(m, n) == IF m >= n THEN m ELSE n

-----------------------------------------------------------------------------
(* Mutants of init_channels()                                              *)

\* The new instances keep the values they are constructed with.
InitChannelsBare(effect, in, out) ==
  [i \in 1..Larger(in, out) |-> IF i <= Len(effect) THEN effect[i] ELSE NewInstance]

\* The vector is cleared before it is resized.
InitChannelsCleared(effect, in, out) == [i \in 1..Larger(in, out) |-> NewInstance]

-----------------------------------------------------------------------------
\* init_channels(): one instance per channel; the new ones take their control
\* values, and only these, from the first one when there is one.
InitChannels(effect, in, out) ==
  LET copy == IF effect = <<>> THEN NewInstance
              ELSE [NewInstance EXCEPT !.inputs = effect[1].inputs]
  IN [i \in 1..Larger(in, out) |-> IF i <= Len(effect) THEN effect[i] ELSE copy]

\* init_controls(): the init of its range for every control.
InitControls(effect) ==
  [i \in DOMAIN effect |-> [effect[i] EXCEPT !.inputs = [p \in Param |-> RangeInit]]]

\* wire_fallback_callbacks(): no member callback stays an empty function.
WireFallbacks(effect) == [i \in DOMAIN effect |-> [effect[i] EXCEPT !.wired = TRUE]]

\* prepare(): every instance gets the setup.
Prepare(effect, setup) ==
  [i \in DOMAIN effect |-> [effect[i] EXCEPT !.prepared = setup]]

\* The controls of one instance after new values for those in DOMAIN new.
Changed(inputs, new) ==
  [p \in Param |-> IF p \in DOMAIN new THEN new[p] ELSE inputs[p]]

\* The loop of a binding that gives new values to controls.
SetControls(effect, new) ==
  [i \in DOMAIN effect |-> [effect[i] EXCEPT !.inputs = Changed(effect[i].inputs, new)]]

\* The same for the one instance that stands for the others.
SetFirst(effect, new) ==
  [i \in DOMAIN effect |-> IF i = 1 THEN SetControls(effect, new)[1] ELSE effect[i]]

-----------------------------------------------------------------------------
\* All channels run with the same values.
Agree(effect) == \A i, j \in DOMAIN effect : effect[i].inputs = effect[j].inputs

AllWired(effect) == \A i \in DOMAIN effect : effect[i].wired
AllPrepared(effect, setup) == \A i \in DOMAIN effect : effect[i].prepared = setup
=============================================================================
