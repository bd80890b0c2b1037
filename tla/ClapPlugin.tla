----------------------------- MODULE ClapPlugin -----------------------------
(***************************************************************************)
(* A monophonic processor as a CLAP plug-in: SimpleAudioEffect in          *)
(* include/avnd/binding/clap/audio_effect.hpp, over an effect container    *)
(* with one instance per channel.  The host sends parameter values with    *)
(* each block, or by flush() while the plug-in is not processing, and      *)
(* activates it again for every new setup; it never makes two of these     *)
(* calls at once, and processes only between activate() and deactivate().  *)
(***************************************************************************)
EXTENDS EffectContainer

CONSTANTS InChannels, OutChannels,  \* input_channels<T>(2), output_channels<T>(2)
          Setup               \* sample rates and block sizes, numbered from 1

ASSUME ClapAssumption ==
  InChannels \in Nat /\ OutChannels \in Nat /\ InChannels + OutChannels > 0 /\ Setup \subseteq Nat \ {0}

VARIABLES effect,   \* the instances
          active,   \* between activate() and deactivate()
          setup,    \* sample_rate and buffer_size
          sent      \* history: the last value the host sent of each control

vars == <<effect, active, setup, sent>>

\* What a list of events, or a flush, carries: a last value for some controls.
Changes == UNION {[P -> Value] : P \in SUBSET Param}

TypeOK ==
  /\ effect \in Seq(Instance)
  /\ active \in BOOLEAN
  /\ setup \in Setup \cup {0}
  /\ sent \in Changes

\* The constructor: the defaults and the fallbacks go to a container that is
\* still empty, and the one instance it then gets has neither.
Init ==
  /\ effect = InitChannels(WireFallbacks(InitControls(<<>>)), 1, 1)
  /\ active = FALSE
  /\ setup = 0
  /\ sent = <<>>

-----------------------------------------------------------------------------
\* Mutant: prepare() comes before the channels.
PrepareFirst(s) == InitChannels(Prepare(effect, s), InChannels, OutChannels)

\* What start() makes of the instances.
Started(s) == Prepare(InitChannels(effect, InChannels, OutChannels), s)

\* activate(): the setup, then start().
Activate(s) ==
  /\ ~active
  /\ active' = TRUE
  /\ setup' = s
  /\ effect' = Started(s)
  /\ UNCHANGED sent

\* deactivate() does nothing to the instances.
Deactivate ==
  /\ active
  /\ active' = FALSE
  /\ UNCHANGED <<effect, setup, sent>>

\* Mutant: process_param() changes the instance get_value() reads.
ParamsToFirst(new) == SetFirst(effect, new)

\* process_param() for each event.
Params(new) == SetControls(effect, new)

Sent(new) == [p \in DOMAIN sent \cup DOMAIN new |-> IF p \in DOMAIN new THEN new[p] ELSE sent[p]]

\* flush(), active or not.
Flush(new) ==
  /\ effect' = Params(new)
  /\ sent' = Sent(new)
  /\ UNCHANGED <<active, setup>>

\* process(): the events of the block, then its audio.
Process(new) ==
  /\ active
  /\ effect' = Params(new)
  /\ sent' = Sent(new)
  /\ UNCHANGED <<active, setup>>

Next ==
  \/ \E s \in Setup : Activate(s)
  \/ Deactivate
  \/ \E new \in Changes : Flush(new) \/ Process(new)

Spec == Init /\ [][Next]_vars

-----------------------------------------------------------------------------
\* All channels run with the same controls, whenever the host sent them: before
\* the first activation, between two, or with a block (process_param() loops
\* over the instances, init_channels() copies to the new ones).
SameControls == Agree(effect)

\* What the host sent last is what get_value() answers and what every channel
\* runs with, across activations that add instances.
ValuesKept ==
  \A i \in DOMAIN effect : \A p \in DOMAIN sent : effect[i].inputs[p] = sent[p]

\* While the plug-in is active there is an instance for each channel the host
\* was told of, and all of them were prepared for the setup of the activation.
ReadyToProcess ==
  active => /\ Len(effect) >= Larger(InChannels, OutChannels)
            /\ AllPrepared(effect, setup)

\* "Safe no-op handlers for worker.request / request_channels members: an empty
\* std::function call terminates under -fno-exceptions"
\* (clap/audio_effect.hpp:200-201): no instance has an empty callback.
\* Refuted.
CallbacksWired == AllWired(effect)

\* init_controls() is "Used to set the initial value for controls when the
\* plug-in is first loaded" (wrappers/controls.hpp:53-55), the value
\* get_param_info() announces: a control the host never set has it.
\* Refuted.
InitialValues ==
  \A i \in DOMAIN effect : \A p \in Param \ DOMAIN sent : effect[i].inputs[p] = RangeInit
=============================================================================
