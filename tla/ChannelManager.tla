---------------------------- MODULE ChannelManager ----------------------------
(***************************************************************************)
(* audio_channel_manager<T> (wrappers/audio_channel_manager.hpp): how many *)
(* channels every audio port of a processor has, and the totals the        *)
(* processor is prepared with.  Two of its cases: a processor that is      *)
(* monophonic and gets one instance per channel, and one with audio busses *)
(* on both sides.                                                          *)
(*                                                                         *)
(* A manager is a record: the count the manager keeps of each input and    *)
(* output bus (in, out), the `channels` of the port objects themselves     *)
(* (portIn, portOut), and the totals actual_runtime_inputs and _outputs    *)
(* (ins, outs).  A monophonic processor has totals only.                   *)
(*                                                                         *)
(* A bus is a record: its type, and a number n, which is the number of     *)
(* channels of a fixed one and the input that a mimic follows.             *)
(***************************************************************************)
EXTENDS Integers, Sequences

Bus(type, n) == [type |-> type, n |-> n]
BusType == {"fixed", "dynamic", "variable", "mimic"}

\* The busses of a processor: no input is a mimic, and a mimic names an input.
WellFormed(ins, outs) ==
  /\ ins \in Seq([type : BusType \ {"mimic"}, n : Nat]) /\ ins # <<>>
  /\ outs \in Seq([type : BusType, n : Nat]) /\ outs # <<>>
  /\ \A k \in DOMAIN outs : outs[k].type = "mimic" => outs[k].n \in DOMAIN ins

Total(counts) ==
  LET sum[k \in 0..Len(counts)] == IF k = 0 THEN 0 ELSE sum[k - 1] + counts[k]
  IN sum[Len(counts)]

\* The constructor: what the type fixes, and 0 for the others.
InitialCounts(busses) ==
  [k \in DOMAIN busses |-> IF busses[k].type = "fixed" THEN busses[k].n ELSE 0]

NewManager(ins, outs) ==
  LET i == InitialCounts(ins)
      o == InitialCounts(outs)
  IN [in |-> i, out |-> o, portIn |-> i, portOut |-> o,
      ins |-> Total(i), outs |-> Total(o)]

-----------------------------------------------------------------------------
\* Mutant: the old count stays in the total.
AddOutputCount(m, k, n) ==
  [m EXCEPT !.out[k] = n, !.outs = @ + n]

\* set_input_impl() and set_output_impl()
SetInputCount(m, k, n) ==
  [m EXCEPT !.in[k] = n, !.ins = @ - m.in[k] + n]

SetOutputCount(m, k, n) ==
  [m EXCEPT !.out[k] = n, !.outs = @ - m.out[k] + n]

\* mimick_output(): an output with a mimick_channel gets the count of the port
\* object it names; any other is left alone.
MimickOutput(m, outs, k) ==
  IF outs[k].type = "mimic"
  THEN LET n == m.portIn[outs[k].n]
       IN SetOutputCount([m EXCEPT !.portOut[k] = n], k, n)
  ELSE m

MimickOutputs(m, outs, from) ==
  LET after[k \in (from - 1)..Len(outs)] ==
        IF k < from THEN m ELSE MimickOutput(after[k - 1], outs, k)
  IN after[Len(outs)]

\* Mutant: the outputs after a first one that follows are forgotten.
FirstOutputOnly(m, outs, n) ==
  IF outs[1].type \in {"dynamic", "mimic"}
  THEN SetOutputCount([m EXCEPT !.portOut[1] = n], 1, n)
  ELSE MimickOutputs(m, outs, 1)

\* update_outputs_from_input(): a first output that is neither fixed nor asks
\* for channels gets the count of the input that changed, whichever it is.
UpdateOutputs(m, outs, n) ==
  IF outs[1].type \in {"dynamic", "mimic"}
  THEN MimickOutputs(SetOutputCount([m EXCEPT !.portOut[1] = n], 1, n), outs, 2)
  ELSE MimickOutputs(m, outs, 1)

\* Whether set_input_channels() takes n channels for a bus.
TakesInput(m, ins, k, n) ==
  \/ ins[k].type = "dynamic"
  \/ ins[k].type = "variable" /\ m.portIn[k] = n
  \/ ins[k].type = "fixed" /\ ins[k].n = n

SetInputChannels(m, ins, outs, k, n) ==
  IF TakesInput(m, ins, k, n)
  THEN UpdateOutputs(SetInputCount([m EXCEPT !.portIn[k] = n], k, n), outs, n)
  ELSE m

\* set_output_channels(): a mimic takes its input's count, and agrees or not.
SetOutputChannels(m, outs, k, n) ==
  LET kind == outs[k]
      port == IF kind.type = "mimic" THEN m.portIn[kind.n]
              ELSE IF kind.type = "dynamic" THEN n ELSE m.portOut[k]
      set == [m EXCEPT !.portOut[k] = port]
  IN IF port = n THEN SetOutputCount(set, k, n) ELSE set

-----------------------------------------------------------------------------
\* The monophonic case: as many outputs as inputs, and at least one.
SetMonoChannels(m, n) ==
  LET count == IF n > 1 THEN n ELSE 1
  IN [m EXCEPT !.ins = count, !.outs = count]

TotalsAreSums(m) == m.ins = Total(m.in) /\ m.outs = Total(m.out)
=============================================================================
