--------------------------- MODULE MCWasmWorklet ---------------------------
(***************************************************************************)
(* WasmWorklet for TLC: two nodes one after the other, so that a message   *)
(* of the first can arrive when the second is there.                       *)
(***************************************************************************)
EXTENDS WasmWorklet
=============================================================================
