--------------------------- MODULE MCNetStreamWire ---------------------------
(***************************************************************************)
(* NetStreamWire for TLC: a header of two bytes, so that a write can stop  *)
(* inside it, packets of different sizes, and an empty one.                *)
(***************************************************************************)
EXTENDS NetStreamWire

MCFloats == <<1, 0, 2>>
=============================================================================
