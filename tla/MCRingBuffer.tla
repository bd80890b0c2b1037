---------------------------- MODULE MCRingBuffer ----------------------------
(***************************************************************************)
(* RingBuffer for TLC: four bytes of storage, indices of three bits, and a *)
(* stream long enough for the indices to wrap at every fill level.         *)
(***************************************************************************)
EXTENDS RingBuffer
=============================================================================
