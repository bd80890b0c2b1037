-------------------------- MODULE MCNetStreamSender --------------------------
(***************************************************************************)
(* NetStreamSender for TLC: three threads in a row, so that one connection *)
(* can leave something behind for the next.                                *)
(***************************************************************************)
EXTENDS NetStreamSender
=============================================================================
