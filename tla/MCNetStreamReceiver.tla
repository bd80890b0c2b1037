------------------------- MODULE MCNetStreamReceiver -------------------------
(***************************************************************************)
(* NetStreamReceiver for TLC: three threads in a row and three packets, so *)
(* that a packet can be overwritten, cross a restart or arrive while the   *)
(* host stops the thread.                                                  *)
(***************************************************************************)
EXTENDS NetStreamReceiver
=============================================================================
