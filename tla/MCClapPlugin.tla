---------------------------- MODULE MCClapPlugin ----------------------------
(* Two controls, three values, a container that starts with one instance and *)
(* is grown to two by the first activation.                                *)
EXTENDS ClapPlugin, TLC

MCSetup == 1..3
=============================================================================
