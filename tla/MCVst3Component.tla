--------------------------- MODULE MCVst3Component ---------------------------
(* An int control from 0 to 3 and a float control from 0 to 1, the second    *)
(* behind another port, so that its tag is refused; a plug-in of two         *)
(* channels that is asked for one or three, fewer and more than it has.  Of  *)
(* the host's values 5/8 and 6/8 the second makes the int 2, which a state   *)
(* keeps as 5/8 and gives back as 1.                                         *)
EXTENDS Vst3Component, TLC

Fields == {0, 2}
IntField == {0}
MCTop == [p \in Fields |-> IF p = 0 THEN 3 ELSE 1]
MCGiven == {5, 6}
MCValue == 0..8
OneOrThree == {1, 3}
NoneOrTwo == {0, 2}
MCSetup == 1..2
=============================================================================
