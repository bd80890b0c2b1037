---------------------------- MODULE MCWamModule ----------------------------
(* A parameter with one component and one with two, written one by one, the *)
(* two components in either order, and all of them.                         *)
EXTENDS WamModule

MCComponents == <<1, 2>>
MCCalls ==
  {<<>>, <<<<2, 1>>, <<2, 2>>>>, <<<<2, 2>>, <<2, 1>>>>, <<<<1, 1>>, <<2, 1>>, <<2, 2>>>>}
    \cup {<<<<1, 1>>>>, <<<<2, 1>>>>, <<<<2, 2>>>>}
=============================================================================
