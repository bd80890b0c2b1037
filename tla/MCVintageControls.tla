-------------------------- MODULE MCVintageControls --------------------------
(* Two parameters of two values in two instances, two presets, and two     *)
(* changes: enough for an edit and a preset in one block.                  *)
EXTENDS VintageControls, TLC

Low == "low"
High == "high"
MCValue == {Low, High}
MCPrograms == {[p \in Param |-> High], [p \in Param |-> Low]}
NoPrograms == {}
=============================================================================
