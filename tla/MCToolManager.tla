---------------------------- MODULE MCToolManager ----------------------------
(* Instances of ToolManager: model values for calls and keys.              *)
EXTENDS ToolManager, TLC

Symmetry == Permutations(Calls) \cup Permutations(Keys)
=============================================================================
