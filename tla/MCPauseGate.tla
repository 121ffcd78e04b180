---------------------------- MODULE MCPauseGate ----------------------------
(* PauseGate with two threads of the target and two of the GUI.            *)
EXTENDS PauseGate, TLC

\* The callers of the GUI are interchangeable.
Callers == Permutations(Gui)
=============================================================================
