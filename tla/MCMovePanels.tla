---------------------------- MODULE MCMovePanels ----------------------------
(* Instance of MovePanels for TLC. *)
EXTENDS MovePanels, TLC

\* Two waypoints, and between them the one frame that the cap leaves.
CappedTrajectory == {<<4>>}

Symmetry == Permutations(Frames) \cup Permutations(Goals)
=============================================================================
