---------------------------- MODULE MCFrameEdits ----------------------------
(* TLC instances of FrameEdits. *)
EXTENDS FrameEdits, TLC

CONSTANTS f1, p1, p2

\* The machine does not know the frame, or has it at another pose than the config.
NothingOrOne == {[f \in Frames |-> None], [f \in Frames |-> 1]}

Symmetry == Permutations(Parts)
=============================================================================
