--------------------------- MODULE MCWorldStateSync ---------------------------
(* Instances of WorldStateSync for TLC. *)
EXTENDS WorldStateSync, TLC

CONSTANTS a, b

Box(name, pose, body, colors) ==
    [name |-> name, kind |-> "box", pose |-> pose, body |-> body,
     colors |-> colors, chunks |-> FALSE]
Cloud(pose, body, colors, chunks) ==
    [name |-> "n1", kind |-> "cloud", pose |-> pose, body |-> body,
     colors |-> colors, chunks |-> chunks]

\* Two clouds sent whole that one becomes the other, and one sent in chunks.
Clouds == {Cloud(0, 0, 1, FALSE), Cloud(1, 1, 2, FALSE), Cloud(0, 0, 0, TRUE)}

\* Two boxes with different names, and a chunked cloud that may change its
\* points.
BoxesAndCloud ==
    {Box("n1", 0, 0, 1), Box("n2", 1, 0, 0), Cloud(0, 0, 0, TRUE), Cloud(1, 1, 0, TRUE)}

Symmetry == Permutations(UUIDs)
=============================================================================
