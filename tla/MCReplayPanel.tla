--------------------------- MODULE MCReplayPanel ---------------------------
(* TLC instances of ReplayPanel. *)
EXTENDS ReplayPanel, TLC

CONSTANTS f1, f2, f3, c1, c2

\* A plan to play, one without a trajectory and one the client cannot read.
Contents == (f1 :> 2) @@ (f2 :> 0) @@ (f3 :> Broken)
TwoContents == (f1 :> 2) @@ (f2 :> Broken)

\* A candidate with a path and one without.
Solutions == (c1 :> "path-invalid") @@ (c2 :> "invalid")
=============================================================================
