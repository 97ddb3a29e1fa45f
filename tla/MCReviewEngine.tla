--------------------------- MODULE MCReviewEngine ---------------------------
(* Small instances of ReviewEngine for TLC.                                *)
EXTENDS ReviewEngine, TLC

CONSTANTS p1, p2, p3, x1, x2

\* Two pull requests of one repo and one of another.
TwoAndOne == p1 :> x1 @@ p2 :> x1 @@ p3 :> x2

\* Nothing tells the two of one repo apart, except in rows that do not exist yet.
SameRepoPRs == Permutations({p1, p2})

\* Two pull requests of one repo.
SameRepo == p1 :> x1 @@ p2 :> x1
=============================================================================
