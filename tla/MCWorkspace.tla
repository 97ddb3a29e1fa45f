---------------------------- MODULE MCWorkspace -----------------------------
(* A small instance of Workspace for TLC: three commits, two of which have *)
(* their first eight digits, and so their directory, in common.            *)
EXTENDS Workspace, TLC

CONSTANTS s1, s2, s3, d1, d2
Collision == s1 :> d1 @@ s2 :> d1 @@ s3 :> d2

\* Nothing tells the two commits of one directory apart.
SameDirectory == Permutations({s1, s2})
=============================================================================
