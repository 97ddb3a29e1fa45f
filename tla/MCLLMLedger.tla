----------------------------- MODULE MCLLMLedger ----------------------------
(* A small instance of LLMLedger for TLC: one model in two spellings.      *)
EXTENDS LLMLedger, TLC

CONSTANTS h1, h2, n1, n2
OneName == [n \in {n1, n2} |-> "name"]
Alike == Permutations(Request) \cup Permutations(Name)
=============================================================================
