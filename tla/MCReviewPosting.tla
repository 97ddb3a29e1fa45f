--------------------------- MODULE MCReviewPosting --------------------------
(* Instances of ReviewPosting for TLC: its domains are finite.             *)
EXTENDS ReviewPosting

AllRepos == RepoSettings
AllOutputs == Plausible
=============================================================================
