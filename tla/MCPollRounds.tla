---------------------------- MODULE MCPollRounds ----------------------------
(* A small registry for TLC: two hosts of one site, the second under a path, *)
(* and two repos of which one is registered.                                 *)
EXTENDS PollRounds, TLC

CONSTANTS h1, h2, r1, r2, t1, t2, private, shared

Twins == Permutations({t1, t2})

Plain   == [https |-> TRUE, site |-> "git", prefix |-> <<>>]
Below   == [https |-> TRUE, site |-> "git", prefix |-> <<"gitea">>]
TwoBases == {Plain, Below}
Pasted(p) == [https |-> TRUE, user |-> FALSE, site |-> "git", path |-> p]
TwoUrls == {Pasted(<<"org", "app.git">>), Pasted(<<"gitea", "org", "app">>)}
BareName == [s \in Segment |-> IF s = "app.git" THEN "app" ELSE s]
OneHost == [h \in Host |-> IF h = h1 THEN [base |-> Plain, pat |-> shared] ELSE NoRow]
OneRepo == [r \in Repo |-> IF r = r1 THEN
  [host |-> h1, path |-> <<"org", "app">>, enabled |-> TRUE, interval |-> 2, own |-> TRUE,
   pat |-> NoPAT, last |-> 0] ELSE NoRow]
Brisk == [default |-> 1, min |-> 1]
TwoSettings == {Brisk, [default |-> 3, min |-> 3]}
\* Two pages at once, without the poller; one page beside the poller; one page
\* beside a review.
Cases ==
  {[tabs |-> 2, saves |-> 2, touched |-> 1, time |-> 0, reviews |-> FALSE, faults |-> 0],
   [tabs |-> 1, saves |-> 1, touched |-> 1, time |-> 3, reviews |-> FALSE, faults |-> 1],
   [tabs |-> 1, saves |-> 2, touched |-> 1, time |-> 0, reviews |-> TRUE, faults |-> 0]}
=============================================================================
