------------------------- MODULE ReviewPostingProofs ------------------------
(* What a review may leave on a pull request and when it may claim success, *)
(* for every set of settings, outputs and faults.                           *)
EXTENDS ReviewPosting, FiniteSetTheorems, TLAPS

\* What OCR came back with is worth posting, worth approving, complete.
Postable == ShouldPostOCRResult
Wanted == ZeroFindingApprovalEnabled
CompleteOutput == ~HasReviewWarnings /\ ~out.err /\ ~Failed

\* What is on the pull request at each step.  Nothing before the first call; the
\* review with the summary may be there although its answer got lost; the summary
\* by comment comes after the APPROVE; the label goes when all of it is there.
StepInv ==
  /\ step \in {"review", "approve", "comment"} => Postable
  /\ step \in {"ocr", "decide", "review"} => posts = {}
  /\ step = "approve" => Wanted /\ posts \subseteq {"approvedSummary"}
  /\ step = "comment" => /\ "issueComment" \notin posts
                         /\ Wanted => "approval" \in posts
  /\ step = "check" =>
       \/ ~Postable /\ posts = {}
       \/ Postable /\ Summaries # {} /\ (Wanted => Approvals # {})
  /\ step \in {"remove", "success"} =>
       CompleteOutput /\ Summaries # {} /\ (Wanted => Approvals # {})
  /\ step = "remove" => repo.remove /\ ~removed
  /\ step = "success" => (repo.remove => removed)

\* ... and whatever the step: what is approved and posted deserves it.
PostsInv ==
  /\ Approvals # {} => Wanted /\ Postable
  /\ posts # {} => Postable
  /\ ("issueComment" \in posts /\ Wanted) => Approvals # {}
  /\ removed => /\ step \in {"success", "failed"}
                /\ CompleteOutput /\ Summaries # {} /\ (Wanted => Approvals # {})

\* The review with the summary is one post; postResult goes on to another call after
\* it, and has a second summary or a second APPROVE, only if an answer got lost.
Reviews == posts \cap {"summary", "approvedSummary"}
LostInv ==
  /\ Reviews # {"summary", "approvedSummary"}
  /\ (step \in {"approve", "comment"} /\ Reviews # {}) => lost >= 1
  /\ ("issueComment" \in posts /\ Reviews # {}) => lost >= 1
  /\ ("approval" \in posts /\ "approvedSummary" \in posts) => lost >= 1

Inv == TypeOK /\ StepInv /\ PostsInv /\ LostInv

LEMMA InitInv == Init => Inv
<1> SUFFICES ASSUME Init PROVE Inv
  OBVIOUS
<1>1. Nothing \in Plausible
  BY DEF Nothing, Plausible, OCROutput, WarningKinds
<1>2. TypeOK
  BY <1>1, PostingAssumption DEF Init, TypeOK, Steps
<1>3. QED
  BY <1>2 DEF Init, Inv, StepInv, PostsInv, LostInv, Reviews, Approvals

\* The output and the settings of a review do not change under it, so neither do
\* the decisions taken from them.
LEMMA DecisionsStay ==
  ASSUME UNCHANGED <<repo, out>>
  PROVE  /\ Postable' = Postable /\ Wanted' = Wanted /\ CompleteOutput' = CompleteOutput
         /\ Fallback' = Fallback
BY DEF Postable, Wanted, CompleteOutput, ShouldPostOCRResult, ZeroFindingApprovalEnabled,
   IsCleanZeroFinding, HasReviewWarnings, Failed, Fallback

\* A complete output is worth posting.
LEMMA CompletePostable == CompleteOutput => Postable /\ IsCleanZeroFinding
BY DEF CompleteOutput, Postable, ShouldPostOCRResult, HasReviewWarnings, Failed, IsCleanZeroFinding

\* A call to the host adds its post or not and leads where it may.
LEMMA PostType ==
  ASSUME TypeOK, Runs, NEW kind \in Kinds, NEW accepted \in Steps, NEW refused \in Steps,
         Post(kind, accepted, refused), accepted # "decide", refused # "decide",
         accepted # "ocr", refused # "ocr"
  PROVE  TypeOK'
<1>1. posts' \subseteq Kinds
  BY DEF TypeOK, Post
<1>2. step' \in {accepted, refused}
  BY DEF Post
<1>3. lost' \in Nat
  BY DEF TypeOK, Post
<1>4. trouble' \in BOOLEAN
  BY DEF TypeOK, Post
<1>5. QED
  BY <1>1, <1>2, <1>3, <1>4 DEF TypeOK, Runs

\* Types survive every step.
LEMMA TypeStep ==
  ASSUME Inv, [Next]_vars
  PROVE  TypeOK'
<1> USE DEF Inv, TypeOK
<1>1. ASSUME RunOCR PROVE TypeOK'
  BY <1>1, PostingAssumption DEF RunOCR, StepInv, Steps
<1>2. ASSUME DecideToPost PROVE TypeOK'
  BY <1>2 DEF DecideToPost, Runs, StepInv, Steps, FirstPost
<1>3. ASSUME PostReview PROVE TypeOK'
  <2>1. PICK kind \in {"approvedSummary", "summary"} : Post(kind, "check", Fallback)
    BY <1>3 DEF PostReview
  <2>2. Fallback \in {"approve", "comment"}
    BY DEF Fallback
  <2>3. QED
    BY <1>3, <2>1, <2>2, PostType DEF PostReview, Steps, Kinds
<1>4. ASSUME PostApproval PROVE TypeOK'
  BY <1>4, PostType DEF PostApproval, Steps, Kinds
<1>5. ASSUME PostComment PROVE TypeOK'
  BY <1>5, PostType DEF PostComment, Steps, Kinds
<1>6. ASSUME CheckResult PROVE TypeOK'
  BY <1>6 DEF CheckResult, Runs, Steps
<1>7. ASSUME RemoveLabel PROVE TypeOK'
  <2>1. step' \in {"success", "failed"} /\ UNCHANGED <<repo, out, posts>>
    BY <1>7 DEF RemoveLabel
  <2>2. lost' \in Nat
    BY <1>7 DEF RemoveLabel
  <2>3. label' \in BOOLEAN /\ removed' \in BOOLEAN /\ trouble' \in BOOLEAN
    BY <1>7 DEF RemoveLabel
  <2>4. QED
    BY <2>1, <2>2, <2>3 DEF Steps
<1>8. ASSUME Die PROVE TypeOK'
  BY <1>8 DEF Die, Runs, Steps
<1>9. ASSUME TouchLabel PROVE TypeOK'
  BY <1>9 DEF TouchLabel
<1>10. ASSUME UNCHANGED vars PROVE TypeOK'
  BY <1>10 DEF vars
<1>11. QED
  BY <1>1, <1>2, <1>3, <1>4, <1>5, <1>6, <1>7, <1>8, <1>9, <1>10 DEF Next

\* What is on the pull request changes as StepInv and PostsInv say.
LEMMA PostStep ==
  ASSUME Inv, [Next]_vars
  PROVE  StepInv' /\ PostsInv'
<1> USE DEF Inv, TypeOK, StepInv, PostsInv
<1>1. ASSUME RunOCR PROVE StepInv' /\ PostsInv'
  BY <1>1 DEF RunOCR, Approvals, Summaries
<1>2. ASSUME DecideToPost PROVE StepInv' /\ PostsInv'
  <2>1. UNCHANGED <<repo, out, posts, removed>> /\ posts = {} /\ ~removed
    BY <1>2 DEF DecideToPost, Runs
  <2>2. Postable' = Postable /\ Wanted' = Wanted /\ CompleteOutput' = CompleteOutput
    BY <2>1, DecisionsStay
  <2>3. \/ step' = "failed"
        \/ ~Postable /\ step' = "check"
        \/ Postable /\ step' \in {"review", "approve", "comment"}
           /\ (step' = "approve" => Wanted) /\ (step' = "comment" => ~Wanted)
    <3>1. FirstPost \in {"review", "approve", "comment"}
      BY DEF FirstPost
    <3>2. CASE repo.mode = "inline"
      BY <1>2, <3>2 DEF DecideToPost, FirstPost, Postable
    <3>3. CASE repo.mode # "inline" /\ Wanted
      <4>1. repo.mode = "comment"
        BY <3>3, PostingAssumption DEF RepoSettings
      <4>2. FirstPost = "approve"
        BY <3>3, <4>1 DEF FirstPost, Wanted
      <4>3. QED
        BY <1>2, <3>3, <4>2 DEF DecideToPost, Postable
    <3>4. CASE ~Wanted
      <4>1. FirstPost \in {"review", "comment"}
        BY <3>4 DEF FirstPost, Wanted
      <4>2. QED
        BY <1>2, <3>4, <4>1 DEF DecideToPost, Postable
    <3>5. QED
      BY <3>2, <3>3, <3>4
  <2>4. QED
    BY <2>1, <2>2, <2>3 DEF Approvals
<1>3. ASSUME PostReview PROVE StepInv' /\ PostsInv'
  <2>1. UNCHANGED <<repo, out, removed>> /\ posts = {} /\ Postable /\ ~removed
    BY <1>3 DEF PostReview, Runs
  <2>2. Postable' = Postable /\ Wanted' = Wanted /\ CompleteOutput' = CompleteOutput
    BY <2>1, DecisionsStay
  <2>3. PICK kind : /\ kind = (IF Wanted THEN "approvedSummary" ELSE "summary")
                    /\ Post(kind, "check", Fallback)
    BY <1>3 DEF PostReview, Wanted
  <2>4. Fallback = IF Wanted THEN "approve" ELSE "comment"
    BY DEF Fallback, Wanted
  <2>5. CASE posts' = {kind} /\ step' = "check"
    BY <2>1, <2>2, <2>3, <2>5 DEF Approvals, Summaries
  <2>6. CASE posts' \subseteq {kind} /\ step' = Fallback
    BY <2>1, <2>2, <2>3, <2>4, <2>6 DEF Approvals, Summaries
  <2>7. QED
    BY <2>1, <2>3, <2>5, <2>6 DEF Post
<1>4. ASSUME PostApproval PROVE StepInv' /\ PostsInv'
  <2>1. UNCHANGED <<repo, out, removed>> /\ posts \subseteq {"approvedSummary"}
        /\ Postable /\ Wanted /\ ~removed
    BY <1>4 DEF PostApproval, Runs
  <2>2. Postable' = Postable /\ Wanted' = Wanted /\ CompleteOutput' = CompleteOutput
    BY <2>1, DecisionsStay
  <2>3. \/ posts' = posts \cup {"approval"} /\ step' = "comment"
        \/ posts' \subseteq posts \cup {"approval"} /\ step' = "failed"
    BY <1>4 DEF PostApproval, Post
  <2>4. QED
    BY <2>1, <2>2, <2>3 DEF Approvals, Summaries
<1>5. ASSUME PostComment PROVE StepInv' /\ PostsInv'
  <2>1. UNCHANGED <<repo, out, removed>> /\ Postable /\ (Wanted => "approval" \in posts)
        /\ ~removed /\ "issueComment" \notin posts
    BY <1>5 DEF PostComment, Runs
  <2>2. Postable' = Postable /\ Wanted' = Wanted /\ CompleteOutput' = CompleteOutput
    BY <2>1, DecisionsStay
  <2>3. \/ posts' = posts \cup {"issueComment"} /\ step' \in {"check", "failed"}
        \/ posts' = posts /\ step' = "failed"
    BY <1>5 DEF PostComment, Post
  <2>4. QED
    BY <2>1, <2>2, <2>3 DEF Approvals, Summaries
<1>6. ASSUME CheckResult PROVE StepInv' /\ PostsInv'
  <2>1. UNCHANGED <<repo, out, posts, removed>> /\ ~removed
    BY <1>6 DEF CheckResult, Runs
  <2>2. Postable' = Postable /\ Wanted' = Wanted /\ CompleteOutput' = CompleteOutput
    BY <2>1, DecisionsStay
  <2>3. \/ step' = "failed"
        \/ CompleteOutput /\ repo.remove /\ step' = "remove"
        \/ CompleteOutput /\ ~repo.remove /\ step' = "success"
    BY <1>6 DEF CheckResult, CompleteOutput, IsCleanZeroFinding
  <2>4. QED
    BY <1>6, <2>1, <2>2, <2>3, CompletePostable DEF CheckResult, Approvals, Summaries
<1>7. ASSUME RemoveLabel PROVE StepInv' /\ PostsInv'
  <2>1. UNCHANGED <<repo, out, posts>> /\ step = "remove" /\ step' \in {"success", "failed"}
        /\ (step' = "success" => removed') /\ repo.remove
    BY <1>7 DEF RemoveLabel
  <2>2. Postable' = Postable /\ Wanted' = Wanted /\ CompleteOutput' = CompleteOutput
    BY <2>1, DecisionsStay
  <2>3. QED
    BY <2>1, <2>2 DEF Approvals, Summaries
<1>8. ASSUME Die PROVE StepInv' /\ PostsInv'
  <2>1. UNCHANGED <<repo, out, posts, removed>> /\ step' = "failed"
    BY <1>8 DEF Die, Runs
  <2>2. Postable' = Postable /\ Wanted' = Wanted /\ CompleteOutput' = CompleteOutput
    BY <2>1, DecisionsStay
  <2>3. QED
    BY <2>1, <2>2 DEF Approvals, Summaries
<1>9. ASSUME UNCHANGED <<repo, out, step, posts, removed>> PROVE StepInv' /\ PostsInv'
  <2>1. Postable' = Postable /\ Wanted' = Wanted /\ CompleteOutput' = CompleteOutput
    BY <1>9, DecisionsStay
  <2>2. QED
    BY <1>9, <2>1 DEF Approvals, Summaries
<1>10. QED
  BY <1>1, <1>2, <1>3, <1>4, <1>5, <1>6, <1>7, <1>8, <1>9 DEF Next, TouchLabel, vars

\* A call that is answered leaves no second post to make.
LEMMA LostStep ==
  ASSUME Inv, [Next]_vars
  PROVE  LostInv'
<1> USE DEF Inv, TypeOK, LostInv, Reviews
<1>1. ASSUME PostReview PROVE LostInv'
  <2>1. posts = {}
    BY <1>1 DEF PostReview, StepInv
  <2>2. PICK kind \in {"summary", "approvedSummary"} : Post(kind, "check", Fallback)
    BY <1>1 DEF PostReview
  <2>3. CASE posts' = {kind} /\ step' = "check"
    BY <2>3
  <2>4. CASE posts' = {}
    BY <2>1, <2>4
  <2>5. CASE posts' = {kind} /\ lost' >= 1
    BY <2>2, <2>5
  <2> QED BY <2>1, <2>2, <2>3, <2>4, <2>5 DEF Post
<1>2. ASSUME PostApproval PROVE LostInv'
  <2>1. posts \subseteq {"approvedSummary"} /\ (posts # {} => lost >= 1)
    BY <1>2 DEF PostApproval, StepInv
  <2>2. posts' \subseteq posts \cup {"approval"} /\ lost' \in {lost, lost + 1}
    BY <1>2 DEF PostApproval, Post
  <2> QED BY <2>1, <2>2
<1>3. ASSUME PostComment PROVE LostInv'
  <2>1. Reviews # {} => lost >= 1
    BY <1>3 DEF PostComment
  <2>2. posts' \subseteq posts \cup {"issueComment"} /\ lost' \in {lost, lost + 1}
    BY <1>3 DEF PostComment, Post
  <2> QED BY <2>1, <2>2
\* The other steps post nothing, and DecideToPost starts with nothing posted.
<1>4. ASSUME posts' = posts, lost' \in {lost, lost + 1},
             step' \in {"approve", "comment"} => posts = {} \/ step' = step
      PROVE  LostInv'
  BY <1>4
<1>5. CASE DecideToPost
  BY <1>4, <1>5 DEF DecideToPost, StepInv
<1>6. CASE RunOCR \/ CheckResult \/ RemoveLabel \/ Die \/ TouchLabel \/ UNCHANGED vars
  <2>1. posts' = posts /\ lost' \in {lost, lost + 1}
    BY <1>6 DEF RunOCR, CheckResult, RemoveLabel, Die, TouchLabel, vars
  <2>2. step' \in {"approve", "comment"} => step' = step
    BY <1>6 DEF RunOCR, CheckResult, RemoveLabel, Die, TouchLabel, vars
  <2> QED BY <1>4, <2>1, <2>2
<1> QED BY <1>1, <1>2, <1>3, <1>5, <1>6 DEF Next

LEMMA Invariance == Spec => []Inv
<1>1. Inv /\ [Next]_vars => Inv'
  BY TypeStep, PostStep, LostStep DEF Inv
<1>2. QED
  BY InitInv, <1>1, PTL DEF Spec

\* A review holds what its variables may hold, and posts nothing before it has the
\* whole result of the subprocess.
THEOREM PostingTyped == Spec => []TypeOK
<1>1. Inv => TypeOK
  BY DEF Inv
<1>2. QED
  BY Invariance, <1>1, PTL

\* A review approves clean outputs only, on the review, the fallback and the
\* comment path alike.
THEOREM Approves == Spec => []ApproveOnlyClean
<1>1. Inv => ApproveOnlyClean
  BY DEF Inv, TypeOK, PostsInv, ApproveOnlyClean, Wanted, Postable, ZeroFindingApprovalEnabled,
     ShouldPostOCRResult, IsCleanZeroFinding, HasReviewWarnings, Failed, Plausible, OCROutput,
     Nothing, Approvals
<1>2. QED
  BY Invariance, <1>1, PTL

\* The summary by comment never goes ahead of the APPROVE.
THEOREM ApprovesFirst == Spec => []ApproveBeforeComment
<1>1. Inv => ApproveBeforeComment
  BY DEF Inv, PostsInv, ApproveBeforeComment, Wanted
<1>2. QED
  BY Invariance, <1>1, PTL

LEMMA CompleteMeans ==
  ASSUME Inv, CompleteOutput, Summaries # {}, Wanted => Approvals # {}
  PROVE  Complete
BY DEF Inv, TypeOK, Complete, CompleteOutput, Wanted, ZeroFindingApprovalEnabled,
   IsCleanZeroFinding, HasReviewWarnings, Failed, Plausible, OCROutput, Nothing

\* Success means that everything was done.
THEOREM Succeeds == Spec => []SuccessIsComplete
<1>1. Inv => SuccessIsComplete
  BY CompleteMeans DEF Inv, StepInv, SuccessIsComplete
<1>2. QED
  BY Invariance, <1>1, PTL

\* The label goes after everything else, so that what fails later takes nothing back.
THEOREM LabelLast == Spec => []LabelGoesLast
<1>1. Inv => LabelGoesLast
  BY CompleteMeans DEF Inv, PostsInv, LabelGoesLast
<1>2. QED
  BY Invariance, <1>1, PTL

\* A set within two elements has at most two, and at most one if it lacks one of them.
LEMMA AtMostTwo ==
  ASSUME NEW S, NEW a, NEW b, S \subseteq {a, b}
  PROVE  /\ Cardinality(S) \in Nat /\ Cardinality(S) <= 2
         /\ S # {a, b} => Cardinality(S) <= 1
<1>1. Cardinality({}) = 0 /\ Cardinality({a}) = 1 /\ Cardinality({b}) = 1
  BY FS_EmptySet, FS_Singleton
<1>2. CASE a = b
  <2>1. S = {} \/ S = {a}
    BY <1>2
  <2> QED BY <1>1, <2>1
<1>3. CASE a # b
  <2>1. IsFiniteSet({a}) /\ b \notin {a} /\ {a, b} = {a} \cup {b}
    BY <1>3, FS_Singleton
  <2>2. Cardinality({a, b}) = 2
    BY <1>1, <2>1, FS_AddElement
  <2>3. S = {} \/ S = {a} \/ S = {b} \/ S = {a, b}
    OBVIOUS
  <2> QED BY <1>1, <2>2, <2>3
<1> QED BY <1>2, <1>3

\* No path through postResult leaves a second summary or a second APPROVE, except for
\* the answers that got lost on it.
THEOREM PostsOnce == Spec => []NoDuplicates
<1>1. Inv => NoDuplicates
  <2> SUFFICES ASSUME Inv PROVE NoDuplicates
    OBVIOUS
  <2>1. Cardinality(Approvals) <= 1 + lost
    <3>1. Approvals \subseteq {"approval", "approvedSummary"}
      BY DEF Approvals
    <3>2. Approvals = {"approval", "approvedSummary"} => lost >= 1
      BY DEF Approvals, Inv, LostInv
    <3>3. /\ Cardinality(Approvals) \in Nat /\ Cardinality(Approvals) <= 2
          /\ Approvals # {"approval", "approvedSummary"} => Cardinality(Approvals) <= 1
      BY <3>1, AtMostTwo
    <3> QED BY <3>2, <3>3 DEF Inv, TypeOK
  <2>2. Cardinality(Summaries) <= 1 + lost
    <3>1. PICK kind \in {"summary", "approvedSummary"} : Reviews \subseteq {kind}
      BY DEF Inv, LostInv, Reviews
    <3>2. Summaries \subseteq {kind, "issueComment"}
      BY <3>1 DEF Summaries, Reviews
    <3>3. Summaries = {kind, "issueComment"} => lost >= 1
      BY DEF Summaries, Reviews, Inv, LostInv
    <3>4. /\ Cardinality(Summaries) \in Nat /\ Cardinality(Summaries) <= 2
          /\ Summaries # {kind, "issueComment"} => Cardinality(Summaries) <= 1
      BY <3>2, AtMostTwo
    <3> QED BY <3>3, <3>4 DEF Inv, TypeOK
  <2> QED BY <2>1, <2>2 DEF NoDuplicates
<1>2. QED
  BY Invariance, <1>1, PTL

\* What failed altogether stays off the pull request.
THEOREM StaysOff == Spec => []FailureStaysOff
<1>1. Inv => FailureStaysOff
  BY DEF Inv, PostsInv, FailureStaysOff, Postable, ShouldPostOCRResult, Failed, HasReviewWarnings
<1>2. QED
  BY Invariance, <1>1, PTL

\* Whatever way the summary took, all findings are on the pull request.
THEOREM Shows == Spec => []EveryFindingShown
<1>1. EveryFindingShown
  <2>1. SummarySections \cup SentInline = out.findings
    BY DEF SummarySections, SentInline, Inline
  <2>2. QED
    BY <2>1 DEF EveryFindingShown, Shown
<1>2. QED
  BY <1>1, PTL

-----------------------------------------------------------------------------
(* What a review ends with.                                                *)

\* The one way to fail a review that OCR completed and whose calls were all accepted:
\* everything is posted, and the label the review is to remove is not there
\* (CONTEXT.md:200, engine.go:455; CompleteSucceeds without that case).
FailsOnlyWithoutLabel ==
  (step = "failed" /\ ~trouble /\ CompleteOutput) => repo.remove /\ ~removed /\ Complete

\* Nothing is posted once the label is off, so that a pull request is never changed
\* by a review that looks finished on the host (ADR-0003).
NothingAfterLabel == [][removed => posts' = posts]_vars

\* What was posted of a complete output, stated of the step that fails.
FailedInv ==
  (step = "failed" /\ ~trouble /\ CompleteOutput) =>
    repo.remove /\ ~removed /\ Summaries # {} /\ (Wanted => Approvals # {})

LEMMA FailedStep == Inv /\ FailedInv /\ [Next]_vars => FailedInv'
<1> SUFFICES ASSUME Inv, FailedInv, [Next]_vars, step' = "failed", ~trouble', CompleteOutput'
             PROVE  /\ repo.remove' /\ ~removed'
                    /\ Summaries' # {} /\ (Wanted' => Approvals' # {})
  BY DEF FailedInv
<1>1. CASE RunOCR
  BY <1>1 DEF RunOCR
<1>2. CASE DecideToPost
  <2>1. out.err /\ UNCHANGED <<repo, out>>
    BY <1>2 DEF DecideToPost, FirstPost, Runs
  <2>2. ~CompleteOutput'
    BY <2>1, DecisionsStay DEF CompleteOutput
  <2> QED BY <2>2
\* A call that leads to "failed" leaves trouble behind.
<1>3. CASE PostReview
  BY <1>3 DEF PostReview, Post, Fallback
<1>4. CASE PostApproval \/ PostComment
  BY <1>4 DEF PostApproval, PostComment, Post
<1>5. CASE CheckResult
  <2>1. ~CompleteOutput /\ UNCHANGED <<repo, out>>
    BY <1>5 DEF CheckResult, CompleteOutput, Runs
  <2> QED BY <2>1, DecisionsStay
<1>6. CASE RemoveLabel
  <2>1. UNCHANGED <<repo, out, posts>> /\ step = "remove" /\ removed' = removed
    BY <1>6 DEF RemoveLabel
  <2>2. Wanted' = Wanted
    BY <2>1, DecisionsStay
  <2> QED BY <2>1, <2>2 DEF Inv, StepInv, Summaries, Approvals
<1>7. CASE Die
  BY <1>7 DEF Die
<1>8. CASE UNCHANGED <<repo, out, step, posts, removed, trouble>>
  <2>1. Wanted' = Wanted /\ CompleteOutput' = CompleteOutput
    BY <1>8, DecisionsStay
  <2> QED BY <1>8, <2>1 DEF FailedInv, Summaries, Approvals
<1> QED
  BY <1>1, <1>2, <1>3, <1>4, <1>5, <1>6, <1>7, <1>8 DEF Next, TouchLabel, vars

\* A review that did all it should fails for one reason only.
THEOREM FailsForTheLabel == Spec => []FailsOnlyWithoutLabel
<1>1. Init => FailedInv
  BY DEF Init, FailedInv
<1>2. (Inv /\ FailedInv) /\ [Next]_vars => (Inv /\ FailedInv)'
  BY FailedStep, TypeStep, PostStep, LostStep DEF Inv
<1>3. Inv /\ FailedInv => FailsOnlyWithoutLabel
  BY CompleteMeans DEF FailedInv, FailsOnlyWithoutLabel
<1>4. QED
  BY InitInv, <1>1, <1>2, <1>3, PTL DEF Spec

\* Taking the label off is the last thing a review does to its pull request.
THEOREM LabelEndsReview == Spec => NothingAfterLabel
<1>1. Inv /\ [Next]_vars => (removed => posts' = posts)
  <2> SUFFICES ASSUME Inv, [Next]_vars, removed PROVE posts' = posts
    OBVIOUS
  <2>1. step \in {"success", "failed"}
    BY DEF Inv, PostsInv
  <2> QED BY <2>1 DEF Next, RunOCR, DecideToPost, PostReview, PostApproval, PostComment, CheckResult,
          RemoveLabel, Die, TouchLabel, vars
<1>2. QED
  BY Invariance, <1>1, PTL DEF Spec, NothingAfterLabel
=============================================================================
