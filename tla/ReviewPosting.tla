---------------------------- MODULE ReviewPosting ---------------------------
(***************************************************************************)
(* One review from the end of the OCR subprocess to its verdict:           *)
(* executeReview and postResult of internal/review/engine.go over the API  *)
(* of the Git host.  Every call to the host may be refused, or succeed     *)
(* while its answer gets lost; the process may panic or die between two    *)
(* calls; people change the label meanwhile.                               *)
(***************************************************************************)
EXTENDS Integers, FiniteSets

CONSTANTS
  Repos,     \* settings a repo may have, a subset of RepoSettings
  People,    \* what people do on the host: a subset of {"label", "unlabel"}
  Outputs,   \* what OCR may come back with, a subset of OCROutput
  Faults     \* a subset of {"lost", "died"}: answers get lost, the process dies

\* The columns of repos and git_hosts that executeReview reads.
RepoSettings ==
  [mode : {"inline", "comment"}, approve : BOOLEAN, host : {"github", "gitea"},
   remove : BOOLEAN]

\* Runner.Review's result: ocr.Result, whether anything was printed, and
\* whether an error came with it (exit code or unparsable output).  A finding
\* may lack its path, its line or both.  The status "completed" stands for every
\* other one, "" included, the message "clean" for none and for the fixed phrase
\* of a review without findings, "degraded" for any other.
Finding == [path : BOOLEAN, line : BOOLEAN]
WarningKinds == {"informational", "actionable"}
OCROutput ==
  [findings : SUBSET Finding, warnings : SUBSET WarningKinds,
   status : {"completed", "completed_with_errors", "failed"},
   message : {"clean", "degraded"}, printed : BOOLEAN, err : BOOLEAN]

\* Nothing printed leaves the zero Result.
Nothing == [findings |-> {}, warnings |-> {}, status |-> "completed",
            message |-> "clean", printed |-> FALSE, err |-> FALSE]
Plausible == {o \in OCROutput : o.printed \/ o \in {Nothing, [Nothing EXCEPT !.err = TRUE]}}

ASSUME PostingAssumption ==
  /\ Repos \subseteq RepoSettings
  /\ Outputs \subseteq Plausible
  /\ People \subseteq {"label", "unlabel"}
  /\ Faults \subseteq {"lost", "died"}

VARIABLES
  repo,     \* the settings, read once when the review starts
  out,      \* what OCR came back with
  step,     \* where executeReview is
  posts,    \* what this review has put on the pull request
  label,    \* the Trigger Label is on the pull request
  removed,  \* history: this review took it off
  lost,     \* history: answers that got lost
  trouble   \* history: the host refused a call, an answer got lost or the process died

vars == <<repo, out, step, posts, label, removed, lost, trouble>>

Steps == {"ocr", "decide", "review", "approve", "comment", "check", "remove",
          "success", "failed"}

\* A separate APPROVE with a short body, the summary as an APPROVE or as a
\* COMMENT review with the inline findings, and the summary as an issue comment.
Kinds == {"approval", "approvedSummary", "summary", "issueComment"}
Approvals == posts \cap {"approval", "approvedSummary"}
Summaries == posts \cap {"approvedSummary", "summary", "issueComment"}

TypeOK ==
  /\ repo \in Repos
  /\ out \in Plausible
  /\ step \in Steps
  /\ posts \subseteq Kinds
  /\ label \in BOOLEAN /\ removed \in BOOLEAN /\ trouble \in BOOLEAN
  /\ lost \in Nat
  /\ step \in {"ocr", "decide"} => posts = {}

Init ==
  /\ repo \in Repos
  /\ out = Nothing
  /\ step = "ocr"
  /\ posts = {}
  /\ label \in BOOLEAN
  /\ removed = FALSE /\ lost = 0 /\ trouble = FALSE

-----------------------------------------------------------------------------
(* Decisions.  A definition X_How is X with a slip in it: no definition    *)
(* uses it, it serves to see that a property notices.                      *)

\* Warning.IsActionable, Result.HasReviewWarnings, Result.Failed.
HasReviewWarnings_StatusOnly == out.status = "completed_with_errors"
HasReviewWarnings == "actionable" \in out.warnings \/ out.status = "completed_with_errors"
Failed == out.status = "failed"

\* Neither the message nor informational warnings count.
IsCleanZeroFinding == ~HasReviewWarnings /\ ~Failed

ZeroFindingApprovalEnabled_AnyFindings == IsCleanZeroFinding /\ repo.approve /\ repo.host = "github"
ZeroFindingApprovalEnabled ==
  out.findings = {} /\ IsCleanZeroFinding /\ repo.approve /\ repo.host = "github"

ShouldPostOCRResult ==
  out.findings # {} \/ (~Failed /\ ~(out.err /\ ~HasReviewWarnings))

\* The first call of postResult.
FirstPost ==
  CASE repo.mode = "inline" -> "review"
    [] repo.mode = "comment" /\ ZeroFindingApprovalEnabled -> "approve"
    [] OTHER -> "comment"

\* What postResult does when the review with the summary was not accepted.
Fallback_CommentFirst == "comment"
Fallback == IF ZeroFindingApprovalEnabled THEN "approve" ELSE "comment"

-----------------------------------------------------------------------------
(* The layout of a post: ForInline and AsSingleComment.                    *)

\* A finding with a path and a line becomes an inline comment, any other a
\* section of the summary.
Inline_AnyPath == {f \in out.findings : f.line}
Inline == {f \in out.findings : f.line /\ f.path}
SummarySections == out.findings \ Inline

\* CreatePullRequestReview leaves out inline comments without a path.
SentInline == {f \in Inline : f.path}

\* The findings a reader of the pull request finds there.
Shown ==
  UNION {IF k = "issueComment" THEN out.findings ELSE SummarySections \cup SentInline :
         k \in Summaries}

-----------------------------------------------------------------------------
Runs == UNCHANGED <<repo, out, label, removed>>

\* The subprocess ends.
RunOCR ==
  /\ step = "ocr"
  /\ out' \in Outputs
  /\ step' = "decide"
  /\ UNCHANGED <<repo, posts, label, removed, lost, trouble>>

\* Nothing printed and an error: no output file, no post.
DecideToPost ==
  /\ step = "decide"
  /\ step' = IF out.err /\ ~out.printed THEN "failed"
             ELSE IF ShouldPostOCRResult THEN FirstPost ELSE "check"
  /\ UNCHANGED <<posts, lost, trouble>>
  /\ Runs

\* A call that posts something: accepted, refused, or accepted with the answer
\* lost, which the caller takes for refused.
Post(kind, accepted, refused) ==
  \/ /\ posts' = posts \cup {kind}
     /\ step' = accepted
     /\ UNCHANGED <<lost, trouble>>
  \/ /\ step' = refused
     /\ trouble' = TRUE
     /\ UNCHANGED <<posts, lost>>
  \/ /\ "lost" \in Faults
     /\ posts' = posts \cup {kind}
     /\ step' = refused
     /\ trouble' = TRUE
     /\ lost' = lost + 1

\* CreatePullRequestReview with the summary and the inline findings.
PostReview_AndComment ==
  /\ step = "review"
  /\ Post(IF ZeroFindingApprovalEnabled THEN "approvedSummary" ELSE "summary",
          "comment", Fallback)
  /\ Runs
PostReview ==
  /\ step = "review"
  /\ Post(IF ZeroFindingApprovalEnabled THEN "approvedSummary" ELSE "summary",
          "check", Fallback)
  /\ Runs

\* CreatePullRequestReview with ApprovalBody.
PostApproval_GoOn ==
  /\ step = "approve"
  /\ Post("approval", "comment", "comment")
  /\ Runs
PostApproval ==
  /\ step = "approve"
  /\ Post("approval", "comment", "failed")
  /\ Runs

\* CreateIssueComment.
PostComment_StartOver ==
  /\ step = "comment"
  /\ Post("issueComment", "check", "decide")
  /\ Runs
PostComment ==
  /\ step = "comment"
  /\ Post("issueComment", "check", "failed")
  /\ Runs

\* What is left of executeReview after posting.
CheckResult ==
  /\ step = "check"
  /\ step' = IF HasReviewWarnings \/ out.err \/ Failed THEN "failed"
             ELSE IF repo.remove /\ (out.findings # {} \/ IsCleanZeroFinding) THEN "remove"
             ELSE "success"
  /\ UNCHANGED <<posts, lost, trouble>>
  /\ Runs

\* RemoveLabel.  A label that is not there is an error: Gitea's id is looked
\* up among the labels of the issue, GitHub answers 404.
RemoveLabel ==
  /\ step = "remove"
  /\ \/ /\ label
        /\ label' = FALSE /\ removed' = TRUE
        /\ \/ step' = "success" /\ UNCHANGED <<lost, trouble>>
           \/ "lost" \in Faults /\ step' = "failed" /\ lost' = lost + 1 /\ trouble' = TRUE
     \/ /\ step' = "failed"
        /\ trouble' = (trouble \/ label)
        /\ UNCHANGED <<label, removed, lost>>
  /\ UNCHANGED <<repo, out, posts>>

\* A panic, or a process death and the restart that fails the row.  (A review
\* whose verdict is in memory only is failed as well.)
Die ==
  /\ "died" \in Faults
  /\ step # "failed"
  /\ step' = "failed"
  /\ trouble' = TRUE
  /\ UNCHANGED <<posts, lost>>
  /\ Runs

\* People on the host.
TouchLabel ==
  /\ (IF label THEN "unlabel" ELSE "label") \in People
  /\ label' = ~label
  /\ UNCHANGED <<repo, out, step, posts, removed, lost, trouble>>

Next ==
  \/ RunOCR \/ DecideToPost
  \/ PostReview \/ PostApproval \/ PostComment
  \/ CheckResult \/ RemoveLabel
  \/ Die \/ TouchLabel

Spec == Init /\ [][Next]_vars

-----------------------------------------------------------------------------
(* Properties.                                                             *)

\* An APPROVE is on the pull request only if OCR ended well, found nothing and
\* warned of nothing that the code and its tests call actionable
\* (language_test.go:36-51), whatever path it was posted on, and only where the
\* repo asked for it on GitHub (ADR-0005).  The glossary asks for more, which
\* the code does not give: ApproveOnlyIndicated below.
ApproveOnlyClean ==
  Approvals # {} =>
    /\ out.findings = {} /\ "actionable" \notin out.warnings
    /\ out.status = "completed" /\ ~out.err
    /\ repo.approve /\ repo.host = "github"

\* Where an APPROVE is wanted, the summary never appears as an issue comment
\* without one, so that a retry after a refused APPROVE cannot pile up comments
\* (ADR-0005, CONTEXT.md:212).
ApproveBeforeComment ==
  ("issueComment" \in posts /\ ZeroFindingApprovalEnabled) => Approvals # {}

\* The glossary promises an APPROVE only under the indicator for a clean review:
\* no warnings, informational ones included, and no message but the fixed phrase
\* (CONTEXT.md:208, 212).
ApproveOnlyIndicated == Approvals # {} => out.warnings = {} /\ out.message = "clean"

\* OCR ran completely, and the summary and the APPROVE that apply are posted.
\* Complete in the sense of the code: a review without findings that has
\* informational warnings or a degraded message is one, though CONTEXT.md:24
\* keeps its label and CONTEXT.md:212 withholds its APPROVE.
Complete ==
  /\ ~out.err /\ out.status = "completed" /\ "actionable" \notin out.warnings
  /\ Summaries # {}
  /\ (repo.approve /\ repo.host = "github" /\ out.findings = {}) => Approvals # {}

\* A review that says success did everything, the removal of the label
\* included (CONTEXT.md:200).
SuccessIsComplete == step = "success" => Complete /\ (repo.remove => removed)

\* The label goes last: whatever fails, panics or dies afterwards, a pull request
\* whose label a review took off has been reviewed completely (ADR-0003, ADR-0005).
LabelGoesLast == removed => Complete

\* A total failure leaves no trace on the pull request (ocr-review-output.md:11).
FailureStaysOff ==
  (out.findings = {} /\ (out.status = "failed" \/ (out.err /\ ~HasReviewWarnings))) => posts = {}

\* No finding gets lost between the inline comments, the sections of the summary
\* and the comment a refused review falls back to, paths and lines or not
\* (ocr-review-output.md:45).
EveryFindingShown == Summaries # {} => Shown = out.findings

\* One summary and one APPROVE per review, unless an answer got lost.
NoDuplicates ==
  /\ Cardinality(Summaries) <= 1 + lost
  /\ Cardinality(Approvals) <= 1 + lost

\* A review that OCR completed, and whose calls the host accepted, succeeds
\* (CONTEXT.md:200), also when it was asked for by hand without the label.
CompleteSucceeds ==
  step = "failed" => trouble \/ out.err \/ HasReviewWarnings \/ Failed
=============================================================================
