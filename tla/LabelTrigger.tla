---------------------------- MODULE LabelTrigger ----------------------------
(***************************************************************************)
(* The Review Trigger: the poller of internal/review/engine.go, the        *)
(* Trigger Label on the Git host, the PR Snapshot that remembers what the  *)
(* poller saw, and the ends of Review Runs, which write the same snapshot. *)
(* One Registered Repo; people on the host open and close pull requests,   *)
(* put labels on and take them off; the Administrator asks for manual      *)
(* reviews and changes the repo's Trigger Label.                           *)
(*                                                                         *)
(* Of the engine only what the trigger sees is here: a pull request has at *)
(* most one active row and the repo one running row (ReviewEngine).        *)
(***************************************************************************)
EXTENDS Integers, FiniteSets

CONSTANTS
  PR,           \* numbers of the repo's pull requests
  NoPR,         \* nobody holds the repo mutex
  PageSize,     \* pull requests in the answer to the poller, 100 in the code
  Labels,       \* labels that are or become the Trigger Label
  NoLabel,      \* no label, the value of a local out of its scope
  Closable,     \* pull requests that people close and reopen
  Removals,     \* values of "remove label after review" the Administrator may save
  Manual,       \* the Administrator asks for manual reviews
  MaxAdds,      \* bound: times a label is put on each pull request
  MaxChanges,   \* bound: saves of the repo's form
  MaxManual,    \* bound: manual reviews
  Faults,       \* what may go wrong, see below
  MaxFaults     \* bound: how often

\* "call": a statement or a call to the host fails, or its answer gets lost.
\* "save": a write of the snapshot fails, which nobody notices.
\* "crash": the process dies.
FaultKinds == {"call", "save", "crash"}

ASSUME TriggerAssumption ==
  /\ PR # {} /\ PR \subseteq Nat /\ IsFiniteSet(PR)
  /\ NoPR \notin PR
  /\ PageSize \in Nat \ {0} /\ Closable \subseteq PR
  /\ Labels # {} /\ NoLabel \notin Labels
  /\ Removals \subseteq BOOLEAN /\ Removals # {}
  /\ Manual \in BOOLEAN
  /\ Faults \subseteq FaultKinds
  /\ MaxAdds \in [PR -> Nat]
  /\ {MaxChanges, MaxManual, MaxFaults} \subseteq Nat

VARIABLES
  open,       \* open pull requests, at the host
  label,      \* the labels on each pull request, at the host
  triggerLabel, removeLabel,  \* repos.trigger_label, remove_label_after_review
  snap,       \* pr_snapshots.has_trigger_label
  row,        \* the active row of the pull request in review_runs
  poll,       \* where the poller is
  wanted,     \* the Trigger Label in the copy of the repo the poller works on
  listed,     \* the labels in the list it works on
  todo, cur,  \* pull requests of the list left to do, and the one in hand
  holder,     \* the review that holds the repo mutex
  step,       \* where that review is
  sought, removing,  \* triggerLabel and removeLabel when that review read the repo
  fetched,    \* the label was on when it fetched the pull request
  unwinding,  \* reviews that panicked and gave the mutex back
  late,       \* reviews that panicked and have yet to save the snapshot
  adds, changes, manuals, faults,  \* counted against the bounds
  early,      \* history: labels put on while a review that had not seen them was under way
  served      \* history: label runs created since the label was last put on

host == <<open, label, adds>>
repo == <<triggerLabel, removeLabel, changes>>
poller == <<poll, wanted, listed, todo, cur>>
review == <<holder, step, sought, removing, fetched, unwinding, late>>
history == <<early, served>>
vars == <<host, repo, snap, row, poller, review, manuals, faults, history>>

PollSteps == {"rest", "list", "next", "schedule", "save"}
\* "review" covers the worktree, OCR and posting.
ReviewSteps == {"idle", "review", "remove", "passed", "failed", "savePassed", "saveFailed"}

TypeOK ==
  /\ open \subseteq PR
  /\ {label, listed} \subseteq [PR -> SUBSET Labels]
  /\ snap \in [PR -> BOOLEAN]
  /\ triggerLabel \in Labels /\ {wanted, sought} \subseteq Labels \cup {NoLabel} /\ removeLabel \in Removals
  /\ row \in [PR -> {"none", "pending", "running"}]
  /\ poll \in PollSteps
  /\ todo \subseteq PR /\ cur \in PR
  /\ holder \in PR \cup {NoPR}
  /\ step \in ReviewSteps
  /\ (step = "idle") <=> (holder = NoPR)
  /\ fetched \in BOOLEAN /\ removing \in BOOLEAN
  /\ unwinding \subseteq PR /\ late \subseteq PR
  /\ adds \in [PR -> Nat] /\ \A p \in PR : adds[p] <= MaxAdds[p]
  /\ served \in [PR -> [Labels -> Nat]] /\ early \subseteq PR \X Labels
  /\ changes \in 0..MaxChanges /\ manuals \in 0..MaxManual /\ faults \in 0..MaxFaults

Init ==
  /\ open = PR
  /\ label = [p \in PR |-> {}]
  /\ snap = [p \in PR |-> FALSE]
  /\ triggerLabel \in Labels /\ removeLabel \in Removals
  /\ row = [p \in PR |-> "none"]
  /\ poll = "rest" /\ wanted = NoLabel
  /\ listed = [p \in PR |-> {}]
  /\ todo = {}
  /\ cur \in PR
  /\ holder = NoPR /\ step = "idle"
  /\ sought = NoLabel /\ fetched = FALSE /\ removing = FALSE
  /\ unwinding = {} /\ late = {}
  /\ adds = [p \in PR |-> 0]
  /\ changes = 0 /\ manuals = 0 /\ faults = 0
  /\ served = [p \in PR |-> [l \in Labels |-> 0]] /\ early = {}

\* The poller's and the review's locals go out of scope.
PollOver ==
  /\ poll' = "rest" /\ wanted' = NoLabel
  /\ listed' = [p \in PR |-> {}] /\ todo' = {}
ReviewOver == holder' = NoPR /\ step' = "idle" /\ sought' = NoLabel /\ removing' = FALSE /\ fetched' = FALSE

Fault(kind) == kind \in Faults /\ faults < MaxFaults /\ faults' = faults + 1

\* SavePRSnapshot, whose callers drop the error.
SavePRSnapshot(p, has) ==
  \/ snap' = [snap EXCEPT ![p] = has] /\ UNCHANGED faults
  \/ Fault("save") /\ UNCHANGED snap

-----------------------------------------------------------------------------
(* People.                                                                 *)

AddLabel(p, l) ==
  /\ l \notin label[p] /\ adds[p] < MaxAdds[p]
  /\ label' = [label EXCEPT ![p] = @ \cup {l}]
  /\ adds' = [adds EXCEPT ![p] = @ + 1]
  /\ served' = [served EXCEPT ![p][l] = 0]
  /\ early' = IF holder = p THEN early \cup {<<p, l>>} ELSE early \ {<<p, l>>}
  /\ UNCHANGED <<open, repo, snap, row, poller, review, manuals, faults>>

TakeLabelOff(p, l) ==
  /\ l \in label[p]
  /\ label' = [label EXCEPT ![p] = @ \ {l}]
  /\ UNCHANGED <<open, adds, repo, snap, row, poller, review, manuals, faults, history>>

\* A pull request is closed or reopened.
ClosePR(p) ==
  /\ p \in Closable
  /\ open' = IF p \in open THEN open \ {p} ELSE open \cup {p}
  /\ UNCHANGED <<label, adds, repo, snap, row, poller, review, manuals, faults, history>>

\* repoManualReview: ScheduleReview with trigger kind "manual".
ManualReview(p) ==
  /\ Manual /\ manuals < MaxManual
  /\ row[p] = "none"
  /\ row' = [row EXCEPT ![p] = "pending"]
  /\ manuals' = manuals + 1
  /\ UNCHANGED <<host, repo, snap, poller, review, faults, history>>

\* UpdateRepo, the Trigger Label and the checkbox of the repo's form.  The
\* snapshots stay as they are.
UpdateRepo(l, b) ==
  /\ <<l, b>> # <<triggerLabel, removeLabel>>
  /\ changes < MaxChanges /\ changes' = changes + 1
  /\ triggerLabel' = l /\ removeLabel' = b
  /\ UNCHANGED <<host, snap, row, poller, review, manuals, faults, history>>

-----------------------------------------------------------------------------
(* pollAll and pollRepo.  A definition X_How is X with a slip in it: no    *)
(* definition uses it, it serves to see that a property notices.           *)

\* pollAll reads the repos, pollRepo works on that copy.
StartPoll_OldCopy ==
  /\ poll = "rest"
  /\ poll' = "list"
  /\ wanted' = IF changes = 0 THEN triggerLabel ELSE CHOOSE l \in Labels : l # triggerLabel
  /\ UNCHANGED <<host, repo, snap, row, listed, todo, cur, review, manuals, faults, history>>
StartPoll ==
  /\ poll = "rest"
  /\ poll' = "list"
  /\ wanted' = triggerLabel
  /\ UNCHANGED <<host, repo, snap, row, listed, todo, cur, review, manuals, faults, history>>

\* One page of the host's answer, newest first.
FirstPage == {p \in open : Cardinality({q \in open : q > p}) < PageSize}

\* Without a Host, a PAT or an answer the poll of the repo ends.
ListOpenPullRequests ==
  /\ poll = "list"
  /\ \/ listed' = label /\ todo' = FirstPage /\ poll' = "next" /\ UNCHANGED <<wanted, faults>>
     \/ Fault("call") /\ PollOver
  /\ UNCHANGED <<host, repo, snap, row, cur, review, manuals, history>>

\* The label went from absent in the snapshot to present in the list.
Transition(p) == wanted \in listed[p] /\ ~snap[p]

\* An error ends the poll of the repo.
GetPRSnapshot(p) ==
  /\ poll = "next" /\ p \in todo
  /\ \/ /\ todo' = todo \ {p}
        /\ cur' = p
        /\ poll' = IF Transition(p) THEN "schedule" ELSE "save"
        /\ UNCHANGED <<wanted, listed, faults>>
     \/ Fault("call") /\ PollOver /\ UNCHANGED cur
  /\ UNCHANGED <<host, repo, snap, row, review, manuals, history>>

PollDone ==
  /\ poll = "next" /\ todo = {}
  /\ PollOver
  /\ UNCHANGED <<host, repo, snap, row, cur, review, manuals, faults, history>>

\* ScheduleReview with trigger kind "label".  An active row makes it a no-op
\* that counts as done; an error leaves the snapshot for the next poll.
ScheduleReview ==
  /\ poll = "schedule"
  /\ \/ /\ row[cur] = "none"
        /\ row' = [row EXCEPT ![cur] = "pending"]
        /\ served' = [served EXCEPT ![cur][wanted] = @ + 1]
        /\ poll' = "save" /\ UNCHANGED faults
     \/ /\ row[cur] # "none"
        /\ poll' = "save" /\ UNCHANGED <<row, served, faults>>
     \/ /\ Fault("call")
        /\ poll' = "next" /\ UNCHANGED <<row, served>>
  /\ UNCHANGED <<host, repo, snap, wanted, listed, todo, cur, review, manuals, early>>

SaveListed_OnlyPresent ==
  /\ poll = "save"
  /\ IF wanted \in listed[cur] THEN SavePRSnapshot(cur, TRUE)
                               ELSE UNCHANGED <<snap, faults>>
  /\ poll' = "next"
  /\ UNCHANGED <<host, repo, row, wanted, listed, todo, cur, review, manuals, history>>
SaveListed ==
  /\ poll = "save"
  /\ SavePRSnapshot(cur, wanted \in listed[cur])
  /\ poll' = "next"
  /\ UNCHANGED <<host, repo, row, wanted, listed, todo, cur, review, manuals, history>>

PollRepo ==
  \/ StartPoll
  \/ ListOpenPullRequests
  \/ \E p \in PR : GetPRSnapshot(p)
  \/ ScheduleReview
  \/ SaveListed
  \/ PollDone

-----------------------------------------------------------------------------
(* Review Runs, as far as the trigger is concerned.                        *)

Claim(p) ==
  /\ row[p] = "pending"
  /\ \A q \in PR : row[q] # "running"
  /\ row' = [row EXCEPT ![p] = "running"]
  /\ UNCHANGED <<host, repo, snap, poller, review, manuals, faults, history>>

\* runReview locks the repo and fetches the pull request with its labels; a
\* pull request that is closed fails the review.
FetchPR(p) ==
  /\ row[p] = "running" /\ p \notin unwinding
  /\ holder = NoPR
  /\ holder' = p
  /\ sought' = triggerLabel /\ removing' = removeLabel
  /\ fetched' = (triggerLabel \in label[p])
  /\ step' \in IF p \in open THEN {"review", "failed"} ELSE {"failed"}
  /\ UNCHANGED <<host, repo, snap, row, poller, unwinding, late, manuals, faults, history>>

ReviewEnds ==
  /\ step = "review"
  /\ step' \in {"failed", IF removing THEN "remove" ELSE "passed"}
  /\ UNCHANGED <<host, repo, snap, row, poller, holder, sought, removing, fetched, unwinding, late,
                 manuals, faults, history>>

\* client.RemoveLabel: an error when the label is not there, and when the
\* host's answer is an error or gets lost.
RemoveTriggerLabel ==
  /\ step = "remove"
  /\ \/ sought \in label[holder] /\ step' = "passed" /\ UNCHANGED faults
     \/ Fault("call") /\ step' = "failed"
  /\ label' = [label EXCEPT ![holder] = @ \ {sought}]
  /\ UNCHANGED <<open, adds, repo, snap, row, poller, holder, sought, removing, fetched, unwinding, late, manuals, history>>

RemoveLabelFails ==
  /\ step = "remove"
  /\ step' = "failed"
  /\ UNCHANGED <<host, repo, snap, row, poller, holder, sought, removing, fetched, unwinding, late,
                 manuals, faults, history>>

\* The row gets its verdict first, which makes room for the next one ...
WriteVerdict ==
  /\ step \in {"passed", "failed"}
  /\ row' = [row EXCEPT ![holder] = "none"]
  /\ step' = IF step = "passed" THEN "savePassed" ELSE "saveFailed"
  /\ UNCHANGED <<host, repo, snap, poller, holder, sought, removing, fetched, unwinding, late, manuals, faults, history>>

\* ... and then the snapshot is written: after a success what the review left
\* of the labels it fetched, after a failure "the label was there".
SnapshotAfter_SeeNothing == FALSE
SnapshotAfter == step = "saveFailed" \/ (~removing /\ fetched)

SaveVerdict_NoUnlock ==
  /\ step \in {"savePassed", "saveFailed"}
  /\ SavePRSnapshot(holder, SnapshotAfter)
  /\ step' = "idle"
  /\ UNCHANGED <<host, repo, row, poller, holder, sought, removing, fetched, unwinding, late, manuals, history>>
SaveVerdict ==
  /\ step \in {"savePassed", "saveFailed"}
  /\ SavePRSnapshot(holder, SnapshotAfter)
  /\ ReviewOver
  /\ UNCHANGED <<host, repo, row, poller, unwinding, late, manuals, history>>

\* A panic gives the mutex back before the recovering defer writes.
Panic ==
  /\ step \in {"review", "remove"}
  /\ unwinding' = unwinding \cup {holder}
  /\ ReviewOver
  /\ UNCHANGED <<host, repo, snap, row, poller, late, manuals, faults, history>>

RecoverPanic(p) ==
  /\ p \in unwinding
  /\ row' = [row EXCEPT ![p] = "none"]
  /\ unwinding' = unwinding \ {p}
  /\ late' = late \cup {p}
  /\ UNCHANGED <<host, repo, snap, poller, holder, step, sought, removing, fetched, manuals, faults, history>>

SavePanicked(p) ==
  /\ p \in late
  /\ SavePRSnapshot(p, TRUE)
  /\ late' = late \ {p}
  /\ UNCHANGED <<host, repo, row, poller, holder, step, sought, removing, fetched, unwinding, manuals, history>>

RunReview ==
  \/ ReviewEnds
  \/ RemoveTriggerLabel
  \/ RemoveLabelFails
  \/ WriteVerdict
  \/ SaveVerdict
  \/ \E p \in PR : RecoverPanic(p) \/ SavePanicked(p)

\* The process dies and the next one fails the running rows.
Crash ==
  /\ Fault("crash")
  /\ row' = [p \in PR |-> IF row[p] = "running" THEN "none" ELSE row[p]]
  /\ PollOver /\ ReviewOver
  /\ unwinding' = {} /\ late' = {}
  /\ UNCHANGED <<host, repo, snap, cur, manuals, history>>

Next ==
  \/ \E p \in PR, l \in Labels : AddLabel(p, l) \/ TakeLabelOff(p, l)
  \/ \E p \in PR : ClosePR(p) \/ ManualReview(p)
  \/ \E l \in Labels, b \in Removals : UpdateRepo(l, b)
  \/ PollRepo
  \/ \E p \in PR : Claim(p) \/ FetchPR(p)
  \/ RunReview
  \/ Panic
  \/ Crash

Spec == Init /\ [][Next]_vars

\* The poller comes round again, queued rows are claimed (first in first out,
\* ReviewEngine) and reviews end; nothing else is owed.
Fairness ==
  /\ WF_vars(PollRepo)
  /\ \A p \in PR : SF_vars(Claim(p)) /\ SF_vars(FetchPR(p))
  /\ WF_vars(RunReview)

FairSpec == Spec /\ Fairness

-----------------------------------------------------------------------------
(* Properties.                                                             *)

\* While a label stays on it triggers one review, however often it is polled,
\* whatever becomes of the review and whichever of the two writers of the
\* snapshot comes last (ADR-0003: presence does not trigger, there is no
\* automatic retry).  A fault may cause another, a change of the Trigger Label
\* two more, and so may the end of a review that had not seen the label.
OncePerLabelling ==
  \A p \in PR : \A l \in label[p] :
    served[p][l] <= 1 + faults + 2 * changes + (IF <<p, l>> \in early THEN 1 ELSE 0)

\* The Trigger Label is on a pull request the poller lists.
Calls(p) == triggerLabel \in label[p] /\ p \in FirstPage
Answered(p) == served[p][triggerLabel] > 0 \/ row[p] # "none"

\* A label that is put on and left there gets its pull request reviewed: a
\* label run is created, or one is under way already (CONTEXT.md:16).
LabelServed == \A p \in PR : Calls(p) ~> (~Calls(p) \/ Answered(p))

\* The label is noticed unless the snapshot says it was there before: the one
\* thing that can keep a label from its review, whatever fails in between and
\* whenever the Administrator changes the Trigger Label.
NoticedUnlessTold == \A p \in PR : Calls(p) ~> (~Calls(p) \/ Answered(p) \/ snap[p])

\* A snapshot that says "labelled" does not outlive the label on a pull request
\* the poller lists, whoever wrote it: the next label is a new one.
SnapshotForgets ==
  \A p \in PR :
    LET off == triggerLabel \notin label[p] /\ p \in FirstPage
    IN off ~> (~off \/ ~snap[p])
=============================================================================
