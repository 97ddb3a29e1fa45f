---------------------------- MODULE ReviewEngine ----------------------------
(***************************************************************************)
(* The Review Run scheduler of internal/review/engine.go over the          *)
(* review_runs table of internal/store: Engine.Run's goroutine (startup    *)
(* recovery, poller, retention), the HTTP handlers that ask for a manual   *)
(* review, and one goroutine per claimed Review Run, all of which call     *)
(* ScheduleReview and tryDispatch concurrently.  A handler is split where  *)
(* another goroutine can run between two of its steps: at every statement  *)
(* on the database, at every lock and at the slot counter.                 *)
(*                                                                         *)
(* What the review itself does (git, OCR, posting) is one step with either *)
(* verdict.  Row ids stand for the order (created_at, id).                 *)
(***************************************************************************)
EXTENDS Integers, FiniteSets

CONSTANTS
  Repo,          \* Registered Repos
  PR,            \* pull requests
  RepoOf,        \* the Registered Repo of a pull request
  MaxRuns,       \* bound: rows ever inserted
  Http,          \* HTTP requests in flight at once
  Main,          \* the goroutine of Engine.Run
  NoActor,       \* nobody holds dispatchMu
  Limits,        \* values of max_concurrent_reviews the Administrator may save
  DefaultLimit,  \* acquireGlobal's fallback when the setting cannot be read
  Faults,        \* what may go wrong, see below
  MaxCrashes     \* bound: process deaths

\* "cancel": a client disconnects, so its request context is cancelled.
\* "store":  a statement fails (SQLITE_BUSY, timeout) and is only logged or ignored.
\* "early":  requests arrive while Engine.Run is still recovering.
\* "late":   a row outlives the retention period before it is finished.
FaultKinds == {"cancel", "store", "early", "late"}

ASSUME EngineAssumption ==
  /\ RepoOf \in [PR -> Repo]
  /\ PR # {}
  /\ MaxRuns \in Nat
  /\ MaxCrashes \in Nat
  /\ IsFiniteSet(Http)
  /\ Main \notin Http \cup (1..MaxRuns)
  /\ Http \cap (1..MaxRuns) = {}
  /\ NoActor \notin {Main} \cup Http \cup (1..MaxRuns)
  /\ Limits \subseteq Nat \ {0}
  /\ Limits # {}
  /\ DefaultLimit \in Nat \ {0}
  /\ Faults \subseteq FaultKinds

VARIABLES
  status, prOf, lastId,  \* table review_runs
  maxReviews,            \* global_settings.max_concurrent_reviews
  homes,                 \* OCR homes on disk, ocr-home/run-<id>
  main,                  \* phase of Engine.Run
  disp,                  \* where each goroutine is inside tryDispatch
  dispatchMu,            \* Engine.dispatchMu
  limit,                 \* acquireGlobal's local max
  running,               \* Engine.running
  job,                   \* where the goroutine of each run is inside runReview
  repoMu,                \* Engine.repoLocks
  crashes                \* process deaths so far

rows == <<status, prOf, lastId>>
volatile == <<main, disp, dispatchMu, limit, running, job, repoMu>>
vars == <<rows, maxReviews, homes, volatile, crashes>>

\* The table the engine works on: its columns are the engine's.
Abs == INSTANCE ReviewRuns WITH status <- status, prOf <- prOf, lastId <- lastId

RunId == 1..MaxRuns
NoRun == 0
Actor == {Main} \cup Http \cup RunId
Active == {"pending", "running"}
Terminal == {"success", "failed"}
RepoOfRun(r) == RepoOf[prOf[r]]

Phases == {"recover", "prune", "loop"}
DispatchSteps == {"off", "lock", "limit", "slot", "claim"}
\* "repo" waits for the repo mutex; "fetch" to "unlock" hold it, as "panic"
\* and "release" do not any more; "done" has given its slot back.
JobSteps == {"none", "repo", "fetch", "resolve", "ocr", "pass", "fail",
             "unlock", "panic", "release", "done"}
InMutex == {"fetch", "resolve", "ocr", "pass", "fail", "unlock"}
\* The goroutine has yet to write its row's verdict.
Unfinished == {"repo", "fetch", "resolve", "ocr", "pass", "fail", "panic"}
\* The goroutine occupies one of the slots counted by running.
Live == {r \in RunId : job[r] \notin {"none", "done"}}
Dispatching == {a \in Actor : disp[a] # "off"}
\* It has taken a slot that no goroutine occupies yet.
Claiming == {a \in Actor : disp[a] = "claim"}

TypeOK ==
  /\ status \in [RunId -> {"none"} \cup Active \cup Terminal]
  /\ prOf \in [RunId -> PR]
  /\ lastId \in 0..MaxRuns
  /\ maxReviews \in Limits
  /\ homes \subseteq RunId
  /\ main \in Phases
  /\ disp \in [Actor -> DispatchSteps]
  /\ dispatchMu \in Actor \cup {NoActor}
  /\ limit \in Limits \cup {DefaultLimit}
  /\ running \in Int
  /\ job \in [RunId -> JobSteps]
  /\ repoMu \in [Repo -> RunId \cup {NoRun}]
  /\ crashes \in 0..MaxCrashes
  /\ \A r \in RunId : r > lastId => status[r] = "none"

\* A new process starts with nothing in memory.
Init ==
  /\ status = [r \in RunId |-> "none"]
  /\ prOf = [r \in RunId |-> CHOOSE p \in PR : TRUE]
  /\ lastId = 0
  /\ maxReviews \in Limits
  /\ homes = {}
  /\ main = "recover"
  /\ disp = [a \in Actor |-> "off"]
  /\ dispatchMu = NoActor
  /\ limit = DefaultLimit
  /\ running = 0
  /\ job = [r \in RunId |-> "none"]
  /\ repoMu = [x \in Repo |-> NoRun]
  /\ crashes = 0

-----------------------------------------------------------------------------
(* Statements on review_runs.  A definition X_How is X with a slip in it:  *)
(* no definition uses it, it serves to see that a property notices.        *)

\* WHERE NOT EXISTS of CreatePendingReviewRunIfAbsent.
NoActiveRun_OnlyRunning(p) == \A r \in RunId : prOf[r] = p => status[r] # "running"
NoActiveRun(p) == \A r \in RunId : prOf[r] = p => status[r] \notin Active

\* WHERE of ClaimNextPendingReviewRun.
Claimable_AnyRepo(r) == status[r] = "pending"
Claimable(r) ==
  /\ status[r] = "pending"
  /\ \A q \in RunId : status[q] = "running" => RepoOfRun(q) # RepoOfRun(r)

\* ORDER BY created_at, id LIMIT 1 of ClaimNextPendingReviewRun.
NextClaim_AnyOrder(r) == Claimable(r)
NextClaim(r) == Claimable(r) /\ \A q \in RunId : Claimable(q) => r <= q

\* The status of the claimed run in memory, which UpdateReviewRun writes back
\* with every other field until there is a verdict.
StatusInMemory_AsRead == "pending"
StatusInMemory == "running"

\* UpdateReviewRun: UPDATE ... WHERE id, whatever the row holds now; no row,
\* no effect.  Its callers drop the error.
WriteStatus(r, s) ==
  \/ status' = IF status[r] = "none" THEN status ELSE [status EXCEPT ![r] = s]
  \/ "store" \in Faults /\ UNCHANGED status

\* FailInterruptedReviewRuns.
Interrupted_Kept == status
Interrupted == [r \in RunId |-> IF status[r] = "running" THEN "failed" ELSE status[r]]

-----------------------------------------------------------------------------
(* ScheduleReview, called by POST /repos/{id}/review and by the poller.    *)
(* When the pull request has an active run, or it cannot be fetched, the   *)
(* call returns without a change of state.                                 *)

MaySchedule(a) ==
  /\ disp[a] = "off"
  /\ main = "loop" \/ (a \in Http /\ "early" \in Faults)

ScheduleReview(a, p) ==
  /\ a \in Http \cup {Main}
  /\ MaySchedule(a)
  /\ NoActiveRun(p)
  /\ lastId < MaxRuns
  /\ lastId' = lastId + 1
  /\ status' = [status EXCEPT ![lastId + 1] = "pending"]
  /\ prOf' = [prOf EXCEPT ![lastId + 1] = p]
  /\ disp' = [disp EXCEPT ![a] = "lock"]
  /\ UNCHANGED <<maxReviews, homes, main, dispatchMu, limit, running, job, repoMu, crashes>>

-----------------------------------------------------------------------------
(* tryDispatch.                                                            *)

NotDispatching == UNCHANGED <<prOf, lastId, maxReviews, homes, main, repoMu, crashes>>

\* Return from tryDispatch, giving dispatchMu back and dropping the locals.
LeaveDispatch(a) ==
  /\ disp' = [disp EXCEPT ![a] = "off"]
  /\ dispatchMu' = NoActor
  /\ limit' = DefaultLimit

DispatchMuFree == dispatchMu = NoActor

LockDispatch(a) ==
  /\ disp[a] = "lock"
  /\ DispatchMuFree
  /\ dispatchMu' = a
  /\ disp' = [disp EXCEPT ![a] = "limit"]
  /\ UNCHANGED <<status, limit, running, job>>
  /\ NotDispatching

\* What acquireGlobal may read: the setting, or the default on an error.
Readable_NoDefault(saved) == saved \cup (IF "store" \in Faults THEN {0} ELSE {})
Readable(saved) == saved \cup (IF "store" \in Faults THEN {DefaultLimit} ELSE {})

\* acquireGlobal reads the setting ...
ReadLimit(a) ==
  /\ disp[a] = "limit"
  /\ limit' \in Readable({maxReviews})
  /\ disp' = [disp EXCEPT ![a] = "slot"]
  /\ UNCHANGED <<status, dispatchMu, running, job>>
  /\ NotDispatching

SlotFree_OffByOne == running <= limit
SlotFree == running < limit

\* ... and then compares and swaps the counter.
AcquireGlobal(a) ==
  /\ disp[a] = "slot"
  /\ \/ /\ SlotFree
        /\ running' = running + 1
        /\ disp' = [disp EXCEPT ![a] = "claim"]
        /\ UNCHANGED <<dispatchMu, limit>>
     \/ /\ ~SlotFree
        /\ LeaveDispatch(a)
        /\ UNCHANGED running
  /\ UNCHANGED <<status, job>>
  /\ NotDispatching

\* A row was claimed: its goroutine starts and the loop goes round again.
ClaimNext(a) ==
  /\ disp[a] = "claim"
  /\ \E r \in RunId :
       /\ NextClaim(r)
       /\ status' = [status EXCEPT ![r] = "running"]
       /\ job' = [job EXCEPT ![r] = "repo"]
  /\ disp' = [disp EXCEPT ![a] = "limit"]
  /\ UNCHANGED <<dispatchMu, limit, running>>
  /\ NotDispatching

\* Nothing to claim: the slot goes back.
ClaimNothing_KeepsSlot(a) ==
  /\ disp[a] = "claim"
  /\ \A r \in RunId : ~Claimable(r)
  /\ LeaveDispatch(a)
  /\ UNCHANGED <<status, job, running>>
  /\ NotDispatching
ClaimNothing(a) ==
  /\ disp[a] = "claim"
  /\ \A r \in RunId : ~Claimable(r)
  /\ running' = running - 1
  /\ LeaveDispatch(a)
  /\ UNCHANGED <<status, job>>
  /\ NotDispatching

\* What the error paths of tryDispatch give back.
SlotsHeld(a) == IF disp[a] = "claim" THEN 1 ELSE 0

\* The context of the caller is done, or the claim failed: acquireGlobal
\* returns false, or the slot goes back, and tryDispatch returns.
AbandonDispatch(a) ==
  /\ disp[a] \in {"limit", "slot", "claim"}
  /\ ("cancel" \in Faults /\ a \in Http) \/ "store" \in Faults
  /\ running' = running - SlotsHeld(a)
  /\ LeaveDispatch(a)
  /\ UNCHANGED <<status, job>>
  /\ NotDispatching

Dispatch(a) ==
  \/ LockDispatch(a)
  \/ ReadLimit(a)
  \/ AcquireGlobal(a)
  \/ ClaimNext(a)
  \/ ClaimNothing(a)
  \/ AbandonDispatch(a)

-----------------------------------------------------------------------------
(* runReview, the goroutine of run r.                                      *)

NotReviewing == UNCHANGED <<prOf, lastId, maxReviews, main, dispatchMu, limit, crashes>>

RepoMuFree_NoMutex(r) == TRUE
RepoMuFree(r) == repoMu[RepoOfRun(r)] = NoRun

Goto(r, step) == job' = [job EXCEPT ![r] = step]

LockRepo(r) ==
  /\ job[r] = "repo"
  /\ RepoMuFree(r)
  /\ repoMu' = [repoMu EXCEPT ![RepoOfRun(r)] = r]
  /\ Goto(r, "fetch")
  /\ UNCHANGED <<status, homes, disp, running>>
  /\ NotReviewing

\* fetchPR, and the write of head and base that also writes status.
FetchPR(r) ==
  /\ job[r] = "fetch"
  /\ \/ WriteStatus(r, StatusInMemory) /\ Goto(r, "resolve")
     \/ UNCHANGED status /\ Goto(r, "fail")
  /\ UNCHANGED <<homes, disp, running, repoMu>>
  /\ NotReviewing

\* Settings and LLM Rotation, the write of the LLM names that also writes
\* status, and then the worktree and the start of OCR on a home of its own.
StartOCR(r) ==
  /\ job[r] = "resolve"
  /\ \/ WriteStatus(r, StatusInMemory) /\ homes' = homes \cup {r} /\ Goto(r, "ocr")
     \/ WriteStatus(r, StatusInMemory) /\ UNCHANGED homes /\ Goto(r, "fail")
     \/ UNCHANGED <<status, homes>> /\ Goto(r, "fail")
  /\ UNCHANGED <<disp, running, repoMu>>
  /\ NotReviewing

\* OCR and posting are over, well or badly; executeReview removes the home.
FinishOCR(r) ==
  /\ job[r] = "ocr"
  /\ homes' = homes \ {r}
  /\ Goto(r, "pass") \/ Goto(r, "fail")
  /\ UNCHANGED <<status, disp, running, repoMu>>
  /\ NotReviewing

\* The last write of status, by runReview or finishFailed.
WriteVerdict(r) ==
  /\ \/ job[r] = "pass" /\ WriteStatus(r, "success")
     \/ job[r] = "fail" /\ WriteStatus(r, "failed")
  /\ Goto(r, "unlock")
  /\ UNCHANGED <<homes, disp, running, repoMu>>
  /\ NotReviewing

UnlockRepo(r) ==
  /\ job[r] = "unlock"
  /\ repoMu' = [repoMu EXCEPT ![RepoOfRun(r)] = NoRun]
  /\ Goto(r, "release")
  /\ UNCHANGED <<status, homes, disp, running>>
  /\ NotReviewing

\* A panic unwinds: executeReview's cleanup, then the repo mutex ...
Panic(r) ==
  /\ job[r] \in {"fetch", "resolve", "ocr"}
  /\ homes' = homes \ {r}
  /\ repoMu' = [repoMu EXCEPT ![RepoOfRun(r)] = NoRun]
  /\ Goto(r, "panic")
  /\ UNCHANGED <<status, disp, running>>
  /\ NotReviewing

\* ... and only then the recovering defer writes the row.
RecoverPanic(r) ==
  /\ job[r] = "panic"
  /\ WriteStatus(r, "failed")
  /\ Goto(r, "release")
  /\ UNCHANGED <<homes, disp, running, repoMu>>
  /\ NotReviewing

\* releaseGlobal, then tryDispatch with a background context.
ReleaseGlobal_NoDispatch(r) ==
  /\ job[r] = "release"
  /\ running' = running - 1
  /\ Goto(r, "done")
  /\ UNCHANGED <<status, homes, repoMu, disp>>
  /\ NotReviewing
ReleaseGlobal(r) ==
  /\ job[r] = "release"
  /\ running' = running - 1
  /\ Goto(r, "done")
  /\ disp' = [disp EXCEPT ![r] = "lock"]
  /\ UNCHANGED <<status, homes, repoMu>>
  /\ NotReviewing

Review(r) ==
  \/ LockRepo(r)
  \/ FetchPR(r)
  \/ StartOCR(r)
  \/ FinishOCR(r)
  \/ WriteVerdict(r)
  \/ UnlockRepo(r)
  \/ RecoverPanic(r)
  \/ ReleaseGlobal(r)

-----------------------------------------------------------------------------
(* Engine.Run, the settings page and the end of the process.               *)

Recover ==
  /\ main = "recover"
  /\ status' = Interrupted \/ ("store" \in Faults /\ UNCHANGED status)
  /\ main' = "prune"
  /\ UNCHANGED <<prOf, lastId, maxReviews, homes, disp, dispatchMu, limit, running,
                 job, repoMu, crashes>>

MayPrune_AnyTime == main \in {"prune", "loop"}
MayPrune == main = "prune"

\* PruneOrphanOCRHomes, then the first tryDispatch.
PruneHomes ==
  /\ MayPrune
  /\ homes' = {}
  /\ main' = "loop"
  /\ disp' = [disp EXCEPT ![Main] = "lock"]
  /\ UNCHANGED <<rows, maxReviews, dispatchMu, limit, running, job, repoMu, crashes>>

\* PurgeOldReviewRuns: every row up to some age, whatever its status.
PurgeOldRuns(last) ==
  /\ main = "loop"
  /\ disp[Main] = "off"
  /\ "late" \in Faults \/ \A r \in 1..last : status[r] \notin Active
  /\ status' = [r \in RunId |-> IF r <= last THEN "none" ELSE status[r]]
  /\ UNCHANGED <<prOf, lastId, maxReviews, homes, volatile, crashes>>

\* settingsSave; it does not dispatch.
SaveSettings(n) ==
  /\ maxReviews' = n
  /\ UNCHANGED <<rows, homes, volatile, crashes>>

\* The process is killed, or stopped by a signal, and started again: nothing in
\* memory, whatever it left in the database and on disk.
Crash ==
  /\ crashes < MaxCrashes
  /\ crashes' = crashes + 1
  /\ main' = "recover"
  /\ disp' = [a \in Actor |-> "off"]
  /\ dispatchMu' = NoActor
  /\ limit' = DefaultLimit
  /\ running' = 0
  /\ job' = [r \in RunId |-> "none"]
  /\ repoMu' = [x \in Repo |-> NoRun]
  /\ UNCHANGED <<rows, maxReviews, homes>>

Next ==
  \/ \E a \in Actor, p \in PR : ScheduleReview(a, p)
  \/ \E a \in Actor : Dispatch(a)
  \/ \E r \in RunId : Review(r) \/ Panic(r)
  \/ Recover
  \/ PruneHomes
  \/ \E last \in RunId : PurgeOldRuns(last)
  \/ \E n \in Limits : SaveSettings(n)
  \/ Crash

Spec == Init /\ [][Next]_vars

\* Goroutines are scheduled, mutexes are handed over and a review ends;
\* requests, faults, settings, retention and crashes are never owed.
Fairness ==
  /\ WF_vars(Recover)
  /\ WF_vars(PruneHomes)
  /\ \A a \in Actor : WF_vars(Dispatch(a)) /\ SF_vars(LockDispatch(a))
  /\ \A r \in RunId : WF_vars(Review(r)) /\ SF_vars(LockRepo(r))

FairSpec == Spec /\ Fairness
-----------------------------------------------------------------------------
(* Properties.                                                             *)

\* Every behaviour of the engine is one the table promises: rows are
\* submitted, started in order, finished once and retired only when finished,
\* although UpdateReviewRun rewrites the status blindly from memory.
ImplementsReviewRuns == Abs!Spec

\* A verdict is final until the row is deleted: a goroutine that was overtaken
\* by a restart, a panic or a lost write cannot bring a finished row back.
VerdictIsFinal == Abs!VerdictIsFinal

\* At most one pending or running row per pull request, although two requests
\* and the poller may ask for the same one at once (CONTEXT.md:76).
OneActivePerPR == Abs!OneActivePerPR

\* At most one running row per Registered Repo (CONTEXT.md:84), although
\* every finishing goroutine and every request may claim.
OneRunningPerRepo == Abs!OneRunningPerRepo

\* Once a row has started, no older row of its repo waits: the queue is FIFO
\* per repo over its whole life (CONTEXT.md:84, ADR-0001).
RepoFIFO == Abs!RepoFIFO

\* While the goroutine of a run has not written its verdict the row says
\* running, so nobody starts another review of the repo or accepts another
\* one of the pull request behind its back.
WorkerHasRow == \A r \in RunId : job[r] \in Unfinished => status[r] = "running"

\* Conversely, once the process has recovered, a running row has a goroutine
\* that will still write its verdict: no repo stays blocked by a dead run.
RunningHasWorker ==
  main # "recover" => \A r \in RunId : status[r] = "running" => job[r] \in Unfinished

\* The slot counter is exactly the goroutines under way plus the slot a
\* dispatcher is trying to fill: no exit of runReview or tryDispatch leaks a
\* slot or returns one twice.
SlotAccounting ==
  running = Cardinality(Live) + Cardinality(Claiming)

\* There are never more goroutines under way than some saved limit allows, with
\* the limit read before the slot is taken and changed in between.
ConcurrencyBound == \E n \in Readable(Limits) : Cardinality(Live) <= n

\* A goroutine that holds a slot while it waits for its repo's mutex waits only
\* for one that has written its verdict and is about to unlock: no slot is
\* spent on waiting for a review.
WaitIsShort ==
  \A r \in RunId :
    job[r] = "repo" =>
      repoMu[RepoOfRun(r)] = NoRun \/ job[repoMu[RepoOfRun(r)]] = "unlock"

\* The mutex of a repo is held by a goroutine that is between LockRepo and
\* UnlockRepo, and two goroutines of a repo are never there together: they
\* would share a worktree.
RepoExclusive ==
  \A r \in RunId : job[r] \in InMutex => repoMu[RepoOfRun(r)] = r

\* A review in progress keeps the OCR home it was started on (engine.go:124).
LiveHomeKept == \A r \in RunId : job[r] = "ocr" => r \in homes

\* Homes and reviews match once startup has pruned: a review in progress keeps
\* its home, and no home, which holds an API key, outlives its review, whether
\* it ended, panicked or died with the process (ADR-0006).
HomesMatchReviews ==
  /\ LiveHomeKept
  /\ main = "loop" => \A r \in homes : job[r] = "ocr"

\* No lost wakeup: while a row could be claimed, some goroutine is on its way
\* through tryDispatch or will go through it when its review ends.
NoLostWakeup ==
  (main = "loop" /\ \E r \in RunId : Claimable(r)) => Dispatching # {} \/ Live # {}

\* Every accepted Review Run gets its verdict (ADR-0001: it is not thrown away
\* when the limit is reached).
EveryRunServed == \A r \in RunId : status[r] = "pending" ~> status[r] \in Terminal

=============================================================================
