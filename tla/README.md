# Review Manager (ocr-mng): models, model checking and proofs

Review Manager is one Go process (`cmd/rm`) that polls pull requests on Git
hosts, runs Open Code Review (OCR) on those that a label or the Administrator
selects, and posts the result. This directory holds TLA+ modules translated
from its source, TLC configurations that check them on small instances, and
TLAPS proofs of their theorems for every value of the constants. Line numbers
refer to the files under `src/`.

## 1. Inventory

| Component | Source | State | Operations | Hard parts |
|---|---|---|---|---|
| Process | `cmd/rm/main.go` | none of its own | open the store, start `Engine.Run` beside the HTTP server, stop on a signal | the server accepts requests while the engine still recovers |
| Review Run queue | `internal/store/store.go`, `schema.sql` | table `review_runs` | insert-if-absent, claim, update by id, fail interrupted, purge | three kinds of goroutines call it; updates are blind |
| Review scheduler | `internal/review/engine.go` | slot counter, `dispatchMu`, one mutex per repo, one goroutine per run, OCR homes on disk | `Run`, `ScheduleReview`, `tryDispatch`, `runReview`, `PruneOrphanOCRHomes` | interleavings, panics, cancelled requests, lost writes, crashes |
| Label trigger | `engine.go` `pollRepo`; tables `pr_snapshots`, `repos` | one bit per pull request | poll, schedule on off->on, save the snapshot; runs write the snapshot too | two writers of one bit; lists and copies of the repo that are stale when they are used; one page of the list |
| Review posting | `engine.go` `executeReview`, `postResult`; `githost/api.go`; `review/format.go`, `language.go`; `ocr/runner.go` | reviews, comments and labels on the host | decide what to post, approve, fall back, remove the label, give a verdict | partial failure between calls, replies that get lost |
| LLM ledger | `store/llm*.go`, `web/llm.go`, `web/list_models.go`, `store.go` settings and repos | providers, models, rotations of the global settings and of each repo | CRUD, model sync with the provider's API, selection for a run | check-then-act without a transaction; stale remote lists |
| Mirrors and worktrees | `internal/gitwork/mirror.go` | bare mirror per repo with git's lock files, a directory and a registration per worktree | prepare, clean up, prune | git commands killed half-way, removals that fail unnoticed, leftovers of a dead process, directories shared by commits |
| Git hosts and repos | `store.go`, `web/server.go`, `web/repourl.go`; `engine.go` `pollAll`, `pollRepo`, `fetchPR` | `git_hosts`, `repos`, `last_polled_at`, pages that are open in browsers | create and update through forms, parse and show the Repo URL, choose the repos that are due, find host and token for a call | whole rows written from old pages, three reads per call without a transaction, PAT precedence |
| OCR runner | `internal/ocr/*` | a config file in the OCR home | build config, run the CLI, parse | output that is partial or unparsable |
| Presentation | `web/render.go`, templates, `i18n` | none | pages | none |
| Secrets, config, version | `crypto/`, `config/`, `version/` | none that changes | encrypt, read the environment, ask for versions | none |

How they interact: HTTP handlers and the poller call `Engine.ScheduleReview`,
which inserts a row and dispatches; every finished review dispatches again. A
review reads settings, repo, ledger and the pull request at its start, and
writes its row and the snapshot at its end. All persistent state is in SQLite;
most sequences of statements are not transactions.

What makes each part correct: the queue serves every accepted run once, in
order, one per repo, at most one per pull request, within the limit; a
verdict is final. The trigger reviews each labelling once and misses none. The
posting approves only clean results, claims success only when everything was
done, and keeps the label otherwise. The ledger never points at a model that is
not there, except where an outdated check says so. A worktree belongs to one review. A
form changes what its Administrator touched; a call to a host is made of parts
that belong together; polls of a repo keep their distance.

## 2. Plan

| Step | Modules | Status |
|---|---|---|
| A | `ReviewRuns` (abstract table), `ReviewRunsProofs` | done |
| B | `ReviewEngine` (scheduler; refines A), `MCReviewEngine`, `ReviewEngineProofs` | done |
| C | `LabelTrigger` (poller, snapshots, labels, ends of runs; closed pull requests, one page, a Trigger Label that changes), `MCLabelTrigger`, `LabelTriggerProofs` (types, that a label that stays on triggers once but for the listed reasons, that the first label is not missed) | done |
| D | `ReviewPosting` (one review from OCR's output to its verdict, and where findings go), `MCReviewPosting`, `ReviewPostingProofs` | done |
| E | `LLMLedger` (providers, models, sync, rotations, selection), `MCLLMLedger`, `LLMLedgerProofs` | done |
| F | `Workspace` (mirrors, worktrees, leftovers), `MCWorkspace`, `WorkspaceProofs` | done |
| G | `Registry` (hosts, repos, forms, Repo URL), `PollRounds` (rounds of the poller and calls to hosts over it), `MCPollRounds`, `PollRoundsProofs` | done |
| H | Pure algorithms against reference definitions: percent escapes and case of URLs, review language | planned |

`PollRounds` extends `Registry`: the poller and the forms write the same rows.
The other modules do not share state. `ReviewEngine` treats a review as one step with
either verdict; `ReviewPosting` and `Workspace` open that step up, one review
and one mirror at a time, which `RepoExclusive` of the engine justifies.
`LabelTrigger` keeps of the engine what `OneActivePerPR` and the table's
promise of one running row per repo say about it, and of `PollRounds` that the
poller works on a copy of the repo and comes round again.

## 3. Modules

In every module an action stands for the part of a handler that no other
goroutine, request or person can come between: the code is cut at SQL
statements, locks, the slot counter and calls to the host. A definition named
`X_How` is `X` with a plausible slip; no definition uses it, it serves to see
that a property notices the slip (`PROJECT.json`, "mutants").

### ReviewRuns

The abstract specification: what `review_runs` promises to its readers. Rows
are submitted, started (oldest startable first, one per repo), finished once,
interrupted by a restart, retired when finished. Row ids stand for the order
`(created_at, id)` of the claim query.

### ReviewEngine

`engine.go` with the statements of `store.go` it uses.

| State | Code |
|---|---|
| `status`, `prOf`, `lastId` | table `review_runs` |
| `maxReviews` | `global_settings.max_concurrent_reviews` |
| `homes` | directories `ocr-home/run-<id>` |
| `main` | how far `Engine.Run` is: recover, prune, loop |
| `disp`, `limit`, `dispatchMu` | each goroutine inside `tryDispatch`, `acquireGlobal`'s local, the mutex |
| `running` | the atomic slot counter |
| `job`, `repoMu` | each goroutine inside `runReview`, `repoLocks` |

`ScheduleReview` is the insert-if-absent of a manual request or of the poller
and continues in `Dispatch`: lock, read the limit, take a slot, claim, start a
goroutine or give the slot back. `Review` is `runReview` cut at its database
writes, each of which writes the status from memory (`WriteStatus`), and at the
mutex; `Panic` and `RecoverPanic` follow the order of the deferred calls, mutex
first, row second. `Crash` drops everything in memory.

`Faults` chooses what may go wrong: `cancel` (clients disconnect), `store`
(statements fail, or are lost and only logged), `early` (requests during
recovery), `late` (a row outlives the retention period unfinished).

### LabelTrigger

The poller (`PollRepo`: copy the repo, list one page, read the snapshot,
schedule, save), the people who put labels on and take them off and who close
and reopen pull requests, the form that changes the Trigger Label and the
checkbox "remove label", manual reviews, and the ends of reviews, which write
the same bit of `pr_snapshots` (`SaveVerdict`, `SavePanicked`). Poller and review
each work on the label their copy of the repo says (`wanted`, `sought`).
`served` counts the label runs since the label was last put on, `early` the
labels that were put on while a review that had not seen them was under way.

### ReviewPosting

`executeReview` from the end of OCR on, with `postResult` and the predicates
that decide what is clean, posted, approved and failed, over all settings of a
repo and all outputs OCR may come back with. A post is accepted, refused, or
accepted while its answer gets lost. A finding may lack its path, its line or
both; `Shown` says which of them a review, a summary or a fallback comment
contains (`format.go`). Warnings are informational or actionable, the message
is clean (none, or the fixed phrase) or degraded (any other). The code reads
only the actionable warnings when it decides what is clean (`format.go:152`);
the glossary wants the APPROVE and the removal of the label withheld for every
warning and every degraded message (CONTEXT.md:24, 208, 212). `ApproveOnlyClean`
and `Complete`, in which `SuccessIsComplete` and `LabelGoesLast` are stated,
follow the code and its tests; `ApproveOnlyIndicated` says what the glossary
says, and is finding 4. The failure of OCR itself and a dying process end in
`failed`.

### LLMLedger

Providers, model rows, the rotation sets of the settings and of each repo, and
the requests that check and write in statements of their own
(`CheckProvider`/`DeleteLLMProvider`, `CheckModel`/`DeleteLLMProviderModel`,
`ReadModel`/`UpdateLLMProviderModel`, `CheckRotation`/`SaveRotation`,
`PickLLMRotation`/`BuildLedgerSelection`). The sync with the provider's list is
one transaction. `Norm` is `normalizeModelName`: names that differ in case are
different in the table and equal for the sync. Two history variables record
what a check was overtaken by (`stale`) and what such requests left without a
model (`blind`).

### Registry and PollRounds

| State | Code |
|---|---|
| `hosts`, `repos` | tables `git_hosts`, `repos`; `last` is `last_polled_at`, `own` stands for the repo's rotation set |
| `form` | a page per browser tab: its fields, and `parsed` between the two halves of `repoCreate` and `repoUpdate` |
| `settings`, `seen` | the poll intervals of the Global Settings, and the copy a round works on |
| `clock`, `ticked` | time, and the one tick that Go's ticker keeps |
| `listing`, `round`, `todo` | `repos`, `now` and the rest of the loop in `pollAll` |
| `at`, `held` | where the poller and a review are between the statements of `fetchPR` and `pollRepo`, and what they have read |

A form is opened (`RepoNew`, `RepoEdit`), filled in one field at a time
(`Fill`), parsed (`ParseRepoForm`) and rejected and shown again (`Rejected`,
`Refused`), or saved (`CreateRepo`, `UpdateRepo`, which write the whole row as
`Written`). The form of a host reads nothing before it writes
(`CreateGitHost`, `UpdateGitHost`) and needs no page. `ParseRepoURL` and
`FormatRepoURL` are the two directions of `repourl.go` over segments of a path;
`PATAfter` is the rule of token field and checkbox. `PollRounds` adds the round:
`StartRound` lists the repos, `ReadSettings` chooses those that are `Due`,
`PollRepo` takes one, `ReadHost`, `ReadPAT` and `Call` find the host, and
`MarkRepoPolled` writes the time of the round, whatever became of the poll.

### Workspace

One Repo Mirror and its worktrees, with the git commands modelled by what they
leave on disk. A clone that is killed leaves a directory without `HEAD`
(`husk`), a repository without the remote (`bare`), or a remote without its
refspec (`norefs`); a `worktree add` that is killed leaves a registration that
is `locked`, which neither `worktree remove --force`, `prune` nor `add -f`
touches. A git that is killed may also leave its lock files (`locks`): with
`config.lock` every `remote set-url` fails, with `packed-refs.lock` every fetch
that has an `origin/<base>` to drop, and nothing in `gitwork` removes either.
These outcomes, and what each later command makes of them, were observed with
git 2.39 by killing the commands at growing delays, and by putting the lock
files in place.

Every command may fail. `clearWorktree` drops the errors of its three steps, so
`ClearWorktree` goes on from whatever they left: all of the directory, some of
it or none, with the registration or without (`ClearedSome`); `lapses` counts
such removals. One thing is taken on trust of git: a `clone` or `worktree add`
that fails by itself, without being killed, takes back what it made. `DirOf`
maps commits to `<repo>-<first eight digits>`, so that two may share a
directory.

## 4. Runs

| Run | Instance | Shows |
|---|---|---|
| `engine_queue` | 2 repos, 3 pull requests, 3 rows, 1 request in flight, limit 2, disconnects and failing statements, 1 crash | FIFO per repo, exact slot accounting, the limit, short waits, exclusive repos; the engine implements `ReviewRuns` (one active row per pull request, FIFO, final verdicts) |
| `engine_live` | 1 repo, 2 pull requests, 2 rows, limits 1 and 2, 1 crash, fair | rows and goroutines match, homes match reviews, no lost wakeup, every accepted run gets a verdict |
| `trigger_once` | 1 pull request, 2 labels, 2 labellings in all, 1 change of the Trigger Label, 1 manual review, 1 fault of any kind | a label that stays on triggers once, but for the reasons listed |
| `trigger_live` | 2 pull requests on a page of one, 2 labels, 1 change of the Trigger Label, 1 failing call or crash, fair | a label is noticed unless the snapshot says it was there; snapshots forget labels that are gone |
| `posting` | all settings, all outputs, lost answers, a dying process, people on the label | approvals, order, success, findings shown, label and duplicates |
| `ledger` | 1 provider, 1 repo, 2 model rows, 2 spellings of a name, 2 requests | dangling pairs only from outdated checks, New!! rows stay off, picks can be built, what a sync leaves |
| `workspace` | 3 commits in 2 directories, 2 changes on the host, 2 deaths, 1 failed removal | the tree and the base OCR gets, what is left over, what stops a review |
| `poll_rounds` | 2 hosts of one site, 2 repos, 2 tabs, in three cases | what a save may change, what a call is made of, how far polls are apart |
| `early_home` | 2 repos, 3 pull requests, 3 rows, limit 2, requests during recovery, no crash | finding 1 |
| `missed_label` | 1 pull request, 1 labelling, 1 manual review, no fault | finding 2 |
| `manual_unlabelled` | no fault, nobody touches the label | finding 3 |
| `degraded_approved` | as `manual_unlabelled` | finding 4 |

Why the bounds are enough. Three rows give a repo a running, a waiting and a
newly accepted one, which is what every property about two rows needs, and a
second repo to overtake; the slot counter is contended at limit 1 and 2. The
poller and a review have one bit per pull request between them, so one pull
request with two labels and two labellings in all (`MaxAdds` bounds their sum:
the same label twice, or each once) reaches every order of the two
writers before and after a change of the Trigger Label; the second pull request
of `trigger_live` adds the queue and pushes the first off the page. `posting` is exhaustive:
its domains are finite. The ledger's properties relate a row, a provider and
two requests; two spellings make two rows collide. Two deaths let one happen
on the leftovers of another, and a failed removal come between them. `poll_rounds` explores its three cases in one run
(`Limits` is a set of bounds): two pages with two saves, which is what it takes
for one page to be outdated by another; one page beside the poller with three
ticks and a fault, enough for two rounds and a mark lost between them; one page
beside a review with two saves, so that repo and host both change between its
three reads. A page fills in one field, since fields are independent but for
the URL and the host, of which each is reached from a page opened on the other. Bounds appear as guards (`MaxRuns`, `MaxCrashes`,
`MaxAdds`, `MaxChanges`, `MaxManual`, `MaxFaults`, `MaxModels`, `MaxPushes`,
`MaxKills`, `MaxLapses`, `Limits`) and
the safety theorems below hold for every value of them. Symmetry is used in
`ledger`, over requests and over the two spellings, in `poll_rounds`, over
tabs, in `engine_queue`, over the two pull requests of one repo, and in
`workspace`, over the two commits of one directory, which nothing tells apart;
these runs have no liveness property. `ledger`, `posting` and `workspace`
do not check deadlock, because reviews end, and ids and commits run out.

## 5. Fairness

Only `engine_live`, `trigger_live` and `missed_label` assume fairness.

- Engine: weak fairness of recovery, of the startup prune and of every step of
  a goroutine (the Go scheduler runs goroutines that can run, and each review
  ends with either verdict), strong fairness of the two locks, because Go's
  mutexes hand over to a waiter that has waited for a millisecond. Nothing is
  owed for requests, settings, retention, faults and crashes.
- Trigger: weak fairness of the poller, which a ticker brings round, and of the
  review under way; strong fairness of the claim and of the start of a review,
  which the engine's FIFO gives. Nothing is owed for people, manual reviews,
  panics and crashes.

That a review ends is an assumption: OCR runs without a timeout
(`engine.go:422`), and a CLI that hangs keeps its slot and its repo for ever.

## 6. Proofs

Every theorem is checked by TLAPS to the last leaf. The assumptions are those
that the modules name (`EngineAssumption`, `TriggerAssumption`, `PostingAssumption`,
`LedgerAssumption`, `WorkspaceAssumption`, `RegistryAssumption`,
`StartAssumption`, `NothingAssumption`, `PollRoundsAssumption`), which TLC evaluates in the runs.

- `ReviewRunsProofs` (`TableSafe`, `TableVerdictIsFinal`): the abstract table
  has at most one active row per pull request and one running row per repo,
  starts rows first in first out, and never rewrites a verdict, for any number
  of rows. The invariant is the conjunction itself with the types.
- `ReviewEngineProofs`: for every choice of faults the types, the slots, the
  limit and the exclusion of two reviews of one repo (`TypeCorrect`,
  `SlotsAccounted`, `ConcurrencyBounded`, `ReviewsOfRepoExclusive`), and that a
  review starts only within the limit its dispatcher read
  (`ReviewsStartWithinLimit`): after the limit is lowered the engine drains to
  the new one. This needs `ClaimInv`: the slot that a dispatcher has taken stays
  within the limit it compared with, since only the holder of `dispatchMu` takes
  slots. Without `early`, `HomesMatch`. For an
  *orderly* engine, `Faults` without `early` and `late`: `WorkersHaveRows`,
  `EngineImplementsTable` (`ReviewRuns` by `INSTANCE ... WITH`: every step of the
  engine is a step of the table or a stutter) and from it `RowsSafe` and
  `VerdictsFinal`, then
  `WaitsAreShort` and, without `store` as well,
  `RunningRowsWorked`. `WakeupsNotLost` assumes none of `cancel`, `store` and
  `late`: each of the three loses a wakeup. The strengthening that makes them inductive
  says who owns what: dispatch steps beyond the lock belong to the holder of
  `dispatchMu`, a repo mutex to a goroutine between its lock and its unlock, a
  row that says running to a goroutine that has yet to write. `SlotsAccounted`
  needs the finite-set lemmas, since the counter is compared with a cardinality.
- `LabelTriggerProofs`: `TriggerTyped`, `TriggersOnce`, `FirstLabelsServed`,
  `ReviewsAreAskedFor`, for any number of pull requests, labels, people and
  faults. `OncePerLabelling` bounds a counter, so its invariant is a budget
  (`Budget`): the label runs created, plus one if the poller may still create
  one (`MayTrigger`), plus one if the review under way may still make the
  snapshot forget the label (`MayForget`), never exceed what is allowed. A step
  of the poller turns a run that may come into one that came; the end of a
  review turns "may forget" into "may trigger"; a fault, a change of the Trigger
  Label and a label put on too early raise what is allowed. A change raises it
  by two, because it outdates a round and a review at once. `RoundInv` says what the
  locals of a round may be, `ListInv` that a label that is not in the list has
  triggered nothing, `ReviewInv` that a label which a review did not see was put
  on under it: without these the poller could schedule from a list that never
  showed the label. `FirstLabelsServed` says what finding 2 takes:
  a snapshot that shows a first label without a label run of it comes from a
  manual review or a change of the Trigger Label (`AskedInv`, `FirstInv`).
- `ReviewPostingProofs`: `PostingTyped`, `Approves`, `ApprovesFirst`, `Succeeds`,
  `LabelLast`, `PostsOnce`, `Shows`, and three that no run checks: `StaysOff` (a
  total failure posts nothing, ocr-review-output.md:11), `LabelEndsReview`
  (nothing is posted once the label is off) and `FailsForTheLabel`, the extent
  of finding 3: a review of a complete output whose calls were all accepted
  fails only where reviews remove the label and it is not there, and then
  everything is posted.
  Their invariant says, for each step, what must have been posted and which
  predicate let the review get there (`StepInv`, `PostsInv`); the decision is made
  three times in the code (approve, label, verdict), and the proof is that the
  three agree. `PostsOnce` needs `LostInv`: a path that leaves a second summary
  or a second APPROVE behind has lost an answer on its way.
- `LLMLedgerProofs`: `TablesTyped` (with unique names per provider),
  `NoOrphans`, `NewModelsStayOff`, `PairsOutliveNothing`, `PicksCanBeBuilt`,
  `SyncsMirrorTheList`.
  The invariants add that ids in sets and in requests were handed out, that a
  copy of a New!! row in a request is off as well, and that a request that was
  not overtaken still has its check. `SyncsMirrorTheList` follows from the types
  alone, for any number of names and spellings, where the run has one name in
  two spellings: the rows that a sync deletes, promotes and inserts are apart
  (`SyncNames`, `OnlyPromotedBecomeApi`, `SyncMirrors`).
- `WorkspaceProofs`: `WorkspaceTyped`, `TreeIsRight`, `BaseIsFresh`,
  `FailuresHaveReasons`, `LeftoversCounted`, for any collision of directories
  and any number of deaths. `TreeIsRight` needs that only a complete mirror has
  commits; `BaseIsFresh` that the fetch of the mirror drops `origin/<base>`.
  `FailuresHaveReasons` needs `ReasonInv`: once the mirror is fetched the commit
  is in it or there is a reason why not, once the directory is cleared nothing
  but a locked registration is in the way, and half clones, locked registrations
  and lock files come from deaths only.
  `LeftoversCounted` needs that a step of the review leaves no more worktrees
  behind than before (`StepLeaves`), and that a death or a failing removal
  touches one directory and so leaves at most one more (`LossLeaves`).
- `PollRoundsProofs`: `RegistryTyped`, `PollsApart`, `CallsTogether`,
  `OnlyTouched`, `URLsReadBack`, for any hosts, repos, tabs, URLs and bounds. `RegistryTyped` is
  proved in three parts: the tables and pages with their references (`Keys`),
  the poller (`Engine`), and the rows callers hold (`Rows`, which needs that
  rows are never deleted). `PollsApart` needs `MarksFit`: the mark of a repo is
  the round it was last polled in, in the table and in the listing of the round
  under way, unless the mark got lost. `CallsTogether` needs `CopiesFit`: what a
  caller has read so far is what the tables say, or a save overtook it.
  `OnlyTouched` needs `PagesFit`: a field of a page that was neither touched nor
  lost shows what the row says, or what another save has changed; for the URL,
  that reading back what `FormatRepoURL` shows gives the row's path again or
  no path, under whichever base the host has by then. `URLsReadBack` says it of
  the base of now: what a page shows is read back as the path of the row
  (`ReadsBack`).

## 7. Model-checked only

Liveness (`EveryRunServed`, `NoticedUnlessTold`, `SnapshotForgets`) is out of the
prover's reach and stays with TLC; every safety property of the passing runs is
proved. Eight theorems state what no run checks: `StaysOff`,
`FailsForTheLabel`, `LabelEndsReview`, `NoOrphans`, `ReviewsAreAskedFor`,
`FirstLabelsServed`, `URLsReadBack` and `ReviewsStartWithinLimit`; their formulas stand in
the proof modules or beside the other properties. What `VerdictsFinal` says a run
checks as a part of `ImplementsReviewRuns`.

## 8. Findings

1. `early_home` (`engine.go:126`): the comment says homes are pruned before
   dispatch, but the HTTP server runs beside the recovery; a manual review that
   a request dispatched meanwhile loses its OCR home.
2. `missed_label` (`engine.go:354`): a failed review writes "the label was
   there" into the snapshot whether it was or not. After a failed manual review
   of an unlabelled pull request, a label that is added before the next poll is
   taken for an old one and never reviewed.
3. `manual_unlabelled` (`engine.go:455`): where reviews remove the label, a
   manual review of a pull request without it is posted completely and then
   reported as failed.
4. `degraded_approved` (`format.go:152`): CONTEXT.md:212 approves only under the
   indicator ✅, which CONTEXT.md:208 reserves for no warnings at all and no
   message but the fixed phrase. The code looks at actionable warnings only: an
   output without findings is approved whatever its message says, and with
   informational warnings, which `language_test.go:36-51` asks for. For the same
   outputs CONTEXT.md:24 keeps the label, and the code removes it.

Divergences that were met while modelling and have no run of their own:

- `mirror.go:47` says of a registered but missing worktree "-f recovers". A
  process that dies in `git worktree add` leaves it locked, and git then
  refuses `add -f`: that head can never be reviewed until somebody unlocks it.
  `FailsOnlyIfScarred` holds with that case listed in it.
- A mirror counts as cloned when `HEAD` exists, which git writes first: after a
  death in the clone no review of the repo ever succeeds (`Scarred`).
- A death in `remote set-url` or `fetch --prune` (`mirror.go:30`, `33`) may leave
  `config.lock` or `packed-refs.lock` in the mirror, and then every later
  review of the repo fails at that command until somebody removes the file: the
  `locks` of `FailsOnlyIfScarred`.
- A worktree whose removal fails stays without a word (`mirror.go:66-68`), until
  the same directory is used again: the `lapses` of `LeftoversAccounted`.
- The startup prune drops registrations only; the directory of a dead review
  stays until the same head is reviewed again.
- `ReviewPosting` shows an APPROVE for OCR that printed nothing and exited
  well.
- Pairs of a rotation set are checked in one statement and saved in another
  (`store.go:255`); a sync or a delete in between leaves a pair without a model,
  although CONTEXT.md:112 says a referenced manual model cannot be deleted.
  `DanglingOnlyIfBlind` shows that nothing else does.
- One labelling may be reviewed twice (ADR-0003: only the step from off to on
  triggers). A label that is put on while a review that had not seen it is
  under way is polled and remembered; the end of that review then writes "not
  there" (`engine.go:338`), and the next poll triggers again: the `early` term of
  `OncePerLabelling`.
- One labelling may also be reviewed again after its review took the label
  off: a poller that listed the label before reads the snapshot after the review
  wrote "not there" (`engine.go:338`), takes the old list for a transition and
  schedules a review, which will fail for want of the label (finding 3).
  `OncePerLabelling` speaks of labels that are on.
- A label may be missed without a manual review: the poller lists the label,
  the review that it schedules takes the label off and ends before the poller has
  saved what it listed, and somebody puts the label on again. The poller
  then writes "labelled" (`engine.go:261`), and the new label is taken for the
  old one. `FirstLabelsServed` says that this takes an earlier labelling.
- A change of the Trigger Label leaves the snapshots (`store.go:433`): a pull
  request that carried the old label and carries the new one when it becomes the
  Trigger Label is never reviewed, and a change under a round or a review that
  works on its copy may cost up to two extra reviews.
- A review of a pull request that was closed meanwhile fails and leaves "the
  label was there" behind.
- Retention deletes rows whatever their status, and no files, although
  CONTEXT.md:192 says the output goes as well (`store.go:810`). A row that is
  purged while it runs makes room for a second run of its pull request
  (`Faults` with `late`).
- With findings, the summary of comment mode drops OCR's warnings, while that
  of inline mode shows them (`format.go:212`).
- A repo's form that is rejected comes back without the interval, the rotation
  set and the switch "enabled" that were entered; saving it then writes blanks
  (`server.go:280`): the `lost` term of `TouchedOnly`. An Administrator who
  corrects a typo in the URL takes the repo's rotation set off and switches a
  disabled repo on. A bad path of the background file is rejected earlier
  (`server.go:485`), before the review language is read, and that override is
  lost as well; neither column is in the model.
- A repo's form writes the whole row as the page showed it: a second page takes
  back what the first one saved (the `moved` term).
- A poll reads the list of repos, then the host, then the token
  (`engine.go:222`). A save in between sends the token of one host to another, or
  asks one host for the repo of another: `CallsFit` says that this takes a save
  that overtakes the very caller.
- The minimum Poll Interval (CONTEXT.md:67) is kept between rounds, since a
  repo is marked with the time of the round (`engine.go:213`): a poll that waits
  in its round for a slow repo and the poll of the next round come closer.
- A repo that is disabled during a round is still polled by it.
- A verdict whose write fails leaves the row running until the next restart,
  and a client that disconnects leaves its row pending until the next dispatch:
  `RunningHasWorker` and `NoLostWakeup` hold without `store` and `cancel` only.
- A bulk update that was overtaken by a sync renames a row that became `api`
  (CONTEXT.md:112 says its name cannot be edited).
- Two manual rows whose names differ in case make every sync that lists the
  name fail.

## 9. Not modelled

- Text: the wording of posts, prompts, pages, translations, the OCR
  configuration, the review language (step H of the plan).
- URLs: escapes, dots, case and default ports count as normalised away. Two
  spellings of one path that the host does not tell apart, and two host rows
  of one site, can register the same repo twice. Names that end in `.git` twice
  are excluded by `RegistryAssumption`: showing and parsing such a URL shortens
  the name.
- Columns of a repo that are handled like `enabled` (rules, language, Trigger
  Label, background file), and with them the rejection of a background file
  (`server.go:485`) and of an empty label; names and kinds of hosts. The form of the settings
  is a single write of the poll intervals, and the rejected form of a host is
  not shown.
- The models list is any set of names, which covers its cut after 100 pages
  (`list_models.go:58`). JSON of the hosts' APIs.
- Time of day: a tick is the poller's minute; `last_polled_at` is kept to the
  second, which shortens an interval by less than one.
- Git children that outlive a killed parent on a bare host; in the container
  they die together. Repacking and garbage collection of mirrors.
- Deleting hosts and repos: the code has no such operation. The OCR outputs on
  disk, which no code deletes although CONTEXT.md:192 says so.
- Authentication, encryption of secrets and version probes, which keep no state
  that changes.
