----------------------------- MODULE PollRounds -----------------------------
(***************************************************************************)
(* The rounds of the poller, and the way it and a review find the host     *)
(* they call: pollAll, pollRepo and fetchPR of internal/review/engine.go   *)
(* over the tables of Registry.  A round lists the repos once and polls    *)
(* them one after the other; a review and each poll read the row of the    *)
(* repo, its host and its token in statements of their own, and forms are  *)
(* saved in between.                                                       *)
(***************************************************************************)
EXTENDS Registry

CONSTANTS
  PollSettings,  \* the poll intervals that may be set: [default, min]
  StartSettings  \* the ones the process is started on

ASSUME PollRoundsAssumption ==
  /\ PollSettings \subseteq [default : Nat \ {0}, min : Nat \ {0}]
  /\ \A s \in PollSettings : s.min <= s.default
  /\ StartSettings \in PollSettings

VARIABLES
  settings,      \* the poll intervals of the Global Settings
  clock, ticked, \* time in ticks, and whether the ticker has one to deliver
  listing,       \* the repos as the round listed them
  round, todo,   \* its time, and what it has yet to poll
  seen,          \* the settings it read
  at, held,      \* where each caller is, and what it has read
  overtaken,     \* history: repos that changed after a caller had read them
  asked,         \* history: the round of the last poll of each repo, 0 if unknown
  faults         \* counted against the bound

plan == <<listing, round, todo, seen>>
vars == <<registry, settings, clock, ticked, plan, at, held, overtaken, asked, faults>>

Caller == {"poller", "review"}
NoBase == [https |-> FALSE, site |-> CHOOSE s \in Site : TRUE, prefix |-> <<>>]
Nothing == [repo |-> NoRow, row |-> NoRow, base |-> NoBase, pat |-> NoPAT]
NoListing == [r \in Repo |-> NoRow]

Init ==
  /\ hosts = StartHosts /\ repos = StartRepos
  /\ form = [t \in Tab |-> NoForm] /\ saves = 0 /\ limit \in Limits
  /\ settings = StartSettings
  /\ clock = 0 /\ ticked = FALSE
  /\ listing = NoListing /\ round = 0 /\ todo = {} /\ seen = StartSettings
  /\ at = [c \in Caller |-> "idle"] /\ held = [c \in Caller |-> Nothing]
  /\ overtaken = [c \in Caller |-> {}]
  /\ asked = [r \in Repo |-> 0]
  /\ faults = 0

\* RepoPAT: the token of the repo, else that of its host.
RepoPAT_HostFirst(r) ==
  IF hosts[repos[r].host].pat # NoPAT THEN hosts[repos[r].host].pat ELSE repos[r].pat
RepoPAT(r) ==
  IF repos[r].pat # NoPAT THEN repos[r].pat ELSE hosts[repos[r].host].pat

\* What a save changes of that which caller c has read: the host and the name
\* of any repo it may have in its listing, and of its own repo the web base
\* and the token once it has read them.
Overtakes(c) ==
  {r \in RepoIds : repos[r].host # repos'[r].host \/ repos[r].path # repos'[r].path}
  \cup {r \in {held[c].repo} :
          \/ at[c] \in {"pat", "call"} /\ hosts[held[c].row.host].base # hosts'[held[c].row.host].base
          \/ at[c] = "call" /\ RepoPAT(r) # RepoPAT(r)'}

Save ==
  /\ SaveHost \/ SaveRepo
  /\ overtaken' = [c \in Caller |-> IF at[c] = "idle" THEN {} ELSE overtaken[c] \cup Overtakes(c)]
  /\ UNCHANGED <<settings, clock, ticked, plan, at, held, asked, faults>>

VisitPage ==
  Browse /\ UNCHANGED <<settings, clock, ticked, plan, at, held, overtaken, asked, faults>>

SaveSettings ==
  /\ saves < limit.saves /\ saves' = saves + 1
  /\ settings' \in PollSettings
  /\ UNCHANGED <<hosts, repos, form, limit, clock, ticked, plan, at, held, overtaken, asked, faults>>

\* The ticker keeps one tick for a round that is late.
Tick ==
  /\ clock < limit.time /\ clock' = clock + 1 /\ ticked' = TRUE
  /\ UNCHANGED <<registry, settings, plan, at, held, overtaken, asked, faults>>

Goes(c, step) == at' = [at EXCEPT ![c] = step]

\* The interval of a repo is its own or the default, and never below the minimum.
Interval(w, s) ==
  LET i == IF w.interval = Blank THEN s.default ELSE w.interval IN
  IF i < s.min THEN s.min ELSE i
Due(w, now, s) == w.enabled /\ (w.last = 0 \/ now - w.last >= Interval(w, s))

\* pollAll: the repos, then the settings and the time.
StartRound ==
  /\ at["poller"] = "idle" /\ ticked
  /\ ticked' = FALSE /\ listing' = repos /\ Goes("poller", "settings")
  /\ UNCHANGED <<registry, settings, clock, round, todo, seen, held, overtaken, asked, faults>>

ReadSettings ==
  /\ at["poller"] = "settings"
  /\ seen' = settings /\ round' = clock
  /\ todo' = {r \in Repo : listing[r] # NoRow /\ Due(listing[r], clock, settings)}
  /\ Goes("poller", "next")
  /\ UNCHANGED <<registry, settings, clock, ticked, listing, held, overtaken, asked, faults>>

\* pollRepo works on the row as the round listed it, fetchPR as it is now.
PollRepo(r) ==
  /\ at["poller"] = "next" /\ r \in todo
  /\ todo' = todo \ {r}
  /\ held' = [held EXCEPT !["poller"] = [Nothing EXCEPT !.repo = r, !.row = listing[r]]]
  /\ Goes("poller", "host")
  /\ asked' = [asked EXCEPT ![r] = round]
  /\ UNCHANGED <<registry, settings, clock, ticked, listing, round, seen, overtaken, faults>>

FetchRepo(r) ==
  /\ limit.reviews /\ at["review"] = "idle" /\ r \in RepoIds
  /\ held' = [held EXCEPT !["review"] = [Nothing EXCEPT !.repo = r, !.row = repos[r]]]
  /\ Goes("review", "host")
  /\ UNCHANGED <<registry, settings, clock, ticked, plan, overtaken, asked, faults>>

\* A round that is over, or was never planned, leaves nothing behind.
EndRound ==
  /\ at["poller"] = "next" /\ todo = {}
  /\ listing' = NoListing /\ overtaken' = [overtaken EXCEPT !["poller"] = {}]
  /\ Goes("poller", "idle")
  /\ UNCHANGED <<registry, settings, clock, ticked, round, todo, seen, held, asked, faults>>

\* A caller that is through with the host forgets it: the poller marks the repo
\* as polled, whether or not the poll went well, the review goes on with what
\* came back.
Through(c) ==
  /\ held' = [held EXCEPT ![c] = [Nothing EXCEPT !.repo = held[c].repo]]
  /\ overtaken' = [overtaken EXCEPT ![c] = IF c = "poller" THEN @ ELSE {}]
  /\ Goes(c, IF c = "poller" THEN "mark" ELSE "idle")

ReadHost(c) ==
  /\ at[c] = "host"
  /\ held' = [held EXCEPT ![c].base = hosts[held[c].row.host].base]
  /\ Goes(c, "pat")
  /\ UNCHANGED <<registry, settings, clock, ticked, plan, overtaken, asked, faults>>

\* A repo without any token ends the poll or the review.
ReadPAT(c) ==
  /\ at[c] = "pat"
  /\ \/ /\ RepoPAT(held[c].repo) = NoPAT
        /\ Through(c)
     \/ /\ RepoPAT(held[c].repo) # NoPAT
        /\ held' = [held EXCEPT ![c].pat = RepoPAT(held[c].repo)]
        /\ Goes(c, "call") /\ UNCHANGED overtaken
  /\ UNCHANGED <<registry, settings, clock, ticked, plan, asked, faults>>

\* ListOpenPullRequests or GetPullRequest at the base, for the row, with the
\* token; what comes back is the business of LabelTrigger.
Call(c) ==
  /\ at[c] = "call" /\ Through(c)
  /\ UNCHANGED <<registry, settings, clock, ticked, plan, asked, faults>>

\* MarkRepoPolled: with the time of the round, not of the poll.
MarkRepoPolled ==
  /\ at["poller"] = "mark"
  /\ repos' = [repos EXCEPT ![held["poller"].repo].last = round]
  /\ held' = [held EXCEPT !["poller"] = Nothing]
  /\ Goes("poller", "next")
  /\ UNCHANGED <<hosts, form, saves, limit, settings, clock, ticked, plan, overtaken, asked, faults>>

\* A poll that was begun and not marked is as good as forgotten.
Unmarked == IF at["poller"] \in {"host", "pat", "call", "mark"}
            THEN [asked EXCEPT ![held["poller"].repo] = 0] ELSE asked

\* A statement fails: without settings there is no round, a read ends the poll
\* or the review, and the error of a mark is ignored.
Fail(c) ==
  /\ faults < limit.faults /\ faults' = faults + 1
  /\ \/ /\ at[c] = "settings" /\ Goes(c, "idle")
        /\ listing' = NoListing /\ overtaken' = [overtaken EXCEPT ![c] = {}]
        /\ UNCHANGED <<held, asked>>
     \/ /\ at[c] \in {"host", "pat"} /\ Through(c) /\ UNCHANGED <<listing, asked>>
     \/ /\ at[c] = "mark" /\ Goes(c, "next") /\ asked' = Unmarked
        /\ held' = [held EXCEPT ![c] = Nothing] /\ UNCHANGED <<listing, overtaken>>
  /\ UNCHANGED <<registry, settings, clock, ticked, round, todo, seen>>

\* The process dies and is started again.
Crash ==
  /\ faults < limit.faults /\ faults' = faults + 1
  /\ at' = [c \in Caller |-> "idle"] /\ held' = [c \in Caller |-> Nothing]
  /\ overtaken' = [c \in Caller |-> {}]
  /\ todo' = {} /\ listing' = NoListing /\ ticked' = FALSE
  /\ asked' = Unmarked
  /\ form' = [t \in Tab |-> AfterCrash(form[t])]
  /\ UNCHANGED <<hosts, repos, saves, limit, settings, clock, round, seen>>

Next ==
  \/ Save \/ VisitPage \/ SaveSettings \/ Tick \/ Crash
  \/ StartRound \/ ReadSettings \/ EndRound \/ MarkRepoPolled
  \/ \E r \in Repo : PollRepo(r) \/ FetchRepo(r)
  \/ \E c \in Caller : ReadHost(c) \/ ReadPAT(c) \/ Call(c) \/ Fail(c)

Spec == Init /\ [][Next]_vars

Polling == {"host", "pat", "call", "mark"}
Held == [repo : Repo \cup {NoRow}, row : RepoRow \cup {NoRow}, base : Base \cup {NoBase},
         pat : PATs \cup {NoPAT}]
(* Every variable has its type; no repo is registered twice on a host, and
   every repo, every page and every call has the rows it needs. *)
TypeOK ==
  /\ RegistryTypeOK /\ OneRowEach /\ HostsThere /\ PathsParsed
  /\ settings \in PollSettings /\ seen \in PollSettings
  /\ clock \in 0..limit.time /\ round \in 0..clock /\ ticked \in BOOLEAN
  /\ listing \in [Repo -> RepoRow \cup {NoRow}] /\ todo \subseteq Repo
  /\ at \in [Caller -> {"idle", "settings", "next"} \cup Polling]
  /\ held \in [Caller -> Held]
  /\ overtaken \in [Caller -> SUBSET Repo]
  /\ asked \in [Repo -> 0..limit.time]
  /\ faults \in 0..limit.faults
  /\ at["review"] \notin {"settings", "next", "mark"}
  /\ \A c \in Caller : at[c] \in Polling => held[c].repo \in RepoIds
  /\ \A c \in Caller : at[c] \in Polling \ {"mark"} =>
       held[c].row \in RepoRow /\ held[c].row.host \in HostIds
  /\ \A r \in Repo : listing[r] # NoRow => r \in RepoIds /\ listing[r].host \in HostIds
  /\ \A r \in todo : listing[r] # NoRow
  /\ at["poller"] \in {"idle", "settings"} => todo = {}

(* When a caller goes to the host, web base, owner, name and token belong
   together: they are those of the repo as the tables have it, its own token
   first (CONTEXT.md, Repo PAT), unless a save overtook this very caller after
   it had read what the save changed.  A round keeps its listing for as long
   as it lasts, so the excuse reaches back to its start. *)
CallsFit ==
  \A c \in Caller : at[c] = "call" /\ held[c].repo \notin overtaken[c] =>
    LET now == repos[held[c].repo] IN
    /\ held[c].row.host = now.host /\ held[c].row.path = now.path
    /\ held[c].base = hosts[now.host].base
    /\ held[c].pat = IF now.pat = NoPAT THEN hosts[now.host].pat ELSE now.pat

(* Two rounds poll the same repo at least its interval, and at least the
   minimum, apart, whatever forms, settings and failed polls come between: only
   a lost mark makes a repo due early. *)
PollsSpaced ==
  \A r \in Repo : asked'[r] # asked[r] /\ asked[r] # 0 /\ asked'[r] # 0 =>
    LET own == listing[r].interval IN
    asked'[r] - asked[r] >= IF own = Blank THEN seen.default
                            ELSE IF own < seen.min THEN seen.min ELSE own

SpacedPolls == [][PollsSpaced]_vars
TouchedOnly == [][OnlyWhatWasTouched]_vars
=============================================================================
