------------------------------ MODULE Registry ------------------------------
(***************************************************************************)
(* The registered Git Hosts and Repos: the tables git_hosts and repos of   *)
(* internal/store/store.go, the forms of internal/web/server.go that write *)
(* them, and the Repo URL of internal/web/repourl.go from which a form     *)
(* takes owner and name.  A form is opened on a row, filled in, rejected   *)
(* and shown again, and saved long after; several may be open at a time.   *)
(***************************************************************************)
EXTENDS Integers, Sequences, FiniteSets

CONSTANTS
  Host, Repo,   \* ids of rows
  Tab,          \* pages the Administrators have open
  Segment,      \* segments of the path of a URL
  Bare,         \* a segment without a trailing .git
  Site,         \* host names with their port
  Bases, Urls,  \* the web bases and Repo URLs the Administrators enter
  HostPATs, RepoPATs, NoPAT,   \* access tokens that are entered, and none
  Intervals,    \* poll intervals, in ticks of the poller
  NoRow, NoForm, NoPath,
  StartHosts, StartRepos,  \* the tables the process is started on
  Limits        \* bounds, as sets of cases that are explored one by one:
                \*   tabs     pages that are open at a time
                \*   saves    saves of forms
                \*   touched  fields that are filled in on one page
                \*   time     ticks of the poller's clock
                \*   reviews  whether a review reads the tables
                \*   faults   failing statements and process deaths

Base == [https : BOOLEAN, site : Site, prefix : Seq(Segment)]
Url  == [https : BOOLEAN, user : BOOLEAN, site : Site, path : Seq(Segment)]
PATs == HostPATs \cup RepoPATs
Path == Segment \X Segment     \* owner and name

ASSUME RegistryAssumption ==
  /\ Bases \subseteq Base /\ Urls \subseteq Url
  /\ Site # {} /\ IsFiniteSet(Tab)
  \* Names that end in .git twice are left out.
  /\ Bare \in [Segment -> Segment] /\ \A s \in Segment : Bare[Bare[s]] = Bare[s]
  /\ NoPAT \notin PATs
  /\ Intervals \subseteq Nat \ {0}
  /\ Limits \subseteq [tabs : Nat, saves : Nat, touched : Nat, time : Nat,
                       reviews : BOOLEAN, faults : Nat]

Blank == 0    \* no interval of its own: the one of the settings
Bad   == -1   \* an interval that is no number above 0

VARIABLES
  hosts, repos,  \* the tables
  form,          \* what each page shows, and where its request is
  saves,         \* counted against the bound
  limit          \* the bounds of this behaviour

registry == <<hosts, repos, form, saves, limit>>

HostRow == [base : Base, pat : PATs \cup {NoPAT}]
\* last: the round that polled it last, 0 for NULL; own: it has a rotation set.
RepoRow == [host : Host, path : Path, enabled : BOOLEAN, interval : Intervals \cup {Blank},
            own : BOOLEAN, pat : PATs \cup {NoPAT}, last : Nat]
Columns == {"host", "path", "enabled", "interval", "own", "pat"}
\* id: the row it edits, NoRow for a new one.  path: what its request made of
\* the URL.  History: touched by the Administrator, lost when the page was
\* shown again, moved by another save since the page was opened.
Form == [id : Repo \cup {NoRow}, step : {"shown", "parsed"}, host : Host, url : Url,
         enabled : BOOLEAN, interval : Intervals \cup {Blank, Bad}, own : BOOLEAN,
         pat : PATs \cup {NoPAT}, clear : BOOLEAN, path : Path \cup {NoPath},
         touched : SUBSET Columns, lost : SUBSET Columns, moved : SUBSET Columns]

ASSUME NothingAssumption ==
  /\ NoRow \notin HostRow \cup RepoRow \cup Repo
  /\ NoForm \notin Form /\ NoPath \notin Path

ASSUME StartAssumption ==
  /\ StartHosts \in [Host -> HostRow \cup {NoRow}]
  /\ StartRepos \in [Repo -> {w \in RepoRow : w.last = 0} \cup {NoRow}]
  /\ \A r \in Repo : StartRepos[r] # NoRow =>
       /\ StartHosts[StartRepos[r].host] # NoRow
       /\ Bare[StartRepos[r].path[2]] = StartRepos[r].path[2]
       /\ \A s \in Repo \ {r} : StartRepos[s] # NoRow =>
            <<StartRepos[s].host, StartRepos[s].path>> # <<StartRepos[r].host, StartRepos[r].path>>

HostIds == {h \in Host : hosts[h] # NoRow}
RepoIds == {r \in Repo : repos[r] # NoRow}

\* Upper case, escapes and default ports are normalised away.
SameHostPort(u, b) == u.https = b.https /\ u.site = b.site
PathUnderBase(u, b) ==
  LET n == Len(b.prefix) IN Len(u.path) >= n /\ SubSeq(u.path, 1, n) = b.prefix

\* https, no userinfo, the site of the base, and two segments below its path.
ParseRepoURL(u, b) ==
  LET n == Len(b.prefix) IN
  IF /\ u.https /\ ~u.user /\ SameHostPort(u, b)
     /\ PathUnderBase(u, b) /\ Len(u.path) = n + 2
  THEN <<u.path[n + 1], Bare[u.path[n + 2]]>>
  ELSE NoPath

\* The URL a page shows for a row.
FormatRepoURL(b, p) == [https |-> b.https, user |-> FALSE, site |-> b.site, path |-> b.prefix \o p]
\* An empty field: no URL at all.
NoUrl == [https |-> FALSE, user |-> FALSE, site |-> CHOOSE s \in Site : TRUE, path |-> <<>>]

\* A token that is filled in replaces the old one, the checkbox clears it, and
\* an empty field keeps it.
PATAfter(old, pat, clear) == IF pat # NoPAT THEN pat ELSE IF clear THEN NoPAT ELSE old

\* UNIQUE (git_host_id, owner, name).  (A definition X_How is X with a slip in
\* it: no definition uses it, it serves to see that a property notices.)
Clash_Never(id, h, p) == FALSE
Clash(id, h, p) == \E r \in RepoIds \ {id} : repos[r].host = h /\ repos[r].path = p

CreateGitHost(h, b, pat) ==
  /\ hosts[h] = NoRow /\ saves < limit.saves
  /\ hosts' = [hosts EXCEPT ![h] = [base |-> b, pat |-> pat]]
  /\ saves' = saves + 1
  /\ UNCHANGED <<repos, form, limit>>

UpdateGitHost(h, b, pat, clear) ==
  /\ h \in HostIds /\ saves < limit.saves
  /\ hosts' = [hosts EXCEPT ![h] = [base |-> b, pat |-> PATAfter(hosts[h].pat, pat, clear)]]
  /\ saves' = saves + 1
  /\ UNCHANGED <<repos, form, limit>>

MayOpen(t) ==
  form[t] = NoForm /\ Cardinality({s \in Tab : form[s] # NoForm}) < limit.tabs

\* repoNew: an enabled repo on the first host, or no page when there is no host.
RepoNew(t) ==
  /\ MayOpen(t) /\ RepoIds # Repo
  /\ \E h \in HostIds :
       form' = [form EXCEPT ![t] =
         [id |-> NoRow, step |-> "shown", host |-> h, url |-> NoUrl, enabled |-> TRUE,
          interval |-> Blank, own |-> FALSE, pat |-> NoPAT, clear |-> FALSE, path |-> NoPath,
          touched |-> {}, lost |-> {}, moved |-> {}]]
  /\ UNCHANGED <<hosts, repos, saves, limit>>

\* repoEdit: the row as it is now.
RepoEdit(t, r) ==
  /\ MayOpen(t) /\ r \in RepoIds
  /\ LET row == repos[r] IN
     form' = [form EXCEPT ![t] =
       [id |-> r, step |-> "shown", host |-> row.host,
        url |-> FormatRepoURL(hosts[row.host].base, row.path),
        enabled |-> row.enabled, interval |-> row.interval, own |-> row.own,
        pat |-> NoPAT, clear |-> FALSE, path |-> NoPath,
        touched |-> {}, lost |-> {}, moved |-> {}]]
  /\ UNCHANGED <<hosts, repos, saves, limit>>

\* The Administrator fills in one more field, or one of them again.
Filled(f) ==
  {[f EXCEPT !.host = h, !.touched = @ \cup {"host"}] : h \in HostIds}
  \cup {[f EXCEPT !.url = u, !.touched = @ \cup {"path"}] : u \in Urls}
  \cup {[f EXCEPT !.enabled = ~@, !.touched = @ \cup {"enabled"}]}
  \cup {[f EXCEPT !.interval = i, !.touched = @ \cup {"interval"}] : i \in Intervals \cup {Blank, Bad}}
  \cup {[f EXCEPT !.own = ~@, !.touched = @ \cup {"own"}]}
  \cup {[f EXCEPT !.pat = p, !.touched = @ \cup {"pat"}] : p \in RepoPATs}
  \cup {[f EXCEPT !.clear = TRUE, !.touched = @ \cup {"pat"}]}

Fill(t) ==
  /\ form[t] # NoForm /\ form[t].step = "shown" /\ saves < limit.saves
  /\ \E f \in Filled(form[t]) :
       /\ Cardinality(f.touched) <= limit.touched
       /\ f # form[t]
       /\ form' = [form EXCEPT ![t] = f]
  /\ UNCHANGED <<hosts, repos, saves, limit>>

\* A rejected form is shown again from the fields that had been read: the
\* rotation set comes last, the interval after the URL, the id not at all, and
\* a page without an id is enabled.  A token is never shown.  A bad path of the
\* background file (server.go:485) is rejected before the review language is read
\* and loses that override as well; neither column is modelled.
Unread(f) == [f EXCEPT !.pat = NoPAT, !.clear = FALSE]
Rejected(f) ==
  [Unread(f) EXCEPT !.enabled = TRUE, !.interval = Blank, !.own = FALSE,
                    !.lost = @ \cup {"enabled", "interval", "own"}]

\* The first half of repoCreate and repoUpdate: the hosts are read and the form
\* is parsed.
ParseRepoForm(t) ==
  /\ form[t] # NoForm /\ form[t].step = "shown" /\ saves < limit.saves
  /\ LET f == form[t]  p == ParseRepoURL(f.url, hosts[f.host].base) IN
     form' = [form EXCEPT ![t] = IF p = NoPath \/ f.interval = Bad
                                 THEN Rejected(f)
                                 ELSE [f EXCEPT !.step = "parsed", !.path = p]]
  /\ UNCHANGED <<hosts, repos, saves, limit>>

\* The second half when the store refuses: the pair is taken, a pair of the
\* rotation set was switched off, or the statement fails.  Nothing but the
\* token is lost, except that a new repo is enabled.
Refused_AsRejected(f) == [Rejected(f) EXCEPT !.step = "shown", !.lost = f.lost]
Refused(f) == [Unread(f) EXCEPT !.step = "shown", !.path = NoPath, !.enabled = @ \/ f.id = NoRow]

RefuseRepo(t) ==
  /\ form[t] # NoForm /\ form[t].step = "parsed"
  /\ form' = [form EXCEPT ![t] = Refused(form[t])]
  /\ UNCHANGED <<hosts, repos, saves, limit>>

\* The Administrator goes elsewhere.
LeavePage(t) ==
  /\ form[t] # NoForm /\ form[t].step = "shown"
  /\ form' = [form EXCEPT ![t] = NoForm]
  /\ UNCHANGED <<hosts, repos, saves, limit>>

\* The row that CreateRepo inserts and UpdateRepo writes, as a whole.
Written_Unpolled(f, pat, last) ==
  [host |-> f.host, path |-> f.path, enabled |-> f.enabled, interval |-> f.interval,
   own |-> f.own, pat |-> pat, last |-> 0]
Written(f, pat, last) ==
  [host |-> f.host, path |-> f.path, enabled |-> f.enabled, interval |-> f.interval,
   own |-> f.own, pat |-> pat, last |-> last]
Differ(a, b) == {c \in Columns : a[c] # b[c]}

CreateRepo(t, r) ==
  LET f == form[t] IN
  /\ f # NoForm /\ f.step = "parsed" /\ f.id = NoRow /\ saves < limit.saves
  /\ repos[r] = NoRow /\ ~Clash(NoRow, f.host, f.path)
  /\ repos' = [repos EXCEPT ![r] = Written(f, f.pat, 0)]
  /\ form' = [form EXCEPT ![t] = NoForm]
  /\ saves' = saves + 1
  /\ UNCHANGED <<hosts, limit>>

UpdateRepo(t) ==
  LET f == form[t]  r == f.id IN
  /\ f # NoForm /\ f.step = "parsed" /\ r \in RepoIds /\ saves < limit.saves
  /\ ~Clash(r, f.host, f.path)
  /\ repos' = [repos EXCEPT ![r] = Written(f, PATAfter(repos[r].pat, f.pat, f.clear), repos[r].last)]
  /\ form' = [s \in Tab |->
       IF s = t THEN NoForm
       ELSE IF form[s] # NoForm /\ form[s].id = r
            THEN [form[s] EXCEPT !.moved = @ \cup Differ(repos[r], repos'[r])]
            ELSE form[s]]
  /\ saves' = saves + 1
  /\ UNCHANGED <<hosts, limit>>

SaveHost ==
  \E h \in Host, b \in Bases, pat \in HostPATs \cup {NoPAT} :
    \/ CreateGitHost(h, b, pat)
    \/ \E clear \in BOOLEAN : UpdateGitHost(h, b, pat, clear)
SaveRepo == \E t \in Tab : UpdateRepo(t) \/ \E r \in Repo : CreateRepo(t, r)
Browse ==
  \E t \in Tab : \/ RepoNew(t) \/ (\E r \in Repo : RepoEdit(t, r))
                 \/ Fill(t) \/ ParseRepoForm(t) \/ RefuseRepo(t) \/ LeavePage(t)

\* A process death ends the requests; pages stay open, and are sent again.
AfterCrash(f) == IF f # NoForm /\ f.step = "parsed" THEN NoForm ELSE f

(* Every row and every page is of its type, no repo is registered twice on a
   host, and every repo and every page has its host. *)
RegistryTypeOK ==
  /\ hosts \in [Host -> HostRow \cup {NoRow}]
  /\ repos \in [Repo -> RepoRow \cup {NoRow}]
  /\ form \in [Tab -> Form \cup {NoForm}]
  /\ limit \in Limits /\ saves \in 0..limit.saves
OneRowEach ==
  \A r, s \in RepoIds : repos[r].host = repos[s].host /\ repos[r].path = repos[s].path => r = s
HostsThere ==
  /\ \A r \in RepoIds : repos[r].host \in HostIds
  /\ \A t \in Tab : form[t] # NoForm => form[t].host \in HostIds
PathsParsed ==
  \A t \in Tab : form[t] # NoForm /\ form[t].step = "parsed"
                   => form[t].path \in Path /\ form[t].interval # Bad

(* UpdateRepo writes the whole row from a page.  It changes a column only if
   the Administrator touched it, the rejection of the page lost it, or another
   save had changed it since the page was opened: showing a URL and reading it
   back under a host that was edited meanwhile, or an empty token field, change
   nothing. *)
OnlyWhatWasTouched ==
  \A t \in Tab :
    form[t] # NoForm /\ form[t].id \in RepoIds /\ form'[t] = NoForm
      => Differ(repos[form[t].id], repos'[form[t].id])
           \subseteq form[t].touched \cup form[t].lost \cup form[t].moved
=============================================================================
