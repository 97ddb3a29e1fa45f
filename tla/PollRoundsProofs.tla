-------------------------- MODULE PollRoundsProofs --------------------------
(***************************************************************************)
(* Proofs about Registry and PollRounds: types and keys, what a page can   *)
(* change, what a call of a host is made of, and how far polls are apart.  *)
(***************************************************************************)
EXTENDS PollRounds, SequenceTheorems, TLAPS

\* The columns in which a page may differ from its row.
Known(f) == f.touched \cup f.lost \cup f.moved

\* A page shows its row but for the columns that are known to differ.
PageFits(f) ==
  LET w == repos[f.id] IN
  /\ f.host # w.host => "host" \in Known(f)
  /\ f.enabled # w.enabled => "enabled" \in Known(f)
  /\ f.interval # w.interval => "interval" \in Known(f)
  /\ f.own # w.own => "own" \in Known(f)
  /\ f.pat # NoPAT \/ f.clear => "pat" \in Known(f)
  /\ "path" \notin Known(f) =>
       /\ LET n == Len(f.url.path) IN n >= 2 /\ f.url.path[n - 1] = w.path[1] /\ f.url.path[n] = w.path[2]
       /\ f.step = "parsed" => f.path = w.path

PagesFit ==
  /\ \A r \in RepoIds : Bare[repos[r].path[2]] = repos[r].path[2]
  /\ \A t \in Tab : form[t] # NoForm =>
       /\ form[t].step = "parsed" => Bare[form[t].path[2]] = form[t].path[2]
       /\ form[t].id # NoRow => form[t].id \in RepoIds /\ PageFits(form[t])

\* What a caller holds, and what the round has listed, is what the tables hold
\* as long as no save has overtaken it.
HeldFits(c) ==
  LET r == held[c].repo  w == held[c].row IN
  r \notin overtaken[c] =>
    /\ at[c] \in {"host", "pat", "call"} => w.host = repos[r].host /\ w.path = repos[r].path
    /\ at[c] \in {"pat", "call"} => held[c].base = hosts[w.host].base
    /\ at[c] = "call" => held[c].pat = RepoPAT(r)
ListingFits ==
  \A r \in Repo : listing[r] # NoRow /\ r \notin overtaken["poller"] =>
    listing[r].host = repos[r].host /\ listing[r].path = repos[r].path
CopiesFit ==
  /\ ListingFits /\ \A c \in Caller : HeldFits(c)
  /\ at["poller"] = "idle" => listing = NoListing

\* The last poll of a repo is what its row says, unless the poll is under way;
\* and what is still to be polled is due.
Under(r) == at["poller"] \in Polling /\ held["poller"].repo = r
MarksFit ==
  /\ \A r \in Repo : asked[r] # 0 =>
       r \in RepoIds /\ asked[r] = IF Under(r) THEN round ELSE repos[r].last
  /\ at["poller"] = "settings" => \A r \in Repo :
       listing[r] # NoRow /\ asked[r] # 0 => listing[r].last = asked[r]
  /\ at["poller"] \in Polling \cup {"next"} => \A r \in todo :
       /\ Due(listing[r], round, seen) /\ ~Under(r)
       /\ asked[r] # 0 => listing[r].last = asked[r]
Keys == RegistryTypeOK /\ OneRowEach /\ HostsThere /\ PathsParsed

-----------------------------------------------------------------------------
\* Types of the operators of Registry.

LEMMA Names == ASSUME NEW p \in Path PROVE p \in Seq(Segment) /\ Len(p) = 2 /\ p[1] \in Segment /\ p[2] \in Segment
<1>1. p = <<p[1], p[2]>> /\ p[1] \in Segment /\ p[2] \in Segment
  BY DEF Path
<1> DEFINE a == p[1]  b == p[2]
<1>2. <<a, b>> \in Seq(Segment) /\ Len(<<a, b>>) = 2
  <2> HIDE DEF a, b
  <2>1. a \in Segment /\ b \in Segment
    BY <1>1 DEF a, b
  <2> QED BY <2>1
<1> QED BY <1>1, <1>2

LEMMA ParsedPath ==
  ASSUME NEW u \in Url, NEW b \in Base
  PROVE  /\ ParseRepoURL(u, b) \in Path \cup {NoPath}
         /\ ParseRepoURL(u, b) # NoPath =>
              LET n == Len(u.path) IN n >= 2 /\ ParseRepoURL(u, b) = <<u.path[n - 1], Bare[u.path[n]]>>
<1>1. u.path \in Seq(Segment) /\ b.prefix \in Seq(Segment) /\ Len(b.prefix) \in Nat
  BY DEF Url, Base
<1> DEFINE n == Len(b.prefix)
<1>2. CASE Len(u.path) = n + 2
  <2>1. u.path[n + 1] \in Segment /\ u.path[n + 2] \in Segment
    BY <1>1, <1>2
  <2>2. Bare[u.path[n + 2]] \in Segment
    BY <2>1, RegistryAssumption
  <2>3. n + 1 = Len(u.path) - 1 /\ n + 2 = Len(u.path) /\ Len(u.path) >= 2
    BY <1>1, <1>2
  <2> QED BY <2>1, <2>2, <2>3 DEF ParseRepoURL, Path
<1>3. CASE Len(u.path) # n + 2
  BY <1>3 DEF ParseRepoURL
<1> QED BY <1>2, <1>3

LEMMA Joined ==
  ASSUME NEW s \in Seq(Segment), NEW p \in Seq(Segment), Len(p) = 2
  PROVE  /\ s \o p \in Seq(Segment) /\ Len(s \o p) = Len(s) + 2
         /\ (s \o p)[Len(s) + 1] = p[1] /\ (s \o p)[Len(s) + 2] = p[2]
<1>1. Len(s) \in Nat
  OBVIOUS
<1>2. s \o p \in Seq(Segment) /\ Len(s \o p) = Len(s) + Len(p)
  BY ConcatProperties
<1>3. \A i \in 1 .. Len(s) + Len(p) : (s \o p)[i] = IF i <= Len(s) THEN s[i] ELSE p[i - Len(s)]
  BY ConcatProperties
<1> DEFINE n == Len(s)  q == s \o p
<1>4. n \in Nat /\ \A i \in 1 .. n + 2 : q[i] = IF i <= n THEN s[i] ELSE p[i - n]
  BY <1>1, <1>3
<1>5. q[n + 1] = p[1] /\ q[n + 2] = p[2]
  <2> HIDE DEF n, q
  <2>1. (n + 1) - n = 1 /\ (n + 2) - n = 2 /\ n + 1 \in 1 .. n + 2 /\ n + 2 \in 1 .. n + 2
    BY <1>4
  <2>2. ~(n + 1 <= n) /\ ~(n + 2 <= n)
    BY <1>4
  <2> QED BY <1>4, <2>1, <2>2
<1> QED BY <1>2, <1>5

LEMMA FormattedUrl ==
  ASSUME NEW b \in Base, NEW p \in Path
  PROVE  /\ FormatRepoURL(b, p) \in Url
         /\ LET q == FormatRepoURL(b, p).path  n == Len(q) IN
              n >= 2 /\ q[n - 1] = p[1] /\ q[n] = p[2]
<1>1. b.prefix \in Seq(Segment) /\ p \in Seq(Segment) /\ Len(p) = 2
  BY Names DEF Base
<1> DEFINE q == b.prefix \o p
<1>2. q \in Seq(Segment) /\ Len(q) = Len(b.prefix) + 2
  BY <1>1, Joined
<1>3. q[Len(b.prefix) + 1] = p[1] /\ q[Len(b.prefix) + 2] = p[2]
  BY <1>1, Joined
<1>4. Len(q) - 1 = Len(b.prefix) + 1 /\ Len(q) >= 2
  BY <1>1, <1>2, LenProperties
<1> QED BY <1>2, <1>3, <1>4 DEF FormatRepoURL, Url, Base

LEMMA NoUrlType == NoUrl \in Url
BY RegistryAssumption DEF NoUrl, Url

LEMMA PagesTyped ==
  ASSUME NEW f \in Form
  PROVE  /\ Rejected(f) \in Form /\ Refused(f) \in Form
         /\ \A g \in Filled(f) : g \in Form /\ g.step = f.step /\ g.id = f.id
                                 /\ (g.host = f.host \/ g.host \in HostIds)
<1> USE DEF Form, Columns, Blank, Bad, PATs
<1>1. Rejected(f) \in Form
  BY DEF Rejected, Unread
<1>2. Refused(f) \in Form
  BY ZenonT(40) DEF Refused, Unread
<1>3. ASSUME NEW g \in Filled(f)
      PROVE  g \in Form /\ g.step = f.step /\ g.id = f.id /\ (g.host = f.host \/ g.host \in HostIds)
  <2>1. CASE \E h \in HostIds : g = [f EXCEPT !.host = h, !.touched = @ \cup {"host"}]
    <3>1. PICK h \in HostIds : g = [f EXCEPT !.host = h, !.touched = @ \cup {"host"}]
      BY <2>1
    <3>2. h \in Host
      BY DEF HostIds
    <3> QED BY <3>1, <3>2
  <2>2. CASE \E u \in Urls : g = [f EXCEPT !.url = u, !.touched = @ \cup {"path"}]
    <3>1. PICK u \in Urls : g = [f EXCEPT !.url = u, !.touched = @ \cup {"path"}]
      BY <2>2
    <3>2. u \in Url
      BY RegistryAssumption
    <3> QED BY <3>1, <3>2
  <2>3. CASE g = [f EXCEPT !.enabled = ~@, !.touched = @ \cup {"enabled"}]
    <3>1. (~f.enabled) \in BOOLEAN
      OBVIOUS
    <3> QED BY <2>3, <3>1, ZenonT(40)
  <2>4. CASE \E i \in Intervals \cup {Blank, Bad} : g = [f EXCEPT !.interval = i, !.touched = @ \cup {"interval"}]
    <3>1. PICK i \in Intervals \cup {Blank, Bad} : g = [f EXCEPT !.interval = i, !.touched = @ \cup {"interval"}]
      BY <2>4
    <3> QED BY <3>1
  <2>5. CASE g = [f EXCEPT !.own = ~@, !.touched = @ \cup {"own"}]
    <3>1. (~f.own) \in BOOLEAN
      OBVIOUS
    <3> QED BY <2>5, <3>1, ZenonT(40)
  <2>6. CASE \E p \in RepoPATs : g = [f EXCEPT !.pat = p, !.touched = @ \cup {"pat"}]
    <3>1. PICK p \in RepoPATs : g = [f EXCEPT !.pat = p, !.touched = @ \cup {"pat"}]
      BY <2>6
    <3> QED BY <3>1
  <2>7. CASE g = [f EXCEPT !.clear = TRUE, !.touched = @ \cup {"pat"}]
    BY <2>7
  <2> QED BY <2>1, <2>2, <2>3, <2>4, <2>5, <2>6, <2>7 DEF Filled
<1> QED BY <1>1, <1>2, <1>3

LEMMA KeptPAT ==
  ASSUME NEW old \in PATs \cup {NoPAT}, NEW p \in PATs \cup {NoPAT}, NEW clear
  PROVE  PATAfter(old, p, clear) \in PATs \cup {NoPAT}
BY DEF PATAfter

-----------------------------------------------------------------------------
\* Types and keys of the tables and pages.

LEMMA SaveHostKeys == Keys /\ SaveHost => Keys' /\ HostIds \subseteq HostIds'
<1> SUFFICES ASSUME Keys, NEW h \in Host, NEW b \in Bases, NEW p \in HostPATs \cup {NoPAT},
                    CreateGitHost(h, b, p) \/ \E clear \in BOOLEAN : UpdateGitHost(h, b, p, clear)
             PROVE  Keys' /\ HostIds \subseteq HostIds'
  BY DEF SaveHost
<1>1. \E q \in PATs \cup {NoPAT} : hosts' = [hosts EXCEPT ![h] = [base |-> b, pat |-> q]]
  <2>1. CASE CreateGitHost(h, b, p)
    BY <2>1 DEF CreateGitHost, PATs
  <2>2. CASE \E clear \in BOOLEAN : UpdateGitHost(h, b, p, clear)
    <3>1. PICK clear \in BOOLEAN : UpdateGitHost(h, b, p, clear)
      BY <2>2
    <3>2. hosts[h].pat \in PATs \cup {NoPAT} /\ p \in PATs \cup {NoPAT}
      BY <3>1 DEF UpdateGitHost, HostIds, Keys, RegistryTypeOK, HostRow, PATs
    <3> QED BY <3>1, <3>2, KeptPAT DEF UpdateGitHost
  <2> QED BY <2>1, <2>2
<1>2. PICK q \in PATs \cup {NoPAT} : hosts' = [hosts EXCEPT ![h] = [base |-> b, pat |-> q]]
  BY <1>1
<1>3. [base |-> b, pat |-> q] \in HostRow /\ [base |-> b, pat |-> q] # NoRow
  BY RegistryAssumption, NothingAssumption DEF HostRow
<1>4. hosts' \in [Host -> HostRow \cup {NoRow}] /\ HostIds \subseteq HostIds'
  BY <1>2, <1>3 DEF Keys, RegistryTypeOK, HostIds
<1>5. UNCHANGED <<repos, form, limit>> /\ saves' = saves + 1 /\ saves < limit.saves
  BY DEF CreateGitHost, UpdateGitHost
<1>6. saves' \in 0..limit'.saves
  BY <1>5, RegistryAssumption DEF Keys, RegistryTypeOK
<1>7. RegistryTypeOK'
  BY <1>4, <1>5, <1>6 DEF Keys, RegistryTypeOK
<1> QED BY <1>4, <1>5, <1>7 DEF Keys, OneRowEach, HostsThere, PathsParsed, RepoIds

\* A page that is opened, filled in or shown again.
LEMMA PageKeys ==
  ASSUME Keys, NEW t \in Tab, NEW f \in Form \cup {NoForm}, form' = [form EXCEPT ![t] = f],
         f # NoForm => f.host \in HostIds,
         f # NoForm /\ f.step = "parsed" => f.path \in Path /\ f.interval # Bad,
         UNCHANGED <<hosts, repos, saves, limit>>
  PROVE  Keys'
<1>1. form' \in [Tab -> Form \cup {NoForm}]
  BY DEF Keys, RegistryTypeOK
<1>2. RegistryTypeOK' /\ OneRowEach'
  BY <1>1 DEF Keys, RegistryTypeOK, OneRowEach, RepoIds
<1>3. HostsThere' /\ PathsParsed'
  BY DEF Keys, RegistryTypeOK, HostsThere, PathsParsed, RepoIds, HostIds
<1> QED BY <1>2, <1>3 DEF Keys

LEMMA BrowseKeys == Keys /\ Browse => Keys' /\ UNCHANGED <<hosts, repos>>
<1> SUFFICES ASSUME Keys, NEW t \in Tab,
                    \/ RepoNew(t) \/ (\E r \in Repo : RepoEdit(t, r))
                    \/ Fill(t) \/ ParseRepoForm(t) \/ RefuseRepo(t) \/ LeavePage(t)
             PROVE  Keys' /\ UNCHANGED <<hosts, repos>>
  BY DEF Browse
<1>0. UNCHANGED <<hosts, repos, saves, limit>>
  BY DEF RepoNew, RepoEdit, Fill, ParseRepoForm, RefuseRepo, LeavePage
<1>t. form[t] # NoForm => form[t] \in Form /\ form[t].host \in HostIds
  BY DEF Keys, RegistryTypeOK, HostsThere
<1>1. CASE RepoNew(t)
  <2>1. PICK h \in HostIds : form' = [form EXCEPT ![t] =
         [id |-> NoRow, step |-> "shown", host |-> h, url |-> NoUrl, enabled |-> TRUE,
          interval |-> Blank, own |-> FALSE, pat |-> NoPAT, clear |-> FALSE, path |-> NoPath,
          touched |-> {}, lost |-> {}, moved |-> {}]]
    BY <1>1 DEF RepoNew
  <2> DEFINE f == [id |-> NoRow, step |-> "shown", host |-> h, url |-> NoUrl, enabled |-> TRUE,
          interval |-> Blank, own |-> FALSE, pat |-> NoPAT, clear |-> FALSE, path |-> NoPath,
          touched |-> {}, lost |-> {}, moved |-> {}]
  <2>2. f \in Form
    BY NoUrlType DEF Form, HostIds
  <2>3. f.host \in HostIds /\ f.step # "parsed"
    OBVIOUS
  <2> HIDE DEF f
  <2>4. form' = [form EXCEPT ![t] = f]
    BY <2>1 DEF f
  <2> QED BY <1>0, <2>2, <2>3, <2>4, PageKeys
<1>2. CASE \E r \in Repo : RepoEdit(t, r)
  <2>1. PICK r \in Repo : RepoEdit(t, r)
    BY <1>2
  <2> DEFINE row == repos[r]
             f == [id |-> r, step |-> "shown", host |-> row.host,
        url |-> FormatRepoURL(hosts[row.host].base, row.path),
        enabled |-> row.enabled, interval |-> row.interval, own |-> row.own,
        pat |-> NoPAT, clear |-> FALSE, path |-> NoPath,
        touched |-> {}, lost |-> {}, moved |-> {}]
  <2>2. r \in RepoIds /\ form' = [form EXCEPT ![t] = f]
    BY <2>1 DEF RepoEdit
  <2>3. row \in RepoRow /\ row.host \in HostIds /\ hosts[row.host].base \in Base /\ row.path \in Path
    BY <2>2 DEF Keys, RegistryTypeOK, HostsThere, RepoIds, HostIds, RepoRow, HostRow
  <2>4. FormatRepoURL(hosts[row.host].base, row.path) \in Url
    BY <2>3, FormattedUrl
  <2>5. f \in Form
    BY <2>3, <2>4 DEF Form, RepoRow
  <2>6. f.host \in HostIds /\ f.step # "parsed"
    BY <2>3
  <2> HIDE DEF f
  <2> QED BY <1>0, <2>2, <2>5, <2>6, PageKeys
<1>3. CASE Fill(t)
  <2>1. form[t] # NoForm /\ form[t].step = "shown"
    BY <1>3 DEF Fill
  <2>2. PICK f \in Filled(form[t]) : form' = [form EXCEPT ![t] = f]
    BY <1>3 DEF Fill
  <2>3. f \in Form /\ f.step = "shown" /\ f.host \in HostIds
    BY <1>t, <2>1, PagesTyped
  <2> QED BY <1>0, <2>2, <2>3, PageKeys
<1>4. CASE ParseRepoForm(t)
  <2> DEFINE f == form[t]
             p == ParseRepoURL(f.url, hosts[f.host].base)
             g == IF p = NoPath \/ f.interval = Bad THEN Rejected(f)
                  ELSE [f EXCEPT !.step = "parsed", !.path = p]
  <2>1. f \in Form /\ f.host \in HostIds /\ f.step = "shown" /\ form' = [form EXCEPT ![t] = g]
    BY <1>t, <1>4 DEF ParseRepoForm
  <2>2. f.url \in Url /\ hosts[f.host].base \in Base
    BY <2>1 DEF Form, Keys, RegistryTypeOK, HostIds, HostRow
  <2>3. p \in Path \cup {NoPath}
    BY <2>2, ParsedPath
  <2> HIDE DEF p
  <2>4. CASE p = NoPath \/ f.interval = Bad
    <3>1. g = Rejected(f)
      BY <2>4
    <3>2. Rejected(f) \in Form
      BY <2>1, PagesTyped
    <3>3. Rejected(f).host = f.host /\ Rejected(f).step = f.step
      BY <2>1 DEF Rejected, Unread, Form
    <3>4. g \in Form /\ g.host \in HostIds /\ g.step = "shown"
      BY <2>1, <3>1, <3>2, <3>3
    <3> HIDE DEF g
    <3> QED BY <1>0, <2>1, <3>4, PageKeys
  <2>5. CASE ~(p = NoPath \/ f.interval = Bad)
    <3>1. g = [f EXCEPT !.step = "parsed", !.path = p]
      BY <2>5
    <3>2. g \in Form /\ g.host \in HostIds /\ g.path \in Path /\ g.interval # Bad
      BY <2>1, <2>3, <2>5, <3>1 DEF Form
    <3> HIDE DEF g
    <3> QED BY <1>0, <2>1, <3>2, PageKeys
  <2> QED BY <2>4, <2>5
<1>5. CASE RefuseRepo(t)
  <2>1. form[t] \in Form /\ form[t].host \in HostIds /\ form' = [form EXCEPT ![t] = Refused(form[t])]
    BY <1>t, <1>5 DEF RefuseRepo
  <2>2. Refused(form[t]) \in Form
    BY <2>1, PagesTyped
  <2>3. Refused(form[t]).host = form[t].host /\ Refused(form[t]).step = "shown"
    BY <2>1 DEF Refused, Unread, Form
  <2> QED BY <1>0, <2>1, <2>2, <2>3, PageKeys
<1>6. CASE LeavePage(t)
  BY <1>0, <1>6, PageKeys DEF LeavePage
<1> QED BY <1>0, <1>1, <1>2, <1>3, <1>4, <1>5, <1>6
LEMMA NextRow == ASSUME NEW f \in Form, f.path \in Path, f.interval # Bad,
                        NEW p \in PATs \cup {NoPAT}, NEW n \in Nat
                 PROVE  Written(f, p, n) \in RepoRow
BY DEF Written, Form, RepoRow

\* The row r is written with the host and name of a parsed page.
LEMMA WriteKeys ==
  ASSUME Keys, NEW r \in Repo, NEW w \in RepoRow, w.host \in HostIds,
         repos' = [repos EXCEPT ![r] = w],
         ~\E q \in RepoIds \ {r} : repos[q].host = w.host /\ repos[q].path = w.path,
         hosts' = hosts, form' \in [Tab -> Form \cup {NoForm}],
         \A t \in Tab : form'[t] # NoForm =>
           form[t] # NoForm /\ form'[t].host = form[t].host /\ form'[t].step = form[t].step
           /\ form'[t].path = form[t].path /\ form'[t].interval = form[t].interval,
         saves < limit.saves, saves' = saves + 1, limit' = limit
  PROVE  Keys' /\ RepoIds' = RepoIds \cup {r}
<1>1. w # NoRow
  BY NothingAssumption
<1>2. repos' \in [Repo -> RepoRow \cup {NoRow}] /\ RepoIds' = RepoIds \cup {r}
  BY <1>1 DEF Keys, RegistryTypeOK, RepoIds
<1>3. saves' \in 0..limit'.saves
  BY RegistryAssumption DEF Keys, RegistryTypeOK
<1>4. RegistryTypeOK'
  BY <1>2, <1>3 DEF Keys, RegistryTypeOK
<1>5. OneRowEach'
  BY <1>2 DEF Keys, RegistryTypeOK, OneRowEach
<1>6. HostsThere' /\ PathsParsed'
  BY <1>2 DEF Keys, RegistryTypeOK, HostsThere, PathsParsed, HostIds
<1> QED BY <1>2, <1>4, <1>5, <1>6 DEF Keys

LEMMA SaveRepoKeys == Keys /\ SaveRepo => Keys' /\ RepoIds \subseteq RepoIds' /\ hosts' = hosts
<1> SUFFICES ASSUME Keys, NEW t \in Tab, UpdateRepo(t) \/ \E r \in Repo : CreateRepo(t, r)
             PROVE  Keys' /\ RepoIds \subseteq RepoIds' /\ hosts' = hosts
  BY DEF SaveRepo
<1> DEFINE f == form[t]
<1>1. f \in Form /\ f.host \in HostIds /\ f.path \in Path /\ f.interval # Bad
  <2>1. f # NoForm /\ f.step = "parsed"
    BY DEF UpdateRepo, CreateRepo
  <2> QED BY <2>1 DEF Keys, RegistryTypeOK, HostsThere, PathsParsed
<1>2. ASSUME NEW r \in Repo, CreateRepo(t, r)
      PROVE  Keys' /\ RepoIds \subseteq RepoIds' /\ hosts' = hosts
  <2> DEFINE w == Written(f, f.pat, 0)
  <2>1. w \in RepoRow /\ w.host = f.host /\ w.path = f.path
    BY <1>1, NextRow DEF Form, Written
  <2>2. /\ repos' = [repos EXCEPT ![r] = w] /\ form' = [form EXCEPT ![t] = NoForm]
        /\ saves < limit.saves /\ saves' = saves + 1 /\ UNCHANGED <<hosts, limit>>
        /\ ~Clash(NoRow, f.host, f.path)
    BY <1>2 DEF CreateRepo
  <2>3. ~\E q \in RepoIds \ {r} : repos[q].host = f.host /\ repos[q].path = f.path
    BY <2>2, NothingAssumption DEF Clash, RepoIds
  <2>4. form' \in [Tab -> Form \cup {NoForm}]
    BY <2>2 DEF Keys, RegistryTypeOK
  <2>5. \A s \in Tab : form'[s] # NoForm => form'[s] = form[s]
    BY <2>2 DEF Keys, RegistryTypeOK
  <2>6. ~\E q \in RepoIds \ {r} : repos[q].host = w.host /\ repos[q].path = w.path
    BY <2>1, <2>3
  <2> HIDE DEF w
  <2>7. Keys' /\ RepoIds' = RepoIds \cup {r}
    BY <1>1, <2>1, <2>2, <2>4, <2>5, <2>6, WriteKeys
  <2> QED BY <2>2, <2>7
<1>3. CASE UpdateRepo(t)
  <2> DEFINE r == f.id
             p == PATAfter(repos[r].pat, f.pat, f.clear)
             w == Written(f, p, repos[r].last)
  <2>1. r \in RepoIds /\ r \in Repo /\ repos[r] \in RepoRow
    BY <1>3 DEF UpdateRepo, RepoIds, Keys, RegistryTypeOK
  <2>2. p \in PATs \cup {NoPAT}
    BY <1>1, <2>1, KeptPAT DEF RepoRow, Form
  <2>3. repos[r].last \in Nat
    BY <2>1 DEF RepoRow
  <2> HIDE DEF p
  <2>4. w \in RepoRow /\ w.host = f.host /\ w.path = f.path
    BY <1>1, <2>2, <2>3, NextRow DEF Written
  <2>5. /\ repos' = [repos EXCEPT ![r] = w]
        /\ saves < limit.saves /\ saves' = saves + 1 /\ UNCHANGED <<hosts, limit>>
        /\ ~Clash(r, f.host, f.path)
    BY <1>3 DEF UpdateRepo, p
  <2>6. form' = [s \in Tab |->
       IF s = t THEN NoForm
       ELSE IF form[s] # NoForm /\ form[s].id = r
            THEN [form[s] EXCEPT !.moved = @ \cup Differ(repos[r], repos'[r])]
            ELSE form[s]]
    BY <1>3 DEF UpdateRepo
  <2>7. Differ(repos[r], repos'[r]) \subseteq Columns
    BY DEF Differ
  <2>8. ASSUME NEW s \in Tab
        PROVE  /\ form'[s] \in Form \cup {NoForm}
               /\ form'[s] # NoForm =>
                    form[s] # NoForm /\ form'[s].host = form[s].host /\ form'[s].step = form[s].step
                    /\ form'[s].path = form[s].path /\ form'[s].interval = form[s].interval
    <3>1. CASE s # t /\ form[s] # NoForm /\ form[s].id = r
      <4>1. form[s] \in Form /\ form'[s] = [form[s] EXCEPT !.moved = @ \cup Differ(repos[r], repos'[r])]
        BY <2>6, <3>1 DEF Keys, RegistryTypeOK
      <4> QED BY <2>7, <3>1, <4>1 DEF Form
    <3>2. CASE ~(s # t /\ form[s] # NoForm /\ form[s].id = r)
      BY <2>6, <3>2 DEF Keys, RegistryTypeOK
    <3> QED BY <3>1, <3>2
  <2>9. form' \in [Tab -> Form \cup {NoForm}]
    BY <2>6, <2>8
  <2>10. ~\E q \in RepoIds \ {r} : repos[q].host = w.host /\ repos[q].path = w.path
    BY <2>4, <2>5 DEF Clash
  <2> HIDE DEF w, r
  <2>11. Keys' /\ RepoIds' = RepoIds \cup {r}
    BY <1>1, <2>1, <2>4, <2>5, <2>8, <2>9, <2>10, WriteKeys
  <2> QED BY <2>5, <2>11
<1> QED BY <1>2, <1>3

\* The other steps leave the tables' keys alone: marks and process deaths.
LEMMA MarkKeys ==
  ASSUME Keys, NEW r \in RepoIds, NEW n \in Nat, repos' = [repos EXCEPT ![r].last = n],
         UNCHANGED <<hosts, form, saves, limit>>
  PROVE  Keys' /\ RepoIds' = RepoIds
<1>1. repos[r] \in RepoRow /\ r \in Repo
  BY DEF Keys, RegistryTypeOK, RepoIds
<1>2. /\ repos'[r] \in RepoRow /\ repos'[r] # NoRow
      /\ repos'[r].host = repos[r].host /\ repos'[r].path = repos[r].path
  <2>1. repos'[r] = [repos[r] EXCEPT !.last = n]
    BY <1>1 DEF Keys, RegistryTypeOK
  <2> QED BY <1>1, <2>1, NothingAssumption DEF RepoRow
<1>3. \A q \in Repo \ {r} : repos'[q] = repos[q]
  BY <1>1 DEF Keys, RegistryTypeOK
<1>4. repos' \in [Repo -> RepoRow \cup {NoRow}] /\ RepoIds' = RepoIds
  BY <1>1, <1>2, <1>3 DEF Keys, RegistryTypeOK, RepoIds
<1>5. \A q \in RepoIds : repos'[q].host = repos[q].host /\ repos'[q].path = repos[q].path
  BY <1>2, <1>3 DEF RepoIds
<1>6. RegistryTypeOK'
  BY <1>4 DEF Keys, RegistryTypeOK
<1>7. OneRowEach' /\ HostsThere' /\ PathsParsed'
  BY <1>4, <1>5 DEF Keys, OneRowEach, HostsThere, PathsParsed, HostIds
<1> QED BY <1>4, <1>6, <1>7 DEF Keys

LEMMA CrashKeys == Keys /\ Crash => Keys' /\ UNCHANGED <<hosts, repos>>
<1> SUFFICES ASSUME Keys, Crash PROVE Keys' /\ UNCHANGED <<hosts, repos>>
  OBVIOUS
<1>1. UNCHANGED <<hosts, repos, saves, limit>> /\ form' = [t \in Tab |-> AfterCrash(form[t])]
  BY DEF Crash
<1>2. \A t \in Tab : form'[t] \in {NoForm, form[t]}
  BY <1>1 DEF AfterCrash
<1>3. RegistryTypeOK'
  BY <1>1, <1>2 DEF Keys, RegistryTypeOK
<1>4. OneRowEach' /\ HostsThere' /\ PathsParsed'
  BY <1>1, <1>2 DEF Keys, OneRowEach, HostsThere, PathsParsed, HostIds, RepoIds
<1> QED BY <1>1, <1>3, <1>4 DEF Keys
-----------------------------------------------------------------------------
\* Every variable has its type.

Engine ==
  /\ settings \in PollSettings /\ seen \in PollSettings
  /\ clock \in 0..limit.time /\ round \in 0..clock /\ ticked \in BOOLEAN
  /\ listing \in [Repo -> RepoRow \cup {NoRow}] /\ todo \subseteq Repo
  /\ at \in [Caller -> {"idle", "settings", "next"} \cup Polling]
  /\ held \in [Caller -> Held]
  /\ overtaken \in [Caller -> SUBSET Repo]
  /\ asked \in [Repo -> 0..limit.time]
  /\ faults \in 0..limit.faults
  /\ at["review"] \notin {"settings", "next", "mark"}
Rows ==
  /\ \A c \in Caller : at[c] \in Polling => held[c].repo \in RepoIds
  /\ \A c \in Caller : at[c] \in Polling \ {"mark"} =>
       held[c].row \in RepoRow /\ held[c].row.host \in HostIds
  /\ \A r \in Repo : listing[r] # NoRow => r \in RepoIds /\ listing[r].host \in HostIds
  /\ \A r \in todo : listing[r] # NoRow
  /\ at["poller"] \in {"idle", "settings"} => todo = {}

LEMMA Parts == (TypeOK <=> Keys /\ Engine /\ Rows) /\ (TypeOK <=> Keys /\ Engine /\ Rows)'
BY DEF TypeOK, Keys, Engine, Rows

LEMMA NothingHeld ==
  /\ Nothing \in Held
  /\ \A r \in Repo, w \in RepoRow \cup {NoRow} : [Nothing EXCEPT !.repo = r, !.row = w] \in Held
  /\ \A r \in Repo \cup {NoRow} : [Nothing EXCEPT !.repo = r] \in Held
BY DEF Nothing, Held

LEMMA UnmarkedType == Engine /\ Rows /\ limit.time \in Nat => Unmarked \in [Repo -> 0..limit.time]
<1> SUFFICES ASSUME Engine, Rows, limit.time \in Nat PROVE Unmarked \in [Repo -> 0..limit.time]
  OBVIOUS
<1>1. asked \in [Repo -> 0..limit.time] /\ 0 \in 0..limit.time
  BY DEF Engine
<1>2. CASE at["poller"] \in Polling
  <2>1. Unmarked = [asked EXCEPT ![held["poller"].repo] = 0]
    BY <1>2 DEF Unmarked, Polling
  <2> QED BY <1>1, <2>1
<1>3. CASE at["poller"] \notin Polling
  BY <1>1, <1>3 DEF Unmarked, Polling
<1> QED BY <1>2, <1>3

LEMMA InitTypes == Init => TypeOK
<1> SUFFICES ASSUME Init PROVE TypeOK
  OBVIOUS
<1>1. RegistryTypeOK
  BY StartAssumption, RegistryAssumption DEF Init, RegistryTypeOK
<1>2. OneRowEach /\ HostsThere /\ PathsParsed
  BY <1>1, StartAssumption DEF Init, OneRowEach, HostsThere, PathsParsed, RepoIds, HostIds, RegistryTypeOK, RepoRow
<1>3. limit.time \in Nat /\ limit.faults \in Nat
  BY RegistryAssumption DEF Init
<1>4. Engine
  <2>1. 0 \in 0..limit.time /\ 0 \in 0..0 /\ 0 \in 0..limit.faults
    BY <1>3
  <2>2. asked \in [Repo -> 0..limit.time] /\ held \in [Caller -> Held]
    BY <2>1, NothingHeld DEF Init
  <2>3. listing \in [Repo -> RepoRow \cup {NoRow}] /\ overtaken \in [Caller -> SUBSET Repo]
    BY DEF Init, NoListing
  <2>4. at \in [Caller -> {"idle", "settings", "next"} \cup Polling] /\ at["review"] \notin {"settings", "next", "mark"}
    BY DEF Init, Caller
  <2> QED BY <2>1, <2>2, <2>3, <2>4, PollRoundsAssumption DEF Init, Engine
<1>5. Rows
  BY DEF Init, Rows, NoListing, Polling, Caller
<1> QED BY <1>1, <1>2, <1>4, <1>5, Parts DEF Keys

\* A step that leaves what the poller and the review hold alone, while the
\* tables only grow.
LEMMA EngineStays ==
  ASSUME Engine, Rows, limit' = limit, UNCHANGED <<settings, clock, ticked, plan, at, held, asked, faults>>,
         overtaken' \in [Caller -> SUBSET Repo], RepoIds \subseteq RepoIds', HostIds \subseteq HostIds'
  PROVE  Engine' /\ Rows'
BY DEF Engine, Rows, plan

\* A step of the poller or the review that leaves the keys of the tables alone.
LEMMA TypeStep == TypeOK /\ [Next]_vars => TypeOK'
<1> SUFFICES ASSUME Keys, Engine, Rows, [Next]_vars PROVE Keys' /\ Engine' /\ Rows'
  BY Parts
<1>l. limit.time \in Nat /\ limit.faults \in Nat
  BY RegistryAssumption DEF Keys, RegistryTypeOK
<1>k. UNCHANGED registry => Keys' /\ RepoIds' = RepoIds /\ HostIds' = HostIds /\ limit' = limit
  BY DEF registry, Keys, RegistryTypeOK, OneRowEach, HostsThere, PathsParsed, RepoIds, HostIds
<1> DEFINE Moved == {"idle", "settings", "next"} \cup Polling
<1>1. CASE Save
  <2>1. Keys' /\ RepoIds \subseteq RepoIds' /\ HostIds \subseteq HostIds' /\ limit' = limit
    <3>1. CASE SaveHost
      <4>1. Keys' /\ HostIds \subseteq HostIds'
        BY <3>1, SaveHostKeys
      <4>2. UNCHANGED <<repos, limit>>
        BY <3>1 DEF SaveHost, CreateGitHost, UpdateGitHost
      <4> QED BY <4>1, <4>2 DEF RepoIds
    <3>2. CASE SaveRepo
      <4>1. Keys' /\ RepoIds \subseteq RepoIds' /\ hosts' = hosts
        BY <3>2, SaveRepoKeys
      <4>2. limit' = limit
        BY <3>2 DEF SaveRepo, CreateRepo, UpdateRepo
      <4> QED BY <4>1, <4>2 DEF HostIds
    <3> QED BY <1>1, <3>1, <3>2 DEF Save
  <2>2. \A c \in Caller : Overtakes(c) \subseteq Repo
    <3> SUFFICES ASSUME NEW c \in Caller, NEW r \in Overtakes(c) PROVE r \in Repo
      OBVIOUS
    <3>1. CASE r \in RepoIds
      BY <3>1 DEF RepoIds
    <3>2. CASE r \in {held[c].repo} /\ at[c] \in {"pat", "call"}
      BY <3>2 DEF Rows, Polling, RepoIds
    <3> QED BY <3>1, <3>2 DEF Overtakes
  <2>3. overtaken' \in [Caller -> SUBSET Repo]
    BY <1>1, <2>2 DEF Save, Engine
  <2>4. UNCHANGED <<settings, clock, ticked, plan, at, held, asked, faults>>
    BY <1>1 DEF Save
  <2> QED BY <2>1, <2>3, <2>4, EngineStays
<1>2. CASE VisitPage
  <2>1. Keys' /\ UNCHANGED <<hosts, repos>>
    BY <1>2, BrowseKeys DEF VisitPage
  <2>2. limit' = limit
    BY <1>2 DEF VisitPage, Browse, RepoNew, RepoEdit, Fill, ParseRepoForm, RefuseRepo, LeavePage
  <2>3. UNCHANGED <<settings, clock, ticked, plan, at, held, overtaken, asked, faults>>
    BY <1>2 DEF VisitPage
  <2>4. RepoIds \subseteq RepoIds' /\ HostIds \subseteq HostIds'
    BY <2>1 DEF RepoIds, HostIds
  <2>5. overtaken' \in [Caller -> SUBSET Repo]
    BY <2>3 DEF Engine
  <2> QED BY <2>1, <2>2, <2>3, <2>4, <2>5, EngineStays
<1>3. CASE SaveSettings
  <2>1. UNCHANGED <<hosts, repos, form, limit>> /\ saves' \in 0..limit'.saves
    BY <1>3, RegistryAssumption DEF SaveSettings, Keys, RegistryTypeOK
  <2>2. Keys' /\ RepoIds' = RepoIds /\ HostIds' = HostIds
    BY <2>1 DEF Keys, RegistryTypeOK, OneRowEach, HostsThere, PathsParsed, RepoIds, HostIds
  <2>3. Engine' /\ Rows'
    BY <1>3, <2>1, <2>2 DEF SaveSettings, Engine, Rows, plan
  <2> QED BY <2>2, <2>3
<1>4. CASE Tick
  <2>1. Engine'
    BY <1>k, <1>l, <1>4 DEF Tick, Engine, plan
  <2>2. Rows'
    BY <1>k, <1>4 DEF Tick, Rows, plan
  <2> QED BY <1>k, <1>4, <2>1, <2>2 DEF Tick
<1>5. CASE Crash
  <2>1. Keys' /\ UNCHANGED <<hosts, repos>>
    BY <1>5, CrashKeys
  <2>2. asked' \in [Repo -> 0..limit'.time] /\ faults' \in 0..limit'.faults /\ limit' = limit
    BY <1>5, <1>l, UnmarkedType DEF Crash, Engine
  <2>3. held' \in [Caller -> Held] /\ overtaken' \in [Caller -> SUBSET Repo]
    BY <1>5, NothingHeld DEF Crash
  <2>a. /\ at' \in [Caller -> {"idle", "settings", "next"} \cup Polling]
        /\ at'["review"] \notin {"settings", "next", "mark"}
    BY <1>5 DEF Crash, Caller
  <2>b. listing' \in [Repo -> RepoRow \cup {NoRow}] /\ todo' \subseteq Repo /\ ticked' \in BOOLEAN
        /\ UNCHANGED <<settings, clock, round, seen>>
    BY <1>5 DEF Crash, NoListing
  <2>c. Engine'
    BY <2>2, <2>3, <2>a, <2>b DEF Engine
  <2>4. Rows'
    BY <1>5 DEF Crash, Rows, NoListing, Polling
  <2> QED BY <2>1, <2>c, <2>4
<1>6. CASE StartRound
  <2>1. UNCHANGED registry /\ listing' = repos
    BY <1>6 DEF StartRound
  <2>2. Engine'
    BY <1>k, <1>6 DEF StartRound, Engine, Goes, Keys, RegistryTypeOK, Caller
  <2>3. \A c \in Caller : at'[c] \in Polling => at[c] \in Polling /\ at'[c] = at[c]
    BY <1>6 DEF StartRound, Goes, Engine, Polling
  <2>4. todo' = {}
    BY <1>6 DEF StartRound, Rows
  <2>5. Rows'
    BY <1>k, <1>6, <2>1, <2>3, <2>4 DEF StartRound, Rows, Keys, HostsThere, RepoIds
  <2> QED BY <1>k, <2>1, <2>2, <2>5
<1>7. CASE ReadSettings
  <2>1. UNCHANGED registry
    BY <1>7 DEF ReadSettings
  <2>2. Engine'
    BY <1>k, <1>7 DEF ReadSettings, Engine, Goes, Caller
  <2>3. \A c \in Caller : at'[c] \in Polling => at[c] \in Polling /\ at'[c] = at[c]
    BY <1>7 DEF ReadSettings, Goes, Engine, Polling
  <2>n. at'["poller"] = "next"
    BY <1>7 DEF ReadSettings, Goes, Engine, Caller
  <2>4. Rows'
    BY <1>k, <1>7, <2>3, <2>n DEF ReadSettings, Rows
  <2> QED BY <1>k, <2>1, <2>2, <2>4
<1>8. CASE EndRound
  <2>1. UNCHANGED registry
    BY <1>8 DEF EndRound
  <2>2. Engine'
    BY <1>k, <1>8 DEF EndRound, Engine, Goes, Caller, NoListing
  <2>3. \A c \in Caller : at'[c] \in Polling => at[c] \in Polling /\ at'[c] = at[c]
    BY <1>8 DEF EndRound, Goes, Engine, Polling
  <2>4. Rows'
    BY <1>k, <1>8, <2>3 DEF EndRound, Rows, NoListing
  <2> QED BY <1>k, <2>1, <2>2, <2>4
<1>9. CASE MarkRepoPolled
  <2> DEFINE r == held["poller"].repo
  <2>1. r \in RepoIds /\ round \in Nat
    BY <1>9 DEF MarkRepoPolled, Rows, Caller, Polling, Engine
  <2>2. repos' = [repos EXCEPT ![r].last = round] /\ UNCHANGED <<hosts, form, saves, limit>>
    BY <1>9 DEF MarkRepoPolled
  <2> HIDE DEF r
  <2>3. Keys' /\ RepoIds' = RepoIds /\ HostIds' = HostIds
    BY <2>1, <2>2, MarkKeys DEF HostIds
  <2>4. Engine'
    BY <1>9, <2>2, NothingHeld DEF MarkRepoPolled, Engine, Goes, plan, Caller
  <2>5. \A c \in Caller : at'[c] \in Polling => at[c] \in Polling /\ at'[c] = at[c] /\ held'[c] = held[c]
    BY <1>9 DEF MarkRepoPolled, Goes, Engine, Polling
  <2>n. at'["poller"] = "next"
    BY <1>9 DEF MarkRepoPolled, Goes, Engine, Caller
  <2>6. Rows'
    BY <1>9, <2>3, <2>5, <2>n DEF MarkRepoPolled, Rows, plan
  <2> QED BY <2>3, <2>4, <2>6
<1>10. CASE \E r \in Repo : PollRepo(r)
  <2>1. PICK r \in Repo : PollRepo(r)
    BY <1>10
  <2>2. UNCHANGED registry /\ listing[r] # NoRow /\ listing[r] \in RepoRow
    BY <2>1 DEF PollRepo, Rows, Engine
  <2> DEFINE h == [Nothing EXCEPT !.repo = r, !.row = listing[r]]
  <2>3. h \in Held /\ h.repo = r /\ h.row = listing[r]
    BY <2>2, NothingHeld DEF Nothing
  <2>4. held' = [held EXCEPT !["poller"] = h] /\ at' = [at EXCEPT !["poller"] = "host"]
    BY <2>1 DEF PollRepo, Goes
  <2> HIDE DEF h
  <2>5. Engine'
    BY <1>k, <1>l, <2>1, <2>2, <2>3, <2>4 DEF PollRepo, Engine, Polling, Caller
  <2>6. Rows'
    BY <1>k, <2>1, <2>2, <2>3, <2>4 DEF PollRepo, Engine, Rows, Polling, Caller
  <2> QED BY <1>k, <2>2, <2>5, <2>6
<1>11. CASE \E r \in Repo : FetchRepo(r)
  <2>1. PICK r \in Repo : FetchRepo(r)
    BY <1>11
  <2>2. UNCHANGED registry /\ r \in RepoIds /\ repos[r] \in RepoRow /\ repos[r].host \in HostIds
    BY <2>1 DEF FetchRepo, Keys, RegistryTypeOK, HostsThere, RepoIds
  <2> DEFINE h == [Nothing EXCEPT !.repo = r, !.row = repos[r]]
  <2>3. h \in Held /\ h.repo = r /\ h.row = repos[r]
    BY <2>2, NothingHeld DEF Nothing
  <2>4. held' = [held EXCEPT !["review"] = h] /\ at' = [at EXCEPT !["review"] = "host"]
    BY <2>1 DEF FetchRepo, Goes
  <2> HIDE DEF h
  <2>5. Engine'
    BY <1>k, <2>1, <2>2, <2>3, <2>4 DEF FetchRepo, plan, Engine, Polling, Caller
  <2>6. Rows'
    BY <1>k, <2>1, <2>2, <2>3, <2>4 DEF FetchRepo, plan, Engine, Rows, Polling, Caller
  <2> QED BY <1>k, <2>2, <2>5, <2>6
<1>12. ASSUME NEW c \in Caller, ReadHost(c)
       PROVE  Keys' /\ Engine' /\ Rows'
  <2>1. UNCHANGED registry /\ at[c] = "host"
    BY <1>12 DEF ReadHost
  <2>2. held[c].row.host \in HostIds /\ hosts[held[c].row.host].base \in Base
    BY <2>1 DEF Rows, Polling, HostIds, Keys, RegistryTypeOK, HostRow
  <2> DEFINE h == [held[c] EXCEPT !.base = hosts[held[c].row.host].base]
  <2>3. h \in Held /\ h.repo = held[c].repo /\ h.row = held[c].row
    BY <2>2 DEF Engine, Held
  <2>4. held' = [held EXCEPT ![c] = h] /\ at' = [at EXCEPT ![c] = "pat"]
    BY <1>12 DEF ReadHost, Goes, Engine
  <2> HIDE DEF h
  <2>5. Engine'
    BY <1>k, <1>12, <2>1, <2>3, <2>4 DEF ReadHost, plan, Engine, Polling, Caller
  <2>6. Rows'
    BY <1>k, <1>12, <2>1, <2>3, <2>4 DEF ReadHost, plan, Engine, Rows, Polling
  <2> QED BY <1>k, <2>1, <2>5, <2>6
<1>13. ASSUME NEW c \in Caller, at[c] \in Polling, Through(c), UNCHANGED registry,
              UNCHANGED <<settings, clock, ticked, plan, asked>>, faults' \in 0..limit.faults
       PROVE  Keys' /\ Engine' /\ Rows'
  <2>1. held[c].repo \in RepoIds
    BY <1>13 DEF Rows
  <2> DEFINE h == [Nothing EXCEPT !.repo = held[c].repo]
             a == IF c = "poller" THEN "mark" ELSE "idle"
  <2>2. h \in Held /\ h.repo = held[c].repo
    BY <2>1, NothingHeld DEF RepoIds, Nothing
  <2>3. held' = [held EXCEPT ![c] = h] /\ at' = [at EXCEPT ![c] = a]
    BY <1>13 DEF Through, Goes
  <2>4. overtaken' \in [Caller -> SUBSET Repo]
    BY <1>13 DEF Through, Engine
  <2> HIDE DEF h
  <2>5. Engine'
    BY <1>k, <1>13, <2>2, <2>3, <2>4 DEF plan, Engine, Polling, Caller
  <2>6. Rows'
    BY <1>k, <1>13, <2>1, <2>2, <2>3 DEF plan, Engine, Rows, Polling, Caller
  <2> QED BY <1>k, <1>13, <2>5, <2>6
<1>14. ASSUME NEW c \in Caller, ReadPAT(c)
       PROVE  Keys' /\ Engine' /\ Rows'
  <2>1. at[c] = "pat" /\ UNCHANGED registry /\ UNCHANGED <<settings, clock, ticked, plan, asked, faults>>
    BY <1>14 DEF ReadPAT
  <2>2. CASE Through(c)
    <3>1. at[c] \in Polling /\ faults' \in 0..limit.faults
      BY <2>1 DEF Polling, Engine
    <3> QED BY <1>13, <2>1, <2>2, <3>1
  <2>3. CASE held' = [held EXCEPT ![c].pat = RepoPAT(held[c].repo)] /\ Goes(c, "call") /\ UNCHANGED overtaken
    <3>1. held[c].repo \in RepoIds
      BY <2>1 DEF Rows, Polling
    <3>2. RepoPAT(held[c].repo) \in PATs \cup {NoPAT}
      BY <3>1 DEF RepoPAT, Keys, RegistryTypeOK, HostsThere, RepoIds, HostIds, RepoRow, HostRow
    <3> DEFINE h == [held[c] EXCEPT !.pat = RepoPAT(held[c].repo)]
    <3>3. h \in Held /\ h.repo = held[c].repo /\ h.row = held[c].row
      BY <3>2 DEF Engine, Held
    <3>4. held' = [held EXCEPT ![c] = h] /\ at' = [at EXCEPT ![c] = "call"]
      BY <2>3 DEF Goes, Engine
    <3> HIDE DEF h
    <3>5. Engine'
      BY <1>k, <2>1, <2>3, <3>3, <3>4 DEF plan, Engine, Polling, Caller
    <3>6. Rows'
      BY <1>k, <2>1, <3>3, <3>4 DEF plan, Engine, Rows, Polling
    <3> QED BY <1>k, <2>1, <3>5, <3>6
  <2> QED BY <1>14, <2>2, <2>3 DEF ReadPAT
<1>15. ASSUME NEW c \in Caller, Call(c)
       PROVE  Keys' /\ Engine' /\ Rows'
  <2>1. /\ at[c] \in Polling /\ Through(c) /\ UNCHANGED registry
        /\ UNCHANGED <<settings, clock, ticked, plan, asked>> /\ faults' \in 0..limit.faults
    BY <1>15 DEF Call, Polling, Engine
  <2> QED BY <1>13, <2>1
<1>16. ASSUME NEW c \in Caller, Fail(c)
       PROVE  Keys' /\ Engine' /\ Rows'
  <2>1. UNCHANGED <<registry, settings, clock, ticked, round, todo, seen>> /\ faults' \in 0..limit.faults
    BY <1>16, <1>l DEF Fail, Engine
  <2>2. CASE /\ at[c] = "settings" /\ Goes(c, "idle")
             /\ listing' = NoListing /\ overtaken' = [overtaken EXCEPT ![c] = {}]
             /\ UNCHANGED <<held, asked>>
    <3>1. Engine'
      BY <1>k, <2>1, <2>2 DEF Engine, Goes, NoListing, Caller, Polling
    <3>2. c = "poller" /\ todo = {} /\ todo' = {}
      BY <2>1, <2>2 DEF Engine, Rows, Caller
    <3>3. \A d \in Caller : at'[d] \in Polling => at[d] \in Polling /\ at'[d] = at[d] /\ held'[d] = held[d]
      BY <2>2 DEF Engine, Goes, Polling
    <3>4. Rows'
      BY <1>k, <2>1, <2>2, <3>2, <3>3 DEF Rows, NoListing
    <3> QED BY <1>k, <2>1, <3>1, <3>4
  <2>3. CASE at[c] \in {"host", "pat"} /\ Through(c) /\ UNCHANGED <<listing, asked>>
    <3>1. at[c] \in Polling /\ UNCHANGED <<settings, clock, ticked, plan, asked>>
      BY <2>1, <2>3 DEF Polling, plan
    <3> QED BY <1>13, <2>1, <2>3, <3>1
  <2>4. CASE /\ at[c] = "mark" /\ Goes(c, "next") /\ asked' = Unmarked
             /\ held' = [held EXCEPT ![c] = Nothing] /\ UNCHANGED <<listing, overtaken>>
    <3>1. c = "poller"
      BY <2>4 DEF Engine, Caller
    <3>2. Unmarked \in [Repo -> 0..limit.time]
      BY <1>l, UnmarkedType
    <3>3. Engine'
      BY <1>k, <2>1, <2>4, <3>1, <3>2, NothingHeld DEF Engine, Goes, Caller
    <3>4. Rows'
      BY <1>k, <2>1, <2>4, <3>1 DEF Engine, Rows, Goes, Caller, Polling
    <3> QED BY <1>k, <2>1, <3>3, <3>4
  <2> QED BY <1>16, <2>2, <2>3, <2>4 DEF Fail
<1>17. CASE UNCHANGED vars
  BY <1>k, <1>17 DEF vars, plan, Engine, Rows
<1> QED BY <1>1, <1>2, <1>3, <1>4, <1>5, <1>6, <1>7, <1>8, <1>9, <1>10, <1>11, <1>12, <1>14, <1>15,
           <1>16, <1>17 DEF Next

\* Types and keys: no repo is registered twice, and every repo, page and call
\* finds its host.
THEOREM RegistryTyped == Spec => []TypeOK
BY InitTypes, TypeStep, PTL DEF Spec

-----------------------------------------------------------------------------
\* How far polls are apart.

\* What a step leaves of the rows: no repo goes, and none loses its mark.
Kept == RepoIds \subseteq RepoIds' /\ \A r \in RepoIds : repos'[r].last = repos[r].last

LEMMA RowsKept == Keys /\ (SaveHost \/ SaveRepo \/ UNCHANGED repos) => Kept
<1> SUFFICES ASSUME Keys, SaveHost \/ SaveRepo \/ UNCHANGED repos PROVE Kept
  OBVIOUS
<1>1. CASE UNCHANGED repos
  BY <1>1 DEF Kept, RepoIds
<1>2. CASE SaveHost
  BY <1>2 DEF SaveHost, CreateGitHost, UpdateGitHost, Kept, RepoIds
<1>3. CASE SaveRepo
  <2>1. RepoIds \subseteq RepoIds'
    BY <1>3, SaveRepoKeys
  <2>2. PICK t \in Tab : UpdateRepo(t) \/ \E r \in Repo : CreateRepo(t, r)
    BY <1>3 DEF SaveRepo
  <2>3. CASE \E r \in Repo : CreateRepo(t, r)
    <3>1. PICK r \in Repo : CreateRepo(t, r)
      BY <2>3
    <3>2. repos[r] = NoRow /\ \A q \in Repo \ {r} : repos'[q] = repos[q]
      BY <3>1 DEF CreateRepo, Keys, RegistryTypeOK
    <3> QED BY <2>1, <3>2 DEF Kept, RepoIds
  <2>4. CASE UpdateRepo(t)
    <3> DEFINE r == form[t].id
               w == Written(form[t], PATAfter(repos[r].pat, form[t].pat, form[t].clear), repos[r].last)
    <3>1. r \in RepoIds /\ repos' = [repos EXCEPT ![r] = w]
      BY <2>4 DEF UpdateRepo
    <3>2. w.last = repos[r].last
      BY DEF Written
    <3> HIDE DEF w
    <3>3. \A q \in Repo : repos'[q] = IF q = r THEN w ELSE repos[q]
      BY <3>1 DEF Keys, RegistryTypeOK, RepoIds
    <3> QED BY <2>1, <3>2, <3>3 DEF Kept, RepoIds
  <2> QED BY <2>2, <2>3, <2>4
<1> QED BY <1>1, <1>2, <1>3

\* A step that is neither a round's nor a mark's business.
LEMMA MarksStay ==
  ASSUME MarksFit, Kept, Engine, UNCHANGED <<plan, asked>>,
         held'["poller"].repo = held["poller"].repo,
         \A x \in {"settings", "next"} : at["poller"] = x <=> at'["poller"] = x,
         at["poller"] \in Polling <=> at'["poller"] \in Polling
  PROVE  MarksFit' /\ PollsSpaced
<1>1. \A r : Under(r)' <=> Under(r)
  BY DEF Under
<1>2. MarksFit'
  BY <1>1 DEF MarksFit, Kept, plan
<1> QED BY <1>2 DEF PollsSpaced

LEMMA InitMarks == Init => MarksFit
BY DEF Init, MarksFit, NoListing, Polling, Caller

LEMMA MarkStep == TypeOK /\ MarksFit /\ [Next]_vars => MarksFit' /\ PollsSpaced
<1> SUFFICES ASSUME TypeOK, Keys, Engine, Rows, MarksFit, [Next]_vars PROVE MarksFit' /\ PollsSpaced
  BY Parts
<1>l. limit.time \in Nat
  BY RegistryAssumption DEF Keys, RegistryTypeOK
<1>p. "poller" \in Caller /\ "poller" # "review" /\ Caller = {"poller", "review"}
  BY DEF Caller
<1>1. CASE Save \/ VisitPage \/ SaveSettings \/ Tick \/ UNCHANGED vars
  <2>1. Kept
    <3>1. SaveHost \/ SaveRepo \/ UNCHANGED repos
      BY <1>1, BrowseKeys DEF Save, VisitPage, SaveSettings, Tick, registry, vars
    <3> QED BY <3>1, RowsKept
  <2>2. UNCHANGED <<plan, asked, at, held>>
    BY <1>1 DEF Save, VisitPage, SaveSettings, Tick, vars
  <2> QED BY <2>1, <2>2, MarksStay
<1>2. CASE StartRound
  <2>1. /\ at["poller"] = "idle" /\ at'["poller"] = "settings" /\ listing' = repos
        /\ UNCHANGED <<repos, round, todo, seen, held, asked>>
    BY <1>2, <1>p DEF StartRound, Goes, Engine, registry
  <2>2. \A r : ~Under(r) /\ ~Under(r)'
    BY <2>1 DEF Under, Polling
  <2>3. MarksFit'
    BY <2>1, <2>2 DEF MarksFit, RepoIds, Polling
  <2> QED BY <2>1, <2>3 DEF PollsSpaced
<1>3. CASE ReadSettings
  <2>1. /\ at["poller"] = "settings" /\ at'["poller"] = "next"
        /\ UNCHANGED <<repos, listing, held, asked>>
        /\ seen' = settings /\ round' = clock
        /\ todo' = {r \in Repo : listing[r] # NoRow /\ Due(listing[r], clock, settings)}
    BY <1>3, <1>p DEF ReadSettings, Goes, Engine, registry
  <2>2. \A r : ~Under(r) /\ ~Under(r)'
    BY <2>1 DEF Under, Polling
  <2>3. \A r \in todo' : Due(listing'[r], round', seen') /\ (asked'[r] # 0 => listing'[r].last = asked'[r])
    BY <2>1 DEF MarksFit
  <2>4. MarksFit'
    BY <2>1, <2>2, <2>3 DEF MarksFit, RepoIds, Due, Interval
  <2> QED BY <2>1, <2>4 DEF PollsSpaced
<1>4. CASE EndRound
  <2>1. /\ at["poller"] = "next" /\ at'["poller"] = "idle" /\ UNCHANGED <<repos, round, held, asked>>
    BY <1>4, <1>p DEF EndRound, Goes, Engine, registry
  <2>2. \A r : ~Under(r) /\ ~Under(r)'
    BY <2>1 DEF Under, Polling
  <2>3. MarksFit'
    BY <2>1, <2>2 DEF MarksFit, RepoIds, Polling
  <2> QED BY <2>1, <2>3 DEF PollsSpaced
<1>5. CASE MarkRepoPolled
  <2> DEFINE r == held["poller"].repo
  <2>1. /\ at["poller"] = "mark" /\ at'["poller"] = "next" /\ UNCHANGED <<plan, asked>>
        /\ repos' = [repos EXCEPT ![r].last = round]
    BY <1>5, <1>p DEF MarkRepoPolled, Goes, Engine
  <2>2. r \in RepoIds /\ Under(r) /\ (\A q \in Repo \ {r} : ~Under(q)) /\ \A q : ~Under(q)'
    BY <1>p, <2>1 DEF Rows, Under, Polling
  <2>3. /\ \A q \in Repo \ {r} : repos'[q] = repos[q]
        /\ repos'[r] = [repos[r] EXCEPT !.last = round] /\ repos[r] \in RepoRow
    BY <2>1, <2>2 DEF Keys, RegistryTypeOK, RepoIds
  <2>4. repos'[r].last = round
    BY <2>3 DEF RepoRow
  <2>5. RepoIds' = RepoIds
    <3>1. round \in Nat
      BY <1>l DEF Engine, Keys, RegistryTypeOK
    <3> QED BY <2>1, <2>2, <3>1, MarkKeys, <1>5 DEF MarkRepoPolled
  <2> HIDE DEF r
  <2>6. \A q \in Repo : asked'[q] # 0 => q \in RepoIds' /\ asked'[q] = repos'[q].last
    BY <2>1, <2>2, <2>3, <2>4, <2>5 DEF MarksFit
  <2>7. \A q \in todo' : Due(listing'[q], round', seen') /\ (asked'[q] # 0 => listing'[q].last = asked'[q])
    BY <2>1 DEF MarksFit, Polling, plan
  <2>8. MarksFit'
    BY <2>1, <2>2, <2>6, <2>7 DEF MarksFit
  <2> QED BY <2>1, <2>8 DEF PollsSpaced
<1>6. ASSUME NEW r \in Repo, PollRepo(r)
      PROVE  MarksFit' /\ PollsSpaced
  <2>1. /\ at["poller"] = "next" /\ at'["poller"] = "host" /\ r \in todo /\ todo' = todo \ {r}
        /\ held'["poller"].repo = r /\ UNCHANGED <<repos, listing, round, seen>>
        /\ asked' = [asked EXCEPT ![r] = round]
    BY <1>6, <1>p DEF PollRepo, Goes, Engine, registry, Nothing
  <2>2. (\A q : ~Under(q)) /\ \A q : Under(q)' <=> q = r
    BY <2>1 DEF Under, Polling
  <2>3. asked'[r] = round /\ \A q \in Repo \ {r} : asked'[q] = asked[q]
    BY <2>1 DEF Engine
  <2>4. r \in RepoIds /\ listing[r] \in RepoRow
    BY <2>1 DEF Rows, Engine
  <2>5. MarksFit'
    <3>1. \A q \in Repo : asked'[q] # 0 =>
            q \in RepoIds' /\ asked'[q] = IF Under(q)' THEN round' ELSE repos'[q].last
      BY <2>1, <2>2, <2>3, <2>4 DEF MarksFit, RepoIds
    <3>2. \A q \in todo' : Due(listing'[q], round', seen') /\ ~Under(q)'
                           /\ (asked'[q] # 0 => listing'[q].last = asked'[q])
      BY <2>1, <2>2, <2>3 DEF MarksFit, Engine, Due, Interval
    <3> QED BY <2>1, <3>1, <3>2 DEF MarksFit
  <2>6. PollsSpaced
    <3> SUFFICES ASSUME NEW q \in Repo, asked'[q] # asked[q], asked[q] # 0
                 PROVE  LET own == listing[q].interval IN
                        asked'[q] - asked[q] >= IF own = Blank THEN seen.default
                                                ELSE IF own < seen.min THEN seen.min ELSE own
      BY DEF PollsSpaced
    <3>1. q = r /\ asked'[q] = round
      BY <2>3
    <3>2. Due(listing[r], round, seen) /\ listing[r].last = asked[r]
      BY <2>1, <3>1 DEF MarksFit
    <3>3. round - asked[r] >= Interval(listing[r], seen)
      BY <3>1, <3>2 DEF Due
    <3>4. seen.min <= seen.default /\ seen.min \in Nat /\ seen.default \in Nat
      BY PollRoundsAssumption DEF Engine
    <3>5. Interval(listing[r], seen) = LET own == listing[q].interval IN
             IF own = Blank THEN seen.default ELSE IF own < seen.min THEN seen.min ELSE own
      BY <3>1, <3>4 DEF Interval
    <3> QED BY <3>1, <3>3, <3>5
  <2> QED BY <2>5, <2>6
<1>7. ASSUME NEW c \in Caller,
             \/ (\E r \in Repo : FetchRepo(r)) \/ ReadHost(c) \/ ReadPAT(c) \/ Call(c)
             \/ (Fail(c) /\ at[c] \in {"host", "pat"})
      PROVE  MarksFit' /\ PollsSpaced
  <2>1. UNCHANGED <<repos, asked, plan>>
    BY <1>7 DEF FetchRepo, ReadHost, ReadPAT, Call, Fail, registry, plan
  <2>2. /\ held'["poller"].repo = held["poller"].repo
        /\ at'["poller"] = at["poller"] \/ (at["poller"] \in Polling /\ at'["poller"] \in Polling)
    <3>1. CASE \E r \in Repo : FetchRepo(r)
      BY <1>p, <3>1 DEF FetchRepo, Goes, Engine
    <3>2. CASE Through(c) /\ at[c] \in Polling
      <4>1. CASE c = "poller"
        BY <3>2, <4>1 DEF Through, Goes, Engine, Nothing, Polling
      <4>2. CASE c # "poller"
        BY <3>2, <4>2 DEF Through, Goes, Engine
      <4> QED BY <4>1, <4>2
    <3>3. CASE ReadHost(c)
      BY <1>p, <3>3 DEF ReadHost, Goes, Engine, Held, Polling
    <3>4. CASE ReadPAT(c) /\ ~Through(c)
      BY <1>p, <3>4 DEF ReadPAT, Goes, Engine, Held, Polling
    <3> QED BY <1>7, <3>1, <3>2, <3>3, <3>4 DEF ReadPAT, Call, Fail, Polling
  <2>3. Kept
    BY <2>1, RowsKept
  <2>4. \A x \in {"settings", "next"} : at["poller"] = x <=> at'["poller"] = x
    BY <2>2 DEF Polling
  <2>5. at["poller"] \in Polling <=> at'["poller"] \in Polling
    BY <2>2
  <2> QED BY <2>1, <2>2, <2>3, <2>4, <2>5, MarksStay
<1>8. ASSUME NEW c \in Caller, (Fail(c) /\ at[c] \notin {"host", "pat"}) \/ Crash
      PROVE  MarksFit' /\ PollsSpaced
  <2>1. /\ UNCHANGED <<repos, round, seen>> /\ at'["poller"] \in {"idle", "next"}
        /\ todo' = {} \/ (todo' = todo /\ listing' = listing /\ at["poller"] = "mark")
        /\ asked' = Unmarked
    <3>1. CASE Crash
      BY <1>p, <3>1 DEF Crash
    <3>2. CASE Fail(c) /\ at[c] \notin {"host", "pat"}
      <4>1. UNCHANGED <<repos, round, seen, todo>> /\ at[c] \in {"settings", "mark"}
        BY <3>2 DEF Fail, registry
      <4>2. c = "poller"
        BY <1>p, <4>1 DEF Engine
      <4>3. CASE at[c] = "settings"
        <5>1. asked' = asked /\ at' = [at EXCEPT ![c] = "idle"] /\ todo = {}
          BY <3>2, <4>2, <4>3 DEF Fail, Goes, Rows
        <5> QED BY <4>1, <4>2, <4>3, <5>1 DEF Unmarked, Engine
      <4>4. CASE at[c] = "mark"
        BY <3>2, <4>1, <4>2, <4>4 DEF Fail, Goes, Engine
      <4> QED BY <4>1, <4>3, <4>4
    <3> QED BY <1>8, <3>1, <3>2
  <2>2. \A q : ~Under(q)'
    BY <2>1 DEF Under, Polling
  <2>3. \A q \in Repo : asked'[q] = IF Under(q) THEN 0 ELSE asked[q]
    BY <2>1 DEF Unmarked, Under, Polling, Engine
  <2>4. \A q \in Repo : asked'[q] # 0 => q \in RepoIds' /\ asked'[q] = repos'[q].last
    BY <2>1, <2>3 DEF MarksFit, RepoIds
  <2>5. \A q \in todo' : Due(listing'[q], round', seen') /\ (asked'[q] # 0 => listing'[q].last = asked'[q])
    BY <2>1, <2>3 DEF MarksFit, Polling, Engine, Due, Interval
  <2>6. MarksFit'
    BY <2>1, <2>2, <2>4, <2>5 DEF MarksFit
  <2> QED BY <2>3, <2>6 DEF PollsSpaced
<1> QED BY <1>1, <1>2, <1>3, <1>4, <1>5, <1>6, <1>7, <1>8, <1>p DEF Next

\* Two rounds poll a repo at least its interval and the minimum apart.
THEOREM PollsApart == Spec => SpacedPolls
<1>1. TypeOK /\ MarksFit /\ [Next]_vars => MarksFit' /\ PollsSpaced
  BY MarkStep
<1>2. TypeOK /\ MarksFit /\ [Next]_vars => [PollsSpaced]_vars
  BY <1>1
<1> QED BY InitTypes, TypeStep, InitMarks, <1>1, <1>2, PTL DEF Spec, SpacedPolls

-----------------------------------------------------------------------------
\* What a call is made of.

\* A step that changes no host, and of no repo where it is and its token.
SameRows ==
  /\ hosts' = hosts
  /\ \A r \in RepoIds : repos'[r].host = repos[r].host /\ repos'[r].path = repos[r].path
                        /\ repos'[r].pat = repos[r].pat

LEMMA HeldStays ==
  ASSUME Rows, SameRows, NEW c \in Caller, HeldFits(c), UNCHANGED <<at[c], held[c], overtaken[c]>>
  PROVE  HeldFits(c)'
<1>1. at[c] \in {"host", "pat", "call"} => held[c].repo \in RepoIds
  BY DEF Rows, Polling
<1> QED BY <1>1 DEF HeldFits, SameRows, RepoPAT

LEMMA ListingStays ==
  ASSUME Rows, SameRows, ListingFits, listing' = listing, overtaken'["poller"] = overtaken["poller"]
  PROVE  ListingFits'
BY DEF ListingFits, SameRows, Rows

\* Caller c moves on, away from the tables or with what it has just read.
LEMMA CallerMoves ==
  ASSUME Rows, SameRows, CopiesFit, NEW c \in Caller, HeldFits(c)', listing' = listing,
         \A d \in Caller \ {c} : UNCHANGED <<at[d], held[d], overtaken[d]>>,
         overtaken'["poller"] = overtaken["poller"], at'["poller"] = "idle" => at["poller"] = "idle"
  PROVE  CopiesFit'
<1>1. ListingFits'
  BY ListingStays DEF CopiesFit
<1>2. \A d \in Caller : HeldFits(d)'
  BY HeldStays DEF CopiesFit
<1> QED BY <1>1, <1>2 DEF CopiesFit, NoListing

LEMMA InitCopies == Init => CopiesFit
BY DEF Init, CopiesFit, ListingFits, HeldFits, NoListing, Caller

LEMMA SaveCopies == TypeOK /\ CopiesFit /\ Save => CopiesFit'
<1> SUFFICES ASSUME Keys, Engine, Rows, CopiesFit, Save PROVE CopiesFit'
  BY Parts
<1>1. UNCHANGED <<listing, at, held>> /\ "poller" \in Caller
  BY DEF Save, plan, Caller
<1>2. ASSUME NEW c \in Caller, at[c] # "idle"
      PROVE  overtaken'[c] = overtaken[c] \cup Overtakes(c)
  BY <1>2 DEF Save
<1>3. ASSUME NEW c \in Caller, at[c] # "idle", NEW r \in RepoIds, r \notin overtaken'[c]
      PROVE  r \notin overtaken[c] /\ repos'[r].host = repos[r].host /\ repos'[r].path = repos[r].path
  BY <1>2, <1>3 DEF Overtakes
<1>4. ListingFits'
  <2>1. CASE at["poller"] = "idle"
    BY <1>1, <2>1 DEF CopiesFit, ListingFits, NoListing
  <2>2. CASE at["poller"] # "idle"
    BY <1>1, <1>3, <2>2 DEF CopiesFit, ListingFits, Rows
  <2> QED BY <2>1, <2>2
<1>5. ASSUME NEW c \in Caller
      PROVE  HeldFits(c)'
  <2> DEFINE r == held[c].repo
  <2>1. CASE at[c] \notin {"host", "pat", "call"}
    BY <1>1, <2>1 DEF HeldFits
  <2>2. CASE at[c] \in {"host", "pat", "call"}
    <3> SUFFICES ASSUME r \notin overtaken'[c] PROVE HeldFits(c)'
      BY <1>1 DEF HeldFits
    <3>1. r \in RepoIds /\ at[c] # "idle"
      BY <2>2 DEF Rows, Polling
    <3>2. r \notin overtaken[c] /\ repos'[r].host = repos[r].host /\ repos'[r].path = repos[r].path
      BY <1>3, <3>1
    <3>3. r \notin Overtakes(c)
      BY <1>2, <3>1
    <3>4. /\ at[c] \in {"pat", "call"} => hosts'[held[c].row.host].base = hosts[held[c].row.host].base
          /\ at[c] = "call" => RepoPAT(r)' = RepoPAT(r)
      BY <1>1, <3>3 DEF Overtakes, RepoPAT
    <3> QED BY <1>1, <3>2, <3>4 DEF CopiesFit, HeldFits
  <2> QED BY <2>1, <2>2
<1> QED BY <1>1, <1>4, <1>5 DEF CopiesFit, NoListing

LEMMA ThroughCopies ==
  ASSUME TypeOK, CopiesFit, NEW c \in Caller, Through(c), SameRows, listing' = listing, at[c] \in Polling
  PROVE  CopiesFit'
<1> USE Parts
<1>1. \A d \in Caller \ {c} : UNCHANGED <<at[d], held[d], overtaken[d]>>
  BY DEF Through, Goes, Engine
<1>2. /\ overtaken'["poller"] = overtaken["poller"] /\ at'[c] \in {"mark", "idle"}
      /\ at'["poller"] = "idle" => at["poller"] = "idle"
  BY DEF Through, Goes, Engine, Caller
<1>3. HeldFits(c)'
  BY <1>2 DEF HeldFits
<1> QED BY <1>1, <1>2, <1>3, CallerMoves

LEMMA CopyStep == TypeOK /\ CopiesFit /\ [Next]_vars => CopiesFit'
<1> SUFFICES ASSUME TypeOK, Keys, Engine, Rows, CopiesFit, [Next]_vars PROVE CopiesFit'
  BY Parts
<1>p. "poller" \in Caller /\ "review" \in Caller /\ Caller = {"poller", "review"} /\ "poller" # "review"
  BY DEF Caller
<1>s. UNCHANGED <<hosts, repos>> => SameRows
  BY DEF SameRows
<1>1. CASE Save
  BY <1>1, SaveCopies
<1>2. CASE VisitPage \/ SaveSettings \/ Tick \/ UNCHANGED vars
  <2>1. UNCHANGED <<hosts, repos>>
    BY <1>2, BrowseKeys DEF VisitPage, SaveSettings, Tick, registry, vars
  <2>2. UNCHANGED <<listing, at, held, overtaken>>
    BY <1>2 DEF VisitPage, SaveSettings, Tick, plan, vars
  <2>3. \A c \in Caller : HeldFits(c)'
    BY <1>s, <2>1, <2>2, HeldStays DEF CopiesFit
  <2> QED BY <1>p, <1>s, <2>1, <2>2, <2>3, CallerMoves
<1>3. CASE StartRound
  <2>1. /\ SameRows /\ listing' = repos /\ repos' = repos /\ at'["poller"] = "settings"
        /\ UNCHANGED <<held, overtaken, at["review"]>>
    BY <1>3, <1>p, <1>s DEF StartRound, Goes, Engine, registry
  <2>2. ListingFits'
    BY <2>1 DEF ListingFits
  <2>3. HeldFits("review")'
    BY <1>p, <2>1, HeldStays DEF CopiesFit
  <2>4. HeldFits("poller")'
    BY <2>1 DEF HeldFits
  <2> QED BY <1>p, <2>1, <2>2, <2>3, <2>4 DEF CopiesFit
<1>4. CASE ReadSettings
  <2>1. /\ SameRows /\ listing' = listing /\ at'["poller"] = "next"
        /\ UNCHANGED <<held, overtaken, at["review"]>>
    BY <1>4, <1>p, <1>s DEF ReadSettings, Goes, Engine, registry
  <2>2. HeldFits("poller")'
    BY <2>1 DEF HeldFits
  <2> QED BY <1>p, <2>1, <2>2, CallerMoves
<1>5. ASSUME SameRows, listing' = NoListing, at'["poller"] = "idle",
             UNCHANGED <<held["review"], overtaken["review"], at["review"]>>
      PROVE  CopiesFit'
  <2>1. ListingFits' /\ NoListing' = NoListing
    BY <1>5 DEF ListingFits, NoListing
  <2>2. HeldFits("review")'
    BY <1>5, <1>p, HeldStays DEF CopiesFit
  <2>3. HeldFits("poller")'
    BY <1>5 DEF HeldFits
  <2> QED BY <1>5, <1>p, <2>1, <2>2, <2>3 DEF CopiesFit
<1>6. CASE EndRound
  BY <1>5, <1>6, <1>p, <1>s DEF EndRound, Goes, Engine, registry
<1>7. CASE MarkRepoPolled
  <2>1. held["poller"].repo \in RepoIds /\ repos' = [repos EXCEPT ![held["poller"].repo].last = round]
    BY <1>7, <1>p DEF MarkRepoPolled, Rows, Polling
  <2>2. SameRows
    BY <1>7, <2>1 DEF MarkRepoPolled, SameRows, RepoIds, Keys, RegistryTypeOK, RepoRow
  <2>3. /\ listing' = listing /\ at'["poller"] = "next" /\ UNCHANGED <<overtaken, held["review"], at["review"]>>
    BY <1>7, <1>p DEF MarkRepoPolled, Goes, Engine, plan
  <2>4. HeldFits("poller")'
    BY <2>3 DEF HeldFits
  <2> QED BY <1>p, <2>2, <2>3, <2>4, CallerMoves
<1>8. ASSUME NEW r \in Repo, PollRepo(r)
      PROVE  CopiesFit'
  <2>1. /\ SameRows /\ repos' = repos /\ listing' = listing /\ at'["poller"] = "host" /\ at["poller"] = "next"
        /\ r \in todo /\ held'["poller"] = [Nothing EXCEPT !.repo = r, !.row = listing[r]]
        /\ UNCHANGED <<overtaken, held["review"], at["review"]>>
    BY <1>8, <1>p, <1>s DEF PollRepo, Goes, Engine, registry
  <2>2. held'["poller"].repo = r /\ held'["poller"].row = listing[r] /\ listing[r] # NoRow
    BY <2>1 DEF Nothing, Rows
  <2>3. HeldFits("poller")'
    BY <2>1, <2>2 DEF HeldFits, CopiesFit, ListingFits
  <2> QED BY <1>p, <2>1, <2>3, CallerMoves
<1>9. ASSUME NEW r \in Repo, FetchRepo(r)
      PROVE  CopiesFit'
  <2>1. /\ SameRows /\ repos' = repos /\ listing' = listing /\ at'["review"] = "host"
        /\ held'["review"] = [Nothing EXCEPT !.repo = r, !.row = repos[r]]
        /\ UNCHANGED <<overtaken, held["poller"], at["poller"]>>
    BY <1>9, <1>p, <1>s DEF FetchRepo, plan, Goes, Engine, registry
  <2>2. held'["review"].repo = r /\ held'["review"].row = repos[r]
    BY <2>1 DEF Nothing
  <2>3. HeldFits("review")'
    BY <2>1, <2>2 DEF HeldFits
  <2> QED BY <1>p, <2>1, <2>3, CallerMoves
<1>10. ASSUME NEW c \in Caller, ReadHost(c)
       PROVE  CopiesFit'
  <2> DEFINE h == [held[c] EXCEPT !.base = hosts[held[c].row.host].base]
  <2>1. /\ SameRows /\ hosts' = hosts /\ repos' = repos /\ listing' = listing /\ at[c] = "host" /\ at'[c] = "pat"
        /\ held' = [held EXCEPT ![c] = h] /\ overtaken' = overtaken
        /\ \A d \in Caller \ {c} : at'[d] = at[d]
    BY <1>10, <1>s DEF ReadHost, plan, Goes, Engine, registry
  <2>2. h.repo = held[c].repo /\ h.row = held[c].row /\ h.base = hosts[held[c].row.host].base
    BY DEF Engine, Held
  <2> HIDE DEF h
  <2>3. held'[c] = h /\ \A d \in Caller \ {c} : held'[d] = held[d]
    BY <2>1 DEF Engine
  <2>4. HeldFits(c)'
    BY <2>1, <2>2, <2>3 DEF HeldFits, CopiesFit
  <2>5. at'["poller"] = "idle" => at["poller"] = "idle"
    BY <1>p, <2>1
  <2>6. \A d \in Caller \ {c} : UNCHANGED <<at[d], held[d], overtaken[d]>>
    BY <2>1, <2>3
  <2>7. overtaken'["poller"] = overtaken["poller"]
    BY <2>1
  <2> QED BY <2>1, <2>4, <2>5, <2>6, <2>7, CallerMoves
<1>11. ASSUME NEW c \in Caller, ReadPAT(c)
       PROVE  CopiesFit'
  <2>1. SameRows /\ hosts' = hosts /\ repos' = repos /\ listing' = listing /\ at[c] = "pat" /\ at[c] \in Polling
    BY <1>11, <1>s DEF ReadPAT, plan, registry, Polling
  <2>2. CASE Through(c)
    BY <2>1, <2>2, ThroughCopies
  <2>3. CASE held' = [held EXCEPT ![c].pat = RepoPAT(held[c].repo)] /\ Goes(c, "call") /\ UNCHANGED overtaken
    <3> DEFINE h == [held[c] EXCEPT !.pat = RepoPAT(held[c].repo)]
    <3>1. /\ held' = [held EXCEPT ![c] = h] /\ at'[c] = "call" /\ \A d \in Caller \ {c} : at'[d] = at[d]
      BY <2>3 DEF Goes, Engine
    <3>2. /\ h.repo = held[c].repo /\ h.row = held[c].row /\ h.base = held[c].base
          /\ h.pat = RepoPAT(held[c].repo)
      BY DEF Engine, Held
    <3> HIDE DEF h
    <3>3. held'[c] = h /\ \A d \in Caller \ {c} : held'[d] = held[d]
      BY <3>1 DEF Engine
    <3>4. RepoPAT(held[c].repo)' = RepoPAT(h.repo)
      BY <2>1, <3>2, <3>3 DEF RepoPAT
    <3>5. HeldFits(c)'
      BY <2>1, <2>3, <3>1, <3>2, <3>3, <3>4 DEF HeldFits, CopiesFit
    <3>6. at'["poller"] = "idle" => at["poller"] = "idle"
      BY <1>p, <3>1
    <3>7. \A d \in Caller \ {c} : UNCHANGED <<at[d], held[d], overtaken[d]>>
      BY <2>3, <3>1, <3>3
    <3>8. overtaken'["poller"] = overtaken["poller"]
      BY <2>3
    <3> QED BY <2>1, <3>5, <3>6, <3>7, <3>8, CallerMoves
  <2> QED BY <1>11, <2>2, <2>3 DEF ReadPAT
<1>12. ASSUME NEW c \in Caller, Call(c)
       PROVE  CopiesFit'
  BY <1>12, <1>s, ThroughCopies DEF Call, plan, registry, Polling
<1>13. ASSUME NEW c \in Caller, Fail(c)
       PROVE  CopiesFit'
  <2>1. UNCHANGED <<hosts, repos>>
    BY <1>13 DEF Fail, registry
  <2>2. CASE at[c] = "settings"
    <3>1. c = "poller"
      BY <1>p, <2>2 DEF Engine
    <3> QED BY <1>5, <1>13, <1>p, <1>s, <2>1, <2>2, <3>1 DEF Fail, Goes, Engine
  <2>3. CASE at[c] \in {"host", "pat"}
    BY <1>13, <1>s, <2>1, <2>3, ThroughCopies DEF Fail, Polling
  <2>4. CASE at[c] = "mark"
    <3>1. c = "poller"
      BY <1>p, <2>4 DEF Engine
    <3>2. /\ listing' = listing /\ at'["poller"] = "next"
          /\ UNCHANGED <<overtaken, held["review"], at["review"]>>
      BY <1>13, <1>p, <2>4, <3>1 DEF Fail, Goes, Engine
    <3>3. HeldFits("poller")'
      BY <3>2 DEF HeldFits
    <3> QED BY <1>p, <1>s, <2>1, <3>2, <3>3, CallerMoves
  <2> QED BY <1>13, <2>2, <2>3, <2>4 DEF Fail
<1>14. CASE Crash
  <2>1. \A c \in Caller : HeldFits(c)'
    BY <1>14 DEF Crash, HeldFits
  <2>2. ListingFits' /\ listing' = NoListing'
    BY <1>14 DEF Crash, ListingFits, NoListing
  <2> QED BY <2>1, <2>2 DEF CopiesFit
<1> QED BY <1>1, <1>2, <1>3, <1>4, <1>6, <1>7, <1>8, <1>9, <1>10, <1>11, <1>12, <1>13, <1>14 DEF Next

\* Base, name and token of a call belong together, unless a save overtook it.
THEOREM CallsTogether == Spec => []CallsFit
<1>1. TypeOK /\ CopiesFit => CallsFit
  BY DEF CopiesFit, HeldFits, CallsFit, RepoPAT
<1> QED BY InitTypes, TypeStep, InitCopies, CopyStep, <1>1, PTL DEF Spec

-----------------------------------------------------------------------------
\* What a page can change.

LEMMA FilledFits ==
  ASSUME NEW f \in Form, PageFits(f), f.step = "shown", NEW g \in Filled(f)
  PROVE  PageFits(g)
<1> USE DEF PageFits, Known, Form
<1>1. CASE \E h \in HostIds : g = [f EXCEPT !.host = h, !.touched = @ \cup {"host"}]
  BY <1>1
<1>2. CASE \E u \in Urls : g = [f EXCEPT !.url = u, !.touched = @ \cup {"path"}]
  BY <1>2
<1>3. CASE g = [f EXCEPT !.enabled = ~@, !.touched = @ \cup {"enabled"}]
  BY <1>3
<1>4. CASE \E i \in Intervals \cup {Blank, Bad} : g = [f EXCEPT !.interval = i, !.touched = @ \cup {"interval"}]
  BY <1>4
<1>5. CASE g = [f EXCEPT !.own = ~@, !.touched = @ \cup {"own"}]
  BY <1>5
<1>6. CASE \E p \in RepoPATs : g = [f EXCEPT !.pat = p, !.touched = @ \cup {"pat"}]
  BY <1>6
<1>7. CASE g = [f EXCEPT !.clear = TRUE, !.touched = @ \cup {"pat"}]
  BY <1>7
<1> QED BY <1>1, <1>2, <1>3, <1>4, <1>5, <1>6, <1>7 DEF Filled

LEMMA ShownAgainFits ==
  ASSUME NEW f \in Form, PageFits(f), f.id # NoRow
  PROVE  /\ f.step = "shown" => PageFits(Rejected(f))
         /\ PageFits(Refused(f))
<1> USE DEF PageFits, Known, Form
<1>1. f.step = "shown" => PageFits(Rejected(f))
  BY DEF Rejected, Unread
<1>2. PageFits(Refused(f))
  BY DEF Refused, Unread
<1> QED BY <1>1, <1>2

\* Page t shows f now.
LEMMA PageChanges ==
  ASSUME Keys, PagesFit, UNCHANGED repos, NEW t \in Tab, NEW f, form' = [form EXCEPT ![t] = f],
         f # NoForm => /\ f.step = "parsed" => Bare[f.path[2]] = f.path[2]
                       /\ f.id # NoRow => f.id \in RepoIds /\ PageFits(f)
  PROVE  PagesFit'
<1>1. \A s \in Tab : form'[s] = IF s = t THEN f ELSE form[s]
  BY DEF Keys, RegistryTypeOK
<1>2. RepoIds' = RepoIds /\ \A g : PageFits(g)' <=> PageFits(g)
  BY DEF RepoIds, PageFits
<1> QED BY <1>1, <1>2 DEF PagesFit, PageFits

LEMMA BrowsePages == Keys /\ PagesFit /\ Browse => PagesFit'
<1> SUFFICES ASSUME Keys, PagesFit, NEW t \in Tab,
                    \/ RepoNew(t) \/ (\E r \in Repo : RepoEdit(t, r))
                    \/ Fill(t) \/ ParseRepoForm(t) \/ RefuseRepo(t) \/ LeavePage(t)
             PROVE  PagesFit'
  BY DEF Browse
<1>0. UNCHANGED <<hosts, repos>>
  BY DEF RepoNew, RepoEdit, Fill, ParseRepoForm, RefuseRepo, LeavePage
<1> DEFINE f == form[t]
<1>t. f # NoForm => f \in Form /\ f.host \in HostIds
  BY DEF Keys, RegistryTypeOK, HostsThere
<1>f. f # NoForm /\ f.id # NoRow => f.id \in RepoIds /\ PageFits(f)
  BY DEF PagesFit
<1>1. CASE RepoNew(t)
  <2>1. PICK h \in HostIds : form' = [form EXCEPT ![t] =
         [id |-> NoRow, step |-> "shown", host |-> h, url |-> NoUrl, enabled |-> TRUE,
          interval |-> Blank, own |-> FALSE, pat |-> NoPAT, clear |-> FALSE, path |-> NoPath,
          touched |-> {}, lost |-> {}, moved |-> {}]]
    BY <1>1 DEF RepoNew
  <2> DEFINE g == [id |-> NoRow, step |-> "shown", host |-> h, url |-> NoUrl, enabled |-> TRUE,
          interval |-> Blank, own |-> FALSE, pat |-> NoPAT, clear |-> FALSE, path |-> NoPath,
          touched |-> {}, lost |-> {}, moved |-> {}]
  <2>2. form' = [form EXCEPT ![t] = g] /\ g.id = NoRow /\ g.step = "shown"
    BY <2>1
  <2> HIDE DEF g
  <2> QED BY <1>0, <2>2, PageChanges
<1>2. CASE \E r \in Repo : RepoEdit(t, r)
  <2>1. PICK r \in Repo : RepoEdit(t, r)
    BY <1>2
  <2> DEFINE row == repos[r]
             url == FormatRepoURL(hosts[row.host].base, row.path)
             g == [id |-> r, step |-> "shown", host |-> row.host,
        url |-> url,
        enabled |-> row.enabled, interval |-> row.interval, own |-> row.own,
        pat |-> NoPAT, clear |-> FALSE, path |-> NoPath,
        touched |-> {}, lost |-> {}, moved |-> {}]
  <2>2. r \in RepoIds /\ form' = [form EXCEPT ![t] = g]
    BY <2>1 DEF RepoEdit
  <2>3. hosts[row.host].base \in Base /\ row.path \in Path
    BY <2>2 DEF Keys, RegistryTypeOK, HostsThere, RepoIds, HostIds, RepoRow, HostRow
  <2>4. LET n == Len(url.path) IN n >= 2 /\ url.path[n - 1] = row.path[1] /\ url.path[n] = row.path[2]
    BY <2>3, FormattedUrl
  <2> HIDE DEF url
  <2>5. PageFits(g)
    BY <2>4 DEF PageFits, Known
  <2>6. g.id = r /\ g.step = "shown"
    OBVIOUS
  <2> HIDE DEF g
  <2> QED BY <1>0, <2>2, <2>5, <2>6, PageChanges
<1>3. CASE Fill(t)
  <2>1. PICK g \in Filled(f) : form' = [form EXCEPT ![t] = g]
    BY <1>3 DEF Fill
  <2>2. f \in Form /\ f.step = "shown" /\ g.step = "shown" /\ g.id = f.id
    BY <1>3, <1>t, PagesTyped DEF Fill
  <2>3. f # NoForm
    BY <1>3 DEF Fill
  <2>4. g.id # NoRow => g.id \in RepoIds /\ PageFits(g)
    BY <1>f, <2>2, <2>3, FilledFits
  <2> HIDE DEF f
  <2> QED BY <1>0, <2>1, <2>2, <2>4, PageChanges
<1>4. CASE ParseRepoForm(t)
  <2> DEFINE p == ParseRepoURL(f.url, hosts[f.host].base)
             g == IF p = NoPath \/ f.interval = Bad THEN Rejected(f)
                  ELSE [f EXCEPT !.step = "parsed", !.path = p]
  <2>1. f # NoForm /\ f \in Form /\ f.step = "shown" /\ form' = [form EXCEPT ![t] = g]
    BY <1>t, <1>4 DEF ParseRepoForm
  <2>2. f.url \in Url /\ hosts[f.host].base \in Base
    BY <1>t, <2>1 DEF Form, Keys, RegistryTypeOK, HostIds, HostRow
  <2>3. CASE p = NoPath \/ f.interval = Bad
    <3>1. g = Rejected(f) /\ Rejected(f).step = "shown" /\ Rejected(f).id = f.id
      BY <2>1, <2>3 DEF Rejected, Unread, Form
    <3>2. g.id # NoRow => g.id \in RepoIds /\ PageFits(g)
      BY <1>f, <2>1, <3>1, ShownAgainFits
    <3> HIDE DEF g
    <3> QED BY <1>0, <2>1, <3>1, <3>2, PageChanges
  <2>4. CASE ~(p = NoPath \/ f.interval = Bad)
    <3>1. g = [f EXCEPT !.step = "parsed", !.path = p]
      BY <2>4
    <3>2. LET n == Len(f.url.path) IN p = <<f.url.path[n - 1], Bare[f.url.path[n]]>> /\ f.url.path[n] \in Segment
      <4>1. Len(f.url.path) >= 2 /\ f.url.path \in Seq(Segment)
        BY <2>2, <2>4, ParsedPath DEF Url
      <4> QED BY <2>2, <2>4, <4>1, ParsedPath
    <3> HIDE DEF p
    <3>3. Bare[p[2]] = p[2]
      BY <3>2, RegistryAssumption
    <3>4. ASSUME f.id # NoRow PROVE PageFits(g)
      <4>1. f.id \in RepoIds /\ PageFits(f) /\ Bare[repos[f.id].path[2]] = repos[f.id].path[2]
        BY <1>f, <2>1, <3>4 DEF PagesFit
      <4>2. repos[f.id].path = <<repos[f.id].path[1], repos[f.id].path[2]>>
        BY <4>1 DEF Keys, RegistryTypeOK, RepoIds, RepoRow, Path
      <4>3. "path" \notin Known(f) => p = repos[f.id].path
        BY <3>2, <4>1, <4>2 DEF PageFits
      <4>4. /\ g.host = f.host /\ g.enabled = f.enabled /\ g.interval = f.interval /\ g.own = f.own
            /\ g.pat = f.pat /\ g.clear = f.clear /\ g.url = f.url /\ g.path = p
            /\ g.id = f.id /\ Known(g) = Known(f)
        BY <2>1, <3>1, ZenonT(40) DEF Known, Form
      <4> HIDE DEF g, f
      <4> QED BY <4>1, <4>3, <4>4 DEF PageFits
    <3>5. g.id = f.id /\ g.path = p
      BY <2>1, <3>1 DEF Form
    <3>6. g.id # NoRow => g.id \in RepoIds /\ PageFits(g)
      BY <1>f, <2>1, <3>4, <3>5
    <3> HIDE DEF g
    <3> QED BY <1>0, <2>1, <3>3, <3>5, <3>6, PageChanges
  <2> QED BY <2>3, <2>4
<1>5. CASE RefuseRepo(t)
  <2>1. f # NoForm /\ f \in Form /\ form' = [form EXCEPT ![t] = Refused(f)]
    BY <1>t, <1>5 DEF RefuseRepo
  <2>2. Refused(f).step = "shown" /\ Refused(f).id = f.id
    BY <2>1 DEF Refused, Unread, Form
  <2>3. Refused(f).id # NoRow => Refused(f).id \in RepoIds /\ PageFits(Refused(f))
    BY <1>f, <2>1, <2>2, ShownAgainFits
  <2> HIDE DEF f
  <2> QED BY <1>0, <2>1, <2>2, <2>3, PageChanges
<1>6. CASE LeavePage(t)
  BY <1>0, <1>6, PageChanges DEF LeavePage
<1> QED BY <1>1, <1>2, <1>3, <1>4, <1>5, <1>6

\* A page beside a row that is written differs in no more than the save says.
LEMMA MovedFits ==
  ASSUME NEW f \in Form, PageFits(f), NEW w, repos' = [repos EXCEPT ![f.id] = w],
         repos \in [Repo -> RepoRow \cup {NoRow}], f.id \in Repo,
         NEW g, g = [f EXCEPT !.moved = @ \cup Differ(repos[f.id], w)]
  PROVE  PageFits(g)'
<1>1. /\ g.host = f.host /\ g.enabled = f.enabled /\ g.interval = f.interval /\ g.own = f.own
      /\ g.pat = f.pat /\ g.clear = f.clear /\ g.url = f.url /\ g.step = f.step /\ g.path = f.path
      /\ g.id = f.id /\ Known(g) = Known(f) \cup Differ(repos[f.id], w)
  BY DEF Form, Known
<1>2. repos'[f.id] = w
  OBVIOUS
<1>3. \A c \in Columns : w[c] # repos[f.id][c] => c \in Known(g)
  BY <1>1 DEF Differ
<1>4. /\ w.host # repos[f.id].host => "host" \in Known(g)
      /\ w.enabled # repos[f.id].enabled => "enabled" \in Known(g)
      /\ w.interval # repos[f.id].interval => "interval" \in Known(g)
      /\ w.own # repos[f.id].own => "own" \in Known(g)
      /\ w.path # repos[f.id].path => "path" \in Known(g)
  BY <1>3 DEF Columns
<1>5. Known(f) \subseteq Known(g)
  BY <1>1
<1> QED BY <1>1, <1>2, <1>4, <1>5 DEF PageFits

\* The rows of other repos stay, and no page is closed: nothing is written.
LEMMA NothingWritten ==
  ASSUME \A t \in Tab : form[t] # NoForm /\ form[t].id \in RepoIds /\ form'[t] = NoForm
           => repos'[form[t].id] = repos[form[t].id]
  PROVE  OnlyWhatWasTouched
BY DEF OnlyWhatWasTouched, Differ

LEMMA CreatePages ==
  ASSUME Keys, PagesFit, NEW t \in Tab, NEW r \in Repo, CreateRepo(t, r)
  PROVE  PagesFit' /\ OnlyWhatWasTouched
<1> DEFINE f == form[t]  w == Written(f, f.pat, 0)
<1>1. f # NoForm /\ f.step = "parsed" /\ f.id = NoRow /\ repos[r] = NoRow
  BY DEF CreateRepo
<1>2. w.path = f.path
  BY DEF Written
<1> HIDE DEF w
<1>3. /\ \A q \in Repo : repos'[q] = IF q = r THEN w ELSE repos[q]
      /\ \A s \in Tab : form'[s] = IF s = t THEN NoForm ELSE form[s]
  BY DEF CreateRepo, Keys, RegistryTypeOK, w
<1>4. RepoIds \subseteq RepoIds' /\ \A q \in RepoIds : repos'[q] = repos[q]
  <2>1. \A q \in RepoIds : q \in Repo /\ q # r
    BY <1>1 DEF RepoIds
  <2> QED BY <1>3, <2>1 DEF RepoIds
<1>5. \A q \in RepoIds' : Bare[repos'[q].path[2]] = repos'[q].path[2]
  BY <1>1, <1>2, <1>3 DEF PagesFit, RepoIds
<1>6. \A g : g.id \in RepoIds => (PageFits(g)' <=> PageFits(g))
  BY <1>4 DEF PageFits
<1>7. PagesFit'
  BY <1>3, <1>4, <1>5, <1>6 DEF PagesFit
<1>8. OnlyWhatWasTouched
  BY <1>4, NothingWritten
<1> QED BY <1>7, <1>8

LEMMA UpdatePages ==
  ASSUME Keys, PagesFit, NEW t \in Tab, UpdateRepo(t)
  PROVE  PagesFit' /\ OnlyWhatWasTouched
<1> DEFINE f == form[t]
           r == f.id
           p == PATAfter(repos[r].pat, f.pat, f.clear)
           w == Written(f, p, repos[r].last)
<1>1. f # NoForm /\ f.step = "parsed" /\ r \in RepoIds /\ r \in Repo /\ f \in Form /\ repos[r] \in RepoRow
  BY DEF UpdateRepo, Keys, RegistryTypeOK, RepoIds
<1>2. PageFits(f) /\ Bare[f.path[2]] = f.path[2] /\ r # NoRow
  BY <1>1, NothingAssumption DEF PagesFit, RepoIds
<1>3. /\ w.host = f.host /\ w.path = f.path /\ w.enabled = f.enabled /\ w.interval = f.interval
      /\ w.own = f.own /\ w.pat = p
  BY DEF Written
<1>4. repos' = [repos EXCEPT ![r] = w] /\ repos \in [Repo -> RepoRow \cup {NoRow}]
  BY DEF UpdateRepo, Keys, RegistryTypeOK
<1>5. \A s \in Tab : form'[s] =
       IF s = t THEN NoForm
       ELSE IF form[s] # NoForm /\ form[s].id = r
            THEN [form[s] EXCEPT !.moved = @ \cup Differ(repos[r], repos'[r])]
            ELSE form[s]
  BY DEF UpdateRepo
<1> HIDE DEF w
<1>6. \A q \in Repo : repos'[q] = IF q = r THEN w ELSE repos[q]
  BY <1>4
<1>7. w # NoRow
  <2>1. p \in PATs \cup {NoPAT} /\ repos[r].last \in Nat
    BY <1>1, KeptPAT DEF RepoRow, Form
  <2>2. f.path \in Path /\ f.interval # Bad
    BY <1>1 DEF Keys, PathsParsed
  <2> HIDE DEF p
  <2> QED BY <1>1, <2>1, <2>2, NextRow, NothingAssumption DEF w
<1>8. RepoIds' = RepoIds
  BY <1>1, <1>6, <1>7 DEF RepoIds
<1>9. \A q \in RepoIds : Bare[repos'[q].path[2]] = repos'[q].path[2]
  BY <1>2, <1>3, <1>6 DEF PagesFit, RepoIds
<1>10. ASSUME NEW s \in Tab, form'[s] # NoForm
       PROVE  /\ form'[s].step = "parsed" => Bare[form'[s].path[2]] = form'[s].path[2]
              /\ form'[s].id # NoRow => form'[s].id \in RepoIds' /\ PageFits(form[s])'
  <2>1. s # t
    BY <1>5, <1>10
  <2>2. CASE form[s] # NoForm /\ form[s].id = r
    <3> DEFINE g == form'[s]  e == form[s]
    <3>1. e \in Form /\ PageFits(e)
      BY <1>2, <2>2 DEF PagesFit, Keys, RegistryTypeOK
    <3>2. g = [e EXCEPT !.moved = @ \cup Differ(repos[e.id], w)]
      BY <1>1, <1>5, <1>6, <2>1, <2>2
    <3>3. g.id = r /\ g.step = e.step /\ g.path = e.path
      BY <2>2, <3>1, <3>2 DEF Form
    <3>4. \A x : x = [e EXCEPT !.moved = @ \cup Differ(repos[e.id], w)] => PageFits(x)'
      <4> HIDE DEF e, r
      <4> QED BY <1>1, <1>4, <2>2, <3>1, MovedFits DEF e
    <3>5. PageFits(form[s])'
      BY <3>2, <3>4
    <3> QED BY <1>1, <1>8, <2>2, <3>3, <3>5 DEF PagesFit
  <2>3. CASE ~(form[s] # NoForm /\ form[s].id = r)
    <3>1. form'[s] = form[s]
      BY <1>5, <2>1, <2>3
    <3> DEFINE e == form[s]
    <3>2. e # NoForm /\ e.id # r
      BY <1>10, <2>3, <3>1
    <3>3. e.id # NoRow => e.id \in RepoIds /\ PageFits(e) /\ repos'[e.id] = repos[e.id]
      BY <1>6, <3>2 DEF PagesFit, RepoIds
    <3> QED BY <1>8, <3>1, <3>2, <3>3 DEF PagesFit, PageFits
  <2> QED BY <2>2, <2>3
<1>11. PagesFit'
  BY <1>8, <1>9, <1>10 DEF PagesFit
<1>12. Differ(repos[r], repos'[r]) \subseteq Known(f)
  <2>1. repos'[r] = w
    BY <1>1, <1>6
  <2>2. /\ w.host # repos[r].host => "host" \in Known(f)
        /\ w.enabled # repos[r].enabled => "enabled" \in Known(f)
        /\ w.interval # repos[r].interval => "interval" \in Known(f)
        /\ w.own # repos[r].own => "own" \in Known(f)
        /\ w.path # repos[r].path => "path" \in Known(f)
    BY <1>1, <1>2, <1>3 DEF PageFits
  <2>3. w.pat # repos[r].pat => "pat" \in Known(f)
    BY <1>2, <1>3 DEF PageFits, PATAfter
  <2> QED BY <2>1, <2>2, <2>3 DEF Differ, Columns
<1>13. OnlyWhatWasTouched
  <2> SUFFICES ASSUME NEW s \in Tab, form[s] # NoForm, form[s].id \in RepoIds, form'[s] = NoForm
               PROVE  Differ(repos[form[s].id], repos'[form[s].id])
                        \subseteq form[s].touched \cup form[s].lost \cup form[s].moved
    BY DEF OnlyWhatWasTouched
  <2>1. CASE s = t
    BY <1>12, <2>1 DEF Known
  <2>2. CASE s # t /\ form[s].id = r
    <3>1. form[s] \in Form
      BY DEF Keys, RegistryTypeOK
    <3>2. form'[s] = [form[s] EXCEPT !.moved = @ \cup Differ(repos[r], repos'[r])]
      BY <1>5, <2>2
    <3>3. form'[s] \in Form
      <4>1. Differ(repos[r], repos'[r]) \subseteq Columns
        BY DEF Differ
      <4> QED BY <3>1, <3>2, <4>1 DEF Form
    <3> QED BY <3>3, NothingAssumption
  <2>3. CASE s # t /\ form[s].id # r
    <3>1. repos'[form[s].id] = repos[form[s].id]
      BY <1>6, <2>3 DEF RepoIds
    <3> QED BY <3>1 DEF Differ
  <2> QED BY <2>1, <2>2, <2>3
<1> QED BY <1>11, <1>13

LEMMA InitPages == Init => PagesFit
BY StartAssumption DEF Init, PagesFit, RepoIds

LEMMA PageStep == TypeOK /\ PagesFit /\ [Next]_vars => PagesFit' /\ OnlyWhatWasTouched
<1> SUFFICES ASSUME TypeOK, Keys, Engine, Rows, PagesFit, [Next]_vars PROVE PagesFit' /\ OnlyWhatWasTouched
  BY Parts
<1>1. CASE SaveRepo
  BY <1>1, CreatePages, UpdatePages DEF SaveRepo
<1>2. CASE Browse
  <2>1. UNCHANGED repos
    BY <1>2, BrowseKeys
  <2> QED BY <1>2, <2>1, BrowsePages, NothingWritten DEF Keys
<1>3. CASE UNCHANGED <<repos, form>>
  <2>1. PagesFit'
    BY <1>3 DEF PagesFit, PageFits, RepoIds
  <2> QED BY <1>3, <2>1, NothingWritten
<1>4. CASE MarkRepoPolled
  <2> DEFINE r == held["poller"].repo
  <2>1. r \in RepoIds /\ repos' = [repos EXCEPT ![r].last = round] /\ form' = form
    BY <1>4 DEF MarkRepoPolled, Rows, Polling, Caller
  <2> HIDE DEF r
  <2>2. RepoIds' = RepoIds /\ \A q \in RepoIds :
          /\ repos'[q].host = repos[q].host /\ repos'[q].path = repos[q].path
          /\ repos'[q].enabled = repos[q].enabled /\ repos'[q].interval = repos[q].interval
          /\ repos'[q].own = repos[q].own
    <3>1. repos[r] \in RepoRow /\ \A q \in Repo : repos'[q] = IF q = r THEN [repos[r] EXCEPT !.last = round] ELSE repos[q]
      BY <2>1 DEF Keys, RegistryTypeOK, RepoIds
    <3>2. [repos[r] EXCEPT !.last = round] # NoRow
      <4>1. round \in Nat
        BY RegistryAssumption DEF Engine, Keys, RegistryTypeOK
      <4> QED BY <3>1, <4>1, NothingAssumption DEF RepoRow
    <3> QED BY <2>1, <3>1, <3>2 DEF RepoIds, RepoRow
  <2>3. PagesFit'
    BY <2>1, <2>2 DEF PagesFit, PageFits
  <2>4. OnlyWhatWasTouched
    <3> SUFFICES ASSUME NEW t \in Tab, form[t] # NoForm, form'[t] = NoForm PROVE FALSE
      BY DEF OnlyWhatWasTouched
    <3> QED BY <2>1
  <2> QED BY <2>3, <2>4
<1>5. CASE Crash
  <2>1. repos' = repos /\ \A t \in Tab : form'[t] \in {NoForm, form[t]}
    BY <1>5 DEF Crash, AfterCrash
  <2>2. PagesFit'
    BY <2>1, ZenonT(40) DEF PagesFit, PageFits, RepoIds
  <2> QED BY <2>1, <2>2, NothingWritten
<1>6. Save \/ VisitPage => SaveRepo \/ Browse \/ UNCHANGED <<repos, form>>
  BY DEF Save, VisitPage, SaveHost, CreateGitHost, UpdateGitHost
<1>7. ASSUME \/ SaveSettings \/ Tick \/ StartRound \/ ReadSettings \/ EndRound
             \/ (\E r \in Repo : PollRepo(r) \/ FetchRepo(r))
             \/ (\E c \in Caller : ReadHost(c) \/ ReadPAT(c) \/ Call(c) \/ Fail(c))
             \/ UNCHANGED vars
      PROVE  UNCHANGED <<repos, form>>
  BY <1>7 DEF SaveSettings, Tick, StartRound, ReadSettings, EndRound, PollRepo, FetchRepo,
              ReadHost, ReadPAT, Call, Fail, registry, vars
<1> QED BY <1>1, <1>2, <1>3, <1>4, <1>5, <1>6, <1>7 DEF Next

\* A saved page changes what was touched on it, lost by it or moved beside it.
THEOREM OnlyTouched == Spec => TouchedOnly
<1>1. TypeOK /\ PagesFit /\ [Next]_vars => PagesFit' /\ OnlyWhatWasTouched
  BY PageStep
<1>2. TypeOK /\ PagesFit /\ [Next]_vars => [OnlyWhatWasTouched]_vars
  BY <1>1
<1> QED BY InitTypes, TypeStep, InitPages, <1>1, <1>2, PTL DEF Spec, TouchedOnly

-----------------------------------------------------------------------------
\* Showing and reading a Repo URL.

\* The page of a repo shows a URL that its own form accepts and reads as the path the
\* row has, whatever path the base of the host has by now (FormatRepoURL and
\* ParseRepoURL of repourl.go); only https is read.
ShownURLReadsBack ==
  \A r \in RepoIds :
    LET b == hosts[repos[r].host].base
    IN b.https => ParseRepoURL(FormatRepoURL(b, repos[r].path), b) = repos[r].path

LEMMA ReadsBack ==
  ASSUME NEW b \in Base, b.https, NEW p \in Path, Bare[p[2]] = p[2]
  PROVE  ParseRepoURL(FormatRepoURL(b, p), b) = p
<1> DEFINE u == FormatRepoURL(b, p)
           n == Len(b.prefix)
<1>1. b.prefix \in Seq(Segment) /\ p \in Seq(Segment) /\ Len(p) = 2 /\ n \in Nat
  BY Names DEF Base
<1>2. u.https /\ ~u.user /\ u.site = b.site /\ u.path = b.prefix \o p
  BY DEF FormatRepoURL
<1>3. Len(u.path) = n + 2 /\ u.path[n + 1] = p[1] /\ u.path[n + 2] = p[2]
  BY <1>1, <1>2, Joined
<1>4. SubSeq(u.path, 1, n) = b.prefix
  <2>1. CASE n = 0
    <3>1. b.prefix = << >>
      BY <1>1, <2>1, EmptySeq
    <3>2. u.path \in Seq(Segment)
      BY <1>1, <1>2, Joined
    <3> QED BY <2>1, <3>1, <3>2, SubSeqEmpty
  <2>2. CASE n # 0
    <3>1. 1 \in 1 .. n /\ n \in 1 .. n
      BY <1>1, <2>2
    <3>2. SubSeq(b.prefix \o p, 1, n) = SubSeq(b.prefix, 1, n)
      BY <1>1, <3>1, SubSeqOfConcat1
    <3>3. SubSeq(b.prefix, 1, n) = b.prefix
      BY <1>1, SubSeqFull
    <3> QED BY <1>2, <3>2, <3>3
  <2> QED BY <2>1, <2>2
<1>5. p = <<p[1], p[2]>>
  BY DEF Path
<1>6. PathUnderBase(u, b) /\ SameHostPort(u, b)
  BY <1>1, <1>2, <1>3, <1>4 DEF PathUnderBase, SameHostPort
<1>7. <<u.path[n + 1], Bare[u.path[n + 2]]>> = p
  BY <1>3, <1>5
<1> QED BY <1>2, <1>3, <1>6, <1>7 DEF ParseRepoURL

\* An Administrator who opens the page of a repo and saves it as it is keeps its owner
\* and name, although the URL is not stored but put together anew each time.
THEOREM URLsReadBack == Spec => []ShownURLReadsBack
<1>1. TypeOK /\ PagesFit => ShownURLReadsBack
  <2> SUFFICES ASSUME TypeOK, PagesFit, NEW r \in RepoIds,
                      hosts[repos[r].host].base.https
               PROVE  ParseRepoURL(FormatRepoURL(hosts[repos[r].host].base, repos[r].path),
                                   hosts[repos[r].host].base) = repos[r].path
    BY DEF ShownURLReadsBack
  <2>1. Keys
    BY Parts
  <2>2. repos[r] \in RepoRow /\ hosts[repos[r].host] \in HostRow
    BY <2>1 DEF Keys, RegistryTypeOK, HostsThere, RepoIds, HostIds
  <2>3. repos[r].path \in Path /\ hosts[repos[r].host].base \in Base
    BY <2>2 DEF RepoRow, HostRow
  <2>4. Bare[repos[r].path[2]] = repos[r].path[2]
    BY DEF PagesFit
  <2> QED BY <2>3, <2>4, ReadsBack
<1>2. TypeOK /\ PagesFit /\ [Next]_vars => PagesFit'
  BY PageStep
<1> QED BY InitTypes, TypeStep, InitPages, <1>1, <1>2, PTL DEF Spec
=============================================================================
