-------------------------- MODULE ReviewRunsProofs --------------------------
(* What the table promises follows from its own steps, for every number of *)
(* pull requests, repos and rows.                                          *)
EXTENDS ReviewRuns, TLAPS

Inv == TypeOK /\ OneActivePerPR /\ OneRunningPerRepo /\ RepoFIFO

\* The table starts empty, where nothing is active, running or waiting.
LEMMA InitInv ==
  ASSUME MaxRuns \in Nat, Init
  PROVE  Inv
<1>1. \A r \in RunId : status[r] = "none"
  BY DEF Init
<1>2. TypeOK
  BY DEF Init, TypeOK, Status
<1>3. QED
  BY <1>1, <1>2 DEF Inv, OneActivePerPR, OneRunningPerRepo, RepoFIFO, Active, Terminal

\* A step that only lets active rows become inactive, and only makes a row
\* finished if it ran before, keeps the invariant.
LEMMA RetiringStep ==
  ASSUME Inv, UNCHANGED <<prOf, lastId>>, status' \in [RunId -> Status],
         \A r \in RunId : \/ status'[r] = status[r]
                          \/ status'[r] = "none"
                          \/ status[r] = "running" /\ status'[r] \in Terminal
  PROVE  Inv'
<1>1. TypeOK'
  BY DEF Inv, TypeOK, Active, Terminal
<1>2. OneActivePerPR'
  BY DEF Inv, OneActivePerPR, Active, Terminal
<1>3. OneRunningPerRepo'
  BY DEF Inv, OneRunningPerRepo, Terminal, RepoOfRun
<1>4. RepoFIFO'
  BY DEF Inv, RepoFIFO, Terminal, RepoOfRun
<1>5. QED
  BY <1>1, <1>2, <1>3, <1>4 DEF Inv

\* A new row is for a pull request without an active one, and no younger row
\* of its repo exists.
LEMMA SubmitStep ==
  ASSUME MaxRuns \in Nat, Inv, NEW p \in PR, Submit(p)
  PROVE  Inv'
<1> DEFINE n == lastId + 1
<1>1. n \in RunId /\ status[n] = "none" /\ lastId \in Nat
  BY DEF Inv, TypeOK, Submit, RunId
<1>2. \A r \in RunId : r # n => status'[r] = status[r] /\ prOf'[r] = prOf[r]
  BY DEF Submit, Inv, TypeOK
<1>3. status'[n] = "pending" /\ prOf'[n] = p
  BY <1>1 DEF Submit, Inv, TypeOK
<1>4. TypeOK'
  BY <1>1 DEF Submit, Inv, TypeOK, Status, Active, RunId
<1>5. OneActivePerPR'
  BY <1>2, <1>3 DEF Submit, Inv, OneActivePerPR, Active
<1>6. OneRunningPerRepo'
  BY <1>2, <1>3 DEF Inv, OneRunningPerRepo, RepoOfRun
<1>7. RepoFIFO'
  <2> SUFFICES ASSUME NEW r \in RunId, NEW q \in RunId, r < q,
                      RepoOfRun(r)' = RepoOfRun(q)', status'[q] \in {"running"} \cup Terminal
               PROVE  status'[r] # "pending"
    BY DEF RepoFIFO
  <2>1. q # n
    BY <1>3 DEF Terminal
  <2>2. CASE r = n
    <3>1. q > lastId
      BY <2>2, <1>1 DEF RunId
    <3>2. status[q] = "none"
      BY <3>1 DEF Inv, TypeOK
    <3>3. QED
      BY <3>2, <2>1, <1>2 DEF Terminal
  <2>3. CASE r # n
    BY <2>1, <2>3, <1>2 DEF Inv, RepoFIFO, RepoOfRun, Terminal
  <2>4. QED
    BY <2>2, <2>3
<1>8. QED
  BY <1>4, <1>5, <1>6, <1>7 DEF Inv

\* The row that starts is the oldest startable one; an older pending row of its
\* repo would be startable too.
LEMMA StartStep ==
  ASSUME Inv, NEW s \in RunId, Start(s)
  PROVE  Inv'
<1>1. \A r \in RunId : r # s => status'[r] = status[r]
  BY DEF Start, Inv, TypeOK
<1>2. status'[s] = "running" /\ status[s] = "pending" /\ UNCHANGED <<prOf, lastId>>
  BY DEF Start, Startable, Inv, TypeOK
<1>3. TypeOK'
  BY <1>2 DEF Start, Inv, TypeOK, Status, Active
<1>4. OneActivePerPR'
  BY <1>1, <1>2 DEF Inv, OneActivePerPR, Active
<1>5. OneRunningPerRepo'
  BY <1>1, <1>2 DEF Inv, OneRunningPerRepo, RepoOfRun, Start, Startable
<1>6. RepoFIFO'
  <2> SUFFICES ASSUME NEW r \in RunId, NEW q \in RunId, r < q,
                      RepoOfRun(r) = RepoOfRun(q), status'[q] \in {"running"} \cup Terminal,
                      status'[r] = "pending"
               PROVE  FALSE
    BY <1>2 DEF RepoFIFO, RepoOfRun
  <2>1. r # s /\ status[r] = "pending"
    BY <1>1, <1>2
  <2>2. CASE q = s
    <3>1. Startable(r)
      BY <2>1, <2>2 DEF Start, Startable
    <3>2. QED
      BY <3>1, <2>2 DEF Start, RunId
  <2>3. CASE q # s
    BY <2>1, <2>3, <1>1 DEF Inv, RepoFIFO
  <2>4. QED
    BY <2>2, <2>3
<1>7. QED
  BY <1>3, <1>4, <1>5, <1>6 DEF Inv

\* Every step keeps the invariant.
LEMMA NextInv ==
  ASSUME MaxRuns \in Nat, Inv, [Next]_vars
  PROVE  Inv'
<1>1. ASSUME NEW p \in PR, Submit(p) PROVE Inv'
  BY <1>1, SubmitStep
<1>2. ASSUME NEW r \in RunId, Start(r) PROVE Inv'
  BY <1>2, StartStep
<1>3. ASSUME NEW r \in RunId, NEW verdict \in Terminal, Finish(r, verdict) PROVE Inv'
  <2>1. status' \in [RunId -> Status]
    BY <1>3 DEF Finish, Inv, TypeOK, Status
  <2>2. \A q \in RunId : status'[q] = status[q] \/ (status[q] = "running" /\ status'[q] \in Terminal)
    BY <1>3 DEF Finish, Inv, TypeOK
  <2>3. QED
    BY <2>1, <2>2, <1>3, RetiringStep DEF Finish
<1>4. CASE Interrupt
  <2>1. status' \in [RunId -> Status]
    BY <1>4 DEF Interrupt, Inv, TypeOK, Status, Terminal
  <2>2. \A q \in RunId : status'[q] = status[q] \/ (status[q] = "running" /\ status'[q] \in Terminal)
    BY <1>4 DEF Interrupt, Terminal
  <2>3. QED
    BY <2>1, <2>2, <1>4, RetiringStep DEF Interrupt
<1>5. ASSUME NEW dead \in SUBSET RunId, Retire(dead) PROVE Inv'
  <2>1. status' \in [RunId -> Status]
    BY <1>5 DEF Retire, Inv, TypeOK, Status
  <2>2. \A q \in RunId : status'[q] = status[q] \/ status'[q] = "none"
    BY <1>5 DEF Retire
  <2>3. QED
    BY <2>1, <2>2, <1>5, RetiringStep DEF Retire
<1>6. CASE UNCHANGED vars
  BY <1>6 DEF vars, Inv, TypeOK, OneActivePerPR, OneRunningPerRepo, RepoFIFO, RepoOfRun
<1>7. QED
  BY <1>1, <1>2, <1>3, <1>4, <1>5, <1>6 DEF Next

\* The table never holds two active rows of a pull request, two running rows of
\* a repo, or a started row that overtook an older one of its repo.
THEOREM TableSafe ==
  ASSUME MaxRuns \in Nat
  PROVE  Spec => [](OneActivePerPR /\ OneRunningPerRepo /\ RepoFIFO)
<1>1. Inv => OneActivePerPR /\ OneRunningPerRepo /\ RepoFIFO
  BY DEF Inv
<1>2. QED
  BY <1>1, InitInv, NextInv, PTL DEF Spec

\* No step rewrites a verdict.
THEOREM TableVerdictIsFinal ==
  ASSUME MaxRuns \in Nat
  PROVE  Spec => VerdictIsFinal
<1>1. Inv /\ [Next]_vars => [\A r \in RunId :
        status[r] \in Terminal => status'[r] \in {status[r], "none"}]_vars
  <2> SUFFICES ASSUME Inv, Next, NEW r \in RunId, status[r] \in Terminal
               PROVE  status'[r] \in {status[r], "none"}
    OBVIOUS
  <2>1. ASSUME NEW p \in PR, Submit(p) PROVE status'[r] = status[r]
    <3>1. r # lastId + 1
      BY DEF Inv, TypeOK, Terminal, RunId
    <3>2. QED
      BY <3>1, <2>1 DEF Submit, Inv, TypeOK
  <2>2. ASSUME NEW q \in RunId, Start(q) PROVE status'[r] = status[r]
    BY <2>2 DEF Start, Startable, Inv, TypeOK, Terminal
  <2>3. ASSUME NEW q \in RunId, NEW verdict \in Terminal, Finish(q, verdict)
        PROVE  status'[r] = status[r]
    BY <2>3 DEF Finish, Inv, TypeOK, Terminal
  <2>4. CASE Interrupt
    BY <2>4 DEF Interrupt, Terminal
  <2>5. ASSUME NEW dead \in SUBSET RunId, Retire(dead)
        PROVE  status'[r] \in {status[r], "none"}
    BY <2>5 DEF Retire
  <2>6. QED
    BY <2>1, <2>2, <2>3, <2>4, <2>5 DEF Next
<1>2. QED
  BY <1>1, InitInv, NextInv, PTL DEF Spec, VerdictIsFinal

=============================================================================
