------------------------- MODULE LabelTriggerProofs -------------------------
(***************************************************************************)
(* How often a label may trigger, for any number of pull requests, labels, *)
(* faults and changes of the Trigger Label.                                *)
(***************************************************************************)
EXTENDS LabelTrigger, TLAPS

\* The poller has yet to decide about the pull request in this round, or is
\* about to save what it saw of it.
Ahead(p) == poll = "list" \/ p \in todo \/ (poll = "schedule" /\ cur = p)
Saving(p) == poll = "save" /\ cur = p

\* Another label run may come of what the poller knows: the snapshot does not
\* show the label, the poller has decided to schedule, or a round that began
\* before the Trigger Label changed is about to overwrite the snapshot.  While
\* another label is the Trigger Label, only a round that began before is owed.
MayTrigger(p, l) ==
  \/ triggerLabel # l /\ wanted = l /\ Ahead(p)
  \/ /\ triggerLabel = l
     /\ \/ wanted # l /\ (Ahead(p) \/ Saving(p))
        \/ poll = "schedule" /\ cur = p
        \/ ~snap[p] /\ ~(Saving(p) /\ wanted = l)

\* The review under way may end with "not there", and so make the label a new
\* one: it looks for another label, did not see this one, or took it off.
TookOff == removing /\ step \in {"passed", "savePassed"}
MayForget(p, l) ==
  /\ triggerLabel = l /\ holder = p
  /\ step \in {"review", "remove", "passed", "savePassed"}
  /\ sought # l \/ ~fetched \/ TookOff

One(b) == IF b THEN 1 ELSE 0
Allowed(p, l) == 1 + faults + 2 * changes + One(<<p, l>> \in early)

\* The label runs that were created and those that may still come without
\* another fault, change or labelling.
Within(p, l) ==
  served[p][l] + One(MayTrigger(p, l)) + One(MayForget(p, l)) <= Allowed(p, l)
Budget == \A p \in PR : \A l \in label[p] : Within(p, l)

\* A round of the poller.
RoundInv ==
  /\ poll \in {"rest", "list"} => todo = {}
  /\ poll = "rest" <=> wanted = NoLabel
  /\ poll \in {"schedule", "save"} => cur \notin todo
  /\ poll = "schedule" => wanted \in listed[cur]

\* A label that is on and not in the list was put on since, and triggered nothing.
ListInv ==
  poll \in {"next", "schedule", "save"} =>
    \A p \in PR : \A l \in label[p] \ listed[p] : served[p][l] = 0

\* A review looks for the Trigger Label of its time; a label it did not see or
\* took off was put on while it held the mutex.
ReviewInv ==
  /\ holder = NoPR <=> sought = NoLabel
  /\ changes = 0 => sought \in {NoLabel, triggerLabel}
  /\ \A p \in PR : \A l \in label[p] :
       (holder = p /\ sought = l /\ (~fetched \/ TookOff)) => <<p, l>> \in early

Inv == TypeOK /\ RoundInv /\ ListInv /\ ReviewInv /\ Budget

-----------------------------------------------------------------------------
(* Types.                                                                  *)

LEMMA InitTypes == Init => TypeOK
<1> SUFFICES ASSUME Init PROVE TypeOK
  OBVIOUS
<1>1. {label, listed} \subseteq [PR -> SUBSET Labels] /\ open \subseteq PR
  BY DEF Init
<1>2. adds \in [PR -> Nat] /\ \A p \in PR : adds[p] <= MaxAdds[p]
  BY TriggerAssumption DEF Init
<1>3. served \in [PR -> [Labels -> Nat]] /\ early \subseteq PR \X Labels
  BY DEF Init
<1>4. holder \in PR \cup {NoPR} /\ cur \in PR /\ (step = "idle" <=> holder = NoPR)
  BY DEF Init
<1>5. changes \in 0..MaxChanges /\ manuals \in 0..MaxManual /\ faults \in 0..MaxFaults
  BY TriggerAssumption DEF Init
<1> QED BY <1>1, <1>2, <1>3, <1>4, <1>5 DEF Init, TypeOK, PollSteps, ReviewSteps

\* SavePRSnapshot writes one bit of the table, or counts a fault.
LEMMA SaveTypes ==
  ASSUME TypeOK, NEW p \in PR, NEW has \in BOOLEAN, SavePRSnapshot(p, has)
  PROVE  snap' \in [PR -> BOOLEAN] /\ faults' \in 0..MaxFaults
BY TriggerAssumption DEF TypeOK, SavePRSnapshot, Fault

\* The poller's steps keep the types.
LEMMA PollTypes == TypeOK /\ PollRepo => TypeOK'
<1> SUFFICES ASSUME TypeOK, PollRepo PROVE TypeOK'
  OBVIOUS
<1> USE DEF host, repo, review, history, PollSteps
<1>1. CASE StartPoll
  BY <1>1 DEF StartPoll, TypeOK
<1>2. CASE ListOpenPullRequests
  <2>1. FirstPage \subseteq PR
    BY DEF FirstPage, TypeOK
  <2>2. CASE listed' = label /\ todo' = FirstPage /\ poll' = "next" /\ UNCHANGED <<wanted, faults>>
    BY <1>2, <2>1, <2>2 DEF ListOpenPullRequests, TypeOK
  <2>3. CASE Fault("call") /\ PollOver
    <3>1. faults' \in 0..MaxFaults
      BY <2>3, TriggerAssumption DEF Fault, TypeOK
    <3> QED BY <1>2, <2>3, <3>1 DEF ListOpenPullRequests, PollOver, TypeOK
  <2> QED BY <1>2, <2>2, <2>3 DEF ListOpenPullRequests
<1>3. ASSUME NEW p \in PR, GetPRSnapshot(p) PROVE TypeOK'
  <2>1. CASE /\ todo' = todo \ {p} /\ cur' = p
             /\ poll' \in {"schedule", "save"}
             /\ UNCHANGED <<wanted, listed, faults>>
    BY <1>3, <2>1 DEF GetPRSnapshot, TypeOK
  <2>2. CASE Fault("call") /\ PollOver /\ UNCHANGED cur
    <3>1. faults' \in 0..MaxFaults
      BY <2>2, TriggerAssumption DEF Fault, TypeOK
    <3> QED BY <1>3, <2>2, <3>1 DEF GetPRSnapshot, PollOver, TypeOK
  <2> QED BY <1>3, <2>1, <2>2 DEF GetPRSnapshot
<1>4. CASE ScheduleReview
  BY <1>4, TriggerAssumption DEF ScheduleReview, Fault, TypeOK
<1>5. CASE SaveListed
  <2>1. cur \in PR /\ (wanted \in listed[cur]) \in BOOLEAN
    BY DEF TypeOK
  <2>2. SavePRSnapshot(cur, wanted \in listed[cur])
    BY <1>5 DEF SaveListed
  <2>3. snap' \in [PR -> BOOLEAN] /\ faults' \in 0..MaxFaults
    BY <2>1, <2>2, SaveTypes
  <2> QED BY <1>5, <2>3 DEF SaveListed, TypeOK
<1>6. CASE PollDone
  BY <1>6 DEF PollDone, PollOver, TypeOK
<1> QED BY <1>1, <1>2, <1>3, <1>4, <1>5, <1>6 DEF PollRepo

\* The steps of a review keep the types.
LEMMA ReviewTypes == TypeOK /\ (RunReview \/ Panic \/ \E p \in PR : FetchPR(p)) => TypeOK'
<1> SUFFICES ASSUME TypeOK, RunReview \/ Panic \/ \E p \in PR : FetchPR(p) PROVE TypeOK'
  OBVIOUS
<1> USE DEF host, repo, poller, history, ReviewSteps
<1>0. step # "idle" => holder \in PR
  BY DEF TypeOK
<1>1. CASE ReviewEnds
  BY <1>1, <1>0, TriggerAssumption DEF ReviewEnds, TypeOK
<1>2. CASE RemoveTriggerLabel
  BY <1>2, <1>0, TriggerAssumption DEF RemoveTriggerLabel, Fault, TypeOK
<1>3. CASE RemoveLabelFails
  BY <1>3, <1>0, TriggerAssumption DEF RemoveLabelFails, TypeOK
<1>4. CASE WriteVerdict
  BY <1>4, <1>0, TriggerAssumption DEF WriteVerdict, TypeOK
<1>5. CASE SaveVerdict
  <2>1. snap' \in [PR -> BOOLEAN] /\ faults' \in 0..MaxFaults
    BY <1>5, <1>0, SaveTypes DEF SaveVerdict, SnapshotAfter, TypeOK
  <2> QED BY <1>5, <2>1 DEF SaveVerdict, ReviewOver, TypeOK
<1>6. ASSUME NEW p \in PR, RecoverPanic(p) PROVE TypeOK'
  BY <1>6 DEF RecoverPanic, TypeOK
<1>7. ASSUME NEW p \in PR, SavePanicked(p) PROVE TypeOK'
  <2>1. snap' \in [PR -> BOOLEAN] /\ faults' \in 0..MaxFaults
    BY <1>7, SaveTypes DEF SavePanicked
  <2> QED BY <1>7, <2>1 DEF SavePanicked, TypeOK
<1>8. CASE Panic
  BY <1>8, <1>0 DEF Panic, ReviewOver, TypeOK
<1>9. ASSUME NEW p \in PR, FetchPR(p) PROVE TypeOK'
  BY <1>9, TriggerAssumption DEF FetchPR, TypeOK
<1> QED BY <1>1, <1>2, <1>3, <1>4, <1>5, <1>6, <1>7, <1>8, <1>9 DEF RunReview

\* Every step keeps the types.
LEMMA TypeStep == TypeOK /\ [Next]_vars => TypeOK'
<1> SUFFICES ASSUME TypeOK, [Next]_vars PROVE TypeOK'
  OBVIOUS
<1> USE DEF host, repo, poller, review, history
<1>1. ASSUME NEW p \in PR, NEW l \in Labels, AddLabel(p, l) PROVE TypeOK'
  <2>1. adds' \in [PR -> Nat] /\ \A q \in PR : adds'[q] <= MaxAdds[q]
    <3>1. adds \in [PR -> Nat] /\ MaxAdds \in [PR -> Nat] /\ \A q \in PR : adds[q] <= MaxAdds[q]
      BY TriggerAssumption DEF TypeOK
    <3>2. adds[p] + 1 \in Nat /\ adds[p] + 1 <= MaxAdds[p] /\ adds' = [adds EXCEPT ![p] = adds[p] + 1]
      BY <1>1, <3>1 DEF AddLabel
    <3>3. adds' \in [PR -> Nat]
      BY <3>1, <3>2
    <3>4. \A q \in PR : adds'[q] <= MaxAdds[q]
      BY <3>1, <3>2
    <3> QED BY <3>3, <3>4
  <2>2. {label', listed'} \subseteq [PR -> SUBSET Labels]
    BY <1>1 DEF AddLabel, TypeOK
  <2>3. served' \in [PR -> [Labels -> Nat]] /\ early' \subseteq PR \X Labels
    BY <1>1 DEF AddLabel, TypeOK
  <2> QED BY <1>1, <2>1, <2>2, <2>3 DEF AddLabel, TypeOK
<1>2. ASSUME NEW p \in PR, NEW l \in Labels, TakeLabelOff(p, l) PROVE TypeOK'
  BY <1>2 DEF TakeLabelOff, TypeOK
<1>3. ASSUME NEW p \in PR, ClosePR(p) PROVE TypeOK'
  BY <1>3 DEF ClosePR, TypeOK
<1>4. ASSUME NEW p \in PR, ManualReview(p) PROVE TypeOK'
  BY <1>4, TriggerAssumption DEF ManualReview, TypeOK
<1>5. ASSUME NEW l \in Labels, NEW b \in Removals, UpdateRepo(l, b) PROVE TypeOK'
  BY <1>5, TriggerAssumption DEF UpdateRepo, TypeOK
<1>6. ASSUME NEW p \in PR, Claim(p) PROVE TypeOK'
  BY <1>6 DEF Claim, TypeOK
<1>7. CASE Crash
  <2>1. faults' \in 0..MaxFaults
    BY <1>7, TriggerAssumption DEF Crash, Fault, TypeOK
  <2>2. row' \in [PR -> {"none", "pending", "running"}]
    BY <1>7 DEF Crash, TypeOK
  <2>3. {label', listed'} \subseteq [PR -> SUBSET Labels] /\ todo' \subseteq PR /\ poll' \in PollSteps
    BY <1>7 DEF Crash, PollOver, TypeOK, PollSteps
  <2>4. holder' = NoPR /\ step' = "idle" /\ sought' = NoLabel /\ removing' = FALSE /\ fetched' = FALSE
    BY <1>7 DEF Crash, ReviewOver
  <2> QED BY <1>7, <2>1, <2>2, <2>3, <2>4 DEF Crash, PollOver, TypeOK, ReviewSteps
<1>8. CASE UNCHANGED vars
  BY <1>8 DEF vars, TypeOK
<1> QED BY <1>1, <1>2, <1>3, <1>4, <1>5, <1>6, <1>7, <1>8, PollTypes, ReviewTypes DEF Next

\* The host, the tables, the poller and the reviews keep their types, whoever
\* comes between whose steps: a review always has its pull request.
THEOREM TriggerTyped == Spec => []TypeOK
BY InitTypes, TypeStep, PTL DEF Spec

\* What is on a pull request is a label, and what is counted a number.
LEMMA Counts ==
  ASSUME TypeOK, NEW p \in PR, NEW l \in label[p]
  PROVE  l \in Labels /\ served[p][l] \in Nat /\ faults \in Nat /\ changes \in Nat
<1>1. l \in Labels
  BY DEF TypeOK
<1> QED BY <1>1, TriggerAssumption DEF TypeOK

-----------------------------------------------------------------------------
(* Rounds, lists and reviews.                                              *)

\* What is not a step of the poller, a death or a new label leaves the poller
\* and the counts alone; labels may go.
LEMMA Bystanders ==
  ASSUME TypeOK, [Next]_vars
  PROVE  \/ \E p \in PR, l \in Labels : AddLabel(p, l)
         \/ PollRepo
         \/ Crash
         \/ UNCHANGED <<poller, history>> /\ \A p \in PR : label'[p] \subseteq label[p]
<1> USE DEF host, repo, review
<1>1. ASSUME NEW p \in PR, NEW l \in Labels, TakeLabelOff(p, l)
      PROVE  UNCHANGED <<poller, history>> /\ \A q \in PR : label'[q] \subseteq label[q]
  BY <1>1 DEF TakeLabelOff, TypeOK
<1>2. ASSUME NEW p \in PR, ClosePR(p) \/ ManualReview(p) \/ Claim(p) \/ FetchPR(p)
      PROVE  UNCHANGED <<poller, history>> /\ \A q \in PR : label'[q] \subseteq label[q]
  BY <1>2 DEF ClosePR, ManualReview, Claim, FetchPR
<1>3. ASSUME NEW l \in Labels, NEW b \in Removals, UpdateRepo(l, b)
      PROVE  UNCHANGED <<poller, history>> /\ \A q \in PR : label'[q] \subseteq label[q]
  BY <1>3 DEF UpdateRepo
<1>4. ASSUME RunReview \/ Panic
      PROVE  UNCHANGED <<poller, history>> /\ \A q \in PR : label'[q] \subseteq label[q]
  <2>1. CASE RemoveTriggerLabel
    BY <2>1 DEF RemoveTriggerLabel, TypeOK
  <2>2. CASE ReviewEnds \/ RemoveLabelFails \/ WriteVerdict \/ SaveVerdict \/ Panic
    BY <2>2 DEF ReviewEnds, RemoveLabelFails, WriteVerdict, SaveVerdict, Panic
  <2>3. ASSUME NEW p \in PR, RecoverPanic(p) \/ SavePanicked(p)
        PROVE  UNCHANGED <<poller, history>> /\ \A q \in PR : label'[q] \subseteq label[q]
    BY <2>3 DEF RecoverPanic, SavePanicked
  <2> QED BY <1>4, <2>1, <2>2, <2>3 DEF RunReview
<1>5. UNCHANGED vars => UNCHANGED <<poller, history>> /\ \A q \in PR : label'[q] \subseteq label[q]
  BY DEF vars
<1> QED BY <1>1, <1>2, <1>3, <1>4, <1>5 DEF Next

\* A round goes through its list once.
LEMMA RoundStep == TypeOK /\ RoundInv /\ [Next]_vars => RoundInv'
<1> SUFFICES ASSUME TypeOK, RoundInv, [Next]_vars PROVE RoundInv'
  OBVIOUS
<1> NoLabel \notin Labels /\ triggerLabel \in Labels
  BY TriggerAssumption DEF TypeOK
<1>1. CASE UNCHANGED poller
  BY <1>1 DEF RoundInv, poller
<1>2. CASE PollRepo
  <2>1. CASE StartPoll
    BY <2>1 DEF StartPoll, RoundInv
  <2>2. CASE ListOpenPullRequests
    BY <2>2 DEF ListOpenPullRequests, PollOver, RoundInv
  <2>3. ASSUME NEW p \in PR, GetPRSnapshot(p) PROVE RoundInv'
    BY <2>3 DEF GetPRSnapshot, PollOver, Transition, RoundInv
  <2>4. CASE ScheduleReview
    BY <2>4 DEF ScheduleReview, RoundInv
  <2>5. CASE SaveListed
    BY <2>5 DEF SaveListed, RoundInv
  <2>6. CASE PollDone
    BY <2>6 DEF PollDone, PollOver, RoundInv
  <2> QED BY <1>2, <2>1, <2>2, <2>3, <2>4, <2>5, <2>6 DEF PollRepo
<1>3. CASE Crash
  BY <1>3 DEF Crash, PollOver, RoundInv
<1>4. ASSUME NEW p \in PR, NEW l \in Labels, AddLabel(p, l) PROVE UNCHANGED poller
  BY <1>4 DEF AddLabel
<1> QED BY <1>1, <1>2, <1>3, <1>4, Bystanders

\* Between the list and the saves nothing is triggered by a label that is not in
\* the list.
LEMMA ListStep == TypeOK /\ RoundInv /\ ListInv /\ [Next]_vars => ListInv'
<1> SUFFICES ASSUME TypeOK, RoundInv, ListInv, [Next]_vars,
                    poll' \in {"next", "schedule", "save"},
                    NEW p \in PR, NEW l \in label'[p] \ listed'[p]
             PROVE  served'[p][l] = 0
  BY DEF ListInv
<1>1. CASE UNCHANGED <<poller, history>> /\ \A q \in PR : label'[q] \subseteq label[q]
  BY <1>1 DEF ListInv, poller, history
<1>2. ASSUME NEW q \in PR, NEW k \in Labels, AddLabel(q, k)
      PROVE  served'[p][l] = 0
  <2>1. CASE p = q /\ l = k
    BY <1>2, <2>1 DEF AddLabel, TypeOK
  <2>2. CASE p # q \/ l # k
    <3>1. l \in label[p] \ listed[p] /\ poll \in {"next", "schedule", "save"}
      BY <1>2, <2>2 DEF AddLabel, TypeOK, poller
    <3>2. served'[p][l] = served[p][l]
      BY <1>2, <2>2 DEF AddLabel, TypeOK
    <3> QED BY <3>1, <3>2 DEF ListInv
  <2> QED BY <2>1, <2>2
<1>3. CASE PollRepo
  <2>1. CASE StartPoll
    BY <2>1 DEF StartPoll
  <2>2. CASE ListOpenPullRequests
    BY <2>2 DEF ListOpenPullRequests, PollOver, host
  <2>3. ASSUME NEW q \in PR, GetPRSnapshot(q) PROVE served'[p][l] = 0
    BY <2>3 DEF GetPRSnapshot, PollOver, ListInv, host, history
  <2>4. CASE ScheduleReview
    <3>1. l \in label[p] \ listed[p] /\ served[p][l] = 0
      BY <2>4 DEF ScheduleReview, ListInv, host
    <3>2. p # cur \/ l # wanted
      BY <2>4, <3>1 DEF ScheduleReview, RoundInv
    <3>3. served'[p][l] = served[p][l]
      <4>1. served' = served \/ served' = [served EXCEPT ![cur][wanted] = @ + 1]
        BY <2>4 DEF ScheduleReview
      <4> QED BY <3>1, <3>2, <4>1, Counts DEF TypeOK
    <3> QED BY <3>1, <3>3
  <2>5. CASE SaveListed
    BY <2>5 DEF SaveListed, ListInv, host, history
  <2>6. CASE PollDone
    BY <2>6 DEF PollDone, PollOver
  <2> QED BY <1>3, <2>1, <2>2, <2>3, <2>4, <2>5, <2>6 DEF PollRepo
<1>4. CASE Crash
  BY <1>4 DEF Crash, PollOver
<1> QED BY <1>1, <1>2, <1>3, <1>4, Bystanders

\* A label that a review did not see was put on under it.
LEMMA ReviewStep == TypeOK /\ ReviewInv /\ [Next]_vars => ReviewInv'
<1> SUFFICES ASSUME TypeOK, ReviewInv, [Next]_vars PROVE ReviewInv'
  OBVIOUS
<1> NoLabel \notin Labels /\ triggerLabel \in Labels /\ NoPR \notin PR
  BY TriggerAssumption DEF TypeOK
<1>1. ASSUME NEW q \in PR, NEW k \in Labels, AddLabel(q, k) PROVE ReviewInv'
  <2>1. UNCHANGED <<repo, review>>
    BY <1>1 DEF AddLabel
  <2>2. \A p \in PR : \A l \in label'[p] :
          holder = p => (l \in label[p] /\ (<<p, l>> \in early => <<p, l>> \in early')) \/ <<p, l>> \in early'
    BY <1>1 DEF AddLabel, TypeOK
  <2> QED BY <2>1, <2>2 DEF ReviewInv, TookOff, repo, review
<1>2. ASSUME UNCHANGED <<repo, holder, step, sought, removing, fetched, early>>,
             \A p \in PR : label'[p] \subseteq label[p]
      PROVE  ReviewInv'
  BY <1>2 DEF ReviewInv, TookOff, repo
<1>3. ASSUME NEW l \in Labels, NEW b \in Removals, UpdateRepo(l, b) PROVE ReviewInv'
  <2>1. changes' = changes + 1 /\ changes \in Nat /\ UNCHANGED <<label, review, early>>
    BY <1>3, TriggerAssumption DEF UpdateRepo, TypeOK, host, history
  <2>2. changes' # 0
    BY <2>1
  <2> QED BY <2>1, <2>2 DEF ReviewInv, TookOff, review
<1>4. ASSUME NEW p \in PR, FetchPR(p) PROVE ReviewInv'
  BY <1>4 DEF FetchPR, ReviewInv, TookOff, host, repo, history
<1>5. ASSUME ReviewOver, UNCHANGED <<repo, label, early>> PROVE ReviewInv'
  BY <1>5 DEF ReviewOver, ReviewInv, repo
<1>6. CASE ReviewEnds
  BY <1>6 DEF ReviewEnds, ReviewInv, TookOff, host, repo, history
<1>7. CASE RemoveTriggerLabel
  <2>1. UNCHANGED <<repo, holder, sought, removing, fetched, early>> /\ step = "remove"
        /\ label' = [label EXCEPT ![holder] = @ \ {sought}]
    BY <1>7 DEF RemoveTriggerLabel, history
  <2>2. \A p \in PR : label'[p] \subseteq label[p] /\ (p = holder => sought \notin label'[p])
    BY <2>1 DEF TypeOK
  <2> QED BY <2>1, <2>2 DEF ReviewInv, repo
<1>8. CASE RemoveLabelFails \/ WriteVerdict
  BY <1>8 DEF RemoveLabelFails, WriteVerdict, ReviewInv, TookOff, host, repo, history
<1>9. ASSUME NEW p \in PR, RecoverPanic(p) \/ SavePanicked(p) PROVE ReviewInv'
  BY <1>2, <1>9 DEF RecoverPanic, SavePanicked, host, history
<1>10. CASE SaveVerdict \/ Panic \/ Crash
  BY <1>5, <1>10 DEF SaveVerdict, Panic, Crash, host, history
<1>11. CASE RunReview
  BY <1>6, <1>7, <1>8, <1>9, <1>10, <1>11 DEF RunReview
<1>12. ASSUME NEW p \in PR, NEW l \in Labels, TakeLabelOff(p, l) PROVE ReviewInv'
  <2>1. UNCHANGED <<repo, review, history>> /\ \A q \in PR : label'[q] \subseteq label[q]
    BY <1>12 DEF TakeLabelOff, TypeOK
  <2> QED BY <1>2, <2>1 DEF review, history
<1>13. ASSUME NEW p \in PR, ClosePR(p) \/ ManualReview(p) \/ Claim(p) PROVE ReviewInv'
  BY <1>2, <1>13 DEF ClosePR, ManualReview, Claim, host, review, history
<1>14. CASE PollRepo
  <2>1. UNCHANGED <<repo, review, label, early>>
    BY <1>14 DEF PollRepo, StartPoll, ListOpenPullRequests, GetPRSnapshot, ScheduleReview, SaveListed,
       PollDone, host, history
  <2> QED BY <2>1 DEF ReviewInv, TookOff, repo, review
<1>15. CASE UNCHANGED vars
  BY <1>2, <1>15 DEF vars, host, review, history
<1> QED BY <1>1, <1>3, <1>4, <1>10, <1>11, <1>12, <1>13, <1>14, <1>15 DEF Next

-----------------------------------------------------------------------------
(* The budget of a label.                                                  *)

\* What holds of a label as long as it triggered nothing.
LEMMA Unserved ==
  TypeOK /\ ReviewInv =>
    \A p \in PR : \A l \in label[p] : served[p][l] = 0 => Within(p, l)
<1> SUFFICES ASSUME TypeOK, ReviewInv, NEW p \in PR, NEW l \in label[p], served[p][l] = 0
             PROVE  Within(p, l)
  OBVIOUS
<1>1. faults \in Nat /\ changes \in Nat
  BY Counts
<1>2. One(MayTrigger(p, l)) \in {0, 1} /\ One(<<p, l>> \in early) \in {0, 1}
  BY DEF One
<1>3. CASE ~MayForget(p, l)
  <2>1. One(MayForget(p, l)) = 0
    BY <1>3 DEF One
  <2> QED BY <1>1, <1>2, <2>1 DEF Within, Allowed
<1>4. CASE MayForget(p, l) /\ sought = l
  <2>1. <<p, l>> \in early
    BY <1>4 DEF MayForget, ReviewInv
  <2>2. One(MayForget(p, l)) = 1 /\ One(<<p, l>> \in early) = 1
    BY <1>4, <2>1 DEF One
  <2> QED BY <1>1, <1>2, <2>2 DEF Within, Allowed
<1>5. CASE MayForget(p, l) /\ sought # l
  <2>1. sought # NoLabel /\ sought # triggerLabel
    BY <1>5, TriggerAssumption DEF MayForget, ReviewInv
  <2>2. changes >= 1
    BY <1>1, <2>1 DEF ReviewInv
  <2>3. One(MayForget(p, l)) = 1
    BY <1>5 DEF One
  <2> QED BY <1>1, <1>2, <2>2, <2>3 DEF Within, Allowed
<1> QED BY <1>3, <1>4, <1>5

\* What a step that creates no label run may do to the budget: nothing; a review
\* that may forget is over; a fault or a change of the Trigger Label is counted.
Safe(p, l) ==
  \/ (MayTrigger(p, l)' => MayTrigger(p, l)) /\ (MayForget(p, l)' => MayForget(p, l))
  \/ MayForget(p, l) /\ ~MayForget(p, l)'
  \/ faults' = faults + 1 /\ (MayForget(p, l)' => MayForget(p, l))
  \/ changes' = changes + 1

LEMMA Carried ==
  ASSUME TypeOK, NEW p \in PR, NEW l \in label[p], Within(p, l),
         served'[p][l] = served[p][l], <<p, l>> \in early => <<p, l>> \in early',
         faults' \in {faults, faults + 1}, changes' \in {changes, changes + 1}, Safe(p, l)
  PROVE  Within(p, l)'
<1>1. faults \in Nat /\ changes \in Nat /\ served[p][l] \in Nat
  BY Counts
<1>2. /\ One(MayTrigger(p, l)) \in {0, 1} /\ One(MayTrigger(p, l)') \in {0, 1}
      /\ One(MayForget(p, l)) \in {0, 1} /\ One(MayForget(p, l)') \in {0, 1}
      /\ One(<<p, l>> \in early) \in {0, 1} /\ One(<<p, l>> \in early') \in {0, 1}
      /\ One(<<p, l>> \in early) <= One(<<p, l>> \in early')
  BY DEF One
<1>3. One(MayTrigger(p, l)') + One(MayForget(p, l)') + faults + 2 * changes
        <= One(MayTrigger(p, l)) + One(MayForget(p, l)) + faults' + 2 * changes'
  <2>1. CASE (MayTrigger(p, l)' => MayTrigger(p, l)) /\ (MayForget(p, l)' => MayForget(p, l))
    <3>1. /\ One(MayTrigger(p, l)') <= One(MayTrigger(p, l))
          /\ One(MayForget(p, l)') <= One(MayForget(p, l))
      BY <2>1 DEF One
    <3> QED BY <1>1, <1>2, <3>1
  <2>2. CASE MayForget(p, l) /\ ~MayForget(p, l)'
    <3>1. One(MayForget(p, l)) = 1 /\ One(MayForget(p, l)') = 0
      BY <2>2 DEF One
    <3> QED BY <1>1, <1>2, <3>1
  <2>3. CASE faults' = faults + 1 /\ (MayForget(p, l)' => MayForget(p, l))
    <3>1. One(MayForget(p, l)') <= One(MayForget(p, l))
      BY <2>3 DEF One
    <3> QED BY <1>1, <1>2, <2>3, <3>1
  <2>4. CASE changes' = changes + 1
    BY <1>1, <1>2, <2>4
  <2> QED BY <2>1, <2>2, <2>3, <2>4 DEF Safe
<1>4. served[p][l] + One(MayTrigger(p, l)) + One(MayForget(p, l))
        <= 1 + faults + 2 * changes + One(<<p, l>> \in early)
  BY DEF Within, Allowed
<1>5. served'[p][l] + One(MayTrigger(p, l)') + One(MayForget(p, l)')
        <= 1 + faults' + 2 * changes' + One(<<p, l>> \in early')
  BY <1>1, <1>2, <1>3, <1>4
<1> QED BY <1>5 DEF Within, Allowed

\* The poller's own steps, for a label that triggered already.
LEMMA PollSafe ==
  ASSUME TypeOK, RoundInv, ListInv, NEW p \in PR, NEW l \in label[p], served[p][l] # 0,
         PollRepo, ~ScheduleReview
  PROVE  Safe(p, l)
<1>1. UNCHANGED <<repo, review>>
  BY DEF PollRepo, StartPoll, ListOpenPullRequests, GetPRSnapshot, SaveListed, PollDone
<1>2. MayForget(p, l)' => MayForget(p, l)
  BY <1>1 DEF MayForget, TookOff, repo, review
<1>3. poll \in {"next", "schedule", "save"} => l \in listed[p]
  BY DEF ListInv
<1>4. /\ l \in Labels /\ NoLabel \notin Labels
      /\ poll # "rest" => wanted \in Labels
  BY Counts, TriggerAssumption DEF TypeOK, RoundInv
<1> USE DEF MayTrigger, Ahead, Saving
<1>5. CASE StartPoll
  <2>1. MayTrigger(p, l)' => MayTrigger(p, l)
    BY <1>5 DEF StartPoll, repo
  <2> QED BY <1>2, <2>1 DEF Safe
<1>6. CASE ListOpenPullRequests
  <2>1. (MayTrigger(p, l)' => MayTrigger(p, l)) \/ faults' = faults + 1
    BY <1>6 DEF ListOpenPullRequests, Fault, repo
  <2> QED BY <1>2, <2>1 DEF Safe
<1>7. ASSUME NEW q \in PR, GetPRSnapshot(q) PROVE Safe(p, l)
  <2>1. (MayTrigger(p, l)' => MayTrigger(p, l)) \/ faults' = faults + 1
    BY <1>3, <1>7 DEF GetPRSnapshot, Transition, Fault, repo
  <2> QED BY <1>2, <2>1 DEF Safe
<1>8. CASE SaveListed
  <2>1. (MayTrigger(p, l)' => MayTrigger(p, l)) \/ faults' = faults + 1
    BY <1>3, <1>8 DEF SaveListed, SavePRSnapshot, Fault, RoundInv, TypeOK, repo
  <2> QED BY <1>2, <2>1 DEF Safe
<1>9. CASE PollDone
  <2>1. MayTrigger(p, l)' => MayTrigger(p, l)
    BY <1>9 DEF PollDone, PollOver, repo
  <2> QED BY <1>2, <2>1 DEF Safe
<1> QED BY <1>5, <1>6, <1>7, <1>8, <1>9 DEF PollRepo

\* The one step that spends: a decision that was due becomes a run, and the
\* snapshot is saved next.
LEMMA ScheduleWithin ==
  ASSUME TypeOK, RoundInv, ListInv, NEW p \in PR, NEW l \in label[p], Within(p, l),
         ScheduleReview
  PROVE  Within(p, l)'
<1>1. UNCHANGED <<host, repo, snap, wanted, listed, todo, cur, review, early>>
  BY DEF ScheduleReview
<1>2. MayForget(p, l)' => MayForget(p, l)
  BY <1>1 DEF MayForget, TookOff, repo, review
<1>3. faults \in Nat /\ changes \in Nat /\ served[p][l] \in Nat /\ changes' = changes
  BY <1>1, Counts DEF repo
<1>4. CASE cur = p /\ wanted = l /\ poll' = "save" /\ served' = [served EXCEPT ![cur][wanted] = @ + 1]
           /\ faults' = faults
  <2>1. MayTrigger(p, l) /\ ~MayTrigger(p, l)'
    BY <1>1, <1>4 DEF MayTrigger, Ahead, Saving, ScheduleReview, RoundInv, repo
  <2>2. served'[p][l] = served[p][l] + 1
    BY <1>4, Counts DEF TypeOK
  <2>3. One(MayTrigger(p, l)) = 1 /\ One(MayTrigger(p, l)') = 0
    BY <2>1 DEF One
  <2>4. One(MayForget(p, l)') <= One(MayForget(p, l))
        /\ One(MayForget(p, l)) \in {0, 1} /\ One(MayForget(p, l)') \in {0, 1}
    BY <1>2 DEF One
  <2>5. One(<<p, l>> \in early) \in {0, 1} /\ early' = early
    BY <1>1 DEF One
  <2>6. served[p][l] + One(MayTrigger(p, l)) + One(MayForget(p, l))
          <= 1 + faults + 2 * changes + One(<<p, l>> \in early)
    BY DEF Within, Allowed
  <2>7. served'[p][l] + One(MayTrigger(p, l)') + One(MayForget(p, l)')
          <= 1 + faults' + 2 * changes' + One(<<p, l>> \in early')
    BY <1>3, <1>4, <2>2, <2>3, <2>4, <2>5, <2>6
  <2> QED BY <2>7 DEF Within, Allowed
<1>5. CASE served'[p][l] = served[p][l]
  <2>1. MayTrigger(p, l)' => MayTrigger(p, l) \/ faults' = faults + 1
    BY <1>1 DEF MayTrigger, Ahead, Saving, ScheduleReview, RoundInv, Fault, repo
  <2>2. faults' \in {faults, faults + 1}
    BY DEF ScheduleReview, Fault
  <2> QED BY <1>1, <1>2, <1>3, <1>5, <2>1, <2>2, Carried DEF Safe
<1>6. \/ served' = served
      \/ poll' = "save" /\ served' = [served EXCEPT ![cur][wanted] = @ + 1] /\ faults' = faults
  BY DEF ScheduleReview
<1>7. (cur # p \/ wanted # l) => served'[p][l] = served[p][l]
  <2>1. served' = served \/ served' = [served EXCEPT ![cur][wanted] = @ + 1]
    BY <1>6
  <2> QED BY <2>1, Counts DEF TypeOK
<1> QED BY <1>4, <1>5, <1>6, <1>7

\* Reviews, from the fetch of the pull request to the last write of the snapshot.
LEMMA ReviewSafe ==
  ASSUME TypeOK, RoundInv, ReviewInv, NEW p \in PR, NEW l \in label[p], l \in label'[p],
         RunReview \/ Panic \/ \E q \in PR : FetchPR(q)
  PROVE  Safe(p, l)
<1>1. UNCHANGED <<repo, poller>>
  BY DEF RunReview, ReviewEnds, RemoveTriggerLabel, RemoveLabelFails, WriteVerdict, SaveVerdict,
     RecoverPanic, SavePanicked, Panic, FetchPR
<1>2. snap'[p] = snap[p] \/ snap'[p] => (MayTrigger(p, l)' => MayTrigger(p, l))
  BY <1>1 DEF MayTrigger, Ahead, Saving, repo, poller
<1> USE DEF MayForget, TookOff
<1>3. CASE ReviewEnds \/ RemoveLabelFails \/ WriteVerdict
  <2>1. snap' = snap /\ (MayForget(p, l)' => MayForget(p, l))
    BY <1>3, <1>1 DEF ReviewEnds, RemoveLabelFails, WriteVerdict, repo
  <2> QED BY <1>2, <2>1 DEF Safe
<1>4. CASE RemoveTriggerLabel
  <2>1. snap' = snap /\ UNCHANGED <<holder, sought, removing, fetched>> /\ step = "remove"
        /\ label' = [label EXCEPT ![holder] = @ \ {sought}]
    BY <1>4 DEF RemoveTriggerLabel
  <2>2. holder = p => sought # l
    BY <2>1 DEF TypeOK
  <2>3. MayForget(p, l)' => MayForget(p, l)
    BY <1>1, <2>1, <2>2 DEF repo
  <2> QED BY <1>2, <2>1, <2>3 DEF Safe
<1>5. CASE SaveVerdict
  <2>1. ~MayForget(p, l)'
    BY <1>5, TriggerAssumption DEF SaveVerdict, ReviewOver
  <2>2. CASE MayForget(p, l)
    BY <2>1, <2>2 DEF Safe
  <2>3. CASE ~MayForget(p, l) /\ holder = p /\ triggerLabel = l
    <3>1. SnapshotAfter
      BY <1>5, <2>3 DEF SaveVerdict, SnapshotAfter
    <3>2. snap'[p] = snap[p] \/ snap'[p]
      BY <1>5, <2>3, <3>1 DEF SaveVerdict, SavePRSnapshot, TypeOK
    <3> QED BY <1>2, <2>1, <3>2 DEF Safe
  <2>4. CASE holder # p
    <3>1. snap'[p] = snap[p]
      BY <1>5, <2>4 DEF SaveVerdict, SavePRSnapshot, TypeOK
    <3> QED BY <1>2, <2>1, <3>1 DEF Safe
  <2>5. CASE triggerLabel # l
    <3>1. MayTrigger(p, l)' => MayTrigger(p, l)
      BY <1>1, <2>5 DEF MayTrigger, Ahead, Saving, repo, poller
    <3> QED BY <2>1, <3>1 DEF Safe
  <2> QED BY <2>2, <2>3, <2>4, <2>5
<1>6. ASSUME NEW q \in PR, RecoverPanic(q) \/ SavePanicked(q) PROVE Safe(p, l)
  <2>1. MayForget(p, l)' => MayForget(p, l)
    BY <1>1, <1>6 DEF RecoverPanic, SavePanicked, repo
  <2>2. snap'[p] = snap[p] \/ snap'[p]
    BY <1>6 DEF RecoverPanic, SavePanicked, SavePRSnapshot, TypeOK
  <2> QED BY <1>2, <2>1, <2>2 DEF Safe
<1>7. CASE Panic
  <2>1. snap' = snap /\ ~MayForget(p, l)'
    BY <1>7, TriggerAssumption DEF Panic, ReviewOver
  <2> QED BY <1>2, <2>1 DEF Safe
<1>8. ASSUME NEW q \in PR, FetchPR(q) PROVE Safe(p, l)
  <2>1. snap' = snap /\ ~MayForget(p, l)'
    BY <1>1, <1>8 DEF FetchPR, repo
  <2> QED BY <1>2, <2>1 DEF Safe
<1> QED BY <1>3, <1>4, <1>5, <1>6, <1>7, <1>8 DEF RunReview

\* The same of the state after a step.
AllUnserved == \A p \in PR : \A l \in label[p] : served[p][l] = 0 => Within(p, l)

LEMMA UnservedNext == (TypeOK /\ ReviewInv => AllUnserved)'
<1>1. TypeOK /\ ReviewInv => AllUnserved
  BY Unserved DEF AllUnserved
<1> QED BY <1>1, PTL

\* Every step keeps within the budget of every label.
LEMMA BudgetStep == Inv /\ [Next]_vars => Budget'
<1> SUFFICES ASSUME Inv, [Next]_vars, NEW p \in PR, NEW l \in label'[p]
             PROVE  Within(p, l)'
  BY DEF Budget
<1> TypeOK /\ RoundInv /\ ListInv /\ ReviewInv
  BY DEF Inv
<1>1. TypeOK' /\ ReviewInv'
  BY TypeStep, ReviewStep
<1>2. served'[p][l] = 0 => Within(p, l)'
  BY <1>1, UnservedNext DEF AllUnserved
<1>3. ASSUME l \in label[p] PROVE Within(p, l)
  BY <1>3 DEF Inv, Budget
<1>4. ASSUME NEW q \in PR, NEW k \in Labels, AddLabel(q, k) PROVE Within(p, l)'
  <2>1. CASE p = q /\ l = k
    <3>1. served'[p][l] = 0
      BY <1>4, <2>1 DEF AddLabel, TypeOK
    <3> QED BY <1>2, <3>1
  <2>2. CASE p # q \/ l # k
    <3>1. l \in label[p] /\ served'[p][l] = served[p][l] /\ (<<p, l>> \in early => <<p, l>> \in early')
      BY <1>4, <2>2, Counts DEF AddLabel, TypeOK
    <3>2. UNCHANGED <<repo, snap, poller, review, faults>>
      BY <1>4 DEF AddLabel
    <3>3. Safe(p, l)
      BY <3>2 DEF Safe, MayTrigger, MayForget, Ahead, Saving, TookOff, repo, poller, review
    <3> QED BY <1>3, <3>1, <3>2, <3>3, Carried DEF repo
  <2> QED BY <2>1, <2>2
\* What remains leaves the labels that are on as they were.
<1>5. ASSUME UNCHANGED <<served, early>>, label'[p] \subseteq label[p], Safe(p, l),
             faults' \in {faults, faults + 1}, changes' \in {changes, changes + 1}
      PROVE  Within(p, l)'
  BY <1>3, <1>5, Carried
<1>6. ASSUME UNCHANGED <<repo, snap, poller, review, faults, history>>, label'[p] \subseteq label[p]
      PROVE  Within(p, l)'
  <2>1. Safe(p, l)
    BY <1>6 DEF Safe, MayTrigger, MayForget, Ahead, Saving, TookOff, repo, poller, review
  <2> QED BY <1>5, <1>6, <2>1 DEF repo, history
<1>7. ASSUME NEW q \in PR, NEW k \in Labels, TakeLabelOff(q, k) PROVE Within(p, l)'
  <2>1. label'[p] \subseteq label[p]
    BY <1>7 DEF TakeLabelOff, TypeOK
  <2> QED BY <1>6, <1>7, <2>1 DEF TakeLabelOff
<1>8. ASSUME NEW q \in PR, ClosePR(q) \/ ManualReview(q) \/ Claim(q) PROVE Within(p, l)'
  BY <1>6, <1>8 DEF ClosePR, ManualReview, Claim, host
<1>9. ASSUME NEW k \in Labels, NEW b \in Removals, UpdateRepo(k, b) PROVE Within(p, l)'
  <2>1. changes' = changes + 1 /\ UNCHANGED <<label, faults, served, early>>
    BY <1>9 DEF UpdateRepo, host, history
  <2>2. Safe(p, l)
    BY <2>1 DEF Safe
  <2> QED BY <1>5, <2>1, <2>2
<1>10. CASE PollRepo /\ ~ScheduleReview
  <2>1. UNCHANGED <<label, served, early, changes>> /\ faults' \in {faults, faults + 1}
    BY <1>10 DEF PollRepo, StartPoll, ListOpenPullRequests, GetPRSnapshot, SaveListed, PollDone,
       SavePRSnapshot, Fault, host, repo, history
  <2>2. CASE served[p][l] # 0
    <3>1. Safe(p, l)
      BY <1>10, <2>1, <2>2, PollSafe
    <3> QED BY <1>5, <2>1, <3>1
  <2> QED BY <1>2, <2>1, <2>2
<1>11. CASE ScheduleReview
  <2>1. label' = label
    BY <1>11 DEF ScheduleReview, host
  <2> QED BY <1>3, <1>11, <2>1, ScheduleWithin
<1>12. CASE RunReview \/ Panic \/ \E q \in PR : FetchPR(q)
  <2>1. UNCHANGED <<served, early, changes>> /\ faults' \in {faults, faults + 1}
    BY <1>12 DEF RunReview, ReviewEnds, RemoveTriggerLabel, RemoveLabelFails, WriteVerdict, SaveVerdict,
       RecoverPanic, SavePanicked, Panic, FetchPR, SavePRSnapshot, Fault, repo, history
  <2>2. label'[p] \subseteq label[p]
    BY <1>12 DEF RunReview, ReviewEnds, RemoveTriggerLabel, RemoveLabelFails, WriteVerdict, SaveVerdict,
       RecoverPanic, SavePanicked, Panic, FetchPR, host, TypeOK
  <2>3. l \in label[p]
    BY <2>2
  <2>4. Safe(p, l)
    BY <1>12, <2>3, ReviewSafe
  <2> QED BY <1>5, <2>1, <2>2, <2>4
<1>13. CASE Crash
  <2>1. UNCHANGED <<label, served, early, changes>> /\ faults' = faults + 1
    BY <1>13 DEF Crash, Fault, host, repo, history
  <2>2. ~MayForget(p, l)'
    BY <1>13, TriggerAssumption DEF Crash, ReviewOver, MayForget
  <2>3. Safe(p, l)
    BY <2>1, <2>2 DEF Safe
  <2> QED BY <1>5, <2>1, <2>3
<1>14. CASE UNCHANGED vars
  BY <1>6, <1>14 DEF vars, host
<1> QED
  BY <1>4, <1>7, <1>8, <1>9, <1>10, <1>11, <1>12, <1>13, <1>14 DEF Next

LEMMA InitInv == Init => Inv
<1> SUFFICES ASSUME Init PROVE Inv
  OBVIOUS
<1>1. TypeOK
  BY InitTypes
<1>2. RoundInv /\ ListInv /\ ReviewInv
  BY <1>1 DEF Init, RoundInv, ListInv, ReviewInv
<1>3. Budget
  BY DEF Init, Budget
<1> QED BY <1>1, <1>2, <1>3 DEF Inv

LEMMA Invariance == Spec => []Inv
<1>1. Inv /\ [Next]_vars => Inv'
  BY TypeStep, RoundStep, ListStep, ReviewStep, BudgetStep DEF Inv
<1> QED BY InitInv, <1>1, PTL DEF Spec

\* A label that stays on triggers one review; each fault may cost one more, each
\* change of the Trigger Label two, and the end of a review that had not seen the
\* label one: whatever the poller and the reviews work on is outdated by then.
THEOREM TriggersOnce == Spec => []OncePerLabelling
<1>1. Inv => OncePerLabelling
  <2> SUFFICES ASSUME Inv, NEW p \in PR, NEW l \in label[p]
               PROVE  served[p][l] <= 1 + faults + 2 * changes + (IF <<p, l>> \in early THEN 1 ELSE 0)
    BY DEF OncePerLabelling
  <2>1. Within(p, l)
    BY DEF Inv, Budget
  <2>2. One(MayTrigger(p, l)) \in {0, 1} /\ One(MayForget(p, l)) \in {0, 1}
    BY DEF One
  <2>3. served[p][l] \in Nat /\ faults \in Nat /\ changes \in Nat
    BY Counts DEF Inv
  <2> QED BY <2>1, <2>2, <2>3 DEF Within, Allowed, One
<1> QED BY Invariance, <1>1, PTL

-----------------------------------------------------------------------------
(* First labels.                                                           *)

\* A review of the pull request was asked for, is under way or left its mark.
Handled(p) == row[p] # "none" \/ holder = p \/ p \in unwinding \cup late \/ snap[p]

\* A pull request that never had a label is not known to the trigger, unless the
\* Administrator asked for reviews.
AskedInv ==
  \A p \in PR : adds[p] = 0 =>
    /\ label[p] = {} /\ listed[p] = {} /\ \A l \in Labels : served[p][l] = 0
    /\ manuals = 0 => ~Handled(p)

\* While the Trigger Label is what it was and the Administrator asks for nothing, the
\* first label leads to a label run before anything else can happen to its pull request.
FirstInv ==
  changes = 0 /\ manuals = 0 =>
    /\ wanted \in {NoLabel, triggerLabel}
    /\ \A p \in PR : adds[p] <= 1 /\ served[p][triggerLabel] = 0 =>
         ~Handled(p) /\ ~(Saving(p) /\ wanted \in listed[p])

\* A pull request that nobody labelled, in a process in which no Administrator asked
\* for a review, is not reviewed and waits for none (CONTEXT.md:16).
OnlyIfAsked == \A p \in PR : (adds[p] = 0 /\ manuals = 0) => row[p] = "none" /\ holder # p

\* The snapshot never says of the first label on a pull request that it was there
\* before: with no manual review and no change of the Trigger Label a snapshot that
\* shows it, or an active row, is one of a label run, whatever fails, panics or dies
\* in between (ADR-0003).
FirstLabelNotMissed ==
  \A p \in PR :
    (triggerLabel \in label[p] /\ adds[p] = 1 /\ changes = 0 /\ manuals = 0) =>
      (snap[p] \/ row[p] # "none" => served[p][triggerLabel] > 0)

\* The counters only grow, and the Trigger Label changes with one of them.
LEMMA CountersGrow ==
  ASSUME TypeOK, [Next]_vars
  PROVE  /\ manuals \in Nat /\ manuals' \in Nat /\ manuals <= manuals'
         /\ changes \in Nat /\ changes' \in Nat /\ changes <= changes'
         /\ changes' = 0 => triggerLabel' = triggerLabel
         /\ \A p \in PR : adds[p] \in Nat /\ adds'[p] \in Nat /\ adds[p] <= adds'[p]
         /\ \A p \in PR, l \in Labels : AddLabel(p, l) => adds'[p] = adds[p] + 1
<1>1. TypeOK'
  BY TypeStep
<1>2. /\ manuals \in Nat /\ manuals' \in Nat /\ changes \in Nat /\ changes' \in Nat
      /\ \A p \in PR : adds[p] \in Nat /\ adds'[p] \in Nat
  BY <1>1, TriggerAssumption DEF TypeOK
<1>3. \A p \in PR, l \in Labels : AddLabel(p, l) => adds'[p] = adds[p] + 1
  BY DEF AddLabel, TypeOK
<1>4. ASSUME NEW p \in PR, NEW l \in Labels, AddLabel(p, l)
      PROVE  UNCHANGED <<manuals, repo>> /\ \A q \in PR : adds[q] <= adds'[q]
  <2>1. \A q \in PR : adds'[q] = IF q = p THEN adds[q] + 1 ELSE adds[q]
    BY <1>4 DEF AddLabel, TypeOK
  <2> QED BY <1>2, <1>4, <2>1 DEF AddLabel
<1>5. ASSUME NEW p \in PR, ManualReview(p) PROVE manuals' = manuals + 1 /\ UNCHANGED <<adds, repo>>
  BY <1>5 DEF ManualReview, host
<1>6. ASSUME NEW l \in Labels, NEW b \in Removals, UpdateRepo(l, b)
      PROVE  changes' = changes + 1 /\ UNCHANGED <<adds, manuals>>
  BY <1>6 DEF UpdateRepo, host
<1>7. ASSUME NEW p \in PR, NEW l \in Labels, TakeLabelOff(p, l) PROVE UNCHANGED <<adds, repo, manuals>>
  BY <1>7 DEF TakeLabelOff
<1>8. ASSUME NEW p \in PR, ClosePR(p) \/ Claim(p) \/ FetchPR(p) PROVE UNCHANGED <<adds, repo, manuals>>
  BY <1>8 DEF ClosePR, Claim, FetchPR, host
<1>9. CASE PollRepo \/ RunReview \/ Panic \/ Crash \/ UNCHANGED vars
  <2>1. UNCHANGED <<adds, repo, manuals>>
    BY <1>9 DEF PollRepo, StartPoll, ListOpenPullRequests, GetPRSnapshot, ScheduleReview, SaveListed,
       PollDone, RunReview, ReviewEnds, RemoveTriggerLabel, RemoveLabelFails, WriteVerdict, SaveVerdict,
       RecoverPanic, SavePanicked, Panic, Crash, vars, host
  <2> QED BY <1>2, <1>3, <2>1 DEF repo
<1> QED BY <1>2, <1>3, <1>4, <1>5, <1>6, <1>7, <1>8, <1>9 DEF Next, repo

\* How a pull request that the trigger does not know becomes known to it.
LEMMA HandledBy ==
  ASSUME TypeOK, RoundInv, [Next]_vars, NEW p \in PR, ~Handled(p), Handled(p)'
  PROVE  \/ manuals' = manuals + 1
         \/ ScheduleReview /\ cur = p /\ served'[p][wanted] = served[p][wanted] + 1
         \/ Saving(p) /\ wanted \in listed[p]
<1> USE DEF Handled
<1>1. CASE \E q \in PR, l \in Labels : AddLabel(q, l) \/ TakeLabelOff(q, l)
  BY <1>1 DEF AddLabel, TakeLabelOff, review
<1>2. CASE \E q \in PR : ClosePR(q)
  BY <1>2 DEF ClosePR, review
<1>3. CASE \E q \in PR : ManualReview(q)
  BY <1>3 DEF ManualReview
<1>4. CASE \E l \in Labels, b \in Removals : UpdateRepo(l, b)
  BY <1>4 DEF UpdateRepo, review
<1>5. CASE PollRepo /\ ~ScheduleReview /\ ~SaveListed
  BY <1>5 DEF PollRepo, StartPoll, ListOpenPullRequests, GetPRSnapshot, PollDone, review
<1>6. CASE ScheduleReview
  <2>1. UNCHANGED <<snap, review>> /\ row' = [row EXCEPT ![cur] = "pending"] /\ cur = p
    BY <1>6 DEF ScheduleReview, review, TypeOK
  <2>2. row[cur] = "none"
    BY <2>1
  <2>3. wanted \in listed[cur] /\ listed[cur] \subseteq Labels
    BY <1>6 DEF ScheduleReview, RoundInv, TypeOK
  <2>4. served' = [served EXCEPT ![cur][wanted] = served[cur][wanted] + 1]
    BY <1>6, <2>1, <2>2 DEF ScheduleReview, TypeOK
  <2> QED BY <1>6, <2>1, <2>3, <2>4 DEF TypeOK
<1>7. CASE SaveListed
  <2>1. UNCHANGED <<row, review>> /\ SavePRSnapshot(cur, wanted \in listed[cur]) /\ poll = "save"
    BY <1>7 DEF SaveListed
  <2> QED BY <2>1 DEF SavePRSnapshot, Saving, review, TypeOK
<1>8. ASSUME NEW q \in PR, Claim(q) \/ FetchPR(q) PROVE FALSE
  BY <1>8 DEF Claim, FetchPR, review, TypeOK
<1>9. CASE ReviewEnds \/ RemoveTriggerLabel \/ RemoveLabelFails
  BY <1>9 DEF ReviewEnds, RemoveTriggerLabel, RemoveLabelFails
<1>10. CASE WriteVerdict
  BY <1>10 DEF WriteVerdict, TypeOK
<1>11. CASE SaveVerdict
  <2>1. holder # p /\ holder' # p
    BY <1>11, TriggerAssumption DEF SaveVerdict, ReviewOver
  <2> QED BY <1>11, <2>1 DEF SaveVerdict, SavePRSnapshot, TypeOK
<1>12. ASSUME NEW q \in PR, RecoverPanic(q) \/ SavePanicked(q) PROVE FALSE
  BY <1>12 DEF RecoverPanic, SavePanicked, SavePRSnapshot, TypeOK
<1>13. CASE Panic
  BY <1>13, TriggerAssumption DEF Panic, ReviewOver
<1>14. CASE Crash
  BY <1>14, TriggerAssumption DEF Crash, ReviewOver
<1>15. CASE UNCHANGED vars
  BY <1>15 DEF vars, review
<1> QED
  BY <1>1, <1>2, <1>3, <1>4, <1>5, <1>6, <1>7, <1>8, <1>9, <1>10, <1>11, <1>12, <1>13, <1>14, <1>15
  DEF Next, RunReview

LEMMA AskedStep == TypeOK /\ RoundInv /\ AskedInv /\ [Next]_vars => AskedInv'
<1> SUFFICES ASSUME TypeOK, RoundInv, AskedInv, [Next]_vars, NEW p \in PR, adds'[p] = 0
             PROVE  /\ label'[p] = {} /\ listed'[p] = {} /\ \A l \in Labels : served'[p][l] = 0
                    /\ manuals' = 0 => ~Handled(p)'
  BY DEF AskedInv
<1>1. adds[p] = 0 /\ (manuals' = 0 => manuals = 0 /\ manuals' # manuals + 1)
  BY CountersGrow
<1>2. /\ label[p] = {} /\ listed[p] = {} /\ \A l \in Labels : served[p][l] = 0
      /\ manuals = 0 => ~Handled(p)
  BY <1>1 DEF AskedInv
<1>3. label'[p] = {} /\ listed'[p] = {} /\ \A l \in Labels : served'[p][l] = 0
  <2>1. ASSUME NEW q \in PR, NEW l \in Labels, AddLabel(q, l)
        PROVE  UNCHANGED <<label[p], listed[p], served[p]>>
    <3>1. q # p
      BY <1>1, <2>1, CountersGrow
    <3> QED BY <2>1, <3>1 DEF AddLabel, poller, TypeOK
  <2>2. CASE PollRepo /\ ~ScheduleReview
    <3>1. label' = label /\ served' = served
      BY <2>2 DEF PollRepo, StartPoll, ListOpenPullRequests, GetPRSnapshot, SaveListed, PollDone, host,
         history
    <3>2. listed'[p] \in {listed[p], label[p], {}}
      BY <2>2 DEF PollRepo, StartPoll, ListOpenPullRequests, GetPRSnapshot, SaveListed, PollDone, PollOver
    <3> QED BY <1>2, <3>1, <3>2
  <2>3. CASE ScheduleReview
    <3>1. cur # p
      BY <1>2, <2>3 DEF ScheduleReview, RoundInv
    <3>2. UNCHANGED <<label, listed>> /\ served'[p] = served[p]
      BY <2>3, <3>1 DEF ScheduleReview, host, TypeOK
    <3> QED BY <1>2, <3>2
  <2>4. CASE Crash
    BY <1>2, <2>4 DEF Crash, PollOver, host, history
  <2>5. CASE UNCHANGED <<poller, history>> /\ \A q \in PR : label'[q] \subseteq label[q]
    BY <1>2, <2>5 DEF poller, history
  <2> QED BY <1>2, <2>1, <2>2, <2>3, <2>4, <2>5, Bystanders
<1>4. ASSUME manuals' = 0, Handled(p)' PROVE FALSE
  <2>1. ~(ScheduleReview /\ cur = p) /\ wanted \notin listed[p]
    BY <1>2 DEF ScheduleReview, RoundInv
  <2> QED BY <1>1, <1>2, <1>4, <2>1, HandledBy
<1> QED BY <1>3, <1>4

\* The counts of a label start over when it is put on, and grow otherwise.
LEMMA ServedGrows ==
  ASSUME TypeOK, RoundInv, [Next]_vars, NEW p \in PR, NEW l \in Labels,
         ~AddLabel(p, l), served'[p][l] = 0
  PROVE  served[p][l] = 0
<1>1. ASSUME NEW q \in PR, NEW k \in Labels, AddLabel(q, k) PROVE served'[p][l] = served[p][l]
  <2>1. q # p \/ k # l
    BY <1>1
  <2> QED BY <1>1, <2>1 DEF AddLabel, TypeOK
<1>2. CASE ScheduleReview
  <2>1. wanted \in Labels /\ cur \in PR /\ served \in [PR -> [Labels -> Nat]]
    BY <1>2 DEF ScheduleReview, RoundInv, TypeOK
  <2>2. CASE served' = served
    BY <2>2
  <2>3. CASE served' = [served EXCEPT ![cur][wanted] = served[cur][wanted] + 1]
    <3>1. served[cur][wanted] \in Nat
      BY <2>1
    <3>2. CASE p = cur /\ l = wanted
      <4>1. served'[p][l] = served[p][l] + 1
        BY <2>1, <2>3, <3>2
      <4> QED BY <3>1, <3>2, <4>1
    <3>3. CASE p # cur \/ l # wanted
      BY <2>1, <2>3, <3>3
    <3> QED BY <3>2, <3>3
  <2> QED BY <1>2, <2>2, <2>3 DEF ScheduleReview
<1>3. CASE PollRepo /\ ~ScheduleReview
  BY <1>3 DEF PollRepo, StartPoll, ListOpenPullRequests, GetPRSnapshot, SaveListed, PollDone, history
<1>4. CASE Crash
  BY <1>4 DEF Crash, history
<1>5. CASE UNCHANGED <<poller, history>>
  BY <1>5 DEF history
<1> QED BY <1>1, <1>2, <1>3, <1>4, <1>5, Bystanders

LEMMA FirstStep == TypeOK /\ RoundInv /\ AskedInv /\ FirstInv /\ [Next]_vars => FirstInv'
<1> SUFFICES ASSUME TypeOK, RoundInv, AskedInv, FirstInv, [Next]_vars, changes' = 0, manuals' = 0
             PROVE  /\ wanted' \in {NoLabel, triggerLabel'}
                    /\ \A p \in PR : adds'[p] <= 1 /\ served'[p][triggerLabel'] = 0 =>
                         ~Handled(p)' /\ ~(Saving(p)' /\ wanted' \in listed'[p])
  BY DEF FirstInv
<1>1. changes = 0 /\ manuals = 0 /\ manuals' # manuals + 1 /\ triggerLabel' = triggerLabel
  BY CountersGrow
<1>2. wanted \in {NoLabel, triggerLabel} /\ triggerLabel \in Labels
  BY <1>1 DEF FirstInv, TypeOK
<1>3. wanted' \in {NoLabel, triggerLabel}
  <2>1. CASE PollRepo
    BY <1>2, <2>1 DEF PollRepo, StartPoll, ListOpenPullRequests, GetPRSnapshot, ScheduleReview, SaveListed,
       PollDone, PollOver
  <2>2. CASE Crash
    BY <2>2 DEF Crash, PollOver
  <2>3. CASE \E q \in PR, l \in Labels : AddLabel(q, l)
    BY <1>2, <2>3 DEF AddLabel, poller
  <2> QED BY <1>2, <2>1, <2>2, <2>3, Bystanders DEF poller
<1>4. ASSUME NEW p \in PR, adds'[p] <= 1, served'[p][triggerLabel] = 0
      PROVE  ~Handled(p)' /\ ~(Saving(p)' /\ wanted' \in listed'[p])
  <2>1. adds[p] <= 1 /\ served[p][triggerLabel] = 0
    <3>1. CASE AddLabel(p, triggerLabel)
      <4>1. adds[p] = 0
        BY <1>2, <1>4, <3>1, CountersGrow
      <4> QED BY <1>2, <4>1 DEF AskedInv
    <3>2. CASE ~AddLabel(p, triggerLabel)
      <4>1. served[p][triggerLabel] = 0
        BY <1>2, <1>4, <3>2, ServedGrows
      <4> QED BY <1>4, <4>1, CountersGrow
    <3> QED BY <3>1, <3>2
  <2>2. ~Handled(p) /\ ~(Saving(p) /\ wanted \in listed[p])
    BY <1>1, <2>1 DEF FirstInv
  \* Scheduling the first label creates its run.
  <2>3. ~(ScheduleReview /\ cur = p /\ served'[p][wanted] = served[p][wanted] + 1)
    <3>1. ASSUME ScheduleReview, cur = p, served'[p][wanted] = served[p][wanted] + 1 PROVE FALSE
      <4>1. wanted = triggerLabel
        BY <1>2, <3>1, TriggerAssumption DEF ScheduleReview, RoundInv, TypeOK
      <4> QED BY <1>4, <2>1, <3>1, <4>1
    <3> QED BY <3>1
  <2>4. ~Handled(p)'
    BY <1>1, <2>2, <2>3, HandledBy
  <2>5. ASSUME Saving(p)', wanted' \in listed'[p] PROVE FALSE
    <3>1. CASE PollRepo /\ ~ScheduleReview
      <4>1. ASSUME NEW q \in PR, GetPRSnapshot(q) PROVE FALSE
        <5>1. q = p /\ ~Transition(p) /\ wanted \in listed[p]
          BY <2>5, <4>1 DEF GetPRSnapshot, Saving, PollOver
        <5> QED BY <2>2, <5>1 DEF Transition, Handled
      <4> QED BY <2>5, <3>1, <4>1 DEF PollRepo, StartPoll, ListOpenPullRequests, SaveListed, PollDone,
              PollOver, Saving
    <3>2. CASE ScheduleReview
      <4>1. cur = p /\ row[cur] = "none" /\ poll' = "save"
        BY <2>2, <2>5, <3>2 DEF ScheduleReview, Saving, Handled
      <4>2. served' = [served EXCEPT ![cur][wanted] = served[cur][wanted] + 1]
        BY <3>2, <4>1 DEF ScheduleReview, TypeOK
      <4>3. wanted \in Labels
        BY <3>2 DEF ScheduleReview, RoundInv, TypeOK
      <4> QED BY <2>3, <3>2, <4>1, <4>2, <4>3 DEF TypeOK
    <3>3. CASE Crash
      BY <2>5, <3>3 DEF Crash, PollOver, Saving
    <3>4. CASE \E q \in PR, l \in Labels : AddLabel(q, l)
      BY <2>2, <2>5, <3>4 DEF AddLabel, poller, Saving
    <3>5. CASE UNCHANGED poller
      BY <2>2, <2>5, <3>5 DEF poller, Saving
    <3> QED BY <3>1, <3>2, <3>3, <3>4, <3>5, Bystanders
  <2> QED BY <2>4, <2>5
<1> QED BY <1>1, <1>3, <1>4

FirstLabels == TypeOK /\ RoundInv /\ AskedInv /\ FirstInv

LEMMA FirstLabelsInvariant == Spec => []FirstLabels
<1>1. Init => FirstLabels
  <2> SUFFICES ASSUME Init PROVE FirstLabels
    OBVIOUS
  <2>1. TypeOK /\ RoundInv
    BY InitInv DEF Inv
  <2>2. \A p \in PR : ~Handled(p)
    BY TriggerAssumption DEF Init, Handled
  <2>3. AskedInv
    BY <2>2 DEF Init, AskedInv
  <2>4. FirstInv
    BY <2>2 DEF Init, FirstInv, Saving
  <2> QED BY <2>1, <2>3, <2>4 DEF FirstLabels
<1>2. FirstLabels /\ [Next]_vars => FirstLabels'
  BY TypeStep, RoundStep, AskedStep, FirstStep DEF FirstLabels
<1> QED BY <1>1, <1>2, PTL DEF Spec

\* Nothing but a label and a manual request brings a pull request to its review.
THEOREM ReviewsAreAskedFor == Spec => []OnlyIfAsked
<1>1. FirstLabels => OnlyIfAsked
  BY DEF FirstLabels, AskedInv, OnlyIfAsked, Handled
<1> QED BY <1>1, FirstLabelsInvariant, PTL

\* The first label of a pull request gets its run before a snapshot shows it.
THEOREM FirstLabelsServed == Spec => []FirstLabelNotMissed
<1>1. FirstLabels => FirstLabelNotMissed
  <2> SUFFICES ASSUME FirstLabels, NEW p \in PR, triggerLabel \in label[p], adds[p] = 1,
                      changes = 0, manuals = 0, Handled(p)
               PROVE  served[p][triggerLabel] > 0
    BY DEF FirstLabelNotMissed, Handled
  <2>1. served[p][triggerLabel] \in Nat
    BY DEF FirstLabels, TypeOK
  <2>2. served[p][triggerLabel] # 0
    BY DEF FirstLabels, FirstInv
  <2> QED BY <2>1, <2>2
<1> QED BY <1>1, FirstLabelsInvariant, PTL
=============================================================================
