----------------------------- MODULE ReviewRuns -----------------------------
(***************************************************************************)
(* What the review_runs table promises to the rest of Review Manager and   *)
(* to the Administrator who reads it, whatever the engine behind it does:  *)
(* a row is submitted as pending, started in acceptance order and one at a *)
(* time per Registered Repo, finished exactly once, never changed after    *)
(* that, and only finished rows are retired.                               *)
(*                                                                         *)
(* Row ids stand for the order (created_at, id) of the dispatch query.     *)
(***************************************************************************)
EXTENDS Integers

CONSTANTS PR,       \* pull requests under review
          RepoOf,   \* the Registered Repo a pull request belongs to
          MaxRuns   \* bound: rows ever inserted

VARIABLES status,   \* status column of each row, "none" while there is no row
          prOf,     \* repo_id and pr_number of each row
          lastId    \* the last id AUTOINCREMENT handed out

vars == <<status, prOf, lastId>>

RunId == 1..MaxRuns
Active == {"pending", "running"}
Terminal == {"success", "failed"}
Status == {"none"} \cup Active \cup Terminal
RepoOfRun(r) == RepoOf[prOf[r]]

TypeOK ==
  /\ status \in [RunId -> Status]
  /\ prOf \in [RunId -> PR]
  /\ lastId \in 0..MaxRuns
  /\ \A r \in RunId : r > lastId => status[r] = "none"

Init ==
  /\ status = [r \in RunId |-> "none"]
  /\ prOf \in [RunId -> PR]
  /\ lastId = 0

\* A pending row that waits for nothing but a slot: its repo runs nothing.
Startable(r) ==
  /\ status[r] = "pending"
  /\ \A q \in RunId : status[q] = "running" => RepoOfRun(q) # RepoOfRun(r)

\* A row for a pull request that has no pending or running one.
Submit(p) ==
  /\ \A r \in RunId : prOf[r] = p => status[r] \notin Active
  /\ lastId < MaxRuns
  /\ lastId' = lastId + 1
  /\ status' = [status EXCEPT ![lastId + 1] = "pending"]
  /\ prOf' = [prOf EXCEPT ![lastId + 1] = p]

\* The oldest startable row starts.
Start(r) ==
  /\ Startable(r)
  /\ \A q \in RunId : Startable(q) => r <= q
  /\ status' = [status EXCEPT ![r] = "running"]
  /\ UNCHANGED <<prOf, lastId>>

\* A running row gets its verdict.
Finish(r, verdict) ==
  /\ status[r] = "running"
  /\ status' = [status EXCEPT ![r] = verdict]
  /\ UNCHANGED <<prOf, lastId>>

\* A restarted process fails the rows the previous one left running.
Interrupt ==
  /\ status' = [r \in RunId |-> IF status[r] = "running" THEN "failed" ELSE status[r]]
  /\ UNCHANGED <<prOf, lastId>>

\* Retention deletes finished rows.
Retire(rows) ==
  /\ \A r \in rows : status[r] \notin Active
  /\ status' = [r \in RunId |-> IF r \in rows THEN "none" ELSE status[r]]
  /\ UNCHANGED <<prOf, lastId>>

Next ==
  \/ \E rows \in SUBSET RunId : Retire(rows)
  \/ \E p \in PR : Submit(p)
  \/ \E r \in RunId : Start(r)
  \/ \E r \in RunId, verdict \in Terminal : Finish(r, verdict)
  \/ Interrupt

Spec == Init /\ [][Next]_vars

-----------------------------------------------------------------------------
\* A pull request has at most one pending or running row
\* (store.go CreatePendingReviewRunIfAbsent; CONTEXT.md "Pending Review Run").
OneActivePerPR ==
  \A r, q \in RunId :
    (status[r] \in Active /\ status[q] \in Active /\ prOf[r] = prOf[q]) => r = q

\* A Registered Repo has at most one running row
\* (store.go ClaimNextPendingReviewRun; CONTEXT.md "Review Concurrency").
OneRunningPerRepo ==
  \A r, q \in RunId :
    (status[r] = "running" /\ status[q] = "running" /\ RepoOfRun(r) = RepoOfRun(q)) => r = q

\* Rows of one repo start in the order they were accepted, over the whole
\* life of the table and not only at the step that picks one: once a row has
\* started, no older row of its repo is still waiting.
RepoFIFO ==
  \A r, q \in RunId :
    (r < q /\ RepoOfRun(r) = RepoOfRun(q) /\ status[q] \in {"running"} \cup Terminal)
      => status[r] # "pending"

\* A verdict is final: a finished row may be deleted but never rewritten, so a
\* goroutine that outlived its row's verdict cannot bring the row back.
VerdictIsFinal ==
  [][\A r \in RunId :
       status[r] \in Terminal => status'[r] \in {status[r], "none"}]_vars

=============================================================================
