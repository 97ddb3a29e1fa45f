------------------------- MODULE ReviewEngineProofs -------------------------
(* What the scheduler guarantees for every number of repos, pull requests, *)
(* requests, rows, limits and restarts.                                    *)
EXTENDS ReviewEngine, FiniteSetTheorems, TLAPS

-----------------------------------------------------------------------------
(* Types.                                                                  *)

\* The status column holds one of its values whatever is written to it.
LEMMA WriteStatusType ==
  ASSUME TypeOK, NEW r \in RunId, NEW s \in Active \cup Terminal, WriteStatus(r, s)
  PROVE  /\ status' \in [RunId -> {"none"} \cup Active \cup Terminal]
         /\ \A q \in RunId : q # r => status'[q] = status[q]
         /\ status'[r] \in {status[r], s}
         /\ \A q \in RunId : status[q] = "none" => status'[q] = "none"
BY DEF WriteStatus, TypeOK

LEMMA InitType == Init => TypeOK
<1> SUFFICES ASSUME Init PROVE TypeOK
  OBVIOUS
<1>1. prOf \in [RunId -> PR]
  <2>1. (CHOOSE p \in PR : TRUE) \in PR
    BY EngineAssumption
  <2>2. QED
    BY <2>1 DEF Init
<1>2. QED
  BY <1>1, EngineAssumption DEF Init, TypeOK, Phases, DispatchSteps, JobSteps, RunId, Actor, NoRun

LEMMA ScheduleType ==
  ASSUME TypeOK, NEW a \in Actor, NEW p \in PR, ScheduleReview(a, p)
  PROVE  TypeOK'
<1> USE DEF ScheduleReview
<1>1. lastId + 1 \in RunId /\ lastId' \in 0..MaxRuns
  BY EngineAssumption DEF TypeOK, RunId
<1>2. \A r \in RunId : r > lastId' => status'[r] = "none"
  BY <1>1, EngineAssumption DEF TypeOK, RunId
<1>3. QED
  BY <1>1, <1>2 DEF TypeOK, DispatchSteps, Active, RunId, Actor

LEMMA DispatchType ==
  ASSUME TypeOK, NEW a \in Actor, Dispatch(a)
  PROVE  TypeOK'
<1> USE DEF TypeOK, NotDispatching, DispatchSteps, JobSteps
<1>1. CASE LockDispatch(a)
  BY <1>1 DEF LockDispatch
<1>2. CASE ReadLimit(a)
  BY <1>2 DEF ReadLimit, Readable
<1>3. CASE AcquireGlobal(a)
  BY <1>3 DEF AcquireGlobal, LeaveDispatch
<1>4. CASE ClaimNext(a)
  <2>1. PICK r \in RunId : /\ NextClaim(r)
                           /\ status' = [status EXCEPT ![r] = "running"]
                           /\ job' = [job EXCEPT ![r] = "repo"]
    BY <1>4 DEF ClaimNext
  <2>2. status[r] = "pending"
    BY <2>1 DEF NextClaim, Claimable
  <2>3. status' \in [RunId -> {"none"} \cup Active \cup Terminal] /\ job' \in [RunId -> JobSteps]
    BY <2>1 DEF Active
  <2>4. \A q \in RunId : q > lastId' => status'[q] = "none"
    BY <1>4, <2>1, <2>2 DEF ClaimNext
  <2>5. QED
    BY <1>4, <2>3, <2>4 DEF ClaimNext
<1>5. CASE ClaimNothing(a)
  BY <1>5 DEF ClaimNothing, LeaveDispatch
<1>6. CASE AbandonDispatch(a)
  BY <1>6 DEF AbandonDispatch, LeaveDispatch, SlotsHeld
<1>7. QED
  BY <1>1, <1>2, <1>3, <1>4, <1>5, <1>6 DEF Dispatch

LEMMA ReviewType ==
  ASSUME TypeOK, NEW r \in RunId, Review(r) \/ Panic(r)
  PROVE  TypeOK'
<1> USE DEF NotReviewing, Goto
<1>1. RepoOfRun(r) \in Repo /\ r \in Actor
  BY EngineAssumption DEF TypeOK, RepoOfRun, Actor
<1>2. CASE LockRepo(r)
  BY <1>1, <1>2 DEF LockRepo, TypeOK, JobSteps
<1>3. CASE FetchPR(r)
  BY <1>3, WriteStatusType DEF FetchPR, TypeOK, JobSteps, StatusInMemory, Active
<1>4. CASE StartOCR(r)
  BY <1>4, WriteStatusType DEF StartOCR, TypeOK, JobSteps, StatusInMemory, Active
<1>5. CASE FinishOCR(r)
  BY <1>5 DEF FinishOCR, TypeOK, JobSteps
<1>6. CASE WriteVerdict(r)
  BY <1>6, WriteStatusType DEF WriteVerdict, TypeOK, JobSteps, Terminal
<1>7. CASE UnlockRepo(r)
  BY <1>1, <1>7 DEF UnlockRepo, TypeOK, JobSteps
<1>8. CASE RecoverPanic(r)
  BY <1>8, WriteStatusType DEF RecoverPanic, TypeOK, JobSteps, Terminal
<1>9. CASE ReleaseGlobal(r)
  BY <1>1, <1>9 DEF ReleaseGlobal, TypeOK, JobSteps, DispatchSteps
<1>10. CASE Panic(r)
  BY <1>1, <1>10 DEF Panic, TypeOK, JobSteps
<1>11. QED
  BY <1>2, <1>3, <1>4, <1>5, <1>6, <1>7, <1>8, <1>9, <1>10 DEF Review

LEMMA NextType == TypeOK /\ [Next]_vars => TypeOK'
<1> SUFFICES ASSUME TypeOK, [Next]_vars PROVE TypeOK'
  OBVIOUS
<1>1. ASSUME NEW a \in Actor, NEW p \in PR, ScheduleReview(a, p) PROVE TypeOK'
  BY <1>1, ScheduleType
<1>2. ASSUME NEW a \in Actor, Dispatch(a) PROVE TypeOK'
  BY <1>2, DispatchType
<1>3. ASSUME NEW r \in RunId, Review(r) \/ Panic(r) PROVE TypeOK'
  BY <1>3, ReviewType
<1>4. CASE Recover
  BY <1>4 DEF Recover, Interrupted, TypeOK, Phases, Terminal
<1>5. CASE PruneHomes
  BY <1>5 DEF PruneHomes, rows, TypeOK, Phases, DispatchSteps, Actor
<1>6. ASSUME NEW last \in RunId, PurgeOldRuns(last) PROVE TypeOK'
  BY <1>6 DEF PurgeOldRuns, volatile, TypeOK
<1>7. ASSUME NEW n \in Limits, SaveSettings(n) PROVE TypeOK'
  BY <1>7 DEF SaveSettings, rows, volatile, TypeOK
<1>8. CASE Crash
  BY <1>8, EngineAssumption DEF Crash, rows, TypeOK, Phases, DispatchSteps, JobSteps, NoRun
<1>9. CASE UNCHANGED vars
  BY <1>9 DEF vars, rows, volatile, TypeOK
<1>10. QED
  BY <1>1, <1>2, <1>3, <1>4, <1>5, <1>6, <1>7, <1>8, <1>9 DEF Next

\* Every variable keeps its type, under every fault.
THEOREM TypeCorrect == Spec => []TypeOK
BY InitType, NextType, PTL DEF Spec

-----------------------------------------------------------------------------
(* Slots.  A goroutine enters Live from "pending" only, so it was not there *)
(* before; and only the holder of dispatchMu can be between taking a slot   *)
(* and filling it.                                                         *)

DispatchMuInv == \A a \in Actor : disp[a] \in {"limit", "slot", "claim"} => dispatchMu = a

FreshInv == \A r \in RunId : (status[r] = "pending" \/ r > lastId) => job[r] = "none"

IdleInv ==
  /\ \A r \in RunId : job[r] # "done" => disp[r] = "off"
  /\ main # "loop" => disp[Main] = "off"

LimitInv ==
  /\ \E n \in Readable(Limits) : running <= n
  /\ \A a \in Actor : disp[a] = "slot" => limit \in Readable(Limits)

SlotInv == DispatchMuInv /\ FreshInv /\ IdleInv /\ LimitInv /\ SlotAccounting

LEMMA ActorsFinite == IsFiniteSet(RunId) /\ IsFiniteSet(Actor)
<1>1. IsFiniteSet(RunId)
  BY EngineAssumption, FS_Interval DEF RunId
<1>2. IsFiniteSet({Main})
  BY FS_Singleton
<1>3. IsFiniteSet({Main} \cup Http \cup RunId)
  BY <1>1, <1>2, EngineAssumption, FS_Union
<1>4. QED
  BY <1>1, <1>3 DEF Actor

LEMMA SlotsFinite ==
  /\ IsFiniteSet(RunId) /\ IsFiniteSet(Live) /\ IsFiniteSet(Claiming)
  /\ Cardinality(Live) \in Nat /\ Cardinality(Claiming) \in Nat
<1>1. IsFiniteSet(Live) /\ IsFiniteSet(Claiming)
  BY ActorsFinite, FS_Subset DEF Live, Claiming
<1>2. QED
  BY <1>1, ActorsFinite, FS_CardinalityType

\* A step that neither takes nor gives back a slot.
LEMMA SameSlots ==
  ASSUME SlotAccounting, Live' = Live, Claiming' = Claiming, running' = running
  PROVE  SlotAccounting'
BY DEF SlotAccounting

LEMMA InitSlot == Init => SlotInv
<1> SUFFICES ASSUME Init PROVE SlotInv
  OBVIOUS
<1>1. Live = {} /\ Claiming = {}
  BY DEF Init, Live, Claiming
<1>2. SlotAccounting
  BY <1>1, FS_EmptySet DEF Init, SlotAccounting
<1>3. PICK n \in Limits : n \in Nat
  BY EngineAssumption
<1>4. n \in Readable(Limits) /\ running <= n
  BY <1>3 DEF Init, Readable
<1>5. Main \in Actor /\ RunId \subseteq Actor
  BY DEF Actor
<1>6. LimitInv
  BY <1>4 DEF LimitInv, Init
<1>7. QED
  BY <1>2, <1>5, <1>6 DEF SlotInv, DispatchMuInv, FreshInv, IdleInv, Init

\* ScheduleReview: the new row's goroutine does not exist.
LEMMA ScheduleSlot ==
  ASSUME TypeOK, SlotInv, NEW a \in Actor, NEW p \in PR, ScheduleReview(a, p)
  PROVE  SlotInv'
<1> USE DEF ScheduleReview
<1>1. a \notin RunId /\ (a = Main => main = "loop")
  BY EngineAssumption DEF RunId, MaySchedule
<1>2. disp[a] = "off" /\ disp' = [disp EXCEPT ![a] = "lock"] /\ UNCHANGED <<job, main, dispatchMu, running, limit>>
  BY DEF MaySchedule
<1>3. Live' = Live /\ Claiming' = Claiming
  BY <1>2 DEF Live, Claiming, TypeOK
<1>4. SlotAccounting'
  BY <1>2, <1>3, SameSlots DEF SlotInv
<1>5. DispatchMuInv' /\ LimitInv'
  BY <1>2 DEF SlotInv, DispatchMuInv, LimitInv, TypeOK
<1>6. FreshInv'
  <2>1. lastId + 1 \in RunId /\ lastId \in Nat
    BY EngineAssumption DEF TypeOK, RunId
  <2>2. QED
    BY <2>1 DEF SlotInv, FreshInv, TypeOK, RunId
<1>7. IdleInv'
  BY <1>1, <1>2 DEF SlotInv, IdleInv, TypeOK, Actor
<1>8. QED
  BY <1>4, <1>5, <1>6, <1>7 DEF SlotInv

\* A step of tryDispatch other than the claim.
LEMMA DispatchSlot ==
  ASSUME TypeOK, SlotInv, NEW a \in Actor, Dispatch(a), ~ClaimNext(a)
  PROVE  SlotInv'
<1>1. UNCHANGED <<job, status, lastId, main>> /\ disp[a] # "off"
  BY DEF Dispatch, LockDispatch, ReadLimit, AcquireGlobal, ClaimNothing, AbandonDispatch, NotDispatching
<1>2. \A b \in Actor : b # a => disp'[b] = disp[b]
  BY DEF Dispatch, LockDispatch, ReadLimit, AcquireGlobal, ClaimNothing, AbandonDispatch,
         LeaveDispatch, TypeOK
<1>3. FreshInv'
  BY <1>1 DEF SlotInv, FreshInv
<1>4. IdleInv'
  BY <1>1, <1>2 DEF SlotInv, IdleInv, Actor
<1>5. Live' = Live
  BY <1>1 DEF Live
<1>6. CASE LockDispatch(a)
  <2>1. Claiming' = Claiming
    BY <1>6 DEF LockDispatch, Claiming, TypeOK
  <2>2. SlotAccounting'
    BY <1>5, <1>6, <2>1, SameSlots DEF SlotInv, LockDispatch
  <2>3. DispatchMuInv'
    BY <1>6, EngineAssumption DEF LockDispatch, DispatchMuFree, SlotInv, DispatchMuInv, TypeOK, Actor, RunId
  <2>4. LimitInv'
    BY <1>6 DEF LockDispatch, SlotInv, LimitInv, TypeOK
  <2>5. QED
    BY <1>3, <1>4, <2>2, <2>3, <2>4 DEF SlotInv
<1>7. CASE ReadLimit(a)
  <2>1. Claiming' = Claiming
    BY <1>7 DEF ReadLimit, Claiming, TypeOK
  <2>2. SlotAccounting'
    BY <1>5, <1>7, <2>1, SameSlots DEF SlotInv, ReadLimit
  <2>3. DispatchMuInv'
    BY <1>7 DEF ReadLimit, SlotInv, DispatchMuInv, TypeOK
  <2>4. limit' \in Readable(Limits) /\ running' = running
    BY <1>7 DEF ReadLimit, Readable, TypeOK
  <2>5. QED
    BY <1>3, <1>4, <2>2, <2>3, <2>4 DEF SlotInv, LimitInv
<1>8. CASE AcquireGlobal(a)
  <2>1. disp[a] = "slot" /\ a \notin Claiming
    BY <1>8 DEF AcquireGlobal, Claiming
  <2>2. CASE SlotFree /\ running' = running + 1 /\ disp' = [disp EXCEPT ![a] = "claim"]
             /\ UNCHANGED <<dispatchMu, limit>>
    <3>1. Claiming' = Claiming \cup {a}
      BY <2>1, <2>2 DEF Claiming, TypeOK
    <3>2. Cardinality(Claiming') = Cardinality(Claiming) + 1
      BY <3>1, <2>1, SlotsFinite, FS_AddElement
    <3>3. SlotAccounting'
      BY <3>2, <2>2, <1>5, SlotsFinite DEF SlotInv, SlotAccounting
    <3>4. DispatchMuInv'
      BY <2>1, <2>2 DEF SlotInv, DispatchMuInv, TypeOK
    <3>5. limit \in Readable(Limits) /\ running' <= limit
      BY <2>1, <2>2, EngineAssumption DEF SlotInv, LimitInv, SlotFree, TypeOK
    <3>6. LimitInv'
      BY <3>5, <2>2, <2>1 DEF SlotInv, LimitInv, TypeOK
    <3>7. QED
      BY <1>3, <1>4, <3>3, <3>4, <3>6 DEF SlotInv
  <2>3. CASE LeaveDispatch(a) /\ UNCHANGED running
    <3>1. Claiming' = Claiming
      BY <2>1, <2>3 DEF Claiming, LeaveDispatch, TypeOK
    <3>2. SlotAccounting'
      BY <1>5, <2>3, <3>1, SameSlots DEF SlotInv
    <3>3. \A b \in Actor : disp'[b] \notin {"limit", "slot", "claim"}
      BY <2>1, <2>3 DEF LeaveDispatch, SlotInv, DispatchMuInv, TypeOK
    <3>4. QED
      BY <1>3, <1>4, <2>3, <3>2, <3>3 DEF SlotInv, DispatchMuInv, LimitInv
  <2>4. QED
    BY <1>8, <2>2, <2>3 DEF AcquireGlobal
<1>9. CASE ClaimNothing(a) \/ AbandonDispatch(a)
  <2>1. /\ LeaveDispatch(a) /\ disp[a] \in {"limit", "slot", "claim"}
        /\ running' = IF a \in Claiming THEN running - 1 ELSE running
    BY <1>9 DEF ClaimNothing, AbandonDispatch, SlotsHeld, Claiming, TypeOK
  <2>2. \A b \in Actor : disp'[b] \notin {"limit", "slot", "claim"}
    BY <2>1 DEF LeaveDispatch, SlotInv, DispatchMuInv, TypeOK
  <2>3. Claiming' = Claiming \ {a}
    BY <2>1, <2>2 DEF Claiming, SlotInv, DispatchMuInv
  <2>4. Cardinality(Claiming') = IF a \in Claiming THEN Cardinality(Claiming) - 1 ELSE Cardinality(Claiming)
    BY <2>3, SlotsFinite, FS_RemoveElement
  <2>5. SlotAccounting'
    BY <2>1, <2>4, <1>5, SlotsFinite DEF SlotInv, SlotAccounting
  <2>6. LimitInv'
    <3>1. PICK n \in Readable(Limits) : running <= n
      BY DEF SlotInv, LimitInv
    <3>2. n \in Int
      BY EngineAssumption DEF Readable
    <3>3. running' <= n
      BY <2>1, <3>1, <3>2 DEF TypeOK
    <3>4. QED
      BY <2>2, <3>3 DEF LimitInv, Readable
  <2>7. QED
    BY <1>3, <1>4, <2>2, <2>5, <2>6 DEF SlotInv, DispatchMuInv
<1>10. QED
  BY <1>6, <1>7, <1>8, <1>9 DEF Dispatch

\* The claim turns the slot of the dispatcher into the slot of a goroutine.
LEMMA ClaimSlot ==
  ASSUME TypeOK, SlotInv, NEW a \in Actor, ClaimNext(a)
  PROVE  SlotInv'
<1>1. PICK r \in RunId : /\ NextClaim(r)
                         /\ status' = [status EXCEPT ![r] = "running"]
                         /\ job' = [job EXCEPT ![r] = "repo"]
  BY DEF ClaimNext
<1>2. status[r] = "pending" /\ job[r] = "none" /\ r \notin Live
  BY <1>1 DEF NextClaim, Claimable, SlotInv, FreshInv, Live
<1>3. disp[a] = "claim" /\ disp' = [disp EXCEPT ![a] = "limit"]
      /\ UNCHANGED <<dispatchMu, limit, running, lastId, main>>
  BY DEF ClaimNext, NotDispatching
<1>4. a # r
  BY <1>2, <1>3 DEF SlotInv, IdleInv
<1>5. Live' = Live \cup {r}
  BY <1>1 DEF Live, TypeOK
<1>6. Claiming' = Claiming \ {a} /\ a \in Claiming
  BY <1>3 DEF Claiming, TypeOK
<1>7. SlotAccounting'
  <2>1. Cardinality(Live') = Cardinality(Live) + 1
    BY <1>2, <1>5, SlotsFinite, FS_AddElement
  <2>2. Cardinality(Claiming') = Cardinality(Claiming) - 1
    BY <1>6, SlotsFinite, FS_RemoveElement
  <2>3. QED
    BY <2>1, <2>2, <1>3, SlotsFinite DEF SlotInv, SlotAccounting
<1>8. DispatchMuInv' /\ LimitInv'
  BY <1>3 DEF SlotInv, DispatchMuInv, LimitInv, TypeOK
<1>9. FreshInv'
  <2>1. r <= lastId
    BY <1>2 DEF TypeOK, RunId
  <2>2. QED
    BY <1>1, <1>3, <2>1 DEF SlotInv, FreshInv, TypeOK, RunId
<1>10. IdleInv'
  BY <1>1, <1>2, <1>3, <1>4 DEF SlotInv, IdleInv, TypeOK, Actor
<1>11. QED
  BY <1>7, <1>8, <1>9, <1>10 DEF SlotInv

\* A goroutine keeps its slot until it releases it, and has no other step that
\* touches the dispatcher.
LEMMA ReviewSlot ==
  ASSUME TypeOK, SlotInv, NEW r \in RunId, Review(r) \/ Panic(r)
  PROVE  SlotInv'
<1> USE DEF NotReviewing, Goto
<1>1. r \in Live /\ UNCHANGED <<lastId, dispatchMu, limit, main>> /\ r \in Actor
  BY DEF Review, Panic, LockRepo, FetchPR, StartOCR, FinishOCR, WriteVerdict, UnlockRepo,
         RecoverPanic, ReleaseGlobal, Live, Actor
<1>2. \A q \in RunId : q # r => job'[q] = job[q]
  BY DEF Review, Panic, LockRepo, FetchPR, StartOCR, FinishOCR, WriteVerdict, UnlockRepo,
         RecoverPanic, ReleaseGlobal, TypeOK
<1>3. \A q \in RunId : status'[q] = "pending" => status[q] = "pending"
  BY DEF Review, Panic, LockRepo, FetchPR, StartOCR, FinishOCR, WriteVerdict, UnlockRepo,
         RecoverPanic, ReleaseGlobal, TypeOK, WriteStatus, StatusInMemory
<1>4. FreshInv'
  BY <1>1, <1>2, <1>3 DEF SlotInv, FreshInv, Live
<1>5. disp[r] = "off"
  BY <1>1 DEF SlotInv, IdleInv, Live
<1>6. CASE ReleaseGlobal(r)
  <2>1. Claiming' = Claiming
    BY <1>5, <1>6 DEF ReleaseGlobal, Claiming, TypeOK
  <2>2. Live' = Live \ {r}
    BY <1>6 DEF ReleaseGlobal, Live, TypeOK
  <2>3. SlotAccounting'
    <3>1. Cardinality(Live') = Cardinality(Live) - 1
      BY <2>2, <1>1, SlotsFinite, FS_RemoveElement
    <3>2. QED
      BY <3>1, <2>1, <1>6, SlotsFinite DEF ReleaseGlobal, SlotInv, SlotAccounting
  <2>4. DispatchMuInv'
    BY <1>1, <1>6 DEF ReleaseGlobal, SlotInv, DispatchMuInv, TypeOK
  <2>5. LimitInv'
    <3>1. PICK n \in Readable(Limits) : running <= n
      BY DEF SlotInv, LimitInv
    <3>2. n \in Int /\ running' <= n
      BY <3>1, <1>6, EngineAssumption DEF Readable, ReleaseGlobal, TypeOK
    <3>3. QED
      BY <3>2, <1>1, <1>6 DEF ReleaseGlobal, SlotInv, LimitInv, Readable, TypeOK
  <2>6. IdleInv'
    BY <1>1, <1>2, <1>6, EngineAssumption DEF ReleaseGlobal, SlotInv, IdleInv, TypeOK, Actor, RunId
  <2>7. QED
    BY <1>4, <2>3, <2>4, <2>5, <2>6 DEF SlotInv
<1>7. CASE ~ReleaseGlobal(r)
  <2>1. UNCHANGED <<disp, running>> /\ job'[r] \notin {"none", "done"}
    BY <1>7 DEF Review, Panic, LockRepo, FetchPR, StartOCR, FinishOCR, WriteVerdict, UnlockRepo,
                RecoverPanic, TypeOK
  <2>2. Live' = Live /\ Claiming' = Claiming
    BY <1>1, <1>2, <2>1 DEF Live, Claiming
  <2>3. SlotAccounting'
    BY <2>1, <2>2, SameSlots DEF SlotInv
  <2>4. IdleInv'
    BY <1>1, <1>2, <1>5, <2>1 DEF SlotInv, IdleInv
  <2>5. DispatchMuInv' /\ LimitInv'
    BY <1>1, <2>1 DEF SlotInv, DispatchMuInv, LimitInv, Readable
  <2>6. QED
    BY <1>4, <2>3, <2>4, <2>5 DEF SlotInv
<1>8. QED
  BY <1>6, <1>7

LEMMA NextSlot == TypeOK /\ SlotInv /\ [Next]_vars => SlotInv'
<1> SUFFICES ASSUME TypeOK, SlotInv, [Next]_vars PROVE SlotInv'
  OBVIOUS
<1>1. ASSUME NEW a \in Actor, NEW p \in PR, ScheduleReview(a, p) PROVE SlotInv'
  BY <1>1, ScheduleSlot
<1>2. ASSUME NEW a \in Actor, Dispatch(a) PROVE SlotInv'
  BY <1>2, DispatchSlot, ClaimSlot
<1>3. ASSUME NEW r \in RunId, Review(r) \/ Panic(r) PROVE SlotInv'
  BY <1>3, ReviewSlot
<1>4. ASSUME /\ UNCHANGED <<disp, dispatchMu, limit, running, job, lastId>>
             /\ main' = "loop" => main = "loop"
             /\ \A r \in RunId : status'[r] = "pending" => status[r] = "pending"
             /\ main' # "loop" => main # "loop"
      PROVE  SlotInv'
  <2>1. Live' = Live /\ Claiming' = Claiming
    BY <1>4 DEF Live, Claiming
  <2>2. SlotAccounting'
    BY <1>4, <2>1, SameSlots DEF SlotInv
  <2>3. QED
    BY <1>4, <2>2 DEF SlotInv, DispatchMuInv, FreshInv, IdleInv, LimitInv, Readable
<1>5. CASE Recover
  BY <1>4, <1>5 DEF Recover, Interrupted
<1>6. CASE PruneHomes
  <2>1. /\ main # "loop" /\ disp[Main] = "off" /\ Main \notin RunId /\ Main \in Actor
        /\ disp' = [disp EXCEPT ![Main] = "lock"] /\ main' = "loop"
        /\ UNCHANGED <<dispatchMu, limit, running, job, lastId, status>>
    BY <1>6, EngineAssumption DEF PruneHomes, MayPrune, SlotInv, IdleInv, Actor, RunId, rows
  <2>2. Live' = Live /\ Claiming' = Claiming
    BY <2>1 DEF Live, Claiming, TypeOK
  <2>3. SlotAccounting'
    BY <2>1, <2>2, SameSlots DEF SlotInv
  <2>4. DispatchMuInv' /\ LimitInv'
    BY <2>1 DEF SlotInv, DispatchMuInv, LimitInv, TypeOK, Readable
  <2>5. FreshInv' /\ IdleInv'
    BY <2>1 DEF SlotInv, FreshInv, IdleInv, TypeOK, Actor
  <2>6. QED
    BY <2>3, <2>4, <2>5 DEF SlotInv
<1>7. ASSUME NEW last \in RunId, PurgeOldRuns(last) PROVE SlotInv'
  BY <1>4, <1>7 DEF PurgeOldRuns, volatile
<1>8. ASSUME NEW n \in Limits, SaveSettings(n) PROVE SlotInv'
  BY <1>4, <1>8 DEF SaveSettings, rows, volatile
<1>9. CASE Crash
  <2>1. Live' = {} /\ Claiming' = {} /\ running' = 0
    BY <1>9 DEF Crash, Live, Claiming
  <2>2. SlotAccounting'
    BY <2>1, FS_EmptySet DEF SlotAccounting
  <2>3. LimitInv'
    <3>1. PICK n \in Limits : n \in Nat
      BY EngineAssumption
    <3>2. n \in Readable(Limits)' /\ running' <= n
      BY <2>1, <3>1 DEF Readable
    <3>3. QED
      BY <1>9, <3>2 DEF Crash, LimitInv
  <2>4. DispatchMuInv' /\ FreshInv' /\ IdleInv'
    BY <1>9 DEF Crash, DispatchMuInv, FreshInv, IdleInv, Actor
  <2>5. QED
    BY <2>2, <2>3, <2>4 DEF SlotInv
<1>10. CASE UNCHANGED vars
  BY <1>4, <1>10 DEF vars, rows, volatile
<1>11. QED
  BY <1>1, <1>2, <1>3, <1>5, <1>6, <1>7, <1>8, <1>9, <1>10 DEF Next

\* No slot is leaked or returned twice, whatever fails, panics or is cancelled.
THEOREM SlotsAccounted == Spec => []SlotAccounting
<1>1. SlotInv => SlotAccounting
  BY DEF SlotInv
<1>2. QED
  BY <1>1, InitType, NextType, InitSlot, NextSlot, PTL DEF Spec

\* The goroutines under way never exceed a limit that could have been read.
THEOREM ConcurrencyBounded == Spec => []ConcurrencyBound
<1>1. TypeOK /\ SlotInv => ConcurrencyBound
  <2> SUFFICES ASSUME TypeOK, SlotInv PROVE ConcurrencyBound
    OBVIOUS
  <2>1. PICK n \in Readable(Limits) : running <= n
    BY DEF SlotInv, LimitInv
  <2>2. n \in Int
    BY EngineAssumption DEF Readable
  <2>3. Cardinality(Live) <= running
    BY SlotsFinite DEF SlotInv, SlotAccounting
  <2>4. Cardinality(Live) <= n
    BY <2>1, <2>2, <2>3, SlotsFinite DEF TypeOK
  <2>5. QED
    BY <2>4 DEF ConcurrencyBound
<1>2. QED
  BY <1>1, InitType, NextType, InitSlot, NextSlot, PTL DEF Spec

\* Nobody but the dispatcher that read the limit fills slots before it gives
\* dispatchMu back, so a slot that was taken within the limit stays within it.
ClaimInv == \A a \in Actor : disp[a] = "claim" => running <= limit

LEMMA NextClaimInv == TypeOK /\ SlotInv /\ ClaimInv /\ [Next]_vars => ClaimInv'
<1> SUFFICES ASSUME TypeOK, SlotInv, ClaimInv, [Next]_vars PROVE ClaimInv'
  OBVIOUS
<1> USE DEF ClaimInv
<1>1. ASSUME NEW a \in Actor, NEW p \in PR, ScheduleReview(a, p) PROVE ClaimInv'
  BY <1>1 DEF ScheduleReview, TypeOK
<1>2. ASSUME NEW a \in Actor, Dispatch(a) PROVE ClaimInv'
  <2>1. ASSUME disp[a] # "lock", NEW b \in Actor, b # a PROVE disp'[b] # "claim"
    <3>1. disp[a] \in {"limit", "slot", "claim"} /\ disp'[b] = disp[b]
      BY <1>2, <2>1 DEF Dispatch, LockDispatch, ReadLimit, AcquireGlobal, ClaimNext, ClaimNothing,
                        AbandonDispatch, LeaveDispatch, TypeOK
    <3>2. QED
      BY <2>1, <3>1 DEF SlotInv, DispatchMuInv
  <2>2. CASE LockDispatch(a)
    BY <2>2 DEF LockDispatch, TypeOK
  <2>3. CASE AcquireGlobal(a)
    <3>1. disp'[a] = "claim" => running' = running + 1 /\ running < limit /\ limit' = limit
      BY <2>3 DEF AcquireGlobal, SlotFree, LeaveDispatch, TypeOK
    <3>2. limit \in Int /\ running \in Int
      BY EngineAssumption, <2>3 DEF AcquireGlobal, SlotInv, LimitInv, Readable, TypeOK
    <3>3. QED
      BY <2>1, <2>3, <3>1, <3>2 DEF AcquireGlobal
  <2>4. CASE ReadLimit(a) \/ ClaimNext(a) \/ ClaimNothing(a) \/ AbandonDispatch(a)
    <3>1. disp[a] # "lock" /\ disp'[a] # "claim"
      BY <2>4 DEF ReadLimit, ClaimNext, ClaimNothing, AbandonDispatch, LeaveDispatch, TypeOK
    <3>2. QED
      BY <2>1, <3>1
  <2>5. QED
    BY <1>2, <2>2, <2>3, <2>4 DEF Dispatch
<1>3. ASSUME NEW r \in RunId, Review(r) \/ Panic(r) PROVE ClaimInv'
  <2>1. /\ limit' = limit
        /\ running' = running \/ running' = running - 1
        /\ \A a \in Actor : disp'[a] = "claim" => disp[a] = "claim"
    BY <1>3 DEF Review, Panic, LockRepo, FetchPR, StartOCR, FinishOCR, WriteVerdict, UnlockRepo,
                RecoverPanic, ReleaseGlobal, NotReviewing, TypeOK
  <2>2. limit \in Int /\ running \in Int
    BY EngineAssumption DEF TypeOK
  <2>3. QED
    BY <2>1, <2>2
<1>4. CASE Recover
  BY <1>4 DEF Recover
<1>5. CASE PruneHomes
  BY <1>5 DEF PruneHomes, TypeOK
<1>6. ASSUME NEW last \in RunId, PurgeOldRuns(last) PROVE ClaimInv'
  BY <1>6 DEF PurgeOldRuns, volatile
<1>7. ASSUME NEW n \in Limits, SaveSettings(n) PROVE ClaimInv'
  BY <1>7 DEF SaveSettings, volatile
<1>8. CASE Crash
  BY <1>8 DEF Crash
<1>9. CASE UNCHANGED vars
  BY <1>9 DEF vars, volatile
<1>10. QED
  BY <1>1, <1>2, <1>3, <1>4, <1>5, <1>6, <1>7, <1>8, <1>9 DEF Next

\* A review starts only while the goroutines under way, itself included, fit
\* into the limit that its dispatcher read: after the Administrator lowers the
\* limit the engine drains to the new one and starts nothing above it, although
\* other goroutines end and rows are claimed in between (engine.go, acquireGlobal).
StartsWithinLimit ==
  [][\A r \in RunId : job[r] # "repo" /\ job'[r] = "repo" => Cardinality(Live') <= limit]_vars

\* No review starts above the limit that was read for it, under every fault.
THEOREM ReviewsStartWithinLimit == Spec => StartsWithinLimit
<1>1. Init => ClaimInv
  BY DEF Init, ClaimInv
<1>2. TypeOK /\ TypeOK' /\ SlotInv /\ SlotInv' /\ ClaimInv /\ [Next]_vars
        => [\A r \in RunId : job[r] # "repo" /\ job'[r] = "repo" => Cardinality(Live') <= limit]_vars
  <2> SUFFICES ASSUME TypeOK, TypeOK', SlotInv, SlotInv', ClaimInv, Next,
                      NEW r \in RunId, job[r] # "repo", job'[r] = "repo"
               PROVE  Cardinality(Live') <= limit
    OBVIOUS
  <2>1. PICK a \in Actor : ClaimNext(a)
    <3>1. ASSUME NEW a \in Actor, Dispatch(a), ~ClaimNext(a) PROVE FALSE
      BY <3>1 DEF Dispatch, LockDispatch, ReadLimit, AcquireGlobal, ClaimNothing, AbandonDispatch
    <3>2. ASSUME NEW q \in RunId, Review(q) \/ Panic(q) PROVE FALSE
      BY <3>2 DEF Review, Panic, LockRepo, FetchPR, StartOCR, FinishOCR, WriteVerdict, UnlockRepo,
                  RecoverPanic, ReleaseGlobal, Goto, TypeOK
    <3>3. QED
      BY <3>1, <3>2 DEF Next, ScheduleReview, Recover, PruneHomes, PurgeOldRuns, SaveSettings, Crash,
                        volatile
  <2>2. running <= limit /\ running' = running
    BY <2>1 DEF ClaimNext, ClaimInv
  <2>3. running' = Cardinality(Live') + Cardinality(Claiming')
    BY DEF SlotInv, SlotAccounting
  <2>4. Cardinality(Live') \in Nat /\ Cardinality(Claiming') \in Nat
    <3>1. IsFiniteSet(Live') /\ IsFiniteSet(Claiming')
      <4>1. IsFiniteSet(RunId) /\ IsFiniteSet(Actor)
        BY ActorsFinite
      <4>2. QED
        BY <4>1, FS_Subset DEF Live, Claiming
    <3>2. QED
      BY <3>1, FS_CardinalityType
  <2>5. limit \in Int
    BY EngineAssumption DEF TypeOK
  <2>6. QED
    BY <2>2, <2>3, <2>4, <2>5
<1>3. QED
  BY <1>1, <1>2, InitType, NextType, InitSlot, NextSlot, NextClaimInv, PTL DEF Spec, StartsWithinLimit

-----------------------------------------------------------------------------
(* Rows.  When requests wait for recovery and no row outlives the retention *)
(* period unfinished, a goroutine's row is running until its verdict: the   *)
(* blind writes of UpdateReviewRun write what the row already holds.        *)

Orderly == "early" \notin Faults /\ "late" \notin Faults

QuietInv ==
  main # "loop" =>
    /\ \A r \in RunId : job[r] = "none"
    /\ \A a \in Actor : disp[a] = "off"

RowInv == QuietInv /\ WorkerHasRow

LEMMA InitRow == Init => RowInv
BY DEF Init, RowInv, QuietInv, WorkerHasRow, Unfinished

\* Nobody works before the loop, unless requests do.
LEMMA NextQuiet ==
  ASSUME "early" \notin Faults
  PROVE  TypeOK /\ QuietInv /\ [Next]_vars => QuietInv'
<1> SUFFICES ASSUME TypeOK, QuietInv, [Next]_vars PROVE QuietInv'
  OBVIOUS
<1> USE DEF QuietInv
<1>1. ASSUME NEW a \in Actor, NEW p \in PR, ScheduleReview(a, p) PROVE QuietInv'
  BY <1>1 DEF ScheduleReview, MaySchedule
<1>2. ASSUME NEW a \in Actor, Dispatch(a) PROVE QuietInv'
  BY <1>2 DEF Dispatch, LockDispatch, ReadLimit, AcquireGlobal, ClaimNext, ClaimNothing,
              AbandonDispatch, NotDispatching
<1>3. ASSUME NEW r \in RunId, Review(r) \/ Panic(r) PROVE QuietInv'
  BY <1>3 DEF Review, Panic, LockRepo, FetchPR, StartOCR, FinishOCR, WriteVerdict, UnlockRepo,
              RecoverPanic, ReleaseGlobal, NotReviewing, Goto
<1>4. CASE Recover \/ PruneHomes \/ Crash
  BY <1>4 DEF Recover, PruneHomes, Crash
<1>5. ASSUME NEW last \in RunId, PurgeOldRuns(last) PROVE QuietInv'
  BY <1>5 DEF PurgeOldRuns, volatile
<1>6. ASSUME NEW n \in Limits, SaveSettings(n) PROVE QuietInv'
  BY <1>6 DEF SaveSettings, volatile
<1>7. CASE UNCHANGED vars
  BY <1>7 DEF vars, volatile
<1>8. QED
  BY <1>1, <1>2, <1>3, <1>4, <1>5, <1>6, <1>7 DEF Next

LEMMA NextRow ==
  ASSUME Orderly
  PROVE  TypeOK /\ RowInv /\ [Next]_vars => RowInv'
<1> SUFFICES ASSUME TypeOK, RowInv, [Next]_vars PROVE WorkerHasRow'
  BY NextQuiet DEF Orderly, RowInv
<1>1. ASSUME NEW a \in Actor, NEW p \in PR, ScheduleReview(a, p) PROVE WorkerHasRow'
  <2>1. main = "loop" /\ UNCHANGED <<main, job>>
    BY <1>1 DEF ScheduleReview, MaySchedule, Orderly
  <2>2. \A r \in RunId : status[r] = "running" => status'[r] = "running"
    <3>1. lastId + 1 \in RunId /\ status[lastId + 1] = "none"
      BY <1>1, EngineAssumption DEF ScheduleReview, TypeOK, RunId
    <3>2. QED
      BY <1>1, <3>1 DEF ScheduleReview, TypeOK
  <2>3. QED
    BY <2>1, <2>2 DEF RowInv, QuietInv, WorkerHasRow
<1>2. ASSUME NEW a \in Actor, Dispatch(a) PROVE WorkerHasRow'
  <2>1. main = "loop" /\ UNCHANGED main
    BY <1>2 DEF RowInv, QuietInv, Dispatch, LockDispatch, ReadLimit, AcquireGlobal, ClaimNext,
                ClaimNothing, AbandonDispatch, NotDispatching
  <2>2. CASE ClaimNext(a)
    <3>1. PICK r \in RunId : /\ NextClaim(r)
                             /\ status' = [status EXCEPT ![r] = "running"]
                             /\ job' = [job EXCEPT ![r] = "repo"]
      BY <2>2 DEF ClaimNext
    <3>2. QED
      BY <2>1, <3>1 DEF RowInv, QuietInv, WorkerHasRow, TypeOK
  <2>3. CASE ~ClaimNext(a)
    <3>1. UNCHANGED <<job, status>>
      BY <1>2, <2>3 DEF Dispatch, LockDispatch, ReadLimit, AcquireGlobal, ClaimNothing, AbandonDispatch
    <3>2. QED
      BY <2>1, <3>1 DEF RowInv, QuietInv, WorkerHasRow
  <2>4. QED
    BY <2>2, <2>3
<1>3. ASSUME NEW r \in RunId, Review(r) \/ Panic(r) PROVE WorkerHasRow'
  <2> USE DEF NotReviewing, Goto
  <2>1. main = "loop" /\ UNCHANGED main
    BY <1>3 DEF RowInv, QuietInv, Review, Panic, LockRepo, FetchPR, StartOCR, FinishOCR, WriteVerdict,
                UnlockRepo, RecoverPanic, ReleaseGlobal
  <2>2. \A q \in RunId : q # r => job'[q] = job[q] /\ status'[q] = status[q]
    BY <1>3 DEF Review, Panic, LockRepo, FetchPR, StartOCR, FinishOCR, WriteVerdict, UnlockRepo,
                RecoverPanic, ReleaseGlobal, WriteStatus, TypeOK
  <2>3. job'[r] \in Unfinished => job[r] \in Unfinished /\ (status[r] = "running" => status'[r] = "running")
    BY <1>3 DEF Review, Panic, LockRepo, FetchPR, StartOCR, FinishOCR, WriteVerdict, UnlockRepo,
                RecoverPanic, ReleaseGlobal, WriteStatus, StatusInMemory, TypeOK, Unfinished
  <2>4. QED
    BY <2>1, <2>2, <2>3 DEF RowInv, QuietInv, WorkerHasRow
<1>4. CASE Recover
  BY <1>4 DEF Recover, RowInv, QuietInv, WorkerHasRow, Unfinished
<1>5. CASE PruneHomes
  BY <1>5 DEF PruneHomes, rows, RowInv, QuietInv, WorkerHasRow
<1>6. ASSUME NEW last \in RunId, PurgeOldRuns(last) PROVE WorkerHasRow'
  <2>1. UNCHANGED <<main, job, disp>> /\ main = "loop"
    BY <1>6 DEF PurgeOldRuns, volatile
  <2>2. \A r \in RunId : r <= last => r \in 1..last
    BY DEF RunId
  <2>3. \A r \in RunId : status[r] = "running" => status'[r] = "running"
    BY <1>6, <2>2 DEF PurgeOldRuns, Orderly, Active
  <2>4. QED
    BY <2>1, <2>3 DEF RowInv, QuietInv, WorkerHasRow
<1>7. ASSUME NEW n \in Limits, SaveSettings(n) PROVE WorkerHasRow'
  BY <1>7 DEF SaveSettings, rows, volatile, RowInv, QuietInv, WorkerHasRow
<1>8. CASE Crash
  BY <1>8 DEF Crash, rows, RowInv, QuietInv, WorkerHasRow, Unfinished
<1>9. CASE UNCHANGED vars
  BY <1>9 DEF vars, rows, volatile, RowInv, QuietInv, WorkerHasRow
<1>10. QED
  BY <1>1, <1>2, <1>3, <1>4, <1>5, <1>6, <1>7, <1>8, <1>9 DEF Next

\* Until its goroutine writes a verdict, the row of a claimed run says running.
THEOREM WorkersHaveRows == ASSUME Orderly PROVE Spec => []WorkerHasRow
<1>1. RowInv => WorkerHasRow
  BY DEF RowInv
<1>2. TypeOK /\ RowInv /\ [Next]_vars => RowInv'
  BY NextRow
<1>3. QED
  BY <1>1, <1>2, InitType, NextType, InitRow, PTL DEF Spec

-----------------------------------------------------------------------------
(* The engine implements the table of ReviewRuns, so it inherits what is    *)
(* proved of the table.                                                     *)

Table == INSTANCE ReviewRunsProofs WITH status <- status, prOf <- prOf, lastId <- lastId

LEMMA InitTable == Init => Abs!Init
<1> SUFFICES ASSUME Init PROVE Abs!Init
  OBVIOUS
<1>1. (CHOOSE p \in PR : TRUE) \in PR
  BY EngineAssumption
<1>2. QED
  BY <1>1 DEF Init, Abs!Init, RunId, Abs!RunId

\* A write of an unfinished goroutine finishes its row or leaves it alone.
LEMMA WriteTable ==
  ASSUME TypeOK, NEW r \in RunId, status[r] = "running", UNCHANGED <<prOf, lastId>>,
         NEW s \in {"running"} \cup Terminal, WriteStatus(r, s)
  PROVE  [Abs!Next]_(Abs!vars)
<1>1. CASE s \in Terminal /\ ~UNCHANGED status
  <2>1. Abs!Finish(r, s)
    BY <1>1 DEF WriteStatus, Abs!Finish
  <2>2. r \in Abs!RunId /\ s \in Abs!Terminal
    BY <1>1 DEF RunId, Abs!RunId, Terminal, Abs!Terminal
  <2>3. QED
    BY <2>1, <2>2 DEF Abs!Next
<1>2. CASE s = "running" \/ UNCHANGED status
  <2>1. UNCHANGED status
    BY <1>2 DEF WriteStatus, TypeOK
  <2>2. QED
    BY <2>1 DEF Abs!vars
<1>3. QED
  BY <1>1, <1>2

LEMMA StepTable ==
  ASSUME Orderly
  PROVE  TypeOK /\ RowInv /\ [Next]_vars => [Abs!Next]_(Abs!vars)
<1> SUFFICES ASSUME TypeOK, RowInv, [Next]_vars PROVE [Abs!Next]_(Abs!vars)
  OBVIOUS
<1> USE DEF RunId, Abs!RunId
<1>1. ASSUME NEW a \in Actor, NEW p \in PR, ScheduleReview(a, p) PROVE Abs!Next
  <2>1. Abs!Submit(p)
    BY <1>1 DEF ScheduleReview, NoActiveRun, Abs!Submit, Active, Abs!Active
  <2>2. QED
    BY <2>1 DEF Abs!Next
<1>2. ASSUME NEW a \in Actor, Dispatch(a) PROVE [Abs!Next]_(Abs!vars)
  <2>1. CASE ClaimNext(a)
    <3>1. PICK r \in RunId : NextClaim(r) /\ status' = [status EXCEPT ![r] = "running"]
      BY <2>1 DEF ClaimNext
    <3>2. Abs!Start(r)
      BY <2>1, <3>1 DEF ClaimNext, NotDispatching, NextClaim, Claimable, RepoOfRun,
                        Abs!Start, Abs!Startable, Abs!RepoOfRun
    <3>3. QED
      BY <3>2 DEF Abs!Next
  <2>2. CASE ~ClaimNext(a)
    BY <1>2, <2>2 DEF Dispatch, LockDispatch, ReadLimit, AcquireGlobal, ClaimNothing,
                      AbandonDispatch, NotDispatching, Abs!vars
  <2>3. QED
    BY <2>1, <2>2
<1>3. ASSUME NEW r \in RunId, Review(r) \/ Panic(r) PROVE [Abs!Next]_(Abs!vars)
  <2> USE DEF NotReviewing
  <2>1. CASE FetchPR(r) \/ StartOCR(r) \/ WriteVerdict(r) \/ RecoverPanic(r)
    <3>1. status[r] = "running" /\ UNCHANGED <<prOf, lastId>>
      BY <2>1 DEF FetchPR, StartOCR, WriteVerdict, RecoverPanic, RowInv, WorkerHasRow, Unfinished
    <3>2. UNCHANGED status \/ \E s \in {"running"} \cup Terminal : WriteStatus(r, s)
      BY <2>1 DEF FetchPR, StartOCR, WriteVerdict, RecoverPanic, StatusInMemory, Terminal
    <3>3. QED
      BY <3>1, <3>2, WriteTable DEF Abs!vars
  <2>2. CASE LockRepo(r) \/ FinishOCR(r) \/ UnlockRepo(r) \/ ReleaseGlobal(r) \/ Panic(r)
    BY <2>2 DEF LockRepo, FinishOCR, UnlockRepo, ReleaseGlobal, Panic, Abs!vars
  <2>3. QED
    BY <1>3, <2>1, <2>2 DEF Review
<1>4. CASE Recover
  <2>1. UNCHANGED Abs!vars \/ Abs!Interrupt
    BY <1>4 DEF Recover, Interrupted, Abs!Interrupt, Abs!vars
  <2>2. QED
    BY <2>1 DEF Abs!Next
<1>5. CASE PruneHomes
  BY <1>5 DEF PruneHomes, rows, Abs!vars
<1>6. ASSUME NEW last \in RunId, PurgeOldRuns(last) PROVE Abs!Next
  <2>1. Abs!Retire(1..last)
    BY <1>6 DEF PurgeOldRuns, Orderly, Abs!Retire, Active, Abs!Active
  <2>2. 1..last \in SUBSET Abs!RunId
    BY <1>6, EngineAssumption
  <2>3. QED
    BY <2>1, <2>2 DEF Abs!Next
<1>7. ASSUME NEW n \in Limits, SaveSettings(n) PROVE UNCHANGED Abs!vars
  BY <1>7 DEF SaveSettings, rows, Abs!vars
<1>8. CASE Crash
  BY <1>8 DEF Crash, rows, Abs!vars
<1>9. CASE UNCHANGED vars
  BY <1>9 DEF vars, rows, Abs!vars
<1>10. QED
  BY <1>1, <1>2, <1>3, <1>4, <1>5, <1>6, <1>7, <1>8, <1>9 DEF Next

\* Every behaviour of the engine is a behaviour of the table, with lost
\* writes, failed claims, cancelled requests, panics and crashes.
THEOREM EngineImplementsTable == ASSUME Orderly PROVE Spec => ImplementsReviewRuns
<1>1. TypeOK /\ RowInv /\ [Next]_vars => RowInv' /\ [Abs!Next]_(Abs!vars)
  BY NextRow, StepTable
<1>2. QED
  BY <1>1, InitType, NextType, InitRow, InitTable, PTL DEF Spec, ImplementsReviewRuns, Abs!Spec

\* Table, through which the theorems about the table come in, is the Abs that the
\* engine's properties name.
LEMMA EngineIsTable == ASSUME Orderly PROVE Spec => Table!Spec
<1>1. Spec => ImplementsReviewRuns
  BY EngineImplementsTable
<1>2. Abs!Init => Table!Init
  BY DEF Abs!Init, Table!Init, Abs!RunId, Table!RunId
<1>3. [Abs!Next]_(Abs!vars) => [Table!Next]_(Table!vars)
  BY DEF Abs!Next, Table!Next, Abs!vars, Table!vars, Abs!RunId, Table!RunId,
     Abs!Active, Table!Active, Abs!Terminal, Table!Terminal, Abs!Status, Table!Status,
     Abs!RepoOfRun, Table!RepoOfRun, Abs!Startable, Table!Startable,
     Abs!Submit, Table!Submit, Abs!Start, Table!Start, Abs!Finish, Table!Finish,
     Abs!Interrupt, Table!Interrupt, Abs!Retire, Table!Retire
<1>4. QED
  BY <1>1, <1>2, <1>3, PTL DEF ImplementsReviewRuns, Abs!Spec, Table!Spec

\* One active row per pull request, one running row per repo, FIFO per repo.
THEOREM RowsSafe ==
  ASSUME Orderly
  PROVE  Spec => [](OneActivePerPR /\ OneRunningPerRepo /\ RepoFIFO)
<1>1. MaxRuns \in Nat
  BY EngineAssumption
<1>2. Table!Spec => [](Table!OneActivePerPR /\ Table!OneRunningPerRepo /\ Table!RepoFIFO)
  BY <1>1, Table!TableSafe
<1>3. Table!OneActivePerPR /\ Table!OneRunningPerRepo /\ Table!RepoFIFO
      => OneActivePerPR /\ OneRunningPerRepo /\ RepoFIFO
  BY DEF OneActivePerPR, OneRunningPerRepo, RepoFIFO, Abs!OneActivePerPR, Table!OneActivePerPR,
     Abs!OneRunningPerRepo, Table!OneRunningPerRepo, Abs!RepoFIFO, Table!RepoFIFO,
     Abs!RunId, Table!RunId, Abs!Active, Table!Active, Abs!Terminal, Table!Terminal,
     Abs!RepoOfRun, Table!RepoOfRun
<1>4. QED
  BY <1>2, <1>3, EngineIsTable, PTL

\* No goroutine rewrites a verdict, although every write of a row is blind.
THEOREM VerdictsFinal == ASSUME Orderly PROVE Spec => VerdictIsFinal
<1>1. MaxRuns \in Nat
  BY EngineAssumption
<1>2. Table!Spec => Table!VerdictIsFinal
  BY <1>1, Table!TableVerdictIsFinal
<1>3. Table!Spec => VerdictIsFinal
  <2>1. [\A r \in Table!RunId : status[r] \in Table!Terminal =>
            status'[r] \in {status[r], "none"}]_(Table!vars)
        => [\A r \in Abs!RunId : status[r] \in Abs!Terminal =>
            status'[r] \in {status[r], "none"}]_(Abs!vars)
    BY DEF Table!RunId, Abs!RunId, Table!Terminal, Abs!Terminal, Table!vars, Abs!vars
  <2>2. QED
    BY <1>2, <2>1, PTL DEF VerdictIsFinal, Abs!VerdictIsFinal, Table!VerdictIsFinal
<1>4. QED
  BY <1>3, EngineIsTable

-----------------------------------------------------------------------------
(* The mutex of a repo.                                                     *)

\* Whoever holds the mutex of x is a goroutine of x that has not unlocked it.
HolderInv(x) ==
  repoMu[x] # NoRun => job[repoMu[x]] \in InMutex /\ RepoOf[prOf[repoMu[x]]] = x

RepoMuInv == RepoExclusive /\ \A x \in Repo : HolderInv(x)

LEMMA InitRepoMu == Init => RepoMuInv
BY DEF Init, RepoMuInv, RepoExclusive, HolderInv, InMutex

LEMMA ReviewRepoMu ==
  ASSUME TypeOK, RepoMuInv, NEW r \in RunId, Review(r) \/ Panic(r)
  PROVE  RepoMuInv'
<1> USE DEF NotReviewing, Goto
<1>1. /\ RepoOfRun(r) \in Repo /\ r # NoRun
      /\ UNCHANGED prOf /\ \A q \in RunId : RepoOfRun(q)' = RepoOfRun(q)
  <2>1. UNCHANGED prOf
    BY DEF Review, Panic, LockRepo, FetchPR, StartOCR, FinishOCR, WriteVerdict, UnlockRepo,
           RecoverPanic, ReleaseGlobal
  <2>2. QED
    BY <2>1, EngineAssumption DEF RepoOfRun, TypeOK, NoRun, RunId
<1>2. \A q \in RunId : q # r => job'[q] = job[q]
  BY DEF Review, Panic, LockRepo, FetchPR, StartOCR, FinishOCR, WriteVerdict, UnlockRepo,
         RecoverPanic, ReleaseGlobal, TypeOK
<1>3. CASE LockRepo(r)
  <2>1. repoMu[RepoOfRun(r)] = NoRun /\ repoMu' = [repoMu EXCEPT ![RepoOfRun(r)] = r]
        /\ job'[r] = "fetch" /\ job[r] = "repo"
    BY <1>3 DEF LockRepo, RepoMuFree, TypeOK
  <2>2. \A q \in RunId : job[q] \in InMutex => RepoOfRun(q) # RepoOfRun(r)
    BY <2>1, <1>1 DEF RepoMuInv, RepoExclusive, NoRun, RunId
  <2>3. RepoExclusive'
    BY <1>1, <1>2, <2>1, <2>2 DEF RepoMuInv, RepoExclusive, TypeOK
  <2>4. ASSUME NEW x \in Repo PROVE HolderInv(x)'
    <3>1. CASE x = RepoOfRun(r)
      BY <1>1, <2>1, <3>1 DEF HolderInv, InMutex, RepoOfRun, TypeOK
    <3>2. CASE x # RepoOfRun(r)
      BY <1>1, <1>2, <2>1, <3>2 DEF RepoMuInv, HolderInv, InMutex, TypeOK
    <3>3. QED
      BY <3>1, <3>2
  <2>5. QED
    BY <2>3, <2>4 DEF RepoMuInv
<1>4. CASE UnlockRepo(r) \/ Panic(r)
  <2>1. repoMu' = [repoMu EXCEPT ![RepoOfRun(r)] = NoRun] /\ job'[r] \notin InMutex
        /\ job[r] \in InMutex
    BY <1>4 DEF UnlockRepo, Panic, InMutex, TypeOK
  <2>2. \A q \in RunId : job[q] \in InMutex /\ q # r => RepoOfRun(q) # RepoOfRun(r)
    BY <2>1 DEF RepoMuInv, RepoExclusive
  <2>3. RepoExclusive'
    BY <1>1, <1>2, <2>1, <2>2 DEF RepoMuInv, RepoExclusive, TypeOK
  <2>4. repoMu[RepoOfRun(r)] = r
    BY <2>1 DEF RepoMuInv, RepoExclusive
  <2>5. \A x \in Repo : repoMu'[x] # NoRun => repoMu'[x] = repoMu[x] /\ repoMu[x] # r
    BY <1>1, <2>1, <2>4 DEF RepoMuInv, HolderInv, RepoOfRun, TypeOK
  <2>6. ASSUME NEW x \in Repo PROVE HolderInv(x)'
    BY <1>1, <1>2, <2>5 DEF RepoMuInv, HolderInv, TypeOK
  <2>7. QED
    BY <2>3, <2>6 DEF RepoMuInv
<1>5. CASE ~LockRepo(r) /\ ~UnlockRepo(r) /\ ~Panic(r)
  <2>1. UNCHANGED repoMu /\ (job'[r] \in InMutex <=> job[r] \in InMutex)
    BY <1>5 DEF Review, FetchPR, StartOCR, FinishOCR, WriteVerdict, RecoverPanic,
                ReleaseGlobal, TypeOK, InMutex
  <2>2. \A q \in RunId : job'[q] \in InMutex <=> job[q] \in InMutex
    BY <1>2, <2>1
  <2>3. QED
    BY <1>1, <2>1, <2>2 DEF RepoMuInv, RepoExclusive, HolderInv, TypeOK
<1>6. QED
  BY <1>3, <1>4, <1>5

LEMMA NextRepoMu == TypeOK /\ SlotInv /\ RepoMuInv /\ [Next]_vars => RepoMuInv'
<1> SUFFICES ASSUME TypeOK, SlotInv, RepoMuInv, [Next]_vars PROVE RepoMuInv'
  OBVIOUS
<1>1. ASSUME NEW r \in RunId, Review(r) \/ Panic(r) PROVE RepoMuInv'
  BY <1>1, ReviewRepoMu
<1>2. ASSUME UNCHANGED repoMu,
             \A r \in RunId : job[r] \in InMutex => prOf'[r] = prOf[r],
             \A r \in RunId : job'[r] \in InMutex <=> job[r] \in InMutex
      PROVE  RepoMuInv'
  <2>1. RepoExclusive'
    BY <1>2 DEF RepoMuInv, RepoExclusive, RepoOfRun
  <2>2. QED
    BY <1>2, <2>1 DEF RepoMuInv, HolderInv, TypeOK
<1>3. ASSUME NEW a \in Actor, NEW p \in PR, ScheduleReview(a, p) PROVE RepoMuInv'
  <2>1. lastId + 1 \in RunId /\ job[lastId + 1] = "none"
    BY <1>3, EngineAssumption DEF ScheduleReview, SlotInv, FreshInv, TypeOK, RunId
  <2>2. \A r \in RunId : job[r] \in InMutex => prOf'[r] = prOf[r]
    BY <1>3, <2>1 DEF ScheduleReview, InMutex, TypeOK
  <2>3. QED
    BY <1>2, <1>3, <2>2 DEF ScheduleReview
<1>4. ASSUME NEW a \in Actor, Dispatch(a) PROVE RepoMuInv'
  <2>1. UNCHANGED <<repoMu, prOf>>
    BY <1>4 DEF Dispatch, LockDispatch, ReadLimit, AcquireGlobal, ClaimNext, ClaimNothing,
                AbandonDispatch, NotDispatching
  <2>2. CASE ClaimNext(a)
    <3>1. PICK r \in RunId : NextClaim(r) /\ job' = [job EXCEPT ![r] = "repo"]
      BY <2>2 DEF ClaimNext
    <3>2. job[r] = "none"
      BY <3>1 DEF NextClaim, Claimable, SlotInv, FreshInv
    <3>3. \A q \in RunId : job'[q] \in InMutex <=> job[q] \in InMutex
      BY <3>1, <3>2 DEF InMutex, TypeOK
    <3>4. QED
      BY <1>2, <2>1, <3>3
  <2>3. CASE ~ClaimNext(a)
    <3>1. UNCHANGED job
      BY <1>4, <2>3 DEF Dispatch, LockDispatch, ReadLimit, AcquireGlobal, ClaimNothing, AbandonDispatch
    <3>2. QED
      BY <1>2, <2>1, <3>1
  <2>4. QED
    BY <2>2, <2>3
<1>5. CASE Recover \/ PruneHomes \/ UNCHANGED vars
  BY <1>2, <1>5 DEF Recover, PruneHomes, vars, rows, volatile
<1>6. ASSUME NEW last \in RunId, PurgeOldRuns(last) PROVE RepoMuInv'
  BY <1>2, <1>6 DEF PurgeOldRuns, volatile
<1>7. ASSUME NEW n \in Limits, SaveSettings(n) PROVE RepoMuInv'
  BY <1>2, <1>7 DEF SaveSettings, rows, volatile
<1>8. CASE Crash
  BY <1>8 DEF Crash, RepoMuInv, RepoExclusive, HolderInv, InMutex
<1>9. QED
  BY <1>1, <1>3, <1>4, <1>5, <1>6, <1>7, <1>8 DEF Next

\* Two reviews of one repo never share its mirror and worktree.
THEOREM ReviewsOfRepoExclusive == Spec => []RepoExclusive
<1>1. RepoMuInv => RepoExclusive
  BY DEF RepoMuInv
<1>2. QED
  BY <1>1, InitType, NextType, InitSlot, NextSlot, InitRepoMu, NextRepoMu, PTL DEF Spec

\* A slot is never spent on waiting for another review of the same repo.
THEOREM WaitsAreShort == ASSUME Orderly PROVE Spec => []WaitIsShort
<1>1. TypeOK /\ RepoMuInv /\ WorkerHasRow /\ OneRunningPerRepo => WaitIsShort
  <2> SUFFICES ASSUME TypeOK, RepoMuInv, WorkerHasRow, OneRunningPerRepo,
                      NEW r \in RunId, job[r] = "repo", repoMu[RepoOfRun(r)] # NoRun
               PROVE  job[repoMu[RepoOfRun(r)]] = "unlock"
    BY DEF WaitIsShort
  <2> DEFINE q == repoMu[RepoOfRun(r)]
  <2>1. RepoOfRun(r) \in Repo
    BY EngineAssumption DEF TypeOK, RepoOfRun
  <2>2. q \in RunId /\ job[q] \in InMutex /\ RepoOfRun(q) = RepoOfRun(r)
    BY <2>1 DEF RepoMuInv, HolderInv, RepoOfRun, TypeOK
  <2>3. q # r /\ status[r] = "running"
    BY <2>2 DEF InMutex, WorkerHasRow, Unfinished
  <2>4. status[q] # "running"
    BY <2>2, <2>3 DEF OneRunningPerRepo, Abs!OneRunningPerRepo, RunId, Abs!RunId, RepoOfRun, Abs!RepoOfRun
  <2>5. QED
    BY <2>2, <2>4 DEF WorkerHasRow, Unfinished, InMutex
<1>2. Spec => []WorkerHasRow /\ [](OneActivePerPR /\ OneRunningPerRepo /\ RepoFIFO)
  BY WorkersHaveRows, RowsSafe
<1>3. Spec => []TypeOK /\ []RepoMuInv
  BY InitType, NextType, InitSlot, NextSlot, InitRepoMu, NextRepoMu, PTL DEF Spec
<1>4. QED
  BY <1>1, <1>2, <1>3, PTL

-----------------------------------------------------------------------------
(* Wakeups.                                                                 *)

LEMMA InitWakeup == Init => NoLostWakeup
BY DEF Init, NoLostWakeup

\* A step of tryDispatch ends it only when the slots are taken by goroutines,
\* which will dispatch, or nothing can be claimed.
LEMMA DispatchWakeup ==
  ASSUME "cancel" \notin Faults, "store" \notin Faults,
         TypeOK, SlotInv, NEW a \in Actor, Dispatch(a)
  PROVE  NoLostWakeup'
<1>1. CASE LockDispatch(a) \/ ReadLimit(a)
  <2>1. a \in Dispatching'
    BY <1>1 DEF LockDispatch, ReadLimit, Dispatching, TypeOK
  <2>2. QED
    BY <2>1 DEF NoLostWakeup
<1>2. CASE AcquireGlobal(a)
  <2>1. CASE SlotFree
    <3>1. a \in Dispatching'
      BY <1>2, <2>1 DEF AcquireGlobal, Dispatching, TypeOK
    <3>2. QED
      BY <3>1 DEF NoLostWakeup
  <2>2. CASE ~SlotFree
    <3>1. UNCHANGED job /\ disp[a] = "slot"
      BY <1>2 DEF AcquireGlobal
    <3>2. Claiming = {}
      BY <3>1 DEF Claiming, SlotInv, DispatchMuInv
    <3>3. running >= 1
      BY <2>2, EngineAssumption DEF SlotFree, TypeOK
    <3>4. Live # {}
      BY <3>2, <3>3, FS_EmptySet DEF SlotInv, SlotAccounting
    <3>5. QED
      BY <3>1, <3>4 DEF NoLostWakeup, Live
  <2>3. QED
    BY <2>1, <2>2
<1>3. CASE ClaimNext(a)
  <2>1. PICK r \in RunId : job' = [job EXCEPT ![r] = "repo"]
    BY <1>3 DEF ClaimNext
  <2>2. r \in Live'
    BY <2>1 DEF Live, TypeOK
  <2>3. QED
    BY <2>2 DEF NoLostWakeup
<1>4. CASE ClaimNothing(a)
  <2>1. UNCHANGED <<status, prOf>> /\ \A r \in RunId : ~Claimable(r)
    BY <1>4 DEF ClaimNothing, NotDispatching
  <2>2. QED
    BY <2>1 DEF NoLostWakeup, Claimable, RepoOfRun
<1>5. CASE AbandonDispatch(a)
  BY <1>5 DEF AbandonDispatch
<1>6. QED
  BY <1>1, <1>2, <1>3, <1>4, <1>5 DEF Dispatch

LEMMA NextWakeup ==
  ASSUME Faults \cap {"cancel", "store", "late"} = {}
  PROVE  TypeOK /\ SlotInv /\ NoLostWakeup /\ [Next]_vars => NoLostWakeup'
<1> SUFFICES ASSUME TypeOK, SlotInv, NoLostWakeup, [Next]_vars PROVE NoLostWakeup'
  OBVIOUS
<1>1. ASSUME NEW a \in Actor, NEW p \in PR, ScheduleReview(a, p) PROVE NoLostWakeup'
  <2>1. a \in Dispatching'
    BY <1>1 DEF ScheduleReview, Dispatching, TypeOK
  <2>2. QED
    BY <2>1 DEF NoLostWakeup
<1>2. ASSUME NEW a \in Actor, Dispatch(a) PROVE NoLostWakeup'
  BY <1>2, DispatchWakeup
<1>3. ASSUME NEW r \in RunId, Review(r) \/ Panic(r) PROVE NoLostWakeup'
  <2>1. r \in Live' \/ (r \in Dispatching' /\ r \in Actor)
    BY <1>3 DEF Review, Panic, LockRepo, FetchPR, StartOCR, FinishOCR, WriteVerdict, UnlockRepo,
                RecoverPanic, ReleaseGlobal, Goto, Live, Dispatching, Actor, TypeOK
  <2>2. QED
    BY <2>1 DEF NoLostWakeup
<1>4. CASE Recover
  BY <1>4 DEF Recover, NoLostWakeup
<1>5. CASE PruneHomes
  <2>1. Main \in Dispatching'
    BY <1>5 DEF PruneHomes, Dispatching, Actor, TypeOK
  <2>2. QED
    BY <2>1 DEF NoLostWakeup
<1>6. ASSUME NEW last \in RunId, PurgeOldRuns(last) PROVE NoLostWakeup'
  <2>1. UNCHANGED <<prOf, main, disp, job>>
    BY <1>6 DEF PurgeOldRuns, volatile
  <2>2. \A r \in RunId : r <= last => r \in 1..last
    BY DEF RunId
  <2>3. \A r \in RunId : /\ status'[r] = "pending" => status[r] = "pending"
                         /\ status[r] = "running" => status'[r] = "running"
    BY <1>6, <2>2 DEF PurgeOldRuns, Active
  <2>4. \A r \in RunId : Claimable(r)' => Claimable(r)
    BY <2>1, <2>3 DEF Claimable, RepoOfRun
  <2>5. QED
    BY <2>1, <2>4 DEF NoLostWakeup, Live, Dispatching
<1>7. ASSUME NEW n \in Limits, SaveSettings(n) PROVE NoLostWakeup'
  BY <1>7 DEF SaveSettings, rows, volatile, NoLostWakeup, Claimable, RepoOfRun, Live, Dispatching
<1>8. CASE Crash
  BY <1>8 DEF Crash, NoLostWakeup
<1>9. CASE UNCHANGED vars
  BY <1>9 DEF vars, rows, volatile, NoLostWakeup, Claimable, RepoOfRun, Live, Dispatching
<1>10. QED
  BY <1>1, <1>2, <1>3, <1>4, <1>5, <1>6, <1>7, <1>8, <1>9 DEF Next

\* As long as no request is cancelled and no claim fails, a row that could be
\* claimed always has somebody coming for it.
THEOREM WakeupsNotLost ==
  ASSUME Faults \cap {"cancel", "store", "late"} = {}
  PROVE  Spec => []NoLostWakeup
<1>1. TypeOK /\ SlotInv /\ NoLostWakeup /\ [Next]_vars => NoLostWakeup'
  BY NextWakeup
<1>2. QED
  BY <1>1, InitType, NextType, InitSlot, NextSlot, InitWakeup, PTL DEF Spec

-----------------------------------------------------------------------------
(* Leftovers of a dead process, and what a review must not lose.            *)

LEMMA InitHomes == Init => HomesMatchReviews
BY DEF Init, HomesMatchReviews, LiveHomeKept

LEMMA NextHomes ==
  ASSUME "early" \notin Faults
  PROVE  TypeOK /\ SlotInv /\ QuietInv /\ HomesMatchReviews /\ [Next]_vars => HomesMatchReviews'
<1> SUFFICES ASSUME TypeOK, SlotInv, QuietInv, HomesMatchReviews, [Next]_vars
             PROVE  HomesMatchReviews'
  OBVIOUS
<1> USE DEF HomesMatchReviews, LiveHomeKept
<1>1. ASSUME NEW a \in Actor, NEW p \in PR, ScheduleReview(a, p) PROVE HomesMatchReviews'
  BY <1>1 DEF ScheduleReview
<1>2. ASSUME NEW a \in Actor, Dispatch(a) PROVE HomesMatchReviews'
  <2>1. UNCHANGED <<homes, main>>
    BY <1>2 DEF Dispatch, LockDispatch, ReadLimit, AcquireGlobal, ClaimNext, ClaimNothing,
                AbandonDispatch, NotDispatching
  <2>2. \A r \in RunId : job'[r] = "ocr" <=> job[r] = "ocr"
    BY <1>2 DEF Dispatch, LockDispatch, ReadLimit, AcquireGlobal, ClaimNext, ClaimNothing,
                AbandonDispatch, NextClaim, Claimable, SlotInv, FreshInv, TypeOK
  <2>3. QED
    BY <2>1, <2>2 DEF TypeOK
<1>3. ASSUME NEW r \in RunId, Review(r) \/ Panic(r) PROVE HomesMatchReviews'
  BY <1>3 DEF Review, Panic, LockRepo, FetchPR, StartOCR, FinishOCR, WriteVerdict, UnlockRepo,
              RecoverPanic, ReleaseGlobal, NotReviewing, Goto, TypeOK
<1>4. CASE Recover
  BY <1>4 DEF Recover
<1>5. CASE PruneHomes
  BY <1>5 DEF PruneHomes, MayPrune, QuietInv
<1>6. ASSUME NEW last \in RunId, PurgeOldRuns(last) PROVE HomesMatchReviews'
  BY <1>6 DEF PurgeOldRuns, volatile
<1>7. ASSUME NEW n \in Limits, SaveSettings(n) PROVE HomesMatchReviews'
  BY <1>7 DEF SaveSettings, volatile
<1>8. CASE Crash
  BY <1>8 DEF Crash
<1>9. CASE UNCHANGED vars
  BY <1>9 DEF vars, volatile
<1>10. QED
  BY <1>1, <1>2, <1>3, <1>4, <1>5, <1>6, <1>7, <1>8, <1>9 DEF Next

\* A review keeps its OCR home, and no home outlives its review past startup,
\* even when its row is purged under it; requests during recovery break it.
THEOREM HomesMatch == ASSUME "early" \notin Faults PROVE Spec => []HomesMatchReviews
<1>1. Init => QuietInv
  BY DEF Init, QuietInv
<1>2. TypeOK /\ QuietInv /\ [Next]_vars => QuietInv'
  BY NextQuiet
<1>3. TypeOK /\ SlotInv /\ QuietInv /\ HomesMatchReviews /\ [Next]_vars => HomesMatchReviews'
  BY NextHomes
<1>4. QED
  BY <1>1, <1>2, <1>3, InitType, NextType, InitSlot, NextSlot, InitHomes, PTL DEF Spec

LEMMA NextWorker ==
  ASSUME Orderly, "store" \notin Faults
  PROVE  TypeOK /\ RowInv /\ RunningHasWorker /\ [Next]_vars => RunningHasWorker'
<1> SUFFICES ASSUME TypeOK, RowInv, RunningHasWorker, [Next]_vars PROVE RunningHasWorker'
  OBVIOUS
<1> USE DEF RunningHasWorker
<1>1. ASSUME NEW a \in Actor, NEW p \in PR, ScheduleReview(a, p) PROVE RunningHasWorker'
  BY <1>1 DEF ScheduleReview, TypeOK
<1>2. ASSUME NEW a \in Actor, Dispatch(a) PROVE RunningHasWorker'
  BY <1>2 DEF Dispatch, LockDispatch, ReadLimit, AcquireGlobal, ClaimNext, ClaimNothing,
              AbandonDispatch, NotDispatching, Unfinished, TypeOK
<1>3. ASSUME NEW r \in RunId, Review(r) \/ Panic(r) PROVE RunningHasWorker'
  <2> USE DEF NotReviewing, Goto
  <2>1. UNCHANGED main /\ \A q \in RunId : q # r => job'[q] = job[q] /\ status'[q] = status[q]
    BY <1>3 DEF Review, Panic, LockRepo, FetchPR, StartOCR, FinishOCR, WriteVerdict, UnlockRepo,
                RecoverPanic, ReleaseGlobal, WriteStatus, TypeOK
  <2>2. job[r] \in Unfinished => status[r] = "running"
    BY DEF RowInv, WorkerHasRow
  <2>3. status'[r] = "running" => job'[r] \in Unfinished \/ (job[r] \notin Unfinished /\ status[r] = "running")
    BY <1>3, <2>2 DEF Review, Panic, LockRepo, FetchPR, StartOCR, FinishOCR, WriteVerdict, UnlockRepo,
                RecoverPanic, ReleaseGlobal, WriteStatus, StatusInMemory, TypeOK, Unfinished
  <2>4. main = "loop"
    BY <1>3 DEF RowInv, QuietInv, Review, Panic, LockRepo, FetchPR, StartOCR, FinishOCR, WriteVerdict,
                UnlockRepo, RecoverPanic, ReleaseGlobal
  <2>5. QED
    BY <2>1, <2>3, <2>4
<1>4. CASE Recover
  BY <1>4 DEF Recover, Interrupted, TypeOK
<1>5. CASE PruneHomes
  BY <1>5 DEF PruneHomes, MayPrune, rows
<1>6. ASSUME NEW last \in RunId, PurgeOldRuns(last) PROVE RunningHasWorker'
  BY <1>6 DEF PurgeOldRuns, volatile
<1>7. ASSUME NEW n \in Limits, SaveSettings(n) PROVE RunningHasWorker'
  BY <1>7 DEF SaveSettings, rows, volatile
<1>8. CASE Crash
  BY <1>8 DEF Crash
<1>9. CASE UNCHANGED vars
  BY <1>9 DEF vars, rows, volatile
<1>10. QED
  BY <1>1, <1>2, <1>3, <1>4, <1>5, <1>6, <1>7, <1>8, <1>9 DEF Next

\* Unless a write is lost, no row says running after its goroutine is gone.
THEOREM RunningRowsWorked ==
  ASSUME Orderly, "store" \notin Faults
  PROVE  Spec => []RunningHasWorker
<1>1. Init => RunningHasWorker
  BY DEF Init, RunningHasWorker
<1>2. TypeOK /\ RowInv /\ [Next]_vars => RowInv'
  BY NextRow
<1>3. TypeOK /\ RowInv /\ RunningHasWorker /\ [Next]_vars => RunningHasWorker'
  BY NextWorker
<1>4. QED
  BY <1>1, <1>2, <1>3, InitType, NextType, InitRow, PTL DEF Spec

=============================================================================
