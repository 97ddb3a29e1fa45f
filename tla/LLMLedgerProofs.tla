--------------------------- MODULE LLMLedgerProofs --------------------------
(***************************************************************************)
(* The invariants of LLMLedger for any number of providers, repos, models, *)
(* spellings and requests.                                                 *)
(***************************************************************************)
EXTENDS LLMLedger, FiniteSetTheorems, TLAPS

\* Requests remember rows that were handed out.
KnownIds ==
  \A h \in Request :
    /\ req[h].op = "save" => req[h].pairs \subseteq 1..lastModel
    /\ req[h].op = "update" => req[h].model \in 1..lastModel

CopyOf(h, m) == req[h].op = "update" /\ req[h].model = m

\* Copies of new rows are off, as the rows are.
CopiesOff ==
  \A h \in Request : (req[h].op = "update" /\ req[h].row.isNew) => ~req[h].row.enabled

\* The row is new, or was when a request took its copy.
WasNew(m) ==
  \/ HasModel(m) /\ row[m].isNew
  \/ \E h \in Request : CopyOf(h, m) /\ req[h].row.isNew

\* Such a row was an api row from the beginning, and so is every copy of it: no
\* stale copy can bring back the time when it was a manual one.
NewIsApi ==
  \A m \in Model : WasNew(m) =>
    /\ HasModel(m) => row[m].source = "api"
    /\ \A h \in Request : CopyOf(h, m) => req[h].row.source = "api"

\* What a request has checked holds until a write of another.
ChecksHold ==
  \A h \in Request \ stale :
    /\ req[h].op = "save" => \A m \in req[h].pairs : HasModel(m)
    /\ req[h].op = "deleteProvider" => ~ProviderReferenced(req[h].provider)
    /\ req[h].op = "deleteModel" => ~ModelReferenced(req[h].model)
    /\ req[h].op = "build" => Buildable(req[h].model)

-----------------------------------------------------------------------------
(* What the types say.                                                     *)

\* A row that exists has its columns, and an id that was handed out.
LEMMA LiveRow ==
  ASSUME TypeOK, NEW m \in Model, HasModel(m)
  PROVE  row[m] \in ModelRow /\ m \in 1..lastModel
BY LedgerAssumption DEF TypeOK, HasModel, Model

\* What a request remembers, by what it is.
LEMMA RequestTypes ==
  ASSUME TypeOK, NEW h \in Request
  PROVE  /\ req[h] \in RequestState
         /\ req[h].op = "save" => req[h].scope \in Scope /\ req[h].pairs \subseteq Model
         /\ req[h].op = "deleteProvider" => req[h].provider \in Provider
         /\ req[h].op \in {"deleteModel", "build"} => req[h].model \in Model
         /\ req[h].op = "update" => req[h].model \in Model /\ req[h].row \in ModelRow
BY DEF TypeOK, RequestState

\* The first step of a request leaves it with a well-typed state.
LEMMA BeginTypes ==
  ASSUME TypeOK, KnownIds, NEW h \in Request, NEW r \in RequestState, Begin(h, r),
         r.op = "save" => r.pairs \subseteq 1..lastModel,
         r.op = "update" => r.model \in 1..lastModel
  PROVE  TypeOK' /\ KnownIds'
<1>1. TypeOK'
  BY DEF Begin, TypeOK, ledger, HasModel
<1>2. KnownIds'
  BY DEF Begin, TypeOK, KnownIds, ledger
<1> QED BY <1>1, <1>2

-----------------------------------------------------------------------------
(* Types.  The part of TypeOK that is about the tables:                    *)

TablesOK ==
  /\ prov \in [Provider -> ProviderRow \cup {Unused, Gone}]
  /\ row \in [Model -> ModelRow \cup {Unused, Gone}]
  /\ owner \in [Model -> Provider]
  /\ lastModel \in 0..MaxModels
  /\ \A m \in Model : row[m] = Unused <=> m > lastModel
  /\ \A m, q \in Model :
       (HasModel(m) /\ HasModel(q) /\ m # q /\ owner[m] = owner[q]) => row[m].name # row[q].name
  /\ rot \in [Scope -> SUBSET (1..lastModel)]

\* The last step of a request, and a request of one step, keep the types if the
\* tables do.
LEMMA CommitTypes ==
  ASSUME TypeOK, KnownIds, TablesOK', lastModel' = lastModel,
         NEW h \in Request, NEW D, Commit(h, D)
  PROVE  TypeOK' /\ KnownIds'
<1>1. Referenced' \subseteq 1..lastModel'
  BY DEF TablesOK, Referenced
<1>2. req' \in [Request -> RequestState]
  BY DEF Commit, TypeOK, RequestState, Idle
<1>3. stale' \subseteq Request /\ blind' \subseteq 1..lastModel'
  BY <1>1 DEF Commit, Outdate
<1>4. TypeOK'
  BY <1>2, <1>3 DEF TypeOK, TablesOK, HasModel
<1>5. KnownIds'
  BY DEF Commit, KnownIds, TypeOK, Idle
<1> QED BY <1>4, <1>5

\* Likewise for the writes of one step.
LEMMA AtOnceTypes ==
  ASSUME TypeOK, KnownIds, TablesOK', lastModel' \in Nat, lastModel' >= lastModel, AtOnce
  PROVE  TypeOK' /\ KnownIds'
<1>1. 1..lastModel \subseteq 1..lastModel'
  BY DEF TypeOK
<1>2. stale' \subseteq Request /\ blind' \subseteq 1..lastModel'
  BY <1>1 DEF AtOnce, Outdate, TypeOK
<1>3. TypeOK'
  BY <1>2 DEF AtOnce, TypeOK, TablesOK, HasModel
<1>4. KnownIds'
  BY <1>1 DEF AtOnce, KnownIds
<1> QED BY <1>3, <1>4

\* Listed names are spellings, one for each normalized name.
LEMMA ListingSpells ==
  ASSUME NEW remote \in Listing
  PROVE  /\ DOMAIN remote \subseteq Range(Norm)
         /\ \A k \in DOMAIN remote : remote[k] \in Name /\ Norm[remote[k]] = k
<1>1. PICK list \in ListModels : remote \in RemoteNameIndex(list)
  BY DEF Listing
<1>2. list \subseteq Name /\ DOMAIN Norm = Name
  BY LedgerAssumption DEF ListModels
<1>3. remote \in [{Norm[n] : n \in list} -> list]
      /\ \A k \in DOMAIN remote : Norm[remote[k]] = k
  BY <1>1 DEF RemoteNameIndex
<1>4. DOMAIN remote = {Norm[n] : n \in list}
  BY <1>3
<1>5. DOMAIN remote \subseteq Range(Norm)
  BY <1>2, <1>4 DEF Range
<1>6. \A k \in DOMAIN remote : remote[k] \in list
  BY <1>3, <1>4
<1> QED BY <1>2, <1>3, <1>5, <1>6

\* A sync keeps the names of a provider apart: listed names differ where their
\* normalized names do, and a promoted row is the only one of its name.
LEMMA SyncTables ==
  ASSUME TypeOK, NEW p \in Provider, NEW remote \in Listing,
         SyncLLMProviderModels(p, remote)
  PROVE  TablesOK' /\ lastModel' \in Nat /\ lastModel' >= lastModel
<1> DEFINE missing == Missing(p, remote)
           promoted == Promoted(p, remote)
           vanished == Vanished(p, remote)
           fresh == (lastModel + 1)..(lastModel + Cardinality(missing))
           Renamed(m) == [row[m] EXCEPT !.source = "api", !.name = remote[Norm[row[m].name]]]
<1>1. PICK keyOf \in Bijection(fresh, missing) :
        row' = [m \in Model |-> IF m \in fresh THEN Inserted(remote[keyOf[m]])
                                ELSE IF m \in vanished THEN Gone
                                ELSE IF m \in promoted THEN Renamed(m) ELSE row[m]]
  BY DEF SyncLLMProviderModels
<1>2. /\ HasProvider(p) /\ fresh \subseteq Model /\ ~Ambiguous(p, promoted)
      /\ lastModel' = lastModel + Cardinality(missing)
      /\ owner' = [m \in Model |-> IF m \in fresh THEN p ELSE owner[m]]
      /\ rot' = Pruned(vanished) /\ prov' = prov
  BY DEF SyncLLMProviderModels
<1>3. /\ DOMAIN remote \subseteq Range(Norm)
      /\ \A k \in DOMAIN remote : remote[k] \in Name /\ Norm[remote[k]] = k
  BY ListingSpells
<1>4. Cardinality(missing) \in Nat
  <2>1. IsFiniteSet(Range(Norm))
    BY LedgerAssumption
  <2>2. missing \subseteq Range(Norm)
    BY <1>3 DEF Missing
  <2> QED BY <2>1, <2>2, FS_Subset, FS_CardinalityType
<1>5. /\ keyOf \in [fresh -> missing] /\ missing \subseteq DOMAIN remote
      /\ \A a, b \in fresh : keyOf[a] = keyOf[b] => a = b
  BY DEF Bijection, Injection, IsInjective, Missing
<1>6. /\ lastModel \in 0..MaxModels /\ MaxModels \in Nat
      /\ lastModel' \in 0..MaxModels /\ lastModel' >= lastModel
      /\ \A m \in Model : m \in fresh <=> (m > lastModel /\ m <= lastModel')
  BY <1>2, <1>4, LedgerAssumption DEF TypeOK, Model
<1>7. \A m \in fresh : /\ remote[keyOf[m]] \in Name /\ Norm[remote[keyOf[m]]] = keyOf[m]
                       /\ Inserted(remote[keyOf[m]]) \in ModelRow
  BY <1>3, <1>5 DEF Inserted, ModelRow
<1>8. \A m \in promoted : /\ m \in Model /\ HasModel(m) /\ row[m] \in ModelRow /\ owner[m] = p
                          /\ Norm[row[m].name] \in DOMAIN remote
                          /\ Renamed(m) \in ModelRow
                          /\ Norm[Renamed(m).name] = Norm[row[m].name]
  <2> SUFFICES ASSUME NEW m \in promoted
               PROVE  /\ m \in Model /\ HasModel(m) /\ row[m] \in ModelRow /\ owner[m] = p
                      /\ Norm[row[m].name] \in DOMAIN remote
                      /\ Renamed(m) \in ModelRow
                      /\ Norm[Renamed(m).name] = Norm[row[m].name]
    OBVIOUS
  <2>1. m \in Model /\ HasModel(m) /\ owner[m] = p /\ Norm[row[m].name] \in DOMAIN remote
    BY DEF Promoted, ModelsOf
  <2>2. row[m] \in ModelRow
    BY <2>1, LiveRow
  <2>3. remote[Norm[row[m].name]] \in Name /\ Norm[remote[Norm[row[m].name]]] = Norm[row[m].name]
    BY <2>1, <1>3
  <2>4. Renamed(m) \in ModelRow /\ Renamed(m).name = remote[Norm[row[m].name]]
    BY <2>2, <2>3 DEF ModelRow
  <2> QED BY <2>1, <2>2, <2>3, <2>4
<1>9. row' \in [Model -> ModelRow \cup {Unused, Gone}]
  BY <1>1, <1>7, <1>8 DEF TypeOK
<1>10. \A m \in Model : row'[m] = Unused <=> m > lastModel'
  <2> TAKE m \in Model
  <2>1. CASE m \in fresh
    <3>1. row'[m] \in ModelRow
      BY <2>1, <1>1, <1>7
    <3>2. row'[m] # Unused
      BY <3>1, LedgerAssumption
    <3>3. ~(m > lastModel')
      BY <2>1, <1>6 DEF Model
    <3> QED BY <3>2, <3>3
  <2>2. CASE m \notin fresh
    <3>1. m \in vanished \cup promoted => row[m] # Unused
      BY DEF Vanished, Promoted, ModelsOf, HasModel
    <3>2. row'[m] = Unused <=> row[m] = Unused
      BY <2>2, <3>1, <1>1, <1>8, LedgerAssumption
    <3>3. row[m] = Unused <=> m > lastModel
      BY DEF TypeOK
    <3> QED BY <2>2, <3>2, <3>3, <1>6 DEF Model
  <2> QED BY <2>1, <2>2
\* A row that was there keeps its provider and its normalized name.
<1>11. ASSUME NEW m \in Model, HasModel(m)', m \notin fresh
       PROVE  /\ HasModel(m) /\ row[m] \in ModelRow /\ owner'[m] = owner[m]
              /\ Norm[row'[m].name] = Norm[row[m].name]
              /\ m \notin promoted => row'[m] = row[m]
  <2>1. m \notin vanished
    BY <1>1, <1>11 DEF HasModel
  <2>2. HasModel(m)
    BY <2>1, <1>1, <1>8, <1>11 DEF HasModel
  <2>3. row'[m] = IF m \in promoted THEN Renamed(m) ELSE row[m]
    BY <2>1, <1>1, <1>11
  <2> QED BY <2>2, <2>3, <1>2, <1>8, <1>11, LiveRow
<1>12. ASSUME NEW m \in fresh, NEW q \in Model \ fresh, HasModel(q)', owner'[q] = owner'[m]
       PROVE  row'[m].name # row'[q].name
  <2>1. Norm[row'[m].name] = keyOf[m] /\ keyOf[m] \in missing /\ owner'[m] = p
    BY <1>1, <1>2, <1>5, <1>7 DEF Inserted
  <2>2. q \in ModelsOf(p)
    BY <2>1, <1>11, <1>12 DEF ModelsOf
  <2>3. Norm[row'[q].name] # keyOf[m]
    BY <2>1, <2>2, <1>11, <1>12 DEF Missing
  <2> QED BY <2>1, <2>3
\* A promoted row is the only one of its normalized name.
<1>13. ASSUME NEW m \in promoted, NEW q \in Model \ fresh, HasModel(m)', HasModel(q)', m \notin fresh,
              q # m, owner'[q] = owner'[m]
       PROVE  row'[m].name # row'[q].name
  <2>1. q \in ModelsOf(p)
    BY <1>2, <1>8, <1>11, <1>13 DEF ModelsOf
  <2>2. q \notin SameName(p, m)
    BY <1>2, <1>13 DEF Ambiguous
  <2>3. Norm[row[q].name] # Norm[row[m].name]
    BY <2>1, <2>2, <1>13 DEF SameName
  <2>4. /\ Norm[row'[m].name] = Norm[row[m].name]
        /\ Norm[row'[q].name] = Norm[row[q].name]
    BY <1>8, <1>11, <1>13
  <2> QED BY <2>3, <2>4
<1>14. \A m, q \in Model :
         (HasModel(m)' /\ HasModel(q)' /\ m # q /\ owner'[m] = owner'[q]) => row'[m].name # row'[q].name
  <2> SUFFICES ASSUME NEW m \in Model, NEW q \in Model, HasModel(m)', HasModel(q)', m # q,
                      owner'[m] = owner'[q]
               PROVE  row'[m].name # row'[q].name
    OBVIOUS
  <2>1. CASE m \in fresh /\ q \in fresh
    <3>1. Norm[row'[m].name] = keyOf[m] /\ Norm[row'[q].name] = keyOf[q]
      BY <2>1, <1>1, <1>7 DEF Inserted
    <3> QED BY <3>1, <2>1, <1>5
  <2>2. CASE m \in fresh /\ q \notin fresh
    BY <2>2, <1>12
  <2>3. CASE m \notin fresh /\ q \in fresh
    BY <2>3, <1>12
  <2>4. CASE m \notin fresh /\ q \notin fresh /\ (m \in promoted \/ q \in promoted)
    BY <2>4, <1>13
  <2>5. CASE m \notin fresh /\ q \notin fresh /\ m \notin promoted /\ q \notin promoted
    BY <2>5, <1>11 DEF TypeOK
  <2> QED BY <2>1, <2>2, <2>3, <2>4, <2>5
<1>15. rot' \in [Scope -> SUBSET (1..lastModel')]
  BY <1>2, <1>6 DEF Pruned, TypeOK
<1>16. prov' \in [Provider -> ProviderRow \cup {Unused, Gone}] /\ owner' \in [Model -> Provider]
  BY <1>2 DEF TypeOK
<1> QED BY <1>6, <1>9, <1>10, <1>14, <1>15, <1>16 DEF TablesOK, HasModel

\* Rows of deleted ids: the rest stays apart.
LEMMA DeleteTables ==
  ASSUME TypeOK, NEW dead \in SUBSET Model, \A m \in dead : HasModel(m),
         row' = [m \in Model |-> IF m \in dead THEN Gone ELSE row[m]],
         prov' \in [Provider -> ProviderRow \cup {Unused, Gone}],
         UNCHANGED <<owner, lastModel, rot>>
  PROVE  TablesOK'
<1>1. row' \in [Model -> ModelRow \cup {Unused, Gone}]
  BY DEF TypeOK
<1>2. \A m \in Model : row'[m] = Unused <=> m > lastModel
  BY LedgerAssumption DEF TypeOK, HasModel
<1>3. \A m \in Model : HasModel(m)' => HasModel(m) /\ row'[m] = row[m]
  BY DEF HasModel
<1>4. \A m, q \in Model :
        (HasModel(m)' /\ HasModel(q)' /\ m # q /\ owner'[m] = owner'[q]) => row'[m].name # row'[q].name
  BY <1>3 DEF TypeOK
<1> QED BY <1>1, <1>2, <1>4 DEF TablesOK, TypeOK, HasModel

\* Empty tables and idle requests are well typed.
LEMMA TypesInit == Init => TypeOK /\ KnownIds
<1> SUFFICES ASSUME Init PROVE TypeOK /\ KnownIds
  OBVIOUS
<1>1. req \in [Request -> RequestState] /\ \A h \in Request : req[h].op = "idle"
  BY DEF Init, Idle, RequestState
<1>2. TypeOK
  BY <1>1, LedgerAssumption DEF Init, TypeOK, Model, HasModel
<1> QED BY <1>1, <1>2 DEF KnownIds

\* Every action preserves the types.
LEMMA TypesStep == TypeOK /\ KnownIds /\ [Next]_vars => TypeOK' /\ KnownIds'
<1> SUFFICES ASSUME TypeOK, KnownIds, [Next]_vars PROVE TypeOK' /\ KnownIds'
  OBVIOUS
<1>1. ASSUME NEW p \in Provider, NEW key \in BOOLEAN, CreateLLMProvider(p, key)
      PROVE  TypeOK' /\ KnownIds'
  <2>1. prov' \in [Provider -> ProviderRow \cup {Unused, Gone}]
    BY <1>1 DEF CreateLLMProvider, TypeOK, ProviderRow
  <2>2. TablesOK' /\ lastModel' \in Nat /\ lastModel' >= lastModel
    BY <1>1, <2>1, LedgerAssumption DEF CreateLLMProvider, TypeOK, TablesOK, HasModel
  <2> QED BY <1>1, <2>2, AtOnceTypes DEF CreateLLMProvider
<1>2. ASSUME NEW p \in Provider, NEW r \in ProviderRow, UpdateLLMProvider(p, r)
      PROVE  TypeOK' /\ KnownIds'
  <2>1. prov' \in [Provider -> ProviderRow \cup {Unused, Gone}]
    BY <1>2 DEF UpdateLLMProvider, TypeOK
  <2>2. TablesOK' /\ lastModel' \in Nat /\ lastModel' >= lastModel
    BY <1>2, <2>1, LedgerAssumption DEF UpdateLLMProvider, TypeOK, TablesOK, HasModel
  <2> QED BY <1>2, <2>2, AtOnceTypes DEF UpdateLLMProvider
<1>3. ASSUME NEW p \in Provider, NEW n \in Name, CreateLLMProviderModel(p, n)
      PROVE  TypeOK' /\ KnownIds'
  <2> DEFINE new == lastModel + 1
             fresh == [name |-> n, source |-> "manual", enabled |-> TRUE, isNew |-> FALSE]
  <2>1. /\ lastModel \in 0..MaxModels /\ MaxModels \in Nat /\ new \in Model /\ lastModel' = new
        /\ row' = [row EXCEPT ![new] = fresh] /\ owner' = [owner EXCEPT ![new] = p]
        /\ fresh \in ModelRow /\ fresh # Unused /\ prov' = prov /\ rot' = rot
    <3>1. fresh \in ModelRow
      BY DEF ModelRow
    <3>2. fresh # Unused
      BY <3>1, LedgerAssumption
    <3>3. lastModel \in 0..MaxModels /\ MaxModels \in Nat
      BY LedgerAssumption DEF TypeOK
    <3>4. new \in Model
      BY <1>3, <3>3 DEF CreateLLMProviderModel, Model
    <3> QED BY <1>3, <3>1, <3>2, <3>3, <3>4 DEF CreateLLMProviderModel
  <2>2. row' \in [Model -> ModelRow \cup {Unused, Gone}] /\ owner' \in [Model -> Provider]
    BY <2>1 DEF TypeOK
  <2>3. \A m \in Model : row'[m] = Unused <=> m > lastModel'
    BY <2>1 DEF TypeOK, Model
  <2>4. \A q \in Model : (q # new /\ HasModel(q)') => HasModel(q) /\ row'[q] = row[q] /\ owner'[q] = owner[q]
    BY <2>1 DEF HasModel, TypeOK
  <2>5. \A q \in Model : (q # new /\ HasModel(q)' /\ owner'[q] = p) => row'[q].name # n
    BY <2>4, <1>3 DEF CreateLLMProviderModel, NameTaken, ModelsOf
  <2>6. row'[new].name = n /\ owner'[new] = p
    BY <2>1 DEF TypeOK
  <2>7. \A m, q \in Model :
          (HasModel(m)' /\ HasModel(q)' /\ m # q /\ owner'[m] = owner'[q]) => row'[m].name # row'[q].name
    BY <2>4, <2>5, <2>6 DEF TypeOK
  <2>8. rot' \in [Scope -> SUBSET (1..lastModel')]
    BY <2>1 DEF TypeOK
  <2>9. TablesOK' /\ lastModel' \in Nat /\ lastModel' >= lastModel
    <3>1. lastModel' \in 0..MaxModels /\ lastModel' \in Nat /\ lastModel' >= lastModel
      BY <2>1 DEF Model
    <3>2. prov' \in [Provider -> ProviderRow \cup {Unused, Gone}]
      BY <2>1 DEF TypeOK
    <3> QED BY <3>1, <3>2, <2>2, <2>3, <2>7, <2>8 DEF TablesOK, HasModel
  <2> QED BY <1>3, <2>9, AtOnceTypes DEF CreateLLMProviderModel
<1>4. ASSUME NEW p \in Provider, LLMProviderModelsResync(p)
      PROVE  TypeOK' /\ KnownIds'
  <2>1. PICK remote \in Listing : SyncLLMProviderModels(p, remote)
    BY <1>4 DEF LLMProviderModelsResync
  <2>2. AtOnce
    BY <2>1 DEF SyncLLMProviderModels
  <2> QED BY <2>1, <2>2, SyncTables, AtOnceTypes
<1>5. ASSUME NEW h \in Request, NEW p \in Provider, CheckProvider(h, p)
      PROVE  TypeOK' /\ KnownIds'
  <2>1. [op |-> "deleteProvider", provider |-> p] \in RequestState
    BY DEF RequestState
  <2> QED BY <1>5, <2>1, BeginTypes DEF CheckProvider
<1>6. ASSUME NEW h \in Request, NEW m \in Model, CheckModel(h, m)
      PROVE  TypeOK' /\ KnownIds'
  <2>1. [op |-> "deleteModel", model |-> m] \in RequestState
    BY DEF RequestState
  <2> QED BY <1>6, <2>1, BeginTypes DEF CheckModel
<1>7. ASSUME NEW h \in Request, NEW m \in Model, ReadModel(h, m)
      PROVE  TypeOK' /\ KnownIds'
  <2>1. row[m] \in ModelRow /\ m \in 1..lastModel
    BY <1>7, LiveRow DEF ReadModel
  <2>2. [op |-> "update", model |-> m, row |-> row[m]] \in RequestState
    BY <2>1 DEF RequestState
  <2> QED BY <1>7, <2>1, <2>2, BeginTypes DEF ReadModel
<1>8. ASSUME NEW h \in Request, NEW s \in Scope, NEW pairs \in SUBSET Model, CheckRotation(h, s, pairs)
      PROVE  TypeOK' /\ KnownIds'
  <2>1. pairs \subseteq 1..lastModel
    BY <1>8, LiveRow DEF CheckRotation, Selectable
  <2>2. [op |-> "save", scope |-> s, pairs |-> pairs] \in RequestState
    BY DEF RequestState
  <2> QED BY <1>8, <2>1, <2>2, BeginTypes DEF CheckRotation
<1>9. ASSUME NEW h \in Request, NEW x \in Repo, PickLLMRotation(h, x)
      PROVE  TypeOK' /\ KnownIds'
  <2>1. PICK m \in (IF rot[x] # {} THEN rot[x] ELSE rot["global"]) : Begin(h, [op |-> "build", model |-> m])
    BY <1>9 DEF PickLLMRotation
  <2>2. m \in Model
    BY <2>1, LedgerAssumption DEF TypeOK, Scope, Model
  <2>3. [op |-> "build", model |-> m] \in RequestState
    BY <2>2 DEF RequestState
  <2> QED BY <2>1, <2>3, BeginTypes
<1>10. ASSUME NEW h \in Request, DeleteLLMProvider(h)
       PROVE  TypeOK' /\ KnownIds'
  <2> DEFINE p == req[h].provider
  <2>1. p \in Provider /\ Cascade(p) \in SUBSET Model /\ \A m \in Cascade(p) : HasModel(m)
    BY <1>10, RequestTypes DEF DeleteLLMProvider, Cascade, ModelsOf
  <2>2. prov' \in [Provider -> ProviderRow \cup {Unused, Gone}]
    BY <1>10 DEF DeleteLLMProvider, TypeOK
  <2>3. TablesOK'
    BY <1>10, <2>1, <2>2, DeleteTables DEF DeleteLLMProvider
  <2> QED BY <1>10, <2>3, CommitTypes DEF DeleteLLMProvider
<1>11. ASSUME NEW h \in Request, DeleteLLMProviderModel(h)
       PROVE  TypeOK' /\ KnownIds'
  <2> DEFINE m == req[h].model
  <2>1. m \in Model /\ HasModel(m)
    BY <1>11, RequestTypes DEF DeleteLLMProviderModel
  <2>2. row' = [q \in Model |-> IF q \in {m} THEN Gone ELSE row[q]]
    BY <1>11, <2>1 DEF DeleteLLMProviderModel, TypeOK
  <2>3. /\ {m} \in SUBSET Model /\ \A q \in {m} : HasModel(q)
        /\ prov' \in [Provider -> ProviderRow \cup {Unused, Gone}]
        /\ UNCHANGED <<owner, lastModel, rot>>
    BY <1>11, <2>1 DEF DeleteLLMProviderModel, TypeOK
  <2>4. TablesOK'
    BY <2>2, <2>3, DeleteTables
  <2> QED BY <1>11, <2>4, CommitTypes DEF DeleteLLMProviderModel
<1>12. ASSUME NEW h \in Request, NEW n \in Name, NEW on \in BOOLEAN, UpdateLLMProviderModel(h, n, on)
       PROVE  TypeOK' /\ KnownIds'
  <2> DEFINE m == req[h].model
             edited == Edited(req[h].row, n, on)
  <2>1. m \in Model /\ req[h].row \in ModelRow /\ HasModel(m) /\ row[m] \in ModelRow
    BY <1>12, RequestTypes, LiveRow DEF UpdateLLMProviderModel
  <2>2. edited \in ModelRow
    BY <2>1 DEF Edited, ModelRow
  <2>3. PICK source \in {edited.source, row[m].source} :
          row' = [row EXCEPT ![m] = [edited EXCEPT !.source = source]]
    BY <1>12 DEF UpdateLLMProviderModel
  <2>4. [edited EXCEPT !.source = source] \in ModelRow /\ [edited EXCEPT !.source = source].name = edited.name
    BY <2>1, <2>2 DEF ModelRow
  <2>5. row' \in [Model -> ModelRow \cup {Unused, Gone}]
    BY <2>1, <2>3, <2>4 DEF TypeOK
  <2>6. row'[m] \in ModelRow /\ row'[m].name = edited.name /\ \A q \in Model : q # m => row'[q] = row[q]
    BY <2>1, <2>3, <2>4 DEF TypeOK
  <2>7. \A q \in Model : row'[q] = Unused <=> q > lastModel
    BY <2>1, <2>6, LedgerAssumption DEF TypeOK, HasModel
  <2>8. \A q \in Model : (q # m /\ HasModel(q) /\ owner[q] = owner[m]) => row[q].name # edited.name
    BY <1>12 DEF UpdateLLMProviderModel, ModelsOf
  <2>9. owner' = owner /\ lastModel' = lastModel /\ rot' = rot /\ prov' = prov /\ Commit(h, {})
    BY <1>12 DEF UpdateLLMProviderModel
  <2>10. \A q \in Model : HasModel(q)' => HasModel(q)
    BY <2>1, <2>6 DEF HasModel
  <2>11. \A a, q \in Model :
           (HasModel(a)' /\ HasModel(q)' /\ a # q /\ owner'[a] = owner'[q]) => row'[a].name # row'[q].name
    <3> SUFFICES ASSUME NEW a \in Model, NEW q \in Model, HasModel(a)', HasModel(q)', a # q,
                        owner'[a] = owner'[q]
                 PROVE  row'[a].name # row'[q].name
      OBVIOUS
    <3>1. HasModel(a) /\ HasModel(q) /\ owner[a] = owner[q]
      BY <2>9, <2>10
    <3>2. CASE a = m
      BY <3>1, <3>2, <2>6, <2>8
    <3>3. CASE q = m
      BY <3>1, <3>3, <2>6, <2>8
    <3>4. CASE a # m /\ q # m
      BY <3>1, <3>4, <2>6 DEF TypeOK
    <3> QED BY <3>2, <3>3, <3>4
  <2>12. TablesOK'
    BY <2>5, <2>7, <2>9, <2>11 DEF TablesOK, TypeOK, HasModel
  <2> QED BY <2>9, <2>12, CommitTypes
<1>13. ASSUME NEW h \in Request, SaveRotation(h)
       PROVE  TypeOK' /\ KnownIds'
  <2>1. req[h].scope \in Scope /\ req[h].pairs \subseteq 1..lastModel
    BY <1>13, RequestTypes DEF SaveRotation, KnownIds
  <2>2. rot' \in [Scope -> SUBSET (1..lastModel)]
    BY <1>13, <2>1 DEF SaveRotation, TypeOK
  <2>3. TablesOK'
    BY <1>13, <2>2 DEF SaveRotation, TypeOK, TablesOK, HasModel
  <2> QED BY <1>13, <2>3, CommitTypes DEF SaveRotation
<1>14. ASSUME NEW h \in Request, Leave(h)
       PROVE  TypeOK' /\ KnownIds'
  <2>1. req' \in [Request -> RequestState]
    BY <1>14 DEF Leave, TypeOK, RequestState, Idle
  <2>2. TypeOK'
    BY <1>14, <2>1 DEF Leave, TypeOK, ledger, HasModel
  <2>3. KnownIds'
    BY <1>14 DEF Leave, TypeOK, KnownIds, ledger, Idle
  <2> QED BY <2>2, <2>3
<1>15. ASSUME NEW h \in Request, BuildLedgerSelection(h)
       PROVE  TypeOK' /\ KnownIds'
  BY <1>14, <1>15 DEF BuildLedgerSelection
<1>16. CASE UNCHANGED vars
  <2>1. TypeOK'
    BY <1>16 DEF vars, ledger, TypeOK, HasModel
  <2> QED BY <2>1, <1>16 DEF vars, ledger, KnownIds
<1> QED
  BY <1>1, <1>2, <1>3, <1>4, <1>5, <1>6, <1>7, <1>8, <1>9, <1>10, <1>11, <1>12, <1>13, <1>14, <1>15,
     <1>16 DEF Next

\* The tables keep their types and the names of a provider apart, although a sync
\* compares names without their case and everything else compares them as they are.
THEOREM TablesTyped == Spec => []TypeOK
<1>1. TypeOK /\ KnownIds /\ [Next]_vars => (TypeOK /\ KnownIds)'
  BY TypesStep
<1> QED BY TypesInit, <1>1, PTL DEF Spec

-----------------------------------------------------------------------------
(* Rows and providers.                                                     *)

\* The steps that only read leave every table alone.
LEMMA Readers ==
  ASSUME NEW h \in Request,
         \/ \E p \in Provider : CheckProvider(h, p)
         \/ \E m \in Model : CheckModel(h, m)
         \/ \E m \in Model : ReadModel(h, m)
         \/ \E s \in Scope, pairs \in SUBSET Model : CheckRotation(h, s, pairs)
         \/ \E x \in Repo : PickLLMRotation(h, x)
         \/ BuildLedgerSelection(h)
         \/ Leave(h)
  PROVE  UNCHANGED ledger
BY DEF CheckProvider, CheckModel, ReadModel, CheckRotation, PickLLMRotation, BuildLedgerSelection,
       Begin, Leave

\* A sync deletes or inserts rows of its provider; it keeps the others as they
\* are, and inserts api rows that are off.
LEMMA SyncRows ==
  ASSUME TypeOK, NEW p \in Provider, NEW remote \in Listing,
         SyncLLMProviderModels(p, remote), NEW m \in Model, HasModel(m)'
  PROVE  \/ /\ m \notin 1..lastModel /\ owner'[m] = p
            /\ row'[m].isNew /\ ~row'[m].enabled /\ row'[m].source = "api"
         \/ /\ HasModel(m) /\ m \notin Vanished(p, remote) /\ owner'[m] = owner[m]
            /\ row'[m].isNew = row[m].isNew /\ row'[m].enabled = row[m].enabled
            /\ row'[m].source \in {row[m].source, "api"}
            /\ row'[m].source # row[m].source => row[m].source = "manual"
<1> DEFINE fresh == (lastModel + 1)..(lastModel + Cardinality(Missing(p, remote)))
           Renamed == [row[m] EXCEPT !.source = "api", !.name = remote[Norm[row[m].name]]]
<1>1. PICK keyOf \in Bijection(fresh, Missing(p, remote)) :
        row' = [q \in Model |->
          IF q \in fresh THEN Inserted(remote[keyOf[q]])
          ELSE IF q \in Vanished(p, remote) THEN Gone
          ELSE IF q \in Promoted(p, remote)
          THEN [row[q] EXCEPT !.source = "api", !.name = remote[Norm[row[q].name]]]
          ELSE row[q]]
  BY DEF SyncLLMProviderModels
<1>2. owner' = [q \in Model |-> IF q \in fresh THEN p ELSE owner[q]]
  BY DEF SyncLLMProviderModels
<1>3. CASE m \in fresh
  <2>1. m \notin 1..lastModel
    BY <1>3 DEF TypeOK
  <2>2. row'[m] = Inserted(remote[keyOf[m]]) /\ owner'[m] = p
    BY <1>1, <1>2, <1>3
  <2>3. row'[m].isNew = TRUE /\ row'[m].enabled = FALSE /\ row'[m].source = "api"
    BY <2>2 DEF Inserted
  <2> QED BY <2>1, <2>2, <2>3
<1>4. CASE m \notin fresh
  <2>1. m \notin Vanished(p, remote) /\ owner'[m] = owner[m]
    BY <1>1, <1>2, <1>4 DEF HasModel
  <2>2. CASE m \in Promoted(p, remote)
    <3>1. HasModel(m) /\ row[m].source = "manual" /\ row[m] \in ModelRow
      BY <2>2, LiveRow DEF Promoted, ModelsOf
    <3>2. row'[m] = Renamed
      BY <1>1, <1>4, <2>1, <2>2
    <3>3. /\ Renamed.isNew = row[m].isNew /\ Renamed.enabled = row[m].enabled
          /\ Renamed.source = "api"
      BY <3>1 DEF ModelRow
    <3> QED BY <2>1, <3>1, <3>2, <3>3
  <2>3. CASE m \notin Promoted(p, remote)
    <3>1. row'[m] = row[m] /\ HasModel(m)
      BY <1>1, <1>4, <2>1, <2>3 DEF HasModel
    <3> QED BY <2>1, <3>1
  <2> QED BY <2>2, <2>3
<1> QED BY <1>3, <1>4

\* Every action preserves the owners.
LEMMA RowsHaveProviderStep == TypeOK /\ RowsHaveProvider /\ [Next]_vars => RowsHaveProvider'
<1> SUFFICES ASSUME TypeOK, RowsHaveProvider, [Next]_vars, NEW m \in Model, HasModel(m)'
             PROVE  HasProvider(owner[m])'
  BY DEF RowsHaveProvider
<1> owner[m] \in Provider
  BY DEF TypeOK
<1>1. CASE \E p \in Provider, key \in BOOLEAN : CreateLLMProvider(p, key)
  <2>1. PICK p \in Provider, key \in BOOLEAN : CreateLLMProvider(p, key)
    BY <1>1
  <2>2. prov[owner[m]] \notin {Unused, Gone} /\ owner' = owner
    BY <2>1 DEF CreateLLMProvider, RowsHaveProvider, HasProvider, HasModel
  <2>3. owner[m] # p /\ prov'[owner[m]] = prov[owner[m]]
    BY <2>1, <2>2 DEF CreateLLMProvider, TypeOK
  <2> QED BY <2>2, <2>3 DEF HasProvider
<1>2. CASE \E p \in Provider, r \in ProviderRow : UpdateLLMProvider(p, r)
  <2>1. PICK p \in Provider, r \in ProviderRow : UpdateLLMProvider(p, r)
    BY <1>2
  <2>2. prov[owner[m]] \notin {Unused, Gone} /\ owner' = owner
    BY <2>1 DEF UpdateLLMProvider, RowsHaveProvider, HasProvider, HasModel
  <2>3. prov'[owner[m]] \in {prov[owner[m]], r} /\ r \notin {Unused, Gone}
    BY <2>1, LedgerAssumption DEF UpdateLLMProvider, TypeOK
  <2> QED BY <2>2, <2>3 DEF HasProvider
<1>3. CASE \E p \in Provider, n \in Name : CreateLLMProviderModel(p, n)
  <2>1. PICK p \in Provider, n \in Name : CreateLLMProviderModel(p, n)
    BY <1>3
  <2>2. HasProvider(p) /\ prov' = prov
    BY <2>1 DEF CreateLLMProviderModel
  <2>3. owner'[m] = p \/ (HasModel(m) /\ owner'[m] = owner[m])
    BY <2>1 DEF CreateLLMProviderModel, TypeOK, HasModel
  <2> QED BY <2>2, <2>3 DEF RowsHaveProvider, HasProvider
<1>4. CASE \E p \in Provider : LLMProviderModelsResync(p)
  <2>1. PICK p \in Provider, remote \in Listing : SyncLLMProviderModels(p, remote)
    BY <1>4 DEF LLMProviderModelsResync
  <2>2. HasProvider(p) /\ prov' = prov
    BY <2>1 DEF SyncLLMProviderModels
  <2>3. owner'[m] = p \/ (HasModel(m) /\ owner'[m] = owner[m])
    BY <2>1, SyncRows
  <2> QED BY <2>2, <2>3 DEF RowsHaveProvider, HasProvider
<1>5. CASE \E h \in Request : DeleteLLMProvider(h)
  <2>1. PICK h \in Request : DeleteLLMProvider(h)
    BY <1>5
  <2>2. /\ req[h].provider \in Provider /\ owner' = owner
        /\ prov' = [prov EXCEPT ![req[h].provider] = Gone]
        /\ row' = [q \in Model |-> IF q \in ModelsOf(req[h].provider) THEN Gone ELSE row[q]]
    BY <2>1, RequestTypes DEF DeleteLLMProvider, Cascade
  <2>3. HasModel(m) /\ owner[m] # req[h].provider
    BY <2>2 DEF HasModel, ModelsOf
  <2>4. HasProvider(owner[m])
    BY <2>3 DEF RowsHaveProvider
  <2> QED BY <2>2, <2>3, <2>4 DEF HasProvider, TypeOK
<1>6. CASE \E h \in Request : \/ DeleteLLMProviderModel(h)
                              \/ SaveRotation(h)
                              \/ \E n \in Name, on \in BOOLEAN : UpdateLLMProviderModel(h, n, on)
  <2>1. prov' = prov /\ owner' = owner /\ HasModel(m)
    BY <1>6 DEF DeleteLLMProviderModel, SaveRotation, UpdateLLMProviderModel, HasModel, TypeOK
  <2> QED BY <2>1 DEF RowsHaveProvider, HasProvider
<1>7. CASE UNCHANGED ledger
  BY <1>7 DEF ledger, RowsHaveProvider, HasProvider, HasModel
<1> QED
  BY <1>1, <1>2, <1>3, <1>4, <1>5, <1>6, <1>7, Readers DEF Next, vars

\* No model is left behind by its provider.
THEOREM NoOrphans == Spec => []RowsHaveProvider
<1>1. Init => RowsHaveProvider
  BY DEF Init, RowsHaveProvider, HasModel
<1>2. (TypeOK /\ KnownIds /\ RowsHaveProvider) /\ [Next]_vars => (TypeOK /\ KnownIds /\ RowsHaveProvider)'
  BY TypesStep, RowsHaveProviderStep
<1> QED BY TypesInit, <1>1, <1>2, PTL DEF Spec

-----------------------------------------------------------------------------
(* New rows.  How a step changes the row of a model ...                    *)

Kept(m) ==
  /\ HasModel(m)
  /\ row'[m].isNew = row[m].isNew /\ row'[m].enabled = row[m].enabled
  /\ row'[m].source \in {row[m].source, "api"}
InsertedNow(m) ==
  /\ m \notin 1..lastModel
  /\ row'[m].isNew => ~row'[m].enabled /\ row'[m].source = "api"
WrittenBy(h, m) ==
  /\ HasModel(m) /\ CopyOf(h, m)
  /\ row'[m].isNew => /\ req[h].row.isNew
                      /\ req[h].row.source = "api" => ~row'[m].enabled
  /\ row'[m].source \in {req[h].row.source, row[m].source}

LEMMA RowChanges ==
  ASSUME TypeOK, [Next]_vars, NEW m \in Model, HasModel(m)'
  PROVE  Kept(m) \/ InsertedNow(m) \/ \E h \in Request : WrittenBy(h, m)
<1>1. CASE row' = row
  BY <1>1 DEF Kept, HasModel
<1>2. CASE \E p \in Provider, n \in Name : CreateLLMProviderModel(p, n)
  <2> DEFINE new == lastModel + 1
             fresh(n) == [name |-> n, source |-> "manual", enabled |-> TRUE, isNew |-> FALSE]
  <2>1. PICK n \in Name : row' = [row EXCEPT ![new] = fresh(n)]
    BY <1>2 DEF CreateLLMProviderModel
  <2>2. CASE m = new
    <3>1. row'[m] = fresh(n) /\ m \notin 1..lastModel
      BY <2>1, <2>2 DEF TypeOK
    <3>2. row'[m].isNew = FALSE
      BY <3>1
    <3> QED BY <3>1, <3>2 DEF InsertedNow
  <2>3. CASE m # new
    BY <2>1, <2>3 DEF Kept, HasModel, TypeOK
  <2> QED BY <2>2, <2>3
<1>3. CASE \E p \in Provider : LLMProviderModelsResync(p)
  <2>1. PICK p \in Provider, remote \in Listing : SyncLLMProviderModels(p, remote)
    BY <1>3 DEF LLMProviderModelsResync
  <2> QED BY <2>1, SyncRows DEF Kept, InsertedNow
<1>4. CASE \E h \in Request : DeleteLLMProvider(h) \/ DeleteLLMProviderModel(h)
  BY <1>4 DEF DeleteLLMProvider, DeleteLLMProviderModel, Kept, HasModel, TypeOK
<1>5. CASE \E h \in Request, n \in Name, on \in BOOLEAN : UpdateLLMProviderModel(h, n, on)
  <2>1. PICK h \in Request, n \in Name, on \in BOOLEAN : UpdateLLMProviderModel(h, n, on)
    BY <1>5
  <2> DEFINE q == req[h].model
             edited == Edited(req[h].row, n, on)
  <2>2. PICK source \in {edited.source, row[q].source} :
          row' = [row EXCEPT ![q] = [edited EXCEPT !.source = source]]
    BY <2>1 DEF UpdateLLMProviderModel
  <2>3. q \in Model /\ req[h].row \in ModelRow /\ req[h].op = "update" /\ HasModel(q)
    BY <2>1, RequestTypes DEF UpdateLLMProviderModel
  <2>4. CASE m # q
    BY <2>2, <2>3, <2>4 DEF Kept, HasModel, TypeOK
  <2>5. CASE m = q
    <3>1. /\ edited \in ModelRow /\ edited.source = req[h].row.source /\ edited.enabled = on
          /\ edited.isNew = (req[h].row.isNew /\ ~(req[h].row.source = "api" /\ on))
      BY <2>3 DEF Edited, ModelRow
    <3>2. row'[m] = [edited EXCEPT !.source = source]
      BY <2>2, <2>5 DEF TypeOK
    <3>3. row'[m].source = source /\ row'[m].enabled = on /\ row'[m].isNew = edited.isNew
      BY <3>1, <3>2 DEF ModelRow
    <3>4. CopyOf(h, m)
      BY <2>3, <2>5 DEF CopyOf
    <3>5. row'[m].isNew => req[h].row.isNew /\ (req[h].row.source = "api" => ~row'[m].enabled)
      BY <3>1, <3>3
    <3> QED BY <2>2, <2>3, <2>5, <3>1, <3>3, <3>4, <3>5 DEF WrittenBy
  <2> QED BY <2>4, <2>5
<1>6. CASE \E p \in Provider : \/ \E key \in BOOLEAN : CreateLLMProvider(p, key)
                               \/ \E r \in ProviderRow : UpdateLLMProvider(p, r)
  BY <1>1, <1>6 DEF CreateLLMProvider, UpdateLLMProvider
<1>7. CASE \E h \in Request : SaveRotation(h)
  BY <1>1, <1>7 DEF SaveRotation
<1>8. CASE UNCHANGED ledger
  BY <1>1, <1>8 DEF ledger
<1> QED BY <1>2, <1>3, <1>4, <1>5, <1>6, <1>7, <1>8, Readers DEF Next, vars

\* ... and the copies of it.
LEMMA CopyChanges ==
  ASSUME TypeOK, [Next]_vars, NEW h \in Request, req'[h].op = "update"
  PROVE  \/ req'[h] = req[h]
         \/ /\ HasModel(req'[h].model) /\ req'[h].model \in Model
            /\ req'[h].row = row[req'[h].model]
<1>1. CASE UNCHANGED req
  BY <1>1
<1>2. ASSUME NEW g \in Request, req' = [req EXCEPT ![g] = Idle]
      PROVE  req'[h] = req[h]
  BY <1>2 DEF Idle, TypeOK
<1>3. CASE \E g \in Request, m \in Model : ReadModel(g, m)
  <2>1. PICK g \in Request, m \in Model : ReadModel(g, m)
    BY <1>3
  <2>2. req' = [req EXCEPT ![g] = [op |-> "update", model |-> m, row |-> row[m]]] /\ HasModel(m)
    BY <2>1 DEF ReadModel, Begin
  <2> QED BY <2>2 DEF TypeOK
<1>4. CASE \E g \in Request : \/ \E p \in Provider : CheckProvider(g, p)
                              \/ \E m \in Model : CheckModel(g, m)
                              \/ \E s \in Scope, pairs \in SUBSET Model : CheckRotation(g, s, pairs)
                              \/ \E x \in Repo : PickLLMRotation(g, x)
  <2>1. ASSUME NEW g \in Request, NEW r, r.op # "update", Begin(g, r)
        PROVE  req'[h] = req[h]
    BY <2>1 DEF Begin, TypeOK
  <2>2. ASSUME NEW g \in Request, NEW p \in Provider, CheckProvider(g, p)
        PROVE  req'[h] = req[h]
    <3> DEFINE r == [op |-> "deleteProvider", provider |-> p]
    <3>1. r.op # "update" /\ Begin(g, r)
      BY <2>2 DEF CheckProvider
    <3> QED BY <3>1, <2>1
  <2>3. ASSUME NEW g \in Request, NEW m \in Model, CheckModel(g, m)
        PROVE  req'[h] = req[h]
    <3> DEFINE r == [op |-> "deleteModel", model |-> m]
    <3>1. r.op # "update" /\ Begin(g, r)
      BY <2>3 DEF CheckModel
    <3> QED BY <3>1, <2>1
  <2>4. ASSUME NEW g \in Request, NEW s \in Scope, NEW pairs \in SUBSET Model, CheckRotation(g, s, pairs)
        PROVE  req'[h] = req[h]
    <3> DEFINE r == [op |-> "save", scope |-> s, pairs |-> pairs]
    <3>1. r.op # "update" /\ Begin(g, r)
      BY <2>4 DEF CheckRotation
    <3> QED BY <3>1, <2>1
  <2>5. ASSUME NEW g \in Request, NEW x \in Repo, PickLLMRotation(g, x)
        PROVE  req'[h] = req[h]
    <3>1. PICK m \in (IF rot[x] # {} THEN rot[x] ELSE rot["global"]) : Begin(g, [op |-> "build", model |-> m])
      BY <2>5 DEF PickLLMRotation
    <3>2. [op |-> "build", model |-> m].op # "update"
      OBVIOUS
    <3> QED BY <3>1, <3>2, <2>1
  <2> QED BY <1>4, <2>2, <2>3, <2>4, <2>5
<1>5. CASE \E p \in Provider : \/ \E key \in BOOLEAN : CreateLLMProvider(p, key)
                               \/ \E r \in ProviderRow : UpdateLLMProvider(p, r)
                               \/ \E n \in Name : CreateLLMProviderModel(p, n)
                               \/ LLMProviderModelsResync(p)
  BY <1>1, <1>5 DEF CreateLLMProvider, UpdateLLMProvider, CreateLLMProviderModel, LLMProviderModelsResync,
     SyncLLMProviderModels, AtOnce
<1>6. CASE \E g \in Request : \/ DeleteLLMProvider(g) \/ DeleteLLMProviderModel(g) \/ SaveRotation(g)
                              \/ \E n \in Name, on \in BOOLEAN : UpdateLLMProviderModel(g, n, on)
                              \/ BuildLedgerSelection(g) \/ Leave(g)
  BY <1>2, <1>6 DEF DeleteLLMProvider, DeleteLLMProviderModel, SaveRotation, UpdateLLMProviderModel,
     BuildLedgerSelection, Leave, Commit
<1>7. CASE UNCHANGED vars
  BY <1>1, <1>7 DEF vars
<1> QED BY <1>3, <1>4, <1>5, <1>6, <1>7 DEF Next

NewRows == NewStaysOff /\ CopiesOff /\ NewIsApi

\* Every action preserves the three.
LEMMA NewRowsStep == TypeOK /\ KnownIds /\ NewRows /\ [Next]_vars => NewRows'
<1> SUFFICES ASSUME TypeOK, KnownIds, NewStaysOff, CopiesOff, NewIsApi, [Next]_vars
             PROVE  NewRows'
  BY DEF NewRows
<1>1. \A m \in Model : WasNew(m) => m \in 1..lastModel
  BY LiveRow DEF WasNew, CopyOf, KnownIds
<1>2. NewStaysOff'
  <2> SUFFICES ASSUME NEW m \in Model, HasModel(m)', row'[m].isNew
               PROVE  ~row'[m].enabled /\ row'[m].source = "api"
    BY DEF NewStaysOff
  <2>1. CASE Kept(m)
    BY <2>1 DEF Kept, NewStaysOff
  <2>2. CASE InsertedNow(m)
    BY <2>2 DEF InsertedNow
  <2>3. CASE \E h \in Request : WrittenBy(h, m)
    <3>1. PICK h \in Request : WrittenBy(h, m)
      BY <2>3
    <3>2. WasNew(m)
      BY <3>1 DEF WrittenBy, WasNew
    <3>3. req[h].row.source = "api" /\ row[m].source = "api"
      BY <3>1, <3>2 DEF NewIsApi, WrittenBy
    <3> QED BY <3>1, <3>3 DEF WrittenBy
  <2> QED BY <2>1, <2>2, <2>3, RowChanges
<1>3. CopiesOff'
  <2> SUFFICES ASSUME NEW h \in Request, req'[h].op = "update", req'[h].row.isNew
               PROVE  ~req'[h].row.enabled
    BY DEF CopiesOff
  <2> QED BY CopyChanges DEF CopiesOff, NewStaysOff
<1>4. NewIsApi'
  <2> SUFFICES ASSUME NEW m \in Model, WasNew(m)'
               PROVE  /\ HasModel(m)' => row'[m].source = "api"
                      /\ \A h \in Request : CopyOf(h, m)' => req'[h].row.source = "api"
    BY DEF NewIsApi
  <2>1. WasNew(m) \/ (HasModel(m)' /\ InsertedNow(m) /\ row'[m].isNew)
    <3>1. CASE HasModel(m)' /\ row'[m].isNew
      BY <3>1, RowChanges DEF Kept, WrittenBy, WasNew
    <3>2. CASE \E h \in Request : CopyOf(h, m)' /\ req'[h].row.isNew
      BY <3>2, CopyChanges DEF CopyOf, WasNew
    <3> QED BY <3>1, <3>2 DEF WasNew
  <2>2. CASE WasNew(m)
    <3>1. ~InsertedNow(m)
      BY <1>1, <2>2 DEF InsertedNow
    <3>2. HasModel(m)' => row'[m].source = "api"
      BY <2>2, <3>1, RowChanges DEF Kept, WrittenBy, NewIsApi
    <3>3. \A h \in Request : CopyOf(h, m)' => req'[h].row.source = "api"
      BY <2>2, CopyChanges DEF CopyOf, NewIsApi
    <3> QED BY <3>2, <3>3
  <2>3. CASE HasModel(m)' /\ InsertedNow(m) /\ row'[m].isNew
    <3>1. m \notin 1..lastModel /\ row'[m].source = "api"
      BY <2>3 DEF InsertedNow
    <3>2. \A h \in Request : ~CopyOf(h, m)'
      BY <3>1, CopyChanges, LiveRow DEF CopyOf, KnownIds
    <3> QED BY <3>1, <3>2
  <2> QED BY <2>1, <2>2, <2>3
<1> QED BY <1>2, <1>3, <1>4 DEF NewRows

\* Whatever the requests do with old copies of a row: a model that a sync found
\* stays off until somebody switches it on.
THEOREM NewModelsStayOff == Spec => []NewStaysOff
<1>1. Init => NewRows
  BY DEF Init, Idle, NewRows, NewStaysOff, CopiesOff, NewIsApi, WasNew, CopyOf, HasModel
<1>2. (TypeOK /\ KnownIds /\ NewRows) /\ [Next]_vars => (TypeOK /\ KnownIds /\ NewRows)'
  BY TypesStep, NewRowsStep
<1>3. NewRows => NewStaysOff
  BY DEF NewRows
<1> QED BY TypesInit, <1>1, <1>2, <1>3, PTL DEF Spec

-----------------------------------------------------------------------------
(* Checks and pairs.                                                       *)

\* A write outdates every check, so only reading steps are of interest.
LEMMA ChecksHoldStep == TypeOK /\ ChecksHold /\ [Next]_vars => ChecksHold'
<1> SUFFICES ASSUME TypeOK, ChecksHold, [Next]_vars PROVE ChecksHold'
  OBVIOUS
<1> DEFINE Holds(r) ==
      /\ r.op = "save" => \A m \in r.pairs : HasModel(m)
      /\ r.op = "deleteProvider" => ~ProviderReferenced(r.provider)
      /\ r.op = "deleteModel" => ~ModelReferenced(r.model)
      /\ r.op = "build" => Buildable(r.model)
<1>1. ASSUME NEW h \in Request, NEW r, Begin(h, r), Holds(r)
      PROVE  ChecksHold'
  <2>1. ledger' = ledger /\ stale' = stale /\ req' = [req EXCEPT ![h] = r]
    BY <1>1 DEF Begin
  <2>2. \A g \in Request \ stale' : Holds(req'[g])
    BY <2>1, <1>1 DEF ChecksHold, TypeOK
  <2> QED BY <2>1, <2>2 DEF ledger, ChecksHold, HasModel, HasProvider, ProviderReferenced, ModelReferenced,
             Referenced, Buildable
<1>2. ASSUME \A g \in Request \ stale' : req'[g].op \in {"idle", "update"}
      PROVE  ChecksHold'
  BY <1>2 DEF ChecksHold
<1>3. ASSUME NEW h \in Request, NEW D, Commit(h, D)
      PROVE  ChecksHold'
  BY <1>2, <1>3 DEF Commit, Outdate, Idle, TypeOK
<1>4. ASSUME AtOnce
      PROVE  ChecksHold'
  BY <1>2, <1>4 DEF AtOnce, Outdate
<1>5. CASE \E p \in Provider : \/ \E key \in BOOLEAN : CreateLLMProvider(p, key)
                               \/ \E r \in ProviderRow : UpdateLLMProvider(p, r)
                               \/ \E n \in Name : CreateLLMProviderModel(p, n)
                               \/ LLMProviderModelsResync(p)
  BY <1>4, <1>5 DEF CreateLLMProvider, UpdateLLMProvider, CreateLLMProviderModel, LLMProviderModelsResync,
     SyncLLMProviderModels
<1>6. CASE \E h \in Request : \/ DeleteLLMProvider(h) \/ DeleteLLMProviderModel(h) \/ SaveRotation(h)
                              \/ \E n \in Name, on \in BOOLEAN : UpdateLLMProviderModel(h, n, on)
  BY <1>3, <1>6 DEF DeleteLLMProvider, DeleteLLMProviderModel, SaveRotation, UpdateLLMProviderModel
<1>7. ASSUME NEW h \in Request, NEW p \in Provider, CheckProvider(h, p)
      PROVE  ChecksHold'
  <2> DEFINE r == [op |-> "deleteProvider", provider |-> p]
  <2>1. Begin(h, r) /\ Holds(r)
    BY <1>7 DEF CheckProvider
  <2> HIDE DEF Holds
  <2> QED BY <2>1, <1>1
<1>8. ASSUME NEW h \in Request, NEW m \in Model, CheckModel(h, m)
      PROVE  ChecksHold'
  <2> DEFINE r == [op |-> "deleteModel", model |-> m]
  <2>1. Begin(h, r) /\ Holds(r)
    BY <1>8 DEF CheckModel
  <2> HIDE DEF Holds
  <2> QED BY <2>1, <1>1
<1>9. ASSUME NEW h \in Request, NEW m \in Model, ReadModel(h, m)
      PROVE  ChecksHold'
  <2> DEFINE r == [op |-> "update", model |-> m, row |-> row[m]]
  <2>1. Begin(h, r) /\ Holds(r)
    BY <1>9 DEF ReadModel
  <2> HIDE DEF Holds
  <2> QED BY <2>1, <1>1
<1>10. ASSUME NEW h \in Request, NEW s \in Scope, NEW pairs \in SUBSET Model, CheckRotation(h, s, pairs)
       PROVE  ChecksHold'
  <2> DEFINE r == [op |-> "save", scope |-> s, pairs |-> pairs]
  <2>1. Begin(h, r) /\ Holds(r)
    BY <1>10 DEF CheckRotation, Selectable
  <2> HIDE DEF Holds
  <2> QED BY <2>1, <1>1
<1>11. ASSUME NEW h \in Request, NEW x \in Repo, PickLLMRotation(h, x)
       PROVE  ChecksHold'
  <2>1. PICK m \in (IF rot[x] # {} THEN rot[x] ELSE rot["global"]) :
          Usable(m) /\ Begin(h, [op |-> "build", model |-> m])
    BY <1>11 DEF PickLLMRotation
  <2>2. Buildable(m)
    BY <2>1 DEF Usable, Buildable
  <2> DEFINE r == [op |-> "build", model |-> m]
  <2>3. Begin(h, r) /\ Holds(r)
    BY <2>1, <2>2
  <2> HIDE DEF Holds
  <2> QED BY <2>3, <1>1
<1>12. ASSUME NEW h \in Request, Leave(h)
       PROVE  ChecksHold'
  <2>1. ledger' = ledger /\ stale' = stale \ {h} /\ req' = [req EXCEPT ![h] = Idle]
    BY <1>12 DEF Leave
  <2>2. \A g \in Request \ stale' : Holds(req'[g])
    BY <2>1 DEF ChecksHold, TypeOK, Idle
  <2> QED BY <2>1, <2>2 DEF ledger, ChecksHold, HasModel, HasProvider, ProviderReferenced, ModelReferenced,
             Referenced, Buildable
<1>13. CASE UNCHANGED vars
  BY <1>13 DEF vars, ledger, ChecksHold, HasModel, HasProvider, ProviderReferenced, ModelReferenced,
     Referenced, Buildable
<1> QED
  BY <1>5, <1>6, <1>7, <1>8, <1>9, <1>10, <1>11, <1>12, <1>13 DEF Next, BuildLedgerSelection

\* Rows that a sync does not delete stay.
LEMMA SyncKeeps ==
  ASSUME TypeOK, NEW p \in Provider, NEW remote \in Listing,
         SyncLLMProviderModels(p, remote), NEW m \in Model, HasModel(m), m \notin Vanished(p, remote)
  PROVE  HasModel(m)'
<1> DEFINE fresh == (lastModel + 1)..(lastModel + Cardinality(Missing(p, remote)))
           Renamed == [row[m] EXCEPT !.source = "api", !.name = remote[Norm[row[m].name]]]
<1>1. PICK keyOf \in Bijection(fresh, Missing(p, remote)) :
        row' = [q \in Model |->
          IF q \in fresh THEN Inserted(remote[keyOf[q]])
          ELSE IF q \in Vanished(p, remote) THEN Gone
          ELSE IF q \in Promoted(p, remote)
          THEN [row[q] EXCEPT !.source = "api", !.name = remote[Norm[row[q].name]]]
          ELSE row[q]]
  BY DEF SyncLLMProviderModels
<1>2. m \notin fresh /\ row[m] \in ModelRow
  BY LiveRow DEF TypeOK
<1>3. CASE m \in Promoted(p, remote)
  <2>1. remote[Norm[row[m].name]] \in Name
    BY <1>3, ListingSpells DEF Promoted
  <2>2. Renamed \in ModelRow
    BY <1>2, <2>1 DEF ModelRow
  <2>3. row'[m] = Renamed
    BY <1>1, <1>2, <1>3
  <2> QED BY <2>2, <2>3, LedgerAssumption DEF HasModel
<1>4. CASE m \notin Promoted(p, remote)
  BY <1>1, <1>2, <1>4 DEF HasModel
<1> QED BY <1>3, <1>4

\* A pair that loses its model is put on record.
LEMMA DanglingStep == TypeOK /\ ChecksHold /\ DanglingOnlyIfBlind /\ [Next]_vars => DanglingOnlyIfBlind'
<1> SUFFICES ASSUME TypeOK, ChecksHold, DanglingOnlyIfBlind, [Next]_vars,
                    NEW m \in Referenced', ~HasModel(m)'
             PROVE  m \in blind'
  BY DEF DanglingOnlyIfBlind
\* Ledger and history as they are, or no row and no pair lost.
<1>1. CASE UNCHANGED <<row, rot, blind>>
  BY <1>1 DEF DanglingOnlyIfBlind, Referenced, HasModel
<1>2. CASE \E p \in Provider, n \in Name : CreateLLMProviderModel(p, n)
  <2> DEFINE new == lastModel + 1
             fresh(n) == [name |-> n, source |-> "manual", enabled |-> TRUE, isNew |-> FALSE]
  <2>1. PICK n \in Name : /\ row' = [row EXCEPT ![new] = fresh(n)] /\ rot' = rot /\ blind' = blind
    BY <1>2 DEF CreateLLMProviderModel, AtOnce
  <2>2. m \in Referenced /\ m \in 1..lastModel
    BY <2>1 DEF Referenced, TypeOK
  <2>3. ~HasModel(m)
    BY <2>1, <2>2 DEF HasModel, TypeOK
  <2> QED BY <2>1, <2>2, <2>3 DEF DanglingOnlyIfBlind
<1>3. CASE \E p \in Provider : LLMProviderModelsResync(p)
  <2>1. PICK p \in Provider, remote \in Listing : SyncLLMProviderModels(p, remote)
    BY <1>3 DEF LLMProviderModelsResync
  <2>2. rot' = Pruned(Vanished(p, remote)) /\ blind' = blind
    BY <2>1 DEF SyncLLMProviderModels, AtOnce
  <2>3. m \in Referenced /\ m \notin Vanished(p, remote) /\ m \in Model
    BY <2>2, LedgerAssumption DEF Referenced, Pruned, TypeOK, Model
  <2> QED BY <2>1, <2>2, <2>3, SyncKeeps DEF DanglingOnlyIfBlind
<1>4. ASSUME NEW h \in Request, NEW D, Commit(h, D), m \in Referenced => (HasModel(m) => m \in D),
             m \notin Referenced => m \in D, h \notin stale => m \notin D
      PROVE  m \in blind'
  BY <1>4 DEF Commit, DanglingOnlyIfBlind
<1>5. ASSUME NEW h \in Request, DeleteLLMProvider(h)
      PROVE  m \in blind'
  <2> DEFINE p == req[h].provider
  <2>1. /\ row' = [q \in Model |-> IF q \in ModelsOf(p) THEN Gone ELSE row[q]]
        /\ rot' = rot /\ Commit(h, ModelsOf(p) \cap Referenced) /\ req[h].op = "deleteProvider"
    BY <1>5 DEF DeleteLLMProvider, Cascade
  <2>2. m \in Referenced /\ m \in Model
    BY <2>1, LedgerAssumption DEF Referenced, TypeOK, Model
  <2>3. HasModel(m) => m \in ModelsOf(p) \cap Referenced
    BY <2>1, <2>2 DEF HasModel
  <2>4. h \notin stale => m \notin ModelsOf(p) \cap Referenced
    BY <2>1 DEF ChecksHold, ProviderReferenced, ModelsOf
  <2> QED BY <2>1, <2>2, <2>3, <2>4, <1>4
<1>6. ASSUME NEW h \in Request, DeleteLLMProviderModel(h)
      PROVE  m \in blind'
  <2> DEFINE q == req[h].model
  <2>1. /\ row' = [row EXCEPT ![q] = Gone]
        /\ rot' = rot /\ Commit(h, {q} \cap Referenced) /\ req[h].op = "deleteModel"
    BY <1>6 DEF DeleteLLMProviderModel
  <2>2. m \in Referenced /\ m \in Model
    BY <2>1, LedgerAssumption DEF Referenced, TypeOK, Model
  <2>3. HasModel(m) => m \in {q} \cap Referenced
    BY <2>1, <2>2 DEF HasModel, TypeOK
  <2>4. h \notin stale => m \notin {q} \cap Referenced
    BY <2>1 DEF ChecksHold, ModelReferenced
  <2> QED BY <2>1, <2>2, <2>3, <2>4, <1>4
<1>7. ASSUME NEW h \in Request, SaveRotation(h)
      PROVE  m \in blind'
  <2> DEFINE D == {q \in req[h].pairs : ~HasModel(q)}
  <2>1. /\ rot' = [rot EXCEPT ![req[h].scope] = req[h].pairs]
        /\ row' = row /\ Commit(h, D) /\ req[h].op = "save" /\ req[h].scope \in Scope
    BY <1>7, RequestTypes DEF SaveRotation
  <2>2. ~HasModel(m) /\ (m \in Referenced \/ m \in D)
    BY <2>1 DEF Referenced, TypeOK, HasModel
  <2>3. h \notin stale => m \notin D
    BY <2>1 DEF ChecksHold
  <2> HIDE DEF D
  <2> QED BY <2>1, <2>2, <2>3, <1>4
<1>8. ASSUME NEW h \in Request, NEW n \in Name, NEW on \in BOOLEAN, UpdateLLMProviderModel(h, n, on)
      PROVE  m \in blind'
  <2> DEFINE q == req[h].model
             edited == Edited(req[h].row, n, on)
  <2>1. PICK source \in {edited.source, row[q].source} :
          row' = [row EXCEPT ![q] = [edited EXCEPT !.source = source]]
    BY <1>8 DEF UpdateLLMProviderModel
  <2>2. rot' = rot /\ Commit(h, {}) /\ req[h].row \in ModelRow /\ q \in Model /\ row[q] \in ModelRow
    BY <1>8, RequestTypes, LiveRow DEF UpdateLLMProviderModel
  <2>3. edited \in ModelRow
    BY <2>2 DEF Edited, ModelRow
  <2>4. [edited EXCEPT !.source = source] \in ModelRow
    BY <2>1, <2>2, <2>3 DEF ModelRow
  <2>5. [edited EXCEPT !.source = source] \notin {Unused, Gone}
    BY <2>4, LedgerAssumption
  <2>6. m \in Referenced /\ m \in Model
    BY <2>2, LedgerAssumption DEF Referenced, TypeOK, Model
  <2>7. row'[m] = row[m] \/ row'[m] = [edited EXCEPT !.source = source]
    BY <2>1, <2>6 DEF TypeOK
  <2>8. ~HasModel(m)
    BY <2>5, <2>7 DEF HasModel
  <2> QED BY <2>2, <2>6, <2>8, <1>4
<1>9. CASE \E p \in Provider : \/ \E key \in BOOLEAN : CreateLLMProvider(p, key)
                               \/ \E r \in ProviderRow : UpdateLLMProvider(p, r)
  BY <1>1, <1>9 DEF CreateLLMProvider, UpdateLLMProvider, AtOnce
<1>10. CASE \E h \in Request : \/ \E p \in Provider : CheckProvider(h, p)
                               \/ \E q \in Model : CheckModel(h, q)
                               \/ \E q \in Model : ReadModel(h, q)
                               \/ \E s \in Scope, pairs \in SUBSET Model : CheckRotation(h, s, pairs)
                               \/ \E x \in Repo : PickLLMRotation(h, x)
                               \/ BuildLedgerSelection(h) \/ Leave(h)
  BY <1>1, <1>10 DEF CheckProvider, CheckModel, ReadModel, CheckRotation, PickLLMRotation,
     BuildLedgerSelection, Begin, Leave, ledger
<1>11. CASE UNCHANGED vars
  BY <1>1, <1>11 DEF vars, ledger
<1> QED
  BY <1>2, <1>3, <1>5, <1>6, <1>7, <1>8, <1>9, <1>10, <1>11 DEF Next

Pairs == ChecksHold /\ DanglingOnlyIfBlind

\* Both together are inductive.
LEMMA PairsInvariant == Spec => []Pairs
<1>1. Init => Pairs
  BY DEF Init, Idle, Pairs, ChecksHold, DanglingOnlyIfBlind, Referenced
<1>2. (TypeOK /\ KnownIds /\ Pairs) /\ [Next]_vars => (TypeOK /\ KnownIds /\ Pairs)'
  BY TypesStep, ChecksHoldStep, DanglingStep DEF Pairs
<1> QED BY TypesInit, <1>1, <1>2, PTL DEF Spec

\* Without an overtaken check no rotation set ever names a row that is gone.
THEOREM PairsOutliveNothing == Spec => []DanglingOnlyIfBlind
<1>1. Pairs => DanglingOnlyIfBlind
  BY DEF Pairs
<1> QED BY <1>1, PairsInvariant, PTL

\* What the pick finds usable, the configuration can be built from.
THEOREM PicksCanBeBuilt == Spec => []PickIsBuildable
<1>1. Pairs => PickIsBuildable
  BY DEF Pairs, ChecksHold, PickIsBuildable
<1> QED BY <1>1, PairsInvariant, PTL

-----------------------------------------------------------------------------
(* What a sync leaves.                                                     *)

\* The rows of a provider after a sync: rows it had that did not vanish, under the
\* same normalized name, and one for each listed name without a row.
LEMMA SyncNames ==
  ASSUME TypeOK, NEW p \in Provider, NEW remote \in Listing,
         SyncLLMProviderModels(p, remote)
  PROVE  /\ \A m \in ModelsOf(p) \ Vanished(p, remote) :
              HasModel(m)' /\ owner'[m] = p /\ Norm[row'[m].name] = Norm[row[m].name]
         /\ \A m \in Vanished(p, remote) : ~HasModel(m)'
         /\ \A m \in Model : (HasModel(m)' /\ owner'[m] = p /\ m \notin ModelsOf(p)) =>
              Norm[row'[m].name] \in DOMAIN remote
         /\ \A k \in Missing(p, remote) : \E m \in Model :
              HasModel(m)' /\ owner'[m] = p /\ Norm[row'[m].name] = k
<1> DEFINE missing == Missing(p, remote)
           fresh == (lastModel + 1)..(lastModel + Cardinality(missing))
           Renamed(m) == [row[m] EXCEPT !.source = "api", !.name = remote[Norm[row[m].name]]]
<1>1. PICK keyOf \in Bijection(fresh, missing) :
        row' = [m \in Model |->
          IF m \in fresh THEN Inserted(remote[keyOf[m]])
          ELSE IF m \in Vanished(p, remote) THEN Gone
          ELSE IF m \in Promoted(p, remote) THEN Renamed(m)
          ELSE row[m]]
  BY DEF SyncLLMProviderModels
<1>2. fresh \subseteq Model /\ owner' = [m \in Model |-> IF m \in fresh THEN p ELSE owner[m]]
  BY DEF SyncLLMProviderModels
<1>3. \A k \in DOMAIN remote : remote[k] \in Name /\ Norm[remote[k]] = k
  BY ListingSpells
<1>4. /\ keyOf \in [fresh -> missing] /\ missing \subseteq DOMAIN remote
      /\ \A k \in missing : \E m \in fresh : keyOf[m] = k
  BY DEF Bijection, Surjection, Missing
<1>5. ASSUME NEW m \in fresh
      PROVE  /\ m \in Model /\ ~HasModel(m) /\ HasModel(m)' /\ owner'[m] = p
             /\ Norm[row'[m].name] = keyOf[m] /\ keyOf[m] \in DOMAIN remote
  <2>1. m \in Model /\ m \notin 1..lastModel
    BY <1>2 DEF TypeOK
  <2>2. row'[m] = Inserted(remote[keyOf[m]]) /\ owner'[m] = p
    BY <1>1, <1>2, <2>1
  <2>3. remote[keyOf[m]] \in Name /\ Norm[remote[keyOf[m]]] = keyOf[m] /\ keyOf[m] \in DOMAIN remote
    BY <1>3, <1>4
  <2>4. row'[m] \in ModelRow /\ row'[m].name = remote[keyOf[m]]
    BY <2>2, <2>3 DEF Inserted, ModelRow
  <2>5. HasModel(m)'
    BY <2>4, LedgerAssumption DEF HasModel
  <2> QED BY <2>1, <2>2, <2>3, <2>4, <2>5, LiveRow
<1>6. ASSUME NEW m \in ModelsOf(p) PROVE m \in Model /\ HasModel(m) /\ m \notin fresh /\ owner[m] = p
  BY <1>5 DEF ModelsOf
<1>7. ASSUME NEW m \in ModelsOf(p) \ Vanished(p, remote)
      PROVE  HasModel(m)' /\ owner'[m] = p /\ Norm[row'[m].name] = Norm[row[m].name]
  <2>1. HasModel(m)' /\ owner'[m] = p
    BY <1>2, <1>6, SyncKeeps
  <2>2. CASE m \in Promoted(p, remote)
    <3>1. row'[m] = Renamed(m) /\ row[m] \in ModelRow
      BY <1>1, <1>6, <2>2, LiveRow
    <3>2. row'[m].name = remote[Norm[row[m].name]]
      BY <3>1 DEF ModelRow
    <3> QED BY <1>3, <2>1, <2>2, <3>2 DEF Promoted
  <2>3. CASE m \notin Promoted(p, remote)
    BY <1>1, <1>6, <2>1, <2>3
  <2> QED BY <2>2, <2>3
<1>8. ASSUME NEW m \in Vanished(p, remote) PROVE ~HasModel(m)'
  BY <1>1, <1>6 DEF Vanished, HasModel
<1>9. ASSUME NEW m \in Model, HasModel(m)', owner'[m] = p, m \notin ModelsOf(p)
      PROVE  Norm[row'[m].name] \in DOMAIN remote
  <2>1. CASE m \in fresh
    BY <1>5, <2>1
  <2>2. CASE m \notin fresh
    <3>1. ~HasModel(m)
      BY <1>2, <1>9, <2>2 DEF ModelsOf
    <3>2. row'[m] = row[m]
      BY <1>1, <2>2, <3>1 DEF Vanished, Promoted, ModelsOf
    <3> QED BY <1>9, <3>1, <3>2 DEF HasModel
  <2> QED BY <2>1, <2>2
<1> QED BY <1>4, <1>5, <1>7, <1>8, <1>9

\* A manual row that is an api row after the sync was promoted.
LEMMA OnlyPromotedBecomeApi ==
  ASSUME TypeOK, NEW p \in Provider, NEW remote \in Listing,
         SyncLLMProviderModels(p, remote),
         NEW m \in ModelsOf(p) \ Vanished(p, remote), row'[m].source # row[m].source
  PROVE  m \in Promoted(p, remote)
<1> DEFINE fresh == (lastModel + 1)..(lastModel + Cardinality(Missing(p, remote)))
           Renamed(q) == [row[q] EXCEPT !.source = "api", !.name = remote[Norm[row[q].name]]]
<1>1. PICK keyOf \in Bijection(fresh, Missing(p, remote)) :
        row' = [q \in Model |->
          IF q \in fresh THEN Inserted(remote[keyOf[q]])
          ELSE IF q \in Vanished(p, remote) THEN Gone
          ELSE IF q \in Promoted(p, remote) THEN Renamed(q)
          ELSE row[q]]
  BY DEF SyncLLMProviderModels
<1>2. m \in Model /\ m \in 1..lastModel
  BY LiveRow DEF ModelsOf
<1>3. m \notin fresh
  BY <1>2 DEF TypeOK
<1> QED BY <1>1, <1>2, <1>3

\* The rows of the provider, the manual rows and the rotation sets, after a sync.
LEMMA SyncMirrors ==
  ASSUME TypeOK, NEW p \in Provider, NEW remote \in Listing,
         SyncLLMProviderModels(p, remote)
  PROVE  LET after == {m \in Model : HasModel(m)' /\ owner'[m] = p}
         IN /\ \A k \in DOMAIN remote : \E m \in after : Norm[row'[m].name] = k
            /\ \A m \in after : row'[m].source = "api" => Norm[row'[m].name] \in DOMAIN remote
            /\ \A m \in ModelsOf(p) :
                 row[m].source = "manual" => m \in after /\ row'[m].enabled = row[m].enabled
            /\ \A s \in Scope : \A m \in rot[s] : m \in rot'[s] \/ (HasModel(m) /\ ~HasModel(m)')
<1> DEFINE after == {m \in Model : HasModel(m)' /\ owner'[m] = p}
<1>1. ASSUME NEW k \in DOMAIN remote PROVE \E m \in after : Norm[row'[m].name] = k
  <2>1. CASE k \in Missing(p, remote)
    BY <2>1, SyncNames
  <2>2. CASE k \notin Missing(p, remote)
    <3>1. PICK m \in ModelsOf(p) : Norm[row[m].name] = k
      BY <2>2 DEF Missing
    <3>2. m \notin Vanished(p, remote)
      BY <3>1 DEF Vanished
    <3> QED BY <3>1, <3>2, SyncNames DEF ModelsOf
  <2> QED BY <2>1, <2>2
<1>2. ASSUME NEW m \in after, row'[m].source = "api" PROVE Norm[row'[m].name] \in DOMAIN remote
  <2>1. CASE m \notin ModelsOf(p)
    BY <2>1, SyncNames
  <2>2. CASE m \in ModelsOf(p)
    <3>1. m \notin Vanished(p, remote) /\ HasModel(m)
      BY <2>2, SyncNames DEF ModelsOf
    <3>2. Norm[row'[m].name] = Norm[row[m].name]
      BY <2>2, <3>1, SyncNames
    <3>3. CASE row[m].source = "api"
      BY <2>2, <3>1, <3>2, <3>3 DEF Vanished
    <3>4. CASE row[m].source # "api"
      <4>1. m \in Promoted(p, remote)
        BY <1>2, <2>2, <3>1, <3>4, OnlyPromotedBecomeApi
      <4> QED BY <3>2, <4>1 DEF Promoted
    <3> QED BY <3>3, <3>4
  <2> QED BY <2>1, <2>2
<1>3. ASSUME NEW m \in ModelsOf(p), row[m].source = "manual"
      PROVE  m \in after /\ row'[m].enabled = row[m].enabled
  <2>1. m \in Model /\ HasModel(m) /\ m \notin Vanished(p, remote)
    BY <1>3 DEF Vanished, ModelsOf
  <2>2. HasModel(m)' /\ owner'[m] = p
    BY <2>1, SyncNames
  <2>3. m \in 1..lastModel
    BY <2>1, LiveRow
  <2> QED BY <2>1, <2>2, <2>3, SyncRows
<1>4. ASSUME NEW s \in Scope, NEW m \in rot[s]
      PROVE  m \in rot'[s] \/ (HasModel(m) /\ ~HasModel(m)')
  <2>1. rot'[s] = rot[s] \ Vanished(p, remote)
    BY DEF SyncLLMProviderModels, Pruned
  <2>2. CASE m \in Vanished(p, remote)
    BY <2>2, SyncNames DEF Vanished, ModelsOf
  <2> QED BY <2>1, <2>2
<1> QED BY <1>1, <1>2, <1>3, <1>4

\* Whatever rows the provider had, and whatever was handled while the list was on its
\* way: a sync leaves the tables as the list says, and manual rows and the pairs of
\* every other model as they were.
THEOREM SyncsMirrorTheList == Spec => SyncMirrorsList
<1> DEFINE Mirrors ==
      UNCHANGED req /\ row' # row => \A p \in Provider, remote \in Listing :
        SyncLLMProviderModels(p, remote) =>
         LET after == {m \in Model : HasModel(m)' /\ owner'[m] = p}
         IN /\ \A k \in DOMAIN remote : \E m \in after : Norm[row'[m].name] = k
            /\ \A m \in after : row'[m].source = "api" => Norm[row'[m].name] \in DOMAIN remote
            /\ \A m \in ModelsOf(p) :
                 row[m].source = "manual" => m \in after /\ row'[m].enabled = row[m].enabled
            /\ \A s \in Scope : \A m \in rot[s] : m \in rot'[s] \/ (HasModel(m) /\ ~HasModel(m)')
<1>1. TypeOK => Mirrors
  BY SyncMirrors
<1>2. [](TypeOK) => [][Mirrors]_vars
  BY <1>1, PTL
<1> QED BY <1>2, TablesTyped, PTL DEF SyncMirrorsList
=============================================================================
