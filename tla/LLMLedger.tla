------------------------------ MODULE LLMLedger -----------------------------
(***************************************************************************)
(* The LLM ledger of internal/store and its pages in internal/web:         *)
(* Registered LLM Providers, their models, the LLM Rotation Sets that name *)
(* models, Provider Model Sync, and the choice a Review Run makes.         *)
(*                                                                         *)
(* The ledger is in SQLite; every handler reads, decides and writes in     *)
(* statements of their own, so handlers of several HTTP requests and of    *)
(* the engine interleave between their checks and their writes.  A sync    *)
(* writes in one transaction; what it read from the provider before it is  *)
(* any list of names, so that a sync is one step.  A bulk request over     *)
(* several rows is as many requests over one row, each of which may fail   *)
(* on its own.                                                             *)
(***************************************************************************)
EXTENDS Integers, FiniteSets, Functions

CONSTANTS
  Provider,  \* ids of Registered LLM Providers, given out once
  Repo,      \* Registered Repos
  MaxModels, \* bound: model rows ever inserted
  Name,      \* spellings of model names
  Norm,      \* normalizeModelName: what spellings of the same name have in common
  Request,   \* requests and reviews under way at once
  Unused,    \* in place of a row: the id was not handed out yet ...
  Gone       \* ... or its row was deleted

ProviderRow == [enabled : BOOLEAN, key : BOOLEAN]
ModelRow == [name : Name, source : {"api", "manual"}, enabled : BOOLEAN, isNew : BOOLEAN]

ASSUME LedgerAssumption ==
  /\ MaxModels \in Nat
  /\ "global" \notin Repo
  /\ DOMAIN Norm = Name /\ IsFiniteSet(Range(Norm))
  /\ Unused # Gone
  /\ {Unused, Gone} \cap (ProviderRow \cup ModelRow) = {}

VARIABLES
  prov,       \* table llm_providers
  row,        \* table llm_provider_models
  owner,      \* its column provider_id
  lastModel,  \* the last id AUTOINCREMENT handed out
  rot,        \* the LLM Rotation Set of the settings and of each repo: model ids
  req,        \* requests under way, with what they have read
  stale,      \* history: requests whose check was overtaken by a write of another
  blind       \* history: pairs that such a request left without their model

ledger == <<prov, row, owner, lastModel, rot>>
vars == <<ledger, req, stale, blind>>

Model == 1..MaxModels
Scope == {"global"} \cup Repo

\* What a request remembers between its steps.
Idle == [op |-> "idle"]
RequestState ==
  [op : {"idle"}]
    \cup [op : {"save"}, scope : Scope, pairs : SUBSET Model]
    \cup [op : {"deleteProvider"}, provider : Provider]
    \cup [op : {"deleteModel", "build"}, model : Model]
    \cup [op : {"update"}, model : Model, row : ModelRow]

HasProvider(p) == prov[p] \notin {Unused, Gone}
HasModel(m) == row[m] \notin {Unused, Gone}
ModelsOf(p) == {m \in Model : HasModel(m) /\ owner[m] = p}
Referenced == UNION {rot[s] : s \in Scope}

\* The tables hold what their columns allow, with UNIQUE (provider_id, model_name),
\* which a sync, unlike an INSERT by hand, has to respect by itself: it would fail
\* as a whole.
TypeOK ==
  /\ prov \in [Provider -> ProviderRow \cup {Unused, Gone}]
  /\ row \in [Model -> ModelRow \cup {Unused, Gone}]
  /\ owner \in [Model -> Provider]
  /\ lastModel \in 0..MaxModels
  /\ \A m \in Model : row[m] = Unused <=> m > lastModel
  /\ \A m, q \in Model :
       (HasModel(m) /\ HasModel(q) /\ m # q /\ owner[m] = owner[q]) => row[m].name # row[q].name
  /\ rot \in [Scope -> SUBSET (1..lastModel)]
  /\ req \in [Request -> RequestState]
  /\ stale \subseteq Request
  /\ blind \subseteq 1..lastModel

Init ==
  /\ prov = [p \in Provider |-> Unused]
  /\ row = [m \in Model |-> Unused]
  /\ owner \in [Model -> Provider]
  /\ lastModel = 0
  /\ rot = [s \in Scope |-> {}]
  /\ req = [h \in Request |-> Idle]
  /\ stale = {}
  /\ blind = {}

-----------------------------------------------------------------------------
(* How a request reads, writes and ends.  A definition X_How is X with a   *)
(* slip in it: no definition uses it, it serves to see that a property     *)
(* notices.                                                                *)

\* The first step: it reads and remembers what the next one needs.
Begin(h, r) ==
  /\ req[h] = Idle
  /\ req' = [req EXCEPT ![h] = r]
  /\ UNCHANGED <<ledger, stale, blind>>

\* A write outdates what the others have checked.
Outdate(others) == stale' = {g \in others : req[g].op \notin {"idle", "update"}}

\* The last step of a request, a write that leaves some pairs without a model ...
Commit(h, dangling) ==
  /\ req' = [req EXCEPT ![h] = Idle]
  /\ Outdate(Request \ {h})
  /\ blind' = {m \in Referenced' : m \in blind \/ (h \in stale /\ m \in dangling)}

\* ... or an error, or a selection: it leaves the ledger alone.
Leave(h) ==
  /\ req[h] # Idle
  /\ req' = [req EXCEPT ![h] = Idle]
  /\ stale' = stale \ {h}
  /\ UNCHANGED <<ledger, blind>>

\* A request whose only write depends on no earlier read of the ledger.
AtOnce == Outdate(Request) /\ UNCHANGED <<req, blind>>

-----------------------------------------------------------------------------
(* Providers.                                                              *)

CreateLLMProvider(p, key) ==
  /\ prov[p] = Unused
  /\ prov' = [prov EXCEPT ![p] = [enabled |-> TRUE, key |-> key]]
  /\ UNCHANGED <<row, owner, lastModel, rot>>
  /\ AtOnce

\* One UPDATE: the switch, and an API key that is set or cleared.
UpdateLLMProvider(p, r) ==
  /\ HasProvider(p) /\ prov[p] # r
  /\ prov' = [prov EXCEPT ![p] = r]
  /\ UNCHANGED <<row, owner, lastModel, rot>>
  /\ AtOnce

\* assertLLMProviderNotReferenced: by the settings or by a repo.
ProviderReferenced(p) == \E m \in Referenced : owner[m] = p

CheckProvider(h, p) ==
  /\ HasProvider(p) /\ ~ProviderReferenced(p)
  /\ Begin(h, [op |-> "deleteProvider", provider |-> p])

\* ON DELETE CASCADE takes the models along.
Cascade(p) == ModelsOf(p)

DeleteLLMProvider(h) ==
  /\ req[h].op = "deleteProvider"
  /\ LET p == req[h].provider IN
       /\ HasProvider(p)
       /\ prov' = [prov EXCEPT ![p] = Gone]
       /\ row' = [m \in Model |-> IF m \in Cascade(p) THEN Gone ELSE row[m]]
       /\ UNCHANGED <<owner, lastModel, rot>>
       /\ Commit(h, Cascade(p) \cap Referenced)

-----------------------------------------------------------------------------
(* Models.                                                                 *)

NameTaken_ByHand(p, n) == \E m \in ModelsOf(p) : row[m].source = "manual" /\ row[m].name = n
NameTaken(p, n) == \E m \in ModelsOf(p) : row[m].name = n

\* llmModelCreate needs the API key to see that the provider does not list the
\* name; the INSERT needs the provider (foreign key) and a name that is not taken.
\* A key that is cleared in between makes no difference to the tables.
CreateLLMProviderModel(p, n) ==
  /\ HasProvider(p) /\ prov[p].key
  /\ ~NameTaken(p, n)
  /\ lastModel < MaxModels
  /\ lastModel' = lastModel + 1
  /\ row' = [row EXCEPT ![lastModel + 1] =
               [name |-> n, source |-> "manual", enabled |-> TRUE, isNew |-> FALSE]]
  /\ owner' = [owner EXCEPT ![lastModel + 1] = p]
  /\ UNCHANGED <<prov, rot>>
  /\ AtOnce

\* What llmModelsBulkUpdate makes of a row: manual rows may be renamed, and an
\* api row that is switched on is not new any more.
Edited_StaysNew(r, n, on) ==
  [r EXCEPT !.name = IF r.source = "manual" THEN n ELSE r.name, !.enabled = on]
Edited(r, n, on) ==
  [r EXCEPT !.name = IF r.source = "manual" THEN n ELSE r.name,
            !.enabled = on,
            !.isNew = r.isNew /\ ~(r.source = "api" /\ on)]

ReadModel(h, m) == HasModel(m) /\ Begin(h, [op |-> "update", model |-> m, row |-> row[m]])

\* What the form says matters first here: UpdateLLMProviderModel writes the edited
\* copy as a whole, with the source it has read since, the one of the copy or the
\* one by now; a name that is taken by now is an error.
UpdateLLMProviderModel(h, n, on) ==
  /\ req[h].op = "update"
  /\ LET m == req[h].model
         edited == Edited(req[h].row, n, on)
     IN
       /\ HasModel(m)
       /\ \A q \in ModelsOf(owner[m]) \ {m} : row[q].name # edited.name
       /\ \E source \in {edited.source, row[m].source} :
            row' = [row EXCEPT ![m] = [edited EXCEPT !.source = source]]
       /\ UNCHANGED <<prov, owner, lastModel, rot>>
       /\ Commit(h, {})

\* DeleteLLMProviderModel: a manual row that assertLLMModelNotReferenced lets go.
ModelReferenced_GlobalOnly(m) == m \in rot["global"]
ModelReferenced(m) == m \in Referenced

CheckModel(h, m) ==
  /\ HasModel(m) /\ row[m].source = "manual" /\ ~ModelReferenced(m)
  /\ Begin(h, [op |-> "deleteModel", model |-> m])

DeleteLLMProviderModel(h) ==
  /\ req[h].op = "deleteModel"
  /\ LET m == req[h].model IN
       /\ HasModel(m) /\ row[m].source = "manual"
       /\ row' = [row EXCEPT ![m] = Gone]
       /\ UNCHANGED <<prov, owner, lastModel, rot>>
       /\ Commit(h, {m} \cap Referenced)

-----------------------------------------------------------------------------
(* Provider Model Sync.                                                    *)

\* What ListModels returns: the names on the pages the provider sends, each
\* once.  It stops after maxModelListPages pages, so names may be missing.
ListModels == SUBSET Name

\* remoteNameIndex of a list: for every normalized name the spelling that comes
\* first.
RemoteNameIndex(list) ==
  {index \in [{Norm[n] : n \in list} -> list] : \A k \in DOMAIN index : Norm[index[k]] = k}

Listing == UNION {RemoteNameIndex(list) : list \in ListModels}

SameName(p, m) == {q \in ModelsOf(p) \ {m} : Norm[row[q].name] = Norm[row[m].name]}

\* Manual rows that the provider lists and no api row stands for.
Promoted(p, remote) ==
  {m \in ModelsOf(p) : /\ row[m].source = "manual"
                       /\ Norm[row[m].name] \in DOMAIN remote
                       /\ \A q \in SameName(p, m) : row[q].source # "api"}
\* Two of the same name make the transaction fail.
Ambiguous(p, promoted) == \E m \in promoted : SameName(p, m) # {}
\* Listed names without a row, and api rows whose name is not listed.
Missing(p, remote) == DOMAIN remote \ {Norm[row[m].name] : m \in ModelsOf(p)}
Vanished_Manual(p, remote) == {m \in ModelsOf(p) : Norm[row[m].name] \notin DOMAIN remote}
Vanished(p, remote) ==
  {m \in ModelsOf(p) : row[m].source = "api" /\ Norm[row[m].name] \notin DOMAIN remote}

\* filterLLMPairsByModel over every set.
Pruned(dead) == [s \in Scope |-> rot[s] \ dead]

\* What the transaction inserts for a listed name.
Inserted(name) == [name |-> name, source |-> "api", enabled |-> FALSE, isNew |-> TRUE]

SyncLLMProviderModels(p, remote) ==
  LET missing == Missing(p, remote)
      promoted == Promoted(p, remote)
      vanished == Vanished(p, remote)
      fresh == (lastModel + 1)..(lastModel + Cardinality(missing))
  IN
  /\ HasProvider(p)
  /\ fresh \subseteq Model
  /\ ~Ambiguous(p, promoted)
  /\ lastModel' = lastModel + Cardinality(missing)
  /\ \E keyOf \in Bijection(fresh, missing) :
       row' = [m \in Model |->
         IF m \in fresh THEN Inserted(remote[keyOf[m]])
         ELSE IF m \in vanished THEN Gone
         ELSE IF m \in promoted
         THEN [row[m] EXCEPT !.source = "api", !.name = remote[Norm[row[m].name]]]
         ELSE row[m]]
  /\ owner' = [m \in Model |-> IF m \in fresh THEN p ELSE owner[m]]
  /\ rot' = Pruned(vanished)
  /\ UNCHANGED prov
  /\ AtOnce

\* The list comes, some time ago, from the endpoint of the provider or from the one
\* in the unsaved form; without a URL, a key or an answer in time nothing is synced.
LLMProviderModelsResync(p) == \E remote \in Listing : SyncLLMProviderModels(p, remote)

-----------------------------------------------------------------------------
(* LLM Rotation Sets.                                                      *)

\* assertLLMPairSelectable of every pair.
Selectable(m) == HasModel(m) /\ row[m].enabled /\ HasProvider(owner[m]) /\ prov[owner[m]].enabled

\* SaveGlobalSettings refuses an empty set; a repo without one follows the settings.
CheckRotation(h, s, pairs) ==
  /\ \A m \in pairs : Selectable(m)
  /\ s = "global" => pairs # {}
  /\ Begin(h, [op |-> "save", scope |-> s, pairs |-> pairs])

SaveRotation(h) ==
  /\ req[h].op = "save"
  /\ rot' = [rot EXCEPT ![req[h].scope] = req[h].pairs]
  /\ UNCHANGED <<prov, row, owner, lastModel>>
  /\ Commit(h, {m \in req[h].pairs : ~HasModel(m)})

\* llmPairUsable.
Usable_NoKey(m) ==
  HasProvider(owner[m]) /\ prov[owner[m]].enabled /\ HasModel(m) /\ row[m].enabled
Usable(m) ==
  /\ HasProvider(owner[m]) /\ prov[owner[m]].enabled /\ prov[owner[m]].key
  /\ HasModel(m) /\ row[m].enabled

\* A review picks one usable pair of its repo's set, or of the settings' when
\* that is empty, ...
PickLLMRotation(h, x) ==
  \E m \in (IF rot[x] # {} THEN rot[x] ELSE rot["global"]) :
    /\ Usable(m)
    /\ Begin(h, [op |-> "build", model |-> m])

\* ... and reads the pair again for its OCR home, refusing what it cannot use.
Buildable(m) ==
  /\ HasProvider(owner[m]) /\ prov[owner[m]].enabled
  /\ HasModel(m) /\ row[m].enabled
  /\ prov[owner[m]].key

BuildLedgerSelection(h) == req[h].op = "build" /\ Buildable(req[h].model) /\ Leave(h)

-----------------------------------------------------------------------------
Next ==
  \/ \E p \in Provider :
       \/ \E key \in BOOLEAN : CreateLLMProvider(p, key)
       \/ \E r \in ProviderRow : UpdateLLMProvider(p, r)
       \/ \E n \in Name : CreateLLMProviderModel(p, n)
       \/ LLMProviderModelsResync(p)
  \/ \E h \in Request :
       \/ \E p \in Provider : CheckProvider(h, p)
       \/ \E m \in Model : CheckModel(h, m)
       \/ \E m \in Model : ReadModel(h, m)
       \/ \E s \in Scope, pairs \in SUBSET Model : CheckRotation(h, s, pairs)
       \/ \E x \in Repo : PickLLMRotation(h, x)
       \/ DeleteLLMProvider(h)
       \/ DeleteLLMProviderModel(h)
       \/ \E n \in Name, on \in BOOLEAN : UpdateLLMProviderModel(h, n, on)
       \/ SaveRotation(h)
       \/ BuildLedgerSelection(h)
       \/ Leave(h)

Spec == Init /\ [][Next]_vars

-----------------------------------------------------------------------------
(* Properties.                                                             *)

\* No model row outlives its provider, although models are inserted by a sync
\* and by a form that looked at the provider before it was deleted.
RowsHaveProvider == \A m \in Model : HasModel(m) => HasProvider(owner[m])

\* A rotation set names a row that does not exist only if the pair was saved or
\* the row deleted by a request whose check was outdated when it wrote: one
\* request after the other never breaks a set, and neither does a sync, which
\* takes the pairs of what it deletes along.
DanglingOnlyIfBlind == \A m \in Referenced : HasModel(m) \/ m \in blind

\* A model that a sync found is not used before the Administrator switched it
\* on: New!! rows stay off, whatever requests do with stale copies of them
\* (CONTEXT.md "Registered LLM Model").
NewStaysOff ==
  \A m \in Model : HasModel(m) /\ row[m].isNew => ~row[m].enabled /\ row[m].source = "api"

\* The two places that decide whether a pair can be used agree: a review whose
\* pick was not overtaken by a write gets its OCR configuration.
PickIsBuildable ==
  \A h \in Request : (req[h].op = "build" /\ h \notin stale) => Buildable(req[h].model)

\* After a sync every listed name has a row and every api row is listed; no manual
\* row is lost or switched, and a set loses nothing but what was deleted
\* (CONTEXT.md "Provider Model Sync").
SyncMirrorsList ==
  [][UNCHANGED req /\ row' # row => \A p \in Provider, remote \in Listing :
      SyncLLMProviderModels(p, remote) =>
       LET after == {m \in Model : HasModel(m)' /\ owner'[m] = p}
       IN /\ \A k \in DOMAIN remote : \E m \in after : Norm[row'[m].name] = k
          /\ \A m \in after : row'[m].source = "api" => Norm[row'[m].name] \in DOMAIN remote
          /\ \A m \in ModelsOf(p) :
               row[m].source = "manual" => m \in after /\ row'[m].enabled = row[m].enabled
          /\ \A s \in Scope : \A m \in rot[s] : m \in rot'[s] \/ (HasModel(m) /\ ~HasModel(m)')
    ]_vars
=============================================================================
