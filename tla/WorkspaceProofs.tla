--------------------------- MODULE WorkspaceProofs --------------------------
(***************************************************************************)
(* Theorems about Workspace, for every set of commits and directories, any *)
(* collision of directory names and any number of process deaths and of    *)
(* removals that fail.                                                     *)
(*                                                                         *)
(* The invariants are proved one on top of the other: the types, the tree  *)
(* OCR works in, the age of origin/<base>, the reasons of a failure, and   *)
(* the count of what deaths and failed removals left.                      *)
(***************************************************************************)
EXTENDS Workspace, FiniteSetTheorems, TLAPS

USE WorkspaceAssumption

-----------------------------------------------------------------------------
(* Types and the tree.                                                     *)

\* Only a complete mirror has commits to check out, so a review that works in
\* a worktree works over a complete mirror.
TreeInv == TypeOK /\ RightTree /\ (step \in Working => mirror = "origin")

Registration == {"none", "registered", "locked"}
Tree == Sha \cup {NoSha, "partial"}

\* git worktree prune keeps the types, and the registration of a directory that
\* is there.
LEMMA PrunedKeeps ==
  ASSUME NEW g \in [Dir -> Registration], NEW t \in [Dir -> Tree]
  PROVE  /\ Pruned(g, t) \in [Dir -> Registration]
         /\ \A d \in Dir : Pruned(g, t)[d] \in {g[d], "none"}
         /\ \A d \in Dir : t[d] # NoSha \/ g[d] = "locked" => Pruned(g, t)[d] = g[d]
         /\ \A d \in Dir : t[d] = NoSha => Pruned(g, t)[d] \in {"none", "locked"}
  BY DEF Pruned, Registration

\* The directory of a review is one of the directories.
LEMMA MineIsDir == ASSUME TypeOK PROVE Mine \in Dir
  BY DEF TypeOK, Mine

\* The tree a review starts over with, and the directories around it.
LEMMA ClearedTree ==
  ASSUME TypeOK
  PROVE  /\ TreeCleared \in [Dir -> Tree]
         /\ TreeCleared[Mine] = NoSha
         /\ \A d \in Dir \ {Mine} : TreeCleared[d] = tree[d]
         /\ \A d \in Dir : TreeCleared[d] \in Sha => DirOf[TreeCleared[d]] = d
  BY MineIsDir DEF TypeOK, TreeCleared, Tree

\* However a removal ends, it touches no tree but its own, puts nothing where
\* nothing was and unlocks no registration.
LEMMA ClearedSomeKeeps ==
  ASSUME TypeOK, ClearedSome
  PROVE  /\ tree' \in [Dir -> Tree] /\ reg' \in [Dir -> Registration]
         /\ \A d \in Dir : tree'[d] \in Sha => DirOf[tree'[d]] = d
         /\ \A d \in Dir : tree[d] = NoSha => tree'[d] = NoSha
         /\ \A d \in Dir : reg'[d] \in {reg[d], "none"}
         /\ \A d \in Dir : reg[d] = "locked" => reg'[d] = "locked"
<1>1. Mine \in Dir /\ tree \in [Dir -> Tree] /\ reg \in [Dir -> Registration]
  BY MineIsDir DEF TypeOK, Tree, Registration
<1>2. PICK t \in {NoSha, tree[Mine]} \cup {u \in {"partial"} : tree[Mine] # NoSha} :
        tree' = [tree EXCEPT ![Mine] = t]
  BY DEF ClearedSome
<1>3. t \in Tree /\ (tree[Mine] = NoSha => t = NoSha)
  BY <1>1 DEF Tree
<1>4. tree' \in [Dir -> Tree] /\ (\A d \in Dir : tree[d] = NoSha => tree'[d] = NoSha)
  BY <1>1, <1>2, <1>3 DEF Tree
<1>5. \A d \in Dir : tree'[d] \in Sha => tree'[d] = tree[d]
  BY <1>1, <1>2 DEF Tree
<1>6. \A d \in Dir : tree'[d] \in Sha => DirOf[tree'[d]] = d
  BY <1>5 DEF TypeOK
<1>7. PICK g \in {reg, Unregistered} : reg' \in {g, Pruned(g, tree')}
  BY DEF ClearedSome
<1>8. /\ g \in [Dir -> Registration]
      /\ \A d \in Dir : g[d] \in {reg[d], "none"}
      /\ \A d \in Dir : reg[d] = "locked" => g[d] = "locked"
  BY <1>1, <1>7 DEF Unregistered, Registration
<1>9. /\ reg' \in [Dir -> Registration]
      /\ \A d \in Dir : reg'[d] \in {g[d], "none"}
      /\ \A d \in Dir : g[d] = "locked" => reg'[d] = "locked"
  BY <1>4, <1>7, <1>8, PrunedKeeps
<1> QED BY <1>4, <1>6, <1>8, <1>9

LEMMA TreeInit == Init => TreeInv
<1> SUFFICES ASSUME Init PROVE TreeInv
  OBVIOUS
<1>1. \A d \in Dir : tree[d] = NoSha /\ reg[d] = "none" /\ NoSha \notin Sha
  BY DEF Init
<1>2. step = "idle" /\ step \notin Working /\ step \in Steps /\ mirror \in Mirrors
  BY DEF Init, Working, Steps, Mirrors
<1>8. locks \subseteq Locks /\ lapses \in 0..MaxLapses
  BY DEF Init
<1>3. heads \subseteq Sha /\ sha \in Sha /\ asked \in 1..(MaxPushes + 1) /\ base \in 1..(pushes + 1)
  BY DEF Init
<1>4. reg \in [Dir -> {"none", "registered", "locked"}] /\ tree \in [Dir -> Sha \cup {NoSha, "partial"}]
  BY DEF Init
<1>5. /\ objects = {} /\ originBase = 0 /\ originBase \in 0..(MaxPushes + 1)
      /\ pushes \in 0..MaxPushes /\ kills \in 0..MaxKills
  BY DEF Init
<1>6. excuse \in BOOLEAN /\ pruning \in BOOLEAN
  BY DEF Init
<1>7. TypeOK
  BY <1>1, <1>2, <1>3, <1>4, <1>5, <1>6, <1>8 DEF TypeOK
<1> QED BY <1>2, <1>7 DEF TreeInv, RightTree

LEMMA TreeStep == TreeInv /\ [Next]_vars => TreeInv'
<1> SUFFICES ASSUME TreeInv, [Next]_vars PROVE TreeInv'
  OBVIOUS
<1> USE DEF TreeInv
<1>0. Mine \in Dir /\ Mine = DirOf[sha]
  BY MineIsDir DEF Mine
<1>1. CASE Push
  <2>1. /\ heads' \subseteq Sha /\ base' \in 1..(pushes' + 1) /\ pushes' \in 0..MaxPushes
    BY <1>1 DEF Push, TypeOK
  <2>2. UNCHANGED <<disk, step, sha, asked, excuse, pruning, kills, lapses>>
    BY <1>1 DEF Push
  <2> QED BY <2>1, <2>2 DEF TypeOK, RightTree, Mine, disk
<1>2. ASSUME NEW s \in Sha, Prepare(s) PROVE TreeInv'
  <2>1. step' \in Steps /\ step' \notin Working
    BY <1>2 DEF Prepare, Steps, Working
  <2>2. asked' \in 1..(MaxPushes + 1)
    BY <1>2 DEF Prepare, TypeOK
  <2>3. UNCHANGED <<host, disk, pruning, kills, lapses>> /\ sha' = s /\ excuse' \in BOOLEAN
    BY <1>2 DEF Prepare
  <2> QED BY <2>1, <2>2, <2>3 DEF TypeOK, RightTree, host, disk
<1>3. CASE Clone
  BY <1>3 DEF Clone, Fail, Bookkeeping, TypeOK, RightTree, Working, Mirrors, Scarred, Steps, host, disk
<1>4. CASE SetURL
  BY <1>4 DEF SetURL, Fail, Bookkeeping, TypeOK, RightTree, Working, Steps, host, disk
<1>5. CASE FetchMirror
  <2>1. /\ step' \in Steps /\ step' \notin Working /\ excuse' \in BOOLEAN
        /\ UNCHANGED <<mirror, locks, reg, tree, host, sha, asked, pruning, kills, lapses>>
    BY <1>5 DEF FetchMirror, Fail, Bookkeeping, disk, Steps, Working, TypeOK
  <2>2. /\ objects' \subseteq Sha /\ originBase' \in 0..(MaxPushes + 1)
        /\ mirror # "origin" => objects' = {} /\ originBase' = 0
    <3>1. CASE mirror = "origin" /\ FetchedSome
      BY <3>1 DEF FetchedSome, BaseAfterFetch, TypeOK
    <3>2. CASE objects' = objects \cup heads /\ originBase' = BaseAfterFetch /\ mirror = "origin"
      BY <3>2 DEF BaseAfterFetch, TypeOK
    <3>3. CASE UNCHANGED disk
      BY <3>3 DEF disk, TypeOK
    <3> QED BY <1>5, <3>1, <3>2, <3>3 DEF FetchMirror, Fail, disk
  <2> QED BY <2>1, <2>2 DEF TypeOK, RightTree, host
<1>6. CASE ClearWorktree
  <2>1. step' \notin Working /\ step' \in Steps
    BY <1>6 DEF ClearWorktree, AfterClear, Working, Steps
  <2>2. /\ tree' \in [Dir -> Tree] /\ reg' \in [Dir -> Registration]
        /\ \A d \in Dir : tree'[d] \in Sha => DirOf[tree'[d]] = d
    <3>1. CASE tree' = TreeCleared /\ reg' = Pruned(reg, TreeCleared)
      BY <3>1, ClearedTree, PrunedKeeps DEF TypeOK, Registration
    <3>2. CASE ClearedSome
      BY <3>2, ClearedSomeKeeps
    <3> QED BY <1>6, <3>1, <3>2 DEF ClearWorktree
  <2>a. /\ UNCHANGED <<mirror, objects, originBase, locks, host, sha, asked, pruning, kills>>
        /\ (UNCHANGED excuse \/ excuse' = TRUE) /\ (UNCHANGED lapses \/ (lapses < MaxLapses /\ lapses' = lapses + 1))
    BY <1>6 DEF ClearWorktree
  <2>b. excuse' \in BOOLEAN
    BY <2>a DEF TypeOK
  <2>c. lapses' \in 0..MaxLapses
    <3>1. lapses \in 0..MaxLapses
      BY DEF TypeOK
    <3> QED BY <2>a, <3>1
  <2>3. TypeOK'
    BY <2>1, <2>2, <2>a, <2>b, <2>c DEF TypeOK, host, Tree, Registration
  <2> QED BY <2>1, <2>3 DEF RightTree
<1>7. ASSUME Added, sha \in objects, step' = "fetchBase",
             UNCHANGED <<mirror, objects, originBase, locks>>, excuse' \in BOOLEAN, Bookkeeping
      PROVE  TreeInv'
  <2>1. mirror = "origin"
    BY <1>7 DEF TypeOK
  <2>2. tree' \in [Dir -> Sha \cup {NoSha, "partial"}] /\ tree'[Mine] = sha
    BY <1>7, <1>0 DEF Added, TypeOK
  <2>3. reg' \in [Dir -> {"none", "registered", "locked"}] /\ reg'[Mine] = "registered"
    BY <1>7, <1>0 DEF Added, TypeOK
  <2>4. \A d \in Dir : tree'[d] \in Sha => DirOf[tree'[d]] = d
    BY <1>7, <1>0 DEF Added, TypeOK
  <2>5. TypeOK'
    BY <1>7, <2>1, <2>2, <2>3, <2>4 DEF Bookkeeping, TypeOK, Steps, host
  <2> QED BY <1>7, <2>1, <2>2, <2>3, <2>5 DEF RightTree, Mine, Bookkeeping
<1>8. CASE AddWorktree
  <2>1. CASE CanAdd(ToAdd) /\ Added /\ step' = "fetchBase" /\ UNCHANGED excuse
    BY <1>7, <1>8, <2>1 DEF AddWorktree, CanAdd, TypeOK
  <2>2. CASE step' = "reclear" /\ excuse' \in BOOLEAN /\ UNCHANGED <<tree, reg>>
    BY <1>8, <2>2 DEF AddWorktree, Bookkeeping, TypeOK, RightTree, Working, Steps, host
  <2> QED BY <1>8, <2>1, <2>2 DEF AddWorktree, TypeOK
<1>9. CASE AddWorktreeForce
  <2>1. CASE CanAdd(ToAddForce) /\ Added /\ step' = "fetchBase" /\ UNCHANGED excuse
    BY <1>7, <1>9, <2>1 DEF AddWorktreeForce, CanAdd, TypeOK
  <2>2. CASE step' = "failed" /\ excuse' \in BOOLEAN /\ UNCHANGED <<tree, reg>>
    BY <1>9, <2>2 DEF AddWorktreeForce, Bookkeeping, TypeOK, RightTree, Working, Steps, host
  <2> QED BY <1>9, <2>1, <2>2 DEF AddWorktreeForce, TypeOK
<1>10. CASE FetchBase
  BY <1>10 DEF FetchBase, Bookkeeping, TypeOK, RightTree, Working, Mine, Steps, host
<1>11. CASE EndReview
  BY <1>11 DEF EndReview, Bookkeeping, TypeOK, RightTree, Working, Mine, Steps, host, disk
<1>12. CASE ReturnError
  BY <1>12 DEF ReturnError, Bookkeeping, TypeOK, RightTree, Working, Mine, Steps, host, disk
<1>13. CASE PruneMirrors
  <2>1. tree \in [Dir -> Tree] /\ reg \in [Dir -> Registration] /\ sha # NoSha
    BY DEF TypeOK, Tree, Registration
  <2>2. reg' \in {reg, Pruned(reg, tree)}
    BY <1>13 DEF PruneMirrors
  <2>a. reg' \in [Dir -> Registration]
    BY <2>1, <2>2, PrunedKeeps
  <2>b. /\ UNCHANGED <<host, mirror, objects, originBase, locks, tree, step, sha, asked, excuse,
                       kills, lapses>>
        /\ pruning' \in BOOLEAN
    BY <1>13 DEF PruneMirrors
  <2>3. TypeOK'
    BY <2>a, <2>b DEF TypeOK, host, Registration
  <2>4. step \in Working => reg'[Mine] = "registered"
    BY <1>0, <2>1, <2>2, PrunedKeeps DEF RightTree
  <2> QED BY <1>13, <2>3, <2>4 DEF PruneMirrors, RightTree, Mine
<1>14. CASE Kill
  <2>1. step' \notin Working /\ step' \in Steps
    BY <1>14 DEF Kill, Working, Steps
  <2>2. /\ tree' \in [Dir -> Tree] /\ reg' \in [Dir -> Registration]
        /\ \A d \in Dir : tree'[d] \in Sha => DirOf[tree'[d]] = d
    <3>1. CASE UNCHANGED <<reg, tree>>
      BY <3>1 DEF TypeOK, Tree, Registration
    <3>2. CASE ClearedSome
      BY <3>2, ClearedSomeKeeps
    <3>3. CASE /\ reg' = [reg EXCEPT ![Mine] = "locked"]
               /\ tree' \in {[tree EXCEPT ![Mine] = t] : t \in {NoSha, "partial", sha}}
      BY <3>3, <1>0 DEF TypeOK, Tree, Registration
    <3> QED BY <1>14, <3>1, <3>2, <3>3 DEF Kill, Remains, disk
  <2>3. /\ objects' \subseteq Sha /\ mirror' \in Mirrors
        /\ originBase' \in 0..(MaxPushes + 1)
        /\ mirror' # "origin" => objects' = {} /\ originBase' = 0
    <3>1. base \in 0..(MaxPushes + 1)
      BY DEF TypeOK
    <3>2. CASE step = "fetchBase"
      BY <1>14, <3>1, <3>2 DEF Kill, Remains, AfterClear, TypeOK, Working, disk
    <3> QED BY <1>14, <3>1, <3>2 DEF Kill, Remains, FetchedSome, BaseAfterFetch, TypeOK, Mirrors, Scarred, disk
  <2>a. locks' \subseteq Locks
    <3>1. ASSUME NEW some \in SUBSET Locks, LeavesLocks(some) PROVE locks' \subseteq Locks
      BY <3>1 DEF LeavesLocks, TypeOK
    <3>2. {"config", "packed"} \subseteq Locks /\ {"config"} \subseteq Locks
          /\ RefLocks \subseteq Locks /\ {"ref"} \subseteq Locks
      BY DEF Locks, RefLocks
    <3>3. CASE UNCHANGED locks
      BY <3>3 DEF TypeOK
    <3>4. \/ LeavesLocks({"config", "packed"}) \/ LeavesLocks({"config"})
          \/ LeavesLocks(RefLocks) \/ LeavesLocks({"ref"}) \/ UNCHANGED locks
      BY <1>14 DEF Kill, Remains, disk
    <3> QED BY <3>1, <3>2, <3>3, <3>4
  <2>4. TypeOK'
    BY <1>14, <2>1, <2>2, <2>3, <2>a DEF Kill, TypeOK, host, Tree, Registration
  <2> QED BY <2>1, <2>4 DEF RightTree
<1>15. CASE UNCHANGED vars
  BY <1>15 DEF vars, TypeOK, RightTree, Working, Mine, host, disk
<1> QED
  BY <1>1, <1>2, <1>3, <1>4, <1>5, <1>6, <1>8, <1>9, <1>10, <1>11, <1>12, <1>13, <1>14, <1>15 DEF Next

\* The types, and every tree in the directory of its commit.
THEOREM WorkspaceTyped == Spec => []TypeOK
<1>1. TreeInv => TypeOK
  BY DEF TreeInv
<1> QED BY <1>1, TreeInit, TreeStep, PTL DEF Spec

\* OCR works in a registered worktree with exactly the head it was asked for,
\* for any collision of directory names and any leftovers.
THEOREM TreeIsRight == Spec => []RightTree
<1>1. TreeInv => RightTree
  BY DEF TreeInv
<1> QED BY <1>1, TreeInit, TreeStep, PTL DEF Spec

-----------------------------------------------------------------------------
(* The base a review compares with.                                        *)

\* The fetch of the mirror drops origin/<base>, and a mirror that was just
\* cloned has none, so what FetchBase finds is nothing or what it has fetched.
BaseInv ==
  /\ asked <= base
  /\ step \in {"clear", "add", "reclear", "addForce", "fetchBase"} => originBase = 0
  /\ FreshBase

LEMMA BaseStep == TreeInv /\ BaseInv /\ [Next]_vars => BaseInv'
<1> SUFFICES ASSUME TreeInv, BaseInv, [Next]_vars PROVE BaseInv'
  OBVIOUS
<1>0. /\ mirror # "origin" => originBase = 0
      /\ base \in Nat /\ asked \in Nat /\ originBase \in Nat
  BY DEF TreeInv, TypeOK
<1> USE DEF BaseInv, FreshBase
<1>1. CASE Push
  BY <1>0, <1>1 DEF Push, disk
<1>2. ASSUME NEW s \in Sha, Prepare(s) PROVE BaseInv'
  BY <1>0, <1>2 DEF Prepare, host, disk
<1>3. CASE Clone
  BY <1>0, <1>3 DEF Clone, Fail, Bookkeeping, host, disk
<1>4. CASE SetURL
  BY <1>4 DEF SetURL, Fail, Bookkeeping, host, disk
<1>5. CASE FetchMirror
  BY <1>0, <1>5 DEF FetchMirror, Fail, BaseAfterFetch, Bookkeeping, host, disk
<1>6. CASE ClearWorktree
  BY <1>6 DEF ClearWorktree, AfterClear, Bookkeeping, host
<1>7. CASE AddWorktree
  BY <1>7 DEF AddWorktree, Bookkeeping, host
<1>8. CASE AddWorktreeForce
  BY <1>8 DEF AddWorktreeForce, Bookkeeping, host
<1>9. CASE FetchBase
  BY <1>0, <1>9 DEF FetchBase, Bookkeeping, host
<1>10. CASE EndReview
  BY <1>10 DEF EndReview, Bookkeeping, host, disk
<1>11. CASE ReturnError
  BY <1>11 DEF ReturnError, Bookkeeping, host, disk
<1>12. CASE PruneMirrors
  BY <1>12 DEF PruneMirrors, host
<1>13. CASE Kill
  BY <1>13 DEF Kill, host
<1>14. CASE UNCHANGED vars
  BY <1>14 DEF vars, host, disk
<1> QED
  BY <1>1, <1>2, <1>3, <1>4, <1>5, <1>6, <1>7, <1>8, <1>9, <1>10, <1>11, <1>12, <1>13, <1>14 DEF Next

\* OCR never compares with a base older than the pull request it was asked for.
THEOREM BaseIsFresh == Spec => []FreshBase
<1>1. Init => BaseInv
  BY DEF Init, BaseInv, FreshBase
<1>2. BaseInv => FreshBase
  BY DEF BaseInv
<1> QED BY <1>1, <1>2, BaseStep, TreeInit, TreeStep, PTL DEF Spec

-----------------------------------------------------------------------------
(* The reasons of a failure.                                               *)

\* After the mirror is fetched the commit is there, or there is a reason why
\* not; after the directory is cleared nothing but a locked registration is in
\* the way.  Scars, locks and locked registrations come from deaths only.
ReasonInv ==
  /\ step \in {"clear", "add", "reclear", "addForce"} =>
       excuse \/ sha \in objects \/ mirror \in Scarred
  /\ step \in {"add", "addForce"} =>
       excuse \/ (tree[Mine] = NoSha /\ reg[Mine] \in {"none", "locked"})
  /\ mirror \in Scarred \/ locks # {} \/ (\E d \in Dir : reg[d] = "locked") => kills > 0
  /\ FailsOnlyIfScarred

LEMMA ReasonStep == TreeInv /\ ReasonInv /\ [Next]_vars => ReasonInv'
<1> SUFFICES ASSUME TreeInv, ReasonInv, [Next]_vars PROVE ReasonInv'
  OBVIOUS
<1>0. TypeOK /\ Mine \in Dir /\ mirror \in Mirrors
  BY MineIsDir DEF TreeInv, TypeOK
<1> USE DEF ReasonInv, FailsOnlyIfScarred
<1>1. CASE Push
  BY <1>1 DEF Push, disk, Mine
<1>2. ASSUME NEW s \in Sha, Prepare(s) PROVE ReasonInv'
  BY <1>2 DEF Prepare, disk
<1>3. CASE Clone
  BY <1>3 DEF Clone, Fail, Bookkeeping, disk, Mine, Scarred
<1>4. CASE SetURL
  BY <1>4 DEF SetURL, Fail, Bookkeeping, disk, Mine, Scarred
<1>5. CASE FetchMirror
  BY <1>5 DEF FetchMirror, Fail, Bookkeeping, disk, Mine, Scarred
<1>6. CASE ClearWorktree
  <2>1. /\ Mine' = Mine /\ step \in DOMAIN AfterClear /\ step' = AfterClear[step]
        /\ UNCHANGED <<mirror, objects, locks, sha, kills>>
    BY <1>6 DEF ClearWorktree, Mine
  <2>2. step' \in {"add", "addForce", "idle"}
    BY <2>1 DEF AfterClear
  <2>3. step' # "idle" => excuse \/ sha \in objects \/ mirror \in Scarred
    BY <2>1 DEF AfterClear
  <2>4. CASE UNCHANGED excuse /\ tree' = TreeCleared /\ reg' = Pruned(reg, TreeCleared)
    <3>1. reg \in [Dir -> Registration]
      BY <1>0 DEF TypeOK, Registration
    <3>2. tree'[Mine] = NoSha /\ reg'[Mine] \in {"none", "locked"}
      BY <1>0, <2>4, <3>1, ClearedTree, PrunedKeeps
    <3>3. \A d \in Dir : reg'[d] = "locked" => reg[d] = "locked"
      BY <1>0, <2>4, <3>1, ClearedTree, PrunedKeeps
    <3> QED BY <2>1, <2>2, <2>3, <2>4, <3>2, <3>3
  <2>5. CASE excuse' /\ ClearedSome
    <3>1. \A d \in Dir : reg'[d] = "locked" => reg[d] = "locked"
      BY <1>0, <2>5, ClearedSomeKeeps
    <3> QED BY <2>1, <2>2, <2>5, <3>1
  <2> QED BY <1>6, <2>4, <2>5 DEF ClearWorktree
<1>a. ASSUME Added PROVE \A d \in Dir : reg'[d] = "locked" => reg[d] = "locked"
  BY <1>0, <1>a DEF Added, TypeOK
<1>7. CASE AddWorktree
  <2>1. UNCHANGED <<mirror, objects, locks, sha, kills>> /\ Mine' = Mine
    BY <1>7 DEF AddWorktree, Bookkeeping, Mine
  <2>2. CASE Added /\ step' = "fetchBase"
    BY <1>a, <2>1, <2>2
  <2>3. CASE step' = "reclear" /\ UNCHANGED <<tree, reg>> /\ (UNCHANGED excuse \/ excuse' = TRUE)
    BY <1>7, <2>1, <2>3 DEF AddWorktree
  <2> QED BY <1>7, <2>2, <2>3 DEF AddWorktree
<1>8. CASE AddWorktreeForce
  <2>1. UNCHANGED <<mirror, objects, locks, sha, kills>> /\ Mine' = Mine
    BY <1>8 DEF AddWorktreeForce, Bookkeeping, Mine
  <2>2. CASE Added /\ step' = "fetchBase"
    BY <1>a, <2>1, <2>2
  <2>3. CASE ~CanAdd(ToAddForce) /\ step' = "failed" /\ UNCHANGED <<tree, reg, excuse>>
    <3>1. excuse \/ mirror \in Scarred \/ reg[Mine] = "locked"
      BY <1>8, <2>3 DEF AddWorktreeForce, CanAdd, ToAddForce
    <3>2. mirror \in Scarred \/ reg[Mine] = "locked" => kills > 0
      BY <1>0
    <3> QED BY <2>1, <2>3, <3>1, <3>2
  <2>4. CASE step' = "failed" /\ excuse' = TRUE /\ UNCHANGED <<tree, reg>>
    BY <2>1, <2>4
  <2> QED BY <1>8, <2>2, <2>3, <2>4 DEF AddWorktreeForce
<1>9. CASE FetchBase
  BY <1>9 DEF FetchBase, Bookkeeping
<1>10. CASE EndReview
  BY <1>10 DEF EndReview, Bookkeeping, disk
<1>11. CASE ReturnError
  BY <1>11 DEF ReturnError, Bookkeeping, disk
<1>12. CASE PruneMirrors
  <2>1. tree \in [Dir -> Tree] /\ reg \in [Dir -> Registration]
    BY <1>0 DEF TypeOK, Tree, Registration
  <2>2. \A d \in Dir : /\ reg'[d] \in {reg[d], "none"}
                       /\ reg[d] = "locked" => reg'[d] = "locked"
    BY <1>12, <2>1, PrunedKeeps DEF PruneMirrors
  <2> QED BY <1>0, <1>12, <2>2 DEF PruneMirrors, Mine
<1>13. CASE Kill
  <2>1. kills' = kills + 1 /\ kills \in Nat /\ step' = "idle"
    BY <1>0, <1>13 DEF Kill, TypeOK
  <2>2. kills' > 0
    BY <2>1
  <2> QED BY <2>1, <2>2
<1>14. CASE UNCHANGED vars
  BY <1>14 DEF vars, disk, Mine
<1> QED
  BY <1>1, <1>2, <1>3, <1>4, <1>5, <1>6, <1>7, <1>8, <1>9, <1>10, <1>11, <1>12, <1>13, <1>14 DEF Next

\* A worktree that cannot be made has a reason: the host, the disk, or what a
\* death in the middle of a clone or of a worktree add, or one with a lock file of
\* git in place, left: without a death, the host and the disk alone.
THEOREM FailuresHaveReasons == Spec => []FailsOnlyIfScarred
<1>1. Init => ReasonInv
  <2> SUFFICES ASSUME Init PROVE ReasonInv
    OBVIOUS
  <2>1. mirror \notin Scarred /\ locks = {} /\ step = "idle" /\ \A d \in Dir : reg[d] # "locked"
    BY DEF Init, Scarred
  <2> QED BY <2>1 DEF ReasonInv, FailsOnlyIfScarred
<1>2. ReasonInv => FailsOnlyIfScarred
  BY DEF ReasonInv
<1> QED BY <1>1, <1>2, ReasonStep, TreeInit, TreeStep, PTL DEF Spec

-----------------------------------------------------------------------------
(* Leftovers.                                                              *)

Left == {d \in Dir : Leftover(d) /\ ~(d = Mine /\ step \in Working)}

\* A removal that failed.
Lapse == ClearWorktree /\ lapses' = lapses + 1

\* Nothing else leaves a directory that was not left over before ...
LEMMA StepLeaves ==
  ASSUME TreeInv, [Next]_vars, ~Kill, ~Lapse
  PROVE  Left' \subseteq Left /\ UNCHANGED <<kills, lapses>>
<1>0. /\ TypeOK /\ Mine \in Dir
      /\ tree \in [Dir -> Tree] /\ reg \in [Dir -> Registration]
  BY MineIsDir DEF TreeInv, TypeOK, Tree, Registration
<1>a. ASSUME UNCHANGED <<reg, tree, sha>>, step \notin Working, UNCHANGED <<kills, lapses>>
      PROVE  Left' \subseteq Left /\ UNCHANGED <<kills, lapses>>
  BY <1>a DEF Left, Leftover, Mine
<1>1. CASE Push
  BY <1>1 DEF Push, disk, Left, Leftover, Mine
<1>2. ASSUME NEW s \in Sha, Prepare(s) PROVE Left' \subseteq Left /\ UNCHANGED <<kills, lapses>>
  BY <1>2 DEF Prepare, disk, Left, Leftover, Working
<1>3. CASE Clone \/ SetURL \/ FetchMirror \/ ReturnError
  BY <1>a, <1>3 DEF Clone, SetURL, FetchMirror, ReturnError, Fail, Bookkeeping, disk, Working
<1>4. CASE ClearWorktree
  <2>1. /\ tree' = TreeCleared /\ reg' = Pruned(reg, TreeCleared)
        /\ UNCHANGED <<kills, lapses>>
    BY <1>4 DEF ClearWorktree, Lapse
  <2>2. \A d \in Dir \ {Mine} : Leftover(d)' => Leftover(d)
    BY <1>0, <2>1, ClearedTree, PrunedKeeps DEF Leftover
  <2>3. tree'[Mine] = NoSha /\ reg'[Mine] \in {reg[Mine], "none"} /\ reg'[Mine] \in {"none", "locked"}
    BY <1>0, <2>1, ClearedTree, PrunedKeeps
  <2>4. \A d \in Dir : d = Mine /\ Leftover(d)' => Leftover(d) /\ reg[d] = "locked"
    BY <2>3 DEF Leftover
  <2>5. step \in Working => reg[Mine] = "registered"
    BY DEF TreeInv, RightTree
  <2>6. \A d \in Dir : Leftover(d)' => Leftover(d) /\ ~(d = Mine /\ step \in Working)
    <3> SUFFICES ASSUME NEW d \in Dir, Leftover(d)' PROVE Leftover(d) /\ ~(d = Mine /\ step \in Working)
      OBVIOUS
    <3>1. CASE d = Mine
      BY <3>1, <2>4, <2>5
    <3>2. CASE d # Mine
      BY <3>2, <2>2
    <3> QED BY <3>1, <3>2
  <2> QED BY <2>1, <2>6 DEF Left
<1>5. CASE AddWorktree
  <2>1. CASE Added /\ step' = "fetchBase"
    BY <1>0, <1>5, <2>1 DEF AddWorktree, Added, Bookkeeping, Left, Leftover, Mine, Working, TypeOK
  <2>2. CASE UNCHANGED <<tree, reg>>
    BY <1>a, <1>5, <2>2 DEF AddWorktree, Bookkeeping, Working
  <2> QED BY <1>5, <2>1, <2>2 DEF AddWorktree
<1>6. CASE AddWorktreeForce
  <2>1. CASE Added /\ step' = "fetchBase"
    BY <1>0, <1>6, <2>1 DEF AddWorktreeForce, Added, Bookkeeping, Left, Leftover, Mine, Working, TypeOK
  <2>2. CASE UNCHANGED <<tree, reg>>
    BY <1>a, <1>6, <2>2 DEF AddWorktreeForce, Bookkeeping, Working
  <2> QED BY <1>6, <2>1, <2>2 DEF AddWorktreeForce
<1>7. CASE FetchBase \/ EndReview
  BY <1>7 DEF FetchBase, EndReview, Bookkeeping, disk, Left, Leftover, Mine, Working
<1>8. CASE PruneMirrors
  <2>1. \A d \in Dir : reg'[d] \in {reg[d], "none"}
    BY <1>0, <1>8, PrunedKeeps DEF PruneMirrors
  <2>2. UNCHANGED <<tree, sha, step, kills, lapses>>
    BY <1>8 DEF PruneMirrors
  <2> QED BY <2>1, <2>2 DEF Left, Leftover, Mine
<1>9. CASE UNCHANGED vars
  BY <1>9 DEF vars, disk, Left, Leftover, Mine
<1> QED
  BY <1>1, <1>2, <1>3, <1>4, <1>5, <1>6, <1>7, <1>8, <1>9 DEF Next

\* ... and a death or a failed removal leaves at most that of the review under way.
LEMMA LossLeaves ==
  ASSUME TreeInv, Kill \/ Lapse
  PROVE  Left' \subseteq Left \cup {Mine} /\ kills' + lapses' = kills + lapses + 1
<1>0. TypeOK /\ Mine \in Dir
  BY MineIsDir DEF TreeInv, TypeOK
<1>1. ASSUME ClearedSome, NEW d \in Dir, Leftover(d)' PROVE Leftover(d)
  BY <1>0, <1>1, ClearedSomeKeeps DEF Leftover
<1>2. CASE Kill
  <2>1. \A d \in Dir \ {Mine} : Leftover(d)' => Leftover(d)
    <3>1. CASE UNCHANGED <<reg, tree>>
      BY <3>1 DEF Leftover
    <3>2. CASE ClearedSome
      BY <1>1, <3>2
    <3>3. CASE /\ reg' = [reg EXCEPT ![Mine] = "locked"]
               /\ tree' \in {[tree EXCEPT ![Mine] = t] : t \in {NoSha, "partial", sha}}
      BY <1>0, <3>3 DEF Leftover, TypeOK
    <3> QED BY <1>2, <3>1, <3>2, <3>3 DEF Kill, Remains, disk
  <2>2. kills' = kills + 1 /\ lapses' = lapses /\ kills \in Nat /\ lapses \in Nat
    BY <1>0, <1>2 DEF Kill, TypeOK
  <2> QED BY <2>1, <2>2 DEF Left
<1>3. CASE Lapse
  <2>1. kills' = kills /\ lapses' = lapses + 1 /\ kills \in Nat /\ lapses \in Nat
    BY <1>0, <1>3 DEF Lapse, ClearWorktree, TypeOK
  <2>2. ClearedSome
    BY <1>3, <2>1 DEF Lapse, ClearWorktree
  <2> QED BY <1>1, <2>1, <2>2 DEF Left
<1> QED BY <1>2, <1>3

LEMMA LeftStep ==
  TreeInv /\ LeftoversAccounted /\ [Next]_vars => LeftoversAccounted'
<1> SUFFICES ASSUME TreeInv, LeftoversAccounted, [Next]_vars
             PROVE  LeftoversAccounted'
  OBVIOUS
<1>1. Cardinality(Left) <= kills + lapses /\ kills \in Nat /\ lapses \in Nat
  BY DEF LeftoversAccounted, Left, TreeInv, TypeOK
<1>2. IsFiniteSet(Left) /\ IsFiniteSet(Left \cup {Mine}) /\ Cardinality(Left) \in Nat
  <2>1. IsFiniteSet(Left)
    BY FS_Subset, Left \subseteq Dir DEF Left
  <2> QED BY <2>1, FS_AddElement, FS_CardinalityType
<1>3. CASE ~Kill /\ ~Lapse
  <2>1. Left' \subseteq Left /\ kills' = kills /\ lapses' = lapses
    BY <1>3, StepLeaves
  <2>2. Cardinality(Left') <= Cardinality(Left) /\ Cardinality(Left') \in Nat
    BY <1>2, <2>1, FS_Subset, FS_CardinalityType
  <2>3. Cardinality(Left') <= kills' + lapses'
    BY <1>1, <1>2, <2>1, <2>2
  <2> QED BY <2>3 DEF LeftoversAccounted, Left
<1>4. CASE Kill \/ Lapse
  <2>1. Left' \subseteq Left \cup {Mine} /\ kills' + lapses' = kills + lapses + 1
    BY <1>4, LossLeaves
  <2>2. Cardinality(Left \cup {Mine}) <= Cardinality(Left) + 1 /\ Cardinality(Left \cup {Mine}) \in Nat
    BY <1>2, FS_AddElement, FS_CardinalityType
  <2>3. Cardinality(Left') <= Cardinality(Left \cup {Mine}) /\ Cardinality(Left') \in Nat
    BY <1>2, <2>1, FS_Subset, FS_CardinalityType
  <2>4. Cardinality(Left') <= kills' + lapses'
    BY <1>1, <1>2, <2>1, <2>2, <2>3
  <2> QED BY <2>4 DEF LeftoversAccounted, Left
<1> QED BY <1>3, <1>4

\* Worktrees do not pile up: a process death and a failed removal account for
\* at most one that is left over each, however their removal was cut short.
THEOREM LeftoversCounted == Spec => []LeftoversAccounted
<1>1. Init => LeftoversAccounted
  <2> SUFFICES ASSUME Init PROVE LeftoversAccounted
    OBVIOUS
  <2>1. {d \in Dir : Leftover(d) /\ ~(d = Mine /\ step \in Working)} = {}
    BY DEF Init, Leftover
  <2>2. kills = 0 /\ lapses = 0
    BY DEF Init
  <2> QED BY <2>1, <2>2, FS_EmptySet DEF LeftoversAccounted
<1> QED BY <1>1, LeftStep, TreeInit, TreeStep, PTL DEF Spec

=============================================================================
