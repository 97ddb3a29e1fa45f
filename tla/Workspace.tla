------------------------------ MODULE Workspace -----------------------------
(***************************************************************************)
(* The Repo Mirror and the Review Worktrees of one Registered Repo:        *)
(* internal/gitwork/mirror.go as executeReview and Engine.Run use it, with *)
(* the git commands modelled by what they leave on disk.  Reviews of one   *)
(* repo take turns (ReviewEngine, RepoExclusive); commits are pushed to    *)
(* and vanish from the host meanwhile, PruneMirrors runs beside them, and  *)
(* the process with the git it waits for may be killed at any point.       *)
(***************************************************************************)
EXTENDS Integers, FiniteSets

CONSTANTS
  Sha,        \* commits that are heads of pull requests
  Dir,        \* worktree directories, <repo id>-<first 8 digits of the commit>
  DirOf,      \* the directory of a commit
  NoSha,      \* no tree
  MaxPushes,  \* bound: changes on the host
  MaxKills,   \* bound: process deaths
  MaxLapses   \* bound: failing removals of a worktree

ASSUME WorkspaceAssumption ==
  /\ DirOf \in [Sha -> Dir]
  /\ Sha # {}
  /\ IsFiniteSet(Dir)
  /\ NoSha \notin Sha /\ "partial" \notin Sha /\ NoSha # "partial"
  /\ MaxPushes \in Nat /\ MaxKills \in Nat /\ MaxLapses \in Nat

VARIABLES
  heads, base,   \* at the host: the commits, the version of the base branch
  mirror,        \* what there is of the mirror
  objects,       \* the commits in it
  originBase,    \* version of its refs/remotes/origin/<base>, 0 if there is none
  locks,         \* git's lock files left in it
  reg,           \* its registration of each worktree
  tree,          \* what is on disk in each worktree directory
  step,          \* where the review is
  sha, asked,    \* the head it was asked for, and the base version at that time
  excuse,        \* history: the host or the disk let this review down
  pruning,       \* Engine.Run has yet to prune
  pushes, kills, lapses  \* counted against the bounds

host == <<heads, base, pushes>>
disk == <<mirror, objects, originBase, locks, reg, tree>>
vars == <<host, disk, step, sha, asked, excuse, pruning, kills, lapses>>

\* A killed clone leaves a directory without HEAD, a repository without the
\* remote origin, or an origin without a refspec; otherwise origin is complete.
Scarred == {"husk", "bare", "norefs"}
Mirrors == {"none", "origin"} \cup Scarred
\* config.lock, packed-refs.lock and the lock of a single ref.  Nothing in
\* gitwork removes one.
RefLocks == {"packed", "ref"}
Locks == {"config"} \cup RefLocks
Steps == {"idle", "clone", "seturl", "fetch", "clear", "add", "reclear", "addForce",
          "fetchBase", "ocr", "cleanup", "failed"}

\* The directory of the review, repoID-headSHA[:8].  (A definition X_How is X
\* with a slip in it: no definition uses it, it serves to see that a property
\* notices.)
Mine_ByRepo == CHOOSE d \in Dir : TRUE
Mine == DirOf[sha]
\* From worktree add to Cleanup the review works in it.
Working == {"fetchBase", "ocr", "cleanup"}

TypeOK ==
  /\ heads \subseteq Sha /\ objects \subseteq Sha
  /\ base \in 1..(pushes + 1) /\ originBase \in 0..(MaxPushes + 1)
  /\ mirror \in Mirrors /\ locks \subseteq Locks
  /\ reg \in [Dir -> {"none", "registered", "locked"}]
  /\ tree \in [Dir -> Sha \cup {NoSha, "partial"}]
  /\ step \in Steps
  /\ sha \in Sha /\ asked \in 1..(MaxPushes + 1)
  /\ excuse \in BOOLEAN /\ pruning \in BOOLEAN
  /\ pushes \in 0..MaxPushes /\ kills \in 0..MaxKills /\ lapses \in 0..MaxLapses
  /\ mirror # "origin" => objects = {} /\ originBase = 0
  /\ \A d \in Dir : tree[d] \in Sha => DirOf[tree[d]] = d

Init ==
  /\ heads \in SUBSET Sha /\ base = 1 /\ pushes = 0
  /\ mirror = "none" /\ objects = {} /\ originBase = 0 /\ locks = {}
  /\ reg = [d \in Dir |-> "none"]
  /\ tree = [d \in Dir |-> NoSha]
  /\ step = "idle" /\ sha \in Sha /\ asked = 1 /\ excuse = FALSE
  /\ pruning = TRUE /\ kills = 0 /\ lapses = 0

-----------------------------------------------------------------------------
(* What git does.                                                          *)

\* git worktree prune: a registration without a directory goes, unless locked.
Pruned(g, t) ==
  [d \in Dir |-> IF g[d] = "registered" /\ t[d] = NoSha THEN "none" ELSE g[d]]

\* git worktree add: the directory must not be there; --force takes over a
\* registration, but not a locked one.
CanAdd(free) == sha \in objects /\ tree[Mine] = NoSha /\ reg[Mine] \in free
ToAdd == {"none"}
ToAddForce == {"none", "registered"}

\* What clearWorktree leaves in the directory.
TreeCleared_Kept == [tree EXCEPT ![Mine] = IF @ = "partial" THEN @ ELSE NoSha]
TreeCleared == [tree EXCEPT ![Mine] = NoSha]

\* git fetch --prune origin with the mirror refspec drops origin/<base>.
BaseAfterFetch_NoPrune == originBase
BaseAfterFetch == 0

-----------------------------------------------------------------------------
(* The host.                                                               *)

Push ==
  /\ pushes < MaxPushes /\ pushes' = pushes + 1
  /\ \/ \E s \in Sha : heads' \in {heads \cup {s}, heads \ {s}} /\ UNCHANGED base
     \/ base' = base + 1 /\ UNCHANGED heads
  /\ UNCHANGED <<disk, step, sha, asked, excuse, pruning, kills, lapses>>

-----------------------------------------------------------------------------
(* Prepare, the review and Cleanup.                                        *)

Bookkeeping == UNCHANGED <<host, sha, asked, pruning, kills, lapses>>
Fail == step' = "failed" /\ excuse' = TRUE /\ UNCHANGED disk

\* executeReview with the head that fetchPR got, up to the check for HEAD.
\* Here and below, directories that cannot be made count as a failing git.
Prepare(s) ==
  /\ step = "idle"
  /\ s \in heads
  /\ sha' = s /\ asked' = base /\ excuse' = FALSE
  /\ step' = IF mirror \in {"none", "husk"} THEN "clone" ELSE "seturl"
  /\ UNCHANGED <<host, disk, pruning, kills, lapses>>

\* A clone that fails by itself takes back what it made.
Clone ==
  /\ step = "clone"
  /\ \/ /\ mirror = "none"
        /\ mirror' = "origin" /\ objects' = heads
        /\ excuse' = (sha \notin heads)
        /\ step' = "clear"
        /\ UNCHANGED <<originBase, locks, reg, tree>>
     \/ mirror = "husk" /\ step' = "failed" /\ UNCHANGED <<disk, excuse>>
     \/ Fail
  /\ Bookkeeping

\* The URL is written to the configuration under config.lock.
SetURL ==
  /\ step = "seturl"
  /\ \/ /\ step' = (IF mirror = "bare" \/ "config" \in locks THEN "failed" ELSE "fetch")
        /\ UNCHANGED <<disk, excuse>>
     \/ Fail
  /\ Bookkeeping

\* A fetch that does not get to its end has pruned and fetched some.
FetchedSome ==
  /\ objects' \in {objects, objects \cup heads}
  /\ originBase' \in {originBase, BaseAfterFetch}

\* A ref is deleted under packed-refs.lock, which is taken whenever there is an
\* origin/<base>; the other refs that move need locks of their own.  Without a
\* refspec only the default branch is fetched, and no ref moves.
FetchMirror ==
  /\ step = "fetch"
  /\ \/ /\ mirror = "origin" /\ ~("packed" \in locks /\ originBase # 0)
        /\ objects' = objects \cup heads /\ originBase' = BaseAfterFetch
        /\ excuse' = (sha \notin heads)
        /\ step' = "clear"
        /\ UNCHANGED <<mirror, locks, reg, tree>>
     \/ /\ mirror = "origin" /\ FetchedSome
        /\ excuse' \in {TRUE, locks \cap RefLocks = {}}
        /\ step' = "failed"
        /\ UNCHANGED <<mirror, locks, reg, tree>>
     \/ mirror = "norefs" /\ step' = "clear" /\ UNCHANGED <<disk, excuse>>
     \/ Fail
  /\ Bookkeeping

AfterClear == [clear |-> "add", reclear |-> "addForce", cleanup |-> "idle"]

\* worktree remove --force drops the registration even if it could not remove
\* the directory.
Unregistered == [reg EXCEPT ![Mine] = IF @ = "locked" THEN @ ELSE "none"]

\* Any of the three commands fails, whose errors are all dropped: some of the
\* directory or all of it stays, and the registration with it or without it.
ClearedSome ==
  /\ tree' \in {[tree EXCEPT ![Mine] = t] :
                t \in {NoSha, tree[Mine]} \cup {u \in {"partial"} : tree[Mine] # NoSha}}
  /\ \E g \in {reg, Unregistered} : reg' \in {g, Pruned(g, tree')}

\* worktree remove --force, RemoveAll and worktree prune: before the worktree
\* is added, before it is added by force, and in the deferred Cleanup.  The
\* caller goes on whatever they did.
ClearWorktree ==
  /\ step \in DOMAIN AfterClear
  /\ \/ /\ tree' = TreeCleared /\ reg' = Pruned(reg, TreeCleared)
        /\ UNCHANGED <<excuse, lapses>>
     \/ /\ lapses < MaxLapses /\ lapses' = lapses + 1
        /\ ClearedSome
        /\ excuse' = TRUE
  /\ step' = AfterClear[step]
  /\ UNCHANGED <<host, mirror, objects, originBase, locks, sha, asked, pruning, kills>>

Added == tree' = [tree EXCEPT ![Mine] = sha] /\ reg' = [reg EXCEPT ![Mine] = "registered"]

\* A failed worktree add takes back what it made.
AddWorktree_Reuse ==
  /\ step = "add"
  /\ step' = "fetchBase"
  /\ IF CanAdd(ToAdd) THEN Added ELSE UNCHANGED <<tree, reg>>
  /\ UNCHANGED <<mirror, objects, originBase, locks, excuse>>
  /\ Bookkeeping
AddWorktree ==
  /\ step = "add"
  /\ \/ CanAdd(ToAdd) /\ Added /\ step' = "fetchBase" /\ UNCHANGED excuse
     \/ ~CanAdd(ToAdd) /\ step' = "reclear" /\ UNCHANGED <<tree, reg, excuse>>
     \/ step' = "reclear" /\ excuse' = TRUE /\ UNCHANGED <<tree, reg>>
  /\ UNCHANGED <<mirror, objects, originBase, locks>>
  /\ Bookkeeping

AddWorktreeForce ==
  /\ step = "addForce"
  /\ \/ CanAdd(ToAddForce) /\ Added /\ step' = "fetchBase" /\ UNCHANGED excuse
     \/ ~CanAdd(ToAddForce) /\ step' = "failed" /\ UNCHANGED <<tree, reg, excuse>>
     \/ step' = "failed" /\ excuse' = TRUE /\ UNCHANGED <<tree, reg>>
  /\ UNCHANGED <<mirror, objects, originBase, locks>>
  /\ Bookkeeping

\* The base ref; an error, a lock of the ref for one, is ignored.
FetchBase ==
  /\ step = "fetchBase"
  /\ originBase' \in {base, originBase}
  /\ step' = "ocr"
  /\ UNCHANGED <<mirror, objects, locks, reg, tree, excuse>>
  /\ Bookkeeping

\* The review ends, well, badly or in a panic, and Cleanup is deferred.
EndReview_NoCleanup ==
  /\ step = "ocr"
  /\ step' = "idle"
  /\ UNCHANGED <<disk, excuse>>
  /\ Bookkeeping
EndReview ==
  /\ step = "ocr"
  /\ step' = "cleanup"
  /\ UNCHANGED <<disk, excuse>>
  /\ Bookkeeping

\* Prepare returned an error: there is no workspace to clean up.
ReturnError ==
  /\ step = "failed"
  /\ step' = "idle"
  /\ UNCHANGED <<disk, excuse>>
  /\ Bookkeeping

-----------------------------------------------------------------------------
(* The process.                                                            *)

\* The server takes requests before Engine.Run has come this far.  A directory
\* that cannot be listed and a failing git are passed over.
PruneMirrors ==
  /\ pruning
  /\ pruning' = FALSE
  /\ reg' \in {reg, Pruned(reg, tree)}
  /\ UNCHANGED <<host, mirror, objects, originBase, locks, tree, step, sha, asked, excuse, kills, lapses>>

\* Lock files the git that is killed may leave.
LeavesLocks(some) == locks' \in {locks \cup l : l \in SUBSET some}

\* What the git that is killed leaves behind.
Remains ==
  \/ /\ step = "clone" /\ mirror = "none"
     /\ mirror' \in Mirrors \ {"none"}
     /\ objects' \in (IF mirror' = "origin" THEN {{}, heads} ELSE {{}})
     /\ LeavesLocks({"config", "packed"})
     /\ UNCHANGED <<originBase, reg, tree>>
  \/ /\ step = "seturl"
     /\ LeavesLocks({"config"})
     /\ UNCHANGED <<mirror, objects, originBase, reg, tree>>
  \/ /\ step = "fetch" /\ mirror = "origin"
     /\ FetchedSome
     /\ LeavesLocks(RefLocks)
     /\ UNCHANGED <<mirror, reg, tree>>
  \/ /\ step \in DOMAIN AfterClear
     /\ ClearedSome
     /\ UNCHANGED <<mirror, objects, originBase, locks>>
  \/ /\ \/ step = "add" /\ CanAdd(ToAdd)
        \/ step = "addForce" /\ CanAdd(ToAddForce)
     /\ reg' = [reg EXCEPT ![Mine] = "locked"]
     /\ tree' \in {[tree EXCEPT ![Mine] = t] : t \in {NoSha, "partial", sha}}
     /\ UNCHANGED <<mirror, objects, originBase, locks>>
  \/ /\ step = "fetchBase"
     /\ originBase' \in {base, originBase}
     /\ LeavesLocks({"ref"})
     /\ UNCHANGED <<mirror, objects, reg, tree>>
  \/ UNCHANGED disk

Kill ==
  /\ kills < MaxKills /\ kills' = kills + 1
  /\ Remains
  /\ step' = "idle" /\ pruning' = TRUE
  /\ UNCHANGED <<host, sha, asked, excuse, lapses>>

Next ==
  \/ Push
  \/ \E s \in Sha : Prepare(s)
  \/ Clone \/ SetURL \/ FetchMirror
  \/ ClearWorktree \/ AddWorktree \/ AddWorktreeForce
  \/ FetchBase \/ EndReview \/ ReturnError
  \/ PruneMirrors
  \/ Kill

Spec == Init /\ [][Next]_vars

-----------------------------------------------------------------------------
(* Properties.                                                             *)

\* OCR works in a registered worktree with exactly the head it was asked for,
\* whatever an earlier process left in that directory for a commit with the
\* same eight digits, and whatever is pruned beside it.
RightTree ==
  step \in Working => tree[Mine] = sha /\ reg[Mine] = "registered"

\* OCR never compares with a base older than the pull request it was asked
\* for: when origin/<base> cannot be fetched the mirror has none rather than
\* one of an earlier review (CONTEXT.md:60).
FreshBase == step = "ocr" => originBase = 0 \/ originBase >= asked

\* Every review, failed or panicked ones included, cleans up its worktree, so
\* worktrees do not pile up: each one left over is accounted for by a process
\* death or by a removal that failed, at most one each, although every error of
\* clearWorktree is dropped and a death leaves trees and registrations apart.
Leftover(d) == reg[d] # "none" \/ tree[d] # NoSha
LeftoversAccounted ==
  Cardinality({d \in Dir : Leftover(d) /\ ~(d = Mine /\ step \in Working)}) <= kills + lapses

\* A worktree that cannot be made has a reason: the host or the disk failed
\* this review, the commit is gone, or a process died in the middle of a clone,
\* of a worktree add, or with one of git's lock files in place, which nothing
\* repairs.  Half-removed directories and unlocked registrations stop nobody.
FailsOnlyIfScarred ==
  step = "failed" =>
    excuse \/ (kills > 0 /\ (mirror \in Scarred \/ reg[Mine] = "locked" \/ locks # {}))
=============================================================================
