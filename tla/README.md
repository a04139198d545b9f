# Verification of git-k8s

TLA+ models of the controllers of git-k8s, checked with TLC on small instances
and, for the parts everything else rests on, proved with TLAPS for all
instances. git-k8s keeps Git repositories, branches, pushes and pairs of
repositories to keep in sync as Kubernetes objects; four controllers, each a
Deployment of its own, poll, push, compare and merge. They share no memory: all
that passes between them are the objects they write and the Git remotes.

Paths below are relative to the repository; `PROJECT.json` maps each definition
of a module to the lines it stands for.

## 1. Inventory

| Component | State it keeps | Operations | Hard behaviour | What makes it correct |
|---|---|---|---|---|
| Push controller `pkg/reconciler/push` | status of GitPushTransactions; head commits of GitBranches | `ReconcileKind`, `executePush`, `failTransaction`, `updateBranches` | two pods during a rolling update, a crash between push and status, lost replies, a push that arrives after its client timed out or died, other pushers, a cached clone another pod fetches into | claims come first; phases end for good; no history is lost but where a refspec says so; a retry does not undo; a result is a commit that landed; every transaction ends; the heads of GitBranches are on their branch and come right |
| Workspace manager `pkg/workspace` | cache directories; map of reference-counted mutexes | `Acquire`, `Release`, `Deepen`, `GC` | goroutines on one directory, an entry dropped while its mutex is locked, failed and killed clones, removals that fail, GC next to reconciles | mutual exclusion per process and directory; the owner unlocks; clones stay whole; nobody waits for ever, or for a mutex nobody is to unlock; GC takes no directory in use for stale |
| Sync controller `pkg/reconciler/sync` | status of GitRepoSyncs | `ReconcileKind`, `findBranch`, `calculateMergeBase`, `createPushTransaction` | heads read at two times, a late status write, a transaction carried out long after | a transaction asks for a fast-forward; `Syncing` is backed by transactions; every status is evident from what there is (SyncPromise); agreement is noticed, for good |
| Resolver `pkg/reconciler/resolver` | the same status | `ReconcileKind`, `attemptMerge`, `buildMergedTree`, `createMergePushTransactions` | races with the sync controller; one of two creates fails; renames, nested paths and directories in a merge | it concludes the conflict it read; it refuses a file both sides changed; its tree is the three-way merge |
| Repo watcher `pkg/reconciler/repowatcher` | GitBranches, `LastFetchTime` | `ReconcileKind` (ls-remote, list, create, update, delete) | stale snapshot, colliding object names, two pods, users, the push controller's heads | it writes a GitBranch only heads of that branch; the mirror comes right, whatever others wrote |
| Reconcile bridge `pkg/reconciler/internal` | none (workqueue keys) | read afresh, reconcile, return the error | retry of anything | part of each controller's actions |
| Typed client `pkg/client` | none | Get, List, Create, UpdateStatus, Delete | optimistic concurrency | part of each controller's actions |
| API types, defaults `pkg/apis` | none | `SetDefaults`, phases | an empty phase means Pending | part of each controller's actions |
| Git credentials `pkg/gitauth` | none | resolve a secret | it may fail | a failure fails the transaction |
| Git history and servers (external) | commits, refs | fetch, clone, push, ls-remote | non-atomic pushes, refused commands, lost reports | compare with the advertised ref |
| Deep copies, metrics, health, manifests | counters | generated or passive | none | not modelled |

How they interact: the watcher mirrors a remote's branches into GitBranches;
the sync controller compares two GitBranches and creates GitPushTransactions
for the side that is behind; the push controller carries them out in a
workspace and writes the head of the GitBranches they name; where the two have
diverged the sync controller writes `Conflicted`, which is what the resolver
waits for: it merges, creates a transaction for either side and writes the
status of the same GitRepoSync.

## 2. Modules

    CommitGraph             history: reachability, fast-forward
      SyncPromise             what a GitRepoSync promises (abstract)
      PushPromise             what a push transaction promises (abstract)
      PushController          push controller + API objects + Git server,
                              which implements PushPromise
        MCPushController        instances
        PushControllerProofs    theorems
          PushPromiseProofs       the refinement
      RepoSync                sync controller + resolver on one GitRepoSync,
                              which implement SyncPromise
        MCRepoSync              instances
        RepoSyncProofs          theorems
          SyncPromiseProofs       the refinement
    TreeMerge               the resolver's comparison and merge of trees
      MCTreeMerge             an instance
      TreeMergeProofs         theorems
    PathLock                what the workspace manager promises (abstract)
      Workspace               the workspace manager, which implements it
        MCWorkspace             instances
        WorkspaceProofs         theorems, the refinement among them
    RepoWatcher             repo watcher + GitBranches + remotes
      MCRepoWatcher           an instance
      RepoWatcherProofs       theorems

Definitions whose comment says "Mutant" are a plausible bug in the definition
after them; a property is shown to notice it. No action uses one.

**PushController.** `pc[j]` is the place in `ReconcileKind` of a job, a pod
working on a transaction; the labels are the calls that follow one another:
`marking` (the first UpdateStatus, push.go:50), `preparing` (repository,
credentials, Acquire), `pushing` (PushContext up to the advertised refs),
`sending` (the server and its report), `reading` (the result is looked up,
push.go:138, and the workspace released), `succeeding`/`failing` (the final
UpdateStatus), `listing` and `updating` (`updateBranches`). `phase`,
`resultCommit` and `headCommit` are stored statuses, `remote` the branches of
the Git servers, `cache` the clones on the volume. A resourceVersion is only
ever compared for equality with the stored one, so `fresh` (and `listed`, for
GitBranches) is the set of copies that still carry it. The Git server updates
a ref only while it holds the value the client was told; it may refuse any
command; an atomic push is all or nothing; the report may be lost. go-git
resolves a source as a ref name or as the hash of a commit the clone holds, and
drops a refspec whose source is neither, without an error: `Resolve`. A refspec is
any source and destination, as nothing validates it: `+` before the source forces
its destination, an empty source deletes it (`Deletes`, `MayLose`). Atomic pushes
are asked for only where the server offers them (`AtomicRepos`). A clone in memory
is the job's own. The clone on disk is locked against the other jobs of its pod
(`Locked`), but not against another pod on the same volume: `CloneOf` reads the
refs that the last fetch of any pod has left there. (The claims in config/deployments
are one per controller, so pods of the other controllers use other volumes.) The client
waits five minutes (`TimeOutPush`); what it has sent, or was sending when its pod
died, is in `sent` and may reach the server at any later time (`ServeLate`), or
never. The watcher first asks the remote (`WatcherRead`, into `seen`) and writes
that head later (`WatcherWrite`). `outcome` is a history variable.

**PushPromise** is a transaction without pods, clones and retries: it is claimed,
its refspecs land, it succeeds once all of them have been dealt with, or fails.
Landing moves branches forward only, unless their refspec forces or deletes, and,
when the transaction is atomic and the server is able to, only in a push that leaves
no refspec out. It is allowed after the end as well, because a late push is; what the
code does not promise is that `Failed` means that nothing was, or will be, pushed, nor
which commit is recorded for a source ref that was read from a clone other pods use
(`SharedRepos`).

**Workspace.** A worker is a reconcile goroutine; labels stand between two
operations on a mutex or on the disk. `active` is `Manager.active`, `heap` the
ref objects (count and mutex) pointers lead to, `disk` what a directory holds.
`Manager.mu` guards short sections that do not block, so each is one step;
`Release` drops the entry in one step and unlocks in the next. A process may
crash at any point: directories stay, memory does not. With `Shallow` a first
clone has no history until a worker that holds it calls `Deepen`; `Whole` is
either. `os.RemoveAll` may fail, which the code ignores, and then leaves all or a part
(`Remains`): `partial` is a clone that was never finished, `damaged` one that was.

**TreeMerge.** A tree says what each path holds, a path being the sequence of its
names. `CompareTrees` is `Tree.Diff` for both sides: a gone and a new file with
the same content become a rename, and similar ones may, which is a choice.
`CheckConflicts` compares the names `changeName` gives; `MergedTree` is
`buildMergedTree` with its two kinds of keys, the names of A's root entries
and the full paths of B's changes. Whatever else may fail, the encoding of entries
that a Go map yields in no order included, is `Fail`. RepoSync uses of it only that
a merge may or may not succeed.

**RepoWatcher.** A job is a pod polling a repository. `local` is the snapshot
of ls-remote, the list taken after it, and what is left to write and delete;
writes carry a resourceVersion (`fresh`), `Delete` only a name. Two branches
may have one object name (`branchCRDName` maps `a/b` and `a-b` to the same);
`NameOf` is any function. Pushers, users, and the push controller act between
any two steps; the push controller writes any head, or none, into any GitBranch
(`UpdateBranches`), as push.go:176 does, which gives the result of the first refspec
to the GitBranches of all. A remote that has lost its last branch may still have tags,
and then lists no branches rather than fail.

**RepoSync.** One GitRepoSync, jobs of both controllers, its transactions. The
heads are read in two lists (`findingA`, `findingB`); the merge base is computed
in a clone of repository A, which must hold both commits; every failure of that
is a conflict without merge base, as in the code. Transactions are carried out,
and branches mirrored, in one step each; PushController and RepoWatcher have the
detail. Equal transactions are not told apart, which keeps their number finite
(the code creates another one with every reconcile, see 7).

**SyncPromise** is a GitRepoSync without pods, stale copies and failures: a status
and the transactions asked for. What the sync controller stores is evident: equal
commits, one that is behind the other with the push of the other asked for, or a
conflict, which when it has a merge base is one of commits that have diverged. The
resolver replaces nothing but a conflict, keeps its commits, and either has a merge of
both asked for on both sides or gives up. A transaction asks for a fast-forward and
ends once. What the code does not promise is that the commits of a status are still
the heads when it is stored.

**PathLock** is the promise of the workspace manager in three lines of state
change: a worker enters a directory nobody of its process is in, and leaves it.

## 3. Runs

| Run | Instance | Shows |
|---|---|---|
| PushOverlap | 2 pods, 1 atomic transaction (ref + SHA), 2 commits in line, one cached clone for both, forward pushers, 1 fault | types, claim before effect, final phases, history stays, neither a retry nor a late push undoes, every transaction ends |
| PushForced | 1 pod, 1 atomic transaction (a ref that not every clone has + a SHA with `+`), 2 commits, a cached clone, pushers who force and delete, a GitBranch and the watcher, 1 fault | implements PushPromise; the controller moves a branch backwards only for the refspec with `+`; the result is what landed and is left out only for a ref the clone lacks; the head of the GitBranch comes right |
| WorkspaceLock | 3 workers in 2 processes, 1 directory, GC, crashes, failures, of removals too | mutual exclusion, own unlock, who waits for a mutex waits for a goroutine that has it, implements PathLock, GC finds no directory in use stale |
| WorkspaceEnds | 2 workers in 1 process, shallow clones, crashes, failures, of removals too | a clone stays whole while used; each Acquire ends |
| WatchLive | 2 pods, 2 branches with one object name, 1 change (a push, a deletion, a user's or the push controller's write), 1 failure | a poll writes only heads the branch has had; the mirror comes right, whatever head was written |
| SyncStatus | 1 sync and 1 resolver pod, A ahead of B, 1 push, 1 failure | forward transactions, `Syncing` backed, conflicts are real, the resolver's write replaces what it read, both together implement SyncPromise, agreement is noticed |
| TreeMerge | every base and pair of trees over the paths f, g, d and d/f with 2 contents, which may pass for a renamed file in one direction | conflicts are found; changes of B in the root merge as a three-way merge |
| PushExpectedOld, PushResult, WorkspaceLeak, SyncLands, TreeNested | | see 5 |

Why the bounds are enough to be interesting. Two pods are what a rolling
update overlaps. Two commits give a branch that is behind, level or gone and,
with pushers who force and delete, every order of a branch's commits; the runs of
section 5 have a third, for a fork or a commit in between. Two refspecs are the least for partial
application and for a result that is of the other branch. `MaxFaults` counts
crashes, timeouts and failed or unanswered API writes: one makes a retry, and a
push that arrives during or after it. The transaction of the push runs is atomic,
so that a mutant which applies a part of it is noticed; what a push that is not
atomic, or a server that offers none, may do is covered by the proofs, which have
both, and so are deletions by an empty source.
`GiveUp`, a refused command and a lost report of the Git server are not counted
and always possible. `MaxChanges` counts what others do in RepoWatcher and
RepoSync; one change falls between any two steps. `MaxCount` bounds the
references counted for one directory, which the leak of section 5 would make
grow for ever; at the bound `GetRef` waits. In WorkspaceEnds it is 3 with two
workers, so the bound is reached only after leaks; `EveryAcquireEnds` says
nothing of a goroutine that has not begun to acquire. Four paths in two
directories are the least with a file that gives way to a directory and a path
whose last name another path has. The proofs have no such bounds but
`MaxFaults`, `MaxChanges` and `MaxCount` as parameters.

Deadlock is not checked where the instance ends: a transaction that is terminal
and pushers whose moves are used up, or budgets spent. The workspace manager never
ends, and its runs check for deadlock.

## 4. Fairness

- `Step(j)` of a controller is weakly fair: an error goes back to the rate
  limited workqueue (`reconcile.go`), informers resync every 30 s, a restarted
  pod lists everything, and the watcher requeues its own key after the
  interval. So an idle job that may start does, and one that has begun goes on,
  because each call has a time limit.
- `Retire`: a rolling update ends with one pod. `Tick`: time passes.
- `Watch` in RepoSync, `WatcherRead` and `WatcherWrite` in PushController: the watcher
  polls, and writes what it saw.
- `Continue(w)` of a workspace: clones and fetches end after
  `DefaultGitTimeout`; `Lock(w)` is strongly fair because `sync.Mutex` turns to
  starvation mode and hands itself to the goroutine that has waited longest.
- Nothing is assumed of users, pushers, crashes, timeouts, failures, GC or pushes
  that are late, nor that the merge of the resolver or any particular command succeeds.

## 5. Where the code departs from its own words

Each of these runs ends in a counterexample.

- **PushExpectedOld.** `expectedOldCommit` is never compared with anything
  (push.go:107); README.md:268-269 promises compare-and-swap. A push replaces any
  commit it is a fast-forward of.
- **PushResult.** The result is looked up as a ref named by the source
  (push.go:138). Pushes of the sync controller and the resolver have a SHA as
  source; their transactions succeed with no result commit, and
  `updateBranches` then empties the head of the GitBranch until the watcher
  polls again. `ResultIsLanded` is what does hold, unless pods share the clone: a
  result that is there is right, and of a transaction whose first source is a ref it is
  missing only when the clone has no such ref.
- **WorkspaceLeak.** An Acquire that fails, or falls back to memory, after
  `getRef` (workspace.go:149) unlocks but does not give its count back.
  These failures are the only leak: `OnlyFailuresLeak`. The proof of mutual
  exclusion needs only that a count is never too small.
- **SyncLands.** The commit to push is in the other repository (sync.go:90), and a
  merge commit only in the resolver's own clone, but the push controller pushes
  from a clone of the target. A source that is not in there yields no command
  and no error, so the transaction succeeds and the branch stays where it was. The
  clone is what it depends on: from when on it holds the commit, unless a push has
  passed it over before, every push that succeeds has brought it to the branch
  (`KnownSourcesLand`, `SharedSourcesLand`).
- **TreeNested.** `buildMergedTree` keys what B changed by its full path
  (resolver.go:229) and A's root entries by name. The entry of a nested file
  carries its last name, so the file is added to the root, perhaps under a name
  that is already there, and A's version stays in its directory; the deletion of
  a nested file removes nothing. `RootChangesMerge` is what holds of the
  comment at resolver.go:90-91.

Without a run of its own:

- Two pods that overlap on one cached clone share its refs, and no flock keeps them
  apart. Between the push (push.go:125) and the look at the result (push.go:138) the
  forced fetch of the other pod (workspace.go:142) may move the first refspec's source
  ref, so that the recorded result is a commit that was never pushed, against
  types.go:184. With `SharedRepos` taken to be empty, TLC finds this for PushOverlap's
  two pods when it checks `ResultIsLanded`; the property, `ResultLanded` and PushPromise
  therefore promise nothing of the result of a ref in a shared clone. What the sync
  controller and the resolver create has a SHA for its source and is not affected.
- `updateBranches` (push.go:176) gives the result of the first refspec to the
  GitBranches of all of them, so that one may name a commit that is not on its branch
  until the watcher polls. RepoWatcher has this write, and `EventuallyMirrors` and
  `HeadsComeRight` say that it does come right; `HeadsStayOnBranch` says when it never
  happens, which is so for what the controllers create.

"Build sorted tree entries" (resolver.go:241) does not
sort, and go-git refuses to encode entries out of order, so a merge without a conflict
may fail.

## 6. What is proved

From the assumptions stated in the modules (history is a partial order, each
refspec of a transaction has a destination of its own, names and model values
are apart, `Worker` and the GitBranch names are finite), for any number of pods,
transactions, repositories, branches, workers, processes, directories, commits
and any bounds.

**PushControllerProofs**, in layers, each an invariant on top of `TypeOK`:

- `ClaimInv`: a current copy is one of an open transaction, held by a job that
  has not yet written its end; a job past `marking` works on a claimed one.
  Hence `ClaimedFirst` and `TerminalStays`: a job with an older copy cannot
  write, whichever pod it is in.
- `CommandInv`: the commands on their way are one per refspec, each a
  fast-forward of the ref that was advertised. As the server compares with
  that ref, the step that applies them moves forward: `MovesForward`, whatever
  other pushers do. If they do not force, `LandedForEver` follows, because
  ancestry is transitive, and `LandedOnce`, because it is antisymmetric: a
  branch whose history has the commit can only be moved back to it by a
  command whose old value lies both before and after it. A refspec that forces or
  deletes is exempt in `MovesForward`, for its own branch, and excluded in the other
  two (`OnlyForward`).
- `SentInv`, that a push in `sent` is of a claimed transaction, and `CommandInv`,
  which covers its commands too, make all of this hold of late pushes.
- `SettledInv`: during a push each refspec is settled or on its way with the
  commit its source names; after it all are settled and what the job then reads is the
  first refspec's, or nothing if that is no ref. Hence `SuccessIsSettled` and
  `ResultLanded`. That the ref has not moved in between holds of a clone in memory, and
  of one on disk if no other pod uses it, as the lock keeps the jobs of a pod apart; in
  a clone that pods share, `ResultLanded` says only that a source that is no ref leaves
  no result.
- `UpdateInv`: in `updateBranches` a job holds a result of the first refspec that is in
  `outcome`, and only GitBranches its transaction pushes to. With `LandedForEver` this
  gives `HeadsStayOnBranch`: where only first refspecs push to a branch (`FirstOnly`),
  those whose source is a ref do not read it from a clone that pods share (`ReadAlone`),
  and nobody forces, its GitBranch never names a commit outside the branch, although the
  controller and the watcher, which may write a head it saw long before
  (`SeenOnBranch`), overtake each other. Without `FirstOnly` TLC
  finds a head that is not on its branch.

**PushPromiseProofs**: `PromiseKept`, that PushController implements PushPromise.
`RequestInv` adds that a push on its way, late or not, has settled each refspec or
carries a command for it; so when the server applies all commands, as it does
with an atomic push if it applies any, every refspec is dealt with. Each step then
maps to a step of PushPromise or to a stutter.

**WorkspaceProofs**: `LockInv` says that whoever waits for or holds a mutex got it
from the entry in the map (`EntryStays`), that the holder owns it (`HolderOwns`), that
no ref object serves two directories (`OneEntry`) and that counts are never too small
(`CountCovers`, by cardinality). `MutualExclusion` and `UnlockedByOwner` follow, and
`ImplementsPathLock`: initial states map to initial states, and each step to Enter,
Leave or a stutter. `GCSpares`: a goroutine in a directory or waiting for it is
counted, so the check finds a count above zero. `WaitsEnd` needs `HoldInv`: the owner
of a mutex anybody can get at is a goroutine that holds it, and entries of different
processes or directories are different objects, so that neither a failure, a Release
that finds no entry nor the death of a process leaves a mutex locked behind a waiting
goroutine. (That the wait also ends takes fairness: `EveryAcquireEnds`.)
`OnlyFailuresLeak`: while no Acquire fails after `getRef`, each entry counts its users
exactly (`CountsExact`), crashes, GC and several processes included.
`ClonesStayWhole`, assuming one process and no GC: who is in a directory is there
alone, and leaves it whole or not as a user. Its invariant adds that until a clone is
finished or removed there is none in its directory, so that a removal that fails leaves
half of one at most, which the next fetch completes (`NoneDamaged`).

**RepoWatcherProofs**: a current copy equals the object it was read from
(`CopiesAgree`), a snapshot holds commits its branches have had
(`SnapshotsArePast`). Hence `HeadsSeen`: the watcher writes a head only to an object
that still is of the branch the head was read for, however its name has been
used in between. It is about the watcher's own writes: the push controller does write
other heads, and nothing is assumed of those.

`OnePollMirrors` and `MirrorLasts` are about quiet times. From a moment when one pod
runs and no poll is under way, and while nobody else changes anything, a poll that
counts as done has mirrored its repository, whatever GitBranches were there before
and however many polls failed halfway; and a branch that is mirrored stays so. The
invariant, `PollInv`, holds of each poll: its snapshot is the remote, what it is to
delete is the watcher's own and of a branch that has gone, and each branch is mirrored
or still on its list (`Left`). The theorems assume that names tell branches apart
(`NamesDiffer`). That, the one pod and the quiet are needed: when `a/b` and `a-b`
share an object name, or another pod polls too, a poll that counts as done need not
have mirrored everything; `EventuallyMirrors` is about what later polls make of it.

**RepoSyncProofs**: `JobInv` says of each job what it is about to create or to
write: that one side is behind the other, that the merge commit has both
parents' history, that a `Syncing` yet to be written has its transactions and
that a conflict with a merge base has diverged. It holds of each job alone, because
transactions never go (`KeepsTransactions`). `AskedForward`, `SyncingBacked`
and `ConflictsDiverged` follow. `CopyInv`, a current copy of the resolver is the
conflict it works on, gives `ResolverConcludes`. `TypeOK` is not inductive by
itself here: that a transaction has a commit for its source needs `JobInv`.

`AgreementLasts`: from a moment when the heads agree and the sync controller is
idle, while they stay and can be listed, each of its jobs can only read equal heads
(`ReadsAgreement`), and the resolver cannot write over `InSync`, by `CopyInv`. That the
list calls succeed is needed: a list that fails is stored as a conflict.
`KnownSourcesLand` rests on `HistoryKept`, that a branch, and with it a clone, loses no
commit as long as nobody forces a push.

**SyncPromiseProofs**: `SyncPromiseKept`, that RepoSync implements SyncPromise.
`WriteInv` says that the status a job is about to write is evident already, and
`EvidentStays` that it remains so until it is written, because transactions never
go. The resolver writes over what it read, so its step maps to the one that
concludes the stored conflict; everything a job does before its write maps to a
request for a push or to a stutter.

**TreeMergeProofs**: `DiffWritten` and `DiffRemoved` say which paths a diff writes and
removes, however files are paired into renames; `NamesApart` that the check has
found no common name. Hence `ConflictsAreFound`, and `RootMerge`: when B's changes
are to root files, no path below a name B touched is left in the three-way merge,
so laying B's entries over A's gives exactly its files.

Only model-checked: everything that rests on fairness (`EventuallyTerminal`,
`HeadsComeRight`, `EveryAcquireEnds`, `EventuallyMirrors`, `AgreementIsNoticed`),
which is out of the prover's reach. What a step must not undo on the way there is
proved: `TerminalStays` for the first, `WaitsEnd` for the third, `OnePollMirrors` with
`MirrorLasts` for the fourth and `AgreementLasts` for the last. `HeadsComeRight` has
no such half: an older result may be written over a head that was right until the
watcher polls once more; `HeadsStayOnBranch` is what holds meanwhile. The violations
of section 5 are counterexamples on small instances and need no proof.

## 7. What is not modelled, and simplifications

- No controller calls `GC` in this version. `GCSparesUsed` is about its check; the
  removal is a later step in WorkspaceLock, where it may hit a directory acquired
  in between. The run shows that the mutex survives that, not that the clone does.
- What go-git's fetches bring is external, and is taken to be as follows. A fetch into
  a clone that was never finished brings what it lacks, because such a clone has no
  branches yet; one into a clone of which a part was removed may succeed without
  noticing; one into a shallow clone leaves it shallow; `Deepen` fetches the missing
  history or changes nothing. `CloneStays` rests on the first of these.
- The objects of a clone on disk are those that were there when it was opened: a commit
  another pod has fetched since is not resolved as a source. Its refs are read each time.
- Two processes that mount one volume share directories but no mutex. `Exclusive`
  is about one process, as the code is. PushController has what this does to the refs
  a job reads; what two processes do to each other's unfinished clones, and GC to any,
  is only in Workspace.
- File modes and submodules are left out of TreeMerge. `ConflictsFound` excepts
  files renamed to: `changeName` (resolver.go:262) knows a rename by its old name,
  so that a change under the new one on the other side is not seen.
- RepoSync does not look into trees: whether a merge succeeds is a free choice.
- In RepoSync other pushers only move forward, and each side has at most one
  GitBranch. The code creates a transaction with every reconcile of heads that
  differ, and none is removed; the model identifies equal ones.
- The watcher deletes by name, so an object that a user has put under that name
  after the list would go instead; the model has that step, and
  `EventuallyMirrors` allows for it.
- Generated deep copies, conversion to unstructured objects, metrics, health,
  manifests, credentials beyond their failure.

## 8. Plan

1. RepoSync over PushPromise instead of its one-step push, late pushes included,
   now that PushController is proved to implement it.
2. Duplicate GitBranches: the watcher maintains the last of a list, `findBranch`
   reads the first; a composition of RepoWatcher and RepoSync over shared
   GitBranches.
3. An abstract specification of the watcher (a mirror that it only moves to heads
   its branch has had, and that others may move anywhere) with RepoWatcher proved to
   implement it.
4. Two processes on one volume with the flock that docs/design-pvc-workspace.md
   plans, once the code has it.
