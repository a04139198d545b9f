--------------------------- MODULE PushController ---------------------------
(***************************************************************************)
(* The push controller (pkg/reconciler/push): GitPushTransactions are      *)
(* reconciled into pushes to Git remotes and then into GitBranch statuses. *)
(*                                                                         *)
(* Every API call and every exchange with the Git server is a step of its  *)
(* own, so that anything may happen between two of them: a second pod of a *)
(* rolling update reconciles the same transaction, the pod crashes, other  *)
(* people push, the repo watcher writes the same GitBranch.                *)
(*                                                                         *)
(* Abstractions.  A resourceVersion is only ever compared for equality     *)
(* with the stored one, so the model keeps, instead of a counter, which    *)
(* copies still carry the stored one (fresh for transactions, listed for   *)
(* branches).  The 30 s informer resync and the rate-limited requeue after *)
(* an error can both put any transaction back in the workqueue at any      *)
(* time, so the queue is not a variable: an idle job may always start.     *)
(* The workqueue never hands one key to two workers of a pod, so a job is  *)
(* a pair of a pod and a transaction.  Timestamps and messages are left    *)
(* out, except that a write which changes nothing gets no new              *)
(* resourceVersion.                                                        *)
(***************************************************************************)
EXTENDS CommitGraph, Naturals, Sequences, FiniteSets

CONSTANTS
    Pod,            \* pods of the push-controller deployment
    Txn,            \* names of GitPushTransaction objects
    Repo,           \* names of GitRepository objects
    Branch,         \* branch names (refs/heads/<name>)
    Cr,             \* names of GitBranch objects
    TxnSpec,        \* the spec of each transaction (immutable)
    CrSpec,         \* the spec of each GitBranch (immutable)
    DefaultBranch,  \* the branch HEAD names in every remote
    CachedRepos,    \* repositories with spec.cache.enabled
    AtomicRepos,    \* repositories whose server advertises atomic pushes
    External,       \* what other pushers do: "forward" and "force"
    MaxFaults       \* bound on crashes, timeouts and failed API writes

(***************************************************************************)
(* The source is a SHA, the name of a ref, or empty (NoCommit), and may    *)
(* begin with "+": nothing validates it.                                   *)
(***************************************************************************)
RefSpec == [plus : BOOLEAN,
            source : Commit \cup Branch \cup {NoCommit},
            destination : Branch,
            expectedOldCommit : MaybeCommit]

ASSUME PushAssumption ==
    /\ Commit \cap Branch = {}
    /\ NoCommit \notin Branch
    /\ TxnSpec \in [Txn -> [repositoryRef : Repo, refSpecs : Seq(RefSpec), atomic : BOOLEAN]]
    /\ \A t \in Txn : LET rs == TxnSpec[t].refSpecs IN
        /\ Len(rs) > 0
        /\ \A i, k \in DOMAIN rs : rs[i].destination = rs[k].destination => i = k
    /\ CrSpec \in [Cr -> [repositoryRef : Repo, branchName : Branch]]
    /\ DefaultBranch \in Branch
    /\ CachedRepos \subseteq Repo
    /\ AtomicRepos \subseteq Repo
    /\ External \subseteq {"forward", "force"}
    /\ MaxFaults \in Nat

VARIABLES
    phase,          \* stored status.phase of each transaction
    resultCommit,   \* stored status.resultCommit of each transaction
    headCommit,     \* stored status.headCommit of each GitBranch
    remote,         \* the branches of each Git remote
    cache,          \* the bare clone of each repository on the cache volume
    sent,           \* pushes whose client has gone before the server saw them
    pods,           \* the pods that are running
    pc,             \* where each job is in ReconcileKind
    fresh,          \* jobs whose copy of the transaction is the stored one
    local,          \* the other local variables of each job
    seen,           \* the head the watcher's last poll found, for each GitBranch
    faults,         \* faults so far
    outcome         \* history: what became of each refspec in some attempt

objects == <<phase, resultCommit, headCommit>>
git     == <<remote, cache, sent>>
control == <<pods, pc, fresh, local>>
vars    == <<objects, git, control, seen, faults, outcome>>

-----------------------------------------------------------------------------
Job == Pod \X Txn

JobsOf(t) == {j \in Job : j[2] = t}

SpecOf(j) == TxnSpec[j[2]]

RepoOf(j) == SpecOf(j).repositoryRef

RefSpecs(t) == TxnSpec[t].refSpecs

(***************************************************************************)
(* git refspec syntax: "+" forces the update, an empty source deletes the  *)
(* destination, and "+" with an empty source asks for nothing.             *)
(***************************************************************************)
Deletes(rs) == rs.source = NoCommit /\ ~rs.plus

MayLose(rs) == rs.plus \/ Deletes(rs)

(* The source, as it stands in the spec, is the name of a ref. *)
NamesRef(rs) == rs.source \in Branch /\ ~rs.plus

(***************************************************************************)
(* Phases.  The controllers create transactions with an empty phase and    *)
(* treat "Pending" like it.  "Deleted" stands for an object that is gone.  *)
(***************************************************************************)
Phase == {"Pending", "InProgress", "Succeeded", "Failed", "Deleted"}

Terminal == {"Succeeded", "Failed"}

(***************************************************************************)
(* A clone: local refs/heads/* and the objects it holds.                   *)
(***************************************************************************)
Clone == [refs : [Branch -> MaybeCommit], objs : SUBSET Commit]

NoClone == [refs |-> [b \in Branch |-> NoCommit], objs |-> {}]

Command == [refSpec : Nat, old : MaybeCommit, new : MaybeCommit]

(* What a push of a job asks of the server. *)
Request == [job : Job, commands : SUBSET Command]

(* onDisk: the workspace is the cached clone, and its lock is held. *)
Local == [onDisk : BOOLEAN, clone : Clone, commands : SUBSET Command,
          result : MaybeCommit, todo : SUBSET Cr, listed : SUBSET Cr]

NoLocal == [onDisk |-> FALSE, clone |-> NoClone, commands |-> {},
            result |-> NoCommit, todo |-> {}, listed |-> {}]

PC == {"idle", "marking", "preparing", "pushing", "sending", "reading",
       "succeeding", "failing", "listing", "updating"}

Init ==
    /\ phase = [t \in Txn |-> "Pending"]
    /\ resultCommit = [t \in Txn |-> NoCommit]
    /\ headCommit = [k \in Cr |-> NoCommit]
    /\ remote \in [Repo -> [Branch -> MaybeCommit]]
    /\ cache = [r \in Repo |-> NoClone]
    /\ sent = {}
    /\ pods = Pod
    /\ pc = [j \in Job |-> "idle"]
    /\ fresh = {}
    /\ local = [j \in Job |-> NoLocal]
    /\ seen = [k \in Cr |-> NoCommit]
    /\ faults = 0
    /\ outcome = [t \in Txn |-> {}]

-----------------------------------------------------------------------------
(* Control flow shared by the steps of ReconcileKind.                      *)

At(j, label) == j[1] \in pods /\ pc[j] = label

Goto(j, label) == pc' = [pc EXCEPT ![j] = label]

(* ReconcileKind returns: the job's locals are gone. *)
Return(j) ==
    /\ Goto(j, "idle")
    /\ local' = [local EXCEPT ![j] = NoLocal]

Fault ==
    /\ faults < MaxFaults
    /\ faults' = faults + 1

(***************************************************************************)
(* An UpdateStatus the API server accepts: it carries the stored           *)
(* resourceVersion (Current), and gives the object a new one: every other  *)
(* copy is outdated from now on.  The caller either gets the new object    *)
(* and goes on at label (copies is {j} if it will write it once more), or  *)
(* loses the reply and returns the error.                                  *)
(***************************************************************************)
(* Mutant: status writes that carry no resourceVersion. *)
BlindWrite(j) == TRUE

Current(j) == j \in fresh

Accepted(j, label, copies) ==
    /\ Current(j)
    /\ \/ /\ Goto(j, label)
          /\ fresh' = (fresh \ JobsOf(j[2])) \cup copies
          /\ UNCHANGED <<local, faults>>
       \/ /\ Fault
          /\ Return(j)
          /\ fresh' = fresh \ JobsOf(j[2])

(***************************************************************************)
(* An UpdateStatus that is refused: the copy is outdated (409 Conflict or  *)
(* 404 Not Found), or the call fails.  ReconcileKind returns the error and *)
(* the workqueue retries the key.                                          *)
(***************************************************************************)
StatusWriteRefused(j) ==
    /\ \E label \in {"marking", "succeeding", "failing"} : At(j, label)
    /\ \/ j \notin fresh /\ UNCHANGED faults
       \/ Fault
    /\ Return(j)
    /\ fresh' = fresh \ {j}
    /\ UNCHANGED <<objects, git, pods, outcome, seen>>

-----------------------------------------------------------------------------
(* ReconcileKind, step by step.                                            *)

(* Mutant: a transaction in progress is taken for somebody else's. *)
PendingOnly(t) == phase[t] = "Pending"

(* Neither terminal nor gone. *)
Open(t) == phase[t] \notin Terminal \cup {"Deleted"}

(* The reconciler reads the transaction afresh; unless open, it is left alone. *)
Get(j) ==
    /\ At(j, "idle")
    /\ Open(j[2])
    /\ Goto(j, "marking")
    /\ fresh' = fresh \cup {j}
    /\ UNCHANGED <<objects, git, pods, local, faults, outcome, seen>>

(* Mutant: only the start time is written. *)
StartTimeOnly(t) == phase

InProgress(t) == [phase EXCEPT ![t] = "InProgress"]

(***************************************************************************)
(* Phase InProgress and a StartTime are written before anything else.      *)
(* When the phase is InProgress already and the start time falls in the    *)
(* same second, the write changes nothing and outdates no copy.            *)
(***************************************************************************)
MarkInProgress(j) ==
    /\ At(j, "marking")
    /\ phase' = InProgress(j[2])
    /\ \/ Accepted(j, "preparing", {j})
       \/ /\ j \in fresh
          /\ phase[j[2]] = "InProgress"
          /\ Goto(j, "preparing")
          /\ UNCHANGED <<fresh, local, faults>>
    /\ UNCHANGED <<resultCommit, headCommit, git, pods, outcome, seen>>

(***************************************************************************)
(* The repository cannot be read, its secret cannot be resolved, or no     *)
(* workspace can be acquired: the transaction fails.  The same path is     *)
(* taken when the connection to the Git server breaks before the server    *)
(* has updated anything.                                                   *)
(***************************************************************************)
GiveUp(j) ==
    /\ \E label \in {"preparing", "pushing", "sending"} : At(j, label)
    /\ Goto(j, "failing")
    /\ local' = [local EXCEPT ![j] = NoLocal]
    /\ UNCHANGED <<objects, git, pods, fresh, faults, outcome, seen>>

Heads(r) == {remote[r][b] : b \in Branch}

(* A fresh clone, in memory or on disk, has a local branch only for HEAD. *)
FreshClone(r) ==
    [refs |-> [b \in Branch |-> IF b = DefaultBranch THEN remote[r][b] ELSE NoCommit],
     objs |-> Reachable(Heads(r))]

(***************************************************************************)
(* The cached bare clone after a forced fetch of refs/heads/*: branches    *)
(* follow the remote, those the remote has deleted stay, and so do objects.*)
(***************************************************************************)
FetchedClone(r) ==
    [refs |-> [b \in Branch |-> IF remote[r][b] = NoCommit THEN cache[r].refs[b]
                                                           ELSE remote[r][b]],
     objs |-> cache[r].objs \cup Reachable(Heads(r))]

(***************************************************************************)
(* Manager.Acquire: a clone in memory when caching is off or the cache     *)
(* cannot be used, otherwise the clone on disk.  Within a pod only one job *)
(* at a time has the clone on disk; nothing keeps another pod, on the same *)
(* volume, from fetching into it.  A remote whose HEAD names no branch     *)
(* cannot be cloned, and an empty one cannot be fetched.                   *)
(***************************************************************************)
Locked(j) ==
    \E i \in Job \ {j} : i[1] = j[1] /\ RepoOf(i) = RepoOf(j) /\ local[i].onDisk

Acquire(j) ==
    LET r == RepoOf(j)
        Use(c, disk) ==
            local' = [local EXCEPT ![j] = [local[j] EXCEPT !.clone = c, !.onDisk = disk]]
        OnDisk(c) == /\ r \in CachedRepos
                     /\ cache' = [cache EXCEPT ![r] = c]
                     /\ Use([NoClone EXCEPT !.objs = c.objs], TRUE)
    IN
    /\ At(j, "preparing")
    /\ ~Locked(j)
    /\ \/ /\ remote[r][DefaultBranch] # NoCommit
          /\ \/ cache[r] = NoClone /\ OnDisk(FreshClone(r))
             \/ UNCHANGED cache /\ Use(FreshClone(r), FALSE)
       \/ /\ Heads(r) # {NoCommit}
          /\ cache[r] # NoClone
          /\ OnDisk(FetchedClone(r))
    /\ Goto(j, "pushing")
    /\ UNCHANGED <<objects, remote, sent, pods, fresh, faults, outcome, seen>>

(***************************************************************************)
(* The clone as a job finds it when it uses it.  Refs on disk are read     *)
(* each time, so they are what the last fetch of any process left; the     *)
(* objects are the ones that were there when the clone was opened.         *)
(***************************************************************************)
CloneOf(j) ==
    [local[j].clone EXCEPT !.refs = IF local[j].onDisk THEN cache[RepoOf(j)].refs ELSE @]

(***************************************************************************)
(* How go-git resolves the source of a refspec in the clone: a ref name,   *)
(* or the hash of a commit the clone holds.  A source that is neither      *)
(* yields no command, and no error.                                        *)
(***************************************************************************)
Resolve(clone, source) ==
    IF source \in Branch THEN clone.refs[source]
    ELSE IF source \in clone.objs THEN source ELSE NoCommit

(***************************************************************************)
(* PushContext up to the advertised refs: old is what the server says the  *)
(* destination holds.  No command is sent for a destination that already   *)
(* holds its source, or is to be deleted and is not there.                 *)
(***************************************************************************)
Commands(j) ==
    LET rs == RefSpecs(j[2])
        advertised(i) == remote[RepoOf(j)][rs[i].destination]
        source(i) == Resolve(CloneOf(j), rs[i].source)
    IN {[refSpec |-> i, old |-> advertised(i), new |-> source(i)] :
            i \in {k \in DOMAIN rs : /\ source(k) # advertised(k)
                                     /\ source(k) # NoCommit \/ Deletes(rs[k])}}

(* The refspecs for which nothing has to be sent, and why. *)
Settled(j) ==
    LET rs == RefSpecs(j[2]) IN
    {<<i, Resolve(CloneOf(j), rs[i].source)>> :
        i \in DOMAIN rs \ {c.refSpec : c \in Commands(j)}}

(* PushContext returns without an error. *)
Pushed(j) ==
    /\ Goto(j, "reading")
    /\ local' = [local EXCEPT ![j].commands = {}]

(* Mutant: the error of the push is only logged. *)
IgnoreRejection(j) == Pushed(j)

PushRejected(j) ==
    /\ Goto(j, "failing")
    /\ local' = [local EXCEPT ![j] = NoLocal]

(***************************************************************************)
(* Unless its refspec begins with "+" or deletes, the client refuses an    *)
(* update that would lose history.                                         *)
(***************************************************************************)
(* Mutant: "+source:destination". *)
ForcedRefSpecs(j) == TRUE

Permitted(t, c) == MayLose(RefSpecs(t)[c.refSpec]) \/ FastForward(c.old, c.new)

ForwardOnly(j) == \A c \in Commands(j) : Permitted(j[2], c)

(***************************************************************************)
(* The client side of the push.  One refspec that is not a fast-forward    *)
(* fails the whole push; no command at all is NoErrAlreadyUpToDate, which  *)
(* counts as success.                                                      *)
(***************************************************************************)
NegotiatePush(j) ==
    /\ At(j, "pushing")
    /\ outcome' = [outcome EXCEPT ![j[2]] = @ \cup Settled(j)]
    /\ \/ /\ ~ForwardOnly(j)
          /\ PushRejected(j)
       \/ /\ Commands(j) = {}
          /\ Pushed(j)
       \/ /\ Commands(j) # {}
          /\ ForwardOnly(j)
          /\ Goto(j, "sending")
          /\ local' = [local EXCEPT ![j] = [local[j] EXCEPT !.commands = Commands(j)]]
    /\ UNCHANGED <<objects, git, pods, fresh, faults, seen>>

DestinationOf(j, c) == RefSpecs(j[2])[c.refSpec].destination

(***************************************************************************)
(* The Git server updates a ref only while it still holds the old value    *)
(* the command names; it may refuse any command (a hook, a protected       *)
(* branch).  An atomic push is applied as a whole or not at all.           *)
(***************************************************************************)
Applicable(j, commands, refused) ==
    {c \in commands \ refused : remote[RepoOf(j)][DestinationOf(j, c)] = c.old}

(* Mutant: the option is not passed on. *)
NeverAtomic(j) == FALSE

(* go-git asks for an atomic push only where the server offers it. *)
Atomic(j) == SpecOf(j).atomic /\ RepoOf(j) \in AtomicRepos

Applied(j, commands, refused) ==
    LET applicable == Applicable(j, commands, refused)
    IN IF Atomic(j) /\ applicable # commands THEN {} ELSE applicable

UpdatedRefs(j, applied) ==
    [b \in Branch |->
        IF \E c \in applied : DestinationOf(j, c) = b
        THEN (CHOOSE c \in applied : DestinationOf(j, c) = b).new
        ELSE remote[RepoOf(j)][b]]

(* The server updates the refs. *)
Serve(j, applied) ==
    /\ remote' = [remote EXCEPT ![RepoOf(j)] = UpdatedRefs(j, applied)]
    /\ outcome' = [outcome EXCEPT ![j[2]] = @ \cup {<<c.refSpec, c.new>> : c \in applied}]

(***************************************************************************)
(* The server handles the commands and the client reads the report.  The   *)
(* push fails if any command failed, or if the report never arrives, in    *)
(* which case the refs have moved all the same.                            *)
(***************************************************************************)
SendPush(j) ==
    /\ At(j, "sending")
    /\ \E refused \in SUBSET local[j].commands :
        LET applied == Applied(j, local[j].commands, refused) IN
        /\ Serve(j, applied)
        /\ \/ applied = local[j].commands /\ Pushed(j)
           \/ PushRejected(j)
    /\ UNCHANGED <<objects, cache, sent, pods, fresh, faults, seen>>

RequestOf(j) == [job |-> j, commands |-> local[j].commands]

(***************************************************************************)
(* The client gives up after five minutes; the server may yet handle what  *)
(* it was sent.                                                            *)
(***************************************************************************)
TimeOutPush(j) ==
    /\ At(j, "sending")
    /\ Fault
    /\ PushRejected(j)
    /\ sent' = sent \cup {RequestOf(j)}
    /\ UNCHANGED <<objects, remote, cache, pods, fresh, outcome, seen>>

ServeLate(q) ==
    /\ \E refused \in SUBSET q.commands : Serve(q.job, Applied(q.job, q.commands, refused))
    /\ sent' = sent \ {q}
    /\ UNCHANGED <<objects, cache, control, faults, seen>>

(***************************************************************************)
(* After a push: the hash of the first refspec's source, read from the     *)
(* clone as it is by now.  It is empty when that source, as it stands in   *)
(* the spec, is not the name of a ref in the clone.  Then the workspace is *)
(* released.                                                               *)
(***************************************************************************)
(* Mutants: the refspec's source itself; the destination as it is by now. *)
SourceAsResult(j) == RefSpecs(j[2])[1].source
LaterResult(j) == remote[RepoOf(j)][RefSpecs(j[2])[1].destination]

ResultOf(j) ==
    LET first == RefSpecs(j[2])[1]
    IN IF NamesRef(first) THEN CloneOf(j).refs[first.source] ELSE NoCommit

ReadResult(j) ==
    /\ At(j, "reading")
    /\ Goto(j, "succeeding")
    /\ local' = [local EXCEPT ![j] = [NoLocal EXCEPT !.result = ResultOf(j)]]
    /\ UNCHANGED <<objects, git, pods, fresh, faults, outcome, seen>>

(***************************************************************************)
(* The final status: Succeeded with the result, or Failed.                 *)
(***************************************************************************)
MarkSucceeded(j) ==
    /\ At(j, "succeeding")
    /\ phase' = [phase EXCEPT ![j[2]] = "Succeeded"]
    /\ resultCommit' = [resultCommit EXCEPT ![j[2]] = local[j].result]
    /\ Accepted(j, "listing", {})
    /\ UNCHANGED <<headCommit, git, pods, outcome, seen>>

FailTransaction(j) ==
    /\ At(j, "failing")
    /\ phase' = [phase EXCEPT ![j[2]] = "Failed"]
    /\ Accepted(j, "idle", {})
    /\ UNCHANGED <<resultCommit, headCommit, git, pods, outcome, seen>>

-----------------------------------------------------------------------------
(* updateBranches.                                                         *)

(* The refspecs of the transaction that name the branch of a GitBranch. *)
Matching(j, k) ==
    {i \in DOMAIN RefSpecs(j[2]) :
        /\ CrSpec[k].repositoryRef = RepoOf(j)
        /\ CrSpec[k].branchName = RefSpecs(j[2])[i].destination}

ListBranches(j) ==
    LET matching == {k \in Cr : Matching(j, k) # {}} IN
    /\ At(j, "listing")
    /\ IF matching = {} THEN Return(j)
       ELSE /\ Goto(j, "updating")
            /\ local' = [local EXCEPT ![j] = [local[j] EXCEPT !.todo = matching, !.listed = matching]]
    /\ UNCHANGED <<objects, git, pods, fresh, faults, outcome, seen>>

(* Branches are updated refspec by refspec, in list order within one. *)
NextBranches(j) ==
    {k \in local[j].todo :
        \A other \in local[j].todo : \E i \in Matching(j, k) :
            \A n \in Matching(j, other) : i <= n}

(* Every copy of this GitBranch is outdated, the writer's included. *)
OutdateBranch(loc, k) ==
    [j \in Job |-> [loc[j] EXCEPT !.listed = @ \ {k}]]

(***************************************************************************)
(* The status of one GitBranch is set from Status.ResultCommit, whichever  *)
(* refspec it belongs to.                                                  *)
(***************************************************************************)
UpdateBranch(j, k) ==
    LET rest == local[j].todo \ {k}
        done == IF rest = {} THEN [local EXCEPT ![j] = NoLocal]
                ELSE [local EXCEPT ![j] = [local[j] EXCEPT !.todo = rest, !.listed = @ \ {k}]]
    IN
    /\ At(j, "updating")
    /\ k \in NextBranches(j)
    /\ k \in local[j].listed
    /\ headCommit' = [headCommit EXCEPT ![k] = local[j].result]
    /\ Goto(j, IF rest = {} THEN "idle" ELSE "updating")
    /\ \/ local' = OutdateBranch(done, k)
       \/ headCommit[k] = local[j].result /\ local' = done
    /\ UNCHANGED <<phase, resultCommit, git, pods, fresh, faults, outcome, seen>>

(***************************************************************************)
(* The list fails, or an update is refused or fails: what is left to       *)
(* update is dropped.  The error is logged and ReconcileKind returns nil,  *)
(* so nothing retries it.                                                  *)
(***************************************************************************)
AbandonBranches(j) ==
    /\ \E label \in {"listing", "updating"} : At(j, label)
    /\ Return(j)
    /\ UNCHANGED <<objects, git, pods, fresh, faults, outcome, seen>>

-----------------------------------------------------------------------------
(* Pods, other writers of the API objects, other pushers.                  *)

(* What the pod was pushing may still reach the server. *)
StopJobs(p) ==
    /\ pc' = [j \in Job |-> IF j[1] = p THEN "idle" ELSE pc[j]]
    /\ local' = [j \in Job |-> IF j[1] = p THEN NoLocal ELSE local[j]]
    /\ fresh' = {j \in fresh : j[1] # p}
    /\ sent' = sent \cup {RequestOf(j) : j \in {i \in Job : i[1] = p /\ pc[i] = "sending"}}

(* A pod dies in the middle of its reconciles and is restarted. *)
Crash(p) ==
    /\ p \in pods
    /\ \E j \in Job : j[1] = p /\ pc[j] # "idle"
    /\ Fault
    /\ StopJobs(p)
    /\ UNCHANGED <<objects, remote, cache, pods, outcome, seen>>

(* A rolling update ends: the old pod is stopped, wherever it is. *)
Retire(p) ==
    /\ p \in pods
    /\ pods # {p}
    /\ pods' = pods \ {p}
    /\ StopJobs(p)
    /\ UNCHANGED <<objects, remote, cache, faults, outcome, seen>>

(* A user, or the garbage collection of its GitRepoSync, deletes it. *)
DeleteTxn(t) ==
    /\ phase[t] # "Deleted"
    /\ phase' = [phase EXCEPT ![t] = "Deleted"]
    /\ fresh' = fresh \ JobsOf(t)
    /\ UNCHANGED <<resultCommit, headCommit, git, pods, pc, local, faults, outcome, seen>>

RemoteHead(k) == remote[CrSpec[k].repositoryRef][CrSpec[k].branchName]

(***************************************************************************)
(* The repo watcher mirrors the remote branch into its GitBranch: it asks  *)
(* the remote, and with what it saw then it writes every outdated status.  *)
(***************************************************************************)
WatcherRead(k) ==
    /\ RemoteHead(k) \notin {NoCommit, seen[k]}
    /\ seen' = [seen EXCEPT ![k] = RemoteHead(k)]
    /\ UNCHANGED <<objects, git, control, faults, outcome>>

(* Mutant: only a head that was never set is written. *)
NeverSet(k) == headCommit[k] = NoCommit

Outdated(k) == headCommit[k] # seen[k]

WatcherWrite(k) ==
    /\ seen[k] # NoCommit
    /\ Outdated(k)
    /\ headCommit' = [headCommit EXCEPT ![k] = seen[k]]
    /\ local' = OutdateBranch(local, k)
    /\ UNCHANGED <<phase, resultCommit, git, pods, pc, fresh, seen, faults, outcome>>

(* Somebody else pushes: a fast-forward, or a forced update or deletion. *)
ExternalPush(r, b, c) ==
    /\ c # remote[r][b]
    /\ \/ "forward" \in External /\ c # NoCommit /\ FastForward(remote[r][b], c)
       \/ "force" \in External
    /\ remote' = [remote EXCEPT ![r][b] = c]
    /\ UNCHANGED <<objects, cache, sent, control, faults, outcome, seen>>

-----------------------------------------------------------------------------
Step(j) ==
    \/ Get(j)
    \/ MarkInProgress(j)
    \/ StatusWriteRefused(j)
    \/ GiveUp(j)
    \/ Acquire(j)
    \/ NegotiatePush(j)
    \/ SendPush(j)
    \/ TimeOutPush(j)
    \/ ReadResult(j)
    \/ MarkSucceeded(j)
    \/ FailTransaction(j)
    \/ ListBranches(j)
    \/ \E k \in Cr : UpdateBranch(j, k)
    \/ AbandonBranches(j)

Next ==
    \/ \E j \in Job : Step(j)
    \/ \E q \in sent : ServeLate(q)
    \/ \E p \in Pod : Crash(p) \/ Retire(p)
    \/ \E t \in Txn : DeleteTxn(t)
    \/ \E k \in Cr : WatcherRead(k) \/ WatcherWrite(k)
    \/ \E r \in Repo, b \in Branch, c \in MaybeCommit : ExternalPush(r, b, c)

Spec == Init /\ [][Next]_vars

(***************************************************************************)
(* A job that can go on does (the workqueue retries, the informer resyncs  *)
(* every 30 s, a restarted pod lists everything), a rolling update ends    *)
(* with one pod left, and the watcher polls every repository periodically. *)
(***************************************************************************)
Fairness ==
    /\ \A j \in Job : WF_vars(Step(j))
    /\ WF_vars(\E p \in Pod : Retire(p))
    /\ \A k \in Cr : WF_vars(WatcherRead(k)) /\ WF_vars(WatcherWrite(k))

FairSpec == Spec /\ Fairness

-----------------------------------------------------------------------------
(* Correctness.                                                            *)

TypeOK ==
    /\ phase \in [Txn -> Phase]
    /\ resultCommit \in [Txn -> MaybeCommit]
    /\ headCommit \in [Cr -> MaybeCommit]
    /\ remote \in [Repo -> [Branch -> MaybeCommit]]
    /\ cache \in [Repo -> Clone]
    /\ sent \subseteq Request
    /\ pods \subseteq Pod
    /\ pc \in [Job -> PC]
    /\ fresh \subseteq Job
    /\ local \in [Job -> Local]
    /\ seen \in [Cr -> MaybeCommit]
    /\ faults \in 0 .. MaxFaults
    /\ outcome \in [Txn -> SUBSET (Nat \X MaybeCommit)]

Destination(t, i) == RefSpecs(t)[i].destination

(***************************************************************************)
(* History is never lost: whatever commit a push of any pod put on (or     *)
(* found on) a branch is still part of that branch, however the pods, the  *)
(* retries after a crash and other fast-forward pushers interleave.  About *)
(* executePush: refspecs whose source has no "+" and is not empty,         *)
(* compared by the server with the advertised ref.                         *)
(***************************************************************************)
LandedStays ==
    \A t \in Txn : \A o \in outcome[t] :
        o[2] # NoCommit =>
            InHistory(o[2], remote[TxnSpec[t].repositoryRef][Destination(t, o[1])])

(***************************************************************************)
(* A step of the job, or of the server on behalf of it after it gave up.   *)
(***************************************************************************)
Acts(j) == pc'[j] # pc[j] \/ \E q \in sent \ sent' : q.job = j

(* Some refspec of t asks for the branch to be forced or deleted. *)
Overrides(t, r, b) ==
    /\ r = TxnSpec[t].repositoryRef
    /\ \E i \in DOMAIN RefSpecs(t) : Destination(t, i) = b /\ MayLose(RefSpecs(t)[i])

(***************************************************************************)
(* Even among pushers that force, a step of the controller, or of the      *)
(* server on a push whose client has timed out or died long ago, moves a   *)
(* branch only forward from where it is at that very moment, unless the    *)
(* refspec for this very branch begins with "+" or has no source.          *)
(***************************************************************************)
ControllerMovesForward ==
    \A j \in Job : Acts(j) =>
        \A r \in Repo, b \in Branch :
            remote[r][b] # NoCommit /\ ~Overrides(j[2], r, b) =>
                InHistory(remote[r][b], remote'[r][b])

OnlyFastForwards == [][ControllerMovesForward]_vars

(***************************************************************************)
(* A push of a commit SHA takes effect at most once: once some attempt has *)
(* put that commit on the branch, a retry after a crash, after a timeout   *)
(* or a lost reply, by the other pod, or the late arrival of an attempt    *)
(* that timed out, never moves the branch back to it.                      *)
(***************************************************************************)
LandedKept ==
    \A j \in Job : Acts(j) =>
        \A o \in outcome[j[2]] :
            o[2] \in Commit /\ RefSpecs(j[2])[o[1]].source = o[2] =>
                remote'[RepoOf(j)][Destination(j[2], o[1])]
                    = remote[RepoOf(j)][Destination(j[2], o[1])]

LandsOnce == [][LandedKept]_vars

(***************************************************************************)
(* A terminal transaction keeps its phase and its result, whichever pod    *)
(* was still working on it with an older copy.                             *)
(***************************************************************************)
TerminalKept ==
    \A t \in Txn : phase[t] \in Terminal =>
        /\ phase'[t] \in {phase[t], "Deleted"}
        /\ resultCommit'[t] = resultCommit[t]

TerminalIsFinal == [][TerminalKept]_vars

(***************************************************************************)
(* The claim is written ahead of the effect: no branch is touched for a    *)
(* transaction that still reads as if nobody had started it.               *)
(***************************************************************************)
ClaimedBeforePush ==
    \A t \in Txn : phase[t] = "Pending" => outcome[t] = {}

(***************************************************************************)
(* Succeeded is only recorded when each refspec was dealt with: its source *)
(* was put on, or found on, its destination, or the clone had no such      *)
(* source.                                                                 *)
(***************************************************************************)
SucceededSettled ==
    \A t \in Txn : phase[t] = "Succeeded" =>
        \A i \in DOMAIN RefSpecs(t) : \E c \in MaybeCommit : <<i, c>> \in outcome[t]

(***************************************************************************)
(* Repositories whose clone on disk several pods may use at the same time. *)
(***************************************************************************)
SharedRepos == IF \E p \in Pod : Pod = {p} THEN {} ELSE CachedRepos

(* The push of t dealt with its first refspec with the result c. *)
ResultTold(t, c) ==
    IF NamesRef(RefSpecs(t)[1])
    THEN TxnSpec[t].repositoryRef \notin SharedRepos => <<1, c>> \in outcome[t]
    ELSE c = NoCommit

(***************************************************************************)
(* A recorded result is the commit the push really put on the destination  *)
(* of the first refspec, not one the source moved to in the meantime.      *)
(* Where that source is a ref, an empty result is as good: it says that    *)
(* the clone had no such ref; any other source leaves no result.  Between  *)
(* push.go:125 and push.go:138 the fetch of another pod may move the ref   *)
(* in a clone that pods share, so nothing is promised of the result of a   *)
(* ref there.                                                              *)
(***************************************************************************)
ResultIsLanded ==
    \A t \in Txn : phase[t] = "Succeeded" => ResultTold(t, resultCommit[t])

(***************************************************************************)
(* types.go: "HeadCommit is the SHA of the current HEAD commit on this     *)
(* branch."  updateBranches may have failed, or written an older result    *)
(* over a newer head: as soon as others leave a branch alone, its          *)
(* GitBranch comes to name its head, and goes on to.                       *)
(***************************************************************************)
HeadsComeRight ==
    \A k \in Cr, c \in Commit :
        <>[](RemoteHead(k) = c) => <>[](headCommit[k] = c)

(***************************************************************************)
(* Every transaction reaches a terminal phase (or is deleted).             *)
(***************************************************************************)
EventuallyTerminal ==
    \A t \in Txn : <>(phase[t] \in Terminal \cup {"Deleted"})

(***************************************************************************)
(* The controller keeps what PushPromise promises.                         *)
(***************************************************************************)
Promise == INSTANCE PushPromise WITH result <- resultCommit, landed <- outcome

KeepsPromise == Promise!Spec

(***************************************************************************)
(* README: "Push transactions support compare-and-swap via                 *)
(* expectedOldCommit to prevent race conditions": a push replaces only the *)
(* commit its refspec expects.                                             *)
(***************************************************************************)
ExpectedOldCommitRespected ==
    [][\A j \in Job : Acts(j) => \A i \in DOMAIN RefSpecs(j[2]) :
        LET before == remote[RepoOf(j)][Destination(j[2], i)]
            after  == remote'[RepoOf(j)][Destination(j[2], i)]
        IN after # before =>
            RefSpecs(j[2])[i].expectedOldCommit \in {NoCommit, before}]_vars

(***************************************************************************)
(* types.go: "ResultCommit is the SHA of the resulting commit after a      *)
(* successful push."                                                       *)
(***************************************************************************)
ResultCommitRecorded ==
    \A t \in Txn : phase[t] = "Succeeded" => resultCommit[t] # NoCommit
=============================================================================
