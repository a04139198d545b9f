------------------------------ MODULE RepoSync ------------------------------
(***************************************************************************)
(* The sync controller (pkg/reconciler/sync) and the conflict resolver     *)
(* (pkg/reconciler/resolver) at work on one GitRepoSync: one keeps         *)
(* comparing the recorded heads of a branch in two repositories, the other *)
(* takes over when they have diverged, and both do so by creating          *)
(* GitPushTransactions and writing the status of the same object.          *)
(*                                                                         *)
(* A step is one call to the API server or one use of a clone.  The 30 s   *)
(* resync, the requeue after an error and the update events can put the    *)
(* object back in either workqueue at any time, so an idle job may always  *)
(* start; a job is a pod of one of the two controllers.  As in             *)
(* PushController, fresh replaces the resourceVersion of the GitRepoSync.  *)
(*                                                                         *)
(* What these controllers are surrounded by is kept small: a transaction   *)
(* is carried out in a step (PushController has the details), the watcher  *)
(* mirrors a branch in a step (RepoWatcher has the details), and other     *)
(* pushers only move branches forward.                                     *)
(***************************************************************************)
EXTENDS CommitGraph, Naturals, FiniteSets

CONSTANTS
    SyncPod,        \* pods of the sync controller
    ResolverPod,    \* pods of the resolver
    MergeCommit,    \* the commits the resolver makes, which are in no remote
    Start,          \* the branch in each remote to begin with: its values
    Elsewhere,      \* the commits on the other branches of each remote
    MaxChanges,     \* bound on what other pushers do
    MaxFaults       \* bound on failed calls

Side == {"A", "B"}

ASSUME SyncAssumption ==
    /\ SyncPod \cap ResolverPod = {}
    /\ MergeCommit \subseteq Commit
    /\ Start \subseteq [Side -> Commit \ MergeCommit]
    /\ Elsewhere \in [Side -> SUBSET (Commit \ MergeCommit)]
    /\ \A s \in Side : UNION {Anc[c] : c \in Elsewhere[s]} \subseteq Elsewhere[s]
    /\ MaxChanges \in Nat
    /\ MaxFaults \in Nat

VARIABLES
    status,     \* the stored status of the GitRepoSync
    exists,     \* the sides whose GitBranch exists
    head,       \* the head commit recorded in each of the two GitBranches
    remote,     \* the branch in each of the two remotes
    txns,       \* the GitPushTransactions of this GitRepoSync
    pc,         \* where each job is in its ReconcileKind
    local,      \* the local variables of each job
    fresh,      \* the jobs whose copy of the GitRepoSync is the stored one
    changes, faults

world  == <<exists, head, remote, changes>>
vars   == <<status, world, txns, pc, local, fresh, faults>>

-----------------------------------------------------------------------------
Job == SyncPod \cup ResolverPod

SyncPhase == {"", "InSync", "Syncing", "Conflicted", "RequiresManualIntervention"}

Status == [phase : SyncPhase, a : MaybeCommit, b : MaybeCommit, base : MaybeCommit]

NoStatus == [phase |-> "", a |-> NoCommit, b |-> NoCommit, base |-> NoCommit]

(***************************************************************************)
(* A GitPushTransaction of one refspec.  Transactions that are equal in    *)
(* all of this are not told apart.                                         *)
(***************************************************************************)
Transaction == [target : Side, source : Commit, expected : MaybeCommit,
                phase : {"Pending", "Succeeded", "Failed"}]

(* Mutant: one transaction per commit is thought to be enough. *)
CreateOnce(target, source, expected) ==
    txns' = IF \E t \in txns : t.source = source THEN txns
            ELSE txns \cup {[target |-> target, source |-> source, expected |-> expected,
                             phase |-> "Pending"]}

Create(target, source, expected) ==
    txns' = txns \cup {[target |-> target, source |-> source, expected |-> expected,
                        phase |-> "Pending"]}

PC == {"idle", "findingA", "findingB", "comparing", "creating", "writing",
       "resolving", "creatingA", "creatingB"}

(* The status to be written (or being resolved), and the merge commit. *)
Local == [new : Status, merge : MaybeCommit]

NoLocal == [new |-> NoStatus, merge |-> NoCommit]

Init ==
    /\ status = NoStatus
    /\ exists = {}
    /\ remote \in Start
    /\ head = [s \in Side |-> NoCommit]
    /\ txns = {}
    /\ pc = [j \in Job |-> "idle"]
    /\ local = [j \in Job |-> NoLocal]
    /\ fresh = {}
    /\ changes = 0
    /\ faults = 0

Goto(j, label) == pc' = [pc EXCEPT ![j] = label]

Return(j) ==
    /\ Goto(j, "idle")
    /\ local' = [local EXCEPT ![j] = NoLocal]

(* The job goes on to write this status. *)
Conclude(j, phase, a, b, base) ==
    /\ Goto(j, "writing")
    /\ local' = [local EXCEPT ![j].new = [phase |-> phase, a |-> a, b |-> b, base |-> base]]

(* What a clone of a repository holds: the history of all its branches. *)
CloneOf(s) == Reachable({remote[s]}) \cup Elsewhere[s]

(***************************************************************************)
(* MergeBase: the common ancestors no other common ancestor contains.      *)
(***************************************************************************)
MergeBases(a, b) ==
    LET common == Anc[a] \cap Anc[b]
    IN {c \in common : \A d \in common : c \in Anc[d] => d = c}

-----------------------------------------------------------------------------
(* The sync controller.                                                    *)

(* Mutant: what requires manual intervention is left to the user. *)
SyncGetUnlessManual(j) ==
    /\ j \in SyncPod
    /\ pc[j] = "idle"
    /\ status.phase # "RequiresManualIntervention"
    /\ Goto(j, "findingA")
    /\ fresh' = fresh \cup {j}
    /\ UNCHANGED <<status, world, txns, local, faults>>

SyncGet(j) ==
    /\ j \in SyncPod
    /\ pc[j] = "idle"
    /\ Goto(j, "findingA")
    /\ fresh' = fresh \cup {j}
    /\ UNCHANGED <<status, world, txns, local, faults>>

(* findBranch lists the GitBranches for each side anew. *)
FindBranchA(j) ==
    /\ pc[j] = "findingA"
    /\ \/ /\ "A" \in exists
          /\ Goto(j, "findingB")
          /\ local' = [local EXCEPT ![j].new.a = head["A"]]
       \/ /\ "A" \notin exists
          /\ Conclude(j, "Conflicted", NoCommit, NoCommit, NoCommit)
    /\ UNCHANGED <<status, world, txns, fresh, faults>>

FindBranchB(j) ==
    LET a == local[j].new.a
        b == head["B"]
    IN
    /\ pc[j] = "findingB"
    /\ \/ /\ "B" \notin exists
          /\ Conclude(j, "Conflicted", NoCommit, NoCommit, NoCommit)
       \/ /\ "B" \in exists
          /\ a = b
          /\ Conclude(j, "InSync", a, b, a)
       \/ /\ "B" \in exists
          /\ a # b
          /\ Goto(j, "comparing")
          /\ local' = [local EXCEPT ![j].new.b = b]
    /\ UNCHANGED <<status, world, txns, fresh, faults>>

(* A branch that cannot be listed counts as one that is not there. *)
ListFails(j) ==
    /\ pc[j] \in {"findingA", "findingB"}
    /\ faults < MaxFaults
    /\ faults' = faults + 1
    /\ Conclude(j, "Conflicted", NoCommit, NoCommit, NoCommit)
    /\ UNCHANGED <<status, world, txns, fresh>>

(* Mutant: only B is thought to get ahead. *)
OnlyAIsBehind(base, a, b) == base = a

(* One of the commits is the merge base: its side is behind. *)
OneIsBehind(base, a, b) == base \in {a, b}

(***************************************************************************)
(* calculateMergeBase, in a clone of repository A.  Without both commits   *)
(* in that clone, or without a clone, the repositories count as            *)
(* conflicted, with no merge base.                                         *)
(***************************************************************************)
CompareCommits(j) ==
    LET a == local[j].new.a
        b == local[j].new.b
    IN
    /\ pc[j] = "comparing"
    /\ \/ Conclude(j, "Conflicted", a, b, NoCommit)
       \/ /\ {a, b} \subseteq CloneOf("A")
          /\ \E base \in MergeBases(a, b) :
                IF OneIsBehind(base, a, b)
                THEN /\ Goto(j, "creating")
                     /\ local' = [local EXCEPT ![j].new = [phase |-> "Syncing", a |-> a, b |-> b,
                                                          base |-> base]]
                ELSE Conclude(j, "Conflicted", a, b, base)
    /\ UNCHANGED <<status, world, txns, fresh, faults>>

(* Mutant: the side that is ahead is pushed to. *)
SideAhead(new) == IF new.base = new.a THEN "B" ELSE "A"

SideBehind(new) == IF new.base = new.a THEN "A" ELSE "B"

(* The side that is behind is to be pushed the commit of the other one. *)
CreatePushTransaction(j) ==
    LET new == local[j].new IN
    /\ pc[j] = "creating"
    /\ IF SideBehind(new) = "A" THEN Create("A", new.b, new.a) ELSE Create("B", new.a, new.b)
    /\ Goto(j, "writing")
    /\ UNCHANGED <<status, world, local, fresh, faults>>

-----------------------------------------------------------------------------
(* UpdateStatus, which ends a ReconcileKind of either controller.          *)

(* Mutant: the status is written without a resourceVersion. *)
BlindWrite(j) == TRUE

Current(j) == j \in fresh

(***************************************************************************)
(* The write is accepted for the stored copy only.  One that changes       *)
(* nothing (LastSyncTime has a resolution of a second) outdates no copy.   *)
(***************************************************************************)
UpdateStatus(j) ==
    /\ pc[j] = "writing"
    /\ Return(j)
    /\ \/ /\ Current(j)
          /\ status' = local[j].new
          /\ \/ fresh' = {}
             \/ status' = status /\ fresh' = fresh \ {j}
       \/ /\ ~Current(j)
          /\ fresh' = fresh \ {j}
          /\ UNCHANGED status
    /\ UNCHANGED <<world, txns, faults>>

-----------------------------------------------------------------------------
(* The resolver.                                                           *)

(* Only a GitRepoSync that is still conflicted is taken up. *)
ResolverGet(j) ==
    /\ j \in ResolverPod
    /\ pc[j] = "idle"
    /\ status.phase = "Conflicted"
    /\ Goto(j, "resolving")
    /\ local' = [local EXCEPT ![j].new = status]
    /\ fresh' = fresh \cup {j}
    /\ UNCHANGED <<status, world, txns, faults>>

(* Mutant: a merge commit that could not be stored is pushed all the same. *)
MergesUnstored(a, b) == {NoCommit}

(* The commits that merge a and b; they differ in their time. *)
Merges(a, b) == {m \in MergeCommit : Anc[m] = {m} \cup Anc[a] \cup Anc[b]}

(***************************************************************************)
(* Without all three commits in the status no merge is attempted.          *)
(* attemptMerge needs them in a clone of repository A; it may also fail,   *)
(* because a file was changed on both sides or for other reasons.  In each *)
(* of these cases manual intervention is required.                         *)
(***************************************************************************)
AttemptMerge(j) ==
    LET new == local[j].new
        commits == {new.a, new.b, new.base}
    IN
    /\ pc[j] = "resolving"
    /\ \/ Conclude(j, "RequiresManualIntervention", new.a, new.b, new.base)
       \/ /\ NoCommit \notin commits
          /\ commits \subseteq CloneOf("A")
          /\ \E m \in Merges(new.a, new.b) :
                local' = [local EXCEPT ![j].merge = m]
          /\ Goto(j, "creatingA")
    /\ UNCHANGED <<status, world, txns, fresh, faults>>

CreateMergePushA(j) ==
    /\ pc[j] = "creatingA"
    /\ Create("A", local[j].merge, local[j].new.a)
    /\ Goto(j, "creatingB")
    /\ UNCHANGED <<status, world, local, fresh, faults>>

CreateMergePushB(j) ==
    /\ pc[j] = "creatingB"
    /\ Create("B", local[j].merge, local[j].new.b)
    /\ Goto(j, "writing")
    /\ local' = [local EXCEPT ![j].new.phase = "Syncing"]
    /\ UNCHANGED <<status, world, fresh, faults>>

(***************************************************************************)
(* A call fails, its reply is lost, or the pod dies.  What was created     *)
(* stays, and the whole ReconcileKind is done again.                       *)
(***************************************************************************)
Fail(j) ==
    /\ pc[j] # "idle"
    /\ faults < MaxFaults
    /\ faults' = faults + 1
    /\ Return(j)
    /\ fresh' = fresh \ {j}
    /\ UNCHANGED <<status, world, txns>>

-----------------------------------------------------------------------------
(* The push controller, the watcher and other pushers.                     *)

Becomes(t, phase) == txns' = (txns \ {t}) \cup {[t EXCEPT !.phase = phase]}

(***************************************************************************)
(* A transaction is carried out in a clone of its target.  A source that   *)
(* is not in there yields no command, which counts as success; a push that *)
(* is not a fast-forward, or that is refused, fails.  After a success      *)
(* updateBranches records an empty head, the result of pushing a SHA,      *)
(* unless that write is refused.                                           *)
(***************************************************************************)
PushTransaction(t) ==
    LET found == t.source \in CloneOf(t.target) IN
    /\ t.phase = "Pending"
    /\ \/ /\ IF found
             THEN /\ FastForward(remote[t.target], t.source)
                  /\ remote' = [remote EXCEPT ![t.target] = t.source]
             ELSE UNCHANGED remote
          /\ Becomes(t, "Succeeded")
          /\ \/ t.target \in exists /\ head' = [head EXCEPT ![t.target] = NoCommit]
             \/ UNCHANGED head
       \/ Becomes(t, "Failed") /\ UNCHANGED <<remote, head>>
    /\ UNCHANGED <<status, exists, changes, pc, local, fresh, faults>>

Watch(s) ==
    /\ s \notin exists \/ head[s] # remote[s]
    /\ exists' = exists \cup {s}
    /\ head' = [head EXCEPT ![s] = remote[s]]
    /\ UNCHANGED <<status, remote, changes, txns, pc, local, fresh, faults>>

ExternalPush(s, c) ==
    /\ changes < MaxChanges
    /\ c # remote[s]
    /\ c \notin MergeCommit
    /\ FastForward(remote[s], c)
    /\ remote' = [remote EXCEPT ![s] = c]
    /\ changes' = changes + 1
    /\ UNCHANGED <<status, exists, head, txns, pc, local, fresh, faults>>

-----------------------------------------------------------------------------
SyncStep(j) ==
    \/ SyncGet(j)
    \/ FindBranchA(j)
    \/ FindBranchB(j)
    \/ CompareCommits(j)
    \/ CreatePushTransaction(j)
    \/ UpdateStatus(j)

ResolverStep(j) ==
    \/ ResolverGet(j)
    \/ AttemptMerge(j)
    \/ CreateMergePushA(j)
    \/ CreateMergePushB(j)
    \/ UpdateStatus(j)

Next ==
    \/ \E j \in SyncPod : SyncStep(j)
    \/ \E j \in ResolverPod : ResolverStep(j)
    \/ \E j \in SyncPod : ListFails(j)
    \/ \E j \in Job : Fail(j)
    \/ \E t \in txns : PushTransaction(t)
    \/ \E s \in Side : Watch(s)
    \/ \E s \in Side, c \in Commit : ExternalPush(s, c)

Spec == Init /\ [][Next]_vars

(***************************************************************************)
(* The workqueues of both controllers go on (30 s resync, requeue after an *)
(* error), and so does the watcher, which polls.                           *)
(***************************************************************************)
Fairness ==
    /\ \A j \in SyncPod : WF_vars(SyncStep(j))
    /\ \A j \in ResolverPod : WF_vars(ResolverStep(j))
    /\ \A s \in Side : WF_vars(Watch(s))

FairSpec == Spec /\ Fairness

-----------------------------------------------------------------------------
(* Correctness.                                                            *)

TypeOK ==
    /\ status \in Status
    /\ exists \subseteq Side
    /\ head \in [Side -> MaybeCommit]
    /\ remote \in [Side -> MaybeCommit]
    /\ txns \subseteq Transaction
    /\ pc \in [Job -> PC]
    /\ local \in [Job -> Local]
    /\ fresh \subseteq Job
    /\ changes \in 0 .. MaxChanges
    /\ faults \in 0 .. MaxFaults

(***************************************************************************)
(* A transaction asks for a fast-forward from the commit it expects, even  *)
(* when the heads it was computed from are long out of date: the push      *)
(* controller, which does not look at the expected commit, can lose        *)
(* nothing that was known then.                                            *)
(***************************************************************************)
TransactionsGoForward ==
    \A t \in txns : t.expected # NoCommit /\ FastForward(t.expected, t.source)

(* There is a transaction that pushes source to target. *)
Asked(target, source, expected) ==
    \E t \in txns : t.target = target /\ t.source = source /\ t.expected = expected

(***************************************************************************)
(* Syncing is backed by transactions: one that brings the side behind to   *)
(* the other's commit, or a merge of both that was asked of both sides.    *)
(* Neither a failure between two calls nor the other controller's writes   *)
(* leave a GitRepoSync waiting for pushes nobody has asked for.            *)
(***************************************************************************)
SyncingIsBacked ==
    LET a == status.a
        b == status.b
    IN status.phase = "Syncing" =>
        \/ status.base = a /\ Asked("A", b, a)
        \/ status.base = b /\ Asked("B", a, b)
        \/ \E m \in MergeCommit : Asked("A", m, a) /\ Asked("B", m, b)

(***************************************************************************)
(* A conflict with a merge base is one: neither commit contains the other, *)
(* so that the resolver never merges what a push would have brought in     *)
(* sync.                                                                   *)
(***************************************************************************)
ConflictsHaveDiverged ==
    status.phase = "Conflicted" /\ status.base # NoCommit =>
        /\ ~FastForward(status.a, status.b)
        /\ ~FastForward(status.b, status.a)

(***************************************************************************)
(* The resolver concludes a conflict as it stands: its write replaces      *)
(* Conflicted with the very commits it has worked on, never a status the   *)
(* sync controller has written in the meantime.                            *)
(***************************************************************************)
ConcludesConflict ==
    status' # status => \A j \in ResolverPod : pc[j] = "writing" /\ pc'[j] = "idle" =>
        status = [local[j].new EXCEPT !.phase = "Conflicted"]

ResolvesWhatItRead == [][ConcludesConflict]_vars

(***************************************************************************)
(* The two controllers together keep SyncPromise: stored statuses are      *)
(* evident, and a conflict is given up or merged only as it was stored,    *)
(* although each of them reads, compares, creates and writes in separate   *)
(* calls, next to the other, and may fail between any two.                 *)
(***************************************************************************)
Promise == INSTANCE SyncPromise

KeepsSyncPromise == Promise!Spec

(***************************************************************************)
(* When the two GitBranches agree for good, the GitRepoSync ends up        *)
(* InSync, whatever the resolver was still doing.                          *)
(***************************************************************************)
HeadsAgree == exists = Side /\ head["A"] = head["B"]

AgreementIsNoticed == <>[]HeadsAgree => <>[](status.phase = "InSync")

(***************************************************************************)
(* README: "Syncing --> InSync : push succeeds".  A transaction that has   *)
(* succeeded has brought its commit to its target (branches only move      *)
(* forward here).                                                          *)
(***************************************************************************)
SucceededPushLands ==
    \A t \in txns : t.phase = "Succeeded" => InHistory(t.source, remote[t.target])
=============================================================================
