---------------------------- MODULE RepoWatcher ----------------------------
(***************************************************************************)
(* The repo watcher (pkg/reconciler/repowatcher): the branches of each Git *)
(* remote are polled and mirrored into GitBranch objects.                  *)
(*                                                                         *)
(* A step is one call to the Git server or to the API server, so that      *)
(* between two of them a second pod of a rolling update polls as well,     *)
(* somebody pushes, the push controller writes a head commit, or a user    *)
(* creates and deletes GitBranches by hand.                                *)
(*                                                                         *)
(* Abstractions.  As in PushController, a resourceVersion is replaced by   *)
(* the set of copies that still carry the stored one (fresh for            *)
(* GitBranches, freshRepo for GitRepositories).  LastFetchTime is compared *)
(* with the clock only; what is kept of it is which repositories are due.  *)
(***************************************************************************)
EXTENDS Naturals, FiniteSets

CONSTANTS
    Pod,        \* pods of the watcher's deployment
    Repo,       \* names of GitRepository objects
    Branch,     \* branch names
    Cr,         \* names of GitBranch objects: numbers, in the order of a list
    NameOf,     \* branchCRDName, which is not injective ("a/b" and "a-b")
    Commit, NoCommit, NoRepo, NoBranch,
    MaxChanges, \* bound on what pushers, users and the push controller do
    MaxFaults   \* bound on failed calls

ASSUME WatcherAssumption ==
    /\ Cr \subseteq Nat
    /\ IsFiniteSet(Cr)
    /\ NameOf \in [Repo \X Branch -> Cr]
    /\ NoCommit \notin Commit
    /\ NoRepo \notin Repo
    /\ MaxChanges \in Nat
    /\ MaxFaults \in Nat

MaybeCommit == Commit \cup {NoCommit}

(***************************************************************************)
(* A GitBranch.  Its owner is the repository whose UID is in its owner     *)
(* references, or NoRepo when it was not created by the watcher.           *)
(***************************************************************************)
GitBranch == [repo : Repo, branch : Branch, head : MaybeCommit, owner : Repo \cup {NoRepo}]

ASSUME NoBranchAssumption == NoBranch \notin GitBranch

MaybeBranch == GitBranch \cup {NoBranch}

VARIABLES
    remote,     \* the branches of each Git remote
    gitBranch,  \* the stored GitBranch objects
    due,        \* repositories whose poll interval has elapsed
    pods,       \* the pods that are running
    pc,         \* where each poll is in ReconcileKind
    local,      \* the local variables of each poll
    fresh,      \* the copies of a GitBranch that are the stored one
    freshRepo,  \* the polls whose copy of the GitRepository is the stored one
    changes, faults,
    past        \* history: the commits each remote branch has had

external == <<remote, past>>
budget   == <<changes, faults>>
vars     == <<external, gitBranch, due, pods, pc, local, fresh, freshRepo, budget>>

-----------------------------------------------------------------------------
(* The workqueue gives a key to one worker of a pod at a time. *)
Job == Pod \X Repo

(***************************************************************************)
(* The snapshot of the remote, the GitBranches listed after it, what is    *)
(* left to write and to delete, and the branch just created (if any).      *)
(***************************************************************************)
Local == [seen : [Branch -> MaybeCommit], copy : [Cr -> MaybeBranch],
          todo : SUBSET Branch, gone : SUBSET Cr, created : SUBSET Branch]

NoLocal == [seen |-> [b \in Branch |-> NoCommit], copy |-> [k \in Cr |-> NoBranch],
            todo |-> {}, gone |-> {}, created |-> {}]

PC == {"idle", "asking", "listing", "writing"}

Init ==
    /\ remote \in [Repo -> [Branch -> MaybeCommit]]
    /\ past = [r \in Repo |-> [b \in Branch |-> {remote[r][b]} \ {NoCommit}]]
    /\ gitBranch = [k \in Cr |-> NoBranch]
    /\ due = Repo
    /\ pods = Pod
    /\ pc = [j \in Job |-> "idle"]
    /\ local = [j \in Job |-> NoLocal]
    /\ fresh = {}
    /\ freshRepo = {}
    /\ changes = 0
    /\ faults = 0

At(j, label) == j[1] \in pods /\ pc[j] = label

Goto(j, label) == pc' = [pc EXCEPT ![j] = label]

CopiesOf(k) == {c \in fresh : c[2] = k}

HeldBy(j) == {c \in fresh : c[1] = j}

(***************************************************************************)
(* ReconcileKind returns: its copies are gone.  After an error, or after   *)
(* the poll interval, the key comes back.                                  *)
(***************************************************************************)
Return(j) ==
    /\ Goto(j, "idle")
    /\ local' = [local EXCEPT ![j] = NoLocal]
    /\ fresh' = fresh \ HeldBy(j)
    /\ freshRepo' = freshRepo \ {j}

-----------------------------------------------------------------------------
(* ReconcileKind, step by step.                                            *)

(* A repository that was fetched less than an interval ago is put off. *)
Get(j) ==
    /\ At(j, "idle")
    /\ j[2] \in due
    /\ Goto(j, "asking")
    /\ freshRepo' = freshRepo \cup {j}
    /\ UNCHANGED <<external, gitBranch, due, pods, local, fresh, budget>>

(***************************************************************************)
(* ls-remote, a snapshot of the remote's branches.  An empty remote is an  *)
(* error; one without branches may still have tags, and then is not empty. *)
(***************************************************************************)
LsRemote(j) ==
    LET refs == remote[j[2]] IN
    /\ At(j, "asking")
    /\ \/ /\ Goto(j, "listing")
          /\ local' = [local EXCEPT ![j].seen = refs]
          /\ UNCHANGED <<fresh, freshRepo>>
       \/ /\ \A b \in Branch : refs[b] = NoCommit
          /\ Return(j)
    /\ UNCHANGED <<external, gitBranch, due, pods, budget>>

(* The GitBranches of a branch, in a list of GitBranches. *)
OfBranch(list, r, b) ==
    {k \in Cr : list[k] # NoBranch /\ list[k].repo = r /\ list[k].branch = b}

(* existingByName: of several GitBranches for one branch the last is kept. *)
LastName(S) == CHOOSE k \in S : \A other \in S : other <= k

ExistingByName(list, r, b) == LastName(OfBranch(list, r, b))

(* Mutant: branches are created only. *)
ToWriteNew(seen, list, r) == {b \in Branch : seen[b] # NoCommit /\ OfBranch(list, r, b) = {}}

(* Branches to create, or to update because the copy has another head. *)
ToWrite(seen, list, r) ==
    {b \in Branch :
        /\ seen[b] # NoCommit
        /\ OfBranch(list, r, b) # {} => list[ExistingByName(list, r, b)].head # seen[b]}

(* Mutant: what to delete is named by its branch. *)
ToDeleteByBranch(seen, list, r) ==
    {b \in Branch : seen[b] = NoCommit /\ OfBranch(list, r, b) # {}}

(* isOwnedBy: only GitBranches the watcher created are deleted. *)
ToDelete(seen, list, r) ==
    {k \in Cr : \E b \in Branch :
        /\ seen[b] = NoCommit
        /\ OfBranch(list, r, b) # {}
        /\ k = ExistingByName(list, r, b)
        /\ list[k].owner = r}

ListBranches(j) ==
    LET seen == local[j].seen
        list == gitBranch
    IN
    /\ At(j, "listing")
    /\ Goto(j, "writing")
    /\ local' = [local EXCEPT ![j] =
            [seen |-> seen, copy |-> list,
             todo |-> ToWrite(seen, list, j[2]),
             gone |-> ToDelete(seen, list, j[2]),
             created |-> {}]]
    /\ fresh' = fresh \cup {<<j, k>> : k \in {n \in Cr : list[n] # NoBranch}}
    /\ UNCHANGED <<external, gitBranch, due, pods, freshRepo, budget>>

Done(j, b) == local' = [local EXCEPT ![j].todo = @ \ {b}, ![j].created = {}]

(* The GitBranches of b a poll has copies of: those listed, or the one it just created. *)
InHand(j, b) ==
    IF b \in local[j].created THEN {NameOf[<<j[2], b>>]}
    ELSE OfBranch(local[j].copy, j[2], b)

(***************************************************************************)
(* Create, with an empty status.  A GitBranch that has this name already,  *)
(* be it of another branch, is left to the next poll.                      *)
(***************************************************************************)
CreateBranch(j, b) ==
    LET r == j[2]
        k == NameOf[<<r, b>>]
        new == [repo |-> r, branch |-> b, head |-> NoCommit, owner |-> r]
    IN
    /\ At(j, "writing")
    /\ local[j].created = {}
    /\ b \in local[j].todo
    /\ InHand(j, b) = {}
    /\ \/ /\ gitBranch[k] = NoBranch
          /\ gitBranch' = [gitBranch EXCEPT ![k] = new]
          /\ fresh' = (fresh \ CopiesOf(k)) \cup {<<j, k>>}
          /\ local' = [local EXCEPT ![j].created = {b}]
       \/ /\ gitBranch[k] # NoBranch
          /\ Done(j, b)
          /\ UNCHANGED <<gitBranch, fresh>>
    /\ UNCHANGED <<external, due, pods, pc, freshRepo, budget>>

(* Mutant: the head commit is patched in by name. *)
ByName(j, k) == gitBranch[k] # NoBranch

(* The copy carries the stored resourceVersion. *)
Current(j, k) == <<j, k>> \in fresh

(***************************************************************************)
(* The head commit of a GitBranch, the one just created first, is written  *)
(* from the snapshot.  A copy that is outdated, or whose object has gone,  *)
(* is refused, which ends this poll.                                       *)
(***************************************************************************)
WriteHead(j, b) ==
    LET k == LastName(InHand(j, b)) IN
    /\ At(j, "writing")
    /\ b \in local[j].todo
    /\ local[j].created \subseteq {b}
    /\ InHand(j, b) # {}
    /\ \/ /\ Current(j, k)
          /\ gitBranch' = [gitBranch EXCEPT ![k].head = local[j].seen[b]]
          /\ fresh' = fresh \ CopiesOf(k)
          /\ Done(j, b)
          /\ UNCHANGED <<pc, freshRepo>>
       \/ /\ ~Current(j, k)
          /\ Return(j)
          /\ UNCHANGED gitBranch
    /\ UNCHANGED <<external, due, pods, budget>>

(* Delete takes a name, whatever has it now; a name nobody has is fine. *)
DeleteBranch(j, k) ==
    /\ At(j, "writing")
    /\ local[j].todo = {}
    /\ k \in local[j].gone
    /\ gitBranch' = [gitBranch EXCEPT ![k] = NoBranch]
    /\ fresh' = fresh \ CopiesOf(k)
    /\ local' = [local EXCEPT ![j].gone = @ \ {k}]
    /\ UNCHANGED <<external, due, pods, pc, freshRepo, budget>>

(***************************************************************************)
(* LastFetchTime is written, unless the copy of the GitRepository is       *)
(* outdated, which is an error.                                            *)
(***************************************************************************)
Finish(j) ==
    /\ At(j, "writing")
    /\ local[j].todo = {}
    /\ local[j].gone = {}
    /\ Goto(j, "idle")
    /\ local' = [local EXCEPT ![j] = NoLocal]
    /\ fresh' = fresh \ HeldBy(j)
    /\ \/ /\ j \in freshRepo
          /\ due' = due \ {j[2]}
          /\ freshRepo' = {i \in freshRepo : i[2] # j[2]}
       \/ /\ j \notin freshRepo
          /\ UNCHANGED <<due, freshRepo>>
    /\ UNCHANGED <<external, gitBranch, pods, budget>>

(* A call fails, or its reply is lost: ReconcileKind returns the error. *)
Fail(j) ==
    /\ j[1] \in pods
    /\ pc[j] # "idle"
    /\ faults < MaxFaults
    /\ faults' = faults + 1
    /\ Return(j)
    /\ UNCHANGED <<external, gitBranch, due, pods, changes>>

-----------------------------------------------------------------------------
(* Time, pods and other actors.                                            *)

(* The poll interval of a repository elapses. *)
Tick(r) ==
    /\ r \notin due
    /\ due' = due \cup {r}
    /\ UNCHANGED <<external, gitBranch, pods, pc, local, fresh, freshRepo, budget>>

(* A rolling update ends: the old pod is stopped, wherever it is. *)
Retire(p) ==
    /\ p \in pods
    /\ pods # {p}
    /\ pods' = pods \ {p}
    /\ pc' = [j \in Job |-> IF j[1] = p THEN "idle" ELSE pc[j]]
    /\ local' = [j \in Job |-> IF j[1] = p THEN NoLocal ELSE local[j]]
    /\ fresh' = {c \in fresh : c[1][1] # p}
    /\ freshRepo' = {j \in freshRepo : j[1] # p}
    /\ UNCHANGED <<external, gitBranch, due, budget>>

Change ==
    /\ changes < MaxChanges
    /\ changes' = changes + 1
    /\ UNCHANGED <<due, pods, pc, local, freshRepo, faults>>

(* Somebody pushes to, creates or deletes a branch of a remote. *)
Push(r, b, c) ==
    /\ Change
    /\ c # remote[r][b]
    /\ remote' = [remote EXCEPT ![r][b] = c]
    /\ past' = [past EXCEPT ![r][b] = @ \cup ({c} \ {NoCommit})]
    /\ UNCHANGED <<gitBranch, fresh>>

(***************************************************************************)
(* The push controller writes a head: the result of a push, which may be   *)
(* empty, older than the head, or of another branch (the result of the     *)
(* first refspec goes to the GitBranches of all).                          *)
(***************************************************************************)
UpdateBranches(k, c) ==
    /\ Change
    /\ gitBranch[k] # NoBranch
    /\ gitBranch' = [gitBranch EXCEPT ![k].head = c]
    /\ fresh' = fresh \ CopiesOf(k)
    /\ UNCHANGED external

(* A user creates a GitBranch under a free name, or deletes one. *)
CreateByHand(k, r, b) ==
    /\ Change
    /\ gitBranch[k] = NoBranch
    /\ gitBranch' = [gitBranch EXCEPT ![k] =
            [repo |-> r, branch |-> b, head |-> NoCommit, owner |-> NoRepo]]
    /\ UNCHANGED <<external, fresh>>

DeleteByHand(k) ==
    /\ Change
    /\ gitBranch[k] # NoBranch
    /\ gitBranch' = [gitBranch EXCEPT ![k] = NoBranch]
    /\ fresh' = fresh \ CopiesOf(k)
    /\ UNCHANGED external

-----------------------------------------------------------------------------
Step(j) ==
    \/ Get(j)
    \/ LsRemote(j)
    \/ ListBranches(j)
    \/ \E b \in Branch : CreateBranch(j, b) \/ WriteHead(j, b)
    \/ \E k \in Cr : DeleteBranch(j, k)
    \/ Finish(j)

Environment ==
    \/ \E r \in Repo, b \in Branch, c \in MaybeCommit : Push(r, b, c)
    \/ \E k \in Cr, c \in MaybeCommit : UpdateBranches(k, c)
    \/ \E k \in Cr, r \in Repo, b \in Branch : CreateByHand(k, r, b)
    \/ \E k \in Cr : DeleteByHand(k)

Next ==
    \/ \E j \in Job : Step(j) \/ Fail(j)
    \/ \E r \in Repo : Tick(r)
    \/ \E p \in Pod : Retire(p)
    \/ Environment

Spec == Init /\ [][Next]_vars

(***************************************************************************)
(* A poll that has begun goes on, a repository that is due is polled (the  *)
(* delayed requeue, the rate-limited retry and the 30 s resync all bring   *)
(* its key back), and time passes.                                         *)
(***************************************************************************)
Fairness ==
    /\ \A j \in Job : WF_vars(Step(j))
    /\ \A r \in Repo : WF_vars(Tick(r))
    /\ WF_vars(\E p \in Pod : Retire(p))

FairSpec == Spec /\ Fairness

-----------------------------------------------------------------------------
(* Correctness.                                                            *)

TypeOK ==
    /\ remote \in [Repo -> [Branch -> MaybeCommit]]
    /\ gitBranch \in [Cr -> MaybeBranch]
    /\ due \subseteq Repo
    /\ pods \subseteq Pod
    /\ pc \in [Job -> PC]
    /\ local \in [Job -> Local]
    /\ fresh \subseteq Job \X Cr
    /\ freshRepo \subseteq Job
    /\ changes \in 0 .. MaxChanges
    /\ faults \in 0 .. MaxFaults
    /\ past \in [Repo -> [Branch -> SUBSET Commit]]

(***************************************************************************)
(* The head a poll writes was once the head of the branch of the GitBranch *)
(* as it is stored at that moment: no interleaving of pods, pushes, users  *)
(* and colliding names, one of them deleted and used again between the     *)
(* list and the write included, makes the watcher give a GitBranch the     *)
(* head of another branch.  (The push controller may: push.go:171-178.)    *)
(***************************************************************************)
HeadsWrittenSeen ==
    \A k \in Cr :
        local' # local /\ gitBranch'[k] \notin {gitBranch[k], NoBranch} =>
            gitBranch'[k].head
                \in past[gitBranch'[k].repo][gitBranch'[k].branch] \cup {NoCommit}

HeadsWereSeen == [][HeadsWrittenSeen]_vars

(***************************************************************************)
(* The GitBranches of a repository mirror its remote: a branch has its     *)
(* head recorded (in the last of its GitBranches, should users have added  *)
(* some), unless its name is taken, and one that has gone has no GitBranch *)
(* of the watcher's.                                                       *)
(***************************************************************************)
Mirrors(r, b) ==
    LET mine == OfBranch(gitBranch, r, b)
        last == gitBranch[LastName(mine)]
    IN IF remote[r][b] # NoCommit
       THEN IF mine = {} THEN gitBranch[NameOf[<<r, b>>]] # NoBranch
                         ELSE last.head = remote[r][b]
       ELSE mine # {} => last.owner # r

Mirrored ==
    \A r \in Repo :
        (\E b \in Branch : remote[r][b] # NoCommit) => \A b \in Branch : Mirrors(r, b)

(***************************************************************************)
(* README: the watcher "mirrors branch state into GitBranch resources".    *)
(* Once pushers and users are quiet and calls succeed, it comes to that    *)
(* and stays that way, whatever stale snapshots and outdated copies were   *)
(* under way.                                                              *)
(***************************************************************************)
EventuallyMirrors == <>[]Mirrored
=============================================================================
