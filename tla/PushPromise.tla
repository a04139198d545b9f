---------------------------- MODULE PushPromise ----------------------------
(***************************************************************************)
(* What the push controller promises of a GitPushTransaction, whatever     *)
(* pods, clones, caches, retries and lost replies there are underneath: it *)
(* is claimed before any branch moves for it; a branch moves forward only, *)
(* unless its refspec begins with "+" or deletes it, and when the push is  *)
(* atomic only in one that leaves no refspec out; the transaction ends     *)
(* once, and as Succeeded only after every refspec was dealt with.         *)
(*                                                                         *)
(* It does not promise that a transaction that has ended, or is gone, no   *)
(* longer moves a branch (a push may reach the server late), nor, where    *)
(* pods share the clone (SharedRepos), which commit of a source ref is     *)
(* recorded as the result.                                                 *)
(***************************************************************************)
EXTENDS CommitGraph, Naturals, Sequences

CONSTANTS Txn, Repo, Branch, TxnSpec, AtomicRepos, SharedRepos, External

VARIABLES
    phase,      \* the phase of each transaction
    result,     \* the commit it is recorded to have pushed
    landed,     \* what became of its refspecs: NoCommit where there was no source
    remote      \* the branches of each repository

vars == <<phase, result, landed, remote>>

RefSpecs(t) == TxnSpec[t].refSpecs

RepoOf(t) == TxnSpec[t].repositoryRef

(* It begins with "+", or has no source: its destination may lose commits. *)
MayLose(rs) == rs.plus \/ rs.source = NoCommit

DealtWith(t, i, outcomes) == \E c \in MaybeCommit : <<i, c>> \in outcomes[t]

Init ==
    /\ phase = [t \in Txn |-> "Pending"]
    /\ result = [t \in Txn |-> NoCommit]
    /\ landed = [t \in Txn |-> {}]
    /\ remote \in [Repo -> [Branch -> MaybeCommit]]

Claim(t) ==
    /\ phase[t] = "Pending"
    /\ phase' = [phase EXCEPT ![t] = "InProgress"]
    /\ UNCHANGED <<result, landed, remote>>

(* Branches of its repository that these refspecs name come to hold these commits. *)
Holds(t, moves) ==
    \A m \in moves : m[2] # NoCommit =>
        remote'[RepoOf(t)][RefSpecs(t)[m[1]].destination] = m[2]

MovesForward(t, moves) ==
    \A r \in Repo, b \in Branch : remote'[r][b] # remote[r][b] =>
        /\ r = RepoOf(t)
        /\ \E m \in moves :
            /\ RefSpecs(t)[m[1]].destination = b
            /\ remote'[r][b] = m[2]
            /\ MayLose(RefSpecs(t)[m[1]]) \/ FastForward(remote[r][b], m[2])

(* Some refspecs are dealt with, during the transaction or after its end. *)
Land(t) ==
    /\ phase[t] # "Pending"
    /\ UNCHANGED <<phase, result>>
    /\ \E moves \in SUBSET ((DOMAIN RefSpecs(t)) \X MaybeCommit) :
        /\ landed' = [landed EXCEPT ![t] = @ \cup moves]
        /\ Holds(t, moves)
        /\ MovesForward(t, moves)
    /\ remote' # remote /\ TxnSpec[t].atomic /\ RepoOf(t) \in AtomicRepos =>
        \A i \in DOMAIN RefSpecs(t) : DealtWith(t, i, landed')

Succeed(t) ==
    /\ phase[t] = "InProgress"
    /\ \A i \in DOMAIN RefSpecs(t) : DealtWith(t, i, landed)
    /\ phase' = [phase EXCEPT ![t] = "Succeeded"]
    /\ \E c \in MaybeCommit :
        /\ IF RefSpecs(t)[1].source \in Branch /\ ~RefSpecs(t)[1].plus
           THEN RepoOf(t) \notin SharedRepos => <<1, c>> \in landed[t]
           ELSE c = NoCommit
        /\ result' = [result EXCEPT ![t] = c]
    /\ UNCHANGED <<landed, remote>>

Fail(t) ==
    /\ phase[t] = "InProgress"
    /\ phase' = [phase EXCEPT ![t] = "Failed"]
    /\ UNCHANGED <<result, landed, remote>>

Delete(t) ==
    /\ phase[t] # "Deleted"
    /\ phase' = [phase EXCEPT ![t] = "Deleted"]
    /\ UNCHANGED <<result, landed, remote>>

(* Somebody else pushes to one branch. *)
OthersPush(r, b, c) ==
    /\ \/ "forward" \in External /\ c # NoCommit /\ FastForward(remote[r][b], c)
       \/ "force" \in External
    /\ remote' = [remote EXCEPT ![r][b] = c]
    /\ UNCHANGED <<phase, result, landed>>

Next ==
    \/ \E t \in Txn : Claim(t) \/ Land(t) \/ Succeed(t) \/ Fail(t) \/ Delete(t)
    \/ \E r \in Repo, b \in Branch, c \in MaybeCommit : OthersPush(r, b, c)

Spec == Init /\ [][Next]_vars
=============================================================================
