------------------------ MODULE PushControllerProofs ------------------------
(***************************************************************************)
(* Proofs about PushController, for every value of its constants.          *)
(***************************************************************************)
EXTENDS PushController, TLAPS

-----------------------------------------------------------------------------
(* Lemmas about the operators the actions are built from.                  *)

(***************************************************************************)
(* A job is a pair of a pod and a transaction, and knows its repository.   *)
(***************************************************************************)
LEMMA JobType ==
    ASSUME NEW j \in Job
    PROVE  /\ j[1] \in Pod
           /\ j[2] \in Txn
           /\ RepoOf(j) \in Repo
           /\ RefSpecs(j[2]) \in Seq(RefSpec)
           /\ Len(RefSpecs(j[2])) > 0
BY PushAssumption DEF Job, RepoOf, SpecOf, RefSpecs

(***************************************************************************)
(* Fresh and fetched clones are clones, on disk too.                       *)
(***************************************************************************)
LEMMA CloneType ==
    ASSUME TypeOK, NEW r \in Repo
    PROVE  /\ FreshClone(r) \in Clone
           /\ FetchedClone(r) \in Clone
           /\ NoClone \in Clone
           /\ \A c \in Clone : [NoClone EXCEPT !.objs = c.objs] \in Clone
<1>1. Reachable(Heads(r)) \in SUBSET Commit
  BY CommitGraphAssumption DEF TypeOK, Reachable, Heads, MaybeCommit
<1>2. NoClone \in Clone
  BY DEF Clone, MaybeCommit, NoClone
<1>3. \A c \in Clone : [NoClone EXCEPT !.objs = c.objs] \in Clone
  BY DEF Clone, MaybeCommit, NoClone
<1>4. FreshClone(r) \in Clone
  BY <1>1 DEF TypeOK, FreshClone, Clone, MaybeCommit
<1>5. FetchedClone(r) \in Clone
  BY <1>1 DEF TypeOK, FetchedClone, Clone, MaybeCommit
<1> QED
  BY <1>2, <1>3, <1>4, <1>5

LEMMA CloneOfType ==
    ASSUME TypeOK, NEW j \in Job
    PROVE  CloneOf(j) \in Clone
<1>1. local[j].clone \in Clone /\ cache[RepoOf(j)].refs \in [Branch -> MaybeCommit]
  BY JobType DEF TypeOK, Local, Clone
<1> QED
  BY <1>1 DEF CloneOf, Clone

(***************************************************************************)
(* What a source resolves to is a commit or nothing.                       *)
(***************************************************************************)
LEMMA ResolveType ==
    ASSUME NEW clone \in Clone, NEW source \in Commit \cup Branch \cup {NoCommit}
    PROVE  Resolve(clone, source) \in MaybeCommit
BY DEF Resolve, Clone, MaybeCommit

(* What the source of a refspec names, when the job looks it up. *)
SourceOf(j, i) == Resolve(CloneOf(j), RefSpecs(j[2])[i].source)

LEMMA SourceType ==
    ASSUME TypeOK, NEW j \in Job, NEW i \in DOMAIN RefSpecs(j[2])
    PROVE  /\ i \in Nat
           /\ RefSpecs(j[2])[i] \in RefSpec
           /\ SourceOf(j, i) \in MaybeCommit
<1>1. RefSpecs(j[2])[i] \in RefSpec /\ i \in Nat
  BY JobType
<1> QED
  BY <1>1, CloneOfType, ResolveType DEF SourceOf, RefSpec

LEMMA CommandsType ==
    ASSUME TypeOK, NEW j \in Job
    PROVE  /\ Commands(j) \in SUBSET Command
           /\ Settled(j) \in SUBSET (Nat \X MaybeCommit)
           /\ ResultOf(j) \in MaybeCommit
<1> DEFINE rs == RefSpecs(j[2])
<1>1. \A i \in DOMAIN rs : /\ i \in Nat
                           /\ Resolve(CloneOf(j), rs[i].source) \in MaybeCommit
                           /\ remote[RepoOf(j)][rs[i].destination] \in MaybeCommit
  BY JobType, SourceType DEF TypeOK, RefSpec, SourceOf
<1>2. Commands(j) \in SUBSET Command
  BY <1>1 DEF Commands, Command
<1>3. Settled(j) \in SUBSET (Nat \X MaybeCommit)
  BY <1>1 DEF Settled
<1>4. ResultOf(j) \in MaybeCommit
  BY CloneOfType DEF ResultOf, NamesRef, Clone, MaybeCommit
<1> QED
  BY <1>2, <1>3, <1>4

LEMMA LocalType ==
    /\ NoLocal \in Local
    /\ \A loc \in Local, c \in Clone, d \in BOOLEAN :
            [loc EXCEPT !.clone = c, !.onDisk = d] \in Local
    /\ \A loc \in Local, c \in SUBSET Command : [loc EXCEPT !.commands = c] \in Local
    /\ \A loc \in Local, c \in MaybeCommit : [loc EXCEPT !.result = c] \in Local
    /\ \A loc \in Local, S, T \in SUBSET Cr : [loc EXCEPT !.todo = S, !.listed = T] \in Local
    /\ \A loc \in Local, S \in SUBSET Cr, k \in Cr :
            [loc EXCEPT !.todo = S, !.listed = @ \ {k}] \in Local
    /\ \A loc \in Local, k \in Cr : [loc EXCEPT !.listed = @ \ {k}] \in Local
<1>1. NoClone \in Clone
  BY DEF NoClone, Clone, MaybeCommit
<1>2. NoLocal \in Local
  BY <1>1 DEF NoLocal, Local, MaybeCommit
<1> QED
  BY <1>2 DEF Local

LEMMA OutdateType ==
    ASSUME NEW loc \in [Job -> Local], NEW k \in Cr
    PROVE  OutdateBranch(loc, k) \in [Job -> Local]
<1>1. \A j \in Job : [loc[j] EXCEPT !.listed = @ \ {k}] \in Local
  BY LocalType
<1> QED
  BY <1>1 DEF OutdateBranch

-----------------------------------------------------------------------------
(* Type correctness.                                                       *)

LEMMA SetLocal ==
    ASSUME TypeOK, NEW j \in Job, NEW loc \in Local
    PROVE  [local EXCEPT ![j] = loc] \in [Job -> Local]
BY DEF TypeOK

LEMMA ReturnType ==
    ASSUME TypeOK, NEW j \in Job, Return(j)
    PROVE  pc' \in [Job -> PC] /\ local' \in [Job -> Local]
BY LocalType DEF TypeOK, Return, Goto, PC

LEMMA AcceptedType ==
    ASSUME TypeOK, NEW j \in Job, NEW label \in PC, NEW copies \in SUBSET {j},
           Accepted(j, label, copies)
    PROVE  /\ pc' \in [Job -> PC]
           /\ local' \in [Job -> Local]
           /\ fresh' \subseteq Job
           /\ faults' \in 0 .. MaxFaults
<1>1. CASE /\ Goto(j, label)
           /\ fresh' = (fresh \ JobsOf(j[2])) \cup copies
           /\ UNCHANGED <<local, faults>>
  BY <1>1 DEF TypeOK, Goto
<1>2. CASE /\ Fault
           /\ Return(j)
           /\ fresh' = fresh \ JobsOf(j[2])
  BY PushAssumption, <1>2, ReturnType DEF TypeOK, Fault
<1> QED
  BY <1>1, <1>2 DEF Accepted

(***************************************************************************)
(* Acquire gives the job a clone, in memory or on disk.                    *)
(***************************************************************************)
LEMMA AcquireEffect ==
    ASSUME TypeOK, NEW j \in Job, Acquire(j)
    PROVE  /\ \E c \in Clone, d \in BOOLEAN :
                local' = [local EXCEPT ![j] = [local[j] EXCEPT !.clone = c, !.onDisk = d]]
           /\ \E c \in Clone :
                \/ cache' = cache
                \/ RepoOf(j) \in CachedRepos /\ cache' = [cache EXCEPT ![RepoOf(j)] = c]
BY CloneType, JobType DEF Acquire

(***************************************************************************)
(* The server, when it handles commands of a job that still waits or of    *)
(* one that has given up.                                                  *)
(***************************************************************************)
Handles(j, commands) ==
    \E refused \in SUBSET commands : Serve(j, Applied(j, commands, refused))

LEMMA WhoHandles ==
    /\ \A j \in Job : SendPush(j) => Handles(j, local[j].commands)
    /\ \A q \in sent : ServeLate(q) => Handles(q.job, q.commands)
BY DEF SendPush, ServeLate, Handles

LEMMA HandlesType ==
    ASSUME TypeOK, NEW j \in Job, NEW commands \in SUBSET Command, Handles(j, commands)
    PROVE  /\ remote' \in [Repo -> [Branch -> MaybeCommit]]
           /\ outcome' \in [Txn -> SUBSET (Nat \X MaybeCommit)]
<1>1. PICK refused \in SUBSET commands : Serve(j, Applied(j, commands, refused))
  BY DEF Handles
<1> DEFINE applied == Applied(j, commands, refused)
<1>2. applied \in SUBSET Command
  BY DEF Applied, Applicable
<1>3. UpdatedRefs(j, applied) \in [Branch -> MaybeCommit]
  BY <1>2, JobType DEF UpdatedRefs, Command, MaybeCommit, TypeOK
<1>4. {<<c.refSpec, c.new>> : c \in applied} \in SUBSET (Nat \X MaybeCommit)
  BY <1>2 DEF Command, MaybeCommit
<1> QED
  BY <1>1, <1>3, <1>4, JobType DEF Serve, TypeOK

LEMMA RequestType ==
    ASSUME TypeOK
    PROVE  /\ \A j \in Job : RequestOf(j) \in Request /\ local[j].commands \in SUBSET Command
           /\ \A q \in sent : q.job \in Job /\ q.commands \in SUBSET Command
BY DEF TypeOK, Local, Request, RequestOf

LEMMA StepType ==
    ASSUME TypeOK, NEW j \in Job, Step(j)
    PROVE  TypeOK'
<1> USE JobType
<1>1. CASE Get(j)
  BY <1>1 DEF Get, Goto, TypeOK, PC, objects, git
<1>2. CASE MarkInProgress(j)
  <2>1. pc' \in [Job -> PC] /\ local' \in [Job -> Local] /\ fresh' \subseteq Job
        /\ faults' \in 0 .. MaxFaults
    <3>1. CASE Accepted(j, "preparing", {j})
      BY <3>1, AcceptedType DEF PC
    <3>2. CASE ~Accepted(j, "preparing", {j})
      BY <1>2, <3>2 DEF MarkInProgress, Goto, TypeOK, PC
    <3> QED
      BY <3>1, <3>2
  <2> QED
    BY <1>2, <2>1 DEF MarkInProgress, InProgress, TypeOK, Phase, git
<1>3. CASE StatusWriteRefused(j)
  BY <1>3, PushAssumption, ReturnType DEF StatusWriteRefused, Fault, TypeOK, objects, git
<1>4. CASE GiveUp(j)
  BY <1>4, LocalType DEF GiveUp, Goto, TypeOK, PC, objects, git
<1>5. CASE Acquire(j)
  <2>1. PICK c \in Clone, d \in BOOLEAN :
            local' = [local EXCEPT ![j] = [local[j] EXCEPT !.clone = c, !.onDisk = d]]
    BY <1>5, AcquireEffect
  <2>2. cache' \in [Repo -> Clone]
    <3>1. cache \in [Repo -> Clone] /\ RepoOf(j) \in Repo
      BY DEF TypeOK
    <3>2. \E c2 \in Clone : cache' = cache \/ cache' = [cache EXCEPT ![RepoOf(j)] = c2]
      BY <1>5, AcquireEffect
    <3> QED
      BY <3>1, <3>2
  <2>3. [local[j] EXCEPT !.clone = c, !.onDisk = d] \in Local
    BY LocalType DEF TypeOK
  <2>4. local' \in [Job -> Local]
    BY <2>1, <2>3 DEF TypeOK
  <2> QED
    BY <1>5, <2>2, <2>4 DEF Acquire, Goto, TypeOK, PC, objects
<1>6. ASSUME Pushed(j) \/ PushRejected(j)
      PROVE  pc' \in [Job -> PC] /\ local' \in [Job -> Local]
  <2>1. NoLocal \in Local /\ [local[j] EXCEPT !.commands = {}] \in Local
    BY LocalType DEF TypeOK
  <2>2. \/ local' = [local EXCEPT ![j] = [local[j] EXCEPT !.commands = {}]]
        \/ local' = [local EXCEPT ![j] = NoLocal]
    BY <1>6 DEF Pushed, PushRejected
  <2>3. local' \in [Job -> Local]
    BY <2>1, <2>2, SetLocal
  <2>4. pc' \in [Job -> PC]
    BY <1>6 DEF Pushed, PushRejected, Goto, TypeOK, PC
  <2> QED
    BY <2>3, <2>4
<1>7. CASE NegotiatePush(j)
  <2>1. outcome' \in [Txn -> SUBSET (Nat \X MaybeCommit)]
    BY <1>7, CommandsType DEF NegotiatePush, TypeOK
  <2>2. pc' \in [Job -> PC] /\ local' \in [Job -> Local]
    <3>1. CASE Pushed(j) \/ PushRejected(j)
      BY <3>1, <1>6
    <3>2. CASE /\ Goto(j, "sending")
               /\ local' = [local EXCEPT ![j] = [local[j] EXCEPT !.commands = Commands(j)]]
      <4>1. [local[j] EXCEPT !.commands = Commands(j)] \in Local
        BY LocalType, CommandsType DEF TypeOK
      <4> QED
        BY <3>2, <4>1 DEF Goto, TypeOK, PC
    <3> QED
      BY <1>7, <3>1, <3>2 DEF NegotiatePush
  <2> QED
    BY <1>7, <2>1, <2>2 DEF NegotiatePush, TypeOK, objects, git
<1>8. CASE SendPush(j)
  <2>1. Handles(j, local[j].commands) /\ local[j].commands \in SUBSET Command
    BY <1>8, WhoHandles, RequestType
  <2>2. Pushed(j) \/ PushRejected(j)
    BY <1>8 DEF SendPush
  <2> QED
    BY <1>6, <1>8, <2>1, <2>2, HandlesType DEF SendPush, TypeOK, objects
<1>14. CASE TimeOutPush(j)
  BY <1>6, <1>14, RequestType, PushAssumption DEF TimeOutPush, Fault, TypeOK, objects
<1>15. CASE ReadResult(j)
  <2>1. [NoLocal EXCEPT !.result = ResultOf(j)] \in Local
    BY LocalType, CommandsType
  <2>2. local' \in [Job -> Local]
    BY <1>15, <2>1, SetLocal DEF ReadResult
  <2> QED
    BY <1>15, <2>2 DEF ReadResult, Goto, TypeOK, PC, objects, git
<1>9. CASE MarkSucceeded(j)
  BY <1>9, AcceptedType DEF MarkSucceeded, TypeOK, Phase, PC, Local, git
<1>10. CASE FailTransaction(j)
  BY <1>10, AcceptedType DEF FailTransaction, TypeOK, Phase, PC, git
<1>11. CASE ListBranches(j)
  <2> DEFINE matching == {k \in Cr : Matching(j, k) # {}}
  <2>1. CASE Return(j)
    BY <1>11, <2>1, ReturnType DEF ListBranches, TypeOK, objects, git
  <2>2. CASE /\ Goto(j, "updating")
             /\ local' = [local EXCEPT ![j] = [local[j] EXCEPT !.todo = matching, !.listed = matching]]
    <3>1. [local[j] EXCEPT !.todo = matching, !.listed = matching] \in Local
      BY LocalType DEF TypeOK
    <3> QED
      BY <1>11, <2>2, <3>1 DEF ListBranches, Goto, TypeOK, PC, objects, git
  <2> QED
    BY <1>11, <2>1, <2>2 DEF ListBranches
<1>12. ASSUME NEW k \in Cr, UpdateBranch(j, k)
       PROVE  TypeOK'
  <2> DEFINE rest == local[j].todo \ {k}
             next == [local[j] EXCEPT !.todo = rest, !.listed = @ \ {k}]
  <2>1. local[j] \in Local /\ rest \in SUBSET Cr
    BY DEF TypeOK, Local
  <2>2. next \in Local /\ NoLocal \in Local
    BY <2>1, LocalType
  <2> DEFINE left == IF rest = {} THEN [local EXCEPT ![j] = NoLocal]
                     ELSE [local EXCEPT ![j] = next]
  <2>3. left \in [Job -> Local]
    BY <2>2, SetLocal
  <2>4. local' \in [Job -> Local]
    <3>1. local' = OutdateBranch(left, k) \/ local' = left
      BY <1>12 DEF UpdateBranch
    <3>2. OutdateBranch(left, k) \in [Job -> Local]
      BY <2>3, OutdateType
    <3>3. CASE local' = left
      BY <2>3, <3>3
    <3>4. CASE local' = OutdateBranch(left, k)
      BY <3>2, <3>4
    <3> QED
      BY <3>1, <3>3, <3>4
  <2>5. pc' \in [Job -> PC]
    BY <1>12 DEF UpdateBranch, Goto, TypeOK, PC
  <2>6. local[j].result \in MaybeCommit
    BY <2>1 DEF Local
  <2> QED
    BY <1>12, <2>4, <2>5, <2>6 DEF UpdateBranch, TypeOK, git
<1>13. CASE AbandonBranches(j)
  BY <1>13, ReturnType DEF AbandonBranches, TypeOK, objects, git
<1> QED
  BY <1>1, <1>2, <1>3, <1>4, <1>5, <1>7, <1>8, <1>9, <1>10, <1>11, <1>12, <1>13, <1>14,
     <1>15 DEF Step

(***************************************************************************)
(* TypeOK holds for any pods, transactions, repositories and history.      *)
(***************************************************************************)
LEMMA InitType == Init => TypeOK
<1>1. NoLocal \in Local
  BY LocalType
<1>2. NoClone \in Clone
  BY DEF NoClone, Clone, MaybeCommit
<1> QED
  BY <1>1, <1>2, PushAssumption DEF Init, TypeOK, Phase, PC, MaybeCommit

LEMMA NextType == TypeOK /\ [Next]_vars => TypeOK'
<1> SUFFICES ASSUME TypeOK, [Next]_vars
             PROVE  TypeOK'
  OBVIOUS
<1>1. ASSUME NEW j \in Job, Step(j)
      PROVE  TypeOK'
  BY <1>1, StepType
<1>2. ASSUME NEW p \in Pod, StopJobs(p)
      PROVE  /\ pc' \in [Job -> PC]
             /\ local' \in [Job -> Local]
             /\ fresh' \subseteq Job
             /\ sent' \subseteq Request
  BY <1>2, LocalType, RequestType DEF StopJobs, TypeOK, PC
<1>3. ASSUME NEW p \in Pod, Crash(p)
      PROVE  TypeOK'
  BY <1>2, <1>3, PushAssumption DEF Crash, Fault, TypeOK, objects, git
<1>4. ASSUME NEW p \in Pod, Retire(p)
      PROVE  TypeOK'
  BY <1>2, <1>4 DEF Retire, TypeOK, objects, git
<1>5. ASSUME NEW t \in Txn, DeleteTxn(t)
      PROVE  TypeOK'
  BY <1>5 DEF DeleteTxn, TypeOK, Phase, git
<1>6. ASSUME NEW k \in Cr, WatcherWrite(k)
      PROVE  TypeOK'
  <2>1. local' \in [Job -> Local]
    BY <1>6, OutdateType DEF WatcherWrite, TypeOK
  <2> QED
    BY <1>6, <2>1 DEF WatcherWrite, TypeOK, git
<1>7. ASSUME NEW r \in Repo, NEW b \in Branch, NEW c \in MaybeCommit, ExternalPush(r, b, c)
      PROVE  TypeOK'
  BY <1>7 DEF ExternalPush, TypeOK, objects, control
<1>10. ASSUME NEW k \in Cr, WatcherRead(k)
      PROVE  TypeOK'
  <2>1. RemoteHead(k) \in MaybeCommit
    BY PushAssumption DEF TypeOK, RemoteHead
  <2> QED
    BY <1>10, <2>1 DEF WatcherRead, TypeOK, objects, git, control
<1>8. CASE UNCHANGED vars
  BY <1>8 DEF vars, objects, git, control, TypeOK
<1>9. ASSUME NEW q \in sent, ServeLate(q)
      PROVE  TypeOK'
  BY <1>9, WhoHandles, RequestType, HandlesType DEF ServeLate, TypeOK, objects, control
<1> QED
  BY <1>1, <1>3, <1>4, <1>5, <1>6, <1>7, <1>8, <1>9, <1>10 DEF Next

THEOREM TypeCorrect == Spec => []TypeOK
BY InitType, NextType, PTL DEF Spec

-----------------------------------------------------------------------------
(* The inductive invariant.                                                *)

Writing == {"marking", "preparing", "pushing", "sending", "reading", "succeeding", "failing"}

Claimed == Writing \ {"marking"}

(***************************************************************************)
(* A copy that may still be written is a copy of an open transaction, and  *)
(* a job that works on a push has claimed it.                              *)
(***************************************************************************)
ClaimInv ==
    /\ \A j \in fresh : /\ pc[j] \in Writing
                        /\ phase[j[2]] \in {"Pending", "InProgress"}
    /\ \A j \in Job : pc[j] \in Claimed => phase[j[2]] # "Pending"
    /\ ClaimedBeforePush

(* So had a job whose push is still on its way. *)
SentInv == \A q \in sent : phase[q.job[2]] # "Pending"

(***************************************************************************)
(* The commands on their way to the server: one per refspec, each a        *)
(* fast-forward of the ref the server advertised, unless the refspec may   *)
(* lose commits; and the SHA itself where the source is one.               *)
(***************************************************************************)
Sendable(j, commands) ==
    \A c \in commands :
        /\ c.refSpec \in DOMAIN RefSpecs(j[2])
        /\ Permitted(j[2], c)
        /\ c.new = NoCommit => Deletes(RefSpecs(j[2])[c.refSpec])
        /\ RefSpecs(j[2])[c.refSpec].source \in {c.new} \cup Branch
        /\ \A d \in commands : c.refSpec = d.refSpec => c = d

CommandInv ==
    /\ \A j \in Job : Sendable(j, local[j].commands)
    /\ \A q \in sent : Sendable(q.job, q.commands)
    /\ \A t \in Txn : \A o \in outcome[t] : o[1] \in DOMAIN RefSpecs(t)

(***************************************************************************)
(* Each refspec of a push is settled already or still on its way; a push   *)
(* that is over has settled all of them.                                   *)
(***************************************************************************)
DealtWith(t, i) == \E c \in MaybeCommit : <<i, c>> \in outcome[t]

AllSettled(t) == \A i \in DOMAIN RefSpecs(t) : DealtWith(t, i)

SendingSettles(j) ==
    pc[j] = "sending" => \A i \in DOMAIN RefSpecs(j[2]) :
        DealtWith(j[2], i) \/ \E c \in local[j].commands : c.refSpec = i

EndedSettled(j) == pc[j] \in {"reading", "succeeding"} => AllSettled(j[2])

SettledInv ==
    /\ \A j \in Job : SendingSettles(j) /\ EndedSettled(j)
    /\ SucceededSettled

(***************************************************************************)
(* Where no other pod fetches into the clone, the first refspec was dealt  *)
(* with as the commit its source still names, or is on its way as that:    *)
(* that is what the job then reads as the result, if the source is a ref.  *)
(***************************************************************************)
SendingNames(j) ==
    pc[j] = "sending" /\ RepoOf(j) \notin SharedRepos =>
        \/ <<1, SourceOf(j, 1)>> \in outcome[j[2]]
        \/ \E c \in local[j].commands : c.refSpec = 1 /\ c.new = SourceOf(j, 1)

ReadingNames(j) ==
    pc[j] = "reading" /\ RepoOf(j) \notin SharedRepos =>
        <<1, SourceOf(j, 1)>> \in outcome[j[2]]

SucceedingTells(j) == pc[j] = "succeeding" => ResultTold(j[2], local[j].result)

ResultInv ==
    /\ \A j \in Job : SendingNames(j) /\ ReadingNames(j) /\ SucceedingTells(j)
    /\ ResultIsLanded

-----------------------------------------------------------------------------
(* Claims: nothing touches a transaction nobody has claimed, or one that   *)
(* is over.                                                                *)

LEMMA AcceptedEffect ==
    ASSUME NEW j \in Job, NEW label, NEW copies, Accepted(j, label, copies)
    PROVE  /\ j \in fresh
           /\ \/ /\ pc' = [pc EXCEPT ![j] = label]
                 /\ fresh' = (fresh \ JobsOf(j[2])) \cup copies
              \/ /\ pc' = [pc EXCEPT ![j] = "idle"]
                 /\ fresh' = fresh \ JobsOf(j[2])
BY DEF Accepted, Current, Goto, Return

LEMMA PushEndEffect ==
    ASSUME NEW j \in Job, Pushed(j) \/ PushRejected(j)
    PROVE  \E label \in {"reading", "failing"} : pc' = [pc EXCEPT ![j] = label]
BY DEF Pushed, PushRejected, Goto

(***************************************************************************)
(* A step of a job keeps the claims.                                       *)
(***************************************************************************)
LEMMA StepClaims ==
    ASSUME TypeOK, ClaimInv, NEW j \in Job, Step(j)
    PROVE  ClaimInv'
<1> USE JobType DEF Writing, Claimed
<1> SUFFICES /\ \A i \in fresh' : /\ pc'[i] \in Writing
                                  /\ phase'[i[2]] \in {"Pending", "InProgress"}
             /\ \A i \in Job : pc'[i] \in Claimed => phase'[i[2]] # "Pending"
             /\ \A t \in Txn : phase'[t] = "Pending" => outcome'[t] = {}
  BY DEF ClaimInv, ClaimedBeforePush
<1>0. /\ pc \in [Job -> PC] /\ phase \in [Txn -> Phase] /\ fresh \subseteq Job
      /\ outcome \in [Txn -> SUBSET (Nat \X MaybeCommit)]
  BY DEF TypeOK
<1>1. CASE Get(j)
  <2>1. phase[j[2]] \in {"Pending", "InProgress"}
    BY <1>0, <1>1 DEF Get, Open, Phase, Terminal
  <2> QED
    BY <1>0, <1>1, <2>1 DEF Get, Goto, ClaimInv, ClaimedBeforePush, objects
<1>2. CASE MarkInProgress(j)
  <2>1. /\ j \in fresh
        /\ phase' = [phase EXCEPT ![j[2]] = "InProgress"]
        /\ \/ pc' = [pc EXCEPT ![j] = "preparing"] /\ fresh' \subseteq fresh
           \/ pc' = [pc EXCEPT ![j] = "idle"] /\ fresh' \subseteq fresh \ {j}
    BY <1>2, AcceptedEffect DEF MarkInProgress, InProgress, Current, Goto, JobsOf
  <2>2. \A i \in Job : phase'[i[2]] \in {phase[i[2]], "InProgress"}
    BY <1>0, <2>1
  <2>3. \A i \in fresh' : /\ pc'[i] \in Writing
                          /\ phase'[i[2]] \in {"Pending", "InProgress"}
    BY <1>0, <2>1, <2>2 DEF ClaimInv
  <2>4. \A i \in Job : pc'[i] \in Claimed => phase'[i[2]] # "Pending"
    BY <1>0, <2>1, <2>2 DEF ClaimInv
  <2>5. \A t \in Txn : phase'[t] = "Pending" => outcome'[t] = {}
    BY <1>0, <1>2, <2>1 DEF MarkInProgress, ClaimInv, ClaimedBeforePush
  <2> QED
    BY <2>3, <2>4, <2>5
<1>3. CASE StatusWriteRefused(j)
  BY <1>0, <1>3 DEF StatusWriteRefused, Return, Goto, ClaimInv, ClaimedBeforePush, objects
<1>4. CASE GiveUp(j)
  BY <1>0, <1>4 DEF GiveUp, At, Goto, ClaimInv, ClaimedBeforePush, objects
<1>5. CASE Acquire(j)
  BY <1>0, <1>5 DEF Acquire, At, Goto, ClaimInv, ClaimedBeforePush, objects
<1>6. ASSUME NEW label \in Claimed, pc[j] \in Claimed,
             pc' = [pc EXCEPT ![j] = label], UNCHANGED <<phase, fresh>>,
             \A t \in Txn : t # j[2] => outcome'[t] = outcome[t]
      PROVE  ClaimInv'
  <2>1. \A i \in fresh' : /\ pc'[i] \in Writing
                          /\ phase'[i[2]] \in {"Pending", "InProgress"}
    BY <1>0, <1>6 DEF ClaimInv
  <2>2. \A i \in Job : pc'[i] \in Claimed => phase'[i[2]] # "Pending"
    BY <1>0, <1>6 DEF ClaimInv
  <2>3. phase[j[2]] # "Pending"
    BY <1>6 DEF ClaimInv
  <2>4. \A t \in Txn : phase'[t] = "Pending" => outcome'[t] = {}
    BY <1>6, <2>3 DEF ClaimInv, ClaimedBeforePush
  <2> QED
    BY <2>1, <2>2, <2>4 DEF ClaimInv, ClaimedBeforePush
<1>7. CASE NegotiatePush(j)
  <2>1. \E label \in Claimed : pc' = [pc EXCEPT ![j] = label]
    BY <1>7, PushEndEffect DEF NegotiatePush, Goto
  <2>2. \A t \in Txn : t # j[2] => outcome'[t] = outcome[t]
    BY <1>0, <1>7 DEF NegotiatePush
  <2> QED
    BY <1>6, <1>7, <2>1, <2>2 DEF NegotiatePush, At, objects, ClaimInv, ClaimedBeforePush
<1>8. CASE SendPush(j)
  <2>1. \E label \in Claimed : pc' = [pc EXCEPT ![j] = label]
    BY <1>8, PushEndEffect DEF SendPush
  <2>2. \A t \in Txn : t # j[2] => outcome'[t] = outcome[t]
    BY <1>0, <1>8 DEF SendPush, Serve
  <2> QED
    BY <1>6, <1>8, <2>1, <2>2 DEF SendPush, At, objects, ClaimInv, ClaimedBeforePush
<1>16. CASE TimeOutPush(j)
  <2>1. \E label \in Claimed : pc' = [pc EXCEPT ![j] = label]
    BY <1>16, PushEndEffect DEF TimeOutPush
  <2> QED
    BY <1>6, <1>16, <2>1 DEF TimeOutPush, At, objects, ClaimInv, ClaimedBeforePush
<1>17. CASE ReadResult(j)
  BY <1>6, <1>17 DEF ReadResult, At, Goto, objects, ClaimInv, ClaimedBeforePush
<1>9. ASSUME NEW label, Accepted(j, label, {}), label \notin Writing,
             NEW final \in Terminal, phase' = [phase EXCEPT ![j[2]] = final],
             outcome' = outcome
      PROVE  ClaimInv'
  <2>1. /\ pc' = [pc EXCEPT ![j] = label] \/ pc' = [pc EXCEPT ![j] = "idle"]
        /\ fresh' = fresh \ JobsOf(j[2])
    BY <1>9, AcceptedEffect
  <2> QED
    BY <1>0, <1>9, <2>1 DEF ClaimInv, ClaimedBeforePush, JobsOf, Terminal
<1>10. CASE MarkSucceeded(j)
  BY <1>9, <1>10 DEF MarkSucceeded, Terminal, ClaimInv, ClaimedBeforePush
<1>11. CASE FailTransaction(j)
  BY <1>9, <1>11 DEF FailTransaction, Terminal, ClaimInv, ClaimedBeforePush
<1>12. ASSUME pc[j] \in {"listing", "updating"}, UNCHANGED <<phase, fresh, outcome>>,
              NEW label \in {"idle", "updating"}, pc' = [pc EXCEPT ![j] = label]
       PROVE  ClaimInv'
  BY <1>0, <1>12 DEF ClaimInv, ClaimedBeforePush
<1>13. CASE ListBranches(j)
  <2>1. \E label \in {"idle", "updating"} : pc' = [pc EXCEPT ![j] = label]
    BY <1>13 DEF ListBranches, Return, Goto
  <2> QED
    BY <1>12, <1>13, <2>1 DEF ListBranches, At, objects, ClaimInv, ClaimedBeforePush
<1>14. ASSUME NEW k \in Cr, UpdateBranch(j, k)
       PROVE  ClaimInv'
  <2>1. \E label \in {"idle", "updating"} : pc' = [pc EXCEPT ![j] = label]
    BY <1>14 DEF UpdateBranch, Goto
  <2> QED
    BY <1>12, <1>14, <2>1 DEF UpdateBranch, At
<1>15. CASE AbandonBranches(j)
  BY <1>12, <1>15 DEF AbandonBranches, At, Return, Goto, objects, ClaimInv, ClaimedBeforePush
<1> QED
  BY <1>1, <1>2, <1>3, <1>4, <1>5, <1>7, <1>8, <1>10, <1>11, <1>13, <1>14, <1>15, <1>16,
     <1>17 DEF Step, ClaimInv, ClaimedBeforePush

LEMMA NextClaims == TypeOK /\ ClaimInv /\ SentInv /\ [Next]_vars => ClaimInv'
<1> SUFFICES ASSUME TypeOK, ClaimInv, SentInv, [Next]_vars
             PROVE  ClaimInv'
  OBVIOUS
<1> USE JobType DEF Writing, Claimed
<1>0. /\ pc \in [Job -> PC] /\ phase \in [Txn -> Phase] /\ fresh \subseteq Job
      /\ outcome \in [Txn -> SUBSET (Nat \X MaybeCommit)]
  BY DEF TypeOK
<1>1. ASSUME NEW j \in Job, Step(j)
      PROVE  ClaimInv'
  BY <1>1, StepClaims
<1>2. ASSUME NEW p \in Pod, StopJobs(p), UNCHANGED <<phase, outcome>>
      PROVE  ClaimInv'
  BY <1>0, <1>2 DEF StopJobs, ClaimInv, ClaimedBeforePush
<1>3. ASSUME NEW p \in Pod, Crash(p) \/ Retire(p)
      PROVE  ClaimInv'
  BY <1>2, <1>3 DEF Crash, Retire, objects
<1>4. ASSUME NEW t \in Txn, DeleteTxn(t)
      PROVE  ClaimInv'
  BY <1>0, <1>4 DEF DeleteTxn, JobsOf, ClaimInv, ClaimedBeforePush
<1>5. ASSUME UNCHANGED <<phase, pc, fresh, outcome>>
      PROVE  ClaimInv'
  BY <1>5 DEF ClaimInv, ClaimedBeforePush
<1>6. ASSUME NEW k \in Cr, WatcherWrite(k)
      PROVE  ClaimInv'
  BY <1>5, <1>6 DEF WatcherWrite
<1>7. ASSUME NEW r \in Repo, NEW b \in Branch, NEW c \in MaybeCommit, ExternalPush(r, b, c)
      PROVE  ClaimInv'
  BY <1>5, <1>7 DEF ExternalPush, objects, control
<1>10. ASSUME NEW k \in Cr, WatcherRead(k)
      PROVE  ClaimInv'
  BY <1>5, <1>10 DEF WatcherRead, objects, control
<1>8. CASE UNCHANGED vars
  BY <1>5, <1>8 DEF vars, objects, git, control
<1>9. ASSUME NEW q \in sent, ServeLate(q)
      PROVE  ClaimInv'
  <2>1. phase[q.job[2]] # "Pending" /\ q.job[2] \in Txn
    BY <1>9, RequestType DEF SentInv
  <2>2. \A t \in Txn : t # q.job[2] => outcome'[t] = outcome[t]
    BY <1>0, <1>9 DEF ServeLate, Serve
  <2> QED
    BY <1>9, <2>1, <2>2 DEF ServeLate, ClaimInv, ClaimedBeforePush, objects, control
<1> QED
  BY <1>1, <1>3, <1>4, <1>6, <1>7, <1>8, <1>9, <1>10 DEF Next

(***************************************************************************)
(* No step takes a claim back.                                             *)
(***************************************************************************)
LEMMA ClaimsStay ==
    ASSUME TypeOK, [Next]_vars, NEW t \in Txn, phase'[t] = "Pending"
    PROVE  phase[t] = "Pending"
<1>1. ASSUME NEW j \in Job, Step(j)
      PROVE  phase[t] = "Pending"
  <2>1. CASE MarkInProgress(j) \/ MarkSucceeded(j) \/ FailTransaction(j)
    BY <2>1 DEF MarkInProgress, InProgress, MarkSucceeded, FailTransaction, TypeOK
  <2>2. CASE ~(MarkInProgress(j) \/ MarkSucceeded(j) \/ FailTransaction(j))
    BY <1>1, <2>2 DEF Step, Get, StatusWriteRefused, GiveUp, ReadResult, Acquire, NegotiatePush,
       SendPush, TimeOutPush, ListBranches, UpdateBranch, AbandonBranches, objects
  <2> QED
    BY <2>1, <2>2
<1>2. CASE ~ \E j \in Job : Step(j)
  BY <1>2 DEF Next, ServeLate, Crash, Retire, DeleteTxn, WatcherRead, WatcherWrite, ExternalPush,
     objects, vars, TypeOK
<1> QED
  BY <1>1, <1>2

(***************************************************************************)
(* A request comes from a job that was sending.                            *)
(***************************************************************************)
LEMMA NewRequests ==
    ASSUME TypeOK, [Next]_vars, NEW q \in sent', q \notin sent
    PROVE  \E j \in Job : pc[j] = "sending" /\ q = RequestOf(j)
<1>1. ASSUME NEW j \in Job, Step(j)
      PROVE  \E i \in Job : pc[i] = "sending" /\ q = RequestOf(i)
  <2>1. CASE TimeOutPush(j)
    BY <2>1 DEF TimeOutPush, At
  <2>2. CASE ~TimeOutPush(j)
    BY <1>1, <2>2 DEF Step, Get, MarkInProgress, StatusWriteRefused, GiveUp, ReadResult, Acquire,
       NegotiatePush, SendPush, MarkSucceeded, FailTransaction, ListBranches, UpdateBranch,
       AbandonBranches, git
  <2> QED
    BY <2>1, <2>2
<1>2. ASSUME NEW p \in Pod, Crash(p) \/ Retire(p)
      PROVE  \E i \in Job : pc[i] = "sending" /\ q = RequestOf(i)
  BY <1>2 DEF Crash, Retire, StopJobs
<1>3. CASE /\ ~ \E j \in Job : Step(j)
           /\ ~ \E p \in Pod : Crash(p) \/ Retire(p)
  BY <1>3 DEF Next, ServeLate, DeleteTxn, WatcherRead, WatcherWrite, ExternalPush, git, vars
<1> QED
  BY <1>1, <1>2, <1>3

LEMMA NextSent == TypeOK /\ ClaimInv /\ SentInv /\ [Next]_vars => SentInv'
<1> SUFFICES ASSUME TypeOK, ClaimInv, SentInv, [Next]_vars, NEW q \in sent'
             PROVE  phase'[q.job[2]] # "Pending"
  BY DEF SentInv
<1>1. phase[q.job[2]] # "Pending" /\ q.job[2] \in Txn
  <2>1. CASE q \in sent
    BY <2>1, RequestType, JobType DEF SentInv
  <2>2. CASE q \notin sent
    BY <2>2, NewRequests, JobType DEF RequestOf, ClaimInv, Claimed, Writing
  <2> QED
    BY <2>1, <2>2
<1> QED
  BY <1>1, ClaimsStay

LEMMA InitClaims == Init => ClaimInv /\ SentInv
BY DEF Init, ClaimInv, SentInv, ClaimedBeforePush, Claimed, Writing

LEMMA AlwaysClaims == Spec => [](TypeOK /\ ClaimInv /\ SentInv)
BY InitType, NextType, InitClaims, NextClaims, NextSent, PTL DEF Spec

(***************************************************************************)
(* The claim is on the stored object before any branch moves for it.       *)
(***************************************************************************)
THEOREM ClaimedFirst == Spec => []ClaimedBeforePush
<1>1. ClaimInv => ClaimedBeforePush
  BY DEF ClaimInv
<1> QED
  BY <1>1, AlwaysClaims, PTL

(***************************************************************************)
(* Only the holder of a current copy writes a status, and a current copy   *)
(* is a copy of an open transaction: terminal phases are final.            *)
(***************************************************************************)
LEMMA NextKeepsTerminal == TypeOK /\ ClaimInv /\ [Next]_vars => [TerminalKept]_vars
<1> SUFFICES ASSUME TypeOK, ClaimInv, [Next]_vars
             PROVE  TerminalKept
  OBVIOUS
<1>0. phase \in [Txn -> Phase] /\ resultCommit \in [Txn -> MaybeCommit] /\ fresh \subseteq Job
  BY DEF TypeOK
<1>1. ASSUME NEW j \in Job, j \in fresh,
             \A t \in Txn : t # j[2] =>
                phase'[t] = phase[t] /\ resultCommit'[t] = resultCommit[t]
      PROVE  TerminalKept
  BY <1>1 DEF ClaimInv, TerminalKept, Terminal
<1>2. ASSUME UNCHANGED <<phase, resultCommit>>
      PROVE  TerminalKept
  BY <1>2 DEF TerminalKept
<1>3. ASSUME NEW j \in Job, MarkInProgress(j) \/ MarkSucceeded(j) \/ FailTransaction(j)
      PROVE  TerminalKept
  <2>1. j \in fresh
    BY <1>3 DEF MarkInProgress, MarkSucceeded, FailTransaction, Accepted, Current
  <2>2. \A t \in Txn : t # j[2] => phase'[t] = phase[t] /\ resultCommit'[t] = resultCommit[t]
    BY <1>0, <1>3 DEF MarkInProgress, InProgress, MarkSucceeded, FailTransaction
  <2> QED
    BY <1>1, <2>1, <2>2
<1>4. ASSUME NEW j \in Job, Step(j)
      PROVE  TerminalKept
  <2>1. CASE MarkInProgress(j) \/ MarkSucceeded(j) \/ FailTransaction(j)
    BY <1>3, <2>1
  <2>2. CASE ~(MarkInProgress(j) \/ MarkSucceeded(j) \/ FailTransaction(j))
    BY <1>2, <1>4, <2>2 DEF Step, Get, StatusWriteRefused, GiveUp, ReadResult, Acquire, NegotiatePush,
       SendPush, TimeOutPush, ListBranches, UpdateBranch, AbandonBranches, objects
  <2> QED
    BY <2>1, <2>2
<1>5. ASSUME NEW t \in Txn, DeleteTxn(t)
      PROVE  TerminalKept
  BY <1>0, <1>5 DEF DeleteTxn, TerminalKept
<1>6. CASE \/ \E p \in Pod : Crash(p) \/ Retire(p)
           \/ \E k \in Cr : WatcherRead(k) \/ WatcherWrite(k)
           \/ \E r \in Repo, b \in Branch, c \in MaybeCommit : ExternalPush(r, b, c)
           \/ \E q \in sent : ServeLate(q)
  BY <1>2, <1>6 DEF Crash, Retire, WatcherRead, WatcherWrite, ExternalPush, ServeLate, objects
<1>7. CASE UNCHANGED vars
  BY <1>2, <1>7 DEF vars, objects
<1> QED
  BY <1>4, <1>5, <1>6, <1>7 DEF Next

THEOREM TerminalStays == Spec => TerminalIsFinal
BY AlwaysClaims, NextKeepsTerminal, PTL DEF Spec, TerminalIsFinal

-----------------------------------------------------------------------------
(* Commands: what is on its way to the server is a fast-forward.           *)

NoNewCommands == \A i \in Job : local'[i].commands \in {local[i].commands, {}}

(* No job gains a command, no refspec gains an outcome. *)
NothingNew == NoNewCommands /\ outcome' = outcome

LEMMA ReturnCommands ==
    ASSUME TypeOK, NEW j \in Job, Return(j)
    PROVE  NoNewCommands
BY DEF Return, TypeOK, NoLocal, NoNewCommands

LEMMA OutdateCommands ==
    ASSUME NEW loc \in [Job -> Local], NEW k \in Cr, NEW i \in Job
    PROVE  OutdateBranch(loc, k)[i].commands = loc[i].commands
<1>1. OutdateBranch(loc, k)[i] = [loc[i] EXCEPT !.listed = @ \ {k}]
  BY DEF OutdateBranch
<1>2. loc[i] \in Local
  OBVIOUS
<1>3. [loc[i] EXCEPT !.listed = @ \ {k}].commands = loc[i].commands
  BY <1>2 DEF Local
<1> QED
  BY <1>1, <1>3

LEMMA StepCommands ==
    ASSUME TypeOK, NEW j \in Job, Step(j), ~NegotiatePush(j), ~SendPush(j)
    PROVE  NothingNew
<1>0. local \in [Job -> Local] /\ local[j] \in Local
  BY DEF TypeOK
<1>1. CASE Get(j)
  BY <1>1 DEF Get, NothingNew, NoNewCommands
<1>2. ASSUME NEW label, NEW copies, Accepted(j, label, copies), UNCHANGED outcome
      PROVE  NothingNew
  BY <1>2, ReturnCommands DEF Accepted, NothingNew, NoNewCommands
<1>3. CASE MarkInProgress(j)
  BY <1>2, <1>3 DEF MarkInProgress, NothingNew, NoNewCommands
<1>4. CASE MarkSucceeded(j) \/ FailTransaction(j)
  BY <1>2, <1>4 DEF MarkSucceeded, FailTransaction
<1>5. CASE StatusWriteRefused(j)
  BY <1>5, ReturnCommands DEF StatusWriteRefused, NothingNew
<1>6. CASE GiveUp(j)
  BY <1>0, <1>6 DEF GiveUp, NothingNew, NoNewCommands, NoLocal
<1>7. CASE Acquire(j)
  <2>1. PICK c \in Clone, d \in BOOLEAN :
            local' = [local EXCEPT ![j] = [local[j] EXCEPT !.clone = c, !.onDisk = d]]
    BY <1>7, AcquireEffect
  <2>2. [local[j] EXCEPT !.clone = c, !.onDisk = d].commands = local[j].commands
    BY <1>0 DEF Local
  <2>3. \A i \in Job : local'[i].commands = local[i].commands
    BY <1>0, <2>1, <2>2
  <2> QED
    BY <1>7, <2>3 DEF Acquire, NothingNew, NoNewCommands
<1>8. CASE ListBranches(j)
  <2> DEFINE matching == {k \in Cr : Matching(j, k) # {}}
             next == [local[j] EXCEPT !.todo = matching, !.listed = matching]
  <2>1. CASE Return(j)
    BY <1>8, <2>1, ReturnCommands DEF ListBranches, NothingNew
  <2>2. CASE local' = [local EXCEPT ![j] = next]
    <3>1. next.commands = local[j].commands
      BY <1>0 DEF Local
    <3>2. \A i \in Job : local'[i].commands = local[i].commands
      BY <1>0, <2>2, <3>1
    <3> QED
      BY <1>8, <3>2 DEF ListBranches, NothingNew, NoNewCommands
  <2> QED
    BY <1>8, <2>1, <2>2 DEF ListBranches
<1>9. ASSUME NEW k \in Cr, UpdateBranch(j, k)
      PROVE  NothingNew
  <2> DEFINE rest == local[j].todo \ {k}
             next == [local[j] EXCEPT !.todo = rest, !.listed = @ \ {k}]
             left == IF rest = {} THEN [local EXCEPT ![j] = NoLocal]
                     ELSE [local EXCEPT ![j] = next]
  <2>1. next.commands = local[j].commands /\ next \in Local /\ NoLocal \in Local
    BY <1>0, LocalType DEF Local
  <2>2. left \in [Job -> Local]
    BY <2>1, SetLocal
  <2>3. \A i \in Job : left[i].commands \in {local[i].commands, {}}
    <3>1. NoLocal.commands = {}
      BY DEF NoLocal
    <3> HIDE DEF next
    <3> QED
      BY <1>0, <2>1, <3>1
  <2>4. local' = OutdateBranch(left, k) \/ local' = left
    BY <1>9 DEF UpdateBranch
  <2>5. \A i \in Job : local'[i].commands = left[i].commands
    <3> HIDE DEF left
    <3>1. \A i \in Job : OutdateBranch(left, k)[i].commands = left[i].commands
      BY <2>2, OutdateCommands
    <3> QED
      BY <2>4, <3>1
  <2> QED
    BY <1>9, <2>3, <2>5 DEF UpdateBranch, NothingNew, NoNewCommands
<1>10. CASE AbandonBranches(j)
  BY <1>10, ReturnCommands DEF AbandonBranches, NothingNew
<1>11. CASE TimeOutPush(j)
  BY <1>0, <1>11 DEF TimeOutPush, PushRejected, NothingNew, NoNewCommands, NoLocal, TypeOK
<1>12. CASE ReadResult(j)
  <2>1. [NoLocal EXCEPT !.result = ResultOf(j)].commands = {}
    BY DEF NoLocal
  <2> QED
    BY <1>0, <1>12, <2>1 DEF ReadResult, NothingNew, NoNewCommands
<1> QED
  BY <1>1, <1>3, <1>4, <1>5, <1>6, <1>7, <1>8, <1>9, <1>10, <1>11, <1>12 DEF Step

LEMMA PushEndCommands ==
    ASSUME TypeOK, NEW j \in Job, Pushed(j) \/ PushRejected(j)
    PROVE  \A i \in Job : local'[i].commands = IF i = j THEN {} ELSE local[i].commands
<1>1. [local[j] EXCEPT !.commands = {}].commands = {}
  BY DEF TypeOK, Local
<1>2. NoLocal.commands = {}
  BY DEF NoLocal
<1>3. CASE Pushed(j)
  BY <1>1, <1>3 DEF Pushed, TypeOK
<1>4. CASE PushRejected(j)
  BY <1>2, <1>4 DEF PushRejected, TypeOK
<1> QED
  BY <1>3, <1>4

LEMMA NegotiatedCommands ==
    ASSUME TypeOK, CommandInv, NEW j \in Job, NegotiatePush(j)
    PROVE  /\ \A i \in Job : Sendable(i, local'[i].commands)
           /\ \A t \in Txn : \A o \in outcome'[t] : o[1] \in DOMAIN RefSpecs(t)
<1>1. \A c \in Commands(j) : /\ c.refSpec \in DOMAIN RefSpecs(j[2])
                             /\ \A d \in Commands(j) : c.refSpec = d.refSpec => c = d
  BY DEF Commands
<1>6. \A c \in Commands(j) :
        /\ RefSpecs(j[2])[c.refSpec].source \in {c.new} \cup Branch
        /\ c.new = NoCommit => Deletes(RefSpecs(j[2])[c.refSpec])
  BY DEF Commands, Resolve, Deletes
<1>2. \A i \in Job : \/ local'[i].commands \in {local[i].commands, {}}
                     \/ /\ i = j
                        /\ local'[i].commands = Commands(j)
                        /\ ForwardOnly(j)
  <2>1. CASE Pushed(j) \/ PushRejected(j)
    BY <2>1, PushEndCommands
  <2>2. CASE /\ ForwardOnly(j)
             /\ local' = [local EXCEPT ![j] = [local[j] EXCEPT !.commands = Commands(j)]]
    <3>1. local[j] \in Local
      BY DEF TypeOK
    <3>2. [local[j] EXCEPT !.commands = Commands(j)].commands = Commands(j)
      BY <3>1 DEF Local
    <3> QED
      BY <2>2, <3>2 DEF TypeOK
  <2> QED
    BY <2>1, <2>2 DEF NegotiatePush
<1>3. \A o \in Settled(j) : o[1] \in DOMAIN RefSpecs(j[2])
  BY DEF Settled
<1>4. \A t \in Txn : \A o \in outcome'[t] : o[1] \in DOMAIN RefSpecs(t)
  BY <1>3, JobType DEF NegotiatePush, TypeOK, CommandInv
<1>5. \A i \in Job : Sendable(i, local'[i].commands)
  BY <1>1, <1>2, <1>6 DEF CommandInv, Sendable, ForwardOnly
<1> QED
  BY <1>4, <1>5

(***************************************************************************)
(* What the server handles was sendable, so it names refspecs.             *)
(***************************************************************************)
LEMMA HandledCommands ==
    ASSUME TypeOK, CommandInv, NEW j \in Job, NEW commands, Sendable(j, commands),
           Handles(j, commands)
    PROVE  \A t \in Txn : \A o \in outcome'[t] : o[1] \in DOMAIN RefSpecs(t)
<1>1. PICK refused \in SUBSET commands : Serve(j, Applied(j, commands, refused))
  BY DEF Handles
<1>2. Applied(j, commands, refused) \subseteq commands
  BY DEF Applied, Applicable
<1> QED
  BY <1>1, <1>2, JobType DEF Serve, TypeOK, CommandInv, Sendable

(***************************************************************************)
(* Steps that are not a job's take commands away but give none.            *)
(***************************************************************************)
LEMMA EnvironmentCommands ==
    ASSUME TypeOK, [Next]_vars, ~ \E j \in Job : Step(j), ~ \E q \in sent : ServeLate(q)
    PROVE  NothingNew
<1>1. ASSUME NEW p \in Pod, Crash(p) \/ Retire(p)
      PROVE  NothingNew
  BY <1>1 DEF Crash, Retire, StopJobs, NothingNew, NoNewCommands, NoLocal
<1>2. ASSUME NEW k \in Cr, WatcherWrite(k)
      PROVE  NothingNew
  <2>1. \A i \in Job : OutdateBranch(local, k)[i].commands = local[i].commands
    BY OutdateCommands DEF TypeOK
  <2> QED
    BY <1>2, <2>1 DEF WatcherWrite, NothingNew, NoNewCommands
<1>3. CASE UNCHANGED <<local, outcome>>
  BY <1>3 DEF NothingNew, NoNewCommands
<1> QED
  BY <1>1, <1>2, <1>3 DEF Next, DeleteTxn, WatcherRead, ExternalPush,
     control, vars

LEMMA NextCommands == TypeOK /\ CommandInv /\ [Next]_vars => CommandInv'
<1> SUFFICES ASSUME TypeOK, CommandInv, [Next]_vars
             PROVE  CommandInv'
  OBVIOUS
<1>1. \A q \in sent' : Sendable(q.job, q.commands)
  <2> SUFFICES ASSUME NEW q \in sent', q \notin sent
               PROVE  Sendable(q.job, q.commands)
    BY DEF CommandInv
  <2> QED
    BY NewRequests DEF RequestOf, CommandInv
<1>2. ASSUME NoNewCommands
      PROVE  \A i \in Job : Sendable(i, local'[i].commands)
  BY <1>2 DEF NoNewCommands, CommandInv, Sendable
<1> DEFINE Kept == /\ \A i \in Job : Sendable(i, local'[i].commands)
                   /\ \A t \in Txn : \A o \in outcome'[t] : o[1] \in DOMAIN RefSpecs(t)
<1>3. Kept
  <2>1. ASSUME NEW j \in Job, NegotiatePush(j)
        PROVE  Kept
    BY <2>1, NegotiatedCommands
  <2>2. ASSUME NEW j \in Job, SendPush(j)
        PROVE  Kept
    <3>1. \A t \in Txn : \A o \in outcome'[t] : o[1] \in DOMAIN RefSpecs(t)
      BY <2>2, WhoHandles, HandledCommands DEF CommandInv
    <3>2. NoNewCommands
      BY <2>2, PushEndCommands DEF SendPush, NoNewCommands
    <3> QED
      BY <1>2, <3>1, <3>2
  <2>3. ASSUME NEW q \in sent, ServeLate(q)
        PROVE  Kept
    <3>1. \A t \in Txn : \A o \in outcome'[t] : o[1] \in DOMAIN RefSpecs(t)
      BY <2>3, WhoHandles, HandledCommands, RequestType DEF CommandInv
    <3>2. NoNewCommands
      BY <2>3 DEF ServeLate, control, NoNewCommands
    <3> QED
      BY <1>2, <3>1, <3>2
  <2>4. CASE NothingNew
    BY <1>2, <2>4 DEF NothingNew, CommandInv
  <2>5. ASSUME NEW j \in Job, Step(j), ~NegotiatePush(j), ~SendPush(j)
        PROVE  NothingNew
    BY <2>5, StepCommands
  <2> QED
    BY <2>1, <2>2, <2>3, <2>4, <2>5, EnvironmentCommands
<1> QED
  BY <1>1, <1>3 DEF CommandInv

LEMMA InitCommands == Init => CommandInv
BY DEF Init, CommandInv, Sendable, NoLocal

LEMMA AlwaysCommands == Spec => [](TypeOK /\ CommandInv)
BY InitType, NextType, InitCommands, NextCommands, PTL DEF Spec

-----------------------------------------------------------------------------
(* History: no push of the controller takes a commit off a branch.         *)

(***************************************************************************)
(* What the server makes of a branch: it stays, or it gets a command's new *)
(* commit, which contains what the branch held, unless its refspec may     *)
(* lose commits.                                                           *)
(***************************************************************************)
LEMMA ServerMovesForward ==
    ASSUME TypeOK, NEW j \in Job, NEW commands \in SUBSET Command, Sendable(j, commands),
           Handles(j, commands), NEW r \in Repo, NEW b \in Branch, ~Overrides(j[2], r, b)
    PROVE  \/ remote'[r][b] = remote[r][b]
           \/ remote'[r][b] \in Commit /\ FastForward(remote[r][b], remote'[r][b])
<1>0. PICK refused \in SUBSET commands :
          remote' = [remote EXCEPT ![RepoOf(j)] =
                        UpdatedRefs(j, Applied(j, commands, refused))]
  BY DEF Handles, Serve
<1>1. CASE r # RepoOf(j)
  BY <1>0, <1>1, JobType DEF TypeOK
<1>2. CASE r = RepoOf(j)
  <2> DEFINE applied == Applied(j, commands, refused)
  <2>1. remote'[r][b] = UpdatedRefs(j, applied)[b]
    BY <1>0, <1>2 DEF TypeOK
  <2>2. CASE \E c \in applied : DestinationOf(j, c) = b
    <3>1. PICK c \in applied : DestinationOf(j, c) = b /\ remote'[r][b] = c.new
      BY <2>1, <2>2 DEF UpdatedRefs
    <3>2. c \in commands /\ c.old = remote[r][b]
      BY <1>2, <3>1 DEF Applied, Applicable
    <3>3. ~MayLose(RefSpecs(j[2])[c.refSpec])
      BY <1>2, <3>1, <3>2 DEF Sendable, Overrides, DestinationOf, Destination, RepoOf, SpecOf
    <3>4. FastForward(c.old, c.new) /\ c.new \in Commit
      BY <3>2, <3>3 DEF Sendable, Permitted, MayLose, Command, MaybeCommit
    <3> QED
      BY <3>1, <3>2, <3>4
  <2>3. CASE ~ \E c \in applied : DestinationOf(j, c) = b
    BY <1>2, <2>1, <2>3 DEF UpdatedRefs
  <2> QED
    BY <2>2, <2>3
<1> QED
  BY <1>1, <1>2

(***************************************************************************)
(* Of a job's own steps only SendPush changes a remote.                    *)
(***************************************************************************)
LEMMA OnlySendMoves ==
    ASSUME NEW j \in Job, Step(j), ~SendPush(j)
    PROVE  remote' = remote
BY DEF Step, Get, MarkInProgress, StatusWriteRefused, GiveUp, ReadResult, Acquire,
   NegotiatePush, TimeOutPush, MarkSucceeded, FailTransaction, ListBranches, UpdateBranch,
   AbandonBranches, git

(***************************************************************************)
(* Whoever moves a branch: the server, for a job, or somebody else.        *)
(***************************************************************************)
LEMMA WhoMoves ==
    ASSUME TypeOK, CommandInv, [Next]_vars
    PROVE  \/ \E j \in Job : \E commands \in SUBSET Command :
                Sendable(j, commands) /\ Handles(j, commands)
           \/ \E r \in Repo, b \in Branch, c \in MaybeCommit : ExternalPush(r, b, c)
           \/ remote' = remote
<1>1. ASSUME NEW j \in Job, SendPush(j)
      PROVE  Sendable(j, local[j].commands) /\ Handles(j, local[j].commands)
  BY <1>1, WhoHandles DEF CommandInv
<1>2. ASSUME NEW q \in sent, ServeLate(q)
      PROVE  Sendable(q.job, q.commands) /\ Handles(q.job, q.commands)
  BY <1>2, WhoHandles DEF CommandInv
<1>3. ASSUME NEW j \in Job, Step(j), ~SendPush(j)
      PROVE  remote' = remote
  BY <1>3, OnlySendMoves
<1>4. CASE /\ ~ \E j \in Job : Step(j)
           /\ ~ \E q \in sent : ServeLate(q)
           /\ ~ \E r \in Repo, b \in Branch, c \in MaybeCommit : ExternalPush(r, b, c)
  BY <1>4 DEF Next, Crash, Retire, DeleteTxn, WatcherRead, WatcherWrite, git, vars
<1> QED
  BY <1>1, <1>2, <1>3, <1>4, RequestType

(***************************************************************************)
(* What a job does to the remotes, it does through its own commands.       *)
(***************************************************************************)
LEMMA ActorMoves ==
    ASSUME TypeOK, CommandInv, [Next]_vars, NEW j \in Job, Acts(j)
    PROVE  \/ \E commands \in SUBSET Command :
                Sendable(j, commands) /\ Handles(j, commands)
           \/ remote' = remote
<1>1. ASSUME NEW i \in Job, Step(i), i # j
      PROVE  FALSE
  <2>1. pc'[j] = pc[j]
    BY <1>1 DEF Step, Get, MarkInProgress, StatusWriteRefused, GiveUp, ReadResult, Acquire,
       NegotiatePush, SendPush, TimeOutPush, Pushed, PushRejected, MarkSucceeded,
       FailTransaction, ListBranches, UpdateBranch, AbandonBranches, Accepted, Return,
       Goto, TypeOK
  <2>2. sent \subseteq sent'
    BY <1>1 DEF Step, Get, MarkInProgress, StatusWriteRefused, GiveUp, ReadResult, Acquire,
       NegotiatePush, SendPush, TimeOutPush, MarkSucceeded, FailTransaction, ListBranches,
       UpdateBranch, AbandonBranches, git
  <2> QED
    BY <2>1, <2>2 DEF Acts
<1>2. ASSUME NEW q \in sent, ServeLate(q), q.job # j
      PROVE  FALSE
  BY <1>2 DEF ServeLate, control, Acts
<1>3. CASE SendPush(j)
  BY <1>3, WhoHandles, RequestType DEF CommandInv
<1>4. CASE Step(j) /\ ~SendPush(j)
  BY <1>4, OnlySendMoves
<1>5. CASE \E q \in sent : ServeLate(q) /\ q.job = j
  BY <1>5, WhoHandles, RequestType DEF CommandInv
<1>6. CASE (~ \E i \in Job : Step(i)) /\ ~ \E q \in sent : ServeLate(q)
  <2>1. ASSUME NEW r \in Repo, NEW d \in Branch, NEW c \in MaybeCommit, ExternalPush(r, d, c)
        PROVE  FALSE
    BY <2>1 DEF ExternalPush, control, Acts
  <2>2. remote' = remote
    BY <1>6, <2>1 DEF Next, Crash, Retire, DeleteTxn, WatcherRead, WatcherWrite, git, vars
  <2> QED
    BY <2>2
<1> QED
  BY <1>1, <1>2, <1>3, <1>4, <1>5, <1>6

LEMMA NextMovesForward ==
    TypeOK /\ CommandInv /\ [Next]_vars => [ControllerMovesForward]_vars
<1> SUFFICES ASSUME TypeOK, CommandInv, [Next]_vars, NEW j \in Job, Acts(j),
                    NEW r \in Repo, NEW b \in Branch, remote[r][b] # NoCommit,
                    ~Overrides(j[2], r, b)
             PROVE  InHistory(remote[r][b], remote'[r][b])
  BY DEF ControllerMovesForward
<1>0. remote[r][b] \in Commit
  BY DEF TypeOK, MaybeCommit
<1>1. CASE remote' = remote
  BY <1>0, <1>1, CommitGraphAssumption DEF InHistory
<1>2. ASSUME NEW commands \in SUBSET Command, Sendable(j, commands), Handles(j, commands)
      PROVE  InHistory(remote[r][b], remote'[r][b])
  <2>1. \/ remote'[r][b] = remote[r][b]
        \/ remote'[r][b] \in Commit /\ FastForward(remote[r][b], remote'[r][b])
    BY <1>2, ServerMovesForward
  <2> QED
    BY <1>0, <2>1, CommitGraphAssumption DEF InHistory, FastForward
<1> QED
  BY <1>1, <1>2, ActorMoves

(***************************************************************************)
(* Whatever other pushers do, forced pushes included, every move of a      *)
(* branch by the controller is a fast-forward of where it was, unless the  *)
(* refspec for this branch itself begins with "+" or deletes it.           *)
(***************************************************************************)
THEOREM MovesForward == Spec => OnlyFastForwards
BY AlwaysCommands, NextMovesForward, PTL DEF Spec, OnlyFastForwards

-----------------------------------------------------------------------------
(* Among pushers and transactions that neither force nor delete, what has  *)
(* landed stays.                                                           *)

OnlyForward ==
    /\ External \subseteq {"forward"}
    /\ \A t \in Txn : \A i \in DOMAIN RefSpecs(t) : ~MayLose(RefSpecs(t)[i])

(***************************************************************************)
(* Every branch keeps its history, whoever takes the step.                 *)
(***************************************************************************)
LEMMA HistoryGrows ==
    ASSUME OnlyForward, TypeOK, CommandInv, [Next]_vars,
           NEW r \in Repo, NEW b \in Branch, NEW c, InHistory(c, remote[r][b])
    PROVE  InHistory(c, remote'[r][b])
<1>1. ASSUME remote[r][b] \in Commit, remote'[r][b] \in Commit,
             FastForward(remote[r][b], remote'[r][b])
      PROVE  InHistory(c, remote'[r][b])
  BY <1>1, CommitGraphAssumption DEF InHistory, FastForward
<1>2. remote[r][b] \in Commit
  BY DEF InHistory
<1>3. ASSUME NEW j \in Job, NEW commands \in SUBSET Command,
             Sendable(j, commands), Handles(j, commands)
      PROVE  InHistory(c, remote'[r][b])
  <2>0. ~Overrides(j[2], r, b)
    BY JobType DEF Overrides, OnlyForward
  <2>1. \/ remote'[r][b] = remote[r][b]
        \/ remote'[r][b] \in Commit /\ FastForward(remote[r][b], remote'[r][b])
    BY <1>3, <2>0, ServerMovesForward
  <2> QED
    BY <1>1, <1>2, <2>1
<1>4. ASSUME NEW q \in Repo, NEW d \in Branch, NEW new \in MaybeCommit, ExternalPush(q, d, new)
      PROVE  InHistory(c, remote'[r][b])
  <2>1. new \in Commit /\ FastForward(remote[q][d], new)
    BY <1>4 DEF ExternalPush, OnlyForward, MaybeCommit
  <2>2. remote' = [remote EXCEPT ![q][d] = new]
    BY <1>4 DEF ExternalPush
  <2> QED
    BY <1>1, <1>2, <2>1, <2>2 DEF TypeOK
<1>5. CASE remote' = remote
  BY <1>5
<1> QED
  BY <1>3, <1>4, <1>5, WhoMoves

(* Refspecs of a transaction push to distinct branches of its repository. *)
LEMMA DestinationType ==
    ASSUME NEW t \in Txn
    PROVE  /\ TxnSpec[t].repositoryRef \in Repo
           /\ \A i \in DOMAIN RefSpecs(t) : Destination(t, i) \in Branch
           /\ \A i, k \in DOMAIN RefSpecs(t) :
                Destination(t, i) = Destination(t, k) => i = k
<1>1. RefSpecs(t) \in Seq(RefSpec)
  BY PushAssumption DEF RefSpecs
<1>2. \A i \in DOMAIN RefSpecs(t) : RefSpecs(t)[i] \in RefSpec
  BY <1>1
<1> QED
  BY <1>2, PushAssumption DEF RefSpecs, Destination, RefSpec

(***************************************************************************)
(* What the server has applied is on its branch.                           *)
(***************************************************************************)
LEMMA ServedIsThere ==
    ASSUME TypeOK, NEW j \in Job, NEW commands \in SUBSET Command, Sendable(j, commands),
           Handles(j, commands),
           NEW t \in Txn, NEW o \in outcome'[t], o \notin outcome[t], o[2] # NoCommit
    PROVE  InHistory(o[2], remote'[TxnSpec[t].repositoryRef][Destination(t, o[1])])
<1>1. PICK refused \in SUBSET commands : Serve(j, Applied(j, commands, refused))
  BY DEF Handles
<1> DEFINE applied == Applied(j, commands, refused)
<1>2. t = j[2] /\ \E c \in applied : o = <<c.refSpec, c.new>>
  BY <1>1, JobType DEF TypeOK, Serve
<1>3. PICK c \in applied : o = <<c.refSpec, c.new>>
  BY <1>2
<1>4. applied \subseteq commands
  BY DEF Applied, Applicable
<1>5. \A d \in applied : DestinationOf(j, d) = DestinationOf(j, c) => d = c
  BY <1>2, <1>4, DestinationType DEF Sendable, DestinationOf, Destination
<1>6. UpdatedRefs(j, applied)[DestinationOf(j, c)] = c.new
  <2>1. DestinationOf(j, c) \in Branch
    BY <1>2, <1>4, DestinationType DEF Sendable, DestinationOf, Destination
  <2>2. (CHOOSE d \in applied : DestinationOf(j, d) = DestinationOf(j, c)) = c
    BY <1>5
  <2> HIDE DEF applied
  <2> QED
    BY <2>1, <2>2 DEF UpdatedRefs
<1>7. c.new \in Commit
  BY <1>3, <1>4 DEF Command, MaybeCommit
<1>8. remote'[RepoOf(j)] = UpdatedRefs(j, applied)
  BY <1>1, JobType DEF TypeOK, Serve
<1> QED
  BY <1>2, <1>3, <1>6, <1>7, <1>8, CommitGraphAssumption
  DEF InHistory, RepoOf, SpecOf, Destination, DestinationOf

(***************************************************************************)
(* An outcome a step adds is on its branch when the step is done.          *)
(***************************************************************************)
LEMMA NewOutcomeIsThere ==
    ASSUME TypeOK, CommandInv, NEW j \in Job, Step(j), ~SendPush(j),
           NEW t \in Txn, NEW o \in outcome'[t], o \notin outcome[t], o[2] # NoCommit
    PROVE  InHistory(o[2], remote'[TxnSpec[t].repositoryRef][Destination(t, o[1])])
<1>1. CASE NegotiatePush(j)
  <2>1. t = j[2] /\ o \in Settled(j)
    BY <1>1, JobType DEF NegotiatePush, TypeOK
  <2>2. PICK i \in DOMAIN RefSpecs(t) :
            /\ o = <<i, Resolve(CloneOf(j), RefSpecs(t)[i].source)>>
            /\ i \notin {c.refSpec : c \in Commands(j)}
    BY <2>1 DEF Settled
  <2>3. o[2] = remote[RepoOf(j)][RefSpecs(t)[i].destination]
    <3> DEFINE source(k) == Resolve(CloneOf(j), RefSpecs(j[2])[k].source)
               advertised(k) == remote[RepoOf(j)][RefSpecs(j[2])[k].destination]
               command == [refSpec |-> i, old |-> advertised(i), new |-> source(i)]
    <3>1. o[2] = source(i)
      BY <2>1, <2>2
    <3>2. source(i) \notin {NoCommit, advertised(i)} => command \in Commands(j)
      BY <2>1, <2>2 DEF Commands
    <3>3. command \notin Commands(j)
      BY <2>2
    <3> QED
      BY <2>1, <3>1, <3>2, <3>3
  <2>4. o[2] \in Commit
    BY <2>3, <2>1, JobType, DestinationType DEF TypeOK, MaybeCommit, Destination
  <2> QED
    BY <1>1, <2>1, <2>2, <2>3, <2>4, CommitGraphAssumption
    DEF NegotiatePush, git, InHistory, RepoOf, SpecOf, Destination
<1>2. CASE ~NegotiatePush(j)
  BY <1>2, StepCommands DEF NothingNew
<1> QED
  BY <1>1, <1>2

LEMMA NextLanded ==
    ASSUME OnlyForward
    PROVE  TypeOK /\ CommandInv /\ LandedStays /\ [Next]_vars => LandedStays'
<1> SUFFICES ASSUME TypeOK, CommandInv, LandedStays, [Next]_vars,
                    NEW t \in Txn, NEW o \in outcome'[t], o[2] # NoCommit
             PROVE  InHistory(o[2], remote'[TxnSpec[t].repositoryRef][Destination(t, o[1])])
  BY DEF LandedStays
<1>1. CASE o \in outcome[t]
  <2>1. InHistory(o[2], remote[TxnSpec[t].repositoryRef][Destination(t, o[1])])
    BY <1>1 DEF LandedStays
  <2>2. TxnSpec[t].repositoryRef \in Repo /\ Destination(t, o[1]) \in Branch
    BY <1>1, DestinationType DEF CommandInv
  <2> QED
    BY <2>1, <2>2, HistoryGrows
<1>2. CASE o \notin outcome[t]
  <2>1. \/ \E j \in Job : Step(j)
        \/ \E q \in sent : ServeLate(q)
    BY <1>2, EnvironmentCommands DEF NothingNew
  <2>2. ASSUME NEW j \in Job, Step(j), ~SendPush(j)
        PROVE  InHistory(o[2], remote'[TxnSpec[t].repositoryRef][Destination(t, o[1])])
    BY <1>2, <2>2, NewOutcomeIsThere
  <2>3. ASSUME NEW j \in Job, SendPush(j)
        PROVE  InHistory(o[2], remote'[TxnSpec[t].repositoryRef][Destination(t, o[1])])
    BY <1>2, <2>3, WhoHandles, RequestType, ServedIsThere DEF CommandInv
  <2>4. ASSUME NEW q \in sent, ServeLate(q)
        PROVE  InHistory(o[2], remote'[TxnSpec[t].repositoryRef][Destination(t, o[1])])
    BY <1>2, <2>4, WhoHandles, RequestType, ServedIsThere DEF CommandInv
  <2> QED
    BY <2>1, <2>2, <2>3, <2>4
<1> QED
  BY <1>1, <1>2

LEMMA InitLanded == Init => LandedStays
BY DEF Init, LandedStays

(***************************************************************************)
(* What a push put on a branch is part of that branch for ever, whatever   *)
(* the other pods, retries and (fast-forward) pushers do.                  *)
(***************************************************************************)
THEOREM LandedForEver ==
    ASSUME OnlyForward
    PROVE  Spec => []LandedStays
BY AlwaysCommands, InitLanded, NextLanded, PTL DEF Spec

(***************************************************************************)
(* A SHA that has landed is never pushed again: the server's ref contains  *)
(* it, so the only fast-forward to it leaves the ref as it is.             *)
(***************************************************************************)
LEMMA NextLandsOnce ==
    ASSUME OnlyForward
    PROVE  TypeOK /\ CommandInv /\ LandedStays /\ [Next]_vars => [LandedKept]_vars
<1> SUFFICES ASSUME TypeOK, CommandInv, LandedStays, [Next]_vars,
                    NEW j \in Job, Acts(j),
                    NEW o \in outcome[j[2]], o[2] \in Commit,
                    RefSpecs(j[2])[o[1]].source = o[2]
             PROVE  remote'[RepoOf(j)][Destination(j[2], o[1])]
                        = remote[RepoOf(j)][Destination(j[2], o[1])]
  BY DEF LandedKept
<1> DEFINE b == Destination(j[2], o[1])
<1>1. j[2] \in Txn /\ o[1] \in DOMAIN RefSpecs(j[2]) /\ RepoOf(j) \in Repo /\ b \in Branch
  BY JobType, DestinationType DEF CommandInv
<1>3. o[2] \notin Branch /\ o[2] # NoCommit
  BY PushAssumption, CommitGraphAssumption
<1>4. InHistory(o[2], remote[RepoOf(j)][b])
  BY <1>1, <1>3 DEF LandedStays, RepoOf, SpecOf
<1>5. ASSUME NEW commands \in SUBSET Command, Sendable(j, commands), Handles(j, commands)
      PROVE  remote'[RepoOf(j)][b] = remote[RepoOf(j)][b]
  <2>1. PICK refused \in SUBSET commands :
            remote' = [remote EXCEPT ![RepoOf(j)] =
                            UpdatedRefs(j, Applied(j, commands, refused))]
    BY <1>5 DEF Handles, Serve
  <2> DEFINE applied == Applied(j, commands, refused)
  <2>2. remote'[RepoOf(j)][b] = UpdatedRefs(j, applied)[b]
    BY <1>1, <2>1 DEF TypeOK
  <2>3. CASE \E c \in applied : DestinationOf(j, c) = b
    <3>1. PICK c \in applied : DestinationOf(j, c) = b /\ remote'[RepoOf(j)][b] = c.new
      BY <1>1, <2>2, <2>3 DEF UpdatedRefs
    <3>2. c \in commands /\ c.old = remote[RepoOf(j)][b]
      BY <3>1 DEF Applied, Applicable
    <3>3. c.refSpec = o[1]
      BY <1>1, <1>5, <3>1, <3>2, DestinationType DEF Sendable, DestinationOf, Destination
    <3>4. c.new = o[2] /\ FastForward(c.old, c.new)
      BY <1>1, <1>3, <1>5, <3>2, <3>3, JobType DEF Sendable, Permitted, OnlyForward
    <3>5. c.old \in Commit /\ o[2] \in Anc[c.old] /\ c.old \in Anc[o[2]]
      BY <1>4, <3>2, <3>4, CommitGraphAssumption DEF InHistory, FastForward
    <3>6. c.old = o[2]
      BY <1>3, <3>5, CommitGraphAssumption
    <3> QED
      BY <3>1, <3>2, <3>4, <3>6
  <2>4. CASE ~ \E c \in applied : DestinationOf(j, c) = b
    BY <1>1, <2>2, <2>4 DEF UpdatedRefs
  <2> QED
    BY <2>3, <2>4
<1> QED
  BY <1>5, ActorMoves

THEOREM LandedOnce ==
    ASSUME OnlyForward
    PROVE  Spec => LandsOnce
BY AlwaysCommands, LandedForEver, NextLandsOnce, PTL DEF Spec, LandsOnce

-----------------------------------------------------------------------------
(* Success: what Succeeded and the recorded result stand for.              *)

Pending == {"sending", "reading", "succeeding"}

(* The locals that matter while a push is pending. *)
SameLocal(a, b) ==
    /\ a.onDisk = b.onDisk /\ a.clone = b.clone
    /\ a.commands = b.commands /\ a.result = b.result

(* A pending push was pending before, with the same locals. *)
NoneStarted ==
    \A i \in Job : pc'[i] \in Pending =>
        pc[i] = pc'[i] /\ SameLocal(local'[i], local[i])

LEMMA OutdateSame ==
    ASSUME NEW loc \in [Job -> Local], NEW k \in Cr, NEW i \in Job
    PROVE  SameLocal(OutdateBranch(loc, k)[i], loc[i])
<1>1. OutdateBranch(loc, k)[i] = [loc[i] EXCEPT !.listed = @ \ {k}]
  BY DEF OutdateBranch
<1>2. loc[i] \in Local
  OBVIOUS
<1>3. LET out == [loc[i] EXCEPT !.listed = @ \ {k}]
      IN /\ out.onDisk = loc[i].onDisk /\ out.clone = loc[i].clone
         /\ out.commands = loc[i].commands /\ out.result = loc[i].result
  BY <1>2 DEF Local
<1> QED
  BY <1>1, <1>3 DEF SameLocal

LEMMA StepStartsNone ==
    ASSUME TypeOK, NEW j \in Job, Step(j), ~NegotiatePush(j), ~SendPush(j), ~ReadResult(j)
    PROVE  NoneStarted
<1>1. pc'[j] \notin Pending
  <2>1. ASSUME NEW label, NEW copies, label \notin Pending, Accepted(j, label, copies)
        PROVE  pc'[j] \notin Pending
    BY <2>1, AcceptedEffect DEF Pending, TypeOK
  <2>2. CASE MarkInProgress(j) \/ MarkSucceeded(j) \/ FailTransaction(j)
    BY <2>1, <2>2 DEF MarkInProgress, MarkSucceeded, FailTransaction, Goto, Pending, TypeOK
  <2>3. CASE ~(MarkInProgress(j) \/ MarkSucceeded(j) \/ FailTransaction(j))
    BY <2>3 DEF Step, Get, StatusWriteRefused, GiveUp, ReadResult, Acquire, TimeOutPush, PushRejected,
       ListBranches, UpdateBranch, AbandonBranches, Return, Goto, Pending, TypeOK
  <2> QED
    BY <2>2, <2>3
<1>2. ASSUME NEW i \in Job, i # j
      PROVE  pc'[i] = pc[i]
  BY <1>2 DEF Step, Get, MarkInProgress, StatusWriteRefused, GiveUp, ReadResult, Acquire, TimeOutPush,
     PushRejected, MarkSucceeded, FailTransaction, ListBranches, UpdateBranch, AbandonBranches, Accepted, Return, Goto, TypeOK
<1>3. ASSUME NEW i \in Job, i # j, ~ \E k \in Cr : UpdateBranch(j, k)
      PROVE  local'[i] = local[i]
  BY <1>3 DEF Step, Get, MarkInProgress, StatusWriteRefused, GiveUp, ReadResult, Acquire, TimeOutPush,
     PushRejected, MarkSucceeded, FailTransaction, ListBranches, AbandonBranches, Accepted, Return, TypeOK
<1>4. ASSUME NEW k \in Cr, UpdateBranch(j, k), NEW i \in Job, i # j
      PROVE  SameLocal(local'[i], local[i])
  <2> DEFINE rest == local[j].todo \ {k}
             next == [local[j] EXCEPT !.todo = rest, !.listed = @ \ {k}]
             left == IF rest = {} THEN [local EXCEPT ![j] = NoLocal]
                     ELSE [local EXCEPT ![j] = next]
  <2>1. next \in Local /\ NoLocal \in Local
    <3>1. local[j] \in Local /\ rest \in SUBSET Cr
      BY DEF TypeOK, Local
    <3> QED
      BY <3>1, <1>4, LocalType
  <2>2. left \in [Job -> Local] /\ left[i] = local[i]
    <3>1. left \in [Job -> Local]
      BY <2>1, SetLocal
    <3>2. left[i] = local[i]
      BY <1>4 DEF TypeOK
    <3> QED
      BY <3>1, <3>2
  <2>3. local' = OutdateBranch(left, k) \/ local' = left
    BY <1>4 DEF UpdateBranch
  <2> HIDE DEF left
  <2>4. SameLocal(OutdateBranch(left, k)[i], left[i])
    BY <2>2, OutdateSame
  <2> QED
    BY <2>2, <2>3, <2>4 DEF SameLocal
<1> QED
  BY <1>1, <1>2, <1>3, <1>4 DEF NoneStarted, SameLocal

LEMMA EnvironmentStartsNone ==
    ASSUME TypeOK, [Next]_vars, ~ \E j \in Job : Step(j)
    PROVE  NoneStarted
<1>1. ASSUME NEW p \in Pod, Crash(p) \/ Retire(p)
      PROVE  NoneStarted
  BY <1>1 DEF Crash, Retire, StopJobs, NoneStarted, Pending, SameLocal
<1>2. ASSUME NEW k \in Cr, WatcherWrite(k)
      PROVE  NoneStarted
  BY <1>2, OutdateSame DEF WatcherWrite, NoneStarted, TypeOK
<1>3. CASE UNCHANGED <<pc, local>>
  BY <1>3 DEF NoneStarted, SameLocal
<1> QED
  BY <1>1, <1>2, <1>3 DEF Next, ServeLate, DeleteTxn, WatcherRead, ExternalPush,
     control, vars

(***************************************************************************)
(* A clone no other pod uses stays as it is while a job has it: in memory  *)
(* it is the job's own, and on disk the other jobs of the pod wait.        *)
(***************************************************************************)
LEMMA CacheKept ==
    ASSUME TypeOK, [Next]_vars, NEW i \in Job, RepoOf(i) \notin SharedRepos,
           local[i].onDisk, ~Acquire(i)
    PROVE  cache'[RepoOf(i)] = cache[RepoOf(i)]
<1>1. ASSUME NEW j \in Job, Acquire(j), j # i
      PROVE  cache'[RepoOf(i)] = cache[RepoOf(i)]
  <2>1. CASE RepoOf(j) # RepoOf(i)
    BY <1>1, <2>1, AcquireEffect, JobType DEF TypeOK
  <2>2. CASE RepoOf(j) = RepoOf(i) /\ cache' # cache
    <3>1. RepoOf(j) \in CachedRepos
      BY <1>1, <2>2, AcquireEffect
    <3>2. \E p \in Pod : Pod = {p}
      BY <2>2, <3>1 DEF SharedRepos
    <3>3. j[1] = i[1]
      BY <3>2, JobType
    <3>4. Locked(j)
      BY <1>1, <2>2, <3>3 DEF Locked
    <3> QED
      BY <1>1, <3>4 DEF Acquire
  <2> QED
    BY <2>1, <2>2
<1>2. ASSUME NEW j \in Job, Step(j), ~Acquire(j)
      PROVE  cache' = cache
  BY <1>2 DEF Step, Get, MarkInProgress, StatusWriteRefused, GiveUp, NegotiatePush,
     SendPush, TimeOutPush, ReadResult, MarkSucceeded, FailTransaction, ListBranches,
     UpdateBranch, AbandonBranches, git
<1>3. CASE ~ \E j \in Job : Step(j)
  BY <1>3 DEF Next, ServeLate, Crash, Retire, DeleteTxn, WatcherRead, WatcherWrite,
     ExternalPush, git, vars
<1> QED
  BY <1>1, <1>2, <1>3

LEMMA SourceKept ==
    ASSUME TypeOK, [Next]_vars, NEW i \in Job, RepoOf(i) \notin SharedRepos, ~Acquire(i),
           local'[i].onDisk = local[i].onDisk, local'[i].clone = local[i].clone
    PROVE  SourceOf(i, 1)' = SourceOf(i, 1)
<1>1. CASE local[i].onDisk
  BY <1>1, CacheKept DEF SourceOf, CloneOf
<1>2. CASE ~local[i].onDisk
  BY <1>2 DEF SourceOf, CloneOf
<1> QED
  BY <1>1, <1>2

OutcomesKept == \A t \in Txn : outcome[t] \subseteq outcome'[t]

(* The parts of SettledInv and ResultInv that speak of one job. *)
JobSettled(j) == SendingSettles(j) /\ EndedSettled(j)

JobNames(j) == SendingNames(j) /\ ReadingNames(j) /\ SucceedingTells(j)

PushInv == SettledInv /\ ResultInv

(***************************************************************************)
(* A pending push stays settled as long as nobody forgets an outcome.      *)
(***************************************************************************)
LEMMA PendingKept ==
    ASSUME TypeOK, PushInv, [Next]_vars, OutcomesKept, NEW i \in Job,
           pc'[i] \in Pending => pc[i] = pc'[i] /\ SameLocal(local'[i], local[i])
    PROVE  JobSettled(i)' /\ JobNames(i)'
<1>1. i[2] \in Txn /\ outcome[i[2]] \subseteq outcome'[i[2]]
  BY JobType DEF OutcomesKept
<1>2. CASE pc'[i] \in Pending
  <2>1. /\ pc[i] = pc'[i] /\ SameLocal(local'[i], local[i])
        /\ JobSettled(i) /\ JobNames(i)
    BY <1>2 DEF PushInv, SettledInv, ResultInv, JobSettled, JobNames
  <2>2. ~Acquire(i)
    BY <1>2, <2>1 DEF Acquire, At, Pending
  <2>3. JobSettled(i)'
    BY <1>1, <2>1 DEF JobSettled, SendingSettles, EndedSettled, AllSettled, DealtWith, SameLocal
  <2>4. RepoOf(i) \notin SharedRepos => SourceOf(i, 1)' = SourceOf(i, 1)
    BY <2>1, <2>2, SourceKept DEF SameLocal
  <2>5. SendingNames(i)' /\ ReadingNames(i)'
    <3>1. CASE RepoOf(i) \in SharedRepos
      BY <3>1 DEF SendingNames, ReadingNames
    <3>2. CASE RepoOf(i) \notin SharedRepos
      <4> DEFINE source == SourceOf(i, 1)
      <4>1. SourceOf(i, 1)' = source
        BY <2>4, <3>2
      <4>2. /\ pc[i] = "sending" => \/ <<1, source>> \in outcome[i[2]]
                                   \/ \E c \in local[i].commands : c.refSpec = 1 /\ c.new = source
            /\ pc[i] = "reading" => <<1, source>> \in outcome[i[2]]
        BY <2>1, <3>2 DEF JobNames, SendingNames, ReadingNames
      <4> HIDE DEF source
      <4> QED
        BY <1>1, <2>1, <4>1, <4>2 DEF SendingNames, ReadingNames, SameLocal
    <3> QED
      BY <3>1, <3>2
  <2>6. SucceedingTells(i)'
    BY <1>1, <2>1 DEF JobNames, SucceedingTells, ResultTold, SameLocal
  <2> QED
    BY <2>3, <2>5, <2>6 DEF JobNames
<1>3. CASE pc'[i] \notin Pending
  BY <1>3 DEF JobSettled, SendingSettles, EndedSettled, JobNames, SendingNames, ReadingNames,
     SucceedingTells, Pending
<1> QED
  BY <1>2, <1>3

(***************************************************************************)
(* A push that has ended without an error has settled everything.          *)
(***************************************************************************)
LEMMA PushEndSettles ==
    ASSUME TypeOK, NEW j \in Job, Pushed(j) \/ PushRejected(j), cache' = cache,
           Pushed(j) => /\ \A i \in DOMAIN RefSpecs(j[2]) :
                                \E c \in MaybeCommit : <<i, c>> \in outcome'[j[2]]
                        /\ RepoOf(j) \notin SharedRepos => <<1, SourceOf(j, 1)>> \in outcome'[j[2]]
    PROVE  JobSettled(j)' /\ JobNames(j)'
<1> USE DEF JobSettled, JobNames, SendingSettles, EndedSettled, SendingNames, ReadingNames,
        SucceedingTells
<1>1. CASE PushRejected(j)
  <2>1. pc'[j] = "failing"
    BY <1>1 DEF PushRejected, Goto, TypeOK
  <2> QED
    BY <2>1
<1>2. CASE Pushed(j)
  <2>1. pc'[j] = "reading"
    BY <1>2 DEF Pushed, Goto, TypeOK
  <2>2. local'[j].onDisk = local[j].onDisk /\ local'[j].clone = local[j].clone
    <3>1. LET end == [local[j] EXCEPT !.commands = {}]
          IN end.onDisk = local[j].onDisk /\ end.clone = local[j].clone
      BY DEF TypeOK, Local
    <3> QED
      BY <1>2, <3>1 DEF Pushed, TypeOK
  <2>3. SourceOf(j, 1)' = SourceOf(j, 1)
    BY <2>2 DEF SourceOf, CloneOf
  <2>4. AllSettled(j[2])'
    BY <1>2 DEF AllSettled, DealtWith
  <2> QED
    BY <1>2, <2>1, <2>3, <2>4
<1> QED
  BY <1>1, <1>2

LEMMA PushEndOthers ==
    ASSUME TypeOK, NEW j \in Job, Pushed(j) \/ PushRejected(j), NEW i \in Job, i # j
    PROVE  pc'[i] = pc[i] /\ SameLocal(local'[i], local[i])
BY DEF Pushed, PushRejected, Goto, TypeOK, SameLocal

(***************************************************************************)
(* The two halves of a push keep every job settled.                        *)
(***************************************************************************)
LEMMA NegotiationSettles ==
    ASSUME TypeOK, PushInv, [Next]_vars, NEW j \in Job, NegotiatePush(j)
    PROVE  /\ OutcomesKept
           /\ \A i \in Job : JobSettled(i)' /\ JobNames(i)'
<1>1. outcome' = [outcome EXCEPT ![j[2]] = @ \cup Settled(j)] /\ cache' = cache
  BY DEF NegotiatePush, git
<1>2. OutcomesKept
  BY <1>1 DEF OutcomesKept, TypeOK
<1>3. \A i \in DOMAIN RefSpecs(j[2]) :
        \/ <<i, SourceOf(j, i)>> \in outcome'[j[2]]
        \/ \E c \in Commands(j) : c.refSpec = i /\ c.new = SourceOf(j, i)
  <2> SUFFICES ASSUME NEW i \in DOMAIN RefSpecs(j[2])
               PROVE  \/ <<i, SourceOf(j, i)>> \in outcome'[j[2]]
                      \/ \E c \in Commands(j) : c.refSpec = i /\ c.new = SourceOf(j, i)
    OBVIOUS
  <2>1. CASE i \in {c.refSpec : c \in Commands(j)}
    BY <2>1 DEF Commands, SourceOf
  <2>2. CASE i \notin {c.refSpec : c \in Commands(j)}
    <3>1. <<i, SourceOf(j, i)>> \in Settled(j)
      BY <2>2 DEF Settled, SourceOf
    <3> QED
      BY <1>1, <3>1, JobType DEF TypeOK
  <2> QED
    BY <2>1, <2>2
<1>4. /\ \A i \in DOMAIN RefSpecs(j[2]) : SourceOf(j, i) \in MaybeCommit
      /\ 1 \in DOMAIN RefSpecs(j[2])
  BY SourceType, JobType
<1>5. CASE (Pushed(j) /\ Commands(j) = {}) \/ PushRejected(j)
  <2>1. JobSettled(j)' /\ JobNames(j)'
    <3>1. Pushed(j) => Commands(j) = {}
      BY <1>5, PushEndEffect DEF Pushed, PushRejected, Goto, TypeOK
    <3>2. Pushed(j) => \A i \in DOMAIN RefSpecs(j[2]) : <<i, SourceOf(j, i)>> \in outcome'[j[2]]
      BY <1>3, <3>1
    <3> QED
      BY <1>1, <1>4, <1>5, <3>2, PushEndSettles
  <2>2. \A i \in Job : i # j => JobSettled(i)' /\ JobNames(i)'
    BY <1>2, <1>5, PushEndOthers, PendingKept
  <2> QED
    BY <1>2, <2>1, <2>2
<1>6. CASE /\ Goto(j, "sending")
           /\ local' = [local EXCEPT ![j] = [local[j] EXCEPT !.commands = Commands(j)]]
  <2>1. local[j] \in Local
    BY DEF TypeOK
  <2>2. LET next == [local[j] EXCEPT !.commands = Commands(j)]
        IN /\ next.commands = Commands(j)
           /\ next.clone = local[j].clone /\ next.onDisk = local[j].onDisk
    BY <2>1 DEF Local
  <2>3. /\ local'[j].commands = Commands(j)
        /\ local'[j].clone = local[j].clone /\ local'[j].onDisk = local[j].onDisk
    BY <1>6, <2>2 DEF TypeOK
  <2>4. SourceOf(j, 1)' = SourceOf(j, 1)
    BY <1>1, <2>3 DEF SourceOf, CloneOf
  <2>5. pc'[j] = "sending"
    BY <1>6 DEF Goto, TypeOK
  <2>6. JobSettled(j)'
    BY <1>3, <1>4, <2>3, <2>5 DEF JobSettled, SendingSettles, EndedSettled, DealtWith
  <2>7. JobNames(j)'
    BY <1>3, <1>4, <2>3, <2>4, <2>5 DEF JobNames, SendingNames, ReadingNames, SucceedingTells
  <2>8. \A i \in Job : i # j => pc'[i] = pc[i] /\ local'[i] = local[i]
    BY <1>6 DEF Goto, TypeOK
  <2>9. \A i \in Job : i # j => JobSettled(i)' /\ JobNames(i)'
    BY <1>2, <2>8, PendingKept DEF SameLocal
  <2> QED
    BY <1>2, <2>6, <2>7, <2>9
<1> QED
  BY <1>2, <1>5, <1>6 DEF NegotiatePush

LEMMA SendingSettlesAll ==
    ASSUME TypeOK, PushInv, [Next]_vars, NEW j \in Job, SendPush(j)
    PROVE  /\ OutcomesKept
           /\ \A i \in Job : JobSettled(i)' /\ JobNames(i)'
<1>1. PICK refused \in SUBSET local[j].commands :
          LET applied == Applied(j, local[j].commands, refused) IN
          /\ outcome' = [outcome EXCEPT ![j[2]] =
                  @ \cup {<<c.refSpec, c.new>> : c \in applied}]
          /\ \/ applied = local[j].commands /\ Pushed(j)
             \/ PushRejected(j)
  BY DEF SendPush, Serve
<1> DEFINE applied == Applied(j, local[j].commands, refused)
<1>2. OutcomesKept
  BY <1>1 DEF OutcomesKept, TypeOK
<1>3. Pushed(j) =>
        /\ \A i \in DOMAIN RefSpecs(j[2]) : \E c \in MaybeCommit : <<i, c>> \in outcome'[j[2]]
        /\ RepoOf(j) \notin SharedRepos => <<1, SourceOf(j, 1)>> \in outcome'[j[2]]
  <2>1. Pushed(j) => ~PushRejected(j)
    BY DEF Pushed, PushRejected, Goto, TypeOK
  <2>2. JobSettled(j) /\ JobNames(j) /\ pc[j] = "sending"
    BY DEF PushInv, SettledInv, ResultInv, JobSettled, JobNames, SendPush, At
  <2>3. outcome'[j[2]] = outcome[j[2]] \cup {<<c.refSpec, c.new>> : c \in applied}
    BY <1>1, JobType DEF TypeOK
  <2>4. \A c \in local[j].commands : c.new \in MaybeCommit
    BY RequestType DEF Command
  <2>5. Pushed(j) => outcome'[j[2]] = outcome[j[2]] \cup
                        {<<c.refSpec, c.new>> : c \in local[j].commands}
    BY <1>1, <2>1, <2>3
  <2>6. Pushed(j) => \A i \in DOMAIN RefSpecs(j[2]) :
                        \E c \in MaybeCommit : <<i, c>> \in outcome'[j[2]]
    BY <2>2, <2>4, <2>5 DEF JobSettled, SendingSettles, DealtWith
  <2>7. Pushed(j) /\ RepoOf(j) \notin SharedRepos => <<1, SourceOf(j, 1)>> \in outcome'[j[2]]
    BY <2>2, <2>5 DEF JobNames, SendingNames
  <2> QED
    BY <2>6, <2>7
<1>4. JobSettled(j)' /\ JobNames(j)'
  <2>1. cache' = cache
    BY DEF SendPush
  <2> QED
    BY <1>1, <1>3, <2>1, PushEndSettles
<1>5. \A i \in Job : i # j => JobSettled(i)' /\ JobNames(i)'
  BY <1>1, <1>2, PushEndOthers, PendingKept
<1> QED
  BY <1>2, <1>4, <1>5

(***************************************************************************)
(* The job reads, where its source is a ref, what it has pushed.           *)
(***************************************************************************)
LEMMA ReadingSettles ==
    ASSUME TypeOK, PushInv, [Next]_vars, NEW j \in Job, ReadResult(j)
    PROVE  /\ OutcomesKept
           /\ \A i \in Job : JobSettled(i)' /\ JobNames(i)'
<1>1. outcome' = outcome /\ OutcomesKept
  BY DEF ReadResult, OutcomesKept
<1>2. pc[j] = "reading" /\ pc'[j] = "succeeding" /\ AllSettled(j[2])
  BY DEF ReadResult, At, Goto, TypeOK, PushInv, SettledInv, EndedSettled
<1>3. local'[j].result = ResultOf(j)
  <2>1. [NoLocal EXCEPT !.result = ResultOf(j)].result = ResultOf(j)
    BY DEF NoLocal
  <2> QED
    BY <2>1 DEF ReadResult, TypeOK
<1>4. ResultTold(j[2], ResultOf(j))
  <2>1. RepoOf(j) \notin SharedRepos => <<1, SourceOf(j, 1)>> \in outcome[j[2]]
    BY <1>2 DEF PushInv, ResultInv, ReadingNames
  <2>2. NamesRef(RefSpecs(j[2])[1]) => ResultOf(j) = SourceOf(j, 1)
    BY DEF ResultOf, SourceOf, Resolve, NamesRef
  <2>3. ~NamesRef(RefSpecs(j[2])[1]) => ResultOf(j) = NoCommit
    BY DEF ResultOf
  <2> QED
    BY <2>1, <2>2, <2>3 DEF ResultTold, RepoOf, SpecOf
<1>5. JobSettled(j)' /\ JobNames(j)'
  BY <1>1, <1>2, <1>3, <1>4 DEF JobSettled, JobNames, SendingSettles, EndedSettled,
     SendingNames, ReadingNames, SucceedingTells, AllSettled, DealtWith, ResultTold
<1>6. \A i \in Job : i # j => pc'[i] = pc[i] /\ SameLocal(local'[i], local[i])
  BY DEF ReadResult, Goto, TypeOK, SameLocal
<1>7. \A i \in Job : i # j => JobSettled(i)' /\ JobNames(i)'
  BY <1>1, <1>6, PendingKept
<1> QED
  BY <1>1, <1>5, <1>7

LEMMA NextPush == TypeOK /\ PushInv /\ [Next]_vars => PushInv'
<1> SUFFICES ASSUME TypeOK, PushInv, [Next]_vars
             PROVE  PushInv'
  OBVIOUS
<1> DEFINE Kept == /\ OutcomesKept
                   /\ \A i \in Job : JobSettled(i)' /\ JobNames(i)'
<1>1. Kept
  <2>1. ASSUME NoneStarted, OutcomesKept
        PROVE  Kept
    <3>1. ASSUME NEW i \in Job
          PROVE  JobSettled(i)' /\ JobNames(i)'
      <4>1. pc'[i] \in Pending => pc[i] = pc'[i] /\ SameLocal(local'[i], local[i])
        BY <2>1 DEF NoneStarted
      <4> QED
        BY <2>1, <4>1, PendingKept
    <3> QED
      BY <2>1, <3>1
  <2>2. ASSUME NEW j \in Job, Step(j), ~NegotiatePush(j), ~SendPush(j), ~ReadResult(j)
        PROVE  NoneStarted /\ OutcomesKept
    BY <2>2, StepStartsNone, StepCommands DEF NothingNew, OutcomesKept
  <2>3. CASE ~ \E j \in Job : Step(j)
    <3>1. OutcomesKept
      <4>1. ASSUME NEW q \in sent, ServeLate(q)
            PROVE  OutcomesKept
        BY <4>1 DEF ServeLate, Serve, OutcomesKept, TypeOK
      <4>2. CASE ~ \E q \in sent : ServeLate(q)
        BY <2>3, <4>2, EnvironmentCommands DEF NothingNew, OutcomesKept
      <4> QED
        BY <4>1, <4>2
    <3>2. NoneStarted
      BY <2>3, EnvironmentStartsNone
    <3> QED
      BY <2>1, <3>1, <3>2
  <2>4. CASE \E j \in Job : Step(j)
    <3>1. PICK j \in Job : Step(j)
      BY <2>4
    <3>2. CASE NegotiatePush(j)
      BY <3>2, NegotiationSettles
    <3>3. CASE SendPush(j)
      BY <3>3, SendingSettlesAll
    <3>4. CASE ReadResult(j)
      BY <3>4, ReadingSettles
    <3>5. CASE ~NegotiatePush(j) /\ ~SendPush(j) /\ ~ReadResult(j)
      BY <2>1, <2>2, <3>1, <3>5
    <3> QED
      BY <3>2, <3>3, <3>4, <3>5
  <2> QED
    BY <2>3, <2>4
<1>2. \A t \in Txn : phase'[t] = "Succeeded" =>
        /\ AllSettled(t)'
        /\ ResultTold(t, resultCommit[t])'
  <2>1. ASSUME NEW t \in Txn, phase'[t] = "Succeeded",
               phase[t] = "Succeeded", resultCommit'[t] = resultCommit[t]
        PROVE  /\ AllSettled(t)'
               /\ ResultTold(t, resultCommit[t])'
    BY <1>1, <2>1 DEF PushInv, SettledInv, ResultInv, SucceededSettled, ResultIsLanded,
       AllSettled, DealtWith, OutcomesKept, ResultTold
  <2>2. ASSUME NEW j \in Job, MarkSucceeded(j)
        PROVE  /\ AllSettled(j[2])'
               /\ ResultTold(j[2], resultCommit[j[2]])'
    <3>1. /\ AllSettled(j[2]) /\ ResultTold(j[2], local[j].result)
          /\ resultCommit'[j[2]] = local[j].result
      BY <2>2, JobType DEF MarkSucceeded, At, PushInv, SettledInv, ResultInv, EndedSettled,
         SucceedingTells, TypeOK
    <3> QED
      BY <1>1, <3>1, JobType DEF AllSettled, DealtWith, OutcomesKept, ResultTold
  <2>3. ASSUME NEW t \in Txn, phase'[t] = "Succeeded",
               ~ \E j \in Job : MarkSucceeded(j) /\ j[2] = t
        PROVE  phase[t] = "Succeeded" /\ resultCommit'[t] = resultCommit[t]
    <3>1. ASSUME NEW j \in Job, Step(j)
          PROVE  phase[t] = "Succeeded" /\ resultCommit'[t] = resultCommit[t]
      <4>1. CASE MarkSucceeded(j)
        BY <2>3, <4>1, JobType DEF MarkSucceeded, TypeOK
      <4>2. CASE MarkInProgress(j) \/ FailTransaction(j)
        BY <2>3, <4>2, JobType DEF MarkInProgress, InProgress, FailTransaction, TypeOK
      <4>3. CASE ~(MarkSucceeded(j) \/ MarkInProgress(j) \/ FailTransaction(j))
        BY <2>3, <3>1, <4>3 DEF Step, Get, StatusWriteRefused, GiveUp, ReadResult, Acquire,
           NegotiatePush, SendPush, TimeOutPush, ListBranches, UpdateBranch, AbandonBranches,
           objects
      <4> QED
        BY <4>1, <4>2, <4>3
    <3>2. CASE ~ \E j \in Job : Step(j)
      BY <2>3, <3>2 DEF Next, ServeLate, Crash, Retire, DeleteTxn, WatcherRead, WatcherWrite,
         ExternalPush, objects, vars, TypeOK
    <3> QED
      BY <3>1, <3>2
  <2> QED
    BY <2>1, <2>2, <2>3
<1>3. SettledInv'
  BY <1>1, <1>2 DEF SettledInv, JobSettled, SucceededSettled, AllSettled, DealtWith
<1>4. ResultInv'
  BY <1>1, <1>2 DEF ResultInv, JobNames, ResultIsLanded
<1> QED
  BY <1>3, <1>4 DEF PushInv

LEMMA InitPush == Init => PushInv
BY DEF Init, PushInv, SettledInv, ResultInv, SendingSettles, EndedSettled, SendingNames,
   ReadingNames, SucceedingTells, SucceededSettled, ResultIsLanded

LEMMA AlwaysPush == Spec => []PushInv
BY InitType, NextType, InitPush, NextPush, PTL DEF Spec

(***************************************************************************)
(* Succeeded means that every refspec was dealt with.                      *)
(***************************************************************************)
THEOREM SuccessIsSettled == Spec => []SucceededSettled
<1>1. PushInv => SucceededSettled
  BY DEF PushInv, SettledInv
<1> QED
  BY <1>1, AlwaysPush, PTL

(***************************************************************************)
(* A recorded result was on the first refspec's destination, and an empty  *)
(* one, for a source that is a ref, says there was no such ref, unless     *)
(* several pods share the clone; a source that is no ref leaves none.      *)
(***************************************************************************)
THEOREM ResultLanded == Spec => []ResultIsLanded
<1>1. PushInv => ResultIsLanded
  BY DEF PushInv, ResultInv
<1> QED
  BY <1>1, AlwaysPush, PTL

-----------------------------------------------------------------------------
(* Heads: what updateBranches writes.                                      *)

(* Only the first refspec of a transaction ever pushes to k's branch. *)
FirstOnly(k) ==
    \A t \in Txn : \A i \in DOMAIN RefSpecs(t) :
        /\ CrSpec[k].repositoryRef = TxnSpec[t].repositoryRef
        /\ CrSpec[k].branchName = Destination(t, i)
        => i = 1

(* No result for k's branch is read from a clone that several pods use. *)
ReadAlone(k) ==
    CrSpec[k].repositoryRef \in SharedRepos =>
        \A t \in Txn : CrSpec[k].repositoryRef = TxnSpec[t].repositoryRef
                          /\ CrSpec[k].branchName = Destination(t, 1)
                       => ~NamesRef(RefSpecs(t)[1])

SeenOnBranch(k) == seen[k] # NoCommit => InHistory(seen[k], RemoteHead(k))

HeadOnBranch(k) == headCommit[k] # NoCommit => InHistory(headCommit[k], RemoteHead(k))

(* A job in updateBranches holds the result of its push. *)
UpdateTold(j) ==
    pc[j] \in {"listing", "updating"} =>
        /\ ResultTold(j[2], local[j].result)
        /\ pc[j] = "updating" => \A k \in local[j].todo : Matching(j, k) # {}

UpdateInv == \A j \in Job : UpdateTold(j)

(* The locals that matter to updateBranches. *)
SameUpdate(a, b) == a.result = b.result /\ a.todo = b.todo

LEMMA OutdateUpdate ==
    ASSUME NEW loc \in [Job -> Local], NEW k \in Cr, NEW i \in Job
    PROVE  SameUpdate(OutdateBranch(loc, k)[i], loc[i])
<1>1. OutdateBranch(loc, k)[i] = [loc[i] EXCEPT !.listed = @ \ {k}]
  BY DEF OutdateBranch
<1>2. loc[i] \in Local
  OBVIOUS
<1>3. LET out == [loc[i] EXCEPT !.listed = @ \ {k}]
      IN out.result = loc[i].result /\ out.todo = loc[i].todo
  BY <1>2 DEF Local
<1> QED
  BY <1>1, <1>3 DEF SameUpdate

(***************************************************************************)
(* Outcomes are never forgotten.                                           *)
(***************************************************************************)
LEMMA OutcomesGrow == TypeOK /\ [Next]_vars => OutcomesKept
<1> SUFFICES ASSUME TypeOK, [Next]_vars
             PROVE  OutcomesKept
  OBVIOUS
<1>1. ASSUME NEW j \in Job, Step(j)
      PROVE  OutcomesKept
  <2>1. CASE NegotiatePush(j)
    BY <2>1 DEF NegotiatePush, OutcomesKept, TypeOK
  <2>2. CASE SendPush(j)
    BY <2>2 DEF SendPush, Serve, OutcomesKept, TypeOK
  <2> QED
    BY <1>1, <2>1, <2>2, StepCommands DEF NothingNew, OutcomesKept
<1>2. ASSUME NEW q \in sent, ServeLate(q)
      PROVE  OutcomesKept
  BY <1>2 DEF ServeLate, Serve, OutcomesKept, TypeOK
<1> QED
  BY <1>1, <1>2, EnvironmentCommands DEF NothingNew, OutcomesKept

(* A job that goes on as it was. *)
LEMMA UpdateSame ==
    ASSUME NEW i \in Job, UpdateTold(i), OutcomesKept,
           pc'[i] = pc[i], SameUpdate(local'[i], local[i])
    PROVE  UpdateTold(i)'
<1>1. outcome[i[2]] \subseteq outcome'[i[2]]
  BY JobType DEF OutcomesKept
<1> QED
  BY <1>1 DEF UpdateTold, ResultTold, SameUpdate, Matching

LEMMA StepUpdates ==
    ASSUME TypeOK, PushInv, UpdateInv, OutcomesKept, NEW j \in Job, Step(j)
    PROVE  UpdateInv'
<1>1. ASSUME NEW i \in Job, i # j
      PROVE  pc'[i] = pc[i]
  BY <1>1 DEF Step, Get, MarkInProgress, StatusWriteRefused, GiveUp, ReadResult, Acquire, NegotiatePush,
     SendPush, Pushed, TimeOutPush, PushRejected, MarkSucceeded, FailTransaction, ListBranches,
     UpdateBranch, AbandonBranches, Accepted, Return, Goto, TypeOK
<1>2. ASSUME ~ \E k \in Cr : UpdateBranch(j, k), NEW i \in Job, i # j
      PROVE  local'[i] = local[i]
  BY <1>2 DEF Step, Get, MarkInProgress, StatusWriteRefused, GiveUp, ReadResult, Acquire, NegotiatePush,
     SendPush, Pushed, TimeOutPush, PushRejected, MarkSucceeded, FailTransaction, ListBranches,
     AbandonBranches, Accepted, Return, TypeOK
<1>3. ASSUME ~ \E k \in Cr : UpdateBranch(j, k), UpdateTold(j)'
      PROVE  UpdateInv'
  <2>1. \A i \in Job : i # j => UpdateTold(i)'
    BY <1>1, <1>2, <1>3, UpdateSame DEF UpdateInv, SameUpdate
  <2> QED
    BY <1>3, <2>1 DEF UpdateInv
<1>4. CASE MarkSucceeded(j)
  <2>1. ~ \E k \in Cr : UpdateBranch(j, k)
    BY <1>4 DEF MarkSucceeded, UpdateBranch, At
  <2>2. ResultTold(j[2], local[j].result) /\ outcome[j[2]] \subseteq outcome'[j[2]]
    BY <1>4, JobType DEF MarkSucceeded, At, PushInv, ResultInv, SucceedingTells, OutcomesKept
  <2>3. \/ pc'[j] = "idle"
        \/ pc'[j] = "listing" /\ local'[j] = local[j]
    BY <1>4 DEF MarkSucceeded, Accepted, Goto, Return, TypeOK
  <2>4. UpdateTold(j)'
    BY <2>2, <2>3 DEF UpdateTold, ResultTold
  <2> QED
    BY <1>3, <2>1, <2>4
<1>5. CASE ListBranches(j)
  <2> DEFINE matching == {k \in Cr : Matching(j, k) # {}}
             next == [local[j] EXCEPT !.todo = matching, !.listed = matching]
  <2>1. ~ \E k \in Cr : UpdateBranch(j, k)
    BY <1>5 DEF ListBranches, UpdateBranch, At
  <2>2. next.result = local[j].result /\ next.todo = matching
    BY DEF TypeOK, Local
  <2>3. \/ pc'[j] = "idle"
        \/ pc'[j] = "updating" /\ local'[j].result = local[j].result /\ local'[j].todo = matching
    BY <1>5, <2>2 DEF ListBranches, Goto, Return, TypeOK
  <2>4. pc[j] = "listing" /\ UpdateTold(j) /\ outcome[j[2]] \subseteq outcome'[j[2]]
    BY <1>5, JobType DEF ListBranches, At, UpdateInv, OutcomesKept
  <2>5. UpdateTold(j)'
    BY <2>3, <2>4 DEF UpdateTold, ResultTold, Matching
  <2> QED
    BY <1>3, <2>1, <2>5
<1>6. ASSUME NEW k \in Cr, UpdateBranch(j, k)
      PROVE  UpdateInv'
  <2> DEFINE rest == local[j].todo \ {k}
             next == [local[j] EXCEPT !.todo = rest, !.listed = @ \ {k}]
             left == IF rest = {} THEN [local EXCEPT ![j] = NoLocal]
                     ELSE [local EXCEPT ![j] = next]
  <2>1. /\ next \in Local /\ NoLocal \in Local
        /\ next.result = local[j].result /\ next.todo = rest
    <3>1. local[j] \in Local /\ rest \in SUBSET Cr
      BY DEF TypeOK, Local
    <3> QED
      BY <3>1, <1>6, LocalType DEF Local
  <2>2. left \in [Job -> Local]
    BY <2>1, SetLocal
  <2>3. \A i \in Job : i # j => left[i] = local[i]
    BY DEF TypeOK
  <2>4. rest # {} => left[j] = next
    BY DEF TypeOK
  <2>5. local' = OutdateBranch(left, k) \/ local' = left
    BY <1>6 DEF UpdateBranch
  <2>6. rest = {} => pc'[j] = "idle"
    BY <1>6 DEF UpdateBranch, Goto, TypeOK
  <2>7. pc[j] = "updating" /\ UpdateTold(j) /\ outcome[j[2]] \subseteq outcome'[j[2]]
    BY <1>6, JobType DEF UpdateBranch, At, UpdateInv, OutcomesKept
  <2>8. rest \subseteq local[j].todo
    OBVIOUS
  <2> HIDE DEF left, next, rest
  <2>9. \A i \in Job : SameUpdate(local'[i], left[i])
    BY <2>2, <2>5, OutdateUpdate DEF SameUpdate
  <2>10. \A i \in Job : i # j => UpdateTold(i)'
    <3> SUFFICES ASSUME NEW i \in Job, i # j
                 PROVE  UpdateTold(i)'
      OBVIOUS
    <3>1. SameUpdate(local'[i], local[i])
      BY <2>3, <2>9
    <3> QED
      BY <1>1, <3>1, UpdateSame DEF UpdateInv
  <2>11. CASE rest = {}
    BY <2>6, <2>10, <2>11 DEF UpdateInv, UpdateTold
  <2>12. CASE rest # {}
    <3>1. local'[j].result = local[j].result /\ local'[j].todo \subseteq local[j].todo
      BY <2>1, <2>4, <2>8, <2>9, <2>12 DEF SameUpdate
    <3>2. UpdateTold(j)'
      BY <2>7, <3>1 DEF UpdateTold, ResultTold, Matching
    <3> QED
      BY <2>10, <3>2 DEF UpdateInv
  <2> QED
    BY <2>11, <2>12
<1>7. CASE /\ ~MarkSucceeded(j) /\ ~ListBranches(j)
           /\ ~ \E k \in Cr : UpdateBranch(j, k)
  <2>1. pc'[j] \notin {"listing", "updating"}
    <3>1. ASSUME NEW label, NEW copies, label \notin {"listing", "updating"},
                 Accepted(j, label, copies)
          PROVE  pc'[j] \notin {"listing", "updating"}
      BY <3>1, AcceptedEffect DEF TypeOK
    <3>2. CASE MarkInProgress(j) \/ FailTransaction(j)
      BY <3>1, <3>2 DEF MarkInProgress, FailTransaction, Goto, TypeOK
    <3>3. CASE ~(MarkInProgress(j) \/ FailTransaction(j))
      BY <1>7, <3>3 DEF Step, Get, StatusWriteRefused, GiveUp, ReadResult, Acquire, NegotiatePush, SendPush,
         Pushed, TimeOutPush, PushRejected, AbandonBranches, Return, Goto, TypeOK
    <3> QED
      BY <3>2, <3>3
  <2>2. UpdateTold(j)'
    BY <2>1 DEF UpdateTold
  <2> QED
    BY <1>3, <1>7, <2>2
<1> QED
  BY <1>4, <1>5, <1>6, <1>7

LEMMA NextUpdates == TypeOK /\ PushInv /\ UpdateInv /\ [Next]_vars => UpdateInv'
<1> SUFFICES ASSUME TypeOK, PushInv, UpdateInv, [Next]_vars
             PROVE  UpdateInv'
  OBVIOUS
<1>1. OutcomesKept
  BY OutcomesGrow
<1>2. CASE \E j \in Job : Step(j)
  BY <1>1, <1>2, StepUpdates
<1>3. CASE ~ \E j \in Job : Step(j)
  <2>1. ASSUME NEW i \in Job
        PROVE  \/ pc'[i] = "idle"
               \/ pc'[i] = pc[i] /\ SameUpdate(local'[i], local[i])
    <3>1. ASSUME NEW p \in Pod, Crash(p) \/ Retire(p)
          PROVE  pc'[i] = "idle" \/ (pc'[i] = pc[i] /\ local'[i] = local[i])
      BY <3>1 DEF Crash, Retire, StopJobs
    <3>2. ASSUME NEW k \in Cr, WatcherWrite(k)
          PROVE  pc'[i] = pc[i] /\ SameUpdate(local'[i], local[i])
      BY <3>2, OutdateUpdate DEF WatcherWrite, TypeOK
    <3>3. CASE UNCHANGED <<pc, local>>
      BY <3>3 DEF SameUpdate
    <3> QED
      BY <1>3, <3>1, <3>2, <3>3 DEF Next, ServeLate, DeleteTxn, WatcherRead, ExternalPush,
         control, vars, SameUpdate
  <2>2. ASSUME NEW i \in Job
        PROVE  UpdateTold(i)'
    <3>1. CASE pc'[i] = "idle"
      BY <3>1 DEF UpdateTold
    <3>2. CASE pc'[i] = pc[i] /\ SameUpdate(local'[i], local[i])
      BY <1>1, <3>2, UpdateSame DEF UpdateInv
    <3> QED
      BY <2>1, <3>1, <3>2
  <2> QED
    BY <2>2 DEF UpdateInv
<1> QED
  BY <1>2, <1>3

(***************************************************************************)
(* What was on the branch stays on it: so does what the watcher saw.       *)
(***************************************************************************)
LEMMA OnBranchStays ==
    ASSUME OnlyForward, TypeOK, CommandInv, [Next]_vars, NEW k \in Cr, NEW c \in Commit,
           InHistory(c, RemoteHead(k))
    PROVE  InHistory(c, RemoteHead(k)')
<1>1. CrSpec[k].repositoryRef \in Repo /\ CrSpec[k].branchName \in Branch
  BY PushAssumption
<1> QED
  BY <1>1, HistoryGrows DEF RemoteHead

LEMMA NextSeenOnBranch ==
    ASSUME OnlyForward, TypeOK, CommandInv, [Next]_vars, NEW k \in Cr, SeenOnBranch(k)
    PROVE  SeenOnBranch(k)'
<1>1. CASE seen'[k] = seen[k]
  <2>1. seen[k] \in MaybeCommit
    BY DEF TypeOK
  <2> QED
    BY <1>1, <2>1, OnBranchStays DEF SeenOnBranch, MaybeCommit
<1>2. CASE WatcherRead(k)
  <2>1. seen'[k] = RemoteHead(k) /\ RemoteHead(k)' = RemoteHead(k) /\ RemoteHead(k) # NoCommit
    BY <1>2 DEF WatcherRead, RemoteHead, git, TypeOK
  <2>2. RemoteHead(k) \in Commit
    BY <2>1, PushAssumption DEF RemoteHead, TypeOK, MaybeCommit
  <2> QED
    BY <2>1, <2>2, CommitGraphAssumption DEF SeenOnBranch, InHistory
<1>3. ASSUME ~WatcherRead(k)
      PROVE  seen'[k] = seen[k]
  <2>1. ASSUME NEW j \in Job, Step(j)
        PROVE  seen' = seen
    BY <2>1 DEF Step, Get, MarkInProgress, StatusWriteRefused, GiveUp, ReadResult, Acquire,
       NegotiatePush, SendPush, TimeOutPush, MarkSucceeded, FailTransaction, ListBranches,
       UpdateBranch, AbandonBranches
  <2>2. ASSUME ~ \E j \in Job : Step(j)
        PROVE  seen'[k] = seen[k]
    BY <1>3, <2>2 DEF Next, ServeLate, Crash, Retire, DeleteTxn, WatcherRead, WatcherWrite,
       ExternalPush, vars, TypeOK
  <2> QED
    BY <2>1, <2>2
<1> QED
  BY <1>1, <1>2, <1>3

(***************************************************************************)
(* A head that is written is on its branch, and what is on it stays.       *)
(***************************************************************************)
LEMMA NextHeads ==
    ASSUME OnlyForward, NEW k \in Cr, FirstOnly(k), ReadAlone(k), TypeOK, CommandInv,
           LandedStays, UpdateInv, SeenOnBranch(k), HeadOnBranch(k), [Next]_vars
    PROVE  HeadOnBranch(k)'
<1> DEFINE r == CrSpec[k].repositoryRef
           b == CrSpec[k].branchName
<1>0. r \in Repo /\ b \in Branch
  BY PushAssumption
<1>1. CASE headCommit'[k] = headCommit[k]
  <2>1. headCommit[k] \in MaybeCommit
    BY DEF TypeOK
  <2> QED
    BY <1>1, <2>1, OnBranchStays DEF HeadOnBranch, MaybeCommit
<1>2. ASSUME NEW j \in Job, UpdateBranch(j, k)
      PROVE  HeadOnBranch(k)'
  <2> DEFINE c == local[j].result
  <2>1. headCommit'[k] = c /\ remote' = remote
    BY <1>2 DEF UpdateBranch, git, TypeOK
  <2>2. ResultTold(j[2], c) /\ Matching(j, k) # {}
    BY <1>2 DEF UpdateBranch, NextBranches, At, UpdateInv, UpdateTold
  <2>3. TxnSpec[j[2]].repositoryRef = r /\ Destination(j[2], 1) = b
    BY <2>2, JobType DEF Matching, FirstOnly, Destination, RepoOf, SpecOf
  <2>4. c # NoCommit => <<1, c>> \in outcome[j[2]]
    BY <2>2, <2>3, JobType DEF ReadAlone, ResultTold
  <2>5. ASSUME c # NoCommit
        PROVE  InHistory(c, remote[r][b])
    <3>1. <<1, c>>[1] = 1 /\ <<1, c>>[2] = c
      OBVIOUS
    <3> QED
      BY <2>3, <2>4, <2>5, <3>1, JobType DEF LandedStays
  <2> QED
    BY <2>1, <2>5 DEF HeadOnBranch, RemoteHead
<1>3. CASE WatcherWrite(k)
  <2>1. headCommit'[k] = seen[k] /\ remote' = remote /\ seen[k] # NoCommit
    BY <1>3 DEF WatcherWrite, git, TypeOK
  <2> QED
    BY <2>1 DEF SeenOnBranch, HeadOnBranch, RemoteHead
<1>4. CASE ~(\E j \in Job : UpdateBranch(j, k)) /\ ~WatcherWrite(k)
  <2>1. ASSUME NEW j \in Job, Step(j)
        PROVE  headCommit'[k] = headCommit[k]
    BY <1>4, <2>1 DEF Step, Get, MarkInProgress, StatusWriteRefused, GiveUp, ReadResult, Acquire,
       NegotiatePush, SendPush, TimeOutPush, MarkSucceeded, FailTransaction, ListBranches,
       UpdateBranch, AbandonBranches, objects, TypeOK
  <2>2. ASSUME ~ \E j \in Job : Step(j)
        PROVE  headCommit'[k] = headCommit[k]
    BY <1>4, <2>2 DEF Next, ServeLate, Crash, Retire, DeleteTxn, WatcherRead, WatcherWrite,
       ExternalPush, objects, vars, TypeOK
  <2> QED
    BY <1>1, <2>1, <2>2
<1> QED
  BY <1>2, <1>3, <1>4

(***************************************************************************)
(* A GitBranch never names a commit that is not in the history of its      *)
(* branch, whatever pods, retries, late pushes and the watcher write in    *)
(* between, when every push is forward, only first refspecs push to the    *)
(* branch, and no pods share the clone the result is read from.  The       *)
(* transactions of the sync controller and the resolver have one refspec;  *)
(* with more, updateBranches gives the first one's result to the branches  *)
(* of all.  In a shared clone only a source that is no ref, which leaves   *)
(* no result, keeps a foreign commit out.                                  *)
(***************************************************************************)
THEOREM HeadsStayOnBranch ==
    ASSUME OnlyForward, NEW k \in Cr, FirstOnly(k), ReadAlone(k)
    PROVE  Spec => []HeadOnBranch(k)
<1>1. Init => UpdateInv /\ SeenOnBranch(k) /\ HeadOnBranch(k)
  BY DEF Init, UpdateInv, UpdateTold, SeenOnBranch, HeadOnBranch
<1>2. /\ TypeOK /\ CommandInv /\ LandedStays /\ PushInv
      /\ UpdateInv /\ SeenOnBranch(k) /\ HeadOnBranch(k) /\ [Next]_vars
      => UpdateInv' /\ SeenOnBranch(k)' /\ HeadOnBranch(k)'
  BY NextUpdates, NextSeenOnBranch, NextHeads
<1> QED
  BY <1>1, <1>2, AlwaysCommands, LandedForEver, AlwaysPush, PTL DEF Spec
=============================================================================
