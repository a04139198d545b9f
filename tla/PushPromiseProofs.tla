-------------------------- MODULE PushPromiseProofs --------------------------
(***************************************************************************)
(* The push controller keeps what PushPromise promises, for every value of *)
(* the constants.                                                          *)
(***************************************************************************)
EXTENDS PushControllerProofs

(***************************************************************************)
(* A push on its way has settled each refspec or carries a command for it. *)
(***************************************************************************)
RequestInv ==
    \A q \in sent : \A i \in DOMAIN RefSpecs(q.job[2]) :
        \/ DealtWith(q.job[2], i)
        \/ \E c \in q.commands : c.refSpec = i

Inv == TypeOK /\ ClaimInv /\ SentInv /\ CommandInv /\ PushInv /\ RequestInv

LEMMA NextRequests == TypeOK /\ PushInv /\ RequestInv /\ [Next]_vars => RequestInv'
<1> SUFFICES ASSUME TypeOK, PushInv, RequestInv, [Next]_vars,
                    NEW q \in sent', NEW i \in DOMAIN RefSpecs(q.job[2])
             PROVE  \/ DealtWith(q.job[2], i)'
                    \/ \E c \in q.commands : c.refSpec = i
  BY DEF RequestInv, DealtWith
<1>1. CASE q \in sent
  <2>1. q.job[2] \in Txn
    BY <1>1, RequestType, JobType
  <2> QED
    BY <1>1, <2>1, OutcomesGrow DEF RequestInv, OutcomesKept, DealtWith
<1>2. CASE q \notin sent
  <2>1. PICK j \in Job : pc[j] = "sending" /\ q = RequestOf(j)
    BY <1>2, NewRequests
  <2>2. q.job = j /\ q.commands = local[j].commands
    BY <2>1 DEF RequestOf
  <2>3. \/ DealtWith(j[2], i)
        \/ \E c \in local[j].commands : c.refSpec = i
    BY <2>1, <2>2 DEF PushInv, SettledInv, SendingSettles
  <2> QED
    BY <2>2, <2>3, JobType, OutcomesGrow DEF OutcomesKept, DealtWith
<1> QED
  BY <1>1, <1>2

LEMMA AlwaysInv == Spec => []Inv
<1>1. Init => RequestInv
  BY DEF Init, RequestInv
<1>2. TypeOK /\ PushInv /\ RequestInv /\ [Next]_vars => RequestInv'
  BY NextRequests
<1> QED
  BY <1>1, <1>2, AlwaysClaims, AlwaysCommands, AlwaysPush, PTL DEF Spec, Inv

-----------------------------------------------------------------------------
(* Each step of the controller is a step of PushPromise, or none.          *)

(* A step that PushPromise does not see. *)
Unseen == UNCHANGED <<phase, resultCommit, outcome, remote>>

Seen == [Promise!Next]_(Promise!vars)

LEMMA UnseenStutters == Unseen => Seen
BY DEF Unseen, Seen, Promise!vars

LEMMA TxnRefSpecs ==
    \A t : Promise!RefSpecs(t) = RefSpecs(t)
BY DEF Promise!RefSpecs, RefSpecs

(***************************************************************************)
(* A refspec for which nothing is sent has its commit on the branch, or    *)
(* has none.                                                               *)
(***************************************************************************)
LEMMA SettledIsThere ==
    ASSUME NEW j \in Job, NEW o \in Settled(j), o[2] # NoCommit
    PROVE  o[2] = remote[RepoOf(j)][RefSpecs(j[2])[o[1]].destination]
<1> DEFINE source(k) == Resolve(CloneOf(j), RefSpecs(j[2])[k].source)
           advertised(k) == remote[RepoOf(j)][RefSpecs(j[2])[k].destination]
<1>1. PICK i \in DOMAIN RefSpecs(j[2]) :
          o = <<i, source(i)>> /\ i \notin {c.refSpec : c \in Commands(j)}
  BY DEF Settled
<1> DEFINE command == [refSpec |-> i, old |-> advertised(i), new |-> source(i)]
<1>2. source(i) \notin {NoCommit, advertised(i)} => command \in Commands(j)
  BY DEF Commands
<1>3. command \notin Commands(j)
  BY <1>1
<1> QED
  BY <1>1, <1>2, <1>3

LEMMA NegotiationLands ==
    ASSUME Inv, NEW j \in Job, NegotiatePush(j)
    PROVE  Promise!Land(j[2])
<1> DEFINE t == j[2]
<1>1. t \in Txn /\ phase[t] # "Pending"
  BY JobType DEF Inv, ClaimInv, Claimed, Writing, NegotiatePush, At
<1>2. UNCHANGED <<phase, resultCommit, remote>>
  BY DEF NegotiatePush, objects, git
<1>3. Settled(j) \in SUBSET ((DOMAIN RefSpecs(t)) \X MaybeCommit)
  BY SourceType DEF Inv, Settled, SourceOf
<1>4. outcome' = [outcome EXCEPT ![t] = @ \cup Settled(j)]
  BY DEF NegotiatePush
<1>5. Promise!Holds(t, Settled(j))
  BY <1>2, SettledIsThere
  DEF Promise!Holds, Promise!RepoOf, Promise!RefSpecs, RefSpecs, RepoOf, SpecOf
<1>6. Promise!MovesForward(t, Settled(j))
  BY <1>2 DEF Promise!MovesForward
<1> QED
  BY <1>1, <1>2, <1>3, <1>4, <1>5, <1>6, TxnRefSpecs
  DEF Promise!Land, Promise!MaybeCommit, MaybeCommit

(***************************************************************************)
(* What the server makes of the commands of a claimed transaction.         *)
(***************************************************************************)
LEMMA HandlingLands ==
    ASSUME Inv, NEW j \in Job, NEW commands \in SUBSET Command, Sendable(j, commands),
           Handles(j, commands), phase[j[2]] # "Pending", UNCHANGED <<phase, resultCommit>>,
           \A i \in DOMAIN RefSpecs(j[2]) :
                DealtWith(j[2], i) \/ \E c \in commands : c.refSpec = i
    PROVE  Promise!Land(j[2])
<1> DEFINE t == j[2]
           r == RepoOf(j)
<1> USE TxnRefSpecs
<1>1. PICK refused \in SUBSET commands : Serve(j, Applied(j, commands, refused))
  BY DEF Handles
<1> DEFINE applied == Applied(j, commands, refused)
           moves == {<<c.refSpec, c.new>> : c \in applied}
<1>2. /\ t \in Txn /\ r \in Repo /\ r = TxnSpec[t].repositoryRef
      /\ applied \subseteq commands
      /\ \A c \in applied : c.old = remote[r][DestinationOf(j, c)]
  BY JobType DEF Applied, Applicable, RepoOf, SpecOf
<1>3. \A c \in applied : /\ c.refSpec \in DOMAIN RefSpecs(t)
                         /\ c.new \in MaybeCommit
                         /\ DestinationOf(j, c) \in Branch
                         /\ Permitted(t, c)
                         /\ \A d \in applied :
                                DestinationOf(j, d) = DestinationOf(j, c) => d = c
  BY <1>2, DestinationType DEF Sendable, Command, DestinationOf, Destination
<1>4. /\ outcome' = [outcome EXCEPT ![t] = @ \cup moves]
      /\ remote' = [remote EXCEPT ![r] = UpdatedRefs(j, applied)]
  BY <1>1 DEF Serve
<1>5. remote \in [Repo -> [Branch -> MaybeCommit]] /\ outcome \in [Txn -> SUBSET (Nat \X MaybeCommit)]
  BY DEF Inv, TypeOK
<1> HIDE DEF applied
<1>6. \A b \in Branch : \/ remote'[r][b] = remote[r][b] /\ ~ \E c \in applied : DestinationOf(j, c) = b
                        \/ \E c \in applied : DestinationOf(j, c) = b /\ remote'[r][b] = c.new
  BY <1>2, <1>4, <1>5 DEF UpdatedRefs
<1>7. \A q \in Repo : q # r => remote'[q] = remote[q]
  BY <1>4, <1>5
<1>8. moves \in SUBSET ((DOMAIN RefSpecs(t)) \X MaybeCommit)
  BY <1>3 DEF MaybeCommit
<1>9. Promise!Holds(t, moves)
  <2> SUFFICES ASSUME NEW c \in applied
               PROVE  remote'[r][DestinationOf(j, c)] = c.new
    BY <1>2 DEF Promise!RepoOf, Promise!Holds, DestinationOf
  <2>1. PICK d \in applied : /\ DestinationOf(j, d) = DestinationOf(j, c)
                             /\ remote'[r][DestinationOf(j, c)] = d.new
    BY <1>3, <1>6
  <2> QED
    BY <1>3, <2>1
<1>10. Promise!MovesForward(t, moves)
  <2> SUFFICES ASSUME NEW b \in Branch, remote'[r][b] # remote[r][b]
               PROVE  \E m \in moves :
                        /\ RefSpecs(t)[m[1]].destination = b
                        /\ remote'[r][b] = m[2]
                        /\ \/ Promise!MayLose(RefSpecs(t)[m[1]])
                           \/ FastForward(remote[r][b], m[2])
    BY <1>2, <1>7 DEF Promise!MovesForward, Promise!RepoOf, Promise!FastForward, FastForward
  <2>1. PICK c \in applied : DestinationOf(j, c) = b /\ remote'[r][b] = c.new
    BY <1>6
  <2>2. <<c.refSpec, c.new>> \in moves
    OBVIOUS
  <2>3. MayLose(RefSpecs(t)[c.refSpec]) => Promise!MayLose(RefSpecs(t)[c.refSpec])
    BY DEF MayLose, Deletes, Promise!MayLose
  <2> QED
    BY <1>2, <1>3, <2>1, <2>2, <2>3 DEF DestinationOf, Permitted
<1>11. remote' # remote /\ TxnSpec[t].atomic /\ Promise!RepoOf(t) \in AtomicRepos =>
           \A i \in DOMAIN RefSpecs(t) : Promise!DealtWith(t, i, outcome')
  <2> SUFFICES ASSUME remote' # remote, TxnSpec[t].atomic, r \in AtomicRepos, NEW i \in DOMAIN RefSpecs(t)
               PROVE  \E c \in MaybeCommit : <<i, c>> \in outcome'[t]
    BY <1>2 DEF Promise!RepoOf, Promise!DealtWith, Promise!MaybeCommit, MaybeCommit
  <2>1. applied # {}
    <3>1. CASE applied = {}
      <4>1. \A b \in Branch : UpdatedRefs(j, applied)[b] = remote[r][b]
        BY <3>1 DEF UpdatedRefs
      <4>2. UpdatedRefs(j, applied) = remote[r]
        BY <4>1, <1>2, <1>5 DEF UpdatedRefs
      <4> QED
        BY <1>2, <1>4, <1>5, <4>2
    <3> QED
      BY <3>1
  <2>2. applied = commands
    BY <2>1, <1>2 DEF applied, Applied, Atomic, SpecOf
  <2>3. outcome'[t] = outcome[t] \cup moves
    BY <1>2, <1>4, <1>5
  <2>4. CASE \E c \in commands : c.refSpec = i
    <3>1. PICK c \in applied : c.refSpec = i
      BY <2>2, <2>4
    <3>2. <<i, c.new>> \in moves
      BY <3>1
    <3> QED
      BY <1>3, <2>3, <3>1, <3>2 DEF MaybeCommit
  <2> QED
    BY <2>3, <2>4 DEF DealtWith
<1> QED
  BY <1>4, <1>8, <1>9, <1>10, <1>11 DEF Promise!Land, Promise!MaybeCommit, MaybeCommit

LEMMA StatusWritesSeen ==
    ASSUME Inv, NEW j \in Job
    PROVE  /\ MarkInProgress(j) => Seen
           /\ MarkSucceeded(j) => Promise!Succeed(j[2])
           /\ FailTransaction(j) => Promise!Fail(j[2])
<1> DEFINE t == j[2]
<1> USE TxnRefSpecs
<1>1. t \in Txn /\ phase \in [Txn -> Phase]
  BY JobType DEF Inv, TypeOK
<1>2. j \in fresh => phase[t] \in {"Pending", "InProgress"}
  BY DEF Inv, ClaimInv
<1>3. pc[j] \in {"succeeding", "failing"} => phase[t] # "Pending"
  BY DEF Inv, ClaimInv, Claimed, Writing
<1>4. ASSUME MarkInProgress(j)
      PROVE  Seen
  <2>1. j \in fresh /\ phase' = [phase EXCEPT ![t] = "InProgress"]
        /\ UNCHANGED <<resultCommit, outcome, remote>>
    BY <1>4 DEF MarkInProgress, InProgress, Accepted, Current, git
  <2>2. CASE phase[t] = "Pending"
    BY <1>1, <2>1, <2>2 DEF Seen, Promise!Next, Promise!Claim
  <2>3. CASE phase[t] = "InProgress"
    <3>1. phase' = phase
      BY <1>1, <2>1, <2>3
    <3> QED
      BY <2>1, <3>1, UnseenStutters DEF Unseen
  <2> QED
    BY <1>2, <2>1, <2>2, <2>3
<1>5. ASSUME MarkSucceeded(j)
      PROVE  Promise!Succeed(t)
  <2>1. /\ j \in fresh /\ pc[j] = "succeeding"
        /\ phase' = [phase EXCEPT ![t] = "Succeeded"]
        /\ resultCommit' = [resultCommit EXCEPT ![t] = local[j].result]
        /\ UNCHANGED <<outcome, remote>>
    BY <1>5 DEF MarkSucceeded, At, Accepted, Current, git
  <2>2. local[j].result \in MaybeCommit
    BY DEF Inv, TypeOK, Local
  <2>3. AllSettled(t) /\ ResultTold(t, local[j].result)
    BY <2>1 DEF Inv, PushInv, SettledInv, ResultInv, EndedSettled, SucceedingTells
  <2> QED
    BY <1>2, <1>3, <2>1, <2>2, <2>3
    DEF Promise!Succeed, Promise!DealtWith, Promise!RepoOf, AllSettled, DealtWith, ResultTold,
        NamesRef, Promise!MaybeCommit, MaybeCommit
<1>6. ASSUME FailTransaction(j)
      PROVE  Promise!Fail(t)
  BY <1>2, <1>3, <1>6 DEF FailTransaction, At, Accepted, Current, git, Promise!Fail
<1> QED
  BY <1>4, <1>5, <1>6

LEMMA NextSeen == Inv /\ [Next]_vars => Seen
<1> SUFFICES ASSUME Inv, [Next]_vars
             PROVE  Seen
  OBVIOUS
<1>1. ASSUME NEW t \in Txn, Promise!Land(t) \/ Promise!Succeed(t) \/ Promise!Fail(t)
      PROVE  Seen
  BY <1>1 DEF Seen, Promise!Next
<1>2. ASSUME NEW j \in Job, Step(j)
      PROVE  Seen
  <2>1. CASE MarkInProgress(j) \/ MarkSucceeded(j) \/ FailTransaction(j)
    BY <1>1, <2>1, StatusWritesSeen, JobType
  <2>2. CASE NegotiatePush(j)
    BY <1>1, <2>2, NegotiationLands, JobType
  <2>3. CASE SendPush(j)
    <3>1. pc[j] = "sending" /\ UNCHANGED <<phase, resultCommit>>
      BY <2>3 DEF SendPush, At, objects
    <3>2. \A i \in DOMAIN RefSpecs(j[2]) :
            DealtWith(j[2], i) \/ \E c \in local[j].commands : c.refSpec = i
      BY <3>1 DEF Inv, PushInv, SettledInv, SendingSettles
    <3>3. phase[j[2]] # "Pending"
      BY <3>1 DEF Inv, ClaimInv, Claimed, Writing
    <3>4. /\ Handles(j, local[j].commands) /\ Sendable(j, local[j].commands)
          /\ local[j].commands \in SUBSET Command
      BY <2>3, WhoHandles, RequestType DEF Inv, CommandInv
    <3> QED
      BY <1>1, <3>1, <3>2, <3>3, <3>4, HandlingLands, JobType
  <2>4. CASE ~(MarkInProgress(j) \/ MarkSucceeded(j) \/ FailTransaction(j)
                \/ NegotiatePush(j) \/ SendPush(j))
    <3>1. Unseen
      BY <1>2, <2>4 DEF Unseen, Step, Get, StatusWriteRefused, GiveUp, ReadResult, Acquire, TimeOutPush,
         ListBranches, UpdateBranch, AbandonBranches, objects, git
    <3> QED
      BY <3>1, UnseenStutters
  <2> QED
    BY <2>1, <2>2, <2>3, <2>4
<1>3. ASSUME NEW q \in sent, ServeLate(q)
      PROVE  Seen
  <2>1. q.job \in Job /\ q.commands \in SUBSET Command
    BY RequestType DEF Inv
  <2>2. /\ phase[q.job[2]] # "Pending"
        /\ Handles(q.job, q.commands) /\ Sendable(q.job, q.commands)
        /\ UNCHANGED <<phase, resultCommit>>
    BY <1>3, WhoHandles DEF Inv, SentInv, CommandInv, ServeLate, objects
  <2> QED
    BY <1>1, <2>1, <2>2, HandlingLands, JobType DEF Inv, RequestInv
<1>4. ASSUME NEW t \in Txn, DeleteTxn(t)
      PROVE  Seen
  BY <1>4 DEF DeleteTxn, git, Seen, Promise!Next, Promise!Delete
<1>5. ASSUME NEW r \in Repo, NEW b \in Branch, NEW c \in MaybeCommit, ExternalPush(r, b, c)
      PROVE  Seen
  <2>1. Promise!OthersPush(r, b, c)
    BY <1>5 DEF ExternalPush, objects, Promise!OthersPush, Promise!FastForward, FastForward
  <2> QED
    BY <2>1 DEF Seen, Promise!Next, Promise!MaybeCommit, MaybeCommit
<1>6. CASE \/ \E p \in Pod : Crash(p) \/ Retire(p)
           \/ \E k \in Cr : WatcherRead(k) \/ WatcherWrite(k)
           \/ UNCHANGED vars
  <2>1. Unseen
    BY <1>6 DEF Unseen, Crash, Retire, WatcherRead, WatcherWrite, objects, git, vars
  <2> QED
    BY <2>1, UnseenStutters
<1> QED
  BY <1>2, <1>3, <1>4, <1>5, <1>6 DEF Next

(***************************************************************************)
(* Every behaviour of the push controller, seen through its transactions'  *)
(* status, the remote branches and what became of the refspecs, is one     *)
(* that PushPromise allows.                                                *)
(***************************************************************************)
THEOREM PromiseKept == Spec => KeepsPromise
<1>1. Init => Promise!Init
  BY DEF Init, Promise!Init, Promise!MaybeCommit, MaybeCommit
<1>2. Inv /\ [Next]_vars => [Promise!Next]_(Promise!vars)
  BY NextSeen DEF Seen
<1> QED
  BY <1>1, <1>2, AlwaysInv, PTL DEF Spec, KeepsPromise, Promise!Spec
=============================================================================
