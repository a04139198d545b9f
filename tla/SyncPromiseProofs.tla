------------------------- MODULE SyncPromiseProofs -------------------------
(***************************************************************************)
(* The sync controller and the resolver keep what SyncPromise promises,    *)
(* for any pods of both, any history and any bounds.                       *)
(***************************************************************************)
EXTENDS RepoSyncProofs

-----------------------------------------------------------------------------
(* What each controller may write.                                         *)

Reported(s) == Promise!Agree(s) \/ Promise!BehindAsked(s) \/ Promise!Conflict(s)

Concluded(s) == Promise!MergeAsked(s) \/ Promise!GivenUp(s)

(* A status about to be written is evident; a merge had a merge base. *)
WriteInv(j) ==
    LET new == local[j].new IN
    /\ pc[j] \in {"creatingA", "creatingB"} => new.base \in Commit
    /\ pc[j] = "writing" /\ j \in SyncPod => Reported(new)
    /\ pc[j] = "writing" /\ j \in ResolverPod => Concluded(new)

AllWrites == \A j \in Job : WriteInv(j)

(* Transactions that stay keep a status evident. *)
LEMMA EvidentStays ==
    ASSUME KeepsTransactions, NEW s
    PROVE  /\ Reported(s) => Promise!Agree(s) \/ Promise!BehindAsked(s)' \/ Promise!Conflict(s)
           /\ Concluded(s) => Promise!MergeAsked(s)' \/ Promise!GivenUp(s)
<1>1. \A d, c, e : Promise!Asked(d, c, e) =>
        \E t \in txns' : t.target = d /\ t.source = c /\ t.expected = e
  BY DEF Promise!Asked, KeepsTransactions
<1>2. \A d, c, e : Promise!Asked(d, c, e)' <=>
        \E t \in txns' : t.target = d /\ t.source = c /\ t.expected = e
  BY DEF Promise!Asked
<1>3. Promise!BehindAsked(s) => Promise!BehindAsked(s)'
  BY <1>1, <1>2 DEF Promise!BehindAsked
<1>4. Promise!MergeAsked(s) => Promise!MergeAsked(s)'
  BY <1>1, <1>2 DEF Promise!MergeAsked
<1> QED
  BY <1>3, <1>4 DEF Reported, Concluded

LEMMA WriteSame ==
    ASSUME NEW j \in Job, WriteInv(j), KeepsTransactions, pc'[j] = pc[j], local'[j] = local[j]
    PROVE  WriteInv(j)'
<1> DEFINE s == local[j].new
<1>1. Reported(s) => Reported(s)'
  BY EvidentStays DEF Reported, Promise!Agree, Promise!Conflict
<1>2. Concluded(s) => Concluded(s)'
  BY EvidentStays DEF Concluded, Promise!GivenUp
<1> QED
  BY <1>1, <1>2 DEF WriteInv

LEMMA WriteReturns ==
    ASSUME TypeOK, NEW j \in Job, Return(j)
    PROVE  WriteInv(j)'
<1>1. pc'[j] = "idle"
  BY DEF TypeOK, Return, Goto
<1> QED
  BY <1>1 DEF WriteInv

LEMMA SyncWriteConcludes ==
    ASSUME TypeOK, NEW j \in SyncPod, NEW phase, NEW a, NEW b, NEW base,
           Conclude(j, phase, a, b, base),
           \/ phase = "InSync" /\ a = b /\ base = a
           \/ phase = "Conflicted" /\ base = NoCommit
           \/ /\ phase = "Conflicted" /\ a \in Commit /\ b \in Commit
              /\ base \in MergeBases(a, b) \ {a, b}
    PROVE  WriteInv(j)'
<1> DEFINE s == [phase |-> phase, a |-> a, b |-> b, base |-> base]
<1>1. pc'[j] = "writing" /\ local'[j].new = s /\ j \notin ResolverPod
  BY SyncAssumption DEF TypeOK, Conclude, Goto, Local, Job
<1>2. s.phase = phase /\ s.a = a /\ s.b = b /\ s.base = base
  OBVIOUS
<1> HIDE DEF s
<1>3. Promise!Agree(s) \/ Promise!Conflict(s)
  BY <1>2 DEF Promise!Agree, Promise!Conflict, MergeBases
<1>4. Reported(local[j].new)'
  BY <1>1, <1>3 DEF Reported, Promise!Agree, Promise!Conflict
<1> QED
  BY <1>1, <1>4 DEF WriteInv

-----------------------------------------------------------------------------
(* Each step of a controller.                                              *)

LEMMA SyncStepWrites ==
    ASSUME TypeOK, NEW j \in SyncPod, JobInv(j), WriteInv(j), SyncStep(j)
    PROVE  WriteInv(j)'
<1>0. /\ j \in Job /\ j \notin ResolverPod /\ local[j] \in Local /\ local[j].new \in Status
  BY SyncAssumption DEF TypeOK, Job, Local
<1>1. ASSUME pc'[j] \in {"findingA", "findingB", "comparing", "creating"}
      PROVE  WriteInv(j)'
  BY <1>1 DEF WriteInv
<1>2. CASE SyncGet(j)
  BY <1>0, <1>1, <1>2 DEF SyncGet, Goto, TypeOK
<1>3. CASE FindBranchA(j) \/ FindBranchB(j)
  <2>1. CASE Conclude(j, "Conflicted", NoCommit, NoCommit, NoCommit)
    BY <2>1, SyncWriteConcludes
  <2>2. CASE local[j].new.a = head["B"] /\ Conclude(j, "InSync", local[j].new.a, head["B"], local[j].new.a)
    BY <2>2, SyncWriteConcludes
  <2>3. CASE Goto(j, "findingB") \/ Goto(j, "comparing")
    BY <1>0, <1>1, <2>3 DEF Goto, TypeOK
  <2> QED
    BY <1>3, <2>1, <2>2, <2>3 DEF FindBranchA, FindBranchB
<1>4. CASE CompareCommits(j)
  <2> DEFINE a == local[j].new.a
             b == local[j].new.b
  <2>1. CASE Conclude(j, "Conflicted", a, b, NoCommit)
    BY <2>1, SyncWriteConcludes
  <2>2. ASSUME {a, b} \subseteq CloneOf("A"), NEW base \in MergeBases(a, b),
               base \notin {a, b}, Conclude(j, "Conflicted", a, b, base)
        PROVE  WriteInv(j)'
    <3>1. a \in Commit /\ b \in Commit
      BY <2>2, CloneType DEF Side
    <3> QED
      BY <2>2, <3>1, SyncWriteConcludes
  <2>3. CASE Goto(j, "creating")
    BY <1>0, <1>1, <2>3 DEF Goto, TypeOK
  <2> QED
    BY <1>4, <2>1, <2>2, <2>3 DEF CompareCommits, OneIsBehind
<1>5. CASE CreatePushTransaction(j)
  <2> DEFINE new == local[j].new
  <2>1. pc'[j] = "writing" /\ local'[j] = local[j] /\ Behind(new)
    BY <1>0, <1>5 DEF CreatePushTransaction, Goto, TypeOK, JobInv
  <2>2. CASE new.base = new.a
    <3>1. Create("A", new.b, new.a)
      BY <1>5, <2>2 DEF CreatePushTransaction, SideBehind
    <3>2. \E t \in txns' : t.target = "A" /\ t.source = new.b /\ t.expected = new.a
      BY <3>1, Created
    <3>3. new.a \in Anc[new.b]
      BY <2>1, <2>2, CommitGraphAssumption DEF Behind
    <3> QED
      BY <1>0, <2>1, <2>2, <3>2, <3>3
      DEF WriteInv, Reported, Promise!BehindAsked, Promise!Asked, Behind
  <2>3. CASE new.base # new.a
    <3>1. Create("B", new.a, new.b) /\ new.base = new.b /\ new.b \in Anc[new.a]
      BY <1>5, <2>1, <2>3 DEF CreatePushTransaction, SideBehind, Behind
    <3>2. \E t \in txns' : t.target = "B" /\ t.source = new.a /\ t.expected = new.b
      BY <3>1, Created
    <3> QED
      BY <1>0, <2>1, <3>1, <3>2
      DEF WriteInv, Reported, Promise!BehindAsked, Promise!Asked, Behind
  <2> QED
    BY <2>2, <2>3
<1>6. CASE UpdateStatus(j)
  BY <1>0, <1>6, WriteReturns DEF UpdateStatus
<1> QED
  BY <1>2, <1>3, <1>4, <1>5, <1>6 DEF SyncStep

LEMMA ResolverStepWrites ==
    ASSUME TypeOK, NEW j \in ResolverPod, JobInv(j), WriteInv(j), KeepsTransactions,
           ResolverStep(j)
    PROVE  WriteInv(j)'
<1>0. /\ j \in Job /\ j \notin SyncPod /\ local[j] \in Local /\ local[j].new \in Status
  BY SyncAssumption DEF TypeOK, Job, Local
<1> DEFINE new == local[j].new
<1>1. CASE ResolverGet(j)
  <2>1. pc'[j] = "resolving"
    BY <1>0, <1>1 DEF ResolverGet, Goto, TypeOK
  <2> QED
    BY <2>1 DEF WriteInv
<1>2. CASE AttemptMerge(j)
  <2>1. CASE Conclude(j, "RequiresManualIntervention", new.a, new.b, new.base)
    <3> DEFINE s == [phase |-> "RequiresManualIntervention", a |-> new.a, b |-> new.b,
                     base |-> new.base]
    <3>1. pc'[j] = "writing" /\ local'[j].new = s
      BY <1>0, <2>1 DEF Conclude, Goto, TypeOK, Local
    <3>2. s.phase = "RequiresManualIntervention"
      OBVIOUS
    <3> HIDE DEF s
    <3> QED
      BY <1>0, <3>1, <3>2 DEF WriteInv, Concluded, Promise!GivenUp
  <2>2. ASSUME NoCommit \notin {new.a, new.b, new.base}, NEW m,
               local' = [local EXCEPT ![j].merge = m], Goto(j, "creatingA")
        PROVE  WriteInv(j)'
    <3>1. pc'[j] = "creatingA" /\ local'[j].new = new
      BY <1>0, <2>2 DEF Goto, TypeOK, Local
    <3>2. new.base \in Commit
      BY <1>0, <2>2 DEF Status, MaybeCommit
    <3> QED
      BY <3>1, <3>2 DEF WriteInv
  <2> QED
    BY <1>2, <2>1, <2>2 DEF AttemptMerge
<1>3. CASE CreateMergePushA(j)
  BY <1>0, <1>3 DEF CreateMergePushA, Goto, TypeOK, WriteInv
<1>4. CASE CreateMergePushB(j)
  <2> DEFINE s == [new EXCEPT !.phase = "Syncing"]
             m == local[j].merge
  <2>1. pc'[j] = "writing" /\ local'[j].new = s
    BY <1>0, <1>4 DEF CreateMergePushB, Goto, TypeOK, Local
  <2>2. s.phase = "Syncing" /\ s.a = new.a /\ s.b = new.b /\ s.base = new.base
    BY <1>0 DEF Status
  <2> HIDE DEF s
  <2>3. /\ Asked("A", m, new.a) /\ m \in Merges(new.a, new.b)
        /\ new.a \in Commit /\ new.b \in Commit /\ new.base \in Commit
    BY <1>4 DEF CreateMergePushB, JobInv, WriteInv
  <2>4. \E t \in txns' : t.target = "A" /\ t.source = m /\ t.expected = new.a
    BY <2>3 DEF Asked, KeepsTransactions
  <2>5. \E t \in txns' : t.target = "B" /\ t.source = m /\ t.expected = new.b
    BY <1>4, Created DEF CreateMergePushB
  <2>6. m \in MergeCommit /\ Anc[m] = {m} \cup Anc[new.a] \cup Anc[new.b]
    BY <2>3 DEF Merges
  <2>7. Promise!MergeAsked(local[j].new)'
    BY <2>1, <2>2, <2>3, <2>4, <2>5, <2>6 DEF Promise!MergeAsked, Promise!Asked
  <2> QED
    BY <1>0, <2>1, <2>7 DEF WriteInv, Concluded
<1>5. CASE UpdateStatus(j)
  BY <1>0, <1>5, WriteReturns DEF UpdateStatus
<1> QED
  BY <1>1, <1>2, <1>3, <1>4, <1>5 DEF ResolverStep

LEMMA NextWrites ==
    ASSUME Inv, AllWrites, KeepsTransactions, [Next]_vars
    PROVE  AllWrites'
<1>0. TypeOK /\ \A j \in Job : JobInv(j) /\ WriteInv(j)
  BY DEF Inv, AllWrites
<1>1. ASSUME NEW i \in Job, WriteInv(i)', \A j \in Job \ {i} : pc'[j] = pc[j] /\ local'[j] = local[j]
      PROVE  AllWrites'
  <2>1. \A j \in Job \ {i} : WriteInv(j)'
    BY <1>0, <1>1, WriteSame
  <2>2. Job' = Job
    BY DEF Job
  <2> QED
    BY <1>1, <2>1, <2>2 DEF AllWrites
<1>2. ASSUME UNCHANGED <<pc, local>>
      PROVE  AllWrites'
  <2>1. \A j \in Job : WriteInv(j)'
    BY <1>0, <1>2, WriteSame
  <2> QED
    BY <2>1 DEF AllWrites, Job
<1>3. ASSUME NEW i \in Job, NEW phase, NEW a, NEW b, NEW base,
             Return(i) \/ Conclude(i, phase, a, b, base)
      PROVE  \A j \in Job \ {i} : pc'[j] = pc[j] /\ local'[j] = local[j]
  BY <1>0, <1>3 DEF TypeOK, Return, Conclude, Goto
<1>4. ASSUME NEW i \in SyncPod, SyncStep(i)
      PROVE  AllWrites'
  <2>1. i \in Job /\ WriteInv(i)'
    BY <1>0, <1>4, SyncStepWrites DEF Job
  <2>2. \A j \in Job \ {i} : pc'[j] = pc[j] /\ local'[j] = local[j]
    BY <1>0, <1>3, <1>4, <2>1 DEF SyncStep, SyncGet, FindBranchA, FindBranchB, CompareCommits,
                                  CreatePushTransaction, UpdateStatus, Goto, TypeOK
  <2> QED
    BY <1>1, <2>1, <2>2
<1>5. ASSUME NEW i \in ResolverPod, ResolverStep(i)
      PROVE  AllWrites'
  <2>1. i \in Job /\ WriteInv(i)'
    BY <1>0, <1>5, ResolverStepWrites DEF Job
  <2>2. \A j \in Job \ {i} : pc'[j] = pc[j] /\ local'[j] = local[j]
    BY <1>0, <1>3, <1>5, <2>1 DEF ResolverStep, ResolverGet, AttemptMerge, CreateMergePushA,
                                  CreateMergePushB, UpdateStatus, Goto, TypeOK
  <2> QED
    BY <1>1, <2>1, <2>2
<1>6. ASSUME NEW i \in SyncPod, ListFails(i)
      PROVE  AllWrites'
  <2>1. i \in Job /\ Conclude(i, "Conflicted", NoCommit, NoCommit, NoCommit)
    BY <1>6 DEF ListFails, Job
  <2>2. WriteInv(i)'
    BY <1>0, <2>1, SyncWriteConcludes
  <2> QED
    BY <1>1, <1>3, <2>1, <2>2
<1>7. ASSUME NEW i \in Job, Fail(i)
      PROVE  AllWrites'
  <2>1. Return(i) /\ WriteInv(i)'
    BY <1>0, <1>7, WriteReturns DEF Fail
  <2> QED
    BY <1>1, <1>3, <2>1
<1>8. CASE \/ \E t \in txns : PushTransaction(t)
           \/ \E s \in Side : Watch(s)
           \/ \E s \in Side, c \in Commit : ExternalPush(s, c)
           \/ UNCHANGED vars
  BY <1>2, <1>8 DEF PushTransaction, Watch, ExternalPush, vars
<1> QED
  BY <1>4, <1>5, <1>6, <1>7, <1>8 DEF Next

-----------------------------------------------------------------------------
(* Each step maps to one of SyncPromise, or to none.                       *)

LEMMA StatusStep ==
    ASSUME Inv, AllWrites, [Next]_vars, status' # status
    PROVE  Promise!Report \/ Promise!Resolve
<1>1. PICK j \in Job : /\ pc[j] = "writing" /\ j \in fresh
                       /\ status' = local[j].new /\ UNCHANGED txns
  BY NextStatus
<1>2. WriteInv(j)
  BY DEF AllWrites
<1>3. CASE j \in SyncPod
  <2>1. Reported(local[j].new)
    BY <1>1, <1>2, <1>3 DEF WriteInv
  <2> DEFINE s == local[j].new
  <2>2. Promise!Agree(s) \/ Promise!BehindAsked(s) \/ Promise!Conflict(s)
    BY <2>1 DEF Reported
  <2> HIDE DEF s
  <2>3. status' = s
    BY <1>1 DEF s
  <2> QED
    BY <1>1, <2>2, <2>3 DEF Promise!Report, Promise!Agree, Promise!BehindAsked,
                            Promise!Conflict
<1>4. CASE j \in ResolverPod
  <2>1. Concluded(local[j].new)
    BY <1>1, <1>2, <1>4 DEF WriteInv
  <2>2. status = [local[j].new EXCEPT !.phase = "Conflicted"]
    BY <1>1, <1>4 DEF Inv, CopyInv
  <2>3. local[j].new \in Status
    BY DEF Inv, TypeOK, Local
  <2>4. status.phase = "Conflicted"
    BY <2>2, <2>3, ConflictRead
  <2> DEFINE s == local[j].new
  <2>5. Promise!MergeAsked(s) \/ Promise!GivenUp(s)
    BY <2>1 DEF Concluded
  <2>6. status' = s /\ status = [s EXCEPT !.phase = "Conflicted"]
    BY <1>1, <2>2
  <2> HIDE DEF s
  <2> QED
    BY <1>1, <2>4, <2>5, <2>6 DEF Promise!Resolve, Promise!MergeAsked, Promise!GivenUp
<1> QED
  BY <1>3, <1>4 DEF Job

LEMMA TxnStep ==
    ASSUME Inv, [Next]_vars, txns' # txns
    PROVE  Promise!Ask \/ \E t \in txns : Promise!End(t)
<1>0. TypeOK /\ \A j \in Job : JobInv(j)
  BY DEF Inv
<1>1. ASSUME NEW s \in Side, NEW c \in Commit, NEW e \in Commit, FastForward(e, c),
             Create(s, c, e), UNCHANGED status
      PROVE  Promise!Ask
  BY <1>1 DEF Create, Promise!Ask, Side, Promise!FastForward, FastForward
<1>2. ASSUME NEW t \in txns, PushTransaction(t)
      PROVE  Promise!End(t)
  BY <1>2 DEF PushTransaction, Becomes, Promise!End
<1>3. ASSUME NEW j \in SyncPod, CreatePushTransaction(j)
      PROVE  Promise!Ask
  <2>1. Behind(local[j].new)
    BY <1>0, <1>3 DEF CreatePushTransaction, JobInv, Job
  <2>2. CASE local[j].new.base = local[j].new.a
    <3>1. local[j].new.a \in Anc[local[j].new.b]
      BY <2>1, <2>2, CommitGraphAssumption DEF Behind
    <3> QED
      BY <1>1, <1>3, <2>1, <2>2, <3>1 DEF CreatePushTransaction, SideBehind, Behind, FastForward, Side
  <2>3. CASE local[j].new.base # local[j].new.a
    <3>1. local[j].new.b \in Anc[local[j].new.a]
      BY <2>1, <2>3 DEF Behind
    <3> QED
      BY <1>1, <1>3, <2>1, <2>3, <3>1 DEF CreatePushTransaction, SideBehind, Behind, FastForward, Side
  <2> QED
    BY <2>2, <2>3
<1>4. ASSUME NEW j \in ResolverPod, CreateMergePushA(j) \/ CreateMergePushB(j)
      PROVE  Promise!Ask
  <2>1. /\ local[j].new.a \in Commit /\ local[j].new.b \in Commit
        /\ local[j].merge \in Merges(local[j].new.a, local[j].new.b)
    BY <1>0, <1>4 DEF CreateMergePushA, CreateMergePushB, JobInv, Job
  <2> QED
    BY <1>1, <1>4, <2>1, MergeIsAhead DEF CreateMergePushA, CreateMergePushB, Side
<1>5. ASSUME NEW j \in SyncPod, SyncStep(j)
      PROVE  Promise!Ask
  BY <1>3, <1>5 DEF SyncStep, SyncGet, FindBranchA, FindBranchB, CompareCommits, UpdateStatus
<1>6. ASSUME NEW j \in ResolverPod, ResolverStep(j)
      PROVE  Promise!Ask
  BY <1>4, <1>6 DEF ResolverStep, ResolverGet, AttemptMerge, UpdateStatus
<1>7. CASE \/ \E j \in SyncPod : ListFails(j)
           \/ \E j \in Job : Fail(j)
           \/ \E s \in Side : Watch(s)
           \/ \E s \in Side, c \in Commit : ExternalPush(s, c)
           \/ UNCHANGED vars
  BY <1>7 DEF ListFails, Fail, Watch, ExternalPush, vars
<1> QED
  BY <1>2, <1>5, <1>6, <1>7 DEF Next

(***************************************************************************)
(* The sync controller and the resolver implement SyncPromise: each of     *)
(* their steps reports on two heads, concludes the stored conflict, asks   *)
(* for a push, ends one, or changes nothing that is stored.                *)
(***************************************************************************)
THEOREM SyncPromiseKept == Spec => KeepsSyncPromise
<1>1. Init => AllWrites
  BY DEF Init, AllWrites, WriteInv
<1>2. Inv /\ AllWrites /\ [Next]_vars => AllWrites'
  BY NextWrites, NextKeeps DEF Inv
<1>3. Init => Promise!Init
  BY DEF Init, NoStatus, Promise!Init
<1>4. Inv /\ AllWrites /\ [Next]_vars => [Promise!Next]_<<status, txns>>
  BY StatusStep, TxnStep DEF Promise!Next
<1> QED
  BY <1>1, <1>2, <1>3, <1>4, AlwaysInv, PTL DEF Spec, KeepsSyncPromise, Promise!Spec
=============================================================================
