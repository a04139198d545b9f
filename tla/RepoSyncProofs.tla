--------------------------- MODULE RepoSyncProofs ---------------------------
(***************************************************************************)
(* Proofs about RepoSync, for any pods of both controllers, any history    *)
(* and any bounds.                                                         *)
(***************************************************************************)
EXTENDS RepoSync, TLAPS

-----------------------------------------------------------------------------
(***************************************************************************)
(* The inductive invariant.                                                *)
(***************************************************************************)

(* A transaction that was asked for stays, whatever becomes of its phase. *)
KeepsTransactions ==
    \A t \in txns : \E u \in txns' :
        u.target = t.target /\ u.source = t.source /\ u.expected = t.expected

(* SyncingIsBacked and ConflictsHaveDiverged, of a status yet to be written. *)
Backed(s) ==
    s.phase = "Syncing" =>
        \/ s.base = s.a /\ Asked("A", s.b, s.a)
        \/ s.base = s.b /\ Asked("B", s.a, s.b)
        \/ \E m \in MergeCommit : Asked("A", m, s.a) /\ Asked("B", m, s.b)

Diverged(s) ==
    s.phase = "Conflicted" /\ s.base # NoCommit =>
        ~FastForward(s.a, s.b) /\ ~FastForward(s.b, s.a)

Resolving == {"resolving", "creatingA", "creatingB"}

(* One side of what is to be pushed contains the other. *)
Behind(new) ==
    /\ new.phase = "Syncing"
    /\ new.a \in Commit /\ new.b \in Commit
    /\ \/ new.base = new.a /\ new.a \in Anc[new.b]
       \/ new.base = new.b /\ new.b \in Anc[new.a]

(* What a job is about to create is a fast-forward of what it has read. *)
JobInv(j) ==
    LET new == local[j].new IN
    /\ pc[j] \in Resolving => j \in ResolverPod
    /\ j \in ResolverPod => pc[j] \in Resolving \cup {"idle", "writing"}
    /\ pc[j] = "creating" => Behind(new)
    /\ pc[j] \in {"creatingA", "creatingB"} =>
            new.a \in Commit /\ new.b \in Commit /\ local[j].merge \in Merges(new.a, new.b)
    /\ pc[j] = "creatingB" => Asked("A", local[j].merge, new.a)
    /\ pc[j] = "writing" => Backed(new) /\ Diverged(new)

(* The resolver works on the conflict it has a current copy of. *)
CopyInv ==
    \A j \in fresh \cap ResolverPod :
        pc[j] \in Resolving \cup {"writing"} =>
            status = [local[j].new EXCEPT !.phase = "Conflicted"]

Inv ==
    /\ TypeOK
    /\ TransactionsGoForward
    /\ Backed(status) /\ Diverged(status)
    /\ \A j \in Job : JobInv(j)
    /\ CopyInv

-----------------------------------------------------------------------------
(* Type correctness.                                                       *)

LEMMA CloneType ==
    ASSUME TypeOK, NEW s \in Side
    PROVE  CloneOf(s) \subseteq Commit
<1>1. remote[s] \in MaybeCommit
  BY DEF TypeOK
<1>2. Elsewhere[s] \subseteq Commit
  BY SyncAssumption
<1>3. Reachable({remote[s]}) \subseteq Commit
  BY <1>1, CommitGraphAssumption DEF Reachable, MaybeCommit
<1> QED
  BY <1>2, <1>3 DEF CloneOf

LEMMA ReturnType ==
    ASSUME TypeOK, NEW j \in Job, Return(j)
    PROVE  pc' \in [Job -> PC] /\ local' \in [Job -> Local]
BY DEF TypeOK, Return, Goto, PC, NoLocal, Local, NoStatus, Status, SyncPhase, MaybeCommit

LEMMA ConcludeType ==
    ASSUME TypeOK, NEW j \in Job,
           NEW phase \in SyncPhase, NEW a \in MaybeCommit, NEW b \in MaybeCommit,
           NEW base \in MaybeCommit, Conclude(j, phase, a, b, base)
    PROVE  pc' \in [Job -> PC] /\ local' \in [Job -> Local]
BY DEF TypeOK, Conclude, Goto, PC, Local, Status

LEMMA CreateType ==
    ASSUME TypeOK, NEW s \in Side, NEW c \in Commit, NEW e \in MaybeCommit, Create(s, c, e)
    PROVE  txns' \subseteq Transaction
BY DEF TypeOK, Create, Transaction

LEMMA InitType == Init => TypeOK
<1> SUFFICES ASSUME Init PROVE TypeOK
  OBVIOUS
<1>1. remote \in [Side -> MaybeCommit]
  BY SyncAssumption DEF Init, MaybeCommit
<1>2. status \in Status /\ local \in [Job -> Local]
  BY DEF Init, NoStatus, NoLocal, Status, Local, SyncPhase, MaybeCommit
<1>3. changes \in 0 .. MaxChanges /\ faults \in 0 .. MaxFaults
  BY SyncAssumption DEF Init
<1> QED
  BY <1>1, <1>2, <1>3 DEF Init, TypeOK, PC, MaybeCommit

LEMMA SyncStepType ==
    ASSUME TypeOK, NEW j \in SyncPod, JobInv(j), SyncStep(j)
    PROVE  TypeOK'
<1>0. /\ j \in Job /\ local[j] \in Local /\ local[j].new \in Status
      /\ local[j].new.a \in MaybeCommit /\ local[j].new.b \in MaybeCommit
      /\ "A" \in Side /\ "B" \in Side /\ NoCommit \in MaybeCommit
      /\ head["A"] \in MaybeCommit /\ head["B"] \in MaybeCommit
  BY DEF TypeOK, Job, Local, Status, Side, MaybeCommit
<1>1. CASE SyncGet(j)
  BY <1>0, <1>1 DEF SyncGet, Goto, TypeOK, PC, world
<1>2. CASE FindBranchA(j)
  <2>1. CASE Conclude(j, "Conflicted", NoCommit, NoCommit, NoCommit)
    <3>1. pc' \in [Job -> PC] /\ local' \in [Job -> Local]
      BY <1>0, <2>1, ConcludeType DEF SyncPhase
    <3> QED
      BY <1>2, <3>1 DEF FindBranchA, TypeOK, world
  <2>2. CASE Goto(j, "findingB") /\ local' = [local EXCEPT ![j].new.a = head["A"]]
    <3>1. local' \in [Job -> Local]
      BY <1>0, <2>2 DEF TypeOK, Local, Status
    <3> QED
      BY <1>2, <2>2, <3>1 DEF FindBranchA, Goto, PC, TypeOK, world
  <2> QED
    BY <1>2, <2>1, <2>2 DEF FindBranchA
<1>3. CASE FindBranchB(j)
  <2>1. CASE Conclude(j, "Conflicted", NoCommit, NoCommit, NoCommit)
    <3>1. pc' \in [Job -> PC] /\ local' \in [Job -> Local]
      BY <1>0, <2>1, ConcludeType DEF SyncPhase
    <3> QED
      BY <1>3, <3>1 DEF FindBranchB, TypeOK, world
  <2>2. CASE Conclude(j, "InSync", local[j].new.a, head["B"], local[j].new.a)
    <3>1. pc' \in [Job -> PC] /\ local' \in [Job -> Local]
      BY <1>0, <2>2, ConcludeType DEF SyncPhase
    <3> QED
      BY <1>3, <3>1 DEF FindBranchB, TypeOK, world
  <2>3. CASE Goto(j, "comparing") /\ local' = [local EXCEPT ![j].new.b = head["B"]]
    <3>1. local' \in [Job -> Local]
      BY <1>0, <2>3 DEF TypeOK, Local, Status
    <3> QED
      BY <1>3, <2>3, <3>1 DEF FindBranchB, Goto, PC, TypeOK, world
  <2> QED
    BY <1>3, <2>1, <2>2, <2>3 DEF FindBranchB
<1>4. CASE CompareCommits(j)
  <2> DEFINE a == local[j].new.a
             b == local[j].new.b
  <2>1. CASE Conclude(j, "Conflicted", a, b, NoCommit)
    <3>1. pc' \in [Job -> PC] /\ local' \in [Job -> Local]
      BY <1>0, <2>1, ConcludeType DEF SyncPhase
    <3> QED
      BY <1>4, <3>1 DEF CompareCommits, TypeOK, world
  <2>2. ASSUME {a, b} \subseteq CloneOf("A"), NEW base \in MergeBases(a, b),
               \/ Conclude(j, "Conflicted", a, b, base)
               \/ /\ Goto(j, "creating")
                  /\ local' = [local EXCEPT ![j].new = [phase |-> "Syncing", a |-> a, b |-> b,
                                                       base |-> base]]
        PROVE  pc' \in [Job -> PC] /\ local' \in [Job -> Local]
    <3>1. base \in MaybeCommit
      BY <1>0, <2>2, CloneType, CommitGraphAssumption DEF MergeBases, MaybeCommit
    <3>2. CASE Conclude(j, "Conflicted", a, b, base)
      BY <1>0, <3>1, <3>2, ConcludeType DEF SyncPhase
    <3>3. CASE /\ Goto(j, "creating")
               /\ local' = [local EXCEPT ![j].new = [phase |-> "Syncing", a |-> a, b |-> b,
                                                    base |-> base]]
      <4>1. [phase |-> "Syncing", a |-> a, b |-> b, base |-> base] \in Status
        BY <1>0, <3>1 DEF Status, SyncPhase
      <4>2. pc' \in [Job -> PC]
        BY <3>3 DEF TypeOK, Goto, PC
      <4>3. local' \in [Job -> Local]
        BY <3>3, <4>1 DEF TypeOK, Local
      <4> QED
        BY <4>2, <4>3
    <3> QED
      BY <2>2, <3>2, <3>3
  <2> QED
    BY <1>4, <2>1, <2>2 DEF CompareCommits, TypeOK, world
<1>5. CASE CreatePushTransaction(j)
  <2>1. local[j].new.a \in Commit /\ local[j].new.b \in Commit
    BY <1>5 DEF CreatePushTransaction, SideBehind, JobInv, Behind
  <2>2. txns' \subseteq Transaction
    BY <1>0, <1>5, <2>1, CreateType DEF CreatePushTransaction, SideBehind
  <2> QED
    BY <1>0, <1>5, <2>2 DEF CreatePushTransaction, TypeOK, Goto, PC, world
<1>6. CASE UpdateStatus(j)
  BY <1>0, <1>6, ReturnType DEF UpdateStatus, TypeOK, world
<1> QED
  BY <1>1, <1>2, <1>3, <1>4, <1>5, <1>6 DEF SyncStep

LEMMA ResolverStepType ==
    ASSUME TypeOK, NEW j \in ResolverPod, JobInv(j), ResolverStep(j)
    PROVE  TypeOK'
<1>0. /\ j \in Job /\ local[j] \in Local /\ local[j].new \in Status
      /\ local[j].new.a \in MaybeCommit /\ local[j].new.b \in MaybeCommit
      /\ local[j].new.base \in MaybeCommit /\ local[j].merge \in MaybeCommit
      /\ "A" \in Side /\ "B" \in Side /\ MergeCommit \subseteq Commit
  BY SyncAssumption DEF TypeOK, Job, Local, Status, Side
<1>1. CASE ResolverGet(j)
  BY <1>0, <1>1 DEF ResolverGet, Goto, TypeOK, PC, world, Local
<1>2. CASE AttemptMerge(j)
  <2> DEFINE new == local[j].new
  <2>1. CASE Conclude(j, "RequiresManualIntervention", new.a, new.b, new.base)
    <3>1. pc' \in [Job -> PC] /\ local' \in [Job -> Local]
      BY <1>0, <2>1, ConcludeType DEF SyncPhase
    <3> QED
      BY <1>2, <3>1 DEF AttemptMerge, TypeOK, world
  <2>2. ASSUME NEW m \in Merges(new.a, new.b), local' = [local EXCEPT ![j].merge = m],
               Goto(j, "creatingA")
        PROVE  pc' \in [Job -> PC] /\ local' \in [Job -> Local]
    BY <1>0, <2>2 DEF TypeOK, Goto, PC, Local, Merges, MaybeCommit
  <2> QED
    BY <1>2, <2>1, <2>2 DEF AttemptMerge, TypeOK, world
<1>3. CASE CreateMergePushA(j) \/ CreateMergePushB(j)
  <2>1. local[j].merge \in Commit
    BY <1>0, <1>3 DEF CreateMergePushA, CreateMergePushB, JobInv, Merges
  <2>2. txns' \subseteq Transaction
    BY <1>0, <1>3, <2>1, CreateType DEF CreateMergePushA, CreateMergePushB
  <2>3. local' \in [Job -> Local]
    <3>1. [local[j].new EXCEPT !.phase = "Syncing"] \in Status
      BY <1>0 DEF Status, SyncPhase
    <3>2. local' = local \/ local' = [local EXCEPT ![j].new = [local[j].new EXCEPT !.phase = "Syncing"]]
      BY <1>0, <1>3 DEF CreateMergePushA, CreateMergePushB, TypeOK
    <3> QED
      BY <3>1, <3>2 DEF TypeOK, Local
  <2> QED
    BY <1>0, <1>3, <2>2, <2>3 DEF CreateMergePushA, CreateMergePushB, TypeOK, Goto, PC, world
<1>4. CASE UpdateStatus(j)
  BY <1>0, <1>4, ReturnType DEF UpdateStatus, TypeOK, world
<1> QED
  BY <1>1, <1>2, <1>3, <1>4 DEF ResolverStep

LEMMA NextType ==
    ASSUME TypeOK, \A j \in Job : JobInv(j), [Next]_vars
    PROVE  TypeOK'
<1>1. ASSUME NEW j \in SyncPod, SyncStep(j)
      PROVE  TypeOK'
  BY <1>1, SyncStepType DEF Job
<1>2. ASSUME NEW j \in ResolverPod, ResolverStep(j)
      PROVE  TypeOK'
  BY <1>2, ResolverStepType DEF Job
<1>3. ASSUME NEW j \in SyncPod, ListFails(j)
      PROVE  TypeOK'
  <2>1. pc' \in [Job -> PC] /\ local' \in [Job -> Local]
    BY <1>3, ConcludeType DEF ListFails, SyncPhase, MaybeCommit, Job
  <2> QED
    BY <1>3, <2>1, SyncAssumption DEF ListFails, TypeOK, world
<1>4. ASSUME NEW j \in Job, Fail(j)
      PROVE  TypeOK'
  BY <1>4, ReturnType, SyncAssumption DEF Fail, TypeOK, world
<1>5. ASSUME NEW t \in txns, PushTransaction(t)
      PROVE  TypeOK'
  <2>1. t \in Transaction
    BY DEF TypeOK
  <2>2. txns' \subseteq Transaction
    BY <1>5, <2>1 DEF PushTransaction, Becomes, TypeOK, Transaction
  <2>3. remote' \in [Side -> MaybeCommit] /\ head' \in [Side -> MaybeCommit]
    BY <1>5, <2>1 DEF PushTransaction, TypeOK, Transaction, MaybeCommit
  <2> QED
    BY <1>5, <2>2, <2>3 DEF PushTransaction, TypeOK
<1>6. ASSUME NEW s \in Side, Watch(s)
      PROVE  TypeOK'
  BY <1>6 DEF Watch, TypeOK
<1>7. ASSUME NEW s \in Side, NEW c \in Commit, ExternalPush(s, c)
      PROVE  TypeOK'
  BY <1>7, SyncAssumption DEF ExternalPush, TypeOK, MaybeCommit
<1>8. CASE UNCHANGED vars
  BY <1>8 DEF vars, world, TypeOK
<1> QED
  BY <1>1, <1>2, <1>3, <1>4, <1>5, <1>6, <1>7, <1>8 DEF Next

-----------------------------------------------------------------------------
(* Transactions stay, and ask for a fast-forward.                          *)

LEMMA NextKeeps ==
    ASSUME TypeOK, [Next]_vars
    PROVE  KeepsTransactions
<1>1. ASSUME txns \subseteq txns'
      PROVE  KeepsTransactions
  BY <1>1 DEF KeepsTransactions
<1>2. ASSUME NEW t \in txns, PushTransaction(t)
      PROVE  KeepsTransactions
  <2>1. PICK phase : txns' = (txns \ {t}) \cup {[t EXCEPT !.phase = phase]}
    BY <1>2 DEF PushTransaction, Becomes
  <2>2. t \in Transaction
    BY DEF TypeOK
  <2> DEFINE u == [t EXCEPT !.phase = phase]
  <2>3. u.target = t.target /\ u.source = t.source /\ u.expected = t.expected
    BY <2>2 DEF Transaction
  <2>4. u \in txns' /\ \A other \in txns \ {t} : other \in txns'
    BY <2>1
  <2> HIDE DEF u
  <2> QED
    BY <2>3, <2>4 DEF KeepsTransactions
<1>3. ASSUME NEW j \in SyncPod, SyncStep(j)
      PROVE  txns \subseteq txns'
  BY <1>3 DEF SyncStep, SyncGet, FindBranchA, FindBranchB, CompareCommits,
              CreatePushTransaction, SideBehind, UpdateStatus, Create
<1>4. ASSUME NEW j \in ResolverPod, ResolverStep(j)
      PROVE  txns \subseteq txns'
  BY <1>4 DEF ResolverStep, ResolverGet, AttemptMerge, CreateMergePushA,
              CreateMergePushB, UpdateStatus, Create
<1>5. CASE \/ \E j \in SyncPod : ListFails(j)
           \/ \E j \in Job : Fail(j)
           \/ \E s \in Side : Watch(s)
           \/ \E s \in Side, c \in Commit : ExternalPush(s, c)
           \/ UNCHANGED vars
  BY <1>1, <1>5 DEF ListFails, Fail, Watch, ExternalPush, vars
<1> QED
  BY <1>1, <1>2, <1>3, <1>4, <1>5 DEF Next

(***************************************************************************)
(* A merge is ahead of both its parents.                                   *)
(***************************************************************************)
LEMMA MergeIsAhead ==
    ASSUME NEW a \in Commit, NEW b \in Commit, NEW m \in Merges(a, b)
    PROVE  /\ m \in Commit /\ m \in MergeCommit
           /\ FastForward(a, m) /\ FastForward(b, m)
<1>1. a \in Anc[a] /\ b \in Anc[b] /\ m \in Commit /\ m \in MergeCommit
  BY CommitGraphAssumption, SyncAssumption DEF Merges
<1> QED
  BY <1>1 DEF Merges, FastForward

LEMMA NextForward ==
    ASSUME TypeOK, TransactionsGoForward, \A j \in Job : JobInv(j), [Next]_vars
    PROVE  TransactionsGoForward'
<1>1. NoCommit \notin Commit
  BY CommitGraphAssumption
<1>2. ASSUME txns' = txns
      PROVE  TransactionsGoForward'
  BY <1>2 DEF TransactionsGoForward
<1>3. ASSUME NEW s \in Side, NEW c \in Commit, NEW e \in Commit, FastForward(e, c),
             Create(s, c, e)
      PROVE  TransactionsGoForward'
  BY <1>1, <1>3 DEF TransactionsGoForward, Create
<1>4. ASSUME NEW t \in txns, PushTransaction(t)
      PROVE  TransactionsGoForward'
  <2>1. PICK phase : txns' = (txns \ {t}) \cup {[t EXCEPT !.phase = phase]}
    BY <1>4 DEF PushTransaction, Becomes
  <2>2. t \in Transaction
    BY DEF TypeOK
  <2>3. LET u == [t EXCEPT !.phase = phase]
        IN u.source = t.source /\ u.expected = t.expected
    BY <2>2 DEF Transaction
  <2> QED
    BY <2>1, <2>3 DEF TransactionsGoForward
<1>5. ASSUME NEW j \in SyncPod, CreatePushTransaction(j)
      PROVE  TransactionsGoForward'
  <2>1. Behind(local[j].new)
    BY <1>5 DEF CreatePushTransaction, JobInv, Job
  <2>2. CASE local[j].new.base = local[j].new.a
    <3>1. local[j].new.a \in Anc[local[j].new.b]
      BY <2>1, <2>2, CommitGraphAssumption DEF Behind
    <3> QED
      BY <1>3, <1>5, <2>1, <2>2, <3>1 DEF CreatePushTransaction, SideBehind, Behind, FastForward, Side
  <2>3. CASE local[j].new.base # local[j].new.a
    <3>1. local[j].new.b \in Anc[local[j].new.a]
      BY <2>1, <2>3 DEF Behind
    <3> QED
      BY <1>3, <1>5, <2>1, <2>3, <3>1 DEF CreatePushTransaction, SideBehind, Behind, FastForward, Side
  <2> QED
    BY <2>2, <2>3
<1>6. ASSUME NEW j \in ResolverPod, CreateMergePushA(j) \/ CreateMergePushB(j)
      PROVE  TransactionsGoForward'
  <2>1. /\ local[j].new.a \in Commit /\ local[j].new.b \in Commit
        /\ local[j].merge \in Merges(local[j].new.a, local[j].new.b)
    BY <1>6 DEF CreateMergePushA, CreateMergePushB, JobInv, Job
  <2> QED
    BY <1>3, <1>6, <2>1, MergeIsAhead DEF CreateMergePushA, CreateMergePushB, Side
<1>7. ASSUME NEW j \in SyncPod, SyncStep(j)
      PROVE  TransactionsGoForward'
  BY <1>2, <1>5, <1>7 DEF SyncStep, SyncGet, FindBranchA, FindBranchB, CompareCommits, UpdateStatus
<1>8. ASSUME NEW j \in ResolverPod, ResolverStep(j)
      PROVE  TransactionsGoForward'
  BY <1>2, <1>6, <1>8 DEF ResolverStep, ResolverGet, AttemptMerge, UpdateStatus
<1>9. CASE \/ \E j \in SyncPod : ListFails(j)
           \/ \E j \in Job : Fail(j)
           \/ \E s \in Side : Watch(s)
           \/ \E s \in Side, c \in Commit : ExternalPush(s, c)
           \/ UNCHANGED vars
  BY <1>2, <1>9 DEF ListFails, Fail, Watch, ExternalPush, vars
<1> QED
  BY <1>4, <1>7, <1>8, <1>9 DEF Next

-----------------------------------------------------------------------------
(* What a job is about to create and to write.                             *)

(* A job that stands still stays right, as transactions stay. *)
LEMMA JobSame ==
    ASSUME NEW j \in Job, JobInv(j), KeepsTransactions, pc'[j] = pc[j], local'[j] = local[j]
    PROVE  JobInv(j)'
<1>1. \A s, c, e : Asked(s, c, e) =>
        \E t \in txns' : t.target = s /\ t.source = c /\ t.expected = e
  BY DEF Asked, KeepsTransactions
<1>2. Backed(local[j].new) => Backed(local[j].new)'
  BY <1>1 DEF Backed, Asked
<1> QED
  BY <1>1, <1>2 DEF JobInv, Behind, Diverged, Asked

(* What has just been created is there. *)
LEMMA Created ==
    ASSUME NEW s, NEW c, NEW e, Create(s, c, e)
    PROVE  \E t \in txns' : t.target = s /\ t.source = c /\ t.expected = e
<1> DEFINE u == [target |-> s, source |-> c, expected |-> e, phase |-> "Pending"]
<1>1. u \in txns'
  BY DEF Create
<1>2. u.target = s /\ u.source = c /\ u.expected = e
  OBVIOUS
<1> HIDE DEF u
<1> QED
  BY <1>1, <1>2

(* A job that stops has nothing to be right about. *)
LEMMA JobReturns ==
    ASSUME TypeOK, NEW j \in Job, Return(j)
    PROVE  JobInv(j)'
<1>1. pc'[j] = "idle"
  BY DEF TypeOK, Return, Goto
<1> QED
  BY <1>1 DEF JobInv, Resolving

(* A job that concludes that the branches do not match, or do. *)
LEMMA JobConcludes ==
    ASSUME TypeOK, NEW j \in Job, NEW phase, NEW a, NEW b, NEW base,
           Conclude(j, phase, a, b, base), phase # "Syncing",
           phase = "Conflicted" /\ base # NoCommit => ~FastForward(a, b) /\ ~FastForward(b, a)
    PROVE  JobInv(j)'
<1> DEFINE s == [phase |-> phase, a |-> a, b |-> b, base |-> base]
<1>1. pc'[j] = "writing" /\ local'[j].new = s
  BY DEF TypeOK, Conclude, Goto, Local
<1>2. s.phase = phase /\ s.a = a /\ s.b = b /\ s.base = base
  OBVIOUS
<1> HIDE DEF s
<1> QED
  BY <1>1, <1>2 DEF JobInv, Resolving, Backed, Diverged

(***************************************************************************)
(* A merge base of two commits neither of which it is shows that they have *)
(* diverged; one that is one of them is behind the other.                  *)
(***************************************************************************)
LEMMA MergeBaseDecides ==
    ASSUME NEW a \in Commit, NEW b \in Commit, NEW base \in MergeBases(a, b)
    PROVE  /\ base # a => ~FastForward(a, b)
           /\ base # b => ~FastForward(b, a)
           /\ base \in Anc[a] /\ base \in Anc[b]
<1>1. a \in Anc[a] /\ b \in Anc[b] /\ NoCommit \notin Commit
  BY CommitGraphAssumption
<1>2. /\ base \in Anc[a] /\ base \in Anc[b]
      /\ \A d \in Anc[a] \cap Anc[b] : base \in Anc[d] => d = base
  BY DEF MergeBases
<1> QED
  BY <1>1, <1>2 DEF FastForward

LEMMA SyncStepJob ==
    ASSUME TypeOK, NEW j \in SyncPod, JobInv(j), SyncStep(j)
    PROVE  JobInv(j)'
<1>0. /\ j \in Job /\ j \notin ResolverPod /\ local[j] \in Local /\ local[j].new \in Status
  BY SyncAssumption DEF TypeOK, Job, Local
<1>1. ASSUME pc'[j] \in {"findingA", "findingB", "comparing"}
      PROVE  JobInv(j)'
  BY <1>0, <1>1 DEF JobInv, Resolving
<1>2. CASE SyncGet(j)
  BY <1>0, <1>1, <1>2 DEF SyncGet, Goto, TypeOK
<1>3. CASE FindBranchA(j) \/ FindBranchB(j)
  <2>1. CASE Conclude(j, "Conflicted", NoCommit, NoCommit, NoCommit)
    BY <1>0, <2>1, JobConcludes
  <2>2. CASE Conclude(j, "InSync", local[j].new.a, head["B"], local[j].new.a)
    BY <1>0, <2>2, JobConcludes
  <2>3. CASE Goto(j, "findingB") \/ Goto(j, "comparing")
    BY <1>0, <1>1, <2>3 DEF Goto, TypeOK
  <2> QED
    BY <1>3, <2>1, <2>2, <2>3 DEF FindBranchA, FindBranchB
<1>4. CASE CompareCommits(j)
  <2> DEFINE a == local[j].new.a
             b == local[j].new.b
  <2>1. CASE Conclude(j, "Conflicted", a, b, NoCommit)
    BY <1>0, <2>1, JobConcludes
  <2>2. ASSUME {a, b} \subseteq CloneOf("A"), NEW base \in MergeBases(a, b),
               base \notin {a, b}, Conclude(j, "Conflicted", a, b, base)
        PROVE  JobInv(j)'
    <3>1. a \in Commit /\ b \in Commit
      BY <2>2, CloneType DEF Side
    <3>2. ~FastForward(a, b) /\ ~FastForward(b, a)
      BY <2>2, <3>1, MergeBaseDecides
    <3> QED
      BY <1>0, <2>2, <3>2, JobConcludes
  <2>3. ASSUME {a, b} \subseteq CloneOf("A"), NEW base \in MergeBases(a, b),
               base \in {a, b}, Goto(j, "creating"),
               local' = [local EXCEPT ![j].new = [phase |-> "Syncing", a |-> a, b |-> b,
                                                  base |-> base]]
        PROVE  JobInv(j)'
    <3>1. a \in Commit /\ b \in Commit
      BY <2>3, CloneType DEF Side
    <3>2. base \in Anc[a] /\ base \in Anc[b]
      BY <2>3, <3>1, MergeBaseDecides
    <3>3. /\ pc'[j] = "creating"
          /\ local'[j].new = [phase |-> "Syncing", a |-> a, b |-> b, base |-> base]
      BY <1>0, <2>3 DEF Goto, TypeOK, Local
    <3>4. Behind(local[j].new)'
      BY <2>3, <3>1, <3>2, <3>3 DEF Behind
    <3> QED
      BY <1>0, <3>3, <3>4 DEF JobInv, Resolving
  <2> QED
    BY <1>4, <2>1, <2>2, <2>3 DEF CompareCommits, OneIsBehind
<1>5. CASE CreatePushTransaction(j)
  <2> DEFINE new == local[j].new
  <2>1. pc'[j] = "writing" /\ local'[j] = local[j] /\ Behind(new)
    BY <1>0, <1>5 DEF CreatePushTransaction, Goto, TypeOK, JobInv
  <2>2. CASE new.base = new.a
    <3>1. Create("A", new.b, new.a)
      BY <1>5, <2>2 DEF CreatePushTransaction, SideBehind
    <3>2. \E t \in txns' : t.target = "A" /\ t.source = new.b /\ t.expected = new.a
      BY <3>1, Created
    <3>3. Backed(local[j].new)'
      BY <2>1, <2>2, <3>2 DEF Backed, Asked
    <3> QED
      BY <1>0, <2>1, <3>3 DEF JobInv, Resolving, Diverged, Behind
  <2>3. CASE new.base # new.a
    <3>1. Create("B", new.a, new.b) /\ new.base = new.b
      BY <1>5, <2>1, <2>3 DEF CreatePushTransaction, SideBehind, Behind
    <3>2. \E t \in txns' : t.target = "B" /\ t.source = new.a /\ t.expected = new.b
      BY <3>1, Created
    <3>3. Backed(local[j].new)'
      BY <2>1, <3>1, <3>2 DEF Backed, Asked
    <3> QED
      BY <1>0, <2>1, <3>3 DEF JobInv, Resolving, Diverged, Behind
  <2> QED
    BY <2>2, <2>3
<1>6. CASE UpdateStatus(j)
  BY <1>0, <1>6, JobReturns DEF UpdateStatus
<1> QED
  BY <1>2, <1>3, <1>4, <1>5, <1>6 DEF SyncStep

LEMMA ResolverStepJob ==
    ASSUME TypeOK, NEW j \in ResolverPod, JobInv(j), KeepsTransactions, ResolverStep(j)
    PROVE  JobInv(j)'
<1>0. /\ j \in Job /\ local[j] \in Local /\ local[j].new \in Status
  BY DEF TypeOK, Job, Local
<1> DEFINE new == local[j].new
<1>1. CASE ResolverGet(j)
  <2>1. pc'[j] = "resolving"
    BY <1>0, <1>1 DEF ResolverGet, Goto, TypeOK
  <2> QED
    BY <2>1 DEF JobInv, Resolving
<1>2. CASE AttemptMerge(j)
  <2>1. CASE Conclude(j, "RequiresManualIntervention", new.a, new.b, new.base)
    BY <1>0, <2>1, JobConcludes
  <2>2. ASSUME NoCommit \notin {new.a, new.b, new.base},
               NEW m \in Merges(new.a, new.b), local' = [local EXCEPT ![j].merge = m],
               Goto(j, "creatingA")
        PROVE  JobInv(j)'
    <3>1. pc'[j] = "creatingA" /\ local'[j].new = new /\ local'[j].merge = m
      BY <1>0, <2>2 DEF Goto, TypeOK, Local
    <3>2. new.a \in Commit /\ new.b \in Commit
      BY <1>0, <2>2 DEF Status, MaybeCommit
    <3> QED
      BY <2>2, <3>1, <3>2 DEF JobInv, Resolving
  <2> QED
    BY <1>2, <2>1, <2>2 DEF AttemptMerge
<1>3. CASE CreateMergePushA(j)
  <2>1. pc'[j] = "creatingB" /\ local'[j] = local[j] /\ pc[j] = "creatingA"
    BY <1>0, <1>3 DEF CreateMergePushA, Goto, TypeOK
  <2>2. \E t \in txns' : t.target = "A" /\ t.source = local[j].merge /\ t.expected = new.a
    BY <1>3, Created DEF CreateMergePushA
  <2> QED
    BY <2>1, <2>2 DEF JobInv, Resolving, Asked
<1>4. CASE CreateMergePushB(j)
  <2> DEFINE s == [new EXCEPT !.phase = "Syncing"]
             m == local[j].merge
  <2>1. pc'[j] = "writing" /\ local'[j].new = s
    BY <1>0, <1>4 DEF CreateMergePushB, Goto, TypeOK, Local
  <2>2. s.phase = "Syncing" /\ s.a = new.a /\ s.b = new.b
    BY <1>0 DEF Status
  <2> HIDE DEF s
  <2>3. Asked("A", m, new.a) /\ m \in MergeCommit
    BY <1>4 DEF CreateMergePushB, JobInv, Merges
  <2>4. \E t \in txns' : t.target = "A" /\ t.source = m /\ t.expected = new.a
    BY <2>3 DEF Asked, KeepsTransactions
  <2>5. \E t \in txns' : t.target = "B" /\ t.source = m /\ t.expected = new.b
    BY <1>4, Created DEF CreateMergePushB
  <2>6. Backed(local[j].new)' /\ Diverged(local[j].new)'
    BY <2>1, <2>2, <2>3, <2>4, <2>5 DEF Backed, Diverged, Asked
  <2> QED
    BY <2>1, <2>6 DEF JobInv, Resolving
<1>5. CASE UpdateStatus(j)
  BY <1>0, <1>5, JobReturns DEF UpdateStatus
<1> QED
  BY <1>1, <1>2, <1>3, <1>4, <1>5 DEF ResolverStep

LEMMA NextJobs ==
    ASSUME TypeOK, \A j \in Job : JobInv(j), KeepsTransactions, [Next]_vars
    PROVE  \A j \in Job : JobInv(j)'
<1>1. ASSUME NEW i \in Job, JobInv(i)', \A j \in Job \ {i} : pc'[j] = pc[j] /\ local'[j] = local[j]
      PROVE  \A j \in Job : JobInv(j)'
  <2>1. \A j \in Job \ {i} : JobInv(j)'
    BY <1>1, JobSame
  <2> QED
    BY <1>1, <2>1
<1>2. ASSUME UNCHANGED <<pc, local>>
      PROVE  \A j \in Job : JobInv(j)'
  BY <1>2, JobSame
<1>3. ASSUME NEW i \in Job, NEW phase, NEW a, NEW b, NEW base,
             Return(i) \/ Conclude(i, phase, a, b, base)
      PROVE  \A j \in Job \ {i} : pc'[j] = pc[j] /\ local'[j] = local[j]
  BY <1>3 DEF TypeOK, Return, Conclude, Goto
<1>4. ASSUME NEW i \in SyncPod, SyncStep(i)
      PROVE  \A j \in Job : JobInv(j)'
  <2>1. i \in Job /\ JobInv(i)'
    BY <1>4, SyncStepJob DEF Job
  <2>2. \A j \in Job \ {i} : pc'[j] = pc[j] /\ local'[j] = local[j]
    BY <1>3, <1>4, <2>1 DEF SyncStep, SyncGet, FindBranchA, FindBranchB, CompareCommits,
                            CreatePushTransaction, UpdateStatus, Goto, TypeOK
  <2> QED
    BY <1>1, <2>1, <2>2
<1>5. ASSUME NEW i \in ResolverPod, ResolverStep(i)
      PROVE  \A j \in Job : JobInv(j)'
  <2>1. i \in Job /\ JobInv(i)'
    BY <1>5, ResolverStepJob DEF Job
  <2>2. \A j \in Job \ {i} : pc'[j] = pc[j] /\ local'[j] = local[j]
    BY <1>3, <1>5, <2>1 DEF ResolverStep, ResolverGet, AttemptMerge, CreateMergePushA,
                            CreateMergePushB, UpdateStatus, Goto, TypeOK
  <2> QED
    BY <1>1, <2>1, <2>2
<1>6. ASSUME NEW i \in SyncPod, ListFails(i)
      PROVE  \A j \in Job : JobInv(j)'
  <2>1. i \in Job /\ Conclude(i, "Conflicted", NoCommit, NoCommit, NoCommit)
    BY <1>6 DEF ListFails, Job
  <2>2. JobInv(i)'
    BY <2>1, JobConcludes
  <2> QED
    BY <1>1, <1>3, <2>1, <2>2
<1>7. ASSUME NEW i \in Job, Fail(i)
      PROVE  \A j \in Job : JobInv(j)'
  <2>1. Return(i) /\ JobInv(i)'
    BY <1>7, JobReturns DEF Fail
  <2> QED
    BY <1>1, <1>3, <2>1
<1>8. CASE \/ \E t \in txns : PushTransaction(t)
           \/ \E s \in Side : Watch(s)
           \/ \E s \in Side, c \in Commit : ExternalPush(s, c)
           \/ UNCHANGED vars
  BY <1>2, <1>8 DEF PushTransaction, Watch, ExternalPush, vars
<1> QED
  BY <1>4, <1>5, <1>6, <1>7, <1>8 DEF Next

-----------------------------------------------------------------------------
(* The stored status.                                                      *)

(* A status is written as some job had concluded it, or stays. *)
LEMMA NextStatus ==
    ASSUME [Next]_vars
    PROVE  \/ status' = status
           \/ \E j \in Job : /\ pc[j] = "writing" /\ j \in fresh
                            /\ status' = local[j].new /\ UNCHANGED txns
                            /\ UpdateStatus(j)
<1>1. ASSUME NEW j \in Job, UpdateStatus(j)
      PROVE  \/ status' = status
             \/ /\ pc[j] = "writing" /\ j \in fresh
                /\ status' = local[j].new /\ UNCHANGED txns
  BY <1>1 DEF UpdateStatus, Current
<1>2. ASSUME NEW j \in SyncPod, SyncStep(j)
      PROVE  status' = status \/ UpdateStatus(j)
  BY <1>2 DEF SyncStep, SyncGet, FindBranchA, FindBranchB, CompareCommits, CreatePushTransaction
<1>3. ASSUME NEW j \in ResolverPod, ResolverStep(j)
      PROVE  status' = status \/ UpdateStatus(j)
  BY <1>3 DEF ResolverStep, ResolverGet, AttemptMerge, CreateMergePushA, CreateMergePushB
<1>4. CASE \/ \E j \in SyncPod : ListFails(j)
           \/ \E j \in Job : Fail(j)
           \/ \E t \in txns : PushTransaction(t)
           \/ \E s \in Side : Watch(s)
           \/ \E s \in Side, c \in Commit : ExternalPush(s, c)
           \/ UNCHANGED vars
  BY <1>4 DEF ListFails, Fail, PushTransaction, Watch, ExternalPush, vars
<1> QED
  BY <1>1, <1>2, <1>3, <1>4 DEF Next, Job

LEMMA NextBacked ==
    ASSUME Inv, KeepsTransactions, [Next]_vars
    PROVE  Backed(status)' /\ Diverged(status)'
<1>1. Backed(status) /\ Diverged(status)
  BY DEF Inv
<1>2. CASE status' = status
  BY <1>1, <1>2 DEF Backed, Diverged, Asked, KeepsTransactions
<1>3. ASSUME NEW j \in Job, pc[j] = "writing", status' = local[j].new, UNCHANGED txns
      PROVE  Backed(status)' /\ Diverged(status)'
  <2>1. Backed(local[j].new) /\ Diverged(local[j].new)
    BY <1>3 DEF Inv, JobInv
  <2> QED
    BY <1>3, <2>1 DEF Backed, Diverged, Asked
<1> QED
  BY <1>2, <1>3, NextStatus

-----------------------------------------------------------------------------
(* The resolver's copy.                                                    *)

LEMMA ConflictRead ==
    \A new \in Status : [new EXCEPT !.phase = "Conflicted"]
        = [phase |-> "Conflicted", a |-> new.a, b |-> new.b, base |-> new.base]
BY DEF Status

LEMMA ResolverStepCopy ==
    ASSUME TypeOK, CopyInv, NEW j \in ResolverPod, ResolverStep(j), j \in fresh', status' = status,
           pc'[j] \in Resolving \cup {"writing"}
    PROVE  status = [local'[j].new EXCEPT !.phase = "Conflicted"]
<1>0. j \in Job /\ local[j] \in Local /\ local[j].new \in Status /\ status \in Status
  BY DEF TypeOK, Job, Local
<1> DEFINE new == local[j].new
<1>1. CASE ResolverGet(j)
  <2>1. local'[j].new = status /\ status.phase = "Conflicted"
    BY <1>0, <1>1 DEF ResolverGet, TypeOK, Local
  <2> QED
    BY <1>0, <2>1, ConflictRead DEF Status
<1>2. ASSUME fresh' = fresh, pc[j] \in Resolving, NEW s \in Status, local'[j].new = s,
             s.a = new.a, s.b = new.b, s.base = new.base
      PROVE  status = [local'[j].new EXCEPT !.phase = "Conflicted"]
  <2>1. status = [new EXCEPT !.phase = "Conflicted"]
    BY <1>2 DEF CopyInv
  <2> QED
    BY <1>0, <1>2, <2>1, ConflictRead
<1>3. CASE AttemptMerge(j)
  <2>1. CASE Conclude(j, "RequiresManualIntervention", new.a, new.b, new.base)
    <3> DEFINE s == [phase |-> "RequiresManualIntervention", a |-> new.a, b |-> new.b,
                     base |-> new.base]
    <3>1. local'[j].new = s
      BY <1>0, <2>1 DEF Conclude, TypeOK, Local
    <3>2. s \in Status /\ s.a = new.a /\ s.b = new.b /\ s.base = new.base
      BY <1>0 DEF Status, SyncPhase
    <3> HIDE DEF s
    <3> QED
      BY <1>2, <1>3, <3>1, <3>2 DEF AttemptMerge, Resolving
  <2>2. ASSUME NEW m, local' = [local EXCEPT ![j].merge = m]
        PROVE  status = [local'[j].new EXCEPT !.phase = "Conflicted"]
    <3>1. local'[j].new = new
      BY <1>0, <2>2 DEF TypeOK, Local
    <3> QED
      BY <1>0, <1>2, <1>3, <3>1 DEF AttemptMerge, Resolving
  <2> QED
    BY <1>3, <2>1, <2>2 DEF AttemptMerge
<1>4. CASE CreateMergePushA(j)
  BY <1>0, <1>2, <1>4 DEF CreateMergePushA, Resolving
<1>5. CASE CreateMergePushB(j)
  <2> DEFINE s == [new EXCEPT !.phase = "Syncing"]
  <2>1. local'[j].new = s
    BY <1>0, <1>5 DEF CreateMergePushB, TypeOK, Local
  <2>2. s \in Status /\ s.a = new.a /\ s.b = new.b /\ s.base = new.base
    BY <1>0 DEF Status, SyncPhase
  <2> HIDE DEF s
  <2> QED
    BY <1>2, <1>5, <2>1, <2>2 DEF CreateMergePushB, Resolving
<1>6. CASE UpdateStatus(j)
  BY <1>0, <1>6 DEF UpdateStatus, Return, Goto, TypeOK, Resolving
<1> QED
  BY <1>1, <1>3, <1>4, <1>5, <1>6 DEF ResolverStep

LEMMA NextCopy ==
    ASSUME TypeOK, CopyInv, [Next]_vars
    PROVE  CopyInv'
<1>1. ASSUME NEW i \in Job, status' = status, fresh' \subseteq fresh \cup {i},
             \A j \in Job \ {i} : pc'[j] = pc[j] /\ local'[j] = local[j],
             \/ i \notin ResolverPod
             \/ i \notin fresh'
             \/ pc'[i] \in Resolving \cup {"writing"}
                    => status = [local'[i].new EXCEPT !.phase = "Conflicted"]
      PROVE  CopyInv'
  <2>1. fresh' \subseteq Job
    BY <1>1 DEF TypeOK
  <2> QED
    BY <1>1, <2>1 DEF CopyInv
<1>2. CASE fresh' = {}
  BY <1>2 DEF CopyInv
<1>3. ASSUME NEW i \in Job, NEW phase, NEW a, NEW b, NEW base,
             Return(i) \/ Conclude(i, phase, a, b, base)
      PROVE  \A j \in Job \ {i} : pc'[j] = pc[j] /\ local'[j] = local[j]
  BY <1>3 DEF TypeOK, Return, Conclude, Goto
<1>4. ASSUME NEW i \in Job, UpdateStatus(i)
      PROVE  CopyInv'
  <2>1. \A j \in Job \ {i} : pc'[j] = pc[j] /\ local'[j] = local[j]
    BY <1>3, <1>4 DEF UpdateStatus
  <2>2. pc'[i] = "idle"
    BY <1>4 DEF UpdateStatus, Return, Goto, TypeOK
  <2>3. fresh' = {} \/ (status' = status /\ fresh' = fresh \ {i})
    BY <1>4 DEF UpdateStatus
  <2> QED
    BY <1>1, <1>2, <2>1, <2>3
<1>5. ASSUME NEW i \in SyncPod, SyncStep(i)
      PROVE  CopyInv'
  <2>1. i \in Job /\ i \notin ResolverPod
    BY SyncAssumption DEF Job
  <2>2. CASE ~UpdateStatus(i)
    <3>1. \A j \in Job \ {i} : pc'[j] = pc[j] /\ local'[j] = local[j]
      BY <1>3, <1>5, <2>1, <2>2 DEF SyncStep, SyncGet, FindBranchA, FindBranchB, CompareCommits,
                                    CreatePushTransaction, Goto, TypeOK
    <3>2. status' = status /\ fresh' \subseteq fresh \cup {i}
      BY <1>5, <2>2 DEF SyncStep, SyncGet, FindBranchA, FindBranchB, CompareCommits,
                        CreatePushTransaction
    <3> QED
      BY <1>1, <2>1, <3>1, <3>2
  <2> QED
    BY <1>4, <2>1, <2>2
<1>6. ASSUME NEW i \in ResolverPod, ResolverStep(i)
      PROVE  CopyInv'
  <2>1. i \in Job
    BY DEF Job
  <2>2. CASE ~UpdateStatus(i)
    <3>1. \A j \in Job \ {i} : pc'[j] = pc[j] /\ local'[j] = local[j]
      BY <1>3, <1>6, <2>1, <2>2 DEF ResolverStep, ResolverGet, AttemptMerge, CreateMergePushA,
                                    CreateMergePushB, Goto, TypeOK
    <3>2. status' = status /\ fresh' \subseteq fresh \cup {i}
      BY <1>6, <2>2 DEF ResolverStep, ResolverGet, AttemptMerge, CreateMergePushA, CreateMergePushB
    <3> QED
      BY <1>1, <1>6, <2>1, <3>1, <3>2, ResolverStepCopy
  <2> QED
    BY <1>4, <2>1, <2>2
<1>7. ASSUME NEW i \in SyncPod, ListFails(i)
      PROVE  CopyInv'
  <2>1. i \in Job /\ i \notin ResolverPod
    BY SyncAssumption DEF Job
  <2> QED
    BY <1>1, <1>3, <1>7, <2>1 DEF ListFails
<1>8. ASSUME NEW i \in Job, Fail(i)
      PROVE  CopyInv'
  BY <1>1, <1>3, <1>8 DEF Fail
<1>9. CASE \/ \E t \in txns : PushTransaction(t)
           \/ \E s \in Side : Watch(s)
           \/ \E s \in Side, c \in Commit : ExternalPush(s, c)
           \/ UNCHANGED vars
  BY <1>9 DEF PushTransaction, Watch, ExternalPush, vars, CopyInv
<1> QED
  BY <1>5, <1>6, <1>7, <1>8, <1>9 DEF Next

-----------------------------------------------------------------------------
(* The theorems.                                                           *)

LEMMA InitInv == Init => Inv
<1> SUFFICES ASSUME Init PROVE Inv
  OBVIOUS
<1>1. TypeOK
  BY InitType
<1>2. TransactionsGoForward /\ CopyInv
  BY DEF Init, TransactionsGoForward, CopyInv
<1>3. Backed(status) /\ Diverged(status)
  BY DEF Init, NoStatus, Backed, Diverged
<1>4. \A j \in Job : pc[j] = "idle"
  BY DEF Init
<1>5. \A j \in Job : JobInv(j)
  BY <1>4 DEF JobInv, Resolving
<1> QED
  BY <1>1, <1>2, <1>3, <1>5 DEF Inv

LEMMA NextInv == Inv /\ [Next]_vars => Inv'
<1> SUFFICES ASSUME Inv, [Next]_vars PROVE Inv'
  OBVIOUS
<1>0. TypeOK /\ TransactionsGoForward /\ (\A j \in Job : JobInv(j)) /\ CopyInv
  BY DEF Inv
<1>1. KeepsTransactions
  BY <1>0, NextKeeps
<1>2. TypeOK'
  BY <1>0, NextType
<1>3. TransactionsGoForward'
  BY <1>0, NextForward
<1>4. \A j \in Job : JobInv(j)'
  BY <1>0, <1>1, NextJobs
<1>5. Backed(status)' /\ Diverged(status)'
  BY <1>1, NextBacked
<1>6. CopyInv'
  BY <1>0, NextCopy
<1>7. Job' = Job
  BY DEF Job
<1> QED
  BY <1>2, <1>3, <1>4, <1>5, <1>6, <1>7 DEF Inv

LEMMA AlwaysInv == Spec => []Inv
BY InitInv, NextInv, PTL DEF Spec

(***************************************************************************)
(* The variables keep their types: both controllers write statuses and     *)
(* create transactions of commits only.                                    *)
(***************************************************************************)
THEOREM SyncTypes == Spec => []TypeOK
<1>1. Inv => TypeOK
  BY DEF Inv
<1> QED
  BY <1>1, AlwaysInv, PTL

(***************************************************************************)
(* createPushTransaction and createMergePushTransactions only ever ask for *)
(* a fast-forward of the commit they expect.                               *)
(***************************************************************************)
THEOREM AskedForward == Spec => []TransactionsGoForward
<1>1. Inv => TransactionsGoForward
  BY DEF Inv
<1> QED
  BY <1>1, AlwaysInv, PTL

(***************************************************************************)
(* A stored Syncing has its transactions, whichever controller wrote it    *)
(* and whatever failed before.                                             *)
(***************************************************************************)
THEOREM SyncingBacked == Spec => []SyncingIsBacked
<1>1. Inv => SyncingIsBacked
  BY DEF Inv, Backed, SyncingIsBacked
<1> QED
  BY <1>1, AlwaysInv, PTL

(***************************************************************************)
(* calculateMergeBase reports a conflict with a merge base for commits     *)
(* that have diverged only.                                                *)
(***************************************************************************)
THEOREM ConflictsDiverged == Spec => []ConflictsHaveDiverged
<1>1. Inv => ConflictsHaveDiverged
  BY DEF Inv, Diverged, ConflictsHaveDiverged
<1> QED
  BY <1>1, AlwaysInv, PTL

(***************************************************************************)
(* The resolver's write replaces the conflict it has read: by then the     *)
(* sync controller has concluded nothing else.                             *)
(***************************************************************************)
THEOREM ResolverConcludes == Spec => ResolvesWhatItRead
<1>1. Inv /\ [Next]_vars => [ConcludesConflict]_vars
  <2> SUFFICES ASSUME Inv, [Next]_vars, status' # status, NEW j \in ResolverPod,
                      pc[j] = "writing", pc'[j] = "idle"
               PROVE  status = [local[j].new EXCEPT !.phase = "Conflicted"]
    BY DEF ConcludesConflict
  <2>1. PICK i \in Job : pc[i] = "writing" /\ i \in fresh /\ UpdateStatus(i)
    BY NextStatus
  <2>2. j \in Job /\ pc \in [Job -> PC]
    BY DEF Inv, TypeOK, Job
  <2>3. i = j
    BY <2>1, <2>2 DEF UpdateStatus, Return, Goto
  <2> QED
    BY <2>1, <2>3 DEF Inv, CopyInv
<1> QED
  BY <1>1, AlwaysInv, PTL DEF Spec, ResolvesWhatItRead

-----------------------------------------------------------------------------
(* Pushes that land.                                                       *)

Forward(s) == FastForward(remote[s], remote'[s])

LEMMA NextRemote ==
    ASSUME TypeOK, [Next]_vars, NEW s \in Side
    PROVE  remote'[s] = remote[s] \/ Forward(s)
<1>1. ASSUME NEW t \in txns, PushTransaction(t)
      PROVE  remote'[s] = remote[s] \/ Forward(s)
  BY <1>1 DEF PushTransaction, TypeOK, Forward, Transaction
<1>2. ASSUME NEW q \in Side, NEW c \in Commit, ExternalPush(q, c)
      PROVE  remote'[s] = remote[s] \/ Forward(s)
  BY <1>2 DEF ExternalPush, TypeOK, Forward
<1>3. CASE ~ \/ \E t \in txns : PushTransaction(t)
             \/ \E q \in Side, c \in Commit : ExternalPush(q, c)
  BY <1>3 DEF Next, SyncStep, SyncGet, FindBranchA, FindBranchB, CompareCommits,
     CreatePushTransaction, UpdateStatus, ResolverStep, ResolverGet, AttemptMerge,
     CreateMergePushA, CreateMergePushB, ListFails, Fail, Watch, world, vars
<1> QED
  BY <1>1, <1>2, <1>3

(* What a clone holds it goes on to hold, and a branch keeps its history. *)
LEMMA HistoryKept ==
    ASSUME TypeOK, [Next]_vars, NEW s \in Side, NEW c \in Commit
    PROVE  /\ InHistory(c, remote[s]) => InHistory(c, remote'[s])
           /\ c \in CloneOf(s) => c \in CloneOf(s)'
<1>1. InHistory(c, remote[s]) => InHistory(c, remote'[s])
  BY NextRemote, CommitGraphAssumption DEF Forward, FastForward, InHistory
<1>2. remote[s] \in MaybeCommit /\ NoCommit \notin Commit
  BY CommitGraphAssumption DEF TypeOK
<1>3. c \in CloneOf(s) <=> InHistory(c, remote[s]) \/ c \in Elsewhere[s]
  BY <1>2 DEF CloneOf, Reachable, InHistory, MaybeCommit
<1>4. InHistory(c, remote'[s]) \/ c \in Elsewhere[s] => c \in CloneOf(s)'
  BY <1>2 DEF CloneOf, Reachable, InHistory, MaybeCommit
<1> QED
  BY <1>1, <1>3, <1>4

(* Pushes of c to s that have succeeded have brought it there. *)
Lands(s, c) ==
    \A t \in txns : t.target = s /\ t.source = c /\ t.phase = "Succeeded"
                        => InHistory(c, remote[s])

LEMMA NextLands ==
    ASSUME TypeOK, [Next]_vars, NEW s \in Side, NEW c \in Commit, c \in CloneOf(s), Lands(s, c)
    PROVE  Lands(s, c)'
<1>1. InHistory(c, remote[s]) => InHistory(c, remote'[s])
  BY HistoryKept
<1>2. ASSUME \A t \in txns' : t \in txns \/ t.phase # "Succeeded"
      PROVE  Lands(s, c)'
  BY <1>1, <1>2 DEF Lands
<1>3. ASSUME NEW t \in txns, PushTransaction(t)
      PROVE  Lands(s, c)'
  <2>0. t \in Transaction /\ remote \in [Side -> MaybeCommit]
    BY DEF TypeOK
  <2>1. CASE t.target = s /\ t.source = c /\ Becomes(t, "Succeeded")
    <3>1. \/ Becomes(t, "Failed")
          \/ remote' = [remote EXCEPT ![t.target] = t.source]
      BY <1>3, <2>1 DEF PushTransaction
    <3>2. [t EXCEPT !.phase = "Failed"] # [t EXCEPT !.phase = "Succeeded"]
      BY <2>0 DEF Transaction
    <3>3. remote' = [remote EXCEPT ![s] = c] => Lands(s, c)'
      BY <2>0, CommitGraphAssumption DEF Lands, InHistory
    <3>4. CASE Becomes(t, "Failed")
      <4>1. [t EXCEPT !.phase = "Failed"].phase # "Succeeded"
        BY <2>0 DEF Transaction
      <4> QED
        BY <1>2, <3>4, <4>1 DEF Becomes
    <3> QED
      BY <2>1, <3>1, <3>3, <3>4
  <2>2. CASE Becomes(t, "Failed")
    <3>1. [t EXCEPT !.phase = "Failed"].phase # "Succeeded"
      BY <2>0 DEF Transaction
    <3> QED
      BY <1>2, <2>2, <3>1 DEF Becomes
  <2>3. CASE Becomes(t, "Succeeded") /\ ~(t.target = s /\ t.source = c)
    <3> DEFINE u == [t EXCEPT !.phase = "Succeeded"]
    <3>1. u.target = t.target /\ u.source = t.source
      BY <2>0 DEF Transaction
    <3>2. \A v \in txns' : v \in txns \/ v = u
      BY <2>3 DEF Becomes
    <3> HIDE DEF u
    <3> QED
      BY <1>1, <2>3, <3>1, <3>2 DEF Lands
  <2> QED
    BY <1>3, <2>1, <2>2, <2>3 DEF PushTransaction
<1>4. ASSUME NEW target, NEW source, NEW expected, Create(target, source, expected)
      PROVE  Lands(s, c)'
  BY <1>2, <1>4 DEF Create
<1>5. ASSUME NEW j \in Job, CreatePushTransaction(j) \/ CreateMergePushA(j) \/ CreateMergePushB(j)
      PROVE  Lands(s, c)'
  BY <1>4, <1>5 DEF CreatePushTransaction, CreateMergePushA, CreateMergePushB
<1>6. ASSUME txns' = txns
      PROVE  Lands(s, c)'
  BY <1>2, <1>6
<1>7. ASSUME NEW j \in SyncPod, SyncStep(j)
      PROVE  Lands(s, c)'
  BY <1>5, <1>6, <1>7 DEF SyncStep, SyncGet, FindBranchA, FindBranchB, CompareCommits,
     UpdateStatus, Job
<1>8. ASSUME NEW j \in ResolverPod, ResolverStep(j)
      PROVE  Lands(s, c)'
  BY <1>5, <1>6, <1>8 DEF ResolverStep, ResolverGet, AttemptMerge, UpdateStatus, Job
<1>9. CASE \/ \E j \in SyncPod : ListFails(j)
           \/ \E j \in Job : Fail(j)
           \/ \E q \in Side : Watch(q)
           \/ \E q \in Side, d \in Commit : ExternalPush(q, d)
           \/ UNCHANGED vars
  BY <1>6, <1>9 DEF ListFails, Fail, Watch, ExternalPush, vars
<1> QED
  BY <1>3, <1>7, <1>8, <1>9 DEF Next

(***************************************************************************)
(* As soon as the clone of the target holds a commit, and unless a push of *)
(* it was counted as a success before, a push of it succeeds only by       *)
(* landing it, and it stays landed.  What SucceededPushLands fails on are  *)
(* the other ones, which the push controller finds no command to send for. *)
(***************************************************************************)
THEOREM KnownSourcesLand ==
    ASSUME NEW s \in Side, NEW c \in Commit
    PROVE  Spec => [](c \in CloneOf(s) /\ Lands(s, c) => [](c \in CloneOf(s) /\ Lands(s, c)))
<1>1. Inv /\ c \in CloneOf(s) /\ Lands(s, c) /\ [Next]_vars
        => (c \in CloneOf(s) /\ Lands(s, c))'
  BY NextLands, HistoryKept DEF Inv
<1> QED
  BY <1>1, AlwaysInv, PTL DEF Spec

(***************************************************************************)
(* A commit the target has on some other branch all along lands whenever a *)
(* push of it succeeds.                                                    *)
(***************************************************************************)
THEOREM SharedSourcesLand ==
    ASSUME NEW s \in Side, NEW c \in Elsewhere[s]
    PROVE  Spec => []Lands(s, c)
<1>1. c \in Commit
  BY SyncAssumption
<1>2. Init => c \in CloneOf(s) /\ Lands(s, c)
  BY DEF Init, CloneOf, Lands
<1> QED
  BY <1>1, <1>2, KnownSourcesLand, PTL DEF Spec

-----------------------------------------------------------------------------
(* Agreement that lasts.                                                   *)

(* The heads stay as they are recorded, and can be listed. *)
HeadsRest == UNCHANGED <<exists, head>> /\ ~ \E j \in SyncPod : ListFails(j)

(* The sync controller reads two heads that agree. *)
ReadsAgreement(j) ==
    /\ pc[j] \in {"idle", "findingA", "findingB", "writing"}
    /\ pc[j] = "findingB" => local[j].new.a = head["A"]
    /\ pc[j] = "writing" => local[j].new.phase = "InSync"

AgreementInv == HeadsAgree /\ \A j \in SyncPod : ReadsAgreement(j)

LEMMA NextReads ==
    ASSUME TypeOK, AgreementInv, [Next /\ HeadsRest]_vars
    PROVE  AgreementInv'
<1>0. /\ pc \in [Job -> PC] /\ local \in [Job -> Local] /\ SyncPod \subseteq Job
      /\ exists = Side /\ head["A"] = head["B"]
      /\ \A j \in SyncPod : ReadsAgreement(j)
  BY DEF TypeOK, AgreementInv, HeadsAgree, Job
<1>1. UNCHANGED <<exists, head>> /\ HeadsAgree'
  BY DEF HeadsRest, vars, world, AgreementInv, HeadsAgree
<1>2. ASSUME NEW i \in Job, \A j \in Job \ {i} : pc'[j] = pc[j] /\ local'[j] = local[j],
             i \in SyncPod => ReadsAgreement(i)'
      PROVE  \A j \in SyncPod : ReadsAgreement(j)'
  BY <1>0, <1>1, <1>2 DEF ReadsAgreement
<1>3. ASSUME NEW i \in Job, Return(i)
      PROVE  \A j \in SyncPod : ReadsAgreement(j)'
  BY <1>0, <1>2, <1>3 DEF Return, Goto, ReadsAgreement
<1>4. ASSUME NEW i \in SyncPod, SyncStep(i)
      PROVE  \A j \in SyncPod : ReadsAgreement(j)'
  <2>0. i \in Job /\ local[i] \in Local /\ local[i].new \in Status /\ ReadsAgreement(i)
        /\ i \notin ResolverPod
    BY <1>0, SyncAssumption DEF Local
  <2>1. CASE SyncGet(i)
    BY <1>0, <1>2, <2>0, <2>1 DEF SyncGet, Goto, ReadsAgreement
  <2>2. CASE FindBranchA(i)
    <3>1. Goto(i, "findingB") /\ local' = [local EXCEPT ![i].new.a = head["A"]]
      BY <1>0, <2>2 DEF FindBranchA, Side
    <3>2. local'[i].new.a = head["A"]
      BY <1>0, <2>0, <3>1 DEF Local, Status
    <3> QED
      BY <1>0, <1>1, <1>2, <2>0, <3>1, <3>2 DEF Goto, ReadsAgreement
  <2>3. CASE FindBranchB(i)
    <3>1. Conclude(i, "InSync", head["A"], head["B"], head["A"])
      BY <1>0, <2>0, <2>3 DEF FindBranchB, Side, ReadsAgreement
    <3>2. local'[i].new.phase = "InSync"
      BY <1>0, <2>0, <3>1 DEF Conclude, Local
    <3> QED
      BY <1>0, <1>2, <2>0, <3>1, <3>2 DEF Conclude, Goto, ReadsAgreement
  <2>4. CASE UpdateStatus(i)
    BY <1>3, <2>0, <2>4 DEF UpdateStatus
  <2>5. ~CompareCommits(i) /\ ~CreatePushTransaction(i)
    BY <2>0 DEF CompareCommits, CreatePushTransaction, ReadsAgreement
  <2> QED
    BY <1>4, <2>1, <2>2, <2>3, <2>4, <2>5 DEF SyncStep
<1>5. ASSUME NEW i \in ResolverPod, ResolverStep(i)
      PROVE  \A j \in SyncPod : ReadsAgreement(j)'
  <2>1. i \in Job /\ i \notin SyncPod
    BY SyncAssumption DEF Job
  <2>2. \A j \in Job \ {i} : pc'[j] = pc[j] /\ local'[j] = local[j]
    BY <1>0, <1>5, <2>1 DEF ResolverStep, ResolverGet, AttemptMerge, CreateMergePushA,
       CreateMergePushB, UpdateStatus, Return, Conclude, Goto
  <2> QED
    BY <1>2, <2>1, <2>2
<1>6. ASSUME NEW i \in Job, Fail(i)
      PROVE  \A j \in SyncPod : ReadsAgreement(j)'
  BY <1>3, <1>6 DEF Fail
<1>7. ASSUME \/ \E t \in txns : PushTransaction(t)
             \/ \E s \in Side : Watch(s)
             \/ \E s \in Side, c \in Commit : ExternalPush(s, c)
             \/ UNCHANGED vars
      PROVE  \A j \in SyncPod : ReadsAgreement(j)'
  <2>1. UNCHANGED <<pc, local>>
    BY <1>7 DEF PushTransaction, Watch, ExternalPush, vars
  <2> QED
    BY <1>0, <1>1, <2>1 DEF ReadsAgreement
<1> QED
  BY <1>1, <1>4, <1>5, <1>6, <1>7 DEF Next, HeadsRest, AgreementInv

LEMMA NextInSync ==
    ASSUME Inv, AgreementInv, status.phase = "InSync", [Next]_vars
    PROVE  status'.phase = "InSync"
<1>1. ASSUME NEW j \in Job, pc[j] = "writing", j \in fresh, status' = local[j].new
      PROVE  status'.phase = "InSync"
  <2>1. CASE j \in SyncPod
    BY <1>1, <2>1 DEF AgreementInv, ReadsAgreement
  <2>2. CASE j \in ResolverPod
    <3>1. status = [local[j].new EXCEPT !.phase = "Conflicted"]
      BY <1>1, <2>2 DEF Inv, CopyInv
    <3>2. local[j].new \in Status
      BY DEF Inv, TypeOK, Local
    <3>3. status.phase = "Conflicted"
      BY <3>1, <3>2 DEF Status
    <3> QED
      BY <3>3
  <2> QED
    BY <2>1, <2>2 DEF Job
<1> QED
  BY <1>1, NextStatus

(***************************************************************************)
(* The safety half of AgreementIsNoticed.  Whatever happened before: from  *)
(* a moment when the two heads agree and no job of the sync controller is  *)
(* under way, and as long as the heads stay and can be listed, a           *)
(* GitRepoSync that is InSync stays InSync: neither a resolver that is     *)
(* still at work on an old conflict, nor another pod, nor a failed call    *)
(* takes it back.                                                          *)
(***************************************************************************)
THEOREM AgreementLasts ==
    Spec => []( /\ HeadsAgree
                /\ \A j \in SyncPod : pc[j] = "idle"
                /\ [][HeadsRest]_vars
                => [](status.phase = "InSync" => [](status.phase = "InSync")))
<1>1. HeadsAgree /\ (\A j \in SyncPod : pc[j] = "idle") => AgreementInv
  BY DEF AgreementInv, ReadsAgreement
<1>2. Inv /\ AgreementInv /\ [Next]_vars /\ [HeadsRest]_vars => AgreementInv'
  BY NextReads DEF Inv
<1>3. Inv /\ AgreementInv /\ status.phase = "InSync" /\ [Next]_vars
        => (status.phase = "InSync")'
  BY NextInSync
<1> QED
  BY <1>1, <1>2, <1>3, AlwaysInv, PTL DEF Spec
=============================================================================
