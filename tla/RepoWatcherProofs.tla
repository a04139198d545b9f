-------------------------- MODULE RepoWatcherProofs --------------------------
(***************************************************************************)
(* Proofs about RepoWatcher, for any pods, repositories, branches, names   *)
(* of GitBranches and commits.                                             *)
(***************************************************************************)
EXTENDS RepoWatcher, FiniteSetTheorems, WellFoundedInduction, TLAPS

-----------------------------------------------------------------------------
(* Lemmas about the operators the actions are built from.                  *)

(***************************************************************************)
(* A list of GitBranches that is not empty has a last one.  By descent: of *)
(* the sets without a last element take one of the smallest, and remove an *)
(* element of it.                                                          *)
(***************************************************************************)
LEMMA HasLast ==
    ASSUME NEW S \in SUBSET Cr, S # {}
    PROVE  \E k \in S : \A other \in S : other <= k
<1> DEFINE Without == {T \in SUBSET Cr : T # {} /\ ~ \E k \in T : \A other \in T : other <= k}
           Sizes == {n \in Nat : \E T \in Without : n = Cardinality(T)}
<1>0. Cr \subseteq Nat /\ \A T \in SUBSET Cr : IsFiniteSet(T) /\ Cardinality(T) \in Nat
  BY WatcherAssumption, FS_Subset, FS_CardinalityType
<1>1. SUFFICES ASSUME Sizes # {} PROVE FALSE
  BY <1>0
<1>2. PICK n \in Sizes : \A m \in Sizes : ~ (m < n)
  <2>1. PICK n \in Sizes : \A m \in Sizes : ~ (<<m, n>> \in OpToRel(<, Nat))
    BY <1>1, NatLessThanWellFounded, WFMin
  <2> QED
    BY <2>1 DEF OpToRel
<1>3. PICK T \in Without : n = Cardinality(T)
  OBVIOUS
<1>4. PICK k \in T : TRUE
  OBVIOUS
<1> DEFINE U == T \ {k}
<1>5. IsFiniteSet(T) /\ U \in SUBSET Cr /\ Cardinality(U) = Cardinality(T) - 1
  BY <1>0, <1>4, FS_RemoveElement
<1>6. U \notin Without
  <2>1. Cardinality(U) \in Nat /\ Cardinality(U) < n
    BY <1>0, <1>3, <1>5
  <2>2. U \in Without => Cardinality(U) \in Sizes
    BY <2>1
  <2> QED
    BY <1>2, <2>1, <2>2
<1>7. CASE U = {}
  BY <1>0, <1>4, <1>7
<1>8. CASE U # {}
  <2>1. PICK m \in U : \A other \in U : other <= m
    BY <1>5, <1>6, <1>8
  <2> QED
    BY <1>0, <1>4, <2>1
<1> QED
  BY <1>7, <1>8

(***************************************************************************)
(* existingByName holds a GitBranch of that repository and branch.         *)
(***************************************************************************)
LEMMA ExistingIsOfBranch ==
    ASSUME NEW list, NEW r, NEW b, OfBranch(list, r, b) # {}
    PROVE  ExistingByName(list, r, b) \in OfBranch(list, r, b)
<1>1. OfBranch(list, r, b) \in SUBSET Cr
  BY DEF OfBranch
<1> QED
  BY <1>1, HasLast DEF ExistingByName, LastName

LEMMA LastInHand ==
    ASSUME NEW j \in Job, NEW b \in Branch, InHand(j, b) # {}
    PROVE  LastName(InHand(j, b)) \in InHand(j, b) /\ InHand(j, b) \in SUBSET Cr
<1>1. InHand(j, b) \in SUBSET Cr
  BY WatcherAssumption DEF InHand, OfBranch, Job
<1> QED
  BY <1>1, HasLast DEF LastName

(***************************************************************************)
(* The local variables keep their types when one of them is assigned.      *)
(***************************************************************************)
LEMMA LocalType ==
    /\ NoLocal \in Local
    /\ \A loc \in Local, seen \in [Branch -> MaybeCommit] :
            [loc EXCEPT !.seen = seen] \in Local
    /\ \A loc \in Local, S \in SUBSET Branch :
            [loc EXCEPT !.todo = S, !.created = {}] \in Local
    /\ \A loc \in Local, b \in Branch : [loc EXCEPT !.created = {b}] \in Local
    /\ \A loc \in Local, S \in SUBSET Cr : [loc EXCEPT !.gone = S] \in Local
<1>1. NoLocal \in Local
  BY DEF NoLocal, Local, MaybeCommit, MaybeBranch
<1>2. \A loc \in Local, seen \in [Branch -> MaybeCommit] : [loc EXCEPT !.seen = seen] \in Local
  BY DEF Local
<1>3. \A loc \in Local, S \in SUBSET Branch : [loc EXCEPT !.todo = S, !.created = {}] \in Local
  BY DEF Local
<1>4. \A loc \in Local, b \in Branch : [loc EXCEPT !.created = {b}] \in Local
  BY DEF Local
<1>5. \A loc \in Local, S \in SUBSET Cr : [loc EXCEPT !.gone = S] \in Local
  BY DEF Local
<1> QED
  BY <1>1, <1>2, <1>3, <1>4, <1>5, Zenon

LEMMA ReturnType ==
    ASSUME TypeOK, NEW j \in Job, Return(j)
    PROVE  /\ pc' \in [Job -> PC]
           /\ local' \in [Job -> Local]
           /\ fresh' \subseteq Job \X Cr
           /\ freshRepo' \subseteq Job
BY LocalType DEF TypeOK, Return, Goto, PC

-----------------------------------------------------------------------------
(***************************************************************************)
(* The inductive invariant.  A current copy is equal to the object it was  *)
(* read from, or is the one the poll has just created; a snapshot holds    *)
(* commits its branches have had.  Together they are why writing a head    *)
(* from a snapshot is right: the GitBranch written is still the one of the *)
(* branch the head was read from, however its name has been used in the    *)
(* meantime.                                                               *)
(***************************************************************************)
IsNew(loc, r, k) == \E b \in loc.created : k = NameOf[<<r, b>>]

Agrees(loc, r, k, object) ==
    IF IsNew(loc, r, k)
    THEN \A b \in loc.created :
            k = NameOf[<<r, b>>] => object.repo = r /\ object.branch = b
    ELSE loc.copy[k] = object

CopiesAgree ==
    \A c \in fresh : /\ gitBranch[c[2]] # NoBranch
                     /\ Agrees(local[c[1]], c[1][2], c[2], gitBranch[c[2]])

SnapshotsArePast ==
    /\ \A r \in Repo, b \in Branch : remote[r][b] \in past[r][b] \cup {NoCommit}
    /\ \A j \in Job, b \in Branch : local[j].seen[b] \in past[j[2]][b] \cup {NoCommit}

Inv == TypeOK /\ CopiesAgree /\ SnapshotsArePast

-----------------------------------------------------------------------------
(* Type correctness.                                                       *)

LEMMA InitType == Init => TypeOK
<1> SUFFICES ASSUME Init PROVE TypeOK
  OBVIOUS
<1>1. past \in [Repo -> [Branch -> SUBSET Commit]]
  BY DEF Init, MaybeCommit
<1>2. gitBranch \in [Cr -> MaybeBranch] /\ pc \in [Job -> PC]
  BY DEF Init, PC, MaybeBranch
<1>3. local \in [Job -> Local]
  BY LocalType DEF Init
<1>4. changes \in 0 .. MaxChanges /\ faults \in 0 .. MaxFaults
  BY WatcherAssumption DEF Init
<1> QED
  BY <1>1, <1>2, <1>3, <1>4 DEF Init, TypeOK

LEMMA StepType ==
    ASSUME TypeOK, CopiesAgree, NEW j \in Job, Step(j)
    PROVE  TypeOK'
<1>0. /\ j[1] \in Pod /\ j[2] \in Repo
      /\ local \in [Job -> Local] /\ local[j] \in Local
      /\ remote[j[2]] \in [Branch -> MaybeCommit]
  BY DEF TypeOK, Job
<1>1. CASE Get(j)
  BY <1>1 DEF Get, TypeOK, Goto, PC, external, budget
<1>2. CASE LsRemote(j)
  <2>1. CASE Return(j)
    BY <1>2, <2>1, ReturnType DEF LsRemote, TypeOK, external, budget
  <2>2. CASE Goto(j, "listing") /\ local' = [local EXCEPT ![j].seen = remote[j[2]]]
             /\ UNCHANGED <<fresh, freshRepo>>
    <3>1. local' = [local EXCEPT ![j] = [local[j] EXCEPT !.seen = remote[j[2]]]]
      BY <2>2
    <3>2. local' \in [Job -> Local]
      BY <1>0, <3>1, LocalType
    <3> QED
      BY <1>2, <2>2, <3>2 DEF LsRemote, TypeOK, Goto, PC, external, budget
  <2> QED
    BY <1>2, <2>1, <2>2 DEF LsRemote
<1>3. CASE ListBranches(j)
  <2> DEFINE new == [seen |-> local[j].seen, copy |-> gitBranch,
                     todo |-> ToWrite(local[j].seen, gitBranch, j[2]),
                     gone |-> ToDelete(local[j].seen, gitBranch, j[2]), created |-> {}]
  <2>1. new \in Local
    BY <1>0 DEF TypeOK, Local, ToWrite, ToDelete
  <2>2. local' = [local EXCEPT ![j] = new]
    BY <1>3 DEF ListBranches
  <2>3. local' \in [Job -> Local]
    BY <1>0, <2>1, <2>2
  <2>4. fresh' \subseteq Job \X Cr
    BY <1>3 DEF ListBranches, TypeOK
  <2> QED
    BY <1>3, <2>3, <2>4 DEF ListBranches, TypeOK, Goto, PC, external, budget
<1>4. ASSUME NEW b \in Branch, Done(j, b)
      PROVE  local' \in [Job -> Local]
  <2>1. local' = [local EXCEPT ![j] = [local[j] EXCEPT !.todo = local[j].todo \ {b}, !.created = {}]]
    BY <1>4 DEF Done
  <2>2. local[j].todo \ {b} \in SUBSET Branch
    BY <1>0 DEF Local
  <2> QED
    BY <1>0, <2>1, <2>2, LocalType
<1>5. ASSUME NEW b \in Branch, CreateBranch(j, b)
      PROVE  TypeOK'
  <2> DEFINE k == NameOf[<<j[2], b>>]
             new == [repo |-> j[2], branch |-> b, head |-> NoCommit, owner |-> j[2]]
  <2>1. k \in Cr /\ new \in GitBranch
    BY <1>0, WatcherAssumption DEF GitBranch, MaybeCommit
  <2>2. CASE Done(j, b) /\ UNCHANGED <<gitBranch, fresh>>
    BY <1>4, <1>5, <2>2 DEF CreateBranch, TypeOK, external, budget
  <2>3. CASE /\ gitBranch' = [gitBranch EXCEPT ![k] = new]
             /\ fresh' = (fresh \ CopiesOf(k)) \cup {<<j, k>>}
             /\ local' = [local EXCEPT ![j].created = {b}]
    <3>1. local' = [local EXCEPT ![j] = [local[j] EXCEPT !.created = {b}]]
      BY <2>3
    <3>2. local' \in [Job -> Local]
      BY <1>0, <3>1, LocalType
    <3>3. gitBranch' \in [Cr -> MaybeBranch]
      BY <2>1, <2>3 DEF TypeOK, MaybeBranch
    <3>4. fresh' \subseteq Job \X Cr
      BY <2>1, <2>3 DEF TypeOK, CopiesOf
    <3> QED
      BY <1>5, <3>2, <3>3, <3>4 DEF CreateBranch, TypeOK, external, budget
  <2> QED
    BY <1>5, <2>2, <2>3 DEF CreateBranch
<1>6. ASSUME NEW b \in Branch, WriteHead(j, b)
      PROVE  TypeOK'
  <2> DEFINE k == LastName(InHand(j, b))
  <2>1. k \in Cr
    BY <1>6, LastInHand DEF WriteHead
  <2>2. CASE Return(j) /\ UNCHANGED gitBranch
    BY <1>6, <2>2, ReturnType DEF WriteHead, TypeOK, external, budget
  <2>3. CASE /\ Current(j, k)
             /\ gitBranch' = [gitBranch EXCEPT ![k].head = local[j].seen[b]]
             /\ fresh' = fresh \ CopiesOf(k)
             /\ Done(j, b)
             /\ UNCHANGED <<pc, freshRepo>>
    <3>1. local[j].seen[b] \in MaybeCommit
      BY <1>0 DEF Local
    <3>2. gitBranch[k] \in GitBranch
      BY <2>1, <2>3 DEF TypeOK, MaybeBranch, Current, CopiesAgree
    <3>3. [gitBranch[k] EXCEPT !.head = local[j].seen[b]] \in GitBranch
      BY <3>1, <3>2 DEF GitBranch
    <3>4. gitBranch' \in [Cr -> MaybeBranch]
      BY <2>1, <2>3, <3>3 DEF TypeOK, MaybeBranch
    <3> QED
      BY <1>4, <1>6, <2>3, <3>4 DEF WriteHead, TypeOK, external, budget
  <2> QED
    BY <1>6, <2>2, <2>3 DEF WriteHead
<1>7. ASSUME NEW k \in Cr, DeleteBranch(j, k)
      PROVE  TypeOK'
  <2>1. local' = [local EXCEPT ![j] = [local[j] EXCEPT !.gone = local[j].gone \ {k}]]
    BY <1>7 DEF DeleteBranch
  <2>2. local[j].gone \ {k} \in SUBSET Cr
    BY <1>0 DEF Local
  <2>3. local' \in [Job -> Local]
    BY <1>0, <2>1, <2>2, LocalType
  <2> QED
    BY <1>7, <2>3 DEF DeleteBranch, TypeOK, MaybeBranch, external, budget
<1>8. CASE Finish(j)
  BY <1>8, LocalType DEF Finish, TypeOK, Goto, PC, external, budget
<1> QED
  BY <1>1, <1>2, <1>3, <1>5, <1>6, <1>7, <1>8 DEF Step

LEMMA NextType ==
    ASSUME TypeOK, CopiesAgree, [Next]_vars
    PROVE  TypeOK'
<1>1. ASSUME NEW j \in Job, Step(j)
      PROVE  TypeOK'
  BY <1>1, StepType
<1>2. ASSUME NEW j \in Job, Fail(j)
      PROVE  TypeOK'
  BY <1>2, ReturnType, WatcherAssumption DEF Fail, TypeOK, external
<1>3. ASSUME NEW r \in Repo, Tick(r)
      PROVE  TypeOK'
  BY <1>3 DEF Tick, TypeOK, external, budget
<1>4. ASSUME NEW p \in Pod, Retire(p)
      PROVE  TypeOK'
  BY <1>4, LocalType DEF Retire, TypeOK, PC, external, budget
<1>5. ASSUME NEW r \in Repo, NEW b \in Branch, NEW c \in MaybeCommit, Push(r, b, c)
      PROVE  TypeOK'
  <2>1. remote' \in [Repo -> [Branch -> MaybeCommit]]
    BY <1>5 DEF Push, TypeOK
  <2>2. past' \in [Repo -> [Branch -> SUBSET Commit]]
    BY <1>5 DEF Push, TypeOK, MaybeCommit
  <2> QED
    BY <1>5, <2>1, <2>2, WatcherAssumption DEF Push, Change, TypeOK
<1>6. ASSUME NEW k \in Cr, NEW c \in MaybeCommit, UpdateBranches(k, c)
      PROVE  TypeOK'
  <2>1. gitBranch[k] \in GitBranch
    BY <1>6 DEF UpdateBranches, TypeOK, MaybeBranch
  <2>2. [gitBranch[k] EXCEPT !.head = c] \in GitBranch
    BY <2>1 DEF GitBranch
  <2>3. gitBranch' \in [Cr -> MaybeBranch]
    BY <1>6, <2>2 DEF UpdateBranches, TypeOK, MaybeBranch
  <2> QED
    BY <1>6, <2>3, WatcherAssumption DEF UpdateBranches, Change, TypeOK, external
<1>7. ASSUME NEW k \in Cr, NEW r \in Repo, NEW b \in Branch, CreateByHand(k, r, b)
      PROVE  TypeOK'
  <2>1. [repo |-> r, branch |-> b, head |-> NoCommit, owner |-> NoRepo] \in GitBranch
    BY DEF GitBranch, MaybeCommit
  <2>2. gitBranch' \in [Cr -> MaybeBranch]
    BY <1>7, <2>1 DEF CreateByHand, TypeOK, MaybeBranch
  <2> QED
    BY <1>7, <2>2, WatcherAssumption DEF CreateByHand, Change, TypeOK, external
<1>8. ASSUME NEW k \in Cr, DeleteByHand(k)
      PROVE  TypeOK'
  BY <1>8, WatcherAssumption DEF DeleteByHand, Change, TypeOK, MaybeBranch, external
<1>9. CASE UNCHANGED vars
  BY <1>9 DEF vars, external, budget, TypeOK
<1> QED
  BY <1>1, <1>2, <1>3, <1>4, <1>5, <1>6, <1>7, <1>8, <1>9 DEF Next, Environment

-----------------------------------------------------------------------------
(* What was seen has been.                                                 *)

LEMMA PastGrows ==
    ASSUME TypeOK, [Next]_vars, NEW r \in Repo, NEW b \in Branch
    PROVE  past[r][b] \subseteq past'[r][b]
<1>1. ASSUME NEW q \in Repo, NEW d \in Branch, NEW c \in MaybeCommit, Push(q, d, c)
      PROVE  past[r][b] \subseteq past'[r][b]
  BY <1>1 DEF Push, TypeOK
<1>2. ASSUME ~ \E q \in Repo, d \in Branch, c \in MaybeCommit : Push(q, d, c)
      PROVE  past' = past
  BY <1>2 DEF Next, Step, Get, LsRemote, ListBranches, CreateBranch, WriteHead, DeleteBranch,
     Finish, Fail, Tick, Retire, Environment, UpdateBranches, CreateByHand, DeleteByHand,
     external, vars
<1> QED
  BY <1>1, <1>2

(***************************************************************************)
(* A snapshot is what it was, or the remote as it is, or given up.         *)
(***************************************************************************)
LEMMA NextSeen ==
    ASSUME TypeOK, [Next]_vars, NEW i \in Job
    PROVE  \/ local'[i].seen = local[i].seen
           \/ local'[i].seen = remote[i[2]]
           \/ local'[i] = NoLocal
<1>0. local \in [Job -> Local] /\ local[i] \in Local
  BY DEF TypeOK
<1>1. ASSUME NEW j \in Job, Return(j)
      PROVE  local'[i] \in {local[i], NoLocal}
  BY <1>0, <1>1 DEF Return
<1>2. ASSUME NEW j \in Job, NEW b \in Branch, Done(j, b)
      PROVE  local'[i].seen = local[i].seen
  BY <1>0, <1>2 DEF Done, Local
<1>3. ASSUME NEW j \in Job, LsRemote(j)
      PROVE  \/ local'[i].seen \in {local[i].seen, remote[i[2]]}
             \/ local'[i] = NoLocal
  BY <1>0, <1>1, <1>3 DEF LsRemote, Local
<1>4. ASSUME NEW j \in Job, ListBranches(j)
      PROVE  local'[i].seen = local[i].seen
  BY <1>0, <1>4 DEF ListBranches
<1>5. ASSUME NEW j \in Job, NEW b \in Branch, CreateBranch(j, b)
      PROVE  local'[i].seen = local[i].seen
  <2>1. CASE Done(j, b)
    BY <1>2, <2>1
  <2>2. CASE ~Done(j, b)
    <3>1. local' = [local EXCEPT ![j] = [local[j] EXCEPT !.created = {b}]]
      BY <1>5, <2>2 DEF CreateBranch
    <3> QED
      BY <1>0, <3>1 DEF Local
  <2> QED
    BY <2>1, <2>2
<1>6. ASSUME NEW j \in Job, NEW b \in Branch, WriteHead(j, b)
      PROVE  local'[i].seen = local[i].seen \/ local'[i] = NoLocal
  BY <1>1, <1>2, <1>6 DEF WriteHead
<1>7. ASSUME NEW j \in Job, NEW k \in Cr, DeleteBranch(j, k)
      PROVE  local'[i].seen = local[i].seen
  BY <1>0, <1>7 DEF DeleteBranch, Local
<1>8. ASSUME NEW j \in Job, Finish(j)
      PROVE  local'[i] \in {local[i], NoLocal}
  BY <1>0, <1>8 DEF Finish
<1>9. ASSUME NEW j \in Job, Get(j)
      PROVE  local' = local
  BY <1>9 DEF Get
<1>10. ASSUME NEW j \in Job, Fail(j)
       PROVE  local'[i] \in {local[i], NoLocal}
  BY <1>1, <1>10 DEF Fail
<1>11. ASSUME NEW p \in Pod, Retire(p)
       PROVE  local'[i] \in {local[i], NoLocal}
  BY <1>0, <1>11 DEF Retire
<1>12. ASSUME \/ \E r \in Repo : Tick(r)
              \/ Environment
              \/ UNCHANGED vars
       PROVE  local' = local
  BY <1>12 DEF Tick, Environment, Push, UpdateBranches, CreateByHand, DeleteByHand, Change, vars
<1> QED
  BY <1>3, <1>4, <1>5, <1>6, <1>7, <1>8, <1>9, <1>10, <1>11, <1>12 DEF Next, Step

LEMMA NextPast ==
    ASSUME TypeOK, SnapshotsArePast, [Next]_vars
    PROVE  SnapshotsArePast'
<1>1. ASSUME NEW r \in Repo, NEW b \in Branch
      PROVE  remote'[r][b] \in past'[r][b] \cup {NoCommit}
  <2>1. ASSUME NEW q \in Repo, NEW d \in Branch, NEW c \in MaybeCommit, Push(q, d, c)
        PROVE  remote'[r][b] \in past'[r][b] \cup {NoCommit}
    BY <2>1 DEF Push, TypeOK, SnapshotsArePast
  <2>2. ASSUME ~ \E q \in Repo, d \in Branch, c \in MaybeCommit : Push(q, d, c)
        PROVE  remote' = remote /\ past' = past
    BY <2>2 DEF Next, Step, Get, LsRemote, ListBranches, CreateBranch, WriteHead, DeleteBranch,
       Finish, Fail, Tick, Retire, Environment, UpdateBranches, CreateByHand, DeleteByHand,
       external, vars
  <2> QED
    BY <2>1, <2>2 DEF SnapshotsArePast
<1>2. \A i \in Job : \/ local'[i].seen = local[i].seen
                     \/ local'[i].seen = remote[i[2]]
                     \/ local'[i] = NoLocal
  BY NextSeen
<1>3. ASSUME NEW i \in Job, NEW b \in Branch
      PROVE  local'[i].seen[b] \in past'[i[2]][b] \cup {NoCommit}
  <2>1. i[2] \in Repo
    BY DEF Job
  <2>2. past[i[2]][b] \subseteq past'[i[2]][b]
    BY <2>1, PastGrows
  <2>3. NoLocal.seen[b] = NoCommit
    BY DEF NoLocal
  <2> QED
    BY <1>2, <2>1, <2>2, <2>3 DEF SnapshotsArePast
<1> QED
  BY <1>1, <1>3 DEF SnapshotsArePast

-----------------------------------------------------------------------------
(* Copies.                                                                 *)

(***************************************************************************)
(* An object that is written loses the copies of it, except one that is    *)
(* equal to it; so copies that are still current agree with their object.  *)
(***************************************************************************)
LEMMA NextCopies ==
    ASSUME TypeOK, CopiesAgree, [Next]_vars
    PROVE  CopiesAgree'
<1> DEFINE Same(c) == /\ local'[c[1]].copy = local[c[1]].copy
                      /\ local'[c[1]].created = local[c[1]].created
<1>0. /\ local \in [Job -> Local] /\ fresh \subseteq Job \X Cr
      /\ gitBranch \in [Cr -> MaybeBranch]
  BY DEF TypeOK
<1>1. ASSUME UNCHANGED gitBranch, fresh' \subseteq fresh, \A c \in fresh' : Same(c)
      PROVE  CopiesAgree'
  BY <1>1 DEF CopiesAgree, Agrees, IsNew
<1>2. ASSUME NEW k \in Cr, \A n \in Cr \ {k} : gitBranch'[n] = gitBranch[n],
             fresh' = fresh \ CopiesOf(k), \A c \in fresh' : Same(c)
      PROVE  CopiesAgree'
  BY <1>0, <1>2 DEF CopiesAgree, CopiesOf, Agrees, IsNew
<1>3. ASSUME NEW j \in Job, Return(j)
      PROVE  fresh' \subseteq fresh /\ \A c \in fresh' : Same(c)
  BY <1>0, <1>3 DEF Return, HeldBy
<1>4. ASSUME NEW j \in Job, NEW b \in Branch, Done(j, b)
      PROVE  /\ \A i \in Job \ {j} : local'[i] = local[i]
             /\ local'[j].copy = local[j].copy
             /\ local'[j].created = {}
  BY <1>0, <1>4 DEF Done, Local
<1>5. ASSUME NEW j \in Job, Step(j)
      PROVE  CopiesAgree'
  <2>1. CASE Get(j)
    BY <1>1, <2>1 DEF Get
  <2>2. CASE LsRemote(j)
    <3>1. CASE Return(j)
      BY <1>1, <1>3, <2>2, <3>1 DEF LsRemote
    <3>2. CASE ~Return(j)
      BY <1>0, <1>1, <2>2, <3>2 DEF LsRemote, Local
    <3> QED
      BY <3>1, <3>2
  <2>3. CASE ListBranches(j)
    <3>1. ASSUME NEW c \in fresh'
          PROVE  /\ gitBranch[c[2]] # NoBranch
                 /\ Agrees(local'[c[1]], c[1][2], c[2], gitBranch[c[2]])
      <4>1. CASE c[1] = j
        BY <1>0, <2>3, <4>1 DEF ListBranches, CopiesAgree, Agrees, IsNew
      <4>2. CASE c[1] # j
        BY <1>0, <2>3, <4>2 DEF ListBranches, CopiesAgree
      <4> QED
        BY <4>1, <4>2
    <3> QED
      BY <2>3, <3>1 DEF ListBranches, CopiesAgree
  <2>4. ASSUME NEW b \in Branch, CreateBranch(j, b)
        PROVE  CopiesAgree'
    <3> DEFINE k == NameOf[<<j[2], b>>]
               new == [repo |-> j[2], branch |-> b, head |-> NoCommit, owner |-> j[2]]
    <3>1. /\ k \in Cr /\ new # NoBranch /\ new.repo = j[2] /\ new.branch = b
          /\ local[j].created = {}
      BY <2>4, WatcherAssumption, NoBranchAssumption DEF Job, GitBranch, MaybeCommit, CreateBranch
    <3>2. CASE Done(j, b) /\ UNCHANGED <<gitBranch, fresh>>
      <4>1. \A c \in fresh : Same(c)
        BY <1>0, <1>4, <3>1, <3>2
      <4> QED
        BY <1>1, <3>2, <4>1
    <3>3. CASE /\ gitBranch' = [gitBranch EXCEPT ![k] = new]
               /\ fresh' = (fresh \ CopiesOf(k)) \cup {<<j, k>>}
               /\ local' = [local EXCEPT ![j].created = {b}]
      <4>1. /\ gitBranch'[k] = new /\ local'[j].created = {b}
            /\ local'[j].copy = local[j].copy
            /\ \A i \in Job \ {j} : local'[i] = local[i]
        BY <1>0, <3>1, <3>3 DEF Local
      <4>2. ASSUME NEW c \in fresh'
            PROVE  /\ gitBranch'[c[2]] # NoBranch
                   /\ Agrees(local'[c[1]], c[1][2], c[2], gitBranch'[c[2]])
        <5>1. CASE c = <<j, k>>
          <6>1. c[1] = j /\ c[2] = k
            BY <5>1
          <6> HIDE DEF new, k
          <6> QED
            BY <3>1, <4>1, <6>1 DEF Agrees, IsNew, k
        <5>2. CASE c # <<j, k>>
          <6>1. c \in fresh /\ c[2] # k /\ c \in Job \X Cr
            BY <1>0, <3>3, <5>2 DEF CopiesOf
          <6>2. gitBranch'[c[2]] = gitBranch[c[2]]
            BY <1>0, <3>3, <6>1
          <6>3. /\ gitBranch[c[2]] # NoBranch
                /\ Agrees(local[c[1]], c[1][2], c[2], gitBranch[c[2]])
            BY <6>1 DEF CopiesAgree
          <6>4. CASE c[1] # j
            BY <4>1, <6>1, <6>2, <6>3, <6>4
          <6>5. CASE c[1] = j
            BY <3>1, <4>1, <6>1, <6>2, <6>3, <6>5 DEF Agrees, IsNew
          <6> QED
            BY <6>4, <6>5
        <5> QED
          BY <5>1, <5>2
      <4> QED
        BY <4>2 DEF CopiesAgree
    <3> QED
      BY <2>4, <3>2, <3>3 DEF CreateBranch
  <2>5. ASSUME NEW b \in Branch, WriteHead(j, b)
        PROVE  CopiesAgree'
    <3> DEFINE k == LastName(InHand(j, b))
    <3>1. k \in Cr /\ k \in InHand(j, b) /\ local[j].created \subseteq {b}
      BY <2>5, LastInHand DEF WriteHead
    <3>2. CASE Return(j) /\ UNCHANGED gitBranch
      BY <1>1, <1>3, <3>2
    <3>3. CASE /\ gitBranch' = [gitBranch EXCEPT ![k].head = local[j].seen[b]]
               /\ fresh' = fresh \ CopiesOf(k)
               /\ Done(j, b)
      <4>1. ASSUME NEW c \in fresh'
            PROVE  /\ gitBranch'[c[2]] # NoBranch
                   /\ Agrees(local'[c[1]], c[1][2], c[2], gitBranch'[c[2]])
        <5>1. c \in fresh /\ c[2] # k /\ c \in Job \X Cr
          BY <1>0, <3>3 DEF CopiesOf
        <5>2. gitBranch'[c[2]] = gitBranch[c[2]]
          BY <1>0, <3>3, <5>1
        <5>3. /\ gitBranch[c[2]] # NoBranch
              /\ Agrees(local[c[1]], c[1][2], c[2], gitBranch[c[2]])
          BY <5>1 DEF CopiesAgree
        <5>4. CASE c[1] # j
          BY <1>4, <3>3, <5>1, <5>2, <5>3, <5>4
        <5>5. CASE c[1] = j
          <6>1. ~IsNew(local[j], j[2], c[2])
            BY <3>1, <5>1 DEF IsNew, InHand
          <6> QED
            BY <1>4, <3>3, <5>2, <5>3, <5>5, <6>1 DEF Agrees, IsNew
        <5> QED
          BY <5>4, <5>5
      <4> QED
        BY <4>1 DEF CopiesAgree
    <3> QED
      BY <2>5, <3>2, <3>3 DEF WriteHead
  <2>6. ASSUME NEW k \in Cr, DeleteBranch(j, k)
        PROVE  CopiesAgree'
    <3>1. \A c \in fresh' : Same(c)
      BY <1>0, <2>6 DEF DeleteBranch, Local
    <3> QED
      BY <1>0, <1>2, <2>6, <3>1 DEF DeleteBranch
  <2>7. CASE Finish(j)
    BY <1>0, <1>1, <2>7 DEF Finish, HeldBy
  <2> QED
    BY <1>5, <2>1, <2>2, <2>3, <2>4, <2>5, <2>6, <2>7 DEF Step
<1>6. ASSUME NEW j \in Job, Fail(j)
      PROVE  CopiesAgree'
  BY <1>1, <1>3, <1>6 DEF Fail
<1>7. ASSUME NEW p \in Pod, Retire(p)
      PROVE  CopiesAgree'
  BY <1>0, <1>1, <1>7 DEF Retire
<1>8. ASSUME NEW k \in Cr, NEW c \in MaybeCommit, UpdateBranches(k, c)
      PROVE  CopiesAgree'
  BY <1>0, <1>2, <1>8 DEF UpdateBranches, Change
<1>9. ASSUME NEW k \in Cr, NEW r \in Repo, NEW b \in Branch, CreateByHand(k, r, b)
      PROVE  CopiesAgree'
  <2>1. \A c \in fresh : c[2] # k /\ c \in Job \X Cr
    BY <1>0, <1>9 DEF CreateByHand, CopiesAgree
  <2> QED
    BY <1>0, <1>9, <2>1 DEF CreateByHand, Change, CopiesAgree
<1>10. ASSUME NEW k \in Cr, DeleteByHand(k)
       PROVE  CopiesAgree'
  BY <1>0, <1>2, <1>10 DEF DeleteByHand, Change
<1>11. CASE \/ \E r \in Repo : Tick(r)
            \/ \E r \in Repo, b \in Branch, c \in MaybeCommit : Push(r, b, c)
            \/ UNCHANGED vars
  BY <1>1, <1>11 DEF Tick, Push, Change, vars
<1> QED
  BY <1>5, <1>6, <1>7, <1>8, <1>9, <1>10, <1>11 DEF Next, Environment

(***************************************************************************)
(* What a poll writes is the GitBranch of the branch it writes it for.     *)
(***************************************************************************)
LEMMA WrittenIsOfBranch ==
    ASSUME CopiesAgree, NEW j \in Job, NEW b \in Branch, WriteHead(j, b),
           Current(j, LastName(InHand(j, b)))
    PROVE  LET k == LastName(InHand(j, b))
           IN /\ k \in Cr /\ gitBranch[k] # NoBranch
              /\ gitBranch[k].repo = j[2] /\ gitBranch[k].branch = b
<1> DEFINE k == LastName(InHand(j, b))
<1>1. k \in Cr /\ k \in InHand(j, b) /\ local[j].created \subseteq {b}
  BY LastInHand DEF WriteHead
<1>2. gitBranch[k] # NoBranch /\ Agrees(local[j], j[2], k, gitBranch[k])
  <2>1. <<j, k>> \in fresh /\ <<j, k>>[1] = j /\ <<j, k>>[2] = k
    BY DEF Current
  <2> HIDE DEF k
  <2> QED
    BY <2>1 DEF CopiesAgree
<1>3. gitBranch[k].repo = j[2] /\ gitBranch[k].branch = b
  <2> HIDE DEF k
  <2>1. CASE b \in local[j].created
    BY <1>1, <1>2, <2>1 DEF InHand, Agrees, IsNew
  <2>2. CASE b \notin local[j].created
    BY <1>1, <1>2, <2>2 DEF InHand, OfBranch, Agrees, IsNew
  <2> QED
    BY <2>1, <2>2
<1> QED
  BY <1>1, <1>2, <1>3

-----------------------------------------------------------------------------
(* Heads.                                                                  *)

(***************************************************************************)
(* A poll that writes the GitBranch of a branch writes a head the branch   *)
(* has had; other steps of a poll leave no head, or leave GitBranches      *)
(* alone.                                                                  *)
(***************************************************************************)
LEMMA NextHeads ==
    ASSUME Inv, [Next]_vars
    PROVE  HeadsWrittenSeen
<1>0. /\ TypeOK /\ CopiesAgree /\ SnapshotsArePast
      /\ local \in [Job -> Local] /\ gitBranch \in [Cr -> MaybeBranch]
      /\ NoBranch \notin GitBranch
  BY NoBranchAssumption DEF Inv, TypeOK
<1>1. ASSUME NEW j \in Job, NEW b \in Branch, WriteHead(j, b)
      PROVE  HeadsWrittenSeen
  <2> DEFINE k == LastName(InHand(j, b))
  <2>1. CASE UNCHANGED gitBranch
    BY <2>1 DEF HeadsWrittenSeen
  <2>2. CASE Current(j, k) /\ gitBranch' = [gitBranch EXCEPT ![k].head = local[j].seen[b]]
    <3>1. /\ k \in Cr /\ gitBranch[k] \in GitBranch
          /\ gitBranch[k].repo = j[2] /\ gitBranch[k].branch = b
      BY <1>0, <1>1, <2>2, WrittenIsOfBranch DEF MaybeBranch
    <3> HIDE DEF k
    <3>2. /\ gitBranch'[k].head = local[j].seen[b]
          /\ gitBranch'[k].repo = j[2] /\ gitBranch'[k].branch = b
          /\ \A n \in Cr \ {k} : gitBranch'[n] = gitBranch[n]
      BY <1>0, <2>2, <3>1 DEF GitBranch
    <3>3. local[j].seen[b] \in past[j[2]][b] \cup {NoCommit}
      BY <1>0 DEF SnapshotsArePast
    <3> QED
      BY <3>2, <3>3 DEF HeadsWrittenSeen
  <2> QED
    BY <1>1, <2>1, <2>2 DEF WriteHead
<1>2. ASSUME NEW j \in Job, NEW b \in Branch, CreateBranch(j, b)
      PROVE  HeadsWrittenSeen
  <2> DEFINE k == NameOf[<<j[2], b>>]
             new == [repo |-> j[2], branch |-> b, head |-> NoCommit, owner |-> j[2]]
  <2>1. CASE UNCHANGED gitBranch
    BY <2>1 DEF HeadsWrittenSeen
  <2>2. CASE gitBranch' = [gitBranch EXCEPT ![k] = new]
    <3>1. new.head = NoCommit
      OBVIOUS
    <3>2. k \in Cr
      BY WatcherAssumption DEF Job
    <3> HIDE DEF new, k
    <3>3. gitBranch'[k] = new /\ \A n \in Cr \ {k} : gitBranch'[n] = gitBranch[n]
      BY <1>0, <2>2, <3>2
    <3> QED
      BY <3>1, <3>3 DEF HeadsWrittenSeen
  <2> QED
    BY <1>2, <2>1, <2>2 DEF CreateBranch
<1>3. ASSUME NEW j \in Job, NEW k \in Cr, DeleteBranch(j, k)
      PROVE  HeadsWrittenSeen
  BY <1>0, <1>3 DEF DeleteBranch, HeadsWrittenSeen
<1>4. CASE UNCHANGED gitBranch \/ UNCHANGED local
  BY <1>4 DEF HeadsWrittenSeen
<1>5. ASSUME NEW j \in Job, Step(j)
      PROVE  HeadsWrittenSeen
  BY <1>1, <1>2, <1>3, <1>4, <1>5 DEF Step, Get, LsRemote, ListBranches, Finish
<1>6. CASE Environment
  BY <1>4, <1>6 DEF Environment, Push, UpdateBranches, CreateByHand, DeleteByHand, Change
<1> QED
  BY <1>4, <1>5, <1>6 DEF Next, Fail, Tick, Retire, vars

-----------------------------------------------------------------------------
(* The theorems.                                                           *)

LEMMA InitInv == Init => Inv
<1> SUFFICES ASSUME Init PROVE Inv
  OBVIOUS
<1>1. TypeOK
  BY InitType
<1>2. CopiesAgree
  BY DEF Init, CopiesAgree
<1>3. \A r \in Repo, b \in Branch : remote[r][b] \in past[r][b] \cup {NoCommit}
  BY DEF Init
<1>4. \A j \in Job, b \in Branch : local[j].seen[b] = NoCommit
  BY DEF Init, NoLocal
<1> QED
  BY <1>1, <1>2, <1>3, <1>4 DEF Inv, SnapshotsArePast

LEMMA NextInv == Inv /\ [Next]_vars => Inv'
<1> SUFFICES ASSUME Inv, [Next]_vars PROVE Inv'
  OBVIOUS
<1>1. TypeOK'
  BY NextType DEF Inv
<1>2. SnapshotsArePast'
  BY NextPast DEF Inv
<1>3. CopiesAgree'
  BY NextCopies DEF Inv
<1> QED
  BY <1>1, <1>2, <1>3 DEF Inv

LEMMA AlwaysInv == Spec => []Inv
BY InitInv, NextInv, PTL DEF Spec

(***************************************************************************)
(* The variables keep their types: polls, users and the push controller    *)
(* leave well-formed GitBranches, and the bounds on failures and changes   *)
(* are kept.                                                               *)
(***************************************************************************)
THEOREM WatcherTypes == Spec => []TypeOK
<1>1. Inv => TypeOK
  BY DEF Inv
<1> QED
  BY <1>1, AlwaysInv, PTL

(***************************************************************************)
(* However polls of several pods, pushes, deletions and colliding names    *)
(* interleave, and whatever heads others write, ReconcileKind writes into  *)
(* a GitBranch only a head that the branch of this object has had.         *)
(***************************************************************************)
THEOREM HeadsSeen == Spec => HeadsWereSeen
BY AlwaysInv, NextHeads, PTL DEF Spec, HeadsWereSeen

-----------------------------------------------------------------------------
(* Owners.                                                                 *)

(***************************************************************************)
(* The GitBranches of the watcher are in the repository that owns them,    *)
(* and are named after their branch.                                       *)
(***************************************************************************)
OwnersNamed ==
    \A k \in Cr : gitBranch[k] # NoBranch /\ gitBranch[k].owner # NoRepo =>
        /\ gitBranch[k].owner = gitBranch[k].repo
        /\ k = NameOf[<<gitBranch[k].repo, gitBranch[k].branch>>]

LEMMA NextOwners ==
    ASSUME Inv, OwnersNamed, [Next]_vars
    PROVE  OwnersNamed'
<1>0. /\ TypeOK /\ CopiesAgree
      /\ local \in [Job -> Local] /\ gitBranch \in [Cr -> MaybeBranch]
      /\ NoBranch \notin GitBranch
  BY NoBranchAssumption DEF Inv, TypeOK
<1>1. ASSUME UNCHANGED gitBranch
      PROVE  OwnersNamed'
  BY <1>1 DEF OwnersNamed
<1>2. ASSUME NEW k \in Cr, \A n \in Cr \ {k} : gitBranch'[n] = gitBranch[n],
             gitBranch'[k] = NoBranch \/ gitBranch'[k].owner = NoRepo
      PROVE  OwnersNamed'
  BY <1>2 DEF OwnersNamed
<1>3. ASSUME NEW k \in Cr, NEW c, gitBranch[k] # NoBranch,
             gitBranch' = [gitBranch EXCEPT ![k].head = c]
      PROVE  OwnersNamed'
  <2>1. gitBranch[k] \in GitBranch
    BY <1>0, <1>3 DEF MaybeBranch
  <2>2. /\ gitBranch'[k].owner = gitBranch[k].owner
        /\ gitBranch'[k].repo = gitBranch[k].repo
        /\ gitBranch'[k].branch = gitBranch[k].branch
        /\ \A n \in Cr \ {k} : gitBranch'[n] = gitBranch[n]
    BY <1>0, <1>3, <2>1 DEF GitBranch
  <2> QED
    BY <1>3, <2>2 DEF OwnersNamed
<1>4. ASSUME NEW j \in Job, NEW b \in Branch, CreateBranch(j, b)
      PROVE  OwnersNamed'
  <2> DEFINE k == NameOf[<<j[2], b>>]
  <2>1. k \in Cr
    BY WatcherAssumption DEF Job
  <2>2. CASE UNCHANGED gitBranch
    BY <1>1, <2>2
  <2>3. CASE gitBranch' = [gitBranch EXCEPT ![k] =
                [repo |-> j[2], branch |-> b, head |-> NoCommit, owner |-> j[2]]]
    <3>1. /\ gitBranch'[k].owner = j[2] /\ gitBranch'[k].repo = j[2] /\ gitBranch'[k].branch = b
          /\ \A n \in Cr \ {k} : gitBranch'[n] = gitBranch[n]
      BY <1>0, <2>1, <2>3
    <3> QED
      BY <2>1, <3>1 DEF OwnersNamed
  <2> QED
    BY <1>4, <2>2, <2>3 DEF CreateBranch
<1>5. ASSUME NEW j \in Job, NEW b \in Branch, WriteHead(j, b)
      PROVE  OwnersNamed'
  <2> DEFINE k == LastName(InHand(j, b))
  <2>1. k \in Cr
    BY <1>5, LastInHand DEF WriteHead
  <2>2. CASE Current(j, k)
    <3>1. gitBranch[k] # NoBranch
      BY <1>0, <1>5, <2>2, WrittenIsOfBranch
    <3> QED
      BY <1>1, <1>3, <1>5, <2>1, <3>1 DEF WriteHead
  <2>3. CASE ~Current(j, k)
    BY <1>1, <1>5, <2>3 DEF WriteHead
  <2> QED
    BY <2>2, <2>3
<1>6. ASSUME NEW j \in Job, Step(j)
      PROVE  OwnersNamed'
  <2>1. CASE Get(j) \/ LsRemote(j) \/ ListBranches(j) \/ Finish(j)
    BY <1>1, <2>1 DEF Get, LsRemote, ListBranches, Finish
  <2>2. ASSUME NEW k \in Cr, DeleteBranch(j, k)
        PROVE  OwnersNamed'
    BY <1>0, <1>2, <2>2 DEF DeleteBranch
  <2> QED
    BY <1>4, <1>5, <1>6, <2>1, <2>2 DEF Step
<1>7. ASSUME NEW k \in Cr, NEW c \in MaybeCommit, UpdateBranches(k, c)
      PROVE  OwnersNamed'
  BY <1>3, <1>7 DEF UpdateBranches
<1>8. ASSUME NEW k \in Cr, NEW r \in Repo, NEW b \in Branch, CreateByHand(k, r, b)
      PROVE  OwnersNamed'
  BY <1>0, <1>2, <1>8 DEF CreateByHand
<1>9. ASSUME NEW k \in Cr, DeleteByHand(k)
      PROVE  OwnersNamed'
  BY <1>0, <1>2, <1>9 DEF DeleteByHand
<1>10. CASE \/ \E j \in Job : Fail(j)
            \/ \E r \in Repo : Tick(r)
            \/ \E p \in Pod : Retire(p)
            \/ \E r \in Repo, b \in Branch, c \in MaybeCommit : Push(r, b, c)
            \/ UNCHANGED vars
  BY <1>1, <1>10 DEF Fail, Tick, Retire, Push, vars
<1> QED
  BY <1>6, <1>7, <1>8, <1>9, <1>10 DEF Next, Environment

LEMMA AlwaysOwners == Spec => []OwnersNamed
<1>1. Init => OwnersNamed
  BY DEF Init, OwnersNamed
<1>2. Inv /\ OwnersNamed /\ [Next]_vars => OwnersNamed'
  BY NextOwners
<1> QED
  BY <1>1, <1>2, AlwaysInv, PTL DEF Spec

-----------------------------------------------------------------------------
(***************************************************************************)
(* Polls in quiet times.  From a moment when one pod runs and no poll is   *)
(* under way, while nobody but the watcher changes anything (its own calls *)
(* may fail), what a poll has seen is the remote as it is, and what it has *)
(* listed is stored, but for its own writes.                               *)
(***************************************************************************)
NamesDiffer == \A n, m \in Repo \X Branch : NameOf[n] = NameOf[m] => n = m

OnePod == \E p \in Pod : pods = {p}

CalmStart == OnePod /\ \A j \in Job : pc[j] = "idle"

Calm == ~Environment

MirroredRepo(r) == \A b \in Branch : Mirrors(r, b)

(* The last GitBranch of a branch is the watcher's. *)
LastIsOwn(r, b) ==
    LET mine == OfBranch(gitBranch, r, b)
    IN mine # {} /\ gitBranch[LastName(mine)].owner = r

(* Where a poll has nothing left to do for a branch, it is mirrored. *)
Left(j, b) ==
    /\ remote[j[2]][b] # NoCommit =>
        IF b \in local[j].todo THEN InHand(j, b) = OfBranch(gitBranch, j[2], b)
                               ELSE Mirrors(j[2], b)
    /\ remote[j[2]][b] = NoCommit =>
        /\ b \notin local[j].todo
        /\ LastIsOwn(j[2], b) => LastName(OfBranch(gitBranch, j[2], b)) \in local[j].gone

(* What is to be deleted is the watcher's, and its branch is gone. *)
IsGone(r, k) ==
    /\ gitBranch[k] # NoBranch
    /\ gitBranch[k].repo = r
    /\ gitBranch[k].owner = r
    /\ remote[r][gitBranch[k].branch] = NoCommit

PollInv(j) ==
    /\ pc[j] # "idle" => j[1] \in pods
    /\ pc[j] \in {"listing", "writing"} => local[j].seen = remote[j[2]]
    /\ pc[j] = "writing" => /\ \A k \in local[j].gone : IsGone(j[2], k)
                            /\ \A b \in Branch : Left(j, b)

CalmInv == OnePod /\ \A j \in Job : PollInv(j)

(* A repository whose poll has ended. *)
PolledInv(r) ==
    r \notin due => /\ \A j \in Job : j[2] = r => pc[j] = "idle"
                    /\ MirroredRepo(r)

-----------------------------------------------------------------------------
(* Branches a step has nothing to do with.                                 *)

Framed(r, b) ==
    /\ OfBranch(gitBranch, r, b)' = OfBranch(gitBranch, r, b)
    /\ \A k \in OfBranch(gitBranch, r, b) : gitBranch'[k] = gitBranch[k]
    /\ gitBranch[NameOf[<<r, b>>]] # NoBranch => gitBranch'[NameOf[<<r, b>>]] # NoBranch

LEMMA LastOfBranch ==
    ASSUME NEW list, NEW r, NEW b, OfBranch(list, r, b) # {}
    PROVE  LastName(OfBranch(list, r, b)) \in OfBranch(list, r, b)
BY ExistingIsOfBranch DEF ExistingByName

LEMMA FramedMirrors ==
    ASSUME NEW r \in Repo, NEW b \in Branch, UNCHANGED remote, Framed(r, b)
    PROVE  /\ Mirrors(r, b) => Mirrors(r, b)'
           /\ LastIsOwn(r, b)' => LastIsOwn(r, b)
<1> DEFINE mine == OfBranch(gitBranch, r, b)
<1>1. mine' = mine
  BY DEF Framed
<1>2. mine # {} => gitBranch'[LastName(mine)] = gitBranch[LastName(mine)]
  BY LastOfBranch DEF Framed
<1>3. gitBranch[NameOf[<<r, b>>]] # NoBranch => gitBranch'[NameOf[<<r, b>>]] # NoBranch
  BY DEF Framed
<1> HIDE DEF mine
<1>4. LastName(mine)' = LastName(mine)
  BY <1>1 DEF LastName
<1>5. LastIsOwn(r, b)' => LastIsOwn(r, b)
  BY <1>1, <1>2, <1>4 DEF LastIsOwn, mine
<1>6. Mirrors(r, b) => Mirrors(r, b)'
  BY <1>1, <1>2, <1>3, <1>4 DEF Mirrors, mine
<1> QED
  BY <1>5, <1>6

LEMMA FramedLeft ==
    ASSUME NEW j \in Job, NEW b \in Branch, UNCHANGED remote, Framed(j[2], b), Left(j, b),
           b \in local[j].todo => InHand(j, b)' = InHand(j, b),
           b \in local'[j].todo <=> b \in local[j].todo,
           \A k \in OfBranch(gitBranch, j[2], b) :
               k \in local[j].gone => k \in local'[j].gone
    PROVE  Left(j, b)'
<1>1. j[2] \in Repo
  BY DEF Job
<1>2. /\ Mirrors(j[2], b) => Mirrors(j[2], b)'
      /\ LastIsOwn(j[2], b)' => LastIsOwn(j[2], b)
  BY <1>1, FramedMirrors
<1> DEFINE mine == OfBranch(gitBranch, j[2], b)
<1>3. mine' = mine
  BY DEF Framed
<1>4. LastIsOwn(j[2], b) => LastName(mine) \in mine
  BY LastOfBranch DEF LastIsOwn
<1>5. LastIsOwn(j[2], b) /\ remote[j[2]][b] = NoCommit => LastName(mine) \in local[j].gone
  BY DEF Left
<1>6. LastName(mine)' = LastName(mine)
  BY <1>3 DEF LastName
<1>7. remote[j[2]][b] = NoCommit => b \notin local[j].todo
  BY DEF Left
<1>8. remote[j[2]][b] # NoCommit =>
        /\ b \in local[j].todo => InHand(j, b) = mine
        /\ b \notin local[j].todo => Mirrors(j[2], b)
  BY DEF Left
<1> HIDE DEF mine
<1>9. remote'[j[2]][b] # NoCommit =>
        /\ b \in local'[j].todo => InHand(j, b)' = mine'
        /\ b \notin local'[j].todo => Mirrors(j[2], b)'
  BY <1>2, <1>3, <1>8
<1>10. remote'[j[2]][b] = NoCommit =>
        /\ b \notin local'[j].todo
        /\ LastIsOwn(j[2], b)' => LastName(mine)' \in local'[j].gone
  BY <1>2, <1>4, <1>5, <1>6, <1>7 DEF mine
<1> QED
  BY <1>9, <1>10 DEF Left, mine

LEMMA FramedGone ==
    ASSUME TypeOK, NEW r, NEW k \in Cr, IsGone(r, k), UNCHANGED remote,
           \A b \in Branch : remote[r][b] = NoCommit => Framed(r, b)
    PROVE  IsGone(r, k)'
<1>1. gitBranch[k].branch \in Branch
  BY DEF IsGone, TypeOK, MaybeBranch, GitBranch
<1>2. k \in OfBranch(gitBranch, r, gitBranch[k].branch)
  BY DEF IsGone, OfBranch
<1>3. gitBranch'[k] = gitBranch[k]
  BY <1>1, <1>2 DEF Framed, IsGone
<1> QED
  BY <1>3 DEF IsGone

(***************************************************************************)
(* A poll of another repository has nothing to do with this step; and of   *)
(* one repository there are no two.                                        *)
(***************************************************************************)
LEMMA OtherPolls ==
    ASSUME TypeOK, CalmInv, NEW j \in Job, pc[j] # "idle", NEW i \in Job, i # j,
           UNCHANGED <<remote, pods>>, pc'[i] = pc[i], local'[i] = local[i],
           i[2] # j[2] => \A b \in Branch : Framed(i[2], b)
    PROVE  PollInv(i)'
<1>1. CASE pc[i] = "idle"
  BY <1>1 DEF PollInv
<1>2. CASE pc[i] # "idle"
  <2>1. PollInv(i) /\ PollInv(j) /\ OnePod
    BY DEF CalmInv
  <2>2. i[1] = j[1]
    BY <1>2, <2>1 DEF PollInv, OnePod
  <2>3. \A b \in Branch : Framed(i[2], b)
    BY <2>2 DEF Job
  <2>4. \A b \in Branch : pc[i] = "writing" => Left(i, b)'
    <3>1. \A b \in Branch : InHand(i, b)' = InHand(i, b)
      BY DEF InHand, OfBranch
    <3> QED
      BY <2>1, <2>3, <3>1, FramedLeft DEF PollInv
  <2>5. local[i].gone \subseteq Cr
    BY DEF TypeOK, Local
  <2>6. \A k \in local[i].gone : pc[i] = "writing" => IsGone(i[2], k)'
    BY <2>1, <2>3, <2>5, FramedGone DEF PollInv
  <2> QED
    BY <2>1, <2>4, <2>6 DEF PollInv
<1> QED
  BY <1>1, <1>2

-----------------------------------------------------------------------------
(* What the writes of a poll do to branches.                               *)

(* Creating a GitBranch for b. *)
LEMMA CreateEffect ==
    ASSUME Inv, NEW j \in Job, NEW b \in Branch, CreateBranch(j, b),
           NEW r \in Repo, NEW c \in Branch
    PROVE  /\ <<r, c>> # <<j[2], b>> => Framed(r, c)
           /\ \/ UNCHANGED gitBranch
              \/ LET k == NameOf[<<j[2], b>>] IN
                 /\ gitBranch[k] = NoBranch
                 /\ OfBranch(gitBranch, j[2], b)' = OfBranch(gitBranch, j[2], b) \cup {k}
<1>0. gitBranch \in [Cr -> MaybeBranch] /\ NoBranch \notin GitBranch
  BY NoBranchAssumption DEF Inv, TypeOK
<1> DEFINE k == NameOf[<<j[2], b>>]
           new == [repo |-> j[2], branch |-> b, head |-> NoCommit, owner |-> j[2]]
<1>1. j[2] \in Repo /\ k \in Cr
  BY WatcherAssumption DEF Job
<1>2. CASE UNCHANGED gitBranch
  BY <1>2 DEF Framed, OfBranch
<1>3. CASE gitBranch[k] = NoBranch /\ gitBranch' = [gitBranch EXCEPT ![k] = new]
  <2>1. new # NoBranch
    BY <1>0, <1>1 DEF GitBranch, MaybeCommit
  <2>2. gitBranch'[k] = new /\ \A n \in Cr \ {k} : gitBranch'[n] = gitBranch[n]
    BY <1>0, <1>1, <1>3
  <2>3. NameOf[<<r, c>>] \in Cr
    BY WatcherAssumption
  <2>4. new.repo = j[2] /\ new.branch = b
    OBVIOUS
  <2> HIDE DEF new, k
  <2>5. OfBranch(gitBranch, j[2], b)' = OfBranch(gitBranch, j[2], b) \cup {k}
    BY <1>1, <2>1, <2>2, <2>4 DEF OfBranch
  <2>6. ASSUME <<r, c>> # <<j[2], b>>
        PROVE  Framed(r, c)
    <3>1. OfBranch(gitBranch, r, c)' = OfBranch(gitBranch, r, c)
      BY <1>1, <1>3, <2>1, <2>2, <2>4, <2>6 DEF OfBranch
    <3>2. \A n \in OfBranch(gitBranch, r, c) : gitBranch'[n] = gitBranch[n]
      BY <1>3, <2>2 DEF OfBranch
    <3>3. gitBranch[NameOf[<<r, c>>]] # NoBranch => gitBranch'[NameOf[<<r, c>>]] # NoBranch
      BY <2>1, <2>2, <2>3
    <3> QED
      BY <3>1, <3>2, <3>3 DEF Framed
  <2> QED
    BY <1>3, <2>5, <2>6 DEF k
<1> QED
  BY <1>2, <1>3 DEF CreateBranch

(* Writing the head of b. *)
LEMMA WriteEffect ==
    ASSUME Inv, NEW j \in Job, NEW b \in Branch, WriteHead(j, b),
           NEW k, k = LastName(InHand(j, b)), Current(j, k),
           NEW r \in Repo, NEW c \in Branch
    PROVE  /\ <<r, c>> # <<j[2], b>> => Framed(r, c)
           /\ OfBranch(gitBranch, j[2], b)' = OfBranch(gitBranch, j[2], b)
           /\ k \in OfBranch(gitBranch, j[2], b)
           /\ gitBranch'[k].head = local[j].seen[b]
<1>0. gitBranch \in [Cr -> MaybeBranch] /\ NoBranch \notin GitBranch /\ CopiesAgree
  BY NoBranchAssumption DEF Inv, TypeOK
<1>1. /\ k \in Cr /\ gitBranch[k] # NoBranch
      /\ gitBranch[k].repo = j[2] /\ gitBranch[k].branch = b
  BY <1>0, WrittenIsOfBranch
<1>2. gitBranch' = [gitBranch EXCEPT ![k].head = local[j].seen[b]]
  BY DEF WriteHead
<1>3. gitBranch[k] # NoBranch
  BY <1>1
<1>4. gitBranch[k] \in GitBranch /\ gitBranch[k].repo = j[2] /\ gitBranch[k].branch = b
  BY <1>0, <1>1, <1>3 DEF MaybeBranch
<1>5. /\ gitBranch'[k] = [gitBranch[k] EXCEPT !.head = local[j].seen[b]]
      /\ \A n \in Cr \ {k} : gitBranch'[n] = gitBranch[n]
  BY <1>0, <1>1, <1>2
<1>6. local[j].seen[b] \in MaybeCommit
  BY DEF Inv, TypeOK, Local
<1>7. /\ gitBranch'[k] \in GitBranch
      /\ gitBranch'[k].head = local[j].seen[b]
      /\ gitBranch'[k].repo = j[2]
      /\ gitBranch'[k].branch = b
  BY <1>4, <1>5, <1>6 DEF GitBranch
<1>8. gitBranch'[k] # NoBranch
  BY <1>0, <1>7
<1>9. NameOf[<<r, c>>] \in Cr
  BY WatcherAssumption
<1>10. \A n \in Cr : /\ gitBranch'[n] # NoBranch <=> gitBranch[n] # NoBranch
                    /\ gitBranch'[n].repo = gitBranch[n].repo
                    /\ gitBranch'[n].branch = gitBranch[n].branch
  BY <1>3, <1>4, <1>5, <1>7, <1>8
<1>11. <<r, c>> # <<j[2], b>> => k \notin OfBranch(gitBranch, r, c)
  BY <1>4 DEF OfBranch
<1>12. gitBranch[NameOf[<<r, c>>]] # NoBranch => gitBranch'[NameOf[<<r, c>>]] # NoBranch
  BY <1>5, <1>8, <1>9
<1>13. \A n \in OfBranch(gitBranch, r, c) : n \in Cr
  BY DEF OfBranch
<1>14. <<r, c>> # <<j[2], b>> => Framed(r, c)
  <2>1. OfBranch(gitBranch, r, c)' = OfBranch(gitBranch, r, c)
    BY <1>10 DEF OfBranch
  <2> QED
    BY <1>5, <1>11, <1>12, <1>13, <2>1 DEF Framed
<1>15. OfBranch(gitBranch, j[2], b)' = OfBranch(gitBranch, j[2], b)
  BY <1>10 DEF OfBranch
<1>16. k \in OfBranch(gitBranch, j[2], b)
  BY <1>1, <1>3, <1>4 DEF OfBranch
<1> QED
  BY <1>7, <1>14, <1>15, <1>16

(* Deleting a GitBranch, where names tell branches apart. *)
LEMMA DeleteEffect ==
    ASSUME Inv, OwnersNamed, NamesDiffer, NEW j \in Job, NEW k \in Cr, DeleteBranch(j, k),
           IsGone(j[2], k), NEW b \in Branch, gitBranch[k].branch = b,
           NEW r \in Repo, NEW c \in Branch
    PROVE  /\ <<r, c>> # <<j[2], b>> => Framed(r, c)
           /\ ~LastIsOwn(j[2], b)'
<1>0. gitBranch \in [Cr -> MaybeBranch] /\ NoBranch \notin GitBranch
  BY NoBranchAssumption DEF Inv, TypeOK
<1>1. gitBranch'[k] = NoBranch /\ \A n \in Cr \ {k} : gitBranch'[n] = gitBranch[n]
  BY <1>0 DEF DeleteBranch
<1>2. /\ gitBranch[k] \in GitBranch /\ j[2] \in Repo
      /\ gitBranch[k].repo = j[2] /\ gitBranch[k].owner = j[2] /\ j[2] # NoRepo
  BY <1>0, WatcherAssumption DEF IsGone, MaybeBranch, GitBranch, Job
<1>3. k = NameOf[<<j[2], b>>]
  BY <1>0, <1>2 DEF OwnersNamed
<1>4. ASSUME <<r, c>> # <<j[2], b>>
      PROVE  Framed(r, c)
  <2>1. <<r, c>> \in Repo \X Branch /\ <<j[2], b>> \in Repo \X Branch
    BY <1>2
  <2>2. NameOf[<<r, c>>] # k /\ NameOf[<<r, c>>] \in Cr
    BY <1>3, <1>4, <2>1, WatcherAssumption DEF NamesDiffer
  <2>3. k \notin OfBranch(gitBranch, r, c)
    BY <1>2, <1>4 DEF OfBranch
  <2>4. OfBranch(gitBranch, r, c)' = OfBranch(gitBranch, r, c)
    BY <1>1, <2>3 DEF OfBranch
  <2> QED
    BY <1>1, <2>2, <2>3, <2>4 DEF Framed, OfBranch
<1>5. ~LastIsOwn(j[2], b)'
  <2> SUFFICES ASSUME LastIsOwn(j[2], b)'
               PROVE  FALSE
    OBVIOUS
  <2> DEFINE last == LastName(OfBranch(gitBranch', j[2], b))
  <2>1. last \in OfBranch(gitBranch', j[2], b) /\ gitBranch'[last].owner = j[2]
    <3>1. OfBranch(gitBranch, j[2], b)' = OfBranch(gitBranch', j[2], b)
      BY DEF OfBranch
    <3>2. OfBranch(gitBranch', j[2], b) # {} /\ gitBranch'[last].owner = j[2]
      BY <3>1 DEF LastIsOwn, LastName
    <3> QED
      BY <3>2, LastOfBranch
  <2> HIDE DEF last
  <2>2. last \in Cr \ {k} /\ gitBranch[last] # NoBranch /\ gitBranch[last].owner = j[2]
        /\ gitBranch[last].repo = j[2] /\ gitBranch[last].branch = b
    BY <1>1, <2>1 DEF OfBranch
  <2>3. last = NameOf[<<j[2], b>>]
    BY <1>2, <2>2 DEF OwnersNamed
  <2> QED
    BY <1>3, <2>2, <2>3
<1> QED
  BY <1>4, <1>5

-----------------------------------------------------------------------------
(* Steps in quiet times.                                                   *)

MirrorsKept == \A r \in Repo, b \in Branch : Mirrors(r, b) => Mirrors(r, b)'

LEMMA CreateCalm ==
    ASSUME Inv, CalmInv, NEW j \in Job, NEW b \in Branch, CreateBranch(j, b)
    PROVE  CalmInv' /\ MirrorsKept
<1>0. /\ TypeOK /\ OnePod /\ PollInv(j) /\ pc[j] = "writing" /\ j[2] \in Repo
      /\ local \in [Job -> Local] /\ local[j] \in Local
      /\ UNCHANGED <<remote, pods, pc>> /\ b \in local[j].todo
      /\ InHand(j, b) = {} /\ local[j].created = {}
  BY DEF Inv, CalmInv, TypeOK, CreateBranch, At, external, Job
<1>1. /\ remote[j[2]][b] # NoCommit
      /\ OfBranch(gitBranch, j[2], b) = {}
  BY <1>0 DEF PollInv, Left
<1> DEFINE k == NameOf[<<j[2], b>>]
           new == [repo |-> j[2], branch |-> b, head |-> NoCommit, owner |-> j[2]]
<1>2. k \in Cr
  BY <1>0, WatcherAssumption
<1>3. \A r \in Repo, c \in Branch : <<r, c>> # <<j[2], b>> => Framed(r, c)
  BY CreateEffect
<1>4. \/ UNCHANGED gitBranch
       \/ /\ gitBranch[k] = NoBranch
          /\ OfBranch(gitBranch, j[2], b)' = OfBranch(gitBranch, j[2], b) \cup {k}
  BY <1>0, CreateEffect
<1>5. MirrorsKept
  <2>1. ASSUME Mirrors(j[2], b)
        PROVE  Mirrors(j[2], b)'
    <3>1. gitBranch[k] # NoBranch
      BY <1>1, <2>1 DEF Mirrors
    <3>2. UNCHANGED gitBranch
      BY <1>4, <3>1
    <3> QED
      BY <1>0, <2>1, <3>2 DEF Mirrors, OfBranch
  <2> QED
    BY <1>0, <1>3, <2>1, FramedMirrors DEF MirrorsKept
<1>6. \A i \in Job : i # j => local'[i] = local[i]
  BY <1>0 DEF CreateBranch, Done
<1>7. \A i \in Job : i # j => PollInv(i)'
  <2>1. \A i \in Job : i[2] \in Repo
    BY DEF Job
  <2> QED
    BY <1>0, <1>3, <1>6, <2>1, OtherPolls
<1>8. local'[j].seen = local[j].seen /\ local'[j].gone = local[j].gone
  <2>1. CASE Done(j, b)
    BY <1>0, <2>1 DEF Done, Local
  <2>2. CASE local' = [local EXCEPT ![j].created = {b}]
    BY <1>0, <2>2 DEF Local
  <2> QED
    BY <2>1, <2>2 DEF CreateBranch
<1>9. \A n \in local'[j].gone : IsGone(j[2], n)'
  <2>1. local[j].gone \subseteq Cr
    BY <1>0 DEF Local
  <2> QED
    BY <1>0, <1>1, <1>3, <1>8, <2>1, FramedGone DEF PollInv
<1>10. CASE gitBranch[k] = NoBranch /\ local' = [local EXCEPT ![j].created = {b}]
           /\ gitBranch' = [gitBranch EXCEPT ![k] = new]
  <2>1. /\ local'[j].copy = local[j].copy /\ local'[j].todo = local[j].todo
        /\ local'[j].created = {b}
    BY <1>0, <1>10 DEF Local
  <2>2. new # NoBranch
    BY <1>0, NoBranchAssumption DEF GitBranch, MaybeCommit
  <2> HIDE DEF new
  <2>3. Left(j, b)'
    <3>1. InHand(j, b)' = {k}
      BY <2>1 DEF InHand
    <3>2. OfBranch(gitBranch, j[2], b)' = {k}
      <4>1. gitBranch'[k] = new
        BY <1>0, <1>2, <1>10 DEF TypeOK
      <4>2. gitBranch' # gitBranch
        BY <1>10, <2>2, <4>1
      <4> QED
        BY <1>1, <1>4, <4>2
    <3> QED
      BY <1>0, <1>1, <2>1, <3>1, <3>2 DEF Left
  <2>4. ASSUME NEW c \in Branch, c # b
        PROVE  Left(j, c)'
    <3>1. Left(j, c)
      BY <1>0 DEF PollInv
    <3>2. InHand(j, c)' = InHand(j, c)
      BY <1>0, <2>1, <2>4 DEF InHand, OfBranch
    <3> QED
      BY <1>0, <1>3, <1>8, <2>1, <2>4, <3>1, <3>2, FramedLeft
  <2> QED
    BY <1>0, <1>5, <1>7, <1>8, <1>9, <2>3, <2>4 DEF CalmInv, PollInv, OnePod
<1>11. CASE gitBranch[k] # NoBranch /\ Done(j, b) /\ UNCHANGED gitBranch
  <2>1. /\ local'[j].copy = local[j].copy /\ local'[j].todo = local[j].todo \ {b}
        /\ local'[j].created = local[j].created
    BY <1>0, <1>11 DEF Done, Local
  <2>2. Mirrors(j[2], b)
    BY <1>1, <1>11 DEF Mirrors
  <2>3. \A c \in Branch : InHand(j, c)' = InHand(j, c)
    BY <2>1 DEF InHand, OfBranch
  <2>4. Left(j, b)'
    <3>1. Mirrors(j[2], b)'
      BY <1>0, <1>5, <2>2 DEF MirrorsKept
    <3> QED
      BY <1>0, <1>1, <2>1, <3>1 DEF Left
  <2>5. ASSUME NEW c \in Branch, c # b
        PROVE  Left(j, c)'
    <3>1. Left(j, c)
      BY <1>0 DEF PollInv
    <3> QED
      BY <1>0, <1>3, <1>8, <2>1, <2>3, <2>5, <3>1, FramedLeft
  <2> QED
    BY <1>0, <1>5, <1>7, <1>8, <1>9, <2>4, <2>5 DEF CalmInv, PollInv, OnePod
<1> QED
  BY <1>10, <1>11 DEF CreateBranch

LEMMA NothingWritten ==
    ASSUME UNCHANGED <<remote, gitBranch>>
    PROVE  MirrorsKept /\ \A r \in Repo, b \in Branch : Framed(r, b)
<1>1. \A r \in Repo, b \in Branch : Framed(r, b)
  BY DEF Framed, OfBranch
<1> QED
  BY <1>1, FramedMirrors DEF MirrorsKept

(* A step of one poll that writes nothing. *)
LEMMA QuietCalm ==
    ASSUME TypeOK, CalmInv, NEW j \in Job, UNCHANGED <<remote, gitBranch, pods>>,
           \A i \in Job : i # j => pc'[i] = pc[i] /\ local'[i] = local[i],
           PollInv(j)'
    PROVE  CalmInv' /\ MirrorsKept
<1>1. MirrorsKept /\ \A r \in Repo, b \in Branch : Framed(r, b)
  BY NothingWritten
<1>2. ASSUME NEW i \in Job, i # j
      PROVE  PollInv(i)'
  <2>1. PollInv(i) /\ i[2] \in Repo /\ pc'[i] = pc[i] /\ local'[i] = local[i]
    BY <1>2 DEF CalmInv, Job
  <2>2. \A b \in Branch : pc[i] = "writing" => Left(i, b)'
    <3>1. \A b \in Branch : InHand(i, b)' = InHand(i, b)
      BY <2>1 DEF InHand, OfBranch
    <3> QED
      BY <1>1, <2>1, <3>1, FramedLeft DEF PollInv
  <2>3. local[i].gone \subseteq Cr
    BY DEF TypeOK, Local
  <2>4. \A k \in local[i].gone : pc[i] = "writing" => IsGone(i[2], k)'
    BY <1>1, <2>1, <2>3, FramedGone DEF PollInv
  <2> QED
    BY <2>1, <2>2, <2>4 DEF PollInv
<1> QED
  BY <1>1, <1>2 DEF CalmInv, OnePod

LEMMA EndCalm ==
    ASSUME TypeOK, CalmInv, NEW j \in Job, UNCHANGED <<remote, gitBranch, pods>>,
           Goto(j, "idle"), local' = [local EXCEPT ![j] = NoLocal]
    PROVE  CalmInv' /\ MirrorsKept
<1>1. pc'[j] = "idle" /\ \A i \in Job : i # j => pc'[i] = pc[i] /\ local'[i] = local[i]
  BY DEF Goto, TypeOK
<1>2. PollInv(j)'
  BY <1>1 DEF PollInv
<1> QED
  BY <1>1, <1>2, QuietCalm

LEMMA WriteCalm ==
    ASSUME Inv, CalmInv, NEW j \in Job, NEW b \in Branch, WriteHead(j, b)
    PROVE  CalmInv' /\ MirrorsKept
<1>0. /\ TypeOK /\ OnePod /\ PollInv(j) /\ pc[j] = "writing" /\ j[2] \in Repo
      /\ local \in [Job -> Local] /\ local[j] \in Local
      /\ UNCHANGED <<remote, pods>> /\ b \in local[j].todo
      /\ local[j].seen = remote[j[2]]
  BY DEF Inv, CalmInv, PollInv, TypeOK, WriteHead, At, external, Job
<1>1. /\ remote[j[2]][b] # NoCommit /\ local[j].created \subseteq {b}
      /\ InHand(j, b) = OfBranch(gitBranch, j[2], b)
  BY <1>0 DEF PollInv, Left, WriteHead
<1>2. CASE Return(j) /\ UNCHANGED gitBranch
  BY <1>0, <1>2, EndCalm DEF Return
<1>3. ASSUME NEW k, k = LastName(InHand(j, b)), Current(j, k)
      PROVE  CalmInv' /\ MirrorsKept
  <2>1. /\ local'[j].seen = local[j].seen /\ local'[j].gone = local[j].gone
        /\ local'[j].copy = local[j].copy /\ local'[j].todo = local[j].todo \ {b}
        /\ local'[j].created = {}
        /\ UNCHANGED pc /\ \A i \in Job : i # j => local'[i] = local[i]
    BY <1>0, <1>3 DEF WriteHead, Done, Local
  <2>2. \A r \in Repo, c \in Branch : <<r, c>> # <<j[2], b>> => Framed(r, c)
    BY <1>3, WriteEffect
  <2>3. /\ OfBranch(gitBranch, j[2], b)' = OfBranch(gitBranch, j[2], b)
        /\ k \in OfBranch(gitBranch, j[2], b)
        /\ gitBranch'[k].head = remote[j[2]][b]
    BY <1>0, <1>3, WriteEffect
  <2>4. k = LastName(OfBranch(gitBranch, j[2], b))'
    BY <1>1, <1>3, <2>3
  <2>5. Mirrors(j[2], b)'
    BY <1>0, <1>1, <2>3, <2>4 DEF Mirrors
  <2>6. MirrorsKept
    BY <1>0, <2>2, <2>5, FramedMirrors DEF MirrorsKept
  <2>7. \A c \in Branch \ {b} : InHand(j, c)' = InHand(j, c)
    BY <1>1, <2>1 DEF InHand, OfBranch
  <2>8. Left(j, b)'
    BY <1>0, <1>1, <2>1, <2>5 DEF Left
  <2>9. ASSUME NEW c \in Branch, c # b
        PROVE  Left(j, c)'
    <3>1. Left(j, c)
      BY <1>0 DEF PollInv
    <3> QED
      BY <1>0, <2>1, <2>2, <2>7, <2>9, <3>1, FramedLeft
  <2>10. \A n \in local'[j].gone : IsGone(j[2], n)'
    <3>1. local[j].gone \subseteq Cr
      BY <1>0 DEF Local
    <3> QED
      BY <1>0, <1>1, <2>1, <2>2, <3>1, FramedGone DEF PollInv
  <2>11. \A i \in Job : i # j => PollInv(i)'
    <3>1. \A i \in Job : i[2] \in Repo
      BY DEF Job
    <3> QED
      BY <1>0, <2>1, <2>2, <3>1, OtherPolls
  <2>12. PollInv(j)'
    BY <1>0, <2>1, <2>8, <2>9, <2>10 DEF PollInv
  <2> QED
    BY <1>0, <2>6, <2>11, <2>12 DEF CalmInv, OnePod
<1> QED
  BY <1>2, <1>3 DEF WriteHead

LEMMA DeleteCalm ==
    ASSUME Inv, OwnersNamed, NamesDiffer, CalmInv, NEW j \in Job, NEW k \in Cr,
           DeleteBranch(j, k)
    PROVE  CalmInv' /\ MirrorsKept
<1>0. /\ TypeOK /\ OnePod /\ PollInv(j) /\ pc[j] = "writing" /\ j[2] \in Repo
      /\ local \in [Job -> Local] /\ local[j] \in Local
      /\ UNCHANGED <<remote, pods, pc>> /\ k \in local[j].gone /\ local[j].todo = {}
  BY DEF Inv, CalmInv, TypeOK, DeleteBranch, At, external, Job
<1>1. IsGone(j[2], k)
  BY <1>0 DEF PollInv
<1>2. PICK b \in Branch : gitBranch[k].branch = b
  BY <1>0, <1>1 DEF IsGone, TypeOK, MaybeBranch, GitBranch
<1>3. remote[j[2]][b] = NoCommit
  BY <1>1, <1>2 DEF IsGone
<1>4. /\ \A r \in Repo, c \in Branch : <<r, c>> # <<j[2], b>> => Framed(r, c)
      /\ ~LastIsOwn(j[2], b)'
  BY <1>0, <1>1, <1>2, DeleteEffect
<1>5. MirrorsKept
  <2>1. Mirrors(j[2], b)'
    BY <1>0, <1>3, <1>4 DEF Mirrors, LastIsOwn
  <2> QED
    BY <1>0, <1>4, <2>1, FramedMirrors DEF MirrorsKept
<1>6. /\ local'[j].seen = local[j].seen /\ local'[j].gone = local[j].gone \ {k}
      /\ local'[j].copy = local[j].copy /\ local'[j].todo = local[j].todo
      /\ local'[j].created = local[j].created
      /\ \A i \in Job : i # j => local'[i] = local[i]
  BY <1>0 DEF DeleteBranch, Local
<1>7. Left(j, b)'
  BY <1>0, <1>3, <1>4, <1>6 DEF Left
<1>8. ASSUME NEW c \in Branch, c # b
      PROVE  Left(j, c)'
  <2>1. Left(j, c)
    BY <1>0 DEF PollInv
  <2>2. k \notin OfBranch(gitBranch, j[2], c)
    BY <1>2, <1>8 DEF OfBranch
  <2>3. InHand(j, c)' = InHand(j, c)
    BY <1>6 DEF InHand, OfBranch
  <2> QED
    BY <1>0, <1>4, <1>6, <1>8, <2>1, <2>2, <2>3, FramedLeft
<1>9. ASSUME NEW n \in local'[j].gone
      PROVE  IsGone(j[2], n)'
  <2>1. n \in Cr \ {k} /\ IsGone(j[2], n)
    BY <1>0, <1>6, <1>9 DEF PollInv, Local
  <2>2. gitBranch'[n] = gitBranch[n]
    BY <1>0, <2>1 DEF DeleteBranch, TypeOK
  <2> QED
    BY <1>0, <2>1, <2>2 DEF IsGone
<1>10. \A i \in Job : i # j => PollInv(i)'
  <2>1. \A i \in Job : i[2] \in Repo
    BY DEF Job
  <2> QED
    BY <1>0, <1>4, <1>6, <2>1, OtherPolls
<1>11. PollInv(j)'
  BY <1>0, <1>6, <1>7, <1>8, <1>9 DEF PollInv
<1> QED
  BY <1>0, <1>5, <1>10, <1>11 DEF CalmInv, OnePod

LEMMA ListCalm ==
    ASSUME Inv, CalmInv, NEW j \in Job, ListBranches(j)
    PROVE  CalmInv' /\ MirrorsKept
<1>0. /\ TypeOK /\ PollInv(j) /\ pc[j] = "listing" /\ j[2] \in Repo
      /\ UNCHANGED <<remote, pods, gitBranch>> /\ local[j].seen = remote[j[2]]
      /\ local \in [Job -> Local]
  BY DEF Inv, CalmInv, PollInv, TypeOK, ListBranches, At, external, Job
<1>1. /\ pc'[j] = "writing" /\ \A i \in Job : i # j => pc'[i] = pc[i] /\ local'[i] = local[i]
      /\ local'[j] = [seen |-> local[j].seen, copy |-> gitBranch,
                      todo |-> ToWrite(local[j].seen, gitBranch, j[2]),
                      gone |-> ToDelete(local[j].seen, gitBranch, j[2]),
                      created |-> {}]
  BY <1>0 DEF ListBranches, Goto, TypeOK
<1>2. /\ local'[j].seen = local[j].seen /\ local'[j].copy = gitBranch
      /\ local'[j].todo = ToWrite(remote[j[2]], gitBranch, j[2])
      /\ local'[j].gone = ToDelete(remote[j[2]], gitBranch, j[2])
      /\ local'[j].created = {}
  BY <1>0, <1>1
<1>3. ASSUME NEW b \in Branch
      PROVE  Left(j, b)'
  <2> DEFINE mine == OfBranch(gitBranch, j[2], b)
  <2>1. mine' = mine /\ InHand(j, b)' = mine
    BY <1>0, <1>2 DEF InHand, OfBranch
  <2>2. ASSUME remote[j[2]][b] # NoCommit, b \notin local'[j].todo
        PROVE  Mirrors(j[2], b)'
    <3>1. mine # {} /\ gitBranch[LastName(mine)].head = remote[j[2]][b]
      BY <1>2, <2>2 DEF ToWrite, ExistingByName
    <3> QED
      BY <1>0, <2>1, <2>2, <3>1 DEF Mirrors
  <2>3. ASSUME remote[j[2]][b] = NoCommit
        PROVE  /\ b \notin local'[j].todo
               /\ LastIsOwn(j[2], b)' => LastName(mine)' \in local'[j].gone
    <3>1. b \notin local'[j].todo
      BY <1>2, <2>3 DEF ToWrite
    <3>2. LastName(mine)' = LastName(mine)
      BY <2>1 DEF LastName
    <3>3. LastIsOwn(j[2], b)' => mine # {} /\ gitBranch[LastName(mine)].owner = j[2]
      <4>1. LastIsOwn(j[2], b)' => LastIsOwn(j[2], b)
        BY <1>0, NothingWritten, FramedMirrors
      <4> QED
        BY <4>1 DEF LastIsOwn
    <3>4. mine # {} => LastName(mine) \in Cr
      <4>1. mine # {} => LastName(mine) \in mine
        BY LastOfBranch
      <4> QED
        BY <4>1 DEF OfBranch
    <3>5. LastIsOwn(j[2], b)' => LastName(mine) \in ToDelete(remote[j[2]], gitBranch, j[2])
      BY <2>3, <3>3, <3>4 DEF ToDelete, ExistingByName
    <3> QED
      BY <1>2, <3>1, <3>2, <3>5
  <2> QED
    BY <1>0, <2>1, <2>2, <2>3 DEF Left
<1>4. ASSUME NEW k \in local'[j].gone
      PROVE  IsGone(j[2], k)'
  <2>1. PICK b \in Branch : /\ remote[j[2]][b] = NoCommit
                            /\ OfBranch(gitBranch, j[2], b) # {}
                            /\ k = ExistingByName(gitBranch, j[2], b)
                            /\ gitBranch[k].owner = j[2]
    BY <1>2, <1>4 DEF ToDelete
  <2>2. k \in OfBranch(gitBranch, j[2], b)
    BY <2>1, ExistingIsOfBranch
  <2> QED
    BY <1>0, <2>1, <2>2 DEF IsGone, OfBranch
<1>5. PollInv(j)'
  BY <1>0, <1>1, <1>2, <1>3, <1>4 DEF PollInv
<1> QED
  BY <1>0, <1>1, <1>5, QuietCalm

LEMMA NextCalm ==
    ASSUME Inv, OwnersNamed, NamesDiffer, CalmInv, [Next /\ Calm]_vars
    PROVE  CalmInv' /\ MirrorsKept
<1>0. TypeOK /\ OnePod /\ \A j \in Job : PollInv(j)
  BY DEF Inv, CalmInv
<1>1. ASSUME NEW j \in Job, Step(j)
      PROVE  CalmInv' /\ MirrorsKept
  <2>1. CASE Get(j)
    <3>1. /\ UNCHANGED <<remote, gitBranch, pods, local>>
          /\ pc'[j] = "asking" /\ \A i \in Job : i # j => pc'[i] = pc[i]
          /\ j[1] \in pods
      BY <1>0, <2>1 DEF Get, Goto, At, external, TypeOK
    <3>2. PollInv(j)'
      BY <3>1 DEF PollInv
    <3> QED
      BY <1>0, <3>1, <3>2, QuietCalm
  <2>2. CASE LsRemote(j)
    <3>1. UNCHANGED <<remote, gitBranch, pods>> /\ j[1] \in pods
      BY <2>2 DEF LsRemote, At, external
    <3>2. CASE Return(j)
      BY <1>0, <3>1, <3>2, EndCalm DEF Return
    <3>3. CASE Goto(j, "listing") /\ local' = [local EXCEPT ![j].seen = remote[j[2]]]
      <4>1. /\ pc'[j] = "listing" /\ local'[j].seen = remote[j[2]]
            /\ \A i \in Job : i # j => pc'[i] = pc[i] /\ local'[i] = local[i]
        BY <1>0, <3>3 DEF Goto, TypeOK, Local
      <4>2. PollInv(j)'
        BY <3>1, <4>1 DEF PollInv
      <4> QED
        BY <1>0, <3>1, <4>1, <4>2, QuietCalm
    <3> QED
      BY <2>2, <3>2, <3>3 DEF LsRemote
  <2>3. CASE ListBranches(j)
    BY <2>3, ListCalm
  <2>4. ASSUME NEW b \in Branch, CreateBranch(j, b)
        PROVE  CalmInv' /\ MirrorsKept
    BY <2>4, CreateCalm
  <2>5. ASSUME NEW b \in Branch, WriteHead(j, b)
        PROVE  CalmInv' /\ MirrorsKept
    BY <2>5, WriteCalm
  <2>6. ASSUME NEW k \in Cr, DeleteBranch(j, k)
        PROVE  CalmInv' /\ MirrorsKept
    BY <2>6, DeleteCalm
  <2>7. CASE Finish(j)
    BY <1>0, <2>7, EndCalm DEF Finish, external
  <2> QED
    BY <1>1, <2>1, <2>2, <2>3, <2>4, <2>5, <2>6, <2>7 DEF Step
<1>2. ASSUME NEW j \in Job, Fail(j)
      PROVE  CalmInv' /\ MirrorsKept
  BY <1>0, <1>2, EndCalm DEF Fail, Return, external
<1>3. ASSUME UNCHANGED <<remote, gitBranch, pods, pc, local>>
      PROVE  CalmInv' /\ MirrorsKept
  <2>1. MirrorsKept /\ \A r \in Repo, b \in Branch : Framed(r, b)
    BY <1>3, NothingWritten
  <2>2. ASSUME NEW j \in Job
        PROVE  PollInv(j)'
    <3>1. PollInv(j) /\ j[2] \in Repo
      BY <1>0 DEF Job
    <3>2. \A b \in Branch : pc[j] = "writing" => Left(j, b)'
      <4>1. \A b \in Branch : InHand(j, b)' = InHand(j, b)
        BY <1>3 DEF InHand, OfBranch
      <4> QED
        BY <1>3, <2>1, <3>1, <4>1, FramedLeft DEF PollInv
    <3>3. \A k \in local[j].gone : pc[j] = "writing" => IsGone(j[2], k)'
      BY <1>3, <3>1 DEF PollInv, IsGone
    <3> QED
      BY <1>3, <3>1, <3>2, <3>3 DEF PollInv
  <2> QED
    BY <1>0, <1>3, <2>1, <2>2 DEF CalmInv, OnePod
<1>4. ASSUME NEW r \in Repo, Tick(r)
      PROVE  CalmInv' /\ MirrorsKept
  BY <1>3, <1>4 DEF Tick, external
<1>5. ~ \E p \in Pod : Retire(p)
  BY <1>0 DEF Retire, OnePod
<1>6. CASE UNCHANGED vars
  BY <1>3, <1>6 DEF vars, external
<1> QED
  BY <1>1, <1>2, <1>4, <1>5, <1>6 DEF Next, Calm

(* A poll that comes to its end has mirrored its repository. *)
LEMMA FinishMirrors ==
    ASSUME Inv, CalmInv, NEW j \in Job, Finish(j)
    PROVE  /\ MirroredRepo(j[2])
           /\ \A i \in Job : i[2] = j[2] => pc'[i] = "idle"
<1>0. /\ OnePod /\ PollInv(j) /\ pc[j] = "writing" /\ j[1] \in pods
      /\ local[j].todo = {} /\ local[j].gone = {} /\ pc' = [pc EXCEPT ![j] = "idle"]
  BY DEF CalmInv, Finish, At, Goto
<1>1. ASSUME NEW b \in Branch
      PROVE  Mirrors(j[2], b)
  <2>1. Left(j, b)
    BY <1>0 DEF PollInv
  <2>2. CASE remote[j[2]][b] # NoCommit
    BY <1>0, <2>1, <2>2 DEF Left
  <2>3. CASE remote[j[2]][b] = NoCommit
    BY <1>0, <2>1, <2>3 DEF Left, LastIsOwn, Mirrors
  <2> QED
    BY <2>2, <2>3
<1>2. ASSUME NEW i \in Job, i[2] = j[2]
      PROVE  pc'[i] = "idle"
  <2>1. pc[i] # "idle" => i = j
    BY <1>0, <1>2 DEF CalmInv, PollInv, OnePod, Job
  <2> QED
    BY <1>0, <2>1 DEF Inv, TypeOK
<1> QED
  BY <1>1, <1>2 DEF MirroredRepo

LEMMA NextPolled ==
    ASSUME Inv, OwnersNamed, NamesDiffer, CalmInv, NEW r \in Repo, PolledInv(r),
           [Next /\ Calm]_vars
    PROVE  PolledInv(r)'
<1> SUFFICES ASSUME r \notin due'
             PROVE  MirroredRepo(r)' /\ \A i \in Job : i[2] = r => pc'[i] = "idle"
  BY DEF PolledInv
<1>1. MirroredRepo(r) => MirroredRepo(r)'
  BY NextCalm DEF MirrorsKept, MirroredRepo
<1>2. CASE r \in due
  <2>1. PICK j \in Job : Finish(j) /\ j[2] = r
    BY <1>2 DEF Next, Step, Get, LsRemote, ListBranches, CreateBranch, WriteHead, DeleteBranch,
       Finish, Fail, Tick, Retire, Calm, vars
  <2> QED
    BY <1>1, <2>1, FinishMirrors
<1>3. CASE r \notin due
  <2>1. MirroredRepo(r) /\ \A i \in Job : i[2] = r => pc[i] = "idle"
    BY <1>3 DEF PolledInv
  <2>2. ASSUME NEW i \in Job, i[2] = r, pc'[i] # "idle"
        PROVE  FALSE
    <3>1. pc[i] = "idle"
      BY <2>1, <2>2
    <3>2. pc \in [Job -> PC]
      BY DEF Inv, TypeOK
    <3>3. PICK j \in Job : Step(j) \/ Fail(j)
      BY <2>2, <3>1, <3>2 DEF Next, Tick, Retire, Calm, vars
    <3>4. j = i
      BY <2>2, <3>1, <3>2, <3>3 DEF Step, Get, LsRemote, ListBranches, CreateBranch, WriteHead,
         DeleteBranch, Finish, Fail, Return, Goto
    <3>5. Get(i)
      BY <3>1, <3>3, <3>4 DEF Step, LsRemote, ListBranches, CreateBranch, WriteHead,
         DeleteBranch, Finish, Fail, At
    <3> QED
      BY <1>3, <2>2, <3>5 DEF Get
  <2> QED
    BY <1>1, <2>1, <2>2
<1> QED
  BY <1>2, <1>3

(***************************************************************************)
(* One poll is enough.  Whatever pods, users and pushers did before: from  *)
(* a moment when one pod runs, no poll is under way and a repository is    *)
(* due, and as long as nobody but the watcher changes anything, the        *)
(* repository is mirrored as soon as, and whenever, a poll of it counts as *)
(* done (LastFetchTime was written), even if earlier polls failed halfway. *)
(* This is what ReconcileKind does as a whole; it takes names that tell    *)
(* branches apart, which branchCRDName does not always give.               *)
(***************************************************************************)
THEOREM OnePollMirrors ==
    ASSUME NamesDiffer, NEW r \in Repo
    PROVE  Spec => [](CalmStart /\ r \in due /\ [][Calm]_vars
                        => [](r \notin due => MirroredRepo(r)))
<1>1. CalmStart /\ r \in due => CalmInv /\ PolledInv(r)
  BY DEF CalmStart, CalmInv, PollInv, PolledInv
<1>2. Inv /\ OwnersNamed /\ CalmInv /\ PolledInv(r) /\ [Next]_vars /\ [Calm]_vars
        => CalmInv' /\ PolledInv(r)'
  BY NextCalm, NextPolled
<1>3. PolledInv(r) => (r \notin due => MirroredRepo(r))
  BY DEF PolledInv
<1> QED
  BY <1>1, <1>2, <1>3, AlwaysInv, AlwaysOwners, PTL DEF Spec

(***************************************************************************)
(* In quiet times a branch that is mirrored stays so: neither the later    *)
(* polls, nor those that fail halfway, ever take back what is right.       *)
(***************************************************************************)
THEOREM MirrorLasts ==
    ASSUME NamesDiffer, NEW r \in Repo, NEW b \in Branch
    PROVE  Spec => [](CalmStart /\ [][Calm]_vars => [](Mirrors(r, b) => []Mirrors(r, b)))
<1>1. CalmStart => CalmInv
  BY DEF CalmStart, CalmInv, PollInv
<1>2. Inv /\ OwnersNamed /\ CalmInv /\ [Next]_vars /\ [Calm]_vars
        => CalmInv' /\ (Mirrors(r, b) => Mirrors(r, b)')
  BY NextCalm DEF MirrorsKept
<1> QED
  BY <1>1, <1>2, AlwaysInv, AlwaysOwners, PTL DEF Spec
=============================================================================
