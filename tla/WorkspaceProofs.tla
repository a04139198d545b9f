-------------------------- MODULE WorkspaceProofs --------------------------
(***************************************************************************)
(* Proofs about Workspace, for any number of workers, processes, paths and *)
(* refs, and any bound.                                                    *)
(***************************************************************************)
EXTENDS Workspace, FiniteSetTheorems, TLAPS

-----------------------------------------------------------------------------
(* The inductive invariant.                                                *)

(* The workers that have locked. *)
Holding == InDirectory \cup {"unlocking"}

Users(q, p) == {w \in Worker : ProcessOf[w] = q /\ pc[w] \in Attached /\ path[w] = p}

(* Whoever waits for or holds the mutex of a path does so in the map. *)
EntryStays ==
    \A w \in Worker : pc[w] \in Attached => active[ProcessOf[w]][path[w]] = ref[w]

HolderOwns == \A w \in Worker : pc[w] \in Holding => heap[ref[w]].owner = w

(* No ref object serves two paths. *)
OneEntry ==
    \A q, s \in Process, p, o \in Path :
        active[q][p] # NoRef /\ active[q][p] = active[s][o] => q = s /\ p = o

(* The count may be too large (it leaks), but never too small. *)
CountCovers ==
    \A q \in Process, p \in Path :
        active[q][p] # NoRef => Cardinality(Users(q, p)) <= heap[active[q][p]].count

LockInv == EntryStays /\ HolderOwns /\ OneEntry /\ CountCovers

Inv == TypeOK /\ LockInv

-----------------------------------------------------------------------------
LEMMA UsersFinite ==
    ASSUME NEW q, NEW p
    PROVE  /\ Users(q, p) \in SUBSET Worker
           /\ IsFiniteSet(Users(q, p))
           /\ Cardinality(Users(q, p)) \in Nat
<1>1. Users(q, p) \in SUBSET Worker
  BY DEF Users
<1>2. IsFiniteSet(Users(q, p))
  BY <1>1, FS_Subset, WorkspaceAssumption
<1> QED
  BY <1>1, <1>2, FS_CardinalityType

(* Losing users keeps the count large enough. *)
LEMMA FewerUsers ==
    ASSUME NEW q, NEW p, Users(q, p)' \subseteq Users(q, p)
    PROVE  Cardinality(Users(q, p)') <= Cardinality(Users(q, p))
BY UsersFinite, FS_Subset

(* What a removal or a fetch leaves is a state of a directory. *)
LEMMA DiskType ==
    ASSUME NEW p \in Path, disk \in [Path -> Disk]
    PROVE  Remains(p) \subseteq Disk /\ Fetched(p) \subseteq Disk
BY DEF Remains, Fetched, Cloned, Disk

LEMMA InitInv == Init => Inv
<1> SUFFICES ASSUME Init PROVE Inv
  OBVIOUS
<1>1. TypeOK
  BY WorkspaceAssumption DEF Init, TypeOK, NewRef, Disk, PC
<1>2. EntryStays /\ HolderOwns
  BY DEF Init, EntryStays, HolderOwns, Attached, Holding, InDirectory
<1>3. OneEntry /\ CountCovers
  BY DEF Init, OneEntry, CountCovers
<1> QED
  BY <1>1, <1>2, <1>3 DEF Inv, LockInv

-----------------------------------------------------------------------------
(* Kinds of steps.                                                         *)

(***************************************************************************)
(* A worker moves on without touching a mutex.                             *)
(***************************************************************************)
LEMMA MovingOn ==
    ASSUME Inv, NEW w \in Worker, NEW label \in PC, Goto(w, label),
           UNCHANGED <<active, heap, path, ref>>,
           \/ pc[w] \in InDirectory /\ label \in InDirectory
           \/ pc[w] \in {"idle", "memory"} /\ label \in {"idle", "memory"}
    PROVE  LockInv'
<1>1. pc' = [pc EXCEPT ![w] = label]
  BY DEF Goto
<1>2. \A v \in Worker : /\ pc'[v] \in Attached <=> pc[v] \in Attached
                        /\ pc'[v] \in Holding <=> pc[v] \in Holding
  BY <1>1 DEF Inv, TypeOK, Attached, Holding, InDirectory
<1>3. EntryStays' /\ HolderOwns' /\ OneEntry'
  BY <1>2 DEF Inv, LockInv, EntryStays, HolderOwns, OneEntry
<1>4. \A q \in Process, p \in Path : Users(q, p)' = Users(q, p)
  BY <1>2 DEF Users
<1>5. CountCovers'
  BY <1>4 DEF Inv, LockInv, CountCovers
<1> QED
  BY <1>3, <1>5 DEF LockInv

(***************************************************************************)
(* A worker that holds a mutex gives it back and drops its pointers.       *)
(***************************************************************************)
LEMMA Leaving ==
    ASSUME Inv, NEW w \in Worker, NEW label \in {"idle", "memory"},
           pc[w] \in Holding, GiveBack(w), Return(w, label), UNCHANGED active
    PROVE  /\ LockInv'
           /\ heap' \in [Ref -> [count : Nat, owner : Worker \cup {NoWorker}]]
<1> DEFINE r == ref[w]
<1>1. r \in Ref /\ path[w] \in Path /\ heap[r].owner = w
  BY DEF Inv, TypeOK, LockInv, HolderOwns, Holding, InDirectory
<1>2. /\ pc' = [pc EXCEPT ![w] = label]
      /\ path' = [path EXCEPT ![w] = NoPath]
      /\ ref' = [ref EXCEPT ![w] = NoRef]
      /\ heap' = [heap EXCEPT ![r].owner = NoWorker]
  BY DEF GiveBack, Return, Goto
<1>3. /\ pc'[w] = label
      /\ \A v \in Worker : v # w => pc'[v] = pc[v] /\ path'[v] = path[v] /\ ref'[v] = ref[v]
  BY <1>2 DEF Inv, TypeOK
<1>4. /\ heap' \in [Ref -> [count : Nat, owner : Worker \cup {NoWorker}]]
      /\ \A s \in Ref : heap'[s].count = heap[s].count
      /\ \A s \in Ref : s # r => heap'[s] = heap[s]
  BY <1>1, <1>2 DEF Inv, TypeOK
<1>5. pc'[w] \notin Attached /\ pc'[w] \notin Holding
  BY <1>3 DEF Attached, Holding, InDirectory
<1>6. EntryStays'
  BY <1>3, <1>5 DEF Inv, LockInv, EntryStays
<1>7. HolderOwns'
  <2> SUFFICES ASSUME NEW v \in Worker, pc'[v] \in Holding
               PROVE  heap'[ref'[v]].owner = v
    BY DEF HolderOwns
  <2>1. v # w /\ pc[v] \in Holding
    BY <1>3, <1>5
  <2>2. heap[ref[v]].owner = v /\ ref[v] \in Ref
    BY <2>1 DEF Inv, TypeOK, LockInv, HolderOwns, Holding, InDirectory
  <2>3. ref[v] # r
    BY <1>1, <2>1, <2>2
  <2> QED
    BY <1>3, <1>4, <2>1, <2>2, <2>3
<1>8. OneEntry'
  BY DEF Inv, LockInv, OneEntry
<1>9. CountCovers'
  <2> SUFFICES ASSUME NEW q \in Process, NEW p \in Path, active[q][p] # NoRef
               PROVE  Cardinality(Users(q, p)') <= heap'[active[q][p]].count
    BY DEF CountCovers
  <2>1. Users(q, p)' \subseteq Users(q, p)
    BY <1>3, <1>5 DEF Users
  <2>2. Cardinality(Users(q, p)') <= Cardinality(Users(q, p))
    BY <2>1, FewerUsers
  <2>3. active[q][p] \in Ref
    BY DEF Inv, TypeOK
  <2>4. Cardinality(Users(q, p)) <= heap[active[q][p]].count
    BY DEF Inv, LockInv, CountCovers
  <2>5. /\ Cardinality(Users(q, p)) \in Nat
        /\ Users(q, p)' \in SUBSET Users(q, p)
        /\ IsFiniteSet(Users(q, p))
    BY <2>1, UsersFinite
  <2>6. Cardinality(Users(q, p)') \in Nat
    BY <2>5, FS_Subset, FS_CardinalityType
  <2>7. heap[active[q][p]].count \in Nat
    BY <2>3 DEF Inv, TypeOK
  <2> QED
    BY <1>4, <2>2, <2>3, <2>4, <2>5, <2>6, <2>7
<1> QED
  BY <1>4, <1>6, <1>7, <1>8, <1>9 DEF LockInv

(***************************************************************************)
(* getRef adds a user and counts it.                                       *)
(***************************************************************************)
LEMMA GetRefInv ==
    ASSUME Inv, NEW w \in Worker, NEW p \in Path, GetRef(w, p)
    PROVE  Inv'
<1> DEFINE q == ProcessOf[w]
<1>1. PICK r \in Ref :
        /\ \/ /\ active[q][p] = r
              /\ heap' = [heap EXCEPT ![r].count = @ + 1]
           \/ /\ active[q][p] = NoRef
              /\ r \in Unreferenced
              /\ heap' = [heap EXCEPT ![r] = [NewRef EXCEPT !.count = 1]]
        /\ active' = [active EXCEPT ![q][p] = r]
        /\ ref' = [ref EXCEPT ![w] = r]
  BY DEF GetRef, Count
<1>2. q \in Process /\ r # NoRef
  BY WorkspaceAssumption
<1>3. /\ pc[w] = "idle"
      /\ pc' = [pc EXCEPT ![w] = "waiting"]
      /\ path' = [path EXCEPT ![w] = p]
      /\ UNCHANGED <<disk, doomed>>
  BY DEF GetRef, Goto
<1>4. /\ pc'[w] = "waiting" /\ path'[w] = p /\ ref'[w] = r
      /\ \A v \in Worker : v # w => pc'[v] = pc[v] /\ path'[v] = path[v] /\ ref'[v] = ref[v]
  BY <1>1, <1>3 DEF Inv, TypeOK
<1>5. /\ active'[q][p] = r
      /\ \A s \in Process, o \in Path : <<s, o>> # <<q, p>> => active'[s][o] = active[s][o]
  BY <1>1, <1>2 DEF Inv, TypeOK
<1>6. TypeOK'
  <2>1. [NewRef EXCEPT !.count = 1] \in [count : Nat, owner : Worker \cup {NoWorker}]
    BY DEF NewRef
  <2>2. heap' \in [Ref -> [count : Nat, owner : Worker \cup {NoWorker}]]
    <3>1. heap[r] \in [count : Nat, owner : Worker \cup {NoWorker}]
      BY DEF Inv, TypeOK
    <3>2. [heap[r] EXCEPT !.count = @ + 1] \in [count : Nat, owner : Worker \cup {NoWorker}]
      BY <3>1
    <3>3. \E v \in [count : Nat, owner : Worker \cup {NoWorker}] :
              heap' = [heap EXCEPT ![r] = v]
      BY <1>1, <2>1, <3>2, Zenon
    <3> QED
      BY <3>3 DEF Inv, TypeOK
  <2>3. active' \in [Process -> [Path -> Ref \cup {NoRef}]]
    BY <1>1, <1>2 DEF Inv, TypeOK
  <2> QED
    BY <1>1, <1>3, <1>4, <2>2, <2>3 DEF Inv, TypeOK, PC
<1>7. CASE active[q][p] = r
  <2>1. heap' = [heap EXCEPT ![r].count = @ + 1]
    BY <1>1, <1>2, <1>7
  <2>2. \A s \in Ref : /\ heap'[s].owner = heap[s].owner
                       /\ heap'[s].count = IF s = r THEN heap[s].count + 1 ELSE heap[s].count
    BY <2>1 DEF Inv, TypeOK
  <2>3. UNCHANGED active
    BY <1>1, <1>7, <1>2 DEF Inv, TypeOK
  <2>4. EntryStays'
    BY <1>4, <1>5, <2>3 DEF Inv, LockInv, EntryStays, Attached
  <2>5. HolderOwns'
    BY <1>4, <2>2 DEF Inv, LockInv, TypeOK, HolderOwns, Holding, InDirectory
  <2>6. OneEntry'
    BY <2>3 DEF Inv, LockInv, OneEntry
  <2>7. ASSUME NEW s \in Process, NEW o \in Path, active[s][o] # NoRef
        PROVE  Cardinality(Users(s, o)') <= heap'[active[s][o]].count
    <3>1. /\ active[s][o] \in Ref
          /\ Cardinality(Users(s, o)) <= heap[active[s][o]].count
          /\ heap[active[s][o]].count \in Nat
          /\ Cardinality(Users(s, o)) \in Nat
      BY <2>7, UsersFinite DEF Inv, TypeOK, LockInv, CountCovers
    <3>2. CASE s = q /\ o = p
      <4>1. Users(s, o)' = Users(s, o) \cup {w}
        <5>1. "waiting" \in Attached
          BY DEF Attached
        <5>2. w \in Users(s, o)'
          BY <1>4, <3>2, <5>1 DEF Users
        <5>3. \A v \in Worker \ {w} : v \in Users(s, o)' <=> v \in Users(s, o)
          BY <1>4 DEF Users
        <5> QED
          BY <5>2, <5>3 DEF Users
      <4>2. Cardinality(Users(s, o)') <= Cardinality(Users(s, o)) + 1
        <5>1. IsFiniteSet(Users(s, o))
          BY UsersFinite
        <5>2. Cardinality(Users(s, o) \cup {w}) =
                  IF w \in Users(s, o) THEN Cardinality(Users(s, o))
                                       ELSE Cardinality(Users(s, o)) + 1
          BY <5>1, FS_AddElement
        <5> QED
          BY <3>1, <4>1, <5>2
      <4>3. Cardinality(Users(s, o)') \in Nat
        BY <4>1, UsersFinite, FS_AddElement, FS_CardinalityType
      <4>4. heap'[active[s][o]].count = heap[active[s][o]].count + 1
        BY <1>7, <2>2, <3>2
      <4> QED
        BY <3>1, <4>2, <4>3, <4>4
    <3>3. CASE ~(s = q /\ o = p)
      <4>1. Users(s, o)' = Users(s, o)
        BY <1>3, <1>4, <3>3 DEF Users, Attached, InDirectory
      <4>2. active[s][o] # r
        BY <1>2, <1>7, <3>3 DEF Inv, LockInv, OneEntry
      <4> QED
        BY <2>2, <3>1, <4>1, <4>2
    <3> QED
      BY <3>2, <3>3
  <2> QED
    BY <1>6, <2>3, <2>4, <2>5, <2>6, <2>7 DEF Inv, LockInv, CountCovers
<1>8. CASE active[q][p] = NoRef
  <2>1. /\ r \in Unreferenced
        /\ heap' = [heap EXCEPT ![r] = [NewRef EXCEPT !.count = 1]]
    BY <1>1, <1>2, <1>8
  <2>2. heap'[r].count = 1 /\ \A s \in Ref : s # r => heap'[s] = heap[s]
    BY <2>1 DEF Inv, TypeOK, NewRef
  <2>3. \A v \in Worker : ref[v] # r
    BY <2>1 DEF Unreferenced
  <2>4. \A s \in Process, o \in Path : active[s][o] # r
    BY <2>1 DEF Unreferenced
  <2>5. \A v \in Worker : pc[v] \in Attached => path[v] \in Path /\ ref[v] \in Ref
    BY DEF Inv, TypeOK, Attached, InDirectory
  <2>6. Users(q, p) = {}
    BY <1>2, <1>8, <2>5, WorkspaceAssumption DEF Inv, LockInv, EntryStays, Users
  <2>7. EntryStays'
    <3> SUFFICES ASSUME NEW v \in Worker, pc'[v] \in Attached
                 PROVE  active'[ProcessOf[v]][path'[v]] = ref'[v]
      BY DEF EntryStays
    <3>1. CASE v = w
      BY <1>4, <1>5, <3>1
    <3>2. CASE v # w
      <4>1. v \notin Users(q, p) /\ pc[v] \in Attached
        BY <1>4, <2>6, <3>2
      <4>2. <<ProcessOf[v], path[v]>> # <<q, p>> /\ path[v] \in Path /\ ProcessOf[v] \in Process
        BY <2>5, <4>1, WorkspaceAssumption DEF Users
      <4> QED
        BY <1>4, <1>5, <3>2, <4>1, <4>2 DEF Inv, LockInv, EntryStays
    <3> QED
      BY <3>1, <3>2
  <2>8. HolderOwns'
    BY <1>4, <2>2, <2>3 DEF Inv, TypeOK, LockInv, HolderOwns, Holding, InDirectory
  <2>9. OneEntry'
    BY <1>2, <1>5, <2>4 DEF Inv, LockInv, OneEntry
  <2>10. ASSUME NEW s \in Process, NEW o \in Path, active'[s][o] # NoRef
         PROVE  Cardinality(Users(s, o)') <= heap'[active'[s][o]].count
    <3>1. CASE s = q /\ o = p
      <4>1. Users(s, o)' = {w}
        BY <1>4, <2>6, <3>1 DEF Users, Attached
      <4>2. Cardinality(Users(s, o)') = 1
        BY <4>1, FS_Singleton
      <4> QED
        BY <1>5, <2>2, <3>1, <4>2
    <3>2. CASE ~(s = q /\ o = p)
      <4>1. Users(s, o)' = Users(s, o)
        BY <1>3, <1>4, <3>2 DEF Users, Attached, InDirectory
      <4>2. active'[s][o] = active[s][o] /\ active[s][o] # r /\ active[s][o] \in Ref
        BY <1>5, <2>4, <2>10, <3>2 DEF Inv, TypeOK
      <4>3. Cardinality(Users(s, o)) <= heap[active[s][o]].count
        BY <2>10, <4>2 DEF Inv, LockInv, CountCovers
      <4> QED
        BY <2>2, <4>1, <4>2, <4>3
    <3> QED
      BY <3>1, <3>2
  <2> QED
    BY <1>6, <2>7, <2>8, <2>9, <2>10 DEF Inv, LockInv, CountCovers
<1> QED
  BY <1>1, <1>7, <1>8

(***************************************************************************)
(* Lock takes a mutex that nobody owns.                                    *)
(***************************************************************************)
LEMMA LockKeeps ==
    ASSUME Inv, NEW w \in Worker, Lock(w)
    PROVE  Inv'
<1> DEFINE r == ref[w]
<1>1. /\ pc[w] = "waiting" /\ heap[r].owner = NoWorker /\ r \in Ref /\ path[w] \in Path
      /\ heap' = [heap EXCEPT ![r].owner = w]
      /\ pc' = [pc EXCEPT ![w] = "locked"]
      /\ UNCHANGED <<active, disk, path, ref, doomed>>
  BY DEF Lock, Goto, Inv, TypeOK
<1>2. pc'[w] = "locked" /\ \A v \in Worker : v # w => pc'[v] = pc[v]
  BY <1>1 DEF Inv, TypeOK
<1>3. /\ heap' \in [Ref -> [count : Nat, owner : Worker \cup {NoWorker}]]
      /\ heap'[r].owner = w
      /\ \A s \in Ref : heap'[s].count = heap[s].count
      /\ \A s \in Ref : s # r => heap'[s] = heap[s]
  BY <1>1 DEF Inv, TypeOK
<1>4. TypeOK'
  BY <1>1, <1>2, <1>3 DEF Inv, TypeOK, PC
<1>5. \A v \in Worker : pc'[v] \in Attached <=> pc[v] \in Attached
  BY <1>1, <1>2 DEF Attached, InDirectory
<1>6. EntryStays' /\ OneEntry'
  BY <1>1, <1>5 DEF Inv, LockInv, EntryStays, OneEntry
<1>7. HolderOwns'
  <2> SUFFICES ASSUME NEW v \in Worker, pc'[v] \in Holding
               PROVE  heap'[ref[v]].owner = v
    BY <1>1 DEF HolderOwns
  <2>1. CASE v = w
    BY <1>3, <2>1
  <2>2. CASE v # w
    <3>1. pc[v] \in Holding /\ heap[ref[v]].owner = v /\ ref[v] \in Ref
      BY <1>2, <2>2 DEF Inv, TypeOK, LockInv, HolderOwns, Holding, InDirectory
    <3>2. ref[v] # r
      BY <1>1, <3>1, WorkspaceAssumption
    <3> QED
      BY <1>3, <3>1, <3>2
  <2> QED
    BY <2>1, <2>2
<1>8. \A q \in Process, p \in Path : Users(q, p)' = Users(q, p)
  BY <1>1, <1>5 DEF Users
<1>9. CountCovers'
  BY <1>1, <1>3, <1>8 DEF Inv, TypeOK, LockInv, CountCovers
<1> QED
  BY <1>4, <1>6, <1>7, <1>9 DEF Inv, LockInv

(***************************************************************************)
(* Release takes a user out of the count, and drops the entry only when    *)
(* nobody is left.                                                         *)
(***************************************************************************)
LEMMA ReleaseKeeps ==
    ASSUME Inv, NEW w \in Worker, Release(w)
    PROVE  Inv'
<1> DEFINE q == ProcessOf[w]
           p == path[w]
           r == ref[w]
<1>1. /\ pc[w] = "using" /\ p \in Path /\ r \in Ref /\ q \in Process
      /\ active[q][p] = r /\ heap[r].owner = w /\ r # NoRef
  BY WorkspaceAssumption DEF Release, Inv, TypeOK, LockInv, EntryStays, HolderOwns,
     Attached, Holding, InDirectory
<1>2. /\ heap' = [heap EXCEPT ![r].count = @ - 1]
      /\ active' = IF heap[r].count = 1 THEN [active EXCEPT ![q][p] = NoRef] ELSE active
      /\ ref' = [ref EXCEPT ![w] = r]
      /\ pc' = [pc EXCEPT ![w] = "unlocking"]
      /\ UNCHANGED <<path, disk, doomed>>
  BY <1>1 DEF Release, LastReference, Goto
<1>3. UNCHANGED ref
  BY <1>2 DEF Inv, TypeOK
<1>4. pc'[w] = "unlocking" /\ \A v \in Worker : v # w => pc'[v] = pc[v]
  BY <1>2 DEF Inv, TypeOK
<1>5. w \in Users(q, p)
  BY <1>1 DEF Users, Attached, InDirectory
<1>6. /\ Users(q, p)' = Users(q, p) \ {w}
      /\ \A s \in Process, o \in Path :
            <<s, o>> # <<q, p>> => Users(s, o)' = Users(s, o)
  <2>1. pc'[w] \notin Attached
    BY <1>4 DEF Attached, InDirectory
  <2> QED
    BY <1>2, <1>4, <2>1 DEF Users
<1>7. /\ Cardinality(Users(q, p)) \in Nat
      /\ Cardinality(Users(q, p)') = Cardinality(Users(q, p)) - 1
      /\ Cardinality(Users(q, p)) <= heap[r].count
      /\ heap[r].count \in Nat
      /\ Cardinality(Users(q, p)') \in Nat
  <2>1. IsFiniteSet(Users(q, p)) /\ Cardinality(Users(q, p)) \in Nat
    BY UsersFinite
  <2>2. /\ IsFiniteSet(Users(q, p) \ {w})
        /\ Cardinality(Users(q, p) \ {w}) = Cardinality(Users(q, p)) - 1
    BY <1>5, <2>1, FS_RemoveElement
  <2>3. Cardinality(Users(q, p) \ {w}) \in Nat
    BY <2>2, FS_CardinalityType
  <2> QED
    BY <1>1, <1>6, <2>1, <2>2, <2>3 DEF Inv, TypeOK, LockInv, CountCovers
<1>8. heap[r].count - 1 \in Nat
  BY <1>7
<1>9. /\ heap' \in [Ref -> [count : Nat, owner : Worker \cup {NoWorker}]]
      /\ heap'[r].count = heap[r].count - 1
      /\ \A s \in Ref : heap'[s].owner = heap[s].owner
      /\ \A s \in Ref : s # r => heap'[s] = heap[s]
  BY <1>1, <1>2, <1>8 DEF Inv, TypeOK
<1>10. /\ active' \in [Process -> [Path -> Ref \cup {NoRef}]]
       /\ active'[q][p] = IF heap[r].count = 1 THEN NoRef ELSE r
       /\ \A s \in Process, o \in Path : <<s, o>> # <<q, p>> => active'[s][o] = active[s][o]
  BY <1>1, <1>2 DEF Inv, TypeOK
<1>11. TypeOK'
  BY <1>1, <1>2, <1>3, <1>4, <1>9, <1>10 DEF Inv, TypeOK, PC
<1>12. EntryStays'
  <2> SUFFICES ASSUME NEW v \in Worker, pc'[v] \in Attached
               PROVE  active'[ProcessOf[v]][path[v]] = ref[v]
    BY <1>2, <1>3 DEF EntryStays
  <2>1. /\ v # w /\ pc[v] \in Attached
        /\ path[v] \in Path /\ ProcessOf[v] \in Process
        /\ active[ProcessOf[v]][path[v]] = ref[v]
    BY <1>4, WorkspaceAssumption DEF Inv, TypeOK, LockInv, EntryStays, Attached, InDirectory
  <2>2. CASE <<ProcessOf[v], path[v]>> = <<q, p>>
    <3>1. v \in Users(q, p)'
      BY <1>2, <2>2 DEF Users
    <3>2. Cardinality(Users(q, p)') # 0
      BY <1>6, <3>1, UsersFinite, FS_RemoveElement, FS_EmptySet
    <3>3. heap[r].count # 1
      BY <1>7, <3>2
    <3> QED
      BY <1>1, <1>10, <2>1, <2>2, <3>3
  <2>3. CASE <<ProcessOf[v], path[v]>> # <<q, p>>
    BY <1>10, <2>1, <2>3
  <2> QED
    BY <2>2, <2>3
<1>13. HolderOwns'
  <2> SUFFICES ASSUME NEW v \in Worker, pc'[v] \in Holding
               PROVE  heap'[ref[v]].owner = v
    BY <1>3 DEF HolderOwns
  <2>1. pc[v] \in Holding
    BY <1>1, <1>4 DEF Holding, InDirectory
  <2> QED
    BY <1>9, <2>1 DEF Inv, TypeOK, LockInv, HolderOwns, Holding, InDirectory
<1>14. OneEntry'
  BY <1>1, <1>10 DEF Inv, LockInv, OneEntry
<1>15. ASSUME NEW s \in Process, NEW o \in Path, active'[s][o] # NoRef
       PROVE  Cardinality(Users(s, o)') <= heap'[active'[s][o]].count
  <2>1. CASE <<s, o>> = <<q, p>>
    <3>1. s = q /\ o = p
      BY <2>1
    <3>2. active'[s][o] = r
      BY <1>10, <1>15, <3>1
    <3>3. Cardinality(Users(q, p)') <= heap'[r].count
      BY <1>7, <1>9
    <3> QED
      BY <1>2, <3>1, <3>2, <3>3
  <2>2. CASE <<s, o>> # <<q, p>>
    <3>1. /\ active'[s][o] = active[s][o] /\ active[s][o] \in Ref
          /\ active[s][o] # r
      BY <1>1, <1>10, <1>15, <2>2 DEF Inv, TypeOK, LockInv, OneEntry
    <3> QED
      BY <1>6, <1>9, <1>15, <2>2, <3>1 DEF Inv, LockInv, CountCovers
  <2> QED
    BY <2>1, <2>2
<1> QED
  BY <1>11, <1>12, <1>13, <1>14, <1>15 DEF Inv, LockInv, CountCovers

(***************************************************************************)
(* A crash forgets one process and leaves the others as they are.          *)
(***************************************************************************)
LEMMA CrashKeeps ==
    ASSUME Inv, NEW q \in Process, Crash(q)
    PROVE  Inv'
<1>1. /\ active' = [active EXCEPT ![q] = [p \in Path |-> NoRef]]
      /\ pc' = [w \in Worker |-> IF ProcessOf[w] = q THEN "idle" ELSE pc[w]]
      /\ path' = [w \in Worker |-> IF ProcessOf[w] = q THEN NoPath ELSE path[w]]
      /\ ref' = [w \in Worker |-> IF ProcessOf[w] = q THEN NoRef ELSE ref[w]]
      /\ doomed' = [doomed EXCEPT ![q] = NoPath]
      /\ UNCHANGED <<heap, disk>>
  BY DEF Crash
<1>2. /\ active' \in [Process -> [Path -> Ref \cup {NoRef}]]
      /\ \A s \in Process, o \in Path : active'[s][o] = IF s = q THEN NoRef ELSE active[s][o]
  BY <1>1 DEF Inv, TypeOK
<1>3. \A w \in Worker : IF ProcessOf[w] = q
                        THEN pc'[w] = "idle"
                        ELSE pc'[w] = pc[w] /\ path'[w] = path[w] /\ ref'[w] = ref[w]
  BY <1>1
<1>4. TypeOK'
  BY <1>1, <1>2, <1>3 DEF Inv, TypeOK, PC
<1>5. \A w \in Worker : pc'[w] \in Attached \cup Holding => ProcessOf[w] # q
  BY <1>3 DEF Attached, Holding, InDirectory
<1>6. EntryStays'
  <2> SUFFICES ASSUME NEW v \in Worker, pc'[v] \in Attached
               PROVE  active'[ProcessOf[v]][path'[v]] = ref'[v]
    BY DEF EntryStays
  <2>1. /\ ProcessOf[v] # q /\ ProcessOf[v] \in Process
        /\ pc[v] \in Attached /\ path[v] \in Path
        /\ path'[v] = path[v] /\ ref'[v] = ref[v]
    BY <1>3, <1>5, WorkspaceAssumption DEF Inv, TypeOK, Attached, InDirectory
  <2> QED
    BY <1>2, <2>1 DEF Inv, LockInv, EntryStays
<1>7. HolderOwns'
  BY <1>1, <1>3, <1>5 DEF Inv, LockInv, HolderOwns
<1>8. OneEntry'
  BY <1>2 DEF Inv, LockInv, OneEntry
<1>9. ASSUME NEW s \in Process, NEW o \in Path, active'[s][o] # NoRef
      PROVE  Cardinality(Users(s, o)') <= heap'[active'[s][o]].count
  <2>1. s # q /\ active'[s][o] = active[s][o]
    BY <1>2, <1>9
  <2>2. Users(s, o)' = Users(s, o)
    BY <1>3, <2>1 DEF Users
  <2> QED
    BY <1>1, <1>9, <2>1, <2>2 DEF Inv, LockInv, CountCovers
<1> QED
  BY <1>4, <1>6, <1>7, <1>8, <1>9 DEF Inv, LockInv, CountCovers

-----------------------------------------------------------------------------
(* The main results.                                                       *)

(***************************************************************************)
(* Steps on the disk leave every mutex and every count alone.              *)
(***************************************************************************)
LEMMA NextInv == Inv /\ [Next]_vars => Inv'
<1> SUFFICES ASSUME Inv, [Next]_vars PROVE Inv'
  OBVIOUS
<1>1. ASSUME NEW w \in Worker, AcquireInMemory(w) \/ ReleaseInMemory(w)
      PROVE  Inv'
  <2>1. PICK label \in {"idle", "memory"} : Goto(w, label)
    BY <1>1 DEF AcquireInMemory, ReleaseInMemory
  <2>2. /\ pc[w] \in {"idle", "memory"}
        /\ UNCHANGED <<active, heap, disk, path, ref, doomed>>
    BY <1>1 DEF AcquireInMemory, ReleaseInMemory
  <2>3. LockInv'
    BY <2>1, <2>2, MovingOn DEF PC
  <2>4. TypeOK'
    BY <2>1, <2>2 DEF Inv, TypeOK, Goto, PC
  <2> QED
    BY <2>3, <2>4 DEF Inv
<1>2. ASSUME NEW w \in Worker, NEW label \in {"idle", "memory"},
             pc[w] \in Holding, GiveBack(w), Return(w, label),
             UNCHANGED <<active, doomed>>, disk' \in [Path -> Disk]
      PROVE  Inv'
  <2>1. /\ LockInv'
        /\ heap' \in [Ref -> [count : Nat, owner : Worker \cup {NoWorker}]]
    BY <1>2, Leaving
  <2>2. TypeOK'
    BY <1>2, <2>1 DEF Inv, TypeOK, Return, Goto, PC
  <2> QED
    BY <2>1, <2>2 DEF Inv
<1>3. ASSUME NEW w \in Worker, NEW label \in InDirectory, pc[w] \in InDirectory,
             Goto(w, label), UNCHANGED <<active, heap, path, ref, doomed>>,
             disk' \in [Path -> Disk]
      PROVE  Inv'
  <2>1. LockInv'
    BY <1>3, MovingOn DEF PC, InDirectory
  <2>2. TypeOK'
    BY <1>3 DEF Inv, TypeOK, Goto, PC, InDirectory
  <2> QED
    BY <2>1, <2>2 DEF Inv
<1>4. ASSUME NEW w \in Worker, OpenCache(w)
      PROVE  Inv'
  <2>1. pc[w] \in InDirectory /\ pc[w] \in Holding
    BY <1>4 DEF OpenCache, InDirectory, Holding
  <2>2. UNCHANGED <<active, disk, doomed>> /\ disk' \in [Path -> Disk]
    BY <1>4 DEF OpenCache, Inv, TypeOK
  <2>3. CASE Goto(w, "fetching") /\ UNCHANGED <<heap, path, ref>>
    BY <1>3, <2>1, <2>2, <2>3 DEF InDirectory
  <2>4. CASE GiveBack(w) /\ Return(w, "idle")
    BY <1>2, <2>1, <2>2, <2>4
  <2> QED
    BY <1>4, <2>3, <2>4 DEF OpenCache
<1>5. ASSUME NEW w \in Worker, FetchCache(w)
      PROVE  Inv'
  <2>1. pc[w] \in InDirectory /\ pc[w] \in Holding
    BY <1>5 DEF FetchCache, InDirectory, Holding
  <2>2. UNCHANGED <<active, doomed>> /\ disk' \in [Path -> Disk]
    BY <1>5, DiskType DEF FetchCache, Inv, TypeOK
  <2>3. CASE Goto(w, "using") /\ UNCHANGED <<heap, path, ref>>
    BY <1>3, <2>1, <2>2, <2>3 DEF InDirectory
  <2>4. CASE GiveBack(w) /\ Return(w, "memory")
    BY <1>2, <2>1, <2>2, <2>4
  <2> QED
    BY <1>5, <2>3, <2>4 DEF FetchCache
<1>6. ASSUME NEW w \in Worker, MakeDirectory(w)
      PROVE  Inv'
  <2>1. pc[w] \in InDirectory /\ pc[w] \in Holding
    BY <1>6 DEF MakeDirectory, InDirectory, Holding
  <2>2. UNCHANGED <<active, doomed>> /\ disk' \in [Path -> Disk]
    BY <1>6 DEF MakeDirectory, Inv, TypeOK, Disk
  <2>3. CASE Goto(w, "cloning") /\ UNCHANGED <<heap, path, ref>>
    BY <1>3, <2>1, <2>2, <2>3 DEF InDirectory
  <2>4. CASE GiveBack(w) /\ Return(w, "idle")
    BY <1>2, <2>1, <2>2, <2>4
  <2> QED
    BY <1>6, <2>3, <2>4 DEF MakeDirectory
<1>7. ASSUME NEW w \in Worker, StartClone(w) \/ FinishClone(w)
      PROVE  Inv'
  <2>1. pc[w] \in InDirectory
    BY <1>7 DEF StartClone, FinishClone, InDirectory
  <2>2. UNCHANGED <<active, heap, path, ref, doomed>> /\ disk' \in [Path -> Disk]
    BY <1>7 DEF StartClone, FinishClone, CloneFails, Inv, TypeOK, Disk
  <2>3. \E label \in InDirectory : Goto(w, label)
    BY <1>7 DEF StartClone, FinishClone, CloneFails, InDirectory
  <2> QED
    BY <1>3, <2>1, <2>2, <2>3
<1>8. ASSUME NEW w \in Worker, RemoveClone(w)
      PROVE  Inv'
  <2>1. /\ pc[w] \in Holding /\ GiveBack(w) /\ Return(w, "memory")
        /\ UNCHANGED <<active, doomed>> /\ disk' \in [Path -> Disk]
    BY <1>8, DiskType DEF RemoveClone, InDirectory, Holding, Inv, TypeOK
  <2> QED
    BY <1>2, <2>1
<1>9. ASSUME NEW w \in Worker, Unlock(w)
      PROVE  Inv'
  <2>1. /\ pc[w] \in Holding /\ GiveBack(w) /\ Return(w, "idle")
        /\ UNCHANGED <<active, doomed>> /\ disk' \in [Path -> Disk]
    BY <1>9 DEF Unlock, Holding, Inv, TypeOK
  <2> QED
    BY <1>2, <2>1
<1>10. ASSUME UNCHANGED <<active, heap, pc, path, ref>>,
              disk' \in [Path -> Disk], doomed' \in [Process -> Path \cup {NoPath}]
       PROVE  Inv'
  <2>1. \A q \in Process, p \in Path : Users(q, p)' = Users(q, p)
    BY <1>10 DEF Users
  <2>2. EntryStays' /\ HolderOwns' /\ OneEntry'
    BY <1>10 DEF Inv, LockInv, EntryStays, HolderOwns, OneEntry
  <2>3. CountCovers'
    BY <1>10, <2>1 DEF Inv, LockInv, CountCovers
  <2>4. TypeOK'
    BY <1>10 DEF Inv, TypeOK
  <2> QED
    BY <2>2, <2>3, <2>4 DEF Inv, LockInv
<1>11. ASSUME NEW q \in Process, NEW p \in Path, CheckStale(q, p)
       PROVE  Inv'
  BY <1>10, <1>11 DEF CheckStale, Inv, TypeOK
<1>12. ASSUME NEW q \in Process, RemoveStale(q)
       PROVE  Inv'
  <2>1. UNCHANGED <<active, heap, pc, path, ref>>
    BY <1>12 DEF RemoveStale
  <2>2. disk' \in [Path -> Disk] /\ doomed' \in [Process -> Path \cup {NoPath}]
    BY <1>12, DiskType DEF RemoveStale, Inv, TypeOK
  <2> QED
    BY <1>10, <2>1, <2>2
<1>13. CASE UNCHANGED vars
  BY <1>10, <1>13 DEF vars, Inv, TypeOK
<1>14. ASSUME NEW w \in Worker, Deepen(w)
       PROVE  Inv'
  BY <1>10, <1>14 DEF Deepen, Inv, TypeOK, Disk
<1> QED
  BY <1>1, <1>4, <1>5, <1>6, <1>7, <1>8, <1>9, <1>11, <1>12, <1>13, <1>14,
     GetRefInv, LockKeeps, ReleaseKeeps, CrashKeeps DEF Next, Continue

LEMMA AlwaysInv == Spec => []Inv
BY InitInv, NextInv, PTL DEF Spec

(***************************************************************************)
(* Every variable keeps its type; counts never go below zero.              *)
(***************************************************************************)
THEOREM WorkspaceTypes == Spec => []TypeOK
<1>1. Inv => TypeOK
  BY DEF Inv
<1> QED
  BY <1>1, AlwaysInv, PTL

LEMMA InvExclusive == Inv => Exclusive
<1> SUFFICES ASSUME Inv, NEW v \in Worker, NEW w \in Worker, v # w,
                    ProcessOf[v] = ProcessOf[w],
                    pc[v] \in InDirectory, pc[w] \in InDirectory, path[v] = path[w]
             PROVE  FALSE
  BY DEF Exclusive
<1>1. ref[v] = ref[w]
  BY DEF Inv, LockInv, EntryStays, Attached
<1>2. heap[ref[v]].owner = v /\ heap[ref[w]].owner = w
  BY DEF Inv, LockInv, HolderOwns, Holding
<1> QED
  BY <1>1, <1>2

(***************************************************************************)
(* The goroutines of a process take turns in each directory.               *)
(***************************************************************************)
THEOREM MutualExclusion == Spec => []Exclusive
BY InvExclusive, AlwaysInv, PTL

(***************************************************************************)
(* Nobody unlocks a mutex that another goroutine owns.                     *)
(***************************************************************************)
THEOREM UnlockedByOwner == Spec => []UnlocksOwn
<1>1. Inv => UnlocksOwn
  BY DEF Inv, LockInv, HolderOwns, Holding, UnlocksOwn
<1> QED
  BY <1>1, AlwaysInv, PTL

-----------------------------------------------------------------------------
(* No mutex is left locked.                                                *)

(* A ref object serves one path of one process as long as anybody has it. *)
RefsApart ==
    /\ \A u, v \in Worker :
          ref[u] # NoRef /\ ref[u] = ref[v] => ProcessOf[u] = ProcessOf[v] /\ path[u] = path[v]
    /\ \A u \in Worker, q \in Process, p \in Path :
          ref[u] # NoRef /\ active[q][p] = ref[u] => q = ProcessOf[u] /\ p = path[u]

(* The owner of a mutex anybody can get at is a worker that holds it. *)
OwnerHolds ==
    \A r \in Ref \ Unreferenced :
        LET v == heap[r].owner IN v # NoWorker => pc[v] \in Holding /\ ref[v] = r

HoldInv == RefsApart /\ OwnerHolds

LEMMA NoneAppears ==
    ASSUME UNCHANGED <<active, ref>>
    PROVE  Unreferenced' = Unreferenced
BY DEF Unreferenced

(* A worker moves on, holding a mutex as before. *)
LEMMA HoldMovingOn ==
    ASSUME Inv, HoldInv, UNCHANGED <<active, heap, path, ref>>,
           \A v \in Worker : pc[v] \in Holding => pc'[v] \in Holding
    PROVE  HoldInv'
<1>1. RefsApart'
  BY DEF HoldInv, RefsApart
<1>2. OwnerHolds'
  BY NoneAppears DEF HoldInv, OwnerHolds, Inv, TypeOK
<1> QED
  BY <1>1, <1>2 DEF HoldInv

LEMMA HoldLeaving ==
    ASSUME Inv, HoldInv, NEW w \in Worker, NEW label \in {"idle", "memory"},
           pc[w] \in Holding, GiveBack(w), Return(w, label), UNCHANGED active
    PROVE  HoldInv'
<1> DEFINE r == ref[w]
<1>1. r \in Ref /\ path[w] \in Path /\ heap[r].owner = w
  BY DEF Inv, TypeOK, LockInv, HolderOwns, Holding, InDirectory
<1>2. /\ pc'[w] = label /\ ref'[w] = NoRef
      /\ \A v \in Worker : v # w => pc'[v] = pc[v] /\ path'[v] = path[v] /\ ref'[v] = ref[v]
  BY DEF GiveBack, Return, Goto, Inv, TypeOK
<1>3. /\ heap'[r].owner = NoWorker
      /\ \A s \in Ref : s # r => heap'[s] = heap[s]
  BY <1>1 DEF GiveBack, Inv, TypeOK
<1>4. RefsApart'
  BY <1>2 DEF HoldInv, RefsApart
<1>5. OwnerHolds'
  <2> SUFFICES ASSUME NEW s \in Ref, s \notin Unreferenced', heap'[s].owner # NoWorker
               PROVE  /\ pc'[heap'[s].owner] \in Holding
                      /\ ref'[heap'[s].owner] = s
    BY DEF OwnerHolds
  <2>1. s # r /\ heap'[s] = heap[s]
    BY <1>3
  <2>2. s \notin Unreferenced
    BY <1>2, <2>1, WorkspaceAssumption DEF Unreferenced
  <2>3. pc[heap[s].owner] \in Holding /\ ref[heap[s].owner] = s
    BY <2>1, <2>2 DEF HoldInv, OwnerHolds
  <2>4. heap[s].owner # w /\ heap[s].owner \in Worker
    BY <2>1, <2>3 DEF Inv, TypeOK
  <2> QED
    BY <1>2, <2>1, <2>3, <2>4
<1> QED
  BY <1>4, <1>5 DEF HoldInv

LEMMA HoldGetRef ==
    ASSUME Inv, HoldInv, NEW w \in Worker, NEW p \in Path, GetRef(w, p)
    PROVE  HoldInv'
<1> DEFINE q == ProcessOf[w]
<1>1. PICK r \in Ref :
        /\ \/ /\ active[q][p] = r
              /\ heap' = [heap EXCEPT ![r].count = @ + 1]
           \/ /\ active[q][p] = NoRef
              /\ r \in Unreferenced
              /\ heap' = [heap EXCEPT ![r] = [NewRef EXCEPT !.count = 1]]
        /\ active' = [active EXCEPT ![q][p] = r]
        /\ ref' = [ref EXCEPT ![w] = r]
  BY DEF GetRef, Count
<1>2. q \in Process /\ r # NoRef
  BY WorkspaceAssumption
<1>3. /\ pc[w] = "idle" /\ pc'[w] = "waiting" /\ path'[w] = p /\ ref'[w] = r
      /\ \A v \in Worker : v # w => pc'[v] = pc[v] /\ path'[v] = path[v] /\ ref'[v] = ref[v]
  BY <1>1 DEF GetRef, Goto, Inv, TypeOK
<1>4. /\ active'[q][p] = r
      /\ \A s \in Process, o \in Path : <<s, o>> # <<q, p>> => active'[s][o] = active[s][o]
  BY <1>1, <1>2 DEF Inv, TypeOK
<1>5. \/ active[q][p] = r
      \/ /\ \A v \in Worker : ref[v] # r
         /\ \A s \in Process, o \in Path : active[s][o] # r
  BY <1>1 DEF Unreferenced
<1>6. \A v \in Worker : v # w /\ ref[v] = r => ProcessOf[v] = q /\ path[v] = p
  BY <1>2, <1>5 DEF HoldInv, RefsApart
<1>7. \A s \in Process, o \in Path : active[s][o] = r => s = q /\ o = p
  BY <1>2, <1>5 DEF Inv, LockInv, OneEntry
<1>8. RefsApart'
  <2>1. ASSUME NEW u \in Worker, NEW v \in Worker, ref'[u] # NoRef, ref'[u] = ref'[v]
        PROVE  ProcessOf[u] = ProcessOf[v] /\ path'[u] = path'[v]
    BY <1>3, <1>6, <2>1 DEF HoldInv, RefsApart
  <2>2. ASSUME NEW u \in Worker, NEW s \in Process, NEW o \in Path,
               ref'[u] # NoRef, active'[s][o] = ref'[u]
        PROVE  s = ProcessOf[u] /\ o = path'[u]
    <3>1. CASE u = w
      BY <1>3, <1>4, <1>7, <2>2, <3>1
    <3>2. CASE u # w
      <4>1. CASE <<s, o>> = <<q, p>>
        BY <1>3, <1>4, <1>6, <2>2, <3>2, <4>1
      <4>2. CASE <<s, o>> # <<q, p>>
        BY <1>3, <1>4, <2>2, <3>2, <4>2 DEF HoldInv, RefsApart
      <4> QED
        BY <4>1, <4>2
    <3> QED
      BY <3>1, <3>2
  <2> QED
    BY <2>1, <2>2 DEF RefsApart
<1>9. OwnerHolds'
  <2> SUFFICES ASSUME NEW s \in Ref, s \notin Unreferenced', heap'[s].owner # NoWorker
               PROVE  /\ pc'[heap'[s].owner] \in Holding
                      /\ ref'[heap'[s].owner] = s
    BY DEF OwnerHolds
  <2>1. heap'[s].owner = heap[s].owner \/ (s = r /\ heap'[s].owner = NoWorker)
    BY <1>1 DEF Inv, TypeOK, NewRef
  <2>2. heap'[s].owner = heap[s].owner /\ heap[s].owner \in Worker
    BY <2>1 DEF Inv, TypeOK
  <2>3. s \notin Unreferenced
    <3>1. CASE s = r
      <4>1. CASE active[q][p] = r
        BY <1>2, <3>1, <4>1 DEF Unreferenced
      <4>2. CASE active[q][p] # r
        BY <1>1, <2>2, <3>1, <4>2, WorkspaceAssumption DEF Inv, TypeOK, NewRef
      <4> QED
        BY <4>1, <4>2
    <3>2. CASE s # r
      <4>1. (\E v \in Worker : ref'[v] = s) \/ \E t \in Process, o \in Path : active'[t][o] = s
        BY DEF Unreferenced
      <4>2. (\E v \in Worker : ref[v] = s) \/ \E t \in Process, o \in Path : active[t][o] = s
        BY <1>3, <1>4, <3>2, <4>1
      <4> QED
        BY <4>2 DEF Unreferenced
    <3> QED
      BY <3>1, <3>2
  <2>4. pc[heap[s].owner] \in Holding /\ ref[heap[s].owner] = s
    BY <2>2, <2>3 DEF HoldInv, OwnerHolds
  <2>5. heap[s].owner # w
    BY <1>3, <2>4 DEF Holding, InDirectory
  <2> QED
    BY <1>3, <2>2, <2>4, <2>5
<1> QED
  BY <1>8, <1>9 DEF HoldInv

LEMMA HoldLock ==
    ASSUME Inv, HoldInv, NEW w \in Worker, Lock(w)
    PROVE  HoldInv'
<1>1. /\ pc[w] = "waiting" /\ ref[w] \in Ref
      /\ pc'[w] = "locked" /\ \A v \in Worker : v # w => pc'[v] = pc[v]
      /\ UNCHANGED <<active, path, ref>>
  BY DEF Lock, Goto, Inv, TypeOK
<1>2. /\ heap'[ref[w]].owner = w
      /\ \A s \in Ref : s # ref[w] => heap'[s] = heap[s]
  BY <1>1 DEF Lock, Inv, TypeOK
<1>3. RefsApart'
  BY <1>1 DEF HoldInv, RefsApart
<1>4. OwnerHolds'
  <2> SUFFICES ASSUME NEW s \in Ref, s \notin Unreferenced, heap'[s].owner # NoWorker
               PROVE  /\ pc'[heap'[s].owner] \in Holding
                      /\ ref[heap'[s].owner] = s
    BY <1>1, NoneAppears DEF OwnerHolds
  <2>1. CASE s = ref[w]
    BY <1>1, <1>2, <2>1 DEF Holding, InDirectory
  <2>2. CASE s # ref[w]
    <3>1. pc[heap[s].owner] \in Holding /\ ref[heap[s].owner] = s
      BY <1>2, <2>2 DEF HoldInv, OwnerHolds
    <3>2. heap[s].owner # w /\ heap[s].owner \in Worker
      BY <1>2, <2>2, <3>1 DEF Inv, TypeOK
    <3> QED
      BY <1>1, <1>2, <2>2, <3>1, <3>2
  <2> QED
    BY <2>1, <2>2
<1> QED
  BY <1>3, <1>4 DEF HoldInv

(* Release finds its own entry, so that the mutex it goes on to unlock is its own. *)
LEMMA HoldRelease ==
    ASSUME Inv, HoldInv, NEW w \in Worker, Release(w)
    PROVE  HoldInv'
<1> DEFINE q == ProcessOf[w]
           p == path[w]
           r == ref[w]
<1>1. /\ pc[w] = "using" /\ p \in Path /\ r \in Ref /\ q \in Process
      /\ active[q][p] = r /\ r # NoRef
  BY WorkspaceAssumption DEF Release, Inv, TypeOK, LockInv, EntryStays, Attached, InDirectory
<1>2. /\ heap' = [heap EXCEPT ![r].count = @ - 1]
      /\ active' = IF heap[r].count = 1 THEN [active EXCEPT ![q][p] = NoRef] ELSE active
      /\ ref' = ref
      /\ pc' = [pc EXCEPT ![w] = "unlocking"]
      /\ path' = path
  BY <1>1 DEF Release, LastReference, Goto, Inv, TypeOK
<1>3. \A s \in Process, o \in Path : active'[s][o] = active[s][o] \/ active'[s][o] = NoRef
  BY <1>1, <1>2 DEF Inv, TypeOK
<1>4. \A s \in Ref : heap'[s].owner = heap[s].owner
  BY <1>1, <1>2 DEF Inv, TypeOK
<1>5. \A v \in Worker : pc[v] \in Holding => pc'[v] \in Holding
  BY <1>1, <1>2 DEF Holding, Inv, TypeOK
<1>6. RefsApart'
  BY <1>2, <1>3 DEF HoldInv, RefsApart
<1>7. OwnerHolds'
  <2>1. \A s \in Ref : s \notin Unreferenced' => s \notin Unreferenced
    BY <1>2, <1>3, WorkspaceAssumption DEF Unreferenced
  <2> QED
    BY <1>2, <1>4, <1>5, <2>1 DEF HoldInv, OwnerHolds, Inv, TypeOK
<1> QED
  BY <1>6, <1>7 DEF HoldInv

(***************************************************************************)
(* The refs of a process that dies are gone with it: nobody else had them. *)
(***************************************************************************)
LEMMA HoldCrash ==
    ASSUME Inv, HoldInv, NEW q \in Process, Crash(q)
    PROVE  HoldInv'
<1>1. /\ \A s \in Process, o \in Path : active'[s][o] = IF s = q THEN NoRef ELSE active[s][o]
      /\ \A w \in Worker : IF ProcessOf[w] = q
                           THEN pc'[w] = "idle" /\ ref'[w] = NoRef
                           ELSE pc'[w] = pc[w] /\ path'[w] = path[w] /\ ref'[w] = ref[w]
      /\ UNCHANGED heap
  BY DEF Crash, Inv, TypeOK
<1>2. RefsApart'
  BY <1>1 DEF HoldInv, RefsApart
<1>3. OwnerHolds'
  <2> SUFFICES ASSUME NEW r \in Ref, r \notin Unreferenced', heap[r].owner # NoWorker
               PROVE  /\ pc'[heap[r].owner] \in Holding
                      /\ ref'[heap[r].owner] = r
    BY <1>1 DEF OwnerHolds
  <2> DEFINE v == heap[r].owner
  <2>1. \/ \E u \in Worker : ProcessOf[u] # q /\ ref[u] = r
        \/ \E s \in Process, o \in Path : s # q /\ active[s][o] = r
    BY <1>1, WorkspaceAssumption DEF Unreferenced
  <2>2. r \notin Unreferenced /\ r # NoRef
    BY <2>1, WorkspaceAssumption DEF Unreferenced
  <2>3. v \in Worker /\ pc[v] \in Holding /\ ref[v] = r
    BY <2>2 DEF HoldInv, OwnerHolds, Inv, TypeOK
  <2>4. ProcessOf[v] # q
    BY <2>1, <2>2, <2>3 DEF HoldInv, RefsApart
  <2> QED
    BY <1>1, <2>3, <2>4
<1> QED
  BY <1>2, <1>3 DEF HoldInv

LEMMA NextHold == Inv /\ HoldInv /\ [Next]_vars => HoldInv'
<1> SUFFICES ASSUME Inv, HoldInv, [Next]_vars PROVE HoldInv'
  OBVIOUS
<1>1. ASSUME NEW w \in Worker, Continue(w), ~Release(w)
      PROVE  HoldInv'
  <2>1. \/ /\ UNCHANGED <<active, heap, path, ref>>
           /\ \A v \in Worker : pc[v] \in Holding => pc'[v] \in Holding
        \/ /\ pc[w] \in Holding /\ GiveBack(w) /\ UNCHANGED active
           /\ \E label \in {"idle", "memory"} : Return(w, label)
    BY <1>1 DEF Continue, ReleaseInMemory, OpenCache, FetchCache, MakeDirectory, StartClone,
       FinishClone, CloneFails, RemoveClone, Unlock, Goto, Holding, InDirectory, Inv, TypeOK
  <2> QED
    BY <2>1, HoldMovingOn, HoldLeaving
<1>2. ASSUME NEW w \in Worker, AcquireInMemory(w) \/ Deepen(w)
      PROVE  HoldInv'
  BY <1>2, HoldMovingOn DEF AcquireInMemory, Deepen, Goto, Holding, InDirectory, Inv, TypeOK
<1>3. ASSUME NEW q \in Process, (\E p \in Path : CheckStale(q, p)) \/ RemoveStale(q)
      PROVE  HoldInv'
  BY <1>3, HoldMovingOn DEF CheckStale, RemoveStale
<1>4. CASE UNCHANGED vars
  BY <1>4, HoldMovingOn DEF vars
<1> QED
  BY <1>1, <1>2, <1>3, <1>4, HoldGetRef, HoldLock, HoldRelease, HoldCrash DEF Next, Continue

LEMMA AlwaysHold == Spec => []HoldInv
<1>1. Init => HoldInv
  BY DEF Init, HoldInv, RefsApart, OwnerHolds, NewRef
<1> QED
  BY <1>1, NextHold, AlwaysInv, PTL DEF Spec

(***************************************************************************)
(* Whoever waits for a mutex waits for a goroutine that is still in the    *)
(* directory, or about to unlock: Acquire and Release leave none locked on *)
(* any of their ways out, and neither does a crash.                        *)
(***************************************************************************)
THEOREM WaitsEnd == Spec => []WaitsForHolder
<1>1. Inv /\ HoldInv => WaitsForHolder
  <2> SUFFICES ASSUME Inv, HoldInv, NEW w \in Worker, pc[w] = "waiting",
                      heap[ref[w]].owner # NoWorker
               PROVE  LET v == heap[ref[w]].owner IN
                        /\ ProcessOf[v] = ProcessOf[w]
                        /\ path[v] = path[w]
                        /\ pc[v] \in InDirectory \cup {"unlocking"}
    BY DEF WaitsForHolder
  <2> DEFINE v == heap[ref[w]].owner
  <2>1. ref[w] \in Ref /\ ref[w] # NoRef /\ v \in Worker
    BY WorkspaceAssumption DEF Inv, TypeOK
  <2>2. ref[w] \notin Unreferenced
    BY DEF Unreferenced
  <2>3. pc[v] \in Holding /\ ref[v] = ref[w]
    BY <2>1, <2>2 DEF HoldInv, OwnerHolds
  <2> QED
    BY <2>1, <2>3 DEF HoldInv, RefsApart, Holding
<1> QED
  BY <1>1, AlwaysInv, AlwaysHold, PTL

-----------------------------------------------------------------------------
(* Counts.                                                                 *)

(* No Acquire gives up, by an error or a clone in memory, once it has counted. *)
NoAcquireFails ==
    \A w \in Worker :
        pc[w] \in InDirectory \ {"using"} /\ pc'[w] \in {"idle", "memory"} =>
            Crash(ProcessOf[w])

(* Entries count their users, and have some. *)
CountsExact ==
    \A q \in Process, p \in Path :
        active[q][p] # NoRef =>
            /\ Users(q, p) # {}
            /\ heap[active[q][p]].count = Cardinality(Users(q, p))

LEMMA ExactSame ==
    ASSUME Inv, CountsExact, UNCHANGED <<active, path>>,
           \A r \in Ref : heap'[r].count = heap[r].count,
           \A v \in Worker : pc'[v] \in Attached <=> pc[v] \in Attached
    PROVE  CountsExact'
<1>1. \A q \in Process, p \in Path : Users(q, p)' = Users(q, p)
  BY DEF Users
<1> QED
  BY <1>1 DEF CountsExact, Inv, TypeOK

LEMMA ExactGetRef ==
    ASSUME Inv, CountsExact, NEW w \in Worker, NEW p \in Path, GetRef(w, p)
    PROVE  CountsExact'
<1> DEFINE q == ProcessOf[w]
<1>1. PICK r \in Ref :
        /\ \/ /\ active[q][p] = r
              /\ heap' = [heap EXCEPT ![r].count = @ + 1]
           \/ /\ active[q][p] = NoRef
              /\ r \in Unreferenced
              /\ heap' = [heap EXCEPT ![r] = [NewRef EXCEPT !.count = 1]]
        /\ active' = [active EXCEPT ![q][p] = r]
  BY DEF GetRef, Count
<1>2. q \in Process /\ r # NoRef
  BY WorkspaceAssumption
<1>3. /\ pc[w] = "idle" /\ pc'[w] = "waiting" /\ path'[w] = p
      /\ \A v \in Worker : v # w => pc'[v] = pc[v] /\ path'[v] = path[v]
  BY DEF GetRef, Goto, Inv, TypeOK
<1>4. /\ active'[q][p] = r
      /\ \A s \in Process, o \in Path : <<s, o>> # <<q, p>> => active'[s][o] = active[s][o]
  BY <1>1, <1>2 DEF Inv, TypeOK
<1>5. \A s \in Process, o \in Path : <<s, o>> # <<q, p>> => active[s][o] # r
  BY <1>1, <1>2 DEF Unreferenced, Inv, LockInv, OneEntry
<1>6. /\ Users(q, p)' = Users(q, p) \cup {w} /\ w \notin Users(q, p)
      /\ \A s \in Process, o \in Path : <<s, o>> # <<q, p>> => Users(s, o)' = Users(s, o)
  <2>1. "waiting" \in Attached /\ "idle" \notin Attached
    BY DEF Attached, InDirectory
  <2> QED
    BY <1>3, <2>1 DEF Users
<1>7. Cardinality(Users(q, p)') = Cardinality(Users(q, p)) + 1
  <2>1. IsFiniteSet(Users(q, p))
    BY UsersFinite
  <2>2. Cardinality(Users(q, p) \cup {w}) = Cardinality(Users(q, p)) + 1
    BY <1>6, <2>1, FS_AddElement
  <2> QED
    BY <1>6, <2>2
<1>8. heap'[r].count = Cardinality(Users(q, p)')
  <2>1. CASE active[q][p] = r
    <3>1. heap[r].count = Cardinality(Users(q, p))
      BY <1>2, <2>1 DEF CountsExact
    <3>2. heap'[r].count = heap[r].count + 1
      BY <1>1, <1>2, <2>1 DEF Inv, TypeOK
    <3> QED
      BY <1>7, <3>1, <3>2
  <2>2. CASE active[q][p] = NoRef
    <3>1. Users(q, p) = {}
      <4>1. \A v \in Worker : pc[v] \in Attached => ref[v] # NoRef
        BY WorkspaceAssumption DEF Inv, TypeOK, Attached, InDirectory
      <4> QED
        BY <2>2, <4>1 DEF Inv, LockInv, EntryStays, Users
    <3>2. heap'[r].count = 1
      BY <1>1, <1>2, <2>2 DEF Inv, TypeOK, NewRef
    <3> QED
      BY <1>7, <3>1, <3>2, FS_EmptySet
  <2> QED
    BY <1>1, <2>1, <2>2
<1>9. \A s \in Ref : s # r => heap'[s] = heap[s]
  BY <1>1 DEF Inv, TypeOK
<1> QED
  <2> SUFFICES ASSUME NEW s \in Process, NEW o \in Path, active'[s][o] # NoRef
               PROVE  /\ Users(s, o)' # {}
                      /\ heap'[active'[s][o]].count = Cardinality(Users(s, o)')
    BY DEF CountsExact
  <2>1. CASE <<s, o>> = <<q, p>>
    <3>1. s = q /\ o = p
      BY <2>1
    <3> QED
      BY <1>4, <1>6, <1>8, <3>1
  <2>2. CASE <<s, o>> # <<q, p>>
    <3>1. active'[s][o] = active[s][o] /\ active[s][o] # r /\ active[s][o] \in Ref
      BY <1>4, <1>5, <2>2 DEF Inv, TypeOK
    <3> QED
      BY <1>6, <1>9, <2>2, <3>1 DEF CountsExact
  <2> QED
    BY <2>1, <2>2

(* The last user takes the entry along. *)
LEMMA ExactRelease ==
    ASSUME Inv, CountsExact, NEW w \in Worker, Release(w)
    PROVE  CountsExact'
<1> DEFINE q == ProcessOf[w]
           p == path[w]
           r == ref[w]
<1>1. /\ pc[w] = "using" /\ p \in Path /\ r \in Ref /\ q \in Process
      /\ active[q][p] = r /\ r # NoRef
  BY WorkspaceAssumption DEF Release, Inv, TypeOK, LockInv, EntryStays, Attached, InDirectory
<1>2. /\ heap' = [heap EXCEPT ![r].count = @ - 1]
      /\ active' = IF heap[r].count = 1 THEN [active EXCEPT ![q][p] = NoRef] ELSE active
      /\ pc' = [pc EXCEPT ![w] = "unlocking"]
      /\ path' = path
  BY <1>1 DEF Release, LastReference, Goto, Inv, TypeOK
<1>3. /\ Users(q, p)' = Users(q, p) \ {w} /\ w \in Users(q, p)
      /\ \A s \in Process, o \in Path : <<s, o>> # <<q, p>> => Users(s, o)' = Users(s, o)
  <2>1. "using" \in Attached /\ "unlocking" \notin Attached
    BY DEF Attached, InDirectory
  <2>2. pc'[w] = "unlocking" /\ \A v \in Worker : v # w => pc'[v] = pc[v]
    BY <1>2 DEF Inv, TypeOK
  <2> QED
    BY <1>1, <1>2, <2>1, <2>2 DEF Users
<1>4. /\ Cardinality(Users(q, p)') = Cardinality(Users(q, p)) - 1
      /\ heap[r].count = Cardinality(Users(q, p))
      /\ heap[r].count \in Nat
  <2>1. IsFiniteSet(Users(q, p))
    BY UsersFinite
  <2>2. Cardinality(Users(q, p) \ {w}) = Cardinality(Users(q, p)) - 1
    BY <1>3, <2>1, FS_RemoveElement
  <2> QED
    BY <1>1, <1>3, <2>2 DEF CountsExact, Inv, TypeOK
<1>5. /\ heap'[r].count = heap[r].count - 1
      /\ \A s \in Ref : s # r => heap'[s] = heap[s]
  BY <1>1, <1>2 DEF Inv, TypeOK
<1>6. /\ active'[q][p] = IF heap[r].count = 1 THEN NoRef ELSE r
      /\ \A s \in Process, o \in Path : <<s, o>> # <<q, p>> => active'[s][o] = active[s][o]
  BY <1>1, <1>2 DEF Inv, TypeOK
<1> QED
  <2> SUFFICES ASSUME NEW s \in Process, NEW o \in Path, active'[s][o] # NoRef
               PROVE  /\ Users(s, o)' # {}
                      /\ heap'[active'[s][o]].count = Cardinality(Users(s, o)')
    BY DEF CountsExact
  <2>1. CASE <<s, o>> = <<q, p>>
    <3>1. s = q /\ o = p
      BY <2>1
    <3>2. heap[r].count # 1 /\ active'[s][o] = r
      BY <1>6, <3>1
    <3>3. heap'[r].count = Cardinality(Users(q, p)') /\ Cardinality(Users(q, p)') # 0
      BY <1>4, <1>5, <3>2
    <3>4. Users(q, p)' # {}
      BY <3>3, FS_EmptySet
    <3> QED
      BY <1>2, <3>1, <3>2, <3>3, <3>4
  <2>2. CASE <<s, o>> # <<q, p>>
    <3>1. active'[s][o] = active[s][o] /\ active[s][o] # r /\ active[s][o] \in Ref
      BY <1>1, <1>6, <2>2 DEF Inv, TypeOK, LockInv, OneEntry
    <3> QED
      BY <1>3, <1>5, <2>2, <3>1 DEF CountsExact
  <2> QED
    BY <2>1, <2>2

LEMMA ExactCrash ==
    ASSUME Inv, CountsExact, NEW q \in Process, Crash(q)
    PROVE  CountsExact'
<1>1. /\ \A s \in Process, o \in Path : active'[s][o] = IF s = q THEN NoRef ELSE active[s][o]
      /\ \A w \in Worker : ProcessOf[w] # q => pc'[w] = pc[w] /\ path'[w] = path[w]
      /\ UNCHANGED heap
  BY DEF Crash, Inv, TypeOK
<1>2. \A s \in Process, o \in Path : s # q => Users(s, o)' = Users(s, o)
  BY <1>1 DEF Users
<1> QED
  BY <1>1, <1>2 DEF CountsExact

LEMMA NextExact == Inv /\ CountsExact /\ [Next /\ NoAcquireFails]_vars => CountsExact'
<1> SUFFICES ASSUME Inv, CountsExact, [Next /\ NoAcquireFails]_vars PROVE CountsExact'
  OBVIOUS
<1>1. ASSUME NEW w \in Worker, Continue(w), ~Release(w), NoAcquireFails
      PROVE  CountsExact'
  <2>1. /\ \A v \in Worker : v # w => pc'[v] = pc[v] /\ path'[v] = path[v]
        /\ \A r \in Ref : heap'[r].count = heap[r].count
        /\ UNCHANGED active
    <3>1. CASE ReleaseInMemory(w) \/ OpenCache(w) \/ FetchCache(w) \/ MakeDirectory(w)
      BY <3>1 DEF ReleaseInMemory, OpenCache, FetchCache, MakeDirectory,
         GiveBack, Return, Goto, Inv, TypeOK
    <3>2. CASE StartClone(w) \/ FinishClone(w) \/ RemoveClone(w) \/ Unlock(w)
      BY <3>2 DEF StartClone, FinishClone, CloneFails, RemoveClone, Unlock,
         GiveBack, Return, Goto, Inv, TypeOK
    <3> QED
      BY <1>1, <3>1, <3>2 DEF Continue
  <2>2. ~Crash(ProcessOf[w]) \/ CountsExact'
    BY ExactCrash, WorkspaceAssumption
  <2>3. CASE pc[w] \in Attached /\ pc'[w] \in Attached /\ path' = path
    BY <2>1, <2>3, ExactSame
  <2>4. CASE pc[w] \notin Attached /\ pc'[w] \notin Attached
    <3>1. \A q \in Process, p \in Path : Users(q, p)' = Users(q, p)
      BY <2>1, <2>4 DEF Users
    <3> QED
      BY <2>1, <3>1 DEF CountsExact, Inv, TypeOK
  <2>5. CASE pc[w] \in InDirectory \ {"using"} /\ pc'[w] \in {"idle", "memory"}
    BY <1>1, <2>2, <2>5 DEF NoAcquireFails
  <2> QED
    BY <1>1, <2>3, <2>4, <2>5 DEF Continue, ReleaseInMemory, OpenCache, FetchCache, MakeDirectory,
       StartClone, FinishClone, CloneFails, RemoveClone, Unlock, Return, Goto, Attached,
       InDirectory, Inv, TypeOK
<1>2. ASSUME NEW w \in Worker, AcquireInMemory(w) \/ Lock(w) \/ Deepen(w)
      PROVE  CountsExact'
  <2>1. /\ UNCHANGED <<active, path>>
        /\ \A r \in Ref : heap'[r].count = heap[r].count
    BY <1>2 DEF AcquireInMemory, Lock, Deepen, Inv, TypeOK
  <2>2. \A v \in Worker : pc'[v] \in Attached <=> pc[v] \in Attached
    BY <1>2 DEF AcquireInMemory, Lock, Deepen, Goto, Attached, InDirectory, Inv, TypeOK
  <2> QED
    BY <2>1, <2>2, ExactSame
<1>3. ASSUME NEW q \in Process, (\E p \in Path : CheckStale(q, p)) \/ RemoveStale(q)
      PROVE  CountsExact'
  BY <1>3, ExactSame DEF CheckStale, RemoveStale
<1>4. CASE UNCHANGED vars
  BY <1>4, ExactSame DEF vars
<1> QED
  BY <1>1, <1>2, <1>3, <1>4, ExactGetRef, ExactRelease, ExactCrash DEF Next, Continue

(***************************************************************************)
(* What workspace_test.go says of the active map, that it is empty when    *)
(* everything has been released, holds as long as no Acquire fails after   *)
(* it has counted its reference: these failures are the only leak.         *)
(***************************************************************************)
THEOREM OnlyFailuresLeak == Spec /\ [][NoAcquireFails]_vars => []NoRefLeak
<1>1. Init => CountsExact
  BY DEF Init, CountsExact
<1>2. [Next]_vars /\ [NoAcquireFails]_vars => [Next /\ NoAcquireFails]_vars
  OBVIOUS
<1>3. CountsExact => NoRefLeak
  BY DEF CountsExact, NoRefLeak, Users, Attached, InDirectory
<1> QED
  BY <1>1, <1>2, <1>3, NextExact, AlwaysInv, PTL DEF Spec

-----------------------------------------------------------------------------
(* Workspace implements PathLock.                                          *)

At == [w \in Worker |-> IF pc[w] \in InDirectory THEN path[w] ELSE NoPath]

(* Only Lock brings a worker into a directory. *)
NobodyEnters ==
    \A v \in Worker : pc'[v] \in InDirectory => pc[v] \in InDirectory /\ path'[v] = path[v]

LEMMA OthersEnterNone ==
    ASSUME Inv, [Next]_vars, ~ \E w \in Worker : Lock(w)
    PROVE  NobodyEnters
<1>1. ASSUME NEW w \in Worker, Continue(w)
      PROVE  NobodyEnters
  <2>1. \A v \in Worker : v # w => pc'[v] = pc[v] /\ path'[v] = path[v]
    BY <1>1 DEF Continue, ReleaseInMemory, OpenCache, FetchCache, MakeDirectory, StartClone,
       FinishClone, CloneFails, RemoveClone, Release, Unlock, Goto, Return, Inv, TypeOK
  <2>2. CASE pc[w] \in InDirectory /\ path' = path
    BY <2>1, <2>2 DEF NobodyEnters
  <2>3. CASE pc'[w] \notin InDirectory
    BY <2>1, <2>3 DEF NobodyEnters
  <2>4. pc'[w] \notin InDirectory \/ (pc[w] \in InDirectory /\ path' = path)
    BY <1>1 DEF Continue, ReleaseInMemory, OpenCache, FetchCache, MakeDirectory, StartClone,
       FinishClone, CloneFails, RemoveClone, Release, Unlock, Goto, Return, InDirectory, Inv, TypeOK
  <2> QED
    BY <2>2, <2>3, <2>4
<1>2. ASSUME NEW w \in Worker, NEW p \in Path, GetRef(w, p) \/ AcquireInMemory(w)
      PROVE  NobodyEnters
  BY <1>2 DEF GetRef, AcquireInMemory, Goto, NobodyEnters, InDirectory, Inv, TypeOK
<1>3. ASSUME NEW w \in Worker, AcquireInMemory(w)
      PROVE  NobodyEnters
  BY <1>3 DEF AcquireInMemory, Goto, NobodyEnters, InDirectory, Inv, TypeOK
<1>4. ASSUME NEW q \in Process, Crash(q)
      PROVE  NobodyEnters
  BY <1>4 DEF Crash, NobodyEnters, InDirectory
<1>5. CASE UNCHANGED <<pc, path>>
  BY <1>5 DEF NobodyEnters
<1> QED
  BY <1>1, <1>2, <1>3, <1>4, <1>5 DEF Next, Deepen, CheckStale, RemoveStale, vars

LEMMA ExclusiveNext == Inv' => Exclusive'
BY InvExclusive, PTL

LEMMA StepTakesTurns == Inv /\ Inv' /\ [Next]_vars => [Turns!Next]_At
<1> SUFFICES ASSUME Inv, Inv', [Next]_vars
             PROVE  [Turns!Next]_At
  OBVIOUS
<1>1. ASSUME NobodyEnters
      PROVE  Turns!Next
  <2>1. PICK gone \in SUBSET Worker : gone = {w \in Worker : pc'[w] \notin InDirectory}
    OBVIOUS
  <2>2. At' = [w \in Worker |-> IF w \in gone THEN NoPath ELSE At[w]]
    BY <1>1, <2>1 DEF At, NobodyEnters
  <2>3. Turns!Leave(gone)
    BY <2>2 DEF Turns!Leave, At
  <2> QED
    BY <2>3 DEF Turns!Next
<1>2. ASSUME NEW w \in Worker, Lock(w)
      PROVE  Turns!Next
  <2>1. /\ pc[w] = "waiting" /\ pc' = [pc EXCEPT ![w] = "locked"] /\ path' = path
        /\ path[w] \in Path
    BY <1>2 DEF Lock, Goto, Inv, TypeOK
  <2>2. pc'[w] = "locked" /\ \A v \in Worker : v # w => pc'[v] = pc[v]
    BY <2>1 DEF Inv, TypeOK
  <2>3. At[w] = NoPath
    BY <2>1 DEF At, InDirectory
  <2>4. At' = [At EXCEPT ![w] = path[w]]
    BY <2>1, <2>2 DEF At, InDirectory
  <2>5. \A v \in Worker : ProcessOf[v] = ProcessOf[w] => At[v] # path[w]
    <3> SUFFICES ASSUME NEW v \in Worker, ProcessOf[v] = ProcessOf[w], At[v] = path[w]
                 PROVE  FALSE
      OBVIOUS
    <3>1. v # w /\ pc[v] \in InDirectory /\ path[v] = path[w]
      BY <2>1, <2>3, WorkspaceAssumption DEF At
    <3>2. pc'[v] \in InDirectory /\ pc'[w] \in InDirectory /\ path'[v] = path'[w]
      BY <2>1, <2>2, <3>1 DEF InDirectory
    <3>3. Exclusive'
      BY ExclusiveNext
    <3> QED
      BY <3>1, <3>2, <3>3 DEF Exclusive
  <2>6. PICK p \in Path : p = path[w]
    BY <2>1
  <2>7. Turns!Enter(w, p)
    BY <2>3, <2>4, <2>5, <2>6 DEF Turns!Enter, At
  <2> QED
    BY <2>7 DEF Turns!Next
<1> QED
  BY <1>1, <1>2, OthersEnterNone

(***************************************************************************)
(* The workspace manager implements the abstract lock: every step of it is *)
(* a worker entering a free directory, workers leaving, or a stutter.      *)
(***************************************************************************)
THEOREM ImplementsPathLock == Spec => TakesTurns
<1>1. Init => Turns!Init
  BY DEF Init, Turns!Init, InDirectory
<1>2. Inv /\ Inv' /\ [Next]_vars => [Turns!Next]_At
  BY StepTakesTurns
<1> QED
  BY <1>1, <1>2, AlwaysInv, PTL DEF Spec, TakesTurns, Turns!Spec, At

-----------------------------------------------------------------------------
(* GC.                                                                     *)

(***************************************************************************)
(* A directory without an entry, or whose entry counts nobody, has no      *)
(* users: references may leak, but none in use is ever forgotten.          *)
(***************************************************************************)
LEMMA StaleIsUnused ==
    ASSUME Inv, NEW q \in Process, NEW p \in Path, CheckStale(q, p),
           NEW w \in Worker, ProcessOf[w] = q, pc[w] \in Attached
    PROVE  path[w] # p
<1> SUFFICES ASSUME path[w] = p PROVE FALSE
  OBVIOUS
<1>1. active[q][p] = ref[w] /\ ref[w] \in Ref
  BY DEF Inv, TypeOK, LockInv, EntryStays, Attached, InDirectory
<1>2. active[q][p] # NoRef /\ heap[active[q][p]].count = 0
  BY <1>1, WorkspaceAssumption DEF CheckStale
<1>3. Cardinality(Users(q, p)) <= 0
  BY <1>2 DEF Inv, LockInv, CountCovers
<1>4. w \in Users(q, p)
  BY DEF Users
<1>5. Cardinality(Users(q, p)) = 0
  BY <1>3, UsersFinite
<1> QED
  BY <1>4, <1>5, UsersFinite, FS_EmptySet

LEMMA NextSpares ==
    ASSUME Inv, [Next]_vars
    PROVE  UsedSpared
<1> SUFFICES ASSUME NEW q \in Process, NEW w \in Worker,
                    doomed'[q] # doomed[q], ProcessOf[w] = q, pc[w] \in Attached
             PROVE  path[w] # doomed'[q]
  BY DEF UsedSpared
<1>1. path[w] \in Path
  BY DEF Inv, TypeOK, Attached, InDirectory
<1>2. CASE doomed'[q] = NoPath
  BY <1>1, <1>2, WorkspaceAssumption
<1>3. ASSUME NEW s \in Process, NEW p \in Path, CheckStale(s, p)
      PROVE  path[w] # doomed'[q]
  <2>1. s = q /\ doomed'[q] = p
    BY <1>3 DEF CheckStale, Inv, TypeOK
  <2> QED
    BY <1>3, <2>1, StaleIsUnused
<1>4. ASSUME NEW s \in Process, RemoveStale(s) \/ Crash(s)
      PROVE  doomed'[q] = NoPath
  BY <1>4 DEF RemoveStale, Crash, Inv, TypeOK
<1>5. ASSUME NEW v \in Worker, Continue(v)
      PROVE  UNCHANGED doomed
  BY <1>5 DEF Continue, ReleaseInMemory, OpenCache, FetchCache, MakeDirectory, StartClone,
     FinishClone, RemoveClone, Release, Unlock
<1>6. ASSUME NEW v \in Worker, AcquireInMemory(v) \/ Lock(v) \/ Deepen(v)
      PROVE  UNCHANGED doomed
  BY <1>6 DEF AcquireInMemory, Lock, Deepen
<1>7. ASSUME NEW v \in Worker, NEW p \in Path, GetRef(v, p)
      PROVE  UNCHANGED doomed
  BY <1>7 DEF GetRef
<1> QED
  BY <1>2, <1>3, <1>4, <1>5, <1>6, <1>7 DEF Next, vars

(***************************************************************************)
(* GC never takes a directory for stale that a goroutine of its process    *)
(* works in or waits for.                                                  *)
(***************************************************************************)
THEOREM GCSpares == Spec => GCSparesUsed
<1>1. Inv /\ [Next]_vars => UsedSpared
  BY NextSpares
<1> QED
  BY <1>1, AlwaysInv, PTL DEF Spec, GCSparesUsed

-----------------------------------------------------------------------------
(* Clones stay whole.                                                      *)

(* Nothing collects, and one process at a time mounts the volume. *)
Alone == ~Collect /\ \A v, w \in Worker : ProcessOf[v] = ProcessOf[w]

NoneDoomed == \A q \in Process : doomed[q] = NoPath

(***************************************************************************)
(* Only a worker in a directory changes what is there.                     *)
(***************************************************************************)
LEMMA DiskKept ==
    ASSUME Inv, NoneDoomed, [Next]_vars, NEW p \in Path, disk'[p] # disk[p]
    PROVE  \E v \in Worker : pc[v] \in InDirectory /\ path[v] = p /\ (Continue(v) \/ Deepen(v))
<1>1. ASSUME NEW v \in Worker, Continue(v)
      PROVE  pc[v] \in InDirectory /\ path[v] = p
  <2>1. CASE FetchCache(v) \/ FinishClone(v)
    BY <2>1 DEF FetchCache, FinishClone, CloneFails, InDirectory, Inv, TypeOK
  <2>2. CASE MakeDirectory(v) \/ StartClone(v) \/ RemoveClone(v)
    BY <2>2 DEF MakeDirectory, StartClone, RemoveClone, InDirectory, Inv, TypeOK
  <2>3. CASE ReleaseInMemory(v) \/ OpenCache(v) \/ Release(v) \/ Unlock(v)
    BY <2>3 DEF ReleaseInMemory, OpenCache, Release, Unlock
  <2> QED
    BY <1>1, <2>1, <2>2, <2>3 DEF Continue
<1>2. ASSUME NEW v \in Worker, Deepen(v)
      PROVE  pc[v] \in InDirectory /\ path[v] = p
  BY <1>2 DEF Deepen, InDirectory, Inv, TypeOK
<1>3. ASSUME NEW v \in Worker, NEW o \in Path, AcquireInMemory(v) \/ Lock(v) \/ GetRef(v, o)
      PROVE  UNCHANGED disk
  BY <1>3 DEF AcquireInMemory, Lock, GetRef
<1>4. ASSUME NEW q \in Process, NEW o \in Path, CheckStale(q, o) \/ RemoveStale(q) \/ Crash(q)
      PROVE  UNCHANGED disk
  BY <1>4 DEF CheckStale, RemoveStale, Crash, NoneDoomed
<1>5. CASE UNCHANGED vars
  BY <1>5 DEF vars
<1> QED
  BY <1>1, <1>2, <1>3, <1>4, <1>5 DEF Next

LEMMA NoneDoomedNext ==
    ASSUME Alone, Inv, NoneDoomed, [Next]_vars
    PROVE  NoneDoomed'
<1>1. ASSUME NEW q \in Process, (\E p \in Path : CheckStale(q, p)) \/ RemoveStale(q)
      PROVE  FALSE
  BY <1>1, WorkspaceAssumption DEF CheckStale, RemoveStale, Alone, NoneDoomed
<1>2. ASSUME NEW q \in Process, Crash(q)
      PROVE  NoneDoomed'
  BY <1>2 DEF Crash, NoneDoomed, Inv, TypeOK
<1>3. ASSUME NEW v \in Worker, Continue(v)
      PROVE  UNCHANGED doomed
  BY <1>3 DEF Continue, ReleaseInMemory, OpenCache, FetchCache, MakeDirectory, StartClone,
     FinishClone, RemoveClone, Release, Unlock
<1>4. ASSUME NEW v \in Worker, AcquireInMemory(v) \/ Lock(v) \/ Deepen(v)
      PROVE  UNCHANGED doomed
  BY <1>4 DEF AcquireInMemory, Lock, Deepen
<1>5. ASSUME NEW v \in Worker, NEW p \in Path, GetRef(v, p)
      PROVE  UNCHANGED doomed
  BY <1>5 DEF GetRef
<1>6. CASE UNCHANGED vars
  BY <1>6 DEF vars, NoneDoomed
<1> QED
  BY <1>1, <1>2, <1>3, <1>4, <1>5, <1>6 DEF Next, NoneDoomed

(***************************************************************************)
(* Until a clone is finished or removed there is none in its directory,    *)
(* and without a removal of a whole clone there is no damaged one.         *)
(***************************************************************************)
Unfinished == {"cloning", "downloading", "cleaning"}

NoneDamaged ==
    /\ \A p \in Path : disk[p] # "damaged"
    /\ \A w \in Worker : pc[w] \in Unfinished => disk[path[w]] \in {"empty", "partial"}

DiskInv == NoneDamaged /\ CloneStays

(***************************************************************************)
(* What a worker leaves in the directory it works in.                      *)
(***************************************************************************)
LEMMA OwnDirectory ==
    ASSUME Inv, DiskInv, NEW w \in Worker, Continue(w) \/ Deepen(w), pc[w] \in InDirectory
    PROVE  /\ disk'[path[w]] # "damaged"
           /\ pc'[w] \in Unfinished =>
                path'[w] = path[w] /\ disk'[path[w]] \in {"empty", "partial"}
           /\ pc'[w] = "using" =>
                path'[w] = path[w] /\ disk'[path[w]] \in {"shallow", "full"}
<1>1. path[w] \in Path /\ disk[path[w]] \in Disk /\ disk[path[w]] # "damaged"
  BY DEF DiskInv, NoneDamaged, Inv, TypeOK, InDirectory
<1>2. disk \in [Path -> Disk] /\ pc \in [Worker -> PC]
  BY DEF Inv, TypeOK
<1>3. CASE FetchCache(w)
  <2>1. CASE disk[path[w]] = "partial"
    BY <1>1, <1>2, <1>3, <2>1
       DEF FetchCache, Fetched, Cloned, HasHead, Goto, Return, Unfinished
  <2>2. CASE disk[path[w]] # "partial"
    BY <1>1, <1>2, <1>3, <2>2
       DEF FetchCache, Fetched, HasHead, Goto, Return, Unfinished
  <2> QED
    BY <2>1, <2>2
<1>4. CASE FinishClone(w)
  <2>1. disk[path[w]] \in {"empty", "partial"}
    BY <1>4 DEF FinishClone, DiskInv, NoneDamaged, Unfinished
  <2> QED
    BY <1>1, <1>2, <1>4, <2>1 DEF FinishClone, CloneFails, Goto, Unfinished
<1>5. CASE StartClone(w)
  <2>1. disk[path[w]] \in {"empty", "partial"}
    BY <1>5 DEF StartClone, DiskInv, NoneDamaged, Unfinished
  <2> QED
    BY <1>1, <1>2, <1>5, <2>1 DEF StartClone, CloneFails, Goto, Unfinished
<1>6. CASE RemoveClone(w)
  <2>1. disk[path[w]] \in {"empty", "partial"}
    BY <1>6 DEF RemoveClone, DiskInv, NoneDamaged, Unfinished
  <2>2. Remains(path[w]) \subseteq {"absent", "empty", "partial"}
    BY <2>1 DEF Remains, Whole
  <2> QED
    BY <1>1, <1>2, <1>6, <2>2 DEF RemoveClone, Goto, Return, Unfinished
<1>7. CASE MakeDirectory(w)
  BY <1>1, <1>2, <1>7 DEF MakeDirectory, Goto, Return, Unfinished
<1>8. CASE Deepen(w)
  BY <1>1, <1>2, <1>8 DEF Deepen, Unfinished
<1>9. CASE ReleaseInMemory(w) \/ OpenCache(w) \/ Release(w) \/ Unlock(w)
  BY <1>1, <1>2, <1>9
     DEF ReleaseInMemory, OpenCache, Release, Unlock, Goto, Return, Unfinished
<1> QED
  BY <1>3, <1>4, <1>5, <1>6, <1>7, <1>8, <1>9 DEF Continue

(***************************************************************************)
(* Only a worker's own steps take it to a place in a directory and, in a   *)
(* single process, change what is there.                                   *)
(***************************************************************************)
LEMMA OthersKeep ==
    ASSUME Alone, Inv, NoneDoomed, [Next]_vars, NEW w \in Worker,
           ~(Continue(w) \/ Deepen(w)), pc'[w] \in Unfinished \cup {"using"}
    PROVE  pc'[w] = pc[w] /\ path'[w] = path[w] /\ disk'[path[w]] = disk[path[w]]
<1>1. pc'[w] = pc[w] /\ path'[w] = path[w]
  <2>1. ASSUME NEW v \in Worker, v # w, Continue(v)
        PROVE  pc'[w] = pc[w] /\ path'[w] = path[w]
    BY <2>1 DEF Continue, ReleaseInMemory, OpenCache, FetchCache, MakeDirectory, StartClone,
       FinishClone, CloneFails, RemoveClone, Release, Unlock, Goto, Return, Inv, TypeOK
  <2>2. ASSUME NEW v \in Worker, v # w, Deepen(v)
        PROVE  pc'[w] = pc[w] /\ path'[w] = path[w]
    BY <2>2 DEF Deepen
  <2>3. ASSUME NEW v \in Worker, AcquireInMemory(v) \/ Lock(v) \/ \E p \in Path : GetRef(v, p)
        PROVE  pc'[w] = pc[w] /\ path'[w] = path[w]
    BY <2>3 DEF AcquireInMemory, Lock, GetRef, Goto, Inv, TypeOK, Unfinished
  <2>4. ASSUME NEW q \in Process,
               (\E p \in Path : CheckStale(q, p)) \/ RemoveStale(q) \/ Crash(q)
        PROVE  pc'[w] = pc[w] /\ path'[w] = path[w]
    BY <2>4 DEF CheckStale, RemoveStale, Crash, Unfinished
  <2>5. CASE UNCHANGED vars
    BY <2>5 DEF vars
  <2> QED
    BY <2>1, <2>2, <2>3, <2>4, <2>5 DEF Next
<1>2. path[w] \in Path /\ pc[w] \in InDirectory
  BY <1>1 DEF Inv, TypeOK, Unfinished, InDirectory
<1>3. disk'[path[w]] = disk[path[w]]
  <2> SUFFICES ASSUME disk'[path[w]] # disk[path[w]] PROVE FALSE
    OBVIOUS
  <2>1. PICK v \in Worker : /\ pc[v] \in InDirectory /\ path[v] = path[w]
                            /\ Continue(v) \/ Deepen(v)
    BY <1>2, DiskKept
  <2>2. v # w /\ ProcessOf[v] = ProcessOf[w]
    BY <2>1 DEF Alone
  <2>3. Exclusive
    BY InvExclusive
  <2> QED
    BY <1>2, <2>1, <2>2, <2>3 DEF Exclusive
<1> QED
  BY <1>1, <1>3

(***************************************************************************)
(* A worker is given a place in a directory only by a step in it.          *)
(***************************************************************************)
LEMMA ComesFromDirectory ==
    ASSUME Inv, NEW w \in Worker, Continue(w) \/ Deepen(w),
           pc'[w] \in Unfinished \cup {"using"}
    PROVE  pc[w] \in InDirectory
BY DEF Continue, Deepen, ReleaseInMemory, OpenCache, FetchCache, MakeDirectory, StartClone,
   FinishClone, CloneFails, RemoveClone, Release, Unlock, Goto, Return, Unfinished,
   InDirectory, Inv, TypeOK

LEMMA DiskInvNext ==
    ASSUME Alone, Inv, NoneDoomed, DiskInv, [Next]_vars
    PROVE  DiskInv'
<1>1. ASSUME NEW p \in Path PROVE disk'[p] # "damaged"
  <2>1. CASE disk'[p] = disk[p]
    BY <2>1 DEF DiskInv, NoneDamaged
  <2>2. CASE disk'[p] # disk[p]
    BY <2>2, DiskKept, OwnDirectory
  <2> QED
    BY <2>1, <2>2
<1>2. ASSUME NEW w \in Worker, pc'[w] \in Unfinished
      PROVE  disk'[path'[w]] \in {"empty", "partial"}
  <2>1. CASE Continue(w) \/ Deepen(w)
    BY <1>2, <2>1, ComesFromDirectory, OwnDirectory
  <2>2. CASE ~(Continue(w) \/ Deepen(w))
    BY <1>2, <2>2, OthersKeep DEF DiskInv, NoneDamaged
  <2> QED
    BY <2>1, <2>2
<1>3. ASSUME NEW w \in Worker, pc'[w] = "using"
      PROVE  disk'[path'[w]] \in {"shallow", "full"}
  <2>1. CASE Continue(w) \/ Deepen(w)
    BY <1>3, <2>1, ComesFromDirectory, OwnDirectory
  <2>2. CASE ~(Continue(w) \/ Deepen(w))
    BY <1>3, <2>2, OthersKeep DEF DiskInv, CloneStays, Whole
  <2> QED
    BY <2>1, <2>2
<1> QED
  BY <1>1, <1>2, <1>3 DEF DiskInv, NoneDamaged, CloneStays, Whole

(***************************************************************************)
(* In a single process that collects nothing, the clone of a goroutine     *)
(* stays whole until it is released, whatever a failed removal of an       *)
(* unfinished clone has left behind.                                       *)
(***************************************************************************)
THEOREM ClonesStayWhole == ASSUME Alone PROVE Spec => []CloneStays
<1>1. Init => NoneDoomed /\ DiskInv
  BY DEF Init, NoneDoomed, DiskInv, NoneDamaged, CloneStays, Unfinished
<1>2. Inv /\ (NoneDoomed /\ DiskInv) /\ [Next]_vars => (NoneDoomed /\ DiskInv)'
  BY NoneDoomedNext, DiskInvNext, Alone
<1>3. DiskInv => CloneStays
  BY DEF DiskInv
<1> QED
  BY <1>1, <1>2, <1>3, AlwaysInv, PTL DEF Spec
=============================================================================
