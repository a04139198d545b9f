----------------------------- MODULE Workspace -----------------------------
(***************************************************************************)
(* The workspace manager (pkg/workspace): bare clones on a cache volume,   *)
(* one directory per repository URL, each guarded by a mutex that lives in *)
(* a reference-counted map entry.                                          *)
(*                                                                         *)
(* A step is what happens between two operations on a mutex or on the      *)
(* disk.  Manager.mu only guards short sections that never block, so each  *)
(* of them is a single step.  A directory is named by a hash of the URL,   *)
(* taken to be injective.  Objects no pointer leads to may be allocated    *)
(* again, which keeps the set of refs small.  Any disk or network          *)
(* operation may fail, and a process may crash, any number of times.       *)
(***************************************************************************)
EXTENDS Naturals, FiniteSets

CONSTANTS
    Worker,     \* reconcile goroutines
    Process,    \* controller processes that mount the volume
    ProcessOf,  \* the process of each worker
    Path,       \* cache directories
    Ref,        \* ref objects
    NoRef, NoPath, NoWorker,
    Shallow,    \* whether a first clone has depth 1
    Collect,    \* whether the processes run GC
    MaxCount    \* bound on the references counted for one path

ASSUME WorkspaceAssumption ==
    /\ IsFiniteSet(Worker)
    /\ ProcessOf \in [Worker -> Process]
    /\ NoRef \notin Ref
    /\ NoPath \notin Path
    /\ NoWorker \notin Worker
    /\ Shallow \in BOOLEAN
    /\ Collect \in BOOLEAN
    /\ MaxCount \in Nat

VARIABLES
    active,     \* Manager.active of each process: the ref of a path
    heap,       \* count and mutex of each ref
    disk,       \* what each cache directory holds
    pc,         \* where each worker is
    path, ref,  \* its local variables
    doomed      \* the directory GC is about to remove in each process

vars == <<active, heap, disk, pc, path, ref, doomed>>

(***************************************************************************)
(* A directory that exists may have no HEAD, hold HEAD and part of a clone *)
(* that was never finished, hold a clone, with its history or without, or  *)
(* what a removal that failed has left of one.                             *)
(***************************************************************************)
Disk == {"absent", "empty", "partial", "damaged", "shallow", "full"}

HasHead(p) == disk[p] \in {"partial", "damaged", "shallow", "full"}

Whole(p) == disk[p] \in {"shallow", "full"}

(***************************************************************************)
(* What os.RemoveAll leaves: nothing, or, when it fails, all or a part.    *)
(* Its error is not looked at.                                             *)
(***************************************************************************)
Remains(p) ==
    {"absent", disk[p]}
        \cup {d \in {"empty"} : disk[p] # "absent"}
        \cup {d \in {"damaged"} : Whole(p)}

(***************************************************************************)
(* What a fetch that succeeds leaves.  An unfinished clone has no branches *)
(* yet, so everything it lacks is fetched; what is missing behind the      *)
(* branches of a damaged one may not be noticed.                           *)
(***************************************************************************)
Cloned == IF Shallow THEN {"shallow", "full"} ELSE {"full"}

Fetched(p) ==
    CASE disk[p] = "partial" -> Cloned
      [] disk[p] = "damaged" -> Cloned \cup {"damaged"}
      [] OTHER -> {disk[p]}

PC == {"idle", "memory", "waiting", "locked", "fetching", "cloning", "downloading",
       "cleaning", "using", "unlocking"}

(* Between Lock and Unlock, and on the disk. *)
InDirectory == {"locked", "fetching", "cloning", "downloading", "cleaning", "using"}

(* Relying on a counted reference. *)
Attached == InDirectory \cup {"waiting"}

NewRef == [count |-> 0, owner |-> NoWorker]

Init ==
    /\ active = [q \in Process |-> [p \in Path |-> NoRef]]
    /\ heap = [r \in Ref |-> NewRef]
    /\ disk = [p \in Path |-> "absent"]
    /\ pc = [w \in Worker |-> "idle"]
    /\ path = [w \in Worker |-> NoPath]
    /\ ref = [w \in Worker |-> NoRef]
    /\ doomed = [q \in Process |-> NoPath]

-----------------------------------------------------------------------------
Goto(w, label) == pc' = [pc EXCEPT ![w] = label]

(* The worker drops its pointers and goes on at label. *)
Return(w, label) ==
    /\ Goto(w, label)
    /\ path' = [path EXCEPT ![w] = NoPath]
    /\ ref' = [ref EXCEPT ![w] = NoRef]

(***************************************************************************)
(* An Acquire that gets no directory gives the mutex back, but not the     *)
(* reference it counted.                                                   *)
(***************************************************************************)
(* Mutants: the count is decremented as well as in Release; nothing is given back. *)
CountBack(w) == heap' = [heap EXCEPT ![ref[w]] = [count |-> @.count - 1, owner |-> NoWorker]]
KeepLocked(w) == UNCHANGED heap

GiveBack(w) == heap' = [heap EXCEPT ![ref[w]].owner = NoWorker]

Unreferenced ==
    {r \in Ref : /\ \A w \in Worker : ref[w] # r
                 /\ \A q \in Process, p \in Path : active[q][p] # r}

(***************************************************************************)
(* Acquire without a cache (no volume, or cache.enabled unset): a clone in *)
(* memory, which concerns nobody else.  Its Release does nothing.          *)
(***************************************************************************)
AcquireInMemory(w) ==
    /\ pc[w] = "idle"
    /\ Goto(w, "memory")
    /\ UNCHANGED <<active, heap, disk, path, ref, doomed>>

ReleaseInMemory(w) ==
    /\ pc[w] = "memory"
    /\ Goto(w, "idle")
    /\ UNCHANGED <<active, heap, disk, path, ref, doomed>>

(* Mutant: the reference is only counted when the entry is created. *)
CountFirst(r) == UNCHANGED heap

Count(r) == heap' = [heap EXCEPT ![r].count = @ + 1]

(***************************************************************************)
(* getRef: find or create the entry of the path and count the reference.   *)
(***************************************************************************)
GetRef(w, p) ==
    LET q == ProcessOf[w] IN
    /\ pc[w] = "idle"
    /\ \E r \in Ref :
        /\ \/ /\ active[q][p] = r
              /\ heap[r].count < MaxCount
              /\ Count(r)
           \/ /\ active[q][p] = NoRef
              /\ r \in Unreferenced
              /\ heap' = [heap EXCEPT ![r] = [NewRef EXCEPT !.count = 1]]
        /\ active' = [active EXCEPT ![q][p] = r]
        /\ ref' = [ref EXCEPT ![w] = r]
    /\ path' = [path EXCEPT ![w] = p]
    /\ Goto(w, "waiting")
    /\ UNCHANGED <<disk, doomed>>

Lock(w) ==
    /\ pc[w] = "waiting"
    /\ heap[ref[w]].owner = NoWorker
    /\ heap' = [heap EXCEPT ![ref[w]].owner = w]
    /\ Goto(w, "locked")
    /\ UNCHANGED <<active, disk, path, ref, doomed>>

(***************************************************************************)
(* HEAD exists: the bare clone is opened, or Acquire returns the error.    *)
(***************************************************************************)
OpenCache(w) ==
    /\ pc[w] = "locked"
    /\ HasHead(path[w])
    /\ \/ Goto(w, "fetching") /\ UNCHANGED <<heap, path, ref>>
       \/ GiveBack(w) /\ Return(w, "idle")
    /\ UNCHANGED <<active, disk, doomed>>

(***************************************************************************)
(* The fetch brings the clone up to date, a shallow one as far as it goes. *)
(* If it fails, which it does when the directory has gone, this reconcile  *)
(* clones into memory.                                                     *)
(***************************************************************************)
FetchCache(w) ==
    LET p == path[w] IN
    /\ pc[w] = "fetching"
    /\ \/ /\ HasHead(p)
          /\ \E d \in Fetched(p) : disk' = [disk EXCEPT ![p] = d]
          /\ Goto(w, "using")
          /\ UNCHANGED <<heap, path, ref>>
       \/ /\ GiveBack(w)
          /\ Return(w, "memory")
          /\ UNCHANGED disk
    /\ UNCHANGED <<active, doomed>>

(* No HEAD: the directory is made, or Acquire returns the error. *)
MakeDirectory(w) ==
    LET p == path[w] IN
    /\ pc[w] = "locked"
    /\ ~HasHead(p)
    /\ \/ /\ disk' = [disk EXCEPT ![p] = "empty"]
          /\ Goto(w, "cloning")
          /\ UNCHANGED <<heap, path, ref>>
       \/ /\ GiveBack(w)
          /\ Return(w, "idle")
          /\ UNCHANGED disk
    /\ UNCHANGED <<active, doomed>>

(* Mutant: a failed clone is removed after the mutex is given back. *)
UnlockFirst(w) == Goto(w, "cleaning") /\ GiveBack(w)

CloneFails(w) == Goto(w, "cleaning") /\ UNCHANGED heap

(***************************************************************************)
(* PlainClone first initialises a repository, which writes HEAD, and       *)
(* refuses a directory that holds one already.                             *)
(***************************************************************************)
StartClone(w) ==
    LET p == path[w] IN
    /\ pc[w] = "cloning"
    /\ \/ /\ ~HasHead(p)
          /\ disk' = [disk EXCEPT ![p] = "partial"]
          /\ Goto(w, "downloading")
          /\ UNCHANGED heap
       \/ /\ HasHead(p)
          /\ CloneFails(w)
          /\ UNCHANGED disk
    /\ UNCHANGED <<active, path, ref, doomed>>

FinishClone(w) ==
    LET p == path[w] IN
    /\ pc[w] = "downloading"
    /\ \/ /\ HasHead(p)
          /\ disk' = [disk EXCEPT ![p] = IF Shallow THEN "shallow" ELSE "full"]
          /\ Goto(w, "using")
          /\ UNCHANGED heap
       \/ /\ CloneFails(w)
          /\ UNCHANGED disk
    /\ UNCHANGED <<active, path, ref, doomed>>

(***************************************************************************)
(* Whoever needs the whole history fetches once more.  A fetch that fails, *)
(* or finds nothing to do, changes nothing; the caller releases either way.*)
(***************************************************************************)
Deepen(w) ==
    /\ pc[w] = "using"
    /\ disk[path[w]] = "shallow"
    /\ disk' = [disk EXCEPT ![path[w]] = "full"]
    /\ UNCHANGED <<active, heap, pc, path, ref, doomed>>

(* A failed clone is removed before the mutex is given back. *)
RemoveClone(w) ==
    /\ pc[w] = "cleaning"
    /\ \E d \in Remains(path[w]) : disk' = [disk EXCEPT ![path[w]] = d]
    /\ GiveBack(w)
    /\ Return(w, "memory")
    /\ UNCHANGED <<active, doomed>>

(* Mutant: every Release drops the entry. *)
AnyReference(r) == TRUE

LastReference(r) == heap[r].count = 1

(***************************************************************************)
(* Release looks the entry up again, drops it with its last reference, and *)
(* unlocks its mutex after Manager.mu.  Without an entry it returns and    *)
(* leaves the mutex locked.                                                *)
(***************************************************************************)
Release(w) ==
    LET q == ProcessOf[w]
        p == path[w]
        r == active[q][p]
    IN
    /\ pc[w] = "using"
    /\ \/ /\ r = NoRef
          /\ Return(w, "idle")
          /\ UNCHANGED <<active, heap>>
       \/ /\ r # NoRef
          /\ heap' = [heap EXCEPT ![r].count = @ - 1]
          /\ active' = IF LastReference(r) THEN [active EXCEPT ![q][p] = NoRef] ELSE active
          /\ ref' = [ref EXCEPT ![w] = r]
          /\ Goto(w, "unlocking")
          /\ UNCHANGED path
    /\ UNCHANGED <<disk, doomed>>

Unlock(w) ==
    /\ pc[w] = "unlocking"
    /\ GiveBack(w)
    /\ Return(w, "idle")
    /\ UNCHANGED <<active, disk, doomed>>

(***************************************************************************)
(* GC, one directory at a time: it is not in activeRepos, no reference is  *)
(* counted for it, and, after Manager.mu is unlocked, it is removed.       *)
(***************************************************************************)
CheckStale(q, p) ==
    /\ Collect
    /\ doomed[q] = NoPath
    /\ disk[p] # "absent"
    /\ active[q][p] # NoRef => heap[active[q][p]].count = 0
    /\ doomed' = [doomed EXCEPT ![q] = p]
    /\ UNCHANGED <<active, heap, disk, pc, path, ref>>

RemoveStale(q) ==
    /\ doomed[q] # NoPath
    /\ \E d \in Remains(doomed[q]) : disk' = [disk EXCEPT ![doomed[q]] = d]
    /\ doomed' = [doomed EXCEPT ![q] = NoPath]
    /\ UNCHANGED <<active, heap, pc, path, ref>>

(* A process dies and is started again: only the volume stays. *)
Crash(q) ==
    LET gone == {w \in Worker : ProcessOf[w] = q} IN
    /\ \E w \in gone : pc[w] # "idle"
    /\ active' = [active EXCEPT ![q] = [p \in Path |-> NoRef]]
    /\ pc' = [w \in Worker |-> IF w \in gone THEN "idle" ELSE pc[w]]
    /\ path' = [w \in Worker |-> IF w \in gone THEN NoPath ELSE path[w]]
    /\ ref' = [w \in Worker |-> IF w \in gone THEN NoRef ELSE ref[w]]
    /\ doomed' = [doomed EXCEPT ![q] = NoPath]
    /\ UNCHANGED <<heap, disk>>

-----------------------------------------------------------------------------
(* What a worker that has begun to acquire does until it has released. *)
Continue(w) ==
    \/ ReleaseInMemory(w)
    \/ OpenCache(w)
    \/ FetchCache(w)
    \/ MakeDirectory(w)
    \/ StartClone(w)
    \/ FinishClone(w)
    \/ RemoveClone(w)
    \/ Release(w)
    \/ Unlock(w)

Next ==
    \/ \E w \in Worker :
        \/ AcquireInMemory(w)
        \/ \E p \in Path : GetRef(w, p)
        \/ Lock(w)
        \/ Deepen(w)
        \/ Continue(w)
    \/ \E q \in Process :
        \/ \E p \in Path : CheckStale(q, p)
        \/ RemoveStale(q)
        \/ Crash(q)

Spec == Init /\ [][Next]_vars

(***************************************************************************)
(* Git operations time out after five minutes, so every started one ends;  *)
(* sync.Mutex hands itself to a goroutine that has waited long enough.     *)
(***************************************************************************)
Fairness == \A w \in Worker : WF_vars(Continue(w)) /\ SF_vars(Lock(w))

FairSpec == Spec /\ Fairness

-----------------------------------------------------------------------------
(* Correctness.                                                            *)

TypeOK ==
    /\ active \in [Process -> [Path -> Ref \cup {NoRef}]]
    /\ heap \in [Ref -> [count : Nat, owner : Worker \cup {NoWorker}]]
    /\ disk \in [Path -> Disk]
    /\ pc \in [Worker -> PC]
    /\ path \in [Worker -> Path \cup {NoPath}]
    /\ ref \in [Worker -> Ref \cup {NoRef}]
    /\ doomed \in [Process -> Path \cup {NoPath}]
    /\ \A w \in Worker : pc[w] \notin {"idle", "memory"} => path[w] \in Path /\ ref[w] \in Ref

(***************************************************************************)
(* Two goroutines of a process never work in one cache directory, although *)
(* the mutex that keeps them apart is dropped from the map and created     *)
(* again while others queue for it or are about to unlock it.              *)
(***************************************************************************)
Exclusive ==
    \A v, w \in Worker :
        /\ v # w
        /\ ProcessOf[v] = ProcessOf[w]
        /\ pc[v] \in InDirectory
        /\ pc[w] \in InDirectory
        => path[v] # path[w]

(***************************************************************************)
(* Release unlocks the mutex this goroutine locked, not one that another   *)
(* goroutine has created or locked for the same path in the meantime       *)
(* (unlocking a mutex that is not locked kills the process).               *)
(***************************************************************************)
UnlocksOwn == \A w \in Worker : pc[w] = "unlocking" => heap[ref[w]].owner = w

(***************************************************************************)
(* A goroutine that waits for a mutex waits for one of its own process     *)
(* that works in the same directory, or has just released it and is about  *)
(* to unlock: the mutex was not left locked by a failure, by a Release     *)
(* that found no entry, or by a process that has died.                     *)
(***************************************************************************)
WaitsForHolder ==
    \A w \in Worker :
        LET v == heap[ref[w]].owner IN
        pc[w] = "waiting" /\ v # NoWorker =>
            /\ ProcessOf[v] = ProcessOf[w]
            /\ path[v] = path[w]
            /\ pc[v] \in InDirectory \cup {"unlocking"}

(***************************************************************************)
(* The clone a goroutine was given stays whole until it releases it: the   *)
(* failed clones and the restarts of others never take it away.            *)
(***************************************************************************)
CloneStays == \A w \in Worker : pc[w] = "using" => Whole(path[w])

(***************************************************************************)
(* GC: "It skips paths that have active in-process references to avoid     *)
(* racing with ongoing reconciles."  At the moment a directory is taken    *)
(* for stale, no goroutine of the process works in it or waits for it,     *)
(* although the failures of Acquire never give their references back.      *)
(***************************************************************************)
UsedSpared ==
    \A q \in Process, w \in Worker :
        doomed'[q] # doomed[q] /\ ProcessOf[w] = q /\ pc[w] \in Attached =>
            path[w] # doomed'[q]

GCSparesUsed == [][UsedSpared]_vars

(***************************************************************************)
(* Nobody waits forever: each Acquire returns and its workspace is         *)
(* released, whatever fails on the way.                                    *)
(***************************************************************************)
EveryAcquireEnds == \A w \in Worker : pc[w] # "idle" ~> pc[w] = "idle"

(***************************************************************************)
(* The directory protocol is that of PathLock.                             *)
(***************************************************************************)
Turns == INSTANCE PathLock WITH
    at <- [w \in Worker |-> IF pc[w] \in InDirectory THEN path[w] ELSE NoPath]

TakesTurns == Turns!Spec

(***************************************************************************)
(* workspace_test.go: "multiple acquire/release cycles don't leak refs",   *)
(* "After all cycles, active map should be empty".                         *)
(***************************************************************************)
NoRefLeak ==
    (\A w \in Worker : pc[w] = "idle") =>
        \A q \in Process, p \in Path : active[q][p] = NoRef
=============================================================================
