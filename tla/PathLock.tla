------------------------------ MODULE PathLock ------------------------------
(***************************************************************************)
(* What pkg/workspace promises about directories: the reconcile goroutines *)
(* of one controller process take turns in each cache directory.           *)
(***************************************************************************)
CONSTANTS
    Worker,     \* reconcile goroutines
    ProcessOf,  \* the controller process each of them runs in
    Path,       \* cache directories
    NoPath

VARIABLE at     \* the directory each worker may touch, or NoPath

Init == at = [w \in Worker |-> NoPath]

Enter(w, p) ==
    /\ at[w] = NoPath
    /\ \A v \in Worker : ProcessOf[v] = ProcessOf[w] => at[v] # p
    /\ at' = [at EXCEPT ![w] = p]

(* One worker leaves, or all those of a process that stops. *)
Leave(gone) == at' = [w \in Worker |-> IF w \in gone THEN NoPath ELSE at[w]]

Next ==
    \/ \E w \in Worker, p \in Path : Enter(w, p)
    \/ \E gone \in SUBSET Worker : Leave(gone)

Spec == Init /\ [][Next]_at
=============================================================================
