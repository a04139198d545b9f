------------------------------ MODULE TreeMerge ------------------------------
(***************************************************************************)
(* How the conflict resolver merges two commits (attemptMerge and          *)
(* buildMergedTree, pkg/reconciler/resolver): it compares the trees of     *)
(* both with that of the merge base, refuses if a file was changed on both *)
(* sides, and lays B's changes over A's tree.                              *)
(*                                                                         *)
(* A path is the sequence of its names, and << >> the missing name of a    *)
(* change.  A tree of a commit says what each path holds; the tree the     *)
(* resolver builds is a set of files, since nothing keeps its entries      *)
(* apart.                                                                  *)
(***************************************************************************)
EXTENDS Naturals, Sequences

CONSTANTS
    Name,       \* names of files and directories
    Path,       \* the paths files may have
    Blob,       \* contents of files
    NoBlob,
    Alike       \* pairs of different contents that may pass for a renamed file

ASSUME TreeAssumption ==
    /\ Path \subseteq Seq(Name) \ {<< >>}
    /\ NoBlob \notin Blob
    /\ Alike \subseteq Blob \X Blob

VARIABLES
    base, a, b,     \* the trees of the merge base and of the two commits
    pc,             \* where attemptMerge is
    diffA, diffB,   \* the changes from the merge base to either side
    merged          \* the files of the tree that was built

trees == <<base, a, b>>
vars  == <<trees, pc, diffA, diffB, merged>>

-----------------------------------------------------------------------------
(* p is a directory above q. *)
Above(p, q) == Len(p) < Len(q) /\ \A i \in 1 .. Len(p) : p[i] = q[i]

Present(t) == {p \in Path : t[p] # NoBlob}

(* No name is a file and a directory at once. *)
Proper(t) == \A p, q \in Present(t) : ~Above(p, q)

Tree == {t \in [Path -> Blob \cup {NoBlob}] : Proper(t)}

File == [path : Seq(Name), blob : Blob]

Files(t) == {[path |-> p, blob |-> t[p]] : p \in Present(t)}

(* From one path to another; one of them is << >> for a new or a gone file. *)
Change == [from : Path \cup {<< >>}, to : Path \cup {<< >>}]

Init ==
    /\ base \in Tree
    /\ a \in Tree
    /\ b \in Tree
    /\ pc = "comparing"
    /\ diffA = {}
    /\ diffB = {}
    /\ merged = {}

(***************************************************************************)
(* Tree.Diff.  A file that is gone and a new one become one change, a      *)
(* rename, if they have the same content; if they are alike they may.      *)
(***************************************************************************)
Changed(t) == {p \in Path : t[p] # base[p]}
Gone(t)    == Changed(t) \ Present(t)
New(t)     == Changed(t) \ Present(base)

Renames(t) ==
    {R \in SUBSET (Gone(t) \X New(t)) :
        /\ \A r \in R : base[r[1]] = t[r[2]] \/ <<base[r[1]], t[r[2]]>> \in Alike
        /\ \A r, s \in R : r[1] = s[1] <=> r[2] = s[2]
        /\ \A p \in Gone(t), q \in New(t) : base[p] = t[q] =>
            \E r \in R : r[1] = p \/ r[2] = q}

DiffWith(t, R) ==
    LET from == {r[1] : r \in R}
        to   == {r[2] : r \in R}
    IN {[from |-> r[1], to |-> r[2]] : r \in R}
       \cup {[from |-> p, to |-> << >>] : p \in Gone(t) \ from}
       \cup {[from |-> << >>, to |-> p] : p \in New(t) \ to}
       \cup {[from |-> p, to |-> p] : p \in Changed(t) \ (Gone(t) \cup New(t))}

CompareTrees ==
    /\ pc = "comparing"
    /\ pc' = "checking"
    /\ \E R \in Renames(a) : diffA' = DiffWith(a, R)
    /\ \E R \in Renames(b) : diffB' = DiffWith(b, R)
    /\ UNCHANGED <<trees, merged>>

(* Mutant: a change is known by its new name. *)
ChangeNewName(change) == change.to

ChangeName(change) == IF change.from # << >> THEN change.from ELSE change.to

(* A file that was changed on both sides: no merge is attempted. *)
CheckConflicts ==
    LET filesA == {ChangeName(c) : c \in diffA}
        filesB == {ChangeName(c) : c \in diffB}
    IN
    /\ pc = "checking"
    /\ pc' = IF filesA \cap filesB = {} THEN "building" ELSE "failed"
    /\ UNCHANGED <<trees, diffA, diffB, merged>>

(* Mutant: what is gone is looked up in B as well. *)
WrittenOrGone(changes) == {ChangeName(c) : c \in changes}

Written(changes) == {c.to : c \in changes} \ {<< >>}

(* Mutant: only the old names of renamed files are removed. *)
RemovedByRename(changes) == {c.from : c \in {d \in changes : d.to # << >> /\ d.from # d.to}} \ {<< >>}

Removed(changes) == {c.from : c \in {d \in changes : d.from # d.to}} \ {<< >>}

(***************************************************************************)
(* buildMergedTree.  The entries of A's root, files and whole directories, *)
(* are keyed by name; those of B by the path of the change, but an entry   *)
(* carries its own, last, name into the root of the new tree.              *)
(***************************************************************************)
MergedTree ==
    LET touched == Written(diffB) \cup Removed(diffB)
    IN {f \in Files(a) : <<f.path[1]>> \notin touched}
       \cup {[path |-> <<p[Len(p)]>>, blob |-> b[p]] : p \in Written(diffB)}

BuildMergedTree ==
    /\ pc = "building"
    /\ pc' = "merged"
    /\ merged' = MergedTree
    /\ UNCHANGED <<trees, diffA, diffB>>

(***************************************************************************)
(* Anything may fail: the clone, a commit it does not hold, encoding       *)
(* entries that come out of a map in no order.                             *)
(***************************************************************************)
Fail ==
    /\ pc \in {"comparing", "checking", "building"}
    /\ pc' = "failed"
    /\ UNCHANGED <<trees, diffA, diffB, merged>>

Next ==
    \/ CompareTrees
    \/ CheckConflicts
    \/ BuildMergedTree
    \/ Fail

Spec == Init /\ [][Next]_vars

-----------------------------------------------------------------------------
(* Correctness.                                                            *)

TypeOK ==
    /\ base \in Tree
    /\ a \in Tree
    /\ b \in Tree
    /\ pc \in {"comparing", "checking", "building", "merged", "failed"}
    /\ diffA \subseteq Change
    /\ diffB \subseteq Change
    /\ merged \subseteq File

RenamedTo(changes) == {c.to : c \in {d \in changes : d.from # << >> /\ d.from # d.to}}

(***************************************************************************)
(* README: the resolver "falls back to RequiresManualIntervention on       *)
(* file-level conflicts".  A file both sides have changed is never merged, *)
(* with one exception: changeName knows a renamed file by its old name     *)
(* only, so that a clash with the new one goes unnoticed.                  *)
(***************************************************************************)
ConflictsFound ==
    pc \in {"building", "merged"} =>
        Changed(a) \cap Changed(b) \subseteq RenamedTo(diffA) \cup RenamedTo(diffB)

(* The three-way merge of changes to different files. *)
ThreeWay == [p \in Path |-> IF p \in Changed(b) THEN b[p] ELSE a[p]]

Mergeable == Changed(a) \cap Changed(b) = {} /\ Proper(ThreeWay)

(***************************************************************************)
(* When B's changes are to files in the root directory, the result is the  *)
(* three-way merge: nothing of either side is lost or comes back, renamed, *)
(* deleted and, on A's side, nested files included.                        *)
(***************************************************************************)
RootChangesMerge ==
    pc = "merged" /\ Mergeable /\ (\A p \in Changed(b) : Len(p) = 1) =>
        merged = Files(ThreeWay)

(***************************************************************************)
(* resolver.go: "If there are no file-level conflicts (disjoint changes),  *)
(* it builds a merged tree that includes changes from both branches".      *)
(***************************************************************************)
DisjointChangesMerge == pc = "merged" /\ Mergeable => merged = Files(ThreeWay)
=============================================================================
