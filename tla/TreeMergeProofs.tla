-------------------------- MODULE TreeMergeProofs --------------------------
(***************************************************************************)
(* Proofs about TreeMerge, for any trees, contents and renames.            *)
(***************************************************************************)
EXTENDS TreeMerge, TLAPS

-----------------------------------------------------------------------------
(* What a comparison of two trees says, renamed files included.            *)

LEMMA PathType ==
    ASSUME NEW p \in Path
    PROVE  /\ p # << >>
           /\ p \in Seq(Name)
           /\ Len(p) \in Nat
           /\ Len(p) >= 1
           /\ p[1] \in Name
           /\ p[Len(p)] \in Name
<1>1. p \in Seq(Name) /\ p # << >>
  BY TreeAssumption
<1> QED
  BY <1>1

(* The paths of a rename. *)
LEMMA RenamePaths ==
    ASSUME NEW t \in Tree, base \in Tree, NEW R \in Renames(t), NEW r \in R
    PROVE  /\ r[1] \in Gone(t)
           /\ r[2] \in New(t)
           /\ r[1] # r[2]
BY DEF Renames, Gone, New, Changed, Present

LEMMA ChangedParts ==
    ASSUME NEW t \in Tree, base \in Tree
    PROVE  /\ Gone(t) \subseteq Changed(t)
           /\ New(t) \subseteq Changed(t)
           /\ Changed(t) \subseteq Path
           /\ Gone(t) = {p \in Changed(t) : t[p] = NoBlob}
           /\ New(t) = {p \in Changed(t) : base[p] = NoBlob}
           /\ Gone(t) \cap New(t) = {}
BY DEF Gone, New, Changed, Present

LEMMA DiffType ==
    ASSUME NEW t \in Tree, base \in Tree, NEW R \in Renames(t)
    PROVE  DiffWith(t, R) \subseteq Change
<1> SUFFICES ASSUME NEW c \in DiffWith(t, R) PROVE c \in Change
  OBVIOUS
<1> USE RenamePaths, ChangedParts
<1> QED
  BY DEF DiffWith, Change

(* A file that is new or gone, and not renamed, is a change of its own. *)
LEMMA NewInDiff ==
    ASSUME NEW t, NEW R, NEW p \in New(t), ~\E r \in R : r[2] = p
    PROVE  [from |-> << >>, to |-> p] \in DiffWith(t, R)
<1> DEFINE to == {r[2] : r \in R}
<1>1. p \in New(t) \ to
  OBVIOUS
<1> QED
  BY <1>1, Zenon DEF DiffWith

LEMMA GoneInDiff ==
    ASSUME NEW t, NEW R, NEW p \in Gone(t), ~\E r \in R : r[1] = p
    PROVE  [from |-> p, to |-> << >>] \in DiffWith(t, R)
<1> DEFINE from == {r[1] : r \in R}
<1>1. p \in Gone(t) \ from
  OBVIOUS
<1> QED
  BY <1>1, Zenon DEF DiffWith

(* Each change says which path is written and which is removed. *)
LEMMA DiffWritten ==
    ASSUME NEW t \in Tree, base \in Tree, NEW R \in Renames(t)
    PROVE  Written(DiffWith(t, R)) = {p \in Changed(t) : t[p] # NoBlob}
<1> DEFINE D == DiffWith(t, R)
<1> USE RenamePaths, ChangedParts, PathType
<1>1. ASSUME NEW p \in Written(D) PROVE p \in Changed(t) /\ t[p] # NoBlob
  <2>1. PICK c \in D : c.to = p /\ p # << >>
    BY DEF Written
  <2> QED
    BY <2>1 DEF DiffWith
<1>2. ASSUME NEW p \in Changed(t), t[p] # NoBlob PROVE p \in Written(D)
  <2>1. p # << >>
    OBVIOUS
  <2>2. \E c \in D : c.to = p
    <3>1. CASE \E r \in R : r[2] = p
      <4>1. PICK r \in R : r[2] = p
        BY <3>1
      <4>2. [from |-> r[1], to |-> r[2]] \in D
        BY DEF DiffWith
      <4> QED
        BY <4>1, <4>2
    <3>2. CASE p \in New(t) /\ ~\E r \in R : r[2] = p
      <4>1. [from |-> << >>, to |-> p] \in D
        BY <3>2, NewInDiff, Zenon
      <4> QED
        BY <4>1
    <3>3. CASE p \notin New(t)
      <4>1. [from |-> p, to |-> p] \in D
        BY <1>2, <3>3 DEF DiffWith
      <4> QED
        BY <4>1
    <3> QED
      BY <3>1, <3>2, <3>3
  <2> QED
    BY <2>1, <2>2 DEF Written
<1> QED
  BY <1>1, <1>2 DEF Written

LEMMA DiffRemoved ==
    ASSUME NEW t \in Tree, base \in Tree, NEW R \in Renames(t)
    PROVE  Removed(DiffWith(t, R)) = Gone(t)
<1> DEFINE D == DiffWith(t, R)
<1> USE RenamePaths, ChangedParts, PathType
<1>1. ASSUME NEW p \in Removed(D) PROVE p \in Gone(t)
  <2>1. PICK c \in D : c.from = p /\ c.from # c.to /\ p # << >>
    BY DEF Removed
  <2> QED
    BY <2>1 DEF DiffWith
<1>2. ASSUME NEW p \in Gone(t) PROVE p \in Removed(D)
  <2>1. p # << >>
    OBVIOUS
  <2>2. \E c \in D : c.from = p /\ c.from # c.to
    <3>1. CASE \E r \in R : r[1] = p
      <4>1. PICK r \in R : r[1] = p
        BY <3>1
      <4>2. [from |-> r[1], to |-> r[2]] \in D
        BY DEF DiffWith
      <4> QED
        BY <4>1, <4>2
    <3>2. CASE ~\E r \in R : r[1] = p
      <4>1. [from |-> p, to |-> << >>] \in D
        BY <3>2, GoneInDiff, Zenon
      <4> QED
        BY <4>1, <2>1
    <3> QED
      BY <3>1, <3>2
  <2> QED
    BY <2>1, <2>2 DEF Removed
<1> QED
  BY <1>1, <1>2 DEF Removed

(* A changed path is the name of a change, or what a file was renamed to. *)
LEMMA DiffNames ==
    ASSUME NEW t \in Tree, base \in Tree, NEW R \in Renames(t),
           NEW p \in Changed(t), p \notin RenamedTo(DiffWith(t, R))
    PROVE  \E c \in DiffWith(t, R) : ChangeName(c) = p
<1> DEFINE D == DiffWith(t, R)
<1> USE RenamePaths, ChangedParts, PathType
<1>0. p # << >>
  OBVIOUS
<1>1. CASE p \in Gone(t)
  <2>1. p \in Removed(D)
    BY <1>1, DiffRemoved
  <2>2. PICK c \in D : c.from = p
    BY <2>1 DEF Removed
  <2> QED
    BY <2>2, <1>0 DEF ChangeName
<1>2. CASE p \in New(t)
  <2>1. ~\E r \in R : r[2] = p
    <3>1. SUFFICES ASSUME NEW r \in R, r[2] = p PROVE FALSE
      OBVIOUS
    <3>2. [from |-> r[1], to |-> r[2]] \in D
      BY DEF DiffWith
    <3>3. r[1] # << >> /\ r[1] # r[2]
      OBVIOUS
    <3> QED
      BY <3>1, <3>2, <3>3 DEF RenamedTo
  <2>2. [from |-> << >>, to |-> p] \in D
    BY <1>2, <2>1, NewInDiff, Zenon
  <2> QED
    BY <2>2 DEF ChangeName
<1>3. CASE p \notin Gone(t) /\ p \notin New(t)
  <2>1. [from |-> p, to |-> p] \in D
    BY <1>3 DEF DiffWith
  <2> QED
    BY <2>1, <1>0 DEF ChangeName
<1> QED
  BY <1>1, <1>2, <1>3

-----------------------------------------------------------------------------
(* The inductive invariant: the diffs are those of the trees, no change is *)
(* known on both sides once that has been checked, and the result was      *)
(* built from them.                                                        *)

DiffsAreOfTrees ==
    /\ pc \in {"checking", "building", "merged"} =>
        /\ \E R \in Renames(a) : diffA = DiffWith(a, R)
        /\ \E R \in Renames(b) : diffB = DiffWith(b, R)
    /\ diffA \subseteq Change
    /\ diffB \subseteq Change

NamesApart ==
    pc \in {"building", "merged"} =>
        {ChangeName(c) : c \in diffA} \cap {ChangeName(c) : c \in diffB} = {}

ResultIsBuilt == pc = "merged" => merged = MergedTree

TreesType ==
    /\ base \in Tree
    /\ a \in Tree
    /\ b \in Tree
    /\ pc \in {"comparing", "checking", "building", "merged", "failed"}
    /\ merged \subseteq File

Inv == TreesType /\ DiffsAreOfTrees /\ NamesApart /\ ResultIsBuilt

LEMMA MergedType ==
    ASSUME TreesType, NEW R \in Renames(b), diffB = DiffWith(b, R)
    PROVE  MergedTree \subseteq File
<1>1. ASSUME NEW p \in Written(diffB)
      PROVE  p \in Path /\ b[p] \in Blob
  <2>1. p \in Changed(b) /\ b[p] # NoBlob
    BY <1>1, DiffWritten DEF TreesType
  <2> QED
    BY <2>1 DEF TreesType, Tree, Changed
<1>2. ASSUME NEW p \in Written(diffB)
      PROVE  [path |-> <<p[Len(p)]>>, blob |-> b[p]] \in File
  <2>1. p[Len(p)] \in Name
    BY <1>1, PathType
  <2>2. <<p[Len(p)]>> \in Seq(Name)
    BY <2>1
  <2> QED
    BY <1>1, <2>2 DEF File
<1>3. Files(a) \subseteq File
  <2>1. ASSUME NEW p \in Present(a) PROVE [path |-> p, blob |-> a[p]] \in File
    BY PathType DEF Present, TreesType, Tree, File
  <2> QED
    BY <2>1 DEF Files
<1> QED
  BY <1>2, <1>3 DEF MergedTree

LEMMA InitInv == Init => Inv
BY DEF Init, Inv, TreesType, DiffsAreOfTrees, NamesApart, ResultIsBuilt

(* The trees stay, and with them all that is said of them. *)
LEMMA SameTrees ==
    ASSUME UNCHANGED trees
    PROVE  /\ Renames(a)' = Renames(a)
           /\ Renames(b)' = Renames(b)
           /\ \A R : DiffWith(a, R)' = DiffWith(a, R)
           /\ \A R : DiffWith(b, R)' = DiffWith(b, R)
           /\ diffB' = diffB => MergedTree' = MergedTree
BY DEF trees, Renames, DiffWith, Gone, New, Changed, Present, MergedTree, Files

LEMMA NextInv == Inv /\ [Next]_vars => Inv'
<1> SUFFICES ASSUME Inv, [Next]_vars PROVE Inv'
  OBVIOUS
<1> USE DEF Inv, TreesType, DiffsAreOfTrees, NamesApart, ResultIsBuilt, vars, trees
<1>1. CASE CompareTrees
  <2>1. PICK R \in Renames(a), S \in Renames(b) :
            diffA' = DiffWith(a, R) /\ diffB' = DiffWith(b, S)
    BY <1>1 DEF CompareTrees
  <2>2. diffA' \subseteq Change /\ diffB' \subseteq Change
    BY <2>1, DiffType
  <2> QED
    BY <1>1, <2>1, <2>2, SameTrees DEF CompareTrees
<1>2. CASE CheckConflicts
  <2>1. pc' \in {"building", "failed"} /\ pc = "checking"
    BY <1>2 DEF CheckConflicts
  <2>2. DiffsAreOfTrees'
    BY <1>2, <2>1, SameTrees DEF CheckConflicts
  <2>3. NamesApart'
    BY <1>2, <2>1 DEF CheckConflicts, ChangeName
  <2> QED
    BY <1>2, <2>1, <2>2, <2>3 DEF CheckConflicts
<1>3. CASE BuildMergedTree
  <2>1. MergedTree \subseteq File
    BY <1>3, MergedType DEF BuildMergedTree
  <2>2. DiffsAreOfTrees'
    BY <1>3, SameTrees DEF BuildMergedTree
  <2>3. ResultIsBuilt'
    BY <1>3, SameTrees DEF BuildMergedTree
  <2>4. NamesApart'
    BY <1>3 DEF BuildMergedTree
  <2> QED
    BY <1>3, <2>1, <2>2, <2>3, <2>4 DEF BuildMergedTree
<1>4. CASE Fail
  BY <1>4 DEF Fail
<1>5. CASE UNCHANGED vars
  <2>1. DiffsAreOfTrees' /\ ResultIsBuilt'
    BY <1>5, SameTrees
  <2> QED
    BY <1>5, <2>1
<1> QED
  BY <1>1, <1>2, <1>3, <1>4, <1>5 DEF Next

LEMMA AlwaysInv == Spec => []Inv
BY InitInv, NextInv, PTL DEF Spec

(***************************************************************************)
(* Trees, diffs and the merged tree are of their types in every state of   *)
(* attemptMerge.                                                           *)
(***************************************************************************)
THEOREM TreeTypes == Spec => []TypeOK
<1>1. Inv => TypeOK
  BY DEF Inv, TreesType, DiffsAreOfTrees, TypeOK
<1> QED
  BY <1>1, AlwaysInv, PTL

(***************************************************************************)
(* No file that both sides have changed is merged, unless a rename leads   *)
(* to it (the conflict check of attemptMerge).                             *)
(***************************************************************************)
THEOREM ConflictsAreFound == Spec => []ConflictsFound
<1>1. Inv => ConflictsFound
  <2> SUFFICES ASSUME Inv, pc \in {"building", "merged"},
                      NEW p \in Changed(a) \cap Changed(b),
                      p \notin RenamedTo(diffA), p \notin RenamedTo(diffB)
               PROVE  FALSE
    BY DEF ConflictsFound
  <2> USE DEF Inv, TreesType, DiffsAreOfTrees
  <2>1. PICK R \in Renames(a), S \in Renames(b) :
            diffA = DiffWith(a, R) /\ diffB = DiffWith(b, S)
    OBVIOUS
  <2>2. /\ \E c \in diffA : ChangeName(c) = p
        /\ \E c \in diffB : ChangeName(c) = p
    BY <2>1, DiffNames
  <2> QED
    BY <2>2 DEF NamesApart
<1> QED
  BY <1>1, AlwaysInv, PTL

-----------------------------------------------------------------------------
(* Changes to files of the root directory.                                 *)

LEMMA RootPath ==
    ASSUME NEW p \in Path, Len(p) = 1
    PROVE  <<p[1]>> = p /\ <<p[Len(p)]>> = p
BY PathType

LEMMA AboveNested ==
    ASSUME NEW q \in Path, <<q[1]>> # q
    PROVE  Above(<<q[1]>>, q)
<1>0. Len(q) # 1
  BY RootPath
<1>a. Len(q) \in Nat \ {0} /\ q[1] \in Name
  BY PathType
<1>1. Len(q) > 1 /\ q[1] \in Name
  BY <1>0, <1>a
<1>2. Len(<<q[1]>>) = 1 /\ <<q[1]>>[1] = q[1]
  OBVIOUS
<1> QED
  BY <1>1, <1>2, PathType DEF Above

(* A path of A below a changed name would clash with it in one of the trees. *)
LEMMA NothingBelow ==
    ASSUME TreesType, Mergeable, NEW q \in Present(a), q \notin Changed(b)
    PROVE  <<q[1]>> \notin Changed(b)
<1> DEFINE n == <<q[1]>>
<1> SUFFICES ASSUME n \in Changed(b) PROVE FALSE
  OBVIOUS
<1>1. n \in Path /\ n # q /\ q \in Path
  BY DEF Changed, Present
<1>2. Above(n, q)
  BY <1>1, AboveNested
<1> HIDE DEF n
<1>3. CASE b[n] # NoBlob
  <2>1. n \in Present(ThreeWay) /\ q \in Present(ThreeWay)
    BY <1>1, <1>3 DEF Present, ThreeWay
  <2> QED
    BY <1>2, <2>1 DEF Mergeable, Proper
<1>4. CASE b[n] = NoBlob
  <2>1. base[n] # NoBlob
    BY <1>4 DEF Changed
  <2>2. a[n] = base[n]
    BY <1>1 DEF Mergeable, Changed
  <2>3. n \in Present(a)
    BY <1>1, <2>1, <2>2 DEF Present
  <2>4. Proper(a)
    BY DEF TreesType, Tree
  <2> QED
    BY <1>2, <2>3, <2>4 DEF Proper
<1> QED
  BY <1>3, <1>4

LEMMA RootMergeIsThreeWay ==
    ASSUME TreesType, Mergeable, NEW R \in Renames(b), diffB = DiffWith(b, R),
           \A p \in Changed(b) : Len(p) = 1
    PROVE  MergedTree = Files(ThreeWay)
<1> DEFINE written == {p \in Changed(b) : b[p] # NoBlob}
           kept    == {f \in Files(a) : <<f.path[1]>> \notin Changed(b)}
           new     == {[path |-> p, blob |-> b[p]] : p \in written}
<1>1. Written(diffB) = written
  BY DiffWritten DEF TreesType
<1>2. Written(diffB) \cup Removed(diffB) = Changed(b)
  <2>1. Removed(diffB) = {p \in Changed(b) : b[p] = NoBlob}
    BY DiffRemoved, ChangedParts DEF TreesType
  <2> QED
    BY <1>1, <2>1
<1>3. \A p \in Changed(b) : p \in Path /\ <<p[1]>> = p /\ <<p[Len(p)]>> = p
  BY RootPath DEF Changed
<1>4. MergedTree = kept \cup new
  <2>1. {[path |-> <<p[Len(p)]>>, blob |-> b[p]] : p \in written} = new
    BY <1>3
  <2> QED
    BY <1>1, <1>2, <2>1 DEF MergedTree
<1>5. kept \subseteq Files(ThreeWay)
  <2> SUFFICES ASSUME NEW f \in kept PROVE f \in Files(ThreeWay)
    OBVIOUS
  <2>0. PICK q \in Present(a) : f = [path |-> q, blob |-> a[q]]
    BY DEF Files
  <2>1. q \in Path /\ q \notin Changed(b)
    BY <1>3, <2>0 DEF Present
  <2>2. ThreeWay[q] = a[q] /\ q \in Present(ThreeWay)
    BY <2>1 DEF ThreeWay, Present
  <2> QED
    BY <2>0, <2>2 DEF Files
<1>6. new \subseteq Files(ThreeWay)
  <2> SUFFICES ASSUME NEW p \in written
               PROVE  [path |-> p, blob |-> b[p]] \in Files(ThreeWay)
    OBVIOUS
  <2>1. ThreeWay[p] = b[p] /\ p \in Present(ThreeWay)
    BY <1>3 DEF ThreeWay, Present
  <2> QED
    BY <2>1 DEF Files
<1>7. Files(ThreeWay) \subseteq kept \cup new
  <2> SUFFICES ASSUME NEW q \in Present(ThreeWay)
               PROVE  [path |-> q, blob |-> ThreeWay[q]] \in kept \cup new
    BY DEF Files
  <2>1. CASE q \in Changed(b)
    <3>1. ThreeWay[q] = b[q] /\ q \in written
      BY <2>1 DEF ThreeWay, Present
    <3> QED
      BY <3>1
  <2>2. CASE q \notin Changed(b)
    <3>1. ThreeWay[q] = a[q] /\ q \in Present(a)
      BY <2>2 DEF ThreeWay, Present
    <3>2. <<q[1]>> \notin Changed(b)
      BY <2>2, <3>1, NothingBelow
    <3>3. [path |-> q, blob |-> a[q]] \in Files(a)
      BY <3>1 DEF Files
    <3> QED
      BY <3>1, <3>2, <3>3
  <2> QED
    BY <2>1, <2>2
<1> QED
  BY <1>4, <1>5, <1>6, <1>7

(***************************************************************************)
(* What buildMergedTree makes of changes to files in the root directory is *)
(* the three-way merge, whatever A has changed.                            *)
(***************************************************************************)
THEOREM RootMerge == Spec => []RootChangesMerge
<1>1. Inv => RootChangesMerge
  <2> SUFFICES ASSUME Inv, pc = "merged", Mergeable, \A p \in Changed(b) : Len(p) = 1
               PROVE  merged = Files(ThreeWay)
    BY Zenon DEF RootChangesMerge
  <2>1. PICK R \in Renames(b) : diffB = DiffWith(b, R)
    BY DEF Inv, DiffsAreOfTrees
  <2>2. MergedTree = Files(ThreeWay)
    BY <2>1, RootMergeIsThreeWay DEF Inv
  <2> QED
    BY <2>2 DEF Inv, ResultIsBuilt
<1> QED
  BY <1>1, AlwaysInv, PTL
=============================================================================
