---------------------------- MODULE MCRepoSync ----------------------------
(***************************************************************************)
(* A small instance of RepoSync.  History: root <- base, base <- left,     *)
(* base <- right, and a merge of left and right.                           *)
(***************************************************************************)
EXTENDS RepoSync, TLC

CONSTANTS root, base, left, right, merged

Pushed == {root, base, left, right}
MCAnc == root :> {root} @@ base :> {root, base}
         @@ left :> {root, base, left} @@ right :> {root, base, right}
         @@ merged :> Pushed \cup {merged}

(* Repository A is ahead; a push to B makes them diverge, or agree. *)
MCAheadA == {"A" :> left @@ "B" :> base}

(* Each remote has the other's commits on some other branch. *)
MCEverywhere == [s \in Side |-> Pushed]

(* The remotes share nothing but the branch. *)
MCNowhere == [s \in Side |-> {}]
=============================================================================
