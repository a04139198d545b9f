---------------------------- MODULE CommitGraph ----------------------------
(***************************************************************************)
(* The Git history the controllers reason about.  A commit is a model      *)
(* value; what matters of it is which commits are reachable from it.  The  *)
(* empty string the code uses for "no commit SHA" is NoCommit.             *)
(***************************************************************************)
CONSTANTS
    Commit,     \* the commits that can ever exist
    Anc,        \* Anc[c]: the commits reachable from c, c included
    NoCommit    \* the empty SHA: an absent ref, or a field that was never set

ASSUME CommitGraphAssumption ==
    /\ NoCommit \notin Commit
    /\ Anc \in [Commit -> SUBSET Commit]
    /\ \A c \in Commit : c \in Anc[c]
    /\ \A c, d \in Commit : d \in Anc[c] => Anc[d] \subseteq Anc[c]
    /\ \A c, d \in Commit : d \in Anc[c] /\ c \in Anc[d] => c = d

MaybeCommit == Commit \cup {NoCommit}

(***************************************************************************)
(* Moving a ref from old to new loses no history: the ref did not exist,   *)
(* or new contains old.  (The check go-git makes for a refspec without a   *)
(* leading "+".)                                                           *)
(***************************************************************************)
FastForward(old, new) ==
    \/ old = NoCommit
    \/ old \in Commit /\ new \in Commit /\ old \in Anc[new]

(***************************************************************************)
(* The branch whose head is head has commit in its history.                *)
(***************************************************************************)
InHistory(commit, head) == head \in Commit /\ commit \in Anc[head]

(***************************************************************************)
(* The objects a clone of a repository with these branch heads holds.      *)
(***************************************************************************)
Reachable(heads) == UNION {Anc[c] : c \in heads \ {NoCommit}}
=============================================================================
