---------------------------- MODULE SyncPromise ----------------------------
(***************************************************************************)
(* What the sync controller and the resolver together promise of a         *)
(* GitRepoSync and its GitPushTransactions, whatever pods, stale copies,   *)
(* retries and failures there are underneath: each status that is stored   *)
(* is evident from the history and from the transactions there are;        *)
(* manual intervention is required, and a merge waited for, only of a      *)
(* conflict that was stored just before, with the same commits; a          *)
(* transaction asks for a fast-forward and ends once.                      *)
(* What they do not promise is that the commits of a status are the        *)
(* heads of the branches by the time it is stored.                         *)
(***************************************************************************)
EXTENDS CommitGraph

CONSTANT MergeCommit    \* the commits the resolver makes

VARIABLES
    status,     \* the stored status of the GitRepoSync
    txns        \* its transactions

Init ==
    /\ status = [phase |-> "", a |-> NoCommit, b |-> NoCommit, base |-> NoCommit]
    /\ txns = {}

Asked(target, source, expected) ==
    \E t \in txns : t.target = target /\ t.source = source /\ t.expected = expected

-----------------------------------------------------------------------------
(* Statuses.                                                               *)

(* The same commit on both sides. *)
Agree(s) == s.phase = "InSync" /\ s.a = s.b /\ s.base = s.a

(* One side is behind, and the commit of the other was asked for it. *)
BehindAsked(s) ==
    /\ s.phase = "Syncing"
    /\ {s.a, s.b} \subseteq Commit
    /\ \/ s.base = s.a /\ s.a \in Anc[s.b] /\ Asked("A", s.b, s.a)
       \/ s.base = s.b /\ s.b \in Anc[s.a] /\ Asked("B", s.a, s.b)

(* A conflict: of commits that have diverged, when it has a merge base. *)
Conflict(s) ==
    /\ s.phase = "Conflicted"
    /\ s.base # NoCommit =>
        /\ {s.a, s.b} \subseteq Commit
        /\ s.base \in (Anc[s.a] \cap Anc[s.b]) \ {s.a, s.b}
        /\ \A d \in Anc[s.a] \cap Anc[s.b] : s.base \in Anc[d] => d = s.base

(* A merge of both commits was asked for both sides. *)
MergeAsked(s) ==
    /\ s.phase = "Syncing"
    /\ {s.a, s.b, s.base} \subseteq Commit
    /\ \E m \in MergeCommit :
        /\ Anc[m] = {m} \cup Anc[s.a] \cup Anc[s.b]
        /\ Asked("A", m, s.a)
        /\ Asked("B", m, s.b)

GivenUp(s) == s.phase = "RequiresManualIntervention"

-----------------------------------------------------------------------------
(* The sync controller reports on two heads, whatever was stored before. *)
Report ==
    /\ Agree(status') \/ BehindAsked(status') \/ Conflict(status')
    /\ UNCHANGED txns

(* The resolver concludes the conflict that is stored. *)
Resolve ==
    /\ status.phase = "Conflicted"
    /\ status = [status' EXCEPT !.phase = "Conflicted"]
    /\ MergeAsked(status') \/ GivenUp(status')
    /\ UNCHANGED txns

(* Either of them asks for a push. *)
Ask ==
    /\ \E target \in {"A", "B"}, source, expected \in Commit :
        /\ FastForward(expected, source)
        /\ txns' = txns \cup {[target |-> target, source |-> source, expected |-> expected,
                               phase |-> "Pending"]}
    /\ UNCHANGED status

(* The push controller ends a transaction. *)
End(t) ==
    /\ t.phase = "Pending"
    /\ \E phase \in {"Succeeded", "Failed"} :
        txns' = (txns \ {t}) \cup {[t EXCEPT !.phase = phase]}
    /\ UNCHANGED status

Next == Report \/ Resolve \/ Ask \/ \E t \in txns : End(t)

Spec == Init /\ [][Next]_<<status, txns>>
=============================================================================
