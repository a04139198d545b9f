---------------------------- MODULE MCWorkspace ----------------------------
(* Small instances of Workspace. *)
EXTENDS Workspace, TLC

CONSTANTS w1, w2, w3, q1, q2

(* One controller process, or a second one during a rolling update. *)
MCOnePod  == [w \in Worker |-> q1]
MCTwoPods == [w \in Worker |-> IF w = w2 THEN q2 ELSE q1]

(* Refs are interchangeable. *)
MCSymmetry == Permutations(Ref)
=============================================================================
