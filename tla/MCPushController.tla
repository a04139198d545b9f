-------------------------- MODULE MCPushController --------------------------
(***************************************************************************)
(* Small instances of PushController.  History: base <- left, base <- right*)
(* and left <- tip, so that left and right have diverged.                  *)
(***************************************************************************)
EXTENDS PushController, TLC

CONSTANTS base, left, right, tip, main, side, k1, t1, r1

MCAnc == base :> {base} @@ left :> {base, left} @@ right :> {base, right}
         @@ tip :> {base, left, tip}

(* The same history without tip. *)
MCAncFork == [c \in {base, left, right} |-> MCAnc[c]]

(* Lines of history. *)
MCAncLine == [c \in {base, left} |-> MCAnc[c]]
MCAncLine3 == [c \in {base, left, tip} |-> MCAnc[c]]

Push(source, destination, expected) ==
    [plus |-> FALSE, source |-> source, destination |-> destination, expectedOldCommit |-> expected]

OneTxn(refSpecs, atomic) ==
    t1 :> [repositoryRef |-> r1, refSpecs |-> refSpecs, atomic |-> atomic]

(* A ref and a SHA, pushed atomically. *)
MCMixed == OneTxn(<<Push(main, side, NoCommit), Push(base, main, NoCommit)>>, TRUE)

(***************************************************************************)
(* A ref that only a clone which has been fetched into holds, and a SHA    *)
(* that a leading "+" forces on its branch.                                *)
(***************************************************************************)
MCForced == OneTxn(<<Push(side, side, NoCommit),
                     [Push(base, main, NoCommit) EXCEPT !.plus = TRUE]>>, TRUE)

(* What the sync controller creates: one SHA, with the commit it replaces. *)
MCSync == OneTxn(<<Push(left, main, base)>>, TRUE)
MCSyncTip == OneTxn(<<Push(tip, main, base)>>, TRUE)

MCCrSide == k1 :> [repositoryRef |-> r1, branchName |-> side]

MCCrNone == << >>
=============================================================================
