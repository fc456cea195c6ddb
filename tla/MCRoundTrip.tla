----------------------------- MODULE MCRoundTrip -----------------------------
(***************************************************************************)
(* Clients that all work on one plan.                                      *)
(***************************************************************************)
EXTENDS RoundTrip

CONSTANTS p1, p2, n1, n2, s1, s2

OnePlan == [s \in Server |-> p1]

ContendingCalls ==
    [signals : Signals \ {"absent"},
     confirm : [mode : {"NONE"}] \cup [mode : {"EXECUTE"}, key : Key]]

(* Nonces are only compared with the one stored for the same receipt, so   *)
(* all that are drawn may be n1: n2 is for presenting another one.         *)
DrawsFirst ==
    \A s \in Server :
        LET receipt == req[s].receipt IN
        receipt # None /\ receipt.nonce # n1 => IsExecute(CallOf(s)) /\ receipt = Confirmed(s)
=============================================================================
