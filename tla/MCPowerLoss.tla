---------------------------- MODULE MCPowerLoss ----------------------------
(***************************************************************************)
(* Two processes that contend for the receipts of one plan.                *)
(***************************************************************************)
EXTENDS PowerLoss, TLC

CONSTANTS r1, p1, n1, s1, s2

ContendingCalls ==
    [signals : {p1}, confirm : [mode : {"NONE"}] \cup [mode : {"EXECUTE"}, key : Key]]

ServerSymmetry == Permutations(Server)
=============================================================================
