--------------------------- MODULE MCInterruptions ---------------------------
(***************************************************************************)
(* A small instance of Interruptions.                                      *)
(***************************************************************************)
EXTENDS Interruptions, TLC

CONSTANTS r1, r2, p1, p2, n1, n2, s1

(* Calls of one client working on plan p1: each kind of signals and of     *)
(* confirmation, and every binding presented with gated or harmless ones.  *)
SessionCalls ==
    [signals : {p1}, confirm : [mode : {"NONE", "INVALID_LEGACY_TRUE"}]
                                 \cup [mode : {"ACK"}, receipt_id : Rid]] \cup
    [signals : {"absent", "low", "extreme"}, confirm : [mode : {"NONE"}]] \cup
    [signals : {p1, "low"}, confirm : [mode : {"EXECUTE"}, key : Key]]

SessionSymmetry == Permutations(Rid) \cup Permutations(Nonce)
=============================================================================
