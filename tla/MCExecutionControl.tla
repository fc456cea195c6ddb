------------------------- MODULE MCExecutionControl -------------------------
(***************************************************************************)
(* Small instances of ExecutionControl.                                    *)
(***************************************************************************)
EXTENDS ExecutionInvariant, TLC

CONSTANTS r1, r2, p1, p2, n1, n2, s1, s2

(* Calls that contend for one plan: asking for a receipt of it, and        *)
(* presenting any receipt for it.                                          *)
ContendingCalls ==
    [signals : {p1}, confirm : [mode : {"NONE"}] \cup [mode : {"EXECUTE"}, key : Key]]

(* Calls of one client working on plan p1: each kind of signals and of     *)
(* confirmation, and every binding presented with gated or harmless ones.  *)
SessionCalls ==
    [signals : {p1}, confirm : [mode : {"NONE", "INVALID_LEGACY_TRUE"}]
                                 \cup [mode : {"ACK"}, receipt_id : Rid \cup {None}]] \cup
    [signals : {"absent", "low", "extreme"}, confirm : [mode : {"NONE"}]] \cup
    [signals : {p1, "low"}, confirm : [mode : {"EXECUTE"}, key : Key]]

SessionSymmetry == Permutations(Rid) \cup Permutations(Nonce)
ProcessSymmetry == Permutations(Server) \cup Permutations(Rid)
=============================================================================
