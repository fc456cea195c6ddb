-------------------------- MODULE MCArtifactState --------------------------
(***************************************************************************)
(* Two processes started in one directory.                                 *)
(***************************************************************************)
EXTENDS ArtifactState, TLC

CONSTANTS s1, s2

ServerSymmetry == Permutations(Server)
=============================================================================
