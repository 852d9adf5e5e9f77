---------------------------- MODULE MCGroupRekey ----------------------------
(***************************************************************************)
(* GroupRekey for TLC: the stations are interchangeable, which the safety  *)
(* runs use.                                                               *)
(***************************************************************************)
EXTENDS GroupRekey, TLC

StaSymmetry == Permutations(STA)
=============================================================================
