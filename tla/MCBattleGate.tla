---------------------------- MODULE MCBattleGate ----------------------------
(***************************************************************************)
(* Small instances of BattleGate for TLC.                                  *)
(***************************************************************************)
EXTENDS BattleGate

CONSTANTS p1, p2, ryu, ken
=============================================================================
