---------------------------- MODULE MCPotManager ----------------------------
(***************************************************************************)
(* PotManager for TLC: every table of four players whose stakes are up to  *)
(* three levels apart, with and without money nobody at the table staked.  *)
(***************************************************************************)
EXTENDS PotManager

SmallStakes == {0, 1, 2, 4}
SmallExtra == {0, 3}
=============================================================================
