---------------------------- MODULE LootRollsMC ----------------------------
(***************************************************************************)
(* A party of three, a corpse and a chest with an item each.               *)
(***************************************************************************)
EXTENDS LootRolls, TLC

CONSTANTS corpse, chest, sword, ring

MCSourceOf == (sword :> corpse) @@ (ring :> chest)
=============================================================================
