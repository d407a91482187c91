----------------------------- MODULE InstancesMC -----------------------------
(* Finite instances of Instances for TLC. *)
EXTENDS Instances, TLC

CONSTANTS p1, p2, p3, alone, group

\* A group of two and a player alone; or a group with one member online.
MCPartyOf  == [p \in Player |-> IF p = p3 THEN alone ELSE group]
MCSymmetry == {f @@ g : f \in Permutations(Object), g \in Permutations(Player \ {p3})}
=============================================================================
