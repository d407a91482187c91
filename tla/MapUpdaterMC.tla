---------------------------- MODULE MapUpdaterMC ----------------------------
(* Finite instances of MapUpdater for TLC: a continent, and a dungeon and a  *)
(* raid with their instances.                                                *)
EXTENDS MapUpdater

CONSTANTS continent, dungeon, raid, i1, i2, i3

MCBase   == {continent, dungeon, raid}
MCParent == [i \in Instance |-> IF i = i3 THEN raid ELSE dungeon]
=============================================================================
