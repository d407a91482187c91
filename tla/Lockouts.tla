------------------------------ MODULE Lockouts ------------------------------
(***************************************************************************)
(* What the instance system promises a party (a player without a group, or *)
(* a group): it is locked to at most one instance of a dungeon, no two     *)
(* parties to the same instance, and the lock stays, through logouts, un-  *)
(* loaded maps and restarts of the server, until the instance is reset.    *)
(* InstanceSave, InstancePlayerBind and InstanceGroupBind of game/         *)
(* Instances/InstanceSaveMgr.h and Player.h, Group.h.                      *)
(***************************************************************************)
CONSTANTS Party, Dungeon, InstanceId,
          NoLock   \* not an instance

VARIABLE lock     \* the instance of a dungeon a party is locked to

Lock   == [Party -> [Dungeon -> InstanceId \cup {NoLock}]]
Locked == {lock[p][d] : p \in Party, d \in Dungeon} \ {NoLock}

Init == lock = [p \in Party |-> [d \in Dungeon |-> NoLock]]

\* The first of the party to enter a dungeon locks it to a new instance.
Acquire(p, d) ==
  /\ lock[p][d] = NoLock
  /\ \E id \in InstanceId \ Locked : lock' = [lock EXCEPT ![p][d] = id]

\* Some instances are reset: everyone locked to them is free of them.
Reset(ids) ==
  /\ ids # {}
  /\ lock' = [p \in Party |-> [d \in Dungeon |->
                IF lock[p][d] \in ids THEN NoLock ELSE lock[p][d]]]

Next ==
  \/ \E p \in Party, d \in Dungeon : Acquire(p, d)
  \/ \E ids \in SUBSET Locked : Reset(ids)

Spec == Init /\ [][Next]_lock
=============================================================================
