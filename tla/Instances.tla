----------------------------- MODULE Instances -----------------------------
(***************************************************************************)
(* Instance maps, the saves and binds that tie a party to its instance,    *)
(* and the scheduled resets: game/Instances/InstanceSaveMgr.cpp, game/Maps *)
(* (MapInstanced.cpp, InstanceMap in Map.cpp), and their callers in Player,*)
(* Group and WorldSession.                                                 *)
(*                                                                         *)
(* Dungeons of normal difficulty, parties that do not change their members *)
(* (a player alone, or a raid group, which logging out does not leave).    *)
(* A reset event is due two hours after the instance was made or last used:*)
(* any pending event may be the next to become due.                        *)
(***************************************************************************)
EXTENDS Integers, FiniteSets

CONSTANTS Player, Party, PartyOf,   \* who belongs to which party
          Group,                    \* the parties that are groups
          Dungeon,
          Object,                   \* InstanceMap objects
          MaxId,                    \* bound on instance ids
          MaxEvents,                \* bound on the events of an instance
          NULL

ASSUME PartyAssumption ==
  /\ PartyOf \in [Player -> Party]
  /\ Group \subseteq Party
  /\ \A p, q \in Player : PartyOf[p] = PartyOf[q] => p = q \/ PartyOf[p] \in Group
ASSUME NullAssumption ==
  /\ NULL \notin Object \cup Dungeon \cup (1..MaxId)
  /\ NULL \notin [map : Dungeon, parties : SUBSET Party]
  /\ NULL \notin [dungeon : Dungeon, id : 1..MaxId]
ASSUME BoundAssumption == MaxId \in Nat /\ MaxEvents \in Nat \ {0}

VARIABLES
  where,            \* of a player: "offline", "outside", "inside" a dungeon, or "transit":
                    \* removed from it, waiting for his client (MSG_MOVE_WORLDPORT_ACK)
  link,             \* his m_mapRef: the instance map he is in, or was last in
  map,              \* a live InstanceMap: its dungeon and id; NULL otherwise
  timer,            \* maps whose m_unloadTimer is set
  m_InstancedMaps,  \* the registered map of a dungeon and id
  bind,             \* m_boundInstances of a player alone, or of a group
  save,             \* m_instanceSaveById: map and bound parties of a loaded InstanceSave
  events,           \* how often the reset of a dungeon and id is scheduled
  late,             \* history: ids the last start marked without scheduling a reset, and
                    \* that nothing has scheduled since
  used,             \* ids marked in _instanceIds
  row,              \* table instance: the dungeon of an id
  dbBind            \* tables character_instance, group_instance

players == <<where, link>>
maps    == <<map, timer, m_InstancedMaps>>
saves   == <<bind, save>>
tables  == <<row, dbBind>>
resets  == <<events, late>>
vars    == <<players, maps, saves, resets, used, tables>>

Id     == 1..MaxId
Solo   == Party \ Group
Save   == [map : Dungeon, parties : SUBSET Party]
Where  == {"offline", "outside", "inside", "transit"}
NoBind == [d \in Dungeon |-> NULL]

TypeOK ==
  /\ where \in [Player -> Where]
  /\ link \in [Player -> Object \cup {NULL}]
  /\ \A p \in Player : link[p] # NULL <=> where[p] \in {"inside", "transit"}
  /\ map \in [Object -> [dungeon : Dungeon, id : Id] \cup {NULL}]
  /\ timer \in SUBSET Object
  /\ m_InstancedMaps \in [Dungeon \X Id -> Object \cup {NULL}]
  /\ bind \in [Party -> [Dungeon -> Id \cup {NULL}]]
  /\ save \in [Id -> Save \cup {NULL}]
  /\ events \in [Dungeon \X Id -> 0..MaxEvents]
  /\ late \in SUBSET Id
  /\ used \in SUBSET Id
  /\ row \in [Id -> Dungeon \cup {NULL}]
  /\ dbBind \in [Party -> SUBSET Id]

Init ==
  /\ where = [p \in Player |-> "offline"]
  /\ link = [p \in Player |-> NULL]
  /\ map = [o \in Object |-> NULL]
  /\ timer = {}
  /\ m_InstancedMaps = [k \in Dungeon \X Id |-> NULL]
  /\ bind = [q \in Party |-> NoBind]
  /\ save = [id \in Id |-> NULL]
  /\ events = [k \in Dungeon \X Id |-> 0]
  /\ late = {}
  /\ used = {}
  /\ row = [id \in Id |-> NULL]
  /\ dbBind = [q \in Party |-> {}]

-----------------------------------------------------------------------------
(* Helpers *)

Loaded       == {o \in Object : map[o] # NULL}
Key(o)       == <<map[o].dungeon, map[o].id>>
Registered   == {o \in Loaded : m_InstancedMaps[Key(o)] = o}
LinkedTo(o)  == {p \in Player : link[p] = o}
HavePlayers(o) == LinkedTo(o) # {}
Scheduled(id) == \E d \in Dungeon : events[<<d, id>>] > 0

\* GenerateInstanceId, as long as its vector is not overrun (InstanceIds).
\* Mutant: the next id is the number of ids in use.
GenerateCount(id) == id = Cardinality(used) + 1
Generate(id)      == id \notin used /\ \A lower \in 1..(id - 1) : lower \in used

\* DeleteInstanceFromDB: the rows of some ids, and of the binds to them.
WithoutRow(ids) == [id \in Id |-> IF id \in ids THEN NULL ELSE row[id]]
Forgotten(ids)  == [q \in Party |-> dbBind[q] \ ids]

\* Player::ResetMap, or the player is deleted.  Mutant: he stays linked.
StillLinked(p) == link
Unlinked(p)    == [link EXCEPT ![p] = NULL]

\* A party leaves the list of its saves; an empty save is unloaded (UnloadIfEmpty).
Released(q, s) ==
  IF s = NULL \/ s.parties \subseteq {q} THEN NULL ELSE [s EXCEPT !.parties = @ \ {q}]

-----------------------------------------------------------------------------
(* Entering *)

\* HandleMoveWorldportAckOpcode, CreateInstance and InstanceMap::Add for a player
\* who is let in to the map o of an instance: the save is found or made and its
\* reset scheduled, the party bound, the player moved.  SetResetSchedule(false)
\* finds the player linked already and cancels nothing.
EventsOnEntry(k, isNew) == IF isNew THEN [events EXCEPT ![k] = @ + 1] ELSE events

Add(p, d, id, o) ==
  LET q     == PartyOf[p]
      isNew == save[id] = NULL
      here  == IF isNew THEN [map |-> d, parties |-> {}] ELSE save[id]
  IN  /\ isNew => events[<<d, id>>] < MaxEvents
      /\ save' = [save EXCEPT ![id] = [here EXCEPT !.parties = @ \cup {q}]]
      /\ bind' = [bind EXCEPT ![q][here.map] = id]
      /\ dbBind' = [dbBind EXCEPT ![q] = @ \cup {id}]
      /\ row' = IF isNew THEN [row EXCEPT ![id] = d] ELSE row
      /\ events' = EventsOnEntry(<<d, id>>, isNew)
      /\ late' = IF isNew THEN late \ {id} ELSE late
      /\ timer' = timer \ {o}
      /\ link' = [link EXCEPT ![p] = o]
      /\ where' = [where EXCEPT ![p] = "inside"]

\* A player who is not in dungeon d (a teleport within a map is not a far one).
CanTravel(p, d) ==
  \/ where[p] = "outside"
  \/ where[p] = "transit" /\ map[link[p]].dungeon # d

\* InstanceMap::CanEnter: nobody of another group inside.
CanEnter(p, o) == \A other \in LinkedTo(o) : PartyOf[other] = PartyOf[p]

\* The map of the instance the party is bound to is loaded.
EnterLoaded(p, d) ==
  LET id == bind[PartyOf[p]][d]
  IN  /\ CanTravel(p, d) /\ id # NULL
      /\ LET o == m_InstancedMaps[<<d, id>>]
         IN  /\ o # NULL /\ CanEnter(p, o)
             /\ Add(p, d, id, o)
      /\ UNCHANGED <<map, m_InstancedMaps, used>>

\* CreateInstance: a new map object, registered under its id.
NewMap(d, id, o) ==
  /\ map[o] = NULL
  /\ map' = [map EXCEPT ![o] = [dungeon |-> d, id |-> id]]
  /\ m_InstancedMaps' = [m_InstancedMaps EXCEPT ![<<d, id>>] = o]

\* The party is bound to an instance whose map is not loaded.
EnterSaved(p, d) ==
  LET id == bind[PartyOf[p]][d]
  IN  /\ CanTravel(p, d) /\ id # NULL
      /\ m_InstancedMaps[<<d, id>>] = NULL
      /\ \E o \in Object : NewMap(d, id, o) /\ Add(p, d, id, o)
      /\ UNCHANGED used

\* The party is not bound: a new id and a new map.
EnterNew(p, d) ==
  /\ CanTravel(p, d) /\ bind[PartyOf[p]][d] = NULL
  /\ \E id \in Id :
       /\ Generate(id)
       /\ used' = used \cup {id}
       /\ \E o \in Object : NewMap(d, id, o) /\ Add(p, d, id, o)

-----------------------------------------------------------------------------
(* Leaving *)

\* InstanceMap::Remove sets the unload timer for the last player.
TimerOnRemove(o) == IF Cardinality(LinkedTo(o)) = 1 THEN timer \cup {o} ELSE timer

\* TeleportTo out of the dungeon: the player keeps his link to the map until his
\* client answers, so SetResetSchedule(true) finds players and does nothing.
Leave(p) ==
  /\ where[p] = "inside"
  /\ where' = [where EXCEPT ![p] = "transit"]
  /\ timer' = TimerOnRemove(link[p])
  /\ UNCHANGED <<link, map, m_InstancedMaps, saves, resets, used, tables>>

\* The client answers: HandleMoveWorldportAckOpcode to a map of the open world.
Arrive(p) ==
  /\ where[p] = "transit"
  /\ where' = [where EXCEPT ![p] = "outside"]
  /\ link' = Unlinked(p)
  /\ UNCHANGED <<maps, saves, resets, used, tables>>

\* Player::CleanupsBeforeDelete: a player alone releases his saves; a group keeps its
\* own.
SavesAfterLogout(q) ==
  IF q \in Group THEN save
  ELSE [id \in Id |-> IF id \in {bind[q][d] : d \in Dungeon} THEN Released(q, save[id])
                      ELSE save[id]]

\* LogoutPlayer: the saves are released before Map::Remove, which deletes the player
\* and schedules the reset if the map is empty and its save still loaded.
Logout(p) ==
  LET q    == PartyOf[p]
      o    == link[p]
      last == o # NULL /\ LinkedTo(o) = {p}
  IN  /\ where[p] \in {"outside", "inside"}
      /\ where' = [where EXCEPT ![p] = "offline"]
      /\ link' = Unlinked(p)
      /\ save' = SavesAfterLogout(q)
      /\ bind' = IF q \in Group THEN bind ELSE [bind EXCEPT ![q] = NoBind]
      /\ timer' = IF o = NULL THEN timer ELSE TimerOnRemove(o)
      /\ IF last /\ save'[map[o].id] # NULL
         THEN /\ events[Key(o)] < MaxEvents
              /\ events' = [events EXCEPT ![Key(o)] = @ + 1]
              /\ late' = late \ {map[o].id}
         ELSE UNCHANGED resets
      /\ UNCHANGED <<map, m_InstancedMaps, used, tables>>

\* _LoadBoundInstances: a player alone is bound to what his rows say.
Login(p) ==
  LET q == PartyOf[p]
  IN  /\ where[p] = "offline"
      /\ where' = [where EXCEPT ![p] = "outside"]
      /\ IF q \in Group THEN UNCHANGED saves
         ELSE /\ bind' = [bind EXCEPT ![q] = [d \in Dungeon |->
                            IF \E id \in dbBind[q] : row[id] = d
                            THEN CHOOSE id \in dbBind[q] : row[id] = d ELSE NULL]]
              /\ save' = [id \in Id |->
                            IF id \notin dbBind[q] THEN save[id]
                            ELSE IF save[id] = NULL THEN [map |-> row[id], parties |-> {q}]
                            ELSE [save[id] EXCEPT !.parties = @ \cup {q}]]
      /\ UNCHANGED <<link, maps, resets, used, tables>>

-----------------------------------------------------------------------------
(* Resets and unloading *)

\* Player::ResetInstances and Group::ResetInstances, "reset all instances": the
\* instances without players, or not loaded.  The id stays marked; its event frees
\* it.
ResetInstances(q) ==
  LET mapOf(d)   == m_InstancedMaps[<<d, bind[q][d]>>]
      resettable == {d \in Dungeon : /\ bind[q][d] # NULL
                                     /\ mapOf(d) = NULL \/ ~HavePlayers(mapOf(d))}
      ids        == {bind[q][d] : d \in resettable}
  IN  /\ \E p \in Player : PartyOf[p] = q /\ where[p] \in {"outside", "inside"}
      /\ resettable # {}
      /\ timer' = timer \cup {mapOf(d) : d \in {e \in resettable : mapOf(e) # NULL}}
      /\ row' = WithoutRow(ids)
      /\ dbBind' = Forgotten(ids)
      /\ bind' = [bind EXCEPT ![q] = [d \in Dungeon |-> IF d \in resettable THEN NULL ELSE @[d]]]
      /\ save' = [id \in Id |-> IF id \in ids THEN Released(q, save[id]) ELSE save[id]]
      /\ UNCHANGED <<players, map, m_InstancedMaps, resets, used>>

\* _ResetSave: everyone on the lists of the save is unbound from its map.
\* Mutant: the groups are forgotten.
UnboundPlayersOnly(id) ==
  [q \in Party |-> [d \in Dungeon |->
     IF q \in Solo /\ save[id] # NULL /\ q \in save[id].parties /\ d = save[id].map
     THEN NULL ELSE bind[q][d]]]
Unbound(id) ==
  [q \in Party |-> [d \in Dungeon |->
     IF save[id] # NULL /\ q \in save[id].parties /\ d = save[id].map
     THEN NULL ELSE bind[q][d]]]

\* Mutant: the save stays loaded.
UnsavedNot(id) == save
Unsaved(id)    == [save EXCEPT ![id] = NULL]

\* _ResetInstance frees the id, also when the map goes on with players inside or the save
\* is not loaded.  Mutants: it does not in the one case, or in the other.
Inhabited(id)     == \E p \in Player : link[p] # NULL /\ map[link[p]].id = id
FreedIfEmpty(id)  == IF Inhabited(id) THEN used ELSE used \ {id}
FreedIfLoaded(id) == IF save[id] = NULL THEN used ELSE used \ {id}
Freed(id)         == used \ {id}

\* InstanceSaveManager::Update takes an event of an instance, _ResetInstance resets the
\* instance with that id, whatever its dungeon, and frees the id.  A map with players
\* inside goes on; an empty one is unloaded.
FireReset(d, id) ==
  LET o == m_InstancedMaps[<<d, id>>]
  IN  /\ events[<<d, id>>] > 0
      /\ events' = [events EXCEPT ![<<d, id>>] = @ - 1]
      /\ bind' = Unbound(id)
      /\ save' = Unsaved(id)
      /\ row' = WithoutRow({id})
      /\ dbBind' = Forgotten({id})
      /\ timer' = IF o # NULL /\ ~HavePlayers(o) THEN timer \cup {o} ELSE timer
      /\ used' = Freed(id)
      /\ UNCHANGED <<players, map, m_InstancedMaps, late>>

\* MapInstanced::Update: the timer of a registered map has run out, and nobody is left.
Unload(o) ==
  /\ o \in Registered /\ o \in timer /\ ~HavePlayers(o)
  /\ map' = [map EXCEPT ![o] = NULL]
  /\ m_InstancedMaps' = [m_InstancedMaps EXCEPT ![Key(o)] = NULL]
  /\ timer' = timer \ {o}
  /\ UNCHANGED <<players, saves, resets, used, tables>>

\* The server stops or crashes and starts: LoadInstances deletes the rows that are
\* expired or that nobody is bound to, registers the ids, schedules their resets; the
\* groups are bound again.  A row whose reset time has come since, or is now that the
\* respawn times have lowered it, is kept and its id registered, but no reset scheduled.
Restart ==
  \E expired, passed \in SUBSET {id \in Id : row[id] # NULL} :
    LET kept == {id \in Id : /\ row[id] # NULL /\ id \notin expired
                             /\ \E q \in Party : id \in dbBind[q]}
        boundBy(q, d) == {id \in kept \cap dbBind[q] : row[id] = d}
    IN  /\ where' = [p \in Player |-> "offline"]
        /\ link' = [p \in Player |-> NULL]
        /\ map' = [o \in Object |-> NULL]
        /\ timer' = {}
        /\ m_InstancedMaps' = [k \in Dungeon \X Id |-> NULL]
        /\ row' = [id \in Id |-> IF id \in kept THEN row[id] ELSE NULL]
        /\ dbBind' = [q \in Party |-> dbBind[q] \cap kept]
        /\ used' = kept
        /\ late' = kept \cap passed
        /\ events' = [k \in Dungeon \X Id |->
                        IF k[2] \in kept \ passed /\ row[k[2]] = k[1] THEN 1 ELSE 0]
        /\ bind' = [q \in Party |-> [d \in Dungeon |->
                      IF q \in Group /\ boundBy(q, d) # {} THEN CHOOSE id \in boundBy(q, d) : TRUE
                      ELSE NULL]]
        /\ save' = [id \in Id |->
                      LET groups == {q \in Group : id \in kept \cap dbBind[q]}
                      IN  IF groups = {} THEN NULL ELSE [map |-> row[id], parties |-> groups]]

Next ==
  \/ \E p \in Player, d \in Dungeon : EnterLoaded(p, d) \/ EnterSaved(p, d) \/ EnterNew(p, d)
  \/ \E p \in Player : Leave(p) \/ Arrive(p) \/ Logout(p) \/ Login(p)
  \/ \E q \in Party : ResetInstances(q)
  \/ \E d \in Dungeon, id \in Id : FireReset(d, id)
  \/ \E o \in Object : Unload(o)
  \/ Restart

Spec     == Init /\ [][Next]_vars
FairSpec == Spec /\ \A d \in Dungeon, id \in Id : WF_vars(FireReset(d, id))

-----------------------------------------------------------------------------
(* Safety *)

\* A bind and the lists of its save agree: a bind never points to a save that was
\* freed or is another dungeon's, and a save never to a player who is gone.
BindsAreSound ==
  /\ \A q \in Party, d \in Dungeon :
       LET id == bind[q][d]
       IN  id # NULL => save[id] # NULL /\ save[id].map = d /\ q \in save[id].parties
  /\ \A id \in Id : save[id] # NULL =>
       /\ save[id].parties # {}
       /\ \A q \in save[id].parties : bind[q][save[id].map] = id

\* A loaded save has its row in the database, for the same dungeon, and its id is
\* marked: what happens in it is kept, and its id is not given away.
SavesAreBacked ==
  \A id \in Id : save[id] # NULL => id \in used /\ row[id] = save[id].map

\* No id is lost but at a start: every marked id has a reset pending that will free it,
\* unless the start left it without one and nothing has scheduled one since.
NoIdLeaks == \A id \in used : Scheduled(id) \/ id \in late

\* What MapInstanced.cpp:110 says of CreateInstance: an instance is created if it is
\* not created already; so the map a player is in stays the registered one, which
\* MapInstanced::Update updates.
InhabitedMapsAreRegistered ==
  \A p \in Player : where[p] = "inside" => link[p] \in Registered

-----------------------------------------------------------------------------
(* Liveness *)

\* Every instance is reset at last, and its id used again: whatever players and
\* restarts do, no id stays in use for ever, or a start leaves it without a reset.
IdsAreFreed == \A id \in Id : (id \in used) ~> (id \notin used \/ id \in late)

-----------------------------------------------------------------------------
(* Refinement *)

\* The instance system keeps the promise of Lockouts: a party has one instance of a
\* dungeon, shared with no other party, and loses it by a reset only, although the
\* saves come and go with the players and the ids are used again.

\* The lock of a party is its row, whether the save is loaded or not.
LockOf(q, d) ==
  LET ids == {id \in dbBind[q] : row[id] = d}
  IN  IF ids = {} THEN NULL ELSE CHOOSE id \in ids : TRUE

Locks == INSTANCE Lockouts WITH
           InstanceId <- Id, NoLock <- NULL,
           lock <- [q \in Party |-> [d \in Dungeon |-> LockOf(q, d)]]
LocksSpec == Locks!Spec
=============================================================================
