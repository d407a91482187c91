-------------------------- MODULE Instances_proofs --------------------------
(***************************************************************************)
(* Binds and saves of the instance system agree with the database, for any *)
(* parties, dungeons, maps and ids, and a party's row keeps the promise of *)
(* Lockouts.                                                               *)
(*                                                                         *)
(* The invariant ties what is in memory to the tables: a party that is     *)
(* online, or a group, is bound to exactly the instances its rows name;    *)
(* nobody else is bound at all; and no instance is in the rows of two      *)
(* parties.  So a save that is released by one party is released for good, *)
(* and an id can only be given away when nothing in the tables names it.   *)
(***************************************************************************)
EXTENDS Instances, TLAPS

\* A party whose binds are in memory.
Active(q) == q \in Group \/ \E p \in Player : PartyOf[p] = q /\ where[p] # "offline"

RowsAreMarked    == \A id \in Id : row[id] # NULL => id \in used
BindsHaveRows    == \A q \in Party : \A id \in dbBind[q] : row[id] # NULL
RowsAreSeparate  == \A q, r \in Party : \A id \in dbBind[q] \cap dbBind[r] : q = r
OneRowPerDungeon == \A q \in Party : \A i, j \in dbBind[q] : row[i] = row[j] => i = j
BindsAreRows ==
  \A q \in Party, d \in Dungeon :
    bind[q][d] # NULL =>
      Active(q) /\ bind[q][d] \in dbBind[q] /\ row[bind[q][d]] = d
RowsAreBinds ==
  \A q \in Party : \A id \in dbBind[q] : Active(q) => bind[q][row[id]] = id

Agreed ==
  /\ RowsAreMarked
  /\ BindsHaveRows /\ RowsAreSeparate /\ OneRowPerDungeon
  /\ BindsAreRows /\ RowsAreBinds
  /\ BindsAreSound /\ SavesAreBacked

\* A registered map is loaded, under its own key, and so is the map of a player.
RegistryIsSound ==
  \A d \in Dungeon, id \in Id :
    LET o == m_InstancedMaps[<<d, id>>]
    IN  o # NULL => map[o] = [dungeon |-> d, id |-> id]
LinksAreLoaded == \A p \in Player : link[p] # NULL => map[link[p]] # NULL

SavesInv == TypeOK /\ Agreed /\ NoIdLeaks
IInv     == SavesInv /\ RegistryIsSound /\ LinksAreLoaded

\* NULL is nothing else.
LEMMA NullIsNothing == NULL \notin Id /\ NULL \notin Dungeon /\ NULL \notin Object
BY NullAssumption DEF Id

LEMMA NullIsNoSave == NULL \notin Save
BY NullAssumption DEF Save

USE NullIsNothing

-----------------------------------------------------------------------------
(* What the tables say of a save.                                          *)

\* An instance that has rows and is loaded belongs to the party of the rows
\* alone, and this party is bound to it.
LEMMA OneParty ==
  ASSUME TypeOK, Agreed, NEW id \in Id, save[id] # NULL,
         NEW q \in Party, id \in dbBind[q]
  PROVE  save[id].parties = {q} /\ Active(q) /\ bind[q][save[id].map] = id
<1>1. save[id].parties \subseteq Party /\ save[id].parties # {} /\ save[id].map \in Dungeon
  BY DEF TypeOK, Save, Agreed, BindsAreSound
<1>2. ASSUME NEW r \in save[id].parties
      PROVE  r = q /\ Active(r) /\ bind[r][save[id].map] = id
  <2>1. r \in Party /\ bind[r][save[id].map] = id
    BY <1>1, <1>2 DEF Agreed, BindsAreSound
  <2>2. Active(r) /\ id \in dbBind[r]
    BY <1>1, <2>1 DEF Agreed, BindsAreRows
  <2>3. r = q
    BY <2>1, <2>2 DEF Agreed, RowsAreSeparate
  <2> QED BY <2>1, <2>2, <2>3
<1> QED BY <1>1, <1>2

\* What a bind says.
LEMMA OneBind ==
  ASSUME TypeOK, Agreed, NEW q \in Party, NEW d \in Dungeon, bind[q][d] # NULL
  PROVE  /\ bind[q][d] \in Id /\ bind[q][d] \in dbBind[q] /\ row[bind[q][d]] = d
         /\ save[bind[q][d]] # NULL /\ save[bind[q][d]].map = d
         /\ save[bind[q][d]].parties = {q} /\ bind[q][d] \in used /\ Active(q)
<1>1. bind[q][d] \in Id
  BY DEF TypeOK
<1>2. bind[q][d] \in dbBind[q] /\ row[bind[q][d]] = d /\ Active(q)
  BY DEF Agreed, BindsAreRows
<1>3. save[bind[q][d]] # NULL /\ save[bind[q][d]].map = d
  BY DEF Agreed, BindsAreSound
<1>4. bind[q][d] \in used
  BY <1>1, <1>3 DEF Agreed, SavesAreBacked
<1> QED BY <1>1, <1>2, <1>3, <1>4, OneParty

-----------------------------------------------------------------------------
(* Instances that are reset.                                               *)

\* When everything about some instances goes, from memory and from the tables,
\* the rest agrees as before.
Forget(S) ==
  /\ bind' = [q \in Party |-> [d \in Dungeon |->
                IF bind[q][d] \in S THEN NULL ELSE bind[q][d]]]
  /\ save' = [id \in Id |-> IF id \in S THEN NULL ELSE save[id]]
  /\ row' = WithoutRow(S) /\ dbBind' = Forgotten(S)
  /\ where' = where /\ (used' = used \/ used' = used \ S)

LEMMA Forgetting ==
  ASSUME TypeOK, Agreed, NEW S \in SUBSET Id, Forget(S)
  PROVE  Agreed'
<1>1. /\ \A q \in Party : Active(q)' <=> Active(q)
      /\ \A q \in Party : dbBind'[q] = dbBind[q] \ S
      /\ \A id \in Id : row'[id] = IF id \in S THEN NULL ELSE row[id]
      /\ \A id \in Id : save'[id] = IF id \in S THEN NULL ELSE save[id]
      /\ \A q \in Party, d \in Dungeon :
           bind'[q][d] = IF bind[q][d] \in S THEN NULL ELSE bind[q][d]
      /\ \A id \in Id \ S : id \in used' <=> id \in used
  BY DEF Forget, WithoutRow, Forgotten, Active
<1>2. \A q \in Party : dbBind[q] \subseteq Id
  BY DEF TypeOK
<1>3. RowsAreMarked'
  BY <1>1 DEF RowsAreMarked, Agreed
<1>4. BindsHaveRows'
  BY <1>1, <1>2 DEF BindsHaveRows, Agreed
<1>5. RowsAreSeparate'
  BY <1>1, <1>2 DEF RowsAreSeparate, Agreed
<1>6. OneRowPerDungeon'
  BY <1>1, <1>2 DEF OneRowPerDungeon, Agreed
<1>7. BindsAreRows'
  <2> SUFFICES ASSUME NEW q \in Party, NEW d \in Dungeon, bind'[q][d] # NULL
               PROVE  Active(q)' /\ bind'[q][d] \in dbBind'[q] /\ row'[bind'[q][d]] = d
    BY DEF BindsAreRows
  <2>1. bind'[q][d] = bind[q][d] /\ bind[q][d] \notin S /\ bind[q][d] # NULL
    BY <1>1
  <2> QED BY <1>1, <2>1, OneBind
<1>8. RowsAreBinds'
  <2> SUFFICES ASSUME NEW q \in Party, NEW id \in dbBind'[q], Active(q)'
               PROVE  bind'[q][row'[id]] = id
    BY DEF RowsAreBinds
  <2>1. id \in dbBind[q] /\ id \notin S /\ id \in Id /\ Active(q)
    BY <1>1, <1>2
  <2>2. row'[id] = row[id] /\ row[id] \in Dungeon
    BY <1>1, <2>1 DEF TypeOK, Agreed, BindsHaveRows
  <2>3. bind[q][row[id]] = id
    BY <2>1 DEF Agreed, RowsAreBinds
  <2> QED BY <1>1, <2>1, <2>2, <2>3
<1>9. BindsAreSound'
  <2>1. ASSUME NEW q \in Party, NEW d \in Dungeon, bind'[q][d] # NULL
        PROVE  /\ save'[bind'[q][d]] # NULL /\ save'[bind'[q][d]].map = d
               /\ q \in save'[bind'[q][d]].parties
    <3>1. bind'[q][d] = bind[q][d] /\ bind[q][d] \notin S /\ bind[q][d] # NULL
      BY <1>1, <2>1
    <3>2. save'[bind[q][d]] = save[bind[q][d]]
      BY <1>1, <3>1, OneBind
    <3> QED BY <3>1, <3>2, OneBind
  <2>2. ASSUME NEW id \in Id, save'[id] # NULL
        PROVE  /\ save'[id].parties # {}
               /\ \A q \in save'[id].parties : bind'[q][save'[id].map] = id
    <3>1. save'[id] = save[id] /\ id \notin S /\ save[id] # NULL
      BY <1>1, <2>2
    <3>2. save[id].parties \subseteq Party /\ save[id].map \in Dungeon
      BY <3>1 DEF TypeOK, Save
    <3> QED BY <1>1, <3>1, <3>2 DEF Agreed, BindsAreSound
  <2> QED BY <2>1, <2>2 DEF BindsAreSound
<1>10. SavesAreBacked'
  BY <1>1 DEF SavesAreBacked, Agreed
<1> QED BY <1>3, <1>4, <1>5, <1>6, <1>7, <1>8, <1>9, <1>10 DEF Agreed

\* The scheduled reset of an instance forgets it.
LEMMA FireResetAgrees ==
  ASSUME TypeOK, Agreed, NEW d \in Dungeon, NEW id \in Id, FireReset(d, id)
  PROVE  Agreed'
<1>1. \A q \in Party, e \in Dungeon :
        (save[id] # NULL /\ q \in save[id].parties /\ e = save[id].map) <=> bind[q][e] = id
  <2> SUFFICES ASSUME NEW q \in Party, NEW e \in Dungeon
               PROVE  (save[id] # NULL /\ q \in save[id].parties /\ e = save[id].map)
                        <=> bind[q][e] = id
    OBVIOUS
  <2>1. ASSUME bind[q][e] = id
        PROVE  save[id] # NULL /\ q \in save[id].parties /\ e = save[id].map
    BY <2>1, OneBind
  <2>2. ASSUME save[id] # NULL, q \in save[id].parties, e = save[id].map
        PROVE  bind[q][e] = id
    BY <2>2 DEF Agreed, BindsAreSound
  <2> QED BY <2>1, <2>2
<1>2. bind' = [q \in Party |-> [e \in Dungeon |-> IF bind[q][e] \in {id} THEN NULL ELSE bind[q][e]]]
  BY <1>1 DEF FireReset, Unbound
<1>3. save' = [i \in Id |-> IF i \in {id} THEN NULL ELSE save[i]]
  BY DEF FireReset, Unsaved, TypeOK
<1>4. Forget({id})
  BY <1>2, <1>3 DEF FireReset, Freed, Forget, players
<1>5. {id} \in SUBSET Id
  OBVIOUS
<1> QED BY <1>4, <1>5, Forgetting

\* So does the reset that players ask for: what they are bound to is theirs alone.
LEMMA ResetInstancesAgrees ==
  ASSUME TypeOK, Agreed, NEW q \in Party, ResetInstances(q)
  PROVE  Agreed' /\ \E S \in SUBSET Id : Forget(S) /\ used' = used
<1> DEFINE mapOf(d)   == m_InstancedMaps[<<d, bind[q][d]>>]
           resettable == {d \in Dungeon : /\ bind[q][d] # NULL
                                          /\ mapOf(d) = NULL \/ ~HavePlayers(mapOf(d))}
           ids        == {bind[q][d] : d \in resettable}
<1>1. /\ row' = WithoutRow(ids) /\ dbBind' = Forgotten(ids)
      /\ bind' = [bind EXCEPT ![q] = [d \in Dungeon |-> IF d \in resettable THEN NULL ELSE @[d]]]
      /\ save' = [id \in Id |-> IF id \in ids THEN Released(q, save[id]) ELSE save[id]]
      /\ UNCHANGED <<where, used>>
  BY DEF ResetInstances, players
<1>2. \A d \in resettable : d \in Dungeon /\ bind[q][d] # NULL
  OBVIOUS
<1> HIDE DEF resettable
<1>3. ids \in SUBSET Id /\ \A id \in ids : save[id].parties = {q} /\ id \in dbBind[q]
  BY <1>2, OneBind
<1>4. save' = [id \in Id |-> IF id \in ids THEN NULL ELSE save[id]]
  <2>1. \A id \in ids : Released(q, save[id]) = NULL
    BY <1>3 DEF Released
  <2> QED BY <1>1, <2>1
<1>5. \A d \in Dungeon : bind[q][d] \in ids <=> d \in resettable
  <2> SUFFICES ASSUME NEW d \in Dungeon, bind[q][d] \in ids
               PROVE  d \in resettable
    OBVIOUS
  <2>1. PICK e \in resettable : bind[q][e] = bind[q][d]
    OBVIOUS
  <2>2. row[bind[q][e]] = e /\ bind[q][d] # NULL
    BY <1>2, <2>1, OneBind
  <2>3. row[bind[q][d]] = d
    BY <2>2, OneBind
  <2> QED BY <2>1, <2>2, <2>3
<1>6. \A r \in Party \ {q}, d \in Dungeon : bind[r][d] \notin ids
  <2> SUFFICES ASSUME NEW r \in Party, NEW d \in Dungeon, bind[r][d] \in ids
               PROVE  r = q
    OBVIOUS
  <2>1. bind[r][d] # NULL /\ bind[r][d] \in Id /\ bind[r][d] \in dbBind[q]
    BY <1>3
  <2>2. bind[r][d] \in dbBind[r]
    BY <2>1, OneBind
  <2> QED BY <2>1, <2>2 DEF Agreed, RowsAreSeparate
<1>7. bind' = [r \in Party |-> [d \in Dungeon |-> IF bind[r][d] \in ids THEN NULL ELSE bind[r][d]]]
  <2> HIDE DEF ids
  <2>1. bind \in [Party -> [Dungeon -> Id \cup {NULL}]]
    BY DEF TypeOK
  <2>2. \A r \in Party \ {q} : bind'[r] = [d \in Dungeon |-> IF bind[r][d] \in ids THEN NULL ELSE bind[r][d]]
    BY <1>1, <1>6, <2>1
  <2>3. bind'[q] = [d \in Dungeon |-> IF bind[q][d] \in ids THEN NULL ELSE bind[q][d]]
    BY <1>1, <1>5, <2>1
  <2>4. bind' = [r \in Party |-> bind'[r]]
    BY <1>1, <2>1
  <2> QED BY <2>2, <2>3, <2>4
<1>8. Forget(ids)
  BY <1>1, <1>4, <1>7 DEF Forget
<1> HIDE DEF ids
<1> QED BY <1>1, <1>3, <1>8, Forgetting

-----------------------------------------------------------------------------
(* Players who come and go.                                                *)

\* Steps that touch neither saves nor tables, and in which nobody logs in or out.
LEMMA Frame ==
  ASSUME Agreed, UNCHANGED <<saves, used, tables>>, \A q \in Party : Active(q)' <=> Active(q)
  PROVE  Agreed'
<1>1. BindsAreRows' /\ RowsAreBinds'
  BY DEF Agreed, BindsAreRows, RowsAreBinds, saves, tables
<1>2. /\ RowsAreMarked' /\ BindsHaveRows' /\ RowsAreSeparate' /\ OneRowPerDungeon'
      /\ BindsAreSound' /\ SavesAreBacked'
  BY DEF Agreed, RowsAreMarked, BindsHaveRows, RowsAreSeparate, OneRowPerDungeon,
         BindsAreSound, SavesAreBacked, saves, tables
<1> QED BY <1>1, <1>2 DEF Agreed

LEMMA StillActive ==
  ASSUME TypeOK, NEW p \in Player, where[p] # "offline", NEW w \in Where \ {"offline"},
         where' = [where EXCEPT ![p] = w]
  PROVE  \A q \in Party : Active(q)' <=> Active(q)
BY DEF TypeOK, Active, Where

\* Entering an instance the party is bound to changes no save and no table.
LEMMA AddBound ==
  ASSUME TypeOK, Agreed, NEW p \in Player, NEW d \in Dungeon, NEW o \in Object,
         bind[PartyOf[p]][d] # NULL, Add(p, d, bind[PartyOf[p]][d], o)
  PROVE  UNCHANGED <<saves, tables, resets>>
<1> DEFINE q  == PartyOf[p]
           id == bind[q][d]
<1>1. q \in Party
  BY PartyAssumption
<1>2. /\ id \in Id /\ id \in dbBind[q] /\ save[id] # NULL /\ save[id].map = d
      /\ save[id].parties = {q} /\ save[id] \in Save
  BY <1>1, OneBind DEF TypeOK
<1> HIDE DEF q
<1>3. /\ save' = [save EXCEPT ![id] = [save[id] EXCEPT !.parties = @ \cup {q}]]
      /\ bind' = [bind EXCEPT ![q][save[id].map] = id]
      /\ dbBind' = [dbBind EXCEPT ![q] = @ \cup {id}]
      /\ row' = row /\ events' = events /\ late' = late
  BY <1>2 DEF Add, EventsOnEntry, q
<1>4. save' = save
  <2>1. [save[id] EXCEPT !.parties = @ \cup {q}] = save[id]
    BY <1>2 DEF Save
  <2> QED BY <1>2, <1>3, <2>1 DEF TypeOK
<1>5. bind' = bind
  BY <1>1, <1>2, <1>3 DEF TypeOK
<1>6. dbBind' = dbBind
  BY <1>1, <1>2, <1>3 DEF TypeOK
<1> QED BY <1>3, <1>4, <1>5, <1>6 DEF saves, tables, resets

LEMMA EnterBoundAgrees ==
  ASSUME TypeOK, Agreed, NEW p \in Player, NEW d \in Dungeon,
         EnterLoaded(p, d) \/ EnterSaved(p, d)
  PROVE  Agreed' /\ UNCHANGED <<saves, tables, resets, used>>
<1>1. PICK o \in Object : Add(p, d, bind[PartyOf[p]][d], o)
  <2>1. CASE EnterLoaded(p, d)
    <3>1. bind[PartyOf[p]][d] \in Id
      BY <2>1, PartyAssumption DEF EnterLoaded, TypeOK
    <3>2. m_InstancedMaps[<<d, bind[PartyOf[p]][d]>>] \in Object \cup {NULL}
      BY <3>1 DEF TypeOK
    <3> QED BY <2>1, <3>2 DEF EnterLoaded
  <2>2. CASE EnterSaved(p, d)
    BY <2>2 DEF EnterSaved
  <2> QED BY <2>1, <2>2
<1>2. /\ bind[PartyOf[p]][d] # NULL /\ used' = used
      /\ where[p] # "offline" /\ where' = [where EXCEPT ![p] = "inside"]
  BY <1>1 DEF EnterLoaded, EnterSaved, CanTravel, Add
<1>3. UNCHANGED <<saves, tables, resets>>
  BY <1>1, <1>2, AddBound
<1>4. \A q \in Party : Active(q)' <=> Active(q)
  BY <1>2, StillActive DEF Where
<1> QED BY <1>2, <1>3, <1>4, Frame

\* A party gets a new instance of a dungeon.
NewInstance(q, d, id) ==
  /\ id \notin used /\ used' = used \cup {id}
  /\ events[<<d, id>>] < MaxEvents
  /\ events' = [events EXCEPT ![<<d, id>>] = @ + 1]
  /\ late' = late \ {id}
  /\ row' = [row EXCEPT ![id] = d]
  /\ dbBind' = [dbBind EXCEPT ![q] = @ \cup {id}]
  /\ save' = [save EXCEPT ![id] = [map |-> d, parties |-> {q}]]
  /\ bind' = [bind EXCEPT ![q][d] = id]

\* A new instance: its id is in no row, and the party has none of this dungeon.
LEMMA EnterNewAgrees ==
  ASSUME TypeOK, Agreed, NEW p \in Player, NEW d \in Dungeon, EnterNew(p, d)
  PROVE  Agreed' /\ \E id \in Id : NewInstance(PartyOf[p], d, id)
<1> DEFINE q == PartyOf[p]
<1>1. q \in Party
  BY PartyAssumption
<1>2. PICK id \in Id, o \in Object : /\ id \notin used /\ used' = used \cup {id}
                                     /\ Add(p, d, id, o)
  BY DEF EnterNew, Generate
<1>3. /\ where[p] # "offline" /\ bind[q][d] = NULL
      /\ where' = [where EXCEPT ![p] = "inside"]
  BY <1>2 DEF EnterNew, CanTravel, Add
<1>4. Active(q)
  BY <1>1, <1>3 DEF Active
<1>5. save[id] = NULL /\ row[id] = NULL /\ \A r \in Party : id \notin dbBind[r]
  BY <1>2 DEF Agreed, SavesAreBacked, RowsAreMarked, BindsHaveRows
<1>6. \A r \in Party, e \in Dungeon : bind[r][e] # id
  BY <1>5, OneBind
<1> HIDE DEF q
<1> DEFINE new == [map |-> d, parties |-> {q}]
<1>7. /\ save' = [save EXCEPT ![id] = new]
      /\ bind' = [bind EXCEPT ![q][d] = id]
      /\ dbBind' = [dbBind EXCEPT ![q] = @ \cup {id}]
      /\ row' = [row EXCEPT ![id] = d]
      /\ events[<<d, id>>] < MaxEvents
      /\ events' = [events EXCEPT ![<<d, id>>] = @ + 1]
      /\ late' = late \ {id}
  <2>1. [[map |-> d, parties |-> {}] EXCEPT !.parties = @ \cup {q}] = new
    OBVIOUS
  <2>2. [map |-> d, parties |-> {}].map = d
    OBVIOUS
  <2> HIDE DEF new
  <2> QED BY <1>2, <1>5, <2>1, <2>2 DEF Add, EventsOnEntry, q
<1>8. /\ \A r \in Party : Active(r)' <=> Active(r)
      /\ \A r \in Party : dbBind'[r] = IF r = q THEN dbBind[r] \cup {id} ELSE dbBind[r]
      /\ \A i \in Id : row'[i] = IF i = id THEN d ELSE row[i]
      /\ \A i \in Id : save'[i] = IF i = id THEN new ELSE save[i]
      /\ \A r \in Party, e \in Dungeon :
           bind'[r][e] = IF r = q /\ e = d THEN id ELSE bind[r][e]
      /\ \A r \in Party : dbBind[r] \subseteq Id
  <2>1. \A r \in Party : Active(r)' <=> Active(r)
    BY <1>3, StillActive DEF Where
  <2> QED BY <1>1, <1>7, <2>1 DEF TypeOK
<1>9. id # NULL /\ d # NULL /\ new # NULL /\ new.map = d /\ new.parties = {q}
  <2>1. new.map = d /\ new.parties = {q}
    OBVIOUS
  <2>2. id # NULL /\ d # NULL
    OBVIOUS
  <2>3. new # NULL
    BY <1>1, NullIsNoSave DEF Save
  <2> QED BY <2>1, <2>2, <2>3
<1> HIDE DEF new
<1>10. ASSUME NEW r \in Party, NEW i \in dbBind'[r]
       PROVE  i \in Id /\ (i = id => r = q) /\ (i # id => i \in dbBind[r])
  <2>1. dbBind'[r] = IF r = q THEN dbBind[r] \cup {id} ELSE dbBind[r]
    BY <1>8
  <2>2. dbBind[r] \subseteq Id /\ id \notin dbBind[r]
    BY <1>5, <1>8
  <2> QED BY <2>1, <2>2
<1>11. RowsAreMarked'
  BY <1>2, <1>8 DEF RowsAreMarked, Agreed
<1>12. BindsHaveRows'
  <2> SUFFICES ASSUME NEW r \in Party, NEW i \in dbBind'[r]
               PROVE  row'[i] # NULL
    BY DEF BindsHaveRows
  <2>1. i \in Id /\ (i # id => i \in dbBind[r])
    BY <1>10
  <2>2. row'[i] = IF i = id THEN d ELSE row[i]
    BY <1>8, <2>1
  <2> QED BY <1>9, <2>1, <2>2 DEF BindsHaveRows, Agreed
<1>13. RowsAreSeparate'
  <2> SUFFICES ASSUME NEW r \in Party, NEW t \in Party, NEW i \in dbBind'[r] \cap dbBind'[t]
               PROVE  r = t
    BY DEF RowsAreSeparate
  <2>1. i = id => r = q /\ t = q
    BY <1>10
  <2>2. i # id => i \in dbBind[r] \cap dbBind[t]
    BY <1>10
  <2> QED BY <2>1, <2>2 DEF RowsAreSeparate, Agreed
<1>14. OneRowPerDungeon'
  <2> SUFFICES ASSUME NEW r \in Party, NEW i \in dbBind'[r], NEW j \in dbBind'[r],
                      row'[i] = row'[j]
               PROVE  i = j
    BY DEF OneRowPerDungeon
  <2>1. ASSUME r = q, NEW k \in dbBind[q]
        PROVE  row[k] # d
    <3>1. bind[q][row[k]] = k
      BY <1>1, <1>4 DEF Agreed, RowsAreBinds
    <3>2. k \in Id
      BY <1>1, <1>8
    <3> QED BY <1>3, <3>1, <3>2
  <2>2. /\ i \in Id /\ (i = id => r = q) /\ (i # id => i \in dbBind[r])
        /\ j \in Id /\ (j = id => r = q) /\ (j # id => j \in dbBind[r])
    BY <1>10
  <2>3. /\ row'[i] = IF i = id THEN d ELSE row[i]
        /\ row'[j] = IF j = id THEN d ELSE row[j]
    BY <1>8, <2>2
  <2>4. CASE i = id \/ j = id
    BY <2>1, <2>2, <2>3, <2>4
  <2>5. CASE i # id /\ j # id
    BY <2>2, <2>3, <2>5 DEF Agreed, OneRowPerDungeon
  <2> QED BY <2>4, <2>5
<1>15. BindsAreRows'
  <2> SUFFICES ASSUME NEW r \in Party, NEW e \in Dungeon, bind'[r][e] # NULL
               PROVE  Active(r)' /\ bind'[r][e] \in dbBind'[r] /\ row'[bind'[r][e]] = e
    BY DEF BindsAreRows
  <2>1. CASE r = q /\ e = d
    BY <1>1, <1>4, <1>8, <2>1
  <2>2. CASE ~(r = q /\ e = d)
    <3>1. bind'[r][e] = bind[r][e] /\ bind[r][e] # NULL /\ bind[r][e] # id
      BY <1>6, <1>8, <2>2
    <3>2. bind[r][e] \in Id /\ bind[r][e] \in dbBind[r] /\ row[bind[r][e]] = e /\ Active(r)
      BY <3>1, OneBind
    <3>3. bind[r][e] \in dbBind'[r]
      BY <1>8, <3>2
    <3>4. row'[bind[r][e]] = e
      BY <1>8, <3>1, <3>2
    <3> QED BY <1>8, <3>1, <3>2, <3>3, <3>4
  <2> QED BY <2>1, <2>2
<1>16. RowsAreBinds'
  <2> SUFFICES ASSUME NEW r \in Party, NEW i \in dbBind'[r], Active(r)'
               PROVE  bind'[r][row'[i]] = i
    BY DEF RowsAreBinds
  <2>1. i \in Id /\ (i = id => r = q) /\ (i # id => i \in dbBind[r])
    BY <1>10
  <2>2. row'[i] = IF i = id THEN d ELSE row[i]
    BY <1>8, <2>1
  <2>3. CASE i = id
    BY <1>1, <1>8, <2>1, <2>2, <2>3
  <2>4. CASE i # id
    <3>1. i \in dbBind[r] /\ row'[i] = row[i]
      BY <2>1, <2>2, <2>4
    <3>2. row[i] # NULL /\ row[i] \in Dungeon
      BY <2>1, <3>1 DEF Agreed, BindsHaveRows, TypeOK
    <3>3. bind[r][row[i]] = i
      BY <1>8, <3>1 DEF Agreed, RowsAreBinds
    <3>4. ~(r = q /\ row[i] = d)
      BY <1>3, <2>1, <3>3
    <3> QED BY <1>8, <3>1, <3>2, <3>3, <3>4
  <2> QED BY <2>3, <2>4
<1>17. BindsAreSound'
  <2>1. ASSUME NEW r \in Party, NEW e \in Dungeon, bind'[r][e] # NULL
        PROVE  /\ save'[bind'[r][e]] # NULL /\ save'[bind'[r][e]].map = e
               /\ r \in save'[bind'[r][e]].parties
    <3>1. CASE r = q /\ e = d
      BY <1>8, <1>9, <3>1
    <3>2. CASE ~(r = q /\ e = d)
      BY <1>6, <1>8, <2>1, <3>2, OneBind
    <3> QED BY <3>1, <3>2
  <2>2. ASSUME NEW i \in Id, save'[i] # NULL
        PROVE  /\ save'[i].parties # {}
               /\ \A r \in save'[i].parties : bind'[r][save'[i].map] = i
    <3>1. CASE i = id
      BY <1>1, <1>8, <1>9, <3>1
    <3>2. CASE i # id
      <4>1. save'[i] = save[i] /\ save[i] # NULL
        BY <1>8, <2>2, <3>2
      <4>2. save[i].parties \subseteq Party /\ save[i].map \in Dungeon /\ save[i].parties # {}
        BY <4>1 DEF TypeOK, Save, Agreed, BindsAreSound
      <4>3. ASSUME NEW r \in save[i].parties
            PROVE  bind'[r][save[i].map] = i
        <5>1. bind[r][save[i].map] = i
          BY <4>1 DEF Agreed, BindsAreSound
        <5>2. ~(r = q /\ save[i].map = d)
          BY <1>3, <5>1
        <5> QED BY <1>8, <4>2, <5>1, <5>2
      <4> QED BY <4>1, <4>2, <4>3
    <3> QED BY <3>1, <3>2
  <2> QED BY <2>1, <2>2 DEF BindsAreSound
<1>18. SavesAreBacked'
  BY <1>2, <1>8, <1>9 DEF SavesAreBacked, Agreed
<1>19. Agreed'
  BY <1>11, <1>12, <1>13, <1>14, <1>15, <1>16, <1>17, <1>18 DEF Agreed
<1> QED BY <1>2, <1>7, <1>19 DEF NewInstance, q, new

\* Nobody else is online in the party of a player alone.
LEMMA AloneOffline ==
  ASSUME TypeOK, NEW p \in Player, PartyOf[p] \notin Group,
         NEW w \in Where, where' = [where EXCEPT ![p] = w]
  PROVE  /\ Active(PartyOf[p]) <=> where[p] # "offline"
         /\ Active(PartyOf[p])' <=> w # "offline"
         /\ \A r \in Party \ {PartyOf[p]} : Active(r)' <=> Active(r)
<1>1. \A other \in Player : PartyOf[other] = PartyOf[p] => other = p
  BY PartyAssumption
<1>2. /\ where'[p] = w
      /\ \A other \in Player \ {p} : where'[other] = where[other]
  BY DEF TypeOK
<1>3. Active(PartyOf[p]) <=> where[p] # "offline"
  BY <1>1 DEF Active
<1>4. Active(PartyOf[p])' <=> w # "offline"
  BY <1>1, <1>2 DEF Active
<1>5. \A r \in Party \ {PartyOf[p]} : Active(r)' <=> Active(r)
  BY <1>2 DEF Active
<1> QED BY <1>3, <1>4, <1>5

\* Members of a group log in and out without its binds noticing.
LEMMA GroupAgrees ==
  ASSUME Agreed, NEW p \in Player, PartyOf[p] \in Group, NEW w \in Where, TypeOK,
         where' = [where EXCEPT ![p] = w], UNCHANGED <<saves, used, tables>>
  PROVE  Agreed'
<1>1. ASSUME NEW q \in Party
      PROVE  Active(q)' <=> Active(q)
  <2>1. CASE q \in Group
    BY <2>1 DEF Active
  <2>2. CASE q \notin Group
    BY <2>2 DEF Active, TypeOK
  <2> QED BY <2>1, <2>2
<1> QED BY <1>1, Frame

\* A player alone releases what he is bound to, and what he releases is his.
LEMMA LogoutAgrees ==
  ASSUME TypeOK, Agreed, NEW p \in Player, Logout(p)
  PROVE  Agreed'
<1> DEFINE q   == PartyOf[p]
           ids == {bind[q][d] : d \in Dungeon}
<1>1. /\ q \in Party /\ where' = [where EXCEPT ![p] = "offline"] /\ "offline" \in Where
      /\ UNCHANGED <<used, tables>>
      /\ save' = SavesAfterLogout(q)
      /\ bind' = IF q \in Group THEN bind ELSE [bind EXCEPT ![q] = NoBind]
  BY PartyAssumption DEF Logout, Where
<1>2. CASE q \in Group
  BY <1>1, <1>2, GroupAgrees DEF SavesAfterLogout, saves
<1>3. CASE q \notin Group
  <2>1. ~Active(q)' /\ \A r \in Party \ {q} : Active(r)' <=> Active(r)
    BY <1>1, <1>3, AloneOffline
  <2>2. \A r \in Party, d \in Dungeon : bind'[r][d] = IF r = q THEN NULL ELSE bind[r][d]
    BY <1>1, <1>3 DEF TypeOK, NoBind
  <2>3. \A id \in Id : id \in ids => save[id].parties = {q}
    BY <1>1, OneBind
  <2>4. \A id \in Id : save'[id] = IF id \in ids THEN NULL ELSE save[id]
    <3> SUFFICES ASSUME NEW id \in Id
                 PROVE  save'[id] = IF id \in ids THEN NULL ELSE save[id]
      OBVIOUS
    <3>1. save'[id] = IF id \in ids THEN Released(q, save[id]) ELSE save[id]
      BY <1>1, <1>3 DEF SavesAfterLogout
    <3>2. id \in ids => Released(q, save[id]) = NULL
      BY <2>3 DEF Released
    <3> QED BY <3>1, <3>2
  <2>5. row' = row /\ dbBind' = dbBind /\ used' = used
    BY <1>1 DEF tables
  <2>6. \A r \in Party \ {q}, d \in Dungeon : bind[r][d] # NULL => bind[r][d] \notin ids
    BY <2>3, OneBind
  <2>7. \A d \in Dungeon : bind[q][d] \in ids
    OBVIOUS
  <2> HIDE DEF q, ids
  <2>8. BindsAreRows'
    <3> SUFFICES ASSUME NEW r \in Party, NEW d \in Dungeon, bind'[r][d] # NULL
                 PROVE  Active(r)' /\ bind'[r][d] \in dbBind'[r] /\ row'[bind'[r][d]] = d
      BY DEF BindsAreRows
    <3>1. r # q /\ bind'[r][d] = bind[r][d] /\ bind[r][d] # NULL
      BY <2>2
    <3> QED BY <2>1, <2>5, <3>1, OneBind
  <2>9. RowsAreBinds'
    <3> SUFFICES ASSUME NEW r \in Party, NEW id \in dbBind[r], Active(r)'
                 PROVE  bind'[r][row[id]] = id
      BY <2>5 DEF RowsAreBinds
    <3>1. r # q /\ Active(r) /\ id \in Id
      BY <2>1 DEF TypeOK
    <3>2. row[id] \in Dungeon /\ bind[r][row[id]] = id
      BY <3>1 DEF TypeOK, Agreed, BindsHaveRows, RowsAreBinds
    <3> QED BY <2>2, <3>1, <3>2
  <2>10. BindsAreSound'
    <3>1. ASSUME NEW r \in Party, NEW d \in Dungeon, bind'[r][d] # NULL
          PROVE  /\ save'[bind'[r][d]] # NULL /\ save'[bind'[r][d]].map = d
                 /\ r \in save'[bind'[r][d]].parties
      <4>1. r # q /\ bind'[r][d] = bind[r][d] /\ bind[r][d] # NULL
        BY <2>2, <3>1
      <4>2. bind[r][d] \in Id /\ bind[r][d] \notin ids
        BY <2>6, <4>1, OneBind
      <4>3. save'[bind[r][d]] = save[bind[r][d]]
        BY <2>4, <4>2
      <4> QED BY <4>1, <4>3, OneBind
    <3>2. ASSUME NEW id \in Id, save'[id] # NULL
          PROVE  /\ save'[id].parties # {}
                 /\ \A r \in save'[id].parties : bind'[r][save'[id].map] = id
      <4>1. save'[id] = save[id] /\ id \notin ids /\ save[id] # NULL
        BY <2>4, <3>2
      <4>2. /\ save[id].parties \subseteq Party /\ save[id].map \in Dungeon
            /\ save[id].parties # {} /\ \A r \in save[id].parties : bind[r][save[id].map] = id
        BY <4>1 DEF TypeOK, Save, Agreed, BindsAreSound
      <4>3. q \notin save[id].parties
        BY <2>7, <4>1, <4>2
      <4> QED BY <2>2, <4>1, <4>2, <4>3
    <3> QED BY <3>1, <3>2 DEF BindsAreSound
  <2>11. SavesAreBacked'
    BY <2>4, <2>5 DEF SavesAreBacked, Agreed
  <2>12. RowsAreMarked' /\ BindsHaveRows' /\ RowsAreSeparate' /\ OneRowPerDungeon'
    BY <2>5 DEF RowsAreMarked, BindsHaveRows, RowsAreSeparate, OneRowPerDungeon, Agreed
  <2> QED BY <2>8, <2>9, <2>10, <2>11, <2>12 DEF Agreed
<1> QED BY <1>2, <1>3

\* A player alone finds again what his rows say: nobody holds these saves.
LEMMA LoginAgrees ==
  ASSUME TypeOK, Agreed, NEW p \in Player, Login(p)
  PROVE  Agreed'
<1> DEFINE q == PartyOf[p]
<1>1. /\ q \in Party /\ where[p] = "offline" /\ UNCHANGED <<used, tables>>
      /\ where' = [where EXCEPT ![p] = "outside"] /\ "outside" \in Where
  BY PartyAssumption DEF Login, Where
<1>2. CASE q \in Group
  BY <1>1, <1>2, GroupAgrees DEF Login
<1>3. CASE q \notin Group
  <2>1. ~Active(q) /\ Active(q)' /\ \A r \in Party \ {q} : Active(r)' <=> Active(r)
    BY <1>1, <1>3, AloneOffline
  <2>2. row' = row /\ dbBind' = dbBind /\ used' = used
    BY <1>1 DEF tables
  <2>3. /\ \A r \in Party \ {q} : bind'[r] = bind[r]
        /\ bind'[q] = [d \in Dungeon |->
                         IF \E id \in dbBind[q] : row[id] = d
                         THEN CHOOSE id \in dbBind[q] : row[id] = d ELSE NULL]
    BY <1>1, <1>3 DEF Login, TypeOK
  <2>4. dbBind[q] \subseteq Id /\ \A id \in dbBind[q] : save[id] = NULL /\ row[id] \in Dungeon
    <3>1. dbBind[q] \subseteq Id
      BY <1>1 DEF TypeOK
    <3>2. ASSUME NEW id \in dbBind[q]
          PROVE  save[id] = NULL /\ row[id] \in Dungeon
      BY <1>1, <2>1, <3>1, OneParty DEF TypeOK, Agreed, BindsHaveRows
    <3> QED BY <3>1, <3>2
  <2>5. ASSUME NEW id \in Id
        PROVE  save'[id] = IF id \in dbBind[q] THEN [map |-> row[id], parties |-> {q}] ELSE save[id]
    BY <1>3, <2>4 DEF Login
  <2>6. ASSUME NEW d \in Dungeon, bind'[q][d] # NULL
        PROVE  bind'[q][d] \in dbBind[q] /\ row[bind'[q][d]] = d
    BY <2>3, <2>6
  <2>7. ASSUME NEW id \in dbBind[q]
        PROVE  bind'[q][row[id]] = id
    <3>1. bind'[q][row[id]] = CHOOSE i \in dbBind[q] : row[i] = row[id]
      BY <2>3, <2>4
    <3>2. \A i \in dbBind[q] : row[i] = row[id] => i = id
      BY <1>1 DEF Agreed, OneRowPerDungeon
    <3> QED BY <3>1, <3>2
  <2> HIDE DEF q
  <2>8. BindsAreRows'
    <3> SUFFICES ASSUME NEW r \in Party, NEW d \in Dungeon, bind'[r][d] # NULL
                 PROVE  Active(r)' /\ bind'[r][d] \in dbBind[r] /\ row[bind'[r][d]] = d
      BY <2>2 DEF BindsAreRows
    <3>1. CASE r = q
      BY <2>1, <2>6, <3>1
    <3>2. CASE r # q
      BY <2>1, <2>3, <3>2, OneBind
    <3> QED BY <3>1, <3>2
  <2>9. RowsAreBinds'
    <3> SUFFICES ASSUME NEW r \in Party, NEW id \in dbBind[r], Active(r)'
                 PROVE  bind'[r][row[id]] = id
      BY <2>2 DEF RowsAreBinds
    <3>1. CASE r = q
      BY <2>7, <3>1
    <3>2. CASE r # q
      BY <2>1, <2>3, <3>2 DEF Agreed, RowsAreBinds
    <3> QED BY <3>1, <3>2
  <2>10. BindsAreSound'
    <3>1. ASSUME NEW r \in Party, NEW d \in Dungeon, bind'[r][d] # NULL
          PROVE  /\ save'[bind'[r][d]] # NULL /\ save'[bind'[r][d]].map = d
                 /\ r \in save'[bind'[r][d]].parties
      <4>1. CASE r = q
        <5>1. /\ bind'[r][d] \in Id /\ bind'[r][d] \in dbBind[q] /\ row[bind'[r][d]] = d
          BY <2>4, <2>6, <3>1, <4>1
        <5>2. save'[bind'[r][d]] = [map |-> d, parties |-> {q}]
          BY <2>5, <5>1
        <5>3. [map |-> d, parties |-> {q}] \in Save
          BY <1>1 DEF Save, q
        <5> QED BY <4>1, <5>2, <5>3, NullIsNoSave
      <4>2. CASE r # q
        <5>1. bind'[r][d] = bind[r][d] /\ bind[r][d] # NULL
          BY <2>3, <3>1, <4>2
        <5>2. bind[r][d] \in Id /\ bind[r][d] \notin dbBind[q]
          BY <2>4, <5>1, OneBind
        <5>3. save'[bind[r][d]] = save[bind[r][d]]
          BY <2>5, <5>2
        <5> QED BY <5>1, <5>3, OneBind
      <4> QED BY <4>1, <4>2
    <3>2. ASSUME NEW id \in Id, save'[id] # NULL
          PROVE  /\ save'[id].parties # {}
                 /\ \A r \in save'[id].parties : bind'[r][save'[id].map] = id
      <4>1. CASE id \in dbBind[q]
        <5>1. save'[id] = [map |-> row[id], parties |-> {q}]
          BY <2>5, <4>1
        <5>2. save'[id].parties = {q} /\ save'[id].map = row[id]
          BY <5>1
        <5> QED BY <2>7, <4>1, <5>2
      <4>2. CASE id \notin dbBind[q]
        <5>1. save'[id] = save[id] /\ save[id] # NULL
          BY <2>5, <3>2, <4>2
        <5>2. /\ save[id].parties \subseteq Party /\ save[id].map \in Dungeon
              /\ save[id].parties # {} /\ \A r \in save[id].parties : bind[r][save[id].map] = id
          BY <5>1 DEF TypeOK, Save, Agreed, BindsAreSound
        <5>3. q \notin save[id].parties
          BY <4>2, <5>2, OneBind
        <5> QED BY <2>3, <5>1, <5>2, <5>3
      <4> QED BY <4>1, <4>2
    <3> QED BY <3>1, <3>2 DEF BindsAreSound
  <2>11. SavesAreBacked'
    <3> SUFFICES ASSUME NEW id \in Id, save'[id] # NULL
                 PROVE  id \in used /\ row[id] = save'[id].map
      BY <2>2 DEF SavesAreBacked
    <3>1. CASE id \in dbBind[q]
      <4>1. save'[id] = [map |-> row[id], parties |-> {q}]
        BY <2>5, <3>1
      <4>2. save'[id].map = row[id]
        BY <4>1
      <4>3. row[id] # NULL
        BY <2>4, <3>1
      <4> QED BY <4>2, <4>3 DEF Agreed, RowsAreMarked
    <3>2. CASE id \notin dbBind[q]
      BY <2>5, <3>2 DEF Agreed, SavesAreBacked
    <3> QED BY <3>1, <3>2
  <2>12. RowsAreMarked' /\ BindsHaveRows' /\ RowsAreSeparate' /\ OneRowPerDungeon'
    BY <2>2 DEF RowsAreMarked, BindsHaveRows, RowsAreSeparate, OneRowPerDungeon, Agreed
  <2> QED BY <2>8, <2>9, <2>10, <2>11, <2>12 DEF Agreed
<1> QED BY <1>2, <1>3

-----------------------------------------------------------------------------
(* The restart.                                                            *)

\* The tables alone say what a started server keeps.
LEMMA RestartAgrees ==
  ASSUME TypeOK, Agreed, Restart
  PROVE  /\ Agreed'
         /\ \E S, L \in SUBSET Id :
              /\ \A id \in Id \ S : row[id] # NULL
              /\ used' = Id \ S /\ dbBind' = Forgotten(S)
              /\ row' = WithoutRow(S)
              /\ late' = L
              /\ events' = [k \in Dungeon \X Id |->
                              IF k[2] \notin S \cup L /\ row[k[2]] = k[1] THEN 1 ELSE 0]
<1>1. PICK expired, passed \in SUBSET {id \in Id : row[id] # NULL} :
        LET kept == {id \in Id : /\ row[id] # NULL /\ id \notin expired
                                 /\ \E q \in Party : id \in dbBind[q]}
            boundBy(q, d) == {id \in kept \cap dbBind[q] : row[id] = d}
        IN  /\ where' = [p \in Player |-> "offline"]
            /\ row' = [id \in Id |-> IF id \in kept THEN row[id] ELSE NULL]
            /\ dbBind' = [q \in Party |-> dbBind[q] \cap kept]
            /\ used' = kept
            /\ late' = kept \cap passed
            /\ events' = [k \in Dungeon \X Id |->
                            IF k[2] \in kept \ passed /\ row[k[2]] = k[1] THEN 1 ELSE 0]
            /\ bind' = [q \in Party |-> [d \in Dungeon |->
                          IF q \in Group /\ boundBy(q, d) # {} THEN CHOOSE id \in boundBy(q, d) : TRUE
                          ELSE NULL]]
            /\ save' = [id \in Id |->
                          LET groups == {q \in Group : id \in kept \cap dbBind[q]}
                          IN  IF groups = {} THEN NULL ELSE [map |-> row[id], parties |-> groups]]
  BY DEF Restart
<1> DEFINE kept == {id \in Id : /\ row[id] # NULL /\ id \notin expired
                                /\ \E q \in Party : id \in dbBind[q]}
           boundBy(q, d) == {id \in kept \cap dbBind[q] : row[id] = d}
           groups(id) == {q \in Group : id \in kept \cap dbBind[q]}
<1>2. kept \subseteq Id /\ \A id \in kept : row[id] # NULL /\ row[id] \in Dungeon
  BY DEF TypeOK
<1>3. /\ \A q \in Party : dbBind'[q] = dbBind[q] \cap kept
      /\ \A id \in Id : row'[id] = IF id \in kept THEN row[id] ELSE NULL
      /\ \A id \in Id : save'[id] = IF groups(id) = {} THEN NULL
                                    ELSE [map |-> row[id], parties |-> groups(id)]
      /\ \A q \in Party, d \in Dungeon :
           bind'[q][d] = IF q \in Group /\ boundBy(q, d) # {} THEN CHOOSE id \in boundBy(q, d) : TRUE
                         ELSE NULL
      /\ used' = kept
      /\ late' = kept \cap passed
      /\ events' = [k \in Dungeon \X Id |->
                      IF k[2] \in kept \ passed /\ row[k[2]] = k[1] THEN 1 ELSE 0]
      /\ where' = [p \in Player |-> "offline"]
  BY <1>1
<1>21. ASSUME NEW q \in Party, NEW d \in Dungeon
       PROVE  bind'[q][d] = IF q \in Group /\ boundBy(q, d) # {}
                            THEN CHOOSE id \in boundBy(q, d) : TRUE ELSE NULL
  BY <1>3
<1>4. /\ dbBind' = [q \in Party |-> dbBind[q] \cap kept]
      /\ row' = [id \in Id |-> IF id \in kept THEN row[id] ELSE NULL]
  BY <1>1
<1> HIDE DEF kept
<1>5. \A q \in Party : Active(q)' <=> q \in Group
  BY <1>3 DEF Active
<1>6. ASSUME NEW q \in Party, NEW d \in Dungeon, bind'[q][d] # NULL
      PROVE  /\ q \in Group /\ bind'[q][d] \in kept /\ bind'[q][d] \in dbBind[q]
             /\ row[bind'[q][d]] = d
  <2>1. q \in Group /\ bind'[q][d] \in boundBy(q, d)
    BY <1>6, <1>21
  <2> QED BY <2>1
<1>7. ASSUME NEW q \in Group, NEW id \in kept \cap dbBind[q]
      PROVE  bind'[q][row[id]] = id
  <2>1. q \in Party /\ row[id] \in Dungeon /\ id \in boundBy(q, row[id])
    BY <1>2, PartyAssumption
  <2>2. \A i \in boundBy(q, row[id]) : i = id
    BY <2>1 DEF Agreed, OneRowPerDungeon
  <2>3. bind'[q][row[id]] = CHOOSE i \in boundBy(q, row[id]) : TRUE
    BY <1>3, <2>1
  <2> QED BY <2>1, <2>2, <2>3
<1>8. ASSUME NEW id \in Id, NEW q \in Group, id \in kept, id \in dbBind[q]
      PROVE  /\ save'[id] # NULL /\ save'[id].map = row[id] /\ save'[id].parties = groups(id)
             /\ q \in groups(id)
  <2>1. q \in groups(id) /\ save'[id] = [map |-> row[id], parties |-> groups(id)]
    BY <1>3, <1>8
  <2>2. groups(id) \subseteq Party /\ row[id] \in Dungeon
    BY <1>2, <1>8, PartyAssumption
  <2> HIDE DEF groups
  <2>3. [map |-> row[id], parties |-> groups(id)] \in Save
    BY <2>2 DEF Save
  <2> QED BY <2>1, <2>3, NullIsNoSave
<1>9. ASSUME NEW id \in Id, save'[id] # NULL
      PROVE  /\ id \in kept /\ save'[id].map = row[id]
             /\ save'[id].parties # {} /\ \A q \in save'[id].parties : q \in Group /\ id \in dbBind[q]
  <2>1. save'[id] = [map |-> row[id], parties |-> groups(id)] /\ groups(id) # {}
    BY <1>3, <1>9
  <2>2. save'[id].map = row[id] /\ save'[id].parties = groups(id)
    BY <2>1
  <2> QED BY <2>1, <2>2
<1> HIDE DEF groups, boundBy
<1>10. BindsAreRows'
  <2> SUFFICES ASSUME NEW q \in Party, NEW d \in Dungeon, bind'[q][d] # NULL
               PROVE  Active(q)' /\ bind'[q][d] \in dbBind'[q] /\ row'[bind'[q][d]] = d
    BY DEF BindsAreRows
  <2>1. /\ q \in Group /\ bind'[q][d] \in kept /\ bind'[q][d] \in dbBind[q]
        /\ row[bind'[q][d]] = d
    BY <1>6
  <2> QED BY <1>2, <1>3, <1>5, <2>1
<1>11. RowsAreBinds'
  <2> SUFFICES ASSUME NEW q \in Party, NEW id \in dbBind'[q], Active(q)'
               PROVE  bind'[q][row'[id]] = id
    BY DEF RowsAreBinds
  <2>1. q \in Group /\ id \in kept \cap dbBind[q] /\ row'[id] = row[id]
    BY <1>2, <1>3, <1>5
  <2> QED BY <1>7, <2>1
<1>12. BindsAreSound'
  <2>1. ASSUME NEW q \in Party, NEW d \in Dungeon, bind'[q][d] # NULL
        PROVE  /\ save'[bind'[q][d]] # NULL /\ save'[bind'[q][d]].map = d
               /\ q \in save'[bind'[q][d]].parties
    <3>1. /\ q \in Group /\ bind'[q][d] \in kept /\ bind'[q][d] \in dbBind[q]
          /\ row[bind'[q][d]] = d /\ bind'[q][d] \in Id
      BY <1>2, <1>6, <2>1
    <3> QED BY <1>8, <3>1
  <2>2. ASSUME NEW id \in Id, save'[id] # NULL
        PROVE  /\ save'[id].parties # {}
               /\ \A q \in save'[id].parties : bind'[q][save'[id].map] = id
    BY <1>7, <1>9, <2>2
  <2> QED BY <2>1, <2>2 DEF BindsAreSound
<1>13. SavesAreBacked'
  BY <1>3, <1>9 DEF SavesAreBacked
<1>14. RowsAreMarked' /\ BindsHaveRows'
  BY <1>2, <1>3 DEF RowsAreMarked, BindsHaveRows
<1>15. RowsAreSeparate' /\ OneRowPerDungeon'
  <2>1. RowsAreSeparate'
    BY <1>3 DEF RowsAreSeparate, Agreed
  <2>2. ASSUME NEW q \in Party, NEW i \in dbBind'[q], NEW j \in dbBind'[q], row'[i] = row'[j]
        PROVE  i = j
    <3>1. /\ i \in dbBind[q] /\ row'[i] = row[i]
          /\ j \in dbBind[q] /\ row'[j] = row[j]
      BY <1>2, <1>3
    <3> QED BY <2>2, <3>1 DEF Agreed, OneRowPerDungeon
  <2> QED BY <2>1, <2>2 DEF OneRowPerDungeon
<1>16. Agreed'
  BY <1>10, <1>11, <1>12, <1>13, <1>14, <1>15 DEF Agreed
<1> DEFINE S == Id \ kept
<1>17. \A id \in Id : id \in S <=> id \notin kept
  OBVIOUS
<1>18. used' = Id \ S /\ (\A id \in Id \ S : row[id] # NULL) /\ S \in SUBSET Id
  BY <1>2, <1>3
<1>19. dbBind' = Forgotten(S) /\ row' = WithoutRow(S)
  <2>1. \A q \in Party : dbBind[q] \cap kept = dbBind[q] \ S
    BY <1>17 DEF TypeOK
  <2> HIDE DEF S
  <2> QED BY <1>4, <1>17, <2>1 DEF Forgotten, WithoutRow
<1> DEFINE L == kept \cap passed
<1>20. /\ L \in SUBSET Id /\ late' = L
       /\ events' = [k \in Dungeon \X Id |->
                       IF k[2] \notin S \cup L /\ row[k[2]] = k[1] THEN 1 ELSE 0]
  <2> HIDE DEF S
  <2>1. \A k \in Dungeon \X Id : k[2] \in kept \ passed <=> k[2] \notin S \cup L
    BY <1>17
  <2>2. L \in SUBSET Id /\ late' = L
    BY <1>2, <1>3
  <2> HIDE DEF L
  <2> QED BY <1>3, <2>1, <2>2
<1> HIDE DEF S, L
<1> QED BY <1>16, <1>18, <1>19, <1>20

-----------------------------------------------------------------------------
(* Types.                                                                  *)

PlayersTyped ==
  /\ where \in [Player -> Where]
  /\ link \in [Player -> Object \cup {NULL}]
  /\ \A p \in Player : link[p] # NULL <=> where[p] \in {"inside", "transit"}
MapsTyped ==
  /\ map \in [Object -> [dungeon : Dungeon, id : Id] \cup {NULL}]
  /\ timer \in SUBSET Object
  /\ m_InstancedMaps \in [Dungeon \X Id -> Object \cup {NULL}]
SavesTyped ==
  /\ bind \in [Party -> [Dungeon -> Id \cup {NULL}]]
  /\ save \in [Id -> Save \cup {NULL}]
TablesTyped ==
  /\ used \in SUBSET Id
  /\ row \in [Id -> Dungeon \cup {NULL}]
  /\ dbBind \in [Party -> SUBSET Id]
EventsTyped ==
  /\ events \in [Dungeon \X Id -> 0..MaxEvents]
  /\ late \in SUBSET Id

LEMMA TypeParts ==
  TypeOK <=> PlayersTyped /\ MapsTyped /\ SavesTyped /\ TablesTyped /\ EventsTyped
BY DEF TypeOK, PlayersTyped, MapsTyped, SavesTyped, TablesTyped, EventsTyped

\* A player who moves is linked to a map in a dungeon or on his way out of it.
LEMMA PlayersStep ==
  ASSUME PlayersTyped, NEW p \in Player, NEW w \in Where, NEW o \in Object \cup {NULL},
         o # NULL <=> w \in {"inside", "transit"},
         where' = [where EXCEPT ![p] = w], link' = [link EXCEPT ![p] = o]
  PROVE  PlayersTyped'
<1>1. where' \in [Player -> Where] /\ link' \in [Player -> Object \cup {NULL}]
  BY DEF PlayersTyped
<1>2. ASSUME NEW r \in Player
      PROVE  link'[r] # NULL <=> where'[r] \in {"inside", "transit"}
  <2>1. CASE r = p
    BY <2>1 DEF PlayersTyped
  <2>2. CASE r # p
    <3>1. link'[r] = link[r] /\ where'[r] = where[r]
      BY <2>2 DEF PlayersTyped
    <3> QED BY <3>1 DEF PlayersTyped
  <2> QED BY <2>1, <2>2
<1> QED BY <1>1, <1>2 DEF PlayersTyped

LEMMA AddPlayers ==
  ASSUME PlayersTyped, MapsTyped, NEW p \in Player, NEW d \in Dungeon, NEW id \in Id,
         NEW o \in Object, Add(p, d, id, o)
  PROVE  PlayersTyped' /\ timer' \in SUBSET Object
<1>1. where' = [where EXCEPT ![p] = "inside"] /\ link' = [link EXCEPT ![p] = o] /\ timer' = timer \ {o}
  BY DEF Add
<1> QED BY <1>1, PlayersStep DEF MapsTyped, Where

LEMMA NewMapTyped ==
  ASSUME MapsTyped, NEW d \in Dungeon, NEW id \in Id, NEW o \in Object, NewMap(d, id, o),
         timer' \in SUBSET Object
  PROVE  MapsTyped'
<1>1. [dungeon |-> d, id |-> id] \in [dungeon : Dungeon, id : Id]
  OBVIOUS
<1> QED BY <1>1 DEF MapsTyped, NewMap

LEMMA EnterType ==
  ASSUME TypeOK, Agreed, NEW p \in Player, NEW d \in Dungeon,
         EnterLoaded(p, d) \/ EnterSaved(p, d) \/ EnterNew(p, d)
  PROVE  TypeOK'
<1>1. PlayersTyped /\ MapsTyped /\ SavesTyped /\ TablesTyped /\ EventsTyped
  BY TypeParts
<1>2. CASE EnterLoaded(p, d)
  <2> DEFINE id == bind[PartyOf[p]][d]
  <2>1. id \in Id
    BY <1>1, <1>2, PartyAssumption DEF EnterLoaded, SavesTyped
  <2>2. m_InstancedMaps[<<d, id>>] \in Object
    BY <1>1, <1>2, <2>1 DEF EnterLoaded, MapsTyped
  <2>3. PlayersTyped' /\ timer' \in SUBSET Object
    BY <1>1, <1>2, <2>1, <2>2, AddPlayers DEF EnterLoaded
  <2>4. MapsTyped'
    BY <1>1, <1>2, <2>3 DEF EnterLoaded, MapsTyped
  <2>5. SavesTyped' /\ TablesTyped' /\ EventsTyped'
    BY <1>1, <1>2, EnterBoundAgrees DEF SavesTyped, TablesTyped, EventsTyped, saves, tables, resets
  <2> QED BY <2>3, <2>4, <2>5 DEF TypeOK, PlayersTyped, MapsTyped, SavesTyped, TablesTyped, EventsTyped
<1>3. CASE EnterSaved(p, d)
  <2> DEFINE id == bind[PartyOf[p]][d]
  <2>1. id \in Id
    BY <1>1, <1>3, PartyAssumption DEF EnterSaved, SavesTyped
  <2>2. PICK o \in Object : NewMap(d, id, o) /\ Add(p, d, id, o)
    BY <1>3 DEF EnterSaved
  <2>3. PlayersTyped' /\ timer' \in SUBSET Object
    BY <1>1, <2>1, <2>2, AddPlayers
  <2>4. MapsTyped'
    BY <1>1, <2>1, <2>2, <2>3, NewMapTyped
  <2>5. SavesTyped' /\ TablesTyped' /\ EventsTyped'
    BY <1>1, <1>3, EnterBoundAgrees DEF SavesTyped, TablesTyped, EventsTyped, saves, tables, resets
  <2> QED BY <2>3, <2>4, <2>5 DEF TypeOK, PlayersTyped, MapsTyped, SavesTyped, TablesTyped, EventsTyped
<1>4. CASE EnterNew(p, d)
  <2>1. PICK id \in Id, o \in Object : NewMap(d, id, o) /\ Add(p, d, id, o)
    BY <1>4 DEF EnterNew
  <2>2. PlayersTyped' /\ timer' \in SUBSET Object
    BY <1>1, <2>1, AddPlayers
  <2>3. MapsTyped'
    BY <1>1, <2>1, <2>2, NewMapTyped
  <2>4. PICK i \in Id : NewInstance(PartyOf[p], d, i)
    BY <1>4, EnterNewAgrees
  <2>5. PartyOf[p] \in Party /\ [map |-> d, parties |-> {PartyOf[p]}] \in Save
    BY PartyAssumption DEF Save
  <2>6. SavesTyped'
    BY <1>1, <2>4, <2>5 DEF SavesTyped, NewInstance
  <2>7. TablesTyped'
    BY <1>1, <2>4, <2>5 DEF TablesTyped, NewInstance
  <2>8. EventsTyped'
    BY <1>1, <2>4, BoundAssumption DEF EventsTyped, NewInstance
  <2> QED BY <2>2, <2>3, <2>6, <2>7, <2>8
          DEF TypeOK, PlayersTyped, MapsTyped, SavesTyped, TablesTyped, EventsTyped
<1> QED BY <1>2, <1>3, <1>4

LEMMA MoveType ==
  ASSUME TypeOK, NEW p \in Player, Leave(p) \/ Arrive(p)
  PROVE  TypeOK'
<1>1. CASE Leave(p)
  <2>1. link[p] \in Object /\ link' = [link EXCEPT ![p] = link[p]]
    BY <1>1 DEF Leave, TypeOK
  <2>2. PlayersTyped'
    BY <1>1, <2>1, PlayersStep DEF Leave, Where, PlayersTyped, TypeOK
  <2>3. timer' \in SUBSET Object
    BY <1>1, <2>1 DEF Leave, TimerOnRemove, TypeOK
  <2> QED BY <1>1, <2>2, <2>3 DEF Leave, TypeOK, PlayersTyped, saves, tables, resets
<1>2. CASE Arrive(p)
  <2>1. PlayersTyped'
    BY <1>2, PlayersStep DEF Arrive, Unlinked, Where, PlayersTyped, TypeOK
  <2> QED BY <1>2, <2>1 DEF Arrive, TypeOK, PlayersTyped, maps, saves, tables, resets
<1> QED BY <1>1, <1>2

LEMMA LogoutType ==
  ASSUME TypeOK, NEW p \in Player, Logout(p)
  PROVE  TypeOK'
<1>1. PlayersTyped'
  BY PlayersStep DEF Logout, Unlinked, Where, PlayersTyped, TypeOK
<1>2. timer' \in SUBSET Object
  <2>1. link[p] \in Object \cup {NULL}
    BY DEF TypeOK
  <2> QED BY <2>1 DEF Logout, TimerOnRemove, TypeOK
<1>3. PartyOf[p] \in Party
  BY PartyAssumption
<1>4. bind' \in [Party -> [Dungeon -> Id \cup {NULL}]]
  BY <1>3 DEF Logout, NoBind, TypeOK
<1>5. save' \in [Id -> Save \cup {NULL}]
  <2>1. \A id \in Id : Released(PartyOf[p], save[id]) \in Save \cup {NULL}
    <3> SUFFICES ASSUME NEW s \in Save \cup {NULL}
                 PROVE  Released(PartyOf[p], s) \in Save \cup {NULL}
      BY DEF TypeOK
    <3>1. CASE s = NULL
      BY <3>1 DEF Released
    <3>2. CASE s \in Save
      <4>1. [s EXCEPT !.parties = @ \ {PartyOf[p]}] \in Save
        BY <3>2 DEF Save
      <4> QED BY <4>1 DEF Released
    <3> QED BY <3>1, <3>2
  <2>2. SavesAfterLogout(PartyOf[p]) \in [Id -> Save \cup {NULL}]
    BY <2>1 DEF SavesAfterLogout, TypeOK
  <2> QED BY <2>2 DEF Logout
<1>6. events' \in [Dungeon \X Id -> 0..MaxEvents]
  <2>1. \/ events' = events
        \/ \E k : events[k] < MaxEvents /\ events' = [events EXCEPT ![k] = @ + 1]
    BY DEF Logout, resets
  <2>2. CASE events' = events
    BY <2>2 DEF TypeOK
  <2>3. ASSUME NEW k, events[k] < MaxEvents, events' = [events EXCEPT ![k] = @ + 1]
        PROVE  events' \in [Dungeon \X Id -> 0..MaxEvents]
    <3>1. events \in [Dungeon \X Id -> 0..MaxEvents]
      BY DEF TypeOK
    <3>2. ASSUME NEW j \in Dungeon \X Id
          PROVE  events'[j] \in 0..MaxEvents
      <4>1. CASE j = k
        BY <2>3, <3>1, <4>1, BoundAssumption
      <4>2. CASE j # k
        BY <2>3, <3>1, <4>2
      <4> QED BY <4>1, <4>2
    <3>3. events' = [j \in Dungeon \X Id |-> events'[j]]
      BY <2>3, <3>1
    <3> QED BY <3>2, <3>3
  <2> QED BY <2>1, <2>2, <2>3
<1>7. late' \in SUBSET Id
  BY DEF Logout, resets, TypeOK
<1> QED BY <1>1, <1>2, <1>4, <1>5, <1>6, <1>7 DEF Logout, TypeOK, PlayersTyped, tables

LEMMA LoginType ==
  ASSUME TypeOK, Agreed, NEW p \in Player, Login(p)
  PROVE  TypeOK'
<1> DEFINE q == PartyOf[p]
<1>1. PlayersTyped'
  <2>1. link[p] = NULL /\ link' = [link EXCEPT ![p] = NULL]
    BY DEF Login, TypeOK, Where
  <2> QED BY <2>1, PlayersStep DEF Login, Where, PlayersTyped, TypeOK
<1>2. q \in Party /\ dbBind[q] \subseteq Id /\ \A id \in dbBind[q] : row[id] \in Dungeon
  BY PartyAssumption DEF TypeOK, Agreed, BindsHaveRows
<1>3. SavesTyped'
  <2>1. CASE q \in Group
    BY <2>1 DEF Login, saves, SavesTyped, TypeOK
  <2>2. CASE q \notin Group
    <3> DEFINE bound == [d \in Dungeon |->
                           IF \E id \in dbBind[q] : row[id] = d
                           THEN CHOOSE id \in dbBind[q] : row[id] = d ELSE NULL]
    <3>1. bind' = [bind EXCEPT ![q] = bound]
      BY <2>2 DEF Login
    <3>2. bound \in [Dungeon -> Id \cup {NULL}]
      BY <1>2
    <3>3. ASSUME NEW id \in Id
          PROVE  save'[id] \in Save \cup {NULL}
      <4>1. CASE id \notin dbBind[q]
        BY <2>2, <4>1 DEF Login, TypeOK
      <4>2. CASE id \in dbBind[q] /\ save[id] = NULL
        <5>1. save'[id] = [map |-> row[id], parties |-> {q}]
          BY <2>2, <4>2 DEF Login
        <5> QED BY <1>2, <4>2, <5>1 DEF Save
      <4>3. CASE id \in dbBind[q] /\ save[id] # NULL
        <5>1. save'[id] = [save[id] EXCEPT !.parties = @ \cup {q}]
          BY <2>2, <4>3 DEF Login
        <5>2. save[id] \in Save
          BY <4>3 DEF TypeOK
        <5> QED BY <1>2, <5>1, <5>2 DEF Save
      <4> QED BY <4>1, <4>2, <4>3
    <3>4. save' \in [Id -> Save \cup {NULL}]
      <4>1. save' = [id \in Id |-> save'[id]]
        BY <2>2 DEF Login
      <4> QED BY <3>3, <4>1
    <3> HIDE DEF bound
    <3> QED BY <3>1, <3>2, <3>4 DEF SavesTyped, TypeOK
  <2> QED BY <2>1, <2>2
<1> QED BY <1>1, <1>3 DEF Login, TypeOK, PlayersTyped, SavesTyped, maps, tables, resets

LEMMA ForgetType ==
  ASSUME TypeOK, NEW S \in SUBSET Id, Forget(S)
  PROVE  SavesTyped' /\ TablesTyped'
<1>1. SavesTyped'
  BY DEF Forget, SavesTyped, TypeOK
<1>2. TablesTyped'
  BY DEF Forget, WithoutRow, Forgotten, TablesTyped, TypeOK
<1> QED BY <1>1, <1>2

LEMMA ResetInstancesType ==
  ASSUME TypeOK, Agreed, NEW q \in Party, ResetInstances(q)
  PROVE  TypeOK'
<1>1. SavesTyped' /\ TablesTyped'
  BY ResetInstancesAgrees, ForgetType
<1>2. timer' \in SUBSET Object
  <2> DEFINE mapOf(d)   == m_InstancedMaps[<<d, bind[q][d]>>]
             resettable == {d \in Dungeon : /\ bind[q][d] # NULL
                                            /\ mapOf(d) = NULL \/ ~HavePlayers(mapOf(d))}
  <2>1. timer' = timer \cup {mapOf(d) : d \in {e \in resettable : mapOf(e) # NULL}}
    BY DEF ResetInstances
  <2>2. ASSUME NEW d \in resettable, mapOf(d) # NULL
        PROVE  mapOf(d) \in Object
    <3>1. <<d, bind[q][d]>> \in Dungeon \X Id
      BY DEF TypeOK
    <3> QED BY <2>2, <3>1 DEF TypeOK
  <2>3. timer \subseteq Object
    BY DEF TypeOK
  <2> HIDE DEF resettable, mapOf
  <2> QED BY <2>1, <2>2, <2>3
<1> QED BY <1>1, <1>2 DEF ResetInstances, TypeOK, SavesTyped, TablesTyped, players, resets

LEMMA FireResetType ==
  ASSUME TypeOK, NEW d \in Dungeon, NEW id \in Id, FireReset(d, id)
  PROVE  TypeOK'
<1>1. bind' \in [Party -> [Dungeon -> Id \cup {NULL}]]
  BY DEF FireReset, Unbound, TypeOK
<1>2. save' \in [Id -> Save \cup {NULL}]
  BY DEF FireReset, Unsaved, TypeOK
<1>3. row' \in [Id -> Dungeon \cup {NULL}] /\ dbBind' \in [Party -> SUBSET Id] /\ used' \in SUBSET Id
  BY DEF FireReset, Freed, WithoutRow, Forgotten, TypeOK
<1>4. timer' \in SUBSET Object
  <2>1. m_InstancedMaps[<<d, id>>] \in Object \cup {NULL}
    BY DEF TypeOK
  <2> QED BY <2>1 DEF FireReset, TypeOK
<1>5. events' \in [Dungeon \X Id -> 0..MaxEvents]
  BY BoundAssumption DEF FireReset, TypeOK
<1> QED BY <1>1, <1>2, <1>3, <1>4, <1>5 DEF FireReset, TypeOK, players

LEMMA UnloadType ==
  ASSUME TypeOK, NEW o \in Object, Unload(o)
  PROVE  TypeOK'
<1>1. MapsTyped'
  BY DEF Unload, MapsTyped, TypeOK
<1> QED BY <1>1 DEF Unload, TypeOK, MapsTyped, players, saves, tables, resets

LEMMA RestartType ==
  ASSUME TypeOK, Agreed, Restart
  PROVE  TypeOK'
<1>1. PlayersTyped' /\ MapsTyped'
  BY DEF Restart, PlayersTyped, MapsTyped, Where
<1>2. TablesTyped' /\ EventsTyped'
  <2>1. PICK S, L \in SUBSET Id :
          /\ \A id \in Id \ S : row[id] # NULL
          /\ used' = Id \ S /\ dbBind' = Forgotten(S)
          /\ row' = WithoutRow(S)
          /\ late' = L
          /\ events' = [k \in Dungeon \X Id |->
                          IF k[2] \notin S \cup L /\ row[k[2]] = k[1] THEN 1 ELSE 0]
    BY RestartAgrees
  <2>2. TablesTyped'
    BY <2>1 DEF TablesTyped, TypeOK, Forgotten, WithoutRow
  <2>3. EventsTyped'
    BY <2>1, BoundAssumption DEF EventsTyped
  <2> QED BY <2>2, <2>3
<1>3. SavesTyped'
  <2>1. PICK kept \in SUBSET Id :
          /\ \A id \in kept : row[id] # NULL
          /\ bind' = [q \in Party |-> [d \in Dungeon |->
               IF q \in Group /\ {id \in kept \cap dbBind[q] : row[id] = d} # {}
               THEN CHOOSE id \in {id \in kept \cap dbBind[q] : row[id] = d} : TRUE
               ELSE NULL]]
          /\ save' = [id \in Id |->
               IF {q \in Group : id \in kept \cap dbBind[q]} = {} THEN NULL
               ELSE [map |-> row[id], parties |-> {q \in Group : id \in kept \cap dbBind[q]}]]
    <3>1. PICK expired, passed \in SUBSET {id \in Id : row[id] # NULL} :
            LET kept == {id \in Id : /\ row[id] # NULL /\ id \notin expired
                                     /\ \E q \in Party : id \in dbBind[q]}
                boundBy(q, d) == {id \in kept \cap dbBind[q] : row[id] = d}
            IN  /\ bind' = [q \in Party |-> [d \in Dungeon |->
                              IF q \in Group /\ boundBy(q, d) # {}
                              THEN CHOOSE id \in boundBy(q, d) : TRUE ELSE NULL]]
                /\ save' = [id \in Id |->
                              LET groups == {q \in Group : id \in kept \cap dbBind[q]}
                              IN  IF groups = {} THEN NULL ELSE [map |-> row[id], parties |-> groups]]
      BY DEF Restart
    <3> DEFINE kept == {id \in Id : /\ row[id] # NULL /\ id \notin expired
                                    /\ \E q \in Party : id \in dbBind[q]}
    <3>2. kept \in SUBSET Id /\ \A id \in kept : row[id] # NULL
      OBVIOUS
    <3>3. /\ bind' = [q \in Party |-> [d \in Dungeon |->
               IF q \in Group /\ {id \in kept \cap dbBind[q] : row[id] = d} # {}
               THEN CHOOSE id \in {id \in kept \cap dbBind[q] : row[id] = d} : TRUE
               ELSE NULL]]
          /\ save' = [id \in Id |->
               IF {q \in Group : id \in kept \cap dbBind[q]} = {} THEN NULL
               ELSE [map |-> row[id], parties |-> {q \in Group : id \in kept \cap dbBind[q]}]]
      BY <3>1
    <3> HIDE DEF kept
    <3> QED BY <3>2, <3>3
  <2>2. bind' \in [Party -> [Dungeon -> Id \cup {NULL}]]
    <3>1. \A q \in Party, d \in Dungeon :
            {id \in kept \cap dbBind[q] : row[id] = d} # {} =>
              (CHOOSE id \in {id \in kept \cap dbBind[q] : row[id] = d} : TRUE) \in Id
      OBVIOUS
    <3> QED BY <2>1, <3>1
  <2>3. save' \in [Id -> Save \cup {NULL}]
    <3>1. ASSUME NEW id \in Id, {q \in Group : id \in kept \cap dbBind[q]} # {}
          PROVE  [map |-> row[id], parties |-> {q \in Group : id \in kept \cap dbBind[q]}] \in Save
      <4>1. row[id] \in Dungeon
        BY <2>1, <3>1 DEF TypeOK
      <4> QED BY <4>1, PartyAssumption DEF Save
    <3> QED BY <2>1, <3>1
  <2> QED BY <2>2, <2>3 DEF SavesTyped
<1> QED BY <1>1, <1>2, <1>3 DEF TypeOK, PlayersTyped, MapsTyped, SavesTyped, TablesTyped, EventsTyped

-----------------------------------------------------------------------------
(* The maps of players are loaded.                                         *)

LEMMA EnterMaps ==
  ASSUME TypeOK, RegistryIsSound, LinksAreLoaded, NEW p \in Player, NEW d \in Dungeon,
         EnterLoaded(p, d) \/ EnterSaved(p, d) \/ EnterNew(p, d)
  PROVE  RegistryIsSound' /\ LinksAreLoaded'
<1>1. PartyOf[p] \in Party
  BY PartyAssumption
<1>2. CASE EnterLoaded(p, d)
  <2> DEFINE id == bind[PartyOf[p]][d]
             o  == m_InstancedMaps[<<d, id>>]
  <2>1. /\ id \in Id /\ o # NULL /\ link' = [link EXCEPT ![p] = o]
        /\ map' = map /\ m_InstancedMaps' = m_InstancedMaps
    BY <1>1, <1>2 DEF EnterLoaded, Add, TypeOK
  <2>2. map[o] # NULL
    <3>1. map[o] = [dungeon |-> d, id |-> id]
      BY <2>1 DEF RegistryIsSound
    <3>2. [dungeon |-> d, id |-> id] # NULL
      BY <2>1, NullAssumption DEF Id
    <3> QED BY <3>1, <3>2
  <2> HIDE DEF o, id
  <2> QED BY <2>1, <2>2 DEF RegistryIsSound, LinksAreLoaded, TypeOK
<1>3. CASE EnterSaved(p, d) \/ EnterNew(p, d)
  <2>1. PICK id \in Id, o \in Object : NewMap(d, id, o) /\ link' = [link EXCEPT ![p] = o]
    <3>1. CASE EnterSaved(p, d)
      <4>1. bind[PartyOf[p]][d] \in Id
        BY <1>1, <3>1 DEF EnterSaved, TypeOK
      <4>2. PICK o \in Object : NewMap(d, bind[PartyOf[p]][d], o) /\ Add(p, d, bind[PartyOf[p]][d], o)
        BY <3>1 DEF EnterSaved
      <4> QED BY <4>1, <4>2 DEF Add
    <3>2. CASE EnterNew(p, d)
      <4>1. PICK id \in Id, o \in Object : NewMap(d, id, o) /\ Add(p, d, id, o)
        BY <3>2 DEF EnterNew
      <4> QED BY <4>1 DEF Add
    <3> QED BY <1>3, <3>1, <3>2
  <2> DEFINE new == [dungeon |-> d, id |-> id]
  <2>2. /\ new # NULL /\ map[o] = NULL
        /\ map' = [map EXCEPT ![o] = new]
        /\ m_InstancedMaps' = [m_InstancedMaps EXCEPT ![<<d, id>>] = o]
    BY <2>1, NullAssumption DEF NewMap, Id
  <2>3. ASSUME NEW e \in Dungeon, NEW i \in Id, m_InstancedMaps'[<<e, i>>] # NULL
        PROVE  map'[m_InstancedMaps'[<<e, i>>]] = [dungeon |-> e, id |-> i]
    <3>1. CASE e = d /\ i = id
      BY <2>2, <3>1 DEF TypeOK
    <3>2. CASE ~(e = d /\ i = id)
      <4>1. m_InstancedMaps'[<<e, i>>] = m_InstancedMaps[<<e, i>>]
        BY <2>2, <3>2 DEF TypeOK
      <4>2. /\ m_InstancedMaps[<<e, i>>] # NULL /\ m_InstancedMaps[<<e, i>>] \in Object
            /\ map[m_InstancedMaps[<<e, i>>]] = [dungeon |-> e, id |-> i]
        BY <2>3, <4>1 DEF RegistryIsSound, TypeOK
      <4>3. [dungeon |-> e, id |-> i] # NULL
        BY NullAssumption DEF Id
      <4>4. m_InstancedMaps[<<e, i>>] # o
        BY <2>2, <4>2, <4>3
      <4> QED BY <2>2, <4>1, <4>2, <4>4 DEF TypeOK
    <3> QED BY <3>1, <3>2
  <2>4. ASSUME NEW x \in Player, link'[x] # NULL
        PROVE  map'[link'[x]] # NULL
    <3>1. CASE x = p
      BY <2>1, <2>2, <3>1 DEF TypeOK
    <3>2. CASE x # p
      BY <2>1, <2>2, <2>4, <3>2 DEF TypeOK, LinksAreLoaded
    <3> QED BY <3>1, <3>2
  <2> QED BY <2>3, <2>4 DEF RegistryIsSound, LinksAreLoaded
<1> QED BY <1>2, <1>3

LEMMA UnloadMaps ==
  ASSUME TypeOK, RegistryIsSound, LinksAreLoaded, NEW o \in Object, Unload(o)
  PROVE  RegistryIsSound' /\ LinksAreLoaded'
<1>1. /\ map[o] # NULL /\ link' = link
      /\ map' = [map EXCEPT ![o] = NULL]
      /\ m_InstancedMaps[<<map[o].dungeon, map[o].id>>] = o
      /\ m_InstancedMaps' = [m_InstancedMaps EXCEPT ![<<map[o].dungeon, map[o].id>>] = NULL]
      /\ \A p \in Player : link[p] # o
  BY DEF Unload, Registered, Loaded, Key, HavePlayers, LinkedTo, players
<1>2. ASSUME NEW e \in Dungeon, NEW i \in Id, m_InstancedMaps'[<<e, i>>] # NULL
      PROVE  map'[m_InstancedMaps'[<<e, i>>]] = [dungeon |-> e, id |-> i]
  <2>1. <<e, i>> # <<map[o].dungeon, map[o].id>>
    BY <1>1, <1>2 DEF TypeOK
  <2>2. m_InstancedMaps'[<<e, i>>] = m_InstancedMaps[<<e, i>>]
    BY <1>1, <2>1 DEF TypeOK
  <2>3. /\ m_InstancedMaps[<<e, i>>] \in Object
        /\ map[m_InstancedMaps[<<e, i>>]] = [dungeon |-> e, id |-> i]
    BY <1>2, <2>2 DEF RegistryIsSound, TypeOK
  <2>4. m_InstancedMaps[<<e, i>>] # o
    BY <2>1, <2>3
  <2> QED BY <1>1, <2>2, <2>3, <2>4 DEF TypeOK
<1>3. ASSUME NEW x \in Player, link'[x] # NULL
      PROVE  map'[link'[x]] # NULL
  BY <1>1, <1>3 DEF TypeOK, LinksAreLoaded
<1> QED BY <1>2, <1>3 DEF RegistryIsSound, LinksAreLoaded

LEMMA OtherMaps ==
  ASSUME TypeOK, RegistryIsSound, LinksAreLoaded,
         UNCHANGED <<map, m_InstancedMaps>>,
         \A p \in Player : link'[p] \in {link[p], NULL}
  PROVE  RegistryIsSound' /\ LinksAreLoaded'
BY DEF RegistryIsSound, LinksAreLoaded

LEMMA MapsStep ==
  ASSUME TypeOK, RegistryIsSound, LinksAreLoaded, [Next]_vars
  PROVE  RegistryIsSound' /\ LinksAreLoaded'
<1>1. ASSUME NEW p \in Player, NEW d \in Dungeon,
             EnterLoaded(p, d) \/ EnterSaved(p, d) \/ EnterNew(p, d)
      PROVE  RegistryIsSound' /\ LinksAreLoaded'
  BY <1>1, EnterMaps
<1>2. ASSUME NEW p \in Player, Leave(p) \/ Arrive(p) \/ Logout(p) \/ Login(p)
      PROVE  RegistryIsSound' /\ LinksAreLoaded'
  <2>1. UNCHANGED <<map, m_InstancedMaps>> /\ link' \in {link, [link EXCEPT ![p] = NULL]}
    BY <1>2 DEF Leave, Arrive, Logout, Login, Unlinked, maps
  <2> QED BY <2>1, OtherMaps DEF TypeOK
<1>3. ASSUME NEW q \in Party, ResetInstances(q)
      PROVE  RegistryIsSound' /\ LinksAreLoaded'
  BY <1>3, OtherMaps DEF ResetInstances, players
<1>4. ASSUME NEW d \in Dungeon, NEW id \in Id, FireReset(d, id)
      PROVE  RegistryIsSound' /\ LinksAreLoaded'
  BY <1>4, OtherMaps DEF FireReset, players
<1>5. ASSUME NEW o \in Object, Unload(o)
      PROVE  RegistryIsSound' /\ LinksAreLoaded'
  BY <1>5, UnloadMaps
<1>6. CASE Restart
  BY <1>6 DEF Restart, RegistryIsSound, LinksAreLoaded
<1>7. CASE UNCHANGED vars
  BY <1>7, OtherMaps DEF vars, players, maps
<1> QED BY <1>1, <1>2, <1>3, <1>4, <1>5, <1>6, <1>7 DEF Next

-----------------------------------------------------------------------------
(* Pending resets.                                                         *)

\* No step but a reset takes an event away, and an id without one stays late until it has.
LEMMA MoreEvents ==
  ASSUME TypeOK, NoIdLeaks, used' \subseteq used,
         \A d \in Dungeon, id \in Id : events[<<d, id>>] > 0 => events'[<<d, id>>] > 0,
         \A id \in late : id \in late' \/ Scheduled(id)'
  PROVE  NoIdLeaks'
BY DEF NoIdLeaks, Scheduled, TypeOK

LEMMA EnterNewLeaks ==
  ASSUME TypeOK, NoIdLeaks, NEW q \in Party, NEW d \in Dungeon, NEW id \in Id,
         NewInstance(q, d, id)
  PROVE  NoIdLeaks'
<1>1. \A e \in Dungeon, i \in Id :
        /\ events[<<e, i>>] \in Nat
        /\ events'[<<e, i>>] = IF e = d /\ i = id THEN events[<<e, i>>] + 1 ELSE events[<<e, i>>]
  <2>1. /\ events \in [Dungeon \X Id -> Nat]
        /\ events' = [events EXCEPT ![<<d, id>>] = @ + 1]
    BY BoundAssumption DEF NewInstance, TypeOK
  <2> QED BY ONLY <2>1, d \in Dungeon, id \in Id
<1>2. ASSUME NEW i \in used'
      PROVE  Scheduled(i)' \/ i \in late'
  <2>1. i \in Id /\ (i = id \/ i \in used)
    BY DEF NewInstance, TypeOK
  <2>2. CASE i = id
    BY <1>1, <2>2 DEF Scheduled
  <2>3. CASE i \in late /\ i # id
    BY <2>3 DEF NewInstance
  <2>4. CASE i \in used /\ Scheduled(i)
    <3>1. PICK e \in Dungeon : events[<<e, i>>] > 0
      BY <2>4 DEF Scheduled
    <3>2. events'[<<e, i>>] > 0
      BY <1>1, <2>1, <3>1
    <3> QED BY <3>2 DEF Scheduled
  <2> QED BY <2>1, <2>2, <2>3, <2>4 DEF NoIdLeaks
<1> QED BY <1>2 DEF NoIdLeaks

LEMMA LogoutLeaks ==
  ASSUME TypeOK, NoIdLeaks, LinksAreLoaded, NEW p \in Player, Logout(p)
  PROVE  NoIdLeaks'
<1>1. \/ events' = events
      \/ \E k : events' = [events EXCEPT ![k] = @ + 1]
  BY DEF Logout, resets
<1>2. ASSUME NEW d \in Dungeon, NEW id \in Id, events[<<d, id>>] > 0
      PROVE  events'[<<d, id>>] > 0
  <2>1. CASE events' = events
    BY <1>2, <2>1
  <2>2. ASSUME NEW k, events' = [events EXCEPT ![k] = @ + 1]
        PROVE  events'[<<d, id>>] > 0
    <3>1. <<d, id>> \in DOMAIN events /\ events[<<d, id>>] \in Nat
      BY BoundAssumption DEF TypeOK
    <3>2. CASE k = <<d, id>>
      BY <1>2, <2>2, <3>1, <3>2
    <3>3. CASE k # <<d, id>>
      BY <1>2, <2>2, <3>1, <3>3
    <3> QED BY <3>2, <3>3
  <2> QED BY <1>1, <2>1, <2>2
<1>3. used' = used
  BY DEF Logout
<1>4. ASSUME NEW id \in late, id \notin late'
      PROVE  Scheduled(id)'
  <2> DEFINE o == link[p]
  <2>1. /\ o # NULL /\ id = map[o].id
        /\ events' = [events EXCEPT ![<<map[o].dungeon, map[o].id>>] = @ + 1]
    BY <1>4 DEF Logout, resets, Key
  <2>2. o \in Object /\ id \in Id
    BY <2>1 DEF TypeOK
  <2>3. map[o] # NULL
    BY <2>1 DEF LinksAreLoaded
  <2>4. map[o].dungeon \in Dungeon
    BY <2>2, <2>3 DEF TypeOK
  <2>5. events'[<<map[o].dungeon, id>>] = events[<<map[o].dungeon, id>>] + 1
    BY <2>1, <2>2, <2>4 DEF TypeOK
  <2>6. events[<<map[o].dungeon, id>>] \in Nat
    BY <2>2, <2>4, BoundAssumption DEF TypeOK
  <2> QED BY <2>4, <2>5, <2>6 DEF Scheduled
<1> QED BY <1>2, <1>3, <1>4, MoreEvents

LEMMA FireResetLeaks ==
  ASSUME TypeOK, NoIdLeaks, NEW d \in Dungeon, NEW id \in Id, FireReset(d, id)
  PROVE  NoIdLeaks'
<1> SUFFICES ASSUME NEW i \in used'
             PROVE  Scheduled(i)' \/ i \in late'
  BY DEF NoIdLeaks
<1>1. i \in used /\ i \in Id /\ i # id /\ late' = late
  BY DEF FireReset, Freed, TypeOK
<1>2. CASE Scheduled(i)
  <2>1. PICK e \in Dungeon : events[<<e, i>>] > 0
    BY <1>2 DEF Scheduled
  <2>2. events'[<<e, i>>] = events[<<e, i>>]
    BY <1>1 DEF FireReset, TypeOK
  <2> QED BY <2>1, <2>2 DEF Scheduled
<1> QED BY <1>1, <1>2 DEF NoIdLeaks

LEMMA RestartLeaks ==
  ASSUME TypeOK, Agreed, Restart
  PROVE  NoIdLeaks'
<1>1. PICK S, L \in SUBSET Id :
        /\ \A id \in Id \ S : row[id] # NULL
        /\ used' = Id \ S
        /\ late' = L
        /\ events' = [k \in Dungeon \X Id |->
                        IF k[2] \notin S \cup L /\ row[k[2]] = k[1] THEN 1 ELSE 0]
  BY RestartAgrees
<1> SUFFICES ASSUME NEW id \in used', id \notin late'
             PROVE  Scheduled(id)'
  BY DEF NoIdLeaks
<1>2. id \in Id /\ id \notin S \cup L /\ row[id] \in Dungeon
  BY <1>1 DEF TypeOK
<1>3. events'[<<row[id], id>>] = 1
  BY <1>1, <1>2
<1> QED BY <1>2, <1>3 DEF Scheduled

-----------------------------------------------------------------------------
(* The invariant.                                                          *)

LEMMA InitInvariant ==
  ASSUME Init
  PROVE  IInv
<1>1. TypeOK
  BY BoundAssumption DEF Init, TypeOK, NoBind, Where
<1>2. BindsAreRows /\ RowsAreBinds /\ BindsAreSound
  BY DEF Init, NoBind, BindsAreRows, RowsAreBinds, BindsAreSound
<1>3. /\ RowsAreMarked /\ BindsHaveRows /\ RowsAreSeparate /\ OneRowPerDungeon
      /\ SavesAreBacked /\ NoIdLeaks
  BY DEF Init, RowsAreMarked, BindsHaveRows, RowsAreSeparate, OneRowPerDungeon,
         SavesAreBacked, NoIdLeaks
<1>4. RegistryIsSound /\ LinksAreLoaded
  BY DEF Init, RegistryIsSound, LinksAreLoaded
<1> QED BY <1>1, <1>2, <1>3, <1>4 DEF IInv, SavesInv, Agreed

LEMMA SavesStep ==
  ASSUME SavesInv, LinksAreLoaded, [Next]_vars
  PROVE  SavesInv'
<1> USE DEF SavesInv
<1>1. ASSUME NEW p \in Player, NEW d \in Dungeon, EnterLoaded(p, d) \/ EnterSaved(p, d)
      PROVE  SavesInv'
  <2>1. TypeOK'
    BY <1>1, EnterType
  <2>2. Agreed' /\ events' = events /\ late' = late /\ used' = used
    BY <1>1, EnterBoundAgrees DEF resets
  <2>3. NoIdLeaks'
    BY <2>2, MoreEvents
  <2> QED BY <2>1, <2>2, <2>3
<1>2. ASSUME NEW p \in Player, NEW d \in Dungeon, EnterNew(p, d)
      PROVE  SavesInv'
  <2>1. TypeOK'
    BY <1>2, EnterType
  <2>2. Agreed' /\ PartyOf[p] \in Party
    BY <1>2, EnterNewAgrees, PartyAssumption
  <2>3. PICK id \in Id : NewInstance(PartyOf[p], d, id)
    BY <1>2, EnterNewAgrees
  <2>4. NoIdLeaks'
    BY <2>2, <2>3, EnterNewLeaks
  <2> QED BY <2>1, <2>2, <2>4
<1>3. ASSUME NEW p \in Player, Leave(p) \/ Arrive(p)
      PROVE  SavesInv'
  <2>1. TypeOK'
    BY <1>3, MoveType
  <2>2. UNCHANGED <<saves, used, tables, resets>>
    BY <1>3 DEF Leave, Arrive
  <2>3. where[p] # "offline" /\ \E w \in Where \ {"offline"} : where' = [where EXCEPT ![p] = w]
    BY <1>3 DEF Leave, Arrive, Where
  <2>4. \A q \in Party : Active(q)' <=> Active(q)
    BY <2>3, StillActive
  <2>5. Agreed'
    BY <2>2, <2>4, Frame
  <2>6. NoIdLeaks'
    BY <2>2, MoreEvents DEF resets
  <2> QED BY <2>1, <2>5, <2>6
<1>4. ASSUME NEW p \in Player, Logout(p)
      PROVE  SavesInv'
  BY <1>4, LogoutType, LogoutAgrees, LogoutLeaks
<1>5. ASSUME NEW p \in Player, Login(p)
      PROVE  SavesInv'
  <2>1. used' = used /\ events' = events /\ late' = late
    BY <1>5 DEF Login, resets
  <2> QED BY <1>5, <2>1, LoginType, LoginAgrees, MoreEvents
<1>6. ASSUME NEW q \in Party, ResetInstances(q)
      PROVE  SavesInv'
  <2>1. used' = used /\ events' = events /\ late' = late
    BY <1>6 DEF ResetInstances, resets
  <2> QED BY <1>6, <2>1, ResetInstancesType, ResetInstancesAgrees, MoreEvents
<1>7. ASSUME NEW d \in Dungeon, NEW id \in Id, FireReset(d, id)
      PROVE  SavesInv'
  BY <1>7, FireResetType, FireResetAgrees, FireResetLeaks
<1>8. ASSUME NEW o \in Object, Unload(o)
      PROVE  SavesInv'
  <2>1. UNCHANGED <<saves, used, tables, resets, where>>
    BY <1>8 DEF Unload, players
  <2>2. \A q \in Party : Active(q)' <=> Active(q)
    BY <2>1 DEF Active
  <2> QED BY <1>8, <2>1, <2>2, UnloadType, Frame, MoreEvents DEF resets
<1>9. CASE Restart
  BY <1>9, RestartType, RestartAgrees, RestartLeaks
<1>10. CASE UNCHANGED vars
  <2>1. TypeOK'
    BY <1>10 DEF TypeOK, vars, players, maps, saves, resets, tables
  <2>2. UNCHANGED <<saves, used, tables, resets, where>>
    BY <1>10 DEF vars, players
  <2>3. \A q \in Party : Active(q)' <=> Active(q)
    BY <2>2 DEF Active
  <2> QED BY <2>1, <2>2, <2>3, Frame, MoreEvents DEF resets
<1> QED BY <1>1, <1>2, <1>3, <1>4, <1>5, <1>6, <1>7, <1>8, <1>9, <1>10 DEF Next

LEMMA NextInvariant ==
  ASSUME IInv, [Next]_vars
  PROVE  IInv'
<1>1. SavesInv'
  BY SavesStep DEF IInv
<1>2. RegistryIsSound' /\ LinksAreLoaded'
  BY MapsStep DEF IInv, SavesInv
<1> QED BY <1>1, <1>2 DEF IInv

\* What is in memory and what is in the tables stay tied together, through entries,
\* logouts, resets and restarts, for any parties, dungeons, maps and ids.
THEOREM InvariantHolds == Spec => []IInv
<1>1. Init => IInv
  BY InitInvariant
<1>2. IInv /\ [Next]_vars => IInv'
  BY NextInvariant
<1> QED BY <1>1, <1>2, PTL DEF Spec

\* Every variable has its type, and a player is linked to a map exactly while he is in
\* a dungeon or on his way out of it (Player::m_mapRef).
THEOREM TypeCorrect == Spec => []TypeOK
<1>1. IInv => TypeOK
  BY DEF IInv, SavesInv
<1> QED BY <1>1, InvariantHolds, PTL

\* No bind points to a freed save, and no save lists a player who is gone
\* (InstanceSave::UnloadIfEmpty, Player::UnbindInstance).
THEOREM BindsStaySound == Spec => []BindsAreSound
<1>1. IInv => BindsAreSound
  BY DEF IInv, SavesInv, Agreed
<1> QED BY <1>1, InvariantHolds, PTL

\* A loaded save has its row and its id is marked, so that GenerateInstanceId cannot
\* give the id away.
THEOREM SavesStayBacked == Spec => []SavesAreBacked
<1>1. IInv => SavesAreBacked
  BY DEF IInv, SavesInv, Agreed
<1> QED BY <1>1, InvariantHolds, PTL

\* Every marked id has a reset scheduled that will free it (InstanceSaveManager::Update,
\* _ResetInstance), or is one that LoadResetTimes marked without scheduling its reset,
\* its time being past, and nobody has left its map since (InstanceSaveMgr.cpp:298, 331).
THEOREM EveryIdIsScheduled == Spec => []NoIdLeaks
<1>1. IInv => NoIdLeaks
  BY DEF IInv, SavesInv
<1> QED BY <1>1, InvariantHolds, PTL

-----------------------------------------------------------------------------
(* The refinement of Lockouts.                                             *)

\* LockOf, from any tables.
LockIn(b, r, q, d) ==
  LET ids == {id \in b[q] : r[id] = d}
  IN  IF ids = {} THEN NULL ELSE CHOOSE id \in ids : TRUE

LEMMA LockInTables ==
  ASSUME NEW q, NEW d
  PROVE  LockOf(q, d) = LockIn(dbBind, row, q, d) /\ LockOf(q, d)' = LockIn(dbBind', row', q, d)
BY DEF LockOf, LockIn

TheRow(b, r, q, d, id) == /\ id \in b[q] /\ r[id] = d
                          /\ \A i \in b[q] : r[i] = d => i = id

LEMMA TheLock ==
  ASSUME NEW b, NEW r, NEW q, NEW d, NEW id, TheRow(b, r, q, d, id)
  PROVE  LockIn(b, r, q, d) = id
<1> USE DEF TheRow
<1> DEFINE ids == {i \in b[q] : r[i] = d}
<1>1. id \in ids /\ \A i \in ids : i = id
  OBVIOUS
<1>2. LockIn(b, r, q, d) = IF ids = {} THEN NULL ELSE CHOOSE i \in ids : TRUE
  BY DEF LockIn
<1> HIDE DEF ids
<1> QED BY <1>1, <1>2

LEMMA NoLockHere ==
  ASSUME NEW b, NEW r, NEW q, NEW d, \A i \in b[q] : r[i] # d
  PROVE  LockIn(b, r, q, d) = NULL
<1>1. {i \in b[q] : r[i] = d} = {}
  OBVIOUS
<1> QED BY <1>1 DEF LockIn

\* The lock of a party is the one row it has of the dungeon.
LEMMA LockIsRow ==
  ASSUME TypeOK, Agreed, NEW q \in Party, NEW d \in Dungeon
  PROVE  \/ LockOf(q, d) = NULL /\ \A i \in dbBind[q] : row[i] # d
         \/ /\ LockOf(q, d) \in Id /\ LockOf(q, d) \in dbBind[q] /\ row[LockOf(q, d)] = d
            /\ \A i \in dbBind[q] : row[i] = d => i = LockOf(q, d)
<1>1. CASE \A i \in dbBind[q] : row[i] # d
  BY <1>1, NoLockHere, LockInTables
<1>2. CASE \E i \in dbBind[q] : row[i] = d
  <2>1. PICK i \in dbBind[q] : row[i] = d
    BY <1>2
  <2>2. TheRow(dbBind, row, q, d, i)
    BY <2>1 DEF Agreed, OneRowPerDungeon, TheRow
  <2>3. LockOf(q, d) = i
    BY <2>2, TheLock, LockInTables
  <2> QED BY <2>2, <2>3 DEF TypeOK, TheRow
<1> QED BY <1>1, <1>2

\* Where rows of some instances are deleted, their locks are gone, the others stay.
LEMMA LockForgotten ==
  ASSUME TypeOK, Agreed, NEW S \in SUBSET Id, row' = WithoutRow(S), dbBind' = Forgotten(S),
         NEW q \in Party, NEW d \in Dungeon
  PROVE  LockOf(q, d)' = IF LockOf(q, d) \in S THEN NULL ELSE LockOf(q, d)
<1>1. /\ dbBind'[q] = dbBind[q] \ S /\ dbBind[q] \subseteq Id
      /\ \A i \in Id \ S : row'[i] = row[i]
  BY DEF WithoutRow, Forgotten, TypeOK
<1> DEFINE id == LockOf(q, d)
<1>2. \/ id = NULL /\ \A i \in dbBind[q] : row[i] # d
      \/ /\ id \in Id /\ id \in dbBind[q] /\ row[id] = d
         /\ \A i \in dbBind[q] : row[i] = d => i = id
  BY LockIsRow
<1>3. LockOf(q, d)' = LockIn(dbBind', row', q, d)
  BY LockInTables
<1> HIDE DEF id
<1>4. CASE id = NULL \/ id \in S
  <2>1. \A i \in dbBind'[q] : row'[i] # d
    BY <1>1, <1>2, <1>4
  <2>2. LockOf(q, d)' = NULL
    BY <1>3, <2>1, NoLockHere
  <2> QED BY <1>4, <2>2 DEF id
<1>5. CASE id # NULL /\ id \notin S
  <2>1. TheRow(dbBind', row', q, d, id)
    BY <1>1, <1>2, <1>5 DEF TheRow
  <2>2. LockOf(q, d)' = id
    BY <1>3, <2>1, TheLock
  <2> QED BY <1>5, <2>2 DEF id
<1> QED BY <1>4, <1>5

locks == [q \in Party |-> [d \in Dungeon |-> LockOf(q, d)]]

LEMMA LocksPrimed == locks' = [q \in Party |-> [d \in Dungeon |-> LockOf(q, d)']]
BY DEF locks

\* A reset of the instances that are locked, or of none.
LEMMA ForgottenIsReset ==
  ASSUME TypeOK, Agreed, NEW S \in SUBSET Id, row' = WithoutRow(S), dbBind' = Forgotten(S)
  PROVE  Locks!Next \/ locks' = locks
<1> DEFINE ids == S \cap Locks!Locked
<1>1. \A q \in Party, d \in Dungeon : locks[q][d] # NULL => locks[q][d] \in Locks!Locked
  BY DEF locks, Locks!Locked
<1>2. \A q \in Party, d \in Dungeon :
        LockOf(q, d)' = IF locks[q][d] \in S THEN NULL ELSE locks[q][d]
  BY LockForgotten DEF locks
<1>3. \A q \in Party, d \in Dungeon :
        LockOf(q, d)' = IF locks[q][d] \in ids THEN NULL ELSE locks[q][d]
  BY <1>1, <1>2
<1>4. ids \in SUBSET Locks!Locked
  OBVIOUS
<1> HIDE DEF ids
<1>5. locks' = [q \in Party |-> [d \in Dungeon |->
                  IF locks[q][d] \in ids THEN NULL ELSE locks[q][d]]]
  BY <1>3, LocksPrimed
<1>6. CASE ids = {}
  BY <1>5, <1>6 DEF locks
<1>7. CASE ids # {}
  <2>1. Locks!Reset(ids)
    BY <1>5, <1>7 DEF Locks!Reset, locks
  <2> QED BY <1>4, <2>1 DEF Locks!Next
<1> QED BY <1>6, <1>7

LEMMA SameTables ==
  ASSUME UNCHANGED tables
  PROVE  locks' = locks
BY DEF locks, LockOf, tables

\* A new instance is a lock that was free, on an instance nobody is locked to.
LEMMA NewInstanceAcquires ==
  ASSUME TypeOK, Agreed, NEW q \in Party, NEW d \in Dungeon, NEW id \in Id,
         Active(q), bind[q][d] = NULL, NewInstance(q, d, id)
  PROVE  Locks!Next
<1>1. row[id] = NULL /\ \A r \in Party : id \notin dbBind[r]
  BY DEF NewInstance, Agreed, RowsAreMarked, BindsHaveRows
<1>2. \A i \in dbBind[q] : i \in Id /\ row[i] # d
  BY DEF Agreed, RowsAreBinds, TypeOK
<1>3. locks[q][d] = NULL
  <2>1. LockOf(q, d) = NULL
    BY <1>2, NoLockHere, LockInTables
  <2> QED BY <2>1 DEF locks
<1>4. \A r \in Party, e \in Dungeon : LockOf(r, e) # id
  BY <1>1, LockIsRow
<1>5. id \in Id \ Locks!Locked
  BY <1>4 DEF Locks!Locked, locks
<1>6. /\ \A r \in Party : dbBind'[r] = IF r = q THEN dbBind[r] \cup {id} ELSE dbBind[r]
      /\ \A i \in Id : row'[i] = IF i = id THEN d ELSE row[i]
      /\ \A r \in Party : dbBind[r] \subseteq Id
  BY DEF NewInstance, TypeOK
<1>7. LockOf(q, d)' = id
  <2>1. id \in dbBind'[q] /\ row'[id] = d
    BY <1>6
  <2>2. \A i \in dbBind'[q] : i # id => i \in dbBind[q] /\ row'[i] = row[i]
    BY <1>6
  <2>3. TheRow(dbBind', row', q, d, id)
    BY <1>2, <2>1, <2>2 DEF TheRow
  <2> QED BY <2>3, TheLock, LockInTables
<1>8. ASSUME NEW r \in Party, NEW e \in Dungeon, ~(r = q /\ e = d)
      PROVE  LockOf(r, e)' = LockOf(r, e)
  <2>1. \A i \in dbBind[r] : i \in Id /\ i # id /\ row'[i] = row[i]
    BY <1>1, <1>6
  <2>2. ASSUME NEW i \in dbBind'[r], row'[i] = e PROVE i \in dbBind[r] /\ row[i] = e
    <3>1. i # id
      <4>1. row'[id] = d
        BY <1>6
      <4>2. CASE r = q
        BY <1>8, <2>2, <4>1, <4>2
      <4>3. CASE r # q
        <5>1. dbBind'[r] = dbBind[r]
          BY <1>6, <4>3
        <5> QED BY <2>1, <2>2, <5>1
      <4> QED BY <4>2, <4>3
    <3>2. i \in dbBind[r]
      BY <1>6, <2>2, <3>1
    <3> QED BY <2>1, <2>2, <3>2
  <2>3. LockOf(r, e)' = LockIn(dbBind', row', r, e)
    BY LockInTables
  <2>4. CASE \A i \in dbBind[r] : row[i] # e
    <3>1. LockOf(r, e) = NULL
      BY <2>4, NoLockHere, LockInTables
    <3>2. \A i \in dbBind'[r] : row'[i] # e
      BY <2>2, <2>4
    <3> QED BY <2>3, <3>1, <3>2, NoLockHere
  <2>5. CASE \E i \in dbBind[r] : row[i] = e
    <3>1. /\ LockOf(r, e) \in dbBind[r] /\ row[LockOf(r, e)] = e
          /\ \A i \in dbBind[r] : row[i] = e => i = LockOf(r, e)
      BY <2>5, LockIsRow
    <3> DEFINE l == LockOf(r, e)
    <3>2. l \in dbBind[r] /\ row[l] = e /\ \A i \in dbBind[r] : row[i] = e => i = l
      BY <3>1
    <3> HIDE DEF l
    <3>3. l \in dbBind'[r]
      BY <1>6, <3>2
    <3>4. TheRow(dbBind', row', r, e, l)
      BY <2>1, <2>2, <3>2, <3>3 DEF TheRow
    <3>5. LockIn(dbBind', row', r, e) = l
      BY <3>4, TheLock
    <3> QED BY <2>3, <3>5 DEF l
  <2> QED BY <2>4, <2>5
<1>9. locks' = [locks EXCEPT ![q][d] = id]
  <2>1. locks' = [r \in Party |-> [e \in Dungeon |->
                    IF r = q /\ e = d THEN id ELSE LockOf(r, e)]]
    BY <1>7, <1>8, LocksPrimed
  <2> QED BY <2>1 DEF locks
<1>10. Locks!Acquire(q, d)
  BY <1>3, <1>5, <1>9 DEF Locks!Acquire, locks
<1> QED BY <1>10 DEF Locks!Next

LEMMA Refines ==
  ASSUME IInv, [Next]_vars
  PROVE  Locks!Next \/ locks' = locks
<1> USE DEF IInv, SavesInv
<1>1. ASSUME NEW p \in Player, NEW d \in Dungeon, EnterLoaded(p, d) \/ EnterSaved(p, d)
      PROVE  locks' = locks
  BY <1>1, EnterBoundAgrees, SameTables
<1>2. ASSUME NEW p \in Player, NEW d \in Dungeon, EnterNew(p, d)
      PROVE  Locks!Next
  <2>1. PartyOf[p] \in Party /\ Active(PartyOf[p]) /\ bind[PartyOf[p]][d] = NULL
    BY <1>2, PartyAssumption DEF EnterNew, CanTravel, Active
  <2>2. PICK id \in Id : NewInstance(PartyOf[p], d, id)
    BY <1>2, EnterNewAgrees
  <2> QED BY <2>1, <2>2, NewInstanceAcquires
<1>3. ASSUME NEW q \in Party, ResetInstances(q)
      PROVE  Locks!Next \/ locks' = locks
  BY <1>3, ResetInstancesAgrees, ForgottenIsReset DEF Forget
<1>4. ASSUME NEW d \in Dungeon, NEW id \in Id, FireReset(d, id)
      PROVE  Locks!Next \/ locks' = locks
  <2>1. {id} \in SUBSET Id /\ row' = WithoutRow({id}) /\ dbBind' = Forgotten({id})
    BY <1>4 DEF FireReset
  <2> QED BY <2>1, ForgottenIsReset
<1>5. CASE Restart
  <2>1. \E S \in SUBSET Id : row' = WithoutRow(S) /\ dbBind' = Forgotten(S)
    BY <1>5, RestartAgrees
  <2> QED BY <2>1, ForgottenIsReset
<1>6. ASSUME \/ \E p \in Player : Leave(p) \/ Arrive(p) \/ Logout(p) \/ Login(p)
             \/ \E o \in Object : Unload(o)
             \/ UNCHANGED vars
      PROVE  locks' = locks
  <2>1. UNCHANGED tables
    BY <1>6 DEF Leave, Arrive, Logout, Login, Unload, vars
  <2> QED BY <2>1, SameTables
<1> QED BY <1>1, <1>2, <1>3, <1>4, <1>5, <1>6 DEF Next

\* The instance system implements Lockouts: the rows of a party are its locks, taken
\* when it enters a new instance and lost by a reset only, whatever logouts, unloaded
\* maps and restarts do to the saves in memory.
THEOREM LockoutsAreImplemented == Spec => LocksSpec
<1>1. Init => Locks!Init
  <2>1. Init => \A q \in Party, d \in Dungeon : LockOf(q, d) = NULL
    BY NoLockHere, LockInTables DEF Init
  <2> QED BY <2>1 DEF Locks!Init
<1>2. IInv /\ [Next]_vars =>
        [Locks!Next]_[q \in Party |-> [d \in Dungeon |-> LockOf(q, d)]]
  BY Refines DEF locks
<1> QED BY <1>1, <1>2, InvariantHolds, PTL DEF Spec, LocksSpec, Locks!Spec
=============================================================================
