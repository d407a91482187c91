---------------------------- MODULE InstanceIds ----------------------------
(***************************************************************************)
(* The allocator of instance ids: game/Maps/MapManager.cpp.                *)
(*                                                                         *)
(* The ids in use are the bits of a std::vector<bool>.  At start it is     *)
(* sized for the largest id in the database and the ids of the saved       *)
(* instances are registered in ascending order (InstanceSaveMgr.cpp, Load- *)
(* ResetTimes).  Then an id is generated for every new dungeon, raid and   *)
(* battleground map, and freed when its instance is reset or its           *)
(* battleground ends.                                                      *)
(*                                                                         *)
(* Writing an element past the end of the vector is undefined; here it has *)
(* no effect that the program can rely on, and is remembered in `overrun'. *)
(***************************************************************************)
EXTENDS Integers

CONSTANTS Chunk,      \* the allocator sizes the vector in multiples of it (32)
          WordBits,   \* the library allocates the vector in words of so many bits (64)
          MaxId       \* bound on the ids handed out

ASSUME ChunkAssumption == Chunk \in Nat \ {0} /\ WordBits \in Nat \ {0}
ASSUME BoundAssumption == MaxId \in Nat

VARIABLES
  nextInstanceId,   \* _nextInstanceId
  instanceIds,      \* _instanceIds: the indices below size whose bit is set
  size, capacity,   \* of the vector
  toLoad,           \* ids of the rows LoadResetTimes has still to read
  owners,           \* live instances that have an id: 0, 1, or 2 for several
  overrun           \* an element past the end was written

vars == <<nextInstanceId, instanceIds, size, capacity, toLoad, owners, overrun>>

Id == 1..MaxId

TypeOK ==
  /\ nextInstanceId \in Nat \ {0}
  /\ instanceIds \in SUBSET Nat
  /\ size \in Nat
  /\ capacity \in Nat
  /\ toLoad \in SUBSET Id
  /\ owners \in [Id -> 0..2]
  /\ overrun \in BOOLEAN

\* (n / k) * k + (n % k > 0 ? k : 0)
RoundUp(n, k) == (n \div k) * k + (IF n % k > 0 THEN k ELSE 0)

\* std::vector<bool>::resize: at least doubles when it has to reallocate.
CapacityFor(n) ==
  IF n <= capacity THEN capacity
  ELSE RoundUp(size + (IF size > n - size THEN size ELSE n - size), WordBits)

\* The size InitInstanceIds and GenerateInstanceId give the vector to hold an id;
\* the id is an index, so a multiple of Chunk does not fit.
\* Mutant: rounded down.
SizeForDown(id) == (id \div Chunk) * Chunk
SizeFor(id)     == RoundUp(id, Chunk)

\* InitInstanceIds, with the rows of the instance table.
IsLast(id, rows) == rows \subseteq 1..id /\ (id = 0 \/ id \in rows)

Init ==
  \E last \in 0..MaxId, rows \in SUBSET Id :
    /\ IsLast(last, rows)
    /\ nextInstanceId = 1
    /\ instanceIds = {}
    /\ size = SizeFor(last)
    /\ capacity = RoundUp(SizeFor(last), WordBits)
    /\ toLoad = rows
    /\ owners = [i \in Id |-> IF i \in rows THEN 1 ELSE 0]
    /\ overrun = FALSE

\* What a write of a set bit leaves in a vector of n elements.
SetBit(id, n) == IF id < n THEN instanceIds \cup {id} ELSE instanceIds

\* LoadResetTimes, one row: rows come in ascending order.
Register(id) == SetBit(id, size)

RegisterInstanceId ==
  \E id \in toLoad :
    /\ \A other \in toLoad : id <= other
    /\ toLoad' = toLoad \ {id}
    /\ nextInstanceId' = IF nextInstanceId = id THEN id + 1 ELSE nextInstanceId
    /\ instanceIds' = Register(id)
    /\ overrun' = (overrun \/ id >= size)
    /\ UNCHANGED <<size, capacity, owners>>

\* The search of GenerateInstanceId: the lowest id from `from' on whose bit is
\* clear or past the end.  Mutant: it does not look.
IsFree(id)           == id \notin instanceIds \/ id >= size
NextFreeBlind(from)  == from
NextFree(from) ==
  CHOOSE id \in from..(IF from < size THEN size ELSE from) :
    /\ IsFree(id)
    /\ \A lower \in from..(id - 1) : ~IsFree(lower)

\* The size after "allocate space if necessary" for a new id.
Grown(id) ==
  IF id < size THEN size
  ELSE IF size < capacity THEN capacity
  ELSE SizeFor(id)

GenerateInstanceId ==
  LET id == nextInstanceId
  IN  /\ toLoad = {} /\ id <= MaxId
      /\ nextInstanceId' = NextFree(id + 1)
      /\ size' = Grown(id)
      /\ capacity' = CapacityFor(Grown(id))
      /\ instanceIds' = SetBit(id, Grown(id))
      /\ overrun' = (overrun \/ id >= Grown(id))
      /\ owners' = [owners EXCEPT ![id] = IF @ = 0 THEN 1 ELSE 2]
      /\ UNCHANGED toLoad

\* _ResetInstance and DestroyInstance: whoever has the id loses it.  A second
\* reset event of an instance frees an id that is free, or someone else's.
\* Mutants: the freed id does not become the next one; the one below it does.
NextAfterFreeLate(id)  == nextInstanceId
NextAfterFreeBelow(id) == IF id < nextInstanceId THEN id - 1 ELSE nextInstanceId
NextAfterFree(id)      == IF id < nextInstanceId THEN id ELSE nextInstanceId

FreeInstanceId(id) ==
  /\ toLoad = {}
  /\ owners[id] > 0 \/ id < size
  /\ nextInstanceId' = NextAfterFree(id)
  /\ instanceIds' = instanceIds \ {id}
  /\ overrun' = (overrun \/ id >= size)
  /\ owners' = [owners EXCEPT ![id] = 0]
  /\ UNCHANGED <<size, capacity, toLoad>>

Next ==
  \/ RegisterInstanceId
  \/ GenerateInstanceId
  \/ \E id \in Id : FreeInstanceId(id)

Spec == Init /\ [][Next]_vars

-----------------------------------------------------------------------------
(* Safety *)

\* Unless the vector was overrun, no two live instances have one id, whatever
\* rows the server starts with and in whatever order ids are freed, twice even.
NoIdSharedUnlessOverrun == overrun \/ \A id \in Id : owners[id] <= 1

\* Unless the vector was overrun, the next id is the lowest unused one (the
\* comment in GenerateInstanceId relies on it): ids stay dense, and small
\* enough for the 16 bits a reset event has for them.
NextIsLowestFree ==
  (~overrun /\ toLoad = {})
    => /\ nextInstanceId \in Id => owners[nextInstanceId] = 0
       /\ \A id \in Id : id < nextInstanceId => owners[id] > 0

\* The vector is first overrun by a multiple of Chunk and by no other id: one
\* registered at start, or one generated when the vector is full.
FirstOverrunIsAtAChunk ==
  overrun' /\ ~overrun
    => \E id \in Id : /\ id % Chunk = 0
                     /\ id >= size
                     /\ (id \in toLoad \/ (id = nextInstanceId /\ size = capacity))
OverrunsAtChunks == [][FirstOverrunIsAtAChunk]_vars

\* What the comment "Find the lowest available id" promises of every run: an id
\* in use is never handed out again.
NoIdShared == \A id \in Id : owners[id] <= 1
=============================================================================
