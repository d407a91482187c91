------------------------- MODULE InstanceIds_proofs -------------------------
(***************************************************************************)
(* The allocator of instance ids, for every chunk, word and bound: no id   *)
(* is given to two instances, and the next id is the lowest unused one,    *)
(* until the vector is overrun; and what overruns it.                      *)
(***************************************************************************)
EXTENDS InstanceIds, TLAPS, WellFoundedInduction

-----------------------------------------------------------------------------
(* Arithmetic *)

LessOnNat == {p \in Nat \X Nat : p[1] < p[2]}

\* A set of naturals that is not empty has a least element.
LEMMA LeastNat ==
  ASSUME NEW T, T \subseteq Nat, T # {}
  PROVE  \E x \in T : \A y \in T : x <= y
<1>1. IsWellFoundedOn(LessOnNat, Nat)
  BY NatLessThanWellFounded DEF OpToRel, LessOnNat
<1>2. PICK x \in T : \A y \in T : ~(<<y, x>> \in LessOnNat)
  BY <1>1, WFMin, Zenon
<1>3. ASSUME NEW y \in T PROVE x <= y
  <2>1. ~(<<y, x>> \in LessOnNat)
    BY <1>2
  <2>2. x \in Nat /\ y \in Nat
    OBVIOUS
  <2> QED BY <2>1, <2>2 DEF LessOnNat
<1> QED BY <1>3

LEMMA DivMod ==
  ASSUME NEW n \in Nat, NEW k \in Nat \ {0}
  PROVE  /\ n \div k \in Nat /\ n % k \in Nat /\ n % k < k
         /\ n = (n \div k) * k + (n % k)
OBVIOUS

\* RoundUp never rounds down, and leaves exactly the multiples alone.
LEMMA RoundUpBounds ==
  ASSUME NEW n \in Nat, NEW k \in Nat \ {0}
  PROVE  /\ RoundUp(n, k) \in Nat /\ RoundUp(n, k) >= n
         /\ n % k # 0 => RoundUp(n, k) > n
<1> DEFINE q == n \div k
           r == n % k
           p == q * k
<1>1. q \in Nat /\ r \in Nat /\ r < k /\ n = p + r
  BY DivMod
<1>2. p \in Nat
  BY <1>1
<1>3. RoundUp(n, k) = p + (IF r > 0 THEN k ELSE 0)
  BY DEF RoundUp
<1> HIDE DEF p, q, r
<1>4. r # 0 => RoundUp(n, k) > n
  BY <1>1, <1>2, <1>3
<1>5. RoundUp(n, k) \in Nat /\ RoundUp(n, k) >= n
  BY <1>1, <1>2, <1>3
<1> QED BY <1>4, <1>5 DEF r

-----------------------------------------------------------------------------
(* The inductive invariant *)

\* The bits are the ids in use, except those still to be read, which lie above.
BitsAreOwned ==
  /\ instanceIds \subseteq Id
  /\ \A i \in instanceIds : i < size
  /\ \A i \in Id : owners[i] = IF i \in instanceIds \/ i \in toLoad THEN 1 ELSE 0
  /\ \A i \in instanceIds, t \in toLoad : i < t

\* nextInstanceId is the lowest index whose bit is clear.
NextIsLowestClear ==
  /\ nextInstanceId \notin instanceIds
  /\ \A i \in 1..(nextInstanceId - 1) : i \in instanceIds

\* The vector was sized for the last row.
SizedForRows ==
  toLoad # {} => \E last \in Nat : size = SizeFor(last) /\ \A t \in toLoad : t <= last

\* The vector is within its allocation, and empty only if nothing is allocated.
Fits == size <= capacity /\ (size = 0 => capacity = 0)

IInv ==
  /\ TypeOK
  /\ ~overrun => BitsAreOwned /\ NextIsLowestClear /\ SizedForRows /\ Fits

LEMMA SizeForBounds ==
  ASSUME NEW n \in Nat
  PROVE  /\ SizeFor(n) \in Nat /\ SizeFor(n) >= n
         /\ n % Chunk # 0 => SizeFor(n) > n
BY RoundUpBounds, ChunkAssumption DEF SizeFor

\* The library's vector has room for what it is resized to.
LEMMA CapacityForBounds ==
  ASSUME TypeOK, NEW n \in Nat
  PROVE  CapacityFor(n) \in Nat /\ CapacityFor(n) >= n
<1> DEFINE m == size + (IF size > n - size THEN size ELSE n - size)
<1>0. size \in Nat /\ capacity \in Nat
  BY DEF TypeOK
<1>1. m \in Nat /\ m >= n
  BY <1>0
<1> HIDE DEF m
<1>2. RoundUp(m, WordBits) \in Nat /\ RoundUp(m, WordBits) >= m
  BY <1>1, RoundUpBounds, ChunkAssumption
<1>3. CapacityFor(n) = IF n <= capacity THEN capacity ELSE RoundUp(m, WordBits)
  BY DEF CapacityFor, m
<1> QED BY <1>0, <1>1, <1>2, <1>3

\* The search ends, at the lowest index from `from' on that is free.
LEMMA NextFreeIsLowest ==
  ASSUME TypeOK, NEW from \in Nat
  PROVE  /\ NextFree(from) \in Nat /\ NextFree(from) >= from
         /\ IsFree(NextFree(from))
         /\ \A i \in from..(NextFree(from) - 1) : ~IsFree(i)
<1> DEFINE top == IF from < size THEN size ELSE from
           T == {i \in from..top : IsFree(i)}
<1>0. size \in Nat
  BY DEF TypeOK
<1>1. top \in Nat /\ top \in T
  BY <1>0 DEF IsFree
<1>2. T \subseteq Nat /\ T # {}
  BY <1>0, <1>1
<1>3. PICK x \in T : \A y \in T : x <= y
  BY <1>2, LeastNat
<1>4. \A i \in from..(x - 1) : ~IsFree(i)
  <2> SUFFICES ASSUME NEW i \in from..(x - 1), IsFree(i) PROVE FALSE
    OBVIOUS
  <2>1. x \in Nat /\ x <= top
    BY <1>1, <1>3
  <2>2. i \in T
    BY <2>1, <1>1
  <2> QED BY <2>1, <2>2, <1>3
<1>5. \E id \in from..top : IsFree(id) /\ \A lower \in from..(id - 1) : ~IsFree(lower)
  BY <1>3, <1>4
<1>6. NextFree(from) = CHOOSE id \in from..top :
                         IsFree(id) /\ \A lower \in from..(id - 1) : ~IsFree(lower)
  BY DEF NextFree
<1> HIDE DEF top, T
<1>7. NextFree(from) \in from..top /\ IsFree(NextFree(from))
      /\ \A lower \in from..(NextFree(from) - 1) : ~IsFree(lower)
  BY <1>5, <1>6
<1> QED BY <1>1, <1>7

LEMMA InitIInv == Init => IInv
<1> SUFFICES ASSUME Init PROVE IInv
  OBVIOUS
<1>1. PICK last \in 0..MaxId, rows \in SUBSET Id :
        /\ IsLast(last, rows)
        /\ nextInstanceId = 1 /\ instanceIds = {}
        /\ size = SizeFor(last) /\ capacity = RoundUp(SizeFor(last), WordBits)
        /\ toLoad = rows
        /\ owners = [i \in Id |-> IF i \in rows THEN 1 ELSE 0]
        /\ overrun = FALSE
  BY DEF Init
<1>2. last \in Nat
  BY BoundAssumption
<1>3. size \in Nat
  BY <1>1, <1>2, SizeForBounds
<1>4. capacity \in Nat /\ size <= capacity
  BY <1>1, <1>3, RoundUpBounds, ChunkAssumption
<1>7. size = 0 => capacity = 0
  <2>1. ASSUME NEW k \in Nat \ {0} PROVE RoundUp(0, k) = 0
    <3>1. 0 \div k = 0 /\ 0 % k = 0
      BY <2>1
    <3> QED BY <3>1 DEF RoundUp
  <2> QED BY <1>1, <2>1, ChunkAssumption
<1>5. TypeOK
  <2>1. owners \in [Id -> 0..2]
    BY <1>1
  <2>2. overrun \in BOOLEAN
    BY <1>1, Zenon
  <2> QED BY <1>1, <1>3, <1>4, <2>1, <2>2 DEF TypeOK
<1>6. SizedForRows
  BY <1>1, <1>2 DEF SizedForRows, IsLast, Id
<1> QED BY <1>1, <1>4, <1>5, <1>6, <1>7 DEF IInv, BitsAreOwned, NextIsLowestClear, Fits

LEMMA RegisterIInv == IInv /\ RegisterInstanceId => IInv'
<1> SUFFICES ASSUME IInv, RegisterInstanceId PROVE IInv'
  OBVIOUS
<1>1. PICK id \in toLoad :
        /\ \A other \in toLoad : id <= other
        /\ toLoad' = toLoad \ {id}
        /\ nextInstanceId' = IF nextInstanceId = id THEN id + 1 ELSE nextInstanceId
        /\ instanceIds' = Register(id)
        /\ overrun' = (overrun \/ id >= size)
        /\ UNCHANGED <<size, capacity, owners>>
  BY DEF RegisterInstanceId
<1>2. id \in Id /\ id \in Nat \ {0}
  BY DEF IInv, TypeOK, Id
<1>3. TypeOK'
  <2>1. instanceIds' \in SUBSET Nat
    BY <1>1, <1>2 DEF IInv, TypeOK, Register, SetBit
  <2>2. nextInstanceId' \in Nat \ {0}
    BY <1>1, <1>2 DEF IInv, TypeOK
  <2>3. overrun' \in BOOLEAN
    BY <1>1, Zenon DEF IInv, TypeOK
  <2> QED BY <1>1, <2>1, <2>2, <2>3 DEF IInv, TypeOK
<1>4. SUFFICES ASSUME ~overrun'
               PROVE  (BitsAreOwned /\ NextIsLowestClear /\ SizedForRows /\ Fits)'
  BY <1>3 DEF IInv
<1>5. ~overrun /\ ~(id >= size)
  BY <1>1, <1>4
<1>6. id < size
  BY <1>2, <1>5 DEF IInv, TypeOK
<1>7. instanceIds' = instanceIds \cup {id}
  BY <1>1, <1>6 DEF Register, SetBit
<1>8. BitsAreOwned /\ NextIsLowestClear /\ SizedForRows /\ Fits
  BY <1>5 DEF IInv
<1>9. BitsAreOwned'
  <2>1. \A i \in instanceIds', t \in toLoad' : i < t
    <3> SUFFICES ASSUME NEW i \in instanceIds', NEW t \in toLoad' PROVE i < t
      OBVIOUS
    <3>1. CASE i = id
      <4>1. t \in Nat /\ id <= t /\ t # id
        BY <1>1 DEF IInv, TypeOK, Id
      <4> QED BY <4>1, <3>1, <1>2
    <3>2. CASE i # id
      BY <3>2, <1>1, <1>7, <1>8 DEF BitsAreOwned
    <3> QED BY <3>1, <3>2
  <2>2. \A i \in Id : i \in instanceIds' \/ i \in toLoad' <=> i \in instanceIds \/ i \in toLoad
    BY <1>1, <1>7
  <2> QED BY <2>1, <2>2, <1>1, <1>2, <1>6, <1>7, <1>8 DEF BitsAreOwned
<1>10. NextIsLowestClear'
  <2>0. nextInstanceId \in Nat \ {0}
    BY DEF IInv, TypeOK
  <2>1. CASE nextInstanceId = id
    <3>1. nextInstanceId' = id + 1
      BY <1>1, <2>1
    <3>2. id + 1 \notin instanceIds'
      BY <1>1, <1>2, <1>7, <1>8 DEF BitsAreOwned, Id
    <3> QED BY <2>1, <3>1, <3>2, <1>2, <1>7, <1>8 DEF NextIsLowestClear
  <2>2. CASE nextInstanceId # id
    BY <2>0, <2>2, <1>1, <1>7, <1>8 DEF NextIsLowestClear
  <2> QED BY <2>1, <2>2
<1>11. SizedForRows'
  BY <1>1, <1>8 DEF SizedForRows, SizeFor
<1> QED BY <1>1, <1>8, <1>9, <1>10, <1>11 DEF Fits

\* Where a generated id lies, and when it does not fit.
LEMMA GrownBounds ==
  ASSUME IInv, ~overrun, GenerateInstanceId
  PROVE  /\ nextInstanceId \in Id
         /\ Grown(nextInstanceId) \in Nat \ {0} /\ Grown(nextInstanceId) >= size
         /\ nextInstanceId >= Grown(nextInstanceId)
              => /\ nextInstanceId % Chunk = 0
                 /\ nextInstanceId >= size
                 /\ size = capacity
<1> DEFINE id == nextInstanceId
<1>0. id \in Nat \ {0} /\ size \in Nat /\ capacity \in Nat /\ id \in Id
  BY BoundAssumption DEF IInv, TypeOK, GenerateInstanceId, Id
<1>1. BitsAreOwned /\ NextIsLowestClear /\ Fits
  BY DEF IInv
<1>2. id > size => size = 0
  <2> SUFFICES ASSUME id > size, size # 0 PROVE FALSE
    OBVIOUS
  <2>1. size \in 1..(id - 1)
    BY <1>0
  <2>2. size \in instanceIds
    BY <2>1, <1>1 DEF NextIsLowestClear
  <2> QED BY <2>2, <1>0, <1>1 DEF BitsAreOwned
<1>3. SizeFor(id) \in Nat /\ SizeFor(id) >= id /\ (id % Chunk # 0 => SizeFor(id) > id)
  BY <1>0, SizeForBounds
<1>4. Grown(id) = IF id < size THEN size ELSE IF size < capacity THEN capacity ELSE SizeFor(id)
  BY DEF Grown
<1> HIDE DEF id
<1>5. Grown(id) \in Nat \ {0} /\ Grown(id) >= size
  BY <1>0, <1>1, <1>2, <1>3, <1>4 DEF Fits
<1>6. id >= Grown(id) => id % Chunk = 0 /\ id >= size /\ size = capacity
  BY <1>0, <1>1, <1>2, <1>3, <1>4 DEF Fits
<1> QED BY <1>0, <1>5, <1>6 DEF id

LEMMA GenerateIInv == IInv /\ GenerateInstanceId => IInv'
<1> DEFINE id == nextInstanceId
           n  == NextFree(id + 1)
           sz == Grown(id)
<1> SUFFICES ASSUME IInv, GenerateInstanceId PROVE IInv'
  OBVIOUS
<1>1. /\ toLoad = {} /\ toLoad' = {} /\ id <= MaxId
      /\ nextInstanceId' = n /\ size' = sz /\ capacity' = CapacityFor(sz)
      /\ instanceIds' = SetBit(id, sz)
      /\ overrun' = (overrun \/ id >= sz)
      /\ owners' = [owners EXCEPT ![id] = IF @ = 0 THEN 1 ELSE 2]
  BY DEF GenerateInstanceId
<1>2. TypeOK /\ id \in Id /\ id \in Nat \ {0} /\ size \in Nat /\ capacity \in Nat
  BY <1>1, BoundAssumption DEF IInv, TypeOK, Id
<1>3. n \in Nat /\ n >= id + 1 /\ IsFree(n) /\ \A i \in (id + 1)..(n - 1) : ~IsFree(i)
  BY <1>2, NextFreeIsLowest
<1>4. sz \in Nat
  BY <1>2, SizeForBounds DEF Grown
<1>5. CapacityFor(sz) \in Nat /\ CapacityFor(sz) >= sz
  BY <1>2, <1>4, CapacityForBounds
<1> HIDE DEF n, sz
<1>6. TypeOK'
  <2>1. owners' \in [Id -> 0..2]
    BY <1>1, <1>2 DEF TypeOK
  <2>2. instanceIds' \in SUBSET Nat
    BY <1>1, <1>2 DEF TypeOK, SetBit
  <2>3. overrun' \in BOOLEAN
    BY <1>1, <1>2, Zenon DEF TypeOK
  <2>4. nextInstanceId' \in Nat \ {0}
    BY <1>1, <1>2, <1>3
  <2> QED BY <1>1, <1>4, <1>5, <2>1, <2>2, <2>3, <2>4 DEF TypeOK
<1>7. SUFFICES ASSUME ~overrun'
               PROVE  (BitsAreOwned /\ NextIsLowestClear /\ SizedForRows /\ Fits)'
  BY <1>6 DEF IInv
<1>8. ~overrun /\ ~(id >= sz)
  BY <1>1, <1>7
<1>9. BitsAreOwned /\ NextIsLowestClear /\ Fits
  BY <1>8 DEF IInv
<1>10. id < sz /\ sz >= size /\ sz # 0
  BY <1>2, <1>4, <1>8, GrownBounds DEF sz
<1>11. instanceIds' = instanceIds \cup {id} /\ id \notin instanceIds
  BY <1>1, <1>9, <1>10 DEF SetBit, NextIsLowestClear
<1>12. BitsAreOwned'
  <2>1. \A i \in instanceIds' : i < size'
    BY <1>1, <1>2, <1>4, <1>9, <1>10, <1>11 DEF BitsAreOwned, Id
  <2>2. owners[id] = 0
    BY <1>1, <1>2, <1>9, <1>11 DEF BitsAreOwned
  <2>3. \A i \in Id : owners'[i] = IF i = id THEN 1 ELSE owners[i]
    BY <1>1, <1>2, <2>2 DEF TypeOK
  <2> QED BY <2>1, <2>3, <1>1, <1>2, <1>9, <1>11 DEF BitsAreOwned
<1>13. NextIsLowestClear'
  <2>1. n \notin instanceIds'
    BY <1>2, <1>3, <1>9, <1>11 DEF IsFree, BitsAreOwned, Id
  <2>2. \A i \in 1..(n - 1) : i \in instanceIds'
    <3> SUFFICES ASSUME NEW i \in 1..(n - 1) PROVE i \in instanceIds'
      OBVIOUS
    <3>1. CASE i <= id
      BY <3>1, <1>2, <1>9, <1>11 DEF NextIsLowestClear
    <3>2. CASE i > id
      <4>1. ~IsFree(i)
        BY <3>2, <1>2, <1>3
      <4> QED BY <4>1, <1>11 DEF IsFree
    <3> QED BY <3>1, <3>2, <1>2, <1>3
  <2> QED BY <1>1, <2>1, <2>2 DEF NextIsLowestClear
<1>14. SizedForRows' /\ Fits'
  BY <1>1, <1>4, <1>5, <1>10 DEF SizedForRows, Fits
<1> QED BY <1>12, <1>13, <1>14

LEMMA FreeIInv ==
  ASSUME NEW id \in Id, IInv, FreeInstanceId(id)
  PROVE  IInv'
<1>1. /\ toLoad = {} /\ toLoad' = {}
      /\ nextInstanceId' = IF id < nextInstanceId THEN id ELSE nextInstanceId
      /\ instanceIds' = instanceIds \ {id}
      /\ overrun' = (overrun \/ id >= size)
      /\ owners' = [owners EXCEPT ![id] = 0]
      /\ size' = size /\ capacity' = capacity
  BY DEF FreeInstanceId, NextAfterFree
<1>2. TypeOK /\ id \in Nat \ {0} /\ nextInstanceId \in Nat \ {0}
  BY DEF IInv, TypeOK, Id
<1>3. TypeOK'
  <2>1. overrun' \in BOOLEAN
    BY <1>1, <1>2, Zenon DEF TypeOK
  <2> QED BY <1>1, <1>2, <2>1 DEF TypeOK
<1>4. SUFFICES ASSUME ~overrun'
               PROVE  (BitsAreOwned /\ NextIsLowestClear /\ SizedForRows /\ Fits)'
  BY <1>3 DEF IInv
<1>5. BitsAreOwned /\ NextIsLowestClear /\ Fits
  BY <1>1, <1>4 DEF IInv
<1>6. BitsAreOwned'
  <2>1. \A i \in Id : owners'[i] = IF i = id THEN 0 ELSE owners[i]
    BY <1>1, <1>2 DEF TypeOK
  <2> QED BY <2>1, <1>1, <1>5 DEF BitsAreOwned
<1>7. NextIsLowestClear'
  BY <1>1, <1>2, <1>5 DEF NextIsLowestClear
<1> QED BY <1>1, <1>5, <1>6, <1>7 DEF SizedForRows, Fits

THEOREM InductiveInvariant == Spec => []IInv
<1>1. Init => IInv
  BY InitIInv
<1>2. IInv /\ [Next]_vars => IInv'
  <2> SUFFICES ASSUME IInv, [Next]_vars PROVE IInv'
    OBVIOUS
  <2>1. CASE RegisterInstanceId
    BY <2>1, RegisterIInv
  <2>2. CASE GenerateInstanceId
    BY <2>2, GenerateIInv
  <2>3. ASSUME NEW id \in Id, FreeInstanceId(id) PROVE IInv'
    BY <2>3, FreeIInv
  <2>4. CASE UNCHANGED vars
    BY <2>4 DEF vars, IInv, TypeOK, BitsAreOwned, NextIsLowestClear, SizedForRows, SizeFor, Fits
  <2> QED BY <2>1, <2>2, <2>3, <2>4 DEF Next
<1> QED BY <1>1, <1>2, PTL DEF Spec

-----------------------------------------------------------------------------
(* The properties of the runs *)

\* Every variable keeps its type: the next id stays positive, a vector has no
\* negative size.
THEOREM TypeCorrect == Spec => []TypeOK
<1>1. IInv => TypeOK
  BY DEF IInv
<1> QED BY <1>1, InductiveInvariant, PTL

\* An id belongs to one instance at most, unless the vector was overrun.
THEOREM NoIdSharedHolds == Spec => []NoIdSharedUnlessOverrun
<1>1. IInv => NoIdSharedUnlessOverrun
  BY DEF IInv, BitsAreOwned, NoIdSharedUnlessOverrun
<1> QED BY <1>1, InductiveInvariant, PTL

\* The next id is the lowest unused one, unless the vector was overrun.
THEOREM LowestFreeHolds == Spec => []NextIsLowestFree
<1>1. IInv => NextIsLowestFree
  <2> SUFFICES ASSUME IInv, ~overrun, toLoad = {}
               PROVE  /\ nextInstanceId \in Id => owners[nextInstanceId] = 0
                      /\ \A id \in Id : id < nextInstanceId => owners[id] > 0
    BY DEF NextIsLowestFree
  <2>1. BitsAreOwned /\ NextIsLowestClear /\ nextInstanceId \in Nat
    BY DEF IInv, TypeOK
  <2>2. ASSUME NEW id \in Id, id < nextInstanceId PROVE id \in 1..(nextInstanceId - 1)
    BY <2>1, <2>2 DEF Id
  <2> QED BY <2>1, <2>2 DEF BitsAreOwned, NextIsLowestClear
<1> QED BY <1>1, InductiveInvariant, PTL

\* Nothing but a multiple of the chunk overruns the vector first: one that is
\* registered at start, or one generated when the vector is full.
THEOREM OverrunsAtChunksHolds == Spec => OverrunsAtChunks
<1> DEFINE Bad == \E id \in Id : /\ id % Chunk = 0
                                 /\ id >= size
                                 /\ (id \in toLoad \/ (id = nextInstanceId /\ size = capacity))
<1>1. IInv /\ [Next]_vars => [FirstOverrunIsAtAChunk]_vars
  <2> SUFFICES ASSUME IInv, Next, overrun', ~overrun PROVE Bad
    BY DEF FirstOverrunIsAtAChunk
  <2>1. CASE RegisterInstanceId
    <3>1. PICK id \in toLoad : overrun' = (overrun \/ id >= size)
      BY <2>1 DEF RegisterInstanceId
    <3>2. id \in Id /\ id \in Nat /\ id >= size /\ size \in Nat
      BY <3>1 DEF IInv, TypeOK, Id
    <3>3. PICK last \in Nat : size = SizeFor(last) /\ \A t \in toLoad : t <= last
      BY DEF IInv, SizedForRows
    <3>4. SizeFor(last) >= last /\ (last % Chunk # 0 => SizeFor(last) > last)
      BY SizeForBounds
    <3>5. id = last /\ last % Chunk = 0
      BY <3>2, <3>3, <3>4
    <3> QED BY <3>2, <3>5
  <2>2. CASE GenerateInstanceId
    <3>1. nextInstanceId >= Grown(nextInstanceId)
      BY <2>2 DEF GenerateInstanceId
    <3> QED BY <3>1, <2>2, GrownBounds
  <2>3. ASSUME NEW id \in Id, FreeInstanceId(id) PROVE FALSE
    <3>1. id >= size /\ (owners[id] > 0 \/ id < size) /\ toLoad = {}
      BY <2>3 DEF FreeInstanceId
    <3>2. id \in Nat /\ size \in Nat
      BY DEF IInv, TypeOK, Id
    <3>3. id \in instanceIds
      BY <3>1, <3>2 DEF IInv, BitsAreOwned
    <3> QED BY <3>1, <3>2, <3>3 DEF IInv, BitsAreOwned
  <2> QED BY <2>1, <2>2, <2>3 DEF Next
<1> QED BY <1>1, InductiveInvariant, PTL DEF OverrunsAtChunks, Spec
=============================================================================
