------------------------ MODULE SessionQueue_proofs ------------------------
(* Theorems about SessionQueue, for every number of accounts, sessions and  *)
(* limits.                                                                  *)
EXTENDS SessionQueue, QueueLemmas

-----------------------------------------------------------------------------
(* What one call of RemoveQueuedPlayer does *)

IsMap(m) ==
  /\ m \in [Account -> Session \cup {NULL}]
  /\ \A a, b \in Listed(m) : m[a] = m[b] => a = b

\* q holds, once each, sessions listed in m.
IsQueueOf(q, m) ==
  /\ q \in Seq(Session)
  /\ IsInjective(q)
  /\ \A s \in Range(q) : \E a \in Listed(m) : m[a] = s

\* The accounts with an active session number m_sessions.size() less the length
\* of the queue: GetActiveSessionCount counts what it is meant to count.
LEMMA CountActive ==
  ASSUME NEW m, IsMap(m), NEW q, IsQueueOf(q, m)
  PROVE  /\ IsFiniteSet(Listed(m)) /\ Cardinality(Listed(m)) \in Nat
         /\ Len(q) \in Nat
         /\ IsFiniteSet(ActiveIn(m, q)) /\ Cardinality(ActiveIn(m, q)) \in Nat
         /\ Cardinality(ActiveIn(m, q)) = Cardinality(Listed(m)) - Len(q)
<1> DEFINE L == Listed(m)
           W == {a \in L : m[a] \in Range(q)}
           f == [a \in W |-> m[a]]
<1>1. IsFiniteSet(L) /\ Cardinality(L) \in Nat
  BY AccountAssumption, FS_Subset, FS_CardinalityType DEF Listed
<1>2. Len(q) \in Nat /\ IsFiniteSet(Range(q)) /\ Cardinality(Range(q)) = Len(q)
  BY QueueLength, LenProperties DEF IsQueueOf
<1>3. IsFiniteSet(W) /\ Cardinality(W) = Len(q)
  <2>1. f \in Bijection(W, Range(q))
    <3>1. f \in [W -> Range(q)]
      OBVIOUS
    <3>2. IsInjective(f)
      BY DEF IsInjective, IsMap
    <3>3. \A t \in Range(q) : \E x \in W : f[x] = t
      BY DEF IsQueueOf
    <3> QED BY <3>1, <3>2, <3>3 DEF Bijection, Injection, Surjection
  <2>2. IsFiniteSet(W)
    BY <1>1, FS_Subset
  <2>3. ExistsBijection(W, Range(q))
    BY <2>1 DEF ExistsBijection
  <2> QED BY <1>2, <2>2, <2>3, FS_Bijection
<1>4. ActiveIn(m, q) = L \ W /\ L \cap W = W
  BY DEF ActiveIn
<1>5. /\ IsFiniteSet(L \ W) /\ Cardinality(L \ W) = Cardinality(L) - Cardinality(L \cap W)
      /\ Cardinality(L \ W) \in Nat
  BY <1>1, FS_Difference, FS_CardinalityType
<1> QED BY <1>1, <1>2, <1>3, <1>4, <1>5

QueueStates == [queue : Seq(Session), inQueue : SUBSET Session]

\* If someone waits in q, the sessions that do not wait fill some limit.
Filled(m, q) == (q # <<>>) => \E n \in Limits : Cardinality(ActiveIn(m, q)) >= n

\* The queue r after RemoveQueuedPlayer of the listed session m[a] from st: it lost
\* the session and at most its head, with their flags; if the head was let in, the
\* sessions that are active without m[a] are within the limit, and if someone is
\* still waiting, they fill a limit.
Outcome(m, a, st, r) ==
  /\ r \in QueueStates
  /\ IsQueueOf(r.queue, m)
  /\ Range(r.queue) \subseteq Range(st.queue) \ {m[a]}
  /\ r.inQueue = st.inQueue \ (Range(st.queue) \ Range(r.queue))
  /\ \/ ActiveIn(m, r.queue) \ {a} = ActiveIn(m, st.queue) \ {a}
     \/ m_playerLimit = 0
     \/ Cardinality(ActiveIn(m, r.queue) \ {a}) <= m_playerLimit
  /\ Filled(m, st.queue) =>
       ((r.queue # <<>>) => \E n \in Limits : Cardinality(ActiveIn(m, r.queue) \ {a}) >= n)

LEMMA RemovedFromQueue ==
  ASSUME NEW m, IsMap(m), NEW a \in Listed(m),
         NEW st \in QueueStates, IsQueueOf(st.queue, m),
         m_playerLimit \in Limits
  PROVE  Outcome(m, a, st, RemoveQueuedPlayer(st, m[a], Cardinality(Listed(m))))
<1> DEFINE r == RemoveQueuedPlayer(st, m[a], Cardinality(Listed(m)))
<1> DEFINE q == st.queue
           s == m[a]
           N == Cardinality(Listed(m))
           k == Len(q)
           found == Contains(q, s)
           left == Remaining(q, found, N)
           rest == IF found
                   THEN [queue |-> RemoveAt(q, GetQueuePos(q, s)), inQueue |-> st.inQueue \ {s}]
                   ELSE st
           admit == (m_playerLimit = 0 \/ left < m_playerLimit) /\ rest.queue # <<>>
<1>1. r = IF admit THEN AcceptFirst(rest) ELSE rest
  BY DEF RemoveQueuedPlayer
<1> HIDE DEF r
<1>2. /\ q \in Seq(Session) /\ IsInjective(q) /\ k \in Nat /\ DOMAIN q = 1..k
      /\ \A x \in Range(q) : \E b \in Listed(m) : m[b] = x
      /\ s \in Session
  BY LenProperties DEF IsQueueOf, IsMap, Listed
<1>3. found <=> s \in Range(q)
  BY <1>2 DEF Contains, Range
<1>4. /\ rest \in QueueStates
      /\ IsInjective(rest.queue)
      /\ Range(rest.queue) = Range(q) \ {s}
      /\ Len(rest.queue) = IF found THEN k - 1 ELSE k
      /\ rest.inQueue = IF found THEN st.inQueue \ {s} ELSE st.inQueue
  <2>1. CASE found
    <3>1. PICK j \in 1..k : q[j] = s
      BY <2>1 DEF Contains
    <3>2. q[j] = s /\ \A i \in 1..(j-1) : q[i] # s
      BY <1>2, <3>1 DEF IsInjective
    <3>3. GetQueuePos(q, s) \in 1..k /\ q[GetQueuePos(q, s)] = s
      BY <1>2, <3>1, <3>2 DEF GetQueuePos
    <3> QED BY <2>1, <1>2, <3>3, EraseFromQueue DEF QueueStates
  <2>2. CASE ~found
    BY <2>2, <1>2, <1>3 DEF QueueStates
  <2> QED BY <2>1, <2>2
<1> HIDE DEF rest
<1>5. /\ r \in QueueStates
      /\ IsInjective(r.queue)
      /\ Range(r.queue) = IF admit THEN Range(rest.queue) \ {Head(rest.queue)} ELSE Range(rest.queue)
      /\ Len(r.queue) = IF admit THEN Len(rest.queue) - 1 ELSE Len(rest.queue)
      /\ r.inQueue = IF admit THEN rest.inQueue \ {Head(rest.queue)} ELSE rest.inQueue
      /\ admit => Head(rest.queue) \in Range(rest.queue)
  <2>1. CASE admit
    <3>1. rest.queue \in Seq(Session) /\ rest.queue # <<>> /\ rest.inQueue \in SUBSET Session
      BY <2>1, <1>4 DEF QueueStates
    <3>2. r = [queue |-> Tail(rest.queue), inQueue |-> rest.inQueue \ {Head(rest.queue)}]
      BY <2>1, <1>1 DEF AcceptFirst
    <3> QED BY <2>1, <1>4, <3>1, <3>2, PopFromQueue DEF QueueStates
  <2>2. CASE ~admit
    BY <2>2, <1>1, <1>4
  <2> QED BY <2>1, <2>2
<1>6. IsQueueOf(r.queue, m)
  BY <1>2, <1>4, <1>5 DEF IsQueueOf, QueueStates
<1>7. Range(r.queue) \subseteq Range(q) \ {s}
  BY <1>4, <1>5
<1>8. r.inQueue = st.inQueue \ (Range(q) \ Range(r.queue))
  BY <1>3, <1>4, <1>5
<1>9. /\ N \in Nat
      /\ Cardinality(ActiveIn(m, q)) = N - k /\ N - k \in Nat
      /\ Cardinality(ActiveIn(m, r.queue) \ {a}) = N - Len(r.queue) - 1
      /\ N - Len(r.queue) - 1 \in Nat /\ Len(r.queue) \in Nat
  <2>1. a \in ActiveIn(m, r.queue)
    BY <1>7 DEF ActiveIn
  <2>2. /\ IsFiniteSet(ActiveIn(m, r.queue)) /\ Cardinality(ActiveIn(m, r.queue)) \in Nat
        /\ Cardinality(ActiveIn(m, r.queue)) = N - Len(r.queue)
        /\ N \in Nat /\ Len(r.queue) \in Nat
    BY <1>6, CountActive
  <2>3. Cardinality(ActiveIn(m, q)) = N - k /\ N - k \in Nat
    BY CountActive
  <2>4. /\ IsFiniteSet(ActiveIn(m, r.queue) \ {a})
        /\ Cardinality(ActiveIn(m, r.queue) \ {a}) = Cardinality(ActiveIn(m, r.queue)) - 1
        /\ Cardinality(ActiveIn(m, r.queue) \ {a}) \in Nat
    BY <2>1, <2>2, FS_RemoveElement, FS_CardinalityType
  <2> QED BY <2>2, <2>3, <2>4
<1>10. m_playerLimit \in Nat
  BY LimitAssumption
<1> HIDE DEF found
<1>11. left = IF ~found /\ N - k > 0 THEN N - k - 1 ELSE N - k
  BY DEF Remaining
<1>12. \/ ActiveIn(m, r.queue) \ {a} = ActiveIn(m, q) \ {a}
       \/ m_playerLimit = 0
       \/ Cardinality(ActiveIn(m, r.queue) \ {a}) <= m_playerLimit
  <2>1. CASE admit
    <3>1. m_playerLimit = 0 \/ left < m_playerLimit
      BY <2>1
    <3> HIDE DEF left, N, k
    <3>2. CASE found
      BY <2>1, <3>1, <3>2, <1>2, <1>4, <1>5, <1>9, <1>10, <1>11
    <3>3. CASE ~found
      BY <2>1, <3>1, <3>3, <1>2, <1>4, <1>5, <1>9, <1>10, <1>11
    <3> QED BY <3>2, <3>3
  <2>2. CASE ~admit
    <3>1. Range(r.queue) = Range(q) \ {s}
      BY <2>2, <1>4, <1>5
    <3>2. \A b \in Listed(m) \ {a} : m[b] # s
      BY DEF IsMap
    <3> QED BY <3>1, <3>2 DEF ActiveIn
  <2> QED BY <2>1, <2>2
<1>13. ASSUME Filled(m, q), r.queue # <<>>
       PROVE  \E n \in Limits : Cardinality(ActiveIn(m, r.queue) \ {a}) >= n
  <2>1. CASE admit
    <3>1. rest.queue # <<>>
      BY <2>1
    <3>2. q # <<>>
      <4>1. SUFFICES ASSUME q = <<>> PROVE FALSE
        OBVIOUS
      <4>2. Head(rest.queue) \in Range(q) /\ Range(q) = {}
        BY <4>1, <2>1, <1>2, <1>4, <1>5 DEF Range
      <4> QED BY <4>2
    <3>3. PICK n \in Limits : N - k >= n
      BY <3>2, <1>9, <1>13 DEF Filled
    <3>4. n \in Nat
      BY LimitAssumption
    <3> HIDE DEF left, N, k
    <3>5. N - Len(r.queue) - 1 >= n
      BY <2>1, <3>3, <3>4, <1>2, <1>4, <1>5, <1>9
    <3> QED BY <3>5, <1>9 DEF N
  <2>2. CASE ~admit
    <3>1. rest.queue # <<>>
      BY <2>2, <1>1, <1>13
    <3>2. m_playerLimit # 0 /\ ~(left < m_playerLimit)
      BY <3>1, <2>2
    <3> HIDE DEF left, N, k
    <3>3. N - Len(r.queue) - 1 >= m_playerLimit
      BY <2>2, <3>2, <1>2, <1>4, <1>5, <1>9, <1>10, <1>11
    <3> QED BY <3>3, <1>9 DEF N
  <2> QED BY <2>1, <2>2
<1>14. Outcome(m, a, st, r)
  BY <1>5, <1>6, <1>7, <1>8, <1>12, <1>13 DEF Outcome
<1> QED BY <1>14 DEF r

-----------------------------------------------------------------------------
(* The inductive invariant *)

\* A session in addSessQueue is new: at the character screen, not listed.
AddQueueSound ==
  /\ IsInjective(addSessQueue)
  /\ \A s \in Range(addSessQueue) :
       /\ stage[s] = "select"
       /\ account[s] \in Account
       /\ s \notin inQueue
       /\ \A a \in Account : m_sessions[a] # s

\* A listed session is alive, under its own account.
ListSound ==
  \A a \in Listed(m_sessions) : account[m_sessions[a]] = a /\ Alive(m_sessions[a])

QueueSound ==
  /\ IsInjective(m_QueuedPlayer)
  /\ (phase # "gone") => \A s \in Queued : \E a \in Listed(m_sessions) : m_sessions[a] = s

FlagSound ==
  /\ Queued \subseteq inQueue
  /\ stopped \/ inQueue = Queued
  /\ \A s \in Session : stage[s] = "none" => s \notin inQueue

\* Only a listed session has a character.
CharacterSound ==
  \A s \in Session : stage[s] \in {"loading", "ingame"} =>
                      \E a \in Account : m_sessions[a] = s

PhaseSound ==
  /\ (phase = "updating") => (pending \subseteq Listed(m_sessions))
  /\ (phase \in {"down", "gone"}) => stopped

Structure == Typed /\ AddQueueSound /\ ListSound /\ QueueSound /\ FlagSound
                  /\ CharacterSound /\ PhaseSound

IInv == Structure /\ PlayerLimitHolds /\ NoOneWaitsForAFreeSlot

LEMMA InitIInv == Init => IInv
<1> SUFFICES ASSUME Init PROVE IInv
  OBVIOUS
<1> USE DEF Init
<1>1. Listed(m_sessions) = {} /\ Queued = {} /\ Range(addSessQueue) = {}
  BY DEF Listed, Queued, Range
<1>2. Typed
  <2>1. /\ stage \in [Session -> Stage] /\ phase \in Phase
        /\ account \in [Session -> Account \cup {NULL}]
        /\ m_sessions \in [Account -> Session \cup {NULL}]
        /\ m_disconnects \in [Account -> Int]
    BY DEF Stage, Phase, Never
  <2>2. addSessQueue \in Seq(Session) /\ m_QueuedPlayer \in Seq(Session)
    BY EmptySeq
  <2>3. /\ closed \in SUBSET Session /\ inQueue \in SUBSET Session
        /\ pending \in SUBSET Account /\ kicked \in SUBSET Session
    OBVIOUS
  <2>4. m_playerLimit \in Limits /\ now \in Nat
    OBVIOUS
  <2>5. stopped \in BOOLEAN
    BY Zenon
  <2> QED BY ONLY <2>1, <2>2, <2>3, <2>4, <2>5 DEF Typed
<1>3. AddQueueSound /\ ListSound /\ QueueSound /\ FlagSound
  BY <1>1 DEF AddQueueSound, ListSound, QueueSound, FlagSound, IsInjective
<1>4. CharacterSound /\ PhaseSound
  BY DEF CharacterSound, PhaseSound
<1>5. PlayerLimitHolds
  <2>1. PlayersInside = {}
    BY <1>1 DEF PlayersInside, Active, ActiveIn
  <2> QED BY <2>1, FS_EmptySet, LimitAssumption DEF PlayerLimitHolds
<1>6. NoOneWaitsForAFreeSlot
  BY DEF NoOneWaitsForAFreeSlot
<1> QED BY <1>2, <1>3, <1>4, <1>5, <1>6 DEF IInv, Structure

\* The map and the queue are what RemovedFromQueue expects of them.
LEMMA CurrentQueue ==
  ASSUME Structure, phase # "gone"
  PROVE  /\ IsMap(m_sessions)
         /\ IsQueueOf(m_QueuedPlayer, m_sessions)
         /\ QueueState \in QueueStates
         /\ QueueState.queue = m_QueuedPlayer /\ QueueState.inQueue = inQueue
BY DEF Structure, Typed, ListSound, QueueSound, IsMap, IsQueueOf, QueueState, QueueStates, Queued

-----------------------------------------------------------------------------
(* Steps that leave the map and the queue alone *)

LEMMA HandleAuthSessionStep ==
  ASSUME IInv, NEW s \in Session, NEW a \in Account, HandleAuthSession(s, a)
  PROVE  IInv'
<1> USE DEF HandleAuthSession, world
<1>1. Typed /\ AddQueueSound /\ ListSound /\ QueueSound /\ FlagSound /\ CharacterSound /\ PhaseSound
  BY DEF IInv, Structure
<1>2. s \notin Range(addSessQueue) /\ s \notin inQueue /\ \A b \in Account : m_sessions[b] # s
  <2>1. s \notin Range(addSessQueue) /\ s \notin inQueue
    BY <1>1 DEF AddQueueSound, FlagSound
  <2>2. ASSUME NEW b \in Account, m_sessions[b] = s PROVE FALSE
    BY <1>1, <2>2, SessionAssumption DEF ListSound, Listed, Alive, Playing
  <2> QED BY <2>1, <2>2
<1>3. Typed'
  BY <1>1, AppendProperties DEF Typed, Stage
<1>4. AddQueueSound'
  BY <1>1, <1>2, PushToQueue DEF AddQueueSound, Typed
<1>5. ListSound' /\ QueueSound' /\ FlagSound' /\ CharacterSound' /\ PhaseSound'
  BY <1>1, <1>2 DEF Typed, ListSound, QueueSound, FlagSound, CharacterSound, PhaseSound,
                    Alive, Playing, Listed, Queued
<1>6. PlayerLimitHolds' /\ NoOneWaitsForAFreeSlot'
  BY DEF IInv, PlayerLimitHolds, NoOneWaitsForAFreeSlot, PlayersInside, Active, ActiveIn, Listed
<1> QED BY <1>3, <1>4, <1>5, <1>6 DEF IInv, Structure

LEMMA CloseSocketStep ==
  ASSUME IInv, NEW s \in Session, CloseSocket(s)
  PROVE  IInv'
<1> USE DEF CloseSocket, world
<1>1. Typed /\ AddQueueSound /\ ListSound /\ QueueSound /\ FlagSound /\ CharacterSound /\ PhaseSound
  BY DEF IInv, Structure
<1>2. Typed'
  BY <1>1 DEF Typed
<1>3. AddQueueSound' /\ ListSound' /\ QueueSound' /\ FlagSound' /\ CharacterSound' /\ PhaseSound'
  BY <1>1 DEF AddQueueSound, ListSound, QueueSound, FlagSound, CharacterSound, PhaseSound,
              Alive, Listed, Queued
<1>4. PlayerLimitHolds' /\ NoOneWaitsForAFreeSlot'
  BY DEF IInv, PlayerLimitHolds, NoOneWaitsForAFreeSlot, PlayersInside, Active, ActiveIn, Listed
<1> QED BY <1>2, <1>3, <1>4 DEF IInv, Structure

LEMMA PlainStep ==
  ASSUME IInv, BeginTick \/ EndAdding \/ EndTick \/ Tick \/ \E n \in Limits : SetPlayerAmountLimit(n)
  PROVE  IInv'
<1> USE DEF session, world
<1>1. UNCHANGED <<session, world, addSessQueue, stopped, kicked>>
  BY DEF BeginTick, EndAdding, EndTick, Tick, SetPlayerAmountLimit
<1>2. Typed' /\ PhaseSound' /\ ((phase' = "gone") <=> (phase = "gone"))
  BY <1>1 DEF BeginTick, EndAdding, EndTick, Tick, SetPlayerAmountLimit, IInv, Structure, Typed,
              PhaseSound, Phase, Listed
<1> QED
  BY <1>1, <1>2 DEF IInv, Structure, AddQueueSound, ListSound, QueueSound, FlagSound, CharacterSound,
       PlayerLimitHolds, NoOneWaitsForAFreeSlot, PlayersInside, Active, ActiveIn, Listed, Queued, Alive

LEMMA RefuseSessionStep ==
  ASSUME IInv, RefuseSession
  PROVE  IInv'
<1> USE DEF RefuseSession, world
<1> DEFINE s == Head(addSessQueue)
<1>1. Typed /\ AddQueueSound /\ ListSound /\ QueueSound /\ FlagSound /\ CharacterSound /\ PhaseSound
  BY DEF IInv, Structure
<1>2. /\ Tail(addSessQueue) \in Seq(Session) /\ IsInjective(Tail(addSessQueue))
      /\ Range(Tail(addSessQueue)) = Range(addSessQueue) \ {s}
      /\ s \in Range(addSessQueue) /\ s \in Session
  BY <1>1, PopFromQueue, RangeOfSeq DEF Typed, AddQueueSound
<1> HIDE DEF s
<1>3. Typed' /\ stage' = [stage EXCEPT ![s] = "deleted"]
  BY <1>1, <1>2 DEF Typed, Stage, s
<1>4. AddQueueSound'
  BY <1>1, <1>2, <1>3 DEF AddQueueSound, Typed
<1>5. \A a \in Account : m_sessions[a] # s
  BY <1>1, <1>2 DEF AddQueueSound
<1>6. ListSound' /\ QueueSound' /\ FlagSound' /\ CharacterSound' /\ PhaseSound'
  BY <1>1, <1>2, <1>3, <1>5 DEF Typed, ListSound, QueueSound, FlagSound, CharacterSound, PhaseSound,
                    Alive, Playing, Listed, Queued
<1>7. PlayerLimitHolds' /\ NoOneWaitsForAFreeSlot'
  BY DEF IInv, PlayerLimitHolds, NoOneWaitsForAFreeSlot, PlayersInside, Active, ActiveIn, Listed
<1> QED BY <1>3, <1>4, <1>6, <1>7 DEF IInv, Structure

LEMMA KeepSessionStep ==
  ASSUME IInv, NEW a \in Account, KeepSession(a)
  PROVE  IInv'
<1> USE DEF KeepSession, world
<1> DEFINE s == m_sessions[a]
<1>1. Typed /\ AddQueueSound /\ ListSound /\ QueueSound /\ FlagSound /\ CharacterSound /\ PhaseSound
  BY DEF IInv, Structure
<1>2. a \in Listed(m_sessions) /\ s \in Session /\ s \notin Range(addSessQueue)
  BY <1>1 DEF PhaseSound, Typed, Listed, AddQueueSound
<1>3. PICK g \in Playing : stage' = [stage EXCEPT ![s] = g]
  OBVIOUS
<1>4. Typed'
  BY <1>1, <1>3 DEF Typed, Stage, Playing
<1>5. AddQueueSound'
  BY <1>1, <1>2, <1>3 DEF AddQueueSound, Typed
<1>6. ListSound' /\ QueueSound' /\ PhaseSound'
  BY <1>1, <1>2, <1>3 DEF Typed, ListSound, QueueSound, PhaseSound, Alive, Playing, Listed, Queued
<1>7. FlagSound' /\ CharacterSound'
  BY <1>1, <1>2, <1>3 DEF Typed, FlagSound, CharacterSound, Playing, Queued, Listed
<1>8. PlayerLimitHolds' /\ NoOneWaitsForAFreeSlot'
  BY DEF IInv, PlayerLimitHolds, NoOneWaitsForAFreeSlot, PlayersInside, Active, ActiveIn, Listed
<1> QED BY <1>4, <1>5, <1>6, <1>7, <1>8 DEF IInv, Structure

LEMMA KickAllStep ==
  ASSUME IInv, KickAll
  PROVE  IInv'
<1> USE DEF KickAll
<1>1. Typed /\ AddQueueSound /\ ListSound /\ QueueSound /\ FlagSound /\ CharacterSound /\ PhaseSound
  BY DEF IInv, Structure
<1>2. Typed'
  <2>1. m_QueuedPlayer' \in Seq(Session) /\ phase' \in Phase
    BY EmptySeq DEF Phase
  <2>2. /\ closed' \in SUBSET Session /\ kicked' \in SUBSET Session
        /\ stopped' \in BOOLEAN
    BY <1>1 DEF Typed, Listed, Kicked
  <2> QED BY <1>1, <2>1, <2>2 DEF Typed
<1>3. Queued' = {} /\ IsInjective(m_QueuedPlayer')
  BY DEF Queued, Range, IsInjective
<1>4. AddQueueSound' /\ ListSound' /\ CharacterSound' /\ PhaseSound'
  BY <1>1 DEF AddQueueSound, ListSound, CharacterSound, PhaseSound, Listed, Alive
<1>5. QueueSound' /\ FlagSound'
  BY <1>1, <1>3 DEF QueueSound, FlagSound
<1>6. PlayerLimitHolds' /\ NoOneWaitsForAFreeSlot'
  BY DEF PlayerLimitHolds, NoOneWaitsForAFreeSlot
<1> QED BY <1>2, <1>4, <1>5, <1>6 DEF IInv, Structure

LEMMA DestroyWorldStep ==
  ASSUME IInv, DestroyWorld
  PROVE  IInv'
<1> USE DEF DestroyWorld
<1>1. Typed /\ AddQueueSound /\ ListSound /\ QueueSound /\ FlagSound /\ CharacterSound /\ PhaseSound
  BY DEF IInv, Structure
<1>2. Listed(m_sessions') = {}
  BY DEF Listed
<1>3. Typed'
  BY <1>1 DEF Typed, Stage, Phase, Listed
<1>4. AddQueueSound'
  BY <1>1, SessionAssumption DEF AddQueueSound, Typed, Range
<1>5. ListSound' /\ QueueSound' /\ PhaseSound'
  BY <1>1, <1>2 DEF ListSound, QueueSound, PhaseSound, Listed
<1>6. FlagSound' /\ CharacterSound'
  BY <1>1 DEF FlagSound, CharacterSound, Typed, PhaseSound, Queued
<1>7. PlayerLimitHolds' /\ NoOneWaitsForAFreeSlot'
  BY <1>1 DEF PlayerLimitHolds, NoOneWaitsForAFreeSlot, PhaseSound
<1> QED BY <1>3, <1>4, <1>5, <1>6, <1>7 DEF IInv, Structure

-----------------------------------------------------------------------------
(* Steps that change the map and the queue *)

LEMMA DropSessionStep ==
  ASSUME IInv, NEW a \in Account, DropSession(a)
  PROVE  IInv'
<1> DEFINE m == m_sessions
           s == m[a]
           N == Cardinality(Listed(m))
           st1 == RemoveQueuedPlayer(QueueState, s, N)
           st2 == RemoveQueuedPlayer(st1, s, N)
           q == m_QueuedPlayer'
<1>1. Typed /\ AddQueueSound /\ ListSound /\ QueueSound /\ FlagSound /\ CharacterSound /\ PhaseSound
  BY DEF IInv, Structure
<1>2. /\ phase = "updating" /\ phase' = phase /\ pending' = pending \ {a}
      /\ m_sessions' = [m EXCEPT ![a] = NULL]
      /\ stage' = [stage EXCEPT ![s] = "deleted"]
      /\ closed' = closed \cup {s}
      /\ q = st2.queue /\ inQueue' = st2.inQueue
      /\ m_disconnects' \in {m_disconnects, [m_disconnects EXCEPT ![a] = now]}
      /\ UNCHANGED <<account, addSessQueue, m_playerLimit, now, stopped, kicked>>
  BY DEF DropSession, Leave, SessionCount
<1>3. a \in Listed(m) /\ s \in Session /\ a \in pending
  BY <1>1, <1>2 DEF PhaseSound, Typed, Listed, DropSession
<1>4. /\ IsMap(m) /\ IsQueueOf(m_QueuedPlayer, m) /\ QueueState \in QueueStates
      /\ QueueState.queue = m_QueuedPlayer /\ QueueState.inQueue = inQueue
      /\ m_playerLimit \in Limits
  BY <1>1, <1>2, CurrentQueue DEF Structure, Typed
<1> HIDE DEF m, st1, st2
<1>5. Outcome(m, a, QueueState, st1)
  BY <1>3, <1>4, RemovedFromQueue DEF st1
<1>6. Outcome(m, a, st1, st2)
  <2>1. st1 \in QueueStates /\ IsQueueOf(st1.queue, m)
    BY <1>5 DEF Outcome
  <2> QED BY <1>3, <1>4, <2>1, RemovedFromQueue DEF st2
<1>7. /\ q \in Seq(Session) /\ IsInjective(q) /\ inQueue' \in SUBSET Session
      /\ Range(q) \subseteq Queued \ {s} /\ inQueue' = inQueue \ (Queued \ Range(q))
      /\ \A t \in Range(q) : \E b \in Listed(m) : m[b] = t
  BY <1>2, <1>4, <1>5, <1>6 DEF QueueStates, IsQueueOf, Outcome, Queued
<1>8. Listed(m_sessions') = Listed(m) \ {a} /\ \A b \in Listed(m) \ {a} : m_sessions'[b] = m[b] /\ m[b] # s
  BY <1>1, <1>2, <1>3, <1>4 DEF Listed, Typed, IsMap, m
<1>9. Typed'
  <2>1. m_disconnects' \in [Account -> Int] /\ m_sessions' \in [Account -> Session \cup {NULL}]
    BY <1>1, <1>2 DEF Typed, m
  <2>2. stage' \in [Session -> Stage] /\ closed' \in SUBSET Session
    BY <1>1, <1>2, <1>3 DEF Typed, Stage
  <2> QED BY <1>1, <1>2, <1>7, <2>1, <2>2 DEF Typed
<1>10. AddQueueSound'
  <2> SUFFICES ASSUME NEW t \in Range(addSessQueue)
               PROVE  /\ stage'[t] = "select" /\ t \notin inQueue'
                      /\ \A b \in Account : m_sessions'[b] # t
    BY <1>1, <1>2 DEF AddQueueSound
  <2>1. /\ t \in Session /\ stage[t] = "select" /\ t \notin inQueue
        /\ \A b \in Account : m[b] # t
    BY <1>1, RangeOfSeq DEF AddQueueSound, Typed, m
  <2>2. stage'[t] = "select" /\ t \notin inQueue'
    BY <1>1, <1>2, <1>3, <1>7, <2>1 DEF Typed, m
  <2>3. \A b \in Account : m_sessions'[b] # t
    BY <1>1, <1>2, <2>1, SessionAssumption DEF Typed, m
  <2> QED BY <2>2, <2>3
<1>11. ListSound' /\ PhaseSound'
  BY <1>1, <1>2, <1>3, <1>8 DEF ListSound, PhaseSound, Typed, Alive, Playing, m, Listed
<1>12. QueueSound'
  BY <1>2, <1>7, <1>8 DEF QueueSound, Queued
<1>13. FlagSound'
  BY <1>1, <1>2, <1>3, <1>7 DEF FlagSound, Queued, Typed
<1>14. CharacterSound'
  BY <1>1, <1>2, <1>3 DEF CharacterSound, Typed, m
<1>15. Active' = ActiveIn(m, q) \ {a}
  BY <1>8 DEF Active, ActiveIn
<1>16. PlayerLimitHolds'
  <2> SUFFICES ASSUME Tolerance = 0, 0 \notin Limits, ~stopped
               PROVE  \E n \in Limits : Cardinality(PlayersInside') <= n
    BY <1>2 DEF PlayerLimitHolds
  <2>1. /\ IsFiniteSet(Active) /\ Active = ActiveIn(m, m_QueuedPlayer)
        /\ IsFiniteSet(ActiveIn(m, st1.queue)) /\ IsFiniteSet(ActiveIn(m, st2.queue))
    BY <1>4, <1>5, <1>6, CountActive DEF Active, Outcome, m
  <2>2. PlayersInside' = Active' \ Privileged
    BY DEF PlayersInside
  <2>3. CASE Active' \subseteq Active
    <3>1. PlayersInside' \subseteq PlayersInside /\ IsFiniteSet(PlayersInside)
      BY <2>1, <2>2, <2>3, FS_Difference DEF PlayersInside
    <3>2. Cardinality(PlayersInside') <= Cardinality(PlayersInside)
          /\ Cardinality(PlayersInside') \in Nat /\ Cardinality(PlayersInside) \in Nat
      BY <3>1, FS_Subset, FS_CardinalityType
    <3>3. PICK n \in Limits : Cardinality(PlayersInside) <= n
      BY DEF IInv, PlayerLimitHolds
    <3> QED BY <3>2, <3>3, LimitAssumption
  <2>4. CASE Cardinality(Active') <= m_playerLimit
    <3>1. IsFiniteSet(Active') /\ PlayersInside' \subseteq Active'
      BY <1>2, <1>15, <2>1, <2>2, FS_RemoveElement
    <3>2. Cardinality(PlayersInside') <= Cardinality(Active')
          /\ Cardinality(PlayersInside') \in Nat /\ Cardinality(Active') \in Nat
      BY <3>1, FS_Subset, FS_CardinalityType
    <3> QED BY <1>4, <2>4, <3>2, LimitAssumption
  <2>5. m_playerLimit # 0
    BY <1>4
  <2> QED BY <1>2, <1>4, <1>5, <1>6, <1>15, <2>1, <2>3, <2>4, <2>5 DEF Outcome
<1>17. NoOneWaitsForAFreeSlot'
  <2> SUFFICES ASSUME q # <<>> PROVE \E n \in Limits : Cardinality(Active') >= n
    BY DEF NoOneWaitsForAFreeSlot
  <2>1. Filled(m, m_QueuedPlayer)
    BY <1>2 DEF Filled, IInv, NoOneWaitsForAFreeSlot, Active, m
  <2>2. Filled(m, st1.queue)
    <3> SUFFICES ASSUME st1.queue # <<>>
                 PROVE  \E n \in Limits : Cardinality(ActiveIn(m, st1.queue)) >= n
      BY DEF Filled
    <3>1. PICK n \in Limits : Cardinality(ActiveIn(m, st1.queue) \ {a}) >= n
      BY <1>4, <1>5, <2>1 DEF Outcome
    <3>2. /\ Cardinality(ActiveIn(m, st1.queue) \ {a}) <= Cardinality(ActiveIn(m, st1.queue))
          /\ Cardinality(ActiveIn(m, st1.queue)) \in Nat
          /\ Cardinality(ActiveIn(m, st1.queue) \ {a}) \in Nat
      <4>1. IsFiniteSet(ActiveIn(m, st1.queue))
        BY <1>4, <1>5, CountActive DEF Outcome
      <4> QED BY <4>1, FS_Subset, FS_CardinalityType
    <3> QED BY <3>1, <3>2, LimitAssumption
  <2> QED BY <1>2, <1>6, <1>15, <2>2 DEF Outcome
<1> QED BY <1>9, <1>10, <1>11, <1>12, <1>13, <1>14, <1>16, <1>17 DEF IInv, Structure

LEMMA AddSessionStep ==
  ASSUME IInv, AddSession_
  PROVE  IInv'
<1> DEFINE m == m_sessions
           s == Head(addSessQueue)
           a == account[s]
           old == m[a]
           st == Displace(old)
           wait == MustWait(a)
           q == m_QueuedPlayer'
           X == ActiveIn(m, st.queue) \ {a}
<1>1. Typed /\ AddQueueSound /\ ListSound /\ QueueSound /\ FlagSound /\ CharacterSound /\ PhaseSound
  BY DEF IInv, Structure
<1>2. /\ phase = "adding" /\ addSessQueue # <<>> /\ phase' = phase
      /\ m_sessions' = [m EXCEPT ![a] = s]
      /\ stage' = IF old = NULL THEN stage ELSE [stage EXCEPT ![old] = "deleted"]
      /\ closed' = IF old = NULL THEN closed ELSE closed \cup {old}
      /\ q = IF wait THEN Append(st.queue, s) ELSE st.queue
      /\ inQueue' = IF wait THEN st.inQueue \cup {s} ELSE st.inQueue
      /\ addSessQueue' = Tail(addSessQueue)
      /\ UNCHANGED <<account, m_disconnects, m_playerLimit, now, phase, pending, stopped, kicked>>
  BY DEF AddSession_, StageWithout
<1>3. /\ s \in Session /\ s \in Range(addSessQueue) /\ stage[s] = "select" /\ a \in Account
      /\ s \notin inQueue /\ \A b \in Account : m[b] # s
      /\ addSessQueue' \in Seq(Session) /\ IsInjective(addSessQueue')
      /\ Range(addSessQueue') = Range(addSessQueue) \ {s}
  <2>1. s \in Range(addSessQueue) /\ s \in Session
    BY <1>1, <1>2, PopFromQueue, RangeOfSeq DEF Typed, AddQueueSound
  <2>2. /\ Tail(addSessQueue) \in Seq(Session) /\ IsInjective(Tail(addSessQueue))
        /\ Range(Tail(addSessQueue)) = Range(addSessQueue) \ {s}
    BY <1>1, <1>2, PopFromQueue DEF Typed, AddQueueSound
  <2> QED BY <1>1, <1>2, <2>1, <2>2 DEF AddQueueSound
<1>4. /\ IsMap(m) /\ IsQueueOf(m_QueuedPlayer, m) /\ QueueState \in QueueStates
      /\ QueueState.queue = m_QueuedPlayer /\ QueueState.inQueue = inQueue
      /\ m_playerLimit \in Limits /\ m_playerLimit \in Nat
  BY <1>1, <1>2, CurrentQueue, LimitAssumption DEF Structure, Typed
<1>5. Filled(m, m_QueuedPlayer)
  BY <1>2 DEF Filled, IInv, NoOneWaitsForAFreeSlot, Active
<1> HIDE DEF m, s, a, st, wait
<1>6. old = NULL \/ (old \in Session /\ a \in Listed(m))
  BY <1>1, <1>3 DEF Typed, Listed, m
<1>7. Outcome(m, a, QueueState, st)
  <2>1. CASE old = NULL
    <3>1. st = QueueState /\ a \notin Listed(m)
      BY <2>1 DEF st, Displace, Listed, m
    <3>2. NULL \notin Queued /\ ActiveIn(m, m_QueuedPlayer) \ {a} = ActiveIn(m, m_QueuedPlayer)
      BY <1>1, <3>1, RangeOfSeq, SessionAssumption DEF Typed, Queued, ActiveIn
    <3> QED BY <1>4, <1>5, <2>1, <3>1, <3>2 DEF Outcome, Filled, Queued
  <2>2. CASE old # NULL
    <3>1. st = RemoveQueuedPlayer(QueueState, m[a], Cardinality(Listed(m)))
      BY <2>2 DEF st, Displace, SessionCount, m
    <3>2. IsQueueOf(QueueState.queue, m)
      BY <1>4
    <3> QED BY <1>4, <1>6, <2>2, <3>1, <3>2, RemovedFromQueue
  <2> QED BY <2>1, <2>2
<1>8. /\ st \in QueueStates /\ IsQueueOf(st.queue, m)
      /\ Range(st.queue) \subseteq Queued \ {old}
      /\ st.inQueue = inQueue \ (Queued \ Range(st.queue))
      /\ X = Active \ {a} \/ m_playerLimit = 0 \/ Cardinality(X) <= m_playerLimit
      /\ (st.queue # <<>>) => \E n \in Limits : Cardinality(X) >= n
  BY <1>4, <1>5, <1>7 DEF Outcome, Queued, Active, m
<1>9. /\ Listed(m_sessions') = Listed(m) \cup {a} /\ m_sessions'[a] = s
      /\ \A b \in Listed(m) \ {a} : m_sessions'[b] = m[b] /\ m[b] # old
      /\ s \notin Queued
  <2>1. Listed(m_sessions') = Listed(m) \cup {a} /\ m_sessions'[a] = s
    BY <1>1, <1>2, <1>3, SessionAssumption DEF Listed, Typed, m
  <2>2. \A b \in Listed(m) \ {a} : m_sessions'[b] = m[b] /\ m[b] # old
    BY <1>1, <1>2, <1>3, <1>4, <1>6 DEF Listed, Typed, m, IsMap
  <2>3. s \notin Queued
    BY <1>3, <1>4 DEF IsQueueOf, Queued, Listed
  <2> QED BY <2>1, <2>2, <2>3
<1>10. /\ q \in Seq(Session) /\ IsInjective(q)
       /\ Range(q) = IF wait THEN Range(st.queue) \cup {s} ELSE Range(st.queue)
       /\ inQueue' \in SUBSET Session
  <2>1. /\ st.queue \in Seq(Session) /\ IsInjective(st.queue) /\ s \notin Range(st.queue)
        /\ st.inQueue \in SUBSET Session
    BY <1>8, <1>9 DEF IsQueueOf, QueueStates
  <2>2. CASE wait
    BY <1>2, <1>3, <2>1, <2>2, PushToQueue
  <2>3. CASE ~wait
    BY <1>2, <2>1, <2>3
  <2> QED BY <2>2, <2>3
<1>11. Typed'
  <2>1. m_sessions' \in [Account -> Session \cup {NULL}]
    BY <1>1, <1>2, <1>3 DEF Typed, m
  <2>2. stage' \in [Session -> Stage] /\ closed' \in SUBSET Session
    BY <1>1, <1>2, <1>6 DEF Typed, Stage
  <2> QED BY <1>1, <1>2, <1>3, <1>10, <2>1, <2>2 DEF Typed
<1>12. AddQueueSound'
  <2> SUFFICES ASSUME NEW t \in Range(addSessQueue')
               PROVE  /\ stage'[t] = "select" /\ t \notin inQueue' /\ account[t] \in Account
                      /\ \A b \in Account : m_sessions'[b] # t
    BY <1>2, <1>3 DEF AddQueueSound
  <2>1. /\ t \in Session /\ t # s /\ stage[t] = "select" /\ t \notin inQueue
        /\ account[t] \in Account /\ \A b \in Account : m[b] # t
    BY <1>1, <1>3, RangeOfSeq DEF AddQueueSound, Typed, m
  <2>2. t # old
    BY <1>3, <2>1
  <2>3. stage'[t] = "select"
    BY <1>1, <1>2, <2>1, <2>2 DEF Typed
  <2>4. t \notin inQueue'
    BY <1>2, <1>8, <2>1
  <2>5. \A b \in Account : m_sessions'[b] # t
    BY <1>1, <1>2, <2>1 DEF Typed, m
  <2> QED BY <2>1, <2>3, <2>4, <2>5
<1>13. ListSound'
  <2> SUFFICES ASSUME NEW b \in Listed(m_sessions')
               PROVE  account[m_sessions'[b]] = b /\ stage'[m_sessions'[b]] \in Playing
    BY <1>2 DEF ListSound, Alive
  <2>1. CASE b = a
    BY <1>1, <1>2, <1>3, <1>9, <2>1 DEF a, Playing, Typed
  <2>2. CASE b # a
    <3>1. b \in Listed(m) \ {a} /\ m[b] \in Session /\ m[b] # old /\ m_sessions'[b] = m[b]
      BY <1>1, <1>9, <2>2 DEF Listed, Typed, m
    <3>2. account[m[b]] = b /\ stage[m[b]] \in Playing
      BY <1>1, <3>1 DEF ListSound, Alive, m
    <3> QED BY <1>1, <1>2, <3>1, <3>2 DEF Typed
  <2> QED BY <2>1, <2>2
<1>14. QueueSound'
  <2>1. ASSUME NEW t \in Range(q) PROVE \E b \in Listed(m_sessions') : m_sessions'[b] = t
    <3>1. CASE t = s
      BY <1>9, <3>1
    <3>2. CASE t # s
      <4>1. t \in Range(st.queue) /\ t # old
        BY <1>8, <1>10, <2>1, <3>2
      <4>2. PICK b \in Listed(m) : m[b] = t
        BY <1>8, <4>1 DEF IsQueueOf
      <4>3. b # a
        BY <4>1, <4>2
      <4> QED BY <1>9, <4>2, <4>3
    <3> QED BY <3>1, <3>2
  <2> QED BY <1>10, <2>1 DEF QueueSound, Queued
<1>15. FlagSound' /\ PhaseSound'
  <2>1. \A t \in Session : stage'[t] = "none" => stage[t] = "none" /\ t # s
    BY <1>1, <1>2, <1>3, <1>6 DEF Typed
  <2>2. Queued' = Range(q)
    BY DEF Queued
  <2> QED BY <1>1, <1>2, <1>8, <1>10, <2>1, <2>2 DEF FlagSound, PhaseSound
<1>16. CharacterSound'
  <2> SUFFICES ASSUME NEW t \in Session, stage'[t] \in {"loading", "ingame"}
               PROVE  \E b \in Account : m_sessions'[b] = t
    BY DEF CharacterSound
  <2>1. t # old /\ stage[t] \in {"loading", "ingame"}
    BY <1>1, <1>2, <1>6, SessionAssumption DEF Typed
  <2>2. PICK b \in Account : m[b] = t
    BY <1>1, <2>1 DEF CharacterSound, m
  <2> QED BY <1>1, <1>2, <2>1, <2>2 DEF Typed, m
<1>17. /\ IsFiniteSet(Active) /\ IsFiniteSet(X) /\ IsFiniteSet(Active')
       /\ IsFiniteSet(Listed(m_sessions'))
       /\ X \subseteq Active' /\ Active' \ {a} = X
       /\ a \in Active' <=> ~wait
       /\ Active' \subseteq Listed(m_sessions')
  <2>1. IsFiniteSet(Listed(m_sessions')) /\ IsFiniteSet(Listed(m))
    BY AccountAssumption, FS_Subset DEF Listed
  <2>2. /\ Active' = ActiveIn(m_sessions', q) /\ Active' \subseteq Listed(m_sessions')
        /\ X \subseteq Listed(m) /\ Active \subseteq Listed(m)
    BY DEF Active, ActiveIn, m
  <2>3. a \in Active' <=> ~wait
    BY <1>8, <1>9, <1>10 DEF Active, ActiveIn
  <2>4. \A b \in Listed(m) \ {a} : (b \in Active') <=> (b \in X)
    <3> SUFFICES ASSUME NEW b \in Listed(m) \ {a} PROVE (b \in Active') <=> (b \in X)
      OBVIOUS
    <3>1. m[b] # s /\ m_sessions'[b] = m[b] /\ b \in Listed(m_sessions')
      BY <1>3, <1>9 DEF Listed
    <3> QED BY <1>10, <2>2, <3>1 DEF ActiveIn
  <2>5. Active' \ {a} = X
    BY <1>9, <2>2, <2>4
  <2> QED BY <2>1, <2>2, <2>3, <2>5, FS_Subset
<1>18. /\ Cardinality(Active') \in Nat /\ Cardinality(X) \in Nat
       /\ Cardinality(Listed(m_sessions')) \in Nat
       /\ Cardinality(X) <= Cardinality(Active')
  BY <1>17, FS_CardinalityType, FS_Subset
<1>19. \/ OtherSessions(a) = Cardinality(Listed(m_sessions')) - 1
       \/ /\ OtherSessions(a) = Cardinality(Listed(m_sessions'))
          /\ old # NULL /\ old \in Queued
  BY <1>4, <1>9, LenProperties DEF OtherSessions, m, Contains, Queued, Range, IsQueueOf
<1>20. PlayerLimitHolds'
  <2> SUFFICES ASSUME Tolerance = 0, 0 \notin Limits, ~stopped
               PROVE  \E n \in Limits : Cardinality(PlayersInside') <= n
    BY <1>2 DEF PlayerLimitHolds
  <2>0. PlayersInside' = Active' \ Privileged /\ m_playerLimit # 0
    BY <1>4 DEF PlayersInside
  <2>1. CASE ~wait /\ a \notin Privileged
    <3>1. OtherSessions(a) < m_playerLimit
      BY <1>4, <1>18, <1>19, <2>1, <2>0, TimeAssumption DEF wait, MustWait, HasRecentlyDisconnected
    <3>2. Cardinality(PlayersInside') <= Cardinality(Listed(m_sessions'))
          /\ Cardinality(PlayersInside') \in Nat
      BY <1>17, <2>0, FS_Subset, FS_CardinalityType
    <3> QED BY <1>4, <1>18, <1>19, <3>1, <3>2
  <2>2. CASE wait \/ a \in Privileged
    <3>1. PlayersInside' \subseteq X
      BY <1>17, <2>0, <2>2
    <3>2. Cardinality(PlayersInside') <= Cardinality(X) /\ Cardinality(PlayersInside') \in Nat
      BY <1>17, <3>1, FS_Subset, FS_CardinalityType
    <3>3. CASE Cardinality(X) <= m_playerLimit
      BY <1>4, <1>18, <3>2, <3>3
    <3>4. CASE X = Active \ {a}
      <4>1. PlayersInside' \subseteq PlayersInside /\ IsFiniteSet(PlayersInside)
        BY <1>17, <2>0, <3>1, <3>4, FS_Difference DEF PlayersInside
      <4>2. Cardinality(PlayersInside') <= Cardinality(PlayersInside)
            /\ Cardinality(PlayersInside) \in Nat
        BY <4>1, FS_Subset, FS_CardinalityType
      <4>3. PICK n \in Limits : Cardinality(PlayersInside) <= n
        BY DEF IInv, PlayerLimitHolds
      <4> QED BY <3>2, <4>2, <4>3, LimitAssumption
    <3> QED BY <1>8, <2>0, <3>3, <3>4
  <2> QED BY <2>1, <2>2
<1>21. NoOneWaitsForAFreeSlot'
  <2> SUFFICES ASSUME q # <<>> PROVE \E n \in Limits : Cardinality(Active') >= n
    BY DEF NoOneWaitsForAFreeSlot
  <2>1. CASE st.queue # <<>>
    <3>1. PICK n \in Limits : Cardinality(X) >= n
      BY <1>8, <2>1
    <3> QED BY <1>18, <3>1, LimitAssumption
  <2>2. CASE st.queue = <<>>
    <3>1. wait
      BY <1>2, <2>2
    <3>2. X = Listed(m_sessions') \ {a}
      <4>1. Range(st.queue) = {}
        BY <2>2 DEF Range
      <4> QED BY <1>9, <4>1 DEF ActiveIn
    <3>3. Cardinality(X) = Cardinality(Listed(m_sessions')) - 1
      BY <1>9, <1>17, <3>2, FS_RemoveElement
    <3>4. OtherSessions(a) >= m_playerLimit
      BY <3>1 DEF wait, MustWait
    <3>5. CASE OtherSessions(a) = Cardinality(Listed(m_sessions')) - 1
      BY <1>4, <1>18, <3>3, <3>4, <3>5
    <3>6. CASE old # NULL /\ old \in Queued
      <4>1. m_QueuedPlayer # <<>>
        BY <3>6 DEF Queued, Range
      <4>2. PICK n \in Limits : Cardinality(Active) >= n
        BY <1>5, <4>1 DEF Filled, Active, m
      <4>3. Active \subseteq X
        BY <1>9, <3>2, <3>6 DEF Active, ActiveIn, m, Queued
      <4>4. Cardinality(Active) <= Cardinality(X) /\ Cardinality(Active) \in Nat
        BY <1>17, <4>3, FS_Subset, FS_CardinalityType
      <4> QED BY <1>18, <4>2, <4>4, LimitAssumption
    <3> QED BY <1>18, <1>19, <3>5, <3>6
  <2> QED BY <2>1, <2>2
<1> QED BY <1>11, <1>12, <1>13, <1>14, <1>15, <1>16, <1>20, <1>21 DEF IInv, Structure

-----------------------------------------------------------------------------
(* The queue is fair *)

\* r keeps the order of q: what was ahead in q of an entry other than gone, and is
\* still there, is ahead of it in r.
KeepsOrder(q, r, gone) ==
  \A s, t \in Range(q) : AheadIn(q, s, t) /\ s \in Range(r) /\ t # gone => AheadIn(r, s, t)

\* Where the entries of a queue of sessions are.
LEMMA Positions ==
  ASSUME NEW q \in Seq(Session)
  PROVE  Len(q) \in Nat /\ DOMAIN q = 1..Len(q) /\ Range(q) = {q[i] : i \in 1..Len(q)}
BY LenProperties DEF Range

LEMMA EraseKeepsOrder ==
  ASSUME NEW q \in Seq(Session), IsInjective(q), NEW k \in 1..Len(q)
  PROVE  KeepsOrder(q, RemoveAt(q, k), q[k])
<1> DEFINE r == RemoveAt(q, k)
           n == Len(q)
<1>1. /\ r \in Seq(Session) /\ Len(r) = n - 1
      /\ \A i \in 1..(n - 1) : r[i] = IF i < k THEN q[i] ELSE q[i+1]
  BY ErasedEntries
<1>2. n \in Nat /\ DOMAIN q = 1..n /\ DOMAIN r = 1..(n - 1)
  BY <1>1, Positions
<1>3. Range(r) = Range(q) \ {q[k]}
  BY EraseFromQueue
<1> HIDE DEF r, n
<1> SUFFICES ASSUME NEW s, NEW t, AheadIn(q, s, t), s \in Range(r), t # q[k]
             PROVE  AheadIn(r, s, t)
  BY DEF KeepsOrder, r
<1>4. PICK i, j \in 1..n : i < j /\ q[i] = s /\ q[j] = t
  BY <1>2 DEF AheadIn
<1>5. i # k /\ j # k /\ k \in 1..n
  BY <1>3, <1>4 DEF n
<1> DEFINE f(x) == IF x < k THEN x ELSE x - 1
<1>6. /\ f(i) \in 1..(n - 1) /\ f(j) \in 1..(n - 1) /\ f(i) < f(j)
      /\ r[f(i)] = s /\ r[f(j)] = t
  BY <1>1, <1>2, <1>4, <1>5
<1> QED BY <1>2, <1>6 DEF AheadIn

LEMMA PopKeepsOrder ==
  ASSUME NEW q \in Seq(Session), IsInjective(q), q # <<>>, NEW gone
  PROVE  KeepsOrder(q, Tail(q), gone)
<1> DEFINE r == Tail(q)
           n == Len(q)
<1>1. /\ r \in Seq(Session) /\ Len(r) = n - 1
      /\ \A i \in 1..(n - 1) : r[i] = q[i+1]
  BY HeadTailProperties
<1>2. n \in Nat /\ DOMAIN q = 1..n /\ DOMAIN r = 1..(n - 1) /\ Head(q) = q[1]
  BY <1>1, Positions
<1>3. Range(r) = Range(q) \ {q[1]}
  BY <1>2, PopFromQueue
<1> HIDE DEF r, n
<1> SUFFICES ASSUME NEW s, NEW t, AheadIn(q, s, t), s \in Range(r)
             PROVE  AheadIn(r, s, t)
  BY DEF KeepsOrder, r
<1>4. PICK i, j \in 1..n : i < j /\ q[i] = s /\ q[j] = t
  BY <1>2 DEF AheadIn
<1>5. i # 1
  BY <1>3, <1>4
<1>6. /\ i-1 \in 1..(n - 1) /\ j-1 \in 1..(n - 1) /\ i-1 < j-1
      /\ r[i-1] = s /\ r[j-1] = t
  BY <1>1, <1>2, <1>4, <1>5
<1> QED BY <1>2, <1>6 DEF AheadIn

LEMMA PushKeepsOrder ==
  ASSUME NEW q \in Seq(Session), NEW e \in Session, NEW gone
  PROVE  KeepsOrder(q, Append(q, e), gone)
<1> DEFINE r == Append(q, e)
           n == Len(q)
<1>1. r \in Seq(Session) /\ Len(r) = n + 1 /\ \A i \in 1..n : r[i] = q[i]
  BY AppendProperties
<1>2. n \in Nat /\ DOMAIN q = 1..n /\ DOMAIN r = 1..(n + 1)
  BY <1>1, Positions
<1> HIDE DEF r, n
<1> QED BY <1>1, <1>2 DEF KeepsOrder, AheadIn, r

\* Entries only leave from q to r and from r to u: the order carries over.
LEMMA OrderCarriesOver ==
  ASSUME NEW q, NEW r, NEW u, NEW gone,
         KeepsOrder(q, r, gone), KeepsOrder(r, u, gone),
         Range(q) \cap Range(u) \subseteq Range(r)
  PROVE  KeepsOrder(q, u, gone)
<1> SUFFICES ASSUME NEW s \in Range(q), NEW t \in Range(q),
                    AheadIn(q, s, t), s \in Range(u), t # gone
             PROVE  AheadIn(u, s, t)
  BY DEF KeepsOrder
<1>1. AheadIn(r, s, t)
  BY DEF KeepsOrder
<1>2. s \in Range(r) /\ t \in Range(r)
  BY <1>1 DEF AheadIn, Range
<1> QED BY <1>1, <1>2 DEF KeepsOrder

\* RemoveQueuedPlayer takes the session out and perhaps lets the head in: the
\* others keep their order, and no one passes a session that stays.
LEMMA RemovalIsFair ==
  ASSUME NEW st \in QueueStates, IsInjective(st.queue), NEW s, NEW size
  PROVE  LET r == RemoveQueuedPlayer(st, s, size)
         IN  /\ r \in QueueStates /\ IsInjective(r.queue)
             /\ KeepsOrder(st.queue, r.queue, s)
             /\ Range(r.queue) \subseteq Range(st.queue)
<1> DEFINE q == st.queue
           found == Contains(q, s)
           rest == IF found
                   THEN [queue |-> RemoveAt(q, GetQueuePos(q, s)), inQueue |-> st.inQueue \ {s}]
                   ELSE st
           left == Remaining(q, found, size)
           admit == (m_playerLimit = 0 \/ left < m_playerLimit) /\ rest.queue # <<>>
           r == RemoveQueuedPlayer(st, s, size)
<1>1. r = IF admit THEN AcceptFirst(rest) ELSE rest
  BY DEF RemoveQueuedPlayer
<1>2. q \in Seq(Session) /\ DOMAIN q = 1..Len(q) /\ Len(q) \in Nat
  BY Positions DEF QueueStates
<1>3. /\ rest \in QueueStates /\ IsInjective(rest.queue) /\ KeepsOrder(q, rest.queue, s)
      /\ Range(rest.queue) \subseteq Range(q)
  <2>1. CASE found
    <3>1. PICK j \in 1..Len(q) : q[j] = s
      BY <2>1 DEF Contains
    <3>2. q[j] = s /\ \A i \in 1..(j-1) : q[i] # s
      BY <1>2, <3>1 DEF IsInjective
    <3>3. GetQueuePos(q, s) \in 1..Len(q) /\ q[GetQueuePos(q, s)] = s
      BY <1>2, <3>1, <3>2 DEF GetQueuePos
    <3>4. KeepsOrder(q, RemoveAt(q, GetQueuePos(q, s)), s)
      BY <1>2, <3>3, EraseKeepsOrder
    <3> QED BY <2>1, <1>2, <3>3, <3>4, EraseFromQueue DEF QueueStates
  <2>2. CASE ~found
    BY <2>2 DEF QueueStates, KeepsOrder
  <2> QED BY <2>1, <2>2
<1> HIDE DEF rest, left, r
<1>4. CASE admit
  <2>1. rest.queue \in Seq(Session) /\ rest.queue # <<>> /\ rest.inQueue \in SUBSET Session
    BY <1>3, <1>4 DEF QueueStates
  <2>2. r = [queue |-> Tail(rest.queue), inQueue |-> rest.inQueue \ {Head(rest.queue)}]
    BY <1>1, <1>4 DEF AcceptFirst
  <2>3. /\ r.queue = Tail(rest.queue) /\ r \in QueueStates /\ IsInjective(r.queue)
        /\ Range(r.queue) \subseteq Range(rest.queue)
    BY <1>3, <2>1, <2>2, PopFromQueue DEF QueueStates
  <2>4. KeepsOrder(rest.queue, r.queue, s)
    BY <1>3, <2>1, <2>3, PopKeepsOrder
  <2>5. KeepsOrder(q, r.queue, s)
    BY <1>3, <2>3, <2>4, OrderCarriesOver
  <2> QED BY <1>3, <2>3, <2>5 DEF r
<1>5. CASE ~admit
  BY <1>1, <1>3, <1>5 DEF r
<1> QED BY <1>4, <1>5

FairStep ==
  \A s, t \in Queued : AheadIn(m_QueuedPlayer, s, t) /\ s \in Queued' /\ Alive(t)'
                         => AheadIn(m_QueuedPlayer, s, t)'

\* A step that keeps the order, and frees the session it takes out, is fair.
LEMMA OrderIsFair ==
  ASSUME NEW gone, KeepsOrder(m_QueuedPlayer, m_QueuedPlayer', gone),
         gone \in Session => ~Alive(gone)', Typed
  PROVE  FairStep
<1>1. Queued \subseteq Session
  BY RangeOfSeq DEF Queued, Typed
<1> QED BY <1>1 DEF FairStep, KeepsOrder, Queued, AheadIn

LEMMA DropSessionIsFair ==
  ASSUME IInv, NEW a \in Account, DropSession(a)
  PROVE  FairStep
<1>0. PICK s : s = m_sessions[a]
  OBVIOUS
<1> DEFINE N == SessionCount(m_sessions)
           st1 == RemoveQueuedPlayer(QueueState, s, N)
           st2 == RemoveQueuedPlayer(st1, s, N)
<1>1. Structure /\ Typed /\ PhaseSound /\ phase # "gone"
  BY DEF IInv, Structure, DropSession
<1>2. /\ QueueState \in QueueStates /\ IsInjective(QueueState.queue)
      /\ QueueState.queue = m_QueuedPlayer
  BY <1>1, CurrentQueue DEF IsQueueOf
<1> HIDE DEF st1, st2
<1>3. st1 \in QueueStates /\ IsInjective(st1.queue) /\ KeepsOrder(m_QueuedPlayer, st1.queue, s)
  BY <1>2, RemovalIsFair DEF st1
<1>4. KeepsOrder(st1.queue, st2.queue, s) /\ Range(st2.queue) \subseteq Range(st1.queue)
  BY <1>3, RemovalIsFair DEF st2
<1>5. KeepsOrder(m_QueuedPlayer, m_QueuedPlayer', s)
  <2>1. m_QueuedPlayer' = st2.queue
    BY <1>0 DEF DropSession, Leave, st1, st2
  <2> QED BY <1>3, <1>4, <2>1, OrderCarriesOver
<1>6. s \in Session => ~Alive(s)'
  BY <1>0, <1>1 DEF DropSession, Alive, Typed, Playing
<1> QED BY <1>1, <1>5, <1>6, OrderIsFair

LEMMA AddSessionIsFair ==
  ASSUME IInv, AddSession_
  PROVE  FairStep
<1>0. PICK old : old = m_sessions[account[Head(addSessQueue)]]
  OBVIOUS
<1> DEFINE s == Head(addSessQueue)
           st == Displace(old)
<1>1. Structure /\ Typed /\ phase # "gone" /\ addSessQueue # <<>>
  BY DEF IInv, Structure, AddSession_
<1>2. /\ QueueState \in QueueStates /\ IsInjective(QueueState.queue)
      /\ QueueState.queue = m_QueuedPlayer
  BY <1>1, CurrentQueue DEF IsQueueOf
<1>3. s \in Session
  BY <1>1, HeadTailProperties DEF Typed
<1>4. m_QueuedPlayer' \in {Append(st.queue, s), st.queue}
  BY <1>0 DEF AddSession_
<1>5. /\ st \in QueueStates /\ IsInjective(st.queue)
      /\ KeepsOrder(m_QueuedPlayer, st.queue, old)
      /\ Range(st.queue) \subseteq Queued
  <2>1. CASE old = NULL
    BY <1>2, <2>1 DEF Displace, KeepsOrder, Queued
  <2>2. CASE old # NULL
    BY <1>2, <2>2, RemovalIsFair DEF Displace, Queued
  <2> QED BY <2>1, <2>2
<1>6. old \in Session => ~Alive(old)'
  BY <1>0, <1>1, SessionAssumption DEF AddSession_, StageWithout, Alive, Typed, Playing
<1>7. s \notin Queued
  BY <1>1, PopFromQueue DEF Structure, Typed, AddQueueSound, FlagSound
<1> HIDE DEF s, st
<1>8. KeepsOrder(m_QueuedPlayer, m_QueuedPlayer', old)
  <2>1. CASE m_QueuedPlayer' = st.queue
    BY <1>5, <2>1
  <2>2. CASE m_QueuedPlayer' = Append(st.queue, s)
    <3>1. st.queue \in Seq(Session)
      BY <1>5 DEF QueueStates
    <3>2. KeepsOrder(st.queue, Append(st.queue, s), old)
      BY <1>3, <3>1, PushKeepsOrder
    <3>3. Range(Append(st.queue, s)) = Range(st.queue) \cup {s}
      BY <1>3, <1>5, <1>7, <3>1, PushToQueue
    <3>4. Range(m_QueuedPlayer) \cap Range(Append(st.queue, s)) \subseteq Range(st.queue)
      BY <1>7, <3>3 DEF Queued
    <3> QED BY <1>5, <2>2, <3>2, <3>4, OrderCarriesOver
  <2> QED BY <1>4, <2>1, <2>2
<1> QED BY <1>1, <1>6, <1>8, OrderIsFair

-----------------------------------------------------------------------------
(* Theorems *)

LEMMA NextIInv == IInv /\ [Next]_vars => IInv'
<1> SUFFICES ASSUME IInv, [Next]_vars PROVE IInv'
  OBVIOUS
<1>1. ASSUME NEW s \in Session, NEW a \in Account, HandleAuthSession(s, a) PROVE IInv'
  BY <1>1, HandleAuthSessionStep
<1>2. ASSUME NEW s \in Session, CloseSocket(s) PROVE IInv'
  BY <1>2, CloseSocketStep
<1>3. CASE BeginTick \/ EndAdding \/ EndTick \/ Tick \/ \E n \in Limits : SetPlayerAmountLimit(n)
  BY <1>3, PlainStep
<1>4. CASE RefuseSession
  BY <1>4, RefuseSessionStep
<1>5. CASE AddSession_
  BY <1>5, AddSessionStep
<1>6. ASSUME NEW a \in Account, KeepSession(a) PROVE IInv'
  BY <1>6, KeepSessionStep
<1>7. ASSUME NEW a \in Account, DropSession(a) PROVE IInv'
  BY <1>7, DropSessionStep
<1>8. CASE KickAll
  BY <1>8, KickAllStep
<1>9. CASE DestroyWorld
  BY <1>9, DestroyWorldStep
<1>10. CASE UNCHANGED vars
  <2>1. Typed'
    BY <1>10 DEF vars, session, world, IInv, Structure, Typed
  <2>2. PlayerLimitHolds' /\ NoOneWaitsForAFreeSlot'
    BY <1>10 DEF vars, session, world, IInv, PlayerLimitHolds, NoOneWaitsForAFreeSlot, PlayersInside,
         Active, ActiveIn, Listed
  <2>3. AddQueueSound' /\ ListSound' /\ QueueSound' /\ FlagSound' /\ CharacterSound' /\ PhaseSound'
    BY <1>10 DEF vars, session, world, IInv, Structure, AddQueueSound, ListSound, QueueSound,
         FlagSound, CharacterSound, PhaseSound, Listed, Queued, Alive
  <2> QED BY <2>1, <2>2, <2>3 DEF IInv, Structure
<1> QED
  BY <1>1, <1>2, <1>3, <1>4, <1>5, <1>6, <1>7, <1>8, <1>9, <1>10 DEF Next, WorldStep

THEOREM Inductive == Spec => []IInv
<1>1. Init => IInv
  BY InitIInv
<1>2. IInv /\ [Next]_vars => IInv'
  BY NextIInv
<1> QED BY <1>1, <1>2, PTL DEF Spec

\* Types hold and GetActiveSessionCount never wraps (World.h:533): the queue is
\* never longer than the map.
THEOREM TypeCorrect == Spec => []TypeOK
<1>1. IInv => TypeOK
  <2> SUFFICES ASSUME IInv, phase # "gone"
               PROVE  ActiveCount(m_sessions, m_QueuedPlayer) \in Nat
    BY DEF IInv, Structure, TypeOK
  <2> QED BY CurrentQueue, CountActive DEF IInv, ActiveCount, SessionCount
<1> QED BY <1>1, Inductive, PTL

\* The login queue never holds a freed, replaced or duplicate session.
THEOREM QueueIsSound == Spec => []QueueHoldsListedSessions
<1>1. IInv => QueueHoldsListedSessions
  BY DEF IInv, Structure, QueueSound, ListSound, QueueHoldsListedSessions, IsListed, Listed
<1> QED BY <1>1, Inductive, PTL

\* m_inQueue is set exactly for the sessions that wait (until shutdown).
THEOREM FlagIsAccurate == Spec => []QueueFlagIsAccurate
<1>1. IInv => QueueFlagIsAccurate
  BY DEF IInv, Structure, FlagSound, QueueFlagIsAccurate
<1> QED BY <1>1, Inductive, PTL

\* An account never has two sessions with a character loading or in the world.
THEOREM OneCharacter == Spec => []OneCharacterPerAccount
<1>1. IInv => OneCharacterPerAccount
  <2> SUFFICES ASSUME IInv, NEW s \in Session, NEW t \in Session,
                      stage[s] \in {"loading", "ingame"}, stage[t] \in {"loading", "ingame"},
                      account[s] = account[t]
               PROVE  s = t
    BY DEF OneCharacterPerAccount
  <2>1. PICK a \in Account : m_sessions[a] = s
    BY DEF IInv, Structure, CharacterSound
  <2>2. PICK b \in Account : m_sessions[b] = t
    BY DEF IInv, Structure, CharacterSound
  <2>3. account[s] = a /\ account[t] = b
    BY <2>1, <2>2, SessionAssumption DEF IInv, Structure, ListSound, Listed
  <2> QED BY <2>1, <2>2, <2>3
<1> QED BY <1>1, Inductive, PTL

\* Players that are not waiting never outnumber the largest limit that was set.
THEOREM LimitHolds == Spec => []PlayerLimitHolds
<1>1. IInv => PlayerLimitHolds
  BY DEF IInv
<1> QED BY <1>1, Inductive, PTL

\* Someone waits only while the active sessions, a game master's too, fill the smallest
\* limit set.
THEOREM NoFreeSlot == Spec => []NoOneWaitsForAFreeSlot
<1>1. IInv => NoOneWaitsForAFreeSlot
  BY DEF IInv
<1> QED BY <1>1, Inductive, PTL

\* Until a kicked session is freed it stays listed, with its socket closed, and is still to be
\* visited.
AwaitsRemoval(s) ==
  /\ phase \in {"adding", "updating"}
  /\ s \in closed
  /\ account[s] \in Account
  /\ m_sessions[account[s]] = s
  /\ (phase = "updating") => (account[s] \in pending)

KickSound == \A s \in kicked : stage[s] = "deleted" \/ AwaitsRemoval(s)

LEMMA KickAllIsSound ==
  ASSUME IInv, KickAll
  PROVE  KickSound'
<1> SUFFICES ASSUME NEW s \in kicked' PROVE AwaitsRemoval(s)'
  BY DEF KickSound
<1>1. PICK a \in Account : m_sessions[a] = s /\ s \in Session
  BY DEF KickAll
<1>2. a \in Listed(m_sessions) /\ account[s] = a
  BY <1>1, SessionAssumption DEF Listed, IInv, Structure, ListSound
<1>3. s \in closed'
  BY <1>1, <1>2 DEF KickAll, Kicked
<1>4. m_sessions' = m_sessions /\ account' = account /\ phase' = "adding"
  BY DEF KickAll
<1> QED BY <1>1, <1>2, <1>3, <1>4 DEF AwaitsRemoval

LEMMA KickedStaySound ==
  ASSUME IInv, KickSound, Next, ~KickAll
  PROVE  KickSound'
<1> SUFFICES ASSUME NEW t \in kicked' PROVE (stage[t] = "deleted" \/ AwaitsRemoval(t))'
  BY DEF KickSound
<1>1. /\ t \in kicked /\ t \in Session
      /\ stage[t] = "deleted" \/ AwaitsRemoval(t)
      /\ stage \in [Session -> Stage] /\ account \in [Session -> Account \cup {NULL}]
      /\ m_sessions \in [Account -> Session \cup {NULL}]
  <2>1. kicked' = kicked
    BY DEF Next, WorldStep, BeginTick, RefuseSession, AddSession_, EndAdding, KeepSession, DropSession,
           EndTick, DestroyWorld, HandleAuthSession, CloseSocket, SetPlayerAmountLimit, Tick
  <2> QED BY <2>1 DEF KickSound, IInv, Structure, Typed
<1>2. ASSUME NEW s \in Session, NEW a \in Account, HandleAuthSession(s, a)
      PROVE  (stage[t] = "deleted" \/ AwaitsRemoval(t))'
  <2>1. s # t
    BY <1>1, <1>2, SessionAssumption
       DEF HandleAuthSession, AwaitsRemoval, IInv, Structure, ListSound, Listed, Alive, Playing
  <2> QED BY <1>1, <1>2, <2>1 DEF HandleAuthSession, AwaitsRemoval, world
<1>3. ASSUME NEW s \in Session, CloseSocket(s)
      PROVE  (stage[t] = "deleted" \/ AwaitsRemoval(t))'
  BY <1>1, <1>3 DEF CloseSocket, AwaitsRemoval, world
<1>4. CASE RefuseSession
  BY <1>1, <1>4 DEF RefuseSession, AwaitsRemoval, world
<1>5. CASE AddSession_
  BY <1>1, <1>5, SessionAssumption DEF AddSession_, StageWithout, AwaitsRemoval
<1>6. CASE EndAdding
  BY <1>1, <1>6, SessionAssumption DEF EndAdding, AwaitsRemoval, Listed, session, world
<1>7. ASSUME NEW a \in Account, KeepSession(a)
      PROVE  (stage[t] = "deleted" \/ AwaitsRemoval(t))'
  <2>1. CASE m_sessions[a] = t
    BY <1>1, <1>7, <2>1, SessionAssumption
       DEF KeepSession, AwaitsRemoval, IInv, Structure, ListSound, Listed, Alive, Playing
  <2>2. CASE m_sessions[a] # t
    BY <1>1, <1>7, <2>2 DEF KeepSession, AwaitsRemoval, world
  <2> QED BY <2>1, <2>2
<1>8. ASSUME NEW a \in Account, DropSession(a)
      PROVE  (stage[t] = "deleted" \/ AwaitsRemoval(t))'
  BY <1>1, <1>8 DEF DropSession, AwaitsRemoval
<1>9. CASE DestroyWorld
  BY <1>1, <1>9 DEF DestroyWorld, AwaitsRemoval
<1>10. CASE BeginTick \/ EndTick \/ Tick \/ \E n \in Limits : SetPlayerAmountLimit(n)
  BY <1>1, <1>10 DEF BeginTick, EndTick, Tick, SetPlayerAmountLimit, AwaitsRemoval, session, world
<1> QED
  BY <1>2, <1>3, <1>4, <1>5, <1>6, <1>7, <1>8, <1>9, <1>10 DEF Next, WorldStep

\* Every session that was listed when the loop ended (KickAll, World.cpp:2184) is freed by
\* the one update that follows, whatever is still added in it.
THEOREM KickedAreFreed == Spec => []KickedAreRemoved
<1>1. Init => KickSound
  BY DEF Init, KickSound
<1>2. IInv /\ KickSound /\ [Next]_vars => KickSound'
  <2>1. ASSUME IInv, KickSound, UNCHANGED vars PROVE KickSound'
    BY <2>1 DEF vars, session, world, KickSound, AwaitsRemoval
  <2> QED BY <2>1, KickAllIsSound, KickedStaySound
<1>3. KickSound => KickedAreRemoved
  BY DEF KickSound, AwaitsRemoval, KickedAreRemoved
<1> QED BY <1>1, <1>2, <1>3, Inductive, PTL DEF Spec

\* Two waiting sessions never change places, and whoever is let in leaves nobody
\* ahead of it behind.
THEOREM FairQueue == Spec => QueueIsFair
<1>1. IInv /\ [Next]_vars => [FairStep]_vars
  <2> SUFFICES ASSUME IInv, Next PROVE FairStep
    BY DEF vars
  <2>1. ASSUME NEW a \in Account, DropSession(a) PROVE FairStep
    BY <2>1, DropSessionIsFair
  <2>2. CASE AddSession_
    BY <2>2, AddSessionIsFair
  <2>3. CASE KickAll
    <3>1. Queued' = {}
      BY <2>3 DEF KickAll, Queued, Range
    <3> QED BY <3>1 DEF FairStep
  <2>4. CASE UNCHANGED m_QueuedPlayer
    BY <2>4 DEF FairStep, AheadIn
  <2> QED
    BY <2>1, <2>2, <2>3, <2>4 DEF Next, WorldStep, BeginTick, RefuseSession, EndAdding, KeepSession,
         EndTick, DestroyWorld, HandleAuthSession, CloseSocket, SetPlayerAmountLimit, Tick, world
<1> QED BY <1>1, Inductive, PTL DEF Spec, QueueIsFair, FairStep
=============================================================================
