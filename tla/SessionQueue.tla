---------------------------- MODULE SessionQueue ----------------------------
(***************************************************************************)
(* Admission of client sessions to the world: game/World/World.cpp.        *)
(*                                                                         *)
(* Network threads authenticate a client, create a WorldSession and hand   *)
(* it to the world thread through addSessQueue.  Once per tick the world   *)
(* thread (World::UpdateSessions) registers the new sessions, replaces an  *)
(* older session of the same account, puts a player over the limit in the  *)
(* login queue m_QueuedPlayer, and drops the sessions whose socket is gone,*)
(* which lets the head of the queue in.                                    *)
(*                                                                         *)
(* A session object is a member of Session, used once.  Session, MaxTime   *)
(* and Limits are the bounds of the model: the number of logins, of clock  *)
(* ticks and the values an operator may give the player limit.             *)
(***************************************************************************)
EXTENDS Integers, FiniteSets, Sequences, SequencesExt

CONSTANTS Account,        \* account ids
          Session,        \* WorldSession objects, each allocated at most once
          Privileged,     \* accounts whose security level is above SEC_PLAYER
          Limits,         \* the values m_playerLimit may take
          Tolerance,      \* CONFIG_INTERVAL_DISCONNECT_TOLERANCE, 0 = off
          MaxTime,        \* bound on the clock
          NULL

ASSUME AccountAssumption == IsFiniteSet(Account) /\ Privileged \subseteq Account
ASSUME SessionAssumption == NULL \notin Session
ASSUME LimitAssumption   == Limits \subseteq Nat
ASSUME TimeAssumption    == Tolerance \in Nat /\ MaxTime \in Nat

VARIABLES
  stage,            \* life of a session: "none" before HandleAuthSession,
                    \* "select" (character screen), "loading" (m_playerLoading),
                    \* "ingame" (_player set), "deleted" once freed
  account,          \* _accountId of an allocated session
  closed,           \* sessions whose socket is closed
  inQueue,          \* sessions whose m_inQueue flag is set
  addSessQueue,     \* sessions handed over by the network threads
  m_sessions,       \* the session map: account -> session
  m_QueuedPlayer,   \* the login queue
  m_playerLimit,
  m_disconnects,    \* when an account's connection was last lost
  now,              \* time(NULL)
  phase,            \* where the world thread is
  pending,          \* accounts UpdateSessions has still to visit this tick
  stopped,          \* World::m_stopEvent was seen
  kicked            \* history: the sessions listed when KickAll ran

session == <<stage, account, closed, inQueue>>
world   == <<m_sessions, m_QueuedPlayer, m_disconnects>>
vars    == <<session, world, addSessQueue, m_playerLimit, now, phase, pending, stopped,
             kicked>>

Stage   == {"none", "select", "loading", "ingame", "deleted"}
Playing == {"select", "loading", "ingame"}
Phase   == {"idle", "adding", "updating", "down", "gone"}
Never   == -1

\* GetActiveAndQueuedSessionCount and GetActiveSessionCount
Listed(m)         == {a \in Account : m[a] # NULL}
SessionCount(m)   == Cardinality(Listed(m))
ActiveCount(m, q) == SessionCount(m) - Len(q)

Typed ==
  /\ stage \in [Session -> Stage]
  /\ account \in [Session -> Account \cup {NULL}]
  /\ closed \in SUBSET Session
  /\ inQueue \in SUBSET Session
  /\ addSessQueue \in Seq(Session)
  /\ m_sessions \in [Account -> Session \cup {NULL}]
  /\ m_QueuedPlayer \in Seq(Session)
  /\ m_playerLimit \in Limits
  /\ m_disconnects \in [Account -> Int]
  /\ now \in Nat
  /\ phase \in Phase
  /\ pending \in SUBSET Account
  /\ stopped \in BOOLEAN
  /\ kicked \in SUBSET Session

\* Types, and the unsigned subtraction in GetActiveSessionCount never wraps.
TypeOK ==
  /\ Typed
  /\ (phase # "gone") => (ActiveCount(m_sessions, m_QueuedPlayer) \in Nat)

Alive(s) == stage[s] \in Playing

Init ==
  /\ stage = [s \in Session |-> "none"]
  /\ account = [s \in Session |-> NULL]
  /\ closed = {}
  /\ inQueue = {}
  /\ addSessQueue = <<>>
  /\ m_sessions = [a \in Account |-> NULL]
  /\ m_QueuedPlayer = <<>>
  /\ m_playerLimit \in Limits
  /\ m_disconnects = [a \in Account |-> Never]
  /\ now = 0
  /\ phase = "idle"
  /\ pending = {}
  /\ stopped = FALSE
  /\ kicked = {}

-----------------------------------------------------------------------------
(* Network threads *)

\* The end of a successful CMSG_AUTH_SESSION: a new session, not yet listed.
HandleAuthSession(s, a) ==
  /\ phase # "gone"
  /\ stage[s] = "none"
  /\ stage' = [stage EXCEPT ![s] = "select"]
  /\ account' = [account EXCEPT ![s] = a]
  /\ addSessQueue' = Append(addSessQueue, s)
  /\ UNCHANGED <<closed, inQueue, world, m_playerLimit, now, phase, pending,
                 stopped, kicked>>

\* The peer hangs up, a write fails, or the world kicks the player (a GM
\* command, a ban): KickPlayer does no more than close the socket.
CloseSocket(s) ==
  /\ phase # "gone"
  /\ Alive(s) /\ s \notin closed
  /\ closed' = closed \cup {s}
  /\ UNCHANGED <<stage, account, inQueue, world, addSessQueue, m_playerLimit,
                 now, phase, pending, stopped, kicked>>

-----------------------------------------------------------------------------
(* World thread *)

\* The number of active sessions RemoveQueuedPlayer compares with the limit:
\* `size', m_sessions.size(), still counts the session that leaves.
\* Mutants: the leaving session is always, or never, taken off.
RemainingAlwaysLess(q, found, size) == size - Len(q) - 1
RemainingNeverLess(q, found, size)  == size - Len(q)
Remaining(q, found, size) ==
  LET active == size - Len(q)
  IN  IF ~found /\ active > 0 THEN active - 1 ELSE active

\* Accept the first in the queue.
\* Mutants: its m_inQueue flag stays on; the last is accepted instead.
AcceptKeepsFlag(st) == [queue |-> Tail(st.queue), inQueue |-> st.inQueue]
AcceptLast(st)      == [queue |-> Front(st.queue), inQueue |-> st.inQueue \ {Last(st.queue)}]
AcceptFirst(st)     == [queue |-> Tail(st.queue), inQueue |-> st.inQueue \ {Head(st.queue)}]

\* The first position of a session in the queue (RemoveQueuedPlayer walks the
\* queue the same way).
GetQueuePos(q, sess) ==
  CHOOSE i \in DOMAIN q : q[i] = sess /\ \A j \in 1..(i-1) : q[j] # sess

\* Leaves the queue if it is in it, and lets the head in if that frees a slot.
RemoveQueuedPlayer(st, sess, size) ==
  LET found    == Contains(st.queue, sess)
      sessions == Remaining(st.queue, found, size)
      rest     == IF found
                  THEN [queue   |-> RemoveAt(st.queue, GetQueuePos(st.queue, sess)),
                        inQueue |-> st.inQueue \ {sess}]
                  ELSE st
      admit    == (m_playerLimit = 0 \/ sessions < m_playerLimit) /\ rest.queue # <<>>
  IN  IF admit THEN AcceptFirst(rest) ELSE rest

QueueState == [queue |-> m_QueuedPlayer, inQueue |-> inQueue]

\* HasRecentlyDisconnected: difftime(stored, now) < tolerance, in this order; the
\* branch that erases an entry is never taken, as no entry lies in the future.
Recent(stored) == stored # Never /\ stored - now < Tolerance
HasRecentlyDisconnected(a) == Tolerance > 0 /\ Recent(m_disconnects[a])

BeginTick ==
  /\ phase = "idle" /\ ~stopped
  /\ phase' = "adding"
  /\ UNCHANGED <<session, world, addSessQueue, m_playerLimit, now, pending,
                 stopped, kicked>>

\* AddSession_ of a session whose account is still loading a character: the
\* new session is kicked and freed, the old one is left alone.
RefuseSession ==
  /\ phase = "adding" /\ addSessQueue # <<>>
  /\ LET s   == Head(addSessQueue)
         old == m_sessions[account[s]]
     IN  /\ old # NULL
         /\ stage[old] = "loading"
         /\ stage' = [stage EXCEPT ![s] = "deleted"]
         /\ closed' = closed \cup {s}
  /\ addSessQueue' = Tail(addSessQueue)
  /\ UNCHANGED <<account, inQueue, world, m_playerLimit, now, phase, pending,
                 stopped, kicked>>

\* What AddSession_ does with the older session of the account, if any: out of
\* the queue (which may admit the head) and freed, its player logged out.
DisplaceLeavesQueue(old) == QueueState
Displace(old) ==
  IF old = NULL THEN QueueState
  ELSE RemoveQueuedPlayer(QueueState, old, SessionCount(m_sessions))

StageKickedOnly(old) == stage
StageWithout(old) == IF old = NULL THEN stage ELSE [stage EXCEPT ![old] = "deleted"]

\* The other sessions AddSession_ counts against the limit: a reconnecting
\* session that was queued still counts itself.
OtherSessions(a) ==
  LET old  == m_sessions[a]
      size == Cardinality(Listed(m_sessions) \cup {a})
  IN  IF old # NULL /\ Contains(m_QueuedPlayer, old) THEN size ELSE size - 1

\* Mutant: one player too many.
MustWaitOffByOne(a) ==
  /\ m_playerLimit > 0
  /\ OtherSessions(a) > m_playerLimit
  /\ a \notin Privileged
  /\ ~HasRecentlyDisconnected(a)

MustWait(a) ==
  /\ m_playerLimit > 0
  /\ OtherSessions(a) >= m_playerLimit
  /\ a \notin Privileged
  /\ ~HasRecentlyDisconnected(a)

\* AddSession_ of any other session: it is listed, and it is queued or let in.
AddSession_ ==
  /\ phase = "adding" /\ addSessQueue # <<>>
  /\ LET s    == Head(addSessQueue)
         a    == account[s]
         old  == m_sessions[a]
         st   == Displace(old)
         wait == MustWait(a)
     IN  /\ (old # NULL) => (stage[old] # "loading")
         /\ stage' = StageWithout(old)
         /\ closed' = IF old = NULL THEN closed ELSE closed \cup {old}
         /\ m_sessions' = [m_sessions EXCEPT ![a] = s]
         /\ m_QueuedPlayer' = IF wait THEN Append(st.queue, s) ELSE st.queue
         /\ inQueue' = IF wait THEN st.inQueue \cup {s} ELSE st.inQueue
  /\ addSessQueue' = Tail(addSessQueue)
  /\ UNCHANGED <<account, m_disconnects, m_playerLimit, now, phase, pending,
                 stopped, kicked>>

EndAdding ==
  /\ phase = "adding" /\ addSessQueue = <<>>
  /\ phase' = "updating"
  /\ pending' = Listed(m_sessions)
  /\ UNCHANGED <<session, world, addSessQueue, m_playerLimit, now, stopped, kicked>>

\* WorldSession::Update returned true.  Its packets and query callbacks may log
\* a character in and out any number of times, but not while it is queued.
KeepSession(a) ==
  /\ phase = "updating" /\ a \in pending
  /\ pending' = pending \ {a}
  /\ LET s == m_sessions[a]
     IN  /\ s \notin closed
         /\ \E g \in Playing :
              /\ (s \in inQueue) => (g = stage[s])
              /\ stage' = [stage EXCEPT ![s] = g]
  /\ UNCHANGED <<account, closed, inQueue, world, addSessQueue, m_playerLimit, now, phase,
                 stopped, kicked>>

\* WorldSession::Update returned false: the socket is closed, or Update closed
\* it itself (the connection is idle, which a queued one never is; a handler
\* kicked the player).  Mutant: a queued session is never dropped.
DroppableActiveOnly(s) == s \notin inQueue
Droppable(s) == s \in closed \/ s \notin inQueue

\* UpdateSessions then calls RemoveQueuedPlayer twice on the session.
\* Mutant: it does not call it.
LeaveSkipped(s) == QueueState
Leave(s) ==
  LET size == SessionCount(m_sessions)
  IN  RemoveQueuedPlayer(RemoveQueuedPlayer(QueueState, s, size), s, size)

\* The session leaves the queue and the map and is freed.
DropSession(a) ==
  /\ phase = "updating" /\ a \in pending
  /\ pending' = pending \ {a}
  /\ LET s  == m_sessions[a]
         st == Leave(s)
     IN  /\ Droppable(s)
         /\ closed' = closed \cup {s}
         /\ m_QueuedPlayer' = st.queue
         /\ inQueue' = st.inQueue
         /\ m_disconnects' = IF ~Contains(m_QueuedPlayer, s) /\ Tolerance > 0
                             THEN [m_disconnects EXCEPT ![a] = now]
                             ELSE m_disconnects
         /\ stage' = [stage EXCEPT ![s] = "deleted"]
         /\ m_sessions' = [m_sessions EXCEPT ![a] = NULL]
  /\ UNCHANGED <<account, addSessQueue, m_playerLimit, now, phase, stopped, kicked>>

\* The tick ends; after KickAll it was the last.
EndTick ==
  /\ phase = "updating" /\ pending = {}
  /\ phase' = IF stopped THEN "down" ELSE "idle"
  /\ UNCHANGED <<session, world, addSessQueue, m_playerLimit, now, pending,
                 stopped, kicked>>

\* An operator's `server plimit', typed at the console (between ticks) or sent
\* by a GM's client (while his session is updated).
SetPlayerAmountLimit(n) ==
  /\ phase \in {"idle", "updating"} /\ n # m_playerLimit
  /\ m_playerLimit' = n
  /\ UNCHANGED <<session, world, addSessQueue, now, phase, pending, stopped, kicked>>

\* The sessions KickAll kicks, waiting ones too.  Mutant: those with a player.
HasPlayer(a)   == stage[m_sessions[a]] = "ingame"
KickedPlaying == {m_sessions[a] : a \in {b \in Listed(m_sessions) : HasPlayer(b)}}
Kicked        == {m_sessions[a] : a \in Listed(m_sessions)}

\* World::IsStopped ended the loop: KickAll empties the queue and closes every
\* listed socket, then UpdateSessions runs one last time.
KickAll ==
  /\ phase = "idle" /\ ~stopped
  /\ stopped' = TRUE
  /\ phase' = "adding"
  /\ m_QueuedPlayer' = <<>>
  /\ closed' = closed \cup Kicked
  /\ kicked' = {s \in Session : \E a \in Account : m_sessions[a] = s}
  /\ UNCHANGED <<stage, account, inQueue, addSessQueue, m_sessions, m_disconnects,
                 m_playerLimit, now, pending>>

\* ~World frees the sessions still listed, but not those left in addSessQueue.
DestroyWorld ==
  /\ phase = "down"
  /\ phase' = "gone"
  /\ stage' = [s \in Session |->
                 IF \E a \in Account : m_sessions[a] = s THEN "deleted" ELSE stage[s]]
  /\ closed' = closed \cup {m_sessions[a] : a \in Listed(m_sessions)}
  /\ m_sessions' = [a \in Account |-> NULL]
  /\ UNCHANGED <<account, inQueue, m_QueuedPlayer, m_disconnects,
                 addSessQueue, m_playerLimit, now, pending, stopped, kicked>>

Tick ==
  /\ now < MaxTime /\ phase # "gone"
  /\ now' = now + 1
  /\ UNCHANGED <<session, world, addSessQueue, m_playerLimit, phase, pending,
                 stopped, kicked>>

\* One iteration of the world thread
WorldStep ==
  \/ BeginTick \/ RefuseSession \/ AddSession_ \/ EndAdding
  \/ \E a \in Account : KeepSession(a) \/ DropSession(a)
  \/ EndTick \/ DestroyWorld

Next ==
  \/ WorldStep
  \/ \E s \in Session, a \in Account : HandleAuthSession(s, a)
  \/ \E s \in Session : CloseSocket(s)
  \/ \E n \in Limits : SetPlayerAmountLimit(n)
  \/ KickAll
  \/ Tick

Spec     == Init /\ [][Next]_vars
FairSpec == Spec /\ WF_vars(WorldStep)

-----------------------------------------------------------------------------
(* Safety *)

Queued         == Range(m_QueuedPlayer)
IsListed(s)    == account[s] \in Account /\ m_sessions[account[s]] = s
ActiveIn(m, q) == {a \in Listed(m) : m[a] \notin Range(q)}
Active         == ActiveIn(m_sessions, m_QueuedPlayer)
PlayersInside  == Active \ Privileged

\* The queue holds no session twice and none that was freed or replaced: the
\* world thread dereferences every entry when it updates the queue positions
\* (~World leaves the queue as it is: nothing reads it any more).
QueueHoldsListedSessions ==
  /\ \A s \in Queued : phase = "gone" \/ (Alive(s) /\ IsListed(s))
  /\ IsInjective(m_QueuedPlayer)

\* Until shutdown, a listed session ignores the packets of an authenticated
\* client (m_inQueue) exactly while it is waiting: no one is let in with the
\* flag left on, no one waits with the flag off.
QueueFlagIsAccurate ==
  \A a \in Listed(m_sessions) :
    /\ (m_sessions[a] \in Queued) => (m_sessions[a] \in inQueue)
    /\ (m_sessions[a] \in inQueue) => (m_sessions[a] \in Queued \/ stopped)

\* With no tolerance for reconnects, until shutdown, the players who are not waiting never
\* outnumber the limit (the largest limit set, if operators change it).
PlayerLimitHolds ==
  (Tolerance = 0 /\ 0 \notin Limits /\ ~stopped)
    => \E n \in Limits : Cardinality(PlayersInside) <= n

\* Nobody waits while there is a free slot as the code counts slots: with a constant
\* limit someone is queued only if as many sessions are active (with a changing one,
\* as many as the smallest).  A game master's session takes a slot like any other,
\* which is not what the configuration file says (PrivilegedTakeNoSlot).
NoOneWaitsForAFreeSlot ==
  (m_QueuedPlayer # <<>> /\ phase # "gone")
    => \E n \in Limits : Cardinality(Active) >= n

\* What worldserver.conf.dist:173 says of PlayerLimit: the maximum number of players
\* in the world, excluding moderators, game masters and administrators.  So one waits
\* only for players, never for them.
PrivilegedTakeNoSlot ==
  (m_QueuedPlayer # <<>> /\ phase # "gone")
    => \E n \in Limits : Cardinality(PlayersInside) >= n

\* What KickAll says of the sessions it kicks, that they are removed in the next update
\* tick: before the world is taken down every session that was listed when the loop
\* ended is freed, its player saved and logged out, though clients still connect, load
\* a character or replace an older session during that tick.
KickedAreRemoved ==
  (phase = "down") => \A s \in kicked : stage[s] = "deleted"

\* Never two sessions of one account with a character loading or in the world,
\* whichever of reconnect, character load, and lost connection comes first.
OneCharacterPerAccount ==
  \A s, t \in Session :
    /\ stage[s] \in {"loading", "ingame"}
    /\ stage[t] \in {"loading", "ingame"}
    /\ account[s] = account[t]
    => s = t

\* The queue is fair: two waiting sessions never change places, and one that
\* is let in leaves nobody ahead of it behind.
AheadIn(q, s, t) == \E i, j \in DOMAIN q : i < j /\ q[i] = s /\ q[j] = t
QueueIsFair ==
  [][\A s, t \in Queued :
       AheadIn(m_QueuedPlayer, s, t) /\ s \in Queued' /\ Alive(t)'
         => AheadIn(m_QueuedPlayer, s, t)']_vars

\* A player who is let in past a full world had lost a connection less than
\* Tolerance seconds before.
BypassIsRecent ==
  [][\A a \in Account \ Privileged :
       LET s == m_sessions'[a]
       IN  /\ s # m_sessions[a] /\ s # NULL /\ s \notin inQueue'
           /\ m_playerLimit > 0 /\ OtherSessions(a) >= m_playerLimit
           => m_disconnects[a] # Never /\ now - m_disconnects[a] < Tolerance]_vars

-----------------------------------------------------------------------------
(* Liveness *)

\* A listed session whose connection is lost is eventually freed, its player
\* logged out: a dead connection never keeps its account or its slot.
LostConnectionsAreDropped ==
  \A s \in Session : (IsListed(s) /\ s \in closed) ~> (stage[s] = "deleted")
=============================================================================
