----------------------------- MODULE MapUpdater -----------------------------
(***************************************************************************)
(* The threads that update maps: MapManager::Update and UnloadAll,         *)
(* MapInstanced::Update, MapUpdater and DelayExecutor.                     *)
(*                                                                         *)
(* Every tick the world thread schedules one request per base map and      *)
(* waits for pending_requests to return to zero.  Workers take requests    *)
(* from the executor's queue; one that updates a MapInstanced schedules    *)
(* the instances that hang on it, or unloads them, before its own request  *)
(* is counted as finished.                                                 *)
(*                                                                         *)
(* Each instance map is created once at most: Instance bounds the model.   *)
(***************************************************************************)
EXTENDS Integers, FiniteSets, Sequences, SequencesExt

CONSTANTS Base,       \* base maps
          Instance,   \* instance maps, each a Map object created at most once
          Parent,     \* the MapInstanced an instance hangs on
          Worker,     \* MapUpdate.Threads
          HighWater,  \* the requests the ACE queue takes before it is full
          NULL

ASSUME MapAssumption ==
  /\ Base \cap Instance = {} /\ NULL \notin Base \cup Instance
  /\ Parent \in [Instance -> Base]
  /\ IsFiniteSet(Base) /\ IsFiniteSet(Instance)
ASSUME WorkerAssumption == IsFiniteSet(Worker) /\ Worker # {}
ASSUME QueueAssumption  == HighWater \in Nat

VARIABLES
  i_maps,           \* base maps that exist
  m_InstancedMaps,  \* instance maps that exist
  toSchedule,       \* base maps the loop of MapManager::Update has yet to visit
  world,            \* where the world thread is
  pending_requests,
  queue,            \* DelayExecutor::queue_, by the map of each request
  deactivated,      \* state of the queue
  pc,               \* where a worker is
  job,              \* the map of its request
  toVisit           \* instances its loop has yet to visit

maps   == <<i_maps, m_InstancedMaps>>
worker == <<pc, job, toVisit>>
vars   == <<maps, toSchedule, world, pending_requests, queue, deactivated, worker>>

Map == Base \cup Instance

WorldPC  == {"idle", "schedule", "wait", "asleep", "delayed", "unloaded", "joining", "down"}
WorkerPC == {"dequeue", "updating", "visiting", "finishing", "exited"}

TypeOK ==
  /\ i_maps \in SUBSET Base
  /\ m_InstancedMaps \in SUBSET Instance
  /\ toSchedule \in SUBSET Base
  /\ world \in WorldPC
  /\ pending_requests \in Nat
  /\ queue \in Seq(Map)
  /\ deactivated \in BOOLEAN
  /\ pc \in [Worker -> WorkerPC]
  /\ job \in [Worker -> Map \cup {NULL}]
  /\ toVisit \in [Worker -> SUBSET Instance]

Children(m) == {i \in m_InstancedMaps : Parent[i] = m}

Busy == {w \in Worker : pc[w] \in {"updating", "visiting", "finishing"}}

Init ==
  /\ i_maps = {} /\ m_InstancedMaps = {}
  /\ toSchedule = {}
  /\ world = "idle"
  /\ pending_requests = 0
  /\ queue = <<>>
  /\ deactivated = FALSE
  /\ pc = [w \in Worker |-> "dequeue"]
  /\ job = [w \in Worker |-> NULL]
  /\ toVisit = [w \in Worker |-> {}]

-----------------------------------------------------------------------------
(* MapUpdater and DelayExecutor *)

Full == Len(queue) >= HighWater

\* Under m_mutex: one more pending request, taken back if the executor refuses
\* it (a zero timeout: it does not wait for room).
\* Mutant: the request is queued without being counted.
ScheduleUncounted(m) ==
  /\ queue' = IF Full \/ deactivated THEN queue ELSE Append(queue, m)
  /\ pending_requests' = pending_requests

schedule_update(m) ==
  IF Full \/ deactivated
  THEN UNCHANGED <<queue, pending_requests>>
  ELSE /\ queue' = Append(queue, m)
       /\ pending_requests' = pending_requests + 1

\* Under m_mutex: one pending request less, and the waiting world thread is
\* woken.  Mutants: it is counted twice; the world thread is not woken.
FinishTwice ==
  /\ pending_requests' = pending_requests - 2
  /\ world' = IF world = "asleep" THEN "wait" ELSE world

FinishQuietly ==
  /\ pending_requests' = IF pending_requests = 0 THEN 0 ELSE pending_requests - 1
  /\ UNCHANGED world

update_finished ==
  IF pending_requests = 0 THEN UNCHANGED <<pending_requests, world>>
  ELSE /\ pending_requests' = pending_requests - 1
       /\ world' = IF world = "asleep" THEN "wait" ELSE world

-----------------------------------------------------------------------------
(* World thread *)

\* Outside MapManager::Update: logins, teleports and battlegrounds create maps.
CreateBaseMap(m) ==
  /\ world = "idle" /\ m \notin i_maps
  /\ i_maps' = i_maps \cup {m}
  /\ UNCHANGED <<m_InstancedMaps, toSchedule, world, pending_requests, queue, deactivated, worker>>

CreateInstance(i) ==
  /\ world = "idle" /\ i \notin m_InstancedMaps /\ Parent[i] \in i_maps
  /\ m_InstancedMaps' = m_InstancedMaps \cup {i}
  /\ UNCHANGED <<i_maps, toSchedule, world, pending_requests, queue, deactivated, worker>>

BeginUpdate ==
  /\ world = "idle"
  /\ world' = "schedule"
  /\ toSchedule' = i_maps
  /\ UNCHANGED <<maps, pending_requests, queue, deactivated, worker>>

ScheduleMap(m) ==
  /\ world = "schedule" /\ m \in toSchedule
  /\ toSchedule' = toSchedule \ {m}
  /\ schedule_update(m)
  /\ UNCHANGED <<maps, world, deactivated, worker>>

EndSchedule ==
  /\ world = "schedule" /\ toSchedule = {}
  /\ world' = "wait"
  /\ UNCHANGED <<maps, toSchedule, pending_requests, queue, deactivated, worker>>

\* One round of the loop in MapUpdater::wait, under m_mutex.
\* Mutant: only the requests still in the queue are waited for.
WaitForQueue ==
  /\ world = "wait"
  /\ world' = IF queue # <<>> THEN "asleep" ELSE "delayed"
  /\ UNCHANGED <<maps, toSchedule, pending_requests, queue, deactivated, worker>>

Wait ==
  /\ world = "wait"
  /\ world' = IF pending_requests > 0 THEN "asleep" ELSE "delayed"
  /\ UNCHANGED <<maps, toSchedule, pending_requests, queue, deactivated, worker>>

\* The delayed updates of all maps, then corpses and transports
DelayedUpdate ==
  /\ world = "delayed"
  /\ world' = "idle"
  /\ UNCHANGED <<maps, toSchedule, pending_requests, queue, deactivated, worker>>

\* After the world loop: every map is unloaded and freed.
UnloadAll ==
  /\ world = "idle"
  /\ world' = "unloaded"
  /\ i_maps' = {} /\ m_InstancedMaps' = {}
  /\ UNCHANGED <<toSchedule, pending_requests, queue, deactivated, worker>>

\* MapUpdater::deactivate waits for pending requests, then closes the queue ...
\* Mutant: the queue stays open.
DeactivateForgetsQueue ==
  /\ world = "unloaded" /\ pending_requests = 0
  /\ world' = "joining"
  /\ UNCHANGED <<maps, toSchedule, pending_requests, queue, deactivated, worker>>

Deactivate ==
  /\ world = "unloaded" /\ pending_requests = 0
  /\ world' = "joining"
  /\ deactivated' = TRUE
  /\ UNCHANGED <<maps, toSchedule, pending_requests, queue, worker>>

\* ... and joins the workers.
Join ==
  /\ world = "joining" /\ \A w \in Worker : pc[w] = "exited"
  /\ world' = "down"
  /\ UNCHANGED <<maps, toSchedule, pending_requests, queue, deactivated, worker>>

-----------------------------------------------------------------------------
(* Workers *)

\* DelayExecutor::svc gets the next request; a closed queue ends the thread.
Dequeue(w) ==
  /\ pc[w] = "dequeue" /\ ~deactivated /\ queue # <<>>
  /\ pc' = [pc EXCEPT ![w] = "updating"]
  /\ job' = [job EXCEPT ![w] = Head(queue)]
  /\ queue' = Tail(queue)
  /\ UNCHANGED <<maps, toSchedule, world, pending_requests, deactivated, toVisit>>

Exit(w) ==
  /\ pc[w] = "dequeue" /\ deactivated
  /\ pc' = [pc EXCEPT ![w] = "exited"]
  /\ UNCHANGED <<maps, toSchedule, world, pending_requests, queue, deactivated, job, toVisit>>

\* Map::Update is over; what hangs on the map is visited next.
\* Mutant: the request is already counted as finished.
MapUpdateFinishesFirst(w) ==
  /\ pc[w] = "updating"
  /\ pc' = [pc EXCEPT ![w] = "visiting"]
  /\ toVisit' = [toVisit EXCEPT ![w] = Children(job[w])]
  /\ update_finished
  /\ UNCHANGED <<maps, toSchedule, queue, deactivated, job>>

MapUpdate(w) ==
  /\ pc[w] = "updating"
  /\ pc' = [pc EXCEPT ![w] = "visiting"]
  /\ toVisit' = [toVisit EXCEPT ![w] = Children(job[w])]
  /\ UNCHANGED <<maps, toSchedule, world, pending_requests, queue, deactivated, job>>

\* MapInstanced::Update of an instance that stays: it gets a request.
VisitSchedule(w, i) ==
  /\ pc[w] = "visiting" /\ i \in toVisit[w]
  /\ toVisit' = [toVisit EXCEPT ![w] = @ \ {i}]
  /\ schedule_update(i)
  /\ UNCHANGED <<maps, toSchedule, world, deactivated, pc, job>>

\* Of one whose unload timer is up: DestroyInstance frees it, or leaves it as
\* it is while players are in it.  Mutant: it is updated as well.
VisitUnloadThenSchedule(w, i) ==
  /\ pc[w] = "visiting" /\ i \in toVisit[w]
  /\ toVisit' = [toVisit EXCEPT ![w] = @ \ {i}]
  /\ m_InstancedMaps' \in {m_InstancedMaps, m_InstancedMaps \ {i}}
  /\ schedule_update(i)
  /\ UNCHANGED <<i_maps, toSchedule, world, deactivated, pc, job>>

VisitUnload(w, i) ==
  /\ pc[w] = "visiting" /\ i \in toVisit[w]
  /\ toVisit' = [toVisit EXCEPT ![w] = @ \ {i}]
  /\ m_InstancedMaps' \in {m_InstancedMaps, m_InstancedMaps \ {i}}
  /\ UNCHANGED <<i_maps, toSchedule, world, pending_requests, queue, deactivated, pc, job>>

EndVisit(w) ==
  /\ pc[w] = "visiting" /\ toVisit[w] = {}
  /\ pc' = [pc EXCEPT ![w] = "finishing"]
  /\ UNCHANGED <<maps, toSchedule, world, pending_requests, queue, deactivated, job, toVisit>>

Finish(w) ==
  /\ pc[w] = "finishing"
  /\ pc' = [pc EXCEPT ![w] = "dequeue"]
  /\ job' = [job EXCEPT ![w] = NULL]
  /\ update_finished
  /\ UNCHANGED <<maps, toSchedule, queue, deactivated, toVisit>>

WorldNext ==
  \/ \E m \in Base : ScheduleMap(m)
  \/ EndSchedule \/ Wait \/ DelayedUpdate \/ Deactivate \/ Join

WorkerNext(w) ==
  \/ Dequeue(w) \/ Exit(w) \/ MapUpdate(w) \/ EndVisit(w) \/ Finish(w)
  \/ \E i \in Instance : VisitSchedule(w, i) \/ VisitUnload(w, i)

\* What begins when the rest of the server wants it
Environment ==
  \/ \E m \in Base : CreateBaseMap(m)
  \/ \E i \in Instance : CreateInstance(i)
  \/ BeginUpdate \/ UnloadAll

Next == WorldNext \/ Environment \/ \E w \in Worker : WorkerNext(w)

Spec     == Init /\ [][Next]_vars
FairSpec == Spec /\ WF_vars(WorldNext) /\ \A w \in Worker : WF_vars(WorkerNext(w))

-----------------------------------------------------------------------------
(* Safety *)

InUpdate   == {"schedule", "wait", "asleep"}     \* inside MapManager::Update, before the barrier
Live       == i_maps \cup m_InstancedMaps
Queued     == Range(queue)
Jobs       == {job[w] : w \in Busy}
Visits     == UNION {toVisit[w] : w \in Worker}
UpdateJobs == {job[w] : w \in {v \in Worker : pc[v] = "updating"}}

\* The barrier: outside MapManager::Update no worker touches a map and none is
\* about to, so the world thread runs delayed updates, moves players between
\* maps and frees maps without a lock.
WorldThreadIsAlone ==
  world \notin InUpdate => Busy = {} /\ queue = <<>>

\* pending_requests counts the requests that are queued or being executed: the
\* "BUG, report to devs" of update_finished is never reached.
PendingIsExact ==
  pending_requests = Len(queue) + Cardinality(Busy)

\* No map is updated by two threads, or has two requests, in one tick.
UpdatesAreExclusive ==
  /\ \A v, w \in Busy : job[v] = job[w] => v = w
  /\ IsInjective(queue)
  /\ Jobs \cap Queued = {}

\* A map that was freed is neither being updated nor waiting for it.
OnlyLiveMapsAreUpdated ==
  Jobs \cup Queued \cup Visits \subseteq Live

-----------------------------------------------------------------------------
(* Refinement *)

\* The maps whose update in this tick is still to come
AheadOf == toSchedule \cup Queued \cup UpdateJobs
Due     == AheadOf \cup Visits \cup {i \in m_InstancedMaps : Parent[i] \in AheadOf}

Phase ==
  IF world \in InUpdate THEN "updating"
  ELSE IF world \in {"idle", "delayed"} THEN world ELSE "down"

MT == INSTANCE MapTick WITH
        live <- Live, due <- Due, phase <- Phase,
        MaySkip <- (HighWater < Cardinality(Map))

\* MapManager::Update keeps the promise of MapTick: each map is updated at most
\* once a tick, after the map it hangs on and before the delayed updates, and
\* misses a tick only if the queue may be smaller than the number of maps.
ImplementsMapTick == MT!Spec

-----------------------------------------------------------------------------
(* Liveness *)

\* The world thread is never stuck in MapManager::Update: every wait is ended by
\* a worker's broadcast.
TicksEnd == (world = "schedule") ~> (world = "idle")

\* Once the maps are unloaded every worker leaves its loop and is joined.
WorkersAreJoined == (world = "unloaded") ~> (world = "down")
=============================================================================
