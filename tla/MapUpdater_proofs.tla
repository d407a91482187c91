------------------------- MODULE MapUpdater_proofs -------------------------
(* Theorems about MapUpdater, for any maps, workers and queue capacity. *)
EXTENDS MapUpdater, QueueLemmas, FiniteSetTheorems, TLAPS

(***************************************************************************)
(* The inductive invariant.  In one tick every map moves along one path:   *)
(* toSchedule (or toVisit of the worker that has the map it hangs on), the *)
(* queue, the job of a worker.  The invariant says that it is never at two *)
(* places of that path, and that an instance enters it only after the map  *)
(* it hangs on has been updated.                                           *)
(***************************************************************************)
Taken == Queued \cup Jobs

ScheduledOnce == toSchedule \subseteq i_maps /\ toSchedule \cap Taken = {}

VisitsHaveAnOwner ==
  \A w \in Worker :
    /\ pc[w] # "visiting" => toVisit[w] = {}
    /\ \A i \in toVisit[w] : i \in m_InstancedMaps /\ Parent[i] = job[w] /\ i \notin Taken

ParentsComeFirst == \A i \in Instance \cap Taken : Parent[i] \notin AheadOf

JobsAreMaps == \A w \in Busy : job[w] \in Map

TakenLive == Taken \subseteq Live /\ \A i \in m_InstancedMaps : Parent[i] \in i_maps

NothingLeft ==
  /\ world # "schedule" => toSchedule = {}
  /\ world \notin InUpdate => Busy = {} /\ queue = <<>>
  /\ deactivated => world \in {"joining", "down"}

IInv ==
  /\ TypeOK /\ UpdatesAreExclusive /\ PendingIsExact
  /\ ScheduledOnce /\ VisitsHaveAnOwner /\ ParentsComeFirst
  /\ JobsAreMaps /\ TakenLive /\ NothingLeft

-----------------------------------------------------------------------------
(* The busy workers form a finite set; one more or one less changes the      *)
(* count by one.                                                             *)
LEMMA BusyCount ==
  ASSUME TypeOK
  PROVE  /\ IsFiniteSet(Busy) /\ Cardinality(Busy) \in Nat
         /\ \A w \in Worker \ Busy : Cardinality(Busy \cup {w}) = Cardinality(Busy) + 1
         /\ \A w \in Busy : Cardinality(Busy \ {w}) = Cardinality(Busy) - 1
         /\ Busy # {} => Cardinality(Busy) > 0
<1>1. IsFiniteSet(Busy)
  BY WorkerAssumption, FS_Subset DEF Busy
<1>2. Cardinality(Busy) \in Nat
  BY <1>1, FS_CardinalityType
<1>3. \A w \in Worker \ Busy : Cardinality(Busy \cup {w}) = Cardinality(Busy) + 1
  BY <1>1, FS_AddElement
<1>4. \A w \in Busy : Cardinality(Busy \ {w}) = Cardinality(Busy) - 1
  BY <1>1, FS_RemoveElement
<1>5. Busy # {} => Cardinality(Busy) > 0
  BY <1>1, <1>2, FS_EmptySet
<1> QED BY <1>1, <1>2, <1>3, <1>4, <1>5

(* An empty queue and idle workers are what pending_requests = 0 means. *)
LEMMA NothingPending ==
  ASSUME TypeOK, PendingIsExact, pending_requests = 0
  PROVE  Busy = {} /\ queue = <<>>
<1>1. Cardinality(Busy) \in Nat /\ Len(queue) \in Nat
  BY BusyCount, LenProperties DEF TypeOK
<1>2. Cardinality(Busy) = 0 /\ Len(queue) = 0
  BY <1>1 DEF PendingIsExact, TypeOK
<1>3. queue = <<>>
  BY <1>2, EmptySeq DEF TypeOK
<1> QED BY <1>2, <1>3, BusyCount

(* What schedule_update does to the queue, as a set and as a count. *)
LEMMA Scheduled ==
  ASSUME TypeOK, UpdatesAreExclusive, NEW m \in Map, m \notin Queued, schedule_update(m)
  PROVE  /\ queue' \in Seq(Map) /\ pending_requests' \in Nat
         /\ IsInjective(queue')
         /\ pending_requests' - Len(queue') = pending_requests - Len(queue)
         /\ Range(queue') = Queued \/ Range(queue') = Queued \cup {m}
<1>1. queue \in Seq(Map) /\ IsInjective(queue) /\ pending_requests \in Nat /\ Len(queue) \in Nat
  BY LenProperties DEF TypeOK, UpdatesAreExclusive
<1>2. CASE Full \/ deactivated
  BY <1>1, <1>2 DEF schedule_update, Queued
<1>3. CASE ~(Full \/ deactivated)
  <2>1. queue' = Append(queue, m) /\ pending_requests' = pending_requests + 1
    BY <1>3 DEF schedule_update
  <2>2. /\ Append(queue, m) \in Seq(Map)
        /\ IsInjective(Append(queue, m))
        /\ Range(Append(queue, m)) = Range(queue) \cup {m}
        /\ Len(Append(queue, m)) = Len(queue) + 1
    BY <1>1, PushToQueue DEF Queued
  <2> QED BY <1>1, <2>1, <2>2 DEF Queued
<1> QED BY <1>2, <1>3

(* The initial state satisfies the invariant. *)
LEMMA InitIInv == Init => IInv
<1> SUFFICES ASSUME Init PROVE IInv
  OBVIOUS
<1>1. Busy = {} /\ queue = <<>> /\ Queued = {} /\ Jobs = {} /\ UpdateJobs = {}
  BY DEF Init, Busy, Queued, Jobs, UpdateJobs, Range
<1>2. Cardinality(Busy) = 0 /\ Len(queue) = 0
  BY <1>1, FS_EmptySet
<1>3. IsInjective(queue)
  BY <1>1 DEF IsInjective
<1>4. /\ queue \in Seq(Map)
      /\ pc \in [Worker -> WorkerPC] /\ job \in [Worker -> Map \cup {NULL}]
      /\ toVisit \in [Worker -> SUBSET Instance]
  <2>1. queue \in Seq(Map)
    BY <1>1, EmptySeq
  <2>2. pc \in [Worker -> WorkerPC] /\ job \in [Worker -> Map \cup {NULL}]
    BY DEF Init, WorkerPC
  <2>3. toVisit \in [Worker -> SUBSET Instance]
    BY DEF Init
  <2> QED BY <2>1, <2>2, <2>3
<1>5. deactivated \in BOOLEAN
  BY Zenon DEF Init
<1>6. TypeOK
  BY <1>4, <1>5 DEF Init, TypeOK, WorldPC
<1> QED
  BY <1>6, <1>1, <1>2, <1>3, <1>4
  DEF Init, IInv, UpdatesAreExclusive, PendingIsExact, ScheduledOnce, VisitsHaveAnOwner,
      ParentsComeFirst, JobsAreMaps, TakenLive, NothingLeft, Taken

-----------------------------------------------------------------------------
(* Steps that leave the requests and the workers alone: world thread outside *)
(* schedule_update, and the rest of the server. *)
LEMMA QuietStep ==
  ASSUME IInv, UNCHANGED <<pending_requests, queue, worker>>,
         TypeOK', ScheduledOnce', NothingLeft', ParentsComeFirst',
         m_InstancedMaps \subseteq m_InstancedMaps',
         i_maps \subseteq i_maps',
         \A i \in m_InstancedMaps' : Parent[i] \in i_maps'
  PROVE  IInv'
<1>1. Busy' = Busy /\ Queued' = Queued /\ Jobs' = Jobs /\ Taken' = Taken
  BY DEF worker, Busy, Queued, Jobs, Taken
<1>2. UpdatesAreExclusive' /\ PendingIsExact'
  BY <1>1 DEF IInv, UpdatesAreExclusive, PendingIsExact, worker
<1>3. VisitsHaveAnOwner'
  BY <1>1 DEF IInv, VisitsHaveAnOwner, worker
<1>4. JobsAreMaps' /\ TakenLive'
  BY <1>1 DEF IInv, JobsAreMaps, TakenLive, worker, Live
<1> QED BY <1>2, <1>3, <1>4 DEF IInv

LEMMA WorldThreadStep ==
  ASSUME IInv, EndSchedule \/ Wait \/ DelayedUpdate \/ Deactivate \/ Join
  PROVE  IInv'
<1>1. UNCHANGED <<maps, toSchedule, pending_requests, queue, worker>>
  BY DEF EndSchedule, Wait, DelayedUpdate, Deactivate, Join
<1>2. TypeOK'
  <2>1. world' \in WorldPC
    BY DEF EndSchedule, Wait, DelayedUpdate, Deactivate, Join, WorldPC
  <2>2. deactivated' \in BOOLEAN
    BY Zenon DEF IInv, TypeOK, EndSchedule, Wait, DelayedUpdate, Deactivate, Join
  <2> QED BY <1>1, <2>1, <2>2 DEF IInv, TypeOK, maps, worker
<1>3. Busy' = Busy /\ Taken' = Taken /\ AheadOf' = AheadOf
  BY <1>1 DEF worker, Busy, Taken, Queued, Jobs, AheadOf, UpdateJobs
<1>4. ScheduledOnce' /\ ParentsComeFirst'
  BY <1>1, <1>3 DEF IInv, ScheduledOnce, ParentsComeFirst, maps
<1>5. NothingLeft'
  <2>1. CASE Wait
    <3>1. pending_requests = 0 => Busy = {} /\ queue = <<>>
      BY NothingPending DEF IInv
    <3>2. pending_requests > 0 \/ pending_requests = 0
      BY DEF IInv, TypeOK
    <3> QED BY <1>1, <1>3, <2>1, <3>1, <3>2 DEF IInv, NothingLeft, Wait, InUpdate
  <2>2. CASE EndSchedule \/ DelayedUpdate \/ Deactivate \/ Join
    BY <1>1, <1>3, <2>2
    DEF IInv, NothingLeft, EndSchedule, DelayedUpdate, Deactivate, Join, InUpdate
  <2> QED BY <2>1, <2>2
<1>6. /\ m_InstancedMaps' = m_InstancedMaps /\ i_maps' = i_maps
      /\ \A i \in m_InstancedMaps' : Parent[i] \in i_maps'
  BY <1>1 DEF IInv, TakenLive, maps
<1> QED BY <1>1, <1>2, <1>4, <1>5, <1>6, QuietStep

LEMMA EnvironmentStep == IInv /\ Environment => IInv'
<1> SUFFICES ASSUME IInv, Environment PROVE IInv'
  OBVIOUS
<1>1. /\ world = "idle" /\ Busy = {} /\ queue = <<>> /\ toSchedule = {}
      /\ ~deactivated /\ UNCHANGED <<pending_requests, queue, deactivated, worker>>
  BY DEF Environment, IInv, NothingLeft, InUpdate, CreateBaseMap, CreateInstance, BeginUpdate,
         UnloadAll
<1>2. Busy' = {} /\ Taken = {} /\ Taken' = {}
  BY <1>1 DEF Busy, Taken, Queued, Jobs, Range, worker
<1>3. CASE \/ \E m \in Base : CreateBaseMap(m)
           \/ \E i \in Instance : CreateInstance(i)
           \/ BeginUpdate
  <2>1. TypeOK'
    BY <1>3 DEF IInv, TypeOK, CreateBaseMap, CreateInstance, BeginUpdate, worker, maps, WorldPC
  <2>2. ScheduledOnce' /\ ParentsComeFirst'
    BY <1>1, <1>2, <1>3 DEF ScheduledOnce, ParentsComeFirst, CreateBaseMap, CreateInstance,
                            BeginUpdate, maps
  <2>3. NothingLeft'
    BY <1>1, <1>2, <1>3 DEF NothingLeft, CreateBaseMap, CreateInstance, BeginUpdate, InUpdate
  <2>4. /\ m_InstancedMaps \subseteq m_InstancedMaps' /\ i_maps \subseteq i_maps'
        /\ \A i \in m_InstancedMaps' : Parent[i] \in i_maps'
    BY <1>3 DEF IInv, TakenLive, CreateBaseMap, CreateInstance, BeginUpdate, maps
  <2> QED BY <1>1, <2>1, <2>2, <2>3, <2>4, QuietStep
<1>4. CASE UnloadAll
  <2>1. TypeOK'
    BY <1>4 DEF IInv, TypeOK, UnloadAll, worker, WorldPC
  <2>2. UpdatesAreExclusive' /\ PendingIsExact'
    BY <1>1, <1>2 DEF IInv, UpdatesAreExclusive, PendingIsExact, worker, Queued, Jobs, Busy
  <2>3. ScheduledOnce' /\ ParentsComeFirst'
    BY <1>1, <1>2, <1>4 DEF ScheduledOnce, ParentsComeFirst, UnloadAll
  <2>4. VisitsHaveAnOwner'
    <3>1. \A w \in Worker : pc[w] # "visiting"
      BY <1>1 DEF Busy
    <3> QED BY <1>1, <3>1 DEF IInv, VisitsHaveAnOwner, worker
  <2>5. JobsAreMaps' /\ TakenLive'
    BY <1>2, <1>4 DEF JobsAreMaps, TakenLive, UnloadAll
  <2>6. NothingLeft'
    BY <1>1, <1>2, <1>4 DEF NothingLeft, UnloadAll, InUpdate
  <2> QED BY <2>1, <2>2, <2>3, <2>4, <2>5, <2>6 DEF IInv
<1> QED BY <1>3, <1>4 DEF Environment
LEMMA ScheduleMapStep ==
  ASSUME IInv, NEW m \in Base, ScheduleMap(m)
  PROVE  IInv'
<1>1. /\ world = "schedule" /\ m \in toSchedule /\ toSchedule' = toSchedule \ {m}
      /\ schedule_update(m)
      /\ UNCHANGED <<maps, world, deactivated, worker>>
  BY DEF ScheduleMap
<1>2. m \in Map /\ m \notin Taken /\ m \in Live /\ m \notin Instance
  BY <1>1, MapAssumption DEF IInv, ScheduledOnce, TypeOK, Live, Map
<1>3. /\ queue' \in Seq(Map) /\ pending_requests' \in Nat /\ IsInjective(queue')
      /\ pending_requests' - Len(queue') = pending_requests - Len(queue)
      /\ Queued' = Queued \/ Queued' = Queued \cup {m}
  BY <1>1, <1>2, Scheduled DEF IInv, Taken, Queued
<1>4. /\ Busy' = Busy /\ Jobs' = Jobs /\ UpdateJobs' = UpdateJobs
      /\ Taken \subseteq Taken' /\ Taken' \subseteq Taken \cup {m}
  BY <1>1, <1>3 DEF worker, Busy, Jobs, UpdateJobs, Taken
<1>5. TypeOK'
  BY <1>1, <1>3 DEF IInv, TypeOK, maps, worker
<1>6. UpdatesAreExclusive'
  BY <1>1, <1>2, <1>3, <1>4 DEF IInv, UpdatesAreExclusive, Taken, worker
<1>7. PendingIsExact'
  <2>1. Len(queue) \in Nat /\ Len(queue') \in Nat /\ Cardinality(Busy) \in Nat
    BY <1>3, LenProperties, BusyCount DEF IInv, TypeOK
  <2> QED BY <1>3, <1>4, <2>1 DEF IInv, PendingIsExact, TypeOK
<1>8. ScheduledOnce'
  BY <1>1, <1>4 DEF IInv, ScheduledOnce, maps
<1>9. VisitsHaveAnOwner'
  <2> SUFFICES ASSUME NEW w \in Worker
               PROVE  /\ pc[w] # "visiting" => toVisit[w] = {}
                      /\ \A i \in toVisit[w] :
                           i \in m_InstancedMaps /\ Parent[i] = job[w] /\ i \notin Taken'
    BY <1>1 DEF VisitsHaveAnOwner, worker, maps
  <2>1. toVisit[w] \subseteq Instance
    BY DEF IInv, TypeOK
  <2> QED BY <1>2, <1>4, <2>1 DEF IInv, VisitsHaveAnOwner
<1>10. ParentsComeFirst'
  <2>1. AheadOf' \subseteq AheadOf
    BY <1>1, <1>3, <1>4 DEF AheadOf
  <2>2. Instance \cap Taken' \subseteq Instance \cap Taken
    BY <1>2, <1>4
  <2> QED BY <2>1, <2>2 DEF IInv, ParentsComeFirst
<1>11. JobsAreMaps'
  BY <1>1, <1>4 DEF IInv, JobsAreMaps, worker
<1>12. TakenLive'
  BY <1>1, <1>2, <1>4 DEF IInv, TakenLive, maps, Live
<1>13. NothingLeft'
  BY <1>1 DEF IInv, NothingLeft, InUpdate
<1> QED
  BY <1>5, <1>6, <1>7, <1>8, <1>9, <1>10, <1>11, <1>12, <1>13 DEF IInv

-----------------------------------------------------------------------------
(* Workers *)

(* A worker with a request belongs to a tick. *)
LEMMA BusyMeansTick ==
  ASSUME IInv, Busy # {} \/ queue # <<>>
  PROVE  world \in InUpdate
BY DEF IInv, NothingLeft

LEMMA DequeueStep ==
  ASSUME IInv, NEW w \in Worker, Dequeue(w)
  PROVE  IInv'
<1> DEFINE h == Head(queue)
<1>1. /\ pc[w] = "dequeue" /\ queue # <<>>
      /\ pc' = [pc EXCEPT ![w] = "updating"] /\ job' = [job EXCEPT ![w] = h]
      /\ queue' = Tail(queue)
      /\ UNCHANGED <<maps, toSchedule, world, pending_requests, deactivated, toVisit>>
  BY DEF Dequeue
<1>2. /\ queue' \in Seq(Map) /\ IsInjective(queue') /\ Queued' = Queued \ {h}
      /\ Len(queue') = Len(queue) - 1 /\ h \in Queued /\ h \in Map
  <2>1. queue \in Seq(Map) /\ IsInjective(queue)
    BY DEF IInv, TypeOK, UpdatesAreExclusive
  <2>2. h \in Map
    BY <1>1, <2>1, HeadTailProperties
  <2> QED BY <1>1, <2>1, <2>2, PopFromQueue DEF Queued
<1> HIDE DEF h
<1>3. w \notin Busy /\ Busy' = Busy \cup {w}
  BY <1>1 DEF Busy, IInv, TypeOK
<1>4. /\ \A v \in Busy : job'[v] = job[v] /\ v # w
      /\ job'[w] = h
  BY <1>1, <1>3 DEF IInv, TypeOK
<1>5. Jobs' = Jobs \cup {h}
  BY <1>3, <1>4 DEF Jobs
<1>6. UpdateJobs' = UpdateJobs \cup {h}
  BY <1>1, <1>2 DEF UpdateJobs, IInv, TypeOK
<1>7. Taken' = Taken /\ AheadOf' = AheadOf
  BY <1>1, <1>2, <1>5, <1>6 DEF Taken, AheadOf
<1>8. TypeOK'
  BY <1>1, <1>2 DEF IInv, TypeOK, WorkerPC, maps
<1>9. UpdatesAreExclusive'
  <2>1. \A v, u \in Busy' : job'[v] = job'[u] => v = u
    BY <1>2, <1>3, <1>4 DEF IInv, UpdatesAreExclusive, Jobs
  <2>2. Jobs' \cap Queued' = {}
    BY <1>2, <1>5 DEF IInv, UpdatesAreExclusive
  <2> QED BY <1>2, <2>1, <2>2 DEF UpdatesAreExclusive
<1>10. PendingIsExact'
  <2>1. Cardinality(Busy') = Cardinality(Busy) + 1 /\ Cardinality(Busy) \in Nat
    BY <1>3, BusyCount DEF IInv
  <2>2. Len(queue) \in Nat
    BY LenProperties DEF IInv, TypeOK
  <2> QED BY <1>1, <1>2, <2>1, <2>2 DEF IInv, PendingIsExact
<1>11. ScheduledOnce' /\ ParentsComeFirst'
  BY <1>1, <1>7 DEF IInv, ScheduledOnce, ParentsComeFirst, maps
<1>12. VisitsHaveAnOwner'
  <2> SUFFICES ASSUME NEW v \in Worker
               PROVE  /\ pc'[v] # "visiting" => toVisit[v] = {}
                      /\ \A i \in toVisit[v] :
                           i \in m_InstancedMaps /\ Parent[i] = job'[v] /\ i \notin Taken
    BY <1>1, <1>7 DEF VisitsHaveAnOwner, maps
  <2>1. CASE v = w
    BY <1>1, <2>1 DEF IInv, VisitsHaveAnOwner, TypeOK
  <2>2. CASE v # w
    BY <1>1, <2>2 DEF IInv, VisitsHaveAnOwner, TypeOK
  <2> QED BY <2>1, <2>2
<1>13. JobsAreMaps'
  BY <1>2, <1>3, <1>4 DEF IInv, JobsAreMaps
<1>14. TakenLive'
  BY <1>1, <1>7 DEF IInv, TakenLive, maps, Live
<1>15. NothingLeft'
  BY <1>1, BusyMeansTick DEF IInv, NothingLeft, InUpdate
<1> QED
  BY <1>8, <1>9, <1>10, <1>11, <1>12, <1>13, <1>14, <1>15 DEF IInv
LEMMA ExitStep ==
  ASSUME IInv, NEW w \in Worker, Exit(w)
  PROVE  IInv'
<1>1. /\ pc[w] = "dequeue" /\ pc' = [pc EXCEPT ![w] = "exited"]
      /\ UNCHANGED <<maps, toSchedule, world, pending_requests, queue, deactivated, job, toVisit>>
  BY DEF Exit
<1>2. Busy' = Busy /\ UpdateJobs' = UpdateJobs
  BY <1>1 DEF Busy, UpdateJobs, IInv, TypeOK
<1>3. Jobs' = Jobs /\ Taken' = Taken /\ AheadOf' = AheadOf
  BY <1>1, <1>2 DEF Jobs, Taken, Queued, AheadOf
<1>4. TypeOK'
  BY <1>1 DEF IInv, TypeOK, WorkerPC, maps
<1>5. UpdatesAreExclusive' /\ PendingIsExact' /\ ScheduledOnce' /\ ParentsComeFirst'
  BY <1>1, <1>2, <1>3 DEF IInv, UpdatesAreExclusive, PendingIsExact, ScheduledOnce,
                          ParentsComeFirst, maps, Queued
<1>6. VisitsHaveAnOwner'
  BY <1>1, <1>3 DEF IInv, VisitsHaveAnOwner, TypeOK, maps
<1>7. JobsAreMaps' /\ TakenLive' /\ NothingLeft'
  BY <1>1, <1>2, <1>3 DEF IInv, JobsAreMaps, TakenLive, NothingLeft, maps, Live, InUpdate
<1> QED BY <1>4, <1>5, <1>6, <1>7 DEF IInv

LEMMA MapUpdateStep ==
  ASSUME IInv, NEW w \in Worker, MapUpdate(w)
  PROVE  IInv'
<1>1. /\ pc[w] = "updating" /\ pc' = [pc EXCEPT ![w] = "visiting"]
      /\ toVisit' = [toVisit EXCEPT ![w] = Children(job[w])]
      /\ UNCHANGED <<maps, toSchedule, world, pending_requests, queue, deactivated, job>>
  BY DEF MapUpdate
<1>2. w \in Busy /\ Busy' = Busy
  BY <1>1 DEF Busy, IInv, TypeOK
<1>3. UpdateJobs' \subseteq UpdateJobs /\ job[w] \in UpdateJobs
  BY <1>1 DEF UpdateJobs, IInv, TypeOK
<1>4. Jobs' = Jobs /\ Taken' = Taken /\ AheadOf' \subseteq AheadOf /\ job[w] \in AheadOf
  BY <1>1, <1>2, <1>3 DEF Jobs, Taken, Queued, AheadOf
<1>5. Children(job[w]) \subseteq Instance
  BY DEF Children, IInv, TypeOK
<1>6. TypeOK'
  BY <1>1, <1>5 DEF IInv, TypeOK, WorkerPC, maps
<1>7. UpdatesAreExclusive' /\ PendingIsExact' /\ ScheduledOnce'
  BY <1>1, <1>2, <1>4 DEF IInv, UpdatesAreExclusive, PendingIsExact, ScheduledOnce, maps, Queued
<1>8. ParentsComeFirst'
  BY <1>1, <1>4 DEF IInv, ParentsComeFirst
<1>9. VisitsHaveAnOwner'
  <2> SUFFICES ASSUME NEW v \in Worker
               PROVE  /\ pc'[v] # "visiting" => toVisit'[v] = {}
                      /\ \A i \in toVisit'[v] :
                           i \in m_InstancedMaps /\ Parent[i] = job[v] /\ i \notin Taken
    BY <1>1, <1>4 DEF VisitsHaveAnOwner, maps
  <2>1. CASE v = w
    <3>1. pc'[v] = "visiting" /\ toVisit'[v] = Children(job[w])
      BY <1>1, <2>1 DEF IInv, TypeOK
    <3>2. \A i \in Children(job[w]) : i \notin Taken
      BY <1>4, <1>5 DEF Children, IInv, ParentsComeFirst
    <3> QED BY <2>1, <3>1, <3>2 DEF Children
  <2>2. CASE v # w
    BY <1>1, <2>2 DEF IInv, VisitsHaveAnOwner, TypeOK
  <2> QED BY <2>1, <2>2
<1>10. JobsAreMaps' /\ TakenLive' /\ NothingLeft'
  BY <1>1, <1>2, <1>4 DEF IInv, JobsAreMaps, TakenLive, NothingLeft, maps, Live, InUpdate
<1> QED BY <1>6, <1>7, <1>8, <1>9, <1>10 DEF IInv

LEMMA EndVisitStep ==
  ASSUME IInv, NEW w \in Worker, EndVisit(w)
  PROVE  IInv'
<1>1. /\ pc[w] = "visiting" /\ toVisit[w] = {} /\ pc' = [pc EXCEPT ![w] = "finishing"]
      /\ UNCHANGED <<maps, toSchedule, world, pending_requests, queue, deactivated, job, toVisit>>
  BY DEF EndVisit
<1>2. Busy' = Busy /\ UpdateJobs' = UpdateJobs
  BY <1>1 DEF Busy, UpdateJobs, IInv, TypeOK
<1>3. Jobs' = Jobs /\ Taken' = Taken /\ AheadOf' = AheadOf
  BY <1>1, <1>2 DEF Jobs, Taken, Queued, AheadOf
<1>4. TypeOK'
  BY <1>1 DEF IInv, TypeOK, WorkerPC, maps
<1>5. UpdatesAreExclusive' /\ PendingIsExact' /\ ScheduledOnce' /\ ParentsComeFirst'
  BY <1>1, <1>2, <1>3 DEF IInv, UpdatesAreExclusive, PendingIsExact, ScheduledOnce,
                          ParentsComeFirst, maps, Queued
<1>6. VisitsHaveAnOwner'
  BY <1>1, <1>3 DEF IInv, VisitsHaveAnOwner, TypeOK, maps
<1>7. JobsAreMaps' /\ TakenLive' /\ NothingLeft'
  BY <1>1, <1>2, <1>3 DEF IInv, JobsAreMaps, TakenLive, NothingLeft, maps, Live, InUpdate
<1> QED BY <1>4, <1>5, <1>6, <1>7 DEF IInv

(* An instance that is visited belongs to the visiting worker alone, and the *)
(* map it hangs on is past its own update. *)
LEMMA Visited ==
  ASSUME IInv, NEW w \in Worker, pc[w] = "visiting", NEW i \in toVisit[w]
  PROVE  /\ w \in Busy /\ i \in Instance /\ i \in m_InstancedMaps /\ i \notin Taken
         /\ Parent[i] = job[w] /\ Parent[i] \notin AheadOf
         /\ i \notin AheadOf
         /\ \A v \in Worker : v # w => i \notin toVisit[v]
<1>1. w \in Busy /\ job[w] \in Jobs
  BY DEF Busy, Jobs
<1>2. i \in Instance /\ i \in m_InstancedMaps /\ i \notin Taken /\ Parent[i] = job[w]
  BY DEF IInv, TypeOK, VisitsHaveAnOwner
<1>3. \A v \in Busy : job[v] = job[w] => v = w
  BY <1>1 DEF IInv, UpdatesAreExclusive
<1>4. job[w] \notin UpdateJobs
  BY <1>3 DEF UpdateJobs, Busy
<1>5. job[w] \notin Queued /\ job[w] \notin toSchedule
  BY <1>1 DEF IInv, UpdatesAreExclusive, ScheduledOnce, Taken
<1>6. i \notin AheadOf
  <2>1. UpdateJobs \subseteq Taken
    BY DEF UpdateJobs, Taken, Jobs, Busy
  <2>2. i \notin toSchedule
    BY <1>2, MapAssumption DEF IInv, TypeOK
  <2> QED BY <1>2, <2>1, <2>2 DEF AheadOf, Taken
<1>7. \A v \in Worker : v # w => i \notin toVisit[v]
  <2> SUFFICES ASSUME NEW v \in Worker, v # w, i \in toVisit[v] PROVE FALSE
    OBVIOUS
  <2>1. pc[v] = "visiting" /\ Parent[i] = job[v]
    BY DEF IInv, VisitsHaveAnOwner
  <2>2. v \in Busy
    BY <2>1 DEF Busy
  <2> QED BY <1>2, <1>3, <2>1, <2>2
<1> QED BY <1>1, <1>2, <1>4, <1>5, <1>6, <1>7 DEF AheadOf

LEMMA VisitScheduleStep ==
  ASSUME IInv, NEW w \in Worker, NEW i \in Instance, VisitSchedule(w, i)
  PROVE  IInv'
<1>1. /\ pc[w] = "visiting" /\ i \in toVisit[w]
      /\ toVisit' = [toVisit EXCEPT ![w] = toVisit[w] \ {i}]
      /\ schedule_update(i)
      /\ UNCHANGED <<maps, toSchedule, world, deactivated, pc, job>>
  BY DEF VisitSchedule
<1>2. /\ w \in Busy /\ i \in m_InstancedMaps /\ i \notin Taken /\ i \in Map
      /\ Parent[i] \notin AheadOf
      /\ \A v \in Worker : v # w => i \notin toVisit[v]
  BY <1>1, Visited DEF Map
<1>3. /\ queue' \in Seq(Map) /\ pending_requests' \in Nat /\ IsInjective(queue')
      /\ pending_requests' - Len(queue') = pending_requests - Len(queue)
      /\ Queued' = Queued \/ Queued' = Queued \cup {i}
  BY <1>1, <1>2, Scheduled DEF IInv, Taken, Queued
<1>4. /\ Busy' = Busy /\ Jobs' = Jobs /\ UpdateJobs' = UpdateJobs
      /\ Taken' \subseteq Taken \cup {i} /\ AheadOf' \subseteq AheadOf \cup {i}
  BY <1>1, <1>3 DEF Busy, Jobs, UpdateJobs, Taken, AheadOf
<1>5. TypeOK'
  BY <1>1, <1>3 DEF IInv, TypeOK, maps
<1>6. UpdatesAreExclusive'
  BY <1>1, <1>2, <1>3, <1>4 DEF IInv, UpdatesAreExclusive, Taken
<1>7. PendingIsExact'
  <2>1. Len(queue) \in Nat /\ Len(queue') \in Nat /\ Cardinality(Busy) \in Nat
    BY <1>3, LenProperties, BusyCount DEF IInv, TypeOK
  <2> QED BY <1>3, <1>4, <2>1 DEF IInv, PendingIsExact, TypeOK
<1>8. ScheduledOnce'
  <2>1. i \notin toSchedule
    BY MapAssumption DEF IInv, TypeOK
  <2> QED BY <1>1, <1>4, <2>1 DEF IInv, ScheduledOnce, maps
<1>9. VisitsHaveAnOwner'
  <2> SUFFICES ASSUME NEW v \in Worker
               PROVE  /\ pc[v] # "visiting" => toVisit'[v] = {}
                      /\ \A k \in toVisit'[v] :
                           k \in m_InstancedMaps /\ Parent[k] = job[v] /\ k \notin Taken'
    BY <1>1 DEF VisitsHaveAnOwner, maps
  <2>1. toVisit'[v] \subseteq toVisit[v] /\ i \notin toVisit'[v]
    BY <1>1, <1>2 DEF IInv, TypeOK
  <2> QED BY <1>4, <2>1 DEF IInv, VisitsHaveAnOwner
<1>10. ParentsComeFirst'
  <2> SUFFICES ASSUME NEW k \in Instance \cap Taken' PROVE Parent[k] \notin AheadOf'
    BY DEF ParentsComeFirst
  <2>1. Parent[k] # i
    BY MapAssumption
  <2>2. Parent[k] \notin AheadOf
    BY <1>2, <1>4 DEF IInv, ParentsComeFirst
  <2> QED BY <1>4, <2>1, <2>2
<1>11. JobsAreMaps'
  BY <1>1, <1>4 DEF IInv, JobsAreMaps
<1>12. TakenLive'
  BY <1>1, <1>2, <1>4 DEF IInv, TakenLive, maps, Live
<1>13. NothingLeft'
  <2>1. world \in InUpdate
    BY <1>2, BusyMeansTick
  <2> QED BY <1>1, <2>1 DEF IInv, NothingLeft, InUpdate
<1> QED
  BY <1>5, <1>6, <1>7, <1>8, <1>9, <1>10, <1>11, <1>12, <1>13 DEF IInv

LEMMA VisitUnloadStep ==
  ASSUME IInv, NEW w \in Worker, NEW i \in Instance, VisitUnload(w, i)
  PROVE  IInv'
<1>1. /\ pc[w] = "visiting" /\ i \in toVisit[w]
      /\ toVisit' = [toVisit EXCEPT ![w] = toVisit[w] \ {i}]
      /\ m_InstancedMaps' \in {m_InstancedMaps, m_InstancedMaps \ {i}}
      /\ UNCHANGED <<i_maps, toSchedule, world, pending_requests, queue, deactivated, pc, job>>
  BY DEF VisitUnload
<1>2. i \notin Taken /\ \A v \in Worker : v # w => i \notin toVisit[v]
  BY <1>1, Visited
<1>3. /\ Busy' = Busy /\ Jobs' = Jobs /\ Taken' = Taken /\ AheadOf' = AheadOf
      /\ Queued' = Queued
  BY <1>1 DEF Busy, Jobs, UpdateJobs, Taken, Queued, AheadOf
<1>4. TypeOK'
  BY <1>1 DEF IInv, TypeOK
<1>5. UpdatesAreExclusive' /\ PendingIsExact' /\ ScheduledOnce' /\ ParentsComeFirst'
  BY <1>1, <1>3 DEF IInv, UpdatesAreExclusive, PendingIsExact, ScheduledOnce, ParentsComeFirst
<1>6. VisitsHaveAnOwner'
  <2> SUFFICES ASSUME NEW v \in Worker
               PROVE  /\ pc[v] # "visiting" => toVisit'[v] = {}
                      /\ \A k \in toVisit'[v] :
                           k \in m_InstancedMaps' /\ Parent[k] = job[v] /\ k \notin Taken
    BY <1>1, <1>3 DEF VisitsHaveAnOwner
  <2>1. toVisit'[v] \subseteq toVisit[v] /\ i \notin toVisit'[v]
    BY <1>1, <1>2 DEF IInv, TypeOK
  <2> QED BY <1>1, <2>1 DEF IInv, VisitsHaveAnOwner
<1>7. JobsAreMaps' /\ TakenLive' /\ NothingLeft'
  BY <1>1, <1>2, <1>3 DEF IInv, JobsAreMaps, TakenLive, NothingLeft, Live, InUpdate
<1> QED BY <1>4, <1>5, <1>6, <1>7 DEF IInv

LEMMA FinishStep ==
  ASSUME IInv, NEW w \in Worker, Finish(w)
  PROVE  IInv'
<1>1. /\ pc[w] = "finishing" /\ pc' = [pc EXCEPT ![w] = "dequeue"]
      /\ job' = [job EXCEPT ![w] = NULL]
      /\ update_finished
      /\ UNCHANGED <<maps, toSchedule, queue, deactivated, toVisit>>
  BY DEF Finish
<1>2. w \in Busy /\ Busy' = Busy \ {w}
  BY <1>1 DEF Busy, IInv, TypeOK
<1>3. /\ Len(queue) \in Nat /\ Cardinality(Busy) \in Nat /\ Cardinality(Busy) > 0
      /\ Cardinality(Busy') = Cardinality(Busy) - 1
  BY <1>2, BusyCount, LenProperties DEF IInv, TypeOK
<1>4. pending_requests > 0
  BY <1>3 DEF IInv, PendingIsExact, TypeOK
<1>5. /\ pending_requests' = pending_requests - 1
      /\ world' = IF world = "asleep" THEN "wait" ELSE world
  BY <1>1, <1>4 DEF update_finished
<1>6. \A v \in Busy' : v \in Busy /\ v # w /\ job'[v] = job[v]
  BY <1>1, <1>2 DEF IInv, TypeOK
<1>7. Jobs' \subseteq Jobs /\ UpdateJobs' = UpdateJobs /\ Queued' = Queued
  <2>1. Jobs' \subseteq Jobs
    BY <1>6 DEF Jobs
  <2>2. UpdateJobs' = UpdateJobs
    BY <1>1 DEF UpdateJobs, IInv, TypeOK
  <2> QED BY <1>1, <2>1, <2>2 DEF Queued
<1>8. Taken' \subseteq Taken /\ AheadOf' = AheadOf
  BY <1>1, <1>7 DEF Taken, AheadOf
<1>9. world \in InUpdate /\ world' \in InUpdate /\ world' \in WorldPC
      /\ (world' = "schedule" <=> world = "schedule")
  BY <1>2, <1>5, BusyMeansTick DEF InUpdate, WorldPC
<1>10. TypeOK'
  BY <1>1, <1>4, <1>5, <1>9 DEF IInv, TypeOK, WorkerPC, maps
<1>11. UpdatesAreExclusive'
  BY <1>1, <1>6, <1>7 DEF IInv, UpdatesAreExclusive
<1>12. PendingIsExact'
  BY <1>1, <1>3, <1>5 DEF IInv, PendingIsExact, TypeOK
<1>13. ScheduledOnce' /\ ParentsComeFirst'
  BY <1>1, <1>8 DEF IInv, ScheduledOnce, ParentsComeFirst, maps
<1>14. VisitsHaveAnOwner'
  <2> SUFFICES ASSUME NEW v \in Worker
               PROVE  /\ pc'[v] # "visiting" => toVisit[v] = {}
                      /\ \A i \in toVisit[v] :
                           i \in m_InstancedMaps /\ Parent[i] = job'[v] /\ i \notin Taken'
    BY <1>1 DEF VisitsHaveAnOwner, maps
  <2>1. CASE v = w
    BY <1>1, <2>1 DEF IInv, VisitsHaveAnOwner
  <2>2. CASE v # w
    BY <1>1, <1>8, <2>2 DEF IInv, VisitsHaveAnOwner, TypeOK
  <2> QED BY <2>1, <2>2
<1>15. JobsAreMaps' /\ TakenLive' /\ NothingLeft'
  BY <1>1, <1>6, <1>8, <1>9 DEF IInv, JobsAreMaps, TakenLive, NothingLeft, maps, Live, InUpdate
<1> QED
  BY <1>10, <1>11, <1>12, <1>13, <1>14, <1>15 DEF IInv

-----------------------------------------------------------------------------
(* The invariant is inductive. *)
THEOREM Inductive == Spec => []IInv
<1>1. IInv /\ [Next]_vars => IInv'
  <2> SUFFICES ASSUME IInv, [Next]_vars PROVE IInv'
    OBVIOUS
  <2>1. CASE \E m \in Base : ScheduleMap(m)
    BY <2>1, ScheduleMapStep
  <2>2. CASE EndSchedule \/ Wait \/ DelayedUpdate \/ Deactivate \/ Join
    BY <2>2, WorldThreadStep
  <2>3. CASE Environment
    BY <2>3, EnvironmentStep
  <2>4. ASSUME NEW w \in Worker, WorkerNext(w) PROVE IInv'
    BY <2>4, DequeueStep, ExitStep, MapUpdateStep, EndVisitStep, FinishStep, VisitScheduleStep,
       VisitUnloadStep DEF WorkerNext
  <2>5. CASE UNCHANGED vars
    <3>1. Busy' = Busy /\ Queued' = Queued /\ Taken' = Taken /\ AheadOf' = AheadOf
      BY <2>5 DEF vars, worker, Busy, Queued, Jobs, UpdateJobs, Taken, AheadOf
    <3>2. TypeOK' /\ ScheduledOnce' /\ ParentsComeFirst' /\ NothingLeft'
      BY <2>5, <3>1 DEF vars, maps, worker, IInv, TypeOK, ScheduledOnce, ParentsComeFirst,
                        NothingLeft
    <3> QED BY <2>5, <3>2, QuietStep DEF vars, maps, IInv, TakenLive
  <2> QED BY <2>1, <2>2, <2>3, <2>4, <2>5 DEF Next, WorldNext
<1> QED BY <1>1, InitIInv, PTL DEF Spec

(* Every variable keeps its type; pending_requests never becomes negative. *)
THEOREM TypeCorrect == Spec => []TypeOK
<1>1. IInv => TypeOK
  BY DEF IInv
<1> QED BY <1>1, Inductive, PTL

(* The counter the barrier waits for is exact. *)
THEOREM CounterIsExact == Spec => []PendingIsExact
<1>1. IInv => PendingIsExact
  BY DEF IInv
<1> QED BY <1>1, Inductive, PTL

(* Outside MapManager::Update the world thread is alone with the maps. *)
THEOREM BarrierHolds == Spec => []WorldThreadIsAlone
<1>1. IInv => WorldThreadIsAlone
  BY DEF IInv, NothingLeft, WorldThreadIsAlone
<1> QED BY <1>1, Inductive, PTL

(* No map is updated by two threads or has two requests. *)
THEOREM Exclusive == Spec => []UpdatesAreExclusive
<1>1. IInv => UpdatesAreExclusive
  BY DEF IInv
<1> QED BY <1>1, Inductive, PTL

(* No thread touches a map that was freed. *)
THEOREM NoFreedMap == Spec => []OnlyLiveMapsAreUpdated
<1>1. IInv => OnlyLiveMapsAreUpdated
  <2> SUFFICES ASSUME IInv PROVE OnlyLiveMapsAreUpdated
    OBVIOUS
  <2>1. Visits \subseteq Live
    BY DEF IInv, VisitsHaveAnOwner, Live, Visits
  <2>2. Taken \subseteq Live
    BY DEF IInv, TakenLive
  <2> QED BY <2>1, <2>2 DEF OnlyLiveMapsAreUpdated, Taken
<1> QED BY <1>1, Inductive, PTL

-----------------------------------------------------------------------------
(* Refinement *)

(* Between the updates nothing is due. *)
LEMMA NothingDue ==
  ASSUME IInv, toSchedule = {}, Busy = {}, queue = <<>>
  PROVE  AheadOf = {} /\ Visits = {} /\ Due = {}
<1>1. Queued = {} /\ UpdateJobs = {}
  BY DEF Queued, Range, UpdateJobs, Busy
<1>2. \A w \in Worker : toVisit[w] = {}
  BY DEF IInv, VisitsHaveAnOwner, Busy
<1> QED BY <1>1, <1>2 DEF AheadOf, Visits, Due

(* The queue refuses a request only if it is smaller than the number of maps. *)
LEMMA FullMeansSmall ==
  ASSUME IInv, world \in InUpdate, NEW m \in Map, m \notin Queued, Full \/ deactivated
  PROVE  HighWater < Cardinality(Map)
<1>1. Full
  BY DEF IInv, NothingLeft, InUpdate
<1>2. IsFiniteSet(Map) /\ Cardinality(Map) \in Nat
  BY MapAssumption, FS_Union, FS_CardinalityType DEF Map
<1>3. IsFiniteSet(Queued) /\ Cardinality(Queued) = Len(queue) /\ Len(queue) \in Nat
  BY QueueLength, LenProperties DEF IInv, TypeOK, UpdatesAreExclusive, Queued
<1>4. Queued \subseteq Map
  BY LenProperties, ElementOfSeq DEF IInv, TypeOK, Queued, Range
<1>5. Cardinality(Queued \cup {m}) = Cardinality(Queued) + 1
  BY <1>3, FS_AddElement
<1>6. Cardinality(Queued \cup {m}) <= Cardinality(Map)
  BY <1>2, <1>4, FS_Subset
<1> QED BY <1>1, <1>2, <1>3, <1>5, <1>6, QueueAssumption DEF Full
(* A request that schedule_update accepts, and one that it refuses. *)
LEMMA ScheduledSet ==
  ASSUME IInv, NEW m \in Map, m \notin Queued, schedule_update(m)
  PROVE  /\ ~(Full \/ deactivated) => Queued' = Queued \cup {m}
         /\ (Full \/ deactivated) => Queued' = Queued
<1>1. queue \in Seq(Map) /\ IsInjective(queue)
  BY DEF IInv, TypeOK, UpdatesAreExclusive
<1>2. CASE Full \/ deactivated
  BY <1>2 DEF schedule_update, Queued
<1>3. CASE ~(Full \/ deactivated)
  <2>1. queue' = Append(queue, m)
    BY <1>3 DEF schedule_update
  <2>2. Range(Append(queue, m)) = Range(queue) \cup {m}
    BY <1>1, PushToQueue DEF Queued
  <2> QED BY <1>3, <2>1, <2>2 DEF Queued
<1> QED BY <1>2, <1>3

LEMMA EnvironmentRefines ==
  ASSUME IInv, IInv', Environment
  PROVE  MT!Next
<1>1. /\ world = "idle" /\ Busy = {} /\ queue = <<>> /\ toSchedule = {}
      /\ UNCHANGED <<queue, worker>>
  BY DEF Environment, IInv, NothingLeft, InUpdate, CreateBaseMap, CreateInstance, BeginUpdate,
         UnloadAll
<1>2. Phase = "idle" /\ Due = {}
  BY <1>1, NothingDue DEF Phase, InUpdate
<1>3. /\ Queued' = {} /\ UpdateJobs' = {} /\ Visits' = {}
      /\ Busy' = {} /\ queue' = <<>>
  <2>1. Busy' = Busy /\ queue' = queue
    BY <1>1 DEF Busy, worker
  <2>2. Queued' = {} /\ UpdateJobs' = {}
    BY <1>1, <2>1 DEF Queued, Range, UpdateJobs, Busy
  <2>3. Visits' = Visits
    BY <1>1 DEF Visits, worker
  <2> QED BY <1>1, <2>1, <2>2, <2>3, NothingDue
<1>4. ASSUME NEW m \in Base, CreateBaseMap(m) PROVE MT!Next
  <2>1. m \in Base \cup Instance /\ m \notin Live /\ m \notin Instance
    BY <1>4, MapAssumption DEF CreateBaseMap, Live, IInv, TypeOK
  <2>2. Live' = Live \cup {m} /\ Phase' = Phase
    BY <1>4 DEF CreateBaseMap, Live, Phase
  <2>3. Due' = Due
    BY <1>2, <1>3, <1>1, <1>4 DEF CreateBaseMap, Due, AheadOf
  <2>4. MT!Create(m)
    BY <1>2, <2>1, <2>2, <2>3 DEF MT!Create
  <2> QED BY <2>1, <2>4 DEF MT!Next
<1>5. ASSUME NEW i \in Instance, CreateInstance(i) PROVE MT!Next
  <2>1. i \in Base \cup Instance /\ i \notin Live /\ Parent[i] \in Live
    BY <1>5, MapAssumption DEF CreateInstance, Live, IInv, TypeOK
  <2>2. Live' = Live \cup {i} /\ Phase' = Phase
    BY <1>5 DEF CreateInstance, Live, Phase
  <2>3. Due' = Due
    BY <1>2, <1>3, <1>1, <1>5 DEF CreateInstance, Due, AheadOf
  <2>4. MT!Create(i)
    BY <1>2, <2>1, <2>2, <2>3 DEF MT!Create
  <2> QED BY <2>1, <2>4 DEF MT!Next
<1>6. CASE BeginUpdate
  <2>1. Phase' = "updating" /\ Live' = Live
    BY <1>6 DEF BeginUpdate, Phase, InUpdate, maps, Live
  <2>2. Due' = Live
    BY <1>3, <1>6 DEF BeginUpdate, Due, AheadOf, Live, IInv, TakenLive, maps
  <2> QED BY <1>2, <2>1, <2>2 DEF MT!Next, MT!Begin
<1>7. CASE UnloadAll
  <2>1. Phase' = "down" /\ Live' = {}
    BY <1>7 DEF UnloadAll, Phase, InUpdate, Live
  <2>2. Due' = Due
    BY <1>1, <1>2, <1>3, <1>7 DEF UnloadAll, Due, AheadOf
  <2> QED BY <1>2, <2>1, <2>2 DEF MT!Next, MT!UnloadAll
<1> QED BY <1>4, <1>5, <1>6, <1>7 DEF Environment

LEMMA WorldThreadRefines ==
  ASSUME IInv, IInv', EndSchedule \/ Wait \/ DelayedUpdate \/ Deactivate \/ Join
  PROVE  MT!Next \/ UNCHANGED MT!vars
<1>1. UNCHANGED <<maps, toSchedule, pending_requests, queue, worker>>
  BY DEF EndSchedule, Wait, DelayedUpdate, Deactivate, Join
<1>2. Live' = Live /\ Due' = Due
  BY <1>1 DEF Live, Due, AheadOf, Visits, Queued, UpdateJobs, maps, worker
<1>3. CASE EndSchedule \/ Deactivate \/ Join
  <2>1. Phase' = Phase
    BY <1>3 DEF EndSchedule, Deactivate, Join, Phase, InUpdate
  <2> QED BY <1>2, <2>1 DEF MT!vars
<1>4. CASE Wait
  <2>1. CASE pending_requests > 0
    <3>1. Phase' = Phase
      BY <1>4, <2>1 DEF Wait, Phase, InUpdate
    <3> QED BY <1>2, <3>1 DEF MT!vars
  <2>2. CASE pending_requests = 0
    <3>1. Due = {}
      BY <1>4, <2>2, NothingPending, NothingDue DEF IInv, NothingLeft, Wait
    <3>2. Phase = "updating" /\ Phase' = "delayed"
      BY <1>4, <2>2 DEF Wait, Phase, InUpdate
    <3> QED BY <1>2, <3>1, <3>2 DEF MT!Next, MT!Delayed
  <2> QED BY <2>1, <2>2 DEF IInv, TypeOK
<1>5. CASE DelayedUpdate
  <2>1. Phase = "delayed" /\ Phase' = "idle"
    BY <1>5 DEF DelayedUpdate, Phase, InUpdate
  <2> QED BY <1>2, <2>1 DEF MT!Next, MT!End
<1> QED BY <1>3, <1>4, <1>5
LEMMA ScheduleMapRefines ==
  ASSUME IInv, NEW m \in Base, ScheduleMap(m)
  PROVE  MT!Next \/ UNCHANGED MT!vars
<1>1. /\ world = "schedule" /\ m \in toSchedule /\ toSchedule' = toSchedule \ {m}
      /\ schedule_update(m)
      /\ UNCHANGED <<maps, world, deactivated, worker>>
  BY DEF ScheduleMap
<1>2. m \in Map /\ m \notin Taken /\ m \notin Instance
  BY <1>1, MapAssumption DEF IInv, ScheduledOnce, Map
<1>3. Live' = Live /\ Phase' = Phase /\ Phase = "updating" /\ Visits' = Visits
      /\ UpdateJobs' = UpdateJobs /\ m_InstancedMaps' = m_InstancedMaps
  BY <1>1 DEF Live, Phase, InUpdate, Visits, UpdateJobs, maps, worker
<1>4. CASE ~(Full \/ deactivated)
  <2>1. Queued' = Queued \cup {m}
    BY <1>1, <1>2, <1>4, ScheduledSet DEF Taken
  <2>2. AheadOf' = AheadOf
    BY <1>1, <1>3, <2>1 DEF AheadOf
  <2>3. Due' = Due
    BY <1>3, <2>2 DEF Due
  <2> QED BY <1>3, <2>3 DEF MT!vars
<1>5. CASE Full \/ deactivated
  <2>1. Queued' = Queued
    BY <1>1, <1>2, <1>5, ScheduledSet DEF Taken
  <2>2. HighWater < Cardinality(Map)
    BY <1>1, <1>2, <1>5, FullMeansSmall DEF Taken, InUpdate
  <2>3. AheadOf' = AheadOf \ {m} /\ m \in AheadOf
    <3>1. UpdateJobs \subseteq Taken
      BY DEF UpdateJobs, Taken, Jobs, Busy
    <3> QED BY <1>1, <1>2, <1>3, <2>1, <3>1 DEF AheadOf, Taken
  <2>4. \A i \in Instance : Parent[i] = m => i \notin AheadOf /\ i \notin Visits
    <3> SUFFICES ASSUME NEW i \in Instance, Parent[i] = m PROVE i \notin AheadOf /\ i \notin Visits
      OBVIOUS
    <3>1. i \notin Taken
      BY <2>3 DEF IInv, ParentsComeFirst
    <3>2. i \notin toSchedule
      BY MapAssumption DEF IInv, TypeOK
    <3>3. UpdateJobs \subseteq Taken
      BY DEF UpdateJobs, Taken, Jobs, Busy
    <3>4. ASSUME NEW w \in Worker, i \in toVisit[w] PROVE FALSE
      <4>1. pc[w] = "visiting" /\ job[w] = m
        BY <3>4 DEF IInv, VisitsHaveAnOwner
      <4>2. m \in Jobs
        BY <4>1 DEF Jobs, Busy
      <4> QED BY <1>2, <4>2 DEF Taken
    <3> QED BY <3>1, <3>2, <3>3, <3>4 DEF AheadOf, Visits, Taken
  <2>5. m \notin Visits /\ m \notin m_InstancedMaps /\ m_InstancedMaps \subseteq Instance
    BY <1>2 DEF IInv, TypeOK, Visits
  <2>6. Due' = Due \ MT!Family(m)
    BY <1>3, <2>3, <2>4, <2>5 DEF Due, MT!Family
  <2>7. MT!Ready(m)
    BY <1>2, <2>3 DEF MT!Ready, Due
  <2>8. MT!Skip(m)
    BY <1>3, <2>2, <2>6, <2>7 DEF MT!Skip
  <2> QED BY <2>8 DEF MT!Next
<1> QED BY <1>4, <1>5

(* Taking a request, leaving the visit and finishing do not show. *)
LEMMA WorkerStutters ==
  ASSUME IInv, NEW w \in Worker, Dequeue(w) \/ Exit(w) \/ EndVisit(w) \/ Finish(w)
  PROVE  UNCHANGED MT!vars
<1>1. UNCHANGED <<maps, toSchedule, toVisit>>
  BY DEF Dequeue, Exit, EndVisit, Finish
<1>2. Phase' = Phase
  BY DEF Dequeue, Exit, EndVisit, Finish, update_finished, Phase, InUpdate
<1>3. CASE Dequeue(w)
  <2>1. queue \in Seq(Map) /\ IsInjective(queue) /\ queue # <<>>
    BY <1>3 DEF IInv, TypeOK, UpdatesAreExclusive, Dequeue
  <2>2. Queued' = Queued \ {Head(queue)} /\ Head(queue) \in Queued
    BY <1>3, <2>1, PopFromQueue DEF Queued, Dequeue
  <2>3. UpdateJobs' = UpdateJobs \cup {Head(queue)}
    BY <1>3 DEF UpdateJobs, Dequeue, IInv, TypeOK
  <2> QED BY <1>1, <1>2, <2>2, <2>3 DEF MT!vars, Live, Due, AheadOf, Visits, maps
<1>4. CASE Exit(w) \/ EndVisit(w) \/ Finish(w)
  <2>1. Queued' = Queued
    BY <1>4 DEF Queued, Exit, EndVisit, Finish
  <2>2. UpdateJobs' = UpdateJobs
    BY <1>4 DEF UpdateJobs, Exit, EndVisit, Finish, IInv, TypeOK
  <2> QED BY <1>1, <1>2, <2>1, <2>2 DEF MT!vars, Live, Due, AheadOf, Visits, maps
<1> QED BY <1>3, <1>4

LEMMA MapUpdateRefines ==
  ASSUME IInv, NEW w \in Worker, MapUpdate(w)
  PROVE  MT!Next
<1> DEFINE b == job[w]
<1>1. /\ pc[w] = "updating" /\ pc' = [pc EXCEPT ![w] = "visiting"]
      /\ toVisit' = [toVisit EXCEPT ![w] = Children(b)]
      /\ UNCHANGED <<maps, toSchedule, world, pending_requests, queue, deactivated, job>>
  BY DEF MapUpdate
<1>2. w \in Busy /\ b \in Map /\ b \in UpdateJobs /\ b \in Jobs
  BY <1>1 DEF Busy, Jobs, UpdateJobs, IInv, JobsAreMaps
<1>3. \A v \in Busy : job[v] = b => v = w
  BY <1>2 DEF IInv, UpdatesAreExclusive
<1>4. UpdateJobs' = UpdateJobs \ {b}
  BY <1>1, <1>3 DEF UpdateJobs, Busy, IInv, TypeOK
<1>5. b \notin Queued /\ b \notin toSchedule
  BY <1>2 DEF IInv, UpdatesAreExclusive, ScheduledOnce, Taken
<1>6. AheadOf' = AheadOf \ {b} /\ b \in AheadOf
  BY <1>1, <1>2, <1>4, <1>5 DEF AheadOf, Queued
<1>7. toVisit[w] = {}
  BY <1>1 DEF IInv, VisitsHaveAnOwner
<1>8. Visits' = Visits \cup Children(b)
  BY <1>1, <1>7 DEF Visits, IInv, TypeOK
<1>9. b \notin Visits /\ (b \in Instance => Parent[b] \notin AheadOf)
  BY <1>2 DEF IInv, VisitsHaveAnOwner, ParentsComeFirst, Visits, Taken
<1>10. b \notin Children(b)
  BY MapAssumption DEF Children, IInv, TypeOK
<1>11. Live' = Live /\ Phase' = Phase /\ Phase = "updating" /\ m_InstancedMaps' = m_InstancedMaps
  BY <1>1, <1>2, BusyMeansTick DEF Live, Phase, maps
<1> HIDE DEF b
<1>12. Due' = Due \ {b}
  <2>1. m_InstancedMaps \subseteq Instance
    BY DEF IInv, TypeOK
  <2>2. Due' = (AheadOf \ {b}) \cup (Visits \cup Children(b))
               \cup {i \in m_InstancedMaps : Parent[i] \in AheadOf \ {b}}
    BY <1>6, <1>8, <1>11 DEF Due
  <2>3. \A i \in m_InstancedMaps : Parent[i] \in AheadOf <=>
           i \in Children(b) \/ Parent[i] \in AheadOf \ {b}
    BY <1>6 DEF Children
  <2>4. Children(b) \subseteq m_InstancedMaps
    BY DEF Children
  <2>5. \A i \in m_InstancedMaps : Parent[i] \in AheadOf => i # b
    BY <1>9, <2>1
  <2> QED BY <1>9, <1>10, <2>2, <2>3, <2>4, <2>5 DEF Due
<1>13. MT!Ready(b)
  <2>1. ASSUME b \in Instance PROVE Parent[b] \notin Due
    <3>1. Parent[b] \in Base /\ Parent[b] \notin Instance
      BY <2>1, MapAssumption
    <3>2. Visits \subseteq Instance /\ m_InstancedMaps \subseteq Instance
      BY DEF Visits, IInv, TypeOK
    <3> QED BY <1>9, <2>1, <3>1, <3>2 DEF Due
  <2> QED BY <1>6, <2>1 DEF MT!Ready, Due
<1>14. MT!Update(b)
  BY <1>11, <1>12, <1>13 DEF MT!Update
<1> QED BY <1>2, <1>14 DEF MT!Next, Map

(* What a visited instance leaves: toVisit, and with it the tick or not. *)
LEMMA VisitedIsReady ==
  ASSUME IInv, NEW w \in Worker, pc[w] = "visiting", NEW i \in toVisit[w]
  PROVE  /\ MT!Ready(i) /\ Phase = "updating" /\ MT!Family(i) = {i}
         /\ \A k \in m_InstancedMaps : Parent[k] \in AheadOf => k # i
         /\ \A k \in Instance : Parent[k] # i
         /\ toVisit' = [toVisit EXCEPT ![w] = toVisit[w] \ {i}] => Visits' = Visits \ {i}
<1>1. /\ w \in Busy /\ i \in Instance /\ i \notin Taken /\ Parent[i] \notin AheadOf
      /\ \A v \in Worker : v # w => i \notin toVisit[v]
  BY Visited
<1>2. Parent[i] \in Base /\ Parent[i] \notin Instance
  BY <1>1, MapAssumption
<1>3. Visits \subseteq Instance /\ m_InstancedMaps \subseteq Instance /\ i \in Visits
  BY DEF Visits, IInv, TypeOK
<1>4. MT!Ready(i)
  BY <1>1, <1>2, <1>3 DEF MT!Ready, Due
<1>5. Phase = "updating"
  BY <1>1, BusyMeansTick DEF Phase
<1>6. \A k \in Instance : Parent[k] # i
  BY <1>1, MapAssumption
<1>7. MT!Family(i) = {i}
  BY <1>6 DEF MT!Family
<1>8. ASSUME toVisit' = [toVisit EXCEPT ![w] = toVisit[w] \ {i}] PROVE Visits' = Visits \ {i}
  BY <1>1, <1>8 DEF Visits, IInv, TypeOK
<1> QED BY <1>1, <1>4, <1>5, <1>6, <1>7, <1>8

LEMMA VisitRefines ==
  ASSUME IInv, NEW w \in Worker, NEW i \in Instance, VisitSchedule(w, i) \/ VisitUnload(w, i)
  PROVE  MT!Next \/ UNCHANGED MT!vars
<1>1. /\ pc[w] = "visiting" /\ i \in toVisit[w]
      /\ toVisit' = [toVisit EXCEPT ![w] = toVisit[w] \ {i}]
      /\ UNCHANGED <<i_maps, toSchedule, world, deactivated, pc, job>>
  BY DEF VisitSchedule, VisitUnload, maps
<1>2. /\ MT!Ready(i) /\ Phase = "updating" /\ MT!Family(i) = {i}
      /\ \A k \in m_InstancedMaps : Parent[k] \in AheadOf => k # i
      /\ \A k \in Instance : Parent[k] # i
      /\ Visits' = Visits \ {i}
  BY <1>1, VisitedIsReady
<1>3. /\ w \in Busy /\ i \in m_InstancedMaps /\ i \notin Taken /\ i \notin AheadOf
      /\ i \in Map /\ i \in Visits
  BY <1>1, Visited DEF Map, Visits
<1>4. UpdateJobs' = UpdateJobs /\ Phase' = Phase
  BY <1>1 DEF UpdateJobs, Phase
<1>5. m_InstancedMaps \subseteq Instance
  BY DEF IInv, TypeOK
<1>6. CASE VisitSchedule(w, i)
  <2>1. schedule_update(i) /\ Live' = Live /\ m_InstancedMaps' = m_InstancedMaps
    BY <1>6 DEF VisitSchedule, Live, maps
  <2>2. CASE ~(Full \/ deactivated)
    <3>1. Queued' = Queued \cup {i}
      BY <1>3, <2>1, <2>2, ScheduledSet DEF Taken
    <3>2. AheadOf' = AheadOf \cup {i}
      BY <1>1, <1>4, <3>1 DEF AheadOf
    <3>3. Due' = Due
      BY <1>2, <1>3, <1>5, <2>1, <3>2 DEF Due
    <3> QED BY <1>4, <2>1, <3>3 DEF MT!vars
  <2>3. CASE Full \/ deactivated
    <3>1. Queued' = Queued
      BY <1>3, <2>1, <2>3, ScheduledSet DEF Taken
    <3>2. AheadOf' = AheadOf
      BY <1>1, <1>4, <3>1 DEF AheadOf
    <3>3. Due' = Due \ {i}
      BY <1>2, <1>3, <2>1, <3>2 DEF Due
    <3>4. HighWater < Cardinality(Map)
      BY <1>3, <2>3, BusyMeansTick, FullMeansSmall DEF Taken
    <3>5. MT!Skip(i)
      BY <1>2, <1>4, <2>1, <3>3, <3>4 DEF MT!Skip
    <3> QED BY <3>5 DEF MT!Next
  <2> QED BY <2>2, <2>3
<1>7. CASE VisitUnload(w, i)
  <2>1. /\ m_InstancedMaps' \in {m_InstancedMaps, m_InstancedMaps \ {i}} /\ queue' = queue
        /\ i_maps' = i_maps
    BY <1>7 DEF VisitUnload
  <2>2. i \notin i_maps
    BY MapAssumption DEF IInv, TypeOK
  <2>3. Live' \in {Live, Live \ {i}}
    BY <2>1, <2>2 DEF Live
  <2>4. AheadOf' = AheadOf
    BY <1>1, <1>4, <2>1 DEF AheadOf, Queued
  <2>5. Due' = Due \ {i}
    BY <1>2, <1>3, <2>1, <2>4 DEF Due
  <2>6. MT!Unload(i)
    BY <1>2, <1>4, <2>3, <2>5 DEF MT!Unload
  <2> QED BY <2>6 DEF MT!Next
<1> QED BY <1>6, <1>7

(* The threads implement the tick of MapTick. *)
THEOREM Refinement == Spec => ImplementsMapTick
<1>1. Init => MT!Init
  <2> SUFFICES ASSUME Init PROVE MT!Init
    OBVIOUS
  <2>1. IInv /\ toSchedule = {} /\ Busy = {} /\ queue = <<>>
    BY InitIInv DEF Init, Busy
  <2>2. Due = {} /\ Live = {} /\ Phase = "idle"
    BY <2>1, NothingDue DEF Init, Live, Phase, InUpdate
  <2> QED BY <2>2 DEF MT!Init
<1>2. IInv /\ IInv' /\ [Next]_vars => [MT!Next]_(MT!vars)
  <2> SUFFICES ASSUME IInv, IInv', [Next]_vars PROVE MT!Next \/ UNCHANGED MT!vars
    OBVIOUS
  <2>1. CASE Next
    <3>1. ASSUME NEW w \in Worker, WorkerNext(w) PROVE MT!Next \/ UNCHANGED MT!vars
      BY <3>1, WorkerStutters, MapUpdateRefines, VisitRefines DEF WorkerNext
    <3>2. CASE WorldNext
      BY <3>2, ScheduleMapRefines, WorldThreadRefines DEF WorldNext
    <3>3. CASE Environment
      BY <3>3, EnvironmentRefines
    <3> QED BY <2>1, <3>1, <3>2, <3>3 DEF Next
  <2>2. CASE UNCHANGED vars
    BY <2>2 DEF vars, maps, worker, MT!vars, Live, Due, Phase, AheadOf, Visits, Queued, UpdateJobs
  <2> QED BY <2>1, <2>2
<1> QED BY <1>1, <1>2, Inductive, PTL DEF Spec, ImplementsMapTick, MT!Spec
=============================================================================
