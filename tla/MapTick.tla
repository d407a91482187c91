------------------------------ MODULE MapTick ------------------------------
(***************************************************************************)
(* What MapManager::Update promises, whatever threads it uses: in a tick   *)
(* every map is updated at most once, an instance only after the map it    *)
(* hangs on, all of them before any delayed update, and nothing else       *)
(* changes the set of maps meanwhile.                                      *)
(***************************************************************************)
EXTENDS Naturals

CONSTANTS Base,      \* maps of the world: continents and MapInstanced
          Instance,  \* instance and battleground maps
          Parent,    \* the MapInstanced an instance hangs on
          MaySkip    \* a map may miss a tick because the work queue is full

VARIABLES live,      \* the maps that exist
          due,       \* those the current tick has still to update
          phase      \* "idle", "updating", "delayed" or "down"

vars == <<live, due, phase>>

\* A map with what hangs on it
Family(m) == {m} \cup {i \in Instance : Parent[i] = m}

\* It is the turn of m: the map it hangs on was updated.
Ready(m) == m \in due /\ (m \in Instance => Parent[m] \notin due)

Init == live = {} /\ due = {} /\ phase = "idle"

\* Maps are created by the world thread, between the updates.
Create(m) ==
  /\ phase = "idle" /\ m \notin live
  /\ m \in Instance => Parent[m] \in live
  /\ live' = live \cup {m}
  /\ UNCHANGED <<due, phase>>

Begin ==
  /\ phase = "idle"
  /\ phase' = "updating"
  /\ due' = live
  /\ UNCHANGED live

Update(m) ==
  /\ phase = "updating" /\ Ready(m)
  /\ due' = due \ {m}
  /\ UNCHANGED <<live, phase>>

\* The work queue is full: neither the map nor what hangs on it is updated.
Skip(m) ==
  /\ MaySkip /\ phase = "updating" /\ Ready(m)
  /\ due' = due \ Family(m)
  /\ UNCHANGED <<live, phase>>

\* An instance whose time is up is unloaded, or left alone while players are
\* still in it.
Unload(i) ==
  /\ phase = "updating" /\ i \in Instance /\ Ready(i)
  /\ due' = due \ {i}
  /\ live' \in {live, live \ {i}}
  /\ UNCHANGED phase

\* All threads have finished: the delayed updates run, alone.
Delayed ==
  /\ phase = "updating" /\ due = {}
  /\ phase' = "delayed"
  /\ UNCHANGED <<live, due>>

End ==
  /\ phase = "delayed"
  /\ phase' = "idle"
  /\ UNCHANGED <<live, due>>

UnloadAll ==
  /\ phase = "idle"
  /\ live' = {} /\ phase' = "down"
  /\ UNCHANGED due

Next ==
  \/ \E m \in Base \cup Instance : Create(m) \/ Update(m) \/ Skip(m) \/ Unload(m)
  \/ Begin \/ Delayed \/ End \/ UnloadAll

Spec == Init /\ [][Next]_vars
=============================================================================
