# TLA+ models of the Project Justice server

Project Justice is a World of Warcraft 3.3.5 server in C++ (a TrinityCore
derivative). The code modelled here is the newer copy, `src/TrinityCore/src/server`;
`src/TC` is an older copy of the same server, `src/Custom` holds data and a script.
This directory is the server's verification project: specifications translated from
the code, TLC configurations that check them on small instances, and proofs for
every value of the parameters.

There are no unit tests in the repository; what the code promises is said in its
comments and in `worldserver/worldserver.conf.dist`.

## The system

| Part | State | Operations | Talks to |
| --- | --- | --- | --- |
| Network threads (`WorldSocketMgr`, `WorldSocket`) | one socket per client, output buffers, a pointer to its session | open, read a packet, authenticate, send, close | hand sessions to the world thread (`addSessQueue`), packets to a session's receive queue |
| World (`World`, `WorldRunnable`) | session map, login queue, player limit, disconnect times, timers, shutdown timer | one tick: admit, update and drop sessions, update maps, timers, resets | everything |
| Session (`WorldSession`) | account, player or loading flag, receive queue, query callbacks, logout timer | `Update` under a packet filter, login, logout, kick | world thread and map threads |
| Map updates (`MapManager`, `MapInstanced`, `MapUpdater`, `DelayExecutor`) | base maps, instance maps, pending request counter, request queue | schedule, update, wait, delayed update, create, unload | map threads |
| Instances (`MapManager` ids, `InstanceSaveMgr`, `InstanceMap`) | bit vector of ids, saves, binds, reset events, instance rows | generate and free an id, bind, reset, unload, load at start | database, map updates |
| Database pool (`DatabaseWorkerPool`, `DatabaseWorker`, `Transaction`) | operation queue, connections | execute, query, transaction, close | every part |
| Groups, loot rolls, dungeon finder, battleground queues, arena teams | members, votes, rolls, invitations with timeouts | join, leave, roll, vote, expire | world thread, sometimes map threads |
| Auction house, mail, trade, guild bank | items, money, bids | bid, expire, send, withdraw | database |
| Authentication server | SRP6 exchange of a client, realm list | challenge, proof, reconnect | database |
| Spells, combat, AI, scripts, collision | numeric game rules, content | - | - |

What is hard in this code is where those parts meet: network threads that create and
close what the world thread owns; a login queue kept in three places (session map,
queue, flag); map updates on worker threads which schedule more updates; ids and saves
of instances that are freed while maps still use them; asynchronous database operations
whose order the callers rely on; and timers of minutes or hours that fire after the
state they were set for has changed. `PROJECT.json` lists each hazard at its line with
the properties that cover it.

What makes each component correct:

* admission: the limit holds, nobody waits beside a free slot, the queue is fair and
  never points to a freed session, an account has one character in the world, every lost
  connection is dropped, shutdown frees every session it has kicked;
* map updates: outside the parallel part of a tick the world thread is alone, no map is
  updated twice or after it was freed, a tick always ends, shutdown joins the threads;
* instances: an id in use is not handed out again, binds refer to loaded saves, a reset
  concerns the instance it was scheduled for, empty maps are unloaded;
* database pool: operations take effect in the order in which they were queued, each whole
  or not at all, and a crash loses a tail of them;
* packets: each is handled once, in order, in a thread that may handle it;
* loot rolls: the totals that end a roll count its votes, an item is out of reach while it
  is rolled for, the best answer wins, every roll ends;
* auctions and mail: every item is in one place and no gold is lost or doubled whenever the
  server stops, an auction whose time is up is settled.

## Modules

| Module | Models | Used by |
| --- | --- | --- |
| `SessionQueue` | admission of sessions, login queue, drop, shutdown (`World.cpp`, part of `WorldSession.cpp`, `WorldSocket.cpp`, `WorldRunnable.cpp`) | `SessionQueueMC`, `SessionQueue_proofs` |
| `QueueLemmas` | facts about sequences without duplicates | `SessionQueue_proofs`, `MapUpdater_proofs` |
| `MapTick` | abstract: what one tick of map updates promises | `MapUpdater` (refinement) |
| `MapUpdater` | world thread, workers, request queue, instance unloading, shutdown (`MapManager.cpp`, `MapInstanced.cpp`, `MapUpdater.cpp`, `DelayExecutor.cpp`) | `MapUpdaterMC`, `MapUpdater_proofs` |
| `InstanceIds` | the allocator of instance ids (`MapManager.cpp` 369-433, `LoadResetTimes`) | `InstanceIds_proofs` |
| `Lockouts` | abstract: a party's lock to an instance | `Instances` (refinement) |
| `Instances` | entering and leaving instance maps, saves, binds, resets, restart (`InstanceSaveMgr.cpp`, `MapInstanced.cpp`, `InstanceMap` in `Map.cpp`, and their callers in `Player.cpp`, `Group.cpp`, `WorldSession.cpp`, `MovementHandler.cpp`) | `InstancesMC`, `Instances_proofs` |
| `LootRolls` | rolls of a group for loot (`Group.cpp`, and their callers in `Player.cpp`, `Creature.cpp`, `LootMgr.cpp`) | `LootRollsMC`, `LootRolls_proofs` |
| `Auctions` | auction house and the mail it pays with, over a database written behind (`AuctionHouseMgr.cpp`, `AuctionHouseHandler.cpp`, `MailHandler.cpp`) | `AuctionsMC`, `Auctions_proofs` |
| `WriteLog` | abstract: what those who queue operations may rely on | `DatabasePool` (refinement) |
| `DatabasePool` | asynchronous queue, workers, connections (`DatabaseWorkerPool.h`, `DatabaseWorker.cpp`, `Transaction.cpp`, `MySQLConnection.cpp`) | `DatabasePoolMC`, `DatabasePool_proofs` |

### SessionQueue

A session object is a member of `Session`, used at most once; `stage` is its life
(`select` at the character screen, `loading`, `ingame`, `deleted`). `m_sessions`,
`m_QueuedPlayer`, `addSessQueue`, `m_playerLimit` and `m_disconnects` keep their names;
`inQueue` is the set of sessions whose `m_inQueue` flag is set, `closed` those whose
socket is closed. `phase` says where the world
thread is: adding the new sessions of a tick, visiting the listed ones (`pending` are
those still to visit), idle between ticks, or past the loop.

`HandleAuthSession`, `CloseSocket` belong to the network threads and may come between
any two steps of the world thread, between two iterations of each of its loops in
particular. `AddSession_`/`RefuseSession` are one iteration of the first loop of
`UpdateSessions`, `KeepSession`/`DropSession` one of the second: the whole body
including the two calls of `RemoveQueuedPlayer`, which is an operator on queue and
flags. `KickAll`, `EndTick` and `DestroyWorld` are the end of `WorldRunnable::run`; `kicked`
is not in the code, it remembers whom `KickAll` kicked, of whom `KickedAreRemoved` says that
the one last update frees them all.
What a session does while it is updated is abstracted to any change of stage.

### MapTick and MapUpdater

`MapTick` says what callers of `MapManager::Update` rely on. A tick begins with all
existing maps due; each is updated at most once, an instance after the map it hangs on;
only when none is due do the delayed updates run; instances may be unloaded by the map
they hang on, and maps appear only between ticks. If the work queue may be smaller
than the number of maps (`MaySkip`), a map may miss a tick together with its instances.

`MapUpdater` is the code: `pending_requests`, the executor's `queue` (requests are
represented by their maps), the world thread's position, and for every worker its
position, the map of its request and the instances that the loop of
`MapInstanced::Update` has yet to visit. A step of a worker is what it does under one lock
or between two: dequeue, `Map::Update`, one iteration of the loop, the end of the request.
The refinement maps `due` to everything that is still to be scheduled, queued or being
updated, together with the instances that hang on those maps.

### InstanceIds

The vector of bits is `instanceIds`, `size` and `capacity`; the library doubles the
allocation in whole words. `Init` is `InitInstanceIds` with any set of saved rows,
`RegisterInstanceId` one row of `LoadResetTimes`, then ids are generated and freed in any
order; an id may be freed twice, as the second reset event of an instance does. `owners`
is not in the code: it counts the live instances with an id. Writing past the end is
undefined behaviour; the model takes it to change nothing the program can rely on, which
is what happens while the word is allocated but not part of the vector, and keeps
`overrun` to say that it happened. What the rest of memory suffers is not modelled.

### Lockouts and Instances

`Lockouts` is the promise to players: a party (a player alone or a group) is locked to at
most one instance of a dungeon, no two parties share one, and the lock disappears only
by a reset. `Instances` is the code that keeps it with much less obvious means:
binds in memory (`bind`), loaded saves with lists of those bound (`save`), rows in the
database (`row`, `dbBind`), ids in use (`used`), scheduled resets (`events`), map objects
(`map`, `timer`) and their registry (`m_InstancedMaps`). A lock is a party's row in the
database, so the refinement speaks of logouts and restarts too.

A player is offline, outside, inside a dungeon, or in transit: `TeleportTo` has removed
him from the map, and the link `m_mapRef` stays until his client answers
(`HandleMoveWorldportAckOpcode`). `EnterLoaded`, `EnterSaved` and `EnterNew` are the three
cases of `MapInstanced::CreateInstance` together with `InstanceMap::Add`, which makes the
save and the bind; `Leave`, `Arrive`, `Logout` and `Login` follow the handlers in the order in which
they touch saves and maps; `ResetInstances` is what players ask for, `FireReset` one
event taken by `InstanceSaveManager::Update`, `Unload` the end of a map in
`MapInstanced::Update`, `Restart` a stop or crash followed by `LoadInstances`. A row whose reset
time is not in the future at the start is kept and its id marked, but `LoadResetTimes` schedules
nothing for it; `late` remembers these ids until a reset is scheduled again. Time is abstracted: an event is due two hours after the instance was made or last used, so any
pending event may be the next to become due. The allocator is used as `InstanceIds`
proves it to work while its vector is not overrun: `Generate` gives the lowest free id.

### LootRolls

A roll is a record with the fields of the class `Roll`: the votes, the four totals, and
whether it is still in the group's `RollId`; when it has ended its votes stay in the model
and `won` says who was announced. `again` (a player answered who had a vote already) and `absent`
(the winner was not in the world) are remembered for the properties. `source` is a corpse or a chest with its group loot
timer, `item` the two flags of a `LootItem`. `SendLoot` starts the rolls for all items of a
source at once, with any of the present members as voters and any of those as players who
pass on everything (eligibility depends on class, bags and quests). Neither `HandleLootRoll` nor
`Group::CountRollVote` asks whether a player has answered: a second answer replaces his vote and
raises a total again, and so it does in the model. `CountRollVote` with `CountTheRoll` is one action, since both run in one handler, as is `Expire` with
`EndRoll`; `Results` is every way in which `CountTheRoll` may end: the winner by dice, and
for him the item given, left to be looted (no room), or forgotten (not in the world, or greed
was counted and nobody's vote is greed any more).
`RemoveMember`, `Disband`, `AddMember` and the two world actions are what happens to the
voters meanwhile.

### Auctions

`Books` is what the server (`mem`) and the database (`db`) each believe: gold and
items of players and of their mail, and the auctions; `sunk` is what the house has
kept and what was above the most a player can hold (`MAX_MONEY_AMOUNT`, `MaxMoney` in the model):
`HandleMailTakeMoney` empties the mail whatever `ModifyMoney` adds to the purse. Nobody
stores it, the books need it to balance. Each handler is one action: it
changes `mem` and queues its one transaction (`Commit`), `Work` executes one, and
`Stop` loses the queue, as a crash and `Close` do. The start of the server is three actions in the order
of `World::SetInitialWorldSettings`: settle what ran out meanwhile, load the items, load
the auctions; the reads see what has been executed, and the worker goes on between them.
`Update` asks the database which auctions are over and settles those that the memory still
has; it then erases the item from `mAitems` through a freed entry, so which of them stay
there is left open (`kept`). The auction of an item stands for its id.

### WriteLog and DatabasePool

`WriteLog` is the promise to whoever queues operations: they take effect in order, each with all
its statements or with none, or fail; when the pool goes down the rest never
happens. If the connection breaks during an operation, or the server does not start it as a
transaction, any of its statements may take effect, but none after one of a later operation.

`DatabasePool` is the code, down to single statements. `Offer` and `Enqueue` are the call
and the return of `Enqueue`, which blocks at the high-water mark; a worker takes an
operation (`Dequeue`) and goes through `step` 0 (START TRANSACTION), the statements,
COMMIT or ROLLBACK. Each of them succeeds, is refused (`Refuse`), or breaks the connection (`Lose`).
A statement is refused with or without the end of the transaction, as for a deadlock's victim;
a refused START TRANSACTION begins none, and the statements then take effect one by one; a
refused COMMIT or ROLLBACK undoes. `ExecuteTransaction` looks at the results of the statements only, so an
operation whose COMMIT was refused is done: `torn` and `uncommitted` remember both kinds for the properties.
`Reconnect` is `_HandleMySQLErrno`, after which the current statement, and only that, is executed again,
unless the server does not take the connection or a statement could not be prepared again
(`flawed`, `m_prepareError`, which is never cleared): then `Execute` returns false.
`inTrans`, `undo` and `disk` are the server's side. The retry of `TransactionTask` is in
the model only as what the code makes of it, nothing: it asks for the error
after the rollback. The refinement takes the worker's operation and the queue for what is
pending, and holds for one worker, the default of `worldserver.conf.dist`.
`Auctions` uses the pool as `WriteLog` describes it while no connection breaks.

## Runs

| Run | Instance | Shows |
| --- | --- | --- |
| `session_queue` | three players and a GM, four sessions, limit changed between 1 and 2 | safety of admission and queue while operators change the limit; whom `KickAll` kicks is freed by the last update |
| `session_privileged` | the same, limit 1 | *violation*: a player waits for a game master's slot |
| `session_queue_live` | two players, three sessions, tolerance of one second, limit 1 | lost connections are dropped |
| `session_bypass` | tolerance of one second | *violation*: the tolerance never expires |
| `map_updater` | 3 base maps, 3 instances, 2 workers, queue of 3 | safety, refinement of `MapTick` with requests accepted and refused, ticks end, shutdown joins the workers |
| `instance_ids` | chunks of 2, words of 4, ids to 10, every set of saved rows | no id is shared and none skipped unless the vector was overrun, and what overruns it |
| `instance_ids_shared` | the same | *violation*: an id in use is handed out again |
| `instances` | a group of two, a player alone, one dungeon, two maps, two ids | safety, the refinement of `Lockouts`, and every id in use is freed at last, or left without a reset by a start |
| `instances_orphan` | the same with three maps | *violation*: a map with players is replaced in the registry |
| `loot_rolls` | a party of three, a corpse and a chest with an item each | totals, blocked items and winners are right whoever leaves, and what repeated answers do to them; which rolls end |
| `auctions` | three players, one item, prices 1 and 2, purses of at most 3, a stop of the server | items and gold are conserved in what the database has executed, at every moment; expired auctions are settled |
| `database_pool` | two threads, one worker, two transactions of two statements and a single one, a queue of 2, two losses | outcomes are true, the refinement of `WriteLog`, operations end |

The largest are `loot_rolls` with 820,136 distinct states, `auctions` with 278,522, `database_pool` with
200,899 and `instances` with 104,440; in each of them TLC explores all of its instance.

Bounds. Three players and a GM with a limit of one are enough for one player inside, two
in the queue and the GM passing the limit; with four sessions one of these logins is a
reconnect in every position. Two players are not enough: the count that
`RemoveQueuedPlayer` compares matters when one of two waiting sessions leaves. In `MapUpdater` an instance is created at most
once (re-creating a map gives a new object, and two instances of one `MapInstanced` show
what two generations would); two workers can be inside a parent and one of its instances, or
in two maps, at once, and more are covered by the proofs; `HighWater` is 1024 in the server (16 KB of 16
bytes each), and a queue of 3 is full in some ticks and holds every request in others. Sessions and players'
accounts are interchangeable, so symmetry is used in the safety runs of `SessionQueue` and in
`instances_orphan`, but never where liveness is checked.

Deadlock checking is off where the system may really stop: `SessionQueue`, `MapUpdater` and
`DatabasePool` end when the server has stopped, and in `Auctions` nothing is left to do once
the only item is lost. It is on in the others.

In `InstanceIds` a chunk of 2 and words of 4 stand for 32 and 64, so that ten ids cross
several chunks, the growth by a chunk, by doubling and to the capacity; `owners` saturates
at 2, "more than one". In `Instances` two ids let one be used again while the other is in
use, and two map objects let an orphan and its successor exist at once; `instances_orphan` has a third
for a map beside them. More dungeons, parties and maps are covered by the proofs.
`MaxEvents` = 2 pending resets of one instance are the first one and the one of a logout, more of
the same differ in nothing. An action that needs an id, object or event beyond the bound
is not taken.

In `LootRolls` three voters give every tie, every majority and a disbanding group after one
departure; one source is opened (`MaxOpened`), either the corpse or the chest, because
rolls of different sources share only the members. In `Auctions` a seller and two bidders
are what a refund needs; a cut of half and a deposit of one coin make each sum differ from
the others; `MaxMoney` = 3 lets a purse overflow by what one mail brings, while two of the players can hold
what they own; two pending transactions (`MaxPending`, handlers wait beyond it) let the
database be behind by a bid and a settlement, and `MaxStops` = 1 stop of the server shows what a restart finds.
In `DatabasePool` a transaction of two statements can be torn after each of them; `MaxLosses` = 2 lets the
connection break again during the statement it was opened for.

Fairness. `WF_vars(WorldStep)`: the world loop has no blocking call between ticks except a
sleep, and goes on until `IsStopped`. In `MapUpdater`, weak fairness of the world thread's
own steps and of each worker: the operating system schedules threads, and every map
update returns. The beginning of a tick, shutdown and the creation of maps are
not fair: nothing in the properties depends on them. In `Instances` each `FireReset` is
weakly fair: `World::Update` calls `InstanceSaveManager::Update` on every tick, it
takes every due event, and an event's time does come. In `LootRolls` the timer of a
source: the map updates the corpses and chests near to players. In `Auctions`
`Update`, which the world thread calls once a minute, and `Work`. In `DatabasePool` the
return of `Enqueue` when there is room, and the steps of each worker: MySQL answers or the connection
breaks. What players, operators and a crash do is never fair.

## Findings

* `worldserver.conf.dist:173` says that the limit is the number of players without moderators, game masters
  and administrators. The code lets those in past the limit (`World.cpp:263`) but counts them against it
  (`World.h:533`): with a limit of one and a game master inside, a player waits with nobody in the world
  (`session_privileged`). `NoOneWaitsForAFreeSlot` and `PlayerLimitHolds` say what holds: nobody waits
  while fewer *sessions* than the limit are active, and no more *players* than the limit are inside.
* `HasRecentlyDisconnected` (`World.cpp:300`) passes the two times to `difftime` in the
  wrong order: the difference is never positive, an entry never expires, and an
  account that once lost its connection passes the player limit for ever
  (`session_bypass`).
* The vector of instance ids is sized by rounding an *index* up to a multiple of 32
  (`MapManager.cpp:379`, `:418`), so an id that is a multiple of 32 is written past its end;
  the bit is lost and the id handed out again (`instance_ids_shared`).
* `_ResetInstance` frees the id of a map with players inside; the next new map of that
  dungeon replaces it in `m_InstancedMaps` and nobody updates or frees the first one
  again (`instances_orphan`). It happens to every instance in use two hours after its
  creation: `InstanceMap::Add` cancels the scheduled reset only if the map is
  empty, but the player who enters is linked to it already.

One thing looks worse than it is: a second event may reset an instance of another party
that got the id; still `BindsAreSound`, `SavesAreBacked` and the
refinement hold, because `_ResetInstance` goes by the save it finds and not by the event.

### Known limits of the code, without a run

* `World.h:535` promises the largest number of parallel sessions; it is only updated when
  a session is added, not when a queued one is let in, so it is too small once the limit
  was raised.
* `InstanceMap::Remove` sets the unload timer when one player is linked; players who have
  left but not confirmed are linked too, and the last one to leave may find two, so that an
  empty map has no timer and stays loaded until a reset.
* Every instance made has its reset scheduled, which the comments say is cancelled when the first player
  enters (`InstanceSaveMgr.cpp:103`, `Map.cpp:2361`) and set when the last one leaves (`Map.cpp:2393`). It
  is not cancelled (see the finding above), and is set on leaving only by a logout: an instance in use
  is reset. `NoIdLeaks` and `IdsAreFreed` rest on that, not on what the comments intend, and speak of ids,
  not of when a reset should come.
* `LoadResetTimes` keeps a row whose reset time is now or, after it has lowered it to the respawn time
  (`InstanceSaveMgr.cpp:318-323`), past, and marks its id (`:298`), but schedules only what is still to come
  (`:331`). Such an id stays in use until the last member of a group logs out inside the instance, or the next start
  (`late` in `NoIdLeaks` and `IdsAreFreed`).
* A reset event keeps 16 bits of the instance id (`InstanceSaveMgr.h:131`): with more than
  65535 ids in use it would concern another instance.

Loot rolls (the properties of `LootRolls` say what holds in spite of them):

* If the winner is not in the world, or the group disbands during a roll, the item stays
  blocked for ever: nobody can loot it (`BlockedWhileRolled` names both, and the next).
* A player may answer twice: a total then counts an answer that he has replaced. The roll may end before
  all have answered; if nobody's vote is the answer counted, the first voter is announced as the winner, whatever he answered
  and also if he did not (the comment in `EndRoll`, `Group.cpp:1003`, has those who did not vote pass), and gets the item if the
  answer was need. What holds in spite of it: the totals never fall below the votes, and need never loses to greed
  (`TotalsMatchVotes`, `AwardsGoToTheBestVote`).
* `RemoveMember` takes the vote out before it calls `CountRollVote`, which therefore does
  nothing; a roll that waited only for that player runs to its timer.
* Need before greed sets no timer for a chest, so a roll waits for a silent member for ever (`RollsEnd`).
* `Loot::clear` leaves dead rolls in `RollId`.

Auctions and mail:

* The start settles expired auctions before the auctioned items are loaded
  (`World.cpp:1513`): the seller is paid, the winner gets no mail, and the item is gone
  (`lapsed`: `ItemsAreInOnePlace` leaves such an item out, and does not cover this hazard).
* The rows that this settlement deletes are queued for deletion and read again at once, so a settled
  auction may be loaded, and cancelled or never settled (`revived`: left out of `GoldIsConserved` and
  `ExpiredAuctionsEnd`, which do not cover it either).
* `AuctionHouseMgr.cpp:524` uses an entry it has just deleted.
* A winner who is offline gets nothing if `GM.LogTrade` is off; the run has it on, as in the shipped
  configuration (the default in the code, `World.cpp:858`, is off).
* Gold above `MAX_MONEY_AMOUNT` is destroyed when a player takes it from his mail
  (`MailHandler.cpp:514`, `Player.cpp:21266`); `GoldIsConserved` counts it as sunk. The model takes all the gold
  of a player's mail at once, which adds up to the same. `ModifyMoney` takes an `int32`: sums
  beyond that are above the limit and not modelled.
* The lazy read of a mailbox at the first opening does not see mail that is still
  queued; it shows at the next login. The model's mailboxes have been opened.

Database pool:

* After a lost connection only the current statement is executed again, outside of the
  transaction, which the server has undone: the rest of it takes effect statement by
  statement. So it is if the server refuses START TRANSACTION. Such an operation is `torn`: `OutcomesAreTrue` leaves it out
  and `WriteLog` allows for it; covered is only that it harms no other. If the server refuses the new connection,
  every later operation of that worker fails; if a statement cannot be prepared again, so does every
  statement after a later loss. (The statements prepared before the loss are then used on a connection that is closed,
  which is undefined; the model takes such a statement to succeed or to be refused.)
* The result of COMMIT is not looked at: if the server refuses it, `Execute` returns true with nothing on
  disk (`uncommitted`).
* A deadlock's victim is never retried, because ROLLBACK has cleared the error by the
  time `TransactionTask` asks for it. No property tells the difference.
* `Close` drops what is queued, what `KickAll` has saved at shutdown included.
* With more than one worker operations may overtake each other; nothing in the callers
  orders them.

## Proofs

The constants are constrained only by the assumptions named in the modules, which
TLC evaluates in the runs: finite sets of accounts, maps and workers, natural
numbers for the limits.

`SessionQueue_proofs` proves `TypeOK`, `QueueHoldsListedSessions`, `QueueFlagIsAccurate`,
`OneCharacterPerAccount`, `PlayerLimitHolds`, `NoOneWaitsForAFreeSlot`, `KickedAreRemoved` and the action
property `QueueIsFair` for any number of accounts, sessions and any limits. The inductive
invariant `IInv` adds to these what the code relies on silently: a queued session is listed
under its own account, the sessions in `addSessQueue` are distinct, alive and not yet listed
or flagged, and every session with a character is listed. The central lemmas (`CountActive`,
`RemovedFromQueue`) say that the difference of map size and queue length is the number
of listed accounts that do not wait, and what `RemoveQueuedPlayer` does to it: the two
calls in `UpdateSessions` cannot admit more players than the limit because the first
changes the queue before the second counts. `QueueIsFair` is proved handler by handler: each
erases one entry or appends one (`ErasedEntries`: what is left after an erasure keeps its order),
and the one that is let in is the head. For `KickedAreRemoved` the invariant follows the kicked sessions
through the last tick: until it is freed each is closed, listed and still to be visited (`AwaitsRemoval`).

`MapUpdater_proofs` proves all safety properties and the refinement
`ImplementsMapTick`. Its inductive invariant adds to `PendingIsExact` and
`UpdatesAreExclusive`: what is still to be scheduled is in no request; a visited instance
belongs to the worker that updates its parent and has no request yet; while a map is
ahead, so are its instances; and outside the parallel part nothing is left. The barrier
follows: `Wait` passes only with `pending_requests = 0`, so by `PendingIsExact` the queue is
empty and no worker is busy.

`InstanceIds_proofs` proves the four properties of `instance_ids` for every chunk, word
size and set of saved ids, by an invariant that holds while the vector is not overrun: a
bit is set exactly when its id has an owner or has been registered, and then only one
(`BitsAreOwned`); all ids below the next one are set and it is clear or past the end
(`NextIsLowestClear`); the vector holds all but the last row still to load
(`SizedForRows`), within its allocation (`Fits`). Termination of the search is the existence of a
least clear index, from the well-foundedness of the order on numbers.

`LootRolls_proofs` proves the four invariants of `loot_rolls` for any group, sources and items.
The inductive invariant looks at each roll alone: while it lives its totals are at least its votes, and exactly
those if nobody has answered twice (`Totals`), which is what keeps them from dropping below zero and makes
`CountTheRoll` find a voter with the answer it counts; a winner has given the best answer (`Deserved`); and
`BlockedWhileRolled`. Each step is then a lemma on how `Cardinality` of the voters with an
answer changes with one vote more or one voter less (`Count`), which is where totals kept
by hand go wrong.

`DatabasePool_proofs` proves `TypeOK` and, if there is one worker, the refinement
`ImplementsWriteLog`, for any number of threads, operations, sizes and losses. Its invariant
says what the server holds for a connection: an operation that was not torn is inside a
transaction from its first statement to its end, and `undo` is then exactly the prefix of its
statements before the current one; without a transaction `undo` is empty; a lost
connection has torn the operation it executes. So COMMIT makes the whole
operation take effect or, after a loss, nothing more, and a statement takes effect at
once only if it is alone or torn. `OutcomesAreTrue` holds for any number of workers, and needs
besides that an operation is in one place only (a thread that waits to queue it, the queue, a
worker, or its fate is known), so that no two workers write it, that a worker without a connection never
comes to COMMIT (`NeverCommits`), and that a refused COMMIT ends the operation (`Ended`).

`Instances_proofs` proves the four invariants of `instances` and the refinement `LocksSpec`,
for any parties, dungeons, maps, ids and number of events, from three assumptions: two
players of one party are members of a group; `NULL` is nothing else; the bounds are
natural numbers and an instance can have an event. The two invariants about saves are not
inductive: a save says who is bound to it only while it is loaded, and a player alone
takes his away when he logs out. What stays is in the tables, so `Agreed` ties memory to
them: a party that is active (online, or a group) is bound to exactly the instances its
rows name (`BindsAreRows`, `RowsAreBinds`), nobody else is bound, no instance is in the rows of
two parties (`RowsAreSeparate`), a party has one row of a dungeon (`OneRowPerDungeon`), and what
a row names is marked (`RowsAreMarked`, `BindsHaveRows`). It follows that a loaded save
belongs to one party (`OneParty`), so that what one party releases nobody else holds; that
a reset, scheduled or asked for, takes away everything about some instances at once
(`Forget`, `Forgetting`), which is `Reset` in `Lockouts`; and that a new id names nothing in the
tables, which makes `EnterNew` an `Acquire`.

`Auctions_proofs` proves the three invariants of `auctions` for any players, items, offers and prices, any most that a purse holds,
any length of the queue and any number of stops; `ItemsAreInOnePlace` under the assumption that
`LogTrade` is on, without which it is false (see above). None of them is inductive, since they speak of
the database and the handlers decide by the memory, which is ahead by the queue. The invariant
ties the two together (`History`): the queued transactions lead from `db` to `mem` through books each
of which is good, that is, has every item in one place (`Located`, for the items not given up at a
start), all the gold, and sound auctions (`Sound`: no bid without a bidder, none by the owner). A handler
adds one transaction at the end, and is proved to commit a `Proper` one: the item of its auction moves
from one place to another, and what its player pays, what is mailed, sunk and held by
the auction adds up to nothing. The worker takes one from the front. A stop drops the queue and
is harmless because `db`, the first of the good books, is what the server starts from. During the
start the memory differs from where the queue leads only in the auctions (`Agree`), and after it only
in those that are in `revived`: the queue then holds nothing but the settlements of that start
(`Starting`). While the server is up every open auction has its item in `mAitems` (`Up`), which
is what makes a settlement send the item. The proof rests on facts about the
library's sums and folds: a sum changes by what one summand changes (`SumUpdate`), what is
posted arrives (`PostedGold`), and `FoldLeft` over a list of transactions is where a run of them ends
(`FoldRun`); the library's theorems on induction cannot be used for them, but the well-foundedness of the
orders on numbers and finite sets can (`CountUp`, `CountDown`).

All safety properties of the runs, action properties and refinements are stated by theorems. Only
model-checked are `IdsAreFreed` and the other liveness properties: liveness under fairness is outside the
prover's reach. What a recursive function computes is too; sums and folds are reasoned about through
the equations they satisfy.

## Not modelled, and why

Map threads are abstracted from data races on the maps' content: the creation of maps by
packet handlers on a map thread (`_createBaseMap` without a second look under the lock) is
listed as a hazard only. `MapUpdate.Threads = 0` runs everything inline and has no
interleavings. Spells, combat, AI, scripts and collision are numeric rules and content.
In `Instances` raids and heroic dungeons (permanent binds, global resets and warnings), players
who join or leave a group, and the asynchronous database (a crash may lose the last
writes) are left out; the width of the event's 16-bit id is too: ids are dense.
In `LootRolls` master loot, free-for-all and quest items are left out, and two map threads that
end rolls of one group at the same time (rolls for corpses on different maps). In `Auctions`
mail between players (cash on delivery, return, expiry of mail), several auction houses, and
`CharacterDatabase` writes of the same player by other handlers. In `DatabasePool` the
synchronous connections, whose reads may overtake what is queued: `Auctions` models
the two places where that matters.

Packet dispatch was looked at and left out: the filters of the two updates are sets of
opcodes over one locked queue, and the phases in which they run are already in `MapUpdater`.
The other components marked `not_modelled` in `PROJECT.json` say why there.

## Plan

1. `SessionQueue`, `MapUpdater` with `MapTick`, `InstanceIds`, `Instances` with `Lockouts`,
   `LootRolls`, `DatabasePool` with `WriteLog`, `Auctions`, and their proofs: done.
2. An abstract specification of the books for `Auctions`: each handler as one transfer, with the
   refinement proved from `History`.
3. The battleground queue (invitations against their timeouts) and the dungeon finder's proposals, with
   the same shape as `LootRolls`.
