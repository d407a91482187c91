---------------------------- MODULE DatabasePool ----------------------------
(***************************************************************************)
(* The asynchronous half of a database pool: threads queue operations      *)
(* (Enqueue), worker threads take them off and execute them on connections *)
(* of their own (DatabaseWorker::svc, TransactionTask, BasicStatementTask, *)
(* MySQLConnection), the MySQL server answers, refuses, breaks a deadlock  *)
(* or breaks the connection, and the pool is closed at shutdown.           *)
(* shared/Database; the queue itself is ACE's.                             *)
(***************************************************************************)
EXTENDS Integers, Sequences, FiniteSets

CONSTANTS
  Thread,        \* threads that queue operations
  Worker,        \* the pool's worker threads, each with its connection
  Op,            \* operations, each queued once
  Transactions,  \* those that are transactions; the others are one statement
  Size,          \* the number of statements of an operation
  HighWater,     \* what the queue holds before enqueue blocks
  MaxLosses,     \* bound: connections that break
  None           \* neither an operation nor a worker

ASSUME PoolAssumption ==
  /\ None \notin Op
  /\ Transactions \subseteq Op
  /\ Size \in [Op -> Nat \ {0}]
  /\ \A op \in Op \ Transactions : Size[op] = 1
  /\ HighWater \in Nat \ {0} /\ MaxLosses \in Nat

VARIABLES
  offered,   \* the operation a thread has called Enqueue with, or None
  queue,     \* m_queue
  open,      \* the queue accepts operations and the workers wait for some
  task,      \* the operation a worker executes, or None
  step,      \* the statement its connection executes: 0 is START TRANSACTION,
             \* Size + 1 is COMMIT, Size + 2 is ROLLBACK
  conn,      \* "up", "lost" (an error says so), "gone" (m_Mysql is NULL)
  inTrans,   \* the server has a transaction open for the connection
  undo,      \* its statements, which are undone unless it commits
  flawed,    \* workers with m_prepareError, which is never cleared
  disk,      \* the statements that took effect, in order
  fate,      \* of an operation: "new", "queued", "done" (Execute returned
             \* true), "failed" (false), "dropped" (never executed)
  stopped,   \* workers whose thread has ended
  torn,      \* history: operations during which the connection broke, and
             \* transactions the server refused to start
  uncommitted,  \* history: transactions the server refused to commit
  losses     \* how often a connection broke

connection == <<conn, inTrans, undo, flawed>>
history == <<torn, uncommitted, losses>>
vars == <<offered, queue, open, task, step, connection, disk, fate, stopped, history>>

IsTransaction(op) == op \in Transactions
Writes(op) == [n \in 1..Size[op] |-> <<op, n>>]

Init ==
  /\ offered = [t \in Thread |-> None]
  /\ queue = <<>> /\ open = TRUE
  /\ task = [w \in Worker |-> None] /\ step = [w \in Worker |-> 0]
  /\ conn = [w \in Worker |-> "up"]
  /\ inTrans = [w \in Worker |-> FALSE] /\ undo = [w \in Worker |-> <<>>]
  /\ disk = <<>>
  /\ fate = [op \in Op |-> "new"]
  /\ stopped = {} /\ flawed = {}
  /\ torn = {} /\ uncommitted = {} /\ losses = 0

-----------------------------------------------------------------------------
(* Threads.                                                                *)

\* A thread calls Execute, CommitTransaction, AsyncQuery or DelayQueryHolder.
Offer(t, op) ==
  /\ open
  /\ offered[t] = None /\ fate[op] = "new" /\ \A u \in Thread : offered[u] # op
  /\ offered' = [offered EXCEPT ![t] = op]
  /\ UNCHANGED <<queue, open, task, step, connection, disk, fate, stopped, history>>

\* Enqueue returns; it blocks while the queue is full.
Enqueue(t) ==
  /\ offered[t] # None
  /\ open /\ Len(queue) < HighWater
  /\ queue' = Append(queue, offered[t])
  /\ fate' = [fate EXCEPT ![offered[t]] = "queued"]
  /\ offered' = [offered EXCEPT ![t] = None]
  /\ UNCHANGED <<open, task, step, connection, disk, stopped, history>>

\* Close deactivates the queue, which drops what it holds.  The world thread
\* and those it started have ended by now.
Close ==
  /\ open
  /\ \A t \in Thread : offered[t] = None
  /\ open' = FALSE
  /\ queue' = <<>>
  /\ fate' = [op \in Op |->
                IF \E n \in 1..Len(queue) : queue[n] = op THEN "dropped" ELSE fate[op]]
  /\ UNCHANGED <<offered, task, step, connection, disk, stopped, history>>

-----------------------------------------------------------------------------
(* Workers.                                                                *)

\* Mutant: the operation queued last is taken first.
DequeueLast(w) ==
  /\ w \notin stopped /\ task[w] = None
  /\ queue # <<>>
  /\ LET op == queue[Len(queue)] IN
     /\ task' = [task EXCEPT ![w] = op]
     /\ step' = [step EXCEPT ![w] = IF IsTransaction(op) THEN 0 ELSE 1]
  /\ queue' = SubSeq(queue, 1, Len(queue) - 1)
  /\ UNCHANGED <<offered, open, connection, disk, fate, stopped, history>>

\* svc takes the next operation; it sets step to the first statement.
Dequeue(w) ==
  /\ w \notin stopped /\ task[w] = None
  /\ queue # <<>>
  /\ task' = [task EXCEPT ![w] = Head(queue)]
  /\ step' = [step EXCEPT ![w] = IF IsTransaction(Head(queue)) THEN 0 ELSE 1]
  /\ queue' = Tail(queue)
  /\ UNCHANGED <<offered, open, connection, disk, fate, stopped, history>>

\* dequeue returns nothing once the queue is deactivated.
Quit(w) ==
  /\ w \notin stopped /\ task[w] = None
  /\ ~open
  /\ stopped' = stopped \cup {w}
  /\ UNCHANGED <<offered, queue, open, task, step, connection, disk, fate, history>>

\* Mutant: an operation that failed is executed again.
FinishOrRetry(w, result) ==
  IF result = "failed"
  THEN /\ step' = [step EXCEPT ![w] = IF IsTransaction(task[w]) THEN 0 ELSE 1]
       /\ UNCHANGED <<task, fate>>
  ELSE /\ fate' = [fate EXCEPT ![task[w]] = result]
       /\ task' = [task EXCEPT ![w] = None]
       /\ UNCHANGED step

\* Execute of the operation returns, and svc deletes it.
Finish(w, result) ==
  /\ fate' = [fate EXCEPT ![task[w]] = result]
  /\ task' = [task EXCEPT ![w] = None]
  /\ UNCHANGED step

Advance(w, n) ==
  /\ step' = [step EXCEPT ![w] = n]
  /\ UNCHANGED <<task, fate>>

Commit(w)   == Size[task[w]] + 1
Rollback(w) == Size[task[w]] + 2
Executing(w) == task[w] # None /\ step[w] \in 1..Size[task[w]]

\* Mutant: ExecuteTransaction goes on after the rollback.
SucceededPastRollback(w) ==
  IF ~IsTransaction(task[w]) \/ step[w] = Commit(w) THEN Finish(w, "done")
  ELSE Advance(w, step[w] + 1)

\* MySQLConnection::Execute has returned true.
Succeeded(w) ==
  IF ~IsTransaction(task[w]) \/ step[w] = Commit(w) THEN Finish(w, "done")
  ELSE IF step[w] = Rollback(w) THEN Finish(w, "failed")
  ELSE Advance(w, step[w] + 1)

\* It has returned false.  ExecuteTransaction rolls back after a statement, and
\* does not look at the results of START TRANSACTION, COMMIT and ROLLBACK.
\* TransactionTask then retries a deadlock, but asks for the error only after
\* the rollback, which has cleared it.
\* Mutant: a failed statement of a transaction is passed over.
FailedPassedOver(w) == Succeeded(w)
Failed(w) ==
  IF ~Executing(w) THEN Succeeded(w)
  ELSE IF IsTransaction(task[w]) THEN Advance(w, Rollback(w))
  ELSE Finish(w, "failed")

\* What one successful statement does in the server.
Statement(w) ==
  IF step[w] = 0 THEN
    inTrans' = [inTrans EXCEPT ![w] = TRUE] /\ UNCHANGED <<undo, disk>>
  ELSE IF ~Executing(w) THEN
    /\ disk' = IF step[w] = Commit(w) THEN disk \o undo[w] ELSE disk
    /\ inTrans' = [inTrans EXCEPT ![w] = FALSE]
    /\ undo' = [undo EXCEPT ![w] = <<>>]
  ELSE LET write == <<task[w], step[w]>> IN
    IF inTrans[w]
    THEN undo' = [undo EXCEPT ![w] = Append(@, write)] /\ UNCHANGED <<disk, inTrans>>
    ELSE disk' = Append(disk, write) /\ UNCHANGED <<undo, inTrans>>

Succeed(w) ==
  /\ task[w] # None /\ conn[w] = "up"
  /\ Statement(w)
  /\ Succeeded(w)
  /\ UNCHANGED <<offered, queue, open, conn, flawed, stopped, history>>

\* The server refuses a statement.  A refused START TRANSACTION begins none; a
\* refused COMMIT undoes and ends the transaction, so does a refused ROLLBACK,
\* and another statement as the victim of a deadlock (1213).
Refuse(w) ==
  /\ task[w] # None /\ conn[w] = "up"
  /\ \/ step[w] <= Size[task[w]] /\ UNCHANGED <<inTrans, undo>>
     \/ /\ step[w] # 0
        /\ inTrans' = [inTrans EXCEPT ![w] = FALSE]
        /\ undo' = [undo EXCEPT ![w] = <<>>]
  /\ torn' = IF step[w] = 0 THEN torn \cup {task[w]} ELSE torn
  /\ uncommitted' = IF step[w] = Commit(w) THEN uncommitted \cup {task[w]}
                    ELSE uncommitted
  /\ Failed(w)
  /\ UNCHANGED <<offered, queue, open, conn, flawed, disk, stopped, losses>>

\* The connection breaks during a statement: the server has executed it or
\* not, and undoes an open transaction.
Lose(w) ==
  /\ task[w] # None /\ conn[w] = "up" /\ losses < MaxLosses
  /\ losses' = losses + 1
  /\ conn' = [conn EXCEPT ![w] = "lost"]
  /\ torn' = torn \cup {task[w]}
  /\ inTrans' = [inTrans EXCEPT ![w] = FALSE]
  /\ undo' = [undo EXCEPT ![w] = <<>>]
  /\ disk' \in {disk} \cup
       (IF step[w] = Commit(w) THEN {disk \o undo[w]}
        ELSE IF Executing(w) /\ ~inTrans[w] THEN {Append(disk, <<task[w], step[w]>>)}
        ELSE {})
  /\ UNCHANGED <<offered, queue, open, task, step, flawed, fate, stopped, uncommitted>>

\* _HandleMySQLErrno opens the connection again, and Execute calls itself for
\* the same statement, in no transaction now.  If a statement cannot be prepared
\* again, now or earlier, or the server refuses the new connection (then m_Mysql
\* stays NULL), Execute returns false.
Reconnect(w) ==
  /\ task[w] # None /\ conn[w] = "lost"
  /\ \/ /\ w \notin flawed
        /\ conn' = [conn EXCEPT ![w] = "up"]
        /\ UNCHANGED <<task, step, fate, flawed>>
     \/ /\ conn' = [conn EXCEPT ![w] = "up"]
        /\ flawed' = flawed \cup {w}
        /\ Failed(w)
     \/ /\ conn' = [conn EXCEPT ![w] = "gone"]
        /\ UNCHANGED flawed
        /\ Failed(w)
  /\ UNCHANGED <<offered, queue, open, inTrans, undo, disk, stopped, history>>

FailAtOnce(w) ==
  /\ task[w] # None /\ conn[w] = "gone"
  /\ Failed(w)
  /\ UNCHANGED <<offered, queue, open, connection, disk, stopped, history>>

\* The process dies; the server undoes what is not committed.
Crash ==
  /\ stopped # Worker
  /\ offered' = [t \in Thread |-> None] /\ queue' = <<>> /\ open' = FALSE
  /\ task' = [w \in Worker |-> None]
  /\ inTrans' = [w \in Worker |-> FALSE] /\ undo' = [w \in Worker |-> <<>>]
  /\ fate' = [op \in Op |-> IF fate[op] = "queued" THEN "dropped" ELSE fate[op]]
  /\ stopped' = Worker
  /\ UNCHANGED <<step, conn, flawed, disk, history>>

Works(w) == Dequeue(w) \/ Succeed(w) \/ Refuse(w) \/ Lose(w) \/ Reconnect(w)
            \/ FailAtOnce(w) \/ Quit(w)

Next ==
  \/ \E t \in Thread, op \in Op : Offer(t, op)
  \/ \E t \in Thread : Enqueue(t)
  \/ Close
  \/ \E w \in Worker : Works(w)
  \/ Crash

Spec == Init /\ [][Next]_vars

\* Threads that are not blocked and workers run; the server answers, or the
\* connection breaks.
FairSpec ==
  Spec /\ (\A t \in Thread : WF_vars(Enqueue(t))) /\ (\A w \in Worker : WF_vars(Works(w)))
-----------------------------------------------------------------------------
(* Properties.                                                             *)

TypeOK ==
  /\ offered \in [Thread -> Op \cup {None}]
  /\ queue \in Seq(Op) /\ Len(queue) <= HighWater
  /\ open \in BOOLEAN
  /\ task \in [Worker -> Op \cup {None}]
  /\ step \in [Worker -> Nat]
  /\ \A w \in Worker : task[w] # None => step[w] \in 0..Rollback(w)
  /\ conn \in [Worker -> {"up", "lost", "gone"}]
  /\ inTrans \in [Worker -> BOOLEAN]
  /\ undo \in [Worker -> Seq(Op \X Nat)] /\ disk \in Seq(Op \X Nat)
  /\ fate \in [Op -> {"new", "queued", "done", "failed", "dropped"}]
  /\ stopped \subseteq Worker /\ flawed \subseteq Worker
  /\ torn \subseteq Op /\ uncommitted \subseteq Op /\ losses \in 0..MaxLosses

\* In d the statements of an operation are there once, in order and with none of
\* another operation between them; or there are none.
TookEffect(d, op) ==
  \E k \in 0..(Len(d) - Size[op]) : \A n \in 1..Len(d) :
    IF n - k \in 1..Size[op] THEN d[n] = <<op, n - k>> ELSE d[n][1] # op
NoEffect(d, op) == \A n \in 1..Len(d) : d[n][1] # op

\* What Execute returned is true: the statements of an operation that was done
\* took effect, all of them and once, those of one that failed or was dropped
\* did not.  But a transaction whose COMMIT is refused is done without effect,
\* and one that is not started, or during which the connection broke, is torn.
OutcomesAreTrue ==
  \A op \in Op \ torn :
    IF fate[op] = "done" /\ op \notin uncommitted
    THEN TookEffect(disk, op) ELSE NoEffect(disk, op)

\* With one worker the pool implements the write log: what takes effect is a
\* prefix of what was queued but for what failed, in order.
TheWorker == CHOOSE w \in Worker : TRUE
Log == INSTANCE WriteLog WITH
         written <- disk,
         pending <- (IF task[TheWorker] = None THEN <<>> ELSE <<task[TheWorker]>>) \o queue,
         broken  <- torn
ImplementsWriteLog == Log!Spec

\* Whatever the server does, a thread gets its operation in, every operation
\* that was queued is executed, fails or is dropped, and after Close the
\* workers end, which Close waits for.
OperationsEnd ==
  /\ \A t \in Thread : offered[t] # None ~> offered[t] = None
  /\ \A op \in Op : fate[op] = "queued" ~> fate[op] \in {"done", "failed", "dropped"}
  /\ ~open ~> stopped = Worker
=============================================================================
