------------------------ MODULE DatabasePool_proofs ------------------------
(***************************************************************************)
(* The pool keeps its types whatever the server and the threads do, for    *)
(* any number of threads, workers and operations; and with one worker, as  *)
(* the server is configured by default, each of its steps is a step of     *)
(* WriteLog or changes nothing that WriteLog speaks of.                    *)
(*                                                                         *)
(* What is needed of a connection is that an operation which it has not    *)
(* broken under, and which the server has started, is inside a transaction *)
(* from its first statement to its end, and that the server then holds     *)
(* exactly the statements before the current one.  For the outcomes, that  *)
(* an operation is in one place only, that a worker without a connection   *)
(* never commits, and that a refused COMMIT ends the operation.            *)
(***************************************************************************)
EXTENDS DatabasePool, SequenceTheorems, TLAPS

Fate == {"new", "queued", "done", "failed", "dropped"}

\* The first k statements of an operation.
Prefix(op, k) == [n \in 1..k |-> <<op, n>>]

Typed ==
  /\ offered \in [Thread -> Op \cup {None}]
  /\ queue \in Seq(Op) /\ Len(queue) <= HighWater
  /\ open \in BOOLEAN
  /\ task \in [Worker -> Op \cup {None}]
  /\ step \in [Worker -> Nat]
  /\ conn \in [Worker -> {"up", "lost", "gone"}]
  /\ inTrans \in [Worker -> BOOLEAN]
  /\ undo \in [Worker -> Seq(Op \X Nat)] /\ disk \in Seq(Op \X Nat)
  /\ fate \in [Op -> Fate]
  /\ stopped \in SUBSET Worker /\ flawed \in SUBSET Worker
  /\ torn \in SUBSET Op /\ uncommitted \in SUBSET Op /\ losses \in 0..MaxLosses

\* The statement a worker is at.
AtStep(w) ==
  /\ task[w] \in Transactions => step[w] \in 0..(Size[task[w]] + 2)
  /\ task[w] \in Op \ Transactions => step[w] = 1
  /\ w \in stopped => task[w] = None

\* What the server holds for its connection.
Holds(w) ==
  /\ conn[w] # "up" => ~inTrans[w]
  /\ ~inTrans[w] => undo[w] = <<>>
  /\ conn[w] = "lost" => task[w] \in torn \/ w \in stopped
  /\ inTrans[w] =>
       /\ task[w] \in Transactions /\ step[w] # 0
       /\ step[w] <= Size[task[w]] + 1 => undo[w] = Prefix(task[w], step[w] - 1)
  /\ (task[w] \in Transactions \ torn /\ conn[w] = "up"
        /\ step[w] \in 1..(Size[task[w]] + 1)) => inTrans[w]

IInv == Typed /\ \A w \in Worker : AtStep(w) /\ Holds(w)

-----------------------------------------------------------------------------
(* Sequences of statements.                                                *)

\* Prefixes are sequences of statements; each is one statement longer.
LEMMA Prefixes ==
  ASSUME NEW op \in Op, NEW k \in Nat
  PROVE  /\ Prefix(op, k) \in Seq(Op \X Nat) /\ Len(Prefix(op, k)) = k
         /\ Append(Prefix(op, k), <<op, k + 1>>) = Prefix(op, k + 1)
         /\ Prefix(op, 0) = <<>>
<1>1. Prefix(op, k) \in [1..k -> Op \X Nat] /\ Prefix(op, k + 1) \in [1..(k + 1) -> Op \X Nat]
  BY DEF Prefix
<1>2. Prefix(op, k) \in Seq(Op \X Nat) /\ Len(Prefix(op, k)) = k
  BY <1>1, SeqDef, LenProperties
<1>3. Append(Prefix(op, k), <<op, k + 1>>) = Prefix(op, k + 1)
  <2> DEFINE s == Append(Prefix(op, k), <<op, k + 1>>)
  <2>1. /\ s \in [1..(k + 1) -> Op \X Nat]
        /\ \A n \in 1..k : s[n] = Prefix(op, k)[n]
        /\ s[k + 1] = <<op, k + 1>>
    <3>1. <<op, k + 1>> \in Op \X Nat
      OBVIOUS
    <3>2. s \in Seq(Op \X Nat) /\ Len(s) = k + 1
      BY <1>2, <3>1, AppendProperties
    <3>3. s \in [1..(k + 1) -> Op \X Nat]
      BY <3>2, LenProperties
    <3>4. /\ \A n \in 1..k : s[n] = Prefix(op, k)[n]
          /\ s[k + 1] = <<op, k + 1>>
      BY <1>2, <3>1, AppendProperties
    <3> QED BY <3>3, <3>4
  <2>2. \A n \in 1..(k + 1) : s[n] = Prefix(op, k + 1)[n]
    BY <2>1 DEF Prefix
  <2> QED BY <1>1, <2>1, <2>2
<1>4. Prefix(op, 0) = <<>>
  BY DEF Prefix
<1> QED BY <1>2, <1>3, <1>4

\* The statements of an operation are a prefix of that length.
LEMMA WritesIsPrefix ==
  ASSUME NEW op \in Op
  PROVE  Writes(op) = Prefix(op, Size[op]) /\ Size[op] \in Nat \ {0}
BY PoolAssumption DEF Writes, Prefix

-----------------------------------------------------------------------------
(* Steps of a worker.                                                      *)

Finished(w) ==
  /\ task' = [task EXCEPT ![w] = None] /\ step' = step
  /\ fate' \in [Op -> Fate]

Moved(w, n) ==
  /\ task' = task /\ fate' = fate
  /\ step' = [step EXCEPT ![w] = n]

\* What a successful statement leads to.
LEMMA AfterSuccess ==
  ASSUME IInv, NEW w \in Worker, task[w] # None, Succeeded(w)
  PROVE  \/ /\ Finished(w)
            /\ task[w] \in Transactions => step[w] \in {Size[task[w]] + 1, Size[task[w]] + 2}
         \/ /\ Moved(w, step[w] + 1)
            /\ task[w] \in Transactions /\ step[w] \in 0..Size[task[w]]
<1>1. /\ task[w] \in Op
      /\ task[w] \in Transactions => step[w] \in 0..(Size[task[w]] + 2)
      /\ Size[task[w]] \in Nat
  BY PoolAssumption DEF IInv, Typed, AtStep
<1>2. ASSUME NEW result \in {"done", "failed"}, Finish(w, result)
      PROVE  Finished(w)
  BY <1>1, <1>2 DEF Finish, Finished, IInv, Typed, Fate
<1>3. CASE ~IsTransaction(task[w]) \/ step[w] = Commit(w)
  BY <1>2, <1>3 DEF Succeeded, Commit, IsTransaction
<1>4. CASE IsTransaction(task[w]) /\ step[w] = Rollback(w)
  BY <1>1, <1>2, <1>4 DEF Succeeded, Commit, Rollback, IsTransaction
<1>5. CASE IsTransaction(task[w]) /\ step[w] # Commit(w) /\ step[w] # Rollback(w)
  <2>1. Moved(w, step[w] + 1)
    BY <1>5 DEF Succeeded, Advance, Moved
  <2>2. /\ task[w] \in Transactions
        /\ step[w] # Size[task[w]] + 1 /\ step[w] # Size[task[w]] + 2
    BY <1>5 DEF Commit, Rollback, IsTransaction
  <2>3. ASSUME NEW i \in Nat, NEW n \in Nat, i \in 0..(n + 2), i # n + 1, i # n + 2
        PROVE  i \in 0..n
    BY ONLY <2>3
  <2>4. step[w] \in Nat
    BY DEF IInv, Typed
  <2>5. step[w] \in 0..Size[task[w]]
    BY <1>1, <2>2, <2>3, <2>4
  <2> QED BY <2>1, <2>2, <2>5
<1> QED BY <1>3, <1>4, <1>5

\* What a failed one leads to.
LEMMA AfterFailure ==
  ASSUME IInv, NEW w \in Worker, task[w] # None, Failed(w)
  PROVE  \/ Finished(w)
         \/ /\ task[w] \in Transactions
            /\ \/ step[w] = 0 /\ Moved(w, 1)
               \/ Executing(w) /\ Moved(w, Size[task[w]] + 2)
<1>1. /\ task[w] \in Op
      /\ task[w] \in Transactions => step[w] \in 0..(Size[task[w]] + 2)
      /\ task[w] \notin Transactions => step[w] = 1
      /\ Size[task[w]] \in Nat \ {0}
  BY PoolAssumption DEF IInv, Typed, AtStep
<1>2. CASE ~Executing(w)
  <2>1. Succeeded(w)
    BY <1>2 DEF Failed
  <2> QED BY <1>1, <1>2, <2>1, AfterSuccess DEF Executing
<1>3. CASE Executing(w) /\ IsTransaction(task[w])
  BY <1>3 DEF Failed, Advance, Moved, Rollback, IsTransaction
<1>4. CASE Executing(w) /\ ~IsTransaction(task[w])
  BY <1>1, <1>4 DEF Failed, Finish, Finished, IInv, Typed, Fate
<1> QED BY <1>2, <1>3, <1>4

\* A worker that is not concerned by a step.
LEMMA Bystander ==
  ASSUME NEW v \in Worker, AtStep(v), Holds(v),
         task'[v] = task[v], step'[v] = step[v], conn'[v] = conn[v],
         inTrans'[v] = inTrans[v], undo'[v] = undo[v],
         torn \subseteq torn', v \in stopped' <=> v \in stopped
  PROVE  AtStep(v)' /\ Holds(v)'
BY DEF AtStep, Holds
-----------------------------------------------------------------------------
(* The invariant.                                                          *)

USE PoolAssumption

LEMMA Initial == Init => IInv
<1>1. Init => Typed
  BY DEF Init, Typed, Fate
<1>2. Init => \A w \in Worker : AtStep(w) /\ Holds(w)
  BY DEF Init, AtStep, Holds
<1> QED BY <1>1, <1>2 DEF IInv

\* Threads queue operations, and the queue is closed; workers are untouched.
LEMMA ThreadSteps ==
  ASSUME IInv, \/ \E t \in Thread, op \in Op : Offer(t, op)
               \/ \E t \in Thread : Enqueue(t)
               \/ Close
  PROVE  IInv'
<1>1. UNCHANGED <<task, step, connection, stopped, torn>>
  BY DEF Offer, Enqueue, Close, connection, history
<1>2. \A w \in Worker : AtStep(w)' /\ Holds(w)'
  BY <1>1, Bystander DEF IInv, connection
<1>3. CASE \E t \in Thread, op \in Op : Offer(t, op)
  BY <1>2, <1>3 DEF Offer, IInv, Typed, connection, history
<1>4. ASSUME NEW t \in Thread, Enqueue(t)
      PROVE  Typed'
  <2>1. offered[t] \in Op
    BY <1>4 DEF Enqueue, IInv, Typed, history
  <2>2. queue' \in Seq(Op) /\ Len(queue') = Len(queue) + 1
    BY <1>4, <2>1, AppendProperties DEF Enqueue, IInv, Typed, history
  <2>3. Len(queue') <= HighWater
    <3>1. Len(queue) \in Nat /\ Len(queue) < HighWater
      BY <1>4, LenProperties DEF Enqueue, IInv, Typed, history
    <3> QED BY <2>2, <3>1
  <2> QED BY <1>4, <2>1, <2>2, <2>3 DEF Enqueue, IInv, Typed, Fate, connection, history
<1>5. CASE Close
  <2>1. queue' \in Seq(Op) /\ Len(queue') <= HighWater
    BY <1>5 DEF Close, history
  <2> QED BY <1>2, <1>5, <2>1 DEF Close, IInv, Typed, Fate, connection, history
<1> QED BY <1>2, <1>3, <1>4, <1>5 DEF IInv

\* A worker takes an operation, outside of any transaction.
LEMMA DequeueStep ==
  ASSUME IInv, NEW w \in Worker, Dequeue(w)
  PROVE  IInv'
<1>1. Head(queue) \in Op /\ Tail(queue) \in Seq(Op) /\ Len(Tail(queue)) <= HighWater
  <2>1. queue \in Seq(Op) /\ queue # <<>>
    BY DEF Dequeue, IInv, Typed, history
  <2>2. /\ Head(queue) \in Op /\ Tail(queue) \in Seq(Op)
        /\ Len(Tail(queue)) = Len(queue) - 1
    BY <2>1, HeadTailProperties
  <2>3. Len(queue) \in Nat /\ Len(queue) <= HighWater
    BY <2>1, LenProperties DEF IInv, Typed
  <2> QED BY <2>2, <2>3
<1>2. Typed'
  BY <1>1 DEF Dequeue, IInv, Typed, connection, history
<1>3. AtStep(w)' /\ Holds(w)'
  <2>1. /\ task'[w] = Head(queue)
        /\ step'[w] = IF Head(queue) \in Transactions THEN 0 ELSE 1
        /\ UNCHANGED <<conn, inTrans, undo, torn, stopped>>
    BY DEF Dequeue, IInv, Typed, IsTransaction, connection, history
  <2>2. w \notin stopped /\ task[w] = None
    BY DEF Dequeue, history
  <2>3. ~inTrans[w] /\ conn[w] # "lost" /\ undo[w] = <<>>
    BY <2>2 DEF IInv, Typed, Holds
  <2>4. AtStep(w)'
    BY <1>1, <2>1, <2>2 DEF AtStep
  <2>5. Holds(w)'
    BY <1>1, <2>1, <2>2, <2>3 DEF Holds
  <2> QED BY <2>4, <2>5
<1>4. ASSUME NEW v \in Worker, v # w
      PROVE  AtStep(v)' /\ Holds(v)'
  <2>1. /\ task'[v] = task[v] /\ step'[v] = step[v] /\ UNCHANGED <<conn, inTrans, undo, torn, stopped>>
    BY <1>4 DEF Dequeue, IInv, Typed, connection, history
  <2> QED BY <2>1, Bystander DEF IInv
<1> QED BY <1>2, <1>3, <1>4 DEF IInv

LEMMA QuitStep ==
  ASSUME IInv, NEW w \in Worker, Quit(w)
  PROVE  IInv'
<1>1. Typed'
  BY DEF Quit, IInv, Typed, connection, history
<1>2. ASSUME NEW v \in Worker
      PROVE  AtStep(v)' /\ Holds(v)'
  <2>1. UNCHANGED <<task, step, conn, inTrans, undo, torn>>
    BY DEF Quit, connection, history
  <2>2. CASE v # w
    BY <2>1, <2>2, Bystander DEF Quit, IInv, history
  <2>3. CASE v = w
    BY <2>1, <2>3 DEF Quit, IInv, AtStep, Holds, history
  <2> QED BY <2>2, <2>3
<1> QED BY <1>1, <1>2 DEF IInv

\* After the process has died nothing is under way.
LEMMA CrashStep ==
  ASSUME IInv, Crash
  PROVE  IInv'
<1>1. queue' \in Seq(Op) /\ Len(queue') <= HighWater
  BY DEF Crash, history
<1>2. Typed'
  <2>1. undo' \in [Worker -> Seq(Op \X Nat)]
    BY DEF Crash, history
  <2> QED BY <1>1, <2>1 DEF Crash, IInv, Typed, Fate, history
<1>3. ASSUME NEW w \in Worker
      PROVE  AtStep(w)' /\ Holds(w)'
  BY DEF Crash, IInv, Typed, AtStep, Holds, history
<1> QED BY <1>2, <1>3 DEF IInv

-----------------------------------------------------------------------------
(* Steps of a connection.                                                  *)

\* What such a step leaves alone.
Only(w) ==
  /\ \A v \in Worker : v # w =>
       /\ task'[v] = task[v] /\ step'[v] = step[v] /\ conn'[v] = conn[v]
       /\ inTrans'[v] = inTrans[v] /\ undo'[v] = undo[v]
  /\ UNCHANGED stopped /\ torn \subseteq torn'

LEMMA OneWorker ==
  ASSUME IInv, NEW w \in Worker, Only(w), Typed', AtStep(w)', Holds(w)'
  PROVE  IInv'
<1>1. ASSUME NEW v \in Worker, v # w
      PROVE  AtStep(v)' /\ Holds(v)'
  BY <1>1, Bystander DEF IInv, Only
<1> QED BY <1>1 DEF IInv

\* The variables that say where the workers are keep their types.
Moves(w) ==
  /\ task' \in [Worker -> Op \cup {None}] /\ step' \in [Worker -> Nat]
  /\ fate' \in [Op -> Fate]
  /\ \A v \in Worker : v # w => task'[v] = task[v] /\ step'[v] = step[v]

LEMMA MovesTyped ==
  ASSUME IInv, NEW w \in Worker,
         Finished(w) \/ (\E n \in Nat : Moved(w, n))
  PROVE  Moves(w)
<1>1. CASE Finished(w)
  BY <1>1 DEF IInv, Typed, Finished, Moves
<1>2. ASSUME NEW n \in Nat, Moved(w, n)
      PROVE  Moves(w)
  BY <1>2 DEF IInv, Typed, Moved, Moves
<1> QED BY <1>1, <1>2

\* A failed statement leaves the worker where it may be.
LEMMA FailureMoves ==
  ASSUME IInv, NEW w \in Worker, task[w] # None, w \notin stopped,
         Failed(w), UNCHANGED stopped
  PROVE  /\ Moves(w) /\ AtStep(w)'
         /\ \/ task'[w] = None
            \/ /\ task'[w] = task[w] /\ task[w] \in Transactions
               /\ \/ step[w] = 0 /\ step'[w] = 1
                  \/ Executing(w) /\ step'[w] = Size[task[w]] + 2
<1>1. task[w] \in Op /\ Size[task[w]] \in Nat \ {0}
  BY DEF IInv, Typed
<1>2. CASE Finished(w)
  <2>1. task'[w] = None
    BY <1>2 DEF Finished, IInv, Typed
  <2> QED BY <1>2, <2>1, MovesTyped DEF AtStep
<1>3. CASE task[w] \in Transactions /\ step[w] = 0 /\ Moved(w, 1)
  <2>1. Moves(w)
    BY <1>3, MovesTyped
  <2>2. task'[w] = task[w] /\ step'[w] = 1
    BY <1>3 DEF Moved, IInv, Typed
  <2> QED BY <1>1, <1>3, <2>1, <2>2 DEF AtStep
<1>4. CASE task[w] \in Transactions /\ Executing(w) /\ Moved(w, Size[task[w]] + 2)
  <2>1. Moves(w)
    BY <1>1, <1>4, MovesTyped
  <2>2. task'[w] = task[w] /\ step'[w] = Size[task[w]] + 2
    BY <1>1, <1>4 DEF Moved, IInv, Typed
  <2> QED BY <1>1, <1>4, <2>1, <2>2 DEF AtStep
<1> QED BY <1>2, <1>3, <1>4, AfterFailure

LEMMA RefuseStep ==
  ASSUME IInv, NEW w \in Worker, Refuse(w)
  PROVE  IInv'
<1>1. /\ w \notin stopped /\ task[w] # None /\ task[w] \in Op /\ step[w] \in Nat
      /\ Size[task[w]] \in Nat /\ conn[w] = "up"
  BY PoolAssumption DEF Refuse, IInv, Typed, AtStep
<1>2. /\ Failed(w) /\ UNCHANGED <<offered, queue, open, conn, flawed, disk, stopped, losses>>
      /\ torn' = IF step[w] = 0 THEN torn \cup {task[w]} ELSE torn
      /\ uncommitted' \in {uncommitted, uncommitted \cup {task[w]}}
  BY DEF Refuse
<1>3. /\ inTrans' \in [Worker -> BOOLEAN] /\ undo' \in [Worker -> Seq(Op \X Nat)]
      /\ \A v \in Worker : v # w => inTrans'[v] = inTrans[v] /\ undo'[v] = undo[v]
      /\ \/ inTrans'[w] = inTrans[w] /\ undo'[w] = undo[w]
         \/ ~inTrans'[w] /\ undo'[w] = <<>>
  <2>1. CASE UNCHANGED <<inTrans, undo>>
    BY <2>1 DEF IInv, Typed
  <2>2. CASE /\ inTrans' = [inTrans EXCEPT ![w] = FALSE]
             /\ undo' = [undo EXCEPT ![w] = <<>>]
    <3>1. inTrans \in [Worker -> BOOLEAN] /\ undo \in [Worker -> Seq(Op \X Nat)]
      BY DEF IInv, Typed
    <3>2. <<>> \in Seq(Op \X Nat)
      OBVIOUS
    <3>3. undo' \in [Worker -> Seq(Op \X Nat)] /\ undo'[w] = <<>>
      BY <2>2, <3>1, <3>2
    <3>4. inTrans' \in [Worker -> BOOLEAN] /\ ~inTrans'[w]
      BY <2>2, <3>1
    <3>5. \A v \in Worker : v # w => inTrans'[v] = inTrans[v] /\ undo'[v] = undo[v]
      BY <2>2, <3>1
    <3> QED BY <3>3, <3>4, <3>5
  <2> QED BY <2>1, <2>2 DEF Refuse
<1>4. /\ Moves(w) /\ AtStep(w)'
      /\ \/ task'[w] = None
         \/ /\ task'[w] = task[w] /\ task[w] \in Transactions
            /\ \/ step[w] = 0 /\ step'[w] = 1
               \/ Executing(w) /\ step'[w] = Size[task[w]] + 2
  BY <1>1, <1>2, FailureMoves
<1>5. Typed'
  <2>1. torn' \in SUBSET Op /\ uncommitted' \in SUBSET Op
    BY <1>1, <1>2 DEF IInv, Typed
  <2> QED BY <1>2, <1>3, <1>4, <2>1 DEF Moves, IInv, Typed
<1>6. Holds(w)'
  <2>1. CASE task'[w] = None
    <3>1. task[w] \notin Transactions \/ ~Executing(w)
      BY <1>1, <1>2, <2>1 DEF Failed, Advance, IsTransaction
    <3>2. CASE task[w] \notin Transactions
      <4>1. ~inTrans[w] /\ undo[w] = <<>>
        BY <3>2 DEF Holds, IInv
      <4> QED BY <1>1, <1>2, <1>3, <2>1, <4>1 DEF Holds
    <3>3. CASE task[w] \in Transactions /\ ~Executing(w)
      <4>1. step[w] # 0
        BY <1>1, <1>2, <2>1, <3>3 DEF Failed, Succeeded, Executing, Commit, Rollback,
                                      Advance, IsTransaction
      <4>2. step[w] > Size[task[w]]
        BY <1>1, <3>3, <4>1 DEF Executing
      <4>3. ~inTrans'[w] /\ undo'[w] = <<>>
        BY <1>1, <4>2 DEF Refuse, IInv, Typed
      <4> QED BY <1>1, <1>2, <2>1, <4>3 DEF Holds
    <3> QED BY <3>1, <3>2, <3>3
  <2>2. CASE task'[w] = task[w] /\ task[w] \in Transactions /\ step[w] = 0 /\ step'[w] = 1
    <3>1. ~inTrans[w] /\ undo[w] = <<>>
      BY <2>2 DEF Holds, IInv
    <3>2. ~inTrans'[w] /\ undo'[w] = <<>> /\ task'[w] \in torn'
      BY <1>2, <1>3, <2>2, <3>1
    <3> QED BY <1>1, <1>2, <3>2 DEF Holds
  <2>3. CASE /\ task'[w] = task[w] /\ task[w] \in Transactions
             /\ Executing(w) /\ step'[w] = Size[task[w]] + 2
    <3>1. torn' = torn
      BY <1>2, <2>3 DEF Executing
    <3> QED BY <1>1, <1>2, <1>3, <2>3, <3>1 DEF Holds, IInv
  <2> QED BY <1>4, <2>1, <2>2, <2>3
<1>7. Only(w)
  BY <1>2, <1>3, <1>4 DEF Only, Moves
<1> QED BY <1>4, <1>5, <1>6, <1>7, OneWorker

\* The operation whose connection breaks is one of those that are torn.
LEMMA LoseStep ==
  ASSUME IInv, NEW w \in Worker, Lose(w)
  PROVE  IInv'
<1>1. task[w] \in Op /\ step[w] \in Nat
  BY DEF Lose, IInv, Typed
<1>2. disk' \in Seq(Op \X Nat)
  <2>1. disk \o undo[w] \in Seq(Op \X Nat)
    BY ConcatProperties DEF IInv, Typed
  <2>2. Append(disk, <<task[w], step[w]>>) \in Seq(Op \X Nat)
    BY <1>1, AppendProperties DEF IInv, Typed
  <2> QED BY <2>1, <2>2 DEF Lose, IInv, Typed
<1>3. Typed'
  <2>1. losses' \in 0..MaxLosses
    BY DEF Lose, IInv, Typed
  <2> QED BY <1>1, <1>2, <2>1 DEF Lose, IInv, Typed
<1>4. AtStep(w)' /\ Holds(w)'
  BY <1>1 DEF Lose, IInv, Typed, AtStep, Holds
<1>5. Only(w)
  BY DEF Lose, Only, IInv, Typed
<1> QED BY <1>3, <1>4, <1>5, OneWorker

LEMMA ReconnectStep ==
  ASSUME IInv, NEW w \in Worker, Reconnect(w)
  PROVE  IInv'
<1>1. /\ task[w] # None /\ task[w] \in torn /\ w \notin stopped
      /\ ~inTrans[w] /\ undo[w] = <<>>
  BY DEF Reconnect, IInv, Typed, AtStep, Holds, history
<1>2. CASE conn' = [conn EXCEPT ![w] = "up"] /\ UNCHANGED <<task, step, fate, flawed>>
  <2>1. Typed' /\ Only(w)
    BY <1>2 DEF Reconnect, IInv, Typed, Only, history
  <2>2. AtStep(w)' /\ Holds(w)'
    BY <1>1, <1>2 DEF Reconnect, IInv, Typed, AtStep, Holds, history
  <2> QED BY <2>1, <2>2, OneWorker
<1>3. ASSUME NEW c \in {"up", "gone"}, conn' = [conn EXCEPT ![w] = c], Failed(w),
             flawed' \in SUBSET Worker
      PROVE  IInv'
  <2>1. Moves(w) /\ AtStep(w)'
    BY <1>1, <1>3, FailureMoves DEF Reconnect, history
  <2>2. Typed' /\ Only(w)
    BY <1>3, <2>1 DEF Reconnect, IInv, Typed, Only, Moves, history
  <2>3. Holds(w)'
    <3>1. ~inTrans'[w] /\ undo'[w] = <<>> /\ conn'[w] # "lost"
      BY <1>1, <1>3 DEF Reconnect, IInv, Typed
    <3>2. task'[w] \in torn' \cup {None}
      BY <1>1, <1>2, FailureMoves, <1>3 DEF Reconnect, history
    <3> QED BY <3>1, <3>2, PoolAssumption DEF Holds
  <2> QED BY <2>1, <2>2, <2>3, OneWorker
<1>4. flawed \in SUBSET Worker /\ flawed \cup {w} \in SUBSET Worker
  BY DEF IInv, Typed
<1> QED BY <1>2, <1>3, <1>4 DEF Reconnect, history

LEMMA FailAtOnceStep ==
  ASSUME IInv, NEW w \in Worker, FailAtOnce(w)
  PROVE  IInv'
<1>1. /\ task[w] # None /\ w \notin stopped /\ conn[w] = "gone"
      /\ ~inTrans[w] /\ undo[w] = <<>>
      /\ UNCHANGED <<offered, queue, open, conn, inTrans, undo, flawed, disk, stopped, torn,
                     uncommitted, losses>>
  BY DEF FailAtOnce, IInv, AtStep, Holds, connection, history
<1>2. Moves(w) /\ AtStep(w)'
  BY <1>1, FailureMoves DEF FailAtOnce, history
<1>3. Typed' /\ Only(w)
  BY <1>1, <1>2 DEF IInv, Typed, Only, Moves
<1>4. Holds(w)'
  BY <1>1 DEF Holds
<1> QED BY <1>2, <1>3, <1>4, OneWorker

\* The five things a successful statement may be: START TRANSACTION, COMMIT,
\* ROLLBACK, a statement of an open transaction, and one that takes effect at
\* once, which is a single statement or belongs to a torn transaction.
Unopened(w) == inTrans' = [inTrans EXCEPT ![w] = FALSE] /\ undo' = [undo EXCEPT ![w] = <<>>]
Write(w) == <<task[w], step[w]>>

Effect(w) ==
  \/ /\ task[w] \in Transactions /\ step[w] = 0 /\ Moved(w, 1)
     /\ inTrans' = [inTrans EXCEPT ![w] = TRUE] /\ UNCHANGED <<undo, disk>>
  \/ /\ task[w] \in Transactions /\ step[w] = Size[task[w]] + 1 /\ Finished(w)
     /\ Unopened(w) /\ disk' = disk \o undo[w]
  \/ /\ task[w] \in Transactions /\ step[w] = Size[task[w]] + 2 /\ Finished(w)
     /\ Unopened(w) /\ disk' = disk
  \/ /\ task[w] \in Transactions /\ Executing(w) /\ Moved(w, step[w] + 1)
     /\ inTrans[w] /\ undo' = [undo EXCEPT ![w] = Append(@, Write(w))]
     /\ UNCHANGED <<disk, inTrans>>
  \/ /\ Executing(w) /\ ~inTrans[w]
     /\ disk' = Append(disk, Write(w)) /\ UNCHANGED <<undo, inTrans>>
     /\ \/ task[w] \in Transactions /\ Moved(w, step[w] + 1)
        \/ task[w] \notin Transactions /\ Finished(w)

LEMMA EffectOfSuccess ==
  ASSUME IInv, NEW w \in Worker, Succeed(w)
  PROVE  Effect(w)
<1>1. /\ task[w] \in Op /\ step[w] \in Nat /\ Size[task[w]] \in Nat \ {0}
      /\ task[w] # None /\ Statement(w) /\ Succeeded(w)
  BY DEF Succeed, IInv, Typed, history
<1>2. task[w] \notin Transactions =>
        step[w] = 1 /\ Size[task[w]] = 1 /\ ~inTrans[w] /\ Executing(w)
  BY <1>1 DEF IInv, AtStep, Holds, Executing
<1>3. \/ /\ Finished(w)
         /\ task[w] \in Transactions => step[w] \in {Size[task[w]] + 1, Size[task[w]] + 2}
      \/ /\ Moved(w, step[w] + 1)
         /\ task[w] \in Transactions /\ step[w] \in 0..Size[task[w]]
  BY <1>1, AfterSuccess
<1>4. CASE task[w] \notin Transactions
  <2>1. Finished(w) /\ step[w] # 0
    BY <1>2, <1>3, <1>4
  <2> QED BY <1>2, <1>4, <2>1, <1>1 DEF Statement, Effect, Write
<1>5. CASE task[w] \in Transactions /\ step[w] = 0
  <2>1. Moved(w, 1)
    BY <1>1, <1>3, <1>5
  <2> QED BY <1>1, <1>5, <2>1 DEF Statement, Effect
<1>6. CASE task[w] \in Transactions /\ Executing(w)
  <2>1. Moved(w, step[w] + 1) /\ step[w] # 0
    BY <1>1, <1>3, <1>6 DEF Executing
  <2> QED BY <1>1, <1>6, <2>1 DEF Statement, Effect, Write
<1>7. CASE task[w] \in Transactions /\ step[w] # 0 /\ ~Executing(w)
  <2>1. Finished(w) /\ step[w] \in {Size[task[w]] + 1, Size[task[w]] + 2}
    BY <1>1, <1>3, <1>7 DEF Executing
  <2>2. /\ disk' = IF step[w] = Size[task[w]] + 1 THEN disk \o undo[w] ELSE disk
        /\ Unopened(w)
    BY <1>1, <1>7 DEF Statement, Commit, Unopened
  <2>3. Size[task[w]] + 1 # Size[task[w]] + 2
    BY <1>1
  <2> QED BY <1>7, <2>1, <2>2, <2>3 DEF Effect
<1> QED BY <1>4, <1>5, <1>6, <1>7

LEMMA SucceedStep ==
  ASSUME IInv, NEW w \in Worker, Succeed(w)
  PROVE  IInv'
<1>1. /\ task[w] \in Op /\ step[w] \in Nat /\ Size[task[w]] \in Nat \ {0}
      /\ w \notin stopped /\ conn[w] = "up"
      /\ UNCHANGED <<offered, queue, open, conn, flawed, stopped, torn, uncommitted, losses>>
  BY DEF Succeed, IInv, Typed, AtStep, history
<1>2. Effect(w)
  BY EffectOfSuccess
<1>3. Moves(w)
  BY <1>1, <1>2, MovesTyped DEF Effect
<1>4. Write(w) \in Op \X Nat
  BY <1>1 DEF Write
<1>5. /\ undo \in [Worker -> Seq(Op \X Nat)] /\ undo[w] \in Seq(Op \X Nat)
      /\ disk \in Seq(Op \X Nat)
  BY DEF IInv, Typed
<1>6. disk' \in Seq(Op \X Nat)
  <2>1. disk' = disk \/ disk' = disk \o undo[w] \/ disk' = Append(disk, Write(w))
    BY <1>2 DEF Effect
  <2>2. disk \o undo[w] \in Seq(Op \X Nat)
    BY <1>5, ConcatProperties
  <2>3. Append(disk, Write(w)) \in Seq(Op \X Nat)
    BY <1>4, <1>5, AppendProperties
  <2> QED BY <1>5, <2>1, <2>2, <2>3
<1>7. /\ undo' \in [Worker -> Seq(Op \X Nat)]
      /\ \A v \in Worker : v # w => undo'[v] = undo[v]
  <2>1. Append(undo[w], Write(w)) \in Seq(Op \X Nat)
    BY <1>4, <1>5, AppendProperties
  <2>2. \/ undo' = undo
        \/ undo' = [undo EXCEPT ![w] = <<>>]
        \/ undo' = [undo EXCEPT ![w] = Append(undo[w], Write(w))]
    BY <1>2 DEF Effect, Unopened
  <2>3. <<>> \in Seq(Op \X Nat)
    OBVIOUS
  <2> QED BY <1>5, <2>1, <2>2, <2>3
<1>8. /\ inTrans' \in [Worker -> BOOLEAN]
      /\ \A v \in Worker : v # w => inTrans'[v] = inTrans[v]
  <2>1. inTrans \in [Worker -> BOOLEAN]
    BY DEF IInv, Typed
  <2>2. \/ inTrans' = inTrans
        \/ inTrans' = [inTrans EXCEPT ![w] = TRUE]
        \/ inTrans' = [inTrans EXCEPT ![w] = FALSE]
    BY <1>2 DEF Effect, Unopened
  <2> QED BY <2>1, <2>2
<1>9. Typed'
  BY <1>1, <1>3, <1>6, <1>7, <1>8 DEF Moves, IInv, Typed
<1>10. Only(w)
  BY <1>1, <1>3, <1>7, <1>8 DEF Moves, Only
<1>11. CASE task[w] \in Transactions /\ step[w] = 0 /\ Moved(w, 1)
            /\ inTrans' = [inTrans EXCEPT ![w] = TRUE] /\ UNCHANGED <<undo, disk>>
  <2>1. undo[w] = <<>>
    BY <1>11 DEF IInv, Holds
  <2>2. Prefix(task[w], 0) = <<>>
    BY <1>1, Prefixes
  <2>3. task'[w] = task[w] /\ step'[w] = 1 /\ inTrans'[w] /\ undo'[w] = <<>>
    BY <1>11, <2>1 DEF Moved, IInv, Typed
  <2>4. AtStep(w)'
    BY <1>1, <1>11, <2>3 DEF AtStep
  <2>5. Holds(w)'
    BY <1>1, <1>11, <2>2, <2>3 DEF Holds
  <2> QED BY <1>9, <1>10, <2>4, <2>5, OneWorker
<1>12. CASE Finished(w) /\ (Unopened(w) \/ (~inTrans[w] /\ UNCHANGED <<undo, inTrans>>))
  <2>1. task'[w] = None /\ ~inTrans'[w] /\ undo'[w] = <<>>
    <3>1. task'[w] = None
      BY <1>12 DEF Finished, IInv, Typed
    <3>2. CASE Unopened(w)
      BY <3>1, <3>2 DEF Unopened, IInv, Typed
    <3>3. CASE ~inTrans[w] /\ UNCHANGED <<undo, inTrans>>
      BY <3>1, <3>3 DEF IInv, Holds
    <3> QED BY <1>12, <3>1, <3>2, <3>3
  <2>2. AtStep(w)' /\ Holds(w)'
    BY <1>1, <2>1 DEF AtStep, Holds
  <2> QED BY <1>9, <1>10, <2>2, OneWorker
<1>13. CASE /\ task[w] \in Transactions /\ Executing(w) /\ Moved(w, step[w] + 1)
            /\ \/ inTrans[w] /\ undo' = [undo EXCEPT ![w] = Append(@, Write(w))] /\ inTrans' = inTrans
               \/ ~inTrans[w] /\ UNCHANGED <<undo, inTrans>>
  <2>1. task'[w] = task[w] /\ step'[w] = step[w] + 1 /\ inTrans'[w] = inTrans[w]
    BY <1>1, <1>13 DEF Moved, IInv, Typed
  <2>2. step[w] \in 1..Size[task[w]]
    BY <1>13 DEF Executing
  <2>3. AtStep(w)'
    BY <1>1, <1>13, <2>1, <2>2 DEF AtStep
  <2>4. ASSUME inTrans[w]
        PROVE  Holds(w)'
    <3>1. undo[w] = Prefix(task[w], step[w] - 1)
      BY <1>1, <2>2, <2>4 DEF IInv, Holds
    <3>2. undo'[w] = Append(Prefix(task[w], step[w] - 1), <<task[w], step[w]>>)
      BY <1>13, <2>4, <3>1, <1>5 DEF Write
    <3>3. step[w] - 1 \in Nat /\ (step[w] - 1) + 1 = step[w]
      BY <2>2
    <3>4. undo'[w] = Prefix(task[w], step[w])
      BY <1>1, <3>2, <3>3, Prefixes
    <3>5. step'[w] - 1 = step[w] /\ step'[w] # 0
      BY <2>1, <2>2
    <3>6. /\ undo'[w] = Prefix(task'[w], step'[w] - 1) /\ task'[w] \in Transactions
          /\ inTrans'[w] /\ conn'[w] = "up"
      BY <1>1, <1>13, <2>1, <2>4, <3>4, <3>5
    <3> QED BY <3>5, <3>6 DEF Holds
  <2>5. ASSUME ~inTrans[w]
        PROVE  Holds(w)'
    <3>1. undo'[w] = <<>> /\ task[w] \in torn
      BY <1>1, <1>13, <2>2, <2>5 DEF IInv, Holds
    <3>2. ~inTrans'[w] /\ task'[w] \in torn' /\ conn'[w] = "up"
      BY <1>1, <2>1, <2>5, <3>1
    <3> QED BY <3>1, <3>2 DEF Holds
  <2> QED BY <1>9, <1>10, <2>3, <2>4, <2>5, OneWorker
<1> QED BY <1>2, <1>11, <1>12, <1>13 DEF Effect

\* The connections hold what the workers' positions say, always.
THEOREM InvariantHolds == Spec => []IInv
<1>1. ASSUME IInv, UNCHANGED vars
      PROVE  IInv'
  <2>1. Typed'
    BY <1>1 DEF IInv, Typed, vars, connection, history
  <2>2. \A w \in Worker : AtStep(w)' /\ Holds(w)'
    BY <1>1, Bystander DEF IInv, vars, connection, history
  <2> QED BY <2>1, <2>2 DEF IInv
<1>2. ASSUME IInv, Next
      PROVE  IInv'
  BY <1>2, ThreadSteps, DequeueStep, QuitStep, SucceedStep, RefuseStep, LoseStep,
     ReconnectStep, FailAtOnceStep, CrashStep DEF Next, Works
<1> QED BY <1>1, <1>2, Initial, PTL DEF Spec

\* Variables keep their types: the queue never holds more than HighWater
\* operations, and no worker leaves the statements of its operation.
THEOREM TypeCorrect == Spec => []TypeOK
<1>1. IInv => TypeOK
  <2>1. ASSUME IInv, NEW w \in Worker, task[w] # None
        PROVE  step[w] \in 0..Rollback(w)
    <3>1. task[w] \in Op /\ Size[task[w]] \in Nat \ {0}
      BY <2>1 DEF IInv, Typed
    <3> QED BY <2>1, <3>1 DEF IInv, AtStep, Rollback
  <2>2. ASSUME IInv
        PROVE  TypeOK
    BY <2>1, <2>2 DEF IInv, Typed, TypeOK, Fate
  <2> QED BY <2>2
<1> QED BY <1>1, InvariantHolds, PTL

-----------------------------------------------------------------------------
(* Refinement of the write log.                                            *)

\* What the refinement takes for the pending operations, with the worker's
\* operation and the queue as parameters.
PendingOf(op, q) == (IF op = None THEN <<>> ELSE <<op>>) \o q

\* The worker's operation is the first, the queue is the rest.
LEMMA Front ==
  ASSUME NEW op \in Op, NEW q \in Seq(Op)
  PROVE  /\ PendingOf(None, q) = q
         /\ PendingOf(op, q) \in Seq(Op) /\ PendingOf(op, q) # <<>>
         /\ Head(PendingOf(op, q)) = op /\ Tail(PendingOf(op, q)) = q
         /\ PendingOf(op, <<>>) = <<op>>
<1>1. PendingOf(None, q) = q
  BY ConcatEmptySeq DEF PendingOf
<1>2. PendingOf(op, q) = <<op>> \o q
  BY DEF PendingOf
<1>3. <<op>> \in Seq(Op) /\ Len(<<op>>) = 1 /\ <<op>>[1] = op
  OBVIOUS
<1> DEFINE s == <<op>> \o q
<1>4. /\ s \in Seq(Op) /\ Len(s) = 1 + Len(q) /\ Len(q) \in Nat
      /\ \A i \in 1..(1 + Len(q)) : s[i] = IF i <= 1 THEN <<op>>[i] ELSE q[i - 1]
  BY <1>3, ConcatProperties, LenProperties
<1>5. s # <<>> /\ Head(s) = op
  <2>1. Len(s) # 0
    BY <1>4
  <2>2. s # <<>>
    BY <2>1
  <2>3. s[1] = op
    BY <1>3, <1>4
  <2> QED BY <1>4, <2>2, <2>3
<1>6. Tail(s) = q
  <2>1. /\ Tail(s) \in Seq(Op) /\ Len(Tail(s)) = Len(q)
        /\ \A i \in 1..Len(q) : Tail(s)[i] = s[i + 1]
    BY <1>4, <1>5, HeadTailProperties
  <2>2. \A i \in 1..Len(q) : Tail(s)[i] = q[i]
    <3> SUFFICES ASSUME NEW i \in 1..Len(q)
                 PROVE  Tail(s)[i] = q[i]
      OBVIOUS
    <3>1. i + 1 \in 1..(1 + Len(q)) /\ ~(i + 1 <= 1) /\ (i + 1) - 1 = i
      BY <1>4
    <3> QED BY <1>4, <2>1, <3>1
  <2>3. Tail(s) \in [1..Len(q) -> Op] /\ q \in [1..Len(q) -> Op]
    BY <2>1, LenProperties
  <2> QED BY <2>2, <2>3
<1>7. PendingOf(op, <<>>) = <<op>>
  BY <1>3, ConcatEmptySeq DEF PendingOf
<1> QED BY <1>1, <1>2, <1>4, <1>5, <1>6, <1>7

\* A sequence is its head and its tail.
LEMMA SameEnds ==
  ASSUME NEW s \in Seq(Op), NEW t \in Seq(Op), s # <<>>, t # <<>>,
         Head(s) = Head(t), Tail(s) = Tail(t)
  PROVE  s = t
<1>1. ASSUME NEW u \in Seq(Op), u # <<>>
      PROVE  /\ Len(u) \in Nat \ {0} /\ Len(Tail(u)) = Len(u) - 1 /\ u[1] = Head(u)
             /\ \A i \in 1..Len(u) : i # 1 => u[i] = Tail(u)[i - 1]
  <2>1. Len(u) \in Nat /\ Len(u) # 0
    BY <1>1, EmptySeq, LenProperties
  <2>2. /\ Len(Tail(u)) = Len(u) - 1
        /\ \A i \in 1..Len(Tail(u)) : Tail(u)[i] = u[i + 1]
    BY <1>1, HeadTailProperties
  <2>3. ASSUME NEW i \in 1..Len(u), i # 1
        PROVE  u[i] = Tail(u)[i - 1]
    <3>1. i - 1 \in 1..Len(Tail(u)) /\ (i - 1) + 1 = i
      BY <2>1, <2>2, <2>3
    <3> QED BY <2>2, <3>1
  <2> QED BY <1>1, <2>1, <2>2, <2>3
<1>2. Len(s) = Len(t) /\ Len(s) \in Nat
  <2>1. Len(s) - 1 = Len(t) - 1 /\ Len(s) \in Nat /\ Len(t) \in Nat
    BY <1>1
  <2> QED BY <2>1
<1>3. ASSUME NEW i \in 1..Len(s)
      PROVE  s[i] = t[i]
  <2>1. CASE i = 1
    BY <1>1, <2>1
  <2>2. CASE i # 1
    <3>1. s[i] = Tail(s)[i - 1]
      BY <1>1, <2>2
    <3>2. t[i] = Tail(t)[i - 1]
      BY <1>1, <1>2, <2>2
    <3> QED BY <3>1, <3>2
  <2> QED BY <2>1, <2>2
<1>4. s \in [1..Len(s) -> Op] /\ t \in [1..Len(s) -> Op]
  BY <1>2, LenProperties
<1> QED BY <1>3, <1>4

\* Queueing appends to what is pending; dequeuing leaves it as it is.
LEMMA FrontMoves ==
  ASSUME NEW op \in Op \cup {None}, NEW q \in Seq(Op), NEW new \in Op
  PROVE  /\ PendingOf(op, Append(q, new)) = Append(PendingOf(op, q), new)
         /\ q # <<>> => PendingOf(Head(q), Tail(q)) = q
<1>1. PendingOf(op, Append(q, new)) = Append(PendingOf(op, q), new)
  <2> DEFINE cur == IF op = None THEN <<>> ELSE <<op>>
  <2>1. cur \in Seq(Op)
    OBVIOUS
  <2>2. <<new>> \in Seq(Op)
    OBVIOUS
  <2>3. Append(q, new) = q \o <<new>>
    BY AppendIsConcat
  <2>4. cur \o q \in Seq(Op)
    BY <2>1, ConcatProperties
  <2>5. Append(cur \o q, new) = (cur \o q) \o <<new>>
    BY <2>4, AppendIsConcat
  <2>6. (cur \o q) \o <<new>> = cur \o (q \o <<new>>)
    BY <2>1, <2>2, ConcatAssociative
  <2> QED BY <2>3, <2>5, <2>6 DEF PendingOf
<1>2. ASSUME q # <<>>
      PROVE  PendingOf(Head(q), Tail(q)) = q
  <2>1. Head(q) \in Op /\ Tail(q) \in Seq(Op)
    BY <1>2, HeadTailProperties
  <2> DEFINE s == PendingOf(Head(q), Tail(q))
  <2>2. s \in Seq(Op) /\ s # <<>> /\ Head(s) = Head(q) /\ Tail(s) = Tail(q)
    BY <2>1, Front
  <2> HIDE DEF s
  <2>3. s = q
    BY <1>2, <2>2, SameEnds
  <2> QED BY <2>3 DEF s
<1> QED BY <1>1, <1>2

\* A single statement takes effect at once, and that is all its operation does.
LEMMA SingleWrite ==
  ASSUME NEW op \in Op \ Transactions, NEW d \in Seq(Op \X Nat)
  PROVE  Append(d, <<op, 1>>) = d \o Writes(op)
<1>1. <<op, 1>> \in Op \X Nat
  OBVIOUS
<1>2. Writes(op) = <<<<op, 1>>>>
  BY DEF Writes
<1> QED BY <1>1, <1>2, AppendIsConcat

Pending == PendingOf(task[TheWorker], queue)
LogStep == Log!Next \/ (disk' = disk /\ Pending' = Pending /\ torn' = torn)

\* The steps of the log, in the pool's variables.
LEMMA LogSteps ==
  /\ \A op \in Op : Pending' = Append(Pending, op) /\ UNCHANGED <<disk, torn>> => LogStep
  /\ Pending # <<>> =>
       /\ disk' = disk \o Writes(Head(Pending)) /\ Pending' = Tail(Pending) /\ torn' = torn
          => LogStep
       /\ disk' = disk /\ Pending' = Tail(Pending) /\ torn' = torn => LogStep
       /\ disk' \in {disk, disk \o Writes(Head(Pending))} /\ Pending' = Pending
            /\ torn' = torn \cup {Head(Pending)} => LogStep
       /\ \A n \in 1..Size[Head(Pending)] :
            Head(Pending) \in torn /\ disk' = Append(disk, <<Head(Pending), n>>)
              /\ Pending' = Pending /\ torn' = torn => LogStep
       /\ disk' = disk /\ Pending' \in {<<>>, <<Head(Pending)>>} /\ torn' = torn => LogStep
<1> USE DEF LogStep, Log!Next, Pending, PendingOf
<1>1. \A op \in Op : Pending' = Append(Pending, op) /\ UNCHANGED <<disk, torn>> => LogStep
  BY DEF Log!Enqueue
<1>2. ASSUME Pending # <<>>, disk' = disk \o Writes(Head(Pending)),
             Pending' = Tail(Pending), torn' = torn
      PROVE  LogStep
  BY <1>2 DEF Log!Flush, Log!Writes, Writes
<1>3. ASSUME Pending # <<>>, disk' = disk, Pending' = Tail(Pending), torn' = torn
      PROVE  LogStep
  BY <1>3 DEF Log!Skip
<1>4. ASSUME Pending # <<>>, disk' \in {disk, disk \o Writes(Head(Pending))},
             Pending' = Pending, torn' = torn \cup {Head(Pending)}
      PROVE  LogStep
  BY <1>4 DEF Log!Break, Log!Writes, Writes
<1>5. ASSUME Pending # <<>>, NEW n \in 1..Size[Head(Pending)], Head(Pending) \in torn,
             disk' = Append(disk, <<Head(Pending), n>>), Pending' = Pending, torn' = torn
      PROVE  LogStep
  BY <1>5 DEF Log!Tear
<1>6. ASSUME Pending # <<>>, disk' = disk, Pending' \in {<<>>, <<Head(Pending)>>}, torn' = torn
      PROVE  LogStep
  BY <1>6 DEF Log!Drop
<1> HIDE DEF LogStep, Log!Next, Pending, PendingOf
<1>7. ASSUME Pending # <<>>
      PROVE  /\ disk' = disk \o Writes(Head(Pending)) /\ Pending' = Tail(Pending) /\ torn' = torn
                => LogStep
             /\ disk' = disk /\ Pending' = Tail(Pending) /\ torn' = torn => LogStep
  BY <1>2, <1>3, <1>7
<1>8. ASSUME Pending # <<>>
      PROVE  disk' \in {disk, disk \o Writes(Head(Pending))} /\ Pending' = Pending
               /\ torn' = torn \cup {Head(Pending)} => LogStep
  BY <1>4, <1>8
<1>9. ASSUME Pending # <<>>
      PROVE  /\ \A n \in 1..Size[Head(Pending)] :
                  Head(Pending) \in torn /\ disk' = Append(disk, <<Head(Pending), n>>)
                    /\ Pending' = Pending /\ torn' = torn => LogStep
             /\ disk' = disk /\ Pending' \in {<<>>, <<Head(Pending)>>} /\ torn' = torn
                => LogStep
  BY <1>5, <1>6, <1>9
<1> QED BY <1>1, <1>7, <1>8, <1>9

\* What is pending before and after a step.
LEMMA PendingIs ==
  ASSUME IInv, TheWorker \in Worker
  PROVE  /\ task[TheWorker] = None => Pending = queue
         /\ task[TheWorker] # None =>
              /\ Pending # <<>> /\ Head(Pending) = task[TheWorker] /\ Tail(Pending) = queue
              /\ task[TheWorker] \in Op
         /\ UNCHANGED <<task, queue>> => Pending' = Pending
<1>1. queue \in Seq(Op) /\ task[TheWorker] \in Op \cup {None}
  BY DEF IInv, Typed
<1>2. CASE task[TheWorker] = None
  <2>1. None \notin Op
    OBVIOUS
  <2>2. Pending = queue
    BY <1>1, <1>2, ConcatEmptySeq DEF Pending, PendingOf
  <2> QED BY <1>2, <2>2 DEF Pending
<1>3. CASE task[TheWorker] # None
  BY <1>1, <1>3, Front DEF Pending
<1> QED BY <1>2, <1>3

\* An operation ends: it is not pending any more.
LEMMA FinishedIs ==
  ASSUME IInv, TheWorker \in Worker, task[TheWorker] # None, Finished(TheWorker),
         UNCHANGED queue
  PROVE  Pending' = Tail(Pending)
<1>1. queue \in Seq(Op) /\ task'[TheWorker] = None
  BY DEF IInv, Typed, Finished
<1>2. PendingOf(None, queue) = queue
  BY <1>1, ConcatEmptySeq DEF PendingOf
<1>3. Pending' = queue
  BY <1>1, <1>2 DEF Pending
<1> QED BY <1>3, PendingIs

\* The failure of a statement is nothing to the log, or the operation is skipped.
LEMMA FailureRefines ==
  ASSUME IInv, TheWorker \in Worker, task[TheWorker] # None, Failed(TheWorker),
         UNCHANGED <<queue, disk, torn>>
  PROVE  LogStep
<1>1. CASE Finished(TheWorker)
  BY <1>1, FinishedIs, PendingIs, LogSteps
<1>2. CASE \E n \in Nat : Moved(TheWorker, n)
  BY <1>2, PendingIs DEF Moved, LogStep
<1>3. Size[task[TheWorker]] + 2 \in Nat
  BY DEF IInv, Typed
<1> QED BY <1>1, <1>2, <1>3, AfterFailure

\* A transaction that is not started is no longer kept together.
LEMMA NotStartedRefines ==
  ASSUME IInv, TheWorker \in Worker, task[TheWorker] # None, Failed(TheWorker),
         step[TheWorker] = 0, UNCHANGED <<queue, disk>>,
         torn' = torn \cup {task[TheWorker]}
  PROVE  LogStep
<1>1. /\ task[TheWorker] \in Op /\ Size[task[TheWorker]] \in Nat \ {0}
      /\ task[TheWorker] \in Transactions
  BY DEF IInv, Typed, AtStep
<1>2. ~Executing(TheWorker)
  BY DEF Executing
<1>3. Advance(TheWorker, 1)
  BY <1>1, <1>2 DEF Failed, Succeeded, IsTransaction, Commit, Rollback
<1>4. UNCHANGED task
  BY <1>3 DEF Advance
<1>5. Pending' = Pending /\ Pending # <<>> /\ Head(Pending) = task[TheWorker]
  BY <1>4, PendingIs
<1> QED BY <1>5, LogSteps

LEMMA SucceedRefines ==
  ASSUME IInv, TheWorker \in Worker, Succeed(TheWorker)
  PROVE  LogStep
<1> DEFINE w == TheWorker
           op == task[TheWorker]
<1>1. /\ op \in Op /\ step[w] \in Nat /\ Size[op] \in Nat \ {0} /\ conn[w] = "up"
      /\ op # None /\ UNCHANGED <<queue, torn>>
      /\ disk \in Seq(Op \X Nat)
  BY DEF Succeed, IInv, Typed, history
<1>2. Effect(w)
  BY EffectOfSuccess
<1>3. /\ Pending # <<>> /\ Head(Pending) = op
      /\ Finished(w) => Pending' = Tail(Pending)
      /\ (\E n \in Nat : Moved(w, n)) => Pending' = Pending
  BY <1>1, PendingIs, FinishedIs DEF Moved
<1>4. CASE op \in Transactions /\ step[w] = 0 /\ Moved(w, 1) /\ UNCHANGED disk
  BY <1>1, <1>3, <1>4 DEF LogStep
<1>5. CASE op \in Transactions /\ step[w] = Size[op] + 1 /\ Finished(w)
            /\ disk' = disk \o undo[w]
  <2>1. CASE inTrans[w]
    <3>1. step[w] - 1 = Size[op] /\ step[w] <= Size[op] + 1
      BY <1>1, <1>5
    <3>2. undo[w] = Prefix(op, Size[op])
      BY <2>1, <3>1 DEF IInv, Holds
    <3>3. undo[w] = Writes(op)
      BY <1>1, <3>2, WritesIsPrefix
    <3> QED BY <1>1, <1>3, <1>5, <3>3, LogSteps
  <2>2. CASE ~inTrans[w]
    <3>1. undo[w] = <<>>
      BY <2>2 DEF IInv, Holds
    <3>2. disk' = disk
      BY <1>1, <1>5, <3>1, ConcatEmptySeq
    <3> QED BY <1>1, <1>3, <1>5, <3>2, LogSteps
  <2> QED BY <2>1, <2>2
<1>6. CASE Finished(w) /\ disk' = disk
  BY <1>1, <1>3, <1>6, LogSteps
<1>7. CASE Moved(w, step[w] + 1) /\ UNCHANGED disk
  BY <1>1, <1>3, <1>7 DEF LogStep
<1>8. CASE /\ op \in Transactions /\ Executing(w) /\ ~inTrans[w]
           /\ disk' = Append(disk, Write(w)) /\ Moved(w, step[w] + 1)
  <2>1. step[w] \in 1..Size[op]
    BY <1>8 DEF Executing
  <2>2. op \in torn
    BY <1>1, <1>8, <2>1 DEF IInv, Holds
  <2>3. Pending' = Pending
    <3>1. step[w] + 1 \in Nat
      BY <1>1
    <3> QED BY <1>3, <1>8, <3>1
  <2> QED BY <1>1, <1>3, <1>8, <2>1, <2>2, <2>3, LogSteps DEF Write
<1>9. CASE /\ op \notin Transactions /\ Executing(w) /\ disk' = Append(disk, Write(w))
           /\ Finished(w)
  <2>1. step[w] = 1
    BY <1>1, <1>9 DEF IInv, AtStep
  <2>2. disk' = disk \o Writes(op)
    BY <1>1, <1>9, <2>1, SingleWrite DEF Write
  <2> QED BY <1>1, <1>3, <1>9, <2>2, LogSteps
<1> QED BY <1>1, <1>2, <1>4, <1>5, <1>6, <1>7, <1>8, <1>9 DEF Effect

\* A connection breaks.
LEMMA LoseRefines ==
  ASSUME IInv, TheWorker \in Worker, Lose(TheWorker)
  PROVE  LogStep
<1> DEFINE w == TheWorker
           op == task[TheWorker]
<1>1. /\ op \in Op /\ step[w] \in Nat /\ Size[op] \in Nat \ {0} /\ conn[w] = "up"
      /\ op # None /\ UNCHANGED <<queue, task>> /\ torn' = torn \cup {op}
      /\ disk \in Seq(Op \X Nat)
  BY DEF Lose, IInv, Typed
<1>2. Pending # <<>> /\ Head(Pending) = op /\ Pending' = Pending
  BY <1>1, PendingIs
<1>3. CASE disk' = disk
  BY <1>1, <1>2, <1>3, LogSteps
<1>4. CASE step[w] = Commit(w) /\ disk' = disk \o undo[w]
  <2>1. CASE inTrans[w]
    <3>0. step[w] = Size[op] + 1
      BY <1>4 DEF Commit
    <3>1. step[w] - 1 = Size[op] /\ step[w] <= Size[op] + 1
      <4> HIDE DEF w, op
      <4> QED BY <1>1, <3>0
    <3>2. undo[w] = Prefix(op, Size[op])
      BY <2>1, <3>1 DEF IInv, Holds
    <3>3. undo[w] = Writes(op)
      BY <1>1, <3>2, WritesIsPrefix
    <3> QED BY <1>1, <1>2, <1>4, <3>3, LogSteps
  <2>2. CASE ~inTrans[w]
    <3>1. undo[w] = <<>>
      BY <2>2 DEF IInv, Holds
    <3>2. disk' = disk
      BY <1>1, <1>4, <3>1, ConcatEmptySeq
    <3> QED BY <1>3, <3>2
  <2> QED BY <2>1, <2>2
<1>5. CASE Executing(w) /\ ~inTrans[w] /\ disk' = Append(disk, <<op, step[w]>>)
  <2>1. step[w] \in 1..Size[op]
    BY <1>5 DEF Executing
  <2>2. CASE op \in Transactions
    <3>1. op \in torn
      BY <1>1, <1>5, <2>1, <2>2 DEF IInv, Holds
    <3>2. torn' = torn
      BY <1>1, <3>1
    <3> QED BY <1>1, <1>2, <1>5, <2>1, <3>1, <3>2, LogSteps
  <2>3. CASE op \notin Transactions
    <3>1. step[w] = 1
      BY <1>1, <2>3 DEF IInv, AtStep
    <3>2. disk' = disk \o Writes(op)
      BY <1>1, <1>5, <2>3, <3>1, SingleWrite
    <3> QED BY <1>1, <1>2, <3>2, LogSteps
  <2> QED BY <2>2, <2>3
<1> QED BY <1>3, <1>4, <1>5 DEF Lose

\* Operations come in, are taken, and are given up.
LEMMA EnqueueRefines ==
  ASSUME IInv, TheWorker \in Worker, NEW t \in Thread, Enqueue(t)
  PROVE  LogStep
<1>1. /\ offered[t] \in Op /\ queue \in Seq(Op) /\ task[TheWorker] \in Op \cup {None}
      /\ queue' = Append(queue, offered[t]) /\ UNCHANGED <<task, disk, torn>>
  BY DEF Enqueue, IInv, Typed, history
<1>2. Pending' = Append(Pending, offered[t])
  BY <1>1, FrontMoves DEF Pending
<1> QED BY <1>1, <1>2, LogSteps

LEMMA DequeueRefines ==
  ASSUME IInv, TheWorker \in Worker, Dequeue(TheWorker)
  PROVE  LogStep
<1>1. /\ queue \in Seq(Op) /\ queue # <<>> /\ task[TheWorker] = None
      /\ task'[TheWorker] = Head(queue) /\ queue' = Tail(queue)
      /\ UNCHANGED <<disk, torn>>
  BY DEF Dequeue, IInv, Typed, history
<1>2. Head(queue) \in Op
  BY <1>1, HeadTailProperties
<1>3. Pending' = PendingOf(Head(queue), Tail(queue))
  BY <1>1 DEF Pending
<1>4. PendingOf(Head(queue), Tail(queue)) = queue
  BY <1>1, <1>2, FrontMoves
<1>5. Pending' = Pending
  BY <1>1, <1>3, <1>4, PendingIs
<1> QED BY <1>1, <1>5 DEF LogStep

LEMMA CloseRefines ==
  ASSUME IInv, TheWorker \in Worker, Close
  PROVE  LogStep
<1>1. /\ queue' = <<>> /\ UNCHANGED <<task, disk, torn>>
      /\ task[TheWorker] \in Op \cup {None}
  BY DEF Close, IInv, Typed, history
<1>2. Pending' = PendingOf(task[TheWorker], <<>>)
  BY <1>1 DEF Pending
<1>3. <<>> \in Seq(Op)
  OBVIOUS
<1>4. CASE task[TheWorker] = None
  <2>1. Pending' = <<>>
    BY <1>2, <1>3, <1>4, ConcatEmptySeq DEF PendingOf
  <2> QED BY <1>1, <2>1, LogSteps DEF LogStep
<1>5. CASE task[TheWorker] \in Op
  <2>1. Pending # <<>> /\ Head(Pending) = task[TheWorker]
    BY <1>5, PendingIs
  <2>2. Pending' = <<Head(Pending)>>
    BY <1>2, <1>3, <1>5, <2>1, Front
  <2> QED BY <1>1, <2>1, <2>2, LogSteps
<1> QED BY <1>1, <1>4, <1>5

LEMMA CrashRefines ==
  ASSUME IInv, TheWorker \in Worker, Crash
  PROVE  LogStep
<1>1. queue' = <<>> /\ task'[TheWorker] = None /\ UNCHANGED <<disk, torn>>
  BY DEF Crash, history
<1>2. Pending' = <<>>
  <2>1. <<>> \in Seq(Op)
    OBVIOUS
  <2> QED BY <1>1, <2>1, ConcatEmptySeq DEF Pending, PendingOf
<1> QED BY <1>1, <1>2, LogSteps DEF LogStep

LEMMA Refines ==
  ASSUME IInv, Worker = {TheWorker}, [Next]_vars
  PROVE  LogStep
<1>0. TheWorker \in Worker
  OBVIOUS
<1>1. ASSUME UNCHANGED <<task, queue, disk, torn>>
      PROVE  LogStep
  BY <1>0, <1>1, PendingIs DEF LogStep
<1>2. ASSUME NEW w \in Worker, Reconnect(w)
      PROVE  LogStep
  BY <1>0, <1>1, <1>2, FailureRefines DEF Reconnect, history
<1>3. ASSUME NEW w \in Worker, FailAtOnce(w)
      PROVE  LogStep
  BY <1>0, <1>3, FailureRefines DEF FailAtOnce, history
<1>4. ASSUME NEW w \in Worker, Refuse(w)
      PROVE  LogStep
  <2>1. /\ w = TheWorker /\ task[w] # None /\ Failed(w) /\ UNCHANGED <<queue, disk>>
        /\ torn' = IF step[w] = 0 THEN torn \cup {task[w]} ELSE torn
    BY <1>0, <1>4 DEF Refuse
  <2>2. CASE step[w] # 0
    BY <2>1, <2>2, FailureRefines
  <2>3. CASE step[w] = 0
    BY <2>1, <2>3, NotStartedRefines
  <2> QED BY <2>2, <2>3
<1>5. ASSUME NEW w \in Worker, Quit(w)
      PROVE  LogStep
  BY <1>1, <1>5 DEF Quit, history
<1>6. ASSUME NEW w \in Worker, Works(w)
      PROVE  LogStep
  BY <1>0, <1>2, <1>3, <1>4, <1>5, <1>6, DequeueRefines, SucceedRefines, LoseRefines DEF Works
<1>7. ASSUME NEW t \in Thread, NEW op \in Op, Offer(t, op)
      PROVE  LogStep
  BY <1>1, <1>7 DEF Offer, history
<1>8. CASE UNCHANGED vars
  BY <1>1, <1>8 DEF vars, history
<1> QED BY <1>0, <1>6, <1>7, <1>8, EnqueueRefines, CloseRefines, CrashRefines DEF Next

\* With one worker the pool implements the write log: operations take effect
\* in the order in which they were queued, whole or not at all unless the
\* connection broke or the server would not start a transaction, and a crash or
\* Close loses a tail of them.
THEOREM LogIsImplemented ==
  ASSUME Worker = {TheWorker}
  PROVE  Spec => ImplementsWriteLog
<1>1. Init => Log!Init
  <2>1. <<>> \in Seq(Op) /\ <<>> \o <<>> = <<>>
    OBVIOUS
  <2>2. TheWorker \in Worker
    OBVIOUS
  <2> QED BY <2>1, <2>2 DEF Init, Log!Init
<1>2. IInv /\ [Next]_vars => [Log!Next]_<<disk,
        (IF task[TheWorker] = None THEN <<>> ELSE <<task[TheWorker]>>) \o queue, torn>>
  BY Refines DEF LogStep, Pending, PendingOf
<1> QED BY <1>1, <1>2, InvariantHolds, PTL DEF Spec, ImplementsWriteLog, Log!Spec

-----------------------------------------------------------------------------
(* Outcomes.                                                               *)

\* An operation is with one thread, in one place of the queue or with one worker.
OneAtATime ==
  /\ \A t \in Thread : offered[t] # None =>
       /\ fate[offered[t]] = "new"
       /\ \A u \in Thread : offered[u] = offered[t] => u = t
  /\ \A n \in 1..Len(queue) :
       /\ fate[queue[n]] = "queued"
       /\ \A m \in 1..Len(queue) : queue[m] = queue[n] => m = n
  /\ \A w \in Worker : task[w] # None =>
       /\ fate[task[w]] = "queued"
       /\ \A n \in 1..Len(queue) : queue[n] # task[w]
       /\ \A v \in Worker : task[v] = task[w] => v = w

\* A transaction that has no connection from its start on fails at its first
\* statement: it never comes to COMMIT, whose result is not looked at.
NeverCommits(w) ==
  (conn[w] = "gone" /\ task[w] \in Transactions \ torn)
    => step[w] \in {0, 1, Size[task[w]] + 2}

\* A transaction whose COMMIT was refused has ended.
Ended == \A op \in Op : op \in uncommitted => fate[op] = "done"

Sound == OneAtATime /\ OutcomesAreTrue /\ Ended
OInv  == IInv /\ (\A w \in Worker : NeverCommits(w)) /\ Sound

\* Statements of one operation at the end of the disk change nothing for another.
LEMMA OthersUnaffected ==
  ASSUME NEW d \in Seq(Op \X Nat), NEW e \in Seq(Op \X Nat), NEW op \in Op,
         \A n \in 1..Len(e) : e[n][1] = op, NEW other \in Op \ {op}
  PROVE  /\ TookEffect(d, other) => TookEffect(d \o e, other)
         /\ NoEffect(d, other) => NoEffect(d \o e, other)
<1> DEFINE D == d \o e
<1>1. /\ Len(D) = Len(d) + Len(e) /\ Len(d) \in Nat /\ Len(e) \in Nat
      /\ \A n \in 1..(Len(d) + Len(e)) : D[n] = IF n <= Len(d) THEN d[n] ELSE e[n - Len(d)]
  BY ConcatProperties, LenProperties
<1> HIDE DEF D
<1>2. ASSUME NEW n \in 1..Len(D), n > Len(d)
      PROVE  D[n][1] # other
  <2>1. n - Len(d) \in 1..Len(e) /\ D[n] = e[n - Len(d)]
    BY <1>1, <1>2
  <2> QED BY <2>1
<1>3. ASSUME NEW n \in 1..Len(D), n <= Len(d)
      PROVE  D[n] = d[n] /\ n \in 1..Len(d)
  BY <1>1, <1>3
<1>4. ASSUME NoEffect(d, other)
      PROVE  NoEffect(D, other)
  <2> SUFFICES ASSUME NEW n \in 1..Len(D)
               PROVE  D[n][1] # other
    BY DEF NoEffect
  <2>1. CASE n <= Len(d)
    BY <1>3, <1>4, <2>1 DEF NoEffect
  <2>2. CASE n > Len(d)
    BY <1>2, <2>2
  <2> QED BY <1>1, <2>1, <2>2
<1>5. ASSUME TookEffect(d, other)
      PROVE  TookEffect(D, other)
  <2>1. PICK k \in 0..(Len(d) - Size[other]) : \A n \in 1..Len(d) :
          IF n - k \in 1..Size[other] THEN d[n] = <<other, n - k>> ELSE d[n][1] # other
    BY <1>5 DEF TookEffect
  <2>2. Size[other] \in Nat /\ k \in 0..(Len(D) - Size[other])
    BY <1>1
  <2>3. ASSUME NEW n \in 1..Len(D)
        PROVE  IF n - k \in 1..Size[other] THEN D[n] = <<other, n - k>> ELSE D[n][1] # other
    <3>1. CASE n <= Len(d)
      BY <1>3, <2>1, <3>1
    <3>2. CASE n > Len(d)
      <4>1. n - k \notin 1..Size[other]
        BY <1>1, <2>2, <3>2
      <4> QED BY <1>2, <3>2, <4>1
    <3> QED BY <1>1, <3>1, <3>2
  <2> QED BY <2>2, <2>3 DEF TookEffect
<1> QED BY <1>4, <1>5 DEF D

\* All its statements at the end of a disk that had none are its effect.
LEMMA EffectIsTaken ==
  ASSUME NEW d \in Seq(Op \X Nat), NEW op \in Op, NoEffect(d, op)
  PROVE  TookEffect(d \o Writes(op), op)
<1>0. PICK e : e = Writes(op)
  OBVIOUS
<1> DEFINE D == d \o e
           s == Size[op]
           k == Len(d)
<1>1. e \in Seq(Op \X Nat) /\ Len(e) = s /\ s \in Nat \ {0}
  BY <1>0, WritesIsPrefix, Prefixes
<1>2. /\ Len(D) = k + s /\ k \in Nat
      /\ \A n \in 1..(k + s) : D[n] = IF n <= k THEN d[n] ELSE e[n - k]
  <2>1. e \in Seq(Op \X Nat)
    BY <1>1
  <2>2. /\ Len(D) = Len(d) + Len(e) /\ Len(d) \in Nat
        /\ \A n \in 1..(Len(d) + Len(e)) : D[n] = IF n <= Len(d) THEN d[n] ELSE e[n - Len(d)]
    BY <2>1, ConcatProperties, LenProperties
  <2> QED BY <1>1, <2>2
<1> HIDE DEF D
<1>3. ASSUME NEW n \in 1..Len(D)
      PROVE  IF n - k \in 1..s THEN D[n] = <<op, n - k>> ELSE D[n][1] # op
  <2>1. CASE n <= k
    <3>1. n \in 1..k /\ D[n] = d[n] /\ n - k \notin 1..s
      BY <1>1, <1>2, <2>1
    <3> QED BY <3>1 DEF NoEffect
  <2>2. CASE n > k
    <3>1. n - k \in 1..s /\ D[n] = e[n - k]
      BY <1>1, <1>2, <2>2
    <3> QED BY <1>0, <3>1 DEF Writes
  <2> QED BY <1>2, <2>1, <2>2
<1>4. k \in 0..(Len(D) - s)
  BY <1>1, <1>2
<1> QED BY <1>0, <1>3, <1>4 DEF TookEffect, D

\* What a worker's step reports of its operation: e is what it adds to the disk,
\* and r the operation's new fate.
Report(w, e, r) ==
  /\ disk' = disk \o e
  /\ \A n \in 1..Len(e) : e[n][1] = task[w]
  /\ torn \subseteq torn' /\ UNCHANGED <<offered, queue>>
  /\ \/ r = "queued" /\ UNCHANGED <<task, fate>>
     \/ /\ r \in {"done", "failed"}
        /\ fate' = [fate EXCEPT ![task[w]] = r] /\ task' = [task EXCEPT ![w] = None]
  /\ \/ uncommitted' = uncommitted
     \/ r = "done" /\ uncommitted' = uncommitted \cup {task[w]}
  /\ \/ task[w] \in torn'
     \/ IF r = "done" /\ task[w] \notin uncommitted' THEN e = Writes(task[w]) ELSE e = <<>>

LEMMA ReportsAreTrue ==
  ASSUME OInv, NEW w \in Worker, task[w] # None,
         NEW e \in Seq(Op \X Nat), NEW r, Report(w, e, r)
  PROVE  Sound'
<1>1. /\ Typed /\ OneAtATime /\ OutcomesAreTrue /\ Ended
      /\ task[w] \in Op /\ fate[task[w]] = "queued" /\ disk \in Seq(Op \X Nat)
  BY DEF OInv, IInv, Typed, Sound, OneAtATime
<1>2. OneAtATime'
  <2>1. CASE UNCHANGED <<task, fate>>
    BY <1>1, <2>1 DEF Report, OneAtATime
  <2>2. CASE r \in {"done", "failed"} /\ fate' = [fate EXCEPT ![task[w]] = r]
             /\ task' = [task EXCEPT ![w] = None]
    <3>1. /\ \A op \in Op : op # task[w] => fate'[op] = fate[op]
          /\ \A v \in Worker : v # w => task'[v] = task[v]
          /\ task'[w] = None /\ UNCHANGED <<offered, queue>>
      BY <1>1, <2>2 DEF Report, Typed
    <3>2. ASSUME NEW t \in Thread, offered[t] # None
          PROVE  fate'[offered[t]] = "new" /\ \A u \in Thread : offered[u] = offered[t] => u = t
      <4>1. offered[t] \in Op /\ fate[offered[t]] = "new"
        BY <1>1, <3>2 DEF Typed, OneAtATime
      <4> QED BY <1>1, <3>1, <3>2, <4>1 DEF OneAtATime
    <3>3. ASSUME NEW n \in 1..Len(queue)
          PROVE  fate'[queue[n]] = "queued" /\ \A m \in 1..Len(queue) : queue[m] = queue[n] => m = n
      <4>1. queue[n] \in Op /\ queue[n] # task[w] /\ fate[queue[n]] = "queued"
        BY <1>1, ElementOfSeq DEF Typed, OneAtATime
      <4> QED BY <1>1, <3>1, <4>1 DEF OneAtATime
    <3>4. ASSUME NEW v \in Worker, task'[v] # None
          PROVE  /\ fate'[task'[v]] = "queued"
                 /\ \A n \in 1..Len(queue) : queue[n] # task'[v]
                 /\ \A x \in Worker : task'[x] = task'[v] => x = v
      <4>1. v # w /\ task'[v] = task[v] /\ task[v] # task[w] /\ task[v] \in Op
        BY <1>1, <3>1, <3>4 DEF Typed, OneAtATime
      <4>2. fate[task[v]] = "queued" /\ \A n \in 1..Len(queue) : queue[n] # task[v]
        BY <1>1, <3>4, <4>1 DEF OneAtATime
      <4>3. ASSUME NEW x \in Worker, task'[x] = task'[v]
            PROVE  x = v
        BY <1>1, <3>1, <3>4, <4>1, <4>3 DEF OneAtATime
      <4> QED BY <3>1, <4>1, <4>2, <4>3
    <3> QED BY <3>1, <3>2, <3>3, <3>4 DEF OneAtATime
  <2> QED BY <2>1, <2>2 DEF Report
<1>3. ASSUME NEW op \in Op, op # task[w]
      PROVE  fate'[op] = fate[op] /\ (op \in uncommitted' <=> op \in uncommitted)
  <2>1. fate'[op] = fate[op]
    BY <1>1, <1>3 DEF Report, Typed
  <2>2. op \in uncommitted' <=> op \in uncommitted
    BY <1>3 DEF Report
  <2> QED BY <2>1, <2>2
<1>4. task[w] \notin uncommitted /\ fate'[task[w]] = r
  <2>1. task[w] \notin uncommitted
    BY <1>1 DEF Ended
  <2>2. fate'[task[w]] = r
    BY <1>1 DEF Report, Typed
  <2> QED BY <2>1, <2>2
<1>5. Ended'
  <2> SUFFICES ASSUME NEW op \in Op, op \in uncommitted'
               PROVE  fate'[op] = "done"
    BY DEF Ended
  <2>1. CASE op # task[w]
    BY <1>1, <1>3, <2>1 DEF Ended
  <2>2. CASE op = task[w]
    BY <1>4, <2>2 DEF Report
  <2> QED BY <2>1, <2>2
<1>6. ASSUME NEW op \in Op, op \notin torn'
      PROVE  IF fate'[op] = "done" /\ op \notin uncommitted'
             THEN TookEffect(disk', op) ELSE NoEffect(disk', op)
  <2>1. op \notin torn /\ disk' = disk \o e /\ \A n \in 1..Len(e) : e[n][1] = task[w]
    BY <1>6 DEF Report
  <2>2. IF fate[op] = "done" /\ op \notin uncommitted
        THEN TookEffect(disk, op) ELSE NoEffect(disk, op)
    BY <1>1, <2>1 DEF OutcomesAreTrue
  <2>3. CASE op # task[w]
    <3>1. /\ TookEffect(disk, op) => TookEffect(disk', op)
          /\ NoEffect(disk, op) => NoEffect(disk', op)
      BY <1>1, <2>1, <2>3, OthersUnaffected
    <3> QED BY <1>3, <2>2, <2>3, <3>1
  <2>4. CASE op = task[w]
    <3>1. NoEffect(disk, op)
      BY <1>1, <2>2, <2>4
    <3>2. fate'[op] = r
      BY <1>4, <2>4
    <3>3. CASE r = "done" /\ op \notin uncommitted'
      <4>1. e = Writes(op)
        BY <1>6, <2>4, <3>3 DEF Report
      <4>2. disk \in Seq(Op \X Nat)
        BY <1>1 DEF Typed
      <4>3. TookEffect(disk \o Writes(op), op)
        BY <3>1, <4>2, EffectIsTaken
      <4>4. disk' = disk \o Writes(op)
        BY <2>1, <4>1
      <4> QED BY <3>2, <3>3, <4>3, <4>4
    <3>4. CASE ~(r = "done" /\ op \notin uncommitted')
      <4>1. e = <<>>
        BY <1>6, <2>4, <3>4 DEF Report
      <4>2. disk' = disk
        BY <1>1, <2>1, <4>1, ConcatEmptySeq
      <4> QED BY <3>1, <3>2, <3>4, <4>2
    <3> QED BY <3>3, <3>4
  <2> QED BY <2>3, <2>4
<1>7. OutcomesAreTrue'
  BY <1>6 DEF OutcomesAreTrue
<1> QED BY <1>2, <1>5, <1>7 DEF Sound

\* Nothing is added.
LEMMA NothingWritten ==
  ASSUME OInv, UNCHANGED disk
  PROVE  /\ <<>> \in Seq(Op \X Nat) /\ disk' = disk \o <<>> /\ Len(<<>>) = 0
         /\ \A op : \A n \in 1..Len(<<>>) : <<>>[n][1] = op
BY ConcatEmptySeq DEF OInv, IInv, Typed

\* A single statement is written.
LEMMA OneWritten ==
  ASSUME OInv, NEW w \in Worker, task[w] # None, disk' = Append(disk, <<task[w], step[w]>>)
  PROVE  \E e \in Seq(Op \X Nat) :
           /\ disk' = disk \o e
           /\ \A n \in 1..Len(e) : e[n][1] = task[w]
           /\ (task[w] \notin Transactions) => (e = Writes(task[w]))
<1>1. disk \in Seq(Op \X Nat) /\ <<task[w], step[w]>> \in Op \X Nat /\ task[w] \in Op
  BY DEF OInv, IInv, Typed
<1>2. PICK e : e = << <<task[w], step[w]>> >>
  OBVIOUS
<1>3. e \in Seq(Op \X Nat) /\ Len(e) = 1 /\ e[1] = <<task[w], step[w]>>
  BY <1>1, <1>2
<1>4. disk' = disk \o e
  BY <1>1, <1>2, AppendIsConcat
<1>5. ASSUME task[w] \notin Transactions
      PROVE  e = Writes(task[w])
  <2>1. step[w] = 1 /\ Size[task[w]] = 1
    BY <1>1, <1>5 DEF OInv, IInv, AtStep
  <2> QED BY <1>2, <2>1 DEF Writes
<1>6. \A n \in 1..Len(e) : e[n][1] = task[w]
  BY <1>3
<1> QED BY <1>3, <1>4, <1>5, <1>6

\* A failed statement is reported as a failure, or not at all; only of COMMIT it
\* says nothing, and then the connection broke under the transaction, or the
\* server refused.
LEMMA FailureReports ==
  ASSUME OInv, NEW w \in Worker, task[w] # None, Failed(w),
         UNCHANGED <<offered, queue, disk, torn, uncommitted>>,
         task[w] \in torn \/ conn[w] = "gone" \/ Executing(w)
  PROVE  Sound'
<1>1. <<>> \in Seq(Op \X Nat) /\ disk' = disk \o <<>> /\ Len(<<>>) = 0
  BY NothingWritten
<1>2. task[w] \in Op /\ Size[task[w]] \in Nat \ {0}
  BY DEF OInv, IInv, Typed
<1>3. ASSUME NEW r \in {"done", "failed"}, Finish(w, r), task[w] \in torn \/ r # "done"
      PROVE  Sound'
  <2>1. Report(w, <<>>, r)
    BY <1>1, <1>3 DEF Report, Finish
  <2> QED BY <1>1, <2>1, ReportsAreTrue
<1>4. ASSUME NEW n, Advance(w, n)
      PROVE  Sound'
  <2>1. Report(w, <<>>, "queued")
    BY <1>1, <1>4 DEF Report, Advance
  <2> QED BY <1>1, <2>1, ReportsAreTrue
<1>5. CASE Executing(w)
  BY <1>3, <1>4, <1>5 DEF Failed
<1>6. CASE ~Executing(w)
  <2>1. Succeeded(w)
    BY <1>6 DEF Failed
  <2>2. task[w] \in torn \/ (IsTransaction(task[w]) /\ step[w] # Commit(w))
    <3>1. CASE task[w] \in torn
      BY <3>1
    <3>2. CASE task[w] \notin torn /\ task[w] \in Transactions
      <4>1. step[w] \in {0, 1, Size[task[w]] + 2}
        BY <1>6, <3>2 DEF OInv, NeverCommits
      <4> QED BY <1>2, <3>2, <4>1 DEF IsTransaction, Commit
    <3>3. CASE task[w] \notin Transactions
      BY <1>2, <1>6, <3>3 DEF OInv, IInv, AtStep, Executing
    <3> QED BY <3>1, <3>2, <3>3
  <2> QED BY <1>3, <1>4, <2>1, <2>2 DEF Succeeded
<1> QED BY <1>5, <1>6

\* A refused one adds nothing: an operation is torn that is not started as a
\* transaction, and uncommitted if its COMMIT is refused.
LEMMA RefusalReports ==
  ASSUME OInv, NEW w \in Worker, Refuse(w)
  PROVE  Sound'
<1>1. /\ task[w] \in Op /\ task[w] # None /\ step[w] \in Nat /\ Size[task[w]] \in Nat \ {0}
      /\ Failed(w) /\ UNCHANGED <<offered, queue, disk>>
      /\ torn' = IF step[w] = 0 THEN torn \cup {task[w]} ELSE torn
      /\ uncommitted' = IF step[w] = Commit(w) THEN uncommitted \cup {task[w]}
                        ELSE uncommitted
  BY DEF Refuse, OInv, IInv, Typed
<1>2. <<>> \in Seq(Op \X Nat) /\ disk' = disk \o <<>> /\ Len(<<>>) = 0
  BY <1>1, NothingWritten
<1>3. CASE Executing(w)
  <2>1. step[w] # 0 /\ step[w] # Commit(w)
    BY <1>1, <1>3 DEF Executing, Commit
  <2> QED BY <1>1, <1>3, <2>1, FailureReports
<1>4. ASSUME ~Executing(w)
      PROVE  /\ IsTransaction(task[w]) /\ Succeeded(w)
             /\ step[w] \in {0, Commit(w), Rollback(w)}
  <2>1. Succeeded(w)
    BY <1>1, <1>4 DEF Failed
  <2>2. task[w] \in Transactions
    BY <1>1, <1>4 DEF OInv, IInv, AtStep, Executing
  <2>3. step[w] \in 0..(Size[task[w]] + 2) /\ step[w] \notin 1..Size[task[w]]
    BY <1>1, <1>4, <2>2 DEF OInv, IInv, AtStep, Executing
  <2>4. step[w] \in {0, Size[task[w]] + 1, Size[task[w]] + 2}
    BY <1>1, <2>3
  <2> QED BY <2>1, <2>2, <2>4 DEF IsTransaction, Commit, Rollback
<1>5. CASE ~Executing(w) /\ step[w] = 0
  <2>1. step[w] # Commit(w) /\ step[w] # Rollback(w)
    BY <1>1, <1>5 DEF Commit, Rollback
  <2>2. Advance(w, step[w] + 1)
    BY <1>4, <1>5, <2>1 DEF Succeeded
  <2>3. Report(w, <<>>, "queued")
    BY <1>1, <1>2, <1>5, <2>1, <2>2 DEF Report, Advance
  <2> QED BY <1>1, <1>2, <2>3, ReportsAreTrue
<1>6. CASE ~Executing(w) /\ step[w] = Commit(w)
  <2>1. step[w] # 0
    BY <1>1, <1>6 DEF Commit
  <2>2. Finish(w, "done")
    BY <1>4, <1>6 DEF Succeeded
  <2>3. Report(w, <<>>, "done")
    BY <1>1, <1>2, <1>6, <2>1, <2>2 DEF Report, Finish
  <2> QED BY <1>1, <1>2, <2>3, ReportsAreTrue
<1>7. CASE ~Executing(w) /\ step[w] = Rollback(w)
  <2>1. step[w] # 0 /\ step[w] # Commit(w)
    BY <1>1, <1>7 DEF Commit, Rollback
  <2>2. Finish(w, "failed")
    BY <1>4, <1>7, <2>1 DEF Succeeded
  <2>3. Report(w, <<>>, "failed")
    BY <1>1, <1>2, <2>1, <2>2 DEF Report, Finish
  <2> QED BY <1>1, <1>2, <2>3, ReportsAreTrue
<1> QED BY <1>3, <1>4, <1>5, <1>6, <1>7

\* A successful one adds what it does to the disk, all of it with the last.
LEMMA SuccessReports ==
  ASSUME OInv, NEW w \in Worker, Succeed(w)
  PROVE  Sound'
<1>1. /\ task[w] \in Op /\ task[w] # None /\ conn[w] = "up" /\ step[w] \in Nat
      /\ Size[task[w]] \in Nat \ {0} /\ Statement(w) /\ Succeeded(w)
      /\ UNCHANGED <<offered, queue, torn, uncommitted>>
  BY DEF Succeed, OInv, IInv, Typed, history
<1>2. /\ undo[w] \in Seq(Op \X Nat) /\ disk \in Seq(Op \X Nat)
      /\ task[w] \notin uncommitted'
  <2>1. task[w] \notin uncommitted
    BY <1>1 DEF OInv, Sound, OneAtATime, Ended
  <2> QED BY <1>1, <2>1 DEF OInv, IInv, Typed
<1>3. ASSUME UNCHANGED disk, (\E n \in Nat : Advance(w, n)) \/ Finish(w, "failed")
      PROVE  Sound'
  <2>1. <<>> \in Seq(Op \X Nat) /\ disk' = disk \o <<>> /\ Len(<<>>) = 0
    BY <1>3, NothingWritten
  <2>2. PICK r : \/ r = "queued" /\ \E n \in Nat : Advance(w, n)
                 \/ r = "failed" /\ Finish(w, "failed")
    BY <1>3
  <2>3. Report(w, <<>>, r)
    BY <1>1, <2>1, <2>2 DEF Report, Advance, Finish
  <2> QED BY <1>1, <2>1, <2>3, ReportsAreTrue
<1>4. CASE Executing(w) /\ ~inTrans[w]
  <2>1. disk' = Append(disk, <<task[w], step[w]>>)
    BY <1>1, <1>4 DEF Statement, Executing
  <2>2. PICK e \in Seq(Op \X Nat) :
           /\ disk' = disk \o e
           /\ \A n \in 1..Len(e) : e[n][1] = task[w]
           /\ (task[w] \notin Transactions) => (e = Writes(task[w]))
    BY <1>1, <2>1, OneWritten
  <2>3. CASE task[w] \in Transactions
    <3>1. task[w] \in torn
      BY <1>1, <1>4, <2>3 DEF Executing, OInv, IInv, Holds
    <3>2. Advance(w, step[w] + 1)
      BY <1>1, <1>4, <2>3 DEF Succeeded, Executing, IsTransaction, Commit, Rollback
    <3>3. Report(w, e, "queued")
      BY <1>1, <2>2, <3>1, <3>2 DEF Report, Advance
    <3> QED BY <1>1, <3>3, ReportsAreTrue
  <2>4. CASE task[w] \notin Transactions
    <3>1. Finish(w, "done")
      BY <1>1, <2>4 DEF Succeeded, IsTransaction
    <3>2. Report(w, e, "done")
      BY <1>1, <1>2, <2>2, <2>4, <3>1 DEF Report, Finish
    <3> QED BY <1>1, <3>2, ReportsAreTrue
  <2> QED BY <2>3, <2>4
<1>5. CASE task[w] \in Transactions /\ step[w] = Commit(w)
  <2>1. step[w] = Size[task[w]] + 1 /\ step[w] # 0 /\ ~Executing(w)
    BY <1>1, <1>5 DEF Commit, Executing
  <2>2. disk' = disk \o undo[w] /\ Finish(w, "done")
    BY <1>1, <1>5, <2>1 DEF Statement, Succeeded
  <2>3. (task[w] \notin torn) => inTrans[w]
    BY <1>1, <1>5, <2>1 DEF OInv, IInv, Holds
  <2>4. inTrans[w] => (undo[w] = Writes(task[w]))
    <3>1. step[w] - 1 = Size[task[w]]
      BY <1>1, <2>1
    <3> QED BY <1>1, <2>1, <3>1, WritesIsPrefix DEF OInv, IInv, Holds
  <2>5. \A n \in 1..Len(undo[w]) : undo[w][n][1] = task[w]
    <3>1. CASE inTrans[w]
      <4>0. undo[w] = Prefix(task[w], Size[task[w]])
        BY <1>1, <2>4, <3>1, WritesIsPrefix
      <4>1. Len(undo[w]) = Size[task[w]]
        BY <1>1, <4>0, Prefixes
      <4>2. \A n \in 1..Size[task[w]] : undo[w][n] = <<task[w], n>>
        BY <4>0 DEF Prefix
      <4> QED BY <4>1, <4>2
    <3>2. CASE ~inTrans[w]
      BY <3>2 DEF OInv, IInv, Holds
    <3> QED BY <3>1, <3>2
  <2>6. Report(w, undo[w], "done")
    BY <1>1, <1>2, <2>2, <2>3, <2>4, <2>5 DEF Report, Finish
  <2> QED BY <1>1, <1>2, <2>6, ReportsAreTrue
<1>6. CASE Executing(w) /\ inTrans[w]
  <2>1. UNCHANGED disk /\ task[w] \in Transactions
    BY <1>1, <1>6 DEF Statement, Executing, OInv, IInv, Holds
  <2>2. Advance(w, step[w] + 1)
    BY <1>1, <1>6, <2>1 DEF Succeeded, Executing, IsTransaction, Commit, Rollback
  <2> QED BY <1>1, <1>3, <2>1, <2>2
<1>7. CASE ~Executing(w) /\ ~(task[w] \in Transactions /\ step[w] = Commit(w))
  <2>1. task[w] \in Transactions
    BY <1>1, <1>7 DEF OInv, IInv, AtStep, Executing
  <2>2. UNCHANGED disk
    BY <1>1, <1>7, <2>1 DEF Statement
  <2>3. Finish(w, "failed") \/ Advance(w, step[w] + 1)
    BY <1>1, <1>7, <2>1 DEF Succeeded, IsTransaction
  <2> QED BY <1>1, <1>3, <2>2, <2>3
<1> QED BY <1>4, <1>5, <1>6, <1>7

\* A connection breaks: whatever took effect, its operation is torn.
LEMMA LossReports ==
  ASSUME OInv, NEW w \in Worker, Lose(w)
  PROVE  Sound'
<1>1. /\ task[w] \in Op /\ task[w] # None /\ Size[task[w]] \in Nat \ {0} /\ step[w] \in Nat
      /\ UNCHANGED <<offered, queue, task, fate, uncommitted>>
      /\ torn \subseteq torn' /\ task[w] \in torn'
  BY DEF Lose, OInv, IInv, Typed
<1>2. PICK e \in Seq(Op \X Nat) :
        disk' = disk \o e /\ \A n \in 1..Len(e) : e[n][1] = task[w]
  <2>1. CASE disk' = disk
    BY <2>1, NothingWritten
  <2>2. CASE disk' = Append(disk, <<task[w], step[w]>>)
    BY <1>1, <2>2, OneWritten
  <2>3. CASE step[w] = Commit(w) /\ disk' = disk \o undo[w]
    <3>0. step[w] = Size[task[w]] + 1 /\ undo[w] \in Seq(Op \X Nat)
      BY <2>3 DEF Commit, OInv, IInv, Typed
    <3>1. step[w] - 1 = Size[task[w]] /\ step[w] <= Size[task[w]] + 1
      BY <1>1, <3>0
    <3>2. CASE inTrans[w]
      <4>1. undo[w] = Prefix(task[w], Size[task[w]])
        BY <3>1, <3>2 DEF OInv, IInv, Holds
      <4>2. Len(undo[w]) = Size[task[w]]
        BY <1>1, <4>1, Prefixes
      <4>3. \A n \in 1..Size[task[w]] : undo[w][n] = <<task[w], n>>
        BY <4>1 DEF Prefix
      <4>4. \A n \in 1..Len(undo[w]) : undo[w][n][1] = task[w]
        BY <4>2, <4>3
      <4> QED BY <2>3, <3>0, <4>4
    <3>3. CASE ~inTrans[w]
      <4>1. undo[w] = <<>>
        BY <3>3 DEF OInv, IInv, Holds
      <4>2. \A n \in 1..Len(undo[w]) : undo[w][n][1] = task[w]
        BY <4>1
      <4> QED BY <2>3, <3>0, <4>2
    <3> QED BY <3>2, <3>3
  <2> QED BY <2>1, <2>2, <2>3 DEF Lose
<1>3. Report(w, e, "queued")
  BY <1>1, <1>2 DEF Report
<1> QED BY <1>1, <1>3, ReportsAreTrue

\* Where no operation is done, what is said of those that are stays true.
LEMMA SameOutcomes ==
  ASSUME OutcomesAreTrue, Ended, UNCHANGED <<disk, torn, uncommitted>>,
         \A p \in Op : fate'[p] = "done" <=> fate[p] = "done"
  PROVE  OutcomesAreTrue' /\ Ended'
<1>1. Ended'
  BY DEF Ended
<1>2. ASSUME NEW p \in Op, p \notin torn'
      PROVE  IF fate'[p] = "done" /\ p \notin uncommitted'
             THEN TookEffect(disk', p) ELSE NoEffect(disk', p)
  <2>1. p \notin torn
    BY <1>2
  <2>2. IF fate[p] = "done" /\ p \notin uncommitted
        THEN TookEffect(disk, p) ELSE NoEffect(disk, p)
    BY <2>1 DEF OutcomesAreTrue
  <2> QED BY <2>2
<1>3. OutcomesAreTrue'
  BY <1>2 DEF OutcomesAreTrue
<1> QED BY <1>1, <1>3

\* Operations come in and are taken; none is executed.
LEMMA EnqueueReports ==
  ASSUME OInv, NEW t \in Thread, Enqueue(t)
  PROVE  Sound'
<1> DEFINE op == offered[t]
           k == Len(queue)
<1>1. /\ Typed /\ OneAtATime /\ OutcomesAreTrue /\ Ended /\ op \in Op /\ queue \in Seq(Op)
      /\ fate[op] = "new" /\ fate' = [fate EXCEPT ![op] = "queued"]
      /\ offered' = [offered EXCEPT ![t] = None] /\ queue' = Append(queue, op)
      /\ UNCHANGED <<task, disk, torn, uncommitted>>
  BY DEF Enqueue, OInv, IInv, Typed, Sound, OneAtATime, history
<1>2. /\ k \in Nat /\ Len(queue') = k + 1 /\ queue'[k + 1] = op
      /\ \A n \in 1..k : queue'[n] = queue[n] /\ queue[n] \in Op /\ queue[n] # op
  <2>1. k \in Nat /\ Len(queue') = k + 1 /\ queue'[k + 1] = op /\ \A n \in 1..k : queue'[n] = queue[n]
    BY <1>1, AppendProperties, LenProperties
  <2>2. \A n \in 1..k : queue[n] \in Op /\ queue[n] # op
    BY <1>1, ElementOfSeq DEF OneAtATime
  <2> QED BY <2>1, <2>2
<1> HIDE DEF op, k
<1>3. ASSUME NEW u \in Thread, offered'[u] # None
      PROVE  /\ fate'[offered'[u]] = "new"
             /\ \A v \in Thread : offered'[v] = offered'[u] => v = u
  <2>1. /\ u # t /\ offered'[u] = offered[u] /\ offered[u] # op /\ offered[u] \in Op
        /\ fate[offered[u]] = "new"
    BY <1>1, <1>3 DEF Typed, OneAtATime, op
  <2>2. ASSUME NEW v \in Thread, offered'[v] = offered'[u]
        PROVE  v = u
    BY <1>1, <1>3, <2>1, <2>2 DEF Typed, OneAtATime
  <2> QED BY <1>1, <2>1, <2>2 DEF Typed
<1>4. ASSUME NEW n \in 1..Len(queue')
      PROVE  fate'[queue'[n]] = "queued" /\ \A m \in 1..Len(queue') : queue'[m] = queue'[n] => m = n
  <2>1. CASE n = k + 1
    <3>1. fate'[queue'[n]] = "queued"
      BY <1>1, <1>2, <2>1 DEF Typed
    <3>2. \A m \in 1..Len(queue') : m # k + 1 => queue'[m] # op
      BY <1>2
    <3> QED BY <1>2, <2>1, <3>1, <3>2
  <2>2. CASE n \in 1..k
    <3>1. queue'[n] = queue[n] /\ queue[n] \in Op /\ queue[n] # op /\ fate[queue[n]] = "queued"
      BY <1>1, <1>2, <2>2 DEF OneAtATime, k
    <3>2. fate'[queue'[n]] = "queued"
      BY <1>1, <3>1 DEF Typed
    <3>3. ASSUME NEW m \in 1..Len(queue'), queue'[m] = queue'[n]
          PROVE  m = n
      <4>1. m \in 1..k /\ queue'[m] = queue[m]
        BY <1>2, <3>1, <3>3
      <4> QED BY <1>1, <2>2, <3>1, <3>3, <4>1 DEF OneAtATime, k
    <3> QED BY <3>2, <3>3
  <2> QED BY <1>2, <2>1, <2>2
<1>5. ASSUME NEW w \in Worker, task'[w] # None
      PROVE  /\ fate'[task'[w]] = "queued"
             /\ \A n \in 1..Len(queue') : queue'[n] # task'[w]
             /\ \A v \in Worker : task'[v] = task'[w] => v = w
  <2>1. /\ task'[w] = task[w] /\ task[w] \in Op /\ fate[task[w]] = "queued" /\ task[w] # op
        /\ \A n \in 1..k : queue[n] # task[w]
        /\ \A v \in Worker : task'[v] = task'[w] => v = w
    BY <1>1, <1>5 DEF Typed, OneAtATime, k
  <2>2. fate'[task'[w]] = "queued"
    BY <1>1, <2>1 DEF Typed
  <2>3. \A n \in 1..Len(queue') : queue'[n] # task'[w]
    BY <1>2, <2>1
  <2> QED BY <2>1, <2>2, <2>3
<1>6. \A p \in Op : fate'[p] = "done" <=> fate[p] = "done"
  BY <1>1 DEF Typed
<1>7. OutcomesAreTrue' /\ Ended'
  BY <1>1, <1>6, SameOutcomes
<1>8. OneAtATime'
  BY <1>3, <1>4, <1>5 DEF OneAtATime
<1> QED BY <1>7, <1>8 DEF Sound

LEMMA DequeueReports ==
  ASSUME OInv, NEW w \in Worker, Dequeue(w)
  PROVE  Sound'
<1> DEFINE op == Head(queue)
           k == Len(queue)
<1>1. /\ Typed /\ OneAtATime /\ OutcomesAreTrue /\ Ended /\ queue \in Seq(Op) /\ queue # <<>>
      /\ task[w] = None /\ task' = [task EXCEPT ![w] = op] /\ queue' = Tail(queue)
      /\ UNCHANGED <<offered, disk, torn, uncommitted, fate>>
  BY DEF Dequeue, OInv, IInv, Typed, Sound, history
<1>2. /\ k \in Nat \ {0} /\ Len(queue') = k - 1 /\ op = queue[1] /\ op \in Op
      /\ \A n \in 1..(k - 1) : queue'[n] = queue[n + 1]
  <2>1. /\ Tail(queue) \in Seq(Op) /\ Len(Tail(queue)) = k - 1 /\ op \in Op
        /\ \A n \in 1..Len(Tail(queue)) : Tail(queue)[n] = queue[n + 1]
    BY <1>1, HeadTailProperties
  <2>2. k \in Nat \ {0}
    BY <1>1, LenProperties, EmptySeq
  <2> QED BY <1>1, <2>1, <2>2
<1> HIDE DEF op, k
<1>3. /\ \A n \in 1..k : fate[queue[n]] = "queued" /\ \A m \in 1..k : queue[m] = queue[n] => m = n
      /\ fate[op] = "queued"
  <2>1. \A n \in 1..k : fate[queue[n]] = "queued" /\ \A m \in 1..k : queue[m] = queue[n] => m = n
    BY <1>1 DEF OneAtATime, k
  <2> QED BY <1>2, <2>1
<1>4. ASSUME NEW n \in 1..Len(queue')
      PROVE  /\ n + 1 \in 1..k /\ queue'[n] = queue[n + 1] /\ queue'[n] # op
             /\ fate'[queue'[n]] = "queued"
             /\ \A m \in 1..Len(queue') : queue'[m] = queue'[n] => m = n
  <2>1. n + 1 \in 1..k /\ queue'[n] = queue[n + 1] /\ n + 1 # 1 /\ 1 \in 1..k
    BY <1>2
  <2>2. queue'[n] # op /\ fate'[queue'[n]] = "queued"
    BY <1>1, <1>2, <1>3, <2>1
  <2>3. ASSUME NEW m \in 1..Len(queue'), queue'[m] = queue'[n]
        PROVE  m = n
    <3>1. m + 1 \in 1..k /\ queue'[m] = queue[m + 1]
      BY <1>2
    <3>2. m + 1 = n + 1
      BY <1>3, <2>1, <2>3, <3>1
    <3> QED BY <1>2, <3>2
  <2> QED BY <2>1, <2>2, <2>3
<1>5. ASSUME NEW v \in Worker, task'[v] # None
      PROVE  /\ fate'[task'[v]] = "queued"
             /\ \A n \in 1..Len(queue') : queue'[n] # task'[v]
             /\ \A x \in Worker : task'[x] = task'[v] => x = v
  <2>0. \A x \in Worker : task[x] # None => \A n \in 1..k : queue[n] # task[x]
    BY <1>1 DEF OneAtATime, k
  <2>1. ASSUME NEW x \in Worker, x # w
        PROVE  task'[x] = task[x] /\ task[x] # op
    <3>1. task'[x] = task[x]
      BY <1>1, <2>1 DEF Typed
    <3>2. 1 \in 1..k /\ op # None
      BY <1>2
    <3> QED BY <1>2, <2>0, <3>1, <3>2
  <2>2. task'[w] = op
    BY <1>1 DEF Typed
  <2>3. CASE v = w
    <3>1. fate'[task'[v]] = "queued" /\ \A n \in 1..Len(queue') : queue'[n] # task'[v]
      BY <1>1, <1>3, <1>4, <2>2, <2>3
    <3> QED BY <2>1, <2>2, <2>3, <3>1
  <2>4. CASE v # w
    <3>1. /\ fate[task[v]] = "queued" /\ \A n \in 1..k : queue[n] # task[v]
          /\ \A x \in Worker : task[x] = task[v] => x = v
      BY <1>1, <1>5, <2>1, <2>4 DEF OneAtATime, k
    <3> QED BY <1>1, <1>4, <2>1, <2>2, <2>4, <3>1
  <2> QED BY <2>3, <2>4
<1>6. \A t \in Thread : offered'[t] # None =>
         fate'[offered'[t]] = "new" /\ \A u \in Thread : offered'[u] = offered'[t] => u = t
  BY <1>1 DEF OneAtATime
<1>7. OutcomesAreTrue' /\ Ended'
  BY <1>1, SameOutcomes
<1>8. OneAtATime'
  BY <1>4, <1>5, <1>6 DEF OneAtATime
<1> QED BY <1>7, <1>8 DEF Sound

\* A thread offers what was not queued; Close and a crash drop what is queued.
LEMMA OtherReports ==
  ASSUME OInv, \/ \E t \in Thread, op \in Op : Offer(t, op)
               \/ Close \/ Crash
  PROVE  Sound'
<1>1. Typed /\ OneAtATime /\ OutcomesAreTrue /\ Ended
  BY DEF OInv, IInv, Sound
<1>2. UNCHANGED <<disk, torn, uncommitted>>
  BY DEF Offer, Close, Crash, history
<1>3. ASSUME \A p \in Op : fate'[p] = "done" <=> fate[p] = "done"
      PROVE  OutcomesAreTrue' /\ Ended'
  BY <1>1, <1>2, <1>3, SameOutcomes
<1>4. ASSUME NEW t \in Thread, NEW op \in Op, Offer(t, op)
      PROVE  Sound'
  <2>1. /\ offered' = [offered EXCEPT ![t] = op] /\ fate[op] = "new"
        /\ \A u \in Thread : offered[u] # op
        /\ UNCHANGED <<queue, task, fate>>
    BY <1>4 DEF Offer, history
  <2>2. ASSUME NEW u \in Thread, offered'[u] # None
        PROVE  /\ fate'[offered'[u]] = "new"
               /\ \A v \in Thread : offered'[v] = offered'[u] => v = u
    BY <1>1, <2>1, <2>2 DEF Typed, OneAtATime
  <2>3. OneAtATime'
    BY <1>1, <2>1, <2>2 DEF OneAtATime
  <2> QED BY <1>3, <2>1, <2>3 DEF Sound
<1>5. CASE Close
  <2>1. \A n \in 1..Len(queue) : fate[queue[n]] = "queued"
    BY <1>1 DEF OneAtATime
  <2>2. \A p \in Op : fate'[p] = "done" <=> fate[p] = "done"
    BY <1>1, <1>5, <2>1 DEF Close, Typed, history
  <2>3. Len(queue') = 0 /\ UNCHANGED <<offered, task>> /\ \A t \in Thread : offered[t] = None
    BY <1>5 DEF Close, history
  <2>4. ASSUME NEW w \in Worker, task[w] # None
        PROVE  fate'[task[w]] = "queued" /\ \A v \in Worker : task[v] = task[w] => v = w
    BY <1>1, <1>5, <2>4 DEF Close, Typed, OneAtATime, history
  <2>5. OneAtATime'
    BY <2>3, <2>4 DEF OneAtATime
  <2> QED BY <1>3, <2>2, <2>5 DEF Sound
<1>6. CASE Crash
  <2>1. \A p \in Op : fate'[p] = "done" <=> fate[p] = "done"
    BY <1>1, <1>6 DEF Crash, Typed, history
  <2>2. OneAtATime'
    BY <1>6 DEF Crash, OneAtATime, history
  <2> QED BY <1>3, <2>1, <2>2 DEF Sound
<1> QED BY <1>4, <1>5, <1>6

\* A transaction never comes to COMMIT without a connection.
LEMMA NeverCommitsStep ==
  ASSUME OInv, [Next]_vars, NEW w \in Worker
  PROVE  NeverCommits(w)'
<1>1. Typed /\ NeverCommits(w) /\ AtStep(w) /\ Holds(w)
  BY DEF OInv, IInv
<1>2. ASSUME task'[w] = task[w], step'[w] = step[w], conn'[w] = conn[w], torn \subseteq torn'
      PROVE  NeverCommits(w)'
  BY <1>1, <1>2 DEF NeverCommits
<1>3. ASSUME NEW v \in Worker, v # w, Works(v)
      PROVE  NeverCommits(w)'
  <2>1. ASSUME Succeeded(v) \/ Failed(v)
        PROVE  task'[w] = task[w] /\ step'[w] = step[w]
    BY <1>1, <1>3, <2>1 DEF Succeeded, Failed, Finish, Advance, Typed
  <2>2. /\ task'[w] = task[w] /\ step'[w] = step[w] /\ conn'[w] = conn[w] /\ torn \subseteq torn'
    BY <1>1, <1>3, <2>1 DEF Works, Dequeue, Succeed, Refuse, Lose, Reconnect, FailAtOnce, Quit,
                            connection, Typed, history
  <2> QED BY <1>2, <2>2
<1>4. CASE Dequeue(w)
  BY <1>1, <1>4 DEF Dequeue, NeverCommits, Typed, IsTransaction, history
<1>5. CASE Succeed(w) \/ Refuse(w) \/ Lose(w)
  BY <1>1, <1>5 DEF Succeed, Refuse, Lose, NeverCommits, Typed, history
<1>6. CASE Reconnect(w)
  <2>1. task[w] \in torn /\ torn' = torn
    BY <1>1, <1>6 DEF Reconnect, AtStep, Holds, history
  <2>2. task'[w] \in {task[w], None}
    BY <1>1, <1>6 DEF Reconnect, Failed, Succeeded, Finish, Advance, Typed, history
  <2> QED BY <2>1, <2>2 DEF NeverCommits
<1>7. CASE FailAtOnce(w)
  <2>1. /\ task[w] # None /\ w \notin stopped /\ Failed(w) /\ UNCHANGED <<stopped, conn, torn>>
        /\ conn[w] = "gone"
    BY <1>1, <1>7 DEF FailAtOnce, AtStep, connection, history
  <2>2. \/ task'[w] = None
        \/ task'[w] = task[w] /\ step'[w] \in {1, Size[task[w]] + 2}
    BY <2>1, FailureMoves DEF OInv
  <2> QED BY <2>1, <2>2 DEF NeverCommits
<1>8. CASE Crash
  BY <1>8 DEF Crash, NeverCommits, history
<1>9. CASE UNCHANGED <<task, step, conn, torn>>
  BY <1>2, <1>9
<1> QED
  BY <1>3, <1>4, <1>5, <1>6, <1>7, <1>8, <1>9
     DEF Next, Works, Quit, Offer, Enqueue, Close, vars, connection, history

LEMMA SoundStep ==
  ASSUME OInv, [Next]_vars
  PROVE  Sound'
<1>1. ASSUME UNCHANGED <<offered, queue, task, disk, fate, torn, uncommitted>>
      PROVE  Sound'
  <2>1. OneAtATime'
    BY <1>1 DEF OInv, Sound, OneAtATime
  <2>2. OutcomesAreTrue' /\ Ended'
    BY <1>1, SameOutcomes DEF OInv, Sound
  <2> QED BY <2>1, <2>2 DEF Sound
<1>2. ASSUME NEW w \in Worker, Refuse(w)
      PROVE  Sound'
  BY <1>2, RefusalReports
<1>3. ASSUME NEW w \in Worker, Reconnect(w)
      PROVE  Sound'
  <2>1. task[w] \in torn
    BY <1>3 DEF Reconnect, OInv, IInv, AtStep, Holds, history
  <2> QED BY <1>1, <1>3, <2>1, FailureReports DEF Reconnect, history
<1>4. ASSUME NEW w \in Worker, FailAtOnce(w)
      PROVE  Sound'
  BY <1>4, FailureReports DEF FailAtOnce, history
<1>5. ASSUME NEW w \in Worker, Works(w)
      PROVE  Sound'
  BY <1>1, <1>2, <1>3, <1>4, <1>5, DequeueReports, SuccessReports, LossReports DEF Works, Quit, history
<1>6. CASE UNCHANGED vars
  BY <1>1, <1>6 DEF vars, history
<1> QED BY <1>5, <1>6, EnqueueReports, OtherReports DEF Next

\* What Execute returned is true, with any number of workers: an operation that
\* was done took effect whole and once, one that failed or was dropped did not,
\* unless the connection broke under it or the server would not start it; but
\* one whose COMMIT the server refused is done and took no effect.
THEOREM OutcomesHold == Spec => []OutcomesAreTrue
<1>1. Init => Sound /\ \A w \in Worker : NeverCommits(w)
  BY DEF Init, Sound, OneAtATime, OutcomesAreTrue, Ended, NoEffect, NeverCommits
<1>2. OInv /\ IInv' /\ [Next]_vars => OInv'
  BY SoundStep, NeverCommitsStep DEF OInv
<1>3. OInv => OutcomesAreTrue
  BY DEF OInv, Sound
<1> QED BY <1>1, <1>2, <1>3, Initial, InvariantHolds, PTL DEF Spec, OInv
=============================================================================
