------------------------------ MODULE WriteLog ------------------------------
(***************************************************************************)
(* What the asynchronous half of a database pool promises to those who     *)
(* queue operations: they take effect in the order in which they were      *)
(* queued, each with all its statements or with none, and what has not     *)
(* taken effect when the pool goes down never does.  The one exception is  *)
(* an operation that the server has not started as a transaction or during *)
(* which the connection breaks: of that any of the statements may take     *)
(* effect, some twice, but none after one of a later operation.            *)
(***************************************************************************)
EXTENDS Naturals, Sequences

CONSTANTS Op,
          Size       \* the number of statements of an operation

VARIABLES written,   \* the statements <<op, n>> that took effect, in order
          pending,   \* the operations still to take effect, in order
          broken     \* those that are not kept together

Writes(op) == [n \in 1..Size[op] |-> <<op, n>>]

Init == written = <<>> /\ pending = <<>> /\ broken = {}

Enqueue ==
  /\ \E op \in Op : pending' = Append(pending, op)
  /\ UNCHANGED <<written, broken>>

Flush ==
  /\ pending # <<>>
  /\ written' = written \o Writes(Head(pending))
  /\ pending' = Tail(pending)
  /\ UNCHANGED broken

\* The operation fails, or its COMMIT does, which is not noticed.
Skip ==
  /\ pending # <<>>
  /\ pending' = Tail(pending)
  /\ UNCHANGED <<written, broken>>

\* The connection breaks during the first operation, which may take effect, or
\* its transaction is not started.
Break ==
  /\ pending # <<>>
  /\ broken' = broken \cup {Head(pending)}
  /\ written' \in {written, written \o Writes(Head(pending))}
  /\ UNCHANGED pending

\* One statement of such an operation takes effect.
Tear ==
  /\ pending # <<>> /\ Head(pending) \in broken
  /\ \E n \in 1..Size[Head(pending)] : written' = Append(written, <<Head(pending), n>>)
  /\ UNCHANGED <<pending, broken>>

\* The pool goes down; the first operation may still be under way.
Drop ==
  /\ pending # <<>>
  /\ pending' \in {<<>>, <<Head(pending)>>}
  /\ UNCHANGED <<written, broken>>

Next == Enqueue \/ Flush \/ Skip \/ Break \/ Tear \/ Drop

Spec == Init /\ [][Next]_<<written, pending, broken>>
=============================================================================
