--------------------------- MODULE DatabasePoolMC ---------------------------
(***************************************************************************)
(* Two threads, one worker, two transactions and a single statement.       *)
(***************************************************************************)
EXTENDS DatabasePool, TLC

CONSTANTS save, sale, log

MCSize == (save :> 2) @@ (sale :> 2) @@ (log :> 1)
=============================================================================
