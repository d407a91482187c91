--------------------------- MODULE SessionQueueMC ---------------------------
(* Finite instances of SessionQueue for TLC. *)
EXTENDS SessionQueue

CONSTANTS a1, a2, a3, gm

MCAccount    == {a1, a2, a3, gm}
MCPrivileged == {gm}
MCSymmetry   == {p @@ q : p \in Permutations(Session), q \in Permutations({a1, a2, a3})}
=============================================================================
