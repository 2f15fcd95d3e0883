------------------------------ MODULE MCTgBus ------------------------------
(***************************************************************************)
(* TgBus on a small instance: two writers, two readers and a ring of two   *)
(* slots, which four messages fill, overflow and wrap. The payload of a    *)
(* slot holds 8 bytes: a message of one byte fits with its header and its  *)
(* newline, a message of three bytes does not.                             *)
(***************************************************************************)
EXTENDS TgBus, TLC

CONSTANTS w1, w2, r1, r2, m1, m2, m3, m4, none

MCWriters == {w1, w2}
MCReaders == {r1, r2}
MCMessages == {m1, m2, m3, m4}
MCTwoMessages == {m1, m3}
MCMsgLen == [m \in Messages |-> IF m = m3 THEN 3 ELSE 1]

Symmetry == Permutations(Writers) \cup Permutations(Readers) \cup Permutations({m1, m2, m4})
=============================================================================
