------------------------------ MODULE MCTgChat ------------------------------
(***************************************************************************)
(* TgChat on a small instance: two writers, a reader and a buffer of six   *)
(* bytes and a NUL. The lines of m1 and m2 have three bytes and fill it,   *)
(* that of m5 has four and is cut, or leaves no room for another one. The  *)
(* messages m3, written by a user, and m4, injected from Telegram, have    *)
(* the lengths that the two size checks refuse.                            *)
(***************************************************************************)
EXTENDS TgChat, TLC

CONSTANTS w1, w2, r1, m1, m2, m3, m4, m5, id1, none

MCWriters == {w1, w2}
MCReaders == {r1}
MCLocal == {m1, m3, m5}
MCRemote == {m2, m4}
MCTextLen == [m \in Messages |-> CASE m = m5 -> 2 [] m = m3 -> 7
                                   [] m = m4 -> 4 [] OTHER -> 1]
=============================================================================
