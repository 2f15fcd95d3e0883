----------------------------- MODULE MCTgModule -----------------------------
(***************************************************************************)
(* Two chats and two users: the first chat is in use while the second and  *)
(* the bus are still being set up.                                         *)
(***************************************************************************)
EXTENDS TgModule, TLC

CONSTANTS u1, u2, bus, null, orphan

MCUsers == {u1, u2}
Symmetry == Permutations(MCUsers)
=============================================================================
