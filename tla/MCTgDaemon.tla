----------------------------- MODULE MCTgDaemon -----------------------------
(***************************************************************************)
(* TgDaemon on small instances: three messages of users, one of them for a *)
(* chat that is not mapped, over a bus of two lines; two texts, an update  *)
(* to ignore and a text that is too long, in the last or the first place;  *)
(* one kill of the daemon. The chat's buffer holds six bytes beside the    *)
(* NUL, an update's line has two and a user's one: it fills up, with a     *)
(* line cut on the way.                                                    *)
(***************************************************************************)
EXTENDS TgDaemon, TLC

CONSTANTS a, b, c, none

MCUserMsgs == {a, b, c}
MCMapped == {a, b}
MCOneMsg == {a}
MCAllKinds == <<"text", "other", "text", "long">>
MCUserLen == [m \in UserMsgs |-> 1]
MCUpdateLen == [u \in Updates |-> 2]
MCLongFirst == <<"long", "text">>
=============================================================================
