------------------------------ MODULE MCBuddy ------------------------------
(***************************************************************************)
(* Buddy on the smallest pools that buddy_init accepts.                    *)
(***************************************************************************)
EXTENDS Buddy, TLC

CONSTANTS h1, h2, h3, h4, null

MCHandles == {h1, h2, h3, h4}
Symmetry == Permutations(Handles)
=============================================================================
