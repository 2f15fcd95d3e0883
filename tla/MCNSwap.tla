------------------------------ MODULE MCNSwap ------------------------------
(***************************************************************************)
(* Two CPUs and a disk of two sectors: a write of two segments, a read of  *)
(* the last sector, and a read that the block layer must refuse.           *)
(***************************************************************************)
EXTENDS NSwap

CONSTANTS c1, c2, x, y

MCCPUs == {c1, c2}

MCByte == {x, y, Zero}

Rq(write, pos, segments) == [write |-> write, pos |-> pos, segments |-> segments]

MCRequests ==
  {Rq(TRUE, 0, <<<<x>>, <<y>>>>), Rq(FALSE, 1, <<<<Zero>>>>), Rq(FALSE, 1, <<<<Zero>>, <<Zero>>>>)}
=============================================================================
