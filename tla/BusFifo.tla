------------------------------ MODULE BusFifo ------------------------------
(***************************************************************************)
(* What /dev/telegram/bus promises to its users, without locks, ring       *)
(* indices or wait queues: a bounded first-in first-out channel of lines.  *)
(* A message offered while the channel is full is dropped, every other     *)
(* message is handed to exactly one reader, in the order of acceptance.    *)
(* TgBus implements this specification.                                    *)
(***************************************************************************)
EXTENDS Integers, Sequences

CONSTANTS
  Offers,      \* the messages a chat can offer to the bus
  Line(_),     \* the line the bus carries for a message
  Capacity     \* the number of lines the channel holds

VARIABLES
  fifo,        \* lines accepted and not yet read
  delivered,   \* lines handed to a reader, in that order
  dropped      \* messages refused because the channel was full

fifoVars == <<fifo, delivered, dropped>>

Init ==
  /\ fifo = <<>>
  /\ delivered = <<>>
  /\ dropped = {}

Put(m) ==
  /\ Len(fifo) < Capacity
  /\ fifo' = Append(fifo, Line(m))
  /\ UNCHANGED <<delivered, dropped>>

Drop(m) ==
  /\ Len(fifo) = Capacity
  /\ dropped' = dropped \cup {m}
  /\ UNCHANGED <<fifo, delivered>>

Get ==
  /\ fifo # <<>>
  /\ delivered' = Append(delivered, Head(fifo))
  /\ fifo' = Tail(fifo)
  /\ UNCHANGED dropped

Next ==
  \/ \E m \in Offers : Put(m) \/ Drop(m)
  \/ Get

Spec == Init /\ [][Next]_fifoVars
=============================================================================
