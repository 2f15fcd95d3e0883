------------------------------ MODULE ChatLog ------------------------------
(***************************************************************************)
(* What a chat device /dev/telegram/chat_N promises, without locks, pointer*)
(* arithmetic or wait queues: an append-only log of bytes that every open  *)
(* file reads from the beginning, byte after byte. A line that does not    *)
(* fit is cut where the log is full; nothing already in the log changes.   *)
(* TgChat implements this specification.                                   *)
(***************************************************************************)
EXTENDS Integers, Sequences

CONSTANTS
  Lines,      \* the lines a chat can be given
  Bytes(_),   \* the bytes of a line
  Files,      \* the open files that read the chat
  Capacity    \* the bytes the log holds

VARIABLES
  log,        \* the bytes of the chat
  got         \* what each open file has returned so far

logVars == <<log, got>>

Init ==
  /\ log = <<>>
  /\ got = [f \in Files |-> <<>>]

Write(l) ==
  /\ \E n \in 0 .. Len(Bytes(l)) :
       /\ Len(log) + n <= Capacity
       /\ n = Len(Bytes(l)) \/ Len(log) + n = Capacity
       /\ log' = log \o SubSeq(Bytes(l), 1, n)
  /\ UNCHANGED got

Read(f) ==
  /\ \E n \in Len(got[f]) + 1 .. Len(log) :
       got' = [got EXCEPT ![f] = SubSeq(log, 1, n)]
  /\ UNCHANGED log

Next == (\E l \in Lines : Write(l)) \/ (\E f \in Files : Read(f))

Spec == Init /\ [][Next]_logVars
=============================================================================
