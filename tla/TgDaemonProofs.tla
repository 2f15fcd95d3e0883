--------------------------- MODULE TgDaemonProofs ---------------------------
(***************************************************************************)
(* Proofs about TgDaemon, for any messages and updates, any size of the    *)
(* bus and of the chat's buffer, and any number of kills of the daemon.    *)
(***************************************************************************)
EXTENDS TgDaemon, SequenceTheorems, TLAPS

(***************************************************************************)
(* The inductive invariant.                                                *)
(***************************************************************************)
\* Nothing is left to do about an update: it is injected, and in the chat as
\* far as there was room, or is not meant for one.
Dealt(u) ==
  UpdateKind[u] # "other" => u \in Range(injected) /\ (u \in shown \/ ChatFull)

\* The batch is what the server holds, without gaps.
BatchInv ==
  \A i \in 1 .. Len(batch) : batch[i] = batch[1] + i - 1 /\ batch[i] <= arrived

(***************************************************************************)
(* What incoming_loop knows at each of its places. Only in front of the    *)
(* injection does offset name an update that is not dealt with, and from   *)
(* there the thread cannot reach the next getUpdates.                      *)
(***************************************************************************)
OffsetInv ==
  /\ \A u \in 1 .. confirmed : Dealt(u)
  /\ inPc \in {"fetch", "loop"} => \A u \in 1 .. offset - 1 : Dealt(u)
  /\ inPc = "loop" /\ batch # <<>> => /\ offset <= batch[1]
                                      /\ \A u \in 1 .. batch[1] - 1 : Dealt(u)
  /\ inPc = "inject" => /\ batch # <<>>
                        /\ offset = batch[1] + 1
                        /\ UpdateKind[batch[1]] # "other"
                        /\ \A u \in 1 .. batch[1] - 1 : Dealt(u)

\* What this life of the daemon has injected lies before the next update.
LifeInv ==
  /\ InjectedOncePerLife
  /\ up => \A i \in life + 1 .. Len(injected) :
             /\ inPc \in {"fetch", "loop"} => injected[i] < offset
             /\ inPc = "inject" => injected[i] < batch[1]

\* A message is in at most one place on its way out, and once.
OnceInv ==
  /\ \A i, j \in 1 .. Len(fifo) : i # j => fifo[i] # fifo[j]
  /\ \A i, j \in 1 .. Len(delivered) : i # j => delivered[i] # delivered[j]
  /\ \A i \in 1 .. Len(fifo), j \in 1 .. Len(delivered) : fifo[i] # delivered[j]
  /\ \A i \in 1 .. Len(fifo) : fifo[i] \notin unsent
  /\ \A i \in 1 .. Len(delivered) : delivered[i] \notin unsent

\* The message stands before place p among the delivered ones.
Before(m, p) == \E k \in 1 .. Len(delivered) : k < p /\ delivered[k] = m

\* The line in hand was delivered after all messages sent, if perhaps before
\* lines that other processes have read since.
HandInv ==
  /\ \A i \in 1 .. Len(received) : Before(received[i], Len(delivered) + 1)
  /\ outPc = "handle" =>
       \E p \in 1 .. Len(delivered) :
         /\ delivered[p] = line
         /\ \A i \in 1 .. Len(received) : Before(received[i], p)

IncomingInv == BatchInv /\ OffsetInv /\ LifeInv
OutgoingInv == OnceInv /\ HandInv /\ ReceivedOnceInOrder

(***************************************************************************)
(* Facts about the operators.                                              *)
(***************************************************************************)
\* Updates are the numbers from 1 on.
LEMMA UpdateIds == Len(UpdateKind) \in Nat /\ Updates = 1 .. Len(UpdateKind)
  BY KindAssumption DEF Updates

\* What is in a sequence stays in it when it grows, and the new element is in it.
LEMMA RangeAppend ==
  ASSUME NEW S, NEW s \in Seq(S), NEW x \in S
  PROVE  x \in Range(Append(s, x)) /\ \A y \in Range(s) : y \in Range(Append(s, x))
<1>1. Append(s, x) \in Seq(S) /\ Len(Append(s, x)) = Len(s) + 1 /\ Len(s) \in Nat
  OBVIOUS
<1>2. Append(s, x)[Len(s) + 1] = x /\ \A i \in 1 .. Len(s) : Append(s, x)[i] = s[i]
  OBVIOUS
<1>3. Len(s) + 1 \in DOMAIN Append(s, x) /\ \A i \in DOMAIN s : i \in DOMAIN Append(s, x)
  BY <1>1
<1> QED
  BY <1>1, <1>2, <1>3 DEF Range

\* scnprintf never goes past the end, fills the buffer when it cuts a line,
\* and leaves a full one as it is.
LEMMA BufferGrows ==
  ASSUME TypeOK, NEW len \in Nat \ {0}
  PROVE  /\ buf_len + scnprintf(len) \in 0 .. MSG_BUFF_SIZE - 1
         /\ ~Fits(len) \/ ChatFull => buf_len + scnprintf(len) = MSG_BUFF_SIZE - 1
<1>1. MSG_BUFF_SIZE \in Nat \ {0} /\ buf_len \in 0 .. MSG_BUFF_SIZE - 1
  BY BufferAssumption DEF TypeOK
<1> QED
  BY <1>1 DEF scnprintf, Fits, ChatFull

\* How the chat changes: it grows, and a full one stays full.
ChatGrows ==
  /\ injected' = injected \/ \E x \in Updates : injected' = Append(injected, x)
  /\ shown \subseteq shown'
  /\ ChatFull => ChatFull'

\* The chat only grows, so an update that is dealt with stays so.
LEMMA DealtStays ==
  ASSUME TypeOK, NEW u, ChatGrows, Dealt(u)
  PROVE  Dealt(u)'
<1>1. u \in Range(injected) => u \in Range(injected')
  BY RangeAppend DEF TypeOK, ChatGrows
<1> QED
  BY <1>1 DEF Dealt, ChatGrows

\* A user's line goes into the chat, if it is one of the mapped chat.
LEMMA UserWriteChat ==
  ASSUME TypeOK, NEW m \in UserMsgs, UserWrite(m)
  PROVE  /\ injected' = injected /\ shown' = shown
         /\ buf_len' \in 0 .. MSG_BUFF_SIZE - 1 /\ (ChatFull => ChatFull')
<1>1. injected' = injected /\ shown' = shown
  BY DEF UserWrite
<1>2. UserLen[m] \in Nat \ {0}
  BY BufferAssumption
<1>3. CASE m \in Mapped
  <2>1. buf_len' = buf_len + scnprintf(UserLen[m])
    BY <1>3 DEF UserWrite
  <2> QED
    BY <1>1, <1>2, <2>1, BufferGrows DEF ChatFull
<1>4. CASE m \notin Mapped
  BY <1>1, <1>4 DEF UserWrite, TypeOK, ChatFull
<1> QED
  BY <1>3, <1>4

\* An injected update is dealt with: its line is whole, or it fills the buffer.
LEMMA InjectChat ==
  ASSUME TypeOK, bus_inject_message, NEW h \in Updates, h = Head(batch)
  PROVE  /\ injected' = Append(injected, h) /\ shown' \subseteq Updates
         /\ buf_len' \in 0 .. MSG_BUFF_SIZE - 1
         /\ ChatGrows /\ (h \in shown' \/ ChatFull')
<1>1. UpdateLen[h] \in Nat \ {0}
  BY BufferAssumption
<1>2. /\ injected' = Append(injected, h)
      /\ buf_len' = buf_len + scnprintf(UpdateLen[h])
      /\ shown' = IF Fits(UpdateLen[h]) THEN shown \cup {h} ELSE shown
  BY DEF bus_inject_message
<1>3. /\ buf_len' \in 0 .. MSG_BUFF_SIZE - 1
      /\ ~Fits(UpdateLen[h]) \/ ChatFull => ChatFull'
  BY <1>1, <1>2, BufferGrows DEF ChatFull
<1>4. shown \subseteq shown' /\ shown' \subseteq Updates
  BY <1>2 DEF TypeOK
<1>5. h \in shown' \/ ChatFull'
  BY <1>2, <1>3
<1> QED
  BY <1>2, <1>3, <1>4, <1>5 DEF ChatGrows

\* The batch after its first update: still without gaps.
LEMMA BatchTail ==
  ASSUME TypeOK, BatchInv, batch # <<>>
  PROVE  /\ batch[1] \in Updates /\ Head(batch) = batch[1] /\ batch[1] <= arrived
         /\ Tail(batch) \in Seq(Updates)
         /\ Tail(batch) # <<>> => Tail(batch)[1] = batch[1] + 1
         /\ \A i \in 1 .. Len(Tail(batch)) :
              Tail(batch)[i] = Tail(batch)[1] + i - 1 /\ Tail(batch)[i] <= arrived
<1>1. PICK n \in Nat : n = Len(batch) /\ n # 0 /\ batch \in Seq(Updates)
  BY DEF TypeOK
<1>2. batch[1] \in Updates /\ Head(batch) = batch[1] /\ batch[1] <= arrived
  BY <1>1 DEF BatchInv
<1>3. /\ Tail(batch) \in Seq(Updates) /\ Len(Tail(batch)) = n - 1
      /\ \A i \in 1 .. n - 1 : Tail(batch)[i] = batch[i + 1]
  BY <1>1
<1>4. PICK h \in Nat : h = batch[1]
  BY <1>2, UpdateIds
<1>5. \A i \in 1 .. n - 1 : Tail(batch)[i] = h + i /\ Tail(batch)[i] <= arrived
  <2> TAKE i \in 1 .. n - 1
  <2>1. i + 1 \in 1 .. n /\ i \in Nat
    BY <1>1
  <2>2. batch[i + 1] = h + (i + 1) - 1 /\ batch[i + 1] <= arrived
    BY <1>1, <1>4, <2>1 DEF BatchInv
  <2> QED
    BY <1>3, <2>1, <2>2
<1>6. ASSUME n - 1 # 0
      PROVE  Tail(batch)[1] = h + 1
  <2>1. 1 \in 1 .. n - 1
    BY <1>1, <1>6
  <2> QED
    BY <1>5, <2>1
<1>7. \A i \in 1 .. n - 1 : Tail(batch)[i] = Tail(batch)[1] + i - 1
  <2> TAKE i \in 1 .. n - 1
  <2>1. Tail(batch)[1] = h + 1 /\ Tail(batch)[i] = h + i /\ i \in Nat
    BY <1>1, <1>5, <1>6
  <2>2. h + i = (h + 1) + i - 1
    BY <2>1
  <2> QED
    BY <2>1, <2>2
<1>8. Tail(batch) # <<>> => n - 1 # 0
  BY <1>3
<1> QED
  BY <1>2, <1>3, <1>4, <1>5, <1>6, <1>7, <1>8

\* getUpdates deletes the updates below offset, and never one that has not arrived.
LEMMA ConfirmBounds ==
  ASSUME TypeOK, Confirm
  PROVE  /\ confirmed' \in 0 .. arrived
         /\ confirmed <= confirmed' /\ offset <= confirmed' + 1
         /\ confirmed' = confirmed \/ confirmed' = offset - 1
<1>1. arrived \in Nat /\ confirmed \in 0 .. arrived /\ offset \in 0 .. arrived + 1
  BY UpdateIds DEF TypeOK
<1> QED
  BY <1>1 DEF Confirm

(***************************************************************************)
(* Types.                                                                  *)
(***************************************************************************)
LEMMA TypeStep == TypeOK /\ BatchInv /\ OffsetInv /\ [Next]_vars => TypeOK'
<1> SUFFICES ASSUME TypeOK, BatchInv, OffsetInv, [Next]_vars
             PROVE  TypeOK'
  OBVIOUS
<1>a. /\ arrived \in Nat /\ confirmed \in Nat /\ offset \in Nat /\ Len(UpdateKind) \in Nat
      /\ arrived <= Len(UpdateKind) /\ confirmed <= arrived /\ offset <= arrived + 1
  BY UpdateIds DEF TypeOK
<1> USE BoundAssumption, UpdateIds
    DEF bus, chat, server, incoming, outgoing, process
<1>1. CASE UNCHANGED vars
  BY <1>1 DEF TypeOK, vars
<1>2. ASSUME NEW m \in UserMsgs, UserWrite(m)
      PROVE  TypeOK'
  <2>a. injected' = injected /\ shown' = shown /\ buf_len' \in 0 .. MSG_BUFF_SIZE - 1
    BY <1>2, UserWriteChat
  <2>1. CASE Bus!Put(m)
    <3>1. /\ Len(fifo) < BUS_QUEUE_SIZE /\ fifo' = Append(fifo, m)
          /\ delivered' = delivered /\ dropped' = dropped
      BY <2>1 DEF Bus!Put
    <3>2. fifo' \in Seq(UserMsgs) /\ Len(fifo') = Len(fifo) + 1
      BY <3>1 DEF TypeOK
    <3>3. Len(fifo') <= BUS_QUEUE_SIZE
      BY <3>1, <3>2 DEF TypeOK
    <3> QED
      BY <1>2, <2>a, <3>1, <3>2, <3>3 DEF TypeOK, UserWrite
  <2>2. CASE Bus!Drop(m)
    BY <1>2, <2>a, <2>2 DEF TypeOK, UserWrite, Bus!Drop
  <2> QED
    BY <1>2, <2>1, <2>2 DEF TypeOK, UserWrite
<1>3. CASE Arrive
  <2>1. PICK n \in Nat : n = arrived' /\ n = arrived + 1 /\ n <= Len(UpdateKind)
    BY <1>3, <1>a DEF Arrive
  <2>2. n \in 0 .. Len(UpdateKind) /\ confirmed \in 0 .. n /\ offset \in 0 .. n + 1
    BY <1>a, <2>1
  <2> QED
    BY <1>3, <2>1, <2>2 DEF TypeOK, Arrive
<1>4. CASE Start \/ Kill
  <2>1. CASE Start
    BY <2>1 DEF TypeOK, Start
  <2>2. CASE Kill
    <3>1. crashes + 1 \in 0 .. MaxCrashes
      BY <2>2 DEF TypeOK, Kill
    <3>2. 0 \in 0 .. arrived + 1 /\ <<>> \in Seq(Updates)
      BY <1>a
    <3>3. UNCHANGED <<bus, unsent, server, chat, life>>
      BY <2>2 DEF Kill
    <3> QED
      BY <2>2, <3>1, <3>2, <3>3 DEF TypeOK, Kill
  <2> QED
    BY <1>4, <2>1, <2>2
<1>5. CASE tg_get_updates
  <2>1. PICK c \in 0 .. arrived : c = confirmed' /\ arrived > c
    BY <1>5, ConfirmBounds DEF tg_get_updates
  <2>2. batch' = [i \in 1 .. arrived - c |-> c + i]
    BY <1>5, <2>1 DEF tg_get_updates
  <2> DEFINE n == arrived - c
  <2>3. n \in Nat /\ \A i \in 1 .. n : c + i \in 1 .. Len(UpdateKind)
    BY <1>a
  <2>4. batch' \in [1 .. n -> Updates]
    BY <2>2, <2>3
  <2>5. batch' \in Seq(Updates)
    BY <2>3, <2>4
  <2> QED
    BY <1>5, <2>1, <2>5 DEF TypeOK, tg_get_updates
<1>6. CASE tg_get_updates_Nothing
  <2>1. confirmed' \in 0 .. arrived
    BY <1>6, ConfirmBounds DEF tg_get_updates_Nothing
  <2> QED
    BY <1>6, <2>1 DEF TypeOK, tg_get_updates_Nothing
<1>7. CASE ForUpdate
  <2>1. /\ batch[1] \in Updates /\ Head(batch) = batch[1] /\ batch[1] <= arrived
        /\ Tail(batch) \in Seq(Updates)
    BY <1>7, BatchTail DEF ForUpdate
  <2>2. offset' \in 0 .. arrived + 1 /\ arrived' = arrived
    <3>1. PICK h \in Nat : h = batch[1] /\ h <= arrived
      BY <2>1
    <3>2. h + 1 \in 0 .. arrived + 1
      BY <1>a, <3>1
    <3> QED
      BY <1>7, <2>1, <3>1, <3>2 DEF ForUpdate
  <2> QED
    BY <1>7, <2>1, <2>2 DEF TypeOK, ForUpdate
<1>8. CASE ForEnd
  BY <1>8 DEF TypeOK, ForEnd
<1>9. CASE bus_inject_message
  <2>1. /\ batch[1] \in Updates /\ Head(batch) = batch[1]
        /\ Tail(batch) \in Seq(Updates)
    BY <1>9, BatchTail DEF TypeOK, bus_inject_message
  <2>a. PICK h \in Updates : h = Head(batch)
    BY <2>1
  <2>2. injected' \in Seq(Updates) /\ Len(injected') = Len(injected) + 1
    BY <1>9, <2>a DEF TypeOK, bus_inject_message
  <2>3. life \in 0 .. Len(injected) + 1
    BY DEF TypeOK
  <2>4. buf_len' \in 0 .. MSG_BUFF_SIZE - 1 /\ shown' \subseteq Updates
    BY <1>9, <2>a, InjectChat
  <2> QED
    BY <1>9, <2>1, <2>2, <2>3, <2>4 DEF TypeOK, bus_inject_message
<1>10. CASE InjectFails
  BY <1>10 DEF TypeOK, InjectFails
<1>11. CASE Select
  BY <1>11 DEF TypeOK, Select
<1>12. CASE Read \/ OtherRead
  <2>1. /\ fifo' \in Seq(UserMsgs) /\ Len(fifo') <= BUS_QUEUE_SIZE
        /\ delivered' \in Seq(UserMsgs) /\ dropped' = dropped
        /\ Head(fifo) \in UserMsgs
    <3>1. /\ fifo # <<>> /\ fifo' = Tail(fifo) /\ dropped' = dropped
          /\ delivered' = Append(delivered, Head(fifo))
      BY <1>12 DEF Read, OtherRead, Bus!Get
    <3>2. fifo \in Seq(UserMsgs) /\ Len(fifo) <= BUS_QUEUE_SIZE /\ delivered \in Seq(UserMsgs)
      BY DEF TypeOK
    <3>3. Head(fifo) \in UserMsgs /\ Tail(fifo) \in Seq(UserMsgs) /\ Len(Tail(fifo)) = Len(fifo) - 1
      BY <3>1, <3>2
    <3> QED
      BY <3>1, <3>2, <3>3
  <2> QED
    BY <1>12, <2>1 DEF TypeOK, Read, OtherRead
<1>13. CASE tg_send
  <2>1. line \in UserMsgs
    BY <1>13, KindAssumption DEF tg_send
  <2>2. received' \in Seq(UserMsgs)
    BY <1>13, <2>1 DEF TypeOK, tg_send
  <2> QED
    BY <1>13, <2>2 DEF TypeOK, tg_send
<1>14. CASE tg_send_Fails
  BY <1>14 DEF TypeOK, tg_send_Fails
<1>15. CASE SelectTimeout
  BY <1>15 DEF TypeOK, SelectTimeout, vars
<1> QED
  BY <1>1, <1>2, <1>3, <1>4, <1>5, <1>6, <1>7, <1>8, <1>9, <1>10, <1>11, <1>12,
     <1>13, <1>14, <1>15 DEF Next, Incoming, Outgoing

(***************************************************************************)
(* The incoming thread. Users, the server's arrivals and the outgoing      *)
(* thread touch nothing of it.                                             *)
(***************************************************************************)
LEMMA IncomingSteps ==
  ASSUME TypeOK, [Next]_vars
  PROVE  \/ Start \/ Kill \/ tg_get_updates \/ tg_get_updates_Nothing
         \/ ForUpdate \/ ForEnd \/ bus_inject_message \/ InjectFails
         \/ /\ UNCHANGED <<injected, incoming, process, confirmed>>
            /\ ChatGrows
            /\ arrived' = arrived \/ arrived' = arrived + 1
<1> USE DEF server, chat
<1>a. UNCHANGED chat => ChatGrows
  BY DEF ChatGrows, ChatFull
<1>1. CASE UNCHANGED vars
  BY <1>1, <1>a DEF vars
<1>2. ASSUME NEW m \in UserMsgs, UserWrite(m)
      PROVE  UNCHANGED <<injected, incoming, process, confirmed, arrived>> /\ ChatGrows
  BY <1>2, UserWriteChat DEF UserWrite, ChatGrows
<1>3. CASE Arrive \/ OtherRead \/ Outgoing \/ SelectTimeout
  BY <1>3, <1>a DEF Arrive, OtherRead, Outgoing, Select, Read, tg_send, tg_send_Fails,
     SelectTimeout, vars
<1> QED
  BY <1>1, <1>2, <1>3 DEF Next, Incoming

\* No step leaves a gap in the batch, and no update leaves the server's memory.
LEMMA BatchStep == TypeOK /\ BatchInv /\ OffsetInv /\ [Next]_vars => BatchInv'
<1> SUFFICES ASSUME TypeOK, BatchInv, OffsetInv, [Next]_vars
             PROVE  BatchInv'
  OBVIOUS
<1>a. arrived \in Nat /\ batch \in Seq(Updates) /\ \A i \in 1 .. Len(batch) : batch[i] \in Nat
  BY UpdateIds, SMTT(40) DEF TypeOK
<1>1. CASE batch' = batch /\ (arrived' = arrived \/ arrived' = arrived + 1)
  <2>1. \A i \in 1 .. Len(batch) : batch[i] <= arrived'
    BY <1>1, <1>a DEF BatchInv
  <2> QED
    BY <1>1, <2>1 DEF BatchInv
<1>2. CASE tg_get_updates
  <2>1. PICK c \in 0 .. arrived : c = confirmed'
    BY <1>2, ConfirmBounds DEF tg_get_updates
  <2>2. batch' = [i \in 1 .. arrived - c |-> c + i] /\ arrived' = arrived
    BY <1>2, <2>1 DEF tg_get_updates
  <2> DEFINE n == arrived - c
  <2>3. n \in Nat /\ \A i \in 1 .. n : /\ c + i \in Nat /\ c + i <= arrived
                                     /\ 1 \in 1 .. n /\ c + i = (c + 1) + i - 1
    BY <1>a
  <2>4. batch' \in [1 .. n -> Nat]
    BY <2>2, <2>3
  <2>5. Len(batch') = n
    BY <2>3, <2>4
  <2>6. ASSUME NEW i \in 1 .. n
        PROVE  batch'[i] = batch'[1] + i - 1 /\ batch'[i] <= arrived
    <3>1. batch'[i] = c + i /\ batch'[1] = c + 1
      BY <2>2, <2>3
    <3> QED
      BY <2>3, <3>1
  <2> QED
    BY <2>2, <2>5, <2>6 DEF BatchInv
<1>3. CASE batch # <<>> /\ batch' = Tail(batch) /\ arrived' = arrived
  BY <1>3, BatchTail DEF BatchInv
<1>4. CASE batch' = <<>>
  BY <1>4 DEF BatchInv
<1>5. bus_inject_message => batch # <<>>
  BY DEF bus_inject_message, OffsetInv
<1> QED
  BY <1>1, <1>2, <1>3, <1>4, <1>5, IncomingSteps DEF Start, Kill, tg_get_updates_Nothing,
     ForUpdate, ForEnd, bus_inject_message, InjectFails, server, incoming

(***************************************************************************)
(* No step loses an update: offset moves past an update in the turn of the *)
(* loop that deals with it.                                                *)
(***************************************************************************)
LEMMA OffsetStep == TypeOK /\ BatchInv /\ OffsetInv /\ [Next]_vars => OffsetInv'
<1> SUFFICES ASSUME TypeOK, BatchInv, OffsetInv, [Next]_vars
             PROVE  OffsetInv'
  OBVIOUS
<1>a. arrived \in Nat /\ confirmed \in Nat /\ offset \in Nat
  BY UpdateIds DEF TypeOK
<1>b. ASSUME chat' = chat
      PROVE  \A u : Dealt(u) <=> Dealt(u)'
  BY <1>b DEF Dealt, chat, ChatFull
<1>1. CASE UNCHANGED <<incoming, confirmed>> /\ ChatGrows
  <2>1. \A u : Dealt(u) => Dealt(u)'
    BY <1>1, DealtStays
  <2> QED
    BY <1>1, <2>1 DEF OffsetInv, incoming
<1>2. CASE Start
  BY <1>2, <1>b DEF Start, OffsetInv, incoming, server
<1>3. CASE Kill
  BY <1>3, <1>b DEF Kill, OffsetInv, server
<1>c. ASSUME inPc = "fetch", Confirm
      PROVE  /\ \A u \in 1 .. confirmed' : Dealt(u)
             /\ offset <= confirmed' + 1
  BY <1>c, ConfirmBounds DEF OffsetInv
<1>4. CASE tg_get_updates
  <2>1. PICK c \in 0 .. arrived : c = confirmed'
    BY <1>4, ConfirmBounds DEF tg_get_updates
  <2>a. arrived > c /\ offset <= c + 1
    BY <1>4, <2>1, ConfirmBounds DEF tg_get_updates
  <2>2. \A u \in 1 .. c : Dealt(u)
    BY <1>4, <1>c, <2>1 DEF tg_get_updates
  <2>3. batch' = [i \in 1 .. arrived - c |-> c + i]
    BY <1>4, <2>1 DEF tg_get_updates
  <2>4. 1 \in 1 .. arrived - c
    BY <1>a, <2>a
  <2>5. batch'[1] = c + 1
    BY <2>3, <2>4
  <2>6. offset <= c + 1 /\ \A u \in 1 .. (c + 1) - 1 : Dealt(u)
    BY <2>2, <2>a
  <2>7. chat' = chat /\ inPc' = "loop" /\ offset' = offset /\ inPc = "fetch"
    BY <1>4 DEF tg_get_updates
  <2> QED
    BY <1>b, <2>1, <2>2, <2>5, <2>6, <2>7 DEF OffsetInv
<1>5. CASE tg_get_updates_Nothing
  BY <1>5, <1>b, <1>c DEF tg_get_updates_Nothing, OffsetInv, incoming
<1>6. CASE ForUpdate
  <2>1. /\ batch[1] \in Nat /\ Head(batch) = batch[1]
        /\ Tail(batch) # <<>> => Tail(batch)[1] = batch[1] + 1
    BY <1>6, BatchTail, UpdateIds DEF ForUpdate
  <2>2. PICK h \in Nat : h = batch[1]
    BY <2>1
  <2>3. /\ inPc = "loop" /\ batch # <<>> /\ offset' = h + 1
        /\ chat' = chat /\ confirmed' = confirmed
        /\ \A u \in 1 .. h - 1 : Dealt(u)
    BY <1>6, <2>1, <2>2 DEF ForUpdate, OffsetInv, server
  <2>4. CASE UpdateKind[h] = "other"
    <3>1. batch' = Tail(batch) /\ inPc' = "loop"
      BY <1>6, <2>1, <2>2, <2>4 DEF ForUpdate
    <3>2. Dealt(h)
      BY <2>4 DEF Dealt
    <3>3. \A u \in 1 .. (h + 1) - 1 : Dealt(u)
      BY <2>3, <3>2
    <3>4. batch' # <<>> => batch'[1] = h + 1
      BY <2>1, <2>2, <3>1
    <3>5. h + 1 <= h + 1
      OBVIOUS
    <3> QED
      BY <1>b, <2>3, <3>1, <3>3, <3>4, <3>5 DEF OffsetInv
  <2>5. CASE UpdateKind[h] # "other"
    <3>1. batch' = batch /\ inPc' = "inject"
      BY <1>6, <2>1, <2>2, <2>5 DEF ForUpdate
    <3> QED
      BY <1>b, <2>2, <2>3, <2>5, <3>1 DEF OffsetInv
  <2> QED
    BY <2>4, <2>5
<1>7. CASE ForEnd
  BY <1>7, <1>b DEF ForEnd, OffsetInv, server
<1>8. CASE bus_inject_message
  <2>1. /\ batch # <<>> /\ offset = batch[1] + 1
        /\ \A u \in 1 .. batch[1] - 1 : Dealt(u)
    BY <1>8 DEF bus_inject_message, OffsetInv
  <2>2. /\ batch[1] \in Updates /\ batch[1] \in Nat /\ Head(batch) = batch[1]
        /\ Tail(batch) # <<>> => Tail(batch)[1] = batch[1] + 1
    BY <2>1, BatchTail, UpdateIds
  <2>3. PICK h \in Nat : h = batch[1]
    BY <2>2
  <2>4. /\ injected' = Append(injected, h) /\ batch' = Tail(batch) /\ inPc' = "loop"
        /\ offset' = h + 1 /\ confirmed' = confirmed
    BY <1>8, <2>1, <2>2, <2>3 DEF bus_inject_message, server
  <2>a. ChatGrows /\ (h \in shown' \/ ChatFull')
    BY <1>8, <2>2, <2>3, InjectChat
  <2>b. h \in Range(injected')
    BY <2>2, <2>3, <2>4, RangeAppend DEF TypeOK
  <2>5. Dealt(h)'
    BY <2>a, <2>b DEF Dealt
  <2>6. \A u : Dealt(u) => Dealt(u)'
    BY <2>a, DealtStays
  <2>7. \A u \in 1 .. (h + 1) - 1 : Dealt(u)'
    BY <2>1, <2>3, <2>5, <2>6
  <2>8. \A u \in 1 .. confirmed : Dealt(u)'
    BY <2>6 DEF OffsetInv
  <2>9. batch' # <<>> => batch'[1] = h + 1 /\ h + 1 <= h + 1
    BY <2>2, <2>3, <2>4
  <2> QED
    BY <2>4, <2>7, <2>8, <2>9 DEF OffsetInv
<1>9. CASE InjectFails
  BY <1>9, <1>b DEF InjectFails, OffsetInv, server
<1> QED
  BY <1>1, <1>2, <1>3, <1>4, <1>5, <1>6, <1>7, <1>8, <1>9, IncomingSteps

(***************************************************************************)
(* Order within one life of the daemon: the update that is injected next   *)
(* is larger than all that this life has injected.                         *)
(***************************************************************************)
LEMMA LifeStep == TypeOK /\ IncomingInv /\ [Next]_vars => LifeInv'
<1> SUFFICES ASSUME TypeOK, BatchInv, OffsetInv, LifeInv, [Next]_vars
             PROVE  LifeInv'
  BY DEF IncomingInv
<1> USE DEF LifeInv, InjectedOncePerLife, chat
<1>a. /\ offset \in Nat /\ life \in Nat /\ Len(injected) \in Nat /\ life <= Len(injected)
      /\ injected \in Seq(Updates) /\ \A i \in 1 .. Len(injected) : injected[i] \in Nat
  BY UpdateIds, SMTT(40) DEF TypeOK
<1>b. \A i \in life + 1 .. Len(injected) : i \in 1 .. Len(injected)
  BY <1>a
<1>1. CASE UNCHANGED <<injected, incoming, process>>
  BY <1>1 DEF incoming, process
<1>2. CASE Start
  <2>1. life' = Len(injected) /\ injected' = injected
    BY <1>2 DEF Start
  <2>2. \A i \in Len(injected) + 1 .. Len(injected) : FALSE
    BY <1>a
  <2> QED
    BY <2>1, <2>2
<1>3. CASE Kill
  BY <1>3 DEF Kill
<1>4. CASE tg_get_updates \/ tg_get_updates_Nothing \/ ForEnd \/ InjectFails
  BY <1>4 DEF tg_get_updates, tg_get_updates_Nothing, ForEnd, InjectFails, process, incoming
<1>5. CASE ForUpdate
  <2>1. PICK h \in Nat : /\ h = batch[1] /\ Head(batch) = h /\ offset <= h
                         /\ batch # <<>> /\ up /\ inPc = "loop"
    BY <1>5, BatchTail, UpdateIds DEF ForUpdate, OffsetInv
  <2>2. \A i \in life + 1 .. Len(injected) : injected[i] \in Nat /\ injected[i] < offset
    BY <1>a, <1>b, <2>1
  <2>3. \A i \in life + 1 .. Len(injected) : injected[i] < h /\ injected[i] < h + 1
    BY <1>a, <2>1, <2>2
  <2>4. /\ offset' = h + 1 /\ UNCHANGED <<injected, life, up>>
        /\ inPc' = "loop" \/ (inPc' = "inject" /\ batch' = batch)
    BY <1>5, <2>1 DEF ForUpdate, process
  <2> QED
    BY <2>1, <2>3, <2>4
<1>6. CASE bus_inject_message
  <2>1. PICK h \in Nat : /\ h = batch[1] /\ h \in Updates /\ Head(batch) = h
                         /\ offset = h + 1 /\ up /\ inPc = "inject"
    BY <1>6, BatchTail, UpdateIds DEF bus_inject_message, OffsetInv
  <2>2. /\ injected' = Append(injected, h) /\ offset' = h + 1 /\ inPc' = "loop"
        /\ life' = life /\ up' = up
    BY <1>6, <2>1 DEF bus_inject_message, process
  <2>3. PICK n \in Nat : n = Len(injected)
    BY <1>a
  <2>4. /\ Len(injected') = n + 1 /\ injected'[n + 1] = h
        /\ \A i \in 1 .. n : injected'[i] = injected[i]
    BY <1>a, <2>1, <2>2, <2>3
  <2>5. \A i \in life + 1 .. n : i \in 1 .. n /\ injected[i] \in Nat /\ injected[i] < h
    BY <1>a, <1>b, <2>1, <2>3
  <2>6. \A i \in life + 1 .. n + 1 : i \in life + 1 .. n \/ i = n + 1
    BY <1>a, <2>3
  <2>7. ASSUME NEW i \in life + 1 .. n + 1
        PROVE  injected'[i] < h + 1
    BY <2>4, <2>5, <2>6
  <2>8. ASSUME NEW i \in life + 1 .. n + 1, NEW j \in life + 1 .. n + 1, i < j
        PROVE  injected'[i] < injected'[j]
    <3>1. i \in life + 1 .. n
      BY <1>a, <2>3, <2>8
    <3>2. CASE j = n + 1
      BY <2>4, <2>5, <3>1, <3>2
    <3>3. CASE j \in life + 1 .. n
      BY <2>3, <2>4, <2>5, <2>8, <3>1, <3>3
    <3> QED
      BY <2>6, <3>2, <3>3
  <2> QED
    BY <2>2, <2>4, <2>7, <2>8
<1> QED
  BY <1>1, <1>2, <1>3, <1>4, <1>5, <1>6, IncomingSteps

(***************************************************************************)
(* The outgoing thread. A message moves from unsent to the bus and from    *)
(* there to delivered, and Telegram receives the line in hand only.        *)
(***************************************************************************)
LEMMA OutgoingSteps ==
  ASSUME [Next]_vars
  PROVE  \/ \E m \in UserMsgs : UserWrite(m)
         \/ OtherRead \/ Kill \/ Select \/ Read \/ tg_send \/ tg_send_Fails
         \/ UNCHANGED <<fifo, delivered, unsent, received, outPc, line>>
<1> USE DEF bus, server, outgoing
<1>1. CASE UNCHANGED vars \/ SelectTimeout
  BY <1>1 DEF vars, SelectTimeout
<1>2. CASE Arrive \/ Start \/ tg_get_updates \/ tg_get_updates_Nothing \/ Incoming
  BY <1>2 DEF Arrive, Start, tg_get_updates, tg_get_updates_Nothing, Incoming, ForUpdate,
     ForEnd, bus_inject_message, InjectFails
<1> QED
  BY <1>1, <1>2 DEF Next, Outgoing

\* Putting a message on the bus: it comes from unsent, so it is new there.
LEMMA OnceStep == TypeOK /\ OnceInv /\ [Next]_vars => OnceInv'
<1> SUFFICES ASSUME TypeOK, OnceInv, [Next]_vars
             PROVE  OnceInv'
  OBVIOUS
<1>a. fifo \in Seq(UserMsgs) /\ delivered \in Seq(UserMsgs) /\ unsent \subseteq UserMsgs
  BY DEF TypeOK
<1>1. CASE UNCHANGED <<fifo, delivered, unsent>>
  BY <1>1 DEF OnceInv
<1>2. ASSUME NEW m \in UserMsgs, UserWrite(m)
      PROVE  OnceInv'
  <2>1. m \in unsent /\ unsent' = unsent \ {m} /\ delivered' = delivered
    BY <1>2 DEF UserWrite, Bus!Put, Bus!Drop
  <2>2. CASE fifo' = fifo
    BY <2>1, <2>2 DEF OnceInv
  <2>3. CASE fifo' = Append(fifo, m)
    <3>1. PICK n \in Nat : n = Len(fifo)
      BY <1>a
    <3>2. /\ Len(fifo') = n + 1 /\ fifo'[n + 1] = m
          /\ \A i \in 1 .. n : fifo'[i] = fifo[i]
      BY <1>a, <2>3, <3>1
    <3>3. \A i \in 1 .. n + 1 : i = n + 1 \/ i \in 1 .. n
      OBVIOUS
    <3>4. \A i \in 1 .. n : fifo'[i] # m /\ fifo'[i] \notin unsent
      BY <2>1, <3>1, <3>2 DEF OnceInv
    <3>5. \A i, j \in 1 .. n + 1 : i # j => fifo'[i] # fifo'[j]
      BY <3>1, <3>2, <3>3, <3>4 DEF OnceInv
    <3>6. \A i \in 1 .. n + 1, j \in 1 .. Len(delivered) : fifo'[i] # delivered[j]
      BY <2>1, <3>1, <3>2, <3>3 DEF OnceInv
    <3>7. \A i \in 1 .. n + 1 : fifo'[i] \notin unsent'
      BY <2>1, <3>2, <3>3, <3>4
    <3>8. \A i \in 1 .. Len(delivered) : delivered[i] \notin unsent'
      BY <2>1 DEF OnceInv
    <3> QED
      BY <2>1, <3>2, <3>5, <3>6, <3>7, <3>8 DEF OnceInv
  <2> QED
    BY <1>2, <2>2, <2>3 DEF UserWrite, Bus!Put, Bus!Drop
<1>3. CASE Read \/ OtherRead
  <2>1. /\ fifo # <<>> /\ fifo' = Tail(fifo) /\ delivered' = Append(delivered, Head(fifo))
        /\ unsent' = unsent
    BY <1>3 DEF Read, OtherRead, Bus!Get
  <2>2. PICK n \in Nat : n = Len(fifo) /\ n # 0
    BY <1>a, <2>1
  <2>3. PICK d \in Nat : d = Len(delivered)
    BY <1>a
  <2>4. /\ Len(fifo') = n - 1 /\ Head(fifo) = fifo[1]
        /\ \A i \in 1 .. n - 1 : fifo'[i] = fifo[i + 1]
    BY <1>a, <2>1, <2>2
  <2>5. /\ Len(delivered') = d + 1 /\ delivered'[d + 1] = fifo[1]
        /\ \A i \in 1 .. d : delivered'[i] = delivered[i]
    BY <1>a, <2>1, <2>3, <2>4
  <2>6. /\ \A i \in 1 .. d + 1 : i = d + 1 \/ i \in 1 .. d
        /\ \A i \in 1 .. n - 1 : i + 1 \in 1 .. n /\ i + 1 # 1
        /\ \A i, j \in 1 .. n - 1 : i # j => i + 1 # j + 1
        /\ 1 \in 1 .. n
    BY <2>2
  <2>7. \A i, j \in 1 .. n - 1 : i # j => fifo'[i] # fifo'[j]
    BY <2>2, <2>4, <2>6 DEF OnceInv
  <2>8. \A i, j \in 1 .. d + 1 : i # j => delivered'[i] # delivered'[j]
    BY <2>2, <2>3, <2>5, <2>6 DEF OnceInv
  <2>9. \A i \in 1 .. n - 1, j \in 1 .. d + 1 : fifo'[i] # delivered'[j]
    BY <2>2, <2>3, <2>4, <2>5, <2>6 DEF OnceInv
  <2>10. \A i \in 1 .. n - 1 : fifo'[i] \notin unsent
    BY <2>2, <2>4, <2>6 DEF OnceInv
  <2>11. \A i \in 1 .. d + 1 : delivered'[i] \notin unsent
    BY <2>2, <2>3, <2>5, <2>6 DEF OnceInv
  <2> QED
    BY <2>1, <2>4, <2>5, <2>7, <2>8, <2>9, <2>10, <2>11 DEF OnceInv
<1> QED
  BY <1>1, <1>2, <1>3, OutgoingSteps DEF Kill, Select, tg_send, tg_send_Fails, bus

\* A line that joins the delivered ones does not move those before it.
LEMMA BeforeStays ==
  ASSUME NEW S, delivered \in Seq(S), NEW x \in S, delivered' = Append(delivered, x)
  PROVE  /\ Len(delivered') = Len(delivered) + 1 /\ Len(delivered) \in Nat
         /\ delivered'[Len(delivered) + 1] = x
         /\ \A k \in 1 .. Len(delivered) : /\ delivered'[k] = delivered[k]
                                         /\ k \in 1 .. Len(delivered')
         /\ \A m, p : Before(m, p) => Before(m, p)'
<1>1. PICK d \in Nat : d = Len(delivered)
  OBVIOUS
<1>2. /\ Len(delivered') = d + 1 /\ delivered'[d + 1] = x
      /\ \A k \in 1 .. d : delivered'[k] = delivered[k]
  BY <1>1
<1>3. \A k \in 1 .. d : k \in 1 .. d + 1
  OBVIOUS
<1>4. ASSUME NEW m, NEW p, Before(m, p)
      PROVE  \E k \in 1 .. Len(delivered') : k < p /\ delivered'[k] = m
  <2>1. PICK k \in 1 .. d : k < p /\ delivered[k] = m
    BY <1>1, <1>4 DEF Before
  <2> QED
    BY <1>2, <1>3, <2>1
<1>5. \A m, p : Before(m, p) => Before(m, p)'
  BY <1>4 DEF Before
<1> QED
  BY <1>1, <1>2, <1>3, <1>5

\* Where the messages Telegram has received stand among the delivered ones.
LEMMA HandStep == TypeOK /\ HandInv /\ [Next]_vars => HandInv'
<1> SUFFICES ASSUME TypeOK, HandInv, [Next]_vars
             PROVE  HandInv'
  OBVIOUS
<1>a. delivered \in Seq(UserMsgs) /\ received \in Seq(UserMsgs) /\ fifo \in Seq(UserMsgs)
  BY DEF TypeOK
<1>b. ASSUME delivered' = delivered
      PROVE  \A m, p : Before(m, p) <=> Before(m, p)'
  BY <1>b DEF Before
<1>1. CASE UNCHANGED <<delivered, received, outPc, line>>
  BY <1>1, <1>b DEF HandInv
<1>2. CASE UNCHANGED <<delivered, received>> /\ outPc' \in {"select", "read"}
  BY <1>2, <1>b DEF HandInv
<1>3. CASE Read \/ OtherRead
  <2>1. /\ fifo # <<>> /\ delivered' = Append(delivered, Head(fifo)) /\ received' = received
        /\ \/ outPc' = "handle" /\ line' = Head(fifo)
           \/ outPc' = outPc /\ line' = line
    BY <1>3 DEF Read, OtherRead, Bus!Get, server, outgoing
  <2>2. PICK x \in UserMsgs : x = Head(fifo)
    BY <1>a, <2>1
  <2>3. PICK d \in Nat : d = Len(delivered)
    BY <1>a
  <2>4. /\ Len(delivered') = d + 1 /\ delivered'[d + 1] = x
        /\ \A k \in 1 .. d : delivered'[k] = delivered[k] /\ k \in 1 .. d + 1
    BY <1>a, <2>1, <2>2, <2>3, BeforeStays
  <2>5. \A m, p : Before(m, p) => Before(m, p)'
    BY <1>a, <2>1, <2>2, BeforeStays
  <2>6. \A i \in 1 .. Len(received) : Before(received[i], d + 1)'
    BY <2>1, <2>3, <2>5 DEF HandInv
  <2>7. \A i \in 1 .. Len(received) : Before(received[i], Len(delivered) + 1)'
    <3>1. ASSUME NEW i \in 1 .. Len(received)
          PROVE  \E k \in 1 .. d + 1 : k < (d + 1) + 1 /\ delivered'[k] = received'[i]
      BY <2>4, <2>6, <3>1 DEF Before
    <3> QED
      BY <2>1, <2>4, <3>1 DEF Before
  <2>8. CASE outPc' = "handle" /\ line' = x
    <3>1. d + 1 \in 1 .. Len(delivered') /\ delivered'[d + 1] = line'
      BY <2>4, <2>8
    <3> QED
      BY <2>1, <2>6, <2>7, <3>1 DEF HandInv
  <2>9. CASE outPc' = outPc /\ line' = line
    <3>1. ASSUME outPc = "handle"
          PROVE  \E p \in 1 .. Len(delivered') :
                   /\ delivered'[p] = line'
                   /\ \A i \in 1 .. Len(received') : Before(received[i], p)'
      <4>1. PICK p \in 1 .. d : /\ delivered[p] = line
                                /\ \A i \in 1 .. Len(received) : Before(received[i], p)
        BY <2>3, <3>1 DEF HandInv
      <4>2. \A i \in 1 .. Len(received') : Before(received[i], p)'
        BY <2>1, <2>5, <4>1
      <4>3. p \in 1 .. Len(delivered') /\ delivered'[p] = line'
        BY <2>4, <2>9, <4>1
      <4> QED
        BY <4>2, <4>3
    <3> QED
      BY <2>1, <2>7, <2>9, <3>1 DEF HandInv
  <2> QED
    BY <2>1, <2>2, <2>8, <2>9
<1>4. CASE tg_send
  <2>1. /\ delivered' = delivered /\ received' = Append(received, line)
        /\ outPc' = "select" /\ outPc = "handle"
    BY <1>4 DEF tg_send, bus
  <2>2. PICK p \in 1 .. Len(delivered) : delivered[p] = line /\ line \in UserMsgs
    BY <1>a, <2>1 DEF HandInv
  <2>3. PICK n \in Nat : n = Len(received)
    BY <1>a
  <2>4. /\ Len(received') = n + 1 /\ received'[n + 1] = line
        /\ \A i \in 1 .. n : received'[i] = received[i]
        /\ \A i \in 1 .. n + 1 : i = n + 1 \/ i \in 1 .. n
    BY <1>a, <2>1, <2>2, <2>3
  <2>5. Before(line, Len(delivered) + 1)
    BY <1>a, <2>2 DEF Before
  <2>6. \A i \in 1 .. n + 1 : Before(received'[i], Len(delivered) + 1)
    BY <2>3, <2>4, <2>5 DEF HandInv
  <2>7. \A i \in 1 .. Len(received') : Before(received[i], Len(delivered) + 1)'
    BY <2>1, <2>4, <2>6 DEF Before
  <2> QED
    BY <2>1, <2>7 DEF HandInv
<1>5. ASSUME NEW m \in UserMsgs, UserWrite(m)
      PROVE  UNCHANGED <<delivered, received, outPc, line>>
  BY <1>5 DEF UserWrite, Bus!Put, Bus!Drop, server, outgoing
<1> QED
  BY <1>1, <1>2, <1>3, <1>4, <1>5, OutgoingSteps DEF Kill, Select, tg_send_Fails,
     bus, server

\* The line in hand comes after everything that has been sent.
LEMMA ReceivedStep ==
  TypeOK /\ OnceInv /\ HandInv /\ ReceivedOnceInOrder /\ [Next]_vars => ReceivedOnceInOrder'
<1> SUFFICES ASSUME TypeOK, OnceInv, HandInv, ReceivedOnceInOrder, [Next]_vars
             PROVE  ReceivedOnceInOrder'
  OBVIOUS
<1>a. delivered \in Seq(UserMsgs) /\ received \in Seq(UserMsgs) /\ fifo \in Seq(UserMsgs)
  BY DEF TypeOK
<1>b. DOMAIN delivered = 1 .. Len(delivered) /\ DOMAIN received = 1 .. Len(received)
  BY <1>a
<1>1. CASE UNCHANGED <<delivered, received>>
  BY <1>1 DEF ReceivedOnceInOrder
<1>2. CASE Read \/ OtherRead
  <2>1. delivered' = Append(delivered, Head(fifo)) /\ Head(fifo) \in UserMsgs /\ received' = received
    BY <1>2, <1>a DEF Read, OtherRead, Bus!Get, server
  <2>2. \A i \in DOMAIN delivered : delivered'[i] = delivered[i] /\ i \in DOMAIN delivered'
    BY <1>a, <2>1
  <2> QED
    BY <2>1, <2>2 DEF ReceivedOnceInOrder
<1>3. CASE tg_send
  <2>1. /\ delivered' = delivered /\ received' = Append(received, line) /\ outPc = "handle"
    BY <1>3 DEF tg_send, bus
  <2>a. PICK d \in Nat : d = Len(delivered)
    BY <1>a
  <2>2. PICK p \in 1 .. d : /\ line = delivered[p] /\ line \in UserMsgs
                            /\ \A i \in 1 .. Len(received) : Before(received[i], p)
    BY <1>a, <2>1, <2>a DEF HandInv
  <2>3. PICK n \in Nat : n = Len(received)
    BY <1>a
  <2>4. /\ DOMAIN received' = 1 .. n + 1 /\ received'[n + 1] = delivered[p]
        /\ \A i \in 1 .. n : received'[i] = received[i]
    BY <1>a, <2>1, <2>2, <2>3
  <2>5. ASSUME NEW i \in 1 .. n + 1, NEW j \in 1 .. n + 1, i < j
        PROVE  \E a, b \in 1 .. d :
                 a < b /\ delivered[a] = received'[i] /\ delivered[b] = received'[j]
                       /\ received'[i] # received'[j]
    <3>1. i \in 1 .. n
      BY <2>5
    <3>2. CASE j = n + 1
      <4>1. PICK a \in 1 .. d : a < p /\ delivered[a] = received[i]
        BY <2>2, <2>3, <2>a, <3>1 DEF Before
      <4>2. a # p
        BY <4>1
      <4>3. delivered[a] # delivered[p]
        BY <2>a, <4>2 DEF OnceInv
      <4> QED
        BY <2>4, <3>1, <3>2, <4>1, <4>3
    <3>3. CASE j \in 1 .. n
      <4>1. PICK a \in 1 .. d, b \in 1 .. d :
              a < b /\ delivered[a] = received[i] /\ delivered[b] = received[j]
                    /\ received[i] # received[j]
        BY <1>b, <2>a, <2>3, <2>5, <3>1, <3>3 DEF ReceivedOnceInOrder
      <4> QED
        BY <2>4, <3>1, <3>3, <4>1
    <3> QED
      BY <3>2, <3>3
  <2>6. DOMAIN delivered' = 1 .. d /\ DOMAIN received' = 1 .. n + 1 /\ delivered' = delivered
    BY <1>b, <2>1, <2>a, <2>4
  <2>7. \A i, j \in DOMAIN received' :
          i < j => \E a, b \in DOMAIN delivered' :
                     a < b /\ delivered'[a] = received'[i] /\ delivered'[b] = received'[j]
                           /\ received'[i] # received'[j]
    <3> SUFFICES ASSUME NEW i \in DOMAIN received', NEW j \in DOMAIN received', i < j
                 PROVE  \E a, b \in DOMAIN delivered' :
                          a < b /\ delivered'[a] = received'[i] /\ delivered'[b] = received'[j]
                                /\ received'[i] # received'[j]
      OBVIOUS
    <3>1. i \in 1 .. n + 1 /\ j \in 1 .. n + 1
      BY <2>6
    <3>2. PICK a \in 1 .. d, b \in 1 .. d :
            a < b /\ delivered[a] = received'[i] /\ delivered[b] = received'[j]
                  /\ received'[i] # received'[j]
      BY <2>5, <3>1
    <3>3. /\ a \in DOMAIN delivered' /\ b \in DOMAIN delivered'
          /\ delivered'[a] = delivered[a] /\ delivered'[b] = delivered[b]
      BY <2>6
    <3> QED
      BY <3>2, <3>3
  <2> QED
    BY <2>7 DEF ReceivedOnceInOrder
<1>4. ASSUME NEW m \in UserMsgs, UserWrite(m)
      PROVE  UNCHANGED <<delivered, received>>
  BY <1>4 DEF UserWrite, Bus!Put, Bus!Drop, server
<1> QED
  BY <1>1, <1>2, <1>3, <1>4, OutgoingSteps DEF Kill, Select, tg_send_Fails, bus, server

\* The initial state satisfies the types and the invariants.
LEMMA DaemonInit == Init => TypeOK /\ IncomingInv /\ OutgoingInv
<1> SUFFICES ASSUME Init
             PROVE  TypeOK /\ IncomingInv /\ OutgoingInv
  OBVIOUS
<1> USE BoundAssumption, BufferAssumption, UpdateIds DEF Init, Bus!Init
<1>1. TypeOK
  <2>1. /\ 0 \in 0 .. Len(UpdateKind) /\ 0 \in 0 .. 0 /\ 0 \in 0 .. 0 + 1
        /\ 0 \in 0 .. MaxCrashes /\ 0 <= BUS_QUEUE_SIZE
        /\ 0 \in 0 .. MSG_BUFF_SIZE - 1
    OBVIOUS
  <2>2. \A S : <<>> \in Seq(S) /\ Len(<<>>) = 0
    OBVIOUS
  <2> QED
    BY <2>1, <2>2 DEF TypeOK
<1>2. BatchInv /\ OffsetInv /\ LifeInv
  BY DEF BatchInv, OffsetInv, LifeInv, InjectedOncePerLife
<1>3. OnceInv /\ HandInv
  BY DEF OnceInv, HandInv
<1>4. ReceivedOnceInOrder
  BY DEF ReceivedOnceInOrder
<1> QED
  BY <1>1, <1>2, <1>3, <1>4 DEF IncomingInv, OutgoingInv

(***************************************************************************)
(* The invariants of both threads hold in every reachable state, whatever  *)
(* the kills of the daemon and the lost requests and answers.              *)
(***************************************************************************)
THEOREM DaemonInvariant == Spec => [](TypeOK /\ IncomingInv /\ OutgoingInv)
<1>1. TypeOK /\ IncomingInv /\ OutgoingInv /\ [Next]_vars
        => (TypeOK /\ IncomingInv /\ OutgoingInv)'
  BY TypeStep, BatchStep, OffsetStep, LifeStep, OnceStep, HandStep, ReceivedStep
     DEF IncomingInv, OutgoingInv
<1> QED
  BY <1>1, DaemonInit, PTL DEF Spec

(***************************************************************************)
(* The types; among them that the daemon never asks for an offset beyond   *)
(* the next update, and never leaves the injection without an update.      *)
(***************************************************************************)
THEOREM DaemonTypes == Spec => []TypeOK
  BY DaemonInvariant, PTL

(***************************************************************************)
(* No update for a mapped chat is lost: incoming_loop advances offset      *)
(* before bus_inject_message, but a kill or an uncaught exception between  *)
(* the two also ends the life of that offset. For any updates and kills.   *)
(***************************************************************************)
THEOREM DaemonConfirmedWasInjected == Spec => []ConfirmedWasInjected
<1>1. IncomingInv => ConfirmedWasInjected
  BY DEF IncomingInv, OffsetInv, Dealt, ConfirmedWasInjected
<1> QED
  BY <1>1, DaemonInvariant, PTL

(***************************************************************************)
(* Between two starts of the daemon no update is injected twice or out of  *)
(* order, however many answers of getUpdates are lost and repeated.        *)
(***************************************************************************)
THEOREM DaemonInjectedOncePerLife == Spec => []InjectedOncePerLife
<1>1. IncomingInv => InjectedOncePerLife
  BY DEF IncomingInv, LifeInv
<1> QED
  BY <1>1, DaemonInvariant, PTL

(***************************************************************************)
(* Telegram gets a user's message at most once, and the messages in the    *)
(* order of the bus: outgoing_loop takes a line off the bus before it      *)
(* sends it and never sends it again.                                      *)
(***************************************************************************)
THEOREM DaemonReceivedOnceInOrder == Spec => []ReceivedOnceInOrder
<1>1. OutgoingInv => ReceivedOnceInOrder
  BY DEF OutgoingInv
<1> QED
  BY <1>1, DaemonInvariant, PTL
=============================================================================
