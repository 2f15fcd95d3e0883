------------------------------- MODULE TgChat -------------------------------
(***************************************************************************)
(* One chat device of telegram-fs: the buffer that chat_write (chat.c) and *)
(* the IN command of bus_write (bus.c) extend and that chat_read returns,  *)
(* its mutex and its wait queue. Unlike the bus, a chat wakes its readers  *)
(* after it has released the mutex. Every reader has an open file of its   *)
(* own, so ppos is its file position.                                      *)
(***************************************************************************)
EXTENDS Integers, Sequences, FiniteSets

CONSTANTS
  Writers,           \* tasks that write to the chat or inject into it
  Readers,           \* tasks that read or poll the chat
  Local,             \* messages written through chat_write
  Remote,            \* messages injected through bus_write
  TextLen,           \* bytes of a message
  PrefixLen,         \* bytes of "[<sender>] " in front of a message
  InHeaderLen,       \* bytes of "IN|<idx>|<sender>|" in front of a message
  ChatIds,           \* Telegram chat ids that SET may bind
  ReadSizes,         \* the byte counts passed to read(2)
  MSG_BUFF_SIZE,     \* bytes of the buffer
  BUS_MESSAGE_SIZE,  \* bytes of the buffer of bus_write
  None               \* no task, no message, a NUL byte, no chat id

Messages == Local \cup Remote
Tasks == Writers \cup Readers

ASSUME TaskAssumption ==
  /\ Writers \cap Readers = {}
  /\ Local \cap Remote = {}
  /\ None \notin Tasks \cup Messages \cup ChatIds

ASSUME SizeAssumption ==
  /\ MSG_BUFF_SIZE \in Nat \ {0}
  /\ BUS_MESSAGE_SIZE \in Nat
  /\ PrefixLen \in Nat
  /\ InHeaderLen \in Nat
  /\ ReadSizes \subseteq Nat
  /\ TextLen \in [Messages -> Nat]

VARIABLES
  lock,      \* chat->lock: the task that owns the mutex
  buffer,    \* chat->buffer
  buf_len,   \* chat->buf_len
  chat_id,   \* chat->chat_id
  waitq,     \* chat->waitq: the tasks queued on it and not woken since
  ppos,      \* the position of each reader's open file
  pc,        \* where each task is
  msg,       \* the message a writer is appending
  req,       \* the arguments of a reader's call
  fresh,     \* messages not submitted yet
  got,       \* the bytes each reader has received
  enqueued   \* the messages passed to bus_enqueue_outgoing, in that order

chat == <<buffer, buf_len, chat_id>>
calls == <<msg, req>>
history == <<fresh, got, enqueued>>
vars == <<lock, chat, waitq, ppos, pc, calls, history>>

Offsets == 0 .. MSG_BUFF_SIZE - 1

\* The k-th byte of the line "[<sender>] <message>\n" of a message.
LineLen(m) == PrefixLen + TextLen[m] + 1
Byte(m, k) == [msg |-> m, at |-> k]
Line(m) == [k \in 1 .. LineLen(m) |-> Byte(m, k)]

NoReq == [size |-> 0, nonblock |-> FALSE]

Init ==
  /\ lock = None
  /\ buffer = [o \in Offsets |-> None]
  /\ buf_len = 0
  /\ chat_id = None
  /\ waitq = {}
  /\ ppos = [r \in Readers |-> 0]
  /\ pc = [t \in Tasks |-> "idle"]
  /\ msg = [w \in Writers |-> None]
  /\ req = [r \in Readers |-> NoReq]
  /\ fresh = Messages
  /\ got = [r \in Readers |-> <<>>]
  /\ enqueued = <<>>

Goto(t, label) == pc' = [pc EXCEPT ![t] = label]

mutex_lock(t, from, to) ==
  /\ pc[t] = from
  /\ lock = None
  /\ lock' = t
  /\ Goto(t, to)
  /\ UNCHANGED <<chat, waitq, ppos, calls, history>>

mutex_unlock == lock' = None

WriteReturn(w) ==
  /\ Goto(w, "idle")
  /\ msg' = [msg EXCEPT ![w] = None]

ReadReturn(r) ==
  /\ Goto(r, "idle")
  /\ req' = [req EXCEPT ![r] = NoReq]
  /\ UNCHANGED msg

(***************************************************************************)
(* chat_write, and bus_write with the command IN                           *)
(***************************************************************************)
\* The size checks at the head of chat_write and of bus_write.
Accepted(m) ==
  IF m \in Local THEN TextLen[m] < MSG_BUFF_SIZE
                 ELSE InHeaderLen + TextLen[m] < BUS_MESSAGE_SIZE

WriteCall_SendFirst(w, m) ==
  /\ pc[w] = "idle"
  /\ m \in fresh
  /\ Accepted(m)
  /\ msg' = [msg EXCEPT ![w] = m]
  /\ fresh' = fresh \ {m}
  /\ enqueued' = IF m \in Local THEN Append(enqueued, m) ELSE enqueued
  /\ Goto(w, "app_lock")
  /\ UNCHANGED <<lock, chat, waitq, ppos, req, got>>

WriteCall(w, m) ==
  /\ pc[w] = "idle"
  /\ m \in fresh
  /\ Accepted(m)
  /\ msg' = [msg EXCEPT ![w] = m]
  /\ fresh' = fresh \ {m}
  /\ Goto(w, "app_lock")
  /\ UNCHANGED <<lock, chat, waitq, ppos, req, got, enqueued>>

\* -EINVAL, before anything is changed.
WriteReject(w, m) ==
  /\ pc[w] = "idle"
  /\ m \in fresh
  /\ ~Accepted(m)
  /\ UNCHANGED vars

AppendLock(w) == mutex_lock(w, "app_lock", "app_format")

(***************************************************************************)
(* What scnprintf(buffer + buf_len, MSG_BUFF_SIZE - buf_len, ...) returns: *)
(* the bytes it stored, the final NUL not counted.                         *)
(***************************************************************************)
scnprintf_NoNul(m) ==
  IF LineLen(m) < MSG_BUFF_SIZE - buf_len + 1
  THEN LineLen(m) ELSE MSG_BUFF_SIZE - buf_len

scnprintf(m) ==
  IF LineLen(m) < MSG_BUFF_SIZE - buf_len
  THEN LineLen(m) ELSE MSG_BUFF_SIZE - buf_len - 1

AppendFormat_Overwrite(w) ==
  /\ pc[w] = "app_format"
  /\ buffer' = [o \in Offsets |->
                  IF o < LineLen(msg[w]) THEN Byte(msg[w], o + 1) ELSE buffer[o]]
  /\ Goto(w, "app_publish")
  /\ UNCHANGED <<lock, buf_len, chat_id, waitq, ppos, calls, history>>

AppendFormat(w) ==
  LET n == scnprintf(msg[w]) IN
  /\ pc[w] = "app_format"
  /\ buffer' = [o \in Offsets |->
                  IF o \in buf_len .. buf_len + n - 1
                  THEN Byte(msg[w], o - buf_len + 1)
                  ELSE IF o = buf_len + n THEN None ELSE buffer[o]]
  /\ Goto(w, "app_publish")
  /\ UNCHANGED <<lock, buf_len, chat_id, waitq, ppos, calls, history>>

AppendPublish(w) ==
  /\ pc[w] = "app_publish"
  /\ buf_len' = buf_len + scnprintf(msg[w])
  /\ mutex_unlock
  /\ Goto(w, "app_wake")
  /\ UNCHANGED <<buffer, chat_id, waitq, ppos, calls, history>>

AppendWake_Lost(w) ==
  /\ pc[w] = "app_wake"
  /\ IF msg[w] \in Local THEN Goto(w, "enqueue") /\ UNCHANGED msg
                         ELSE WriteReturn(w)
  /\ UNCHANGED <<lock, chat, waitq, ppos, req, history>>

\* bus_write returns after the wakeup, chat_write goes on.
AppendWake(w) ==
  /\ pc[w] = "app_wake"
  /\ waitq' = {}
  /\ IF msg[w] \in Local THEN Goto(w, "enqueue") /\ UNCHANGED msg
                         ELSE WriteReturn(w)
  /\ UNCHANGED <<lock, chat, ppos, req, history>>

\* bus_enqueue_outgoing is one step of its bounded FIFO: see BusFifo.
Enqueue(w) ==
  /\ pc[w] = "enqueue"
  /\ enqueued' = Append(enqueued, msg[w])
  /\ WriteReturn(w)
  /\ UNCHANGED <<lock, chat, waitq, ppos, req, fresh, got>>

\* bus_write with the command SET.
SetChatId(w, id) ==
  /\ pc[w] = "idle"
  /\ lock = None
  /\ chat_id' = id
  /\ UNCHANGED <<lock, buffer, buf_len, waitq, ppos, pc, calls, history>>

(***************************************************************************)
(* chat_read                                                               *)
(***************************************************************************)
Readable(r) == ppos[r] < buf_len

ReadCall(r, size, nonblock) ==
  /\ pc[r] = "idle"
  /\ req' = [req EXCEPT ![r] = [size |-> size, nonblock |-> nonblock]]
  /\ Goto(r, "rd_lock")
  /\ UNCHANGED <<lock, chat, waitq, ppos, msg, history>>

ReadLock(r) == mutex_lock(r, "rd_lock", "rd_check")

ReadEmpty(r) ==
  /\ pc[r] = "rd_check"
  /\ ~Readable(r)
  /\ ~req[r].nonblock
  /\ mutex_unlock
  /\ Goto(r, "wait")
  /\ UNCHANGED <<chat, waitq, ppos, calls, history>>

\* -EAGAIN, or -EFAULT when copy_to_user fails.
ReadError(r) ==
  /\ pc[r] = "rd_check"
  /\ Readable(r) \/ req[r].nonblock
  /\ mutex_unlock
  /\ ReadReturn(r)
  /\ UNCHANGED <<chat, waitq, ppos, history>>

ReadCopy(r) ==
  /\ pc[r] = "rd_check"
  /\ Readable(r)
  /\ LET n == IF req[r].size < buf_len - ppos[r]
              THEN req[r].size ELSE buf_len - ppos[r]
     IN  /\ got' = [got EXCEPT ![r] = @ \o [k \in 1 .. n |-> buffer[ppos[r] + k - 1]]]
         /\ ppos' = [ppos EXCEPT ![r] = @ + n]
  /\ mutex_unlock
  /\ ReadReturn(r)
  /\ UNCHANGED <<chat, waitq, fresh, enqueued>>

(***************************************************************************)
(* wait_event_interruptible(chat->waitq, *ppos < chat->buf_len): as in     *)
(* TgBus, the condition is read without the mutex.                         *)
(***************************************************************************)
WaitFast(r) ==
  /\ pc[r] = "wait"
  /\ Goto(r, IF Readable(r) THEN "rd_lock" ELSE "prepare")
  /\ UNCHANGED <<lock, chat, waitq, ppos, calls, history>>

prepare_to_wait(r) == waitq' = waitq \cup {r}

finish_wait(r) == waitq' = waitq \ {r}

WaitPrepare(r) ==
  /\ pc[r] = "prepare"
  /\ prepare_to_wait(r)
  /\ Goto(r, "cond")
  /\ UNCHANGED <<lock, chat, ppos, calls, history>>

WaitCond(r) ==
  /\ pc[r] = "cond"
  /\ \/ Readable(r) /\ finish_wait(r) /\ Goto(r, "rd_lock")
     \/ ~Readable(r) /\ UNCHANGED waitq /\ Goto(r, "sleep")
  /\ UNCHANGED <<lock, chat, ppos, calls, history>>

WaitWoken(r) ==
  /\ pc[r] = "sleep"
  /\ r \notin waitq
  /\ Goto(r, "prepare")
  /\ UNCHANGED <<lock, chat, waitq, ppos, calls, history>>

\* -ERESTARTSYS
WaitSignal(r) ==
  /\ pc[r] \in {"cond", "sleep"}
  /\ ~Readable(r)
  /\ finish_wait(r)
  /\ ReadReturn(r)
  /\ UNCHANGED <<lock, chat, ppos, history>>

(***************************************************************************)
(* chat_poll, inside the loop of select(2) or poll(2)                      *)
(***************************************************************************)
PollCall(r) ==
  /\ pc[r] = "idle"
  /\ prepare_to_wait(r)
  /\ Goto(r, "poll_lock")
  /\ UNCHANGED <<lock, chat, ppos, calls, history>>

PollLock(r) == mutex_lock(r, "poll_lock", "poll_check")

PollCheck(r) ==
  /\ pc[r] = "poll_check"
  /\ \/ Readable(r) /\ finish_wait(r) /\ ReadReturn(r)
     \/ ~Readable(r) /\ UNCHANGED <<waitq, calls>> /\ Goto(r, "poll_sleep")
  /\ mutex_unlock
  /\ UNCHANGED <<chat, ppos, history>>

PollWoken(r) ==
  /\ pc[r] = "poll_sleep"
  /\ r \notin waitq
  /\ prepare_to_wait(r)
  /\ Goto(r, "poll_lock")
  /\ UNCHANGED <<lock, chat, ppos, calls, history>>

PollTimeout(r) ==
  /\ pc[r] = "poll_sleep"
  /\ finish_wait(r)
  /\ ReadReturn(r)
  /\ UNCHANGED <<lock, chat, ppos, history>>

(***************************************************************************)
(* Specification, with the fairness of TgBus.                              *)
(***************************************************************************)
WriterStep(w) == AppendFormat(w) \/ AppendPublish(w) \/ AppendWake(w) \/ Enqueue(w)

ReaderStep(r) ==
  \/ ReadEmpty(r) \/ ReadError(r) \/ ReadCopy(r)
  \/ WaitFast(r) \/ WaitPrepare(r) \/ WaitCond(r) \/ WaitWoken(r)
  \/ PollCheck(r) \/ PollWoken(r)

Next ==
  \/ \E w \in Writers :
       \/ \E m \in Messages : WriteCall(w, m) \/ WriteReject(w, m)
       \/ \E id \in ChatIds : SetChatId(w, id)
       \/ AppendLock(w) \/ WriterStep(w)
  \/ \E r \in Readers :
       \/ \E size \in ReadSizes, nonblock \in BOOLEAN : ReadCall(r, size, nonblock)
       \/ ReadLock(r) \/ PollCall(r) \/ PollLock(r)
       \/ ReaderStep(r) \/ WaitSignal(r) \/ PollTimeout(r)

Fairness ==
  /\ \A w \in Writers : SF_vars(AppendLock(w)) /\ WF_vars(WriterStep(w))
  /\ \A r \in Readers : SF_vars(ReadLock(r)) /\ SF_vars(PollLock(r))
                         /\ WF_vars(ReaderStep(r))

Spec == Init /\ [][Next]_vars

FairSpec == Spec /\ Fairness
-----------------------------------------------------------------------------
(***************************************************************************)
(* Every variable has the type its C declaration gives it. The last byte   *)
(* of the buffer stays free for the NUL of scnprintf, so the size passed   *)
(* to it, MSG_BUFF_SIZE - buf_len, never reaches 0.                        *)
(***************************************************************************)
TypeOK ==
  /\ lock \in Tasks \cup {None}
  /\ \A o \in Offsets :
       buffer[o] \in [msg : Messages, at : Nat \ {0}] \cup {None}
  /\ buf_len \in Offsets
  /\ chat_id \in ChatIds \cup {None}
  /\ waitq \subseteq Readers
  /\ ppos \in [Readers -> 0 .. buf_len]
  /\ pc \in [Tasks -> {"idle", "app_lock", "app_format", "app_publish",
                       "app_wake", "enqueue", "rd_lock", "rd_check",
                       "wait", "prepare", "cond", "sleep",
                       "poll_lock", "poll_check", "poll_sleep"}]
  /\ msg \in [Writers -> Messages \cup {None}]
  /\ req \in [Readers -> [size : ReadSizes \cup {0}, nonblock : BOOLEAN]]
  /\ fresh \subseteq Messages

Asleep(r) == pc[r] \in {"sleep", "poll_sleep"} /\ r \in waitq

(***************************************************************************)
(* No wakeup is lost although chat_write and bus_write call                *)
(* wake_up_interruptible after mutex_unlock and chat_read tests buf_len    *)
(* without the mutex: a task sleeps beside unread bytes only while some    *)
(* writer is about to wake it.                                             *)
(***************************************************************************)
NoLostWakeup ==
  \A r \in Readers :
    Asleep(r) /\ Readable(r) => \E w \in Writers : pc[w] = "app_wake"

(***************************************************************************)
(* chat_write, bus_write and chat_read implement the append-only log: the  *)
(* lines of concurrent writers never mix, a line is cut only by the end of *)
(* the buffer, and each open file returns the log's bytes once, in order.  *)
(***************************************************************************)
Log == INSTANCE ChatLog WITH
         log <- [i \in 1 .. buf_len |-> buffer[i - 1]],
         Lines <- Messages, Bytes <- Line, Files <- Readers,
         Capacity <- MSG_BUFF_SIZE - 1

ImplementsLog == Log!Spec

(***************************************************************************)
(* chat_write sends what it has shown: when a message goes to the bus, its *)
(* line is whole in the chat, down to the newline, or the chat is full, in *)
(* which case the line may be cut at any place or not be there at all. So  *)
(* a reader of a chat with room never learns of a message from Telegram    *)
(* first.                                                                  *)
(***************************************************************************)
ShownBeforeSent ==
  \A i \in DOMAIN enqueued :
    \/ buf_len = MSG_BUFF_SIZE - 1
    \/ \E o \in 0 .. buf_len - 1 : buffer[o] = Byte(enqueued[i], LineLen(enqueued[i]))

(***************************************************************************)
(* No call hangs in chat_read or select while bytes are unread.            *)
(***************************************************************************)
ReadReturns ==
  \A r \in Readers : (pc[r] # "idle" /\ Readable(r)) ~> (pc[r] = "idle")
=============================================================================
