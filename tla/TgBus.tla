------------------------------- MODULE TgBus -------------------------------
(***************************************************************************)
(* The bus device of telegram-fs (kmodule/bus.c): the ring tg_bus.queue    *)
(* that chat writers fill through bus_enqueue_outgoing and that any number *)
(* of tasks drain through bus_read or watch through bus_poll, the mutex    *)
(* that guards it and the wait queue on which these tasks sleep.           *)
(*                                                                         *)
(* A task is inside at most one call; pc[t] is the point it has reached.   *)
(* The steps follow the code between two points at which another task can  *)
(* see a difference: the unlocked read of count in wait_event_interruptible*)
(* sees every single assignment to count, and copy_to_user may sleep with  *)
(* the mutex held.                                                         *)
(***************************************************************************)
EXTENDS Integers, Sequences, FiniteSets

CONSTANTS
  Writers,           \* tasks inside chat_write, which call bus_enqueue_outgoing
  Readers,           \* tasks that read or poll the bus device
  Messages,          \* messages, each submitted at most once; TLC's bound
  MsgLen,            \* bytes of a message
  BufSizes,          \* the byte counts passed to read(2)
  BUS_QUEUE_SIZE,    \* slots of the ring
  BUS_MESSAGE_SIZE,  \* bytes of a slot's payload, the final NUL included
  NoTask             \* the owner of a free mutex

Tasks == Writers \cup Readers

ASSUME TaskAssumption ==
  /\ Writers \cap Readers = {}
  /\ NoTask \notin Tasks

ASSUME SizeAssumption ==
  /\ BUS_QUEUE_SIZE \in Nat \ {0}
  /\ BUS_MESSAGE_SIZE \in Nat \ {0}
  /\ BufSizes \subseteq Nat
  /\ MsgLen \in [Messages -> Nat]

VARIABLES
  lock,       \* tg_bus.lock: the task that owns the mutex
  queue,      \* tg_bus.queue
  head,       \* tg_bus.head, the slot read next
  tail,       \* tg_bus.tail, the slot written next
  count,      \* tg_bus.count
  waitq,      \* tg_bus.waitq: the tasks queued on it and not woken since
  pc,         \* where each task is
  msg,        \* the message a writer is enqueueing
  req,        \* the arguments of a reader's call
  ubuf,       \* the payload copied to a reader's buffer
  fresh,      \* messages not submitted yet
  delivered,  \* payloads read so far, in the order of the reads
  dropped     \* messages refused by a full ring

ring == <<queue, head, tail, count>>
calls == <<msg, req, ubuf>>
history == <<fresh, delivered, dropped>>
vars == <<lock, ring, waitq, pc, calls, history>>

Slots == 0 .. BUS_QUEUE_SIZE - 1

(***************************************************************************)
(* The payload scnprintf leaves in a slot for "OUT|<idx>|<msg>\n": at most *)
(* BUS_MESSAGE_SIZE - 1 bytes, the rest (the newline first) cut off. The   *)
(* chat index is a single digit, as MAX_CHATS is 10.                       *)
(***************************************************************************)
HeaderLen == 6
LineLen(m) == HeaderLen + MsgLen[m] + 1
Payload_OneShort(m) ==
  [msg |-> m, len |-> IF LineLen(m) < BUS_MESSAGE_SIZE - 1
                      THEN LineLen(m) ELSE BUS_MESSAGE_SIZE - 2]
Payload(m) ==
  [msg |-> m, len |-> IF LineLen(m) < BUS_MESSAGE_SIZE
                      THEN LineLen(m) ELSE BUS_MESSAGE_SIZE - 1]
Payloads == [msg : Messages, len : 0 .. BUS_MESSAGE_SIZE - 1]
Empty == [msg |-> NoTask, len |-> 0]

NoReq == [size |-> 0, nonblock |-> FALSE]
Reqs == [size : BufSizes \cup {0}, nonblock : BOOLEAN]

(***************************************************************************)
(* Telegram_init leaves the ring as static storage is: all zero.           *)
(***************************************************************************)
Init ==
  /\ lock = NoTask
  /\ queue = [s \in Slots |-> Empty]
  /\ head = 0
  /\ tail = 0
  /\ count = 0
  /\ waitq = {}
  /\ pc = [t \in Tasks |-> "idle"]
  /\ msg = [w \in Writers |-> NoTask]
  /\ req = [r \in Readers |-> NoReq]
  /\ ubuf = [r \in Readers |-> Empty]
  /\ fresh = Messages
  /\ delivered = <<>>
  /\ dropped = {}

Goto(t, label) == pc' = [pc EXCEPT ![t] = label]

mutex_lock(t, from, to) ==
  /\ pc[t] = from
  /\ lock = NoTask
  /\ lock' = t
  /\ Goto(t, to)
  /\ UNCHANGED <<ring, waitq, calls, history>>

mutex_unlock == lock' = NoTask

\* The end of a call, which forgets the call's arguments.
EnqReturn(w) ==
  /\ Goto(w, "idle")
  /\ msg' = [msg EXCEPT ![w] = NoTask]
  /\ UNCHANGED <<req, ubuf>>

ReadReturn(r) ==
  /\ Goto(r, "idle")
  /\ req' = [req EXCEPT ![r] = NoReq]
  /\ ubuf' = [ubuf EXCEPT ![r] = Empty]
  /\ UNCHANGED msg

(***************************************************************************)
(* bus_enqueue_outgoing                                                    *)
(***************************************************************************)
EnqCall(w, m) ==
  /\ pc[w] = "idle"
  /\ m \in fresh
  /\ msg' = [msg EXCEPT ![w] = m]
  /\ fresh' = fresh \ {m}
  /\ Goto(w, "enq_lock")
  /\ UNCHANGED <<lock, ring, waitq, req, ubuf, delivered, dropped>>

EnqLock_Unlocked(w) ==
  /\ pc[w] = "enq_lock"
  /\ Goto(w, "enq_check")
  /\ UNCHANGED <<lock, ring, waitq, calls, history>>

EnqLock(w) == mutex_lock(w, "enq_lock", "enq_check")

EnqDrop_Spurious(w) ==
  /\ pc[w] = "enq_check"
  /\ count >= BUS_QUEUE_SIZE - 1
  /\ dropped' = dropped \cup {msg[w]}
  /\ mutex_unlock
  /\ EnqReturn(w)
  /\ UNCHANGED <<ring, waitq, fresh, delivered>>

EnqDrop(w) ==
  /\ pc[w] = "enq_check"
  /\ count >= BUS_QUEUE_SIZE
  /\ dropped' = dropped \cup {msg[w]}
  /\ mutex_unlock
  /\ EnqReturn(w)
  /\ UNCHANGED <<ring, waitq, fresh, delivered>>

EnqFill(w) ==
  /\ pc[w] = "enq_check"
  /\ count < BUS_QUEUE_SIZE
  /\ queue' = [queue EXCEPT ![tail] = Payload(msg[w])]
  /\ Goto(w, "enq_publish")
  /\ UNCHANGED <<lock, head, tail, count, waitq, calls, history>>

EnqPublish(w) ==
  /\ pc[w] = "enq_publish"
  /\ tail' = (tail + 1) % BUS_QUEUE_SIZE
  /\ count' = count + 1
  /\ Goto(w, "enq_wake")
  /\ UNCHANGED <<lock, queue, head, waitq, calls, history>>

EnqWake_Lost(w) ==
  /\ pc[w] = "enq_wake"
  /\ mutex_unlock
  /\ EnqReturn(w)
  /\ UNCHANGED <<ring, waitq, history>>

EnqWake(w) ==
  /\ pc[w] = "enq_wake"
  /\ waitq' = {}
  /\ mutex_unlock
  /\ EnqReturn(w)
  /\ UNCHANGED <<ring, history>>

(***************************************************************************)
(* bus_read                                                                *)
(***************************************************************************)
ReadCall(r, size, nonblock) ==
  /\ pc[r] = "idle"
  /\ req' = [req EXCEPT ![r] = [size |-> size, nonblock |-> nonblock]]
  /\ Goto(r, "rd_lock")
  /\ UNCHANGED <<lock, ring, waitq, msg, ubuf, history>>

ReadLock(r) == mutex_lock(r, "rd_lock", "rd_check")

\* count is 0: the mutex is released, a wait follows.
ReadEmpty(r) ==
  /\ pc[r] = "rd_check"
  /\ count = 0
  /\ ~req[r].nonblock
  /\ mutex_unlock
  /\ Goto(r, "wait")
  /\ UNCHANGED <<ring, waitq, calls, history>>

\* The calls that fail leave the message in the ring.
ReadError(r) ==
  /\ pc[r] = "rd_check"
  /\ \/ count = 0 /\ req[r].nonblock                    \* -EAGAIN
     \/ count > 0 /\ req[r].size < queue[head].len      \* -EMSGSIZE
     \/ count > 0 /\ req[r].size >= queue[head].len     \* -EFAULT: copy_to_user fails
  /\ mutex_unlock
  /\ ReadReturn(r)
  /\ UNCHANGED <<ring, waitq, history>>

ReadCopy(r) ==
  /\ pc[r] = "rd_check"
  /\ count > 0
  /\ req[r].size >= queue[head].len
  /\ ubuf' = [ubuf EXCEPT ![r] = queue[head]]
  /\ Goto(r, "rd_advance")
  /\ UNCHANGED <<lock, ring, waitq, msg, req, history>>

ReadAdvance_NoWrap(r) ==
  /\ pc[r] = "rd_advance"
  /\ head' = IF head = BUS_QUEUE_SIZE - 1 THEN head ELSE head + 1
  /\ count' = count - 1
  /\ delivered' = Append(delivered, ubuf[r])
  /\ mutex_unlock
  /\ ReadReturn(r)
  /\ UNCHANGED <<queue, tail, waitq, fresh, dropped>>

ReadAdvance(r) ==
  /\ pc[r] = "rd_advance"
  /\ head' = (head + 1) % BUS_QUEUE_SIZE
  /\ count' = count - 1
  /\ delivered' = Append(delivered, ubuf[r])
  /\ mutex_unlock
  /\ ReadReturn(r)
  /\ UNCHANGED <<queue, tail, waitq, fresh, dropped>>

(***************************************************************************)
(* wait_event_interruptible(bus->waitq, bus->count > 0), a macro of the    *)
(* kernel: a first look at count, then a loop of queueing the task, a look *)
(* at count and schedule(), which returns once a waker has taken the task  *)
(* off the queue or a signal is pending. The last look at count prevails   *)
(* over the signal.                                                        *)
(***************************************************************************)
WaitFast(r) ==
  /\ pc[r] = "wait"
  /\ Goto(r, IF count > 0 THEN "rd_lock" ELSE "prepare")
  /\ UNCHANGED <<lock, ring, waitq, calls, history>>

prepare_to_wait(r) == waitq' = waitq \cup {r}

finish_wait(r) == waitq' = waitq \ {r}

WaitPrepare(r) ==
  /\ pc[r] = "prepare"
  /\ prepare_to_wait(r)
  /\ Goto(r, "cond")
  /\ UNCHANGED <<lock, ring, calls, history>>

WaitCond(r) ==
  /\ pc[r] = "cond"
  /\ \/ count > 0 /\ finish_wait(r) /\ Goto(r, "rd_lock")
     \/ count = 0 /\ UNCHANGED waitq /\ Goto(r, "sleep")
  /\ UNCHANGED <<lock, ring, calls, history>>

WaitWoken(r) ==
  /\ pc[r] = "sleep"
  /\ r \notin waitq
  /\ Goto(r, "prepare")
  /\ UNCHANGED <<lock, ring, waitq, calls, history>>

\* A signal is pending and count is still 0: -ERESTARTSYS.
WaitSignal(r) ==
  /\ pc[r] \in {"cond", "sleep"}
  /\ count = 0
  /\ finish_wait(r)
  /\ ReadReturn(r)
  /\ UNCHANGED <<lock, ring, history>>

(***************************************************************************)
(* bus_poll, inside the loop of select(2) or poll(2): poll_wait queues the *)
(* task before bus_poll looks at count, and a task that finds no message   *)
(* sleeps until it is woken, and then looks again, or times out.           *)
(***************************************************************************)
PollCall(r) ==
  /\ pc[r] = "idle"
  /\ prepare_to_wait(r)
  /\ Goto(r, "poll_lock")
  /\ UNCHANGED <<lock, ring, calls, history>>

PollLock(r) == mutex_lock(r, "poll_lock", "poll_check")

PollCheck(r) ==
  /\ pc[r] = "poll_check"
  /\ \/ count > 0 /\ finish_wait(r) /\ ReadReturn(r)    \* EPOLLIN
     \/ count = 0 /\ UNCHANGED <<waitq, calls>> /\ Goto(r, "poll_sleep")
  /\ mutex_unlock
  /\ UNCHANGED <<ring, history>>

PollWoken(r) ==
  /\ pc[r] = "poll_sleep"
  /\ r \notin waitq
  /\ prepare_to_wait(r)
  /\ Goto(r, "poll_lock")
  /\ UNCHANGED <<lock, ring, calls, history>>

PollTimeout(r) ==
  /\ pc[r] = "poll_sleep"
  /\ finish_wait(r)
  /\ ReadReturn(r)
  /\ UNCHANGED <<lock, ring, history>>

(***************************************************************************)
(* Specification. A task inside a call keeps running; whether a task calls *)
(* at all, or gets a signal, is up to its program. The kernel's mutex hands*)
(* over to a waiter that has waited long, hence strong fairness of locking.*)
(***************************************************************************)
WriterStep(w) == EnqDrop(w) \/ EnqFill(w) \/ EnqPublish(w) \/ EnqWake(w)

ReaderStep(r) ==
  \/ ReadEmpty(r) \/ ReadError(r) \/ ReadCopy(r) \/ ReadAdvance(r)
  \/ WaitFast(r) \/ WaitPrepare(r) \/ WaitCond(r) \/ WaitWoken(r)
  \/ PollCheck(r) \/ PollWoken(r)

Next ==
  \/ \E w \in Writers :
       (\E m \in Messages : EnqCall(w, m)) \/ EnqLock(w) \/ WriterStep(w)
  \/ \E r \in Readers :
       \/ \E size \in BufSizes, nonblock \in BOOLEAN : ReadCall(r, size, nonblock)
       \/ ReadLock(r) \/ PollCall(r) \/ PollLock(r)
       \/ ReaderStep(r) \/ WaitSignal(r) \/ PollTimeout(r)

Fairness ==
  /\ \A w \in Writers : SF_vars(EnqLock(w)) /\ WF_vars(WriterStep(w))
  /\ \A r \in Readers : SF_vars(ReadLock(r)) /\ SF_vars(PollLock(r))
                         /\ WF_vars(ReaderStep(r))

Spec == Init /\ [][Next]_vars

FairSpec == Spec /\ Fairness
-----------------------------------------------------------------------------
(***************************************************************************)
(* Every variable has the type its C declaration gives it.                 *)
(***************************************************************************)
TypeOK ==
  /\ lock \in Tasks \cup {NoTask}
  /\ queue \in [Slots -> Payloads \cup {Empty}]
  /\ head \in Slots
  /\ tail \in Slots
  /\ count \in 0 .. BUS_QUEUE_SIZE
  /\ waitq \subseteq Readers
  /\ pc \in [Tasks -> {"idle", "enq_lock", "enq_check", "enq_publish",
                       "enq_wake", "rd_lock", "rd_check", "rd_advance",
                       "wait", "prepare", "cond", "sleep",
                       "poll_lock", "poll_check", "poll_sleep"}]
  /\ msg \in [Writers -> Messages \cup {NoTask}]
  /\ req \in [Readers -> Reqs]
  /\ ubuf \in [Readers -> Payloads \cup {Empty}]
  /\ fresh \subseteq Messages
  /\ delivered \in Seq(Payloads)
  /\ dropped \subseteq Messages

Asleep(r) == pc[r] \in {"sleep", "poll_sleep"} /\ r \in waitq

(***************************************************************************)
(* No wakeup is lost between the look at count and schedule(), although    *)
(* bus_read looks without the mutex: a task sleeps in bus_read or select   *)
(* beside a non-empty ring only while the writer that filled it is about   *)
(* to call wake_up_interruptible.                                          *)
(***************************************************************************)
NoLostWakeup ==
  \A r \in Readers :
    Asleep(r) /\ count > 0 => \E w \in Writers : pc[w] = "enq_wake"

(***************************************************************************)
(* The state of the ring at every point of every interleaving. Its parts:  *)
(*   - the mutex is owned by the only task in a critical section;          *)
(*   - tail is count slots ahead of head, and the slots between them hold  *)
(*     messages (bus.c keeps all three counters, and none is checked);     *)
(*   - between filling a slot and publishing it there is room, and no task *)
(*     overwrites the slot;                                                *)
(*   - between copying a message out and advancing head, the message is    *)
(*     still the oldest of the ring.                                       *)
(***************************************************************************)
\* The slot i places after head.
Slot(i) == (head + i) % BUS_QUEUE_SIZE

InCritical(t) ==
  pc[t] \in {"enq_check", "enq_publish", "enq_wake",
            "rd_check", "rd_advance", "poll_check"}

LockInv == \A t \in Tasks : InCritical(t) <=> lock = t

RingInv ==
  /\ tail = Slot(count)
  /\ \A i \in 0 .. count - 1 : queue[Slot(i)] \in Payloads

FillInv ==
  \A w \in Writers :
    /\ pc[w] # "idle" => msg[w] \in Messages
    /\ pc[w] = "enq_publish" =>
         count < BUS_QUEUE_SIZE /\ queue[tail] = Payload(msg[w])

CopyInv ==
  \A r \in Readers :
    pc[r] = "rd_advance" => count > 0 /\ ubuf[r] = queue[head]

BusInv == LockInv /\ RingInv /\ FillInv /\ CopyInv

(***************************************************************************)
(* The lines in the ring, oldest first, and the bounded FIFO they form:    *)
(* bus_enqueue_outgoing and bus_read implement BusFifo.                    *)
(***************************************************************************)
Contents == [i \in 1 .. count |-> queue[Slot(i - 1)]]

Fifo == INSTANCE BusFifo WITH
          fifo <- Contents, Offers <- Messages, Line <- Payload,
          Capacity <- BUS_QUEUE_SIZE

ImplementsFifo == Fifo!Spec

(***************************************************************************)
(* No call hangs in bus_read or select while messages are available: it    *)
(* returns, with a message or an error, unless others drain the ring.      *)
(***************************************************************************)
ReadReturns ==
  \A r \in Readers : (pc[r] # "idle" /\ count > 0) ~> (pc[r] = "idle" \/ count = 0)

(***************************************************************************)
(* A line that fits a slot with its final NUL reaches the reader whole,    *)
(* newline included, as the daemon's line-by-line reader expects: a read   *)
(* loses bytes of no message but one that bus_enqueue_outgoing has cut.    *)
(***************************************************************************)
FittingLinesWhole ==
  \A i \in DOMAIN delivered :
    LineLen(delivered[i].msg) < BUS_MESSAGE_SIZE =>
      delivered[i].len = LineLen(delivered[i].msg)
=============================================================================
