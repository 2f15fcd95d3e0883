---------------------------- MODULE TgBusProofs ----------------------------
(***************************************************************************)
(* Proofs about TgBus, for any number of writers, readers and messages and *)
(* any size of the ring and of its slots.                                  *)
(***************************************************************************)
EXTENDS TgBus, SequenceTheorems, TLAPS

(***************************************************************************)
(* Every action of a writer or a reader, named once for the case splits of *)
(* the proofs below.                                                       *)
(***************************************************************************)
LEMMA NextCases ==
  ASSUME Next
  PROVE  \/ \E w \in Writers, m \in Messages : EnqCall(w, m)
         \/ \E w \in Writers : EnqLock(w) \/ EnqDrop(w) \/ EnqFill(w)
                                 \/ EnqPublish(w) \/ EnqWake(w)
         \/ \E r \in Readers, size \in BufSizes, nonblock \in BOOLEAN :
              ReadCall(r, size, nonblock)
         \/ \E r \in Readers :
              \/ ReadLock(r) \/ ReadEmpty(r) \/ ReadError(r)
              \/ ReadCopy(r) \/ ReadAdvance(r)
              \/ WaitFast(r) \/ WaitPrepare(r) \/ WaitCond(r) \/ WaitWoken(r)
              \/ WaitSignal(r) \/ PollCall(r) \/ PollLock(r) \/ PollCheck(r)
              \/ PollWoken(r) \/ PollTimeout(r)
  BY DEF Next, WriterStep, ReaderStep

(***************************************************************************)
(* Index arithmetic of the ring: one step past the last slot is slot 0.    *)
(***************************************************************************)
LEMMA Wrap ==
  ASSUME NEW Q \in Nat \ {0}, NEW a \in 0 .. Q - 1, NEW b \in 0 .. Q
  PROVE  (a + b) % Q = IF a + b < Q THEN a + b ELSE a + b - Q
  OBVIOUS

\* Stepping one slot and then i slots wraps as one step of i + 1 does.
LEMMA WrapTwice ==
  ASSUME NEW Q \in Nat \ {0}, NEW a \in 0 .. Q - 1, NEW b \in 0 .. Q - 1
  PROVE  /\ (((a + 1) % Q) + b) % Q = (a + (b + 1)) % Q
         /\ (((a + b) % Q) + 1) % Q = (a + (b + 1)) % Q
<1>1. (a + (b + 1)) % Q = IF a + (b + 1) < Q THEN a + (b + 1) ELSE a + (b + 1) - Q
  OBVIOUS
<1>2. (a + 1) % Q = (IF a + 1 < Q THEN a + 1 ELSE 0)
  OBVIOUS
<1>3. (a + b) % Q = IF a + b < Q THEN a + b ELSE a + b - Q
  OBVIOUS
<1>4. PICK c \in 0 .. Q - 1 : c = (a + 1) % Q
  BY <1>2
<1>5. (c + b) % Q = IF c + b < Q THEN c + b ELSE c + b - Q
  OBVIOUS
<1>6. PICK d \in 0 .. Q - 1 : d = (a + b) % Q
  BY <1>3
<1>7. (d + 1) % Q = IF d + 1 < Q THEN d + 1 ELSE d + 1 - Q
  OBVIOUS
<1>8. (c + b) % Q = (a + (b + 1)) % Q
  BY <1>1, <1>2, <1>4, <1>5
<1>9. (d + 1) % Q = (a + (b + 1)) % Q
  BY <1>1, <1>3, <1>6, <1>7
<1> QED
  BY <1>4, <1>6, <1>8, <1>9

\* The slot i places after head is a slot, and its number in closed form.
LEMMA SlotOf ==
  ASSUME TypeOK
  PROVE  /\ Slot(0) = head
         /\ \A i \in 0 .. BUS_QUEUE_SIZE :
              /\ Slot(i) \in Slots
              /\ Slot(i) = IF head + i < BUS_QUEUE_SIZE
                           THEN head + i ELSE head + i - BUS_QUEUE_SIZE
<1>1. head \in 0 .. BUS_QUEUE_SIZE - 1 /\ BUS_QUEUE_SIZE \in Nat \ {0}
  BY SizeAssumption DEF TypeOK, Slots
<1>2. \A i \in 0 .. BUS_QUEUE_SIZE :
         Slot(i) = IF head + i < BUS_QUEUE_SIZE
                   THEN head + i ELSE head + i - BUS_QUEUE_SIZE
  BY <1>1, Wrap DEF Slot
<1> QED
  BY <1>1, <1>2 DEF Slots

\* What scnprintf leaves in a slot is a payload: it never exceeds the slot.
LEMMA PayloadType == \A m \in Messages : Payload(m) \in Payloads
  BY SizeAssumption DEF Payload, Payloads, LineLen, HeaderLen

(***************************************************************************)
(* Types. The bounds of count come from FillInv (room for the message that *)
(* is published) and CopyInv (a message to take).                          *)
(***************************************************************************)
LEMMA TypeStep == TypeOK /\ BusInv /\ [Next]_vars => TypeOK'
<1> SUFFICES ASSUME TypeOK, BusInv, [Next]_vars
             PROVE  TypeOK'
  OBVIOUS
<1>a. ASSUME NEW r \in Readers, ReadReturn(r)
      PROVE  /\ pc' = [pc EXCEPT ![r] = "idle"]
             /\ msg' = msg
             /\ req' \in [Readers -> Reqs]
             /\ ubuf' \in [Readers -> Payloads \cup {Empty}]
  BY <1>a, NoReq \in Reqs DEF ReadReturn, Goto, TypeOK, NoReq, Reqs
<1> USE SizeAssumption DEF TypeOK, Tasks, Slots, Goto, mutex_unlock, mutex_lock,
      EnqReturn, prepare_to_wait, finish_wait, ring, calls, history
<1>1. CASE UNCHANGED vars
  BY <1>1 DEF vars
<1>2. ASSUME NEW w \in Writers, NEW m \in Messages, EnqCall(w, m)
      PROVE  TypeOK'
  BY <1>2 DEF EnqCall
<1>3. ASSUME NEW w \in Writers, EnqLock(w)
      PROVE  TypeOK'
  BY <1>3 DEF EnqLock
<1>4. ASSUME NEW w \in Writers, EnqDrop(w)
      PROVE  TypeOK'
  BY <1>4 DEF EnqDrop, BusInv, FillInv
<1>5. ASSUME NEW w \in Writers, EnqFill(w)
      PROVE  TypeOK'
  BY <1>5, PayloadType DEF EnqFill, BusInv, FillInv
<1>6. ASSUME NEW w \in Writers, EnqPublish(w)
      PROVE  TypeOK'
  BY <1>6 DEF EnqPublish, BusInv, FillInv
<1>7. ASSUME NEW w \in Writers, EnqWake(w)
      PROVE  TypeOK'
  BY <1>7 DEF EnqWake
<1>8. ASSUME NEW r \in Readers, NEW size \in BufSizes, NEW nonblock \in BOOLEAN,
             ReadCall(r, size, nonblock)
      PROVE  TypeOK'
  BY <1>8 DEF ReadCall, Reqs
<1>9. ASSUME NEW r \in Readers,
             ReadLock(r) \/ ReadEmpty(r) \/ WaitFast(r) \/ WaitPrepare(r)
               \/ WaitCond(r) \/ WaitWoken(r)
      PROVE  TypeOK'
  BY <1>9 DEF ReadLock, ReadEmpty, WaitFast, WaitPrepare, WaitCond, WaitWoken
<1>10. ASSUME NEW r \in Readers, ReadError(r) \/ WaitSignal(r)
       PROVE  TypeOK'
  BY <1>10, <1>a DEF ReadError, WaitSignal
<1>11. ASSUME NEW r \in Readers, ReadCopy(r)
       PROVE  TypeOK'
  BY <1>11 DEF ReadCopy
<1>12. ASSUME NEW r \in Readers, ReadAdvance(r)
       PROVE  TypeOK'
  <2>0. ubuf[r] = queue[head] /\ count > 0
    BY <1>12 DEF ReadAdvance, BusInv, CopyInv
  <2>1. queue[Slot(0)] \in Payloads
    BY <2>0 DEF BusInv, RingInv
  <2>2. delivered' \in Seq(Payloads)
    BY <1>12, <2>0, <2>1, SlotOf DEF ReadAdvance
  <2> QED
    BY <1>12, <1>a, <2>0, <2>2 DEF ReadAdvance
<1>13. ASSUME NEW r \in Readers,
              PollCall(r) \/ PollLock(r) \/ PollWoken(r)
       PROVE  TypeOK'
  BY <1>13 DEF PollCall, PollLock, PollWoken
<1>14. ASSUME NEW r \in Readers, PollCheck(r) \/ PollTimeout(r)
       PROVE  TypeOK'
  BY <1>14, <1>a DEF PollCheck, PollTimeout
<1> HIDE DEF TypeOK
<1> QED
  BY <1>1, <1>2, <1>3, <1>4, <1>5, <1>6, <1>7, <1>8, <1>9, <1>10, <1>11, <1>12,
     <1>13, <1>14, NextCases

(***************************************************************************)
(* Mutual exclusion. A task enters a critical section by taking the free   *)
(* mutex and leaves it by releasing the mutex.                             *)
(***************************************************************************)
LEMMA LockStep == TypeOK /\ LockInv /\ [Next]_vars => LockInv'
<1> SUFFICES ASSUME TypeOK, LockInv, [Next]_vars
             PROVE  LockInv'
  OBVIOUS
<1> USE TaskAssumption DEF TypeOK, LockInv, InCritical, Tasks, Goto, mutex_unlock,
      EnqReturn, ReadReturn
<1>1. CASE UNCHANGED vars
  BY <1>1 DEF vars
<1>2. ASSUME NEW w \in Writers, NEW m \in Messages, EnqCall(w, m)
      PROVE  LockInv'
  BY <1>2 DEF EnqCall
<1>3. ASSUME NEW w \in Writers,
             EnqLock(w) \/ EnqDrop(w) \/ EnqFill(w) \/ EnqPublish(w) \/ EnqWake(w)
      PROVE  LockInv'
  BY <1>3 DEF EnqLock, mutex_lock, EnqDrop, EnqFill, EnqPublish, EnqWake
<1>4. ASSUME NEW r \in Readers, NEW size \in BufSizes, NEW nonblock \in BOOLEAN,
             ReadCall(r, size, nonblock)
      PROVE  LockInv'
  BY <1>4 DEF ReadCall
<1>5. ASSUME NEW r \in Readers,
             ReadLock(r) \/ ReadEmpty(r) \/ ReadError(r) \/ ReadCopy(r) \/ ReadAdvance(r)
      PROVE  LockInv'
  BY <1>5 DEF ReadLock, mutex_lock, ReadEmpty, ReadError, ReadCopy, ReadAdvance
<1>6. ASSUME NEW r \in Readers,
             WaitFast(r) \/ WaitPrepare(r) \/ WaitCond(r) \/ WaitWoken(r) \/ WaitSignal(r)
      PROVE  LockInv'
  BY <1>6 DEF WaitFast, WaitPrepare, WaitCond, WaitWoken, WaitSignal
<1>7. ASSUME NEW r \in Readers,
             PollCall(r) \/ PollLock(r) \/ PollCheck(r) \/ PollWoken(r) \/ PollTimeout(r)
      PROVE  LockInv'
  BY <1>7 DEF PollCall, PollLock, mutex_lock, PollCheck, PollWoken, PollTimeout
<1> QED
  BY <1>1, <1>2, <1>3, <1>4, <1>5, <1>6, <1>7, NextCases

(***************************************************************************)
(* Only three actions touch the ring; the others leave its parts, and what *)
(* the invariants say about them, alone.                                   *)
(***************************************************************************)
LEMMA RingSteps ==
  ASSUME [Next]_vars
  PROVE  \/ \E w \in Writers : EnqFill(w) \/ EnqPublish(w)
         \/ \E r \in Readers : ReadAdvance(r)
         \/ UNCHANGED ring
<1> USE DEF ring
<1>1. CASE UNCHANGED vars
  BY <1>1 DEF vars
<1>2. CASE Next
  BY <1>2, NextCases DEF EnqCall, EnqLock, mutex_lock, EnqDrop, EnqWake, ReadCall,
     ReadLock, ReadEmpty, ReadError, ReadCopy, WaitFast, WaitPrepare, WaitCond,
     WaitWoken, WaitSignal, PollCall, PollLock, PollCheck, PollWoken, PollTimeout
<1> QED
  BY <1>1, <1>2

\* Advancing tail moves it to the slot after the last one used.
LEMMA TailStep ==
  ASSUME TypeOK, NEW w \in Writers, EnqPublish(w),
         count < BUS_QUEUE_SIZE, tail = Slot(count)
  PROVE  tail' = Slot(count + 1)
<1>1. /\ head \in 0 .. BUS_QUEUE_SIZE - 1
      /\ BUS_QUEUE_SIZE \in Nat \ {0}
      /\ count \in 0 .. BUS_QUEUE_SIZE - 1
  BY SizeAssumption DEF TypeOK, Slots
<1>2. tail' = (((head + count) % BUS_QUEUE_SIZE) + 1) % BUS_QUEUE_SIZE
  BY DEF EnqPublish, Slot
<1> QED
  BY <1>1, <1>2, WrapTwice DEF Slot

\* Advancing head shifts every slot of the ring by one place.
LEMMA HeadStep ==
  ASSUME TypeOK, NEW r \in Readers, ReadAdvance(r)
  PROVE  \A i \in 0 .. count - 1 : Slot(i)' = Slot(i + 1)
<1>1. /\ head \in 0 .. BUS_QUEUE_SIZE - 1
      /\ BUS_QUEUE_SIZE \in Nat \ {0}
      /\ count \in 0 .. BUS_QUEUE_SIZE
  BY SizeAssumption DEF TypeOK, Slots
<1>2. head' = (head + 1) % BUS_QUEUE_SIZE
  BY DEF ReadAdvance
<1> QED
  BY <1>1, <1>2, WrapTwice DEF Slot

\* No step breaks RingInv: only EnqFill, EnqPublish and ReadAdvance write the
\* ring, and FillInv says what EnqPublish adds to it.
LEMMA RingStep == TypeOK /\ TypeOK' /\ BusInv /\ [Next]_vars => RingInv'
<1> SUFFICES ASSUME TypeOK, TypeOK', BusInv, [Next]_vars
             PROVE  RingInv'
  OBVIOUS
<1> USE SizeAssumption DEF TypeOK, Slots, BusInv
<1>1. CASE UNCHANGED ring
  BY <1>1 DEF ring, RingInv, Slot
<1>2. ASSUME NEW w \in Writers, EnqFill(w)
      PROVE  RingInv'
  <2>1. Payload(msg[w]) \in Payloads
    BY <1>2, PayloadType DEF EnqFill, FillInv
  <2>2. tail' = Slot(count)'
    BY <1>2 DEF EnqFill, RingInv, Slot
  <2>3. ASSUME NEW i \in 0 .. count' - 1
        PROVE  queue'[Slot(i)'] \in Payloads
    <3>1. Slot(i)' = Slot(i) /\ i \in 0 .. count - 1
      BY <1>2 DEF EnqFill, Slot
    <3> QED
      BY <1>2, <2>1, <3>1, SlotOf DEF EnqFill, RingInv
  <2> QED
    BY <2>2, <2>3 DEF RingInv
<1>3. ASSUME NEW w \in Writers, EnqPublish(w)
      PROVE  RingInv'
  <2>1. /\ count < BUS_QUEUE_SIZE
        /\ queue[tail] = Payload(msg[w])
        /\ msg[w] \in Messages
        /\ tail = Slot(count)
    BY <1>3 DEF EnqPublish, FillInv, RingInv
  <2>2. tail' = Slot(count + 1)
    BY <1>3, <2>1, TailStep
  <2>3. ASSUME NEW i \in 0 .. count
        PROVE  queue[Slot(i)] \in Payloads
    <3>1. CASE i = count
      BY <2>1, <3>1, PayloadType
    <3>2. CASE i # count
      BY <3>2 DEF RingInv
    <3> QED
      BY <3>1, <3>2
  <2>4. \A i : Slot(i)' = Slot(i)
    BY <1>3 DEF EnqPublish, Slot
  <2> QED
    BY <1>3, <2>2, <2>3, <2>4, SMTT(40) DEF EnqPublish, RingInv
<1>4. ASSUME NEW r \in Readers, ReadAdvance(r)
      PROVE  RingInv'
  <2>1. count > 0
    BY <1>4 DEF ReadAdvance, CopyInv
  <2>2. \A i \in 0 .. count - 1 : Slot(i)' = Slot(i + 1)
    BY <1>4, <2>1, HeadStep
  <2> QED
    BY <1>4, <2>1, <2>2 DEF ReadAdvance, RingInv
<1> QED
  BY <1>1, <1>2, <1>3, <1>4, RingSteps

(***************************************************************************)
(* A slot that is being filled, or a message that is being taken, is safe: *)
(* the other tasks wait for the mutex.                                     *)
(***************************************************************************)
LEMMA FillStep == TypeOK /\ BusInv /\ [Next]_vars => FillInv'
<1> SUFFICES ASSUME TypeOK, BusInv, [Next]_vars, NEW w \in Writers
             PROVE  /\ pc'[w] # "idle" => msg'[w] \in Messages
                    /\ pc'[w] = "enq_publish" =>
                         /\ count' < BUS_QUEUE_SIZE
                         /\ queue'[tail'] = Payload(msg'[w])
  BY DEF FillInv
<1> USE TaskAssumption DEF TypeOK, Tasks, Goto, EnqReturn, ReadReturn, ring, calls
<1> DEFINE Safe == /\ pc'[w] # "idle" => msg'[w] \in Messages
                   /\ pc'[w] = "enq_publish" =>
                        /\ count' < BUS_QUEUE_SIZE
                        /\ queue'[tail'] = Payload(msg'[w])
<1>a. /\ pc[w] # "idle" => msg[w] \in Messages
      /\ pc[w] = "enq_publish" =>
           count < BUS_QUEUE_SIZE /\ queue[tail] = Payload(msg[w])
  BY DEF BusInv, FillInv
<1>b. \A t \in Tasks : InCritical(t) /\ InCritical(w) => t = w
  BY DEF BusInv, LockInv
<1>1. CASE UNCHANGED vars
  BY <1>1, <1>a DEF vars
<1>2. ASSUME NEW v \in Writers, NEW m \in Messages, EnqCall(v, m)
      PROVE  Safe
  BY <1>2, <1>a DEF EnqCall
<1>3. ASSUME NEW v \in Writers, EnqLock(v) \/ EnqDrop(v) \/ EnqWake(v)
      PROVE  Safe
  BY <1>3, <1>a DEF EnqLock, mutex_lock, EnqDrop, EnqWake
<1>4. ASSUME NEW v \in Writers, EnqFill(v)
      PROVE  Safe
  BY <1>4, <1>a, <1>b DEF EnqFill, InCritical
<1>5. ASSUME NEW v \in Writers, EnqPublish(v)
      PROVE  Safe
  BY <1>5, <1>a, <1>b DEF EnqPublish, InCritical
<1>6. ASSUME NEW r \in Readers, NEW size \in BufSizes, NEW nonblock \in BOOLEAN,
             ReadCall(r, size, nonblock)
      PROVE  Safe
  BY <1>6, <1>a DEF ReadCall
<1>7. ASSUME NEW r \in Readers,
             ReadLock(r) \/ ReadEmpty(r) \/ ReadError(r) \/ ReadCopy(r)
      PROVE  Safe
  BY <1>7, <1>a DEF ReadLock, mutex_lock, ReadEmpty, ReadError, ReadCopy
<1>8. ASSUME NEW r \in Readers, ReadAdvance(r)
      PROVE  Safe
  BY <1>8, <1>a, <1>b DEF ReadAdvance, InCritical
<1>9. ASSUME NEW r \in Readers,
             WaitFast(r) \/ WaitPrepare(r) \/ WaitCond(r) \/ WaitWoken(r) \/ WaitSignal(r)
      PROVE  Safe
  BY <1>9, <1>a DEF WaitFast, WaitPrepare, WaitCond, WaitWoken, WaitSignal
<1>10. ASSUME NEW r \in Readers,
              PollCall(r) \/ PollLock(r) \/ PollCheck(r) \/ PollWoken(r) \/ PollTimeout(r)
       PROVE  Safe
  BY <1>10, <1>a DEF PollCall, PollLock, mutex_lock, PollCheck, PollWoken, PollTimeout
<1> HIDE DEF Safe
<1>11. Safe
  BY <1>1, <1>2, <1>3, <1>4, <1>5, <1>6, <1>7, <1>8, <1>9, <1>10, NextCases DEF Safe
<1> QED
  BY <1>11 DEF Safe

\* No step breaks CopyInv: while a reader is between the copy and the advance
\* it owns the mutex, so nobody else moves head or fills the slot.
LEMMA CopyStep == TypeOK /\ BusInv /\ [Next]_vars => CopyInv'
<1> SUFFICES ASSUME TypeOK, BusInv, [Next]_vars, NEW r \in Readers,
                    pc'[r] = "rd_advance"
             PROVE  count' > 0 /\ ubuf'[r] = queue'[head']
  BY DEF CopyInv
<1> USE TaskAssumption DEF TypeOK, Tasks, Goto, EnqReturn, ReadReturn, ring, calls
<1> DEFINE Safe == count' > 0 /\ ubuf'[r] = queue'[head']
<1>a. pc[r] = "rd_advance" => count > 0 /\ ubuf[r] = queue[head]
  BY DEF BusInv, CopyInv
<1>b. \A t \in Tasks : InCritical(t) /\ InCritical(r) => t = r
  BY DEF BusInv, LockInv
<1>1. CASE UNCHANGED vars
  BY <1>1, <1>a DEF vars
<1>2. ASSUME NEW w \in Writers, NEW m \in Messages, EnqCall(w, m)
      PROVE  Safe
  BY <1>2, <1>a DEF EnqCall
<1>3. ASSUME NEW w \in Writers, EnqLock(w) \/ EnqDrop(w) \/ EnqWake(w)
      PROVE  Safe
  BY <1>3, <1>a DEF EnqLock, mutex_lock, EnqDrop, EnqWake
<1>4. ASSUME NEW w \in Writers, EnqFill(w) \/ EnqPublish(w)
      PROVE  Safe
  BY <1>4, <1>a, <1>b DEF EnqFill, EnqPublish, InCritical
<1>5. ASSUME NEW q \in Readers, NEW size \in BufSizes, NEW nonblock \in BOOLEAN,
             ReadCall(q, size, nonblock)
      PROVE  Safe
  BY <1>5, <1>a DEF ReadCall
<1>6. ASSUME NEW q \in Readers,
             ReadLock(q) \/ ReadEmpty(q) \/ ReadError(q) \/ ReadCopy(q)
      PROVE  Safe
  BY <1>6, <1>a DEF ReadLock, mutex_lock, ReadEmpty, ReadError, ReadCopy
<1>7. ASSUME NEW q \in Readers, ReadAdvance(q)
      PROVE  Safe
  BY <1>7, <1>a, <1>b DEF ReadAdvance, InCritical
<1>8. ASSUME NEW q \in Readers,
             WaitFast(q) \/ WaitPrepare(q) \/ WaitCond(q) \/ WaitWoken(q) \/ WaitSignal(q)
      PROVE  Safe
  BY <1>8, <1>a DEF WaitFast, WaitPrepare, WaitCond, WaitWoken, WaitSignal
<1>9. ASSUME NEW q \in Readers,
             PollCall(q) \/ PollLock(q) \/ PollCheck(q) \/ PollWoken(q) \/ PollTimeout(q)
      PROVE  Safe
  BY <1>9, <1>a DEF PollCall, PollLock, mutex_lock, PollCheck, PollWoken, PollTimeout
<1> HIDE DEF Safe
<1>10. Safe
  BY <1>1, <1>2, <1>3, <1>4, <1>5, <1>6, <1>7, <1>8, <1>9, NextCases DEF Safe
<1> QED
  BY <1>10 DEF Safe

\* The zeroed ring of telegram_init satisfies every invariant.
LEMMA BusInit == Init => TypeOK /\ BusInv /\ NoLostWakeup
<1> SUFFICES ASSUME Init
             PROVE  TypeOK /\ BusInv /\ NoLostWakeup
  OBVIOUS
<1> USE SizeAssumption, TaskAssumption DEF Init
<1>1. TypeOK
  BY NoReq \in Reqs DEF TypeOK, Slots, Tasks, Reqs, NoReq
<1>2. LockInv /\ FillInv /\ CopyInv
  BY DEF LockInv, FillInv, CopyInv, InCritical, Tasks
<1>3. RingInv
  BY <1>1, SlotOf DEF RingInv
<1>4. NoLostWakeup
  BY DEF NoLostWakeup, Asleep, Tasks
<1> QED
  BY <1>1, <1>2, <1>3, <1>4 DEF BusInv

(***************************************************************************)
(* The state of bus.c is well typed and the ring is consistent in every    *)
(* interleaving of bus_enqueue_outgoing, bus_read and bus_poll: the mutex  *)
(* excludes, head, tail and count agree and stay in bounds although the    *)
(* code checks only two of the three, and a slot is neither overwritten    *)
(* before it is read nor read before it is filled.                         *)
(***************************************************************************)
THEOREM BusInvariant == Spec => [](TypeOK /\ BusInv)
<1>1. Init => TypeOK /\ BusInv
  BY BusInit
<1>2. TypeOK /\ BusInv /\ [Next]_vars => (TypeOK /\ BusInv)'
  BY TypeStep, LockStep, RingStep, FillStep, CopyStep DEF BusInv
<1> QED
  BY <1>1, <1>2, PTL DEF Spec

(***************************************************************************)
(* TypeOK by itself, as the model-checking runs state it.                  *)
(***************************************************************************)
THEOREM BusTypes == Spec => []TypeOK
  BY BusInvariant, PTL

(***************************************************************************)
(* No lost wakeup: bus_read tests count without the mutex and a poller     *)
(* sleeps outside it, yet a task that sleeps while count is positive is    *)
(* about to be woken. The step that could break this is EnqPublish, which  *)
(* makes count positive with its own wake_up still to come, and the tests  *)
(* of count that precede a sleep, which follow the queueing on waitq.      *)
(***************************************************************************)
LEMMA WakeStep == TypeOK /\ NoLostWakeup /\ [Next]_vars => NoLostWakeup'
<1> SUFFICES ASSUME TypeOK, NoLostWakeup, [Next]_vars, NEW r \in Readers,
                    Asleep(r)', count' > 0
             PROVE  \E w \in Writers : pc'[w] = "enq_wake"
  BY DEF NoLostWakeup
<1> USE TaskAssumption DEF TypeOK, Tasks, Goto, EnqReturn, ReadReturn, ring
<1> DEFINE Waker == \E w \in Writers : pc'[w] = "enq_wake"
<1>a. Asleep(r) /\ count > 0 => \E w \in Writers : pc[w] = "enq_wake"
  BY DEF NoLostWakeup
<1>1. CASE UNCHANGED vars
  BY <1>1, <1>a DEF vars, Asleep
<1>2. ASSUME NEW w \in Writers, NEW m \in Messages, EnqCall(w, m)
      PROVE  Waker
  BY <1>2, <1>a DEF EnqCall, Asleep
<1>3. ASSUME NEW w \in Writers, EnqLock(w) \/ EnqDrop(w) \/ EnqFill(w)
      PROVE  Waker
  BY <1>3, <1>a DEF EnqLock, mutex_lock, EnqDrop, EnqFill, Asleep
<1>4. ASSUME NEW w \in Writers, EnqPublish(w) \/ EnqWake(w)
      PROVE  Waker
  BY <1>4 DEF EnqPublish, EnqWake, Asleep
<1>5. ASSUME NEW q \in Readers, NEW size \in BufSizes, NEW nonblock \in BOOLEAN,
             ReadCall(q, size, nonblock)
      PROVE  Waker
  BY <1>5, <1>a DEF ReadCall, Asleep
<1>6. ASSUME NEW q \in Readers,
             ReadLock(q) \/ ReadEmpty(q) \/ ReadError(q) \/ ReadCopy(q) \/ ReadAdvance(q)
      PROVE  Waker
  BY <1>6, <1>a DEF ReadLock, mutex_lock, ReadEmpty, ReadError, ReadCopy, ReadAdvance,
     Asleep
<1>7. ASSUME NEW q \in Readers,
             WaitFast(q) \/ WaitPrepare(q) \/ WaitCond(q) \/ WaitWoken(q) \/ WaitSignal(q)
      PROVE  Waker
  BY <1>7, <1>a DEF WaitFast, WaitPrepare, WaitCond, WaitWoken, WaitSignal,
     prepare_to_wait, finish_wait, Asleep
<1>8. ASSUME NEW q \in Readers,
             PollCall(q) \/ PollLock(q) \/ PollCheck(q) \/ PollWoken(q) \/ PollTimeout(q)
      PROVE  Waker
  BY <1>8, <1>a DEF PollCall, PollLock, mutex_lock, PollCheck, PollWoken, PollTimeout,
     prepare_to_wait, finish_wait, Asleep
<1> HIDE DEF Waker
<1>9. Waker
  BY <1>1, <1>2, <1>3, <1>4, <1>5, <1>6, <1>7, <1>8, NextCases DEF Waker
<1> QED
  BY <1>9 DEF Waker

(***************************************************************************)
(* No reader of the bus sleeps beside a message for good, for any number   *)
(* of tasks: the order of prepare_to_wait and the test of count in         *)
(* bus_read and bus_poll is right although the test takes no mutex.        *)
(***************************************************************************)
THEOREM BusNoLostWakeup == Spec => []NoLostWakeup
<1>1. Init => NoLostWakeup
  BY BusInit
<1> QED
  BY <1>1, WakeStep, BusTypes, PTL DEF Spec

(***************************************************************************)
(* Refinement. Contents changes in two places only: publishing a slot      *)
(* appends its line, advancing head removes the oldest line. Filling a     *)
(* slot changes a slot outside of it.                                      *)
(***************************************************************************)

\* A function on 1 .. n whose values are payloads is a sequence of length n.
LEMMA LineSeq ==
  ASSUME NEW n \in Nat, NEW f, f = [i \in 1 .. n |-> f[i]],
         \A i \in 1 .. n : f[i] \in Payloads
  PROVE  f \in Seq(Payloads) /\ Len(f) = n
<1>1. f \in [1 .. n -> Payloads]
  OBVIOUS
<1> QED
  BY <1>1

\* Contents is a sequence of lines, one per used slot, oldest first.
LEMMA ContentsSeq ==
  ASSUME TypeOK, RingInv
  PROVE  /\ Contents \in Seq(Payloads)
         /\ Len(Contents) = count
         /\ \A i \in 1 .. count : Contents[i] = queue[Slot(i - 1)]
<1>1. count \in Nat
  BY DEF TypeOK
<1>2. \A i \in 1 .. count : queue[Slot(i - 1)] \in Payloads
  <2> TAKE i \in 1 .. count
  <2>1. i - 1 \in 0 .. count - 1
    BY <1>1
  <2> QED
    BY <2>1 DEF RingInv
<1>3. Contents \in [1 .. count -> Payloads]
  BY <1>2 DEF Contents
<1> QED
  BY <1>1, <1>3 DEF Contents

\* EnqFill writes the slot at tail, which is not part of Contents.
LEMMA FillContents ==
  ASSUME TypeOK, BusInv, NEW w \in Writers, EnqFill(w)
  PROVE  Contents' = Contents
<1>1. count' = count /\ head' = head /\ queue' = [queue EXCEPT ![tail] = Payload(msg[w])]
  BY DEF EnqFill
<1>2. count < BUS_QUEUE_SIZE /\ tail = Slot(count)
  BY DEF EnqFill, BusInv, RingInv
<1>3. ASSUME NEW i \in 1 .. count
      PROVE  queue'[Slot(i - 1)'] = queue[Slot(i - 1)]
  <2>1. Slot(i - 1)' = Slot(i - 1)
    BY <1>1 DEF Slot
  <2>2. Slot(i - 1) \in Slots /\ Slot(i - 1) # tail
    <3>1. /\ head \in 0 .. BUS_QUEUE_SIZE - 1
          /\ BUS_QUEUE_SIZE \in Nat \ {0}
          /\ count \in 0 .. BUS_QUEUE_SIZE
      BY SizeAssumption DEF TypeOK, Slots
    <3>2. PICK j \in 0 .. count - 1 : j = i - 1
      BY <3>1
    <3>3. \A k \in 0 .. BUS_QUEUE_SIZE :
            /\ Slot(k) \in Slots
            /\ Slot(k) = IF head + k < BUS_QUEUE_SIZE
                         THEN head + k ELSE head + k - BUS_QUEUE_SIZE
      BY SlotOf
    <3>4. Slot(j) \in Slots /\ Slot(j) # Slot(count)
      BY <1>2, <3>1, <3>3
    <3> QED
      BY <1>2, <3>2, <3>4
  <2> QED
    BY <1>1, <2>1, <2>2 DEF TypeOK
<1> QED
  BY <1>1, <1>3 DEF Contents

\* EnqPublish appends the line that EnqFill wrote.
LEMMA PublishContents ==
  ASSUME TypeOK, BusInv, RingInv', TypeOK', NEW w \in Writers, EnqPublish(w)
  PROVE  Contents' = Append(Contents, Payload(msg[w]))
<1>1. count' = count + 1 /\ head' = head /\ queue' = queue /\ count \in Nat
  BY DEF EnqPublish, TypeOK
<1>2. tail = Slot(count) /\ queue[tail] = Payload(msg[w]) /\ msg[w] \in Messages
  BY DEF EnqPublish, BusInv, RingInv, FillInv
<1>3. \A i : Slot(i)' = Slot(i)
  BY <1>1 DEF Slot
<1>4. Payload(msg[w]) \in Payloads
  BY <1>2, PayloadType
<1>5. /\ Contents \in Seq(Payloads)
      /\ Len(Contents) = count
      /\ \A i \in 1 .. count : Contents[i] = queue[Slot(i - 1)]
  BY ContentsSeq DEF BusInv
<1>6. Contents' = [i \in 1 .. count + 1 |-> queue[Slot(i - 1)]]
  BY <1>1, <1>3 DEF Contents
<1>7. Contents' \in Seq(Payloads) /\ Len(Contents') = count + 1
  <2>1. \A i \in 1 .. count + 1 : queue[Slot(i - 1)] \in Payloads
    <3> TAKE i \in 1 .. count + 1
    <3>1. i - 1 \in 0 .. count' - 1
      BY <1>1
    <3> QED
      BY <1>1, <1>3, <3>1 DEF RingInv
  <2> QED
    BY <1>1, <1>6, <2>1, LineSeq
<1>8. Append(Contents, Payload(msg[w])) \in Seq(Payloads)
      /\ Len(Append(Contents, Payload(msg[w]))) = count + 1
  BY <1>1, <1>4, <1>5
<1>9. ASSUME NEW i \in 1 .. count + 1
      PROVE  Contents'[i] = Append(Contents, Payload(msg[w]))[i]
  <2>1. CASE i = count + 1
    <3>1. i - 1 = count
      BY <1>1, <2>1
    <3> QED
      BY <1>1, <1>2, <1>5, <1>6, <2>1, <3>1
  <2>2. CASE i # count + 1
    BY <1>1, <1>4, <1>5, <1>6, <2>2
  <2> QED
    BY <2>1, <2>2
<1> QED
  BY <1>7, <1>8, <1>9, SeqEqual

\* ReadAdvance takes the oldest line off Contents and delivers it.
LEMMA AdvanceContents ==
  ASSUME TypeOK, BusInv, TypeOK', RingInv', NEW r \in Readers, ReadAdvance(r)
  PROVE  Contents # <<>> /\ Contents' = Tail(Contents) /\ ubuf[r] = Head(Contents)
<1>1. /\ count' = count - 1 /\ queue' = queue /\ count \in Nat /\ count > 0
      /\ ubuf[r] = queue[head]
  BY DEF ReadAdvance, TypeOK, BusInv, CopyInv
<1>2. /\ Contents \in Seq(Payloads)
      /\ Len(Contents) = count
      /\ \A i \in 1 .. count : Contents[i] = queue[Slot(i - 1)]
  BY ContentsSeq DEF BusInv
<1>3. Contents' = [i \in 1 .. count - 1 |-> queue[Slot(i - 1)']]
  BY <1>1 DEF Contents
<1>4. Contents' \in Seq(Payloads) /\ Len(Contents') = count - 1
  <2>1. \A i \in 1 .. count - 1 : queue[Slot(i - 1)'] \in Payloads
    <3> TAKE i \in 1 .. count - 1
    <3>1. i - 1 \in 0 .. count' - 1
      BY <1>1
    <3> QED
      BY <1>1, <3>1 DEF RingInv
  <2> QED
    BY <1>1, <1>3, <2>1, LineSeq
<1>5. ASSUME NEW i \in 1 .. count - 1
      PROVE  Contents'[i] = Tail(Contents)[i]
  <2>1. i - 1 \in 0 .. count - 1 /\ i + 1 \in 1 .. count /\ (i - 1) + 1 = i
        /\ (i + 1) - 1 = i
    BY <1>1
  <2>2. Slot(i - 1)' = Slot(i)
    BY <2>1, HeadStep
  <2>3. Contents[i + 1] = queue[Slot(i)]
    BY <1>2, <2>1
  <2> QED
    BY <1>1, <1>2, <1>3, <2>2, <2>3
<1>6. Contents # <<>> /\ Tail(Contents) \in Seq(Payloads) /\ Len(Tail(Contents)) = count - 1
  BY <1>1, <1>2
<1>7. Contents' = Tail(Contents)
  BY <1>4, <1>5, <1>6, SeqEqual
<1>8. Head(Contents) = queue[head]
  <2>1. 1 \in 1 .. count /\ 1 - 1 = 0
    BY <1>1
  <2>2. Contents[1] = queue[Slot(0)]
    BY <1>2, <2>1
  <2> QED
    BY <1>2, <1>6, <2>2, SlotOf
<1> QED
  BY <1>1, <1>6, <1>7, <1>8

(***************************************************************************)
(* Every step of a writer or a reader puts one line, drops one message,    *)
(* gets the oldest line, or changes nothing a user of the channel sees.    *)
(***************************************************************************)
LEMMA FifoStep ==
  ASSUME TypeOK, BusInv, TypeOK', BusInv', [Next]_vars
  PROVE  [Fifo!Next]_Fifo!fifoVars
<1> DEFINE Step == [Fifo!Next]_Fifo!fifoVars
<1>a. Len(Contents) = count
  BY ContentsSeq DEF BusInv
<1>1. CASE UNCHANGED ring /\ UNCHANGED <<delivered, dropped>>
  BY <1>1 DEF Fifo!fifoVars, Contents, Slot, ring
<1>2. ASSUME NEW w \in Writers, EnqDrop(w)
      PROVE  Step
  <2>1. Contents' = Contents /\ delivered' = delivered
    BY <1>2 DEF EnqDrop, Contents, Slot, ring
  <2>2. count = BUS_QUEUE_SIZE /\ msg[w] \in Messages
    BY <1>2, SizeAssumption DEF EnqDrop, TypeOK, BusInv, FillInv
  <2>3. Fifo!Drop(msg[w])
    BY <1>a, <1>2, <2>1, <2>2 DEF EnqDrop, Fifo!Drop
  <2> QED
    BY <2>2, <2>3 DEF Fifo!Next
<1>3. ASSUME NEW w \in Writers, EnqFill(w)
      PROVE  Step
  BY <1>3, FillContents DEF EnqFill, Fifo!fifoVars, history
<1>4. ASSUME NEW w \in Writers, EnqPublish(w)
      PROVE  Step
  <2>1. Contents' = Append(Contents, Payload(msg[w]))
    BY <1>4, PublishContents DEF BusInv
  <2>2. count < BUS_QUEUE_SIZE /\ msg[w] \in Messages
    BY <1>4 DEF EnqPublish, BusInv, FillInv
  <2>3. Fifo!Put(msg[w])
    BY <1>a, <1>4, <2>1, <2>2 DEF EnqPublish, Fifo!Put, history
  <2> QED
    BY <2>2, <2>3 DEF Fifo!Next
<1>5. ASSUME NEW r \in Readers, ReadAdvance(r)
      PROVE  Step
  <2>1. Contents # <<>> /\ Contents' = Tail(Contents) /\ ubuf[r] = Head(Contents)
    BY <1>5, AdvanceContents DEF BusInv
  <2>2. Fifo!Get
    BY <1>5, <2>1 DEF ReadAdvance, Fifo!Get
  <2> QED
    BY <2>2 DEF Fifo!Next
<1>6. \/ \E w \in Writers : EnqDrop(w) \/ EnqFill(w) \/ EnqPublish(w)
      \/ \E r \in Readers : ReadAdvance(r)
      \/ UNCHANGED ring /\ UNCHANGED <<delivered, dropped>>
  <2>1. CASE UNCHANGED vars
    BY <2>1 DEF vars, ring, history
  <2>2. CASE Next
    BY <2>2, NextCases DEF EnqCall, EnqLock, mutex_lock, EnqWake, ReadCall,
       ReadLock, ReadEmpty, ReadError, ReadCopy, WaitFast, WaitPrepare, WaitCond,
       WaitWoken, WaitSignal, PollCall, PollLock, PollCheck, PollWoken, PollTimeout,
       ring, history
  <2> QED
    BY <2>1, <2>2
<1> QED
  BY <1>1, <1>2, <1>3, <1>4, <1>5, <1>6

(***************************************************************************)
(* bus.c implements the bounded FIFO: bus_enqueue_outgoing and bus_read,   *)
(* with their mutex, their ring and their wait queue, do nothing that the  *)
(* channel of BusFifo could not do.                                        *)
(***************************************************************************)
THEOREM BusRefinesFifo == Spec => ImplementsFifo
<1>1. Init => Fifo!Init
  BY DEF Init, Fifo!Init, Contents
<1> QED
  BY <1>1, FifoStep, BusInvariant, PTL DEF Spec, ImplementsFifo, Fifo!Spec

(***************************************************************************)
(* The lines in the ring and the lines delivered are what scnprintf made   *)
(* of some message. Shown for the FIFO, whose steps move whole lines.      *)
(***************************************************************************)
Formatted == {Payload(m) : m \in Messages}

LinesFormatted ==
  /\ \A i \in 1 .. Len(Contents) : Contents[i] \in Formatted
  /\ \A i \in 1 .. Len(delivered) : delivered[i] \in Formatted

\* No step of the FIFO makes another line.
LEMMA FormattedStep ==
  ASSUME TypeOK, BusInv, TypeOK', BusInv', [Next]_vars, LinesFormatted
  PROVE  LinesFormatted'
<1>1. Contents \in Seq(Payloads) /\ delivered \in Seq(Payloads)
  BY ContentsSeq DEF TypeOK, BusInv
<1>2. ASSUME NEW m \in Messages, Fifo!Put(m)
      PROVE  LinesFormatted'
  <2>1. Contents' = Append(Contents, Payload(m)) /\ delivered' = delivered
    BY <1>2 DEF Fifo!Put
  <2>2. Payload(m) \in Payloads /\ Payload(m) \in Formatted
    BY PayloadType DEF Formatted
  <2> QED
    BY <1>1, <2>1, <2>2 DEF LinesFormatted
<1>3. ASSUME Fifo!Get
      PROVE  LinesFormatted'
  <2>1. Contents # <<>> /\ Contents' = Tail(Contents) /\ delivered' = Append(delivered, Head(Contents))
    BY <1>3 DEF Fifo!Get
  <2>2. Head(Contents) \in Payloads /\ Head(Contents) \in Formatted
    BY <1>1, <2>1 DEF LinesFormatted
  <2> QED
    BY <1>1, <2>1, <2>2 DEF LinesFormatted
<1>4. CASE Contents' = Contents /\ delivered' = delivered
  BY <1>4 DEF LinesFormatted
<1> QED
  BY <1>2, <1>3, <1>4, FifoStep DEF Fifo!Next, Fifo!Drop, Fifo!fifoVars

(***************************************************************************)
(* A line that fits a slot reaches its reader whole, for any sizes: only   *)
(* scnprintf in bus_enqueue_outgoing shortens a line, and no interleaving  *)
(* of bus_read with it hands out a part of one.                            *)
(***************************************************************************)
THEOREM BusLinesWhole == Spec => []FittingLinesWhole
<1>1. Init => LinesFormatted
  BY DEF Init, LinesFormatted, Contents
<1>2. TypeOK /\ LinesFormatted => FittingLinesWhole
  BY DEF TypeOK, LinesFormatted, FittingLinesWhole, Formatted, Payload
<1> QED
  BY <1>1, <1>2, FormattedStep, BusInvariant, PTL DEF Spec
=============================================================================
