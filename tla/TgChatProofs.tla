---------------------------- MODULE TgChatProofs ----------------------------
(***************************************************************************)
(* Proofs about TgChat, for any number of writers and readers, any set of  *)
(* messages of any length and any size of the buffer.                      *)
(***************************************************************************)
EXTENDS TgChat, SequenceTheorems, TLAPS

Cells == [msg : Messages, at : Nat \ {0}] \cup {None}

(***************************************************************************)
(* The inductive invariant.                                                *)
(***************************************************************************)
InCritical(t) == pc[t] \in {"app_format", "app_publish", "rd_check", "poll_check"}

\* A task in a critical section owns chat->lock.
LockInv == \A t \in Tasks : InCritical(t) => lock = t

\* The buffer holds the end of m's line, or nothing more fits.
Shown(m) ==
  \/ buf_len = MSG_BUFF_SIZE - 1
  \/ \E o \in 0 .. buf_len - 1 : buffer[o] = Byte(m, LineLen(m))

\* Between scnprintf and the update of buf_len the line stands behind the bytes
\* that readers see; after the update it is among them.
AppendInv ==
  \A w \in Writers :
    /\ pc[w] # "idle" => msg[w] \in Messages
    /\ pc[w] = "app_publish" =>
         \A k \in 1 .. scnprintf(msg[w]) : buffer[buf_len + k - 1] = Byte(msg[w], k)
    /\ pc[w] \in {"app_wake", "enqueue"} => Shown(msg[w])

\* An open file has returned exactly the bytes before its position.
GotInv ==
  /\ got \in [Readers -> Seq(Cells)]
  /\ \A r \in Readers : /\ Len(got[r]) = ppos[r]
                        /\ \A k \in 1 .. ppos[r] : got[r][k] = buffer[k - 1]

\* What went to the bus is shown.
SentInv ==
  /\ enqueued \in Seq(Messages)
  /\ \A i \in 1 .. Len(enqueued) : Shown(enqueued[i])

ChatInv == LockInv /\ AppendInv /\ GotInv /\ SentInv

(***************************************************************************)
(* Every action of a writer or a reader, named once for the case splits.   *)
(***************************************************************************)
LEMMA NextCases ==
  ASSUME Next
  PROVE  \/ \E w \in Writers, m \in Messages : WriteCall(w, m) \/ WriteReject(w, m)
         \/ \E w \in Writers, id \in ChatIds : SetChatId(w, id)
         \/ \E w \in Writers : AppendLock(w) \/ AppendFormat(w) \/ AppendPublish(w)
                                 \/ AppendWake(w) \/ Enqueue(w)
         \/ \E r \in Readers, size \in ReadSizes, nonblock \in BOOLEAN :
              ReadCall(r, size, nonblock)
         \/ \E r \in Readers :
              \/ ReadLock(r) \/ ReadEmpty(r) \/ ReadError(r) \/ ReadCopy(r)
              \/ WaitFast(r) \/ WaitPrepare(r) \/ WaitCond(r) \/ WaitWoken(r)
              \/ WaitSignal(r) \/ PollCall(r) \/ PollLock(r) \/ PollCheck(r)
              \/ PollWoken(r) \/ PollTimeout(r)
  BY DEF Next, WriterStep, ReaderStep

\* scnprintf stores at most the line and leaves the last byte of the buffer free.
LEMMA StoredBytes ==
  ASSUME TypeOK, NEW m \in Messages
  PROVE  /\ LineLen(m) \in Nat \ {0}
         /\ scnprintf(m) \in 0 .. LineLen(m)
         /\ buf_len + scnprintf(m) <= MSG_BUFF_SIZE - 1
         /\ scnprintf(m) = LineLen(m) \/ buf_len + scnprintf(m) = MSG_BUFF_SIZE - 1
<1>1. LineLen(m) \in Nat \ {0}
  BY SizeAssumption DEF LineLen
<1>2. buf_len \in 0 .. MSG_BUFF_SIZE - 1 /\ MSG_BUFF_SIZE \in Nat \ {0}
  BY SizeAssumption DEF TypeOK, Offsets
<1> QED
  BY <1>1, <1>2 DEF scnprintf

\* The size of a call in progress is one of ReadSizes, or 0.
LEMMA SizeOfCall ==
  ASSUME TypeOK, NEW r \in Readers
  PROVE  req[r].size \in Nat
<1>1. req[r] \in [size : ReadSizes \cup {0}, nonblock : BOOLEAN]
  BY DEF TypeOK
<1>2. req[r].size \in ReadSizes \cup {0}
  BY <1>1
<1>3. \A x \in ReadSizes \cup {0} : x \in Nat
  BY SizeAssumption
<1> QED
  BY <1>2, <1>3

(***************************************************************************)
(* Types. buf_len stays below the size of the buffer because scnprintf     *)
(* leaves room for its NUL, and no position passes buf_len.                *)
(***************************************************************************)
LEMMA TypeStep == TypeOK /\ ChatInv /\ [Next]_vars => TypeOK'
<1> SUFFICES ASSUME TypeOK, ChatInv, [Next]_vars
             PROVE  TypeOK'
  OBVIOUS
<1>a. ASSUME NEW r \in Readers, ReadReturn(r)
      PROVE  /\ pc' = [pc EXCEPT ![r] = "idle"]
             /\ msg' = msg
             /\ req' \in [Readers -> [size : ReadSizes \cup {0}, nonblock : BOOLEAN]]
  BY <1>a DEF ReadReturn, Goto, TypeOK, NoReq
<1> USE SizeAssumption DEF TypeOK, Tasks, Offsets, Goto, mutex_unlock, mutex_lock,
      WriteReturn, prepare_to_wait, finish_wait, chat, calls, history
<1>1. CASE UNCHANGED vars
  BY <1>1 DEF vars
<1>2. ASSUME NEW w \in Writers, NEW m \in Messages, WriteCall(w, m) \/ WriteReject(w, m)
      PROVE  TypeOK'
  BY <1>2 DEF WriteCall, WriteReject, vars
<1>3. ASSUME NEW w \in Writers, NEW id \in ChatIds, SetChatId(w, id)
      PROVE  TypeOK'
  BY <1>3 DEF SetChatId
<1>4. ASSUME NEW w \in Writers, AppendLock(w) \/ AppendWake(w) \/ Enqueue(w)
      PROVE  TypeOK'
  BY <1>4 DEF AppendLock, AppendWake, Enqueue
<1>5. ASSUME NEW w \in Writers, AppendFormat(w)
      PROVE  TypeOK'
  <2>1. msg[w] \in Messages
    BY <1>5 DEF AppendFormat, ChatInv, AppendInv
  <2>2. scnprintf(msg[w]) \in Nat
    BY <2>1, StoredBytes
  <2>3. \A k \in Nat \ {0} : Byte(msg[w], k) \in [msg : Messages, at : Nat \ {0}]
    BY <2>1 DEF Byte
  <2>4. ASSUME NEW o \in Offsets
        PROVE  buffer'[o] \in [msg : Messages, at : Nat \ {0}] \cup {None}
    <3>1. CASE o \in buf_len .. buf_len + scnprintf(msg[w]) - 1
      <4>1. buffer'[o] = Byte(msg[w], o - buf_len + 1)
        BY <1>5, <3>1 DEF AppendFormat
      <4>2. o - buf_len + 1 \in Nat \ {0}
        BY <2>2, <3>1
      <4> QED
        BY <2>3, <4>1, <4>2
    <3>2. CASE o \notin buf_len .. buf_len + scnprintf(msg[w]) - 1
      BY <1>5, <3>2 DEF AppendFormat
    <3> QED
      BY <3>1, <3>2
  <2>5. /\ pc' = [pc EXCEPT ![w] = "app_publish"]
        /\ UNCHANGED <<lock, buf_len, chat_id, waitq, ppos, msg, req, fresh>>
    BY <1>5 DEF AppendFormat
  <2> QED
    BY <2>4, <2>5
<1>6. ASSUME NEW w \in Writers, AppendPublish(w)
      PROVE  TypeOK'
  <2>1. msg[w] \in Messages
    BY <1>6 DEF AppendPublish, ChatInv, AppendInv
  <2>2. buf_len' \in Offsets /\ buf_len <= buf_len'
    BY <1>6, <2>1, StoredBytes DEF AppendPublish
  <2> QED
    BY <1>6, <2>2 DEF AppendPublish
<1>7. ASSUME NEW r \in Readers, NEW size \in ReadSizes, NEW nonblock \in BOOLEAN,
             ReadCall(r, size, nonblock)
      PROVE  TypeOK'
  BY <1>7 DEF ReadCall
<1>8. ASSUME NEW r \in Readers,
             ReadLock(r) \/ ReadEmpty(r) \/ WaitFast(r) \/ WaitPrepare(r)
               \/ WaitCond(r) \/ WaitWoken(r)
      PROVE  TypeOK'
  BY <1>8 DEF ReadLock, ReadEmpty, WaitFast, WaitPrepare, WaitCond, WaitWoken
<1>9. ASSUME NEW r \in Readers, ReadError(r) \/ WaitSignal(r)
      PROVE  TypeOK'
  BY <1>9, <1>a DEF ReadError, WaitSignal
<1>10. ASSUME NEW r \in Readers, ReadCopy(r)
       PROVE  TypeOK'
  <2>1. req[r].size \in Nat /\ ppos[r] \in 0 .. buf_len /\ buf_len \in Nat
    BY SizeOfCall DEF TypeOK
  <2>2. ppos' \in [Readers -> 0 .. buf_len]
    BY <1>10, <2>1 DEF ReadCopy, Readable
  <2> QED
    BY <1>10, <1>a, <2>2 DEF ReadCopy
<1>11. ASSUME NEW r \in Readers, PollCall(r) \/ PollLock(r) \/ PollWoken(r)
       PROVE  TypeOK'
  BY <1>11 DEF PollCall, PollLock, PollWoken
<1>12. ASSUME NEW r \in Readers, PollCheck(r) \/ PollTimeout(r)
       PROVE  TypeOK'
  BY <1>12, <1>a DEF PollCheck, PollTimeout
<1> HIDE DEF TypeOK
<1> QED
  BY <1>1, <1>2, <1>3, <1>4, <1>5, <1>6, <1>7, <1>8, <1>9, <1>10, <1>11, <1>12,
     NextCases

(***************************************************************************)
(* Mutual exclusion on chat->lock.                                         *)
(***************************************************************************)
LEMMA LockStep == TypeOK /\ LockInv /\ [Next]_vars => LockInv'
<1> SUFFICES ASSUME TypeOK, LockInv, [Next]_vars
             PROVE  LockInv'
  OBVIOUS
<1> USE TaskAssumption DEF TypeOK, LockInv, InCritical, Tasks, Goto, mutex_unlock,
      WriteReturn, ReadReturn
<1>1. CASE UNCHANGED vars
  BY <1>1 DEF vars
<1>2. ASSUME NEW w \in Writers, NEW m \in Messages, WriteCall(w, m) \/ WriteReject(w, m)
      PROVE  LockInv'
  BY <1>2 DEF WriteCall, WriteReject, vars
<1>3. ASSUME NEW w \in Writers, NEW id \in ChatIds, SetChatId(w, id)
      PROVE  LockInv'
  BY <1>3 DEF SetChatId
<1>4. ASSUME NEW w \in Writers,
             AppendLock(w) \/ AppendFormat(w) \/ AppendPublish(w)
               \/ AppendWake(w) \/ Enqueue(w)
      PROVE  LockInv'
  BY <1>4 DEF AppendLock, mutex_lock, AppendFormat, AppendPublish, AppendWake, Enqueue
<1>5. ASSUME NEW r \in Readers, NEW size \in ReadSizes, NEW nonblock \in BOOLEAN,
             ReadCall(r, size, nonblock)
      PROVE  LockInv'
  BY <1>5 DEF ReadCall
<1>6. ASSUME NEW r \in Readers,
             ReadLock(r) \/ ReadEmpty(r) \/ ReadError(r) \/ ReadCopy(r)
      PROVE  LockInv'
  <2>1. CASE ReadLock(r) \/ ReadEmpty(r)
    BY <2>1 DEF ReadLock, mutex_lock, ReadEmpty
  <2>2. CASE ReadError(r) \/ ReadCopy(r)
    <3>1. lock' = None /\ pc' = [pc EXCEPT ![r] = "idle"] /\ pc[r] = "rd_check"
      BY <2>2 DEF ReadError, ReadCopy
    <3> QED
      BY <3>1
  <2> QED
    BY <1>6, <2>1, <2>2
<1>7. ASSUME NEW r \in Readers,
             WaitFast(r) \/ WaitPrepare(r) \/ WaitCond(r) \/ WaitWoken(r) \/ WaitSignal(r)
      PROVE  LockInv'
  BY <1>7 DEF WaitFast, WaitPrepare, WaitCond, WaitWoken, WaitSignal
<1>8. ASSUME NEW r \in Readers,
             PollCall(r) \/ PollLock(r) \/ PollCheck(r) \/ PollWoken(r) \/ PollTimeout(r)
      PROVE  LockInv'
  BY <1>8 DEF PollCall, PollLock, mutex_lock, PollCheck, PollWoken, PollTimeout
<1> QED
  BY <1>1, <1>2, <1>3, <1>4, <1>5, <1>6, <1>7, <1>8, NextCases

(***************************************************************************)
(* What the steps do to the bytes that readers see: AppendPublish makes    *)
(* new ones visible, no step changes those that are visible. While a       *)
(* writer formats its line behind them, no other task touches the buffer.  *)
(***************************************************************************)
LEMMA BufferSteps ==
  ASSUME [Next]_vars
  PROVE  \/ \E w \in Writers : AppendFormat(w) \/ AppendPublish(w)
         \/ UNCHANGED <<buffer, buf_len>>
<1> USE DEF chat
<1>1. CASE UNCHANGED vars
  BY <1>1 DEF vars
<1>2. CASE Next
  BY <1>2, NextCases DEF WriteCall, WriteReject, vars, SetChatId, AppendLock, mutex_lock,
     AppendWake, Enqueue, ReadCall, ReadLock, ReadEmpty, ReadError, ReadCopy, WaitFast,
     WaitPrepare, WaitCond, WaitWoken, WaitSignal, PollCall, PollLock, PollCheck,
     PollWoken, PollTimeout
<1> QED
  BY <1>1, <1>2

\* The log is append-only: buf_len never shrinks and no byte below it changes.
LEMMA AppendOnly ==
  ASSUME TypeOK, ChatInv, [Next]_vars
  PROVE  /\ buf_len \in Nat /\ buf_len' \in Nat /\ buf_len <= buf_len'
         /\ \A o \in 0 .. buf_len - 1 : buffer'[o] = buffer[o]
<1>1. buf_len \in 0 .. MSG_BUFF_SIZE - 1 /\ MSG_BUFF_SIZE \in Nat
  BY SizeAssumption DEF TypeOK, Offsets
<1>2. ASSUME NEW w \in Writers, AppendFormat(w)
      PROVE  buf_len' = buf_len /\ \A o \in 0 .. buf_len - 1 : buffer'[o] = buffer[o]
  <2>1. scnprintf(msg[w]) \in Nat
    BY <1>2, StoredBytes DEF AppendFormat, ChatInv, AppendInv
  <2> QED
    BY <1>1, <1>2, <2>1 DEF AppendFormat, Offsets
<1>3. ASSUME NEW w \in Writers, AppendPublish(w)
      PROVE  buf_len' \in Nat /\ buf_len <= buf_len' /\ buffer' = buffer
  BY <1>1, <1>3, StoredBytes DEF AppendPublish, ChatInv, AppendInv
<1> QED
  BY <1>1, <1>2, <1>3, BufferSteps

\* A longer range of offsets contains a shorter one.
LEMMA LongerRange ==
  ASSUME NEW a \in Nat, NEW b \in Nat, a <= b, NEW o \in 0 .. a - 1
  PROVE  o \in 0 .. b - 1
  OBVIOUS

\* What is shown stays shown: the buffer is never emptied.
LEMMA ShownStays ==
  ASSUME TypeOK, TypeOK', ChatInv, [Next]_vars, NEW m \in Messages, Shown(m)
  PROVE  Shown(m)'
<1>1. /\ MSG_BUFF_SIZE \in Nat /\ buf_len \in Nat /\ buf_len' \in Nat
      /\ buf_len' < MSG_BUFF_SIZE
  BY SizeAssumption DEF TypeOK, Offsets
<1>a. buf_len <= buf_len'
  BY AppendOnly
<1>b. \A i \in 0 .. buf_len - 1 : buffer'[i] = buffer[i]
  BY AppendOnly
<1>2. CASE buf_len = MSG_BUFF_SIZE - 1
  <2>1. buf_len' = MSG_BUFF_SIZE - 1
    BY <1>1, <1>2, <1>a
  <2> QED
    BY <2>1 DEF Shown
<1>3. ASSUME NEW o \in 0 .. buf_len - 1, buffer[o] = Byte(m, LineLen(m))
      PROVE  Shown(m)'
  <2>1. o \in 0 .. buf_len' - 1
    BY <1>1, <1>a, LongerRange
  <2>2. buffer'[o] = Byte(m, LineLen(m))
    BY <1>3, <1>b
  <2> QED
    BY <2>1, <2>2 DEF Shown, Byte, LineLen
<1> QED
  BY <1>2, <1>3 DEF Shown

\* The step that updates buf_len shows the line, or fills the buffer.
LEMMA PublishShows ==
  ASSUME TypeOK, ChatInv, NEW w \in Writers, AppendPublish(w)
  PROVE  Shown(msg[w])'
<1> DEFINE m == msg[w]
           n == scnprintf(m)
<1>1. /\ m \in Messages /\ m' = m
      /\ \A k \in 1 .. n : buffer[buf_len + k - 1] = Byte(m, k)
      /\ buf_len' = buf_len + n /\ buffer' = buffer
  BY DEF AppendPublish, ChatInv, AppendInv, calls
<1>2. /\ buf_len \in 0 .. MSG_BUFF_SIZE - 1
      /\ MSG_BUFF_SIZE \in Nat
      /\ LineLen(m) \in Nat \ {0}
      /\ n \in 0 .. LineLen(m)
      /\ n = LineLen(m) \/ buf_len + n = MSG_BUFF_SIZE - 1
  BY <1>1, StoredBytes, SizeAssumption DEF TypeOK, Offsets
<1> HIDE DEF m, n
<1>3. CASE buf_len + n = MSG_BUFF_SIZE - 1
  BY <1>1, <1>3 DEF Shown
<1>4. CASE n = LineLen(m)
  <2>1. n \in 1 .. n /\ buf_len + n - 1 \in 0 .. buf_len' - 1
    BY <1>1, <1>2, <1>4
  <2>2. buffer'[buf_len + n - 1] = Byte(m, LineLen(m))
    BY <1>1, <1>4, <2>1
  <2>3. Shown(m)'
    BY <1>1, <2>1, <2>2 DEF Shown, Byte, LineLen
  <2> QED
    BY <2>3 DEF m
<1> QED
  BY <1>2, <1>3, <1>4

\* A writer's place and message change in its own steps only.
LEMMA WriterSteps ==
  ASSUME TypeOK, [Next]_vars, NEW w \in Writers
  PROVE  \/ \E m \in Messages : WriteCall(w, m)
         \/ AppendLock(w) \/ AppendFormat(w) \/ AppendPublish(w)
         \/ AppendWake(w) \/ Enqueue(w)
         \/ pc'[w] = pc[w] /\ msg'[w] = msg[w]
<1> USE TaskAssumption DEF TypeOK, Tasks, Goto, WriteReturn, ReadReturn, calls
<1> DEFINE Same == pc'[w] = pc[w] /\ msg'[w] = msg[w]
           Own == \/ \E m \in Messages : WriteCall(w, m)
                  \/ AppendLock(w) \/ AppendFormat(w) \/ AppendPublish(w)
                  \/ AppendWake(w) \/ Enqueue(w)
           Done == Own \/ Same
<1>1. ASSUME UNCHANGED vars
      PROVE  Done
  BY <1>1 DEF vars
<1>2. ASSUME NEW v \in Writers, NEW m \in Messages, WriteCall(v, m)
      PROVE  Done
  <2>1. CASE v # w
    BY <1>2, <2>1 DEF WriteCall
  <2> QED
    BY <1>2, <2>1
<1>3. ASSUME NEW v \in Writers, NEW m \in Messages, WriteReject(v, m)
      PROVE  Done
  BY <1>3 DEF WriteReject, vars
<1>4. ASSUME NEW v \in Writers, NEW id \in ChatIds, SetChatId(v, id)
      PROVE  Done
  BY <1>4 DEF SetChatId
<1>5. ASSUME NEW v \in Writers,
             AppendLock(v) \/ AppendFormat(v) \/ AppendPublish(v)
               \/ AppendWake(v) \/ Enqueue(v)
      PROVE  Done
  <2>1. CASE v # w
    BY <1>5, <2>1 DEF AppendLock, mutex_lock, AppendFormat, AppendPublish, AppendWake,
       Enqueue
  <2> QED
    BY <1>5, <2>1
<1>6. ASSUME NEW r \in Readers, NEW size \in ReadSizes, NEW nonblock \in BOOLEAN,
             ReadCall(r, size, nonblock)
      PROVE  Done
  BY <1>6 DEF ReadCall
<1>7. ASSUME NEW r \in Readers,
             ReadLock(r) \/ ReadEmpty(r) \/ ReadError(r) \/ ReadCopy(r)
      PROVE  Done
  BY <1>7 DEF ReadLock, mutex_lock, ReadEmpty, ReadError, ReadCopy
<1>8. ASSUME NEW r \in Readers,
             WaitFast(r) \/ WaitPrepare(r) \/ WaitCond(r) \/ WaitWoken(r) \/ WaitSignal(r)
      PROVE  Done
  BY <1>8 DEF WaitFast, WaitPrepare, WaitCond, WaitWoken, WaitSignal
<1>9. ASSUME NEW r \in Readers,
             PollCall(r) \/ PollLock(r) \/ PollCheck(r) \/ PollWoken(r) \/ PollTimeout(r)
      PROVE  Done
  BY <1>9 DEF PollCall, PollLock, mutex_lock, PollCheck, PollWoken, PollTimeout
<1> HIDE DEF Done, TypeOK, Tasks, Goto, WriteReturn, ReadReturn, calls
<1>10. Done
  BY <1>1, <1>2, <1>3, <1>4, <1>5, <1>6, <1>7, <1>8, <1>9, NextCases
<1> QED
  BY <1>10 DEF Done

\* AppendFormat puts the line behind the visible bytes.
LEMMA FormatStores ==
  ASSUME TypeOK, ChatInv, NEW w \in Writers, AppendFormat(w),
         NEW k \in 1 .. scnprintf(msg[w])
  PROVE  buffer'[buf_len + k - 1] = Byte(msg[w], k)
<1>1. msg[w] \in Messages
  BY DEF AppendFormat, ChatInv, AppendInv
<1>2. PICK n \in Nat : n = scnprintf(msg[w]) /\ buf_len + n <= MSG_BUFF_SIZE - 1
  BY <1>1, StoredBytes
<1>3. buf_len \in Nat /\ MSG_BUFF_SIZE \in Nat
  BY SizeAssumption DEF TypeOK, Offsets
<1>4. PICK o \in Nat : o = buf_len + k - 1
  BY <1>2, <1>3
<1>5. o \in buf_len .. buf_len + n - 1 /\ o \in Offsets /\ o - buf_len + 1 = k
  BY <1>2, <1>3, <1>4 DEF Offsets
<1>6. buffer'[o] = Byte(msg[w], o - buf_len + 1)
  BY <1>2, <1>5 DEF AppendFormat
<1> QED
  BY <1>4, <1>5, <1>6

\* No step breaks AppendInv: the bytes a writer has formatted are safe while it
\* owns the mutex, and what it has published stays shown.
LEMMA AppendStep == TypeOK /\ TypeOK' /\ ChatInv /\ [Next]_vars => AppendInv'
<1> SUFFICES ASSUME TypeOK, TypeOK', ChatInv, [Next]_vars, NEW w \in Writers
             PROVE  /\ pc'[w] # "idle" => msg'[w] \in Messages
                    /\ pc'[w] = "app_publish" =>
                         \A k \in 1 .. scnprintf(msg[w])' :
                           buffer'[buf_len' + k - 1] = Byte(msg'[w], k)
                    /\ pc'[w] \in {"app_wake", "enqueue"} => Shown(msg[w])'
  BY DEF AppendInv, Byte
<1>a. /\ pc[w] # "idle" => msg[w] \in Messages
      /\ pc[w] = "app_publish" =>
           \A k \in 1 .. scnprintf(msg[w]) : buffer[buf_len + k - 1] = Byte(msg[w], k)
      /\ pc[w] \in {"app_wake", "enqueue"} => Shown(msg[w])
  BY DEF ChatInv, AppendInv
<1>b. \A t \in Tasks : InCritical(t) /\ InCritical(w) => t = w
  BY DEF ChatInv, LockInv, Tasks
<1>c. ASSUME pc[w] \in {"app_wake", "enqueue"}, msg'[w] = msg[w]
      PROVE  Shown(msg[w])'
  <2>1. PICK m \in Messages : m = msg[w]
    BY <1>a, <1>c
  <2>2. Shown(m)'
    BY <1>a, <1>c, <2>1, ShownStays
  <2> QED
    BY <1>c, <2>1, <2>2 DEF Shown
<1>1. CASE pc'[w] = pc[w] /\ msg'[w] = msg[w]
  <2>1. CASE pc[w] = "app_publish"
    <3>1. UNCHANGED <<buffer, buf_len>>
      <4>1. ASSUME NEW v \in Writers, AppendFormat(v) \/ AppendPublish(v)
            PROVE  FALSE
        <5>1. v = w
          BY <1>b, <2>1, <4>1 DEF AppendFormat, AppendPublish, InCritical, Tasks
        <5> QED
          BY <1>1, <2>1, <4>1, <5>1 DEF AppendFormat, AppendPublish, Goto, TypeOK, Tasks
      <4> QED
        BY <4>1, BufferSteps
    <3>2. scnprintf(msg[w])' = scnprintf(msg[w])
      BY <1>1, <3>1 DEF scnprintf, LineLen
    <3> QED
      BY <1>1, <1>a, <2>1, <3>1, <3>2
  <2>2. CASE pc[w] # "app_publish"
    BY <1>1, <1>a, <1>c, <2>2
  <2> QED
    BY <2>1, <2>2
<1> USE DEF TypeOK, Tasks, Goto
<1>2. ASSUME NEW m \in Messages, WriteCall(w, m)
      PROVE  pc'[w] = "app_lock" /\ msg'[w] = m
  BY <1>2 DEF WriteCall
<1>3. CASE AppendLock(w)
  BY <1>3, <1>a DEF AppendLock, mutex_lock, calls
<1>4. CASE AppendFormat(w)
  <2>1. /\ pc[w] = "app_format" /\ pc'[w] = "app_publish"
        /\ msg' = msg /\ buf_len' = buf_len
    BY <1>4 DEF AppendFormat, calls
  <2>2. scnprintf(msg[w])' = scnprintf(msg[w])
    BY <2>1 DEF scnprintf, LineLen
  <2>3. \A k \in 1 .. scnprintf(msg[w]) : buffer'[buf_len + k - 1] = Byte(msg[w], k)
    BY <1>4, FormatStores
  <2> QED
    BY <1>a, <2>1, <2>2, <2>3
<1>5. CASE AppendPublish(w)
  BY <1>5, <1>a, PublishShows DEF AppendPublish, calls
<1>6. CASE AppendWake(w)
  <2>1. pc[w] = "app_wake" /\ (pc'[w] = "idle" \/ (pc'[w] = "enqueue" /\ msg' = msg))
    BY <1>6 DEF AppendWake, WriteReturn
  <2> QED
    BY <1>a, <1>c, <2>1
<1>7. CASE Enqueue(w)
  BY <1>7 DEF Enqueue, WriteReturn
<1> QED
  BY <1>1, <1>2, <1>3, <1>4, <1>5, <1>6, <1>7, WriterSteps

(***************************************************************************)
(* What a reader has received: ReadCopy appends the bytes behind its       *)
(* position, and AppendOnly says that the bytes before it do not change.   *)
(***************************************************************************)
LEMMA ReaderSteps ==
  ASSUME [Next]_vars
  PROVE  (\E r \in Readers : ReadCopy(r)) \/ UNCHANGED <<got, ppos>>
<1> USE DEF history
<1>1. CASE UNCHANGED vars
  BY <1>1 DEF vars
<1>2. CASE Next
  BY <1>2, NextCases DEF WriteCall, WriteReject, vars, SetChatId, AppendLock, mutex_lock,
     AppendFormat, AppendPublish, AppendWake, Enqueue, ReadCall, ReadLock, ReadEmpty,
     ReadError, WaitFast, WaitPrepare, WaitCond, WaitWoken, WaitSignal, PollCall, PollLock,
     PollCheck, PollWoken, PollTimeout
<1> QED
  BY <1>1, <1>2

\* The bytes ReadCopy hands out are those of the buffer, up to the new position.
LEMMA CopyBytes ==
  ASSUME TypeOK, GotInv, NEW r \in Readers, ReadCopy(r)
  PROVE  /\ got' \in [Readers -> Seq(Cells)]
         /\ ppos[r] <= ppos'[r] /\ ppos'[r] \in 0 .. buf_len
         /\ Len(got'[r]) = ppos'[r]
         /\ \A k \in 1 .. ppos'[r] : got'[r][k] = buffer[k - 1]
         /\ \A q \in Readers \ {r} : got'[q] = got[q] /\ ppos'[q] = ppos[q]
<1>1. PICK p \in Nat : p = ppos[r] /\ p \in 0 .. buf_len
  BY DEF TypeOK
<1>2. buf_len \in 0 .. MSG_BUFF_SIZE - 1 /\ MSG_BUFF_SIZE \in Nat
  BY SizeAssumption DEF TypeOK, Offsets
<1>3. PICK n \in Nat : /\ n = IF req[r].size < buf_len - p THEN req[r].size ELSE buf_len - p
                       /\ p + n <= buf_len
  BY <1>1, <1>2, SizeOfCall
<1> DEFINE tail == [k \in 1 .. n |-> buffer[p + k - 1]]
<1>4. got' = [got EXCEPT ![r] = @ \o tail] /\ ppos' = [ppos EXCEPT ![r] = @ + n]
  BY <1>1, <1>3 DEF ReadCopy
<1>5. tail \in Seq(Cells) /\ Len(tail) = n
  <2>1. ASSUME NEW k \in 1 .. n
        PROVE  buffer[p + k - 1] \in Cells
    <3>1. p + k - 1 \in Offsets
      BY <1>1, <1>2, <1>3 DEF Offsets
    <3> QED
      BY <3>1 DEF TypeOK, Cells
  <2>2. tail \in [1 .. n -> Cells]
    BY <2>1
  <2> QED
    BY <2>2
<1>6. \A k \in 1 .. n : tail[k] = buffer[p + k - 1]
  OBVIOUS
<1> HIDE DEF tail
<1>7. /\ got[r] \in Seq(Cells) /\ Len(got[r]) = p
      /\ \A k \in 1 .. p : got[r][k] = buffer[k - 1]
  BY <1>1 DEF GotInv
<1>8. /\ got'[r] = got[r] \o tail /\ ppos'[r] = p + n
      /\ \A q \in Readers \ {r} : got'[q] = got[q] /\ ppos'[q] = ppos[q]
  BY <1>1, <1>4 DEF GotInv, TypeOK
<1>9. /\ got[r] \o tail \in Seq(Cells) /\ Len(got[r] \o tail) = p + n
      /\ \A k \in 1 .. p + n :
           (got[r] \o tail)[k] = IF k <= p THEN got[r][k] ELSE tail[k - p]
  BY <1>5, <1>7, ConcatProperties
<1>10. ASSUME NEW k \in 1 .. p + n
       PROVE  (got[r] \o tail)[k] = buffer[k - 1]
  <2>1. CASE k <= p
    BY <1>7, <1>9, <2>1
  <2>2. CASE ~(k <= p)
    <3>1. PICK j \in 1 .. n : j = k - p
      BY <2>2
    <3>2. p + j - 1 = k - 1
      BY <3>1
    <3> QED
      BY <1>6, <1>9, <2>2, <3>1, <3>2
  <2> QED
    BY <2>1, <2>2
<1>11. got' \in [Readers -> Seq(Cells)]
  BY <1>4, <1>9 DEF GotInv
<1>12. p <= p + n /\ p + n \in 0 .. buf_len
  BY <1>1, <1>2, <1>3
<1>13. ppos[r] <= ppos'[r] /\ ppos'[r] \in 0 .. buf_len
  BY <1>1, <1>8, <1>12
<1>14. Len(got'[r]) = ppos'[r] /\ \A k \in 1 .. ppos'[r] : got'[r][k] = buffer[k - 1]
  BY <1>8, <1>9, <1>10
<1> QED
  BY <1>8, <1>11, <1>13, <1>14

\* No step breaks GotInv.
LEMMA GotStep == TypeOK /\ ChatInv /\ [Next]_vars => GotInv'
<1> SUFFICES ASSUME TypeOK, ChatInv, [Next]_vars
             PROVE  GotInv'
  OBVIOUS
<1>1. \A o \in 0 .. buf_len - 1 : buffer'[o] = buffer[o]
  BY AppendOnly
<1>2. buf_len \in Nat /\ \A r \in Readers : ppos[r] \in 0 .. buf_len
  BY SizeAssumption DEF TypeOK, Offsets
<1>3. CASE UNCHANGED <<got, ppos>>
  <2>1. ASSUME NEW r \in Readers, NEW k \in 1 .. ppos[r]
        PROVE  got[r][k] = buffer'[k - 1]
    <3>1. k - 1 \in 0 .. buf_len - 1
      BY <1>2
    <3> QED
      BY <1>1, <3>1 DEF ChatInv, GotInv
  <2> QED
    BY <1>3, <2>1 DEF ChatInv, GotInv
<1>4. ASSUME NEW r \in Readers, ReadCopy(r)
      PROVE  GotInv'
  <2>1. buffer' = buffer
    BY <1>4 DEF ReadCopy, chat
  <2>2. GotInv
    BY DEF ChatInv
  <2>3. /\ got' \in [Readers -> Seq(Cells)]
        /\ Len(got'[r]) = ppos'[r]
        /\ \A k \in 1 .. ppos'[r] : got'[r][k] = buffer'[k - 1]
        /\ \A q \in Readers \ {r} : got'[q] = got[q] /\ ppos'[q] = ppos[q]
    BY <1>4, <2>1, <2>2, CopyBytes
  <2>4. ASSUME NEW q \in Readers
        PROVE  Len(got'[q]) = ppos'[q] /\ \A k \in 1 .. ppos'[q] : got'[q][k] = buffer'[k - 1]
    <3>1. CASE q = r
      BY <2>3, <3>1
    <3>2. CASE q # r
      <4>1. Len(got[q]) = ppos[q] /\ \A k \in 1 .. ppos[q] : got[q][k] = buffer'[k - 1]
        BY <2>1, <2>2 DEF GotInv
      <4>2. got'[q] = got[q] /\ ppos'[q] = ppos[q]
        BY <2>3, <3>2
      <4> QED
        BY <4>1, <4>2
    <3> QED
      BY <3>1, <3>2
  <2> QED
    BY <2>3, <2>4 DEF GotInv
<1> QED
  BY <1>3, <1>4, ReaderSteps

(***************************************************************************)
(* What went to the bus had been shown: Enqueue follows AppendPublish.     *)
(***************************************************************************)
LEMMA SentStep == TypeOK /\ TypeOK' /\ ChatInv /\ [Next]_vars => SentInv'
<1> SUFFICES ASSUME TypeOK, TypeOK', ChatInv, [Next]_vars
             PROVE  SentInv'
  OBVIOUS
<1>1. enqueued \in Seq(Messages) /\ \A i \in 1 .. Len(enqueued) : Shown(enqueued[i])
  BY DEF ChatInv, SentInv
<1>2. \A m \in Messages : Shown(m) => Shown(m)'
  BY ShownStays
<1>3. CASE enqueued' = enqueued
  BY <1>1, <1>2, <1>3 DEF SentInv, Shown, Byte, LineLen
<1>4. ASSUME NEW w \in Writers, Enqueue(w)
      PROVE  SentInv'
  <2>1. enqueued' = Append(enqueued, msg[w]) /\ msg[w] \in Messages /\ Shown(msg[w])
    BY <1>4 DEF Enqueue, ChatInv, AppendInv
  <2>2. \A i \in 1 .. Len(enqueued') : enqueued'[i] \in Messages /\ Shown(enqueued'[i])
    BY <1>1, <2>1
  <2> QED
    BY <1>1, <1>2, <2>1, <2>2 DEF SentInv, Shown, Byte, LineLen
<1>5. (\E w \in Writers : Enqueue(w)) \/ enqueued' = enqueued
  <2>1. CASE UNCHANGED vars
    BY <2>1 DEF vars, history
  <2>2. CASE Next
    BY <2>2, NextCases DEF WriteCall, WriteReject, vars, SetChatId, AppendLock, mutex_lock,
       AppendFormat, AppendPublish, AppendWake, ReadCall, ReadLock, ReadEmpty,
       ReadError, ReadCopy, WaitFast, WaitPrepare, WaitCond, WaitWoken, WaitSignal,
       PollCall, PollLock, PollCheck, PollWoken, PollTimeout, history
  <2> QED
    BY <2>1, <2>2
<1> QED
  BY <1>3, <1>4, <1>5

\* The initial state satisfies the types and the invariant.
LEMMA ChatInit == Init => TypeOK /\ ChatInv /\ NoLostWakeup
<1> SUFFICES ASSUME Init
             PROVE  TypeOK /\ ChatInv /\ NoLostWakeup
  OBVIOUS
<1>1. TypeOK
  <2>1. 0 \in Offsets
    BY SizeAssumption DEF Offsets
  <2>2. NoReq \in [size : ReadSizes \cup {0}, nonblock : BOOLEAN]
    BY DEF NoReq
  <2> QED
    BY <2>1, <2>2 DEF Init, TypeOK
<1>2. LockInv /\ AppendInv /\ SentInv
  BY DEF Init, LockInv, InCritical, AppendInv, SentInv, Tasks
<1>3. GotInv
  BY DEF Init, GotInv
<1>4. NoLostWakeup
  BY DEF Init, NoLostWakeup, Asleep, Tasks
<1> QED
  BY <1>1, <1>2, <1>3, <1>4 DEF ChatInv

(***************************************************************************)
(* The inductive invariant holds in every reachable state: writers and     *)
(* readers exclude each other, a line is formatted behind the bytes that   *)
(* are read, a file has returned exactly the bytes before its position.    *)
(***************************************************************************)
THEOREM ChatInvariant == Spec => [](TypeOK /\ ChatInv)
<1>1. TypeOK /\ ChatInv /\ [Next]_vars => (TypeOK /\ ChatInv)'
  BY TypeStep, LockStep, AppendStep, GotStep, SentStep DEF ChatInv
<1> QED
  BY <1>1, ChatInit, PTL DEF Spec

(***************************************************************************)
(* TypeOK by itself. It includes the two bounds of the code: buf_len never *)
(* reaches the end of the buffer (chat.c:62, bus.c:118) and no position    *)
(* passes buf_len.                                                         *)
(***************************************************************************)
THEOREM ChatTypes == Spec => []TypeOK
  BY ChatInvariant, PTL

(***************************************************************************)
(* chat_write calls bus_enqueue_outgoing after it has put the line into    *)
(* the buffer, for any number of concurrent writers: whatever was sent was *)
(* shown first, or found the buffer full.                                  *)
(***************************************************************************)
THEOREM ChatShownBeforeSent == Spec => []ShownBeforeSent
<1>1. ChatInv => ShownBeforeSent
  BY DEF ChatInv, SentInv, Shown, ShownBeforeSent
<1> QED
  BY <1>1, ChatInvariant, PTL

(***************************************************************************)
(* No lost wakeup. AppendPublish makes bytes visible and leaves its writer *)
(* with the wake_up to do, although it has released the mutex; a reader    *)
(* goes to sleep from a test of buf_len that follows its queueing.         *)
(***************************************************************************)
LEMMA WakeStep == TypeOK /\ NoLostWakeup /\ [Next]_vars => NoLostWakeup'
<1> SUFFICES ASSUME TypeOK, NoLostWakeup, [Next]_vars, NEW r \in Readers,
                    Asleep(r)', Readable(r)'
             PROVE  \E w \in Writers : pc'[w] = "app_wake"
  BY DEF NoLostWakeup
<1> USE TaskAssumption DEF TypeOK, Tasks, Goto, WriteReturn, ReadReturn, chat, Readable
<1> DEFINE Waker == \E w \in Writers : pc'[w] = "app_wake"
<1>a. Asleep(r) /\ Readable(r) => \E w \in Writers : pc[w] = "app_wake"
  BY DEF NoLostWakeup
<1>1. ASSUME UNCHANGED vars
      PROVE  Waker
  BY <1>1, <1>a DEF vars, Asleep
<1>2. ASSUME NEW w \in Writers, NEW m \in Messages, WriteCall(w, m) \/ WriteReject(w, m)
      PROVE  Waker
  BY <1>2, <1>a DEF WriteCall, WriteReject, vars, Asleep
<1>3. ASSUME NEW w \in Writers, NEW id \in ChatIds, SetChatId(w, id)
      PROVE  Waker
  BY <1>3, <1>a DEF SetChatId, Asleep
<1>4. ASSUME NEW w \in Writers, AppendLock(w) \/ AppendFormat(w) \/ Enqueue(w)
      PROVE  Waker
  BY <1>4, <1>a DEF AppendLock, mutex_lock, AppendFormat, Enqueue, Asleep
<1>5. ASSUME NEW w \in Writers, AppendPublish(w) \/ AppendWake(w)
      PROVE  Waker
  BY <1>5 DEF AppendPublish, AppendWake, Asleep
<1>6. ASSUME NEW q \in Readers, NEW size \in ReadSizes, NEW nonblock \in BOOLEAN,
             ReadCall(q, size, nonblock)
      PROVE  Waker
  BY <1>6, <1>a DEF ReadCall, Asleep
<1>7. ASSUME NEW q \in Readers, ReadLock(q) \/ ReadEmpty(q) \/ ReadError(q)
      PROVE  Waker
  BY <1>7, <1>a DEF ReadLock, mutex_lock, ReadEmpty, ReadError, Asleep
<1>8. ASSUME NEW q \in Readers, ReadCopy(q)
      PROVE  Waker
  <2>1. q # r
    BY <1>8 DEF ReadCopy, Asleep
  <2>2. ppos'[r] = ppos[r] /\ UNCHANGED <<buf_len, waitq>> /\ pc' = [pc EXCEPT ![q] = "idle"]
    BY <1>8, <2>1 DEF ReadCopy
  <2>3. pc[q] = "rd_check"
    BY <1>8 DEF ReadCopy
  <2> QED
    BY <1>a, <2>1, <2>2, <2>3 DEF Asleep
<1>9. ASSUME NEW q \in Readers,
             WaitFast(q) \/ WaitPrepare(q) \/ WaitCond(q) \/ WaitWoken(q) \/ WaitSignal(q)
      PROVE  Waker
  BY <1>9, <1>a DEF WaitFast, WaitPrepare, WaitCond, WaitWoken, WaitSignal,
     prepare_to_wait, finish_wait, Asleep
<1>10. ASSUME NEW q \in Readers,
              PollCall(q) \/ PollLock(q) \/ PollCheck(q) \/ PollWoken(q) \/ PollTimeout(q)
       PROVE  Waker
  BY <1>10, <1>a DEF PollCall, PollLock, mutex_lock, PollCheck, PollWoken, PollTimeout,
     prepare_to_wait, finish_wait, Asleep
<1> HIDE DEF Waker
<1>11. Waker
  BY <1>1, <1>2, <1>3, <1>4, <1>5, <1>6, <1>7, <1>8, <1>9, <1>10, NextCases
<1> QED
  BY <1>11 DEF Waker

(***************************************************************************)
(* No reader of a chat sleeps beside unread bytes for good, although       *)
(* chat_write wakes it after mutex_unlock: for any number of tasks.        *)
(***************************************************************************)
THEOREM ChatNoLostWakeup == Spec => []NoLostWakeup
<1>1. Init => NoLostWakeup
  BY ChatInit
<1> QED
  BY <1>1, WakeStep, ChatTypes, PTL DEF Spec

(***************************************************************************)
(* Refinement: the log of ChatLog is the buffer up to buf_len.             *)
(***************************************************************************)
Visible == [i \in 1 .. buf_len |-> buffer[i - 1]]

\* The visible bytes are a sequence of buf_len cells.
LEMMA VisibleSeq ==
  ASSUME TypeOK
  PROVE  /\ buf_len \in Nat
         /\ Visible \in Seq(Cells)
         /\ Len(Visible) = buf_len
         /\ \A i \in 1 .. buf_len : Visible[i] = buffer[i - 1]
<1>1. buf_len \in 0 .. MSG_BUFF_SIZE - 1 /\ MSG_BUFF_SIZE \in Nat
  BY SizeAssumption DEF TypeOK, Offsets
<1>2. ASSUME NEW i \in 1 .. buf_len
      PROVE  buffer[i - 1] \in Cells
  <2>1. i - 1 \in Offsets
    BY <1>1 DEF Offsets
  <2> QED
    BY <2>1 DEF TypeOK, Cells
<1>3. Visible \in [1 .. buf_len -> Cells]
  BY <1>2 DEF Visible
<1> QED
  BY <1>1, <1>3 DEF Visible

\* The line of a message is a sequence of cells.
LEMMA LineSeq ==
  ASSUME TypeOK, NEW m \in Messages
  PROVE  /\ Line(m) \in Seq(Cells)
         /\ Len(Line(m)) = LineLen(m)
         /\ \A k \in 1 .. LineLen(m) : Line(m)[k] = Byte(m, k)
<1>1. LineLen(m) \in Nat \ {0}
  BY StoredBytes
<1>2. \A k \in 1 .. LineLen(m) : Byte(m, k) \in Cells
  BY <1>1 DEF Byte, Cells
<1>3. Line(m) \in [1 .. LineLen(m) -> Cells]
  BY <1>2 DEF Line
<1> QED
  BY <1>1, <1>3 DEF Line

\* AppendPublish appends to the log what scnprintf stored of the line.
LEMMA PublishVisible ==
  ASSUME TypeOK, TypeOK', ChatInv, NEW w \in Writers, AppendPublish(w)
  PROVE  Visible' = Visible \o SubSeq(Line(msg[w]), 1, scnprintf(msg[w]))
<1> DEFINE m == msg[w]
           n == scnprintf(m)
           b == buf_len
           line == SubSeq(Line(m), 1, n)
<1>1. /\ m \in Messages
      /\ \A k \in 1 .. n : buffer[b + k - 1] = Byte(m, k)
      /\ buf_len' = b + n /\ buffer' = buffer
  BY DEF AppendPublish, ChatInv, AppendInv
<1>2. /\ LineLen(m) \in Nat /\ n \in 0 .. LineLen(m) /\ b \in Nat
  BY <1>1, StoredBytes, VisibleSeq
<1>3. /\ Visible \in Seq(Cells) /\ Len(Visible) = b
      /\ \A i \in 1 .. b : Visible[i] = buffer[i - 1]
  BY VisibleSeq
<1>4. /\ Visible' \in Seq(Cells) /\ Len(Visible') = b + n
      /\ \A i \in 1 .. b + n : Visible'[i] = buffer[i - 1]
  <2>1. /\ Visible' = [i \in 1 .. b + n |-> buffer[i - 1]]
    BY <1>1 DEF Visible
  <2>2. \A i \in 1 .. b + n : buffer[i - 1] \in Cells
    <3> TAKE i \in 1 .. b + n
    <3>1. i - 1 \in Offsets
      BY <1>1, <1>2, StoredBytes, SizeAssumption DEF Offsets, TypeOK
    <3> QED
      BY <3>1 DEF TypeOK, Cells
  <2>3. Visible' \in [1 .. b + n -> Cells]
    BY <2>1, <2>2
  <2>4. b + n \in Nat
    BY <1>2
  <2> HIDE DEF b, n
  <2>5. Visible' \in Seq(Cells) /\ Len(Visible') = b + n
    BY <2>3, <2>4
  <2> QED
    BY <2>1, <2>5
<1>5. /\ Line(m) \in Seq(Cells) /\ Len(Line(m)) = LineLen(m)
      /\ \A k \in 1 .. LineLen(m) : Line(m)[k] = Byte(m, k)
  BY <1>1, LineSeq
<1>6. /\ line \in Seq(Cells) /\ Len(line) = n
      /\ \A k \in 1 .. n : line[k] = Byte(m, k)
  BY <1>2, <1>5, SMTT(40)
<1> HIDE DEF m, n, b, line
<1>7. /\ Visible \o line \in Seq(Cells) /\ Len(Visible \o line) = b + n
      /\ \A i \in 1 .. b + n :
           (Visible \o line)[i] = IF i <= b THEN Visible[i] ELSE line[i - b]
  BY <1>3, <1>6, ConcatProperties
<1>8. ASSUME NEW i \in 1 .. b + n
      PROVE  Visible'[i] = (Visible \o line)[i]
  <2>1. CASE i <= b
    <3>1. i \in 1 .. b
      BY <1>2, <2>1
    <3> QED
      BY <1>3, <1>4, <1>7, <2>1, <3>1
  <2>2. CASE ~(i <= b)
    <3>1. PICK k \in 1 .. n : k = i - b
      BY <1>2, <2>2
    <3>2. b + k - 1 = i - 1
      BY <1>2, <3>1
    <3> QED
      BY <1>1, <1>4, <1>6, <1>7, <2>2, <3>1, <3>2
  <2> QED
    BY <2>1, <2>2
<1>9. Visible' = Visible \o line
  BY <1>4, <1>7, <1>8, SeqEqual
<1> QED
  BY <1>9 DEF m, n, line

\* AppendFormat changes nothing visible.
LEMMA FormatVisible ==
  ASSUME TypeOK, ChatInv, [Next]_vars, buf_len' = buf_len
  PROVE  Visible' = Visible
<1>1. \A o \in 0 .. buf_len - 1 : buffer'[o] = buffer[o]
  BY AppendOnly
<1>2. ASSUME NEW i \in 1 .. buf_len
      PROVE  buffer'[i - 1] = buffer[i - 1]
  <2>1. i - 1 \in 0 .. buf_len - 1
    BY VisibleSeq
  <2> QED
    BY <1>1, <2>1
<1> QED
  BY <1>2 DEF Visible

\* A file that has returned bytes up to position p has returned the log's first p.
LEMMA GotPrefix ==
  ASSUME TypeOK, NEW s \in Seq(Cells), NEW p \in 0 .. buf_len, Len(s) = p,
         \A k \in 1 .. p : s[k] = buffer[k - 1]
  PROVE  s = SubSeq(Visible, 1, p)
<1>1. /\ buf_len \in Nat /\ Visible \in Seq(Cells) /\ Len(Visible) = buf_len
      /\ \A i \in 1 .. buf_len : Visible[i] = buffer[i - 1]
  BY VisibleSeq
<1>2. /\ SubSeq(Visible, 1, p) \in Seq(Cells) /\ Len(SubSeq(Visible, 1, p)) = p
      /\ \A k \in 1 .. p : SubSeq(Visible, 1, p)[k] = Visible[k]
  BY <1>1
<1>3. \A k \in 1 .. p : s[k] = SubSeq(Visible, 1, p)[k]
  BY <1>1, <1>2
<1> QED
  BY <1>2, <1>3, SeqEqual

(***************************************************************************)
(* Every step writes one line to the log, reads some bytes of it into one  *)
(* file, or changes nothing that a user of the chat sees: ReadCopy with a  *)
(* size of 0 is such a step.                                               *)
(***************************************************************************)
LEMMA LogStep ==
  ASSUME TypeOK, ChatInv, TypeOK', [Next]_vars
  PROVE  [Log!Next]_Log!logVars
<1> DEFINE Step == [Log!Next]_Log!logVars
<1>a. /\ buf_len \in Nat /\ Visible \in Seq(Cells) /\ Len(Visible) = buf_len
  BY VisibleSeq
<1>1. ASSUME buf_len' = buf_len, got' = got
      PROVE  Step
  <2>1. Visible' = Visible
    BY <1>1, FormatVisible
  <2> QED
    BY <1>1, <2>1 DEF Log!logVars, Visible
<1>2. ASSUME NEW w \in Writers, AppendPublish(w)
      PROVE  Step
  <2>1. PICK m \in Messages : m = msg[w]
    BY <1>2 DEF AppendPublish, ChatInv, AppendInv
  <2>2. PICK n \in 0 .. Len(Line(m)) :
          /\ n = scnprintf(m)
          /\ buf_len + n <= MSG_BUFF_SIZE - 1
          /\ n = Len(Line(m)) \/ buf_len + n = MSG_BUFF_SIZE - 1
    BY <2>1, LineSeq, StoredBytes
  <2>3. Visible' = Visible \o SubSeq(Line(m), 1, n) /\ got' = got
    BY <1>2, <2>1, <2>2, PublishVisible DEF AppendPublish, history
  <2>4. \E k \in 0 .. Len(Line(m)) :
          /\ Len(Visible) + k <= MSG_BUFF_SIZE - 1
          /\ k = Len(Line(m)) \/ Len(Visible) + k = MSG_BUFF_SIZE - 1
          /\ Visible' = Visible \o SubSeq(Line(m), 1, k)
    BY <1>a, <2>2, <2>3
  <2>5. Log!Write(m)
    BY <2>3, <2>4 DEF Log!Write, Visible
  <2> QED
    BY <2>5 DEF Log!Next
<1>3. ASSUME NEW r \in Readers, ReadCopy(r)
      PROVE  Step
  <2>0. GotInv /\ UNCHANGED <<buffer, buf_len>>
    BY <1>3 DEF ReadCopy, ChatInv, chat
  <2>1. PICK p \in Nat : p = ppos[r] /\ Len(got[r]) = p
    BY <2>0 DEF TypeOK, GotInv
  <2>2. /\ got' \in [Readers -> Seq(Cells)] /\ got \in [Readers -> Seq(Cells)]
        /\ ppos'[r] \in 0 .. buf_len /\ p <= ppos'[r]
        /\ Len(got'[r]) = ppos'[r]
        /\ \A k \in 1 .. ppos'[r] : got'[r][k] = buffer[k - 1]
        /\ \A q \in Readers \ {r} : got'[q] = got[q]
    BY <1>3, <2>0, <2>1, CopyBytes DEF GotInv
  <2>3. PICK n \in 0 .. buf_len : n = ppos'[r]
    BY <2>2
  <2>4. got'[r] = SubSeq(Visible, 1, n)
    BY <2>2, <2>3, GotPrefix
  <2>5. got' = [got EXCEPT ![r] = SubSeq(Visible, 1, n)]
    BY <2>2, <2>4
  <2>6. CASE n = p
    <3>1. got[r] = SubSeq(Visible, 1, p)
      BY <2>0, <2>1, <2>3, <2>6, GotPrefix, SMTT(40) DEF GotInv
    <3>2. got' = got
      BY <2>2, <2>5, <2>6, <3>1
    <3> QED
      BY <1>1, <2>0, <3>2
  <2>7. CASE n # p
    <3>1. n \in Len(got[r]) + 1 .. Len(Visible)
      BY <1>a, <2>1, <2>2, <2>3, <2>7
    <3>2. Visible' = Visible
      BY <2>0 DEF Visible
    <3>3. Log!Read(r)
      BY <2>5, <3>1, <3>2 DEF Log!Read, Visible
    <3> QED
      BY <3>3 DEF Log!Next
  <2> QED
    BY <2>6, <2>7
<1>4. \/ \E w \in Writers : AppendPublish(w)
      \/ \E r \in Readers : ReadCopy(r)
      \/ buf_len' = buf_len /\ got' = got
  BY BufferSteps, ReaderSteps DEF AppendFormat, chat
<1> QED
  BY <1>1, <1>2, <1>3, <1>4

(***************************************************************************)
(* chat.c and the IN command of bus.c implement the append-only log: with  *)
(* any number of concurrent writers the lines never mix, a line is cut     *)
(* only by the end of the buffer, and every open file returns the log from *)
(* its first byte, each byte once and in order.                            *)
(***************************************************************************)
THEOREM ChatRefinesLog == Spec => ImplementsLog
<1>1. Init => Log!Init
  BY DEF Init, Log!Init
<1> QED
  BY <1>1, LogStep, ChatInvariant, PTL DEF Spec, ImplementsLog, Log!Spec
=============================================================================
