---------------------------- MODULE NSwapProofs ----------------------------
(***************************************************************************)
(* Proofs about NSwap, for any number of CPUs, any requests and any size   *)
(* of the disk. The fairness of Spec is not used.                          *)
(***************************************************************************)
EXTENDS NSwap, TLAPS, FiniteSetTheorems, SequenceTheorems

(***************************************************************************)
(* The inductive invariant: what the module holds is known at every call   *)
(* of nswap_init and nswap_exit, whichever of the earlier calls failed.    *)
(***************************************************************************)
Everything == {"blkdev", "lstm", "tag_set", "disk", "queue"}

HeldInv ==
  /\ pc \in {"out", "lstm", "tag_set", "disk", "add_disk", "loaded", "del_gendisk",
             "put_disk_exit", "put_disk", "destroy_queue", "free_tag_set", "free_buffer",
             "unregister_blkdev"}
  /\ pc = "out" => held = {}
  /\ pc \in {"lstm", "unregister_blkdev"} => held = {"blkdev"}
  /\ pc \in {"tag_set", "free_buffer"} => held = {"blkdev", "lstm"}
  /\ pc \in {"disk", "free_tag_set", "destroy_queue"} => held = {"blkdev", "lstm", "tag_set"}
  /\ pc \in {"add_disk", "loaded", "del_gendisk", "put_disk", "put_disk_exit"} =>
       held = Everything

\* put_disk has released the queue before blk_mq_destroy_queue does: nothing else.
StaleInv == stale \subseteq {"queue"}

\* Requests enter while the disk is live and are gone when del_gendisk returns.
ServeInv ==
  /\ live => pc = "loaded"
  /\ pc \notin {"loaded", "del_gendisk"} => NoRequests

DiskInv == HeldInv /\ StaleInv /\ ServeInv

(***************************************************************************)
(* Each label releases what is held there, so the chain of labels that a   *)
(* failure enters fits what nswap_init had taken.                          *)
(***************************************************************************)
LEMMA HeldStep == DiskInv /\ [Next]_vars => HeldInv' /\ StaleInv'
<1> SUFFICES ASSUME HeldInv, StaleInv, [Next]_vars
             PROVE  HeldInv' /\ StaleInv'
  BY DEF DiskInv
<1> USE DEF HeldInv, StaleInv, Everything
<1>1. CASE UNCHANGED vars
  BY <1>1 DEF vars
<1>2. CASE alloc_lstm
  BY <1>2 DEF alloc_lstm, Take
<1>3. CASE Allocate
  BY <1>3 DEF Allocate, allocate, Take
<1>4. CASE add_disk \/ Shutdown
  BY <1>4 DEF add_disk, Shutdown, nswap_exit
<1>5. CASE Undo
  BY <1>5 DEF Undo, unwind, release, Release
<1>6. ASSUME NEW c \in CPUs, Serve(c) \/ \E rq \in Requests : queue_rq(c, rq)
      PROVE  UNCHANGED <<pc, held, stale>>
  BY <1>6 DEF Serve, lstm_step_begin, lstm_step_end, blk_mq_end_request, queue_rq
<1> QED
  BY <1>1, <1>2, <1>3, <1>4, <1>5, <1>6 DEF Next

\* No request is under way outside of the life of the disk.
LEMMA ServeStep == DiskInv /\ [Next]_vars => ServeInv'
<1> SUFFICES ASSUME HeldInv, ServeInv, [Next]_vars
             PROVE  ServeInv'
  BY DEF DiskInv
<1> USE DEF ServeInv, NoRequests
<1>1. CASE UNCHANGED vars
  BY <1>1 DEF vars
<1>2. CASE alloc_lstm
  BY <1>2 DEF alloc_lstm, Take
<1>3. CASE Allocate
  BY <1>3 DEF Allocate, allocate, Take
<1>4. CASE add_disk \/ Shutdown
  BY <1>4 DEF add_disk, Shutdown, nswap_exit
<1>5. CASE Undo
  BY <1>5 DEF Undo, unwind, release, Release
<1>6. ASSUME NEW c \in CPUs, Serve(c)
      PROVE  ServeInv'
  <2>1. cpu[c] # Idle /\ UNCHANGED <<pc, live>>
    BY <1>6 DEF Serve, lstm_step_begin, lstm_step_end, blk_mq_end_request
  <2> QED
    BY <2>1
<1>7. ASSUME NEW c \in CPUs, NEW rq \in Requests, queue_rq(c, rq)
      PROVE  ServeInv'
  <2>1. live /\ UNCHANGED <<pc, live>>
    BY <1>7 DEF queue_rq
  <2> QED
    BY <2>1
<1> QED
  BY <1>1, <1>2, <1>3, <1>4, <1>5, <1>6, <1>7 DEF Next

(***************************************************************************)
(* The invariant holds from the first insmod on.                           *)
(***************************************************************************)
THEOREM DiskInvariant == Spec => []DiskInv
<1>1. Init => DiskInv
  BY DEF Init, DiskInv, HeldInv, StaleInv, ServeInv, NoRequests
<1>2. DiskInv /\ [Next]_vars => DiskInv'
  BY HeldStep, ServeStep DEF DiskInv
<1> QED
  BY <1>1, <1>2, PTL DEF Spec

(***************************************************************************)
(* nswap_exit frees the LSTM, the tag set and the disk only when no CPU is *)
(* inside queue_rq, for any number of CPUs.                                *)
(***************************************************************************)
THEOREM DiskWhileServing == Spec => []DeviceWhileServing
<1>1. DiskInv => DeviceWhileServing
  BY DEF DiskInv, HeldInv, ServeInv, DeviceWhileServing, Everything
<1> QED
  BY <1>1, DiskInvariant, PTL

(***************************************************************************)
(* Every error path of nswap_init, and nswap_exit, releases all that was   *)
(* taken; only the queue of a disk that add_disk refused is released twice.*)
(***************************************************************************)
THEOREM DiskReleased == Spec => []AllReleased
<1>1. DiskInv => AllReleased
  BY DEF DiskInv, HeldInv, StaleInv, AllReleased
<1> QED
  BY <1>1, DiskInvariant, PTL

-----------------------------------------------------------------------------
(***************************************************************************)
(* What the LSTM has absorbed                                              *)
(***************************************************************************)

\* A request, written or read, is a sequence of inputs.
LEMMA InputsType == \A rq \in Requests : Inputs(rq) \in Seq(Byte)
<1> SUFFICES ASSUME NEW rq \in Requests PROVE Inputs(rq) \in Seq(Byte)
  OBVIOUS
<1>1. Bytes(rq) \in Seq(Byte) /\ Zero \in Byte
  BY RequestAssumption DEF Bytes
<1>2. [n \in 1 .. Len(Bytes(rq)) |-> Zero] \in Seq(Byte)
  BY <1>1
<1> QED
  BY <1>1, <1>2 DEF Inputs

\* The state of the LSTM and of the CPUs: the part of TypeOK about requests.
ServedType ==
  /\ lstm \in Seq(Byte) \cup {Torn} /\ done \in Seq(Byte)
  /\ cpu \in [CPUs -> Served \cup {Idle}]
  /\ \A c \in CPUs : cpu[c] # Idle /\ cpu[c].seen # Idle => cpu[c].todo # <<>>

Calls == alloc_lstm \/ Allocate \/ add_disk \/ Shutdown \/ Undo

\* The calls of nswap_init and nswap_exit touch no request; the LSTM is reset
\* before the disk exists.
LEMMA CallsApart ==
  ASSUME Calls, DiskInv
  PROVE  /\ cpu' = cpu
         /\ \/ lstm' = lstm /\ done' = done /\ count' = count
            \/ lstm' = <<>> /\ done' = <<>> /\ count' = 0 /\ NoRequests
  BY DEF Calls, DiskInv, ServeInv, alloc_lstm, Take, Allocate, add_disk, Shutdown, Undo

\* What lstm_step_end makes of what its CPU serves.
Updated(r, t, u) == [[r EXCEPT !.todo = t] EXCEPT !.seen = u]

\* Two fields of a record are replaced, one after the other.
LEMMA RecordUpdate ==
  ASSUME NEW r, NEW t, NEW u, r = [rq |-> r.rq, todo |-> r.todo, seen |-> r.seen]
  PROVE  Updated(r, t, u) = [rq |-> r.rq, todo |-> t, seen |-> u]
<1>1. PICK a, b, d : r = [rq |-> a, todo |-> b, seen |-> d]
  OBVIOUS
<1>2. [[[rq |-> a, todo |-> b, seen |-> d] EXCEPT !.todo = t] EXCEPT !.seen = u]
        = [rq |-> a, todo |-> t, seen |-> u]
  <2>1. PICK w : w = [[rq |-> a, todo |-> b, seen |-> d] EXCEPT !.todo = t]
    OBVIOUS
  <2>2. w = [rq |-> a, todo |-> t, seen |-> d]
    BY <2>1
  <2>3. [[rq |-> a, todo |-> t, seen |-> d] EXCEPT !.seen = u] = [rq |-> a, todo |-> t, seen |-> u]
    OBVIOUS
  <2> QED
    BY <2>1, <2>2, <2>3
<1>3. r.rq = a
  BY <1>1
<1>4. Updated(r, t, u) = [rq |-> a, todo |-> t, seen |-> u]
  BY <1>1, <1>2 DEF Updated
<1> QED
  BY <1>3, <1>4

\* The step at which lstm_step has written the state, of a request r that saw s.
LEMMA StepEnd ==
  ASSUME ServedType, NEW c \in CPUs, lstm_step_end(c)
  PROVE  \E r \in Served :
           /\ cpu[c] = r /\ r # Idle /\ r.seen # Idle /\ r.todo # <<>> /\ r.todo \in Seq(Byte)
           /\ Head(r.todo) \in Byte /\ Tail(r.todo) \in Seq(Byte) /\ Len(Tail(r.todo)) = Len(r.todo) - 1
           /\ cpu' = [cpu EXCEPT ![c] = [rq |-> r.rq, todo |-> Tail(r.todo), seen |-> Idle]]
           /\ done' = done
           /\ \/ lstm \in Seq(Byte) /\ lstm # Torn /\ lstm' = Append(lstm, Head(r.todo))
              \/ lstm' = Torn
<1>1. PICK r \in Served : r = cpu[c]
  BY DEF ServedType, lstm_step_end
<1>2. r # Idle /\ r.seen # Idle /\ r.todo # <<>> /\ done' = done
  BY <1>1 DEF ServedType, lstm_step_end
<1>3. r.todo \in Seq(Byte) /\ r = [rq |-> r.rq, todo |-> r.todo, seen |-> r.seen]
  BY DEF Served
<1>4. Head(r.todo) \in Byte /\ Tail(r.todo) \in Seq(Byte) /\ Len(Tail(r.todo)) = Len(r.todo) - 1
  BY <1>2, <1>3
<1>5. cpu' = [cpu EXCEPT ![c] = [rq |-> r.rq, todo |-> Tail(r.todo), seen |-> Idle]]
  <2>1. PICK s : s = [rq |-> r.rq, todo |-> Tail(r.todo), seen |-> Idle]
    OBVIOUS
  <2>2. DOMAIN cpu = CPUs
    BY DEF ServedType
  <2>3. cpu' = [cpu EXCEPT ![c].todo = Tail(@), ![c].seen = Idle]
    BY DEF lstm_step_end
  <2>4. cpu' = [d \in CPUs |-> IF d = c THEN Updated(r, Tail(r.todo), Idle) ELSE cpu[d]]
    BY <1>1, <2>2, <2>3 DEF Updated
  <2>5. Updated(r, Tail(r.todo), Idle) = s
    <3>1. r = [rq |-> r.rq, todo |-> r.todo, seen |-> r.seen]
      BY <1>3
    <3> QED
      BY <2>1, <3>1, RecordUpdate
  <2>6. cpu' = [cpu EXCEPT ![c] = s]
    BY <2>2, <2>4, <2>5
  <2> QED
    BY <2>1, <2>6
<1>6. \/ lstm \in Seq(Byte) /\ lstm # Torn /\ lstm' = Append(lstm, Head(r.todo))
      \/ lstm' = Torn
  <2>1. lstm' = IF cpu[c].seen = lstm /\ lstm # Torn THEN Append(lstm, Head(cpu[c].todo)) ELSE Torn
    BY DEF lstm_step_end
  <2> QED
    BY <1>1, <2>1 DEF ServedType
<1> QED
  BY <1>1, <1>2, <1>3, <1>4, <1>5, <1>6

\* The types of the state that requests touch.
LEMMA ServedStep == ServedType /\ DiskInv /\ [Next]_vars => ServedType'
<1> SUFFICES ASSUME ServedType, DiskInv, [Next]_vars
             PROVE  ServedType'
  OBVIOUS
<1>1. CASE UNCHANGED vars
  BY <1>1 DEF vars, ServedType
<1>2. CASE Calls
  <2>1. cpu' = cpu /\ ((lstm' = lstm /\ done' = done) \/ (lstm' = <<>> /\ done' = <<>>))
    BY <1>2, CallsApart
  <2>2. <<>> \in Seq(Byte)
    OBVIOUS
  <2> QED
    BY <2>1, <2>2 DEF ServedType
<1>3. ASSUME NEW c \in CPUs, NEW rq \in Requests, queue_rq(c, rq) PROVE ServedType'
  <2>1. PICK r : r = [rq |-> rq, todo |-> Inputs(rq), seen |-> Idle]
    OBVIOUS
  <2>2. r \in Served /\ r.seen = Idle
    BY <2>1, InputsType DEF Served
  <2>3. lstm' = lstm /\ done' = done /\ (cpu' = cpu \/ cpu' = [cpu EXCEPT ![c] = r])
    BY <1>3, <2>1 DEF queue_rq
  <2> QED
    BY <2>2, <2>3 DEF ServedType
<1>4. ASSUME NEW c \in CPUs, lstm_step_begin(c) PROVE ServedType'
  <2>1. PICK r \in Served : r = cpu[c]
    BY <1>4 DEF ServedType, lstm_step_begin
  <2>2. r = [rq |-> r.rq, todo |-> r.todo, seen |-> r.seen] /\ r.todo # <<>>
    BY <1>4, <2>1 DEF Served, lstm_step_begin
  <2>3. PICK s : s = [rq |-> r.rq, todo |-> r.todo, seen |-> lstm]
    OBVIOUS
  <2>4. cpu' = [cpu EXCEPT ![c] = s] /\ lstm' = lstm /\ done' = done
    <3>1. DOMAIN cpu = CPUs
      BY DEF ServedType
    <3>2. cpu' = [cpu EXCEPT ![c].seen = lstm] /\ lstm' = lstm /\ done' = done
      BY <1>4 DEF lstm_step_begin
    <3>3. cpu' = [d \in CPUs |-> IF d = c THEN [r EXCEPT !.seen = lstm] ELSE cpu[d]]
      BY <2>1, <3>1, <3>2
    <3>4. [r EXCEPT !.seen = lstm] = s
      BY <2>2, <2>3
    <3> QED
      BY <3>1, <3>2, <3>3, <3>4
  <2>5. s \in Served /\ s.todo # <<>>
    BY <2>2, <2>3 DEF Served, ServedType
  <2> QED
    BY <2>4, <2>5 DEF ServedType
<1>5. ASSUME NEW c \in CPUs, lstm_step_end(c) PROVE ServedType'
  <2>1. PICK r \in Served :
          /\ Tail(r.todo) \in Seq(Byte) /\ Head(r.todo) \in Byte /\ done' = done
          /\ cpu' = [cpu EXCEPT ![c] = [rq |-> r.rq, todo |-> Tail(r.todo), seen |-> Idle]]
          /\ \/ lstm \in Seq(Byte) /\ lstm' = Append(lstm, Head(r.todo))
             \/ lstm' = Torn
    BY <1>5, StepEnd
  <2>2. PICK s : s = [rq |-> r.rq, todo |-> Tail(r.todo), seen |-> Idle]
    OBVIOUS
  <2>3. s \in Served /\ s.seen = Idle /\ cpu' = [cpu EXCEPT ![c] = s]
    BY <2>1, <2>2 DEF Served
  <2>4. lstm' \in Seq(Byte) \cup {Torn}
    BY <2>1
  <2> QED
    BY <2>1, <2>3, <2>4 DEF ServedType
<1>6. ASSUME NEW c \in CPUs, blk_mq_end_request(c) PROVE ServedType'
  <2>1. PICK r \in Served : r = cpu[c]
    BY <1>6 DEF ServedType, blk_mq_end_request
  <2>2. Inputs(r.rq) \in Seq(Byte)
    BY InputsType DEF Served
  <2>3. done' = done \o Inputs(r.rq) /\ cpu' = [cpu EXCEPT ![c] = Idle] /\ lstm' = lstm
    BY <1>6, <2>1 DEF blk_mq_end_request, Inputs
  <2>4. done' \in Seq(Byte)
    BY <2>2, <2>3 DEF ServedType
  <2> QED
    BY <2>3, <2>4 DEF ServedType
<1> QED
  BY <1>1, <1>2, <1>3, <1>4, <1>5, <1>6 DEF Next, Serve, Calls

(***************************************************************************)
(* An input that the LSTM has absorbed comes from a completed request, or  *)
(* from one that a CPU is serving. Matched: src says from where for every  *)
(* input of the state s, and every input of the completed requests d and   *)
(* of the absorbed parts ab is there once.                                 *)
(***************************************************************************)
Completed(n) == [served |-> FALSE, by |-> 0, at |-> n]
Underway(c, n) == [served |-> TRUE, by |-> c, at |-> n]

Explained(x, d, ab, from) ==
  \/ \E n \in 1 .. Len(d) : from = Completed(n) /\ x = d[n]
  \/ \E c \in DOMAIN ab : \E n \in 1 .. Len(ab[c]) : from = Underway(c, n) /\ x = ab[c][n]

Matched(s, d, ab, src) ==
  /\ \A k \in 1 .. Len(s) : Explained(s[k], d, ab, src[k])
  /\ \A n \in 1 .. Len(d) : \E k \in 1 .. Len(s) : src[k] = Completed(n)
  /\ \A c \in DOMAIN ab : \A n \in 1 .. Len(ab[c]) : \E k \in 1 .. Len(s) : src[k] = Underway(c, n)
  /\ \A j, k \in 1 .. Len(s) : src[j] = src[k] => j = k

\* Sources are told apart by their names.
LEMMA SourceNames ==
  /\ \A n, m : Completed(n) = Completed(m) => n = m
  /\ \A c, n, b, m : Underway(c, n) = Underway(b, m) => c = b /\ n = m
  /\ \A c, n, m : Completed(m) # Underway(c, n)
  BY DEF Completed, Underway

\* A request that begins has nothing absorbed.
LEMMA MatchedBegin ==
  ASSUME NEW s, NEW d, NEW ab, NEW src, Matched(s, d, ab, src), NEW c, c \notin DOMAIN ab,
         NEW ab2, ab2 = [b \in DOMAIN ab \cup {c} |-> IF b = c THEN <<>> ELSE ab[b]]
  PROVE  Matched(s, d, ab2, src)
<1>1. DOMAIN ab2 = DOMAIN ab \cup {c} /\ ab2[c] = <<>> /\ \A b \in DOMAIN ab : ab2[b] = ab[b]
  OBVIOUS
<1>2. 1 .. Len(ab2[c]) = {}
  BY <1>1
<1>3. ASSUME NEW k \in 1 .. Len(s) PROVE Explained(s[k], d, ab2, src[k])
  <2>1. Explained(s[k], d, ab, src[k])
    BY DEF Matched
  <2> QED
    BY <1>1, <2>1 DEF Explained
<1>4. \A b \in DOMAIN ab2 : \A n \in 1 .. Len(ab2[b]) : \E k \in 1 .. Len(s) : src[k] = Underway(b, n)
  BY <1>1, <1>2 DEF Matched
<1> QED
  BY <1>3, <1>4 DEF Matched

\* A step of the LSTM absorbs one input of one request.
LEMMA MatchedStep ==
  ASSUME NEW s \in Seq(Byte), NEW d \in Seq(Byte), NEW ab, NEW src, Matched(s, d, ab, src),
         NEW c \in DOMAIN ab, ab[c] \in Seq(Byte), NEW x \in Byte,
         \A b \in DOMAIN ab : ab[b] \in Seq(Byte),
         NEW s2, s2 = Append(s, x),
         NEW ab2, ab2 = [b \in DOMAIN ab |-> IF b = c THEN Append(ab[c], x) ELSE ab[b]]
  PROVE  \E src2 : Matched(s2, d, ab2, src2)
<1> PICK last : last = Underway(c, Len(ab[c]) + 1)
  OBVIOUS
<1> PICK src2 : src2 = [k \in 1 .. Len(s) + 1 |-> IF k = Len(s) + 1 THEN last ELSE src[k]]
  OBVIOUS
<1>1. /\ Len(s) \in Nat /\ Len(s2) = Len(s) + 1 /\ s2[Len(s) + 1] = x
      /\ \A k \in 1 .. Len(s) : s2[k] = s[k]
  OBVIOUS
<1>2. /\ DOMAIN ab2 = DOMAIN ab /\ Len(ab[c]) \in Nat /\ Len(ab2[c]) = Len(ab[c]) + 1
      /\ ab2[c][Len(ab[c]) + 1] = x
      /\ \A n \in 1 .. Len(ab[c]) : ab2[c][n] = ab[c][n]
      /\ \A b \in DOMAIN ab : b # c => ab2[b] = ab[b]
  OBVIOUS
<1>3. \A b \in DOMAIN ab : \A n \in 1 .. Len(ab[b]) : n \in 1 .. Len(ab2[b]) /\ ab2[b][n] = ab[b][n]
  BY <1>2
<1>4. \A k \in 1 .. Len(s2) : k = Len(s) + 1 \/ k \in 1 .. Len(s)
  BY <1>1
<1>5. src2[Len(s) + 1] = last /\ \A k \in 1 .. Len(s) : src2[k] = src[k]
  BY <1>1
<1>6. ASSUME NEW k \in 1 .. Len(s) PROVE src[k] # last
  <2>1. Explained(s[k], d, ab, src[k])
    BY DEF Matched
  <2>2. \A n \in 1 .. Len(ab[c]) : n # Len(ab[c]) + 1
    BY <1>2
  <2> QED
    BY <2>1, <2>2, SourceNames DEF Explained
<1>7. ASSUME NEW k \in 1 .. Len(s2) PROVE Explained(s2[k], d, ab2, src2[k])
  <2>1. CASE k = Len(s) + 1
    <3>1. Len(ab[c]) + 1 \in 1 .. Len(ab2[c])
      BY <1>2
    <3> QED
      BY <1>1, <1>2, <1>5, <2>1, <3>1 DEF Explained
  <2>2. CASE k \in 1 .. Len(s)
    <3>1. Explained(s[k], d, ab, src[k])
      BY <2>2 DEF Matched
    <3> QED
      BY <1>1, <1>2, <1>3, <1>5, <2>2, <3>1 DEF Explained
  <2> QED
    BY <1>4, <2>1, <2>2
<1>8. \A n \in 1 .. Len(d) : \E k \in 1 .. Len(s2) : src2[k] = Completed(n)
  <2>1. \A k \in 1 .. Len(s) : k \in 1 .. Len(s2)
    BY <1>1
  <2> QED
    BY <1>5, <2>1 DEF Matched
<1>9. ASSUME NEW b \in DOMAIN ab2, NEW n \in 1 .. Len(ab2[b])
      PROVE  \E k \in 1 .. Len(s2) : src2[k] = Underway(b, n)
  <2>1. CASE b = c /\ n = Len(ab[c]) + 1
    <3>1. Len(s) + 1 \in 1 .. Len(s2)
      BY <1>1
    <3> QED
      BY <1>5, <2>1, <3>1
  <2>2. CASE ~(b = c /\ n = Len(ab[c]) + 1)
    <3>1. b \in DOMAIN ab /\ n \in 1 .. Len(ab[b])
      BY <1>2, <2>2
    <3>2. \A k \in 1 .. Len(s) : k \in 1 .. Len(s2)
      BY <1>1
    <3> QED
      BY <1>5, <3>1, <3>2 DEF Matched
  <2> QED
    BY <2>1, <2>2
<1>10. \A j, k \in 1 .. Len(s2) : src2[j] = src2[k] => j = k
  BY <1>4, <1>5, <1>6 DEF Matched
<1>11. Matched(s2, d, ab2, src2)
  BY <1>7, <1>8, <1>9, <1>10 DEF Matched
<1> QED
  BY <1>11

\* A request that ends has been absorbed whole.
LEMMA MatchedEnd ==
  ASSUME NEW s, NEW d \in Seq(Byte), NEW ab, NEW src, Matched(s, d, ab, src),
         NEW c \in DOMAIN ab, ab[c] \in Seq(Byte),
         NEW d2, d2 = d \o ab[c], NEW ab2, ab2 = [b \in DOMAIN ab \ {c} |-> ab[b]]
  PROVE  \E src2 : Matched(s, d2, ab2, src2)
<1> DEFINE Of(k) == \E n \in 1 .. Len(ab[c]) : src[k] = Underway(c, n)
           N(k) == CHOOSE n \in 1 .. Len(ab[c]) : src[k] = Underway(c, n)
<1>1. ASSUME NEW k, Of(k) PROVE N(k) \in 1 .. Len(ab[c]) /\ src[k] = Underway(c, N(k))
  BY <1>1
<1> HIDE DEF N
<1> PICK src2 : src2 = [k \in 1 .. Len(s) |-> IF Of(k) THEN Completed(Len(d) + N(k)) ELSE src[k]]
  OBVIOUS
<1>2. /\ Len(d) \in Nat /\ Len(ab[c]) \in Nat /\ Len(d2) = Len(d) + Len(ab[c])
      /\ \A n \in 1 .. Len(d) : n \in 1 .. Len(d2) /\ d2[n] = d[n]
      /\ \A n \in 1 .. Len(ab[c]) : Len(d) + n \in 1 .. Len(d2) /\ d2[Len(d) + n] = ab[c][n]
      /\ \A n \in 1 .. Len(d2) : n \in 1 .. Len(d) \/ \E m \in 1 .. Len(ab[c]) : n = Len(d) + m
  <2>1. Len(d) \in Nat /\ Len(ab[c]) \in Nat /\ Len(d2) = Len(d) + Len(ab[c])
    OBVIOUS
  <2>2. \A n \in 1 .. Len(d) : n \in 1 .. Len(d2) /\ d2[n] = d[n]
    BY <2>1
  <2>3. \A n \in 1 .. Len(ab[c]) : Len(d) + n \in 1 .. Len(d2) /\ d2[Len(d) + n] = ab[c][n]
    BY <2>1
  <2>4. ASSUME NEW n \in 1 .. Len(d2)
        PROVE  n \in 1 .. Len(d) \/ \E m \in 1 .. Len(ab[c]) : n = Len(d) + m
    <3>1. CASE n <= Len(d)
      BY <2>1, <3>1
    <3>2. CASE n > Len(d)
      <4>1. n - Len(d) \in 1 .. Len(ab[c]) /\ n = Len(d) + (n - Len(d))
        BY <2>1, <3>2
      <4> QED
        BY <4>1
    <3> QED
      BY <2>1, <3>1, <3>2
  <2> QED
    BY <2>1, <2>2, <2>3, <2>4
<1>3. DOMAIN ab2 = DOMAIN ab \ {c} /\ \A b \in DOMAIN ab2 : ab2[b] = ab[b]
  OBVIOUS
<1>4. \A k \in 1 .. Len(s) : Explained(s[k], d, ab, src[k])
  BY DEF Matched
<1>5. ASSUME NEW k \in 1 .. Len(s), Of(k)
      PROVE  /\ N(k) \in 1 .. Len(ab[c]) /\ src[k] = Underway(c, N(k))
             /\ src2[k] = Completed(Len(d) + N(k)) /\ s[k] = ab[c][N(k)]
  <2>1. N(k) \in 1 .. Len(ab[c]) /\ src[k] = Underway(c, N(k))
    BY <1>1, <1>5
  <2>2. s[k] = ab[c][N(k)]
    BY <1>4, <2>1, SourceNames, SMTT(40) DEF Explained
  <2> QED
    BY <1>5, <2>1, <2>2
<1>6. ASSUME NEW k \in 1 .. Len(s), ~Of(k) PROVE src2[k] = src[k]
  BY <1>6
<1>7. ASSUME NEW k \in 1 .. Len(s) PROVE Explained(s[k], d2, ab2, src2[k])
  <2>1. CASE Of(k)
    <3>1. N(k) \in 1 .. Len(ab[c]) /\ src2[k] = Completed(Len(d) + N(k)) /\ s[k] = ab[c][N(k)]
      BY <1>5, <2>1
    <3>2. Len(d) + N(k) \in 1 .. Len(d2) /\ d2[Len(d) + N(k)] = ab[c][N(k)]
      BY <1>2, <3>1
    <3> QED
      BY <3>1, <3>2 DEF Explained
  <2>2. CASE ~Of(k)
    <3>1. src2[k] = src[k] /\ Explained(s[k], d, ab, src[k])
      BY <1>4, <1>6, <2>2
    <3>2. CASE \E n \in 1 .. Len(d) : src[k] = Completed(n) /\ s[k] = d[n]
      BY <1>2, <3>1, <3>2 DEF Explained
    <3>3. CASE \E b \in DOMAIN ab : \E n \in 1 .. Len(ab[b]) : src[k] = Underway(b, n) /\ s[k] = ab[b][n]
      BY <1>3, <2>2, <3>1, <3>3 DEF Explained
    <3> QED
      BY <3>1, <3>2, <3>3 DEF Explained
  <2> QED
    BY <2>1, <2>2
<1>8. ASSUME NEW n \in 1 .. Len(d2) PROVE \E k \in 1 .. Len(s) : src2[k] = Completed(n)
  <2>1. CASE n \in 1 .. Len(d)
    <3>1. PICK k \in 1 .. Len(s) : src[k] = Completed(n)
      BY <2>1 DEF Matched
    <3>2. ~Of(k)
      BY <3>1, SourceNames
    <3> QED
      BY <1>6, <3>1, <3>2
  <2>2. ASSUME NEW m \in 1 .. Len(ab[c]), n = Len(d) + m PROVE \E k \in 1 .. Len(s) : src2[k] = Completed(n)
    <3>1. PICK k \in 1 .. Len(s) : src[k] = Underway(c, m)
      BY DEF Matched
    <3>2. Of(k)
      BY <3>1
    <3>3. N(k) = m /\ src2[k] = Completed(Len(d) + N(k))
      <4>1. src[k] = Underway(c, N(k)) /\ src2[k] = Completed(Len(d) + N(k))
        BY <1>5, <3>2
      <4>2. PICK e : e = N(k)
        OBVIOUS
      <4>3. Underway(c, e) = Underway(c, m)
        BY <3>1, <4>1, <4>2
      <4> QED
        BY <4>1, <4>2, <4>3, SourceNames
    <3> QED
      BY <2>2, <3>3
  <2> QED
    BY <1>2, <2>1, <2>2
<1>9. ASSUME NEW b \in DOMAIN ab2, NEW n \in 1 .. Len(ab2[b])
      PROVE  \E k \in 1 .. Len(s) : src2[k] = Underway(b, n)
  <2>1. PICK k \in 1 .. Len(s) : src[k] = Underway(b, n)
    BY <1>3 DEF Matched
  <2>2. ~Of(k)
    BY <1>3, <2>1, SourceNames
  <2> QED
    BY <1>6, <2>1, <2>2
<1>10. ASSUME NEW j \in 1 .. Len(s), NEW k \in 1 .. Len(s), src2[j] = src2[k] PROVE j = k
  <2>1. ASSUME NEW i \in 1 .. Len(s), Of(i), NEW m \in 1 .. Len(s), ~Of(m), src2[i] = src2[m]
        PROVE  FALSE
    <3>1. src[m] = Completed(Len(d) + N(i)) /\ N(i) \in 1 .. Len(ab[c])
      BY <1>5, <1>6, <2>1
    <3>2. \A n \in 1 .. Len(d) : n # Len(d) + N(i)
      BY <1>2, <3>1
    <3>3. Explained(s[m], d, ab, src[m])
      BY <1>4
    <3>4. PICK e : e = Len(d) + N(i)
      OBVIOUS
    <3>5. src[m] = Completed(e) /\ \A n \in 1 .. Len(d) : n # e
      BY <3>1, <3>2, <3>4
    <3> QED
      BY <3>3, <3>5, SourceNames DEF Explained
  <2>2. CASE Of(j) /\ Of(k)
    <3>1. PICK e, f : e = Len(d) + N(j) /\ f = Len(d) + N(k)
      OBVIOUS
    <3>2. Completed(e) = Completed(f)
      BY <1>5, <1>10, <2>2, <3>1
    <3>3. e = f
      BY <3>2, SourceNames
    <3>4. N(j) \in 1 .. Len(ab[c]) /\ N(k) \in 1 .. Len(ab[c])
      BY <1>5, <2>2
    <3>5. N(j) = N(k)
      BY <1>2, <3>1, <3>3, <3>4
    <3>6. src[j] = src[k]
      BY <1>5, <2>2, <3>5
    <3> QED
      BY <3>6 DEF Matched
  <2>3. CASE ~Of(j) /\ ~Of(k)
    <3>1. src[j] = src[k]
      BY <1>6, <1>10, <2>3
    <3> QED
      BY <3>1 DEF Matched
  <2> QED
    BY <1>10, <2>1, <2>2, <2>3
<1>11. Matched(s, d2, ab2, src2)
  BY <1>7, <1>8, <1>9, <1>10 DEF Matched
<1> QED
  BY <1>11

\* Taking the head of the one sequence to the end of the other.
LEMMA MoveHead ==
  ASSUME NEW a \in Seq(Byte), NEW t \in Seq(Byte), t # <<>>
  PROVE  Append(a, Head(t)) \o Tail(t) = a \o t
<1>1. Len(a) \in Nat /\ Len(t) \in Nat /\ Len(t) > 0 /\ Head(t) \in Byte /\ Tail(t) \in Seq(Byte)
  OBVIOUS
<1>2. PICK b \in Seq(Byte) : b = Append(a, Head(t))
  <2>1. PICK x \in Byte : x = Head(t)
    BY <1>1
  <2>2. Append(a, x) \in Seq(Byte)
    OBVIOUS
  <2> QED
    BY <2>1, <2>2
<1>3. PICK u \in Seq(Byte) : u = Tail(t)
  BY <1>1
<1>4. /\ Len(b) = Len(a) + 1 /\ b[Len(a) + 1] = t[1] /\ \A n \in 1 .. Len(a) : b[n] = a[n]
      /\ Len(u) = Len(t) - 1 /\ \A n \in 1 .. Len(u) : u[n] = t[n + 1]
  BY <1>1, <1>2, <1>3
<1>5. Len(b \o u) = Len(a \o t) /\ Len(a \o t) = Len(a) + Len(t)
  <2>1. Len(b \o u) = Len(b) + Len(u) /\ Len(a \o t) = Len(a) + Len(t)
    BY ConcatProperties
  <2> QED
    BY <1>1, <1>4, <2>1
<1>6. ASSUME NEW n \in 1 .. Len(a) + Len(t) PROVE (b \o u)[n] = (a \o t)[n]
  <2>1. CASE n <= Len(a)
    BY <1>1, <1>4, <2>1
  <2>2. CASE n = Len(a) + 1
    BY <1>1, <1>4, <2>2
  <2>3. CASE n > Len(a) + 1
    <3>1. (b \o u)[n] = u[n - (Len(a) + 1)] /\ (a \o t)[n] = t[n - Len(a)]
      BY <1>1, <1>4, <2>3
    <3>2. n - (Len(a) + 1) \in 1 .. Len(u) /\ (n - (Len(a) + 1)) + 1 = n - Len(a)
      BY <1>1, <1>4, <2>3
    <3> QED
      BY <1>4, <3>1, <3>2
  <2>4. n <= Len(a) \/ n = Len(a) + 1 \/ n > Len(a) + 1
    BY <1>1
  <2> QED
    BY <2>1, <2>2, <2>3, <2>4
<1>7. b \o u \in Seq(Byte) /\ a \o t \in Seq(Byte)
  OBVIOUS
<1>8. b \o u = a \o t
  <2>1. PICK v \in Seq(Byte), w \in Seq(Byte) : v = b \o u /\ w = a \o t
    BY <1>7
  <2>2. Len(v) = Len(w) /\ \A n \in 1 .. Len(v) : v[n] = w[n]
    BY <1>5, <1>6, <2>1
  <2>3. v = w
    BY <2>2, SeqEqual
  <2> QED
    BY <2>1, <2>3
<1> QED
  BY <1>2, <1>3, <1>8

(***************************************************************************)
(* The invariant: what is absorbed of a request and what is left of it are *)
(* its inputs, and the state of the LSTM is matched with what is absorbed  *)
(* and what is completed.                                                  *)
(***************************************************************************)
Busy == {c \in CPUs : cpu[c] # Idle}

Parts(ab) ==
  /\ ab = [c \in Busy |-> ab[c]]
  /\ \A c \in Busy : ab[c] \in Seq(Byte) /\ ab[c] \o cpu[c].todo = Inputs(cpu[c].rq)

AbsorbInv ==
  \E ab : Parts(ab) /\ (lstm # Torn => \E src : Matched(lstm, done, ab, src))

\* Nothing but the requests that were completed is in the state between two
\* requests.
LEMMA AbsorbStep == AbsorbInv /\ ServedType /\ DiskInv /\ [Next]_vars => AbsorbInv'
<1> SUFFICES ASSUME AbsorbInv, ServedType, DiskInv, [Next]_vars
             PROVE  AbsorbInv'
  OBVIOUS
<1> PICK ab : Parts(ab) /\ (lstm # Torn => \E src : Matched(lstm, done, ab, src))
  BY DEF AbsorbInv
<1>0. /\ DOMAIN ab = Busy /\ DOMAIN cpu = CPUs /\ done \in Seq(Byte)
      /\ \A c \in Busy : ab[c] \in Seq(Byte) /\ ab[c] \o cpu[c].todo = Inputs(cpu[c].rq)
  BY DEF Parts, ServedType
<1>1. ASSUME cpu' = cpu, lstm' = lstm, done' = done PROVE AbsorbInv'
  <2>1. Parts(ab)'
    BY <1>1 DEF Parts, Busy
  <2> QED
    BY <1>1, <2>1 DEF AbsorbInv
<1>2. CASE UNCHANGED vars
  BY <1>1, <1>2 DEF vars
<1>3. CASE Calls
  <2>1. cpu' = cpu /\ ((lstm' = lstm /\ done' = done) \/ (lstm' = <<>> /\ done' = <<>> /\ NoRequests))
    BY <1>3, CallsApart
  <2>2. ASSUME lstm' = <<>>, done' = <<>>, NoRequests PROVE AbsorbInv'
    <3>1. Busy = {} /\ Parts(ab)'
      BY <2>1, <2>2 DEF Busy, NoRequests, Parts
    <3>2. Matched(<<>>, <<>>, ab, ab)
      BY <1>0, <3>1 DEF Matched
    <3> QED
      BY <2>2, <3>1, <3>2 DEF AbsorbInv
  <2> QED
    BY <1>1, <2>1, <2>2
<1>4. ASSUME NEW c \in CPUs, NEW rq \in Requests, queue_rq(c, rq) PROVE AbsorbInv'
  <2>1. lstm' = lstm /\ done' = done /\ cpu[c] = Idle
    BY <1>4 DEF queue_rq
  <2>2. CASE cpu' = cpu
    BY <1>1, <2>1, <2>2
  <2>3. CASE cpu' = [cpu EXCEPT ![c] = [rq |-> rq, todo |-> Inputs(rq), seen |-> Idle]]
    <3>1. PICK r : r = [rq |-> rq, todo |-> Inputs(rq), seen |-> Idle]
      OBVIOUS
    <3>2. r \in Served /\ r # Idle /\ r.todo = Inputs(r.rq) /\ Inputs(r.rq) \in Seq(Byte)
      BY <3>1, InputsType, IdleAssumption DEF Served
    <3>3. c \notin Busy /\ Busy' = Busy \cup {c} /\ cpu'[c] = r /\ \A b \in Busy : cpu'[b] = cpu[b]
      BY <1>0, <2>1, <2>3, <3>1, <3>2 DEF Busy
    <3>4. PICK ab2 : ab2 = [b \in DOMAIN ab \cup {c} |-> IF b = c THEN <<>> ELSE ab[b]]
      OBVIOUS
    <3>5. Parts(ab2)'
      <4>1. <<>> \in Seq(Byte) /\ <<>> \o Inputs(r.rq) = Inputs(r.rq)
        BY <3>2
      <4>2. ab2 = [b \in Busy' |-> ab2[b]] /\ ab2[c] = <<>> /\ \A b \in Busy : ab2[b] = ab[b]
        BY <1>0, <3>3, <3>4
      <4> QED
        BY <1>0, <3>2, <3>3, <4>1, <4>2 DEF Parts
    <3>6. ASSUME lstm' # Torn PROVE \E src : Matched(lstm', done', ab2, src)
      <4>1. PICK src : Matched(lstm, done, ab, src)
        BY <2>1, <3>6
      <4>2. PICK s, d : s = lstm /\ d = done
        OBVIOUS
      <4>3. Matched(s, d, ab, src) /\ c \notin DOMAIN ab
        BY <1>0, <3>3, <4>1, <4>2
      <4>4. Matched(s, d, ab2, src)
        BY <3>4, <4>3, MatchedBegin
      <4> QED
        BY <2>1, <4>2, <4>4
    <3> QED
      BY <3>5, <3>6 DEF AbsorbInv
  <2> QED
    BY <1>4, <2>2, <2>3 DEF queue_rq
<1>5. ASSUME NEW c \in CPUs, lstm_step_begin(c) PROVE AbsorbInv'
  <2>1. lstm' = lstm /\ done' = done /\ cpu' = [cpu EXCEPT ![c].seen = lstm] /\ cpu[c] # Idle
    BY <1>5 DEF lstm_step_begin
  <2>2. PICK r \in Served : r = cpu[c]
    BY <2>1 DEF ServedType
  <2>3. cpu'[c] = [r EXCEPT !.seen = lstm] /\ \A b \in CPUs : b # c => cpu'[b] = cpu[b]
    BY <1>0, <2>1, <2>2
  <2>4. cpu'[c].rq = cpu[c].rq /\ cpu'[c].todo = cpu[c].todo /\ cpu'[c] \in Served
    <3>1. r = [rq |-> r.rq, todo |-> r.todo, seen |-> r.seen]
      BY DEF Served
    <3>2. [r EXCEPT !.seen = lstm] = [rq |-> r.rq, todo |-> r.todo, seen |-> lstm]
      BY <3>1
    <3>3. [rq |-> r.rq, todo |-> r.todo, seen |-> lstm] \in Served
      BY DEF Served, ServedType
    <3> QED
      BY <2>2, <2>3, <3>2, <3>3
  <2>5. Busy' = Busy /\ \A b \in Busy : cpu'[b].rq = cpu[b].rq /\ cpu'[b].todo = cpu[b].todo
    BY <2>1, <2>3, <2>4, IdleAssumption DEF Busy
  <2>6. Parts(ab)'
    BY <1>0, <2>5 DEF Parts
  <2> QED
    BY <2>1, <2>6 DEF AbsorbInv
<1>6. ASSUME NEW c \in CPUs, lstm_step_end(c) PROVE AbsorbInv'
  <2>1. PICK r \in Served :
          /\ cpu[c] = r /\ r # Idle /\ r.todo # <<>> /\ r.todo \in Seq(Byte)
          /\ Head(r.todo) \in Byte /\ Tail(r.todo) \in Seq(Byte)
          /\ cpu' = [cpu EXCEPT ![c] = [rq |-> r.rq, todo |-> Tail(r.todo), seen |-> Idle]]
          /\ done' = done
          /\ \/ lstm \in Seq(Byte) /\ lstm # Torn /\ lstm' = Append(lstm, Head(r.todo))
             \/ lstm' = Torn
    BY <1>6, StepEnd
  <2>2. PICK x \in Byte : x = Head(r.todo)
    BY <2>1
  <2>3. PICK r2 : r2 = [rq |-> r.rq, todo |-> Tail(r.todo), seen |-> Idle]
    OBVIOUS
  <2>4. r2 \in Served /\ r2 # Idle /\ r2.rq = r.rq /\ r2.todo = Tail(r.todo)
    <3>1. r.rq \in Requests
      BY DEF Served
    <3>2. PICK t \in Seq(Byte) : t = Tail(r.todo)
      BY <2>1
    <3>3. r2 = [rq |-> r.rq, todo |-> t, seen |-> Idle]
      BY <2>3, <3>2
    <3>4. r2 \in Served /\ r2.rq = r.rq /\ r2.todo = t
      BY <3>1, <3>3 DEF Served
    <3> QED
      BY <3>2, <3>4, IdleAssumption
  <2>5. c \in Busy /\ Busy' = Busy /\ cpu'[c] = r2 /\ \A b \in Busy : b # c => cpu'[b] = cpu[b]
    BY <1>0, <2>1, <2>3, <2>4 DEF Busy
  <2>6. PICK ab2 : ab2 = [b \in DOMAIN ab |-> IF b = c THEN Append(ab[c], x) ELSE ab[b]]
    OBVIOUS
  <2>7. Parts(ab2)'
    <3>1. Append(ab[c], x) \in Seq(Byte)
      BY <1>0, <2>5
    <3>2. ab2 = [b \in Busy |-> ab2[b]] /\ ab2[c] = Append(ab[c], x) /\ \A b \in Busy : b # c => ab2[b] = ab[b]
      BY <1>0, <2>5, <2>6
    <3>3. Append(ab[c], x) \o Tail(r.todo) = Inputs(r.rq)
      <4>1. ab[c] \in Seq(Byte) /\ ab[c] \o r.todo = Inputs(r.rq)
        BY <1>0, <2>1, <2>5
      <4>2. Append(ab[c], Head(r.todo)) \o Tail(r.todo) = ab[c] \o r.todo
        BY <2>1, <4>1, MoveHead
      <4> QED
        BY <2>2, <4>1, <4>2
    <3> QED
      BY <1>0, <2>4, <2>5, <3>1, <3>2, <3>3 DEF Parts
  <2>8. ASSUME lstm' # Torn PROVE \E src : Matched(lstm', done', ab2, src)
    <3>1. lstm \in Seq(Byte) /\ lstm # Torn /\ lstm' = Append(lstm, x)
      BY <2>1, <2>2, <2>8
    <3>2. PICK src : Matched(lstm, done, ab, src)
      BY <3>1
    <3>3. PICK s \in Seq(Byte), d \in Seq(Byte) : s = lstm /\ d = done
      BY <1>0, <3>1
    <3>4. PICK s2 : s2 = Append(s, x)
      OBVIOUS
    <3>5. Matched(s, d, ab, src) /\ c \in DOMAIN ab /\ \A b \in DOMAIN ab : ab[b] \in Seq(Byte)
      BY <1>0, <2>5, <3>2, <3>3
    <3>6. \E src2 : Matched(s2, d, ab2, src2)
      BY <2>6, <3>4, <3>5, MatchedStep
    <3> QED
      BY <2>1, <3>1, <3>3, <3>4, <3>6
  <2> QED
    BY <2>7, <2>8 DEF AbsorbInv
<1>7. ASSUME NEW c \in CPUs, blk_mq_end_request(c) PROVE AbsorbInv'
  <2>1. cpu[c] # Idle /\ cpu[c].todo = <<>> /\ cpu' = [cpu EXCEPT ![c] = Idle] /\ lstm' = lstm
    BY <1>7 DEF blk_mq_end_request
  <2>2. done' = done \o Inputs(cpu[c].rq)
    BY <1>7 DEF blk_mq_end_request, Inputs
  <2>3. c \in Busy /\ Busy' = Busy \ {c} /\ \A b \in Busy : b # c => cpu'[b] = cpu[b]
    BY <1>0, <2>1 DEF Busy
  <2>4. ab[c] \in Seq(Byte) /\ ab[c] = Inputs(cpu[c].rq)
    <3>1. ab[c] \in Seq(Byte) /\ ab[c] \o <<>> = Inputs(cpu[c].rq)
      BY <1>0, <2>1, <2>3
    <3>2. ab[c] \o <<>> = ab[c]
      BY <3>1
    <3> QED
      BY <3>1, <3>2
  <2>5. PICK ab2 : ab2 = [b \in DOMAIN ab \ {c} |-> ab[b]]
    OBVIOUS
  <2>6. Parts(ab2)'
    <3>1. ab2 = [b \in Busy' |-> ab2[b]] /\ \A b \in Busy' : ab2[b] = ab[b] /\ b \in Busy /\ b # c
      BY <1>0, <2>3, <2>5
    <3> QED
      BY <1>0, <2>3, <3>1 DEF Parts
  <2>7. ASSUME lstm' # Torn PROVE \E src : Matched(lstm', done', ab2, src)
    <3>1. PICK src : Matched(lstm, done, ab, src)
      BY <2>1, <2>7
    <3>2. PICK d \in Seq(Byte) : d = done
      BY <1>0
    <3>3. PICK s, d2 : s = lstm /\ d2 = d \o ab[c]
      OBVIOUS
    <3>4. Matched(s, d, ab, src) /\ c \in DOMAIN ab
      BY <1>0, <2>3, <3>1, <3>2, <3>3
    <3>5. \E src2 : Matched(s, d2, ab2, src2)
      BY <2>4, <2>5, <3>3, <3>4, MatchedEnd
    <3> QED
      BY <2>1, <2>2, <2>4, <3>2, <3>3, <3>5
  <2> QED
    BY <2>6, <2>7 DEF AbsorbInv
<1> QED
  BY <1>2, <1>3, <1>4, <1>5, <1>6, <1>7 DEF Next, Serve, Calls

\* The flag of the disk and the counter of the model.
FlagsType == live \in BOOLEAN /\ count \in 0 .. MaxRequests

AllInv == DiskInv /\ ServedType /\ AbsorbInv /\ FlagsType

(***************************************************************************)
(* At every moment, and however the CPUs interleave, the LSTM is torn or   *)
(* its state is matched, input by input, with what the completed requests  *)
(* contained and what is absorbed of the ones under way.                   *)
(***************************************************************************)
THEOREM AbsorbInvariant == Spec => []AllInv
<1>1. Init => AllInv
  <2> SUFFICES ASSUME Init PROVE AllInv
    OBVIOUS
  <2>1. DiskInv /\ FlagsType
    <3>1. DiskInv
      BY DEF Init, DiskInv, HeldInv, StaleInv, ServeInv, NoRequests
    <3>2. live = FALSE /\ count = 0
      BY DEF Init
    <3>3. count \in 0 .. MaxRequests
      BY <3>2, NSwapAssumption
    <3>4. live \in BOOLEAN
      BY <3>2
    <3> QED
      BY <3>1, <3>3, <3>4 DEF FlagsType
  <2>2. ServedType
    BY DEF Init, ServedType
  <2>3. PICK ab : ab = [c \in {} |-> <<>>]
    OBVIOUS
  <2>4. Busy = {} /\ DOMAIN ab = {} /\ Parts(ab)
    BY <2>3 DEF Init, Busy, Parts
  <2>5. Matched(<<>>, <<>>, ab, ab)
    BY <2>4 DEF Matched
  <2>6. AbsorbInv
    BY <2>4, <2>5 DEF Init, AbsorbInv
  <2> QED
    BY <2>1, <2>2, <2>6 DEF AllInv
<1>2. AllInv /\ [Next]_vars => AllInv'
  <2> SUFFICES ASSUME AllInv, [Next]_vars PROVE AllInv'
    OBVIOUS
  <2>1. DiskInv' /\ ServedType' /\ AbsorbInv'
    BY HeldStep, ServeStep, ServedStep, AbsorbStep DEF AllInv, DiskInv
  <2>2. FlagsType'
    <3> USE DEF FlagsType
    <3>1. live \in BOOLEAN /\ count \in 0 .. MaxRequests
      BY DEF AllInv
    <3>2. CASE UNCHANGED vars
      BY <3>1, <3>2 DEF vars
    <3>3. CASE Calls
      <4>1. count' = count \/ count' = 0
        BY <3>3, CallsApart DEF AllInv
      <4>2. live' = live \/ live' = TRUE \/ live' = FALSE
        BY <3>3 DEF Calls, alloc_lstm, Allocate, add_disk, Shutdown, nswap_exit, Undo
      <4>3. count' \in 0 .. MaxRequests
        BY <3>1, <4>1, NSwapAssumption
      <4> QED
        BY <3>1, <4>1, <4>2, <4>3
    <3>4. ASSUME NEW c \in CPUs, Serve(c) PROVE UNCHANGED <<live, count>>
      BY <3>4 DEF Serve, lstm_step_begin, lstm_step_end, blk_mq_end_request
    <3>5. ASSUME NEW c \in CPUs, NEW rq \in Requests, queue_rq(c, rq) PROVE FlagsType'
      <4>1. count < MaxRequests /\ count' = count + 1 /\ live' = live
        BY <3>5 DEF queue_rq
      <4>2. count' \in 0 .. MaxRequests
        BY <3>1, <4>1, NSwapAssumption
      <4> QED
        BY <3>1, <4>1, <4>2
    <3> QED
      BY <3>1, <3>2, <3>3, <3>4, <3>5 DEF Next, Calls
  <2> QED
    BY <2>1, <2>2 DEF AllInv
<1> QED
  BY <1>1, <1>2, PTL DEF Spec

(***************************************************************************)
(* Every variable has its type, and a step of the LSTM that is under way   *)
(* has an input to work on.                                                *)
(***************************************************************************)
THEOREM DiskTypes == Spec => []TypeOK
<1>1. AllInv => TypeOK
  <2> SUFFICES ASSUME AllInv PROVE TypeOK
    OBVIOUS
  <2>1. ServedType /\ FlagsType /\ HeldInv /\ stale \subseteq {"queue"}
    BY DEF AllInv, DiskInv, StaleInv
  <2>2. held \subseteq {"blkdev", "lstm", "tag_set", "disk", "queue"}
    BY <2>1 DEF HeldInv, Everything
  <2> QED
    BY <2>1, <2>2 DEF TypeOK, ServedType, FlagsType, HeldInv
<1> QED
  BY <1>1, AbsorbInvariant, PTL

(***************************************************************************)
(* NoByteLost: when no request is under way and the state is not torn, it  *)
(* holds every byte of every completed request as often as the requests    *)
(* contain it, for any number of CPUs and any requests.                    *)
(***************************************************************************)
THEOREM DiskNoByteLost == Spec => []NoByteLost
<1>1. ASSUME NEW s, NEW d \in Seq(Byte), NEW ab, NEW src, Matched(s, d, ab, src), DOMAIN ab = {},
             NEW x
      PROVE  Occurrences(s, x) = Occurrences(d, x)
  <2> DEFINE S == {k \in 1 .. Len(s) : s[k] = x}
             D == {n \in 1 .. Len(d) : d[n] = x}
             f == [n \in D |-> CHOOSE k \in 1 .. Len(s) : src[k] = Completed(n)]
  <2>1. \A k \in 1 .. Len(s) : \E n \in 1 .. Len(d) : src[k] = Completed(n) /\ s[k] = d[n]
    BY <1>1 DEF Matched, Explained
  <2>2. ASSUME NEW n \in D PROVE f[n] \in 1 .. Len(s) /\ src[f[n]] = Completed(n) /\ f[n] \in S
    <3>1. f[n] \in 1 .. Len(s) /\ src[f[n]] = Completed(n)
      BY <1>1 DEF Matched
    <3> HIDE DEF f
    <3>2. s[f[n]] = d[n]
      BY <2>1, <3>1, SourceNames
    <3> QED
      BY <3>1, <3>2
  <2>3. f \in [D -> S]
    BY <2>2
  <2> HIDE DEF f
  <2>4. \A n, m \in D : f[n] = f[m] => n = m
    BY <2>2, SourceNames
  <2>5. \A k \in S : \E n \in D : f[n] = k
    <3> SUFFICES ASSUME NEW k \in S PROVE \E n \in D : f[n] = k
      OBVIOUS
    <3>1. PICK n \in 1 .. Len(d) : src[k] = Completed(n) /\ s[k] = d[n]
      BY <2>1
    <3>2. n \in D
      BY <3>1
    <3>3. f[n] \in 1 .. Len(s) /\ src[f[n]] = src[k]
      BY <2>2, <3>1, <3>2
    <3>4. f[n] = k
      BY <1>1, <3>3 DEF Matched
    <3> QED
      BY <3>2, <3>4
  <2>6. f \in Bijection(D, S)
    <3>1. f \in [D -> S] /\ DOMAIN f = D
      BY <2>3
    <3> HIDE DEF D, S
    <3>2. f \in Injection(D, S)
      BY <2>4, <3>1 DEF Injection, IsInjective
    <3>3. f \in Surjection(D, S)
      BY <2>5, <3>1 DEF Surjection
    <3> QED
      BY <3>2, <3>3 DEF Bijection
  <2>7. IsFiniteSet(D)
    <3>1. Len(d) \in Nat
      OBVIOUS
    <3>2. IsFiniteSet(1 .. Len(d))
      BY <3>1, FS_Interval
    <3>3. D \in SUBSET (1 .. Len(d))
      OBVIOUS
    <3> HIDE DEF D
    <3> QED
      BY <3>2, <3>3, FS_Subset
  <2>8. Cardinality(S) = Cardinality(D)
    <3> HIDE DEF D, S
    <3>1. ExistsBijection(D, S)
      BY <2>6 DEF ExistsBijection
    <3> QED
      BY <2>7, <3>1, FS_Bijection
  <2> QED
    BY <2>8 DEF Occurrences
<1>2. AllInv => NoByteLost
  <2> SUFFICES ASSUME AllInv, NoRequests, lstm # Torn, NEW x
               PROVE  Occurrences(lstm, x) = Occurrences(done, x)
    BY DEF NoByteLost
  <2>1. PICK ab : Parts(ab) /\ \E src : Matched(lstm, done, ab, src)
    BY DEF AllInv, AbsorbInv
  <2>2. PICK src : Matched(lstm, done, ab, src)
    BY <2>1
  <2>3. DOMAIN ab = {}
    BY <2>1 DEF Parts, Busy, NoRequests
  <2>4. PICK d \in Seq(Byte) : d = done
    BY DEF AllInv, ServedType
  <2>5. PICK s : s = lstm
    OBVIOUS
  <2>6. Occurrences(s, x) = Occurrences(d, x)
    BY <1>1, <2>2, <2>3, <2>4, <2>5
  <2> QED
    BY <2>4, <2>5, <2>6
<1> QED
  BY <1>2, AbsorbInvariant, PTL
=============================================================================
