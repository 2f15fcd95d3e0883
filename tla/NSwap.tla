------------------------------- MODULE NSwap -------------------------------
(***************************************************************************)
(* The neuro-swap block device (kmain.c): loading and unloading the module *)
(* with a failure at any step, and requests that blk-mq hands to queue_rq  *)
(* on several CPUs at once. All of them feed one LSTM (inference.c), whose *)
(* state is abstracted to the sequence of inputs it has absorbed since its *)
(* reset; the arithmetic and the weights are left out. A step of the LSTM  *)
(* reads the state at its begin and writes it at its end, and nothing      *)
(* keeps another CPU from writing in between: the result is then a mixture *)
(* that no sequence of inputs explains, Torn.                              *)
(*                                                                         *)
(* The unit of data is one byte per sector.                                *)
(***************************************************************************)
EXTENDS Integers, Sequences, FiniteSets, SequencesExt

CONSTANTS
  CPUs,
  Requests,      \* requests: write or read, position, segments
  nr_sectors,
  MaxRequests,   \* the bound on requests between two resets of the LSTM
  Byte,          \* the values of a byte, Zero among them
  Zero, Torn, Idle

ASSUME NSwapAssumption ==
  /\ nr_sectors \in Nat \ {0}      \* nswap_size_mb is positive; no shift overflows
  /\ MaxRequests \in Nat

\* A request has a direction, a position and bytes.
ASSUME RequestAssumption ==
  /\ Zero \in Byte
  /\ \A rq \in Requests : /\ rq.write \in BOOLEAN /\ rq.pos \in Nat
                          /\ FlattenSeq(rq.segments) \in Seq(Byte)

\* What a CPU keeps while it serves a request: the inputs that the LSTM has yet
\* to absorb, and the state that a step under way has read.
Served == [rq : Requests, todo : Seq(Byte), seen : Seq(Byte) \cup {Torn, Idle}]

ASSUME IdleAssumption == Idle \notin Served

VARIABLES
  pc,       \* the next call of nswap_init or nswap_exit
  held,     \* what the module has allocated or registered
  stale,    \* what it has released though it did not hold it
  live,     \* the disk accepts requests
  lstm,     \* the inputs absorbed, or Torn
  cpu,      \* the request each CPU is serving
  count,    \* requests since the reset
  done      \* the inputs of the requests completed since the reset

vars == <<pc, held, stale, live, lstm, cpu, count, done>>

\* A request lasts until blk_mq_end_request.
NoRequests == \A c \in CPUs : cpu[c] = Idle

Init ==
  /\ pc = "out" /\ held = {} /\ stale = {} /\ live = FALSE
  /\ lstm = <<>> /\ count = 0 /\ done = <<>>
  /\ cpu = [c \in CPUs |-> Idle]

(***************************************************************************)
(* nswap_init                                                              *)
(***************************************************************************)
Take(at, what, then, failed) ==
  /\ pc = at
  /\ \/ held' = held \cup what /\ pc' = then
     \/ held' = held /\ pc' = failed

\* vmalloc, and lstm_state_reset.
alloc_lstm ==
  /\ Take("lstm", {"lstm"}, "tag_set", "unregister_blkdev")
  /\ lstm' = <<>> /\ count' = 0 /\ done' = <<>>
  /\ UNCHANGED <<stale, live, cpu>>

allocate_Leak ==
  \/ Take("out", {"blkdev"}, "lstm", "out")
  \/ Take("tag_set", {"tag_set"}, "disk", "unregister_blkdev")
  \/ Take("disk", {"disk", "queue"}, "add_disk", "free_tag_set")

\* register_blkdev, blk_mq_alloc_tag_set, and blk_mq_alloc_disk, which makes
\* the disk's queue too.
allocate ==
  \/ Take("out", {"blkdev"}, "lstm", "out")
  \/ Take("tag_set", {"tag_set"}, "disk", "free_buffer")
  \/ Take("disk", {"disk", "queue"}, "add_disk", "free_tag_set")

add_disk ==
  /\ pc = "add_disk"
  /\ \/ pc' = "loaded" /\ live' = TRUE
     \/ pc' = "put_disk" /\ live' = FALSE
  /\ UNCHANGED <<held, stale, lstm, cpu, count, done>>

(***************************************************************************)
(* nswap_exit, and the labels at the end of nswap_init. put_disk releases  *)
(* the queue with the disk.                                                *)
(***************************************************************************)
Release(at, what, then) ==
  /\ pc = at
  /\ held' = held \ what
  /\ stale' = stale \cup (what \ held)
  /\ pc' = then

nswap_exit_NoDel == pc = "loaded" /\ pc' = "put_disk_exit" /\ UNCHANGED live

\* del_gendisk lets no new request in and waits for the ones under way.
nswap_exit ==
  \/ pc = "loaded" /\ pc' = "del_gendisk" /\ live' = FALSE
  \/ pc = "del_gendisk" /\ NoRequests /\ pc' = "put_disk_exit" /\ UNCHANGED live

unwind ==
  \/ Release("put_disk", {"disk", "queue"}, "destroy_queue")
  \/ Release("destroy_queue", {"queue"}, "free_tag_set")

release ==
  \/ Release("put_disk_exit", {"disk", "queue"}, "free_tag_set")
  \/ Release("free_tag_set", {"tag_set"}, "free_buffer")
  \/ Release("free_buffer", {"lstm"}, "unregister_blkdev")
  \/ Release("unregister_blkdev", {"blkdev"}, "out")

Allocate == allocate /\ UNCHANGED <<stale, live, lstm, cpu, count, done>>
Shutdown == nswap_exit /\ UNCHANGED <<held, stale, lstm, cpu, count, done>>
Undo == (unwind \/ release) /\ UNCHANGED <<live, lstm, cpu, count, done>>

(***************************************************************************)
(* nswap_queue_rq. The block layer lets no request past the capacity that  *)
(* nswap_init gives it, nr_sectors, so the error path of queue_rq, which   *)
(* ends a request that blk-mq will end again, is not reached.              *)
(***************************************************************************)
Bytes(rq) == FlattenSeq(rq.segments)

\* A write is memorized byte by byte; to recall is to absorb as many zeros.
Inputs_FirstSegment(rq) ==
  IF rq.write THEN Head(rq.segments) ELSE [n \in 1 .. Len(Head(rq.segments)) |-> Zero]

Inputs(rq) == IF rq.write THEN Bytes(rq) ELSE [n \in 1 .. Len(Bytes(rq)) |-> Zero]

queue_rq(c, rq) ==
  /\ live
  /\ cpu[c] = Idle
  /\ count < MaxRequests
  /\ rq.pos + Len(Bytes(rq)) <= nr_sectors
  /\ count' = count + 1
  /\ cpu' = [cpu EXCEPT ![c] = [rq |-> rq, todo |-> Inputs(rq), seen |-> Idle]]
  /\ UNCHANGED <<pc, held, stale, live, lstm, done>>

\* lstm_step up to the gates: it has read the state.
lstm_step_begin(c) ==
  /\ cpu[c] # Idle
  /\ cpu[c].todo # <<>> /\ cpu[c].seen = Idle
  /\ cpu' = [cpu EXCEPT ![c].seen = lstm]
  /\ UNCHANGED <<pc, held, stale, live, lstm, count, done>>

\* The rest of it: the new c and h, and for a recall the output.
lstm_step_end(c) ==
  /\ cpu[c] # Idle
  /\ cpu[c].seen # Idle
  /\ lstm' = IF cpu[c].seen = lstm /\ lstm # Torn THEN Append(lstm, Head(cpu[c].todo)) ELSE Torn
  /\ cpu' = [cpu EXCEPT ![c].todo = Tail(@), ![c].seen = Idle]
  /\ UNCHANGED <<pc, held, stale, live, count, done>>

blk_mq_end_request_WriteOnly(c) ==
  /\ cpu[c] # Idle
  /\ cpu[c].todo = <<>>
  /\ cpu[c].rq.write
  /\ done' = done \o (IF cpu[c].rq.write THEN Bytes(cpu[c].rq) ELSE <<>>)
  /\ cpu' = [cpu EXCEPT ![c] = Idle]
  /\ UNCHANGED <<pc, held, stale, live, lstm, count>>

blk_mq_end_request(c) ==
  /\ cpu[c] # Idle
  /\ cpu[c].todo = <<>>
  /\ done' = done \o (IF cpu[c].rq.write THEN Bytes(cpu[c].rq)
                      ELSE [n \in 1 .. Len(Bytes(cpu[c].rq)) |-> Zero])
  /\ cpu' = [cpu EXCEPT ![c] = Idle]
  /\ UNCHANGED <<pc, held, stale, live, lstm, count>>

Serve(c) == lstm_step_begin(c) \/ lstm_step_end(c) \/ blk_mq_end_request(c)

Next ==
  \/ alloc_lstm \/ Allocate \/ add_disk \/ Shutdown \/ Undo
  \/ \E c \in CPUs : Serve(c) \/ \E rq \in Requests : queue_rq(c, rq)

\* A CPU in queue_rq runs on, and so does rmmod once it has begun.
Spec ==
  /\ Init /\ [][Next]_vars
  /\ WF_vars(Undo) /\ WF_vars(pc = "del_gendisk" /\ Shutdown)
  /\ \A c \in CPUs : WF_vars(Serve(c))
-----------------------------------------------------------------------------
\* The type of the state: what a step of the LSTM works on is never empty.
TypeOK ==
  /\ pc \in {"out", "lstm", "tag_set", "disk", "add_disk", "loaded", "del_gendisk",
             "put_disk_exit", "put_disk", "destroy_queue", "free_tag_set", "free_buffer",
             "unregister_blkdev"}
  /\ held \subseteq {"blkdev", "lstm", "tag_set", "disk", "queue"}
  /\ stale \subseteq {"blkdev", "lstm", "tag_set", "disk", "queue"}
  /\ lstm \in Seq(Byte) \cup {Torn} /\ done \in Seq(Byte)
  /\ cpu \in [CPUs -> Served \cup {Idle}]
  /\ \A c \in CPUs : cpu[c] # Idle /\ cpu[c].seen # Idle => cpu[c].todo # <<>>
  /\ live \in BOOLEAN
  /\ count \in 0 .. MaxRequests

(***************************************************************************)
(* While a request is served, the LSTM, the tag set and the queue exist:   *)
(* nswap_exit frees them after del_gendisk has waited.                     *)
(***************************************************************************)
DeviceWhileServing ==
  NoRequests \/ {"lstm", "tag_set", "disk", "queue"} \subseteq held

(***************************************************************************)
(* Whichever step of nswap_init fails, and after nswap_exit, the module    *)
(* holds nothing, and it has released nothing twice but the queue: after a *)
(* failed add_disk, put_disk releases it, and then blk_mq_destroy_queue is *)
(* called too.                                                             *)
(***************************************************************************)
AllReleased == (pc = "out" => held = {}) /\ stale \subseteq {"queue"}

Occurrences(seq, x) == Cardinality({n \in 1 .. Len(seq) : seq[n] = x})

(***************************************************************************)
(* When no request is under way, and no two steps of the LSTM have         *)
(* overlapped, its state has absorbed every byte of every completed        *)
(* request once, all segments included, though the requests may have been  *)
(* mixed byte by byte.                                                     *)
(***************************************************************************)
NoByteLost ==
  NoRequests /\ lstm # Torn =>
    \A x \in Range(lstm) \cup Range(done) : Occurrences(lstm, x) = Occurrences(done, x)

\* queue_rq completes every request it is given, reads as well as writes.
RequestsEnd == \A c \in CPUs : cpu[c] # Idle ~> cpu[c] = Idle

\* nswap_exit does not wait for ever in del_gendisk.
ExitFinishes == pc = "del_gendisk" ~> pc = "out"
=============================================================================
