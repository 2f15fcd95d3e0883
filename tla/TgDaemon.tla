------------------------------ MODULE TgDaemon ------------------------------
(***************************************************************************)
(* The whole path of a message in telegram-fs: users, the kernel module,   *)
(* the daemon (udaemon/bus.py, telegram.py, main.py) with its two threads, *)
(* and the Telegram server. The bus device is the bounded FIFO that TgBus  *)
(* implements; the server and the network are modelled by what the daemon  *)
(* relies on. One mapped chat is modelled, by how full its buffer is and   *)
(* whose lines it holds: users and the daemon append to it, nobody takes   *)
(* anything out. Any process may read the bus device (mode 0666, and       *)
(* bus_open is not exclusive), and a line that it takes never gets to the  *)
(* daemon.                                                                 *)
(*                                                                         *)
(* Updates are numbered by their update_id. The server keeps an update     *)
(* until a getUpdates request names a larger offset. The daemon may be     *)
(* killed and started again at any point; it keeps nothing on disk.        *)
(***************************************************************************)
EXTENDS Integers, Sequences, SequencesExt

CONSTANTS
  UserMsgs,        \* messages users write into chats
  Mapped,          \* those written into the chat of CHAT_MAP
  UpdateKind,      \* "text": goes to a mapped chat and fits a bus line;
                   \* "long": its bus line has BUS_MESSAGE_SIZE bytes or more;
                   \* "other": no text, or a chat that is not mapped
  BUS_QUEUE_SIZE,  \* lines the bus holds
  MSG_BUFF_SIZE,   \* bytes of the chat's buffer, the NUL of scnprintf included
  UserLen,         \* the length of the line chat_write makes of a message
  UpdateLen,       \* the length of the line bus_write makes of an update
  MaxCrashes,      \* TLC's bound on the kills of the daemon
  None

Updates == DOMAIN UpdateKind

ASSUME KindAssumption ==
  /\ UpdateKind \in Seq({"text", "long", "other"})
  /\ Mapped \subseteq UserMsgs
  /\ None \notin UserMsgs

ASSUME BoundAssumption == BUS_QUEUE_SIZE \in Nat \ {0} /\ MaxCrashes \in Nat

ASSUME BufferAssumption ==
  /\ MSG_BUFF_SIZE \in Nat \ {0}
  /\ UserLen \in [UserMsgs -> Nat \ {0}]
  /\ UpdateLen \in [Updates -> Nat \ {0}]

VARIABLES
  fifo, delivered, dropped,  \* the bus: see BusFifo
  unsent,     \* messages users have not written yet
  arrived,    \* the last update that reached the server
  confirmed,  \* the updates up to this one are deleted from the server
  received,   \* messages the server has accepted, in that order
  injected,   \* updates bus_write has put into the chat, in that order
  buf_len,    \* the chat's buf_len
  shown,      \* updates whose line is whole in the chat's buffer
  up,         \* the daemon runs
  inPc,       \* the incoming thread: "fetch", "loop", "inject" or "dead"
  offset,     \* its local variable offset
  batch,      \* the updates its for statement has not finished with
  outPc,      \* the outgoing thread: "select", "read" or "handle"
  line,       \* the line that the outgoing thread has read
  crashes,    \* kills of the daemon so far
  life        \* the length of injected when the daemon was started last

bus == <<fifo, delivered, dropped>>
chat == <<injected, buf_len, shown>>
server == <<arrived, confirmed, received>>
incoming == <<inPc, offset, batch>>
outgoing == <<outPc, line>>
process == <<up, crashes, life>>
vars == <<bus, unsent, server, chat, incoming, outgoing, process>>

Bus == INSTANCE BusFifo WITH
         Offers <- UserMsgs, Line <- LAMBDA m : m, Capacity <- BUS_QUEUE_SIZE

Init ==
  /\ Bus!Init
  /\ unsent = UserMsgs
  /\ arrived = 0
  /\ confirmed = 0
  /\ received = <<>>
  /\ injected = <<>> /\ buf_len = 0 /\ shown = {}
  /\ up = FALSE
  /\ inPc = "fetch" /\ offset = 0 /\ batch = <<>>
  /\ outPc = "select" /\ line = None
  /\ crashes = 0
  /\ life = 0

(***************************************************************************)
(* The chat's buffer. scnprintf stores what fits in front of its NUL: the  *)
(* line is cut, down to nothing, and the caller is not told.               *)
(***************************************************************************)
Fits(len) == len < MSG_BUFF_SIZE - buf_len

scnprintf(len) == IF Fits(len) THEN len ELSE MSG_BUFF_SIZE - buf_len - 1

ChatFull == buf_len = MSG_BUFF_SIZE - 1

(***************************************************************************)
(* Users: chat_write puts the message into the chat and on the bus, or     *)
(* loses it when the bus is full; another process reads the bus; other     *)
(* people's messages reach the server.                                     *)
(***************************************************************************)
UserWrite(m) ==
  /\ m \in unsent
  /\ buf_len' = IF m \in Mapped THEN buf_len + scnprintf(UserLen[m]) ELSE buf_len
  /\ Bus!Put(m) \/ Bus!Drop(m)
  /\ unsent' = unsent \ {m}
  /\ UNCHANGED <<server, injected, shown, incoming, outgoing, process>>

OtherRead ==
  /\ Bus!Get
  /\ UNCHANGED <<unsent, server, chat, incoming, outgoing, process>>

Arrive ==
  /\ arrived < Len(UpdateKind)
  /\ arrived' = arrived + 1
  /\ UNCHANGED <<bus, unsent, confirmed, received, chat, incoming, outgoing, process>>

(***************************************************************************)
(* main: the bus is opened, the chat is bound with SET, both threads     *)
(* start. A kill may come at any time and takes all the variables along.   *)
(***************************************************************************)
Start ==
  /\ ~up
  /\ up' = TRUE
  /\ life' = Len(injected)
  /\ UNCHANGED <<bus, unsent, server, chat, incoming, outgoing, crashes>>

Kill ==
  /\ up
  /\ crashes < MaxCrashes
  /\ up' = FALSE
  /\ inPc' = "fetch" /\ offset' = 0 /\ batch' = <<>>
  /\ outPc' = "select" /\ line' = None
  /\ crashes' = crashes + 1
  /\ UNCHANGED <<bus, unsent, server, chat, life>>

(***************************************************************************)
(* incoming_loop                                                           *)
(***************************************************************************)
\* The server handles getUpdates: it deletes the updates below offset.
Confirm == confirmed' = IF offset - 1 > confirmed THEN offset - 1 ELSE confirmed

tg_get_updates ==
  /\ up /\ inPc = "fetch"
  /\ Confirm
  /\ arrived > confirmed'
  /\ batch' = [i \in 1 .. arrived - confirmed' |-> confirmed' + i]
  /\ inPc' = "loop"
  /\ UNCHANGED <<bus, unsent, arrived, received, chat, offset, outgoing, process>>

tg_get_updates_Nothing_Raises ==
  /\ up /\ inPc = "fetch"
  /\ Confirm
  /\ inPc' = "dead"
  /\ UNCHANGED <<bus, unsent, arrived, received, chat, offset, batch, outgoing, process>>

\* The answer is empty or lost: a timeout, or an exception and 5 s of sleep.
tg_get_updates_Nothing ==
  /\ up /\ inPc = "fetch"
  /\ Confirm
  /\ UNCHANGED <<bus, unsent, arrived, received, chat, incoming, outgoing, process>>

ForUpdate_OffsetLate ==
  /\ up /\ inPc = "loop" /\ batch # <<>>
  /\ IF UpdateKind[Head(batch)] = "other"
     THEN batch' = Tail(batch) /\ inPc' = "loop" /\ offset' = Head(batch) + 1
     ELSE inPc' = "inject" /\ UNCHANGED <<batch, offset>>
  /\ UNCHANGED <<bus, unsent, server, chat, outgoing, process>>

ForUpdate_PlusTwo ==
  /\ up /\ inPc = "loop" /\ batch # <<>>
  /\ offset' = Head(batch) + 2
  /\ IF UpdateKind[Head(batch)] = "other"
     THEN batch' = Tail(batch) /\ inPc' = "loop"
     ELSE inPc' = "inject" /\ UNCHANGED batch
  /\ UNCHANGED <<bus, unsent, server, chat, outgoing, process>>

ForUpdate ==
  /\ up /\ inPc = "loop" /\ batch # <<>>
  /\ offset' = Head(batch) + 1
  /\ IF UpdateKind[Head(batch)] = "other"
     THEN batch' = Tail(batch) /\ inPc' = "loop"
     ELSE inPc' = "inject" /\ UNCHANGED batch
  /\ UNCHANGED <<bus, unsent, server, chat, outgoing, process>>

ForEnd ==
  /\ up /\ inPc = "loop" /\ batch = <<>>
  /\ inPc' = "fetch"
  /\ UNCHANGED <<bus, unsent, server, chat, offset, batch, outgoing, process>>

\* bus_write of the kernel succeeds, whatever room the chat has for the line.
bus_inject_message ==
  /\ up /\ inPc = "inject"
  /\ UpdateKind[Head(batch)] = "text"
  /\ injected' = Append(injected, Head(batch))
  /\ buf_len' = buf_len + scnprintf(UpdateLen[Head(batch)])
  /\ shown' = IF Fits(UpdateLen[Head(batch)]) THEN shown \cup {Head(batch)} ELSE shown
  /\ batch' = Tail(batch)
  /\ inPc' = "loop"
  /\ UNCHANGED <<bus, unsent, server, offset, outgoing, process>>

InjectFails_Ignored ==
  /\ up /\ inPc = "inject"
  /\ UpdateKind[Head(batch)] = "long"
  /\ batch' = Tail(batch)
  /\ inPc' = "loop"
  /\ UNCHANGED <<bus, unsent, server, chat, offset, outgoing, process>>

\* bus_write of the kernel answers -EINVAL: os.write raises OSError, which
\* nobody catches, and the thread ends.
InjectFails ==
  /\ up /\ inPc = "inject"
  /\ UpdateKind[Head(batch)] = "long"
  /\ inPc' = "dead"
  /\ UNCHANGED <<bus, unsent, server, chat, offset, batch, outgoing, process>>

(***************************************************************************)
(* outgoing_loop                                                           *)
(***************************************************************************)
\* select returns the descriptor.
Select ==
  /\ up /\ outPc = "select"
  /\ fifo # <<>>
  /\ outPc' = "read"
  /\ UNCHANGED <<bus, unsent, server, chat, incoming, line, process>>

\* After two seconds without a line the loop starts over.
SelectTimeout ==
  /\ up /\ outPc = "select"
  /\ fifo = <<>>
  /\ UNCHANGED vars

\* os.read blocks while the bus is empty, as it is when another process has
\* taken the line that select announced. Its buffer holds any bus line.
Read ==
  /\ up /\ outPc = "read"
  /\ Bus!Get
  /\ line' = Head(fifo)
  /\ outPc' = "handle"
  /\ UNCHANGED <<unsent, server, chat, incoming, process>>

tg_send_Retry ==
  /\ up /\ outPc = "handle"
  /\ line \in Mapped
  /\ received' = Append(received, line)
  /\ \/ outPc' = "select" /\ line' = None
     \/ UNCHANGED outgoing
  /\ UNCHANGED <<bus, unsent, arrived, confirmed, chat, incoming, process>>

\* handle_outgoing: the server takes the message, whether or not its answer
\* reaches tg_send, which reports but does not repeat a failure.
tg_send ==
  /\ up /\ outPc = "handle"
  /\ line \in Mapped
  /\ received' = Append(received, line)
  /\ outPc' = "select" /\ line' = None
  /\ UNCHANGED <<bus, unsent, arrived, confirmed, chat, incoming, process>>

tg_send_Fails_Raises ==
  /\ up /\ outPc = "handle"
  /\ outPc' = "dead" /\ line' = None
  /\ UNCHANGED <<bus, unsent, server, chat, incoming, process>>

\* The request is lost or refused, or the chat is not mapped.
tg_send_Fails ==
  /\ up /\ outPc = "handle"
  /\ outPc' = "select" /\ line' = None
  /\ UNCHANGED <<bus, unsent, server, chat, incoming, process>>

(***************************************************************************)
(* Specification. The threads of a running daemon keep running. The server *)
(* answers a thread that keeps asking. Users, other readers, the kill and  *)
(* the restart of the daemon are nobody's duty.                            *)
(***************************************************************************)
Incoming == ForUpdate \/ ForEnd \/ bus_inject_message \/ InjectFails

Outgoing == Select \/ Read \/ tg_send \/ tg_send_Fails

Next ==
  \/ \E m \in UserMsgs : UserWrite(m)
  \/ OtherRead
  \/ Arrive
  \/ Start \/ Kill
  \/ tg_get_updates \/ tg_get_updates_Nothing \/ Incoming
  \/ Outgoing \/ SelectTimeout

Fairness ==
  /\ WF_vars(Incoming)
  /\ SF_vars(tg_get_updates)
  /\ WF_vars(Outgoing)

Spec == Init /\ [][Next]_vars

FairSpec == Spec /\ Fairness
-----------------------------------------------------------------------------
(***************************************************************************)
(* Every variable of the daemon and of its environment has its type; the   *)
(* offset sent never names an update beyond the next one to arrive.        *)
(***************************************************************************)
TypeOK ==
  /\ fifo \in Seq(UserMsgs) /\ Len(fifo) <= BUS_QUEUE_SIZE
  /\ delivered \in Seq(UserMsgs)
  /\ dropped \subseteq UserMsgs
  /\ unsent \subseteq UserMsgs
  /\ arrived \in 0 .. Len(UpdateKind)
  /\ confirmed \in 0 .. arrived
  /\ received \in Seq(UserMsgs)
  /\ injected \in Seq(Updates)
  /\ buf_len \in 0 .. MSG_BUFF_SIZE - 1
  /\ shown \subseteq Updates
  /\ up \in BOOLEAN
  /\ inPc \in {"fetch", "loop", "inject", "dead"}
  /\ offset \in 0 .. arrived + 1
  /\ batch \in Seq(Updates)
  /\ inPc \in {"inject", "dead"} => batch # <<>>
  /\ outPc \in {"select", "read", "handle"}
  /\ line \in UserMsgs \cup {None}
  /\ crashes \in 0 .. MaxCrashes
  /\ life \in 0 .. Len(injected)

(***************************************************************************)
(* The server forgets an update only after the daemon has dealt with it:   *)
(* although incoming_loop moves offset before it injects the message, a    *)
(* kill, a lost answer or an exception between the two loses no message of *)
(* a mapped chat, because offset is not kept and not sent before the next  *)
(* turn of the loop. Such a message has been injected, and its line is     *)
(* whole in the chat's buffer unless that is full by now.                  *)
(***************************************************************************)
ConfirmedWasInjected ==
  \A u \in 1 .. confirmed :
    UpdateKind[u] # "other" => u \in Range(injected) /\ (u \in shown \/ ChatFull)

(***************************************************************************)
(* Between two starts of the daemon, incoming_loop injects updates in the  *)
(* order of their ids and none of them twice, whatever answers are lost.   *)
(***************************************************************************)
InjectedOncePerLife ==
  \A i, j \in life + 1 .. Len(injected) : i < j => injected[i] < injected[j]

(***************************************************************************)
(* Telegram receives every message at most once and in the order in which  *)
(* the bus delivered them, across kills, failed requests and lost answers  *)
(* (outgoing_loop takes a line off the bus before it sends it).            *)
(***************************************************************************)
ReceivedOnceInOrder ==
  \A i, j \in DOMAIN received :
    i < j => \E a, b \in DOMAIN delivered :
               a < b /\ delivered[a] = received[i] /\ delivered[b] = received[j]
                     /\ received[i] # received[j]

(***************************************************************************)
(* The outgoing thread drains the bus as long as the daemon stays up: it   *)
(* survives failing requests, and an os.read that blocks, as another       *)
(* process took the announced line, goes on with the next one.             *)
(***************************************************************************)
BusDrained == <>[]up => []<>(fifo = <<>>)

(***************************************************************************)
(* "Long-poll Telegram and inject messages into kernel chat buffers."      *)
(* (udaemon/bus.py, incoming_loop): while the daemon stays up, a text that *)
(* has reached the server gets into its chat, whole, or the chat's buffer  *)
(* is full (scnprintf of bus_write then stores no more than a part).       *)
(***************************************************************************)
TextReachesChat ==
  <>[]up => \A u \in Updates :
              (arrived >= u /\ UpdateKind[u] = "text") ~> (u \in shown \/ ChatFull)
=============================================================================
