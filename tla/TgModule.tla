------------------------------ MODULE TgModule ------------------------------
(***************************************************************************)
(* Loading and unloading the telegram module (main.c) while users open its *)
(* devices: a device can be opened as soon as it is registered, in the     *)
(* middle of telegram_init. Each call into the driver core is a step; the  *)
(* ones that can fail may do so, and the code looks at some of the results *)
(* only.                                                                   *)
(***************************************************************************)
EXTENDS Integers

CONSTANTS MAX_CHATS, Users, Bus, Null, Orphan

ASSUME ModuleAssumption ==
  /\ MAX_CHATS \in Nat \ {0}
  /\ Bus \notin Int /\ {Null, Orphan} \cap (Int \cup {Bus}) = {}

VARIABLES
  pc,          \* the next call of telegram_init or telegram_exit, and which chat it is for
  registered,  \* the regions, the class, the cdevs and the nodes of the module
  ready,       \* the devices whose lock and waitq are initialised
  going,       \* the kernel is unloading the module
  open,        \* the file each user has open
  early        \* the locks and wait queues used before they were initialised

vars == <<pc, registered, ready, going, open, early>>

Chats == 0 .. MAX_CHATS - 1
Devices == Chats \cup {Bus}

Region(d) == <<"region", IF d = Bus THEN Bus ELSE Null>>
Class == <<"class", Null>>
Cdev(d) == <<"cdev", d>>
Node(d) == <<"node", d>>

At(label) == <<label, 0>>

Init ==
  /\ pc = At("out") /\ going = FALSE
  /\ registered = {} /\ ready = {}
  /\ open = [u \in Users |-> Null]
  /\ early = {}

\* A call that registers what or fails, and one that takes it back.
Register(at, what, then, failed) ==
  /\ pc = at
  /\ \/ registered' = registered \cup {what} /\ pc' = then
     \/ registered' = registered /\ pc' = failed

Unregister(at, what, then) ==
  /\ pc = at
  /\ registered' = registered \ {what}
  /\ pc' = then

\* mutex_init and init_waitqueue_head.
InitLock(at, d, then) ==
  /\ pc = at
  /\ ready' = ready \cup {d}
  /\ pc' = then
  /\ UNCHANGED registered

(***************************************************************************)
(* telegram_init. A failed class_create gives the region back.             *)
(***************************************************************************)
class_up ==
  \/ Register(At("out"), Region(0), At("class"), At("out"))
  \/ Register(At("class"), Class, At("chat_init"), At("region_down"))

chat_up(i) ==
  LET next == IF i + 1 < MAX_CHATS THEN <<"chat_init", i + 1>> ELSE At("bus_init")
  IN  \/ Register(<<"chat_cdev", i>>, Cdev(i), <<"chat_node", i>>, <<"chat_node", i>>)
      \/ Register(<<"chat_node", i>>, Node(i), next, next)

bus_up_WrongLabel ==
  \/ Register(At("bus_region"), Region(Bus), At("bus_cdev"), At("chat_down"))
  \/ Register(At("bus_cdev"), Cdev(Bus), At("bus_node"), At("chat_down"))
  \/ Register(At("bus_node"), Node(Bus), At("loaded"), At("loaded"))

bus_up ==
  \/ Register(At("bus_region"), Region(Bus), At("bus_cdev"), At("chat_down"))
  \/ Register(At("bus_cdev"), Cdev(Bus), At("bus_node"), At("bus_region_down"))
  \/ Register(At("bus_node"), Node(Bus), At("loaded"), At("loaded"))

locks_up_BusOnly ==
  \/ \E i \in Chats : /\ pc = <<"chat_init", i>>
                      /\ pc' = <<"chat_cdev", i>>
                      /\ UNCHANGED <<registered, ready>>
  \/ InitLock(At("bus_init"), Bus, At("bus_region"))

locks_up ==
  \/ \E i \in Chats : InitLock(<<"chat_init", i>>, i, <<"chat_cdev", i>>)
  \/ InitLock(At("bus_init"), Bus, At("bus_region"))

(***************************************************************************)
(* telegram_exit, and the labels at the end of telegram_init, which undo   *)
(* the chats in the same way.                                              *)
(***************************************************************************)
bus_down ==
  \/ Unregister(At("exit"), Node(Bus), At("bus_cdev_down"))
  \/ Unregister(At("bus_cdev_down"), Cdev(Bus), At("bus_region_down"))
  \/ Unregister(At("bus_region_down"), Region(Bus), At("chat_down"))

chat_down_OneLess(i) ==
  \/ Unregister(<<"chat_down", i>>, Node(i), <<"chat_cdev_down", i>>)
  \/ Unregister(<<"chat_cdev_down", i>>, Cdev(i),
                IF i + 1 < MAX_CHATS - 1 THEN <<"chat_down", i + 1>> ELSE At("class_down"))

chat_down(i) ==
  \/ Unregister(<<"chat_down", i>>, Node(i), <<"chat_cdev_down", i>>)
  \/ Unregister(<<"chat_cdev_down", i>>, Cdev(i),
                IF i + 1 < MAX_CHATS THEN <<"chat_down", i + 1>> ELSE At("class_down"))

class_down ==
  \/ Unregister(At("class_down"), Class, At("region_down"))
  \/ Unregister(At("region_down"), Region(0), At("free"))

Calls ==
  /\ \/ class_up \/ bus_up \/ bus_down \/ class_down
     \/ \E i \in Chats : chat_up(i) \/ chat_down(i)
  /\ UNCHANGED <<ready, going, open, early>>

Locks == locks_up /\ UNCHANGED <<going, open, early>>

(***************************************************************************)
(* The kernel calls telegram_exit only when no open file refers to the     *)
(* module, and lets nobody open one from then on; a module whose init has  *)
(* failed is freed whoever has its files open.                             *)
(***************************************************************************)
InUse == \E u \in Users : open[u] \in Devices

rmmod ==
  /\ pc = At("loaded")
  /\ ~InUse
  /\ going' = TRUE
  /\ pc' = At("exit")
  /\ UNCHANGED <<registered, ready, open, early>>

free_module ==
  /\ pc = At("free")
  /\ going' = FALSE
  /\ ready' = {}
  /\ open' = [u \in Users |-> IF open[u] = Null THEN Null ELSE Orphan]
  /\ pc' = At("out")
  /\ UNCHANGED <<registered, early>>

(***************************************************************************)
(* Users. A write to a chat also goes to the bus, and the daemon's IN      *)
(* command on the bus goes to a chat.                                      *)
(***************************************************************************)
Open(u, d) ==
  /\ ~going
  /\ open[u] = Null
  /\ {Node(d), Cdev(d)} \subseteq registered
  /\ open' = [open EXCEPT ![u] = d]
  /\ UNCHANGED <<pc, registered, ready, going, early>>

Use(u) ==
  /\ open[u] \in Devices
  /\ \E d \in IF open[u] = Bus THEN Devices ELSE {open[u], Bus} :
       early' = early \cup ({d} \ ready)
  /\ UNCHANGED <<pc, registered, ready, going, open>>

Close(u) ==
  /\ open[u] \in Devices
  /\ open' = [open EXCEPT ![u] = Null]
  /\ UNCHANGED <<pc, registered, ready, going, early>>

Next ==
  \/ Calls \/ Locks \/ rmmod \/ free_module
  \/ \E u \in Users : (\E d \in Devices : Open(u, d)) \/ Use(u) \/ Close(u)

Spec == Init /\ [][Next]_vars
-----------------------------------------------------------------------------
\* The type of the state: the loops stay inside the array of chats.
TypeOK ==
  /\ pc \in {"out", "class", "chat_init", "chat_cdev", "chat_node", "bus_init", "bus_region",
             "bus_cdev", "bus_node", "loaded", "exit", "bus_cdev_down", "bus_region_down",
             "chat_down", "chat_cdev_down", "class_down", "region_down", "free"} \X Chats
  /\ registered \subseteq {Class} \cup UNION {{Region(d), Cdev(d), Node(d)} : d \in Devices}
  /\ ready \subseteq Devices /\ early \subseteq Devices
  /\ going \in BOOLEAN
  /\ open \in [Users -> Devices \cup {Null, Orphan}]

(***************************************************************************)
(* However telegram_init or telegram_exit ends, whichever call has failed, *)
(* ignored failures included, nothing of the module stays registered.      *)
(***************************************************************************)
NothingLeft == pc \in {At("out"), At("free")} => registered = {}

(***************************************************************************)
(* What a device hangs on outlives it: there is no node without the class, *)
(* and no cdev or node outside a region the module holds.                  *)
(***************************************************************************)
ParentsOutlive ==
  \A d \in Devices :
    /\ Node(d) \in registered => {Class, Region(d)} \subseteq registered
    /\ Cdev(d) \in registered => Region(d) \in registered

(***************************************************************************)
(* No lock or wait queue of a chat is used before it is initialised,       *)
(* through the chat's own file or through the bus. (The bus's own are: a   *)
(* chat that exists before the bus is set up can be written to.)           *)
(***************************************************************************)
ChatReadyWhenUsed == early \subseteq {Bus}
=============================================================================
