--------------------------- MODULE TgModuleProofs ---------------------------
(***************************************************************************)
(* Proofs about TgModule, for any number of chats and users.               *)
(***************************************************************************)
EXTENDS TgModule, TLAPS

(***************************************************************************)
(* The inductive invariant: what may be and what must be registered at     *)
(* every call of telegram_init and telegram_exit. The calls whose failure  *)
(* is ignored make the two differ.                                         *)
(***************************************************************************)
label == pc[1]
index == pc[2]

Before == {"out", "free"}
NoClass == Before \cup {"class", "region_down"}
ChatUp == {"chat_init", "chat_cdev", "chat_node"}
BusUp == {"bus_init", "bus_region", "bus_cdev", "bus_node"}
BusDown == {"bus_cdev_down", "bus_region_down"}
ChatDown == {"chat_down", "chat_cdev_down"}
Labels == NoClass \cup ChatUp \cup BusUp \cup {"loaded", "exit"} \cup BusDown
            \cup ChatDown \cup {"class_down"}

\* The loops run over the chats; elsewhere the index is not used.
PcInv ==
  /\ pc = <<label, index>>
  /\ label \in Labels
  /\ index \in Chats
  /\ label \notin ChatUp \cup ChatDown => index = 0

\* What the calls that are checked have registered.
HoldsInv ==
  /\ label \notin Before => Region(0) \in registered
  /\ label \notin NoClass => Class \in registered
  /\ label \in {"bus_cdev", "bus_node", "loaded", "exit"} \cup BusDown
       => Region(Bus) \in registered

\* What may be registered when pc is at label l for chat i.
MayCdev(l, i, d) ==
  \/ d \in Chats /\ l \in ChatUp /\ (d < i \/ (d = i /\ l = "chat_node"))
  \/ d \in Chats /\ l \in BusUp \cup {"loaded", "exit"} \cup BusDown
  \/ d \in Chats /\ l \in ChatDown /\ d >= i
  \/ d = Bus /\ l \in {"bus_node", "loaded", "exit", "bus_cdev_down"}

MayNode(l, i, d) ==
  \/ d \in Chats /\ l \in ChatUp /\ d < i
  \/ d \in Chats /\ l \in BusUp \cup {"loaded", "exit"} \cup BusDown
  \/ d \in Chats /\ l \in ChatDown /\ (d > i \/ (d = i /\ l = "chat_down"))
  \/ d = Bus /\ l \in {"loaded", "exit"}

May(l, i, x) ==
  \/ x = Region(0) /\ l \notin Before
  \/ x = Class /\ l \notin NoClass
  \/ x = Region(Bus) /\ l \in {"bus_cdev", "bus_node", "loaded", "exit"} \cup BusDown
  \/ \E d \in Devices : x = Cdev(d) /\ MayCdev(l, i, d)
  \/ \E d \in Devices : x = Node(d) /\ MayNode(l, i, d)

OnlyInv == \A x \in registered : May(label, index, x)

\* The chats whose lock and wait queue are set up.
ReadyInv ==
  /\ label \in ChatUp =>
       \A d \in Chats : d < index \/ (d = index /\ label # "chat_init") => d \in ready
  /\ label \in BusUp \cup {"loaded", "exit"} \cup BusDown => Chats \subseteq ready
  /\ \A d \in Chats : Cdev(d) \in registered => d \in ready

\* Whoever has a device open reaches initialised chats only.
OpenInv ==
  /\ open \in [Users -> Devices \cup {Null, Orphan}]
  /\ \A u \in Users :
       /\ open[u] \in Chats => open[u] \in ready
       /\ open[u] = Bus => Chats \subseteq ready

ModuleInv == PcInv /\ HoldsInv /\ OnlyInv /\ ReadyInv /\ OpenInv

(***************************************************************************)
(* Names of registered things are different for different things: the      *)
(* regions and the class,                                                  *)
(***************************************************************************)
LEMMA RegionNames ==
  /\ Region(0) = <<"region", Null>> /\ Region(Bus) = <<"region", Bus>>
  /\ Class # Region(0) /\ Class # Region(Bus) /\ Region(0) # Region(Bus)
<1>1. Bus # Null /\ Bus # 0
  BY ModuleAssumption
<1>2. Region(0) = <<"region", Null>> /\ Region(Bus) = <<"region", Bus>>
  BY <1>1 DEF Region
<1> QED
  BY <1>1, <1>2 DEF Class

\* the chats, which share a region, and the bus,
LEMMA ChatNames == \A d \in Chats : d # Bus /\ Region(d) = Region(0)
<1>1. \A d \in Chats : d # Bus
  BY ModuleAssumption DEF Chats
<1>2. Bus # 0
  BY ModuleAssumption
<1> QED
  BY <1>1, <1>2 DEF Region

\* and the cdevs and nodes.
LEMMA DeviceNames ==
  ASSUME NEW d, NEW e
  PROVE  /\ Cdev(d) = Cdev(e) => d = e
         /\ Node(d) = Node(e) => d = e
         /\ Cdev(d) # Node(e)
         /\ Cdev(d) # Class /\ Cdev(d) # Region(0) /\ Cdev(d) # Region(Bus)
         /\ Node(d) # Class /\ Node(d) # Region(0) /\ Node(d) # Region(Bus)
  BY RegionNames DEF Cdev, Node, Class

\* The chats are numbered from 0, and there is at least one.
LEMMA ChatIndex ==
  /\ MAX_CHATS \in Nat \ {0} /\ 0 \in Chats
  /\ \A i \in Chats : i \in Nat /\ i < MAX_CHATS /\ (i + 1 < MAX_CHATS => i + 1 \in Chats)
  BY ModuleAssumption DEF Chats

\* A move of pc, and what a call does to what is registered.
Move(l, i, m, j) == pc = <<l, i>> /\ pc' = <<m, j>>
Adds(x) == registered' = registered \cup {x}
Drops(x) == registered' = registered \ {x}
Same == registered' = registered
LastChat(i) == ~(i + 1 < MAX_CHATS)

(***************************************************************************)
(* Every call into the driver core as a move of pc and a change of what is *)
(* registered, with what happens when the call fails.                      *)
(***************************************************************************)
LEMMA CallMoves ==
  ASSUME Calls
  PROVE  \/ Move("out", 0, "class", 0) /\ Adds(Region(0))
         \/ Move("out", 0, "out", 0) /\ Same
         \/ Move("class", 0, "chat_init", 0) /\ Adds(Class)
         \/ Move("class", 0, "region_down", 0) /\ Same
         \/ \E i \in Chats :
              \/ Move("chat_cdev", i, "chat_node", i) /\ (Adds(Cdev(i)) \/ Same)
              \/ ~LastChat(i) /\ Move("chat_node", i, "chat_init", i + 1) /\ (Adds(Node(i)) \/ Same)
              \/ LastChat(i) /\ Move("chat_node", i, "bus_init", 0) /\ (Adds(Node(i)) \/ Same)
              \/ Move("chat_down", i, "chat_cdev_down", i) /\ Drops(Node(i))
              \/ ~LastChat(i) /\ Move("chat_cdev_down", i, "chat_down", i + 1) /\ Drops(Cdev(i))
              \/ LastChat(i) /\ Move("chat_cdev_down", i, "class_down", 0) /\ Drops(Cdev(i))
         \/ Move("bus_region", 0, "bus_cdev", 0) /\ Adds(Region(Bus))
         \/ Move("bus_region", 0, "chat_down", 0) /\ Same
         \/ Move("bus_cdev", 0, "bus_node", 0) /\ Adds(Cdev(Bus))
         \/ Move("bus_cdev", 0, "bus_region_down", 0) /\ Same
         \/ Move("bus_node", 0, "loaded", 0) /\ (Adds(Node(Bus)) \/ Same)
         \/ Move("exit", 0, "bus_cdev_down", 0) /\ Drops(Node(Bus))
         \/ Move("bus_cdev_down", 0, "bus_region_down", 0) /\ Drops(Cdev(Bus))
         \/ Move("bus_region_down", 0, "chat_down", 0) /\ Drops(Region(Bus))
         \/ Move("class_down", 0, "region_down", 0) /\ Drops(Class)
         \/ Move("region_down", 0, "free", 0) /\ Drops(Region(0))
<1> USE DEF Move, Adds, Drops, Same, LastChat, At, Register, Unregister
<1>1. CASE class_up \/ class_down
  BY <1>1 DEF class_up, class_down
<1>2. CASE bus_up
  BY <1>2 DEF bus_up
<1>3. CASE bus_down
  BY <1>3 DEF bus_down
<1>4. ASSUME NEW i \in Chats, chat_up(i)
      PROVE  \/ Move("chat_cdev", i, "chat_node", i) /\ (Adds(Cdev(i)) \/ Same)
             \/ ~LastChat(i) /\ Move("chat_node", i, "chat_init", i + 1) /\ (Adds(Node(i)) \/ Same)
             \/ LastChat(i) /\ Move("chat_node", i, "bus_init", 0) /\ (Adds(Node(i)) \/ Same)
  BY <1>4 DEF chat_up
<1>5. ASSUME NEW i \in Chats, chat_down(i)
      PROVE  \/ Move("chat_down", i, "chat_cdev_down", i) /\ Drops(Node(i))
             \/ ~LastChat(i) /\ Move("chat_cdev_down", i, "chat_down", i + 1) /\ Drops(Cdev(i))
             \/ LastChat(i) /\ Move("chat_cdev_down", i, "class_down", 0) /\ Drops(Cdev(i))
  BY <1>5 DEF chat_down
<1> HIDE DEF Move, Adds, Drops, Same, LastChat
<1> QED
  BY <1>1, <1>2, <1>3, <1>4, <1>5 DEF Calls

\* Where a move leaves from and where it arrives.
LEMMA MoveEnds ==
  ASSUME NEW l, NEW i, NEW m, NEW j, Move(l, i, m, j)
  PROVE  label = l /\ index = i /\ label' = m /\ index' = j /\ pc' = <<label', index'>>
  BY DEF Move, label, index

\* A call leaves pc at a call.
LEMMA CallsPc ==
  ASSUME Calls
  PROVE  PcInv'
<1> USE DEF PcInv, Labels, Before, NoClass, ChatUp, BusUp, BusDown, ChatDown
<1>0. ASSUME NEW l, NEW i, NEW m, NEW j, Move(l, i, m, j),
             m \in Labels, j \in Chats, m \notin ChatUp \cup ChatDown => j = 0
      PROVE  PcInv'
  BY <1>0, MoveEnds
<1> HIDE DEF PcInv
<1> QED
  BY <1>0, CallMoves, ChatIndex DEF LastChat

\* A call that is checked has registered what its successors rest on.
LEMMA CallsHold ==
  ASSUME HoldsInv, Calls
  PROVE  HoldsInv'
<1> USE DEF Before, NoClass, BusDown
<1>0. ASSUME NEW l, NEW i, NEW m, NEW j, Move(l, i, m, j),
             m \notin Before => Region(0) \in registered',
             m \notin NoClass => Class \in registered',
             m \in {"bus_cdev", "bus_node", "loaded", "exit"} \cup BusDown
               => Region(Bus) \in registered'
      PROVE  HoldsInv'
  BY <1>0, MoveEnds DEF HoldsInv
<1>1. ASSUME NEW l, NEW i, NEW m, NEW j, Move(l, i, m, j)
      PROVE  /\ l \notin Before => Region(0) \in registered
             /\ l \notin NoClass => Class \in registered
             /\ l \in {"bus_cdev", "bus_node", "loaded", "exit"} \cup BusDown
                  => Region(Bus) \in registered
  BY <1>1, MoveEnds DEF HoldsInv
<1> QED
  BY <1>0, <1>1, CallMoves, RegionNames, DeviceNames DEF Adds, Drops, Same

\* What may be registered before a call and is not taken back by it may be
\* registered after it, and so may what the call registers.
LEMMA CallsOnly ==
  ASSUME OnlyInv, Calls
  PROVE  OnlyInv'
<1>0. ASSUME NEW l, NEW i, NEW m, NEW j, Move(l, i, m, j),
             \A x \in registered' : May(m, j, x)
      PROVE  OnlyInv'
  BY <1>0, MoveEnds DEF OnlyInv
<1>1. ASSUME NEW l, NEW i, NEW m, NEW j, Move(l, i, m, j)
      PROVE  \A x \in registered : May(l, i, x)
  BY <1>1, MoveEnds DEF OnlyInv
<1> USE DEF May, MayCdev, MayNode, Before, NoClass, ChatUp, BusUp, BusDown, ChatDown
<1>2. CASE \/ Move("out", 0, "class", 0) /\ Adds(Region(0))
           \/ Move("out", 0, "out", 0) /\ Same
           \/ Move("class", 0, "chat_init", 0) /\ Adds(Class)
           \/ Move("class", 0, "region_down", 0) /\ Same
  BY <1>0, <1>1, <1>2 DEF Adds, Same
<1>3. ASSUME NEW i \in Chats, Move("chat_cdev", i, "chat_node", i), Adds(Cdev(i)) \/ Same
      PROVE  OnlyInv'
  BY <1>0, <1>1, <1>3, ChatIndex DEF Adds, Same, Devices
<1>4. ASSUME NEW i \in Chats, ~LastChat(i), Move("chat_node", i, "chat_init", i + 1),
             Adds(Node(i)) \/ Same
      PROVE  OnlyInv'
  BY <1>0, <1>1, <1>4, ChatIndex DEF Adds, Same, Devices
<1>5. ASSUME NEW i \in Chats, LastChat(i), Move("chat_node", i, "bus_init", 0),
             Adds(Node(i)) \/ Same
      PROVE  OnlyInv'
  BY <1>0, <1>1, <1>5, ChatIndex DEF Adds, Same, Devices
<1>6. ASSUME NEW i \in Chats, Move("chat_down", i, "chat_cdev_down", i), Drops(Node(i))
      PROVE  OnlyInv'
  BY <1>0, <1>1, <1>6, ChatIndex DEF Drops, Devices
<1>7. ASSUME NEW i \in Chats, ~LastChat(i), Move("chat_cdev_down", i, "chat_down", i + 1),
             Drops(Cdev(i))
      PROVE  OnlyInv'
  <2>1. \A d \in Chats : d > i => d >= i + 1
    BY ChatIndex
  <2>2. \A d \in Chats : d >= i => d = i \/ d >= i + 1
    BY ChatIndex, SMTT(40)
  <2>3. \A d \in Chats : d >= i + 1 => d > i + 1 \/ d = i + 1
    BY ChatIndex
  <2>4. SUFFICES ASSUME NEW x \in registered, x # Cdev(i) PROVE May("chat_down", i + 1, x)
    BY <1>0, <1>7 DEF Drops
  <2>5. May("chat_cdev_down", i, x)
    BY <1>1, <1>7
  <2> QED
    BY <2>1, <2>2, <2>3, <2>4, <2>5, ChatNames
<1>8. ASSUME NEW i \in Chats, LastChat(i), Move("chat_cdev_down", i, "class_down", 0),
             Drops(Cdev(i))
      PROVE  OnlyInv'
  <2>1. \A d \in Chats : ~(d > i) /\ (d >= i => d = i)
    BY <1>8, ChatIndex DEF LastChat
  <2>2. SUFFICES ASSUME NEW x \in registered, x # Cdev(i) PROVE May("class_down", 0, x)
    BY <1>0, <1>8 DEF Drops
  <2>3. May("chat_cdev_down", i, x)
    BY <1>1, <1>8
  <2> QED
    BY <2>1, <2>2, <2>3, ChatNames
<1>9. CASE \/ Move("bus_region", 0, "bus_cdev", 0) /\ Adds(Region(Bus))
           \/ Move("bus_cdev", 0, "bus_node", 0) /\ Adds(Cdev(Bus))
           \/ Move("bus_node", 0, "loaded", 0) /\ (Adds(Node(Bus)) \/ Same)
  <2>1. CASE Move("bus_region", 0, "bus_cdev", 0) /\ Adds(Region(Bus))
    BY <1>0, <1>1, <2>1 DEF Adds
  <2>2. CASE Move("bus_cdev", 0, "bus_node", 0) /\ Adds(Cdev(Bus))
    BY <1>0, <1>1, <2>2 DEF Adds, Devices
  <2>3. CASE Move("bus_node", 0, "loaded", 0) /\ (Adds(Node(Bus)) \/ Same)
    BY <1>0, <1>1, <2>3 DEF Adds, Same, Devices
  <2> QED
    BY <1>9, <2>1, <2>2, <2>3
<1>10. CASE \/ Move("exit", 0, "bus_cdev_down", 0) /\ Drops(Node(Bus))
            \/ Move("bus_cdev_down", 0, "bus_region_down", 0) /\ Drops(Cdev(Bus))
            \/ Move("bus_cdev", 0, "bus_region_down", 0) /\ Same
  <2>1. CASE Move("exit", 0, "bus_cdev_down", 0) /\ Drops(Node(Bus))
    BY <1>0, <1>1, <2>1 DEF Drops, Devices
  <2>2. CASE Move("bus_cdev_down", 0, "bus_region_down", 0) /\ Drops(Cdev(Bus))
    BY <1>0, <1>1, <2>2 DEF Drops, Devices
  <2>3. CASE Move("bus_cdev", 0, "bus_region_down", 0) /\ Same
    BY <1>0, <1>1, <2>3 DEF Same, Devices
  <2> QED
    BY <1>10, <2>1, <2>2, <2>3
<1>12. CASE \/ Move("bus_region", 0, "chat_down", 0) /\ Same
            \/ Move("bus_region_down", 0, "chat_down", 0) /\ Drops(Region(Bus))
  <2>1. \A d \in Chats : d >= 0 /\ (d > 0 \/ d = 0)
    BY ChatIndex
  <2>2. CASE Move("bus_region", 0, "chat_down", 0) /\ Same
    BY <1>0, <1>1, <2>1, <2>2 DEF Same
  <2>3. CASE Move("bus_region_down", 0, "chat_down", 0) /\ Drops(Region(Bus))
    BY <1>0, <1>1, <2>1, <2>3 DEF Drops
  <2> QED
    BY <1>12, <2>2, <2>3
<1>11. CASE \/ Move("class_down", 0, "region_down", 0) /\ Drops(Class)
            \/ Move("region_down", 0, "free", 0) /\ Drops(Region(0))
  BY <1>0, <1>1, <1>11, ChatIndex DEF Drops, Devices
<1> HIDE DEF OnlyInv
<1> QED
  BY <1>2, <1>3, <1>4, <1>5, <1>6, <1>7, <1>8, <1>9, <1>10, <1>11, <1>12, CallMoves

\* A chat's cdev is registered only after its lock and wait queue are set up.
LEMMA CallsReady ==
  ASSUME ReadyInv, Calls
  PROVE  ReadyInv'
<1> USE DEF ChatUp, BusUp, BusDown
<1>a. ready' = ready
  BY DEF Calls
<1>0. ASSUME NEW l, NEW i, NEW m, NEW j, Move(l, i, m, j),
             m \in ChatUp => \A d \in Chats : d < j \/ (d = j /\ m # "chat_init") => d \in ready,
             m \in BusUp \cup {"loaded", "exit"} \cup BusDown => Chats \subseteq ready,
             \A d \in Chats : Cdev(d) \in registered' => d \in ready
      PROVE  ReadyInv'
  BY <1>a, <1>0, MoveEnds DEF ReadyInv
<1>1. ASSUME NEW l, NEW i, NEW m, NEW j, Move(l, i, m, j)
      PROVE  /\ l \in ChatUp =>
                  \A d \in Chats : d < i \/ (d = i /\ l # "chat_init") => d \in ready
             /\ l \in BusUp \cup {"loaded", "exit"} \cup BusDown => Chats \subseteq ready
  BY <1>1, MoveEnds DEF ReadyInv
<1>2. \A d \in Chats : Cdev(d) \in registered => d \in ready
  BY DEF ReadyInv
<1> HIDE DEF ReadyInv
<1>3. ASSUME NEW i \in Chats, Move("chat_cdev", i, "chat_node", i), Adds(Cdev(i)) \/ Same
      PROVE  ReadyInv'
  BY <1>0, <1>1, <1>2, <1>3, DeviceNames DEF Adds, Same
<1>4. ASSUME NEW i \in Chats, ~LastChat(i), Move("chat_node", i, "chat_init", i + 1),
             Adds(Node(i)) \/ Same
      PROVE  ReadyInv'
  <2>1. \A d \in Chats : d < i + 1 => d < i \/ d = i
    BY ChatIndex
  <2> QED
    BY <1>0, <1>1, <1>2, <1>4, <2>1, DeviceNames DEF Adds, Same
<1>5. ASSUME NEW i \in Chats, LastChat(i), Move("chat_node", i, "bus_init", 0),
             Adds(Node(i)) \/ Same
      PROVE  ReadyInv'
  <2>1. \A d \in Chats : d < i \/ d = i
    BY <1>5, ChatIndex DEF LastChat
  <2> QED
    BY <1>0, <1>1, <1>2, <1>5, <2>1, DeviceNames DEF Adds, Same
<1>6. ASSUME NEW i \in Chats,
             \/ Move("chat_down", i, "chat_cdev_down", i) /\ Drops(Node(i))
             \/ Move("chat_cdev_down", i, "chat_down", i + 1) /\ Drops(Cdev(i))
             \/ Move("chat_cdev_down", i, "class_down", 0) /\ Drops(Cdev(i))
      PROVE  ReadyInv'
  BY <1>0, <1>2, <1>6 DEF Drops
<1>7. CASE \/ Move("out", 0, "class", 0) /\ Adds(Region(0))
           \/ Move("out", 0, "out", 0) /\ Same
           \/ Move("class", 0, "chat_init", 0) /\ Adds(Class)
           \/ Move("class", 0, "region_down", 0) /\ Same
  <2>1. \A d \in Chats : ~(d < 0)
    BY ChatIndex
  <2> QED
    BY <1>0, <1>2, <1>7, <2>1, DeviceNames DEF Adds, Same
<1>8. CASE \/ Move("bus_region", 0, "bus_cdev", 0) /\ Adds(Region(Bus))
           \/ Move("bus_region", 0, "chat_down", 0) /\ Same
           \/ Move("bus_cdev", 0, "bus_node", 0) /\ Adds(Cdev(Bus))
           \/ Move("bus_cdev", 0, "bus_region_down", 0) /\ Same
           \/ Move("bus_node", 0, "loaded", 0) /\ (Adds(Node(Bus)) \/ Same)
  BY <1>0, <1>1, <1>2, <1>8, DeviceNames, ChatNames DEF Adds, Same
<1>9. CASE \/ Move("exit", 0, "bus_cdev_down", 0) /\ Drops(Node(Bus))
           \/ Move("bus_cdev_down", 0, "bus_region_down", 0) /\ Drops(Cdev(Bus))
           \/ Move("bus_region_down", 0, "chat_down", 0) /\ Drops(Region(Bus))
           \/ Move("class_down", 0, "region_down", 0) /\ Drops(Class)
           \/ Move("region_down", 0, "free", 0) /\ Drops(Region(0))
  BY <1>0, <1>1, <1>2, <1>9 DEF Drops
<1> QED
  BY <1>3, <1>4, <1>5, <1>6, <1>7, <1>8, <1>9, CallMoves

\* Setting up a lock moves on inside telegram_init and registers nothing.
LEMMA LocksStep ==
  ASSUME ModuleInv, Locks
  PROVE  ModuleInv'
<1> USE DEF Labels, Before, NoClass, ChatUp, BusUp, BusDown, ChatDown
<1>1. ASSUME NEW i \in Chats, InitLock(<<"chat_init", i>>, i, <<"chat_cdev", i>>)
      PROVE  ModuleInv'
  <2>1. /\ Move("chat_init", i, "chat_cdev", i)
        /\ ready' = ready \cup {i} /\ registered' = registered
    BY <1>1 DEF InitLock, Move
  <2>2. label = "chat_init" /\ index = i /\ label' = "chat_cdev" /\ index' = i
        /\ pc' = <<label', index'>>
    BY <2>1, MoveEnds
  <2>3. PcInv' /\ HoldsInv'
    BY <2>1, <2>2 DEF ModuleInv, PcInv, HoldsInv
  <2>4. OnlyInv'
    BY <2>1, <2>2 DEF ModuleInv, OnlyInv, May, MayCdev, MayNode
  <2>5. ReadyInv'
    BY <2>1, <2>2, ChatIndex DEF ModuleInv, ReadyInv
  <2>6. OpenInv'
    BY <2>1 DEF ModuleInv, OpenInv, Locks
  <2> QED
    BY <2>3, <2>4, <2>5, <2>6 DEF ModuleInv
<1>2. CASE InitLock(At("bus_init"), Bus, At("bus_region"))
  <2>1. /\ Move("bus_init", 0, "bus_region", 0)
        /\ ready' = ready \cup {Bus} /\ registered' = registered
    BY <1>2 DEF InitLock, Move, At
  <2>2. label = "bus_init" /\ index = 0 /\ label' = "bus_region" /\ index' = 0
        /\ pc' = <<label', index'>>
    BY <2>1, MoveEnds
  <2>3. PcInv' /\ HoldsInv'
    BY <2>1, <2>2, ChatIndex DEF ModuleInv, PcInv, HoldsInv
  <2>4. OnlyInv'
    BY <2>1, <2>2 DEF ModuleInv, OnlyInv, May, MayCdev, MayNode
  <2>5. ReadyInv'
    BY <2>1, <2>2 DEF ModuleInv, ReadyInv
  <2>6. OpenInv'
    BY <2>1 DEF ModuleInv, OpenInv, Locks
  <2> QED
    BY <2>3, <2>4, <2>5, <2>6 DEF ModuleInv
<1> QED
  BY <1>1, <1>2 DEF Locks, locks_up

\* At the two ends of the module's life nothing is registered.
LEMMA EndsEmpty ==
  ASSUME OnlyInv, label \in Before
  PROVE  registered = {}
<1>1. ASSUME NEW x, May(label, index, x)
      PROVE  FALSE
  BY <1>1, ChatNames
     DEF May, MayCdev, MayNode, Before, NoClass, ChatUp, BusUp, BusDown, ChatDown
<1> QED
  BY <1>1 DEF OnlyInv

\* The kernel starts telegram_exit, and frees the module afterwards.
LEMMA KernelStep ==
  ASSUME ModuleInv, rmmod \/ free_module
  PROVE  ModuleInv'
<1> USE DEF Labels, Before, NoClass, ChatUp, BusUp, BusDown, ChatDown
<1>1. CASE rmmod
  <2>1. /\ Move("loaded", 0, "exit", 0)
        /\ ready' = ready /\ registered' = registered /\ open' = open
    BY <1>1 DEF rmmod, Move, At
  <2>2. label = "loaded" /\ index = 0 /\ label' = "exit" /\ index' = 0
        /\ pc' = <<label', index'>>
    BY <2>1, MoveEnds
  <2>3. PcInv' /\ HoldsInv'
    BY <2>1, <2>2, ChatIndex DEF ModuleInv, PcInv, HoldsInv
  <2>4. OnlyInv'
    BY <2>1, <2>2 DEF ModuleInv, OnlyInv, May, MayCdev, MayNode
  <2>5. ReadyInv' /\ OpenInv'
    BY <2>1, <2>2 DEF ModuleInv, ReadyInv, OpenInv
  <2> QED
    BY <2>3, <2>4, <2>5 DEF ModuleInv
<1>2. CASE free_module
  <2>1. /\ Move("free", 0, "out", 0) /\ registered' = registered
        /\ open' = [u \in Users |-> IF open[u] = Null THEN Null ELSE Orphan]
    BY <1>2 DEF free_module, Move, At
  <2>2. label = "free" /\ index = 0 /\ label' = "out" /\ index' = 0
        /\ pc' = <<label', index'>>
    BY <2>1, MoveEnds
  <2>3. registered = {}
    BY <2>2, EndsEmpty DEF ModuleInv
  <2>4. PcInv' /\ HoldsInv' /\ OnlyInv' /\ ReadyInv'
    BY <2>1, <2>2, <2>3, ChatIndex DEF PcInv, HoldsInv, OnlyInv, ReadyInv
  <2>5. {Null, Orphan} \cap Devices = {}
    BY ModuleAssumption DEF Devices, Chats
  <2>6. OpenInv'
    BY <2>1, <2>5 DEF OpenInv, Devices
  <2> QED
    BY <2>4, <2>6 DEF ModuleInv
<1> QED
  BY <1>1, <1>2

\* Users open what is registered, and that is ready.
LEMMA UserStep ==
  ASSUME ModuleInv, NEW u \in Users,
         (\E d \in Devices : Open(u, d)) \/ Use(u) \/ Close(u)
  PROVE  ModuleInv'
<1>1. pc' = pc /\ registered' = registered /\ ready' = ready
  BY DEF Open, Use, Close
<1>2. PcInv' /\ HoldsInv' /\ ReadyInv'
  BY <1>1 DEF ModuleInv, PcInv, HoldsInv, ReadyInv, label, index
<1>3. OnlyInv'
  BY <1>1 DEF ModuleInv, OnlyInv, label, index
<1>4. ASSUME NEW d \in Devices, Open(u, d)
      PROVE  OpenInv'
  <2>1. open' = [open EXCEPT ![u] = d] /\ Cdev(d) \in registered
    BY <1>4 DEF Open
  <2>2. d \in Chats => d \in ready
    BY <2>1 DEF ModuleInv, ReadyInv
  <2>3. d = Bus => Chats \subseteq ready
    <3>1. SUFFICES ASSUME d = Bus PROVE label \in {"bus_node", "loaded", "exit", "bus_cdev_down"}
      BY DEF ModuleInv, ReadyInv, BusUp, BusDown
    <3>2. May(label, index, Cdev(Bus))
      BY <2>1, <3>1 DEF ModuleInv, OnlyInv
    <3>3. \E e \in Devices : Cdev(Bus) = Cdev(e) /\ MayCdev(label, index, e)
      BY <3>2, DeviceNames DEF May
    <3>4. MayCdev(label, index, Bus)
      BY <3>3, DeviceNames
    <3> QED
      BY <3>4, ChatNames DEF MayCdev
  <2> QED
    BY <1>1, <2>1, <2>2, <2>3 DEF ModuleInv, OpenInv
<1>5. ASSUME Use(u) PROVE OpenInv'
  BY <1>1, <1>5 DEF ModuleInv, OpenInv, Use
<1>6. ASSUME Close(u) PROVE OpenInv'
  <2>1. open' = [open EXCEPT ![u] = Null]
    BY <1>6 DEF Close
  <2>2. Null \notin Devices
    BY ModuleAssumption DEF Devices, Chats
  <2> QED
    BY <1>1, <2>1, <2>2 DEF ModuleInv, OpenInv, Devices
<1> QED
  BY <1>2, <1>3, <1>4, <1>5, <1>6 DEF ModuleInv

(***************************************************************************)
(* At every call of telegram_init and telegram_exit, whichever calls have  *)
(* failed before it, the module holds what ModuleInv says, and no more.    *)
(***************************************************************************)
THEOREM ModuleInvariant == Spec => []ModuleInv
<1>1. Init => ModuleInv
  <2> SUFFICES ASSUME Init PROVE ModuleInv
    OBVIOUS
  <2>1. pc = <<"out", 0>> /\ label = "out" /\ index = 0
    BY DEF Init, At, label, index
  <2>2. PcInv /\ HoldsInv /\ OnlyInv /\ ReadyInv
    BY <2>1, ChatIndex DEF Init, PcInv, HoldsInv, OnlyInv, ReadyInv, Labels, Before, NoClass,
       ChatUp, BusUp, BusDown, ChatDown
  <2>3. Null \notin Devices
    BY ModuleAssumption DEF Devices, Chats
  <2>4. OpenInv
    BY <2>3 DEF Init, OpenInv, Devices
  <2> QED
    BY <2>2, <2>4 DEF ModuleInv
<1>2. ModuleInv /\ [Next]_vars => ModuleInv'
  <2> SUFFICES ASSUME ModuleInv, [Next]_vars PROVE ModuleInv'
    OBVIOUS
  <2>1. CASE Calls
    <3>1. OpenInv'
      BY <2>1 DEF Calls, ModuleInv, OpenInv
    <3>2. HoldsInv /\ OnlyInv /\ ReadyInv
      BY DEF ModuleInv
    <3>3. PcInv' /\ HoldsInv'
      BY <2>1, <3>2, CallsPc, CallsHold
    <3>4. OnlyInv' /\ ReadyInv'
      BY <2>1, <3>2, CallsOnly, CallsReady
    <3> QED
      BY <3>1, <3>3, <3>4 DEF ModuleInv
  <2>2. CASE UNCHANGED vars
    <3>1. pc' = pc /\ registered' = registered /\ ready' = ready /\ open' = open
      BY <2>2 DEF vars
    <3>2. PcInv' /\ HoldsInv' /\ OnlyInv'
      BY <3>1 DEF ModuleInv, PcInv, HoldsInv, OnlyInv, label, index
    <3>3. ReadyInv' /\ OpenInv'
      BY <3>1 DEF ModuleInv, ReadyInv, OpenInv, label, index
    <3> QED
      BY <3>2, <3>3 DEF ModuleInv
  <2>3. CASE Locks
    BY <2>3, LocksStep
  <2>4. CASE rmmod \/ free_module
    BY <2>4, KernelStep
  <2>5. ASSUME NEW u \in Users, (\E d \in Devices : Open(u, d)) \/ Use(u) \/ Close(u)
        PROVE  ModuleInv'
    BY <2>5, UserStep
  <2> QED
    BY <2>1, <2>2, <2>3, <2>4, <2>5 DEF Next
<1> QED
  BY <1>1, <1>2, PTL DEF Spec

(***************************************************************************)
(* However telegram_init or telegram_exit ends, nothing of the module      *)
(* stays registered.                                                       *)
(***************************************************************************)
THEOREM ModuleNothingLeft == Spec => []NothingLeft
<1>1. ModuleInv => NothingLeft
  <2> SUFFICES ASSUME ModuleInv, pc \in {At("out"), At("free")} PROVE registered = {}
    BY DEF NothingLeft
  <2>1. label \in Before
    BY DEF At, label, Before
  <2> QED
    BY <2>1, EndsEmpty DEF ModuleInv
<1> QED
  BY <1>1, ModuleInvariant, PTL

(***************************************************************************)
(* The class and the regions are there as long as a device hangs on them.  *)
(***************************************************************************)
THEOREM ModuleParentsOutlive == Spec => []ParentsOutlive
<1>1. ModuleInv => ParentsOutlive
  <2> SUFFICES ASSUME ModuleInv, NEW d \in Devices
               PROVE  /\ Node(d) \in registered => {Class, Region(d)} \subseteq registered
                      /\ Cdev(d) \in registered => Region(d) \in registered
    BY DEF ParentsOutlive
  <2> USE DEF Before, NoClass, ChatUp, BusUp, BusDown, ChatDown
  <2>1. d \in Chats => Region(d) = Region(0)
    BY ChatNames
  <2>2. Cdev(d) \in registered => MayCdev(label, index, d)
    <3> SUFFICES ASSUME Cdev(d) \in registered PROVE MayCdev(label, index, d)
      OBVIOUS
    <3>1. \E e \in Devices : Cdev(d) = Cdev(e) /\ MayCdev(label, index, e)
      BY DeviceNames DEF ModuleInv, OnlyInv, May
    <3> QED
      BY <3>1, DeviceNames
  <2>3. Node(d) \in registered => MayNode(label, index, d)
    <3> SUFFICES ASSUME Node(d) \in registered PROVE MayNode(label, index, d)
      OBVIOUS
    <3>1. \E e \in Devices : Node(d) = Node(e) /\ MayNode(label, index, e)
      BY DeviceNames DEF ModuleInv, OnlyInv, May
    <3> QED
      BY <3>1, DeviceNames
  <2>4. MayCdev(label, index, d) => Region(d) \in registered
    BY <2>1 DEF MayCdev, ModuleInv, HoldsInv
  <2>5. MayNode(label, index, d) => Class \in registered /\ Region(d) \in registered
    BY <2>1 DEF MayNode, ModuleInv, HoldsInv
  <2> QED
    BY <2>2, <2>3, <2>4, <2>5
<1> QED
  BY <1>1, ModuleInvariant, PTL

(***************************************************************************)
(* No lock or wait queue of a chat is used before it is initialised.       *)
(***************************************************************************)
THEOREM ModuleChatReady == Spec => []ChatReadyWhenUsed
<1>1. Init => ChatReadyWhenUsed
  BY DEF Init, ChatReadyWhenUsed
<1>2. ModuleInv /\ ChatReadyWhenUsed /\ [Next]_vars => ChatReadyWhenUsed'
  <2> SUFFICES ASSUME ModuleInv, ChatReadyWhenUsed, [Next]_vars PROVE ChatReadyWhenUsed'
    OBVIOUS
  <2>1. ASSUME NEW u \in Users, Use(u)
        PROVE  ChatReadyWhenUsed'
    <3>1. PICK d \in IF open[u] = Bus THEN Devices ELSE {open[u], Bus} :
            early' = early \cup ({d} \ ready)
      BY <2>1 DEF Use
    <3>2. d = Bus \/ d \in ready
      <4>1. open[u] \in Devices
        BY <2>1 DEF Use
      <4> QED
        BY <3>1, <4>1 DEF ModuleInv, OpenInv, Devices
    <3> QED
      BY <3>1, <3>2 DEF ChatReadyWhenUsed
  <2>2. CASE early' = early
    BY <2>2 DEF ChatReadyWhenUsed
  <2> QED
    BY <2>1, <2>2 DEF Next, vars, Calls, Locks, rmmod, free_module, Open, Close
<1> QED
  BY <1>1, <1>2, ModuleInvariant, PTL DEF Spec
=============================================================================
