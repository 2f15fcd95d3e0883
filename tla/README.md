# A TLA+ model of doomsday-kernel-modules

The repository holds four independent programs. This directory models them in
TLA+, checks the models with TLC and proves theorems about them with TLAPS. `PROJECT.json` maps every definition to the lines it models.

## 1. Inventory

### telegram-fs

Character devices `/dev/telegram/chat_<n>` and `/dev/telegram/bus`, and a Python
daemon that connects the bus to Telegram.

| component | state | operations | interacts with |
|---|---|---|---|
| bus device (`kmodule/bus.c`) | ring of `BUS_QUEUE_SIZE` slots, `head`, `tail`, `count`, mutex, wait queue | `bus_enqueue_outgoing`, `bus_read`, `bus_poll`, `bus_write` | called by `chat_write`; read, polled and written by the daemon |
| chat device (`kmodule/chat.c`) | buffer, `buf_len`, `chat_id`, mutex, wait queue; a position per open file | `chat_write`, `chat_read`, `chat_poll` | fills the bus; the daemon appends through `bus_write` |
| daemon (`udaemon/`) | `offset`, the updates being handled, the line being handled, two threads | `outgoing_loop`, `incoming_loop`, `tg_send`, `tg_get_updates`, `main` | select, read and write on the bus; HTTP to Telegram |
| module init and exit (`kmodule/main.c`) | registered devices | `telegram_init`, `telegram_exit` | the kernel |

Hard parts: conditions tested without the mutex and sleeps after them, wakeups
before or after the unlock, a full ring, a full buffer, lines cut by
`scnprintf`, two threads in the daemon, failing HTTP requests, kills and
restarts, devices that can be opened while `telegram_init` still runs. Correct
means: the bus is a FIFO that drops only when full, a chat is
an append-only log, no reader sleeps beside data, no message is confirmed to
the server before it is in its chat, none is sent twice, and a failed load
leaves nothing registered.

### penguin_malloc

| component | state | operations | interacts with |
|---|---|---|---|
| buddy allocator (`buddy.c`, `buddy_util.c`, `freelist.c`, `util.c`, `pfalloc.c`) | bitmap, one free list per block size, links in the free blocks | `buddy_init`, `buddy_alloc`, `buddy_free` | the slabs and the front end |
| slab allocator (`slab.c`) | caches in a doubly linked list, `first_free_cache`, a free list per cache | `slab_init`, `slab_alloc`, `slab_free`, `slab_destroy` | takes its caches from the buddy allocator |
| front end (`penguin_malloc.c`, `new.cpp`) | slabs by size, a header per object, a mutex | `penguin_malloc`, `penguin_free`, the C++ operators | both allocators |

Hard parts: nothing but a bitmap tells `buddy_free` the size of a block;
logarithms and divisions that must round the right way; a list of caches that
is reordered at almost every call; the first use by several threads at once; long
sequences of allocations and frees. Correct means: live blocks and objects are
disjoint and as large as asked for (the second of which the code does not keep, see
below), every page is either live or on one list,
every object is with the program, on its cache's list or unused, and a free goes
to the allocator the memory came from.

### penguin-fat16

A read-only FAT16 file system: mount (`super.c`), inodes and lookup
(`inode.c`), the directory walk and getdents (`dir.c`), reads (`file.c`), FAT
and names (`fat16.c`). Hard parts: resuming a directory or a file in the middle,
cluster chains, error paths. Correct means: the bytes and names of the image are
returned once and in order, every resource is released on error.

### neuro-swap

A block device that stores data in an LSTM (`kmain.c`, `inference.c`, `math.c`,
generated `weights.h`, a training script). State: the disk, its queue and tag
set, the one LSTM that all requests feed. Operations: `nswap_init`, `nswap_exit`,
`nswap_queue_rq`. Hard parts: the lock that is never taken,
the error paths of init, requests under way at exit. Correct means:
every request is completed, and while its device exists, every step that
fails releases what was allocated before it.

## 2. Modules

| module | models | state and actions |
|---|---|---|
| `BusFifo` | what the bus promises: a bounded FIFO | `Put`, `Drop`, `Get` |
| `TgBus` | `bus_enqueue_outgoing`, `bus_read`, `bus_poll` | one action per step another task can see; `pc[t]` is the point of the code a task is at |
| `ChatLog` | what a chat promises: an append-only log read by files | `Write`, `Read` |
| `TgChat` | `chat_write`, `chat_read`, `chat_poll`, `bus_write` with `IN` and `SET` | as `TgBus`; the bus is the list of enqueued messages |
| `TgDaemon` | users, a mapped chat with its bounded buffer, bus (as `BusFifo`), other readers of the bus, daemon, Telegram server | one action per step of each thread, `OtherRead`, `Start`, `Kill` |
| `Buddy` | `buddy_init`, `buddy_alloc`, `buddy_free` | a call is one action: the calls are serialised by the mutex of `new.cpp` |
| `Fat16` | `fat16_dir_walk`, lookup, getdents, `read_iter`, the layout of an image | `inode` and `pos` are the open file, a call is one action: nothing is written, so calls do not disturb each other |
| `Fat16Mount` | `fill_super`, `put_super`, the root inode, around the calls of `Fat16` | `mount` is the next step of `fill_super`; each may fail |
| `Slab` | `slab.c`: the doubly linked list of caches and the objects of each | operators on the heap, as a call runs under the mutex; the stores in the order of the code |
| `PenguinMalloc` | `penguin_malloc.c` and `new.cpp` on top of `Slab` | `pc[t]` is where a thread is in `new` or `delete` |
| `TgModule` | `telegram_init`, `telegram_exit`, users of the devices | one step per call into the driver core |
| `NSwap` | `nswap_init`, `nswap_exit`, `nswap_queue_rq` and the LSTM step | one step per call that may fail; two per LSTM step |
| `MC...` | small instances of each for TLC | |
| `...Proofs` | theorems about `TgBus`, `TgChat`, `TgDaemon`, `TgModule`, `Buddy`, `PenguinMalloc` with `Slab`, `Fat16` with `Fat16Mount`, `NSwap` | |

`TgDaemon` composes telegram-fs: its bus is an `INSTANCE` of `BusFifo`, and
`TgBus` is shown to implement `BusFifo`. `PenguinMalloc` composes the front end
with `Slab`, and `Fat16Mount` puts the mount around `Fat16`.

What is abstracted:

* The text of messages: a message is a model value with a length. A bus line
  keeps its message and its length, cut as `scnprintf` cuts it. A byte of a chat
  is the pair of a message and a place in its line.
* `wait_event_interruptible` and the loop of `select` are kernel code. They are
  modelled by what they do: queue the task, look at the condition, sleep until
  woken or until a signal or the timeout. `waitq` holds the tasks that are queued
  and have not been woken since; a task is asleep while it is in `waitq` and its
  `pc` is at the sleep.
* `fresh`, `delivered`, `dropped`, `got`, `enqueued`, `received`, `life`,
  `injected`, `shown`, `misfreed`, `outside`, and `out`, `node`, `held` of `Fat16` are
  history variables: the code has no such state.
* Definitions whose names end in a suffix such as `_Lost` or `_NoWrap` are
  deliberately wrong forms of the action after them. No specification uses
  them; each shows that a property would notice that mistake.
* The Telegram server is modelled by what the daemon relies on: it keeps an
  update until a request names a larger offset. A request or its answer may be
  lost at any time. A `sendMessage` that the daemon has given up after its 10
  seconds and that the server takes only later, behind the next one, is not
  modelled: `ReceivedOnceInOrder` is about a server that takes a message before the
  request ends, or never.
* The chat of `TgDaemon` is `buf_len` and the set of updates that are whole in it
  (`shown`). `chat_write` and `bus_write` append to it, cut as `scnprintf` cuts; nothing
  takes bytes out. The writer is not told that a line was cut or found no room, so the
  daemon goes on to confirm such an update. `ConfirmedWasInjected` and `TextReachesChat`
  therefore speak of a text that is whole in the chat or of a full chat.
* The bus device has mode 0666 and its open is not exclusive: `OtherRead` is any other
  process that takes a line, also between `select` and `os.read` of the daemon.
* An image in `Fat16` is a function from sectors to cells, which are directory
  entries, FAT entries or bytes; `Tree` says independently which directories and
  files it holds, and the assumptions of the module say what it means to hold them.
  Names are padded and cut as the code does, with shorter stems. A call of
  `fat16_dir_walk` is given by the slots it visits (`WalkEnd`) and by the sectors
  it has read by then (`ReadBefore`), which tells where a bad sector stops it.
  `.` and `..` of a subdirectory are listed twice, from `dir_emit_dots` and from
  the disk: `ListsDirectory` states this as it is.
* `dentry` of `Fat16` is the dentry that the last lookup has worked on: directory, name,
  whether it has an inode (`positive`), and how often it was put into the kernel's
  hash table (`hashed`). `d_splice_alias` and `d_add` are kernel code, modelled by what
  they do to these.
* Addresses in `Buddy` are page numbers; the link of a free block is
  `next[p]`. Bits behind the reserved bitmap start with any value, as the pool
  may hold anything, and are memory of their own. In the code they are the slack in front
  of the first page or, on large pools that are not powers of two, the pool's first
  pages (`buddy.c:27-31`, `buddy_util.c:5`), where the bits and what a block holds
  overwrite each other. What `Buddy` says is exact for pools whose bitmap has a bit for
  every block (`BitmapCovers` in `BuddyProofs`). Only blocks are modelled, not what clients
  write into them.
* In `Slab` and `PenguinMalloc` the page allocator is what `buddy.h` promises: a
  block has one user at a time. (`Buddy` shows where the code falls short of that.)
  A cache takes several pages, so a block may be too small for it and large enough
  for a request: `Fragments` are such blocks.
  An object is the pair of its block and its number; a pointer is its address and what
  its header says. Sizes are those of `size_t` and wrap at `SIZE_MOD`, so a request
  close to the largest size is served as a small one, and one of no pages divides by
  zero (`"undefined"`). How many bytes lie behind a pointer is not modelled, and no
  property says that they are enough: for page counts that do not divide the root block
  they are not (`Buddy`). A call that follows a link to
  a block that is no cache of its slab any more ends as `"undefined"`, and one
  whose loop over the caches never ends as `"loop"`: the thread keeps the mutex,
  and the heap is not followed further.
* In `TgModule` what users do with an open file is reduced to the locks they touch;
  `TgBus` and `TgChat` model the rest.
* In `NSwap` the LSTM is the sequence of inputs it has absorbed. A step reads this
  sequence when it begins and writes it when it ends. If another CPU has written
  in between, the result is `Torn`: some mixture that no sequence explains. The
  block layer is external: it keeps requests within the capacity, calls `queue_rq`
  on several CPUs, and `del_gendisk` waits for the requests under way. As the capacity
  is `nr_sectors`, the error path of `queue_rq` (`kmain.c:39-42`, which ends a request that
  blk-mq ends again) is not reached.
* `early`, `going` of `TgModule`, `stale` and `done` of `NSwap`, and `mem` of
  `Fat16Mount` are history or kernel state.

## 3. Runs

| run | expects | shows |
|---|---|---|
| `bus_safety` | pass | `TypeOK`, `NoLostWakeup`, `BusInv`, `FittingLinesWhole`, and that `TgBus` implements `BusFifo` |
| `bus_liveness` | pass | `ReadReturns`: no reader or poller hangs beside a message |
| `chat` | pass | `TypeOK`, `NoLostWakeup`, `ShownBeforeSent`, that `TgChat` implements `ChatLog`, and `ReadReturns` |
| `daemon` | pass | `ConfirmedWasInjected`, `InjectedOncePerLife`, `ReceivedOnceInOrder`, `BusDrained`, and `TextReachesChat` when no text is sent after one that is too long |
| `daemon_long` | violation | `TextReachesChat`: one long text ends the incoming thread |
| `tgmodule` | pass | `NothingLeft`, `ParentsOutlive`, `ChatReadyWhenUsed`, with a failure of any call and users at any time |
| `buddy` | pass | `Tiling`, `LeftBlocksFound`, `BlocksHoldRequest` on 16 pages, requests that leave the array of lists included |
| `buddy_overlap` | violation | `LiveBlocksDisjoint`: the free of a right half releases another block |
| `malloc` | pass | `ObjectsAccounted`, `FirstFreeHasRoom`, `HeaderNamesOwner` until a call goes astray, and `OneInside` |
| `fat16` | pass | `ListsDirectory`, `DentryAgrees`, `InoUnique`, `MountBalanced`, `ReadFromStart` on an image with fragmented chains and bad sectors |
| `fat16_read` | violation | `ReadMatches`: a file read in two calls |
| `nswap` | pass | `DeviceWhileServing`, `AllReleased`, `NoByteLost`, `RequestsEnd`, `ExitFinishes` |

The runs that end in a violation state what a comment, a test or a README of the
repository says and show a trace on which the code does something else;
`PROJECT.json` quotes the line under "findings".

`TypeOK` of `Buddy`, `PenguinMalloc`, `TgModule` and `NSwap` gives the types of the
state to the reader; no run lists it. That of `NSwap` is proved.

### What the models show besides

These are reached in passing runs, and the properties are stated around them:

* A line that does not fit a slot of the bus loses its end, the newline first
  (`FittingLinesWhole` is about the others).
* A request whose pages do not divide the root block may get a block that is too
  small: 3 pages get 2 on a root of 16. With 2^n pages a request of one page
  leaves the array of lists. With 17 pages (in no run) the bitmap is shorter than
  its layout.
* Buddies are never merged as long as every free finds its block: the bit of the
  right half is set from the split on. `BuddyProofs` proves it.
* `slab_cache_move_up` and `slab_cache_move_down` make a cache its own neighbour,
  and `slab_cache_destroy` leaves a link to a first or last cache that is gone. Later
  calls loop forever with the mutex held, or follow the link into a freed block or
  into another slab's cache: `malloc` reaches both.
* A chat can be written to before the lock of the bus is initialised, and files
  opened during a `telegram_init` that then fails outlive the module.
* A chat never drains: once it is full, texts from Telegram are confirmed to the server and
  are not stored. When another process takes the line that `select` announced, the
  outgoing thread blocks in `os.read` until the next one, and with no more lines for ever.
* `d_splice_alias` returns NULL for every name that lookup has found, and lookup then runs
  `d_add(dentry, NULL)` as for a name that is absent: the dentry keeps its inode and is
  put into the hash table a second time (`hashed` is 2 in `Fat16`). What this does to
  the table is the kernel's and is not modelled.
* A size to which the header cannot be added without a wrap gets an object of the
  smallest slab; one for which the page count becomes 0 is undefined.
* A root inode that cannot be made is not noticed: mounting ends in an oops.
* After a failed `add_disk` the queue is released twice. Overlapping LSTM steps of
  two CPUs tear its state, as `dev.lock` is never taken.

### Bounds

* Bus: two writers, two readers, four messages, a ring of two slots. The
  messages fill, overflow and wrap the ring. One message does not fit a slot of
  8 bytes, one of the two buffer sizes is too small for a full slot. Two of each
  kind are enough for every race of a pair; the theorems hold for any number.
  Writers, readers and the equal messages are symmetric. The liveness run uses
  a ring of one slot and two messages and no symmetry.
* Chat: two writers, one file, three messages for a buffer of six bytes and a
  NUL: lines that fit, one that is cut, one that finds no room; two more messages
  that the size checks refuse, and the `SET` command. Files share nothing but the
  mutex and the wait queue, which wakes all of them, so one is enough.
* Daemon: three user messages (one to a chat that is not mapped) on a bus of two
  lines, updates of each kind, one kill, and a buffer of six bytes and a NUL for a chat whose
  lines fill it, so that texts are whole, cut, or find no room. The restart makes
  the server send again what is not confirmed. Deadlock is not checked: with the
  incoming thread dead, nothing left to arrive or to write, and the outgoing thread in
  `os.read` on a bus that another process has emptied, the daemon really stops.
* Buddy: four live blocks. 16 pages are the smallest power of two that
  `buddy_init` accepts, with blocks of 16, 8, 4 and 2 pages; 15 pages are the
  smallest pool, with a root of 8. A request of 3 pages does not divide the root,
  one of 16 takes all of it. After a free of the wrong block the model follows
  allocations, which show the overlap, but no further frees. Deadlock is not
  checked: with an exhausted pool, or after an access outside of the lists
  (one page on a pool of 2^n pages, where `buddy_layers` is one too small), it
  stops.
* Malloc: two threads, two slabs, four blocks and one fragment, root caches of one
  object and others of two, four pointers in use. A slab can have a list of three
  caches, lose one, give its block to the other slab, and find no block for a
  cache, so that the request falls back to the page allocator, which serves it
  from the fragment or fails too. The
  sizes, of a `size_t` of 16 values, choose the first slab, the second, and the page
  allocator, and two of them wrap when the header is added. Threads and blocks are
  symmetric.
* Module: two chats and two users, so that one chat is in use while the other and
  the bus are set up or taken down; users are symmetric.
* NSwap: two CPUs, a disk of two sectors, three requests between two loads: a write
  of two segments, a read of the last sector, and one that the block layer refuses.
* Fat16: sectors of two entries, clusters of two sectors. The root is full and
  has no end mark, one directory spans two clusters and ends inside the second,
  one fills its cluster; deleted entries stand in each, and one name stands
  behind an end mark. One file spans two clusters that are not neighbours, one
  ends inside its first sector, two are empty. In each call one of five sectors
  (both sectors of the FAT, a sector of the root, of a directory and of a file)
  may be unreadable. The image is mounted and unmounted any number of times.

### Fairness

`Spec` of each module but `NSwap` has none; `FairSpec` adds what liveness needs.

* Bus and chat: a task inside a call keeps running (weak fairness of its
  steps), since the scheduler runs every runnable task. Taking the mutex is
  strongly fair: the kernel's mutex is handed over to a waiter that has waited
  for long. No task has to call, and signals and timeouts need not come.
* Daemon: the threads of a running daemon keep running. `tg_get_updates` is
  strongly fair: a thread that asks again and again is answered at some time. No
  fairness for users, kills and the restart, hence the premise `<>[]up`.
* NSwap: a CPU inside `queue_rq` runs on to its end, as nothing in it waits for
  another task; the clean-up of a failed load and `rmmod` run on once they have
  begun, `rmmod` as soon as no request is under way. No module has to be loaded or
  unloaded, and no request has to come.

## 4. Proofs

A theorem holds for every value of the constants that the named assumptions of
its module allow: any number of tasks, messages, chats, threads, blocks, requests.

| module | theorems | state |
|---|---|---|
| `TgBusProofs` | `BusInvariant`, `BusTypes`, `BusNoLostWakeup`, `BusLinesWhole`, `BusRefinesFifo` | `TypeOK`, `BusInv`, `NoLostWakeup`, `FittingLinesWhole`, `ImplementsFifo` |
| `TgChatProofs` | `ChatInvariant`, `ChatTypes`, `ChatNoLostWakeup`, `ChatShownBeforeSent`, `ChatRefinesLog` | `TypeOK`, `NoLostWakeup`, `ShownBeforeSent`, `ImplementsLog` |
| `TgDaemonProofs` | `DaemonInvariant`, `DaemonTypes`, `DaemonConfirmedWasInjected`, `DaemonInjectedOncePerLife`, `DaemonReceivedOnceInOrder` | `TypeOK` and the safety properties of `TgDaemon` |
| `TgModuleProofs` | `ModuleInvariant`, `ModuleNothingLeft`, `ModuleParentsOutlive`, `ModuleChatReady` | `NothingLeft`, `ParentsOutlive`, `ChatReadyWhenUsed` |
| `PenguinMallocProofs` | `MallocInvariant`, `MallocOneInside`, `MallocObjectsAccounted`, `MallocFirstFreeHasRoom`, `MallocHeaderNamesOwner` | `OneInside`, `ObjectsAccounted`, `FirstFreeHasRoom`, `HeaderNamesOwner` |
| `BuddyProofs` | `BuddyInvariant`, `BuddyHoldsRequest`, `BuddyFindsLeftBlocks`, `BuddyTiling`, `BuddyDisjointUntilMisfree`, `BuddyNeverMerges` | `BlocksHoldRequest`, `LeftBlocksFound`, `Tiling`, `LiveBlocksDisjoint` until a free releases a wrong block |
| `Fat16MountProofs` | `MountInvariant`, `MountKeepsBalance`, `ReadInvariant`, `FatTypes`, `FatLists`, `FatDentryAgrees`, `FatInoUnique`, `FatReadFromStart` | `MountBalanced`, `TypeOK`, `ListsDirectory`, `DentryAgrees`, `InoUnique`, `ReadFromStart` |
| `NSwapProofs` | `DiskInvariant`, `DiskWhileServing`, `DiskReleased`, `AbsorbInvariant`, `DiskTypes`, `DiskNoByteLost` | `DeviceWhileServing`, `AllReleased`, `TypeOK`, `NoByteLost` |

### The bus

Assumptions: `TaskAssumption`, `SizeAssumption` (sizes above 0).

`TypeOK` alone is not inductive: `count <= BUS_QUEUE_SIZE` needs to know that the
ring still has room when a writer publishes, long after it looked. `BusInv`
supplies it. `LockInv` says that the mutex is owned by the one task in a
critical section. `RingInv` ties `tail` to `head` and `count` modulo the size
and says that the used slots hold lines. `FillInv` says that between filling and
publishing there is room and the slot keeps its line; `CopyInv` says that
between copy and advance the copied line is still the oldest. Each part has a
lemma, with one step per action that can disturb it. `FillInv` and `CopyInv`
lean on `LockInv`: another task at a writing step would own the mutex too.

`NoLostWakeup` is inductive together with `TypeOK`: a task goes to sleep only
when `count` is 0, and `count` grows only in a writer that then stands before
its wakeup. The refinement maps the ring to `Contents`, the sequence of the
lines from `head` to `tail`. Publishing appends to it (`PublishContents`),
advancing takes its head (`AdvanceContents`), filling a slot changes nothing in it
(`FillContents`), and every other step stutters or drops. `BusLinesWhole` is proved
on the abstract side: the steps of the FIFO move whole lines, so what is in the
ring or was read is what `scnprintf` made of one message.

### The chats

Assumptions: `TaskAssumption`, `SizeAssumption`. `ChatInv` has four parts:
`LockInv` as above; `AppendInv`, that between `scnprintf` and the update of `buf_len`
the new line stands behind what readers see, and after it among them; `GotInv`, that
a file has returned exactly the bytes before its position; `SentInv`, that what went
to the bus is in the buffer or found no room. `ShownBeforeSent` needs `AppendInv`,
because the chat's lock is given up between the two. The refinement maps
the buffer up to `buf_len` to the log: the one step that publishes a line is the
`Write` of `ChatLog`, the copy of a reader its `Read`.

### The daemon

Assumptions: `KindAssumption`, `BoundAssumption` (the bus holds a line, the number of
kills is a number), `BufferAssumption` (the buffer has room for its NUL, lines are not empty). `ConfirmedWasInjected` is not inductive, because `offset` is
already past an update when it is injected. `OffsetInv` says where this is so: only
in front of the injection, from where the thread cannot reach the next request
without injecting. `BatchInv` says that an answer has no gaps, `LifeInv` that what
this life injected lies before the next update. On the way out, `OnceInv` says that
a message is in one place and once, `HandInv` that the line in hand left
the bus after every message sent so far (others may have left it since, to other
readers). The bus is the FIFO that `BusRefinesFifo`
justifies.

### Loading and unloading

`TgModule` (`ModuleAssumption`): at each label of `telegram_init` and `telegram_exit`,
`HoldsInv` says what is registered for certain, and `OnlyInv` what may be registered at
most; the two differ by the calls whose results the code ignores. `ReadyInv` and
`OpenInv` say which locks are initialised and that open files reach no others.
`NSwap` (`NSwapAssumption`, `RequestAssumption`: positions are numbers, segments hold bytes):
`HeldInv` lists exactly what is held at each label, `ServeInv` that requests enter
while the disk is live and are gone when `del_gendisk` returns. `Fat16Mount`: the same for
`fill_super`, and that nothing is open while nothing is mounted.

### penguin_malloc

Assumptions: `SlabAssumption` (the blocks are finitely many, caches hold at least one
object, NULL is no block, slab or object) and `FrontAssumption` (the slabs are numbered
from 0, sizes are values of `size_t`, NULL is no thread and no pointer).

The properties are about states in which no call hangs or has followed a stale
link (`~Stuck`). That the list of caches may be wrong there is the point: the
proof assumes nothing about the links. `Good(h, U)` says of a heap and of the
pointers in use that a block has one user, that first_free_cache has room, that pointers
differ, that each cache is accounted for (`CacheAccounted`), that each pointer's header
names its owner. The lemmas follow the code bottom-up:

* `MoveUp` and `MoveDown`: the functions that reorder the list change links only,
  whatever the links were (`Relinked`).
* `CacheAlloc`, `CacheInit`, `CacheFree`, `CacheDestroy`: what each function of `slab.c`
  does to the objects, if it returns.
* `TakeAccounted`, `FreeAccounted`: a taken object was not with the program; a freed
  one goes to the list once.
* `TakeGood`, `NewCacheGood`, `GiveGood`, `DropGood`, `LargeGood`, and from them `MallocGood`,
  `FreeGood`, `InitGood`: each call of the front end keeps `Good`.

`MallocInv` adds the threads: `OneInside`, what each call is about (`CallInv`), and that
nothing is in the heap until `pthread_once` is done (`OnceInv`). The best-fit loop takes
the least index by the well-foundedness of the numbers (`LeastNumber`), and
`CountHeld` and `CountListed` turn distinctness into the cardinalities of
`ObjectsAccounted`.

For these proofs `penguin_malloc_init` gives every slab its first cache in one
step per slab and block instead of a recursion over the slabs: `slab_init` touches its own
slab and block only.

### The buddy allocator

Assumption: `PoolAssumption` (`buddy_init` refuses pools below 15 pages, requests ask for
at least one page, NULL is no page). Nothing bounds the pool, the clients or the requests.

The arithmetic comes first. `Pow2Def` to `Pow2Above` make the doubling function usable,
`Log2Upper` and `Log2Power` say what the logarithms of `util.c` return, `Sizes` and
`Params` that the layers halve the root block exactly, `BestFit` that a request
that divides the root gets a layer whose blocks hold it. `BitsApart` says that
different blocks have different bits, and `Parts`, `SamePart`, `PartsApart` which pages the
halves of a block share.

`Tiling` is not inductive: a list is a chain of links in free pages, and nothing in the
code says that it ends, or that two lists do not meet. `BuddyInv` says there is an
arrangement of the lists as stacks (`Stacked`), an owner of each page, a client or a
place on a list (`Owned`), and that every block has its bits in order (`BlockOK`):
the bit of the right one of two halves is set, that of the root and of a left
half is clear, and no block below has a clear bit. The lemmas `AllocStacked`,
`AllocOwned`, `AllocBlocks` and their `Free...` counterparts each carry one part over a call.
`Walk` then shows that following the links visits what the stack holds.

`LeftBlocksFound` has the premise `BitmapCovers`: `buddy_bitmap_size` reserves a bit per page,
which is enough for the layout when the pool is a power of two or less than 8 pages short of
one. On other pools bits behind the reserved part have any value, and the
property is false (17 pages). The other theorems have no premise, but
`Tiling` and `BuddyDisjointUntilMisfree` are about the states before a free
released a wrong block, as the run `buddy_overlap` shows they must be. For pools
outside of `BitmapCovers` they are about the model, which keeps the bits behind the
bitmap apart from the pool's pages.

### The data path of neuro-swap

Assumptions: as above, and `IdleAssumption` (a CPU that is idle is told from one that
serves). `NoByteLost` speaks of the moments without requests. The
invariant `AbsorbInv` speaks of every moment: each CPU has absorbed a first part of the inputs
of its request, and the rest is `todo`; and unless the LSTM is torn there is a function
from the places of its state onto the places of `done` and of these first parts, one to
one, that respects the bytes (`Matched`). It is a bijection because the requests
of several CPUs are mixed byte by byte: no order would do. A step of the LSTM
adds one place (`MatchedStep`), the end of a request moves a first part into
`done` (`MatchedEnd`), and equal numbers of occurrences follow because sets in
bijection have the same cardinality.

### The read paths of penguin-fat16

The assumptions say what a well-formed image is and nothing about the code:
`LayoutAssumption` (a sector holds a whole number of entries and FAT cells),
`TreeAssumption` (a node other than the root is in one directory under one name),
`ChainAssumption` (chains of directories end, and share no cluster),
`ImageAssumption` (the live entries of a directory are the names of the node, in order,
differ in more than case, and lead to what the tree says), `NamesAssumption` (the VFS
does not look up `.` and `..`), `CallAssumption` (sizes are numbers). The image of the runs
satisfies them: TLC evaluates them there.

`FatInv` says of the open inode that it is the one of the node at the end of the path and that its
number is that of the entry leading there (`OpenedAt`, `Placed`), that what a
listing has returned is what its position says (`Listed`: the dots and the names of the live
slots before it), and that the dentry agrees with its directory. The argument:

* `FatInoUnique`: `InoTells` recovers sector and entry from a number, `RootSector` and
  `ClusterSector` that different slots are in different places, as clusters are not shared
  and lie behind the root (`InoOfSlot`), and `PlacedOnce` that a node has one entry.
* `FatLists`: `NthExists` and `LiveSplit` count the live slots, `EmitNames` says that the entries
  emitted between two slots are the next names, `ListedOn` that one getdents call
  from any position with any buffer continues the list, an I/O error included.
* `FatDentryAgrees`: a match is an entry of that name, which `d_add` with no inode leaves to
  its dentry, and a walk that does not fail has looked at all slots (`WalkWhole`,
  `LookupDentry`).
* `FatReadFromStart`: `PlaceInSector` and `BytesOfFile` say that the bytes copied are those of
  the chain.

### Only model-checked

Liveness (`ReadReturns`, `BusDrained`, `TextReachesChat`, `RequestsEnd`, `ExitFinishes`)
is beyond this prover. Every other property of the passing runs is proved, `LeftBlocksFound`
for the pools that `BitmapCovers` describes.

## 5. Not modelled

* The arithmetic of `neuro-swap/kmodule/inference.c` and `math.c`, `weights.h` and the
  training script: floating-point numbers and generated data. `umain.c`, a program
  that tries the LSTM in user space.
* Tests, build files and assets.
* telegram-fs: a `sendMessage` that the server takes after the daemon has given it up, `-EFAULT` of `copy_from_user` and malformed bus commands (they
  return before anything changes), the chat index of a bus line, several chats
  (they share nothing but the bus), files shared by several readers, the limit
  of updates per answer.
* penguin_malloc: the alignment arithmetic of `buddy_init`, `buddy_mark`, `dist`,
  `itos`, `log2_lower` and `slab_destroy`, which nothing or only tests call; a failed `mmap`, which aborts the process, and a slab that could not be set
  up; what a call does after it followed a stale link.
* penguin-fat16: malformed images (a chain with a cycle would be walked for ever), what a
  dentry that is hashed twice does to the kernel's hash table, seeks other than to the start, `-ENOMEM` of calls
  on a mounted file system (it changes nothing), `fat16_str_to_83`, which nothing
  calls, the registration of the file system, the memory of inodes other than the
  root.
* neuro-swap: the mappings of `bvec_kmap_local`, which are never undone,
  `blk_mq_start_request`, which is never called, and the overflow of a size in MiB
  beyond what the parameter is meant for.

## 6. Plan

The components that carry state are modelled, every safety property that the passing runs
check is proved, and liveness is model-checked. Worth adding, should the code change:

1. A theorem on `LiveBlocksDisjoint` without its premise, once `buddy_free` knows the
   size of the block it is given.
2. `ReadMatches` as a passing run and a theorem, once `read_iter` starts at `ki_pos`.
3. The links of the caches as a doubly linked list in `PenguinMalloc`, once
   `slab_cache_move_up` and `slab_cache_move_down` keep it one.
