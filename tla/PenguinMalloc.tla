--------------------------- MODULE PenguinMalloc ---------------------------
(***************************************************************************)
(* The front end of penguin_malloc: penguin_malloc and penguin_free        *)
(* (penguin_malloc.c) on top of the slabs and of the page allocator, and   *)
(* the operators new and delete (new.cpp), which threads call at any time. *)
(* The allocator is set up by the first new, under pthread_once; a mutex   *)
(* guards every later use.                                                 *)
(***************************************************************************)
EXTENDS Slab

CONSTANTS
  Threads,
  Sizes,        \* the sizes asked for
  MaxPtrs,      \* the bound on pointers in use
  SIZE_MOD,     \* the values of size_t, 2^64 in the build
  PAGE_SIZE,
  HeaderSize,   \* sizeof(penguin_malloc_header_t)
  PENGUIN_MALLOC_SLABS,
  PENGUIN_MALLOC_MIN_SLAB_SIZE

ASSUME FrontAssumption ==
  /\ Slabs = 0 .. PENGUIN_MALLOC_SLABS - 1
  /\ Cardinality(Blocks) >= Cardinality(Slabs)    \* 128 MiB hold the first caches
  /\ {PAGE_SIZE, HeaderSize, PENGUIN_MALLOC_SLABS, PENGUIN_MALLOC_MIN_SLAB_SIZE}
       \subseteq Nat \ {0}
  /\ SIZE_MOD \in Nat \ {0}
  /\ Sizes \subseteq 0 .. SIZE_MOD - 1
  /\ Null \notin Threads
  /\ Null \notin [address : (Blocks \cup Fragments) \X Nat, index : Nat]

VARIABLES
  heap,         \* the slabs, the caches and the blocks used as they are
  ptrs,         \* the pointers the program holds
  pc,           \* where each thread is
  arg,          \* the size or the pointer a thread's call is about
  g_init_once, g_mutex

vars == <<heap, ptrs, pc, arg, g_init_once, g_mutex>>

BUDDY_INDEX == PENGUIN_MALLOC_SLABS

slab_size_by_index(index) == PENGUIN_MALLOC_MIN_SLAB_SIZE * 2 ^ (index + 1)

\* Arithmetic of size_t wraps.
with_header(size) == (size + HeaderSize) % SIZE_MOD

to_pages_count(size) == ((size + PAGE_SIZE - 1) % SIZE_MOD) \div PAGE_SIZE

best_fit_slab_index(size) ==
  LET fits == {i \in Slabs : size < slab_size_by_index(i)}
  IN  IF fits = {} THEN BUDDY_INDEX ELSE CHOOSE i \in fits : \A j \in fits : i <= j

(***************************************************************************)
(* A pointer stands for its address and the slab_index in its header.      *)
(***************************************************************************)
Ptr(address, index) == [address |-> address, index |-> index]

FromBuddy_KeepIndex(h, size, b) ==
  IF to_pages_count(size) = 0 THEN Ends("undefined", h, Null)
  ELSE IF b = Null THEN Ends("return", h, Null)
  ELSE Ends("return", [h EXCEPT !.large = @ \cup {b}],
            Ptr(<<b, 0>>, best_fit_slab_index(size)))

\* What the page allocator makes of a request of size bytes, header included.
\* For no pages at all best_fit_layer divides by zero. How large its block b
\* is, and whether that is enough, is the subject of Buddy.
FromBuddy(h, size, b) ==
  IF to_pages_count(size) = 0 THEN Ends("undefined", h, Null)
  ELSE IF b = Null THEN Ends("return", h, Null)
  ELSE Ends("return", [h EXCEPT !.large = @ \cup {b}], Ptr(<<b, 0>>, BUDDY_INDEX))

\* slab_alloc calls the page allocator for a new cache.
FromSlab(h, index) ==
  {LET r == slab_alloc(h, index, b)
   IN  IF r.ptr = Null THEN r ELSE [r EXCEPT !.ptr = Ptr(@, index)] :
     b \in IF h.alloc[index].first_free_cache = Null THEN buddy_alloc_cache(h) ELSE {Null}}

\* The results a call may have: the page allocator serves large requests,
\* and those for which the slab has returned NULL. A size so large that the
\* header makes it wrap is served as a small one.
penguin_malloc(h, size) ==
  LET whole == with_header(size)
      index == best_fit_slab_index(whole)
      small == IF index = BUDDY_INDEX THEN {} ELSE FromSlab(h, index)
      done  == {r \in small : r.ptr # Null \/ r.end # "return"}
  IN  IF done # {} THEN done ELSE {FromBuddy(h, whole, b) : b \in buddy_alloc(h)}

penguin_free(h, ptr) ==
  IF ptr = Null THEN Ends("return", h, Null)
  ELSE IF ptr.index = BUDDY_INDEX
  THEN Ends("return", [h EXCEPT !.large = @ \ {ptr.address[1]}], Null)
  ELSE slab_free(h, ptr.index, ptr.address)

NoHeap ==
  [alloc |-> [s \in Slabs |-> NoSlab], cache |-> [b \in Blocks |-> NoCache], large |-> {}]

Init ==
  /\ heap = NoHeap
  /\ ptrs = {}
  /\ pc = [t \in Threads |-> "idle"]
  /\ arg = [t \in Threads |-> Null]
  /\ g_init_once = "no"
  /\ g_mutex = Null

Goto(t, label) == pc' = [pc EXCEPT ![t] = label]

(***************************************************************************)
(* operator new, in its four forms: pthread_once lets one thread run       *)
(* init_allocator and keeps the others waiting until it is done. A thread  *)
(* that waits there, or in delete for the mutex, counts as not inside yet. *)
(***************************************************************************)
pthread_once_NoWait(t) ==
  /\ g_init_once' = IF g_init_once = "no" THEN "running" ELSE g_init_once
  /\ Goto(t, IF g_init_once = "no" THEN "init" ELSE "new_lock")

pthread_once(t) ==
  /\ g_init_once # "running"
  /\ g_init_once' = IF g_init_once = "no" THEN "running" ELSE "done"
  /\ Goto(t, IF g_init_once = "no" THEN "init" ELSE "new_lock")

New(t, size) ==
  /\ pc[t] = "idle"
  /\ Cardinality(ptrs) + Cardinality({u \in Threads : pc[u] # "idle"}) < MaxPtrs
  /\ arg' = [arg EXCEPT ![t] = size]
  /\ pthread_once(t)
  /\ UNCHANGED <<heap, ptrs, g_mutex>>

\* Each slab gets its first cache, in the block that root names. slab_init
\* touches its own slab and block only, so the order does not matter.
penguin_malloc_init(h, root) ==
  LET By(s) == slab_init(h, s, root[s])
  IN  [h EXCEPT !.alloc = [s \in Slabs |-> By(s).alloc[s]],
                !.cache = [b \in Blocks |->
                             IF \E s \in Slabs : root[s] = b
                             THEN By(CHOOSE s \in Slabs : root[s] = b).cache[b]
                             ELSE h.cache[b]]]

\* mmap, buddy_init and penguin_malloc_init.
init_allocator(t) ==
  /\ pc[t] = "init"
  /\ \E root \in {f \in [Slabs -> Blocks] : \A i, j \in Slabs : f[i] = f[j] => i = j} :
       heap' = penguin_malloc_init(heap, root)
  /\ g_init_once' = "done"
  /\ Goto(t, "new_lock")
  /\ UNCHANGED <<ptrs, arg, g_mutex>>

pthread_mutex_lock(t) == g_mutex = Null /\ g_mutex' = t

NewLock(t) ==
  /\ pc[t] = "new_lock"
  /\ pthread_mutex_lock(t)
  /\ Goto(t, "malloc")
  /\ UNCHANGED <<heap, ptrs, arg, g_init_once>>

\* A call that loops or is undefined never gets to the unlock.
Malloc(t) ==
  /\ pc[t] = "malloc"
  /\ \E r \in penguin_malloc(heap, arg[t]) :
       /\ heap' = r.heap
       /\ arg' = [arg EXCEPT ![t] = r.ptr]
       /\ Goto(t, IF r.end = "return" THEN "new_unlock" ELSE r.end)
  /\ UNCHANGED <<ptrs, g_init_once, g_mutex>>

\* The unlock, and the return of the pointer or the throw of bad_alloc.
NewReturn(t) ==
  /\ pc[t] = "new_unlock"
  /\ g_mutex' = Null
  /\ ptrs' = ptrs \cup ({arg[t]} \ {Null})
  /\ arg' = [arg EXCEPT ![t] = Null]
  /\ Goto(t, "idle")
  /\ UNCHANGED <<heap, g_init_once>>

(***************************************************************************)
(* operator delete, in its six forms, of a pointer that some thread got    *)
(* from new, or of nullptr, at any time.                                   *)
(***************************************************************************)
Delete(t, ptr) ==
  /\ pc[t] = "idle"
  /\ pthread_mutex_lock(t)
  /\ arg' = [arg EXCEPT ![t] = ptr]
  /\ ptrs' = ptrs \ {ptr}
  /\ Goto(t, "free")
  /\ UNCHANGED <<heap, g_init_once>>

Free(t) ==
  /\ pc[t] = "free"
  /\ LET r == penguin_free(heap, arg[t])
     IN  heap' = r.heap /\ Goto(t, IF r.end = "return" THEN "delete_unlock" ELSE r.end)
  /\ arg' = [arg EXCEPT ![t] = Null]
  /\ UNCHANGED <<ptrs, g_init_once, g_mutex>>

DeleteReturn(t) ==
  /\ pc[t] = "delete_unlock"
  /\ g_mutex' = Null
  /\ Goto(t, "idle")
  /\ UNCHANGED <<heap, ptrs, arg, g_init_once>>

\* What such a thread does is not followed; the others wait for its mutex.
Spin(t) ==
  /\ pc[t] \in {"loop", "undefined"}
  /\ UNCHANGED vars

Next ==
  \E t \in Threads :
    \/ \E size \in Sizes : New(t, size)
    \/ init_allocator(t)
    \/ NewLock(t) \/ Malloc(t) \/ NewReturn(t)
    \/ \E ptr \in ptrs \cup {Null} : Delete(t, ptr)
    \/ Free(t) \/ DeleteReturn(t)
    \/ Spin(t)

Spec == Init /\ [][Next]_vars
-----------------------------------------------------------------------------
Stuck == \E t \in Threads : pc[t] \in {"loop", "undefined"}

\* The pointers in the program's hands, or in those of a call.
InUse == ptrs \cup {arg[t] : t \in {u \in Threads :
                       pc[u] \in {"new_unlock", "free"} /\ arg[u] # Null}}

\* A block has one user, no cache counts more objects than it has room for,
\* and each thread is at a point of its call.
TypeOK ==
  /\ heap.large \subseteq (Blocks \cup Fragments) \ Caches(heap)
  /\ DOMAIN heap.cache = Blocks /\ DOMAIN heap.alloc = Slabs
  /\ \A c \in Blocks : heap.cache[c].allocated_objects \in 0 .. heap.cache[c].max_objects
  /\ pc \in [Threads -> {"idle", "init", "new_lock", "malloc", "new_unlock",
                         "free", "delete_unlock", "loop", "undefined"}]
  /\ g_init_once \in {"no", "running", "done"}
  /\ g_mutex \in Threads \cup {Null}

(***************************************************************************)
(* Every object of every cache is in exactly one place: with the program,  *)
(* on the cache's free list, or in its unmanaged part. allocated_objects   *)
(* counts those of the program, and never passes max_objects. So no object *)
(* is handed out twice, whatever the order of the caches.                  *)
(***************************************************************************)
ObjectsAccounted ==
  ~Stuck => \A c \in Caches(heap) :
    LET cache == heap.cache[c]
        used  == {p \in InUse : p.address[1] = c}
        held  == {p.address[2] : p \in used}
        free  == {cache.freelist[i] : i \in DOMAIN cache.freelist}
    IN  /\ Cardinality(held) = Cardinality(used)
        /\ Cardinality(free) = Len(cache.freelist)
        /\ held \cap free = {}
        /\ held \cup free = 1 .. cache.unmanaged - 1
        /\ cache.allocated_objects = Cardinality(held)
        /\ cache.unmanaged - 1 <= cache.max_objects

(***************************************************************************)
(* slab_alloc relies on first_free_cache: it is NULL or a cache of this    *)
(* slab that exists and has room, though caches are freed and reordered    *)
(* and only a new cache or a full one makes slab_alloc look again.         *)
(***************************************************************************)
FirstFreeHasRoom ==
  ~Stuck => \A s \in Slabs :
    LET c == heap.alloc[s].first_free_cache
    IN  c # Null => c \in Caches(heap) /\ heap.cache[c].slab = s /\ ~Full(heap, c)

(***************************************************************************)
(* The header of a pointer names the allocator its memory came from, also  *)
(* when a slab was exhausted and the page allocator took over: a block of  *)
(* the page allocator that nobody has given back, or a cache that exists   *)
(* and is of the slab that the header names. So penguin_free hands memory  *)
(* to nobody but its owner.                                                *)
(***************************************************************************)
HeaderNamesOwner ==
  ~Stuck => \A p \in InUse :
    p.address[1] \in IF p.index = BUDDY_INDEX THEN heap.large ELSE CachesOf(heap, p.index)

(***************************************************************************)
(* No thread gets to penguin_malloc before init_allocator is done, and a   *)
(* thread has the mutex exactly while it is inside the allocator: no two   *)
(* are, and a failed allocation gives the mutex back before it throws.     *)
(***************************************************************************)
OneInside ==
  /\ \A t \in Threads : pc[t] \in {"new_lock", "malloc"} => g_init_once = "done"
  /\ \A t \in Threads :
       g_mutex = t <=> pc[t] \in {"malloc", "free", "new_unlock", "delete_unlock",
                                 "loop", "undefined"}
=============================================================================
