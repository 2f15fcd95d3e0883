------------------------------- MODULE Slab --------------------------------
(***************************************************************************)
(* The slab allocator of penguin_malloc (slab.c). A slab_alloc_t keeps its *)
(* caches in a doubly linked list that is meant to stay ordered by the     *)
(* number of allocated objects. Its functions are operators on the heap h, *)
(* a record of the slab_alloc_t structures, of the cache header at the     *)
(* start of each block of pages, and of the blocks that the front end uses *)
(* as they are. The stores are made in the order of the code.              *)
(*                                                                         *)
(* An operator returns the new heap, the object, and how the call ends: it *)
(* returns, loops forever, or follows a link to a block that holds no      *)
(* cache of this slab any more: it then reads and writes freed memory, or  *)
(* another slab's objects, and the model does not follow it further.       *)
(***************************************************************************)
EXTENDS Integers, Sequences, FiniteSets

CONSTANTS
  Blocks,        \* the blocks of pages a cache fits in
  Fragments,     \* smaller blocks: a cache does not fit, but a large request does
  Slabs,         \* the indices of global_slabs
  RootObjects,   \* max_objects of the cache behind a slab_alloc_t
  CacheObjects,  \* max_objects of any other cache
  Null

ASSUME SlabAssumption ==
  /\ IsFiniteSet(Blocks) /\ Blocks \cap Fragments = {}
  /\ Null \notin Blocks \cup Fragments /\ Null \notin Slabs /\ Null \notin Blocks \X Nat
  /\ RootObjects \in Nat \ {0} /\ CacheObjects \in Nat \ {0}

\* A block that holds no cache.
NoCache ==
  [prev_cache |-> Null, next_cache |-> Null, freelist |-> <<>>, unmanaged |-> 0,
   allocated_objects |-> 0, max_objects |-> 0, root_cache |-> FALSE, slab |-> Null]

(***************************************************************************)
(* The page allocator, as buddy.h promises it: a block is handed out to    *)
(* one client at a time, the smallest that is large enough first. A cache  *)
(* takes several pages, so there may be no block for it and one for a      *)
(* request of the front end.                                               *)
(***************************************************************************)
Caches(h) == {b \in Blocks : h.cache[b] # NoCache}
FreeBlocks(h) == Blocks \ (Caches(h) \cup h.large)
AnyOf(free) == IF free = {} THEN {Null} ELSE free
buddy_alloc_cache(h) == AnyOf(FreeBlocks(h))
buddy_alloc(h) == AnyOf(IF Fragments \subseteq h.large THEN FreeBlocks(h) ELSE Fragments \ h.large)

Ends(how, h, ptr) == [end |-> how, heap |-> h, ptr |-> ptr]

CachesOf(h, s) == {b \in Caches(h) : h.cache[b].slab = s}

\* The blocks behind links are caches of slab s, or the call is undefined.
IfValid(h, s, links, result) ==
  IF links \ {Null} \subseteq CachesOf(h, s) THEN result ELSE Ends("undefined", h, Null)

(***************************************************************************)
(* The list of caches                                                      *)
(***************************************************************************)
slab_cache_move_down(h, s, c) ==
  LET n == h.cache[c].next_cache
      a == [h.cache EXCEPT ![n].next_cache = c, ![n].prev_cache = h.cache[c].prev_cache]
      b == [a EXCEPT ![c].prev_cache = n]
      d == [b EXCEPT ![c].next_cache = b[n].next_cache]
  IN  [h EXCEPT !.cache = d,
                !.alloc[s].first_cache = IF d[c].prev_cache = Null THEN d[c].next_cache ELSE @]

slab_cache_move_up(h, s, c) ==
  LET p == h.cache[c].prev_cache
      a == [h.cache EXCEPT ![p].prev_cache = c, ![p].next_cache = h.cache[c].next_cache]
      b == [a EXCEPT ![c].next_cache = p]
      d == [b EXCEPT ![c].prev_cache = b[p].prev_cache]
  IN  [h EXCEPT !.cache = d,
                !.alloc[s].last_cache = IF d[c].next_cache = Null THEN d[c].prev_cache ELSE @]

slab_cache_init(h, s, b, objects) ==
  LET a    == h.alloc[s]
      root == a.first_cache = Null
      new  == [h.cache EXCEPT ![b] =
                 [NoCache EXCEPT !.unmanaged = 1, !.max_objects = objects,
                                 !.root_cache = root, !.slab = s]]
  IN  [h EXCEPT
         !.cache = IF root THEN new
                   ELSE [new EXCEPT ![a.last_cache].next_cache = b, ![b].prev_cache = a.last_cache],
         !.alloc[s] = [first_cache |-> IF root THEN b ELSE a.first_cache,
                       first_free_cache |-> IF a.first_free_cache = Null THEN b
                                            ELSE a.first_free_cache,
                       last_cache |-> b]]

(***************************************************************************)
(* Objects. The k-th object of the cache in block c is <<c, k>>; the cache *)
(* keeps the freed ones in a list and the ones never used from unmanaged   *)
(* on.                                                                     *)
(***************************************************************************)
Full(h, c) == h.cache[c].allocated_objects = h.cache[c].max_objects

\* The loop that moves first_free_cache to a cache with room. It has seen
\* every block after so many steps, and does not end if it is still at a full
\* one then.
FirstFree(h, s) ==
  LET at[n \in 0 .. Cardinality(Blocks)] ==
        IF n = 0 THEN h.alloc[s].first_free_cache
        ELSE LET c == at[n - 1]
             IN  IF c \in CachesOf(h, s) /\ Full(h, c) THEN h.cache[c].next_cache ELSE c
  IN  at[Cardinality(Blocks)]

TakeObject_KeepHead(h, c) ==
  LET list == h.cache[c].freelist
  IN  IF list = <<>> THEN Ends("return", [h EXCEPT !.cache[c].unmanaged = @ + 1],
                               <<c, h.cache[c].unmanaged>>)
      ELSE Ends("return", h, <<c, Head(list)>>)

\* freelist_pop, or else the next object of the unmanaged part.
TakeObject(h, c) ==
  LET list == h.cache[c].freelist
  IN  IF list = <<>> THEN Ends("return", [h EXCEPT !.cache[c].unmanaged = @ + 1],
                               <<c, h.cache[c].unmanaged>>)
      ELSE Ends("return", [h EXCEPT !.cache[c].freelist = Tail(@)], <<c, Head(list)>>)

slab_cache_alloc(h, s, c) ==
  LET one   == [h EXCEPT !.cache[c].allocated_objects = @ + 1]
      p     == one.cache[c].prev_cache
      moved == IF p # Null /\ one.cache[p].allocated_objects < one.cache[c].allocated_objects
               THEN slab_cache_move_up(one, s, c) ELSE one
      free  == FirstFree(moved, s)
  IN  IF Full(h, c) THEN Ends("return", h, Null)
      ELSE IfValid(h, s, {p, free},
             IF free # Null /\ Full(moved, free) THEN Ends("loop", h, Null)
             ELSE TakeObject([moved EXCEPT !.alloc[s].first_free_cache = free], c))

slab_cache_free(h, s, c, k) ==
  LET x    == h.cache[c]
      less == [h EXCEPT !.cache[c] = [x EXCEPT !.freelist = <<k>> \o x.freelist,
                                               !.allocated_objects = x.allocated_objects - 1]]
      n    == less.cache[c].next_cache
  IN  IfValid(h, s, {n},
        Ends("return",
             IF n # Null /\ less.cache[n].allocated_objects > less.cache[c].allocated_objects
             THEN slab_cache_move_down(less, s, c) ELSE less,
             Null))

slab_cache_destroy(h, s, c) ==
  LET a == h.alloc[s]
      p == h.cache[c].prev_cache
      n == h.cache[c].next_cache
      inner == p # Null /\ n # Null
  IN  IfValid(h, s, IF inner THEN {p, n} ELSE {},
        Ends("return",
             [h EXCEPT
                !.alloc[s] = [a EXCEPT !.first_cache = IF p = Null THEN n ELSE a.first_cache,
                                       !.last_cache = IF n = Null THEN p ELSE a.last_cache],
                !.cache = [IF inner
                           THEN [h.cache EXCEPT ![p].next_cache = n, ![n].prev_cache = p]
                           ELSE h.cache EXCEPT ![c] = NoCache]],       \* buddy_free
             Null))

(***************************************************************************)
(* The interface of slab.h                                                 *)
(***************************************************************************)
NoSlab == [first_cache |-> Null, first_free_cache |-> Null, last_cache |-> Null]

slab_init(h, s, b) == slab_cache_init([h EXCEPT !.alloc[s] = NoSlab], s, b, RootObjects)

\* b is the block buddy_alloc_cache has returned, if it was called.
slab_alloc(h, s, b) ==
  LET none == h.alloc[s].first_free_cache = Null
      more == slab_cache_init(h, s, b, CacheObjects)
  IN  IF ~none THEN slab_cache_alloc(h, s, h.alloc[s].first_free_cache)
      ELSE IF b = Null THEN Ends("return", h, Null)
      ELSE IfValid(h, s, {h.alloc[s].last_cache} \ {b},
                   slab_cache_alloc(more, s, more.alloc[s].first_free_cache))

slab_free_KeepFirstFree(h, s, ptr) ==
  LET c     == ptr[1]
      freed == slab_cache_free(h, s, c, ptr[2])
      left  == freed.heap.cache[c]
  IN  IF left.allocated_objects > 0 \/ left.root_cache \/ freed.end # "return" THEN freed
      ELSE slab_cache_destroy(freed.heap, s, c)

slab_free(h, s, ptr) ==
  LET c     == ptr[1]
      freed == slab_cache_free(h, s, c, ptr[2])
      left  == freed.heap.cache[c]
      gone  == slab_cache_destroy(freed.heap, s, c)
  IN  IF left.allocated_objects > 0 \/ left.root_cache \/ freed.end # "return" THEN freed
      ELSE [gone EXCEPT !.heap.alloc[s].first_free_cache = IF @ = c THEN Null ELSE @]
=============================================================================
