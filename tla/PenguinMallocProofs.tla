------------------------ MODULE PenguinMallocProofs ------------------------
(***************************************************************************)
(* Proofs about PenguinMalloc and Slab, for any number of threads, slabs,  *)
(* blocks and objects in a cache.                                          *)
(***************************************************************************)
EXTENDS PenguinMalloc, FiniteSetTheorems, WellFoundedInduction, TLAPS

(***************************************************************************)
(* The heap                                                                *)
(***************************************************************************)
Link == Blocks \cup {Null}

Cache ==
  [prev_cache : Link, next_cache : Link, freelist : Seq(Nat), unmanaged : Nat,
   allocated_objects : Nat, max_objects : Nat, root_cache : BOOLEAN,
   slab : Slabs \cup {Null}]

SlabAlloc == [first_cache : Link, first_free_cache : Link, last_cache : Link]

CacheMap == [Blocks -> Cache]
AllocMap == [Slabs -> SlabAlloc]
LargeSets == SUBSET (Blocks \cup Fragments)

Heap == [alloc : AllocMap, cache : CacheMap, large : LargeSets]

\* Everything in a cache but its links, and those too in a block that holds
\* no cache.
SameBody(x, y) ==
  /\ x.freelist = y.freelist /\ x.unmanaged = y.unmanaged
  /\ x.allocated_objects = y.allocated_objects /\ x.max_objects = y.max_objects
  /\ x.root_cache = y.root_cache /\ x.slab = y.slab
  /\ x.slab = Null => x = y

SameBodies(f, g) == \A b \in Blocks : SameBody(f[b], g[b])

\* Setting one link of one cache.
LEMMA SetLink ==
  ASSUME NEW f \in CacheMap, NEW n \in Blocks, f[n].slab # Null, NEW v \in Link
  PROVE  /\ [f EXCEPT ![n].next_cache = v] \in CacheMap
         /\ SameBodies(f, [f EXCEPT ![n].next_cache = v])
         /\ [f EXCEPT ![n].prev_cache = v] \in CacheMap
         /\ SameBodies(f, [f EXCEPT ![n].prev_cache = v])
<1>1. f[n] \in Cache
  BY DEF CacheMap
<1>2. /\ [f[n] EXCEPT !.next_cache = v] \in Cache
      /\ SameBody(f[n], [f[n] EXCEPT !.next_cache = v])
  BY <1>1 DEF Cache, SameBody
<1>3. /\ [f[n] EXCEPT !.prev_cache = v] \in Cache
      /\ SameBody(f[n], [f[n] EXCEPT !.prev_cache = v])
  BY <1>1 DEF Cache, SameBody
<1>4. \A x : SameBody(x, x)
  BY DEF SameBody
<1> HIDE DEF Cache
<1>5. /\ [f EXCEPT ![n] = [f[n] EXCEPT !.next_cache = v]] \in CacheMap
      /\ SameBodies(f, [f EXCEPT ![n] = [f[n] EXCEPT !.next_cache = v]])
  BY <1>2, <1>4 DEF SameBodies, CacheMap
<1>6. /\ [f EXCEPT ![n] = [f[n] EXCEPT !.prev_cache = v]] \in CacheMap
      /\ SameBodies(f, [f EXCEPT ![n] = [f[n] EXCEPT !.prev_cache = v]])
  BY <1>3, <1>4 DEF SameBodies, CacheMap
<1> QED
  BY <1>5, <1>6

\* The parts of a heap.
LEMMA HeapParts ==
  ASSUME NEW h \in Heap
  PROVE  h.alloc \in AllocMap /\ h.cache \in CacheMap /\ h.large \in LargeSets
  BY DEF Heap

KeepsFirstFree(a, e) == \A x \in Slabs : e[x].first_free_cache = a[x].first_free_cache
SetsFirstFree(a, e, s, v) ==
  \A x \in Slabs : e[x].first_free_cache = IF x = s THEN v ELSE a[x].first_free_cache

\* Setting one field of one slab.
LEMMA SetField ==
  ASSUME NEW a \in AllocMap, NEW s \in Slabs, NEW v \in Link
  PROVE  /\ [a EXCEPT ![s].first_cache = v] \in AllocMap
         /\ [a EXCEPT ![s].last_cache = v] \in AllocMap
         /\ [a EXCEPT ![s].first_free_cache = v] \in AllocMap
         /\ KeepsFirstFree(a, [a EXCEPT ![s].first_cache = v])
         /\ KeepsFirstFree(a, [a EXCEPT ![s].last_cache = v])
         /\ SetsFirstFree(a, [a EXCEPT ![s].first_free_cache = v], s, v)
<1>1. a[s] \in SlabAlloc
  BY DEF AllocMap
<1>2. /\ [a[s] EXCEPT !.first_cache = v] \in SlabAlloc
      /\ [a[s] EXCEPT !.first_cache = v].first_free_cache = a[s].first_free_cache
  BY <1>1 DEF SlabAlloc
<1>3. /\ [a[s] EXCEPT !.last_cache = v] \in SlabAlloc
      /\ [a[s] EXCEPT !.last_cache = v].first_free_cache = a[s].first_free_cache
  BY <1>1 DEF SlabAlloc
<1>4. /\ [a[s] EXCEPT !.first_free_cache = v] \in SlabAlloc
      /\ [a[s] EXCEPT !.first_free_cache = v].first_free_cache = v
  BY <1>1 DEF SlabAlloc
<1>5. ASSUME NEW e \in SlabAlloc
      PROVE  /\ [a EXCEPT ![s] = e] \in AllocMap
             /\ \A x \in Slabs : [a EXCEPT ![s] = e][x] = IF x = s THEN e ELSE a[x]
  BY <1>5 DEF AllocMap
<1>6. [a EXCEPT ![s] = [a[s] EXCEPT !.first_cache = v]] \in AllocMap
      /\ \A x \in Slabs : [a EXCEPT ![s] = [a[s] EXCEPT !.first_cache = v]][x].first_free_cache
                            = a[x].first_free_cache
  BY <1>2, <1>5
<1>7. [a EXCEPT ![s] = [a[s] EXCEPT !.last_cache = v]] \in AllocMap
      /\ \A x \in Slabs : [a EXCEPT ![s] = [a[s] EXCEPT !.last_cache = v]][x].first_free_cache
                            = a[x].first_free_cache
  BY <1>3, <1>5
<1>8. [a EXCEPT ![s] = [a[s] EXCEPT !.first_free_cache = v]] \in AllocMap
      /\ \A x \in Slabs : [a EXCEPT ![s] = [a[s] EXCEPT !.first_free_cache = v]][x].first_free_cache
                            = IF x = s THEN v ELSE a[x].first_free_cache
  <2> DEFINE e == [a[s] EXCEPT !.first_free_cache = v]
  <2>1. e \in SlabAlloc /\ e.first_free_cache = v
    BY <1>4
  <2> HIDE DEF e
  <2>2. [a EXCEPT ![s] = e] \in AllocMap
        /\ \A x \in Slabs : [a EXCEPT ![s] = e][x].first_free_cache
                              = IF x = s THEN v ELSE a[x].first_free_cache
    BY <2>1, <1>5
  <2> QED
    BY <2>2 DEF e
<1> QED
  BY <1>6, <1>7, <1>8 DEF KeepsFirstFree, SetsFirstFree

\* A heap with other links: the caches hold the same objects.
Relinked(h, g) ==
  /\ g \in Heap /\ SameBodies(h.cache, g.cache) /\ g.large = h.large
  /\ KeepsFirstFree(h.alloc, g.alloc)

\* Replacing the caches by others with the same objects, and an end of a
\* slab's list.
LEMMA Relinking ==
  ASSUME NEW h \in Heap, NEW s \in Slabs, NEW d \in CacheMap, SameBodies(h.cache, d),
         NEW v \in Link
  PROVE  /\ Relinked(h, [h EXCEPT !.cache = d, !.alloc[s].first_cache = v])
         /\ Relinked(h, [h EXCEPT !.cache = d, !.alloc[s].last_cache = v])
<1>1. h.alloc \in AllocMap
  BY HeapParts
<1> DEFINE a == [h.alloc EXCEPT ![s].first_cache = v]
           b == [h.alloc EXCEPT ![s].last_cache = v]
<1>2. a \in AllocMap /\ KeepsFirstFree(h.alloc, a)
  BY <1>1, SetField, Zenon
<1>5. b \in AllocMap /\ KeepsFirstFree(h.alloc, b)
  BY <1>1, SetField, Zenon
<1>3. ASSUME NEW e \in AllocMap, KeepsFirstFree(h.alloc, e)
      PROVE  Relinked(h, [h EXCEPT !.cache = d, !.alloc = e])
  <2> DEFINE g == [h EXCEPT !.cache = d, !.alloc = e]
  <2>1. g \in Heap /\ g.cache = d /\ g.alloc = e /\ g.large = h.large
    BY DEF Heap
  <2> HIDE DEF g
  <2>2. Relinked(h, g)
    BY <1>3, <2>1 DEF Relinked
  <2> QED
    BY <2>2 DEF g
<1> HIDE DEF a, b
<1>4. /\ Relinked(h, [h EXCEPT !.cache = d, !.alloc = a])
      /\ Relinked(h, [h EXCEPT !.cache = d, !.alloc = b])
  BY <1>2, <1>3, <1>5
<1> QED
  BY <1>4 DEF a, b

\* Changes of links add up.
LEMMA SameTransitive ==
  ASSUME NEW e, NEW f, NEW g, SameBodies(e, f), SameBodies(f, g)
  PROVE  SameBodies(e, g)
  BY DEF SameBodies, SameBody

\* The links of a cache are blocks or NULL.
LEMMA LinkTypes ==
  ASSUME NEW f \in CacheMap, NEW b \in Blocks
  PROVE  f[b] \in Cache /\ f[b].prev_cache \in Link /\ f[b].next_cache \in Link
  BY DEF CacheMap, Cache

\* A block goes on holding a cache.
LEMMA SameSlabs ==
  ASSUME NEW f, NEW g, SameBodies(f, g), NEW b \in Blocks, f[b].slab # Null
  PROVE  g[b].slab # Null
  BY DEF SameBodies, SameBody

\* slab_cache_move_down changes links only.
LEMMA MoveDown ==
  ASSUME NEW h \in Heap, NEW s \in Slabs, NEW c \in Blocks, h.cache[c].slab # Null,
         h.cache[c].next_cache \in Blocks, h.cache[h.cache[c].next_cache].slab # Null
  PROVE  Relinked(h, slab_cache_move_down(h, s, c))
<1> DEFINE f == h.cache
           n == h.cache[c].next_cache
           z == [f EXCEPT ![n].next_cache = c]
           p == h.cache[c].prev_cache
           a == [z EXCEPT ![n].prev_cache = p]
           b == [a EXCEPT ![c].prev_cache = n]
           d == [b EXCEPT ![c].next_cache = b[n].next_cache]
           v == IF d[c].prev_cache = Null THEN d[c].next_cache ELSE h.alloc[s].first_cache
<1>1. slab_cache_move_down(h, s, c) = [h EXCEPT !.cache = d, !.alloc[s].first_cache = v]
  BY DEF slab_cache_move_down
<1>2. f \in CacheMap /\ n \in Blocks /\ f[c].slab # Null /\ f[n].slab # Null /\ n \in Link /\ c \in Link /\ p \in Link
  BY HeapParts, LinkTypes DEF Link
<1> HIDE DEF f, n, p
<1>3. z \in CacheMap /\ SameBodies(f, z)
  BY <1>2, SetLink, Zenon
<1>11. z[c].slab # Null /\ z[n].slab # Null
  BY <1>2, <1>3, SameSlabs
<1> HIDE DEF z
<1>4. a \in CacheMap /\ SameBodies(z, a)
  BY <1>2, <1>3, <1>11, SetLink, Zenon
<1>12. a[c].slab # Null
  BY <1>4, <1>11, SameSlabs
<1> HIDE DEF a
<1>5. b \in CacheMap /\ SameBodies(a, b)
  BY <1>2, <1>4, <1>12, SetLink, Zenon
<1>13. b[c].slab # Null
  BY <1>5, <1>12, SameSlabs
<1>6. b[n].next_cache \in Link
  BY <1>2, <1>5, LinkTypes
<1> HIDE DEF b
<1>7. d \in CacheMap /\ SameBodies(b, d)
  BY <1>2, <1>5, <1>6, <1>13, SetLink, Zenon
<1> HIDE DEF d
<1>8. SameBodies(h.cache, d)
  BY <1>3, <1>4, <1>5, <1>7, SameTransitive DEF f
<1>9. v \in Link
  <2>1. h.alloc[s].first_cache \in Link
    BY HeapParts DEF AllocMap, SlabAlloc
  <2> QED
    BY <1>7, <2>1, LinkTypes
<1> HIDE DEF v
<1>10. Relinked(h, [h EXCEPT !.cache = d, !.alloc[s].first_cache = v])
  BY <1>7, <1>8, <1>9, Relinking, Zenon
<1> QED
  BY <1>1, <1>10

\* So does slab_cache_move_up.
LEMMA MoveUp ==
  ASSUME NEW h \in Heap, NEW s \in Slabs, NEW c \in Blocks, h.cache[c].slab # Null,
         h.cache[c].prev_cache \in Blocks, h.cache[h.cache[c].prev_cache].slab # Null
  PROVE  Relinked(h, slab_cache_move_up(h, s, c))
<1> DEFINE f == h.cache
           p == h.cache[c].prev_cache
           z == [f EXCEPT ![p].prev_cache = c]
           n == h.cache[c].next_cache
           a == [z EXCEPT ![p].next_cache = n]
           b == [a EXCEPT ![c].next_cache = p]
           d == [b EXCEPT ![c].prev_cache = b[p].prev_cache]
           v == IF d[c].next_cache = Null THEN d[c].prev_cache ELSE h.alloc[s].last_cache
<1>1. slab_cache_move_up(h, s, c) = [h EXCEPT !.cache = d, !.alloc[s].last_cache = v]
  BY DEF slab_cache_move_up
<1>2. f \in CacheMap /\ p \in Blocks /\ f[c].slab # Null /\ f[p].slab # Null /\ p \in Link /\ c \in Link /\ n \in Link
  BY HeapParts, LinkTypes DEF Link
<1> HIDE DEF f, n, p
<1>3. z \in CacheMap /\ SameBodies(f, z)
  BY <1>2, SetLink, Zenon
<1>11. z[c].slab # Null /\ z[p].slab # Null
  BY <1>2, <1>3, SameSlabs
<1> HIDE DEF z
<1>4. a \in CacheMap /\ SameBodies(z, a)
  BY <1>2, <1>3, <1>11, SetLink, Zenon
<1>12. a[c].slab # Null
  BY <1>4, <1>11, SameSlabs
<1> HIDE DEF a
<1>5. b \in CacheMap /\ SameBodies(a, b)
  BY <1>2, <1>4, <1>12, SetLink, Zenon
<1>13. b[c].slab # Null
  BY <1>5, <1>12, SameSlabs
<1>6. b[p].prev_cache \in Link
  BY <1>2, <1>5, LinkTypes
<1> HIDE DEF b
<1>7. d \in CacheMap /\ SameBodies(b, d)
  BY <1>2, <1>5, <1>6, <1>13, SetLink, Zenon
<1> HIDE DEF d
<1>8. SameBodies(h.cache, d)
  BY <1>3, <1>4, <1>5, <1>7, SameTransitive DEF f
<1>9. v \in Link
  <2>1. h.alloc[s].last_cache \in Link
    BY HeapParts DEF AllocMap, SlabAlloc
  <2> QED
    BY <1>7, <2>1, LinkTypes
<1> HIDE DEF v
<1>10. Relinked(h, [h EXCEPT !.cache = d, !.alloc[s].last_cache = v])
  BY <1>7, <1>8, <1>9, Relinking, Zenon
<1> QED
  BY <1>1, <1>10

(***************************************************************************)
(* What a call does to the objects of the heap                             *)
(***************************************************************************)
HeapOK(h) ==
  /\ h \in Heap
  /\ \A b \in Blocks : h.cache[b].slab = Null => h.cache[b] = NoCache
  /\ h.large \cap Caches(h) = {}

\* first_free_cache is NULL or a cache of the slab that has room.
HasRoom(h, s) ==
  LET f == h.alloc[s].first_free_cache
  IN  f # Null => f \in CachesOf(h, s) /\ ~Full(h, f)

OthersSame(h, g, c) ==
  /\ g.large = h.large
  /\ \A b \in Blocks : b # c => SameBody(h.cache[b], g.cache[b])

\* slab_cache_alloc takes object k of cache c of slab s.
Takes(h, g, s, c, k) ==
  LET old == h.cache[c]
      new == g.cache[c]
  IN  /\ OthersSame(h, g, c)
      /\ new.allocated_objects = old.allocated_objects + 1
      /\ new.max_objects = old.max_objects /\ new.slab = old.slab
      /\ IF old.freelist = <<>>
         THEN /\ k = old.unmanaged /\ new.unmanaged = k + 1 /\ new.freelist = <<>>
         ELSE /\ k = Head(old.freelist) /\ new.freelist = Tail(old.freelist)
              /\ new.unmanaged = old.unmanaged
      /\ \A x \in Slabs \ {s} : g.alloc[x].first_free_cache = h.alloc[x].first_free_cache

\* In a good heap a block holds a cache if it names a slab.
LEMMA CachesBySlab ==
  ASSUME NEW h, HeapOK(h)
  PROVE  /\ Caches(h) = {b \in Blocks : h.cache[b].slab # Null}
         /\ \A s \in Slabs : CachesOf(h, s) = {b \in Blocks : h.cache[b].slab = s}
         /\ \A b \in Blocks : h.cache[b] \in Cache /\ h.cache[b].slab \in Slabs \cup {Null}
<1>1. NoCache.slab = Null
  BY DEF NoCache
<1>2. \A b \in Blocks : h.cache[b] # NoCache <=> h.cache[b].slab # Null
  BY <1>1 DEF HeapOK
<1>3. Null \notin Slabs
  BY SlabAssumption
<1>4. \A b \in Blocks : h.cache[b] \in Cache
  BY HeapParts DEF HeapOK, CacheMap
<1>5. \A b \in Blocks : h.cache[b].slab \in Slabs \cup {Null}
  BY <1>4 DEF Cache
<1> QED
  BY <1>2, <1>3, <1>4, <1>5 DEF Caches, CachesOf

\* A heap in which every cache but one has the same objects, and that one is
\* still a cache of its slab, is good if it was.
LEMMA StillOK ==
  ASSUME NEW h, HeapOK(h), NEW g \in Heap, NEW c \in Caches(h), OthersSame(h, g, c),
         g.cache[c].slab = h.cache[c].slab
  PROVE  HeapOK(g) /\ Caches(g) = Caches(h) /\ \A s \in Slabs : CachesOf(g, s) = CachesOf(h, s)
<1>1. c \in Blocks /\ h.cache[c].slab # Null
  BY CachesBySlab
<1>2. \A b \in Blocks : g.cache[b].slab = h.cache[b].slab
  BY DEF OthersSame, SameBody
<1>3. \A b \in Blocks : g.cache[b].slab = Null => g.cache[b] = NoCache
  BY <1>1, <1>2 DEF HeapOK, OthersSame, SameBody
<1>4. NoCache.slab = Null
  BY DEF NoCache
<1>5. \A b \in Blocks : g.cache[b] # NoCache <=> h.cache[b] # NoCache
  BY <1>2, <1>3, <1>4 DEF HeapOK
<1>6. Caches(g) = Caches(h)
  BY <1>5 DEF Caches
<1>7. HeapOK(g)
  BY <1>3, <1>6 DEF HeapOK, OthersSame
<1>8. ASSUME NEW s \in Slabs
      PROVE  CachesOf(g, s) = CachesOf(h, s)
  <2>1. Caches(h) \subseteq Blocks
    BY DEF Caches
  <2> QED
    BY <1>2, <1>6, <2>1 DEF CachesOf
<1> QED
  BY <1>6, <1>7, <1>8

\* Replacing one cache of a heap.
LEMMA SetCache ==
  ASSUME NEW h \in Heap, NEW c \in Blocks, NEW x \in Cache
  PROVE  LET g == [h EXCEPT !.cache = [h.cache EXCEPT ![c] = x]]
         IN  /\ g \in Heap /\ g.alloc = h.alloc /\ g.large = h.large
             /\ g.cache[c] = x
             /\ \A b \in Blocks : b # c => g.cache[b] = h.cache[b]
<1> DEFINE d == [h.cache EXCEPT ![c] = x]
<1>1. d \in CacheMap /\ d[c] = x /\ \A b \in Blocks : b # c => d[b] = h.cache[b]
  BY HeapParts DEF CacheMap
<1> HIDE DEF d
<1> DEFINE g == [h EXCEPT !.cache = d]
<1>2. g \in Heap /\ g.cache = d /\ g.alloc = h.alloc /\ g.large = h.large
  BY <1>1 DEF Heap
<1> HIDE DEF g
<1>3. g.cache[c] = x /\ \A b \in Blocks : b # c => g.cache[b] = h.cache[b]
  BY <1>1, <1>2
<1> QED
  BY <1>2, <1>3 DEF g, d

\* Equal caches have the same body.
LEMMA SameReflexive == \A x : SameBody(x, x)
  BY DEF SameBody

\* TakeObject hands out the head of the free list, or the next object that
\* was never used.
LEMMA TakeOne ==
  ASSUME NEW h \in Heap, NEW c \in Blocks
  PROVE  \E k \in Nat, g \in Heap :
           /\ TakeObject(h, c) = Ends("return", g, <<c, k>>)
           /\ g.alloc = h.alloc /\ g.large = h.large
           /\ \A b \in Blocks : b # c => g.cache[b] = h.cache[b]
           /\ g.cache[c].allocated_objects = h.cache[c].allocated_objects
           /\ g.cache[c].max_objects = h.cache[c].max_objects
           /\ g.cache[c].slab = h.cache[c].slab
           /\ IF h.cache[c].freelist = <<>>
              THEN /\ k = h.cache[c].unmanaged /\ g.cache[c].unmanaged = k + 1
                   /\ g.cache[c].freelist = <<>>
              ELSE /\ k = Head(h.cache[c].freelist)
                   /\ g.cache[c].freelist = Tail(h.cache[c].freelist)
                   /\ g.cache[c].unmanaged = h.cache[c].unmanaged
<1>1. PICK old \in Cache : old = h.cache[c]
  BY HeapParts DEF CacheMap
<1>2. old.freelist \in Seq(Nat) /\ old.unmanaged \in Nat
  BY DEF Cache
<1>3. CASE old.freelist = <<>>
  <2> DEFINE x == [old EXCEPT !.unmanaged = old.unmanaged + 1]
             g == [h EXCEPT !.cache = [h.cache EXCEPT ![c] = x]]
  <2>1. /\ x \in Cache /\ x.unmanaged = old.unmanaged + 1 /\ x.freelist = old.freelist
        /\ x.allocated_objects = old.allocated_objects /\ x.max_objects = old.max_objects
        /\ x.slab = old.slab
    BY <1>2, SMTT(40) DEF Cache
  <2>2. TakeObject(h, c) = Ends("return", g, <<c, old.unmanaged>>)
    BY <1>1, <1>3 DEF TakeObject
  <2> HIDE DEF x
  <2>3. /\ g \in Heap /\ g.alloc = h.alloc /\ g.large = h.large /\ g.cache[c] = x
        /\ \A b \in Blocks : b # c => g.cache[b] = h.cache[b]
    BY <2>1, SetCache, ZenonT(40)
  <2> HIDE DEF g
  <2> QED
    BY <1>1, <1>2, <1>3, <2>1, <2>2, <2>3
<1>4. CASE old.freelist # <<>>
  <2> DEFINE x == [old EXCEPT !.freelist = Tail(old.freelist)]
             g == [h EXCEPT !.cache = [h.cache EXCEPT ![c] = x]]
  <2>0. Tail(old.freelist) \in Seq(Nat) /\ Head(old.freelist) \in Nat
    BY <1>2, <1>4
  <2>1. /\ x \in Cache /\ x.unmanaged = old.unmanaged /\ x.freelist = Tail(old.freelist)
        /\ x.allocated_objects = old.allocated_objects /\ x.max_objects = old.max_objects
        /\ x.slab = old.slab
    BY <2>0 DEF Cache
  <2>2. TakeObject(h, c) = Ends("return", g, <<c, Head(old.freelist)>>)
    BY <1>1, <1>4 DEF TakeObject
  <2> HIDE DEF x
  <2>3. /\ g \in Heap /\ g.alloc = h.alloc /\ g.large = h.large /\ g.cache[c] = x
        /\ \A b \in Blocks : b # c => g.cache[b] = h.cache[b]
    BY <2>1, SetCache, ZenonT(40)
  <2> HIDE DEF g
  <2> QED
    BY <1>1, <1>4, <2>0, <2>1, <2>2, <2>3
<1> QED
  BY <1>3, <1>4

\* slab_cache_alloc, when it returns, has taken an object of a cache that has
\* room, and has left first_free_cache at a cache with room.
LEMMA CacheAlloc ==
  ASSUME NEW h, HeapOK(h), NEW s \in Slabs, NEW c \in CachesOf(h, s), ~Full(h, c),
         slab_cache_alloc(h, s, c).end = "return"
  PROVE  \E k \in Nat, g \in Heap :
           /\ slab_cache_alloc(h, s, c) = Ends("return", g, <<c, k>>)
           /\ Takes(h, g, s, c, k) /\ HasRoom(g, s)
<1> DEFINE x == [h.cache[c] EXCEPT !.allocated_objects = h.cache[c].allocated_objects + 1]
           one == [h EXCEPT !.cache = [h.cache EXCEPT ![c] = x]]
           p == one.cache[c].prev_cache
           up == p # Null /\ one.cache[p].allocated_objects < one.cache[c].allocated_objects
           moved == IF up THEN slab_cache_move_up(one, s, c) ELSE one
           free == FirstFree(moved, s)
           w == [moved EXCEPT !.alloc[s].first_free_cache = free]
           r == slab_cache_alloc(h, s, c)
<1>1. r = IfValid(h, s, {p, free}, IF free # Null /\ Full(moved, free) THEN Ends("loop", h, Null)
                                   ELSE TakeObject(w, c))
  BY DEF slab_cache_alloc
<1>2. {p, free} \ {Null} \subseteq CachesOf(h, s)
  <2>1. Ends("undefined", h, Null).end = "undefined"
    BY DEF Ends
  <2> HIDE DEF p, free, w, moved, r
  <2>2. r.end = "return"
    BY DEF r
  <2> QED
    BY <1>1, <2>1, <2>2 DEF IfValid
<1>3. ~(free # Null /\ Full(moved, free)) /\ r = TakeObject(w, c)
  <2>1. Ends("loop", h, Null).end = "loop"
    BY DEF Ends
  <2> HIDE DEF p, free, w, moved, r
  <2>2. r.end = "return"
    BY DEF r
  <2> QED
    BY <1>1, <1>2, <2>1, <2>2 DEF IfValid
<1>4. h \in Heap /\ c \in Blocks /\ c \in Caches(h) /\ h.cache[c] \in Cache /\ h.cache[c].slab = s
      /\ s # Null
  BY CachesBySlab, SlabAssumption DEF HeapOK, CachesOf
<1>5. /\ x \in Cache /\ x.allocated_objects = h.cache[c].allocated_objects + 1
      /\ x.max_objects = h.cache[c].max_objects /\ x.slab = s
      /\ x.freelist = h.cache[c].freelist /\ x.unmanaged = h.cache[c].unmanaged
      /\ x.prev_cache \in Link
  <2>1. PICK y \in Cache : y = h.cache[c]
    BY <1>4
  <2>2. LET z == [y EXCEPT !.allocated_objects = y.allocated_objects + 1]
        IN  /\ z \in Cache /\ z.allocated_objects = y.allocated_objects + 1
            /\ z.max_objects = y.max_objects /\ z.slab = y.slab
            /\ z.freelist = y.freelist /\ z.unmanaged = y.unmanaged
            /\ z.prev_cache \in Link
    BY DEF Cache
  <2> QED
    BY <1>4, <2>1, <2>2
<1> HIDE DEF x
<1>6. /\ one \in Heap /\ one.alloc = h.alloc /\ one.large = h.large /\ one.cache[c] = x
      /\ \A b \in Blocks : b # c => one.cache[b] = h.cache[b]
  BY <1>4, <1>5, SetCache, ZenonT(40)
<1> HIDE DEF one
<1>7. Relinked(one, moved)
  <2>1. CASE up
    <3>1. p \in Blocks /\ p \in CachesOf(h, s)
      BY <1>2, <2>1 DEF CachesOf, Caches
    <3>2. one.cache[p].slab # Null
      BY <1>4, <1>5, <1>6, <3>1, CachesBySlab
    <3>3. one.cache[c].slab # Null
      BY <1>4, <1>5, <1>6
    <3>4. Relinked(one, slab_cache_move_up(one, s, c))
      BY <1>4, <1>6, <3>1, <3>2, <3>3, MoveUp
    <3> QED
      BY <2>1, <3>4
  <2>2. CASE ~up
    <3>1. Relinked(one, one)
      BY <1>6, SameReflexive DEF Relinked, SameBodies, KeepsFirstFree
    <3> QED
      BY <2>2, <3>1
  <2> QED
    BY <2>1, <2>2
<1> HIDE DEF moved, free
<1>8. free \in Link /\ (free # Null => free \in CachesOf(h, s))
  BY <1>2 DEF Link, CachesOf, Caches
<1>9. /\ w \in Heap /\ w.cache = moved.cache /\ w.large = moved.large
      /\ SetsFirstFree(moved.alloc, w.alloc, s, free)
  <2> DEFINE a == [moved.alloc EXCEPT ![s].first_free_cache = free]
  <2>1. moved \in Heap /\ moved.alloc \in AllocMap
    BY <1>7, HeapParts DEF Relinked
  <2>2. a \in AllocMap /\ SetsFirstFree(moved.alloc, a, s, free)
    BY <1>8, <2>1, SetField, Zenon
  <2> HIDE DEF a
  <2> DEFINE g == [moved EXCEPT !.alloc = a]
  <2>3. g \in Heap /\ g.cache = moved.cache /\ g.large = moved.large /\ g.alloc = a
    BY <2>1, <2>2 DEF Heap
  <2>4. w = g
    BY DEF a
  <2> HIDE DEF w, g
  <2> QED
    BY <2>2, <2>3, <2>4
<1> HIDE DEF w
<1>10. PICK k \in Nat, g \in Heap :
           /\ TakeObject(w, c) = Ends("return", g, <<c, k>>)
           /\ g.alloc = w.alloc /\ g.large = w.large
           /\ \A b \in Blocks : b # c => g.cache[b] = w.cache[b]
           /\ g.cache[c].allocated_objects = w.cache[c].allocated_objects
           /\ g.cache[c].max_objects = w.cache[c].max_objects
           /\ g.cache[c].slab = w.cache[c].slab
           /\ IF w.cache[c].freelist = <<>>
              THEN /\ k = w.cache[c].unmanaged /\ g.cache[c].unmanaged = k + 1
                   /\ g.cache[c].freelist = <<>>
              ELSE /\ k = Head(w.cache[c].freelist)
                   /\ g.cache[c].freelist = Tail(w.cache[c].freelist)
                   /\ g.cache[c].unmanaged = w.cache[c].unmanaged
  BY <1>4, <1>9, TakeOne
<1>11. \A b \in Blocks : SameBody(one.cache[b], w.cache[b])
  BY <1>7, <1>9 DEF Relinked, SameBodies
<1>12. OthersSame(h, g, c)
  <2>1. g.large = h.large
    BY <1>6, <1>7, <1>9, <1>10 DEF Relinked
  <2>2. ASSUME NEW b \in Blocks, b # c
        PROVE  SameBody(h.cache[b], g.cache[b])
    BY <1>6, <1>10, <1>11, <2>2
  <2> QED
    BY <2>1, <2>2 DEF OthersSame
<1>13. Takes(h, g, s, c, k)
  <2>1. /\ w.cache[c].allocated_objects = x.allocated_objects
        /\ w.cache[c].max_objects = x.max_objects /\ w.cache[c].slab = x.slab
        /\ w.cache[c].freelist = x.freelist /\ w.cache[c].unmanaged = x.unmanaged
    BY <1>4, <1>6, <1>11 DEF SameBody
  <2>2. \A y \in Slabs \ {s} : g.alloc[y].first_free_cache = h.alloc[y].first_free_cache
    BY <1>6, <1>7, <1>9, <1>10 DEF Relinked, KeepsFirstFree, SetsFirstFree
  <2> QED
    BY <1>4, <1>5, <1>10, <1>12, <2>1, <2>2 DEF Takes
<1>14. HasRoom(g, s)
  <2>1. g.alloc[s].first_free_cache = free
    BY <1>9, <1>10 DEF SetsFirstFree
  <2>2. SUFFICES ASSUME free # Null PROVE free \in CachesOf(g, s) /\ ~Full(g, free)
    BY <2>1 DEF HasRoom
  <2>3. free \in CachesOf(h, s) /\ free \in Blocks
    BY <1>8, <2>2 DEF CachesOf, Caches
  <2>4. g.cache[c].slab = h.cache[c].slab
    BY <1>13 DEF Takes
  <2>5. free \in CachesOf(g, s)
    BY <1>4, <1>12, <2>3, <2>4, StillOK
  <2>6. ~Full(w, free)
    BY <1>3, <1>9, <2>2 DEF Full
  <2>7. g.cache[free].allocated_objects = w.cache[free].allocated_objects
        /\ g.cache[free].max_objects = w.cache[free].max_objects
    BY <1>10, <2>3
  <2> QED
    BY <2>5, <2>6, <2>7 DEF Full
<1> HIDE DEF r
<1>15. r = Ends("return", g, <<c, k>>)
  BY <1>3, <1>10
<1> QED
  BY <1>13, <1>14, <1>15 DEF r

\* The body of a new cache with room for so many objects.
Fresh(x, s, objects) ==
  /\ x \in Cache /\ x.freelist = <<>> /\ x.unmanaged = 1 /\ x.allocated_objects = 0
  /\ x.max_objects = objects /\ x.slab = s

\* slab_cache_init puts a new cache in block b, behind the last one of the
\* slab; it is the first free one if there was none.
LEMMA CacheInit ==
  ASSUME NEW h, HeapOK(h), NEW s \in Slabs, NEW b \in Blocks, NEW objects \in Nat,
         h.alloc[s].first_free_cache = Null,
         h.alloc[s].last_cache \in CachesOf(h, s) \cup {Null, b}
  PROVE  LET g == slab_cache_init(h, s, b, objects)
         IN  /\ g \in Heap /\ OthersSame(h, g, b) /\ Fresh(g.cache[b], s, objects)
             /\ SetsFirstFree(h.alloc, g.alloc, s, b)
<1> DEFINE last == h.alloc[s].last_cache
           root == h.alloc[s].first_cache = Null
           x == [NoCache EXCEPT !.unmanaged = 1, !.max_objects = objects,
                                !.root_cache = root, !.slab = s]
           new == [h.cache EXCEPT ![b] = x]
           d == [new EXCEPT ![last].next_cache = b]
           e == [d EXCEPT ![b].prev_cache = last]
           cache == IF root THEN new ELSE e
           z == [first_cache |-> IF root THEN b ELSE h.alloc[s].first_cache,
                 first_free_cache |-> IF h.alloc[s].first_free_cache = Null THEN b
                                      ELSE h.alloc[s].first_free_cache,
                 last_cache |-> b]
           a == [h.alloc EXCEPT ![s] = z]
           g == slab_cache_init(h, s, b, objects)
<1>1. g = [h EXCEPT !.cache = cache, !.alloc = a]
  BY DEF slab_cache_init
<1> HIDE DEF g
<1>2. /\ h \in Heap /\ h.cache \in CacheMap /\ h.alloc \in AllocMap
      /\ h.alloc[s].first_cache \in Link /\ b \in Link /\ s # Null
  BY HeapParts, SlabAssumption DEF HeapOK, Link, AllocMap, SlabAlloc
<1>3. Fresh(x, s, objects)
  <2>1. PICK t \in BOOLEAN : t = root
    OBVIOUS
  <2> HIDE DEF root
  <2> DEFINE x1 == [NoCache EXCEPT !.unmanaged = 1]
             x2 == [x1 EXCEPT !.max_objects = objects]
             x3 == [x2 EXCEPT !.root_cache = t]
             x4 == [x3 EXCEPT !.slab = s]
  <2>2. NoCache \in Cache /\ NoCache.freelist = <<>> /\ NoCache.allocated_objects = 0
    BY DEF NoCache, Cache, Link
  <2>3. x1 \in Cache /\ x1.freelist = <<>> /\ x1.allocated_objects = 0 /\ x1.unmanaged = 1
    BY <2>2 DEF Cache
  <2> HIDE DEF x1
  <2>4. /\ x2 \in Cache /\ x2.freelist = <<>> /\ x2.allocated_objects = 0 /\ x2.unmanaged = 1
        /\ x2.max_objects = objects
    BY <2>3 DEF Cache
  <2> HIDE DEF x2
  <2>5. /\ x3 \in Cache /\ x3.freelist = <<>> /\ x3.allocated_objects = 0 /\ x3.unmanaged = 1
        /\ x3.max_objects = objects
    BY <2>4 DEF Cache
  <2> HIDE DEF x3
  <2>6. Fresh(x4, s, objects)
    BY <2>5 DEF Cache, Fresh
  <2> HIDE DEF x4
  <2>7. x = x4
    BY <2>1 DEF x4, x3, x2, x1
  <2> QED
    BY <2>6, <2>7
<1> HIDE DEF x, root
<1>4. new \in CacheMap /\ new[b] = x /\ \A y \in Blocks : y # b => new[y] = h.cache[y]
  BY <1>2, <1>3 DEF CacheMap, Fresh
<1> HIDE DEF new
<1>5. new[b].slab # Null
  BY <1>2, <1>3, <1>4 DEF Fresh
<1>6. d \in CacheMap /\ SameBodies(new, d)
  <2>1. CASE last \in Blocks
    <3>1. new[last].slab # Null
      BY <1>2, <1>4, <1>5, <2>1, CachesBySlab, SlabAssumption
    <3> HIDE DEF last
    <3> QED
      BY <1>2, <1>4, <2>1, <3>1, SetLink, Zenon
  <2>2. CASE last = Null
    <3>1. last \notin Blocks
      BY <2>2, SlabAssumption
    <3> HIDE DEF last
    <3>2. d = new
      BY <1>4, <3>1 DEF CacheMap
    <3> QED
      BY <1>4, <3>2, SameReflexive DEF SameBodies
  <2> QED
    BY <2>1, <2>2 DEF CachesOf, Caches
<1>7. last \in Link
  BY DEF Link, CachesOf, Caches
<1> HIDE DEF d, last
<1>8. d[b].slab # Null
  BY <1>5, <1>6, SameSlabs
<1>9. e \in CacheMap /\ SameBodies(d, e)
  BY <1>6, <1>7, <1>8, SetLink, Zenon
<1> HIDE DEF e
<1>10. cache \in CacheMap /\ SameBodies(new, cache)
  <2>1. SameBodies(new, e) /\ SameBodies(new, new)
    BY <1>6, <1>9, SameTransitive, SameReflexive DEF SameBodies
  <2> QED
    BY <1>4, <1>9, <2>1
<1> HIDE DEF cache
<1>11. z \in SlabAlloc /\ z.first_free_cache = b
  BY <1>2 DEF SlabAlloc
<1> HIDE DEF z
<1>12. a \in AllocMap /\ \A y \in Slabs : a[y] = IF y = s THEN z ELSE h.alloc[y]
  BY <1>2, <1>11 DEF AllocMap
<1> HIDE DEF a
<1>13. g \in Heap /\ g.cache = cache /\ g.alloc = a /\ g.large = h.large
  BY <1>1, <1>2, <1>10, <1>12 DEF Heap
<1>14. OthersSame(h, g, b)
  BY <1>4, <1>10, <1>13 DEF OthersSame, SameBodies
<1>15. Fresh(g.cache[b], s, objects)
  BY <1>3, <1>4, <1>10, <1>13 DEF Fresh, SameBodies, SameBody, CacheMap
<1>16. SetsFirstFree(h.alloc, g.alloc, s, b)
  BY <1>11, <1>12, <1>13 DEF SetsFirstFree
<1> QED
  BY <1>13, <1>14, <1>15, <1>16 DEF g

(***************************************************************************)
(* The objects of one cache                                                *)
(***************************************************************************)
Listed(list) == {list[i] : i \in DOMAIN list}
NoRepeat(list) == \A i, j \in DOMAIN list : list[i] = list[j] => i = j

\* The objects in H are with the program, the others that were used before on
\* the free list.
CacheAccounted(x, H) ==
  /\ H \cap Listed(x.freelist) = {}
  /\ H \cup Listed(x.freelist) = 1 .. x.unmanaged - 1
  /\ NoRepeat(x.freelist)
  /\ x.allocated_objects = Cardinality(H)
  /\ x.allocated_objects <= x.max_objects
  /\ x.unmanaged - 1 <= x.max_objects
  /\ x.unmanaged >= 1

\* Pushing an element on a list.
LEMMA ListPush ==
  ASSUME NEW list \in Seq(Nat), NEW k \in Nat
  PROVE  /\ <<k>> \o list \in Seq(Nat)
         /\ Listed(<<k>> \o list) = {k} \cup Listed(list)
         /\ NoRepeat(list) /\ k \notin Listed(list) => NoRepeat(<<k>> \o list)
<1>1. PICK n \in Nat : n = Len(list)
  OBVIOUS
<1> DEFINE new == <<k>> \o list
<1>2. new \in Seq(Nat) /\ Len(new) = n + 1 /\ new[1] = k
  BY <1>1
<1>3. \A i \in 1 .. n : new[i + 1] = list[i]
  BY <1>1
<1>4. DOMAIN new = 1 .. n + 1 /\ DOMAIN list = 1 .. n
  BY <1>1, <1>2
<1> HIDE DEF new
<1>5. \A i \in 1 .. n + 1 : i = 1 \/ (i - 1 \in 1 .. n /\ new[i] = list[i - 1])
  <2> SUFFICES ASSUME NEW i \in 1 .. n + 1, i # 1
               PROVE  i - 1 \in 1 .. n /\ new[i] = list[i - 1]
    OBVIOUS
  <2>1. i - 1 \in 1 .. n /\ (i - 1) + 1 = i
    OBVIOUS
  <2> QED
    BY <1>3, <2>1
<1>6. Listed(new) = {k} \cup Listed(list)
  <2>1. ASSUME NEW e \in Listed(new) PROVE e \in {k} \cup Listed(list)
    <3>1. PICK i \in 1 .. n + 1 : e = new[i]
      BY <1>4, <2>1 DEF Listed
    <3> QED
      BY <1>2, <1>4, <1>5, <3>1 DEF Listed
  <2>2. k \in Listed(new)
    <3>1. 1 \in 1 .. n + 1
      OBVIOUS
    <3> QED
      BY <1>2, <1>4, <3>1 DEF Listed
  <2>3. ASSUME NEW e \in Listed(list) PROVE e \in Listed(new)
    <3>1. PICK i \in 1 .. n : e = list[i]
      BY <1>4, <2>3 DEF Listed
    <3>2. i + 1 \in 1 .. n + 1
      OBVIOUS
    <3> QED
      BY <1>3, <1>4, <3>1, <3>2 DEF Listed
  <2> QED
    BY <2>1, <2>2, <2>3
<1>7. ASSUME NoRepeat(list), k \notin Listed(list)
      PROVE  NoRepeat(new)
  <2> SUFFICES ASSUME NEW i \in 1 .. n + 1, NEW j \in 1 .. n + 1, new[i] = new[j] PROVE i = j
    BY <1>4 DEF NoRepeat
  <2>1. \A m \in 1 .. n : list[m] # k
    BY <1>4, <1>7 DEF Listed
  <2>2. CASE i = 1 \/ j = 1
    BY <1>2, <1>5, <2>1, <2>2
  <2>3. CASE i # 1 /\ j # 1
    <3>1. i - 1 \in 1 .. n /\ j - 1 \in 1 .. n /\ list[i - 1] = list[j - 1]
      BY <1>5, <2>3
    <3>2. i - 1 = j - 1
      BY <1>4, <1>7, <3>1 DEF NoRepeat
    <3> QED
      BY <3>2
  <2> QED
    BY <2>2, <2>3
<1> QED
  BY <1>2, <1>6, <1>7 DEF new

\* Popping the first element of a list.
LEMMA ListPop ==
  ASSUME NEW list \in Seq(Nat), list # <<>>
  PROVE  /\ Listed(list) = {Head(list)} \cup Listed(Tail(list))
         /\ NoRepeat(list) => NoRepeat(Tail(list)) /\ Head(list) \notin Listed(Tail(list))
<1> DEFINE k == Head(list)
           t == Tail(list)
<1>1. k \in Nat /\ t \in Seq(Nat) /\ list = <<k>> \o t
  OBVIOUS
<1> HIDE DEF k, t
<1>2. Listed(list) = {k} \cup Listed(t)
  BY <1>1, ListPush
<1>3. PICK n \in Nat : n = Len(t)
  BY <1>1
<1>4. DOMAIN t = 1 .. n /\ DOMAIN list = 1 .. n + 1 /\ list[1] = k
  BY <1>1, <1>3
<1>5. \A i \in 1 .. n : t[i] = list[i + 1] /\ i + 1 \in 1 .. n + 1
  BY <1>1, <1>3
<1>6. ASSUME NoRepeat(list)
      PROVE  NoRepeat(t) /\ k \notin Listed(t)
  <2>1. ASSUME NEW i \in 1 .. n, NEW j \in 1 .. n, t[i] = t[j] PROVE i = j
    <3>1. i + 1 = j + 1
      BY <1>4, <1>5, <1>6, <2>1 DEF NoRepeat
    <3> QED
      BY <3>1
  <2>2. ASSUME NEW i \in 1 .. n, t[i] = k PROVE FALSE
    <3>1. 1 \in 1 .. n + 1
      OBVIOUS
    <3>2. i + 1 \in DOMAIN list /\ 1 \in DOMAIN list
      BY <1>4, <1>5, <3>1
    <3>3. list[i + 1] = list[1]
      BY <1>4, <1>5, <2>2
    <3>4. i + 1 = 1
      BY <1>6, <3>2, <3>3 DEF NoRepeat
    <3> QED
      BY <3>4
  <2> QED
    BY <1>4, <2>1, <2>2 DEF NoRepeat, Listed
<1> QED
  BY <1>2, <1>6 DEF k, t

\* An object that is taken from a cache with room was not with the program.
LEMMA TakeAccounted ==
  ASSUME NEW x \in Cache, NEW y, NEW H, NEW k \in Nat, CacheAccounted(x, H),
         x.allocated_objects # x.max_objects,
         y.allocated_objects = x.allocated_objects + 1, y.max_objects = x.max_objects,
         IF x.freelist = <<>>
         THEN /\ k = x.unmanaged /\ y.unmanaged = k + 1 /\ y.freelist = <<>>
         ELSE /\ k = Head(x.freelist) /\ y.freelist = Tail(x.freelist)
              /\ y.unmanaged = x.unmanaged
  PROVE  k \notin H /\ k # 0 /\ CacheAccounted(y, H \cup {k})
<1>1. /\ x.freelist \in Seq(Nat) /\ x.unmanaged \in Nat /\ x.allocated_objects \in Nat
      /\ x.max_objects \in Nat
  BY DEF Cache
<1>2. PICK u \in Nat, n \in Nat, m \in Nat :
        u = x.unmanaged /\ n = x.allocated_objects /\ m = x.max_objects
  BY <1>1
<1>3. n < m /\ u >= 1 /\ u - 1 <= m /\ n = Cardinality(H)
  BY <1>2 DEF CacheAccounted
<1>4. H \subseteq 1 .. u - 1
  BY <1>2 DEF CacheAccounted
<1>5. IsFiniteSet(H)
  <2>1. IsFiniteSet(1 .. u - 1)
    BY FS_Interval
  <2> QED
    BY <1>4, <2>1, FS_Subset
<1>6. ASSUME k \notin H
      PROVE  Cardinality(H \cup {k}) = n + 1
  BY <1>3, <1>5, <1>6, FS_AddElement
<1>7. CASE x.freelist = <<>>
  <2>1. Listed(x.freelist) = {}
    BY <1>7 DEF Listed
  <2>2. H = 1 .. u - 1
    BY <1>2, <2>1 DEF CacheAccounted
  <2>3. k = u /\ y.unmanaged = u + 1 /\ y.freelist = x.freelist
    BY <1>2, <1>7
  <2>4. k \notin H /\ k # 0
    BY <1>3, <2>2, <2>3
  <2>5. n = u - 1
    <3>1. Cardinality(1 .. u - 1) = u - 1
      BY <1>3, FS_Interval
    <3> QED
      BY <1>3, <2>2, <3>1
  <2>6. H \cup {k} = 1 .. (u + 1) - 1
    BY <1>3, <2>2, <2>3
  <2>7. u <= m
    BY <1>3, <2>5
  <2> QED
    BY <1>2, <1>3, <1>6, <2>1, <2>3, <2>4, <2>6, <2>7, SMTT(40) DEF CacheAccounted
<1>8. CASE x.freelist # <<>>
  <2>1. /\ Listed(x.freelist) = {k} \cup Listed(y.freelist)
        /\ NoRepeat(y.freelist) /\ k \notin Listed(y.freelist)
    BY <1>1, <1>8, ListPop DEF CacheAccounted
  <2>2. k \in 1 .. u - 1 /\ k \notin H
    BY <1>2, <2>1 DEF CacheAccounted
  <2>3. k # 0
    BY <2>2
  <2>4. (H \cup {k}) \cap Listed(y.freelist) = {}
    BY <2>1 DEF CacheAccounted
  <2>5. (H \cup {k}) \cup Listed(y.freelist) = 1 .. u - 1
    BY <1>2, <2>1 DEF CacheAccounted
  <2>6. y.unmanaged = u
    BY <1>2, <1>8
  <2> QED
    BY <1>2, <1>3, <1>6, <2>1, <2>2, <2>3, <2>4, <2>5, <2>6 DEF CacheAccounted
<1> QED
  BY <1>7, <1>8

\* An object that is given back goes to the free list.
LEMMA FreeAccounted ==
  ASSUME NEW x \in Cache, NEW y, NEW H, NEW k \in H, CacheAccounted(x, H),
         y.allocated_objects = x.allocated_objects - 1, y.max_objects = x.max_objects,
         y.unmanaged = x.unmanaged, y.freelist = <<k>> \o x.freelist
  PROVE  x.allocated_objects >= 1 /\ CacheAccounted(y, H \ {k})
<1>1. /\ x.freelist \in Seq(Nat) /\ x.unmanaged \in Nat /\ x.allocated_objects \in Nat
      /\ x.max_objects \in Nat
  BY DEF Cache
<1>2. PICK u \in Nat, n \in Nat, m \in Nat :
        u = x.unmanaged /\ n = x.allocated_objects /\ m = x.max_objects
  BY <1>1
<1>3. n <= m /\ u >= 1 /\ u - 1 <= m /\ n = Cardinality(H)
  BY <1>2 DEF CacheAccounted
<1>4. H \subseteq 1 .. u - 1
  BY <1>2 DEF CacheAccounted
<1>5. IsFiniteSet(H)
  <2>1. IsFiniteSet(1 .. u - 1)
    BY FS_Interval
  <2> QED
    BY <1>4, <2>1, FS_Subset
<1>6. Cardinality(H \ {k}) = n - 1 /\ n >= 1
  <2>1. IsFiniteSet(H \ {k}) /\ Cardinality(H \ {k}) = n - 1
    BY <1>3, <1>5, FS_RemoveElement
  <2>2. Cardinality(H \ {k}) \in Nat
    BY <2>1, FS_CardinalityType
  <2> QED
    BY <1>2, <2>1, <2>2
<1>7. k \in Nat /\ k \notin Listed(x.freelist)
  BY <1>4 DEF CacheAccounted
<1>8. Listed(y.freelist) = {k} \cup Listed(x.freelist) /\ NoRepeat(y.freelist)
  BY <1>1, <1>7, ListPush DEF CacheAccounted
<1>9. (H \ {k}) \cap Listed(y.freelist) = {}
  BY <1>8 DEF CacheAccounted
<1>10. (H \ {k}) \cup Listed(y.freelist) = 1 .. u - 1
  BY <1>2, <1>8 DEF CacheAccounted
<1>11. n - 1 <= m
  BY <1>3
<1> QED
  BY <1>2, <1>3, <1>6, <1>8, <1>9, <1>10, <1>11 DEF CacheAccounted

(***************************************************************************)
(* The heap and the pointers U in use                                      *)
(***************************************************************************)
Pointer == [address : (Blocks \cup Fragments) \X Nat, index : Nat]

HeldOf(U, c) == {p.address[2] : p \in {q \in U : q.address[1] = c}}

Accounted(h, U) == \A c \in Caches(h) : CacheAccounted(h.cache[c], HeldOf(U, c))

Distinct(U) == \A p, q \in U : p.address = q.address => p = q

\* Where the memory of a pointer is.
OwnerOf(h, p) ==
  IF p.index = BUDDY_INDEX THEN p.address[2] = 0 /\ p.address[1] \in h.large
  ELSE p.index \in Slabs /\ p.address[1] \in CachesOf(h, p.index)

Good(h, U) ==
  /\ HeapOK(h)
  /\ \A s \in Slabs : HasRoom(h, s)
  /\ U \subseteq Pointer /\ Distinct(U)
  /\ Accounted(h, U)
  /\ \A p \in U : OwnerOf(h, p)

\* The address of a pointer is a block and a number.
LEMMA AddressType ==
  ASSUME NEW p \in Pointer
  PROVE  /\ p.address[1] \in Blocks \cup Fragments /\ p.address[2] \in Nat
         /\ p.address = <<p.address[1], p.address[2]>> /\ p.index \in Nat
  BY DEF Pointer

\* The index in a header names the page allocator or a slab, never both, and
\* a pointer is not NULL.
LEMMA IndexApart ==
  /\ BUDDY_INDEX \in Nat /\ BUDDY_INDEX \notin Slabs /\ Slabs \subseteq Nat
  /\ Null \notin Pointer /\ Null \notin Blocks /\ Null \notin Slabs
  BY FrontAssumption, SlabAssumption DEF BUDDY_INDEX, Pointer

\* A block in use by a pointer is not free.
LEMMA UsedNotFree ==
  ASSUME NEW h, NEW U, Good(h, U), NEW p \in U
  PROVE  p.address[1] \in h.large \cup Caches(h)
  BY DEF Good, OwnerOf, CachesOf

\* A new cache in a free block.
LEMMA NewCacheGood ==
  ASSUME NEW h, NEW U, Good(h, U), NEW s \in Slabs, NEW b \in FreeBlocks(h),
         NEW objects \in Nat \ {0}, NEW g \in Heap, OthersSame(h, g, b),
         Fresh(g.cache[b], s, objects), SetsFirstFree(h.alloc, g.alloc, s, b)
  PROVE  Good(g, U) /\ b \in CachesOf(g, s) /\ ~Full(g, b)
<1>1. b \in Blocks /\ b \notin Caches(h) /\ b \notin h.large /\ HeapOK(h)
  BY DEF FreeBlocks, Good
<1>2. Null \notin Slabs /\ NoCache.slab = Null
  BY IndexApart DEF NoCache
<1>3. \A y \in Blocks : y # b => g.cache[y].slab = h.cache[y].slab
  BY DEF OthersSame, SameBody
<1>4. g.cache[b].slab = s /\ g.cache[b].slab # Null
  BY <1>2 DEF Fresh
<1>5. \A y \in Blocks : g.cache[y].slab = Null => g.cache[y] = NoCache
  BY <1>1, <1>3, <1>4 DEF OthersSame, SameBody, HeapOK
<1>6. Caches(g) = Caches(h) \cup {b}
  <2>1. Caches(h) = {y \in Blocks : h.cache[y].slab # Null}
    BY <1>1, CachesBySlab
  <2>2. Caches(g) = {y \in Blocks : g.cache[y].slab # Null}
    BY <1>2, <1>5 DEF Caches
  <2> QED
    BY <1>1, <1>3, <1>4, <2>1, <2>2
<1>7. HeapOK(g)
  BY <1>1, <1>5, <1>6 DEF HeapOK, OthersSame
<1>8. \A x \in Slabs : CachesOf(g, x) = {y \in Blocks : g.cache[y].slab = x}
  BY <1>7, CachesBySlab
<1>9. \A x \in Slabs : CachesOf(h, x) = {y \in Blocks : h.cache[y].slab = x}
  BY <1>1, CachesBySlab
<1>10. \A x \in Slabs : CachesOf(h, x) \subseteq CachesOf(g, x)
  <2>1. \A y \in Caches(h) : y \in Blocks /\ y # b
    BY <1>1 DEF Caches
  <2> QED
    BY <1>3, <1>6, <2>1 DEF CachesOf
<1>11. b \in CachesOf(g, s) /\ ~Full(g, b)
  <2>1. b \in CachesOf(g, s)
    BY <1>1, <1>4, <1>8
  <2> QED
    BY <2>1 DEF Full, Fresh
<1>12. ASSUME NEW x \in Slabs PROVE HasRoom(g, x)
  <2>1. CASE x = s
    <3>1. g.alloc[s].first_free_cache = b
      BY DEF SetsFirstFree
    <3> QED
      BY <1>11, <2>1, <3>1 DEF HasRoom
  <2>2. CASE x # s
    <3>1. g.alloc[x].first_free_cache = h.alloc[x].first_free_cache
      BY <2>2 DEF SetsFirstFree
    <3>2. HasRoom(h, x)
      BY DEF Good
    <3>3. ASSUME NEW f \in CachesOf(h, x), ~Full(h, f) PROVE ~Full(g, f)
      <4>1. f \in Blocks /\ f # b
        BY <1>1 DEF CachesOf, Caches
      <4> QED
        BY <3>3, <4>1 DEF OthersSame, SameBody, Full
    <3> QED
      BY <1>10, <3>1, <3>2, <3>3 DEF HasRoom
  <2> QED
    BY <2>1, <2>2
<1>13. Accounted(g, U)
  <2>1. HeldOf(U, b) = {}
    BY <1>1, UsedNotFree DEF HeldOf
  <2>2. CacheAccounted(g.cache[b], {})
    <3>1. Listed(<<>>) = {} /\ NoRepeat(<<>>) /\ Cardinality({}) = 0
      BY FS_EmptySet DEF Listed, NoRepeat
    <3>2. 1 .. 1 - 1 = {}
      OBVIOUS
    <3> QED
      BY <3>1, <3>2 DEF CacheAccounted, Fresh
  <2>3. ASSUME NEW y \in Caches(h) PROVE CacheAccounted(g.cache[y], HeldOf(U, y))
    <3>1. y \in Blocks /\ y # b
      BY <1>1 DEF Caches
    <3>2. SameBody(h.cache[y], g.cache[y])
      BY <3>1 DEF OthersSame
    <3>3. CacheAccounted(h.cache[y], HeldOf(U, y))
      BY DEF Good, Accounted
    <3> QED
      BY <3>2, <3>3 DEF CacheAccounted, SameBody
  <2> QED
    BY <1>6, <2>1, <2>2, <2>3 DEF Accounted
<1>14. \A p \in U : OwnerOf(g, p)
  BY <1>10 DEF Good, OwnerOf, OthersSame
<1> QED
  BY <1>7, <1>11, <1>12, <1>13, <1>14 DEF Good

\* An object of a cache with room is handed out.
LEMMA TakeGood ==
  ASSUME NEW h, NEW U, Good(h, U), NEW s \in Slabs, NEW c \in CachesOf(h, s), ~Full(h, c),
         NEW k \in Nat, NEW g \in Heap, Takes(h, g, s, c, k), HasRoom(g, s),
         NEW p \in Pointer, p.address = <<c, k>>, p.index = s
  PROVE  Good(g, U \cup {p})
<1>1. HeapOK(h) /\ c \in Caches(h) /\ c \in Blocks /\ OthersSame(h, g, c)
      /\ g.cache[c].slab = h.cache[c].slab
  BY DEF Good, CachesOf, Caches, Takes
<1>2. HeapOK(g) /\ Caches(g) = Caches(h) /\ \A x \in Slabs : CachesOf(g, x) = CachesOf(h, x)
  BY <1>1, StillOK
<1>3. h.cache[c] \in Cache
  BY <1>1, CachesBySlab
<1>4. /\ k \notin HeldOf(U, c) /\ k # 0
      /\ CacheAccounted(g.cache[c], HeldOf(U, c) \cup {k})
  <2>1. PICK x \in Cache : x = h.cache[c]
    BY <1>3
  <2>2. CacheAccounted(x, HeldOf(U, c)) /\ x.allocated_objects # x.max_objects
    BY <1>1, <2>1 DEF Good, Accounted, Full
  <2>3. PICK y : y = g.cache[c]
    OBVIOUS
  <2>4. /\ y.allocated_objects = x.allocated_objects + 1 /\ y.max_objects = x.max_objects
        /\ IF x.freelist = <<>>
           THEN /\ k = x.unmanaged /\ y.unmanaged = k + 1 /\ y.freelist = <<>>
           ELSE /\ k = Head(x.freelist) /\ y.freelist = Tail(x.freelist)
                /\ y.unmanaged = x.unmanaged
    BY <2>1, <2>3 DEF Takes
  <2>5. k \notin HeldOf(U, c) /\ k # 0 /\ CacheAccounted(y, HeldOf(U, c) \cup {k})
    BY <2>2, <2>4, TakeAccounted
  <2> QED
    BY <2>3, <2>5
<1>5. Accounted(g, U \cup {p})
  <2>3. /\ HeldOf(U \cup {p}, c) = HeldOf(U, c) \cup {k}
        /\ \A y : y # c => HeldOf(U \cup {p}, y) = HeldOf(U, y)
    <3>1. p.address[1] = c /\ p.address[2] = k
      OBVIOUS
    <3>2. HeldOf(U \cup {p}, c) = HeldOf(U, c) \cup {k}
      BY <3>1 DEF HeldOf
    <3>3. ASSUME NEW y, y # c PROVE HeldOf(U \cup {p}, y) = HeldOf(U, y)
      BY <3>1, <3>3 DEF HeldOf
    <3> QED
      BY <3>2, <3>3
  <2>1. CacheAccounted(g.cache[c], HeldOf(U \cup {p}, c))
    BY <1>4, <2>3
  <2>2. ASSUME NEW y \in Caches(h), y # c PROVE CacheAccounted(g.cache[y], HeldOf(U \cup {p}, y))
    <3>1. SameBody(h.cache[y], g.cache[y])
      BY <1>1, <2>2 DEF OthersSame, Caches
    <3>2. CacheAccounted(h.cache[y], HeldOf(U, y))
      BY DEF Good, Accounted
    <3>3. HeldOf(U \cup {p}, y) = HeldOf(U, y)
      BY <2>2, <2>3
    <3> QED
      BY <3>1, <3>2, <3>3 DEF CacheAccounted, SameBody
  <2> QED
    BY <1>2, <2>1, <2>2 DEF Accounted
<1>6. Distinct(U \cup {p})
  <2>1. ASSUME NEW q \in U, q.address = <<c, k>> PROVE FALSE
    BY <1>4, <2>1 DEF HeldOf
  <2> QED
    BY <2>1 DEF Distinct, Good
<1>7. ASSUME NEW x \in Slabs PROVE HasRoom(g, x)
  <2>1. SUFFICES ASSUME x # s PROVE HasRoom(g, x)
    OBVIOUS
  <2>2. g.alloc[x].first_free_cache = h.alloc[x].first_free_cache /\ HasRoom(h, x)
    BY <2>1 DEF Takes, Good
  <2>3. ASSUME NEW f \in CachesOf(h, x), ~Full(h, f) PROVE f \in CachesOf(g, x) /\ ~Full(g, f)
    <3>1. f \in Blocks /\ f # c
      BY <2>1 DEF CachesOf, Caches
    <3> QED
      BY <1>1, <1>2, <2>3, <3>1 DEF OthersSame, SameBody, Full
  <2> QED
    BY <2>2, <2>3 DEF HasRoom
<1>8. ASSUME NEW q \in U \cup {p} PROVE OwnerOf(g, q)
  <2>1. CASE q \in U
    BY <1>1, <1>2, <2>1 DEF Good, OwnerOf, OthersSame
  <2>2. CASE q = p
    <3>1. p.address[1] = c
      OBVIOUS
    <3> QED
      BY <1>2, <2>2, <3>1, IndexApart DEF OwnerOf
  <2> QED
    BY <2>1, <2>2
<1> QED
  BY <1>2, <1>5, <1>6, <1>7, <1>8 DEF Good

\* How a call ends is what it says.
LEMMA EndsParts ==
  ASSUME NEW how, NEW h, NEW ptr
  PROVE  Ends(how, h, ptr).end = how /\ Ends(how, h, ptr).heap = h /\ Ends(how, h, ptr).ptr = ptr
  BY DEF Ends

\* slab_alloc hands out an object of the slab, or there is none.
LEMMA SlabAllocGood ==
  ASSUME NEW h, NEW U, Good(h, U), NEW s \in Slabs,
         NEW b \in IF h.alloc[s].first_free_cache = Null THEN buddy_alloc_cache(h) ELSE {Null},
         slab_alloc(h, s, b).end = "return"
  PROVE  \/ slab_alloc(h, s, b) = Ends("return", h, Null)
         \/ \E m \in Heap, c \in Blocks, k \in Nat, g \in Heap :
              /\ slab_alloc(h, s, b) = Ends("return", g, <<c, k>>)
              /\ Good(m, U) /\ c \in CachesOf(m, s) /\ ~Full(m, c)
              /\ Takes(m, g, s, c, k) /\ HasRoom(g, s)
<1> DEFINE f == h.alloc[s].first_free_cache
           more == slab_cache_init(h, s, b, CacheObjects)
           r == slab_alloc(h, s, b)
<1>0. HeapOK(h) /\ HasRoom(h, s)
  BY DEF Good
<1>1. CASE f # Null
  <2>1. f \in CachesOf(h, s) /\ ~Full(h, f) /\ f \in Blocks
    BY <1>0, <1>1 DEF HasRoom, CachesOf, Caches
  <2>2. r = slab_cache_alloc(h, s, f)
    BY <1>1 DEF slab_alloc
  <2> HIDE DEF f
  <2>3. PICK k \in Nat, g \in Heap :
           /\ slab_cache_alloc(h, s, f) = Ends("return", g, <<f, k>>)
           /\ Takes(h, g, s, f, k) /\ HasRoom(g, s)
    BY <1>0, <2>1, <2>2, CacheAlloc
  <2>4. Good(h, U) /\ h \in Heap
    BY <1>0 DEF HeapOK
  <2> QED
    BY <2>1, <2>2, <2>3, <2>4
<1>2. CASE f = Null /\ b = Null
  BY <1>2 DEF slab_alloc
<1>3. CASE f = Null /\ b # Null
  <2>1. b \in FreeBlocks(h) /\ b \in Blocks
    BY <1>3 DEF buddy_alloc_cache, AnyOf, FreeBlocks
  <2>2. r = IfValid(h, s, {h.alloc[s].last_cache} \ {b},
                    slab_cache_alloc(more, s, more.alloc[s].first_free_cache))
    BY <1>3 DEF slab_alloc
  <2> HIDE DEF more
  <2>3. /\ {h.alloc[s].last_cache} \ {b, Null} \subseteq CachesOf(h, s)
        /\ r = slab_cache_alloc(more, s, more.alloc[s].first_free_cache)
    <3>1. r.end = "return"
      OBVIOUS
    <3> HIDE DEF r
    <3> QED
      BY <2>2, <3>1, EndsParts DEF IfValid
  <2>4. CacheObjects \in Nat \ {0}
    BY SlabAssumption
  <2>5. /\ more \in Heap /\ OthersSame(h, more, b) /\ Fresh(more.cache[b], s, CacheObjects)
        /\ SetsFirstFree(h.alloc, more.alloc, s, b)
    BY <1>0, <1>3, <2>1, <2>3, <2>4, CacheInit DEF more
  <2>6. Good(more, U) /\ b \in CachesOf(more, s) /\ ~Full(more, b)
    BY <2>1, <2>4, <2>5, NewCacheGood
  <2>7. more.alloc[s].first_free_cache = b
    BY <2>5 DEF SetsFirstFree
  <2>8. HeapOK(more)
    BY <2>6 DEF Good
  <2>9. r = slab_cache_alloc(more, s, b) /\ r.end = "return"
    BY <2>3, <2>7
  <2> HIDE DEF r
  <2>10. PICK k \in Nat, g \in Heap :
           /\ slab_cache_alloc(more, s, b) = Ends("return", g, <<b, k>>)
           /\ Takes(more, g, s, b, k) /\ HasRoom(g, s)
    BY <2>6, <2>8, <2>9, CacheAlloc
  <2> QED
    BY <2>1, <2>5, <2>6, <2>9, <2>10 DEF r
<1> QED
  BY <1>1, <1>2, <1>3

\* A small request is served by its slab.
LEMMA FromSlabGood ==
  ASSUME NEW h, NEW U, Good(h, U), NEW s \in Slabs, NEW r \in FromSlab(h, s),
         r.end = "return", r.ptr # Null
  PROVE  r.ptr \in Pointer /\ Good(r.heap, U \cup {r.ptr})
<1>1. PICK b \in IF h.alloc[s].first_free_cache = Null THEN buddy_alloc_cache(h) ELSE {Null} :
        LET q == slab_alloc(h, s, b)
        IN  r = IF q.ptr = Null THEN q ELSE [q EXCEPT !.ptr = Ptr(q.ptr, s)]
  BY DEF FromSlab
<1> DEFINE q == slab_alloc(h, s, b)
<1>2. q.ptr # Null
  BY <1>1
<1>3. r = [q EXCEPT !.ptr = Ptr(q.ptr, s)]
  BY <1>1, <1>2
<1>4. r.end = q.end
  <2> HIDE DEF q
  <2> QED
    BY <1>3
<1>5. PICK m \in Heap, c \in Blocks, k \in Nat, g \in Heap :
              /\ q = Ends("return", g, <<c, k>>)
              /\ Good(m, U) /\ c \in CachesOf(m, s) /\ ~Full(m, c)
              /\ Takes(m, g, s, c, k) /\ HasRoom(g, s)
  BY <1>2, <1>4, SlabAllocGood, EndsParts
<1> HIDE DEF q
<1> DEFINE p == Ptr(<<c, k>>, s)
<1>6. r = Ends("return", g, p)
  BY <1>3, <1>5 DEF Ends
<1>7. p \in Pointer /\ p.address = <<c, k>> /\ p.index = s
  BY IndexApart DEF Ptr, Pointer
<1> HIDE DEF p
<1>9. Good(g, U \cup {p})
  BY <1>5, <1>7, TakeGood
<1>10. r.heap = g /\ r.ptr = p
  BY <1>6, EndsParts
<1> QED
  BY <1>7, <1>9, <1>10

(***************************************************************************)
(* The front end                                                           *)
(***************************************************************************)
\* A set of numbers that is not empty has a least one.
LEMMA LeastNumber ==
  ASSUME NEW T \in SUBSET Nat, T # {}
  PROVE  \E x \in T : \A y \in T : x <= y
<1> DEFINE R == OpToRel(<, Nat)
<1>1. IsWellFoundedOn(R, Nat)
  BY NatLessThanWellFounded
<1>2. \A x, y \in Nat : <<y, x>> \in R <=> y < x
  BY DEF OpToRel
<1> HIDE DEF R
<1>3. PICK x \in T : \A y \in T : ~(<<y, x>> \in R)
  BY <1>1, WFMin
<1>4. ASSUME NEW y \in T PROVE x <= y
  <2>1. x \in Nat /\ y \in Nat
    OBVIOUS
  <2>2. ~(y < x)
    BY <1>2, <1>3, <2>1
  <2> QED
    BY <2>1, <2>2
<1> QED
  BY <1>4

\* The slab that best_fit_slab_index chooses is one of the slabs.
LEMMA BestFit ==
  ASSUME NEW size, best_fit_slab_index(size) # BUDDY_INDEX
  PROVE  best_fit_slab_index(size) \in Slabs
<1> DEFINE fits == {i \in Slabs : size < slab_size_by_index(i)}
           best == CHOOSE i \in fits : \A j \in fits : i <= j
<1>1. fits # {} /\ best_fit_slab_index(size) = best
  BY DEF best_fit_slab_index
<1>2. fits \in SUBSET Nat
  BY IndexApart
<1>3. \E i \in fits : \A j \in fits : i <= j
  <2> HIDE DEF fits
  <2> QED
    BY <1>1, <1>2, LeastNumber
<1>4. best \in fits
  <2> HIDE DEF fits
  <2> QED
    BY <1>3
<1> QED
  BY <1>1, <1>4

\* Changing the blocks that are used as they are.
LEMMA LargeGood ==
  ASSUME NEW h, NEW U, Good(h, U), NEW V \in SUBSET Pointer, NEW large \in LargeSets,
         large \cap Caches(h) = {}, Distinct(V),
         \A c \in Caches(h) : HeldOf(V, c) = HeldOf(U, c),
         \A p \in V : (\/ p \in U /\ p.index # BUDDY_INDEX
                       \/ /\ p.index = BUDDY_INDEX /\ p.address[2] = 0
                          /\ p.address[1] \in large)
  PROVE  Good([h EXCEPT !.large = large], V)
<1> DEFINE g == [h EXCEPT !.large = large]
<1>1. h \in Heap /\ HeapOK(h)
  BY DEF Good, HeapOK
<1>2. g \in Heap /\ g.cache = h.cache /\ g.alloc = h.alloc /\ g.large = large
  BY <1>1 DEF Heap
<1> HIDE DEF g
<1>3. Caches(g) = Caches(h) /\ \A s \in Slabs : CachesOf(g, s) = CachesOf(h, s)
  BY <1>2 DEF Caches, CachesOf
<1>4. HeapOK(g)
  BY <1>1, <1>2, <1>3 DEF HeapOK
<1>5. \A s \in Slabs : HasRoom(g, s)
  BY <1>2, <1>3 DEF Good, HasRoom, Full
<1>6. Accounted(g, V)
  BY <1>2, <1>3 DEF Good, Accounted
<1>7. \A p \in V : OwnerOf(g, p)
  BY <1>2, <1>3 DEF Good, OwnerOf
<1> QED
  BY <1>4, <1>5, <1>6, <1>7 DEF Good, g

\* The page allocator serves a request with a block that nobody uses.
LEMMA FromBuddyGood ==
  ASSUME NEW h, NEW U, Good(h, U), NEW size, NEW b \in buddy_alloc(h), b # Null,
         to_pages_count(size) # 0
  PROVE  LET r == FromBuddy(h, size, b)
         IN  r.ptr \in Pointer /\ Good(r.heap, U \cup {r.ptr})
<1> DEFINE p == Ptr(<<b, 0>>, BUDDY_INDEX)
           large == h.large \cup {b}
           g == [h EXCEPT !.large = large]
<1>1. FromBuddy(h, size, b) = Ends("return", g, p)
  BY DEF FromBuddy
<1>2. b \in Blocks \cup Fragments /\ b \notin h.large /\ b \notin Caches(h)
  <2>1. b \in FreeBlocks(h) \/ b \in Fragments \ h.large
    BY DEF buddy_alloc, AnyOf
  <2>2. Caches(h) \subseteq Blocks
    BY DEF Caches
  <2> QED
    BY <2>1, <2>2, SlabAssumption DEF FreeBlocks
<1>4. p \in Pointer /\ p.address = <<b, 0>> /\ p.index = BUDDY_INDEX
  BY <1>2, IndexApart DEF Ptr, Pointer
<1>5. p.address[1] = b /\ p.address[2] = 0
  BY <1>4
<1> HIDE DEF p
<1>7. Distinct(U \cup {p})
  <2>1. ASSUME NEW q \in U PROVE q.address # p.address
    <3>1. q.address[1] # b
      BY <1>2, UsedNotFree
    <3> QED
      BY <1>5, <3>1
  <2> QED
    BY <2>1 DEF Distinct, Good
<1>8. ASSUME NEW c \in Caches(h) PROVE HeldOf(U \cup {p}, c) = HeldOf(U, c)
  <2>1. p.address[1] # c
    BY <1>2, <1>5
  <2> QED
    BY <2>1 DEF HeldOf
<1>9. large \in LargeSets /\ large \cap Caches(h) = {}
  BY <1>2, HeapParts DEF Good, HeapOK, LargeSets
<1>10. ASSUME NEW q \in U \cup {p}
       PROVE  (\/ q \in U /\ q.index # BUDDY_INDEX
               \/ q.index = BUDDY_INDEX /\ q.address[2] = 0 /\ q.address[1] \in large)
  <2>1. CASE q \in U
    BY <2>1 DEF Good, OwnerOf
  <2>2. CASE q = p
    BY <1>4, <1>5, <2>2
  <2> QED
    BY <2>1, <2>2
<1>11. U \cup {p} \in SUBSET Pointer
  BY <1>4 DEF Good
<1> HIDE DEF large
<1>12. Good(g, U \cup {p})
  <2>1. PICK V \in SUBSET Pointer : V = U \cup {p}
    BY <1>11
  <2>2. \A c \in Caches(h) : HeldOf(V, c) = HeldOf(U, c)
    BY <1>8, <2>1
  <2>3. \A q \in V : (\/ q \in U /\ q.index # BUDDY_INDEX
                      \/ /\ q.index = BUDDY_INDEX /\ q.address[2] = 0
                         /\ q.address[1] \in large)
    BY <1>10, <2>1
  <2>4. Distinct(V)
    BY <1>7, <2>1
  <2>5. Good([h EXCEPT !.large = large], V)
    BY <1>9, <2>2, <2>3, <2>4, LargeGood, Zenon
  <2> QED
    BY <2>1, <2>5
<1> HIDE DEF g
<1>13. FromBuddy(h, size, b).ptr = p /\ FromBuddy(h, size, b).heap = g
  BY <1>1, EndsParts
<1> QED
  BY <1>4, <1>12, <1>13

\* penguin_malloc returns NULL and changes nothing, or a new pointer.
LEMMA MallocGood ==
  ASSUME NEW h, NEW U, Good(h, U), NEW size, NEW r \in penguin_malloc(h, size),
         r.end = "return"
  PROVE  \/ r.ptr = Null /\ r.heap = h
         \/ r.ptr \in Pointer /\ Good(r.heap, U \cup {r.ptr})
<1> DEFINE whole == with_header(size)
           index == best_fit_slab_index(whole)
           small == IF index = BUDDY_INDEX THEN {} ELSE FromSlab(h, index)
           done  == {q \in small : q.ptr # Null \/ q.end # "return"}
<1>1. CASE done # {}
  <2>1. r \in done
    BY <1>1 DEF penguin_malloc
  <2>2. index # BUDDY_INDEX /\ r \in FromSlab(h, index) /\ r.ptr # Null
    BY <2>1
  <2> HIDE DEF done, small, whole
  <2>3. index \in Slabs
    BY <2>2, BestFit
  <2> HIDE DEF index
  <2> QED
    BY <2>2, <2>3, FromSlabGood
<1>2. CASE done = {}
  <2>1. PICK b \in buddy_alloc(h) : r = FromBuddy(h, whole, b)
    BY <1>2 DEF penguin_malloc
  <2> HIDE DEF index, small, done, whole
  <2>2. to_pages_count(whole) # 0
    <3>1. "undefined" # "return" /\ Ends("undefined", h, Null).end = "undefined"
      BY EndsParts
    <3> QED
      BY <2>1, <3>1 DEF FromBuddy
  <2>3. CASE b = Null
    <3>1. r = Ends("return", h, Null)
      BY <2>1, <2>2, <2>3 DEF FromBuddy
    <3> QED
      BY <3>1, EndsParts
  <2>4. CASE b # Null
    <3>1. /\ FromBuddy(h, whole, b).ptr \in Pointer
          /\ Good(FromBuddy(h, whole, b).heap, U \cup {FromBuddy(h, whole, b).ptr})
      BY <2>2, <2>4, FromBuddyGood
    <3> QED
      BY <2>1, <3>1
  <2> QED
    BY <2>3, <2>4
<1> QED
  BY <1>1, <1>2

(***************************************************************************)
(* Giving memory back                                                      *)
(***************************************************************************)
\* Object k of cache c goes to its free list.
Gives(h, g, c, k) ==
  LET old == h.cache[c]
      new == g.cache[c]
  IN  /\ OthersSame(h, g, c) /\ KeepsFirstFree(h.alloc, g.alloc)
      /\ new.allocated_objects = old.allocated_objects - 1
      /\ new.freelist = <<k>> \o old.freelist
      /\ new.unmanaged = old.unmanaged
      /\ new.max_objects = old.max_objects /\ new.slab = old.slab

\* slab_cache_free, when it returns, has put the object on the free list.
LEMMA CacheFree ==
  ASSUME NEW h, HeapOK(h), NEW s \in Slabs, NEW c \in CachesOf(h, s), NEW k \in Nat,
         h.cache[c].allocated_objects >= 1, slab_cache_free(h, s, c, k).end = "return"
  PROVE  /\ slab_cache_free(h, s, c, k).heap \in Heap
         /\ Gives(h, slab_cache_free(h, s, c, k).heap, c, k)
<1> DEFINE y == h.cache[c]
           x == [y EXCEPT !.freelist = <<k>> \o y.freelist,
                          !.allocated_objects = y.allocated_objects - 1]
           less == [h EXCEPT !.cache = [h.cache EXCEPT ![c] = x]]
           n == less.cache[c].next_cache
           down == n # Null /\ less.cache[n].allocated_objects > less.cache[c].allocated_objects
           g == IF down THEN slab_cache_move_down(less, s, c) ELSE less
           r == slab_cache_free(h, s, c, k)
<1>1. r = IfValid(h, s, {n}, Ends("return", g, Null))
  BY DEF slab_cache_free
<1>2. h \in Heap /\ c \in Blocks /\ y \in Cache /\ y.slab = s /\ s # Null
  BY CachesBySlab, SlabAssumption DEF HeapOK, CachesOf
<1>3. /\ x \in Cache /\ x.allocated_objects = y.allocated_objects - 1
      /\ x.max_objects = y.max_objects /\ x.slab = s
      /\ x.freelist = <<k>> \o y.freelist /\ x.unmanaged = y.unmanaged
      /\ x.next_cache \in Link
  <2>1. PICK e \in Cache : e = y
    BY <1>2
  <2>2. PICK list \in Seq(Nat) : list = <<k>> \o e.freelist
    BY ListPush DEF Cache
  <2>3. PICK m \in Nat : m = e.allocated_objects - 1
    BY <2>1 DEF Cache
  <2> DEFINE x1 == [e EXCEPT !.freelist = list]
             x2 == [x1 EXCEPT !.allocated_objects = m]
  <2>4. /\ x1 \in Cache /\ x1.freelist = list /\ x1.max_objects = e.max_objects
        /\ x1.slab = e.slab /\ x1.unmanaged = e.unmanaged
    BY DEF Cache
  <2> HIDE DEF x1
  <2>5. /\ x2 \in Cache /\ x2.freelist = list /\ x2.max_objects = e.max_objects
        /\ x2.slab = e.slab /\ x2.unmanaged = e.unmanaged /\ x2.allocated_objects = m
        /\ x2.next_cache \in Link
    BY <2>4 DEF Cache
  <2> HIDE DEF x2
  <2>6. x = x2
    BY <2>1, <2>2, <2>3 DEF x2, x1
  <2> HIDE DEF x, y
  <2> QED
    BY <1>2, <2>1, <2>2, <2>3, <2>5, <2>6
<1> HIDE DEF x
<1>4. /\ less \in Heap /\ less.alloc = h.alloc /\ less.large = h.large /\ less.cache[c] = x
      /\ \A b \in Blocks : b # c => less.cache[b] = h.cache[b]
  BY <1>2, <1>3, SetCache, ZenonT(40)
<1> HIDE DEF less
<1>5. {n} \ {Null} \subseteq CachesOf(h, s) /\ r = Ends("return", g, Null)
  <2>1. r.end = "return"
    OBVIOUS
  <2> HIDE DEF r, n, g
  <2> QED
    BY <1>1, <2>1, EndsParts DEF IfValid
<1>6. Relinked(less, g)
  <2>1. CASE down
    <3>1. n \in Blocks /\ n \in CachesOf(h, s)
      BY <1>5, <2>1 DEF CachesOf, Caches
    <3>2. less.cache[n].slab # Null
      BY <1>2, <1>3, <1>4, <3>1, CachesBySlab
    <3>3. less.cache[c].slab # Null
      BY <1>2, <1>3, <1>4
    <3>4. Relinked(less, slab_cache_move_down(less, s, c))
      BY <1>2, <1>4, <3>1, <3>2, <3>3, MoveDown
    <3> QED
      BY <2>1, <3>4
  <2>2. CASE ~down
    <3>1. Relinked(less, less)
      BY <1>4, SameReflexive DEF Relinked, SameBodies, KeepsFirstFree
    <3> QED
      BY <2>2, <3>1
  <2> QED
    BY <2>1, <2>2
<1> HIDE DEF g, r
<1>7. \A b \in Blocks : SameBody(less.cache[b], g.cache[b])
  BY <1>6 DEF Relinked, SameBodies
<1>8. OthersSame(h, g, c)
  BY <1>4, <1>6, <1>7 DEF OthersSame, Relinked
<1>9. KeepsFirstFree(h.alloc, g.alloc)
  BY <1>4, <1>6 DEF Relinked, KeepsFirstFree
<1>10. SameBody(x, g.cache[c])
  BY <1>2, <1>4, <1>7
<1>11. Gives(h, g, c, k)
  BY <1>2, <1>3, <1>8, <1>9, <1>10 DEF Gives, SameBody
<1>12. r.heap = g
  BY <1>5, EndsParts
<1> QED
  BY <1>6, <1>11, <1>12 DEF Relinked, r

\* A pointer into a cache that is given back.
LEMMA GiveGood ==
  ASSUME NEW h, NEW U, Good(h, U), NEW s \in Slabs, NEW p \in U, p.index = s,
         NEW g \in Heap, Gives(h, g, p.address[1], p.address[2])
  PROVE  Good(g, U \ {p}) /\ p.address[1] \in CachesOf(g, s)
<1> DEFINE c == p.address[1]
           k == p.address[2]
<1>1. /\ p \in Pointer /\ HeapOK(h) /\ c \in CachesOf(h, s) /\ c \in Caches(h) /\ c \in Blocks
      /\ OthersSame(h, g, c) /\ g.cache[c].slab = h.cache[c].slab
  BY IndexApart DEF Good, OwnerOf, CachesOf, Caches, Gives
<1>2. HeapOK(g) /\ Caches(g) = Caches(h) /\ \A x \in Slabs : CachesOf(g, x) = CachesOf(h, x)
  BY <1>1, StillOK
<1>3. h.cache[c] \in Cache
  BY <1>1, CachesBySlab
<1>4. k \in HeldOf(U, c) /\ HeldOf(U \ {p}, c) = HeldOf(U, c) \ {k}
      /\ \A b : b # c => HeldOf(U \ {p}, b) = HeldOf(U, b)
  <2>1. k \in HeldOf(U, c)
    BY DEF HeldOf
  <2>2. ASSUME NEW q \in U \ {p}, q.address[1] = c PROVE q.address[2] # k
    <3>1. q.address = <<q.address[1], q.address[2]>> /\ p.address = <<c, k>>
      BY <1>1, AddressType DEF Good
    <3>2. q.address # p.address
      BY DEF Good, Distinct
    <3> QED
      BY <2>2, <3>1, <3>2
  <2> HIDE DEF c, k
  <2>3. p.address[1] = c /\ p.address[2] = k
    BY DEF c, k
  <2>4. HeldOf(U \ {p}, c) = HeldOf(U, c) \ {k}
    BY <2>2, <2>3 DEF HeldOf
  <2>5. ASSUME NEW b, b # c PROVE HeldOf(U \ {p}, b) = HeldOf(U, b)
    BY <2>3, <2>5 DEF HeldOf
  <2> QED
    BY <2>1, <2>4, <2>5
<1>5. CacheAccounted(g.cache[c], HeldOf(U, c) \ {k}) /\ ~Full(g, c)
  <2>1. PICK x \in Cache : x = h.cache[c]
    BY <1>3
  <2>2. CacheAccounted(x, HeldOf(U, c))
    BY <1>1, <2>1 DEF Good, Accounted
  <2>3. PICK y : y = g.cache[c]
    OBVIOUS
  <2>4. /\ y.allocated_objects = x.allocated_objects - 1 /\ y.max_objects = x.max_objects
        /\ y.unmanaged = x.unmanaged /\ y.freelist = <<k>> \o x.freelist
    BY <2>1, <2>3 DEF Gives
  <2>5. x.allocated_objects >= 1 /\ CacheAccounted(y, HeldOf(U, c) \ {k})
    BY <1>4, <2>2, <2>4, FreeAccounted
  <2>6. x.allocated_objects \in Nat /\ x.max_objects \in Nat
        /\ x.allocated_objects <= x.max_objects
    BY <2>2 DEF Cache, CacheAccounted
  <2>7. y.allocated_objects # y.max_objects
    BY <2>4, <2>6
  <2> QED
    BY <2>3, <2>5, <2>7 DEF Full
<1> HIDE DEF k
<1>6. Accounted(g, U \ {p})
  <2>1. CacheAccounted(g.cache[c], HeldOf(U \ {p}, c))
    BY <1>4, <1>5
  <2>2. ASSUME NEW b \in Caches(h), b # c PROVE CacheAccounted(g.cache[b], HeldOf(U \ {p}, b))
    <3>1. SameBody(h.cache[b], g.cache[b])
      BY <1>1, <2>2 DEF OthersSame, Caches
    <3>2. CacheAccounted(h.cache[b], HeldOf(U, b))
      BY DEF Good, Accounted
    <3>3. HeldOf(U \ {p}, b) = HeldOf(U, b)
      BY <1>4, <2>2
    <3> QED
      BY <3>1, <3>2, <3>3 DEF CacheAccounted, SameBody
  <2> QED
    BY <1>2, <2>1, <2>2 DEF Accounted
<1>7. ASSUME NEW x \in Slabs PROVE HasRoom(g, x)
  <2>1. g.alloc[x].first_free_cache = h.alloc[x].first_free_cache /\ HasRoom(h, x)
    BY DEF Gives, KeepsFirstFree, Good
  <2>2. ASSUME NEW f \in CachesOf(h, x), ~Full(h, f) PROVE f \in CachesOf(g, x) /\ ~Full(g, f)
    <3>1. f \in Blocks
      BY DEF CachesOf, Caches
    <3>2. CASE f = c
      BY <1>2, <1>5, <2>2, <3>2
    <3>3. CASE f # c
      BY <1>1, <1>2, <2>2, <3>1, <3>3 DEF OthersSame, SameBody, Full
    <3> QED
      BY <3>2, <3>3
  <2> QED
    BY <2>1, <2>2 DEF HasRoom
<1>8. \A q \in U \ {p} : OwnerOf(g, q)
  BY <1>1, <1>2 DEF Good, OwnerOf, OthersSame
<1> QED
  BY <1>1, <1>2, <1>6, <1>7, <1>8 DEF Good, Distinct

\* slab_cache_destroy, when it returns, has left the block and kept every
\* object of the other caches.
LEMMA CacheDestroy ==
  ASSUME NEW h, HeapOK(h), NEW s \in Slabs, NEW c \in CachesOf(h, s),
         slab_cache_destroy(h, s, c).end = "return"
  PROVE  \E g \in Heap :
           /\ slab_cache_destroy(h, s, c) = Ends("return", g, Null)
           /\ OthersSame(h, g, c) /\ KeepsFirstFree(h.alloc, g.alloc) /\ g.cache[c] = NoCache
<1> DEFINE f == h.cache
           a == h.alloc[s]
           p == f[c].prev_cache
           n == f[c].next_cache
           inner == p # Null /\ n # Null
           links == IF inner THEN {p, n} ELSE {}
           f1 == [f EXCEPT ![p].next_cache = n]
           f2 == [f1 EXCEPT ![n].prev_cache = p]
           kept == IF inner THEN f2 ELSE f
           d == [kept EXCEPT ![c] = NoCache]
           v == IF p = Null THEN n ELSE a.first_cache
           w == IF n = Null THEN p ELSE a.last_cache
           z1 == [a EXCEPT !.first_cache = v]
           z == [z1 EXCEPT !.last_cache = w]
           e == [h.alloc EXCEPT ![s] = z]
           g == [h EXCEPT !.alloc = e, !.cache = d]
           r == slab_cache_destroy(h, s, c)
<1>1. r = IfValid(h, s, links, Ends("return", g, Null))
  BY DEF slab_cache_destroy
<1>2. /\ h \in Heap /\ c \in Blocks /\ f \in CacheMap /\ h.alloc \in AllocMap /\ a \in SlabAlloc
      /\ p \in Link /\ n \in Link
  BY HeapParts, LinkTypes DEF HeapOK, CachesOf, Caches, AllocMap
<1>3. links \ {Null} \subseteq CachesOf(h, s) /\ r = Ends("return", g, Null)
  <2>1. r.end = "return"
    OBVIOUS
  <2> HIDE DEF r, links, g
  <2> QED
    BY <1>1, <2>1, EndsParts DEF IfValid
<1> HIDE DEF r
<1>4. kept \in CacheMap /\ SameBodies(f, kept)
  <2>1. CASE inner
    <3>1. p \in Blocks /\ n \in Blocks /\ f[p].slab # Null /\ f[n].slab # Null
      BY <1>3, <2>1, CachesBySlab DEF CachesOf, Caches
    <3> HIDE DEF f, p, n
    <3>2. f1 \in CacheMap /\ SameBodies(f, f1)
      BY <1>2, <3>1, SetLink, Zenon
    <3>3. f1[n].slab # Null
      BY <3>1, <3>2, SameSlabs
    <3> HIDE DEF f1
    <3>4. f2 \in CacheMap /\ SameBodies(f1, f2)
      BY <1>2, <3>1, <3>2, <3>3, SetLink, Zenon
    <3> HIDE DEF f2
    <3>5. SameBodies(f, f2)
      BY <3>2, <3>4, SameTransitive
    <3> QED
      BY <2>1, <3>4, <3>5
  <2>2. CASE ~inner
    BY <1>2, <2>2, SameReflexive DEF SameBodies
  <2> QED
    BY <2>1, <2>2
<1> HIDE DEF kept
<1>5. d \in CacheMap /\ d[c] = NoCache /\ \A b \in Blocks : b # c => d[b] = kept[b]
  <2>1. NoCache \in Cache
    BY DEF NoCache, Cache, Link
  <2> QED
    BY <1>2, <1>4, <2>1 DEF CacheMap
<1> HIDE DEF d
<1>6. v \in Link /\ w \in Link
  BY <1>2 DEF SlabAlloc
<1> HIDE DEF v, w, a
<1>7. z1 \in SlabAlloc /\ z1.first_free_cache = a.first_free_cache
  BY <1>2, <1>6 DEF SlabAlloc
<1> HIDE DEF z1
<1>8. z \in SlabAlloc /\ z.first_free_cache = a.first_free_cache
  BY <1>6, <1>7 DEF SlabAlloc
<1> HIDE DEF z
<1>9. e \in AllocMap /\ KeepsFirstFree(h.alloc, e)
  <2>1. e \in AllocMap /\ \A x \in Slabs : e[x] = IF x = s THEN z ELSE h.alloc[x]
    BY <1>2, <1>8 DEF AllocMap
  <2> HIDE DEF e
  <2> QED
    BY <1>8, <2>1 DEF KeepsFirstFree, a
<1> HIDE DEF e
<1>10. g \in Heap /\ g.cache = d /\ g.alloc = e /\ g.large = h.large
  BY <1>2, <1>5, <1>9 DEF Heap
<1> HIDE DEF g
<1>11. OthersSame(h, g, c)
  BY <1>4, <1>5, <1>10 DEF OthersSame, SameBodies, f
<1>12. KeepsFirstFree(h.alloc, g.alloc) /\ g.cache[c] = NoCache
  BY <1>5, <1>9, <1>10
<1> QED
  BY <1>3, <1>10, <1>11, <1>12 DEF r

\* Giving up a cache that has no object with the program.
LEMMA DropGood ==
  ASSUME NEW h, NEW U, Good(h, U), NEW s \in Slabs, NEW c \in CachesOf(h, s),
         h.cache[c].allocated_objects = 0, NEW g \in Heap, OthersSame(h, g, c),
         g.cache[c] = NoCache,
         SetsFirstFree(h.alloc, g.alloc, s,
                       IF h.alloc[s].first_free_cache = c THEN Null
                       ELSE h.alloc[s].first_free_cache)
  PROVE  Good(g, U)
<1>1. HeapOK(h) /\ c \in Caches(h) /\ c \in Blocks /\ h.cache[c].slab = s /\ s # Null
  BY IndexApart DEF Good, CachesOf, Caches
<1>2. NoCache.slab = Null
  BY DEF NoCache
<1>3. \A y \in Blocks : y # c => g.cache[y].slab = h.cache[y].slab
  BY DEF OthersSame, SameBody
<1>4. \A y \in Blocks : g.cache[y].slab = Null => g.cache[y] = NoCache
  BY <1>1, <1>3 DEF OthersSame, SameBody, HeapOK
<1>5. Caches(g) = Caches(h) \ {c}
  <2>1. Caches(h) = {y \in Blocks : h.cache[y].slab # Null}
    BY <1>1, CachesBySlab
  <2>2. Caches(g) = {y \in Blocks : g.cache[y].slab # Null}
    BY <1>2, <1>4 DEF Caches
  <2> QED
    BY <1>1, <1>2, <1>3, <2>1, <2>2
<1>6. HeapOK(g)
  BY <1>1, <1>4, <1>5 DEF HeapOK, OthersSame
<1>7. \A x \in Slabs : CachesOf(g, x) = CachesOf(h, x) \ {c}
  <2>1. \A y \in Caches(g) : y \in Blocks /\ y # c
    BY <1>5 DEF Caches
  <2> QED
    BY <1>3, <1>5, <2>1 DEF CachesOf
<1>8. HeldOf(U, c) = {}
  <2>1. CacheAccounted(h.cache[c], HeldOf(U, c))
    BY <1>1 DEF Good, Accounted
  <2>2. h.cache[c] \in Cache
    BY <1>1, CachesBySlab
  <2>3. PICK u \in Nat : u = h.cache[c].unmanaged
    BY <2>2 DEF Cache
  <2>4. HeldOf(U, c) \subseteq 1 .. u - 1 /\ Cardinality(HeldOf(U, c)) = 0
    BY <2>1, <2>3 DEF CacheAccounted
  <2>5. IsFiniteSet(HeldOf(U, c))
    <3>1. IsFiniteSet(1 .. u - 1)
      BY FS_Interval
    <3> QED
      BY <2>4, <3>1, FS_Subset
  <2> QED
    BY <2>4, <2>5, FS_EmptySet
<1>9. \A p \in U : p.address[1] # c
  BY <1>8 DEF HeldOf
<1>10. ASSUME NEW x \in Slabs PROVE HasRoom(g, x)
  <2>1. HasRoom(h, x)
    BY DEF Good
  <2>2. g.alloc[x].first_free_cache \in {h.alloc[x].first_free_cache, Null}
    BY DEF SetsFirstFree
  <2>3. g.alloc[x].first_free_cache # Null => g.alloc[x].first_free_cache # c
    <3>1. CASE x = s
      BY <3>1 DEF SetsFirstFree
    <3>2. CASE x # s
      <4>1. h.alloc[x].first_free_cache # Null => h.cache[h.alloc[x].first_free_cache].slab = x
        BY <2>1 DEF HasRoom, CachesOf
      <4> QED
        BY <1>1, <2>2, <3>2, <4>1
    <3> QED
      BY <3>1, <3>2
  <2>4. ASSUME NEW f \in CachesOf(h, x), ~Full(h, f), f # c PROVE f \in CachesOf(g, x) /\ ~Full(g, f)
    <3>1. f \in Blocks
      BY DEF CachesOf, Caches
    <3> QED
      BY <1>7, <2>4, <3>1 DEF OthersSame, SameBody, Full
  <2> QED
    BY <2>1, <2>2, <2>3, <2>4 DEF HasRoom
<1>11. Accounted(g, U)
  <2>1. ASSUME NEW y \in Caches(g) PROVE CacheAccounted(g.cache[y], HeldOf(U, y))
    <3>1. y \in Blocks /\ y # c /\ y \in Caches(h)
      BY <1>5 DEF Caches
    <3>2. SameBody(h.cache[y], g.cache[y])
      BY <3>1 DEF OthersSame
    <3>3. CacheAccounted(h.cache[y], HeldOf(U, y))
      BY <3>1 DEF Good, Accounted
    <3> QED
      BY <3>2, <3>3 DEF CacheAccounted, SameBody
  <2> QED
    BY <2>1 DEF Accounted
<1>12. \A p \in U : OwnerOf(g, p)
  BY <1>7, <1>9 DEF Good, OwnerOf, OthersSame
<1> QED
  BY <1>6, <1>10, <1>11, <1>12 DEF Good

\* slab_free, when it returns, has taken the object back.
LEMMA SlabFreeGood ==
  ASSUME NEW h, NEW U, Good(h, U), NEW s \in Slabs, NEW p \in U, p.index = s,
         slab_free(h, s, p.address).end = "return"
  PROVE  Good(slab_free(h, s, p.address).heap, U \ {p})
<1> DEFINE c == p.address[1]
           k == p.address[2]
           freed == slab_cache_free(h, s, c, k)
           m == freed.heap
           left == m.cache[c]
           gone == slab_cache_destroy(m, s, c)
           v == IF gone.heap.alloc[s].first_free_cache = c THEN Null
                ELSE gone.heap.alloc[s].first_free_cache
           last == [gone EXCEPT !.heap.alloc[s].first_free_cache = v]
           r == slab_free(h, s, p.address)
<1>1. r = IF left.allocated_objects > 0 \/ left.root_cache \/ freed.end # "return" THEN freed
          ELSE last
  BY DEF slab_free
<1>2. p \in Pointer /\ HeapOK(h) /\ c \in CachesOf(h, s) /\ c \in Caches(h) /\ k \in Nat
  BY IndexApart, AddressType DEF Good, OwnerOf, CachesOf
<1>3. h.cache[c].allocated_objects >= 1
  <2>1. h.cache[c] \in Cache /\ CacheAccounted(h.cache[c], HeldOf(U, c)) /\ c \in Blocks
    BY <1>2, CachesBySlab DEF Good, Accounted, Caches
  <2>2. k \in HeldOf(U, c)
    BY DEF HeldOf
  <2>3. PICK x \in Cache : x = h.cache[c]
    BY <2>1
  <2>4. PICK u \in Nat, n \in Nat : u = x.unmanaged /\ n = x.allocated_objects
    BY DEF Cache
  <2>5. HeldOf(U, c) \subseteq 1 .. u - 1 /\ Cardinality(HeldOf(U, c)) = n
    BY <2>1, <2>3, <2>4 DEF CacheAccounted
  <2>6. IsFiniteSet(HeldOf(U, c))
    <3>1. IsFiniteSet(1 .. u - 1)
      BY FS_Interval
    <3> QED
      BY <2>5, <3>1, FS_Subset
  <2>7. n # 0
    BY <2>2, <2>5, <2>6, FS_EmptySet
  <2> QED
    BY <2>3, <2>4, <2>7
<1>4. r.end = "return"
  OBVIOUS
<1>5. freed.end = "return"
  <2> HIDE DEF r, freed, last
  <2> QED
    BY <1>1, <1>4
<1>6. m \in Heap /\ Gives(h, m, c, k)
  BY <1>2, <1>3, <1>5, CacheFree
<1>7. Good(m, U \ {p}) /\ c \in CachesOf(m, s)
  BY <1>6, GiveGood
<1> HIDE DEF freed
<1>8. CASE left.allocated_objects > 0 \/ left.root_cache
  BY <1>1, <1>7, <1>8
<1>9. CASE ~(left.allocated_objects > 0 \/ left.root_cache)
  <2>1. r = last
    BY <1>1, <1>5, <1>9
  <2>2. HeapOK(m) /\ left.allocated_objects = 0
    <3>1. HeapOK(m) /\ c \in Blocks
      BY <1>7 DEF Good, CachesOf, Caches
    <3>2. left \in Cache
      BY <3>1, CachesBySlab
    <3>3. left.allocated_objects \in Nat
      BY <3>2 DEF Cache
    <3> QED
      BY <1>9, <3>1, <3>3
  <2>3. gone.end = "return"
    <3> HIDE DEF gone, r
    <3>1. last.end = gone.end
      OBVIOUS
    <3> QED
      BY <1>4, <2>1, <3>1
  <2> HIDE DEF m
  <2>4. PICK g \in Heap :
          /\ gone = Ends("return", g, Null)
          /\ OthersSame(m, g, c) /\ KeepsFirstFree(m.alloc, g.alloc) /\ g.cache[c] = NoCache
    BY <1>7, <2>2, <2>3, CacheDestroy
  <2> HIDE DEF gone
  <2>5. gone.heap = g
    BY <2>4, EndsParts
  <2> DEFINE a == [g.alloc EXCEPT ![s].first_free_cache = v]
             e == [g EXCEPT !.alloc = a]
  <2>6. v \in Link /\ g.alloc \in AllocMap
    BY <2>5, HeapParts DEF Link, AllocMap, SlabAlloc
  <2>7. v = IF m.alloc[s].first_free_cache = c THEN Null ELSE m.alloc[s].first_free_cache
    BY <2>4, <2>5 DEF KeepsFirstFree
  <2> HIDE DEF v
  <2>8. last.heap = e
    BY <2>4 DEF Ends
  <2>9. a \in AllocMap /\ SetsFirstFree(g.alloc, a, s, v)
    BY <2>6, SetField, Zenon
  <2> HIDE DEF a
  <2>10. e \in Heap /\ e.cache = g.cache /\ e.alloc = a /\ e.large = g.large
    BY <2>9 DEF Heap
  <2> HIDE DEF e, last
  <2>11. OthersSame(m, e, c) /\ e.cache[c] = NoCache
    BY <2>4, <2>10 DEF OthersSame
  <2>12. SetsFirstFree(m.alloc, e.alloc, s, v)
    BY <2>4, <2>9, <2>10 DEF SetsFirstFree, KeepsFirstFree
  <2>13. Good(e, U \ {p})
    BY <1>7, <2>2, <2>7, <2>10, <2>11, <2>12, DropGood
  <2> QED
    BY <2>1, <2>8, <2>13 DEF r
<1> QED
  BY <1>8, <1>9

\* penguin_free, when it returns, has taken the pointer back.
LEMMA FreeGood ==
  ASSUME NEW h, NEW U, Good(h, U), NEW p \in U, penguin_free(h, p).end = "return"
  PROVE  Good(penguin_free(h, p).heap, U \ {p})
<1>1. p \in Pointer /\ p # Null /\ OwnerOf(h, p)
  BY IndexApart DEF Good
<1>2. CASE p.index = BUDDY_INDEX
  <2> DEFINE b == p.address[1]
             large == h.large \ {b}
             g == [h EXCEPT !.large = large]
  <2>1. penguin_free(h, p) = Ends("return", g, Null)
    BY <1>1, <1>2 DEF penguin_free
  <2>2. b \in h.large /\ p.address[2] = 0 /\ p.address = <<b, 0>>
    BY <1>1, <1>2, AddressType DEF OwnerOf
  <2>3. PICK V \in SUBSET Pointer : V = U \ {p}
    BY DEF Good
  <2>4. Distinct(V)
    BY <2>3 DEF Good, Distinct
  <2>5. ASSUME NEW c \in Caches(h) PROVE HeldOf(V, c) = HeldOf(U, c)
    <3>1. p.address[1] # c
      BY <2>2 DEF Good, HeapOK
    <3> QED
      BY <2>3, <3>1 DEF HeldOf
  <2>6. ASSUME NEW q \in V
        PROVE  (\/ q \in U /\ q.index # BUDDY_INDEX
                \/ q.index = BUDDY_INDEX /\ q.address[2] = 0 /\ q.address[1] \in large)
    <3>1. q \in U /\ q # p /\ OwnerOf(h, q) /\ q.address # p.address
      BY <2>3 DEF Good, Distinct
    <3>2. CASE q.index = BUDDY_INDEX
      <4>1. q.address[2] = 0 /\ q.address[1] \in h.large
        BY <3>1, <3>2 DEF OwnerOf
      <4>2. q.address = <<q.address[1], 0>>
        BY <4>1, AddressType
      <4> HIDE DEF b
      <4>3. q.address[1] # b
        BY <2>2, <3>1, <4>2
      <4> QED
        BY <3>1, <3>2, <4>1, <4>3
    <3> QED
      BY <3>1, <3>2
  <2>7. large \in LargeSets /\ large \cap Caches(h) = {}
    BY HeapParts DEF Good, HeapOK, LargeSets
  <2> HIDE DEF large
  <2>8. \A c \in Caches(h) : HeldOf(V, c) = HeldOf(U, c)
    BY <2>5
  <2>9. \A q \in V : (\/ q \in U /\ q.index # BUDDY_INDEX
                      \/ /\ q.index = BUDDY_INDEX /\ q.address[2] = 0
                         /\ q.address[1] \in large)
    BY <2>6
  <2>10. Good([h EXCEPT !.large = large], V)
    BY <2>4, <2>7, <2>8, <2>9, LargeGood, Zenon
  <2> HIDE DEF g
  <2>11. penguin_free(h, p).heap = g
    BY <2>1, EndsParts
  <2> QED
    BY <2>3, <2>10, <2>11 DEF g
<1>3. CASE p.index # BUDDY_INDEX
  <2>1. p.index \in Slabs
    BY <1>1, <1>3 DEF OwnerOf
  <2>2. penguin_free(h, p) = slab_free(h, p.index, p.address)
    BY <1>1, <1>3 DEF penguin_free
  <2> QED
    BY <2>1, <2>2, SlabFreeGood
<1> QED
  BY <1>2, <1>3

\* Before init_allocator there is no cache.
LEMMA NoHeapOK ==
  /\ HeapOK(NoHeap) /\ Caches(NoHeap) = {} /\ NoHeap.large = {}
  /\ \A b \in Blocks : NoHeap.cache[b] = NoCache
  /\ \A s \in Slabs : NoHeap.alloc[s] = NoSlab /\ [NoHeap EXCEPT !.alloc[s] = NoSlab] = NoHeap
<1> DEFINE a == [s \in Slabs |-> NoSlab]
           f == [b \in Blocks |-> NoCache]
<1>1. NoCache \in Cache /\ NoSlab \in SlabAlloc /\ NoCache.slab = Null
  BY DEF NoCache, Cache, NoSlab, SlabAlloc, Link
<1>2. a \in AllocMap /\ f \in CacheMap /\ {} \in LargeSets
  BY <1>1 DEF AllocMap, CacheMap, LargeSets
<1>3. (\A s \in Slabs : a[s] = NoSlab) /\ (\A b \in Blocks : f[b] = NoCache)
  OBVIOUS
<1>4. ASSUME NEW s \in Slabs PROVE [a EXCEPT ![s] = NoSlab] = a
  OBVIOUS
<1> HIDE DEF a, f
<1>5. NoHeap = [alloc |-> a, cache |-> f, large |-> {}]
  BY DEF NoHeap, a, f
<1>6. NoHeap \in Heap /\ NoHeap.alloc = a /\ NoHeap.cache = f /\ NoHeap.large = {}
  BY <1>2, <1>5 DEF Heap
<1>7. ASSUME NEW s \in Slabs PROVE [NoHeap EXCEPT !.alloc[s] = NoSlab] = NoHeap
  <2>1. [NoHeap EXCEPT !.alloc[s] = NoSlab] = [NoHeap EXCEPT !.alloc = [a EXCEPT ![s] = NoSlab]]
    BY <1>6
  <2>2. [NoHeap EXCEPT !.alloc = a] = NoHeap
    BY <1>5
  <2> QED
    BY <1>4, <2>1, <2>2
<1>8. Caches(NoHeap) = {}
  BY <1>3, <1>6 DEF Caches
<1> QED
  BY <1>3, <1>6, <1>7, <1>8 DEF HeapOK

\* penguin_malloc_init leaves each slab one cache, and the program no pointer.
LEMMA InitGood ==
  ASSUME NEW root \in [Slabs -> Blocks], \A i, j \in Slabs : root[i] = root[j] => i = j
  PROVE  Good(penguin_malloc_init(NoHeap, root), {})
<1> DEFINE By(s) == slab_init(NoHeap, s, root[s])
           a == [s \in Slabs |-> By(s).alloc[s]]
           f == [b \in Blocks |-> IF \E s \in Slabs : root[s] = b
                                  THEN By(CHOOSE s \in Slabs : root[s] = b).cache[b]
                                  ELSE NoHeap.cache[b]]
           g == [NoHeap EXCEPT !.alloc = a, !.cache = f]
<1>1. penguin_malloc_init(NoHeap, root) = g
  BY DEF penguin_malloc_init
<1>2. RootObjects \in Nat \ {0} /\ Null \notin Slabs /\ NoCache.slab = Null
  BY SlabAssumption DEF NoCache
<1>3. ASSUME NEW s \in Slabs
      PROVE  /\ By(s) \in Heap /\ Fresh(By(s).cache[root[s]], s, RootObjects)
             /\ SetsFirstFree(NoHeap.alloc, By(s).alloc, s, root[s])
  <2>1. By(s) = slab_cache_init(NoHeap, s, root[s], RootObjects)
    BY NoHeapOK DEF slab_init
  <2>2. NoHeap.alloc[s].first_free_cache = Null /\ NoHeap.alloc[s].last_cache = Null
    BY NoHeapOK DEF NoSlab
  <2> HIDE DEF By
  <2>3. root[s] \in Blocks
    OBVIOUS
  <2> QED
    BY <1>2, <2>1, <2>2, <2>3, NoHeapOK, CacheInit
<1> HIDE DEF By
<1>4. ASSUME NEW s \in Slabs
      PROVE  By(s).alloc[s] \in SlabAlloc /\ By(s).alloc[s].first_free_cache = root[s]
             /\ By(s).cache[root[s]] \in Cache
  <2>1. By(s).alloc \in AllocMap /\ By(s).cache \in CacheMap
    BY <1>3, HeapParts
  <2> QED
    BY <1>3, <2>1 DEF AllocMap, CacheMap, SetsFirstFree
<1>5. a \in AllocMap /\ \A s \in Slabs : a[s].first_free_cache = root[s]
  BY <1>4 DEF AllocMap
<1>6. ASSUME NEW s \in Slabs PROVE f[root[s]] = By(s).cache[root[s]]
  <2>1. (CHOOSE i \in Slabs : root[i] = root[s]) = s
    OBVIOUS
  <2>2. root[s] \in Blocks
    OBVIOUS
  <2> QED
    BY <2>1, <2>2
<1>7. ASSUME NEW b \in Blocks, \A s \in Slabs : root[s] # b PROVE f[b] = NoCache
  BY <1>7, NoHeapOK
<1>8. f \in CacheMap
  <2>1. NoCache \in Cache
    BY DEF NoCache, Cache, Link
  <2>2. ASSUME NEW b \in Blocks PROVE f[b] \in Cache
    BY <1>4, <1>6, <1>7, <2>1
  <2> QED
    BY <2>2 DEF CacheMap
<1> HIDE DEF a, f
<1>9. g \in Heap /\ g.alloc = a /\ g.cache = f /\ g.large = {}
  BY <1>5, <1>8, NoHeapOK DEF HeapOK, Heap, LargeSets
<1> HIDE DEF g
<1>10. \A s \in Slabs : Fresh(g.cache[root[s]], s, RootObjects) /\ g.cache[root[s]].slab # Null
  BY <1>2, <1>3, <1>6, <1>9 DEF Fresh
<1>11. \A b \in Blocks : g.cache[b].slab = Null => g.cache[b] = NoCache
  BY <1>7, <1>9, <1>10
<1>12. HeapOK(g)
  BY <1>9, <1>11 DEF HeapOK
<1>13. \A c \in Caches(g) : \E s \in Slabs : root[s] = c
  BY <1>7, <1>9 DEF Caches
<1>14. ASSUME NEW s \in Slabs PROVE HasRoom(g, s)
  <2>1. g.alloc[s].first_free_cache = root[s] /\ root[s] \in Blocks
    BY <1>5, <1>9
  <2>2. root[s] \in CachesOf(g, s)
    BY <1>10, <1>12, <2>1, CachesBySlab DEF Fresh
  <2>3. ~Full(g, root[s])
    BY <1>2, <1>10 DEF Fresh, Full
  <2> QED
    BY <2>1, <2>2, <2>3 DEF HasRoom
<1>15. Accounted(g, {})
  <2>1. ASSUME NEW s \in Slabs PROVE CacheAccounted(g.cache[root[s]], {})
    <3>1. Listed(<<>>) = {} /\ NoRepeat(<<>>) /\ Cardinality({}) = 0
      BY FS_EmptySet DEF Listed, NoRepeat
    <3>2. 1 .. 1 - 1 = {}
      OBVIOUS
    <3>3. Fresh(g.cache[root[s]], s, RootObjects)
      BY <1>10
    <3> QED
      BY <1>2, <3>1, <3>2, <3>3 DEF CacheAccounted, Fresh
  <2>2. \A c : HeldOf({}, c) = {}
    BY DEF HeldOf
  <2> QED
    BY <1>13, <2>1, <2>2 DEF Accounted
<1> QED
  BY <1>1, <1>12, <1>14, <1>15 DEF Good, Distinct

(***************************************************************************)
(* The threads                                                             *)
(***************************************************************************)
Inside == {"malloc", "free", "new_unlock", "delete_unlock", "loop", "undefined"}
Labels == {"idle", "init", "new_lock"} \cup Inside

\* Where a thread is says what its call is about.
CallInv ==
  /\ pc \in [Threads -> Labels] /\ DOMAIN arg = Threads
  /\ \A t \in Threads : pc[t] \in {"init", "new_lock", "malloc"} => arg[t] \in Sizes
  /\ \A t \in Threads : pc[t] \in {"new_unlock", "free"} => arg[t] \in Pointer \cup {Null}
  /\ \A t \in Threads : pc[t] = "free" => arg[t] \notin ptrs

\* One thread runs init_allocator. Until it is done there is nothing in the
\* heap, and a thread may only delete nullptr.
OnceInv ==
  /\ g_init_once \in {"no", "running", "done"}
  /\ \A t \in Threads : pc[t] = "init" => g_init_once = "running"
  /\ \A t, u \in Threads : pc[t] = "init" /\ pc[u] = "init" => t = u
  /\ g_init_once # "done" =>
       /\ heap = NoHeap /\ ptrs = {}
       /\ \A t \in Threads : pc[t] \in {"idle", "init", "free", "delete_unlock"}
       /\ \A t \in Threads : pc[t] = "free" => arg[t] = Null

\* The heap is good for the pointers in use.
HeapInv == ~Stuck /\ g_init_once = "done" => Good(heap, InUse)

\* The inductive invariant.
MallocInv == CallInv /\ OnceInv /\ OneInside /\ HeapInv

\* How a call may end.
How == {"return", "loop", "undefined"}

\* slab_cache_alloc returns, loops or is undefined.
LEMMA AllocEnds ==
  ASSUME NEW h, NEW s, NEW c
  PROVE  slab_cache_alloc(h, s, c).end \in How
<1>1. ASSUME NEW g PROVE TakeObject(g, c).end \in How
  BY EndsParts DEF TakeObject, How
<1>2. ASSUME NEW links, NEW r, r.end \in How PROVE IfValid(h, s, links, r).end \in How
  BY <1>2, EndsParts DEF IfValid, How
<1> DEFINE one   == [h EXCEPT !.cache[c].allocated_objects = @ + 1]
           p     == one.cache[c].prev_cache
           moved == IF p # Null /\ one.cache[p].allocated_objects < one.cache[c].allocated_objects
                    THEN slab_cache_move_up(one, s, c) ELSE one
           free  == FirstFree(moved, s)
           w == [moved EXCEPT !.alloc[s].first_free_cache = free]
           r == IF free # Null /\ Full(moved, free) THEN Ends("loop", h, Null) ELSE TakeObject(w, c)
<1>3. slab_cache_alloc(h, s, c) = IF Full(h, c) THEN Ends("return", h, Null)
                                  ELSE IfValid(h, s, {p, free}, r)
  BY DEF slab_cache_alloc
<1> HIDE DEF p, moved, free, w
<1>4. r.end \in How
  BY <1>1, EndsParts DEF How
<1> HIDE DEF r
<1>5. IfValid(h, s, {p, free}, r).end \in How
  BY <1>2, <1>4
<1> QED
  BY <1>3, <1>5, EndsParts DEF How

\* So does penguin_malloc.
LEMMA MallocEnds ==
  ASSUME NEW h, NEW size, NEW r \in penguin_malloc(h, size)
  PROVE  r.end \in How
<1>1. ASSUME NEW whole, NEW b PROVE FromBuddy(h, whole, b).end \in How
  BY EndsParts DEF FromBuddy, How
<1>2. ASSUME NEW s, NEW b PROVE slab_alloc(h, s, b).end \in How
  <2> DEFINE f == h.alloc[s].first_free_cache
             more == slab_cache_init(h, s, b, CacheObjects)
             m == more.alloc[s].first_free_cache
  <2>1. slab_alloc(h, s, b) \in {slab_cache_alloc(h, s, f), Ends("return", h, Null),
                                 IfValid(h, s, {h.alloc[s].last_cache} \ {b},
                                         slab_cache_alloc(more, s, m))}
    BY DEF slab_alloc
  <2> HIDE DEF f, more, m
  <2>2. IfValid(h, s, {h.alloc[s].last_cache} \ {b}, slab_cache_alloc(more, s, m)).end \in How
    BY AllocEnds, EndsParts DEF IfValid, How
  <2> QED
    BY <2>1, <2>2, AllocEnds, EndsParts DEF How
<1>3. ASSUME NEW s, NEW q \in FromSlab(h, s) PROVE q.end \in How
  <2>1. PICK b : LET a == slab_alloc(h, s, b)
                 IN  q = IF a.ptr = Null THEN a ELSE [a EXCEPT !.ptr = Ptr(a.ptr, s)]
    BY DEF FromSlab
  <2>2. PICK a : a = slab_alloc(h, s, b)
    OBVIOUS
  <2>3. q.end = a.end
    BY <2>1, <2>2
  <2> QED
    BY <1>2, <2>2, <2>3
<1> DEFINE whole == with_header(size)
           index == best_fit_slab_index(whole)
<1>4. \/ r \in FromSlab(h, index)
      \/ \E b \in buddy_alloc(h) : r = FromBuddy(h, whole, b)
  BY DEF penguin_malloc
<1> HIDE DEF index, whole
<1> QED
  BY <1>1, <1>3, <1>4

\* So does penguin_free.
LEMMA FreeEnds ==
  ASSUME NEW h, NEW p
  PROVE  penguin_free(h, p).end \in How
<1>1. ASSUME NEW g, NEW s, NEW links, NEW r, r.end \in How PROVE IfValid(g, s, links, r).end \in How
  BY <1>1, EndsParts DEF IfValid, How
<1>2. ASSUME NEW s, NEW c, NEW k PROVE slab_cache_free(h, s, c, k).end \in How
  <2>1. PICK links, g : slab_cache_free(h, s, c, k) = IfValid(h, s, links, Ends("return", g, Null))
    BY DEF slab_cache_free
  <2>2. Ends("return", g, Null).end \in How
    BY EndsParts DEF How
  <2> QED
    BY <1>1, <2>1, <2>2
<1>3. ASSUME NEW g, NEW s, NEW c PROVE slab_cache_destroy(g, s, c).end \in How
  <2>1. PICK links, e : slab_cache_destroy(g, s, c) = IfValid(g, s, links, Ends("return", e, Null))
    BY DEF slab_cache_destroy
  <2>2. Ends("return", e, Null).end \in How
    BY EndsParts DEF How
  <2> QED
    BY <1>1, <2>1, <2>2
<1>4. ASSUME NEW s, NEW ptr PROVE slab_free(h, s, ptr).end \in How
  <2> DEFINE freed == slab_cache_free(h, s, ptr[1], ptr[2])
             gone == slab_cache_destroy(freed.heap, s, ptr[1])
             v == IF gone.heap.alloc[s].first_free_cache = ptr[1] THEN Null
                  ELSE gone.heap.alloc[s].first_free_cache
             last == [gone EXCEPT !.heap.alloc[s].first_free_cache = v]
  <2>1. slab_free(h, s, ptr) = freed \/ slab_free(h, s, ptr) = last
    BY DEF slab_free
  <2>2. freed.end \in How /\ gone.end \in How
    BY <1>2, <1>3
  <2> HIDE DEF freed, gone, v
  <2>3. last.end = gone.end
    OBVIOUS
  <2> HIDE DEF last
  <2> QED
    BY <2>1, <2>2, <2>3
<1>5. Ends("return", h, Null).end \in How
  BY EndsParts DEF How
<1>6. CASE p # Null /\ p.index = BUDDY_INDEX
  <2>1. PICK g : penguin_free(h, p) = Ends("return", g, Null)
    BY <1>6 DEF penguin_free
  <2> QED
    BY <2>1, EndsParts DEF How
<1>7. CASE p = Null
  BY <1>5, <1>7 DEF penguin_free
<1>8. CASE p # Null /\ p.index # BUDDY_INDEX
  BY <1>4, <1>8 DEF penguin_free
<1> QED
  BY <1>6, <1>7, <1>8

\* A thread goes to a label.
LEMMA Moves ==
  ASSUME CallInv, NEW t \in Threads, NEW label \in Labels, Goto(t, label)
  PROVE  /\ pc' \in [Threads -> Labels] /\ pc'[t] = label
         /\ \A u \in Threads : u # t => pc'[u] = pc[u]
  BY DEF CallInv, Goto

\* The pointers in use.
LEMMA InUseIs ==
  \A x : x \in InUse <=> \/ x \in ptrs
                         \/ \E u \in Threads : /\ pc[u] \in {"new_unlock", "free"}
                                               /\ arg[u] # Null /\ x = arg[u]
  BY DEF InUse

\* A thread that is inside is alone there, and no thread is stuck.
LEMMA Alone ==
  ASSUME OneInside, NEW t \in Threads, pc[t] \in Inside
  PROVE  /\ \A u \in Threads : u # t => pc[u] \notin Inside
         /\ pc[t] \notin {"loop", "undefined"} => ~Stuck
  BY DEF OneInside, Inside, Stuck

\* What keeps the heap and the pointers in use keeps HeapInv.
LEMMA HeapKept ==
  ASSUME HeapInv, heap' = heap, InUse' = InUse, Stuck' = Stuck, g_init_once' = g_init_once
  PROVE  HeapInv'
  BY DEF HeapInv

\* operator new starts.
LEMMA NewStep ==
  ASSUME MallocInv, NEW t \in Threads, NEW size \in Sizes, New(t, size)
  PROVE  MallocInv'
<1> DEFINE label == IF g_init_once = "no" THEN "init" ELSE "new_lock"
<1>1. /\ pc[t] = "idle" /\ Goto(t, label) /\ label \in Labels
      /\ arg' = [arg EXCEPT ![t] = size] /\ g_init_once # "running"
      /\ g_init_once' = IF g_init_once = "no" THEN "running" ELSE "done"
      /\ heap' = heap /\ ptrs' = ptrs /\ g_mutex' = g_mutex
  BY DEF New, pthread_once, Labels
<1>2. CallInv /\ OnceInv /\ OneInside /\ HeapInv
  BY DEF MallocInv
<1>3. /\ pc' \in [Threads -> Labels] /\ pc'[t] = label
      /\ \A u \in Threads : u # t => pc'[u] = pc[u]
  BY <1>1, <1>2, Moves
<1>4. /\ DOMAIN arg' = Threads /\ arg'[t] = size
      /\ \A u \in Threads : u # t => arg'[u] = arg[u]
  BY <1>1, <1>2 DEF CallInv
<1>5. CallInv'
  BY <1>1, <1>2, <1>3, <1>4 DEF CallInv
<1>6. OnceInv'
  BY <1>1, <1>2, <1>3, <1>4 DEF OnceInv
<1>7. OneInside'
  BY <1>1, <1>2, <1>3 DEF OneInside, OnceInv
<1>8. HeapInv'
  <2>1. CASE g_init_once = "no"
    BY <1>1, <2>1 DEF HeapInv
  <2>2. CASE g_init_once = "done"
    <3>1. Stuck' = Stuck
      BY <1>1, <1>3 DEF Stuck
    <3>2. InUse' = InUse
      BY <1>1, <1>3, <1>4 DEF InUse
    <3> QED
      BY <1>1, <1>2, <2>2, <3>1, <3>2, HeapKept
  <2> QED
    BY <1>1, <1>2, <2>1, <2>2 DEF OnceInv
<1> QED
  BY <1>5, <1>6, <1>7, <1>8 DEF MallocInv

\* The first thread sets the allocator up.
LEMMA InitStep ==
  ASSUME MallocInv, NEW t \in Threads, init_allocator(t)
  PROVE  MallocInv'
<1>1. /\ pc[t] = "init" /\ Goto(t, "new_lock") /\ "new_lock" \in Labels
      /\ arg' = arg /\ g_init_once' = "done" /\ ptrs' = ptrs /\ g_mutex' = g_mutex
  BY DEF init_allocator, Labels
<1>2. CallInv /\ OnceInv /\ OneInside /\ HeapInv
  BY DEF MallocInv
<1>3. /\ pc' \in [Threads -> Labels] /\ pc'[t] = "new_lock"
      /\ \A u \in Threads : u # t => pc'[u] = pc[u]
  BY <1>1, <1>2, Moves
<1>4. /\ g_init_once = "running" /\ heap = NoHeap /\ ptrs = {}
      /\ \A u \in Threads : pc[u] \in {"idle", "init", "free", "delete_unlock"}
      /\ \A u \in Threads : pc[u] = "free" => arg[u] = Null
      /\ \A u \in Threads : pc[u] = "init" => u = t
  BY <1>1, <1>2 DEF OnceInv
<1>5. CallInv'
  BY <1>1, <1>2, <1>3 DEF CallInv
<1>6. OnceInv'
  BY <1>1, <1>3, <1>4 DEF OnceInv
<1>7. OneInside'
  BY <1>1, <1>2, <1>3, <1>4 DEF OneInside
<1>8. HeapInv'
  <2>1. Good(heap', {})
    <3>1. PICK root \in [Slabs -> Blocks] :
            /\ \A i, j \in Slabs : root[i] = root[j] => i = j
            /\ heap' = penguin_malloc_init(heap, root)
      BY DEF init_allocator
    <3> QED
      BY <1>4, <3>1, InitGood
  <2>2. InUse' = {}
    BY <1>1, <1>3, <1>4 DEF InUse
  <2> QED
    BY <2>1, <2>2 DEF HeapInv
<1> QED
  BY <1>5, <1>6, <1>7, <1>8 DEF MallocInv

\* operator new takes the mutex.
LEMMA NewLockStep ==
  ASSUME MallocInv, NEW t \in Threads, NewLock(t)
  PROVE  MallocInv'
<1>1. /\ pc[t] = "new_lock" /\ Goto(t, "malloc") /\ "malloc" \in Labels
      /\ g_mutex = Null /\ g_mutex' = t /\ t # Null
      /\ arg' = arg /\ g_init_once' = g_init_once /\ ptrs' = ptrs /\ heap' = heap
  BY FrontAssumption DEF NewLock, pthread_mutex_lock, Labels, Inside
<1>2. CallInv /\ OnceInv /\ OneInside /\ HeapInv
  BY DEF MallocInv
<1>3. /\ pc' \in [Threads -> Labels] /\ pc'[t] = "malloc"
      /\ \A u \in Threads : u # t => pc'[u] = pc[u]
  BY <1>1, <1>2, Moves
<1>4. g_init_once = "done"
  BY <1>1, <1>2 DEF OneInside
<1>5. CallInv'
  BY <1>1, <1>2, <1>3 DEF CallInv
<1>6. OnceInv'
  BY <1>1, <1>2, <1>3, <1>4 DEF OnceInv
<1>7. OneInside'
  <2>1. \A u \in Threads : u # Null
    BY FrontAssumption
  <2> QED
    BY <1>1, <1>2, <1>3, <1>4, <2>1 DEF OneInside
<1>8. HeapInv'
  <2>1. Stuck' = Stuck
    BY <1>1, <1>3 DEF Stuck
  <2>2. InUse' = InUse
    BY <1>1, <1>3 DEF InUse
  <2> QED
    BY <1>1, <1>2, <2>1, <2>2, HeapKept
<1> QED
  BY <1>5, <1>6, <1>7, <1>8 DEF MallocInv

\* penguin_malloc.
LEMMA MallocStep ==
  ASSUME MallocInv, NEW t \in Threads, Malloc(t)
  PROVE  MallocInv'
<1>1. PICK r \in penguin_malloc(heap, arg[t]) :
        /\ heap' = r.heap /\ arg' = [arg EXCEPT ![t] = r.ptr]
        /\ Goto(t, IF r.end = "return" THEN "new_unlock" ELSE r.end)
  BY DEF Malloc
<1>2. CallInv /\ OnceInv /\ OneInside /\ HeapInv
  BY DEF MallocInv
<1>3. pc[t] = "malloc" /\ ptrs' = ptrs /\ g_init_once' = g_init_once /\ g_mutex' = g_mutex
  BY DEF Malloc
<1> DEFINE label == IF r.end = "return" THEN "new_unlock" ELSE r.end
<1>4. label \in {"new_unlock", "loop", "undefined"} /\ label \in Labels
  BY MallocEnds DEF How, Labels, Inside
<1>5. /\ pc' \in [Threads -> Labels] /\ pc'[t] = label
      /\ \A u \in Threads : u # t => pc'[u] = pc[u]
  BY <1>1, <1>2, <1>4, Moves
<1>14. \/ r.end = "return" /\ pc'[t] = "new_unlock"
       \/ r.end # "return" /\ pc'[t] \in {"loop", "undefined"}
  BY <1>5, MallocEnds DEF How
<1> HIDE DEF label
<1>6. /\ DOMAIN arg' = Threads /\ arg'[t] = r.ptr
      /\ \A u \in Threads : u # t => arg'[u] = arg[u]
  BY <1>1, <1>2 DEF CallInv
<1>7. /\ \A u \in Threads : u # t => pc[u] \notin Inside
      /\ ~Stuck /\ g_init_once = "done"
  BY <1>2, <1>3, Alone DEF Inside, OneInside
<1>8. Good(heap, InUse)
  BY <1>2, <1>7 DEF HeapInv
<1>9. r.end = "return" => \/ r.ptr = Null /\ r.heap = heap
                          \/ r.ptr \in Pointer /\ Good(r.heap, InUse \cup {r.ptr})
  BY <1>7, <1>8, MallocGood
<1>10. CallInv'
  <2>1. \A u \in Threads : pc'[u] \in {"init", "new_lock", "malloc"} => arg'[u] \in Sizes
    BY <1>2, <1>4, <1>5, <1>6 DEF CallInv
  <2>2. \A u \in Threads : pc'[u] \in {"new_unlock", "free"} => arg'[u] \in Pointer \cup {Null}
    BY <1>2, <1>5, <1>6, <1>9, <1>14 DEF CallInv
  <2>3. \A u \in Threads : pc'[u] = "free" => arg'[u] \notin ptrs'
    BY <1>3, <1>4, <1>5, <1>7 DEF Inside
  <2> QED
    BY <1>5, <1>6, <2>1, <2>2, <2>3 DEF CallInv
<1>11. OnceInv'
  BY <1>2, <1>3, <1>4, <1>5, <1>7 DEF OnceInv
<1>12. OneInside'
  BY <1>2, <1>3, <1>4, <1>5, <1>7 DEF OneInside
<1>13. HeapInv'
  <2>1. CASE r.end # "return"
    <3>1. Stuck'
      BY <1>14, <2>1 DEF Stuck
    <3> QED
      BY <3>1 DEF HeapInv
  <2>2. CASE r.end = "return"
    <3>1. pc'[t] = "new_unlock"
      BY <1>14, <2>2
    <3>2. \A x : x \in InUse' <=> x \in InUse \/ (x = r.ptr /\ r.ptr # Null)
      <4>1. \A x : x \in InUse <=> x \in ptrs
        BY <1>3, <1>7, InUseIs DEF Inside
      <4>2. \A x : x \in InUse' <=> x \in ptrs' \/ (x = arg'[t] /\ arg'[t] # Null)
        <5>1. \A u \in Threads : pc'[u] \in {"new_unlock", "free"} <=> u = t
          BY <1>5, <1>7, <3>1 DEF Inside
        <5> QED
          BY <5>1 DEF InUse
      <4> QED
        BY <1>3, <1>6, <4>1, <4>2
    <3>3. CASE r.ptr = Null /\ r.heap = heap
      <4>1. InUse' = InUse
        BY <3>2, <3>3
      <4> QED
        BY <1>1, <1>8, <3>3, <4>1 DEF HeapInv
    <3>4. CASE r.ptr \in Pointer /\ Good(r.heap, InUse \cup {r.ptr})
      <4>1. InUse' = InUse \cup {r.ptr}
        BY <3>2, <3>4, IndexApart
      <4> QED
        BY <1>1, <3>4, <4>1 DEF HeapInv
    <3> QED
      BY <1>9, <2>2, <3>3, <3>4
  <2> QED
    BY <2>1, <2>2
<1> QED
  BY <1>10, <1>11, <1>12, <1>13 DEF MallocInv

\* operator new unlocks and returns, or throws.
LEMMA NewReturnStep ==
  ASSUME MallocInv, NEW t \in Threads, NewReturn(t)
  PROVE  MallocInv'
<1>1. /\ pc[t] = "new_unlock" /\ Goto(t, "idle") /\ "idle" \in Labels /\ g_mutex' = Null
      /\ arg' = [arg EXCEPT ![t] = Null] /\ ptrs' = ptrs \cup ({arg[t]} \ {Null})
      /\ g_init_once' = g_init_once /\ heap' = heap
  BY DEF NewReturn, Labels
<1>2. CallInv /\ OnceInv /\ OneInside /\ HeapInv
  BY DEF MallocInv
<1>3. /\ pc' \in [Threads -> Labels] /\ pc'[t] = "idle"
      /\ \A u \in Threads : u # t => pc'[u] = pc[u]
  BY <1>1, <1>2, Moves
<1>4. /\ DOMAIN arg' = Threads /\ arg'[t] = Null
      /\ \A u \in Threads : u # t => arg'[u] = arg[u]
  BY <1>1, <1>2 DEF CallInv
<1>5. (\A u \in Threads : u # t => pc[u] \notin Inside) /\ g_init_once = "done"
  BY <1>1, <1>2, Alone DEF Inside, OnceInv
<1>6. CallInv'
  <2>1. \A u \in Threads : pc'[u] = "free" => arg'[u] \notin ptrs'
    BY <1>3, <1>5 DEF Inside
  <2> QED
    BY <1>2, <1>3, <1>4, <2>1 DEF CallInv
<1>7. OnceInv'
  BY <1>1, <1>2, <1>3, <1>5 DEF OnceInv
<1>8. OneInside'
  <2>1. \A u \in Threads : u # Null /\ (u # t => pc'[u] \notin Inside)
    BY <1>3, <1>5, FrontAssumption
  <2> QED
    BY <1>1, <1>2, <1>3, <2>1 DEF OneInside, Inside
<1>9. HeapInv'
  <2>1. Stuck' = Stuck
    BY <1>1, <1>3 DEF Stuck
  <2>2. InUse' = InUse
    <3>1. \A x : x \in InUse <=> x \in ptrs \/ (x = arg[t] /\ arg[t] # Null)
      BY <1>1, <1>5, InUseIs DEF Inside
    <3>2. \A x : x \in InUse' <=> x \in ptrs'
      <4>1. \A u \in Threads : pc'[u] \notin {"new_unlock", "free"}
        BY <1>3, <1>5 DEF Inside
      <4> QED
        BY <4>1 DEF InUse
    <3> QED
      BY <1>1, <3>1, <3>2
  <2> QED
    BY <1>1, <1>2, <2>1, <2>2, HeapKept
<1> QED
  BY <1>6, <1>7, <1>8, <1>9 DEF MallocInv

\* operator delete takes the mutex.
LEMMA DeleteStep ==
  ASSUME MallocInv, NEW t \in Threads, NEW ptr \in ptrs \cup {Null}, Delete(t, ptr)
  PROVE  MallocInv'
<1>1. /\ pc[t] = "idle" /\ Goto(t, "free") /\ "free" \in Labels
      /\ g_mutex = Null /\ g_mutex' = t
      /\ arg' = [arg EXCEPT ![t] = ptr] /\ ptrs' = ptrs \ {ptr}
      /\ g_init_once' = g_init_once /\ heap' = heap
  BY DEF Delete, pthread_mutex_lock, Labels, Inside
<1>2. CallInv /\ OnceInv /\ OneInside /\ HeapInv
  BY DEF MallocInv
<1>3. /\ pc' \in [Threads -> Labels] /\ pc'[t] = "free"
      /\ \A u \in Threads : u # t => pc'[u] = pc[u]
  BY <1>1, <1>2, Moves
<1>4. /\ DOMAIN arg' = Threads /\ arg'[t] = ptr
      /\ \A u \in Threads : u # t => arg'[u] = arg[u]
  BY <1>1, <1>2 DEF CallInv
<1>5. \A u \in Threads : u # Null /\ pc[u] \notin Inside
  BY <1>1, <1>2, FrontAssumption DEF OneInside, Inside
<1>6. ~Stuck /\ ~Stuck'
  BY <1>3, <1>5 DEF Stuck, Inside
<1>7. \A x : x \in InUse <=> x \in ptrs
  BY <1>5, InUseIs DEF Inside
<1>8. ptr # Null => ptr \in Pointer
  <2>1. g_init_once = "done" => Good(heap, InUse)
    BY <1>2, <1>6 DEF HeapInv
  <2>2. g_init_once # "done" => ptrs = {}
    BY <1>2 DEF OnceInv
  <2> QED
    BY <1>7, <2>1, <2>2 DEF Good
<1>9. CallInv'
  <2>1. Null \notin ptrs
    <3>1. g_init_once = "done" => Good(heap, InUse)
      BY <1>2, <1>6 DEF HeapInv
    <3>2. g_init_once # "done" => ptrs = {}
      BY <1>2 DEF OnceInv
    <3> QED
      BY <1>7, <3>1, <3>2, IndexApart DEF Good
  <2>2. \A u \in Threads : pc'[u] = "free" => arg'[u] \notin ptrs'
    BY <1>1, <1>3, <1>4, <1>5, <2>1 DEF Inside
  <2> QED
    BY <1>2, <1>3, <1>4, <1>8, <2>2 DEF CallInv
<1>10. OnceInv'
  BY <1>1, <1>2, <1>3, <1>4 DEF OnceInv
<1>11. OneInside'
  BY <1>1, <1>2, <1>3, <1>5 DEF OneInside, Inside
<1>12. HeapInv'
  <2>1. InUse' = InUse
    <3>1. \A u \in Threads : pc'[u] \in {"new_unlock", "free"} <=> u = t
      BY <1>3, <1>5 DEF Inside
    <3>2. \A x : x \in InUse' <=> x \in ptrs' \/ (x = arg'[t] /\ arg'[t] # Null)
      BY <3>1 DEF InUse
    <3>3. Null \notin ptrs \/ g_init_once # "done"
      BY <1>2, <1>6, <1>7, IndexApart DEF HeapInv, Good
    <3>4. g_init_once # "done" => ptrs = {}
      BY <1>2 DEF OnceInv
    <3> QED
      BY <1>1, <1>4, <1>7, <3>2, <3>3, <3>4
  <2> QED
    BY <1>1, <1>2, <1>6, <2>1 DEF HeapInv
<1> QED
  BY <1>9, <1>10, <1>11, <1>12 DEF MallocInv

\* penguin_free.
LEMMA FreeStep ==
  ASSUME MallocInv, NEW t \in Threads, Free(t)
  PROVE  MallocInv'
<1> DEFINE p == arg[t]
<1>1. PICK r : /\ r = penguin_free(heap, p) /\ heap' = r.heap
               /\ Goto(t, IF r.end = "return" THEN "delete_unlock" ELSE r.end)
  BY DEF Free
<1>2. CallInv /\ OnceInv /\ OneInside /\ HeapInv
  BY DEF MallocInv
<1>3. /\ pc[t] = "free" /\ ptrs' = ptrs /\ g_init_once' = g_init_once /\ g_mutex' = g_mutex
      /\ arg' = [arg EXCEPT ![t] = Null]
  BY DEF Free
<1> DEFINE label == IF r.end = "return" THEN "delete_unlock" ELSE r.end
<1>4. label \in {"delete_unlock", "loop", "undefined"} /\ label \in Labels
  BY <1>1, FreeEnds DEF How, Labels, Inside
<1>5. /\ pc' \in [Threads -> Labels] /\ pc'[t] = label
      /\ \A u \in Threads : u # t => pc'[u] = pc[u]
  BY <1>1, <1>2, <1>4, Moves
<1>6. \/ r.end = "return" /\ pc'[t] = "delete_unlock"
      \/ r.end # "return" /\ pc'[t] \in {"loop", "undefined"}
  BY <1>1, <1>5, FreeEnds DEF How
<1> HIDE DEF label
<1>7. /\ DOMAIN arg' = Threads /\ \A u \in Threads : u # t => arg'[u] = arg[u]
  BY <1>2, <1>3 DEF CallInv
<1>8. (\A u \in Threads : u # t => pc[u] \notin Inside) /\ ~Stuck
  BY <1>2, <1>3, Alone DEF Inside
<1>9. p \in Pointer \cup {Null} /\ p \notin ptrs
  BY <1>2, <1>3 DEF CallInv
<1>10. \A u \in Threads : pc'[u] \notin {"new_unlock", "free", "malloc"}
  BY <1>4, <1>5, <1>8 DEF Inside
<1>11. CallInv'
  BY <1>2, <1>4, <1>5, <1>7, <1>10 DEF CallInv
<1>12. p = Null => r.end = "return" /\ r.heap = heap
  BY <1>1, EndsParts DEF penguin_free
<1>13. OnceInv'
  <2>1. g_init_once # "done" => p = Null
    BY <1>2, <1>3 DEF OnceInv
  <2>2. g_init_once # "done" => heap' = heap /\ pc'[t] = "delete_unlock"
    BY <1>1, <1>6, <1>12, <2>1
  <2> QED
    BY <1>2, <1>3, <1>4, <1>5, <1>10, <2>2 DEF OnceInv
<1>14. OneInside'
  BY <1>2, <1>3, <1>4, <1>5, <1>8 DEF OneInside
<1>15. HeapInv'
  <2>1. CASE r.end # "return"
    <3>1. Stuck'
      BY <1>6, <2>1 DEF Stuck
    <3> QED
      BY <3>1 DEF HeapInv
  <2>2. CASE r.end = "return" /\ g_init_once = "done"
    <3>1. Good(heap, InUse)
      BY <1>2, <1>8, <2>2 DEF HeapInv
    <3>2. \A x : x \in InUse <=> x \in ptrs \/ (x = p /\ p # Null)
      BY <1>3, <1>8, InUseIs DEF Inside
    <3>3. \A x : x \in InUse' <=> x \in ptrs'
      BY <1>10 DEF InUse
    <3>4. CASE p = Null
      <4>1. InUse' = InUse /\ heap' = heap
        BY <1>1, <1>3, <1>12, <3>2, <3>3, <3>4
      <4> QED
        BY <3>1, <4>1 DEF HeapInv
    <3>5. CASE p # Null
      <4>1. p \in InUse /\ InUse' = InUse \ {p}
        BY <1>3, <1>9, <3>2, <3>3, <3>5
      <4>2. Good(r.heap, InUse \ {p})
        BY <1>1, <2>2, <3>1, <4>1, FreeGood
      <4> QED
        BY <1>1, <4>1, <4>2 DEF HeapInv
    <3> QED
      BY <3>4, <3>5
  <2>3. CASE g_init_once # "done"
    BY <1>3, <2>3 DEF HeapInv
  <2> QED
    BY <2>1, <2>2, <2>3
<1> QED
  BY <1>11, <1>13, <1>14, <1>15 DEF MallocInv

\* operator delete unlocks and returns.
LEMMA DeleteReturnStep ==
  ASSUME MallocInv, NEW t \in Threads, DeleteReturn(t)
  PROVE  MallocInv'
<1>1. /\ pc[t] = "delete_unlock" /\ Goto(t, "idle") /\ "idle" \in Labels /\ g_mutex' = Null
      /\ arg' = arg /\ ptrs' = ptrs /\ g_init_once' = g_init_once /\ heap' = heap
  BY DEF DeleteReturn, Labels
<1>2. CallInv /\ OnceInv /\ OneInside /\ HeapInv
  BY DEF MallocInv
<1>3. /\ pc' \in [Threads -> Labels] /\ pc'[t] = "idle"
      /\ \A u \in Threads : u # t => pc'[u] = pc[u]
  BY <1>1, <1>2, Moves
<1>4. \A u \in Threads : u # Null /\ (u # t => pc[u] \notin Inside)
  BY <1>1, <1>2, Alone, FrontAssumption DEF Inside
<1>5. CallInv'
  BY <1>1, <1>2, <1>3 DEF CallInv
<1>6. OnceInv'
  BY <1>1, <1>2, <1>3 DEF OnceInv
<1>7. OneInside'
  BY <1>1, <1>2, <1>3, <1>4 DEF OneInside, Inside
<1>8. HeapInv'
  <2>1. Stuck' = Stuck
    BY <1>1, <1>3 DEF Stuck
  <2>2. InUse' = InUse
    BY <1>1, <1>3 DEF InUse
  <2> QED
    BY <1>1, <1>2, <2>1, <2>2, HeapKept
<1> QED
  BY <1>5, <1>6, <1>7, <1>8 DEF MallocInv

\* For any number of threads, slabs, blocks and sizes of caches, every state
\* in which no call hangs or reads freed memory has a good heap.
THEOREM MallocInvariant == Spec => []MallocInv
<1>1. Init => MallocInv
  <2> SUFFICES ASSUME Init PROVE MallocInv
    OBVIOUS
  <2>1. CallInv
    BY DEF Init, CallInv, Labels
  <2>2. OnceInv
    BY DEF Init, OnceInv
  <2>3. OneInside
    BY FrontAssumption DEF Init, OneInside
  <2>4. HeapInv
    BY DEF Init, HeapInv
  <2> QED
    BY <2>1, <2>2, <2>3, <2>4 DEF MallocInv
<1>2. MallocInv /\ [Next]_vars => MallocInv'
  <2> SUFFICES ASSUME MallocInv, [Next]_vars PROVE MallocInv'
    OBVIOUS
  <2>1. ASSUME UNCHANGED vars PROVE MallocInv'
    BY <2>1 DEF vars, MallocInv, CallInv, OnceInv, OneInside, HeapInv, Stuck, InUse
  <2>2. ASSUME NEW t \in Threads, Spin(t) PROVE MallocInv'
    BY <2>1, <2>2 DEF Spin
  <2> QED
    BY <2>1, <2>2, NewStep, InitStep, NewLockStep, MallocStep, NewReturnStep, DeleteStep,
       FreeStep, DeleteReturnStep DEF Next
<1> QED
  BY <1>1, <1>2, PTL DEF Spec

\* One thread at a time is inside the allocator, and only once it is set up.
THEOREM MallocOneInside == Spec => []OneInside
<1>1. MallocInv => OneInside
  BY DEF MallocInv
<1> QED
  BY <1>1, MallocInvariant, PTL

\* Sets in a one-to-one relation have the same number of elements.
LEMMA Counted ==
  ASSUME NEW S, NEW T, IsFiniteSet(S), NEW f \in [S -> T],
         \A x, y \in S : f[x] = f[y] => x = y, \A z \in T : \E x \in S : f[x] = z
  PROVE  IsFiniteSet(T) /\ Cardinality(T) = Cardinality(S)
<1>1. f \in Bijection(S, T)
  BY DEF Bijection, Injection, Surjection, IsInjective
<1>2. ExistsBijection(S, T)
  BY <1>1 DEF ExistsBijection
<1> QED
  BY <1>2, FS_Bijection

\* A list without repetition has as many members as its length.
LEMMA CountListed ==
  ASSUME NEW list \in Seq(Nat), NoRepeat(list)
  PROVE  Cardinality(Listed(list)) = Len(list)
<1>1. PICK n \in Nat : n = Len(list)
  OBVIOUS
<1>2. DOMAIN list = 1 .. n /\ list \in [1 .. n -> Listed(list)]
  BY <1>1 DEF Listed
<1>3. IsFiniteSet(1 .. n) /\ Cardinality(1 .. n) = n
  BY FS_Interval
<1>4. \A i, j \in 1 .. n : list[i] = list[j] => i = j
  BY <1>2 DEF NoRepeat
<1>5. \A z \in Listed(list) : \E i \in 1 .. n : list[i] = z
  BY <1>2 DEF Listed
<1>6. Cardinality(Listed(list)) = Cardinality(1 .. n)
  BY <1>2, <1>3, <1>4, <1>5, Counted
<1> QED
  BY <1>1, <1>3, <1>6

\* Distinct pointers into a cache name distinct objects.
LEMMA CountHeld ==
  ASSUME NEW U \in SUBSET Pointer, Distinct(U), NEW c, IsFiniteSet(HeldOf(U, c))
  PROVE  Cardinality(HeldOf(U, c)) = Cardinality({p \in U : p.address[1] = c})
<1> DEFINE T == {p \in U : p.address[1] = c}
           f == [k \in HeldOf(U, c) |-> CHOOSE p \in T : p.address[2] = k]
<1>1. ASSUME NEW k \in HeldOf(U, c) PROVE f[k] \in T /\ f[k].address[2] = k
  BY DEF HeldOf
<1>2. ASSUME NEW p \in T, NEW q \in T, p.address[2] = q.address[2] PROVE p = q
  <2>1. p.address = <<p.address[1], p.address[2]>> /\ q.address = <<q.address[1], q.address[2]>>
    BY AddressType
  <2> QED
    BY <1>2, <2>1 DEF Distinct
<1>3. ASSUME NEW p \in T PROVE p.address[2] \in HeldOf(U, c) /\ f[p.address[2]] = p
  <2>1. p.address[2] \in HeldOf(U, c)
    BY DEF HeldOf
  <2> QED
    BY <1>1, <1>2, <2>1
<1>4. f \in [HeldOf(U, c) -> T]
  BY <1>1
<1> HIDE DEF f, T
<1>5. \A x, y \in HeldOf(U, c) : f[x] = f[y] => x = y
  BY <1>1
<1>6. \A z \in T : \E x \in HeldOf(U, c) : f[x] = z
  BY <1>3
<1>7. Cardinality(T) = Cardinality(HeldOf(U, c))
  BY <1>4, <1>5, <1>6, Counted
<1> QED
  BY <1>7 DEF T

\* Every object of every cache is in exactly one place, for any number of
\* threads, slabs and blocks: no object is handed out twice, and none is lost.
THEOREM MallocObjectsAccounted == Spec => []ObjectsAccounted
<1>1. ASSUME MallocInv PROVE ObjectsAccounted
  <2> SUFFICES ASSUME ~Stuck, NEW c \in Caches(heap)
               PROVE  LET cache == heap.cache[c]
                          used  == {p \in InUse : p.address[1] = c}
                          held  == {p.address[2] : p \in used}
                          free  == {cache.freelist[i] : i \in DOMAIN cache.freelist}
                      IN  /\ Cardinality(held) = Cardinality(used)
                          /\ Cardinality(free) = Len(cache.freelist)
                          /\ held \cap free = {}
                          /\ held \cup free = 1 .. cache.unmanaged - 1
                          /\ cache.allocated_objects = Cardinality(held)
                          /\ cache.unmanaged - 1 <= cache.max_objects
    BY DEF ObjectsAccounted
  <2>1. Good(heap, InUse)
    <3>1. g_init_once = "done"
      BY <1>1, NoHeapOK DEF MallocInv, OnceInv
    <3> QED
      BY <1>1, <3>1 DEF MallocInv, HeapInv
  <2>2. c \in Blocks /\ heap.cache[c] \in Cache
    BY <2>1, CachesBySlab DEF Good, Caches
  <2>3. PICK x \in Cache : x = heap.cache[c]
    BY <2>2
  <2>4. CacheAccounted(x, HeldOf(InUse, c))
    BY <2>1, <2>3 DEF Good, Accounted
  <2>5. x.freelist \in Seq(Nat) /\ x.unmanaged \in Nat
    BY DEF Cache
  <2>6. Cardinality(Listed(x.freelist)) = Len(x.freelist)
    BY <2>4, <2>5, CountListed DEF CacheAccounted
  <2>7. IsFiniteSet(HeldOf(InUse, c))
    <3>1. PICK u \in Nat : u = x.unmanaged
      BY <2>5
    <3>2. HeldOf(InUse, c) \subseteq 1 .. u - 1 /\ IsFiniteSet(1 .. u - 1)
      BY <2>4, <3>1, FS_Interval DEF CacheAccounted
    <3> QED
      BY <3>2, FS_Subset
  <2>8. Cardinality(HeldOf(InUse, c)) = Cardinality({p \in InUse : p.address[1] = c})
    BY <2>1, <2>7, CountHeld DEF Good
  <2> DEFINE H == HeldOf(InUse, c)
             F == Listed(x.freelist)
  <2>9. /\ Cardinality(H) = Cardinality({p \in InUse : p.address[1] = c})
        /\ Cardinality(F) = Len(x.freelist)
        /\ H \cap F = {} /\ H \cup F = 1 .. x.unmanaged - 1
        /\ x.allocated_objects = Cardinality(H) /\ x.unmanaged - 1 <= x.max_objects
    BY <2>4, <2>6, <2>8 DEF CacheAccounted
  <2> DEFINE used == {p \in InUse : p.address[1] = c}
             held == {p.address[2] : p \in used}
             free == {heap.cache[c].freelist[i] : i \in DOMAIN heap.cache[c].freelist}
  <2>10. held = H
    BY DEF HeldOf
  <2>11. free = F
    BY <2>3 DEF Listed
  <2> HIDE DEF H, F, held, free, used
  <2>12. /\ Cardinality(held) = Cardinality(used)
         /\ Cardinality(free) = Len(heap.cache[c].freelist)
         /\ held \cap free = {}
         /\ held \cup free = 1 .. heap.cache[c].unmanaged - 1
         /\ heap.cache[c].allocated_objects = Cardinality(held)
         /\ heap.cache[c].unmanaged - 1 <= heap.cache[c].max_objects
    BY <2>3, <2>9, <2>10, <2>11 DEF used
  <2> QED
    BY <2>12 DEF held, free, used
<1> QED
  BY <1>1, MallocInvariant, PTL

\* first_free_cache is NULL or a cache of its slab with room.
THEOREM MallocFirstFreeHasRoom == Spec => []FirstFreeHasRoom
<1>1. ASSUME MallocInv PROVE FirstFreeHasRoom
  <2> SUFFICES ASSUME ~Stuck, NEW s \in Slabs, heap.alloc[s].first_free_cache # Null
               PROVE  LET c == heap.alloc[s].first_free_cache
                      IN  c \in Caches(heap) /\ heap.cache[c].slab = s /\ ~Full(heap, c)
    BY DEF FirstFreeHasRoom
  <2>1. g_init_once = "done"
    <3>1. NoHeap.alloc[s].first_free_cache = Null
      BY NoHeapOK DEF NoSlab
    <3> QED
      BY <1>1, <3>1 DEF MallocInv, OnceInv
  <2>2. HasRoom(heap, s)
    BY <1>1, <2>1 DEF MallocInv, HeapInv, Good
  <2> QED
    BY <2>2 DEF HasRoom, CachesOf
<1> QED
  BY <1>1, MallocInvariant, PTL

\* The header of a pointer names the allocator its memory came from, so that
\* penguin_free gives it back to that one.
THEOREM MallocHeaderNamesOwner == Spec => []HeaderNamesOwner
<1>1. ASSUME MallocInv PROVE HeaderNamesOwner
  <2> SUFFICES ASSUME ~Stuck, NEW p \in InUse
               PROVE  p.address[1] \in IF p.index = BUDDY_INDEX THEN heap.large
                                      ELSE CachesOf(heap, p.index)
    BY DEF HeaderNamesOwner
  <2>1. g_init_once = "done"
    <3>1. ASSUME g_init_once # "done" PROVE FALSE
      <4>1. /\ ptrs = {} /\ \A t \in Threads : pc[t] \in {"idle", "init", "free", "delete_unlock"}
            /\ \A t \in Threads : pc[t] = "free" => arg[t] = Null
        BY <1>1, <3>1 DEF MallocInv, OnceInv
      <4> QED
        BY <4>1, InUseIs
    <3> QED
      BY <3>1
  <2>2. OwnerOf(heap, p)
    BY <1>1, <2>1 DEF MallocInv, HeapInv, Good
  <2> QED
    BY <2>2 DEF OwnerOf
<1> QED
  BY <1>1, MallocInvariant, PTL
=============================================================================
