------------------------------- MODULE Buddy -------------------------------
(***************************************************************************)
(* The page-frame allocator of penguin_malloc (buddy.c, buddy_util.c,      *)
(* freelist.c, and pfalloc.c, which guards it against NULL). Addresses are *)
(* page numbers relative to alloc->begin. A block of layer l and index i   *)
(* covers root_block_size / 2^l pages; its bit in the bitmap and the list  *)
(* freelist[l] are what the code knows of it. The calls are serialised by  *)
(* the lock of new.cpp, so a call is one step. Clients do not write to the *)
(* links of free blocks, as long as they own no such block.                *)
(***************************************************************************)
EXTENDS Integers, FiniteSets, FiniteSetsExt

CONSTANTS
  Handles,       \* the allocations that clients hold at the same time
  Requests,      \* the page counts they ask for
  blocks_count,  \* pages between begin and end after buddy_init
  Null

\* Pools whose header leaves fewer than 15 pages are refused by buddy_init.
ASSUME PoolAssumption ==
  /\ blocks_count \in Nat /\ blocks_count >= 15
  /\ Requests \subseteq Nat \ {0}
  /\ Null \notin Nat

(***************************************************************************)
(* util.c and buddy_util.c                                                 *)
(***************************************************************************)
\* 1ull << p, by doubling.
pow2[p \in Nat] == IF p = 0 THEN 1 ELSE 2 * pow2[p - 1]

log2_upper(size) == Min({p \in 0 .. size : pow2[p] >= size})

max_lower_power_of_2(size) == Max({pow2[p] : p \in {q \in 0 .. size : pow2[q] <= size}})

root_block_size == max_lower_power_of_2(blocks_count)
buddy_layers == log2_upper(blocks_count)

Pages == 0 .. root_block_size - 1
Layers == 0 .. buddy_layers - 1

block_size(layer) == root_block_size \div pow2[layer]

best_fit_layer_TooDeep(pages) == log2_upper(root_block_size \div pages + 1)

best_fit_layer(pages) == log2_upper(root_block_size \div pages)

to_pointer(layer, index) == block_size(layer) * index

to_index(layer, ptr) == ptr \div block_size(layer)

mask_index(layer, index) ==
  IF layer < 3 THEN 0 ELSE pow2[layer - 3] + index \div 8

bit_index(layer, index) ==
  IF layer < 3 THEN index + pow2[layer] ELSE index % 8

Bit(layer, index) == 8 * mask_index(layer, index) + bit_index(layer, index)

Sibling(index) == IF index % 2 = 0 THEN index + 1 ELSE index - 1   \* index ^ 1

buddy_bitmap_size == (blocks_count + 7) \div 8

VARIABLES
  bitmap,    \* alloc->bitmap, bit by bit
  freelist,  \* alloc->freelist: the first block of each list
  next,      \* the link stored in the first word of a free block
  live,      \* what each handle holds: pages asked for, pointer, layer
  misfreed,  \* some free released another block than the one allocated
  outside    \* some call used an index outside of alloc->freelist

vars == <<bitmap, freelist, next, live, misfreed, outside>>

NoBlock == [pages |-> 0, ptr |-> Null, layer |-> 0]

(***************************************************************************)
(* buddy_init. memset covers buddy_bitmap_size bytes; the code also uses   *)
(* the bits behind them, whose values are whatever the pool held before.   *)
(* They are memory of their own here. In the code they lie in the slack in *)
(* front of begin, or, for large pools that are not powers of two, in the  *)
(* first pages of the pool, where blocks and bits overwrite each other. So *)
(* the model is exact for pools whose bitmap has a bit for every block.    *)
(***************************************************************************)
Bits == 0 .. pow2[buddy_layers] - 1

buddy_init ==
  /\ \E junk \in SUBSET {b \in Bits : b >= 8 * buddy_bitmap_size} :
       bitmap = [b \in Bits |-> /\ b # Bit(0, 0)
                                /\ b < 8 * buddy_bitmap_size \/ b \in junk]
  /\ freelist = [l \in Layers |-> IF l = 0 THEN 0 ELSE Null]
  /\ next = [p \in Pages |-> Null]
  /\ live = [h \in Handles |-> NoBlock]
  /\ misfreed = FALSE
  /\ outside = FALSE

Init == buddy_init

(***************************************************************************)
(* buddy_alloc: the smallest free block that is large enough is popped and *)
(* split down to the layer wanted. Every split marks the block it splits,  *)
(* clears the bit of its left half, sets the bit of its right half and     *)
(* pushes the right half.                                                  *)
(***************************************************************************)
AllocLayer(pages) ==
  Max({0} \cup {l \in 0 .. best_fit_layer(pages) : freelist[l] # Null})

\* The index, in layer l, of the leftmost part of the block popped from layer.
Left(l, layer, ptr) == to_index(layer, ptr) * pow2[l - layer]

SplitBits_KeepLeft(layer, bf, ptr) ==
  [b \in Bits |->
     \/ \E l \in layer .. bf : b = Bit(l, Left(l, layer, ptr))
     \/ \E l \in layer + 1 .. bf : b = Bit(l, Left(l, layer, ptr) + 1)
     \/ bitmap[b]]

SplitBits(layer, bf, ptr) ==
  [b \in Bits |->
     IF layer < bf /\ b = Bit(bf, Left(bf, layer, ptr)) THEN FALSE
     ELSE \/ \E l \in layer .. bf - 1 : b = Bit(l, Left(l, layer, ptr))
          \/ \E l \in layer + 1 .. bf : b = Bit(l, Left(l, layer, ptr) + 1)
          \/ bitmap[b]]

buddy_alloc_KeepHead(h, pages) ==
  LET bf    == best_fit_layer(pages)
      layer == AllocLayer(pages)
      ptr   == freelist[layer]
      Right(l) == to_pointer(l, Left(l, layer, ptr) + 1)
  IN  /\ ~outside
      /\ live[h] = NoBlock
      /\ bf \in Layers
      /\ ptr # Null
      /\ bitmap' = SplitBits(layer, bf, ptr)
      /\ freelist' = [l \in Layers |-> IF l \in layer + 1 .. bf THEN Right(l)
                                       ELSE freelist[l]]
      /\ next' = [p \in Pages |-> IF \E l \in layer + 1 .. bf : p = Right(l)
                                  THEN Null ELSE next[p]]
      /\ live' = [live EXCEPT ![h] = [pages |-> pages, ptr |-> ptr, layer |-> bf]]
      /\ UNCHANGED <<misfreed, outside>>

buddy_alloc(h, pages) ==
  LET bf    == best_fit_layer(pages)
      layer == AllocLayer(pages)
      ptr   == freelist[layer]
      Right(l) == to_pointer(l, Left(l, layer, ptr) + 1)
  IN  /\ ~outside
      /\ live[h] = NoBlock
      /\ bf \in Layers
      /\ ptr # Null
      /\ bitmap' = SplitBits(layer, bf, ptr)
      /\ freelist' = [l \in Layers |-> IF l = layer THEN next[ptr]
                                       ELSE IF l \in layer + 1 .. bf THEN Right(l)
                                       ELSE freelist[l]]
      /\ next' = [p \in Pages |-> IF \E l \in layer + 1 .. bf : p = Right(l)
                                  THEN Null ELSE next[p]]
      /\ live' = [live EXCEPT ![h] = [pages |-> pages, ptr |-> ptr, layer |-> bf]]
      /\ UNCHANGED <<misfreed, outside>>

\* The first list that the search looks at does not exist: what follows is
\* undefined, and the model stops.
buddy_alloc_Outside(pages) ==
  /\ ~outside
  /\ best_fit_layer(pages) \notin Layers
  /\ outside' = TRUE
  /\ UNCHANGED <<bitmap, freelist, next, live, misfreed>>

(***************************************************************************)
(* buddy_free: the first block on the way up from the pointer's leaf whose *)
(* bit is clear is taken for the allocated one (the root, if there is      *)
(* none). It is merged with its sibling as long as the sibling's bit is    *)
(* clear too, and pushed. Once a wrong block is released the lists overlap *)
(* the clients' blocks; runs are followed through the allocations after    *)
(* that, not through further frees.                                        *)
(***************************************************************************)
Clear(layer, index) == ~bitmap[Bit(layer, index)]

FoundLayer(ptr) ==
  Max({0} \cup {l \in Layers : Clear(l, to_index(l, ptr))})

MergedLayer(ptr) ==
  Min({t \in 0 .. FoundLayer(ptr) :
         \A l \in t + 1 .. FoundLayer(ptr) : Clear(l, Sibling(to_index(l, ptr)))})

buddy_free(h) ==
  LET ptr   == live[h].ptr
      found == FoundLayer(ptr)
      top   == MergedLayer(ptr)
      block == to_pointer(top, to_index(top, ptr))
      Merged(b) == \E l \in top + 1 .. found :
                     b \in {Bit(l, to_index(l, ptr)), Bit(l, Sibling(to_index(l, ptr)))}
  IN  /\ ~outside
      /\ ~misfreed
      /\ live[h] # NoBlock
      /\ bitmap' = [b \in Bits |->
                      IF b = Bit(top, to_index(top, ptr)) THEN FALSE
                      ELSE Merged(b) \/ bitmap[b]]
      /\ freelist' = [freelist EXCEPT ![top] = block]
      /\ next' = [next EXCEPT ![block] = freelist[top]]
      /\ live' = [live EXCEPT ![h] = NoBlock]
      /\ misfreed' = (found # live[h].layer)
      /\ UNCHANGED outside

Next ==
  \/ \E h \in Handles, pages \in Requests : buddy_alloc(h, pages)
  \/ \E pages \in Requests : buddy_alloc_Outside(pages)
  \/ \E h \in Handles : buddy_free(h)

Spec == Init /\ [][Next]_vars
-----------------------------------------------------------------------------
(***************************************************************************)
(* Blocks                                                                  *)
(***************************************************************************)
Held == {h \in Handles : live[h] # NoBlock}

PagesOf(layer, ptr) == ptr .. ptr + block_size(layer) - 1

\* The n-th block of a list, counted from 0; a list longer than the pool has
\* pages, as a circular one, has a block at every place.
Listed(layer) ==
  LET block[n \in 0 .. root_block_size] ==
        IF n = 0 THEN freelist[layer]
        ELSE IF block[n - 1] = Null THEN Null ELSE next[block[n - 1]]
  IN  block

(***************************************************************************)
(* Every variable has its type.                                            *)
(***************************************************************************)
TypeOK ==
  /\ bitmap \in [Bits -> BOOLEAN]
  /\ freelist \in [Layers -> Pages \cup {Null}]
  /\ next \in [Pages -> Pages \cup {Null}]
  /\ \A h \in Handles : live[h] = NoBlock \/
       live[h] \in [pages : Requests, ptr : Pages, layer : Layers]
  /\ misfreed \in BOOLEAN
  /\ outside \in BOOLEAN

(***************************************************************************)
(* buddy_alloc and buddy_free keep a tiling of the pool as long as no free *)
(* has released the wrong block: every page is in exactly one block, which *)
(* is either held by one client or on one list of its size.                *)
(***************************************************************************)
Tiling ==
  ~misfreed =>
    \A p \in Pages :
      Cardinality({h \in Held : p \in PagesOf(live[h].layer, live[h].ptr)})
        + Cardinality({at \in Layers \X (0 .. root_block_size) :
                         /\ Listed(at[1])[at[2]] # Null
                         /\ p \in PagesOf(at[1], Listed(at[1])[at[2]])}) = 1

(***************************************************************************)
(* buddy_free recovers the size of a block from the bitmap alone: for the  *)
(* root and for the left half of a split it finds the block that           *)
(* buddy_alloc handed out, whatever was split and freed in between.        *)
(***************************************************************************)
LeftBlocksFound ==
  ~misfreed =>
    \A h \in Held :
      to_index(live[h].layer, live[h].ptr) % 2 = 0 =>
        FoundLayer(live[h].ptr) = live[h].layer

(***************************************************************************)
(* "memory safe allocator" (penguin_malloc/README.md): the blocks that     *)
(* buddy_alloc has handed out and that were not freed share no page.       *)
(***************************************************************************)
LiveBlocksDisjoint ==
  \A g, h \in Held :
    g # h => PagesOf(live[g].layer, live[g].ptr)
               \cap PagesOf(live[h].layer, live[h].ptr) = {}

(***************************************************************************)
(* A client may use all the pages it asked for, as buddy_test.cpp does, if *)
(* they divide the root block evenly: best_fit_layer finds a layer whose   *)
(* blocks hold the request, though it searches by rounded logarithms. (For *)
(* other requests it may not: 3 pages of 16 get a block of 2.)             *)
(***************************************************************************)
BlocksHoldRequest ==
  \A h \in Held :
    root_block_size % live[h].pages = 0 => block_size(live[h].layer) >= live[h].pages
=============================================================================
