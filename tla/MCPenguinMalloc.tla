-------------------------- MODULE MCPenguinMalloc --------------------------
(***************************************************************************)
(* Two threads, two slabs and four blocks: the root cache of each slab and *)
(* two more, so that a slab can have a list of three caches, lose one, or  *)
(* find no block for a cache; one fragment may then still be free. With    *)
(* the header, the sizes go to either slab or to the page allocator, which *)
(* one of them asks for no pages, and the largest wraps to 0.              *)
(***************************************************************************)
EXTENDS PenguinMalloc, TLC

CONSTANTS t1, t2, b1, b2, b3, b4, f1, null

MCThreads == {t1, t2}
MCBlocks == {b1, b2, b3, b4}
MCFragments == {f1}

\* Threads and blocks are told apart by nothing but their identity.
Symmetry == Permutations(MCThreads) \cup Permutations(MCBlocks)
=============================================================================
