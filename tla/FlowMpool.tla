------------------------------- MODULE FlowMpool -------------------------------
(***************************************************************************)
(* The memory pool of the matcher, flow_core_mpool.c: memory is cut off    *)
(* the newest block, from its beginning to its end, and is not given back  *)
(* while the trie lives.  malloc, which yields the blocks, is taken to     *)
(* succeed, as the code does.                                              *)
(***************************************************************************)
EXTENDS Integers, Sequences

CONSTANTS
  BlockSize,    \* MPOOL_BLOCK_SIZE
  Align         \* 16

ASSUME MpoolAssumption ==
  /\ Align \in Nat \ {0} /\ BlockSize \in Nat \ {0}
  /\ BlockSize % Align = 0

(* A pool: its blocks, the newest last, with their sizes and the offsets   *)
(* of their free parts; and, as history, the areas handed out.             *)
Block == [size : Nat, free : Nat]
Area  == [block : Nat, at : Nat, len : Nat]

NewPool == [blocks |-> <<[size |-> BlockSize, free |-> 0]>>, areas |-> << >>]

(* n rounded up to a multiple of Align.                                    *)
Aligned(n) == ((n + Align - 1) \div Align) * Align

(* Mutant of Malloc: a new block is as big as the one before, always.      *)
MallocSameSize(pool, n) ==
  LET last == Len(pool.blocks)
      head == pool.blocks[last]
      size == Aligned(n)
      fits == size <= head.size - head.free
  IN [blocks |->
        IF fits THEN [pool.blocks EXCEPT ![last].free = @ + size]
        ELSE Append(pool.blocks, [size |-> head.size, free |-> size]),
      areas |->
        Append(pool.areas, [block |-> IF fits THEN last ELSE last + 1,
                            at |-> IF fits THEN head.free ELSE 0, len |-> n])]

(* mpool_malloc of n bytes, n > 0: from the newest block, or from a new    *)
(* one, as big as that or as big as it takes.  What was left is lost.      *)
Malloc(pool, n) ==
  LET last == Len(pool.blocks)
      head == pool.blocks[last]
      size == Aligned(n)
      fits == size <= head.size - head.free
  IN [blocks |->
        IF fits THEN [pool.blocks EXCEPT ![last].free = @ + size]
        ELSE Append(pool.blocks,
                    [size |-> IF size > head.size THEN size ELSE head.size, free |-> size]),
      areas |->
        Append(pool.areas, [block |-> IF fits THEN last ELSE last + 1,
                            at |-> IF fits THEN head.free ELSE 0, len |-> n])]

(* mpool_strndup of a text of n characters: the text and its end.          *)
Strndup(pool, n) == Malloc(pool, n + 1)

(* What the pool promises: the areas are aligned, lie within their blocks, *)
(* and have no byte in common.                                             *)
Apart(pool) ==
  /\ \A i \in DOMAIN pool.areas :
       LET a == pool.areas[i] IN
       /\ a.at % Align = 0
       /\ a.block \in DOMAIN pool.blocks
       /\ a.at + a.len <= pool.blocks[a.block].size
  /\ \A i, j \in DOMAIN pool.areas :
       LET a == pool.areas[i]
           b == pool.areas[j]
       IN i # j /\ a.block = b.block => a.at + a.len <= b.at \/ b.at + b.len <= a.at
===============================================================================
