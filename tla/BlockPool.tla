------------------------------ MODULE BlockPool ------------------------------
(****************************************************************************)
(* The block pool of PagedCacheManager (omlx/cache/paged_cache.py): the     *)
(* free queue, the allocated dict, reference counts, the hash of a block    *)
(* and the hash-to-block map, with the methods that change them.  Each      *)
(* method below holds the manager's RLock from its first line to its last,  *)
(* so each is one action; the modules that EXTEND this one say who calls    *)
(* them, and in which order.                                                *)
(*                                                                          *)
(* A block hash is an opaque member of Hash (SHA-256 is taken to be         *)
(* injective).  enable_caching is TRUE, as the scheduler leaves it.         *)
(****************************************************************************)
EXTENDS Integers, Sequences, FiniteSets

CONSTANTS
  MaxBlocks,      \* max_blocks
  InitialBlocks,  \* initial_blocks
  GrowStep,       \* the blocks added when the free queue is empty (256)
  Hash,           \* the block hashes
  NoHash          \* block_hash = None

ASSUME PoolAssumption ==
  /\ MaxBlocks \in Nat \ {0}
  /\ InitialBlocks \in Nat \ {0}
  /\ GrowStep \in Nat \ {0}
  /\ NoHash \notin Hash

VARIABLES
  created,    \* _current_allocated_count: the blocks that exist are 0..created-1
  free,       \* free_block_queue, head first
  allocated,  \* the keys of allocated_blocks
  ref,        \* CacheBlock.ref_count
  blockHash,  \* CacheBlock.block_hash
  hashMap     \* cached_block_hash_to_block: the ids found under each hash

pool == <<created, free, allocated, ref, blockHash, hashMap>>

Block == 0 .. MaxBlocks - 1
NullBlock == 0

InitialCount == IF InitialBlocks < MaxBlocks THEN InitialBlocks ELSE MaxBlocks

\* PagedCacheManager.__init__, and clear(), which rebuilds the same state:
\* block 0 is popped for good as the null block.
EmptyPool(c, f, a, r, bh, hm) ==
  /\ c = InitialCount
  /\ f = [i \in 1 .. InitialCount - 1 |-> i]
  /\ a = {NullBlock}
  /\ r = [b \in Block |-> IF b = NullBlock THEN 1 ELSE 0]
  /\ bh = [b \in Block |-> NoHash]
  /\ hm = [h \in Hash |-> {}]

PoolInit == EmptyPool(created, free, allocated, ref, blockHash, hashMap)
ClearPool == EmptyPool(created', free', allocated', ref', blockHash', hashMap')

------------------------------------------------------------------------------
\* Mutant: growth forgets max_blocks.
GrowthUncapped == GrowStep

\* _grow_blocks: the new blocks go to the end of the (empty) free queue.
Growth == IF GrowStep < MaxBlocks - created THEN GrowStep ELSE MaxBlocks - created
Grown == [i \in 1 .. Growth |-> created + i - 1]

\* allocate_block can answer a block.  handle_memory_pressure(1), which
\* store_cache tries next, adds nothing: it calls evict_lru_blocks, which
\* only rotates blocks that are in the (empty) free queue already.
CanAllocate == free # <<>> \/ created < MaxBlocks

\* Mutant: popleft answers the head and leaves it in the queue.
TakeFreePeeks(b) ==
  \/ free # <<>> /\ b = Head(free) /\ UNCHANGED <<free, created>>
  \/ /\ free = <<>> /\ created < MaxBlocks
     /\ b = Head(Grown)
     /\ free' = Grown
     /\ created' = created + Growth

\* The free queue's popleft, after growing the pool when the queue is empty.
TakeFree(b) ==
  \/ /\ free # <<>>
     /\ b = Head(free)
     /\ free' = Tail(free)
     /\ UNCHANGED created
  \/ /\ free = <<>>
     /\ created < MaxBlocks
     /\ b = Head(Grown)
     /\ free' = Tail(Grown)
     /\ created' = created + Growth

\* BlockHashToBlockMap.pop(hash, id): nothing happens to other ids.
Unmapped(h, b) ==
  [g \in Hash |-> IF g = h THEN hashMap[g] \ {b} ELSE hashMap[g]]

\* allocate_block with _maybe_evict_cached_block: a reused block loses its
\* old hash only if the map still finds the block under it.
AllocateBlock(b) ==
  /\ TakeFree(b)
  /\ allocated' = allocated \cup {b}
  /\ ref' = [ref EXCEPT ![b] = 1]
  /\ hashMap' = Unmapped(blockHash[b], b)
  /\ \/ /\ \E h \in Hash : h = blockHash[b] /\ b \in hashMap[h]
        /\ blockHash' = [blockHash EXCEPT ![b] = NoHash]
     \/ /\ ~ \E h \in Hash : h = blockHash[b] /\ b \in hashMap[h]
        /\ UNCHANGED blockHash

\* Mutants of free_block: the freed block stays in allocated_blocks; it stays
\* findable; it is freed one reference early.
FreeBlockWith(b, last, gone, unmapped) ==
  \/ b \notin allocated \ {NullBlock} /\ UNCHANGED pool
  \/ /\ b \in allocated \ {NullBlock}
     /\ ref' = [ref EXCEPT ![b] = @ - 1]
     /\ free' = IF ref[b] <= last THEN Append(free, b) ELSE free
     /\ allocated' = IF ref[b] <= last THEN allocated \ gone ELSE allocated
     /\ hashMap' = IF ref[b] <= last THEN unmapped ELSE hashMap
     /\ UNCHANGED <<created, blockHash>>
FreeBlockKeeps(b) == FreeBlockWith(b, 1, {}, Unmapped(blockHash[b], b))
FreeBlockFindable(b) == FreeBlockWith(b, 1, {b}, hashMap)
FreeBlockEarly(b) == FreeBlockWith(b, 2, {b}, Unmapped(blockHash[b], b))

\* free_block: unknown ids and the null block are ignored; the last reference
\* takes the block out of the map and to the end of the free queue.  The
\* block keeps its block_hash.
FreeBlock(b) ==
  \/ /\ b \notin allocated \ {NullBlock}
     /\ UNCHANGED pool
  \/ /\ b \in allocated \ {NullBlock}
     /\ ref[b] > 1
     /\ ref' = [ref EXCEPT ![b] = @ - 1]
     /\ UNCHANGED <<created, free, allocated, blockHash, hashMap>>
  \/ /\ b \in allocated \ {NullBlock}
     /\ ref[b] <= 1
     /\ ref' = [ref EXCEPT ![b] = @ - 1]
     /\ hashMap' = Unmapped(blockHash[b], b)
     /\ allocated' = allocated \ {b}
     /\ free' = Append(free, b)
     /\ UNCHANGED <<created, blockHash>>

\* increment_ref: a block that is not allocated is left alone (the method
\* answers False).
IncrementRef(b) ==
  /\ ref' = IF b \in allocated THEN [ref EXCEPT ![b] = @ + 1] ELSE ref
  /\ UNCHANGED <<created, free, allocated, blockHash, hashMap>>

\* release_for_eviction of a list holding each block times[b] times: the
\* blocks stay allocated and findable.
ReleaseForEviction(times) ==
  /\ ref' = [b \in Block |->
               IF b \in allocated \ {NullBlock}
               THEN IF ref[b] > times[b] THEN ref[b] - times[b]
                    ELSE IF ref[b] > 0 THEN 0 ELSE ref[b]
               ELSE ref[b]]
  /\ UNCHANGED <<created, free, allocated, blockHash, hashMap>>

\* register_block_hash: sets the hash and makes the block findable.
RegisterHash(b, h) ==
  /\ blockHash' = [blockHash EXCEPT ![b] = h]
  /\ hashMap' = [hashMap EXCEPT ![h] = @ \cup {b}]
  /\ UNCHANGED <<created, free, allocated, ref>>

\* The lazy restore of get_computed_blocks: a hash that is only on the SSD
\* gets a block that nobody references yet.
RestoreBlock(b, h) ==
  /\ TakeFree(b)
  /\ allocated' = allocated \cup {b}
  /\ ref' = [ref EXCEPT ![b] = 0]
  /\ blockHash' = [blockHash EXCEPT ![b] = h]
  /\ hashMap' = [Unmapped(blockHash[b], b) EXCEPT ![h] = @ \cup {b}]

\* Mutant: source and copy of the hash swapped.
CopyBlockSwapped(b, n) ==
  /\ TakeFree(n)
  /\ allocated' = allocated \cup {n}
  /\ ref' = [ref EXCEPT ![n] = 1, ![b] = @ - 1]
  /\ hashMap' = Unmapped(blockHash[n], n)
  /\ blockHash' = [blockHash EXCEPT ![b] = blockHash[n]]

\* _cow_copy_block: a private copy n of a shared block b, with its hash, but
\* not registered under it.
CopyBlock(b, n) ==
  /\ TakeFree(n)
  /\ allocated' = allocated \cup {n}
  /\ ref' = [ref EXCEPT ![n] = 1, ![b] = @ - 1]
  /\ hashMap' = Unmapped(blockHash[n], n)
  /\ blockHash' = [blockHash EXCEPT ![n] = blockHash[b]]

\* A failed load in reconstruct_cache hides the block from later lookups.
ForgetHash(b) ==
  /\ hashMap' = Unmapped(blockHash[b], b)
  /\ UNCHANGED <<created, free, allocated, ref, blockHash>>

------------------------------------------------------------------------------
\* The free queue holds every created block that is not allocated, once: no
\* block is lost and none is handed out twice, however free_block, growth
\* and lazy restores interleave.
FreeListExact ==
  /\ \A i, j \in 1 .. Len(free) : free[i] = free[j] => i = j
  /\ \A b \in Block :
       (\E i \in 1 .. Len(free) : free[i] = b) <=> (b < created /\ b \notin allocated)
  /\ \A b \in allocated : b < created

\* A lookup finds only allocated blocks that still carry the hash looked up:
\* a freed and reused id never answers for its old tokens.
MapSound ==
  \A h \in Hash : \A b \in hashMap[h] :
    b \in allocated \ {NullBlock} /\ blockHash[b] = h
==============================================================================
