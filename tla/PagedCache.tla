------------------------------ MODULE PagedCache -----------------------------
(****************************************************************************)
(* What PagedCacheManager promises to callers that follow its protocol: a   *)
(* request takes a reference on a block when it allocates it or finds it,   *)
(* and gives back exactly the references it took.  Lookup and reference     *)
(* are ONE step here: this is the contract.  PrefixCache has the real       *)
(* callers, whose steps are finer.                                          *)
(****************************************************************************)
EXTENDS BlockPool

CONSTANTS Request, MaxClears

ASSUME RequestAssumption == IsFiniteSet(Request) /\ MaxClears \in Nat

VARIABLES
  held,    \* the ids in a request's BlockTable
  fresh,   \* blocks store_cache has allocated and not registered yet
  clears   \* calls of clear() so far (bounded by MaxClears)

vars == <<created, free, allocated, ref, blockHash, hashMap, held, fresh, clears>>

Init ==
  /\ PoolInit
  /\ held = [r \in Request |-> {}]
  /\ fresh = {}
  /\ clears = 0

\* store_cache: a block for the next tokens of r.
Allocate(r) ==
  /\ \E b \in Block :
       /\ AllocateBlock(b)
       /\ held' = [held EXCEPT ![r] = @ \cup {b}]
       /\ fresh' = fresh \cup {b}
  /\ UNCHANGED clears

\* store_cache: r makes a block it has just allocated findable.
Register(r) ==
  /\ \E b \in held[r] \cap fresh, h \in Hash :
       /\ RegisterHash(b, h)
       /\ fresh' = fresh \ {b}
  /\ UNCHANGED <<held, clears>>

\* fetch_cache and the deduplication of store_cache: r
\* takes a reference on a block it finds.
Share(r) ==
  /\ \E h \in Hash : \E b \in hashMap[h] \ held[r] :
       /\ IncrementRef(b)
       /\ held' = [held EXCEPT ![r] = @ \cup {b}]
  /\ UNCHANGED <<fresh, clears>>

\* Mutant: the copied table takes no references.
ForkUncounted(r, q) ==
  /\ held[q] = {}
  /\ held' = [held EXCEPT ![q] = held[r]]
  /\ UNCHANGED <<pool, fresh, clears>>

\* fork_block_table: q starts with every block of r.
Fork(r, q) ==
  /\ held[q] = {}
  /\ held' = [held EXCEPT ![q] = held[r]]
  /\ ref' = [b \in Block |-> IF b \in held[r] THEN ref[b] + 1 ELSE ref[b]]
  /\ UNCHANGED <<created, free, allocated, blockHash, hashMap, fresh, clears>>

\* get_blocks_for_generation: r stops sharing a block it is about to write.
\* When no block can be allocated it keeps the shared one.
CopyOnWrite(r) ==
  /\ \E b \in held[r], n \in Block :
       /\ ref[b] > 1
       /\ CopyBlock(b, n)
       /\ held' = [held EXCEPT ![r] = (@ \ {b}) \cup {n}]
  /\ UNCHANGED <<fresh, clears>>

\* delete_block_table, and the rollbacks of store_cache and of
\* reconstruct_cache: r gives a block back for good.
GiveBack(r) ==
  /\ \E b \in held[r] :
       /\ FreeBlock(b)
       /\ held' = [held EXCEPT ![r] = @ \ {b}]
       /\ fresh' = fresh \cap allocated'
  /\ UNCHANGED clears

\* The end of a request: its blocks stay findable, unreferenced.
Release(r) ==
  /\ held[r] # {}
  /\ ReleaseForEviction([b \in Block |-> IF b \in held[r] THEN 1 ELSE 0])
  /\ held' = [held EXCEPT ![r] = {}]
  /\ fresh' = fresh \ held[r]
  /\ UNCHANGED clears

\* get_computed_blocks meets a hash that only the SSD has.
Restore ==
  /\ \E h \in Hash, b \in Block :
       /\ hashMap[h] = {}
       /\ RestoreBlock(b, h)
  /\ UNCHANGED <<held, fresh, clears>>

\* reconstruct_cache cannot load a block of r's table.
Forget(r) ==
  /\ \E b \in held[r] : ForgetHash(b)
  /\ UNCHANGED <<held, fresh, clears>>

\* clear(): the request tables go too.
Clear ==
  /\ clears < MaxClears
  /\ ClearPool
  /\ held' = [r \in Request |-> {}]
  /\ fresh' = {}
  /\ clears' = clears + 1

Next ==
  \/ \E r \in Request :
       \/ Allocate(r) \/ Register(r) \/ Share(r)
       \/ \E q \in Request : Fork(r, q)
       \/ CopyOnWrite(r) \/ GiveBack(r) \/ Release(r) \/ Forget(r)
  \/ Restore
  \/ Clear

Spec == Init /\ [][Next]_vars

------------------------------------------------------------------------------
Holders(b) == {r \in Request : b \in held[r]}

\* Types, and the null block (block 0) reserved with its own reference.
TypeOK ==
  /\ created \in 1 .. MaxBlocks
  /\ free \in Seq(Block)
  /\ allocated \in SUBSET Block
  /\ ref \in [Block -> Int]
  /\ blockHash \in [Block -> Hash \cup {NoHash}]
  /\ hashMap \in [Hash -> SUBSET Block]
  /\ held \in [Request -> SUBSET Block]
  /\ fresh \in SUBSET Block
  /\ clears \in Nat
  /\ NullBlock \in allocated

\* A request's table names allocated blocks only, so what one request gives
\* back never takes a block from under another.
NoDangling == \A r \in Request : held[r] \subseteq allocated \ {NullBlock}

\* ref_count is the number of requests whose table holds the block: it
\* neither leaks (the block would stay forever) nor runs short (the block
\* would be freed in use).
RefExact ==
  \A b \in allocated \ {NullBlock} : ref[b] = Cardinality(Holders(b))

\* A block is not findable before it is registered: no lookup can reach a block
\* whose hash is still that of its previous life.
FreshPrivate ==
  /\ fresh \subseteq allocated \ {NullBlock}
  /\ \A h \in Hash : hashMap[h] \cap fresh = {}

\* The docstrings of release_for_eviction and of CacheBlock.ref_count: a block
\* that no request references is evictable, so allocate_block does
\* not fail while there is one.
EvictableIsReusable ==
  (\E b \in allocated \ {NullBlock} : ref[b] = 0) => CanAllocate

\* What a block holds never changes under its holders: from the moment it is
\* registered until it leaves allocated_blocks, a block keeps its hash.
ContentStable ==
  [][\A b \in (allocated \cap allocated') \ (fresh \cup {NullBlock}) :
        blockHash'[b] = blockHash[b]]_vars
==============================================================================
