----------------------------- MODULE PrefixCache -----------------------------
(****************************************************************************)
(* BlockAwarePrefixCache (omlx/cache/prefix_cache.py) as the scheduler uses *)
(* it: the inference thread looks a prompt up, loads its blocks and later   *)
(* hands the finished request to the store worker, a second thread that     *)
(* files its KV cache block by block.  Both call the block pool, whose      *)
(* methods are atomic (RLock); what they do between two calls is not.       *)
(*                                                                          *)
(* A token stands for a whole block of tokens (partial blocks are never     *)
(* filed), a hash for the chain of tokens it is computed from, and the      *)
(* content of a block for the chain its KV was computed under, or Garbled.  *)
(****************************************************************************)
EXTENDS BlockPool, FiniteSetsExt, Functions

CONSTANTS
  Request,
  Prompt,         \* Prompt[r]: the full blocks of the prompt
  Sequence,       \* Sequence[r]: those of prompt and output, filed at the end
  NoReq,          \* no request
  Garbled,        \* KV computed after a wrong prefix
  Schedules,      \* the values of overlap: a nonempty subset of BOOLEAN
  Concurrent,     \* bound: the requests that come in an overlapping schedule
  MaxFaults,      \* bound: stores that fail (a refused save, an exception)
  MaxEvictions    \* bound: blocks the SSD cache evicts

\* A prompt is the beginning of its request's sequence, and each chain that a
\* sequence makes has its hash.  Nothing is assumed of the bounds.
ASSUME PrefixAssumption ==
  /\ IsFiniteSet(Request) /\ NoReq \notin Request
  /\ Schedules \subseteq BOOLEAN
  /\ \A r \in Request :
       /\ Sequence[r] \in Seq(UNION {Range(h) : h \in Hash})
       /\ Len(Prompt[r]) \in 0 .. Len(Sequence[r])
       /\ Prompt[r] = SubSeq(Sequence[r], 1, Len(Prompt[r]))
       /\ \A n \in 1 .. Len(Sequence[r]) : SubSeq(Sequence[r], 1, n) \in Hash

VARIABLES
  overlap,  \* FALSE: every store ends, and is drained, before the inference
            \* thread goes on (idle gaps; stores that run inline)
  phase,    \* where each request is
  table,    \* BlockTable.block_ids of each request
  context,  \* the contents reconstruct_cache gave the request as prompt_cache
  index,    \* _prefix_index: the ids indexed under a hash
  ssd,      \* the content the SSD cache holds under each hash (NoHash: none)
  ipc, ireq, hits, k,          \* the inference thread: step, request, locals
  queue, wpc, wreq, wblock, whash,  \* the store worker: queue, step, locals
  faults, evictions,           \* bounded counters
  fellBack, lost               \* history: an index fallback was used; requests
                               \* that ended without releasing their blocks

inference == <<ipc, ireq, hits, k>>
worker == <<queue, wpc, wreq, wblock, whash>>
bounds == <<overlap, faults, evictions>>
vars == <<pool, bounds, phase, table, context, index, ssd, inference, worker,
          fellBack, lost>>

Prefix(s, n) == SubSeq(s, 1, n)

\* compute_block_hash of a parent (<<>> for none) and a block of tokens.
ChainHash(parent, token) == Append(parent, token)

\* The content at position p of the cache r computed: its own chain, provided
\* the prefix it was given was its own.
Clean(r) == \A p \in 1 .. Len(context[r]) : context[r][p] = Prefix(Prompt[r], p)
Computed(r, p) == IF Clean(r) THEN Prefix(Sequence[r], p) ELSE Garbled

Occurrences(s) == [b \in Block |-> Cardinality({i \in 1 .. Len(s) : s[i] = b})]

\* find_shared_prefix and delete_block_table keep the RLock across several
\* pool methods; every other call holds it for one.
LockHeld == ipc \in {"lookup", "delete"}

Init ==
  /\ PoolInit
  /\ overlap \in Schedules
  /\ phase = [r \in Request |-> "new"]
  /\ table = [r \in Request |-> <<>>]
  /\ context = [r \in Request |-> <<>>]
  /\ index = [h \in Hash |-> <<>>]
  /\ ssd = [h \in Hash |-> NoHash]
  /\ ipc = "idle" /\ ireq = NoReq /\ hits = <<>> /\ k = 0
  /\ queue = <<>> /\ wpc = "idle" /\ wreq = NoReq /\ wblock = NullBlock
  /\ whash = <<>>
  /\ faults = 0 /\ evictions = 0
  /\ fellBack = FALSE /\ lost = {}

------------------------------------------------------------------------------
(* The inference thread: Scheduler.add_request *)

\* Between two operations of the inference thread.
Idle == ipc = "idle" /\ (overlap \/ (queue = <<>> /\ wpc = "idle"))

\* The request is in the scheduler's hands: waiting, then running.
Admit(r) ==
  /\ phase' = [phase EXCEPT ![r] = "running"]
  /\ ipc' = "idle" /\ ireq' = NoReq /\ hits' = <<>> /\ k' = 0

StartLookup(r) ==
  /\ Idle
  /\ phase[r] = "new"
  /\ overlap => r \in Concurrent
  /\ phase' = [phase EXCEPT ![r] = "adding"]
  /\ ipc' = "lookup" /\ ireq' = r /\ hits' = <<>> /\ k' = 0
  /\ UNCHANGED <<pool, bounds, table, context, index, ssd, worker, fellBack, lost>>

\* get_computed_blocks, one block of the prompt: found in the map ...
WantedHash == Prefix(Prompt[ireq], Len(hits) + 1)
Wanted == ipc = "lookup" /\ Len(hits) < Len(Prompt[ireq])
Restorable(h) == hashMap[h] = {} /\ ssd[h] # NoHash /\ CanAllocate

LookupHit ==
  /\ Wanted
  /\ \E b \in hashMap[WantedHash] : hits' = Append(hits, b)
  /\ UNCHANGED <<pool, bounds, phase, table, context, index, ssd, ipc, ireq, k,
                 worker, fellBack, lost>>

\* ... or only on the SSD, and given a block without references.
LookupRestore ==
  /\ Wanted
  /\ Restorable(WantedHash)
  /\ \E b \in Block : RestoreBlock(b, WantedHash) /\ hits' = Append(hits, b)
  /\ UNCHANGED <<bounds, phase, table, context, index, ssd, ipc, ireq, k, worker,
                 fellBack, lost>>

\* _find_best_prefix_match: the lengths whose indexed entry has that length.
IndexMatches(r) ==
  {n \in 1 .. Len(Prompt[r]) : Len(index[Prefix(Prompt[r], n)]) = n}
IndexMatch(r) == CHOOSE n \in IndexMatches(r) : \A m \in IndexMatches(r) : m <= n

LookupEnd ==
  /\ ipc = "lookup"
  /\ Wanted => hashMap[WantedHash] = {} /\ ~ Restorable(WantedHash)
  /\ \/ /\ hits # <<>>
        /\ table' = [table EXCEPT ![ireq] = <<>>]
        /\ ipc' = "claim" /\ k' = 1
        /\ UNCHANGED <<phase, ireq, hits, fellBack>>
     \/ /\ hits = <<>> /\ IndexMatches(ireq) # {}
        /\ hits' = index[Prefix(Prompt[ireq], IndexMatch(ireq))]
        /\ table' = [table EXCEPT ![ireq] = <<>>]
        /\ fellBack' = TRUE
        /\ ipc' = "claim" /\ k' = 1
        /\ UNCHANGED <<phase, ireq>>
     \/ /\ hits = <<>> /\ IndexMatches(ireq) = {}
        /\ Admit(ireq)
        /\ UNCHANGED <<table, fellBack>>
  /\ UNCHANGED <<pool, bounds, context, index, ssd, worker, lost>>

\* fetch_cache: increment_ref, whose answer is ignored ...
Claim ==
  /\ ipc = "claim"
  /\ IncrementRef(hits[k])
  /\ ipc' = "append"
  /\ UNCHANGED <<bounds, phase, table, context, index, ssd, ireq, hits, k, worker,
                 fellBack, lost>>

\* ... then an unlocked allocated_blocks.get; a block that is gone is skipped.
\* With no block left in the table add_request proceeds as on a miss.
AppendHit ==
  /\ ipc = "append"
  /\ LET t == IF hits[k] \in allocated THEN Append(table[ireq], hits[k]) ELSE table[ireq]
     IN /\ table' = [table EXCEPT ![ireq] = t]
        /\ \/ /\ k < Len(hits)
              /\ ipc' = "claim" /\ k' = k + 1
              /\ UNCHANGED <<phase, ireq, hits>>
           \/ /\ k = Len(hits) /\ t # <<>>
              /\ ipc' = "load" /\ k' = 1
              /\ UNCHANGED <<phase, ireq, hits>>
           \/ /\ k = Len(hits) /\ t = <<>>
              /\ Admit(ireq)
  /\ UNCHANGED <<pool, bounds, context, index, ssd, worker, fellBack, lost>>

\* reconstruct_cache, one block: loaded by the hash the block carries now ...
Loading == ipc = "load" /\ k <= Len(table[ireq])
LoadBlock ==
  /\ Loading
  /\ LET b == table[ireq][k] IN
       /\ b \in allocated
       /\ blockHash[b] \in Hash
       /\ ssd[blockHash[b]] # NoHash
       /\ context' = [context EXCEPT ![ireq] = Append(@, ssd[blockHash[b]])]
  /\ k' = k + 1
  /\ UNCHANGED <<pool, bounds, phase, table, index, ssd, ipc, ireq, hits, worker,
                 fellBack, lost>>

\* Mutant: a block that cannot be loaded counts as loaded.
LoadsNothing ==
  /\ Loading
  /\ LET b == table[ireq][k] IN
       b \in allocated /\ blockHash[b] \in Hash /\ ssd[blockHash[b]] = NoHash
  /\ context' = [context EXCEPT ![ireq] = Append(@, Garbled)]
  /\ k' = k + 1
  /\ UNCHANGED <<pool, bounds, phase, table, index, ssd, ipc, ireq, hits, worker,
                 fellBack, lost>>

\* ... or not on the SSD any more: hidden from later lookups ...
LoadFails ==
  /\ Loading
  /\ LET b == table[ireq][k] IN
       /\ b \in allocated
       /\ blockHash[b] \in Hash
       /\ ssd[blockHash[b]] = NoHash
       /\ ForgetHash(b)
  /\ ipc' = "drop"
  /\ UNCHANGED <<bounds, phase, table, context, index, ssd, ireq, hits, k, worker,
                 fellBack, lost>>

\* ... or gone, or refused (another model, invalid layers).  The blocks
\* before it are kept.
LoadStops ==
  /\ Loading
  /\ ipc' = "drop"
  /\ UNCHANGED <<pool, bounds, phase, table, context, index, ssd, ireq, hits, k,
                 worker, fellBack, lost>>

\* Mutants: the unused blocks are not freed; the table is not cut.
DropLeaks ==
  /\ ipc = "drop"
  /\ k <= Len(table[ireq])
  /\ k' = k + 1
  /\ UNCHANGED <<pool, bounds, phase, table, context, index, ssd, ipc, ireq, hits,
                 worker, fellBack, lost>>
DropKeepsTable ==
  /\ ipc = "drop"
  /\ k > Len(table[ireq])
  /\ ipc' = "load"
  /\ UNCHANGED <<pool, bounds, phase, table, context, index, ssd, ireq, hits, k,
                 worker, fellBack, lost>>

\* The blocks that are not used are given back one free_block at a time; then
\* the table is cut to the valid prefix.
DropBlock ==
  /\ ipc = "drop"
  /\ k <= Len(table[ireq])
  /\ FreeBlock(table[ireq][k])
  /\ k' = k + 1
  /\ UNCHANGED <<bounds, phase, table, context, index, ssd, ipc, ireq, hits, worker,
                 fellBack, lost>>

DropEnd ==
  /\ ipc = "drop"
  /\ k > Len(table[ireq])
  /\ table' = [table EXCEPT ![ireq] = Prefix(@, Len(context[ireq]))]
  /\ ipc' = "load"
  /\ UNCHANGED <<pool, bounds, phase, context, index, ssd, ireq, hits, k, worker,
                 fellBack, lost>>

\* Every remaining block is loaded: the request gets them (a hit on the whole
\* prompt with its last token trimmed), or the trailing blocks without
\* state for a non-sliceable layer are dropped (walk-back truncation), or
\* the cache cannot be rebuilt or trimmed and is thrown away.
LoadEnd ==
  /\ ipc = "load"
  /\ k > Len(table[ireq])
  /\ \/ /\ Admit(ireq)
        /\ UNCHANGED context
     \/ /\ \E n \in 1 .. Len(table[ireq]) - 1 :
             context' = [context EXCEPT ![ireq] = Prefix(@, n)] /\ k' = n + 1
        /\ ipc' = "drop"
        /\ UNCHANGED <<phase, ireq, hits>>
     \/ /\ table[ireq] # <<>>
        /\ ipc' = "delete" /\ k' = 1
        /\ UNCHANGED <<phase, ireq, hits, context>>
  /\ UNCHANGED <<pool, bounds, table, index, ssd, worker, fellBack, lost>>

\* delete_block_table: every block freed under one hold of the lock.
DeleteBlock ==
  /\ ipc = "delete"
  /\ k <= Len(table[ireq])
  /\ FreeBlock(table[ireq][k])
  /\ k' = k + 1
  /\ UNCHANGED <<bounds, phase, table, context, index, ssd, ipc, ireq, hits, worker,
                 fellBack, lost>>

DeleteEnd ==
  /\ ipc = "delete"
  /\ k > Len(table[ireq])
  /\ table' = [table EXCEPT ![ireq] = <<>>]
  /\ context' = [context EXCEPT ![ireq] = <<>>]
  /\ Admit(ireq)
  /\ UNCHANGED <<pool, bounds, index, ssd, worker, fellBack, lost>>

Adding ==
  \/ LookupHit \/ LookupRestore \/ LookupEnd \/ Claim \/ AppendHit
  \/ LoadBlock \/ LoadFails \/ LoadStops \/ DropBlock \/ DropEnd \/ LoadEnd
  \/ DeleteBlock \/ DeleteEnd

------------------------------------------------------------------------------
(* The inference thread: Scheduler.step *)

\* _cleanup_finished: the store is submitted ...
Finish(r) ==
  /\ Idle
  /\ phase[r] = "running"
  /\ phase' = [phase EXCEPT ![r] = "storing"]
  /\ queue' = Append(queue, r)
  /\ UNCHANGED <<pool, bounds, table, context, index, ssd, inference, wpc, wreq,
                 wblock, whash, fellBack, lost>>

\* ... or there is nothing to store, and the blocks are released.  An abort
\* releases them too, whatever the request's store is doing: _do_abort_request
\* finds every request that the drain has not removed yet.
EndsWithoutStore(r) ==
  /\ Idle
  /\ ReleaseForEviction(Occurrences(table[r]))
  /\ phase' = [phase EXCEPT ![r] = "gone"]
  /\ UNCHANGED <<bounds, table, context, index, ssd, inference, worker, fellBack,
                 lost>>

FinishNoStore(r) == phase[r] = "running" /\ EndsWithoutStore(r)
Abort(r) == phase[r] \in {"running", "storing", "stored"} /\ EndsWithoutStore(r)

\* fail_all_requests: the requests go, their references stay.
FailAll ==
  /\ Idle
  /\ \E r \in Request : phase[r] = "running"
  /\ phase' = [r \in Request |-> IF phase[r] = "running" THEN "gone" ELSE phase[r]]
  /\ lost' = lost \cup {r \in Request : phase[r] = "running"}
  /\ UNCHANGED <<pool, bounds, table, context, index, ssd, inference, worker,
                 fellBack>>

\* _drain_pending_async_removes.
Drain(r) ==
  /\ Idle
  /\ phase[r] = "stored"
  /\ phase' = [phase EXCEPT ![r] = "gone"]
  /\ UNCHANGED <<pool, bounds, table, context, index, ssd, inference, worker,
                 fellBack, lost>>

------------------------------------------------------------------------------
(* The store worker: _async_store_cache_worker, store_cache *)

\* The end of the job, if an abort has not removed the request.
Stored ==
  /\ phase' = IF phase[wreq] # "storing" THEN phase
              ELSE [phase EXCEPT ![wreq] = IF overlap THEN "stored" ELSE "gone"]
  /\ wpc' = "idle" /\ wreq' = NoReq /\ wblock' = NullBlock /\ whash' = <<>>

NextBlock(t) == IF Len(t) < Len(Sequence[wreq]) THEN "parent" ELSE "index"

\* With no full block to file, a trailing partial one still has the index
\* updated; with no new token at all it is left alone.
StoreBegin ==
  /\ wpc = "idle" /\ queue # <<>>
  /\ wreq' = Head(queue) /\ queue' = Tail(queue)
  /\ wpc' \in IF Len(table[Head(queue)]) < Len(Sequence[Head(queue)])
             THEN {"parent"} ELSE {"index", "release"}
  /\ UNCHANGED <<pool, bounds, phase, table, context, index, ssd, inference, wblock,
                 whash, fellBack, lost>>

\* Mutant: every block is hashed as if it came first.
WOrphan ==
  /\ wpc = "parent"
  /\ whash' = ChainHash(<<>>, Sequence[wreq][Len(table[wreq]) + 1])
  /\ wpc' = "find"
  /\ UNCHANGED <<pool, bounds, phase, table, context, index, ssd, inference, queue,
                 wreq, wblock, fellBack, lost>>

\* The parent hash is what the last block of the table carries now, read
\* without the lock; none if that block is gone.
WParent ==
  /\ wpc = "parent"
  /\ LET t == table[wreq]
         named == t # <<>> /\ t[Len(t)] \in allocated /\ blockHash[t[Len(t)]] \in Hash
         parent == IF named THEN blockHash[t[Len(t)]] ELSE <<>>
     IN whash' = ChainHash(parent, Sequence[wreq][Len(t) + 1])
  /\ wpc' = "find"
  /\ UNCHANGED <<pool, bounds, phase, table, context, index, ssd, inference, queue,
                 wreq, wblock, fellBack, lost>>

\* find_cached_block.
WFind ==
  /\ wpc = "find" /\ ~ LockHeld
  /\ \/ /\ \E b \in hashMap[whash] : wblock' = b
        /\ wpc' = "share"
     \/ /\ hashMap[whash] = {}
        /\ wpc' = "allocate"
        /\ UNCHANGED wblock
  /\ UNCHANGED <<pool, bounds, phase, table, context, index, ssd, inference, queue,
                 wreq, whash, fellBack, lost>>

\* increment_ref, whose answer is ignored.
WShare ==
  /\ wpc = "share" /\ ~ LockHeld
  /\ IncrementRef(wblock)
  /\ table' = [table EXCEPT ![wreq] = Append(@, wblock)]
  /\ wpc' = NextBlock(table'[wreq])
  /\ UNCHANGED <<bounds, phase, context, index, ssd, inference, queue, wreq, wblock,
                 whash, fellBack, lost>>

WAllocate ==
  /\ wpc = "allocate" /\ ~ LockHeld
  /\ \/ \E b \in Block :
          /\ AllocateBlock(b)
          /\ wblock' = b
          /\ table' = [table EXCEPT ![wreq] = Append(@, b)]
          /\ wpc' = "register"
     \/ /\ ~ CanAllocate
        /\ wpc' = "index"
        /\ UNCHANGED <<pool, wblock, table>>
  /\ UNCHANGED <<bounds, phase, context, index, ssd, inference, queue, wreq, whash,
                 fellBack, lost>>

WRegister ==
  /\ wpc = "register" /\ ~ LockHeld
  /\ RegisterHash(wblock, whash)
  /\ wpc' = "save"
  /\ UNCHANGED <<bounds, phase, table, context, index, ssd, inference, queue, wreq,
                 wblock, whash, fellBack, lost>>

\* save_block files the KV of this position of the request's cache under the
\* hash the block carries; a hash that is there already keeps its content.
WSave ==
  /\ wpc = "save"
  /\ blockHash[wblock] # NoHash
  /\ ssd' = [ssd EXCEPT ![blockHash[wblock]] =
                IF @ = NoHash THEN Computed(wreq, Len(table[wreq])) ELSE @]
  /\ wpc' = NextBlock(table[wreq])
  /\ UNCHANGED <<pool, bounds, phase, table, context, index, inference, queue, wreq,
                 wblock, whash, fellBack, lost>>

\* The block has no data, or the SSD cache refuses it.
WSaveFails ==
  /\ wpc = "save"
  /\ faults < MaxFaults
  /\ faults' = faults + 1
  /\ wpc' = "rollback"
  /\ UNCHANGED <<pool, overlap, evictions, phase, table, context, index, ssd,
                 inference, queue, wreq, wblock, whash, fellBack, lost>>

WRollback ==
  /\ wpc = "rollback" /\ ~ LockHeld
  /\ FreeBlock(wblock)
  /\ table' = [table EXCEPT ![wreq] = Prefix(@, Len(@) - 1)]
  /\ wpc' = "index"
  /\ UNCHANGED <<bounds, phase, context, index, ssd, inference, queue, wreq, wblock,
                 whash, fellBack, lost>>

\* Mutant: after an exception nobody hears that the job ended.
WDies ==
  /\ wpc = "save"
  /\ faults < MaxFaults
  /\ faults' = faults + 1
  /\ wpc' = "idle" /\ wreq' = NoReq /\ wblock' = NullBlock /\ whash' = <<>>
  /\ UNCHANGED <<pool, overlap, evictions, phase, table, context, index, ssd,
                 inference, queue, fellBack, lost>>

\* An exception is logged and swallowed: no reference is given back.
WRaises ==
  /\ wpc = "save"
  /\ faults < MaxFaults
  /\ faults' = faults + 1
  /\ lost' = lost \cup {wreq}
  /\ Stored
  /\ UNCHANGED <<pool, overlap, evictions, table, context, index, ssd, inference,
                 queue, fellBack>>

\* _update_prefix_index: each prefix of the table under the hash its last block
\* carries.  Entries are never removed.
WIndex ==
  /\ wpc = "index"
  /\ LET t == table[wreq]
         unnamed(b) == b \in allocated /\ blockHash[b] = NoHash
         name[i \in 0 .. Len(t)] ==
           IF i = 0 THEN <<>>
           ELSE IF t[i] \in allocated /\ blockHash[t[i]] # NoHash THEN blockHash[t[i]]
           ELSE ChainHash(name[i - 1], Sequence[wreq][i])
         lengths(h) == {i \in 1 .. Len(t) : name[i] = h}
     IN /\ index' = [h \in Hash |->
                       IF lengths(h) = {} THEN index[h] ELSE Prefix(t, Max(lengths(h)))]
        /\ blockHash' = [b \in Block |->
             LET at == {i \in 1 .. Len(t) : t[i] = b}
             IN IF at # {} /\ unnamed(b) THEN name[Min(at)] ELSE blockHash[b]]
  /\ wpc' = "release"
  /\ UNCHANGED <<created, free, allocated, ref, hashMap, bounds, phase, table,
                 context, ssd, inference, queue, wreq, wblock, whash, fellBack, lost>>

\* release_for_eviction of the whole table.
WRelease ==
  /\ wpc = "release" /\ ~ LockHeld
  /\ ReleaseForEviction(Occurrences(table[wreq]))
  /\ Stored
  /\ UNCHANGED <<bounds, table, context, index, ssd, inference, queue, fellBack, lost>>

Storing ==
  \/ StoreBegin \/ WParent \/ WFind \/ WShare \/ WAllocate \/ WRegister \/ WSave
  \/ WSaveFails \/ WRollback \/ WRaises \/ WIndex \/ WRelease

------------------------------------------------------------------------------
\* The SSD cache evicts a block to stay in its size limit; nobody is told.
SSDEvict ==
  /\ evictions < MaxEvictions
  /\ evictions' = evictions + 1
  /\ \E h \in Hash : ssd[h] # NoHash /\ ssd' = [ssd EXCEPT ![h] = NoHash]
  /\ UNCHANGED <<pool, overlap, faults, phase, table, context, index, inference,
                 worker, fellBack, lost>>

\* Every request has come and gone.
Terminated ==
  /\ \A r \in Request : phase[r] = "gone" \/ (overlap /\ r \notin Concurrent)
  /\ queue = <<>> /\ wpc = "idle"
  /\ UNCHANGED vars

Next ==
  \/ \E r \in Request :
       \/ StartLookup(r) \/ Finish(r) \/ FinishNoStore(r) \/ Abort(r) \/ Drain(r)
  \/ Adding \/ FailAll
  \/ Storing
  \/ SSDEvict
  \/ Terminated

\* An operation of the inference thread and a job of the worker run to their
\* end; the engine loop keeps calling step() while a finished store waits to
\* be drained (has_requests).
Fairness ==
  /\ WF_vars(Adding)
  /\ WF_vars(Storing)
  /\ \A r \in Request : WF_vars(Drain(r))

Spec == Init /\ [][Next]_vars /\ Fairness

------------------------------------------------------------------------------
\* Types; the request's prompt cache has one content per block of its table
\* once the request is admitted.
TypeOK ==
  /\ created \in 1 .. MaxBlocks
  /\ free \in Seq(Block) /\ allocated \subseteq Block
  /\ ref \in [Block -> Int] /\ blockHash \in [Block -> Hash \cup {NoHash}]
  /\ hashMap \in [Hash -> SUBSET Block]
  /\ overlap \in Schedules
  /\ phase \in [Request -> {"new", "adding", "running", "storing", "stored", "gone"}]
  /\ \A r \in Request :
       /\ table[r] \in Seq(Block \ {NullBlock})
       /\ phase[r] = "running" => Len(context[r]) = Len(table[r])
  /\ \A h \in Hash : index[h] \in Seq(Block)
  /\ ssd \in [Hash -> Hash \cup {NoHash, Garbled}]
  /\ whash \in Hash \cup {<<>>} /\ wblock \in Block
  /\ lost \subseteq Request

\* Without overlap and before the prefix index is used, the guarantees of the
\* system as a whole hold; with either they do not (README, findings).
Calm == ~ overlap /\ ~ fellBack

\* Every block of KV a request is given was computed from its own prompt, at
\* that position: lookup, pool reuse, SSD eviction and stores compose.
CleanHits ==
  Calm => \A r \in Request : phase[r] = "running" => Clean(r)

\* What the SSD cache holds under a hash is the KV of the chain it hashes.
SSDTrue == Calm => \A h \in Hash : ssd[h] \in {NoHash, h}

\* The table of a running request names, in order, live blocks that carry the
\* chain of its own prompt, until the request ends.
TableNamesItsChain ==
  Calm => \A r \in Request : phase[r] = "running" =>
            \A i \in 1 .. Len(table[r]) :
              /\ table[r][i] \in allocated
              /\ blockHash[table[r][i]] = Prefix(Prompt[r], i)

\* Between operations ref_count is exactly the references of the running
\* requests, plus those that fail_all_requests and a failed store leaked.
RefsExact ==
  (~ overlap /\ ipc = "idle" /\ queue = <<>> /\ wpc = "idle") =>
    \A b \in allocated \ {NullBlock} :
      ref[b] = SumFunctionOnSet([r \in Request |-> Occurrences(table[r])[b]],
                                {r \in Request : phase[r] = "running"} \cup lost)

\* Every finished request's store ends and the request is removed: the lock is
\* never kept, and no failure leaves the worker or the drain stuck.
StoresEnd ==
  \A r \in Request : phase[r] = "storing" ~> phase[r] = "gone"

\* fetch_cache finds "cached prefix blocks for the given tokens", on whatever
\* path: also when it falls back to the prefix index.
HitsMatchTokens == \A r \in Request : phase[r] = "running" => Clean(r)

\* The two threads' accesses are safe: also while a store is in flight, what a
\* lookup finds is what the request gets.
ConcurrentHitsClean == fellBack \/ HitsMatchTokens
==============================================================================
