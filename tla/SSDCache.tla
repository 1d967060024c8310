------------------------------ MODULE SSDCache ------------------------------
(****************************************************************************)
(* PagedSSDCacheManager (omlx/cache/paged_ssd_cache.py): the index of the   *)
(* files, the hot cache, the queue of the writer thread and the files       *)
(* themselves.  Each of them has a lock of its own, held for one access; a  *)
(* method is the sequence of its accesses, and the store worker, the        *)
(* inference thread, the event loop and the writer interleave between them. *)
(*                                                                          *)
(* A block is its hash; Size gives what it takes on the SSD (the length of  *)
(* its tensors and an allowance for the header, entered when it is saved,   *)
(* and the length of the file, entered when it is written, are taken to be  *)
(* the same).  The hot cache counts blocks.  The file of a block is named   *)
(* after its hash; path n is that name with "_tmp" appended n times, since  *)
(* the scan of a restart also finds temporary files.                        *)
(****************************************************************************)
EXTENDS Integers, Sequences, FiniteSets, SequencesExt, Queues

CONSTANTS
  Hash,
  Size,        \* Size[h]: metadata.file_size
  Largest,     \* a bound on the sizes
  Reserved,    \* estimated_new_size, the same for every block
  Thread,      \* the threads that call the manager (the writer is not one)
  May,         \* May[t]: the operations thread t calls
  Modes,       \* the configurations: "hot" cache on, off ("buffer"), or "ram" only
  Overlapping, \* the values of overlap: a nonempty subset of BOOLEAN
  HotMax,      \* _hot_cache_max_bytes
  IndexMax,    \* max_size_bytes, below what the disk has left
  QueueMax,    \* _MAX_PENDING_WRITES
  MaxOps,      \* bound: operations begun, one after another
  MaxOverlapped, \* bound: operations begun in an overlapping schedule
  MaxFaults,   \* bound: failed writes and reads
  MaxCrashes   \* bound: crashes and closes

ASSUME SSDAssumption ==
  /\ {HotMax, IndexMax, QueueMax, Largest, Reserved} \subseteq Nat \ {0}
  /\ Size \in [Hash -> 1 .. Largest]
  /\ {MaxOps, MaxOverlapped, MaxFaults, MaxCrashes} \subseteq Nat
  /\ Modes \subseteq {"hot", "buffer", "ram"}
  /\ Overlapping \subseteq BOOLEAN
  /\ IsFiniteSet(Thread)
  /\ IsFiniteSet(Hash)   \* a digest of 32 bytes

VARIABLES
  mode, overlap,
  up,        \* the manager is open
  closing,   \* close() is flushing
  index,     \* PagedSSDCacheIndex, least recently used first: [hash, path]
  hot,       \* _hot_cache, oldest first; with the hot cache off, the buffer
             \* of blocks whose write is queued
  limit,     \* _hot_cache_limit_bytes
  pending,   \* the keys of _pending_entries
  owedBytes, \* the keys of _pending_eviction_bytes
  queue,     \* _write_queue
  disk,      \* the files: [hash, path, whole]
  pc, cur,   \* per thread: the next access, and the block it is about
  todo,      \* per thread: entries taken out of the hot cache, to be queued
  unlinks,   \* per thread: index entries evicted, whose files are to go
  added,     \* per thread: it put cur in the index
  wpc, witem,          \* the writer: its step and its item
  ops, faults, crashes,
  kept,      \* history: blocks whose save was answered True and that no
             \* eviction, deletion, failure or crash has taken since
  disturbed  \* history: the end of one write met a later save of the same
             \* block (and took its memory copy, or its index entry),
             \* clear_hot_cache took the buffer of a queued write, close()
             \* relied on a file about to be removed, or a scan put a truncated
             \* file in the index

caller == <<pc, cur, todo, unlinks, added>>
writer == <<wpc, witem>>
counts == <<ops, faults, crashes>>
config == <<mode, overlap>>
life == <<up, closing>>
memory == <<index, hot, limit, pending, owedBytes, queue>>
vars == <<config, life, memory, disk, caller, writer, counts, kept, disturbed>>

Path == 0 .. MaxCrashes + 1
Entry == [hash : Hash, path : Path]
NoEntry == [hash |-> "none", path |-> 0]

Hashes(s) == {s[i].hash : i \in 1 .. Len(s)}
\* The entries of the blocks in H.
Of(H) == {e \in Entry : e.hash \in H}
Without(s, h) == Kept(s, Of(Hash \ {h}))
First(s, n) == SubSeq(s, 1, IF n < Len(s) THEN n ELSE Len(s))
From(s, n) == SubSeq(s, n, Len(s))
EntryOf(s, h) == s[CHOOSE i \in 1 .. Len(s) : s[i].hash = h]

\* Mutant: an entry added again is in the LRU order twice.
IndexAddTwice(e) == Append(index, e)

\* PagedSSDCacheIndex.add, touch: to the end of the LRU order.
IndexAdd(e) == Append(Without(index, e.hash), e)
Touched(h) == IF h \in Hashes(index) THEN IndexAdd(EntryOf(index, h)) ELSE index

FileAt(h, p) == \E f \in disk : f.hash = h /\ f.path = p
Unlinked(h, p) == {f \in disk : ~ (f.hash = h /\ f.path = p)}

Room == QueueMax - Len(queue)
CanWrite == mode # "ram"

AtRest == \A t \in Thread : pc[t] = "idle"

OpsMax == IF overlap THEN MaxOverlapped ELSE MaxOps

\* Operations of two threads overlap only if the schedule allows it.
MayBegin(t, op) ==
  /\ up /\ ~ closing /\ pc[t] = "idle" /\ op \in May[t] /\ ops < OpsMax
  /\ overlap \/ AtRest

Begin == ops' = ops + 1

\* The thread's operation is over.
Done(t) ==
  /\ pc' = [pc EXCEPT ![t] = "idle"]
  /\ cur' = [cur EXCEPT ![t] = NoEntry]
  /\ added' = [added EXCEPT ![t] = FALSE]

\* __init__ on an empty directory.
Init ==
  /\ mode \in Modes /\ overlap \in Overlapping
  /\ up = TRUE /\ closing = FALSE
  /\ index = <<>> /\ hot = <<>> /\ queue = <<>>
  /\ limit = IF mode = "buffer" THEN 0 ELSE HotMax
  /\ pending = {} /\ owedBytes = {} /\ disk = {}
  /\ pc = [t \in Thread |-> "idle"] /\ cur = [t \in Thread |-> NoEntry]
  /\ todo = [t \in Thread |-> <<>>] /\ unlinks = [t \in Thread |-> <<>>]
  /\ added = [t \in Thread |-> FALSE]
  /\ wpc = "get" /\ witem = NoEntry
  /\ ops = 0 /\ faults = 0 /\ crashes = 0
  /\ kept = {} /\ disturbed = FALSE

------------------------------------------------------------------------------
(* Putting a block in the hot cache *)

\* The entries that exist only in the hot cache: they must be written before they go.
Unsaved == IF CanWrite THEN Of(Hash \ Hashes(index)) ELSE {}

\* _hot_cache_put: what it may take out, oldest first; unsaved blocks only while
\* the write queue has room for them.
Evictable(s) == Kept(s, (Entry \ Unsaved) \cup ToSet(First(Kept(s, Unsaved), Room)))

\* Mutant: the block about to come in does not count.
ExcessBefore(rest) == Len(rest) - limit

\* Blocks over the limit once another one is in.
Excess(rest) == Len(rest) + 1 - limit

\* _hot_cache_put of e: the oldest blocks over the limit leave the cache, and
\* the unsaved ones among them are then queued for the writer, one by one.
HotPut(t, e, next) ==
  LET rest == Without(hot, e.hash)
      over == Excess(rest)
      victims == First(Evictable(rest), IF over > 0 THEN over ELSE 0)
      gone == Hashes(victims)
      toWrite == Kept(victims, Unsaved)
  IN /\ hot' = Append(Kept(rest, Of(Hash \ gone)), e)
     /\ todo' = [todo EXCEPT ![t] = toWrite]
     /\ pc' = [pc EXCEPT ![t] = IF toWrite = <<>> THEN next ELSE "enqueue"]
     /\ kept' = (kept \cup {e.hash}) \ (IF mode = "ram" THEN gone ELSE {})

\* The total size of the blocks in s.
Total(s) == SumFunctionOnSet(Size, Hashes(s))

\* How many of the oldest blocks must go for the others to take no more than n.
Exceeding(n) == Cardinality({i \in 1 .. Len(index) : Total(From(index, i)) > n})

\* Mutant: nothing is reserved for the new block.
OverNow == Exceeding(IndexMax)

\* What the index may hold before a block comes in: its maximum less the
\* reserve, or nine tenths of a maximum below the reserve.
Target == IF IndexMax >= Reserved THEN IndexMax - Reserved ELSE (9 * IndexMax) \div 10

\* evict_until_size(target_size), when the index is above it.
Over == Exceeding(Target)
Evicting(t) ==
  /\ unlinks' = [unlinks EXCEPT ![t] = First(index, Over)]
  /\ index' = From(index, Over + 1)

\* An eviction from the index is a loss the manager owns up to.
Losing(gone) == kept' = kept \ gone

\* _enqueue_ssd_write: readable from the pending entries first, then the
\* index makes room.
EnqueueBegin(t) ==
  /\ pc[t] = "enqueue"
  /\ ~ (closing /\ FileAt(Head(todo[t]).hash, Head(todo[t]).path))
  /\ LET e == Head(todo[t])
     IN /\ cur' = [cur EXCEPT ![t] = e]
        /\ pending' = pending \cup {e.hash}
        /\ \/ /\ e.hash \in Hashes(index)
              /\ added' = [added EXCEPT ![t] = FALSE]
              /\ pc' = [pc EXCEPT ![t] = "put"]
              /\ UNCHANGED <<index, unlinks, kept>>
           \/ /\ e.hash \notin Hashes(index)
              /\ added' = [added EXCEPT ![t] = TRUE]
              /\ pc' = [pc EXCEPT ![t] = "unlink"]
              /\ Evicting(t) /\ Losing(Hashes(First(index, Over)))
  /\ UNCHANGED <<config, life, hot, limit, owedBytes, queue, disk, todo, writer, counts,
                 disturbed>>

\* _enforce_size_limit_for_new_block: each evicted file is left to the writer,
\* or removed here when the queue is full.
UnlinkEvicted(t) ==
  /\ pc[t] = "unlink"
  /\ \/ /\ unlinks[t] = <<>>
        /\ index' = IndexAdd(cur[t])
        /\ pc' = [pc EXCEPT ![t] = IF mode = "buffer" THEN "buffer" ELSE "put"]
        /\ UNCHANGED <<queue, disk, unlinks>>
     \/ /\ unlinks[t] # <<>>
        /\ unlinks' = [unlinks EXCEPT ![t] = Tail(@)]
        /\ LET e == Head(unlinks[t])
           IN \/ /\ Room > 0
                 /\ queue' = Append(queue, [op |-> "unlink", hash |-> e.hash, path |-> e.path])
                 /\ UNCHANGED disk
              \/ /\ Room = 0
                 /\ disk' = Unlinked(e.hash, e.path)
                 /\ UNCHANGED queue
        /\ UNCHANGED <<index, pc>>
  /\ UNCHANGED <<config, life, hot, limit, pending, owedBytes, cur, todo, added, writer,
                 counts, kept, disturbed>>

WriteItem(e) == [op |-> "write", hash |-> e.hash, path |-> e.path]

\* The queue took the write ...
EnqueuePut(t) ==
  /\ pc[t] = "put"
  /\ Room > 0
  /\ queue' = Append(queue, WriteItem(cur[t]))
  /\ pc' = [pc EXCEPT ![t] = "owe"]
  /\ UNCHANGED <<config, life, index, hot, limit, pending, owedBytes, disk, cur, todo,
                 unlinks, added, writer, counts, kept, disturbed>>

\* ... and only then its bytes are put down as owed.
EnqueueOwe(t) ==
  /\ pc[t] = "owe"
  /\ owedBytes' = owedBytes \cup {cur[t].hash}
  /\ todo' = [todo EXCEPT ![t] = Tail(@)]
  /\ \/ /\ Len(todo[t]) > 1
        /\ pc' = [pc EXCEPT ![t] = "enqueue"]
        /\ UNCHANGED <<cur, added>>
     \/ Len(todo[t]) = 1 /\ Done(t)
  /\ UNCHANGED <<config, life, index, hot, limit, pending, queue, disk, unlinks, writer,
                 counts, kept, disturbed>>

\* Mutant: a block the queue refused is not put back.
KeepForgets(e) == hot

\* _hot_cache_keep: back in the hot cache as its oldest entry.
Keep(e) == IF e.hash \in Hashes(hot) THEN hot ELSE <<e>> \o hot

\* The queue is full: the index entry made for it is undone, and the entry
\* kept (on close, a write that found no room in time is given up).
EnqueueFull(t) ==
  /\ pc[t] = "put"
  /\ Room = 0
  /\ index' = IF added[t] THEN Without(index, cur[t].hash) ELSE index
  /\ pending' = pending \ {cur[t].hash}
  /\ hot' = Keep(cur[t])
  /\ kept' = IF closing THEN kept \ {cur[t].hash} ELSE kept
  /\ todo' = [todo EXCEPT ![t] = Tail(@)]
  /\ \/ /\ Len(todo[t]) > 1
        /\ pc' = [pc EXCEPT ![t] = "enqueue"]
        /\ UNCHANGED <<cur, added>>
     \/ Len(todo[t]) = 1 /\ Done(t)
  /\ UNCHANGED <<config, life, limit, owedBytes, queue, disk, unlinks, writer, counts,
                 disturbed>>

\* close() takes a block whose file exists for saved; one that is not in the
\* index is about to be removed.
FlushSkip(t) ==
  /\ pc[t] = "enqueue" /\ closing
  /\ FileAt(Head(todo[t]).hash, Head(todo[t]).path)
  /\ disturbed' = (disturbed \/ Head(todo[t]).hash \notin Hashes(index))
  /\ todo' = [todo EXCEPT ![t] = Tail(@)]
  /\ \/ Len(todo[t]) > 1 /\ UNCHANGED <<pc, cur, added>>
     \/ Len(todo[t]) = 1 /\ Done(t)
  /\ UNCHANGED <<config, life, memory, disk, unlinks, writer, counts, kept>>

Enqueuing(t) ==
  EnqueueBegin(t) \/ UnlinkEvicted(t) \/ EnqueuePut(t) \/ EnqueueOwe(t) \/ EnqueueFull(t)
  \/ FlushSkip(t)

------------------------------------------------------------------------------
(* save_block *)

\* A block in the index is only touched ...
SaveBegin(t, h) ==
  /\ MayBegin(t, "save") /\ Begin
  /\ \/ /\ h \in Hashes(index)
        /\ index' = Touched(h)
        /\ kept' = kept \cup {h}
        /\ UNCHANGED <<pc, cur>>
     \/ /\ h \notin Hashes(index)
        /\ pc' = [pc EXCEPT ![t] = "inHot"]
        /\ cur' = [cur EXCEPT ![t] = [hash |-> h, path |-> 0]]
        /\ UNCHANGED <<index, kept>>
  /\ UNCHANGED <<config, life, hot, limit, pending, owedBytes, queue, disk, todo,
                 unlinks, added, writer, faults, crashes, disturbed>>

\* ... one in the hot cache or the buffer is left alone ...
SaveInHot(t) ==
  /\ pc[t] = "inHot"
  /\ cur[t].hash \in Hashes(hot)
  /\ kept' = kept \cup {cur[t].hash}
  /\ Done(t)
  /\ UNCHANGED <<config, life, memory, disk, todo, unlinks, writer, counts, disturbed>>

\* ... and with the hot cache off, a full queue refuses a new one.
SaveRefused(t) ==
  /\ pc[t] = "inHot" /\ cur[t].hash \notin Hashes(hot)
  /\ mode = "buffer" /\ Room = 0
  /\ Done(t)
  /\ UNCHANGED <<config, life, memory, disk, todo, unlinks, writer, counts, kept, disturbed>>

\* Write-back: the hot cache alone.
SaveHot(t) ==
  /\ pc[t] = "inHot" /\ cur[t].hash \notin Hashes(hot)
  /\ mode # "buffer"
  /\ pc' = [pc EXCEPT ![t] = "hotPut"]
  /\ UNCHANGED <<config, life, memory, disk, cur, todo, unlinks, added, writer, counts,
                 kept, disturbed>>

PutHot(t) ==
  /\ pc[t] = "hotPut"
  /\ HotPut(t, cur[t], "idle")
  /\ cur' = [cur EXCEPT ![t] = NoEntry]
  /\ UNCHANGED <<config, life, index, limit, pending, owedBytes, queue, disk, unlinks,
                 added, writer, counts, disturbed>>

\* Write-through: room in the index, then the index entry (UnlinkEvicted) ...
SaveMakesRoom(t) ==
  /\ pc[t] = "inHot" /\ cur[t].hash \notin Hashes(hot)
  /\ mode = "buffer" /\ Room > 0
  /\ Evicting(t) /\ Losing(Hashes(First(index, Over)))
  /\ pc' = [pc EXCEPT ![t] = "unlink"]
  /\ UNCHANGED <<config, life, hot, limit, pending, owedBytes, queue, disk, cur, todo,
                 added, writer, counts, disturbed>>

\* ... then the buffer to read it from, then the write.
SaveBuffers(t) ==
  /\ pc[t] = "buffer"
  /\ hot' = Append(Without(hot, cur[t].hash), cur[t])
  /\ pc' = [pc EXCEPT ![t] = "bufferPut"]
  /\ UNCHANGED <<config, life, index, limit, pending, owedBytes, queue, disk, cur, todo,
                 unlinks, added, writer, counts, kept, disturbed>>

SaveQueues(t) ==
  /\ pc[t] = "bufferPut"
  /\ \/ /\ Room > 0
        /\ queue' = Append(queue, WriteItem(cur[t]))
        /\ kept' = kept \cup {cur[t].hash}
        /\ UNCHANGED <<index, hot>>
     \/ /\ Room = 0
        /\ index' = Without(index, cur[t].hash)
        /\ hot' = Without(hot, cur[t].hash)
        /\ UNCHANGED <<queue, kept>>
  /\ Done(t)
  /\ UNCHANGED <<config, life, limit, pending, owedBytes, disk, todo, unlinks, writer,
                 counts, disturbed>>

Saving(t) ==
  \/ SaveInHot(t) \/ SaveRefused(t) \/ SaveHot(t) \/ PutHot(t)
  \/ SaveMakesRoom(t) \/ SaveBuffers(t) \/ SaveQueues(t)

------------------------------------------------------------------------------
(* load_block, load_block_with_metadata *)

\* _in_memory_entry: the hot cache, then the entries waiting for their write.
LoadBegin(t, h) ==
  /\ MayBegin(t, "load") /\ Begin
  /\ \/ /\ h \in Hashes(hot) \cup pending
        /\ hot' = IF h \in Hashes(hot) THEN Append(Without(hot, h), EntryOf(hot, h)) ELSE hot
        /\ index' = Touched(h)
        /\ UNCHANGED <<pc, cur>>
     \/ /\ h \notin Hashes(hot) \cup pending
        /\ pc' = [pc EXCEPT ![t] = "inIndex"]
        /\ cur' = [cur EXCEPT ![t] = [hash |-> h, path |-> 0]]
        /\ UNCHANGED <<hot, index>>
  /\ UNCHANGED <<config, life, limit, pending, owedBytes, queue, disk, todo, unlinks,
                 added, writer, faults, crashes, kept, disturbed>>

LoadIndex(t) ==
  /\ pc[t] = "inIndex"
  /\ \/ /\ cur[t].hash \in Hashes(index)
        /\ cur' = [cur EXCEPT ![t] = EntryOf(index, cur[t].hash)]
        /\ pc' = [pc EXCEPT ![t] = "exists"]
        /\ UNCHANGED added
     \/ /\ cur[t].hash \notin Hashes(index)
        /\ Done(t)
  /\ UNCHANGED <<config, life, memory, disk, todo, unlinks, writer, counts, kept, disturbed>>

LoadExists(t) ==
  /\ pc[t] = "exists"
  /\ pc' = [pc EXCEPT ![t] = IF FileAt(cur[t].hash, cur[t].path) THEN "read" ELSE "missing"]
  /\ UNCHANGED <<config, life, memory, disk, cur, todo, unlinks, added, writer, counts,
                 kept, disturbed>>

\* A missing file takes its block out of the index.
LoadMissing(t) ==
  /\ pc[t] = "missing"
  /\ index' = Without(index, cur[t].hash)
  /\ Done(t)
  /\ UNCHANGED <<config, life, hot, limit, pending, owedBytes, queue, disk, todo, unlinks,
                 writer, counts, kept, disturbed>>

\* mx.load reads the file; the hot cache, when on, gets a copy.
LoadReads(t) ==
  /\ pc[t] = "read"
  /\ \E f \in disk : f.hash = cur[t].hash /\ f.path = cur[t].path /\ f.whole
  /\ index' = Touched(cur[t].hash)
  /\ \/ mode = "buffer" /\ Done(t)
     \/ /\ mode # "buffer"
        /\ pc' = [pc EXCEPT ![t] = "hotPut"]
        /\ UNCHANGED <<cur, added>>
  /\ UNCHANGED <<config, life, hot, limit, pending, owedBytes, queue, disk, todo, unlinks,
                 writer, counts, kept, disturbed>>

\* The file is gone by now, or truncated, or the read fails.
LoadFails(t) ==
  /\ pc[t] = "read"
  /\ \/ /\ ~ FileAt(cur[t].hash, cur[t].path)
        /\ UNCHANGED <<faults, kept>>
     \/ /\ \E f \in disk : f.hash = cur[t].hash /\ f.path = cur[t].path /\ ~ f.whole
        /\ UNCHANGED <<faults, kept>>
     \/ /\ FileAt(cur[t].hash, cur[t].path)
        /\ faults < MaxFaults
        /\ faults' = faults + 1
        /\ kept' = kept \ {cur[t].hash}
  /\ index' = Without(index, cur[t].hash)
  /\ pc' = [pc EXCEPT ![t] = "discard"]
  /\ UNCHANGED <<config, life, hot, limit, pending, owedBytes, queue, disk, cur, todo,
                 unlinks, added, writer, ops, crashes, disturbed>>

LoadDiscards(t) ==
  /\ pc[t] = "discard"
  /\ disk' = Unlinked(cur[t].hash, cur[t].path)
  /\ Done(t)
  /\ UNCHANGED <<config, life, memory, todo, unlinks, writer, counts, kept, disturbed>>

Loading(t) ==
  \/ LoadIndex(t) \/ LoadExists(t) \/ LoadMissing(t) \/ LoadReads(t)
  \/ LoadFails(t) \/ LoadDiscards(t)

------------------------------------------------------------------------------
(* Memory pressure and the admin routes *)

\* shed_hot_cache of n blocks: those already on the SSD first, then unsaved
\* ones, dropped or, while the queue has room, queued.
Shed(t, n, dropDirty) ==
  /\ MayBegin(t, "shed") /\ Begin
  /\ mode # "buffer"
  /\ LET clean == Kept(hot, Of(Hashes(index)))
         dirty == Kept(hot, Of(Hash \ Hashes(index)))
         usable == IF dropDirty THEN dirty
                   ELSE IF CanWrite THEN First(dirty, Room) ELSE <<>>
         gone == Hashes(First(clean \o usable, n))
         toWrite == IF dropDirty THEN <<>> ELSE Kept(dirty, Of(gone))
     IN /\ hot' = Kept(hot, Of(Hash \ gone))
        /\ limit' = IF Len(hot') < limit THEN Len(hot') ELSE limit
        /\ todo' = [todo EXCEPT ![t] = toWrite]
        /\ pc' = [pc EXCEPT ![t] = IF toWrite = <<>> THEN "idle" ELSE "enqueue"]
        /\ kept' = IF dropDirty THEN kept \ (gone \cap Hashes(dirty)) ELSE kept
  /\ UNCHANGED <<config, life, index, pending, owedBytes, queue, disk, cur, unlinks,
                 added, writer, faults, crashes, disturbed>>

\* relax_hot_cache_limit.
Relax(t) ==
  /\ MayBegin(t, "shed") /\ Begin
  /\ mode # "buffer"
  /\ limit < HotMax
  /\ limit' = limit + 1
  /\ UNCHANGED <<config, life, index, hot, pending, owedBytes, queue, disk, caller,
                 writer, faults, crashes, kept, disturbed>>

\* clear_hot_cache.
ClearHot(t) ==
  /\ MayBegin(t, "clear") /\ Begin
  /\ hot' = <<>>
  /\ kept' = kept \ Hashes(hot)
  /\ disturbed' = (disturbed \/ (mode = "buffer" /\ hot # <<>>))
  /\ UNCHANGED <<config, life, index, limit, pending, owedBytes, queue, disk, caller,
                 writer, faults, crashes>>

\* clear(): delete_block of everything in the index, each in three accesses.
ClearBegin(t) ==
  /\ MayBegin(t, "clear") /\ Begin
  /\ unlinks' = [unlinks EXCEPT ![t] = index]
  /\ pc' = [pc EXCEPT ![t] = IF index = <<>> THEN "wipe" ELSE "deleteHot"]
  /\ UNCHANGED <<config, life, memory, disk, cur, todo, added, writer, faults, crashes,
                 kept, disturbed>>

DeleteHot(t) ==
  /\ pc[t] = "deleteHot"
  /\ hot' = Without(hot, Head(unlinks[t]).hash)
  /\ pc' = [pc EXCEPT ![t] = "deleteIndex"]
  /\ kept' = kept \ {Head(unlinks[t]).hash}
  /\ UNCHANGED <<config, life, index, limit, pending, owedBytes, queue, disk, cur, todo,
                 unlinks, added, writer, counts, disturbed>>

\* The next block, or the rest of the route.
Deleted(t) ==
  /\ unlinks' = [unlinks EXCEPT ![t] = Tail(@)]
  /\ pc' = [pc EXCEPT ![t] = IF Len(unlinks[t]) = 1 THEN "wipe" ELSE "deleteHot"]

\* A block evicted meanwhile is no longer there to be deleted.
DeleteIndex(t) ==
  /\ pc[t] = "deleteIndex"
  /\ index' = Without(index, Head(unlinks[t]).hash)
  /\ kept' = kept \ {Head(unlinks[t]).hash}
  /\ \/ /\ Head(unlinks[t]).hash \in Hashes(index)
        /\ pc' = [pc EXCEPT ![t] = "deleteFile"]
        /\ UNCHANGED unlinks
     \/ Head(unlinks[t]).hash \notin Hashes(index) /\ Deleted(t)
  /\ UNCHANGED <<config, life, hot, limit, pending, owedBytes, queue, disk, cur, todo,
                 added, writer, counts, disturbed>>

DeleteFile(t) ==
  /\ pc[t] = "deleteFile"
  /\ disk' = Unlinked(Head(unlinks[t]).hash, Head(unlinks[t]).path)
  /\ Deleted(t)
  /\ UNCHANGED <<config, life, memory, cur, todo, added, writer, counts, kept, disturbed>>

\* The route then removes every file that is left.
Wipe(t) ==
  /\ pc[t] = "wipe"
  /\ \/ /\ \E f \in disk : /\ disk' = disk \ {f}
                           /\ kept' = kept \ {f.hash}
        /\ UNCHANGED pc
     \/ disk = {} /\ pc' = [pc EXCEPT ![t] = "idle"] /\ UNCHANGED <<disk, kept>>
  /\ UNCHANGED <<config, life, memory, cur, todo, unlinks, added, writer, counts, disturbed>>

Clearing(t) == DeleteHot(t) \/ DeleteIndex(t) \/ DeleteFile(t) \/ Wipe(t)

------------------------------------------------------------------------------
(* _writer_loop *)

\* A write of h is queued, or about to be.
WriteComing(h) ==
  \/ \E i \in 1 .. Len(queue) : queue[i].op = "write" /\ queue[i].hash = h
  \/ \E t \in Thread : pc[t] \in {"unlink", "put", "buffer", "bufferPut"} /\ cur[t].hash = h

WGet ==
  /\ up /\ CanWrite /\ wpc = "get" /\ queue # <<>>
  /\ queue' = Tail(queue)
  /\ LET item == Head(queue)
     IN \/ /\ item.op = "unlink"
           /\ disk' = Unlinked(item.hash, item.path)
           /\ UNCHANGED writer
        \/ /\ item.op = "write"
           /\ witem' = [hash |-> item.hash, path |-> item.path]
           /\ wpc' = "open"
           /\ UNCHANGED disk
  /\ UNCHANGED <<config, life, index, hot, limit, pending, owedBytes, caller, counts, kept,
                 disturbed>>

\* The temporary file exists before it is complete.
WOpen ==
  /\ wpc = "open"
  /\ disk' = Unlinked(witem.hash, witem.path + 1)
               \cup {[hash |-> witem.hash, path |-> witem.path + 1, whole |-> FALSE]}
  /\ wpc' = "data"
  /\ UNCHANGED <<config, life, memory, witem, caller, counts, kept, disturbed>>

WData ==
  /\ wpc = "data"
  /\ disk' = {IF f.hash = witem.hash /\ f.path = witem.path + 1
              THEN [f EXCEPT !.whole = TRUE] ELSE f : f \in disk}
  /\ wpc' = "rename"
  /\ UNCHANGED <<config, life, memory, witem, caller, counts, kept, disturbed>>

\* os.rename; it raises if a route has removed the temporary file.
WRename ==
  /\ wpc = "rename"
  /\ \/ /\ FileAt(witem.hash, witem.path + 1)
        /\ disk' = {f \in disk : ~ (f.hash = witem.hash
                                    /\ f.path \in {witem.path, witem.path + 1})}
                     \cup {[hash |-> witem.hash, path |-> witem.path, whole |-> TRUE]}
        /\ wpc' = "check"
     \/ /\ ~ FileAt(witem.hash, witem.path + 1)
        /\ wpc' = "fail"
        /\ UNCHANGED disk
  /\ UNCHANGED <<config, life, memory, witem, caller, counts, kept, disturbed>>

\* Mutant: the writer does not look whether its block is still wanted.
WCheckSkipped ==
  /\ wpc = "check"
  /\ wpc' = "finish"
  /\ UNCHANGED <<config, life, memory, disk, witem, caller, counts, kept, disturbed>>

\* A block evicted while its write was pending loses the file again.
WCheck ==
  /\ wpc = "check"
  /\ wpc' = IF witem.hash \in Hashes(index) THEN "finish" ELSE "unlink"
  /\ disturbed' = (disturbed \/ WriteComing(witem.hash))
  /\ UNCHANGED <<config, life, memory, disk, witem, caller, counts, kept>>

WUnlink ==
  /\ wpc = "unlink"
  /\ disk' = Unlinked(witem.hash, witem.path)
  /\ wpc' = "finish"
  /\ UNCHANGED <<config, life, memory, witem, caller, counts, kept, disturbed>>

\* The disk is full, or any other error.
WError ==
  /\ wpc \in {"open", "data"}
  /\ faults < MaxFaults
  /\ faults' = faults + 1
  /\ wpc' = "fail"
  /\ UNCHANGED <<config, life, memory, disk, witem, caller, ops, crashes, kept, disturbed>>

WFail ==
  /\ wpc = "fail"
  /\ index' = Without(index, witem.hash)
  /\ kept' = kept \ {witem.hash}
  /\ disturbed' = (disturbed \/ WriteComing(witem.hash))
  /\ wpc' = "cleanup"
  /\ UNCHANGED <<config, life, hot, limit, pending, owedBytes, queue, disk, witem, caller,
                 counts>>

WCleanup ==
  /\ wpc = "cleanup"
  /\ disk' = {f \in disk : ~ (f.hash = witem.hash
                              /\ f.path \in {witem.path, witem.path + 1})}
  /\ wpc' = "finish"
  /\ UNCHANGED <<config, life, memory, witem, caller, counts, kept, disturbed>>

\* Mutant: a block stays among the pending entries.
StillPending(h) == pending

NoLongerPending(h) == pending \ {h}

\* The finally clause: the block is no longer pending, whichever write of it
\* this was; with the hot cache off, its buffer goes too.
WFinish ==
  /\ wpc = "finish"
  /\ pending' = NoLongerPending(witem.hash)
  /\ owedBytes' = owedBytes \ {witem.hash}
  /\ disturbed' = (disturbed \/ WriteComing(witem.hash))
  /\ wpc' = IF mode = "buffer" THEN "drop" ELSE "get"
  /\ witem' = IF mode = "buffer" THEN witem ELSE NoEntry
  /\ UNCHANGED <<config, life, index, hot, limit, queue, disk, caller, counts, kept>>

WDrop ==
  /\ wpc = "drop"
  /\ hot' = Without(hot, witem.hash)
  /\ disturbed' = (disturbed \/ WriteComing(witem.hash)
                   \/ witem.hash \in kept \ Hashes(index))
  /\ wpc' = "get" /\ witem' = NoEntry
  /\ UNCHANGED <<config, life, index, limit, pending, owedBytes, queue, disk, caller,
                 counts, kept>>

Writing ==
  \/ WGet \/ WOpen \/ WData \/ WRename \/ WCheck \/ WUnlink \/ WFail \/ WCleanup
  \/ WFinish \/ WDrop

------------------------------------------------------------------------------
(* The life of the manager *)

\* What is in memory goes; the files stay.
Emptied ==
  /\ up' = FALSE /\ closing' = FALSE
  /\ index' = <<>> /\ hot' = <<>> /\ queue' = <<>> /\ pending' = {} /\ owedBytes' = {}
  /\ pc' = [t \in Thread |-> "idle"] /\ cur' = [t \in Thread |-> NoEntry]
  /\ todo' = [t \in Thread |-> <<>>] /\ unlinks' = [t \in Thread |-> <<>>]
  /\ added' = [t \in Thread |-> FALSE]
  /\ wpc' = "get" /\ witem' = NoEntry

\* The process dies: what was complete on disk, and only that, is owed.
Crash ==
  /\ up /\ crashes < MaxCrashes
  /\ crashes' = crashes + 1
  /\ Emptied
  /\ kept' = kept \cap {f.hash : f \in {g \in disk : g.whole}}
  /\ UNCHANGED <<config, limit, disk, ops, faults, disturbed>>

\* close(), called when the threads that use the manager have stopped: every
\* block of the hot cache without a file is queued.
CloseBegin(t) ==
  /\ up /\ ~ closing /\ AtRest /\ crashes < MaxCrashes
  /\ "close" \in May[t]
  /\ crashes' = crashes + 1
  /\ closing' = TRUE
  /\ todo' = [todo EXCEPT ![t] = IF mode = "hot" THEN hot ELSE <<>>]
  /\ pc' = [pc EXCEPT ![t] = IF mode = "hot" /\ hot # <<>> THEN "enqueue" ELSE "idle"]
  /\ UNCHANGED <<config, up, memory, disk, cur, unlinks, added, writer, ops, faults, kept,
                 disturbed>>

\* The writer is joined after it has emptied the queue (the join's timeout of
\* a minute or two is taken to suffice).
CloseEnd ==
  /\ closing /\ AtRest /\ queue = <<>> /\ wpc = "get"
  /\ Emptied
  /\ kept' = IF mode = "ram" THEN {} ELSE kept
  /\ UNCHANGED <<config, limit, disk, counts, disturbed>>

\* __init__ with _scan_existing_files.  The glob finds temporary files as well;
\* a truncated one may or may not answer its header.  Files come in the order
\* of their mtime, which later hits may have renewed: any order.
Open ==
  /\ ~ up
  /\ up' = TRUE
  /\ limit' = IF mode = "buffer" THEN 0 ELSE HotMax
  /\ \E readable \in SUBSET {f \in disk : ~ f.whole} :
     /\ disturbed' = (disturbed \/ readable # {})
     /\ LET found == readable \cup {f \in disk : f.whole}
           names == {f.hash : f \in found}
       IN \E order \in SetToSeqs(names) :
            \E last \in [names -> Path] :
              /\ \A h \in names : \E f \in found : f.hash = h /\ f.path = last[h]
              /\ index' = [i \in 1 .. Len(order) |->
                             [hash |-> order[i], path |-> last[order[i]]]]
  /\ UNCHANGED <<config, closing, hot, pending, owedBytes, queue, disk, caller, writer,
                 counts, kept>>

------------------------------------------------------------------------------
\* Nothing under way in any thread.
Quiet == up /\ ~ closing /\ AtRest /\ queue = <<>> /\ wpc = "get"

\* The callers have nothing more to ask.
Terminated == Quiet /\ ops = OpsMax /\ UNCHANGED vars

Step(t) == Enqueuing(t) \/ Saving(t) \/ Loading(t) \/ Clearing(t)

Next ==
  \/ \E t \in Thread :
       \/ \E h \in Hash : SaveBegin(t, h) \/ LoadBegin(t, h)
       \/ \E n \in 1 .. HotMax, drop \in BOOLEAN : Shed(t, n, drop)
       \/ Relax(t) \/ ClearHot(t) \/ ClearBegin(t) \/ CloseBegin(t)
       \/ Step(t)
  \/ Writing \/ WError
  \/ Crash \/ CloseEnd \/ Open \/ Terminated

\* The calling threads and the writer run their straight-line code to its end.
Fairness == WF_vars(Writing) /\ \A t \in Thread : WF_vars(Step(t))

Spec == Init /\ [][Next]_vars /\ Fairness

------------------------------------------------------------------------------
\* Types; no block is twice in the index or in the hot cache.
TypeOK ==
  /\ mode \in Modes /\ overlap \in Overlapping /\ up \in BOOLEAN /\ closing \in BOOLEAN
  /\ index \in Seq(Entry) /\ hot \in Seq(Entry)
  /\ Cardinality(Hashes(index)) = Len(index) /\ Cardinality(Hashes(hot)) = Len(hot)
  /\ limit \in 0 .. HotMax
  /\ pending \subseteq Hash /\ owedBytes \subseteq Hash /\ kept \subseteq Hash
  /\ queue \in Seq([op : {"write", "unlink"}, hash : Hash, path : Path])
  /\ Len(queue) <= QueueMax
  /\ disk \subseteq [hash : Hash, path : Path, whole : BOOLEAN]
  /\ \A t \in Thread : todo[t] \in Seq(Entry) /\ unlinks[t] \in Seq(Entry)

Whole(e) == [hash |-> e.hash, path |-> e.path, whole |-> TRUE] \in disk

\* A lookup for the block would be answered.
Loadable(h) ==
  \/ h \in Hashes(hot) \cup pending
  \/ \E t \in Thread : h \in Hashes(todo[t])
  \/ h \in Hashes(index) /\ Whole(EntryOf(index, h))

Calm == ~ overlap /\ ~ disturbed

\* A block save_block answered True for stays loadable until an eviction, a
\* deletion, a failed write or a crash takes it: through the hot cache, the
\* queue, the disk, a close and a restart.
KeptLoadable == (up /\ Calm) => \A h \in kept : Loadable(h)

\* Once the writer is idle the files are those in the index: none is lost to
\* its accounting, and none of it points at nothing.
DiskMatchesIndex ==
  (Quiet /\ Calm) =>
    /\ \A i \in 1 .. Len(index) : FileAt(index[i].hash, index[i].path)
    /\ \A f \in disk : f.whole => \E i \in 1 .. Len(index) :
                                    index[i].hash = f.hash /\ index[i].path = f.path

\* ... no block is still taken for pending, and no buffer is left behind.
NothingPending == Quiet => pending = {} /\ (mode = "buffer" => hot = <<>>)

\* Of blocks that are on the SSD, or have no SSD to go to, the hot cache holds no
\* more than its limit (and the newest): only unsaved ones the queue has no room for exceed it.
SavedWithinLimit ==
  (Calm /\ mode # "buffer" /\ AtRest /\ ~ closing) =>
    \/ Len(Kept(hot, Entry \ Unsaved)) <= limit
    \/ Len(Kept(hot, Entry \ Unsaved)) = 1

\* The index exceeds its target by no more than one block, however large that is
\* beside the reserve; where calls overlap, by no more than one of each thread (a
\* scan takes all the files there are).
SizeLimit ==
  crashes = 0 => Total(index) <= Target + Largest * (IF overlap THEN Cardinality(Thread) ELSE 1)

\* Every queued write ends.
WritesEnd == \A h \in Hash : (h \in pending) ~> (h \notin pending)
==============================================================================
