------------------------------ MODULE Scheduler ------------------------------
(****************************************************************************)
(* The Scheduler of omlx/scheduler.py, as the inference thread of one       *)
(* engine runs it: a request goes from the waiting queue through its        *)
(* prefill into the rows of the batch generator, and from there, finished,  *)
(* to the store worker, while the event loop puts requests down for abort   *)
(* at any moment.  EngineCore composes it with the engine loop and the      *)
(* consumers of the streams.                                                *)
(*                                                                          *)
(* step() is a sequence of phases on the inference thread (ipc); what other *)
(* threads can touch meanwhile is the set of pending aborts, the store      *)
(* gate and the futures of the stores.  The batch generator (mlx_lm,        *)
(* external) is the map from its row uids to the requests they belong to;   *)
(* a new generator starts again from uid 0.                                 *)
(****************************************************************************)
EXTENDS Integers, Sequences, FiniteSets, SequencesExt, Queues

CONSTANTS
  Request,
  Chunks,      \* Chunks[r]: prefill chunks of r; 0 if it is not prefilled in chunks
  Sparse,      \* the requests that SpecPrefill may score (specprefill_indices)
  Cached,      \* the requests whose KV cache can be stored when they finish
  MaxSeqs,     \* config.max_num_seqs
  MaxWaiting,  \* the cap of the waiting queue
  MaxRetries,  \* max_corruption_retries
  ClearDelay,  \* _DEFERRED_CLEAR_DELAY
  Tokens,      \* bound: the responses each request takes to finish, at most
  Faults,      \* the faults that occur: "memory", "corruption", "sparse", "other"
  MaxFaults    \* bound: faults

NoReq == "none"

ASSUME SchedulerAssumption ==
  /\ IsFiniteSet(Request) /\ NoReq \notin Request
  /\ Chunks \in [Request -> Nat]
  /\ Sparse \subseteq Request /\ Cached \subseteq Request
  /\ {MaxSeqs, MaxWaiting, ClearDelay} \subseteq Nat \ {0}
  /\ Tokens \in [Request -> Nat \ {0}]
  /\ {MaxRetries, MaxFaults} \subseteq Nat
  /\ Faults \subseteq {"memory", "corruption", "sparse", "other"}

VARIABLES
  requests,   \* the keys of self.requests
  waiting, prefilling, running,
  states,     \* _prefill_states: chunks left per request (0: no state)
  rows,       \* the batch generator: uid -> request
  nextUid,    \* the uid it gives next (0 with no rows: there is none)
  uidOf,      \* request_id_to_uid
  ridOf,      \* uid_to_request_id
  aborts,     \* _pending_abort_ids
  removes,    \* _pending_async_removes: [uid, req]
  stores,     \* the store executor: requests whose store is queued or running
  stored,     \* requests whose store is done and not yet drained
  inFlight, cap, \* the store gate
  produced,   \* len(output_token_ids)
  retries,    \* cache_corruption_retries
  clearIn,    \* steps to the deferred clear, 0: none is due
  ipc,        \* what the inference thread does
  todo, still, \* _advance_chunked_prefills: requests to go, still_prefilling
  makeup,     \* what the batch of _schedule_waiting is made of (see Fits)
  finishing,  \* finished_ids
  rejects, outs, \* the error outputs and the outputs of the current step
  indices,    \* requests whose specprefill_indices are set
  active,     \* _specprefill_active_request_id: the model's RoPE is patched for it
  faults,
  length,     \* history: responses the finished generation of a request had
  lost        \* history: requests dropped without an output for their stream

queues == <<requests, waiting, prefilling, running, states>>
batch == <<rows, nextUid, uidOf, ridOf>>
storing == <<removes, stores, stored, inFlight, cap>>
progress == <<produced, retries, length>>
phase == <<ipc, todo, still, makeup, finishing, rejects, outs>>
sparse == <<indices, active>>
schedVars == <<queues, batch, aborts, storing, progress, clearIn, phase, sparse, faults, lost>>

NoUid == -1
TempUid == -2  \* id(request), the uid of a request during its own prefill

NoRows == [u \in {} |-> NoReq]   \* and no uid mapped
RowsOf(r) == {u \in DOMAIN rows : rows[u] = r}
Unmapped(u) == [v \in DOMAIN ridOf \ {u} |-> ridOf[v]]
WithoutRows(us) == [u \in DOMAIN rows \ us |-> rows[u]]

\* Mutant: a finished or aborted request stays in the queue it was in.
DropNothing(s, r) == s

Drop(s, r) == Kept(s, ToSet(s) \ {r})

Output(r, n, end) == [req |-> r, token |-> n, end |-> end]

\* Mutant: the error output does not carry its error.
ErrorUnflagged(r) == Output(r, 0, "finish")

Error(r) == Output(r, 0, "error")

SchedInit ==
  /\ requests = {} /\ waiting = <<>> /\ prefilling = <<>> /\ running = <<>>
  /\ states = [r \in Request |-> 0]
  /\ rows = NoRows /\ nextUid = 0
  /\ uidOf = [r \in Request |-> NoUid] /\ ridOf = NoRows
  /\ aborts = {} /\ removes = <<>> /\ stores = <<>> /\ stored = {}
  /\ inFlight = 0 /\ cap = MaxSeqs
  /\ produced = [r \in Request |-> 0] /\ retries = [r \in Request |-> 0]
  /\ length = [r \in Request |-> 0]
  /\ clearIn = 0
  /\ ipc = "free" /\ todo = <<>> /\ still = <<>> /\ makeup = "none"
  /\ finishing = {} /\ rejects = {} /\ outs = {}
  /\ indices \in SUBSET Sparse /\ active = NoReq
  /\ faults = 0 /\ lost = {}

\* has_requests: only the head of the deferred removals counts.
HasRequests ==
  \/ waiting # <<>> \/ prefilling # <<>> \/ running # <<>>
  \/ clearIn > 0
  \/ removes # <<>> /\ Head(removes).req \in stored

\* A fault that may occur now.
Fault(kind) == kind \in Faults /\ faults < MaxFaults /\ faults' = faults + 1

------------------------------------------------------------------------------
(* add_request: a job of its own on the inference thread *)

QueueFull == Len(waiting) >= MaxWaiting

Admit(r) ==
  /\ ~ QueueFull
  /\ requests' = requests \cup {r}
  /\ waiting' = Append(waiting, r)
  /\ UNCHANGED <<prefilling, running, states, batch, storing, progress, clearIn, todo,
                 still, makeup, finishing, rejects, outs, faults, lost, sparse>>

------------------------------------------------------------------------------
(* step(): the pending aborts, then the removals put off *)

\* _do_abort_request.  The uid it removes is the one the request was last
\* given; del of a uid that is no longer mapped raises, outside step()'s try.
DoAbort(r) ==
  /\ ipc = "aborts" /\ r \in aborts
  /\ aborts' = aborts \ {r}
  /\ \/ r \notin requests /\ UNCHANGED <<queues, batch, phase, lost>>
     \/ /\ r \in requests
        /\ waiting' = Drop(waiting, r)
        /\ states' = [states EXCEPT ![r] = 0]
        /\ prefilling' = IF states[r] > 0 THEN Drop(prefilling, r) ELSE prefilling
        /\ LET u == uidOf[r]
           IN \/ /\ u >= 0
                 /\ rows' = WithoutRows({u})
                 /\ lost' = lost \cup {x \in ToSet(running) \ {r} : u \in RowsOf(x)}
                 /\ \/ /\ u \in DOMAIN ridOf
                       /\ ridOf' = Unmapped(u)
                       /\ uidOf' = [uidOf EXCEPT ![r] = NoUid]
                       /\ running' = Drop(running, r)
                       /\ requests' = requests \ {r}
                       /\ UNCHANGED ipc
                    \/ /\ u \notin DOMAIN ridOf
                       /\ ipc' = "raise"
                       /\ UNCHANGED <<ridOf, uidOf, running, requests>>
              \/ /\ u < 0
                 /\ uidOf' = [uidOf EXCEPT ![r] = NoUid]
                 /\ running' = Drop(running, r)
                 /\ requests' = requests \ {r}
                 /\ UNCHANGED <<rows, ridOf, ipc, lost>>
        /\ UNCHANGED <<nextUid, todo, still, makeup, finishing, rejects, outs>>
  /\ UNCHANGED <<storing, progress, clearIn, faults, sparse>>

\* No abort is pending any more, and the removals' turn has come.
Draining == ipc = "drain" \/ (ipc = "aborts" /\ aborts = {})

\* Mutant: the deferred removal takes the uid whoever has it now.
OwnedByAny(e) == TRUE

\* The uid is touched only while the request still owns it.
StillOwned(e) == e.uid \in DOMAIN ridOf /\ ridOf[e.uid] = e.req

\* _drain_pending_async_removes: in order, up to the first unfinished store.
Drain ==
  /\ Draining /\ ipc' = "drain"
  /\ removes # <<>>
  /\ LET e == Head(removes)
     IN /\ e.req \in stored
        /\ removes' = Tail(removes)
        /\ stored' = stored \ {e.req}
        /\ rows' = IF StillOwned(e) THEN WithoutRows({e.uid}) ELSE rows
        /\ ridOf' = IF StillOwned(e) THEN Unmapped(e.uid) ELSE ridOf
        /\ uidOf' = IF uidOf[e.req] = e.uid THEN [uidOf EXCEPT ![e.req] = NoUid] ELSE uidOf
        /\ requests' = requests \ {e.req}
  /\ UNCHANGED <<waiting, prefilling, running, states, nextUid, aborts, stores, inFlight,
                 cap, progress, clearIn, todo, still, makeup, finishing,
                 rejects, outs, faults, lost, sparse>>

\* Decoding goes first for as long as the last chunks took, if there is any.
DrainDone ==
  /\ Draining
  /\ removes # <<>> => Head(removes).req \notin stored
  /\ \/ prefilling # <<>> /\ ipc' = "chunks" /\ todo' = prefilling /\ still' = <<>>
     \/ /\ prefilling = <<>> \/ running # <<>>
        /\ ipc' = "schedule" /\ UNCHANGED <<todo, still>>
  /\ makeup' = "none"
  /\ UNCHANGED <<queues, batch, aborts, storing, progress, clearIn, finishing, rejects, outs,
                 faults, lost, sparse>>

------------------------------------------------------------------------------
(* Errors of a step *)

\* The rejections that are not yet in the output go with the exception, and so
\* does a request that is in no queue.
Dropped(rs) == lost \cup rejects \cup rs

\* _reschedule_running_requests: to the front of the queue, the last one first.
Restarting(rs) == [x \in Request |-> IF x \in ToSet(rs) THEN 0 ELSE produced[x]]

\* _PrefillAbortedError: the generator goes and the running requests start
\* over; the uids stay mapped, and the aborted request (which only sparse
\* prefill puts back) is left to the next step's aborts.
PrefillAborted(r, back) ==
  /\ ipc' = "end"
  /\ rows' = NoRows /\ nextUid' = 0
  /\ waiting' = Reverse(running) \o (IF back THEN <<r>> ELSE <<>>) \o Tail(waiting)
  /\ running' = <<>>
  /\ produced' = Restarting(running)
  /\ lost' = Dropped({})
  /\ rejects' = {}

\* A corrupted cache, noticed while rs were in no queue: generator, uids and
\* caches are cleared; running requests start over unless they did too often.
Recover(rs, queue) ==
  LET again == Kept(running, {x \in Request : retries[x] < MaxRetries})
      failed == ToSet(running) \ ToSet(again)
  IN /\ ipc' = "end"
     /\ rows' = NoRows /\ nextUid' = 0
     /\ uidOf' = [x \in Request |-> NoUid] /\ ridOf' = NoRows
     /\ retries' = [x \in Request |-> retries[x] + (IF x \in ToSet(running) THEN 1 ELSE 0)]
     /\ produced' = Restarting(again)
     /\ waiting' = Reverse(again) \o queue
     /\ running' = <<>>
     /\ requests' = requests \ failed
     /\ outs' = outs \cup {Error(x) : x \in failed}
     /\ lost' = Dropped(rs)
     /\ rejects' = {}
     /\ clearIn' = 0

\* Any other exception leaves step(), with all of its output.
Raise(rs) ==
  /\ ipc' = "raise"
  /\ lost' = Dropped(rs) \cup {o.req : o \in outs}
  /\ rejects' = {} /\ outs' = {}

\* fail_all_requests, the engine loop's answer: the uids stay mapped, and the
\* blocks referenced.
Failed == ToSet(running) \cup ToSet(prefilling) \cup ToSet(waiting)

FailAll ==
  /\ requests' = requests \ Failed
  /\ waiting' = <<>> /\ prefilling' = <<>> /\ running' = <<>>
  /\ states' = [r \in Request |-> 0]
  /\ rows' = NoRows /\ nextUid' = 0
  /\ UNCHANGED <<uidOf, ridOf, aborts, storing, progress, clearIn, todo, still, makeup,
                 finishing, rejects, outs, faults, lost, sparse>>

------------------------------------------------------------------------------
(* Prefill *)

\* Mutant: a uid that is mapped already stays with its request.
MapOnce(u, r) == [v \in DOMAIN ridOf \cup {u} |-> IF v \in DOMAIN ridOf THEN ridOf[v] ELSE r]

\* The uid now belongs to r, whoever had it.
MapUid(u, r) == [v \in DOMAIN ridOf \cup {u} |-> IF v = u THEN r ELSE ridOf[v]]

\* batch_generator.insert, and the request is running.
Insert(r) ==
  /\ rows' = [u \in DOMAIN rows \cup {nextUid} |-> IF u = nextUid THEN r ELSE rows[u]]
  /\ nextUid' = nextUid + 1
  /\ uidOf' = [uidOf EXCEPT ![r] = nextUid]
  /\ ridOf' = MapUid(nextUid, r)
  /\ running' = Append(running, r)

\* A prefill that the memory limit refused or stopped: its error output is all
\* that is left of it; its blocks stay referenced.
Reject(r) ==
  /\ requests' = requests \ {r}
  /\ rejects' = rejects \cup {r}

\* _advance_chunked_prefills, one request.  One without a state was aborted.
NextChunk ==
  /\ ipc = "chunks" /\ todo # <<>>
  /\ todo' = Tail(todo)
  /\ LET r == Head(todo)
     IN \/ /\ states[r] = 0
           /\ UNCHANGED <<requests, running, states, batch, still, rejects, faults>>
        \/ /\ states[r] > 1
           /\ states' = [states EXCEPT ![r] = @ - 1]
           /\ still' = Append(still, r)
           /\ UNCHANGED <<requests, running, batch, rejects, faults>>
        \/ /\ states[r] = 1
           /\ states' = [states EXCEPT ![r] = 0]
           /\ Insert(r)
           /\ UNCHANGED <<requests, still, rejects, faults>>
        \/ /\ states[r] > 0
           /\ Fault("memory")
           /\ states' = [states EXCEPT ![r] = 0]
           /\ Reject(r)
           /\ UNCHANGED <<running, batch, still>>
  /\ prefilling' = IF todo' = <<>> THEN still' ELSE prefilling
  /\ ipc' = IF todo' = <<>> THEN "schedule" ELSE "chunks"
  /\ UNCHANGED <<waiting, aborts, storing, progress, clearIn, makeup, finishing, outs,
                 lost, sparse>>

\* Inserting the prefilled request raises: its state is gone, and the queue
\* (which is replaced only after the loop) still holds it.
ChunkRaises ==
  /\ ipc = "chunks" /\ todo # <<>>
  /\ states[Head(todo)] = 1
  /\ states' = [states EXCEPT ![Head(todo)] = 0]
  /\ \/ Fault("corruption") /\ Recover({Head(todo)}, waiting)
     \/ /\ Fault("other") /\ Raise({})
        /\ UNCHANGED <<requests, waiting, running, batch, retries, produced, clearIn>>
  /\ UNCHANGED <<prefilling, aborts, storing, length, todo, still, makeup, finishing, sparse>>

------------------------------------------------------------------------------
(* _schedule_waiting, one request at a time *)

CanSchedule == ipc = "schedule" /\ waiting # <<>> /\ Len(running) < MaxSeqs

\* The guards on SpecPrefill.  The batch is of "plain" requests, or "sparse", or of one
\* inserted request "alone"; "fallen": the sparse prefill of the head has failed,
\* and it goes on as any other.
Fits ==
  \/ makeup = "fallen"
  \/ Head(waiting) \in indices /\ makeup \in {"none", "sparse"}
  \/ /\ Head(waiting) \notin indices /\ active = NoReq
     /\ makeup \in {"none", "plain"}

Takeable == CanSchedule /\ Fits

\* What the batch is made of with the head, inserted or not.
With(inserted) ==
  IF makeup # "fallen" /\ Head(waiting) \notin indices THEN "plain"
  ELSE IF inserted THEN "alone" ELSE "sparse"

\* Refused by the memory guard before its prefill, or stopped in it.
ScheduleRefused ==
  /\ Takeable
  /\ Fault("memory")
  /\ waiting' = Tail(waiting)
  /\ Reject(Head(waiting))
  /\ makeup' = With(FALSE)
  /\ UNCHANGED <<prefilling, running, states, batch, aborts, storing, progress, clearIn, ipc,
                 todo, still, finishing, outs, sparse, lost>>

\* The first of its chunks; with a single one, or prefilled sparsely, it is inserted.
ScheduleChunked ==
  /\ Takeable
  /\ waiting' = Tail(waiting)
  /\ LET r == Head(waiting)
     IN \/ /\ r \notin indices /\ Chunks[r] > 1
           /\ prefilling' = Append(prefilling, r)
           /\ states' = [states EXCEPT ![r] = Chunks[r] - 1]
           /\ makeup' = With(FALSE)
           /\ UNCHANGED <<running, batch, active>>
        \/ /\ r \in indices \/ Chunks[r] <= 1
           /\ Insert(r)
           /\ makeup' = With(TRUE)
           /\ active' = IF r \in indices THEN r ELSE active
           /\ UNCHANGED <<prefilling, states>>
  /\ UNCHANGED <<requests, aborts, storing, progress, clearIn, ipc, todo, still, finishing,
                 rejects, outs, indices, faults, lost>>

\* Any exception of the sparse prefill: the head is to be prefilled in full.
SparseFails ==
  /\ Takeable /\ Head(waiting) \in indices
  /\ Fault("sparse")
  /\ indices' = indices \ {Head(waiting)}
  /\ makeup' = "fallen"
  /\ UNCHANGED <<queues, batch, aborts, storing, progress, clearIn, ipc, todo, still,
                 finishing, rejects, outs, active, lost>>

\* _do_external_prefill looks for an abort of its request between two chunks of the
\* prompt, and so does the sparse prefill, which puts it back, to be prefilled in full.
ScheduleAborted(back) ==
  /\ Takeable
  /\ back <=> Head(waiting) \in indices
  /\ ~ back => Chunks[Head(waiting)] = 0
  /\ Head(waiting) \in aborts
  /\ PrefillAborted(Head(waiting), back)
  /\ uidOf' = [uidOf EXCEPT ![Head(waiting)] = IF back THEN @ ELSE TempUid]
  /\ indices' = indices \ {Head(waiting)}
  /\ UNCHANGED <<requests, prefilling, states, ridOf, aborts, storing, retries, length,
                 clearIn, todo, still, makeup, finishing, outs, active, faults>>

\* Prefill or insert raises; the request has left the queue, the model perhaps patched.
ScheduleRaises ==
  /\ Takeable
  /\ \/ Fault("corruption") /\ Recover({Head(waiting)}, Tail(waiting))
     \/ /\ Fault("other") /\ Raise({Head(waiting)})
        /\ waiting' = Tail(waiting)
        /\ UNCHANGED <<requests, running, batch, retries, produced, clearIn>>
  /\ active' = active \/ (Head(waiting) \in indices /\ active' = Head(waiting))
  /\ UNCHANGED <<prefilling, states, aborts, storing, length, todo, still, makeup,
                 finishing, indices>>

\* The queue is empty or the batch full, or the head is put off: under memory
\* pressure while others run, or because it does not go with the batch (Fits, and
\* by its cache or images) or with the sparse request that is marked active.
ScheduleDone ==
  /\ ipc = "schedule" /\ makeup # "fallen"
  /\ Takeable => running # <<>> \/ makeup # "none"
  /\ outs' = outs \cup {Error(r) : r \in rejects}
  /\ rejects' = {}
  /\ ipc' = IF running # <<>> THEN "decode" ELSE "end"
  /\ UNCHANGED <<queues, batch, aborts, storing, progress, clearIn, todo, still, makeup,
                 finishing, sparse, faults, lost>>

------------------------------------------------------------------------------
(* Decode *)

\* _process_batch_responses: the requests that the responses of the rows are for.
Answering == {ridOf[u] : u \in DOMAIN rows \cap DOMAIN ridOf} \cap ToSet(running)

CleanupOr(rs) == IF rs = {} THEN "end" ELSE "cleanup"

\* One response per running row; some of them are the last.
Decode ==
  /\ ipc = "decode"
  /\ \E done \in SUBSET Answering :
       /\ {r \in Answering : produced[r] + 1 >= Tokens[r]} \subseteq done
       /\ produced' = [r \in Request |-> produced[r] + (IF r \in Answering THEN 1 ELSE 0)]
       /\ length' = [r \in Request |-> IF r \in done THEN produced'[r] ELSE length[r]]
       /\ outs' = outs \cup {Output(r, produced'[r], IF r \in done THEN "finish" ELSE "no") :
                               r \in Answering}
       /\ finishing' = done
       /\ clearIn' = IF done = {} THEN clearIn ELSE ClearDelay
  /\ ipc' = CleanupOr(finishing')
  /\ UNCHANGED <<queues, batch, aborts, storing, retries, todo, still, makeup, rejects,
                 faults, lost, sparse>>

DecodeRaises ==
  /\ ipc = "decode"
  /\ \/ Fault("corruption") /\ Recover({}, waiting)
     \/ /\ Fault("other") /\ Raise({})
        /\ UNCHANGED <<requests, waiting, running, batch, retries, produced, clearIn>>
  /\ UNCHANGED <<prefilling, states, aborts, storing, length, todo, still, makeup,
                 finishing, sparse>>

------------------------------------------------------------------------------
(* _cleanup_finished, and the store *)

\* Mutant: the mark of a finished request stays.
MarkKept(r) == active

\* _cleanup_specprefill.
Cleared(r) == IF active = r THEN NoReq ELSE active

\* The cache goes to the store worker once the gate has room (the inference
\* thread waits for it, and does nothing else), and the removal is put off.
CleanupStore(r) ==
  /\ ipc = "cleanup" /\ r \in finishing
  /\ r \in Cached \ indices
  /\ inFlight < cap
  /\ inFlight' = inFlight + 1
  /\ stores' = Append(stores, r)
  /\ removes' = Append(removes, [uid |-> uidOf[r], req |-> r])
  /\ running' = Drop(running, r)
  /\ finishing' = finishing \ {r}
  /\ ipc' = CleanupOr(finishing')
  /\ active' = Cleared(r)
  /\ UNCHANGED <<requests, waiting, prefilling, states, batch, aborts, stored, cap, progress,
                 clearIn, todo, still, makeup, rejects, outs, indices, faults, lost>>

\* Nothing to store, as after a sparse prefill: the request is removed here.
CleanupNow(r) ==
  /\ ipc = "cleanup" /\ r \in finishing
  /\ r \notin Cached \/ r \in indices
  /\ rows' = WithoutRows({uidOf[r]})
  /\ ridOf' = Unmapped(uidOf[r])
  /\ uidOf' = [uidOf EXCEPT ![r] = NoUid]
  /\ requests' = requests \ {r}
  /\ running' = Drop(running, r)
  /\ finishing' = finishing \ {r}
  /\ ipc' = CleanupOr(finishing')
  /\ active' = Cleared(r)
  /\ UNCHANGED <<waiting, prefilling, states, nextUid, aborts, storing, progress, clearIn,
                 todo, still, makeup, rejects, outs, indices, faults, lost>>

\* _async_store_cache_worker, and the future's callback.
StoreDone ==
  /\ stores # <<>>
  /\ stores' = Tail(stores)
  /\ stored' = stored \cup {Head(stores)}
  /\ inFlight' = inFlight - 1
  /\ UNCHANGED <<queues, batch, aborts, removes, cap, progress, clearIn, phase, sparse, faults,
                 lost>>

\* adjust_store_cache_cap, on a poll of the memory enforcer.
AdjustCap(n) ==
  /\ n \in {cap - 1, cap + 1}
  /\ cap' = n
  /\ UNCHANGED <<queues, batch, aborts, removes, stores, stored, inFlight, progress, clearIn,
                 phase, faults, lost, sparse>>

------------------------------------------------------------------------------
\* The phases of a step that the inference thread runs through by itself.
StepPhase ==
  \/ \E r \in Request : DoAbort(r) \/ CleanupStore(r) \/ CleanupNow(r)
  \/ Drain \/ DrainDone
  \/ NextChunk \/ ChunkRaises
  \/ ScheduleRefused \/ ScheduleChunked \/ SparseFails \/ (\E back \in BOOLEAN : ScheduleAborted(back))
  \/ ScheduleRaises \/ ScheduleDone
  \/ Decode \/ DecodeRaises

\* The rest of step() after its try statement.
StepReturns ==
  /\ clearIn' = IF clearIn > 0 THEN clearIn - 1 ELSE 0
  /\ outs' = {}
==============================================================================
