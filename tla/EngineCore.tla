----------------------------- MODULE EngineCore -----------------------------
(****************************************************************************)
(* EngineCore (omlx/engine_core.py) over its Scheduler: the engine loop     *)
(* that submits steps to the inference thread and hands their outputs to    *)
(* the collectors, and the consumers that read the collectors, leave, or    *)
(* are cut off.  The event loop runs one coroutine at a time; an action     *)
(* below is what one runs between two awaits.                               *)
(****************************************************************************)
EXTENDS Scheduler

CONSTANTS
  Streaming,   \* requests read by stream_outputs; generate reads the others
  Caps,        \* the caps the memory enforcer sets on the store gate
  MaxEvents    \* bound: clients that leave, aborts of all and changes of the gate's cap

ASSUME EngineAssumption ==
  Streaming \subseteq Request /\ Caps \subseteq 1 .. MaxSeqs /\ MaxEvents \in Nat

VARIABLES
  jobs,      \* the queue of the inference thread: [op, req]
  adding,    \* the request whose add_request job it runs
  loop,      \* _engine_loop: "idle", or awaiting a "step" or the "fail" job
  given,     \* what the awaited job returned
  consumer,  \* per request: "none", "adding", "open", "leaving" or an end
  collected, \* _output_collectors
  buf,       \* the output of each collector
  signalled, \* _finished_events that are set
  upto,      \* the last response each consumer has been given
  events

loopVars == <<jobs, adding, loop, given>>
readers == <<consumer, collected, buf, signalled, upto>>
engineVars == <<loopVars, readers, events>>
vars == <<schedVars, engineVars>>

Ends == {"finished", "failed", "left"}
NoBuf == [has |-> FALSE, tokens |-> <<>>, end |-> "no", error |-> FALSE]

Init ==
  /\ SchedInit
  /\ jobs = <<>> /\ adding = NoReq /\ loop = "idle" /\ given = {}
  /\ consumer = [r \in Request |-> "none"]
  /\ collected = {} /\ buf = [r \in Request |-> NoBuf] /\ signalled = {}
  /\ upto = [r \in Request |-> 0]
  /\ events = 0

------------------------------------------------------------------------------
(* The collectors *)

\* Mutant: the newest output's error alone counts.
MergedErrorLatest(old, new) == new

\* _merge_outputs: finished is the newest output's, error that of either.
MergedError(old, new) == new \/ old

\* RequestOutputCollector.put.
Put(b, o) ==
  [has |-> TRUE,
   tokens |-> IF o.token = 0 THEN b.tokens ELSE Append(b.tokens, o.token),
   end |-> o.end,
   error |-> MergedError(b.error, o.end = "error")]

\* Outputs of one list, at most one per request; those without a collector
\* are dropped.
PutAll(os) ==
  /\ buf' = [r \in Request |->
               IF r \in collected /\ \E o \in os : o.req = r
               THEN Put(buf[r], CHOOSE o \in os : o.req = r) ELSE buf[r]]
  /\ signalled' = signalled \cup {r \in collected : \E o \in os : o.req = r /\ o.end # "no"}

\* _cleanup_request.
Forget(r) ==
  /\ collected' = collected \ {r}
  /\ buf' = [buf EXCEPT ![r] = NoBuf]
  /\ signalled' = signalled \ {r}

------------------------------------------------------------------------------
(* add_request *)

\* The collector exists before the scheduler knows the request.
AddRequest(r) ==
  /\ consumer[r] = "none"
  /\ consumer' = [consumer EXCEPT ![r] = "adding"]
  /\ collected' = collected \cup {r}
  /\ jobs' = Append(jobs, [op |-> "add", req |-> r])
  /\ UNCHANGED <<schedVars, adding, loop, given, buf, signalled, upto, events>>

AddBegins ==
  /\ ipc = "free" /\ jobs # <<>> /\ Head(jobs).op = "add"
  /\ ipc' = "adding"
  /\ adding' = Head(jobs).req
  /\ jobs' = Tail(jobs)
  /\ UNCHANGED <<queues, batch, aborts, storing, progress, clearIn, todo, still, makeup,
                 finishing, rejects, outs, sparse, faults, lost, loop, given, readers, events>>

\* The scheduler has the request, whether or not its caller is still there.
AddEnds ==
  /\ ipc = "adding"
  /\ Admit(adding)
  /\ ipc' = "free" /\ adding' = NoReq
  /\ consumer' = IF consumer[adding] = "adding" THEN [consumer EXCEPT ![adding] = "open"]
                 ELSE consumer
  /\ UNCHANGED <<aborts, jobs, loop, given, collected, buf, signalled, upto, events>>

\* SchedulerQueueFullError.
AddRefused ==
  /\ ipc = "adding"
  /\ QueueFull
  /\ ipc' = "free" /\ adding' = NoReq
  /\ IF consumer[adding] = "adding"
     THEN /\ consumer' = [consumer EXCEPT ![adding] = "failed"]
          /\ aborts' = aborts \cup {adding}
          /\ Forget(adding)
     ELSE UNCHANGED <<consumer, aborts, collected, buf, signalled>>
  /\ UNCHANGED <<queues, batch, storing, progress, clearIn, todo, still, makeup,
                 finishing, rejects, outs, sparse, faults, lost, jobs, loop, given, upto, events>>

\* scheduler.abort_request.
AbortRequest(r) == aborts \cup {r}

\* The client goes while its add_request is awaited: a queued job is cancelled
\* with it, one that has begun is not.
AddCancelled(r) ==
  /\ consumer[r] = "adding" /\ events < MaxEvents
  /\ events' = events + 1
  /\ consumer' = [consumer EXCEPT ![r] = "left"]
  /\ jobs' = Kept(jobs, {j \in ToSet(jobs) : j.req # r})
  /\ aborts' = AbortRequest(r)
  /\ Forget(r)
  /\ UNCHANGED <<queues, batch, storing, progress, clearIn, phase, sparse, faults, lost, adding,
                 loop, given, upto>>

------------------------------------------------------------------------------
(* _engine_loop *)

SubmitStep ==
  /\ loop = "idle" /\ HasRequests
  /\ loop' = "step"
  /\ jobs' = Append(jobs, [op |-> "step", req |-> NoReq])
  /\ UNCHANGED <<schedVars, adding, given, readers, events>>

StepBegins ==
  /\ ipc = "free" /\ jobs # <<>> /\ Head(jobs).op = "step"
  /\ ipc' = "aborts"
  /\ jobs' = Tail(jobs)
  /\ UNCHANGED <<queues, batch, aborts, storing, progress, clearIn, todo, still, makeup,
                 finishing, rejects, outs, sparse, faults, lost, adding, loop, given, readers,
                 events>>

StepEnds ==
  /\ ipc = "end"
  /\ ipc' = "free"
  /\ StepReturns
  /\ given' = outs
  /\ loop' = "outputs"
  /\ UNCHANGED <<queues, batch, aborts, storing, progress, todo, still, makeup, finishing,
                 rejects, sparse, faults, lost, jobs, adding, readers, events>>

\* The outputs of a step, or the errors of the requests that failed with it.
Distribute ==
  /\ loop = "outputs"
  /\ PutAll(given)
  /\ given' = {}
  /\ loop' = "idle"
  /\ UNCHANGED <<schedVars, jobs, adding, consumer, collected, upto, events>>

\* step() raised: the loop has every request failed.
StepFails ==
  /\ ipc = "raise"
  /\ ipc' = "free"
  /\ loop' = "fail"
  /\ jobs' = Append(jobs, [op |-> "fail", req |-> NoReq])
  /\ UNCHANGED <<queues, batch, aborts, storing, progress, clearIn, todo, still, makeup,
                 finishing, rejects, outs, sparse, faults, lost, adding, given, readers, events>>

FailAllRequests ==
  /\ ipc = "free" /\ jobs # <<>> /\ Head(jobs).op = "fail"
  /\ FailAll
  /\ jobs' = Tail(jobs)
  /\ given' = {Error(r) : r \in Failed}
  /\ loop' = "outputs"
  /\ UNCHANGED <<ipc, adding, readers, events>>

------------------------------------------------------------------------------
(* The consumers *)

\* The last of the tokens, or what it was if there are none.
LastOf(s, n) == IF s = <<>> THEN n ELSE s[Len(s)]

\* stream_outputs takes what there is; generate waits for the end.
Consume(r) ==
  /\ consumer[r] = "open"
  /\ buf[r].has
  /\ r \in Streaming \/ r \in signalled
  /\ upto' = [upto EXCEPT ![r] = LastOf(buf[r].tokens, @)]
  /\ \/ /\ buf[r].error
        /\ consumer' = [consumer EXCEPT ![r] = "failed"]
        /\ Forget(r)
     \/ /\ ~ buf[r].error
        /\ buf[r].end # "no" \/ r \notin Streaming
        /\ consumer' = [consumer EXCEPT ![r] = "finished"]
        /\ Forget(r)
     \/ /\ ~ buf[r].error /\ buf[r].end = "no" /\ r \in Streaming
        /\ buf' = [buf EXCEPT ![r] = NoBuf]
        /\ UNCHANGED <<consumer, collected, signalled>>
  /\ UNCHANGED <<schedVars, loopVars, events>>

\* abort_request of the engine: the scheduler is told, the collector ended.
Aborting(rs) ==
  /\ aborts' = aborts \cup rs
  /\ PutAll({Error(r) : r \in rs})

\* The client goes: stream_generate's finally aborts the request, and the
\* collector is cleaned up when the inner generator is (ConsumerGone); generate
\* does both at once.
Leave(r) ==
  /\ consumer[r] = "open" /\ events < MaxEvents
  /\ events' = events + 1
  /\ \/ /\ r \in Streaming
        /\ consumer' = [consumer EXCEPT ![r] = "leaving"]
        /\ Aborting({r})
        /\ UNCHANGED collected
     \/ /\ r \notin Streaming
        /\ consumer' = [consumer EXCEPT ![r] = "left"]
        /\ aborts' = AbortRequest(r)
        /\ Forget(r)
  /\ UNCHANGED <<queues, batch, storing, progress, clearIn, phase, sparse, faults, lost,
                 loopVars, upto>>

ConsumerGone(r) ==
  /\ consumer[r] = "leaving"
  /\ consumer' = [consumer EXCEPT ![r] = "left"]
  /\ Forget(r)
  /\ UNCHANGED <<schedVars, loopVars, upto, events>>

\* abort_all_requests, from the memory enforcer.
AbortAll ==
  /\ collected # {} /\ events < MaxEvents
  /\ events' = events + 1
  /\ Aborting(collected)
  /\ UNCHANGED <<queues, batch, storing, progress, clearIn, phase, sparse, faults, lost,
                 loopVars, consumer, collected, upto>>

\* The enforcer's poll moves the cap of the store gate.
CapAdjusted ==
  /\ events < MaxEvents
  /\ events' = events + 1
  /\ \E n \in Caps : AdjustCap(n)
  /\ UNCHANGED <<loopVars, readers>>

------------------------------------------------------------------------------
\* The inference thread; the other threads leave the engine's state alone.
Inference ==
  \/ StepPhase /\ UNCHANGED engineVars
  \/ AddBegins \/ AddEnds \/ AddRefused
  \/ StepBegins \/ StepEnds \/ StepFails \/ FailAllRequests

StoreWorker == StoreDone /\ UNCHANGED engineVars
EngineLoop == SubmitStep \/ Distribute
Consumer(r) == Consume(r) \/ ConsumerGone(r)

\* Every client has come and gone, or waits for a request that was dropped.
Idle ==
  /\ \A r \in Request : consumer[r] \in Ends \/ (consumer[r] = "open" /\ r \in lost)
  /\ jobs = <<>> /\ ipc = "free" /\ loop = "idle" /\ ~ HasRequests /\ stores = <<>>
  /\ UNCHANGED vars

Next ==
  \/ Inference \/ StoreWorker \/ EngineLoop \/ Idle
  \/ \E r \in Request : AddRequest(r) \/ AddCancelled(r) \/ Leave(r) \/ Consumer(r)
  \/ AbortAll \/ CapAdjusted

\* The threads run on, and the event loop runs each of its coroutines.
Fairness ==
  /\ WF_vars(Inference) /\ WF_vars(StoreWorker) /\ WF_vars(EngineLoop)
  /\ \A r \in Request : WF_vars(Consumer(r))

Spec == Init /\ [][Next]_vars /\ Fairness
------------------------------------------------------------------------------
\* Types; a request is in a queue once, and in the scheduler while it is in one.
TypeOK ==
  /\ requests \subseteq Request /\ aborts \subseteq Request
  /\ {waiting, prefilling, running, stores, todo, still} \subseteq Seq(Request)
  /\ \A q \in {waiting, prefilling, running, stores} : IsInjective(q)
  /\ ToSet(waiting) \cup ToSet(running) \subseteq requests
  /\ ToSet(waiting) \cap ToSet(running) = {}
  /\ rows \in [DOMAIN rows -> Request] /\ DOMAIN rows \subseteq 0 .. nextUid - 1
  /\ uidOf \in [Request -> Nat \cup {NoUid, TempUid}]
  /\ ridOf \in [DOMAIN ridOf -> Request] /\ DOMAIN ridOf \cup {nextUid} \subseteq Nat
  /\ removes \in Seq([uid : Nat, req : Request])
  /\ stored \cup finishing \cup rejects \cup lost \subseteq Request
  /\ indices \subseteq Sparse /\ active \in Request \cup {NoReq}
  /\ makeup \in {"none", "plain", "sparse", "alone", "fallen"}
  /\ inFlight = Len(stores) /\ inFlight <= MaxSeqs /\ cap \in 1 .. MaxSeqs
  /\ \A r \in Request : {produced[r], length[r], upto[r]} \subseteq 0 .. Tokens[r]
  /\ consumer \in [Request -> {"none", "adding", "open", "leaving"} \cup Ends]
  /\ collected = {r \in Request : consumer[r] \in {"adding", "open", "leaving"}}

\* No response is lost or reaches another request's stream: the uid of a row is
\* mapped to the request whose generation it is, across every reset of the
\* generator and reuse of its uids.
OwnRow == \A u \in DOMAIN rows : u \in DOMAIN ridOf /\ ridOf[u] = rows[u]

\* What still holds a request that is to be answered.
Under(r) ==
  \/ r \in ToSet(waiting) \cup ToSet(running) \cup finishing
  \/ r \in ToSet(prefilling) /\ states[r] > 0
  \/ r \in ToSet(todo) /\ states[r] > 0
  \/ r \in rejects \/ \E o \in outs \cup given : o.req = r /\ o.end # "no"
  \/ buf[r].has /\ (buf[r].error \/ buf[r].end # "no")
  \/ adding = r
  \/ r \in Failed /\ (ipc = "raise" \/ loop = "fail")

\* A waiting client is answered by something: its request is in a queue of the
\* scheduler, or its end is on the way; unless it is one of those the errors of
\* a step drop (lost).
NoneStranded == \A r \in Request : (consumer[r] = "open" /\ r \notin lost) => Under(r)

\* A running request has its row while no step is under way.
RunningHasRow ==
  ipc = "free" => \A r \in ToSet(running) : RowsOf(r) # {} \/ r \in lost

\* The uid of a running request is its own: nothing that is put off, an abort
\* or a removal, takes its row (comment on _drain_pending_async_removes).
RunningKeepsRow ==
  ipc \notin {"end", "raise"} /\ loop # "fail" =>
    \A r \in ToSet(running) \ aborts : RowsOf(r) # {}

\* The request marked active has gone without finishing, or has no row to finish in: by
\* an abort, a fault, or to the queue, where it may be behind those put off for it.
SparseLeft ==
  active # NoReq /\ length[active] = 0 /\ (active \notin ToSet(running) \/ active \in lost)

\* Every stream ends, except those, and a finished request leaves the scheduler
\* once its cache is stored, without a later request to trigger the step that
\* removes it: no fault, abort, full gate or idle loop leaves one behind, and no
\* sparse prefill either, if its mark does not outlive it for good (SparseLeft).
StreamsEnd ==
  []<>(~ SparseLeft) =>
    \A r \in Request :
      (consumer[r] = "open" \/ r \in stored)
        ~> ((consumer[r] # "open" /\ r \notin stored) \/ r \in lost)

\* What a consumer is promised (Streams): its stream is open while it has a
\* collector.
Shown ==
  [r \in Request |-> IF consumer[r] \in {"adding", "open", "leaving"} THEN "open" ELSE consumer[r]]
Stream == INSTANCE Streams WITH phase <- Shown
StreamsKept == Stream!Spec
==============================================================================
