------------------------------ MODULE EnginePool ------------------------------
(****************************************************************************)
(* EnginePool (omlx/engine_pool.py) and those who change it: request        *)
(* handlers (get_engine, then the engine they got), the memory enforcer's   *)
(* poll (eviction and idle timeouts), admin routes that call _unload_engine *)
(* and _load_engine without the pool's lock, and rescans of the model       *)
(* directory.  All are coroutines of one event loop, so a step runs from    *)
(* one await to the next.                                                   *)
(*                                                                          *)
(* Memory is the weights of the engines in memory; KV, hot caches and other *)
(* processes are the enforcer's nondeterministic pressure.                  *)
(****************************************************************************)
EXTENDS Integers, FiniteSets, Functions

CONSTANTS
  Model, Handler, Admin, Enforcer,
  NoModel, NoEngine, NoTask,
  Size,          \* estimated_size of each model
  Headroom,      \* working-set headroom admission asks for above the weights
  Ceiling,       \* the memory ceiling, on (> 0) and constant
  PinnedAtStart, \* models pinned in the settings
  MaxEngines,    \* bound: engine objects of one model at the same time
  MaxScans,      \* bound: rescans of the model directory
  MaxAdmin       \* bound: operations of admin routes

Task == Handler \cup Admin \cup {Enforcer}
Engine == Model \X (1 .. MaxEngines)   \* a BaseEngine object of a model
Object == Model \X (0 .. MaxScans)     \* an EngineEntry object of a model

ASSUME SizeAssumption ==
  /\ Size \in [Model -> Nat \ {0}] /\ Headroom \in Nat /\ Ceiling \in Nat \ {0}
  /\ PinnedAtStart \subseteq Model
  /\ Handler \cap Admin = {} /\ Enforcer \notin Handler \cup Admin
  /\ NoTask \notin Task /\ NoEngine \notin Engine
  /\ IsFiniteSet(Model) /\ IsFiniteSet(Task)
  /\ MaxEngines \in Nat /\ MaxScans \in Nat /\ MaxAdmin \in Nat

VARIABLES
  scans,     \* rescans so far: _entries maps m to <<m, gen[m]>>
  gen,
  engine,    \* EngineEntry.engine of each entry object
  loading,   \* the entry objects with is_loading
  aborting,  \* the entry objects with abort_loading
  pinned,    \* the models with is_pinned
  older,     \* <<m, n>>: loaded models, m with the earlier last_access
  counter,   \* _current_model_memory
  live,      \* engines whose weights are in memory
  closing,   \* engines that refuse requests (_closed): their close is under way
  lock,      \* the task that holds EnginePool._lock
  at,        \* where each task is, with its locals
  admins,    \* operations of admin routes so far
  astray     \* history: an operation started while another was under way (Starts)

vars == <<scans, gen, engine, loading, aborting, pinned, older, counter, live, closing,
          lock, at, admins, astray>>

Entry(m) == <<m, gen[m]>>
EngineOf(m) == engine[Entry(m)]
Loaded == {m \in Model : EngineOf(m) # NoEngine}
Usage == SumFunction([e \in live |-> Size[e[1]]])

\* The order when m is the one accessed last.
Touched(m) == {p \in older : p[1] # m} \cup ((Loaded \ {m}) \X {m})

\* Mutant: an engine in use is not recognised.
NeverBusy(e) == FALSE

\* has_active_requests: every request the engine has accepted counts.
Holds(h, e) == at[h].pc \in {"serving", "late"} /\ at[h].engine = e
Busy(e) == \E h \in Handler : Holds(h, e)

\* A stop() of the engine has ended its loop.
Stopping(e) == \E t \in Task : at[t].pc = "stopping" /\ at[t].engine = e

\* _find_lru_victim.
Candidates == {m \in Loaded \ pinned : ~ Busy(EngineOf(m))}
IsVictim(m) ==
  /\ m \in Candidates
  /\ \A n \in Candidates \ {m} : <<m, n>> \in older

Idle == [pc |-> "idle", model |-> NoModel, entry |-> <<>>, engine |-> NoEngine,
         next |-> "idle"]
Stranded == [Idle EXCEPT !.pc = "stranded"]   \* nothing will answer this request
Goto(t, step) == at' = [at EXCEPT ![t].pc = step]
Unlock(t) == lock' = IF lock = t THEN NoTask ELSE lock

\* An operation of the pool starts.  The discipline the pool's own methods
\* follow is that none does while another is under way; routes do not.
Working(t) == at[t].pc \in {"stopping", "settling", "reload", "starting", "finishing"}
Quiet == lock = NoTask /\ \A a \in Admin : ~ Working(a)
Starts == astray' = (astray \/ ~ Quiet)

Init ==
  /\ scans = 0 /\ gen = [m \in Model |-> 0]
  /\ engine = [o \in Object |-> NoEngine]
  /\ loading = {} /\ aborting = {}
  /\ pinned = PinnedAtStart
  /\ older = {} /\ counter = 0
  /\ live = {} /\ closing = {}
  /\ lock = NoTask
  /\ at = [t \in Task |-> Idle]
  /\ admins = 0 /\ astray = FALSE

------------------------------------------------------------------------------
(* _unload_engine *)

\* It starts to stop the engine the entry has now.
\* The task goes on with step and the model wanted.
BeginUnload(t, m, wanted, step) ==
  /\ m \in Loaded
  /\ at' = [at EXCEPT ![t] = [pc |-> "stopping", model |-> wanted, entry |-> Entry(m),
                              engine |-> EngineOf(m), next |-> step]]
  /\ UNCHANGED <<scans, gen, engine, loading, aborting, pinned, older, counter, live, closing>>

\* Its loop has ended, some awaits later, and its shutdown begins: it refuses
\* requests from here on.
Closes(t) ==
  /\ at[t].pc = "stopping" /\ at[t].engine \notin closing
  /\ closing' = closing \cup {at[t].engine}
  /\ UNCHANGED <<scans, gen, engine, loading, aborting, pinned, older, counter, live, lock,
                 at, admins, astray>>

\* stop() returned: the engine's requests are dropped, and the ENTRY loses its
\* engine, whichever that is by now.  A request still being submitted is told;
\* one whose answer is awaited (hung) is not, its event being cleared unset.
Stopped(t) ==
  /\ at[t].pc = "stopping" /\ at[t].engine \in closing
  /\ live' = live \ {at[t].engine}
  /\ closing' = closing \ {at[t].engine}
  /\ engine' = [engine EXCEPT ![at[t].entry] = NoEngine]
  /\ older' = {p \in older : \A m \in {p[1], p[2]} : engine'[Entry(m)] # NoEngine}
  /\ \E hung \in SUBSET Handler :
       at' = [u \in Task |->
                IF u = t THEN [at[u] EXCEPT !.pc = "settling", !.engine = NoEngine]
                ELSE IF ~ Holds(u, at[t].engine) THEN at[u]
                ELSE IF u \in hung THEN Stranded ELSE Idle]
  /\ UNCHANGED <<scans, gen, loading, aborting, pinned, counter, lock, admins, astray>>

\* The settle barrier is over, and the counter follows.
Settled(t) ==
  /\ at[t].pc = "settling"
  /\ counter' = counter - Size[at[t].entry[1]]
  /\ at' = [at EXCEPT ![t] =
              IF @.next = "idle" THEN Idle ELSE [@ EXCEPT !.pc = at[t].next, !.entry = <<>>]]
  /\ UNCHANGED <<scans, gen, engine, loading, aborting, pinned, older, live, closing, lock,
                 admins, astray>>

------------------------------------------------------------------------------
(* _load_engine *)

\* Engine objects of m that nothing refers to.
Unused(m) == {e \in Engine : /\ e[1] = m /\ e \notin live
                             /\ \A t \in Task : at[t].engine # e
                             /\ \A o \in Object : engine[o] # e}

\* The entry is loading already; or the bound on engine objects is reached.
NoLoad(m) == Entry(m) \in loading \/ Unused(m) = {}

\* A new engine starts to load its weights.
BeginLoad(t, m) ==
  /\ ~ NoLoad(m)
  /\ LET e == CHOOSE e \in Unused(m) : TRUE
     IN /\ live' = live \cup {e}
        /\ at' = [at EXCEPT ![t] = [pc |-> "starting", model |-> m, entry |-> Entry(m),
                                    engine |-> e, next |-> "idle"]]
  /\ loading' = loading \cup {Entry(m)}
  /\ aborting' = aborting \ {Entry(m)}
  /\ UNCHANGED <<scans, gen, engine, pinned, older, counter, closing>>

\* start() returned and no abort was asked for: the engine becomes the
\* entry's.
Started(t) ==
  /\ at[t].pc = "starting"
  /\ at[t].entry \notin aborting
  /\ engine' = [engine EXCEPT ![at[t].entry] = at[t].engine]
  /\ counter' = counter + Size[at[t].entry[1]]
  /\ older' = IF at[t].entry = Entry(at[t].entry[1]) THEN Touched(at[t].entry[1]) ELSE older
  /\ Goto(t, "finishing")
  /\ UNCHANGED <<scans, gen, loading, aborting, pinned, live, closing, lock, admins, astray>>

\* Mutants of a failed load: it takes the weights out of the counter; it does
\* not stop the engine; it keeps the lock; its exception is swallowed.
LoadEndsWith(t, weights, count, next, held) ==
  /\ at[t].pc = "starting"
  /\ live' = weights /\ counter' = count
  /\ loading' = loading \ {at[t].entry}
  /\ aborting' = aborting \ {at[t].entry}
  /\ at' = [at EXCEPT ![t] = next]
  /\ lock' = IF held \/ lock # t THEN lock ELSE NoTask
  /\ UNCHANGED <<scans, gen, engine, pinned, older, closing, admins, astray>>
LoadFailsUncounts(t) ==
  LoadEndsWith(t, live \ {at[t].engine}, counter - Size[at[t].entry[1]], Idle, FALSE)
LoadFailsUnstopped(t) == LoadEndsWith(t, live, counter, Idle, FALSE)
LoadFailsLocked(t) == LoadEndsWith(t, live \ {at[t].engine}, counter, Idle, TRUE)
LoadFailsSilently(t) ==
  LoadEndsWith(t, live \ {at[t].engine}, counter,
               IF t \in Handler THEN [Idle EXCEPT !.pc = "have"] ELSE Idle, FALSE)

\* start() raised, or the enforcer asked for the load to be aborted.
LoadFails(t) ==
  /\ at[t].pc = "starting"
  /\ live' = live \ {at[t].engine}
  /\ loading' = loading \ {at[t].entry}
  /\ aborting' = aborting \ {at[t].entry}
  /\ at' = [at EXCEPT ![t] = Idle]
  /\ Unlock(t)
  /\ UNCHANGED <<scans, gen, engine, pinned, older, counter, closing, admins, astray>>

\* The load's last await is over.  get_engine returns what the pool's entry
\* has now.
FinishLoad(t) ==
  /\ at[t].pc = "finishing"
  /\ loading' = loading \ {at[t].entry}
  /\ aborting' = aborting \ {at[t].entry}
  /\ at' = [at EXCEPT ![t] =
              IF t \in Handler
              THEN [Idle EXCEPT !.pc = "have", !.model = at[t].model,
                                !.engine = EngineOf(at[t].model)]
              ELSE Idle]
  /\ Unlock(t)
  /\ UNCHANGED <<scans, gen, engine, pinned, older, counter, live, closing, admins, astray>>

------------------------------------------------------------------------------
(* A request handler: get_engine, then generate on the engine it got *)

\* The lock is h's, either free or kept over an eviction it waited for.
Asks(h, m) ==
  \/ at[h].pc = "idle" /\ lock = NoTask /\ m \notin Loaded
  \/ at[h].pc = "admit" /\ at[h].model = m
Keeps(h) == IF at[h].pc = "idle" THEN Starts ELSE UNCHANGED astray

\* Already loaded: only the access time changes.
Hit(h) ==
  /\ at[h].pc = "idle" /\ lock = NoTask
  /\ \E m \in Loaded :
       /\ older' = Touched(m)
       /\ at' = [at EXCEPT ![h] = [Idle EXCEPT !.pc = "have", !.model = m,
                                              !.engine = EngineOf(m)]]
  /\ UNCHANGED <<scans, gen, engine, loading, aborting, pinned, counter, live, closing,
                 lock, admins, astray>>

\* Mutant: the weights of the model to load are not counted.
FitsEmpty(m) == Usage + Headroom <= Ceiling

Fits(m) == Usage + Size[m] + Headroom <= Ceiling
\* Nothing to evict, and the only model in memory may do without the headroom.
FitsAlone(m) == Candidates = {} /\ Loaded \subseteq {m} /\ Usage + Size[m] <= Ceiling
Fit(m) == Fits(m) \/ FitsAlone(m)

\* The admission loop.
EvictForRoom(h) ==
  /\ \E m, v \in Model :
       /\ Asks(h, m) /\ ~ Fits(m) /\ IsVictim(v)
       /\ BeginUnload(h, v, m, "admit")
  /\ lock' = h
  /\ Keeps(h)
  /\ UNCHANGED admins

Admit(h) ==
  /\ \E m \in Model :
       /\ Asks(h, m) /\ Fit(m)
       /\ BeginLoad(h, m)
  /\ lock' = h
  /\ Keeps(h)
  /\ UNCHANGED admins

\* ModelTooLargeError, InsufficientMemoryError, or ModelLoadingError.  (Raised
\* before any eviction, they change nothing.)
Refuse(h) ==
  /\ at[h].pc = "admit"
  /\ LET m == at[h].model
     IN (~ Fit(m) /\ Candidates = {}) \/ (Fit(m) /\ NoLoad(m))
  /\ at' = [at EXCEPT ![h] = Idle]
  /\ Unlock(h)
  /\ UNCHANGED <<scans, gen, engine, loading, aborting, pinned, older, counter, live,
                 closing, admins, astray>>

\* The handler submits its request some awaits later.  None, and an engine
\* that closes, refuse it; one whose stop has begun still accepts it ...
Use(h) ==
  /\ at[h].pc = "have"
  /\ \/ /\ at[h].engine = NoEngine \/ at[h].engine \in live \cap closing
        /\ at' = [at EXCEPT ![h] = Idle]
     \/ /\ at[h].engine \in live \ closing
        /\ Goto(h, IF Stopping(at[h].engine) THEN "late" ELSE "serving")
  /\ UNCHANGED <<scans, gen, engine, loading, aborting, pinned, older, counter, live,
                 closing, lock, admins, astray>>

\* ... and one that was stopped in the meantime starts itself again: generate
\* calls start() when it is not loaded.
Restart(h) ==
  /\ at[h].pc = "have"
  /\ at[h].engine \notin live \cup {NoEngine}
  /\ live' = live \cup {at[h].engine}
  /\ astray' = TRUE
  /\ Goto(h, "serving")
  /\ UNCHANGED <<scans, gen, engine, loading, aborting, pinned, older, counter, closing,
                 lock, admins>>

\* The answer is complete, or the client leaves: from a request that nothing
\* will answer, only that.
Done(h) ==
  /\ at[h].pc \in {"serving", "late", "stranded"}
  /\ at' = [at EXCEPT ![h] = Idle]
  /\ UNCHANGED <<scans, gen, engine, loading, aborting, pinned, older, counter, live,
                 closing, lock, admins, astray>>

------------------------------------------------------------------------------
(* ProcessMemoryEnforcer: _check_and_enforce, then check_ttl_expirations *)

\* Usage is over the soft or the hard mark: the eviction loop takes the lock.
Pressure ==
  /\ at[Enforcer].pc = "idle" /\ lock = NoTask
  /\ lock' = Enforcer
  /\ Goto(Enforcer, "pressed")
  /\ Starts
  /\ UNCHANGED <<scans, gen, engine, loading, aborting, pinned, older, counter, live,
                 closing, admins>>

\* More than one loaded model is not pinned: the least recently used idle one
\* goes.  (abort_all_requests finds nothing to abort on an idle engine.)
EvictUnderPressure ==
  /\ at[Enforcer].pc = "pressed"
  /\ Cardinality(Loaded \ pinned) > 1
  /\ \E m \in Model : IsVictim(m) /\ BeginUnload(Enforcer, m, NoModel, "pressed")
  /\ UNCHANGED <<lock, admins, astray>>

\* The loop ends: usage is below the mark, or one idle evictable model is left
\* and kept, or none is idle.  In the last case hard pressure, which this
\* may be, asks every load in progress to abort.
EndPressure ==
  /\ at[Enforcer].pc = "pressed"
  /\ \/ UNCHANGED aborting
     \/ /\ Candidates = {}
        /\ aborting' = aborting \cup {Entry(m) : m \in {n \in Model : Entry(n) \in loading}}
  /\ at' = [at EXCEPT ![Enforcer] = Idle]
  /\ lock' = NoTask
  /\ UNCHANGED <<scans, gen, engine, loading, pinned, older, counter, live, closing,
                 admins, astray>>

\* Idle timeouts of whichever models have expired.
CheckTTL ==
  /\ at[Enforcer].pc = "idle" /\ lock = NoTask
  /\ lock' = Enforcer
  /\ Goto(Enforcer, "expire")
  /\ Starts
  /\ UNCHANGED <<scans, gen, engine, loading, aborting, pinned, older, counter, live,
                 closing, admins>>

Expire ==
  /\ at[Enforcer].pc = "expire"
  /\ \E m \in Candidates :
       Entry(m) \notin loading /\ BeginUnload(Enforcer, m, NoModel, "expire")
  /\ UNCHANGED <<lock, admins, astray>>

\* A busy model past its timeout counts as just used.
Refresh ==
  /\ at[Enforcer].pc = "expire"
  /\ \E m \in Loaded \ pinned :
       /\ Entry(m) \notin loading /\ Busy(EngineOf(m))
       /\ older' = Touched(m)
  /\ UNCHANGED <<scans, gen, engine, loading, aborting, pinned, counter, live, closing,
                 lock, at, admins, astray>>

\* Nothing else has expired.
EndTTL ==
  /\ at[Enforcer].pc = "expire"
  /\ at' = [at EXCEPT ![Enforcer] = Idle]
  /\ lock' = NoTask
  /\ UNCHANGED <<scans, gen, engine, loading, aborting, pinned, older, counter, live,
                 closing, admins, astray>>

------------------------------------------------------------------------------
(* Admin routes: none of them takes the lock *)

\* Unload a model, or change a setting of it that needs a reload: a pinned
\* model is then loaded again at once, without admission.
AdminUnload(a) ==
  /\ at[a].pc = "idle" /\ admins < MaxAdmin
  /\ admins' = admins + 1
  /\ \E m \in Model :
       \/ BeginUnload(a, m, m, "idle")
       \/ m \in pinned /\ BeginUnload(a, m, m, "reload")
  /\ Starts
  /\ UNCHANGED lock

AdminReload(a) ==
  /\ at[a].pc = "reload"
  /\ BeginLoad(a, at[a].model)
  /\ UNCHANGED <<lock, admins, astray>>

AdminReloadFails(a) ==
  /\ at[a].pc = "reload"
  /\ NoLoad(at[a].model)
  /\ at' = [at EXCEPT ![a] = Idle]
  /\ UNCHANGED <<scans, gen, engine, loading, aborting, pinned, older, counter, live,
                 closing, lock, admins, astray>>

\* discover_models: every entry without an engine becomes a new object.
Rescan ==
  /\ scans < MaxScans
  /\ scans' = scans + 1
  /\ gen' = [m \in Model |-> IF m \in Loaded THEN gen[m] ELSE scans + 1]
  /\ Starts
  /\ UNCHANGED <<engine, loading, aborting, pinned, older, counter, live, closing, lock,
                 at, admins>>

SetPinned ==
  /\ admins < MaxAdmin
  /\ admins' = admins + 1
  /\ \E m \in Model : pinned' = IF m \in pinned THEN pinned \ {m} ELSE pinned \cup {m}
  /\ UNCHANGED <<scans, gen, engine, loading, aborting, older, counter, live, closing,
                 lock, at, astray>>

------------------------------------------------------------------------------
TaskStep(t) ==
  \/ Closes(t) \/ Stopped(t) \/ Settled(t)
  \/ Started(t) \/ LoadFails(t) \/ FinishLoad(t)
HandlerStep(h) ==
  \/ Hit(h) \/ EvictForRoom(h) \/ Admit(h) \/ Refuse(h)
  \/ Use(h) \/ Restart(h) \/ Done(h)
EnforcerStep ==
  \/ Pressure \/ EvictUnderPressure \/ EndPressure
  \/ CheckTTL \/ Expire \/ Refresh \/ EndTTL
RouteStep(a) == AdminUnload(a) \/ AdminReload(a) \/ AdminReloadFails(a)

Next ==
  \/ \E t \in Task : TaskStep(t)
  \/ \E h \in Handler : HandlerStep(h)
  \/ EnforcerStep
  \/ \E a \in Admin : RouteStep(a)
  \/ Rescan
  \/ SetPinned

Spec == Init /\ [][Next]_vars

------------------------------------------------------------------------------
SizeOf(S) == SumFunctionOnSet(Size, S)
Settling == {t \in Task : at[t].pc = "settling"}

\* Types; and whoever holds the lock is inside an operation that will release
\* it.
TypeOK ==
  /\ gen \in [Model -> 0 .. MaxScans]
  /\ engine \in [Object -> Engine \cup {NoEngine}]
  /\ loading \subseteq Object /\ aborting \subseteq Object /\ pinned \subseteq Model
  /\ older \subseteq Model \X Model
  /\ counter \in Int
  /\ closing \subseteq Engine /\ live \subseteq Engine
  /\ lock \in Task \cup {NoTask}
  /\ lock # NoTask => at[lock].pc \notin {"idle", "have", "serving", "late", "stranded"}
  /\ \A t \in Task : /\ at[t].engine \in Engine \cup {NoEngine}
                     /\ at[t].entry \in Object \cup {<<>>}

\* current_model_memory is the memory used by the loaded models: a model
\* counts from the end of its load to the end of the settle barrier.
AccountingExact ==
  astray \/ counter = SizeOf(Loaded) + SumFunction([t \in Settling |-> Size[at[t].entry[1]]])

\* Weights in memory belong to an entry, or to a load in progress: nothing
\* stays in memory that no eviction can find.
NoStrayEngine ==
  astray \/ live = {EngineOf(m) : m \in Loaded}
                   \cup {at[t].engine : t \in {u \in Task : at[u].pc = "starting"}}

\* Models are evicted before a load, not after: the weights in memory, those
\* of a load in progress included, never pass the ceiling.
WithinCeiling == astray \/ Usage <= Ceiling

\* get_engine returns a loaded engine or raises.
GetEngineReturnsLoaded ==
  astray \/ \A h \in Handler : at[h].pc = "have" => at[h].engine # NoEngine

\* Only an admin route cuts a request that an engine accepted while its loop
\* ran: eviction and idle timeouts never reach an engine in use.  (One that the
\* engine accepts once its stop has begun is not promised anything: Stranded.)
ServedUntilDone ==
  [][astray' \/ \A h \in Handler :
       (at[h].pc = "serving" /\ at[h].engine \in live \ live') =>
         \E a \in Admin : at[a].pc = "stopping" /\ at[a].engine = at[h].engine]_vars

\* The ceiling without the discipline: with handlers alone the weights in memory
\* pass it when an engine evicted between get_engine and its use starts itself
\* again, unseen by admission.
NeverOvercommitted == Usage <= Ceiling
==============================================================================
