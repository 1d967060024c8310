--------------------------- MODULE EnginePoolProofs ---------------------------
(****************************************************************************)
(* Proofs about EnginePool, for any models, sizes, ceiling, handlers and    *)
(* routes.                                                                  *)
(*                                                                          *)
(* IInv is in two parts.  Types, Locals, Roles and LockExact hold whatever  *)
(* the unlocked routes do.  Orderly holds as long as no operation started   *)
(* while another was under way (~ astray): then at most one task is inside, *)
(* and what it read before an await is still so after it.                   *)
(* Kinds sums up the steps by what they do to the memory, and each kind has *)
(* a lemma that it keeps Orderly.                                           *)
(****************************************************************************)
EXTENDS EnginePool, DataFacts

Within == {"stopping", "settling", "reload", "starting", "finishing", "admit", "pressed",
           "expire"}
Inside(t) == at[t].pc \in Within

Outside == {"idle", "have", "serving", "late", "stranded"}

Place == [pc : Within \cup Outside,
          model : Model \cup {NoModel}, entry : Object \cup {<<>>},
          engine : Engine \cup {NoEngine}, next : {"idle", "admit", "pressed", "expire", "reload"}]

\* The types of what TypeOK leaves out, and what each task's locals are by then.
Types ==
  /\ scans \in 0 .. MaxScans
  /\ gen \in [Model -> 0 .. MaxScans] /\ \A m \in Model : gen[m] <= scans
  /\ engine \in [Object -> Engine \cup {NoEngine}]
  /\ loading \subseteq Object /\ aborting \subseteq Object /\ pinned \subseteq Model
  /\ older \subseteq Model \X Model
  /\ counter \in Int
  /\ closing \subseteq Engine /\ live \subseteq Engine
  /\ at \in [Task -> Place]
  /\ astray \in BOOLEAN

LocalsOf(p) ==
  /\ p.pc \in {"stopping", "settling", "starting", "finishing"} => p.entry \in Object
  /\ p.pc \in {"stopping", "starting", "finishing", "serving"} => p.engine \in Engine
  /\ p.pc \in {"admit", "reload", "starting", "finishing"} => p.model \in Model
Locals == \A t \in Task : LocalsOf(at[t])

RoleOf(t, p) ==
  /\ t \in Handler =>
       /\ p.pc \notin {"reload", "pressed", "expire"}
       /\ p.pc \in {"stopping", "settling"} => p.next = "admit" /\ p.model \in Model
  /\ t = Enforcer =>
       /\ p.pc \in {"idle", "stopping", "settling", "pressed", "expire"}
       /\ p.pc \in {"stopping", "settling"} => p.next \in {"pressed", "expire"}
  /\ t \in Admin =>
       /\ p.pc \in {"idle", "stopping", "settling", "reload", "starting", "finishing"}
       /\ p.pc \in {"stopping", "settling"} => p.next \in {"idle", "reload"} /\ p.model \in Model
Roles == \A t \in Task : RoleOf(t, at[t])

\* The lock is held by the handler, or the enforcer, that is inside an operation.
LockExact ==
  /\ lock \in Handler \cup {Enforcer, NoTask}
  /\ \A t \in Handler \cup {Enforcer} : Inside(t) <=> lock = t

\* One operation at a time.
OneInside == \A t, u \in Task : Inside(t) /\ Inside(u) => t = u

\* Engines are those of their model, and only current entries have one.
EnginesCurrent ==
  \A o \in Object : engine[o] # NoEngine => engine[o][1] = o[1] /\ o = Entry(o[1])

\* What the operation under way knows of its entry is still so.
WorkOf(t) ==
  /\ at[t].pc = "stopping" => engine[at[t].entry] = at[t].engine
  /\ at[t].pc = "settling" => /\ engine[at[t].entry] = NoEngine
                              /\ at[t].entry = Entry(at[t].entry[1])
  /\ at[t].pc \in {"starting", "finishing"} => at[t].entry = Entry(at[t].model)
  /\ at[t].pc = "starting" => /\ engine[at[t].entry] = NoEngine
                              /\ at[t].engine[1] = at[t].model
                              /\ \A u \in Task \ {t} : at[u].engine # at[t].engine
                              /\ \A o \in Object : engine[o] # at[t].engine
  /\ at[t].pc = "finishing" => engine[at[t].entry] = at[t].engine
  /\ at[t].pc \in {"stopping", "settling"} /\ at[t].next = "reload" =>
       at[t].model = at[t].entry[1]
  /\ at[t].pc = "reload" => EngineOf(at[t].model) = NoEngine
  /\ t \in Handler /\ at[t].pc \in {"stopping", "settling", "admit"} =>
       EngineOf(at[t].model) = NoEngine
WorkTrue == \A t \in Task : WorkOf(t)

\* A reload has room for the weights it gave up.
ReloadFits ==
  \A t \in Task :
    /\ at[t].pc = "settling" /\ at[t].next = "reload" =>
         Usage + Size[at[t].entry[1]] <= Ceiling
    /\ at[t].pc = "reload" => Usage + Size[at[t].model] <= Ceiling

\* An engine in use is in memory; the one that an eviction stops is not in use,
\* but for requests that came after the stop began.
Serves(e) == \E h \in Handler : at[h].pc = "serving" /\ at[h].engine = e
InUse ==
  /\ \A h \in Handler : at[h].pc = "serving" => at[h].engine \in live
  /\ \A t \in Handler \cup {Enforcer} : at[t].pc = "stopping" => ~ Serves(at[t].engine)

Orderly ==
  /\ OneInside /\ EnginesCurrent /\ WorkTrue /\ ReloadFits /\ InUse
  /\ NoStrayEngine /\ GetEngineReturnsLoaded /\ AccountingExact /\ WithinCeiling

IInv == Types /\ Locals /\ Roles /\ LockExact /\ (astray \/ Orderly)
------------------------------------------------------------------------------
\* The entry of a model and its engine have their types.
LEMMA EntryType ==
  ASSUME Types, NEW m \in Model
  PROVE  Entry(m) \in Object /\ EngineOf(m) \in Engine \cup {NoEngine}
BY DEF Types, Entry, EngineOf, Object

\* What a task is given when it begins an unload, or a load.
LEMMA BeginUnloadPlace ==
  ASSUME Types, NEW t \in Task, NEW m \in Model, NEW w \in Model \cup {NoModel},
         NEW s \in {"idle", "admit", "pressed", "expire", "reload"}, BeginUnload(t, m, w, s)
  PROVE  /\ at' \in [Task -> Place]
         /\ at'[t].pc = "stopping" /\ at'[t].next = s /\ at'[t].model = w
         /\ at'[t].entry = Entry(m) /\ at'[t].engine = EngineOf(m)
         /\ EngineOf(m) \in Engine /\ Entry(m) \in Object
         /\ \A u \in Task : u # t => at'[u] = at[u]
         /\ UNCHANGED <<scans, gen, engine, loading, aborting, pinned, older, counter, live,
                        closing>>
<1>1. Entry(m) \in Object /\ EngineOf(m) \in Engine
  BY EntryType DEF BeginUnload, Loaded
<1>2. [pc |-> "stopping", model |-> w, entry |-> Entry(m), engine |-> EngineOf(m), next |-> s]
        \in Place
  BY <1>1 DEF Place, Within
<1>3. QED BY <1>1, <1>2 DEF BeginUnload, Types

\* BeginLoad gives the task a new engine of the model and its current entry.
LEMMA BeginLoadPlace ==
  ASSUME Types, NEW t \in Task, NEW m \in Model, BeginLoad(t, m)
  PROVE  \E e \in Unused(m) :
           /\ at' \in [Task -> Place]
           /\ at'[t].pc = "starting" /\ at'[t].model = m /\ at'[t].entry = Entry(m)
           /\ at'[t].engine = e /\ at'[t].next = "idle"
           /\ e \in Engine /\ Entry(m) \in Object
           /\ live' = live \cup {e}
           /\ \A u \in Task : u # t => at'[u] = at[u]
           /\ loading' \subseteq Object /\ aborting' \subseteq Object
           /\ UNCHANGED <<scans, gen, engine, pinned, older, counter, closing>>
<1> DEFINE e == CHOOSE e \in Unused(m) : TRUE
<1>1. e \in Unused(m)
  BY DEF BeginLoad, NoLoad
<1>2. e \in Engine /\ Entry(m) \in Object
  BY <1>1, EntryType DEF Unused
<1>3. /\ live' = live \cup {e}
      /\ at' = [at EXCEPT ![t] = [pc |-> "starting", model |-> m, entry |-> Entry(m),
                                  engine |-> e, next |-> "idle"]]
  BY DEF BeginLoad
<1> HIDE DEF e
<1>4. [pc |-> "starting", model |-> m, entry |-> Entry(m), engine |-> e, next |-> "idle"]
        \in Place
  BY <1>2 DEF Place, Within
<1>5. at' \in [Task -> Place]
  BY <1>3, <1>4 DEF Types
<1>6. loading' \subseteq Object /\ aborting' \subseteq Object
  BY <1>2 DEF BeginLoad, Types
<1>7. UNCHANGED <<scans, gen, engine, pinned, older, counter, closing>>
  BY DEF BeginLoad
<1>8. /\ at'[t] = [pc |-> "starting", model |-> m, entry |-> Entry(m), engine |-> e,
                   next |-> "idle"]
      /\ \A u \in Task : u # t => at'[u] = at[u]
  BY <1>3 DEF Types
<1>9. QED BY <1>1, <1>2, <1>3, <1>5, <1>6, <1>7, <1>8

\* An idle task's place is one, and so is any point of the code that needs no
\* other locals.
LEMMA IdlePlace ==
  ASSUME Types, NEW t \in Task
  PROVE  /\ Idle \in Place /\ [at EXCEPT ![t] = Idle] \in [Task -> Place]
         /\ \A p \in Within \cup Outside :
              [at EXCEPT ![t].pc = p] \in [Task -> Place]
<1>1. Idle \in Place
  BY DEF Idle, Place, Outside
<1>2. \A p \in Within \cup Outside : [at[t] EXCEPT !.pc = p] \in Place
  BY DEF Types, Place
<1>3. QED BY <1>1, <1>2 DEF Types

\* Where each of the other steps leads its task, and the other tasks.
LEMMA StoppedPlace ==
  ASSUME Types, NEW t \in Task, Stopped(t)
  PROVE  /\ at[t].pc = "stopping" /\ at'[t].pc = "settling"
         /\ at'[t].model = at[t].model /\ at'[t].entry = at[t].entry
         /\ at'[t].next = at[t].next /\ at'[t].engine = NoEngine
         /\ \A u \in Task : u # t =>
              IF Holds(u, at[t].engine) THEN at'[u] \in {Idle, Stranded} ELSE at'[u] = at[u]
<1>1. PICK hung \in SUBSET Handler :
        at' = [u \in Task |->
                 IF u = t THEN [at[u] EXCEPT !.pc = "settling", !.engine = NoEngine]
                 ELSE IF ~ Holds(u, at[t].engine) THEN at[u]
                 ELSE IF u \in hung THEN Stranded ELSE Idle]
  BY DEF Stopped
<1>2. at[t] \in Place /\ at[t].pc = "stopping"
  BY DEF Stopped, Types
<1>3. at'[t] = [at[t] EXCEPT !.pc = "settling", !.engine = NoEngine]
  BY <1>1
<1>4. /\ at'[t].pc = "settling" /\ at'[t].model = at[t].model
      /\ at'[t].entry = at[t].entry /\ at'[t].next = at[t].next
      /\ at'[t].engine = NoEngine
  BY <1>2, <1>3 DEF Place
<1>5. \A u \in Task : u # t =>
        IF Holds(u, at[t].engine) THEN at'[u] \in {Idle, Stranded} ELSE at'[u] = at[u]
  BY <1>1
<1>6. QED BY <1>2, <1>4, <1>5

\* After the settle barrier the task is idle, or where its unload said.
LEMMA SettledPlace ==
  ASSUME Types, NEW t \in Task, Settled(t)
  PROVE  /\ at[t].pc = "settling"
         /\ at[t].next = "idle" => at'[t] = Idle
         /\ at[t].next # "idle" => /\ at'[t].pc = at[t].next /\ at'[t].model = at[t].model
                                   /\ at'[t].engine = at[t].engine
                                   /\ at'[t].next = at[t].next
         /\ \A u \in Task : u # t => at'[u] = at[u]
<1>1. at[t] \in Place
  BY DEF Types
<1>2. QED BY <1>1 DEF Settled, Types, Place

\* After start() the task only moves on within its load.
LEMMA StartedPlace ==
  ASSUME Types, NEW t \in Task, Started(t)
  PROVE  /\ at[t].pc = "starting" /\ at'[t].pc = "finishing"
         /\ at'[t].model = at[t].model /\ at'[t].entry = at[t].entry
         /\ at'[t].next = at[t].next /\ at'[t].engine = at[t].engine
         /\ \A u \in Task : u # t => at'[u] = at[u]
<1>1. at[t] \in Place
  BY DEF Types
<1>2. QED BY <1>1 DEF Started, Goto, Types, Place

\* After a load the task is idle, or has the engine of its entry.
LEMMA FinishLoadPlace ==
  ASSUME Types, NEW t \in Task, FinishLoad(t)
  PROVE  /\ at[t].pc = "finishing"
         /\ t \notin Handler => at'[t] = Idle
         /\ t \in Handler => at'[t].pc = "have" /\ at'[t].engine = EngineOf(at[t].model)
         /\ \A u \in Task : u # t => at'[u] = at[u]
BY DEF FinishLoad, Types, Idle

\* A task that gives up or is done is idle, and the others do not move.
LEMMA EndPlace ==
  ASSUME Types, NEW t \in Task,
         LoadFails(t) \/ Refuse(t) \/ Done(t) \/ AdminReloadFails(t)
  PROVE  at'[t] = Idle /\ \A u \in Task : u # t => at'[u] = at[u]
BY DEF LoadFails, Refuse, Done, AdminReloadFails, Types

\* A hit gives the handler the engine of a loaded model.
LEMMA HitPlace ==
  ASSUME Types, NEW h \in Handler, Hit(h)
  PROVE  /\ at[h].pc = "idle" /\ at'[h].pc = "have"
         /\ \E m \in Loaded : at'[h].engine = EngineOf(m)
         /\ \A u \in Task : u # h => at'[u] = at[u]
BY DEF Hit, Types, Idle, Task

\* What get_engine returned is served by, or refused.
LEMMA UsePlace ==
  ASSUME Types, NEW h \in Handler, Use(h)
  PROVE  /\ at[h].pc = "have"
         /\ \/ at'[h] = Idle
            \/ /\ at'[h].pc \in {"serving", "late"} /\ at'[h].engine = at[h].engine
               /\ at[h].engine \in live
               /\ at'[h].pc = "serving" => ~ Stopping(at[h].engine)
         /\ \A u \in Task : u # h => at'[u] = at[u]
<1>1. h \in Task /\ at[h] \in Place
  BY DEF Types, Task
<1>2. \/ at'[h] = Idle
      \/ /\ at'[h] = [at[h] EXCEPT !.pc = IF Stopping(at[h].engine) THEN "late" ELSE "serving"]
         /\ at[h].engine \in live
  BY <1>1 DEF Use, Goto, Types
<1>3. at[h].pc = "have" /\ \A u \in Task : u # h => at'[u] = at[u]
  BY <1>1 DEF Use, Goto, Types
<1>4. QED BY <1>1, <1>2, <1>3 DEF Place

\* An engine that starts itself again serves its handler.
LEMMA RestartPlace ==
  ASSUME Types, NEW h \in Handler, Restart(h)
  PROVE  /\ at[h].pc = "have" /\ at'[h].pc = "serving"
         /\ at'[h].engine = at[h].engine /\ at[h].engine \in Engine
         /\ \A u \in Task : u # h => at'[u] = at[u]
<1>1. h \in Task /\ at[h] \in Place
  BY DEF Types, Task
<1>2. QED BY <1>1 DEF Restart, Goto, Types, Place

\* The enforcer's own steps move only the enforcer.
LEMMA EnforcerPlace ==
  ASSUME Types, Pressure \/ CheckTTL \/ EndPressure \/ EndTTL \/ Refresh
  PROVE  /\ Enforcer \in Task
         /\ Pressure \/ CheckTTL => at[Enforcer].pc = "idle"
         /\ Pressure => at'[Enforcer].pc = "pressed"
         /\ CheckTTL => at'[Enforcer].pc = "expire"
         /\ EndPressure \/ EndTTL => /\ at'[Enforcer] = Idle
                                     /\ at[Enforcer].pc \in {"pressed", "expire"}
         /\ Refresh => at' = at
         /\ \A u \in Task : u # Enforcer => at'[u] = at[u]
<1>1. Enforcer \in Task /\ at[Enforcer] \in Place
  BY DEF Types, Task
<1>2. CASE Pressure
  BY <1>1, <1>2 DEF Pressure, CheckTTL, EndPressure, EndTTL, Refresh, Goto, Types, Place
<1>3. CASE CheckTTL
  BY <1>1, <1>3 DEF Pressure, CheckTTL, EndPressure, EndTTL, Refresh, Goto, Types, Place
<1>4. CASE EndPressure \/ EndTTL
  BY <1>1, <1>4 DEF Pressure, CheckTTL, EndPressure, EndTTL, Refresh, Goto, Types, Place, Idle
<1>5. CASE Refresh
  BY <1>1, <1>5 DEF Pressure, CheckTTL, EndPressure, EndTTL, Refresh, Goto, Types
<1>6. QED BY <1>2, <1>3, <1>4, <1>5

\* Every step keeps the types, the unlocked routes' steps included.
LEMMA TypesStep ==
  ASSUME Types, Locals, Roles, [Next]_vars
  PROVE  Types'
<1> USE SizeAssumption, EntryType
<1>1. ASSUME NEW t \in Task, Stopped(t) PROVE Types'
  <2>1. at[t].entry \in Object /\ at[t] \in Place
    BY <1>1 DEF Stopped, Locals, LocalsOf, Types
  <2>2. at' \in [Task -> Place]
    <3>1. [at[t] EXCEPT !.pc = "settling", !.engine = NoEngine] \in Place
      BY <2>1 DEF Place, Within
    <3>2. Idle \in Place /\ Stranded \in Place
      BY DEF Idle, Stranded, Place, Outside
    <3>3. QED BY <1>1, <3>1, <3>2 DEF Stopped, Types
  <2>3. older' \subseteq Model \X Model
    BY <1>1 DEF Stopped, Types
  <2>4. engine' \in [Object -> Engine \cup {NoEngine}]
    BY <1>1, <2>1 DEF Stopped, Types
  <2>5. live' \subseteq Engine /\ closing' \subseteq Engine
    BY <1>1 DEF Stopped, Types
  <2>6. UNCHANGED <<scans, gen, loading, aborting, pinned, counter, astray>>
    BY <1>1 DEF Stopped
  <2>7. QED BY <2>2, <2>3, <2>4, <2>5, <2>6 DEF Types
<1>2. ASSUME NEW t \in Task, Settled(t) PROVE Types'
  <2>1. at[t].entry[1] \in Model
    BY <1>2 DEF Settled, Locals, LocalsOf, Object
  <2>2. at' \in [Task -> Place]
    <3>1. \A p \in Place : p.next # "idle" => [p EXCEPT !.pc = p.next, !.entry = <<>>] \in Place
      BY DEF Place, Within
    <3>2. at[t] \in Place
      BY DEF Types
    <3>3. at[t].next # "idle" => [at[t] EXCEPT !.pc = at[t].next, !.entry = <<>>] \in Place
      BY <3>1, <3>2
    <3>4. QED BY <1>2, <3>3, IdlePlace DEF Settled, Types
  <2>3. counter' \in Int
    <3>1. counter' = counter - Size[at[t].entry[1]]
      BY <1>2 DEF Settled
    <3>2. counter \in Int /\ Size[at[t].entry[1]] \in Nat
      BY <2>1 DEF Types
    <3>3. QED BY <3>1, <3>2
  <2>4. UNCHANGED <<scans, gen, engine, loading, aborting, pinned, older, live, closing, astray>>
    BY <1>2 DEF Settled
  <2>5. QED BY <2>2, <2>3, <2>4 DEF Types
<1>3. ASSUME NEW t \in Task, Started(t) PROVE Types'
  <2>1. at[t].entry \in Object /\ at[t].entry[1] \in Model /\ at[t].engine \in Engine
    BY <1>3 DEF Started, Locals, LocalsOf, Object
  <2>2. at' \in [Task -> Place]
    BY <1>3, IdlePlace DEF Started, Goto, Within
  <2>3. older' \subseteq Model \X Model
    BY <1>3, <2>1 DEF Started, Types, Touched, Loaded
  <2>4. QED BY <1>3, <2>1, <2>2, <2>3 DEF Started, Types
<1>4. ASSUME NEW t \in Task, LoadFails(t) PROVE Types'
  BY <1>4, IdlePlace DEF LoadFails, Types
<1>5. ASSUME NEW t \in Task, FinishLoad(t) PROVE Types'
  <2>1. at[t].model \in Model
    BY <1>5 DEF FinishLoad, Locals, LocalsOf
  <2>2. [Idle EXCEPT !.pc = "have", !.model = at[t].model, !.engine = EngineOf(at[t].model)]
          \in Place
    BY <2>1 DEF Idle, Place, Outside
  <2>3. at' \in [Task -> Place]
    BY <1>5, <2>2, IdlePlace DEF FinishLoad, Types
  <2>4. QED BY <1>5, <2>3 DEF FinishLoad, Types
<1>6. ASSUME NEW h \in Handler, HandlerStep(h) PROVE Types'
  <2> USE <1>6 DEF Task
  <2>1. CASE Hit(h)
    <3>1. PICK m \in Loaded : /\ older' = Touched(m)
                              /\ at' = [at EXCEPT ![h] = [Idle EXCEPT !.pc = "have", !.model = m,
                                                                     !.engine = EngineOf(m)]]
      BY <2>1 DEF Hit
    <3>2. m \in Model
      BY DEF Loaded
    <3>3. [Idle EXCEPT !.pc = "have", !.model = m, !.engine = EngineOf(m)] \in Place
      BY <3>2 DEF Idle, Place, Outside
    <3>4. older' \subseteq Model \X Model
      BY <3>1, <3>2 DEF Touched, Loaded, Types
    <3>5. QED BY <2>1, <3>1, <3>3, <3>4 DEF Hit, Types
  <2>2. CASE EvictForRoom(h)
    <3>1. PICK m \in Model, v \in Model : BeginUnload(h, v, m, "admit")
      BY <2>2 DEF EvictForRoom
    <3>2. astray' \in BOOLEAN
      BY <2>2 DEF EvictForRoom, Keeps, Starts, Types
    <3>3. QED BY <3>1, <3>2, BeginUnloadPlace DEF Types
  <2>3. CASE Admit(h)
    <3>1. PICK m \in Model : BeginLoad(h, m)
      BY <2>3 DEF Admit
    <3>2. astray' \in BOOLEAN
      BY <2>3 DEF Admit, Keeps, Starts, Types
    <3>3. QED BY <3>1, <3>2, BeginLoadPlace DEF Types
  <2>4. CASE Refuse(h) \/ Use(h) \/ Done(h)
    <3>1. at' \in [Task -> Place]
      <4>1. \A p \in Outside : [at EXCEPT ![h].pc = p] \in [Task -> Place]
        BY IdlePlace
      <4>0. [at EXCEPT ![h] = Idle] \in [Task -> Place]
        BY IdlePlace
      <4>2. \/ at' = [at EXCEPT ![h] = Idle]
            \/ \E p \in Outside : at' = [at EXCEPT ![h].pc = p]
        BY <2>4 DEF Refuse, Use, Done, Goto, Outside
      <4>3. QED BY <4>0, <4>1, <4>2
    <3>2. QED BY <2>4, <3>1 DEF Refuse, Use, Done, Types
  <2>5. CASE Restart(h)
    <3>1. at' \in [Task -> Place]
      BY <2>5, IdlePlace DEF Restart, Goto, Outside
    <3>2. at[h].engine \in Engine
      BY <2>5 DEF Restart, Types, Place
    <3>3. QED BY <2>5, <3>1, <3>2 DEF Restart, Types
  <2>6. QED BY <1>6, <2>1, <2>2, <2>3, <2>4, <2>5 DEF HandlerStep
<1>7. ASSUME EnforcerStep PROVE Types'
  <2>0. Enforcer \in Task
    BY DEF Task
  <2>1. CASE Pressure \/ CheckTTL
    <3>1. /\ [at EXCEPT ![Enforcer].pc = "pressed"] \in [Task -> Place]
          /\ [at EXCEPT ![Enforcer].pc = "expire"] \in [Task -> Place]
      BY <2>0, IdlePlace DEF Within
    <3>2. at' \in [Task -> Place]
      BY <2>1, <3>1 DEF Pressure, CheckTTL, Goto
    <3>3. astray' \in BOOLEAN
      BY <2>1 DEF Pressure, CheckTTL, Starts, Types
    <3>4. QED BY <2>1, <3>2, <3>3 DEF Pressure, CheckTTL, Types
  <2>2. CASE EvictUnderPressure \/ Expire
    <3>1. PICK m \in Model, s \in {"pressed", "expire"} : BeginUnload(Enforcer, m, NoModel, s)
      BY <2>2 DEF EvictUnderPressure, Expire, Candidates, Loaded
    <3>2. astray' \in BOOLEAN
      BY <2>2 DEF EvictUnderPressure, Expire, Types
    <3>3. QED BY <2>0, <3>1, <3>2, BeginUnloadPlace DEF Types
  <2>3. CASE EndPressure \/ EndTTL
    <3>1. at' \in [Task -> Place]
      BY <2>0, <2>3, IdlePlace DEF EndPressure, EndTTL
    <3>2. QED BY <2>3, <3>1 DEF EndPressure, EndTTL, Types
  <2>4. CASE Refresh
    <3>1. older' \subseteq Model \X Model
      BY <2>4 DEF Refresh, Touched, Loaded, Types
    <3>2. QED BY <2>4, <3>1 DEF Refresh, Types
  <2>5. QED BY <1>7, <2>1, <2>2, <2>3, <2>4 DEF EnforcerStep
<1>8. ASSUME NEW a \in Admin, RouteStep(a) PROVE Types'
  <2>0. a \in Task
    BY DEF Task
  <2>1. CASE AdminUnload(a)
    <3>1. PICK m \in Model, s \in {"idle", "reload"} : BeginUnload(a, m, m, s)
      BY <2>1 DEF AdminUnload
    <3>2. astray' \in BOOLEAN
      BY <2>1 DEF AdminUnload, Starts, Types
    <3>3. QED BY <2>0, <3>1, <3>2, BeginUnloadPlace DEF Types
  <2>2. CASE AdminReload(a)
    <3>1. at[a].model \in Model /\ BeginLoad(a, at[a].model)
      BY <2>0, <2>2 DEF AdminReload, Locals, LocalsOf
    <3>2. astray' \in BOOLEAN
      BY <2>2 DEF AdminReload, Types
    <3>3. QED BY <2>0, <3>1, <3>2, BeginLoadPlace DEF Types
  <2>3. CASE AdminReloadFails(a)
    BY <2>0, <2>3, IdlePlace DEF AdminReloadFails, Types
  <2>4. QED BY <1>8, <2>1, <2>2, <2>3 DEF RouteStep
<1>9. ASSUME Rescan PROVE Types'
  BY <1>9 DEF Rescan, Types, Starts
<1>10. ASSUME SetPinned PROVE Types'
  BY <1>10 DEF SetPinned, Types
<1>11. ASSUME UNCHANGED vars PROVE Types'
  BY <1>11 DEF vars, Types
<1>12. ASSUME NEW t \in Task, Closes(t) PROVE Types'
  <2>1. at[t].engine \in Engine
    BY <1>12 DEF Closes, Locals, LocalsOf
  <2>2. QED BY <1>12, <2>1 DEF Closes, Types
<1>13. QED
  BY <1>1, <1>2, <1>3, <1>4, <1>5, <1>6, <1>7, <1>8, <1>9, <1>10, <1>11, <1>12
  DEF Next, TaskStep

\* Every step keeps what a task's locals are by its place.
LEMMA LocalsStep ==
  ASSUME Types, Locals, Roles, [Next]_vars
  PROVE  Locals'
<1> USE SizeAssumption
<1>1. LocalsOf(Idle) /\ LocalsOf(Stranded)
  BY DEF LocalsOf, Idle, Stranded
<1>2. ASSUME NEW t \in Task, LocalsOf(at'[t]),
             \A u \in Task : u # t => at'[u] \in {at[u], Idle, Stranded}
      PROVE  Locals'
  BY <1>1, <1>2 DEF Locals
<1>3. ASSUME NEW t \in Task, \A u \in Task : at'[u] \in {at[u], Idle}
      PROVE  Locals'
  BY <1>1, <1>3 DEF Locals
<1>4. ASSUME NEW t \in Task, TaskStep(t) PROVE Locals'
  <2>1. LocalsOf(at[t]) /\ at[t] \in Place
    BY DEF Locals, Types
  <2>2. CASE Stopped(t)
    <3>1. \A u \in Task : u # t => at'[u] \in {at[u], Idle, Stranded}
      BY <2>2, StoppedPlace
    <3>2. at'[t] = [at[t] EXCEPT !.pc = "settling", !.engine = NoEngine]
      BY <2>2 DEF Stopped
    <3>3. LocalsOf(at'[t])
      BY <2>1, <2>2, <3>2 DEF Stopped, LocalsOf, Place
    <3>4. QED BY <1>2, <3>1, <3>3
  <2>3. CASE Settled(t)
    <3>1. \A u \in Task : u # t => at'[u] \in {at[u], Idle}
      BY <2>3 DEF Settled, Types
    <3>2. at'[t] = IF at[t].next = "idle" THEN Idle
                   ELSE [at[t] EXCEPT !.pc = at[t].next, !.entry = <<>>]
      BY <2>3 DEF Settled, Types
    <3>3. LocalsOf(at'[t])
      BY <1>1, <2>1, <2>3, <3>2 DEF Settled, LocalsOf, Place, Roles, RoleOf, Task
    <3>4. QED BY <1>2, <3>1, <3>3
  <2>4. CASE Started(t)
    <3>1. /\ \A u \in Task : u # t => at'[u] = at[u]
          /\ at'[t] = [at[t] EXCEPT !.pc = "finishing"]
      BY <2>4 DEF Started, Goto, Types
    <3>2. LocalsOf(at'[t])
      BY <2>1, <2>4, <3>1 DEF Started, LocalsOf, Place
    <3>3. QED BY <1>2, <3>1, <3>2
  <2>5. CASE LoadFails(t)
    <3>1. \A u \in Task : at'[u] \in {at[u], Idle}
      BY <2>5 DEF LoadFails, Types
    <3>2. QED BY <1>3, <3>1
  <2>6. CASE FinishLoad(t)
    <3>1. /\ \A u \in Task : u # t => at'[u] = at[u]
          /\ at'[t] = Idle \/ at'[t].pc = "have"
      BY <2>6 DEF FinishLoad, Types, Idle
    <3>2. LocalsOf(at'[t])
      BY <1>1, <3>1 DEF LocalsOf
    <3>3. QED BY <1>2, <3>1, <3>2
  <2>7. CASE Closes(t)
    BY <2>7 DEF Closes, Locals
  <2>8. QED BY <1>4, <2>2, <2>3, <2>4, <2>5, <2>6, <2>7 DEF TaskStep
<1>5. ASSUME NEW h \in Handler, HandlerStep(h) PROVE Locals'
  <2>0. h \in Task
    BY DEF Task
  <2>1. CASE Hit(h)
    <3>1. /\ \A u \in Task : u # h => at'[u] = at[u]
          /\ at'[h].pc = "have"
      BY <2>0, <2>1 DEF Hit, Types, Idle
    <3>2. LocalsOf(at'[h])
      BY <3>1 DEF LocalsOf
    <3>3. QED BY <1>2, <2>0, <3>1, <3>2
  <2>2. CASE EvictForRoom(h)
    <3>1. PICK m \in Model, v \in Model : BeginUnload(h, v, m, "admit")
      BY <2>2 DEF EvictForRoom
    <3>2. LocalsOf(at'[h]) /\ \A u \in Task : u # h => at'[u] = at[u]
      BY <2>0, <3>1, BeginUnloadPlace DEF LocalsOf
    <3>3. QED BY <1>2, <2>0, <3>2
  <2>3. CASE Admit(h)
    <3>1. PICK m \in Model : BeginLoad(h, m)
      BY <2>3 DEF Admit
    <3>2. LocalsOf(at'[h]) /\ \A u \in Task : u # h => at'[u] = at[u]
      BY <2>0, <3>1, BeginLoadPlace DEF LocalsOf
    <3>3. QED BY <1>2, <2>0, <3>2
  <2>4. CASE Refuse(h) \/ Done(h)
    <3>1. \A u \in Task : at'[u] \in {at[u], Idle}
      BY <2>4 DEF Refuse, Done, Types
    <3>2. QED BY <1>3, <2>0, <3>1
  <2>5. CASE Use(h) \/ Restart(h)
    <3>1. /\ \A u \in Task : u # h => at'[u] = at[u]
          /\ \/ at'[h] = Idle
             \/ at'[h].pc \in {"serving", "late"} /\ at'[h].engine \in Engine
      BY <2>5, UsePlace, RestartPlace DEF Types
    <3>2. LocalsOf(at'[h])
      BY <1>1, <3>1 DEF LocalsOf
    <3>3. QED BY <1>2, <2>0, <3>1, <3>2
  <2>6. QED BY <1>5, <2>1, <2>2, <2>3, <2>4, <2>5 DEF HandlerStep
<1>6. ASSUME EnforcerStep PROVE Locals'
  <2>0. Enforcer \in Task
    BY DEF Task
  <2>1. CASE Pressure \/ CheckTTL
    <3>1. /\ \A u \in Task : u # Enforcer => at'[u] = at[u]
          /\ at'[Enforcer].pc \in {"pressed", "expire"}
      BY <2>0, <2>1 DEF Pressure, CheckTTL, Goto, Types, Place
    <3>2. LocalsOf(at'[Enforcer])
      BY <3>1 DEF LocalsOf
    <3>3. QED BY <1>2, <2>0, <3>1, <3>2
  <2>2. CASE EvictUnderPressure \/ Expire
    <3>1. PICK m \in Model, s \in {"pressed", "expire"} : BeginUnload(Enforcer, m, NoModel, s)
      BY <2>2 DEF EvictUnderPressure, Expire, Candidates, Loaded
    <3>2. LocalsOf(at'[Enforcer]) /\ \A u \in Task : u # Enforcer => at'[u] = at[u]
      BY <2>0, <3>1, BeginUnloadPlace DEF LocalsOf
    <3>3. QED BY <1>2, <2>0, <3>2
  <2>3. CASE EndPressure \/ EndTTL \/ Refresh
    <3>1. \A u \in Task : at'[u] \in {at[u], Idle}
      BY <2>3 DEF EndPressure, EndTTL, Refresh, Types
    <3>2. QED BY <1>3, <2>0, <3>1
  <2>4. QED BY <1>6, <2>1, <2>2, <2>3 DEF EnforcerStep
<1>7. ASSUME NEW a \in Admin, RouteStep(a) PROVE Locals'
  <2>0. a \in Task
    BY DEF Task
  <2>1. CASE AdminUnload(a)
    <3>1. PICK m \in Model, s \in {"idle", "reload"} : BeginUnload(a, m, m, s)
      BY <2>1 DEF AdminUnload
    <3>2. LocalsOf(at'[a]) /\ \A u \in Task : u # a => at'[u] = at[u]
      BY <2>0, <3>1, BeginUnloadPlace DEF LocalsOf
    <3>3. QED BY <1>2, <2>0, <3>2
  <2>2. CASE AdminReload(a)
    <3>1. at[a].model \in Model /\ BeginLoad(a, at[a].model)
      BY <2>0, <2>2 DEF AdminReload, Locals, LocalsOf
    <3>2. LocalsOf(at'[a]) /\ \A u \in Task : u # a => at'[u] = at[u]
      BY <2>0, <3>1, BeginLoadPlace DEF LocalsOf
    <3>3. QED BY <1>2, <2>0, <3>2
  <2>3. CASE AdminReloadFails(a)
    <3>1. \A u \in Task : at'[u] \in {at[u], Idle}
      BY <2>3 DEF AdminReloadFails, Types
    <3>2. QED BY <1>3, <2>0, <3>1
  <2>4. QED BY <1>7, <2>1, <2>2, <2>3 DEF RouteStep
<1>8. CASE Rescan \/ SetPinned \/ UNCHANGED vars
  BY <1>8 DEF Rescan, SetPinned, vars, Locals
<1>9. QED BY <1>4, <1>5, <1>6, <1>7, <1>8 DEF Next

\* Every step keeps a task where its kind of task can be.
LEMMA RolesStep ==
  ASSUME Types, Locals, Roles, [Next]_vars
  PROVE  Roles'
<1> USE SizeAssumption
<1>0. Stranded.pc = "stranded"
  BY DEF Stranded, Idle
<1>1. \A t \in Task : RoleOf(t, Idle)
  BY DEF RoleOf, Idle
<1>2. ASSUME NEW t \in Task, RoleOf(t, at'[t]),
             \A u \in Task : u # t => at'[u] \in {at[u], Idle}
      PROVE  Roles'
  BY <1>1, <1>2 DEF Roles
<1>3. ASSUME NEW t \in Task, TaskStep(t) PROVE Roles'
  <2>1. RoleOf(t, at[t])
    BY DEF Roles
  <2>2. CASE Stopped(t)
    <3>1. RoleOf(t, at'[t])
      BY <2>1, <2>2, StoppedPlace DEF RoleOf
    <3>2. ASSUME NEW u \in Task, u # t PROVE RoleOf(u, at'[u])
      <4>1. CASE Holds(u, at[t].engine)
        <5>1. RoleOf(u, at[u]) /\ at[u].pc \in {"serving", "late"}
          BY <4>1 DEF Roles, Holds
        <5>2. u \in Handler /\ u # Enforcer /\ u \notin Admin
          BY <5>1 DEF RoleOf, Task
        <5>3. RoleOf(u, Stranded)
          BY <1>0, <5>2 DEF RoleOf
        <5>4. QED BY <1>1, <2>2, <3>2, <4>1, <5>3, StoppedPlace
      <4>2. CASE ~ Holds(u, at[t].engine)
        BY <2>2, <3>2, <4>2, StoppedPlace DEF Roles
      <4>3. QED BY <4>1, <4>2
    <3>3. QED BY <3>1, <3>2 DEF Roles
  <2>3. CASE Settled(t)
    <3>1. RoleOf(t, at'[t])
      BY <1>1, <2>1, <2>3, SettledPlace DEF RoleOf, Task
    <3>2. QED BY <1>2, <2>3, <3>1, SettledPlace
  <2>4. CASE Started(t)
    <3>1. RoleOf(t, at'[t])
      BY <2>1, <2>4, StartedPlace DEF RoleOf
    <3>2. QED BY <1>2, <2>4, <3>1, StartedPlace
  <2>5. CASE LoadFails(t)
    BY <1>1, <1>2, <2>5, EndPlace
  <2>6. CASE FinishLoad(t)
    <3>1. RoleOf(t, at'[t])
      <4>1. CASE t \in Handler
        BY <2>6, <4>1, FinishLoadPlace DEF RoleOf
      <4>2. CASE t \notin Handler
        BY <1>1, <2>6, <4>2, FinishLoadPlace
      <4>3. QED BY <4>1, <4>2
    <3>2. QED BY <1>2, <2>6, <3>1, FinishLoadPlace
  <2>7. CASE Closes(t)
    BY <2>7 DEF Closes, Roles
  <2>8. QED BY <1>3, <2>2, <2>3, <2>4, <2>5, <2>6, <2>7 DEF TaskStep
<1>4. ASSUME NEW h \in Handler, HandlerStep(h) PROVE Roles'
  <2>0. h \in Task /\ h # Enforcer /\ h \notin Admin
    BY DEF Task
  <2>1. CASE Hit(h)
    <3>1. RoleOf(h, at'[h])
      BY <2>0, <2>1, HitPlace DEF RoleOf
    <3>2. QED BY <1>2, <2>0, <2>1, <3>1, HitPlace
  <2>2. CASE EvictForRoom(h)
    <3>1. PICK m \in Model, v \in Model : BeginUnload(h, v, m, "admit")
      BY <2>2 DEF EvictForRoom
    <3>2. RoleOf(h, at'[h]) /\ \A u \in Task : u # h => at'[u] = at[u]
      BY <2>0, <3>1, BeginUnloadPlace DEF RoleOf
    <3>3. QED BY <1>2, <2>0, <3>2
  <2>3. CASE Admit(h)
    <3>1. PICK m \in Model : BeginLoad(h, m)
      BY <2>3 DEF Admit
    <3>2. RoleOf(h, at'[h]) /\ \A u \in Task : u # h => at'[u] = at[u]
      BY <2>0, <3>1, BeginLoadPlace DEF RoleOf
    <3>3. QED BY <1>2, <2>0, <3>2
  <2>4. CASE Refuse(h) \/ Done(h)
    BY <1>1, <1>2, <2>0, <2>4, EndPlace
  <2>5. CASE Use(h)
    <3>1. RoleOf(h, at'[h])
      BY <1>1, <2>0, <2>5, UsePlace DEF RoleOf
    <3>2. QED BY <1>2, <2>0, <2>5, <3>1, UsePlace
  <2>6. CASE Restart(h)
    <3>1. RoleOf(h, at'[h])
      BY <2>0, <2>6, RestartPlace DEF RoleOf
    <3>2. QED BY <1>2, <2>0, <2>6, <3>1, RestartPlace
  <2>7. QED BY <1>4, <2>1, <2>2, <2>3, <2>4, <2>5, <2>6 DEF HandlerStep
<1>5. ASSUME EnforcerStep PROVE Roles'
  <2>0. Enforcer \in Task /\ Enforcer \notin Handler /\ Enforcer \notin Admin
    BY DEF Task
  <2>1. CASE Pressure \/ CheckTTL
    <3>1. RoleOf(Enforcer, at'[Enforcer])
      BY <2>0, <2>1, EnforcerPlace DEF RoleOf
    <3>2. QED BY <1>2, <2>0, <2>1, <3>1, EnforcerPlace
  <2>2. CASE EvictUnderPressure \/ Expire
    <3>1. PICK m \in Model, s \in {"pressed", "expire"} : BeginUnload(Enforcer, m, NoModel, s)
      BY <2>2 DEF EvictUnderPressure, Expire, Candidates, Loaded
    <3>2. /\ RoleOf(Enforcer, at'[Enforcer])
          /\ \A u \in Task : u # Enforcer => at'[u] = at[u]
      BY <2>0, <3>1, BeginUnloadPlace DEF RoleOf
    <3>3. QED BY <1>2, <2>0, <3>2
  <2>3. CASE EndPressure \/ EndTTL
    BY <1>1, <1>2, <2>0, <2>3, EnforcerPlace
  <2>4. CASE Refresh
    BY <2>4, EnforcerPlace DEF Roles
  <2>5. QED BY <1>5, <2>1, <2>2, <2>3, <2>4 DEF EnforcerStep
<1>6. ASSUME NEW a \in Admin, RouteStep(a) PROVE Roles'
  <2>0. a \in Task /\ a # Enforcer /\ a \notin Handler
    BY DEF Task
  <2>1. CASE AdminUnload(a)
    <3>1. PICK m \in Model, s \in {"idle", "reload"} : BeginUnload(a, m, m, s)
      BY <2>1 DEF AdminUnload
    <3>2. RoleOf(a, at'[a]) /\ \A u \in Task : u # a => at'[u] = at[u]
      BY <2>0, <3>1, BeginUnloadPlace DEF RoleOf
    <3>3. QED BY <1>2, <2>0, <3>2
  <2>2. CASE AdminReload(a)
    <3>1. at[a].model \in Model /\ BeginLoad(a, at[a].model)
      BY <2>0, <2>2 DEF AdminReload, Locals, LocalsOf
    <3>2. RoleOf(a, at'[a]) /\ \A u \in Task : u # a => at'[u] = at[u]
      BY <2>0, <3>1, BeginLoadPlace DEF RoleOf
    <3>3. QED BY <1>2, <2>0, <3>2
  <2>3. CASE AdminReloadFails(a)
    BY <1>1, <1>2, <2>0, <2>3, EndPlace
  <2>4. QED BY <1>6, <2>1, <2>2, <2>3 DEF RouteStep
<1>7. CASE Rescan \/ SetPinned \/ UNCHANGED vars
  BY <1>7 DEF Rescan, SetPinned, vars, Roles
<1>8. QED BY <1>3, <1>4, <1>5, <1>6, <1>7 DEF Next

\* A task that is given the lock, or has it, is inside an operation; one that
\* gives it up is not.
LEMMA LockExactStep ==
  ASSUME Types, Locals, Roles, LockExact, [Next]_vars
  PROVE  LockExact'
<1> USE SizeAssumption
<1>1. Idle.pc \notin Within /\ Stranded.pc \notin Within
  BY DEF Idle, Stranded, Within
<1>2. ASSUME NEW t \in Task, lock' = lock,
             \/ Inside(t) /\ at'[t].pc \in Within
             \/ ~ Inside(t) /\ at'[t].pc \notin Within,
             \A u \in Task : u # t =>
               at'[u] = at[u] \/ (at'[u] \in {Idle, Stranded} /\ ~ Inside(u))
      PROVE  LockExact'
  BY <1>1, <1>2 DEF LockExact, Inside, Within, Task
<1>0. ASSUME NEW t \in Task, lock' = lock,
             \/ Inside(t) /\ at'[t].pc \in Within
             \/ ~ Inside(t) /\ at'[t].pc \notin Within,
             \A u \in Task : u # t => at'[u] = at[u]
      PROVE  LockExact'
  BY <1>0 DEF LockExact, Inside, Within, Task
<1>3. ASSUME NEW t \in Task, Inside(t), at'[t].pc \notin Within, Unlock(t),
             \A u \in Task : u # t => at'[u] = at[u]
      PROVE  LockExact'
  BY <1>3 DEF LockExact, Inside, Unlock, Task
<1>4. ASSUME NEW t \in Handler \cup {Enforcer}, lock \in {NoTask, t}, lock' = t,
             at'[t].pc \in Within, \A u \in Task : u # t => at'[u] = at[u]
      PROVE  LockExact'
  BY <1>4 DEF LockExact, Inside, Task
<1>5. ASSUME NEW t \in Task, TaskStep(t) PROVE LockExact'
  <2>2. CASE Stopped(t)
    <3>1. lock' = lock /\ Inside(t) /\ at'[t].pc \in Within
      BY <2>2, StoppedPlace DEF Stopped, Inside, Within
    <3>2. \A u \in Task : u # t =>
            at'[u] = at[u] \/ (at'[u] \in {Idle, Stranded} /\ ~ Inside(u))
      BY <2>2, StoppedPlace DEF Holds, Inside, Within
    <3>3. QED BY <1>2, <3>1, <3>2
  <2>9. CASE Closes(t)
    BY <2>9 DEF Closes, LockExact, Inside
  <2>3. CASE Settled(t)
    <3>1. /\ lock' = lock /\ Inside(t)
          /\ \A u \in Task : u # t => at'[u] = at[u]
      BY <2>3, SettledPlace DEF Settled, Inside, Within
    <3>2. RoleOf(t, at[t]) /\ at[t].pc = "settling"
      BY <2>3, SettledPlace DEF Roles
    <3>3. CASE t \in Admin
      <4>1. t \notin Handler \cup {Enforcer}
        BY <3>3
      <4>2. QED BY <3>1, <4>1 DEF LockExact, Inside, Task
    <3>4. CASE t \notin Admin
      <4>1. at[t].next \in {"admit", "pressed", "expire"}
        BY <3>2, <3>4 DEF RoleOf, Task
      <4>2. at'[t].pc \in Within
        BY <2>3, <4>1, SettledPlace DEF Within
      <4>3. QED BY <1>0, <3>1, <4>2
    <3>5. QED BY <3>3, <3>4
  <2>4. CASE Started(t)
    <3>1. /\ lock' = lock /\ Inside(t) /\ at'[t].pc \in Within
          /\ \A u \in Task : u # t => at'[u] = at[u]
      BY <2>4, StartedPlace DEF Started, Inside, Within
    <3>2. QED BY <1>0, <3>1
  <2>5. CASE LoadFails(t)
    <3>1. Inside(t) /\ Unlock(t)
      BY <2>5 DEF LoadFails, Inside, Within
    <3>2. QED BY <1>1, <1>3, <2>5, <3>1, EndPlace
  <2>6. CASE FinishLoad(t)
    <3>1. Inside(t) /\ Unlock(t)
      BY <2>6 DEF FinishLoad, Inside, Within
    <3>2. at'[t].pc \notin Within
      BY <1>1, <2>6, FinishLoadPlace DEF Within
    <3>3. QED BY <1>3, <2>6, <3>1, <3>2, FinishLoadPlace
  <2>7. QED BY <1>5, <2>2, <2>3, <2>4, <2>5, <2>6, <2>9 DEF TaskStep
<1>6. ASSUME NEW h \in Handler, HandlerStep(h) PROVE LockExact'
  <2>0. h \in Task /\ h \in Handler \cup {Enforcer}
    BY DEF Task
  <2>1. CASE Hit(h)
    <3>1. at'[h].pc \notin Within /\ ~ Inside(h) /\ lock' = lock
      BY <2>0, <2>1, HitPlace DEF Hit, Inside, Within
    <3>2. QED BY <1>0, <2>0, <2>1, <3>1, HitPlace
  <2>2. CASE EvictForRoom(h)
    <3>1. PICK m \in Model, v \in Model : Asks(h, m) /\ BeginUnload(h, v, m, "admit")
      BY <2>2 DEF EvictForRoom
    <3>2. lock \in {NoTask, h} /\ lock' = h
      BY <2>0, <2>2, <3>1 DEF EvictForRoom, Asks, LockExact, Inside, Within
    <3>3. at'[h].pc \in Within /\ \A u \in Task : u # h => at'[u] = at[u]
      BY <2>0, <3>1, BeginUnloadPlace DEF Within
    <3>4. QED BY <1>4, <2>0, <3>2, <3>3
  <2>3. CASE Admit(h)
    <3>1. PICK m \in Model : Asks(h, m) /\ BeginLoad(h, m)
      BY <2>3 DEF Admit
    <3>2. lock \in {NoTask, h} /\ lock' = h
      BY <2>0, <2>3, <3>1 DEF Admit, Asks, LockExact, Inside, Within
    <3>3. at'[h].pc \in Within /\ \A u \in Task : u # h => at'[u] = at[u]
      BY <2>0, <3>1, BeginLoadPlace DEF Within
    <3>4. QED BY <1>4, <2>0, <3>2, <3>3
  <2>4. CASE Refuse(h)
    <3>1. Inside(h) /\ Unlock(h)
      BY <2>4 DEF Refuse, Inside, Within
    <3>2. QED BY <1>1, <1>3, <2>0, <2>4, <3>1, EndPlace
  <2>5. CASE Done(h)
    <3>1. ~ Inside(h) /\ lock' = lock
      BY <2>5 DEF Done, Inside, Within
    <3>2. QED BY <1>1, <1>0, <2>0, <2>5, <3>1, EndPlace
  <2>6. CASE Use(h)
    <3>1. ~ Inside(h) /\ lock' = lock /\ at'[h].pc \notin Within
      BY <1>1, <2>6, UsePlace DEF Use, Inside, Within
    <3>2. QED BY <1>0, <2>0, <2>6, <3>1, UsePlace
  <2>7. CASE Restart(h)
    <3>1. ~ Inside(h) /\ lock' = lock /\ at'[h].pc \notin Within
      BY <2>7, RestartPlace DEF Restart, Inside, Within
    <3>2. QED BY <1>0, <2>0, <2>7, <3>1, RestartPlace
  <2>8. QED BY <1>6, <2>1, <2>2, <2>3, <2>4, <2>5, <2>6, <2>7 DEF HandlerStep
<1>7. ASSUME EnforcerStep PROVE LockExact'
  <2>0. Enforcer \in Task
    BY DEF Task
  <2>1. CASE Pressure \/ CheckTTL
    <3>1. lock = NoTask /\ lock' = Enforcer /\ at'[Enforcer].pc \in Within
      BY <2>1, EnforcerPlace DEF Pressure, CheckTTL, Within
    <3>2. QED BY <1>4, <2>1, <3>1, EnforcerPlace
  <2>2. CASE EvictUnderPressure \/ Expire
    <3>1. PICK m \in Model, s \in {"pressed", "expire"} : BeginUnload(Enforcer, m, NoModel, s)
      BY <2>2 DEF EvictUnderPressure, Expire, Candidates, Loaded
    <3>2. Inside(Enforcer) /\ lock' = lock
      BY <2>2 DEF EvictUnderPressure, Expire, Inside, Within
    <3>3. at'[Enforcer].pc \in Within /\ \A u \in Task : u # Enforcer => at'[u] = at[u]
      BY <2>0, <3>1, BeginUnloadPlace DEF Within
    <3>4. QED BY <1>0, <2>0, <3>2, <3>3
  <2>3. CASE EndPressure \/ EndTTL
    <3>1. Inside(Enforcer)
      BY <2>3, EnforcerPlace DEF Inside, Within
    <3>2. Unlock(Enforcer)
      BY <2>3, <3>1 DEF EndPressure, EndTTL, Unlock, LockExact
    <3>3. QED BY <1>1, <1>3, <2>3, <3>1, <3>2, EnforcerPlace
  <2>4. CASE Refresh
    <3>1. lock' = lock
      BY <2>4 DEF Refresh
    <3>2. QED BY <2>4, <3>1, EnforcerPlace DEF LockExact, Inside
  <2>5. QED BY <1>7, <2>1, <2>2, <2>3, <2>4 DEF EnforcerStep
<1>8. ASSUME NEW a \in Admin, RouteStep(a) PROVE LockExact'
  <2>0. a \in Task /\ a \notin Handler \cup {Enforcer}
    BY DEF Task
  <2>1. lock' = lock
    BY <1>8 DEF RouteStep, AdminUnload, AdminReload, AdminReloadFails
  <2>2. \A u \in Task : u # a => at'[u] = at[u]
    <3>1. CASE AdminUnload(a)
      <4>1. PICK m \in Model, s \in {"idle", "reload"} : BeginUnload(a, m, m, s)
        BY <3>1 DEF AdminUnload
      <4>2. QED BY <2>0, <4>1, BeginUnloadPlace
    <3>2. CASE AdminReload(a)
      <4>1. at[a].model \in Model /\ BeginLoad(a, at[a].model)
        BY <2>0, <3>2 DEF AdminReload, Locals, LocalsOf
      <4>2. QED BY <2>0, <4>1, BeginLoadPlace
    <3>3. CASE AdminReloadFails(a)
      BY <2>0, <3>3, EndPlace
    <3>4. QED BY <1>8, <3>1, <3>2, <3>3 DEF RouteStep
  <2>3. QED BY <2>0, <2>1, <2>2 DEF LockExact, Inside, Task
<1>9. CASE Rescan \/ SetPinned \/ UNCHANGED vars
  BY <1>9 DEF Rescan, SetPinned, vars, LockExact, Inside
<1>10. QED BY <1>5, <1>6, <1>7, <1>8, <1>9 DEF Next

------------------------------------------------------------------------------
\* Steps that leave the discipline intact, by what they do.
Alone(t) == \A u \in Task : Inside(u) => u = t

UnloadBegins ==
  \E t \in Task, m \in Model, w \in Model \cup {NoModel},
     s \in {"idle", "admit", "pressed", "expire", "reload"} :
    /\ Alone(t) /\ at[t].pc \notin {"starting", "settling"}
    /\ BeginUnload(t, m, w, s)
    /\ t \in Handler => s = "admit" /\ w \in Model /\ EngineOf(w) = NoEngine
    /\ t \notin Admin => ~ Busy(EngineOf(m))
    /\ s = "reload" => w = m

LoadBegins ==
  \E t \in Task, m \in Model :
    /\ Alone(t) /\ at[t].pc \notin {"starting", "settling"}
    /\ BeginLoad(t, m)
    /\ EngineOf(m) = NoEngine
    /\ Usage + Size[m] <= Ceiling

\* A task moves and nothing else does.
Moves ==
  \E t \in Task :
    /\ at[t].pc \notin {"starting", "settling"}
    /\ at'[t] = Idle \/ (Alone(t) /\ at'[t].pc \in {"pressed", "expire"})
    /\ \A u \in Task : u # t => at'[u] = at[u]
    /\ UNCHANGED <<gen, engine, counter, live, closing>>

Still == UNCHANGED <<gen, engine, counter, live, at>>

\* Nobody is inside an operation when one starts.
LEMMA NobodyInside ==
  ASSUME Types, Roles, LockExact, Starts, ~ astray'
  PROVE  ~ astray /\ \A t \in Task : ~ Inside(t)
<1>1. ~ astray /\ Quiet
  BY DEF Starts, Types
<1>2. ASSUME NEW t \in Task PROVE ~ Inside(t)
  <2>1. CASE t \in Admin
    BY <1>1, <2>1 DEF Quiet, Working, Inside, Within, Roles, RoleOf
  <2>2. CASE t \notin Admin
    <3>1. t \in Handler \cup {Enforcer} /\ t # NoTask
      BY <2>2, SizeAssumption DEF Task
    <3>2. QED BY <1>1, <3>1 DEF Quiet, LockExact
  <2>3. QED BY <2>1, <2>2
<1>3. QED BY <1>1, <1>2

\* Whoever is inside an operation is the only one.
LEMMA AloneInside ==
  ASSUME OneInside, NEW t \in Task, Inside(t)
  PROVE  Alone(t)
BY DEF OneInside, Alone

\* What went astray stays so.
LEMMA AstrayStays ==
  ASSUME Types, [Next]_vars, ~ astray'
  PROVE  ~ astray
<1> USE DEF Types
<1>1. ASSUME Starts PROVE ~ astray
  BY <1>1 DEF Starts
<1>2. ASSUME NEW t \in Task, TaskStep(t) PROVE ~ astray
  BY <1>2 DEF TaskStep, Closes, Stopped, Settled, Started, LoadFails, FinishLoad
<1>3. ASSUME NEW h \in Handler, HandlerStep(h) PROVE ~ astray
  BY <1>1, <1>3 DEF HandlerStep, Hit, EvictForRoom, Admit, Refuse, Use, Restart, Done, Keeps
<1>4. ASSUME EnforcerStep PROVE ~ astray
  BY <1>1, <1>4 DEF EnforcerStep, Pressure, EvictUnderPressure, EndPressure, CheckTTL, Expire,
                    Refresh, EndTTL
<1>5. ASSUME NEW a \in Admin, RouteStep(a) PROVE ~ astray
  BY <1>1, <1>5 DEF RouteStep, AdminUnload, AdminReload, AdminReloadFails
<1>6. CASE Rescan \/ SetPinned \/ UNCHANGED vars
  BY <1>1, <1>6 DEF Rescan, SetPinned, vars
<1>7. QED BY <1>2, <1>3, <1>4, <1>5, <1>6 DEF Next

Weight(A) == SumFunction([e \in A |-> Size[e[1]]])

\* The weights of a set of engines add up.
LEMMA WeightAddsUp ==
  ASSUME NEW A, A \subseteq Engine
  PROVE  /\ Weight(A) \in Nat
         /\ \A e \in A : Weight(A) = Size[e[1]] + Weight(A \ {e})
<1> DEFINE f == [e \in A |-> Size[e[1]]]
<1>1. IsFiniteSet(Engine)
  <2>1. IsFiniteSet(Model) /\ MaxEngines \in Int
    BY SizeAssumption
  <2>2. IsFiniteSet(1 .. MaxEngines)
    BY <2>1, FS_Interval
  <2> DEFINE I == 1 .. MaxEngines
  <2> HIDE DEF I
  <2>3. QED BY <2>1, <2>2, FS_Product DEF Engine, I
<1>2. IsFiniteSet(A)
  BY <1>1, FS_Subset
<1>3. \A e \in A : f[e] = Size[e[1]] /\ f[e] \in Nat
  BY SizeAssumption DEF Engine
<1>4. Weight(A) = SumFunctionOnSet(f, A)
  BY DEF Weight, SumFunction
<1>5. ASSUME NEW e \in A
      PROVE  Weight(A \ {e}) = SumFunctionOnSet(f, A \ {e})
  <2> DEFINE B == A \ {e}
             g == [d \in B |-> Size[d[1]]]
  <2>1. Weight(B) = SumFunctionOnSet(g, B)
    BY DEF Weight, SumFunction
  <2>2. \A d \in B : g[d] \in Nat /\ g[d] = f[d]
    BY <1>3
  <2>3. IsFiniteSet(B)
    BY <1>2, FS_RemoveElement
  <2> HIDE DEF f, g, B
  <2>4. SumFunctionOnSet(g, B) = SumFunctionOnSet(f, B)
    BY <2>2, <2>3, SumOfSame
  <2>5. QED BY <2>1, <2>4 DEF B
<1> HIDE DEF f
<1>6. /\ SumFunctionOnSet(f, A) \in Nat
      /\ \A e \in A : SumFunctionOnSet(f, A) = f[e] + SumFunctionOnSet(f, A \ {e})
  BY <1>2, <1>3, SumAddsUp
<1>7. QED BY <1>3, <1>4, <1>5, <1>6

\* Usage changes by the size of the engine that comes or goes.
LEMMA UsageChanges ==
  ASSUME Types, NEW e \in Engine
  PROVE  /\ Usage \in Nat /\ Size[e[1]] \in Nat
         /\ e \notin live /\ live' = live \cup {e} => Usage' = Usage + Size[e[1]]
         /\ e \in live /\ live' = live \ {e} => Usage' = Usage - Size[e[1]]
<1>1. live \subseteq Engine /\ Usage = Weight(live) /\ Usage' = Weight(live')
  BY DEF Types, Usage, Weight
<1>2. Weight(live) \in Nat /\ Size[e[1]] \in Nat
  BY <1>1, WeightAddsUp, SizeAssumption DEF Engine
<1>3. ASSUME e \notin live, live' = live \cup {e} PROVE Usage' = Usage + Size[e[1]]
  <2>1. live' \subseteq Engine /\ e \in live' /\ live' \ {e} = live
    BY <1>1, <1>3
  <2>2. Weight(live') = Size[e[1]] + Weight(live' \ {e})
    BY <2>1, WeightAddsUp
  <2>3. Weight(live' \ {e}) = Weight(live)
    BY <2>1
  <2>4. QED BY <1>1, <1>2, <2>2, <2>3
<1>4. ASSUME e \in live, live' = live \ {e} PROVE Usage' = Usage - Size[e[1]]
  <2>1. Weight(live) = Size[e[1]] + Weight(live \ {e})
    BY <1>1, <1>4, WeightAddsUp
  <2>2. Weight(live \ {e}) \in Nat
    BY <1>1, WeightAddsUp
  <2>3. QED BY <1>1, <1>2, <1>4, <2>1, <2>2
<1>5. QED BY <1>1, <1>2, <1>3, <1>4

\* So do the sizes of the loaded models, and those that settle.
LEMMA SizeOfAddsUp ==
  ASSUME NEW A, A \subseteq Model
  PROVE  /\ SizeOf(A) \in Nat
         /\ \A m \in A : SizeOf(A) = Size[m] + SizeOf(A \ {m})
<1>1. IsFiniteSet(A)
  BY SizeAssumption, FS_Subset
<1>2. \A m \in A : Size[m] \in Nat
  BY SizeAssumption
<1>3. QED BY <1>1, <1>2, SumAddsUp DEF SizeOf

SettlingSum(S, a) == SumFunction([t \in S |-> Size[a[t].entry[1]]])

\* Nobody settles: nothing is added.
LEMMA SettlingNone ==
  ASSUME NEW a
  PROVE  SettlingSum({}, a) = 0
<1> DEFINE f == [t \in {} |-> Size[a[t].entry[1]]]
<1>1. SettlingSum({}, a) = SumFunctionOnSet(f, {})
  BY DEF SettlingSum, SumFunction
<1> HIDE DEF f
<1>2. QED BY <1>1, SumAddsUp, FS_EmptySet

\* One task settles: the size of its model.
LEMMA SettlingOne ==
  ASSUME NEW a, NEW t, a[t].entry \in Object
  PROVE  SettlingSum({t}, a) = Size[a[t].entry[1]]
<1> DEFINE f == [u \in {t} |-> Size[a[u].entry[1]]]
<1>1. SettlingSum({t}, a) = SumFunctionOnSet(f, {t})
  BY DEF SettlingSum, SumFunction
<1>2. f[t] = Size[a[t].entry[1]] /\ f[t] \in Nat
  BY SizeAssumption DEF Object
<1> HIDE DEF f
<1>3. IsFiniteSet({t}) /\ {t} \ {t} = {} /\ IsFiniteSet({})
  BY FS_Singleton, FS_EmptySet
<1>4. \A x \in {t} : f[x] \in Nat
  BY <1>2
<1>5. SumFunctionOnSet(f, {t}) = f[t] + SumFunctionOnSet(f, {t} \ {t})
  BY <1>3, <1>4, SumAddsUp
<1>6. SumFunctionOnSet(f, {}) = 0
  BY <1>3, SumAddsUp
<1>7. QED BY <1>1, <1>2, <1>3, <1>5, <1>6

Kinds ==
  \/ \E t \in Task : TaskStep(t) /\ Alone(t)
  \/ \E h \in Handler : Hit(h) \/ Use(h)
  \/ UnloadBegins \/ LoadBegins \/ Moves \/ Still
  \/ Rescan /\ \A t \in Task : ~ Inside(t)

\* While the discipline holds, every step is of one of these kinds.
LEMMA StepKinds ==
  ASSUME Types, Locals, Roles, LockExact, Orderly, [Next]_vars, ~ astray'
  PROVE  Kinds
<1> USE DEF Orderly
<1>1. ASSUME NEW t \in Task, TaskStep(t) PROVE Kinds
  <2>1. Inside(t)
    BY <1>1 DEF TaskStep, Closes, Stopped, Settled, Started, LoadFails, FinishLoad, Inside,
                    Within
  <2>2. QED BY <1>1, <2>1, AloneInside DEF Kinds
<1>2. ASSUME NEW h \in Handler, HandlerStep(h) PROVE Kinds
  <2> h \in Task
    BY DEF Task
  <2>a. ASSUME NEW m \in Model, Asks(h, m), Keeps(h)
        PROVE  Alone(h) /\ at[h].pc \notin {"starting", "settling"} /\ EngineOf(m) = NoEngine
    <3>1. CASE at[h].pc = "idle" /\ lock = NoTask /\ m \notin Loaded
      <4>1. \A t \in Task : ~ Inside(t)
        BY <2>a, <3>1, NobodyInside DEF Keeps
      <4>2. QED BY <3>1, <4>1 DEF Alone, Loaded
    <3>2. CASE at[h].pc = "admit" /\ at[h].model = m
      <4>1. Inside(h)
        BY <3>2 DEF Inside, Within
      <4>2. QED BY <3>2, <4>1, AloneInside DEF WorkTrue, WorkOf
    <3>3. QED BY <2>a, <3>1, <3>2 DEF Asks
  <2>1. CASE Hit(h) \/ Use(h)
    BY <2>1 DEF Kinds
  <2>2. CASE EvictForRoom(h)
    <3>1. PICK m \in Model, v \in Model :
             Asks(h, m) /\ ~ Fits(m) /\ IsVictim(v) /\ BeginUnload(h, v, m, "admit")
      BY <2>2 DEF EvictForRoom
    <3>2. Keeps(h)
      BY <2>2 DEF EvictForRoom
    <3>3. Alone(h) /\ at[h].pc \notin {"starting", "settling"} /\ EngineOf(m) = NoEngine
      BY <2>a, <3>1, <3>2
    <3>4. ~ Busy(EngineOf(v))
      BY <3>1 DEF IsVictim, Candidates
    <3>5. UnloadBegins
      BY <3>1, <3>3, <3>4 DEF UnloadBegins
    <3>6. QED BY <3>5 DEF Kinds
  <2>3. CASE Admit(h)
    <3>1. PICK m \in Model : Asks(h, m) /\ Fit(m) /\ BeginLoad(h, m)
      BY <2>3 DEF Admit
    <3>2. Keeps(h)
      BY <2>3 DEF Admit
    <3>3. Alone(h) /\ at[h].pc \notin {"starting", "settling"} /\ EngineOf(m) = NoEngine
      BY <2>a, <3>1, <3>2
    <3>4. Usage \in Nat
      BY WeightAddsUp DEF Types, Usage, Weight
    <3>5. Usage + Size[m] <= Ceiling
      BY <3>1, <3>4, SizeAssumption DEF Fit, Fits, FitsAlone
    <3>6. LoadBegins
      BY <3>1, <3>3, <3>5 DEF LoadBegins
    <3>7. QED BY <3>6 DEF Kinds
  <2>4. CASE Refuse(h) \/ Done(h)
    <3>1. at'[h] = Idle /\ \A u \in Task : u # h => at'[u] = at[u]
      BY <2>4 DEF Refuse, Done, Types
    <3>2. at[h].pc \notin {"starting", "settling"}
      BY <2>4 DEF Refuse, Done
    <3>3. UNCHANGED <<gen, engine, counter, live, closing>>
      BY <2>4 DEF Refuse, Done
    <3>4. Moves
      BY <3>1, <3>2, <3>3 DEF Moves
    <3>5. QED BY <3>4 DEF Kinds
  <2>5. CASE Restart(h)
    BY <2>5 DEF Restart
  <2>6. QED BY <1>2, <2>1, <2>2, <2>3, <2>4, <2>5 DEF HandlerStep
<1>3. ASSUME EnforcerStep PROVE Kinds
  <2> Enforcer \in Task /\ Enforcer \notin Handler
    BY SizeAssumption DEF Task
  <2>a. ASSUME Starts PROVE Alone(Enforcer)
    BY <2>a, NobodyInside DEF Alone
  <2>b. ASSUME at[Enforcer].pc \in {"pressed", "expire"} PROVE Alone(Enforcer)
    BY <2>b, AloneInside DEF Inside, Within
  <2>1. CASE Pressure \/ CheckTTL
    <3>1. Alone(Enforcer)
      BY <2>1, <2>a DEF Pressure, CheckTTL
    <3>2. at'[Enforcer].pc \in {"pressed", "expire"} /\ \A u \in Task : u # Enforcer => at'[u] = at[u]
      BY <2>1 DEF Pressure, CheckTTL, Goto, Types, Place
    <3>3. at[Enforcer].pc \notin {"starting", "settling"}
      BY <2>1 DEF Pressure, CheckTTL
    <3>4. UNCHANGED <<gen, engine, counter, live, closing>>
      BY <2>1 DEF Pressure, CheckTTL
    <3>5. Moves
      BY <3>1, <3>2, <3>3, <3>4 DEF Moves
    <3>6. QED BY <3>5 DEF Kinds
  <2>2. CASE EvictUnderPressure
    <3>1. PICK m \in Model : IsVictim(m) /\ BeginUnload(Enforcer, m, NoModel, "pressed")
      BY <2>2 DEF EvictUnderPressure
    <3>2. at[Enforcer].pc = "pressed"
      BY <2>2 DEF EvictUnderPressure
    <3>3. ~ Busy(EngineOf(m))
      BY <3>1 DEF IsVictim, Candidates
    <3>4. UnloadBegins
      BY <2>b, <3>1, <3>2, <3>3 DEF UnloadBegins
    <3>5. QED BY <3>4 DEF Kinds
  <2>3. CASE Expire
    <3>1. PICK m \in Candidates :
             Entry(m) \notin loading /\ BeginUnload(Enforcer, m, NoModel, "expire")
      BY <2>3 DEF Expire
    <3>2. at[Enforcer].pc = "expire"
      BY <2>3 DEF Expire
    <3>3. m \in Model /\ ~ Busy(EngineOf(m))
      BY <3>1 DEF Candidates, Loaded
    <3>4. UnloadBegins
      BY <2>b, <3>1, <3>2, <3>3 DEF UnloadBegins
    <3>5. QED BY <3>4 DEF Kinds
  <2>4. CASE EndPressure \/ EndTTL
    <3>1. at'[Enforcer] = Idle /\ \A u \in Task : u # Enforcer => at'[u] = at[u]
      BY <2>4 DEF EndPressure, EndTTL, Types
    <3>2. at[Enforcer].pc \notin {"starting", "settling"}
      BY <2>4 DEF EndPressure, EndTTL
    <3>3. UNCHANGED <<gen, engine, counter, live, closing>>
      BY <2>4 DEF EndPressure, EndTTL
    <3>4. Moves
      BY <3>1, <3>2, <3>3 DEF Moves
    <3>5. QED BY <3>4 DEF Kinds
  <2>5. CASE Refresh
    BY <2>5 DEF Refresh, Kinds, Still
  <2>6. QED BY <1>3, <2>1, <2>2, <2>3, <2>4, <2>5 DEF EnforcerStep
<1>4. ASSUME NEW a \in Admin, RouteStep(a) PROVE Kinds
  <2> a \in Task /\ a \notin Handler
    BY SizeAssumption DEF Task
  <2>1. CASE AdminUnload(a)
    <3>1. PICK m \in Model : \/ BeginUnload(a, m, m, "idle")
                             \/ m \in pinned /\ BeginUnload(a, m, m, "reload")
      BY <2>1 DEF AdminUnload
    <3>2. at[a].pc = "idle" /\ Starts
      BY <2>1 DEF AdminUnload
    <3>3. Alone(a)
      BY <3>2, NobodyInside DEF Alone
    <3>4. UnloadBegins
      BY <3>1, <3>2, <3>3 DEF UnloadBegins
    <3>5. QED BY <3>4 DEF Kinds
  <2>2. CASE AdminReload(a)
    <3>1. at[a].pc = "reload" /\ BeginLoad(a, at[a].model)
      BY <2>2 DEF AdminReload
    <3>2. Alone(a) /\ at[a].model \in Model
      BY <3>1, AloneInside DEF Inside, Within, Locals, LocalsOf
    <3>3. EngineOf(at[a].model) = NoEngine
      BY <3>1 DEF WorkTrue, WorkOf
    <3>4. Usage + Size[at[a].model] <= Ceiling
      BY <3>1 DEF ReloadFits
    <3>5. LoadBegins
      BY <3>1, <3>2, <3>3, <3>4 DEF LoadBegins
    <3>6. QED BY <3>5 DEF Kinds
  <2>3. CASE AdminReloadFails(a)
    <3>1. at'[a] = Idle /\ \A u \in Task : u # a => at'[u] = at[u]
      BY <2>3 DEF AdminReloadFails, Types
    <3>2. at[a].pc \notin {"starting", "settling"}
      BY <2>3 DEF AdminReloadFails
    <3>3. UNCHANGED <<gen, engine, counter, live, closing>>
      BY <2>3 DEF AdminReloadFails
    <3>4. Moves
      BY <3>1, <3>2, <3>3 DEF Moves
    <3>5. QED BY <3>4 DEF Kinds
  <2>4. QED BY <1>4, <2>1, <2>2, <2>3 DEF RouteStep
<1>5. CASE Rescan
  <2>1. Starts
    BY <1>5 DEF Rescan
  <2>2. QED BY <1>5, <2>1, NobodyInside DEF Kinds
<1>6. CASE SetPinned \/ UNCHANGED vars
  BY <1>6 DEF SetPinned, vars, Kinds, Still
<1>7. QED BY <1>1, <1>2, <1>3, <1>4, <1>5, <1>6 DEF Next

------------------------------------------------------------------------------
\* Alone inside means nobody else stops, settles or loads.
LEMMA OthersOutside ==
  ASSUME NEW t \in Task, Alone(t), NEW u \in Task, u # t
  PROVE  at[u].pc \notin Within
BY DEF Alone, Inside

\* A stop leaves the discipline intact.
LEMMA StoppedKeeps ==
  ASSUME Types, Locals, Roles, Orderly, NEW t \in Task, Alone(t), Stopped(t), ~ astray
  PROVE  Orderly'
<1> DEFINE e == at[t].engine
           o == at[t].entry
           m == o[1]
<1>1. /\ at[t].pc = "stopping" /\ o \in Object /\ e \in Engine /\ e # NoEngine
      /\ m \in Model
  BY SizeAssumption DEF Stopped, Locals, LocalsOf, Object
<1>2. engine[o] = e /\ e[1] = m /\ o = Entry(m) /\ EngineOf(m) = e
  BY <1>1 DEF Orderly, WorkTrue, WorkOf, EnginesCurrent, EngineOf
<1>3. /\ at'[t].pc = "settling" /\ at'[t].engine = NoEngine /\ at'[t].entry = o
      /\ at'[t].model = at[t].model /\ at'[t].next = at[t].next
  BY DEF Stopped, Types, Place
<1>4. \A u \in Task : u # t => /\ at[u].pc \notin Within /\ at'[u].pc \notin Within
                               /\ at'[u] = at[u] \/ at'[u].pc \in {"idle", "stranded"}
                               /\ Holds(u, e) => at'[u].pc \in {"idle", "stranded"}
  <2>1. ASSUME NEW u \in Task, u # t
        PROVE  IF Holds(u, e) THEN at'[u] \in {Idle, Stranded} ELSE at'[u] = at[u]
    BY <2>1, StoppedPlace
  <2>2. Idle.pc = "idle" /\ Stranded.pc = "stranded"
    BY DEF Idle, Stranded
  <2>3. QED BY <2>1, <2>2, OthersOutside DEF Within
<1>5. /\ live' = live \ {e} /\ UNCHANGED <<gen, counter, astray>>
      /\ engine' = [engine EXCEPT ![o] = NoEngine]
  BY DEF Stopped
<1>6. \A x \in Object : engine'[x] = IF x = o THEN NoEngine ELSE engine[x]
  BY <1>1, <1>5 DEF Types
<1>7. \A n \in Model : /\ Entry(n) \in Object /\ Entry(n)' = Entry(n)
                       /\ EngineOf(n)' = IF n = m THEN NoEngine ELSE EngineOf(n)
  <2>1. ASSUME NEW n \in Model
        PROVE  Entry(n) \in Object /\ Entry(n)' = Entry(n) /\ (Entry(n) = o <=> n = m)
    BY <1>2, <1>5 DEF Entry, Object, Types
  <2>2. QED BY <1>6, <2>1 DEF EngineOf
<1>8. m \in Loaded /\ Loaded' = Loaded \ {m}
  BY <1>1, <1>2, <1>7 DEF Loaded
<1>9. \A n \in Loaded \ {m} : EngineOf(n) # e
  <2>1. ASSUME NEW n \in Loaded PROVE EngineOf(n)[1] = n
    BY <1>7, <2>1 DEF Orderly, EnginesCurrent, EngineOf, Loaded, Entry
  <2>2. QED BY <1>2, <2>1
<1>10. e \in live
  BY <1>2, <1>8 DEF Orderly, NoStrayEngine
<1>11. Usage \in Nat /\ Size[m] \in Nat /\ Usage' = Usage - Size[m]
  BY <1>1, <1>2, <1>5, <1>10, UsageChanges
<1>12. OneInside'
  BY <1>4 DEF OneInside, Inside
<1>13. EnginesCurrent'
  BY <1>5, <1>6 DEF Orderly, EnginesCurrent, Entry
<1>14. WorkTrue'
  <2>1. engine'[at'[t].entry] = NoEngine /\ at'[t].entry = Entry(m)'
    BY <1>1, <1>2, <1>3, <1>6, <1>7
  <2>2. at'[t].next = "reload" => at'[t].model = at'[t].entry[1]
    BY <1>1, <1>3 DEF Orderly, WorkTrue, WorkOf
  <2>3. t \in Handler => EngineOf(at[t].model)' = NoEngine
    <3>1. ASSUME t \in Handler PROVE at[t].model \in Model /\ EngineOf(at[t].model) = NoEngine
      BY <1>1, <3>1 DEF Roles, RoleOf, Orderly, WorkTrue, WorkOf
    <3>2. \A n \in Model : EngineOf(n) = NoEngine => engine'[<<n, gen'[n]>>] = NoEngine
      BY <1>7 DEF EngineOf, Entry
    <3>3. QED BY <1>3, <3>1, <3>2 DEF EngineOf, Entry
  <2>4. \A u \in Task : u # t => at'[u].pc \notin Within
    BY <1>4
  <2>5. WorkOf(t)'
    BY <1>3, <2>1, <2>2, <2>3 DEF WorkOf, Entry
  <2>6. \A u \in Task : u # t => WorkOf(u)'
    BY <2>4 DEF WorkOf, Within
  <2>7. QED BY <2>5, <2>6 DEF WorkTrue
<1>15. ReloadFits'
  <2>1. Usage' + Size[m] <= Ceiling
    BY <1>11, SizeAssumption DEF Orderly, WithinCeiling
  <2>2. QED BY <1>3, <1>4, <2>1 DEF ReloadFits, Within
<1>16. InUse'
  <2>1. ASSUME NEW h \in Handler, at'[h].pc = "serving" PROVE at'[h].engine \in live'
    <3>1. h \in Task /\ h # t
      BY <1>3, <2>1 DEF Task
    <3>2. at'[h] = at[h] /\ at[h].pc = "serving" /\ at[h].engine # e
      BY <1>4, <2>1, <3>1 DEF Holds
    <3>3. QED BY <1>5, <3>2 DEF Orderly, InUse
  <2>2. \A u \in Task : at'[u].pc # "stopping"
    BY <1>3, <1>4 DEF Within
  <2>3. Handler \cup {Enforcer} \subseteq Task
    BY DEF Task
  <2>4. QED BY <2>1, <2>2, <2>3 DEF InUse
<1>17. NoStrayEngine'
  <2>1. \A u \in Task : at[u].pc # "starting" /\ at'[u].pc # "starting"
    BY <1>1, <1>3, <1>4 DEF Within
  <2>2. live = {EngineOf(n) : n \in Loaded}
    BY <2>1 DEF Orderly, NoStrayEngine
  <2>3. live' = {EngineOf(n) : n \in Loaded \ {m}}
    BY <1>2, <1>5, <1>8, <1>9, <2>2
  <2>4. \A n \in Loaded \ {m} : EngineOf(n)' = EngineOf(n)
    BY <1>7 DEF Loaded
  <2>5. live' = {EngineOf(n)' : n \in Loaded'}
    BY <1>8, <2>3, <2>4
  <2>6. QED BY <2>1, <2>5 DEF NoStrayEngine
<1>18. GetEngineReturnsLoaded'
  <2>1. ASSUME NEW h \in Handler, at'[h].pc = "have" PROVE at'[h].engine # NoEngine
    <3>1. h \in Task /\ h # t
      BY <1>3, <2>1 DEF Task
    <3>2. at'[h] = at[h]
      BY <1>4, <2>1, <3>1
    <3>3. QED BY <2>1, <3>2 DEF Orderly, GetEngineReturnsLoaded
  <2>2. QED BY <2>1 DEF GetEngineReturnsLoaded
<1>19. AccountingExact'
  <2>1. Settling = {} /\ Settling' = {t}
    BY <1>1, <1>3, <1>4 DEF Settling, Within
  <2>2. SettlingSum(Settling, at) = 0
    BY <2>1, SettlingNone
  <2>3. SettlingSum(Settling', at') = Size[m]
    BY <1>1, <1>3, <2>1, SettlingOne
  <2>4. counter = SizeOf(Loaded) + SettlingSum(Settling, at)
    BY DEF Orderly, AccountingExact, SettlingSum
  <2>5. SizeOf(Loaded) = Size[m] + SizeOf(Loaded \ {m}) /\ SizeOf(Loaded \ {m}) \in Nat
    BY <1>8, SizeOfAddsUp DEF Loaded
  <2>6. SizeOf(Loaded)' = SizeOf(Loaded \ {m})
    BY <1>8 DEF SizeOf
  <2>7. counter' = SizeOf(Loaded)' + SettlingSum(Settling', at')
    BY <1>5, <1>11, <2>2, <2>3, <2>4, <2>5, <2>6
  <2>8. QED BY <2>7 DEF AccountingExact, SettlingSum
<1>20. WithinCeiling'
  BY <1>11, SizeAssumption DEF Orderly, WithinCeiling
<1>21. QED BY <1>12, <1>13, <1>14, <1>15, <1>16, <1>17, <1>18, <1>19, <1>20 DEF Orderly

\* The end of the settle barrier does.
LEMMA SettledKeeps ==
  ASSUME Types, Locals, Roles, Orderly, NEW t \in Task, Alone(t), Settled(t), ~ astray
  PROVE  Orderly'
<1> DEFINE m == at[t].entry[1]
<1>1. at[t].pc = "settling" /\ at[t].entry \in Object /\ m \in Model
  BY DEF Settled, Locals, LocalsOf, Object
<1>2. /\ at[t].entry = Entry(m) /\ EngineOf(m) = NoEngine
      /\ at[t].next = "reload" => at[t].model = m /\ Usage + Size[m] <= Ceiling
      /\ t \in Handler => EngineOf(at[t].model) = NoEngine
  BY <1>1 DEF Orderly, WorkTrue, WorkOf, ReloadFits, EngineOf
<1>3. at[t].next \in {"idle", "admit", "pressed", "expire", "reload"}
  BY DEF Types, Place
<1>4. /\ at'[t].pc = at[t].next
      /\ at[t].next # "idle" => at'[t].model = at[t].model
  BY DEF Settled, Types, Place, Idle
<1>5. \A u \in Task : u # t => at[u].pc \notin Within /\ at'[u] = at[u]
  BY OthersOutside DEF Settled, Types
<1>6. UNCHANGED <<gen, engine, live, closing, astray>> /\ counter' = counter - Size[m]
  BY DEF Settled
<1>7. Usage' = Usage /\ Loaded' = Loaded /\ \A n \in Model : EngineOf(n)' = EngineOf(n)
  BY <1>6 DEF Usage, Loaded, EngineOf, Entry
<1>8. OneInside'
  BY <1>5 DEF OneInside, Inside
<1>9. EnginesCurrent'
  BY <1>6 DEF Orderly, EnginesCurrent, Entry
<1>10. WorkTrue'
  <2>1. at'[t].pc = "reload" => EngineOf(at'[t].model) = NoEngine
    BY <1>2, <1>4
  <2>2. t \in Handler /\ at'[t].pc = "admit" => EngineOf(at'[t].model) = NoEngine
    BY <1>2, <1>4
  <2>3. WorkOf(t)'
    BY <1>3, <1>4, <1>6, <2>1, <2>2 DEF WorkOf, EngineOf, Entry
  <2>4. \A u \in Task : u # t => WorkOf(u)'
    BY <1>5 DEF WorkOf, Within
  <2>5. QED BY <2>3, <2>4 DEF WorkTrue
<1>11. ReloadFits'
  BY <1>2, <1>3, <1>4, <1>5, <1>7 DEF ReloadFits, Within
<1>12. InUse'
  <2>1. \A h \in Handler \cup {Enforcer} : h \in Task
    BY DEF Task
  <2>2. \A h \in Handler : at'[h].pc = "serving" => at'[h].engine \in live'
    BY <1>3, <1>4, <1>5, <1>6, <2>1 DEF Orderly, InUse
  <2>3. \A u \in Task : at'[u].pc # "stopping"
    BY <1>3, <1>4, <1>5 DEF Within
  <2>4. QED BY <2>1, <2>2, <2>3 DEF InUse
<1>13. NoStrayEngine'
  <2>1. \A u \in Task : at[u].pc # "starting" /\ at'[u].pc # "starting"
    BY <1>1, <1>3, <1>4, <1>5 DEF Within
  <2>2. live = {EngineOf(n) : n \in Loaded}
    BY <2>1 DEF Orderly, NoStrayEngine
  <2>3. \A n \in Loaded : EngineOf(n)' = EngineOf(n)
    BY <1>7 DEF Loaded
  <2>4. live' = {EngineOf(n)' : n \in Loaded'}
    BY <1>6, <1>7, <2>2, <2>3
  <2>5. QED BY <2>1, <2>4 DEF NoStrayEngine
<1>14. GetEngineReturnsLoaded'
  <2>1. \A h \in Handler : h \in Task
    BY DEF Task
  <2>2. QED BY <1>3, <1>4, <1>5, <2>1 DEF Orderly, GetEngineReturnsLoaded
<1>15. AccountingExact'
  <2>1. Settling = {t} /\ Settling' = {}
    BY <1>1, <1>3, <1>4, <1>5 DEF Settling, Within
  <2>2. SettlingSum(Settling, at) = Size[m]
    BY <1>1, <2>1, SettlingOne
  <2>3. SettlingSum(Settling', at') = 0
    BY <2>1, SettlingNone
  <2>4. counter = SizeOf(Loaded) + SettlingSum(Settling, at)
    BY DEF Orderly, AccountingExact, SettlingSum
  <2>5. SizeOf(Loaded) \in Nat /\ SizeOf(Loaded)' = SizeOf(Loaded) /\ Size[m] \in Nat
    BY <1>1, <1>7, SizeOfAddsUp, SizeAssumption DEF Loaded, SizeOf
  <2>6. counter' = SizeOf(Loaded)' + SettlingSum(Settling', at')
    BY <1>6, <2>2, <2>3, <2>4, <2>5
  <2>7. QED BY <2>6 DEF AccountingExact, SettlingSum
<1>16. WithinCeiling'
  BY <1>7 DEF Orderly, WithinCeiling
<1>17. QED BY <1>8, <1>9, <1>10, <1>11, <1>12, <1>13, <1>14, <1>15, <1>16 DEF Orderly

\* The end of start() does: the engine becomes the entry's.
LEMMA StartedKeeps ==
  ASSUME Types, Locals, Roles, Orderly, NEW t \in Task, Alone(t), Started(t), ~ astray
  PROVE  Orderly'
<1> DEFINE e == at[t].engine
           o == at[t].entry
           m == at[t].model
<1>1. at[t].pc = "starting" /\ o \in Object /\ e \in Engine /\ e # NoEngine /\ m \in Model
  BY SizeAssumption DEF Started, Locals, LocalsOf
<1>2. o = Entry(m) /\ o[1] = m /\ engine[o] = NoEngine /\ e[1] = m
  BY <1>1 DEF Orderly, WorkTrue, WorkOf, Entry
<1>3. /\ at'[t].pc = "finishing" /\ at'[t].engine = e /\ at'[t].entry = o /\ at'[t].model = m
  BY DEF Started, Goto, Types, Place
<1>4. \A u \in Task : u # t => at[u].pc \notin Within /\ at'[u] = at[u]
  BY OthersOutside DEF Started, Goto, Types
<1>5. UNCHANGED <<gen, live, closing, astray>> /\ counter' = counter + Size[m]
  BY <1>2 DEF Started
<1>6. \A x \in Object : engine'[x] = IF x = o THEN e ELSE engine[x]
  BY <1>1 DEF Started, Types
<1>7. \A n \in Model : EngineOf(n)' = IF n = m THEN e ELSE EngineOf(n)
  <2>1. ASSUME NEW n \in Model
        PROVE  Entry(n) \in Object /\ Entry(n)' = Entry(n) /\ (Entry(n) = o <=> n = m)
    BY <1>2, <1>5 DEF Entry, Object, Types
  <2>2. QED BY <1>6, <2>1 DEF EngineOf
<1>8. m \notin Loaded /\ Loaded' = Loaded \cup {m}
  BY <1>1, <1>2, <1>7 DEF Loaded, EngineOf
<1>9. OneInside'
  BY <1>4 DEF OneInside, Inside
<1>10. EnginesCurrent'
  BY <1>2, <1>5, <1>6 DEF Orderly, EnginesCurrent, Entry
<1>11. WorkTrue'
  <2>1. engine'[at'[t].entry] = at'[t].engine
    BY <1>1, <1>3, <1>6
  <2>2. at'[t].entry = <<at'[t].model, gen'[at'[t].model]>>
    BY <1>2, <1>3, <1>5 DEF Entry
  <2>3. WorkOf(t)'
    BY <1>3, <2>1, <2>2 DEF WorkOf, Entry
  <2>4. \A u \in Task : u # t => WorkOf(u)'
    BY <1>4 DEF WorkOf, Within
  <2>5. QED BY <2>3, <2>4 DEF WorkTrue
<1>12. ReloadFits'
  BY <1>3, <1>4 DEF ReloadFits, Within
<1>13. InUse'
  <2>1. \A h \in Handler \cup {Enforcer} : h \in Task
    BY DEF Task
  <2>2. \A h \in Handler : at'[h].pc = "serving" => at'[h].engine \in live'
    BY <1>3, <1>4, <1>5, <2>1 DEF Orderly, InUse
  <2>3. \A u \in Task : at'[u].pc # "stopping"
    BY <1>3, <1>4 DEF Within
  <2>4. QED BY <2>1, <2>2, <2>3 DEF InUse
<1>14. NoStrayEngine'
  <2>1. {u \in Task : at[u].pc = "starting"} = {t}
    BY <1>1, <1>4 DEF Within
  <2>2. live = {EngineOf(n) : n \in Loaded} \cup {e}
    BY <2>1 DEF Orderly, NoStrayEngine
  <2>3. \A n \in Loaded : EngineOf(n)' = EngineOf(n)
    BY <1>7, <1>8 DEF Loaded
  <2>4. \A n \in Loaded' : n \notin Loaded => n = m /\ EngineOf(n)' = e
    BY <1>1, <1>7, <1>8
  <2>5. m \in Loaded' /\ Loaded \subseteq Loaded'
    BY <1>8
  <2> HIDE DEF m, e
  <2>6. live' = {EngineOf(n)' : n \in Loaded'}
    BY <1>5, <1>8, <2>2, <2>3, <2>4, <2>5
  <2>7. {u \in Task : at'[u].pc = "starting"} = {}
    BY <1>3, <1>4 DEF Within
  <2>8. QED BY <2>6, <2>7 DEF NoStrayEngine
<1>15. GetEngineReturnsLoaded'
  <2>1. \A h \in Handler : h \in Task
    BY DEF Task
  <2>2. QED BY <1>3, <1>4, <2>1 DEF Orderly, GetEngineReturnsLoaded
<1>16. AccountingExact'
  <2>1. Settling = {} /\ Settling' = {}
    BY <1>1, <1>3, <1>4 DEF Settling, Within
  <2>2. SettlingSum(Settling, at) = 0 /\ SettlingSum(Settling', at') = 0
    BY <2>1, SettlingNone
  <2>3. counter = SizeOf(Loaded) + SettlingSum(Settling, at)
    BY DEF Orderly, AccountingExact, SettlingSum
  <2>4. m \in Loaded' /\ Loaded' \subseteq Model /\ Loaded' \ {m} = Loaded
    BY <1>1, <1>8 DEF Loaded
  <2>5. SizeOf(Loaded') = Size[m] + SizeOf(Loaded' \ {m})
    BY <2>4, SizeOfAddsUp
  <2>6. SizeOf(Loaded' \ {m}) = SizeOf(Loaded) /\ SizeOf(Loaded') = SizeOf(Loaded)'
    BY <2>4 DEF SizeOf
  <2>7. SizeOf(Loaded) \in Nat /\ Size[m] \in Nat
    BY <1>1, SizeOfAddsUp, SizeAssumption DEF Loaded
  <2>8. counter' = SizeOf(Loaded)' + SettlingSum(Settling', at')
    BY <1>5, <2>2, <2>3, <2>5, <2>6, <2>7
  <2>9. QED BY <2>8 DEF AccountingExact, SettlingSum
<1>17. WithinCeiling'
  BY <1>5 DEF Orderly, WithinCeiling, Usage
<1>18. QED BY <1>9, <1>10, <1>11, <1>12, <1>13, <1>14, <1>15, <1>16, <1>17 DEF Orderly

\* A failed load does.
LEMMA LoadFailsKeeps ==
  ASSUME Types, Locals, Roles, Orderly, NEW t \in Task, Alone(t), LoadFails(t), ~ astray
  PROVE  Orderly'
<1> DEFINE e == at[t].engine
<1>1. at[t].pc = "starting" /\ e \in Engine
  BY DEF LoadFails, Locals, LocalsOf
<1>2. (\A u \in Task \ {t} : at[u].engine # e) /\ (\A o \in Object : engine[o] # e)
  BY <1>1 DEF Orderly, WorkTrue, WorkOf
<1>3. /\ at'[t].pc = "idle"
      /\ \A u \in Task : u # t => at[u].pc \notin Within /\ at'[u] = at[u]
  BY OthersOutside DEF LoadFails, Types, Idle
<1>4. UNCHANGED <<gen, engine, counter, closing, astray>> /\ live' = live \ {e}
  BY DEF LoadFails
<1>5. /\ Loaded' = Loaded
      /\ \A n \in Model : Entry(n) \in Object /\ EngineOf(n)' = EngineOf(n)
  BY <1>4 DEF Loaded, EngineOf, Entry, Object, Types
<1>6. OneInside'
  BY <1>3 DEF OneInside, Inside, Within
<1>7. EnginesCurrent'
  BY <1>4 DEF Orderly, EnginesCurrent, Entry
<1>8. WorkTrue'
  BY <1>3 DEF WorkTrue, WorkOf, Within
<1>9. ReloadFits'
  BY <1>3 DEF ReloadFits, Within
<1>10. InUse'
  <2>1. \A h \in Handler \cup {Enforcer} : h \in Task
    BY DEF Task
  <2>2. \A h \in Handler : at'[h].pc = "serving" => at'[h].engine \in live'
    BY <1>2, <1>3, <1>4, <2>1 DEF Orderly, InUse
  <2>3. \A u \in Task : at'[u].pc # "stopping"
    BY <1>3 DEF Within
  <2>4. QED BY <2>1, <2>2, <2>3 DEF InUse
<1>11. NoStrayEngine'
  <2>1. {u \in Task : at[u].pc = "starting"} = {t} /\ {u \in Task : at'[u].pc = "starting"} = {}
    BY <1>1, <1>3 DEF Within
  <2>2. live = {EngineOf(n) : n \in Loaded} \cup {e}
    BY <2>1 DEF Orderly, NoStrayEngine
  <2>3. \A n \in Loaded : EngineOf(n) # e /\ EngineOf(n)' = EngineOf(n)
    BY <1>2, <1>5 DEF Loaded, EngineOf
  <2>4. live' = {EngineOf(n)' : n \in Loaded'}
    BY <1>4, <1>5, <2>2, <2>3
  <2>5. QED BY <2>1, <2>4 DEF NoStrayEngine
<1>12. GetEngineReturnsLoaded'
  <2>1. \A h \in Handler : h \in Task
    BY DEF Task
  <2>2. QED BY <1>3, <2>1 DEF Orderly, GetEngineReturnsLoaded
<1>13. AccountingExact'
  <2>1. Settling = {} /\ Settling' = {}
    BY <1>1, <1>3 DEF Settling, Within
  <2>2. SettlingSum(Settling, at) = 0 /\ SettlingSum(Settling', at') = 0
    BY <2>1, SettlingNone
  <2>3. counter = SizeOf(Loaded) + SettlingSum(Settling, at) /\ SizeOf(Loaded)' = SizeOf(Loaded)
    BY <1>5 DEF Orderly, AccountingExact, SettlingSum, SizeOf
  <2>4. QED BY <1>4, <2>2, <2>3 DEF AccountingExact, SettlingSum
<1>14. WithinCeiling'
  <2>1. t \in {u \in Task : at[u].pc = "starting"}
    BY <1>1
  <2>2. e \in live
    BY <2>1 DEF Orderly, NoStrayEngine
  <2>3. Usage \in Nat /\ Size[e[1]] \in Nat /\ Usage' = Usage - Size[e[1]]
    BY <1>1, <1>4, <2>2, UsageChanges
  <2>4. QED BY <2>3, SizeAssumption DEF Orderly, WithinCeiling
<1>15. QED BY <1>6, <1>7, <1>8, <1>9, <1>10, <1>11, <1>12, <1>13, <1>14 DEF Orderly

\* A step that touches no engine, and moves nobody to or from a load or a
\* settle barrier, leaves the memory and its accounting alone.
LEMMA MemoryStays ==
  ASSUME Types, Orderly, ~ astray, ~ astray', UNCHANGED <<gen, engine, live, counter>>,
         \A u \in Task : at[u].pc \in {"starting", "settling"} \/ at'[u].pc \in {"starting", "settling"}
                           => at'[u] = at[u]
  PROVE  /\ Usage' = Usage /\ Loaded' = Loaded
         /\ \A n \in Model : EngineOf(n)' = EngineOf(n)
         /\ EnginesCurrent' /\ WithinCeiling' /\ NoStrayEngine' /\ AccountingExact'
<1>1. /\ Usage' = Usage /\ Loaded' = Loaded
      /\ \A n \in Model : EngineOf(n)' = EngineOf(n)
  BY DEF Usage, Loaded, EngineOf, Entry
<1>2. EnginesCurrent'
  BY DEF Orderly, EnginesCurrent, Entry
<1>3. WithinCeiling'
  BY <1>1 DEF Orderly, WithinCeiling
<1>4. NoStrayEngine'
  <2>1. \A u \in Task : (at'[u].pc = "starting") <=> (at[u].pc = "starting")
    BY DEF Types
  <2>2. {at'[t].engine : t \in {u \in Task : at'[u].pc = "starting"}}
          = {at[t].engine : t \in {u \in Task : at[u].pc = "starting"}}
    BY <2>1
  <2>3. \A n \in Loaded : EngineOf(n)' = EngineOf(n)
    BY <1>1 DEF Loaded
  <2>4. {EngineOf(n)' : n \in Loaded'} = {EngineOf(n) : n \in Loaded}
    BY <1>1, <2>3
  <2>5. live = {EngineOf(n) : n \in Loaded}
                 \cup {at[t].engine : t \in {u \in Task : at[u].pc = "starting"}}
    BY DEF Orderly, NoStrayEngine
  <2>6. QED BY <2>2, <2>4, <2>5 DEF NoStrayEngine
<1>5. AccountingExact'
  <2>1. Settling' = Settling
    BY DEF Settling
  <2>2. \A t \in Settling : at'[t] = at[t]
    BY DEF Settling
  <2>3. SettlingSum(Settling, at') = SettlingSum(Settling, at)
    BY <2>2 DEF SettlingSum
  <2>4. counter = SizeOf(Loaded) + SettlingSum(Settling, at)
    BY DEF Orderly, AccountingExact, SettlingSum
  <2>5. SizeOf(Loaded)' = SizeOf(Loaded)
    BY <1>1 DEF SizeOf
  <2>6. counter' = SizeOf(Loaded)' + SettlingSum(Settling', at')
    BY <2>1, <2>3, <2>4, <2>5
  <2>7. QED BY <2>6 DEF AccountingExact, SettlingSum
<1>6. QED BY <1>1, <1>2, <1>3, <1>4, <1>5

\* The end of a load keeps the discipline: get_engine returns the engine that
\* was loaded.
LEMMA FinishLoadKeeps ==
  ASSUME Types, Locals, Roles, Orderly, NEW t \in Task, Alone(t), FinishLoad(t), ~ astray
  PROVE  Orderly'
<1>1. at[t].pc = "finishing" /\ at[t].engine \in Engine /\ at[t].engine # NoEngine
  BY SizeAssumption DEF FinishLoad, Locals, LocalsOf
<1>2. EngineOf(at[t].model) = at[t].engine
  BY <1>1 DEF Orderly, WorkTrue, WorkOf, EngineOf
<1>3. /\ at'[t].pc \in {"idle", "have"}
      /\ at'[t].pc = "have" => at'[t].engine # NoEngine
  BY <1>1, <1>2 DEF FinishLoad, Types, Idle
<1>4. \A u \in Task : u # t => at[u].pc \notin Within /\ at'[u] = at[u]
  BY OthersOutside DEF FinishLoad, Types
<1>5. UNCHANGED <<gen, engine, counter, live, closing, astray>>
  BY DEF FinishLoad
<1>6. \A u \in Task : at[u].pc \in {"starting", "settling"} \/ at'[u].pc \in {"starting", "settling"}
                           => at'[u] = at[u]
  BY <1>1, <1>3, <1>4
<1>7. EnginesCurrent' /\ WithinCeiling' /\ NoStrayEngine' /\ AccountingExact'
  BY <1>5, <1>6, MemoryStays
<1>8. OneInside'
  BY <1>3, <1>4 DEF OneInside, Inside, Within
<1>9. WorkTrue'
  BY <1>3, <1>4 DEF WorkTrue, WorkOf, Within
<1>10. ReloadFits'
  BY <1>3, <1>4 DEF ReloadFits, Within
<1>11. InUse' /\ GetEngineReturnsLoaded'
  <2>1. \A h \in Handler \cup {Enforcer} : h \in Task
    BY DEF Task
  <2>2. \A h \in Handler : at'[h].pc = "serving" => at'[h].engine \in live'
    BY <1>3, <1>4, <1>5, <2>1 DEF Orderly, InUse
  <2>3. \A u \in Task : at'[u].pc # "stopping"
    BY <1>3, <1>4 DEF Within
  <2>4. InUse'
    BY <2>1, <2>2, <2>3 DEF InUse
  <2>5. \A h \in Handler : at'[h].pc = "have" => at'[h].engine # NoEngine
    BY <1>3, <1>4, <2>1 DEF Orderly, GetEngineReturnsLoaded
  <2>6. GetEngineReturnsLoaded'
    BY <2>5 DEF GetEngineReturnsLoaded
  <2>7. QED BY <2>4, <2>6
<1>12. QED BY <1>7, <1>8, <1>9, <1>10, <1>11 DEF Orderly

\* A task that is not inside and does not come inside leaves those who are
\* where they were.
LEMMA OutsideKeeps ==
  ASSUME Types, Locals, Roles, Orderly, NEW t \in Task, ~ astray, ~ astray',
         at[t].pc \notin {"starting", "settling"}, at'[t].pc \in Outside,
         \A u \in Task : u # t => at'[u] = at[u],
         \A u \in Task : u # t /\ at[u].pc = "starting" => at'[t].engine # at[u].engine,
         at'[t].pc = "serving" =>
           at'[t].engine \in live
           /\ \A u \in Task : at[u].pc = "stopping" => at'[t].engine # at[u].engine,
         at'[t].pc = "have" => at'[t].engine # NoEngine,
         UNCHANGED <<gen, engine, counter, live, closing>>
  PROVE  Orderly'
<1>1. \A u \in Task : at[u].pc \in {"starting", "settling"} \/ at'[u].pc \in {"starting", "settling"}
                           => at'[u] = at[u]
  BY DEF Outside
<1>2. /\ Usage' = Usage /\ \A n \in Model : EngineOf(n)' = EngineOf(n)
      /\ EnginesCurrent' /\ WithinCeiling' /\ NoStrayEngine' /\ AccountingExact'
  BY <1>1, MemoryStays
<1>3. OneInside'
  BY DEF Orderly, OneInside, Inside, Within, Outside
<1>4. WorkTrue'
  <2>1. WorkOf(t)'
    BY DEF WorkOf, Outside
  <2>2. ASSUME NEW u \in Task, u # t PROVE WorkOf(u)'
    <3>1. at'[u] = at[u] /\ WorkOf(u)
      BY <2>2 DEF Orderly, WorkTrue
    <3>2. at[u].pc = "starting" => \A v \in Task \ {u} : at'[v].engine # at[u].engine
      BY <2>2, <3>1 DEF WorkOf
    <3>3. QED BY <3>1, <3>2 DEF WorkOf, EngineOf, Entry
  <2>3. QED BY <2>1, <2>2 DEF WorkTrue
<1>5. ReloadFits'
  BY <1>2 DEF Orderly, ReloadFits, Outside
<1>6. InUse'
  <2>1. \A h \in Handler \cup {Enforcer} : h \in Task
    BY DEF Task
  <2>2. \A h \in Handler : at'[h].pc = "serving" => at'[h].engine \in live'
    BY <2>1 DEF Orderly, InUse
  <2>3. ASSUME NEW u \in Handler \cup {Enforcer}, at'[u].pc = "stopping",
               NEW h \in Handler, at'[h].pc = "serving", at'[h].engine = at'[u].engine
        PROVE  FALSE
    <3>1. u # t /\ at'[u] = at[u] /\ ~ Serves(at[u].engine)
      BY <2>1, <2>3 DEF Orderly, InUse, Outside
    <3>2. CASE h = t
      BY <2>1, <2>3, <3>1, <3>2
    <3>3. CASE h # t
      BY <2>1, <2>3, <3>1, <3>3 DEF Serves
    <3>4. QED BY <3>2, <3>3
  <2>4. QED BY <2>2, <2>3 DEF InUse, Serves
<1>7. GetEngineReturnsLoaded'
  <2>1. \A h \in Handler : h \in Task
    BY DEF Task
  <2>2. QED BY <2>1 DEF Orderly, GetEngineReturnsLoaded
<1>8. QED BY <1>2, <1>3, <1>4, <1>5, <1>6, <1>7 DEF Orderly

\* A hit, and the use of what get_engine returned.
LEMMA HandlerKeeps ==
  ASSUME Types, Locals, Roles, Orderly, NEW h \in Handler, Hit(h) \/ Use(h), ~ astray
  PROVE  Orderly'
<1> h \in Task
  BY DEF Task
<1>1. at[h].pc \in {"idle", "have"} /\ UNCHANGED <<gen, engine, counter, live, closing, astray>>
  BY DEF Hit, Use
<1>2. \A u \in Task : u # h => at'[u] = at[u]
  BY HitPlace, UsePlace
<1>3. CASE Hit(h)
  <2>1. PICK m \in Loaded : at' = [at EXCEPT ![h] = [Idle EXCEPT !.pc = "have", !.model = m,
                                                                !.engine = EngineOf(m)]]
    BY <1>3 DEF Hit
  <2>2. at'[h].pc = "have" /\ at'[h].engine = EngineOf(m)
    BY <2>1 DEF Types, Idle
  <2>3. m \in Model /\ Entry(m) \in Object /\ EngineOf(m) # NoEngine
    BY DEF Loaded, Entry, Object, Types
  <2>4. ASSUME NEW u \in Task, at[u].pc = "starting" PROVE EngineOf(m) # at[u].engine
    BY <2>3, <2>4 DEF Orderly, WorkTrue, WorkOf, EngineOf
  <2>5. QED BY <1>1, <1>2, <2>2, <2>3, <2>4, OutsideKeeps DEF Outside
<1>4. CASE Use(h)
  <2>1. at[h].pc = "have"
    BY <1>4 DEF Use
  <2>2. /\ at'[h].pc \in {"serving", "late", "idle"}
        /\ at'[h].engine \in {at[h].engine, NoEngine}
        /\ at'[h].pc = "serving" => /\ at'[h].engine = at[h].engine /\ at[h].engine \in live
                                    /\ ~ Stopping(at[h].engine)
    BY <1>4, UsePlace DEF Idle
  <2>3. ASSUME NEW u \in Task, at[u].pc = "starting", u # h PROVE at'[h].engine # at[u].engine
    <3>1. at[u].engine \in Engine /\ at[u].engine # NoEngine
      BY <2>3, SizeAssumption DEF Locals, LocalsOf
    <3>2. at[h].engine # at[u].engine
      BY <2>3 DEF Orderly, WorkTrue, WorkOf
    <3>3. QED BY <2>2, <3>1, <3>2
  <2>4. ASSUME NEW u \in Task, at[u].pc = "stopping", at'[h].pc = "serving"
        PROVE  at'[h].engine # at[u].engine
    BY <2>2, <2>4 DEF Stopping
  <2>5. QED BY <1>1, <1>2, <2>1, <2>2, <2>3, <2>4, OutsideKeeps DEF Outside
<1>5. QED BY <1>3, <1>4

\* A task that gives up, is done, or takes the lock to look for victims.
LEMMA MovesKeep ==
  ASSUME Types, Locals, Roles, Orderly, Moves, ~ astray, ~ astray'
  PROVE  Orderly'
<1>1. PICK t \in Task :
        /\ at[t].pc \notin {"starting", "settling"}
        /\ at'[t] = Idle \/ (Alone(t) /\ at'[t].pc \in {"pressed", "expire"})
        /\ \A u \in Task : u # t => at'[u] = at[u]
        /\ UNCHANGED <<gen, engine, counter, live, closing>>
  BY DEF Moves
<1>2. CASE at'[t] = Idle
  <2>1. at'[t].pc = "idle" /\ at'[t].engine = NoEngine
    BY <1>2 DEF Idle
  <2>2. \A u \in Task : u # t /\ at[u].pc = "starting" => at'[t].engine # at[u].engine
    BY <2>1, SizeAssumption DEF Locals, LocalsOf
  <2>3. QED BY <1>1, <2>1, <2>2, OutsideKeeps DEF Outside
<1>3. CASE Alone(t) /\ at'[t].pc \in {"pressed", "expire"}
  <2>1. \A u \in Task : u # t => at[u].pc \notin Within /\ at'[u] = at[u]
    BY <1>1, <1>3, OthersOutside
  <2>2. \A u \in Task : at[u].pc \in {"starting", "settling"} \/ at'[u].pc \in {"starting", "settling"}
                           => at'[u] = at[u]
    BY <1>1, <1>3, <2>1
  <2>3. /\ Usage' = Usage /\ \A n \in Model : EngineOf(n)' = EngineOf(n)
        /\ EnginesCurrent' /\ WithinCeiling' /\ NoStrayEngine' /\ AccountingExact'
    BY <1>1, <2>2, MemoryStays
  <2>4. OneInside'
    BY <2>1 DEF OneInside, Inside
  <2>5. WorkTrue'
    <3>1. \A u \in Task \ {t} : WorkOf(u)'
      BY <2>1 DEF WorkOf, Within
    <3>2. t \in Handler => at'[t].pc \notin {"stopping", "settling", "admit"}
      BY <1>3
    <3>3. WorkOf(t)'
      BY <1>3, <3>2 DEF WorkOf
    <3>4. QED BY <3>1, <3>3 DEF WorkTrue
  <2>6. ReloadFits'
    BY <1>3, <2>1 DEF ReloadFits, Within
  <2>7. InUse'
    <3>1. \A h \in Handler \cup {Enforcer} : h \in Task
      BY DEF Task
    <3>2. \A h \in Handler : at'[h].pc = "serving" => at'[h].engine \in live'
      BY <1>1, <1>3, <2>1, <3>1 DEF Orderly, InUse
    <3>3. \A u \in Task : at'[u].pc # "stopping"
      BY <1>3, <2>1 DEF Within
    <3>4. QED BY <3>1, <3>2, <3>3 DEF InUse
  <2>8. GetEngineReturnsLoaded'
    <3>1. \A h \in Handler : h \in Task
      BY DEF Task
    <3>2. QED BY <1>3, <2>1, <3>1 DEF Orderly, GetEngineReturnsLoaded
  <2>9. QED BY <2>3, <2>4, <2>5, <2>6, <2>7, <2>8 DEF Orderly
<1>4. QED BY <1>1, <1>2, <1>3

\* A step that moves nobody and touches no engine.
LEMMA StillKeeps ==
  ASSUME Types, Locals, Roles, Orderly, Still, ~ astray, ~ astray'
  PROVE  Orderly'
<1>1. at' = at /\ UNCHANGED <<gen, engine, counter, live>>
  BY DEF Still
<1>2. EnginesCurrent' /\ WithinCeiling' /\ NoStrayEngine' /\ AccountingExact'
  BY <1>1, MemoryStays
<1>3. OneInside' /\ InUse' /\ GetEngineReturnsLoaded'
  BY <1>1 DEF Orderly, OneInside, Inside, InUse, Serves, GetEngineReturnsLoaded
<1>4. WorkTrue' /\ ReloadFits'
  BY <1>1 DEF Orderly, WorkTrue, WorkOf, EngineOf, Entry, ReloadFits, Usage
<1>5. QED BY <1>2, <1>3, <1>4 DEF Orderly

\* An eviction or an unload begins: the engine it stops is the entry's, and no
\* eviction picks one in use.
LEMMA UnloadKeeps ==
  ASSUME Types, Locals, Roles, Orderly, UnloadBegins, ~ astray, ~ astray'
  PROVE  Orderly'
<1>1. PICK t \in Task, m \in Model, w \in Model \cup {NoModel},
           s \in {"idle", "admit", "pressed", "expire", "reload"} :
        /\ Alone(t) /\ at[t].pc \notin {"starting", "settling"}
        /\ BeginUnload(t, m, w, s)
        /\ t \in Handler => s = "admit" /\ w \in Model /\ EngineOf(w) = NoEngine
        /\ t \notin Admin => ~ Busy(EngineOf(m))
        /\ s = "reload" => w = m
  BY DEF UnloadBegins
<1>2. UNCHANGED <<gen, engine, counter, live>>
  BY <1>1 DEF BeginUnload
<1>3. /\ at'[t].pc = "stopping" /\ at'[t].model = w /\ at'[t].entry = Entry(m)
      /\ at'[t].engine = EngineOf(m) /\ at'[t].next = s
  BY <1>1 DEF BeginUnload, Types
<1>4. \A u \in Task : u # t => at[u].pc \notin Within /\ at'[u] = at[u]
  BY <1>1, OthersOutside DEF BeginUnload, Types
<1>5. \A u \in Task : at[u].pc \in {"starting", "settling"} \/ at'[u].pc \in {"starting", "settling"}
                           => at'[u] = at[u]
  BY <1>1, <1>3, <1>4
<1>6. /\ Usage' = Usage /\ \A n \in Model : EngineOf(n)' = EngineOf(n)
      /\ EnginesCurrent' /\ WithinCeiling' /\ NoStrayEngine' /\ AccountingExact'
  BY <1>2, <1>5, MemoryStays
<1>7. OneInside'
  BY <1>4 DEF OneInside, Inside
<1>8. WorkTrue'
  <2>1. engine'[at'[t].entry] = at'[t].engine
    BY <1>2, <1>3 DEF EngineOf
  <2>2. at'[t].next = "reload" => at'[t].model = at'[t].entry[1]
    BY <1>1, <1>3 DEF Entry
  <2>3. t \in Handler => engine'[<<at'[t].model, gen'[at'[t].model]>>] = NoEngine
    BY <1>1, <1>2, <1>3 DEF EngineOf, Entry
  <2>4. WorkOf(t)'
    BY <1>3, <2>1, <2>2, <2>3 DEF WorkOf, EngineOf, Entry
  <2>5. \A u \in Task \ {t} : WorkOf(u)'
    BY <1>4 DEF WorkOf, Within
  <2>6. QED BY <2>4, <2>5 DEF WorkTrue
<1>9. ReloadFits'
  BY <1>3, <1>4 DEF ReloadFits, Within
<1>10. InUse'
  <2>1. \A h \in Handler \cup {Enforcer} : h \in Task /\ h \notin Admin
    BY SizeAssumption DEF Task
  <2>2. \A h \in Handler : at'[h].pc = "serving" => at'[h].engine \in live'
    BY <1>2, <1>3, <1>4, <2>1 DEF Orderly, InUse
  <2>3. ASSUME NEW u \in Handler \cup {Enforcer}, at'[u].pc = "stopping",
               NEW h \in Handler, at'[h].pc = "serving", at'[h].engine = at'[u].engine
        PROVE  FALSE
    <3>1. u = t
      BY <1>4, <2>1, <2>3 DEF Within
    <3>2. h # t /\ at'[h] = at[h]
      BY <1>3, <1>4, <2>1, <2>3
    <3>3. QED BY <1>1, <1>3, <2>1, <2>3, <3>1, <3>2 DEF Busy, Holds
  <2>4. QED BY <2>2, <2>3 DEF InUse, Serves
<1>11. GetEngineReturnsLoaded'
  <2>1. \A h \in Handler : h \in Task
    BY DEF Task
  <2>2. QED BY <1>3, <1>4, <2>1 DEF Orderly, GetEngineReturnsLoaded
<1>12. QED BY <1>6, <1>7, <1>8, <1>9, <1>10, <1>11 DEF Orderly

\* A load begins: with an engine nothing refers to, within the ceiling.
LEMMA LoadKeeps ==
  ASSUME Types, Locals, Roles, Orderly, LoadBegins, ~ astray, ~ astray'
  PROVE  Orderly'
<1>1. PICK t \in Task, m \in Model :
        /\ Alone(t) /\ at[t].pc \notin {"starting", "settling"}
        /\ BeginLoad(t, m)
        /\ EngineOf(m) = NoEngine
        /\ Usage + Size[m] <= Ceiling
  BY DEF LoadBegins
<1> DEFINE e == CHOOSE e \in Unused(m) : TRUE
<1>2. e \in Unused(m)
  BY <1>1 DEF BeginLoad, NoLoad
<1>3. /\ e \in Engine /\ e[1] = m /\ e \notin live
      /\ \A u \in Task : at[u].engine # e
      /\ \A o \in Object : engine[o] # e
  BY <1>2 DEF Unused
<1>4. /\ UNCHANGED <<gen, engine, counter, closing>> /\ live' = live \cup {e}
      /\ at' = [at EXCEPT ![t] = [pc |-> "starting", model |-> m, entry |-> Entry(m),
                                  engine |-> e, next |-> "idle"]]
  BY <1>1 DEF BeginLoad
<1> HIDE DEF e
<1>5. /\ at'[t].pc = "starting" /\ at'[t].model = m /\ at'[t].entry = Entry(m)
      /\ at'[t].engine = e /\ at'[t].next = "idle"
  BY <1>4 DEF Types
<1>6. \A u \in Task : u # t => at[u].pc \notin Within /\ at'[u] = at[u]
  BY <1>1, <1>4, OthersOutside DEF Types
<1>7. Loaded' = Loaded /\ \A n \in Model : EngineOf(n)' = EngineOf(n)
  BY <1>4 DEF Loaded, EngineOf, Entry
<1>8. Usage \in Nat /\ Size[m] \in Nat /\ Usage' = Usage + Size[m]
  BY <1>3, <1>4, UsageChanges
<1>9. OneInside'
  BY <1>6 DEF OneInside, Inside
<1>10. EnginesCurrent'
  BY <1>4 DEF Orderly, EnginesCurrent, Entry
<1>11. WorkTrue'
  <2>1. at'[t].entry = <<at'[t].model, gen'[at'[t].model]>> /\ engine'[at'[t].entry] = NoEngine
    BY <1>1, <1>4, <1>5 DEF EngineOf, Entry
  <2>2. \A u \in Task \ {t} : at'[u].engine # at'[t].engine
    BY <1>3, <1>5, <1>6
  <2>3. \A o \in Object : engine'[o] # at'[t].engine
    BY <1>3, <1>4, <1>5
  <2>4. at'[t].engine[1] = at'[t].model
    BY <1>3, <1>5
  <2>5. WorkOf(t)'
    BY <1>5, <2>1, <2>2, <2>3, <2>4 DEF WorkOf, Entry
  <2>6. \A u \in Task \ {t} : WorkOf(u)'
    BY <1>6 DEF WorkOf, Within
  <2>7. QED BY <2>5, <2>6 DEF WorkTrue
<1>12. ReloadFits'
  BY <1>5, <1>6 DEF ReloadFits, Within
<1>13. InUse'
  <2>1. \A h \in Handler \cup {Enforcer} : h \in Task
    BY DEF Task
  <2>2. \A h \in Handler : at'[h].pc = "serving" => at'[h].engine \in live'
    BY <1>4, <1>5, <1>6, <2>1 DEF Orderly, InUse
  <2>3. \A u \in Task : at'[u].pc # "stopping"
    BY <1>5, <1>6 DEF Within
  <2>4. QED BY <2>1, <2>2, <2>3 DEF InUse
<1>14. NoStrayEngine'
  <2>1. {u \in Task : at[u].pc = "starting"} = {} /\ {u \in Task : at'[u].pc = "starting"} = {t}
    BY <1>1, <1>5, <1>6 DEF Within
  <2>2. live = {EngineOf(n) : n \in Loaded}
    BY <2>1 DEF Orderly, NoStrayEngine
  <2>3. \A n \in Loaded : EngineOf(n)' = EngineOf(n)
    BY <1>7 DEF Loaded
  <2>4. live' = {EngineOf(n)' : n \in Loaded'} \cup {e}
    BY <1>4, <1>7, <2>2, <2>3
  <2>5. QED BY <1>5, <2>1, <2>4 DEF NoStrayEngine
<1>15. GetEngineReturnsLoaded'
  <2>1. \A h \in Handler : h \in Task
    BY DEF Task
  <2>2. QED BY <1>5, <1>6, <2>1 DEF Orderly, GetEngineReturnsLoaded
<1>16. AccountingExact'
  <2>1. Settling = {} /\ Settling' = {}
    BY <1>1, <1>5, <1>6 DEF Settling, Within
  <2>2. SettlingSum(Settling, at) = 0 /\ SettlingSum(Settling', at') = 0
    BY <2>1, SettlingNone
  <2>3. counter = SizeOf(Loaded) + SettlingSum(Settling, at) /\ SizeOf(Loaded)' = SizeOf(Loaded)
    BY <1>7 DEF Orderly, AccountingExact, SettlingSum, SizeOf
  <2>4. QED BY <1>4, <2>2, <2>3 DEF AccountingExact, SettlingSum
<1>17. WithinCeiling'
  BY <1>1, <1>8 DEF WithinCeiling
<1>18. QED BY <1>9, <1>10, <1>11, <1>12, <1>13, <1>14, <1>15, <1>16, <1>17 DEF Orderly

\* A rescan with nobody inside: only entries without an engine are replaced.
LEMMA RescanKeeps ==
  ASSUME Types, Locals, Roles, Orderly, Rescan, \A t \in Task : ~ Inside(t), ~ astray, ~ astray'
  PROVE  Orderly'
<1>1. /\ UNCHANGED <<engine, live, counter, closing, at>> /\ scans + 1 \in 1 .. MaxScans
      /\ gen' = [m \in Model |-> IF m \in Loaded THEN gen[m] ELSE scans + 1]
  BY SizeAssumption DEF Rescan, Types
<1>2. \A t \in Task : at[t].pc \notin Within
  BY DEF Inside
<1>3. \A n \in Loaded : Entry(n)' = Entry(n) /\ EngineOf(n)' = EngineOf(n)
  BY <1>1 DEF Loaded, Entry, EngineOf
<1>4. \A n \in Model \ Loaded : EngineOf(n)' = NoEngine
  <2>1. ASSUME NEW n \in Model \ Loaded PROVE engine[<<n, scans + 1>>] = NoEngine
    <3>1. <<n, scans + 1>> \in Object /\ <<n, scans + 1>> # Entry(n)
      BY <1>1 DEF Object, Entry, Types
    <3>2. QED BY <3>1 DEF Orderly, EnginesCurrent
  <2>2. QED BY <1>1, <2>1 DEF EngineOf, Entry
<1>5. Loaded' = Loaded /\ Usage' = Usage
  BY <1>1, <1>3, <1>4 DEF Loaded, Usage
<1>6. EnginesCurrent'
  <2>1. ASSUME NEW o \in Object, engine[o] # NoEngine
        PROVE  engine[o][1] = o[1] /\ o = <<o[1], gen'[o[1]]>>
    <3>1. engine[o][1] = o[1] /\ o = Entry(o[1]) /\ o[1] \in Model
      BY <2>1 DEF Orderly, EnginesCurrent, Object
    <3>2. o[1] \in Loaded
      BY <2>1, <3>1 DEF Loaded, EngineOf
    <3>3. QED BY <1>1, <3>1, <3>2 DEF Entry, Loaded
  <2>2. QED BY <1>1, <2>1 DEF EnginesCurrent, Entry
<1>7. OneInside' /\ InUse' /\ GetEngineReturnsLoaded' /\ WithinCeiling'
  BY <1>1, <1>5 DEF Orderly, OneInside, Inside, InUse, Serves, GetEngineReturnsLoaded, WithinCeiling
<1>8. WorkTrue' /\ ReloadFits'
  BY <1>1, <1>2 DEF WorkTrue, WorkOf, ReloadFits, Within
<1>9. NoStrayEngine'
  <2>1. {EngineOf(n)' : n \in Loaded'} = {EngineOf(n) : n \in Loaded}
    BY <1>3, <1>5
  <2>2. QED BY <1>1, <2>1 DEF Orderly, NoStrayEngine
<1>10. AccountingExact'
  <2>1. counter = SizeOf(Loaded) + SettlingSum(Settling, at)
    BY DEF Orderly, AccountingExact, SettlingSum
  <2>2. SizeOf(Loaded)' = SizeOf(Loaded) /\ SettlingSum(Settling', at') = SettlingSum(Settling, at)
    BY <1>1, <1>5 DEF SizeOf, Settling
  <2>3. counter' = SizeOf(Loaded)' + SettlingSum(Settling', at')
    BY <1>1, <2>1, <2>2
  <2>4. QED BY <2>3 DEF AccountingExact, SettlingSum
<1>11. QED BY <1>6, <1>7, <1>8, <1>9, <1>10 DEF Orderly

------------------------------------------------------------------------------
\* The invariant holds at the start: nothing is loaded and nobody is inside.
LEMMA InitInv == Init => IInv
<1> SUFFICES ASSUME Init PROVE IInv
  OBVIOUS
<1> USE SizeAssumption
<1>1. /\ Idle \in Place /\ Idle.pc = "idle" /\ "idle" \notin Within
  BY DEF Idle, Place, Within, Outside
<1>2. \A t \in Task : at[t] = Idle
  BY DEF Init
<1>3. Types
  <2>1. \A m \in Model : gen[m] = 0
    BY DEF Init
  <2>2. scans = 0 /\ 0 \in 0 .. MaxScans
    BY DEF Init
  <2>3. gen \in [Model -> 0 .. MaxScans]
    BY <2>2 DEF Init
  <2>4. at \in [Task -> Place] /\ engine \in [Object -> Engine \cup {NoEngine}]
    BY <1>1 DEF Init
  <2>5. \A m \in Model : gen[m] <= scans
    BY <2>1, <2>2
  <2>6. astray \in BOOLEAN
    BY Zenon DEF Init
  <2>7. /\ loading \subseteq Object /\ aborting \subseteq Object /\ pinned \subseteq Model
        /\ older \subseteq Model \X Model /\ closing \subseteq Engine /\ live \subseteq Engine
        /\ counter \in Int
    BY DEF Init
  <2>8. QED BY <2>2, <2>3, <2>4, <2>5, <2>6, <2>7 DEF Types
<1>4. Locals /\ Roles /\ LockExact
  BY <1>1, <1>2 DEF Locals, LocalsOf, Roles, RoleOf, LockExact, Inside, Task, Init
<1>5. \A m \in Model : Entry(m) \in Object /\ EngineOf(m) = NoEngine
  BY DEF Init, Entry, EngineOf, Object
<1>6. Loaded = {} /\ Settling = {} /\ live = {}
  BY <1>1, <1>2, <1>5 DEF Loaded, Settling, Init
<1>7. SizeOf(Loaded) = 0 /\ SettlingSum(Settling, at) = 0
  BY <1>6, SettlingNone, SumAddsUp, FS_EmptySet DEF SizeOf
<1>8. Usage = 0
  <2> DEFINE f == [e \in live |-> Size[e[1]]]
  <2>1. Usage = SumFunctionOnSet(f, {})
    BY <1>6 DEF Usage, SumFunction
  <2> HIDE DEF f
  <2>2. QED BY <2>1, SumAddsUp, FS_EmptySet
<1>9. OneInside /\ WorkTrue /\ ReloadFits
  BY <1>1, <1>2 DEF OneInside, Inside, WorkTrue, WorkOf, ReloadFits
<1>10. EnginesCurrent /\ InUse /\ GetEngineReturnsLoaded
  BY <1>1, <1>2 DEF EnginesCurrent, InUse, GetEngineReturnsLoaded, Task, Init
<1>11. NoStrayEngine
  BY <1>1, <1>2, <1>6 DEF NoStrayEngine
<1>12. AccountingExact
  BY <1>7 DEF AccountingExact, SettlingSum, Init
<1>13. WithinCeiling
  BY <1>8 DEF WithinCeiling
<1>14. QED BY <1>3, <1>4, <1>9, <1>10, <1>11, <1>12, <1>13 DEF IInv, Orderly

\* While nothing went astray, every step keeps the discipline.
LEMMA OrderlyStep ==
  ASSUME Types, Locals, Roles, LockExact, Orderly, [Next]_vars, ~ astray, ~ astray'
  PROVE  Orderly'
<1>1. Kinds
  BY StepKinds
<1>2. ASSUME NEW t \in Task, TaskStep(t), Alone(t) PROVE Orderly'
  BY <1>2, StoppedKeeps, SettledKeeps, StartedKeeps, LoadFailsKeeps, FinishLoadKeeps,
        StillKeeps
  DEF TaskStep, Closes, Still
<1>3. ASSUME NEW h \in Handler, Hit(h) \/ Use(h) PROVE Orderly'
  BY <1>3, HandlerKeeps
<1>4. CASE UnloadBegins \/ LoadBegins
  BY <1>4, UnloadKeeps, LoadKeeps
<1>5. CASE Moves \/ Still
  BY <1>5, MovesKeep, StillKeeps
<1>6. CASE Rescan /\ \A t \in Task : ~ Inside(t)
  BY <1>6, RescanKeeps
<1>7. QED BY <1>1, <1>2, <1>3, <1>4, <1>5, <1>6 DEF Kinds

\* Every step keeps the invariant, with or without the discipline.
LEMMA NextInv == IInv /\ [Next]_vars => IInv'
<1> SUFFICES ASSUME IInv, [Next]_vars PROVE IInv'
  OBVIOUS
<1>1. Types' /\ Locals' /\ Roles' /\ LockExact'
  BY TypesStep, LocalsStep, RolesStep, LockExactStep DEF IInv
<1>2. astray' \/ Orderly'
  BY AstrayStays, OrderlyStep DEF IInv
<1>3. QED BY <1>1, <1>2 DEF IInv

\* The invariant holds in every reachable state.
THEOREM SpecInv == Spec => []IInv
<1>1. QED BY InitInv, NextInv, PTL DEF Spec

\* Types, whatever routes do; and no task leaves the pool with the lock, so
\* every await for it has somebody who will release it.
THEOREM TypesCorrect == Spec => []TypeOK
<1>1. IInv => TypeOK
  <2> SUFFICES ASSUME IInv PROVE TypeOK
    OBVIOUS
  <2>1. ASSUME lock # NoTask PROVE at[lock].pc \notin Outside
    <3>1. lock \in Handler \cup {Enforcer} /\ Inside(lock)
      BY <2>1 DEF IInv, LockExact
    <3>2. QED BY <3>1 DEF Inside, Within, Outside
  <2>2. lock \in Task \cup {NoTask}
    BY DEF IInv, LockExact, Task
  <2>3. \A t \in Task : at[t].engine \in Engine \cup {NoEngine} /\ at[t].entry \in Object \cup {<<>>}
    BY DEF IInv, Types, Place
  <2>4. QED BY <2>1, <2>2, <2>3 DEF IInv, Types, TypeOK, Outside
<1>2. QED BY <1>1, SpecInv, PTL

\* While operations of the pool do not overlap, current_model_memory is exact
\* at every step of every load, eviction and settle barrier.
THEOREM AccountingCorrect == Spec => []AccountingExact
<1>1. IInv => AccountingExact
  BY DEF IInv, Orderly, AccountingExact
<1>2. QED BY <1>1, SpecInv, PTL

\* ... no weights are in memory that neither an entry nor a load owns ...
THEOREM EnginesOwned == Spec => []NoStrayEngine
<1>1. IInv => NoStrayEngine
  BY DEF IInv, Orderly, NoStrayEngine
<1>2. QED BY <1>1, SpecInv, PTL

\* ... the weights in memory never pass the ceiling, whatever the sizes, the
\* headroom and the number of models, handlers and routes ...
THEOREM CeilingKept == Spec => []WithinCeiling
<1>1. IInv => WithinCeiling
  BY DEF IInv, Orderly, WithinCeiling
<1>2. QED BY <1>1, SpecInv, PTL

\* ... and get_engine never returns None: the entry it reads at the end still
\* has the engine that was loaded.
THEOREM GetEngineCorrect == Spec => []GetEngineReturnsLoaded
<1>1. IInv => GetEngineReturnsLoaded
  BY DEF IInv, Orderly, GetEngineReturnsLoaded
<1>2. QED BY <1>1, SpecInv, PTL

\* Engines leave memory when a stop is over, or a load fails; neither reaches
\* an engine in use unless a route asked for it.
CutByRoute ==
  \A h \in Handler :
    (at[h].pc = "serving" /\ at[h].engine \in live \ live') =>
      \E a \in Admin : at[a].pc = "stopping" /\ at[a].engine = at[h].engine

\* The engine that leaves memory in a step is in use only if a route stops it.
LEMMA ServedStep == IInv /\ [Next]_vars => astray' \/ CutByRoute
<1> SUFFICES ASSUME IInv, [Next]_vars, ~ astray' PROVE CutByRoute
  OBVIOUS
<1>1. Types /\ Locals /\ Roles /\ LockExact /\ Orderly
  BY AstrayStays DEF IInv
<1>2. Kinds
  BY <1>1, StepKinds
<1> SUFFICES ASSUME NEW h \in Handler, at[h].pc = "serving", at[h].engine \in live \ live'
             PROVE  \E a \in Admin : at[a].pc = "stopping" /\ at[a].engine = at[h].engine
  BY DEF CutByRoute
<1>3. PICK t \in Task : Stopped(t) \/ LoadFails(t)
  <2>1. ASSUME NEW t \in Task, TaskStep(t) PROVE Stopped(t) \/ LoadFails(t)
    BY <2>1 DEF TaskStep, Closes, Settled, Started, FinishLoad
  <2>2. ~ \E g \in Handler : Hit(g) \/ Use(g)
    BY DEF Hit, Use
  <2>3. ~ (UnloadBegins \/ LoadBegins \/ Moves \/ Still \/ Rescan)
    BY DEF UnloadBegins, BeginUnload, LoadBegins, BeginLoad, Moves, Still, Rescan
  <2>4. QED BY <1>2, <2>1, <2>2, <2>3 DEF Kinds
<1>4. at[h].engine = at[t].engine
  BY <1>3 DEF Stopped, LoadFails
<1>5. ~ LoadFails(t)
  <2>1. ASSUME LoadFails(t) PROVE FALSE
    <3>1. at[t].pc = "starting" /\ h # t /\ h \in Task
      BY <2>1 DEF LoadFails, Task
    <3>2. at[h].engine # at[t].engine
      BY <1>1, <3>1 DEF Orderly, WorkTrue, WorkOf
    <3>3. QED BY <1>4, <3>2
  <2>2. QED BY <2>1
<1>6. at[t].pc = "stopping" /\ Serves(at[t].engine)
  BY <1>3, <1>4, <1>5 DEF Stopped, Serves
<1>7. t \in Admin
  BY <1>1, <1>6 DEF Orderly, InUse, Task
<1>8. QED BY <1>4, <1>6, <1>7

\* Only a route cuts a request that is being served.
THEOREM ServedCorrect == Spec => ServedUntilDone
<1>1. IInv /\ [Next]_vars => [astray' \/ CutByRoute]_vars
  BY ServedStep
<1>2. QED BY <1>1, SpecInv, PTL DEF Spec, ServedUntilDone, CutByRoute
=============================================================================
