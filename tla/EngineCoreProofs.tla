--------------------------- MODULE EngineCoreProofs ---------------------------
(****************************************************************************)
(* Proofs about EngineCore and its Scheduler, for any requests, limits and  *)
(* faults.                                                                  *)
(****************************************************************************)
EXTENDS EngineCore, DataFacts

\* The items of the queues.
W == ToSet(waiting)
P == ToSet(prefilling)
R == ToSet(running)
T == ToSet(todo)
L == ToSet(still)
Chunking == {r \in Request : states[r] > 0}
InScheduler == W \cup R \cup Chunking

Phases == {"free", "adding", "aborts", "drain", "chunks", "schedule", "decode", "cleanup",
           "end", "raise"}
OutputSet == [req : Request, token : Nat, end : {"no", "finish", "error"}]
Job == [op : {"add", "step", "fail"}, req : Request \cup {NoReq}]
Buffer == [has : BOOLEAN, tokens : Seq(Nat), end : {"no", "finish", "error"}, error : BOOLEAN]

QueueTypes ==
  /\ waiting \in Seq(Request) /\ prefilling \in Seq(Request) /\ running \in Seq(Request)
  /\ todo \in Seq(Request) /\ still \in Seq(Request)
  /\ IsInjective(waiting) /\ IsInjective(prefilling) /\ IsInjective(running)
SchedTypes ==
  /\ requests \subseteq Request /\ aborts \subseteq Request
  /\ states \in [Request -> Nat]
  /\ rows \in [DOMAIN rows -> Request] /\ DOMAIN rows \subseteq Nat /\ nextUid \in Nat
  /\ uidOf \in [Request -> Nat \cup {NoUid, TempUid}]
  /\ ridOf \in [DOMAIN ridOf -> Request] /\ DOMAIN ridOf \subseteq Nat
  /\ produced \in [Request -> Nat] /\ retries \in [Request -> Nat]
  /\ length \in [Request -> Nat]
  /\ clearIn \in Nat /\ faults \in Nat /\ ipc \in Phases
  /\ finishing \subseteq Request /\ rejects \subseteq Request /\ lost \subseteq Request
  /\ outs \subseteq OutputSet
StoreTypes ==
  /\ removes \in Seq([uid : Nat, req : Request])
  /\ stores \in Seq(Request) /\ IsInjective(stores) /\ stored \subseteq Request
  /\ inFlight = Len(stores) /\ inFlight <= MaxSeqs /\ cap \in 1 .. MaxSeqs
LoopTypes ==
  /\ jobs \in Seq(Job) /\ adding \in Request \cup {NoReq}
  /\ loop \in {"idle", "step", "fail", "outputs"} /\ given \subseteq OutputSet
ReaderTypes ==
  /\ consumer \in [Request -> {"none", "adding", "open", "leaving"} \cup Ends]
  /\ collected = {r \in Request : consumer[r] \in {"adding", "open", "leaving"}}
  /\ buf \in [Request -> Buffer] /\ signalled \subseteq Request
  /\ upto \in [Request -> Nat] /\ events \in Nat

\* Who has what in which phase: outputs and finished requests go from phase to
\* phase, and at most one job of the engine loop is queued.
Flow ==
  /\ adding # NoReq <=> ipc = "adding"
  /\ finishing # {} => ipc = "cleanup"
  /\ rejects # {} => ipc \in {"chunks", "schedule"}
  /\ outs # {} => ipc \in {"decode", "cleanup", "end"}
  /\ ipc \notin {"free", "adding"} => loop = "step"
  /\ given # {} => loop = "outputs"
JobsOwn ==
  /\ \A i \in DOMAIN jobs : \/ jobs[i].op = "add" /\ jobs[i].req \in Request
                            \/ jobs[i].op \in {"step", "fail"} /\ jobs[i].req = NoReq
  /\ \A i, j \in DOMAIN jobs :
       jobs[i].op # "add" /\ jobs[j].op # "add" => i = j
  /\ \A i \in DOMAIN jobs : jobs[i].op = "step" => loop = "step" /\ ipc \in {"free", "adding"}
  /\ \A i \in DOMAIN jobs : jobs[i].op = "fail" => loop = "fail"
  /\ \A i, j \in DOMAIN jobs :
       jobs[i].op = "add" /\ jobs[j].op = "add" /\ jobs[i].req = jobs[j].req => i = j

\* A request is in one place, and in requests while it is in one.
Places ==
  /\ W \cap R = {} /\ Chunking \cap (W \cup R) = {}
  /\ InScheduler \subseteq requests
  /\ rejects \cap InScheduler = {}
  /\ finishing \subseteq R
\* A request in chunks is in the queue of those; who else is in it had its
\* state taken by a step that raises or recovers.
ChunksQueued ==
  /\ Chunking \subseteq P
  /\ P \subseteq Chunking \/ ipc \in {"chunks", "raise"} \/ loop = "fail" \/ R = {}
  /\ ipc = "schedule" => P \subseteq Chunking
  /\ ipc = "chunks" => /\ T \cup L \subseteq P /\ T \cap L = {}
                       /\ IsInjective(todo) /\ IsInjective(still)
                       /\ L \subseteq Chunking /\ Chunking \subseteq T \cup L

\* Only a generation that has ended has a length.
Lengths ==
  /\ \A r \in Request : produced[r] <= Tokens[r] /\ length[r] <= Tokens[r]
  /\ \A r \in W \cup Chunking : produced[r] = 0 /\ length[r] = 0
  /\ \A r \in R \ finishing : produced[r] < Tokens[r] /\ length[r] = 0
  /\ \A r \in finishing : length[r] = produced[r] /\ length[r] > 0
  /\ \A r \in ToSet(stores) \cup stored : length[r] > 0
  /\ \A i \in DOMAIN removes : length[removes[i].req] > 0
  /\ finishing \cap ToSet(stores) = {}

\* What add_request has not yet been run for is nowhere.
Entering(r) ==
  consumer[r] = "none" \/ adding = r \/ \E i \in DOMAIN jobs : jobs[i].op = "add" /\ jobs[i].req = r
Fresh(r) ==
  /\ r \notin requests \cup P \cup T \cup L \cup rejects
  /\ length[r] = 0 /\ produced[r] = 0
  /\ RowsOf(r) = {}
  /\ \A o \in outs \cup given : o.req # r
Enters ==
  /\ \A r \in Request : Entering(r) => Fresh(r)
  /\ \A r \in Request : consumer[r] = "none" => /\ adding # r /\ r \notin aborts
                                                /\ \A i \in DOMAIN jobs : jobs[i].req # r
  /\ \A i \in DOMAIN jobs : jobs[i].op = "add" => adding # jobs[i].req

\* Rows are of requests that run or ran, under the uid they have.
RowsOwned ==
  /\ \A u \in DOMAIN rows : /\ u < nextUid /\ u \in DOMAIN ridOf /\ ridOf[u] = rows[u]
                            /\ rows[u] \notin W \cup Chunking
                            /\ rows[u] \in R => uidOf[rows[u]] = u
  /\ \A r \in R : RowsOf(r) # {} \/ r \in lost
  /\ \A r \in finishing : RowsOf(r) # {}

\* What an output says.
SaysTrue(o) ==
  /\ o.token <= Tokens[o.req]
  /\ o.end = "finish" => o.token = length[o.req] /\ o.token > 0
  /\ o.end = "no" => length[o.req] = 0 /\ o.token > 0
  /\ o.end = "error" => o.token = 0
OutputsTrue ==
  /\ \A o \in outs \cup given : SaysTrue(o)
  /\ \A o, p \in outs : o.req = p.req => o = p
  /\ \A o, p \in given : o.req = p.req => o = p
  /\ ipc = "decode" => \A o \in outs : o.end = "error" /\ o.req \notin R
  /\ \A r \in finishing : \E o \in outs : o.req = r /\ o.end = "finish"

\* What a collector holds.
BufTrue(r) ==
  /\ r \notin collected => buf[r] = NoBuf /\ r \notin signalled
  /\ \A i \in DOMAIN buf[r].tokens : buf[r].tokens[i] <= Tokens[r]
  /\ buf[r].end = "error" => buf[r].error
  /\ buf[r].end = "finish" /\ ~ buf[r].error =>
       length[r] > 0 /\ buf[r].tokens # <<>> /\ buf[r].tokens[Len(buf[r].tokens)] = length[r]
  /\ r \in signalled => buf[r].error \/ buf[r].end # "no"
  /\ ~ buf[r].has => ~ buf[r].error /\ buf[r].end = "no"
  /\ upto[r] <= Tokens[r]
BufsTrue == \A r \in Request : BufTrue(r)

\* An aborted client has its error; one that is not has its request somewhere.
Answered(r) ==
  \/ r \in rejects
  \/ \E o \in outs \cup given : o.req = r /\ o.end # "no"
  \/ buf[r].error \/ buf[r].end # "no"
  \/ r \in P /\ (ipc = "raise" \/ loop = "fail")
Held ==
  /\ \A r \in Request : consumer[r] = "open" /\ r \notin lost => r \in InScheduler \/ Answered(r)
  /\ \A r \in aborts : consumer[r] \in {"adding", "open"} => buf[r].error

IInv ==
  /\ QueueTypes /\ SchedTypes /\ StoreTypes /\ LoopTypes /\ ReaderTypes
  /\ Flow /\ JobsOwn /\ Places /\ ChunksQueued /\ Lengths /\ Enters /\ RowsOwned
  /\ OutputsTrue /\ BufsTrue /\ Held
------------------------------------------------------------------------------
USE DEF queues, batch, storing, progress, phase, sparse, schedVars, loopVars, readers, engineVars

\* The places of a queue's items when one is appended.
LEMMA AppendItems ==
  ASSUME NEW A, NEW s \in Seq(A), NEW a \in A
  PROVE  /\ Append(s, a) \in Seq(A)
         /\ \E n : /\ n \notin DOMAIN s /\ DOMAIN Append(s, a) = DOMAIN s \cup {n} /\ Append(s, a)[n] = a
                   /\ \A i \in DOMAIN s : Append(s, a)[i] = s[i]
<1>1. Len(s) \in Nat /\ DOMAIN s = 1 .. Len(s)
  BY LenProperties
<1>2. /\ Append(s, a) \in Seq(A) /\ DOMAIN Append(s, a) = 1 .. Len(s) + 1
      /\ \A i \in 1 .. Len(s) : Append(s, a)[i] = s[i]
      /\ Append(s, a)[Len(s) + 1] = a
  BY AppendProperties, LenProperties
<1>3. Len(s) + 1 \notin DOMAIN s /\ 1 .. Len(s) + 1 = DOMAIN s \cup {Len(s) + 1}
  BY <1>1
<1>4. QED BY <1>1, <1>2, <1>3

\* The places of a queue's items when the head goes.
LEMMA TailItems ==
  ASSUME NEW A, NEW s \in Seq(A), s # <<>>
  PROVE  /\ Tail(s) \in Seq(A) /\ Head(s) \in A /\ 1 \in DOMAIN s /\ s[1] = Head(s)
         /\ \A i \in DOMAIN Tail(s) : i + 1 \in DOMAIN s /\ i + 1 # 1 /\ Tail(s)[i] = s[i + 1]
         /\ \A i, j \in DOMAIN Tail(s) : i + 1 = j + 1 => i = j
<1>1. /\ Tail(s) \in Seq(A) /\ Head(s) \in A
      /\ \A i \in DOMAIN Tail(s) : i + 1 \in DOMAIN s /\ Tail(s)[i] = s[i + 1]
  BY TailQueue, NonEmptyQueue
<1>2. Len(s) \in Nat /\ DOMAIN s = 1 .. Len(s) /\ Len(s) # 0
  BY LenProperties, EmptySeq
<1>3. Len(Tail(s)) \in Nat /\ DOMAIN Tail(s) = 1 .. Len(Tail(s))
  BY <1>1, LenProperties
<1>4. \A i \in DOMAIN Tail(s) : i \in Nat /\ i # 0
  BY <1>3
<1>5. Head(s) = s[1]
  OBVIOUS
<1>6. QED BY <1>1, <1>2, <1>4, <1>5

\* A request taken out of a queue.
LEMMA DropQueue ==
  ASSUME NEW s \in Seq(Request), NEW r
  PROVE  /\ Drop(s, r) \in Seq(Request) /\ ToSet(Drop(s, r)) = ToSet(s) \ {r}
         /\ IsInjective(s) => IsInjective(Drop(s, r))
<1>1. ToSet(s) \cap (ToSet(s) \ {r}) = ToSet(s) \ {r}
  OBVIOUS
<1>2. QED BY <1>1, KeptQueue DEF Drop

(* The steps of the scheduler *)

\* A pending abort: a request that is unknown changes nothing; one that is
\* known leaves its queues, and the row of the uid it had goes whoever has it.
LEMMA DoAbortKeeps ==
  ASSUME IInv, NEW r \in Request, DoAbort(r), UNCHANGED engineVars
  PROVE  IInv'
<1> USE DEF IInv
<1>1. CASE r \notin requests
  <2>1. QueueTypes' /\ SchedTypes' /\ StoreTypes' /\ LoopTypes' /\ ReaderTypes'
    BY <1>1 DEF DoAbort, QueueTypes, SchedTypes, StoreTypes, LoopTypes, ReaderTypes
  <2>2. Flow' /\ JobsOwn'
    BY <1>1 DEF DoAbort, Flow, JobsOwn
  <2>3. W' = W /\ P' = P /\ R' = R /\ T' = T /\ L' = L /\ Chunking' = Chunking
    BY <1>1 DEF DoAbort, W, P, R, T, L, Chunking
  <2>4. Places' /\ ChunksQueued' /\ Lengths'
    BY <1>1, <2>3 DEF DoAbort, Places, ChunksQueued, Lengths, InScheduler
  <2>5. Enters'
    BY <1>1, <2>3 DEF DoAbort, Enters, Entering, Fresh, RowsOf
  <2>6. RowsOwned' /\ OutputsTrue' /\ BufsTrue'
    BY <1>1, <2>3 DEF DoAbort, RowsOwned, OutputsTrue, SaysTrue, BufsTrue, BufTrue, RowsOf
  <2>7. Held'
    BY <1>1, <2>3 DEF DoAbort, Held, Answered, InScheduler
  <2>8. QED BY <2>1, <2>2, <2>4, <2>5, <2>6, <2>7
<1>2. CASE r \in requests
  <2>0. /\ waiting' = Drop(waiting, r) /\ states' = [states EXCEPT ![r] = 0]
        /\ prefilling' = IF states[r] > 0 THEN Drop(prefilling, r) ELSE prefilling
        /\ running' \in {running, Drop(running, r)}
        /\ UNCHANGED <<nextUid, todo, still, makeup, finishing, rejects, outs>>
    BY <1>2 DEF DoAbort
  <2>1. QueueTypes'
    BY <2>0, DropQueue DEF QueueTypes
  <2>2. /\ W' = W \ {r} /\ R' \in {R, R \ {r}} /\ Chunking' = Chunking \ {r}
        /\ P' = IF states[r] > 0 THEN P \ {r} ELSE P
        /\ T' = T /\ L' = L
    <3>1. waiting \in Seq(Request) /\ running \in Seq(Request) /\ prefilling \in Seq(Request)
      BY DEF QueueTypes
    <3>2. W' = W \ {r} /\ R' \in {R, R \ {r}} /\ T' = T /\ L' = L
      BY <2>0, <3>1, DropQueue DEF W, R, T, L
    <3>3. P' = IF states[r] > 0 THEN P \ {r} ELSE P
      BY <2>0, <3>1, DropQueue DEF P
    <3>4. Chunking' = Chunking \ {r}
      BY <2>0 DEF Chunking, SchedTypes
    <3>5. QED BY <3>2, <3>3, <3>4
  <2>3. \/ /\ ipc' = "aborts" /\ R' = R \ {r} /\ requests' = requests \ {r}
        \/ /\ ipc' = "raise" /\ R' = R /\ requests' = requests
    BY <1>2, <2>0, DropQueue DEF DoAbort, R, QueueTypes
  <2>4. SchedTypes'
    <3>1. states' \in [Request -> Nat] /\ ipc' \in Phases /\ requests' \subseteq Request
      BY <2>0, <2>3 DEF SchedTypes, Phases
    <3>2. rows' \in [DOMAIN rows' -> Request] /\ DOMAIN rows' \subseteq Nat
      BY <1>2 DEF DoAbort, SchedTypes, WithoutRows
    <3>3. ridOf' \in [DOMAIN ridOf' -> Request] /\ DOMAIN ridOf' \subseteq Nat
      BY <1>2 DEF DoAbort, SchedTypes, Unmapped
    <3>4. uidOf' \in [Request -> Nat \cup {NoUid, TempUid}]
      BY <1>2 DEF DoAbort, SchedTypes
    <3>5. aborts' \subseteq Request /\ lost' \subseteq Request
      <4>1. R \subseteq Request
        BY NonEmptyQueue DEF QueueTypes, R
      <4>2. QED BY <4>1, <1>2 DEF DoAbort, SchedTypes, R
    <3>6. QED BY <2>0, <3>1, <3>2, <3>3, <3>4, <3>5 DEF DoAbort, SchedTypes
  <2>5. StoreTypes' /\ LoopTypes' /\ ReaderTypes'
    BY DEF DoAbort, StoreTypes, LoopTypes, ReaderTypes
  <2>6. Flow' /\ JobsOwn'
    BY <2>3, <2>0 DEF DoAbort, Flow, JobsOwn
  <2>7. Places'
    <3>1. finishing = {} /\ rejects = {}
      BY DEF DoAbort, Flow
    <3>2. QED BY <2>2, <2>3, <2>0, <3>1 DEF DoAbort, Places, InScheduler
  <2>14. ChunksQueued'
    <3>1. Chunking' \subseteq P'
      BY <2>2 DEF ChunksQueued
    <3>2. P \subseteq Chunking => P' \subseteq Chunking'
      BY <2>2 DEF Chunking, SchedTypes
    <3>3. R = {} => R' = {}
      BY <2>2
    <3>4. loop' = loop
      OBVIOUS
    <3>5. QED BY <2>3, <3>1, <3>2, <3>3, <3>4 DEF DoAbort, ChunksQueued
  <2>8. Lengths'
    BY <2>2, <2>3, <2>0 DEF DoAbort, Lengths
  <2>9. Enters'
    BY <2>2, <2>3, <2>0 DEF DoAbort, Enters, Entering, Fresh, RowsOf, WithoutRows
  <2>10. RowsOwned'
    <3> DEFINE u == uidOf[r]
    <3>1. finishing' = {} /\ nextUid' = nextUid
      BY <2>0 DEF DoAbort, Flow
    <3>2. CASE u >= 0 /\ u \in DOMAIN ridOf
      <4>1. /\ rows' = WithoutRows({u}) /\ ridOf' = Unmapped(u) /\ R' = R \ {r}
            /\ uidOf' = [uidOf EXCEPT ![r] = NoUid]
            /\ lost' = lost \cup {x \in R \ {r} : u \in RowsOf(x)}
        <5>1. ~ (u < 0)
          BY <3>2 DEF SchedTypes, NoUid, TempUid
        <5>2. R' = R \ {r}
          BY <3>2, <5>1, <1>2, <2>0, DropQueue DEF DoAbort, R, QueueTypes
        <5>3. QED BY <3>2, <5>1, <5>2, <1>2 DEF DoAbort, R
      <4>2. \A v \in DOMAIN rows' : v \in DOMAIN rows \ {u} /\ rows'[v] = rows[v] /\ v \in DOMAIN ridOf' /\ ridOf'[v] = ridOf[v]
        BY <4>1 DEF WithoutRows, Unmapped, RowsOwned
      <4>3. \A x \in R' : RowsOf(x)' # {} \/ x \in lost'
        BY <4>1 DEF WithoutRows, RowsOwned, RowsOf
      <4>5. \A v \in DOMAIN rows' : rows'[v] \in R' => uidOf'[rows'[v]] = v
        <5>1. \A x \in Request \ {r} : uidOf'[x] = uidOf[x]
          BY <4>1 DEF SchedTypes
        <5>2. \A v \in DOMAIN rows : rows[v] \in Request /\ (rows[v] \in R => uidOf[rows[v]] = v)
          BY DEF RowsOwned, SchedTypes
        <5>3. R' = R \ {r}
          BY <4>1
        <5>4. ASSUME NEW v \in DOMAIN rows', rows'[v] \in R' PROVE uidOf'[rows'[v]] = v
          <6>1. v \in DOMAIN rows /\ rows'[v] = rows[v]
            BY <4>2
          <6>2. rows[v] \in Request \ {r} /\ rows[v] \in R
            BY <5>2, <5>3, <5>4, <6>1
          <6>3. QED BY <5>1, <5>2, <6>1, <6>2
        <5>5. QED BY <5>4
      <4>6. \A v \in DOMAIN rows' : /\ v < nextUid' /\ v \in DOMAIN ridOf' /\ ridOf'[v] = rows'[v]
                                    /\ rows'[v] \notin W' \cup Chunking'
        BY <2>2, <3>1, <4>2 DEF RowsOwned
      <4>4. QED BY <3>1, <4>3, <4>5, <4>6 DEF RowsOwned
    <3>3. CASE ~ (u >= 0 /\ u \in DOMAIN ridOf)
      <4>1. rows' = rows /\ ridOf' = ridOf /\ lost \subseteq lost'
        BY <3>3, <1>2 DEF DoAbort, WithoutRows, RowsOwned, SchedTypes
      <4>2. uidOf' = uidOf \/ (uidOf' = [uidOf EXCEPT ![r] = NoUid] /\ R' = R \ {r})
        BY <3>3, <1>2, <2>0, DropQueue DEF DoAbort, R, QueueTypes
      <4>3. QED BY <2>2, <3>1, <4>1, <4>2 DEF RowsOwned, SchedTypes, RowsOf
    <3>4. QED BY <3>2, <3>3
  <2>11. OutputsTrue' /\ BufsTrue'
    BY <2>0 DEF DoAbort, OutputsTrue, SaysTrue, BufsTrue, BufTrue
  <2>12. Held'
    BY <2>2, <2>3, <2>0 DEF DoAbort, Held, Answered, InScheduler
  <2>13. QED BY <2>1, <2>4, <2>5, <2>6, <2>7, <2>8, <2>9, <2>10, <2>11, <2>12, <2>14
<1>3. QED BY <1>1, <1>2

\* A removal that was put off: its request was finished long ago, so it is in no
\* queue; it takes a row only while its uid is still mapped to it.
LEMMA DrainKeeps ==
  ASSUME IInv, Drain, UNCHANGED engineVars
  PROVE  IInv'
<1> USE DEF IInv
<1> DEFINE e == Head(removes)
<1>1. /\ e \in [uid : Nat, req : Request] /\ removes' = Tail(removes)
      /\ removes' \in Seq([uid : Nat, req : Request])
      /\ \A i \in DOMAIN removes' : i + 1 \in DOMAIN removes /\ removes'[i] = removes[i + 1]
  <2> DEFINE Entry == [uid : Nat, req : Request]
  <2>1. removes \in Seq(Entry) /\ removes # <<>> /\ removes' = Tail(removes)
    BY DEF Drain, StoreTypes
  <2> HIDE DEF Entry
  <2>2. /\ Head(removes) \in Entry /\ Tail(removes) \in Seq(Entry)
        /\ \A i \in DOMAIN Tail(removes) : i + 1 \in DOMAIN removes /\ Tail(removes)[i] = removes[i + 1]
    BY <2>1, TailItems
  <2>3. QED BY <2>1, <2>2 DEF Entry
<1>2. length[e.req] > 0
  BY DEF Drain, StoreTypes, Lengths
<1> HIDE DEF e
<1>3. /\ requests' = requests \ {e.req} /\ stored' = stored \ {e.req} /\ ipc' = "drain"
      /\ rows' = IF StillOwned(e) THEN WithoutRows({e.uid}) ELSE rows
      /\ ridOf' = IF StillOwned(e) THEN Unmapped(e.uid) ELSE ridOf
      /\ uidOf' = IF uidOf[e.req] = e.uid THEN [uidOf EXCEPT ![e.req] = NoUid] ELSE uidOf
  BY DEF Drain, e
<1>4. W' = W /\ P' = P /\ R' = R /\ T' = T /\ L' = L /\ Chunking' = Chunking
  BY DEF Drain, W, P, R, T, L, Chunking
<1>5. finishing = {} /\ outs = {} /\ rejects = {}
  BY DEF Drain, Draining, Flow
<1>6. e.req \notin InScheduler
  BY <1>1, <1>2, <1>5 DEF Lengths, InScheduler
<1>7. QueueTypes' /\ StoreTypes' /\ LoopTypes' /\ ReaderTypes' /\ BufsTrue'
  BY <1>1, <1>3 DEF Drain, QueueTypes, StoreTypes, LoopTypes, ReaderTypes, BufsTrue, BufTrue
<1>8. SchedTypes'
  <2>1. rows' \in [DOMAIN rows' -> Request] /\ DOMAIN rows' \subseteq Nat
    BY <1>3 DEF SchedTypes, WithoutRows
  <2>2. ridOf' \in [DOMAIN ridOf' -> Request] /\ DOMAIN ridOf' \subseteq Nat
    BY <1>3 DEF SchedTypes, Unmapped
  <2>3. uidOf' \in [Request -> Nat \cup {NoUid, TempUid}]
    BY <1>1, <1>3 DEF SchedTypes
  <2>4. QED BY <1>3, <2>1, <2>2, <2>3 DEF Drain, SchedTypes, Phases
<1>9. Flow' /\ JobsOwn'
  BY <1>3, <1>5 DEF Drain, Draining, Flow, JobsOwn
<1>10. Places' /\ ChunksQueued'
  BY <1>3, <1>4, <1>5, <1>6 DEF Drain, Draining, Flow, Places, ChunksQueued, InScheduler
<1>11. Lengths'
  BY <1>1, <1>3, <1>4 DEF Drain, Lengths
<1>12. Enters'
  BY <1>3, <1>4 DEF Drain, Enters, Entering, Fresh, RowsOf, WithoutRows
<1>13. RowsOwned'
  <2>1. \A u \in DOMAIN rows' : /\ u \in DOMAIN rows /\ rows'[u] = rows[u]
                                /\ u \in DOMAIN ridOf' /\ ridOf'[u] = ridOf[u]
    BY <1>3 DEF WithoutRows, Unmapped, RowsOwned
  <2>2. \A u \in DOMAIN rows : rows[u] # e.req => u \in DOMAIN rows' /\ rows'[u] = rows[u]
    BY <1>3 DEF WithoutRows, StillOwned, RowsOwned
  <2>3. \A x \in Request : x # e.req => uidOf'[x] = uidOf[x]
    BY <1>3 DEF SchedTypes
  <2>4. R \subseteq Request /\ e.req \notin R
    BY <1>6, NonEmptyQueue DEF InScheduler, R, QueueTypes
  <2>5. \A x \in R : RowsOf(x)' # {} \/ x \in lost
    BY <2>2, <2>4 DEF RowsOf, RowsOwned
  <2>6. nextUid' = nextUid /\ finishing' = {} /\ lost' = lost
    BY <1>5 DEF Drain
  <2>7. QED BY <1>4, <2>1, <2>3, <2>4, <2>5, <2>6 DEF RowsOwned
<1>14. OutputsTrue'
  BY <1>3, <1>5 DEF Drain, OutputsTrue, SaysTrue
<1>15. Held'
  BY <1>3, <1>4, <1>5 DEF Drain, Draining, Held, Answered, InScheduler
<1>16. QED BY <1>7, <1>8, <1>9, <1>10, <1>11, <1>12, <1>13, <1>14, <1>15

\* The abort and removal phases are over.
LEMMA DrainDoneKeeps ==
  ASSUME IInv, DrainDone, UNCHANGED engineVars
  PROVE  IInv'
<1> USE DEF IInv
<1>1. W' = W /\ P' = P /\ R' = R /\ Chunking' = Chunking
  BY DEF DrainDone, W, P, R, Chunking
<1>2. \/ /\ ipc' = "chunks" /\ T' = P /\ L' = {} /\ todo' = prefilling /\ still' = <<>>
      \/ /\ ipc' = "schedule" /\ T' = T /\ L' = L /\ todo' = todo /\ still' = still
         /\ P = {} \/ R # {}
  BY EmptyQueue, NonEmptyQueue DEF DrainDone, P, R, T, L, QueueTypes
<1>3. finishing = {} /\ outs = {} /\ rejects = {} /\ loop = "step"
  BY DEF DrainDone, Draining, Flow
<1>4. QueueTypes'
  BY <1>2, EmptyQueue DEF DrainDone, QueueTypes
<1>11. SchedTypes' /\ StoreTypes' /\ LoopTypes' /\ ReaderTypes' /\ BufsTrue'
  BY <1>2 DEF DrainDone, SchedTypes, StoreTypes, LoopTypes, ReaderTypes, BufsTrue, BufTrue, Phases
<1>5. Flow' /\ JobsOwn' /\ Lengths' /\ Places'
  BY <1>1, <1>2, <1>3 DEF DrainDone, Draining, Flow, JobsOwn, Lengths, Places, InScheduler
<1>6. ChunksQueued'
  BY <1>1, <1>2, <1>3, EmptyQueue DEF DrainDone, Draining, ChunksQueued, QueueTypes
<1>7. Enters'
  BY <1>1, <1>2 DEF DrainDone, Enters, Entering, Fresh, RowsOf
<1>8. RowsOwned' /\ OutputsTrue'
  BY <1>1, <1>3 DEF DrainDone, RowsOwned, RowsOf, OutputsTrue, SaysTrue
<1>9. Held'
  BY <1>1, <1>3 DEF DrainDone, Draining, Held, Answered, InScheduler
<1>10. QED BY <1>4, <1>5, <1>6, <1>7, <1>8, <1>9, <1>11
------------------------------------------------------------------------------
\* The step after an error that is recovered: rs were in no queue.
LEMMA RecoverKeeps ==
  ASSUME IInv, ipc \in {"chunks", "schedule", "decode"},
         NEW rs, rs \subseteq Request, NEW queue \in Seq(Request), IsInjective(queue),
         ToSet(queue) \subseteq W, W \subseteq ToSet(queue) \cup rs,
         states' \in [Request -> Nat], Chunking' \subseteq Chunking, Chunking \subseteq Chunking' \cup rs,
         Recover(rs, queue), faults' \in Nat,
         UNCHANGED <<prefilling, aborts, storing, length, todo, still, makeup, finishing, engineVars>>
  PROVE  IInv'
<1> USE DEF IInv
<1> DEFINE again == Kept(running, {x \in Request : retries[x] < MaxRetries})
           Again == ToSet(again)
           failed == R \ Again
<1>1. /\ again \in Seq(Request) /\ IsInjective(again) /\ Again \subseteq R /\ R \subseteq Request
      /\ failed = ToSet(running) \ ToSet(again)
  BY KeptQueue, NonEmptyQueue DEF R, QueueTypes
<1>2. /\ ipc' = "end" /\ rows' = NoRows /\ nextUid' = 0 /\ ridOf' = NoRows
      /\ uidOf' = [x \in Request |-> NoUid]
      /\ retries' = [x \in Request |-> retries[x] + (IF x \in R THEN 1 ELSE 0)]
      /\ produced' = [x \in Request |-> IF x \in Again THEN 0 ELSE produced[x]]
      /\ waiting' = Reverse(again) \o queue /\ running' = <<>>
      /\ requests' = requests \ failed
      /\ outs' = outs \cup {Error(x) : x \in failed}
      /\ lost' = lost \cup rejects \cup rs
      /\ rejects' = {} /\ clearIn' = 0
  BY DEF Recover, Restarting, Dropped, R
<1> HIDE DEF again, Again, failed
<1>3. /\ finishing = {} /\ finishing' = {} /\ (outs # {} => ipc = "decode") /\ loop = "step"
      /\ Again \cap failed = {} /\ R = Again \cup failed /\ length' = length
  BY <1>1 DEF Flow, failed
<1>4. waiting' \in Seq(Request) /\ W' = Again \cup ToSet(queue) /\ IsInjective(waiting')
  <2>1. Reverse(again) \in Seq(Request) /\ ToSet(Reverse(again)) = Again /\ IsInjective(Reverse(again))
    BY <1>1, ReverseQueue DEF Again
  <2>2. Again \cap ToSet(queue) = {}
    BY <1>1 DEF Places
  <2>3. QED BY <1>2, <2>1, <2>2, ConcatQueue DEF W
<1>5. R' = {} /\ P' = P /\ T' = T /\ L' = L
  BY <1>2, EmptyQueue DEF R, P, T, L
<1>6. QueueTypes' /\ StoreTypes' /\ LoopTypes' /\ ReaderTypes' /\ BufsTrue'
  BY <1>2, <1>4, EmptyQueue DEF QueueTypes, StoreTypes, LoopTypes, ReaderTypes, BufsTrue, BufTrue
<1>7. SchedTypes'
  <2>1. \A x \in failed : Error(x) \in OutputSet
    BY <1>1, <1>3 DEF Error, Output, OutputSet
  <2>2. /\ rows' \in [DOMAIN rows' -> Request] /\ DOMAIN rows' \subseteq Nat
        /\ ridOf' \in [DOMAIN ridOf' -> Request] /\ DOMAIN ridOf' \subseteq Nat
    BY <1>2 DEF NoRows
  <2>3. retries' \in [Request -> Nat] /\ produced' \in [Request -> Nat]
    BY <1>2 DEF SchedTypes
  <2>4. outs' \subseteq OutputSet
    BY <1>2, <2>1 DEF SchedTypes
  <2>5. QED BY <1>2, <2>2, <2>3, <2>4 DEF SchedTypes, Phases
<1>8. Flow' /\ JobsOwn'
  BY <1>2, <1>3 DEF Flow, JobsOwn
<1>9. Places'
  BY <1>1, <1>2, <1>3, <1>4, <1>5 DEF Places, InScheduler
<1>10. ChunksQueued'
  BY <1>2, <1>5 DEF ChunksQueued
<1>11. Lengths'
  <2>1. \A x \in Request : produced'[x] = IF x \in Again THEN 0 ELSE produced[x]
    BY <1>2
  <2>2. \A x \in Again : length[x] = 0
    BY <1>1, <1>3 DEF Lengths
  <2>3. \A x \in Request : Tokens[x] \in Nat /\ produced[x] \in Nat
    BY SchedulerAssumption DEF SchedTypes
  <2>4. W' \subseteq Request /\ Chunking' \subseteq Request
    BY <1>4, NonEmptyQueue DEF W, Chunking
  <2>5. \A x \in W' \cup Chunking' : produced'[x] = 0 /\ length'[x] = 0
    BY <1>3, <1>4, <2>1, <2>2, <2>4 DEF Lengths
  <2>6. \A x \in Request : produced'[x] <= Tokens[x] /\ length'[x] <= Tokens[x]
    BY <1>3, <2>1, <2>3 DEF Lengths
  <2>7. QED BY <1>3, <1>5, <2>5, <2>6 DEF Lengths
<1>12. Enters'
  <2>1. ASSUME NEW x \in Request, Fresh(x) PROVE Fresh(x)'
    <3>1. x \notin R
      BY <2>1 DEF Fresh, Places, InScheduler
    <3>2. \A o \in outs' : o.req # x
      BY <1>2, <1>3, <2>1, <3>1 DEF Fresh, Error, Output
    <3>3. produced'[x] = 0 /\ RowsOf(x)' = {}
      BY <1>2, <1>3, <2>1, <3>1 DEF Fresh, RowsOf, NoRows
    <3>4. QED BY <1>2, <1>5, <2>1, <3>2, <3>3 DEF Fresh
  <2>2. QED BY <2>1 DEF Enters, Entering
<1>13. RowsOwned'
  BY <1>2, <1>3, <1>5 DEF RowsOwned, NoRows
<1>14. OutputsTrue'
  <2>1. \A o \in outs' : o \in outs \/ \E x \in failed : o = Error(x)
    BY <1>2
  <2>2. \A x \in failed : Error(x).req = x /\ Error(x).token = 0 /\ Error(x).end = "error" /\ x \in R /\ Tokens[x] \in Nat
    BY <1>1, <1>3, SchedulerAssumption DEF Error, Output
  <2>3. \A o, p \in outs' : o.req = p.req => o = p
    BY <1>3, <2>1, <2>2 DEF OutputsTrue
  <2>4. \A o \in outs' : SaysTrue(o)'
    BY <1>3, <2>1, <2>2 DEF OutputsTrue, SaysTrue
  <2>5. \A o \in given' : SaysTrue(o)'
    BY <1>3 DEF OutputsTrue, SaysTrue
  <2>6. QED BY <1>2, <1>3, <2>3, <2>4, <2>5 DEF OutputsTrue
<1>15. Held'
  <2>1. \A x \in failed : Error(x) \in outs' /\ Error(x).req = x /\ Error(x).end = "error"
    BY <1>2 DEF Error, Output
  <2>2. ASSUME NEW x \in Request, consumer[x] = "open", x \notin lost'
        PROVE  x \in InScheduler' \/ Answered(x)'
    <3>1. x \in InScheduler \/ Answered(x)
      BY <1>2, <2>2 DEF Held
    <3>2. CASE x \in InScheduler
      BY <1>2, <1>3, <1>4, <2>1, <2>2, <3>2 DEF InScheduler, Answered
    <3>3. CASE Answered(x)
      BY <1>2, <1>3, <2>2, <3>3 DEF Answered
    <3>4. QED BY <3>1, <3>2, <3>3
  <2>3. QED BY <2>2 DEF Held
<1>16. QED BY <1>6, <1>7, <1>8, <1>9, <1>10, <1>11, <1>12, <1>13, <1>14, <1>15

\* The step after an error that is not.
LEMMA RaiseKeeps ==
  ASSUME IInv, ipc \in {"chunks", "schedule", "decode"},
         NEW rs, rs \subseteq Request,
         waiting' \in Seq(Request), IsInjective(waiting'), W' \subseteq W, W \subseteq W' \cup rs,
         states' \in [Request -> Nat], Chunking' \subseteq Chunking,
         Raise(rs), faults' \in Nat,
         UNCHANGED <<requests, running, batch, retries, produced, clearIn>>,
         UNCHANGED <<prefilling, aborts, storing, length, todo, still, makeup, finishing, engineVars>>
  PROVE  IInv'
<1> USE DEF IInv
<1>1. /\ ipc' = "raise" /\ rejects' = {} /\ outs' = {}
      /\ lost' = lost \cup rejects \cup rs \cup {o.req : o \in outs}
  BY DEF Raise, Dropped
<1>2. R' = R /\ P' = P /\ T' = T /\ L' = L
  BY DEF R, P, T, L
<1>3. finishing = {} /\ loop = "step"
  BY DEF Flow
<1>4. QueueTypes' /\ StoreTypes' /\ LoopTypes' /\ ReaderTypes' /\ BufsTrue'
  BY DEF QueueTypes, StoreTypes, LoopTypes, ReaderTypes, BufsTrue, BufTrue
<1>5. SchedTypes'
  <2>1. lost' \subseteq Request
    BY <1>1 DEF SchedTypes, OutputSet
  <2>2. QED BY <1>1, <2>1 DEF SchedTypes, Phases
<1>6. Flow' /\ JobsOwn' /\ Places' /\ ChunksQueued'
  BY <1>1, <1>2, <1>3 DEF Flow, JobsOwn, Places, ChunksQueued, InScheduler
<1>7. Lengths'
  BY <1>2 DEF Lengths
<1>8. Enters'
  BY <1>1, <1>2 DEF Enters, Entering, Fresh, RowsOf
<1>9. RowsOwned' /\ OutputsTrue'
  BY <1>1, <1>2, <1>3 DEF RowsOwned, RowsOf, OutputsTrue, SaysTrue
<1>10. Held'
  <2>1. ASSUME NEW x \in Request, consumer[x] = "open", x \notin lost'
        PROVE  x \in InScheduler' \/ Answered(x)'
    <3>1. x \in InScheduler \/ Answered(x)
      BY <1>1, <2>1 DEF Held
    <3>2. CASE x \in InScheduler
      BY <1>1, <1>2, <2>1, <3>2 DEF InScheduler, Answered, ChunksQueued
    <3>3. CASE Answered(x)
      BY <1>1, <1>3, <2>1, <3>3 DEF Answered
    <3>4. QED BY <3>1, <3>2, <3>3
  <2>2. QED BY <2>1 DEF Held
<1>11. QED BY <1>4, <1>5, <1>6, <1>7, <1>8, <1>9, <1>10

\* A request that was waiting, or in chunks, gets a row of its own.
LEMMA InsertRows ==
  ASSUME IInv, NEW r \in W \cup Chunking, Insert(r),
         W' \cup Chunking' \subseteq (W \cup Chunking) \ {r},
         finishing = {}, UNCHANGED <<finishing, lost>>
  PROVE  /\ R' = R \cup {r} /\ running' \in Seq(Request) /\ IsInjective(running')
         /\ rows' \in [DOMAIN rows' -> Request] /\ DOMAIN rows' \subseteq Nat /\ nextUid' \in Nat
         /\ uidOf' \in [Request -> Nat \cup {NoUid, TempUid}]
         /\ ridOf' \in [DOMAIN ridOf' -> Request] /\ DOMAIN ridOf' \subseteq Nat
         /\ RowsOwned'
         /\ \A x \in Request \ {r} : RowsOf(x)' = RowsOf(x)
<1> USE DEF IInv
<1>1. /\ rows' = [u \in DOMAIN rows \cup {nextUid} |-> IF u = nextUid THEN r ELSE rows[u]]
      /\ nextUid' = nextUid + 1
      /\ uidOf' = [uidOf EXCEPT ![r] = nextUid]
      /\ ridOf' = [v \in DOMAIN ridOf \cup {nextUid} |-> IF v = nextUid THEN r ELSE ridOf[v]]
      /\ running' = Append(running, r)
  BY DEF Insert, MapUid
<1>2. r \in Request /\ r \notin R
  BY NonEmptyQueue DEF Places, QueueTypes, W, Chunking
<1>3. R' = R \cup {r} /\ running' \in Seq(Request) /\ IsInjective(running')
  BY <1>1, <1>2, AppendQueue DEF R, QueueTypes
<1>4. /\ rows' \in [DOMAIN rows' -> Request] /\ DOMAIN rows' \subseteq Nat /\ nextUid' \in Nat
      /\ ridOf' \in [DOMAIN ridOf' -> Request] /\ DOMAIN ridOf' \subseteq Nat
  BY <1>1, <1>2 DEF SchedTypes
<1>5. uidOf' \in [Request -> Nat \cup {NoUid, TempUid}]
  BY <1>1, <1>2 DEF SchedTypes
<1>6. \A u \in DOMAIN rows : u < nextUid /\ u \in Nat /\ rows[u] # r /\ rows[u] \in Request
  BY DEF RowsOwned, SchedTypes
<1>7. /\ nextUid \in DOMAIN rows' /\ rows'[nextUid] = r /\ nextUid \in DOMAIN ridOf' /\ ridOf'[nextUid] = r
      /\ \A u \in DOMAIN rows : /\ u \in DOMAIN rows' /\ rows'[u] = rows[u]
                                /\ u \in DOMAIN ridOf' /\ ridOf'[u] = ridOf[u]
      /\ \A u \in DOMAIN rows' : u = nextUid \/ u \in DOMAIN rows
  BY <1>1, <1>6 DEF RowsOwned, SchedTypes
<1>8. /\ uidOf'[r] = nextUid /\ \A x \in Request \ {r} : uidOf'[x] = uidOf[x]
      /\ \A u \in DOMAIN rows' : u < nextUid'
  BY <1>1, <1>2, <1>6, <1>7 DEF SchedTypes
<1>9. \A x \in Request \ {r} : RowsOf(x)' = RowsOf(x)
  BY <1>7 DEF RowsOf
<1>10. R \subseteq Request
  BY NonEmptyQueue DEF R, QueueTypes
<1>11. RowsOwned'
  <2>1. ASSUME NEW u \in DOMAIN rows'
        PROVE  /\ u < nextUid' /\ u \in DOMAIN ridOf' /\ ridOf'[u] = rows'[u]
               /\ rows'[u] \notin W' \cup Chunking'
               /\ rows'[u] \in R' => uidOf'[rows'[u]] = u
    <3>1. CASE u = nextUid
      BY <1>7, <1>8, <3>1
    <3>2. CASE u \in DOMAIN rows
      <4>1. rows'[u] = rows[u] /\ ridOf'[u] = ridOf[u] /\ rows[u] \in Request \ {r} /\ u \in DOMAIN ridOf'
        BY <1>6, <1>7, <3>2
      <4>2. QED BY <1>3, <1>8, <3>2, <4>1 DEF RowsOwned
    <3>3. QED BY <1>7, <3>1, <3>2
  <2>2. \A x \in R' : RowsOf(x)' # {} \/ x \in lost'
    BY <1>2, <1>3, <1>7, <1>9, <1>10 DEF RowsOwned, RowsOf
  <2>3. finishing' = {}
    OBVIOUS
  <2>4. QED BY <2>1, <2>2, <2>3 DEF RowsOwned
<1>12. QED BY <1>3, <1>4, <1>5, <1>9, <1>11

\* The next chunk of a chunked prefill; the last one gives the request a row.
LEMMA NextChunkKeeps ==
  ASSUME IInv, NextChunk, UNCHANGED engineVars
  PROVE  IInv'
<1> USE DEF IInv
<1> DEFINE r == Head(todo)
<1>1. /\ ipc = "chunks" /\ r \in T /\ r \in Request /\ todo' \in Seq(Request)
      /\ T' = T \ {r} /\ IsInjective(todo') /\ (todo' = <<>> <=> T' = {})
  <2>1. ipc = "chunks" /\ todo # <<>> /\ todo' = Tail(todo) /\ todo \in Seq(Request) /\ IsInjective(todo)
    BY DEF NextChunk, QueueTypes, ChunksQueued
  <2>2. ToSet(todo) = ToSet(Tail(todo)) \cup {Head(todo)} /\ Head(todo) \notin ToSet(Tail(todo))
    BY <2>1, TailQueue
  <2>3. Tail(todo) \in Seq(Request) /\ IsInjective(Tail(todo))
    BY <2>1, TailQueue
  <2>4. Head(todo) \in Request /\ (Tail(todo) = <<>> <=> ToSet(Tail(todo)) = {})
    BY <2>1, <2>3, NonEmptyQueue
  <2>5. QED BY <2>1, <2>2, <2>3, <2>4 DEF T
<1>2. /\ \/ states[r] = 0
            /\ UNCHANGED <<requests, running, states, batch, still, rejects, faults>>
         \/ /\ states[r] > 1
            /\ states' = [states EXCEPT ![r] = @ - 1]
            /\ still' = Append(still, r)
            /\ UNCHANGED <<requests, running, batch, rejects, faults>>
         \/ /\ states[r] = 1
            /\ states' = [states EXCEPT ![r] = 0]
            /\ Insert(r)
            /\ UNCHANGED <<requests, still, rejects, faults>>
         \/ /\ states[r] > 0
            /\ Fault("memory")
            /\ states' = [states EXCEPT ![r] = 0]
            /\ Reject(r)
            /\ UNCHANGED <<running, batch, still>>
      /\ prefilling' = IF todo' = <<>> THEN still' ELSE prefilling
      /\ ipc' = IF todo' = <<>> THEN "schedule" ELSE "chunks"
      /\ UNCHANGED <<waiting, aborts, storing, progress, clearIn, makeup, finishing, outs,
                     lost>>
  BY DEF NextChunk
<1> HIDE DEF r
<1>3. /\ finishing = {} /\ outs = {} /\ loop = "step" /\ W' = W
      /\ T \cup L \subseteq P /\ T \cap L = {} /\ L \subseteq Chunking /\ Chunking \subseteq T \cup L
      /\ r \notin L /\ states \in [Request -> Nat] /\ still \in Seq(Request) /\ IsInjective(still)
  BY <1>1, <1>2 DEF Flow, ChunksQueued, SchedTypes, QueueTypes, W
\* What becomes of r: it has no state, goes on, is inserted or is refused.
<1>4. /\ states' \in [Request -> Nat] /\ still' \in Seq(Request) /\ IsInjective(still')
      /\ L' \subseteq L \cup {r} /\ L \subseteq L' /\ L' \subseteq Chunking' /\ Chunking' \subseteq Chunking
      /\ Chunking' \subseteq T' \cup L' /\ Chunking \ {r} \subseteq Chunking' /\ T' \cap L' = {}
  <2>1. CASE states[r] = 0 /\ states' = states /\ still' = still
    BY <1>1, <1>3, <2>1 DEF Chunking, L
  <2>2. CASE states[r] > 1 /\ states' = [states EXCEPT ![r] = @ - 1] /\ still' = Append(still, r)
    <3>1. still' \in Seq(Request) /\ IsInjective(still') /\ L' = L \cup {r}
      BY <1>1, <1>3, <2>2, AppendQueue DEF L
    <3>2. states' \in [Request -> Nat] /\ Chunking' = Chunking /\ r \in Chunking
      BY <1>1, <1>3, <2>2 DEF Chunking
    <3>3. QED BY <1>1, <1>3, <3>1, <3>2
  <2>3. CASE states' = [states EXCEPT ![r] = 0] /\ still' = still
    <3>1. states' \in [Request -> Nat] /\ Chunking' = Chunking \ {r} /\ L' = L
      BY <1>1, <1>3, <2>3 DEF Chunking, L
    <3>2. QED BY <1>1, <1>3, <2>3, <3>1
  <2>4. QED BY <1>2, <2>1, <2>2, <2>3 DEF Reject, Insert
<1>5. /\ P' = IF T' = {} THEN L' ELSE P
      /\ ipc' = IF T' = {} THEN "schedule" ELSE "chunks"
      /\ P' \subseteq P
  BY <1>1, <1>2, <1>3, <1>4 DEF P, L
<1>6. /\ running' \in Seq(Request) /\ IsInjective(running') /\ R \subseteq R' /\ R' \subseteq R \cup {r}
      /\ rows' \in [DOMAIN rows' -> Request] /\ DOMAIN rows' \subseteq Nat /\ nextUid' \in Nat
      /\ uidOf' \in [Request -> Nat \cup {NoUid, TempUid}]
      /\ ridOf' \in [DOMAIN ridOf' -> Request] /\ DOMAIN ridOf' \subseteq Nat
      /\ RowsOwned'
      /\ \A x \in Request \ {r} : RowsOf(x)' = RowsOf(x)
      /\ R' # R => r \in Chunking \ Chunking'
  <2>1. CASE states[r] = 1 /\ states' = [states EXCEPT ![r] = 0] /\ Insert(r)
    <3>1. r \in Chunking /\ r \notin Chunking' /\ r \notin W
      BY <1>1, <1>3, <2>1 DEF Chunking, Places
    <3>2. W' \cup Chunking' \subseteq (W \cup Chunking) \ {r} /\ UNCHANGED <<finishing, lost>>
      BY <1>2, <1>3, <1>4, <3>1
    <3>3. QED BY <1>3, <2>1, <3>1, <3>2, InsertRows
  <2>2. CASE UNCHANGED <<running, batch>>
    <3>1. R' = R /\ \A x \in Request : RowsOf(x)' = RowsOf(x)
      BY <2>2 DEF R, RowsOf
    <3>2. RowsOwned'
      BY <1>2, <1>3, <1>4, <2>2, <3>1 DEF RowsOwned, RowsOf
    <3>3. QED BY <2>2, <3>1, <3>2 DEF QueueTypes, SchedTypes
  <2>3. QED BY <1>2, <2>1, <2>2
<1>7. /\ \/ rejects' = rejects /\ requests' = requests /\ (r \in Chunking => r \in Chunking' \cup R')
         \/ rejects' = rejects \cup {r} /\ requests' = requests \ {r}
            /\ r \in Chunking /\ r \notin Chunking' /\ R' = R
      /\ r \in Chunking => r \in Chunking' \cup R' \cup rejects'
      /\ faults' \in Nat
  <2>1. CASE states[r] = 0 /\ UNCHANGED <<requests, running, states, rejects, faults>>
    BY <2>1, <1>3 DEF Chunking, SchedTypes
  <2>2. CASE states[r] > 1 /\ states' = [states EXCEPT ![r] = @ - 1] /\ UNCHANGED <<requests, running, rejects, faults>>
    BY <2>2, <1>1, <1>3 DEF Chunking, SchedTypes
  <2>3. CASE states[r] = 1 /\ Insert(r) /\ UNCHANGED <<requests, rejects, faults>>
    <3>1. r \in R'
      BY <2>3, <1>1, AppendQueue DEF Insert, R, QueueTypes
    <3>2. QED BY <2>3, <3>1 DEF SchedTypes
  <2>4. CASE states[r] > 0 /\ states' = [states EXCEPT ![r] = 0] /\ Fault("memory") /\ Reject(r) /\ UNCHANGED running
    BY <2>4, <1>1, <1>3 DEF Chunking, SchedTypes, Fault, Reject, R
  <2>5. QED BY <1>2, <2>1, <2>2, <2>3, <2>4
<1>8. QueueTypes'
  BY <1>1, <1>2, <1>4, <1>6 DEF QueueTypes
<1>9. SchedTypes'
  BY <1>1, <1>2, <1>4, <1>5, <1>6, <1>7 DEF SchedTypes, Phases
<1>10. StoreTypes' /\ LoopTypes' /\ ReaderTypes' /\ BufsTrue'
  BY <1>2 DEF StoreTypes, LoopTypes, ReaderTypes, BufsTrue, BufTrue
<1>11. Flow' /\ JobsOwn'
  BY <1>1, <1>2, <1>3, <1>5 DEF Flow, JobsOwn
<1>12. Places'
  BY <1>1, <1>2, <1>3, <1>4, <1>6, <1>7 DEF Places, InScheduler
<1>13. ChunksQueued'
  BY <1>1, <1>3, <1>4, <1>5 DEF ChunksQueued
<1>14. Lengths'
  <2>1. \A x \in Request : Tokens[x] \in Nat /\ Tokens[x] > 0
    BY SchedulerAssumption
  <2>2. QED BY <1>1, <1>2, <1>3, <1>4, <1>6, <2>1 DEF Lengths
<1>15. Enters'
  <2>1. ASSUME NEW x \in Request, Fresh(x) PROVE Fresh(x)'
    <3>1. x # r
      BY <1>1, <2>1 DEF Fresh
    <3>2. QED BY <1>1, <1>2, <1>4, <1>5, <1>6, <1>7, <2>1, <3>1 DEF Fresh
  <2>2. QED BY <1>2, <2>1 DEF Enters, Entering
<1>16. OutputsTrue'
  BY <1>2, <1>3, <1>5 DEF OutputsTrue, SaysTrue
<1>17. Held'
  <2>1. ASSUME NEW x \in Request, consumer[x] = "open", x \notin lost
        PROVE  x \in InScheduler' \/ Answered(x)'
    <3>1. x \in InScheduler \/ Answered(x)
      BY <2>1 DEF Held
    <3>2. CASE x \in InScheduler
      <4>1. x \in Chunking => x \in Chunking' \cup R' \cup rejects'
        BY <1>4, <1>7
      <4>2. QED BY <1>3, <1>6, <3>2, <4>1 DEF InScheduler, Answered
    <3>3. CASE Answered(x)
      <4>1. rejects \subseteq rejects' /\ outs' = outs
        BY <1>2, <1>7
      <4>2. QED BY <1>1, <1>3, <3>3, <4>1 DEF Answered
    <3>4. QED BY <3>1, <3>2, <3>3
  <2>2. QED BY <1>2, <2>1 DEF Held
<1>18. QED BY <1>6, <1>8, <1>9, <1>10, <1>11, <1>12, <1>13, <1>14, <1>15, <1>16, <1>17

\* Inserting a request after its last chunk raises: its state is gone while the
\* queue of chunked prefills still names it.
LEMMA ChunkRaisesKeeps ==
  ASSUME IInv, ChunkRaises, UNCHANGED engineVars
  PROVE  IInv'
<1> DEFINE r == Head(todo)
<1>1. /\ ipc = "chunks" /\ r \in Request /\ states' = [states EXCEPT ![r] = 0] /\ faults' \in Nat
      /\ UNCHANGED <<prefilling, aborts, storing, length, todo, still, makeup, finishing>>
      /\ \/ Recover({r}, waiting)
         \/ /\ Raise({})
            /\ UNCHANGED <<requests, waiting, running, batch, retries, produced, clearIn>>
  <2>1. ipc = "chunks" /\ todo # <<>> /\ todo \in Seq(Request) /\ faults \in Nat
    BY DEF IInv, ChunkRaises, QueueTypes, SchedTypes
  <2>2. r \in Request
    BY <2>1, NonEmptyQueue
  <2>3. QED BY <2>1, <2>2 DEF ChunkRaises, Fault
<1> HIDE DEF r
<1>2. states' \in [Request -> Nat] /\ Chunking' = Chunking \ {r}
  BY <1>1 DEF IInv, SchedTypes, Chunking
<1>3. waiting \in Seq(Request) /\ IsInjective(waiting) /\ ToSet(waiting) = W
  BY DEF IInv, QueueTypes, W
<1>4. CASE Recover({r}, waiting)
  BY <1>1, <1>2, <1>3, <1>4, RecoverKeeps
<1>5. CASE Raise({}) /\ UNCHANGED <<requests, waiting, running, batch, retries, produced, clearIn>>
  <2>1. W' = W
    BY <1>5 DEF W
  <2>2. QED BY <1>1, <1>2, <1>3, <1>5, <2>1, RaiseKeeps
<1>6. QED BY <1>1, <1>4, <1>5
------------------------------------------------------------------------------
\* The head of the waiting queue is taken.
LEMMA TakeWaiting ==
  ASSUME IInv, CanSchedule
  PROVE  /\ Head(waiting) \in W /\ Head(waiting) \in Request
         /\ Tail(waiting) \in Seq(Request) /\ IsInjective(Tail(waiting))
         /\ ToSet(Tail(waiting)) = W \ {Head(waiting)}
         /\ Head(waiting) \notin R \cup Chunking \cup P \cup rejects
         /\ finishing = {} /\ outs = {} /\ loop = "step" /\ ipc = "schedule"
         /\ P \subseteq Chunking
<1> USE DEF IInv
<1>1. waiting \in Seq(Request) /\ waiting # <<>> /\ IsInjective(waiting) /\ ipc = "schedule"
  BY DEF QueueTypes, CanSchedule
<1>2. ToSet(waiting) = ToSet(Tail(waiting)) \cup {Head(waiting)} /\ Head(waiting) \notin ToSet(Tail(waiting))
  BY <1>1, TailQueue
<1>3. Tail(waiting) \in Seq(Request) /\ IsInjective(Tail(waiting)) /\ Head(waiting) \in Request
  BY <1>1, TailQueue, NonEmptyQueue
<1>4. finishing = {} /\ outs = {} /\ loop = "step" /\ P \subseteq Chunking
  BY <1>1 DEF Flow, ChunksQueued
<1>5. W \cap (R \cup Chunking \cup rejects) = {}
  BY DEF Places, InScheduler
<1>6. QED BY <1>1, <1>2, <1>3, <1>4, <1>5 DEF W

\* The memory guard refuses a prefill: the request's error is all that stays.
LEMMA ScheduleRefusedKeeps ==
  ASSUME IInv, ScheduleRefused, UNCHANGED engineVars
  PROVE  IInv'
<1> USE DEF IInv
<1> DEFINE r == Head(waiting)
<1>1. /\ r \in W /\ r \in Request /\ waiting' \in Seq(Request) /\ IsInjective(waiting')
      /\ W' = W \ {r} /\ r \notin R \cup Chunking \cup P \cup rejects
      /\ finishing = {} /\ outs = {} /\ loop = "step" /\ ipc = "schedule"
  BY TakeWaiting DEF ScheduleRefused, Takeable, W
<1>2. /\ rejects' = rejects \cup {r} /\ requests' = requests \ {r} /\ faults' \in Nat
  BY DEF ScheduleRefused, Reject, Fault, SchedTypes
<1> HIDE DEF r
<1>3. R' = R /\ P' = P /\ T' = T /\ L' = L /\ Chunking' = Chunking
  BY DEF ScheduleRefused, R, P, T, L, Chunking
<1>4. QueueTypes' /\ SchedTypes' /\ StoreTypes' /\ LoopTypes' /\ ReaderTypes' /\ BufsTrue'
  BY <1>1, <1>2
  DEF ScheduleRefused, QueueTypes, SchedTypes, StoreTypes, LoopTypes, ReaderTypes, BufsTrue, BufTrue
<1>5. Flow' /\ JobsOwn' /\ Places' /\ ChunksQueued'
  BY <1>1, <1>2, <1>3 DEF ScheduleRefused, Flow, JobsOwn, Places, ChunksQueued, InScheduler
<1>6. Lengths'
  BY <1>1, <1>3 DEF ScheduleRefused, Lengths
<1>7. Enters'
  <2>1. ASSUME NEW x \in Request, Fresh(x) PROVE Fresh(x)'
    <3>1. x # r
      BY <1>1, <2>1 DEF Fresh, Places, InScheduler
    <3>2. QED BY <1>2, <1>3, <2>1, <3>1 DEF ScheduleRefused, Fresh, RowsOf
  <2>2. QED BY <2>1 DEF ScheduleRefused, Enters, Entering
<1>8. RowsOwned' /\ OutputsTrue'
  BY <1>1, <1>3 DEF ScheduleRefused, RowsOwned, RowsOf, OutputsTrue, SaysTrue
<1>9. Held'
  BY <1>1, <1>2, <1>3 DEF ScheduleRefused, Held, Answered, InScheduler
<1>10. QED BY <1>4, <1>5, <1>6, <1>7, <1>8, <1>9

\* A request begins its chunks, or is prefilled and gets a row.
LEMMA ScheduleChunkedKeeps ==
  ASSUME IInv, ScheduleChunked, UNCHANGED engineVars
  PROVE  IInv'
<1> USE DEF IInv
<1> DEFINE r == Head(waiting)
<1>1. /\ r \in W /\ r \in Request /\ waiting' \in Seq(Request) /\ IsInjective(waiting')
      /\ W' = W \ {r} /\ r \notin R \cup Chunking \cup P \cup rejects
      /\ finishing = {} /\ outs = {} /\ loop = "step" /\ ipc = "schedule" /\ P \subseteq Chunking
  BY TakeWaiting DEF ScheduleChunked, Takeable, W
<1>2. /\ \/ /\ Chunks[r] > 1
            /\ prefilling' = Append(prefilling, r)
            /\ states' = [states EXCEPT ![r] = Chunks[r] - 1]
            /\ UNCHANGED <<running, batch>>
         \/ Insert(r) /\ UNCHANGED <<prefilling, states>>
      /\ UNCHANGED <<requests, aborts, storing, progress, clearIn, ipc, todo, still, finishing,
                     rejects, outs, faults, lost>>
  BY DEF ScheduleChunked
<1> HIDE DEF r
<1>3. T' = T /\ L' = L /\ states \in [Request -> Nat] /\ prefilling \in Seq(Request) /\ IsInjective(prefilling)
  BY <1>2 DEF T, L, SchedTypes, QueueTypes
<1>4. /\ states' \in [Request -> Nat] /\ prefilling' \in Seq(Request) /\ IsInjective(prefilling')
      /\ running' \in Seq(Request) /\ IsInjective(running')
      /\ \/ Chunking' = Chunking \cup {r} /\ P' = P \cup {r} /\ R' = R
         \/ Chunking' = Chunking /\ P' = P /\ R' = R \cup {r}
      /\ rows' \in [DOMAIN rows' -> Request] /\ DOMAIN rows' \subseteq Nat /\ nextUid' \in Nat
      /\ uidOf' \in [Request -> Nat \cup {NoUid, TempUid}]
      /\ ridOf' \in [DOMAIN ridOf' -> Request] /\ DOMAIN ridOf' \subseteq Nat
      /\ RowsOwned'
      /\ \A x \in Request \ {r} : RowsOf(x)' = RowsOf(x)
  <2>1. CASE /\ Chunks[r] > 1 /\ prefilling' = Append(prefilling, r)
             /\ states' = [states EXCEPT ![r] = Chunks[r] - 1] /\ UNCHANGED <<running, batch>>
    <3>1. Chunks[r] - 1 \in Nat /\ Chunks[r] - 1 > 0
      BY <1>1, <2>1, SchedulerAssumption
    <3>2. states' \in [Request -> Nat] /\ Chunking' = Chunking \cup {r}
      BY <1>1, <1>3, <2>1, <3>1 DEF Chunking
    <3>3. prefilling' \in Seq(Request) /\ IsInjective(prefilling') /\ P' = P \cup {r}
      BY <1>1, <1>3, <2>1, AppendQueue DEF P
    <3>4. R' = R /\ \A x \in Request : RowsOf(x)' = RowsOf(x)
      BY <2>1 DEF R, RowsOf
    <3>5. W' \cup Chunking' = W \cup Chunking
      BY <1>1, <3>2
    <3>6. RowsOwned'
      BY <1>1, <1>2, <2>1, <3>4, <3>5 DEF RowsOwned, RowsOf
    <3>7. QED BY <2>1, <3>2, <3>3, <3>4, <3>6 DEF SchedTypes, QueueTypes
  <2>2. CASE Insert(r) /\ UNCHANGED <<prefilling, states>>
    <3>1. Chunking' = Chunking /\ P' = P
      BY <2>2 DEF Chunking, P
    <3>2. W' \cup Chunking' \subseteq (W \cup Chunking) \ {r} /\ UNCHANGED <<finishing, lost>>
      BY <1>1, <1>2, <3>1
    <3>3. r \in W \cup Chunking /\ finishing = {}
      BY <1>1
    <3>4. QED BY <1>3, <2>2, <3>1, <3>2, <3>3, InsertRows
  <2>3. QED BY <1>2, <2>1, <2>2
<1>5. QueueTypes' /\ SchedTypes'
  BY <1>1, <1>2, <1>4 DEF QueueTypes, SchedTypes
<1>6. StoreTypes' /\ LoopTypes' /\ ReaderTypes' /\ BufsTrue' /\ OutputsTrue'
  BY <1>1, <1>2 DEF StoreTypes, LoopTypes, ReaderTypes, BufsTrue, BufTrue, OutputsTrue, SaysTrue
<1>7. Flow' /\ JobsOwn' /\ Places' /\ ChunksQueued'
  BY <1>1, <1>2, <1>3, <1>4 DEF Flow, JobsOwn, Places, ChunksQueued, InScheduler
<1>8. Lengths'
  <2>1. \A x \in Request : Tokens[x] \in Nat /\ Tokens[x] > 0
    BY SchedulerAssumption
  <2>2. QED BY <1>1, <1>2, <1>4, <2>1 DEF Lengths
<1>9. Enters'
  <2>1. ASSUME NEW x \in Request, Fresh(x) PROVE Fresh(x)'
    <3>1. x # r
      BY <1>1, <2>1 DEF Fresh, Places, InScheduler
    <3>2. QED BY <1>2, <1>3, <1>4, <2>1, <3>1 DEF Fresh
  <2>2. QED BY <1>2, <2>1 DEF Enters, Entering
<1>10. Held'
  BY <1>1, <1>2, <1>4 DEF Held, Answered, InScheduler
<1>11. QED BY <1>4, <1>5, <1>6, <1>7, <1>8, <1>9, <1>10

\* A prefill finds itself aborted: the generator starts again at uid 0, and who
\* ran waits again.
LEMMA ScheduleAbortedKeeps ==
  ASSUME IInv, NEW back \in BOOLEAN, ScheduleAborted(back), UNCHANGED engineVars
  PROVE  IInv'
<1> USE DEF IInv
<1> DEFINE r == Head(waiting)
           mid == IF back THEN <<r>> ELSE <<>>
<1>1. /\ r \in W /\ r \in Request /\ Tail(waiting) \in Seq(Request) /\ IsInjective(Tail(waiting))
      /\ ToSet(Tail(waiting)) = W \ {r} /\ r \notin R \cup Chunking \cup P \cup rejects
      /\ finishing = {} /\ outs = {} /\ loop = "step" /\ ipc = "schedule" /\ P \subseteq Chunking
  BY TakeWaiting DEF ScheduleAborted, Takeable
<1>2. /\ r \in aborts /\ ipc' = "end" /\ rows' = NoRows /\ nextUid' = 0
      /\ waiting' = Reverse(running) \o mid \o Tail(waiting) /\ running' = <<>>
      /\ produced' = [x \in Request |-> IF x \in R THEN 0 ELSE produced[x]]
      /\ lost' = lost \cup rejects /\ rejects' = {}
      /\ uidOf' = [uidOf EXCEPT ![r] = IF back THEN @ ELSE TempUid]
      /\ UNCHANGED <<requests, prefilling, states, ridOf, aborts, storing, retries, length,
                     clearIn, todo, still, makeup, finishing, outs, faults>>
  BY DEF ScheduleAborted, PrefillAborted, Restarting, Dropped, R
<1>3. mid \in Seq(Request) /\ IsInjective(mid) /\ ToSet(mid) \subseteq {r}
  BY <1>1, EmptyQueue
<1> HIDE DEF r, mid
<1>4. waiting' \in Seq(Request) /\ IsInjective(waiting') /\ W' = R \cup ToSet(mid) \cup (W \ {r})
  <2>1. running \in Seq(Request) /\ IsInjective(running)
    BY DEF QueueTypes
  <2>2. Reverse(running) \in Seq(Request) /\ IsInjective(Reverse(running)) /\ ToSet(Reverse(running)) = R
    BY <2>1, ReverseQueue DEF R
  <2>3. R \cap ToSet(mid) = {} /\ (R \cup ToSet(mid)) \cap (W \ {r}) = {}
    BY <1>1, <1>3 DEF Places
  <2>4. /\ Reverse(running) \o mid \in Seq(Request) /\ IsInjective(Reverse(running) \o mid)
        /\ ToSet(Reverse(running) \o mid) = R \cup ToSet(mid)
    BY <1>3, <2>2, <2>3, ConcatQueue
  <2>5. ToSet(Reverse(running) \o mid) \cap ToSet(Tail(waiting)) = {}
    BY <1>1, <2>3, <2>4
  <2> DEFINE front == Reverse(running) \o mid
  <2>6. waiting' = front \o Tail(waiting)
    BY <1>2
  <2>9. /\ front \in Seq(Request) /\ IsInjective(front) /\ ToSet(front) = R \cup ToSet(mid)
        /\ ToSet(front) \cap ToSet(Tail(waiting)) = {}
    BY <2>4, <2>5
  <2> DEFINE rest == Tail(waiting)
  <2>10. rest \in Seq(Request) /\ IsInjective(rest) /\ ToSet(front) \cap ToSet(rest) = {}
    BY <1>1, <2>9
  <2> HIDE DEF front, rest
  <2>7. /\ front \o rest \in Seq(Request) /\ IsInjective(front \o rest)
        /\ ToSet(front \o rest) = ToSet(front) \cup ToSet(rest)
    BY <2>9, <2>10, ConcatQueue
  <2>8. QED BY <1>1, <2>6, <2>7, <2>9 DEF W, rest
<1>5. R' = {} /\ P' = P /\ T' = T /\ L' = L /\ Chunking' = Chunking
  BY <1>2, EmptyQueue DEF R, P, T, L, Chunking
<1>6. QueueTypes'
  BY <1>2, <1>4, EmptyQueue DEF QueueTypes
<1>7. SchedTypes'
  <2>1. rows' \in [DOMAIN rows' -> Request] /\ DOMAIN rows' \subseteq Nat
    BY <1>2 DEF NoRows
  <2>2. uidOf' \in [Request -> Nat \cup {NoUid, TempUid}]
    BY <1>1, <1>2 DEF SchedTypes
  <2>3. produced' \in [Request -> Nat]
    BY <1>2 DEF SchedTypes
  <2>4. QED BY <1>2, <2>1, <2>2, <2>3 DEF SchedTypes, Phases
<1>8. StoreTypes' /\ LoopTypes' /\ ReaderTypes' /\ BufsTrue' /\ OutputsTrue'
  BY <1>1, <1>2 DEF StoreTypes, LoopTypes, ReaderTypes, BufsTrue, BufTrue, OutputsTrue, SaysTrue
<1>9. Flow' /\ JobsOwn' /\ ChunksQueued'
  BY <1>1, <1>2, <1>5 DEF Flow, JobsOwn, ChunksQueued
<1>10. Places'
  BY <1>1, <1>2, <1>3, <1>4, <1>5 DEF Places, InScheduler
<1>11. Lengths'
  <2>1. \A x \in Request : Tokens[x] \in Nat /\ produced[x] \in Nat
    BY SchedulerAssumption DEF SchedTypes
  <2>2. \A x \in Request : produced'[x] = IF x \in R THEN 0 ELSE produced[x]
    BY <1>2
  <2>3. W' \subseteq Request /\ Chunking' \subseteq Request
    BY <1>4, NonEmptyQueue DEF W, Chunking
  <2>4. \A x \in W' \cup Chunking' : produced'[x] = 0 /\ length'[x] = 0
    BY <1>1, <1>2, <1>3, <1>4, <1>5, <2>2, <2>3 DEF Lengths
  <2>5. \A x \in Request : produced'[x] <= Tokens[x] /\ length'[x] <= Tokens[x]
    BY <1>2, <2>1, <2>2 DEF Lengths
  <2>6. QED BY <1>1, <1>2, <1>5, <2>4, <2>5 DEF Lengths
<1>12. Enters'
  BY <1>2, <1>5 DEF Enters, Entering, Fresh, RowsOf, NoRows
<1>13. RowsOwned'
  BY <1>1, <1>2, <1>5 DEF RowsOwned, NoRows
<1>14. Held'
  BY <1>1, <1>2, <1>4, <1>5 DEF Held, Answered, InScheduler
<1>15. QED BY <1>6, <1>7, <1>8, <1>9, <1>10, <1>11, <1>12, <1>13, <1>14

\* A prefill raises: the request it was for is in no queue any more.
LEMMA ScheduleRaisesKeeps ==
  ASSUME IInv, ScheduleRaises, UNCHANGED engineVars
  PROVE  IInv'
<1> DEFINE r == Head(waiting)
<1>1. /\ r \in W /\ r \in Request /\ Tail(waiting) \in Seq(Request) /\ IsInjective(Tail(waiting))
      /\ ToSet(Tail(waiting)) = W \ {r} /\ ipc = "schedule"
  BY TakeWaiting DEF ScheduleRaises, Takeable
<1>2. /\ faults' \in Nat
      /\ UNCHANGED <<prefilling, states, aborts, storing, length, todo, still, makeup, finishing>>
      /\ \/ Recover({r}, Tail(waiting))
         \/ /\ Raise({r})
            /\ waiting' = Tail(waiting)
            /\ UNCHANGED <<requests, running, batch, retries, produced, clearIn>>
  <2>1. faults \in Nat
    BY DEF IInv, SchedTypes
  <2>2. QED BY <2>1 DEF ScheduleRaises, Fault
<1> HIDE DEF r
<1>3. states' \in [Request -> Nat] /\ Chunking' = Chunking
  BY <1>2 DEF IInv, SchedTypes, Chunking
<1>4. CASE Recover({r}, Tail(waiting))
  <2>1. {r} \subseteq Request /\ ToSet(Tail(waiting)) \subseteq W /\ W \subseteq ToSet(Tail(waiting)) \cup {r}
    BY <1>1
  <2>2. QED BY <1>1, <1>2, <1>3, <1>4, <2>1, RecoverKeeps
<1>5. CASE /\ Raise({r}) /\ waiting' = Tail(waiting)
           /\ UNCHANGED <<requests, running, batch, retries, produced, clearIn>>
  <2>1. W' = W \ {r}
    BY <1>1, <1>5 DEF W
  <2>2. {r} \subseteq Request /\ W' \subseteq W /\ W \subseteq W' \cup {r}
    BY <1>1, <2>1
  <2>3. QED BY <1>1, <1>2, <1>3, <1>5, <2>2, RaiseKeeps
<1>6. QED BY <1>2, <1>4, <1>5

\* The scheduling phase is over; the rejections become outputs.
LEMMA ScheduleDoneKeeps ==
  ASSUME IInv, ScheduleDone, UNCHANGED engineVars
  PROVE  IInv'
<1> USE DEF IInv
<1>1. finishing = {} /\ outs = {} /\ loop = "step" /\ ipc = "schedule" /\ P \subseteq Chunking
  BY DEF ScheduleDone, Flow, ChunksQueued
<1>2. outs' = {Error(x) : x \in rejects} /\ rejects' = {} /\ ipc' \in {"decode", "end"}
  BY <1>1 DEF ScheduleDone
<1>3. W' = W /\ R' = R /\ P' = P /\ T' = T /\ L' = L /\ Chunking' = Chunking
  BY DEF ScheduleDone, W, R, P, T, L, Chunking
<1>4. \A x : Error(x).req = x /\ Error(x).token = 0 /\ Error(x).end = "error"
  BY DEF Error, Output
<1>5. QueueTypes' /\ StoreTypes' /\ LoopTypes' /\ ReaderTypes' /\ BufsTrue' /\ Lengths'
  BY <1>3 DEF ScheduleDone, QueueTypes, StoreTypes, LoopTypes, ReaderTypes, BufsTrue, BufTrue, Lengths
<1>6. SchedTypes'
  <2>1. outs' \subseteq OutputSet
    BY <1>2 DEF SchedTypes, Error, Output, OutputSet
  <2>2. QED BY <1>2, <2>1 DEF ScheduleDone, SchedTypes, Phases
<1>7. Flow' /\ JobsOwn' /\ Places' /\ ChunksQueued'
  BY <1>1, <1>2, <1>3 DEF ScheduleDone, Flow, JobsOwn, Places, ChunksQueued, InScheduler
<1>8. Enters'
  <2>1. ASSUME NEW x \in Request, Fresh(x) PROVE Fresh(x)'
    <3>1. \A o \in outs' : o.req # x
      BY <1>2, <1>4, <2>1 DEF Fresh
    <3>2. QED BY <1>2, <1>3, <2>1, <3>1 DEF ScheduleDone, Fresh, RowsOf
  <2>2. QED BY <2>1 DEF ScheduleDone, Enters, Entering
<1>9. RowsOwned'
  BY <1>3 DEF ScheduleDone, RowsOwned, RowsOf
<1>10. OutputsTrue'
  <2>1. rejects \subseteq Request /\ rejects \cap R = {} /\ \A x \in Request : Tokens[x] \in Nat
    BY SchedulerAssumption DEF SchedTypes, Places, InScheduler
  <2>2. \A o \in outs' : \E x \in rejects : o = Error(x)
    BY <1>2
  <2>3. \A o \in outs' : SaysTrue(o)' /\ o.end = "error" /\ o.req \notin R
    BY <1>4, <2>1, <2>2 DEF SaysTrue
  <2>4. \A o, p \in outs' : o.req = p.req => o = p
    BY <1>4, <2>2
  <2>5. given' = given /\ length' = length /\ finishing' = {}
    BY <1>1 DEF ScheduleDone
  <2>6. QED BY <1>3, <2>3, <2>4, <2>5 DEF OutputsTrue, SaysTrue
<1>11. Held'
  <2>1. \A x \in rejects : Error(x) \in outs' /\ Error(x).req = x /\ Error(x).end # "no"
    BY <1>2, <1>4
  <2>2. QED BY <1>1, <1>3, <2>1 DEF ScheduleDone, Held, Answered, InScheduler
<1>12. QED BY <1>5, <1>6, <1>7, <1>8, <1>9, <1>10, <1>11
------------------------------------------------------------------------------
\* One response per row, some of them the last: an output is true to what its
\* request has produced, and a finished request has a row and its output.
LEMMA DecodeKeeps ==
  ASSUME IInv, Decode, UNCHANGED engineVars
  PROVE  IInv'
<1> USE DEF IInv
<1>1. PICK done \in SUBSET Answering :
        /\ {x \in Answering : produced[x] + 1 >= Tokens[x]} \subseteq done
        /\ produced' = [x \in Request |-> produced[x] + (IF x \in Answering THEN 1 ELSE 0)]
        /\ length' = [x \in Request |-> IF x \in done THEN produced'[x] ELSE length[x]]
        /\ outs' = outs \cup {Output(x, produced'[x], IF x \in done THEN "finish" ELSE "no") :
                                x \in Answering}
        /\ finishing' = done
        /\ clearIn' = IF done = {} THEN clearIn ELSE ClearDelay
  BY DEF Decode
<1>2. /\ ipc = "decode" /\ ipc' = IF done = {} THEN "end" ELSE "cleanup"
      /\ UNCHANGED <<queues, batch, aborts, storing, retries, todo, still, makeup, rejects,
                     faults, lost>>
  BY <1>1 DEF Decode, CleanupOr
<1>3. finishing = {} /\ rejects = {} /\ given = {} /\ loop = "step"
  BY <1>2 DEF Flow
<1>4. /\ R \subseteq Request /\ Answering \subseteq R /\ done \subseteq Answering
      /\ \A x \in Answering : RowsOf(x) # {}
  <2>1. R \subseteq Request
    BY NonEmptyQueue DEF R, QueueTypes
  <2>2. Answering \subseteq R
    BY DEF Answering, R
  <2>3. ASSUME NEW x \in Answering PROVE RowsOf(x) # {}
    <3>1. PICK u \in DOMAIN rows : x = ridOf[u]
      BY <2>3 DEF Answering
    <3>2. QED BY <3>1 DEF RowsOf, RowsOwned
  <2>4. QED BY <1>1, <2>1, <2>2, <2>3
<1>5. \A x \in Request : /\ Tokens[x] \in Nat /\ produced[x] \in Nat /\ length[x] \in Nat
                         /\ produced[x] <= Tokens[x] /\ length[x] <= Tokens[x]
  BY SchedulerAssumption DEF SchedTypes, Lengths
<1>6. \A x \in Request :
        /\ x \notin Answering => produced'[x] = produced[x]
        /\ x \in Answering => /\ produced'[x] = produced[x] + 1 /\ produced'[x] <= Tokens[x]
                              /\ length[x] = 0
        /\ x \in Answering \ done => produced'[x] < Tokens[x]
        /\ x \in done => length'[x] = produced'[x] /\ length'[x] > 0
        /\ x \notin done => length'[x] = length[x]
        /\ produced'[x] \in Nat /\ length'[x] \in Nat /\ length'[x] <= Tokens[x]
        /\ produced'[x] <= Tokens[x]
  <2>1. ASSUME NEW x \in Request
        PROVE  /\ produced'[x] = produced[x] + (IF x \in Answering THEN 1 ELSE 0)
               /\ length'[x] = IF x \in done THEN produced'[x] ELSE length[x]
    BY <1>1
  <2>2. \A x \in Answering : produced[x] < Tokens[x] /\ length[x] = 0
    BY <1>3, <1>4 DEF Lengths
  <2>3. \A x \in Answering \ done : ~ (produced[x] + 1 >= Tokens[x])
    BY <1>1
  <2>4. QED BY <1>4, <1>5, <2>1, <2>2, <2>3
<1>7. W' = W /\ R' = R /\ P' = P /\ T' = T /\ L' = L /\ Chunking' = Chunking
  BY <1>2 DEF W, R, P, T, L, Chunking
<1> HIDE DEF Answering
<1> DEFINE Out(x) == Output(x, produced'[x], IF x \in done THEN "finish" ELSE "no")
<1>8. /\ \A x \in Answering : /\ Out(x) \in OutputSet /\ Out(x).req = x /\ Out(x).token = produced'[x]
                              /\ Out(x).end = IF x \in done THEN "finish" ELSE "no"
                              /\ Out(x) \in outs'
      /\ \A o \in outs' : o \in outs \/ \E x \in Answering : o = Out(x)
      /\ outs \subseteq outs'
  BY <1>1, <1>4, <1>6 DEF Output, OutputSet
<1> HIDE DEF Out
<1>9. QueueTypes' /\ StoreTypes' /\ LoopTypes' /\ ReaderTypes'
  BY <1>2 DEF QueueTypes, StoreTypes, LoopTypes, ReaderTypes
<1>10. SchedTypes'
  <2>1. produced' \in [Request -> Nat] /\ length' \in [Request -> Nat]
    BY <1>1, <1>6
  <2>2. \A o \in outs' : o \in OutputSet
    BY <1>8 DEF SchedTypes
  <2>4. finishing' \subseteq Request
    BY <1>1, <1>4
  <2>5. clearIn' \in Nat
    BY <1>1, SchedulerAssumption DEF SchedTypes
  <2>3. QED BY <1>2, <2>1, <2>2, <2>4, <2>5 DEF SchedTypes, Phases
<1>11. Flow' /\ JobsOwn' /\ Places' /\ ChunksQueued'
  BY <1>1, <1>2, <1>3, <1>4, <1>7 DEF Flow, JobsOwn, Places, ChunksQueued, InScheduler
<1>12. Lengths'
  <2>1. \A x \in W \cup Chunking : x \in Request /\ x \notin Answering /\ x \notin done
    BY <1>4, NonEmptyQueue DEF Places, W, Chunking, QueueTypes
  <2>2. \A x \in W' \cup Chunking' : produced'[x] = 0 /\ length'[x] = 0
    BY <1>6, <1>7, <2>1 DEF Lengths
  <2>3. \A x \in R' \ finishing' : produced'[x] < Tokens[x] /\ length'[x] = 0
    BY <1>1, <1>3, <1>4, <1>6, <1>7 DEF Lengths
  <2>4. \A x \in Request : length[x] > 0 => length'[x] > 0 /\ x \notin done
    BY <1>4, <1>6
  <2>7. ToSet(stores) \cup stored \subseteq Request
    BY NonEmptyQueue DEF StoreTypes
  <2>8. \A e \in ToSet(removes) : e \in [uid : Nat, req : Request]
    BY NonEmptyQueue DEF StoreTypes
  <2>9. \A i \in DOMAIN removes : removes[i].req \in Request
    BY <2>8 DEF ToSet
  <2>5. ToSet(stores) \cup stored \subseteq Request /\ \A i \in DOMAIN removes : removes[i].req \in Request
    BY <2>7, <2>9
  <2>6. QED BY <1>1, <1>2, <1>4, <1>6, <2>2, <2>3, <2>4, <2>5 DEF Lengths
<1>13. Enters'
  <2>1. ASSUME NEW x \in Request, Fresh(x) PROVE Fresh(x)'
    <3>1. x \notin Answering /\ x \notin done
      BY <1>4, <2>1 DEF Fresh, Places, InScheduler
    <3>2. \A o \in outs' : o.req # x
      BY <1>8, <2>1, <3>1 DEF Fresh
    <3>3. produced'[x] = 0 /\ length'[x] = 0
      BY <1>6, <2>1, <3>1 DEF Fresh
    <3>4. QED BY <1>2, <1>7, <2>1, <3>2, <3>3 DEF Fresh, RowsOf
  <2>2. QED BY <1>2, <2>1 DEF Enters, Entering
<1>14. RowsOwned'
  BY <1>1, <1>2, <1>4, <1>7 DEF RowsOwned, RowsOf
<1>15. OutputsTrue'
  <2>1. \A o \in outs : o.end = "error" /\ o.token = 0 /\ o.req \notin R /\ o.req \in Request
    BY <1>2 DEF OutputsTrue, SaysTrue, SchedTypes, OutputSet
  <2>2. \A o, p \in outs' : o.req = p.req => o = p
    BY <1>4, <1>8, <2>1 DEF OutputsTrue
  <2>3. ASSUME NEW o \in outs' PROVE SaysTrue(o)'
    <3>1. CASE o \in outs
      BY <1>5, <2>1, <3>1 DEF SaysTrue
    <3>2. ASSUME NEW x \in Answering, o = Out(x) PROVE SaysTrue(o)'
      BY <1>4, <1>5, <1>6, <1>8, <3>2 DEF SaysTrue
    <3>3. QED BY <1>8, <3>1, <3>2
  <2>4. \A x \in finishing' : \E o \in outs' : o.req = x /\ o.end = "finish"
    BY <1>1, <1>8
  <2>5. given' = {} /\ ipc' # "decode"
    BY <1>2, <1>3
  <2>6. QED BY <2>2, <2>3, <2>4, <2>5 DEF OutputsTrue
<1>16. BufsTrue'
  <2>1. \A x \in Request : length[x] > 0 => length'[x] = length[x]
    BY <1>4, <1>6
  <2>2. QED BY <1>5, <2>1 DEF BufsTrue, BufTrue
<1>17. Held'
  BY <1>2, <1>3, <1>7, <1>8 DEF Held, Answered, InScheduler
<1>18. QED BY <1>9, <1>10, <1>11, <1>12, <1>13, <1>14, <1>15, <1>16, <1>17

\* Decoding raises.
LEMMA DecodeRaisesKeeps ==
  ASSUME IInv, DecodeRaises, UNCHANGED engineVars
  PROVE  IInv'
<1>1. /\ ipc = "decode" /\ faults' \in Nat
      /\ UNCHANGED <<prefilling, states, aborts, storing, length, todo, still, makeup, finishing>>
      /\ \/ Recover({}, waiting)
         \/ /\ Raise({})
            /\ UNCHANGED <<requests, waiting, running, batch, retries, produced, clearIn>>
  <2>1. faults \in Nat
    BY DEF IInv, SchedTypes
  <2>2. QED BY <2>1 DEF DecodeRaises, Fault
<1>2. /\ states' \in [Request -> Nat] /\ Chunking' = Chunking
      /\ waiting \in Seq(Request) /\ IsInjective(waiting) /\ ToSet(waiting) = W
  BY <1>1 DEF IInv, SchedTypes, QueueTypes, Chunking, W
<1>3. CASE Recover({}, waiting)
  BY <1>1, <1>2, <1>3, RecoverKeeps
<1>4. CASE Raise({}) /\ UNCHANGED <<requests, waiting, running, batch, retries, produced, clearIn>>
  <2>1. W' = W
    BY <1>4 DEF W
  <2>2. QED BY <1>1, <1>2, <1>4, <2>1, RaiseKeeps
<1>5. QED BY <1>1, <1>3, <1>4

\* A finished request that runs has the row of its uid, and its output.
LEMMA FinishingRow ==
  ASSUME IInv, NEW r \in finishing
  PROVE  /\ r \in Request /\ r \in R /\ uidOf[r] \in DOMAIN rows /\ rows[uidOf[r]] = r
         /\ uidOf[r] \in Nat /\ RowsOf(r) = {uidOf[r]}
         /\ \E o \in outs : o.req = r /\ o.end = "finish"
         /\ ipc = "cleanup" /\ loop = "step" /\ rejects = {} /\ given = {} /\ length[r] > 0
         /\ r \notin W /\ r \notin Chunking
<1> USE DEF IInv
<1>1. r \in Request /\ r \in R /\ RowsOf(r) # {} /\ length[r] > 0 /\ r \notin W /\ r \notin Chunking
  BY DEF SchedTypes, Places, RowsOwned, Lengths
<1>2. \A u \in RowsOf(r) : u \in DOMAIN rows /\ rows[u] = r /\ uidOf[r] = u
  BY <1>1 DEF RowsOf, RowsOwned
<1>3. uidOf[r] \in DOMAIN rows /\ rows[uidOf[r]] = r /\ RowsOf(r) = {uidOf[r]}
  BY <1>1, <1>2
<1>4. ipc = "cleanup" /\ loop = "step" /\ rejects = {} /\ given = {}
  BY DEF Flow
<1>5. QED BY <1>1, <1>3, <1>4 DEF OutputsTrue, SchedTypes

\* A finished request goes to the store worker, within the gate.
LEMMA CleanupStoreKeeps ==
  ASSUME IInv, NEW r \in Request, CleanupStore(r), UNCHANGED engineVars
  PROVE  IInv'
<1> USE DEF IInv
<1> DEFINE e == [uid |-> uidOf[r], req |-> r]
<1>1. /\ ipc = "cleanup" /\ r \in finishing /\ inFlight < cap
      /\ inFlight' = inFlight + 1 /\ stores' = Append(stores, r) /\ removes' = Append(removes, e)
      /\ running' = Drop(running, r) /\ finishing' = finishing \ {r}
      /\ ipc' = IF finishing' = {} THEN "end" ELSE "cleanup"
      /\ UNCHANGED <<requests, waiting, prefilling, states, batch, aborts, stored, cap, progress,
                     clearIn, todo, still, makeup, rejects, outs, faults, lost>>
  BY DEF CleanupStore, CleanupOr
<1>2. /\ r \in R /\ uidOf[r] \in Nat /\ loop = "step" /\ rejects = {} /\ given = {} /\ length[r] > 0
      /\ \E o \in outs : o.req = r /\ o.end = "finish"
  BY <1>1, FinishingRow
<1>3. e \in [uid : Nat, req : Request] /\ e.req = r
  BY <1>2
<1> HIDE DEF e
<1>4. running' \in Seq(Request) /\ IsInjective(running') /\ R' = R \ {r}
  BY <1>1, DropQueue DEF QueueTypes, R
<1>5. W' = W /\ P' = P /\ T' = T /\ L' = L /\ Chunking' = Chunking
  BY <1>1 DEF W, P, T, L, Chunking
<1>6. /\ stores \in Seq(Request) /\ stores' \in Seq(Request) /\ ToSet(stores') = ToSet(stores) \cup {r}
      /\ Len(stores') = Len(stores) + 1 /\ IsInjective(stores')
  BY <1>1, AppendQueue DEF StoreTypes, Lengths
<1>7. /\ removes' \in Seq([uid : Nat, req : Request])
      /\ ToSet(removes') = ToSet(removes) \cup {e}
  <2> DEFINE Entry == [uid : Nat, req : Request]
  <2>1. removes \in Seq(Entry) /\ e \in Entry
    BY <1>3 DEF StoreTypes
  <2> HIDE DEF Entry
  <2>2. Append(removes, e) \in Seq(Entry) /\ ToSet(Append(removes, e)) = ToSet(removes) \cup {e}
    BY <2>1, AppendQueue
  <2>3. QED BY <1>1, <2>2 DEF Entry
<1>8. StoreTypes'
  <2>1. /\ Len(stores) \in Nat /\ MaxSeqs \in Nat /\ cap \in Nat /\ cap <= MaxSeqs
        /\ inFlight = Len(stores)
    BY <1>6, LenProperties, SchedulerAssumption DEF StoreTypes
  <2>2. inFlight' = Len(stores') /\ inFlight' <= MaxSeqs
    BY <1>1, <1>6, <2>1
  <2>3. QED BY <1>1, <1>6, <1>7, <2>2 DEF StoreTypes
<1>9. QueueTypes' /\ LoopTypes' /\ ReaderTypes' /\ BufsTrue'
  BY <1>1, <1>4 DEF QueueTypes, LoopTypes, ReaderTypes, BufsTrue, BufTrue
<1>10. SchedTypes'
  BY <1>1 DEF SchedTypes, Phases
<1>11. Flow' /\ JobsOwn' /\ Places' /\ ChunksQueued'
  BY <1>1, <1>2, <1>4, <1>5 DEF Flow, JobsOwn, Places, ChunksQueued, InScheduler
<1>12. Lengths'
  <2>1. \A x \in ToSet(removes) : length[x.req] > 0
    BY DEF Lengths, ToSet
  <2>2. \A i \in DOMAIN removes' : removes'[i] \in ToSet(removes')
    BY DEF ToSet
  <2>3. \A i \in DOMAIN removes' : length[removes'[i].req] > 0
    BY <1>2, <1>3, <1>7, <2>1, <2>2
  <2>4. length' = length /\ produced' = produced /\ stored' = stored
    BY <1>1
  <2>5. finishing' \cap ToSet(stores') = {}
    BY <1>1, <1>6 DEF Lengths
  <2>6. R' \ finishing' = R \ finishing
    BY <1>1, <1>4
  <2>7. QED BY <1>1, <1>2, <1>5, <1>6, <2>3, <2>4, <2>5, <2>6 DEF Lengths
<1>13. Enters'
  BY <1>1, <1>5 DEF Enters, Entering, Fresh, RowsOf
<1>14. RowsOwned' /\ OutputsTrue'
  BY <1>1, <1>2, <1>4, <1>5 DEF RowsOwned, RowsOf, OutputsTrue, SaysTrue
<1>15. Held'
  BY <1>1, <1>2, <1>4, <1>5 DEF Held, Answered, InScheduler
<1>16. QED BY <1>8, <1>9, <1>10, <1>11, <1>12, <1>13, <1>14, <1>15

\* A finished request with nothing to store is removed: the row it takes is its
\* own, as a finished request still runs under the uid it has.
LEMMA CleanupNowKeeps ==
  ASSUME IInv, NEW r \in Request, CleanupNow(r), UNCHANGED engineVars
  PROVE  IInv'
<1> USE DEF IInv
<1> DEFINE v == uidOf[r]
<1>1. /\ ipc = "cleanup" /\ r \in finishing
      /\ rows' = WithoutRows({v}) /\ ridOf' = Unmapped(v) /\ uidOf' = [uidOf EXCEPT ![r] = NoUid]
      /\ requests' = requests \ {r}
      /\ running' = Drop(running, r) /\ finishing' = finishing \ {r}
      /\ ipc' = IF finishing' = {} THEN "end" ELSE "cleanup"
      /\ UNCHANGED <<waiting, prefilling, states, nextUid, aborts, storing, progress, clearIn,
                     todo, still, makeup, rejects, outs, faults, lost>>
  BY DEF CleanupNow, CleanupOr
<1>2. /\ r \in R /\ rows[v] = r /\ RowsOf(r) = {v} /\ loop = "step" /\ rejects = {} /\ given = {}
      /\ \E o \in outs : o.req = r /\ o.end = "finish"
      /\ r \notin W /\ r \notin Chunking /\ v \in Nat
  BY <1>1, FinishingRow
<1> HIDE DEF v
<1>3. running' \in Seq(Request) /\ IsInjective(running') /\ R' = R \ {r} /\ R \subseteq Request
  BY <1>1, DropQueue, NonEmptyQueue DEF QueueTypes, R
<1>4. W' = W /\ P' = P /\ T' = T /\ L' = L /\ Chunking' = Chunking
  BY <1>1 DEF W, P, T, L, Chunking
<1>5. /\ \A u \in DOMAIN rows' : /\ u \in DOMAIN rows /\ rows'[u] = rows[u] /\ u # v
                                 /\ u \in DOMAIN ridOf' /\ ridOf'[u] = ridOf[u]
      /\ \A u \in DOMAIN rows : rows[u] # r => u \in DOMAIN rows' /\ rows'[u] = rows[u]
      /\ \A x \in Request \ {r} : uidOf'[x] = uidOf[x]
  BY <1>1, <1>2 DEF WithoutRows, Unmapped, RowsOwned, SchedTypes
<1>6. \A x \in Request \ {r} : RowsOf(x)' = RowsOf(x)
  BY <1>5 DEF RowsOf
<1>7. QueueTypes' /\ StoreTypes' /\ LoopTypes' /\ ReaderTypes' /\ BufsTrue'
  BY <1>1, <1>3 DEF QueueTypes, StoreTypes, LoopTypes, ReaderTypes, BufsTrue, BufTrue
<1>8. SchedTypes'
  <2>1. rows' \in [DOMAIN rows' -> Request] /\ DOMAIN rows' \subseteq Nat
    BY <1>1 DEF SchedTypes, WithoutRows
  <2>2. ridOf' \in [DOMAIN ridOf' -> Request] /\ DOMAIN ridOf' \subseteq Nat
    BY <1>1 DEF SchedTypes, Unmapped
  <2>3. uidOf' \in [Request -> Nat \cup {NoUid, TempUid}]
    BY <1>1 DEF SchedTypes
  <2>4. QED BY <1>1, <2>1, <2>2, <2>3 DEF SchedTypes, Phases
<1>9. Flow' /\ JobsOwn' /\ Places' /\ ChunksQueued' /\ Lengths'
  BY <1>1, <1>2, <1>3, <1>4 DEF Flow, JobsOwn, Places, ChunksQueued, InScheduler, Lengths
<1>10. Enters'
  <2>1. ASSUME NEW x \in Request, Fresh(x) PROVE Fresh(x)'
    <3>1. x # r
      BY <1>2, <2>1 DEF Fresh
    <3>2. QED BY <1>1, <1>4, <1>6, <2>1, <3>1 DEF Fresh
  <2>2. QED BY <1>1, <2>1 DEF Enters, Entering
<1>11. RowsOwned'
  <2>1. \A x \in R' : RowsOf(x)' = RowsOf(x) /\ x \in R
    BY <1>3, <1>6
  <2>2. \A u \in DOMAIN rows' : rows'[u] \in R' => uidOf'[rows'[u]] = u
    BY <1>3, <1>5 DEF RowsOwned
  <2>3. finishing' \subseteq R'
    BY <1>1, <1>3 DEF Places
  <2>4. \A x \in R' : RowsOf(x)' # {} \/ x \in lost'
    BY <1>1, <2>1 DEF RowsOwned
  <2>5. ASSUME NEW x \in finishing' PROVE RowsOf(x)' # {}
    <3>1. x \in finishing /\ RowsOf(x)' = RowsOf(x)
      BY <1>1, <2>1, <2>3
    <3>2. QED BY <3>1 DEF RowsOwned
  <2>6. \A u \in DOMAIN rows' :
          /\ u < nextUid' /\ u \in DOMAIN ridOf' /\ ridOf'[u] = rows'[u]
          /\ rows'[u] \notin W' \cup Chunking'
    BY <1>1, <1>4, <1>5 DEF RowsOwned
  <2>7. QED BY <2>2, <2>4, <2>5, <2>6 DEF RowsOwned
<1>12. OutputsTrue'
  BY <1>1, <1>3 DEF OutputsTrue, SaysTrue
<1>13. Held'
  BY <1>1, <1>2, <1>3, <1>4 DEF Held, Answered, InScheduler
<1>14. QED BY <1>7, <1>8, <1>9, <1>10, <1>11, <1>12, <1>13

\* The store worker is done with a request.
LEMMA StoreDoneKeeps ==
  ASSUME IInv, StoreDone, UNCHANGED engineVars
  PROVE  IInv'
<1> USE DEF IInv
<1>1. /\ stores # <<>> /\ stores \in Seq(Request) /\ stores' = Tail(stores) /\ inFlight' = inFlight - 1
      /\ stored' = stored \cup {Head(stores)}
      /\ UNCHANGED <<queues, batch, aborts, removes, cap, progress, clearIn, phase, faults, lost>>
  BY DEF StoreDone, StoreTypes
<1>2. /\ stores' \in Seq(Request) /\ Len(stores') = Len(stores) - 1 /\ IsInjective(stores')
      /\ ToSet(stores) = ToSet(stores') \cup {Head(stores)} /\ Head(stores) \in Request
      /\ Len(stores) \in Nat
  BY <1>1, TailQueue, NonEmptyQueue, LenProperties DEF StoreTypes
<1>3. W' = W /\ R' = R /\ P' = P /\ T' = T /\ L' = L /\ Chunking' = Chunking
  BY <1>1 DEF W, R, P, T, L, Chunking
<1>4. StoreTypes'
  BY <1>1, <1>2, SchedulerAssumption DEF StoreTypes
<1>5. QueueTypes' /\ SchedTypes' /\ LoopTypes' /\ ReaderTypes' /\ BufsTrue'
  BY <1>1 DEF QueueTypes, SchedTypes, LoopTypes, ReaderTypes, BufsTrue, BufTrue
<1>6. Flow' /\ JobsOwn' /\ Places' /\ ChunksQueued' /\ Lengths'
  BY <1>1, <1>2, <1>3 DEF Flow, JobsOwn, Places, ChunksQueued, InScheduler, Lengths
<1>7. Enters' /\ RowsOwned' /\ OutputsTrue' /\ Held'
  BY <1>1, <1>3
  DEF Enters, Entering, Fresh, RowsOf, RowsOwned, OutputsTrue, SaysTrue, Held, Answered, InScheduler
<1>8. QED BY <1>4, <1>5, <1>6, <1>7
------------------------------------------------------------------------------
\* What the engine's own steps leave alone.
LEMMA SchedulerSame ==
  ASSUME IInv, aborts' \subseteq Request, ipc' \in Phases, outs' \subseteq OutputSet, clearIn' \in Nat,
         UNCHANGED <<queues, batch, storing, progress, todo, still, makeup, finishing, rejects,
                     faults, lost>>
  PROVE  /\ QueueTypes' /\ SchedTypes' /\ StoreTypes' /\ Places' /\ Lengths' /\ RowsOwned'
         /\ W' = W /\ P' = P /\ R' = R /\ T' = T /\ L' = L /\ Chunking' = Chunking
         /\ InScheduler' = InScheduler /\ \A x : RowsOf(x)' = RowsOf(x)
<1> USE DEF IInv
<1>1. W' = W /\ P' = P /\ R' = R /\ T' = T /\ L' = L /\ Chunking' = Chunking
  BY DEF W, P, R, T, L, Chunking
<1>2. \A x : RowsOf(x)' = RowsOf(x)
  BY DEF RowsOf
<1>3. QueueTypes' /\ SchedTypes' /\ StoreTypes'
  BY DEF QueueTypes, SchedTypes, StoreTypes
<1>4. InScheduler' = InScheduler
  BY <1>1 DEF InScheduler
<1>5. Places' /\ Lengths'
  BY <1>1, <1>4 DEF Places, Lengths
<1>6. RowsOwned'
  BY <1>1, <1>2 DEF RowsOwned
<1>7. QED BY <1>1, <1>2, <1>3, <1>4, <1>5, <1>6

\* The enforcer moves the cap of the store gate.
LEMMA CapAdjustedKeeps ==
  ASSUME IInv, CapAdjusted
  PROVE  IInv'
<1> USE DEF IInv
<1>1. PICK n \in Caps : AdjustCap(n)
  BY DEF CapAdjusted
<1>2. /\ cap' = n /\ n \in 1 .. MaxSeqs /\ events' = events + 1
      /\ UNCHANGED <<queues, batch, aborts, removes, stores, stored, inFlight, progress, clearIn,
                     phase, faults, lost, loopVars, readers>>
  BY <1>1, EngineAssumption DEF CapAdjusted, AdjustCap
<1>3. W' = W /\ P' = P /\ R' = R /\ T' = T /\ L' = L /\ Chunking' = Chunking
  BY <1>2 DEF W, P, R, T, L, Chunking
<1>4. QueueTypes' /\ SchedTypes' /\ StoreTypes' /\ LoopTypes'
  BY <1>2 DEF QueueTypes, SchedTypes, StoreTypes, LoopTypes
<1>5. ReaderTypes' /\ BufsTrue'
  BY <1>2 DEF CapAdjusted, ReaderTypes, BufsTrue, BufTrue
<1>6. Flow' /\ JobsOwn' /\ Places' /\ ChunksQueued' /\ Lengths'
  BY <1>2, <1>3 DEF Flow, JobsOwn, Places, ChunksQueued, InScheduler, Lengths
<1>7. Enters' /\ RowsOwned' /\ OutputsTrue' /\ Held'
  BY <1>2, <1>3
  DEF Enters, Entering, Fresh, RowsOf, RowsOwned, OutputsTrue, SaysTrue, Held, Answered, InScheduler
<1>8. QED BY <1>4, <1>5, <1>6, <1>7

\* A collector that is cleaned up holds nothing.
LEMMA ForgetBuf ==
  ASSUME IInv, NEW r \in Request, Forget(r), UNCHANGED length,
         upto' \in [Request -> Nat], \A x \in Request : upto'[x] <= Tokens[x]
  PROVE  /\ BufsTrue' /\ buf' \in [Request -> Buffer] /\ signalled' \subseteq Request
         /\ collected' = collected \ {r} /\ \A x \in Request \ {r} : buf'[x] = buf[x]
<1> USE DEF IInv
<1>1. NoBuf \in Buffer
  BY DEF NoBuf, Buffer
<1>2. /\ buf' = [buf EXCEPT ![r] = NoBuf] /\ collected' = collected \ {r}
      /\ signalled' = signalled \ {r} /\ buf \in [Request -> Buffer] /\ signalled \subseteq Request
  BY DEF Forget, ReaderTypes
<1>3. buf' \in [Request -> Buffer] /\ buf'[r] = NoBuf /\ \A x \in Request \ {r} : buf'[x] = buf[x]
  BY <1>1, <1>2
<1>4. BufTrue(r)'
  BY <1>2, <1>3 DEF BufTrue, NoBuf
<1>5. ASSUME NEW x \in Request \ {r} PROVE BufTrue(x)'
  <2>1. BufTrue(x) /\ buf'[x] = buf[x]
    BY <1>3 DEF BufsTrue
  <2>2. (x \in collected' <=> x \in collected) /\ (x \in signalled' <=> x \in signalled)
    BY <1>2
  <2>3. QED BY <2>1, <2>2 DEF BufTrue
<1>6. QED BY <1>2, <1>3, <1>4, <1>5 DEF BufsTrue

\* A client comes: its collector is there before the scheduler knows of it.
LEMMA AddRequestKeeps ==
  ASSUME IInv, NEW r \in Request, AddRequest(r)
  PROVE  IInv'
<1> USE DEF IInv
<1> DEFINE e == [op |-> "add", req |-> r]
<1>1. /\ consumer[r] = "none" /\ consumer' = [consumer EXCEPT ![r] = "adding"]
      /\ collected' = collected \cup {r} /\ jobs' = Append(jobs, e)
      /\ UNCHANGED <<schedVars, adding, loop, given, buf, signalled, upto, events>>
  BY DEF AddRequest
<1>2. e \in Job /\ e.op = "add" /\ e.req = r /\ r # NoReq
  BY SchedulerAssumption DEF Job
<1> HIDE DEF e
<1>3. PICK n : /\ n \notin DOMAIN jobs /\ DOMAIN jobs' = DOMAIN jobs \cup {n} /\ jobs'[n] = e
               /\ \A i \in DOMAIN jobs : jobs'[i] = jobs[i]
  BY <1>1, <1>2, AppendItems DEF LoopTypes
<1>4. /\ QueueTypes' /\ SchedTypes' /\ StoreTypes' /\ Places' /\ Lengths' /\ RowsOwned'
      /\ W' = W /\ P' = P /\ R' = R /\ T' = T /\ L' = L /\ Chunking' = Chunking
      /\ InScheduler' = InScheduler /\ \A x : RowsOf(x)' = RowsOf(x)
  BY <1>1, SchedulerSame DEF SchedTypes
<1>5. LoopTypes'
  BY <1>1, <1>2, AppendQueue DEF LoopTypes
<1>6. /\ \A i \in DOMAIN jobs : jobs[i].req # r
      /\ adding # r /\ r \notin aborts /\ Fresh(r)
  BY <1>1 DEF Enters, Entering
<1>7. Flow' /\ JobsOwn'
  BY <1>1, <1>2, <1>3, <1>6 DEF Flow, JobsOwn
<1>8. ChunksQueued' /\ OutputsTrue'
  BY <1>1, <1>4 DEF ChunksQueued, OutputsTrue, SaysTrue
<1>9. ReaderTypes'
  BY <1>1 DEF ReaderTypes
<1>10. Enters'
  <2>1. \A x \in Request : Fresh(x) => Fresh(x)'
    BY <1>1, <1>4 DEF Fresh
  <2>2. \A x \in Request : consumer'[x] = IF x = r THEN "adding" ELSE consumer[x]
    BY <1>1 DEF ReaderTypes
  <2>3. \A x \in Request : Entering(x)' => x = r \/ Entering(x)
    BY <1>1, <1>2, <1>3, <2>2 DEF Entering
  <2>4. \A x \in Request : consumer'[x] = "none" =>
          /\ adding' # x /\ x \notin aborts' /\ \A i \in DOMAIN jobs' : jobs'[i].req # x
    BY <1>1, <1>2, <1>3, <2>2 DEF Enters
  <2>5. \A i \in DOMAIN jobs' : jobs'[i].op = "add" => adding' # jobs'[i].req
    BY <1>1, <1>2, <1>3, <1>6 DEF Enters
  <2>6. QED BY <1>6, <2>1, <2>3, <2>4, <2>5 DEF Enters
<1>11. BufsTrue'
  <2>1. ASSUME NEW x \in Request PROVE BufTrue(x)'
    BY <1>1 DEF BufsTrue, BufTrue
  <2>2. QED BY <2>1 DEF BufsTrue
<1>12. Held'
  BY <1>1, <1>4, <1>6 DEF ReaderTypes, Held, Answered
<1>13. QED BY <1>4, <1>5, <1>7, <1>8, <1>9, <1>10, <1>11, <1>12

\* The job of an add_request begins.
LEMMA AddBeginsKeeps ==
  ASSUME IInv, AddBegins
  PROVE  IInv'
<1> USE DEF IInv
<1>1. /\ ipc = "free" /\ jobs # <<>> /\ Head(jobs).op = "add" /\ ipc' = "adding"
      /\ adding' = Head(jobs).req /\ jobs' = Tail(jobs)
      /\ UNCHANGED <<queues, batch, aborts, storing, progress, clearIn, todo, still, makeup,
                     finishing, rejects, outs, faults, lost, loop, given, readers, events>>
  BY DEF AddBegins
<1>2. /\ jobs' \in Seq(Job) /\ 1 \in DOMAIN jobs /\ jobs[1] = Head(jobs)
      /\ \A i \in DOMAIN jobs' : i + 1 \in DOMAIN jobs /\ i + 1 # 1 /\ jobs'[i] = jobs[i + 1]
      /\ \A i, j \in DOMAIN jobs' : i + 1 = j + 1 => i = j
  BY <1>1, TailItems DEF LoopTypes
<1>3. jobs[1].op = "add" /\ adding' = jobs[1].req /\ adding' \in Request /\ adding' # NoReq
  <2>1. jobs[1].op = "add" /\ adding' = jobs[1].req
    BY <1>1, <1>2
  <2>2. jobs[1].req \in Request
    BY <1>2, <2>1 DEF JobsOwn
  <2>3. NoReq \notin Request
    BY SchedulerAssumption
  <2>4. QED BY <2>1, <2>2, <2>3
<1>4. /\ QueueTypes' /\ SchedTypes' /\ StoreTypes' /\ Places' /\ Lengths' /\ RowsOwned'
      /\ W' = W /\ P' = P /\ R' = R /\ T' = T /\ L' = L /\ Chunking' = Chunking
      /\ InScheduler' = InScheduler /\ \A x : RowsOf(x)' = RowsOf(x)
  BY <1>1, SchedulerSame DEF SchedTypes, Phases
<1>5. LoopTypes' /\ ReaderTypes' /\ BufsTrue'
  BY <1>1, <1>2, <1>3 DEF LoopTypes, ReaderTypes, BufsTrue, BufTrue
<1>6. Flow'
  BY <1>1, <1>3 DEF Flow
<1>7. JobsOwn'
  BY <1>1, <1>2 DEF JobsOwn
<1>8. ChunksQueued' /\ OutputsTrue' /\ Held'
  BY <1>1, <1>4 DEF ChunksQueued, OutputsTrue, SaysTrue, Held, Answered
<1>9. Enters'
  <2>1. \A x \in Request : Fresh(x) => Fresh(x)'
    BY <1>1, <1>4 DEF Fresh
  <2>2. \A x \in Request : Entering(x)' => Entering(x)
    BY <1>1, <1>2, <1>3 DEF Entering
  <2>3. \A x \in Request : consumer'[x] = "none" =>
          /\ adding' # x /\ x \notin aborts' /\ \A i \in DOMAIN jobs' : jobs'[i].req # x
    BY <1>1, <1>2, <1>3 DEF Enters
  <2>4. \A i \in DOMAIN jobs' : jobs'[i].op = "add" => adding' # jobs'[i].req
    BY <1>2, <1>3 DEF JobsOwn
  <2>5. QED BY <2>1, <2>2, <2>3, <2>4 DEF Enters
<1>10. QED BY <1>4, <1>5, <1>6, <1>7, <1>8, <1>9

\* The request of add_request enters.
LEMMA AddEndsKeeps ==
  ASSUME IInv, AddEnds
  PROVE  IInv'
<1> USE DEF IInv
<1> DEFINE r == adding
<1>1. /\ ipc = "adding" /\ ipc' = "free" /\ adding' = NoReq
      /\ requests' = requests \cup {r} /\ waiting' = Append(waiting, r)
      /\ consumer' = IF consumer[r] = "adding" THEN [consumer EXCEPT ![r] = "open"] ELSE consumer
      /\ UNCHANGED <<prefilling, running, states, batch, storing, progress, clearIn, todo, still,
                     makeup, finishing, rejects, outs, faults, lost, aborts, jobs, loop, given,
                     collected, buf, signalled, upto, events>>
  BY DEF AddEnds, Admit
<1>2. /\ r \in Request /\ Fresh(r) /\ consumer[r] # "none" /\ NoReq \notin Request
      /\ \A i \in DOMAIN jobs : jobs[i].op = "add" => jobs[i].req # r
  <2>1. r \in Request
    BY <1>1 DEF LoopTypes, Flow
  <2>2. QED BY <2>1, SchedulerAssumption DEF Enters, Entering
<1>8. adding = r
  OBVIOUS
<1> HIDE DEF r
<1>3. /\ r \notin InScheduler \cup P \cup rejects \cup R \cup Chunking \cup W \cup T \cup L
      /\ length[r] = 0 /\ produced[r] = 0 /\ RowsOf(r) = {} /\ \A o \in outs \cup given : o.req # r
  BY <1>2 DEF Fresh, Places, InScheduler
<1>4. /\ waiting' \in Seq(Request) /\ IsInjective(waiting') /\ W' = W \cup {r}
      /\ R' = R /\ P' = P /\ T' = T /\ L' = L /\ Chunking' = Chunking
  BY <1>1, <1>2, <1>3, AppendQueue DEF QueueTypes, W, R, P, T, L, Chunking
<1>5. finishing = {} /\ rejects = {} /\ outs = {}
  BY <1>1 DEF Flow
<1>6. \A x : RowsOf(x)' = RowsOf(x)
  BY <1>1 DEF RowsOf
<1>7. \A x \in Request : consumer'[x] = IF x = r /\ consumer[r] = "adding" THEN "open" ELSE consumer[x]
  BY <1>1, <1>2 DEF ReaderTypes
<1>9. QueueTypes' /\ SchedTypes' /\ StoreTypes' /\ LoopTypes' /\ BufsTrue'
  BY <1>1, <1>2, <1>4
  DEF QueueTypes, SchedTypes, StoreTypes, LoopTypes, Phases, BufsTrue, BufTrue
<1>10. ReaderTypes'
  BY <1>1, <1>2, <1>7 DEF ReaderTypes
<1>11. Flow' /\ JobsOwn' /\ Places' /\ ChunksQueued'
  BY <1>1, <1>3, <1>4, <1>5 DEF Flow, JobsOwn, Places, ChunksQueued, InScheduler
<1>12. Lengths'
  <2>1. \A x \in Request : Tokens[x] \in Nat /\ Tokens[x] > 0
    BY SchedulerAssumption
  <2>2. QED BY <1>1, <1>3, <1>4, <2>1 DEF Lengths
<1>13. Enters'
  <2>1. ASSUME NEW x \in Request, Entering(x)' PROVE x # r /\ Entering(x)
    BY <1>1, <1>2, <1>7, <1>8, <2>1 DEF Entering
  <2>2. ASSUME NEW x \in Request, x # r, Fresh(x) PROVE Fresh(x)'
    BY <1>1, <1>4, <1>6, <2>2 DEF Fresh
  <2>3. \A x \in Request : consumer'[x] = "none" => consumer[x] = "none"
    BY <1>7
  <2>4. \A i \in DOMAIN jobs' : jobs'[i].op = "add" => jobs'[i].req \in Request
    BY <1>1 DEF JobsOwn
  <2>5. QED BY <1>1, <1>2, <2>1, <2>2, <2>3, <2>4 DEF Enters
<1>14. RowsOwned'
  <2>1. \A u \in DOMAIN rows : rows[u] # r
    BY <1>3 DEF RowsOf
  <2>2. QED BY <1>1, <1>4, <1>6, <2>1 DEF RowsOwned
<1>15. OutputsTrue'
  BY <1>1, <1>4 DEF OutputsTrue, SaysTrue
<1>16. Held'
  <2>1. \A x \in Request : consumer'[x] = "open" => x = r \/ consumer[x] = "open"
    BY <1>7
  <2>2. r \in InScheduler' /\ \A x \in InScheduler : x \in InScheduler'
    BY <1>4 DEF InScheduler
  <2>3. \A x \in Request : consumer'[x] \in {"adding", "open"} => consumer[x] \in {"adding", "open"}
    BY <1>7
  <2>4. aborts' \subseteq Request
    BY <1>1 DEF SchedTypes
  <2>5. \A x : Answered(x) => Answered(x)'
    BY <1>1, <1>4 DEF Answered
  <2>6. QED BY <1>1, <2>1, <2>2, <2>3, <2>4, <2>5 DEF Held
<1>17. QED BY <1>9, <1>10, <1>11, <1>12, <1>13, <1>14, <1>15, <1>16

\* The queue is full: the caller, if it is still there, has its error.
LEMMA AddRefusedKeeps ==
  ASSUME IInv, AddRefused
  PROVE  IInv'
<1> USE DEF IInv
<1> DEFINE r == adding
<1>1. /\ ipc = "adding" /\ ipc' = "free" /\ adding' = NoReq
      /\ IF consumer[r] = "adding"
         THEN /\ consumer' = [consumer EXCEPT ![r] = "failed"] /\ aborts' = aborts \cup {r}
              /\ Forget(r)
         ELSE UNCHANGED <<consumer, aborts, collected, buf, signalled>>
      /\ UNCHANGED <<queues, batch, storing, progress, clearIn, todo, still, makeup,
                     finishing, rejects, outs, faults, lost, jobs, loop, given, upto, events>>
  BY DEF AddRefused
<1>2. /\ r \in Request /\ consumer[r] # "none" /\ NoReq \notin Request
      /\ \A i \in DOMAIN jobs : jobs[i].op = "add" => jobs[i].req # r
  <2>1. r \in Request
    BY <1>1 DEF LoopTypes, Flow
  <2>2. QED BY <2>1, SchedulerAssumption DEF Enters, Entering
<1>3. adding = r
  OBVIOUS
<1> HIDE DEF r
<1>4. /\ QueueTypes' /\ SchedTypes' /\ StoreTypes' /\ Places' /\ Lengths' /\ RowsOwned'
      /\ W' = W /\ P' = P /\ R' = R /\ T' = T /\ L' = L /\ Chunking' = Chunking
      /\ InScheduler' = InScheduler /\ \A x : RowsOf(x)' = RowsOf(x)
  <2>1. aborts' \subseteq Request
    BY <1>1, <1>2 DEF SchedTypes
  <2>2. ipc' \in Phases /\ outs' \subseteq OutputSet /\ clearIn' \in Nat
    BY <1>1 DEF SchedTypes, Phases
  <2>3. QED BY <1>1, <2>1, <2>2, SchedulerSame
<1>5. /\ \A x \in Request : /\ consumer'[x] = IF x = r /\ consumer[r] = "adding" THEN "failed" ELSE consumer[x]
                            /\ x \in aborts' => x \in aborts \/ (x = r /\ consumer[r] = "adding")
      /\ consumer' \in [Request -> {"none", "adding", "open", "leaving"} \cup Ends]
  BY <1>1, <1>2 DEF ReaderTypes, Ends
<1>6. /\ BufsTrue' /\ buf' \in [Request -> Buffer] /\ signalled' \subseteq Request
      /\ collected' = IF consumer[r] = "adding" THEN collected \ {r} ELSE collected
      /\ \A x \in Request : x # r \/ consumer[r] # "adding" => buf'[x] = buf[x]
  <2>1. CASE consumer[r] = "adding"
    <3>1. \A x \in Request : upto'[x] <= Tokens[x]
      BY <1>1 DEF BufsTrue, BufTrue
    <3>2. UNCHANGED length /\ upto' \in [Request -> Nat] /\ Forget(r)
      BY <1>1, <2>1 DEF ReaderTypes
    <3>3. QED BY <1>2, <2>1, <3>1, <3>2, ForgetBuf
  <2>2. CASE consumer[r] # "adding"
    BY <1>1, <2>2 DEF BufsTrue, BufTrue, ReaderTypes
  <2>3. QED BY <2>1, <2>2
<1>7. LoopTypes' /\ JobsOwn' /\ Flow'
  BY <1>1, <1>2 DEF LoopTypes, JobsOwn, Flow
<1>8. ReaderTypes'
  <2>1. upto' = upto /\ events' = events
    BY <1>1
  <2>2. collected' = {x \in Request : consumer'[x] \in {"adding", "open", "leaving"}}
    BY <1>2, <1>5, <1>6 DEF ReaderTypes
  <2>3. QED BY <1>5, <1>6, <2>1, <2>2 DEF ReaderTypes
<1>9. ChunksQueued' /\ OutputsTrue'
  BY <1>1, <1>4 DEF ChunksQueued, OutputsTrue, SaysTrue
<1>10. Enters'
  <2>1. \A x \in Request : Fresh(x) => Fresh(x)'
    BY <1>1, <1>4 DEF Fresh
  <2>2. \A x \in Request : consumer'[x] = "none" => consumer[x] = "none" /\ x # r
    BY <1>2, <1>5
  <2>3. \A x \in Request : Entering(x)' => Entering(x)
    BY <1>1, <1>2, <2>2 DEF Entering
  <2>4. \A x \in Request : consumer'[x] = "none" =>
          /\ adding' # x /\ x \notin aborts' /\ \A i \in DOMAIN jobs' : jobs'[i].req # x
    BY <1>1, <1>2, <1>5, <2>2 DEF Enters
  <2>5. \A i \in DOMAIN jobs' : jobs'[i].op = "add" => jobs'[i].req \in Request
    BY <1>1 DEF JobsOwn
  <2>6. QED BY <1>1, <1>2, <2>1, <2>3, <2>4, <2>5 DEF Enters
<1>11. Held'
  <2>1. ASSUME NEW x \in Request, consumer'[x] = "open" PROVE consumer[x] = "open" /\ buf'[x] = buf[x]
    BY <1>5, <1>6, <2>1
  <2>2. ASSUME NEW x \in aborts', consumer'[x] \in {"adding", "open"} PROVE buf'[x].error
    <3>1. x \in Request
      BY <1>4 DEF SchedTypes
    <3>2. x \in aborts /\ consumer[x] = consumer'[x] /\ buf'[x] = buf[x]
      BY <1>5, <1>6, <2>2, <3>1
    <3>3. QED BY <2>2, <3>2 DEF Held
  <2>3. \A x : (Answered(x) /\ buf'[x] = buf[x]) => Answered(x)'
    BY <1>1, <1>4 DEF Answered
  <2>4. QED BY <1>1, <1>4, <2>1, <2>2, <2>3 DEF Held
<1>12. QED BY <1>4, <1>6, <1>7, <1>8, <1>9, <1>10, <1>11

\* Cancelled while its job is queued, or while it runs.
LEMMA AddCancelledKeeps ==
  ASSUME IInv, NEW r \in Request, AddCancelled(r)
  PROVE  IInv'
<1> USE DEF IInv
<1>1. /\ consumer[r] = "adding" /\ consumer' = [consumer EXCEPT ![r] = "left"]
      /\ jobs' = Kept(jobs, {j \in ToSet(jobs) : j.req # r})
      /\ aborts' = aborts \cup {r} /\ Forget(r)
      /\ UNCHANGED <<queues, batch, storing, progress, clearIn, phase, faults, lost, adding, loop,
                     given, upto>>
  BY DEF AddCancelled, AbortRequest
<1>2. /\ jobs' \in Seq(Job)
      /\ \E g \in [DOMAIN jobs' -> DOMAIN jobs] :
           IsInjective(g) /\ \A k \in DOMAIN jobs' : jobs'[k] = jobs[g[k]]
  <2> DEFINE others == {j \in ToSet(jobs) : j.req # r}
  <2>1. jobs' = Kept(jobs, others) /\ jobs \in Seq(Job)
    BY <1>1 DEF LoopTypes
  <2> HIDE DEF others
  <2>2. /\ Kept(jobs, others) \in Seq(Job)
        /\ \E g \in [DOMAIN Kept(jobs, others) -> DOMAIN jobs] :
             IsInjective(g) /\ \A k \in DOMAIN Kept(jobs, others) : Kept(jobs, others)[k] = jobs[g[k]]
    BY <2>1, KeptQueue
  <2>3. QED BY <2>1, <2>2
<1>3. PICK g \in [DOMAIN jobs' -> DOMAIN jobs] :
        IsInjective(g) /\ \A k \in DOMAIN jobs' : jobs'[k] = jobs[g[k]]
  BY <1>2
<1>4. /\ \A k \in DOMAIN jobs' : g[k] \in DOMAIN jobs /\ jobs'[k] = jobs[g[k]]
      /\ \A k, m \in DOMAIN jobs' : g[k] = g[m] => k = m
  BY <1>3 DEF IsInjective
<1>5. /\ QueueTypes' /\ SchedTypes' /\ StoreTypes' /\ Places' /\ Lengths' /\ RowsOwned'
      /\ W' = W /\ P' = P /\ R' = R /\ T' = T /\ L' = L /\ Chunking' = Chunking
      /\ InScheduler' = InScheduler /\ \A x : RowsOf(x)' = RowsOf(x)
  <2>1. aborts' \subseteq Request
    BY <1>1 DEF SchedTypes
  <2>2. ipc' \in Phases /\ outs' \subseteq OutputSet /\ clearIn' \in Nat
    BY <1>1 DEF SchedTypes
  <2>3. QED BY <1>1, <2>1, <2>2, SchedulerSame
<1>6. /\ \A x \in Request : /\ consumer'[x] = IF x = r THEN "left" ELSE consumer[x]
                            /\ x \in aborts' <=> x \in aborts \/ x = r
      /\ consumer' \in [Request -> {"none", "adding", "open", "leaving"} \cup Ends]
  BY <1>1 DEF ReaderTypes, Ends
<1>7. /\ BufsTrue' /\ buf' \in [Request -> Buffer] /\ signalled' \subseteq Request
      /\ collected' = collected \ {r} /\ \A x \in Request \ {r} : buf'[x] = buf[x]
  <2>1. \A x \in Request : upto'[x] <= Tokens[x]
    BY <1>1 DEF BufsTrue, BufTrue
  <2>2. UNCHANGED length /\ upto' \in [Request -> Nat] /\ Forget(r)
    BY <1>1 DEF ReaderTypes
  <2>3. QED BY <2>1, <2>2, ForgetBuf
<1>8. LoopTypes' /\ Flow'
  BY <1>1, <1>2 DEF LoopTypes, Flow
<1>9. JobsOwn'
  <2>1. \A k \in DOMAIN jobs' : \/ jobs'[k].op = "add" /\ jobs'[k].req \in Request
                                \/ jobs'[k].op \in {"step", "fail"} /\ jobs'[k].req = NoReq
    BY <1>4 DEF JobsOwn
  <2>2. \A k, m \in DOMAIN jobs' : jobs'[k].op # "add" /\ jobs'[m].op # "add" => k = m
    BY <1>4 DEF JobsOwn
  <2>3. \A k, m \in DOMAIN jobs' :
          jobs'[k].op = "add" /\ jobs'[m].op = "add" /\ jobs'[k].req = jobs'[m].req => k = m
    BY <1>4 DEF JobsOwn
  <2>4. \A k \in DOMAIN jobs' : /\ jobs'[k].op = "step" => loop' = "step" /\ ipc' \in {"free", "adding"}
                                /\ jobs'[k].op = "fail" => loop' = "fail"
    BY <1>1, <1>4 DEF JobsOwn
  <2>5. QED BY <2>1, <2>2, <2>3, <2>4 DEF JobsOwn
<1>10. ReaderTypes'
  <2>1. upto' = upto
    BY <1>1
  <2>2. collected' = {x \in Request : consumer'[x] \in {"adding", "open", "leaving"}}
    BY <1>6, <1>7 DEF ReaderTypes
  <2>3. events' \in Nat
    BY DEF AddCancelled, ReaderTypes
  <2>4. QED BY <1>6, <1>7, <2>1, <2>2, <2>3 DEF ReaderTypes
<1>11. ChunksQueued' /\ OutputsTrue'
  BY <1>1, <1>5 DEF ChunksQueued, OutputsTrue, SaysTrue
<1>12. Enters'
  <2>1. \A x \in Request : Fresh(x) => Fresh(x)'
    BY <1>1, <1>5 DEF Fresh
  <2>2. \A x \in Request : consumer'[x] = "none" => consumer[x] = "none" /\ x # r
    BY <1>6
  <2>3. \A x \in Request : Entering(x)' => Entering(x)
    BY <1>1, <1>4, <2>2 DEF Entering
  <2>4. \A x \in Request : consumer'[x] = "none" =>
          /\ adding' # x /\ x \notin aborts' /\ \A k \in DOMAIN jobs' : jobs'[k].req # x
    BY <1>1, <1>4, <1>6, <2>2 DEF Enters
  <2>5. \A k \in DOMAIN jobs' : jobs'[k].op = "add" => adding' # jobs'[k].req
    BY <1>1, <1>4 DEF Enters
  <2>6. QED BY <2>1, <2>3, <2>4, <2>5 DEF Enters
<1>13. Held'
  <2>1. ASSUME NEW x \in Request, consumer'[x] \in {"adding", "open"}
        PROVE  consumer[x] = consumer'[x] /\ buf'[x] = buf[x] /\ x # r
    BY <1>6, <1>7, <2>1
  <2>2. ASSUME NEW x \in aborts', consumer'[x] \in {"adding", "open"} PROVE buf'[x].error
    <3>1. x \in Request
      BY <1>5 DEF SchedTypes
    <3>2. x \in aborts /\ consumer[x] = consumer'[x] /\ buf'[x] = buf[x]
      BY <1>6, <2>1, <2>2, <3>1
    <3>3. QED BY <2>2, <3>2 DEF Held
  <2>3. \A x : (Answered(x) /\ buf'[x] = buf[x]) => Answered(x)'
    BY <1>1, <1>5 DEF Answered
  <2>4. QED BY <1>1, <1>5, <2>1, <2>2, <2>3 DEF Held
<1>14. QED BY <1>5, <1>7, <1>8, <1>9, <1>10, <1>11, <1>12, <1>13
------------------------------------------------------------------------------
(* The engine loop *)

\* The engine loop submits a step: none is queued or under way.
LEMMA SubmitStepKeeps ==
  ASSUME IInv, SubmitStep
  PROVE  IInv'
<1> USE DEF IInv
<1> DEFINE e == [op |-> "step", req |-> NoReq]
<1>1. /\ loop = "idle" /\ loop' = "step" /\ jobs' = Append(jobs, e)
      /\ UNCHANGED <<schedVars, adding, given, readers, events>>
  BY DEF SubmitStep
<1>2. e \in Job /\ e.op = "step" /\ e.req = NoReq
  BY DEF Job
<1> HIDE DEF e
<1>3. PICK n : /\ n \notin DOMAIN jobs /\ DOMAIN jobs' = DOMAIN jobs \cup {n} /\ jobs'[n] = e
               /\ \A i \in DOMAIN jobs : jobs'[i] = jobs[i]
  BY <1>1, <1>2, AppendItems DEF LoopTypes
<1>4. /\ QueueTypes' /\ SchedTypes' /\ StoreTypes' /\ Places' /\ Lengths' /\ RowsOwned'
      /\ W' = W /\ P' = P /\ R' = R /\ T' = T /\ L' = L /\ Chunking' = Chunking
      /\ InScheduler' = InScheduler /\ \A x : RowsOf(x)' = RowsOf(x)
  BY <1>1, SchedulerSame DEF SchedTypes
<1>5. LoopTypes'
  BY <1>1, <1>2, AppendQueue DEF LoopTypes
<1>6. ipc \in {"free", "adding"} /\ given = {} /\ \A i \in DOMAIN jobs : jobs[i].op = "add"
  BY <1>1 DEF Flow, JobsOwn
<1>7. Flow' /\ JobsOwn'
  BY <1>1, <1>2, <1>3, <1>6 DEF Flow, JobsOwn
<1>8. ChunksQueued' /\ OutputsTrue' /\ Held'
  BY <1>1, <1>4, <1>6 DEF ChunksQueued, OutputsTrue, SaysTrue, Held, Answered
<1>9. ReaderTypes' /\ BufsTrue'
  BY <1>1 DEF ReaderTypes, BufsTrue, BufTrue
<1>10. Enters'
  <2>1. \A x \in Request : Fresh(x) => Fresh(x)'
    BY <1>1, <1>4 DEF Fresh
  <2>2. \A x \in Request : Entering(x)' => Entering(x)
    BY <1>1, <1>2, <1>3 DEF Entering
  <2>3. NoReq \notin Request
    BY SchedulerAssumption
  <2>4. QED BY <1>1, <1>2, <1>3, <2>1, <2>2, <2>3 DEF Enters
<1>11. QED BY <1>4, <1>5, <1>7, <1>8, <1>9, <1>10

\* The job of a step begins.
LEMMA StepBeginsKeeps ==
  ASSUME IInv, StepBegins
  PROVE  IInv'
<1> USE DEF IInv
<1>1. /\ ipc = "free" /\ jobs # <<>> /\ Head(jobs).op = "step" /\ ipc' = "aborts"
      /\ jobs' = Tail(jobs)
      /\ UNCHANGED <<queues, batch, aborts, storing, progress, clearIn, todo, still, makeup,
                     finishing, rejects, outs, faults, lost, adding, loop, given, readers, events>>
  BY DEF StepBegins
<1>2. /\ jobs' \in Seq(Job) /\ 1 \in DOMAIN jobs /\ jobs[1] = Head(jobs)
      /\ \A i \in DOMAIN jobs' : i + 1 \in DOMAIN jobs /\ i + 1 # 1 /\ jobs'[i] = jobs[i + 1]
      /\ \A i, j \in DOMAIN jobs' : i + 1 = j + 1 => i = j
  BY <1>1, TailItems DEF LoopTypes
<1>3. jobs[1].op = "step" /\ loop = "step"
  <2>1. jobs[1].op = "step"
    BY <1>1, <1>2
  <2>2. QED BY <1>2, <2>1 DEF JobsOwn
<1>4. /\ QueueTypes' /\ SchedTypes' /\ StoreTypes' /\ Places' /\ Lengths' /\ RowsOwned'
      /\ W' = W /\ P' = P /\ R' = R /\ T' = T /\ L' = L /\ Chunking' = Chunking
      /\ InScheduler' = InScheduler /\ \A x : RowsOf(x)' = RowsOf(x)
  BY <1>1, SchedulerSame DEF SchedTypes, Phases
<1>5. LoopTypes' /\ ReaderTypes' /\ BufsTrue'
  BY <1>1, <1>2 DEF LoopTypes, ReaderTypes, BufsTrue, BufTrue
<1>6. Flow'
  BY <1>1, <1>3 DEF Flow
<1>7. JobsOwn'
  <2>1. \A i \in DOMAIN jobs' : jobs'[i].op = "add"
    BY <1>2, <1>3 DEF JobsOwn
  <2>2. QED BY <1>1, <1>2, <2>1 DEF JobsOwn
<1>8. ChunksQueued' /\ OutputsTrue' /\ Held'
  BY <1>1, <1>3, <1>4 DEF ChunksQueued, OutputsTrue, SaysTrue, Held, Answered
<1>9. Enters'
  <2>1. \A x \in Request : Fresh(x) => Fresh(x)'
    BY <1>1, <1>4 DEF Fresh
  <2>2. \A x \in Request : Entering(x)' => Entering(x)
    BY <1>1, <1>2 DEF Entering
  <2>3. QED BY <1>1, <1>2, <2>1, <2>2 DEF Enters
<1>10. QED BY <1>4, <1>5, <1>6, <1>7, <1>8, <1>9

\* A step returns: its outputs pass to the engine loop.
LEMMA StepEndsKeeps ==
  ASSUME IInv, StepEnds
  PROVE  IInv'
<1> USE DEF IInv
<1>1. /\ ipc = "end" /\ ipc' = "free" /\ given' = outs /\ outs' = {} /\ loop' = "outputs"
      /\ clearIn' = IF clearIn > 0 THEN clearIn - 1 ELSE 0
      /\ UNCHANGED <<queues, batch, aborts, storing, progress, todo, still, makeup, finishing,
                     rejects, faults, lost, jobs, adding, readers, events>>
  BY DEF StepEnds, StepReturns
<1>2. loop = "step" /\ given = {} /\ finishing = {} /\ rejects = {} /\ adding = NoReq
  BY <1>1 DEF Flow
<1>3. \A i \in DOMAIN jobs : jobs[i].op = "add"
  BY <1>1, <1>2 DEF JobsOwn
<1>4. /\ QueueTypes' /\ SchedTypes' /\ StoreTypes' /\ Places' /\ Lengths' /\ RowsOwned'
      /\ W' = W /\ P' = P /\ R' = R /\ T' = T /\ L' = L /\ Chunking' = Chunking
      /\ InScheduler' = InScheduler /\ \A x : RowsOf(x)' = RowsOf(x)
  <2>1. aborts' \subseteq Request /\ ipc' \in Phases /\ outs' \subseteq OutputSet /\ clearIn' \in Nat
    BY <1>1 DEF SchedTypes, Phases
  <2>2. QED BY <1>1, <2>1, SchedulerSame
<1>5. LoopTypes' /\ ReaderTypes' /\ BufsTrue'
  BY <1>1 DEF LoopTypes, SchedTypes, ReaderTypes, BufsTrue, BufTrue
<1>6. Flow' /\ JobsOwn' /\ ChunksQueued'
  BY <1>1, <1>2, <1>3, <1>4 DEF Flow, JobsOwn, ChunksQueued
<1>7. outs' \cup given' = outs \cup given
  BY <1>1, <1>2
<1>8. OutputsTrue'
  BY <1>1, <1>2 DEF OutputsTrue, SaysTrue
<1>9. Held'
  BY <1>1, <1>2, <1>4, <1>7 DEF Held, Answered
<1>10. Enters'
  <2>1. \A x \in Request : Fresh(x) => Fresh(x)'
    BY <1>1, <1>4, <1>7 DEF Fresh
  <2>2. QED BY <1>1, <2>1 DEF Enters, Entering
<1>11. QED BY <1>4, <1>5, <1>6, <1>8, <1>9, <1>10

\* A step raised: the loop submits the job that fails every request.
LEMMA StepFailsKeeps ==
  ASSUME IInv, StepFails
  PROVE  IInv'
<1> USE DEF IInv
<1> DEFINE e == [op |-> "fail", req |-> NoReq]
<1>1. /\ ipc = "raise" /\ ipc' = "free" /\ loop' = "fail" /\ jobs' = Append(jobs, e)
      /\ UNCHANGED <<queues, batch, aborts, storing, progress, clearIn, todo, still, makeup,
                     finishing, rejects, outs, faults, lost, adding, given, readers, events>>
  BY DEF StepFails
<1>2. e \in Job /\ e.op = "fail" /\ e.req = NoReq
  BY DEF Job
<1> HIDE DEF e
<1>3. PICK n : /\ n \notin DOMAIN jobs /\ DOMAIN jobs' = DOMAIN jobs \cup {n} /\ jobs'[n] = e
               /\ \A i \in DOMAIN jobs : jobs'[i] = jobs[i]
  BY <1>1, <1>2, AppendItems DEF LoopTypes
<1>4. /\ QueueTypes' /\ SchedTypes' /\ StoreTypes' /\ Places' /\ Lengths' /\ RowsOwned'
      /\ W' = W /\ P' = P /\ R' = R /\ T' = T /\ L' = L /\ Chunking' = Chunking
      /\ InScheduler' = InScheduler /\ \A x : RowsOf(x)' = RowsOf(x)
  BY <1>1, SchedulerSame DEF SchedTypes, Phases
<1>5. LoopTypes'
  BY <1>1, <1>2, AppendQueue DEF LoopTypes
<1>6. loop = "step" /\ given = {} /\ \A i \in DOMAIN jobs : jobs[i].op = "add"
  BY <1>1 DEF Flow, JobsOwn
<1>7. Flow' /\ JobsOwn'
  BY <1>1, <1>2, <1>3, <1>6 DEF Flow, JobsOwn
<1>8. ChunksQueued' /\ OutputsTrue' /\ Held'
  BY <1>1, <1>4, <1>6 DEF ChunksQueued, OutputsTrue, SaysTrue, Held, Answered
<1>9. ReaderTypes' /\ BufsTrue'
  BY <1>1 DEF ReaderTypes, BufsTrue, BufTrue
<1>10. Enters'
  <2>1. \A x \in Request : Fresh(x) => Fresh(x)'
    BY <1>1, <1>4 DEF Fresh
  <2>2. \A x \in Request : Entering(x)' => Entering(x)
    BY <1>1, <1>2, <1>3 DEF Entering
  <2>3. NoReq \notin Request
    BY SchedulerAssumption
  <2>4. QED BY <1>1, <1>2, <1>3, <2>1, <2>2, <2>3 DEF Enters
<1>11. QED BY <1>4, <1>5, <1>7, <1>8, <1>9, <1>10

\* Every request of the queues gets its error.
LEMMA FailAllRequestsKeeps ==
  ASSUME IInv, FailAllRequests
  PROVE  IInv'
<1> USE DEF IInv
<1>1. /\ ipc = "free" /\ jobs # <<>> /\ Head(jobs).op = "fail" /\ jobs' = Tail(jobs)
      /\ requests' = requests \ Failed
      /\ waiting' = <<>> /\ prefilling' = <<>> /\ running' = <<>>
      /\ states' = [r \in Request |-> 0] /\ rows' = NoRows /\ nextUid' = 0
      /\ given' = {Error(r) : r \in Failed} /\ loop' = "outputs"
      /\ UNCHANGED <<uidOf, ridOf, aborts, storing, progress, clearIn, todo, still, makeup,
                     finishing, rejects, outs, faults, lost, ipc, adding, readers, events>>
  BY DEF FailAllRequests, FailAll
<1>2. /\ jobs' \in Seq(Job) /\ 1 \in DOMAIN jobs /\ jobs[1] = Head(jobs)
      /\ \A i \in DOMAIN jobs' : i + 1 \in DOMAIN jobs /\ i + 1 # 1 /\ jobs'[i] = jobs[i + 1]
      /\ \A i, j \in DOMAIN jobs' : i + 1 = j + 1 => i = j
  BY <1>1, TailItems DEF LoopTypes
<1>3. jobs[1].op = "fail" /\ loop = "fail"
  <2>1. jobs[1].op = "fail"
    BY <1>1, <1>2
  <2>2. QED BY <1>2, <2>1 DEF JobsOwn
<1>4. finishing = {} /\ rejects = {} /\ outs = {} /\ given = {} /\ adding = NoReq
  BY <1>1, <1>3 DEF Flow
<1>5. /\ W' = {} /\ P' = {} /\ R' = {} /\ T' = T /\ L' = L /\ Chunking' = {}
      /\ \A x : RowsOf(x)' = {}
  <2>1. W' = {} /\ P' = {} /\ R' = {}
    BY <1>1, EmptyQueue DEF W, P, R
  <2>2. T' = T /\ L' = L
    BY <1>1 DEF T, L
  <2>3. Chunking' = {}
    BY <1>1 DEF Chunking
  <2>4. \A x : RowsOf(x)' = {}
    BY <1>1 DEF RowsOf, NoRows
  <2>5. QED BY <2>1, <2>2, <2>3, <2>4
<1>6. Failed = R \cup P \cup W /\ Failed \subseteq Request
  BY NonEmptyQueue DEF Failed, W, P, R, QueueTypes
<1>7. /\ \A x : Error(x).req = x /\ Error(x).token = 0 /\ Error(x).end = "error"
      /\ \A x \in Request : Error(x) \in OutputSet
  BY DEF Error, Output, OutputSet
<1>8. \A o \in given' : \E x \in Failed : o = Error(x)
  BY <1>1
<1>9. QueueTypes'
  BY <1>1, EmptyQueue DEF QueueTypes
<1>10. SchedTypes'
  <2>1. rows' \in [DOMAIN rows' -> Request] /\ DOMAIN rows' \subseteq Nat
    BY <1>1 DEF NoRows
  <2>2. states' \in [Request -> Nat] /\ nextUid' \in Nat /\ requests' \subseteq Request
    BY <1>1 DEF SchedTypes
  <2>3. QED BY <1>1, <2>1, <2>2 DEF SchedTypes
<1>11. StoreTypes' /\ ReaderTypes' /\ BufsTrue'
  BY <1>1 DEF StoreTypes, ReaderTypes, BufsTrue, BufTrue
<1>12. LoopTypes'
  <2>1. \A o \in given' : o \in OutputSet
    BY <1>6, <1>7, <1>8
  <2>2. QED BY <1>1, <1>2, <2>1 DEF LoopTypes
<1>13. Flow' /\ Places' /\ ChunksQueued' /\ Lengths' /\ RowsOwned'
  <2>1. Flow'
    BY <1>1, <1>4 DEF Flow
  <2>2. Places' /\ ChunksQueued'
    BY <1>1, <1>4, <1>5 DEF Places, ChunksQueued, InScheduler
  <2>3. Lengths'
    BY <1>1, <1>4, <1>5 DEF Lengths
  <2>4. RowsOwned'
    BY <1>1, <1>4, <1>5 DEF RowsOwned, NoRows
  <2>5. QED BY <2>1, <2>2, <2>3, <2>4
<1>14. JobsOwn'
  <2>1. \A i \in DOMAIN jobs' : jobs'[i].op = "add"
    BY <1>2, <1>3 DEF JobsOwn
  <2>2. QED BY <1>1, <1>2, <2>1 DEF JobsOwn
<1>15. Enters'
  <2>1. ASSUME NEW x \in Request, Fresh(x) PROVE Fresh(x)'
    <3>1. x \notin Failed
      BY <1>6, <2>1 DEF Fresh, Places, InScheduler
    <3>2. \A o \in given' : o.req # x
      BY <1>7, <1>8, <3>1
    <3>3. QED BY <1>1, <1>5, <2>1, <3>2 DEF Fresh
  <2>2. \A x \in Request : Entering(x)' => Entering(x)
    BY <1>1, <1>2 DEF Entering
  <2>3. QED BY <1>1, <1>2, <2>1, <2>2 DEF Enters
<1>16. OutputsTrue'
  <2>1. \A x \in Request : Tokens[x] \in Nat
    BY SchedulerAssumption
  <2>2. \A o \in given' : SaysTrue(o)'
    BY <1>6, <1>7, <1>8, <2>1 DEF SaysTrue
  <2>3. \A o, p \in given' : o.req = p.req => o = p
    BY <1>7, <1>8
  <2>4. QED BY <1>1, <1>4, <2>2, <2>3 DEF OutputsTrue
<1>17. Held'
  <2>1. ASSUME NEW x \in Request, consumer'[x] = "open", x \notin lost' PROVE Answered(x)'
    <3>1. CASE x \in Failed
      <4>1. Error(x) \in given' /\ Error(x).req = x /\ Error(x).end # "no"
        BY <1>1, <1>7, <3>1
      <4>2. QED BY <4>1 DEF Answered
    <3>2. CASE x \notin Failed
      <4>1. x \notin InScheduler /\ x \notin P
        BY <1>6, <3>2 DEF InScheduler, ChunksQueued
      <4>2. Answered(x)
        BY <1>1, <2>1, <4>1 DEF Held
      <4>3. buf[x].error \/ buf[x].end # "no"
        BY <1>4, <4>1, <4>2 DEF Answered
      <4>4. QED BY <1>1, <4>3 DEF Answered
    <3>3. QED BY <3>1, <3>2
  <2>2. QED BY <1>1, <2>1 DEF Held
<1>18. QED BY <1>9, <1>10, <1>11, <1>12, <1>13, <1>14, <1>15, <1>16, <1>17
------------------------------------------------------------------------------
(* The consumers *)

\* What a collector holds after the outputs of one list.
LEMMA PutAllBufs ==
  ASSUME IInv, NEW os \in SUBSET OutputSet, PutAll(os), UNCHANGED <<collected, length, upto>>,
         \A o \in os : SaysTrue(o), \A o, p \in os : o.req = p.req => o = p
  PROVE  /\ BufsTrue' /\ buf' \in [Request -> Buffer] /\ signalled' \subseteq Request
         /\ \A x \in Request : /\ buf[x].error => buf'[x].error
                               /\ buf[x].error \/ buf[x].end # "no" => buf'[x].error \/ buf'[x].end # "no"
                               /\ \A o \in os : x \in collected /\ o.req = x =>
                                    /\ buf'[x].end = o.end
                                    /\ o.end = "error" => buf'[x].error
<1> USE DEF IInv
<1> DEFINE To(x) == CHOOSE o \in os : o.req = x
<1>1. ASSUME NEW x \in Request
      PROVE  /\ \A o \in os : o.req = x => To(x) = o
             /\ (\E o \in os : o.req = x) => To(x) \in os /\ To(x).req = x /\ SaysTrue(To(x))
                                             /\ To(x) \in OutputSet
  <2>1. (\E o \in os : o.req = x) => To(x) \in os /\ To(x).req = x
    OBVIOUS
  <2>2. QED BY <2>1
<1>2. /\ buf' = [x \in Request |-> IF x \in collected /\ \E o \in os : o.req = x
                                   THEN Put(buf[x], To(x)) ELSE buf[x]]
      /\ signalled' = signalled \cup {x \in collected : \E o \in os : o.req = x /\ o.end # "no"}
  BY DEF PutAll
<1> HIDE DEF To
<1>3. ASSUME NEW x \in Request
      PROVE  /\ buf'[x] = buf[x] \/ (x \in collected /\ To(x) \in os /\ buf'[x] = Put(buf[x], To(x)))
             /\ x \notin collected => buf'[x] = buf[x]
             /\ \A o \in os : x \in collected /\ o.req = x => o = To(x) /\ buf'[x] = Put(buf[x], To(x))
             /\ x \in signalled' <=> x \in signalled \/ (x \in collected /\ \E o \in os : o.req = x /\ o.end # "no")
  <2>1. buf'[x] = IF x \in collected /\ \E o \in os : o.req = x THEN Put(buf[x], To(x)) ELSE buf[x]
    BY <1>2
  <2>2. x \in signalled' <=> x \in signalled \/ (x \in collected /\ \E o \in os : o.req = x /\ o.end # "no")
    BY <1>2
  <2>3. QED BY <1>1, <2>1, <2>2
<1>4. ASSUME NEW x \in Request, NEW o \in os, o.req = x
      PROVE  /\ Put(buf[x], o) \in Buffer /\ Put(buf[x], o).has /\ Put(buf[x], o).end = o.end
             /\ Put(buf[x], o).error <=> buf[x].error \/ o.end = "error"
             /\ \/ o.token = 0 /\ Put(buf[x], o).tokens = buf[x].tokens
                \/ /\ o.token > 0 /\ Put(buf[x], o).tokens = Append(buf[x].tokens, o.token)
  <2>1. o \in OutputSet /\ buf[x] \in Buffer
    BY DEF ReaderTypes
  <2>2. o.token \in Nat /\ o.end \in {"no", "finish", "error"} /\ buf[x].tokens \in Seq(Nat) /\ buf[x].error \in BOOLEAN
    BY <2>1 DEF OutputSet, Buffer
  <2>3. Append(buf[x].tokens, o.token) \in Seq(Nat)
    BY <2>2, AppendProperties
  <2> DEFINE t == IF o.token = 0 THEN buf[x].tokens ELSE Append(buf[x].tokens, o.token)
             f == (o.end = "error") \/ buf[x].error
  <2>4. Put(buf[x], o) = [has |-> TRUE, tokens |-> t, end |-> o.end, error |-> f]
    BY DEF Put, MergedError
  <2>5. t \in Seq(Nat) /\ f \in BOOLEAN
    BY <2>2, <2>3
  <2>6. (o.token = 0 /\ t = buf[x].tokens) \/ (o.token > 0 /\ t = Append(buf[x].tokens, o.token))
    BY <2>2
  <2> HIDE DEF t, f
  <2>7. Put(buf[x], o) \in Buffer
    BY <2>2, <2>4, <2>5 DEF Buffer
  <2>8. /\ Put(buf[x], o).has /\ Put(buf[x], o).end = o.end
        /\ Put(buf[x], o).tokens = t /\ Put(buf[x], o).error = f
    BY <2>4
  <2>9. f <=> buf[x].error \/ o.end = "error"
    BY DEF f
  <2>10. QED BY <2>6, <2>7, <2>8, <2>9
<1>5. ASSUME NEW x \in Request, NEW o \in os, o.req = x, SaysTrue(o), buf'[x] = Put(buf[x], o)
      PROVE  /\ \A i \in DOMAIN buf'[x].tokens : buf'[x].tokens[i] <= Tokens[x]
             /\ buf'[x].end = "finish" =>
                  length[x] > 0 /\ buf'[x].tokens # <<>> /\ buf'[x].tokens[Len(buf'[x].tokens)] = length[x]
  <2> DEFINE s == buf[x].tokens
  <2>1. o.token <= Tokens[x] /\ (o.end = "finish" => o.token = length[x] /\ o.token > 0)
    BY <1>5 DEF SaysTrue
  <2>2. s \in Seq(Nat) /\ \A i \in DOMAIN s : s[i] <= Tokens[x]
    BY DEF ReaderTypes, Buffer, BufsTrue, BufTrue
  <2>3. o.token \in Nat
    BY DEF OutputSet
  <2>4. CASE o.token = 0
    BY <1>4, <1>5, <2>1, <2>2, <2>4
  <2>5. CASE o.token > 0 /\ buf'[x].tokens = Append(s, o.token)
    <3>1. /\ Len(s) \in Nat /\ DOMAIN s = 1 .. Len(s) /\ Append(s, o.token) \in Seq(Nat)
          /\ DOMAIN Append(s, o.token) = 1 .. Len(s) + 1 /\ Len(Append(s, o.token)) = Len(s) + 1
          /\ \A i \in 1 .. Len(s) : Append(s, o.token)[i] = s[i]
          /\ Append(s, o.token)[Len(s) + 1] = o.token
      BY <2>2, <2>3, AppendProperties, LenProperties
    <3> DEFINE t == Append(s, o.token)
               m == Len(s)
    <3>2. Len(t) # 0 /\ t \in Seq(Nat)
      BY <3>1
    <3> HIDE DEF t, m
    <3>3. t # <<>>
      BY <3>2, EmptySeq
    <3>4. /\ DOMAIN t = 1 .. m + 1 /\ Len(t) = m + 1 /\ m \in Nat /\ t[m + 1] = o.token
          /\ \A i \in 1 .. m : t[i] = s[i] /\ i \in DOMAIN s
      BY <3>1 DEF t, m
    <3>5. buf'[x].tokens = t
      BY <2>5 DEF t
    <3>6. \A i \in DOMAIN t : t[i] <= Tokens[x]
      BY <2>1, <2>2, <3>4
    <3>7. buf'[x].end = o.end
      BY <1>4, <1>5
    <3>8. QED BY <2>1, <3>3, <3>4, <3>5, <3>6, <3>7
  <2>6. QED BY <1>4, <1>5, <2>4, <2>5
<1>6. ASSUME NEW x \in Request
      PROVE  /\ BufTrue(x)'
             /\ buf[x].error => buf'[x].error
             /\ buf[x].error \/ buf[x].end # "no" => buf'[x].error \/ buf'[x].end # "no"
  <2>1. BufTrue(x) /\ (x \in collected' <=> x \in collected) /\ length'[x] = length[x] /\ upto'[x] = upto[x]
    BY DEF BufsTrue
  <2>2. CASE x \notin collected \/ ~ \E o \in os : o.req = x
    <3>1. buf'[x] = buf[x] /\ (x \in signalled' <=> x \in signalled)
      BY <1>2, <1>3, <2>2
    <3>2. QED BY <2>1, <3>1 DEF BufTrue
  <2>3. ASSUME x \in collected, NEW o \in os, o.req = x
        PROVE  /\ BufTrue(x)'
               /\ buf[x].error => buf'[x].error
               /\ buf[x].error \/ buf[x].end # "no" => buf'[x].error \/ buf'[x].end # "no"
    <3>1. buf'[x] = Put(buf[x], o) /\ To(x) = o
      BY <1>3, <2>3
    <3>2. SaysTrue(o)
      OBVIOUS
    <3>3. /\ buf'[x].has /\ buf'[x].end = o.end
          /\ buf'[x].error <=> buf[x].error \/ o.end = "error"
      BY <1>4, <2>3, <3>1
    <3>4. /\ \A i \in DOMAIN buf'[x].tokens : buf'[x].tokens[i] <= Tokens[x]
          /\ buf'[x].end = "finish" =>
               length[x] > 0 /\ buf'[x].tokens # <<>> /\ buf'[x].tokens[Len(buf'[x].tokens)] = length[x]
      BY <1>5, <2>3, <3>1, <3>2
    <3>5. buf[x].end # "no" /\ ~ buf[x].error => o.end # "no"
      <4>1. buf[x].end \in {"no", "finish", "error"}
        BY DEF ReaderTypes, Buffer
      <4>2. length[x] \in Nat
        BY DEF SchedTypes
      <4>3. QED BY <2>1, <2>3, <3>2, <4>1, <4>2 DEF BufTrue, SaysTrue
    <3>6. x \in signalled' => x \in signalled \/ o.end # "no"
      BY <1>3, <2>3
    <3>7. QED BY <2>1, <2>3, <3>3, <3>4, <3>5, <3>6 DEF BufTrue
  <2>4. QED BY <2>2, <2>3
<1>7. buf' \in [Request -> Buffer]
  <2>1. \A x \in Request : buf'[x] \in Buffer
    <3>1. ASSUME NEW x \in Request PROVE buf'[x] \in Buffer
      <4>1. buf[x] \in Buffer
        BY DEF ReaderTypes
      <4>2. CASE x \in collected /\ \E o \in os : o.req = x
        <5>1. PICK o \in os : o.req = x
          BY <4>2
        <5>2. QED BY <1>3, <1>4, <4>2, <5>1
      <4>3. CASE ~ (x \in collected /\ \E o \in os : o.req = x)
        BY <1>2, <4>1, <4>3
      <4>4. QED BY <4>2, <4>3
    <3>2. QED BY <3>1
  <2>2. QED BY <1>2, <2>1
<1>8. signalled' \subseteq Request
  BY <1>2 DEF ReaderTypes
<1>9. \A x \in Request : \A o \in os : x \in collected /\ o.req = x =>
                           buf'[x].end = o.end /\ (o.end = "error" => buf'[x].error)
  <2>1. ASSUME NEW x \in Request, NEW o \in os, x \in collected, o.req = x
        PROVE  buf'[x].end = o.end /\ (o.end = "error" => buf'[x].error)
    <3>1. buf'[x] = Put(buf[x], o)
      BY <1>3, <2>1
    <3>2. QED BY <1>4, <2>1, <3>1
  <2>2. QED BY <2>1
<1>10. QED BY <1>6, <1>7, <1>8, <1>9 DEF BufsTrue

\* The engine loop puts the outputs into the collectors.
LEMMA DistributeKeeps ==
  ASSUME IInv, Distribute
  PROVE  IInv'
<1> USE DEF IInv
<1>1. /\ loop = "outputs" /\ loop' = "idle" /\ given' = {} /\ PutAll(given)
      /\ UNCHANGED <<schedVars, jobs, adding, consumer, collected, upto, events>>
  BY DEF Distribute
<1>2. /\ BufsTrue' /\ buf' \in [Request -> Buffer] /\ signalled' \subseteq Request
      /\ \A x \in Request : /\ buf[x].error => buf'[x].error
                            /\ buf[x].error \/ buf[x].end # "no" => buf'[x].error \/ buf'[x].end # "no"
                            /\ \A o \in given : x \in collected /\ o.req = x =>
                                 /\ buf'[x].end = o.end
                                 /\ o.end = "error" => buf'[x].error
  <2>1. given \in SUBSET OutputSet
    BY DEF LoopTypes
  <2>2. (\A o \in given : SaysTrue(o)) /\ (\A o, p \in given : o.req = p.req => o = p)
    BY DEF OutputsTrue
  <2>3. UNCHANGED <<collected, length, upto>>
    BY <1>1
  <2>4. QED BY <1>1, <2>1, <2>2, <2>3, PutAllBufs
<1>3. /\ QueueTypes' /\ SchedTypes' /\ StoreTypes' /\ Places' /\ Lengths' /\ RowsOwned'
      /\ W' = W /\ P' = P /\ R' = R /\ T' = T /\ L' = L /\ Chunking' = Chunking
      /\ InScheduler' = InScheduler /\ \A x : RowsOf(x)' = RowsOf(x)
  BY <1>1, SchedulerSame DEF SchedTypes
<1>4. LoopTypes' /\ ReaderTypes'
  BY <1>1, <1>2 DEF LoopTypes, ReaderTypes
<1>5. ipc \in {"free", "adding"} /\ \A i \in DOMAIN jobs : jobs[i].op = "add"
  BY <1>1 DEF Flow, JobsOwn
<1>6. Flow' /\ JobsOwn' /\ ChunksQueued'
  BY <1>1, <1>3, <1>5 DEF Flow, JobsOwn, ChunksQueued
<1>7. OutputsTrue'
  BY <1>1, <1>3 DEF OutputsTrue, SaysTrue
<1>8. Enters'
  <2>1. \A x \in Request : Fresh(x) => Fresh(x)'
    BY <1>1, <1>3 DEF Fresh
  <2>2. QED BY <1>1, <2>1 DEF Enters, Entering
<1>9. Held'
  <2>1. ASSUME NEW x \in Request, consumer[x] = "open", Answered(x) PROVE Answered(x)'
    <3>1. CASE x \in rejects
      BY <1>1, <3>1 DEF Answered
    <3>2. ASSUME NEW o \in outs, o.req = x, o.end # "no" PROVE Answered(x)'
      BY <1>1, <3>2 DEF Answered
    <3>3. ASSUME NEW o \in given, o.req = x, o.end # "no" PROVE Answered(x)'
      <4>1. x \in collected
        BY <2>1 DEF ReaderTypes
      <4>2. buf'[x].end = o.end
        BY <1>2, <3>3, <4>1
      <4>3. QED BY <3>3, <4>2 DEF Answered
    <3>4. CASE buf[x].error \/ buf[x].end # "no"
      BY <1>2, <3>4 DEF Answered
    <3>5. CASE x \in P /\ (ipc = "raise" \/ loop = "fail")
      BY <1>1, <1>5, <3>5
    <3>6. QED BY <2>1, <3>1, <3>2, <3>3, <3>4, <3>5 DEF Answered
  <2>2. \A x \in aborts : x \in Request
    BY DEF SchedTypes
  <2>3. QED BY <1>1, <1>2, <1>3, <2>1, <2>2 DEF Held
<1>10. QED BY <1>2, <1>3, <1>4, <1>6, <1>7, <1>8, <1>9

\* Errors put into collectors.
LEMMA ErrorsTrue ==
  ASSUME NEW rs \in SUBSET Request
  PROVE  LET os == {Error(x) : x \in rs}
         IN  /\ os \subseteq OutputSet /\ (\A o \in os : SaysTrue(o))
             /\ (\A o, p \in os : o.req = p.req => o = p)
             /\ \A x \in rs : Error(x) \in os /\ Error(x).req = x /\ Error(x).end = "error"
<1>1. \A x : Error(x).req = x /\ Error(x).token = 0 /\ Error(x).end = "error"
  BY DEF Error, Output
<1>2. \A x \in Request : Error(x) \in OutputSet
  BY DEF Error, Output, OutputSet
<1>3. \A x \in Request : Tokens[x] \in Nat
  BY SchedulerAssumption
<1>4. QED BY <1>1, <1>2, <1>3 DEF SaysTrue

\* abort_all_requests: the scheduler and every collector are told.
LEMMA AbortAllKeeps ==
  ASSUME IInv, AbortAll
  PROVE  IInv'
<1> USE DEF IInv
<1> DEFINE os == {Error(x) : x \in collected}
<1>1. /\ aborts' = aborts \cup collected /\ PutAll(os) /\ events' = events + 1
      /\ UNCHANGED <<queues, batch, storing, progress, clearIn, phase, faults, lost, loopVars,
                     consumer, collected, upto>>
  BY DEF AbortAll, Aborting
<1>2. collected \in SUBSET Request /\ \A x \in Request : x \in collected <=> consumer[x] \in {"adding", "open", "leaving"}
  BY DEF ReaderTypes
<1>3. /\ os \in SUBSET OutputSet /\ (\A o \in os : SaysTrue(o))
      /\ (\A o, p \in os : o.req = p.req => o = p)
      /\ \A x \in collected : Error(x) \in os /\ Error(x).req = x /\ Error(x).end = "error"
  BY <1>2, ErrorsTrue
<1> HIDE DEF os
<1>4. /\ BufsTrue' /\ buf' \in [Request -> Buffer] /\ signalled' \subseteq Request
      /\ \A x \in Request : /\ buf[x].error => buf'[x].error
                            /\ buf[x].error \/ buf[x].end # "no" => buf'[x].error \/ buf'[x].end # "no"
                            /\ \A o \in os : x \in collected /\ o.req = x =>
                                 /\ buf'[x].end = o.end
                                 /\ o.end = "error" => buf'[x].error
  <2>1. UNCHANGED <<collected, length, upto>>
    BY <1>1
  <2>2. QED BY <1>1, <1>3, <2>1, PutAllBufs
<1>5. \A x \in collected : buf'[x].error
  BY <1>2, <1>3, <1>4
<1>6. /\ QueueTypes' /\ SchedTypes' /\ StoreTypes' /\ Places' /\ Lengths' /\ RowsOwned'
      /\ W' = W /\ P' = P /\ R' = R /\ T' = T /\ L' = L /\ Chunking' = Chunking
      /\ InScheduler' = InScheduler /\ \A x : RowsOf(x)' = RowsOf(x)
  <2>1. aborts' \subseteq Request /\ ipc' \in Phases /\ outs' \subseteq OutputSet /\ clearIn' \in Nat
    BY <1>1, <1>2 DEF SchedTypes
  <2>2. QED BY <1>1, <2>1, SchedulerSame
<1>7. LoopTypes' /\ ReaderTypes'
  BY <1>1, <1>4 DEF LoopTypes, ReaderTypes
<1>8. Flow' /\ JobsOwn' /\ ChunksQueued' /\ OutputsTrue'
  BY <1>1, <1>6 DEF Flow, JobsOwn, ChunksQueued, OutputsTrue, SaysTrue
<1>9. Enters'
  <2>1. \A x \in Request : Fresh(x) => Fresh(x)'
    BY <1>1, <1>6 DEF Fresh
  <2>2. QED BY <1>1, <1>2, <2>1 DEF Enters, Entering
<1>10. Held'
  <2>1. ASSUME NEW x \in Request, Answered(x) PROVE Answered(x)'
    BY <1>1, <1>4, <1>6, <2>1 DEF Answered
  <2>2. \A x \in aborts : x \in Request
    BY DEF SchedTypes
  <2>3. QED BY <1>1, <1>4, <1>5, <1>6, <2>1, <2>2 DEF Held
<1>11. QED BY <1>4, <1>6, <1>7, <1>8, <1>9, <1>10

\* A consumer takes what its collector holds.
LEMMA ConsumeKeeps ==
  ASSUME IInv, NEW r \in Request, Consume(r)
  PROVE  IInv'
<1> USE DEF IInv
<1>1. /\ consumer[r] = "open" /\ upto' = [upto EXCEPT ![r] = LastOf(buf[r].tokens, @)]
      /\ UNCHANGED <<schedVars, loopVars, events>>
      /\ \/ consumer' = [consumer EXCEPT ![r] = "failed"] /\ Forget(r)
         \/ consumer' = [consumer EXCEPT ![r] = "finished"] /\ Forget(r)
         \/ /\ ~ buf[r].error /\ buf[r].end = "no" /\ buf' = [buf EXCEPT ![r] = NoBuf]
            /\ UNCHANGED <<consumer, collected, signalled>>
  BY DEF Consume
<1>2. upto' \in [Request -> Nat] /\ \A x \in Request : upto'[x] <= Tokens[x]
  <2> DEFINE s == buf[r].tokens
  <2>1. s \in Seq(Nat) /\ upto \in [Request -> Nat] /\ (\A i \in DOMAIN s : s[i] <= Tokens[r])
        /\ \A x \in Request : upto[x] <= Tokens[x]
    BY DEF ReaderTypes, Buffer, BufsTrue, BufTrue
  <2>2. LastOf(s, upto[r]) \in Nat /\ LastOf(s, upto[r]) <= Tokens[r]
    <3>1. CASE s = <<>>
      BY <2>1, <3>1 DEF LastOf
    <3>2. CASE s # <<>>
      <4>1. Len(s) \in DOMAIN s
        BY <2>1, <3>2, LenProperties, EmptySeq
      <4>2. s[Len(s)] \in Nat
        BY <2>1, <4>1, ElementOfSeq, LenProperties
      <4>3. QED BY <2>1, <3>2, <4>1, <4>2 DEF LastOf
    <3>3. QED BY <3>1, <3>2
  <2> HIDE DEF s
  <2>3. upto' = [upto EXCEPT ![r] = LastOf(s, upto[r])]
    BY <1>1 DEF s
  <2>4. QED BY <2>1, <2>2, <2>3
<1>3. /\ QueueTypes' /\ SchedTypes' /\ StoreTypes' /\ Places' /\ Lengths' /\ RowsOwned'
      /\ W' = W /\ P' = P /\ R' = R /\ T' = T /\ L' = L /\ Chunking' = Chunking
      /\ InScheduler' = InScheduler /\ \A x : RowsOf(x)' = RowsOf(x)
  BY <1>1, SchedulerSame DEF SchedTypes
<1>4. /\ BufsTrue' /\ buf' \in [Request -> Buffer] /\ signalled' \subseteq Request
      /\ \A x \in Request \ {r} : buf'[x] = buf[x]
      /\ \/ consumer'[r] \in Ends /\ collected' = collected \ {r}
         \/ consumer'[r] = "open" /\ collected' = collected /\ ~ buf[r].error /\ buf[r].end = "no"
      /\ consumer' \in [Request -> {"none", "adding", "open", "leaving"} \cup Ends]
      /\ \A x \in Request \ {r} : consumer'[x] = consumer[x]
  <2>1. CASE Forget(r) /\ consumer' \in {[consumer EXCEPT ![r] = "failed"], [consumer EXCEPT ![r] = "finished"]}
    <3>1. UNCHANGED length
      BY <1>1
    <3>2. /\ BufsTrue' /\ buf' \in [Request -> Buffer] /\ signalled' \subseteq Request
          /\ collected' = collected \ {r} /\ \A x \in Request \ {r} : buf'[x] = buf[x]
      BY <1>2, <2>1, <3>1, ForgetBuf
    <3>3. QED BY <2>1, <3>2 DEF ReaderTypes, Ends
  <2>2. CASE /\ ~ buf[r].error /\ buf[r].end = "no" /\ buf' = [buf EXCEPT ![r] = NoBuf]
             /\ UNCHANGED <<consumer, collected, signalled>>
    <3>1. NoBuf \in Buffer
      BY DEF NoBuf, Buffer
    <3>2. buf' \in [Request -> Buffer] /\ buf'[r] = NoBuf /\ \A x \in Request \ {r} : buf'[x] = buf[x]
      BY <2>2, <3>1 DEF ReaderTypes
    <3>3. BufTrue(r)'
      BY <1>2, <2>2, <3>2 DEF BufsTrue, BufTrue, NoBuf
    <3>4. ASSUME NEW x \in Request \ {r} PROVE BufTrue(x)'
      BY <1>1, <1>2, <2>2, <3>2 DEF BufsTrue, BufTrue
    <3>5. BufsTrue'
      BY <3>3, <3>4 DEF BufsTrue
    <3>6. QED BY <1>1, <2>2, <3>2, <3>5 DEF ReaderTypes
  <2>3. QED BY <1>1, <2>1, <2>2
<1>5. ReaderTypes'
  <2>1. collected' = {x \in Request : consumer'[x] \in {"adding", "open", "leaving"}}
    BY <1>1, <1>4 DEF ReaderTypes, Ends
  <2>2. QED BY <1>1, <1>2, <1>4, <2>1 DEF ReaderTypes
<1>6. LoopTypes' /\ Flow' /\ JobsOwn' /\ ChunksQueued' /\ OutputsTrue'
  BY <1>1, <1>3 DEF LoopTypes, Flow, JobsOwn, ChunksQueued, OutputsTrue, SaysTrue
<1>7. Enters'
  <2>1. \A x \in Request : Fresh(x) => Fresh(x)'
    BY <1>1, <1>3 DEF Fresh
  <2>2. \A x \in Request : consumer'[x] = "none" => consumer[x] = "none"
    BY <1>1, <1>4 DEF Ends
  <2>3. QED BY <1>1, <2>1, <2>2 DEF Enters, Entering
<1>8. Held'
  <2>1. ASSUME NEW x \in Request, consumer'[x] \in {"adding", "open"}
        PROVE  /\ consumer[x] = consumer'[x]
               /\ buf'[x] = buf[x] \/ (~ buf[x].error /\ buf[x].end = "no")
    BY <1>1, <1>4, <2>1 DEF Ends
  <2>2. ASSUME NEW x \in Request, consumer'[x] = "open", Answered(x) PROVE Answered(x)'
    BY <1>1, <1>3, <2>1, <2>2 DEF Answered
  <2>3. ASSUME NEW x \in aborts', consumer'[x] \in {"adding", "open"} PROVE buf'[x].error
    <3>1. x \in Request /\ x \in aborts
      BY <1>1, <1>3 DEF SchedTypes
    <3>2. QED BY <2>1, <2>3, <3>1 DEF Held
  <2>4. QED BY <1>1, <1>3, <2>1, <2>2, <2>3 DEF Held
<1>9. QED BY <1>3, <1>4, <1>5, <1>6, <1>7, <1>8

\* A client that goes takes its collector with it, at once or when its generator is.
LEMMA LeftKeeps ==
  ASSUME IInv, NEW r \in Request, consumer[r] \in {"open", "leaving"},
         consumer' = [consumer EXCEPT ![r] = "left"], Forget(r),
         aborts' \in {aborts, aborts \cup {r}}, events' \in Nat,
         UNCHANGED <<queues, batch, storing, progress, clearIn, phase, faults, lost, loopVars, upto>>
  PROVE  IInv'
<1> USE DEF IInv
<1>1. /\ BufsTrue' /\ buf' \in [Request -> Buffer] /\ signalled' \subseteq Request
      /\ collected' = collected \ {r} /\ \A x \in Request \ {r} : buf'[x] = buf[x]
  <2>1. upto' \in [Request -> Nat] /\ \A x \in Request : upto'[x] <= Tokens[x]
    BY DEF BufsTrue, BufTrue, ReaderTypes
  <2>2. UNCHANGED length
    OBVIOUS
  <2>3. QED BY <2>1, <2>2, ForgetBuf
<1>2. /\ consumer' \in [Request -> {"none", "adding", "open", "leaving"} \cup Ends]
      /\ consumer'[r] = "left" /\ \A x \in Request \ {r} : consumer'[x] = consumer[x]
  BY DEF ReaderTypes, Ends
<1>3. /\ QueueTypes' /\ SchedTypes' /\ StoreTypes' /\ Places' /\ Lengths' /\ RowsOwned'
      /\ W' = W /\ P' = P /\ R' = R /\ T' = T /\ L' = L /\ Chunking' = Chunking
      /\ InScheduler' = InScheduler /\ \A x : RowsOf(x)' = RowsOf(x)
  <2>1. aborts' \subseteq Request /\ ipc' \in Phases /\ outs' \subseteq OutputSet /\ clearIn' \in Nat
    BY DEF SchedTypes
  <2>2. QED BY <2>1, SchedulerSame
<1>4. ReaderTypes'
  <2>1. collected' = {x \in Request : consumer'[x] \in {"adding", "open", "leaving"}}
    BY <1>1, <1>2 DEF ReaderTypes
  <2>2. QED BY <1>1, <1>2, <2>1 DEF ReaderTypes
<1>5. LoopTypes' /\ Flow' /\ JobsOwn' /\ ChunksQueued' /\ OutputsTrue'
  BY <1>3 DEF LoopTypes, Flow, JobsOwn, ChunksQueued, OutputsTrue, SaysTrue
<1>6. Enters'
  <2>1. \A x \in Request : Fresh(x) => Fresh(x)'
    BY <1>3 DEF Fresh
  <2>2. \A x \in Request : consumer'[x] = "none" => consumer[x] = "none" /\ x # r
    BY <1>2
  <2>3. QED BY <2>1, <2>2 DEF Enters, Entering
<1>7. Held'
  <2>1. ASSUME NEW x \in Request, consumer'[x] \in {"adding", "open"}
        PROVE  x # r /\ consumer[x] = consumer'[x] /\ buf'[x] = buf[x]
    BY <1>1, <1>2, <2>1
  <2>2. ASSUME NEW x \in Request, consumer'[x] = "open", Answered(x) PROVE Answered(x)'
    BY <1>3, <2>1, <2>2 DEF Answered
  <2>3. ASSUME NEW x \in aborts', consumer'[x] \in {"adding", "open"} PROVE buf'[x].error
    <3>1. x \in Request /\ x \in aborts
      BY <1>3, <2>1, <2>3 DEF SchedTypes
    <3>2. QED BY <2>1, <2>3, <3>1 DEF Held
  <2>4. QED BY <1>3, <2>1, <2>2, <2>3 DEF Held
<1>8. QED BY <1>1, <1>3, <1>4, <1>5, <1>6, <1>7

\* A client leaves, whose stream is read as it comes or awaited as a whole.
LEMMA LeaveKeeps ==
  ASSUME IInv, NEW r \in Request, Leave(r)
  PROVE  IInv'
<1>1. events' \in Nat
  BY DEF Leave, IInv, ReaderTypes
<1>2. CASE r \notin Streaming
  <2>1. /\ consumer[r] = "open" /\ consumer' = [consumer EXCEPT ![r] = "left"] /\ Forget(r)
        /\ aborts' = aborts \cup {r}
        /\ UNCHANGED <<queues, batch, storing, progress, clearIn, phase, faults, lost, loopVars, upto>>
    BY <1>2 DEF Leave, AbortRequest
  <2>2. QED BY <1>1, <2>1, LeftKeeps
<1>3. CASE r \in Streaming
  <2> USE DEF IInv
  <2> DEFINE os == {Error(x) : x \in {r}}
  <2>1. /\ consumer[r] = "open" /\ consumer' = [consumer EXCEPT ![r] = "leaving"]
        /\ aborts' = aborts \cup {r} /\ PutAll(os)
        /\ UNCHANGED <<queues, batch, storing, progress, clearIn, phase, faults, lost, loopVars,
                       collected, upto>>
    BY <1>3 DEF Leave, Aborting
  <2>2. {r} \in SUBSET Request
    OBVIOUS
  <2>3. /\ os \in SUBSET OutputSet /\ (\A o \in os : SaysTrue(o))
        /\ (\A o, p \in os : o.req = p.req => o = p)
    BY <2>2, ErrorsTrue
  <2> HIDE DEF os
  <2>4. /\ BufsTrue' /\ buf' \in [Request -> Buffer] /\ signalled' \subseteq Request
        /\ \A x \in Request : /\ buf[x].error => buf'[x].error
                              /\ buf[x].error \/ buf[x].end # "no" => buf'[x].error \/ buf'[x].end # "no"
    <3>1. UNCHANGED <<collected, length, upto>>
      BY <2>1
    <3>2. QED BY <2>1, <2>3, <3>1, PutAllBufs
  <2>5. /\ consumer' \in [Request -> {"none", "adding", "open", "leaving"} \cup Ends]
        /\ consumer'[r] = "leaving" /\ \A x \in Request \ {r} : consumer'[x] = consumer[x]
    BY <2>1 DEF ReaderTypes
  <2>6. /\ QueueTypes' /\ SchedTypes' /\ StoreTypes' /\ Places' /\ Lengths' /\ RowsOwned'
        /\ W' = W /\ P' = P /\ R' = R /\ T' = T /\ L' = L /\ Chunking' = Chunking
        /\ InScheduler' = InScheduler /\ \A x : RowsOf(x)' = RowsOf(x)
    <3>1. aborts' \subseteq Request /\ ipc' \in Phases /\ outs' \subseteq OutputSet /\ clearIn' \in Nat
      BY <2>1 DEF SchedTypes
    <3>2. QED BY <2>1, <3>1, SchedulerSame
  <2>7. ReaderTypes'
    <3>1. collected' = {x \in Request : consumer'[x] \in {"adding", "open", "leaving"}}
      BY <2>1, <2>5 DEF ReaderTypes
    <3>2. QED BY <1>1, <2>1, <2>4, <2>5, <3>1 DEF ReaderTypes
  <2>8. LoopTypes' /\ Flow' /\ JobsOwn' /\ ChunksQueued' /\ OutputsTrue'
    BY <2>1, <2>6 DEF LoopTypes, Flow, JobsOwn, ChunksQueued, OutputsTrue, SaysTrue
  <2>9. Enters'
    <3>1. \A x \in Request : Fresh(x) => Fresh(x)'
      BY <2>1, <2>6 DEF Fresh
    <3>2. \A x \in Request : consumer'[x] = "none" => consumer[x] = "none" /\ x # r
      BY <2>5
    <3>3. QED BY <2>1, <3>1, <3>2 DEF Enters, Entering
  <2>10. Held'
    <3>1. ASSUME NEW x \in Request, consumer'[x] \in {"adding", "open"}
          PROVE  x # r /\ consumer[x] = consumer'[x]
      BY <2>5, <3>1
    <3>2. ASSUME NEW x \in Request, consumer'[x] = "open", Answered(x) PROVE Answered(x)'
      BY <2>1, <2>4, <2>6, <3>1, <3>2 DEF Answered
    <3>3. ASSUME NEW x \in aborts', consumer'[x] \in {"adding", "open"} PROVE buf'[x].error
      <4>1. x \in Request /\ x \in aborts
        BY <2>1, <2>6, <3>1, <3>3 DEF SchedTypes
      <4>2. QED BY <2>4, <3>1, <3>3, <4>1 DEF Held
    <3>4. QED BY <2>1, <2>6, <3>1, <3>2, <3>3 DEF Held
  <2>11. QED BY <2>4, <2>6, <2>7, <2>8, <2>9, <2>10
<1>4. QED BY <1>2, <1>3

\* The generator of a client that left is closed.
LEMMA ConsumerGoneKeeps ==
  ASSUME IInv, NEW r \in Request, ConsumerGone(r)
  PROVE  IInv'
<1>1. events' \in Nat
  BY DEF ConsumerGone, IInv, ReaderTypes
<1>2. /\ consumer[r] = "leaving" /\ consumer' = [consumer EXCEPT ![r] = "left"] /\ Forget(r)
      /\ aborts' = aborts
      /\ UNCHANGED <<queues, batch, storing, progress, clearIn, phase, faults, lost, loopVars, upto>>
  BY DEF ConsumerGone
<1>3. QED BY <1>1, <1>2, LeftKeeps
------------------------------------------------------------------------------
(* The invariant *)

\* The invariant holds at the start.
LEMMA InitInv ==
  ASSUME Init
  PROVE  IInv
<1> USE DEF Init, SchedInit
<1>1. /\ W = {} /\ P = {} /\ R = {} /\ T = {} /\ L = {} /\ Chunking = {} /\ InScheduler = {}
      /\ \A x : RowsOf(x) = {}
  <2>1. W = {} /\ P = {} /\ R = {} /\ T = {} /\ L = {}
    BY EmptyQueue DEF W, P, R, T, L
  <2>2. Chunking = {}
    BY DEF Chunking
  <2>3. \A x : RowsOf(x) = {}
    BY DEF RowsOf, NoRows
  <2>4. QED BY <2>1, <2>2, <2>3 DEF InScheduler
<1>2. QueueTypes
  BY EmptyQueue DEF QueueTypes
<1>3. SchedTypes
  <2>1. rows \in [DOMAIN rows -> Request] /\ DOMAIN rows \subseteq Nat
    BY DEF NoRows
  <2>2. ridOf \in [DOMAIN ridOf -> Request] /\ DOMAIN ridOf \subseteq Nat
    BY DEF NoRows
  <2>3. /\ states \in [Request -> Nat] /\ produced \in [Request -> Nat]
        /\ retries \in [Request -> Nat] /\ length \in [Request -> Nat]
        /\ uidOf \in [Request -> Nat \cup {NoUid, TempUid}]
    OBVIOUS
  <2>4. QED BY <2>1, <2>2, <2>3 DEF SchedTypes, Phases
<1>4. StoreTypes
  <2>1. stores \in Seq(Request) /\ IsInjective(stores) /\ removes \in Seq([uid : Nat, req : Request])
        /\ Len(stores) = 0
    BY EmptyQueue
  <2>2. cap \in 1 .. MaxSeqs /\ 0 <= MaxSeqs
    BY SchedulerAssumption
  <2>3. QED BY <2>1, <2>2 DEF StoreTypes
<1>5. LoopTypes
  <2>1. jobs \in Seq(Job)
    BY EmptyQueue
  <2>2. QED BY <2>1 DEF LoopTypes
<1>6. ReaderTypes
  <2>1. NoBuf \in Buffer
    BY DEF NoBuf, Buffer
  <2>2. QED BY <2>1 DEF ReaderTypes
<1>7. \A x \in Request : Tokens[x] \in Nat /\ Tokens[x] > 0
  BY SchedulerAssumption
<1>8. Flow /\ JobsOwn
  BY DEF Flow, JobsOwn
<1>9. Places /\ ChunksQueued
  BY <1>1 DEF Places, ChunksQueued
<1>10. Lengths
  <2>0. ToSet(<<>>) = {}
    BY EmptyQueue
  <2>1. ToSet(stores) = {} /\ stored = {} /\ finishing = {} /\ DOMAIN removes = {}
    BY <2>0
  <2>2. \A x \in Request : produced[x] <= Tokens[x] /\ length[x] <= Tokens[x]
    BY <1>7
  <2>3. QED BY <1>1, <2>1, <2>2 DEF Lengths
<1>11. Enters
  <2>1. \A x \in Request : Fresh(x)
    <3>1. requests = {} /\ rejects = {} /\ outs \cup given = {}
      OBVIOUS
    <3>2. \A x \in Request : length[x] = 0 /\ produced[x] = 0
      OBVIOUS
    <3>3. QED BY <1>1, <3>1, <3>2 DEF Fresh
  <2>2. DOMAIN jobs = {} /\ aborts = {} /\ adding \notin Request
    BY SchedulerAssumption
  <2>3. QED BY <2>1, <2>2 DEF Enters
<1>12. RowsOwned /\ OutputsTrue
  BY <1>1 DEF RowsOwned, OutputsTrue, NoRows
<1>13. BufsTrue
  BY <1>7 DEF BufsTrue, BufTrue, NoBuf
<1>14. Held
  BY DEF Held
<1>15. QED
  BY <1>2, <1>3, <1>4, <1>5, <1>6, <1>8, <1>9, <1>10, <1>11, <1>12, <1>13, <1>14 DEF IInv

\* A step that changes nothing.
LEMMA StutterKeeps ==
  ASSUME IInv, UNCHANGED vars
  PROVE  IInv'
<1> USE DEF IInv, vars
<1>1. W' = W /\ R' = R /\ P' = P /\ T' = T /\ L' = L /\ Chunking' = Chunking
  BY DEF W, R, P, T, L, Chunking
<1>2. QueueTypes' /\ SchedTypes' /\ StoreTypes' /\ LoopTypes' /\ ReaderTypes' /\ BufsTrue'
  BY DEF QueueTypes, SchedTypes, StoreTypes, LoopTypes, ReaderTypes, BufsTrue, BufTrue
<1>3. Flow' /\ JobsOwn' /\ Places' /\ ChunksQueued' /\ Lengths'
  BY <1>1 DEF Flow, JobsOwn, Places, ChunksQueued, InScheduler, Lengths
<1>4. Enters' /\ RowsOwned' /\ OutputsTrue' /\ Held'
  BY <1>1
  DEF Enters, Entering, Fresh, RowsOf, RowsOwned, OutputsTrue, SaysTrue, Held, Answered, InScheduler
<1>5. QED BY <1>2, <1>3, <1>4

\* A sparse prefill fails: its request stays where it is, to be prefilled in full.
LEMMA SparseFailsKeeps ==
  ASSUME IInv, SparseFails, UNCHANGED engineVars
  PROVE  IInv'
<1> USE DEF IInv
<1>1. /\ faults' \in Nat
      /\ UNCHANGED <<queues, batch, aborts, storing, progress, clearIn, ipc, todo, still,
                     finishing, rejects, outs, lost, engineVars>>
  BY DEF SparseFails, Fault, SchedTypes
<1>2. W' = W /\ R' = R /\ P' = P /\ T' = T /\ L' = L /\ Chunking' = Chunking
  BY <1>1 DEF W, R, P, T, L, Chunking
<1>3. QueueTypes' /\ SchedTypes' /\ StoreTypes' /\ LoopTypes' /\ ReaderTypes' /\ BufsTrue'
  BY <1>1
  DEF QueueTypes, SchedTypes, StoreTypes, LoopTypes, ReaderTypes, BufsTrue, BufTrue
<1>4. Flow' /\ JobsOwn' /\ Places' /\ ChunksQueued' /\ Lengths'
  BY <1>1, <1>2 DEF Flow, JobsOwn, Places, ChunksQueued, InScheduler, Lengths
<1>5. Enters' /\ RowsOwned' /\ OutputsTrue' /\ Held'
  BY <1>1, <1>2
  DEF Enters, Entering, Fresh, RowsOf, RowsOwned, OutputsTrue, SaysTrue, Held, Answered, InScheduler
<1>6. QED BY <1>3, <1>4, <1>5

\* Every step keeps the invariant.
LEMMA NextInv ==
  ASSUME IInv, [Next]_vars
  PROVE  IInv'
<1>1. ASSUME StepPhase, UNCHANGED engineVars PROVE IInv'
  <2>1. ASSUME NEW r \in Request, DoAbort(r) \/ CleanupStore(r) \/ CleanupNow(r) PROVE IInv'
    BY <1>1, <2>1, DoAbortKeeps, CleanupStoreKeeps, CleanupNowKeeps
  <2>2. CASE Drain \/ DrainDone \/ NextChunk \/ ChunkRaises
    BY <1>1, <2>2, DrainKeeps, DrainDoneKeeps, NextChunkKeeps, ChunkRaisesKeeps
  <2>3. CASE ScheduleRefused \/ ScheduleChunked \/ ScheduleRaises \/ ScheduleDone
    BY <1>1, <2>3, ScheduleRefusedKeeps, ScheduleChunkedKeeps, ScheduleRaisesKeeps, ScheduleDoneKeeps
  <2>4. ASSUME NEW back \in BOOLEAN, ScheduleAborted(back) PROVE IInv'
    BY <1>1, <2>4, ScheduleAbortedKeeps
  <2>5. CASE Decode \/ DecodeRaises
    BY <1>1, <2>5, DecodeKeeps, DecodeRaisesKeeps
  <2>6. CASE SparseFails
    BY <1>1, <2>6, SparseFailsKeeps
  <2>7. QED BY <1>1, <2>1, <2>2, <2>3, <2>4, <2>5, <2>6 DEF StepPhase
<1>2. CASE AddBegins \/ AddEnds \/ AddRefused
  BY <1>2, AddBeginsKeeps, AddEndsKeeps, AddRefusedKeeps
<1>3. CASE StepBegins \/ StepEnds \/ StepFails \/ FailAllRequests
  BY <1>3, StepBeginsKeeps, StepEndsKeeps, StepFailsKeeps, FailAllRequestsKeeps
<1>4. CASE StoreWorker
  BY <1>4, StoreDoneKeeps DEF StoreWorker
<1>5. CASE EngineLoop
  BY <1>5, SubmitStepKeeps, DistributeKeeps DEF EngineLoop
<1>6. ASSUME NEW r \in Request, AddRequest(r) \/ AddCancelled(r) \/ Leave(r) \/ Consumer(r) PROVE IInv'
  BY <1>6, AddRequestKeeps, AddCancelledKeeps, LeaveKeeps, ConsumeKeeps, ConsumerGoneKeeps DEF Consumer
<1>7. CASE AbortAll \/ CapAdjusted
  BY <1>7, AbortAllKeeps, CapAdjustedKeeps
<1>8. CASE Idle \/ UNCHANGED vars
  BY <1>8, StutterKeeps DEF Idle
<1>9. QED BY <1>1, <1>2, <1>3, <1>4, <1>5, <1>6, <1>7, <1>8 DEF Next, Inference

\* The invariant holds in every state, for any requests, limits and faults.
THEOREM SpecInv == Spec => []IInv
<1>1. Init => IInv
  BY InitInv
<1>2. IInv /\ [Next]_vars => IInv'
  BY NextInv
<1>3. QED BY <1>1, <1>2, PTL DEF Spec

\* What SpecPrefill keeps: the scored requests that are left, the one marked active, and
\* what the batch of _schedule_waiting is made of.
SparseTypes ==
  /\ indices \subseteq Sparse /\ active \in Request \cup {NoReq}
  /\ makeup \in {"none", "plain", "sparse", "alone", "fallen"}

\* Only a request that is taken from the waiting queue is marked.
LEMMA SparseTyped == IInv /\ SparseTypes /\ [Next]_vars => SparseTypes'
<1> SUFFICES ASSUME IInv, SparseTypes, [Next]_vars PROVE SparseTypes'
  OBVIOUS
<1> USE DEF SparseTypes
<1>1. CASE ScheduleRefused \/ ScheduleChunked \/ SparseFails \/ ScheduleRaises
           \/ \E back \in BOOLEAN : ScheduleAborted(back)
  <2>1. Takeable
    BY <1>1 DEF ScheduleRefused, ScheduleChunked, SparseFails, ScheduleRaises, ScheduleAborted
  <2>2. Head(waiting) \in Request
    BY <2>1, TakeWaiting DEF Takeable
  <2>3. indices' \subseteq indices /\ active' \in {active, Head(waiting)}
    BY <1>1
    DEF ScheduleRefused, ScheduleChunked, SparseFails, ScheduleRaises, ScheduleAborted
  <2>4. makeup' \in {makeup, With(TRUE), With(FALSE), "fallen"}
    BY <1>1
    DEF ScheduleRefused, ScheduleChunked, SparseFails, ScheduleRaises, ScheduleAborted
  <2>5. QED BY <2>2, <2>3, <2>4 DEF With
<1>2. CASE Drain \/ DrainDone \/ NextChunk \/ ChunkRaises \/ ScheduleDone \/ Decode \/ DecodeRaises
  BY <1>2 DEF Drain, DrainDone, NextChunk, ChunkRaises, ScheduleDone, Decode, DecodeRaises
<1>3. ASSUME NEW r \in Request, DoAbort(r) \/ CleanupStore(r) \/ CleanupNow(r)
      PROVE  SparseTypes'
  BY <1>3 DEF DoAbort, CleanupStore, CleanupNow, Cleared
<1>4. CASE AddBegins \/ AddEnds \/ AddRefused \/ StepBegins \/ StepEnds \/ StepFails
           \/ FailAllRequests \/ StoreWorker \/ EngineLoop \/ AbortAll \/ CapAdjusted \/ Idle
           \/ UNCHANGED vars
  <2>1. UNCHANGED <<indices, active, makeup>>
    BY <1>4
    DEF AddBegins, AddEnds, Admit, AddRefused, StepBegins, StepEnds, StepFails, FailAllRequests,
        FailAll, StoreWorker, StoreDone, EngineLoop, SubmitStep, Distribute, AbortAll,
        CapAdjusted, AdjustCap, Idle, vars, sparse
  <2>2. QED BY <2>1
<1>5. ASSUME NEW r \in Request, AddRequest(r) \/ AddCancelled(r) \/ Leave(r) \/ Consumer(r)
      PROVE  SparseTypes'
  <2>1. UNCHANGED <<indices, active, makeup>>
    BY <1>5 DEF AddRequest, AddCancelled, Leave, Consumer, Consume, ConsumerGone, sparse
  <2>2. QED BY <2>1
<1>6. QED BY <1>1, <1>2, <1>3, <1>4, <1>5 DEF Next, Inference, StepPhase

\* Types hold, a request is in a queue once, waits or runs but not both, and is
\* in requests while it does; no counter passes its limit.
THEOREM TypesCorrect == Spec => []TypeOK
<1>1. ASSUME IInv, SparseTypes PROVE TypeOK
  <2> USE <1>1 DEF IInv
  <2>1. /\ {waiting, prefilling, running, stores, todo, still} \subseteq Seq(Request)
        /\ \A q \in {waiting, prefilling, running, stores} : IsInjective(q)
    BY DEF QueueTypes, StoreTypes
  <2>2. W \cup R \subseteq requests /\ W \cap R = {}
    BY DEF Places, InScheduler
  <2>3. DOMAIN rows \subseteq 0 .. nextUid - 1
    BY DEF RowsOwned, SchedTypes
  <2>4. \A r \in Request : {produced[r], length[r], upto[r]} \subseteq 0 .. Tokens[r]
    <3>1. ASSUME NEW r \in Request PROVE {produced[r], length[r], upto[r]} \subseteq 0 .. Tokens[r]
      <4>1. Tokens[r] \in Nat /\ produced[r] \in Nat /\ length[r] \in Nat /\ upto[r] \in Nat
        BY SchedulerAssumption DEF SchedTypes, ReaderTypes
      <4>2. produced[r] <= Tokens[r] /\ length[r] <= Tokens[r] /\ upto[r] <= Tokens[r]
        BY DEF Lengths, BufsTrue, BufTrue
      <4>3. QED BY <4>1, <4>2
    <3>2. QED BY <3>1
  <2>5. /\ requests \subseteq Request /\ aborts \subseteq Request
        /\ rows \in [DOMAIN rows -> Request]
        /\ uidOf \in [Request -> Nat \cup {NoUid, TempUid}]
        /\ ridOf \in [DOMAIN ridOf -> Request] /\ DOMAIN ridOf \cup {nextUid} \subseteq Nat
        /\ stored \cup finishing \cup rejects \cup lost \subseteq Request
    BY DEF SchedTypes, StoreTypes
  <2>6. /\ removes \in Seq([uid : Nat, req : Request])
        /\ inFlight = Len(stores) /\ inFlight <= MaxSeqs /\ cap \in 1 .. MaxSeqs
    BY DEF StoreTypes
  <2>7. /\ consumer \in [Request -> {"none", "adding", "open", "leaving"} \cup Ends]
        /\ collected = {r \in Request : consumer[r] \in {"adding", "open", "leaving"}}
    BY DEF ReaderTypes
  <2>8. QED BY <1>1, <2>1, <2>2, <2>3, <2>4, <2>5, <2>6, <2>7 DEF TypeOK, SparseTypes, W, R
<1>2. Init => SparseTypes
  BY DEF Init, SchedInit, SparseTypes
<1>3. QED BY <1>1, <1>2, SparseTyped, SpecInv, PTL DEF Spec

\* Whatever resets the generator, reuses its uids or puts a removal off, a row's
\* responses go to the request whose generation it is.
THEOREM RowsCorrect == Spec => []OwnRow
<1>1. IInv => OwnRow
  BY DEF IInv, RowsOwned, OwnRow
<1>2. QED BY <1>1, SpecInv, PTL

\* Between two steps a running request has a row, unless an abort took it with
\* a uid that it had been given too.
THEOREM RunningRows == Spec => []RunningHasRow
<1>1. IInv => RunningHasRow
  BY DEF IInv, RowsOwned, RunningHasRow, R
<1>2. QED BY <1>1, SpecInv, PTL

\* A client that waits is never forgotten: through aborts, refusals, restarts
\* of the generator, failing steps and cancelled submissions, its request is in
\* a queue or its end is on the way.
THEOREM NobodyStranded == Spec => []NoneStranded
<1>1. ASSUME IInv PROVE NoneStranded
  <2> USE <1>1 DEF IInv
  <2>1. ASSUME NEW r \in Request, consumer[r] = "open", r \notin lost PROVE Under(r)
    <3>1. CASE r \in W \cup R
      BY <3>1 DEF Under, W, R
    <3>2. CASE r \in Chunking
      BY <3>2 DEF Under, Chunking, ChunksQueued, P
    <3>3. CASE r \in P /\ (ipc = "raise" \/ loop = "fail")
      BY <3>3 DEF Under, Failed, P
    <3>4. CASE r \in rejects \/ \E o \in outs \cup given : o.req = r /\ o.end # "no"
      BY <3>4 DEF Under
    <3>5. CASE buf[r].error \/ buf[r].end # "no"
      BY <3>5 DEF Under, BufsTrue, BufTrue
    <3>6. QED BY <2>1, <3>1, <3>2, <3>3, <3>4, <3>5 DEF Held, Answered, InScheduler
  <2>2. QED BY <2>1 DEF NoneStranded
<1>2. QED BY <1>1, SpecInv, PTL

------------------------------------------------------------------------------
(* The streams that the readers see *)

\* What one consumer's move shows.
LEMMA ShownMove ==
  ASSUME IInv, NEW r \in Request, NEW c, consumer' = [consumer EXCEPT ![r] = c]
  PROVE  /\ Shown \in [Request -> {"none", "open"} \cup Ends]
         /\ Shown' = [Shown EXCEPT ![r] = IF c \in {"adding", "open", "leaving"} THEN "open" ELSE c]
         /\ Shown[r] = IF consumer[r] \in {"adding", "open", "leaving"} THEN "open" ELSE consumer[r]
         /\ upto = [upto EXCEPT ![r] = upto[r]]
         /\ upto[r] \in 0 .. Tokens[r]
<1> USE DEF IInv
<1>1. consumer \in [Request -> {"none", "adding", "open", "leaving"} \cup Ends] /\ upto \in [Request -> Nat]
  BY DEF ReaderTypes
<1>2. Shown \in [Request -> {"none", "open"} \cup Ends]
  BY <1>1 DEF Shown, Ends
<1>3. \A x \in Request : consumer'[x] = IF x = r THEN c ELSE consumer[x]
  BY <1>1
<1>4. Shown' = [Shown EXCEPT ![r] = IF c \in {"adding", "open", "leaving"} THEN "open" ELSE c]
  BY <1>3 DEF Shown
<1>5. Shown[r] = IF consumer[r] \in {"adding", "open", "leaving"} THEN "open" ELSE consumer[r]
  BY DEF Shown
<1>6. upto[r] \in 0 .. Tokens[r]
  BY <1>1, SchedulerAssumption DEF BufsTrue, BufTrue
<1>7. upto = [upto EXCEPT ![r] = upto[r]]
  BY <1>1
<1>8. QED BY <1>2, <1>4, <1>5, <1>6, <1>7

\* What leaves consumers, their responses and the lengths alone shows nothing.
LEMMA NothingShown ==
  ASSUME UNCHANGED <<consumer, upto, length>>
  PROVE  UNCHANGED Stream!vars
BY DEF Stream!vars, Shown

\* Reading is giving, finishing or failing: the end of a stream is that of its
\* generation, and the last response given the last one there was.
LEMMA ConsumeShown ==
  ASSUME IInv, NEW r \in Request, Consume(r)
  PROVE  Stream!Next
<1> USE DEF IInv
<1> DEFINE n == LastOf(buf[r].tokens, upto[r])
<1>1. /\ consumer[r] = "open" /\ (r \in Streaming \/ r \in signalled)
      /\ upto' = [upto EXCEPT ![r] = n] /\ length' = length
  BY DEF Consume
<1>2. n \in 0 .. Tokens[r]
  <2>1. /\ buf[r].tokens \in Seq(Nat) /\ upto[r] \in Nat /\ Tokens[r] \in Nat /\ upto[r] <= Tokens[r]
        /\ \A i \in DOMAIN buf[r].tokens : buf[r].tokens[i] <= Tokens[r]
    BY SchedulerAssumption DEF ReaderTypes, Buffer, BufsTrue, BufTrue
  <2>2. CASE buf[r].tokens = <<>>
    BY <2>1, <2>2 DEF LastOf
  <2> DEFINE s == buf[r].tokens
  <2>3. CASE s # <<>>
    <3> HIDE DEF s
    <3>1. Len(s) \in DOMAIN s /\ s[Len(s)] \in Nat /\ s[Len(s)] <= Tokens[r]
      BY <2>1, <2>3, LenProperties, EmptySeq, ElementOfSeq DEF s
    <3>2. QED BY <2>1, <2>3, <3>1 DEF LastOf, s
  <2>4. QED BY <2>2, <2>3
<1>3. Shown[r] = "open"
  BY <1>1 DEF Shown
<1>4. CASE consumer' = [consumer EXCEPT ![r] = "failed"]
  <2>1. Shown' = [Shown EXCEPT ![r] = "failed"]
    BY <1>4, ShownMove
  <2>2. Stream!Fail(r, n)
    BY <1>1, <1>3, <2>1 DEF Stream!Fail
  <2>3. QED BY <1>2, <2>2 DEF Stream!Next
<1>5. CASE /\ ~ buf[r].error /\ (buf[r].end # "no" \/ r \notin Streaming)
           /\ consumer' = [consumer EXCEPT ![r] = "finished"]
  <2>1. Shown' = [Shown EXCEPT ![r] = "finished"]
    BY <1>5, ShownMove
  <2>2. buf[r].end \in {"no", "finish", "error"}
    BY DEF ReaderTypes, Buffer
  <2>3. buf[r].end = "finish"
    BY <1>1, <1>5, <2>2 DEF BufsTrue, BufTrue
  <2>4. length[r] > 0 /\ n = length[r]
    BY <1>5, <2>3 DEF BufsTrue, BufTrue, LastOf
  <2>5. Stream!Finish(r)
    BY <1>1, <1>3, <2>1, <2>4 DEF Stream!Finish
  <2>6. QED BY <2>5 DEF Stream!Next
<1>6. CASE UNCHANGED consumer
  <2>1. Shown' = Shown
    BY <1>6 DEF Shown
  <2>2. Stream!Give(r, n)
    BY <1>1, <1>3, <2>1 DEF Stream!Give
  <2>3. QED BY <1>2, <2>2 DEF Stream!Next
<1>7. QED BY <1>4, <1>5, <1>6 DEF Consume

\* A generation ends once, after its last response.
LEMMA DecodeShown ==
  ASSUME IInv, Decode, UNCHANGED engineVars
  PROVE  Stream!Next
<1>1. PICK done \in SUBSET Answering :
        /\ produced' = [x \in Request |-> produced[x] + (IF x \in Answering THEN 1 ELSE 0)]
        /\ length' = [x \in Request |-> IF x \in done THEN produced'[x] ELSE length[x]]
  BY DEF Decode
<1>2. finishing = {} /\ Answering \subseteq R
  BY DEF IInv, Decode, Flow, Answering, R
<1>3. ASSUME NEW x \in Request, length'[x] # length[x]
      PROVE  length[x] = 0 /\ length'[x] \in 1 .. Tokens[x]
  <2>1. length'[x] = IF x \in done THEN produced'[x] ELSE length[x]
    BY <1>1
  <2>2. x \in done /\ length'[x] = produced'[x] /\ x \in R \ finishing /\ x \in Answering
    BY <1>1, <1>2, <1>3, <2>1
  <2>3. produced'[x] = produced[x] + 1
    BY <1>1, <2>2
  <2>4. length[x] = 0 /\ produced[x] < Tokens[x] /\ produced[x] \in Nat /\ Tokens[x] \in Nat
    BY <2>2, SchedulerAssumption DEF IInv, Lengths, SchedTypes
  <2>5. QED BY <2>2, <2>3, <2>4
<1>4. Shown' = Shown /\ upto' = upto
  BY DEF Shown
<1>5. Stream!Generated
  BY <1>3, <1>4 DEF Stream!Generated
<1>6. QED BY <1>5 DEF Stream!Next

\* A reader sees only what Streams allows: its stream opens once, gives nothing
\* before or after, and ends once, as finished only when the generation has
\* ended and its last response has been given.
THEOREM StreamsImplemented == Spec => StreamsKept
<1>1. Init => Stream!Init
  BY DEF Init, SchedInit, Stream!Init, Shown
<1>2. ASSUME IInv, [Next]_vars PROVE [Stream!Next]_(Stream!vars)
  <2>1. ASSUME StepPhase, ~ Decode, UNCHANGED engineVars PROVE UNCHANGED <<consumer, upto, length>>
    BY <2>1
    DEF StepPhase, DoAbort, CleanupStore, CleanupNow, Drain, DrainDone, NextChunk, ChunkRaises,
        ScheduleRefused, ScheduleChunked, SparseFails, ScheduleAborted, ScheduleRaises,
        ScheduleDone, DecodeRaises
  <2>2. CASE StepPhase /\ UNCHANGED engineVars
    BY <1>2, <2>1, <2>2, DecodeShown, NothingShown
  <2>3. CASE \/ AddBegins \/ StepBegins \/ StepEnds \/ StepFails \/ FailAllRequests \/ StoreWorker
             \/ EngineLoop \/ AbortAll \/ CapAdjusted \/ Idle \/ UNCHANGED vars
    <3>1. UNCHANGED <<consumer, upto, length>>
      BY <2>3
      DEF AddBegins, StepBegins, StepEnds, StepFails, FailAllRequests, FailAll, StoreWorker, StoreDone,
          EngineLoop, SubmitStep, Distribute, AbortAll, CapAdjusted, AdjustCap, Idle, vars
    <3>2. QED BY <3>1, NothingShown
  <2>4. CASE AddEnds
    <3>1. UNCHANGED <<upto, length>> /\ (consumer' = consumer \/
            (consumer[adding] = "adding" /\ consumer' = [consumer EXCEPT ![adding] = "open"]))
      BY <2>4 DEF AddEnds, Admit
    <3>2. adding \in Request
      BY <1>2, <2>4 DEF AddEnds, IInv, Flow, LoopTypes
    <3>3. Shown' = Shown
      <4>1. CASE consumer' = consumer
        BY <4>1 DEF Shown
      <4>2. CASE consumer[adding] = "adding" /\ consumer' = [consumer EXCEPT ![adding] = "open"]
        <5>1. /\ Shown' = [Shown EXCEPT ![adding] = "open"] /\ Shown[adding] = "open"
              /\ Shown \in [Request -> {"none", "open"} \cup Ends]
          BY <1>2, <3>2, <4>2, ShownMove
        <5>2. QED BY <5>1, <3>2
      <4>3. QED BY <3>1, <4>1, <4>2
    <3>4. QED BY <3>1, <3>3 DEF Stream!vars
  <2>5. CASE AddRefused
    <3>1. adding \in Request /\ UNCHANGED <<upto, length>>
      BY <1>2, <2>5 DEF AddRefused, IInv, Flow, LoopTypes
    <3>2. CASE consumer[adding] = "adding"
      <4>1. consumer' = [consumer EXCEPT ![adding] = "failed"]
        BY <2>5, <3>2 DEF AddRefused
      <4>2. /\ Shown' = [Shown EXCEPT ![adding] = "failed"] /\ Shown[adding] = "open"
            /\ upto' = [upto EXCEPT ![adding] = upto[adding]] /\ upto[adding] \in 0 .. Tokens[adding]
        BY <1>2, <3>1, <3>2, <4>1, ShownMove
      <4>3. Stream!Fail(adding, upto[adding])
        BY <3>1, <4>2 DEF Stream!Fail
      <4>4. QED BY <3>1, <4>2, <4>3 DEF Stream!Next
    <3>3. CASE consumer[adding] # "adding"
      <4>1. UNCHANGED <<consumer, upto, length>>
        BY <2>5, <3>1, <3>3 DEF AddRefused
      <4>2. QED BY <4>1, NothingShown
    <3>4. QED BY <3>2, <3>3
  <2>6. ASSUME NEW r \in Request, AddRequest(r) PROVE Stream!Next
    <3>1. /\ consumer[r] = "none" /\ consumer' = [consumer EXCEPT ![r] = "adding"]
          /\ UNCHANGED <<upto, length>>
      BY <2>6 DEF AddRequest
    <3>2. Shown' = [Shown EXCEPT ![r] = "open"] /\ Shown[r] = "none"
      BY <1>2, <3>1, ShownMove
    <3>3. Stream!Open(r)
      BY <3>1, <3>2 DEF Stream!Open
    <3>4. QED BY <3>3 DEF Stream!Next
  <2>7. ASSUME NEW r \in Request, consumer[r] \in {"adding", "open", "leaving"},
               consumer' = [consumer EXCEPT ![r] = "left"], UNCHANGED <<upto, length>>
        PROVE  Stream!Next
    <3>1. Shown' = [Shown EXCEPT ![r] = "left"] /\ Shown[r] = "open"
      BY <1>2, <2>7, ShownMove
    <3>2. Stream!Leave(r)
      BY <2>7, <3>1 DEF Stream!Leave
    <3>3. QED BY <3>2 DEF Stream!Next
  <2>8. ASSUME NEW r \in Request, AddCancelled(r) PROVE Stream!Next
    BY <2>7, <2>8 DEF AddCancelled
  <2>9. ASSUME NEW r \in Request, ConsumerGone(r) PROVE Stream!Next
    BY <2>7, <2>9 DEF ConsumerGone
  <2>10. ASSUME NEW r \in Request, Leave(r) PROVE [Stream!Next]_(Stream!vars)
    <3>1. UNCHANGED <<upto, length>> /\ consumer[r] = "open"
      BY <2>10 DEF Leave
    <3>2. CASE consumer' = [consumer EXCEPT ![r] = "leaving"]
      <4>1. Shown' = Shown
        <5>1. /\ Shown' = [Shown EXCEPT ![r] = "open"] /\ Shown[r] = "open"
              /\ Shown \in [Request -> {"none", "open"} \cup Ends]
          BY <1>2, <3>1, <3>2, ShownMove
        <5>2. QED BY <5>1
      <4>2. QED BY <3>1, <4>1 DEF Stream!vars
    <3>3. CASE consumer' = [consumer EXCEPT ![r] = "left"]
      BY <2>7, <3>1, <3>3
    <3>4. QED BY <2>10, <3>2, <3>3 DEF Leave
  <2>11. ASSUME NEW r \in Request, Consume(r) PROVE Stream!Next
    BY <1>2, <2>11, ConsumeShown
  <2>12. QED
    BY <1>2, <2>2, <2>3, <2>4, <2>5, <2>6, <2>8, <2>9, <2>10, <2>11
    DEF Next, Inference, Consumer
<1>3. QED BY <1>1, <1>2, SpecInv, PTL DEF Spec, StreamsKept, Stream!Spec
=============================================================================
