--------------------------- MODULE MediaJobsProofs ---------------------------
(****************************************************************************)
(* The safety invariants of MediaJobs hold for every set of jobs, choice of *)
(* sources and limits, and any number of faults, deletions and crashes; a   *)
(* disk that fails may lose any writing of a record and any removal.        *)
(* None of them is inductive by itself: the records need the stages of a    *)
(* job (an artifact only when completed, a queued job in no other hands),   *)
(* a restart needs what the records on disk say by themselves, and the      *)
(* lease needs the dispatcher's bookkeeping.                                *)
(****************************************************************************)
EXTENDS MediaJobs, SequenceTheorems, TLAPS

Queued == {j \in known : status[j] = "queued"}
Seen == {j \in Job : status[j] # "none"}

QueueInv == queue \in Seq(Queued) /\ IsInjective(queue)

\* A job goes from asked to the queue to the dispatcher and ends; only a
\* completed one has an artifact.
StageInv ==
  /\ known \subseteq Seen /\ asked \cap Seen = {}
  /\ deleting \cap Queued = {}
  /\ \A j \in artifact : status[j] = "completed"
  /\ run # NoJob => status[run] = "in_progress"
  /\ blobs \subseteq Seen
  /\ \A j \in Job : proc[j] # "none" => j \in Seen

\* A worker that is not a stray runs only while its job is being read, and in
\* a shutdown it has had its SIGTERM.
WorkerInv ==
  /\ current = IF pc \in {"reading", "concluding"} THEN run ELSE NoJob
  /\ pc \in {"spawning", "concluding"} => run \notin Living \ strays
  /\ up = "stopping" =>
       pc # "spawning" /\ \A j \in Living \ strays : proc[j] = "stopping"

\* What a record on disk says by itself, before any restart reads it.
RecordInv ==
  /\ \A j \in Job : record[j].status = "none" => record[j] = NoRecord
  /\ \A j \in Job : record[j].artifact =>
                     record[j].status = "completed" /\ j \in outputs \cup stale

SourceInv == sourced \subseteq {j \in Seen : Source[j] \in Seen}

\* Memory is lost in a crash or a shutdown.
DownInv ==
  up = "down" =>
    known = {} /\ asked = {} /\ queue = <<>> /\ deleting = {} /\ pc = "loop"

IInv ==
  /\ TypeOK /\ QueueInv /\ StageInv /\ DownInv /\ WorkerInv /\ RecordInv /\ SourceInv
  /\ LeaseCoversWorker /\ RecordsTrue /\ CompletedHasOutput /\ SourceKept

------------------------------------------------------------------------------
\* A sequence over a larger set.
LEMMA SeqWider ==
  ASSUME NEW S, NEW T, S \subseteq T, NEW s \in Seq(S)
  PROVE  s \in Seq(T)
OBVIOUS

\* A sequence that does not hold e.
LEMMA SeqWithout ==
  ASSUME NEW S, NEW s \in Seq(S), NEW e, \A i \in 1 .. Len(s) : s[i] # e
  PROVE  s \in Seq(S \ {e})
OBVIOUS

\* Taking an element out of a sequence without repetitions leaves one, without
\* that element.
LEMMA RemoveFirstProps ==
  ASSUME NEW S, NEW s \in Seq(S), NEW e, IsInjective(s)
  PROVE  /\ RemoveFirst(s, e) \in Seq(S \ {e})
         /\ IsInjective(RemoveFirst(s, e))
<1>1. CASE \A i \in 1 .. Len(s) : s[i] # e
  <2>1. RemoveFirst(s, e) = s
    BY <1>1 DEF RemoveFirst
  <2>2. s \in Seq(S \ {e})
    BY <1>1
  <2> QED BY <2>1, <2>2
<1>2. ASSUME NEW k \in 1 .. Len(s), s[k] = e
      PROVE  /\ RemoveFirst(s, e) \in Seq(S \ {e})
             /\ IsInjective(RemoveFirst(s, e))
  <2> DEFINE t == RemoveAt(s, k)
  <2>1. {i \in 1 .. Len(s) : s[i] = e} = {k}
    BY <1>2 DEF IsInjective
  <2>2. SelectInSeq(s, LAMBDA v : v = e) = k
    <3>1. Min({k}) = k
      BY DEF Min
    <3> QED BY <2>1, <3>1 DEF SelectInSeq
  <2>3. RemoveFirst(s, e) = t
    BY <1>2, <2>2 DEF RemoveFirst
  <2>4. /\ t \in Seq(S) /\ Len(t) = Len(s) - 1
        /\ \A i \in 1 .. Len(t) : t[i] = s[IF i < k THEN i ELSE i + 1]
    <3> DEFINE p == SubSeq(s, 1, k - 1)
               q == SubSeq(s, k + 1, Len(s))
    <3>1. p \in Seq(S) /\ Len(p) = k - 1 /\ \A i \in 1 .. k - 1 : p[i] = s[i]
      BY SubSeqProperties
    <3>2. /\ q \in Seq(S) /\ Len(q) = Len(s) - k
          /\ \A i \in 1 .. Len(s) - k : q[i] = s[k + i]
      BY SubSeqProperties
    <3>3. t = p \o q
      BY DEF RemoveAt
    <3> HIDE DEF t, p, q
    <3>4. /\ t \in Seq(S) /\ Len(t) = Len(p) + Len(q)
          /\ \A i \in 1 .. Len(p) + Len(q) :
               t[i] = IF i <= Len(p) THEN p[i] ELSE q[i - Len(p)]
      BY <3>1, <3>2, <3>3, ConcatProperties
    <3>5. Len(t) = Len(s) - 1
      BY <3>1, <3>2, <3>4
    <3>6. ASSUME NEW i \in 1 .. Len(t)
          PROVE  t[i] = s[IF i < k THEN i ELSE i + 1]
      <4>1. CASE i < k
        BY <4>1, <3>1, <3>2, <3>4
      <4>2. CASE i >= k
        <5>1. t[i] = q[i - (k - 1)] /\ i - (k - 1) \in 1 .. Len(s) - k
          BY <4>2, <3>1, <3>2, <3>4, <3>5
        <5>2. q[i - (k - 1)] = s[k + (i - (k - 1))]
          BY <5>1, <3>2
        <5> QED BY <4>2, <5>1, <5>2
      <4> QED BY <4>1, <4>2
    <3> QED BY <3>4, <3>5, <3>6
  <2> HIDE DEF t
  <2>5. \A i \in 1 .. Len(t) : t[i] # e
    BY <2>4, <1>2 DEF IsInjective
  <2>6. IsInjective(t)
    <3>1. DOMAIN t = 1 .. Len(t) /\ DOMAIN s = 1 .. Len(s) /\ Len(s) \in Nat
      BY <2>4
    <3>2. ASSUME NEW a \in 1 .. Len(t), NEW b \in 1 .. Len(t), t[a] = t[b]
          PROVE  a = b
      <4>1. (IF a < k THEN a ELSE a + 1) = (IF b < k THEN b ELSE b + 1)
        BY <2>4, <3>1, <3>2, SMTT(30) DEF IsInjective
      <4> QED BY <4>1
    <3> QED BY <3>1, <3>2 DEF IsInjective
  <2>7. t \in Seq(S \ {e})
    BY <2>4, <2>5
  <2> QED BY <2>3, <2>6, <2>7
<1> QED BY <1>1, <1>2

\* The head of the queue, and what is left without it.
LEMMA QueueHead ==
  ASSUME NEW S, queue \in Seq(S), IsInjective(queue), queue # <<>>
  PROVE  /\ Head(queue) \in S
         /\ Tail(queue) \in Seq(S \ {Head(queue)})
         /\ IsInjective(Tail(queue))
<1>1. Head(queue) \in S /\ Head(queue) = queue[1] /\ Len(queue) \in Nat \ {0}
  OBVIOUS
<1>2. /\ Tail(queue) \in Seq(S) /\ Len(Tail(queue)) = Len(queue) - 1
      /\ \A i \in 1 .. Len(Tail(queue)) : Tail(queue)[i] = queue[i + 1]
  OBVIOUS
<1>3. \A i \in 1 .. Len(Tail(queue)) : Tail(queue)[i] # Head(queue)
  BY <1>1, <1>2 DEF IsInjective
<1>4. IsInjective(Tail(queue))
  <2>1. DOMAIN Tail(queue) = 1 .. Len(Tail(queue)) /\ DOMAIN queue = 1 .. Len(queue)
    BY <1>2
  <2>2. ASSUME NEW a \in 1 .. Len(Tail(queue)), NEW b \in 1 .. Len(Tail(queue)),
               Tail(queue)[a] = Tail(queue)[b]
        PROVE  a = b
    <3>1. a + 1 = b + 1
      BY <1>1, <1>2, <2>1, <2>2 DEF IsInjective
    <3> QED BY <3>1
  <2> QED BY <2>1, <2>2 DEF IsInjective
<1>5. Tail(queue) \in Seq(S \ {Head(queue)})
  BY <1>2, <1>3, SeqWithout
<1> QED BY <1>1, <1>4, <1>5

\* A new element at the end of the queue.
LEMMA QueueAppend ==
  ASSUME NEW S, queue \in Seq(S), IsInjective(queue), NEW j, j \notin S
  PROVE  /\ Append(queue, j) \in Seq(S \cup {j})
         /\ IsInjective(Append(queue, j))
<1>1. /\ Len(queue) \in Nat /\ Len(Append(queue, j)) = Len(queue) + 1
      /\ \A i \in 1 .. Len(queue) : queue[i] \in S /\ Append(queue, j)[i] = queue[i]
      /\ Append(queue, j)[Len(queue) + 1] = j
  OBVIOUS
<1>2. IsInjective(Append(queue, j))
  BY <1>1 DEF IsInjective
<1>3. Append(queue, j) \in Seq(S \cup {j})
  OBVIOUS
<1> QED BY <1>2, <1>3

\* The types of a queue that satisfies QueueInv.
LEMMA QueueTyped ==
  QueueInv => QueueTypes
BY SeqWider DEF QueueInv, QueueTypes, Queued

\* The ways in which the queue changes.
LEMMA QueueChange ==
  ASSUME QueueInv,
         \/ queue' = <<>>
         \/ queue' = queue /\ Queued \subseteq Queued'
         \/ /\ queue # <<>> /\ queue' = Tail(queue)
            /\ Queued \ {Head(queue)} \subseteq Queued'
         \/ \E j : queue' = RemoveFirst(queue, j) /\ Queued \ {j} \subseteq Queued'
         \/ \E j : /\ queue' = Append(queue, j)
                   /\ j \notin Queued /\ Queued \cup {j} \subseteq Queued'
  PROVE  QueueInv'
<1>1. CASE queue' = <<>>
  BY <1>1, EmptySeq DEF QueueInv, IsInjective
<1>2. CASE queue' = queue /\ Queued \subseteq Queued'
  BY <1>2, SeqWider DEF QueueInv
<1>3. CASE /\ queue # <<>> /\ queue' = Tail(queue)
           /\ Queued \ {Head(queue)} \subseteq Queued'
  BY <1>3, QueueHead, SeqWider DEF QueueInv
<1>4. ASSUME NEW j, queue' = RemoveFirst(queue, j), Queued \ {j} \subseteq Queued'
      PROVE  QueueInv'
  <2>1. queue' \in Seq(Queued \ {j}) /\ IsInjective(queue')
    BY <1>4, RemoveFirstProps DEF QueueInv
  <2> QED BY <1>4, <2>1, SeqWider DEF QueueInv
<1>5. ASSUME NEW j, queue' = Append(queue, j), j \notin Queued,
             Queued \cup {j} \subseteq Queued'
      PROVE  QueueInv'
  <2>1. queue' \in Seq(Queued \cup {j}) /\ IsInjective(queue')
    BY <1>5, QueueAppend DEF QueueInv
  <2> QED BY <1>5, <2>1, SeqWider DEF QueueInv
<1> QED BY <1>1, <1>2, <1>3, <1>4, <1>5

\* A sweep takes nothing but what it may take.
LEMMA PurgedHeld ==
  ASSUME NEW held, NEW order
  PROVE  Purged(held, order) \subseteq held
BY DEF Purged

------------------------------------------------------------------------------
\* Finish with the jobs whose artifact the sweep takes.
Finished(s, ok, writes, gone) ==
  /\ status' = [status EXCEPT ![run] = s]
  /\ done' = IF ok THEN Append(done, run) ELSE done
  /\ artifact' = (artifact \cup (IF ok THEN {run} ELSE {})) \ gone
  /\ Saved(gone \cup (IF writes THEN {run} ELSE {}),
           [j \in Job |-> IF j \in gone THEN PurgedRecord(j)
                          ELSE [status |-> s, artifact |-> ok]])
  /\ Removed(gone)
  /\ lease' = NoJob
  /\ run' = NoJob /\ current' = NoJob /\ pc' = "loop"
  /\ watchdog' = "off" /\ kill' = FALSE /\ unread' = FALSE

\* What SpawnFails, LineFails and Conclude have in common: the run is over,
\* with whatever the sweep takes.
RunOver(s, ok, writes, js, gone) ==
  /\ Finished(s, ok, writes, gone)
  /\ gone \subseteq ((artifact \cap outputs) \cup (IF ok THEN {run} ELSE {})) \ Protected(js)
  /\ pc \in {"spawning", "reading", "concluding"}
  /\ ok \in BOOLEAN /\ writes \in BOOLEAN
  /\ ok => run \in outputs /\ run \in known /\ s = "completed"
  /\ run \in known => writes /\ s \in Ended
  /\ s \in Ended \/ s = status[run]
  /\ writes => s \in Ended /\ (run \in known \/ run \in revived')
  /\ js = Job \/ (run \in known /\ js = Job \ {run})
  /\ run \notin Living \ strays'
  /\ revived \subseteq revived' /\ strays \subseteq strays'
  /\ UNCHANGED <<up, known, asked, queue, since, proc, deleting, memory, disk, sourced>>

\* Finish sweeps artifacts that no pending job extends.
LEMMA FinishGone ==
  ASSUME NEW s, NEW ok, NEW writes, NEW js, Finish(s, ok, writes, js)
  PROVE  \E gone \in SUBSET (((artifact \cap outputs) \cup (IF ok THEN {run} ELSE {}))
                             \ Protected(js)) :
           Finished(s, ok, writes, gone)
<1> DEFINE own == IF ok THEN {run} ELSE {}
           gone == Purged(Holders(js) \cup (own \ Protected(js)), done')
<1>1. gone \subseteq ((artifact \cap outputs) \cup own) \ Protected(js)
  BY PurgedHeld DEF Holders
<1>2. Finished(s, ok, writes, gone)
  BY DEF Finish, Finished, LeaseReleased
<1> QED BY <1>1, <1>2

\* The three ends of a run, seen as one.
LEMMA RunEnds ==
  ASSUME IInv, SpawnFails \/ LineFails \/ Conclude
  PROVE  \E s, ok, writes, js, gone : RunOver(s, ok, writes, js, gone)
<1> USE DEF IInv, WorkerInv, RunOver, Ended, past, bounds
<1>1. CASE SpawnFails
  <2>1. PICK gone : /\ Finished("failed", FALSE, TRUE, gone)
                    /\ gone \subseteq (artifact \cap outputs) \ Protected(Job)
    BY <1>1, FinishGone DEF SpawnFails
  <2>2. run \notin Living \ strays' /\ strays' = strays
    BY <1>1 DEF SpawnFails
  <2>3. RunOver("failed", FALSE, TRUE, Job, gone)
    BY <1>1, <2>1, <2>2 DEF SpawnFails
  <2> QED BY <2>3
<1>2. CASE LineFails
  <2>1. PICK gone : /\ Finished("failed", FALSE, TRUE, gone)
                    /\ gone \subseteq (artifact \cap outputs) \ Protected(Job)
    BY <1>2, FinishGone DEF LineFails
  <2>2. RunOver("failed", FALSE, TRUE, Job, gone)
    BY <1>2, <2>1 DEF LineFails
  <2> QED BY <2>2
<1>3. ASSUME Conclude, run \in known,
             Finish(IF Succeeded THEN "completed" ELSE "failed", Succeeded, TRUE, Job \ {run})
      PROVE  \E s, ok, writes, js, gone : RunOver(s, ok, writes, js, gone)
  <2> DEFINE s == IF Succeeded THEN "completed" ELSE "failed"
  <2>1. PICK gone : /\ Finished(s, Succeeded, TRUE, gone)
                    /\ gone \subseteq ((artifact \cap outputs)
                                       \cup (IF Succeeded THEN {run} ELSE {}))
                                      \ Protected(Job \ {run})
    BY <1>3, FinishGone
  <2>2. RunOver(s, Succeeded, TRUE, Job \ {run}, gone)
    BY <1>3, <2>1 DEF Conclude, Succeeded
  <2> QED BY <2>2
<1>4. ASSUME Conclude, run \notin known, Finish(status[run], FALSE, FALSE, Job)
      PROVE  \E s, ok, writes, js, gone : RunOver(s, ok, writes, js, gone)
  <2>1. PICK gone : /\ Finished(status[run], FALSE, FALSE, gone)
                    /\ gone \subseteq (artifact \cap outputs) \ Protected(Job)
    <3>1. ASSUME NEW s, Finish(s, FALSE, FALSE, Job)
          PROVE  \E gone \in SUBSET ((artifact \cap outputs) \ Protected(Job)) :
                   Finished(s, FALSE, FALSE, gone)
      BY <3>1, FinishGone
    <3> QED BY <1>4, <3>1
  <2>2. RunOver(status[run], FALSE, FALSE, Job, gone)
    BY <1>4, <2>1 DEF Conclude
  <2> QED BY <2>2
<1> QED BY <1>1, <1>2, <1>3, <1>4 DEF Conclude
------------------------------------------------------------------------------
(* What the steps do to the jobs and their files, job by job *)

Records == [status : {"none"} \cup Pending \cup Ended, artifact : BOOLEAN]

\* The record of a job that has none.
LEMMA NoRecordProps ==
  NoRecord \in Records /\ NoRecord.status = "none" /\ NoRecord.artifact = FALSE
BY DEF NoRecord, Records

\* Two records with equal fields are equal.
LEMMA RecordEqual ==
  ASSUME NEW r \in Records, NEW s, NEW a \in BOOLEAN
  PROVE  r = [status |-> s, artifact |-> a] <=> r.status = s /\ r.artifact = a
BY DEF Records

\* The record of a job whose artifact was swept.
LEMMA PurgedProps ==
  ASSUME NEW j
  PROVE  /\ PurgedRecord(j) \in Records
         /\ PurgedRecord(j).status = "completed" /\ PurgedRecord(j).artifact = FALSE
BY DEF PurgedRecord, Records, Ended

\* The records of js become those in new, or stay as they were and are stale.
SavedEffect(js, new) ==
  /\ record' \in [Job -> Records] /\ stale' \subseteq Job
  /\ \A j \in Job \ js : record'[j] = record[j] /\ (j \in stale' <=> j \in stale)
  /\ \A j \in js : \/ record'[j] = new[j] /\ j \notin stale'
                   \/ record'[j] = record[j] /\ j \in stale'

LEMMA SavedProps ==
  ASSUME FileTypes, NEW js, js \subseteq Job, NEW new, \A j \in js : new[j] \in Records,
         Saved(js, new)
  PROVE  SavedEffect(js, new)
<1>1. record \in [Job -> Records] /\ stale \subseteq Job
  BY DEF FileTypes, Records
<1>2. PICK lost \in SUBSET js :
        /\ record' = [j \in Job |-> IF j \in js \ lost THEN new[j] ELSE record[j]]
        /\ stale' = (stale \ js) \cup lost
  BY DEF Saved
<1>3. record' \in [Job -> Records] /\ stale' \subseteq Job
  BY <1>1, <1>2
<1>4. ASSUME NEW j \in Job \ js
      PROVE  record'[j] = record[j] /\ (j \in stale' <=> j \in stale)
  BY <1>2
<1>5. ASSUME NEW j \in js
      PROVE  \/ record'[j] = new[j] /\ j \notin stale'
             \/ record'[j] = record[j] /\ j \in stale'
  <2>1. CASE j \in lost
    BY <1>2, <2>1
  <2>2. CASE j \notin lost
    BY <1>2, <2>2
  <2> QED BY <2>1, <2>2
<1> QED BY <1>3, <1>4, <1>5 DEF SavedEffect

\* The directories of gone go, or some of what is in them stays.
RemovedEffect(gone) ==
  /\ outputs \ gone \subseteq outputs' /\ outputs' \subseteq outputs
  /\ outputs' \subseteq blobs' /\ blobs' \subseteq blobs

LEMMA RemovedProps ==
  ASSUME outputs \subseteq blobs, NEW gone, Removed(gone)
  PROVE  RemovedEffect(gone)
<1>1. PICK left \in SUBSET gone : \E whole \in SUBSET left :
        blobs' = blobs \ (gone \ left) /\ outputs' = outputs \ (gone \ whole)
  BY DEF Removed
<1> QED BY <1>1 DEF RemovedEffect

\* The record of j alone is written, or lost and stale.
Written(j, s) ==
  /\ record' \in [Job -> Records] /\ stale' \subseteq Job
  /\ \/ /\ record'[j] = [status |-> s, artifact |-> FALSE]
        /\ record'[j].status = s /\ record'[j].artifact = FALSE /\ j \notin stale'
     \/ record'[j] = record[j] /\ j \in stale'
  /\ \A k \in Job \ {j} : record'[k] = record[k] /\ (k \in stale' <=> k \in stale)

\* _persist writes one record.
LEMMA PersistedProps ==
  ASSUME FileTypes, NEW j \in Job, NEW s \in Pending \cup Ended, Persisted(j, s, FALSE)
  PROVE  Written(j, s)
<1> DEFINE new == [x \in {j} |-> [status |-> s, artifact |-> FALSE]]
<1>1. new[j] = [status |-> s, artifact |-> FALSE] /\ new[j] \in Records
  BY DEF Records
<1>2. \A x \in {j} : new[x] \in Records
  BY <1>1
<1>3. Saved({j}, new)
  BY DEF Persisted
<1> HIDE DEF new
<1>4. SavedEffect({j}, new)
  BY <1>2, <1>3, SavedProps
<1> QED BY <1>1, <1>4 DEF SavedEffect, Written

\* The state of j becomes s and is written.
Becomes(j, s) ==
  /\ Written(j, s)
  /\ status' = [status EXCEPT ![j] = s]

\* The head of the queue is a queued job.
LEMMA HeadProps ==
  ASSUME JobTypes, QueueInv, Dispatching
  PROVE  Head(queue) \in Queued /\ Head(queue) \in Job
BY QueueHead DEF JobTypes, QueueInv, Queued, Dispatching

\* The head of the queue goes to state s, or stays as it is.
HeadMoves(s) ==
  /\ Head(queue) \in Queued /\ Head(queue) \in Job
  /\ UNCHANGED <<record, status, stale>> \/ Becomes(Head(queue), s)
  /\ since' \in [Job -> 0 .. Grace]
  /\ blobs' \in {blobs, blobs \cup {Head(queue)}}
  /\ UNCHANGED <<up, known, asked, artifact, done, outputs, deleting, revived, sourced>>

\* A head that waits is written as it is.
LEMMA WaitsProps ==
  ASSUME IInv, Head(queue) \in Queued, Head(queue) \in Job, Waits(Head(queue)),
         status' = status
  PROVE  UNCHANGED <<record, status, stale>> \/ Becomes(Head(queue), "queued")
<1>1. Persisted(Head(queue), "queued", FALSE) => Written(Head(queue), "queued")
  BY PersistedProps DEF IInv, TypeOK, Pending
<1>2. status' = [status EXCEPT ![Head(queue)] = "queued"]
  BY DEF Queued, IInv, TypeOK, JobTypes
<1> QED BY <1>1, <1>2 DEF Waits, Becomes

\* A head that cannot fit waits, or is failed.
LEMMA InfeasibleProps ==
  ASSUME IInv, Infeasible
  PROVE  \E s \in {"queued", "failed"} : HeadMoves(s)
<1>1. Head(queue) \in Queued /\ Head(queue) \in Job
  BY HeadProps DEF IInv, TypeOK, Infeasible
<1>2. Persisted(Head(queue), "failed", FALSE) => Written(Head(queue), "failed")
  BY <1>1, PersistedProps DEF IInv, TypeOK, Ended
<1>3. since' \in [Job -> 0 .. Grace]
  <2>1. Grace \in Nat /\ since[Head(queue)] \in 0 .. Grace /\ since \in [Job -> 0 .. Grace]
    BY <1>1, MediaAssumption DEF IInv, TypeOK, JobTypes
  <2>2. CASE /\ since[Head(queue)] < Grace
             /\ since' = [since EXCEPT ![Head(queue)] = since[Head(queue)] + 1]
    <3>1. since[Head(queue)] + 1 \in 0 .. Grace
      BY <2>1, <2>2
    <3> QED BY <2>1, <2>2, <3>1
  <2>3. CASE since' = [since EXCEPT ![Head(queue)] = 0]
    <3>1. 0 \in 0 .. Grace
      BY <2>1
    <3> QED BY <2>1, <2>3, <3>1
  <2> QED BY <2>2, <2>3 DEF Infeasible, SinceFirst
<1>4. \E s \in {"queued", "failed"} :
        UNCHANGED <<record, status, stale>> \/ Becomes(Head(queue), s)
  <2>1. \/ Waits(Head(queue)) /\ status' = status
        \/ /\ Persisted(Head(queue), "failed", FALSE)
           /\ status' = [status EXCEPT ![Head(queue)] = "failed"]
    BY DEF Infeasible
  <2> QED BY <1>1, <1>2, <2>1, WaitsProps DEF Becomes
<1>5. UNCHANGED <<up, known, asked, artifact, done, blobs, outputs, deleting, revived, sourced>>
  BY DEF Infeasible, bounds, past
<1> QED BY <1>1, <1>3, <1>4, <1>5 DEF HeadMoves

\* A head that waits for memory stays queued.
LEMMA WaitProps ==
  ASSUME IInv, Wait
  PROVE  HeadMoves("queued")
<1>1. Head(queue) \in Queued /\ Head(queue) \in Job
  BY HeadProps DEF IInv, TypeOK, Wait
<1>2. since' \in [Job -> 0 .. Grace]
  BY <1>1, MediaAssumption DEF Wait, IInv, TypeOK, JobTypes
<1>3. UNCHANGED <<record, status, stale>> \/ Becomes(Head(queue), "queued")
  BY <1>1, WaitsProps DEF Wait
<1> QED BY <1>1, <1>2, <1>3 DEF HeadMoves, Wait, bounds, past

\* The head is begun, or failed without its source.
LEMMA StartProps ==
  ASSUME IInv, Start
  PROVE  \E s \in {"in_progress", "failed"} : HeadMoves(s)
<1>1. Head(queue) \in Queued /\ Head(queue) \in Job
  BY HeadProps DEF IInv, TypeOK, Start
<1>2. ASSUME NEW s \in {"in_progress", "failed"}, Persisted(Head(queue), s, FALSE)
      PROVE  Written(Head(queue), s)
  BY <1>1, <1>2, PersistedProps DEF IInv, TypeOK, Pending, Ended
<1>3. since' \in [Job -> 0 .. Grace]
  BY <1>1, MediaAssumption DEF Start, IInv, TypeOK, JobTypes
<1>4. \E s \in {"in_progress", "failed"} :
        /\ Persisted(Head(queue), s, FALSE)
        /\ status' = [status EXCEPT ![Head(queue)] = s]
  BY DEF Start
<1>5. \E s \in {"in_progress", "failed"} : Becomes(Head(queue), s)
  BY <1>2, <1>4 DEF Becomes
<1> QED BY <1>1, <1>3, <1>5 DEF HeadMoves, Start, bounds, past

\* What the dispatcher does to the head of the queue before it is begun.
LEMMA HeadMoved ==
  ASSUME IInv, Infeasible \/ Wait \/ Start
  PROVE  \E s \in {"queued", "in_progress", "failed"} : HeadMoves(s)
BY InfeasibleProps, WaitProps, StartProps

\* A submitted job is a new one.
LEMMA SubmitProps ==
  ASSUME IInv, NEW j \in Job, Submit(j)
  PROVE  /\ j \notin Seen
         /\ \/ UNCHANGED <<known, status, record, sourced, stale>>
            \/ /\ Becomes(j, "queued")
               /\ known' = known \cup {j}
               /\ sourced' = IF Source[j] \in outputs THEN sourced \cup {j} ELSE sourced
         /\ UNCHANGED <<up, since, artifact, done, blobs, outputs, deleting, revived>>
<1>1. j \notin Seen
  BY DEF IInv, StageInv, Submit
<1>2. Persisted(j, "queued", FALSE) => Written(j, "queued")
  BY PersistedProps DEF IInv, TypeOK, Pending
<1> QED BY <1>1, <1>2 DEF Submit, Becomes, bounds

\* Progress rewrites the record of the job at work.
LEMMA ReadLineProps ==
  ASSUME IInv, ReadLine
  PROVE  /\ run \in Job /\ status[run] = "in_progress"
         /\ \/ UNCHANGED <<record, stale, revived>>
            \/ /\ Written(run, "in_progress")
               /\ revived' = IF run \in known THEN revived ELSE revived \cup {run}
         /\ UNCHANGED <<up, known, status, artifact, done, blobs, outputs, sourced>>
<1>1. run \in Job /\ status[run] = "in_progress"
  BY DEF IInv, StageInv, TypeOK, RunTypes, LeaseCoversWorker, ReadLine
<1>2. Persisted(run, status[run], FALSE) => Written(run, "in_progress")
  BY <1>1, PersistedProps DEF IInv, TypeOK, Pending
<1> QED BY <1>1, <1>2 DEF ReadLine, jobs, bounds

\* A deletion ends with the record and the files gone, or lost in a failing disk.
LEMMA DeleteProps ==
  ASSUME IInv, NEW j \in Job, Delete(j) \/ DeleteEnds(j)
  PROVE  /\ record' \in [Job -> Records] /\ stale' \subseteq Job
         /\ \/ record'[j] = NoRecord /\ j \notin stale'
            \/ record'[j] = record[j] /\ j \in stale'
         /\ \A k \in Job \ {j} : record'[k] = record[k] /\ (k \in stale' <=> k \in stale)
         /\ known' = known \ {j} /\ artifact' = artifact \ {j}
         /\ RemovedEffect({j})
         /\ UNCHANGED <<up, status, asked, since, done, revived, sourced>>
<1> DEFINE new == [x \in {j} |-> NoRecord]
<1>1. FileTypes /\ outputs \subseteq blobs
  BY DEF IInv, TypeOK, FileTypes
<1>2. Saved({j}, new) /\ Removed({j})
  BY DEF Delete, DeleteEnds, Gone
<1>3. new[j] = NoRecord /\ \A x \in {j} : new[x] \in Records
  BY NoRecordProps
<1> HIDE DEF new
<1>4. SavedEffect({j}, new)
  BY <1>1, <1>2, <1>3, SavedProps
<1>5. RemovedEffect({j})
  BY <1>1, <1>2, RemovedProps
<1> QED BY <1>3, <1>4, <1>5 DEF SavedEffect, Delete, DeleteEnds, Gone, jobs, bounds, past

\* Of the jobs in gone, the artifacts are taken.
Swept(gone) ==
  /\ gone \subseteq artifact \cap outputs
  /\ record' \in [Job -> Records] /\ stale' \subseteq Job
  /\ \A j \in Job \ gone : record'[j] = record[j] /\ (j \in stale' <=> j \in stale)
  /\ \A j \in gone : \/ record'[j] = PurgedRecord(j) /\ j \notin stale'
                     \/ record'[j] = record[j] /\ j \in stale'
  /\ RemovedEffect(gone)

\* A shutdown sweeps what a finished run would.
LEMMA ShutdownProps ==
  ASSUME IInv, ShutdownEnds
  PROVE  /\ \E gone : Swept(gone)
         /\ Lost
         /\ UNCHANGED <<status, done, revived, sourced>>
<1> DEFINE gone == IF run = NoJob THEN {} ELSE Purged(Holders(Job), done)
           new == [j \in gone |-> PurgedRecord(j)]
<1>1. gone \subseteq artifact \cap outputs
  BY PurgedHeld DEF Holders
<1>2. Saved(gone, new) /\ Removed(gone)
  BY DEF ShutdownEnds
<1>3. \A j \in gone : new[j] = PurgedRecord(j) /\ new[j] \in Records
  BY PurgedProps
<1> HIDE DEF gone, new
<1>4. FileTypes /\ outputs \subseteq blobs /\ gone \subseteq Job
  BY <1>1 DEF IInv, TypeOK, FileTypes
<1>5. SavedEffect(gone, new)
  BY <1>2, <1>3, <1>4, SavedProps
<1>6. RemovedEffect(gone)
  BY <1>2, <1>4, RemovedProps
<1>7. Swept(gone)
  BY <1>1, <1>3, <1>5, <1>6 DEF Swept, SavedEffect
<1> QED BY <1>7 DEF ShutdownEnds, past

\* A restart rewrites the records of pending jobs, as far as the disk allows, and
\* reads them all.
LEMMA RestartProps ==
  ASSUME IInv, Restart
  PROVE  /\ record' \in [Job -> Records] /\ stale' \subseteq Job
         /\ \A j \in Job :
              record[j].status \notin Pending =>
                /\ record'[j] = record[j] /\ (j \in stale' <=> j \in stale)
                /\ status'[j] = IF j \in known' THEN record[j].status ELSE status[j]
         /\ \A j \in Job :
              record[j].status \in Pending =>
                /\ \/ /\ record'[j].status = "failed" /\ record'[j].artifact = record[j].artifact
                      /\ j \notin stale'
                   \/ record'[j] = record[j] /\ j \in stale'
                /\ status'[j] = "failed"
         /\ known' = {j \in Job : record[j] # NoRecord}
         /\ status' \in [Job -> {"none"} \cup Pending \cup Ended]
         /\ artifact' = {j \in Job : record[j].artifact}
         /\ UNCHANGED <<since, done, blobs, outputs, revived, sourced>>
<1> DEFINE failed == {j \in Job : record[j].status \in Pending}
           new == [j \in failed |-> [record[j] EXCEPT !.status = "failed"]]
<1>1. FileTypes /\ record \in [Job -> Records]
  BY DEF IInv, TypeOK, FileTypes, Records
<1>2. \A j \in failed : /\ new[j] \in Records /\ new[j].status = "failed"
                        /\ new[j].artifact = record[j].artifact
  BY <1>1 DEF Records, Ended
<1>3. Saved(failed, new)
  BY DEF Restart
<1>4. status' = [j \in Job |-> IF j \in failed THEN "failed"
                              ELSE IF j \in known' THEN record[j].status ELSE status[j]]
  BY DEF Restart
<1>5. failed \subseteq Job /\ \A j \in Job : j \in failed <=> record[j].status \in Pending
  OBVIOUS
<1> HIDE DEF failed, new
<1>6. SavedEffect(failed, new)
  BY <1>1, <1>2, <1>3, <1>5, SavedProps
<1>7. status' \in [Job -> {"none"} \cup Pending \cup Ended]
  BY <1>1, <1>4 DEF Records, Ended, IInv, TypeOK, JobTypes
<1>8. ASSUME NEW j \in Job, record[j].status \notin Pending
      PROVE  /\ record'[j] = record[j] /\ (j \in stale' <=> j \in stale)
             /\ status'[j] = IF j \in known' THEN record[j].status ELSE status[j]
  BY <1>4, <1>5, <1>6, <1>8 DEF SavedEffect
<1>9. ASSUME NEW j \in Job, record[j].status \in Pending
      PROVE  /\ \/ /\ record'[j].status = "failed" /\ record'[j].artifact = record[j].artifact
                   /\ j \notin stale'
                \/ record'[j] = record[j] /\ j \in stale'
             /\ status'[j] = "failed"
  BY <1>2, <1>4, <1>5, <1>6, <1>9 DEF SavedEffect
<1> QED BY <1>6, <1>7, <1>8, <1>9 DEF SavedEffect, Restart, past

\* The end of a run, job by job.
RunOverEffect(s, ok, writes, js, gone) ==
  /\ run \in Job /\ status[run] = "in_progress"
  /\ record' \in [Job -> Records] /\ stale' \subseteq Job
  /\ \A j \in Job :
       \/ record'[j] = record[j] /\ j \in stale'
       \/ /\ j \notin gone /\ ~ (j = run /\ writes)
          /\ record'[j] = record[j] /\ (j \in stale' <=> j \in stale)
       \/ j \in gone /\ record'[j] = PurgedRecord(j) /\ j \notin stale'
       \/ /\ j \notin gone /\ j = run /\ writes /\ j \notin stale'
          /\ record'[j] = [status |-> s, artifact |-> ok]
          /\ record'[j].status = s /\ record'[j].artifact = ok
  /\ stale \ (gone \cup (IF writes THEN {run} ELSE {})) \subseteq stale'
  /\ status' = [status EXCEPT ![run] = s]
  /\ s \in Ended \cup {"in_progress"}
  /\ artifact' = (artifact \cup (IF ok THEN {run} ELSE {})) \ gone
  /\ RemovedEffect(gone)

\* What the end of a run does to each job.
LEMMA RunOverProps ==
  ASSUME IInv, NEW s, NEW ok, NEW writes, NEW js, NEW gone, RunOver(s, ok, writes, js, gone)
  PROVE  RunOverEffect(s, ok, writes, js, gone)
<1> DEFINE written == gone \cup (IF writes THEN {run} ELSE {})
           new == [j \in Job |-> IF j \in gone THEN PurgedRecord(j)
                                 ELSE [status |-> s, artifact |-> ok]]
<1>1. run \in Job /\ status[run] = "in_progress"
  BY DEF IInv, StageInv, TypeOK, RunTypes, LeaseCoversWorker, RunOver
<1>2. FileTypes /\ outputs \subseteq blobs /\ record \in [Job -> Records]
  BY DEF IInv, TypeOK, FileTypes, Records
<1>3. s \in Ended \cup {"in_progress"} /\ ok \in BOOLEAN /\ (writes => s \in Ended)
  BY <1>1 DEF RunOver
<1>4. Saved(written, new) /\ Removed(gone)
  BY DEF RunOver, Finished
<1>5. written \subseteq Job
  BY <1>1, <1>2 DEF RunOver, FileTypes
<1>6. ASSUME NEW j \in written
      PROVE  /\ new[j] \in Records
             /\ j \in gone => new[j] = PurgedRecord(j)
             /\ j \notin gone => /\ j = run /\ writes
                                /\ new[j] = [status |-> s, artifact |-> ok]
                                /\ new[j].status = s /\ new[j].artifact = ok
  <2>1. j \in Job
    BY <1>5
  <2>2. CASE j \in gone
    BY <2>1, <2>2, PurgedProps
  <2>3. CASE j \notin gone
    <3>1. writes /\ j = run
      BY <2>3
    <3>2. new[j] = [status |-> s, artifact |-> ok]
      BY <2>1, <2>3
    <3> HIDE DEF new
    <3> QED BY <1>3, <2>3, <3>1, <3>2 DEF Records
  <2> QED BY <2>2, <2>3
<1>7. /\ \A j : j \in written <=> j \in gone \/ (j = run /\ writes)
      /\ stale \ written = stale \ (gone \cup (IF writes THEN {run} ELSE {}))
  OBVIOUS
<1> HIDE DEF new, written
<1>8. SavedEffect(written, new)
  BY <1>2, <1>4, <1>5, <1>6, SavedProps
<1>9. RemovedEffect(gone)
  BY <1>2, <1>4, RemovedProps
<1>10. ASSUME NEW j \in Job
       PROVE  \/ record'[j] = record[j] /\ j \in stale'
              \/ /\ j \notin gone /\ ~ (j = run /\ writes)
                 /\ record'[j] = record[j] /\ (j \in stale' <=> j \in stale)
              \/ j \in gone /\ record'[j] = PurgedRecord(j) /\ j \notin stale'
              \/ /\ j \notin gone /\ j = run /\ writes /\ j \notin stale'
                 /\ record'[j] = [status |-> s, artifact |-> ok]
                 /\ record'[j].status = s /\ record'[j].artifact = ok
  <2>1. CASE j \in written
    BY <1>6, <1>8, <2>1 DEF SavedEffect
  <2>2. CASE j \notin written
    BY <1>7, <1>8, <2>2 DEF SavedEffect
  <2> QED BY <2>1, <2>2
<1>11. stale \ written \subseteq stale'
  BY <1>2, <1>8 DEF SavedEffect, FileTypes
<1>12. record' \in [Job -> Records] /\ stale' \subseteq Job
  BY <1>8 DEF SavedEffect
<1>13. /\ status' = [status EXCEPT ![run] = s]
       /\ artifact' = (artifact \cup (IF ok THEN {run} ELSE {})) \ gone
  BY DEF RunOver, Finished
<1> QED BY <1>1, <1>3, <1>7, <1>9, <1>10, <1>11, <1>12, <1>13 DEF RunOverEffect

\* RecordsTrue, field by field.
RecordTrue(j) ==
  IF j \in known THEN record[j].status = status[j] /\ (record[j].artifact <=> j \in artifact)
  ELSE record[j] = NoRecord \/ j \in revived

LEMMA RecordsTrueMeans ==
  /\ record \in [Job -> Records] =>
       (RecordsTrue <=> (up # "down" => \A j \in Job \ stale : RecordTrue(j)))
  /\ record' \in [Job -> Records] =>
       (RecordsTrue' <=> (up' # "down" => \A j \in Job \ stale' : RecordTrue(j)'))
<1>1. ASSUME record \in [Job -> Records], NEW j \in Job
      PROVE  record[j] = [status |-> status[j], artifact |-> j \in artifact]
               <=> record[j].status = status[j] /\ (record[j].artifact <=> j \in artifact)
  <2>1. /\ record[j] \in Records /\ record[j].artifact \in BOOLEAN
        /\ (j \in artifact) \in BOOLEAN
    BY <1>1 DEF Records
  <2>2. record[j] = [status |-> status[j], artifact |-> j \in artifact]
          <=> record[j].status = status[j] /\ record[j].artifact = (j \in artifact)
    BY <2>1, RecordEqual
  <2> QED BY <2>1, <2>2
<1>2. ASSUME record' \in [Job -> Records], NEW j \in Job
      PROVE  record'[j] = [status |-> status'[j], artifact |-> j \in artifact']
               <=> record'[j].status = status'[j] /\ (record'[j].artifact <=> j \in artifact')
  <2>1. /\ record'[j] \in Records /\ record'[j].artifact \in BOOLEAN
        /\ (j \in artifact') \in BOOLEAN
    BY <1>2 DEF Records
  <2>2. record'[j] = [status |-> status'[j], artifact |-> j \in artifact']
          <=> record'[j].status = status'[j] /\ record'[j].artifact = (j \in artifact')
    BY <2>1, RecordEqual
  <2> QED BY <2>1, <2>2
<1> QED BY <1>1, <1>2 DEF RecordsTrue, RecordTrue

\* The steps that leave jobs and files as they are.
Quiet ==
  /\ UNCHANGED <<known, status, artifact, done, record, blobs, outputs, stale, revived,
                 sourced>>
  /\ up' = "down" <=> up = "down"

\* Every step, by what it does to jobs and files.
LEMMA StepCases ==
  ASSUME [Next]_vars
  PROVE  \/ Quiet \/ Infeasible \/ Wait \/ Start \/ ReadLine
         \/ SpawnFails \/ LineFails \/ Conclude
         \/ ShutdownEnds \/ Crash \/ Restart
         \/ \E j \in Job : Submit(j) \/ Delete(j) \/ DeleteEnds(j) \/ WorkerEnds(j)
<1> USE DEF Quiet, vars, jobs, dispatcher, worker, files, bounds, past, history
<1>1. CASE DiskFails \/ DiskRecovers
  BY <1>1 DEF DiskFails, DiskRecovers
<1>2. CASE Recheck \/ Spawned \/ EndOfOutput
  BY <1>2 DEF Recheck, Spawned, EndOfOutput
<1>3. CASE StartFails
  BY <1>3 DEF StartFails
<1>4. CASE WatchdogFires \/ Pressure \/ ShutdownBegins
  BY <1>4 DEF WatchdogFires, Pressure, ShutdownBegins
<1>5. CASE Idle \/ UNCHANGED vars
  BY <1>5 DEF Idle
<1>6. ASSUME NEW j \in Job, Ask(j) \/ DeleteBegins(j) \/ Emit(j) \/ Killed(j)
      PROVE  Quiet
  BY <1>6 DEF Ask, DeleteBegins, Emit, Killed
<1> HIDE DEF Quiet, vars
<1> QED BY <1>1, <1>2, <1>3, <1>4, <1>5, <1>6 DEF Next, DispatchLoop

------------------------------------------------------------------------------
(* The parts of the invariant, one lemma each *)

\* The head of the queue leaves its state for a later one, and the others stay.
LEMMA HeadStages ==
  ASSUME IInv, NEW s \in {"queued", "in_progress", "failed"}, HeadMoves(s)
  PROVE  /\ Seen' = Seen /\ Queued' \subseteq Queued /\ blobs' \subseteq Seen
         /\ \A j \in artifact : status'[j] = "completed"
         /\ \A j \in Job : status[j] = "in_progress" => status'[j] = "in_progress"
         /\ UNCHANGED <<known, asked, artifact, deleting>>
<1>1. /\ Head(queue) \in Job /\ status[Head(queue)] = "queued"
      /\ status' = status \/ status' = [status EXCEPT ![Head(queue)] = s]
  BY DEF HeadMoves, Becomes, Queued
<1>2. \A j \in Job : status'[j] = IF j = Head(queue) /\ status' # status THEN s ELSE status[j]
  BY <1>1 DEF IInv, TypeOK, JobTypes
<1>3. UNCHANGED <<known, asked, artifact, deleting>> /\ blobs' \subseteq blobs \cup {Head(queue)}
  BY DEF HeadMoves
<1>4. \A j \in artifact : j \in Job /\ status[j] = "completed"
  BY DEF IInv, TypeOK, JobTypes, StageInv
<1>5. Seen' = Seen
  BY <1>1, <1>2 DEF Seen
<1>6. Queued' \subseteq Queued
  BY <1>1, <1>2, <1>3 DEF Queued, IInv, TypeOK, JobTypes
<1>7. blobs' \subseteq Seen
  BY <1>1, <1>3 DEF Seen, IInv, StageInv
<1> QED BY <1>1, <1>2, <1>3, <1>4, <1>5, <1>6, <1>7

\* The stages of a job follow each other in every step.
LEMMA StageStep ==
  ASSUME IInv, [Next]_vars
  PROVE  StageInv'
<1>0. CASE Infeasible \/ Start
  <2>1. /\ Seen' = Seen /\ Queued' \subseteq Queued /\ blobs' \subseteq Seen
        /\ \A j \in artifact : status'[j] = "completed"
        /\ \A j \in Job : status[j] = "in_progress" => status'[j] = "in_progress"
        /\ UNCHANGED <<known, asked, artifact, deleting>>
    BY <1>0, HeadMoved, HeadStages
  <2>2. UNCHANGED <<run, proc>> \/ (status'[run'] = "in_progress" /\ proc' = proc)
    <3>1. CASE Infeasible
      BY <3>1 DEF Infeasible, worker
    <3>2. CASE Start
      <4>1. Head(queue) \in Job /\ proc' = proc
        BY <3>2, HeadProps DEF IInv, TypeOK, Start, worker
      <4> QED BY <3>2, <4>1 DEF Start, IInv, TypeOK, JobTypes
    <3> QED BY <1>0, <3>1, <3>2
  <2>3. run # NoJob => run \in Job
    BY DEF IInv, TypeOK, RunTypes
  <2> QED BY <2>1, <2>2, <2>3 DEF StageInv, IInv
<1>14. CASE Restart
  <2>1. /\ \A j \in Job : status'[j] = IF record[j].status \in Pending THEN "failed"
                                      ELSE IF j \in known' THEN record[j].status ELSE status[j]
        /\ known' = {j \in Job : record[j] # NoRecord}
        /\ artifact' = {j \in Job : record[j].artifact} /\ blobs' = blobs
    BY <1>14, RestartProps
  <2>2. /\ \A j \in Job : record[j].status = "none" => record[j] = NoRecord
        /\ \A j \in Job : record[j].artifact => record[j].status = "completed"
    BY DEF IInv, RecordInv
  <2>3. asked' = {} /\ deleting' = {} /\ run' = NoJob /\ proc' = proc
    BY <1>14 DEF Restart, IInv, DownInv, LeaseCoversWorker, dispatcher, worker
  <2>4. \A j \in artifact' : status'[j] = "completed"
    BY <2>1, <2>2, NoRecordProps DEF Pending
  <2>5. Seen \subseteq Seen' /\ known' \subseteq Seen'
    BY <2>1, <2>2 DEF Seen
  <2> QED BY <2>1, <2>3, <2>4, <2>5 DEF StageInv, IInv
<1>16. ASSUME NEW j \in Job, Submit(j) PROVE StageInv'
  <2>1. /\ j \notin Seen
        /\ UNCHANGED <<known, status>>
           \/ (status' = [status EXCEPT ![j] = "queued"] /\ known' = known \cup {j})
        /\ UNCHANGED <<artifact, blobs, deleting>>
    BY <1>16, SubmitProps DEF Becomes
  <2>2. asked' = asked \ {j} /\ UNCHANGED <<run, proc>>
    BY <1>16 DEF Submit, dispatcher, worker
  <2>3. \A k \in Job : status'[k] = IF k = j /\ known' # known THEN "queued" ELSE status[k]
    BY <2>1 DEF IInv, TypeOK, JobTypes, StageInv
  <2>4. Seen' \in {Seen, Seen \cup {j}} /\ Queued' \in {Queued, Queued \cup {j}}
    BY <2>1, <2>3 DEF Seen, Queued, IInv, TypeOK, JobTypes
  <2>5. j \notin deleting
    BY <2>1 DEF IInv, TypeOK, JobTypes, StageInv
  <2>6. known' \subseteq Seen' /\ asked' \cap Seen' = {} /\ deleting' \cap Queued' = {}
    BY <2>1, <2>2, <2>3, <2>4, <2>5 DEF IInv, StageInv, Seen
  <2>7. /\ \A k \in artifact' : status'[k] = "completed"
        /\ run' # NoJob => status'[run'] = "in_progress"
    BY <2>1, <2>2, <2>3 DEF IInv, StageInv, TypeOK, JobTypes, RunTypes, Seen
  <2>8. blobs' \subseteq Seen' /\ \A k \in Job : proc'[k] # "none" => k \in Seen'
    BY <2>1, <2>2, <2>4 DEF IInv, StageInv
  <2> QED BY <2>6, <2>7, <2>8 DEF StageInv
<1>19. ASSUME NEW j \in Job, Delete(j) \/ DeleteEnds(j) PROVE StageInv'
  <2>1. blobs' \subseteq blobs /\ known' = known \ {j} /\ artifact' = artifact \ {j}
        /\ UNCHANGED <<status, asked>>
    BY <1>19, DeleteProps DEF RemovedEffect
  <2>2. deleting' \subseteq deleting /\ UNCHANGED <<run, proc>>
    BY <1>19 DEF Delete, DeleteEnds, dispatcher, worker
  <2> QED BY <2>1, <2>2 DEF IInv, StageInv, Seen, Queued
<1>21. ASSUME NEW j \in Job, WorkerEnds(j) PROVE StageInv'
  <2>1. j \in Seen
    BY <1>21 DEF WorkerEnds, Living, IInv, StageInv
  <2>2. UNCHANGED <<known, status, asked, artifact, deleting, run>>
    BY <1>21 DEF WorkerEnds, jobs, dispatcher
  <2>3. blobs' \subseteq Seen
    BY <1>21, <2>1 DEF WorkerEnds, IInv, StageInv
  <2>4. PICK code : proc' = [proc EXCEPT ![j] = code]
    BY <1>21 DEF WorkerEnds
  <2>5. \A k \in Job : proc'[k] # "none" => k \in Seen
    BY <2>1, <2>4 DEF IInv, StageInv, TypeOK, RunTypes
  <2> QED BY <2>2, <2>3, <2>5 DEF IInv, StageInv, Seen, Queued
<1> USE MediaAssumption DEF IInv, TypeOK, JobTypes, RunTypes, FileTypes,
           QueueInv, StageInv, DownInv, WorkerInv, LeaseCoversWorker, RecordInv, Queued,
           Seen, Pending, Ended, Dispatching, Lost, vars, jobs, dispatcher, worker, files,
           bounds, past, history
<1>2. CASE Wait
  BY <1>2 DEF Wait
<1>3. CASE Recheck
  BY <1>3 DEF Recheck
<1>5. CASE Spawned
  BY <1>5 DEF Spawned
<1>6. CASE ReadLine
  BY <1>6 DEF ReadLine
<1>7. CASE EndOfOutput
  BY <1>7 DEF EndOfOutput
<1>8. CASE StartFails
  BY <1>8 DEF StartFails
<1>9. CASE WatchdogFires
  BY <1>9 DEF WatchdogFires
<1>10. CASE Pressure \/ DiskFails \/ DiskRecovers
  BY <1>10 DEF Pressure, DiskFails, DiskRecovers
<1>11. CASE ShutdownBegins
  BY <1>11 DEF ShutdownBegins
<1>12. CASE ShutdownEnds
  <2>1. blobs' \subseteq blobs
    BY <1>12, ShutdownProps DEF Swept, RemovedEffect
  <2> QED BY <1>12, <2>1 DEF ShutdownEnds
<1>13. CASE Crash
  BY <1>13 DEF Crash
<1>15. ASSUME NEW j \in Job, Ask(j) PROVE StageInv'
  BY <1>15 DEF Ask
<1>18. ASSUME NEW j \in Job, DeleteBegins(j) PROVE StageInv'
  BY <1>18 DEF DeleteBegins
<1>20. ASSUME NEW j \in Job, Emit(j) PROVE StageInv'
  BY <1>20 DEF Emit
<1>22. ASSUME NEW j \in Job, Killed(j) PROVE StageInv'
  BY <1>22, SMTT(30) DEF Killed
<1>23. CASE SpawnFails \/ LineFails \/ Conclude
  <2>1. PICK s, ok, writes, js, gone : RunOver(s, ok, writes, js, gone)
    BY <1>23, RunEnds
  <2>0. blobs' \subseteq blobs
    BY <2>1, RunOverProps DEF RunOverEffect, RemovedEffect
  <2> USE <2>1 DEF RunOver, Finished
  <2>2. \A j \in Job : status'[j] = IF j = run THEN s ELSE status[j]
    OBVIOUS
  <2>3. s \in Ended \/ s = "in_progress"
    OBVIOUS
  <2>4. known' \subseteq Seen' /\ asked' \cap Seen' = {}
    BY <2>2, <2>3
  <2>5. deleting' \cap Queued' = {} /\ run' = NoJob
    BY <2>2, <2>3
  <2>6. \A j \in artifact' : status'[j] = "completed"
    BY <2>2, <2>3
  <2>7. blobs' \subseteq Seen' /\ \A j \in Job : proc'[j] # "none" => j \in Seen'
    BY <2>0, <2>2, <2>3
  <2> QED BY <2>4, <2>5, <2>6, <2>7
<1>24. CASE Idle \/ UNCHANGED vars
  BY <1>24 DEF Idle
<1> HIDE DEF IInv, TypeOK, JobTypes, RunTypes, FileTypes, QueueInv, StageInv,
           DownInv, WorkerInv, LeaseCoversWorker, RecordInv, Queued, Seen, Pending, Ended,
           Dispatching, Lost, vars, jobs, dispatcher, worker, files, bounds, past, history
<1> QED BY <1>0, <1>2, <1>3, <1>5, <1>6, <1>7, <1>8, <1>9, <1>10, <1>11, <1>12, <1>13,
      <1>14, <1>15, <1>16, <1>18, <1>19, <1>20, <1>21, <1>22, <1>23, <1>24
      DEF Next, DispatchLoop

\* The queue holds queued jobs, each once.
LEMMA QueueStep ==
  ASSUME IInv, [Next]_vars
  PROVE  QueueInv'
<1> USE MediaAssumption DEF IInv, TypeOK, JobTypes, RunTypes, QueueInv,
           StageInv, DownInv, LeaseCoversWorker, Queued, Seen, Pending, Ended, Dispatching,
           Gone, Lost, vars, jobs, dispatcher, worker, files, bounds, past, history
<1>1. CASE Infeasible
  <2>1. queue # <<>> /\ Queued \ {Head(queue)} \subseteq Queued'
    BY <1>1 DEF Infeasible
  <2>2. \/ queue' = Tail(queue)
        \/ queue' = queue /\ status' = status /\ known' = known
    BY <1>1 DEF Infeasible
  <2>3. queue' = Tail(queue) \/ (queue' = queue /\ Queued \subseteq Queued')
    BY <2>2
  <2> HIDE DEF QueueInv, Queued
  <2> QED BY <2>1, <2>3, QueueChange
<1>2. CASE Wait
  BY <1>2 DEF Wait
<1>3. CASE Recheck
  BY <1>3 DEF Recheck
<1>4. CASE Start
  <2>1. queue # <<>> /\ queue' = Tail(queue) /\ known' = known
    BY <1>4 DEF Start
  <2>2. \E s : status' = [status EXCEPT ![Head(queue)] = s]
    BY <1>4 DEF Start
  <2>3. Queued \ {Head(queue)} \subseteq Queued'
    BY <2>1, <2>2
  <2> HIDE DEF QueueInv, Queued
  <2> QED BY <2>1, <2>3, QueueChange
<1>5. CASE Spawned
  BY <1>5 DEF Spawned
<1>6. CASE ReadLine
  BY <1>6 DEF ReadLine
<1>7. CASE EndOfOutput
  BY <1>7 DEF EndOfOutput
<1>8. CASE StartFails
  <2>1. queue # <<>> /\ Queued \ {Head(queue)} \subseteq Queued'
    BY <1>8 DEF StartFails
  <2>2. queue' = Tail(queue)
    BY <1>8 DEF StartFails
  <2> HIDE DEF QueueInv, Queued
  <2> QED BY <2>1, <2>2, QueueChange
<1>9. CASE WatchdogFires
  BY <1>9 DEF WatchdogFires
<1>10. CASE Pressure \/ DiskFails \/ DiskRecovers
  BY <1>10 DEF Pressure, DiskFails, DiskRecovers
<1>11. CASE ShutdownBegins
  BY <1>11 DEF ShutdownBegins
<1>12. CASE ShutdownEnds
  <2>1. queue' = <<>>
    BY <1>12 DEF ShutdownEnds
  <2> HIDE DEF QueueInv
  <2> QED BY <2>1, QueueChange
<1>13. CASE Crash
  <2>1. queue' = <<>>
    BY <1>13 DEF Crash
  <2> HIDE DEF QueueInv
  <2> QED BY <2>1, QueueChange
<1>14. CASE Restart
  BY <1>14 DEF Restart
<1>15. ASSUME NEW j \in Job, Ask(j) PROVE QueueInv'
  BY <1>15 DEF Ask
<1>16. ASSUME NEW j \in Job, Submit(j) PROVE QueueInv'
  <2>1. \/ queue' = queue /\ Queued \subseteq Queued'
        \/ /\ queue' = Append(queue, j)
           /\ j \notin Queued /\ Queued \cup {j} \subseteq Queued'
    <3>1. CASE UNCHANGED <<queue, known, status>>
      BY <3>1
    <3>2. CASE /\ queue' = Append(queue, j) /\ known' = known \cup {j}
               /\ status' = [status EXCEPT ![j] = "queued"]
      <4>1. j \notin Seen /\ j \in Job /\ DOMAIN status = Job
        BY <1>16, SubmitProps
      <4>2. status'[j] = "queued" /\ \A k \in Job \ {j} : status'[k] = status[k]
        BY <3>2, <4>1
      <4> QED BY <3>2, <4>1, <4>2
    <3> QED BY <1>16, <3>1, <3>2 DEF Submit
  <2> HIDE DEF QueueInv, Queued
  <2> QED BY <2>1, QueueChange
<1>17. ASSUME NEW j \in Job, Delete(j) PROVE QueueInv'
  <2>1. queue' = RemoveFirst(queue, j) /\ Queued \ {j} \subseteq Queued'
    BY <1>17 DEF Delete, QueueWithout
  <2> HIDE DEF QueueInv, Queued
  <2> QED BY <2>1, QueueChange
<1>18. ASSUME NEW j \in Job, DeleteBegins(j) PROVE QueueInv'
  BY <1>18 DEF DeleteBegins
<1>19. ASSUME NEW j \in Job, DeleteEnds(j) PROVE QueueInv'
  BY <1>19 DEF DeleteEnds
<1>20. ASSUME NEW j \in Job, Emit(j) PROVE QueueInv'
  BY <1>20 DEF Emit
<1>21. ASSUME NEW j \in Job, WorkerEnds(j) PROVE QueueInv'
  BY <1>21 DEF WorkerEnds
<1>22. ASSUME NEW j \in Job, Killed(j) PROVE QueueInv'
  BY <1>22 DEF Killed
<1>23. CASE SpawnFails \/ LineFails \/ Conclude
  <2>1. PICK s, ok, writes, js, gone : RunOver(s, ok, writes, js, gone)
    BY <1>23, RunEnds
  <2> QED BY <2>1 DEF RunOver, Finished
<1>24. CASE Idle \/ UNCHANGED vars
  BY <1>24 DEF Idle
<1> HIDE DEF IInv, TypeOK, JobTypes, RunTypes, QueueInv, StageInv, DownInv,
           LeaseCoversWorker, Queued, Seen, Pending, Ended, Dispatching, Gone, Lost, vars,
           jobs, dispatcher, worker, files, bounds, past, history
<1> QED BY <1>1, <1>2, <1>3, <1>4, <1>5, <1>6, <1>7, <1>8, <1>9, <1>10, <1>11, <1>12,
      <1>13, <1>14, <1>15, <1>16, <1>17, <1>18, <1>19, <1>20, <1>21, <1>22, <1>23, <1>24
      DEF Next, DispatchLoop

\* The dispatcher's bookkeeping follows its pc, and a shutdown or a crash ends it.
LEMMA DownStep ==
  ASSUME IInv, [Next]_vars
  PROVE  DownInv' /\ WorkerInv'
<1> USE MediaAssumption DEF IInv, TypeOK, RunTypes, DownInv, WorkerInv,
           LeaseCoversWorker, Living, Dispatching, Gone, Lost, vars, jobs, dispatcher,
           worker, files, bounds, past, history
<1>1. CASE Infeasible
  BY <1>1 DEF Infeasible
<1>2. CASE Wait
  BY <1>2 DEF Wait
<1>3. CASE Recheck
  BY <1>3 DEF Recheck
<1>4. CASE Start
  BY <1>4 DEF Start
<1>5. CASE Spawned
  BY <1>5 DEF Spawned
<1>6. CASE ReadLine
  BY <1>6 DEF ReadLine
<1>7. CASE EndOfOutput
  BY <1>7 DEF EndOfOutput
<1>8. CASE StartFails
  BY <1>8 DEF StartFails
<1>9. CASE WatchdogFires
  BY <1>9 DEF WatchdogFires
<1>10. CASE Pressure \/ DiskFails \/ DiskRecovers
  BY <1>10 DEF Pressure, DiskFails, DiskRecovers
<1>11. CASE ShutdownBegins
  BY <1>11 DEF ShutdownBegins
<1>12. CASE ShutdownEnds
  BY <1>12 DEF ShutdownEnds
<1>13. CASE Crash
  BY <1>13 DEF Crash
<1>14. CASE Restart
  BY <1>14 DEF Restart
<1>15. ASSUME NEW j \in Job, Ask(j) PROVE DownInv' /\ WorkerInv'
  BY <1>15 DEF Ask
<1>16. ASSUME NEW j \in Job, Submit(j) PROVE DownInv' /\ WorkerInv'
  BY <1>16 DEF Submit
<1>17. ASSUME NEW j \in Job, Delete(j) PROVE DownInv' /\ WorkerInv'
  BY <1>17 DEF Delete
<1>18. ASSUME NEW j \in Job, DeleteBegins(j) PROVE DownInv' /\ WorkerInv'
  BY <1>18 DEF DeleteBegins
<1>19. ASSUME NEW j \in Job, DeleteEnds(j) PROVE DownInv' /\ WorkerInv'
  BY <1>19 DEF DeleteEnds
<1>20. ASSUME NEW j \in Job, Emit(j) PROVE DownInv' /\ WorkerInv'
  BY <1>20 DEF Emit
<1>21. ASSUME NEW j \in Job, WorkerEnds(j) PROVE DownInv' /\ WorkerInv'
  <2>1. \A k \in Job : proc'[k] = proc[k] \/ k \notin Living'
    BY <1>21 DEF WorkerEnds
  <2>2. Living' \subseteq Living
    BY <2>1
  <2>3. UNCHANGED <<up, known, asked, queue, deleting, pc, run, current, strays>>
    BY <1>21 DEF WorkerEnds
  <2> QED BY <2>1, <2>2, <2>3
<1>22. ASSUME NEW j \in Job, Killed(j) PROVE DownInv' /\ WorkerInv'
  BY <1>22 DEF Killed
<1>23. CASE SpawnFails \/ LineFails \/ Conclude
  <2>1. PICK s, ok, writes, js, gone : RunOver(s, ok, writes, js, gone)
    BY <1>23, RunEnds
  <2> QED BY <2>1 DEF RunOver, Finished
<1>24. CASE Idle \/ UNCHANGED vars
  BY <1>24 DEF Idle
<1> HIDE DEF IInv, TypeOK, RunTypes, DownInv, WorkerInv, LeaseCoversWorker,
           Living, Dispatching, Gone, Lost, vars, jobs, dispatcher, worker, files, bounds,
           past, history
<1> QED BY <1>1, <1>2, <1>3, <1>4, <1>5, <1>6, <1>7, <1>8, <1>9, <1>10, <1>11, <1>12,
      <1>13, <1>14, <1>15, <1>16, <1>17, <1>18, <1>19, <1>20, <1>21, <1>22, <1>23, <1>24
      DEF Next, DispatchLoop

\* The lease is held as long as a worker that is not a stray.
LEMMA LeaseStep ==
  ASSUME IInv, [Next]_vars
  PROVE  LeaseCoversWorker'
<1> USE MediaAssumption DEF IInv, TypeOK, JobTypes, RunTypes, QueueTypes,
           QueueInv, WorkerInv, DownInv, LeaseCoversWorker, Queued, Living, Dispatching,
           Lost, vars, jobs, dispatcher, worker, files, bounds, past, history
<1>1. CASE Infeasible
  BY <1>1 DEF Infeasible
<1>2. CASE Wait
  BY <1>2 DEF Wait
<1>3. CASE Recheck
  BY <1>3 DEF Recheck
<1>4. CASE Start
  <2>1. Head(queue) \in Job
    BY <1>4, StartProps DEF HeadMoves
  <2>2. proc' = proc /\ strays' = strays /\ run = NoJob /\ lease = NoJob
    BY <1>4 DEF Start
  <2>3. \/ UNCHANGED <<run, lease, pc>>
        \/ run' = Head(queue) /\ lease' = Head(queue) /\ pc' = "spawning"
    BY <1>4 DEF Start
  <2> QED BY <2>1, <2>2, <2>3
<1>5. CASE Spawned
  BY <1>5 DEF Spawned
<1>6. CASE ReadLine
  BY <1>6 DEF ReadLine
<1>7. CASE EndOfOutput
  BY <1>7 DEF EndOfOutput
<1>8. CASE StartFails
  BY <1>8 DEF StartFails
<1>9. CASE WatchdogFires
  BY <1>9 DEF WatchdogFires
<1>10. CASE Pressure \/ DiskFails \/ DiskRecovers
  BY <1>10 DEF Pressure, DiskFails, DiskRecovers
<1>11. CASE ShutdownBegins
  BY <1>11 DEF ShutdownBegins
<1>12. CASE ShutdownEnds
  BY <1>12 DEF ShutdownEnds
<1>13. CASE Crash
  BY <1>13 DEF Crash
<1>14. CASE Restart
  BY <1>14 DEF Restart
<1>15. ASSUME NEW j \in Job, Ask(j) PROVE LeaseCoversWorker'
  BY <1>15 DEF Ask
<1>16. ASSUME NEW j \in Job, Submit(j) PROVE LeaseCoversWorker'
  BY <1>16 DEF Submit
<1>17. ASSUME NEW j \in Job, Delete(j) PROVE LeaseCoversWorker'
  BY <1>17 DEF Delete
<1>18. ASSUME NEW j \in Job, DeleteBegins(j) PROVE LeaseCoversWorker'
  BY <1>18 DEF DeleteBegins
<1>19. ASSUME NEW j \in Job, DeleteEnds(j) PROVE LeaseCoversWorker'
  BY <1>19 DEF DeleteEnds
<1>20. ASSUME NEW j \in Job, Emit(j) PROVE LeaseCoversWorker'
  BY <1>20 DEF Emit
<1>21. ASSUME NEW j \in Job, WorkerEnds(j) PROVE LeaseCoversWorker'
  BY <1>21 DEF WorkerEnds
<1>22. ASSUME NEW j \in Job, Killed(j) PROVE LeaseCoversWorker'
  BY <1>22 DEF Killed
<1>23. CASE SpawnFails \/ LineFails \/ Conclude
  <2>1. PICK s, ok, writes, js, gone : RunOver(s, ok, writes, js, gone)
    BY <1>23, RunEnds
  <2> QED BY <2>1 DEF RunOver, Finished
<1>24. CASE Idle \/ UNCHANGED vars
  BY <1>24 DEF Idle
<1> HIDE DEF IInv, TypeOK, JobTypes, RunTypes, QueueTypes, QueueInv, WorkerInv,
           DownInv, LeaseCoversWorker, Queued, Living, Dispatching, Lost, vars, jobs,
           dispatcher, worker, files, bounds, past, history
<1> QED BY <1>1, <1>2, <1>3, <1>4, <1>5, <1>6, <1>7, <1>8, <1>9, <1>10, <1>11, <1>12,
      <1>13, <1>14, <1>15, <1>16, <1>17, <1>18, <1>19, <1>20, <1>21, <1>22, <1>23, <1>24
      DEF Next, DispatchLoop

\* The types of the files.
LEMMA FileTypesStep ==
  ASSUME IInv, [Next]_vars
  PROVE  FileTypes'
<1>1. CASE Quiet
  BY <1>1 DEF Quiet, IInv, TypeOK, FileTypes, Records, Pending, Ended
<1>2. CASE Infeasible \/ Wait
  BY <1>2, HeadMoved DEF HeadMoves, Becomes, Written, IInv, TypeOK, FileTypes, Records,
     Pending, Ended
<1>3. CASE Start
  BY <1>3, HeadMoved DEF HeadMoves, Becomes, Written, IInv, TypeOK, FileTypes, Records,
     Pending, Ended
<1>4. CASE ReadLine
  BY <1>4, ReadLineProps DEF Written, IInv, TypeOK, FileTypes, Records, Pending, Ended
<1>5. CASE ShutdownEnds
  BY <1>5, ShutdownProps DEF Swept, RemovedEffect, IInv, TypeOK, FileTypes, Records,
     Pending, Ended
<1>6. CASE Crash
  BY <1>6 DEF Crash, Lost, files, past, history, IInv, TypeOK, FileTypes, Records, Pending,
     Ended
<1>7. CASE Restart
  BY <1>7, RestartProps, NoRecordProps DEF IInv, TypeOK, FileTypes, Records, Pending,
     Ended
<1>8. ASSUME NEW j \in Job, Submit(j)
      PROVE  FileTypes'
  BY <1>8, SubmitProps DEF Becomes, Written, IInv, TypeOK, FileTypes, Records, Pending,
     Ended
<1>9. ASSUME NEW j \in Job, Delete(j) \/ DeleteEnds(j)
      PROVE  FileTypes'
  BY <1>9, DeleteProps DEF RemovedEffect, IInv, TypeOK, FileTypes, Records, Pending, Ended
<1>10. ASSUME NEW j \in Job, WorkerEnds(j)
      PROVE  FileTypes'
  BY <1>10 DEF WorkerEnds, jobs, past, history, dispatcher, files, IInv, TypeOK, FileTypes,
     Records, Pending, Ended
<1>11. CASE SpawnFails \/ LineFails \/ Conclude
  <2>1. PICK s, ok, writes, js, gone : RunOver(s, ok, writes, js, gone)
    BY <1>11, RunEnds
  <2>2. RunOverEffect(s, ok, writes, js, gone)
    BY <2>1, RunOverProps
  <2> QED BY <2>2 DEF RunOverEffect, RemovedEffect, IInv, TypeOK, FileTypes, Records,
        Pending, Ended
<1> QED BY <1>1, <1>2, <1>3, <1>4, <1>5, <1>6, <1>7, <1>8, <1>9, <1>10, <1>11, StepCases

\* A record on disk, or a job in memory, that names an artifact has its output.
LEMMA RecordStep ==
  ASSUME IInv, [Next]_vars
  PROVE  RecordInv' /\ CompletedHasOutput'
<1> DEFINE Said(j) ==
      /\ record[j].status = "none" => record[j] = NoRecord
      /\ record[j].artifact => record[j].status = "completed" /\ j \in outputs \cup stale
<1>0. /\ RecordInv <=> \A j \in Job : Said(j)
      /\ RecordInv' <=> \A j \in Job : Said(j)'
  BY DEF RecordInv
<1> HIDE DEF Said
<1>s. artifact \subseteq Job /\ artifact \subseteq outputs \cup stale /\ \A j \in Job : Said(j)
  BY <1>0 DEF IInv, CompletedHasOutput, TypeOK, JobTypes
<1>w. ASSUME NEW h \in Job, NEW s \in Pending \cup Ended, Written(h, s), outputs' = outputs,
             artifact' = artifact, h \notin artifact
      PROVE  (\A j \in Job : Said(j)') /\ CompletedHasOutput'
  <2>1. Said(h)'
    BY <1>s, <1>w DEF Said, Written, Pending, Ended
  <2>2. ASSUME NEW j \in Job \ {h}
        PROVE  Said(j)'
    BY <1>s, <1>w, <2>2 DEF Said, Written
  <2>3. CompletedHasOutput'
    BY <1>s, <1>w DEF CompletedHasOutput, Written
  <2> QED BY <2>1, <2>2, <2>3
<1>1. CASE Quiet
  BY <1>0, <1>s, <1>1 DEF Quiet, CompletedHasOutput, Said
<1>2. CASE Infeasible \/ Wait \/ Start
  <2>1. PICK s \in {"queued", "in_progress", "failed"} : HeadMoves(s)
    BY <1>2, HeadMoved
  <2>2. Head(queue) \in Job /\ Head(queue) \notin artifact
    BY <2>1 DEF HeadMoves, Queued, IInv, StageInv
  <2>3. UNCHANGED <<artifact, outputs>>
    BY <2>1 DEF HeadMoves
  <2>4. CASE UNCHANGED <<record, status, stale>>
    BY <1>0, <1>s, <2>3, <2>4 DEF CompletedHasOutput, Said
  <2>5. CASE Becomes(Head(queue), s)
    BY <1>0, <1>w, <2>2, <2>3, <2>5 DEF Becomes, Pending, Ended
  <2> QED BY <2>1, <2>4, <2>5 DEF HeadMoves
<1>4. CASE ReadLine
  <2>1. run \in Job /\ run \notin artifact
    BY <1>4, ReadLineProps DEF IInv, StageInv
  <2>2. CASE UNCHANGED <<record, stale>>
    BY <1>0, <1>s, <1>4, <2>2, ReadLineProps DEF CompletedHasOutput, Said
  <2>3. CASE Written(run, "in_progress")
    BY <1>0, <1>w, <1>4, <2>1, <2>3, ReadLineProps DEF Pending
  <2> QED BY <1>4, <2>2, <2>3, ReadLineProps
<1>5. CASE ShutdownEnds
  <2>1. PICK gone : Swept(gone)
    BY <1>5, ShutdownProps
  <2>2. ASSUME NEW j \in Job
        PROVE  Said(j)'
    <3>1. CASE record'[j] = PurgedRecord(j)
      BY <3>1, PurgedProps DEF Said
    <3>2. CASE record'[j] = record[j] /\ j \in stale'
      BY <1>s, <3>2 DEF Said
    <3>3. CASE j \notin gone
      BY <1>s, <2>1, <3>3 DEF Said, Swept, RemovedEffect
    <3> QED BY <2>1, <3>1, <3>2, <3>3 DEF Swept
  <2>3. artifact' = {}
    BY <1>5, ShutdownProps DEF Lost
  <2> QED BY <1>0, <2>2, <2>3 DEF CompletedHasOutput
<1>6. CASE Crash
  BY <1>0, <1>s, <1>6 DEF Crash, Lost, files, CompletedHasOutput, Said
<1>7. CASE Restart
  <2>1. /\ \A j \in Job : record[j].status \notin Pending =>
                            record'[j] = record[j] /\ (j \in stale' <=> j \in stale)
        /\ \A j \in Job : record[j].status \in Pending =>
             \/ record'[j].status = "failed" /\ record'[j].artifact = record[j].artifact
             \/ record'[j] = record[j] /\ j \in stale'
        /\ artifact' = {j \in Job : record[j].artifact} /\ outputs' = outputs
    BY <1>7, RestartProps
  <2>2. ASSUME NEW j \in Job
        PROVE  Said(j)' /\ (record[j].artifact => j \in outputs' \cup stale')
    <3>1. CASE record[j].status \notin Pending
      BY <1>s, <2>1, <3>1 DEF Said
    <3>2. CASE record[j].status \in Pending
      BY <1>s, <2>1, <3>2 DEF Said, Pending
    <3> QED BY <3>1, <3>2
  <2> QED BY <1>0, <2>1, <2>2 DEF CompletedHasOutput
<1>8. ASSUME NEW j \in Job, Submit(j)
      PROVE  RecordInv' /\ CompletedHasOutput'
  <2>1. j \notin artifact /\ UNCHANGED <<artifact, outputs>>
    BY <1>8, SubmitProps DEF IInv, StageInv, TypeOK, JobTypes
  <2>2. CASE UNCHANGED record /\ stale' = stale
    BY <1>0, <1>s, <2>1, <2>2 DEF CompletedHasOutput, Said
  <2>3. CASE Written(j, "queued")
    BY <1>0, <1>w, <2>1, <2>3 DEF Pending
  <2> QED BY <1>8, <2>2, <2>3, SubmitProps DEF Becomes
<1>9. ASSUME NEW j \in Job, Delete(j) \/ DeleteEnds(j)
      PROVE  RecordInv' /\ CompletedHasOutput'
  <2>1. /\ \/ record'[j] = NoRecord /\ j \notin stale'
           \/ record'[j] = record[j] /\ j \in stale'
        /\ \A k \in Job \ {j} : record'[k] = record[k] /\ (k \in stale' <=> k \in stale)
        /\ artifact' = artifact \ {j} /\ outputs \ {j} \subseteq outputs'
    BY <1>9, DeleteProps DEF RemovedEffect
  <2>2. Said(j)'
    BY <1>s, <2>1, NoRecordProps DEF Said
  <2>3. ASSUME NEW k \in Job \ {j}
        PROVE  Said(k)'
    BY <1>s, <2>1, <2>3 DEF Said
  <2>4. CompletedHasOutput'
    BY <1>s, <2>1 DEF CompletedHasOutput
  <2> QED BY <1>0, <2>2, <2>3, <2>4
<1>10. ASSUME NEW j \in Job, WorkerEnds(j)
      PROVE  RecordInv' /\ CompletedHasOutput'
  <2>1. outputs \subseteq outputs' /\ UNCHANGED <<artifact, record, stale>>
    BY <1>10 DEF WorkerEnds, jobs, history
  <2> QED BY <1>0, <1>s, <2>1 DEF CompletedHasOutput, Said
<1>11. CASE SpawnFails \/ LineFails \/ Conclude
  <2>1. PICK s, ok, writes, js, gone : RunOver(s, ok, writes, js, gone)
    BY <1>11, RunEnds
  <2>2. RunOverEffect(s, ok, writes, js, gone)
    BY <2>1, RunOverProps
  <2>3. ok => run \in outputs /\ s = "completed" /\ run \in known
    BY <2>1 DEF RunOver
  <2>4. ok \in BOOLEAN /\ (writes => s \in Ended) /\ (run \in known => writes)
    BY <2>1 DEF RunOver
  <2>6. outputs \ gone \subseteq outputs'
    BY <2>2 DEF RunOverEffect, RemovedEffect
  <2>5. ASSUME NEW j \in Job
        PROVE  Said(j)'
    <3>1. CASE record'[j] = record[j] /\ j \in stale'
      BY <1>s, <3>1 DEF Said
    <3>2. CASE record'[j] = PurgedRecord(j)
      BY <3>2, PurgedProps DEF Said
    <3>3. CASE /\ j \notin gone /\ j = run /\ writes
               /\ record'[j].status = s /\ record'[j].artifact = ok
      BY <2>3, <2>4, <2>6, <3>3 DEF Said, Ended
    <3>4. CASE /\ j \notin gone /\ record'[j] = record[j] /\ (j \in stale' <=> j \in stale)
      BY <1>s, <2>6, <3>4 DEF Said
    <3> QED BY <2>2, <3>1, <3>2, <3>3, <3>4 DEF RunOverEffect
  <2>7. ASSUME NEW j \in artifact'
        PROVE  j \in outputs' \cup stale'
    <3>1. j \notin gone /\ j \in artifact \cup (IF ok THEN {run} ELSE {})
      BY <2>2, <2>7 DEF RunOverEffect
    <3>2. j \in outputs => j \in outputs'
      BY <2>6, <3>1
    <3>3. CASE j \in outputs
      BY <3>2, <3>3
    <3>4. CASE j \in artifact /\ j \in stale
      <4>1. j # run
        BY <2>2, <3>4 DEF RunOverEffect, IInv, StageInv
      <4> QED BY <2>2, <3>1, <3>4, <4>1 DEF RunOverEffect
    <3> QED BY <1>s, <2>3, <3>1, <3>3, <3>4
  <2>8. CompletedHasOutput'
    BY <2>7 DEF CompletedHasOutput
  <2> QED BY <1>0, <2>5, <2>8
<1> QED BY <1>1, <1>2, <1>4, <1>5, <1>6, <1>7, <1>8, <1>9, <1>10, <1>11, StepCases

\* The records are those of the jobs.
LEMMA TrueStep ==
  ASSUME IInv, [Next]_vars, up # "down" => \A x \in Job \ stale : RecordTrue(x),
         record \in [Job -> Records]
  PROVE  up' # "down" => \A x \in Job \ stale' : RecordTrue(x)'
<1>0. /\ artifact \subseteq known /\ (\A j \in artifact : status[j] = "completed")
      /\ artifact \subseteq Job /\ known \subseteq Job
      /\ status \in [Job -> {"none"} \cup Pending \cup Ended]
  BY DEF IInv, TypeOK, JobTypes, StageInv
<1>w. ASSUME NEW h \in Job, NEW s \in Pending \cup Ended, Written(h, s), up' = up,
             artifact' = artifact, h \notin artifact,
             status' = [status EXCEPT ![h] = s],
             h \in known' \/ h \in revived', known' \in {known, known \cup {h}},
             revived \subseteq revived'
      PROVE  up' # "down" => \A x \in Job \ stale' : RecordTrue(x)'
  <2>1. status'[h] = s /\ \A j \in Job \ {h} : status'[j] = status[j]
    BY <1>0, <1>w
  <2>2. h \notin stale' => RecordTrue(h)'
    BY <1>w, <2>1 DEF RecordTrue, Written
  <2>3. ASSUME NEW j \in Job \ {h}, j \notin stale', up # "down"
        PROVE  RecordTrue(j)'
    <3>1. RecordTrue(j) /\ record'[j] = record[j] /\ (j \in known' <=> j \in known)
      BY <1>w, <2>3 DEF Written
    <3> QED BY <1>w, <2>1, <3>1 DEF RecordTrue
  <2> QED BY <1>w, <2>2, <2>3
<1>1. CASE Quiet
  BY <1>1 DEF Quiet, RecordTrue
<1>2. CASE Infeasible \/ Wait \/ Start
  <2>1. PICK s \in {"queued", "in_progress", "failed"} : HeadMoves(s)
    BY <1>2, HeadMoved
  <2>2. Head(queue) \in Job /\ Head(queue) \in known /\ Head(queue) \notin artifact
    BY <1>0, <2>1 DEF HeadMoves, Queued
  <2>3. UNCHANGED <<up, known, artifact, revived>>
    BY <2>1 DEF HeadMoves
  <2>4. CASE UNCHANGED <<record, status, stale>>
    BY <2>3, <2>4 DEF RecordTrue
  <2>5. CASE Becomes(Head(queue), s)
    BY <1>w, <2>2, <2>3, <2>5 DEF Becomes, Pending, Ended
  <2> QED BY <2>1, <2>4, <2>5 DEF HeadMoves
<1>4. CASE ReadLine
  <2>1. /\ run \in Job /\ run \notin artifact /\ UNCHANGED <<up, known, artifact, status>>
        /\ status' = [status EXCEPT ![run] = "in_progress"]
    BY <1>0, <1>4, ReadLineProps
  <2>2. CASE UNCHANGED <<record, stale, revived>>
    BY <2>1, <2>2 DEF RecordTrue
  <2>3. CASE /\ Written(run, "in_progress")
             /\ revived' = IF run \in known THEN revived ELSE revived \cup {run}
    BY <1>w, <2>1, <2>3 DEF Pending
  <2> QED BY <1>4, <2>2, <2>3, ReadLineProps
<1>5. CASE ShutdownEnds \/ Crash
  BY <1>5 DEF ShutdownEnds, Crash, Lost
<1>7. CASE Restart
  <2>1. ASSUME NEW j \in Job, j \notin stale'
        PROVE  RecordTrue(j)'
    <3>1. /\ record[j].status = "none" => record[j] = NoRecord
          /\ record[j].artifact => record[j].status = "completed"
      BY DEF IInv, RecordInv
    <3>2. (j \in known' <=> record[j] # NoRecord) /\ (j \in artifact' <=> record[j].artifact)
      BY <1>7, RestartProps
    <3>3. CASE record[j].status \notin Pending
      BY <1>7, <3>2, <3>3, RestartProps DEF RecordTrue
    <3>4. CASE record[j].status \in Pending
      <4>1. record[j] # NoRecord
        BY <3>4, NoRecordProps DEF Pending
      <4>2. record'[j].status = "failed" /\ record'[j].artifact = record[j].artifact
        BY <1>7, <2>1, <3>4, RestartProps
      <4>3. status'[j] = "failed"
        BY <1>7, <3>4, RestartProps
      <4> QED BY <3>2, <4>1, <4>2, <4>3 DEF RecordTrue
    <3> QED BY <3>3, <3>4
  <2> QED BY <2>1
<1>8. ASSUME NEW j \in Job, Submit(j)
      PROVE  up' # "down" => \A x \in Job \ stale' : RecordTrue(x)'
  <2>1. j \notin artifact /\ UNCHANGED <<up, artifact, revived>>
    BY <1>0, <1>8, SubmitProps DEF IInv, StageInv
  <2>2. CASE UNCHANGED <<known, status, record, stale>>
    BY <2>1, <2>2 DEF RecordTrue
  <2>3. CASE Becomes(j, "queued") /\ known' = known \cup {j}
    BY <1>w, <2>1, <2>3 DEF Becomes, Pending
  <2> QED BY <1>8, <2>2, <2>3, SubmitProps
<1>9. ASSUME NEW j \in Job, Delete(j) \/ DeleteEnds(j)
      PROVE  up' # "down" => \A x \in Job \ stale' : RecordTrue(x)'
  <2>1. /\ record'[j] = NoRecord \/ j \in stale'
        /\ \A k \in Job \ {j} : record'[k] = record[k] /\ (k \in stale' <=> k \in stale)
        /\ artifact' = artifact \ {j} /\ known' = known \ {j}
        /\ UNCHANGED <<up, status, revived>>
    BY <1>9, DeleteProps
  <2>2. j \notin stale' => RecordTrue(j)'
    BY <2>1 DEF RecordTrue
  <2>3. ASSUME NEW k \in Job \ {j}, k \notin stale', up # "down"
        PROVE  RecordTrue(k)'
    BY <2>1, <2>3 DEF RecordTrue
  <2> QED BY <2>1, <2>2, <2>3
<1>10. ASSUME NEW j \in Job, WorkerEnds(j)
      PROVE  up' # "down" => \A x \in Job \ stale' : RecordTrue(x)'
  BY <1>10 DEF WorkerEnds, jobs, past, history, RecordTrue
<1>11. CASE SpawnFails \/ LineFails \/ Conclude
  <2>1. PICK s, ok, writes, js, gone : RunOver(s, ok, writes, js, gone)
    BY <1>11, RunEnds
  <2>2. RunOverEffect(s, ok, writes, js, gone)
    BY <2>1, RunOverProps
  <2>3. /\ gone \subseteq artifact \cup (IF ok THEN {run} ELSE {})
        /\ ok => run \in known /\ s = "completed"
        /\ run \in known => writes
        /\ writes => run \in known \/ run \in revived'
        /\ revived \subseteq revived' /\ UNCHANGED <<up, known>> /\ ok \in BOOLEAN
    BY <2>1 DEF RunOver
  <2>5. run \notin artifact
    BY <1>0, <2>2 DEF RunOverEffect
  <2>6. ASSUME NEW j \in Job, j \notin stale', up # "down"
        PROVE  RecordTrue(j)'
    <3>1. CASE j \in gone
      <4>1. j \in known /\ status'[j] = "completed" /\ j \notin artifact'
        BY <1>0, <2>2, <2>3, <2>5, <3>1 DEF RunOverEffect
      <4>2. record'[j] = PurgedRecord(j)
        BY <2>2, <2>6, <3>1 DEF RunOverEffect
      <4> QED BY <2>3, <4>1, <4>2, PurgedProps DEF RecordTrue
    <3>2. CASE j \notin gone /\ j = run /\ writes
      <4>1. record'[j].status = s /\ record'[j].artifact = ok
        BY <2>2, <2>6, <3>2 DEF RunOverEffect
      <4>2. status'[j] = s /\ (j \in artifact' <=> ok)
        BY <1>0, <2>2, <2>3, <2>5, <3>2 DEF RunOverEffect
      <4> QED BY <2>3, <3>2, <4>1, <4>2 DEF RecordTrue
    <3>3. CASE j \notin gone /\ ~ (j = run /\ writes)
      <4>1. record'[j] = record[j] /\ j \notin stale /\ RecordTrue(j)
        BY <2>2, <2>6, <3>3 DEF RunOverEffect
      <4>2. CASE j # run
        BY <1>0, <2>2, <2>3, <3>3, <4>1, <4>2 DEF RunOverEffect, RecordTrue
      <4>3. CASE j = run
        BY <2>3, <3>3, <4>1, <4>3 DEF RecordTrue
      <4> QED BY <4>2, <4>3
    <3> QED BY <3>1, <3>2, <3>3
  <2> QED BY <2>3, <2>6
<1> QED BY <1>1, <1>2, <1>4, <1>5, <1>7, <1>8, <1>9, <1>10, <1>11, StepCases

\* The source of a pending job keeps its output.
LEMMA SourceStep ==
  ASSUME IInv, [Next]_vars
  PROVE  SourceInv' /\ SourceKept'
<1>1. CASE Quiet
  BY <1>1 DEF Quiet, IInv, TypeOK, JobTypes, FileTypes, SourceInv, SourceKept, StageInv,
     Protected, Queued, Seen, Pending, Ended
<1>2. CASE Infeasible \/ Wait \/ Start
  <2>1. PICK s \in {"queued", "in_progress", "failed"} : HeadMoves(s)
    BY <1>2, HeadMoved
  <2>2. /\ Head(queue) \in Job /\ status[Head(queue)] = "queued"
        /\ UNCHANGED <<known, outputs, sourced>>
        /\ UNCHANGED status \/ status' = [status EXCEPT ![Head(queue)] = s]
    BY <2>1 DEF HeadMoves, Becomes, Queued
  <2>3. Seen \subseteq Seen'
    BY <2>2 DEF Seen, IInv, TypeOK, JobTypes
  <2>4. \A j \in Job : status'[j] \in Pending => status[j] \in Pending
    BY <2>2 DEF Pending, IInv, TypeOK, JobTypes
  <2>5. SourceInv'
    BY <2>2, <2>3 DEF IInv, SourceInv
  <2>6. SourceKept'
    BY <2>2, <2>4 DEF IInv, SourceKept, TypeOK, JobTypes
  <2> QED BY <2>5, <2>6
<1>4. CASE ReadLine
  BY <1>4, ReadLineProps DEF Written, IInv, TypeOK, JobTypes, FileTypes, SourceInv,
     SourceKept, StageInv, Protected, Queued, Seen, Pending, Ended
<1>5. CASE ShutdownEnds
  BY <1>5, ShutdownProps, PurgedProps DEF Swept, Lost, IInv, TypeOK, JobTypes,
     FileTypes, SourceInv, SourceKept, StageInv, Protected, Queued, Seen, Pending, Ended
<1>6. CASE Crash
  BY <1>6 DEF Crash, Lost, files, past, history, IInv, TypeOK, JobTypes, FileTypes, SourceInv,
     SourceKept, StageInv, Protected, Queued, Seen, Pending, Ended
<1>7. CASE Restart
  <2>1. /\ \A j \in Job : status'[j] = IF record[j].status \in Pending THEN "failed"
                                      ELSE IF j \in known' THEN record[j].status ELSE status[j]
        /\ known' = {j \in Job : record[j] # NoRecord}
        /\ sourced' = sourced
    BY <1>7, RestartProps
  <2>2. \A j \in known' : record[j].status # "none"
    BY <2>1 DEF IInv, RecordInv
  <2>3. \A j \in known' : status'[j] \notin Pending
    BY <2>1 DEF Pending
  <2>4. Seen \subseteq Seen'
    BY <2>1, <2>2 DEF Seen
  <2> QED BY <2>1, <2>3, <2>4 DEF IInv, SourceInv, SourceKept, Seen
<1>8. ASSUME NEW j \in Job, Submit(j)
      PROVE  SourceInv' /\ SourceKept'
  <2>1. j \notin sourced /\ outputs \subseteq Seen
    BY <1>8, SubmitProps DEF IInv, SourceInv, TypeOK, FileTypes, StageInv
  <2>2. CASE UNCHANGED <<known, status, sourced>>
    BY <1>8, <2>2, SubmitProps DEF IInv, SourceInv, SourceKept, Seen
  <2>3. CASE /\ Becomes(j, "queued") /\ known' = known \cup {j}
             /\ sourced' = IF Source[j] \in outputs THEN sourced \cup {j} ELSE sourced
    <3>1. Seen' = Seen \cup {j} /\ outputs' = outputs
      <4>1. status' = [status EXCEPT ![j] = "queued"] /\ DOMAIN status = Job
        BY <2>3 DEF Becomes, IInv, TypeOK, JobTypes
      <4>2. \A k \in Job : status'[k] = IF k = j THEN "queued" ELSE status[k]
        BY <4>1
      <4>3. outputs' = outputs
        BY <1>8, SubmitProps
      <4> QED BY <4>2, <4>3 DEF Seen
    <3>2. SourceInv'
      BY <2>1, <2>3, <3>1 DEF IInv, SourceInv
    <3>3. \A k \in sourced : Source[k] # j
      BY <1>8, SubmitProps DEF IInv, SourceInv
    <3>4. \A k \in Job \ {j} : status'[k] = status[k]
      BY <2>3 DEF Becomes, IInv, TypeOK, JobTypes
    <3>5. SourceKept'
      BY <2>1, <2>3, <3>1, <3>3, <3>4 DEF IInv, SourceKept, TypeOK, JobTypes
    <3> QED BY <3>2, <3>5
  <2> QED BY <1>8, <2>2, <2>3, SubmitProps
<1>9. ASSUME NEW j \in Job, Delete(j) \/ DeleteEnds(j)
      PROVE  SourceInv' /\ SourceKept'
  <2>1. /\ known' = known \ {j} /\ outputs \ {j} \subseteq outputs'
        /\ UNCHANGED <<status, sourced>>
    BY <1>9, DeleteProps DEF RemovedEffect
  <2>2. SourceInv'
    BY <2>1 DEF IInv, SourceInv, Seen
  <2>3. SourceKept'
    BY <2>1 DEF IInv, SourceKept
  <2> QED BY <2>2, <2>3
<1>10. ASSUME NEW j \in Job, WorkerEnds(j)
      PROVE  SourceInv' /\ SourceKept'
  BY <1>10 DEF WorkerEnds, jobs, past, history, dispatcher, files, IInv, TypeOK, JobTypes,
     FileTypes, SourceInv, SourceKept, StageInv, Protected, Queued, Seen, Pending, Ended
<1>11. CASE SpawnFails \/ LineFails \/ Conclude
  <2>1. PICK s, ok, writes, js, gone : RunOver(s, ok, writes, js, gone)
    BY <1>11, RunEnds
  <2>2. RunOverEffect(s, ok, writes, js, gone)
    BY <2>1, RunOverProps
  <2>3. /\ outputs \ gone \subseteq outputs' /\ run \in Job /\ status[run] = "in_progress"
        /\ s \in Ended \cup {"in_progress"}
    BY <2>2 DEF RunOverEffect, RemovedEffect
  <2>4. \A j \in Job : status'[j] = IF j = run THEN s ELSE status[j]
    BY <2>2 DEF RunOverEffect, IInv, TypeOK, JobTypes
  <2>5. /\ UNCHANGED <<known, sourced>> /\ gone \cap Protected(js) = {}
        /\ js = Job \/ (run \in known /\ js = Job \ {run})
        /\ run \in known => s \in Ended
    BY <2>1 DEF RunOver
  <2>6. Seen \subseteq Seen'
    BY <2>3, <2>4 DEF Seen, Ended
  <2>7. ASSUME NEW j \in known \cap sourced, status'[j] \in Pending, Source[j] \in known
        PROVE  Source[j] \in outputs'
    <3>1. j \in Job /\ j # run /\ status[j] \in Pending
      BY <2>4, <2>5, <2>7 DEF IInv, TypeOK, JobTypes, Pending, Ended
    <3>2. Source[j] \in Protected(js)
      BY <2>5, <3>1 DEF Protected
    <3>3. Source[j] \in outputs
      BY <2>7, <3>1 DEF IInv, SourceKept
    <3> QED BY <2>3, <2>5, <3>2, <3>3
  <2>8. SourceKept'
    BY <2>5, <2>7 DEF SourceKept
  <2> QED BY <2>5, <2>6, <2>8 DEF IInv, SourceInv
<1> QED BY <1>1, <1>2, <1>4, <1>5, <1>6, <1>7, <1>8, <1>9, <1>10, <1>11, StepCases

\* The type of the states is kept where one of them changes.
LEMMA StatusTyped ==
  ASSUME JobTypes, NEW j, NEW s \in Pending \cup Ended,
         UNCHANGED status \/ status' = [status EXCEPT ![j] = s]
  PROVE  status' \in [Job -> {"none"} \cup Pending \cup Ended]
BY DEF JobTypes

\* The types of the jobs in memory.
LEMMA JobTypesStep ==
  ASSUME IInv, [Next]_vars
  PROVE  JobTypes'
<1> USE MediaAssumption DEF IInv, TypeOK, JobTypes, QueueTypes, RunTypes,
           FileTypes, QueueInv, StageInv, DownInv, LeaseCoversWorker, RecordInv, Queued,
           Seen, Pending, Ended, Dispatching, Gone, Lost, vars, jobs, dispatcher, worker,
           files, bounds, past, history
<1>1. CASE Infeasible \/ Wait \/ Start
  <2>1. PICK s \in {"queued", "in_progress", "failed"} : HeadMoves(s)
    BY <1>1, HeadMoved
  <2>2. UNCHANGED status \/ status' = [status EXCEPT ![Head(queue)] = s]
    BY <2>1 DEF HeadMoves, Becomes
  <2>3. status' \in [Job -> {"none"} \cup Pending \cup Ended]
    <3> HIDE DEF JobTypes
    <3>1. s \in Pending \cup Ended
      OBVIOUS
    <3> QED BY <2>2, <3>1, StatusTyped
  <2>4. /\ since' \in [Job -> 0 .. Grace]
        /\ UNCHANGED <<known, asked, deleting, artifact, done>>
    BY <2>1 DEF HeadMoves
  <2> QED BY <2>3, <2>4
<1>3. CASE Recheck
  BY <1>3 DEF Recheck
<1>5. CASE Spawned
  BY <1>5 DEF Spawned
<1>6. CASE ReadLine
  BY <1>6 DEF ReadLine
<1>7. CASE EndOfOutput
  BY <1>7 DEF EndOfOutput
<1>8. CASE StartFails
  BY <1>8 DEF StartFails
<1>9. CASE WatchdogFires
  BY <1>9 DEF WatchdogFires
<1>10. CASE Pressure \/ DiskFails \/ DiskRecovers
  BY <1>10 DEF Pressure, DiskFails, DiskRecovers
<1>11. CASE ShutdownBegins
  BY <1>11 DEF ShutdownBegins
<1>12. CASE ShutdownEnds
  BY <1>12 DEF ShutdownEnds
<1>13. CASE Crash
  BY <1>13 DEF Crash
<1>14. CASE Restart
  <2>1. known' \subseteq Job
    BY <1>14, RestartProps
  <2>2. status' \in [Job -> {"none"} \cup Pending \cup Ended]
    BY <1>14, RestartProps
  <2>3. artifact' \subseteq known'
    BY <1>14, RestartProps, NoRecordProps
  <2>4. UNCHANGED <<asked, deleting, since, done>> /\ deleting = {}
    BY <1>14 DEF Restart
  <2> QED BY <2>1, <2>2, <2>3, <2>4
<1>15. ASSUME NEW j \in Job, Ask(j) PROVE JobTypes'
  BY <1>15 DEF Ask
<1>16. ASSUME NEW j \in Job, Submit(j) PROVE JobTypes'
  <2>1. \/ UNCHANGED <<known, status>>
        \/ known' = known \cup {j} /\ status' = [status EXCEPT ![j] = "queued"]
    BY <1>16, SubmitProps DEF Becomes
  <2>2. status' \in [Job -> {"none"} \cup Pending \cup Ended]
    <3> HIDE DEF JobTypes
    <3>1. "queued" \in Pending \cup Ended
      OBVIOUS
    <3> QED BY <2>1, <3>1, StatusTyped
  <2>4. known \subseteq known' /\ known' \subseteq Job
    BY <2>1
  <2>3. asked' \subseteq Job /\ UNCHANGED <<since, deleting, artifact, done>>
    BY <1>16 DEF Submit
  <2> QED BY <2>2, <2>3, <2>4
<1>17. ASSUME NEW j \in Job, Delete(j) PROVE JobTypes'
  BY <1>17 DEF Delete
<1>18. ASSUME NEW j \in Job, DeleteBegins(j) PROVE JobTypes'
  BY <1>18 DEF DeleteBegins
<1>19. ASSUME NEW j \in Job, DeleteEnds(j) PROVE JobTypes'
  BY <1>19 DEF DeleteEnds
<1>20. ASSUME NEW j \in Job, Emit(j) PROVE JobTypes'
  BY <1>20 DEF Emit
<1>21. ASSUME NEW j \in Job, WorkerEnds(j) PROVE JobTypes'
  BY <1>21 DEF WorkerEnds
<1>22. ASSUME NEW j \in Job, Killed(j) PROVE JobTypes'
  BY <1>22 DEF Killed
<1>23. CASE SpawnFails \/ LineFails \/ Conclude
  <2>1. PICK s, ok, writes, js, gone : RunOver(s, ok, writes, js, gone)
    BY <1>23, RunEnds
  <2> QED BY <2>1, SMTT(30) DEF RunOver, Finished
<1>24. CASE Idle \/ UNCHANGED vars
  BY <1>24 DEF Idle
<1> HIDE DEF IInv, TypeOK, JobTypes, QueueTypes, RunTypes, FileTypes, QueueInv,
           StageInv, DownInv, LeaseCoversWorker, RecordInv, Queued, Seen, Pending, Ended,
           Dispatching, Gone, Lost, vars, jobs, dispatcher, worker, files, bounds, past, history
<1> QED BY <1>1, <1>3, <1>5, <1>6, <1>7, <1>8, <1>9, <1>10, <1>11, <1>12,
      <1>13, <1>14, <1>15, <1>16, <1>17, <1>18, <1>19, <1>20, <1>21, <1>22, <1>23, <1>24
      DEF Next, DispatchLoop

\* The types of the dispatcher and of the workers.
LEMMA RunTypesStep ==
  ASSUME IInv, [Next]_vars
  PROVE  RunTypes'
<1> USE MediaAssumption DEF IInv, TypeOK, RunTypes, LeaseCoversWorker, Living,
           Dispatching, Lost, vars, jobs, dispatcher, worker, files, bounds, past, history
<1>1. CASE Infeasible
  BY <1>1 DEF Infeasible
<1>2. CASE Wait
  BY <1>2 DEF Wait
<1>3. CASE Recheck
  BY <1>3 DEF Recheck
<1>4. CASE Start
  <2>1. Head(queue) \in Job
    BY <1>4, StartProps DEF HeadMoves
  <2>2. {run', current', lease'} \subseteq Job \cup {NoJob}
    <3>1. /\ current' = current
          /\ UNCHANGED <<run, lease>> \/ (run' = Head(queue) /\ lease' = Head(queue))
      BY <1>4 DEF Start
    <3> QED BY <2>1, <3>1
  <2> QED BY <1>4, <2>2 DEF Start
<1>5. CASE Spawned
  <2>1. run \in Job
    BY <1>5 DEF Spawned
  <2>2. proc' \in [Job -> {"none", "alive", "stopping", "ok", "bad"}]
    BY <1>5, <2>1 DEF Spawned
  <2>3. {run', current', lease'} \subseteq Job \cup {NoJob}
    BY <1>5, <2>1 DEF Spawned
  <2> QED BY <1>5, <2>2, <2>3 DEF Spawned
<1>6. CASE ReadLine
  BY <1>6 DEF ReadLine
<1>7. CASE EndOfOutput
  BY <1>7 DEF EndOfOutput
<1>8. CASE StartFails
  BY <1>8 DEF StartFails
<1>9. CASE WatchdogFires
  BY <1>9 DEF WatchdogFires
<1>10. CASE Pressure \/ DiskFails \/ DiskRecovers
  BY <1>10 DEF Pressure, DiskFails, DiskRecovers
<1>11. CASE ShutdownBegins
  BY <1>11 DEF ShutdownBegins
<1>12. CASE ShutdownEnds
  BY <1>12 DEF ShutdownEnds
<1>13. CASE Crash
  BY <1>13 DEF Crash
<1>14. CASE Restart
  BY <1>14 DEF Restart
<1>15. ASSUME NEW j \in Job, Ask(j) PROVE RunTypes'
  BY <1>15 DEF Ask
<1>16. ASSUME NEW j \in Job, Submit(j) PROVE RunTypes'
  BY <1>16 DEF Submit
<1>17. ASSUME NEW j \in Job, Delete(j) PROVE RunTypes'
  BY <1>17 DEF Delete
<1>18. ASSUME NEW j \in Job, DeleteBegins(j) PROVE RunTypes'
  BY <1>18 DEF DeleteBegins
<1>19. ASSUME NEW j \in Job, DeleteEnds(j) PROVE RunTypes'
  BY <1>19 DEF DeleteEnds
<1>20. ASSUME NEW j \in Job, Emit(j) PROVE RunTypes'
  BY <1>20 DEF Emit
<1>21. ASSUME NEW j \in Job, WorkerEnds(j) PROVE RunTypes'
  <2>1. \E s \in {"ok", "bad"} : proc' = [proc EXCEPT ![j] = s]
    BY <1>21 DEF WorkerEnds
  <2>2. proc' \in [Job -> {"none", "alive", "stopping", "ok", "bad"}]
    BY <2>1
  <2> QED BY <1>21, <2>2 DEF WorkerEnds
<1>22. ASSUME NEW j \in Job, Killed(j) PROVE RunTypes'
  BY <1>22 DEF Killed
<1>23. CASE SpawnFails \/ LineFails \/ Conclude
  <2>1. PICK s, ok, writes, js, gone : RunOver(s, ok, writes, js, gone)
    BY <1>23, RunEnds
  <2> QED BY <2>1 DEF RunOver, Finished
<1>24. CASE Idle \/ UNCHANGED vars
  BY <1>24 DEF Idle
<1> HIDE DEF IInv, TypeOK, RunTypes, LeaseCoversWorker, Living, Dispatching,
           Lost, vars, jobs, dispatcher, worker, files, bounds, past, history
<1> QED BY <1>1, <1>2, <1>3, <1>4, <1>5, <1>6, <1>7, <1>8, <1>9, <1>10, <1>11, <1>12,
      <1>13, <1>14, <1>15, <1>16, <1>17, <1>18, <1>19, <1>20, <1>21, <1>22, <1>23, <1>24
      DEF Next, DispatchLoop

------------------------------------------------------------------------------
\* The invariant holds initially.
LEMMA InitIInv ==
  Init => IInv
<1> SUFFICES ASSUME Init PROVE IInv
  OBVIOUS
<1>1. QueueInv /\ QueueTypes
  BY EmptySeq DEF Init, QueueInv, QueueTypes, IsInjective
<1>2. JobTypes
  BY MediaAssumption, EmptySeq DEF Init, JobTypes
<1>3. RunTypes
  BY DEF Init, RunTypes
<1>4. FileTypes /\ RecordInv
  BY NoRecordProps DEF Init, FileTypes, RecordInv, Records
<1>5. StageInv /\ SourceInv /\ DownInv /\ WorkerInv
  BY DEF Init, StageInv, SourceInv, DownInv, WorkerInv, Seen, Queued
<1>6. LeaseCoversWorker /\ RecordsTrue /\ CompletedHasOutput /\ SourceKept
  BY MediaAssumption
     DEF Init, LeaseCoversWorker, RecordsTrue, CompletedHasOutput, SourceKept, Living
<1> QED BY <1>1, <1>2, <1>3, <1>4, <1>5, <1>6 DEF IInv, TypeOK

\* Every step preserves it.
LEMMA NextIInv ==
  IInv /\ [Next]_vars => IInv'
<1> SUFFICES ASSUME IInv, [Next]_vars PROVE IInv'
  OBVIOUS
<1>1. QueueInv' /\ QueueTypes'
  BY QueueStep, SeqWider DEF QueueInv, QueueTypes, Queued
<1>2. TypeOK'
  BY <1>1, JobTypesStep, RunTypesStep, FileTypesStep DEF TypeOK
<1>3. RecordsTrue'
  <2>1. record \in [Job -> Records] /\ record' \in [Job -> Records]
    BY FileTypesStep DEF IInv, TypeOK, FileTypes, Records
  <2>2. up # "down" => \A j \in Job \ stale : RecordTrue(j)
    BY <2>1, RecordsTrueMeans DEF IInv
  <2>3. up' # "down" => \A j \in Job \ stale' : RecordTrue(j)'
    BY <2>1, <2>2, TrueStep
  <2> QED BY <2>1, <2>3, RecordsTrueMeans
<1> QED BY <1>1, <1>2, <1>3, StageStep, DownStep, LeaseStep, RecordStep, SourceStep DEF
      IInv

\* The inductive invariant.
THEOREM Invariant ==
  Spec => []IInv
BY InitIInv, NextIInv, PTL DEF Spec

\* The queue holds queued jobs, each once, and the dispatcher one of the jobs.
THEOREM TypesHold ==
  Spec => []TypeOK
<1>1. IInv => TypeOK
  BY DEF IInv
<1> QED BY <1>1, Invariant, PTL

\* Whatever ends a run ends its lease, and no worker but a stray outlives it.
THEOREM LeaseHeld ==
  Spec => []LeaseCoversWorker
<1>1. IInv => LeaseCoversWorker
  BY DEF IInv
<1> QED BY <1>1, Invariant, PTL

\* What a restart reads is what the clients were last told, job by job, but for the
\* jobs whose record the disk did not take when it was last written or removed.
THEOREM RecordsHold ==
  Spec => []RecordsTrue
<1>1. IInv => RecordsTrue
  BY DEF IInv
<1> QED BY <1>1, Invariant, PTL

\* A completed job that has not expired has its output, unless a purge or deletion
\* of it could not be recorded before a restart.
THEOREM OutputKept ==
  Spec => []CompletedHasOutput
<1>1. IInv => CompletedHasOutput
  BY DEF IInv
<1> QED BY <1>1, Invariant, PTL

\* Retention keeps the source of every pending job.
THEOREM SourcesKept ==
  Spec => []SourceKept
<1>1. IInv => SourceKept
  BY DEF IInv
<1> QED BY <1>1, Invariant, PTL
=============================================================================
