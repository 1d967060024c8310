----------------------------- MODULE MediaJobs -----------------------------
(****************************************************************************)
(* MediaJobManager (omlx/video/manager.py): the queue of video and image    *)
(* jobs, the dispatcher that runs one worker process at a time under a      *)
(* memory lease of the enforcer, the watchdog of that worker, the records   *)
(* and artifacts on disk, deletion, retention, crash and restart.           *)
(*                                                                          *)
(* The coroutines run on one event loop: an action is what one of them does *)
(* between two awaits.  The worker is a process of its own, and a crash of  *)
(* the server leaves it running.                                            *)
(****************************************************************************)
EXTENDS Integers, Sequences, FiniteSets, SequencesExt

CONSTANTS
  Job, NoJob,
  Kind,         \* Kind[j]: "video" or "image"
  Source,       \* Source[j]: the job whose video j extends, or NoJob
  MaxQueued,    \* max_queued_jobs, of each kind
  MaxArtifacts, \* artifacts_max_count, of each kind
  Grace,        \* rechecks within _INFEASIBLE_FAIL_S
  Faults,       \* faults that occur: "disk", "spawn", "line"
  MaxFaults,    \* bound: faults
  MaxPressure,  \* bound: changes of the memory in use
  MaxDeletes,   \* bound: deletions
  MaxEnds       \* bound: crashes and shutdowns

ASSUME MediaAssumption ==
  /\ NoJob \notin Job
  /\ Kind \in [Job -> {"video", "image"}]
  /\ Source \in [Job -> Job \cup {NoJob}]
  /\ {MaxQueued, Grace} \subseteq Nat \ {0}
  /\ {MaxArtifacts, MaxFaults, MaxPressure, MaxDeletes, MaxEnds} \subseteq Nat
  /\ Faults \subseteq {"disk", "spawn", "line"}

VARIABLES
  up,        \* "up", "stopping" (shutdown) or "down"
  known,     \* the keys of _jobs
  status,    \* of each MediaJob object ("none": there is none yet)
  asked,     \* jobs whose route has checked the source and not yet submitted
  queue,     \* _queue
  since,     \* _infeasible_since: rechecks since the lease was first infeasible
  artifact,  \* jobs with an artifact_path
  done,      \* the jobs that ever completed, in the order of completed_at
  pc, run,   \* the dispatcher, and the job _run_job is at work on
  current,   \* _current_job_id and _current_proc
  lease,     \* the job the enforcer's lease is held for
  watchdog,  \* "off" or "on"
  kill,      \* kill_reason is not empty
  unread,    \* there is output of the worker to be read
  deleting,  \* delete() awaits the end of the job's worker
  record,    \* the JSON files: [status, artifact] per job
  blobs,     \* the jobs that have a directory of files
  outputs,   \* those with an output file in it
  proc,      \* the worker processes: "none", "alive", "stopping", "ok", "bad"
  memory,    \* the admission's view: "free", "tight" or "infeasible"
  disk,      \* "sound", or "failing": any write or removal may raise an OSError
  faults, pressure, deletes, ends,
  stuck,     \* history: jobs whose runner failed before it began
  strays,    \* history: workers left running by a failed runner or a crash
  revived,   \* history: deleted jobs whose record was written again
  sourced,   \* history: jobs submitted while their source had its output
  stale      \* history: jobs whose record's latest writing or removal failed

jobs == <<known, status, asked, queue, since, artifact, done>>
dispatcher == <<pc, run, current, lease>>
worker == <<watchdog, kill, unread, proc>>
files == <<record, blobs, outputs>>
bounds == <<faults, pressure, deletes, ends>>
past == <<stuck, strays, revived, sourced>>
history == <<past, stale>>
vars == <<up, jobs, dispatcher, worker, deleting, files, memory, disk, bounds, history>>

NoRecord == [status |-> "none", artifact |-> FALSE]
Pending == {"queued", "in_progress"}
Ended == {"completed", "failed"}
Living == {j \in Job : proc[j] \in {"alive", "stopping"}}

Fault(kind) == kind \in Faults /\ faults < MaxFaults /\ faults' = faults + 1

\* The records of js become those in new, save some that a failing disk does not
\* take: _persist and delete() pass over an OSError, and the jobs go on.  (Of two
\* writes of one record the last counts.)
Saved(js, new) ==
  \E lost \in SUBSET (IF disk = "failing" THEN js ELSE {}) :
    /\ record' = [j \in Job |-> IF j \in js \ lost THEN new[j] ELSE record[j]]
    /\ stale' = (stale \ js) \cup lost

\* _persist.
Persisted(j, s, a) == Saved({j}, [x \in {j} |-> [status |-> s, artifact |-> a]])

\* rmtree(ignore_errors=True): of some directories of js a failing disk keeps
\* something, of some of these the output.
Removed(js) ==
  \E left \in SUBSET (IF disk = "failing" THEN js ELSE {}) :
    \E whole \in SUBSET left :
      /\ blobs' = blobs \ (js \ left)
      /\ outputs' = outputs \ (js \ whole)

Init ==
  /\ up = "up" /\ known = {} /\ status = [j \in Job |-> "none"]
  /\ asked = {} /\ queue = <<>> /\ since = [j \in Job |-> 0]
  /\ artifact = {} /\ done = <<>>
  /\ pc = "loop" /\ run = NoJob /\ current = NoJob /\ lease = NoJob
  /\ watchdog = "off" /\ kill = FALSE /\ unread = FALSE /\ deleting = {}
  /\ record = [j \in Job |-> NoRecord] /\ blobs = {} /\ outputs = {}
  /\ proc = [j \in Job |-> "none"] /\ memory = "free" /\ disk = "sound"
  /\ faults = 0 /\ pressure = 0 /\ deletes = 0 /\ ends = 0
  /\ stuck = {} /\ strays = {} /\ revived = {} /\ sourced = {} /\ stale = {}

------------------------------------------------------------------------------
(* The routes *)

\* POST: the source is looked at before prompt and first frame are made.
Ask(j) ==
  /\ up = "up" /\ status[j] = "none" /\ j \notin asked
  /\ Source[j] # NoJob =>
       Source[j] \in known /\ status[Source[j]] = "completed" /\ Source[j] \in outputs
  /\ asked' = asked \cup {j}
  /\ UNCHANGED <<up, known, status, queue, since, artifact, done, dispatcher, worker,
                 deleting, files, memory, disk, bounds, history>>

QueueDepth(kind) == Len(SelectSeq(queue, LAMBDA x : Kind[x] = kind))

\* submit; a full queue answers 503.
Submit(j) ==
  /\ up = "up" /\ j \in asked
  /\ asked' = asked \ {j}
  /\ IF QueueDepth(Kind[j]) >= MaxQueued
     THEN UNCHANGED <<known, status, queue, record, sourced, stale>>
     ELSE /\ known' = known \cup {j}
          /\ status' = [status EXCEPT ![j] = "queued"]
          /\ queue' = Append(queue, j)
          /\ Persisted(j, "queued", FALSE)
          /\ sourced' = IF Source[j] \in outputs THEN sourced \cup {j} ELSE sourced
  /\ UNCHANGED <<up, since, artifact, done, dispatcher, worker, deleting, blobs, outputs,
                 memory, disk, bounds, stuck, strays, revived>>

\* Mutant: a deleted job stays in the queue.
QueueKept(j) == queue

QueueWithout(j) == RemoveFirst(queue, j)

\* The end of delete(): record, event and files go.
Gone(j) ==
  /\ known' = known \ {j}
  /\ Saved({j}, [x \in {j} |-> NoRecord])
  /\ Removed({j})
  /\ artifact' = artifact \ {j}

\* delete of a job whose worker runs: SIGTERM, and the wait for its end ...
DeleteBegins(j) ==
  /\ up = "up" /\ j \in known \ deleting /\ deletes < MaxDeletes
  /\ deletes' = deletes + 1
  /\ current = j /\ proc[j] \in {"alive", "stopping"}
  /\ deleting' = deleting \cup {j}
  /\ proc' = [proc EXCEPT ![j] = "stopping"]
  /\ UNCHANGED <<up, jobs, dispatcher, watchdog, kill, unread, files, memory, disk, faults,
                 pressure, ends, history>>

DeleteEnds(j) ==
  /\ j \in deleting /\ j \notin Living
  /\ deleting' = deleting \ {j}
  /\ Gone(j)
  /\ UNCHANGED <<up, status, asked, queue, since, done, dispatcher, worker, memory, disk, bounds,
                 past>>

\* ... and of any other, at once, one that is being started included.
Delete(j) ==
  /\ up = "up" /\ j \in known \ deleting /\ deletes < MaxDeletes
  /\ deletes' = deletes + 1
  /\ ~ (current = j /\ j \in Living)
  /\ queue' = QueueWithout(j)
  /\ Gone(j)
  /\ UNCHANGED <<up, status, asked, since, done, dispatcher, worker, deleting, memory, disk,
                 faults, pressure, ends, past>>

------------------------------------------------------------------------------
(* The dispatcher *)

\* A head that is not queued is dropped; the loop never meets one, since
\* delete takes its job out of the queue (TypeOK).
Dispatching == up = "up" /\ pc = "loop" /\ queue # <<>>

\* Mutant: every recheck restarts the grace of an infeasible lease.
SinceRestarted(j) == 0

\* _infeasible_since.setdefault.
SinceFirst(j) == since[j] + 1

\* A head that waits is written again when the reason has another wording.
Waits(j) == Persisted(j, "queued", FALSE) \/ UNCHANGED <<record, stale>>

\* The lease does not fit under the ceiling at all: after a grace, the job
\* fails rather than block the queue.
Infeasible ==
  /\ Dispatching /\ memory = "infeasible"
  /\ LET j == Head(queue)
     IN \/ /\ since[j] < Grace
           /\ since' = [since EXCEPT ![j] = SinceFirst(j)]
           /\ pc' = "sleep"
           /\ Waits(j)
           /\ UNCHANGED <<queue, status>>
        \/ /\ since[j] >= Grace
           /\ queue' = Tail(queue)
           /\ since' = [since EXCEPT ![j] = 0]
           /\ status' = [status EXCEPT ![j] = "failed"]
           /\ Persisted(j, "failed", FALSE)
           /\ UNCHANGED pc
  /\ UNCHANGED <<up, known, asked, artifact, done, run, current, lease, worker, deleting,
                 blobs, outputs, memory, disk, bounds, past>>

\* Waiting for memory.
Wait ==
  /\ Dispatching /\ memory = "tight"
  /\ since' = [since EXCEPT ![Head(queue)] = 0]
  /\ pc' = "sleep"
  /\ Waits(Head(queue))
  /\ UNCHANGED <<up, known, status, asked, queue, artifact, done, run, current, lease,
                 worker, deleting, blobs, outputs, memory, disk, bounds, past>>

Recheck ==
  /\ pc = "sleep"
  /\ pc' = "loop"
  /\ UNCHANGED <<up, jobs, run, current, lease, worker, deleting, files, memory, disk, bounds,
                 history>>

\* _run_job up to its first await: the source is resolved, the specification
\* written, the lease taken (acquire_video_lease raises if there is one:
\* LeaseCoversWorker), the process started.
Start ==
  /\ Dispatching /\ memory = "free"
  /\ LET j == Head(queue)
     IN /\ queue' = Tail(queue)
        /\ since' = [since EXCEPT ![j] = 0]
        /\ blobs' = blobs \cup {j}
        /\ IF Source[j] = NoJob \/ (Source[j] \in known /\ Source[j] \in outputs)
           THEN /\ status' = [status EXCEPT ![j] = "in_progress"]
                /\ Persisted(j, "in_progress", FALSE)
                /\ lease' = j /\ run' = j /\ pc' = "spawning"
           ELSE /\ status' = [status EXCEPT ![j] = "failed"]
                /\ Persisted(j, "failed", FALSE)
                /\ UNCHANGED <<lease, run, pc>>
  /\ UNCHANGED <<up, known, asked, artifact, done, current, worker, deleting, outputs,
                 memory, disk, bounds, past>>

\* The directory or the specification cannot be written: the exception leaves
\* the job as it is, queued, and in no queue.
StartFails ==
  /\ Dispatching /\ memory = "free" /\ disk = "failing"
  /\ queue' = Tail(queue)
  /\ since' = [since EXCEPT ![Head(queue)] = 0]
  /\ stuck' = stuck \cup {Head(queue)}
  /\ UNCHANGED <<up, known, status, asked, artifact, done, dispatcher, worker, deleting,
                 files, memory, disk, bounds, strays, revived, sourced, stale>>

Spawned ==
  /\ pc = "spawning"
  /\ pc' = "reading"
  /\ current' = run
  /\ proc' = [proc EXCEPT ![run] = "alive"]
  /\ watchdog' = "on" /\ kill' = FALSE /\ unread' = FALSE
  /\ UNCHANGED <<up, jobs, run, lease, deleting, files, memory, disk, bounds, history>>

\* Mutant: the lease of a job deleted meanwhile is not given back.
LeaseKept == IF run \in known THEN NoJob ELSE lease

\* The finally clause of _run_job gives the lease back.
LeaseReleased == NoJob

\* Mutant: retention does not look at the jobs that are still to run.
Unprotected(js) == {}

\* The artifacts that jobs of js extend, pending as they are.
Protected(js) == {Source[j] : j \in {x \in known \cap js : status[x] \in Pending}}

\* The artifacts a sweep may take, while the jobs of js may be pending.
Holders(js) == (artifact \cap outputs) \ Protected(js)

\* _retention_sweep: of the jobs in held, those with enough later ones of their
\* kind go.
Purged(held, order) ==
  LET Later(x) == {y \in held : Kind[y] = Kind[x] /\ \E i, k \in 1 .. Len(order) :
                                  i < k /\ order[i] = x /\ order[k] = y}
  IN {x \in held : Cardinality(Later(x)) >= MaxArtifacts}

\* Mutant: the record of a purged artifact is written as it was.
PurgedStale(j) == record[j]

PurgedRecord(j) == [status |-> "completed", artifact |-> FALSE]

\* _run_job is over: its job is now s, which is written or not, with its output
\* or not; then the sweep, while the jobs of js may be pending.
Finish(s, ok, writes, js) ==
  LET own == IF ok THEN {run} ELSE {}
      gone == Purged(Holders(js) \cup (own \ Protected(js)), done')
  IN /\ status' = [status EXCEPT ![run] = s]
     /\ done' = IF ok THEN Append(done, run) ELSE done
     /\ artifact' = (artifact \cup own) \ gone
     /\ Saved(gone \cup (IF writes THEN {run} ELSE {}),
              [j \in Job |-> IF j \in gone THEN PurgedRecord(j)
                             ELSE [status |-> s, artifact |-> ok]])
     /\ Removed(gone)
     /\ lease' = LeaseReleased
     /\ run' = NoJob /\ current' = NoJob /\ pc' = "loop"
     /\ watchdog' = "off" /\ kill' = FALSE /\ unread' = FALSE

\* create_subprocess_exec raises; the sweep comes before the job is failed.
SpawnFails ==
  /\ pc = "spawning" /\ Fault("spawn")
  /\ Finish("failed", FALSE, TRUE, Job)
  /\ revived' = IF run \in known THEN revived ELSE revived \cup {run}
  /\ UNCHANGED <<up, known, asked, queue, since, proc, deleting, memory,
                 disk, pressure, deletes, ends, stuck, strays, sourced>>

\* _apply_progress: some of the lines are persisted, whoever has deleted the job.
ReadLine ==
  /\ pc = "reading" /\ unread
  /\ unread' = FALSE
  /\ \/ UNCHANGED <<record, stale, revived>>
     \/ /\ Persisted(run, status[run], FALSE)
        /\ revived' = IF run \in known THEN revived ELSE revived \cup {run}
  /\ UNCHANGED <<up, jobs, dispatcher, watchdog, kill, proc, deleting, blobs, outputs,
                 memory, disk, bounds, stuck, strays, sourced>>

\* A line the reader cannot take (too long, or JSON that is no object) ends the
\* runner, not the worker.
LineFails ==
  /\ pc = "reading" /\ unread /\ Fault("line")
  /\ Finish("failed", FALSE, TRUE, Job)
  /\ strays' = IF run \in Living THEN strays \cup {run} ELSE strays
  /\ revived' = IF run \in known THEN revived ELSE revived \cup {run}
  /\ UNCHANGED <<up, known, asked, queue, since, proc, deleting, memory,
                 disk, pressure, deletes, ends, stuck, sourced>>

\* The worker has exited and its output is read; the watchdog is cancelled.
EndOfOutput ==
  /\ pc = "reading" /\ ~ unread /\ run \notin Living
  /\ pc' = "concluding"
  /\ watchdog' = "off"
  /\ UNCHANGED <<up, jobs, run, current, lease, kill, unread, proc, deleting, files, memory,
                 disk, bounds, history>>

\* Mutant: exit code 0 is taken for an output.
SucceededByCode == proc[run] = "ok" /\ ~ kill

Succeeded == proc[run] = "ok" /\ ~ kill /\ run \in outputs

\* _conclude, and the finally clause of _run_job.
Conclude ==
  /\ pc = "concluding"
  /\ \/ /\ run \in known
        /\ Finish(IF Succeeded THEN "completed" ELSE "failed", Succeeded, TRUE, Job \ {run})
     \/ /\ run \notin known
        /\ Finish(status[run], FALSE, FALSE, Job)
  /\ UNCHANGED <<up, known, asked, queue, since, proc, deleting, memory, disk, bounds,
                 past>>

------------------------------------------------------------------------------
(* The worker and its watchdog *)

Emit(j) ==
  /\ j = current /\ j \in Living /\ ~ unread
  /\ unread' = TRUE
  /\ UNCHANGED <<up, jobs, dispatcher, watchdog, kill, proc, deleting, files, memory, disk,
                 bounds, history>>

\* The worker ends, before or after it has made its directory (again, if it was
\* removed meanwhile) and an output in it; its exit code says nothing of either.
WorkerEnds(j) ==
  /\ j \in Living
  /\ \E code \in {"ok", "bad"} : proc' = [proc EXCEPT ![j] = code]
  /\ \/ UNCHANGED <<blobs, outputs>>
     \/ blobs' = blobs \cup {j} /\ outputs' \in {outputs, outputs \cup {j}}
  /\ UNCHANGED <<up, jobs, dispatcher, watchdog, kill, unread, deleting, record, memory,
                 disk, bounds, history>>

\* SIGKILL, for the worker that outlives its grace.
Killed(j) ==
  /\ proc[j] = "stopping"
  /\ proc' = [proc EXCEPT ![j] = "bad"]
  /\ UNCHANGED <<up, jobs, dispatcher, watchdog, kill, unread, deleting, files, memory,
                 disk, bounds, history>>

\* Job timeout, stall, unreadable footprint: SIGTERM.  Over the lease: SIGKILL.
WatchdogFires ==
  /\ watchdog = "on" /\ current \in Living /\ ~ kill
  /\ kill' = TRUE
  /\ \E s \in {"stopping", "bad"} : proc' = [proc EXCEPT ![current] = s]
  /\ UNCHANGED <<up, jobs, dispatcher, watchdog, unread, deleting, files, memory, disk, bounds,
                 history>>

\* What the enforcer reports of the memory in use.
Pressure ==
  /\ up = "up" /\ pressure < MaxPressure
  /\ pressure' = pressure + 1
  /\ memory' \in {"free", "tight", "infeasible"} \ {memory}
  /\ UNCHANGED <<up, jobs, dispatcher, worker, deleting, files, disk, faults, deletes, ends,
                 history>>

\* The disk is full, or not to be written on, for a while.
DiskFails ==
  /\ disk = "sound" /\ Fault("disk")
  /\ disk' = "failing"
  /\ UNCHANGED <<up, jobs, dispatcher, worker, deleting, files, memory, pressure, deletes,
                 ends, history>>

DiskRecovers ==
  /\ disk = "failing"
  /\ disk' = "sound"
  /\ UNCHANGED <<up, jobs, dispatcher, worker, deleting, files, memory, bounds, history>>

------------------------------------------------------------------------------
(* Shutdown, crash, restart *)

\* shutdown: the loop stops at its next turn; a worker is terminated ...
ShutdownBegins ==
  /\ up = "up" /\ deleting = {} /\ ends < MaxEnds
  /\ current # NoJob /\ current \in Living
  /\ ends' = ends + 1
  /\ up' = "stopping"
  /\ proc' = [proc EXCEPT ![current] = "stopping"]
  /\ UNCHANGED <<jobs, dispatcher, watchdog, kill, unread, deleting, files, memory, disk, faults,
                 pressure, deletes, history>>

\* Memory goes; records, files and the workers that run stay.
Lost ==
  /\ up' = "down"
  /\ known' = {} /\ asked' = {} /\ queue' = <<>> /\ since' = [j \in Job |-> 0]
  /\ artifact' = {}
  /\ pc' = "loop" /\ run' = NoJob /\ current' = NoJob /\ lease' = NoJob
  /\ watchdog' = "off" /\ kill' = FALSE /\ unread' = FALSE /\ deleting' = {}

\* ... and waited for, and the dispatcher cancelled in whatever it awaits: a
\* process that is being started is killed, and the sweep of a run made.
ShutdownEnds ==
  /\ \/ up = "stopping" /\ (\A j \in Job : proc[j] # "stopping") /\ UNCHANGED ends
     \/ /\ up = "up" /\ deleting = {} /\ ends < MaxEnds
        /\ current # NoJob => current \notin Living
        /\ ends' = ends + 1
  /\ Lost
  /\ LET gone == IF run = NoJob THEN {} ELSE Purged(Holders(Job), done)
     IN Saved(gone, [j \in gone |-> PurgedRecord(j)]) /\ Removed(gone)
  /\ UNCHANGED <<status, done, proc, memory, disk, faults, pressure, deletes, past>>

Crash ==
  /\ up = "up" /\ ends < MaxEnds
  /\ ends' = ends + 1
  /\ Lost
  /\ strays' = strays \cup Living
  /\ UNCHANGED <<status, done, files, proc, memory, disk, faults, pressure, deletes, stuck,
                 revived, sourced, stale>>

\* _replay_persisted: what was in flight by its record has failed.
Restart ==
  /\ up = "down"
  /\ up' = "up"
  /\ known' = {j \in Job : record[j] # NoRecord}
  /\ LET failed == {j \in Job : record[j].status \in Pending}
     IN /\ status' = [j \in Job |-> IF j \in failed THEN "failed"
                                    ELSE IF j \in known' THEN record[j].status ELSE status[j]]
        /\ Saved(failed, [j \in failed |-> [record[j] EXCEPT !.status = "failed"]])
  /\ artifact' = {j \in Job : record[j].artifact}
  /\ UNCHANGED <<asked, queue, since, done, dispatcher, worker, deleting, blobs, outputs,
                 memory, disk, bounds, past>>

------------------------------------------------------------------------------
\* Nothing is under way, and nobody need ask for more.
Idle ==
  /\ up = "up" /\ asked = {} /\ queue = <<>> /\ pc = "loop" /\ deleting = {}
  /\ UNCHANGED vars

DispatchLoop ==
  \/ Infeasible \/ Wait \/ Recheck \/ Start \/ Spawned
  \/ ReadLine \/ EndOfOutput \/ Conclude

Next ==
  \/ DispatchLoop \/ StartFails \/ SpawnFails \/ LineFails
  \/ \E j \in Job :
       \/ Ask(j) \/ Submit(j) \/ Delete(j) \/ DeleteBegins(j) \/ DeleteEnds(j)
       \/ Emit(j) \/ WorkerEnds(j) \/ Killed(j)
  \/ WatchdogFires \/ Pressure \/ DiskFails \/ DiskRecovers
  \/ ShutdownBegins \/ ShutdownEnds \/ Crash \/ Restart
  \/ Idle

\* The dispatcher's coroutine and the watchdog's run on (its timeouts expire
\* in the end), SIGKILL follows the grace of a SIGTERM, and a shutdown that has
\* begun goes on.  Nothing else is owed: a worker need not end, nor memory become free.
Fairness ==
  /\ WF_vars(DispatchLoop) /\ WF_vars(WatchdogFires)
  /\ \A j \in Job : WF_vars(Killed(j)) /\ WF_vars(DeleteEnds(j))
  /\ WF_vars(up = "stopping" /\ ShutdownEnds)

Spec == Init /\ [][Next]_vars /\ Fairness
------------------------------------------------------------------------------
JobTypes ==
  /\ known \subseteq Job /\ asked \subseteq Job /\ deleting \subseteq known
  /\ status \in [Job -> {"none"} \cup Pending \cup Ended]
  /\ since \in [Job -> 0 .. Grace]
  /\ artifact \subseteq known /\ done \in Seq(Job)

QueueTypes ==
  /\ queue \in Seq(known) /\ IsInjective(queue)
  /\ \A i \in 1 .. Len(queue) : status[queue[i]] = "queued"

RunTypes ==
  /\ up \in {"up", "stopping", "down"}
  /\ pc \in {"loop", "sleep", "spawning", "reading", "concluding"}
  /\ {run, current, lease} \subseteq Job \cup {NoJob}
  /\ watchdog \in {"off", "on"} /\ kill \in BOOLEAN /\ unread \in BOOLEAN
  /\ proc \in [Job -> {"none", "alive", "stopping", "ok", "bad"}]
  /\ memory \in {"free", "tight", "infeasible"} /\ disk \in {"sound", "failing"}

FileTypes ==
  /\ record \in [Job -> [status : {"none"} \cup Pending \cup Ended, artifact : BOOLEAN]]
  /\ outputs \subseteq blobs /\ blobs \subseteq Job /\ stale \subseteq Job

\* Types; the queue holds queued jobs, each once, and the dispatcher one.
TypeOK == JobTypes /\ QueueTypes /\ RunTypes /\ FileTypes

\* A worker runs under the lease, and there is one at a time (acquire_video_lease
\* never raises): whatever ends a run, with its job deleted, killed, failed or
\* the server shut down meanwhile, the lease ends with it and the next run can
\* begin.  The exceptions are workers that nobody stopped (strays).
LeaseCoversWorker ==
  /\ \A j \in Living : lease = j \/ j \in strays
  /\ lease = run
  /\ (run # NoJob) <=> (pc \in {"spawning", "reading", "concluding"})

\* A restart finds what the clients were last told: the records are those of
\* the jobs, with their state; deleted jobs have none, unless their worker's
\* progress or its failure was written once more (revived).  What a failing disk
\* did not take (stale) is the one exception, until the record is written again.
RecordsTrue ==
  up # "down" =>
    \A j \in Job \ stale :
      IF j \in known THEN record[j] = [status |-> status[j], artifact |-> j \in artifact]
      ELSE record[j] = NoRecord \/ j \in revived

\* A completed job that is not said to be expired has its output, but for one whose
\* record a restart found as it was before its files were purged or deleted (stale).
CompletedHasOutput == artifact \subseteq outputs \cup stale

\* Retention never takes the video that an accepted job is to extend; only a
\* deletion does, or a purge between the route's check and the submission.
SourceKept ==
  \A j \in known \cap sourced :
    status[j] \in Pending /\ Source[j] \in known => Source[j] \in outputs

\* Every accepted job ends, or is deleted, if memory does not stay tight: no
\* head of the queue blocks it for good, no worker outlives its timeouts, no
\* deletion or failure stops the dispatcher.  (stuck: not with a failure before
\* the worker is started.)
JobsEnd ==
  []<>(memory # "tight") =>
    \A j \in Job :
      (j \in known /\ status[j] \in Pending)
        ~> (j \notin known \/ status[j] \in Ended \/ j \in stuck)
=============================================================================
