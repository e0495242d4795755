-------------------------- MODULE SatelliteService --------------------------
(***************************************************************************)
(* The satellite service on top of the job API: its consumer of            *)
(* job.submitted, its Celery queue, and the workers that run a spectral    *)
(* analysis or a change detection.  Unlike the drone service it has no     *)
(* retries, leaves the mission alone, and its catch-all turns any error,   *)
(* also one raised after COMPLETE was written, into FAILED.                *)
(*                                                                         *)
(* A worker step is one SQL statement or one call to another system.  A    *)
(* run makes one output, asset 1 of the job.                               *)
(***************************************************************************)
EXTENDS JobApi, Analytics

CONSTANTS
  Workers,         \* slots of the Celery workers: one pool child runs one task
  MaxCrashes,      \* bound: runs cut off by the death of a main worker process
  SpectralInputs,  \* what a spectral job may find in its config and its scene
  ChangeInputs     \* the same for a change detection

ASSUME SatelliteAssumption ==
  /\ Assets = 1
  /\ IsFiniteSet(Workers)
  /\ MaxCrashes \in Nat
  /\ \A i \in SpectralInputs :
       /\ i.hasKey \in BOOLEAN
       /\ \A b \in DOMAIN i.raster : i.raster[b] \in Band
  /\ \A i \in ChangeInputs :
       /\ i.hasKeys \in BOOLEAN
       /\ i.threshold \in Int
       /\ \A b \in DOMAIN i.earlier : i.earlier[b] \in Band
       /\ \A b \in DOMAIN i.later : i.later[b] \in Band

VARIABLES
  tasks,      \* Celery task messages ready to be taken
  worker,     \* what each worker process is doing
  announced,  \* terminal events published for each job
  dropped,    \* history: how deliveries of a job ended without a verdict
  crashes     \* history: runs cut off by the death of a main worker process

satelliteVars == <<tasks, worker, announced, dropped, crashes>>
vars == <<apiVars, satelliteVars>>

Layer == 1
BeforeVerdict == {"load", "init", "analyse", "upload", "record", "complete", "fail"}
AfterVerdict == {"announce", "failAnnounce"}
RunSteps == BeforeVerdict \cup AfterVerdict
Verdicts == {"completed", "failed"}
ChildDeaths == {"timeLimit", "workerLost"}
DropReasons == {"uncommitted", "ignored", "dispatch", "exception"} \cup ChildDeaths

\* The result of a run, beside what each value was computed from.
Spectral(i) ==
  LET bands == ReadBands(i.raster, i.bands)
      result == ComputeIndex(i.index, bands)
  IN  [op |-> "SPECTRAL_ANALYSIS", index |-> i.index,
       values |-> {[value |-> result[p], samples |-> Samples(bands, p)] : p \in Pixels}]
Change(i) == [op |-> "CHANGE_DETECTION", threshold |-> i.threshold,
              summary |-> ChangeSummary(Difference(i.earlier[i.band], i.later[i.band]),
                                        i.threshold)]

\* The checks a run makes of its input; whatever fails them is a failed job.
SpectralValid(i) ==
  i.hasKey /\ Readable(i.raster, i.bands) /\ Computable(i.index, i.bands)
ChangeValid(i) ==
  i.hasKeys /\ i.band \in DOMAIN i.earlier /\ i.band \in DOMAIN i.later

Results == {Spectral(i) : i \in {i \in SpectralInputs : SpectralValid(i)}}
           \cup {Change(i) : i \in {i \in ChangeInputs : ChangeValid(i)}}

NoRun == [pc |-> "idle", job |-> NoJob, copy |-> 0, result |-> {}]
Runs == [pc : RunSteps \cup {"idle"}, job : Jobs \cup {NoJob}, copy : 0 .. MaxCopies,
         result : SUBSET Results]

TypeOK ==
  /\ ApiTypeOK
  /\ tasks \subseteq Messages
  /\ worker \in [Workers -> Runs]
  /\ \A w \in Workers : worker[w].pc # "idle" => worker[w].job \in Jobs
  /\ \A w \in Workers : worker[w].pc # "idle" => worker[w].copy # 0
  /\ announced \in [Jobs -> SUBSET Verdicts]
  /\ dropped \in [Jobs -> SUBSET DropReasons]
  /\ crashes \in 0 .. MaxCrashes

Init ==
  /\ ApiInit
  /\ tasks = {}
  /\ worker = [w \in Workers |-> NoRun]
  /\ announced = [j \in Jobs |-> {}]
  /\ dropped = [j \in Jobs |-> {}]
  /\ crashes = 0

NoApiChange == UNCHANGED apiVars
OnlyWorker == NoApiChange /\ UNCHANGED <<tasks, announced, dropped, crashes>>

-----------------------------------------------------------------------------
(* RabbitMQ consumer: message.process(requeue=False) around one handler.   *)

Drop(j, why) == dropped' = [dropped EXCEPT ![j] = @ \cup {why}]
Acknowledge(m) == Consume(m) /\ UNCHANGED copies /\ OnlyQueue

Dispatch(m) ==
  /\ TypeOf[m.job] \in SatelliteTypes
  /\ Acknowledge(m)
  /\ tasks' = tasks \cup {m}
  /\ UNCHANGED <<worker, announced, dropped, crashes>>

\* Any other job type is acknowledged and nothing is done about it.
Ignore(m) ==
  /\ TypeOf[m.job] \notin SatelliteTypes
  /\ Acknowledge(m)
  /\ Drop(m.job, "ignored")
  /\ UNCHANGED <<tasks, worker, announced, crashes>>

\* .delay() raises: the message is rejected for good.
DispatchFails(m) ==
  /\ "dispatch" \in Faults
  /\ TypeOf[m.job] \in SatelliteTypes
  /\ Acknowledge(m)
  /\ Drop(m.job, "dispatch")
  /\ UNCHANGED <<tasks, worker, announced, crashes>>

\* The consumer dies between .delay() and the acknowledgement.
DispatchTwice(m) ==
  /\ TypeOf[m.job] \in SatelliteTypes
  /\ tasks' = tasks \cup {m}
  /\ Redeliver(m) /\ OnlyQueue
  /\ UNCHANGED <<worker, announced, dropped, crashes>>

-----------------------------------------------------------------------------
(* One run of analytics.spectral or analytics.change.                      *)

Job(w) == worker[w].job
At(w, pc) == worker[w].pc = pc
GoTo(w, pc) == worker' = [worker EXCEPT ![w].pc = pc]
Finish(w) == worker' = [worker EXCEPT ![w] = NoRun]

\* Mutant: the write inserts the row when there is none.
WriteStatus_Upsert(w, s) ==
  /\ status' = [status EXCEPT ![Job(w)] = s] /\ UNCHANGED revived /\ OnlyJob
  /\ UNCHANGED <<tasks, announced, dropped, crashes>>

WriteStatus(w, s) ==
  /\ UpdateJobStatus(Job(w), s) /\ OnlyJob
  /\ UNCHANGED <<tasks, announced, dropped, crashes>>

Take(w, m) ==
  /\ At(w, "idle")
  /\ m \in tasks
  /\ tasks' = tasks \ {m}
  /\ worker' = [worker EXCEPT ![w] = [pc |-> "load", job |-> m.job, copy |-> m.copy,
                                      result |-> {}]]
  /\ NoApiChange
  /\ UNCHANGED <<announced, dropped, crashes>>

LoadJob(w) ==
  /\ At(w, "load")
  /\ RowExists(Job(w))
  /\ GoTo(w, "init")
  /\ OnlyWorker

\* Without a row the run returns, and the delivery is acknowledged.
SkipMissingJob(w) ==
  /\ At(w, "load")
  /\ ~RowExists(Job(w))
  /\ IF status[Job(w)] = "UNUSED" THEN Drop(Job(w), "uncommitted")
                                  ELSE UNCHANGED dropped
  /\ Finish(w)
  /\ NoApiChange
  /\ UNCHANGED <<tasks, announced, crashes>>

\* Whatever the row's status is by now, CANCELLED and COMPLETE included.
WriteInitializing(w) ==
  /\ At(w, "init")
  /\ WriteStatus(w, "INITIALIZING")
  /\ GoTo(w, "analyse")

\* The config is checked, the scenes are downloaded, read and computed on.
AnalyseTo(w, result) == worker' = [worker EXCEPT ![w].pc = "upload", ![w].result = {result}]
Analyse(w) ==
  /\ At(w, "analyse")
  /\ \/ /\ TypeOf[Job(w)] = "SPECTRAL_ANALYSIS"
        /\ \E i \in SpectralInputs :
             IF SpectralValid(i) THEN AnalyseTo(w, Spectral(i)) ELSE GoTo(w, "fail")
     \/ /\ TypeOf[Job(w)] = "CHANGE_DETECTION"
        /\ \E i \in ChangeInputs :
             IF ChangeValid(i) THEN AnalyseTo(w, Change(i)) ELSE GoTo(w, "fail")
  /\ OnlyWorker

\* Mutant: the layer is uploaded and no output recorded.
UploadLayer_Unrecorded(w) ==
  /\ At(w, "upload")
  /\ GoTo(w, "complete")
  /\ OnlyWorker

\* The same object key in every run of the job.
UploadLayer(w) ==
  /\ At(w, "upload")
  /\ GoTo(w, "record")
  /\ OnlyWorker

RecordLayer(w) ==
  /\ At(w, "record")
  /\ InsertOutput(Job(w), Layer)
  /\ worker' = [worker EXCEPT ![w].pc = "complete", ![w].result = {}]
  /\ OnlyOutputs
  /\ UNCHANGED <<tasks, announced, dropped, crashes>>

WriteComplete(w) ==
  /\ At(w, "complete")
  /\ WriteStatus(w, "COMPLETE")
  /\ GoTo(w, "announce")

Announce(w, verdict) ==
  announced' = [announced EXCEPT ![Job(w)] = @ \cup {verdict}]

PublishCompleted(w) ==
  /\ At(w, "announce")
  /\ Announce(w, "completed")
  /\ Finish(w)
  /\ NoApiChange
  /\ UNCHANGED <<tasks, dropped, crashes>>

WriteFailed(w) ==
  /\ At(w, "fail")
  /\ WriteStatus(w, "FAILED")
  /\ GoTo(w, "failAnnounce")

PublishFailed(w) ==
  /\ At(w, "failAnnounce")
  /\ Announce(w, "failed")
  /\ Finish(w)
  /\ NoApiChange
  /\ UNCHANGED <<tasks, dropped, crashes>>

-----------------------------------------------------------------------------
(* What goes wrong in a run.                                               *)

\* A call to the database, the object store, Redis or RabbitMQ may raise; the
\* insert of an output does by itself once the job's row is gone.
MayRaise(w) ==
  \/ "exception" \in Faults /\ worker[w].pc \in RunSteps
  \/ At(w, "record") /\ ~RowExists(Job(w))

\* Only publishing can take effect and raise all the same.
InDoubt(w) ==
  \/ UNCHANGED announced
  \/ At(w, "announce") /\ Announce(w, "completed")
  \/ At(w, "failAnnounce") /\ Announce(w, "failed")

\* Mutant: the task is acknowledged before it runs.
Requeue_EarlyAck(w) == UNCHANGED tasks

Requeue(w) == tasks' = tasks \cup {[job |-> Job(w), copy |-> worker[w].copy]}

\* Any error of a run whose job is known ends in _fail.
RaiseCaught(w) ==
  /\ MayRaise(w)
  /\ worker[w].pc \in RunSteps \ {"load", "fail", "failAnnounce"}
  /\ InDoubt(w)
  /\ worker' = [worker EXCEPT ![w].pc = "fail", ![w].result = {}]
  /\ NoApiChange
  /\ UNCHANGED <<tasks, dropped, crashes>>

\* connect() or get_job raises, or _fail does: Celery acknowledges the delivery
\* as failed.  After get_job, _fail still writes the status, and nothing else.
RaiseUncaught(w) ==
  /\ MayRaise(w)
  /\ worker[w].pc \in {"load", "fail", "failAnnounce"}
  /\ InDoubt(w)
  /\ IF At(w, "failAnnounce") THEN UNCHANGED dropped ELSE Drop(Job(w), "exception")
  /\ Finish(w)
  /\ NoApiChange
  /\ UNCHANGED <<tasks, crashes>>

RaiseBeforeLoad(w) ==
  /\ MayRaise(w)
  /\ At(w, "load")
  /\ UpdateJobStatus(Job(w), "FAILED") /\ OnlyJob
  /\ IF status[Job(w)] = "UNUSED" THEN Drop(Job(w), "uncommitted")
                                  ELSE UNCHANGED dropped
  /\ Finish(w)
  /\ UNCHANGED <<tasks, announced, crashes>>

\* A pool child dies, by the hard time limit or by itself (out of memory, a
\* signal): the main process acknowledges its delivery all the same, as
\* task_reject_on_worker_lost is not set, and nobody resumes the run.
ChildKilled(w) ==
  /\ worker[w].pc \in RunSteps
  /\ \E why \in ChildDeaths \cap Faults :
       IF worker[w].pc \in BeforeVerdict THEN Drop(Job(w), why)
                                         ELSE UNCHANGED dropped
  /\ Finish(w)
  /\ NoApiChange
  /\ UNCHANGED <<tasks, announced, crashes>>

\* The main worker process dies, for the runs of each of its children: their
\* deliveries were not acknowledged (task_acks_late) and are queued again.
Crash(w) ==
  /\ "crash" \in Faults
  /\ crashes < MaxCrashes
  /\ worker[w].pc \in RunSteps
  /\ Requeue(w)
  /\ crashes' = crashes + 1
  /\ Finish(w)
  /\ NoApiChange
  /\ UNCHANGED <<announced, dropped>>

\* The broker's visibility timeout expires: the delivery is handed out again.
VisibilityTimeout(w) ==
  LET j == Job(w) IN
  /\ worker[w].pc \in RunSteps
  /\ CanCopy(j)
  /\ CountCopy(j)
  /\ tasks' = tasks \cup {NewCopy(j)}
  /\ OnlyQueue /\ UNCHANGED submitted
  /\ UNCHANGED <<worker, announced, dropped, crashes>>

-----------------------------------------------------------------------------
ConsumerStep(m) == Dispatch(m) \/ Ignore(m) \/ DispatchFails(m) \/ DispatchTwice(m)

RunStep(w) ==
  \/ LoadJob(w) \/ SkipMissingJob(w) \/ WriteInitializing(w)
  \/ Analyse(w) \/ UploadLayer(w) \/ RecordLayer(w)
  \/ WriteComplete(w) \/ PublishCompleted(w)
  \/ WriteFailed(w) \/ PublishFailed(w)

FaultStep(w) ==
  \/ RaiseCaught(w) \/ RaiseUncaught(w) \/ RaiseBeforeLoad(w)
  \/ ChildKilled(w) \/ Crash(w) \/ VisibilityTimeout(w)

Next ==
  \/ ApiNext /\ UNCHANGED satelliteVars
  \/ \E m \in submitted : ConsumerStep(m)
  \/ \E w \in Workers, m \in tasks : Take(w, m)
  \/ \E w \in Workers : RunStep(w) \/ FaultStep(w)

Spec == Init /\ [][Next]_vars

-----------------------------------------------------------------------------
(* Properties.                                                             *)

\* Job j is still owed a verdict by the service.
Pending(j) ==
  \/ \E m \in submitted \cup tasks : m.job = j
  \/ \E w \in Workers : Job(w) = j /\ worker[w].pc \in BeforeVerdict

\* Every error is answered by FAILED or accounted for: an active job is still
\* owed a run, or one of its deliveries ended in a way that Drop names (_fail);
\* the death of a pool child is one of them (against FR-JOB-006, see the README).
NoSilentLoss ==
  \A j \in Jobs : status[j] \in ActiveStatuses => Pending(j) \/ dropped[j] # {}

\* Who is told that a job is complete, by its row or by job.completed, finds its
\* layer, unless a stale cancellation inserted the job again: also when the
\* catch-all has made it FAILED since.
VerdictHasItsLayer ==
  \A j \in Jobs \ resurrected :
    RowExists(j) /\ (status[j] = "COMPLETE" \/ "completed" \in announced[j])
      => outputs[j][Layer] > 0

NonNegative(index, samples) == \A role \in RequiredBands[index] : samples[role] >= 0
NonPositive(index, samples) == \A role \in RequiredBands[index] : samples[role] <= 0

\* An index value divides by nothing that is zero, whatever the samples.  It
\* keeps to the range of the registry when the samples are not of mixed signs
\* (a sample beside one of nodata leaves it, see the README); SAVI keeps to one
\* and a half times the range, and that only over samples that are not negative,
\* and EVI to none, for reflectances may be above one.
ValueSound(index, v) ==
  /\ v.value.den # 0
  /\ index \notin {"EVI", "SAVI"}
       /\ (NonNegative(index, v.samples) \/ NonPositive(index, v.samples))
     => InRange(v.value)
  /\ index = "SAVI" /\ NonNegative(index, v.samples)
     => InRange([num |-> 2 * v.value.num, den |-> 3 * v.value.den])

\* What a run is about to record: every index value is sound, and above a
\* positive threshold every change went up or down, not both.
ResultsAreSound ==
  \A w \in Workers : \A r \in worker[w].result :
    IF r.op = "SPECTRAL_ANALYSIS"
    THEN \A v \in r.values : ValueSound(r.index, v)
    ELSE r.threshold > 0 =>
           r.summary.changed = r.summary.increased + r.summary.decreased
=============================================================================
