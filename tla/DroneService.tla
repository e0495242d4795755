---------------------------- MODULE DroneService ----------------------------
(***************************************************************************)
(* The drone service on top of the job API: the RabbitMQ consumer that     *)
(* turns job.submitted into a Celery task, the Celery queue with late      *)
(* acknowledgement, and the worker processes that run the photogrammetry   *)
(* task and its ground-control variant against NodeODM.                    *)
(*                                                                         *)
(* A worker step is one SQL statement (each autocommits) or one call to    *)
(* another system; the progress messages sent to Redis along the way only  *)
(* matter here as calls that may raise, and have no state of their own.    *)
(* A delivery of a submission carries a copy number: copy 1 is the publish,*)
(* higher ones are made by brokers that deliver again.                     *)
(***************************************************************************)
EXTENDS JobApi

CONSTANTS
  Workers,     \* slots of the Celery workers: one pool child runs one task
  MaxRetries,  \* max_retries of the Celery task
  MaxCrashes,  \* bound: runs cut off by the death of a main worker process
  Progresses   \* sample engine progress figures, within 0..100

ASSUME DroneAssumption ==
  /\ IsFiniteSet(Workers)
  /\ MaxRetries \in Nat
  /\ MaxCrashes \in Nat
  /\ Progresses \subseteq 0 .. 100
  /\ 0 \in Progresses

VARIABLES
  tasks,      \* Celery task messages ready to be taken
  worker,     \* what each worker process is doing
  engine,     \* the NodeODM task each worker created and polls
  uploads,    \* times each output object was written to the object store
  announced,  \* terminal events published for each job
  delivered,  \* history: outputs of the run that last wrote COMPLETE
  dropped,    \* history: how deliveries of a job ended without a verdict
  crashes     \* history: runs cut off by the death of a main worker process

droneVars == <<tasks, worker, engine, uploads, announced, delivered, dropped, crashes>>
historyVars == <<delivered, dropped, crashes>>
vars == <<apiVars, droneVars>>

TaskMessages == [job : Jobs, copy : 1 .. MaxCopies, retries : 0 .. MaxRetries]

\* Where a run stands, named for the next thing it does; "retried" has nothing
\* left to do but the acknowledgement of its delivery.
BeforeVerdict == {"load", "init", "mission", "prepare", "submit", "stage",
                  "poll", "download", "ingest", "record", "complete", "fail"}
AfterVerdict == {"missionDone", "announce", "cleanup",
                 "failMission", "failAnnounce"}
RunSteps == BeforeVerdict \cup AfterVerdict \cup {"retried"}

Runs == [pc : RunSteps \cup {"idle"}, job : Jobs \cup {NoJob}, copy : 0 .. MaxCopies,
         retries : 0 .. MaxRetries, asset : 0 .. Assets + 1, made : SUBSET AssetIds]
NoRun == [pc |-> "idle", job |-> NoJob, copy |-> 0, retries |-> 0,
          asset |-> 0, made |-> {}]
EngineTasks == [code : {"none", "running", "completed", "failed"}, progress : 0 .. 100]
NoEngineTask == [code |-> "none", progress |-> 0]

DropReasons == {"uncommitted", "ignored", "dispatch", "exception",
                "timeLimit", "workerLost", "exhausted"}
ChildDeaths == {"timeLimit", "workerLost"}
Verdicts == {"completed", "failed"}

TypeOK ==
  /\ ApiTypeOK
  /\ tasks \subseteq TaskMessages
  /\ worker \in [Workers -> Runs]
  /\ \A w \in Workers : worker[w].pc # "idle" => worker[w].job \in Jobs
  /\ \A w \in Workers : worker[w].pc # "idle" => worker[w].copy # 0
  /\ \A w \in Workers : worker[w].pc = "record" => worker[w].asset \in AssetIds
  /\ engine \in [Workers -> EngineTasks]
  /\ uploads \in [Jobs -> [AssetIds -> Nat]]
  /\ announced \in [Jobs -> SUBSET Verdicts]
  /\ delivered \in [Jobs -> SUBSET AssetIds]
  /\ dropped \in [Jobs -> SUBSET DropReasons]
  /\ crashes \in 0 .. MaxCrashes

Init ==
  /\ ApiInit
  /\ tasks = {}
  /\ worker = [w \in Workers |-> NoRun]
  /\ engine = [w \in Workers |-> NoEngineTask]
  /\ uploads = [j \in Jobs |-> NoOutputs]
  /\ announced = [j \in Jobs |-> {}]
  /\ delivered = [j \in Jobs |-> {}]
  /\ dropped = [j \in Jobs |-> {}]
  /\ crashes = 0

-----------------------------------------------------------------------------
(* RabbitMQ consumer: message.process(requeue=False) around one handler.   *)

Task(m, r) == [job |-> m.job, copy |-> m.copy, retries |-> r]
Drop(j, why) == dropped' = [dropped EXCEPT ![j] = @ \cup {why}]

\* A drone job type is handed to Celery and the message acknowledged.
Dispatch(m) ==
  /\ m \in submitted
  /\ TypeOf[m.job] \in DroneTypes
  /\ Consume(m)
  /\ tasks' = tasks \cup {Task(m, 0)}
  /\ OnlyQueue /\ UNCHANGED copies
  /\ UNCHANGED <<worker, engine, uploads, announced, historyVars>>

\* Any other job type is acknowledged and nothing is done about it.
Ignore(m) ==
  /\ m \in submitted
  /\ TypeOf[m.job] \notin DroneTypes
  /\ Consume(m)
  /\ Drop(m.job, "ignored")
  /\ OnlyQueue /\ UNCHANGED copies
  /\ UNCHANGED <<tasks, worker, engine, uploads, announced, delivered, crashes>>

\* .delay() raises (the Celery broker is down): process(requeue=False) rejects
\* the message for good.
DispatchFails(m) ==
  /\ "dispatch" \in Faults
  /\ m \in submitted
  /\ TypeOf[m.job] \in DroneTypes
  /\ Consume(m)
  /\ Drop(m.job, "dispatch")
  /\ OnlyQueue /\ UNCHANGED copies
  /\ UNCHANGED <<tasks, worker, engine, uploads, announced, delivered, crashes>>

\* The consumer process dies between .delay() and the acknowledgement:
\* RabbitMQ delivers the message again.
DispatchTwice(m) ==
  /\ m \in submitted
  /\ TypeOf[m.job] \in DroneTypes
  /\ tasks' = tasks \cup {Task(m, 0)}
  /\ Redeliver(m) /\ OnlyQueue
  /\ UNCHANGED <<worker, engine, uploads, announced, historyVars>>

-----------------------------------------------------------------------------
(* One run of the task: photogrammetry.run or photogrammetry.run_gcp.      *)

Job(w) == worker[w].job
IsGcp(w) == TypeOf[Job(w)] = "GCP_PHOTOGRAMMETRY"
At(w, pc) == worker[w].pc = pc
GoTo(w, pc) == worker' = [worker EXCEPT ![w].pc = pc]

\* The run ends and its delivery is acknowledged; a NodeODM task that was not
\* removed is left to itself.
Finish(w) ==
  /\ worker' = [worker EXCEPT ![w] = NoRun]
  /\ engine' = [engine EXCEPT ![w] = NoEngineTask]

\* Mutant: the write inserts the row when there is none.
WriteStatus_Upsert(w, s) ==
  status' = [status EXCEPT ![Job(w)] = s] /\ UNCHANGED revived /\ OnlyJob

\* A worker writes the status of its job.
WriteStatus(w, s) == UpdateJobStatus(Job(w), s) /\ OnlyJob

NoApiChange == UNCHANGED apiVars

Take(w, t) ==
  /\ At(w, "idle")
  /\ t \in tasks
  /\ tasks' = tasks \ {t}
  /\ worker' = [worker EXCEPT ![w] = [pc |-> "load", job |-> t.job, copy |-> t.copy,
                                      retries |-> t.retries, asset |-> 0, made |-> {}]]
  /\ NoApiChange
  /\ UNCHANGED <<engine, uploads, announced, historyVars>>

\* get_job: without a row the task is skipped and thereby acknowledged; the
\* row's status is not looked at.
LoadJob(w) ==
  /\ At(w, "load")
  /\ RowExists(Job(w))
  /\ GoTo(w, "init")
  /\ NoApiChange
  /\ UNCHANGED <<tasks, engine, uploads, announced, historyVars>>

SkipMissingJob(w) ==
  /\ At(w, "load")
  /\ ~RowExists(Job(w))
  /\ IF status[Job(w)] = "UNUSED" THEN Drop(Job(w), "uncommitted")
                                  ELSE UNCHANGED dropped
  /\ Finish(w)
  /\ NoApiChange
  /\ UNCHANGED <<tasks, uploads, announced, delivered, crashes>>

WriteInitializing(w) ==
  /\ At(w, "init")
  /\ WriteStatus(w, "INITIALIZING")
  /\ GoTo(w, "mission")
  /\ UNCHANGED <<tasks, engine, uploads, announced, delivered, dropped, crashes>>

WriteMissionProcessing(w) ==
  /\ At(w, "mission")
  /\ UpdateMissionStatus(MissionOf[Job(w)], "PROCESSING")
  /\ GoTo(w, "prepare")
  /\ OnlyMission
  /\ UNCHANGED <<tasks, engine, uploads, announced, historyVars>>

\* The configuration and the imagery are checked and the images downloaded;
\* too few images, or missing control points, is a terminal failure.
Prepare(w) ==
  /\ At(w, "prepare")
  /\ \E next \in {"submit", "fail"} : GoTo(w, next)
  /\ NoApiChange
  /\ UNCHANGED <<tasks, engine, uploads, announced, historyVars>>

\* create_task: NodeODM accepts the task or rejects it (NodeODMError).
CreateEngineTask(w) ==
  /\ At(w, "submit")
  /\ \/ /\ engine' = [engine EXCEPT ![w] = [code |-> "running", progress |-> 0]]
        /\ GoTo(w, "stage")
     \/ /\ GoTo(w, "fail")
        /\ UNCHANGED engine
  /\ NoApiChange
  /\ UNCHANGED <<tasks, uploads, announced, historyVars>>

WriteFeatureExtraction(w) ==
  /\ At(w, "stage")
  /\ WriteStatus(w, "FEATURE_EXTRACTION")
  /\ GoTo(w, "poll")
  /\ UNCHANGED <<tasks, engine, uploads, announced, delivered, dropped, crashes>>

\* The engine works on its own: its progress grows until it completes or fails.
EngineStep(w) ==
  /\ engine[w].code = "running"
  /\ \/ \E p \in Progresses :
          /\ p > engine[w].progress
          /\ engine' = [engine EXCEPT ![w].progress = p]
     \/ \E code \in {"completed", "failed"} :
          engine' = [engine EXCEPT ![w].code = code]
  /\ NoApiChange
  /\ UNCHANGED <<tasks, worker, uploads, announced, historyVars>>

StageOf(w) == IF IsGcp(w) THEN "POINT_CLOUD_GENERATION"
                          ELSE StageForProgress(engine[w].progress)

\* One turn of the polling loop while the engine is still running.
PollRunning(w) ==
  /\ At(w, "poll")
  /\ engine[w].code = "running"
  /\ WriteStatus(w, StageOf(w))
  /\ UNCHANGED <<tasks, worker, engine, uploads, announced, delivered, dropped, crashes>>

\* The last turn: the loop is left on completion, or by a failure report.
PollDone(w) ==
  /\ At(w, "poll")
  /\ \/ engine[w].code = "completed" /\ GoTo(w, "download")
     \/ engine[w].code = "failed" /\ GoTo(w, "fail")
  /\ NoApiChange
  /\ UNCHANGED <<tasks, engine, uploads, announced, historyVars>>

\* download_all and unpacking; the ground-control task also corrects the
\* outputs here, which may end in a terminal failure.
Download(w) ==
  /\ At(w, "download")
  /\ \/ worker' = [worker EXCEPT ![w].pc = "ingest", ![w].asset = 1]
     \/ IsGcp(w) /\ GoTo(w, "fail")
  /\ NoApiChange
  /\ UNCHANGED <<tasks, engine, uploads, announced, historyVars>>

\* The archive does not hold the next asset.
SkipAsset(w) ==
  /\ At(w, "ingest")
  /\ worker[w].asset \in AssetIds
  /\ worker' = [worker EXCEPT ![w].asset = @ + 1]
  /\ NoApiChange
  /\ UNCHANGED <<tasks, engine, uploads, announced, historyVars>>

\* The asset is written to the object store under .../job-<id>/<asset name>,
\* the same key in every run of the job.
UploadAsset(w) ==
  /\ At(w, "ingest")
  /\ worker[w].asset \in AssetIds
  /\ uploads' = [uploads EXCEPT ![Job(w)][worker[w].asset] = @ + 1]
  /\ GoTo(w, "record")
  /\ NoApiChange
  /\ UNCHANGED <<tasks, engine, announced, historyVars>>

RecordOutput(w) ==
  LET a == worker[w].asset IN
  /\ At(w, "record")
  /\ InsertOutput(Job(w), a)
  /\ worker' = [worker EXCEPT ![w].pc = "ingest", ![w].asset = a + 1,
                              ![w].made = @ \cup {a}]
  /\ OnlyOutputs
  /\ UNCHANGED <<tasks, engine, uploads, announced, historyVars>>

IngestDone(w) ==
  /\ At(w, "ingest")
  /\ worker[w].asset = Assets + 1
  /\ GoTo(w, "complete")
  /\ NoApiChange
  /\ UNCHANGED <<tasks, engine, uploads, announced, historyVars>>

WriteComplete(w) ==
  /\ At(w, "complete")
  /\ WriteStatus(w, "COMPLETE")
  /\ delivered' = [delivered EXCEPT ![Job(w)] = worker[w].made]
  /\ GoTo(w, "missionDone")
  /\ UNCHANGED <<tasks, engine, uploads, announced, dropped, crashes>>

WriteMissionCompleted(w) ==
  /\ At(w, "missionDone")
  /\ UpdateMissionStatus(MissionOf[Job(w)], "COMPLETED")
  /\ GoTo(w, "announce")
  /\ OnlyMission
  /\ UNCHANGED <<tasks, engine, uploads, announced, historyVars>>

\* Mutant: the failure path publishes the wrong event.
Announce_Completed(w, verdict) ==
  announced' = [announced EXCEPT ![Job(w)] = @ \cup {"completed"}]

\* publish_event: other services see the verdict at once.
Announce(w, verdict) ==
  announced' = [announced EXCEPT ![Job(w)] = @ \cup {verdict}]

PublishCompleted(w) ==
  /\ At(w, "announce")
  /\ Announce(w, "completed")
  /\ GoTo(w, "cleanup")
  /\ NoApiChange
  /\ UNCHANGED <<tasks, engine, uploads, historyVars>>

\* remove_task is best effort; the run returns and is acknowledged.
RemoveEngineTask(w) ==
  /\ At(w, "cleanup")
  /\ Finish(w)
  /\ NoApiChange
  /\ UNCHANGED <<tasks, uploads, announced, historyVars>>

\* Mutant: the failure path forgets the job row.
WriteFailed_Skipped(w) ==
  /\ At(w, "fail")
  /\ GoTo(w, "failMission")
  /\ NoApiChange
  /\ UNCHANGED <<tasks, engine, uploads, announced, delivered, dropped, crashes>>

\* _fail: FAILED, the mission FAILED, job.failed, and the run returns.
WriteFailed(w) ==
  /\ At(w, "fail")
  /\ WriteStatus(w, "FAILED")
  /\ GoTo(w, "failMission")
  /\ UNCHANGED <<tasks, engine, uploads, announced, delivered, dropped, crashes>>

WriteMissionFailed(w) ==
  /\ At(w, "failMission")
  /\ UpdateMissionStatus(MissionOf[Job(w)], "FAILED")
  /\ GoTo(w, "failAnnounce")
  /\ OnlyMission
  /\ UNCHANGED <<tasks, engine, uploads, announced, historyVars>>

PublishFailed(w) ==
  /\ At(w, "failAnnounce")
  /\ Announce(w, "failed")
  /\ Finish(w)
  /\ NoApiChange
  /\ UNCHANGED <<tasks, uploads, historyVars>>

-----------------------------------------------------------------------------
(* What goes wrong in a run.                                               *)

\* Mutant: the task is acknowledged before it runs, and not sent again.
Requeue_EarlyAck(w, r) == UNCHANGED tasks

\* The task of a worker goes back to the Celery queue.
Requeue(w, r) == tasks' = tasks \cup {Task(worker[w], r)}

RetriesLeft(w) == worker[w].retries < MaxRetries

\* Mutant: any step may end in a retry.
RetryPoints_Any == RunSteps

\* The calls to NodeODM: the only ones that raise NodeODMUnavailableError.
RetryPoints == {"submit", "poll", "download"}

\* NodeODM cannot be reached.  While retries are left, self.retry() publishes
\* the task with one retry more, and the delivery in hand is acknowledged only
\* afterwards; when none is left, or that publish fails, the error is raised
\* and the delivery acknowledged.
EngineUnavailable(w) ==
  /\ "outage" \in Faults
  /\ worker[w].pc \in RetryPoints
  /\ \/ /\ RetriesLeft(w)
        /\ Requeue(w, worker[w].retries + 1)
        /\ GoTo(w, "retried")
        /\ engine' = [engine EXCEPT ![w] = NoEngineTask]
        /\ UNCHANGED dropped
     \/ /\ ~RetriesLeft(w) \/ "exception" \in Faults
        /\ Drop(Job(w), IF RetriesLeft(w) THEN "exception" ELSE "exhausted")
        /\ Finish(w)
        /\ UNCHANGED tasks
  /\ NoApiChange
  /\ UNCHANGED <<uploads, announced, delivered, crashes>>

AcknowledgeRetry(w) ==
  /\ At(w, "retried")
  /\ Finish(w)
  /\ NoApiChange
  /\ UNCHANGED <<tasks, uploads, announced, historyVars>>

\* The steps at which some call of the run can raise an error that is none of
\* the run's own: the database, the object store, Redis or RabbitMQ.  Recording
\* an output raises by itself once the job's row is gone.
MayRaise(w) ==
  \/ "exception" \in Faults /\ worker[w].pc \in RunSteps \ {"cleanup", "retried"}
  \/ At(w, "record") /\ ~RowExists(Job(w))

\* Did the call that raised take effect?  Only publishing can be in doubt.
InDoubt(w) ==
  \/ UNCHANGED announced
  \/ At(w, "announce") /\ Announce(w, "completed")
  \/ At(w, "failAnnounce") /\ Announce(w, "failed")

\* photogrammetry.run does not catch such an error, and neither task catches
\* one raised inside _fail: Celery acknowledges the delivery as failed.
RaiseUncaught(w) ==
  /\ MayRaise(w)
  /\ ~IsGcp(w) \/ worker[w].pc \in {"fail", "failMission", "failAnnounce"}
  /\ IF worker[w].pc \in BeforeVerdict THEN Drop(Job(w), "exception")
                                       ELSE UNCHANGED dropped
  /\ InDoubt(w)
  /\ Finish(w)
  /\ NoApiChange
  /\ UNCHANGED <<tasks, uploads, delivered, crashes>>

\* photogrammetry.run_gcp marks the job FAILED on any error, even on one raised
\* after COMPLETE was written.
RaiseCaught(w) ==
  /\ MayRaise(w)
  /\ IsGcp(w)
  /\ worker[w].pc \notin {"load", "fail", "failMission", "failAnnounce"}
  /\ InDoubt(w)
  /\ GoTo(w, "fail")
  /\ NoApiChange
  /\ UNCHANGED <<tasks, engine, uploads, historyVars>>

\* The same when get_job itself raised: the job is unknown, so only its status
\* is written before the error goes on.
RaiseBeforeLoad(w) ==
  /\ MayRaise(w)
  /\ IsGcp(w)
  /\ At(w, "load")
  /\ \/ /\ WriteStatus(w, "FAILED")
        /\ IF status[Job(w)] = "UNUSED" THEN Drop(Job(w), "uncommitted")
                                        ELSE UNCHANGED dropped
     \/ /\ Drop(Job(w), "exception")
        /\ NoApiChange
  /\ Finish(w)
  /\ UNCHANGED <<tasks, uploads, announced, delivered, crashes>>

\* A pool child dies, by the hard time limit or by itself (out of memory, a
\* signal): the main process acknowledges its delivery all the same, as
\* task_reject_on_worker_lost is not set, and nobody resumes the run.
ChildKilled(w) ==
  /\ worker[w].pc \in RunSteps
  /\ \E why \in ChildDeaths \cap Faults :
       IF worker[w].pc \in BeforeVerdict THEN Drop(Job(w), why)
                                         ELSE UNCHANGED dropped
  /\ Finish(w)
  /\ NoApiChange
  /\ UNCHANGED <<tasks, uploads, announced, delivered, crashes>>

\* The main worker process dies, for the runs of each of its children: their
\* deliveries were not acknowledged (task_acks_late) and go back to the queue.
\* One whose retry is out already comes back beside that retry.
Crash(w) ==
  LET j == Job(w) IN
  /\ "crash" \in Faults
  /\ crashes < MaxCrashes
  /\ worker[w].pc \in RunSteps
  /\ \/ /\ ~At(w, "retried")
        /\ Requeue(w, worker[w].retries)
        /\ NoApiChange
     \/ /\ At(w, "retried")
        /\ CanCopy(j)
        /\ CountCopy(j)
        /\ tasks' = tasks \cup {Task(NewCopy(j), worker[w].retries)}
        /\ OnlyQueue /\ UNCHANGED submitted
  /\ crashes' = crashes + 1
  /\ Finish(w)
  /\ UNCHANGED <<uploads, announced, delivered, dropped>>

\* The Redis broker's visibility timeout expires during a long run: the
\* delivery is handed out again while the first run goes on.
VisibilityTimeout(w) ==
  LET j == Job(w) IN
  /\ worker[w].pc \in RunSteps
  /\ CanCopy(j)
  /\ CountCopy(j)
  /\ tasks' = tasks \cup {Task(NewCopy(j), worker[w].retries)}
  /\ OnlyQueue /\ UNCHANGED submitted
  /\ UNCHANGED <<worker, engine, uploads, announced, historyVars>>

-----------------------------------------------------------------------------
ConsumerStep(m) == Dispatch(m) \/ Ignore(m)

RunStep(w) ==
  \/ LoadJob(w) \/ SkipMissingJob(w)
  \/ WriteInitializing(w) \/ WriteMissionProcessing(w) \/ Prepare(w)
  \/ CreateEngineTask(w) \/ WriteFeatureExtraction(w)
  \/ PollRunning(w) \/ PollDone(w)
  \/ Download(w) \/ SkipAsset(w) \/ UploadAsset(w) \/ RecordOutput(w) \/ IngestDone(w)
  \/ WriteComplete(w) \/ WriteMissionCompleted(w) \/ PublishCompleted(w)
  \/ RemoveEngineTask(w)
  \/ WriteFailed(w) \/ WriteMissionFailed(w) \/ PublishFailed(w)
  \/ RaiseUncaught(w) \/ RaiseCaught(w) \/ AcknowledgeRetry(w)

FaultStep(w) ==
  \/ EngineUnavailable(w) \/ RaiseBeforeLoad(w)
  \/ ChildKilled(w) \/ Crash(w) \/ VisibilityTimeout(w)

Next ==
  \/ ApiNext /\ UNCHANGED droneVars
  \/ \E m \in submitted : ConsumerStep(m) \/ DispatchFails(m) \/ DispatchTwice(m)
  \/ \E w \in Workers, t \in tasks : Take(w, t)
  \/ \E w \in Workers : RunStep(w) \/ EngineStep(w) \/ FaultStep(w)

Spec == Init /\ [][Next]_vars

\* Requests run to their end, the brokers deliver, free workers take tasks,
\* runs go on and NodeODM finishes what it started.
Fairness ==
  /\ \A r \in Requests : WF_vars(RequestStep(r) /\ UNCHANGED droneVars)
  /\ WF_vars(\E m \in submitted : ConsumerStep(m))
  /\ WF_vars(\E w \in Workers, t \in tasks : Take(w, t))
  /\ \A w \in Workers : WF_vars(RunStep(w)) /\ WF_vars(EngineStep(w))

FairSpec == Spec /\ Fairness

-----------------------------------------------------------------------------
(* Properties.                                                             *)

\* Job j is still owed a verdict: its submission waits in RabbitMQ or in the
\* Celery queue, or a worker has it and has not reached its verdict.
Pending(j) ==
  \/ \E m \in submitted : m.job = j
  \/ \E t \in tasks : t.job = j
  \/ \E w \in Workers : Job(w) = j /\ worker[w].pc \in BeforeVerdict

\* Work is being done for a job in this slot; a run that has published its
\* retry does none.
Executing(w) == worker[w].pc \notin {"idle", "retried"}

\* Two workers execute the same job only if some broker delivered again what
\* was still being run, or what its worker had already published anew as a
\* retry when it died: retries and deaths alone, cancellations and deletions do
\* not cause it.
SingleRunner ==
  \A v, w \in Workers :
    v # w /\ Executing(v) /\ Executing(w) /\ Job(v) = Job(w) => copies[Job(w)] > 1

\* A job that the table shows as active is still owed a run that will settle
\* it, unless one of its deliveries ended in one of the ways Drop records; the
\* death of a pool child is one of them (against FR-JOB-006, see the README).
NoSilentLoss ==
  \A j \in Jobs : status[j] \in ActiveStatuses => Pending(j) \/ dropped[j] # {}

\* A COMPLETE job has a row for every output of the run that completed it,
\* unless a stale cancellation re-inserted the job after its rows were deleted.
CompleteHasItsOutputs ==
  \A j \in Jobs :
    status[j] = "COMPLETE" /\ j \notin resurrected
      => \A a \in delivered[j] : outputs[j][a] > 0

\* Retries never record an output twice: each delivery does it at most once,
\* and only the kill of a worker makes a delivery start over.
OutputsPerDelivery ==
  \A j \in Jobs, a \in AssetIds : outputs[j][a] <= copies[j] + crashes

\* Delivered once and never restarted, a photogrammetry job announces a verdict
\* that its row bears out, unless the row was cancelled or deleted.
VerdictMatchesRow ==
  \A j \in Jobs :
    TypeOf[j] = "PHOTOGRAMMETRY" /\ copies[j] = 1 /\ crashes = 0 =>
      /\ "completed" \in announced[j] => status[j] \in {"COMPLETE", "CANCELLED", "GONE"}
      /\ "failed" \in announced[j] => status[j] \in {"FAILED", "CANCELLED", "GONE"}

\* While it is delivered once, an active job only moves forward through the
\* pipeline, except that a new attempt starts again at INITIALIZING.
StageOrder ==
  [][\A j \in Jobs :
       copies[j] = 1 /\ status[j] \in ActiveStatuses /\ status'[j] \in RunningStatuses
         => \/ status'[j] = "INITIALIZING"
            \/ StageRank(status'[j]) >= StageRank(status[j])]_vars

\* A photogrammetry job delivered once and never restarted leaves COMPLETE only
\* through a cancellation that had read it before, or by being deleted.
CompleteIsFinal ==
  [][\A j \in Jobs :
       TypeOf[j] = "PHOTOGRAMMETRY" /\ copies[j] = 1 /\ crashes = 0
         /\ status[j] = "COMPLETE"
         => status'[j] \in {"COMPLETE", "CANCELLED", "GONE"}]_vars

\* A job that a worker has started reaches a terminal status or is deleted, also
\* when NodeODM is away, main worker processes die and brokers deliver again on
\* the way, unless one of its deliveries ended in one of the ways Drop records;
\* the death of a pool child is one of them (against FR-JOB-006, see the README).
StartedJobsSettle ==
  \A j \in Jobs :
    status[j] \in RunningStatuses
      ~> status[j] \in TerminalStatuses \cup NoRow \/ dropped[j] # {}

=============================================================================
