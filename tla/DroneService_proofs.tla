------------------------- MODULE DroneService_proofs -------------------------
(***************************************************************************)
(* What holds of the drone service for every number of jobs, workers,      *)
(* requests, retries, crashes and redeliveries: it implements the job      *)
(* API's view of a service, no active job is lost silently, a delivery has *)
(* one runner and records an output at most once, a complete job keeps its *)
(* outputs, and the verdicts and stages of a job that is delivered once    *)
(* are in order.                                                           *)
(***************************************************************************)
EXTENDS DroneService, JobApi_proofs
-----------------------------------------------------------------------------
\* A move of a busy worker to another step, and the end of its run, keep the
\* types of what the worker holds.
LEMMA GoToTypes ==
  ASSUME TypeOK, NEW w \in Workers, worker[w].pc # "idle",
         NEW pc \in RunSteps \ {"record"}, GoTo(w, pc)
  PROVE  /\ worker' \in [Workers -> Runs]
         /\ \A v \in Workers : worker'[v].pc # "idle" => worker'[v].job \in Jobs
         /\ \A v \in Workers : worker'[v].pc # "idle" => worker'[v].copy # 0
         /\ \A v \in Workers : worker'[v].pc = "record" => worker'[v].asset \in AssetIds
  <1> DEFINE moved == [worker[w] EXCEPT !.pc = pc]
  <1>1. worker' \in [Workers -> Runs]
    <2>1. worker[w] \in Runs BY DEF TypeOK
    <2>2. moved \in Runs BY <2>1 DEF Runs
    <2>3. worker' = [worker EXCEPT ![w] = moved] BY DEF TypeOK, GoTo
    <2> HIDE DEF moved
    <2>4. QED BY <2>2, <2>3 DEF TypeOK
  <1>2. ASSUME NEW v \in Workers
        PROVE  /\ worker'[v].job = worker[v].job /\ worker'[v].copy = worker[v].copy
               /\ worker'[v].asset = worker[v].asset
               /\ worker'[v].pc = IF v = w THEN pc ELSE worker[v].pc
    BY DEF TypeOK, GoTo, Runs
  <1>3. QED BY <1>1, <1>2 DEF TypeOK

LEMMA FinishTypes ==
  ASSUME TypeOK, NEW w \in Workers, Finish(w)
  PROVE  /\ worker' \in [Workers -> Runs]
         /\ \A v \in Workers : worker'[v].pc # "idle" => worker'[v].job \in Jobs
         /\ \A v \in Workers : worker'[v].pc # "idle" => worker'[v].copy # 0
         /\ \A v \in Workers : worker'[v].pc = "record" => worker'[v].asset \in AssetIds
         /\ engine' \in [Workers -> EngineTasks]
  BY JobApiAssumption, DroneAssumption
  DEF TypeOK, Finish, Runs, NoRun, EngineTasks, NoEngineTask

\* The stage a poll writes is a running status.
LEMMA StageTypes ==
  ASSUME TypeOK, NEW w \in Workers
  PROVE  StageOf(w) \in RunningStatuses
  <1>1. ASSUME NEW p \in 0 .. 100 PROVE StageForProgress(p) \in RunningStatuses
    <2> DEFINE reached == {i \in DOMAIN ProgressStages : p < ProgressStages[i].below}
    <2>1. DOMAIN ProgressStages = 1 .. 5 BY DEF ProgressStages
    <2>2. \A i \in 1 .. 5 : ProgressStages[i].stage \in RunningStatuses
      BY DEF ProgressStages, RunningStatuses
    <2>3. QED BY <2>1, <2>2 DEF StageForProgress, RunningStatuses, ProgressStages
  <1>2. engine[w].progress \in 0 .. 100 BY DEF TypeOK, EngineTasks
  <1>3. QED BY <1>1, <1>2 DEF StageOf, RunningStatuses

-----------------------------------------------------------------------------
(* Refinement: what a drone step does to the API's variables is a step the  *)
(* API allows its services.                                                 *)

\* A job status written by a run is a status statement of a service.
LEMMA WriteRefines ==
  ASSUME TypeOK, NEW w \in Workers, worker[w].pc # "idle",
         NEW s \in RunningStatuses \cup {"COMPLETE", "FAILED"}, WriteStatus(w, s)
  PROVE  ServiceNext
  <1>1. Job(w) \in Jobs BY DEF TypeOK, Job
  <1>2. QED BY <1>1 DEF WriteStatus, ServiceNext

\* So is a mission status.
LEMMA MissionRefines ==
  ASSUME TypeOK, NEW w \in Workers, worker[w].pc # "idle",
         NEW s \in {"PROCESSING", "COMPLETED", "FAILED"},
         UpdateMissionStatus(MissionOf[Job(w)], s), OnlyMission
  PROVE  ServiceNext
  <1>1. MissionOf[Job(w)] \in Missions BY JobApiAssumption DEF TypeOK, Job
  <1>2. QED BY <1>1 DEF ServiceNext

LEMMA ConsumerRefines ==
  ASSUME TypeOK, NEW m \in submitted,
         ConsumerStep(m) \/ DispatchFails(m) \/ DispatchTwice(m)
  PROVE  ServiceNext
  BY DEF ConsumerStep, Dispatch, Ignore, DispatchFails, DispatchTwice, ServiceNext

LEMMA RunRefines ==
  ASSUME TypeOK, NEW w \in Workers, RunStep(w)
  PROVE  ServiceNext \/ UNCHANGED apiVars
  <1>1. CASE WriteInitializing(w)
    BY <1>1, WriteRefines DEF WriteInitializing, At, RunningStatuses
  <1>2. CASE WriteFeatureExtraction(w)
    BY <1>2, WriteRefines DEF WriteFeatureExtraction, At, RunningStatuses
  <1>3. CASE PollRunning(w)
    BY <1>3, WriteRefines, StageTypes DEF PollRunning, At
  <1>4. CASE WriteComplete(w)
    BY <1>4, WriteRefines DEF WriteComplete, At
  <1>5. CASE WriteFailed(w)
    BY <1>5, WriteRefines DEF WriteFailed, At
  <1>6. CASE WriteMissionProcessing(w)
    BY <1>6, MissionRefines DEF WriteMissionProcessing, At
  <1>7. CASE WriteMissionCompleted(w)
    BY <1>7, MissionRefines DEF WriteMissionCompleted, At
  <1>8. CASE WriteMissionFailed(w)
    BY <1>8, MissionRefines DEF WriteMissionFailed, At
  <1>9. CASE RecordOutput(w)
    <2>1. Job(w) \in Jobs BY <1>9 DEF RecordOutput, At, TypeOK, Job
    <2>2. worker[w].asset \in AssetIds
      BY <1>9 DEF RecordOutput, At, TypeOK
    <2>3. QED BY <1>9, <2>1, <2>2 DEF RecordOutput, ServiceNext
  <1>10. CASE \/ LoadJob(w) \/ SkipMissingJob(w) \/ Prepare(w) \/ CreateEngineTask(w)
              \/ PollDone(w) \/ Download(w) \/ SkipAsset(w) \/ UploadAsset(w)
              \/ IngestDone(w) \/ PublishCompleted(w) \/ RemoveEngineTask(w)
              \/ PublishFailed(w) \/ RaiseUncaught(w) \/ RaiseCaught(w)
              \/ AcknowledgeRetry(w)
    BY <1>10 DEF LoadJob, SkipMissingJob, Prepare, CreateEngineTask, PollDone, Download,
                 SkipAsset, UploadAsset, IngestDone, PublishCompleted, RemoveEngineTask,
                 PublishFailed, RaiseUncaught, RaiseCaught, AcknowledgeRetry, NoApiChange
  <1>11. QED
    BY <1>1, <1>2, <1>3, <1>4, <1>5, <1>6, <1>7, <1>8, <1>9, <1>10 DEF RunStep

LEMMA FaultRefines ==
  ASSUME TypeOK, NEW w \in Workers, FaultStep(w)
  PROVE  ServiceNext \/ UNCHANGED apiVars
  <1>1. CASE RaiseBeforeLoad(w)
    BY <1>1, WriteRefines DEF RaiseBeforeLoad, At, NoApiChange
  <1>2. CASE VisibilityTimeout(w)
    <2>1. Job(w) \in Jobs
      BY <1>2 DEF VisibilityTimeout, TypeOK, Job, RunSteps, BeforeVerdict, AfterVerdict
    <2>2. QED BY <1>2, <2>1 DEF VisibilityTimeout, ServiceNext
  <1>3. CASE EngineUnavailable(w) \/ ChildKilled(w)
    BY <1>3 DEF EngineUnavailable, ChildKilled, NoApiChange
  <1>4. CASE Crash(w)
    <2>1. Job(w) \in Jobs
      BY <1>4 DEF Crash, TypeOK, Job, RunSteps, BeforeVerdict, AfterVerdict
    <2>2. QED BY <1>4, <2>1 DEF Crash, NoApiChange, ServiceNext
  <1>5. QED BY <1>1, <1>2, <1>3, <1>4 DEF FaultStep

LEMMA StepRefines ==
  TypeOK /\ [Next]_vars => [ApiNext \/ ServiceNext]_apiVars
  <1> SUFFICES ASSUME TypeOK, [Next]_vars PROVE [ApiNext \/ ServiceNext]_apiVars
    OBVIOUS
  <1>1. CASE ApiNext BY <1>1
  <1>2. ASSUME NEW w \in Workers, NEW t \in tasks, Take(w, t) PROVE UNCHANGED apiVars
    BY <1>2 DEF Take, NoApiChange
  <1>3. ASSUME NEW w \in Workers, EngineStep(w) PROVE UNCHANGED apiVars
    BY <1>3 DEF EngineStep, NoApiChange
  <1>4. CASE UNCHANGED vars BY <1>4 DEF vars
  <1>5. QED
    BY <1>1, <1>2, <1>3, <1>4, ConsumerRefines, RunRefines, FaultRefines DEF Next

-----------------------------------------------------------------------------
(* Types: one step per action, under the API's types from the refinement.   *)

LEMMA ConsumerTypes ==
  ASSUME TypeOK, ApiTypeOK', NEW m \in submitted,
         ConsumerStep(m) \/ DispatchFails(m) \/ DispatchTwice(m)
  PROVE  TypeOK'
  <1>1. m \in Messages BY DEF TypeOK, ApiTypeOK
  <1>2. Task(m, 0) \in TaskMessages
    BY <1>1, DroneAssumption DEF Task, Messages, TaskMessages
  <1>3. ASSUME NEW why \in DropReasons, Drop(m.job, why)
        PROVE  dropped' \in [Jobs -> SUBSET DropReasons]
    BY <1>1, <1>3 DEF Drop, TypeOK, Messages
  <1>4. CASE Dispatch(m)
    BY <1>2, <1>4 DEF Dispatch, TypeOK, historyVars
  <1>5. CASE Ignore(m)
    BY <1>3, <1>5 DEF Ignore, TypeOK, DropReasons
  <1>6. CASE DispatchFails(m)
    BY <1>3, <1>6 DEF DispatchFails, TypeOK, DropReasons
  <1>7. CASE DispatchTwice(m)
    BY <1>2, <1>7 DEF DispatchTwice, TypeOK, historyVars
  <1>8. QED BY <1>4, <1>5, <1>6, <1>7 DEF ConsumerStep

LEMMA TakeTypes ==
  ASSUME TypeOK, ApiTypeOK', NEW w \in Workers, NEW t \in tasks, Take(w, t)
  PROVE  TypeOK'
  <1> DEFINE taken == [pc |-> "load", job |-> t.job, copy |-> t.copy,
                       retries |-> t.retries, asset |-> 0, made |-> {}]
  <1>1. t \in TaskMessages BY DEF TypeOK
  <1>2. /\ taken \in Runs /\ taken.job \in Jobs
        /\ taken.copy # 0 /\ taken.pc = "load"
    BY <1>1, JobApiAssumption, DroneAssumption
    DEF TaskMessages, Runs, RunSteps, BeforeVerdict
  <1>3. worker' = [worker EXCEPT ![w] = taken] BY DEF Take
  <1> HIDE DEF taken
  <1>4. QED BY <1>2, <1>3 DEF Take, TypeOK, historyVars

\* The runs of a worker that end, by themselves or by an error.
LEMMA EndTypes ==
  ASSUME TypeOK, ApiTypeOK', NEW w \in Workers, Finish(w), Job(w) \in Jobs,
         tasks' \subseteq TaskMessages,
         \/ UNCHANGED dropped
         \/ \E why \in DropReasons : Drop(Job(w), why),
         \/ UNCHANGED announced
         \/ \E verdict \in Verdicts : Announce(w, verdict),
         UNCHANGED <<uploads, delivered>>, crashes' \in 0 .. MaxCrashes
  PROVE  TypeOK'
  <1>1. dropped' \in [Jobs -> SUBSET DropReasons] BY DEF TypeOK, Drop
  <1>2. announced' \in [Jobs -> SUBSET Verdicts] BY DEF TypeOK, Announce
  <1>3. QED BY <1>1, <1>2, FinishTypes DEF TypeOK

LEMMA RunTypes ==
  ASSUME TypeOK, ApiTypeOK', NEW w \in Workers, RunStep(w)
  PROVE  TypeOK'
  <1>1. worker[w].pc # "idle" /\ Job(w) \in Jobs
    <2>1. worker[w].pc # "idle" => Job(w) \in Jobs BY DEF TypeOK, Job
    <2>2. worker[w].pc # "idle"
      BY DEF RunStep, At, MayRaise, RunSteps, BeforeVerdict, AfterVerdict,
         LoadJob, SkipMissingJob, WriteInitializing, WriteMissionProcessing, Prepare,
         CreateEngineTask, WriteFeatureExtraction, PollRunning, PollDone, Download,
         SkipAsset, UploadAsset, RecordOutput, IngestDone, WriteComplete,
         WriteMissionCompleted, PublishCompleted, RemoveEngineTask, WriteFailed,
         WriteMissionFailed, PublishFailed, RaiseUncaught, RaiseCaught, AcknowledgeRetry
    <2>3. QED BY <2>1, <2>2
  <1> USE DEF historyVars
  <1>2. ASSUME NEW pc \in RunSteps \ {"record"}, GoTo(w, pc),
               UNCHANGED <<tasks, engine, uploads, delivered, dropped, crashes>>,
               UNCHANGED announced \/ \E verdict \in Verdicts : Announce(w, verdict)
        PROVE  TypeOK'
    <2>1. announced' \in [Jobs -> SUBSET Verdicts] BY <1>1, <1>2 DEF TypeOK, Announce
    <2>2. QED BY <1>1, <1>2, <2>1, GoToTypes DEF TypeOK
  <1>3. CASE \/ LoadJob(w) \/ WriteInitializing(w) \/ WriteMissionProcessing(w)
             \/ Prepare(w) \/ WriteFeatureExtraction(w) \/ PollDone(w) \/ IngestDone(w)
             \/ WriteMissionCompleted(w) \/ WriteFailed(w) \/ WriteMissionFailed(w)
    BY <1>2, <1>3
    DEF LoadJob, WriteInitializing, WriteMissionProcessing, Prepare,
        WriteFeatureExtraction, PollDone, IngestDone, WriteMissionCompleted,
        WriteFailed, WriteMissionFailed, RunSteps, BeforeVerdict, AfterVerdict
  <1>4. CASE SkipMissingJob(w)
    BY <1>1, <1>4, EndTypes DEF SkipMissingJob, TypeOK, DropReasons
  <1>5. CASE RemoveEngineTask(w) \/ AcknowledgeRetry(w)
    BY <1>1, <1>5, EndTypes DEF RemoveEngineTask, AcknowledgeRetry, TypeOK
  <1>6. CASE PublishFailed(w)
    BY <1>1, <1>6, EndTypes DEF PublishFailed, TypeOK, Verdicts
  <1>7. CASE RaiseUncaught(w)
    BY <1>1, <1>7, EndTypes DEF RaiseUncaught, InDoubt, TypeOK, Verdicts, DropReasons
  <1>8. CASE RaiseCaught(w)
    BY <1>2, <1>8
    DEF RaiseCaught, InDoubt, Verdicts, RunSteps, BeforeVerdict
  <1>9. CASE PublishCompleted(w)
    BY <1>2, <1>9 DEF PublishCompleted, Verdicts, RunSteps, AfterVerdict
  <1>10. CASE CreateEngineTask(w)
    <2>1. engine' \in [Workers -> EngineTasks]
      BY <1>10 DEF CreateEngineTask, TypeOK, EngineTasks
    <2>2. \E pc \in RunSteps \ {"record"} : GoTo(w, pc)
      BY <1>10 DEF CreateEngineTask, RunSteps, BeforeVerdict
    <2>3. QED BY <1>1, <1>10, <2>1, <2>2, GoToTypes DEF CreateEngineTask, TypeOK
  <1>11. CASE PollRunning(w)
    BY <1>11 DEF PollRunning, TypeOK
  <1>12. CASE WriteComplete(w)
    <2>1. delivered' \in [Jobs -> SUBSET AssetIds]
      BY <1>1, <1>12 DEF WriteComplete, TypeOK, Runs
    <2>2. QED
      BY <1>1, <1>12, <2>1, GoToTypes
      DEF WriteComplete, TypeOK, RunSteps, AfterVerdict
  <1>13. ASSUME NEW run \in Runs, run.job = Job(w), run.copy = worker[w].copy,
                run.pc = "record" => run.asset \in AssetIds,
                worker' = [worker EXCEPT ![w] = run],
                UNCHANGED <<tasks, engine, announced, delivered, dropped, crashes>>,
                uploads' \in [Jobs -> [AssetIds -> Nat]]
         PROVE  TypeOK'
    BY <1>1, <1>13 DEF TypeOK
  <1>14. worker[w] \in Runs BY DEF TypeOK
  <1>15. CASE Download(w)
    <2>1. CASE GoTo(w, "fail")
      BY <1>2, <1>15, <2>1 DEF Download, RunSteps, BeforeVerdict
    <2>2. CASE worker' = [worker EXCEPT ![w].pc = "ingest", ![w].asset = 1]
      <3> DEFINE run == [worker[w] EXCEPT !.pc = "ingest", !.asset = 1]
      <3>1. 1 \in 0 .. Assets + 1 BY JobApiAssumption
      <3>2. run \in Runs /\ run.job = Job(w) /\ run.pc = "ingest"
          /\ run.copy = worker[w].copy
        BY <1>14, <3>1 DEF Runs, RunSteps, BeforeVerdict, Job
      <3>3. worker' = [worker EXCEPT ![w] = run] BY <2>2 DEF TypeOK
      <3> HIDE DEF run
      <3>4. QED BY <1>13, <1>15, <3>2, <3>3 DEF Download, TypeOK
    <2>3. QED BY <1>15, <2>1, <2>2 DEF Download
  <1>16. CASE SkipAsset(w)
    <2> DEFINE run == [worker[w] EXCEPT !.asset = @ + 1]
    <2>1. run \in Runs /\ run.job = Job(w) /\ run.pc = "ingest"
          /\ run.copy = worker[w].copy
      BY <1>14, <1>16, JobApiAssumption DEF SkipAsset, At, AssetIds, Runs, Job
    <2>2. worker' = [worker EXCEPT ![w] = run] BY <1>16 DEF SkipAsset, TypeOK
    <2> HIDE DEF run
    <2>3. QED BY <1>13, <1>16, <2>1, <2>2 DEF SkipAsset, TypeOK
  <1>17. CASE UploadAsset(w)
    <2> DEFINE run == [worker[w] EXCEPT !.pc = "record"]
    <2>1. /\ run \in Runs /\ run.job = Job(w) /\ run.copy = worker[w].copy
          /\ run.asset = worker[w].asset /\ run.asset \in AssetIds
      BY <1>14, <1>17 DEF UploadAsset, Runs, RunSteps, BeforeVerdict, Job
    <2>2. worker' = [worker EXCEPT ![w] = run] BY <1>17 DEF UploadAsset, GoTo, TypeOK
    <2>3. uploads' \in [Jobs -> [AssetIds -> Nat]]
      BY <1>1, <1>17 DEF UploadAsset, TypeOK
    <2> HIDE DEF run
    <2>4. QED BY <1>13, <1>17, <2>1, <2>2, <2>3 DEF UploadAsset, TypeOK
  <1>18. CASE RecordOutput(w)
    <2> DEFINE a == worker[w].asset
               run == [worker[w] EXCEPT !.pc = "ingest", !.asset = a + 1,
                                        !.made = @ \cup {a}]
    <2>1. a \in AssetIds BY <1>18 DEF RecordOutput, At, TypeOK
    <2>2. /\ a + 1 \in 0 .. Assets + 1
          /\ worker[w].made \cup {a} \in SUBSET AssetIds
      BY <1>14, <2>1, JobApiAssumption DEF AssetIds, Runs
    <2>3. run \in Runs /\ run.job = Job(w) /\ run.pc = "ingest"
          /\ run.copy = worker[w].copy
      BY <1>14, <2>2 DEF Runs, RunSteps, BeforeVerdict, Job
    <2>4. worker' = [worker EXCEPT ![w] = run] BY <1>18 DEF RecordOutput, TypeOK
    <2> HIDE DEF run
    <2>5. QED BY <1>13, <1>18, <2>3, <2>4 DEF RecordOutput, TypeOK
  <1>19. QED
    BY <1>3, <1>4, <1>5, <1>6, <1>7, <1>8, <1>9, <1>10, <1>11, <1>12, <1>15, <1>16,
       <1>17, <1>18
    DEF RunStep

LEMMA FaultTypes ==
  ASSUME TypeOK, ApiTypeOK', NEW w \in Workers, FaultStep(w)
  PROVE  TypeOK'
  <1>1. worker[w] \in Runs /\ worker[w].retries \in 0 .. MaxRetries
    BY DEF TypeOK, Runs
  <1>2. worker[w].pc # "idle"
    BY DEF FaultStep, EngineUnavailable, RetryPoints, RaiseBeforeLoad, At, ChildKilled,
           Crash, VisibilityTimeout, RunSteps, BeforeVerdict, AfterVerdict
  <1>3. Job(w) \in Jobs BY <1>2 DEF TypeOK, Job
  <1>4. CASE RaiseBeforeLoad(w)
    BY <1>3, <1>4, EndTypes DEF RaiseBeforeLoad, TypeOK, DropReasons
  <1>5. CASE ChildKilled(w)
    BY <1>3, <1>5, EndTypes DEF ChildKilled, ChildDeaths, TypeOK, DropReasons
  <1>6. ASSUME NEW r \in 0 .. MaxRetries, NEW c \in 1 .. MaxCopies
        PROVE  [job |-> Job(w), copy |-> c, retries |-> r] \in TaskMessages
    BY <1>3 DEF TaskMessages
  <1>7. ASSUME NEW r \in 0 .. MaxRetries, Requeue(w, r)
        PROVE  tasks' \subseteq TaskMessages
    <2>1. worker[w].copy \in 1 .. MaxCopies
      BY <1>1, <1>2, JobApiAssumption DEF TypeOK, Runs
    <2>2. QED BY <1>6, <1>7, <2>1 DEF Requeue, Task, Job, TypeOK
  <1>8. CASE EngineUnavailable(w)
    <2>1. CASE GoTo(w, "retried") /\ RetriesLeft(w)
                /\ Requeue(w, worker[w].retries + 1)
                /\ engine' = [engine EXCEPT ![w] = NoEngineTask]
                /\ UNCHANGED <<uploads, announced, delivered, dropped, crashes>>
      <3>1. worker[w].retries + 1 \in 0 .. MaxRetries
        BY <1>1, <2>1, DroneAssumption DEF RetriesLeft
      <3>2. tasks' \subseteq TaskMessages BY <1>7, <2>1, <3>1
      <3>3. engine' \in [Workers -> EngineTasks]
        BY <2>1 DEF TypeOK, EngineTasks, NoEngineTask
      <3>4. QED BY <1>2, <2>1, <3>2, <3>3, GoToTypes DEF TypeOK, RunSteps
    <2>2. CASE /\ Drop(Job(w), IF RetriesLeft(w) THEN "exception" ELSE "exhausted")
                /\ Finish(w)
                /\ UNCHANGED <<tasks, uploads, announced, delivered, crashes>>
      <3>1. \E why \in DropReasons : Drop(Job(w), why) BY <2>2 DEF DropReasons
      <3>2. QED BY <1>3, <2>2, <3>1, EndTypes DEF TypeOK
    <2>3. QED BY <1>8, <2>1, <2>2 DEF EngineUnavailable
  <1>12. ASSUME copies[Job(w)] < MaxCopies
         PROVE  Task(NewCopy(Job(w)), worker[w].retries) \in TaskMessages
    <2>1. copies[Job(w)] + 1 \in 1 .. MaxCopies
      BY <1>3, <1>12, JobApiAssumption DEF TypeOK, ApiTypeOK
    <2>2. QED BY <1>1, <1>6, <2>1 DEF Task, NewCopy
  <1>10. CASE Crash(w)
    <2>1. crashes' \in 0 .. MaxCrashes
      BY <1>10, DroneAssumption DEF Crash, TypeOK
    <2>2. tasks' \subseteq TaskMessages
      BY <1>1, <1>7, <1>10, <1>12 DEF Crash, CanCopy, TypeOK
    <2>3. QED BY <1>3, <1>10, <2>1, <2>2, EndTypes DEF Crash
  <1>9. CASE VisibilityTimeout(w)
    <2>1. Task(NewCopy(Job(w)), worker[w].retries) \in TaskMessages
      BY <1>9, <1>12 DEF VisibilityTimeout, CanCopy
    <2>2. QED BY <1>9, <2>1 DEF VisibilityTimeout, TypeOK, historyVars
  <1>11. QED BY <1>4, <1>5, <1>8, <1>9, <1>10 DEF FaultStep

LEMMA StepTypes == TypeOK /\ [Next]_vars => TypeOK'
  <1> SUFFICES ASSUME TypeOK, [Next]_vars PROVE TypeOK'
    OBVIOUS
  <1>1. ApiTypeOK' BY StepRefines, ApiTypes DEF TypeOK
  <1>2. CASE UNCHANGED droneVars
    BY <1>1, <1>2 DEF TypeOK, droneVars
  <1>3. ASSUME NEW w \in Workers, EngineStep(w) PROVE TypeOK'
    <2>1. engine' \in [Workers -> EngineTasks]
      BY <1>3, DroneAssumption DEF EngineStep, TypeOK, EngineTasks
    <2>2. QED BY <1>1, <1>3, <2>1 DEF EngineStep, TypeOK, historyVars
  <1>4. QED
    BY <1>1, <1>2, <1>3, ConsumerTypes, TakeTypes, RunTypes, FaultTypes DEF Next, vars

\* Every variable of the drone service keeps its type in every reachable state.
THEOREM DroneTyping == Spec => []TypeOK
  <1>1. Init => TypeOK
    <2>1. ASSUME Init PROVE ApiTypeOK
      BY <2>1, ApiInitially DEF Init, ApiInv
    <2>2. ASSUME Init PROVE TypeOK
      BY <2>1, <2>2, JobApiAssumption, DroneAssumption
      DEF Init, TypeOK, Runs, NoRun, EngineTasks, NoEngineTask, NoOutputs
    <2>3. QED BY <2>2
  <1>2. QED BY <1>1, StepTypes, PTL DEF Spec

\* The drone service is one of the services the job API was specified against:
\* its behaviours, seen through the API's variables, are behaviours of ApiSpec.
THEOREM DroneImplementsApi == Spec => ApiSpec
  <1>1. Init => ApiInit BY DEF Init
  <1>2. QED BY <1>1, DroneTyping, StepRefines, PTL DEF Spec, ApiSpec

\* Hence the foreign keys and the quota bound hold of the drone service too.
THEOREM DroneIntegrity == Spec => []ReferentialIntegrity
  BY DroneImplementsApi, ApiIntegrity

THEOREM DroneQuota == Spec => []QuotaBound
  BY DroneImplementsApi, ApiQuota

-----------------------------------------------------------------------------
(* No silent loss.                                                          *)

\* A job is owed a verdict when its row is active or about to be: once the
\* submission is out, the commit will make it so.
Owed(j) ==
  \/ status[j] \in ActiveStatuses
  \/ \E r \in Requests : request[r].op = "published" /\ request[r].job = j

OwedIsPending == \A j \in Jobs : Owed(j) => Pending(j) \/ dropped[j] # {}

\* A run that got past get_job works on a job that has, or once had, a row.
LoadedJobsExist ==
  \A w \in Workers : worker[w].pc \notin {"idle", "load"} => status[Job(w)] # "UNUSED"

Base == TypeOK /\ RequestsHold
LossInv == LoadedJobsExist /\ OwedIsPending

\* The types and what open requests have established hold throughout.
THEOREM BaseInvariant == Spec => []Base
  <1>1. ApiInv => RequestsHold BY DEF ApiInv
  <1>2. QED BY <1>1, DroneTyping, DroneImplementsApi, ApiInvariant, PTL DEF Base

\* A row that exists never becomes an unused id again.
LEMMA NeverUnused ==
  ASSUME Base, [Next]_vars, NEW j \in Jobs, status[j] # "UNUSED"
  PROVE  status'[j] # "UNUSED"
  <1> USE DEF Base, TypeOK, ApiTypeOK
  <1>1. [ApiNext \/ ServiceNext]_apiVars BY StepRefines
  <1>2. ASSUME NEW r \in Requests, RequestStep(r) PROVE status'[j] # "UNUSED"
    BY <1>2 DEF RequestStep, CreatePublish, CreateAbort, CreateCommit, CreateRollback,
                CancelSave
  <1>3. ASSUME NEW r \in Requests, NEW i \in Jobs, CreateCheck(r, i) \/ CancelRead(r, i)
        PROVE  status'[j] # "UNUSED"
    BY <1>3 DEF CreateCheck, CancelRead
  <1>4. ASSUME NEW i \in Jobs, Remove(i) PROVE status'[j] # "UNUSED"
    BY <1>4 DEF Remove
  <1>5. ASSUME NEW m \in Missions, RemoveMission(m) PROVE status'[j] # "UNUSED"
    BY <1>5 DEF RemoveMission
  <1>6. ASSUME NEW i \in Jobs, NEW s \in RunningStatuses \cup {"COMPLETE", "FAILED"},
               UpdateJobStatus(i, s)
        PROVE  status'[j] # "UNUSED"
    BY <1>6 DEF UpdateJobStatus, RunningStatuses
  <1>7. CASE UNCHANGED status BY <1>7
  <1>8. QED
    BY <1>1, <1>2, <1>3, <1>4, <1>5, <1>6, <1>7
    DEF ApiNext, ServiceNext, OnlyMission, OnlyOutputs, OnlyQueue, apiVars

\* Nothing that is pending stops being so while its carrier stays.
LEMMA PendingKept ==
  ASSUME submitted \subseteq submitted', tasks \subseteq tasks', NEW j \in Jobs,
         \A v \in Workers :
           Job(v) = j /\ worker[v].pc \in BeforeVerdict =>
             worker'[v].job = j /\ worker'[v].pc \in BeforeVerdict,
         Pending(j)
  PROVE  Pending(j)'
  BY DEF Pending, Job

\* A step of a worker's run touches nothing but that worker and its job, and
\* leaves the queues at least as full.
LEMMA RunIsLocal ==
  ASSUME TypeOK, NEW w \in Workers, RunStep(w) \/ FaultStep(w)
  PROVE  /\ worker[w].pc # "idle" /\ Job(w) \in Jobs
         /\ \A v \in Workers \ {w} : worker'[v] = worker[v]
         /\ \/ worker'[w].job = Job(w) /\ worker'[w].copy = worker[w].copy
            \/ worker'[w].pc = "idle"
         /\ tasks \subseteq tasks' /\ UNCHANGED <<submitted, request>>
         /\ \A j \in Jobs \ {Job(w)} : status'[j] = status[j]
         /\ \A j \in Jobs : dropped[j] \subseteq dropped'[j]
  <1>1. worker[w].pc # "idle"
    BY DEF RunStep, FaultStep, At, MayRaise, RunSteps, BeforeVerdict, AfterVerdict,
       LoadJob, SkipMissingJob, WriteInitializing, WriteMissionProcessing, Prepare,
       CreateEngineTask, WriteFeatureExtraction, PollRunning, PollDone, Download,
       SkipAsset, UploadAsset, RecordOutput, IngestDone, WriteComplete,
       WriteMissionCompleted, PublishCompleted, RemoveEngineTask, WriteFailed,
       WriteMissionFailed, PublishFailed, RaiseUncaught, RaiseCaught, AcknowledgeRetry,
       EngineUnavailable, RetryPoints, RaiseBeforeLoad, ChildKilled, Crash,
       VisibilityTimeout
  <1>2. Job(w) \in Jobs BY <1>1 DEF TypeOK, Job
  <1>3. /\ \A v \in Workers \ {w} : worker'[v] = worker[v]
        /\ \/ worker'[w].job = Job(w) /\ worker'[w].copy = worker[w].copy
           \/ worker'[w].pc = "idle"
    <2> DEFINE Local == /\ \A v \in Workers \ {w} : worker'[v] = worker[v]
                        /\ \/ worker'[w].job = Job(w) /\ worker'[w].copy = worker[w].copy
                           \/ worker'[w].pc = "idle"
    <2>1. ASSUME NEW pc, GoTo(w, pc) PROVE Local
      BY <2>1 DEF GoTo, TypeOK, Job, Runs
    <2>2. CASE Finish(w) BY <2>2 DEF Finish, TypeOK, NoRun
    <2>3. CASE UNCHANGED worker BY <2>3 DEF Job
    <2>4. CASE Download(w) BY <2>1, <2>4 DEF Download, TypeOK, Job, Runs
    <2>5. CASE SkipAsset(w) BY <2>5 DEF SkipAsset, TypeOK, Job, Runs
    <2>6. CASE RecordOutput(w) BY <2>6 DEF RecordOutput, TypeOK, Job, Runs
    <2> HIDE DEF Local
    <2>7. CASE RunStep(w)
      <3>1. \/ \E pc \in RunSteps : GoTo(w, pc)
            \/ Finish(w) \/ UNCHANGED worker
            \/ Download(w) \/ SkipAsset(w) \/ RecordOutput(w)
        BY <2>7
        DEF RunStep, LoadJob, SkipMissingJob, WriteInitializing,
            WriteMissionProcessing, Prepare, CreateEngineTask, WriteFeatureExtraction,
            PollRunning, PollDone, UploadAsset, IngestDone, WriteComplete,
            WriteMissionCompleted, PublishCompleted, RemoveEngineTask, WriteFailed,
            WriteMissionFailed, PublishFailed, RaiseUncaught, RaiseCaught, AcknowledgeRetry,
            RunSteps,
            BeforeVerdict, AfterVerdict
      <3>2. QED BY <2>1, <2>2, <2>3, <2>4, <2>5, <2>6, <3>1 DEF Local
    <2>8. CASE FaultStep(w)
      <3>1. Finish(w) \/ (\E pc : GoTo(w, pc)) \/ UNCHANGED worker
        BY <2>8
        DEF FaultStep, EngineUnavailable, RaiseBeforeLoad, ChildKilled, Crash,
            VisibilityTimeout
      <3>2. QED BY <2>1, <2>2, <2>3, <3>1 DEF Local
    <2>9. QED BY <2>7, <2>8
  <1>4. tasks \subseteq tasks' /\ UNCHANGED <<submitted, request>>
    BY DEF RunStep, FaultStep, LoadJob, SkipMissingJob, WriteInitializing,
       WriteMissionProcessing, Prepare, CreateEngineTask, WriteFeatureExtraction,
       PollRunning, PollDone, Download, SkipAsset, UploadAsset, RecordOutput,
       IngestDone, WriteComplete, WriteMissionCompleted, PublishCompleted,
       RemoveEngineTask, WriteFailed, WriteMissionFailed, PublishFailed,
       RaiseUncaught, RaiseCaught, AcknowledgeRetry, EngineUnavailable, RaiseBeforeLoad,
       ChildKilled,
       Crash, VisibilityTimeout, Requeue, WriteStatus, OnlyJob, OnlyMission,
       OnlyOutputs, OnlyQueue, NoApiChange, apiVars
  <1>5. \A j \in Jobs \ {Job(w)} : status'[j] = status[j]
    <2>1. ASSUME NEW s, WriteStatus(w, s), NEW j \in Jobs \ {Job(w)}
          PROVE  status'[j] = status[j]
      BY <2>1 DEF WriteStatus, UpdateJobStatus, TypeOK, ApiTypeOK
    <2>2. UNCHANGED status \/ \E s : WriteStatus(w, s)
      BY DEF RunStep, FaultStep, LoadJob, SkipMissingJob, WriteInitializing,
         WriteMissionProcessing, Prepare, CreateEngineTask, WriteFeatureExtraction,
         PollRunning, PollDone, Download, SkipAsset, UploadAsset, RecordOutput,
         IngestDone, WriteComplete, WriteMissionCompleted, PublishCompleted,
         RemoveEngineTask, WriteFailed, WriteMissionFailed, PublishFailed,
         RaiseUncaught, RaiseCaught, AcknowledgeRetry, EngineUnavailable, RaiseBeforeLoad,
         ChildKilled,
         Crash, VisibilityTimeout, OnlyMission, OnlyOutputs, OnlyQueue, NoApiChange,
         apiVars
    <2>3. QED BY <2>1, <2>2
  <1>6. \A j \in Jobs : dropped[j] \subseteq dropped'[j]
    <2>1. ASSUME NEW why, Drop(Job(w), why), NEW j \in Jobs
          PROVE  dropped[j] \subseteq dropped'[j]
      BY <2>1 DEF Drop, TypeOK
    <2>2. UNCHANGED dropped \/ \E why : Drop(Job(w), why)
      BY DEF RunStep, FaultStep, LoadJob, SkipMissingJob, WriteInitializing,
         WriteMissionProcessing, Prepare, CreateEngineTask, WriteFeatureExtraction,
         PollRunning, PollDone, Download, SkipAsset, UploadAsset, RecordOutput,
         IngestDone, WriteComplete, WriteMissionCompleted, PublishCompleted,
         RemoveEngineTask, WriteFailed, WriteMissionFailed, PublishFailed,
         RaiseUncaught, RaiseCaught, AcknowledgeRetry, EngineUnavailable, RaiseBeforeLoad,
         ChildKilled,
         Crash, VisibilityTimeout, historyVars
    <2>3. QED BY <2>1, <2>2
  <1>7. QED BY <1>1, <1>2, <1>3, <1>4, <1>5, <1>6

LEMMA LoadedStep ==
  Base /\ LoadedJobsExist /\ [Next]_vars => LoadedJobsExist'
  <1> SUFFICES ASSUME Base, LoadedJobsExist, [Next]_vars, NEW v \in Workers,
                      worker'[v].pc \notin {"idle", "load"}
               PROVE  status'[worker'[v].job] # "UNUSED"
    BY DEF LoadedJobsExist, Job
  <1>1. CASE worker'[v] = worker[v]
    BY <1>1, NeverUnused DEF LoadedJobsExist, Job, Base, TypeOK
  <1>2. ASSUME NEW w \in Workers, RunStep(w) \/ FaultStep(w), v = w
        PROVE  status'[worker'[v].job] # "UNUSED"
    <2>1. worker'[w].job = Job(w) /\ Job(w) \in Jobs
      BY <1>2, RunIsLocal DEF Base
    <2>2. CASE worker[w].pc = "load"
      <3>1. CASE LoadJob(w)
        BY <2>1, <3>1, <1>2, NeverUnused DEF LoadJob, RowExists, NoRow
      <3>2. CASE ~LoadJob(w)
        <4>1. UNCHANGED worker \/ Finish(w)
          BY <1>2, <2>2, <3>2
          DEF RunStep, FaultStep, SkipMissingJob, At, WriteInitializing,
              WriteMissionProcessing, Prepare, CreateEngineTask,
              WriteFeatureExtraction, PollRunning, PollDone, Download, SkipAsset,
              UploadAsset, RecordOutput, IngestDone, WriteComplete,
              WriteMissionCompleted, PublishCompleted, RemoveEngineTask, WriteFailed,
              WriteMissionFailed, PublishFailed, RaiseUncaught, RaiseCaught,
              AcknowledgeRetry,
              EngineUnavailable, RetryPoints, RaiseBeforeLoad, ChildKilled, Crash,
              VisibilityTimeout
        <4>2. worker'[v].pc \in {"idle", "load"}
          BY <4>1, <1>2, <2>2 DEF Finish, NoRun, Base, TypeOK
        <4>3. QED BY <4>2
      <3>3. QED BY <3>1, <3>2
    <2>3. CASE worker[w].pc # "load"
      <3>1. status[Job(w)] # "UNUSED"
        BY <1>2, <2>3, RunIsLocal DEF LoadedJobsExist, Base
      <3>2. QED BY <1>2, <2>1, <3>1, NeverUnused
    <2>4. QED BY <2>2, <2>3
  <1>3. ASSUME NEW w \in Workers, NEW t \in tasks, Take(w, t)
        PROVE  worker'[v] = worker[v] \/ worker'[v].pc = "load"
    BY <1>3 DEF Take, Base, TypeOK
  <1>4. CASE UNCHANGED worker BY <1>1, <1>4
  <1>5. ASSUME NEW m \in submitted, ConsumerStep(m) \/ DispatchFails(m) \/ DispatchTwice(m)
        PROVE  UNCHANGED worker
    BY <1>5 DEF ConsumerStep, Dispatch, Ignore, DispatchFails, DispatchTwice
  <1>6. ASSUME NEW w \in Workers, EngineStep(w) PROVE UNCHANGED worker
    BY <1>6 DEF EngineStep
  <1>7. ASSUME NEW w \in Workers, RunStep(w) \/ FaultStep(w), v # w
        PROVE  worker'[v] = worker[v]
    BY <1>7, RunIsLocal DEF Base
  <1>8. QED
    BY <1>1, <1>2, <1>3, <1>4, <1>5, <1>6, <1>7 DEF Next, vars, droneVars

\* A row that exists but is not active is not owed anything: no request can be
\* about to create it.
LEMMA NotOwed ==
  ASSUME Base, NEW j \in Jobs, status[j] # "UNUSED", UNCHANGED request,
         status'[j] \notin ActiveStatuses
  PROVE  ~Owed(j)'
  BY DEF Base, RequestsHold, Creating, Owed

\* A pending job stays pending, and an unpaid debt arises only with something
\* pending, in every step of a run: either the worker stays short of its
\* verdict, or the delivery is queued again, or its end is accounted for, or
\* the job's row no longer claims to be active.
LEMMA RunLoss ==
  ASSUME Base, LossInv, NEW w \in Workers, RunStep(w) \/ FaultStep(w), [Next]_vars
  PROVE  OwedIsPending'
  <1> SUFFICES ASSUME NEW j \in Jobs, Owed(j)' PROVE Pending(j)' \/ dropped'[j] # {}
    BY DEF OwedIsPending
  <1> USE DEF Base, LossInv
  <1>1. CASE j # Job(w)
    <2>1. Owed(j)
      BY <1>1, RunIsLocal DEF Owed
    <2>2. Pending(j) => Pending(j)'
      <3>1. ASSUME NEW v \in Workers, Job(v) = j, worker[v].pc \in BeforeVerdict
            PROVE  worker'[v].job = j /\ worker'[v].pc \in BeforeVerdict
        BY <1>1, <3>1, RunIsLocal DEF Job
      <3>2. QED BY <3>1, RunIsLocal, PendingKept
    <2>3. dropped[j] \subseteq dropped'[j] BY RunIsLocal
    <2>4. QED BY <2>1, <2>2, <2>3 DEF OwedIsPending
  <1>2. CASE j = Job(w)
    <2>1. CASE worker'[w].pc \in BeforeVerdict
      BY <1>2, <2>1, RunIsLocal DEF Pending, Job, BeforeVerdict
    <2>2. CASE worker[w].pc \notin BeforeVerdict /\ Owed(j)
      <3>1. Pending(j) => Pending(j)'
        <4>1. ASSUME NEW v \in Workers, Job(v) = j, worker[v].pc \in BeforeVerdict
              PROVE  worker'[v].job = j /\ worker'[v].pc \in BeforeVerdict
          BY <2>2, <4>1, RunIsLocal DEF Job
        <4>2. QED BY <4>1, RunIsLocal, PendingKept
      <3>2. dropped[j] \subseteq dropped'[j] BY RunIsLocal
      <3>3. QED BY <2>2, <3>1, <3>2 DEF OwedIsPending
    <2>3. CASE worker[w].pc \notin BeforeVerdict /\ ~Owed(j)
      <3>1. UNCHANGED status
        BY <2>3
        DEF RunStep, FaultStep, At, BeforeVerdict, LoadJob, SkipMissingJob,
            WriteInitializing, WriteMissionProcessing, Prepare, CreateEngineTask,
            WriteFeatureExtraction, PollRunning, PollDone, Download, SkipAsset,
            UploadAsset, RecordOutput, IngestDone, WriteComplete,
            WriteMissionCompleted, PublishCompleted, RemoveEngineTask, WriteFailed,
            WriteMissionFailed, PublishFailed, RaiseUncaught, RaiseCaught, AcknowledgeRetry,
            EngineUnavailable, RaiseBeforeLoad, ChildKilled, Crash, VisibilityTimeout,
            OnlyMission, OnlyOutputs, OnlyQueue, NoApiChange, apiVars
      <3>2. QED BY <2>3, <3>1, RunIsLocal DEF Owed
    <2>4. CASE worker[w].pc \in BeforeVerdict /\ worker'[w].pc \notin BeforeVerdict
      <3>1. Job(w) \in Jobs BY RunIsLocal
      <3>2. ASSUME NEW why, Drop(j, why) PROVE dropped'[j] # {}
        BY <1>2, <3>1, <3>2 DEF Drop, TypeOK
      <3>3. ASSUME NEW r, Requeue(w, r) PROVE Pending(j)'
        <4>1. Task(worker[w], r) \in tasks' /\ Task(worker[w], r).job = j
          BY <1>2, <3>3 DEF Requeue, Task, Job
        <4>2. QED BY <4>1 DEF Pending
      <3>4. CASE SkipMissingJob(w)
        <4>1. CASE status[j] = "UNUSED"
          BY <1>2, <3>2, <3>4, <4>1 DEF SkipMissingJob
        <4>2. CASE status[j] # "UNUSED"
          <5>1. status[j] = "GONE" /\ status' = status /\ request' = request
            BY <1>2, <3>4, <4>2
            DEF SkipMissingJob, RowExists, NoRow, NoApiChange, apiVars
          <5>2. status'[j] \notin ActiveStatuses
            BY <5>1 DEF ActiveStatuses, RunningStatuses
          <5>3. QED BY <4>2, <5>1, <5>2, NotOwed
        <4>3. QED BY <4>1, <4>2
      <3>5. ASSUME NEW s \in {"COMPLETE", "FAILED"}, WriteStatus(w, s),
                   status[j] # "UNUSED"
            PROVE  FALSE
        <4>1. status'[j] \notin ActiveStatuses
          BY <1>2, <3>1, <3>5
          DEF WriteStatus, UpdateJobStatus, RowExists, NoRow, TypeOK, ApiTypeOK,
              JobState, ActiveStatuses, RunningStatuses
        <4>2. QED BY <3>5, <4>1, NotOwed, RunIsLocal
      <3>6. CASE RaiseBeforeLoad(w)
        BY <1>2, <3>2, <3>5, <3>6 DEF RaiseBeforeLoad
      <3>11. CASE WriteComplete(w) \/ WriteFailed(w)
        <4>1. status[j] # "UNUSED"
          BY <1>2, <3>11 DEF WriteComplete, WriteFailed, At, LoadedJobsExist
        <4>2. QED BY <3>5, <3>11, <4>1 DEF WriteComplete, WriteFailed
      <3>7. CASE EngineUnavailable(w)
        BY <1>2, <3>2, <3>3, <3>7 DEF EngineUnavailable
      <3>8. CASE RaiseUncaught(w) \/ ChildKilled(w)
        BY <1>2, <2>4, <3>2, <3>8 DEF RaiseUncaught, ChildKilled
      <3>9. CASE Crash(w)
        BY <2>4, <3>3, <3>9 DEF Crash, At, BeforeVerdict
      <3>10. ASSUME NEW pc \in BeforeVerdict, GoTo(w, pc) PROVE FALSE
        BY <2>4, <3>10 DEF GoTo, TypeOK
      <3>12. CASE Download(w) \/ SkipAsset(w) \/ RecordOutput(w)
        <4>1. worker'[w].pc = "ingest" \/ GoTo(w, "fail")
          BY <3>12 DEF Download, SkipAsset, RecordOutput, At, TypeOK, Runs
        <4>2. QED BY <2>4, <3>10, <4>1 DEF BeforeVerdict
      <3>13. CASE UNCHANGED worker BY <2>4, <3>13
      <3>14. CASE RunStep(w)
        <4>1. CASE \/ LoadJob(w) \/ WriteInitializing(w) \/ WriteMissionProcessing(w)
                   \/ Prepare(w) \/ CreateEngineTask(w) \/ WriteFeatureExtraction(w)
                   \/ PollDone(w) \/ UploadAsset(w) \/ IngestDone(w) \/ RaiseCaught(w)
          <5>1. \E pc \in BeforeVerdict : GoTo(w, pc)
            BY <4>1
            DEF LoadJob, WriteInitializing, WriteMissionProcessing, Prepare,
                CreateEngineTask, WriteFeatureExtraction, PollDone, UploadAsset,
                IngestDone, RaiseCaught, BeforeVerdict
          <5>2. QED BY <3>10, <5>1
        <4>2. CASE \/ WriteMissionCompleted(w) \/ PublishCompleted(w)
                   \/ RemoveEngineTask(w) \/ WriteMissionFailed(w) \/ PublishFailed(w)
                   \/ AcknowledgeRetry(w)
          BY <2>4, <4>2
          DEF WriteMissionCompleted, PublishCompleted, RemoveEngineTask,
              WriteMissionFailed, PublishFailed, AcknowledgeRetry, At, BeforeVerdict
        <4>3. CASE PollRunning(w) BY <3>13, <4>3 DEF PollRunning
        <4>4. QED
          BY <3>4, <3>8, <3>11, <3>12, <3>14, <4>1, <4>2, <4>3 DEF RunStep
      <3>15. CASE FaultStep(w)
        BY <3>6, <3>7, <3>8, <3>9, <3>13, <3>15 DEF FaultStep, VisibilityTimeout
      <3>16. QED BY <3>14, <3>15
    <2>5. QED BY <2>1, <2>2, <2>3, <2>4
  <1>3. QED BY <1>1, <1>2

\* The requests: a submission is out, and thus pending, before its row can be
\* committed; no request makes a row active in any other way.
LEMMA ApiLoss ==
  ASSUME Base, LossInv, ApiNext, UNCHANGED droneVars
  PROVE  OwedIsPending'
  <1> SUFFICES ASSUME NEW j \in Jobs, Owed(j)' PROVE Pending(j)' \/ dropped'[j] # {}
    BY DEF OwedIsPending
  <1> USE DEF Base, LossInv, TypeOK, ApiTypeOK
  <1>1. UNCHANGED <<tasks, worker, dropped>> BY DEF droneVars, historyVars
  <1>2. ASSUME submitted \subseteq submitted', Pending(j) PROVE Pending(j)'
    BY <1>1, <1>2, PendingKept DEF Job
  <1>3. ASSUME submitted \subseteq submitted', Owed(j)
        PROVE  Pending(j)' \/ dropped'[j] # {}
    BY <1>1, <1>2, <1>3 DEF OwedIsPending
  <1>4. ASSUME NEW r \in Requests, CreatePublish(r)
        PROVE  Pending(j)' \/ dropped'[j] # {}
    <2>1. CASE request[r].job = j
      <3>1. [job |-> j, copy |-> 1] \in submitted' BY <1>4, <2>1 DEF CreatePublish
      <3>2. QED BY <3>1 DEF Pending
    <2>2. CASE request[r].job # j
      <3>1. Owed(j) BY <1>4, <2>2 DEF CreatePublish, Open, Owed
      <3>2. QED BY <1>3, <1>4, <3>1 DEF CreatePublish
    <2>3. QED BY <2>1, <2>2
  <1>5. ASSUME NEW r \in Requests, CreateAbort(r) \/ CreateRollback(r) \/ CancelSave(r)
        PROVE  submitted' = submitted /\ Owed(j)
    <2>1. /\ submitted' = submitted /\ Close(r)
          /\ status'[j] \in ActiveStatuses => status[j] = status'[j]
      BY <1>5 DEF CreateAbort, CreateRollback, CancelSave, ActiveStatuses, RunningStatuses
    <2>2. QED BY <2>1 DEF Close, NoRequest, Owed
  <1>6. ASSUME NEW r \in Requests, CreateCommit(r) PROVE submitted' = submitted /\ Owed(j)
    BY <1>6 DEF CreateCommit, Close, NoRequest, Owed
  <1>7. ASSUME NEW r \in Requests, NEW i \in Jobs, CreateCheck(r, i) \/ CancelRead(r, i)
        PROVE  submitted' = submitted /\ Owed(j)
    <2>1. /\ UNCHANGED <<submitted, status>>
          /\ \E op \in {"counted", "cancelling"} : Open(r, op, i)
      BY <1>7 DEF CreateCheck, CancelRead
    <2>2. QED BY <2>1 DEF Open, Owed
  <1>8. ASSUME NEW i \in Jobs, Remove(i) PROVE submitted' = submitted /\ Owed(j)
    BY <1>8 DEF Remove, Owed, ActiveStatuses, RunningStatuses
  <1>9. ASSUME NEW m \in Missions, RemoveMission(m) PROVE submitted' = submitted /\ Owed(j)
    BY <1>9 DEF RemoveMission, Owed, ActiveStatuses, RunningStatuses
  <1>10. QED
    BY <1>3, <1>4, <1>5, <1>6, <1>7, <1>8, <1>9 DEF ApiNext, RequestStep

\* The queues: a message leaves one only for the next carrier or with a reason.
LEMMA QueueLoss ==
  ASSUME Base, LossInv,
         \/ \E m \in submitted : ConsumerStep(m) \/ DispatchFails(m) \/ DispatchTwice(m)
         \/ \E w \in Workers, t \in tasks : Take(w, t)
         \/ \E w \in Workers : EngineStep(w)
         \/ UNCHANGED vars
  PROVE  OwedIsPending'
  <1> SUFFICES ASSUME NEW j \in Jobs, Owed(j) PROVE Pending(j)' \/ dropped'[j] # {}
    <2>1. UNCHANGED <<status, request>>
      BY DEF ConsumerStep, Dispatch, Ignore, DispatchFails, DispatchTwice, Take,
             EngineStep, OnlyQueue, NoApiChange, vars, apiVars
    <2>2. QED BY <2>1 DEF OwedIsPending, Owed
  <1> USE DEF Base, LossInv, TypeOK, ApiTypeOK
  <1>1. Pending(j) \/ dropped[j] # {} BY DEF OwedIsPending
  <1>2. ASSUME NEW m \in submitted, Dispatch(m) \/ DispatchTwice(m)
        PROVE  Pending(j)' \/ dropped'[j] # {}
    <2>1. Task(m, 0) \in tasks' /\ Task(m, 0).job = m.job
      BY <1>2 DEF Dispatch, DispatchTwice, Task
    <2>2. CASE m.job = j BY <2>1, <2>2 DEF Pending
    <2>3. CASE m.job # j
      BY <1>1, <1>2, <2>3
      DEF Dispatch, DispatchTwice, Consume, Redeliver, Pending, Job, historyVars
    <2>4. QED BY <2>2, <2>3
  <1>3. ASSUME NEW m \in submitted, Ignore(m) \/ DispatchFails(m)
        PROVE  Pending(j)' \/ dropped'[j] # {}
    <2>1. m.job \in Jobs BY DEF Messages
    <2> DEFINE i == m.job
    <2>2. PICK why : dropped' = [dropped EXCEPT ![i] = @ \cup {why}]
      BY <1>3 DEF Ignore, DispatchFails, Drop
    <2>3. submitted' = submitted \ {m} /\ UNCHANGED <<tasks, worker>>
      BY <1>3 DEF Ignore, DispatchFails, Consume
    <2>4. CASE i = j BY <2>2, <2>4
    <2>5. CASE i # j
      <3>1. dropped'[j] = dropped[j] BY <2>2, <2>5
      <3>2. Pending(j) => Pending(j)' BY <2>3, <2>5 DEF Pending, Job
      <3>3. QED BY <1>1, <3>1, <3>2
    <2>6. QED BY <2>4, <2>5
  <1>4. ASSUME NEW w \in Workers, NEW t \in tasks, Take(w, t)
        PROVE  Pending(j)' \/ dropped'[j] # {}
    <2>1. worker'[w].job = t.job /\ worker'[w].pc \in BeforeVerdict
      BY <1>4 DEF Take, BeforeVerdict
    <2>2. CASE t.job = j BY <2>1, <2>2 DEF Pending, Job
    <2>3. CASE t.job # j
      BY <1>1, <1>4, <2>3
      DEF Take, At, NoApiChange, apiVars, Pending, Job, historyVars, BeforeVerdict
    <2>4. QED BY <2>2, <2>3
  <1>5. ASSUME UNCHANGED <<submitted, tasks, worker, dropped>>
        PROVE  Pending(j)' \/ dropped'[j] # {}
    BY <1>1, <1>5, PendingKept DEF Job
  <1>6. QED
    BY <1>2, <1>3, <1>4, <1>5
    DEF ConsumerStep, EngineStep, NoApiChange, vars, apiVars, droneVars, historyVars

\* A job that the table shows as active still has a delivery under way, or one
\* of its deliveries ended in a way that is accounted for.
THEOREM DroneNoSilentLoss == Spec => []NoSilentLoss
  <1>1. Init => LossInv
    BY DEF Init, ApiInit, LossInv, LoadedJobsExist, OwedIsPending, Owed, NoRun,
           NoRequest, ActiveStatuses, RunningStatuses
  <1>2. Base /\ LossInv /\ [Next]_vars => LossInv'
    BY LoadedStep, RunLoss, ApiLoss, QueueLoss DEF LossInv, Next
  <1>3. LossInv => NoSilentLoss
    BY DEF LossInv, OwedIsPending, Owed, NoSilentLoss
  <1>4. QED BY <1>1, <1>2, <1>3, BaseInvariant, PTL DEF Spec

-----------------------------------------------------------------------------
(* One runner per delivery.                                                 *)

\* The slots that hold a delivery, and those that execute it.
Busy == {w \in Workers : worker[w].pc # "idle"}
Running == {w \in Workers : Executing(w)}

SameDelivery(d, e) == d.job = e.job /\ d.copy = e.copy

\* A delivery is in one place: in RabbitMQ, in the Celery queue as one task, or
\* with one worker that executes it; a retry takes over the number of the
\* delivery it stands for.
UniqueDeliveries ==
  /\ \A m \in submitted, t \in tasks : ~SameDelivery(m, t)
  /\ \A m \in submitted, w \in Running : ~SameDelivery(m, worker[w])
  /\ \A t, u \in tasks : SameDelivery(t, u) => t = u
  /\ \A t \in tasks, w \in Running : ~SameDelivery(t, worker[w])
  /\ \A v, w \in Running : SameDelivery(worker[v], worker[w]) => v = w

\* Copy numbers are handed out in order, and none before the publish.
CopiesCounted ==
  /\ \A m \in submitted : m.copy <= copies[m.job]
  /\ \A t \in tasks : t.copy <= copies[t.job]
  /\ \A w \in Busy : worker[w].copy <= copies[Job(w)]

UnpublishedUncounted ==
  \A j \in Jobs :
    status[j] = "UNUSED"
      /\ (\A r \in Requests : request[r].op = "published" => request[r].job # j)
    => copies[j] = 0

DeliveryInv == UniqueDeliveries /\ CopiesCounted /\ UnpublishedUncounted

\* What the invariant is stated over, as facts about types.
LEMMA DeliveryTypes ==
  ASSUME TypeOK
  PROVE  /\ \A m \in submitted : m.job \in Jobs /\ m.copy \in Nat \ {0}
         /\ \A t \in tasks : t.job \in Jobs /\ t.copy \in Nat \ {0}
         /\ \A w \in Busy : Job(w) \in Jobs /\ worker[w].copy \in Nat \ {0}
         /\ Running \subseteq Busy
         /\ \A j \in Jobs : copies[j] \in Nat
  <1> USE JobApiAssumption, DroneAssumption DEF TypeOK, ApiTypeOK
  <1>1. \A m \in submitted : m.job \in Jobs /\ m.copy \in Nat \ {0} BY DEF Messages
  <1>2. \A t \in tasks : t.job \in Jobs /\ t.copy \in Nat \ {0} BY DEF TaskMessages
  <1>3. \A w \in Busy : Job(w) \in Jobs /\ worker[w].copy \in Nat \ {0}
    BY DEF Busy, Job, Runs
  <1>4. \A j \in Jobs : copies[j] \in Nat OBVIOUS
  <1>5. Running \subseteq Busy BY DEF Running, Busy, Executing
  <1>6. QED BY <1>1, <1>2, <1>3, <1>4, <1>5

\* A message is its job and its copy number.
LEMMA OneMessagePerDelivery ==
  ASSUME TypeOK, NEW m \in submitted
  PROVE  \A d \in submitted \ {m} : ~SameDelivery(d, m)
  <1>1. submitted \subseteq Messages BY DEF TypeOK, ApiTypeOK
  <1>2. \A d, e \in Messages : d.job = e.job /\ d.copy = e.copy => d = e
    BY DEF Messages
  <1>3. QED BY <1>1, <1>2 DEF SameDelivery

\* Deliveries that only disappear leave the others as unique as they were.
LEMMA DeliveriesShrink ==
  ASSUME UniqueDeliveries, CopiesCounted, submitted' \subseteq submitted,
         tasks' \subseteq tasks, UNCHANGED copies,
         Running' \subseteq Running, Busy' \subseteq Busy,
         \A w \in Busy' : worker'[w].job = Job(w) /\ worker'[w].copy = worker[w].copy
  PROVE  UniqueDeliveries' /\ CopiesCounted'
  <1>1. CopiesCounted' BY DEF CopiesCounted, Job
  <1>2. \A w \in Running' : w \in Busy' BY DEF Running, Busy, Executing
  <1>3. UniqueDeliveries'
    BY <1>2 DEF UniqueDeliveries, SameDelivery, Job
  <1>4. QED BY <1>1, <1>3

\* A message becomes a task, and a redelivered one comes back under a new number.
LEMMA ConsumerDeliveries ==
  ASSUME Base, DeliveryInv, NEW m \in submitted,
         ConsumerStep(m) \/ DispatchFails(m) \/ DispatchTwice(m)
  PROVE  UniqueDeliveries' /\ CopiesCounted'
  <1> USE DEF Base, DeliveryInv
  <1>1. UNCHANGED worker /\ Running' = Running /\ Busy' = Busy
    BY DEF ConsumerStep, Dispatch, Ignore, DispatchFails, DispatchTwice, Running, Busy,
           Executing
  <1>2. Task(m, 0).job = m.job /\ Task(m, 0).copy = m.copy BY DEF Task
  <1>3. CASE Ignore(m) \/ DispatchFails(m)
    <2>1. submitted' \subseteq submitted /\ UNCHANGED <<tasks, copies>>
      BY <1>3 DEF Ignore, DispatchFails, Consume
    <2>2. QED BY <1>1, <2>1, DeliveriesShrink DEF Job
  <1>4. CASE Dispatch(m)
    <2>1. /\ submitted' = submitted \ {m} /\ tasks' = tasks \cup {Task(m, 0)}
          /\ UNCHANGED copies
      BY <1>4 DEF Dispatch, Consume
    <2>2. CopiesCounted' BY <1>1, <1>2, <2>1 DEF CopiesCounted, Job
    <2>3. \A d \in submitted \ {m} : ~SameDelivery(d, m)
      BY OneMessagePerDelivery
    <2>4. UniqueDeliveries'
      BY <1>1, <1>2, <2>1, <2>3 DEF UniqueDeliveries, SameDelivery
    <2>5. QED BY <2>2, <2>4
  <1>5. CASE DispatchTwice(m)
    <2> DEFINE n == NewCopy(m.job)
               t == Task(m, 0)
    <2>1. /\ n.job = m.job /\ n.copy = copies[m.job] + 1
          /\ submitted' = (submitted \ {m}) \cup {n}
          /\ tasks' = tasks \cup {t}
          /\ copies' = [copies EXCEPT ![m.job] = @ + 1]
      BY <1>5 DEF DispatchTwice, Redeliver, CountCopy, NewCopy
    <2>2. t.job = m.job /\ t.copy = m.copy BY <1>2
    <2> HIDE DEF n, t
    <2>3. CopiesCounted'
      BY <1>1, <2>1, <2>2, DeliveryTypes DEF CopiesCounted, Job, TypeOK, ApiTypeOK
    <2>4. \A d \in submitted \ {m} : ~SameDelivery(d, m)
      BY OneMessagePerDelivery
    <2>5. UniqueDeliveries'
      BY <1>1, <2>1, <2>2, <2>4, DeliveryTypes
      DEF UniqueDeliveries, CopiesCounted, SameDelivery, Job
    <2>6. QED BY <2>3, <2>5
  <1>6. QED BY <1>3, <1>4, <1>5 DEF ConsumerStep

\* A free worker takes over a task.
LEMMA TakeDeliveries ==
  ASSUME Base, DeliveryInv, NEW w \in Workers, NEW t \in tasks, Take(w, t)
  PROVE  UniqueDeliveries' /\ CopiesCounted'
  <1> USE DEF Base, DeliveryInv
  <1>1. /\ UNCHANGED <<submitted, copies>> /\ tasks' = tasks \ {t}
    BY DEF Take, NoApiChange, apiVars
  <1>2. /\ worker'[w].job = t.job /\ worker'[w].copy = t.copy
        /\ \A v \in Workers \ {w} : worker'[v] = worker[v]
        /\ Running' = Running \cup {w} /\ w \notin Running
        /\ Busy' = Busy \cup {w}
    BY DEF Take, At, TypeOK, Running, Busy, Executing
  <1>3. CopiesCounted' BY <1>1, <1>2 DEF CopiesCounted, Job, Busy
  <1>4. UniqueDeliveries' BY <1>1, <1>2 DEF UniqueDeliveries, SameDelivery, Running
  <1>5. QED BY <1>3, <1>4

\* A run that has published its retry does not go on.
LEMMA RetriedIsOver ==
  ASSUME TypeOK, NEW w \in Workers, worker[w].pc = "retried",
         RunStep(w) \/ FaultStep(w)
  PROVE  /\ worker'[w].pc \in {"idle", "retried"}
         /\ UNCHANGED <<status, outputs, uploads, announced, delivered, dropped>>
  <1>1. AcknowledgeRetry(w) \/ ChildKilled(w) \/ Crash(w) \/ VisibilityTimeout(w)
    BY DEF RunStep, FaultStep, At, MayRaise, LoadJob, SkipMissingJob, WriteInitializing,
       WriteMissionProcessing, Prepare, CreateEngineTask, WriteFeatureExtraction,
       PollRunning, PollDone, Download, SkipAsset, UploadAsset, RecordOutput, IngestDone,
       WriteComplete, WriteMissionCompleted, PublishCompleted, RemoveEngineTask,
       WriteFailed, WriteMissionFailed, PublishFailed, RaiseUncaught, RaiseCaught,
       EngineUnavailable, RetryPoints, RaiseBeforeLoad
  <1>2. worker'[w].pc \in {"idle", "retried"}
    BY <1>1 DEF AcknowledgeRetry, ChildKilled, Crash, VisibilityTimeout, Finish, NoRun,
                TypeOK
  <1>3. UNCHANGED <<status, outputs, uploads, announced, delivered, dropped>>
    BY <1>1 DEF AcknowledgeRetry, ChildKilled, Crash, VisibilityTimeout, BeforeVerdict,
                NoApiChange, OnlyQueue, apiVars, historyVars
  <1>4. QED BY <1>2, <1>3

\* Any other run that takes a step is executing its delivery.
LEMMA StepperRuns ==
  ASSUME TypeOK, NEW w \in Workers, RunStep(w) \/ FaultStep(w),
         worker[w].pc # "retried"
  PROVE  w \in Running
  BY RunIsLocal DEF Running, Executing

\* A run ends, goes on, is queued again, or has its delivery handed out anew.
LEMMA RunDeliveries ==
  ASSUME Base, DeliveryInv, NEW w \in Workers, RunStep(w) \/ FaultStep(w)
  PROVE  UniqueDeliveries' /\ CopiesCounted'
  <1> USE DEF Base, DeliveryInv
  <1>1. /\ w \in Busy /\ UNCHANGED submitted
        /\ \A v \in Workers \ {w} : worker'[v] = worker[v]
        /\ \/ worker'[w].job = Job(w) /\ worker'[w].copy = worker[w].copy
           \/ worker'[w].pc = "idle"
    BY RunIsLocal DEF Busy
  <1>2. Busy' \subseteq Busy BY <1>1 DEF Busy
  <1>3. Running' \subseteq Running
    <2>1. w \in Running' => w \in Running BY <1>1, RetriedIsOver DEF Running, Executing, Busy
    <2>2. QED BY <1>1, <2>1 DEF Running, Executing
  <1>4. CASE UNCHANGED <<tasks, copies>>
    BY <1>1, <1>2, <1>3, <1>4, DeliveriesShrink DEF Busy, Job
  <1>5. ASSUME NEW r, Requeue(w, r), w \notin Running', w \in Running, UNCHANGED copies
        PROVE  UniqueDeliveries' /\ CopiesCounted'
    <2> DEFINE t == Task(worker[w], r)
    <2>1. /\ t.job = Job(w) /\ t.copy = worker[w].copy
          /\ tasks' = tasks \cup {t}
      BY <1>5 DEF Requeue, Task, Job
    <2>2. Running' \subseteq Running \ {w} BY <1>3, <1>5
    <2> HIDE DEF t
    <2>3. CopiesCounted'
      <3>1. t.copy <= copies[t.job] BY <1>1, <2>1 DEF CopiesCounted
      <3>2. QED BY <1>1, <1>2, <1>5, <2>1, <3>1 DEF CopiesCounted, Job, Busy
    <2>4. \A v \in Running' : v \in Running \ {w} /\ worker'[v] = worker[v]
      BY <1>1, <2>2 DEF Running
    <2>5. UniqueDeliveries'
      BY <1>1, <1>5, <2>1, <2>4 DEF UniqueDeliveries, SameDelivery, Job
    <2>6. QED BY <2>3, <2>5
  <1>6. ASSUME CountCopy(Job(w)),
               tasks' = tasks \cup {Task(NewCopy(Job(w)), worker[w].retries)}
        PROVE  UniqueDeliveries' /\ CopiesCounted'
    <2> DEFINE t == Task(NewCopy(Job(w)), worker[w].retries)
    <2>1. /\ t.job = Job(w) /\ t.copy = copies[Job(w)] + 1
          /\ tasks' = tasks \cup {t}
          /\ copies' = [copies EXCEPT ![Job(w)] = @ + 1]
      BY <1>6 DEF CountCopy, NewCopy, Task
    <2> HIDE DEF t
    <2>2. \A v \in Busy' : v \in Busy /\ worker'[v].job = Job(v)
                          /\ worker'[v].copy = worker[v].copy
      BY <1>1, <1>2 DEF Busy, Job
    <2>3. CopiesCounted'
      <3>1. \A j \in Jobs : copies'[j] \in Nat /\ copies[j] <= copies'[j]
        BY <2>1, DeliveryTypes DEF TypeOK, ApiTypeOK
      <3>2. t.copy <= copies'[t.job] BY <1>1, <2>1, DeliveryTypes DEF TypeOK, ApiTypeOK
      <3>3. \A d \in submitted' : d.copy <= copies'[d.job]
        BY <1>1, <3>1, DeliveryTypes DEF CopiesCounted
      <3>4. \A d \in tasks' : d.copy <= copies'[d.job]
        BY <2>1, <3>1, <3>2, DeliveryTypes DEF CopiesCounted
      <3>5. \A v \in Busy' : worker'[v].copy <= copies'[worker'[v].job]
        BY <2>2, <3>1, DeliveryTypes DEF CopiesCounted
      <3>6. QED BY <3>3, <3>4, <3>5 DEF CopiesCounted, Job
    <2>4. \A v \in Running' : v \in Running /\ v \in Busy'
      BY <1>3 DEF Running, Busy, Executing
    <2>5. UniqueDeliveries'
      BY <1>1, <2>1, <2>2, <2>4, DeliveryTypes
      DEF UniqueDeliveries, CopiesCounted, SameDelivery, Job
    <2>6. QED BY <2>3, <2>5
  <1>7. CASE VisibilityTimeout(w)
    BY <1>6, <1>7 DEF VisibilityTimeout
  <1>8. CASE RunStep(w)
    <2>1. UNCHANGED <<tasks, copies>>
      BY <1>8
      DEF RunStep, LoadJob, SkipMissingJob, WriteInitializing, WriteMissionProcessing,
          Prepare, CreateEngineTask, WriteFeatureExtraction, PollRunning, PollDone,
          Download, SkipAsset, UploadAsset, RecordOutput, IngestDone, WriteComplete,
          WriteMissionCompleted, PublishCompleted, RemoveEngineTask, WriteFailed,
          WriteMissionFailed, PublishFailed, RaiseUncaught, RaiseCaught,
          AcknowledgeRetry, WriteStatus, OnlyJob, OnlyMission, OnlyOutputs,
          NoApiChange, apiVars, historyVars
    <2>2. QED BY <1>4, <2>1
  <1>9. CASE RaiseBeforeLoad(w) \/ ChildKilled(w)
    BY <1>4, <1>9 DEF RaiseBeforeLoad, ChildKilled, WriteStatus, OnlyJob, NoApiChange,
                      apiVars
  <1>10. CASE EngineUnavailable(w)
    <2>1. w \in Running BY <1>10 DEF EngineUnavailable, RetryPoints, Running, Executing
    <2>2. UNCHANGED copies BY <1>10 DEF EngineUnavailable, NoApiChange, apiVars
    <2>3. ASSUME GoTo(w, "retried") \/ Finish(w) PROVE w \notin Running'
      <3>1. worker'[w].pc \in {"idle", "retried"}
        BY <2>3 DEF GoTo, Finish, NoRun, TypeOK, Runs
      <3>2. QED BY <3>1 DEF Running, Executing
    <2>4. QED BY <1>4, <1>5, <1>10, <2>1, <2>2, <2>3 DEF EngineUnavailable
  <1>11. CASE Crash(w)
    <2>1. CASE At(w, "retried")
      BY <1>6, <1>11, <2>1 DEF Crash
    <2>2. CASE ~At(w, "retried")
      <3>1. w \in Running BY <1>1, <2>2 DEF At, Running, Busy, Executing
      <3>2. w \notin Running'
        BY <1>11 DEF Crash, Finish, NoRun, Running, Executing, TypeOK
      <3>3. QED BY <1>5, <1>11, <2>2, <3>1, <3>2 DEF Crash, NoApiChange, apiVars
    <2>3. QED BY <2>1, <2>2
  <1>12. QED BY <1>7, <1>8, <1>9, <1>10, <1>11 DEF FaultStep

\* The API: a publish is the first delivery of its job.
LEMMA ApiDeliveries ==
  ASSUME Base, DeliveryInv, ApiNext, UNCHANGED droneVars
  PROVE  UniqueDeliveries' /\ CopiesCounted'
  <1> USE DEF Base, DeliveryInv
  <1>1. UNCHANGED <<tasks, worker>> /\ Running' = Running /\ Busy' = Busy
    BY DEF droneVars, Running, Busy, Executing
  <1>2. ASSUME NEW r \in Requests, CreatePublish(r)
        PROVE  UniqueDeliveries' /\ CopiesCounted'
    <2> DEFINE j == request[r].job
               n == [job |-> j, copy |-> 1]
    <2>1. /\ j \in Jobs /\ submitted' = submitted \cup {n}
          /\ copies' = [copies EXCEPT ![j] = 1]
      BY <1>2 DEF CreatePublish, TypeOK, ApiTypeOK
    <2>2. copies[j] = 0
      BY <1>2, <2>1
      DEF CreatePublish, RequestsHold, Creating, UnpublishedUncounted
    <2>3. n.job = j /\ n.copy = 1 OBVIOUS
    <2> HIDE DEF j, n
    <2>4. /\ \A m \in submitted : m.job # j
          /\ \A t \in tasks : t.job # j
          /\ \A w \in Busy : Job(w) # j
          /\ Running \subseteq Busy
      BY <2>1, <2>2, DeliveryTypes DEF CopiesCounted
    <2>5. CopiesCounted'
      BY <1>1, <2>1, <2>3, <2>4, DeliveryTypes DEF CopiesCounted, Job, TypeOK, ApiTypeOK
    <2>6. UniqueDeliveries'
      BY <1>1, <2>1, <2>3, <2>4 DEF UniqueDeliveries, SameDelivery, Job
    <2>7. QED BY <2>5, <2>6
  <1>3. CASE UNCHANGED <<submitted, copies>>
    BY <1>1, <1>3, DeliveriesShrink DEF Job
  <1>4. QED
    BY <1>2, <1>3
    DEF ApiNext, RequestStep, CreateAbort, CreateCommit, CreateRollback, CancelSave,
        CreateCheck, CancelRead, Remove, RemoveMission

\* Only a publish gives a job without a row its first copy number.
LEMMA UncountedStep ==
  Base /\ DeliveryInv /\ [Next]_vars => UnpublishedUncounted'
  <1> SUFFICES ASSUME Base, DeliveryInv, [Next]_vars, NEW j \in Jobs,
                      status'[j] = "UNUSED",
                      \A r \in Requests :
                        request'[r].op = "published" => request'[r].job # j
               PROVE  copies'[j] = 0
    BY DEF UnpublishedUncounted
  <1> USE DEF Base, DeliveryInv
  <1>1. status[j] = "UNUSED" BY NeverUnused
  <1>2. CASE UNCHANGED request
    <2>1. copies[j] = 0 BY <1>1, <1>2 DEF UnpublishedUncounted
    <2>2. ASSUME NEW m \in submitted, DispatchTwice(m) PROVE copies'[j] = 0
      <3>1. m.job # j BY <2>1, DeliveryTypes DEF CopiesCounted
      <3>2. QED BY <2>1, <2>2, <3>1 DEF DispatchTwice, Redeliver, CountCopy, TypeOK, ApiTypeOK
    <2>3. ASSUME NEW w \in Workers, VisibilityTimeout(w) \/ Crash(w) PROVE copies'[j] = 0
      <3>1. w \in Busy
        BY <2>3 DEF VisibilityTimeout, Crash, Busy, RunSteps, BeforeVerdict, AfterVerdict
      <3>2. Job(w) # j BY <2>1, <3>1, DeliveryTypes DEF CopiesCounted
      <3>3. QED
        BY <2>1, <2>3, <3>2
        DEF VisibilityTimeout, Crash, CountCopy, NoApiChange, apiVars, TypeOK, ApiTypeOK
    <2>4. CASE UNCHANGED copies BY <2>1, <2>4
    <2>5. ASSUME NEW w \in Workers, RunStep(w) PROVE UNCHANGED copies
      BY <2>5
      DEF RunStep, LoadJob, SkipMissingJob, WriteInitializing, WriteMissionProcessing,
          Prepare, CreateEngineTask, WriteFeatureExtraction, PollRunning, PollDone,
          Download, SkipAsset, UploadAsset, RecordOutput, IngestDone, WriteComplete,
          WriteMissionCompleted, PublishCompleted, RemoveEngineTask, WriteFailed,
          WriteMissionFailed, PublishFailed, RaiseUncaught, RaiseCaught, AcknowledgeRetry,
          WriteStatus,
          OnlyJob, OnlyMission, OnlyOutputs, NoApiChange, apiVars
    <2>6. CASE ApiNext
      BY <1>2, <2>4, <2>6
      DEF ApiNext, RequestStep, CreatePublish, CreateAbort, CreateCommit, CreateRollback,
          CancelSave, CreateCheck, CancelRead, Remove, RemoveMission, Open, TypeOK, ApiTypeOK
    <2>7. QED
      BY <2>2, <2>3, <2>4, <2>5, <2>6
      DEF Next, ConsumerStep, Dispatch, Ignore, DispatchFails, Take, EngineStep,
          FaultStep, EngineUnavailable, RaiseBeforeLoad, ChildKilled, WriteStatus,
          OnlyJob, NoApiChange, vars, apiVars
  <1>3. CASE ApiNext /\ ~UNCHANGED request
    <2>1. ASSUME UNCHANGED copies,
                 \A r \in Requests : request[r].op = "published" => request[r].job # j
          PROVE  copies'[j] = 0
      BY <1>1, <2>1 DEF UnpublishedUncounted
    <2>2. ASSUME NEW r \in Requests, CreatePublish(r) PROVE copies'[j] = 0
      <3>1. /\ request[r].job # j
            /\ \A q \in Requests : request[q].op = "published" => request[q].job # j
        BY <2>2 DEF CreatePublish, Open, TypeOK, ApiTypeOK
      <3>2. copies[j] = 0 BY <1>1, <3>1 DEF UnpublishedUncounted
      <3>3. QED BY <2>2, <3>1, <3>2 DEF CreatePublish, TypeOK, ApiTypeOK
    <2>3. ASSUME NEW r \in Requests, CreateAbort(r) \/ CancelSave(r) PROVE copies'[j] = 0
      <3>1. request[r].op # "published" /\ Close(r) /\ UNCHANGED copies
        BY <2>3 DEF CreateAbort, CancelSave
      <3>2. QED BY <2>1, <3>1 DEF Close, TypeOK, ApiTypeOK
    <2>4. ASSUME NEW r \in Requests, CreateCommit(r) \/ CreateRollback(r)
          PROVE  copies'[j] = 0
      <3>1. /\ Close(r) /\ UNCHANGED copies /\ request[r].job \in Jobs
            /\ status'[request[r].job] # "UNUSED"
        BY <2>4 DEF CreateCommit, CreateRollback, TypeOK, ApiTypeOK
      <3>2. QED BY <2>1, <3>1 DEF Close, TypeOK, ApiTypeOK
    <2>5. ASSUME NEW r \in Requests, NEW i \in Jobs, CreateCheck(r, i) \/ CancelRead(r, i)
          PROVE  copies'[j] = 0
      <3>1. /\ request[r].op = "idle" /\ UNCHANGED copies
            /\ \E op \in RequestOps : Open(r, op, i)
        BY <2>5 DEF CreateCheck, CancelRead, NoRequest, RequestOps
      <3>2. QED BY <2>1, <3>1 DEF Open, TypeOK, ApiTypeOK
    <2>6. QED
      BY <1>3, <2>2, <2>3, <2>4, <2>5 DEF ApiNext, RequestStep, Remove, RemoveMission
  <1>4. UNCHANGED request \/ ApiNext
    BY RunIsLocal
    DEF Next, ConsumerStep, Dispatch, Ignore, DispatchFails, DispatchTwice, Take,
        EngineStep, OnlyQueue, NoApiChange, vars, apiVars
  <1>5. QED BY <1>2, <1>3, <1>4

\* Every delivery is in one place, under a number that was handed out.
THEOREM DeliveryInvariant == Spec => []DeliveryInv
  <1>1. Init => DeliveryInv
    BY DEF Init, ApiInit, DeliveryInv, UniqueDeliveries, CopiesCounted,
           UnpublishedUncounted, Running, Busy, Executing, NoRun
  <1>2. Base /\ DeliveryInv /\ [Next]_vars => DeliveryInv'
    <2> SUFFICES ASSUME Base, DeliveryInv, [Next]_vars
                 PROVE  UniqueDeliveries' /\ CopiesCounted'
      BY UncountedStep DEF DeliveryInv
    <2>1. CASE UNCHANGED <<submitted, tasks, worker, copies>>
      BY <2>1, DeliveriesShrink DEF DeliveryInv, Running, Busy, Executing, Job
    <2>2. ASSUME NEW w \in Workers, EngineStep(w)
          PROVE  UNCHANGED <<submitted, tasks, worker, copies>>
      BY <2>2 DEF EngineStep, NoApiChange, apiVars
    <2>3. CASE UNCHANGED vars BY <2>1, <2>3 DEF vars, apiVars, droneVars
    <2>4. QED
      BY <2>1, <2>2, <2>3, ApiDeliveries, ConsumerDeliveries, TakeDeliveries,
         RunDeliveries
      DEF Next
  <1>3. QED BY <1>1, <1>2, BaseInvariant, PTL DEF Spec

\* Two workers execute the same job only if a broker delivered its submission
\* more than once, to a second worker while the first went on or beside a retry
\* whose worker died: cancellations, deletions, retries and deaths by
\* themselves never do that.
THEOREM DroneSingleRunner == Spec => []SingleRunner
  <1>1. Base /\ DeliveryInv => SingleRunner
    <2> SUFFICES ASSUME Base, DeliveryInv, NEW v \in Workers, NEW w \in Workers,
                        v # w, v \in Running, w \in Running, Job(v) = Job(w)
                 PROVE  copies[Job(w)] > 1
      BY DEF SingleRunner, Running
    <2>1. worker[v].copy # worker[w].copy
      BY DEF DeliveryInv, UniqueDeliveries, SameDelivery, Job
    <2>2. /\ worker[v].copy <= copies[Job(w)] /\ worker[w].copy <= copies[Job(w)]
          /\ worker[v].copy \in Nat \ {0} /\ worker[w].copy \in Nat \ {0}
          /\ copies[Job(w)] \in Nat
      BY DeliveryTypes DEF DeliveryInv, CopiesCounted, Base
    <2>3. QED BY <2>1, <2>2
  <1>2. QED BY <1>1, BaseInvariant, DeliveryInvariant, PTL

-----------------------------------------------------------------------------
(* The outputs of a complete job.                                           *)

\* While a row is there, the outputs its runs have recorded are: those of the run
\* that completed it, and those a run under way has in its list.
OutputsKept ==
  /\ \A w \in Workers : worker[w].pc \in {"idle", "load"} => worker[w].made = {}
  /\ \A j \in Jobs : status[j] = "UNUSED" => delivered[j] = {}
  /\ \A j \in Jobs \ resurrected :
       RowExists(j) =>
         /\ \A a \in delivered[j] : outputs[j][a] > 0
         /\ \A w \in Workers : Job(w) = j => \A a \in worker[w].made : outputs[j][a] > 0

\* A run writes what it inserts, completes or moves, and nothing else of these;
\* it makes no row appear or vanish.
LEMMA RunRows ==
  ASSUME Base, NEW w \in Workers, RunStep(w) \/ FaultStep(w)
  PROVE  /\ UNCHANGED outputs \/ RecordOutput(w)
         /\ UNCHANGED delivered \/ WriteComplete(w)
         /\ \/ worker'[w].made = worker[w].made \/ worker'[w] = NoRun
            \/ RecordOutput(w)
         /\ worker'[w].pc \notin {"idle", "load"} \/ worker'[w] = NoRun \/ UNCHANGED worker
         /\ UNCHANGED resurrected
         /\ \A j \in Jobs : RowExists(j)' <=> RowExists(j)
  <1> USE DEF Base, TypeOK, ApiTypeOK
  <1>1. UNCHANGED outputs \/ RecordOutput(w)
    BY DEF RunStep, FaultStep, LoadJob, SkipMissingJob, WriteInitializing,
       WriteMissionProcessing, Prepare, CreateEngineTask, WriteFeatureExtraction,
       PollRunning, PollDone, Download, SkipAsset, UploadAsset, IngestDone,
       WriteComplete, WriteMissionCompleted, PublishCompleted, RemoveEngineTask,
       WriteFailed, WriteMissionFailed, PublishFailed, RaiseUncaught, RaiseCaught,
       AcknowledgeRetry,
       EngineUnavailable, RaiseBeforeLoad, ChildKilled, Crash, VisibilityTimeout,
       WriteStatus, OnlyJob, OnlyMission, OnlyQueue, NoApiChange, apiVars
  <1>2. UNCHANGED delivered \/ WriteComplete(w)
    BY DEF RunStep, FaultStep, LoadJob, SkipMissingJob, WriteInitializing,
       WriteMissionProcessing, Prepare, CreateEngineTask, WriteFeatureExtraction,
       PollRunning, PollDone, Download, SkipAsset, UploadAsset, RecordOutput, IngestDone,
       WriteMissionCompleted, PublishCompleted, RemoveEngineTask,
       WriteFailed, WriteMissionFailed, PublishFailed, RaiseUncaught, RaiseCaught,
       AcknowledgeRetry,
       EngineUnavailable, RaiseBeforeLoad, ChildKilled, Crash, VisibilityTimeout,
       historyVars
  <1>3. /\ \/ worker'[w].made = worker[w].made \/ worker'[w] = NoRun
           \/ RecordOutput(w)
        /\ worker'[w].pc \notin {"idle", "load"} \/ worker'[w] = NoRun \/ UNCHANGED worker
    <2> DEFINE Move == /\ \/ worker'[w].made = worker[w].made \/ worker'[w] = NoRun
                          \/ RecordOutput(w)
                       /\ \/ worker'[w].pc \notin {"idle", "load"} \/ worker'[w] = NoRun
                          \/ UNCHANGED worker
    <2>1. ASSUME NEW pc \in RunSteps \ {"load"}, GoTo(w, pc) PROVE Move
      <3>1. worker'[w].made = worker[w].made BY <2>1 DEF GoTo, Runs
      <3>2. worker'[w].pc = pc BY <2>1 DEF GoTo, Runs
      <3>3. QED BY <3>1, <3>2 DEF RunSteps, BeforeVerdict, AfterVerdict
    <2>2. ASSUME Finish(w) PROVE Move BY <2>2 DEF Finish
    <2>3. ASSUME UNCHANGED worker PROVE Move BY <2>3
    <2>4. ASSUME NEW n \in 0 .. Assets + 1,
                 worker' = [worker EXCEPT ![w].pc = "ingest", ![w].asset = n]
          PROVE  Move
      BY <2>4 DEF Runs
    <2>5. ASSUME SkipAsset(w) PROVE Move
      <3>1. worker'[w].made = worker[w].made BY <2>5 DEF SkipAsset, Runs
      <3>2. worker'[w].pc = "ingest" BY <2>5 DEF SkipAsset, At, Runs
      <3>3. QED BY <3>1, <3>2
    <2>6. ASSUME RecordOutput(w) PROVE Move
      <3>1. worker'[w].pc = "ingest" BY <2>6 DEF RecordOutput, Runs
      <3>2. QED BY <2>6, <3>1
    <2>7. Download(w) => \/ GoTo(w, "fail")
                        \/ worker' = [worker EXCEPT ![w].pc = "ingest", ![w].asset = 1]
      BY DEF Download
    <2> HIDE DEF Move
    <2>8. \/ \E pc \in RunSteps \ {"load"} : GoTo(w, pc)
          \/ Finish(w) \/ UNCHANGED worker
          \/ Download(w) \/ SkipAsset(w) \/ RecordOutput(w)
      BY DEF RunStep, FaultStep, LoadJob, SkipMissingJob, WriteInitializing,
         WriteMissionProcessing, Prepare, CreateEngineTask, WriteFeatureExtraction,
         PollRunning, PollDone, UploadAsset, IngestDone, WriteComplete,
         WriteMissionCompleted, PublishCompleted, RemoveEngineTask, WriteFailed,
         WriteMissionFailed, PublishFailed, RaiseUncaught, RaiseCaught, AcknowledgeRetry,
         EngineUnavailable, RaiseBeforeLoad, ChildKilled, Crash, VisibilityTimeout,
         RunSteps, BeforeVerdict, AfterVerdict
    <2>9. Move
      <3>1. 1 \in 0 .. Assets + 1 BY JobApiAssumption
      <3>2. "fail" \in RunSteps \ {"load"} BY DEF RunSteps, BeforeVerdict
      <3>3. CASE Download(w)
        <4>1. CASE GoTo(w, "fail") BY <2>1, <3>2, <4>1
        <4>2. CASE ~GoTo(w, "fail") BY <2>4, <2>7, <3>1, <3>3, <4>2
        <4>3. QED BY <4>1, <4>2
      <3>4. CASE \E pc \in RunSteps \ {"load"} : GoTo(w, pc) BY <2>1, <3>4
      <3>5. QED BY <2>2, <2>3, <2>5, <2>6, <2>8, <3>3, <3>4
    <2>10. QED BY <2>9 DEF Move
  <1>4. UNCHANGED resurrected
    BY DEF RunStep, FaultStep, LoadJob, SkipMissingJob, WriteInitializing,
       WriteMissionProcessing, Prepare, CreateEngineTask, WriteFeatureExtraction,
       PollRunning, PollDone, Download, SkipAsset, UploadAsset, RecordOutput, IngestDone,
       WriteComplete, WriteMissionCompleted, PublishCompleted, RemoveEngineTask,
       WriteFailed, WriteMissionFailed, PublishFailed, RaiseUncaught, RaiseCaught,
       AcknowledgeRetry,
       EngineUnavailable, RaiseBeforeLoad, ChildKilled, Crash, VisibilityTimeout,
       WriteStatus, OnlyJob, OnlyMission, OnlyOutputs, OnlyQueue, NoApiChange, apiVars
  <1>5. ASSUME NEW j \in Jobs PROVE RowExists(j)' <=> RowExists(j)
    <2>1. ASSUME NEW s \in RunningStatuses \cup {"COMPLETE", "FAILED"}, WriteStatus(w, s)
          PROVE  RowExists(j)' <=> RowExists(j)
      BY <2>1 DEF WriteStatus, UpdateJobStatus, RowExists, NoRow, RunningStatuses
    <2>2. StageOf(w) \in RunningStatuses BY StageTypes
    <2>3. \/ \E s \in RunningStatuses \cup {"COMPLETE", "FAILED"} : WriteStatus(w, s)
          \/ UNCHANGED status
      BY <2>2
      DEF RunStep, FaultStep, LoadJob, SkipMissingJob, WriteInitializing,
          WriteMissionProcessing, Prepare, CreateEngineTask, WriteFeatureExtraction,
          PollRunning, PollDone, Download, SkipAsset, UploadAsset, RecordOutput, IngestDone,
          WriteComplete, WriteMissionCompleted, PublishCompleted, RemoveEngineTask,
          WriteFailed, WriteMissionFailed, PublishFailed, RaiseUncaught, RaiseCaught,
          AcknowledgeRetry,
          EngineUnavailable, RaiseBeforeLoad, ChildKilled, Crash, VisibilityTimeout,
          OnlyMission, OnlyOutputs, OnlyQueue, NoApiChange, apiVars, RunningStatuses
    <2>4. QED BY <2>1, <2>3 DEF RowExists
  <1>6. QED BY <1>1, <1>2, <1>3, <1>4, <1>5

\* The two parts that look at one worker or one job only.
LEMMA FreshStep ==
  ASSUME Base, LoadedJobsExist, OutputsKept, [Next]_vars
  PROVE  /\ \A v \in Workers : worker'[v].pc \in {"idle", "load"} => worker'[v].made = {}
         /\ \A j \in Jobs : status'[j] = "UNUSED" => delivered'[j] = {}
  <1> USE DEF OutputsKept, Base, TypeOK
  <1>1. CASE UNCHANGED <<worker, delivered>> BY <1>1, NeverUnused
  <1>2. ASSUME NEW w \in Workers, NEW t \in tasks, Take(w, t)
        PROVE  /\ \A v \in Workers : worker'[v].pc \in {"idle", "load"} => worker'[v].made = {}
               /\ UNCHANGED delivered
    BY <1>2 DEF Take, historyVars
  <1>3. ASSUME NEW w \in Workers, RunStep(w) \/ FaultStep(w)
        PROVE  /\ \A v \in Workers : worker'[v].pc \in {"idle", "load"} => worker'[v].made = {}
               /\ \A j \in Jobs : status'[j] = "UNUSED" => delivered'[j] = {}
    <2>1. \A v \in Workers : worker'[v].pc \in {"idle", "load"} => worker'[v].made = {}
      <3>1. worker'[w].pc \in {"idle", "load"} => worker'[w].made = {}
        <4>1. worker'[w].pc \notin {"idle", "load"} \/ worker'[w] = NoRun \/ UNCHANGED worker
          BY <1>3, RunRows
        <4>2. QED BY <4>1 DEF NoRun
      <3>2. \A v \in Workers \ {w} : worker'[v] = worker[v] BY <1>3, RunIsLocal
      <3>3. QED BY <3>1, <3>2
    <2>2. ASSUME NEW j \in Jobs, status'[j] = "UNUSED" PROVE delivered'[j] = {}
      <3>1. status[j] = "UNUSED" BY <2>2, NeverUnused
      <3>2. CASE WriteComplete(w)
        <4>1. status[Job(w)] # "UNUSED" BY <3>2 DEF WriteComplete, At, LoadedJobsExist
        <4>2. delivered'[j] = delivered[j] BY <3>1, <3>2, <4>1 DEF WriteComplete
        <4>3. QED BY <3>1, <4>2
      <3>3. QED BY <1>3, <3>1, <3>2, RunRows
    <2>3. QED BY <2>1, <2>2
  <1>4. QED
    BY <1>1, <1>2, <1>3, NeverUnused
    DEF Next, ConsumerStep, Dispatch, Ignore, DispatchFails, DispatchTwice, EngineStep,
        historyVars, droneVars, vars

\* The API: a row that is there after the step was there before with the same
\* outputs, or is fresh, or was inserted again by a stale cancellation.
LEMMA ApiKeepsOutputs ==
  ASSUME Base, LoadedJobsExist, OutputsKept, ApiNext, UNCHANGED droneVars,
         NEW j \in Jobs \ resurrected', RowExists(j)'
  PROVE  /\ \A a \in delivered'[j] : outputs'[j][a] > 0
         /\ \A w \in Workers : worker'[w].job = j => \A a \in worker'[w].made : outputs'[j][a] > 0
  <1> USE DEF Base, TypeOK, ApiTypeOK
  <1>1. UNCHANGED <<worker, delivered>> BY DEF droneVars, historyVars
  <1>2. CASE RowExists(j) /\ j \notin resurrected /\ outputs'[j] = outputs[j]
    BY <1>1, <1>2 DEF OutputsKept, Job
  <1>3. CASE status[j] = "UNUSED"
    <2>1. delivered[j] = {} BY <1>3 DEF OutputsKept
    <2>2. \A w \in Workers : Job(w) = j => worker[w].made = {}
      BY <1>3 DEF OutputsKept, LoadedJobsExist
    <2>3. QED BY <1>1, <2>1, <2>2 DEF Job
  <1>4. ASSUME NEW r \in Requests, CancelSave(r)
        PROVE  RowExists(j) /\ j \notin resurrected /\ outputs'[j] = outputs[j]
    BY <1>4 DEF CancelSave, RowExists
  <1>5. ASSUME NEW r \in Requests, CreateCommit(r) \/ CreateRollback(r)
        PROVE  \/ status[j] = "UNUSED"
               \/ RowExists(j) /\ j \notin resurrected /\ outputs'[j] = outputs[j]
    BY <1>5 DEF CreateCommit, CreateRollback, RowExists, RequestsHold, Creating
  <1>6. ASSUME NEW i \in Jobs, Remove(i)
        PROVE  RowExists(j) /\ j \notin resurrected /\ outputs'[j] = outputs[j]
    BY <1>6 DEF Remove, RowExists, NoRow
  <1>7. ASSUME NEW m \in Missions, RemoveMission(m)
        PROVE  RowExists(j) /\ j \notin resurrected /\ outputs'[j] = outputs[j]
    BY <1>7 DEF RemoveMission, RowExists, NoRow
  <1>8. CASE UNCHANGED <<status, outputs, resurrected>>
    BY <1>2, <1>8 DEF RowExists
  <1>9. QED
    BY <1>2, <1>3, <1>4, <1>5, <1>6, <1>7, <1>8
    DEF ApiNext, RequestStep, CreatePublish, CreateAbort, CreateCheck, CancelRead

\* A run: outputs only grow, and what it adds to its list it has just inserted.
LEMMA RunKeepsOutputs ==
  ASSUME Base, OutputsKept, NEW w \in Workers, RunStep(w) \/ FaultStep(w),
         NEW j \in Jobs \ resurrected', RowExists(j)'
  PROVE  /\ \A a \in delivered'[j] : outputs'[j][a] > 0
         /\ \A v \in Workers : worker'[v].job = j => \A a \in worker'[v].made : outputs'[j][a] > 0
  <1> USE DEF Base, TypeOK, ApiTypeOK
  <1>1. j \notin resurrected /\ RowExists(j) BY RunRows
  <1>2. /\ \A a \in delivered[j] : outputs[j][a] > 0
        /\ \A v \in Workers : worker[v].job = j => \A a \in worker[v].made : outputs[j][a] > 0
    BY <1>1 DEF OutputsKept, Job
  <1>3. Job(w) \in Jobs /\ \A v \in Workers \ {w} : worker'[v] = worker[v]
    BY RunIsLocal
  <1>4. \A v \in Workers : worker[v].made \subseteq AssetIds /\ delivered[j] \subseteq AssetIds
    BY DEF Runs
  <1>5. CASE RecordOutput(w)
    <2>1. worker[w].asset \in AssetIds BY <1>5 DEF RecordOutput, At
    <2>2. PICK a : a = worker[w].asset OBVIOUS
    <2>3. a \in AssetIds BY <2>1, <2>2
    <2>4. outputs' = [outputs EXCEPT ![Job(w)][a] = @ + 1] /\ UNCHANGED delivered
      BY <1>5, <2>2 DEF RecordOutput, InsertOutput, historyVars
    <2>5. /\ worker'[w].made = worker[w].made \cup {a}
          /\ worker'[w].job = worker[w].job
      BY <1>5, <2>2 DEF RecordOutput, Runs
    <2>6. \A b \in AssetIds : outputs[j][b] > 0 => outputs'[j][b] > 0
      BY <1>3, <2>3, <2>4
    <2>7. Job(w) = j => outputs'[j][a] > 0
      BY <1>3, <2>3, <2>4
    <2>8. \A b \in delivered'[j] : outputs'[j][b] > 0
      BY <1>2, <1>4, <2>4, <2>6
    <2>9. ASSUME NEW v \in Workers, worker'[v].job = j, NEW b \in worker'[v].made
          PROVE  outputs'[j][b] > 0
      <3>1. worker[v].job = j /\ (b \in worker[v].made \/ (v = w /\ b = a))
        BY <1>3, <2>5, <2>9
      <3>2. QED BY <1>2, <1>4, <2>6, <2>7, <3>1 DEF Job
    <2>10. QED BY <2>8, <2>9
  <1>6. CASE ~RecordOutput(w)
    <2>1. UNCHANGED outputs BY <1>6, RunRows
    <2>2. \/ worker'[w].made = worker[w].made /\ worker'[w].job = worker[w].job
          \/ worker'[w].made = {}
      <3>1. worker'[w].made = worker[w].made \/ worker'[w] = NoRun BY <1>6, RunRows
      <3>2. worker'[w].job = worker[w].job \/ worker'[w].pc = "idle" BY RunIsLocal DEF Job
      <3>3. worker'[w].pc = "idle" => worker'[w] = NoRun
        BY RunRows, RunIsLocal
      <3>4. QED BY <3>1, <3>2, <3>3 DEF NoRun
    <2>3. \/ UNCHANGED delivered
          \/ delivered' = [delivered EXCEPT ![Job(w)] = worker[w].made]
      BY RunRows DEF WriteComplete
    <2>4. \A a \in delivered'[j] : outputs'[j][a] > 0
      <3>1. CASE UNCHANGED delivered BY <1>2, <2>1, <3>1
      <3>2. CASE delivered' = [delivered EXCEPT ![Job(w)] = worker[w].made]
        <4>1. CASE Job(w) = j BY <1>2, <1>3, <2>1, <3>2, <4>1 DEF Job
        <4>2. CASE Job(w) # j BY <1>2, <1>3, <2>1, <3>2, <4>2
        <4>3. QED BY <4>1, <4>2
      <3>3. QED BY <2>3, <3>1, <3>2
    <2>5. ASSUME NEW v \in Workers, worker'[v].job = j, NEW a \in worker'[v].made
          PROVE  outputs'[j][a] > 0
      <3>1. CASE v = w BY <1>2, <2>1, <2>2, <2>5, <3>1
      <3>2. CASE v # w BY <1>2, <1>3, <2>1, <2>5, <3>2
      <3>3. QED BY <3>1, <3>2
    <2>6. QED BY <2>4, <2>5
  <1>7. QED BY <1>5, <1>6

\* A COMPLETE job has a row for every output of the run that completed it,
\* unless a stale cancellation re-inserted the job after its rows were deleted.
THEOREM DroneOutputsKept == Spec => []CompleteHasItsOutputs
  <1>1. Init => LoadedJobsExist /\ OutputsKept
    BY DEF Init, ApiInit, LoadedJobsExist, OutputsKept, NoRun, RowExists, NoRow
  <1>2. Base /\ LoadedJobsExist /\ [Next]_vars => LoadedJobsExist'
    BY LoadedStep
  <1>3. Base /\ LoadedJobsExist /\ OutputsKept /\ [Next]_vars => OutputsKept'
    <2> SUFFICES ASSUME Base, LoadedJobsExist, OutputsKept, [Next]_vars,
                        NEW j \in Jobs \ resurrected', RowExists(j)'
                 PROVE  /\ \A a \in delivered'[j] : outputs'[j][a] > 0
                        /\ \A w \in Workers : worker'[w].job = j =>
                             \A a \in worker'[w].made : outputs'[j][a] > 0
      BY FreshStep DEF OutputsKept, Job
    <2>1. CASE UNCHANGED <<status, outputs, resurrected, delivered>> /\
               \A v \in Workers : worker'[v] = worker[v] \/ worker'[v].made = {}
      BY <2>1 DEF OutputsKept, RowExists, Job
    <2>2. ASSUME NEW w \in Workers, NEW t \in tasks, Take(w, t)
          PROVE  /\ UNCHANGED <<status, outputs, resurrected, delivered>>
                 /\ \A v \in Workers : worker'[v] = worker[v] \/ worker'[v].made = {}
      BY <2>2 DEF Take, NoApiChange, apiVars, historyVars, Base, TypeOK
    <2>3. CASE UNCHANGED <<status, outputs, resurrected, delivered, worker>> BY <2>1, <2>3
    <2>4. QED
      BY <2>1, <2>2, <2>3, ApiKeepsOutputs, RunKeepsOutputs
      DEF Next, ConsumerStep, Dispatch, Ignore, DispatchFails, DispatchTwice, EngineStep,
          OnlyQueue, NoApiChange, historyVars, apiVars, droneVars, vars
  <1>4. OutputsKept => CompleteHasItsOutputs
    BY DEF OutputsKept, CompleteHasItsOutputs, RowExists, NoRow
  <1>5. QED BY <1>1, <1>2, <1>3, <1>4, BaseInvariant, PTL DEF Spec

-----------------------------------------------------------------------------
(* Outputs per delivery.                                                    *)

\* The run of worker w may still record asset a: it has not recorded an asset
\* from a on, and has not ended in a verdict.
MayRecord(w, a) ==
  \/ worker[w].pc \in {"load", "init", "mission", "prepare", "submit", "stage",
                       "poll", "download"}
  \/ worker[w].pc \in {"ingest", "record"} /\ worker[w].asset <= a

\* The deliveries of job j, by copy number, that may still record asset a.
Owing(j, a) ==
  {c \in 1 .. MaxCopies :
     \/ \E m \in submitted : m.job = j /\ m.copy = c
     \/ \E t \in tasks : t.job = j /\ t.copy = c
     \/ \E w \in Workers : Job(w) = j /\ worker[w].copy = c /\ MayRecord(w, a)}

\* What is recorded and what may still be recorded, together: at most once for
\* each delivery, and once more for each kill.
RecordsAreOwed ==
  \A j \in Jobs, a \in AssetIds :
     outputs[j][a] + Cardinality(Owing(j, a)) <= copies[j] + crashes

LEMMA OwingFinite ==
  ASSUME NEW j, NEW a
  PROVE  /\ Owing(j, a) \subseteq 1 .. MaxCopies
         /\ IsFiniteSet(Owing(j, a)) /\ Cardinality(Owing(j, a)) \in Nat
         /\ IsFiniteSet(Owing(j, a)') /\ Cardinality(Owing(j, a)') \in Nat
  <1>1. Owing(j, a) \subseteq 1 .. MaxCopies /\ Owing(j, a)' \subseteq 1 .. MaxCopies
    BY DEF Owing
  <1>2. IsFiniteSet(1 .. MaxCopies) BY FS_Interval, JobApiAssumption
  <1>3. IsFiniteSet(Owing(j, a)) /\ IsFiniteSet(Owing(j, a)') BY <1>1, <1>2, FS_Subset
  <1>4. QED BY <1>1, <1>3, FS_CardinalityType

\* A step keeps the balance when it adds no debtor, when a new one comes with a
\* new delivery or a kill, or when the one that records drops out.
LEMMA Balance ==
  ASSUME TypeOK, TypeOK', RecordsAreOwed, NEW j \in Jobs, NEW a \in AssetIds,
         NEW c \in 1 .. MaxCopies,
         \/ /\ Owing(j, a)' \subseteq Owing(j, a)
            /\ outputs'[j][a] <= outputs[j][a]
            /\ copies[j] + crashes <= copies'[j] + crashes'
         \/ /\ Owing(j, a)' \subseteq Owing(j, a) \cup {c}
            /\ outputs'[j][a] <= outputs[j][a]
            /\ copies[j] + crashes + 1 <= copies'[j] + crashes'
         \/ /\ Owing(j, a)' \subseteq Owing(j, a) \ {c}
            /\ c \in Owing(j, a)
            /\ outputs'[j][a] = outputs[j][a] + 1
            /\ copies[j] + crashes <= copies'[j] + crashes'
  PROVE  outputs'[j][a] + Cardinality(Owing(j, a)') <= copies'[j] + crashes'
  <1>1. /\ IsFiniteSet(Owing(j, a)) /\ Cardinality(Owing(j, a)) \in Nat
        /\ IsFiniteSet(Owing(j, a)') /\ Cardinality(Owing(j, a)') \in Nat
    BY OwingFinite
  <1>2. outputs[j][a] + Cardinality(Owing(j, a)) <= copies[j] + crashes
    BY DEF RecordsAreOwed
  <1>3. PICK old, new : old = Owing(j, a) /\ new = Owing(j, a)' OBVIOUS
  <1>4. /\ outputs[j][a] \in Nat /\ outputs'[j][a] \in Nat
        /\ copies[j] \in Nat /\ copies'[j] \in Nat /\ crashes \in Nat /\ crashes' \in Nat
    BY JobApiAssumption, DroneAssumption DEF TypeOK, ApiTypeOK
  <1>5. CASE new \subseteq old
    <2>1. Cardinality(new) <= Cardinality(old) BY <1>1, <1>3, <1>5, FS_Subset
    <2>2. CASE outputs'[j][a] <= outputs[j][a] /\ copies[j] + crashes <= copies'[j] + crashes'
      BY <1>1, <1>2, <1>3, <1>4, <2>1, <2>2
    <2>3. CASE /\ new \subseteq old \ {c} /\ c \in old
               /\ outputs'[j][a] = outputs[j][a] + 1
               /\ copies[j] + crashes <= copies'[j] + crashes'
      <3>1. /\ IsFiniteSet(old \ {c})
            /\ Cardinality(old \ {c}) = Cardinality(old) - 1
        BY <1>1, <1>3, <2>3, FS_RemoveElement
      <3>2. Cardinality(new) <= Cardinality(old \ {c}) BY <2>3, <3>1, FS_Subset
      <3>3. QED BY <1>1, <1>2, <1>3, <1>4, <2>3, <3>1, <3>2
    <2>4. CASE outputs'[j][a] <= outputs[j][a] /\ copies[j] + crashes + 1 <= copies'[j] + crashes'
      BY <1>1, <1>2, <1>3, <1>4, <2>1, <2>4
    <2>5. QED BY <1>3, <2>2, <2>3, <2>4
  <1>6. CASE ~(new \subseteq old)
    <2>1. /\ new \subseteq old \cup {c}
          /\ outputs'[j][a] <= outputs[j][a]
          /\ copies[j] + crashes + 1 <= copies'[j] + crashes'
      BY <1>3, <1>6
    <2>2. IsFiniteSet(old \cup {c}) /\ Cardinality(old \cup {c}) <= Cardinality(old) + 1
      <3>1. IsFiniteSet(old) /\ Cardinality(old) \in Nat BY <1>1, <1>3
      <3>2. /\ IsFiniteSet(old \cup {c})
            /\ Cardinality(old \cup {c}) =
                 IF c \in old THEN Cardinality(old) ELSE Cardinality(old) + 1
        BY <3>1, FS_AddElement
      <3>3. QED BY <3>1, <3>2
    <2>3. Cardinality(new) <= Cardinality(old \cup {c}) BY <2>1, <2>2, FS_Subset
    <2>4. Cardinality(old \cup {c}) \in Nat BY <2>2, FS_CardinalityType
    <2>5. QED BY <1>1, <1>2, <1>3, <1>4, <2>1, <2>2, <2>3, <2>4
  <1>7. QED BY <1>5, <1>6

\* Where the deliveries of a job are after a step: in the places they were, or
\* under one of the copy numbers C.
LEMMA OwingWithin ==
  ASSUME NEW j, NEW a, NEW C,
         \A m \in submitted' : m.job = j => m \in submitted \/ m.copy \in C,
         \A t \in tasks' : t.job = j => t \in tasks \/ t.copy \in C,
         \A v \in Workers :
           worker'[v].job = j /\ MayRecord(v, a)' =>
             \/ Job(v) = j /\ worker'[v].copy = worker[v].copy /\ MayRecord(v, a)
             \/ worker'[v].copy \in C
  PROVE  Owing(j, a)' \subseteq Owing(j, a) \cup C
  <1> SUFFICES ASSUME NEW c \in Owing(j, a)', c \notin C PROVE c \in Owing(j, a)
    OBVIOUS
  <1>1. c \in 1 .. MaxCopies BY DEF Owing
  <1>2. CASE \E m \in submitted' : m.job = j /\ m.copy = c BY <1>1, <1>2 DEF Owing
  <1>3. CASE \E t \in tasks' : t.job = j /\ t.copy = c BY <1>1, <1>3 DEF Owing
  <1>4. CASE \E v \in Workers : worker'[v].job = j /\ worker'[v].copy = c /\ MayRecord(v, a)'
    <2>1. PICK v \in Workers : worker'[v].job = j /\ worker'[v].copy = c /\ MayRecord(v, a)'
      BY <1>4
    <2>2. Job(v) = j /\ worker[v].copy = c /\ MayRecord(v, a) BY <2>1
    <2>3. QED BY <1>1, <2>2 DEF Owing
  <1>5. QED BY <1>2, <1>3, <1>4 DEF Owing, Job

\* A run only gets on with the assets: what it may record after a step it might
\* have recorded before.
LEMMA RunRecordsLess ==
  ASSUME TypeOK, NEW w \in Workers, RunStep(w) \/ FaultStep(w), NEW a \in AssetIds,
         MayRecord(w, a)'
  PROVE  MayRecord(w, a)
  <1> USE DEF TypeOK
  <1> DEFINE Pre == {"load", "init", "mission", "prepare", "submit", "stage", "poll",
                     "download"}
  <1>1. a \in Nat /\ worker[w].asset \in Nat
    BY JobApiAssumption DEF AssetIds, Runs
  <1>2. ASSUME worker[w].pc \in Pre PROVE MayRecord(w, a) BY <1>2 DEF MayRecord
  <1>3. ASSUME NEW pc, GoTo(w, pc), pc = "fail" \/ pc \in AfterVerdict PROVE FALSE
    <2>1. worker'[w].pc = pc BY <1>3 DEF GoTo, Runs
    <2>2. QED BY <1>3, <2>1 DEF MayRecord, AfterVerdict
  <1>4. ASSUME Finish(w) PROVE FALSE BY <1>4 DEF Finish, NoRun, MayRecord
  <1>5. ASSUME UNCHANGED worker PROVE MayRecord(w, a) BY <1>5 DEF MayRecord
  <1>6. CASE SkipAsset(w)
    <2>1. worker'[w].asset = worker[w].asset + 1 /\ worker[w].pc = "ingest"
      BY <1>6 DEF SkipAsset, At, Runs
    <2>2. worker'[w].pc = "ingest" BY <1>6 DEF SkipAsset, At, Runs
    <2>3. QED BY <1>1, <2>1, <2>2 DEF MayRecord
  <1>7. CASE UploadAsset(w)
    <2>1. worker'[w].asset = worker[w].asset /\ worker[w].pc = "ingest"
      BY <1>7 DEF UploadAsset, GoTo, At, Runs
    <2>2. worker'[w].pc = "record" BY <1>7 DEF UploadAsset, GoTo, At, Runs
    <2>3. QED BY <1>1, <2>1, <2>2 DEF MayRecord
  <1>8. CASE RecordOutput(w)
    <2>1. worker'[w].asset = worker[w].asset + 1 /\ worker[w].pc = "record"
      BY <1>8 DEF RecordOutput, At, Runs
    <2>2. worker'[w].pc = "ingest" BY <1>8 DEF RecordOutput, At, Runs
    <2>3. QED BY <1>1, <2>1, <2>2 DEF MayRecord
  <1>9. CASE IngestDone(w)
    <2>1. worker'[w].pc = "complete" BY <1>9 DEF IngestDone, GoTo, Runs
    <2>2. QED BY <2>1 DEF MayRecord
  <1>10. CASE \/ LoadJob(w) \/ SkipMissingJob(w) \/ WriteInitializing(w)
              \/ WriteMissionProcessing(w) \/ Prepare(w) \/ CreateEngineTask(w)
              \/ WriteFeatureExtraction(w) \/ PollRunning(w) \/ PollDone(w)
              \/ Download(w) \/ EngineUnavailable(w) \/ RaiseBeforeLoad(w)
    <2>1. worker[w].pc \in Pre
      BY <1>10
      DEF LoadJob, SkipMissingJob, WriteInitializing, WriteMissionProcessing, Prepare,
          CreateEngineTask, WriteFeatureExtraction, PollRunning, PollDone, Download,
          EngineUnavailable, RetryPoints, RaiseBeforeLoad, At
    <2>2. QED BY <1>2, <2>1
  <1>11. CASE \/ WriteComplete(w) \/ WriteMissionCompleted(w) \/ PublishCompleted(w)
              \/ WriteFailed(w) \/ WriteMissionFailed(w) \/ RaiseCaught(w)
    BY <1>3, <1>11
    DEF WriteComplete, WriteMissionCompleted, PublishCompleted, WriteFailed,
        WriteMissionFailed, RaiseCaught, AfterVerdict
  <1>12. CASE \/ RemoveEngineTask(w) \/ PublishFailed(w) \/ RaiseUncaught(w)
              \/ ChildKilled(w) \/ Crash(w) \/ AcknowledgeRetry(w)
    BY <1>4, <1>12 DEF RemoveEngineTask, PublishFailed, RaiseUncaught, ChildKilled, Crash,
                       AcknowledgeRetry
  <1>13. CASE VisibilityTimeout(w) BY <1>5, <1>13 DEF VisibilityTimeout
  <1>14. QED
    BY <1>6, <1>7, <1>8, <1>9, <1>10, <1>11, <1>12, <1>13 DEF RunStep, FaultStep

\* The consumer: a message becomes a task under its number, goes, or comes
\* back under a new one.
LEMMA ConsumerOwing ==
  ASSUME Base, Base', RecordsAreOwed, NEW m \in submitted,
         ConsumerStep(m) \/ DispatchFails(m) \/ DispatchTwice(m)
  PROVE  RecordsAreOwed'
  <1> SUFFICES ASSUME NEW j \in Jobs, NEW a \in AssetIds
               PROVE  outputs'[j][a] + Cardinality(Owing(j, a)') <= copies'[j] + crashes'
    BY DEF RecordsAreOwed
  <1> USE DEF Base
  <1>1. UNCHANGED <<worker, outputs, crashes>>
    BY DEF ConsumerStep, Dispatch, Ignore, DispatchFails, DispatchTwice, OnlyQueue, historyVars
  <1>2. /\ \A v \in Workers : MayRecord(v, a)' <=> MayRecord(v, a)
        /\ outputs'[j][a] \in Nat /\ outputs'[j][a] <= outputs[j][a]
    BY <1>1 DEF MayRecord, TypeOK, ApiTypeOK
  <1>3. m.job \in Jobs /\ m.copy \in 1 .. MaxCopies /\ 1 \in 1 .. MaxCopies
    BY JobApiAssumption DEF TypeOK, ApiTypeOK, Messages
  <1>4. copies[j] \in Nat /\ crashes \in Nat BY DEF TypeOK, ApiTypeOK, DroneAssumption
  <1>5. CASE ~DispatchTwice(m)
    <2>1. /\ submitted' \subseteq submitted /\ UNCHANGED copies
          /\ \A t \in tasks' : t \in tasks \/ (t.job = m.job /\ t.copy = m.copy)
      BY <1>5 DEF ConsumerStep, Dispatch, Ignore, DispatchFails, Consume, Task
    <2> DEFINE C == IF j = m.job THEN {m.copy} ELSE {}
    <2>2. C \subseteq Owing(j, a) BY <1>3 DEF Owing
    <2>3. Owing(j, a)' \subseteq Owing(j, a) \cup C
      BY <1>1, <1>2, <2>1, OwingWithin DEF Job
    <2>4. copies[j] + crashes <= copies'[j] + crashes' BY <1>1, <1>4, <2>1
    <2>5. QED BY <1>2, <1>3, <2>2, <2>3, <2>4, Balance
  <1>6. CASE DispatchTwice(m)
    <2>1. PICK c : c = copies[m.job] + 1 OBVIOUS
    <2>6. c \in 1 .. MaxCopies
      <3>1. copies[m.job] < MaxCopies BY <1>6 DEF DispatchTwice, Redeliver, CanCopy
      <3>2. copies[m.job] \in Nat BY <1>3 DEF TypeOK, ApiTypeOK
      <3>3. QED BY <2>1, <3>1, <3>2, JobApiAssumption
    <2>2. /\ copies' = [copies EXCEPT ![m.job] = c]
          /\ submitted' = (submitted \ {m}) \cup {NewCopy(m.job)}
          /\ NewCopy(m.job).copy = c /\ NewCopy(m.job).job = m.job
          /\ tasks' = tasks \cup {Task(m, 0)}
          /\ Task(m, 0).job = m.job /\ Task(m, 0).copy = m.copy
      BY <1>6, <2>1 DEF DispatchTwice, Redeliver, CountCopy, NewCopy, Task
    <2>3. CASE j = m.job
      <3>1. m.copy \in Owing(j, a) BY <1>3, <2>3 DEF Owing
      <3>2. Owing(j, a)' \subseteq Owing(j, a) \cup {c, m.copy}
        BY <1>1, <1>2, <2>2, OwingWithin DEF Job
      <3>3. copies[j] + crashes + 1 <= copies'[j] + crashes'
        BY <1>1, <1>3, <1>4, <2>1, <2>2, <2>3 DEF TypeOK, ApiTypeOK
      <3>4. Owing(j, a)' \subseteq Owing(j, a) \cup {c} BY <3>1, <3>2
      <3>5. QED BY <1>2, <2>6, <3>3, <3>4, Balance
    <2>4. CASE j # m.job
      <3>1. Owing(j, a)' \subseteq Owing(j, a) \cup {}
        BY <1>1, <1>2, <2>2, <2>4, OwingWithin DEF Job
      <3>2. copies[j] + crashes <= copies'[j] + crashes'
        BY <1>1, <1>3, <1>4, <2>2, <2>4 DEF TypeOK, ApiTypeOK
      <3>3. QED BY <1>2, <1>3, <3>1, <3>2, Balance
    <2>5. QED BY <2>3, <2>4
  <1>7. QED BY <1>5, <1>6 DEF ConsumerStep, Dispatch, Ignore, DispatchFails

\* A free worker: the task stays owed under its number.
LEMMA TakeOwing ==
  ASSUME Base, Base', RecordsAreOwed, NEW w \in Workers, NEW t \in tasks, Take(w, t)
  PROVE  RecordsAreOwed'
  <1> SUFFICES ASSUME NEW j \in Jobs, NEW a \in AssetIds
               PROVE  outputs'[j][a] + Cardinality(Owing(j, a)') <= copies'[j] + crashes'
    BY DEF RecordsAreOwed
  <1> USE DEF Base
  <1>1. UNCHANGED <<submitted, outputs, copies, crashes>> /\ tasks' \subseteq tasks
    BY DEF Take, NoApiChange, apiVars, historyVars
  <1>2. /\ outputs[j][a] \in Nat /\ copies[j] \in Nat /\ crashes \in Nat
        /\ t.copy \in 1 .. MaxCopies
    BY DEF TypeOK, ApiTypeOK, TaskMessages
  <1>3. /\ worker'[w].job = t.job /\ worker'[w].copy = t.copy
        /\ \A v \in Workers \ {w} : worker'[v] = worker[v]
    BY DEF Take, TypeOK
  <1>4. \A v \in Workers \ {w} : MayRecord(v, a)' <=> MayRecord(v, a)
    BY <1>3 DEF MayRecord
  <1> DEFINE C == IF j = t.job THEN {t.copy} ELSE {}
  <1>5. C \subseteq Owing(j, a) BY <1>2 DEF Owing
  <1>6. Owing(j, a)' \subseteq Owing(j, a) \cup C
    <2>1. ASSUME NEW v \in Workers, worker'[v].job = j /\ MayRecord(v, a)'
          PROVE  \/ Job(v) = j /\ worker'[v].copy = worker[v].copy /\ MayRecord(v, a)
                 \/ worker'[v].copy \in C
      BY <1>3, <1>4, <2>1 DEF Job
    <2> HIDE DEF C
    <2>2. QED BY <1>1, <2>1, OwingWithin
  <1>7. QED BY <1>1, <1>2, <1>5, <1>6, Balance

\* A run: recording an asset pays what its delivery owed; a retry owes as much
\* as the run did; a kill may owe it all again, and is counted.
LEMMA RunOwing ==
  ASSUME Base, Base', DeliveryInv, RecordsAreOwed, NEW w \in Workers,
         RunStep(w) \/ FaultStep(w)
  PROVE  RecordsAreOwed'
  <1> SUFFICES ASSUME NEW j \in Jobs, NEW a \in AssetIds
               PROVE  outputs'[j][a] + Cardinality(Owing(j, a)') <= copies'[j] + crashes'
    BY DEF RecordsAreOwed
  <1> USE DEF Base
  <1>1. /\ w \in Busy /\ Job(w) \in Jobs
        /\ \A v \in Workers \ {w} : worker'[v] = worker[v]
        /\ \/ worker'[w].job = Job(w) /\ worker'[w].copy = worker[w].copy
           \/ worker'[w].pc = "idle"
        /\ UNCHANGED submitted /\ tasks \subseteq tasks'
    BY RunIsLocal DEF Busy
  <1>2. /\ outputs[j][a] \in Nat /\ copies[j] \in Nat /\ crashes \in Nat
        /\ worker[w].copy \in 1 .. MaxCopies /\ Job(w) \in Jobs
    <2>1. worker[w].copy \in 0 .. MaxCopies /\ worker[w].copy # 0
      BY <1>1 DEF TypeOK, Runs, Busy
    <2>2. QED BY <1>1, <2>1, JobApiAssumption DEF TypeOK, ApiTypeOK
  <1>3. ASSUME NEW v \in Workers, worker'[v].job = j, MayRecord(v, a)'
        PROVE  Job(v) = j /\ worker'[v].copy = worker[v].copy /\ MayRecord(v, a)
    <2>1. CASE v # w BY <1>1, <1>3, <2>1 DEF MayRecord, Job
    <2>2. CASE v = w
      <3>1. MayRecord(w, a) BY <1>3, <2>2, RunRecordsLess
      <3>2. worker'[w].pc # "idle" BY <1>3, <2>2 DEF MayRecord
      <3>3. QED BY <1>1, <1>3, <2>2, <3>1, <3>2
    <2>3. QED BY <2>1, <2>2
  <1>4. ASSUME NEW C, \A t \in tasks' : t.job = j => t \in tasks \/ t.copy \in C
        PROVE  Owing(j, a)' \subseteq Owing(j, a) \cup C
    BY <1>1, <1>3, <1>4, OwingWithin
  <1>5. CASE UNCHANGED <<tasks, copies, outputs, crashes>>
    <2>1. Owing(j, a)' \subseteq Owing(j, a) \cup {} BY <1>4, <1>5
    <2>2. QED BY <1>2, <1>5, <2>1, Balance
  <1>6. CASE RecordOutput(w)
    <2>1. PICK b : b = worker[w].asset OBVIOUS
    <2>2. /\ worker[w].pc = "record" /\ b \in AssetIds
          /\ outputs' = [outputs EXCEPT ![Job(w)][b] = @ + 1]
          /\ UNCHANGED <<tasks, submitted, copies, crashes>>
      BY <1>6, <2>1 DEF RecordOutput, InsertOutput, At, OnlyOutputs, historyVars, TypeOK
    <2>3. /\ worker'[w].asset = b + 1 /\ worker'[w].pc = "ingest"
          /\ w \in Running
      BY <1>6, <2>1, <2>2 DEF RecordOutput, TypeOK, Runs, Running, Executing
    <2>4. Owing(j, a)' \subseteq Owing(j, a) \cup {} BY <1>4, <2>2
    <2>5. CASE j = Job(w) /\ a = b
      <3>1. worker[w].copy \in Owing(j, a)
        <4>1. MayRecord(w, a) BY <2>1, <2>2, <2>5 DEF MayRecord, AssetIds
        <4>2. QED BY <1>2, <2>5, <4>1 DEF Owing
      <3>2. ~MayRecord(w, a)'
        BY <2>2, <2>3, <2>5 DEF MayRecord, AssetIds
      <3>3. worker[w].copy \notin Owing(j, a)'
        <4> SUFFICES ASSUME worker[w].copy \in Owing(j, a)' PROVE FALSE
          OBVIOUS
        <4>1. \A m \in submitted : ~(m.job = j /\ m.copy = worker[w].copy)
          BY <2>3, <2>5 DEF DeliveryInv, UniqueDeliveries, SameDelivery, Job
        <4>2. \A t \in tasks : ~(t.job = j /\ t.copy = worker[w].copy)
          BY <2>3, <2>5 DEF DeliveryInv, UniqueDeliveries, SameDelivery, Job
        <4>3. PICK v \in Workers : worker'[v].job = j /\ worker'[v].copy = worker[w].copy
                                   /\ MayRecord(v, a)'
          BY <2>2, <4>1, <4>2 DEF Owing, Job
        <4>4. Job(v) = j /\ worker[v].copy = worker[w].copy /\ MayRecord(v, a)
          BY <1>3, <4>3
        <4>5. v \in Running BY <4>4 DEF MayRecord, Running, Executing
        <4>6. v = w
          BY <2>3, <2>5, <4>4, <4>5 DEF DeliveryInv, UniqueDeliveries, SameDelivery, Job
        <4>7. QED BY <3>2, <4>3, <4>6
      <3>4. Owing(j, a)' \subseteq Owing(j, a) \ {worker[w].copy} BY <2>4, <3>3
      <3>5. outputs'[j][a] = outputs[j][a] + 1
        BY <1>1, <2>2, <2>5 DEF TypeOK, ApiTypeOK
      <3>6. QED BY <1>2, <2>2, <3>1, <3>4, <3>5, Balance
    <2>6. CASE ~(j = Job(w) /\ a = b)
      <3>1. outputs'[j][a] = outputs[j][a]
        BY <1>1, <2>2, <2>6 DEF TypeOK, ApiTypeOK
      <3>2. QED BY <1>2, <2>2, <2>4, <3>1, Balance
    <2>7. QED BY <2>5, <2>6
  <1>7. CASE EngineUnavailable(w)
    <2>1. UNCHANGED <<outputs, copies, crashes>>
      BY <1>7 DEF EngineUnavailable, NoApiChange, apiVars
    <2>2. CASE UNCHANGED tasks BY <1>5, <2>1, <2>2
    <2>3. CASE Requeue(w, worker[w].retries + 1)
      <3>1. PICK t : t = Task(worker[w], worker[w].retries + 1) OBVIOUS
      <3>2. tasks' = tasks \cup {t} /\ t.job = Job(w) /\ t.copy = worker[w].copy
        BY <2>3, <3>1 DEF Requeue, Task, Job
      <3>3. Owing(j, a)' \subseteq Owing(j, a) \cup (IF j = Job(w) THEN {worker[w].copy} ELSE {})
        BY <1>4, <3>2
      <3>4. j = Job(w) => worker[w].copy \in Owing(j, a)
        <4>1. MayRecord(w, a) BY <1>7 DEF EngineUnavailable, RetryPoints, MayRecord
        <4>2. QED BY <1>2, <4>1 DEF Owing
      <3>5. Owing(j, a)' \subseteq Owing(j, a) BY <3>3, <3>4
      <3>6. QED BY <1>2, <2>1, <3>5, Balance
    <2>4. QED BY <1>7, <2>2, <2>3 DEF EngineUnavailable
  <1>8. CASE Crash(w) /\ ~At(w, "retried")
    <2>1. UNCHANGED <<outputs, copies>> /\ crashes' = crashes + 1
      BY <1>8 DEF Crash, NoApiChange, apiVars
    <2>2. PICK t : t = Task(worker[w], worker[w].retries) OBVIOUS
    <2>3. tasks' = tasks \cup {t} /\ t.copy = worker[w].copy
      BY <1>8, <2>2 DEF Crash, Requeue, Task
    <2>4. Owing(j, a)' \subseteq Owing(j, a) \cup {worker[w].copy} BY <1>4, <2>3
    <2>5. QED BY <1>2, <2>1, <2>4, Balance
  <1>9. CASE VisibilityTimeout(w) \/ (Crash(w) /\ At(w, "retried"))
    <2>1. PICK i, c : i = Job(w) /\ c = copies[i] + 1 OBVIOUS
    <2>2. PICK t : t = Task(NewCopy(i), worker[w].retries) OBVIOUS
    <2>3. /\ tasks' = tasks \cup {t} /\ t.job = i /\ t.copy = c
          /\ copies' = [copies EXCEPT ![i] = c] /\ copies[i] < MaxCopies
          /\ UNCHANGED outputs /\ crashes' \in {crashes, crashes + 1}
      BY <1>9, <2>1, <2>2
      DEF VisibilityTimeout, Crash, CountCopy, CanCopy, NewCopy, Task, OnlyQueue,
          historyVars
    <2>4. i \in Jobs /\ copies[i] \in Nat BY <1>2, <2>1 DEF TypeOK, ApiTypeOK
    <2>5. c \in 1 .. MaxCopies BY <2>1, <2>3, <2>4, JobApiAssumption
    <2>6. CASE j = i
      <3>1. Owing(j, a)' \subseteq Owing(j, a) \cup {c} BY <1>4, <2>3
      <3>2. copies'[j] = copies[j] + 1 BY <2>1, <2>3, <2>4, <2>6 DEF TypeOK, ApiTypeOK
      <3>3. copies[j] + crashes + 1 <= copies'[j] + crashes' BY <1>2, <2>3, <3>2
      <3>4. QED BY <1>2, <2>3, <2>5, <3>1, <3>3, Balance
    <2>7. CASE j # i
      <3>1. Owing(j, a)' \subseteq Owing(j, a) \cup {} BY <1>4, <2>3, <2>7
      <3>2. copies'[j] = copies[j] BY <2>3, <2>7 DEF TypeOK, ApiTypeOK
      <3>3. copies[j] + crashes <= copies'[j] + crashes' BY <1>2, <2>3, <3>2
      <3>4. QED BY <1>2, <2>3, <3>1, <3>3, Balance
    <2>8. QED BY <2>6, <2>7
  <1>10. CASE RunStep(w) /\ ~RecordOutput(w)
    <2>1. UNCHANGED <<tasks, copies, crashes>>
      BY <1>10
      DEF RunStep, LoadJob, SkipMissingJob, WriteInitializing, WriteMissionProcessing,
          Prepare, CreateEngineTask, WriteFeatureExtraction, PollRunning, PollDone,
          Download, SkipAsset, UploadAsset, IngestDone, WriteComplete,
          WriteMissionCompleted, PublishCompleted, RemoveEngineTask, WriteFailed,
          WriteMissionFailed, PublishFailed, RaiseUncaught, RaiseCaught, AcknowledgeRetry,
          WriteStatus,
          OnlyJob, OnlyMission, NoApiChange, apiVars, historyVars
    <2>2. UNCHANGED outputs BY <1>10, RunRows
    <2>3. QED BY <1>5, <2>1, <2>2
  <1>11. CASE RaiseBeforeLoad(w) \/ ChildKilled(w)
    BY <1>5, <1>11 DEF RaiseBeforeLoad, ChildKilled, WriteStatus, OnlyJob, NoApiChange, apiVars
  <1>12. QED BY <1>6, <1>7, <1>8, <1>9, <1>10, <1>11 DEF FaultStep

\* The API: a publish is counted, and only deletions touch the outputs.
LEMMA ApiOwing ==
  ASSUME Base, Base', DeliveryInv, RecordsAreOwed, ApiNext, UNCHANGED droneVars
  PROVE  RecordsAreOwed'
  <1> SUFFICES ASSUME NEW j \in Jobs, NEW a \in AssetIds
               PROVE  outputs'[j][a] + Cardinality(Owing(j, a)') <= copies'[j] + crashes'
    BY DEF RecordsAreOwed
  <1> USE DEF Base
  <1>1. UNCHANGED <<tasks, worker, crashes>> BY DEF droneVars, historyVars
  <1>2. /\ outputs[j][a] \in Nat /\ copies[j] \in Nat /\ crashes \in Nat
        /\ 1 \in 1 .. MaxCopies
    BY JobApiAssumption DEF TypeOK, ApiTypeOK
  <1>3. \A v \in Workers : MayRecord(v, a)' <=> MayRecord(v, a)
    BY <1>1 DEF MayRecord
  <1>4. ASSUME NEW C, \A m \in submitted' : m.job = j => m \in submitted \/ m.copy \in C
        PROVE  Owing(j, a)' \subseteq Owing(j, a) \cup C
    BY <1>1, <1>3, <1>4, OwingWithin DEF Job
  <1>5. outputs'[j][a] <= outputs[j][a]
    <2>1. ASSUME NEW i \in Jobs, Remove(i) PROVE outputs'[j][a] <= outputs[j][a]
      BY <1>2, <2>1 DEF Remove, NoOutputs, TypeOK, ApiTypeOK
    <2>2. ASSUME NEW m \in Missions, RemoveMission(m) PROVE outputs'[j][a] <= outputs[j][a]
      BY <1>2, <2>2 DEF RemoveMission, NoOutputs
    <2>3. CASE UNCHANGED outputs BY <1>2, <2>3
    <2>4. QED
      BY <2>1, <2>2, <2>3
      DEF ApiNext, RequestStep, CreatePublish, CreateAbort, CreateCommit, CreateRollback,
          CancelSave, CreateCheck, CancelRead
  <1>6. ASSUME NEW r \in Requests, CreatePublish(r)
        PROVE  outputs'[j][a] + Cardinality(Owing(j, a)') <= copies'[j] + crashes'
    <2>1. PICK i, n : i = request[r].job /\ n = [job |-> i, copy |-> 1] OBVIOUS
    <2>2. /\ i \in Jobs /\ submitted' = submitted \cup {n}
          /\ copies' = [copies EXCEPT ![i] = 1] /\ n.job = i /\ n.copy = 1
      BY <1>6, <2>1 DEF CreatePublish, TypeOK, ApiTypeOK
    <2>3. copies[i] = 0
      BY <1>6, <2>1, <2>2
      DEF CreatePublish, RequestsHold, Creating, DeliveryInv, UnpublishedUncounted
    <2>4. CASE j = i
      <3>1. Owing(j, a)' \subseteq Owing(j, a) \cup {1} BY <1>4, <2>2
      <3>2. copies'[j] = copies[j] + 1 BY <2>2, <2>3, <2>4 DEF TypeOK, ApiTypeOK
      <3>3. QED BY <1>1, <1>2, <1>5, <3>1, <3>2, Balance
    <2>5. CASE j # i
      <3>1. Owing(j, a)' \subseteq Owing(j, a) \cup {} BY <1>4, <2>2, <2>5
      <3>2. copies'[j] = copies[j] BY <2>2, <2>5 DEF TypeOK, ApiTypeOK
      <3>3. QED BY <1>1, <1>2, <1>5, <3>1, <3>2, Balance
    <2>6. QED BY <2>4, <2>5
  <1>7. CASE UNCHANGED <<submitted, copies>>
    <2>1. Owing(j, a)' \subseteq Owing(j, a) \cup {} BY <1>4, <1>7
    <2>2. QED BY <1>1, <1>2, <1>5, <1>7, <2>1, Balance
  <1>8. QED
    BY <1>6, <1>7
    DEF ApiNext, RequestStep, CreateAbort, CreateCommit, CreateRollback, CancelSave,
        CreateCheck, CancelRead, Remove, RemoveMission

\* Retries never record an output twice: each delivery does it at most once,
\* and only the kill of a worker makes a delivery start over.
THEOREM DroneOutputsPerDelivery == Spec => []OutputsPerDelivery
  <1>1. Init => RecordsAreOwed
    <2> SUFFICES ASSUME Init, NEW j \in Jobs, NEW a \in AssetIds
                 PROVE  outputs[j][a] + Cardinality(Owing(j, a)) <= copies[j] + crashes
      BY DEF RecordsAreOwed
    <2>1. Owing(j, a) = {} BY DEF Init, ApiInit, Owing, MayRecord, NoRun
    <2>2. Cardinality(Owing(j, a)) = 0 BY <2>1, FS_EmptySet
    <2>3. outputs[j][a] = 0 /\ copies[j] = 0 /\ crashes = 0
      BY DEF Init, ApiInit, NoOutputs
    <2>4. QED BY <2>2, <2>3
  <1>2. Base /\ Base' /\ DeliveryInv /\ RecordsAreOwed /\ [Next]_vars => RecordsAreOwed'
    <2> SUFFICES ASSUME Base, Base', DeliveryInv, RecordsAreOwed, [Next]_vars
                 PROVE  RecordsAreOwed'
      OBVIOUS
    <2>1. CASE UNCHANGED <<submitted, tasks, worker, outputs, copies, crashes>>
      BY <2>1 DEF RecordsAreOwed, Owing, MayRecord, Job
    <2>2. ASSUME NEW w \in Workers, EngineStep(w)
          PROVE  UNCHANGED <<submitted, tasks, worker, outputs, copies, crashes>>
      BY <2>2 DEF EngineStep, NoApiChange, apiVars, historyVars
    <2>3. CASE UNCHANGED vars
      BY <2>1, <2>3 DEF vars, apiVars, droneVars, historyVars
    <2>4. QED
      BY <2>1, <2>2, <2>3, ApiOwing, ConsumerOwing, TakeOwing, RunOwing DEF Next
  <1>3. Base /\ RecordsAreOwed => OutputsPerDelivery
    <2> SUFFICES ASSUME Base, RecordsAreOwed, NEW j \in Jobs, NEW a \in AssetIds
                 PROVE  outputs[j][a] <= copies[j] + crashes
      BY DEF OutputsPerDelivery
    <2>1. Cardinality(Owing(j, a)) \in Nat BY OwingFinite
    <2>2. outputs[j][a] \in Nat /\ copies[j] \in Nat /\ crashes \in Nat
      BY DEF Base, TypeOK, ApiTypeOK
    <2>3. QED BY <2>1, <2>2 DEF RecordsAreOwed
  <1>4. QED BY <1>1, <1>2, <1>3, BaseInvariant, DeliveryInvariant, PTL DEF Spec

-----------------------------------------------------------------------------
(* Verdicts of a job that is delivered once.                                *)

\* A run past a COMPLETE write, one past a FAILED write, and what the row may say
\* then.
Settling(w) == worker[w].pc \in {"missionDone", "announce", "cleanup"}
Failing(w) == worker[w].pc \in {"failMission", "failAnnounce"}
Completed(j) == status[j] \in {"COMPLETE", "CANCELLED", "GONE"}
HasFailed(j) == status[j] \in {"FAILED", "CANCELLED", "GONE"}

\* A photogrammetry job delivered once, in a behaviour without kills.
Steady(j) == TypeOf[j] = "PHOTOGRAMMETRY" /\ copies[j] <= 1 /\ crashes = 0

\* Before its verdict a job has announced nothing and settled nothing; a run
\* past its verdict, and an announced verdict, are borne out by the row.
VerdictHolds(j) ==
  /\ copies[j] = 0 \/ status[j] = "UNUSED" \/ Pending(j) => announced[j] = {}
  /\ Pending(j) => status[j] \notin {"COMPLETE", "FAILED"}
  /\ \A w \in Workers : Job(w) = j =>
       /\ Settling(w) => Completed(j) /\ "failed" \notin announced[j]
       /\ Failing(w) => HasFailed(j) /\ "completed" \notin announced[j]
  /\ "completed" \in announced[j] => Completed(j)
  /\ "failed" \in announced[j] => HasFailed(j)

VerdictsHold == \A j \in Jobs : Steady(j) => VerdictHolds(j)

\* What the proofs about verdicts and stages rest on.
Sound == Base /\ LoadedJobsExist /\ DeliveryInv

\* Types, requests, loaded jobs and deliveries are as the lemmas need them.
THEOREM SoundInvariant == Spec => []Sound
  <1>1. Init => LoadedJobsExist
    BY DEF Init, ApiInit, LoadedJobsExist, NoRun
  <1>2. QED
    BY <1>1, LoadedStep, BaseInvariant, DeliveryInvariant, PTL DEF Spec, Sound

\* A job delivered once that a worker is running is nowhere else.
LEMMA SoleCarrier ==
  ASSUME Base, DeliveryInv, NEW w \in Running, copies[Job(w)] <= 1
  PROVE  /\ copies[Job(w)] = 1
         /\ \A m \in submitted : m.job # Job(w)
         /\ \A t \in tasks : t.job # Job(w)
         /\ \A v \in Running : Job(v) = Job(w) => v = w
  <1> USE DEF Base, DeliveryInv
  <1> DEFINE j == Job(w)
  <1>1. j \in Jobs /\ copies[j] \in Nat /\ worker[w].copy \in Nat \ {0}
    BY DeliveryTypes
  <1>2. worker[w].copy <= copies[j] BY DEF CopiesCounted, Running, Busy, Executing
  <1>3. worker[w].copy = 1 /\ copies[j] = 1 BY <1>1, <1>2
  <1>4. \A m \in submitted : m.job = j => m.copy = 1
    BY <1>3, DeliveryTypes DEF CopiesCounted
  <1>5. \A t \in tasks : t.job = j => t.copy = 1
    BY <1>3, DeliveryTypes DEF CopiesCounted
  <1>6. \A v \in Running : Job(v) = j => worker[v].copy = 1
    BY <1>3, DeliveryTypes DEF CopiesCounted
  <1>7. QED
    BY <1>3, <1>4, <1>5, <1>6 DEF UniqueDeliveries, SameDelivery, Job

\* Deliveries and kills are only ever added.
LEMMA CountsGrow ==
  ASSUME Base, DeliveryInv, [Next]_vars, NEW j \in Jobs
  PROVE  copies[j] <= copies'[j] /\ crashes <= crashes'
  <1> USE DEF Base
  <1>1. /\ copies \in [Jobs -> Nat] /\ crashes \in Nat
    BY DEF TypeOK, ApiTypeOK
  <1>2. copies[j] <= copies'[j]
    <2>1. [ApiNext \/ ServiceNext]_apiVars BY StepRefines
    <2>2. ASSUME NEW r \in Requests, CreatePublish(r) PROVE copies[j] <= copies'[j]
      <3>1. copies[request[r].job] = 0 /\ request[r].job \in Jobs
        BY <2>2
        DEF CreatePublish, RequestsHold, Creating, DeliveryInv, UnpublishedUncounted,
            TypeOK, ApiTypeOK
      <3>2. QED BY <1>1, <2>2, <3>1 DEF CreatePublish
    <2>3. ASSUME NEW i \in Jobs, CountCopy(i) PROVE copies[j] <= copies'[j]
      BY <1>1, <2>3 DEF CountCopy
    <2>4. ASSUME NEW m \in submitted, Redeliver(m) PROVE copies[j] <= copies'[j]
      BY <2>3, <2>4 DEF Redeliver, TypeOK, ApiTypeOK, Messages
    <2>5. CASE UNCHANGED copies BY <1>1, <2>5
    <2>6. QED
      BY <2>1, <2>2, <2>3, <2>4, <2>5
      DEF ApiNext, RequestStep, CreateAbort, CreateCommit, CreateRollback, CancelSave,
          CreateCheck, CancelRead, Remove, RemoveMission, ServiceNext, OnlyJob,
          OnlyMission, OnlyOutputs, apiVars
  <1>3. crashes <= crashes'
    <2>1. UNCHANGED crashes \/ crashes' = crashes + 1
      BY DEF Next, droneVars, vars, historyVars, ConsumerStep, Dispatch, Ignore,
         DispatchFails, DispatchTwice, Take, EngineStep, RunStep, FaultStep, LoadJob,
         SkipMissingJob, WriteInitializing, WriteMissionProcessing, Prepare,
         CreateEngineTask, WriteFeatureExtraction, PollRunning, PollDone, Download,
         SkipAsset, UploadAsset, RecordOutput, IngestDone, WriteComplete,
         WriteMissionCompleted, PublishCompleted, RemoveEngineTask, WriteFailed,
         WriteMissionFailed, PublishFailed, RaiseUncaught, RaiseCaught, AcknowledgeRetry,
         EngineUnavailable, RaiseBeforeLoad, ChildKilled, Crash, VisibilityTimeout
    <2>2. QED BY <1>1, <2>1
  <1>4. QED BY <1>2, <1>3

\* What the API does to a row: never a verdict, and never out of a settled row
\* except by cancelling or deleting it.
LEMMA ApiWrites ==
  ASSUME Base, ApiNext, NEW j \in Jobs
  PROVE  \/ status'[j] = status[j] \/ status'[j] \in {"CANCELLED", "GONE"}
         \/ status[j] = "UNUSED" /\ status'[j] = "SUBMITTED"
  <1> USE DEF Base, TypeOK, ApiTypeOK
  <1>1. ASSUME NEW r \in Requests, CreateCommit(r)
        PROVE  status'[j] = status[j] \/ (status[j] = "UNUSED" /\ status'[j] = "SUBMITTED")
    BY <1>1 DEF CreateCommit, RequestsHold, Creating
  <1>2. ASSUME NEW r \in Requests, CreateRollback(r) \/ CancelSave(r)
        PROVE  status'[j] = status[j] \/ status'[j] \in {"CANCELLED", "GONE"}
    BY <1>2 DEF CreateRollback, CancelSave
  <1>3. ASSUME NEW i \in Jobs, Remove(i)
        PROVE  status'[j] = status[j] \/ status'[j] \in {"CANCELLED", "GONE"}
    BY <1>3 DEF Remove
  <1>4. ASSUME NEW m \in Missions, RemoveMission(m)
        PROVE  status'[j] = status[j] \/ status'[j] \in {"CANCELLED", "GONE"}
    BY <1>4 DEF RemoveMission
  <1>5. QED
    BY <1>1, <1>2, <1>3, <1>4
    DEF ApiNext, RequestStep, CreatePublish, CreateAbort, CreateCheck, CancelRead

\* The API: a job that is published now has announced nothing yet.
LEMMA ApiVerdict ==
  ASSUME Sound, NEW j \in Jobs, VerdictHolds(j), [Next]_vars, ApiNext, UNCHANGED droneVars
  PROVE  VerdictHolds(j)'
  <1> USE DEF Sound
  <1>1. UNCHANGED <<tasks, worker, announced>> BY DEF droneVars
  <1>2. \/ status'[j] = status[j] \/ status'[j] \in {"CANCELLED", "GONE"}
        \/ status[j] = "UNUSED" /\ status'[j] = "SUBMITTED"
    BY ApiWrites
  <1>3. copies'[j] = 0 => copies[j] = 0
    BY CountsGrow, DeliveryTypes DEF Base, TypeOK, ApiTypeOK
  <1>4. status'[j] = "UNUSED" => status[j] = "UNUSED" BY NeverUnused
  <1>5. Pending(j)' => Pending(j) \/ (copies[j] = 0 /\ status[j] = "UNUSED" /\ UNCHANGED status)
    <2>1. ASSUME NEW r \in Requests, CreatePublish(r)
          PROVE  Pending(j)' =>
                   Pending(j) \/ (copies[j] = 0 /\ status[j] = "UNUSED" /\ UNCHANGED status)
      <3>1. CASE request[r].job = j
        BY <2>1, <3>1
        DEF CreatePublish, Base, RequestsHold, Creating, DeliveryInv, UnpublishedUncounted
      <3>2. CASE request[r].job # j
        BY <1>1, <2>1, <3>2 DEF CreatePublish, Pending, Job
      <3>3. QED BY <3>1, <3>2
    <2>2. CASE UNCHANGED submitted BY <1>1, <2>2 DEF Pending, Job
    <2>3. QED
      BY <2>1, <2>2
      DEF ApiNext, RequestStep, CreateAbort, CreateCommit, CreateRollback, CancelSave,
          CreateCheck, CancelRead, Remove, RemoveMission
  <1>6. copies'[j] = 0 \/ status'[j] = "UNUSED" \/ Pending(j)' => announced'[j] = {}
    BY <1>1, <1>3, <1>4, <1>5 DEF VerdictHolds
  <1>7. Pending(j)' => status'[j] \notin {"COMPLETE", "FAILED"}
    BY <1>2, <1>5 DEF VerdictHolds
  <1>8. (Completed(j) => Completed(j)') /\ (HasFailed(j) => HasFailed(j)')
    BY <1>2 DEF Completed, HasFailed
  <1>9. ASSUME NEW w \in Workers, worker'[w].job = j
        PROVE  /\ Settling(w)' => Completed(j)' /\ "failed" \notin announced'[j]
               /\ Failing(w)' => HasFailed(j)' /\ "completed" \notin announced'[j]
    BY <1>1, <1>8, <1>9 DEF VerdictHolds, Settling, Failing, Job
  <1>10. /\ "completed" \in announced'[j] => Completed(j)'
         /\ "failed" \in announced'[j] => HasFailed(j)'
    BY <1>1, <1>8 DEF VerdictHolds
  <1>11. QED BY <1>6, <1>7, <1>9, <1>10 DEF VerdictHolds, Job

\* A step that leaves job j's row, its verdicts and its workers alone, and makes
\* nothing of it pending that was not.
LEMMA AsideVerdict ==
  ASSUME Base, NEW j \in Jobs, VerdictHolds(j), [Next]_vars, DeliveryInv,
         status'[j] = status[j], announced'[j] = announced[j],
         Pending(j)' => Pending(j),
         \A w \in Workers :
           worker'[w].job = j /\ worker'[w].pc \in AfterVerdict => worker'[w] = worker[w]
  PROVE  VerdictHolds(j)'
  <1>1. copies'[j] = 0 => copies[j] = 0
    BY CountsGrow, DeliveryTypes DEF Base, TypeOK, ApiTypeOK
  <1>2. ASSUME NEW w \in Workers, worker'[w].job = j
        PROVE  /\ Settling(w)' => Completed(j)' /\ "failed" \notin announced'[j]
               /\ Failing(w)' => HasFailed(j)' /\ "completed" \notin announced'[j]
    <2>1. Settling(w)' \/ Failing(w)' => worker'[w] = worker[w]
      BY <1>2 DEF Settling, Failing, AfterVerdict
    <2>2. QED BY <1>2, <2>1 DEF VerdictHolds, Settling, Failing, Job, Completed, HasFailed
  <1>3. QED BY <1>1, <1>2 DEF VerdictHolds, Job, Completed, HasFailed

\* The queues.
LEMMA QueueVerdict ==
  ASSUME Sound, NEW j \in Jobs, VerdictHolds(j), [Next]_vars,
         \/ \E m \in submitted : ConsumerStep(m) \/ DispatchFails(m) \/ DispatchTwice(m)
         \/ \E w \in Workers, t \in tasks : Take(w, t)
         \/ \E w \in Workers : EngineStep(w)
         \/ UNCHANGED vars
  PROVE  VerdictHolds(j)'
  <1> USE DEF Sound
  <1>1. UNCHANGED <<status, announced>>
    BY DEF ConsumerStep, Dispatch, Ignore, DispatchFails, DispatchTwice, Take,
           EngineStep, OnlyQueue, NoApiChange, vars, apiVars, droneVars
  <1>2. ASSUME NEW m \in submitted, ConsumerStep(m) \/ DispatchFails(m) \/ DispatchTwice(m)
        PROVE  /\ Pending(j)' => Pending(j)
               /\ UNCHANGED worker
    <2>1. UNCHANGED worker
      BY <1>2 DEF ConsumerStep, Dispatch, Ignore, DispatchFails, DispatchTwice
    <2>2. /\ \A n \in submitted' : n \in submitted \/ n.job = m.job
          /\ \A t \in tasks' : t \in tasks \/ t.job = m.job
      BY <1>2
      DEF ConsumerStep, Dispatch, Ignore, DispatchFails, DispatchTwice, Consume,
          Redeliver, NewCopy, Task
    <2>3. QED BY <2>1, <2>2 DEF Pending, Job
  <1>3. ASSUME NEW w \in Workers, NEW t \in tasks, Take(w, t)
        PROVE  /\ Pending(j)' => Pending(j)
               /\ \A v \in Workers : worker'[v].pc \in AfterVerdict => worker'[v] = worker[v]
    <2>1. /\ worker'[w].pc = "load" /\ worker'[w].job = t.job
          /\ \A v \in Workers \ {w} : worker'[v] = worker[v]
          /\ tasks' \subseteq tasks /\ UNCHANGED submitted
      BY <1>3 DEF Take, Base, TypeOK, NoApiChange, apiVars
    <2>2. QED BY <2>1 DEF Pending, Job, AfterVerdict
  <1>4. CASE UNCHANGED <<submitted, tasks, worker>>
    BY <1>1, <1>4, AsideVerdict DEF Pending, Job
  <1>5. QED
    BY <1>1, <1>2, <1>3, <1>4, AsideVerdict
    DEF EngineStep, NoApiChange, apiVars, vars, droneVars

\* What a run announces and queues is about its own job, and it announces only
\* at the step for that.
LEMMA RunAnnounces ==
  ASSUME Base, NEW w \in Workers, RunStep(w) \/ FaultStep(w)
  PROVE  /\ \/ UNCHANGED announced
            \/ worker[w].pc = "announce" /\ Announce(w, "completed")
            \/ worker[w].pc = "failAnnounce" /\ Announce(w, "failed")
         /\ \A t \in tasks' : t \in tasks \/ t.job = Job(w)
         /\ \/ UNCHANGED tasks \/ Crash(w) \/ VisibilityTimeout(w)
            \/ worker[w].pc \in RetryPoints
  <1>1. \/ UNCHANGED announced
        \/ worker[w].pc = "announce" /\ Announce(w, "completed")
        \/ worker[w].pc = "failAnnounce" /\ Announce(w, "failed")
    BY DEF RunStep, FaultStep, LoadJob, SkipMissingJob, WriteInitializing,
       WriteMissionProcessing, Prepare, CreateEngineTask, WriteFeatureExtraction,
       PollRunning, PollDone, Download, SkipAsset, UploadAsset, RecordOutput, IngestDone,
       WriteComplete, WriteMissionCompleted, PublishCompleted, RemoveEngineTask,
       WriteFailed, WriteMissionFailed, PublishFailed, RaiseUncaught, RaiseCaught,
       AcknowledgeRetry,
       EngineUnavailable, RaiseBeforeLoad, ChildKilled, Crash, VisibilityTimeout, InDoubt, At
  <1>2. \/ UNCHANGED tasks
        \/ Crash(w) /\ \E r : Requeue(w, r)
        \/ /\ Crash(w) \/ VisibilityTimeout(w)
           /\ \E r : tasks' = tasks \cup {Task(NewCopy(Job(w)), r)}
        \/ worker[w].pc \in RetryPoints /\ \E r : Requeue(w, r)
    BY DEF RunStep, FaultStep, LoadJob, SkipMissingJob, WriteInitializing,
       WriteMissionProcessing, Prepare, CreateEngineTask, WriteFeatureExtraction,
       PollRunning, PollDone, Download, SkipAsset, UploadAsset, RecordOutput, IngestDone,
       WriteComplete, WriteMissionCompleted, PublishCompleted, RemoveEngineTask,
       WriteFailed, WriteMissionFailed, PublishFailed, RaiseUncaught, RaiseCaught,
       AcknowledgeRetry,
       EngineUnavailable, RaiseBeforeLoad, ChildKilled, Crash, VisibilityTimeout
  <1>3. QED BY <1>1, <1>2 DEF Requeue, Task, NewCopy, Job

LEMMA OtherVerdict ==
  ASSUME Sound, NEW j \in Jobs, VerdictHolds(j), [Next]_vars, NEW w \in Workers,
         RunStep(w) \/ FaultStep(w), j # Job(w)
  PROVE  VerdictHolds(j)'
  <1> USE DEF Sound
  <1>1. /\ status'[j] = status[j] /\ UNCHANGED submitted
        /\ \A v \in Workers \ {w} : worker'[v] = worker[v]
        /\ worker'[w].job = Job(w) \/ worker'[w].pc = "idle"
    BY RunIsLocal DEF Base
  <1>2. announced'[j] = announced[j] BY RunAnnounces DEF Announce, Base, TypeOK
  <1>3. Pending(j)' => Pending(j)
    BY <1>1, RunAnnounces DEF Pending, Job, BeforeVerdict
  <1>4. \A v \in Workers :
          worker'[v].job = j /\ worker'[v].pc \in AfterVerdict => worker'[v] = worker[v]
    BY <1>1 DEF AfterVerdict
  <1>5. QED BY <1>1, <1>2, <1>3, <1>4, AsideVerdict

\* The moves of a run around its verdict, for a photogrammetry job.
LEMMA RunMoves ==
  ASSUME Base, NEW w \in Workers, RunStep(w) \/ FaultStep(w),
         TypeOf[Job(w)] = "PHOTOGRAMMETRY"
  PROVE  /\ Settling(w)' => WriteComplete(w) \/ (Settling(w) /\ UNCHANGED status)
         /\ Failing(w)' => WriteFailed(w) \/ (Failing(w) /\ UNCHANGED status)
         /\ worker'[w].pc \in BeforeVerdict =>
              /\ worker[w].pc \in BeforeVerdict
              /\ \/ UNCHANGED status
                 \/ \E s \in RunningStatuses : WriteStatus(w, s)
         /\ UNCHANGED status \/ worker[w].pc \in BeforeVerdict
  <1> USE DEF Base, TypeOK
  <1> DEFINE Goal ==
        /\ Settling(w)' => WriteComplete(w) \/ (Settling(w) /\ UNCHANGED status)
        /\ Failing(w)' => WriteFailed(w) \/ (Failing(w) /\ UNCHANGED status)
        /\ worker'[w].pc \in BeforeVerdict =>
             /\ worker[w].pc \in BeforeVerdict
             /\ \/ UNCHANGED status
                \/ \E s \in RunningStatuses : WriteStatus(w, s)
        /\ UNCHANGED status \/ worker[w].pc \in BeforeVerdict
  <1>1. ASSUME Finish(w), UNCHANGED status \/ worker[w].pc \in BeforeVerdict PROVE Goal
    BY <1>1 DEF Finish, NoRun, Settling, Failing, BeforeVerdict
  <1>2. ASSUME NEW pc \in BeforeVerdict, worker'[w].pc = pc, worker[w].pc \in BeforeVerdict,
               \/ UNCHANGED status
               \/ \E s \in RunningStatuses : WriteStatus(w, s)
        PROVE  Goal
    BY <1>2 DEF Settling, Failing, BeforeVerdict
  <1>3. CASE \/ LoadJob(w) \/ WriteMissionProcessing(w) \/ Prepare(w) \/ CreateEngineTask(w)
             \/ PollDone(w) \/ UploadAsset(w) \/ IngestDone(w)
    <2>1. /\ worker[w].pc \in BeforeVerdict /\ UNCHANGED status
          /\ \E pc \in BeforeVerdict : GoTo(w, pc)
      BY <1>3
      DEF LoadJob, WriteMissionProcessing, Prepare, CreateEngineTask, PollDone,
          UploadAsset, IngestDone, At, BeforeVerdict, NoApiChange, OnlyMission, apiVars
    <2>2. worker'[w].pc \in BeforeVerdict BY <2>1 DEF GoTo, Runs
    <2>3. QED BY <1>2, <2>1, <2>2
  <1>4. CASE WriteInitializing(w) \/ WriteFeatureExtraction(w)
    <2>1. /\ worker[w].pc \in BeforeVerdict
          /\ \E s \in RunningStatuses : WriteStatus(w, s)
          /\ \E pc \in BeforeVerdict : GoTo(w, pc)
      BY <1>4 DEF WriteInitializing, WriteFeatureExtraction, At, BeforeVerdict, RunningStatuses
    <2>2. worker'[w].pc \in BeforeVerdict BY <2>1 DEF GoTo, Runs
    <2>3. QED BY <1>2, <2>1, <2>2
  <1>5. CASE PollRunning(w)
    <2>1. /\ worker[w].pc \in BeforeVerdict /\ UNCHANGED worker
          /\ \E s \in RunningStatuses : WriteStatus(w, s)
      BY <1>5, StageTypes DEF PollRunning, At, BeforeVerdict
    <2>2. QED BY <1>2, <2>1
  <1>6. CASE Download(w) \/ SkipAsset(w) \/ RecordOutput(w)
    <2>1. worker[w].pc \in BeforeVerdict /\ UNCHANGED status
      BY <1>6 DEF Download, SkipAsset, RecordOutput, At, BeforeVerdict, NoApiChange,
                  OnlyOutputs, apiVars
    <2>2. worker'[w].pc \in {"ingest", "fail"}
      BY <1>6 DEF Download, SkipAsset, RecordOutput, At, GoTo, Runs
    <2>3. QED BY <1>2, <2>1, <2>2 DEF BeforeVerdict
  <1>7. CASE WriteComplete(w)
    <2>1. worker'[w].pc = "missionDone" /\ worker[w].pc = "complete"
      BY <1>7 DEF WriteComplete, GoTo, At, Runs
    <2>2. QED BY <1>7, <2>1 DEF Settling, Failing, BeforeVerdict
  <1>8. CASE WriteFailed(w)
    <2>1. worker'[w].pc = "failMission" /\ worker[w].pc = "fail"
      BY <1>8 DEF WriteFailed, GoTo, At, Runs
    <2>2. QED BY <1>8, <2>1 DEF Settling, Failing, BeforeVerdict
  <1>9. CASE WriteMissionCompleted(w) \/ PublishCompleted(w)
    <2>1. Settling(w) /\ UNCHANGED status
      BY <1>9 DEF WriteMissionCompleted, PublishCompleted, At, Settling, OnlyMission,
                  NoApiChange, apiVars
    <2>2. worker'[w].pc \in {"announce", "cleanup"}
      BY <1>9 DEF WriteMissionCompleted, PublishCompleted, GoTo, Runs
    <2>3. QED BY <2>1, <2>2 DEF Settling, Failing, BeforeVerdict
  <1>10. CASE WriteMissionFailed(w)
    <2>1. Failing(w) /\ UNCHANGED status
      BY <1>10 DEF WriteMissionFailed, At, Failing, OnlyMission
    <2>2. worker'[w].pc = "failAnnounce"
      BY <1>10 DEF WriteMissionFailed, GoTo, Runs
    <2>3. QED BY <2>1, <2>2 DEF Settling, Failing, BeforeVerdict
  <1>11. CASE VisibilityTimeout(w)
    <2>1. UNCHANGED <<worker, status>> BY <1>11 DEF VisibilityTimeout, OnlyQueue
    <2>2. QED BY <2>1 DEF Settling, Failing
  <1>12. CASE \/ SkipMissingJob(w) \/ RemoveEngineTask(w) \/ PublishFailed(w)
              \/ RaiseUncaught(w) \/ ChildKilled(w) \/ Crash(w) \/ AcknowledgeRetry(w)
    BY <1>1, <1>12
    DEF SkipMissingJob, RemoveEngineTask, PublishFailed, RaiseUncaught, ChildKilled,
        Crash, AcknowledgeRetry, NoApiChange, OnlyQueue, apiVars
  <1>13. CASE RaiseCaught(w) \/ RaiseBeforeLoad(w)
    BY <1>13 DEF RaiseCaught, RaiseBeforeLoad, IsGcp
  <1>14. CASE EngineUnavailable(w)
    <2>1. UNCHANGED status BY <1>14 DEF EngineUnavailable, NoApiChange, apiVars
    <2>2. ASSUME GoTo(w, "retried") PROVE Goal
      <3>1. worker'[w].pc = "retried" BY <2>2 DEF GoTo, Runs
      <3>2. QED BY <2>1, <3>1 DEF Settling, Failing, BeforeVerdict
    <2>3. QED BY <1>1, <1>14, <2>1, <2>2 DEF EngineUnavailable
  <1>15. QED
    BY <1>3, <1>4, <1>5, <1>6, <1>7, <1>8, <1>9, <1>10, <1>11, <1>12, <1>13, <1>14
    DEF RunStep, FaultStep

\* A run of the job that has published its retry, and waits to be acknowledged.
LEMMA RetriedVerdict ==
  ASSUME Sound, NEW w \in Workers, NEW j \in Jobs, j = Job(w), Steady(j), Steady(j)',
         VerdictHolds(j), [Next]_vars, RunStep(w) \/ FaultStep(w),
         worker[w].pc = "retried"
  PROVE  VerdictHolds(j)'
  <1> USE DEF Sound
  <1>1. /\ UNCHANGED <<status, announced>>
        /\ worker'[w].pc \in {"idle", "retried"}
        /\ \A v \in Workers \ {w} : worker'[v] = worker[v]
        /\ UNCHANGED submitted
    BY RunIsLocal, RetriedIsOver DEF Base
  <1>2. copies[j] = 1
    <2>1. w \in Busy BY DEF Busy
    <2>2. worker[w].copy <= copies[j] /\ worker[w].copy \in Nat \ {0} /\ copies[j] \in Nat
      BY <2>1, DeliveryTypes DEF DeliveryInv, CopiesCounted, Base
    <2>3. QED BY <2>2 DEF Steady
  <1>3. UNCHANGED tasks
    <2>1. ~Crash(w) BY DEF Crash, Steady
    <2>2. VisibilityTimeout(w) => copies'[j] = copies[j] + 1
      BY DEF VisibilityTimeout, CountCopy, Base, TypeOK, ApiTypeOK
    <2>3. ~VisibilityTimeout(w) BY <1>2, <2>2 DEF Steady
    <2>4. QED BY <2>1, <2>3, RunAnnounces DEF RetryPoints
  <1>4. Pending(j)' => Pending(j)
    BY <1>1, <1>3 DEF Pending, Job, BeforeVerdict
  <1>5. \A v \in Workers :
          worker'[v].job = j /\ worker'[v].pc \in AfterVerdict => worker'[v] = worker[v]
    BY <1>1 DEF AfterVerdict
  <1>6. QED BY <1>1, <1>4, <1>5, AsideVerdict

\* A run of the job itself, the only one while the job is delivered once.
LEMMA OwnVerdict ==
  ASSUME Sound, NEW w \in Workers, NEW j \in Jobs, j = Job(w), Steady(j), Steady(j)',
         VerdictHolds(j), [Next]_vars, RunStep(w) \/ FaultStep(w),
         worker[w].pc # "retried"
  PROVE  VerdictHolds(j)'
  <1> USE DEF Sound
  <1>1. /\ w \in Running
        /\ \A v \in Workers \ {w} : worker'[v] = worker[v]
        /\ worker'[w].job = j \/ worker'[w].pc = "idle"
        /\ UNCHANGED submitted
    BY RunIsLocal, StepperRuns DEF Base
  <1>2. /\ copies[j] = 1
        /\ \A m \in submitted : m.job # j
        /\ \A t \in tasks : t.job # j
        /\ \A v \in Running : Job(v) = j => v = w
    BY <1>1, SoleCarrier DEF Steady
  <1>3. copies'[j] # 0
    BY <1>2, CountsGrow DEF Base, TypeOK, ApiTypeOK
  <1>4. \A v \in Workers :
          worker'[v].job = j /\ worker'[v].pc \notin {"idle", "retried"} => v = w
    BY <1>1, <1>2 DEF Running, Executing, Job
  <1>5. ~Crash(w) /\ ~VisibilityTimeout(w)
    <2>1. ~Crash(w) BY DEF Crash, Steady
    <2>2. VisibilityTimeout(w) => copies'[j] = copies[j] + 1
      BY DEF VisibilityTimeout, CountCopy, Base, TypeOK, ApiTypeOK
    <2>3. QED BY <1>2, <2>1, <2>2 DEF Steady
  <1>6. \/ UNCHANGED announced
        \/ worker[w].pc = "announce" /\ Announce(w, "completed")
        \/ worker[w].pc = "failAnnounce" /\ Announce(w, "failed")
    BY RunAnnounces
  <1>7. /\ Settling(w)' => WriteComplete(w) \/ (Settling(w) /\ UNCHANGED status)
        /\ Failing(w)' => WriteFailed(w) \/ (Failing(w) /\ UNCHANGED status)
        /\ worker'[w].pc \in BeforeVerdict =>
             /\ worker[w].pc \in BeforeVerdict
             /\ \/ UNCHANGED status
                \/ \E s \in RunningStatuses : WriteStatus(w, s)
        /\ UNCHANGED status \/ worker[w].pc \in BeforeVerdict
    BY RunMoves DEF Steady
  <1>8. worker[w].pc # "load" => status'[j] # "UNUSED"
    BY <1>1, NeverUnused DEF LoadedJobsExist, Running, Executing
  <1>9. CASE worker[w].pc \in BeforeVerdict
    <2>1. Pending(j) BY <1>1, <1>9 DEF Pending, Running
    <2>2. announced[j] = {} /\ status[j] \notin {"COMPLETE", "FAILED"}
      BY <2>1 DEF VerdictHolds
    <2>3. announced'[j] = {}
      BY <1>6, <1>9, <2>2 DEF BeforeVerdict
    <2>4. ASSUME NEW s \in RunningStatuses, WriteStatus(w, s)
          PROVE  status'[j] \notin {"COMPLETE", "FAILED"}
      <3>1. s \notin {"COMPLETE", "FAILED"} BY DEF RunningStatuses
      <3>2. QED BY <2>2, <2>4, <3>1 DEF WriteStatus, UpdateJobStatus, Base, TypeOK, ApiTypeOK
    <2>5. CASE worker'[w].pc \in BeforeVerdict
      <3>1. status'[j] \notin {"COMPLETE", "FAILED"} BY <1>7, <2>2, <2>4, <2>5
      <3>2. ASSUME NEW v \in Workers, worker'[v].job = j PROVE ~Settling(v)' /\ ~Failing(v)'
        BY <1>4, <2>5, <3>2 DEF Settling, Failing, BeforeVerdict
      <3>3. QED BY <2>3, <3>1, <3>2 DEF VerdictHolds, Job
    <2>6. CASE worker'[w].pc \notin BeforeVerdict
      <3>1. Pending(j)' => worker[w].pc \in RetryPoints /\ UNCHANGED status
        <4>1. \A v \in Workers : ~(worker'[v].job = j /\ worker'[v].pc \in BeforeVerdict)
          BY <1>4, <2>6 DEF BeforeVerdict
        <4>2. UNCHANGED tasks \/ worker[w].pc \in RetryPoints
          BY <1>5, RunAnnounces
        <4>3. CASE UNCHANGED tasks
          BY <1>1, <1>2, <4>1, <4>3 DEF Pending, Job
        <4>4. CASE ~UNCHANGED tasks
          <5>1. EngineUnavailable(w)
            BY <1>5, <4>4
            DEF RunStep, FaultStep, LoadJob, SkipMissingJob, WriteInitializing,
                WriteMissionProcessing, Prepare, CreateEngineTask, WriteFeatureExtraction,
                PollRunning, PollDone, Download, SkipAsset, UploadAsset, RecordOutput,
                IngestDone, WriteComplete, WriteMissionCompleted, PublishCompleted,
                RemoveEngineTask, WriteFailed, WriteMissionFailed, PublishFailed,
                RaiseUncaught, RaiseCaught, AcknowledgeRetry, RaiseBeforeLoad, ChildKilled
          <5>2. QED BY <5>1 DEF EngineUnavailable, NoApiChange, apiVars
        <4>5. QED BY <4>3, <4>4
      <3>2. Pending(j)' => status'[j] \notin {"COMPLETE", "FAILED"}
        BY <2>2, <3>1
      <3>3. ASSUME NEW v \in Workers, worker'[v].job = j
            PROVE  /\ Settling(v)' => status'[j] \in {"COMPLETE", "CANCELLED", "GONE"}
                   /\ Failing(v)' => status'[j] \in {"FAILED", "CANCELLED", "GONE"}
        <4>1. Settling(v)' \/ Failing(v)' => v = w
          BY <1>4, <3>3 DEF Settling, Failing
        <4>2. Settling(w)' => WriteComplete(w)
          BY <1>7, <1>9 DEF Settling, BeforeVerdict
        <4>3. Failing(w)' => WriteFailed(w)
          BY <1>7, <1>9 DEF Failing, BeforeVerdict
        <4>4. ASSUME NEW s, WriteStatus(w, s), worker[w].pc # "load"
              PROVE  status'[j] \in {s, "GONE"}
          BY <1>8, <4>4
          DEF WriteStatus, UpdateJobStatus, RowExists, NoRow, Base, TypeOK, ApiTypeOK
        <4>5. WriteComplete(w) => status'[j] \in {"COMPLETE", "GONE"}
          BY <4>4 DEF WriteComplete, At
        <4>6. WriteFailed(w) => status'[j] \in {"FAILED", "GONE"}
          BY <4>4 DEF WriteFailed, At
        <4>7. QED BY <4>1, <4>2, <4>3, <4>5, <4>6
      <3>4. QED BY <2>3, <3>2, <3>3 DEF VerdictHolds, Job, Completed, HasFailed
    <2>7. QED BY <2>5, <2>6
  <1>10. CASE worker[w].pc \notin BeforeVerdict
    <2>1. UNCHANGED status /\ worker'[w].pc \notin BeforeVerdict BY <1>7, <1>10
    <2>2. UNCHANGED tasks
      BY <1>5, <1>10, RunAnnounces DEF RetryPoints, BeforeVerdict
    <2>3. ~Pending(j)'
      BY <1>1, <1>2, <1>4, <2>1, <2>2 DEF Pending, Job, BeforeVerdict
    <2>4. status'[j] # "UNUSED" BY <1>8, <1>10 DEF BeforeVerdict
    <2>5. announced \in [Jobs -> SUBSET Verdicts] BY DEF Base, TypeOK
    <2>6. /\ Settling(w) => Completed(j) /\ "failed" \notin announced[j]
          /\ Failing(w) => HasFailed(j) /\ "completed" \notin announced[j]
      BY DEF VerdictHolds
    <2>7. /\ Settling(w)' => Settling(w)
          /\ Failing(w)' => Failing(w)
      BY <1>7, <1>10 DEF WriteComplete, WriteFailed, At, BeforeVerdict
    <2>8. /\ "completed" \in announced'[j] => "completed" \in announced[j] \/ Settling(w)
          /\ "failed" \in announced'[j] => "failed" \in announced[j] \/ Failing(w)
          /\ Settling(w) => ("failed" \in announced'[j] => "failed" \in announced[j])
          /\ Failing(w) => ("completed" \in announced'[j] => "completed" \in announced[j])
      BY <1>6, <2>5 DEF Announce, Settling, Failing
    <2>9. ASSUME NEW v \in Workers, worker'[v].job = j
          PROVE  /\ Settling(v)' => Completed(j)' /\ "failed" \notin announced'[j]
                 /\ Failing(v)' => HasFailed(j)' /\ "completed" \notin announced'[j]
      <3>1. Settling(v)' \/ Failing(v)' => v = w
        BY <1>4, <2>9 DEF Settling, Failing
      <3>2. QED BY <2>1, <2>6, <2>7, <2>8, <3>1 DEF Completed, HasFailed
    <2>10. /\ "completed" \in announced'[j] => Completed(j)'
           /\ "failed" \in announced'[j] => HasFailed(j)'
      BY <2>1, <2>6, <2>8 DEF VerdictHolds, Completed, HasFailed
    <2>11. QED BY <1>3, <2>3, <2>4, <2>9, <2>10 DEF VerdictHolds, Job
  <1>11. QED BY <1>9, <1>10

LEMMA VerdictStep == Sound /\ VerdictsHold /\ [Next]_vars => VerdictsHold'
  <1> SUFFICES ASSUME Sound, VerdictsHold, [Next]_vars, NEW j \in Jobs, Steady(j)'
               PROVE  VerdictHolds(j)'
    BY DEF VerdictsHold
  <1>1. Steady(j)
    <2>1. copies[j] <= copies'[j] /\ crashes <= crashes' BY CountsGrow DEF Sound
    <2>2. copies[j] \in Nat /\ crashes \in Nat BY DEF Sound, Base, TypeOK, ApiTypeOK
    <2>3. copies'[j] \in Nat
      BY StepTypes DEF Sound, Base, TypeOK, ApiTypeOK
    <2>4. QED BY <2>1, <2>2, <2>3 DEF Steady
  <1>2. VerdictHolds(j) BY <1>1 DEF VerdictsHold
  <1>3. ASSUME NEW w \in Workers, RunStep(w) \/ FaultStep(w) PROVE VerdictHolds(j)'
    BY <1>1, <1>2, <1>3, OtherVerdict, OwnVerdict, RetriedVerdict
  <1>4. QED BY <1>2, <1>3, ApiVerdict, QueueVerdict DEF Next

\* The verdicts of every job delivered once are borne out, run by run.
THEOREM VerdictInvariant == Spec => []VerdictsHold
  <1>1. Init => VerdictsHold
    BY DEF Init, ApiInit, VerdictsHold, VerdictHolds, Pending, Job, NoRun, Settling,
           Failing, BeforeVerdict
  <1>2. QED BY <1>1, VerdictStep, SoundInvariant, PTL DEF Spec

\* Delivered once and never restarted, a photogrammetry job announces a verdict
\* that its row bears out, unless the row was cancelled or deleted.
THEOREM DroneVerdicts == Spec => []VerdictMatchesRow
  <1>1. VerdictsHold => VerdictMatchesRow
    BY DEF VerdictsHold, VerdictHolds, Steady, VerdictMatchesRow, Completed, HasFailed
  <1>2. QED BY <1>1, VerdictInvariant, PTL

\* A photogrammetry job delivered once and never restarted leaves COMPLETE only
\* through a cancellation that had read it before, or by being deleted.
THEOREM DroneCompleteIsFinal == Spec => CompleteIsFinal
  <1> DEFINE Final ==
        \A j \in Jobs :
          TypeOf[j] = "PHOTOGRAMMETRY" /\ copies[j] = 1 /\ crashes = 0
            /\ status[j] = "COMPLETE"
            => status'[j] \in {"COMPLETE", "CANCELLED", "GONE"}
  <1>1. Sound /\ VerdictsHold /\ [Next]_vars => Final
    <2> SUFFICES ASSUME Sound, VerdictsHold, [Next]_vars, NEW j \in Jobs, Steady(j),
                        status[j] = "COMPLETE", status'[j] # "COMPLETE"
                 PROVE  status'[j] \in {"CANCELLED", "GONE"}
      BY DEF Steady
    <2> USE DEF Sound
    <2>1. ~Pending(j) BY DEF VerdictsHold, VerdictHolds
    <2>2. ASSUME NEW w \in Workers, RunStep(w) \/ FaultStep(w) PROVE FALSE
      <3>1. Job(w) = j /\ w \in Running
        BY <2>2, RunIsLocal, RetriedIsOver, StepperRuns DEF Base
      <3>2. worker[w].pc \in BeforeVerdict
        BY <2>2, <3>1, RunMoves DEF Steady
      <3>3. QED BY <2>1, <3>1, <3>2 DEF Pending, Running
    <2>3. CASE ApiNext BY <2>3, ApiWrites
    <2>4. QED
      BY <2>2, <2>3
      DEF Next, ConsumerStep, Dispatch, Ignore, DispatchFails, DispatchTwice, Take,
          EngineStep, OnlyQueue, NoApiChange, vars, apiVars
  <1>2. QED BY <1>1, VerdictInvariant, SoundInvariant, PTL DEF Spec, CompleteIsFinal

-----------------------------------------------------------------------------
(* The order of the stages.                                                 *)

\* A run that has been initialised has its job at INITIALIZING or beyond, and
\* never beyond the stage it is about to write.
StageHolds(w) ==
  /\ worker[w].pc \in {"mission", "prepare", "submit", "stage"} =>
       status[Job(w)] = "INITIALIZING"
  /\ worker[w].pc = "poll" => StageRank(status[Job(w)]) <= StageRank(StageOf(w))

StagesHold ==
  \A w \in Running :
    copies[Job(w)] = 1 /\ status[Job(w)] \in ActiveStatuses => StageHolds(w)

\* The ranks of the stages, by evaluation.
LEMMA Ranks ==
  /\ StageRank("SUBMITTED") = 0
  /\ StageRank("INITIALIZING") = 1
  /\ StageRank("FEATURE_EXTRACTION") = 2
  /\ StageRank("POINT_CLOUD_GENERATION") = 3
  /\ StageRank("SURFACE_RECONSTRUCTION") = 4
  /\ StageRank("ORTHOMOSAIC_GENERATION") = 5
  /\ StageRank("POST_PROCESSING") = 6
  <1>1. /\ DOMAIN PipelineStages = 1 .. 6
        /\ PipelineStages[1] = "INITIALIZING" /\ PipelineStages[2] = "FEATURE_EXTRACTION"
        /\ PipelineStages[3] = "POINT_CLOUD_GENERATION"
        /\ PipelineStages[4] = "SURFACE_RECONSTRUCTION"
        /\ PipelineStages[5] = "ORTHOMOSAIC_GENERATION"
        /\ PipelineStages[6] = "POST_PROCESSING"
    BY DEF PipelineStages
  <1>2. ASSUME NEW k \in 1 .. 6
        PROVE  (CHOOSE i \in DOMAIN PipelineStages : PipelineStages[i] = PipelineStages[k]) = k
    <2>1. \A i \in 1 .. 6 : PipelineStages[i] = PipelineStages[k] => i = k
      BY <1>1
    <2>2. QED BY <1>1, <2>1
  <1>3. StageRank("SUBMITTED") = 0 BY DEF StageRank
  <1>4. \A k \in 1 .. 6 : StageRank(PipelineStages[k]) = k
    <2> SUFFICES ASSUME NEW k \in 1 .. 6 PROVE StageRank(PipelineStages[k]) = k
      OBVIOUS
    <2>1. PipelineStages[k] # "SUBMITTED" BY <1>1
    <2>2. QED BY <1>2, <2>1 DEF StageRank
  <1>5. QED
    <2>1. {1, 2, 3, 4, 5, 6} = 1 .. 6 OBVIOUS
    <2>2. /\ StageRank(PipelineStages[1]) = 1 /\ StageRank(PipelineStages[2]) = 2
          /\ StageRank(PipelineStages[3]) = 3 /\ StageRank(PipelineStages[4]) = 4
          /\ StageRank(PipelineStages[5]) = 5 /\ StageRank(PipelineStages[6]) = 6
      BY <1>4, <2>1
    <2>3. QED BY <1>1, <1>3, <2>2

\* Which stage a figure stands for: the first row of the table it is below.
LEMMA Stages ==
  ASSUME NEW p \in 0 .. 100
  PROVE  StageForProgress(p) =
           IF p < 15 THEN "FEATURE_EXTRACTION"
           ELSE IF p < 45 THEN "POINT_CLOUD_GENERATION"
           ELSE IF p < 65 THEN "SURFACE_RECONSTRUCTION"
           ELSE IF p < 85 THEN "ORTHOMOSAIC_GENERATION" ELSE "POST_PROCESSING"
  <1> DEFINE reached == {i \in DOMAIN ProgressStages : p < ProgressStages[i].below}
             first == CHOOSE i \in reached : \A k \in reached : i <= k
             n == IF p < 15 THEN 1 ELSE IF p < 45 THEN 2 ELSE IF p < 65 THEN 3
                  ELSE IF p < 85 THEN 4 ELSE 5
  <1>1. /\ DOMAIN ProgressStages = 1 .. 5
        /\ ProgressStages[1].below = 15 /\ ProgressStages[1].stage = "FEATURE_EXTRACTION"
        /\ ProgressStages[2].below = 45 /\ ProgressStages[2].stage = "POINT_CLOUD_GENERATION"
        /\ ProgressStages[3].below = 65 /\ ProgressStages[3].stage = "SURFACE_RECONSTRUCTION"
        /\ ProgressStages[4].below = 85 /\ ProgressStages[4].stage = "ORTHOMOSAIC_GENERATION"
        /\ ProgressStages[5].below = 101 /\ ProgressStages[5].stage = "POST_PROCESSING"
    BY DEF ProgressStages
  <1>2. n \in reached /\ \A k \in reached : n <= k BY <1>1
  <1>3. first = n
    <2>1. reached \subseteq Nat BY <1>1
    <2>2. \A i \in reached : (\A k \in reached : i <= k) => i = n BY <1>2, <2>1
    <2> HIDE DEF reached, n
    <2>3. QED BY <1>2, <2>2
  <1>4. StageForProgress(p) = ProgressStages[first].stage
    BY <1>2 DEF StageForProgress
  <1>5. StageForProgress(p) = ProgressStages[n].stage BY <1>3, <1>4
  <1> HIDE DEF reached, first
  <1>6. QED BY <1>1, <1>5

\* More progress is never an earlier stage, and none is before the extraction.
LEMMA StagesGrow ==
  ASSUME NEW p \in 0 .. 100, NEW q \in 0 .. 100, p <= q
  PROVE  /\ StageRank(StageForProgress(p)) \in 2 .. 6
         /\ StageRank(StageForProgress(p)) <= StageRank(StageForProgress(q))
  BY Stages, Ranks

\* The stage a run is about to write has a rank; it grows with the engine.
LEMMA StageOfRanks ==
  ASSUME TypeOK, NEW w \in Workers
  PROVE  StageRank(StageOf(w)) \in 2 .. 6
  <1>1. engine[w].progress \in 0 .. 100 BY DEF TypeOK, EngineTasks
  <1> DEFINE p == engine[w].progress
  <1>a. StageRank(StageForProgress(p)) \in 2 .. 6
    <2> HIDE DEF p
    <2>1. p \in 0 .. 100 BY <1>1 DEF p
    <2>2. p <= p BY <2>1
    <2>3. QED BY <2>1, <2>2, StagesGrow
  <1>2. CASE IsGcp(w) BY <1>2, Ranks DEF StageOf
  <1>3. CASE ~IsGcp(w)
    <2>1. StageOf(w) = StageForProgress(p) BY <1>3 DEF StageOf
    <2>2. QED BY <1>a, <2>1
  <1>4. QED BY <1>2, <1>3

LEMMA ActiveRanks ==
  ASSUME NEW s \in ActiveStatuses
  PROVE  StageRank(s) \in 0 .. 6
  BY Ranks DEF ActiveStatuses, RunningStatuses

\* A worker that stays where it is keeps its stage: only the engine, by
\* getting on, and its own polling, by writing the stage, can touch it.
LEMMA StageKept ==
  ASSUME Sound, Sound', StagesHold, [Next]_vars, NEW v \in Running, worker'[v] = worker[v],
         copies'[Job(v)] = 1, status'[Job(v)] \in ActiveStatuses
  PROVE  StageHolds(v)'
  <1> USE DEF Sound
  <1> DEFINE j == Job(v)
  <1>1. j \in Jobs /\ v \in Workers BY DeliveryTypes DEF Base, Running, Busy
  <1>2. copies[j] <= 1 BY <1>1, CountsGrow
  <1>3. /\ copies[j] = 1
        /\ \A w \in Running : Job(w) = j => w = v
    BY <1>2, SoleCarrier DEF Base
  <1>4. worker[v].pc \in {"mission", "prepare", "submit", "stage", "poll"} =>
          status[j] # "UNUSED"
    BY <1>1 DEF LoadedJobsExist
  <1> SUFFICES ASSUME worker[v].pc \in {"mission", "prepare", "submit", "stage", "poll"}
               PROVE  StageHolds(v)'
    BY DEF StageHolds
  <1>5. StageRank(StageOf(v)) <= StageRank(StageOf(v)') /\ StageRank(StageOf(v)') \in 2 .. 6
    <2>1. Job(v)' = Job(v) BY DEF Job
    <2>2. engine[v].progress \in 0 .. 100 /\ engine'[v].progress \in 0 .. 100
      BY <1>1 DEF Base, TypeOK, EngineTasks
    <2>3. CASE IsGcp(v)
      <3>1. StageOf(v)' = StageOf(v) BY <2>1, <2>3 DEF StageOf, IsGcp
      <3>2. QED BY <1>1, <3>1, StageOfRanks DEF Base
    <2>4. CASE ~IsGcp(v)
      <3>1. /\ StageOf(v) = StageForProgress(engine[v].progress)
            /\ StageOf(v)' = StageForProgress(engine'[v].progress)
        BY <2>1, <2>4 DEF StageOf, IsGcp
      <3>2. engine[v].progress <= engine'[v].progress
        <4>1. ASSUME NEW w \in Workers, EngineStep(w)
              PROVE  engine[v].progress <= engine'[v].progress
          <5>1. engine[w] \in EngineTasks BY DEF Base, TypeOK
          <5>2. ASSUME NEW p \in Progresses, p > engine[w].progress,
                       engine' = [engine EXCEPT ![w].progress = p]
                PROVE  engine[v].progress <= engine'[v].progress
            <6>1. v # w => engine'[v] = engine[v] BY <1>1, <5>2 DEF Base, TypeOK
            <6>2. v = w => engine'[v].progress = p
              BY <1>1, <5>1, <5>2 DEF Base, TypeOK, EngineTasks
            <6>3. QED BY <2>2, <5>2, <6>1, <6>2
          <5>3. ASSUME NEW code, engine' = [engine EXCEPT ![w].code = code]
                PROVE  engine[v].progress <= engine'[v].progress
            BY <1>1, <2>2, <5>1, <5>3 DEF Base, TypeOK, EngineTasks
          <5>4. QED BY <4>1, <5>2, <5>3 DEF EngineStep
        <4>2. CASE engine'[v] = engine[v] BY <2>2, <4>2
        <4>3. ASSUME NEW w \in Workers, RunStep(w) \/ FaultStep(w), engine'[v] # engine[v]
              PROVE  FALSE
          <5>1. UNCHANGED engine \/ Finish(w) \/ CreateEngineTask(w) \/ EngineUnavailable(w)
            BY <4>3
            DEF RunStep, FaultStep, LoadJob, SkipMissingJob, WriteInitializing,
                WriteMissionProcessing, Prepare, WriteFeatureExtraction, PollRunning,
                PollDone, Download, SkipAsset, UploadAsset, RecordOutput, IngestDone,
                WriteComplete, WriteMissionCompleted, PublishCompleted, RemoveEngineTask,
                WriteFailed, WriteMissionFailed, PublishFailed, RaiseUncaught,
                RaiseCaught, AcknowledgeRetry, RaiseBeforeLoad, ChildKilled, Crash,
                VisibilityTimeout
          <5>2. CASE Finish(w)
            BY <1>1, <4>3, <5>2 DEF Finish, NoRun, Running, Executing, Base, TypeOK
          <5>5. CASE EngineUnavailable(w) /\ ~Finish(w)
            <6>1. /\ engine' = [engine EXCEPT ![w] = NoEngineTask] /\ GoTo(w, "retried")
                  /\ worker[w].pc # "retried"
              BY <5>5 DEF EngineUnavailable, RetryPoints
            <6>2. v = w BY <1>1, <4>3, <6>1 DEF Base, TypeOK
            <6>3. worker'[w].pc = "retried" BY <6>1 DEF GoTo, Base, TypeOK, Runs
            <6>4. QED BY <6>1, <6>2, <6>3
          <5>3. CASE CreateEngineTask(w) /\ ~UNCHANGED engine
            <6>1. v = w
              BY <1>1, <4>3, <5>3 DEF CreateEngineTask, Base, TypeOK
            <6>2. worker'[w].pc # worker[w].pc
              BY <5>3 DEF CreateEngineTask, At, GoTo, Base, TypeOK, Runs
            <6>3. QED BY <6>1, <6>2
          <5>4. QED BY <4>3, <5>1, <5>2, <5>3, <5>5
        <4>4. QED
          BY <4>1, <4>2, <4>3
          DEF Next, ConsumerStep, Dispatch, Ignore, DispatchFails, DispatchTwice, Take,
              droneVars, vars
      <3>3. PICK p \in 0 .. 100, q \in 0 .. 100 :
              p = engine[v].progress /\ q = engine'[v].progress
        BY <2>2
      <3>4. /\ StageRank(StageForProgress(p)) <= StageRank(StageForProgress(q))
            /\ StageRank(StageForProgress(q)) \in 2 .. 6
        <4>1. p <= q /\ q <= q BY <3>2, <3>3
        <4> HIDE DEF j
        <4>2. StageRank(StageForProgress(p)) <= StageRank(StageForProgress(q))
          BY <4>1, StagesGrow
        <4>3. StageRank(StageForProgress(q)) \in 2 .. 6 BY <4>1, StagesGrow
        <4>4. QED BY <4>2, <4>3
      <3>5. QED BY <3>1, <3>3, <3>4
    <2>5. QED BY <2>3, <2>4
  <1>6. CASE status'[j] = status[j]
    <2>1. StageHolds(v) BY <1>3, <1>6 DEF StagesHold
    <2>2. worker'[v].job = j /\ status'[worker'[v].job] = status[j] BY <1>6 DEF Job
    <2>3. StageRank(status[j]) \in 0 .. 6 BY <1>6, ActiveRanks
    <2>4. StageRank(StageOf(v)) \in 2 .. 6 BY <1>1, StageOfRanks DEF Base
    <2>5. QED BY <1>5, <2>1, <2>2, <2>3, <2>4 DEF StageHolds, Job
  <1>7. CASE status'[j] # status[j]
    <2>1. ASSUME ApiNext PROVE FALSE
      <3>1. status'[j] \notin {"CANCELLED", "GONE"}
        BY DEF ActiveStatuses, RunningStatuses
      <3>2. QED BY <1>1, <1>4, <1>7, <2>1, <3>1, ApiWrites
    <2>2. ASSUME NEW w \in Workers, RunStep(w) \/ FaultStep(w)
          PROVE  w = v /\ PollRunning(v)
      <3>1. j = Job(w) BY <1>1, <1>7, <2>2, RunIsLocal DEF Base
      <3>2. w \in Running BY <1>7, <2>2, RetriedIsOver, StepperRuns DEF Base
      <3>3. w = v BY <1>3, <3>1, <3>2
      <3>4. ASSUME NEW pc, GoTo(v, pc), ~At(v, pc) PROVE FALSE
        BY <1>1, <3>4 DEF GoTo, At, Base, TypeOK, Runs
      <3>5. ~WriteInitializing(v) /\ ~WriteFeatureExtraction(v) /\ ~WriteComplete(v)
            /\ ~WriteFailed(v)
        BY <3>4 DEF WriteInitializing, WriteFeatureExtraction, WriteComplete, WriteFailed, At
      <3>6. ~RaiseBeforeLoad(v) BY DEF RaiseBeforeLoad, At
      <3>7. QED
        BY <1>7, <2>2, <3>3, <3>5, <3>6
        DEF RunStep, FaultStep, LoadJob, SkipMissingJob, WriteMissionProcessing, Prepare,
            CreateEngineTask, PollDone, Download, SkipAsset, UploadAsset, RecordOutput,
            IngestDone, WriteMissionCompleted, PublishCompleted, RemoveEngineTask,
            WriteMissionFailed, PublishFailed, RaiseUncaught, RaiseCaught, AcknowledgeRetry,
            EngineUnavailable, ChildKilled, Crash, VisibilityTimeout, OnlyMission,
            OnlyOutputs, OnlyQueue, NoApiChange, apiVars
    <2>3. CASE PollRunning(v)
      <3>1. status'[j] = StageOf(v)
        BY <1>1, <1>7, <2>3
        DEF PollRunning, WriteStatus, UpdateJobStatus, Base, TypeOK, ApiTypeOK
      <3>2. worker[v].pc = "poll" BY <2>3 DEF PollRunning, At
      <3>3. status'[worker'[v].job] = StageOf(v) BY <3>1 DEF Job
      <3>4. QED BY <1>5, <3>2, <3>3 DEF StageHolds, Job
    <2>4. QED
      BY <1>7, <2>1, <2>2, <2>3
      DEF Next, ConsumerStep, Dispatch, Ignore, DispatchFails, DispatchTwice, Take,
          EngineStep, OnlyQueue, NoApiChange, vars, apiVars
  <1>8. QED BY <1>6, <1>7

\* A worker that moves on: each write leaves what the next stage expects.
LEMMA StageMoves ==
  ASSUME Sound, Sound', StagesHold, [Next]_vars, NEW w \in Workers,
         RunStep(w) \/ FaultStep(w), worker'[w].pc \notin {"idle", "retried"},
         copies'[worker'[w].job] = 1, status'[worker'[w].job] \in ActiveStatuses,
         worker'[w] # worker[w]
  PROVE  StageHolds(w)'
  <1> USE DEF Sound, Base
  <1>1. w \in Running /\ Job(w) \in Jobs /\ worker'[w].job = Job(w)
    BY RunIsLocal, RetriedIsOver, StepperRuns
  <1> DEFINE j == Job(w)
  <1>2. copies[j] = 1 BY <1>1, CountsGrow, SoleCarrier
  <1>3. ASSUME NEW pc, GoTo(w, pc) PROVE worker'[w].pc = pc
    BY <1>3 DEF GoTo, TypeOK, Runs
  <1> SUFFICES ASSUME worker'[w].pc \in {"mission", "prepare", "submit", "stage", "poll"}
               PROVE  StageHolds(w)'
    BY DEF StageHolds
  <1>4. CASE WriteInitializing(w)
    <2>1. worker'[w].pc = "mission" BY <1>3, <1>4 DEF WriteInitializing
    <2>2. status'[j] = "INITIALIZING"
      BY <1>1, <1>4
      DEF WriteInitializing, WriteStatus, UpdateJobStatus, RowExists, NoRow, TypeOK,
          ApiTypeOK, ActiveStatuses, RunningStatuses
    <2>3. QED BY <1>1, <2>1, <2>2 DEF StageHolds, Job
  <1>5. CASE WriteMissionProcessing(w) \/ Prepare(w) \/ CreateEngineTask(w)
    <2>1. /\ UNCHANGED status
          /\ worker[w].pc \in {"mission", "prepare", "submit"}
      BY <1>5 DEF WriteMissionProcessing, Prepare, CreateEngineTask, At, OnlyMission,
                  NoApiChange, apiVars
    <2>2. worker'[w].pc \in {"prepare", "submit", "stage", "fail"}
      BY <1>3, <1>5 DEF WriteMissionProcessing, Prepare, CreateEngineTask
    <2>3. status[j] = "INITIALIZING"
      BY <1>1, <1>2, <2>1 DEF StagesHold, StageHolds
    <2>4. QED BY <1>1, <2>1, <2>2, <2>3 DEF StageHolds, Job
  <1>6. CASE WriteFeatureExtraction(w)
    <2>1. worker'[w].pc = "poll" BY <1>3, <1>6 DEF WriteFeatureExtraction
    <2>2. status'[j] = "FEATURE_EXTRACTION"
      BY <1>1, <1>6
      DEF WriteFeatureExtraction, WriteStatus, UpdateJobStatus, RowExists, NoRow, TypeOK,
          ApiTypeOK, ActiveStatuses, RunningStatuses
    <2>3. StageOf(w)' = StageOf(w)
      BY <1>1, <1>6 DEF WriteFeatureExtraction, StageOf, IsGcp, Job
    <2>4. StageRank(StageOf(w)) \in 2 .. 6 BY StageOfRanks
    <2>5. QED BY <1>1, <2>1, <2>2, <2>3, <2>4, Ranks DEF StageHolds, Job
  <1>7. QED
    <2>1. ASSUME NEW pc, GoTo(w, pc),
                 pc \notin {"mission", "prepare", "submit", "stage", "poll"}
          PROVE  FALSE
      BY <1>3, <2>1
    <2>2. ~Finish(w) BY <1>1 DEF Finish, NoRun, TypeOK
    <2>3. ~Download(w) /\ ~SkipAsset(w) /\ ~RecordOutput(w)
      <3>1. Download(w) \/ SkipAsset(w) \/ RecordOutput(w) =>
              worker'[w].pc \in {"ingest", "fail"}
        BY DEF Download, SkipAsset, RecordOutput, At, GoTo, TypeOK, Runs
      <3>2. QED BY <3>1
    <2>4. QED
      BY <1>4, <1>5, <1>6, <2>1, <2>2, <2>3
      DEF RunStep, FaultStep, LoadJob, SkipMissingJob, PollRunning, PollDone, UploadAsset,
          IngestDone, WriteComplete, WriteMissionCompleted, PublishCompleted,
          RemoveEngineTask, WriteFailed, WriteMissionFailed, PublishFailed,
          RaiseUncaught, RaiseCaught, AcknowledgeRetry, EngineUnavailable, RaiseBeforeLoad,
          ChildKilled,
          Crash, VisibilityTimeout

LEMMA StagesStep == Sound /\ Sound' /\ StagesHold /\ [Next]_vars => StagesHold'
  <1> SUFFICES ASSUME Sound, Sound', StagesHold, [Next]_vars, NEW v \in Workers,
                      worker'[v].pc \notin {"idle", "retried"},
                      copies'[worker'[v].job] = 1,
                      status'[worker'[v].job] \in ActiveStatuses
               PROVE  StageHolds(v)'
    BY DEF StagesHold, Running, Executing, Job
  <1>1. CASE worker'[v] = worker[v]
    <2>1. v \in Running /\ worker'[v].job = Job(v) BY <1>1 DEF Running, Executing, Job
    <2>2. QED BY <1>1, <2>1, StageKept
  <1>2. ASSUME NEW w \in Workers, NEW t \in tasks, Take(w, t), worker'[v] # worker[v]
        PROVE  StageHolds(v)'
    <2>1. worker'[v].pc = "load" BY <1>2 DEF Take, Sound, Base, TypeOK
    <2>2. QED BY <2>1 DEF StageHolds
  <1>3. ASSUME NEW w \in Workers, RunStep(w) \/ FaultStep(w), worker'[v] # worker[v]
        PROVE  StageHolds(v)'
    <2>1. v = w BY <1>3, RunIsLocal DEF Sound, Base
    <2>2. QED BY <1>3, <2>1, StageMoves
  <1>4. QED
    BY <1>1, <1>2, <1>3
    DEF Next, ConsumerStep, Dispatch, Ignore, DispatchFails, DispatchTwice, EngineStep,
        droneVars, vars

\* While it is delivered once, an active job only moves forward through the
\* pipeline, except that a new attempt starts again at INITIALIZING.
THEOREM DroneStageOrder == Spec => StageOrder
  <1> DEFINE Forward ==
        \A j \in Jobs :
          copies[j] = 1 /\ status[j] \in ActiveStatuses /\ status'[j] \in RunningStatuses
            => \/ status'[j] = "INITIALIZING"
               \/ StageRank(status'[j]) >= StageRank(status[j])
  <1>1. Sound /\ StagesHold /\ [Next]_vars => Forward
    <2> SUFFICES ASSUME Sound, StagesHold, [Next]_vars, NEW j \in Jobs, copies[j] = 1,
                        status[j] \in ActiveStatuses, status'[j] \in RunningStatuses,
                        status'[j] # "INITIALIZING"
                 PROVE  StageRank(status'[j]) >= StageRank(status[j])
      OBVIOUS
    <2> USE DEF Sound, Base
    <2>1. StageRank(status[j]) \in 0 .. 6 BY ActiveRanks
    <2>2. CASE status'[j] = status[j] BY <2>1, <2>2
    <2>3. CASE ApiNext
      <3>1. /\ status'[j] \notin {"CANCELLED", "GONE", "SUBMITTED"}
        BY DEF RunningStatuses
      <3>2. QED BY <2>2, <2>3, <3>1, ApiWrites
    <2>4. ASSUME NEW w \in Workers, RunStep(w) \/ FaultStep(w), status'[j] # status[j]
          PROVE  StageRank(status'[j]) >= StageRank(status[j])
      <3>1. j = Job(w) /\ w \in Running
        BY <2>4, RunIsLocal, RetriedIsOver, StepperRuns
      <3>2. StageHolds(w) BY <3>1 DEF StagesHold
      <3>3. ASSUME NEW s, WriteStatus(w, s) PROVE s = status'[j]
        BY <2>4, <3>1, <3>3 DEF WriteStatus, UpdateJobStatus, TypeOK, ApiTypeOK
      <3>4. CASE WriteFeatureExtraction(w)
        <4>1. status'[j] = "FEATURE_EXTRACTION" BY <3>3, <3>4 DEF WriteFeatureExtraction
        <4>2. status[j] = "INITIALIZING"
          BY <3>1, <3>2, <3>4 DEF WriteFeatureExtraction, At, StageHolds
        <4>3. QED BY <4>1, <4>2, Ranks
      <3>5. CASE PollRunning(w)
        <4>1. status'[j] = StageOf(w) BY <3>3, <3>5 DEF PollRunning
        <4>2. StageRank(status[j]) <= StageRank(StageOf(w))
          BY <3>1, <3>2, <3>5 DEF PollRunning, At, StageHolds
        <4>3. StageRank(StageOf(w)) \in 2 .. 6 BY StageOfRanks
        <4>4. QED BY <2>1, <4>1, <4>2, <4>3
      <3>6. ~WriteInitializing(w) BY <3>3 DEF WriteInitializing
      <3>7. ~WriteComplete(w) /\ ~WriteFailed(w) /\ ~RaiseBeforeLoad(w)
        <4>1. status'[j] \notin {"COMPLETE", "FAILED"} BY DEF RunningStatuses
        <4>2. ~WriteStatus(w, "COMPLETE") /\ ~WriteStatus(w, "FAILED") BY <3>3, <4>1
        <4>3. QED
          BY <2>4, <4>2 DEF WriteComplete, WriteFailed, RaiseBeforeLoad, NoApiChange, apiVars
      <3>8. QED
        BY <2>4, <3>4, <3>5, <3>6, <3>7
        DEF RunStep, FaultStep, LoadJob, SkipMissingJob, WriteMissionProcessing, Prepare,
            CreateEngineTask, PollDone, Download, SkipAsset, UploadAsset, RecordOutput,
            IngestDone, WriteMissionCompleted, PublishCompleted, RemoveEngineTask,
            WriteMissionFailed, PublishFailed, RaiseUncaught, RaiseCaught, AcknowledgeRetry,
            EngineUnavailable, ChildKilled, Crash, VisibilityTimeout, OnlyMission,
            OnlyOutputs, OnlyQueue, NoApiChange, apiVars
    <2>5. QED
      BY <2>2, <2>3, <2>4
      DEF Next, ConsumerStep, Dispatch, Ignore, DispatchFails, DispatchTwice, Take,
          EngineStep, OnlyQueue, NoApiChange, vars, apiVars
  <1>2. Init => StagesHold BY DEF Init, StagesHold, Running, Executing, NoRun
  <1>3. QED
    BY <1>1, <1>2, StagesStep, SoundInvariant, PTL DEF Spec, StageOrder

=============================================================================
