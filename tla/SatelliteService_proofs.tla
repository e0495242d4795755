---------------------- MODULE SatelliteService_proofs ----------------------
(***************************************************************************)
(* What holds of the satellite service for every number of jobs, workers,  *)
(* requests, crashes and redeliveries and for every scene: it implements   *)
(* the job API's view of a service, keeps its types, loses no active job   *)
(* silently, never announces a result it has not recorded, and what it     *)
(* records is sound.                                                       *)
(***************************************************************************)
EXTENDS SatelliteService, JobApi_proofs

-----------------------------------------------------------------------------
(* Refinement: what a step does to the API's variables is a step the API    *)
(* allows its services.                                                     *)

\* A worker in the middle of a run has a job.
LEMMA BusyJob ==
  ASSUME TypeOK, NEW w \in Workers, RunStep(w) \/ FaultStep(w)
  PROVE  worker[w].pc \in RunSteps /\ Job(w) \in Jobs
  <1>1. worker[w].pc \in RunSteps
    BY DEF RunStep, FaultStep, At, MayRaise, RunSteps, BeforeVerdict, AfterVerdict,
           LoadJob, SkipMissingJob, WriteInitializing, Analyse, UploadLayer,
           RecordLayer, WriteComplete, PublishCompleted, WriteFailed, PublishFailed,
           RaiseCaught, RaiseUncaught, RaiseBeforeLoad, ChildKilled, Crash,
           VisibilityTimeout
  <1>2. "idle" \notin RunSteps BY DEF RunSteps, BeforeVerdict, AfterVerdict
  <1>3. QED BY <1>1, <1>2 DEF TypeOK, Job

LEMMA ConsumerRefines ==
  ASSUME NEW m \in submitted, ConsumerStep(m)
  PROVE  ServiceNext
  BY DEF ConsumerStep, Dispatch, Ignore, DispatchFails, DispatchTwice, Acknowledge,
         ServiceNext

LEMMA RunRefines ==
  ASSUME TypeOK, NEW w \in Workers, RunStep(w)
  PROVE  ServiceNext \/ UNCHANGED apiVars
  <1>1. Job(w) \in Jobs BY BusyJob
  <1>2. ASSUME NEW s \in RunningStatuses \cup {"COMPLETE", "FAILED"}, WriteStatus(w, s)
        PROVE  ServiceNext
    BY <1>1, <1>2 DEF WriteStatus, ServiceNext
  <1>3. CASE WriteInitializing(w) \/ WriteComplete(w) \/ WriteFailed(w)
    BY <1>2, <1>3 DEF WriteInitializing, WriteComplete, WriteFailed, RunningStatuses
  <1>4. CASE RecordLayer(w)
    <2>1. Layer \in AssetIds BY SatelliteAssumption DEF Layer, AssetIds
    <2>2. QED BY <1>1, <1>4, <2>1 DEF RecordLayer, ServiceNext
  <1>5. CASE \/ LoadJob(w) \/ SkipMissingJob(w) \/ Analyse(w) \/ UploadLayer(w)
             \/ PublishCompleted(w) \/ PublishFailed(w)
    BY <1>5 DEF LoadJob, SkipMissingJob, Analyse, UploadLayer, PublishCompleted,
                PublishFailed, OnlyWorker, NoApiChange
  <1>6. QED BY <1>3, <1>4, <1>5 DEF RunStep

LEMMA FaultRefines ==
  ASSUME TypeOK, NEW w \in Workers, FaultStep(w)
  PROVE  ServiceNext \/ UNCHANGED apiVars
  <1>1. Job(w) \in Jobs BY BusyJob
  <1>2. CASE RaiseBeforeLoad(w)
    BY <1>1, <1>2 DEF RaiseBeforeLoad, ServiceNext
  <1>3. CASE VisibilityTimeout(w)
    BY <1>1, <1>3 DEF VisibilityTimeout, ServiceNext
  <1>4. CASE RaiseCaught(w) \/ RaiseUncaught(w) \/ ChildKilled(w) \/ Crash(w)
    BY <1>4 DEF RaiseCaught, RaiseUncaught, ChildKilled, Crash, NoApiChange
  <1>5. QED BY <1>2, <1>3, <1>4 DEF FaultStep

LEMMA StepRefines ==
  TypeOK /\ [Next]_vars => [ApiNext \/ ServiceNext]_apiVars
  <1> SUFFICES ASSUME TypeOK, [Next]_vars PROVE [ApiNext \/ ServiceNext]_apiVars
    OBVIOUS
  <1>1. ASSUME NEW w \in Workers, NEW m \in tasks, Take(w, m) PROVE UNCHANGED apiVars
    BY <1>1 DEF Take, NoApiChange
  <1>2. CASE UNCHANGED vars BY <1>2 DEF vars
  <1>3. QED
    BY <1>1, <1>2, ConsumerRefines, RunRefines, FaultRefines DEF Next

-----------------------------------------------------------------------------
(* Types: one step per action, under the API's types from the refinement.   *)

LEMMA ConsumerTypes ==
  ASSUME TypeOK, ApiTypeOK', NEW m \in submitted, ConsumerStep(m)
  PROVE  TypeOK'
  <1>1. m \in Messages BY DEF TypeOK, ApiTypeOK
  <1>2. ASSUME NEW why \in DropReasons, Drop(m.job, why)
        PROVE  dropped' \in [Jobs -> SUBSET DropReasons]
    BY <1>1, <1>2 DEF Drop, TypeOK, Messages
  <1>3. CASE Dispatch(m) \/ DispatchTwice(m)
    BY <1>1, <1>3 DEF Dispatch, DispatchTwice, TypeOK
  <1>4. CASE Ignore(m)
    BY <1>2, <1>4 DEF Ignore, TypeOK, DropReasons
  <1>5. CASE DispatchFails(m)
    BY <1>2, <1>5 DEF DispatchFails, TypeOK, DropReasons
  <1>6. QED BY <1>3, <1>4, <1>5 DEF ConsumerStep

LEMMA TakeTypes ==
  ASSUME TypeOK, ApiTypeOK', NEW w \in Workers, NEW m \in tasks, Take(w, m)
  PROVE  TypeOK'
  <1> DEFINE taken == [pc |-> "load", job |-> m.job, copy |-> m.copy, result |-> {}]
  <1>1. m \in Messages BY DEF TypeOK
  <1>2. taken \in Runs /\ taken.job \in Jobs /\ taken.copy # 0
    BY <1>1, JobApiAssumption DEF Messages, Runs, RunSteps, BeforeVerdict
  <1>3. worker' = [worker EXCEPT ![w] = taken] BY DEF Take
  <1> HIDE DEF taken
  <1>4. QED BY <1>2, <1>3 DEF Take, TypeOK

\* What a worker does next, and what it holds as the result of its run.
LEMMA MoveTypes ==
  ASSUME TypeOK, ApiTypeOK', NEW w \in Workers, worker[w].pc # "idle",
         NEW pc \in RunSteps, NEW result \in SUBSET Results,
         worker' = [worker EXCEPT ![w] = [@ EXCEPT !.pc = pc, !.result = result]],
         UNCHANGED <<tasks, dropped, crashes>>,
         UNCHANGED announced \/ \E verdict \in Verdicts : Announce(w, verdict)
  PROVE  TypeOK'
  <1> DEFINE moved == [worker[w] EXCEPT !.pc = pc, !.result = result]
  <1>1. worker[w] \in Runs /\ Job(w) \in Jobs /\ worker[w].copy # 0
    BY DEF TypeOK, Job
  <1>2. moved \in Runs /\ moved.job \in Jobs /\ moved.copy # 0
    BY <1>1 DEF Runs, Job
  <1>3. worker' = [worker EXCEPT ![w] = moved] BY DEF TypeOK
  <1>4. announced' \in [Jobs -> SUBSET Verdicts] BY <1>1 DEF TypeOK, Announce
  <1> HIDE DEF moved
  <1>5. QED BY <1>2, <1>3, <1>4 DEF TypeOK

\* The runs that end, by themselves or by an error.
LEMMA EndTypes ==
  ASSUME TypeOK, ApiTypeOK', NEW w \in Workers, Finish(w), Job(w) \in Jobs,
         tasks' \subseteq Messages,
         \/ UNCHANGED dropped
         \/ \E why \in DropReasons : Drop(Job(w), why),
         \/ UNCHANGED announced
         \/ \E verdict \in Verdicts : Announce(w, verdict),
         crashes' \in 0 .. MaxCrashes
  PROVE  TypeOK'
  <1>1. dropped' \in [Jobs -> SUBSET DropReasons] BY DEF TypeOK, Drop
  <1>2. announced' \in [Jobs -> SUBSET Verdicts] BY DEF TypeOK, Announce
  <1>3. NoRun \in Runs BY JobApiAssumption DEF NoRun, Runs
  <1>4. worker' = [worker EXCEPT ![w] = NoRun] BY DEF Finish
  <1>5. NoRun.pc = "idle" BY DEF NoRun
  <1>6. QED BY <1>1, <1>2, <1>3, <1>4, <1>5 DEF TypeOK

LEMMA RunTypes ==
  ASSUME TypeOK, ApiTypeOK', NEW w \in Workers, RunStep(w)
  PROVE  TypeOK'
  <1>1. worker[w].pc # "idle" /\ Job(w) \in Jobs /\ worker[w] \in Runs
    BY BusyJob DEF TypeOK, RunSteps, BeforeVerdict, AfterVerdict
  <1>2. ASSUME NEW pc \in RunSteps, GoTo(w, pc), UNCHANGED <<tasks, dropped, crashes>>,
               UNCHANGED announced \/ \E verdict \in Verdicts : Announce(w, verdict)
        PROVE  TypeOK'
    <2>1. worker[w].result \in SUBSET Results BY <1>1 DEF Runs
    <2>2. [worker[w] EXCEPT !.pc = pc]
            = [worker[w] EXCEPT !.pc = pc, !.result = worker[w].result]
      BY <1>1 DEF Runs
    <2>3. worker' = [worker EXCEPT ![w] = [@ EXCEPT !.pc = pc,
                                                    !.result = worker[w].result]]
      BY <1>2, <2>2 DEF GoTo, TypeOK
    <2>4. QED BY <1>1, <1>2, <2>1, <2>3, MoveTypes
  <1>3. CASE \/ LoadJob(w) \/ UploadLayer(w)
             \/ WriteInitializing(w) \/ WriteComplete(w) \/ WriteFailed(w)
    BY <1>2, <1>3
    DEF LoadJob, UploadLayer, WriteInitializing, WriteComplete, WriteFailed,
        WriteStatus, OnlyWorker, RunSteps, BeforeVerdict, AfterVerdict
  <1>4. CASE Analyse(w)
    <2>1. CASE GoTo(w, "fail")
      BY <1>2, <1>4, <2>1 DEF Analyse, OnlyWorker, RunSteps, BeforeVerdict
    <2>2. ASSUME NEW i \in SpectralInputs, SpectralValid(i), AnalyseTo(w, Spectral(i))
          PROVE  TypeOK'
      <3>1. {Spectral(i)} \in SUBSET Results BY <2>2 DEF Results
      <3>2. worker' = [worker EXCEPT ![w] = [@ EXCEPT !.pc = "upload",
                                                      !.result = {Spectral(i)}]]
        BY <2>2 DEF AnalyseTo
      <3>3. "upload" \in RunSteps BY DEF RunSteps, BeforeVerdict
      <3>4. QED BY <1>1, <1>4, <3>1, <3>2, <3>3, MoveTypes DEF Analyse, OnlyWorker
    <2>3. ASSUME NEW i \in ChangeInputs, ChangeValid(i), AnalyseTo(w, Change(i))
          PROVE  TypeOK'
      <3>1. {Change(i)} \in SUBSET Results BY <2>3 DEF Results
      <3>2. worker' = [worker EXCEPT ![w] = [@ EXCEPT !.pc = "upload",
                                                      !.result = {Change(i)}]]
        BY <2>3 DEF AnalyseTo
      <3>3. "upload" \in RunSteps BY DEF RunSteps, BeforeVerdict
      <3>4. QED BY <1>1, <1>4, <3>1, <3>2, <3>3, MoveTypes DEF Analyse, OnlyWorker
    <2>4. QED BY <1>4, <2>1, <2>2, <2>3 DEF Analyse
  <1>5. CASE RecordLayer(w)
    <2>1. worker' = [worker EXCEPT ![w] = [@ EXCEPT !.pc = "complete", !.result = {}]]
      BY <1>5 DEF RecordLayer
    <2>2. "complete" \in RunSteps BY DEF RunSteps, BeforeVerdict
    <2>3. {} \in SUBSET Results OBVIOUS
    <2>4. QED BY <1>1, <1>5, <2>1, <2>2, <2>3, MoveTypes DEF RecordLayer
  <1>6. CASE SkipMissingJob(w)
    BY <1>1, <1>6, EndTypes DEF SkipMissingJob, TypeOK, DropReasons
  <1>7. CASE PublishCompleted(w) \/ PublishFailed(w)
    BY <1>1, <1>7, EndTypes DEF PublishCompleted, PublishFailed, TypeOK, Verdicts
  <1>8. QED BY <1>3, <1>4, <1>5, <1>6, <1>7 DEF RunStep

LEMMA FaultTypes ==
  ASSUME TypeOK, ApiTypeOK', NEW w \in Workers, FaultStep(w)
  PROVE  TypeOK'
  <1>1. worker[w].pc # "idle" /\ Job(w) \in Jobs /\ worker[w] \in Runs
    BY BusyJob DEF TypeOK, RunSteps, BeforeVerdict, AfterVerdict
  <1>2. CASE RaiseCaught(w)
    <2>1. worker' = [worker EXCEPT ![w] = [@ EXCEPT !.pc = "fail", !.result = {}]]
      BY <1>2 DEF RaiseCaught
    <2>2. "fail" \in RunSteps BY DEF RunSteps, BeforeVerdict
    <2>3. {} \in SUBSET Results OBVIOUS
    <2>4. UNCHANGED announced \/ \E verdict \in Verdicts : Announce(w, verdict)
      BY <1>2 DEF RaiseCaught, InDoubt, Verdicts
    <2>5. QED BY <1>1, <1>2, <2>1, <2>2, <2>3, <2>4, MoveTypes DEF RaiseCaught
  <1>3. CASE RaiseUncaught(w)
    BY <1>1, <1>3, EndTypes DEF RaiseUncaught, InDoubt, TypeOK, Verdicts, DropReasons
  <1>4. CASE RaiseBeforeLoad(w)
    BY <1>1, <1>4, EndTypes DEF RaiseBeforeLoad, TypeOK, DropReasons
  <1>5. CASE ChildKilled(w)
    BY <1>1, <1>5, EndTypes DEF ChildKilled, TypeOK, DropReasons
  <1>6. CASE Crash(w)
    <2>1. [job |-> Job(w), copy |-> worker[w].copy] \in Messages
      BY <1>1, JobApiAssumption DEF TypeOK, Runs, Messages
    <2>2. tasks' \subseteq Messages BY <1>6, <2>1 DEF Crash, Requeue, TypeOK
    <2>3. crashes' \in 0 .. MaxCrashes BY <1>6, SatelliteAssumption DEF Crash, TypeOK
    <2>4. QED BY <1>1, <1>6, <2>2, <2>3, EndTypes DEF Crash
  <1>7. CASE VisibilityTimeout(w)
    <2>1. NewCopy(Job(w)) \in Messages
      BY <1>1, <1>7, JobApiAssumption
      DEF VisibilityTimeout, CanCopy, NewCopy, TypeOK, ApiTypeOK, Messages
    <2>2. QED BY <1>7, <2>1 DEF VisibilityTimeout, TypeOK
  <1>8. QED BY <1>2, <1>3, <1>4, <1>5, <1>6, <1>7 DEF FaultStep

LEMMA StepTypes == TypeOK /\ [Next]_vars => TypeOK'
  <1> SUFFICES ASSUME TypeOK, [Next]_vars PROVE TypeOK'
    OBVIOUS
  <1>1. ApiTypeOK' BY StepRefines, ApiTypes DEF TypeOK
  <1>2. CASE UNCHANGED satelliteVars
    BY <1>1, <1>2 DEF TypeOK, satelliteVars
  <1>3. QED
    BY <1>1, <1>2, ConsumerTypes, TakeTypes, RunTypes, FaultTypes DEF Next, vars

\* Every variable of the satellite service keeps its type.
THEOREM SatelliteTyping == Spec => []TypeOK
  <1>1. Init => TypeOK
    <2>1. ASSUME Init PROVE ApiTypeOK BY <2>1, ApiInitially DEF Init, ApiInv
    <2>2. ASSUME Init PROVE TypeOK
      BY <2>1, <2>2, JobApiAssumption, SatelliteAssumption DEF Init, TypeOK, Runs, NoRun
    <2>3. QED BY <2>2
  <1>2. QED BY <1>1, StepTypes, PTL DEF Spec

\* The satellite service is another of the services the job API was specified
\* against: the same ApiSpec, with workers that share no code with the drone's.
THEOREM SatelliteImplementsApi == Spec => ApiSpec
  <1>1. Init => ApiInit BY DEF Init
  <1>2. QED BY <1>1, SatelliteTyping, StepRefines, PTL DEF Spec, ApiSpec

\* Hence its jobs keep to the concurrency quota as far as the drone's do.
THEOREM SatelliteQuota == Spec => []QuotaBound
  BY SatelliteImplementsApi, ApiQuota

-----------------------------------------------------------------------------
(* What the steps of the service leave alone.                               *)

\* A run that got past get_job works on a job that has, or once had, a row, and
\* only such jobs were ever announced.
LoadedJobsExist ==
  /\ \A w \in Workers : worker[w].pc \notin {"idle", "load"} => status[Job(w)] # "UNUSED"
  /\ \A j \in Jobs : announced[j] # {} => status[j] # "UNUSED"

Base == TypeOK /\ RequestsHold

THEOREM BaseInvariant == Spec => []Base
  <1>1. ApiInv => RequestsHold BY DEF ApiInv
  <1>2. QED BY <1>1, SatelliteTyping, SatelliteImplementsApi, ApiInvariant, PTL DEF Base

\* A row that exists never becomes an unused id again.
LEMMA NeverUnused ==
  ASSUME Base, [Next]_vars, NEW j \in Jobs, status[j] # "UNUSED"
  PROVE  status'[j] # "UNUSED"
  <1> USE DEF Base, TypeOK, ApiTypeOK
  <1>1. [ApiNext \/ ServiceNext]_apiVars BY StepRefines
  <1>2. ASSUME NEW r \in Requests, RequestStep(r) PROVE status'[j] # "UNUSED"
    BY <1>2 DEF RequestStep, CreatePublish, CreateAbort, CreateCommit, CreateRollback,
                CancelSave
  <1>3. ASSUME NEW r \in Requests, NEW i \in Jobs, CreateCheck(r, i) \/ CancelRead(r, i)
        PROVE  status'[j] # "UNUSED"
    BY <1>3 DEF CreateCheck, CancelRead
  <1>4. ASSUME NEW i \in Jobs, Remove(i) PROVE status'[j] # "UNUSED"
    BY <1>4 DEF Remove
  <1>5. ASSUME NEW m \in Missions, RemoveMission(m) PROVE status'[j] # "UNUSED"
    BY <1>5 DEF RemoveMission
  <1>6. ASSUME NEW i \in Jobs, NEW s \in RunningStatuses \cup {"COMPLETE", "FAILED"},
               UpdateJobStatus(i, s)
        PROVE  status'[j] # "UNUSED"
    BY <1>6 DEF UpdateJobStatus, RunningStatuses
  <1>7. CASE UNCHANGED status BY <1>7
  <1>8. QED
    BY <1>1, <1>2, <1>3, <1>4, <1>5, <1>6, <1>7
    DEF ApiNext, ServiceNext, OnlyMission, OnlyOutputs, OnlyQueue, apiVars

\* Where a run goes: on with its job, or to its end.
LEMMA WorkerMoves ==
  ASSUME TypeOK, NEW w \in Workers, RunStep(w) \/ FaultStep(w)
  PROVE  /\ \A v \in Workers \ {w} : worker'[v] = worker[v]
         /\ worker'[w].job = Job(w) \/ worker'[w].pc = "idle"
         /\ worker'[w].pc = "load" => worker[w].pc = "load"
         /\ worker[w].pc = "load" => LoadJob(w) \/ worker'[w].pc \in {"idle", "load"}
         /\ worker'[w].pc \in {"complete", "announce"} =>
              RecordLayer(w) \/ WriteComplete(w) \/ UNCHANGED worker
  <1> DEFINE Others == \A v \in Workers \ {w} : worker'[v] = worker[v]
             Goes(pc) == Others /\ worker'[w].job = Job(w) /\ worker'[w].pc = pc
  <1>1. ASSUME NEW pc, GoTo(w, pc) PROVE Goes(pc)
    BY <1>1 DEF GoTo, TypeOK, Job, Runs
  <1>2. ASSUME NEW pc, NEW result,
               worker' = [worker EXCEPT ![w].pc = pc, ![w].result = result]
        PROVE  Goes(pc)
    BY <1>2 DEF TypeOK, Job, Runs
  <1>3. ASSUME Finish(w) PROVE Others /\ worker'[w].pc = "idle"
    BY <1>3 DEF Finish, TypeOK, NoRun
  <1>4. CASE Analyse(w)
    <2>1. ASSUME NEW result, AnalyseTo(w, result) PROVE Goes("upload")
      BY <1>2, <2>1 DEF AnalyseTo
    <2>2. Goes("upload") \/ Goes("fail")
      BY <1>1, <1>4, <2>1 DEF Analyse
    <2>3. worker[w].pc = "analyse" BY <1>4 DEF Analyse, At
    <2>4. QED BY <2>2, <2>3
  <1>5. CASE LoadJob(w)
    BY <1>1, <1>5 DEF LoadJob
  <1>6. CASE WriteInitializing(w) \/ UploadLayer(w) \/ WriteFailed(w)
    <2>1. Goes("analyse") \/ Goes("record") \/ Goes("failAnnounce")
      BY <1>1, <1>6 DEF WriteInitializing, UploadLayer, WriteFailed
    <2>2. worker[w].pc # "load"
      BY <1>6 DEF WriteInitializing, UploadLayer, WriteFailed, At
    <2>3. QED BY <2>1, <2>2
  <1>7. CASE WriteComplete(w)
    BY <1>1, <1>7 DEF WriteComplete, At
  <1>8. CASE RecordLayer(w)
    <2>1. Goes("complete") BY <1>2, <1>8 DEF RecordLayer
    <2>2. worker[w].pc # "load" BY <1>8 DEF RecordLayer, At
    <2>3. QED BY <1>8, <2>1, <2>2
  <1>9. CASE RaiseCaught(w)
    <2>1. Goes("fail") BY <1>2, <1>9 DEF RaiseCaught
    <2>2. worker[w].pc # "load" BY <1>9 DEF RaiseCaught
    <2>3. QED BY <2>1, <2>2
  <1>10. CASE VisibilityTimeout(w)
    BY <1>10 DEF VisibilityTimeout, Job
  <1>11. CASE \/ SkipMissingJob(w) \/ PublishCompleted(w) \/ PublishFailed(w)
              \/ RaiseUncaught(w) \/ RaiseBeforeLoad(w) \/ ChildKilled(w) \/ Crash(w)
    BY <1>3, <1>11
    DEF SkipMissingJob, PublishCompleted, PublishFailed, RaiseUncaught,
        RaiseBeforeLoad, ChildKilled, Crash
  <1>12. QED
    BY <1>4, <1>5, <1>6, <1>7, <1>8, <1>9, <1>10, <1>11 DEF RunStep, FaultStep

\* A run touches its own job only, and leaves the queues at least as full.
LEMMA RunIsLocal ==
  ASSUME TypeOK, NEW w \in Workers, RunStep(w) \/ FaultStep(w)
  PROVE  /\ tasks \subseteq tasks' /\ UNCHANGED <<submitted, request, resurrected>>
         /\ \A j \in Jobs \ {Job(w)} : /\ status'[j] = status[j]
                                       /\ announced'[j] = announced[j]
         /\ \A j \in Jobs : dropped[j] \subseteq dropped'[j]
         /\ UNCHANGED outputs \/ RecordLayer(w)
  <1>0. Job(w) \in Jobs BY BusyJob
  <1>1. /\ tasks \subseteq tasks' /\ UNCHANGED <<submitted, request, resurrected>>
        /\ UNCHANGED outputs \/ RecordLayer(w)
    BY DEF RunStep, FaultStep, LoadJob, SkipMissingJob, WriteInitializing, Analyse,
       UploadLayer, RecordLayer, WriteComplete, PublishCompleted, WriteFailed,
       PublishFailed, RaiseUncaught, RaiseCaught, RaiseBeforeLoad, ChildKilled, Crash,
       VisibilityTimeout, Requeue, WriteStatus, OnlyWorker, OnlyJob, OnlyOutputs,
       OnlyQueue, NoApiChange, apiVars
  <1>2. UNCHANGED status \/ \E s : UpdateJobStatus(Job(w), s)
    BY DEF RunStep, FaultStep, LoadJob, SkipMissingJob, WriteInitializing, Analyse,
       UploadLayer, RecordLayer, WriteComplete, PublishCompleted, WriteFailed,
       PublishFailed, RaiseUncaught, RaiseCaught, RaiseBeforeLoad, ChildKilled, Crash,
       VisibilityTimeout, WriteStatus, OnlyWorker, OnlyOutputs, OnlyQueue,
       NoApiChange, apiVars
  <1>3. \A j \in Jobs \ {Job(w)} : status'[j] = status[j]
    BY <1>2 DEF UpdateJobStatus, TypeOK, ApiTypeOK
  <1>4. UNCHANGED announced \/ \E verdict : Announce(w, verdict)
    BY DEF RunStep, FaultStep, LoadJob, SkipMissingJob, WriteInitializing, Analyse,
       UploadLayer, RecordLayer, WriteComplete, PublishCompleted, WriteFailed,
       PublishFailed, RaiseUncaught, RaiseCaught, RaiseBeforeLoad, ChildKilled, Crash,
       VisibilityTimeout, WriteStatus, OnlyWorker, InDoubt
  <1>5. \A j \in Jobs \ {Job(w)} : announced'[j] = announced[j]
    BY <1>4 DEF Announce, TypeOK
  <1>6. UNCHANGED dropped \/ \E why : Drop(Job(w), why)
    BY DEF RunStep, FaultStep, LoadJob, SkipMissingJob, WriteInitializing, Analyse,
       UploadLayer, RecordLayer, WriteComplete, PublishCompleted, WriteFailed,
       PublishFailed, RaiseUncaught, RaiseCaught, RaiseBeforeLoad, ChildKilled, Crash,
       VisibilityTimeout, WriteStatus, OnlyWorker
  <1>7. \A j \in Jobs : dropped[j] \subseteq dropped'[j]
    BY <1>0, <1>6 DEF Drop, TypeOK
  <1>8. QED BY <1>1, <1>3, <1>5, <1>7

LEMMA LoadedStep == Base /\ LoadedJobsExist /\ [Next]_vars => LoadedJobsExist'
  <1> SUFFICES ASSUME Base, LoadedJobsExist, [Next]_vars PROVE LoadedJobsExist'
    OBVIOUS
  <1> USE DEF Base
  <1>1. ASSUME UNCHANGED announced,
               \A v \in Workers : worker'[v] = worker[v] \/ worker'[v].pc \in {"idle", "load"}
        PROVE  LoadedJobsExist'
    BY <1>1, NeverUnused DEF LoadedJobsExist, Job, TypeOK
  <1>2. ASSUME NEW w \in Workers, RunStep(w) \/ FaultStep(w) PROVE LoadedJobsExist'
    <2>1. Job(w) \in Jobs BY <1>2, BusyJob
    <2>2. ASSUME NEW v \in Workers, worker'[v].pc \notin {"idle", "load"}
          PROVE  status'[worker'[v].job] # "UNUSED"
      <3>1. CASE v # w
        BY <1>2, <2>2, <3>1, WorkerMoves, NeverUnused DEF LoadedJobsExist, Job, TypeOK
      <3>2. CASE v = w
        <4>1. worker'[w].job = Job(w) BY <1>2, <2>2, <3>2, WorkerMoves
        <4>2. status[Job(w)] # "UNUSED"
          <5>1. CASE LoadJob(w) BY <5>1 DEF LoadJob, RowExists, NoRow
          <5>2. CASE ~LoadJob(w)
            <6>1. worker[w].pc # "load" BY <1>2, <2>2, <3>2, <5>2, WorkerMoves
            <6>2. worker[w].pc # "idle"
              BY <1>2, BusyJob DEF RunSteps, BeforeVerdict, AfterVerdict
            <6>3. QED BY <6>1, <6>2 DEF LoadedJobsExist
          <5>3. QED BY <5>1, <5>2
        <4>3. QED BY <2>1, <3>2, <4>1, <4>2, NeverUnused
      <3>3. QED BY <3>1, <3>2
    <2>3. ASSUME NEW j \in Jobs, announced'[j] # {} PROVE status'[j] # "UNUSED"
      <3>1. CASE announced[j] # {} BY <3>1, NeverUnused DEF LoadedJobsExist
      <3>2. CASE announced[j] = {}
        <4>1. j = Job(w) /\ announced' # announced BY <1>2, <2>3, <3>2, RunIsLocal
        <4>2. worker[w].pc \in {"announce", "failAnnounce"}
          BY <1>2, <4>1
          DEF RunStep, FaultStep, At, LoadJob, SkipMissingJob, WriteInitializing,
              Analyse, UploadLayer, RecordLayer, WriteComplete, PublishCompleted,
              WriteFailed, PublishFailed, RaiseUncaught, RaiseCaught, RaiseBeforeLoad,
              ChildKilled, Crash, VisibilityTimeout, WriteStatus, OnlyWorker, InDoubt
        <4>3. status[Job(w)] # "UNUSED" BY <4>2 DEF LoadedJobsExist
        <4>4. QED BY <4>1, <4>3, NeverUnused
      <3>3. QED BY <3>1, <3>2
    <2>4. QED BY <2>2, <2>3 DEF LoadedJobsExist, Job
  <1>3. ASSUME NEW w \in Workers, NEW m \in tasks, Take(w, m) PROVE LoadedJobsExist'
    BY <1>1, <1>3 DEF Take, TypeOK
  <1>4. ASSUME NEW m \in submitted, ConsumerStep(m) PROVE LoadedJobsExist'
    BY <1>1, <1>4 DEF ConsumerStep, Dispatch, Ignore, DispatchFails, DispatchTwice
  <1>5. CASE UNCHANGED satelliteVars BY <1>1, <1>5 DEF satelliteVars
  <1>6. QED BY <1>2, <1>3, <1>4, <1>5 DEF Next, vars

-----------------------------------------------------------------------------
(* A verdict has its layer.                                                 *)

\* Why: the layer is recorded before anything says complete, no step of the
\* service takes it away, and what the API deletes goes with the job's row.
Concluded(j) ==
  \/ status[j] = "COMPLETE" \/ "completed" \in announced[j]
  \/ \E w \in Workers : Job(w) = j /\ worker[w].pc \in {"complete", "announce"}

ConcludedHasItsLayer ==
  \A j \in Jobs \ resurrected : RowExists(j) /\ Concluded(j) => outputs[j][Layer] > 0

\* What a request makes of a row that it does not insert a second time.
LEMMA ApiRow ==
  ASSUME Base, ApiNext, NEW j \in Jobs \ resurrected', RowExists(j)'
  PROVE  /\ j \notin resurrected
         /\ \/ status[j] = "UNUSED" /\ status'[j] = "SUBMITTED"
            \/ /\ RowExists(j) /\ outputs'[j] = outputs[j]
               /\ status'[j] = "COMPLETE" => status[j] = "COMPLETE"
  <1> USE DEF Base, TypeOK, ApiTypeOK, RowExists, NoRow
  <1>1. ASSUME NEW r \in Requests, CreatePublish(r) \/ CreateAbort(r)
        PROVE  UNCHANGED <<status, outputs, resurrected>>
    BY <1>1 DEF CreatePublish, CreateAbort
  <1>2. ASSUME NEW r \in Requests, NEW i \in Jobs, CreateCheck(r, i) \/ CancelRead(r, i)
        PROVE  UNCHANGED <<status, outputs, resurrected>>
    BY <1>2 DEF CreateCheck, CancelRead
  <1>3. ASSUME NEW r \in Requests, CreateCommit(r)
        PROVE  /\ UNCHANGED <<outputs, resurrected>>
               /\ \/ status'[j] = status[j]
                  \/ status[j] = "UNUSED" /\ status'[j] = "SUBMITTED"
    BY <1>3 DEF CreateCommit, RequestsHold, Creating
  <1>4. ASSUME NEW r \in Requests, CreateRollback(r)
        PROVE  UNCHANGED <<outputs, resurrected>> /\ status'[j] = status[j]
    BY <1>4 DEF CreateRollback
  <1>5. ASSUME NEW r \in Requests, CancelSave(r)
        PROVE  /\ UNCHANGED outputs /\ j \notin resurrected
               /\ \/ status'[j] = status[j]
                  \/ RowExists(j) /\ status'[j] = "CANCELLED"
    BY <1>5 DEF CancelSave
  <1>6. ASSUME NEW i \in Jobs, Remove(i)
        PROVE  outputs'[j] = outputs[j] /\ UNCHANGED resurrected /\ status'[j] = status[j]
    BY <1>6 DEF Remove
  <1>7. ASSUME NEW m \in Missions, RemoveMission(m)
        PROVE  outputs'[j] = outputs[j] /\ UNCHANGED resurrected /\ status'[j] = status[j]
    BY <1>7 DEF RemoveMission
  <1>8. QED
    BY <1>1, <1>2, <1>3, <1>4, <1>5, <1>6, <1>7 DEF ApiNext, RequestStep

LEMMA ApiConcluded ==
  ASSUME Base, LoadedJobsExist, ConcludedHasItsLayer, ApiNext, UNCHANGED satelliteVars
  PROVE  ConcludedHasItsLayer'
  <1> SUFFICES ASSUME NEW j \in Jobs \ resurrected', RowExists(j)', Concluded(j)'
               PROVE  outputs'[j][Layer] > 0
    BY DEF ConcludedHasItsLayer
  <1>1. UNCHANGED <<worker, announced>> BY DEF satelliteVars
  <1>2. j \in Jobs /\ j \notin resurrected BY ApiRow
  <1>3. CASE status[j] = "UNUSED" /\ status'[j] = "SUBMITTED"
    BY <1>1, <1>2, <1>3 DEF LoadedJobsExist, Concluded, Job
  <1>4. CASE /\ RowExists(j) /\ outputs'[j] = outputs[j]
             /\ status'[j] = "COMPLETE" => status[j] = "COMPLETE"
    BY <1>1, <1>2, <1>4 DEF ConcludedHasItsLayer, Concluded, Job
  <1>5. QED BY <1>3, <1>4, ApiRow

LEMMA RunConcluded ==
  ASSUME Base, ConcludedHasItsLayer, NEW w \in Workers, RunStep(w) \/ FaultStep(w)
  PROVE  ConcludedHasItsLayer'
  <1> SUFFICES ASSUME NEW j \in Jobs \ resurrected', RowExists(j)', Concluded(j)'
               PROVE  outputs'[j][Layer] > 0
    BY DEF ConcludedHasItsLayer
  <1> USE DEF Base
  <1>1. Job(w) \in Jobs /\ j \in Jobs \ resurrected
    BY BusyJob, RunIsLocal
  <1>2. Layer \in AssetIds BY SatelliteAssumption DEF Layer, AssetIds
  <1>3. outputs[j][Layer] \in Nat BY <1>1, <1>2 DEF TypeOK, ApiTypeOK
  <1>4. CASE RecordLayer(w)
    <2>1. outputs' = [outputs EXCEPT ![Job(w)][Layer] = @ + 1] /\ UNCHANGED <<status, announced>>
      BY <1>4 DEF RecordLayer, InsertOutput, OnlyOutputs
    <2>2. CASE j = Job(w)
      BY <1>1, <1>2, <1>3, <2>1, <2>2 DEF TypeOK, ApiTypeOK
    <2>3. CASE j # Job(w)
      <3>1. outputs'[j] = outputs[j] BY <1>1, <2>1, <2>3 DEF TypeOK, ApiTypeOK
      <3>2. RowExists(j) /\ Concluded(j)
        BY <1>4, <2>1, <2>3, WorkerMoves DEF RowExists, Concluded, Job
      <3>3. QED BY <1>1, <3>1, <3>2 DEF ConcludedHasItsLayer
    <2>4. QED BY <2>2, <2>3
  <1>5. CASE ~RecordLayer(w)
    <2>1. UNCHANGED outputs BY <1>5, RunIsLocal
    <2>2. RowExists(j)
      <3>1. UNCHANGED status \/ \E s : UpdateJobStatus(Job(w), s)
        BY DEF RunStep, FaultStep, LoadJob, SkipMissingJob, WriteInitializing, Analyse,
           UploadLayer, RecordLayer, WriteComplete, PublishCompleted, WriteFailed,
           PublishFailed, RaiseUncaught, RaiseCaught, RaiseBeforeLoad, ChildKilled, Crash,
           VisibilityTimeout, WriteStatus, OnlyWorker, OnlyOutputs, OnlyQueue,
           NoApiChange, apiVars
      <3>2. QED BY <1>1, <3>1 DEF UpdateJobStatus, RowExists, TypeOK, ApiTypeOK
    <2>3. Concluded(j)
      <3>1. ASSUME status'[j] = "COMPLETE", status[j] # "COMPLETE"
            PROVE  Job(w) = j /\ worker[w].pc = "complete"
        <4>1. Job(w) = j BY <1>1, <3>1, RunIsLocal
        <4>2. worker[w].pc = "complete"
          <5>1. ASSUME NEW s, UpdateJobStatus(Job(w), s), s # "COMPLETE" PROVE FALSE
            BY <1>1, <3>1, <4>1, <5>1 DEF UpdateJobStatus, TypeOK, ApiTypeOK
          <5>2. ~UNCHANGED status BY <3>1
          <5>3. WriteComplete(w)
            BY <5>1, <5>2
            DEF RunStep, FaultStep, LoadJob, SkipMissingJob, WriteInitializing, Analyse,
                UploadLayer, RecordLayer, PublishCompleted, WriteFailed, PublishFailed,
                RaiseUncaught, RaiseCaught, RaiseBeforeLoad, ChildKilled, Crash,
                VisibilityTimeout, WriteStatus, OnlyWorker, OnlyOutputs, OnlyQueue,
                NoApiChange, apiVars
          <5>4. QED BY <5>3 DEF WriteComplete, At
        <4>3. QED BY <4>1, <4>2
      <3>2. ASSUME "completed" \in announced'[j], "completed" \notin announced[j]
            PROVE  Job(w) = j /\ worker[w].pc = "announce"
        <4>1. Job(w) = j BY <1>1, <3>2, RunIsLocal
        <4>2. ~Announce(w, "failed") /\ ~UNCHANGED announced
          BY <1>1, <3>2, <4>1 DEF Announce, TypeOK
        <4>3. QED
          BY <4>1, <4>2
          DEF RunStep, FaultStep, At, LoadJob, SkipMissingJob, WriteInitializing,
              Analyse, UploadLayer, RecordLayer, WriteComplete, PublishCompleted,
              WriteFailed, PublishFailed, RaiseUncaught, RaiseCaught, RaiseBeforeLoad,
              ChildKilled, Crash, VisibilityTimeout, WriteStatus, OnlyWorker, InDoubt
      <3>3. ASSUME NEW v \in Workers, Job(v)' = j, worker'[v].pc \in {"complete", "announce"}
            PROVE  Job(v) = j /\ worker[v].pc \in {"complete", "announce"}
        <4>1. CASE v # w \/ UNCHANGED worker BY <3>3, <4>1, WorkerMoves DEF Job
        <4>2. CASE v = w /\ WriteComplete(w)
          BY <3>3, <4>2, WorkerMoves DEF WriteComplete, At, Job
        <4>3. QED BY <1>5, <3>3, <4>1, <4>2, WorkerMoves
      <3>4. QED BY <3>1, <3>2, <3>3 DEF Concluded
    <2>4. QED BY <1>1, <2>1, <2>2, <2>3 DEF ConcludedHasItsLayer
  <1>6. QED BY <1>4, <1>5

LEMMA ConcludedStep ==
  Base /\ LoadedJobsExist /\ ConcludedHasItsLayer /\ [Next]_vars => ConcludedHasItsLayer'
  <1> SUFFICES ASSUME Base, LoadedJobsExist, ConcludedHasItsLayer, [Next]_vars
               PROVE  ConcludedHasItsLayer'
    OBVIOUS
  <1>1. ASSUME UNCHANGED <<status, outputs, resurrected, announced>>,
               \A v \in Workers : worker'[v] = worker[v] \/ worker'[v].pc = "load"
        PROVE  ConcludedHasItsLayer'
    BY <1>1 DEF ConcludedHasItsLayer, RowExists, Concluded, Job
  <1>2. ASSUME NEW m \in submitted, ConsumerStep(m) PROVE ConcludedHasItsLayer'
    BY <1>1, <1>2
    DEF ConsumerStep, Dispatch, Ignore, DispatchFails, DispatchTwice, Acknowledge, OnlyQueue
  <1>3. ASSUME NEW w \in Workers, NEW m \in tasks, Take(w, m) PROVE ConcludedHasItsLayer'
    BY <1>1, <1>3 DEF Take, NoApiChange, apiVars, Base, TypeOK
  <1>4. CASE UNCHANGED vars BY <1>1, <1>4 DEF vars, apiVars, satelliteVars
  <1>5. QED BY <1>2, <1>3, <1>4, ApiConcluded, RunConcluded DEF Next

\* Whoever is told that an analytics job is complete finds its layer.
THEOREM SatelliteVerdicts == Spec => []VerdictHasItsLayer
  <1>1. Init => LoadedJobsExist /\ ConcludedHasItsLayer
    BY DEF Init, ApiInit, LoadedJobsExist, ConcludedHasItsLayer, RowExists, NoRow, NoRun
  <1>2. ConcludedHasItsLayer => VerdictHasItsLayer
    BY DEF ConcludedHasItsLayer, VerdictHasItsLayer, Concluded
  <1>3. QED
    BY <1>1, <1>2, BaseInvariant, LoadedStep, ConcludedStep, PTL DEF Spec

-----------------------------------------------------------------------------
(* No silent loss.                                                          *)

\* A job is owed a verdict when its row is active or about to be: once the
\* submission is out, the commit will make it so.
Owed(j) ==
  \/ status[j] \in ActiveStatuses
  \/ \E r \in Requests : request[r].op = "published" /\ request[r].job = j

OwedIsPending == \A j \in Jobs : Owed(j) => Pending(j) \/ dropped[j] # {}

\* Nothing that is pending stops being so while its carrier stays.
LEMMA PendingKept ==
  ASSUME submitted \subseteq submitted', tasks \subseteq tasks', NEW j \in Jobs,
         \A v \in Workers :
           Job(v) = j /\ worker[v].pc \in BeforeVerdict =>
             worker'[v].job = j /\ worker'[v].pc \in BeforeVerdict,
         Pending(j)
  PROVE  Pending(j)'
  BY DEF Pending, Job

\* A row that exists but is not active is not owed anything: no request can be
\* about to create it.
LEMMA NotOwed ==
  ASSUME Base, NEW j \in Jobs, status[j] # "UNUSED", UNCHANGED request,
         status'[j] \notin ActiveStatuses
  PROVE  ~Owed(j)'
  BY DEF Base, RequestsHold, Creating, Owed

\* How a run stops being on its way to a verdict: its job's row says so, the
\* delivery is queued again, or its end is accounted for.
LEMMA RunEnds ==
  ASSUME Base, LoadedJobsExist, NEW w \in Workers, RunStep(w) \/ FaultStep(w),
         NEW j \in Jobs, j = Job(w), Owed(j)',
         worker[w].pc \in BeforeVerdict, worker'[w].pc \notin BeforeVerdict
  PROVE  Pending(j)' \/ dropped'[j] # {}
  <1> USE DEF Base
  <1>0. UNCHANGED request BY RunIsLocal
  <1>1. ASSUME NEW why, Drop(j, why) PROVE dropped'[j] # {}
    BY <1>0, <1>1 DEF Drop, TypeOK
  <1>2. ASSUME NEW s \in {"COMPLETE", "FAILED"}, UpdateJobStatus(j, s), status[j] # "UNUSED"
        PROVE  FALSE
    <2>1. status'[j] \notin ActiveStatuses
      BY <1>0, <1>2
      DEF UpdateJobStatus, RowExists, NoRow, TypeOK, ApiTypeOK, JobState, ActiveStatuses,
          RunningStatuses
    <2>2. QED BY <1>0, <1>2, <2>1, NotOwed
  <1>3. CASE SkipMissingJob(w)
    <2>1. CASE status[j] = "UNUSED"
      BY <1>1, <1>3, <2>1 DEF SkipMissingJob
    <2>2. CASE status[j] # "UNUSED"
      <3>1. status'[j] = "GONE"
        BY <1>3, <2>2 DEF SkipMissingJob, RowExists, NoRow, NoApiChange, apiVars
      <3>2. status'[j] \notin ActiveStatuses BY <3>1 DEF ActiveStatuses, RunningStatuses
      <3>3. QED BY <1>0, <2>2, <3>2, NotOwed
    <2>3. QED BY <2>1, <2>2
  <1>4. CASE RaiseBeforeLoad(w)
    BY <1>1, <1>2, <1>4 DEF RaiseBeforeLoad
  <1>5. CASE WriteComplete(w) \/ WriteFailed(w)
    <2>1. status[j] # "UNUSED"
      BY <1>5 DEF WriteComplete, WriteFailed, At, LoadedJobsExist
    <2>2. QED BY <1>2, <1>5, <2>1 DEF WriteComplete, WriteFailed, WriteStatus
  <1>6. CASE RaiseUncaught(w) \/ ChildKilled(w)
    BY <1>1, <1>6 DEF RaiseUncaught, ChildKilled, BeforeVerdict, At
  <1>7. CASE Crash(w)
    <2> DEFINE t == [job |-> j, copy |-> worker[w].copy]
    <2>1. t \in tasks' /\ t.job = j BY <1>7 DEF Crash, Requeue
    <2>2. QED BY <2>1 DEF Pending
  <1>8. ASSUME NEW pc \in BeforeVerdict, GoTo(w, pc) PROVE FALSE
    BY <1>8 DEF GoTo, TypeOK
  <1>9. CASE LoadJob(w) \/ WriteInitializing(w) \/ UploadLayer(w)
    BY <1>8, <1>9 DEF LoadJob, WriteInitializing, UploadLayer, BeforeVerdict
  <1>10. CASE Analyse(w)
    <2>1. \E pc \in {"upload", "fail"} : worker'[w].pc = pc
      BY <1>10 DEF Analyse, AnalyseTo, GoTo, TypeOK, Runs
    <2>2. QED BY <2>1 DEF BeforeVerdict
  <1>11. CASE RecordLayer(w) \/ RaiseCaught(w)
    <2>1. \E pc \in {"complete", "fail"} : worker'[w].pc = pc
      BY <1>11 DEF RecordLayer, RaiseCaught, TypeOK, Runs
    <2>2. QED BY <2>1 DEF BeforeVerdict
  <1>12. CASE VisibilityTimeout(w) BY <1>12 DEF VisibilityTimeout
  <1>13. CASE PublishCompleted(w) \/ PublishFailed(w)
    BY <1>13 DEF PublishCompleted, PublishFailed, At, BeforeVerdict
  <1>14. QED
    BY <1>3, <1>4, <1>5, <1>6, <1>7, <1>9, <1>10, <1>11, <1>12, <1>13
    DEF RunStep, FaultStep

LEMMA RunLoss ==
  ASSUME Base, LoadedJobsExist, OwedIsPending, NEW w \in Workers,
         RunStep(w) \/ FaultStep(w)
  PROVE  OwedIsPending'
  <1> SUFFICES ASSUME NEW j \in Jobs, Owed(j)' PROVE Pending(j)' \/ dropped'[j] # {}
    BY DEF OwedIsPending
  <1> USE DEF Base
  <1>1. \A v \in Workers \ {w} : worker'[v] = worker[v] BY WorkerMoves
  <1>2. tasks \subseteq tasks' /\ UNCHANGED <<submitted, request>>
        /\ dropped[j] \subseteq dropped'[j]
    BY RunIsLocal
  <1>3. CASE j = Job(w) /\ worker'[w].pc \in BeforeVerdict
    <2>1. worker'[w].job = j BY <1>3, WorkerMoves DEF BeforeVerdict
    <2>2. QED BY <1>3, <2>1 DEF Pending, Job
  <1>4. CASE j = Job(w) /\ worker[w].pc \in BeforeVerdict /\ worker'[w].pc \notin BeforeVerdict
    BY <1>4, RunEnds
  <1>5. CASE j # Job(w) \/ worker[w].pc \notin BeforeVerdict
    <2>1. Pending(j) => Pending(j)'
      BY <1>1, <1>2, <1>5, PendingKept DEF Job
    <2>2. CASE j # Job(w)
      <3>1. Owed(j) BY <1>2, <2>2, RunIsLocal DEF Owed
      <3>2. QED BY <1>2, <2>1, <3>1 DEF OwedIsPending
    <2>3. CASE j = Job(w) /\ worker[w].pc \notin BeforeVerdict
      <3>1. UNCHANGED status
        BY <2>3
        DEF RunStep, FaultStep, At, BeforeVerdict, LoadJob, SkipMissingJob,
            WriteInitializing, Analyse, UploadLayer, RecordLayer, WriteComplete,
            PublishCompleted, WriteFailed, PublishFailed, RaiseUncaught, RaiseCaught,
            RaiseBeforeLoad, ChildKilled, Crash, VisibilityTimeout, WriteStatus,
            OnlyWorker, OnlyOutputs, OnlyQueue, NoApiChange, apiVars
      <3>2. Owed(j) BY <1>2, <3>1 DEF Owed
      <3>3. QED BY <1>2, <2>1, <3>2 DEF OwedIsPending
    <2>4. QED BY <1>5, <2>2, <2>3
  <1>6. QED BY <1>3, <1>4, <1>5

\* The requests: a submission is out, and thus pending, before its row can be
\* committed; no request makes a row active in any other way.
LEMMA ApiLoss ==
  ASSUME Base, OwedIsPending, ApiNext, UNCHANGED satelliteVars
  PROVE  OwedIsPending'
  <1> SUFFICES ASSUME NEW j \in Jobs, Owed(j)' PROVE Pending(j)' \/ dropped'[j] # {}
    BY DEF OwedIsPending
  <1> USE DEF Base, TypeOK, ApiTypeOK
  <1>1. UNCHANGED <<tasks, worker, dropped>> BY DEF satelliteVars
  <1>2. ASSUME submitted \subseteq submitted', Owed(j)
        PROVE  Pending(j)' \/ dropped'[j] # {}
    BY <1>1, <1>2, PendingKept DEF Job, OwedIsPending
  <1>3. ASSUME NEW r \in Requests, CreatePublish(r)
        PROVE  Pending(j)' \/ dropped'[j] # {}
    <2>1. CASE request[r].job = j
      <3>1. [job |-> j, copy |-> 1] \in submitted' BY <1>3, <2>1 DEF CreatePublish
      <3>2. QED BY <3>1 DEF Pending
    <2>2. CASE request[r].job # j
      <3>1. Owed(j) BY <1>3, <2>2 DEF CreatePublish, Open, Owed
      <3>2. QED BY <1>2, <1>3, <3>1 DEF CreatePublish
    <2>3. QED BY <2>1, <2>2
  <1>4. ASSUME NEW r \in Requests, CreateAbort(r) \/ CreateRollback(r) \/ CancelSave(r)
        PROVE  submitted' = submitted /\ Owed(j)
    <2>1. /\ submitted' = submitted /\ Close(r)
          /\ status'[j] \in ActiveStatuses => status[j] = status'[j]
      BY <1>4 DEF CreateAbort, CreateRollback, CancelSave, ActiveStatuses, RunningStatuses
    <2>2. QED BY <2>1 DEF Close, NoRequest, Owed
  <1>5. ASSUME NEW r \in Requests, CreateCommit(r) PROVE submitted' = submitted /\ Owed(j)
    BY <1>5 DEF CreateCommit, Close, NoRequest, Owed
  <1>6. ASSUME NEW r \in Requests, NEW i \in Jobs, CreateCheck(r, i) \/ CancelRead(r, i)
        PROVE  submitted' = submitted /\ Owed(j)
    <2>1. /\ UNCHANGED <<submitted, status>>
          /\ \E op \in {"counted", "cancelling"} : Open(r, op, i)
      BY <1>6 DEF CreateCheck, CancelRead
    <2>2. QED BY <2>1 DEF Open, Owed
  <1>7. ASSUME NEW i \in Jobs, Remove(i) PROVE submitted' = submitted /\ Owed(j)
    BY <1>7 DEF Remove, Owed, ActiveStatuses, RunningStatuses
  <1>8. ASSUME NEW m \in Missions, RemoveMission(m) PROVE submitted' = submitted /\ Owed(j)
    BY <1>8 DEF RemoveMission, Owed, ActiveStatuses, RunningStatuses
  <1>9. QED
    BY <1>2, <1>3, <1>4, <1>5, <1>6, <1>7, <1>8 DEF ApiNext, RequestStep

\* The queues: a message leaves one only for the next carrier or with a reason.
LEMMA QueueLoss ==
  ASSUME Base, OwedIsPending,
         \/ \E m \in submitted : ConsumerStep(m)
         \/ \E w \in Workers, t \in tasks : Take(w, t)
         \/ UNCHANGED vars
  PROVE  OwedIsPending'
  <1> SUFFICES ASSUME NEW j \in Jobs, Owed(j) PROVE Pending(j)' \/ dropped'[j] # {}
    <2>1. UNCHANGED <<status, request>>
      BY DEF ConsumerStep, Dispatch, Ignore, DispatchFails, DispatchTwice, Acknowledge,
             Take, OnlyQueue, NoApiChange, vars, apiVars
    <2>2. QED BY <2>1 DEF OwedIsPending, Owed
  <1> USE DEF Base, TypeOK, ApiTypeOK
  <1>1. Pending(j) \/ dropped[j] # {} BY DEF OwedIsPending
  <1>2. ASSUME NEW m \in submitted, Dispatch(m) \/ DispatchTwice(m)
        PROVE  Pending(j)' \/ dropped'[j] # {}
    <2>1. m \in tasks' BY <1>2 DEF Dispatch, DispatchTwice
    <2>2. CASE m.job = j BY <2>1, <2>2 DEF Pending
    <2>3. CASE m.job # j
      BY <1>1, <1>2, <2>3
      DEF Dispatch, DispatchTwice, Acknowledge, Consume, Redeliver, Pending, Job
    <2>4. QED BY <2>2, <2>3
  <1>3. ASSUME NEW m \in submitted, Ignore(m) \/ DispatchFails(m)
        PROVE  Pending(j)' \/ dropped'[j] # {}
    <2>1. m.job \in Jobs BY DEF Messages
    <2> DEFINE i == m.job
    <2>2. PICK why : dropped' = [dropped EXCEPT ![i] = @ \cup {why}]
      BY <1>3 DEF Ignore, DispatchFails, Drop
    <2>3. submitted' = submitted \ {m} /\ UNCHANGED <<tasks, worker>>
      BY <1>3 DEF Ignore, DispatchFails, Acknowledge, Consume
    <2>4. CASE i = j BY <2>2, <2>4
    <2>5. CASE i # j
      <3>1. dropped'[j] = dropped[j] BY <2>2, <2>5
      <3>2. Pending(j) => Pending(j)' BY <2>3, <2>5 DEF Pending, Job
      <3>3. QED BY <1>1, <3>1, <3>2
    <2>6. QED BY <2>4, <2>5
  <1>4. ASSUME NEW w \in Workers, NEW t \in tasks, Take(w, t)
        PROVE  Pending(j)' \/ dropped'[j] # {}
    <2>1. worker'[w].job = t.job /\ worker'[w].pc \in BeforeVerdict
      BY <1>4 DEF Take, BeforeVerdict
    <2>2. CASE t.job = j BY <2>1, <2>2 DEF Pending, Job
    <2>3. CASE t.job # j
      BY <1>1, <1>4, <2>3 DEF Take, At, NoApiChange, apiVars, Pending, Job, BeforeVerdict
    <2>4. QED BY <2>2, <2>3
  <1>5. ASSUME UNCHANGED <<submitted, tasks, worker, dropped>>
        PROVE  Pending(j)' \/ dropped'[j] # {}
    BY <1>1, <1>5, PendingKept DEF Job
  <1>6. QED
    BY <1>2, <1>3, <1>4, <1>5 DEF ConsumerStep, vars, apiVars, satelliteVars

\* An analytics job that the table shows as active still has a delivery under
\* way, or one of its deliveries ended in a way that is accounted for.
THEOREM SatelliteNoSilentLoss == Spec => []NoSilentLoss
  <1>1. Init => LoadedJobsExist /\ OwedIsPending
    BY DEF Init, ApiInit, LoadedJobsExist, OwedIsPending, Owed, NoRun, NoRequest,
           ActiveStatuses, RunningStatuses
  <1>2. Base /\ LoadedJobsExist /\ OwedIsPending /\ [Next]_vars => OwedIsPending'
    BY RunLoss, ApiLoss, QueueLoss DEF Next
  <1>3. OwedIsPending => NoSilentLoss
    BY DEF OwedIsPending, Owed, NoSilentLoss
  <1>4. QED
    BY <1>1, <1>2, <1>3, BaseInvariant, LoadedStep, PTL DEF Spec

-----------------------------------------------------------------------------
(* What a run computes.                                                     *)

\* No ratio divides by zero, and one whose numerator is at most its denominator
\* is in range.
LEMMA RatioSound ==
  ASSUME NEW num \in Int, NEW den \in Int
  PROVE  /\ Ratio(num, den).den # 0
         /\ -den <= num /\ num <= den => InRange(Ratio(num, den))
         /\ den <= num /\ num <= -den => InRange(Ratio(num, den))
         /\ -(3 * den) <= 2 * num /\ 2 * num <= 3 * den
              => InRange([num |-> 2 * Ratio(num, den).num, den |-> 3 * Ratio(num, den).den])
  <1>1. CASE den = 0 BY <1>1 DEF Ratio, InRange
  <1>2. CASE den # 0
    <2>1. Ratio(num, den) = [num |-> num, den |-> den] BY <1>2 DEF Ratio
    <2>2. CASE den > 0
      <3>1. 3 * den > 0 BY <2>2
      <3>2. QED BY <2>1, <2>2, <3>1 DEF InRange
    <2>3. CASE den < 0
      <3>1. ~(-(3 * den) <= 2 * num /\ 2 * num <= 3 * den) BY <2>3
      <3>2. QED BY <2>1, <2>3, <3>1 DEF InRange
    <2>4. QED BY <1>2, <2>2, <2>3
  <1>3. QED BY <1>1, <1>2

\* A normalised difference of two numbers of one sign is in range.
LEMMA NormalisedSound ==
  ASSUME NEW a \in Int, NEW b \in Int
  PROVE  /\ Normalised(a, b).den # 0
         /\ (a >= 0 /\ b >= 0) \/ (a <= 0 /\ b <= 0) => InRange(Normalised(a, b))
  <1>1. a - b \in Int /\ a + b \in Int OBVIOUS
  <1>2. a >= 0 /\ b >= 0 => -(a + b) <= a - b /\ a - b <= a + b OBVIOUS
  <1>3. a <= 0 /\ b <= 0 => a + b <= a - b /\ a - b <= -(a + b) OBVIOUS
  <1>4. QED BY <1>1, <1>2, <1>3, RatioSound DEF Normalised

\* An index at a pixel whose required bands hold integers.
LEMMA IndexSound ==
  ASSUME NEW name \in IndexNames, NEW v, \A role \in RequiredBands[name] : v[role] \in Int
  PROVE  ValueSound(name, [value |-> IndexAt(name, v), samples |-> v])
  <1> DEFINE value == IndexAt(name, v)
             Sign == NonNegative(name, v) \/ NonPositive(name, v)
  <1>0. IndexNames = {"NDVI", "NDWI", "NDBI", "EVI", "SAVI", "NBR", "NDSI", "BSI"}
    BY DEF IndexNames, RequiredBands
  <1> SUFFICES /\ value.den # 0
               /\ name \notin {"EVI", "SAVI"} /\ Sign => InRange(value)
               /\ name = "SAVI" /\ NonNegative(name, v)
                    => InRange([num |-> 2 * value.num, den |-> 3 * value.den])
    BY DEF ValueSound
  <1>1. CASE name \in {"NDVI", "NDWI", "NDBI", "NBR", "NDSI"}
    <2>1. \E p, q \in RequiredBands[name] : value = Normalised(v[p], v[q])
      <3>1. CASE name = "NDVI" BY <3>1 DEF IndexAt, RequiredBands
      <3>2. CASE name = "NDWI" BY <3>2 DEF IndexAt, RequiredBands
      <3>3. CASE name = "NDBI" BY <3>3 DEF IndexAt, RequiredBands
      <3>4. CASE name = "NBR" BY <3>4 DEF IndexAt, RequiredBands
      <3>5. CASE name = "NDSI" BY <3>5 DEF IndexAt, RequiredBands
      <3>6. QED BY <1>1, <3>1, <3>2, <3>3, <3>4, <3>5
    <2>2. PICK p, q \in RequiredBands[name] : value = Normalised(v[p], v[q]) BY <2>1
    <2> HIDE DEF value
    <2>3. v[p] \in Int /\ v[q] \in Int OBVIOUS
    <2>4. Sign => (v[p] >= 0 /\ v[q] >= 0) \/ (v[p] <= 0 /\ v[q] <= 0)
      BY DEF NonNegative, NonPositive
    <2>5. QED BY <1>1, <2>2, <2>3, <2>4, NormalisedSound
  <1>2. CASE name = "BSI"
    <2>1. PICK s, r, n, b \in Int : s = v.swir1 /\ r = v.red /\ n = v.nir /\ b = v.blue
      BY <1>2 DEF RequiredBands
    <2>2. value = Normalised(s + r, n + b) BY <1>2, <2>1 DEF IndexAt
    <2>3. Sign => \/ s >= 0 /\ r >= 0 /\ n >= 0 /\ b >= 0
                  \/ s <= 0 /\ r <= 0 /\ n <= 0 /\ b <= 0
      BY <1>2, <2>1 DEF NonNegative, NonPositive, RequiredBands
    <2> HIDE DEF value
    <2>4. s + r \in Int /\ n + b \in Int BY <2>1
    <2>5. Sign => (s + r >= 0 /\ n + b >= 0) \/ (s + r <= 0 /\ n + b <= 0)
      <3> HIDE DEF Sign
      <3>1. QED BY <2>1, <2>3
    <2>6. QED BY <1>2, <2>2, <2>4, <2>5, NormalisedSound
  <1>3. CASE name = "SAVI"
    <2>1. PICK n, r \in Int : n = v.nir /\ r = v.red BY <1>3 DEF RequiredBands
    <2>2. IndexAt(name, v) = Ratio(3 * (n - r), 2 * (n + r) + Unit)
      BY <1>3, <2>1 DEF IndexAt
    <2> DEFINE num == 3 * (n - r)
               den == 2 * (n + r) + Unit
    <2>3. num \in Int /\ den \in Int BY AnalyticsAssumption
    <2>4. NonNegative(name, v) => n >= 0 /\ r >= 0
      BY <1>3, <2>1 DEF NonNegative, RequiredBands
    <2>5. n >= 0 /\ r >= 0 => -(3 * den) <= 2 * num /\ 2 * num <= 3 * den
      BY AnalyticsAssumption
    <2>6. IndexAt(name, v) = Ratio(num, den) BY <2>2
    <2> HIDE DEF num, den
    <2>7. QED BY <1>3, <2>3, <2>4, <2>5, <2>6, RatioSound
  <1>4. CASE name = "EVI"
    <2>1. PICK n, r, b \in Int : n = v.nir /\ r = v.red /\ b = v.blue
      BY <1>4 DEF RequiredBands
    <2>2. IndexAt(name, v) = Ratio(5 * (n - r), 2 * n + 12 * r - 15 * b + 2 * Unit)
      BY <1>4, <2>1 DEF IndexAt
    <2>3. IndexAt(name, v).den # 0 BY <2>2 DEF Ratio
    <2>4. QED BY <1>4, <2>3
  <1>5. QED BY <1>0, <1>1, <1>2, <1>3, <1>4

LEMMA SpectralSound ==
  ASSUME NEW i \in SpectralInputs, SpectralValid(i), NEW v \in Spectral(i).values
  PROVE  ValueSound(i.index, v)
  <1> DEFINE read == ReadBands(i.raster, i.bands)
             at(p) == Samples(read, p)
  <1>1. PICK p \in Pixels : v = [value |-> IndexAt(i.index, at(p)), samples |-> at(p)]
    BY DEF Spectral, ComputeIndex
  <1>2. i.index \in IndexNames /\ RequiredBands[i.index] \subseteq DOMAIN i.bands
    BY DEF SpectralValid, Computable
  <1>3. \A role \in DOMAIN i.bands : i.raster[i.bands[role]] \in Band
    BY SatelliteAssumption DEF SpectralValid, Readable
  <1>4. \A role \in DOMAIN i.bands : at(p)[role] = i.raster[i.bands[role]][p]
    BY DEF ReadBands, Samples
  <1>5. \A role \in RequiredBands[i.index] : at(p)[role] \in Int
    BY <1>2, <1>3, <1>4 DEF Band
  <1> HIDE DEF at
  <1>6. QED BY <1>1, <1>2, <1>5, IndexSound

\* Above a positive threshold no pixel changed both up and down.
LEMMA SummarySound ==
  ASSUME NEW change \in [Pixels -> Int], NEW threshold \in Int, threshold > 0
  PROVE  LET summary == ChangeSummary(change, threshold) IN
         summary.changed = summary.increased + summary.decreased
  <1> DEFINE up == Increased(change, threshold)
             down == Decreased(change, threshold)
  <1>1. IsFiniteSet(up) /\ IsFiniteSet(down)
    BY FS_Subset, AnalyticsAssumption DEF Increased, Decreased
  <1>2. up \cap down = {} BY DEF Increased, Decreased
  <1>3. ThresholdMask(change, threshold) = up \cup down
    BY DEF ThresholdMask, Increased, Decreased, Magnitude
  <1>4. Cardinality(up) \in Nat /\ Cardinality(down) \in Nat
        /\ Cardinality(up \cup down) = Cardinality(up) + Cardinality(down)
    <2> HIDE DEF up, down
    <2>1. Cardinality(up \cup down)
            = Cardinality(up) + Cardinality(down) - Cardinality(up \cap down)
      BY <1>1, FS_Union
    <2>2. Cardinality(up \cap down) = 0 BY <1>2, FS_EmptySet
    <2>3. QED BY <1>1, <2>1, <2>2, FS_CardinalityType
  <1>5. QED BY <1>3, <1>4 DEF ChangeSummary

LEMMA ChangeSound ==
  ASSUME NEW i \in ChangeInputs, ChangeValid(i), Change(i).threshold > 0
  PROVE  Change(i).summary.changed
           = Change(i).summary.increased + Change(i).summary.decreased
  <1> DEFINE change == Difference(i.earlier[i.band], i.later[i.band])
  <1>1. i.earlier[i.band] \in Band /\ i.later[i.band] \in Band /\ i.threshold \in Int
    BY SatelliteAssumption DEF ChangeValid
  <1>2. change \in [Pixels -> Int] BY <1>1 DEF Difference, Band
  <1>3. Change(i).threshold = i.threshold
        /\ Change(i).summary = ChangeSummary(change, i.threshold)
    BY DEF Change
  <1> HIDE DEF change
  <1>4. QED BY <1>1, <1>2, <1>3, SummarySound

\* What a run is about to record was computed from an input that passed its
\* checks, so it divides by nothing that is zero, keeps to its range where the
\* samples are not of mixed signs and counts every change once: for every scene,
\* whatever integers its bands hold.
THEOREM SatelliteResults == Spec => []ResultsAreSound
  <1>1. TypeOK => ResultsAreSound
    <2> SUFFICES ASSUME TypeOK, NEW w \in Workers, NEW r \in worker[w].result
                 PROVE  IF r.op = "SPECTRAL_ANALYSIS"
                        THEN \A v \in r.values : ValueSound(r.index, v)
                        ELSE r.threshold > 0 =>
                               r.summary.changed = r.summary.increased + r.summary.decreased
      BY DEF ResultsAreSound
    <2>1. r \in Results BY DEF TypeOK, Runs
    <2>2. ASSUME NEW i \in SpectralInputs, SpectralValid(i), r = Spectral(i)
          PROVE  \A v \in r.values : ValueSound(r.index, v)
      <3>1. r.index = i.index BY <2>2 DEF Spectral
      <3>2. QED BY <2>2, <3>1, SpectralSound
    <2>3. ASSUME NEW i \in SpectralInputs, r = Spectral(i) PROVE r.op = "SPECTRAL_ANALYSIS"
      BY <2>3 DEF Spectral
    <2>4. ASSUME NEW i \in ChangeInputs, r = Change(i) PROVE r.op # "SPECTRAL_ANALYSIS"
      BY <2>4 DEF Change
    <2>5. ASSUME NEW i \in ChangeInputs, ChangeValid(i), r = Change(i), r.threshold > 0
          PROVE  r.summary.changed = r.summary.increased + r.summary.decreased
      BY <2>5, ChangeSound
    <2>6. QED BY <2>1, <2>2, <2>3, <2>4, <2>5 DEF Results
  <1>2. QED BY <1>1, SatelliteTyping, PTL
=============================================================================
