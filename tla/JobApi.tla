------------------------------- MODULE JobApi -------------------------------
(***************************************************************************)
(* The job side of the core service: the jobs table, the outputs that hang *)
(* off it, the missions it references, and the HTTP requests that create,  *)
(* cancel and delete jobs.                                                 *)
(*                                                                         *)
(* Every authenticated request runs inside ONE database transaction at     *)
(* READ COMMITTED: what it writes is seen by others when it commits, while *)
(* what it publishes to RabbitMQ is seen at once.  A request is therefore  *)
(* split where another actor can get in between: after the quota count,    *)
(* after the publish, and between the read and the save of a cancellation. *)
(***************************************************************************)
EXTENDS JobStatus

CONSTANTS
  Jobs,        \* job ids that may be handed out
  Missions,    \* mission ids
  MissionOf,   \* the mission a job id belongs to
  TypeOf,      \* the type of the job with this id
  Requests,    \* slots for requests that are open at the same time
  Limit,       \* limits.concurrentJobs of the organisation
  NoJob,       \* "no job", for a free request or worker slot
  Assets,      \* output assets of one run are 1..Assets
  MaxCopies,   \* bound: deliveries of one submission, redelivered ones included
  Faults       \* environment faults that may happen in this instance

FaultKinds == {"publish", "rollback", "dispatch", "exception", "timeLimit",
               "workerLost", "crash", "redelivery", "outage"}

ASSUME JobApiAssumption ==
  /\ IsFiniteSet(Jobs)
  /\ IsFiniteSet(Requests)
  /\ Requests # {}
  /\ MissionOf \in [Jobs -> Missions]
  /\ TypeOf \in [Jobs -> JobTypes]
  /\ Limit \in Nat
  /\ NoJob \notin Jobs
  /\ Assets \in Nat
  /\ MaxCopies \in Nat \ {0}
  /\ Faults \subseteq FaultKinds

VARIABLES
  status,      \* committed state of each job id
  outputs,     \* committed processing_outputs rows: how many per job and asset
  mission,     \* committed mission status, "GONE" once deleted
  request,     \* the open requests
  submitted,   \* job.submitted messages in the service's durable queue
  copies,      \* deliveries of each submission that ever existed
  resurrected, \* history: jobs a stale cancellation re-inserted
  revived      \* history: jobs a service took from a terminal to an active status

apiVars == <<status, outputs, mission, request, submitted, copies,
             resurrected, revived>>

AssetIds == 1 .. Assets
Messages == [job : Jobs, copy : 1 .. MaxCopies]
RequestOps == {"idle", "counted", "published", "cancelling"}
NoRequest == [op |-> "idle", job |-> NoJob]
NoOutputs == [a \in AssetIds |-> 0]

ApiTypeOK ==
  /\ status \in [Jobs -> JobState]
  /\ outputs \in [Jobs -> [AssetIds -> Nat]]
  /\ mission \in [Missions -> MissionStatuses \cup {"GONE"}]
  /\ request \in [Requests -> [op : RequestOps, job : Jobs \cup {NoJob}]]
  /\ \A r \in Requests : request[r].op # "idle" => request[r].job \in Jobs
  /\ submitted \subseteq Messages
  /\ copies \in [Jobs -> 0 .. MaxCopies]
  /\ resurrected \subseteq Jobs
  /\ revived \subseteq Jobs

ApiInit ==
  /\ status = [j \in Jobs |-> "UNUSED"]
  /\ outputs = [j \in Jobs |-> NoOutputs]
  /\ mission \in [Missions -> {"CREATED", "READY"}]
  /\ request = [r \in Requests |-> NoRequest]
  /\ submitted = {}
  /\ copies = [j \in Jobs |-> 0]
  /\ resurrected = {}
  /\ revived = {}

-----------------------------------------------------------------------------
RowExists(j) == status[j] \notin NoRow
ActiveJobs == {j \in Jobs : status[j] \in ActiveStatuses}
Creating == {r \in Requests : request[r].op \in {"counted", "published"}}
MissionExists(j) == mission[MissionOf[j]] # "GONE"

Open(r, op, j) == request' = [request EXCEPT ![r] = [op |-> op, job |-> j]]
Close(r) == request' = [request EXCEPT ![r] = NoRequest]

\* Mutant: a job may be added to an organisation that is at its limit.
CreateCheck_OffByOne(r, j) ==
  /\ request[r] = NoRequest
  /\ status[j] = "UNUSED"
  /\ \A q \in Requests : request[q].job # j
  /\ MissionExists(j)
  /\ Cardinality(ActiveJobs) <= Limit
  /\ Open(r, "counted", j)
  /\ UNCHANGED <<status, outputs, mission, submitted, copies, resurrected, revived>>

\* JobService.create up to the quota check: the mission is read, the active
\* jobs are counted as this transaction sees them, and the request goes on
\* only below the limit (a refusal with 429 changes nothing).
CreateCheck(r, j) ==
  /\ request[r] = NoRequest
  /\ status[j] = "UNUSED"
  /\ \A q \in Requests : request[q].job # j
  /\ MissionExists(j)
  /\ Cardinality(ActiveJobs) < Limit
  /\ Open(r, "counted", j)
  /\ UNCHANGED <<status, outputs, mission, submitted, copies, resurrected, revived>>

\* The insert (invisible until the commit; its foreign key needs the mission)
\* and the publish of job.submitted, which consumers see at once.
CreatePublish(r) ==
  LET j == request[r].job IN
  /\ request[r].op = "counted"
  /\ MissionExists(j)
  /\ submitted' = submitted \cup {[job |-> j, copy |-> 1]}
  /\ copies' = [copies EXCEPT ![j] = 1]
  /\ Open(r, "published", j)
  /\ UNCHANGED <<status, outputs, mission, resurrected, revived>>

\* The insert violates its foreign key (the mission was deleted meanwhile) or
\* the publish is rejected: the exception rolls the transaction back.
CreateAbort(r) ==
  /\ request[r].op = "counted"
  /\ \/ ~MissionExists(request[r].job)
     \/ "publish" \in Faults
  /\ Close(r)
  /\ UNCHANGED <<status, outputs, mission, submitted, copies, resurrected, revived>>

\* The interceptor commits: the row becomes visible.
CreateCommit(r) ==
  /\ request[r].op = "published"
  /\ status' = [status EXCEPT ![request[r].job] = "SUBMITTED"]
  /\ Close(r)
  /\ UNCHANGED <<outputs, mission, submitted, copies, resurrected, revived>>

\* The commit fails after the event is out: the id never gets a row.
CreateRollback(r) ==
  /\ "rollback" \in Faults
  /\ request[r].op = "published"
  /\ status' = [status EXCEPT ![request[r].job] = "GONE"]
  /\ Close(r)
  /\ UNCHANGED <<outputs, mission, submitted, copies, resurrected, revived>>

\* JobService.cancel reads the row and refuses a terminal job (400); the
\* entity it read is what it will save.
CancelRead(r, j) ==
  /\ request[r] = NoRequest
  /\ status[j] \in ActiveStatuses
  /\ Open(r, "cancelling", j)
  /\ UNCHANGED <<status, outputs, mission, submitted, copies, resurrected, revived>>

\* repo.save(entity): updates the row whatever it holds by now, and inserts it
\* again when it is gone (unless the mission it references is gone as well).
CancelSave(r) ==
  LET j == request[r].job IN
  /\ request[r].op = "cancelling"
  /\ IF RowExists(j) \/ MissionExists(j)
     THEN /\ status' = [status EXCEPT ![j] = "CANCELLED"]
          /\ resurrected' = IF RowExists(j) THEN resurrected
                            ELSE resurrected \cup {j}
     ELSE UNCHANGED <<status, resurrected>>
  /\ Close(r)
  /\ UNCHANGED <<outputs, mission, submitted, copies, revived>>

\* JobService.remove: the CANCELLED write of a job in flight and the delete
\* commit together, and the delete cascades to the outputs.
Remove(j) ==
  /\ RowExists(j)
  /\ status' = [status EXCEPT ![j] = "GONE"]
  /\ outputs' = [outputs EXCEPT ![j] = NoOutputs]
  /\ UNCHANGED <<mission, request, submitted, copies, resurrected, revived>>

\* MissionService.remove: cascades to the mission's jobs and their outputs.
\* An uncommitted job insert holds a lock on the mission row, so the delete
\* waits for it.
RemoveMission(m) ==
  LET ofMission == {j \in Jobs : MissionOf[j] = m /\ RowExists(j)} IN
  /\ mission[m] # "GONE"
  /\ \A r \in Requests :
       request[r].op = "published" => MissionOf[request[r].job] # m
  /\ mission' = [mission EXCEPT ![m] = "GONE"]
  /\ status' = [j \in Jobs |-> IF j \in ofMission THEN "GONE" ELSE status[j]]
  /\ outputs' = [j \in Jobs |-> IF j \in ofMission THEN NoOutputs ELSE outputs[j]]
  /\ UNCHANGED <<request, submitted, copies, resurrected, revived>>

\* The steps of one open request, and the requests that open or complete at once.
RequestStep(r) ==
  \/ CreatePublish(r)
  \/ CreateAbort(r)
  \/ CreateCommit(r)
  \/ CreateRollback(r)
  \/ CancelSave(r)

ApiNext ==
  \/ \E r \in Requests : RequestStep(r)
  \/ \E r \in Requests, j \in Jobs : CreateCheck(r, j) \/ CancelRead(r, j)
  \/ \E j \in Jobs : Remove(j)
  \/ \E m \in Missions : RemoveMission(m)

-----------------------------------------------------------------------------
(* What the processing services do to the same tables and to the queue.    *)

\* UPDATE jobs SET status ... WHERE id: unconditional, and without effect when
\* there is no row.  Taking a terminal job back to an active status is noted.
UpdateJobStatus(j, s) ==
  IF RowExists(j)
  THEN /\ status' = [status EXCEPT ![j] = s]
       /\ revived' = IF status[j] \in TerminalStatuses /\ s \in ActiveStatuses
                     THEN revived \cup {j} ELSE revived
  ELSE UNCHANGED <<status, revived>>

\* UPDATE missions SET status ... WHERE id: no transition check.
UpdateMissionStatus(m, s) ==
  mission' = IF mission[m] = "GONE" THEN mission ELSE [mission EXCEPT ![m] = s]

\* Mutant: the insert is never committed.
InsertOutput_Lost(j, a) == RowExists(j) /\ UNCHANGED outputs

\* INSERT INTO processing_outputs, which has a foreign key to the job row.
InsertOutput(j, a) ==
  /\ RowExists(j)
  /\ outputs' = [outputs EXCEPT ![j][a] = @ + 1]

\* Mutant: the message is not acknowledged.
Consume_NotAcked(m) == UNCHANGED submitted

\* A message leaves the queue for good, is delivered again under a new copy
\* number, or one that is being worked on is handed out once more.
Consume(m) == submitted' = submitted \ {m}
CanCopy(j) == "redelivery" \in Faults /\ copies[j] < MaxCopies
NewCopy(j) == [job |-> j, copy |-> copies[j] + 1]
CountCopy(j) == copies' = [copies EXCEPT ![j] = @ + 1]
Redeliver(m) == /\ CanCopy(m.job)
                /\ CountCopy(m.job)
                /\ submitted' = (submitted \ {m}) \cup {NewCopy(m.job)}

OnlyJob == UNCHANGED <<outputs, mission, request, submitted, copies, resurrected>>
OnlyMission == UNCHANGED <<status, outputs, request, submitted, copies,
                           resurrected, revived>>
OnlyOutputs == UNCHANGED <<status, mission, request, submitted, copies,
                           resurrected, revived>>
OnlyQueue == UNCHANGED <<status, outputs, mission, request, resurrected, revived>>

\* All that the API may assume of the services: single statements and message
\* deliveries, on any job and in any order.
ServiceNext ==
  \/ \E j \in Jobs, s \in RunningStatuses \cup {"COMPLETE", "FAILED"} :
       UpdateJobStatus(j, s) /\ OnlyJob
  \/ \E m \in Missions, s \in {"PROCESSING", "COMPLETED", "FAILED"} :
       UpdateMissionStatus(m, s) /\ OnlyMission
  \/ \E j \in Jobs, a \in AssetIds : InsertOutput(j, a) /\ OnlyOutputs
  \/ \E m \in submitted : Consume(m) /\ UNCHANGED copies /\ OnlyQueue
  \/ \E m \in submitted : Redeliver(m) /\ OnlyQueue
  \/ \E j \in Jobs : CanCopy(j) /\ CountCopy(j) /\ UNCHANGED submitted /\ OnlyQueue

ApiSpec == ApiInit /\ [][ApiNext \/ ServiceNext]_apiVars

-----------------------------------------------------------------------------
(* Properties.                                                             *)

\* Foreign keys: a job row has its mission, and outputs belong to a job row.
\* Deletes cascade and inserts check, whatever services and requests are doing.
ReferentialIntegrity ==
  \A j \in Jobs :
    /\ RowExists(j) => MissionExists(j)
    /\ ~RowExists(j) => outputs[j] = NoOutputs

\* The concurrency quota counts before it inserts, in transactions that do not
\* see each other: jobs that never came back from a terminal status exceed the
\* limit by at most the number of requests open at once, less one.
QuotaBound ==
  Cardinality(ActiveJobs \ revived) + Cardinality(Creating)
    <= Limit + Cardinality(Requests) - 1

=============================================================================
