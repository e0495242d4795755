---------------------------- MODULE JobApi_proofs ----------------------------
(***************************************************************************)
(* What holds of the job API for every set of jobs, missions and requests, *)
(* every quota and any behaviour of the services: its variables keep their *)
(* types, its foreign keys hold, and the quota is exceeded by no more than *)
(* the requests that overlap.                                              *)
(***************************************************************************)
EXTENDS JobApi, FiniteSetTheorems, TLAPS

\* What an open request has established: a job that is being created has no row
\* yet and is created by one request only, its mission stays while its insert
\* is uncommitted, and a job that is being cancelled has had a row.
RequestsHold ==
  \A r \in Requests :
    /\ r \in Creating =>
         /\ status[request[r].job] = "UNUSED"
         /\ \A q \in Creating : request[q].job = request[r].job => q = r
    /\ request[r].op = "published" => MissionExists(request[r].job)
    /\ request[r].op = "cancelling" =>
         status[request[r].job] # "UNUSED"

ApiInv == ApiTypeOK /\ RequestsHold /\ ReferentialIntegrity

-----------------------------------------------------------------------------
\* Initially nothing is open and no row exists.
LEMMA ApiInitially == ApiInit => ApiInv
  BY JobApiAssumption
  DEF ApiInit, ApiInv, ApiTypeOK, RequestsHold, ReferentialIntegrity, Creating,
      RowExists, NoRow, NoOutputs, NoRequest, RequestOps, JobState, MissionStatuses

\* A status statement of a service writes a status and never makes a row.
LEMMA StatusWrites ==
  ASSUME ApiTypeOK, NEW j \in Jobs, NEW s \in RunningStatuses \cup {"COMPLETE", "FAILED"},
         UpdateJobStatus(j, s)
  PROVE  /\ status' \in [Jobs -> JobState]
         /\ revived' \subseteq Jobs
         /\ \A i \in Jobs : status'[i] \in NoRow <=> status[i] \in NoRow
         /\ \A i \in Jobs : status[i] \in NoRow => status'[i] = status[i]
  BY DEF ApiTypeOK, UpdateJobStatus, RowExists, NoRow, JobState, ActiveStatuses,
         RunningStatuses, TerminalStatuses

\* Every step keeps the types.
LEMMA ApiTypes == ApiTypeOK /\ [ApiNext \/ ServiceNext]_apiVars => ApiTypeOK'
  <1> SUFFICES ASSUME ApiTypeOK, [ApiNext \/ ServiceNext]_apiVars PROVE ApiTypeOK'
    OBVIOUS
  <1> USE DEF ApiTypeOK
  <1>1. ASSUME NEW r \in Requests, RequestStep(r) PROVE ApiTypeOK'
    <2>1. CASE CreatePublish(r)
      <3>1. request[r].job \in Jobs BY <2>1 DEF CreatePublish
      <3>2. request' \in [Requests -> [op : RequestOps, job : Jobs \cup {NoJob}]]
        BY <2>1, <3>1 DEF CreatePublish, Open, RequestOps
      <3>3. QED
        BY <2>1, <3>1, <3>2, JobApiAssumption DEF CreatePublish, Open, Messages
    <2>2. CASE CreateAbort(r)
      BY <2>2 DEF CreateAbort, Close, NoRequest, RequestOps
    <2>3. CASE CreateCommit(r)
      BY <2>3 DEF CreateCommit, Close, NoRequest, RequestOps, JobState, ActiveStatuses
    <2>4. CASE CreateRollback(r)
      BY <2>4 DEF CreateRollback, Close, NoRequest, RequestOps, JobState, NoRow
    <2>5. CASE CancelSave(r)
      <3>1. request[r].job \in Jobs BY <2>5 DEF CancelSave
      <3>2. /\ status' \in [Jobs -> JobState]
            /\ resurrected' \subseteq Jobs
        BY <2>5, <3>1 DEF CancelSave, JobState, TerminalStatuses
      <3>3. QED
        BY <2>5, <3>2 DEF CancelSave, Close, NoRequest, RequestOps
    <2>6. QED BY <1>1, <2>1, <2>2, <2>3, <2>4, <2>5 DEF RequestStep
  <1>2. ASSUME NEW r \in Requests, NEW j \in Jobs, CreateCheck(r, j) \/ CancelRead(r, j)
        PROVE  ApiTypeOK'
    <2>1. \E op \in {"counted", "cancelling"} : Open(r, op, j)
      BY <1>2 DEF CreateCheck, CancelRead
    <2>2. UNCHANGED <<status, outputs, mission, submitted, copies, resurrected, revived>>
      BY <1>2 DEF CreateCheck, CancelRead
    <2>3. QED BY <2>1, <2>2 DEF Open, RequestOps
  <1>3. ASSUME NEW j \in Jobs, Remove(j) PROVE ApiTypeOK'
    BY <1>3 DEF Remove, JobState, NoRow, NoOutputs
  <1>4. ASSUME NEW m \in Missions, RemoveMission(m) PROVE ApiTypeOK'
    BY <1>4 DEF RemoveMission, JobState, NoRow, NoOutputs
  <1>5. ASSUME ServiceNext PROVE ApiTypeOK'
    <2>1. ASSUME NEW j \in Jobs, NEW s \in RunningStatuses \cup {"COMPLETE", "FAILED"},
                 UpdateJobStatus(j, s), OnlyJob
          PROVE  ApiTypeOK'
      BY <2>1, StatusWrites DEF OnlyJob
    <2>2. ASSUME NEW m \in Missions, NEW s \in {"PROCESSING", "COMPLETED", "FAILED"},
                 UpdateMissionStatus(m, s), OnlyMission
          PROVE  ApiTypeOK'
      BY <2>2 DEF UpdateMissionStatus, OnlyMission, MissionStatuses
    <2>3. ASSUME NEW j \in Jobs, NEW a \in AssetIds, InsertOutput(j, a), OnlyOutputs
          PROVE  ApiTypeOK'
      BY <2>3 DEF InsertOutput, OnlyOutputs
    <2>4. ASSUME NEW m \in submitted, Consume(m), UNCHANGED copies, OnlyQueue
          PROVE  ApiTypeOK'
      BY <2>4 DEF Consume, OnlyQueue
    <2>5. ASSUME NEW m \in submitted, Redeliver(m), OnlyQueue PROVE ApiTypeOK'
      <3>1. m.job \in Jobs BY DEF Messages
      <3>2. copies[m.job] + 1 \in 1 .. MaxCopies
        BY <2>5, <3>1, JobApiAssumption DEF Redeliver, CanCopy
      <3>3. copies' \in [Jobs -> 0 .. MaxCopies] /\ submitted' \subseteq Messages
        BY <2>5, <3>1, <3>2, JobApiAssumption
        DEF Redeliver, CountCopy, NewCopy, Messages
      <3>4. QED BY <2>5, <3>3 DEF OnlyQueue
    <2>6. ASSUME NEW j \in Jobs, CanCopy(j), CountCopy(j), UNCHANGED submitted, OnlyQueue
          PROVE  ApiTypeOK'
      BY <2>6, JobApiAssumption DEF CanCopy, CountCopy, OnlyQueue
    <2>7. QED BY <1>5, <2>1, <2>2, <2>3, <2>4, <2>5, <2>6 DEF ServiceNext
  <1>6. ASSUME UNCHANGED apiVars PROVE ApiTypeOK'
    BY <1>6 DEF apiVars
  <1>7. QED BY <1>1, <1>2, <1>3, <1>4, <1>5, <1>6 DEF ApiNext

\* The statement types of every variable of the job API hold in every reachable
\* state, whatever the services do.
THEOREM ApiTyping == ApiSpec => []ApiTypeOK
  <1>1. ApiInit => ApiTypeOK BY ApiInitially DEF ApiInv
  <1>2. QED BY <1>1, ApiTypes, PTL DEF ApiSpec

\* One step of the integrity argument: what open requests rely on, and the
\* foreign keys themselves, survive every step.
LEMMA ApiStep == ApiInv /\ [ApiNext \/ ServiceNext]_apiVars => ApiInv'
  <1> SUFFICES ASSUME ApiInv, [ApiNext \/ ServiceNext]_apiVars
               PROVE  RequestsHold' /\ ReferentialIntegrity'
    BY ApiTypes DEF ApiInv
  <1> ApiTypeOK' BY ApiTypes DEF ApiInv
  <1> DEFINE Goal == RequestsHold' /\ ReferentialIntegrity'
  <1> USE JobApiAssumption
      DEF ApiInv, ApiTypeOK, RequestsHold, ReferentialIntegrity, Creating,
          RowExists, MissionExists, NoRow
  <1>1. ASSUME NEW r \in Requests, RequestStep(r) PROVE Goal
    <2>1. CASE CreatePublish(r)
      BY <2>1 DEF CreatePublish, Open
    <2>2. CASE CreateAbort(r)
      BY <2>2 DEF CreateAbort, Close, NoRequest
    <2>3. CASE CreateCommit(r)
      BY <2>3 DEF CreateCommit, Close, NoRequest
    <2>4. CASE CreateRollback(r)
      BY <2>4 DEF CreateRollback, Close, NoRequest
    <2>5. CASE CancelSave(r)
      BY <2>5 DEF CancelSave, Close, NoRequest
    <2>6. QED BY <1>1, <2>1, <2>2, <2>3, <2>4, <2>5 DEF RequestStep
  <1>2. ASSUME NEW r \in Requests, NEW j \in Jobs, CreateCheck(r, j) PROVE Goal
    BY <1>2 DEF CreateCheck, Open, NoRequest
  <1>3. ASSUME NEW r \in Requests, NEW j \in Jobs, CancelRead(r, j) PROVE Goal
    BY <1>3 DEF CancelRead, Open, NoRequest, ActiveStatuses, RunningStatuses
  <1>4. ASSUME NEW j \in Jobs, Remove(j) PROVE Goal
    BY <1>4 DEF Remove
  <1>5. ASSUME NEW m \in Missions, RemoveMission(m) PROVE Goal
    BY <1>5 DEF RemoveMission
  <1>6. ASSUME ServiceNext PROVE Goal
    <2>1. ASSUME NEW j \in Jobs, NEW s \in RunningStatuses \cup {"COMPLETE", "FAILED"},
                 UpdateJobStatus(j, s), OnlyJob
          PROVE  Goal
      BY <2>1, StatusWrites DEF OnlyJob
    <2>2. ASSUME NEW m \in Missions, NEW s \in {"PROCESSING", "COMPLETED", "FAILED"},
                 UpdateMissionStatus(m, s), OnlyMission
          PROVE  Goal
      BY <2>2 DEF UpdateMissionStatus, OnlyMission
    <2>3. ASSUME NEW j \in Jobs, NEW a \in AssetIds, InsertOutput(j, a), OnlyOutputs
          PROVE  Goal
      BY <2>3 DEF InsertOutput, OnlyOutputs
    <2>4. ASSUME OnlyQueue PROVE Goal
      BY <2>4 DEF OnlyQueue
    <2>5. QED BY <1>6, <2>1, <2>2, <2>3, <2>4 DEF ServiceNext
  <1>7. ASSUME UNCHANGED apiVars PROVE Goal
    BY <1>7 DEF apiVars
  <1>8. QED BY <1>1, <1>2, <1>3, <1>4, <1>5, <1>6, <1>7 DEF ApiNext

\* The inductive invariant of the job API.
THEOREM ApiInvariant == ApiSpec => []ApiInv
  BY ApiInitially, ApiStep, PTL DEF ApiSpec

\* No job row outlives its mission and no output outlives its job row, for any
\* number of requests, deletions and service statements in any order.
THEOREM ApiIntegrity == ApiSpec => []ReferentialIntegrity
  <1>1. ApiInv => ReferentialIntegrity BY DEF ApiInv
  <1>2. QED BY ApiInvariant, <1>1, PTL

-----------------------------------------------------------------------------
\* The sets the quota argument counts are finite and their sizes naturals.
LEMMA QuotaSets ==
  /\ IsFiniteSet(ActiveJobs) /\ Cardinality(ActiveJobs) \in Nat
  /\ IsFiniteSet(ActiveJobs \ revived) /\ Cardinality(ActiveJobs \ revived) \in Nat
  /\ IsFiniteSet(Creating) /\ Cardinality(Creating) \in Nat
  /\ Cardinality(Creating) <= Cardinality(Requests)
  /\ Cardinality(Requests) \in Nat \ {0}
  <1>1. ActiveJobs \subseteq Jobs /\ Creating \subseteq Requests
    BY DEF ActiveJobs, Creating
  <1>2. IsFiniteSet(ActiveJobs) /\ IsFiniteSet(Creating)
        /\ Cardinality(Creating) <= Cardinality(Requests)
    BY <1>1, FS_Subset, JobApiAssumption
  <1>3. IsFiniteSet(ActiveJobs \ revived)
    BY <1>2, FS_Subset, ActiveJobs \ revived \subseteq ActiveJobs
  <1>4. Cardinality(Requests) # 0
    BY JobApiAssumption, FS_EmptySet
  <1>5. QED BY <1>2, <1>3, <1>4, FS_CardinalityType, JobApiAssumption

\* When neither the counted jobs nor the requests that create one grow, the
\* bound is kept.
LEMMA QuotaShrinks ==
  ASSUME QuotaBound, (ActiveJobs \ revived)' \subseteq ActiveJobs \ revived,
         Creating' \subseteq Creating
  PROVE  QuotaBound'
  <1>1. /\ Cardinality((ActiveJobs \ revived)') <= Cardinality(ActiveJobs \ revived)
        /\ Cardinality((ActiveJobs \ revived)') \in Nat
    BY QuotaSets, FS_Subset, FS_CardinalityType
  <1>2. Cardinality(Creating') <= Cardinality(Creating) /\ Cardinality(Creating') \in Nat
    BY QuotaSets, FS_Subset, FS_CardinalityType
  <1>3. QED
    BY <1>1, <1>2, QuotaSets, JobApiAssumption DEF QuotaBound

\* The bound in numbers: what the steps below establish about the two sizes.
LEMMA QuotaSum ==
  ASSUME NEW counted \in Nat, NEW creating \in Nat,
         Cardinality((ActiveJobs \ revived)') = counted,
         Cardinality(Creating') = creating,
         counted + creating <= Limit + Cardinality(Requests) - 1
  PROVE  QuotaBound'
  BY DEF QuotaBound

\* One more element adds at most one to the size of a finite set.
LEMMA OneMore ==
  ASSUME NEW S, NEW x, IsFiniteSet(S)
  PROVE  /\ IsFiniteSet(S \cup {x})
         /\ Cardinality(S \cup {x}) <= Cardinality(S) + 1
  <1>1. Cardinality(S) \in Nat BY FS_CardinalityType
  <1>2. CASE x \in S
    <2>1. S \cup {x} = S BY <1>2
    <2>2. IsFiniteSet(S \cup {x}) /\ Cardinality(S \cup {x}) = Cardinality(S)
      BY <2>1, Zenon
    <2>3. QED BY <1>1, <2>2
  <1>3. CASE x \notin S
    <2>1. Cardinality(S \cup {x}) = Cardinality(S) + 1 BY <1>3, FS_AddElement
    <2>2. IsFiniteSet(S \cup {x}) BY FS_AddElement
    <2>3. QED BY <1>1, <2>1, <2>2
  <1>4. QED BY <1>2, <1>3

\* The count is taken below the limit; a commit turns the request into the job
\* it had been counted for; nothing else adds to either side.
LEMMA QuotaStep ==
  ApiInv /\ QuotaBound /\ [ApiNext \/ ServiceNext]_apiVars => QuotaBound'
  <1> SUFFICES ASSUME ApiInv, QuotaBound, [ApiNext \/ ServiceNext]_apiVars
               PROVE  QuotaBound'
    OBVIOUS
  <1> USE DEF ApiInv, ApiTypeOK
  <1> DEFINE Counted == ActiveJobs \ revived
  <1>1. ASSUME NEW r \in Requests, NEW j \in Jobs, CreateCheck(r, j) PROVE QuotaBound'
    <2>1. Counted' = Counted /\ Counted \subseteq ActiveJobs
      BY <1>1 DEF CreateCheck, ActiveJobs
    <2>2. Cardinality(Counted) <= Cardinality(ActiveJobs)
      BY <2>1, QuotaSets, FS_Subset
    <2>3. Cardinality(Counted) <= Limit - 1
      BY <1>1, <2>2, QuotaSets, JobApiAssumption DEF CreateCheck
    <2>4. Creating' \subseteq Requests BY DEF Creating
    <2>5. /\ Cardinality(Creating') <= Cardinality(Requests)
          /\ Cardinality(Creating') \in Nat
      BY <2>4, FS_Subset, FS_CardinalityType, JobApiAssumption
    <2>6. /\ Cardinality(Counted') \in Nat
          /\ Cardinality(Counted') <= Limit - 1
      BY <2>1, <2>3, QuotaSets
    <2>7. Cardinality(Counted') + Cardinality(Creating')
            <= Limit + Cardinality(Requests) - 1
      BY <2>5, <2>6, QuotaSets, JobApiAssumption
    <2>8. QED BY <2>5, <2>6, <2>7, QuotaSum
  <1>2. ASSUME NEW r \in Requests, CreateCommit(r) PROVE QuotaBound'
    <2> DEFINE j == request[r].job
    <2>1. r \in Creating /\ Creating' = Creating \ {r}
      BY <1>2 DEF CreateCommit, Close, NoRequest, Creating
    <2>2. Cardinality(Creating') = Cardinality(Creating) - 1
      BY <2>1, QuotaSets, FS_RemoveElement
    <2>3. Counted' \subseteq Counted \cup {j}
      BY <1>2 DEF CreateCommit, ActiveJobs
    <2>4. /\ IsFiniteSet(Counted \cup {j})
          /\ Cardinality(Counted \cup {j}) <= Cardinality(Counted) + 1
      BY QuotaSets, OneMore
    <2>5. /\ Cardinality(Counted') <= Cardinality(Counted) + 1
          /\ Cardinality(Counted') \in Nat
      BY <2>3, <2>4, QuotaSets, FS_Subset, FS_CardinalityType
    <2>6. Cardinality(Counted') + Cardinality(Creating')
            <= Limit + Cardinality(Requests) - 1
      BY <2>2, <2>5, QuotaSets, JobApiAssumption DEF QuotaBound
    <2>7. Cardinality(Creating') \in Nat
      BY <2>1, QuotaSets, FS_RemoveElement, FS_CardinalityType
    <2>8. QED BY <2>5, <2>6, <2>7, QuotaSum
  <1>3. ASSUME NEW r \in Requests,
               CreatePublish(r) \/ CreateAbort(r) \/ CreateRollback(r) \/ CancelSave(r)
        PROVE  QuotaBound'
    <2>1. Creating' \subseteq Creating
      <3>1. \A q \in Requests \ {r} : request'[q] = request[q]
        BY <1>3 DEF CreatePublish, CreateAbort, CreateRollback, CancelSave, Open, Close
      <3>2. r \in Creating \/ CancelSave(r)
        BY <1>3 DEF CreatePublish, CreateAbort, CreateRollback, Creating
      <3>3. CancelSave(r) => r \notin Creating'
        BY DEF CancelSave, Close, NoRequest, Creating
      <3>4. QED BY <3>1, <3>2, <3>3 DEF Creating
    <2>2. Counted' \subseteq Counted
      <3>1. revived' = revived
        BY <1>3 DEF CreatePublish, CreateAbort, CreateRollback, CancelSave
      <3>2. \A i \in Jobs : status'[i] = status[i] \/ status'[i] \in {"GONE", "CANCELLED"}
        BY <1>3 DEF CreatePublish, CreateAbort, CreateRollback, CancelSave
      <3>3. QED BY <3>1, <3>2 DEF ActiveJobs, ActiveStatuses, RunningStatuses
    <2>3. QED BY <2>1, <2>2, QuotaShrinks
  <1>4. ASSUME NEW r \in Requests, NEW j \in Jobs, CancelRead(r, j) PROVE QuotaBound'
    <2>1. Creating' \subseteq Creating BY <1>4 DEF CancelRead, Open, Creating
    <2>2. Counted' \subseteq Counted BY <1>4 DEF CancelRead, ActiveJobs
    <2>3. QED BY <2>1, <2>2, QuotaShrinks
  <1>5. ASSUME NEW j \in Jobs, Remove(j) PROVE QuotaBound'
    <2>1. Creating' \subseteq Creating BY <1>5 DEF Remove, Creating
    <2>2. Counted' \subseteq Counted
      BY <1>5 DEF Remove, ActiveJobs, ActiveStatuses, RunningStatuses
    <2>3. QED BY <2>1, <2>2, QuotaShrinks
  <1>6. ASSUME NEW m \in Missions, RemoveMission(m) PROVE QuotaBound'
    <2>1. Creating' \subseteq Creating BY <1>6 DEF RemoveMission, Creating
    <2>2. Counted' \subseteq Counted
      BY <1>6 DEF RemoveMission, ActiveJobs, ActiveStatuses, RunningStatuses
    <2>3. QED BY <2>1, <2>2, QuotaShrinks
  <1>7. ASSUME ServiceNext PROVE QuotaBound'
    <2>1. Creating' \subseteq Creating
      BY <1>7 DEF ServiceNext, OnlyJob, OnlyMission, OnlyOutputs, OnlyQueue, Creating
    <2>2. ASSUME NEW j \in Jobs, NEW s \in RunningStatuses \cup {"COMPLETE", "FAILED"},
                 UpdateJobStatus(j, s)
          PROVE  Counted' \subseteq Counted
      BY <2>2 DEF UpdateJobStatus, RowExists, NoRow, JobState, ActiveJobs,
                  ActiveStatuses, RunningStatuses, TerminalStatuses
    <2>3. ASSUME UNCHANGED <<status, revived>> PROVE Counted' \subseteq Counted
      BY <2>3 DEF ActiveJobs
    <2>4. Counted' \subseteq Counted
      BY <1>7, <2>2, <2>3 DEF ServiceNext, OnlyMission, OnlyOutputs, OnlyQueue
    <2>5. QED BY <2>1, <2>4, QuotaShrinks
  <1>8. ASSUME UNCHANGED apiVars PROVE QuotaBound'
    <2>1. Creating' \subseteq Creating /\ Counted' \subseteq Counted
      BY <1>8 DEF apiVars, Creating, ActiveJobs
    <2>2. QED BY <2>1, QuotaShrinks
  <1>9. QED
    BY <1>1, <1>2, <1>3, <1>4, <1>5, <1>6, <1>7, <1>8 DEF ApiNext, RequestStep

\* The limit on concurrent jobs is exceeded by at most the number of requests
\* that are open at once, less one, whatever they and the services do.
THEOREM ApiQuota == ApiSpec => []QuotaBound
  <1>1. ApiInit => QuotaBound
    <2>1. ASSUME ApiInit PROVE ActiveJobs = {} /\ Creating = {}
      BY <2>1 DEF ApiInit, ActiveJobs, ActiveStatuses, RunningStatuses, Creating, NoRequest
    <2>2. ASSUME ApiInit PROVE Cardinality(ActiveJobs \ revived) = 0 /\ Cardinality(Creating) = 0
      BY <2>1, <2>2, FS_EmptySet
    <2>3. QED BY <2>2, QuotaSets, JobApiAssumption DEF QuotaBound
  <1>2. QED BY <1>1, QuotaStep, ApiInvariant, PTL DEF ApiSpec

=============================================================================
