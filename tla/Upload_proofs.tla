---------------------------- MODULE Upload_proofs ---------------------------
(***************************************************************************)
(* What holds of uploads for any missions, files, sizes and requests: the  *)
(* variables keep their types, the meter never overcounts, rows have their *)
(* parents, images were announced, counts are of images, and totals are    *)
(* exact as long as requests do not overlap.                               *)
(***************************************************************************)
EXTENDS Upload, FiniteSetTheorems, TLAPS

Within(n, bound) == n \in Nat /\ n <= bound

\* What a request may at most have seen or written of the project's meter: its
\* own bytes come on top of the committed ones only when it has metered.
BoundOf(q, total) ==
  IF q.next = "publish" \/ q.pc \in {"publish", "commit"}
  THEN total + q.booked ELSE total

MeterOf(q, project, total) ==
  /\ q.pc \in {"idle", "transition", "meter"} => q.next = "idle"
  /\ q.pc \in {"ingest", "store"} => q.target # Project
  /\ q.next \notin {"ingest", "store"}
  /\ q.added <= q.booked
  /\ Within(project.bytes, BoundOf(q, total))
  /\ q.target = Project => Within(q.entity.bytes, BoundOf(q, total))

\* The inductive form of MeterNeverOvercounts.
MeterHolds ==
  /\ Within(row[Project].bytes, metered)
  /\ \A r \in Requests : MeterOf(request[r], own[r][Project], metered)

UploadInv == UploadTypeOK /\ MeterHolds

-----------------------------------------------------------------------------
(* Types.                                                                  *)

\* Totals over images are byte counts, and images can be counted.
LEMMA Totals ==
  ASSUME NEW sizes \in [Files -> 0 .. MaxSize], NEW files \in SUBSET Files
  PROVE  TotalSize(sizes, files) \in Bytes /\ Cardinality(files) \in Nat
  BY UploadAssumption, FS_Subset, FS_CardinalityType DEF Bytes

\* The empty values have their types.
LEMMA Blanks ==
  /\ Nothing \in Row /\ Gone \in Row /\ Idle \in RequestRecord
  /\ NoRows \in [Entities -> Row] /\ NoImages \in [Files -> 0 .. MaxSize]
  BY UploadAssumption
  DEF Nothing, Gone, Row, Idle, RequestRecord, NoRows, NoImages, Steps, Bytes,
      Entities

\* The records the handlers turn a request into.
LEMMA LookTypes ==
  ASSUME NEW q \in RequestRecord, NEW f \in Files,
         NEW n \in 0 .. MaxSize, NEW k \in 0 .. MaxSize
  PROVE  /\ [q EXCEPT !.todo = @ \ {f}] \in RequestRecord
         /\ [q EXCEPT !.todo = @ \ {f}, !.pc = "store", !.file = f,
                      !.size = n, !.found = k] \in RequestRecord
  <1>1. [q EXCEPT !.todo = @ \ {f}] \in RequestRecord
    BY DEF RequestRecord
  <1>2. [q EXCEPT !.todo = @ \ {f}, !.pc = "store", !.file = f,
                  !.size = n, !.found = k] \in RequestRecord
    BY DEF RequestRecord, Steps
  <1>3. QED BY <1>1, <1>2

LEMMA NextFileTypes ==
  ASSUME NEW q \in RequestRecord
  PROVE  NextFile(q) \in RequestRecord
  <1>1. 0 \in 0 .. MaxSize
    BY UploadAssumption
  <1>2. QED BY <1>1 DEF RequestRecord, Steps, NextFile

LEMMA CountTypes ==
  ASSUME NEW q \in RequestRecord, NEW added \in Nat, NEW inserted \in Nat
  PROVE  [q EXCEPT !.added = @ + added, !.booked = @ + inserted] \in RequestRecord
  <1>1. q.added + added \in Nat /\ q.booked + inserted \in Nat
    BY DEF RequestRecord
  <1>2. QED BY <1>1 DEF RequestRecord

LEMMA SaveTypes ==
  ASSUME NEW q \in RequestRecord, NEW e \in Row, NEW files \in SUBSET Files,
         NEW dirty \in SUBSET (Columns \cup {"other", "row"})
  PROVE  /\ [q EXCEPT !.pc = "select", !.seen = files, !.entity = e]
              \in RequestRecord
         /\ [q EXCEPT !.pc = "select", !.next = "meter", !.dirty = {"other"},
                      !.entity = e] \in RequestRecord
         /\ [q EXCEPT !.pc = "select", !.next = "publish", !.entity = e]
              \in RequestRecord
         /\ [q EXCEPT !.dirty = dirty, !.pc = "update"] \in RequestRecord
  <1>1. [q EXCEPT !.pc = "select", !.seen = files, !.entity = e] \in RequestRecord
    BY DEF RequestRecord, Steps
  <1>2. [q EXCEPT !.pc = "select", !.next = "meter", !.dirty = {"other"},
                  !.entity = e] \in RequestRecord
    BY DEF RequestRecord, Steps
  <1>3. [q EXCEPT !.pc = "select", !.next = "publish", !.entity = e]
          \in RequestRecord
    BY DEF RequestRecord, Steps
  <1>4. [q EXCEPT !.dirty = dirty, !.pc = "update"] \in RequestRecord
    BY DEF RequestRecord, Steps
  <1>5. QED BY <1>1, <1>2, <1>3, <1>4

LEMMA SaveDoneTypes ==
  ASSUME NEW q \in RequestRecord
  PROVE  SaveDone(q) \in RequestRecord
  BY Blanks DEF RequestRecord, Steps, SaveDone, Entities

LEMMA StepTypes ==
  ASSUME NEW q \in RequestRecord, NEW pc \in Steps
  PROVE  [q EXCEPT !.pc = pc] \in RequestRecord
  BY DEF RequestRecord

\* The records requests start with.
LEMMA Starts ==
  ASSUME NEW m \in Entities, NEW e \in Row, NEW files \in SUBSET Files,
         NEW next \in Steps
  PROVE  /\ [Idle EXCEPT !.pc = "ingest", !.target = m, !.entity = e,
                         !.todo = files, !.next = next] \in RequestRecord
         /\ [Idle EXCEPT !.pc = "select", !.next = "commit", !.target = m,
                         !.entity = e, !.dirty = {"other"}] \in RequestRecord
         /\ [Idle EXCEPT !.pc = "select", !.next = "commit",
                         !.entity = e, !.dirty = {"other"}] \in RequestRecord
  <1>1. [Idle EXCEPT !.pc = "ingest", !.target = m, !.entity = e,
                     !.todo = files, !.next = next] \in RequestRecord
    BY Blanks DEF RequestRecord, Steps
  <1>2. [Idle EXCEPT !.pc = "select", !.next = "commit", !.target = m,
                     !.entity = e, !.dirty = {"other"}] \in RequestRecord
    BY Blanks DEF RequestRecord, Steps
  <1>3. [Idle EXCEPT !.pc = "select", !.next = "commit",
                     !.entity = e, !.dirty = {"other"}] \in RequestRecord
    BY Blanks DEF RequestRecord, Steps
  <1>4. QED BY <1>1, <1>2, <1>3

\* One request's record changes.
LEMMA Turns ==
  ASSUME UploadTypeOK, NEW r \in Requests, NEW q \in RequestRecord,
         request' = [request EXCEPT ![r] = q]
  PROVE  request' \in [Requests -> RequestRecord]
  BY DEF UploadTypeOK

\* A request changes its record and nothing else.
LEMMA TurnsAlone ==
  ASSUME UploadTypeOK, OnlyRequest, NEW r \in Requests, NEW q \in RequestRecord,
         request' = [request EXCEPT ![r] = q]
  PROVE  UploadTypeOK'
  <1>1. request' \in [Requests -> RequestRecord]
    BY Turns
  <1>2. QED BY <1>1 DEF UploadTypeOK, OnlyRequest

\* What a step finds in the request it belongs to.
LEMMA Held ==
  ASSUME UploadTypeOK, NEW r \in Requests
  PROVE  /\ request[r] \in RequestRecord
         /\ own[r] \in [Entities -> Row]
         /\ stored[r] \in [Files -> 0 .. MaxSize]
         /\ \A e \in Entities : RowSeen(r, e) \in Row
         /\ \A f \in Files : ImageSeen(r, f) \in 0 .. MaxSize
  BY DEF UploadTypeOK, RowSeen, ImageSeen

LEMMA ReleaseTypes ==
  ASSUME UploadTypeOK, NEW r \in Requests, Release(r)
  PROVE  /\ request' \in [Requests -> RequestRecord]
         /\ own' \in [Requests -> [Entities -> Row]]
         /\ stored' \in [Requests -> [Files -> 0 .. MaxSize]]
  BY Blanks DEF Release, UploadTypeOK

LEMMA AbortTypes ==
  ASSUME UploadTypeOK, NEW r \in Requests, Abort(r) PROVE UploadTypeOK'
  <1>1. Release(r)
    BY DEF Abort
  <1>2. QED BY <1>1, ReleaseTypes DEF Abort, UploadTypeOK

LEMMA BeginTypes ==
  ASSUME UploadTypeOK, NEW r \in Requests, NEW q \in RequestRecord, Begin(r, q)
  PROVE  UploadTypeOK'
  <1>1. request' \in [Requests -> RequestRecord]
    BY Turns DEF Begin
  <1>2. opened' \in 0 .. MaxOpened /\ overlapped' \in BOOLEAN
    BY UploadAssumption DEF Begin, Admit, UploadTypeOK
  <1>3. QED BY <1>1, <1>2 DEF Begin, UploadTypeOK

LEMMA OpenTypes ==
  ASSUME UploadTypeOK, NEW r \in Requests, OpenStep(r) PROVE UploadTypeOK'
  <1>1. ASSUME NEW m \in Missions, NEW files \in SUBSET FilesOf(m), Complete(r, m, files)
        PROVE  UploadTypeOK'
    <2> DEFINE next == IF row[Project].status = "DRAFT" THEN "transition" ELSE "meter"
               q == [Idle EXCEPT !.pc = "ingest", !.target = m, !.entity = row[m],
                                 !.todo = files, !.next = next]
    <2>1. row[m] \in Row /\ files \subseteq Files /\ m \in Entities /\ next \in Steps
      BY DEF UploadTypeOK, FilesOf, Entities, Steps
    <2> HIDE DEF next
    <2>2. q \in RequestRecord
      BY <2>1, Starts
    <2>3. Begin(r, q)
      BY <1>1 DEF Complete, next
    <2> HIDE DEF q
    <2>4. QED BY <2>2, <2>3, BeginTypes
  <1>2. ASSUME NEW m \in Missions, EditMission(r, m) PROVE UploadTypeOK'
    <2>1. row[m] \in Row /\ m \in Entities
      BY DEF UploadTypeOK, Entities
    <2>2. QED BY <1>2, <2>1, Starts, BeginTypes DEF EditMission, Steps
  <1>3. ASSUME EditProject(r) PROVE UploadTypeOK'
    <2>1. row[Project] \in Row /\ Project \in Entities
      BY DEF UploadTypeOK, Entities
    <2>2. QED BY <1>3, <2>1, Starts, BeginTypes DEF EditProject, Steps
  <1>4. ASSUME Archive(r) PROVE UploadTypeOK'
    <2> DEFINE e == [row[Project] EXCEPT !.status = "ARCHIVED"]
               q == [Idle EXCEPT !.pc = "select", !.next = "commit",
                                 !.entity = e, !.dirty = {"other"}]
    <2>0. row[Project] \in Row /\ Project \in Entities
      BY DEF UploadTypeOK, Entities
    <2>1. e \in Row
      BY <2>0 DEF Row, ProjectStatuses
    <2>3. Begin(r, q)
      BY <1>4 DEF Archive
    <2> HIDE DEF e
    <2>2. q \in RequestRecord
      BY <2>0, <2>1, Starts DEF Steps
    <2> HIDE DEF q
    <2>4. QED BY <2>2, <2>3, BeginTypes
  <1>5. ASSUME NEW m \in Missions, RemoveMission(r, m) PROVE UploadTypeOK'
    <2>0. row' \in [Entities -> Row]
      BY <1>5, Blanks DEF RemoveMission, UploadTypeOK
    <2>1. image' \in [Files -> 0 .. MaxSize]
      <3>1. 0 \in 0 .. MaxSize
        BY UploadAssumption
      <3>2. QED BY <1>5, <3>1 DEF RemoveMission, UploadTypeOK
    <2>2. opened' \in 0 .. MaxOpened /\ overlapped' \in BOOLEAN
      BY <1>5, UploadAssumption DEF RemoveMission, Admit, UploadTypeOK
    <2>3. QED BY <1>5, <2>0, <2>1, <2>2 DEF RemoveMission, OnlyRows, UploadTypeOK
  <1>6. ASSUME RemoveProject(r) PROVE UploadTypeOK'
    <2>1. row' \in [Entities -> Row] /\ image' \in [Files -> 0 .. MaxSize]
      BY <1>6, Blanks DEF RemoveProject
    <2>2. opened' \in 0 .. MaxOpened /\ overlapped' \in BOOLEAN
      BY <1>6, UploadAssumption DEF RemoveProject, Admit, UploadTypeOK
    <2>3. QED BY <1>6, <2>1, <2>2 DEF RemoveProject, OnlyRows, UploadTypeOK
  <1>7. QED BY <1>1, <1>2, <1>3, <1>4, <1>5, <1>6 DEF OpenStep

LEMMA StoredTypes ==
  ASSUME UploadTypeOK, NEW r \in Requests, NEW added \in Nat, NEW inserted \in Nat,
         Stored(r, added, inserted)
  PROVE  UploadTypeOK'
  <1> DEFINE q == [NextFile(request[r]) EXCEPT !.added = @ + added,
                                               !.booked = @ + inserted]
  <1>1. q \in RequestRecord
    <2>1. request[r] \in RequestRecord
      BY Held
    <2>2. QED BY <2>1, NextFileTypes, CountTypes
  <1>2. request' = [request EXCEPT ![r] = q]
    BY DEF Stored
  <1> HIDE DEF q
  <1>3. request' \in [Requests -> RequestRecord]
    BY <1>1, <1>2, Turns
  <1>4. request[r].size \in 0 .. MaxSize /\ request[r].file \in Files \cup {NoFile}
    BY Held DEF RequestRecord
  <1>5. stored' \in [Requests -> [Files -> 0 .. MaxSize]]
    BY <1>4 DEF Stored, UploadTypeOK
  <1>6. QED BY <1>3, <1>5 DEF Stored, UploadTypeOK

LEMMA CompleteTypes ==
  ASSUME UploadInv, NEW r \in Requests, CompleteStep(r) PROVE UploadTypeOK'
  <1>0. UploadTypeOK /\ request[r] \in RequestRecord
    BY Held DEF UploadInv
  <1>1. ASSUME NEW f \in Files, Look(r, f) PROVE UploadTypeOK'
    <2> DEFINE q == IF object[f] = 0 THEN [request[r] EXCEPT !.todo = @ \ {f}]
                    ELSE [request[r] EXCEPT !.todo = @ \ {f}, !.pc = "store", !.file = f,
                                            !.size = object[f], !.found = image[f]]
    <2>1. object[f] \in 0 .. MaxSize /\ image[f] \in 0 .. MaxSize
      BY <1>0 DEF UploadTypeOK
    <2>2. q \in RequestRecord
      BY <1>0, <2>1, LookTypes
    <2>3. request' = [request EXCEPT ![r] = q] /\ OnlyRequest
      BY <1>1 DEF Look
    <2> HIDE DEF q
    <2>4. QED BY <1>0, <2>2, <2>3, TurnsAlone
  <1>2. request[r].size \in Nat
    BY <1>0, UploadAssumption DEF RequestRecord
  <1>3. CASE StoreKnown(r)
    BY <1>0, <1>3, StoredTypes DEF StoreKnown
  <1>4. CASE StoreNew(r)
    <2> DEFINE added == IF request[r].found # 0 THEN 0 ELSE request[r].size
    <2>1. added \in Nat /\ Stored(r, added, request[r].size)
      BY <1>2, <1>4 DEF StoreNew
    <2>2. QED BY <1>0, <1>2, <2>1, StoredTypes
  <1>5. CASE StoreNothing(r)
    <2>1. NextFile(request[r]) \in RequestRecord
      BY <1>0, NextFileTypes
    <2>2. request' = [request EXCEPT ![r] = NextFile(request[r])] /\ OnlyRequest
      BY <1>5 DEF StoreNothing
    <2>3. QED BY <1>0, <2>1, <2>2, TurnsAlone
  <1>6. CASE StoreRefused(r)
    BY <1>0, <1>6, AbortTypes DEF StoreRefused
  <1>7. CASE Recount(r)
    <2> DEFINE images == ImagesSeen(r, request[r].target)
               sizes == [f \in Files |-> ImageSeen(r, f)]
               e == [status |-> "READY", count |-> Cardinality(images),
                     bytes |-> TotalSize(sizes, images)]
               q == [request[r] EXCEPT !.pc = "select", !.seen = images, !.entity = e]
    <2>1. images \subseteq Files /\ sizes \in [Files -> 0 .. MaxSize]
      BY <1>0, Held DEF ImagesSeen, FilesOf
    <2>2. request' = [request EXCEPT ![r] = q] /\ OnlyRequest
      BY <1>7 DEF Recount
    <2> HIDE DEF images, sizes
    <2>3. e \in Row
      BY <2>1, Totals DEF Row, MissionStatuses
    <2> HIDE DEF e
    <2>4. q \in RequestRecord
      BY <1>0, <2>1, <2>3, SaveTypes
    <2> HIDE DEF q
    <2>5. QED BY <1>0, <2>2, <2>4, TurnsAlone
  <1>8. CASE RecountRefused(r)
    BY <1>0, <1>8, AbortTypes DEF RecountRefused
  <1>9. CASE Transition(r)
    <2> DEFINE e == [RowSeen(r, Project) EXCEPT !.status = "UPLOADING"]
               q == [request[r] EXCEPT !.pc = "select", !.next = "meter",
                                       !.dirty = {"other"}, !.entity = e]
    <2>1. RowSeen(r, Project) \in Row
      BY <1>0, Held DEF Entities
    <2>2. e \in Row
      BY <2>1 DEF Row, ProjectStatuses
    <2>3. request' = [request EXCEPT ![r] = q] /\ OnlyRequest
      BY <1>9 DEF Transition
    <2> HIDE DEF e
    <2>4. q \in RequestRecord
      BY <1>0, <2>2, SaveTypes
    <2> HIDE DEF q
    <2>5. QED BY <1>0, <2>3, <2>4, TurnsAlone
  <1>10. CASE TransitionRefused(r)
    BY <1>0, <1>10, AbortTypes DEF TransitionRefused
  <1>11. CASE Meter(r)
    <2> DEFINE added == request[r].added
               e == [RowSeen(r, Project) EXCEPT !.bytes = @ + added]
               q == IF added = 0 \/ RowSeen(r, Project).status = "GONE"
                    THEN [request[r] EXCEPT !.pc = "publish"]
                    ELSE [request[r] EXCEPT !.pc = "select", !.next = "publish",
                                            !.entity = e]
    <2>1. RowSeen(r, Project) \in Row /\ added \in Nat
      BY <1>0, Held DEF Entities, RequestRecord
    <2>2. RowSeen(r, Project).bytes \in Nat
      BY DEF UploadInv, MeterHolds, MeterOf, Within, RowSeen
    <2>3. e \in Row
      BY <2>1, <2>2 DEF Row, Bytes
    <2>4. request' = [request EXCEPT ![r] = q] /\ OnlyRequest
      BY <1>11 DEF Meter
    <2> HIDE DEF e
    <2>5. q \in RequestRecord
      BY <1>0, <2>3, SaveTypes, StepTypes DEF Steps
    <2> HIDE DEF q
    <2>6. QED BY <1>0, <2>4, <2>5, TurnsAlone
  <1>12. CASE Publish(r)
    <2> DEFINE q == [request[r] EXCEPT !.pc = "commit"]
    <2>1. q \in RequestRecord
      BY <1>0, StepTypes DEF Steps
    <2>2. request' = [request EXCEPT ![r] = q]
      BY <1>12 DEF Publish
    <2> HIDE DEF q
    <2>3. request' \in [Requests -> RequestRecord]
      BY <1>0, <2>1, <2>2, Turns
    <2>4. announced' \subseteq Files
      BY <1>0, <1>12 DEF Publish, UploadTypeOK, RequestRecord
    <2>5. QED BY <1>0, <1>12, <2>3, <2>4 DEF Publish, UploadTypeOK
  <1>13. QED
    BY <1>1, <1>3, <1>4, <1>5, <1>6, <1>7, <1>8, <1>9, <1>10, <1>11, <1>12
    DEF CompleteStep

LEMMA SavedTypes ==
  ASSUME UploadTypeOK, NEW r \in Requests, NEW saved \in Row, Saved(r, saved)
  PROVE  UploadTypeOK'
  <1>1. SaveDone(request[r]) \in RequestRecord /\ request[r].target \in Entities
    BY Held, SaveDoneTypes DEF RequestRecord
  <1>2. request' = [request EXCEPT ![r] = SaveDone(request[r])]
    BY DEF Saved
  <1>3. request' \in [Requests -> RequestRecord]
    BY <1>1, <1>2, Turns
  <1>4. own' \in [Requests -> [Entities -> Row]]
    BY <1>1 DEF Saved, UploadTypeOK
  <1>5. QED BY <1>3, <1>4 DEF Saved, UploadTypeOK

LEMMA SaveStepTypes ==
  ASSUME UploadTypeOK, NEW r \in Requests, SaveStep(r) PROVE UploadTypeOK'
  <1> DEFINE e == request[r].entity
             seen == RowSeen(r, request[r].target)
  <1>0. /\ request[r] \in RequestRecord /\ own[r][request[r].target] \in Row
        /\ e \in Row /\ seen \in Row
    BY Held DEF RequestRecord
  <1>1. CASE SaveSelect(r)
    <2> DEFINE dirty == IF seen.status = "GONE" THEN {"row"}
                        ELSE request[r].dirty \cup {c \in Columns : e[c] # seen[c]}
               q == IF dirty = {} THEN SaveDone(request[r])
                    ELSE [request[r] EXCEPT !.dirty = dirty, !.pc = "update"]
    <2>1. dirty \in SUBSET (Columns \cup {"other", "row"})
      BY <1>0 DEF RequestRecord
    <2>2. request' = [request EXCEPT ![r] = q] /\ OnlyRequest
      BY <1>1 DEF SaveSelect
    <2> HIDE DEF dirty
    <2>3. q \in RequestRecord
      BY <1>0, <2>1, SaveDoneTypes, SaveTypes
    <2> HIDE DEF q
    <2>4. QED BY <2>2, <2>3, TurnsAlone
  <1>2. CASE SaveUpdate(r)
    <2> DEFINE Value(c) == IF c \in request[r].dirty THEN e[c] ELSE seen[c]
               saved == IF seen.status = "GONE" THEN own[r][request[r].target]
                        ELSE [status |-> Value("status"), count |-> Value("count"),
                              bytes |-> Value("bytes")]
    <2>1. saved \in Row
      BY <1>0 DEF Row
    <2>2. Saved(r, saved)
      BY <1>2 DEF SaveUpdate
    <2> HIDE DEF saved
    <2>3. QED BY <2>1, <2>2, SavedTypes
  <1>3. CASE SaveInsert(r)
    BY <1>0, <1>3, SavedTypes DEF SaveInsert
  <1>4. CASE SaveRefused(r)
    BY <1>4, AbortTypes DEF SaveRefused
  <1>5. QED BY <1>1, <1>2, <1>3, <1>4 DEF SaveStep

LEMMA EndTypes ==
  ASSUME UploadTypeOK, NEW r \in Requests, EndStep(r) PROVE UploadTypeOK'
  <1>1. CASE Commit(r)
    <2>1. /\ request' \in [Requests -> RequestRecord]
          /\ own' \in [Requests -> [Entities -> Row]]
          /\ stored' \in [Requests -> [Files -> 0 .. MaxSize]]
      BY <1>1, ReleaseTypes DEF Commit
    <2>2. row' \in [Entities -> Row] /\ image' \in [Files -> 0 .. MaxSize]
      BY <1>1, Held DEF Commit
    <2>3. metered' \in Nat
      BY <1>1, Held DEF Commit, UploadTypeOK, RequestRecord
    <2>4. resurrected' \subseteq Entities
      BY <1>1 DEF Commit, UploadTypeOK
    <2>5. QED BY <1>1, <2>1, <2>2, <2>3, <2>4 DEF Commit, UploadTypeOK
  <1>2. CASE Fail(r)
    BY <1>2, AbortTypes DEF Fail
  <1>3. CASE DeadlockVictim(r)
    BY <1>3, AbortTypes DEF DeadlockVictim
  <1>4. QED BY <1>1, <1>2, <1>3 DEF EndStep

\* Clients and workers.
LEMMA OutsideTypes ==
  ASSUME UploadTypeOK, BucketStep \/ WorkerStep PROVE UploadTypeOK'
  <1>1. ASSUME NEW f \in Files, Initiate(f) PROVE UploadTypeOK'
    BY <1>1 DEF Initiate, OnlyBucket, UploadTypeOK
  <1>2. ASSUME NEW f \in Files, NEW size \in 1 .. MaxSize, Put(f, size)
        PROVE  UploadTypeOK'
    <2>1. size \in 0 .. MaxSize
      BY UploadAssumption
    <2>2. QED BY <1>2, <2>1 DEF Put, OnlyBucket, UploadTypeOK
  <1>3. ASSUME NEW m \in Missions, NEW s \in Verdicts, WorkerWrites(m, s)
        PROVE  UploadTypeOK'
    <2>1. row[m] \in Row /\ s \in MissionStatuses
      BY UploadAssumption DEF UploadTypeOK, Entities, MissionStatuses
    <2>2. [row[m] EXCEPT !.status = s] \in Row
      BY <2>1 DEF Row
    <2>3. row' \in [Entities -> Row]
      BY <1>3, <2>2 DEF WorkerWrites, UploadTypeOK
    <2>4. QED BY <1>3, <2>3 DEF WorkerWrites, OnlyRows, UploadTypeOK
  <1>4. QED BY <1>1, <1>2, <1>3 DEF BucketStep, WorkerStep

LEMMA StepTyping ==
  ASSUME UploadInv, [Next]_vars PROVE UploadTypeOK'
  <1>0. UploadTypeOK
    BY DEF UploadInv
  <1>1. CASE UNCHANGED vars
    BY <1>0, <1>1 DEF vars, UploadTypeOK
  <1>2. CASE Next
    BY <1>0, <1>2, OpenTypes, CompleteTypes, SaveStepTypes, EndTypes, OutsideTypes
    DEF Next
  <1>3. QED BY <1>1, <1>2

-----------------------------------------------------------------------------
(* The meter.                                                              *)

\* One request moves while the committed rows stay.
LEMMA Moves ==
  ASSUME UploadInv, NEW r \in Requests, UNCHANGED <<row, metered>>,
         \A p \in Requests \ {r} : request'[p] = request[p] /\ own'[p] = own[p],
         MeterOf(request'[r], own'[r][Project], metered)
  PROVE  MeterHolds'
  BY DEF UploadInv, MeterHolds

\* What holds of a request and of what it sees of the project's meter.
LEMMA MeterSeen ==
  ASSUME UploadInv, NEW r \in Requests
  PROVE  LET q == request[r]
             bound == BoundOf(q, metered) IN
         /\ q.pc \in {"idle", "transition", "meter"} => q.next = "idle"
         /\ q.pc \in {"ingest", "store"} => q.target # Project
         /\ q.next \notin {"ingest", "store"}
         /\ q.added \in Nat /\ q.booked \in Nat /\ q.added <= q.booked
         /\ bound \in {metered, metered + q.booked} /\ metered \in Nat
         /\ Within(own[r][Project].bytes, bound)
         /\ Within(RowSeen(r, Project).bytes, bound)
         /\ Within(row[Project].bytes, metered)
         /\ q.target = Project => Within(q.entity.bytes, bound)
  <1>1. MeterOf(request[r], own[r][Project], metered)
        /\ Within(row[Project].bytes, metered) /\ metered \in Nat
    BY DEF UploadInv, UploadTypeOK, MeterHolds
  <1>2. request[r].added \in Nat /\ request[r].booked \in Nat
    BY Held DEF UploadInv, RequestRecord
  <1>3. RowSeen(r, Project) \in {row[Project], own[r][Project]}
    BY DEF RowSeen
  <1>4. Within(RowSeen(r, Project).bytes, BoundOf(request[r], metered))
    BY <1>1, <1>2, <1>3 DEF MeterOf, BoundOf, Within
  <1>5. QED BY <1>1, <1>2, <1>4 DEF MeterOf, BoundOf

LEMMA AbortMeter ==
  ASSUME UploadInv, NEW r \in Requests, Abort(r) PROVE MeterHolds'
  <1>1. request'[r] = Idle /\ own'[r] = NoRows /\ UNCHANGED <<row, metered>>
        /\ \A p \in Requests \ {r} : request'[p] = request[p] /\ own'[p] = own[p]
    BY DEF Abort, Release, UploadInv, UploadTypeOK
  <1>2. MeterOf(Idle, NoRows[Project], metered)
    BY DEF MeterOf, BoundOf, Within, Idle, NoRows, Nothing, Entities,
           UploadInv, UploadTypeOK
  <1>3. QED BY <1>1, <1>2, Moves

\* A request starts with no bytes of its own, and with the project as committed
\* if that is what it will save.
LEMMA BeginMeter ==
  ASSUME UploadInv, NEW r \in Requests, NEW q, Begin(r, q),
         q.added = 0, q.booked = 0,
         q.pc \in {"idle", "transition", "meter"} => q.next = "idle",
         q.pc \in {"ingest", "store"} => q.target # Project,
         q.next \notin {"ingest", "store"},
         q.target = Project => q.entity.bytes = row[Project].bytes
  PROVE  MeterHolds'
  <1>1. request'[r] = q /\ own' = own /\ UNCHANGED <<row, metered>>
        /\ \A p \in Requests \ {r} : request'[p] = request[p]
    BY DEF Begin, UploadInv, UploadTypeOK
  <1>2. BoundOf(request[r], metered) = metered
    BY MeterSeen DEF Begin, Admit, BoundOf
  <1>3. metered \in Nat /\ BoundOf(q, metered) = metered
    BY DEF BoundOf, UploadInv, UploadTypeOK
  <1>4. MeterOf(q, own[r][Project], metered)
    BY <1>2, <1>3, MeterSeen DEF MeterOf
  <1>5. QED BY <1>1, <1>4, Moves

LEMMA OpenMeter ==
  ASSUME UploadInv, NEW r \in Requests, OpenStep(r) PROVE MeterHolds'
  <1>1. ASSUME NEW m \in Missions, NEW files, Complete(r, m, files) PROVE MeterHolds'
    <2>1. m # Project
      BY UploadAssumption
    <2>2. QED BY <1>1, <2>1, BeginMeter DEF Complete, Idle
  <1>2. ASSUME NEW m \in Missions, EditMission(r, m) PROVE MeterHolds'
    <2>1. m # Project
      BY UploadAssumption
    <2>2. QED BY <1>2, <2>1, BeginMeter DEF EditMission, Idle
  <1>3. CASE EditProject(r)
    BY <1>3, BeginMeter DEF EditProject, Idle
  <1>4. CASE Archive(r)
    <2>1. [row[Project] EXCEPT !.status = "ARCHIVED"].bytes = row[Project].bytes
      BY DEF UploadInv, UploadTypeOK, Entities, Row
    <2>2. QED BY <1>4, <2>1, BeginMeter DEF Archive, Idle
  <1>5. ASSUME NEW m \in Missions, RemoveMission(r, m) PROVE MeterHolds'
    <2>1. row'[Project] = row[Project]
      BY <1>5, UploadAssumption DEF RemoveMission, UploadInv, UploadTypeOK, Entities
    <2>2. QED BY <1>5, <2>1 DEF RemoveMission, OnlyRows, UploadInv, MeterHolds
  <1>6. CASE RemoveProject(r)
    <2>1. row'[Project].bytes = 0
      BY <1>6 DEF RemoveProject, Entities, Gone
    <2>2. QED
      BY <1>6, <2>1
      DEF RemoveProject, OnlyRows, UploadInv, UploadTypeOK, MeterHolds, Within
  <1>7. QED BY <1>1, <1>2, <1>3, <1>4, <1>5, <1>6 DEF OpenStep

LEMMA CompleteMeter ==
  ASSUME UploadInv, NEW r \in Requests, CompleteStep(r) PROVE MeterHolds'
  <1> DEFINE q == request[r]
  <1>0. r \in DOMAIN request /\ q \in RequestRecord
    BY Held DEF UploadInv, UploadTypeOK
  <1>1. ASSUME NEW f \in Files, Look(r, f) PROVE MeterHolds'
    <2>1. /\ request'[r] = IF object[f] = 0 THEN [q EXCEPT !.todo = @ \ {f}]
                           ELSE [q EXCEPT !.todo = @ \ {f}, !.pc = "store", !.file = f,
                                          !.size = object[f], !.found = image[f]]
          /\ \A p \in Requests \ {r} : request'[p] = request[p] /\ own'[p] = own[p]
          /\ own'[r] = own[r] /\ UNCHANGED <<row, metered>> /\ q.pc = "ingest"
      BY <1>0, <1>1 DEF Look, OnlyRequest, UploadInv, UploadTypeOK
    <2>2. /\ request'[r].pc \in {"ingest", "store"} /\ request'[r].next = q.next
          /\ request'[r].target = q.target /\ request'[r].entity = q.entity
          /\ request'[r].added = q.added /\ request'[r].booked = q.booked
      BY <1>0, <2>1 DEF RequestRecord
    <2>3. MeterOf(request'[r], own'[r][Project], metered)
      BY <2>1, <2>2, MeterSeen DEF MeterOf, BoundOf
    <2>4. QED BY <2>1, <2>3, Moves
  <1>2. ASSUME NEW added \in Nat, NEW inserted \in Nat, added <= inserted,
               q.pc = "store", Stored(r, added, inserted)
        PROVE  MeterHolds'
    <2>1. /\ request'[r] = [NextFile(q) EXCEPT !.added = @ + added,
                                               !.booked = @ + inserted]
          /\ \A p \in Requests \ {r} : request'[p] = request[p] /\ own'[p] = own[p]
          /\ own'[r] = own[r] /\ UNCHANGED <<row, metered>>
      BY <1>0, <1>2 DEF Stored, UploadInv, UploadTypeOK
    <2>2. /\ request'[r].pc = "ingest" /\ request'[r].next = q.next
          /\ request'[r].target = q.target
          /\ request'[r].added = q.added + added
          /\ request'[r].booked = q.booked + inserted
      BY <1>0, <2>1 DEF NextFile, RequestRecord
    <2>3. MeterOf(request'[r], own'[r][Project], metered)
      BY <1>2, <2>1, <2>2, MeterSeen DEF MeterOf, BoundOf, Within
    <2>4. QED BY <2>1, <2>3, Moves
  <1>3. q.size \in Nat
    BY <1>0, UploadAssumption DEF RequestRecord
  <1>4. CASE StoreKnown(r)
    BY <1>2, <1>4 DEF StoreKnown
  <1>5. CASE StoreNew(r)
    <2> DEFINE added == IF q.found # 0 THEN 0 ELSE q.size
    <2>1. added \in Nat /\ added <= q.size /\ Stored(r, added, q.size)
          /\ q.pc = "store"
      BY <1>3, <1>5 DEF StoreNew
    <2>2. QED BY <1>2, <1>3, <2>1
  <1>6. CASE StoreNothing(r)
    <2>1. /\ request'[r] = NextFile(q)
          /\ \A p \in Requests \ {r} : request'[p] = request[p] /\ own'[p] = own[p]
          /\ own'[r] = own[r] /\ UNCHANGED <<row, metered>> /\ q.pc = "store"
      BY <1>0, <1>6 DEF StoreNothing, OnlyRequest, UploadInv, UploadTypeOK
    <2>2. /\ request'[r].pc = "ingest" /\ request'[r].next = q.next
          /\ request'[r].target = q.target
          /\ request'[r].added = q.added /\ request'[r].booked = q.booked
      BY <1>0, <2>1 DEF NextFile, RequestRecord
    <2>3. MeterOf(request'[r], own'[r][Project], metered)
      BY <2>1, <2>2, MeterSeen DEF MeterOf, BoundOf
    <2>4. QED BY <2>1, <2>3, Moves
  <1>7. CASE StoreRefused(r)
    BY <1>7, AbortMeter DEF StoreRefused
  <1>8. CASE Recount(r)
    <2>1. /\ request'[r].pc = "select" /\ request'[r].next = q.next
          /\ request'[r].target = q.target
          /\ request'[r].added = q.added /\ request'[r].booked = q.booked
          /\ \A p \in Requests \ {r} : request'[p] = request[p] /\ own'[p] = own[p]
          /\ own'[r] = own[r] /\ UNCHANGED <<row, metered>> /\ q.pc = "ingest"
      BY <1>0, <1>8 DEF Recount, OnlyRequest, UploadInv, UploadTypeOK, RequestRecord
    <2>2. MeterOf(request'[r], own'[r][Project], metered)
      BY <2>1, MeterSeen DEF MeterOf, BoundOf
    <2>3. QED BY <2>1, <2>2, Moves
  <1>9. CASE RecountRefused(r)
    BY <1>9, AbortMeter DEF RecountRefused
  <1>10. CASE Transition(r)
    <2>1. RowSeen(r, Project) \in Row
      BY Held DEF UploadInv, Entities
    <2>2. /\ request'[r].pc = "select" /\ request'[r].next = "meter"
          /\ request'[r].entity.bytes = RowSeen(r, Project).bytes
          /\ request'[r].added = q.added /\ request'[r].booked = q.booked
          /\ \A p \in Requests \ {r} : request'[p] = request[p] /\ own'[p] = own[p]
          /\ own'[r] = own[r] /\ UNCHANGED <<row, metered>> /\ q.pc = "transition"
      BY <1>0, <1>10, <2>1
      DEF Transition, OnlyRequest, UploadInv, UploadTypeOK, RequestRecord, Row
    <2>3. MeterOf(request'[r], own'[r][Project], metered)
      BY <2>2, MeterSeen DEF MeterOf, BoundOf
    <2>4. QED BY <2>2, <2>3, Moves
  <1>11. CASE TransitionRefused(r)
    BY <1>11, AbortMeter DEF TransitionRefused
  <1>12. CASE Meter(r)
    <2> DEFINE seen == RowSeen(r, Project)
    <2>1. seen \in Row
      BY Held DEF UploadInv, Entities
    <2>2. /\ request'[r].added = q.added /\ request'[r].booked = q.booked
          /\ \/ request'[r].pc = "publish" /\ request'[r].entity = q.entity
                /\ request'[r].target = q.target /\ request'[r].next = q.next
             \/ request'[r].pc = "select" /\ request'[r].next = "publish"
                /\ request'[r].entity.bytes = seen.bytes + q.added
          /\ \A p \in Requests \ {r} : request'[p] = request[p] /\ own'[p] = own[p]
          /\ own'[r] = own[r] /\ UNCHANGED <<row, metered>> /\ q.pc = "meter"
      BY <1>0, <1>12, <2>1
      DEF Meter, OnlyRequest, UploadInv, UploadTypeOK, RequestRecord, Row
    <2>3. Within(seen.bytes, metered) /\ Within(own[r][Project].bytes, metered)
      BY <2>2, MeterSeen DEF BoundOf
    <2>4. MeterOf(request'[r], own'[r][Project], metered)
      BY <2>2, <2>3, MeterSeen DEF MeterOf, BoundOf, Within
    <2>5. QED BY <2>2, <2>4, Moves
  <1>13. CASE Publish(r)
    <2>1. /\ request'[r].pc = "commit" /\ request'[r].target = q.target
          /\ request'[r].entity = q.entity /\ request'[r].next = q.next
          /\ request'[r].added = q.added /\ request'[r].booked = q.booked
          /\ \A p \in Requests \ {r} : request'[p] = request[p] /\ own'[p] = own[p]
          /\ own'[r] = own[r] /\ UNCHANGED <<row, metered>> /\ q.pc = "publish"
      BY <1>0, <1>13 DEF Publish, UploadInv, UploadTypeOK, RequestRecord
    <2>2. MeterOf(request'[r], own'[r][Project], metered)
      BY <2>1, MeterSeen DEF MeterOf, BoundOf
    <2>3. QED BY <2>1, <2>2, Moves
  <1>14. QED
    BY <1>1, <1>4, <1>5, <1>6, <1>7, <1>8, <1>9, <1>10, <1>11, <1>12, <1>13
    DEF CompleteStep

\* After a save the request holds no entity; what it wrote stays bounded.
LEMMA SaveDoneMeter ==
  ASSUME UploadInv, NEW r \in Requests, NEW o, request[r].pc \in {"select", "update"},
         request'[r] = SaveDone(request[r]), own'[r] = o,
         Within(o[Project].bytes, BoundOf(request[r], metered)),
         \A p \in Requests \ {r} : request'[p] = request[p] /\ own'[p] = own[p],
         UNCHANGED <<row, metered>>
  PROVE  MeterHolds'
  <1> DEFINE q == request[r]
  <1>1. q \in RequestRecord
    BY Held DEF UploadInv
  <1>2. /\ request'[r].pc = q.next /\ request'[r].next = "idle"
        /\ request'[r].target = Project /\ request'[r].entity.bytes = 0
        /\ request'[r].added = q.added /\ request'[r].booked = q.booked
    BY <1>1 DEF SaveDone, Nothing, RequestRecord
  <1>3. q.pc \in {"select", "update"} /\ q.next # "ingest" /\ q.next # "store"
    BY MeterSeen
  <1>4. MeterOf(request'[r], own'[r][Project], metered)
    BY <1>2, <1>3, MeterSeen DEF MeterOf, BoundOf, Within
  <1>5. QED BY <1>4, Moves

LEMMA SavedMeter ==
  ASSUME UploadInv, NEW r \in Requests, NEW saved, Saved(r, saved),
         request[r].pc = "update",
         request[r].target = Project =>
           Within(saved.bytes, BoundOf(request[r], metered))
  PROVE  MeterHolds'
  <1> DEFINE o == [own[r] EXCEPT ![request[r].target] = saved]
  <1>1. own[r] \in [Entities -> Row] /\ request[r].target \in Entities
    BY Held DEF UploadInv, RequestRecord
  <1>2. Within(o[Project].bytes, BoundOf(request[r], metered))
    BY <1>1, MeterSeen DEF Entities
  <1>3. /\ request'[r] = SaveDone(request[r]) /\ own'[r] = o
        /\ \A p \in Requests \ {r} : request'[p] = request[p] /\ own'[p] = own[p]
        /\ UNCHANGED <<row, metered>>
    BY DEF Saved, UploadInv, UploadTypeOK
  <1> HIDE DEF o
  <1>4. QED BY <1>2, <1>3, SaveDoneMeter

LEMMA SaveMeter ==
  ASSUME UploadInv, NEW r \in Requests, SaveStep(r) PROVE MeterHolds'
  <1> DEFINE q == request[r]
             e == q.entity
             seen == RowSeen(r, q.target)
  <1>0. r \in DOMAIN request /\ q \in RequestRecord
    BY Held DEF UploadInv, UploadTypeOK
  <1>1. CASE SaveSelect(r)
    <2> DEFINE dirty == IF seen.status = "GONE" THEN {"row"}
                        ELSE q.dirty \cup {c \in Columns : e[c] # seen[c]}
    <2>1. /\ request'[r] = IF dirty = {} THEN SaveDone(q)
                           ELSE [q EXCEPT !.dirty = dirty, !.pc = "update"]
          /\ \A p \in Requests \ {r} : request'[p] = request[p] /\ own'[p] = own[p]
          /\ own'[r] = own[r] /\ UNCHANGED <<row, metered>> /\ q.pc = "select"
      BY <1>0, <1>1 DEF SaveSelect, OnlyRequest, UploadInv, UploadTypeOK
    <2> HIDE DEF dirty
    <2>2. CASE dirty = {}
      BY <2>1, <2>2, MeterSeen, SaveDoneMeter
    <2>3. CASE dirty # {}
      <3>1. /\ request'[r].pc = "update" /\ request'[r].next = q.next
            /\ request'[r].target = q.target /\ request'[r].entity = q.entity
            /\ request'[r].added = q.added /\ request'[r].booked = q.booked
        BY <1>0, <2>1, <2>3 DEF RequestRecord
      <3>2. MeterOf(request'[r], own'[r][Project], metered)
        BY <2>1, <3>1, MeterSeen DEF MeterOf, BoundOf
      <3>3. QED BY <2>1, <3>2, Moves
    <2>4. QED BY <2>2, <2>3
  <1>2. CASE SaveUpdate(r)
    <2> DEFINE Value(c) == IF c \in q.dirty THEN e[c] ELSE seen[c]
               saved == IF seen.status = "GONE" THEN own[r][q.target]
                        ELSE [status |-> Value("status"), count |-> Value("count"),
                              bytes |-> Value("bytes")]
    <2>1. q.target = Project => Within(saved.bytes, BoundOf(q, metered))
      BY MeterSeen
    <2>2. Saved(r, saved) /\ q.pc = "update"
      BY <1>2 DEF SaveUpdate
    <2> HIDE DEF saved
    <2>3. QED BY <2>1, <2>2, SavedMeter
  <1>3. CASE SaveInsert(r)
    BY <1>3, MeterSeen, SavedMeter DEF SaveInsert
  <1>4. CASE SaveRefused(r)
    BY <1>4, AbortMeter DEF SaveRefused
  <1>5. QED BY <1>1, <1>2, <1>3, <1>4 DEF SaveStep

\* A commit adds to the history what the request inserted, which covers what it
\* wrote to the meter; every other bound grows with it.
LEMMA CommitMeter ==
  ASSUME UploadInv, NEW r \in Requests, Commit(r) PROVE MeterHolds'
  <1> DEFINE q == request[r]
  <1>1. /\ row'[Project] = RowSeen(r, Project) /\ metered' = metered + q.booked
        /\ request'[r] = Idle /\ own'[r] = NoRows /\ q.pc = "commit"
        /\ \A p \in Requests \ {r} : request'[p] = request[p] /\ own'[p] = own[p]
    BY DEF Commit, Release, UploadInv, UploadTypeOK, Entities
  <1>2. metered' \in Nat /\ metered <= metered'
    BY <1>1, MeterSeen
  <1>3. Within(row'[Project].bytes, metered')
    BY <1>1, MeterSeen DEF BoundOf
  <1>4. MeterOf(Idle, NoRows[Project], metered')
    BY <1>2 DEF MeterOf, BoundOf, Within, Idle, NoRows, Nothing, Entities
  <1>5. ASSUME NEW p \in Requests \ {r}
        PROVE  MeterOf(request'[p], own'[p][Project], metered')
    <2>1. MeterOf(request[p], own[p][Project], metered) /\ request[p].booked \in Nat
      BY MeterSeen DEF UploadInv, MeterHolds
    <2>2. MeterOf(request[p], own[p][Project], metered')
      BY <1>2, <2>1, MeterSeen DEF MeterOf, BoundOf, Within
    <2>3. QED BY <1>1, <2>2
  <1>6. QED BY <1>1, <1>3, <1>4, <1>5 DEF MeterHolds

LEMMA OutsideMeter ==
  ASSUME UploadInv, BucketStep \/ WorkerStep PROVE MeterHolds'
  <1>1. CASE BucketStep
    BY <1>1 DEF BucketStep, Initiate, Put, OnlyBucket, UploadInv, MeterHolds
  <1>2. ASSUME NEW m \in Missions, NEW s, WorkerWrites(m, s) PROVE MeterHolds'
    <2>1. row'[Project] = row[Project]
      BY <1>2, UploadAssumption
      DEF WorkerWrites, UploadInv, UploadTypeOK, Entities
    <2>2. QED BY <1>2, <2>1 DEF WorkerWrites, OnlyRows, UploadInv, MeterHolds
  <1>3. QED BY <1>1, <1>2 DEF WorkerStep

LEMMA StepMeter ==
  ASSUME UploadInv, [Next]_vars PROVE MeterHolds'
  <1>1. CASE UNCHANGED vars
    BY <1>1 DEF vars, UploadInv, MeterHolds
  <1>2. ASSUME NEW r \in Requests, EndStep(r) PROVE MeterHolds'
    BY <1>2, CommitMeter, AbortMeter DEF EndStep, Fail, DeadlockVictim
  <1>3. CASE Next
    BY <1>2, <1>3, OpenMeter, CompleteMeter, SaveMeter, OutsideMeter DEF Next
  <1>4. QED BY <1>1, <1>3

-----------------------------------------------------------------------------
LEMMA UploadInitially == Init => UploadInv
  <1> SUFFICES ASSUME Init PROVE UploadInv
    OBVIOUS
  <1>1. row \in [Entities -> Row]
    BY DEF Init, Row, Bytes, MissionStatuses, ProjectStatuses
  <1>2. opened \in 0 .. MaxOpened /\ metered \in Nat
    BY UploadAssumption DEF Init
  <1>3. overlapped \in BOOLEAN /\ granted \subseteq Files
        /\ announced \subseteq Files /\ resurrected \subseteq Entities
    BY DEF Init
  <1>4. UploadTypeOK
    BY <1>1, <1>2, <1>3, Blanks DEF Init, UploadTypeOK
  <1>5. row[Project].bytes = 0 /\ metered = 0
    BY DEF Init, Entities
  <1>6. ASSUME NEW r \in Requests PROVE MeterOf(request[r], own[r][Project], metered)
    BY DEF Init, MeterOf, BoundOf, Within, Idle, NoRows, Nothing, Entities
  <1>7. QED BY <1>4, <1>5, <1>6 DEF UploadInv, MeterHolds, Within

LEMMA UploadInvariant == Spec => []UploadInv
  <1>1. Init => UploadInv
    BY UploadInitially
  <1>2. UploadInv /\ [Next]_vars => UploadInv'
    BY StepTyping, StepMeter DEF UploadInv
  <1>3. QED BY <1>1, <1>2, PTL DEF Spec

\* Rows, images, requests and what they hold keep their types, whichever
\* requests overlap, fail or are broken as deadlocks.
THEOREM UploadTyping == Spec => []UploadTypeOK
  <1>1. UploadInv => UploadTypeOK
    BY DEF UploadInv
  <1>2. QED BY <1>1, UploadInvariant, PTL

\* applyProjectStorageDelta reads, adds and writes without a lock; however the
\* updates of completions, edits and archiving overwrite each other, the meter
\* of a project is never above the bytes of the images inserted in it.
THEOREM UploadMeter == Spec => []MeterNeverOvercounts
  <1>1. UploadInv => MeterNeverOvercounts
    BY DEF UploadInv, MeterHolds, Within, MeterNeverOvercounts
  <1>2. QED BY <1>1, UploadInvariant, PTL

-----------------------------------------------------------------------------
(* What each step does to the request that takes it.                       *)

\* The other requests and the committed rows stay as they are.
Alone(r) ==
  /\ \A p \in Requests \ {r} : /\ request'[p] = request[p]
                               /\ own'[p] = own[p] /\ stored'[p] = stored[p]
  /\ UNCHANGED <<row, image, metered, resurrected, overlapped>>

LEMMA LookDoes ==
  ASSUME UploadTypeOK, NEW r \in Requests, NEW f \in Files, Look(r, f)
  PROVE  LET q == request[r]
             n == request'[r] IN
         /\ Alone(r) /\ own' = own /\ stored' = stored /\ announced' = announced
         /\ q.pc = "ingest" /\ f \in q.todo /\ n.todo = q.todo \ {f}
         /\ n.next = q.next /\ n.target = q.target /\ n.entity = q.entity
         /\ n.added = q.added /\ n.booked = q.booked /\ n.dirty = q.dirty
         /\ \/ n.pc = "ingest"
            \/ /\ n.pc = "store" /\ n.file = f /\ n.found = image[f]
               /\ n.size # 0
  <1>1. r \in DOMAIN request /\ request[r] \in RequestRecord
    BY Held DEF UploadTypeOK
  <1>2. Alone(r) /\ own' = own /\ stored' = stored /\ announced' = announced
    BY DEF Look, OnlyRequest, UploadTypeOK, Alone
  <1> DEFINE n == IF object[f] = 0 THEN [request[r] EXCEPT !.todo = @ \ {f}]
                  ELSE [request[r] EXCEPT !.todo = @ \ {f}, !.pc = "store", !.file = f,
                                          !.size = object[f], !.found = image[f]]
  <1>3. request' = [request EXCEPT ![r] = n]
        /\ request[r].pc = "ingest" /\ f \in request[r].todo
    BY DEF Look
  <1>4. /\ n.next = request[r].next /\ n.target = request[r].target
        /\ n.entity = request[r].entity /\ n.todo = request[r].todo \ {f}
        /\ n.added = request[r].added /\ n.booked = request[r].booked
        /\ n.dirty = request[r].dirty
        /\ \/ n.pc = request[r].pc
           \/ n.pc = "store" /\ n.file = f /\ n.found = image[f] /\ n.size # 0
    BY <1>1 DEF RequestRecord
  <1> HIDE DEF n
  <1>5. request'[r] = n
    BY <1>1, <1>3
  <1>6. QED BY <1>2, <1>3, <1>4, <1>5

LEMMA StoredDoes ==
  ASSUME UploadTypeOK, NEW r \in Requests, NEW added \in Nat, NEW inserted \in Nat,
         Stored(r, added, inserted)
  PROVE  LET q == request[r]
             n == request'[r] IN
         /\ Alone(r) /\ own' = own /\ announced' = announced
         /\ stored'[r] = [stored[r] EXCEPT ![q.file] = q.size]
         /\ n.pc = "ingest" /\ n.todo = q.todo
         /\ n.next = q.next /\ n.target = q.target /\ n.entity = q.entity
         /\ n.added = q.added + added /\ n.booked = q.booked + inserted
         /\ n.dirty = q.dirty
  <1>1. r \in DOMAIN request /\ request[r] \in RequestRecord
    BY Held DEF UploadTypeOK
  <1>2. Alone(r) /\ own' = own /\ announced' = announced
        /\ stored'[r] = [stored[r] EXCEPT ![request[r].file] = request[r].size]
    BY DEF Stored, UploadTypeOK, Alone
  <1>3. request'[r] = [NextFile(request[r]) EXCEPT !.added = @ + added,
                                                   !.booked = @ + inserted]
    BY <1>1 DEF Stored, UploadTypeOK
  <1>4. QED BY <1>1, <1>2, <1>3 DEF RequestRecord, NextFile

LEMMA StoreNothingDoes ==
  ASSUME UploadTypeOK, NEW r \in Requests, StoreNothing(r)
  PROVE  LET q == request[r]
             n == request'[r] IN
         /\ Alone(r) /\ own' = own /\ stored' = stored /\ announced' = announced
         /\ q.pc = "store" /\ n.pc = "ingest" /\ n.todo = q.todo
         /\ n.next = q.next /\ n.target = q.target /\ n.entity = q.entity
         /\ n.dirty = q.dirty
         /\ n.added = q.added /\ n.booked = q.booked
  <1>1. r \in DOMAIN request /\ request[r] \in RequestRecord
    BY Held DEF UploadTypeOK
  <1>2. Alone(r) /\ own' = own /\ stored' = stored /\ announced' = announced
    BY DEF StoreNothing, OnlyRequest, UploadTypeOK, Alone
  <1>3. request'[r] = NextFile(request[r]) /\ request[r].pc = "store"
    BY <1>1 DEF StoreNothing, UploadTypeOK
  <1>4. QED BY <1>1, <1>2, <1>3 DEF RequestRecord, NextFile

LEMMA RecountDoes ==
  ASSUME UploadTypeOK, NEW r \in Requests, Recount(r)
  PROVE  LET q == request[r]
             n == request'[r]
             images == ImagesSeen(r, q.target) IN
         /\ Alone(r) /\ own' = own /\ stored' = stored /\ announced' = announced
         /\ q.pc = "ingest" /\ n.pc = "select" /\ n.dirty = q.dirty
         /\ n.seen = images /\ n.next = q.next /\ n.target = q.target
         /\ n.entity.status = "READY" /\ n.entity.count = Cardinality(images)
         /\ n.entity.bytes = TotalSize([f \in Files |-> ImageSeen(r, f)], images)
         /\ n.added = q.added /\ n.booked = q.booked
  <1>1. r \in DOMAIN request /\ request[r] \in RequestRecord
    BY Held DEF UploadTypeOK
  <1>2. Alone(r) /\ own' = own /\ stored' = stored /\ announced' = announced
    BY DEF Recount, OnlyRequest, UploadTypeOK, Alone
  <1> DEFINE images == ImagesSeen(r, request[r].target)
             e == [status |-> "READY", count |-> Cardinality(images),
                   bytes |-> TotalSize([f \in Files |-> ImageSeen(r, f)], images)]
  <1>3. request'[r] = [request[r] EXCEPT !.pc = "select", !.seen = images, !.entity = e]
        /\ request[r].pc = "ingest"
    BY <1>1 DEF Recount, UploadTypeOK
  <1> HIDE DEF e, images
  <1>4. /\ request'[r].pc = "select" /\ request'[r].dirty = request[r].dirty
        /\ request'[r].seen = images /\ request'[r].next = request[r].next
        /\ request'[r].target = request[r].target /\ request'[r].entity = e
        /\ request'[r].added = request[r].added /\ request'[r].booked = request[r].booked
    BY <1>1, <1>3 DEF RequestRecord
  <1>5. QED BY <1>2, <1>3, <1>4 DEF e, images

LEMMA TransitionDoes ==
  ASSUME UploadTypeOK, NEW r \in Requests, Transition(r)
  PROVE  LET q == request[r]
             n == request'[r] IN
         /\ Alone(r) /\ own' = own /\ stored' = stored /\ announced' = announced
         /\ q.pc = "transition" /\ n.pc = "select" /\ n.next = "meter"
         /\ n.dirty = {"other"} /\ n.target = q.target /\ n.seen = q.seen
         /\ n.entity = [RowSeen(r, Project) EXCEPT !.status = "UPLOADING"]
         /\ n.added = q.added /\ n.booked = q.booked
  <1>1. r \in DOMAIN request /\ request[r] \in RequestRecord
    BY Held DEF UploadTypeOK
  <1>2. Alone(r) /\ own' = own /\ stored' = stored /\ announced' = announced
    BY DEF Transition, OnlyRequest, UploadTypeOK, Alone
  <1> DEFINE e == [RowSeen(r, Project) EXCEPT !.status = "UPLOADING"]
  <1>3. request'[r] = [request[r] EXCEPT !.pc = "select", !.next = "meter",
                                         !.dirty = {"other"}, !.entity = e]
        /\ request[r].pc = "transition"
    BY <1>1 DEF Transition, UploadTypeOK
  <1> HIDE DEF e
  <1>4. /\ request'[r].pc = "select" /\ request'[r].next = "meter"
        /\ request'[r].dirty = {"other"} /\ request'[r].target = request[r].target
        /\ request'[r].seen = request[r].seen /\ request'[r].entity = e
        /\ request'[r].added = request[r].added /\ request'[r].booked = request[r].booked
    BY <1>1, <1>3 DEF RequestRecord
  <1>5. QED BY <1>2, <1>3, <1>4 DEF e

LEMMA MeterDoes ==
  ASSUME UploadTypeOK, NEW r \in Requests, Meter(r)
  PROVE  LET q == request[r]
             n == request'[r]
             project == RowSeen(r, Project) IN
         /\ Alone(r) /\ own' = own /\ stored' = stored /\ announced' = announced
         /\ q.pc = "meter" /\ n.target = q.target /\ n.seen = q.seen
         /\ n.dirty = q.dirty /\ n.added = q.added /\ n.booked = q.booked
         /\ \/ /\ q.added = 0 \/ project.status = "GONE"
               /\ n.pc = "publish" /\ n.next = q.next /\ n.entity = q.entity
            \/ /\ q.added # 0 /\ project.status # "GONE"
               /\ n.pc = "select" /\ n.next = "publish"
               /\ n.entity = [project EXCEPT !.bytes = @ + q.added]
  <1>1. r \in DOMAIN request /\ request[r] \in RequestRecord
    BY Held DEF UploadTypeOK
  <1>2. Alone(r) /\ own' = own /\ stored' = stored /\ announced' = announced
    BY DEF Meter, OnlyRequest, UploadTypeOK, Alone
  <1> DEFINE q == request[r]
             skip == q.added = 0 \/ RowSeen(r, Project).status = "GONE"
             e == [RowSeen(r, Project) EXCEPT !.bytes = @ + q.added]
             n == IF skip THEN [q EXCEPT !.pc = "publish"]
                  ELSE [q EXCEPT !.pc = "select", !.next = "publish", !.entity = e]
  <1>3. request' = [request EXCEPT ![r] = n] /\ q.pc = "meter"
    BY DEF Meter
  <1> HIDE DEF e, skip
  <1>4. /\ n.target = q.target /\ n.seen = q.seen /\ n.dirty = q.dirty
        /\ n.added = q.added /\ n.booked = q.booked
        /\ \/ skip /\ n.pc = "publish" /\ n.next = q.next /\ n.entity = q.entity
           \/ ~skip /\ n.pc = "select" /\ n.next = "publish" /\ n.entity = e
    BY <1>1 DEF RequestRecord
  <1> HIDE DEF n
  <1>5. request'[r] = n
    BY <1>1, <1>3
  <1>6. QED BY <1>2, <1>3, <1>4, <1>5 DEF e, skip

LEMMA PublishDoes ==
  ASSUME UploadTypeOK, NEW r \in Requests, Publish(r)
  PROVE  LET q == request[r]
             n == request'[r] IN
         /\ Alone(r) /\ own' = own /\ stored' = stored
         /\ announced' = announced \cup q.seen
         /\ q.pc = "publish" /\ n.pc = "commit" /\ n.next = q.next
         /\ n.target = q.target /\ n.entity = q.entity /\ n.dirty = q.dirty
         /\ n.added = q.added /\ n.booked = q.booked
  <1>1. r \in DOMAIN request /\ request[r] \in RequestRecord
    BY Held DEF UploadTypeOK
  <1>2. Alone(r) /\ own' = own /\ stored' = stored
        /\ announced' = announced \cup request[r].seen
    BY DEF Publish, UploadTypeOK, Alone
  <1>3. request'[r] = [request[r] EXCEPT !.pc = "commit"] /\ request[r].pc = "publish"
    BY <1>1 DEF Publish, UploadTypeOK
  <1>4. QED BY <1>1, <1>2, <1>3 DEF RequestRecord

\* A save is over: without an update, or with one.
LEMMA SaveDoneDoes ==
  ASSUME NEW q \in RequestRecord
  PROVE  LET n == SaveDone(q) IN
         /\ n.pc = q.next /\ n.next = "idle" /\ n.target = Project
         /\ n.entity = Nothing /\ n.seen = q.seen /\ n.dirty = {}
         /\ n.added = q.added /\ n.booked = q.booked
  BY DEF RequestRecord, SaveDone

LEMMA SelectDoes ==
  ASSUME UploadTypeOK, NEW r \in Requests, SaveSelect(r)
  PROVE  LET q == request[r]
             n == request'[r]
             seen == RowSeen(r, q.target)
             dirty == IF seen.status = "GONE" THEN {"row"}
                      ELSE q.dirty \cup {c \in Columns : q.entity[c] # seen[c]} IN
         /\ Alone(r) /\ own' = own /\ stored' = stored /\ announced' = announced
         /\ q.pc = "select"
         /\ \/ dirty = {} /\ n = SaveDone(q)
            \/ /\ n.pc = "update" /\ n.dirty = dirty /\ n.seen = q.seen
               /\ n.next = q.next /\ n.target = q.target /\ n.entity = q.entity
               /\ n.added = q.added /\ n.booked = q.booked
  <1>1. r \in DOMAIN request /\ request[r] \in RequestRecord
    BY Held DEF UploadTypeOK
  <1>2. Alone(r) /\ own' = own /\ stored' = stored /\ announced' = announced
    BY DEF SaveSelect, OnlyRequest, UploadTypeOK, Alone
  <1> DEFINE q == request[r]
             seen == RowSeen(r, q.target)
             dirty == IF seen.status = "GONE" THEN {"row"}
                      ELSE q.dirty \cup {c \in Columns : q.entity[c] # seen[c]}
             n == IF dirty = {} THEN SaveDone(q)
                  ELSE [q EXCEPT !.dirty = dirty, !.pc = "update"]
  <1>3. request' = [request EXCEPT ![r] = n] /\ q.pc = "select"
    BY DEF SaveSelect
  <1> HIDE DEF dirty
  <1>4. \/ dirty = {} /\ n = SaveDone(q)
        \/ /\ n.pc = "update" /\ n.dirty = dirty /\ n.seen = q.seen
           /\ n.next = q.next /\ n.target = q.target /\ n.entity = q.entity
           /\ n.added = q.added /\ n.booked = q.booked
    BY <1>1 DEF RequestRecord
  <1> HIDE DEF n
  <1>5. request'[r] = n
    BY <1>1, <1>3
  <1>6. QED BY <1>2, <1>3, <1>4, <1>5 DEF dirty

LEMMA SavedDoes ==
  ASSUME UploadTypeOK, NEW r \in Requests, NEW saved, Saved(r, saved)
  PROVE  /\ Alone(r) /\ stored' = stored /\ announced' = announced
         /\ own'[r] = [own[r] EXCEPT ![request[r].target] = saved]
         /\ request'[r] = SaveDone(request[r])
  BY DEF Saved, UploadTypeOK, Alone

LEMMA AbortDoes ==
  ASSUME UploadTypeOK, NEW r \in Requests, Abort(r)
  PROVE  /\ Alone(r) /\ announced' = announced
         /\ request'[r] = Idle /\ own'[r] = NoRows /\ stored'[r] = NoImages
  BY DEF Abort, Release, UploadTypeOK, Alone

LEMMA BeginDoes ==
  ASSUME UploadTypeOK, NEW r \in Requests, NEW q, Begin(r, q)
  PROVE  /\ \A p \in Requests \ {r} : request'[p] = request[p]
         /\ request[r].pc = "idle" /\ request'[r] = q
         /\ UNCHANGED <<own, stored, row, image, announced, metered, resurrected>>
         /\ overlapped' = (overlapped \/ \E p \in Requests \ {r} : request[p].pc # "idle")
  BY DEF Begin, Admit, UploadTypeOK

LEMMA CommitDoes ==
  ASSUME UploadTypeOK, NEW r \in Requests, Commit(r)
  PROVE  /\ \A p \in Requests \ {r} : /\ request'[p] = request[p]
                                      /\ own'[p] = own[p] /\ stored'[p] = stored[p]
         /\ request'[r] = Idle /\ own'[r] = NoRows /\ stored'[r] = NoImages
         /\ request[r].pc = "commit"
         /\ row' = [e \in Entities |-> RowSeen(r, e)]
         /\ image' = [f \in Files |-> ImageSeen(r, f)]
         /\ metered' = metered + request[r].booked
         /\ resurrected' = resurrected \cup
              {e \in Entities : own[r][e] # Nothing /\ ~Exists(e)}
         /\ UNCHANGED <<announced, overlapped>>
  BY DEF Commit, Release, UploadTypeOK

-----------------------------------------------------------------------------
(* Foreign keys.                                                           *)

\* What an open request may hold: no deleted entity, files of its mission, and
\* written rows whose parents cannot go away before it commits.
ParentsOf(r) ==
  LET q == request[r] IN
  /\ q.entity.status # "GONE"
  /\ q.pc \in {"ingest", "store"} =>
       /\ q.target \in Missions
       /\ q.next \in {"transition", "meter"}
       /\ \A f \in q.todo : MissionOf[f] = q.target
  /\ q.pc = "store" => q.file \in Files /\ MissionOf[q.file] = q.target
  /\ q.pc \in {"transition", "meter"} => q.target = Project
  /\ \A f \in Files : stored[r][f] # 0 => Exists(MissionOf[f])
  /\ \A e \in Entities : own[r][e].status # "GONE"
  /\ \A m \in Missions : own[r][m] # Nothing => Exists(Project)

\* The inductive form of RowsHaveParents.
ParentsHold ==
  /\ RowsHaveParents
  /\ \A r \in Requests : ParentsOf(r)

\* A step that leaves the committed rows alone and after which its request holds
\* what it may.
LEMMA AloneParents ==
  ASSUME ParentsHold, NEW r \in Requests, Alone(r), ParentsOf(r)'
  PROVE  ParentsHold'
  <1>1. RowsHaveParents'
    BY DEF ParentsHold, RowsHaveParents, Exists, Alone
  <1>2. ASSUME NEW p \in Requests \ {r} PROVE ParentsOf(p)'
    <2>1. ParentsOf(p) /\ request'[p] = request[p] /\ own'[p] = own[p]
          /\ stored'[p] = stored[p] /\ row' = row
      BY DEF ParentsHold, Alone
    <2>2. QED BY <2>1 DEF ParentsOf, Exists
  <1>3. QED BY <1>1, <1>2 DEF ParentsHold

LEMMA IdleParents ==
  ASSUME NEW r \in Requests, request'[r] = Idle, own'[r] = NoRows,
         stored'[r] = NoImages
  PROVE  ParentsOf(r)'
  BY UploadAssumption DEF ParentsOf, Idle, NoRows, NoImages, Nothing, Entities

LEMMA AbortParents ==
  ASSUME UploadTypeOK, ParentsHold, NEW r \in Requests, Abort(r)
  PROVE  ParentsHold'
  BY AbortDoes, IdleParents, AloneParents

LEMMA BeginParents ==
  ASSUME UploadTypeOK, ParentsHold, NEW r \in Requests, NEW q, Begin(r, q),
         q.entity.status # "GONE", q.pc \in {"ingest", "select"},
         q.pc = "ingest" => /\ q.target \in Missions
                            /\ q.next \in {"transition", "meter"}
                            /\ \A f \in q.todo : MissionOf[f] = q.target
  PROVE  ParentsHold'
  <1>1. ASSUME NEW p \in Requests PROVE ParentsOf(p)'
    <2>1. ParentsOf(p) /\ (p # r => request'[p] = request[p])
          /\ request'[r] = q /\ UNCHANGED <<own, stored, row>>
      BY BeginDoes DEF ParentsHold
    <2>2. QED BY <2>1 DEF ParentsOf, Exists
  <1>2. RowsHaveParents'
    BY BeginDoes DEF ParentsHold, RowsHaveParents, Exists
  <1>3. QED BY <1>1, <1>2 DEF ParentsHold

LEMMA OpenParents ==
  ASSUME UploadTypeOK, ParentsHold, NEW r \in Requests, OpenStep(r)
  PROVE  ParentsHold'
  <1>0. \A e \in Entities : row[e] \in Row
    BY DEF UploadTypeOK
  <1>1. ASSUME NEW m \in Missions, NEW files \in SUBSET FilesOf(m), Complete(r, m, files)
        PROVE  ParentsHold'
    BY <1>1, BeginParents DEF Complete, Idle, Exists, FilesOf
  <1>2. ASSUME NEW m \in Missions, EditMission(r, m) PROVE ParentsHold'
    BY <1>2, BeginParents DEF EditMission, Idle, Exists
  <1>3. CASE EditProject(r)
    BY <1>3, BeginParents DEF EditProject, Idle
  <1>4. CASE Archive(r)
    <2>1. [row[Project] EXCEPT !.status = "ARCHIVED"].status = "ARCHIVED"
      BY <1>0 DEF Row, Entities
    <2>2. QED BY <1>4, <2>1, BeginParents DEF Archive, Idle
  <1>5. ASSUME NEW m \in Missions, RemoveMission(r, m) PROVE ParentsHold'
    <2>1. /\ UNCHANGED <<request, own, stored>> /\ m # Project
          /\ \A e \in Entities \ {m} : row'[e] = row[e]
          /\ row'[m] = Gone
          /\ \A f \in Files : image'[f] = IF MissionOf[f] = m THEN 0 ELSE image[f]
          /\ \A q \in Requests : \A f \in Files : MissionOf[f] = m => stored[q][f] = 0
      BY <1>5, UploadAssumption
      DEF RemoveMission, OnlyRows, UploadTypeOK, FilesOf, Entities
    <2>2. RowsHaveParents'
      BY <2>1, UploadAssumption DEF ParentsHold, RowsHaveParents, Exists, Gone, Entities
    <2>3. ASSUME NEW p \in Requests PROVE ParentsOf(p)'
      <3>1. ParentsOf(p)
        BY DEF ParentsHold
      <3>2. \A f \in Files : stored[p][f] # 0 => Exists(MissionOf[f])'
        BY <2>1, <3>1, UploadAssumption DEF ParentsOf, Exists, Entities
      <3>3. Exists(Project)' = Exists(Project)
        BY <2>1 DEF Exists, Entities
      <3>4. QED BY <2>1, <3>1, <3>2, <3>3 DEF ParentsOf
    <2>4. QED BY <2>2, <2>3 DEF ParentsHold
  <1>6. CASE RemoveProject(r)
    <2>1. /\ UNCHANGED <<request, own, stored>>
          /\ \A q \in Requests : own[q] = NoRows /\ stored[q] = NoImages
          /\ \A e \in Entities : ~Exists(e)'
          /\ \A f \in Files : image'[f] = 0
      BY <1>6 DEF RemoveProject, OnlyRows, NoImages, Gone, Exists
    <2>2. RowsHaveParents'
      BY <2>1 DEF RowsHaveParents, Entities
    <2>3. ASSUME NEW p \in Requests PROVE ParentsOf(p)'
      <3>1. ParentsOf(p) /\ own[p] = NoRows /\ stored[p] = NoImages
        BY <2>1 DEF ParentsHold
      <3>2. \A f \in Files : stored[p][f] = 0
        BY <3>1 DEF NoImages
      <3>3. \A e \in Entities : own[p][e] = Nothing
        BY <3>1 DEF NoRows
      <3>4. QED BY <2>1, <3>1, <3>2, <3>3 DEF ParentsOf, Entities
    <2>4. QED BY <2>2, <2>3 DEF ParentsHold
  <1>7. QED BY <1>1, <1>2, <1>3, <1>4, <1>5, <1>6 DEF OpenStep

LEMMA CompleteParents ==
  ASSUME UploadTypeOK, ParentsHold, NEW r \in Requests, CompleteStep(r)
  PROVE  ParentsHold'
  <1> DEFINE q == request[r]
  <1>0. /\ ParentsOf(r) /\ q \in RequestRecord
        /\ own[r] \in [Entities -> Row] /\ stored[r] \in [Files -> 0 .. MaxSize]
        /\ RowSeen(r, Project) \in Row
    BY Held DEF ParentsHold, Entities
  <1>1. ASSUME NEW f \in Files, Look(r, f) PROVE ParentsHold'
    <2>1. ParentsOf(r)'
      BY <1>0, <1>1, LookDoes DEF ParentsOf, Exists, Alone
    <2>2. QED BY <1>1, <2>1, LookDoes, AloneParents
  <1>2. ASSUME NEW added \in Nat, NEW inserted \in Nat, q.pc = "store",
               Exists(q.target), Stored(r, added, inserted)
        PROVE  ParentsHold'
    <2>1. /\ q.file \in Files /\ MissionOf[q.file] = q.target
          /\ stored'[r] = [stored[r] EXCEPT ![q.file] = q.size] /\ row' = row
      BY <1>0, <1>2, StoredDoes DEF ParentsOf, Alone
    <2>2. \A f \in Files : stored'[r][f] # 0 => Exists(MissionOf[f])'
      BY <1>0, <1>2, <2>1 DEF ParentsOf, Exists
    <2>5. /\ request'[r].pc = "ingest" /\ request'[r].todo = q.todo
          /\ request'[r].next = q.next /\ request'[r].target = q.target
          /\ request'[r].entity = q.entity /\ own' = own
      BY <1>2, StoredDoes
    <2>3. ParentsOf(r)'
      BY <1>0, <1>2, <2>1, <2>2, <2>5 DEF ParentsOf, Exists
    <2>4. QED BY <1>2, <2>3, StoredDoes, AloneParents
  <1>3. q.size \in Nat
    BY <1>0, UploadAssumption DEF RequestRecord
  <1>4. CASE StoreKnown(r)
    <2>1. Exists(q.target)
      BY <1>0, <1>4 DEF StoreKnown, ParentsOf, ParentsHold, RowsHaveParents
    <2>2. QED BY <1>2, <1>4, <2>1 DEF StoreKnown
  <1>5. CASE StoreNew(r)
    <2> DEFINE added == IF q.found # 0 THEN 0 ELSE q.size
    <2>1. added \in Nat /\ Stored(r, added, q.size) /\ Exists(q.target) /\ q.pc = "store"
      BY <1>3, <1>5 DEF StoreNew
    <2>2. QED BY <1>2, <1>3, <2>1
  <1>6. CASE StoreNothing(r)
    <2>1. ParentsOf(r)'
      BY <1>0, <1>6, StoreNothingDoes DEF ParentsOf, Exists, Alone
    <2>2. QED BY <1>6, <2>1, StoreNothingDoes, AloneParents
  <1>7. CASE StoreRefused(r)
    BY <1>7, AbortParents DEF StoreRefused
  <1>8. CASE Recount(r)
    <2>1. /\ request'[r].entity.status = "READY" /\ request'[r].pc = "select"
          /\ own' = own /\ stored' = stored /\ row' = row
      BY <1>0, <1>8, RecountDoes DEF Alone
    <2>2. ParentsOf(r)'
      BY <1>0, <2>1 DEF ParentsOf, Exists
    <2>3. QED BY <1>8, <2>2, RecountDoes, AloneParents
  <1>9. CASE RecountRefused(r)
    BY <1>9, AbortParents DEF RecountRefused
  <1>10. CASE Transition(r)
    <2>1. /\ request'[r].entity.status = "UPLOADING" /\ request'[r].pc = "select"
          /\ own' = own /\ stored' = stored /\ row' = row
      BY <1>0, <1>10, TransitionDoes DEF Row, Alone
    <2>2. ParentsOf(r)'
      BY <1>0, <2>1 DEF ParentsOf, Exists
    <2>3. QED BY <1>10, <2>2, TransitionDoes, AloneParents
  <1>11. CASE TransitionRefused(r)
    BY <1>11, AbortParents DEF TransitionRefused
  <1>12. CASE Meter(r)
    <2>1. /\ request'[r].entity.status # "GONE" /\ request'[r].pc \in {"publish", "select"}
          /\ own' = own /\ stored' = stored /\ row' = row
      <3> DEFINE project == RowSeen(r, Project)
      <3>1. [project EXCEPT !.bytes = @ + q.added].status = project.status
        BY <1>0 DEF Row
      <3> HIDE DEF q
      <3>2. QED BY <1>0, <1>12, <3>1, MeterDoes DEF ParentsOf, Alone, q
    <2>2. ParentsOf(r)'
      BY <1>0, <2>1 DEF ParentsOf, Exists
    <2>3. QED BY <1>12, <2>2, MeterDoes, AloneParents
  <1>13. CASE Publish(r)
    <2>1. ParentsOf(r)'
      BY <1>0, <1>13, PublishDoes DEF ParentsOf, Exists, Alone
    <2>2. QED BY <1>13, <2>1, PublishDoes, AloneParents
  <1>14. QED
    BY <1>1, <1>4, <1>5, <1>6, <1>7, <1>8, <1>9, <1>10, <1>11, <1>12, <1>13
    DEF CompleteStep

\* What a save leaves is not written to the rows of others, and names no parent
\* that is not there.
LEMMA SavedParents ==
  ASSUME UploadInv, ParentsHold, NEW r \in Requests, NEW saved, Saved(r, saved),
         request[r].pc = "update", saved.status # "GONE",
         saved # Nothing /\ request[r].target # Project => Exists(Project)
  PROVE  ParentsHold'
  <1> DEFINE q == request[r]
  <1>1. /\ ParentsOf(r) /\ q \in RequestRecord /\ q.next \notin {"ingest", "store"}
        /\ own[r] \in [Entities -> Row] /\ q.target \in Entities
    BY Held, MeterSeen DEF ParentsHold, UploadInv, RequestRecord
  <1>2. /\ Alone(r) /\ stored' = stored /\ row' = row
        /\ own'[r] = [own[r] EXCEPT ![q.target] = saved]
        /\ request'[r].pc = q.next /\ request'[r].entity = Nothing
        /\ request'[r].target = Project
    BY <1>1, SavedDoes, SaveDoneDoes DEF UploadInv, Alone
  <1>3. \A e \in Entities : own'[r][e].status # "GONE"
    BY <1>1, <1>2 DEF ParentsOf
  <1>4. ASSUME NEW m \in Missions, own'[r][m] # Nothing PROVE Exists(Project)'
    BY <1>1, <1>2, <1>4, UploadAssumption DEF ParentsOf, Exists, Entities
  <1>5. ParentsOf(r)'
    BY <1>1, <1>2, <1>3, <1>4 DEF ParentsOf, Exists, Nothing
  <1>6. QED BY <1>2, <1>5, AloneParents

LEMMA SaveParents ==
  ASSUME UploadInv, ParentsHold, NEW r \in Requests, SaveStep(r)
  PROVE  ParentsHold'
  <1> DEFINE q == request[r]
             e == q.entity
             seen == RowSeen(r, q.target)
  <1>0. /\ UploadTypeOK /\ ParentsOf(r) /\ q \in RequestRecord
        /\ q.next \notin {"ingest", "store"}
        /\ q.target \in Entities /\ e \in Row /\ seen \in Row
    BY Held, MeterSeen DEF ParentsHold, UploadInv, RequestRecord
  <1>1. CASE SaveSelect(r)
    <2>1. /\ request'[r].entity.status # "GONE"
          /\ request'[r].pc \notin {"ingest", "store"}
          /\ request'[r].pc \in {"transition", "meter"} => request'[r].target = Project
          /\ own' = own /\ stored' = stored /\ row' = row
      <3>1. SaveDone(q).entity.status # "GONE" /\ SaveDone(q).pc = q.next
            /\ SaveDone(q).target = Project
        BY <1>0, SaveDoneDoes DEF Nothing
      <3> HIDE DEF q
      <3>2. QED BY <1>0, <1>1, <3>1, SelectDoes DEF ParentsOf, Alone, q
    <2>2. ParentsOf(r)'
      BY <1>0, <2>1 DEF ParentsOf, Exists
    <2>3. QED BY <1>0, <1>1, <2>2, SelectDoes, AloneParents
  <1>2. CASE SaveUpdate(r)
    <2> DEFINE Value(c) == IF c \in q.dirty THEN e[c] ELSE seen[c]
               saved == IF seen.status = "GONE" THEN own[r][q.target]
                        ELSE [status |-> Value("status"), count |-> Value("count"),
                              bytes |-> Value("bytes")]
    <2>1. saved.status # "GONE"
      BY <1>0 DEF ParentsOf
    <2>2. ASSUME q.target # Project, saved # Nothing PROVE Exists(Project)
      <3>1. q.target \in Missions
        BY <1>0, <2>2 DEF Entities
      <3>2. CASE own[r][q.target] # Nothing
        BY <1>0, <3>1, <3>2 DEF ParentsOf
      <3>3. CASE own[r][q.target] = Nothing
        <4>1. seen = row[q.target] /\ seen.status # "GONE"
          BY <2>2, <3>3 DEF RowSeen
        <4>2. QED BY <3>1, <4>1 DEF ParentsHold, RowsHaveParents, Exists
      <3>4. QED BY <3>2, <3>3
    <2>3. Saved(r, saved) /\ q.pc = "update"
      BY <1>2 DEF SaveUpdate
    <2> HIDE DEF saved
    <2>4. QED BY <2>1, <2>2, <2>3, SavedParents
  <1>3. CASE SaveInsert(r)
    BY <1>0, <1>3, SavedParents DEF SaveInsert, ParentsOf
  <1>4. CASE SaveRefused(r)
    BY <1>0, <1>4, AbortParents DEF SaveRefused
  <1>5. QED BY <1>1, <1>2, <1>3, <1>4 DEF SaveStep

\* A commit makes rows and images visible that have their parents, and takes
\* none away.
LEMMA CommitParents ==
  ASSUME UploadTypeOK, ParentsHold, NEW r \in Requests, Commit(r)
  PROVE  ParentsHold'
  <1>1. /\ \A p \in Requests \ {r} : /\ request'[p] = request[p]
                                     /\ own'[p] = own[p] /\ stored'[p] = stored[p]
        /\ request'[r] = Idle /\ own'[r] = NoRows /\ stored'[r] = NoImages
        /\ \A e \in Entities : row'[e] = RowSeen(r, e)
        /\ \A f \in Files : image'[f] = ImageSeen(r, f)
    BY CommitDoes
  <1>2. ParentsOf(r)
    BY DEF ParentsHold
  <1>3. \A e \in Entities : Exists(e) => Exists(e)'
    BY <1>1, <1>2 DEF Exists, RowSeen, ParentsOf
  <1>4. ASSUME NEW f \in Files, image'[f] # 0 PROVE Exists(MissionOf[f])'
    <2>1. Exists(MissionOf[f])
      BY <1>1, <1>2, <1>4 DEF ImageSeen, ParentsOf, ParentsHold, RowsHaveParents
    <2>2. QED BY <1>3, <2>1, UploadAssumption DEF Entities
  <1>5. ASSUME NEW m \in Missions, Exists(m)' PROVE Exists(Project)'
    <2>1. Exists(Project)
      BY <1>1, <1>2, <1>5
      DEF Exists, RowSeen, ParentsOf, ParentsHold, RowsHaveParents, Entities
    <2>2. QED BY <1>3, <2>1 DEF Entities
  <1>6. ASSUME NEW p \in Requests \ {r} PROVE ParentsOf(p)'
    <2>1. ParentsOf(p)
      BY DEF ParentsHold
    <2>2. \A f \in Files : Exists(MissionOf[f]) => Exists(MissionOf[f])'
      BY <1>3, UploadAssumption DEF Entities
    <2>3. Exists(Project) => Exists(Project)'
      BY <1>3 DEF Entities
    <2>4. QED BY <1>1, <2>1, <2>2, <2>3 DEF ParentsOf
  <1>7. ParentsOf(r)'
    BY <1>1, IdleParents
  <1>8. QED BY <1>4, <1>5, <1>6, <1>7 DEF ParentsHold, RowsHaveParents

LEMMA OutsideParents ==
  ASSUME UploadTypeOK, ParentsHold, BucketStep \/ WorkerStep
  PROVE  ParentsHold'
  <1>1. CASE BucketStep
    BY <1>1
    DEF BucketStep, Initiate, Put, OnlyBucket, ParentsHold, ParentsOf, RowsHaveParents,
        Exists
  <1>2. ASSUME NEW m \in Missions, NEW s \in Verdicts, WorkerWrites(m, s)
        PROVE  ParentsHold'
    <2>1. /\ UNCHANGED <<request, own, stored, image>>
          /\ \A e \in Entities : row[e] \in Row
          /\ row' = [row EXCEPT ![m].status = s] /\ Exists(m) /\ s # "GONE"
      BY <1>2, UploadAssumption DEF WorkerWrites, OnlyRows, UploadTypeOK
    <2>2. \A e \in Entities : Exists(e)' <=> Exists(e)
      BY <2>1 DEF Exists, Row, UploadTypeOK
    <2>3. (\A f \in Files : Exists(MissionOf[f])' <=> Exists(MissionOf[f]))
          /\ (Exists(Project)' <=> Exists(Project))
      BY <2>2, UploadAssumption DEF Entities
    <2>4. QED
      BY <2>1, <2>2, <2>3 DEF ParentsHold, ParentsOf, RowsHaveParents, Entities
  <1>3. QED BY <1>1, <1>2 DEF WorkerStep

LEMMA ParentsInvariant == Spec => []ParentsHold
  <1>1. Init => ParentsHold
    BY UploadAssumption
    DEF Init, ParentsHold, ParentsOf, RowsHaveParents, Exists, Idle, NoRows, NoImages,
        Nothing, Entities
  <1>2. UploadInv /\ ParentsHold /\ [Next]_vars => ParentsHold'
    <2> SUFFICES ASSUME UploadInv, ParentsHold, [Next]_vars PROVE ParentsHold'
      OBVIOUS
    <2>0. UploadTypeOK
      BY DEF UploadInv
    <2>1. CASE UNCHANGED vars
      BY <2>1 DEF vars, ParentsHold, ParentsOf, RowsHaveParents, Exists
    <2>2. ASSUME NEW r \in Requests, EndStep(r) PROVE ParentsHold'
      BY <2>0, <2>2, CommitParents, AbortParents DEF EndStep, Fail, DeadlockVictim
    <2>3. CASE Next
      BY <2>0, <2>2, <2>3, OpenParents, CompleteParents, SaveParents, OutsideParents
      DEF Next
    <2>4. QED BY <2>1, <2>3
  <1>3. QED BY <1>1, <1>2, UploadInvariant, PTL DEF Spec

\* Whatever stale saves insert again, and whichever deletions, commits and
\* failures come in between, an image has its mission and a mission its project.
THEOREM UploadParents == Spec => []RowsHaveParents
  <1>1. ParentsHold => RowsHaveParents
    BY DEF ParentsHold
  <1>2. QED BY <1>1, ParentsInvariant, PTL

-----------------------------------------------------------------------------
(* Announcements.                                                          *)

\* An image a request has written is announced, or will be: it lies in the
\* mission whose files the request is taking in, or in the totals of its event.
Told(r, f) ==
  LET q == request[r] IN
  \/ f \in announced
  \/ q.pc \in {"ingest", "store"} /\ MissionOf[f] = q.target
  \/ /\ \/ q.pc \in {"transition", "meter", "publish"}
        \/ q.pc \in {"select", "update"} /\ q.next \in {"transition", "meter", "publish"}
     /\ f \in q.seen

\* The inductive form of IngestedIsAnnounced.
AnnouncedHold ==
  /\ IngestedIsAnnounced
  /\ \A r \in Requests : \A f \in Files : stored[r][f] # 0 => Told(r, f)

LEMMA AloneTold ==
  ASSUME AnnouncedHold, NEW r \in Requests, Alone(r), announced \subseteq announced',
         \A f \in Files : stored'[r][f] # 0 => Told(r, f)'
  PROVE  AnnouncedHold'
  <1>1. IngestedIsAnnounced'
    BY DEF AnnouncedHold, IngestedIsAnnounced, Alone
  <1>2. ASSUME NEW p \in Requests \ {r}, NEW f \in Files, stored'[p][f] # 0
        PROVE  Told(p, f)'
    <2>1. Told(p, f) /\ request'[p] = request[p]
      BY <1>2 DEF AnnouncedHold, Alone
    <2>2. QED BY <2>1 DEF Told
  <1>3. QED BY <1>1, <1>2 DEF AnnouncedHold

LEMMA AbortTold ==
  ASSUME UploadTypeOK, AnnouncedHold, NEW r \in Requests, Abort(r)
  PROVE  AnnouncedHold'
  <1>1. \A f \in Files : stored'[r][f] = 0
    BY AbortDoes DEF NoImages
  <1>2. QED BY <1>1, AbortDoes, AloneTold

\* An idle request has nothing that is not announced.
LEMMA OpenTold ==
  ASSUME UploadTypeOK, AnnouncedHold, NEW r \in Requests, OpenStep(r)
  PROVE  AnnouncedHold'
  <1>1. ASSUME NEW q, Begin(r, q) PROVE AnnouncedHold'
    <2>1. ASSUME NEW p \in Requests, NEW f \in Files, stored'[p][f] # 0
          PROVE  Told(p, f)'
      <3>1. Told(p, f) /\ (p = r \/ request'[p] = request[p]) /\ announced' = announced
            /\ request[r].pc = "idle"
        BY <1>1, <2>1, BeginDoes DEF AnnouncedHold
      <3>2. QED BY <3>1 DEF Told
    <2>2. IngestedIsAnnounced'
      BY <1>1, BeginDoes DEF AnnouncedHold, IngestedIsAnnounced
    <2>3. QED BY <2>1, <2>2 DEF AnnouncedHold
  <1>2. CASE \/ \E m \in Missions : RemoveMission(r, m)
             \/ RemoveProject(r)
    <2>1. UNCHANGED <<request, stored, announced>>
          /\ \A f \in Files : image'[f] # 0 => image[f] # 0
      BY <1>2 DEF RemoveMission, RemoveProject, OnlyRows, NoImages
    <2>2. QED BY <2>1 DEF AnnouncedHold, IngestedIsAnnounced, Told
  <1>3. QED BY <1>1, <1>2 DEF OpenStep, Complete, EditMission, EditProject, Archive

LEMMA CompleteTold ==
  ASSUME UploadTypeOK, ParentsHold, AnnouncedHold, NEW r \in Requests, CompleteStep(r)
  PROVE  AnnouncedHold'
  <1> DEFINE q == request[r]
  <1>0. /\ ParentsOf(r) /\ q \in RequestRecord /\ stored[r] \in [Files -> 0 .. MaxSize]
        /\ \A f \in Files : stored[r][f] # 0 => Told(r, f)
    BY Held DEF ParentsHold, AnnouncedHold
  <1>1. ASSUME NEW f \in Files, Look(r, f) PROVE AnnouncedHold'
    <2>1. \A g \in Files : stored'[r][g] # 0 => Told(r, g)'
      BY <1>0, <1>1, LookDoes DEF Told
    <2>2. QED BY <1>1, <2>1, LookDoes, AloneTold
  <1>2. ASSUME NEW added \in Nat, NEW inserted \in Nat, q.pc = "store",
               Stored(r, added, inserted)
        PROVE  AnnouncedHold'
    <2>1. /\ q.file \in Files /\ MissionOf[q.file] = q.target
          /\ stored'[r] = [stored[r] EXCEPT ![q.file] = q.size]
          /\ request'[r].pc = "ingest" /\ request'[r].target = q.target
          /\ announced' = announced
      BY <1>0, <1>2, StoredDoes DEF ParentsOf
    <2>2. \A f \in Files : stored'[r][f] # 0 => Told(r, f)'
      BY <1>0, <1>2, <2>1 DEF Told
    <2>3. QED BY <1>2, <2>2, StoredDoes, AloneTold
  <1>3. q.size \in Nat
    BY <1>0, UploadAssumption DEF RequestRecord
  <1>4. CASE StoreKnown(r)
    BY <1>2, <1>4 DEF StoreKnown
  <1>5. CASE StoreNew(r)
    <2> DEFINE added == IF q.found # 0 THEN 0 ELSE q.size
    <2>1. added \in Nat /\ Stored(r, added, q.size) /\ q.pc = "store"
      BY <1>3, <1>5 DEF StoreNew
    <2>2. QED BY <1>2, <1>3, <2>1
  <1>6. CASE StoreNothing(r)
    <2>1. \A f \in Files : stored'[r][f] # 0 => Told(r, f)'
      BY <1>0, <1>6, StoreNothingDoes DEF Told
    <2>2. QED BY <1>6, <2>1, StoreNothingDoes, AloneTold
  <1>7. CASE StoreRefused(r)
    BY <1>7, AbortTold DEF StoreRefused
  <1>8. CASE Recount(r)
    <2>1. /\ stored' = stored /\ announced' = announced /\ q.pc = "ingest"
          /\ request'[r].pc = "select" /\ request'[r].next \in {"transition", "meter"}
          /\ request'[r].seen = ImagesSeen(r, q.target)
      BY <1>0, <1>8, RecountDoes DEF ParentsOf
    <2>2. \A f \in Files : stored[r][f] # 0 =>
            f \in announced \/ f \in ImagesSeen(r, q.target)
      BY <1>0, <2>1 DEF Told, ImagesSeen, ImageSeen, FilesOf
    <2>3. \A f \in Files : stored'[r][f] # 0 => Told(r, f)'
      BY <2>1, <2>2 DEF Told
    <2>4. QED BY <1>8, <2>3, RecountDoes, AloneTold
  <1>9. CASE RecountRefused(r)
    BY <1>9, AbortTold DEF RecountRefused
  <1>10. CASE Transition(r)
    <2>1. \A f \in Files : stored'[r][f] # 0 => Told(r, f)'
      BY <1>0, <1>10, TransitionDoes DEF Told
    <2>2. QED BY <1>10, <2>1, TransitionDoes, AloneTold
  <1>11. CASE TransitionRefused(r)
    BY <1>11, AbortTold DEF TransitionRefused
  <1>12. CASE Meter(r)
    <2>1. \A f \in Files : stored'[r][f] # 0 => Told(r, f)'
      BY <1>0, <1>12, MeterDoes DEF Told
    <2>2. QED BY <1>12, <2>1, MeterDoes, AloneTold
  <1>13. CASE Publish(r)
    <2>1. \A f \in Files : stored'[r][f] # 0 => Told(r, f)'
      BY <1>0, <1>13, PublishDoes DEF Told
    <2>2. QED BY <1>13, <2>1, PublishDoes, AloneTold
  <1>14. QED
    BY <1>1, <1>4, <1>5, <1>6, <1>7, <1>8, <1>9, <1>10, <1>11, <1>12, <1>13
    DEF CompleteStep

LEMMA SaveTold ==
  ASSUME UploadTypeOK, AnnouncedHold, NEW r \in Requests, SaveStep(r)
  PROVE  AnnouncedHold'
  <1> DEFINE q == request[r]
  <1>0. q \in RequestRecord /\ \A f \in Files : stored[r][f] # 0 => Told(r, f)
    BY Held DEF AnnouncedHold
  <1>1. ASSUME q.pc \in {"select", "update"}, request'[r] = SaveDone(q), Alone(r),
               stored' = stored, announced' = announced
        PROVE  AnnouncedHold'
    <2>1. request'[r].pc = q.next /\ request'[r].seen = q.seen
      BY <1>0, <1>1, SaveDoneDoes
    <2>2. \A f \in Files : stored'[r][f] # 0 => Told(r, f)'
      BY <1>0, <1>1, <2>1 DEF Told
    <2>3. QED BY <1>1, <2>2, AloneTold
  <1>2. CASE SaveSelect(r)
    <2>1. CASE request'[r] = SaveDone(q)
      BY <1>1, <1>2, <2>1, SelectDoes
    <2>2. CASE request'[r] # SaveDone(q)
      <3>1. /\ stored' = stored /\ announced' = announced /\ Alone(r) /\ q.pc = "select"
            /\ request'[r].pc = "update" /\ request'[r].seen = q.seen
            /\ request'[r].next = q.next
        BY <1>2, <2>2, SelectDoes
      <3>2. \A f \in Files : stored'[r][f] # 0 => Told(r, f)'
        BY <1>0, <3>1 DEF Told
      <3>3. QED BY <3>1, <3>2, AloneTold
    <2>3. QED BY <2>1, <2>2
  <1>3. ASSUME NEW saved, q.pc = "update", Saved(r, saved) PROVE AnnouncedHold'
    BY <1>1, <1>3, SavedDoes
  <1>4. CASE SaveRefused(r)
    BY <1>4, AbortTold DEF SaveRefused
  <1>5. QED BY <1>2, <1>3, <1>4 DEF SaveStep, SaveUpdate, SaveInsert

LEMMA CommitTold ==
  ASSUME UploadTypeOK, AnnouncedHold, NEW r \in Requests, Commit(r)
  PROVE  AnnouncedHold'
  <1>1. /\ \A p \in Requests \ {r} : request'[p] = request[p] /\ stored'[p] = stored[p]
        /\ stored'[r] = NoImages /\ request[r].pc = "commit" /\ announced' = announced
        /\ \A f \in Files : image'[f] = ImageSeen(r, f)
    BY CommitDoes
  <1>2. ASSUME NEW f \in Files, image'[f] # 0 PROVE f \in announced'
    <2>1. stored[r][f] # 0 => Told(r, f)
      BY DEF AnnouncedHold
    <2>2. QED BY <1>1, <1>2, <2>1 DEF Told, ImageSeen, AnnouncedHold, IngestedIsAnnounced
  <1>3. ASSUME NEW p \in Requests, NEW f \in Files, stored'[p][f] # 0
        PROVE  Told(p, f)'
    <2>1. p # r
      BY <1>1, <1>3 DEF NoImages
    <2>2. Told(p, f) /\ request'[p] = request[p]
      BY <1>1, <1>3, <2>1 DEF AnnouncedHold
    <2>3. QED BY <1>1, <2>2 DEF Told
  <1>4. QED BY <1>2, <1>3 DEF AnnouncedHold, IngestedIsAnnounced

LEMMA AnnouncedInvariant == Spec => []AnnouncedHold
  <1>1. Init => AnnouncedHold
    BY DEF Init, AnnouncedHold, IngestedIsAnnounced, NoImages
  <1>2. UploadInv /\ ParentsHold /\ AnnouncedHold /\ [Next]_vars => AnnouncedHold'
    <2> SUFFICES ASSUME UploadInv, ParentsHold, AnnouncedHold, [Next]_vars
                 PROVE  AnnouncedHold'
      OBVIOUS
    <2>0. UploadTypeOK
      BY DEF UploadInv
    <2>1. CASE UNCHANGED vars
      BY <2>1 DEF vars, AnnouncedHold, IngestedIsAnnounced, Told
    <2>2. ASSUME NEW r \in Requests, EndStep(r) PROVE AnnouncedHold'
      BY <2>0, <2>2, CommitTold, AbortTold DEF EndStep, Fail, DeadlockVictim
    <2>3. CASE BucketStep \/ WorkerStep
      BY <2>3 DEF BucketStep, Initiate, Put, OnlyBucket, WorkerStep, WorkerWrites, OnlyRows,
                  AnnouncedHold, IngestedIsAnnounced, Told
    <2>4. CASE Next
      BY <2>0, <2>2, <2>3, <2>4, OpenTold, CompleteTold, SaveTold DEF Next
    <2>5. QED BY <2>1, <2>4
  <1>3. QED BY <1>1, <1>2, UploadInvariant, ParentsInvariant, PTL DEF Spec

\* The event of a completion is published before its commit, from totals counted
\* in its transaction: no image becomes visible that no event has counted.
THEOREM UploadAnnounced == Spec => []IngestedIsAnnounced
  <1>1. AnnouncedHold => IngestedIsAnnounced
    BY DEF AnnouncedHold
  <1>2. QED BY <1>1, AnnouncedInvariant, PTL

-----------------------------------------------------------------------------
(* File counts.                                                            *)

Lasting(m) == Exists(m) /\ m \notin resurrected

\* The count a request has written or will write for a mission is one of images
\* that will be there when it commits.
CountOf(r, m) ==
  /\ own[r][m].count <= Cardinality(ImagesSeen(r, m))
  /\ request[r].target = m => request[r].entity.count <= Cardinality(ImagesSeen(r, m))

\* The inductive form of CountsAreImages: a mission that is gone can only come
\* back resurrected, so that what a request knows of it counts no more.
CountsHold ==
  /\ \A e \in Entities : ~Exists(e) => row[e] = Gone
  /\ \A r \in Requests : request[r].pc = "store" => request[r].size # 0
  /\ \A m \in Missions : Lasting(m) =>
       /\ row[m].count <= Cardinality({f \in FilesOf(m) : image[f] # 0})
       /\ \A r \in Requests : CountOf(r, m)

\* More images count for more.
LEMMA Counted ==
  ASSUME NEW S \in SUBSET Files, NEW T \in SUBSET S
  PROVE  /\ Cardinality(S) \in Nat /\ Cardinality(T) \in Nat
         /\ Cardinality(T) <= Cardinality(S)
  <1>1. IsFiniteSet(S)
    BY UploadAssumption, FS_Subset
  <1>2. QED BY <1>1, FS_Subset, FS_CardinalityType

\* Counts of what is seen are numbers, and bound the count of the row seen.
LEMMA CountSeen ==
  ASSUME UploadTypeOK, CountsHold, NEW r \in Requests, NEW m \in Missions, Lasting(m)
  PROVE  /\ Cardinality(ImagesSeen(r, m)) \in Nat
         /\ row[m].count <= Cardinality(ImagesSeen(r, m))
         /\ RowSeen(r, m).count <= Cardinality(ImagesSeen(r, m))
         /\ CountOf(r, m)
  <1> DEFINE committed == {f \in FilesOf(m) : image[f] # 0}
  <1>1. committed \subseteq ImagesSeen(r, m) /\ ImagesSeen(r, m) \subseteq Files
    BY DEF ImagesSeen, ImageSeen, FilesOf
  <1>2. row[m].count <= Cardinality(committed) /\ CountOf(r, m) /\ row[m].count \in Nat
    BY DEF CountsHold, UploadTypeOK, Row, Entities
  <1> HIDE DEF committed
  <1>3. Cardinality(ImagesSeen(r, m)) \in Nat /\ Cardinality(committed) \in Nat
        /\ Cardinality(committed) <= Cardinality(ImagesSeen(r, m))
    BY <1>1, Counted
  <1>4. row[m].count <= Cardinality(ImagesSeen(r, m))
    BY <1>2, <1>3
  <1>5. QED BY <1>2, <1>3, <1>4 DEF RowSeen, CountOf

LEMMA AloneCounts ==
  ASSUME CountsHold, NEW r \in Requests, Alone(r),
         request'[r].pc = "store" => request'[r].size # 0,
         \A m \in Missions : Lasting(m) => CountOf(r, m)'
  PROVE  CountsHold'
  <1>1. \A m \in Missions : Lasting(m)' <=> Lasting(m)
    BY DEF Alone, Lasting, Exists
  <1>2. \A m \in Missions : Lasting(m) =>
          (row[m].count <= Cardinality({f \in FilesOf(m) : image[f] # 0}))'
    BY DEF Alone, CountsHold, FilesOf
  <1>3. ASSUME NEW p \in Requests \ {r}, NEW m \in Missions, Lasting(m)
        PROVE  CountOf(p, m)'
    <2>1. CountOf(p, m) /\ request'[p] = request[p] /\ own'[p] = own[p]
          /\ stored'[p] = stored[p] /\ image' = image
      BY <1>3 DEF CountsHold, Alone
    <2>2. ImagesSeen(p, m)' = ImagesSeen(p, m)
      BY <2>1 DEF ImagesSeen, ImageSeen, FilesOf
    <2>3. QED BY <2>1, <2>2 DEF CountOf
  <1>4. \A e \in Entities : ~Exists(e)' => row'[e] = Gone
    BY DEF Alone, CountsHold, Exists
  <1>5. \A p \in Requests : request'[p].pc = "store" => request'[p].size # 0
    BY DEF Alone, CountsHold
  <1>6. QED BY <1>1, <1>2, <1>3, <1>4, <1>5 DEF CountsHold

\* A request that goes on with the rows and images it has seen or written.
LEMMA SameCounts ==
  ASSUME UploadTypeOK, CountsHold, NEW r \in Requests, Alone(r), own' = own,
         stored' = stored, request'[r].pc # "store",
         \A m \in Missions : Lasting(m) /\ request'[r].target = m =>
           request'[r].entity.count <= Cardinality(ImagesSeen(r, m))
  PROVE  CountsHold'
  <1>1. ASSUME NEW m \in Missions, Lasting(m) PROVE CountOf(r, m)'
    <2>1. ImagesSeen(r, m)' = ImagesSeen(r, m)
      BY DEF Alone, ImagesSeen, ImageSeen, FilesOf
    <2>2. CountOf(r, m)
      BY <1>1, CountSeen
    <2>3. QED BY <1>1, <2>1, <2>2 DEF CountOf
  <1>2. QED BY <1>1, AloneCounts

LEMMA IdleCounts ==
  ASSUME NEW r \in Requests, NEW m \in Missions, request'[r] = Idle, own'[r] = NoRows
  PROVE  CountOf(r, m)'
  <1>1. ImagesSeen(r, m)' \in SUBSET Files
    BY DEF ImagesSeen, FilesOf
  <1>2. Cardinality(ImagesSeen(r, m)') \in Nat
    BY <1>1, Counted
  <1>3. m # Project /\ Idle.target = Project /\ NoRows[m].count = 0
    BY UploadAssumption DEF Idle, NoRows, Nothing, Entities
  <1>4. QED BY <1>2, <1>3 DEF CountOf

LEMMA AbortCounts ==
  ASSUME UploadTypeOK, CountsHold, NEW r \in Requests, Abort(r) PROVE CountsHold'
  <1>1. Idle.pc # "store"
    BY DEF Idle
  <1>2. QED BY <1>1, AbortDoes, IdleCounts, AloneCounts

LEMMA BeginCounts ==
  ASSUME UploadTypeOK, CountsHold, NEW r \in Requests, NEW q, Begin(r, q),
         q.pc # "store",
         q.target \in Missions => q.entity = row[q.target]
  PROVE  CountsHold'
  <1>1. /\ \A p \in Requests \ {r} : request'[p] = request[p]
        /\ request'[r] = q /\ UNCHANGED <<own, stored, row, image, resurrected>>
    BY BeginDoes
  <1>2. ASSUME NEW p \in Requests, NEW m \in Missions, Lasting(m) PROVE CountOf(p, m)'
    <2>1. ImagesSeen(p, m)' = ImagesSeen(p, m)
      BY <1>1 DEF ImagesSeen, ImageSeen, FilesOf
    <2>2. CountOf(p, m) /\ row[m].count <= Cardinality(ImagesSeen(p, m))
      BY <1>2, CountSeen
    <2>3. QED BY <1>1, <2>1, <2>2 DEF CountOf
  <1>3. QED BY <1>1, <1>2 DEF CountsHold, Lasting, Exists, FilesOf

LEMMA OpenCounts ==
  ASSUME UploadTypeOK, ParentsHold, CountsHold, NEW r \in Requests, OpenStep(r)
  PROVE  CountsHold'
  <1>1. ASSUME NEW m \in Missions, NEW files, Complete(r, m, files) PROVE CountsHold'
    BY <1>1, BeginCounts DEF Complete, Idle
  <1>2. ASSUME NEW m \in Missions, EditMission(r, m) PROVE CountsHold'
    BY <1>2, BeginCounts DEF EditMission, Idle
  <1>3. Project \notin Missions
    BY UploadAssumption
  <1>4. CASE EditProject(r)
    BY <1>3, <1>4, BeginCounts DEF EditProject, Idle
  <1>5. CASE Archive(r)
    BY <1>3, <1>5, BeginCounts DEF Archive, Idle
  <1>6. ASSUME NEW m \in Missions, RemoveMission(r, m) PROVE CountsHold'
    <2>1. /\ UNCHANGED <<request, own, stored, resurrected>>
          /\ \A e \in Entities \ {m} : row'[e] = row[e]
          /\ row'[m] = Gone
          /\ \A f \in Files : MissionOf[f] # m => image'[f] = image[f]
      BY <1>6 DEF RemoveMission, OnlyRows, UploadTypeOK, Entities
    <2>2. ASSUME NEW n \in Missions, Lasting(n)'
          PROVE  /\ (row[n].count <= Cardinality({f \in FilesOf(n) : image[f] # 0}))'
                 /\ \A p \in Requests : CountOf(p, n)'
      <3>1. n # m /\ row'[n] = row[n] /\ Lasting(n)
        BY <2>1, <2>2 DEF Lasting, Exists, Gone, Entities
      <3>2. {f \in FilesOf(n) : image[f] # 0}' = {f \in FilesOf(n) : image[f] # 0}
        BY <2>1, <3>1 DEF FilesOf
      <3>3. ASSUME NEW p \in Requests PROVE CountOf(p, n)'
        <4>1. ImagesSeen(p, n)' = ImagesSeen(p, n)
          BY <2>1, <3>1 DEF ImagesSeen, ImageSeen, FilesOf
        <4>2. QED BY <2>1, <3>1, <4>1 DEF CountsHold, CountOf
      <3>4. QED BY <3>1, <3>2, <3>3 DEF CountsHold
    <2>3. \A e \in Entities : ~Exists(e)' => row'[e] = Gone
      BY <2>1 DEF CountsHold, Exists
    <2>4. QED BY <2>1, <2>2, <2>3 DEF CountsHold
  <1>7. CASE RemoveProject(r)
    <2>1. request' = request /\ \A e \in Entities : row'[e] = Gone
      BY <1>7 DEF RemoveProject
    <2>2. \A m \in Missions : ~Lasting(m)'
      BY <2>1 DEF Lasting, Exists, Gone, Entities
    <2>3. QED BY <2>1, <2>2 DEF CountsHold
  <1>8. QED BY <1>1, <1>2, <1>4, <1>5, <1>6, <1>7 DEF OpenStep

LEMMA CompleteCounts ==
  ASSUME UploadTypeOK, ParentsHold, CountsHold, NEW r \in Requests, CompleteStep(r)
  PROVE  CountsHold'
  <1> DEFINE q == request[r]
  <1>0. /\ ParentsOf(r) /\ q \in RequestRecord /\ stored[r] \in [Files -> 0 .. MaxSize]
        /\ Project \notin Missions
    BY Held, UploadAssumption DEF ParentsHold
  <1>1. ASSUME NEW f \in Files, Look(r, f) PROVE CountsHold'
    <2>1. ASSUME NEW m \in Missions, Lasting(m) PROVE CountOf(r, m)'
      <3>1. /\ request'[r].target = q.target /\ request'[r].entity = q.entity
            /\ own' = own /\ stored' = stored /\ image' = image
        BY <1>1, LookDoes DEF Alone
      <3>2. ImagesSeen(r, m)' = ImagesSeen(r, m)
        BY <3>1 DEF ImagesSeen, ImageSeen, FilesOf
      <3>3. CountOf(r, m)
        BY <2>1, CountSeen
      <3>4. QED BY <3>1, <3>2, <3>3 DEF CountOf
    <2>2. QED BY <1>1, <2>1, LookDoes, AloneCounts
  <1>2. ASSUME NEW added \in Nat, NEW inserted \in Nat, q.pc = "store",
               Stored(r, added, inserted)
        PROVE  CountsHold'
    <2>1. /\ q.file \in Files /\ q.size # 0 /\ Alone(r) /\ own' = own
          /\ stored'[r] = [stored[r] EXCEPT ![q.file] = q.size]
          /\ request'[r].pc = "ingest" /\ request'[r].target = q.target
          /\ request'[r].entity = q.entity
      BY <1>0, <1>2, StoredDoes DEF ParentsOf, CountsHold
    <2>2. ASSUME NEW m \in Missions, Lasting(m) PROVE CountOf(r, m)'
      <3>1. ImagesSeen(r, m) \subseteq ImagesSeen(r, m)' /\ ImagesSeen(r, m)' \subseteq Files
        BY <1>0, <2>1 DEF Alone, ImagesSeen, ImageSeen, FilesOf
      <3>2. /\ Cardinality(ImagesSeen(r, m)) <= Cardinality(ImagesSeen(r, m)')
            /\ Cardinality(ImagesSeen(r, m)) \in Nat
            /\ Cardinality(ImagesSeen(r, m)') \in Nat
        BY <3>1, Counted
      <3>3. CountOf(r, m) /\ own[r][m].count \in Nat /\ q.entity.count \in Nat
        BY <1>0, <2>2, CountSeen, Held DEF Row, RequestRecord, Entities
      <3>4. QED BY <2>1, <3>2, <3>3 DEF CountOf
    <2>3. QED BY <2>1, <2>2, AloneCounts
  <1>3. q.size \in Nat
    BY <1>0, UploadAssumption DEF RequestRecord
  <1>4. CASE StoreKnown(r)
    BY <1>2, <1>4 DEF StoreKnown
  <1>5. CASE StoreNew(r)
    <2> DEFINE added == IF q.found # 0 THEN 0 ELSE q.size
    <2>1. added \in Nat /\ Stored(r, added, q.size) /\ q.pc = "store"
      BY <1>3, <1>5 DEF StoreNew
    <2>2. QED BY <1>2, <1>3, <2>1
  <1>6. \A m \in Missions : Lasting(m) /\ q.target = m =>
          q.entity.count <= Cardinality(ImagesSeen(r, m))
    BY CountSeen DEF CountOf
  <1>7. CASE StoreNothing(r)
    BY <1>6, <1>7, StoreNothingDoes, SameCounts
  <1>8. CASE StoreRefused(r)
    BY <1>8, AbortCounts DEF StoreRefused
  <1>9. CASE Recount(r)
    <2>1. /\ Alone(r) /\ own' = own /\ stored' = stored /\ request'[r].pc = "select"
          /\ request'[r].target = q.target
          /\ request'[r].entity.count = Cardinality(ImagesSeen(r, q.target))
      BY <1>9, RecountDoes
    <2>2. \A m \in Missions : Lasting(m) => Cardinality(ImagesSeen(r, m)) \in Nat
      BY CountSeen
    <2>3. QED BY <2>1, <2>2, SameCounts
  <1>10. CASE RecountRefused(r)
    BY <1>10, AbortCounts DEF RecountRefused
  <1>11. CASE Transition(r)
    <2>1. /\ Alone(r) /\ own' = own /\ stored' = stored /\ request'[r].pc = "select"
          /\ request'[r].target = q.target /\ q.pc = "transition"
      BY <1>11, TransitionDoes
    <2>2. q.target = Project
      BY <1>0, <2>1 DEF ParentsOf
    <2>3. QED BY <1>0, <2>1, <2>2, SameCounts
  <1>12. CASE TransitionRefused(r)
    BY <1>12, AbortCounts DEF TransitionRefused
  <1>13. CASE Meter(r)
    <2>1. /\ Alone(r) /\ own' = own /\ stored' = stored /\ q.pc = "meter"
          /\ request'[r].pc \in {"select", "publish"} /\ request'[r].target = q.target
      BY <1>13, MeterDoes
    <2>2. q.target = Project
      BY <1>0, <2>1 DEF ParentsOf
    <2>3. QED BY <1>0, <2>1, <2>2, SameCounts
  <1>14. CASE Publish(r)
    <2>1. /\ Alone(r) /\ own' = own /\ stored' = stored /\ request'[r].pc = "commit"
          /\ request'[r].target = q.target /\ request'[r].entity = q.entity
      BY <1>14, PublishDoes
    <2>2. QED BY <1>6, <2>1, SameCounts
  <1>15. QED
    BY <1>1, <1>4, <1>5, <1>7, <1>8, <1>9, <1>10, <1>11, <1>12, <1>13, <1>14
    DEF CompleteStep
LEMMA SavedCounts ==
  ASSUME UploadInv, CountsHold, NEW r \in Requests, NEW saved, Saved(r, saved),
         request[r].next # "store",
         \A m \in Missions : Lasting(m) /\ request[r].target = m =>
           saved.count <= Cardinality(ImagesSeen(r, m))
  PROVE  CountsHold'
  <1> DEFINE q == request[r]
  <1>0. /\ UploadTypeOK /\ q \in RequestRecord /\ own[r] \in [Entities -> Row]
        /\ Project \notin Missions
    BY Held, UploadAssumption DEF UploadInv
  <1>1. /\ Alone(r) /\ stored' = stored
        /\ own'[r] = [own[r] EXCEPT ![q.target] = saved]
        /\ request'[r].pc # "store" /\ request'[r].target = Project
    BY <1>0, SavedDoes, SaveDoneDoes
  <1>2. ASSUME NEW m \in Missions, Lasting(m) PROVE CountOf(r, m)'
    <2>1. CountOf(r, m) /\ ImagesSeen(r, m)' = ImagesSeen(r, m)
      BY <1>0, <1>1, <1>2, CountSeen DEF Alone, ImagesSeen, ImageSeen, FilesOf
    <2>2. own'[r][m] = IF q.target = m THEN saved ELSE own[r][m]
      BY <1>0, <1>1 DEF Entities
    <2>3. QED BY <1>0, <1>1, <1>2, <2>1, <2>2 DEF CountOf
  <1>3. QED BY <1>1, <1>2, AloneCounts

LEMMA SaveCounts ==
  ASSUME UploadInv, ParentsHold, CountsHold, NEW r \in Requests, SaveStep(r)
  PROVE  CountsHold'
  <1> DEFINE q == request[r]
             e == q.entity
             seen == RowSeen(r, q.target)
  <1>0. /\ UploadTypeOK /\ ParentsOf(r) /\ q \in RequestRecord
        /\ q.next # "store" /\ Project \notin Missions
    BY Held, MeterSeen, UploadAssumption DEF ParentsHold, UploadInv
  <1>1. \A m \in Missions : Lasting(m) /\ q.target = m =>
          /\ e.count <= Cardinality(ImagesSeen(r, m))
          /\ seen.count <= Cardinality(ImagesSeen(r, m))
    BY <1>0, CountSeen DEF CountOf
  <1>2. CASE SaveSelect(r)
    <2>1. /\ Alone(r) /\ own' = own /\ stored' = stored /\ request'[r].pc # "store"
          /\ \/ request'[r].target = Project
             \/ request'[r].target = q.target /\ request'[r].entity = e
      <3>1. SaveDone(q).target = Project /\ SaveDone(q).pc = q.next
        BY <1>0, SaveDoneDoes
      <3> HIDE DEF q
      <3>2. QED BY <1>0, <1>2, <3>1, SelectDoes DEF q
    <2>2. QED BY <1>0, <1>1, <2>1, SameCounts
  <1>3. CASE SaveUpdate(r)
    <2> DEFINE Value(c) == IF c \in q.dirty THEN e[c] ELSE seen[c]
               saved == IF seen.status = "GONE" THEN own[r][q.target]
                        ELSE [status |-> Value("status"), count |-> Value("count"),
                              bytes |-> Value("bytes")]
    <2>1. \A m \in Missions : Lasting(m) /\ q.target = m =>
            saved.count <= Cardinality(ImagesSeen(r, m))
      BY <1>0, <1>1, CountSeen DEF CountOf
    <2>2. Saved(r, saved)
      BY <1>3 DEF SaveUpdate
    <2> HIDE DEF saved
    <2>3. QED BY <1>0, <2>1, <2>2, SavedCounts
  <1>4. CASE SaveInsert(r)
    BY <1>0, <1>1, <1>4, SavedCounts DEF SaveInsert
  <1>5. CASE SaveRefused(r)
    BY <1>0, <1>5, AbortCounts DEF SaveRefused
  <1>6. QED BY <1>2, <1>3, <1>4, <1>5 DEF SaveStep

\* A mission that lasts through a commit was there before it, and has the images
\* its request has seen.
LEMMA CommitCounts ==
  ASSUME UploadTypeOK, ParentsHold, CountsHold, NEW r \in Requests, Commit(r)
  PROVE  CountsHold'
  <1>1. /\ \A p \in Requests \ {r} : /\ request'[p] = request[p]
                                     /\ own'[p] = own[p] /\ stored'[p] = stored[p]
        /\ request'[r] = Idle /\ own'[r] = NoRows /\ stored'[r] = NoImages
        /\ \A e \in Entities : row'[e] = RowSeen(r, e)
        /\ \A f \in Files : image'[f] = ImageSeen(r, f)
        /\ resurrected' = resurrected \cup
             {e \in Entities : own[r][e] # Nothing /\ ~Exists(e)}
    BY CommitDoes
  <1>2. ParentsOf(r)
    BY DEF ParentsHold
  <1>3. \A e \in Entities : ~Exists(e)' => row'[e] = Gone
    BY <1>1, <1>2 DEF Exists, RowSeen, ParentsOf, CountsHold
  <1>4. \A p \in Requests : request'[p].pc = "store" => request'[p].size # 0
    BY <1>1 DEF CountsHold, Idle
  <1>5. ASSUME NEW m \in Missions, Lasting(m)'
        PROVE  /\ (row[m].count <= Cardinality({f \in FilesOf(m) : image[f] # 0}))'
               /\ \A p \in Requests : CountOf(p, m)'
    <2>1. Lasting(m)
      BY <1>1, <1>5 DEF Lasting, Exists, RowSeen, Entities
    <2>2. {f \in FilesOf(m) : image[f] # 0}' = ImagesSeen(r, m)
      BY <1>1 DEF ImagesSeen, FilesOf
    <2>3. (row[m].count <= Cardinality({f \in FilesOf(m) : image[f] # 0}))'
      BY <1>1, <2>1, <2>2, CountSeen DEF Entities
    <2>4. ASSUME NEW p \in Requests \ {r} PROVE CountOf(p, m)'
      <3>1. CountOf(p, m) /\ own[p][m].count \in Nat /\ request[p].entity.count \in Nat
        BY <2>1, CountSeen, Held DEF Row, RequestRecord, Entities
      <3>2. ImagesSeen(p, m) \subseteq ImagesSeen(p, m)' /\ ImagesSeen(p, m)' \subseteq Files
        BY <1>1 DEF ImagesSeen, ImageSeen, FilesOf
      <3>3. /\ Cardinality(ImagesSeen(p, m)) <= Cardinality(ImagesSeen(p, m)')
            /\ Cardinality(ImagesSeen(p, m)) \in Nat
            /\ Cardinality(ImagesSeen(p, m)') \in Nat
        BY <3>2, Counted
      <3>4. QED BY <1>1, <3>1, <3>3 DEF CountOf
    <2>5. CountOf(r, m)'
      BY <1>1, IdleCounts
    <2>6. QED BY <2>3, <2>4, <2>5
  <1>6. QED BY <1>3, <1>4, <1>5 DEF CountsHold

LEMMA OutsideCounts ==
  ASSUME UploadTypeOK, CountsHold, BucketStep \/ WorkerStep
  PROVE  CountsHold'
  <1>1. UNCHANGED <<request, own, stored, image, resurrected>>
    BY DEF BucketStep, Initiate, Put, OnlyBucket, WorkerStep, WorkerWrites, OnlyRows
  <1>2. \A e \in Entities : /\ Exists(e)' <=> Exists(e)
                            /\ row'[e].count = row[e].count
                            /\ ~Exists(e) => row'[e] = row[e]
    <2>1. CASE BucketStep
      BY <2>1 DEF BucketStep, Initiate, Put, OnlyBucket, Exists
    <2>2. ASSUME NEW m \in Missions, NEW s \in Verdicts, WorkerWrites(m, s)
          PROVE  \A e \in Entities : /\ Exists(e)' <=> Exists(e)
                                     /\ row'[e].count = row[e].count
                                     /\ ~Exists(e) => row'[e] = row[e]
      <3>1. /\ \A e \in Entities : row[e] \in Row
            /\ row' = [row EXCEPT ![m].status = s] /\ Exists(m) /\ s # "GONE"
        BY <2>2, UploadAssumption DEF WorkerWrites, UploadTypeOK
      <3>2. QED BY <3>1 DEF Exists, Row, UploadTypeOK
    <2>3. QED BY <2>1, <2>2 DEF WorkerStep
  <1>3. \A m \in Missions : /\ Lasting(m)' <=> Lasting(m)
                            /\ row'[m].count = row[m].count
                            /\ \A r \in Requests : ImagesSeen(r, m)' = ImagesSeen(r, m)
    BY <1>1, <1>2 DEF Lasting, ImagesSeen, ImageSeen, FilesOf, Entities
  <1>4. QED BY <1>1, <1>2, <1>3 DEF CountsHold, CountOf, FilesOf

LEMMA CountsInvariant == Spec => []CountsHold
  <1>1. Init => CountsHold
    <2> SUFFICES ASSUME Init PROVE CountsHold
      OBVIOUS
    <2>1. ASSUME NEW m \in Missions
          PROVE  /\ row[m].count <= Cardinality({f \in FilesOf(m) : image[f] # 0})
                 /\ \A r \in Requests : CountOf(r, m)
      <3>1. ASSUME NEW S \in SUBSET Files PROVE Cardinality(S) \in Nat
        BY Counted
      <3>2. {f \in FilesOf(m) : image[f] # 0} \in SUBSET Files
        BY DEF FilesOf
      <3>3. \A r \in Requests : ImagesSeen(r, m) \in SUBSET Files
        BY DEF ImagesSeen, FilesOf
      <3>4. row[m].count = 0 /\ \A r \in Requests : own[r][m].count = 0
            /\ request[r].target # m
        BY UploadAssumption DEF Init, Idle, NoRows, Nothing, Entities
      <3>5. QED BY <3>1, <3>2, <3>3, <3>4 DEF CountOf
    <2>2. QED BY <2>1 DEF Init, CountsHold, Exists, Idle
  <1>2. UploadInv /\ ParentsHold /\ CountsHold /\ [Next]_vars => CountsHold'
    <2> SUFFICES ASSUME UploadInv, ParentsHold, CountsHold, [Next]_vars
                 PROVE  CountsHold'
      OBVIOUS
    <2>0. UploadTypeOK
      BY DEF UploadInv
    <2>1. CASE UNCHANGED vars
      BY <2>1 DEF vars, CountsHold, CountOf, Lasting, Exists, ImagesSeen, ImageSeen,
                  FilesOf
    <2>2. ASSUME NEW r \in Requests, EndStep(r) PROVE CountsHold'
      BY <2>0, <2>2, CommitCounts, AbortCounts DEF EndStep, Fail, DeadlockVictim
    <2>3. CASE Next
      BY <2>0, <2>2, <2>3, OpenCounts, CompleteCounts, SaveCounts, OutsideCounts
      DEF Next
    <2>4. QED BY <2>1, <2>3
  <1>3. QED BY <1>1, <1>2, UploadInvariant, ParentsInvariant, PTL DEF Spec

\* Completions recount from the rows, and lose each other's totals; yet a count
\* never exceeds the images, unless a stale save brought the mission back.
THEOREM UploadCounts == Spec => []CountsAreImages
  <1>1. ASSUME UploadTypeOK, CountsHold PROVE CountsAreImages
    <2>1. ASSUME NEW m \in Missions \ resurrected
          PROVE  row[m].count <= Cardinality({f \in FilesOf(m) : image[f] # 0})
      <3>1. {f \in FilesOf(m) : image[f] # 0} \in SUBSET Files
        BY DEF FilesOf
      <3>2. Cardinality({f \in FilesOf(m) : image[f] # 0}) \in Nat
        BY <3>1, Counted
      <3>3. CASE Exists(m)
        BY <1>1, <3>3 DEF CountsHold, Lasting
      <3>4. CASE ~Exists(m)
        <4>1. row[m].count = 0
          BY <1>1, <3>4 DEF CountsHold, Gone, Entities
        <4>2. QED BY <3>2, <4>1
      <3>5. QED BY <3>3, <3>4
    <2>2. QED BY <2>1 DEF CountsAreImages
  <1>2. QED BY <1>1, CountsInvariant, UploadTyping, PTL

-----------------------------------------------------------------------------
(* Exact totals without overlap.                                           *)

\* A row whose totals are those of the images a request sees.
ExactRow(r, m, v) ==
  /\ v.count = Cardinality(ImagesSeen(r, m))
  /\ v.bytes = TotalSize([f \in Files |-> ImageSeen(r, f)], ImagesSeen(r, m))

\* What is true of a request whether or not it is alone: it starts with nothing
\* written, and never mistakes a row for one it has not written.
WrittenOf(r) ==
  LET q == request[r] IN
  /\ q.pc = "idle" => own[r] = NoRows /\ stored[r] = NoImages
  /\ q.pc \in {"select", "update"} =>
       q.next \in {"transition", "meter", "publish", "commit"}
  /\ q.pc \in {"ingest", "store", "select", "update"} => q.entity.status # "NONE"
  /\ \A e \in Entities : own[r][e] # Nothing => own[r][e].status # "NONE"

\* What a request that is alone has seen and written: the totals of every mission
\* but the one it works on are exact, those it is about to write too, and the
\* project's meter is the bytes ever inserted, with its own once it has metered.
SerialAs(r, q) ==
  LET saving == q.pc \in {"select", "update"} IN
  /\ Exists(Project)
  /\ \A m \in Missions : own[r][m] # Nothing => Exists(m)
  /\ q.added = q.booked
  /\ q.pc = "store" => q.found = image[q.file]
  /\ q.pc \in {"ingest", "store"} \/ saving => Exists(q.target)
  /\ "row" \notin q.dirty
  /\ q.pc = "update" =>
       /\ "count" \notin q.dirty => q.entity.count = RowSeen(r, q.target).count
       /\ "bytes" \notin q.dirty => q.entity.bytes = RowSeen(r, q.target).bytes
  /\ saving =>
       /\ q.target \in Missions => ExactRow(r, q.target, q.entity)
       /\ q.target = Project => q.entity.bytes = BoundOf(q, metered)
       /\ q.next = "publish" => q.target = Project
       /\ q.next = "commit" => q.booked = 0
  /\ \A m \in Missions :
       Exists(m) /\ ~((q.pc \in {"ingest", "store"} \/ saving) /\ q.target = m) =>
         ExactRow(r, m, RowSeen(r, m))
  /\ RowSeen(r, Project).bytes =
       IF q.pc \in {"publish", "commit"} THEN metered + q.booked ELSE metered

SerialOf(r) ==
  /\ \A p \in Requests \ {r} : request[p].pc = "idle"
  /\ SerialAs(r, request[r])

\* The inductive form of SerialTotalsExact.
SerialHold ==
  /\ \A e \in Entities : row[e].status # "NONE"
  /\ \A r \in Requests : WrittenOf(r)
  /\ SerialTotalsExact
  /\ ~overlapped => \A r \in Requests : request[r].pc # "idle" => SerialOf(r)

\* A total depends on the sizes of the images counted and on nothing else.
LEMMA SameSizes ==
  ASSUME NEW a, NEW b, NEW files, \A f \in files : a[f] = b[f]
  PROVE  TotalSize(a, files) = TotalSize(b, files)
  <1>1. [f \in files |-> a[f]] = [f \in files |-> b[f]]
    OBVIOUS
  <1>2. QED BY <1>1 DEF TotalSize

LEMMA SameExact ==
  ASSUME NEW r \in Requests, NEW m \in Missions, NEW v, NEW w,
         v.count = w.count, v.bytes = w.bytes, ExactRow(r, m, v),
         \A f \in FilesOf(m) : ImageSeen(r, f)' = ImageSeen(r, f)
  PROVE  ExactRow(r, m, w)'
  <1> DEFINE sizes == [f \in Files |-> ImageSeen(r, f)]
  <1>1. ImagesSeen(r, m)' = ImagesSeen(r, m) /\ ImagesSeen(r, m) \subseteq Files
    BY DEF ImagesSeen, FilesOf
  <1>2. \A f \in ImagesSeen(r, m) : sizes[f] = (sizes[f])'
    BY DEF ImagesSeen, FilesOf
  <1> HIDE DEF sizes
  <1>3. TotalSize(sizes, ImagesSeen(r, m)) = TotalSize(sizes', ImagesSeen(r, m))
    BY <1>2, SameSizes
  <1>4. QED BY <1>1, <1>3 DEF ExactRow, sizes

LEMMA AloneSerial ==
  ASSUME SerialHold, NEW r \in Requests, Alone(r), WrittenOf(r)',
         request[r].pc # "idle",
         ~overlapped /\ SerialOf(r) /\ request'[r].pc # "idle" => SerialOf(r)'
  PROVE  SerialHold'
  <1>1. SerialTotalsExact' /\ \A e \in Entities : row'[e].status # "NONE"
    BY DEF Alone, SerialHold, SerialTotalsExact, FilesOf, Exists
  <1>2. ASSUME NEW p \in Requests \ {r} PROVE WrittenOf(p)'
    BY DEF Alone, SerialHold, WrittenOf
  <1>3. ASSUME ~overlapped', NEW p \in Requests, request'[p].pc # "idle"
        PROVE  SerialOf(p)'
    <2>1. ~overlapped /\ SerialOf(r)
      BY <1>3 DEF Alone, SerialHold
    <2>2. p = r
      BY <1>3, <2>1 DEF Alone, SerialOf
    <2>3. QED BY <1>3, <2>1, <2>2
  <1>4. QED BY <1>1, <1>2, <1>3 DEF SerialHold

LEMMA AbortSerial ==
  ASSUME UploadTypeOK, SerialHold, NEW r \in Requests, request[r].pc # "idle", Abort(r)
  PROVE  SerialHold'
  <1>1. request'[r] = Idle /\ Idle.pc = "idle" /\ own'[r] = NoRows
        /\ stored'[r] = NoImages /\ Alone(r)
    BY AbortDoes DEF Idle
  <1>2. \A e \in Entities : own'[r][e] = Nothing
    BY <1>1 DEF NoRows
  <1>3. WrittenOf(r)'
    BY <1>1, <1>2 DEF WrittenOf
  <1>4. QED BY <1>1, <1>3, AloneSerial

\* A request that has written nothing sees the committed rows and images.
LEMMA SeenBlank ==
  ASSUME SerialHold, NEW r \in Requests, request[r].pc = "idle"
  PROVE  /\ \A e \in Entities : own[r][e] = Nothing /\ RowSeen(r, e) = row[e]
         /\ \A f \in Files : stored[r][f] = 0 /\ ImageSeen(r, f) = image[f]
  BY DEF SerialHold, WrittenOf, RowSeen, ImageSeen, NoRows, NoImages

LEMMA CommittedExact ==
  ASSUME SerialHold, ~overlapped, NEW r \in Requests, request[r].pc = "idle",
         NEW m \in Missions, Exists(m)
  PROVE  ExactRow(r, m, row[m])
  <1> DEFINE images == {f \in FilesOf(m) : image[f] # 0}
             sizes == [f \in Files |-> ImageSeen(r, f)]
  <1>1. ImagesSeen(r, m) = images
    BY SeenBlank DEF ImagesSeen, FilesOf
  <1>2. \A f \in images : image[f] = sizes[f]
    BY SeenBlank DEF FilesOf
  <1>3. row[m].count = Cardinality(images) /\ row[m].bytes = TotalSize(image, images)
    BY DEF SerialHold, SerialTotalsExact
  <1> HIDE DEF images, sizes
  <1>4. TotalSize(image, images) = TotalSize(sizes, images)
    BY <1>2, SameSizes
  <1>5. QED BY <1>1, <1>3, <1>4 DEF ExactRow, sizes

\* A request that opens alone finds everything exact.
LEMMA BeginSerial ==
  ASSUME UploadTypeOK, ParentsHold, SerialHold, NEW r \in Requests,
         NEW q \in RequestRecord, Begin(r, q),
         q.pc = "ingest" \/ (q.pc = "select" /\ q.next = "commit"),
         q.entity.status # "NONE", Exists(q.target),
         q.added = 0, q.booked = 0, "row" \notin q.dirty,
         q.target \in Missions => q.entity = row[q.target],
         q.target = Project => q.entity.bytes = row[Project].bytes
  PROVE  SerialHold'
  <1>1. /\ \A p \in Requests \ {r} : request'[p] = request[p]
        /\ request[r].pc = "idle" /\ request'[r] = q
        /\ UNCHANGED <<own, stored, row, image, metered>>
        /\ ~overlapped' => ~overlapped /\ \A p \in Requests \ {r} : request[p].pc = "idle"
    BY BeginDoes
  <1>2. /\ \A e \in Entities : own[r][e] = Nothing /\ RowSeen(r, e) = row[e]
        /\ \A f \in Files : ImageSeen(r, f) = image[f]
    BY <1>1, SeenBlank
  <1>3. ASSUME NEW p \in Requests PROVE WrittenOf(p)'
    BY <1>1, <1>2 DEF SerialHold, WrittenOf
  <1>4. SerialTotalsExact'
    BY <1>1 DEF SerialHold, SerialTotalsExact, Exists, FilesOf
  <1>5. ASSUME ~overlapped' PROVE SerialOf(r)'
    <2>1. ~overlapped /\ \A p \in Requests \ {r} : request'[p].pc = "idle"
      BY <1>1, <1>5
    <2>2. Exists(Project)
      BY DEF ParentsHold, RowsHaveParents, Entities, RequestRecord
    <2>3. ASSUME NEW m \in Missions, Exists(m) PROVE ExactRow(r, m, row[m])'
      <3>1. ExactRow(r, m, row[m])
        BY <1>1, <2>1, <2>3, CommittedExact
      <3>2. \A f \in FilesOf(m) : ImageSeen(r, f)' = ImageSeen(r, f)
        BY <1>1 DEF ImageSeen, FilesOf
      <3>3. QED BY <1>1, <3>1, <3>2, SameExact
    <2>4. \A e \in Entities : RowSeen(r, e)' = row[e] /\ own'[r][e] = Nothing
      BY <1>1, <1>2 DEF RowSeen
    <2>5. row[Project].bytes = metered /\ Project \in Entities /\ Missions \subseteq Entities
      BY <2>1, <2>2 DEF SerialHold, SerialTotalsExact, Entities
    <2>6. BoundOf(q, metered) = metered
      BY DEF BoundOf, UploadTypeOK
    <2>7. row' = row /\ metered' = metered /\ request'[r] = q
      BY <1>1
    <2>8. \A m \in Missions : own'[r][m] # Nothing => Exists(m)'
      BY <2>4, <2>5
    <2>9. RowSeen(r, Project)'.bytes = metered
      BY <2>4, <2>5
    <2>10. ASSUME NEW m \in Missions, Exists(m) PROVE ExactRow(r, m, RowSeen(r, m))'
      BY <2>3, <2>4, <2>5, <2>7, <2>10
    <2>11. q.target \in Missions => ExactRow(r, q.target, q.entity)'
      BY <2>3, <2>7
    <2>12. \A e \in Entities : Exists(e)' <=> Exists(e)
      BY <2>7 DEF Exists
    <2>13. q.pc # "update" /\ q.pc # "store" /\ q.pc \notin {"publish", "commit"}
           /\ (q.pc \in {"select", "update"} => q.next = "commit")
      OBVIOUS
    <2>14. /\ (q.pc \in {"ingest", "store", "select", "update"} => Exists(q.target)')
           /\ Exists(Project)'
      BY <2>2, <2>5, <2>12 DEF RequestRecord
    <2>15. q.target = Project => q.entity.bytes = BoundOf(q, metered)'
      BY <2>5, <2>6, <2>7
    <2>16. \A m \in Missions : Exists(m)' => ExactRow(r, m, RowSeen(r, m))'
      BY <2>5, <2>10, <2>12
    <2>17. QED
      BY <2>1, <2>7, <2>8, <2>9, <2>11, <2>13, <2>14, <2>15, <2>16 DEF SerialOf, SerialAs
  <1>6. ASSUME ~overlapped', NEW p \in Requests, request'[p].pc # "idle"
        PROVE  SerialOf(p)'
    <2>1. p = r
      BY <1>1, <1>6
    <2>2. QED BY <1>5, <1>6, <2>1
  <1>7. QED BY <1>1, <1>3, <1>4, <1>6 DEF SerialHold

LEMMA OpenSerial ==
  ASSUME UploadTypeOK, ParentsHold, SerialHold, NEW r \in Requests, OpenStep(r)
  PROVE  SerialHold'
  <1>0. /\ \A e \in Entities : row[e] \in Row /\ row[e].status # "NONE"
        /\ Project \in Entities /\ Missions \subseteq Entities /\ Project \notin Missions
    BY UploadAssumption DEF UploadTypeOK, SerialHold, Entities
  <1>1. ASSUME NEW m \in Missions, NEW files \in SUBSET FilesOf(m), Complete(r, m, files)
        PROVE  SerialHold'
    <2> DEFINE next == IF row[Project].status = "DRAFT" THEN "transition" ELSE "meter"
               q == [Idle EXCEPT !.pc = "ingest", !.target = m, !.entity = row[m],
                                 !.todo = files, !.next = next]
    <2>1. next \in Steps /\ files \subseteq Files
      BY DEF Steps, FilesOf
    <2>2. Begin(r, q) /\ Exists(m)
      BY <1>1 DEF Complete
    <2> HIDE DEF next
    <2>3. q \in RequestRecord
      BY <1>0, <2>1, Starts
    <2>4. q.pc = "ingest" /\ q.target = m /\ q.entity = row[m] /\ q.added = 0 /\ q.booked = 0
          /\ "row" \notin q.dirty
      BY DEF Idle
    <2> HIDE DEF q
    <2>5. QED BY <1>0, <2>2, <2>3, <2>4, BeginSerial
  <1>2. ASSUME NEW t \in Entities, NEW e \in Row, Exists(t), e.status # "NONE",
               t \in Missions => e = row[t],
               t = Project => e.bytes = row[Project].bytes,
               Begin(r, [Idle EXCEPT !.pc = "select", !.next = "commit", !.target = t,
                                     !.entity = e, !.dirty = {"other"}])
        PROVE  SerialHold'
    <2> DEFINE q == [Idle EXCEPT !.pc = "select", !.next = "commit", !.target = t,
                                 !.entity = e, !.dirty = {"other"}]
    <2>1. q \in RequestRecord
      BY Starts DEF Steps
    <2>2. /\ q.pc = "select" /\ q.next = "commit" /\ q.target = t /\ q.entity = e
          /\ q.added = 0 /\ q.booked = 0
          /\ "row" \notin q.dirty
      BY DEF Idle
    <2>3. Begin(r, q)
      BY <1>2
    <2> HIDE DEF q
    <2>4. QED BY <1>2, <2>1, <2>2, <2>3, BeginSerial
  <1>3. ASSUME NEW m \in Missions, EditMission(r, m) PROVE SerialHold'
    <2> DEFINE e == row[m]
    <2>1. m \in Entities /\ e \in Row /\ Exists(m) /\ e.status # "NONE" /\ m # Project
      BY <1>0, <1>3 DEF EditMission
    <2>2. Begin(r, [Idle EXCEPT !.pc = "select", !.next = "commit", !.target = m,
                                !.entity = e, !.dirty = {"other"}])
      BY <1>3 DEF EditMission
    <2>3. e = row[m]
      OBVIOUS
    <2> HIDE DEF e
    <2>4. QED BY <1>2, <2>1, <2>2, <2>3
  <1>4. ASSUME NEW e \in Row, Exists(Project), e.status # "NONE",
               e.bytes = row[Project].bytes,
               Begin(r, [Idle EXCEPT !.pc = "select", !.next = "commit",
                                     !.entity = e, !.dirty = {"other"}])
        PROVE  SerialHold'
    <2> DEFINE q == [Idle EXCEPT !.pc = "select", !.next = "commit",
                                 !.entity = e, !.dirty = {"other"}]
    <2>1. q \in RequestRecord
      BY Starts, <1>0 DEF Steps
    <2>2. /\ q.pc = "select" /\ q.next = "commit" /\ q.target = Project /\ q.entity = e
          /\ q.added = 0 /\ q.booked = 0
          /\ "row" \notin q.dirty
      BY DEF Idle
    <2>3. Begin(r, q)
      BY <1>4
    <2> HIDE DEF q
    <2>4. QED BY <1>0, <1>4, <2>1, <2>2, <2>3, BeginSerial
  <1>5. CASE EditProject(r)
    BY <1>0, <1>4, <1>5 DEF EditProject, Exists
  <1>6. CASE Archive(r)
    <2> DEFINE e == [row[Project] EXCEPT !.status = "ARCHIVED"]
    <2>1. e \in Row /\ e.status # "NONE" /\ e.bytes = row[Project].bytes
      BY <1>0 DEF Row, ProjectStatuses
    <2>2. Exists(Project)
          /\ Begin(r, [Idle EXCEPT !.pc = "select", !.next = "commit",
                                   !.entity = e, !.dirty = {"other"}])
      BY <1>6 DEF Archive
    <2> HIDE DEF e
    <2>3. QED BY <1>4, <2>1, <2>2
  <1>7. ASSUME NEW m \in Missions, RemoveMission(r, m) PROVE SerialHold'
    <2>1. /\ UNCHANGED <<request, own, stored, metered>>
          /\ \A e \in Entities \ {m} : row'[e] = row[e]
          /\ row'[m] = Gone
          /\ \A f \in Files : MissionOf[f] # m => image'[f] = image[f]
          /\ request[r].pc = "idle"
          /\ overlapped' = (overlapped \/ \E p \in Requests \ {r} : request[p].pc # "idle")
      BY <1>0, <1>7 DEF RemoveMission, Admit, OnlyRows, UploadTypeOK
    <2>2. ASSUME ~overlapped' PROVE SerialTotalsExact'
      <3>1. ASSUME NEW n \in Missions, Exists(n)'
            PROVE  (LET images == {f \in FilesOf(n) : image[f] # 0} IN
                    /\ row[n].count = Cardinality(images)
                    /\ row[n].bytes = TotalSize(image, images))'
        <4>1. n # m /\ Exists(n) /\ row'[n] = row[n] /\ ~overlapped
          <5>1. row'[n].status # "GONE"
            BY <3>1 DEF Exists
          <5>2. n # m
            BY <2>1, <5>1 DEF Gone
          <5>3. row'[n] = row[n]
            BY <1>0, <2>1, <5>2
          <5>4. ~overlapped
            BY <2>1, <2>2
          <5>5. Exists(n)
            BY <5>1, <5>3 DEF Exists
          <5>6. QED BY <5>2, <5>3, <5>4, <5>5
        <4>2. \A f \in FilesOf(n) : image'[f] = image[f]
          BY <2>1, <4>1 DEF FilesOf
        <4> DEFINE images == {f \in FilesOf(n) : image[f] # 0}
        <4>7. images' = images /\ \A f \in images : image[f] = image'[f]
          BY <4>2 DEF FilesOf
        <4>3. row[n].count = Cardinality(images) /\ row[n].bytes = TotalSize(image, images)
          BY <4>1 DEF SerialHold, SerialTotalsExact
        <4> HIDE DEF images
        <4>4. TotalSize(image, images) = TotalSize(image', images)
          BY <4>7, SameSizes
        <4>5. (row[n].count = Cardinality(images) /\ row[n].bytes = TotalSize(image, images))'
          BY <4>1, <4>3, <4>4, <4>7
        <4>6. QED BY <4>5 DEF images
      <3>2. Exists(Project)' => (row[Project].bytes = metered)'
        BY <1>0, <2>1, <2>2 DEF SerialHold, SerialTotalsExact, Exists
      <3>3. QED BY <3>1, <3>2 DEF SerialTotalsExact
    <2>3. ~overlapped' => \A p \in Requests : request'[p].pc = "idle"
      BY <2>1
    <2>4. \A e \in Entities : row'[e].status # "NONE"
      BY <1>0, <2>1 DEF Gone
    <2>5. \A p \in Requests : WrittenOf(p)'
      BY <2>1 DEF SerialHold, WrittenOf
    <2>6. SerialTotalsExact'
      BY <2>2 DEF SerialTotalsExact
    <2>7. QED BY <2>3, <2>4, <2>5, <2>6 DEF SerialHold
  <1>8. CASE RemoveProject(r)
    <2>1. /\ UNCHANGED <<request, own, stored>>
          /\ \A e \in Entities : row'[e] = Gone
          /\ request[r].pc = "idle"
          /\ overlapped' = (overlapped \/ \E p \in Requests \ {r} : request[p].pc # "idle")
      BY <1>8 DEF RemoveProject, Admit, OnlyRows
    <2>2. SerialTotalsExact'
      BY <1>0, <2>1 DEF SerialTotalsExact, Exists, Gone
    <2>3. ~overlapped' => \A p \in Requests : request'[p].pc = "idle"
      BY <2>1
    <2>4. \A p \in Requests : WrittenOf(p)'
      BY <2>1 DEF SerialHold, WrittenOf
    <2>5. QED BY <2>1, <2>2, <2>3, <2>4 DEF SerialHold, Gone
  <1>9. QED BY <1>1, <1>3, <1>5, <1>6, <1>7, <1>8 DEF OpenStep

\* A request that writes nothing sees what it saw.
LEMMA StillExact ==
  ASSUME NEW r \in Requests, Alone(r), own' = own, stored' = stored
  PROVE  /\ \A e : RowSeen(r, e)' = RowSeen(r, e) /\ (Exists(e)' <=> Exists(e))
         /\ \A m \in Missions : \A v : ExactRow(r, m, v) => ExactRow(r, m, v)'
  <1>1. \A e : RowSeen(r, e)' = RowSeen(r, e) /\ (Exists(e)' <=> Exists(e))
    BY DEF RowSeen, Exists, Alone
  <1>2. ASSUME NEW m \in Missions, NEW v, ExactRow(r, m, v) PROVE ExactRow(r, m, v)'
    <2>1. \A f \in FilesOf(m) : ImageSeen(r, f)' = ImageSeen(r, f)
      BY DEF ImageSeen, FilesOf, Alone
    <2>2. QED BY <1>2, <2>1, SameExact
  <1>3. QED BY <1>1, <1>2

\* What a request has written so far, whether or not it is alone.
WrittenAs(q) ==
  /\ q.pc # "idle"
  /\ q.pc \in {"select", "update"} =>
       q.next \in {"transition", "meter", "publish", "commit"}
  /\ q.pc \in {"ingest", "store", "select", "update"} => q.entity.status # "NONE"

\* A request moves on without writing.
LEMMA QuietSerial ==
  ASSUME SerialHold, NEW r \in Requests, NEW n, request[r].pc # "idle",
         Alone(r), own' = own, stored' = stored, request'[r] = n, WrittenAs(n),
         ~overlapped /\ SerialOf(r) => SerialAs(r, n)
  PROVE  SerialHold'
  <1>1. WrittenOf(r)'
    BY DEF SerialHold, WrittenOf, WrittenAs
  <1>2. ASSUME ~overlapped, SerialOf(r) PROVE SerialOf(r)'
    <2>1. SerialAs(r, n)
      BY <1>2
    <2>2. image' = image /\ metered' = metered
      BY DEF Alone
    <2>3. SerialAs(r, n)'
      BY <2>1, <2>2, StillExact DEF SerialAs
    <2>4. \A p \in Requests \ {r} : request'[p].pc = "idle"
      BY <1>2 DEF SerialOf, Alone
    <2>5. QED BY <2>3, <2>4 DEF SerialOf
  <1>3. QED BY <1>1, <1>2, AloneSerial

\* An image is stored: only the totals of the mission at work are out of date.
LEMMA StoredSerial ==
  ASSUME UploadTypeOK, ParentsHold, SerialHold, NEW r \in Requests,
         NEW added \in Nat, NEW inserted \in Nat,
         request[r].pc = "store", Stored(r, added, inserted),
         request[r].found = image[request[r].file] => added = inserted
  PROVE  SerialHold'
  <1> DEFINE q == request[r]
  <1>0. q \in RequestRecord /\ ParentsOf(r) /\ WrittenOf(r)
    BY Held DEF ParentsHold, SerialHold
  <1>1. /\ Alone(r) /\ own' = own /\ request'[r].pc = "ingest"
        /\ request'[r].target = q.target /\ request'[r].entity = q.entity
        /\ request'[r].added = q.added + added /\ request'[r].booked = q.booked + inserted
        /\ request'[r].dirty = q.dirty
    BY StoredDoes
  <1>2. stored'[r] = [stored[r] EXCEPT ![q.file] = q.size]
        /\ MissionOf[q.file] = q.target /\ q.target \in Missions
    BY <1>0, StoredDoes DEF ParentsOf
  <1>3. WrittenOf(r)'
    BY <1>0, <1>1 DEF WrittenOf
  <1>4. ASSUME ~overlapped, SerialOf(r) PROVE SerialOf(r)'
    <2>1. SerialAs(r, q)
      BY <1>4 DEF SerialOf
    <2>2. /\ \A e : RowSeen(r, e)' = RowSeen(r, e) /\ (Exists(e)' <=> Exists(e))
      BY <1>1 DEF RowSeen, Exists, Alone
    <2>3. ASSUME NEW m \in Missions, m # q.target, Exists(m)
          PROVE  ExactRow(r, m, RowSeen(r, m))'
      <3>1. \A f \in FilesOf(m) : ImageSeen(r, f)' = ImageSeen(r, f)
        BY <1>1, <1>2, <2>3 DEF ImageSeen, FilesOf, Alone
      <3>2. ExactRow(r, m, RowSeen(r, m))
        BY <2>1, <2>3, UploadAssumption DEF SerialAs
      <3>3. QED BY <2>2, <3>1, <3>2, SameExact
    <2>4. q.added + added = q.booked + inserted
      BY <1>0, <2>1 DEF SerialAs
    <2>5. Exists(q.target) /\ "row" \notin q.dirty
          /\ RowSeen(r, Project).bytes = metered
      BY <2>1 DEF SerialAs
    <2>6. Exists(Project) /\ \A m \in Missions : own[r][m] # Nothing => Exists(m)
      BY <2>1 DEF SerialAs
    <2>7. metered' = metered /\ \A p \in Requests \ {r} : request'[p].pc = "idle"
      BY <1>1, <1>4 DEF Alone, SerialOf
    <2> HIDE DEF q
    <2>8. SerialAs(r, request[r])'
      BY <1>1, <2>2, <2>3, <2>4, <2>5, <2>6, <2>7 DEF SerialAs
    <2>9. QED BY <2>7, <2>8 DEF SerialOf
  <1>5. QED BY <1>1, <1>3, <1>4, AloneSerial

LEMMA CompleteSerial ==
  ASSUME UploadTypeOK, ParentsHold, SerialHold, NEW r \in Requests, CompleteStep(r)
  PROVE  SerialHold'
  <1> DEFINE q == request[r]
             project == RowSeen(r, Project)
  <1>0. /\ q \in RequestRecord /\ ParentsOf(r) /\ WrittenOf(r)
        /\ project \in Row /\ Project \notin Missions
        /\ metered \in Nat
    BY Held, UploadAssumption DEF ParentsHold, SerialHold, UploadTypeOK, Entities
  <1>1. ASSUME NEW f \in Files, Look(r, f) PROVE SerialHold'
    <2> DEFINE n == request'[r]
    <2>1. /\ Alone(r) /\ own' = own /\ stored' = stored /\ q.pc = "ingest"
          /\ n.next = q.next /\ n.target = q.target /\ n.entity = q.entity
          /\ n.added = q.added /\ n.booked = q.booked /\ n.dirty = q.dirty
          /\ n.pc = "ingest" \/ (n.pc = "store" /\ n.file = f /\ n.found = image[f])
      BY <1>1, LookDoes
    <2> HIDE DEF n
    <2>2. WrittenAs(n)
      BY <1>0, <2>1 DEF WrittenOf, WrittenAs
    <2>3. ASSUME SerialOf(r) PROVE SerialAs(r, n)
      BY <2>1, <2>3 DEF SerialOf, SerialAs
    <2>4. QED BY <2>1, <2>2, <2>3, QuietSerial DEF n
  <1>2. CASE StoreKnown(r)
    BY <1>2, StoredSerial DEF StoreKnown
  <1>3. CASE StoreNew(r)
    <2> DEFINE added == IF q.found # 0 THEN 0 ELSE q.size
    <2>1. added \in Nat /\ q.size \in Nat
      BY <1>0, UploadAssumption DEF RequestRecord
    <2>2. q.pc = "store" /\ Stored(r, added, q.size)
          /\ (q.found = image[q.file] => added = q.size)
      BY <1>3 DEF StoreNew
    <2> HIDE DEF added
    <2>3. QED BY <2>1, <2>2, StoredSerial
  <1>4. CASE StoreNothing(r)
    <2> DEFINE n == request'[r]
    <2>1. /\ Alone(r) /\ own' = own /\ stored' = stored /\ q.pc = "store"
          /\ n.pc = "ingest" /\ n.target = q.target /\ n.entity = q.entity
          /\ n.added = q.added /\ n.booked = q.booked /\ n.dirty = q.dirty
      BY <1>4, StoreNothingDoes
    <2> HIDE DEF n
    <2>2. WrittenAs(n)
      BY <1>0, <2>1 DEF WrittenOf, WrittenAs
    <2>3. ASSUME SerialOf(r) PROVE SerialAs(r, n)
      BY <2>1, <2>3 DEF SerialOf, SerialAs
    <2>4. QED BY <2>1, <2>2, <2>3, QuietSerial DEF n
  <1>5. CASE Recount(r)
    <2> DEFINE n == request'[r]
               sizes == [f \in Files |-> ImageSeen(r, f)]
               images == ImagesSeen(r, q.target)
    <2>1. /\ Alone(r) /\ own' = own /\ stored' = stored /\ q.pc = "ingest"
          /\ n.pc = "select" /\ n.dirty = q.dirty /\ n.next = q.next
          /\ n.target = q.target /\ n.entity.status = "READY"
          /\ n.entity.count = Cardinality(images)
          /\ n.entity.bytes = TotalSize(sizes, images)
          /\ n.added = q.added /\ n.booked = q.booked
      BY <1>5, RecountDoes
    <2>2. ExactRow(r, q.target, n.entity)
      BY <2>1 DEF ExactRow
    <2> HIDE DEF n, sizes, images
    <2>3. q.next \in {"transition", "meter"} /\ q.target \in Missions
      BY <1>0, <2>1 DEF ParentsOf
    <2>4. WrittenAs(n)
      BY <2>1, <2>3 DEF WrittenAs
    <2>5. ASSUME SerialOf(r) PROVE SerialAs(r, n)
      BY <1>0, <2>1, <2>2, <2>3, <2>5 DEF SerialOf, SerialAs
    <2>6. QED BY <2>1, <2>4, <2>5, QuietSerial DEF n
  <1>6. CASE Transition(r)
    <2> DEFINE n == request'[r]
               e == [project EXCEPT !.status = "UPLOADING"]
    <2>1. /\ Alone(r) /\ own' = own /\ stored' = stored /\ q.pc = "transition"
          /\ n.pc = "select" /\ n.next = "meter" /\ n.dirty = {"other"}
          /\ n.target = q.target /\ n.entity = e
          /\ n.added = q.added /\ n.booked = q.booked
      BY <1>6, TransitionDoes
    <2>2. e.status = "UPLOADING" /\ e.bytes = project.bytes
      BY <1>0 DEF Row
    <2> HIDE DEF n, e
    <2>3. q.target = Project
      BY <1>0, <2>1 DEF ParentsOf
    <2>4. WrittenAs(n)
      BY <2>1, <2>2 DEF WrittenAs
    <2>5. BoundOf(n, metered) = metered
      BY <2>1 DEF BoundOf
    <2>6. ASSUME SerialOf(r) PROVE SerialAs(r, n)
      <3>1. SerialAs(r, q)
        BY <2>6 DEF SerialOf
      <3> HIDE DEF q
      <3>2. QED BY <1>0, <2>1, <2>2, <2>3, <2>5, <3>1 DEF SerialAs
    <2>7. QED BY <2>1, <2>4, <2>6, QuietSerial DEF n
  <1>7. CASE Meter(r)
    <2> DEFINE n == request'[r]
               e == [project EXCEPT !.bytes = @ + q.added]
    <2>1. /\ Alone(r) /\ own' = own /\ stored' = stored /\ q.pc = "meter"
          /\ n.target = q.target /\ n.dirty = q.dirty
          /\ n.added = q.added /\ n.booked = q.booked
          /\ \/ /\ q.added = 0 \/ project.status = "GONE"
                /\ n.pc = "publish"
             \/ /\ q.added # 0 /\ n.pc = "select" /\ n.next = "publish"
                /\ n.entity = e
      BY <1>7, MeterDoes
    <2>2. e.status = project.status /\ e.bytes = project.bytes + q.added
      BY <1>0 DEF Row
    <2> HIDE DEF n, e
    <2>3. q.target = Project
      BY <1>0, <2>1 DEF ParentsOf
    <2>4. project.status # "NONE"
      BY <1>0 DEF RowSeen, SerialHold, WrittenOf, Entities
    <2>5. WrittenAs(n)
      BY <2>1, <2>2, <2>4 DEF WrittenAs
    <2>6. ASSUME SerialOf(r) PROVE SerialAs(r, n)
      <3>1. SerialAs(r, q) /\ Exists(Project)
        BY <2>6 DEF SerialOf, SerialAs
      <3>2. project.status # "GONE"
        BY <1>0, <3>1 DEF ParentsOf, RowSeen, Entities, Exists
      <3>3. project.bytes = metered /\ q.added = q.booked /\ q.booked \in Nat
        BY <1>0, <2>1, <3>1 DEF SerialAs, RequestRecord
      <3> HIDE DEF q
      <3>4. CASE n.pc = "publish"
        <4>1. q.booked = 0 /\ metered + q.booked = metered
          BY <1>0, <2>1, <3>2, <3>3, <3>4
        <4>2. QED BY <2>1, <3>1, <3>3, <3>4, <4>1 DEF SerialAs
      <3>5. CASE n.pc # "publish"
        <4>1. n.pc = "select" /\ n.next = "publish" /\ n.entity.bytes = metered + n.booked
          BY <2>1, <2>2, <3>3, <3>5
        <4>2. BoundOf(n, metered) = metered + n.booked
          BY <4>1 DEF BoundOf
        <4>3. QED BY <1>0, <2>1, <2>3, <3>1, <4>1, <4>2 DEF SerialAs
      <3>6. QED BY <3>4, <3>5
    <2>7. QED BY <2>1, <2>5, <2>6, QuietSerial DEF n
  <1>8. CASE Publish(r)
    <2> DEFINE n == request'[r]
    <2>1. /\ Alone(r) /\ own' = own /\ stored' = stored /\ q.pc = "publish"
          /\ n.pc = "commit" /\ n.dirty = q.dirty
          /\ n.added = q.added /\ n.booked = q.booked
      BY <1>8, PublishDoes
    <2> HIDE DEF n
    <2>2. WrittenAs(n)
      BY <2>1 DEF WrittenAs
    <2>3. ASSUME SerialOf(r) PROVE SerialAs(r, n)
      BY <2>1, <2>3 DEF SerialOf, SerialAs
    <2>4. QED BY <2>1, <2>2, <2>3, QuietSerial DEF n
  <1>9. ASSUME StoreRefused(r) \/ RecountRefused(r) \/ TransitionRefused(r)
        PROVE  SerialHold'
    BY <1>9, AbortSerial DEF StoreRefused, RecountRefused, TransitionRefused
  <1>10. QED
    BY <1>1, <1>2, <1>3, <1>4, <1>5, <1>6, <1>7, <1>8, <1>9 DEF CompleteStep

\* A save is over and the request sees what it meant to write: the totals that
\* were about to be exact are.
LEMMA SaveEnds ==
  ASSUME UploadTypeOK, ParentsHold, SerialHold, NEW r \in Requests, NEW t \in Entities,
         request[r].pc \in {"select", "update"}, request[r].target = t,
         Alone(r), stored' = stored, request'[r] = SaveDone(request[r]),
         \A e \in Entities : own'[r][e] # Nothing => own'[r][e].status # "NONE",
         ~overlapped /\ SerialOf(r) =>
           /\ \A e \in Entities \ {t} :
                RowSeen(r, e)' = RowSeen(r, e) /\ own'[r][e] = own[r][e]
           /\ RowSeen(r, t)'.count = request[r].entity.count
           /\ RowSeen(r, t)'.bytes = request[r].entity.bytes
  PROVE  SerialHold'
  <1> DEFINE q == request[r]
  <1> PICK n : n = SaveDone(q) /\ request'[r] = n
    OBVIOUS
  <1>0. /\ q \in RequestRecord /\ WrittenOf(r)
        /\ Project \notin Missions /\ metered \in Nat /\ Project \in Entities
        /\ Missions \subseteq Entities
    BY Held, UploadAssumption DEF SerialHold, UploadTypeOK, Entities, RequestRecord
  <1>1. /\ n.pc = q.next /\ n.dirty = {} /\ n.added = q.added /\ n.booked = q.booked
        /\ q.next \in {"transition", "meter", "publish", "commit"}
    BY <1>0, SaveDoneDoes DEF WrittenOf
  <1>2. WrittenOf(r)'
    BY <1>1 DEF WrittenOf
  <1>3. ASSUME ~overlapped, SerialOf(r) PROVE SerialOf(r)'
    <2>1. /\ \A e \in Entities \ {t} :
               RowSeen(r, e)' = RowSeen(r, e) /\ own'[r][e] = own[r][e]
          /\ RowSeen(r, t)'.count = q.entity.count
          /\ RowSeen(r, t)'.bytes = q.entity.bytes
      BY <1>3
    <2>2. /\ \A e : Exists(e)' <=> Exists(e)
          /\ \A f : ImageSeen(r, f)' = ImageSeen(r, f)
          /\ metered' = metered
      BY DEF Exists, ImageSeen, Alone
    <2>3. SerialAs(r, q) /\ \A p \in Requests \ {r} : request'[p].pc = "idle"
      BY <1>3 DEF SerialOf, Alone
    <2>10. q.target = t /\ q.pc \in {"select", "update"} /\ q.booked \in Nat
      BY <1>0 DEF RequestRecord
    <2> HIDE DEF q
    <2>4. /\ Exists(Project) /\ Exists(t) /\ q.added = q.booked
          /\ \A m \in Missions : own[r][m] # Nothing => Exists(m)
      BY <2>3, <2>10 DEF SerialAs
    <2>5. ASSUME NEW m \in Missions, Exists(m) PROVE ExactRow(r, m, RowSeen(r, m))'
      <3>1. CASE m = t
        <4>1. ExactRow(r, m, q.entity)
          BY <2>3, <2>10, <3>1 DEF SerialAs
        <4>2. QED BY <2>1, <2>2, <3>1, <4>1, SameExact
      <3>2. CASE m # t
        <4>1. ExactRow(r, m, RowSeen(r, m)) /\ RowSeen(r, m)' = RowSeen(r, m)
          BY <1>0, <2>1, <2>3, <2>5, <2>10, <3>2 DEF SerialAs
        <4>2. QED BY <2>2, <4>1, SameExact
      <3>3. QED BY <3>1, <3>2
    <2>6. RowSeen(r, Project)'.bytes =
            IF q.next \in {"publish", "commit"} THEN metered + q.booked ELSE metered
      <3>2. CASE t = Project
        <4>1. q.entity.bytes = BoundOf(q, metered) /\ (q.next = "commit" => q.booked = 0)
          BY <2>3, <2>10, <3>2 DEF SerialAs
        <4>2. RowSeen(r, Project)'.bytes = BoundOf(q, metered)
          BY <2>1, <3>2, <4>1
        <4>3. QED BY <1>0, <2>10, <4>1, <4>2 DEF BoundOf
      <3>3. CASE t # Project
        <4>1. /\ RowSeen(r, Project)'.bytes = metered /\ q.next # "publish"
              /\ q.next = "commit" => q.booked = 0
          BY <1>0, <2>1, <2>3, <2>10, <3>3 DEF SerialAs
        <4>2. QED BY <1>0, <2>10, <4>1
      <3>4. QED BY <3>2, <3>3
    <2>7. ASSUME NEW m \in Missions, own'[r][m] # Nothing PROVE Exists(m)
      BY <1>0, <2>1, <2>4, <2>7
    <2>8. SerialAs(r, n)'
      BY <1>1, <2>2, <2>4, <2>5, <2>6, <2>7 DEF SerialAs
    <2>9. QED BY <2>3, <2>8 DEF SerialOf
  <1>4. QED BY <1>2, <1>3, AloneSerial

LEMMA SaveSerial ==
  ASSUME UploadTypeOK, ParentsHold, SerialHold, NEW r \in Requests, SaveStep(r)
  PROVE  SerialHold'
  <1> DEFINE q == request[r]
  <1> PICK t : t = q.target
    OBVIOUS
  <1> DEFINE seen == RowSeen(r, t)
  <1>0. /\ q \in RequestRecord /\ ParentsOf(r) /\ WrittenOf(r) /\ t \in Entities
        /\ seen \in Row /\ q.entity \in Row /\ own[r] \in [Entities -> Row]
    BY Held DEF ParentsHold, SerialHold, RequestRecord
  <1>1. seen.status # "NONE"
    BY <1>0 DEF RowSeen, SerialHold, WrittenOf
  <1>2. SerialOf(r) /\ q.pc \in {"select", "update"} =>
          seen.status # "GONE" /\ "row" \notin q.dirty
    BY <1>0 DEF SerialOf, SerialAs, ParentsOf, RowSeen, Exists
  <1>3. CASE SaveSelect(r)
    <2> DEFINE n == request'[r]
               dirty == IF seen.status = "GONE" THEN {"row"}
                        ELSE q.dirty \cup {c \in Columns : q.entity[c] # seen[c]}
    <2>1. /\ Alone(r) /\ own' = own /\ stored' = stored /\ q.pc = "select"
          /\ \/ dirty = {} /\ n = SaveDone(q)
             \/ /\ n.pc = "update" /\ n.dirty = dirty
                /\ n.next = q.next /\ n.target = t /\ n.entity = q.entity
                /\ n.added = q.added /\ n.booked = q.booked
      BY <1>3, SelectDoes
    <2>2. /\ seen.status # "GONE" /\ "count" \notin dirty => q.entity.count = seen.count
          /\ seen.status # "GONE" /\ "bytes" \notin dirty => q.entity.bytes = seen.bytes
          /\ seen.status # "GONE" /\ "row" \notin q.dirty => "row" \notin dirty
          /\ seen.status = "GONE" => dirty # {}
      BY <1>0 DEF Columns, Row
    <2> HIDE DEF n, dirty, seen
    <2>3. CASE dirty = {} /\ n = SaveDone(q)
      <3>1. \A e \in Entities : own'[r][e] # Nothing => own'[r][e].status # "NONE"
        BY <1>0, <2>1 DEF WrittenOf
      <3>2. \A e \in Entities : RowSeen(r, e)' = RowSeen(r, e)
        BY <2>1, StillExact
      <3>3. RowSeen(r, t)' = seen /\ q.entity.count = seen.count
            /\ q.entity.bytes = seen.bytes
        BY <1>0, <2>2, <2>3, <3>2 DEF seen
      <3>4. request'[r] = SaveDone(q)
        BY <2>3 DEF n
      <3>5. QED BY <1>0, <2>1, <3>1, <3>2, <3>3, <3>4, SaveEnds
    <2>4. CASE n.pc = "update" /\ n.dirty = dirty
               /\ n.next = q.next /\ n.target = t /\ n.entity = q.entity
               /\ n.added = q.added /\ n.booked = q.booked
      <3>1. WrittenAs(n)
        BY <1>0, <2>1, <2>4 DEF WrittenAs, WrittenOf
      <3>2. ASSUME SerialOf(r) PROVE SerialAs(r, n)
        <4>1. "row" \notin dirty /\ seen.status # "GONE"
          BY <1>2, <2>1, <2>2, <3>2
        <4>2. SerialAs(r, q)
          BY <3>2 DEF SerialOf
        <4>3. /\ "count" \notin n.dirty => n.entity.count = RowSeen(r, n.target).count
              /\ "bytes" \notin n.dirty => n.entity.bytes = RowSeen(r, n.target).bytes
              /\ "row" \notin n.dirty
          BY <2>2, <2>4, <4>1 DEF seen
        <4>4. BoundOf(n, metered) = BoundOf(q, metered)
          BY <2>1, <2>4 DEF BoundOf
        <4> HIDE DEF q
        <4>5. QED BY <2>1, <2>4, <4>2, <4>3, <4>4 DEF SerialAs
      <3>3. QED BY <2>1, <3>1, <3>2, QuietSerial DEF n
    <2>5. QED BY <2>1, <2>3, <2>4
  <1>4. CASE SaveUpdate(r)
    <2> DEFINE Value(c) == IF c \in q.dirty THEN q.entity[c] ELSE seen[c]
               saved == IF seen.status = "GONE" THEN own[r][t]
                        ELSE [status |-> Value("status"), count |-> Value("count"),
                              bytes |-> Value("bytes")]
    <2>1. /\ Alone(r) /\ stored' = stored /\ own'[r] = [own[r] EXCEPT ![t] = saved]
          /\ request'[r] = SaveDone(q) /\ q.pc = "update"
      BY <1>4, SavedDoes DEF SaveUpdate
    <2>2. saved # Nothing => saved.status # "NONE"
      BY <1>0, <1>1, <2>1 DEF WrittenOf, Row
    <2>3. seen.status # "GONE" =>
            /\ saved.status # "NONE"
            /\ saved.count = (IF "count" \in q.dirty THEN q.entity.count ELSE seen.count)
            /\ saved.bytes = (IF "bytes" \in q.dirty THEN q.entity.bytes ELSE seen.bytes)
      BY <1>0, <1>1, <2>1 DEF WrittenOf, Row
    <2> HIDE DEF saved
    <2>4. \A e \in Entities : own'[r][e] # Nothing => own'[r][e].status # "NONE"
      BY <1>0, <2>1, <2>2 DEF WrittenOf
    <2>5. \A e \in Entities \ {t} : RowSeen(r, e)' = RowSeen(r, e) /\ own'[r][e] = own[r][e]
      BY <1>0, <2>1 DEF RowSeen, Alone
    <2>6. ASSUME SerialOf(r)
          PROVE  /\ RowSeen(r, t)'.count = q.entity.count
                 /\ RowSeen(r, t)'.bytes = q.entity.bytes
      <3>1. seen.status # "GONE" /\ SerialAs(r, q)
        BY <1>2, <2>1, <2>6 DEF SerialOf
      <3>2. /\ "count" \notin q.dirty => q.entity.count = seen.count
            /\ "bytes" \notin q.dirty => q.entity.bytes = seen.bytes
        BY <2>1, <3>1 DEF SerialAs
      <3>3. saved.count = q.entity.count /\ saved.bytes = q.entity.bytes
        BY <2>3, <3>1, <3>2
      <3>4. saved # Nothing
        BY <2>3, <3>1 DEF Nothing
      <3>5. RowSeen(r, t)' = saved
        BY <1>0, <2>1, <3>4 DEF RowSeen, Nothing
      <3>6. QED BY <3>3, <3>5
    <2> HIDE DEF seen, q
    <2>8. QED BY <1>0, <2>1, <2>4, <2>5, <2>6, SaveEnds DEF q
  <1>5. CASE SaveInsert(r)
    <2>1. /\ Alone(r) /\ stored' = stored /\ own'[r] = [own[r] EXCEPT ![t] = q.entity]
          /\ request'[r] = SaveDone(q) /\ q.pc = "update" /\ "row" \in q.dirty
      BY <1>5, SavedDoes DEF SaveInsert
    <2>2. \A e \in Entities : own'[r][e] # Nothing => own'[r][e].status # "NONE"
      BY <1>0, <2>1 DEF WrittenOf
    <2>3. ~SerialOf(r)
      BY <1>2, <2>1
    <2> HIDE DEF seen
    <2>4. QED BY <1>0, <2>1, <2>2, <2>3, SaveEnds
  <1>6. CASE SaveRefused(r)
    BY <1>6, AbortSerial DEF SaveRefused
  <1>7. QED BY <1>3, <1>4, <1>5, <1>6 DEF SaveStep

\* The totals of a commit that nothing overlapped are those its request saw.
LEMMA CommitSerial ==
  ASSUME UploadTypeOK, ParentsHold, SerialHold, NEW r \in Requests, Commit(r)
  PROVE  SerialHold'
  <1> DEFINE q == request[r]
  <1>0. Project \in Entities /\ Missions \subseteq Entities
    BY DEF Entities
  <1>1. /\ \A p \in Requests \ {r} : /\ request'[p] = request[p]
                                     /\ own'[p] = own[p] /\ stored'[p] = stored[p]
        /\ request'[r].pc = "idle" /\ own'[r] = NoRows /\ stored'[r] = NoImages
        /\ q.pc = "commit" /\ overlapped' = overlapped
        /\ row' = [e \in Entities |-> RowSeen(r, e)]
        /\ image' = [f \in Files |-> ImageSeen(r, f)]
        /\ metered' = metered + q.booked
    BY CommitDoes DEF Idle
  <1>2. \A e \in Entities : row'[e].status # "NONE"
    BY <1>1 DEF SerialHold, WrittenOf, RowSeen
  <1>3. ASSUME NEW p \in Requests PROVE WrittenOf(p)'
    <2>1. CASE p = r
      BY <1>1, <2>1 DEF WrittenOf, NoRows
    <2>2. CASE p # r
      BY <1>1, <2>2 DEF WrittenOf, SerialHold
    <2>3. QED BY <2>1, <2>2
  <1>4. ASSUME ~overlapped' PROVE SerialOf(r)
    BY <1>1, <1>4 DEF SerialHold
  <1>5. ASSUME ~overlapped' PROVE \A p \in Requests : request'[p].pc = "idle"
    BY <1>1, <1>4, <1>5 DEF SerialOf
  <1>6. ASSUME ~overlapped', NEW m \in Missions, Exists(m)'
        PROVE  (LET images == {f \in FilesOf(m) : image[f] # 0} IN
                /\ row[m].count = Cardinality(images)
                /\ row[m].bytes = TotalSize(image, images))'
    <2>1. SerialAs(r, q)
      BY <1>4, <1>6 DEF SerialOf
    <2>2. row'[m] = RowSeen(r, m) /\ m \in Entities
      BY <1>0, <1>1
    <2>3. Exists(m)
      BY <1>6, <2>1, <2>2 DEF SerialAs, RowSeen, Exists
    <2>4. ExactRow(r, m, RowSeen(r, m))
      BY <1>1, <2>1, <2>3 DEF SerialAs
    <2> DEFINE images == {f \in FilesOf(m) : image[f] # 0}
    <2>5. images' = ImagesSeen(r, m)
      BY <1>1 DEF ImagesSeen, FilesOf
    <2> HIDE DEF images
    <2>6. /\ row'[m].count = Cardinality(images')
          /\ row'[m].bytes = TotalSize(image', images')
      BY <1>1, <2>2, <2>4, <2>5 DEF ExactRow
    <2>7. QED BY <2>6 DEF images
  <1>7. ~overlapped' => (row[Project].bytes = metered)'
    BY <1>0, <1>1, <1>4 DEF SerialOf, SerialAs
  <1>8. SerialTotalsExact'
    BY <1>6, <1>7 DEF SerialTotalsExact
  <1>9. QED BY <1>2, <1>3, <1>5, <1>8 DEF SerialHold

\* The workers write statuses of missions that no open request has written.
LEMMA WorkerSerial ==
  ASSUME UploadTypeOK, SerialHold, NEW m \in Missions, NEW s \in Verdicts,
         WorkerWrites(m, s)
  PROVE  SerialHold'
  <1>1. /\ UNCHANGED <<request, own, stored, image, metered, overlapped>>
        /\ \A p \in Requests : own[p][m] = Nothing
        /\ row' = [row EXCEPT ![m].status = s] /\ Exists(m)
        /\ s \notin {"GONE", "NONE"} /\ m \in Entities
    BY UploadAssumption DEF WorkerWrites, OnlyRows, Entities
  <1>2. \A e \in Entities : /\ Exists(e)' <=> Exists(e)
                            /\ row'[e].count = row[e].count
                            /\ row'[e].bytes = row[e].bytes
                            /\ row'[e].status # "NONE"
    BY <1>1 DEF UploadTypeOK, Row, Exists, SerialHold
  <1>3. \A p \in Requests, e \in Entities :
          /\ RowSeen(p, e)'.count = RowSeen(p, e).count
          /\ RowSeen(p, e)'.bytes = RowSeen(p, e).bytes
    BY <1>1, <1>2 DEF RowSeen
  <1>4. SerialTotalsExact'
    BY <1>1, <1>2 DEF SerialHold, SerialTotalsExact, FilesOf, Entities
  <1>5. \A p \in Requests : WrittenOf(p)'
    BY <1>1 DEF SerialHold, WrittenOf
  <1>6. ASSUME NEW p \in Requests, SerialOf(p) PROVE SerialOf(p)'
    <2> PICK q : q = request[p]
      OBVIOUS
    <2>1. SerialAs(p, q) /\ q.target \in Entities
      BY <1>6, Held DEF SerialOf, RequestRecord
    <2>2. \A f : ImageSeen(p, f)' = ImageSeen(p, f)
      BY <1>1 DEF ImageSeen
    <2>3. ASSUME NEW n \in Missions, NEW v, NEW w, ExactRow(p, n, v),
                 v.count = w.count, v.bytes = w.bytes
          PROVE  ExactRow(p, n, w)'
      BY <2>2, <2>3, SameExact
    <2>4. Missions \subseteq Entities /\ Project \in Entities
      BY DEF Entities
    <2>5. \A n \in Missions :
            Exists(n)' /\ ~(q.pc \in {"ingest", "store", "select", "update"}
                            /\ q.target = n) =>
              ExactRow(p, n, RowSeen(p, n))'
      BY <1>2, <1>3, <2>1, <2>3, <2>4 DEF SerialAs
    <2>6. q.target \in Missions /\ q.pc \in {"select", "update"} =>
            ExactRow(p, q.target, q.entity)'
      BY <2>1, <2>3 DEF SerialAs
    <2>7. image' = image /\ own' = own /\ metered' = metered
      BY <1>1
    <2>8. SerialAs(p, q)'
      BY <1>2, <1>3, <2>1, <2>4, <2>5, <2>6, <2>7 DEF SerialAs
    <2>9. QED BY <1>1, <1>6, <2>8 DEF SerialOf
  <1>7. QED BY <1>1, <1>2, <1>4, <1>5, <1>6 DEF SerialHold

LEMMA SameSerial ==
  ASSUME SerialHold, UNCHANGED <<request, own, stored, row, image, metered, overlapped>>
  PROVE  SerialHold'
  <1>1. /\ \A p \in Requests : \A e : RowSeen(p, e)' = RowSeen(p, e)
        /\ \A e : Exists(e)' <=> Exists(e)
        /\ \A p \in Requests : \A f : ImageSeen(p, f)' = ImageSeen(p, f)
    BY DEF RowSeen, Exists, ImageSeen
  <1>2. \A p \in Requests, m \in Missions : \A v : ExactRow(p, m, v) => ExactRow(p, m, v)'
    BY <1>1, SameExact
  <1>3. ASSUME NEW p \in Requests, NEW q, SerialAs(p, q) PROVE SerialAs(p, q)'
    BY <1>1, <1>2, <1>3 DEF SerialAs
  <1>4. ASSUME NEW p \in Requests, SerialOf(p) PROVE SerialOf(p)'
    BY <1>3, <1>4 DEF SerialOf
  <1>5. SerialTotalsExact'
    BY <1>1 DEF SerialHold, SerialTotalsExact, FilesOf
  <1>6. QED BY <1>4, <1>5 DEF SerialHold, WrittenOf

LEMMA OutsideSerial ==
  ASSUME UploadTypeOK, SerialHold, BucketStep \/ WorkerStep
  PROVE  SerialHold'
  <1>1. CASE BucketStep
    <2>1. UNCHANGED <<request, own, stored, row, image, metered, overlapped>>
      BY <1>1 DEF BucketStep, Initiate, Put, OnlyBucket
    <2>2. QED BY <2>1, SameSerial
  <1>2. CASE WorkerStep
    BY <1>2, WorkerSerial DEF WorkerStep
  <1>3. QED BY <1>1, <1>2

\* No images, no bytes: the one value of a total that can be computed here.
LEMMA NoBytes ==
  ASSUME NEW sizes PROVE TotalSize(sizes, {}) = 0
  <1> DEFINE fun == [f \in {} |-> sizes[f]]
             step(s, iter) == IF s = {} THEN 0
                              ELSE LET x == CHOOSE x \in s : TRUE IN fun[x] + iter[s \ {x}]
             IsSum(iter) == iter = [s \in SUBSET {} |-> step(s, iter)]
             zero == [s \in SUBSET {} |-> 0]
  <1>1. TotalSize(sizes, {}) = (CHOOSE iter : IsSum(iter))[{}]
    BY DEF TotalSize, SumFunction, SumFunctionOnSet, FoldFunctionOnSet, MapThenFoldSet
  <1>2. IsSum(zero)
    OBVIOUS
  <1>3. \A iter : IsSum(iter) => iter[{}] = 0
    OBVIOUS
  <1> HIDE DEF IsSum
  <1>4. QED BY <1>1, <1>2, <1>3

LEMMA SerialInvariant == Spec => []SerialHold
  <1>1. Init => SerialHold
    <2> SUFFICES ASSUME Init PROVE SerialHold
      OBVIOUS
    <2>1. ASSUME NEW m \in Missions
          PROVE  LET images == {f \in FilesOf(m) : image[f] # 0} IN
                 row[m].count = Cardinality(images) /\ row[m].bytes = TotalSize(image, images)
      <3>1. {f \in FilesOf(m) : image[f] # 0} = {}
        BY DEF Init, NoImages, FilesOf
      <3>2. row[m].count = 0 /\ row[m].bytes = 0
        BY UploadAssumption DEF Init, Entities
      <3>3. QED BY <3>1, <3>2, NoBytes, FS_EmptySet
    <2>2. row[Project].bytes = metered /\ \A e \in Entities : row[e].status # "NONE"
      BY DEF Init, Entities
    <2>3. \A r \in Requests : WrittenOf(r) /\ request[r].pc = "idle"
      BY DEF Init, WrittenOf, Idle, NoRows
    <2>4. QED BY <2>1, <2>2, <2>3 DEF SerialHold, SerialTotalsExact
  <1>2. UploadInv /\ ParentsHold /\ SerialHold /\ [Next]_vars => SerialHold'
    <2> SUFFICES ASSUME UploadInv, ParentsHold, SerialHold, [Next]_vars
                 PROVE  SerialHold'
      OBVIOUS
    <2>0. UploadTypeOK
      BY DEF UploadInv
    <2>1. CASE UNCHANGED vars
      BY <2>1, SameSerial DEF vars
    <2>2. ASSUME NEW r \in Requests, EndStep(r) PROVE SerialHold'
      <3>1. CASE DeadlockVictim(r)
        <4>1. request[r].pc # "idle" /\ Abort(r)
          BY <3>1 DEF DeadlockVictim, WaitsFor
        <4>2. QED BY <2>0, <4>1, AbortSerial
      <3>2. QED BY <2>0, <2>2, <3>1, CommitSerial, AbortSerial DEF EndStep, Fail
    <2>3. CASE Next
      BY <2>0, <2>2, <2>3, OpenSerial, CompleteSerial, SaveSerial, OutsideSerial
      DEF Next
    <2>4. QED BY <2>1, <2>3
  <1>3. QED BY <1>1, <1>2, UploadInvariant, ParentsInvariant, PTL DEF Spec

\* As long as requests do not overlap, complete() leaves every mission with the
\* count and the bytes of its images and the project with every byte inserted:
\* the recount, the skipped unchanged columns and the delta agree.
THEOREM UploadSerialTotals == Spec => []SerialTotalsExact
  <1>1. SerialHold => SerialTotalsExact
    BY DEF SerialHold
  <1>2. QED BY <1>1, SerialInvariant, PTL
=============================================================================
