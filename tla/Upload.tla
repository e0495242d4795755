------------------------------- MODULE Upload -------------------------------
(***************************************************************************)
(* Image ingestion of one project: pre-signed URLs, the objects clients    *)
(* put, and the requests that complete an upload, edit or delete a         *)
(* mission, edit, archive or delete the project.                           *)
(*                                                                         *)
(* A request is one READ COMMITTED transaction.  What it writes is in      *)
(* `own' and `stored' until it commits, and locks what it wrote.  A save   *)
(* of an entity is two statements: a SELECT that finds out which columns   *)
(* of the entity, as it was read earlier, differ from the row, and an      *)
(* UPDATE of those, or an INSERT when the row is gone.                     *)
(***************************************************************************)
EXTENDS JobStatus, Functions

CONSTANTS
  Missions,     \* mission ids
  Project,      \* the id of their project
  Files,        \* storage keys of images with an accepted name and size
  MissionOf,    \* the mission under whose prefix a key lies
  NoFile,       \* "no file"
  Requests,     \* slots for requests that are open at the same time
  MaxSize,      \* objects are 1 .. MaxSize bytes
  MaxOpened,    \* bound: requests opened in a behaviour
  Verdicts,     \* mission statuses the workers write in this instance
  Faults        \* "rollback": requests may fail at any point

ASSUME UploadAssumption ==
  /\ IsFiniteSet(Files)
  /\ Project \notin Missions
  /\ NoFile \notin Files
  /\ MissionOf \in [Files -> Missions]
  /\ MaxSize \in Nat
  /\ MaxOpened \in Nat
  /\ Verdicts \subseteq {"PROCESSING", "COMPLETED", "FAILED"}

VARIABLES
  object,       \* the raw bucket: size of the object at each key, 0 if none
  granted,      \* keys for which a pre-signed URL was handed out
  row,          \* committed rows: the missions and the project
  image,        \* committed mission_images: recorded size per key, 0 if none
  request,      \* the open requests
  own,          \* rows written by each open request
  stored,       \* images written by each open request
  announced,    \* keys counted by an imagery.uploaded event
  opened,       \* requests opened so far
  metered,      \* history: bytes of all images ever inserted
  overlapped,   \* history: two requests were open at once
  resurrected   \* history: rows a stale save inserted again

vars == <<object, granted, row, image, request, own, stored, announced,
          opened, metered, overlapped, resurrected>>

Entities == Missions \cup {Project}
ProjectStatuses == {"DRAFT", "UPLOADING", "PROCESSING", "COMPLETED",
                    "FAILED", "ARCHIVED"}
Columns == {"status", "count", "bytes"}

\* The total size of a set of images, and what a byte counter may hold.
TotalSize(sizes, files) == SumFunction([f \in files |-> sizes[f]])
Bytes == Nat \cup {TotalSize(sizes, files) :
                     sizes \in [Files -> 0 .. MaxSize], files \in SUBSET Files}

Row == [status : MissionStatuses \cup ProjectStatuses \cup {"GONE", "NONE"},
        count : Nat, bytes : Bytes]
Nothing == [status |-> "NONE", count |-> 0, bytes |-> 0]
Gone == [status |-> "GONE", count |-> 0, bytes |-> 0]
NoImages == [f \in Files |-> 0]
NoRows == [e \in Entities |-> Nothing]

\* A request: where it stands (`pc', and `next' after a save), the row it is
\* saving (`target'), the entity in memory and the columns to write; of a
\* completion the files to do, the object and the image found for one, the bytes
\* ingested, the bytes inserted (a history) and the images in the totals.
Idle == [pc |-> "idle", next |-> "idle", target |-> Project,
         entity |-> Nothing, dirty |-> {}, todo |-> {}, file |-> NoFile,
         size |-> 0, found |-> 0, added |-> 0, booked |-> 0, seen |-> {}]

Steps == {"idle", "ingest", "store", "select", "update", "transition",
          "meter", "publish", "commit"}
RequestRecord ==
  [pc : Steps, next : Steps, target : Entities, entity : Row,
   dirty : SUBSET (Columns \cup {"other", "row"}), todo : SUBSET Files,
   file : Files \cup {NoFile}, size : 0 .. MaxSize, found : 0 .. MaxSize,
   added : Nat, booked : Nat, seen : SUBSET Files]

UploadTypeOK ==
  /\ object \in [Files -> 0 .. MaxSize]
  /\ granted \subseteq Files
  /\ row \in [Entities -> Row]
  /\ image \in [Files -> 0 .. MaxSize]
  /\ request \in [Requests -> RequestRecord]
  /\ own \in [Requests -> [Entities -> Row]]
  /\ stored \in [Requests -> [Files -> 0 .. MaxSize]]
  /\ announced \subseteq Files
  /\ opened \in 0 .. MaxOpened
  /\ metered \in Nat
  /\ overlapped \in BOOLEAN
  /\ resurrected \subseteq Entities

\* Missions and the project as MissionService.create and ProjectService.create
\* leave them.
Init ==
  /\ object = NoImages
  /\ granted = {}
  /\ row = [e \in Entities |->
              [status |-> IF e = Project THEN "DRAFT" ELSE "CREATED",
               count |-> 0, bytes |-> 0]]
  /\ image = NoImages
  /\ request = [r \in Requests |-> Idle]
  /\ own = [r \in Requests |-> NoRows]
  /\ stored = [r \in Requests |-> NoImages]
  /\ announced = {}
  /\ opened = 0
  /\ metered = 0
  /\ overlapped = FALSE
  /\ resurrected = {}

-----------------------------------------------------------------------------
FilesOf(m) == {f \in Files : MissionOf[f] = m}
Exists(e) == row[e].status # "GONE"

\* What a transaction sees: its own writes over the committed ones.
RowSeen(r, e) == IF own[r][e] = Nothing THEN row[e] ELSE own[r][e]
ImageSeen(r, f) == IF stored[r][f] = 0 THEN image[f] ELSE stored[r][f]
ImagesSeen(r, m) == {f \in FilesOf(m) : ImageSeen(r, f) # 0}

\* A row or a key written by another open transaction makes a writer wait.
RowLocked(r, e) == \E q \in Requests \ {r} : own[q][e] # Nothing
KeyLocked(r, f) == \E q \in Requests \ {r} : stored[q][f] # 0

\* PROJECT_TRANSITIONS, and assertProjectTransition of a row that was found.
ProjectTransitions ==
  [DRAFT      |-> {"UPLOADING", "ARCHIVED"},
   UPLOADING  |-> {"PROCESSING", "DRAFT", "FAILED", "ARCHIVED"},
   PROCESSING |-> {"COMPLETED", "FAILED", "ARCHIVED"},
   COMPLETED  |-> {"PROCESSING", "ARCHIVED"},
   FAILED     |-> {"UPLOADING", "PROCESSING", "ARCHIVED"},
   ARCHIVED   |-> {}]

LegalProjectTransition(from, to) ==
  from = to \/ (from \in ProjectStatuses /\ to \in ProjectTransitions[from])

OnlyRequest == UNCHANGED <<object, granted, row, image, own, stored, announced,
                           opened, metered, overlapped, resurrected>>
OnlyBucket == UNCHANGED <<row, image, request, own, stored, announced,
                          opened, metered, overlapped, resurrected>>
OnlyRows == UNCHANGED <<object, granted, own, stored, announced, metered>>

\* The interceptor opens the transaction of a request and, when the handler
\* throws, rolls it back.
Admit(r) ==
  /\ request[r].pc = "idle"
  /\ opened < MaxOpened
  /\ opened' = opened + 1
  /\ overlapped' = (overlapped \/ \E q \in Requests \ {r} : request[q].pc # "idle")

Begin(r, new) ==
  /\ Admit(r)
  /\ request' = [request EXCEPT ![r] = new]
  /\ UNCHANGED <<object, granted, row, image, own, stored, announced, metered,
                 resurrected>>

Release(r) ==
  /\ request' = [request EXCEPT ![r] = Idle]
  /\ own' = [own EXCEPT ![r] = NoRows]
  /\ stored' = [stored EXCEPT ![r] = NoImages]

Abort(r) ==
  /\ Release(r)
  /\ UNCHANGED <<object, granted, row, image, announced, opened, metered,
                 overlapped, resurrected>>

-----------------------------------------------------------------------------
(* The bucket.                                                             *)

\* UploadService.initiate, for one accepted file.
Initiate(f) ==
  /\ Exists(MissionOf[f])
  /\ row[Project].status # "ARCHIVED"
  /\ f \notin granted
  /\ granted' = granted \cup {f}
  /\ UNCHANGED object /\ OnlyBucket

\* A client puts an object through its URL; nothing checks the size.  (That
\* URLs expire only makes fewer puts possible.)
Put(f, size) ==
  /\ f \in granted
  /\ object' = [object EXCEPT ![f] = size]
  /\ UNCHANGED granted /\ OnlyBucket

-----------------------------------------------------------------------------
(* Completing an upload.                                                   *)

\* Mutant: only the upload that leaves DRAFT is metered.
Complete_DraftOnly(r, m, files) ==
  /\ Exists(m)
  /\ Begin(r, [Idle EXCEPT !.pc = "ingest", !.target = m, !.entity = row[m],
                           !.todo = files,
                           !.next = IF row[Project].status = "DRAFT"
                                    THEN "transition" ELSE "publish"])

\* UploadService.complete reads the mission, which it will save, and the
\* project, whose status as read here decides whether it will be moved to
\* UPLOADING after the mission is saved.
Complete(r, m, files) ==
  /\ Exists(m)
  /\ Begin(r, [Idle EXCEPT !.pc = "ingest", !.target = m, !.entity = row[m],
                           !.todo = files,
                           !.next = IF row[Project].status = "DRAFT"
                                    THEN "transition" ELSE "meter"])

\* The next file: its object is asked for, and the row with its key.  A file
\* without an object is skipped.
Look(r, f) ==
  /\ request[r].pc = "ingest"
  /\ f \in request[r].todo
  /\ request' =
       [request EXCEPT
          ![r] = IF object[f] = 0 THEN [request[r] EXCEPT !.todo = @ \ {f}]
                 ELSE [request[r] EXCEPT !.todo = @ \ {f}, !.pc = "store", !.file = f,
                                         !.size = object[f], !.found = image[f]]]
  /\ OnlyRequest

NextFile(q) == [q EXCEPT !.pc = "ingest", !.file = NoFile, !.size = 0, !.found = 0]

\* The image is saved: updated when its row was found, inserted when not.
\* Only an insert adds to the bytes ingested.
Stored(r, added, inserted) ==
  /\ stored' = [stored EXCEPT ![r][request[r].file] = request[r].size]
  /\ request' = [request EXCEPT
                   ![r] = [NextFile(request[r]) EXCEPT !.added = @ + added,
                                                       !.booked = @ + inserted]]
  /\ UNCHANGED <<object, granted, row, image, own, announced, opened,
                 metered, overlapped, resurrected>>

\* Mutant: an image that is uploaded again is metered again.
StoreKnown_Metered(r) ==
  /\ request[r].pc = "store"
  /\ request[r].found # 0
  /\ image[request[r].file] # 0
  /\ ~KeyLocked(r, request[r].file)
  /\ Stored(r, request[r].size, 0)

StoreKnown(r) ==
  /\ request[r].pc = "store"
  /\ request[r].found # 0
  /\ image[request[r].file] # 0
  /\ ~KeyLocked(r, request[r].file)
  /\ Stored(r, 0, 0)

StoreNew(r) ==
  /\ request[r].pc = "store"
  /\ image[request[r].file] = 0
  /\ ~KeyLocked(r, request[r].file)
  /\ Exists(request[r].target)
  /\ Stored(r, IF request[r].found # 0 THEN 0 ELSE request[r].size,
            request[r].size)

\* The save of a known image writes nothing: no column differs, or its row is
\* gone by the time of the UPDATE.
StoreNothing(r) ==
  /\ request[r].pc = "store"
  /\ request[r].found # 0
  /\ image[request[r].file] \in {0, request[r].size}
  /\ request' = [request EXCEPT ![r] = NextFile(@)]
  /\ OnlyRequest

\* The insert violates the unique key, or its foreign key.
StoreRefused(r) ==
  /\ request[r].pc = "store"
  /\ ~KeyLocked(r, request[r].file)
  /\ IF image[request[r].file] # 0 THEN request[r].found = 0
     ELSE ~Exists(request[r].target)
  /\ Abort(r)

\* Mutants: the files are added to the old total; the rows are read outside the
\* transaction.
Recount_Adds(r) ==
  LET images == ImagesSeen(r, request[r].target) IN
  /\ request[r].pc = "ingest"
  /\ request[r].todo = {}
  /\ LegalMissionTransition(request[r].entity.status, "READY")
  /\ request' =
       [request EXCEPT
          ![r] = [@ EXCEPT !.pc = "select", !.seen = images,
                           !.entity = [status |-> "READY", bytes |-> 0,
                                       count |-> @.count + Cardinality(images)]]]
  /\ OnlyRequest

Recount_Outside(r) ==
  LET images == {f \in FilesOf(request[r].target) : image[f] # 0} IN
  /\ request[r].pc = "ingest"
  /\ request[r].todo = {}
  /\ LegalMissionTransition(request[r].entity.status, "READY")
  /\ request' =
       [request EXCEPT
          ![r] = [@ EXCEPT !.pc = "select", !.seen = images,
                           !.entity = [status |-> "READY", bytes |-> 0,
                                       count |-> Cardinality(images)]]]
  /\ OnlyRequest

\* The totals are taken from the rows, and the mission goes to READY, which
\* must be legal from the status it had when it was read.
Recount(r) ==
  LET images == ImagesSeen(r, request[r].target) IN
  /\ request[r].pc = "ingest"
  /\ request[r].todo = {}
  /\ LegalMissionTransition(request[r].entity.status, "READY")
  /\ request' =
       [request EXCEPT
          ![r] = [@ EXCEPT
                    !.pc = "select", !.seen = images,
                    !.entity =
                      [status |-> "READY", count |-> Cardinality(images),
                       bytes |-> TotalSize([f \in Files |-> ImageSeen(r, f)],
                                           images)]]]
  /\ OnlyRequest

RecountRefused(r) ==
  /\ request[r].pc = "ingest"
  /\ request[r].todo = {}
  /\ ~LegalMissionTransition(request[r].entity.status, "READY")
  /\ Abort(r)

-----------------------------------------------------------------------------
(* Saving an entity.                                                       *)

SaveDone(q) == [q EXCEPT !.pc = q.next, !.next = "idle", !.target = Project,
                         !.entity = Nothing, !.dirty = {}]

\* The SELECT of a save, which knows of dirty columns that are not modelled.
\* With no column to write there is no UPDATE.
SaveSelect(r) ==
  LET e == request[r].entity
      seen == RowSeen(r, request[r].target)
      dirty == IF seen.status = "GONE" THEN {"row"}
               ELSE request[r].dirty \cup {c \in Columns : e[c] # seen[c]}
  IN
  /\ request[r].pc = "select"
  /\ request' = [request EXCEPT
                   ![r] = IF dirty = {} THEN SaveDone(@)
                          ELSE [@ EXCEPT !.dirty = dirty, !.pc = "update"]]
  /\ OnlyRequest

Saved(r, saved) ==
  /\ own' = [own EXCEPT ![r][request[r].target] = saved]
  /\ request' = [request EXCEPT ![r] = SaveDone(@)]
  /\ UNCHANGED <<object, granted, row, image, stored, announced, opened,
                 metered, overlapped, resurrected>>

\* The dirty columns get the entity's values, the others stay; an update of a
\* row that is gone by now changes nothing.
SaveUpdate(r) ==
  LET e == request[r].entity
      seen == RowSeen(r, request[r].target)
      Value(c) == IF c \in request[r].dirty THEN e[c] ELSE seen[c]
  IN
  /\ request[r].pc = "update"
  /\ "row" \notin request[r].dirty
  /\ ~RowLocked(r, request[r].target)
  /\ Saved(r, IF seen.status = "GONE" THEN own[r][request[r].target]
              ELSE [status |-> Value("status"), count |-> Value("count"),
                    bytes |-> Value("bytes")])

\* Mutant: no foreign key is checked.
SaveInsert_NoForeignKey(r) ==
  /\ request[r].pc = "update"
  /\ "row" \in request[r].dirty
  /\ ~RowLocked(r, request[r].target)
  /\ ~Exists(request[r].target)
  /\ Saved(r, request[r].entity)

\* The row was gone: the save inserts it, a mission only with its project.
SaveInsert(r) ==
  LET t == request[r].target IN
  /\ request[r].pc = "update"
  /\ "row" \in request[r].dirty
  /\ ~RowLocked(r, t)
  /\ ~Exists(t)
  /\ t # Project => Exists(Project)
  /\ Saved(r, request[r].entity)

SaveRefused(r) ==
  LET t == request[r].target IN
  /\ request[r].pc = "update"
  /\ "row" \in request[r].dirty
  /\ ~RowLocked(r, t)
  /\ Exists(t) \/ (t # Project /\ ~Exists(Project))
  /\ Abort(r)

-----------------------------------------------------------------------------
(* The project's status and meter, the event and the commit.               *)

\* ProjectService.transitionStatus(UPLOADING), when the project read at the
\* start was a draft.
Transition(r) ==
  LET project == RowSeen(r, Project) IN
  /\ request[r].pc = "transition"
  /\ LegalProjectTransition(project.status, "UPLOADING")
  /\ request' =
       [request EXCEPT
          ![r] = [@ EXCEPT !.pc = "select", !.next = "meter", !.dirty = {"other"},
                           !.entity = [project EXCEPT !.status = "UPLOADING"]]]
  /\ OnlyRequest

TransitionRefused(r) ==
  LET project == RowSeen(r, Project) IN
  /\ request[r].pc = "transition"
  /\ ~LegalProjectTransition(project.status, "UPLOADING")
  /\ Abort(r)

\* MeteringService.applyProjectStorageDelta, when bytes were ingested: nothing
\* if the project is gone.
Meter(r) ==
  LET project == RowSeen(r, Project)
      added == request[r].added
  IN
  /\ request[r].pc = "meter"
  /\ request' =
       [request EXCEPT
          ![r] = IF added = 0 \/ project.status = "GONE"
                 THEN [@ EXCEPT !.pc = "publish"]
                 ELSE [@ EXCEPT !.pc = "select", !.next = "publish",
                                !.entity = [project EXCEPT !.bytes = @ + added]]]
  /\ OnlyRequest

\* imagery.uploaded, with the totals of the recount, before the commit.
Publish(r) ==
  /\ request[r].pc = "publish"
  /\ announced' = announced \cup request[r].seen
  /\ request' = [request EXCEPT ![r].pc = "commit"]
  /\ UNCHANGED <<object, granted, row, image, own, stored, opened, metered,
                 overlapped, resurrected>>

Commit(r) ==
  /\ request[r].pc = "commit"
  /\ row' = [e \in Entities |-> RowSeen(r, e)]
  /\ image' = [f \in Files |-> ImageSeen(r, f)]
  /\ metered' = metered + request[r].booked
  /\ resurrected' = resurrected \cup
       {e \in Entities : own[r][e] # Nothing /\ ~Exists(e)}
  /\ Release(r)
  /\ UNCHANGED <<object, granted, announced, opened, overlapped>>

\* An error of the database, the object store or the broker.
Fail(r) ==
  /\ "rollback" \in Faults
  /\ request[r].pc # "idle"
  /\ Abort(r)

\* PostgreSQL breaks a cycle of waiting transactions by aborting one of them.
WaitsFor(r, q) ==
  \/ /\ request[r].pc = "store"
     /\ stored[q][request[r].file] # 0
  \/ /\ request[r].pc = "update"
     /\ own[q][request[r].target] # Nothing

DeadlockVictim(r) ==
  /\ \E waiting \in SUBSET Requests :
       /\ r \in waiting
       /\ \A p \in waiting : \E q \in waiting \ {p} : WaitsFor(p, q)
  /\ Abort(r)

-----------------------------------------------------------------------------
(* The other requests on missions and the project, and the workers.        *)

\* MissionService.update and ProjectService.update change columns that are
\* not modelled, and save the whole entity they read.
EditMission(r, m) ==
  /\ Exists(m)
  /\ Begin(r, [Idle EXCEPT !.pc = "select", !.next = "commit", !.target = m,
                           !.entity = row[m], !.dirty = {"other"}])

EditProject(r) ==
  /\ row[Project].status \notin {"GONE", "ARCHIVED"}
  /\ Begin(r, [Idle EXCEPT !.pc = "select", !.next = "commit",
                           !.entity = row[Project], !.dirty = {"other"}])

\* ProjectService.archive.
Archive(r) ==
  /\ Exists(Project)
  /\ LegalProjectTransition(row[Project].status, "ARCHIVED")
  /\ Begin(r, [Idle EXCEPT !.pc = "select", !.next = "commit",
                           !.entity = [row[Project] EXCEPT !.status = "ARCHIVED"],
                           !.dirty = {"other"}])

\* MissionService.remove and ProjectService.remove cascade, and wait for every
\* transaction that has written what they delete.
RemoveMission(r, m) ==
  /\ Admit(r)
  /\ Exists(m)
  /\ \A q \in Requests : /\ own[q][m] = Nothing
                         /\ \A f \in FilesOf(m) : stored[q][f] = 0
  /\ row' = [row EXCEPT ![m] = Gone]
  /\ image' = [f \in Files |-> IF MissionOf[f] = m THEN 0 ELSE image[f]]
  /\ UNCHANGED <<request, resurrected>> /\ OnlyRows

RemoveProject(r) ==
  /\ Admit(r)
  /\ Exists(Project)
  /\ \A q \in Requests : own[q] = NoRows /\ stored[q] = NoImages
  /\ row' = [e \in Entities |-> Gone]
  /\ image' = NoImages
  /\ UNCHANGED <<request, resurrected>> /\ OnlyRows

\* update_mission_status of the drone service, committed at once.
WorkerWrites(m, status) ==
  /\ Exists(m)
  /\ \A q \in Requests : own[q][m] = Nothing
  /\ row' = [row EXCEPT ![m].status = status]
  /\ UNCHANGED <<image, request, opened, overlapped, resurrected>> /\ OnlyRows

-----------------------------------------------------------------------------
CompleteStep(r) ==
  \/ \E f \in Files : Look(r, f)
  \/ StoreKnown(r) \/ StoreNew(r) \/ StoreNothing(r) \/ StoreRefused(r)
  \/ Recount(r) \/ RecountRefused(r)
  \/ Transition(r) \/ TransitionRefused(r)
  \/ Meter(r)
  \/ Publish(r)

SaveStep(r) ==
  \/ SaveSelect(r) \/ SaveUpdate(r) \/ SaveInsert(r) \/ SaveRefused(r)

EndStep(r) == Commit(r) \/ Fail(r) \/ DeadlockVictim(r)

OpenStep(r) ==
  \/ \E m \in Missions : \E files \in SUBSET FilesOf(m) \ {{}} :
       Complete(r, m, files)
  \/ \E m \in Missions : EditMission(r, m) \/ RemoveMission(r, m)
  \/ EditProject(r) \/ Archive(r) \/ RemoveProject(r)

BucketStep ==
  \E f \in Files :
    Initiate(f) \/ \E size \in 1 .. MaxSize : Put(f, size)

WorkerStep ==
  \E m \in Missions, status \in Verdicts : WorkerWrites(m, status)

Next ==
  \/ \E r \in Requests : OpenStep(r) \/ CompleteStep(r) \/ SaveStep(r) \/ EndStep(r)
  \/ BucketStep
  \/ WorkerStep

Spec == Init /\ [][Next]_vars

-----------------------------------------------------------------------------
(* Properties.                                                             *)

\* Foreign keys: an image has its mission and a mission its project, whatever
\* stale saves insert again and deletions take away.
RowsHaveParents ==
  /\ \A f \in Files : image[f] # 0 => Exists(MissionOf[f])
  /\ \A m \in Missions : Exists(m) => Exists(Project)

\* Completions lose each other's updates of the project's meter, but the meter
\* is never above the bytes of all images ever inserted.
MeterNeverOvercounts == row[Project].bytes <= metered

\* A mission's file count never exceeds its images, unless a stale save
\* inserted the mission again.
CountsAreImages ==
  \A m \in Missions \ resurrected :
    row[m].count <= Cardinality({f \in FilesOf(m) : image[f] # 0})

\* No image is recorded that no imagery.uploaded event has counted.
IngestedIsAnnounced == \A f \in Files : image[f] # 0 => f \in announced

\* As long as requests do not overlap, the totals are exact: a mission's are
\* those of its images, and the project's meter is what was ever inserted.
SerialTotalsExact ==
  ~overlapped =>
    /\ \A m \in Missions :
         LET images == {f \in FilesOf(m) : image[f] # 0} IN
         Exists(m) => /\ row[m].count = Cardinality(images)
                      /\ row[m].bytes = TotalSize(image, images)
    /\ Exists(Project) => row[Project].bytes = metered

=============================================================================
