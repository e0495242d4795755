# TerraScan: formal models, model checking and proofs

TerraScan is a multi-tenant geospatial platform: organisations upload drone imagery
into missions, launch processing jobs on it, watch the jobs progress and look at the
outputs in a map viewer. This directory holds TLA+ models of the parts of it where
processes, brokers, transactions and browser tabs interleave, TLC configurations that
check them on small instances, and proofs, checked by TLAPS, of the properties that
matter most.

Paths are relative to `src/map2/platform/apps/` unless they say otherwise. The hazards,
each at its line and with the properties about it, and the lines that each definition
models are in `PROJECT.json`.

## 1. The system

| Component | Source | State it keeps | Operations | Talks to |
|---|---|---|---|---|
| Job API | `core-service/src/job/` | `jobs` rows | create (quota check), cancel, delete, list, get | PostgreSQL, RabbitMQ (`job.submitted`) |
| Request transaction | `core-service/src/tenant/tenant-context.interceptor.ts` | one READ COMMITTED transaction per request | refuse suspended or closed organisations, begin, commit, roll back | every handler |
| Missions and projects | `core-service/src/project/` | `missions`, `projects` rows and their status machines | create, update, delete, transition | job API, uploads, drone worker (writes mission status itself) |
| Upload and metering | `core-service/src/upload/`, `project/metering.service.ts` | `mission_images`, mission totals, `projects.storage_bytes` | initiate, complete | MinIO, RabbitMQ (`imagery.uploaded`) |
| Drone consumer | `drone-service/app/messaging/consumer.py` | RabbitMQ queue `drone-service.events` | dispatch a submitted job to Celery, ignore the rest | RabbitMQ, Celery |
| Drone worker | `drone-service/app/tasks/`, `db.py`, `nodeodm/` | the run in progress; writes `jobs`, `missions`, `processing_outputs`, the object store | photogrammetry, ground-control photogrammetry, retry, failure path | PostgreSQL, NodeODM, MinIO, Redis progress channel, RabbitMQ (`job.completed`, `job.failed`) |
| Ground-control correction | `drone-service/app/gcp_correction/`, `host-shell/.../job-launcher.tsx` | none; files in, files out | parse, triangulate, fit, warp | the drone worker |
| Satellite service | `satellite-service/app/` | the run in progress | spectral analysis, change detection; scene search | as the drone worker, without NodeODM and without retries |
| Sessions and login | `core-service/src/auth/` | sessions in Redis; failed-login counter, lock and second factor in `users` | register, sign in, MFA, refresh, sign out, list, revoke | Redis, PostgreSQL |
| Organisations, members, roles | `core-service/src/tenant/`, `rbac/` | organisations, users, invitations, roles, cached permissions | invite, accept, remove, update, suspend, reactivate, close | Redis, PostgreSQL |
| API keys and public API | `core-service/src/apikey/`, `public-api/` | keys, per-minute counters | create, list, revoke, authenticate, limit | Redis, PostgreSQL |
| Progress gateway | `core-service/src/job/job.gateway.ts` | socket rooms | authenticate, subscribe, relay | Redis pub/sub, browsers |
| Web application | `host-shell/src/` | cookies, upload cache, tables, map layers | sign in and out, register, show pages, make projects and missions, upload, launch, monitor, view, manage keys | the API (through its proxy) and the gateway |
| Audit, metrics, health | `core-service/src/audit/`, `metrics/`, `health/` | append-only log, counters | record, report | every handler |
| Marketing site, infrastructure | `marketing-site/`, `../infra/` | none | - | - |

What makes each part correct, and what makes that hard:

- **Jobs.** A row exists only with its mission and outputs only with their job; an
  organisation stays within its concurrent-job limit; every job that looks active is
  still going to be settled; what the services announce agrees with the rows. Hard
  because the API counts and then inserts without a lock, publishes before it commits
  and saves entities it read earlier, while workers write with unconditional
  statements that autocommit one by one.
- **Delivery.** A submission is to be run through RabbitMQ and a Celery queue in Redis,
  both of which may deliver again; main worker processes die and their tasks come
  back, pool children die or time out and theirs do not, and the drone service retries
  while NodeODM is down.
- **Uploads.** Totals, the storage meter and the browser's cache of what was uploaded
  agree with the images recorded. Hard because completion works on snapshots read
  before the object store is asked, and because tabs share one cache.
- **Sessions and accounts.** A session that has ended is usable again only by a refresh
  that was under way, wrong passwords are bounded, who is removed has no role, a
  registration is whole. Hard because Redis commands and `repo.save` calls of several
  requests fall between each other, which is also why the requirements behind these
  ask for more than the code keeps (see the observations in section 4).
- **Access.** Rights, organisation status and rate limits are read, cached or counted
  some steps before they are used.
- **Web.** What a page says was so, and a form leaves nothing half made behind. Answers,
  renders, effects and redirects come in any order; a page is rendered from several
  reads, each a transaction of its own, between which the rows it is about change.

## 2. Plan

In the order of importance to the system; all of it is done but the last.

1. `JobStatus`, `JobApi`: vocabulary, the job side of the core service, and the steps
   any service may take on the shared tables.
2. `DroneService` on top of `JobApi`, with its proofs: typing, referential integrity,
   the quota bound, the refinement `DroneService => JobApi`, delivery.
3. `Upload` over missions, projects and metering.
4. `SatelliteService` on top of `JobApi`, with `Analytics`, the arithmetic it runs.
5. `SessionLedger`, the abstract promise of the session store; `Sessions`, the Redis
   commands that implement it; `WebSession`, the browser's side composed with them.
6. `Accounts`, `Roles`, `Registration` and `Access`.
7. `Progress`, `Viewer`, `MissionPage`, `GroundControl` and `Lists`: what the web
   application does with answers that come late.
8. Proofs of every safety invariant and every action property of the runs.
9. `Pages`: the pages as reads of rows that come and go, and the forms that make rows.
10. *(open)* Scene search of the satellite service, the settings and members forms.

## 3. The modules

How they are put together: `JobApi` extends `JobStatus`; `DroneService` and
`SatelliteService` extend `JobApi` (and `Analytics`) and are each shown to implement
`JobApi!ApiSpec`; `Sessions` implements `SessionLedger`; `WebSession` extends
`Sessions`; `Registration` extends `Roles`. `MCAccounts`, `MCMissionPage`, `MCAccess`
and `MCSessions` put two specifications that share no state side by side in one
instance, one of which stays in its initial state; the remaining `MC` modules are plain
instances.

### JobStatus, JobApi

`JobStatus` holds the job statuses with the active and terminal ones of
`job.service.ts`, job types and who consumes them, the mission transitions of
`project-status.ts`, and the table from engine progress to stage. `JobApi`:

| Variable | Stands for |
|---|---|
| `status` | the committed `jobs` rows; `UNUSED` and `GONE` are ids without a row, before and after |
| `outputs` | the committed `processing_outputs` rows, counted per job and asset |
| `mission` | the committed mission status, `GONE` once deleted |
| `request` | open requests: quota counted, submission published, or a row read by a cancellation |
| `submitted`, `copies` | `job.submitted` messages in the service's queue; how many deliveries of a submission there have been |
| `resurrected`, `revived` | history: rows a stale save inserted again; terminal rows a service made active |

A request runs in one READ COMMITTED transaction, but its messages leave at once.
`JobService.create` is therefore `CreateCheck` (mission read, active jobs counted),
`CreatePublish` (insert, not yet visible, and publish), then `CreateCommit` or
`CreateRollback`; `CreateAbort` is the rejected publish or the violated foreign key.
`JobService.cancel` is `CancelRead` and `CancelSave`, because the save works on the entity
as it was read: TypeORM updates the row whatever its status is by then and inserts it
when it is gone. `JobService.remove` is one action: its two statements become visible
together. `MissionService.remove` cascades. `ServiceNext` says what services may do to the
same tables and queue: one unconditional `UPDATE` of a job or a mission, one `INSERT` of
an output (which needs the job row), one message consumed or delivered again. `ApiSpec`
is the API with *any* such services.

### DroneService

Adds `tasks` (the Celery queue), `worker` (what each process is doing), `engine` (the
NodeODM task each worker polls), `uploads` (writes of each object), `announced` (terminal
events) and the histories `delivered`, `dropped`, `crashes`.

- *Consumer*: `Dispatch`, `Ignore`, `DispatchFails` (`process(requeue=False)` drops the
  message when `.delay()` raises), `DispatchTwice` (dies before acknowledging).
- *Run*: one action per statement or external call of `_run`, `_ingest_outputs` and
  `_fail`, in their order, for both tasks; where they differ (`StageOf`, `Download`, and
  what is caught) the ground-control variant is distinguished by `IsGcp`.
- *What goes wrong*: `EngineUnavailable` (the only retried error) publishes the retry, and
  `AcknowledgeRetry` the acknowledgement of the delivery it replaces, which comes later;
  `RaiseUncaught` and `RaiseCaught` (any other error: photogrammetry lets it end the task,
  ground control marks the job FAILED, even after COMPLETE), `RaiseBeforeLoad`;
  `ChildKilled`, `Crash`, `VisibilityTimeout` (Redis hands the task out again).
- *Deaths*: the workers are prefork pools (`infra/docker-compose.yml:289` and `:367`,
  `--concurrency=2`) with late acknowledgement. Who loses a child to the time limit, a
  signal or the memory killer is the main process, and as `task_reject_on_worker_lost` is
  not set, it acknowledges the child's delivery: `ChildKilled`. Only when the main process
  dies itself, or its container, is the delivery left to Redis, which hands it out
  again: `Crash`. When a retry was published by then, both are in the queue.

`dropped` records every way a delivery ends without a verdict, so that `NoSilentLoss` can
say that there is no other.

### Analytics, SatelliteService

`Analytics` has the index registry, the eight indices as exact fractions over integer
bands, and the change mask with its summary. Bands are read without a mask, so samples
may be negative (reflectances, a nodata value). `SatelliteService` has the consumer, the
Celery queue, the deaths of the drone service, and one action per statement of
`_run_spectral` and `_run_change`; `Analyse` picks a config and its scenes and either
computes the result with `Analytics` or, when a check of the code fails, goes to
`_fail`. The catch-all (`RaiseCaught`) also turns an error after COMPLETE into FAILED. A
run makes one output, so `Assets = 1`.

### Upload

One project with its missions, the images recorded for them, and the raw bucket.

| Variable | Stands for |
|---|---|
| `object`, `granted` | the bucket: size of the object at each key; keys a pre-signed URL was handed out for |
| `row` | committed rows of the missions and the project: status, `file_count`, and `raw_size_bytes` or `storage_bytes` |
| `image` | committed `mission_images`: recorded size per storage key |
| `request` | open requests: the next statement, the entity in memory, the columns to write, the files still to do |
| `own`, `stored` | rows and images an open transaction has written, which are also the locks it holds |
| `announced` | keys counted by an `imagery.uploaded` event |
| `metered`, `overlapped`, `resurrected` | history: bytes ever inserted; two requests were open at once; rows a stale save inserted again |

`UploadService.complete` is `Complete` (mission and project are read), for each file
`Look` (object and image row) and one of `StoreKnown`, `StoreNew`, `StoreNothing`,
`StoreRefused`; `Recount` or `RecountRefused`; the save of the mission; `Transition` and
a save when the project was a draft; `Meter` and a save when bytes were inserted;
`Publish`; `Commit`. `repo.save(entity)` is `SaveSelect` (which columns differ from the
row as it is now) and `SaveUpdate` (writes those from the entity) or `SaveInsert` (the
row is gone). `EditMission`, `EditProject` and `Archive` go through the same save. What
another open transaction has written makes a writer wait (`RowLocked`, `KeyLocked`);
unique key, foreign keys and deadlocks abort (`StoreRefused`, `SaveRefused`,
`DeadlockVictim`), and `Fail` is any other error. `WorkerWrites` is the drone service's
unconditional update of a mission.

### SessionLedger, Sessions, WebSession

`SessionLedger` says when a session may be open: it is opened once, and once ended only
an exchange *admitted while it was open* opens it again. `Sessions` has the Redis keys
`session:<id>` (`store`: token id and time to live) and `user-sessions:<user>`
(`index`), the newest token id made (`last`), whose session it is (`owner`), who was
given tokens (`handed`), `request` and the history `ended`. Sign-in is SET, SADD, EXPIRE
and the answer; refresh is read, user, read again, SET with KEEPTTL, answer; sign-out
and the revoke button are check, lookup, DEL, SREM; the list is SMEMBERS, a GET each,
SREM of what was not found. Each is an action; `Crash` stops the process between any
two, `Tick` lets keys expire. `LedgerSpec` maps `phase` to whether the key is there and
`admitted` to the requests between their check and their write.

`WebSession` adds the browser: `cookie` (whose session, how long each cookie lives),
`page` (form, application, waiting, being sent to one, or the browser's error page),
`hops` (how many redirects a tab has followed), `tab` (who waits for a request).
`AtLogin` is the middleware, `AtApp` middleware and layout, `VisitRoot` the page at `/`,
`Visit` the user, the rest the proxy's handling of sign-in and sign-out. A page that is
loaded counts its redirects and ends in the error page after `MaxRedirects`; a
navigation of the application's router (`Push`: a link, or `router.push` after signing
in or out) is not a page load, and its redirects are `Routed` without a count. Other
clients use the same sessions.

### Accounts, Roles, Registration

`Accounts`: the row of each invited member (`row`), whether the role is assigned
(`granted`), who the audit log names (`trail`), the invitation in Redis, open requests and
the clock. Every writer reads the whole entity, works, and saves it with the two-step
save described under `Upload`; that is where attempts, locks and removals meet.
`Remove` fails while an audit entry holds the actor, and takes role assignments along.

`Roles` is the seed's permission catalogue and the ten system roles. `Registration`: the
form (`visit`) with its fields, the DTO's validation, `CheckEmail` and `UniqueSlug` before
the transaction, then `InsertOrganisation`, `InsertOwner`, `GrantOwner`, `Commit` and
`Welcome`, which creates the session. An insert waits for a transaction that holds its
key and fails when that one has committed; `Abort` takes everything back.

### Access

Variables: `organisation` (its status), `assigned`, `revoked`, the Redis entries `cache`
and `counter`, `now`, `request`, and the histories `trusted`, `passed`, `late`,
`inFlight`. A member's request is `Ask` (hit or miss), `ReadAssignments`, `StoreRights`,
`Begin` (the interceptor's look at the organisation), then its handler: `RemoveMember`
(which may fail, as `Accounts` has it in detail), `RevokeKey`, or `ReadOrganisation`,
`SaveSelect`, `SaveUpdate` for update, suspend, reactivate and close. A key's request is
`CallPublicApi`, `TakeMinute`, `Count`, `ExpireCounter`, `WithinLimit` or `RefuseCall`,
`Begin`, `AnswerCall`.

### Progress

`row`, `worker` (the line of its script and what it still owes the channel), `channel`
and `link` (Redis pub/sub), `socket` and `shown` per monitor. `Write` and `Publish` are
separate; `WriteFailed` is `_fail`, from any line of the run, after COMPLETE too;
`Relay` reaches only sockets that have joined; `Subscribe` reads the row and `Join`
joins afterwards and sends what was read; a subscription before the end of the handshake
is hung up on. Links break, connections drop, pages reload.

### Viewer

`visible`, `loaded`, `missing`, `loading` are the component's state; `live` the loads no
effect has cancelled; `blind` the clouds whose effect saw no place to infer a zone from;
`changed` and `render` separate what is queued from what an effect has seen. An effect
cancels its last run's loads and starts what its render saw as wanted.

### MissionPage, GroundControl

`MissionPage`: `tab` (each instance of the page: what its panel holds and where its run
is), `cache` (localStorage), `uploaded`, `ingested`. One action per step of `start`, the
page's loading, rendering and closing, and what the user may click at each point.

`GroundControl`: the launcher (`form`, `reads` awaited, `launched`) and the worker's second
parse. `ParseGroundTruth` and `ParseProjections` are the form's parsers, `ParseGcpFile` and
`ParseProjectionsFolder` the worker's; `SparseDirs` the search for the engine's model,
`Triangulated` the points with enough equations, `Used` what the fit gets. A file is a
function from line numbers to lines; a parser that drops lines restricts it
(`OnLines`), since only which lines are left matters to what is done with them.

### Lists

`jobRow` and `keyRow` on the server, `page` (the table as copied), `call` (calls under way)
and the history `risen` (jobs that were deleted, and made again by a save). Each operation
is the click, the server's step, and the answer, which edits the copy as it is by then.
A cancellation has two steps on the server, `CancelRead` and `CancelSave`, as in `JobApi`.

### Pages

What the other web modules take for granted: how a page of the application gets its
rows, and how a new project or mission comes to be.

| Variable | Stands for |
|---|---|
| `there`, `above` | the committed rows, and for each id the row itself and all that hold it by foreign key |
| `complete`, `slug` | jobs that are COMPLETE; the slugs of the workspaces |
| `view` | each instance of a page: what it is about, what it has asked, what was answered; and, of a job it has found COMPLETE, the outputs there were by then (`owed`) |
| `draft` | the form on it: which call is under way, what the calls before it made |
| `addresses` | ids a page has shown or a form was answered with: where a user can go |
| `kept` | history: the page's row was there since it was asked for |

The server components of `host-shell/src/app/app/` are the reads they make: those that a
`Promise.all` or an effect sends together (`first`), those that wait for the first
(`then`), and whether a failed read is caught. `Visit` follows a link, `OwnerFound` is
the look-up in front of a list of a service that throws 404, `ReadAnswered`, `NotFound`
and `ReadFails` are the answers, each from what is committed at that moment. The forms
are `SubmitProject` and `SubmitMission`, then `UniqueSlug`, `CreateWorkspace`,
`SendProject`, `CreateProject`, `CreateMission`, `Created` and `CallFails`, which
includes the lost answer to a call that was carried out. `OthersInsert`, `OthersRemove`
and `JobUpdated` are what the rest of the system does to the rows: `Upload`, `JobApi`
and the services have it in detail.

### Proof modules

Each extends the modules it is about and TLAPS: `JobApi_proofs`, `DroneService_proofs`,
`SatelliteService_proofs`, `Upload_proofs`, `Sessions_proofs` (with `WebSession`),
`Accounts_proofs` (with `Registration`), `Access_proofs` (with `Lists`) and
`HostShell_proofs` (`Viewer`, `MissionPage`, `GroundControl`, `Progress`, `Pages`).

## 4. What is checked

| Run | Distinct states | Instance | Shows |
|---|---|---|---|
| `drone_tasks` | 451,232 | one job of either drone type (`OneJobUsed`), 2 assets, 1 worker, 2 retries, 1 main process killed, every fault | `VerdictMatchesRow`, `CompleteHasItsOutputs`, `NoSilentLoss`, `OutputsPerDelivery`, `CompleteIsFinal`, `StageOrder`, the refinement `ApiSpec` |
| `drone_live` | 371,991 | 1 job without assets, 2 workers, 2 deliveries, 1 retry, 1 main process killed, pool children that die, broker faults, cancellations before them (`CancelledBefore`), fair | `SingleRunner`, `StartedJobsSettle` |
| `satellite` | 347,221 | 2 analytics jobs and one of a type nobody runs, 2 overlapping creations, limit 1, 2 deliveries, 1 main process killed, pool children that die, sound and broken configurations, negative samples | `QuotaBound`, `NoSilentLoss`, `VerdictHasItsLayer`, `ResultsAreSound`, the refinement `ApiSpec` |
| `upload` | 1,367,009 | 1 mission with 2 files of up to 2 bytes, 3 requests of which 2 overlap, a worker, failing requests | `RowsHaveParents`, `MeterNeverOvercounts`, `CountsAreImages`, `IngestedIsAnnounced`, `SerialTotalsExact` |
| `sessions` | 340,757 | 2 sessions of one user, 2 overlapping requests, expiry, crashes; beside it one page with its form, 2 workspaces, 2 slugs, one row of each other kind, 2 clicks | `NoExpiryMeansReopened`, `HandedOutIsListed`, the refinement `LedgerSpec`; `PagesAreTrue` |
| `web_session` | 261,893 | 2 tabs, 1 session, 2 requests of tabs or other clients, 1 redirect followed, fair | `SignedOutForGood`, `RedirectsEnd` |
| `accounts` | 2,099,449 | 1 member, 2 overlapping requests; beside it 2 visitors who register twice each | `GuessBound`, `LockHolds`, `RemovalHolds`, `RegistrationsAreWhole` |
| `access` | 1,481,995 | an owner, an administrator, a key, 2 requests; beside it tables of 2 jobs and 2 keys with 2 calls | `RightsExpire`, `RateHolds`, `OnlyBegunWrites`, `ListsKeepUp` |
| `progress` | 177,656 | 1 monitor, one poll, fair | `VerdictIsDue`, `SteadyMonitorSettles` |
| `viewer` | 90,686 | 3 rasters, 2 clouds, one of them projected, fair | `NothingLoadedTwice`, `CloudsHaveTheirZone`, `RastersSettle` |
| `mission_page` | 1,572,679 | 2 files, 2 instances of the page; beside it the launcher with 3 survey files, 3 selections, 38 engine outputs | `UploadsAreRemembered`, `CorrectionIsGrounded` |
| `claim_viewer` | - | as `viewer` | refutes `CloudsSettle` |

Every property of a passing run has a mutant in `PROJECT.json`: a plausible bug in one
mapped definition that TLC then finds. `ReferentialIntegrity` of `JobApi` is not in a run:
it is proved, for the API alone and for the composed system.

**A refuted claim.** `geo-viewer.tsx:11` says that point clouds are decoded client-side
and drawn. In `claim_viewer` a raster's preview arrives while a cloud is loading: the
cloud effect depends on the previews, its cleanup cancels the load, the `finally` block
of a cancelled load leaves the id in `loadingIds`, and the effect skips whatever is in
`loadingIds`. The cloud is then neither drawn nor reported until the page is reloaded.

**Observations.** What the models show besides, each next to the property that allows
for it:

- The job quota can be exceeded by the number of overlapping creations less one
  (`QuotaBound`; `job.service.ts:6` says the quota is enforced).
- `job.submitted` is published before the row is committed; a worker that is fast finds no
  row and drops the job, which then stays SUBMITTED. So do jobs of a type no service
  consumes, and the last NodeODM retry raises without anyone writing FAILED
  (`dropped` in `NoSilentLoss`; `srs.md` FR-JOB-001 and FR-JOB-006).
- A job whose pool child is lost stays RUNNING for ever: its delivery is acknowledged,
  and nobody resumes it, retries it or marks it (`ChildKilled`; `dropped` in
  `NoSilentLoss` and `StartedJobsSettle`). The same goes for the hard time limit.
  `srs.md:638` (FR-JOB-003: a service killed mid-job does not lose the job) and
  `srs.md:641` (FR-JOB-006: a killed worker's job is re-queued) promise otherwise; both
  workers run `celery worker --concurrency=2` (`infra/docker-compose.yml:289`, `:367`)
  with `task_acks_late` and without `task_reject_on_worker_lost` (`celery_app.py:20` of
  both services).
- A worker process that dies after `self.retry()` has published the retry and before its
  delivery is acknowledged leaves two deliveries of one dispatch, which may run at once:
  `Crash` counts the second as a redelivery, and `SingleRunner` allows for it.
- A deleted job comes back when a cancellation had read it (`resurrected`), and a
  worker whose job was deleted carries on and announces `job.completed`.
- A job can be COMPLETE without outputs: an asset the engine did not produce is skipped
  (`photogrammetry.py:197`, `gcp_photogrammetry.py:255`), be it every one. The monitor
  then says COMPLETE (`job-monitor.tsx:139`) beside an outputs panel that says there are
  none yet; so it does for a job that a stale cancellation brought back. `AnswerIsWhole`
  is therefore about the outputs there are, and `CompleteHasItsOutputs` about those of
  the run.
- The storage meter never goes down, and does not count a file put again with another
  size (`SerialTotalsExact`; `srs.md` FR-DATA-005 has it match after deletions).
- An edit that read a project before it was archived writes the old status over
  ARCHIVED, which `project-status.ts` has no transition out of; an edit of the
  organisation's settings that overlaps a suspension writes ACTIVE back, and
  reactivation also works on a CLOSED organisation.
- EVI and SAVI leave the range [-1, 1] that `indices.py` and `srs.md` give them: EVI
  without bound, SAVI up to one and a half, since reflectances may be above one
  (`ResultsAreSound` says so; that SAVI does was found when its proof failed). Samples
  are read without the raster's mask (`raster.py:24`): where a nodata value or a
  negative reflectance meets a positive sample, an index may leave its range without
  bound, and the minimum, maximum and mean of the layer with it. Only pixels whose
  samples have one sign keep it; `ResultsAreSound` claims no more. An error while
  `job.completed` is published makes a completed analytics job FAILED.
- A revoked session can be open again, without an expiry: a refresh reads it, it is revoked
  (or expires), and `rotate` writes it back with KEEPTTL, which a new key does not have
  (`NoExpiryMeansReopened`, `Exchange` in `SessionLedger`). `session.service.ts:3` says that
  sessions are revocable and expire with the refresh token, `:58` that the TTL is kept,
  `srs.md:374` and `:375` (FR-AUTH-006 and 007) that revoking one ends its access. Such a
  session can be revoked again; it does not end by itself.
- Overlapping sign-ins try more passwords than the limit: n(n + 3)/2 of them for two
  requests, 20 where n is 5, since each saves the counter it read before the password was
  checked (`GuessBound`). For the same reason a sign-in that read the account before it was
  locked lifts the lock when it saves, with a right password or a lower counter
  (`LockHolds`). `auth.service.ts:4` and `srs.md:373` (FR-AUTH-005) have 5 failures lock the
  account and the sixth attempt rejected even with correct credentials.
- A member who has ever signed in cannot be removed: the sign-in's audit entry refers to
  the user (`1747900000000-InitialSchema.ts:259`, without ON DELETE), so that the DELETE
  of `MemberService.remove` fails (`RemovalHolds`). `member.controller.ts:53` offers the
  removal, `srs.md` Appendix C gives it to owners and administrators, and `srs.md:803`
  (NFR-PRIV-001) asks for erasure.
- While the access cookie outlives its session, a page that is loaded is sent to and fro
  by `middleware.ts:14` and `app/app/layout.tsx:37`, since neither deletes the cookie. The
  cookie lives up to 15 minutes and a browser follows some 20 redirects: the user gets
  its error page (ERR_TOO_MANY_REDIRECTS) until the cookie has expired (`RedirectsEnd` has
  it as one of the ends).
- FR-RBAC-008's 60 seconds count from when the entry was stored, which may be after
  the removal (`trusted`). A counter of the rate limit may start anew for a call that
  is held up for more than five seconds (`late`).
- `upload-panel.tsx:12` promises to resume after a refresh; while the mission has no
  ingested image, the page throws the cache away instead (`disturbed`).
- Ground control: a title line of the survey file passes the form as a row without
  numbers and fails the job only after the engine has run; `.JPG` photos match a mark
  file only when it is named with the extension; the button is back before the page
  has moved on, so a second click launches a second job.
- Registration: the form offers `AP` (`register-form.tsx:16`) and the DTO accepts `APAC`,
  so nobody can register in Asia-Pacific; a clash on a unique index answers with a
  server error; a session failure after the commit reports an error though the account
  exists.
- Tables: jobs whose deletion failed in a sweep, or that became terminal during it,
  leave the table all the same; a network failure leaves the sweep marked busy; a key
  whose creation was not answered is active and its secret unknown to anyone. While a
  cancellation is under way, the answer of another call clears the mark that disables
  the row's buttons (`jobs-table.tsx:39`); when the job is then deleted, the save of the
  cancellation (`job.service.ts:167`) inserts it again, and the table has dropped a job
  that the server holds (`risen`).
- Pages: a project's form whose first call was carried out but not answered makes
  a second workspace when it is sent again (`FormsUseWhatTheyMake` counts them).

**Bounds.** `MaxCopies` bounds deliveries of one submission: 2 gives every race of a run
with its redelivered twin. `MaxRetries` is 3 in the code; 1 or 2 already give "some
left", "last one" and "none left". `MaxCrashes` bounds deaths of main processes: one
restart meets every partial state; deaths of pool children need no bound, as each ends a
delivery. `CancelledBefore` is an action constraint of `drone_live`: in it,
cancellations neither begin nor end after a redelivery or a restart. It cuts off no fair
step, as those neither deliver again nor kill, and `drone_tasks` has both in any order.
`Assets` is 2 where the order of assets matters. `Samples` picks an engine figure below
the first threshold and one in each of the next two stages. `OneJobUsed` restricts
`drone_tasks` to one job per behaviour: jobs share only the mission and the quota;
`OneJobUsedOrNoneTaken` does the same in `satellite` from the moment a delivery is
taken, so that the quota is still raced for. In `upload`, three requests (`MaxOpened`)
give two overlapping ones and what they leave to a third; two files give a key both know
and a key one of them inserts; two sizes an object that was replaced. `MaxJti` stops
refreshes of a session after two token ids: a current and an earlier one. `MaxRedirects`
is 1, which has the three cases of none, some and too many that 20 has. In `accounts`,
attempts are 2 instead of 5, all times one tick, and `GuessBound` is the formula that is
exact for two overlapping requests. In `access`, counts above `Limit` are alike, and
`Apart` keeps a behaviour to members or keys and stops the clock while the organisation
is changed; the properties relate no two of these. In `mission_page`, `FewReads` allows
two files being read at once and `MaxLaunches` one job: jobs share nothing. In
`sessions`, one page is enough for `PagesAreTrue`, which relates a page to the rows:
other users' pages are among what inserts and removes; `MaxClicks` allows a click that
fails and its retry, and the second workspace and slug are what the retry makes or
collides with. `Calls`, `Visitors` and `Tabs` are two, the smallest number that can
overtake each other. Symmetry is declared over interchangeable requests, files, tabs,
visitors, calls and jobs only, and in no run with a liveness property.

Deadlock is checked in `sessions`, `web_session`, `viewer` and `mission_page`, where
somebody can always act. It is off elsewhere: a system whose requests are answered,
whose clock has reached its bound and whose bounded faults are used up stops.

**Fairness.** `drone_live`: weak fairness of open requests (Node runs handlers to their
end), of the consumer (RabbitMQ delivers what is queued), of taking a task (an idle
Celery worker polls), of each run and of NodeODM; none on faults or on which task is
taken. It is justified by `celery_app.py`'s settings (late acknowledgement, prefetch 1)
and the polling loop; that NodeODM finishes is an assumption about an external program.
`web_session`: weak fairness of the server's steps and answers, of the redirects of a
page load, which a browser follows by itself as often as its limit allows, and of those
of the router, which has none and ends with the access cookie; and strong fairness of
the clock, which a sign-in can hold up for the moment it takes. `viewer`: every load is
answered (`fetch` settles), React renders and runs effects. `progress`: the worker, the
relay, the gateway's handlers and a monitor with something to receive go on; connecting
is never forced.

## 5. What is proved

Every safety invariant and every action property that a run checks, and each refinement,
for any finite sets of jobs, requests, workers, sessions, files, layers, members and keys,
and any bounds; from the named assumptions of the modules only, which TLC evaluates on
every run. One theorem is about a number of actors: `AccountsGuesses` takes two
overlapping requests, because the bound it states is the one for two.

| Theorem | States |
|---|---|
| `ApiTyping`, `ApiIntegrity`, `ApiQuota` (`JobApi_proofs`) | `ApiSpec => []ApiTypeOK`, `[]ReferentialIntegrity`, `[]QuotaBound` |
| `DroneTyping`, `DroneImplementsApi`, `DroneIntegrity`, `DroneQuota` (`DroneService_proofs`) | `Spec => []TypeOK`, `Spec => ApiSpec`, and the API's invariants for the composed system |
| `DroneNoSilentLoss`, `DroneSingleRunner`, `DroneOutputsKept`, `DroneOutputsPerDelivery`, `DroneVerdicts` (`DroneService_proofs`) | `Spec => []NoSilentLoss`, `[]SingleRunner`, `[]CompleteHasItsOutputs`, `[]OutputsPerDelivery`, `[]VerdictMatchesRow` |
| `DroneCompleteIsFinal`, `DroneStageOrder` (`DroneService_proofs`) | `Spec => CompleteIsFinal`, `StageOrder` (action properties) |
| `SatelliteTyping`, `SatelliteImplementsApi`, `SatelliteQuota`, `SatelliteVerdicts`, `SatelliteNoSilentLoss`, `SatelliteResults` (`SatelliteService_proofs`) | `Spec => []TypeOK`, `Spec => ApiSpec`, `[]QuotaBound`, `[]VerdictHasItsLayer`, `[]NoSilentLoss`, `[]ResultsAreSound` |
| `UploadTyping`, `UploadMeter`, `UploadParents`, `UploadAnnounced`, `UploadCounts`, `UploadSerialTotals` (`Upload_proofs`) | `Spec => []UploadTypeOK`, `[]MeterNeverOvercounts`, `[]RowsHaveParents`, `[]IngestedIsAnnounced`, `[]CountsAreImages`, `[]SerialTotalsExact` |
| `TypeThm`, `NoExpiryThm`, `ListedThm`, `LedgerThm` (`Sessions_proofs`) | `Spec => []TypeOK`, `[]NoExpiryMeansReopened`, `[]HandedOutIsListed`, and `Spec => LedgerSpec` |
| `WebImplementsSessions`, `WebSignOut` (`Sessions_proofs`) | `WebSpec => Spec`: the browser's side takes no step that the session store does not allow; `WebSpec => []SignedOutForGood` |
| `AccountsTyping`, `AccountsRemoval`, `AccountsGuesses`, `AccountsLock` (`Accounts_proofs`) | `Spec => []TypeOK`, `[]RemovalHolds`, `[]GuessBound`, `LockHolds` (action property) |
| `AccountsRegistrations` (`Accounts_proofs`) | `RegistrationSpec => []RegistrationsAreWhole` |
| `AccessTyping`, `AccessRateHolds`, `AccessRightsExpire`, `AccessOnlyBegunWrites` (`Access_proofs`) | `Spec => []TypeOK`, `[]RateHolds`, `RightsExpire`, `OnlyBegunWrites` (the last two are action properties) |
| `ListsTell` (`Access_proofs`) | `ListsSpec => []ListsKeepUp` |
| `ViewerTyping`, `ViewerLoadsOnce`, `ViewerZones` (`HostShell_proofs`) | `Spec => []ViewerTypeOK`, `[]NothingLoadedTwice`, `[]CloudsHaveTheirZone` |
| `PagesTyping`, `PagesTrue` (`HostShell_proofs`) | `PagesSpec => []PagesTypeOK`, `[]PagesAreTrue` |
| `PanelRemembers`, `LauncherGrounds`, `ProgressVerdict` (`HostShell_proofs`) | `PanelSpec => []UploadsAreRemembered`, `LauncherSpec => []CorrectionIsGrounded`, `ProgressSpec => []VerdictIsDue` |

The inductive invariants, and why they are needed. TLC has checked each of them on the
instance of its run before it was proved.

*Referential integrity.* A request between its insert and its commit has no visible row,
so nothing yet says that its mission still exists when it commits. `RequestsHold` adds
what the lock on the mission row gives: a published creation has its mission, and its
id has no row and no outputs. *The quota bound* counts creations that have passed the
check together with active jobs; the proof follows the cardinality of both sets through
every action, with `revived` accounting for jobs services bring back. *The refinements*
map each worker step to one disjunct of `ServiceNext` or to a stutter, so the API's
theorems carry over to both services.

*Delivery.* *No silent loss* needs that a loaded job has had a row (`LoadedJobsExist`)
and that a published creation is pending before its row appears (`OwedIsPending`).
*Single runner* needs that copy numbers are unique among queued, taken and running
deliveries (`UniqueDeliveries`), that none exceeds the count (`CopiesCounted`), and that
an id not yet published has no delivery (`UnpublishedUncounted`); a run that has
published its retry is no longer counted as executing, and what its death puts into the
queue is a new copy. *Outputs per delivery* counts ahead: what is recorded, and what the
queued and running deliveries may still record (`Owing`, `MayRecord`), stays within
deliveries and kills (`RecordsAreOwed`); the proof follows the cardinality of the set of
those that owe. *A completed job has its outputs* because the run carries what it has
recorded to the write of COMPLETE (`OutputsKept`). *Verdicts*: `VerdictHolds` says of a
job that is steady, that is delivered once and never restarted, what its row can be
while its only run settles or fails, before anything is announced; uniqueness of
deliveries is what makes that run the only one. `CompleteIsFinal` is the same invariant
read as a step. *Stage order* needs that the stage a run has in memory is not behind the
row (`StageHolds`).

*Analytics results.* *A verdict has its layer* is stated of completed rows and events, but
must be carried from the insert on: `ConcludedHasItsLayer` includes runs that have
recorded and not yet said so. `ResultsAreSound` rests on one lemma per index about its
fraction, for all integer bands: the denominator is never zero, and samples of one sign
keep the fraction in its range; and on a count of the pixels that went up and down.

*Uploads.* *The meter* is bounded by what was inserted only because of what open
requests hold: `MeterOf` says that a request adds no more than it inserted, and that the
project it has read or written carries at most the committed bytes, plus its own once it
has metered (`BoundOf`). That a meter is a number at all depends on this bound, so types
and meter are one inductive invariant, `UploadInv`. *Parents* are kept by locks:
`ParentsHold` says that what an open transaction has inserted has a parent that is there
or that the same transaction has inserted. *Announced*: an image that is not committed
yet was told of, or its completion has not published yet and will (`AnnouncedHold`).
*Counts*: neither what a request has written nor what it has in memory exceeds the
images it sees (`CountsHold`), which holds because images only go with their mission.
*Serial totals* are the longest argument: `SerialHold` says of the request that is
alone, step by step, which of its entities are exact, which are off by what it has
stored and not yet counted, and what the skipped unchanged columns leave. No induction
over the sums is needed: the recount computes a total anew, so it is enough that a total
depends on the sizes counted and on nothing else (`SameSizes`) and that there are no
bytes without images (`NoBytes`, evaluated from the library's fold).

*Sessions.* `IInv` says what each request knows at each step (`RequestOK`): from the SADD
on the session is on its user's list, from the EXPIRE on the list does not lapse before
it (`Kept`), and whoever removes an entry has found the session ended. The refinement then
maps every command to a step of the ledger; a rotation's write is an `Exchange` because its
request was admitted. *Signing out*: `WebInv` ties the browser to the store: a tab waits for
a request only while that request is under way (`Awaited`), and a sign-in under way opens a
session nobody has been given yet (`OpenedAlone`, `Opened`), so that no late answer can
bring a cookie of a session that was signed out.

*Accounts.* `RemovalInv` says who can have read a row that is gone by now, and what
those requests may still write. `GuessInv` is a potential: what has been guessed
(`guesses`), the guesses two requests have under way, and what can still be guessed from
the counters they have in memory (`Reach`, `Left`), never exceed `n(n + 3) / 2`.
`LockInv` says from which state of the row a request has its lock. *Registrations*:
`RegistrationInv` says which rows each visit has inserted at its step (`Underway`), that
ids of tries are never used again, and that rows under an id are one organisation's.

*Access.* `RightsTrusted` bounds a cached entry by the time its rights were last there or
about to be cached; `BegunOnly` says what may be in a transaction while the organisation
is not active. `RateInv` counts the calls that have been counted and not yet let through
(`Ahead`) together with those that passed, against a counter that is there unless the
minute is late. *Lists*: `Effect` says what each answer under way stands for on the server,
where a deleted job may have `risen` since.

*The web application.* *Viewer*: `RenderIsRecent`: whatever is live was loading in the
render an effect will act on, and what has been loaded since was loading in it;
`SightedLoadsHaveAPlace`: a load that is not blind still has its region or preview.
*Upload panel*: `PanelInv` says that a closed page holds nothing, a loading one has nothing
to remember yet, a completion that is answered is ingested, and that unless a second
instance was there, one run at most is under way. *Ground control*: `FormIsParsed`: what
the form holds is what its parser made of the file it shows, whatever was being read in
between; from that, each point that is used is traced back through both parsers to two
lines of the files (an injection of the equations into the lines of the marks). *Progress*:
`VerdictPasses` follows the verdict through what the worker owes, the channel and the
socket, and `SnapshotsAreRead` the older status that a subscription may be about to send.
*Pages*: `Lineage` and `JobsAbove` say that what holds a row is fixed when its id is first
given and that a row that is there has all of it there; `ViewsKnow` and `ReadsAbout` that a
page, its reads and its answers are about ids that were once committed; `FormsFit` that
what a form is about to make goes under a row of the right kind. `JobPages` joins them
for a page under way: what it has read of its job and what it has still to ask; since the
outputs are asked after the job was found COMPLETE, and its row was there all the while,
the outputs there were by then (`owed`) are there still and are found.

*Only model-checked.* Liveness (`StartedJobsSettle`, `RedirectsEnd`, `RastersSettle`,
`SteadyMonitorSettles`), which is out of the prover's reach.

## 6. What is not modelled

- *Jobs and drone service*: the content of progress messages, `progress_percent`,
  `error_message`, timestamps; the engine's own queue and the tasks that abandoned runs
  leave in it.
- *Ground control*: least squares, the similarity fit, and the warping of rasters and
  clouds, which are floating-point arithmetic; whether an output *can* be corrected
  is a choice in `DroneService`.
- *Satellite service*: scene search, its provider and the HTTP endpoints, which read and
  answer; rounding, data types and metadata of rasters.
- *Upload*: image metadata, columns other than status and totals (one pretended column
  `other` stands for those that edits write); files refused by name or size; keys outside
  the mission's prefix, which the panel never sends; the expiry of URLs. The mission
  and the project a completion reads are read together. Missions and projects are
  there from the start; `Pages` creates them.
- *Sessions and accounts*: the arithmetic of tokens, hashes and codes; the per-address
  rate limit; `revokeAllForUser`, which nothing calls; disabling accounts, which no code
  does.
- *Access*: edits and archiving of workspaces, which nothing else looks at; role
  editing, for which there is no endpoint; the touch of a key's `last_used_at`;
  row-level security, as every model is of one organisation.
- *Progress*: `unsubscribe`, which no client sends; who may watch a job.
- *Web application*: the forms for members and settings, which send one call and keep
  nothing; the button of the outputs panel; drawing, wording and layout; a full
  localStorage.
- *Audit, metrics, health, the marketing site and deployment files*: state that nothing
  here depends on, except that an audit entry holds its actor (`Accounts`).
