# TripWeave in TLA+

A specification of TripWeave's backend: state machines translated from the
source, model-checked with TLC on small instances, with theorems about the job
queue, the ingest, the automatic update, uploads, membership, projections, publication,
areas and collaboration proved by TLAPS for every value of the constants.

Paths below are relative to the repository. `worker` stands for
`services/backend/src/tripweave/entrypoints/worker/main.py` and `api` for
`services/backend/src/tripweave/entrypoints/api/main.py`; `adapters` and
`application` are the directories of these names in
`services/backend/src/tripweave`.

## The system

TripWeave is a modular monolith. One API process (FastAPI, a thread per
request) and one or more worker processes (`worker_concurrency` threads each)
share a PostgreSQL database and a blob store, and have no other channel: all
they tell one another is written in rows, and the queue between them is the
table `processing_jobs`. The blob store takes part in no transaction.

The hard behaviour is all in that: transactions at READ COMMITTED whose
statements interleave (five places take a row lock or an advisory lock, the others
take none), sessions that keep the rows they have loaded, a commit that does not
cover the blobs, a worker that is killed or slow, and job rows that several
actors reset.

| Component (main source) | State | Operations | Talks to | What is hard, and what makes it correct |
| --- | --- | --- | --- | --- |
| Job queue and worker threads (`worker`, `adapters/repositories.py`) | `processing_jobs` | enqueue, claim, complete, fail, recover | every producer of jobs; handlers | kills, expired locks, late reports, reports that fail: one worker at a time, outcomes are final, no job is stranded |
| Media ingest (`worker`, `application/media_processing.py`) | `media_items`, `media_assets`, blobs | ingest, retry, delete | queue, blob store, map projection, story update | two commits with blob writes and a delete between them: rows never promise blobs that are missing, a retry can succeed |
| Automatic story update (`worker`) | one job row per trip | ask, run, complete | ingest, queue, reconstruction | a request that races with the run it asks for: no READY photo is forgotten |
| Uploads and quota (`api`) | `upload_sessions`, `upload_files` | register, put, complete, cancel | blob store, queue | repeated and crossing requests, reservations: one photo per upload, quotas hold, completed objects stay |
| Local and OCI blob store (`adapters/local_blob_store.py`, `adapters/storage/oci/blob_store.py`) | files and sidecars; a bucket | put, stat, delete, grants | uploads, ingest, publication | object and sidecar are two writes; a direct upload has neither limit nor checksum |
| Reconstruction (`adapters/reconstruction.py`) | days, stops, moments, legs, review items | full run, incremental run | geocoder, area visits, collaboration intelligence | what reruns delete and what people locked: edits survive, each photo is in one moment |
| Story editing and undo (`api`) | `edit_operations`, generated records | apply, undo | reconstruction, projections | undo of an edit whose records were changed since; cascades |
| Area visits (`application/area_visits.py`, `adapters/area_visit_persistence.py`) | area visits and their stops | group, save | reconstruction | a greedy walk with thresholds |
| Collaboration intelligence (`adapters/collaboration_intelligence.py`) | similarity groups, clock-offset suggestions | rebuild, accept, reject | reconstruction | what a person decided survives a rebuild, corrections do not add up |
| Story projections (`api`) | draft and day/stop photo projections | build, invalidate, read | edits, reconstruction | a projection saved from state read before an edit |
| Trip map projection (`adapters/trip_map_projection.py`) | `trip_map_point_projections` | rebuild | ingest, edits | delete and insert under a unique constraint by two transactions |
| Publication and share links (`adapters/publication.py`, `api`) | `story_versions`, `share_links`, published blobs | publish, revoke, unpublish, read | queue, blob store | copy and manifest outside the transaction, two publishers: only whole versions are public, revocation holds |
| Invitations and membership (`api`) | `trips`, `trip_members`, `trip_invitations` | create, invite, accept, revoke, remove, delete | auth | counts read before they are written, revocation against acceptance |
| Authentication and sessions (`api`, `application/auth.py`) | users, sessions | register, login, logout | all endpoints | single-row reads and writes |
| Geocoders (`adapters/*geocoder*.py`) | none | reverse geocoding | reconstruction | failure of a call |
| Rate limiter (`application/rate_limit.py`) | attempts in memory | allow | endpoints | window boundary |
| Backup (`entrypoints/backup/main.py`) | none | upload one file | blob store | pure I/O |
| Configuration, logging, metrics, heartbeat | none | | all | the heartbeat of a worker is written by its main thread, whatever its worker threads do |
| Schema and migrations (`adapters/orm.py`, `migrations`) | | | | unique keys, CHECKs and cascades are guards and effects of the models |
| Web client (`apps/web`) | view state, upload queue of three | | API | cancels and retries of uploads |
| Deployment (`deploy`, `infra`) | | restart policy | worker, API | a killed worker comes back |

`PROJECT.json` lists the same components with their status, and under
`hazards` every place in the code found to be hard to test, with the properties
that cover it or the reason why none does.

## Modules

| Module | What it is |
| --- | --- |
| `JobRow` | a row of `processing_jobs` and what each statement of the program does to it |
| `JobLifecycle` | abstract: what the queue promises of a job |
| `ProcessingJobs`, `ProcessingJobsProofs` | the queue: producers, the retry request, worker threads, time |
| `MediaIngest`, `MediaIngestProofs` | the ingest of photos, step by step, with blobs, user retries and deletion |
| `AutoStoryUpdate`, `AutoStoryUpdateProofs` | the update job of one trip, asked for by every ingest |
| `BlobStores` | the local and the OCI store: what a write leaves and what `stat` reports |
| `Uploads`, `UploadsProofs` | upload sessions and their files, over `BlobStores` |
| `StoryRecords` | the generated records of a story and the operations edits and reruns share: cascades, locks, numbering, grouping, legs |
| `Reconstruction` | `reconstruct_trip` as a function of records and photos, over `StoryRecords` |
| `StoryEdits` | the edits, undo and reruns of a story, over `Reconstruction` |
| `AreaGrouping` | the greedy walk that groups stops into areas, and its reference definition |
| `Collaboration` | similarity groups, clock suggestions and people's choices |
| `GroupingProofs` | proofs about `AreaGrouping` and `Collaboration` |
| `Projections`, `ProjectionsProofs` | the projections of the story and the points of the map |
| `Membership`, `MembershipProofs` | trips, members, invitations |
| `Publication`, `PublicationProofs` | versions, workers, links, readers, over `JobRow` |
| `MCProcessingJobs`, `MCMediaIngest`, `MCAutoStoryUpdate`, `MCStoryEdits`, `MCPublication` | constants for TLC |
| `MCSchedules`, `MCBench` | several components side by side, one per behaviour (`mode`) |

Where components touch, they share operators and not only names. `MediaIngest`,
`AutoStoryUpdate` and `Publication` are the queue of `ProcessingJobs` with a
handler in place of an outcome: all use the row operators of `JobRow`, and an
action that is in several means the same statement of the program. `Uploads`
ends where `MediaIngest` begins (`CommitComplete`, `CompleteUpload`), `StoryEdits`
starts from photos that are READY, `Publication` from photos whose derivatives are
there, which is `MediaIngest`'s `ReadyHasDerivatives`.

### JobRow

Time enters a row twice, and each column is kept as what the code asks of it:
`run_after` as `due` (is it past?) and `locked_at` as `lock` (NULL, younger or
older than the lock timeout). `locked_by`, the timestamps and the error columns
are written but never read, and are left out. The state `cancelled` exists in
the enum and is written nowhere. `absent` is a row not inserted yet.

`Eligible` and `ClaimedRow` are the one SQL statement of `claim_job`, which is
atomic (`FOR UPDATE SKIP LOCKED`). Every other write goes through a SQLAlchemy
session that loads the row, assigns attributes, and at the commit updates the
attributes whose value differs from the loaded one. That is `Flush(row, seen,
assigned)`: between load and commit the row may have changed, an attribute that
was assigned the value it already had is not written, and `run_after` always
is when it is assigned, as a fresh timestamp always differs. Load and commit are
therefore two actions everywhere (`CompleteLoad`/`CompleteCommit`,
`FailLoad`/`FailCommit`, `RetryLoad`/`RetryCommit`, `AskLoad`/`AskCommit`).

### ProcessingJobs

A worker thread (`pc`) is `idle`, `working` in a handler, `completing` (it
loaded the row in `complete_job`), `failing` (in `fail_job`), `down` (its
process was killed) or `dead`. `dead` is real: `worker_loop` catches database
errors of `claim_job` only, so an exception of `fail_job` ends the thread while
the process goes on writing its heartbeat. `claim` is the `ClaimedJob` of the
code: `fail_job` decides with the attempt number of the claim, not of the row.
`Candidates` follows `ORDER BY priority`; rows of equal priority are taken in
any order, which covers every order of their timestamps. `RetriableJobs` are
those that `POST /media/{id}/retry` can reset, in whatever state they are.

### MediaIngest

`pc` walks through `ingest_media`: `loading` (the READY check), `marking` (the
first commit, PROCESSING), `reading` (the original and its validation),
`applying` (the flush of metadata and READY, which opens the second transaction
and locks the media row), `storing` (thumbnail, then display image),
`discarding` (the original leaves the blob store), `committing` (READY, assets,
retention state), then `ingested` and `complete_job`. `item` is the media row
as the session holds it: the API and the worker create their sessions with
`expire_on_commit=False`, so it is not read again after a commit. `InTransaction`
is the window in which other writers of the media row wait. Deletion of a photo
(`update_media`) leaves blobs and job alone, and is modelled so. Decoding and
metadata are abstracted to valid or invalid bytes. The retry request's two loads
(photo, then job) are taken at one instant.

`Queue` is `ProcessingJobs` with a photo for each job. A worker of the queue is `working`
through all the places of `ingest_media`, whatever happens to blobs and media row
(`QueuePC`); requests that do not touch the job, and the steps of a handler, stutter.
`ImplementsQueue` says that the ingest runs the queue as it was modelled on its own, so that
what the queue promises of `claim`, `complete_job` and `fail_job` holds of ingest jobs too.

`FaultPoints` says where a worker can be killed or see an error; the code
allows it everywhere (`Anywhere`), and the runs that exclude a window say so.

### AutoStoryUpdate

One row, key `auto-reconstruct-trip:{trip}`, per trip. The last transaction of
every ingest asks for an update (`AskLoad`, `AskCommit`): it inserts the row,
resets it, or, if it is running, moves its `run_after` into the future, upon
which `complete_job` puts it back in the queue. An update checks whether a READY
photo is unplaced (`Check`), loads the photos, and commits their placement: in a
moment, or under an open review item, which is all `placed` keeps of
reconstruction. Photos are ingested before updates are claimed, since the
update's priority is 200 and an ingest's 100. An ingest whose last commit fails
is `lost`: its original is deleted by then. `AskConflict` is the unique key of the job
row, which only another worker's insert can meet; `AskFault` is every other error
between the deletion and the commit, the unique key of the map among them.

### BlobStores and Uploads

A content stands for its bytes: contents differ in their checksum, some in their
size. A local write is two steps, object (`Put`) and sidecar (`Label`), and the
process may end in between (`PutDies`); an OCI write through the API is one, and
one directly to the bucket carries neither limit nor checksum. `Stat` is what
`stat` reports for each.

`Uploads` walks through the requests: `CountPhotos`/`Register` is
`create_upload_session`, which locks the trip row; `LoadComplete`, `StatObject`,
`Insert`, `CountRemaining`, `CommitComplete` (or `CommitFailed`) are
`complete_upload_file`, whose insert of the media item shares that lock through
its foreign key, and whose flush locks the file's row; `LoadCancel`,
`DeleteObject`, `CommitCancel` are `cancel_upload_file`. A grant stays valid until
it expires: `Put` asks for no state of the file, unless the client is one that
waits for each answer (`Repeats` holds the files of the others). A run with a file in
`Repeats` sees its requests overlap: two completions, a cancel beside a completion, a
PUT after it.

### StoryRecords, Reconstruction, StoryEdits

A table is a function from the keys of its rows, and dropping a row drops what
refers to it, as the `ON DELETE CASCADE` of the schema does. `Rerun` is
`reconstruct_trip`: a full rebuild (delete what is not locked, cluster, restore
the photos of locked moments, merge stops that touch locked ones) or an
incremental run (carry the records to the new run, insert the new photos). A
rerun and an edit are each one step. The grouping of stops into areas is an
argument: `StoryEdits` takes any group of neighbours, `AreaGrouping` has the walk.
The edits are those of `apply_edit_operation` that change records, each with what
makes it raise in its guard; `Undo` takes back the latest. `log` keeps the edits
undo can reach. `LOCK_RECORD` is `Mark` for days, stops and moments, `LockLeg` and
`LockReview` for legs and review items; places have no row in the model, so their lock
has none either. `Answer` resolves or dismisses the question about a photo,
`ConfirmArea` the one about a possible area. A photo is `sure` when its position came
with the file (`location_confidence` of 0.8 or more; `MOVE_MEDIA_ON_MAP` leaves that
column alone): only sure neighbours bracket a photo without position.

Positions are equal or different. The gaps in time (`MomentGap`, `StopGap`,
`BracketGap`) decide at their boundary; of distances the model knows zero and too far,
so that the radius, the diameter of a stop and the speed between photos do not decide
anything that these do not. `AreaGrouping` has the distances of areas as integers.

### AreaGrouping

The walk of `group_area_visits`, one action per decision (`LeaveAlone`,
`StartArea`, `Extend`, `FinishArea`), over stops on a line with integer times. Its
properties are a reference definition: no area the rules allow is missed, every
stop is decided once, every area is compact, and the confidence looks at the
worst of all its stops.

### Collaboration

`Analyze` is `analyze_collaboration`, which every run calls: duplicates by
checksum, then the union-find over similar photos (`Forest` is the outer loop over the
photos by time, `Compared` the inner one), then an offset per device from the median of the matches. Which hashes are
near is a constant. `Accept` writes the offset and the corrected times, `Reject`
and `SelectRepresentative` lock a choice.

### Projections

A projection is its run and what it shows of each photo, and `saved` what a
request is about to save. `LockFree` is `pg_advisory_xact_lock` of the trip, given
back by the commit of whoever has it. `RebuildStory` is what every edit does
before its commit, `AskDraft`/`AskPhotos`/`SaveDraft`/`SavePhotos` the readers that
find nothing saved, `RunOnRequest`/`Answer`/`SaveAnswer` `start_reconstruction`.
`DeletePoints` and `InsertPoints` are the statements of
`rebuild_trip_map_point_projection`: a delete passes over rows that went while it
waited and does not see rows that came, an insert waits for the key and is
refused if it was taken. `late` is history, explained below.

### Membership

Requests that take a lock have a load and a commit: `CreateTripLoad` locks the
user, `AcceptLoad` the invitation. `RevokeLoad` locks nothing; its commit waits.
`through` is history: the invitation by which a member came.

### Publication

A manifest is identified with its content. The worker's steps are those of
`publish_story_version`: load version and trip, mark publishing, select the photos, read
the stops, read the areas, copy (an error leaves some copies), store the manifest,
commit, load the job, report. `build_manifest` issues many SELECTs at READ COMMITTED;
the model has three of them, between which photos and story may change: the photos, the
stops and moments with their photos, the areas (`SelectPhotos`, `OutlineManifest`,
`AssembleManifest`). `CommitPublished` writes what differs from what the session
loaded: the row of the version always, the visibility of the trip only if the trip was
private when the worker loaded it. `Fault` is an error of any step, `mark_failed`'s own
included; an error of `fail_job`, which ends the thread, is a `Crash`.

`request` has the two halves of `create_publication`; the flush of a fresh slug keeps the
trip row locked (`TakesTripRow`). `url` is the address its creator was told.
`unpublish` is what an unpublish request has loaded: the active links, then the trip.
One such request runs at a time, which is a bound. `reading` is the row a reader has
read before it reads the manifest. `unseen` is history: versions requested while an
unpublish request was between its statements.

## Runs

| Run | Instance | Question and answer |
| --- | --- | --- |
| `jobs_timely` | 2 jobs (one retriable), 2 workers, 2 attempts, handlers within the lock timeout | one worker at a time, no pending job stranded, an abandoned job keeps its lock, outcomes are final, and the queue implements `JobLifecycle`: holds |
| `schedules` | four modes: the queue (1 job, 2 workers, 3 attempts) with handlers of any length (`late`) and with timely ones (`timely`); ingest of 2 photos, one corrupt, by 2 workers with 2 attempts (`ingest`); the update of a trip of 3 photos by 1 thread (`story`); fairness | two workers on one job have distinct attempt numbers within the budget (`LateClaimsAreCounted`); a job with attempts left is recovered, without kills it ends, and every photo settles (`WorkSettles`); queued ingests can succeed, job and photo agree (`OutcomesAgree`), a READY photo stays READY through the attempts after a kill; the ingest implements the queue (`ImplementsQueue`); no READY photo is forgotten, each is placed: holds |
| `publication` | 2 versions, 2 clients, 2 workers, 2 attempts, 1 kill, 2 photos, 2 stops in or out of an area; the job of version 1 may outlive its lock; three scenarios | published versions are whole and final, readers get their manifest, the stable address never falls back, a private trip is read only by a version requested while it was being unpublished: holds |
| `story` | 3 photos of two contributors on one day, 2 edits, 2 runs; all photos with a position, one without, two without | a photo is in one moment, runs forget no photo, and what people moved, locked or grouped outlives reruns: holds |
| `bench` | eight components, one per mode (below) | membership, uploads, areas, collaboration, updates with 3 threads, projections; rows of the ingest never promise missing blobs and an original leaves after both derivatives, wherever workers are killed: holds |
| `jobs_budget_crash` | 1 job, 2 workers, 3 attempts | an expired running job can be claimed again: **violated** when its worker is killed on the last attempt |
| `jobs_late_report` | the same, handlers of any length | outcomes are final: **violated** by a late report |
| `ingest_lost_original` | 1 photo, 1 worker, a fault at the final commit only | a queued ingest can succeed: **violated** |
| `story_forgotten` | 2 photos, 2 threads | no READY photo is forgotten: **violated** |
| `story_conflict` | 2 photos, 2 threads | a photo is lost to its own worker's kill or error only, never to what another one has committed: **violated** |
| `publication_first_slug` | the instance of `publication` | the addresses that were answered lead to their versions: **violated** by two first requests that cross |
| `story_hide` | the instance of `story` | a contributor can hide a photo: **violated** |

The modes of `bench`: `membership` (2 users, 2 trips with an invitation each, 2
requests at once, 1 trip per user, 2 uses, 3 rows per trip); `local`, `oci_proxy`,
`oci_direct` (3 files in 2 sessions against a limit of 2, one file whose bytes may be
of another content, one of the wrong size, clients that wait for answers) and `repeats`
(2 files, one whose requests the client repeats and overlaps); `areas` (all
sequences of five stops each a step from the one before, with every kind of step:
near, late, elsewhere, lost); `sharing` (5 photos, 2 devices, a copy and a photo without
device, 2 analyses); `updates` (3 photos, 3 threads); `pages` (2 photos, 2 threads, 3
versions of a photo, 2 runs); `once` and `again` (the ingest of 1 photo by 2 workers, with any
handler length, deletion and faults anywhere: 1 attempt and retries at any time, 2 attempts
and retries of failed jobs).

**Bounds.** `MaxAttempts` (3 in the code) is the only counter of the queue. Two is
enough for "not the last attempt" and "the last", three lets two workers be superseded
in turn; the claims that do not depend on it are proved for every value. One attempt
is enough in mode `once` of `bench`, since the user's retries reset the counter:
a photo is processed any number of times, by both workers at once; mode `again` adds
the queue's own retry after a failed attempt. Two workers are
the owner and the one that takes over, three the two askers beside a runner.
Two jobs are one on either side of the retry endpoint, with different
priorities. Jobs and photos interact only through the workers they share and,
in `AutoStoryUpdate`, through the one job row, for which three photos give one
placed, one arriving while the update runs and one after it.

Two versions are the older and the newer of every rule about versions; `MaxCrashes`
is one because a second kill meets the same states, and the theorems have no bound.
`publication` explores three environments apart (`scenario`): two workers with kills and
overruns and a photo that is hidden; one worker that may fail, with photos and story
that change and readers; one worker beside crossing requests, revocation and unpublishing.
The theorems about publication have no scenarios.
Two edits and two runs are the least with an edit between two runs and an undo of
it; one more of either is beyond five minutes. Three photos make a stop with a
neighbour on either side. `MaxVersions` of `Projections` lets each photo
be edited twice, which gives one edit beside a request and one after it.
The areas of a day are small because the limits are: the walk compares a stop with
its predecessor, the medoid and the farthest member, and five stops make them
differ.

**Symmetry.** Workers of one run and the request threads of `bench` are symmetric:
no definition names one. Runs with a liveness property use no symmetry.

**Deadlock** is checked in `schedules`, in the runs of the queue and in those of the story
update. It is not where a bound, or the end of all there is to do, stops the system: in
`ingest_lost_original` a worker that cannot be killed ends with the job failed; in
the runs of publication and of the story and in `bench` the versions, edits, runs, files
and rows are used up, and a walk over the stops ends.

**Assumptions made by constants.** `LockOutlivesHandlers` says that no handler
runs longer than the lock timeout (300 s by default; nothing in the code bounds a
handler, so the runs with FALSE say what is lost), and `TakenOver` is the same for the
job of each version. `DelayOutlivesRun` says that
the delay of an update (60 s) outlives its run; it too is false for long runs.
`Repeats` names the files whose client does not wait for its answers.

`Tolerated` says where the ingest of `schedules` meets faults: not at the commit that
follows the deletion of the original, for which `ingest_lost_original` shows the
assumption necessary and which `Undisturbed` of `MediaIngestProofs` excludes too; and, for
`ReadyStays`, neither where a worker loads the photo nor in `complete_job`. A worker killed
between the commit of READY and `complete_job` is among the faults there are: its job is
claimed again and finds that there is nothing to do. If that attempt meets a database error
before it has seen so, or in its report, and it is the last, `mark_media_failed` marks the
READY photo failed, as it asks for no state (`FaultPoints = {"ingested", "loading"}` gives TLC
that behaviour). Modes `once` and `again` of `bench` have faults everywhere.

**Fairness.** A worker thread that is up keeps polling and its handler ends
(`WF` of `WorkerStep`): the loop runs until the process stops, and its calls
have timeouts. A killed process is started again (`Restart`;
`deploy/compose.prod.yml:72` has `restart: unless-stopped`). A dead thread is not
restarted, and no fairness says so. Time passes (`BecomeDue`, `LockExpires`).
No fairness is assumed of users, uploads, kills or errors: the liveness
properties that need kills to stop state it as their antecedent.
`SchedulesFairness` is the fairness of each module within its mode.

## Where the code departs from what is said of it

Shown by a run:

* **A kill on the last attempt strands the job.** The recovery branch of
  `claim_job` asks for `attempts < max_attempts`. `docs/worker-state-machine.md:12`
  says that running jobs with an expired lock can be claimed again.
* **A late report overwrites an outcome.** `complete_job` and `fail_job` do not
  ask whether the caller still owns the job. Attempt numbers would identify it
  (`AttemptsIdentifyClaims`).
* **The original is deleted before the commit.** An error in between (the unique
  constraints of the map projection and of the job key suffice) leaves a job
  whose retries can only report `original_missing`.
* **A wake-up of the story update is lost** with two threads: a request that
  loads the row before `complete_job` commits, and commits after it, has its
  `run_after` on a job that is `succeeded`; or a run outlasts the delay.
* **Two first ingests of a trip** insert the same idempotency key; the second
  is rolled back after it deleted its original.
* **An address that was answered leads nowhere**: the second of two first requests that
  cross writes its slug over that of the first (`docs/publication.md:13`).
* **A photo cannot be hidden** when its day keeps a locked leg between the stops
  that stay: `rebuild_day_legs` inserts that leg a second time under its unique key,
  and the request is rolled back.

Seen in the models, and left out of the properties that would fail:

* A READY photo is marked failed: a worker is killed after it has committed READY and
  before it has reported, and errors of the later attempts use the budget up;
  `mark_media_failed` (`worker:616`) sets the state whatever it is. `ReadyStays` is checked
  without those errors.
* An unpublished trip stays readable: a version requested after the unpublish request
  has selected the links keeps its own, and a worker that loaded the trip as published
  leaves it private when it publishes the version (`adapters/publication.py:102`;
  `docs/publication.md:77` says that all active links are revoked). `PrivateTripIsUnread`
  names the exception (`unseen`), and says that there is no other.
* A published version changes when a second worker has loaded it before the first
  published it: it is set publishing again, or failed (`docs/publication.md:85`:
  "Existing published versions are immutable."). `PublishedIsFinal` leaves out `TakenOver`.
* A cancel that loaded the file before its completion committed deletes the object, and if it
  commits first gives the slot back, so that a trip gets more photos than its limit
  (`README.md:107`). The properties of `Uploads` speak of clients that wait for their
  answers (`Repeats`), but for `OnePhotoPerFile`.
* A signed upload URL outlives the completion of its file: a late PUT replaces an original
  whose size and checksum were recorded (`docs/PRIVACY_MODEL.md:7`).
* "Serialize registrations for the trip so pending upload grants count as reservations"
  (`api:4736`) is true of the number of photos; the byte limits count photos (`BytesUsed`) and
  no registrations.
* A session stays `transferring` when its last two files are completed at once, each
  request counting the other's as open, and for ever when one file was cancelled or
  has failed (`Remaining` counts all but completed ones).
* A user who accepts two invitations to one trip at once has two active rows, on
  which `scalar_one_or_none` of `member_for_trip` raises ever after.
  `OneActiveMembership` speaks of trips with one invitation.
* A leg whose mode a person set is locked, but goes with its stops in a full rebuild
  or is joined by a second one; `docs/domain-model.md:209` says that locked edits are
  preserved. `HumanWorkSurvives` speaks of stops and photos.
* An edit whose record a rerun removed cannot be undone, and as only the latest edit
  can be, neither can those before it (`UndoRecord` and `UndoPlace` have this as their guard).
* The commit of a draft gives the advisory lock back, so that `get_story_day_photos`
  (`api:6393`) and, after the commit inside `reconstruct_trip`, `start_reconstruction`
  (`api:6321`) save photos that were read before an edit. The same happens to an edit
  of a photo that another request edits at once: sessions keep the rows they have
  loaded. `late` marks such projections, and `ProjectionsShowTheStory` is about all others.
* The job of a story update may run without a lock. A request that has found the row put back
  while it still had its lock assigns `locked_at = None` (`worker:363`), and writes that
  although a worker has claimed the row since; the state, which it found as it assigns it,
  it does not write. A run that is killed after that is never recovered: `claim_job` asks for a
  lock that is old, and a NULL is not, until the next upload moves the row. It takes three requests beside the
  run, so four photos; `OneUpdateRuns`, with three, says only that
  one update runs at a time, which holds for any number (`OneUpdate`).
* An ingest that selected a photo for the map before it was deleted puts it back on the
  map, where it stays until the next rebuild of the points.
* A photo deleted before its ingest keeps its temporary original in the blob store.
* An accepted clock offset is not applied to photos of the device that come later.
* A full rebuild beside locked stops numbers its stops from one
  (`adapters/reconstruction.py:1553`): two stops of a day may have one position until an
  edit renumbers them. `TypeOK` of `StoryEdits` asks positions to be positive only.

## Proofs

The theorems hold for any number of jobs, photos, workers, attempts, users, trips,
versions and requests, from the named assumptions on the constants only.
What a statement of the program can write to a row of `processing_jobs` is a lemma where
the row is used (`CompletedRowWrites` and its siblings): above all that no write but the
retry's reset changes `attempts`, whatever stale row it was computed from.

`ProcessingJobsProofs`:

* `TypeCorrect`: `Spec => []TypeOK`. Not only types: `attempts <= max_attempts`,
  and a worker holds a claim exactly while it works. It is inductive.
* `ClaimsCounted`: `Spec => []AttemptsIdentifyClaims`, for handlers of any
  length. The property is not inductive alone, as an insertion sets `attempts`
  to 0; `CountedClaims` adds that a claimed job has been inserted, and the row
  lemmas say that nothing else lowers the count.
* `Timely`, under `LockOutlivesHandlers`: the invariant `TimelyInv`. Exclusive
  execution is not inductive alone. A running job can be claimed only if its lock
  has expired, so the lock of an owned job must be known to be held
  (`HandlersHoldLocks`: the row of a job in execution is running, its lock is
  held, its attempts are the number in the claim, and what the owner loaded to
  report an outcome was running and locked too, so that the report is written);
  a job is running exactly while it has a lock (`RunningIsLocked`); it has one
  owner (`OneOwner`); a pending one has attempts left (`PendingIsClaimable`: as
  the owner's number is the row's, `fail_job` compares the right one). From it:
  `Exclusive`, `PendingClaimable`, `AbandonedLocked`.
* `QueueImplementsLifecycle`, under the same assumption: each action is a step of
  `JobLifecycle` on the jobs of the queue, or a stutter (`LifecycleStep`).
* `OutcomeFinal`: outcomes are final, from the refinement.

The assumption is a hypothesis of the theorem, not of the module, and
`jobs_late_report` shows that it is needed.

`MediaIngestProofs`, wherever workers are killed or see errors, however long
handlers run and whenever users retry:

* `TypeCorrect`: `Spec => []TypeOK`, the budget of attempts included.
* `BlobsBackRows`: the invariant `IngestInv`. That a READY photo has both
  derivatives, that a photo recorded as without original has none, and that an
  original leaves only after both puts, are promises of rows about blobs that no
  transaction ties together; what ties them is the order of one worker's steps
  (`PutBeforeDiscard`: what it has put is there, at `discarding` it has put
  both, at `committing` the original is gone) and that no write concerns a photo
  never uploaded (`OnlyUploaded`). Three theorems follow: `ReadyIsBacked`,
  `DeletedMeansGone`, `NoPhotoIsLost`. The last one is the property that a change
  of the order of puts and delete would break only under a kill.
* `PhotosStayInHand`, under `Undisturbed`: the invariant `SettlingInv`. `Undisturbed` says that handlers
  end within the lock timeout, users retry nothing, and no fault falls between the
  deletion of an original and the commit after it. Then a worker is alone with its
  photo (`Alone`), the row of its job is the one it claimed (`HoldsRow`), its item is the row of the
  photo and the original is there until the steps in which it is gone (`HoldsPhoto`), and
  a row that no worker has tells the state of its photo (`JobTells`). From it:
  `QueuedCanSucceed`, `OutcomesAreTrue` (job and photo agree, a valid photo fails only with
  its attempts used up). `ReadyIsKept` follows when also no error falls at `loading` and at
  `completing`: kills elsewhere, also the one between the commit and the report, lead to
  another attempt that finds the photo READY and has nothing to do.
* `IngestImplementsQueue`: `Spec => ImplementsQueue`, with no hypothesis at all: faults, late
  handlers and retries are steps of the queue too. Each action maps to one step of
  `ProcessingJobs` or a stutter (`QueueStep`, one lemma per action). The mapping forgets what a
  worker between two handlers had loaded, and the queue lets a request reset only a row it
  knows, so the steps map only because of `QueueInv` (`RowsAreKnown`): a photo and its job are
  inserted together, and whoever acts on a job acts on an inserted row.
* The theorems of `ProcessingJobsProofs` are then taken over through the refinement, without
  a proof of their own: `IngestClaimsCounted`, `IngestIsExclusive`, `IngestOutcomesStay`, and
  `IngestImplementsLifecycle`, which composes it with `QueueImplementsLifecycle`. Their
  hypotheses are those of the queue, and that users retry nothing: the queue promises this of
  jobs that no request resets (`QueueJobs`).

`AutoStoryUpdateProofs`, wherever threads are killed, die or fail:

* `TypeCorrect`: types and the budget, with `Asking`: an ingest that asks is about a photo of
  its own, still queued, so that its commit makes it READY for the first time.
* `OneUpdate`, when handlers end within the lock timeout and runs within the delay: one update
  at a time. A request resets the row of a run that is on its way if it had loaded the row
  before the claim, so the row does not say that a run exists; what does is
  that no worker can claim it (`OutOfReach`: running and not expired, or pending and not
  due), and whatever a request had loaded, it leaves the row out of reach (`AskedOutOfReach`).
* `OneThread`: the invariant `ThreadKnows` of a single thread. What it has loaded is still
  what the row says, from the placement to the report it has placed every READY photo, and when it
  does not update, an unplaced one has its job pending. From it
  `NothingForgotten`, whatever the lock timeout and the delay. It
  fails with two threads (`story_forgotten`), so `Workers = {one}` is
  the weakest hypothesis on their number.

`UploadsProofs`, for each kind of store, from `Setting` (finitely many files, each in a session):

* `UploadsAreTrue`: the invariant `Inv`. `TripIsLocked` and `KeysAreUnique` are about all files:
  the row lock and its share that an insert takes keep a count from going stale, and the unique
  key with the wait for the row's lock makes a second insert fail, however the requests
  overlap. `FileIsTrue` is about files whose client waits: file, photo and object
  agree, and each place of a request tells the state of its file. `SessionsAreTrue`
  has what a request that closes the session has seen of the others.
* `OnePhoto`, `CompletedSessions` and `OriginalsWait` follow; the first is about
  files in `Repeats` too.
* `QuotaHolds`: photos and pending uploads are within the limit. What is inductive is
  `QuotaIsKept`, which adds that the files of a registration in progress still fit: a completed
  file gives its slot to its photo, and no other step takes one.

`MembershipProofs`, wherever requests interleave or are rolled back:

* `TypeCorrect`: types, and that the CHECK on `use_count` never fires.
* `RosterHolds`: `Spec => []RosterIsTrue`. What was counted under a lock must still be
  true when it is written: `AcceptLockHolds` says that the row of an invitation is what
  the request that locks it has read, and that a user who accepts the only invitation
  of a trip has not become a member meanwhile; `CreateLockHolds` that the trips of a
  locked user stay below the limit, and one request has that user. `OwnedIsBounded`,
  `OneOwner`, `JoinsAreCounted` and `OneActiveMembership` are kept by each step with
  their help, and `NamesAreFresh` says that no name is used by two trips.
* `RevocationHolds`: `Spec => RevokedAdmitsNobody`. The revocation takes no lock, but
  its commit waits for the one who accepts; so an invitation being accepted is not revoked.

`PublicationProofs`, wherever workers fail or are killed and requests cross:

* `TypeCorrect`: `Spec => []TypeOK`, whose last conjunct, that versions are numbered
  without gaps, needs `NumbersFollow`: a request that has taken a number has found all
  lower ones given, because the count of versions is their highest
  (`NextNumberFollows`). `Busy` adds that workers and jobs are about versions given.
* `PrivateUnread`: `Spec => []PrivateTripIsUnread`, from `ScanSeesLinks` (an unpublish
  request has seen every active link but those of versions requested since) and
  `LoadedBefore`: a worker that loaded the trip as published, so that it will not write the
  visibility, publishes a version without an active link if the trip is private by then,
  or one of those versions.
* `PublishedFinal`: `Spec => PublishedIsFinal`. It rests on `Steady`: of a version whose
  job does not outlive its lock, at most one worker is at work, the row is running and
  locked while it is, and a published version's worker is past its writes; and the stored
  manifest is the one of the row.
* `ReadersServed`: `Spec => []ReadersGetTheirManifest`: what a reader has loaded stays what
  the row says (`ReadIsCurrent`), by `Steady` and `PublishedFinal`'s step.
* `PublishedWhole`: `Spec => []PublishedIsWhole`, with no assumption on locks. `StoreIsWhole`
  follows a manifest from the worker that outlined it: it shows photos it lists (`Outlined`),
  its assets are public before it is stored, it is stored before the row says published, and
  nothing is taken away.
* `StableMovesOnPublish`: `Spec => StableAddressMovesOnPublish`: a version comes under the stable
  address only by being published. The newest published version, revoked or not, keeps the older ones
  from it (`SomeNewest`), and stays published (`FinalStep`).

`ProjectionsProofs`, wherever edits, ingests, runs and readers overlap and are rolled back, from
`Bounds` (the bounds are naturals, and `Nobody` is not a photo):

* `TypeCorrect`: `Spec => []TypeOK`, with `RowsApart`: from its flush to its end a
  request is alone with the row of its photo, which is as it found it.
* `StoryIsShown`: `Spec => []ProjectionsShowTheStory`. What is about to be saved must
  already be right: `SavedShows` says of an edit that it holds the story with its own flush
  (`Own`), of others that they hold the story of the table, unless they are late.
  `OneLock` keeps edits apart, and an ingest beside one cannot matter, since a
  photo that is not yet READY is in no run (`PlacedReady`).
* `MapIsShown`: `Spec => []MapShowsThePhotos`. No lock protects the points. `Points` says
  that what a request has deleted is still in the table and no other has deleted it, that
  its rows have every photo it deleted that is still current, and that once inserted
  they clash with nothing that stays; `NotAhead` (no point is newer than its
  photo) rules out that a commit made one of the deleted points current.

`GroupingProofs`, for stops of any number in any place, from `AreaSetting` (an area has two
stops at least, limits and fields are numbers):

* `WalkHolds`: the walk's invariant `WalkInv`. What is decided lies behind `Undecided`
  (the first stop of the candidate that grows, or the stop looked at); a candidate
  was accepted stop by stop (`Growing`), so was a proposed area, which ended because the
  next stop was refused (`Proposed`); a stop left alone had no seed (`Alone`); and each
  decided stop is alone or in one area (`Placed`). From it `AreasCompact`,
  `StopsDecidedOnce`, `NoAreaMissed`, and `ConfidenceIsWhole`: the penalties look at every
  stop of an area, so they find its greatest diameter and distance (`GreatestMeasure`).

and for any number of photos, devices and analyses, from `SharingSetting` (finitely many photos,
each once in the order of the rows; times and scores are numbers; a suggestion needs a match):

* `SharingHolds`: types and `SharingInv`. That an offset is in bounds is a fact about medians:
  the k-th value exists (`RankedIsValue`), and half the sum of two offsets, rounded to
  even, is no greater than the greater (`OffsetIsBounded`). From it `GroupsApart`,
  `CorrectedOnce` and `ChoicesKept`.
* `ForestTrue`: `Spec => []ForestIsComponents`, that the union-find is right. `Tree` looks at
  the parents from outside: every photo has a root and a height, and a height and the
  number of the roots are together at most the number of photos, so that `find` ends
  (`RootIsFound`). `Joined` says of the pairs compared so far that a match has one
  root, and that a match crosses wherever a tree is cut (`Whole`): a union keeps both
  (`UnionJoins`), so both loops do (`ComparedJoins`, `AllJoined`). The photos by time are
  all photos, since no two come at once (`BeforeIsLinear`, `ByTimeLists`).

The induction over the loops goes without the library's induction theorems, which take an
operator: what fails for some number fails for a least one (`LeastNumber`, from a fact of
the library about sets), hence `Upwards`, and `Recursive`, that a function may be defined
step by step. What has been decided at a number is a set there, not an operator.

Every safety property that a passing run checks of the components named here is proved. Model-checked only: everything
about `StoryEdits` and `Reconstruction`, whose reruns and clean-ups are folds of operators over
sets of days, stops and photos, and the provers cannot be told what a fold of an operator
does; and all liveness, which they cannot treat (fairness needs `ENABLED`).

## Not modelled

* **Two runs of one trip side by side** (the worker's, and one on request): a run is
  one step in `StoryEdits`. It is some hundred statements in one transaction
  and reads most tables; the interleavings of two are out of reach of TLC at any size
  where a rerun has something to do. What they may do is therefore not known from
  here: two first runs may both insert a story, and the run that counts as the latest
  is the one that began last (`api:6247`).
* **Names, places and geocoding**: they decide wording, and which place a stop is given.
  A failure of the geocoder is a fault of the run, which `AutoStoryUpdate` has.
* **Photos without a time**, the thresholds of distance and speed of the clustering (positions
  are equal or different), review states other than an open question about a photo or an
  area, locks of places, and edits that set titles, captions, notes and covers only (all of
  them are `Mark`).
* **Values** of metadata, names and messages; hashes and scores of images, which
  `Collaboration` takes as inputs.
* **The monthly byte limit, expiry of grants, the listing of sessions**, and the chunks of
  an upload: `Uploads` has the limits of a trip and of a file.
* **Reads and single-row writes**: accounts, passwords, cookies, CSRF and guest sessions,
  view counts, the rate limiter (one window in the memory of one process under one
  lock), settings, metrics. They have no protocol, and their unit tests reach them.
* **Authorization** of requests, beyond who is a member or owner in `Membership`.
* The shutdown wait and the heartbeat file; a commit that succeeds while its session
  sees an error, which for a claim equals a kill right after it.
* **Migrations**, the backup entry point, the web client and the infrastructure: run
  once and alone, pure I/O, or presentation.
