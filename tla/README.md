# Verification of yt-dlp-ui

TLA+ modules, TLC runs and TLAPS proofs about the program in `src/`: a Go
downloader service, a Next.js web service with its SQLite table, and a Tauri
desktop shell that supervises the two. Line numbers below refer to that tree;
`main.go` is `src/downloader/cmd/downloader/main.go`.

```
 browser --HTTP--> web routes --insert row--> jobs table (SQLite)
    ^                 | POST/DELETE/PATCH          ^      ^
    | WebSocket       v                            |      |
  ws-hub        downloader: postJob -> Registry    |   mega-uploader
    ^                          |    -> Pool.jobs   |   queue + workers
    |                          v                   |      ^
    |                  worker: yt-dlp process      |      | enqueue
    |                          | publish           |      |
    +--- applyEvent <--SSE-- EventBus              |      |
             |                                     |      |
             +-------------------------------------+-- finalizeCompleted
```

## 1. Inventory

| Component | State | Operations | Hard behaviour |
|---|---|---|---|
| **Registry and worker pool** (`main.go` 343–725, 1271–1296, 1600–1617) | job map and ring of finished ids; job channel, `cancelFns`, `workersCtx`, `maxParallel`; one goroutine per worker, one process per run | POST, DELETE, PATCH handlers; `worker`, `run`, `cancel`, `resize`, `shutdown` | DELETE against the worker picking the job; resize against runs; ring eviction; waits under a mutex |
| **Event bus and SSE handler** (`main.go` 290–341, `events`) | one buffered channel per subscriber | `subscribe`, `unsubscribe`, `publish` (drops the oldest) | a terminal status may be dropped; order of events against order of registry updates |
| **yt-dlp run** (`main.go` 588–1250, `proc_unix.go`) | child, its pipe, two scanners, rolling error buffer, captured path | `buildArgs`, `handleStdoutLine`, `materializeCookies` | `cmd.Wait` closes the pipe the scanners read; a line over 1 MB |
| **Resolve** (`main.go` 1298–1450) | none | one yt-dlp call, parse of its JSON | up to 90 s, in which the stored credentials may change; playlists without URLs |
| **Job table** (`web/src/lib/db.ts`) | one row per job: `status`, `file_path`, `content_hash`, `mega_status`, … | updates that never look at the status they replace | every writer may be late |
| **Event consumer and reconciliation** (`web/server.ts`) | the SSE connection | `consumeEvents`, `applyEvent`, `reconcileNow`, `syncSettings`, `finalizeCompleted` | rows against a registry that has moved on; lost events |
| **MEGA uploader** (`web/src/lib/mega-uploader.ts`, `mega.ts`) | `queue`, `queued`, `activeUploads`, `activeWorkers` on `globalThis` | `enqueueMegaUpload`, `spawnWorkers`, `workerLoop`, `processOne`, `cancelMegaUpload`, `startMegaUploader`, `notifyMaxParallelChanged` | cancels at every await, the race with hashing, restarts, the limit changing while workers run |
| **Job routes and conflicts** (`api/jobs`, `api/history`, `cleanup.ts`) | rows and files | expansion, overwrite / append / skip, delete | the old copy goes before the new one exists; two rows sharing one file |
| **Maintenance** (`lib/maintenance/*`) | one running task per process, its log | backfill of hashes, regrouping by season | uploads under way meanwhile; crash between a remote move and the row |
| **Live updates** (`ws-hub.ts`, `use-jobs-ws.ts`) | client set; the page's copy of the list | snapshot, broadcast, merge | snapshot against events, which in the application take two ways; writes nobody broadcasts |
| **Auth, cookies, certificates** (`auth.ts`, `cookies.ts`, `certs.ts`) | files and a table by domain | look-up by host and parent domains, merge into a request, edits | edits between the look-up and the use |
| **Settings** (`api/settings`, `settings/page.tsx`, `tab-state.tsx`, `nav-guard.tsx`, `syncSettings`) | the settings table, the downloader's own limit, the form and its baseline | PUT, PATCH to the downloader, push after a reconnect, guard | one value in three places; a page that goes away during its save |
| **Desktop shell** (`src-tauri/src/*`) | two children, sockets, its own event stream | start, proxy, emit events to the page, stop | events between two streams; kills after 800 ms what drains for up to 10 s |
| **User interface** (`app/**/*.tsx`) | the text area and dialogs of the queue page, the live list, forms | submit, resolve conflicts, edit | answers to what the page showed a while ago |

What makes each correct, in short:

* *pool*: no accepted job is stranded or leaks, the parallel limit holds across
  resizes, a DELETE reaches the process, no run outlives `Pool.shutdown` and
  nothing but what was picked after it outlives `main`, every job gets its
  terminal event, PATCH and SIGTERM return;
* *event bus and consumer*: the table ends up with the status the registry
  reached, whatever is dropped, delayed or restarted;
* *uploader*: queue, table and workers agree, no finished file is lost, no
  upload runs twice but where it was asked for while under way, each request
  ends, the limit is honoured;
* *routes, library*: no step takes the last copy of an entry that another row
  or the user still counts on, and a name that embeds a hash is true;
* *maintenance*: each task leaves row, file and node in agreement, whatever
  downloads, uploads and deletes run beside it;
* *enqueue*: a request is accounted for completely, and yt-dlp is given the
  credentials and cookies that belong to the URL, none that were withdrawn;
* *yt-dlp run*: its events come in order, and the file is found again;
* *live view, settings*: the pages show what is the case once all messages are
  through, and the limit in force is the one that was saved;
* *shell*: no child process survives the application.

`PROJECT.json` lists the same components with their status, and under
`hazards` the places in the code that are hard to test, each with the
properties that cover it.

## 2. Modules

### DownloadPool, JobLifecycle

`DownloadPool.tla` models the registry, the pool and the handlers that drive
it. One step is one critical section of the code: a `Registry` operation under
its mutex, a `publish` under the bus's, an operation on the channel or on the
`sync.Map`. Everything else a goroutine does between two of those touches only
its own locals. Hence `Pool.run`, for example, is the sequence

```
picked -RunCheck-> checked -RunRegister-> registered -RunBegin-> begun
 -RunAnnounce-> launching -Launch-> alive -ProcExits-> exited
 -ObserveExit-> ending -EndUpdate-> updated -EndAnnounce-> told
 -EndFile-> filed -EndRun-> idle
```

with `RunSkip`, `LaunchFails`, `ObserveCancel` and `Killed` as its other
branches. The correspondence of state:

| Code | Model |
|---|---|
| `Registry.jobs[id].Status`, no entry | `reg[id]`, `"absent"` |
| `Registry.finished`, `cap` | `ring`, `RingCap` |
| `Pool.jobs`, its capacity | `jobs`, `ChanCap` |
| `Pool.cancelFns` | `cancelFns`: the worker whose run the function stops |
| `workersCtx` done | `poolDone` |
| a run's own context cancelled | `ctxDone[w]`; it derives from `workersCtx`, so `CtxDone` is either |
| `Pool.mu`, `maxParallel`, the argument of `resize` | `mu`, `size`, `target` |
| progress of a POST, of a DELETE | `posting`, `dpc`/`did` |
| how far `main` is | `phase`: `serving`; `draining`, `Pool.shutdown` holds `Pool.mu` and waits; `down`, it has returned; `stopped`, the process is gone |
| last status event of a job | `said` |

Both `select`s choose freely when several cases are ready, as Go's do. An entry
is read after `Registry.get` has released its lock (lines 556 and 571); as the
channel and the mutexes order everything that matters, the reads of
`CancelLook` and `RunCheck` are taken as one step each. Job ids are fresh
UUIDs, so `registry.add` never meets an id twice in a behaviour.

SIGTERM leaves the handlers that are under way alone (`http.Server.Shutdown`
waits ten seconds and then gives up on them), so a PATCH may get `Pool.mu` at
any time until `main` has returned: before `Pool.shutdown`, which then waits
for it, or after, when it starts fresh workers that the process takes with it,
but not their yt-dlp, which is in a process group of its own. `late` is history:
the ids a worker picked once `Pool.shutdown` had returned. `StoppedMeansReaped`
says that they are all that can be left behind; the code has nothing against
it, since a pool that is shut down does not refuse a `resize`.

`JobLifecycle.tla` is the abstract specification: `absent -> queued -> running
-> completed | failed | canceled -> absent`. `DownloadPool` implements it under
`LifeStatus`, which is `reg` except that a job a DELETE found queued is
`"disputed"` from then on. The exception is not for convenience: the marking
by `cancel` and the updates by `run` overwrite each other, so that job may go
canceled -> running, or completed -> canceled (finding 2).

### MegaUploader, UploadLifecycle

`MegaUploader.tla` models the web service's uploader together with what drives
it: the end of a download, the backfill of hashes, the upload and history
routes, the overwrite of an earlier download, the settings, the reconnect of
the event stream and a restart. Node runs one segment between two awaits at a time, so one step is one
such segment. The exception is `spawnWorkers`, which calls `workerLoop` inside
a segment any number of times: those calls are steps of their own, and while
`callee` says they are not done nothing else may run (`Idle`).

| Code | Model |
|---|---|
| `mega_status`, `file_path` of the row | `row`, `path` |
| the local file and its name | `file` (`"raw"`, `"hashed"`, `"gone"`) |
| a copy on MEGA | `remote` |
| `finalizeCompleted` of a job | `fin` |
| `queue`, `queued`, `activeUploads`, `activeWorkers` | the same names |
| a running `workerLoop` | a slot `w`: `pc[w]`, `job[w]`, and the path `src[w]` it read |
| its `AbortSignal` | `signal[w]`; `"missed"` when the abort came before `uploadFile` listens |
| `mega_enabled`, `mega_max_parallel` | `enabled`, `limit` |
| markMegaPending and enqueueMegaUpload, as `finalizeCompleted` and `rehashLocal` call them | `AskAnyway` |
| DELETE of a history entry, and its `localOnly` form | `DeleteRow`, `DeleteLocal` |
| `deleteRemoteForJob` and `deleteCompletedEntry`, as POST /api/jobs and the backfill call them | `OverwriteRemote`, `OverwriteDeletes` |
| `notifyMaxParallelChanged` | in `SaveSettings`; `Notify` where it is called with the limit as it was |

Three of the drivers go by a row they read long ago: `finalizeCompleted` by the
one of the event, `rehashLocal` (`backfill-hash.ts:124-142`) by the one of
before its hashing, an overwrite by the one that matched the request. Nothing
bounds how long that was, so `RehashLocal`, `OverwriteRemote` and
`OverwriteDeletes` may come whatever the row says by now, as long as it once
said what they require.

`paused`, `dropped`, `raced` and `doomed` are history: a worker found MEGA
disabled; an id whose `ensureFolder` threw; an id whose upload
`finalizeCompleted` or `rehashLocal` asked for while it was under way or done;
an id an overwrite has deleted a copy or the row of. Properties name them as
exceptions, because the code gives no more in these cases; each exception is a
behaviour TLC found. Of a `raced` id two workers may have the upload, the first
of which takes the controller of the second out of `activeUploads` when it ends
(`mega-uploader.ts:267`), so that a cancel no longer finds it.

`UploadLifecycle.tla` is the abstract specification, after the pipeline of
`docs/architecture.md`: `null -> pending -> uploading -> uploaded | failed |
canceled`, failed and canceled to be asked for again, uploaded final, a restart
putting `uploading` back to `pending`; with it the two places of the file, which
leaves the disk only once MEGA has it or when its row goes. `MegaUploader`
implements it with `status <- LifeStatus`, `disk <- OnDisk`, `mega <- OnMega`.
An id in `raced` is `"disputed"` there: `finalizeCompleted` and `rehashLocal`
ask for the upload without looking at the row (`server.ts:138-144`,
`backfill-hash.ts:137-140`), so its status may go back even from `uploaded`,
and two workers may have it. Of such a job the lifecycle still promises its
file, that a deleted row stays deleted, and that a restart ends the dispute in
one of the statuses, `uploaded` only if MEGA has the file. An id in `doomed` is
`"retired"`: it is being overwritten, and nothing more is promised of it here
(what an overwrite may take is the matter of `Library`).

Simplifications: the path `resolveActualFile` finds is the file, and two jobs
never share one (both are in Library); MEGA either has the file or not;
`cleanupFragments` touches no finished file; an `error` event of the destroyed
read stream that would end the process is a `Restart`. `getMaxParallel` clamps
to 1..8, which is the range of `limit`; the slots in use never exceed it.

### JobSync

`JobSync.tla` models how a row follows its job: the insert and the POST of the
jobs route, the event bus with its bounded channel, the consumer's loop with
`reconcileNow`, and the downloader seen per job (`DownloadPool` without
capacities: a registry operation and the publish after it stay two steps, the
ring may evict any finished entry).

| Code | Model |
|---|---|
| `Registry.jobs[id].Status` | `reg[id]` |
| the job's place in `postJob`, the channel, `Pool.run` | `run[id]`; a terminal status there is what `run` has decided and not yet published |
| a DELETE in `Pool.cancel` | `del[id]` |
| a subscriber of the bus, its channel and the stream | `linked`, `bus` |
| `jobs.status` | `row[id]` |
| `postJob` of the web service | `post[id]`; `"adrift"` when its sender was restarted |
| `consumeEvents` | `conn`: `down`, `open`, `listed` (GET /jobs is answered, nothing done yet), `reading` |

`Chatter` is every other event: progress, and whatever concerns other jobs. It
fills the channel, so a terminal event can be the one dropped. A restart is one
step; the time a service is down is the time until the next `Connect`.

The history sets name what a row cannot be blamed for: `missed` (an event found
no subscriber, or will never be made), `overrun` (an event was dropped),
`early` (a DELETE between `add` and `publish` of `postJob` had its canceled
published before queued), `disputed`, and `disowned` (the web service marked
the row failed although the downloader has the job: GET /jobs failed, or the
answer to the POST was lost).

### Library

`Library.tla` follows the files. All its jobs download one source, which is
where files can get in each other's way: one `[id]`, one identity, and one name
`Plain` until `finalizeCompleted` embeds a hash of the content in it. A name is
therefore `Plain` or the content it was made from; the source may serve
different contents at different times.

| Code | Model |
|---|---|
| a row: `status`, `file_path`, `content_hash`, `mega_status`, `mega_remote_name`, and what `targetFolderPath` makes of playlist and season | `row[j]` |
| the `<format>/<container>` directory | `disk`: the content under each name |
| the folders on MEGA | `remote`: nodes with name, folder and content, in the order `findFile` sees them |
| yt-dlp, as far as the file goes | `run[j]` |
| `finalizeCompleted` in its await | `fin[j]` |
| the uploader: its queue; for each worker the upload it sends, or has marked and not yet unlinked | `queue`, `upload[w]` |
| POST /api/jobs with an overwrite, one per request slot: where it awaits, the entry it overwrites and the row as it was when the combos were built | `post[r]` |
| the maintenance run: item, the row as read, the file, where it is | `maint` |

Each `await` ends a step, so everything read before one and used after it is in
`post`, `fin`, `upload` or `maint` and may be out of date: an overwrite deletes
the node and the file its row named when the request came, whatever other
requests, uploads and renames have made of them. A restart may come anywhere,
and also between the renaming of a file and its record (`CutShort`:
`server.ts:126-130`, `backfill-hash.ts:133-136`). The tasks are taken
item by item, in any order; `Throws` is any failure the runner catches.

The four properties speak of every single step: which steps may take a copy of
an entry away, a node from MEGA, or change the content under a hashed name. What
they except is what the code really does (`Disturbed` is `Misnamed`, `Missent`,
`Mistaken` or `Rival`, the first two being what the others leave behind):

* `Rival`: a job that claims a name of this one. Embedded hashes keep names apart, but
  rows without a hash, or two downloads of the same bytes, share a file
  (`route.ts` append, `server.ts:118`, `main.go:1103`).
* `Mistaken`: `finalizeCompleted` takes a file it finds under the hashed name
  for its own and drops the one it hashed; `rehashLocal` hashes whatever file of
  the `[id]` `resolveActualFile` finds, which may be written to before it is
  renamed; and the recorded name of a rehashed node is not compared with a local
  file of that name (`server.ts:118`, `backfill-hash.ts:138`,
  `mega-uploader.ts:345`). What was sent to MEGA meanwhile is then not what the
  row's hash says.
* `MayGo`: an overwrite the user asked for, the replacement by a new download
  that has a copy, a restart between renaming a node and recording it
  (`mega-uploader.ts:341-345`), and recording the name of a node that a rival
  has taken between the two. `waitReady` asks the new row alone whether the
  download is ready (`backfill-hash.ts:99`); a rival may have taken its copy
  since (`Deprived`).
* `Strays`: a restart between the renaming of a file and its record leaves a row
  that names a file that is gone. Nothing repairs the row; what `LastCopyStays`
  says is that the file is there under its hashed name, where
  `resolveActualFile` finds it for an upload or a delete.
* an overwrite cut short by a restart leaves an `uploaded` row without a node.

A row that says `uploaded`, or whose file a worker is about to unlink (`Sent`),
must have its node; the file that may still be there does not count.

A copy of an entry (`HasFile`, `HasNode`) is a file under its path, or a node
under its remote name, with the content of its hash if it has one. Between the
renaming of a node and its recording (`Recording`) the copy is the node under
the new name, which the row does not have yet.

### Enqueue

`Enqueue.tla` is the way of a request: the text area and the conflict dialog of
`queue/page.tsx`, POST /api/jobs with all its awaits (one POST /resolve per
URL, one delete per overwritten entry, one POST /jobs per combo), and beside it
the credentials and cookies pages that change what is stored.

| Code | Model |
|---|---|
| `auth_bindings`, the cookies directory | `binding[d]`: per field the number of the edit that set it, 0 for NULL; `jars` |
| the chain of domains a URL is looked up under | `Chain[url]` |
| yt-dlp's answer to a resolve, as printed | `Dumps[url]`, parsed by `ParseResolveOutput` |
| the page from opening to leaving it, and what is forgotten with it | a member of `Visits`; `visit` is the present one, `Reopen` the change |
| the request of a visit: its URLs, what was read for each (`reads`), its targets, combos and jobs | `req[v]`; targets and combos are sets, tried in the order `Before` gives (URL, place in the playlist, pair) |
| the text area | `form` |
| rows under way and completed, by identity | `live`, `done` |

A credential is known by where it came from (`<<domain, edit>>`, the form, the
extra arguments), which is all `CredentialsFit` and `NoneRetired` need: the
first follows each credential to the argument list of yt-dlp, the second
compares it with `gone`, the credentials that had been replaced or deleted when
the request was made. A confirmed conflict sends the whole request again, as
`onResolveConfirm` does, so that its conflicts are found anew; the model has
that, and no property claims otherwise. A request goes on when its page is left,
and the text area is in the tab store, so the list can be sent once more from
the next visit while the first request is under way. An overwrite deletes one
row, by its id: `Overwritten` leaves the identity among the completed ones or
not, as there may be another.

### YtDlpRun, LiveView, DesktopView, HistoryView, Settings, Client

`YtDlpRun.tla` is what happens inside one `alive` run of `DownloadPool`: yt-dlp
prints (`Scripts`, any sequences that end in the line of `--print after_move`)
into a pipe; the scanner reads it; `cmd.Wait`, in its own goroutine, closes the
pipe and so loses what was not read; `run` waits for the scanner before it
publishes the end. A line over 1 MB makes the scanner give up (`deaf`); yt-dlp
may then block on the pipe, which is that it prints no more until it is
canceled. `files` is the directory, for `resolveActualFile`.

`LiveView.tla` EXTENDS it with the row, the broadcast and one browser: `told`
counts the events `consumeEvents` has had, `wire` is what the socket carries,
`view` is the job on the page. `silent` marks a row that was ended by
`reconcileNow` or by a refused POST, neither of which broadcasts
(`server.ts:205`, `route.ts:349`): the page then shows the job until its
socket reconnects, and `BrowserTrue` excepts it.

`DesktopView.tla` EXTENDS that with the page in the application, which has no
socket. The shell has a subscription of its own and emits what it reads
(`passed`, `emitted`), while the snapshot is a GET to the web service
(`fetched`), which has had the same events (`told`) or not. `gap` is history:
an event passed the page by. That happens when the shell missed it between two
streams, when it came before the listener and after the snapshot, when the
listener had it before an older snapshot arrived and replaced it, and when the
snapshot failed after the first event. None of the four can be left out of the
exception: without it TLC finds a page that keeps a job that is over, or does
not show a running one, until it is opened again. What `DesktopTrue` claims is
that nothing else goes wrong, whichever of service and shell is behind.

`HistoryView.tla` is the history page and one entry of it. The page polls, offers
buttons by what it has listed (`Offers`), and when a request is accepted changes
its own list as it thinks that the service did (`Assumed`), until the next poll.

| Code | Model |
|---|---|
| `mega_status` of the row, and whether its file is there | `entry` |
| requests of the page and their answers | `asks[s]`: what for, how far, the entry when it was handled |
| `jobs` in the page's state | `listed` |

`UploaderMoves` stands for the uploader and whatever else changes the entry (in
which order is the matter of `MegaUploader`). Two flags are history: `alone`, no
other request was under way and the entry did not move since this one was sent;
`behind`, something has happened since the last poll that was alone which the
page cannot know. Each disjunct of `behind` is a behaviour of the code: two polls
whose answers overtake each other, a poll from before a delete that brings the
entry back to the list, a POST whose answer is lost, and a cancel that is
answered "uploading" or "not-found" and shown as canceled all the same
(`history/page.tsx:165-178`). `HistoryTrue` says that there is nothing else.

`Settings.tla` has three settings, in the order in which the PUT deals with them:
`format` (with container and compat), saved before the PATCH to the downloader;
`limit`, saved and then pushed by it; and `rest`, saved after it. A limit that
was never saved (`Never`) is not pushed after a reconnect either, so the
downloader keeps the one of its environment (`EnvLimit`), while GET shows the
default (`Shown`). `puts` are the requests under way, `draft` and
`baseline` the form and its snapshot (in the tab store, so they outlive the
page), `modal` the guard. `drift` is history: a push failed, was cut off by a
restart, or crossed another, so the downloader may work with another limit than
the saved one until the next push. `upset` likewise: a save failed, crossed
another, or was left behind by the page.

`Client.tla` puts the pages into one specification: a behaviour has either a
browser or the application (`client`), and as the browser's three pages share
nothing, it follows one of them, the others at rest. `ViewTrue` is what the
queue page shows in a browser (`BrowserTrue`) and in the application
(`DesktopTrue`), and what the history page shows (`HistoryTrue`).

## 3. Runs

| Run | Checks | Size |
|---|---|---|
| `pool_safety` | `TypeOK`, `JobsAccounted`, `NoTerminalLeak`, `ParallelLimit`, `RunsAreCancelable`, `StoppedMeansReaped`, `ImplementsLifecycle` | 2 jobs (symmetric), pool of 1–2, 1 DELETE handler, channel 1, ring 1 |
| `pool_liveness` | `JobsSettle`, `CancelStopsRun`, `ResizeCompletes`, `ShutdownCompletes` | the same without a DELETE caught in the queue (`CancelRun` remains) |
| `pool_resize` | violates `ResizeSparesJobs` | finding 1 |
| `pool_queued_cancel` | violates `QueuedCancelNeverRuns` | finding 2 |
| `uploader_safety` | `TypeOK`, `QueueMirrored`, `PendingTracked`, `UploadsCancelable`, `NoFileLost`, `QueueServed` | 2 jobs (symmetric), limit 1–2, one settings change, restart, rehash or overwrite |
| `uploader_liveness` | `ImplementsUploads`, `UploadsSettle`, `LimitHonoured` | 1 job, limit 1–2, two of these upsets |
| `job_sync` | `TypeOK`, `RowsMirror`, `NoStaleRow`, `CompletedIsFinal`, `RowsSettle` | 1 job and the chatter of the others, channel 2, two restarts, broken streams or failed GETs |
| `sync_known_job` | violates `OnlyUnknownFail` | finding 4 |
| `uploader_hang` | violates `SpawnReturns` | finding 3 |
| `library` | `TypeOK`, `HashNamesFile`, `NodeStays`, `LastCopyStays` | 3 jobs, two of which may be older than the hashes, 2 contents, 2 upload workers, 2 overwriting requests at once (all symmetric), 3 inputs, 2 nodes |
| `enqueue` | `TypeOK`, `CredentialsFit`, `NoneRetired`, `Accounted`, `FailedStay` | 4 URLs, 3 domains, 3 fields of a credential, requests for a short link and a playlist, 1 pair, 1 edit of the stores, 2 requests, 2 visits of the page (symmetric) |
| `client` | `TypeOK`, `EventsInOrder`, `PathFound`, `ViewTrue`, `LimitAgrees`, `PageTrue` | 2 outputs of yt-dlp and 1 browser, or 1 shorter output and the application; 2 requests of the history page at once; limits 0–2 typed, in three forms of the settings page, a limit stored before or none, 2 saves at once |

What they show: in every interleaving of two jobs with resizes, cancels and a
shutdown, an entry that is queued or running is always in someone's hands, a
terminal one is always due for eviction, no more yt-dlp processes live than
`maxParallel`, the registered `CancelFunc` is the job's own, and `Pool.shutdown`
leaves no run behind, nor does `main` but of jobs that the workers of a late
PATCH picked after it. On the web side the queue and its guard set never
diverge, a pending row is always on its way, a finished download is on disk or
on MEGA until its row is deleted or overwritten, and every step is one of the
documented pipeline, but for the uploads asked for twice. A row says what the downloader last
said, whatever reconnects, reconciliations and events interleave, and none
stays queued or running for ever but by one of two named losses. No download,
upload, delete, overwrite or maintenance task takes an entry's last copy but in
the cases named. A request accounts for each of its URLs, and yt-dlp gets the
credentials that are stored, not those that were. A run's events reach the page
in order, in a browser and in the application, the history page shows what is
the case but where a request was lost or crossed by another, and the settings
page never shows as saved what is not.

**Bounds and why they are enough.** `ChanCap` (1000 in the code) is 1, so the
second POST blocks; `RingCap` (50) is 1, so the second finished job evicts the
first, and an id may be twice in the ring. Two jobs and two workers give every
pairwise race (in the pool a worker has at most one job, a job at most one worker - the
proved `OneHolder`), and the resizes 1->2 and 2->1 reuse the slots. One DELETE
handler may be used again and again. For the uploader, `MaxLimit` 2 (8 in the
code) has every relation of `activeWorkers` to `limit`; `MaxUpsets` bounds
settings changes, restarts, rehashes and overwrites together; every other event
repeats freely. One of them is enough for what two workers do to one job (a
rehash, or the end of the job's own hashing, during its upload); with one job
two are explored, so a restart after a rehash, or a rehash during an overwrite.
The theorems below lift the bounds. In `JobSync` jobs meet only
in the channel, so one job and `Chatter` are enough; `BusCap` 2 (256) is below
the four events a job and its DELETE can publish.

In `Library` two jobs give an old and a new copy of one source: the pair that
an overwrite, an append, a re-download or a shared name is about. The third
meets what the other two have left: with two jobs alone the exceptions
`Mistaken` and `Deprived` never occur. Two upload workers are the default of the code, and two requests
are what it takes for one to have found an entry the other deletes.
`MaxInputs` 3 counts what the user
starts and restarts (a task or a download, its overwrite or delete, a restart);
the events that follow from them are not bounded, nor is the number of requests
in the proof of `HashNamesFile`. `MaxNodes` 2 is a node for each old copy. In `Enqueue` the two stored states have a
subdomain with and without its own row, a row of NULLs among them; the URLs are
a short link (another host than its target), a playlist with an entry that has
a URL of its own, a bare id and one without a URL; `MaxPosts` 2 is a request
and its confirmation, or one request from each of two visits; `MaxEdits` 2 is one edit, as what is stored to begin with
is edit 1. In `Client` the outputs are a download of two formats that are
merged and one whose audio is extracted. The application's page is explored
with a title and a final path (`AppScripts`): four events, so that service and
shell may each be behind by several, and it tells statuses from all the rest
only; the proof has no such bound. Two saves at once is what form and
guard can reach. What is typed (`Typed`) are three forms: a limit of 0, which is
refused, and two that differ in all three settings, so each setting tells whose
save it is from. `MaxAsks` 2 is a poll and a click, or two of either, which is
what it takes for one to overtake the other; the proof has any number.

`CHECK_DEADLOCK FALSE` is set because the system may really stop: the pool
after SIGTERM, the uploader when it is idle and all downloads are done, the
table when all its jobs are, the library and the enqueue form when the user
asks for nothing more (their bounds are used up), a page whose job is over.

**Fairness.** Goroutines are not starved by the Go scheduler: weak fairness of
each handler and each worker's steps. `select` picks at random among ready
cases, so one that is ready again and again is taken: strong fairness of
`WorkerPick` and `WorkerExit` (weak fairness would let a worker of a stopped
pool pick jobs for ever). A Go mutex is handed to one who has waited for it for
more than a millisecond, so `Pool.shutdown` gets it in the end however many
PATCHes come: strong fairness of `ShutdownBegin`; then `main` returns, whatever
is under way. yt-dlp need not exit; only `JobsSettle` needs that a
download left alone ends, and says so (`DownloadsEnd`). In the
uploader the event loop is FIFO, so a continuation that is due is run however
busy the routes keep the loop: strong fairness of `WorkerStep`. That MEGA lets
a worker log in some day is an assumption of its own (`Connected`); without it
uploads wait for ever, as the code has no limit to its retries. No request,
settings change, restart or signal need ever come. In `JobSync` the consumer
reconnects and reads on and a request arrives or fails (weak fairness); that
jobs in the channel get picked is `JobsSettle` of `DownloadPool`.

## 4. Proofs

`DownloadPoolProofs.tla` proves, for every set of jobs and DELETE handlers and
every pool size, channel and ring capacity satisfying `PoolAssumption` (sizes
and capacities positive, `None` neither a job nor a number):

| Theorem | States | Argument |
|---|---|---|
| `TypeCorrect` | `[]TypeOK` | inductive with `Busy` (a worker away from idle holds a job, a DELETE away from idle an id); the bounds of ring and channel are in it |
| `NoJobStranded` | `[]JobsAccounted` | inductive as it stands, on top of `TypeOK` and `Busy` |
| `NoLeak` | `[]NoTerminalLeak` | the step needs `MarkFinishedRing`: the id put in is in the ring afterwards, and an id that falls out is not terminal any more |
| `AtMostMaxParallel` | `[]ParallelLimit` | `SlotsInv`: the slots in use are those up to `size`; then a cardinality bound |
| `EveryRunCancelable` | `[]RunsAreCancelable` | `FnsInv`: from `RunRegister` to `EndRun` the map has the worker. It needs `OneHolder`: a job is at any time with its POST handler, at one place in the channel, or with one worker |
| `NothingOutlivesMain` | `[]StoppedMeansReaped` | inductive with `Busy`: when `wg.Wait` of `ShutdownEnd` returns no worker is left, and one that picks a job later puts it into `late`; `NoJobStranded` then says whose the running entries are |
| `PoolImplementsLifecycle` | `Spec => ImplementsLifecycle` | step simulation under `LifeInv`: a job no DELETE caught in the queue has in the registry the status its holder's place implies |

`MegaUploaderProofs.tla` proves, for every finite set of downloads, every
largest limit and any number of upsets, rehashes and overwrites among them
(`UploaderAssumption`; the set must be finite as `Restart` queues the pending
ones in some order):

| Theorem | States | Argument |
|---|---|---|
| `TypeCorrect` | `[]TypeOK` | needs that `activeWorkers` is the number of running loops (`Counted`), which is a cardinality argument, and that a loop that has a job is running (`Busy`) |
| `QueueCorrect` | `[]QueueMirrored` | inductive with the types; lemmas on a sequence without repetitions (append, tail, remove) |
| `PendingCorrect` | `[]PendingTracked` | a worker takes an id off the queue and holds it until it has marked the row |
| `ServiceCorrect` | `[]QueueServed` | inductive: a loop leaves only with an empty queue, with another loop left, or with MEGA disabled |
| `CancelCorrect` | `[]UploadsCancelable` | `OwnInv`: an id is in the queue, with one worker, or neither (`Held`, which also ties the row's status to where the worker is); past `FolderReady` the worker has the entry in `activeUploads`, and every entry its worker (`Mapped`); an id is queued with its row pending or deleted and its download finalized (`Asking`) - all outside `raced`, where `AskAnyway` gives an id that a worker holds to the queue again |
| `FilesCorrect` | `[]NoFileLost` | `FileInv`: a worker that is about to unlink, and a row that says uploaded, has its copy on MEGA or has had it until an overwrite (`OnMegaOnce`); no other step takes a file or a copy while the row is there |
| `UploadsImplemented` | `Spec => ImplementsUploads` | step simulation (`StepSimulates`): a step about one id leaves the others as they are (`Kept`, `OneMoves`), and `OwnInv` says at each await which status the row has, hence which step of the lifecycle it is (`DriversSimulate`, `UploadSimulates`). What is done to an overwritten id is a step of a retired one (`RetiredSimulates`). `Restart` moves all ids at once (`RestartSimulates`) |

`JobSyncProofs.tla` proves, for every set of jobs, every channel capacity and
any number of faults (`SyncAssumption`):

| Theorem | States | Argument |
|---|---|---|
| `TypeCorrect` | `[]TypeOK` | inductive; `Send` drops before it appends |
| `MirrorCorrect` | `[]RowsMirror` | `Mirror`: the last event in the channel is the last status published, or the row has it; needs `LinkInv` (events are in the channel only while somebody is connected) |
| `NoStaleCorrect` | `[]NoStaleRow` | `Told`: a job that is over has a terminal status as the last of what is on its way; the same for the answer of GET /jobs between `List` and `Reconcile` |
| `CompletionCorrect` | `[][..]_vars` (`CompletedIsFinal`) | `Final`: nothing follows a completed event in the channel, and no step of a completed job publishes again |

`ClientProofs.tla` proves, for any set of outputs that end in the final path
(`RunAssumption`), the application's page seeing any of them
(`ClientAssumption`), any limits and settings and any number of saves under way
(`SettingsAssumption`), and any number of requests of the history page
(`AsksAssumption`):

| Theorem | States | Argument |
|---|---|---|
| `TypeCorrect` | `[]TypeOK` | the saved limit is never 0, since only what `Valid` let through is sent |
| `EventsCorrect` | `[]EventsInOrder` | `EventInv`: when `run` publishes the end, `cmd.Wait` has closed the pipe and the scanner is through |
| `FileIsFound` | `[]PathFound` | `PathInv`: a process that ended well has printed the last line, so the final file is there whatever path was captured before |
| `ViewCorrect` | `[]ViewTrue` | `ViewInv`: the last message on the wire that decides the view, or the view if there is none, agrees with the row. In the application `DesktopInv`: the snapshot is right of the events it knows of (`Knows`), the page of those it has heard (`Shows`), and `RowInv`: a row that is over has had all events. On the history page `HistoryInv`: a request that is alone has the entry as it is, and the page that is not behind waits for at most one, whose answer will make it right |
| `LimitCorrect` | `[]LimitAgrees` | `LimitInv`: without `drift` at most one push is under way, and it carries the saved limit; while none was ever saved nothing is pushed, and the downloader has its own |
| `NothingUnsaved` | `[]PageTrue` | `PageInv`: a save that nothing crossed ends with the baseline it sent, and the guard's dialog lets go of the page only then |

`EnqueueProofs.tla` proves, for any URLs, domains and chains of domains, any
answers of yt-dlp, any lists the user types and pairs the user selects, and any
number of requests, visits and edits; its invariant speaks of each visit's
request by itself (`Sound`), so it does not matter how many are under way (`EnqueueAssumption`: the constants have the shapes
the code's data has):

| Theorem | States | Argument |
|---|---|---|
| `TypeCorrect` | `[]TypeOK` | the loop's `First` combo exists (`FirstIn`, by the well-foundedness of the numbers), and its fallbacks are those of a URL that was resolved |
| `CredentialsCorrect` | `[]CredentialsFit` | `Base`: each fallback that was read, and so each call, is of one domain of its URL's chain; look-ups only find such domains (`LookUp`) |
| `RetiredCorrect` | `[]NoneRetired` | `Stocked` and `Versioned`: what is stored is newer than all that was replaced; what a request found was not replaced when it was made |
| `AccountedCorrect` | `[]Accounted` | `Covers`: jobs, skipped and remaining combos are together all targets with all pairs, from `Match` on; `LastIs`, `AllQueued`: only the last job may not be queued |
| `StayCorrect` | `[][..]_vars` (`FailedStay`) | `Settled`: each URL that was tried has failed or has a target, and none has both |

`LibraryProofs.tla` proves, for any jobs and contents, any number of requests
and restarts and any number of nodes (`LibraryAssumption`: `Plain` and `None`
are not contents, and there is room for a node):

| Theorem | States | Argument |
|---|---|---|
| `TypeCorrect` | `[]TypeOK` | with `RowLife`: a row that has a hash or is uploaded is completed and its job over (`Done`), and with `Uses`: only such rows are hashed, sent, overwritten or maintained, so no late event or restart undoes it; `MaintOK` says what the maintenance run holds at each await |
| `HashCorrect` | `[][..]_vars` (`HashNamesFile`) | `Quiet`: a step that leaves the row's hash and path, and the file under it or removes it, keeps the promise. Five steps are not quiet (`Land`, `Finalized`, `HashedLocal`, `RecordHash`, and a `Restart` that cuts a rename short): what they write is under a name their job claims (`OtherKept`), or is what the row records |

`LibraryCopiesProofs.tla` goes on from its invariant:

| Theorem | States | Argument |
|---|---|---|
| `NodesCorrect` | `[][..]_vars` (`NodeStays`) | `KeptStep`: most steps are calm for an entry (`Calm`): its row keeps path, hash and remote name, its file stays, and for every node of it there is one of the same name and content after the step. That a step of another job is calm follows from the claims: what it writes, renames or deletes has a name it claims, and outside `Rival` nobody else does (`OthersFile`, `OthersNode`) |
| `CopiesCorrect` | `[][..]_vars` (`LastCopyStays`) | the same lemma; the entry's own steps that are not calm (`FinalizedKept`, `UploadedKept`, `UnlinkedKept`, `DeleteKept`, `HashedLocalKept`, `RenameNodeKept`, `RecordHashKept`, `RestartKept`) put a copy in one place before they take it from the other, or leave it astray (`Strays`) |

Each of the six specifications has one inductive invariant `Inv` (`InvInit`,
`InvNext` or `InvStep`, and the theorems at the end of the module), of which the
listed properties are conjuncts or consequences.

Two things came of the attempt. `NodeStays` and `LastCopyStays` did not hold as
they were first stated: with a third job a rival may take a renamed node before
`RecordHash` does, and an entry whose node is renamed and not yet recorded has a
copy the row does not name (`Recording`). And `HashNamesFile` excepted every job
under `rehashLocal`, which the proof does not need: only a file that is another
one (`Mistaken`) is excepted now.

So every safety property of every passing run is a theorem. Only model-checked
are the seven liveness properties: `JobsSettle`, `CancelStopsRun`,
`ResizeCompletes`, `ShutdownCompletes`, `UploadsSettle`, `LimitHonoured` and
`RowsSettle`. They rest on fairness, whose definition is `ENABLED`.

## 5. Findings

1. `PATCH /config` kills the downloads in flight. `docs/api.md:624-626` and the
   comment at `main.go:520-521` say they finish under their own contexts; each
   context is derived from the `workersCtx` that `resize` cancels.
2. A job canceled while queued can still run: the worker tests for canceled
   once (571) and later sets running without looking (582).
3. With MEGA disabled, an upload request (or a start with pending rows) hangs
   the web service: `workerLoop` returns before any await, so `spawnWorkers`
   calls it again for ever.
4. A job that completes while the web service is away has its row marked
   failed on reconnect and is never hashed or uploaded, although GET /jobs
   lists it as completed; the comment at `server.ts:229-231` says only rows the
   downloader does not know about are.

Modelled, and named as exceptions by the properties: a PATCH that waits for
`Pool.mu` while `Pool.shutdown` holds it starts workers that may launch yt-dlp
just before the process goes (`late`); `finalizeCompleted` and `rehashLocal` ask
for an upload that may be under way or done, so that a job has two workers and a
cancel may find neither (`raced`); a restart between a rename and its record leaves
a row that names a file that is gone (`Strays`); `ensureFolder` throwing
loses the id from the queue, against the comment at `mega-uploader.ts:179-181`
(`dropped`); what the exceptions of `Library`,
`LiveView` and `DesktopView` list above.

Seen while reading, without a run: `docs/architecture.md:188` speaks of a
single sequential worker and lines 232 onwards of no reconciliation, both out
of date. The sweep of partial files after a reconciliation (`server.ts:208-213`)
finds nothing to do in the usual case: a row gets its `file_path` only with a
terminal event, and orphaned rows have had none.

The shell's own subscription (`events.rs:76`) is an open stream while
`supervisor.rs:146` sleeps, so `Shutdown` (`main.go:1612`) waits for it and the
downloader is killed before `pool.shutdown` runs; yt-dlp, in a process group of
its own (`proc_unix.go:13`), is left behind, which the comment at
`supervisor.rs:132-134` says the order of things avoids.

Also without a run: the choice made in the conflict dialog applies to whatever
conflicts the second resolve finds (`queue/page.tsx:264`); a playlist none of
whose entries has a URL is enqueued as one video (`main.go:1438`), which
`route.ts:162-168` wants to avoid; an overwrite deletes the old entry before it posts the new
job, so a refused POST leaves neither (`route.ts:283-354`); `reDownload` does
not carry the playlist title or the keep-local flag over
(`backfill-hash.ts:46`); a password typed while the settings are being saved is
erased by the answer (`page.tsx:252`), as is a URL typed while a request is
under way (`queue/page.tsx:247`); `cleanupFragments` of a failed job sweeps the
`.part` file of a running retry in the same directory (`cleanup.ts:52`).

## 6. Not modelled, and why

* **Desktop shell**, but for its events: process supervision, proxying and
  sockets in Rust. The hazard that concerns the services is the 800 ms it gives
  them (`supervisor.rs:146`) against the ten seconds of `http.Server.Shutdown`:
  a race of two clocks, of which a model without time has both outcomes, and
  what each leaves behind is decided by the operating system. `DownloadPool`
  shows what a downloader that is left the time does.
* **Certificates**: files that a binding names; no step of a job reads them but
  yt-dlp.
* **Progress, titles, formats, argument lists**: data no property depends on,
  beyond whose credentials are among the arguments.
* **Maintenance and certificates pages**: they show rows and call the operations
  `Library` models. Of the history page, the pages of the list, the search and
  the dialogs of a new download of an old entry.
* The download folder and MEGA's password in the settings: saved like `rest`.
* HTTP and JSON decoding, installation and packaging, the updater.

## 7. Plan

1. Proofs: what helps the liveness properties from the safe side, as bounds on
   how often a step can repeat.
2. **Supervisor**, if the shell ever waits for its children.
3. **Algorithms**, as functions checked against a reference definition over
   bounded inputs: format selection in `buildArgs`, `shellSplit`, `mergeAuth`
   with its precedence, `isFragmentName`.
4. Two runs in one directory: `cleanupFragments` against a running retry.
