---------------------------- MODULE MegaUploader ----------------------------
(***************************************************************************)
(* The web service's background uploader to MEGA, from                     *)
(* src/web/src/lib/mega-uploader.ts, with what drives it: the end of a     *)
(* download (finalizeCompleted in src/web/server.ts), the backfill of      *)
(* content hashes, the upload and history routes, the overwrite of an      *)
(* earlier download, the settings and a restart of the service.            *)
(*                                                                         *)
(* The service is one Node process, so a step of this module is what runs  *)
(* between two awaits.  spawnWorkers calls workerLoop inside such a        *)
(* segment; those calls are steps of their own (callee is not "none"), and *)
(* nothing else runs until they are done.                                  *)
(***************************************************************************)
EXTENDS Naturals, Sequences, FiniteSets, SequencesExt

CONSTANTS
  Ids,        \* downloads
  Workers,    \* slots for the running calls of workerLoop
  MaxLimit,   \* the largest mega_max_parallel (8 in the code)
  MaxUpsets,  \* bound: settings changes, restarts, rehashes and overwrites
  None        \* "no job" or "no worker"

Limits == 1..MaxLimit

ASSUME UploaderAssumption ==
  /\ MaxLimit \in Nat \ {0}
  /\ MaxUpsets \in Nat
  /\ IsFiniteSet(Ids)
  /\ IsFiniteSet(Workers) /\ Cardinality(Workers) = MaxLimit
  /\ None \notin Ids \cup Workers

VARIABLES
  \* the jobs table and the two places a file can be
  row,      \* mega_status, "null", or "absent" once the row is deleted
  path,     \* file_path: "null", "raw" as captured or "hashed" once renamed
  file,     \* the name of the local file, "gone" if there is none
  remote,   \* whether MEGA has a copy of it
  fin,      \* finalizeCompleted: "new", "hashing" or "done"
  \* the state hung off globalThis
  queue, queued,
  activeUploads, \* for each id, the worker whose AbortController is in the map
  activeWorkers,
  \* one call of workerLoop per slot
  pc,       \* where it awaits
  job,      \* the id processOne works on
  src,      \* the file_path it read from the row
  signal,   \* its AbortSignal: "clear", "aborted", or "missed" when the
            \* abort came before uploadFile had put its listeners on it
  callee,   \* "spawn" in spawnWorkers, "call" in its call of workerLoop, "none"
  \* settings
  enabled, limit,
  upsets,   \* how many of what MaxUpsets bounds there were
  \* history, of the running process
  paused,   \* a worker has found MEGA disabled and none has connected since
  dropped,  \* ids whose ensureFolder threw, and not queued since
  raced,    \* ids whose upload finalizeCompleted or rehashLocal asked for when
            \* it was under way or done
  doomed    \* ids an overwrite has deleted a copy or the row of

tableVars == <<row, path, file, remote, fin>>
queueVars == <<queue, queued>>
workerVars == <<activeUploads, activeWorkers, pc, job, src, signal>>
settingVars == <<enabled, limit, upsets>>
historyVars == <<paused, dropped, raced, doomed>>
vars == <<tableVars, queueVars, workerVars, callee, settingVars, historyVars>>

PCs == {"off", "called", "connecting", "drain", "folder", "stat", "uploading",
        "unlinking", "closing"}
Working == {"folder", "stat", "uploading", "unlinking"}

-----------------------------------------------------------------------------
(* The markMega... updates: none of them looks at the status it replaces.  *)

Mark(id, status) ==
  row' = [row EXCEPT ![id] = IF @ = "absent" THEN @ ELSE status]

Goto(w, to) == pc' = [pc EXCEPT ![w] = to]

Idle == callee = "none"

\* spawnWorkers: with n workers, q queued and the limit m, does its loop go on?
Spawning(n, q, m) == IF n < m /\ q # <<>> THEN "spawn" ELSE "none"

\* Mutant: the id is queued without a look at `queued`.
EnqueueTwice(id) ==
  /\ queue' = Append(queue, id)
  /\ queued' = queued \cup {id}
  /\ callee' = Spawning(activeWorkers, queue', limit)
  /\ dropped' = dropped \ {id}

\* enqueueMegaUpload, up to the first test of spawnWorkers' loop.
Enqueue(id) ==
  /\ IF id \in queued
     THEN UNCHANGED <<queueVars, callee>>
     ELSE /\ queue' = Append(queue, id)
          /\ queued' = queued \cup {id}
          /\ callee' = Spawning(activeWorkers, queue', limit)
  /\ dropped' = dropped \ {id}

-----------------------------------------------------------------------------
(* What drives the uploader.                                               *)

\* markMegaPending and enqueueMegaUpload, whatever the row says by now.
AskAnyway(id) ==
  /\ Mark(id, "pending")
  /\ Enqueue(id)
  /\ raced' = IF row[id] = "uploaded" \/ \E w \in Workers : job[w] = id
              THEN raced \cup {id} ELSE raced

\* updateJobHash finds no row once it is deleted.
NamePath(id, name) ==
  path' = [path EXCEPT ![id] = IF row[id] = "absent" THEN @ ELSE name]

\* applyEvent of a completed status event, up to finalizeCompleted's hashing.
Complete(id) ==
  /\ Idle
  /\ fin[id] = "new"
  /\ fin' = [fin EXCEPT ![id] = "hashing"]
  /\ NamePath(id, "raw")
  /\ file' = [file EXCEPT ![id] = "raw"]
  /\ UNCHANGED <<row, remote, queueVars, workerVars, callee,
                 settingVars, historyVars>>

\* The rest of finalizeCompleted: rename the file, unless that or the hashing
\* fails, and then ask for the upload.
Finalize(id) ==
  /\ Idle
  /\ fin[id] = "hashing"
  /\ fin' = [fin EXCEPT ![id] = "done"]
  /\ \/ UNCHANGED <<file, path>>
     \/ /\ file[id] = "raw"
        /\ file' = [file EXCEPT ![id] = "hashed"]
        /\ NamePath(id, "hashed")
  /\ IF enabled
     THEN AskAnyway(id)
     ELSE UNCHANGED <<row, queueVars, callee, dropped, raced>>
  /\ UNCHANGED <<remote, workerVars, settingVars, paused, doomed>>

\* A row that was uploaded at some time: only AskAnyway takes that back.
WasUploaded(id) == row[id] = "uploaded" \/ id \in raced

\* rehashLocal of the backfill of content hashes, for a job that had none and
\* whose file was there when it was read: the hashing may take so long that
\* nothing is known of either any more.  Rename the file; that may have been done,
\* and the file be gone since.  Ask for the upload of what was not uploaded.
RehashLocal(id) ==
  /\ Idle
  /\ upsets < MaxUpsets
  /\ upsets' = upsets + 1
  /\ fin[id] # "new"
  /\ file' = [file EXCEPT ![id] = IF @ = "gone" THEN @ ELSE "hashed"]
  /\ NamePath(id, "hashed")
  /\ \/ enabled /\ AskAnyway(id)
     \/ /\ ~ enabled \/ WasUploaded(id)
        /\ UNCHANGED <<row, queueVars, callee, dropped, raced>>
  /\ UNCHANGED <<remote, fin, workerVars, enabled, limit, paused, doomed>>

\* Mutant: an upload that is done may be asked for again.
RequestUploadAgain(id) ==
  /\ Idle
  /\ fin[id] # "new"
  /\ row[id] \in {"null", "failed", "canceled", "uploaded"}
  /\ file[id] = path[id]
  /\ Mark(id, "pending")
  /\ Enqueue(id)
  /\ UNCHANGED <<path, file, remote, fin, workerVars, settingVars, paused,
                 raced, doomed>>

\* POST /api/history/{id}/upload.
RequestUpload(id) ==
  /\ Idle
  /\ fin[id] # "new"
  /\ row[id] \in {"null", "failed", "canceled"}
  /\ file[id] = path[id]
  /\ Mark(id, "pending")
  /\ Enqueue(id)
  /\ UNCHANGED <<path, file, remote, fin, workerVars, settingVars, paused,
                 raced, doomed>>

\* The first place of the id in the queue is taken out of it.
Unqueue(id) ==
  \E i \in DOMAIN queue :
    /\ queue[i] = id /\ \A k \in 1 .. i - 1 : queue[k] # id
    /\ queue' = RemoveAt(queue, i)

\* Mutant: a canceled id leaves the queue and stays in `queued`.
CancelUploadKeeps(id) ==
  /\ Idle
  /\ row[id] \in {"pending", "uploading"}
  /\ \/ /\ activeUploads[id] # None
        /\ signal' = [signal EXCEPT ![activeUploads[id]] = "aborted"]
        /\ UNCHANGED <<row, queueVars>>
     \/ /\ activeUploads[id] = None
        /\ Unqueue(id)
        /\ Mark(id, "canceled")
        /\ UNCHANGED <<queued, signal>>
  /\ UNCHANGED <<path, file, remote, fin, activeUploads, activeWorkers, pc, job, src,
                 callee, settingVars, historyVars>>

\* DELETE /api/history/{id}/upload: cancelMegaUpload.  An id that is neither
\* in the map nor in the queue is "not-found", and nothing is done.
CancelUpload(id) ==
  /\ Idle
  /\ row[id] \in {"pending", "uploading"}
  /\ \/ /\ activeUploads[id] # None
        /\ signal' = [signal EXCEPT ![activeUploads[id]] =
                        IF @ = "clear" THEN "aborted" ELSE @]
        /\ UNCHANGED <<row, queueVars>>
     \/ /\ activeUploads[id] = None
        /\ Unqueue(id)
        /\ queued' = queued \ {id}
        /\ Mark(id, "canceled")
        /\ UNCHANGED signal
  /\ UNCHANGED <<path, file, remote, fin, activeUploads, activeWorkers, pc, job, src,
                 callee, settingVars, historyVars>>

\* DELETE /api/history/{id}: the local file goes and then the row.  What the
\* downloader says of the job does not matter.
DeleteRow(id) ==
  /\ Idle
  /\ row[id] \in {"null", "failed", "canceled"}
  /\ row' = [row EXCEPT ![id] = "absent"]
  /\ path' = [path EXCEPT ![id] = "null"]
  /\ file' = [file EXCEPT ![id] = IF @ = path[id] THEN "gone" ELSE @]
  /\ UNCHANGED <<remote, fin, queueVars, workerVars, callee, settingVars, historyVars>>

\* DELETE /api/history/{id}?localOnly=1: the file of an uploaded entry goes.
DeleteLocal(id) ==
  /\ Idle
  /\ row[id] = "uploaded"
  /\ file' = [file EXCEPT ![id] = IF @ = path[id] THEN "gone" ELSE @]
  /\ UNCHANGED <<row, path, remote, fin, queueVars, workerVars, callee, settingVars,
                 historyVars>>

\* POST /api/jobs with "overwrite" deletes an entry of the same identity, and
\* the backfill one whose copies are gone and which it has downloaded anew.
\* Both go by the row they found before their awaits (the other combos of the
\* request, MEGA, a hash), so that each of their two steps comes whatever the
\* row says by now.  deleteRemoteForJob, for a row that was uploaded:
OverwriteRemote(id) ==
  /\ Idle
  /\ upsets < MaxUpsets
  /\ upsets' = upsets + 1
  /\ WasUploaded(id)
  /\ remote' = [remote EXCEPT ![id] = FALSE]
  /\ doomed' = doomed \cup {id}
  /\ UNCHANGED <<row, path, file, fin, queueVars, workerVars, callee, enabled, limit,
                 paused, dropped, raced>>

\* deleteCompletedEntry removes the file, unless it has been renamed or that
\* fails, and the row goes; what became of the MEGA copy is only logged.
OverwriteDeletes(id) ==
  /\ Idle
  /\ fin[id] # "new" /\ row[id] # "absent"
  /\ \/ id \in doomed /\ UNCHANGED upsets
     \/ id \notin doomed /\ upsets < MaxUpsets /\ upsets' = upsets + 1
  /\ file' \in {file, [file EXCEPT ![id] = "gone"]}
  /\ row' = [row EXCEPT ![id] = "absent"]
  /\ path' = [path EXCEPT ![id] = "null"]
  /\ doomed' = doomed \cup {id}
  /\ UNCHANGED <<remote, fin, queueVars, workerVars, callee, enabled, limit, paused,
                 dropped, raced>>

\* PUT /api/settings: mega_enabled may change alone or with mega_max_parallel;
\* the latter calls notifyMaxParallelChanged.
SaveSettings(e, n) ==
  /\ Idle
  /\ upsets < MaxUpsets
  /\ upsets' = upsets + 1
  /\ <<e, n>> # <<enabled, limit>>
  /\ enabled' = e
  /\ limit' = n
  /\ callee' \in (IF n = limit THEN {"none"} ELSE {}) \cup {Spawning(activeWorkers, queue, n)}
  /\ UNCHANGED <<tableVars, queueVars, workerVars, historyVars>>

\* notifyMaxParallelChanged with the same limit, from a PUT or from syncSettings
\* each time the event stream reconnects, where spawnWorkers has work to do.
Notify ==
  /\ Idle
  /\ Spawning(activeWorkers, queue, limit) = "spawn"
  /\ callee' = "spawn"
  /\ UNCHANGED <<tableVars, queueVars, workerVars, settingVars, historyVars>>

\* A new process has none of what hung off globalThis, nor of what was awaited.
ForgetProcess ==
  /\ fin' = [id \in Ids |-> IF fin[id] = "hashing" THEN "done" ELSE fin[id]]
  /\ activeUploads' = [id \in Ids |-> None]
  /\ activeWorkers' = 0
  /\ pc' = [w \in Workers |-> "off"]
  /\ job' = [w \in Workers |-> None]
  /\ src' = [w \in Workers |-> "null"]
  /\ signal' = [w \in Workers |-> "clear"]
  /\ paused' = FALSE
  /\ dropped' = {}
  /\ raced' = {}
  /\ UNCHANGED doomed

\* Mutant: startMegaUploader asks for the pending rows only.
RestartPendingOnly ==
  /\ upsets < MaxUpsets
  /\ upsets' = upsets + 1
  /\ \E s \in SetToSeqs({id \in Ids : row[id] = "pending"}) : queue' = s
  /\ queued' = ToSet(queue')
  /\ callee' = Spawning(0, queue', limit)
  /\ ForgetProcess
  /\ UNCHANGED <<row, path, file, remote, enabled, limit>>

\* finalizeCompleted or rehashLocal is taking the hash and will rename the file.
Renaming(id) == path[id] = "raw" /\ file[id] = "raw"

\* The service stops at any point and starts again: what hung off globalThis
\* and the uploads are gone, what was hashing or overwriting is not resumed,
\* even if it had renamed the file and not told the row, and
\* startMegaUploader queues the rows left pending or uploading, in the order
\* their downloads finished.
Restart ==
  /\ upsets < MaxUpsets
  /\ upsets' = upsets + 1
  /\ \E s \in SetToSeqs({id \in Ids : row[id] \in {"pending", "uploading"}}) : queue' = s
  /\ queued' = ToSet(queue')
  /\ row' = [id \in Ids |-> IF row[id] = "uploading" THEN "pending" ELSE row[id]]
  /\ callee' = Spawning(0, queue', limit)
  /\ \/ UNCHANGED file
     \/ \E id \in Ids : Renaming(id) /\ file' = [file EXCEPT ![id] = "hashed"]
  /\ ForgetProcess
  /\ UNCHANGED <<path, remote, enabled, limit>>

-----------------------------------------------------------------------------
(* spawnWorkers and workerLoop.                                            *)

\* spawnWorkers calls workerLoop, which counts itself at once.
Spawn ==
  /\ callee = "spawn"
  /\ callee' = "call"
  /\ \E w \in Workers : pc[w] = "off" /\ Goto(w, "called")
  /\ activeWorkers' = activeWorkers + 1
  /\ UNCHANGED <<tableVars, queueVars, activeUploads, job, src, signal, settingVars,
                 historyVars>>

\* Mutant: no check of the limit at all.
NeverOverLimit == FALSE

OverLimit == activeWorkers > limit

\* The top of workerLoop's outer loop, reached from spawnWorkers or after a
\* disconnect, up to its return or its next await; the former then tests its
\* own loop again.
LoopTop(w) ==
  /\ pc[w] = IF Idle THEN "closing" ELSE "called"
  /\ IF queue = <<>> \/ ~ enabled \/ OverLimit
     THEN /\ Goto(w, "off")
          /\ activeWorkers' = activeWorkers - 1
          /\ paused' = (paused \/ (queue # <<>> /\ ~ enabled))
     ELSE /\ Goto(w, "connecting")
          /\ UNCHANGED activeWorkers
          /\ paused' = FALSE
  /\ callee' = IF Idle THEN callee ELSE Spawning(activeWorkers', queue, limit)
  /\ UNCHANGED <<tableVars, queueVars, activeUploads, job, src, signal, settingVars,
                 dropped, raced, doomed>>

At(w, place) == Idle /\ pc[w] = place

Connected(w) ==
  /\ At(w, "connecting")
  /\ Goto(w, "drain")
  /\ UNCHANGED <<tableVars, queueVars, activeUploads, activeWorkers, job, src, signal,
                 callee, settingVars, historyVars>>

\* Mutant: the error path counts the worker out, and so does its return.
ConnectFailsUncounts(w) ==
  /\ At(w, "connecting")
  /\ Goto(w, "closing")
  /\ activeWorkers' = activeWorkers - 1
  /\ UNCHANGED <<tableVars, queueVars, activeUploads, job, src, signal, callee,
                 settingVars, historyVars>>

\* Mutant: a failed login ends the worker.
ConnectFailsExits(w) ==
  /\ At(w, "connecting")
  /\ Goto(w, "off")
  /\ activeWorkers' = activeWorkers - 1
  /\ UNCHANGED <<tableVars, queueVars, activeUploads, job, src, signal, callee,
                 settingVars, historyVars>>

\* The login is refused: the error is caught and the outer loop goes round.
ConnectFails(w) ==
  /\ At(w, "connecting")
  /\ Goto(w, "closing")
  /\ UNCHANGED <<tableVars, queueVars, activeUploads, activeWorkers, job, src, signal,
                 callee, settingVars, historyVars>>

\* The inner loop ends: nothing to do, or too many workers.
DrainEnds(w) ==
  /\ At(w, "drain")
  /\ queue = <<>> \/ OverLimit
  /\ Goto(w, "closing")
  /\ UNCHANGED <<tableVars, queueVars, activeUploads, activeWorkers, job, src, signal,
                 callee, settingVars, historyVars>>

\* Mutant: a job whose file is missing is skipped and not marked failed.
TakeSilently(w) ==
  /\ At(w, "drain")
  /\ queue # <<>>
  /\ ~ OverLimit
  /\ queue' = Tail(queue)
  /\ queued' = queued \ {Head(queue)}
  /\ LET id == Head(queue) IN
       IF file[id] # path[id] \/ row[id] \in {"absent", "canceled"}
       THEN UNCHANGED <<row, pc, job, src>>
       ELSE /\ UNCHANGED row
            /\ Goto(w, "folder")
            /\ job' = [job EXCEPT ![w] = id]
            /\ src' = [src EXCEPT ![w] = path[id]]
  /\ UNCHANGED <<path, file, remote, fin, activeUploads, activeWorkers, signal, callee,
                 settingVars, historyVars>>

\* The inner loop takes an id, and processOne runs up to its first await.
Take(w) ==
  /\ At(w, "drain")
  /\ queue # <<>>
  /\ ~ OverLimit
  /\ queue' = Tail(queue)
  /\ queued' = queued \ {Head(queue)}
  /\ LET id == Head(queue) IN
       \/ /\ row[id] \in {"absent", "canceled"}
          /\ UNCHANGED <<row, pc, job, src>>
       \/ /\ row[id] \notin {"absent", "canceled"}
          /\ file[id] # path[id]
          /\ Mark(id, "failed")
          /\ UNCHANGED <<pc, job, src>>
       \/ /\ row[id] \notin {"absent", "canceled"}
          /\ file[id] = path[id]
          /\ Goto(w, "folder")
          /\ job' = [job EXCEPT ![w] = id]
          /\ src' = [src EXCEPT ![w] = path[id]]
          /\ UNCHANGED row
  /\ UNCHANGED <<path, file, remote, fin, activeUploads, activeWorkers, signal, callee,
                 settingVars, historyVars>>

-----------------------------------------------------------------------------
(* The rest of processOne.                                                 *)

\* ensureFolder has returned: from here a DELETE finds the controller.
FolderReady(w) ==
  /\ At(w, "folder")
  /\ Goto(w, "stat")
  /\ activeUploads' = [activeUploads EXCEPT ![job[w]] = w]
  /\ Mark(job[w], "uploading")
  /\ UNCHANGED <<path, file, remote, fin, queueVars, activeWorkers, job, src, signal,
                 callee, settingVars, historyVars>>

\* ensureFolder throws, outside processOne's try: workerLoop catches it.
FolderFails(w) ==
  /\ At(w, "folder")
  /\ Goto(w, "closing")
  /\ dropped' = dropped \cup {job[w]}
  /\ job' = [job EXCEPT ![w] = None]
  /\ src' = [src EXCEPT ![w] = "null"]
  /\ UNCHANGED <<tableVars, queueVars, activeUploads, activeWorkers, signal, callee,
                 settingVars, paused, raced, doomed>>

\* processOne is done with its job: the finally block, and back to the queue.
Release(w) ==
  /\ Goto(w, "drain")
  /\ activeUploads' = [activeUploads EXCEPT ![job[w]] = None]
  /\ job' = [job EXCEPT ![w] = None]
  /\ src' = [src EXCEPT ![w] = "null"]
  /\ signal' = [signal EXCEPT ![w] = "clear"]

\* processOne's catch block.
Caught(w) ==
  /\ Mark(job[w], IF signal[w] = "clear" THEN "failed" ELSE "canceled")
  /\ Release(w)

\* uploadFile's stat: the file may have been renamed or removed meanwhile.
\* An abort that came before the listeners were added is not noticed again
\* until the upload is complete.
Opened(w) ==
  /\ At(w, "stat")
  /\ \/ /\ file[job[w]] = src[w]
        /\ Goto(w, "uploading")
        /\ signal' = [signal EXCEPT ![w] = IF @ = "clear" THEN @ ELSE "missed"]
        /\ UNCHANGED <<row, activeUploads, job, src>>
     \/ file[job[w]] # src[w] /\ Caught(w)
  /\ UNCHANGED <<path, file, remote, fin, queueVars, activeWorkers, callee, settingVars,
                 historyVars>>

\* The race in uploadFile is lost to the abort; MEGA may have it all by then.
UploadAborted(w) ==
  /\ At(w, "uploading")
  /\ signal[w] = "aborted"
  /\ \/ UNCHANGED remote
     \/ remote' = [remote EXCEPT ![job[w]] = TRUE]
  /\ Caught(w)
  /\ UNCHANGED <<path, file, fin, queueVars, activeWorkers, callee, settingVars,
                 historyVars>>

\* Mutant: the local file is removed while the upload may still fail.
UploadUnlinksFirst(w) ==
  /\ At(w, "uploading")
  /\ signal[w] # "aborted"
  /\ file' = [file EXCEPT ![job[w]] = "gone"]
  /\ UNCHANGED remote
  /\ Caught(w)
  /\ UNCHANGED <<path, fin, queueVars, activeWorkers, callee, settingVars, historyVars>>

UploadFails(w) ==
  /\ At(w, "uploading")
  /\ signal[w] # "aborted"
  /\ Caught(w)
  /\ UNCHANGED <<path, file, remote, fin, queueVars, activeWorkers, callee, settingVars,
                 historyVars>>

\* The upload is complete.  A missed abort throws now; otherwise the row is
\* marked, and the local copy goes unless it is to be kept.
Uploaded(w) ==
  /\ At(w, "uploading")
  /\ signal[w] # "aborted"
  /\ remote' = [remote EXCEPT ![job[w]] = TRUE]
  /\ \/ signal[w] = "missed" /\ Caught(w)
     \/ /\ signal[w] = "clear"
        /\ Mark(job[w], "uploaded")
        /\ \/ Release(w)
           \/ Goto(w, "unlinking") /\ UNCHANGED <<activeUploads, job, src, signal>>
  /\ UNCHANGED <<path, file, fin, queueVars, activeWorkers, callee, settingVars,
                 historyVars>>

\* unlink of the path processOne started with, or its error.
Unlinked(w) ==
  /\ At(w, "unlinking")
  /\ \/ file' = [file EXCEPT ![job[w]] = IF @ = src[w] THEN "gone" ELSE @]
     \/ UNCHANGED file
  /\ Release(w)
  /\ UNCHANGED <<row, path, remote, fin, queueVars, activeWorkers, callee, settingVars,
                 historyVars>>

-----------------------------------------------------------------------------
Init ==
  /\ row = [id \in Ids |-> "null"]
  /\ path = [id \in Ids |-> "null"]
  /\ file = [id \in Ids |-> "gone"]
  /\ remote = [id \in Ids |-> FALSE]
  /\ fin = [id \in Ids |-> "new"]
  /\ queue = <<>>
  /\ queued = {}
  /\ callee = "none"
  /\ enabled \in BOOLEAN
  /\ limit \in Limits
  /\ upsets = 0
  /\ activeUploads = [id \in Ids |-> None]
  /\ activeWorkers = 0
  /\ pc = [w \in Workers |-> "off"]
  /\ job = [w \in Workers |-> None]
  /\ src = [w \in Workers |-> "null"]
  /\ signal = [w \in Workers |-> "clear"]
  /\ paused = FALSE
  /\ dropped = {}
  /\ raced = {}
  /\ doomed = {}

\* What a worker does by itself, each await coming back some day.
WorkerStep(w) ==
  \/ LoopTop(w) \/ DrainEnds(w) \/ Take(w) \/ FolderReady(w) \/ Opened(w)
  \/ UploadAborted(w) \/ Uploaded(w) \/ Unlinked(w)

Next ==
  \/ \E id \in Ids :
       \/ Complete(id) \/ Finalize(id) \/ RehashLocal(id)
       \/ RequestUpload(id) \/ CancelUpload(id) \/ DeleteRow(id) \/ DeleteLocal(id)
       \/ OverwriteRemote(id) \/ OverwriteDeletes(id)
  \/ \E e \in BOOLEAN, n \in Limits : SaveSettings(e, n)
  \/ Notify
  \/ Restart
  \/ Spawn
  \/ \E w \in Workers :
       WorkerStep(w) \/ Connected(w) \/ ConnectFails(w) \/ FolderFails(w) \/ UploadFails(w)

(***************************************************************************)
(* Fairness.  The event loop is FIFO, so an await that is over is followed *)
(* by its continuation however busy the routes keep it: strong fairness of *)
(* a worker's own steps, which assumes that MEGA answers each upload, with *)
(* success or not.  Connecting is retried without end, so that MEGA lets a *)
(* worker in some day is an assumption of its own.  Users need not act.    *)
(***************************************************************************)
Fairness ==
  /\ WF_vars(Spawn)
  /\ \A w \in Workers : SF_vars(WorkerStep(w)) /\ SF_vars(Connected(w))

Spec == Init /\ [][Next]_vars /\ Fairness

-----------------------------------------------------------------------------
TypeOK ==
  /\ row \in [Ids -> {"null", "pending", "uploading", "uploaded", "failed",
                      "canceled", "absent"}]
  /\ path \in [Ids -> {"null", "raw", "hashed"}]
  /\ file \in [Ids -> {"raw", "hashed", "gone"}]
  /\ remote \in [Ids -> BOOLEAN]
  /\ fin \in [Ids -> {"new", "hashing", "done"}]
  /\ queue \in Seq(Ids)
  /\ queued \in SUBSET Ids
  /\ activeUploads \in [Ids -> Workers \cup {None}]
  /\ activeWorkers \in 0..MaxLimit
  /\ pc \in [Workers -> PCs]
  /\ job \in [Workers -> Ids \cup {None}]
  /\ src \in [Workers -> {"null", "raw", "hashed"}]
  /\ signal \in [Workers -> {"clear", "aborted", "missed"}]
  /\ callee \in {"none", "spawn", "call"}
  /\ enabled \in BOOLEAN
  /\ limit \in Limits
  /\ upsets \in 0..MaxUpsets
  /\ paused \in BOOLEAN
  /\ dropped \in SUBSET Ids
  /\ raced \in SUBSET Ids
  /\ doomed \in SUBSET Ids

Live == {w \in Workers : pc[w] # "off"}

\* The set `queued` that guards enqueueMegaUpload mirrors the queue: an id
\* left behind in it could never be uploaded again, and an id missing from it
\* could be queued, and uploaded, twice.
QueueMirrored ==
  /\ queued = ToSet(queue)
  /\ IsInjective(queue)

\* A row that says pending is not forgotten: the queue or a worker has the
\* id.  The exception is an id whose ensureFolder threw.
PendingTracked ==
  \A id \in Ids : row[id] = "pending" =>
    \/ id \in queued
    \/ \E w \in Workers : job[w] = id
    \/ id \in dropped

\* cancelMegaUpload reaches every upload the table shows as uploading, and no
\* job is uploaded by two workers.  The exception is a job that finalizeCompleted
\* or rehashLocal queues, after the await of its hash and without a look at the
\* row, when a worker has it already or has uploaded it.
UploadsCancelable ==
  \A id \in Ids \ raced :
    /\ row[id] = "uploading" => activeUploads[id] # None /\ job[activeUploads[id]] = id
    /\ \A v, w \in Workers : job[v] = id /\ job[w] = id => v = w

\* A finished download is on disk or on MEGA until its row is deleted, under
\* every interleaving of uploads, cancels, renames and restarts.  The exception
\* is an entry an overwrite has begun to delete, which a restart may leave with
\* its row and neither copy.
NoFileLost ==
  \A id \in Ids \ doomed :
    fin[id] # "new" /\ row[id] # "absent" => file[id] # "gone" \/ remote[id]

\* Workers that find themselves over the limit do not all leave, nor does one
\* whose login is refused: as long as there is something to upload one stays,
\* unless MEGA is disabled.
QueueServed == queue # <<>> /\ Idle => Live # {} \/ paused

\* What the lifecycle of an upload sees of the jobs table and the files.
LifeStatus ==
  [id \in Ids |-> IF id \in doomed THEN "retired"
                  ELSE IF row[id] = "absent" THEN "absent"
                  ELSE IF id \in raced THEN "disputed" ELSE row[id]]
OnDisk == {id \in Ids : file[id] # "gone"}
OnMega == {id \in Ids : remote[id]}

Lifecycle == INSTANCE UploadLifecycle WITH status <- LifeStatus, disk <- OnDisk, mega <- OnMega

\* Every step of the routes, finalizeCompleted, the backfill, the workers and a
\* restart is one of the lifecycle: no status is skipped, taken back or written to
\* a deleted row, and uploaded is final, as in the pipeline of docs/architecture.md,
\* but for the jobs that finalizeCompleted or rehashLocal queues again and those an
\* overwrite deletes; nor is a file removed that is nowhere else.
ImplementsUploads == Lifecycle!Spec

\* Every upload asked for comes to an end, however often MEGA refuses the
\* login, unless its folder cannot be made or MEGA gets disabled.
UploadsSettle ==
  \A id \in Ids : row[id] = "pending" ~>
    row[id] \notin {"pending", "uploading"} \/ id \in dropped \/ paused

\* Reducing the limit takes effect: the workers over it exit.
LimitHonoured == (activeWorkers > limit) ~> (activeWorkers <= limit)

\* What the upload route says of a request made while MEGA is disabled, that
\* the upload waits for the next time the queue ticks: spawnWorkers returns.
SpawnReturns == (callee = "spawn") ~> (callee = "none")
=============================================================================
