------------------------------ MODULE Library ------------------------------
(***************************************************************************)
(* What becomes of a downloaded file: the rows of the jobs table           *)
(* (src/web/src/lib/db.ts), the files of one <format>/<container>          *)
(* directory and the nodes on MEGA, as POST /api/jobs and its conflict     *)
(* resolutions, finalizeCompleted (src/web/server.ts), the uploader, the   *)
(* history routes and the maintenance tasks change them.                   *)
(*                                                                         *)
(* All jobs download one source: one [id], one identity, one title.  So a  *)
(* file's name is Plain, as yt-dlp writes it, or the content whose hash it *)
(* embeds.  Each await of the code ends an action.                         *)
(***************************************************************************)
EXTENDS Naturals, FiniteSets, SequencesExt

CONSTANTS
  Jobs,      \* job ids
  Old,       \* those whose rows may be older than the content hash
  Contents,  \* what the source may serve
  Plain,     \* the name without a hash
  Workers,   \* upload workers
  Requests,  \* bound: slots for requests that overwrite
  MaxInputs, \* bound: requests of the user and restarts in a behaviour
  MaxNodes,  \* bound: nodes on MEGA
  None

ASSUME LibraryAssumption ==
  /\ Old \subseteq Jobs
  /\ Plain \notin Contents /\ None \notin Contents \cup {Plain}
  /\ None \notin {"pending", "uploading", "uploaded"}
  /\ MaxInputs \in Nat /\ MaxNodes \in Nat \ {0}

Names == Contents \cup {Plain}
Tasks == {"backfill", "regroup"}

VARIABLES
  row,    \* the jobs table: a record per job, or None
  disk,   \* the directory: the content under each name, or None
  remote, \* the nodes on MEGA, in the order they were made
  run,    \* yt-dlp: "none", "queued", "running", "landed" (its file is in place), "over"
  fin,    \* finalizeCompleted: the file it is hashing, or None
  queue,  \* the ids queued for upload
  upload, \* processOne: what each upload worker is sending or unlinking, or None
  post,   \* each POST /api/jobs between the awaits of an overwrite, or None
  maint,  \* the maintenance run, or None
  mega,   \* the mega_enabled setting
  inputs  \* requests and restarts so far

fileVars == <<disk, remote>>
upVars == <<queue, upload>>
vars == <<row, fileVars, run, fin, upVars, post, maint, mega, inputs>>

Input == inputs < MaxInputs /\ inputs' = inputs + 1

-----------------------------------------------------------------------------
(* Rows, files and nodes.                                                  *)

\* Where targetFolderPath puts a row's file: in its playlist's folder, in that
\* of its season, or beside the playlists.
Folders == {"playlist", "season", "single"}

NewRow(folder) ==
  [status |-> "active", path |-> None, hash |-> None, mega |-> None,
   remoteName |-> None, folder |-> folder]

\* UPDATE jobs SET ... WHERE id = j: nothing, if the row is gone.
Set(j, new) == row' = [row EXCEPT ![j] = IF @ = None THEN None ELSE new]

Path(j) == IF row[j] = None THEN None ELSE row[j].path

\* findExistingByIdentity.
Existing ==
  {j \in Jobs : row[j] # None /\ (row[j].status = "completed" \/ row[j].mega = "uploaded")}

\* listJobsMissingHash, listUploadedPlaylistJobsWithoutSeason.
MissingHash == {j \in Existing : row[j].hash = None}
WithoutSeason ==
  {j \in Jobs : /\ row[j] # None /\ row[j].mega = "uploaded"
                /\ row[j].remoteName # None /\ row[j].folder = "playlist"}

Files == {n \in Names : disk[n] # None}

\* resolveActualFile: the path itself, else a finished file of the same [id],
\* the newest by dates that yt-dlp takes from the source.
Resolve(path) == IF path = None THEN {} ELSE IF path \in Files THEN {path} ELSE Files

\* Mutant: the marker does not depend on the content.
InsertId(name, c) == CHOOSE id \in Contents : TRUE

\* insertHashIntoName replaces the hash a name has.
InsertHash(name, c) == c

Move(from, to) == [disk EXCEPT ![to] = disk[from], ![from] = None]
Unlink(name) == IF name = None THEN disk ELSE [disk EXCEPT ![name] = None]

\* The name under which a row's node is looked for.
RemoteName(r) == IF r.remoteName # None THEN r.remoteName ELSE r.path

\* MegaClient.findFile: the first child of that name, or 0.
Find(name, folder) ==
  SelectInSeq(remote, LAMBDA n : n.name = name /\ n.folder = folder)

\* deleteRemoteForJob: not when MEGA is disabled, and it may fail.
DeleteRemote(r) ==
  LET i == Find(RemoteName(r), r.folder) IN
  \/ UNCHANGED remote
  \/ mega /\ i # 0 /\ remote' = RemoveAt(remote, i)

-----------------------------------------------------------------------------
(* The download.                                                           *)

\* insertJob and postJob.
Insert(rows, j, folder) ==
  /\ run[j] = "none"
  /\ row' = [rows EXCEPT ![j] = NewRow(folder)]
  /\ run' = [run EXCEPT ![j] = "queued"]

\* yt-dlp starts.  A file that is there already it does not download again.
Start(j) ==
  /\ run[j] = "queued"
  /\ run' = [run EXCEPT ![j] = IF Plain \in Files THEN "landed" ELSE "running"]
  /\ UNCHANGED <<row, fileVars, fin, upVars, post, maint, mega, inputs>>

\* It moves its .part file into place, if that is still there.
Land(j) ==
  /\ run[j] = "running"
  /\ run' = [run EXCEPT ![j] = "landed"]
  /\ \E c \in Contents : disk' = [disk EXCEPT ![Plain] = c]
  /\ UNCHANGED <<row, remote, fin, upVars, post, maint, mega, inputs>>

\* The failed or canceled event; a job canceled in the queue has no path.
Fails(j) ==
  /\ run[j] \in {"queued", "running"}
  /\ run' = [run EXCEPT ![j] = "over"]
  /\ Set(j, [row[j] EXCEPT !.status = "failed",
               !.path = IF run[j] = "queued" THEN @ ELSE Plain])
  /\ UNCHANGED <<fileVars, fin, upVars, post, maint, mega, inputs>>

\* markMegaPending and enqueueMegaUpload, if MEGA is enabled.
SetAndUpload(j, r) ==
  /\ Set(j, IF mega THEN [r EXCEPT !.mega = "pending"] ELSE r)
  /\ queue' = IF mega THEN queue \cup {j} ELSE queue

\* The completed event, and finalizeCompleted up to its await.
Completes(j) ==
  /\ run[j] = "landed"
  /\ run' = [run EXCEPT ![j] = "over"]
  /\ LET done == [row[j] EXCEPT !.status = "completed", !.path = Plain] IN
       \/ \E f \in Resolve(Plain) :
            /\ Set(j, done)
            /\ fin' = [fin EXCEPT ![j] = [file |-> f, content |-> disk[f]]]
            /\ UNCHANGED queue
       \/ Resolve(Plain) = {} /\ SetAndUpload(j, done) /\ UNCHANGED fin
  /\ UNCHANGED <<fileVars, upload, post, maint, mega, inputs>>

\* The directory once finalizeCompleted has renamed a file, or dropped it for one
\* of the same name.
Renamed(f, named) ==
  IF f = named THEN disk ELSE IF named \in Files THEN Unlink(f) ELSE Move(f, named)

\* It has the hash; a rename that fails leaves the row without it.
Finalized(j) ==
  /\ fin[j] # None
  /\ LET f == fin[j].file
         named == InsertHash(f, fin[j].content)
         hashed == [row[j] EXCEPT !.path = named, !.hash = fin[j].content]
     IN
     IF {f, named} \cap Files = {}
       THEN SetAndUpload(j, row[j]) /\ UNCHANGED disk
       ELSE SetAndUpload(j, hashed) /\ disk' = Renamed(f, named)
  /\ fin' = [fin EXCEPT ![j] = None]
  /\ UNCHANGED <<remote, run, upload, post, maint, mega, inputs>>

-----------------------------------------------------------------------------
(* POST /api/jobs.                                                         *)

\* Nothing exists, or the user appends.
Post(j) ==
  /\ Input
  /\ Insert(row, j, "season")
  /\ UNCHANGED <<fileVars, fin, upVars, post, maint, mega>>

\* The user overwrites: the row that will go is found when the combos are built.
Overwrite(q, e) ==
  /\ Input
  /\ post[q] = None
  /\ e \in Existing
  /\ post' = [post EXCEPT ![q] = [old |-> e, seen |-> row[e], pc |-> "remote"]]
  /\ UNCHANGED <<row, fileVars, run, fin, upVars, maint, mega>>

PostAt(q, pc) == post[q] # None /\ post[q].pc = pc

\* When its combo has its turn, the copy on MEGA goes first.
OverwriteRemote(q) ==
  /\ PostAt(q, "remote")
  /\ post' = [post EXCEPT ![q].pc = "check"]
  /\ IF post[q].seen.mega = "uploaded" THEN DeleteRemote(post[q].seen) ELSE UNCHANGED remote
  /\ UNCHANGED <<row, disk, run, fin, upVars, maint, mega, inputs>>

\* deleteCompletedEntry: a file whose hash is not the recorded one stays.
OverwriteCheck(q) ==
  /\ PostAt(q, "check")
  /\ LET p == post[q].seen.path
         mine == p \in Files /\ post[q].seen.hash \in {None, disk[p]}
     IN post' = [post EXCEPT ![q].pc = IF mine THEN "unlink" ELSE "leave"]
  /\ UNCHANGED <<row, fileVars, run, fin, upVars, maint, mega, inputs>>

\* The old row goes and the new one is inserted.
OverwriteDone(q, j) ==
  /\ PostAt(q, "unlink") \/ PostAt(q, "leave")
  /\ disk' = IF post[q].pc = "unlink" THEN Unlink(post[q].seen.path) ELSE disk
  /\ Insert([row EXCEPT ![post[q].old] = None], j, "season")
  /\ post' = [post EXCEPT ![q] = None]
  /\ UNCHANGED <<remote, fin, upVars, maint, mega, inputs>>

-----------------------------------------------------------------------------
(* The uploader (MegaUploader has its queue and workers), and the history  *)
(* routes.                                                                 *)

\* processOne looks at the row's path, not whether it is uploaded.
UploadStarts(w, j) ==
  /\ mega /\ upload[w] = None /\ j \in queue
  /\ queue' = queue \ {j}
  /\ IF Path(j) \in Files
       THEN /\ Set(j, [row[j] EXCEPT !.mega = "uploading"])
            /\ upload' = [upload EXCEPT ![w] =
                 [job |-> j, path |-> Path(j), folder |-> row[j].folder,
                  content |-> disk[Path(j)], pc |-> "sending"]]
       ELSE /\ IF Path(j) = None THEN UNCHANGED row
               ELSE Set(j, [row[j] EXCEPT !.mega = "failed"])
            /\ UNCHANGED upload
  /\ UNCHANGED <<fileVars, run, fin, post, maint, mega, inputs>>

UploadAt(w, pc) == upload[w] # None /\ upload[w].pc = pc

\* The node is there: the row says so, and the local copy is next unless it is
\* to be kept.
Uploaded(w) ==
  /\ UploadAt(w, "sending") /\ Len(remote) < MaxNodes
  /\ LET u == upload[w] IN
     /\ remote' = Append(remote, [name |-> u.path, folder |-> u.folder, content |-> u.content])
     /\ Set(u.job, [row[u.job] EXCEPT !.mega = "uploaded", !.remoteName = u.path])
  /\ \/ upload' = [upload EXCEPT ![w] = None]
     \/ upload' = [upload EXCEPT ![w].pc = "unlinking"]
  /\ UNCHANGED <<disk, run, fin, queue, post, maint, mega, inputs>>

\* The unlink has been done, or has failed.
Unlinked(w) ==
  /\ UploadAt(w, "unlinking")
  /\ disk' \in {disk, Unlink(upload[w].path)}
  /\ upload' = [upload EXCEPT ![w] = None]
  /\ UNCHANGED <<row, remote, run, fin, queue, post, maint, mega, inputs>>

UploadFails(w) ==
  /\ UploadAt(w, "sending")
  /\ Set(upload[w].job, [row[upload[w].job] EXCEPT !.mega = "failed"])
  /\ upload' = [upload EXCEPT ![w] = None]
  /\ UNCHANGED <<fileVars, run, fin, queue, post, maint, mega, inputs>>

\* POST /api/history/:id/upload.
RequestUpload(j) ==
  /\ Input
  /\ Path(j) \in Files
  /\ row[j].status = "completed" /\ row[j].mega \in {None, "failed"}
  /\ Set(j, [row[j] EXCEPT !.mega = "pending"])
  /\ queue' = queue \cup {j}
  /\ UNCHANGED <<fileVars, run, fin, upload, post, maint, mega>>

\* DELETE /api/history/:id, and its localOnly form.
Delete(j) ==
  /\ Input
  /\ row[j] # None
  /\ \/ row[j].mega \in {None, "failed"} /\ row' = [row EXCEPT ![j] = None]
     \/ row[j].mega = "uploaded" /\ UNCHANGED row
  /\ disk' = Unlink(Path(j))
  /\ UNCHANGED <<remote, run, fin, upVars, post, maint, mega>>

-----------------------------------------------------------------------------
(* Maintenance: one run at a time, one step after the other.               *)

At(pc) == maint # None /\ maint.pc = pc
Pending(task) ==
  IF task = "backfill" THEN MissingHash ELSE IF mega THEN WithoutSeason ELSE {}

\* startRun and plan(): the ids for which there is something to do.
StartTask(task) ==
  /\ Input
  /\ maint = None
  /\ Pending(task) # {}
  /\ maint' = [task |-> task, todo |-> Pending(task), pc |-> "next",
               job |-> None, seen |-> None, file |-> None, content |-> None]
  /\ UNCHANGED <<row, fileVars, run, fin, upVars, post, mega>>

EndTask ==
  /\ At("next") /\ maint.todo = {}
  /\ maint' = None
  /\ UNCHANGED <<row, fileVars, run, fin, upVars, post, mega, inputs>>

StepOver ==
  maint' = [maint EXCEPT !.pc = "next", !.job = None, !.seen = None, !.file = None,
              !.content = None]

\* Mutant: apply() does not read the row again.
TakesUnread(j) ==
  /\ At("next") /\ j \in maint.todo
  /\ maint' = [maint EXCEPT !.todo = @ \ {j}, !.job = j, !.seen = row[j], !.pc = "connect"]
  /\ UNCHANGED <<row, fileVars, run, fin, upVars, post, mega, inputs>>

\* apply() reads the row, and skips one that calls for nothing any more.
Takes(j) ==
  /\ At("next") /\ j \in maint.todo
  /\ LET picked == [maint EXCEPT !.todo = @ \ {j}, !.job = j, !.seen = row[j]]
         onDisk == Resolve(Path(j))
     IN
     \/ /\ j \notin Pending(maint.task)
        /\ maint' = [maint EXCEPT !.todo = @ \ {j}]
     \/ /\ j \in Pending(maint.task) /\ maint.task = "backfill"
        /\ \E f \in onDisk :
             maint' = [picked EXCEPT !.pc = "hash", !.file = f, !.content = disk[f]]
     \/ /\ j \in Pending(maint.task) /\ (maint.task = "backfill" => onDisk = {})
        /\ maint' = [picked EXCEPT !.pc = "connect"]
  /\ UNCHANGED <<row, fileVars, run, fin, upVars, post, mega, inputs>>

\* A step that throws, or gives up.
Throws ==
  /\ maint # None /\ maint.pc \in {"hash", "connect", "fetch", "wait"}
  /\ StepOver
  /\ UNCHANGED <<row, fileVars, run, fin, upVars, post, mega, inputs>>

\* rehashLocal has the hash, and goes by the mega_status of before.
HashedLocal ==
  /\ At("hash")
  /\ LET j == maint.job
         named == InsertHash(maint.file, maint.content)
         hashed == [row[j] EXCEPT !.path = named, !.hash = maint.content]
     IN
     /\ {maint.file, named} \cap Files # {}
     /\ disk' = IF named \in Files THEN disk ELSE Move(maint.file, named)
     /\ IF maint.seen.mega = "uploaded"
          THEN Set(j, hashed) /\ UNCHANGED queue
          ELSE SetAndUpload(j, hashed)
  /\ StepOver
  /\ UNCHANGED <<remote, run, fin, upload, post, mega, inputs>>

\* rehashRemoteForJob: the node is downloaded, renamed and then recorded.  It
\* is known by its handle: one that was deleted meanwhile is not renamed.
OnRemote(r) == mega /\ r.mega = "uploaded" /\ Find(RemoteName(r), r.folder) # 0

Fetch ==
  /\ At("connect") /\ maint.task = "backfill"
  /\ OnRemote(maint.seen)
  /\ LET node == remote[Find(RemoteName(maint.seen), maint.seen.folder)] IN
       maint' = [maint EXCEPT !.pc = "fetch", !.content = node.content,
                   !.file = InsertHash(maint.seen.path, node.content)]
  /\ UNCHANGED <<row, fileVars, run, fin, upVars, post, mega, inputs>>

RenameNode ==
  /\ At("fetch")
  /\ LET i == Find(RemoteName(maint.seen), maint.seen.folder) IN
     /\ i # 0 /\ remote[i].content = maint.content
     /\ remote' = [remote EXCEPT ![i].name = maint.file]
  /\ maint' = [maint EXCEPT !.pc = "record"]
  /\ UNCHANGED <<row, disk, run, fin, upVars, post, mega, inputs>>

\* Mutant: the node's new name is not recorded.
RecordHashKeepsName ==
  /\ At("record")
  /\ Set(maint.job, [row[maint.job] EXCEPT !.hash = maint.content, !.path = maint.file])
  /\ StepOver
  /\ UNCHANGED <<fileVars, run, fin, upVars, post, mega, inputs>>

RecordHash ==
  /\ At("record")
  /\ LET j == maint.job IN
       Set(j, [row[j] EXCEPT !.hash = maint.content, !.path = maint.file,
                 !.remoteName = maint.file])
  /\ StepOver
  /\ UNCHANGED <<fileVars, run, fin, upVars, post, mega, inputs>>

\* rehashUploaded: a new download of the source, in a new row, which is not
\* told its playlist.
ReDownload(new) ==
  /\ At("connect") /\ maint.task = "backfill"
  /\ ~ OnRemote(maint.seen)
  /\ Insert(row, new, "single")
  /\ maint' = [maint EXCEPT !.pc = "wait", !.file = new, !.content = mega]
  /\ UNCHANGED <<fileVars, fin, upVars, post, mega, inputs>>

\* Mutant: the row is enough.
ReadyAtOnce(r, enabled) == r # None

\* waitReady, by the setting of when it began; then the old copy is deleted.
Ready(r, enabled) ==
  /\ r # None
  /\ r.status # "failed"
  /\ IF enabled THEN r.mega = "uploaded" ELSE r.status = "completed" /\ r.hash # None

Replace ==
  /\ At("wait")
  /\ Ready(row[maint.file], maint.content)
  /\ IF maint.seen.mega = "uploaded" THEN DeleteRemote(maint.seen) ELSE UNCHANGED remote
  /\ maint' = [maint EXCEPT !.pc = "drop"]
  /\ UNCHANGED <<row, disk, run, fin, upVars, post, mega, inputs>>

Dropped ==
  /\ At("drop")
  /\ row' = [row EXCEPT ![maint.job] = None]
  /\ StepOver
  /\ UNCHANGED <<fileVars, run, fin, upVars, post, mega, inputs>>

\* regroup-seasons: a node of that name in the season's folder is taken for the
\* row's, one in the playlist's is moved, then recorded.
MoveNode ==
  /\ At("connect") /\ maint.task = "regroup"
  /\ LET name == maint.seen.remoteName
         i == Find(name, "playlist")
     IN
     IF Find(name, "season") # 0 THEN UNCHANGED remote
     ELSE i # 0 /\ remote' = [remote EXCEPT ![i].folder = "season"]
  /\ maint' = [maint EXCEPT !.pc = "moved"]
  /\ UNCHANGED <<row, disk, run, fin, upVars, post, mega, inputs>>

RecordSeason ==
  /\ At("moved")
  /\ Set(maint.job, [row[maint.job] EXCEPT !.folder = "season"])
  /\ StepOver
  /\ UNCHANGED <<fileVars, run, fin, upVars, post, mega, inputs>>

-----------------------------------------------------------------------------

\* PUT /api/settings.
ToggleMega ==
  /\ Input
  /\ mega' = ~ mega
  /\ UNCHANGED <<row, fileVars, run, fin, upVars, post, maint>>

\* finalizeCompleted or rehashLocal is cut short between the rename of its file
\* and the update of the row.
CutShort(j) ==
  \/ /\ fin[j] # None
     /\ LET named == InsertHash(fin[j].file, fin[j].content) IN
          /\ {fin[j].file, named} \cap Files # {}
          /\ disk' = Renamed(fin[j].file, named)
  \/ /\ At("hash") /\ maint.job = j
     /\ LET named == InsertHash(maint.file, maint.content) IN
          /\ maint.file \in Files /\ named \notin Files
          /\ disk' = Move(maint.file, named)

\* startMegaUploader queues again what was left pending or uploading.
Recovered ==
  {j \in Jobs : Path(j) # None /\ row[j].mega \in {"pending", "uploading"}}

\* The event of a file that has landed is lost: reconcileNow marks its row failed.
Reconciles ==
  /\ row' = [j \in Jobs |-> IF row[j] # None /\ run[j] = "landed"
                              THEN [row[j] EXCEPT !.status = "failed"] ELSE row[j]]
  /\ run' = [j \in Jobs |-> IF run[j] = "landed" THEN "over" ELSE run[j]]

\* The web service stops at any point and starts again.
Restart ==
  /\ Input
  /\ Reconciles
  /\ UNCHANGED disk \/ \E j \in Jobs : CutShort(j)
  /\ queue' = Recovered
  /\ fin' = [j \in Jobs |-> None]
  /\ upload' = [w \in Workers |-> None]
  /\ post' = [q \in Requests |-> None]
  /\ maint' = None
  /\ UNCHANGED <<remote, mega>>

-----------------------------------------------------------------------------
\* A row from before the content hash: its file is local or on MEGA.
OldRow(onMega) ==
  [NewRow("playlist") EXCEPT !.status = "completed", !.path = Plain,
     !.mega = IF onMega THEN "uploaded" ELSE None,
     !.remoteName = IF onMega THEN Plain ELSE None]

Init ==
  /\ \E old \in SUBSET Old, c \in Contents, onMega \in BOOLEAN :
       /\ row = [j \in Jobs |-> IF j \in old THEN OldRow(onMega) ELSE None]
       /\ run = [j \in Jobs |-> IF j \in old THEN "over" ELSE "none"]
       /\ disk = [n \in Names |->
                    IF n = Plain /\ old # {} /\ ~ onMega THEN c ELSE None]
       /\ remote = IF old = {} \/ ~ onMega THEN <<>>
                   ELSE <<[name |-> Plain, folder |-> "playlist", content |-> c]>>
  /\ fin = [j \in Jobs |-> None]
  /\ queue = {} /\ maint = None
  /\ upload = [w \in Workers |-> None]
  /\ post = [q \in Requests |-> None]
  /\ mega \in BOOLEAN
  /\ inputs = 0

Next ==
  \/ \E j \in Jobs :
       \/ Post(j)
       \/ Start(j) \/ Land(j) \/ Fails(j) \/ Completes(j) \/ Finalized(j)
       \/ RequestUpload(j) \/ Delete(j) \/ Takes(j) \/ ReDownload(j)
  \/ \E q \in Requests :
       \/ \E j \in Jobs : Overwrite(q, j) \/ OverwriteDone(q, j)
       \/ OverwriteRemote(q) \/ OverwriteCheck(q)
  \/ \E w \in Workers :
       \/ \E j \in Jobs : UploadStarts(w, j)
       \/ Uploaded(w) \/ Unlinked(w) \/ UploadFails(w)
  \/ \E task \in Tasks : StartTask(task)
  \/ EndTask \/ Throws \/ HashedLocal \/ Fetch \/ RenameNode \/ RecordHash
  \/ Replace \/ Dropped \/ MoveNode \/ RecordSeason
  \/ ToggleMega \/ Restart

Spec == Init /\ [][Next]_vars

-----------------------------------------------------------------------------
(* Properties.                                                             *)

RowType ==
  [status : {"active", "completed", "failed"}, path : Names \cup {None},
   hash : Contents \cup {None},
   mega : {None, "pending", "uploading", "uploaded", "failed"},
   remoteName : Names \cup {None}, folder : Folders]

UploadType ==
  [job : Jobs, path : Names, folder : Folders, content : Contents,
   pc : {"sending", "unlinking"}]
PostType == [old : Jobs, seen : RowType, pc : {"remote", "check", "unlink", "leave"}]

\* What the maintenance run has in hand, with a file of a content: not nothing.
Item ==
  [task : Tasks, todo : SUBSET Jobs, pc : {"hash", "fetch", "record"}, job : Jobs,
   seen : RowType, file : Names, content : Contents]

ASSUME NoneAssumption == None \notin Item

\* The types.
TypeOK ==
  /\ row \in [Jobs -> RowType \cup {None}]
  /\ disk \in [Names -> Contents \cup {None}]
  /\ remote \in Seq([name : Names, folder : Folders, content : Contents])
  /\ Len(remote) <= MaxNodes
  /\ run \in [Jobs -> {"none", "queued", "running", "landed", "over"}]
  /\ fin \in [Jobs -> [file : Names, content : Contents] \cup {None}]
  /\ queue \in SUBSET Jobs
  /\ upload \in [Workers -> UploadType \cup {None}]
  /\ post \in [Requests -> PostType \cup {None}]
  /\ maint # None =>
       /\ maint.todo \in SUBSET Jobs
       /\ maint.pc # "next" => maint.job \in Jobs /\ maint.seen \in RowType
  /\ mega \in BOOLEAN /\ inputs \in 0..MaxInputs

(***************************************************************************)
(* The names a job has a claim on: those its row records, the one yt-dlp   *)
(* writes, and those that finalizeCompleted, the uploader, an overwrite or *)
(* the maintenance run have read and will still use.  Names embed the hash *)
(* so that no two jobs claim one ("so distinct content never collides",    *)
(* hash.ts).  They still do while a file has no hash, or when the source   *)
(* serves the same content twice: of such jobs the properties say nothing. *)
(***************************************************************************)
Handles(w, j) == upload[w] # None /\ upload[w].job = j
Removes(q, j) == post[q] # None /\ post[q].old = j

Claims(j) ==
  Names \cap UNION
    {IF row[j] = None THEN {} ELSE {row[j].path, row[j].remoteName},
     IF run[j] \in {"running", "landed"} THEN {Plain} ELSE {},
     IF fin[j] = None THEN {} ELSE {fin[j].file, fin[j].content},
     {upload[w].path : w \in {v \in Workers : Handles(v, j)}},
     UNION {{post[q].seen.path, post[q].seen.remoteName} :
              q \in {p \in Requests : Removes(p, j)}},
     IF maint = None THEN {} ELSE IF maint.job # j THEN {}
       ELSE {maint.seen.path, maint.seen.remoteName, maint.file, maint.content}}

Rival(j) == \E k \in Jobs \ {j} : Claims(j) \cap Claims(k) # {}

Condemned(j) == \E q \in Requests : Removes(q, j)

\* The run has renamed the row's node, and will record its name.
Recording(j) == At("record") /\ maint.job = j

\* A copy of what the row stands for is on disk under its path, or on MEGA under
\* its remote name or the one about to be recorded.
Same(j, c) == c # None /\ row[j].hash \in {None, c}
HasFile(j) == row[j].path # None /\ Same(j, disk[row[j].path])
HasNode(j) ==
  \E n \in ToSet(remote) :
    IF Recording(j) THEN n.name = maint.file /\ n.content = maint.content
    ELSE n.name = row[j].remoteName /\ Same(j, n.content)

\* The file under the row's path, or the one being sent for it, is not the one
\* that was hashed.
Other(j, c) == j \in Existing /\ row[j].hash # None /\ c \notin {None, row[j].hash}
Misnamed(j) == j \in Existing /\ row[j].hash # None /\ Other(j, disk[row[j].path])
Missent(j) == \E w \in Workers : Handles(w, j) /\ Other(j, upload[w].content)

\* The file of a hashed name is taken for the row's without a look at what is in
\* it; the file that is renamed may have been written to since it was hashed, or
\* be the remains of another download, and what was sent meanwhile may be what
\* was written.
Unlike(name, c) == disk[name] \notin {None, c}
Mistake(j, name, c) ==
  \/ Unlike(name, c) \/ Unlike(c, c)
  \/ row[j] # None /\ \E n \in ToSet(remote) : n.name = row[j].remoteName /\ n.content # c
Mistaken(j) ==
  \/ fin[j] # None /\ Mistake(j, fin[j].file, fin[j].content)
  \/ At("hash") /\ maint.job = j /\ Mistake(j, maint.file, maint.content)
  \/ Recording(j) /\ Unlike(maint.file, maint.content)

\* A name that embeds a hash is that of the content: but for a mistaken file,
\* nothing but the jobs that claim the same name changes the file under a hashed
\* row, and no row gets a hash that is not its file's.
HashNamesFile ==
  [][\A j \in Jobs : Misnamed(j)' => Misnamed(j) \/ Mistaken(j) \/ Rival(j)]_vars

\* The content of a file of the entry is not what it ought to be, or not its own.
Disturbed(j) == Misnamed(j) \/ Missent(j) \/ Mistaken(j) \/ Rival(j)

\* The user has the entry overwritten, or it has a copy.
Covered(j) == Condemned(j) \/ HasFile(j) \/ HasNode(j)

\* Its copies went to a rival, and its row does not know.
Deprived(j) == row[j] # None /\ row[j].hash # None /\ ~ Covered(j)

\* The steps that may take a copy of j: an overwrite of it, its replacement by a
\* new download that has a copy or had one when it was hashed (waitReady asks its
\* row alone), a restart between RenameNode and RecordHash, and a RecordHash of
\* a node that a rival took in between.
MayGo(j) ==
  \/ Condemned(j)
  \/ Replace /\ maint.job = j /\ (Covered(maint.file) \/ Deprived(maint.file))
  \/ Recording(j) /\ (maint' = None \/ ~ HasNode(j))

\* No other step takes an entry's node from MEGA.
NodeStays ==
  [][\A j \in Existing : HasNode(j) =>
       j \notin Existing' \/ HasNode(j)' \/ Disturbed(j) \/ MayGo(j)]_vars

\* It is said to be on MEGA, or its file is about to go for that.
Sent(j) ==
  \/ row[j].mega = "uploaded"
  \/ \E w \in Workers : Handles(w, j) /\ UploadAt(w, "unlinking")

\* A restart has cut its hashing short: the file has the name that the row does
\* not have yet.  resolveActualFile finds it there.
Strays(j) ==
  /\ Restart /\ CutShort(j)
  /\ \/ fin[j] # None /\ disk'[fin[j].content] = fin[j].content
     \/ At("hash") /\ maint.job = j /\ disk'[maint.content] = maint.content

\* No step takes the last copy of an entry: not an upload's unlink, a delete of
\* another entry, a rename or a maintenance task.  (An overwrite that a restart
\* cuts short leaves an entry "uploaded" without its node; the user may then
\* delete the local copy.)
LastCopyStays ==
  [][\A j \in Existing : (IF Sent(j) THEN HasNode(j) ELSE HasFile(j) \/ HasNode(j)) =>
       \/ j \notin Existing' \/ HasFile(j)' \/ HasNode(j)'
       \/ Strays(j) \/ Disturbed(j) \/ MayGo(j)]_vars
=============================================================================
