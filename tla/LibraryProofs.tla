--------------------------- MODULE LibraryProofs ---------------------------
(***************************************************************************)
(* Proofs about Library: for any number of jobs and contents, of requests  *)
(* and restarts, and of nodes on MEGA.  The lives of the rows (RowLife,    *)
(* Done) carry both theorems: a row that has a hash is that of a job which *)
(* is over and completed, so that no download of its own writes its file.  *)
(***************************************************************************)
EXTENDS Library, SequenceTheorems, WellFoundedInduction, TLAPS

(***************************************************************************)
(* The list of nodes.                                                      *)
(***************************************************************************)

Node == [name : Names, folder : Folders, content : Contents]

LEMMA NatLeast ==
  ASSUME NEW S \in SUBSET Nat, S # {}
  PROVE  \E m \in S : \A n \in S : m <= n
  <1>1. PICK m \in S : \A n \in S : ~(<<n, m>> \in OpToRel(<, Nat))
    BY NatLessThanWellFounded, WFMin
  <1>2. \A n \in S : ~(n < m)
    BY <1>1 DEF OpToRel
  <1> QED BY <1>2

\* findFile gives a node, or 0.
LEMMA FindNode ==
  ASSUME remote \in Seq(Node), NEW name, NEW folder, NEW i, i = Find(name, folder)
  PROVE  i = 0 \/ /\ i \in 1 .. Len(remote) /\ remote[i] \in Node
                  /\ remote[i].name = name
  <1> DEFINE I == {k \in 1 .. Len(remote) : remote[k].name = name /\ remote[k].folder = folder}
  <1>1. i = IF I # {} THEN Min(I) ELSE 0
    BY DEF Find, SelectInSeq
  <1>2. CASE I # {}
    <2>1. I \in SUBSET Nat
      OBVIOUS
    <2>2. \E n \in I : \A k \in I : n <= k
      BY <1>2, <2>1, NatLeast
    <2>3. Min(I) \in I
      BY <2>2 DEF Min
    <2>4. i \in 1 .. Len(remote)
      BY <1>1, <1>2, <2>3
    <2>5. remote[i].name = name
      BY <1>1, <1>2, <2>3
    <2> HIDE DEF I
    <2>6. remote[i] \in Node
      BY <2>4
    <2> QED BY <2>4, <2>5, <2>6
  <1> QED BY <1>1, <1>2

\* A node is removed.
LEMMA RemoveNode ==
  ASSUME remote \in Seq(Node), NEW i \in 1 .. Len(remote)
  PROVE  RemoveAt(remote, i) \in Seq(Node) /\ Len(RemoveAt(remote, i)) <= Len(remote)
  <1>1. SubSeq(remote, 1, i - 1) \in Seq(Node) /\ Len(SubSeq(remote, 1, i - 1)) = i - 1
    <2>1. \A k \in 1 .. i - 1 : remote[k] \in Node
      OBVIOUS
    <2> QED BY <2>1, SubSeqProperties
  <1>2. /\ SubSeq(remote, i + 1, Len(remote)) \in Seq(Node)
        /\ Len(SubSeq(remote, i + 1, Len(remote))) = Len(remote) - i
    <2>1. \A k \in i + 1 .. Len(remote) : remote[k] \in Node
      OBVIOUS
    <2> QED BY <2>1, SubSeqProperties
  <1>3. PICK s, t : /\ s = SubSeq(remote, 1, i - 1) /\ t = SubSeq(remote, i + 1, Len(remote))
                    /\ RemoveAt(remote, i) = s \o t
    BY DEF RemoveAt
  <1>4. s \in Seq(Node) /\ t \in Seq(Node) /\ Len(s) = i - 1 /\ Len(t) = Len(remote) - i
    BY <1>1, <1>2, <1>3
  <1>5. s \o t \in Seq(Node) /\ Len(s \o t) = Len(s) + Len(t)
    BY <1>4
  <1>6. Len(remote) \in Nat /\ i \in Nat
    OBVIOUS
  <1>7. Len(s) + Len(t) <= Len(remote)
    BY <1>4, <1>6
  <1> QED BY <1>3, <1>5, <1>7

\* deleteRemoteForJob leaves nodes.
LEMMA DeleteNode ==
  ASSUME remote \in Seq(Node), Len(remote) <= MaxNodes, NEW r, DeleteRemote(r)
  PROVE  remote' \in Seq(Node) /\ Len(remote') <= MaxNodes
  <1> DEFINE i == Find(RemoteName(r), r.folder)
  <1>1. remote' = remote \/ (i # 0 /\ remote' = RemoveAt(remote, i))
    BY DEF DeleteRemote
  <1>2. i = 0 \/ i \in 1 .. Len(remote)
    BY FindNode
  <1> HIDE DEF i
  <1>3. CASE i # 0 /\ remote' = RemoveAt(remote, i)
    BY <1>2, <1>3, RemoveNode, LibraryAssumption
  <1> QED BY <1>1, <1>3

-----------------------------------------------------------------------------
(* The types.                                                              *)

Steps == {"next", "hash", "connect", "fetch", "record", "wait", "drop", "moved"}

\* What the maintenance run holds, by where it is.
MaintOK(m) ==
  /\ m = [task |-> m.task, todo |-> m.todo, pc |-> m.pc, job |-> m.job, seen |-> m.seen,
          file |-> m.file, content |-> m.content]
  /\ m.task \in Tasks /\ m.todo \in SUBSET Jobs /\ m.pc \in Steps
  /\ m.pc # "next" => m.job \in Jobs /\ m.seen \in RowType
  /\ m.pc \in {"hash", "fetch", "record"} => m.file \in Names /\ m.content \in Contents
  /\ m.pc \in {"fetch", "record"} => m.file = m.content
  /\ m.pc # "next" /\ m.task = "backfill" => m.seen.path = Plain
  /\ m.pc = "wait" => m.task = "backfill" /\ m.file \in Jobs \ {m.job}

Types == TypeOK /\ (maint # None => MaintOK(maint))

-----------------------------------------------------------------------------
(* The life of a row.                                                      *)

\* The job is over, and its row completed or deleted: so it stays.
Done(j) == run[j] = "over" /\ (row[j] = None \/ row[j].status = "completed")

\* Its path has the name of its hash, or the one that yt-dlp wrote.
Named(r) == r.path \in Names /\ r.path = IF r.hash = None THEN Plain ELSE r.hash

RowLife(j) ==
  /\ run[j] = "none" => row[j] = None
  /\ row[j] # None =>
       \/ /\ row[j].status # "completed" /\ row[j].hash = None /\ row[j].mega = None
       \/ Done(j) /\ Named(row[j])

\* What is hashed, uploaded or maintained.
Uses(j) ==
  \/ fin[j] # None \/ j \in queue
  \/ \E w \in Workers : Handles(w, j)
  \/ maint # None /\ maint.pc # "next" /\ maint.job = j

Inv == Types /\ \A j \in Jobs : RowLife(j) /\ (Uses(j) => Done(j))

\* What each step does to the lives.
Living == \A j \in Jobs : RowLife(j)' /\ (Done(j) => Done(j)')
Using == \A j \in Jobs : Uses(j)' => Uses(j) \/ Done(j)'

LEMMA InvStep ==
  ASSUME Inv, Types', Living, Using
  PROVE  Inv'
  BY DEF Inv, Living, Using

\* A step that takes rows away, or changes those that are completed.
Mild ==
  /\ run' = run
  /\ \A j \in Jobs :
       \/ row'[j] = row[j] \/ row'[j] = None
       \/ Done(j) /\ row'[j].status = "completed" /\ Named(row'[j])

LEMMA MildLiving ==
  ASSUME Inv, Mild
  PROVE  Living
  BY DEF Inv, Mild, Living, RowLife, Done

\* An update of one row.
LEMMA SetRow ==
  ASSUME row \in [Jobs -> RowType \cup {None}], NEW j \in Jobs, NEW new, Set(j, new),
         row[j] # None => new \in RowType
  PROVE  /\ row' \in [Jobs -> RowType \cup {None}]
         /\ row'[j] = IF row[j] = None THEN None ELSE new
         /\ \A k \in Jobs \ {j} : row'[k] = row[k]
  BY DEF Set

\* Of a row that is completed.
LEMMA SetDone ==
  ASSUME Inv, NEW j \in Jobs, Done(j), NEW new, Set(j, new), run' = run,
         row[j] # None => /\ new \in RowType /\ new.status = row[j].status
                          /\ Named(new)
  PROVE  row' \in [Jobs -> RowType \cup {None}] /\ Living
  <1>1. row \in [Jobs -> RowType \cup {None}]
    BY DEF Inv, Types, TypeOK
  <1>2. /\ row' \in [Jobs -> RowType \cup {None}]
        /\ row'[j] = IF row[j] = None THEN None ELSE new
        /\ \A k \in Jobs \ {j} : row'[k] = row[k]
    BY <1>1, SetRow
  <1>3. Mild
    BY <1>2 DEF Mild, Done
  <1> QED BY <1>2, <1>3, MildLiving

\* A new row of a new job.
LEMMA InsertRow ==
  ASSUME Inv, NEW rows \in [Jobs -> RowType \cup {None}],
         \A k \in Jobs : rows[k] \in {row[k], None},
         NEW j \in Jobs, NEW folder \in Folders, Insert(rows, j, folder)
  PROVE  /\ row' \in [Jobs -> RowType \cup {None}] /\ Living
         /\ run' \in [Jobs -> {"none", "queued", "running", "landed", "over"}]
         /\ ~ Done(j) /\ row'[j].hash = None
         /\ \A k \in Jobs \ {j} : row'[k] \in {row[k], None}
  <1>1. NewRow(folder) \in RowType /\ NewRow(folder).status = "active"
        /\ NewRow(folder).hash = None /\ NewRow(folder).mega = None
    BY DEF NewRow, RowType
  <1>2. run \in [Jobs -> {"none", "queued", "running", "landed", "over"}]
    BY DEF Inv, Types, TypeOK
  <1>3. /\ run[j] = "none" /\ row' = [rows EXCEPT ![j] = NewRow(folder)]
        /\ run' = [run EXCEPT ![j] = "queued"]
    BY DEF Insert
  <1>4. /\ run'[j] = "queued" /\ row'[j] = NewRow(folder)
        /\ \A k \in Jobs \ {j} : run'[k] = run[k] /\ row'[k] = rows[k]
    BY <1>2, <1>3
  <1>5. Living
    BY <1>1, <1>3, <1>4 DEF Inv, Living, RowLife, Done
  <1> HIDE DEF Inv
  <1> QED BY <1>1, <1>2, <1>3, <1>4, <1>5 DEF Done

-----------------------------------------------------------------------------
(* The steps of the download.                                              *)

Runs == {"none", "queued", "running", "landed", "over"}

LEMMA Typed ==
  ASSUME Inv
  PROVE  /\ row \in [Jobs -> RowType \cup {None}] /\ disk \in [Names -> Contents \cup {None}]
         /\ remote \in Seq(Node) /\ Len(remote) <= MaxNodes /\ run \in [Jobs -> Runs]
         /\ fin \in [Jobs -> [file : Names, content : Contents] \cup {None}]
         /\ queue \in SUBSET Jobs /\ mega \in BOOLEAN /\ inputs \in 0 .. MaxInputs
         /\ upload \in [Workers -> UploadType \cup {None}]
         /\ post \in [Requests -> PostType \cup {None}]
         /\ \A n \in Files : n \in Names /\ disk[n] \in Contents
         /\ Plain \in Names /\ Contents \subseteq Names /\ None \notin Names
         /\ \A j \in Jobs : RowLife(j) /\ (Uses(j) => Done(j))
  BY LibraryAssumption DEF Inv, Types, TypeOK, Node, Runs, Names, Files

LEMMA InputOK ==
  ASSUME Inv, Input
  PROVE  inputs' \in 0 .. MaxInputs
  BY LibraryAssumption DEF Inv, Types, TypeOK, Input

LEMMA PostStep ==
  ASSUME Inv, NEW j \in Jobs, Post(j)
  PROVE  Types' /\ Living /\ Using
  <1>1. Insert(row, j, "season") /\ "season" \in Folders
        /\ UNCHANGED <<fileVars, fin, upVars, post, maint, mega>>
    BY DEF Post, Folders
  <1>2. row \in [Jobs -> RowType \cup {None}] /\ \A k \in Jobs : row[k] \in {row[k], None}
    BY Typed
  <1>3. /\ row' \in [Jobs -> RowType \cup {None}] /\ Living /\ run' \in [Jobs -> Runs]
    BY <1>1, <1>2, InsertRow DEF Runs
  <1>4. inputs' \in 0 .. MaxInputs
    BY InputOK DEF Post
  <1>5. Types'
    BY <1>1, <1>3, <1>4 DEF Inv, Types, TypeOK, fileVars, upVars, Runs, MaintOK
  <1>6. Using
    BY <1>1 DEF Using, Uses, Handles, upVars
  <1> QED BY <1>3, <1>5, <1>6

LEMMA StartStep ==
  ASSUME Inv, NEW j \in Jobs, Start(j) \/ Land(j)
  PROVE  Types' /\ Living /\ Using
  <1>1. /\ run[j] \in {"queued", "running"}
        /\ \E r \in {"running", "landed"} : run' = [run EXCEPT ![j] = r]
        /\ UNCHANGED <<row, remote, fin, upVars, post, maint, mega, inputs>>
    BY DEF Start, Land, fileVars
  <1>2. run \in [Jobs -> Runs] /\ disk \in [Names -> Contents \cup {None}]
    BY Typed
  <1>3. /\ run' \in [Jobs -> Runs] /\ run'[j] \in {"running", "landed"}
        /\ \A k \in Jobs \ {j} : run'[k] = run[k]
    BY <1>1, <1>2 DEF Runs
  <1>4. disk' \in [Names -> Contents \cup {None}]
    BY <1>2 DEF Start, Land, fileVars
  <1>5. Types'
    BY <1>1, <1>3, <1>4 DEF Inv, Types, TypeOK, upVars, Runs, MaintOK
  <1>6. Living
    BY <1>1, <1>3 DEF Inv, Living, RowLife, Done
  <1>7. Using
    BY <1>1 DEF Using, Uses, Handles, upVars
  <1> QED BY <1>5, <1>6, <1>7

LEMMA FailsStep ==
  ASSUME Inv, NEW j \in Jobs, Fails(j)
  PROVE  Types' /\ Living /\ Using
  <1> DEFINE new == [row[j] EXCEPT !.status = "failed",
                       !.path = IF run[j] = "queued" THEN @ ELSE Plain]
  <1>1. /\ run[j] \in {"queued", "running"} /\ run' = [run EXCEPT ![j] = "over"] /\ Set(j, new)
        /\ UNCHANGED <<fileVars, fin, upVars, post, maint, mega, inputs>>
    BY DEF Fails
  <1>2. row \in [Jobs -> RowType \cup {None}] /\ run \in [Jobs -> Runs] /\ Plain \in Names
        /\ RowLife(j)
    BY Typed
  <1>3. row[j] # None => /\ new \in RowType /\ new.status = "failed"
                         /\ new.hash = None /\ new.mega = None
    <2>1. row[j] # None => row[j] \in RowType /\ row[j].hash = None /\ row[j].mega = None
      BY <1>1, <1>2 DEF RowLife, Done
    <2> QED BY <1>2, <2>1 DEF RowType
  <1> HIDE DEF new
  <1>4. /\ row' \in [Jobs -> RowType \cup {None}]
        /\ row'[j] = IF row[j] = None THEN None ELSE new
        /\ \A k \in Jobs \ {j} : row'[k] = row[k]
    BY <1>1, <1>2, <1>3, SetRow
  <1>5. /\ run' \in [Jobs -> Runs] /\ run'[j] = "over"
        /\ \A k \in Jobs \ {j} : run'[k] = run[k]
    BY <1>1, <1>2 DEF Runs
  <1>6. Types'
    BY <1>1, <1>4, <1>5 DEF Inv, Types, TypeOK, fileVars, upVars, Runs, MaintOK
  <1>7. Living
    BY <1>1, <1>3, <1>4, <1>5 DEF Inv, Living, RowLife, Done
  <1>8. Using
    BY <1>1 DEF Using, Uses, Handles, upVars
  <1> QED BY <1>6, <1>7, <1>8

\* The row of a completed job, pending if MEGA is enabled.
LEMMA SetAndUploadRow ==
  ASSUME Inv, NEW j \in Jobs, NEW r, SetAndUpload(j, r), row[j] # None => r \in RowType
  PROVE  \E new : /\ Set(j, new) /\ queue' \in {queue, queue \cup {j}}
                  /\ row[j] # None => /\ new \in RowType /\ new.status = r.status
                                      /\ new.hash = r.hash /\ new.path = r.path
                                      /\ new.remoteName = r.remoteName
  <1> DEFINE new == IF mega THEN [r EXCEPT !.mega = "pending"] ELSE r
  <1>1. Set(j, new) /\ queue' \in {queue, queue \cup {j}}
    BY DEF SetAndUpload
  <1>2. row[j] # None => /\ new \in RowType /\ new.status = r.status
                         /\ new.hash = r.hash /\ new.path = r.path
                         /\ new.remoteName = r.remoteName
    BY DEF RowType
  <1> QED BY <1>1, <1>2

LEMMA CompletesStep ==
  ASSUME Inv, NEW j \in Jobs, Completes(j)
  PROVE  Types' /\ Living /\ Using
  <1> DEFINE done == [row[j] EXCEPT !.status = "completed", !.path = Plain]
  <1>1. /\ run[j] = "landed" /\ run' = [run EXCEPT ![j] = "over"]
        /\ UNCHANGED <<fileVars, upload, post, maint, mega, inputs>>
        /\ \/ \E f \in Resolve(Plain) :
                /\ Set(j, done) /\ fin' = [fin EXCEPT ![j] = [file |-> f, content |-> disk[f]]]
                /\ UNCHANGED queue
           \/ SetAndUpload(j, done) /\ UNCHANGED fin
    BY DEF Completes
  <1>2. /\ row \in [Jobs -> RowType \cup {None}] /\ run \in [Jobs -> Runs] /\ Plain \in Names
        /\ fin \in [Jobs -> [file : Names, content : Contents] \cup {None}]
        /\ queue \in SUBSET Jobs /\ \A n \in Files : n \in Names /\ disk[n] \in Contents
        /\ RowLife(j)
    BY Typed
  <1>3. row[j] # None => /\ done \in RowType /\ done.status = "completed"
                         /\ done.hash = None /\ done.path = Plain
    <2>1. row[j] # None => row[j] \in RowType /\ row[j].hash = None
      BY <1>1, <1>2 DEF RowLife, Done
    <2> QED BY <1>2, <2>1 DEF RowType
  <1> HIDE DEF done
  <1>4. PICK new : /\ Set(j, new) /\ queue' \in {queue, queue \cup {j}}
                   /\ row[j] # None => /\ new \in RowType /\ new.status = "completed"
                                       /\ new.hash = None /\ new.path = Plain
    <2>1. CASE SetAndUpload(j, done)
      BY <1>3, <2>1, SetAndUploadRow
    <2>2. CASE Set(j, done) /\ UNCHANGED queue
      BY <1>3, <2>2
    <2> QED BY <1>1, <2>1, <2>2
  <1>5. /\ row' \in [Jobs -> RowType \cup {None}]
        /\ row'[j] = IF row[j] = None THEN None ELSE new
        /\ \A k \in Jobs \ {j} : row'[k] = row[k]
    BY <1>2, <1>4, SetRow
  <1>6. /\ run' \in [Jobs -> Runs] /\ run'[j] = "over"
        /\ \A k \in Jobs \ {j} : run'[k] = run[k]
    BY <1>1, <1>2 DEF Runs
  <1>7. /\ fin' \in [Jobs -> [file : Names, content : Contents] \cup {None}]
        /\ \A k \in Jobs \ {j} : fin'[k] = fin[k]
    <2>1. Resolve(Plain) \subseteq Files
      BY DEF Resolve
    <2>2. \A f \in Files : [file |-> f, content |-> disk[f]] \in [file : Names, content : Contents]
      BY <1>2
    <2> QED BY <1>1, <1>2, <2>1, <2>2
  <1>8. Types'
    BY <1>1, <1>2, <1>4, <1>5, <1>6, <1>7 DEF Inv, Types, TypeOK, fileVars, Runs, MaintOK
  <1>9. Living /\ Done(j)'
    BY <1>1, <1>2, <1>4, <1>5, <1>6 DEF Inv, Living, RowLife, Done, Named
  <1>10. Using
    BY <1>1, <1>4, <1>7, <1>9 DEF Using, Uses, Handles
  <1> QED BY <1>8, <1>9, <1>10

LEMMA FinalizedStep ==
  ASSUME Inv, NEW j \in Jobs, Finalized(j)
  PROVE  Types' /\ Living /\ Using
  <1> DEFINE f == fin[j].file
             named == InsertHash(f, fin[j].content)
             hashed == [row[j] EXCEPT !.path = named, !.hash = fin[j].content]
  <1>1. /\ fin[j] # None /\ fin' = [fin EXCEPT ![j] = None]
        /\ UNCHANGED <<remote, run, upload, post, maint, mega, inputs>>
        /\ \/ SetAndUpload(j, row[j]) /\ UNCHANGED disk
           \/ /\ SetAndUpload(j, hashed)
              /\ disk' \in {disk, Unlink(f), Move(f, named)}
    BY DEF Finalized, Renamed
  <1>2. /\ row \in [Jobs -> RowType \cup {None}] /\ disk \in [Names -> Contents \cup {None}]
        /\ fin \in [Jobs -> [file : Names, content : Contents] \cup {None}]
        /\ queue \in SUBSET Jobs /\ Contents \subseteq Names /\ None \notin Names
        /\ RowLife(j) /\ Done(j)
    BY <1>1, Typed DEF Uses
  <1>3. f \in Names /\ named \in Names /\ fin[j].content \in Contents /\ named = fin[j].content
    BY <1>1, <1>2 DEF InsertHash
  <1>4. disk' \in [Names -> Contents \cup {None}]
    <2>1. Unlink(f) \in [Names -> Contents \cup {None}]
      BY <1>2 DEF Unlink
    <2>2. Move(f, named) \in [Names -> Contents \cup {None}]
      BY <1>2, <1>3 DEF Move
    <2> QED BY <1>1, <1>2, <2>1, <2>2
  <1>5. row[j] # None => /\ row[j] \in RowType /\ hashed \in RowType
                         /\ hashed.status = row[j].status /\ Named(hashed)
                         /\ Named(row[j])
    <2>1. row[j] # None => row[j] \in RowType /\ Named(row[j])
      BY <1>2 DEF RowLife, Done
    <2> QED BY <1>3, <2>1, LibraryAssumption DEF RowType, Named
  <1> HIDE DEF hashed, named, f
  <1>6. PICK new : /\ Set(j, new) /\ queue' \in {queue, queue \cup {j}}
                   /\ row[j] # None => /\ new \in RowType /\ new.status = row[j].status
                                       /\ Named(new)
    <2>1. CASE SetAndUpload(j, row[j])
      BY <1>5, <2>1, SetAndUploadRow DEF Named
    <2>2. CASE SetAndUpload(j, hashed)
      BY <1>5, <2>2, SetAndUploadRow DEF Named
    <2> QED BY <1>1, <2>1, <2>2
  <1>7. row' \in [Jobs -> RowType \cup {None}] /\ Living
    BY <1>1, <1>2, <1>6, SetDone
  <1>8. /\ fin' \in [Jobs -> [file : Names, content : Contents] \cup {None}]
        /\ \A k \in Jobs : fin'[k] # None => fin[k] # None
    BY <1>1, <1>2
  <1>9. Types'
    BY <1>1, <1>2, <1>4, <1>6, <1>7, <1>8 DEF Inv, Types, TypeOK, MaintOK
  <1>10. Using
    BY <1>1, <1>2, <1>6, <1>7, <1>8 DEF Using, Uses, Handles, Living
  <1> QED BY <1>7, <1>9, <1>10

-----------------------------------------------------------------------------
(* The routes and the uploader.                                            *)

LEMMA OverwriteStep ==
  ASSUME Inv, NEW q \in Requests, NEW e \in Jobs, Overwrite(q, e)
  PROVE  Types' /\ Living /\ Using
  <1> DEFINE p == [old |-> e, seen |-> row[e], pc |-> "remote"]
  <1>1. /\ e \in Existing /\ UNCHANGED <<row, fileVars, run, fin, upVars, maint, mega>>
        /\ post' = [post EXCEPT ![q] = p]
    BY DEF Overwrite
  <1>2. row[e] \in RowType
    BY <1>1, Typed DEF Existing
  <1>3. p \in PostType
    BY <1>2 DEF PostType
  <1> HIDE DEF p
  <1>4. post' \in [Requests -> PostType \cup {None}]
    BY <1>1, <1>3, Typed
  <1>5. inputs' \in 0 .. MaxInputs
    BY InputOK DEF Overwrite
  <1>6. Types'
    BY <1>1, <1>4, <1>5 DEF Inv, Types, TypeOK, fileVars, upVars, MaintOK
  <1>7. Mild /\ Using
    BY <1>1 DEF Mild, Using, Uses, Handles, upVars
  <1> QED BY <1>6, <1>7, MildLiving

LEMMA OverwriteGoesStep ==
  ASSUME Inv, NEW q \in Requests, OverwriteRemote(q) \/ OverwriteCheck(q)
  PROVE  Types' /\ Living /\ Using
  <1>1. /\ post[q] # None /\ UNCHANGED <<row, disk, run, fin, upVars, maint, mega, inputs>>
        /\ \E pc \in {"check", "unlink", "leave"} : post' = [post EXCEPT ![q].pc = pc]
        /\ DeleteRemote(post[q].seen) \/ UNCHANGED remote
    BY DEF OverwriteRemote, OverwriteCheck, PostAt, fileVars
  <1>2. /\ remote \in Seq(Node) /\ Len(remote) <= MaxNodes
        /\ post \in [Requests -> PostType \cup {None}]
    BY Typed
  <1>3. post' \in [Requests -> PostType \cup {None}]
    <2>1. PICK pc \in {"check", "unlink", "leave"} : post' = [post EXCEPT ![q].pc = pc]
      BY <1>1
    <2>2. post[q] \in PostType
      BY <1>1, <1>2
    <2>3. [post[q] EXCEPT !.pc = pc] \in PostType
      BY <2>2 DEF PostType
    <2> QED BY <1>2, <2>1, <2>3
  <1>4. remote' \in Seq(Node) /\ Len(remote') <= MaxNodes
    BY <1>1, <1>2, DeleteNode
  <1>5. Types'
    BY <1>1, <1>3, <1>4 DEF Inv, Types, TypeOK, Node, upVars, MaintOK
  <1>6. Mild /\ Using
    BY <1>1 DEF Mild, Using, Uses, Handles, upVars
  <1> QED BY <1>5, <1>6, MildLiving

\* unlinkSync of a file, if there is one.
LEMMA UnlinkType ==
  ASSUME Inv, NEW name
  PROVE  Unlink(name) \in [Names -> Contents \cup {None}]
  BY Typed DEF Unlink

LEMMA OverwriteDoneStep ==
  ASSUME Inv, NEW q \in Requests, NEW j \in Jobs, OverwriteDone(q, j)
  PROVE  Types' /\ Living /\ Using
  <1> DEFINE rows == [row EXCEPT ![post[q].old] = None]
  <1>1. /\ Insert(rows, j, "season") /\ "season" \in Folders
        /\ post' = [post EXCEPT ![q] = None]
        /\ UNCHANGED <<remote, fin, upVars, maint, mega, inputs>>
        /\ disk' \in {disk, Unlink(post[q].seen.path)}
    BY DEF OverwriteDone, Folders
  <1>2. row \in [Jobs -> RowType \cup {None}] /\ disk \in [Names -> Contents \cup {None}]
    BY Typed
  <1>3. /\ rows \in [Jobs -> RowType \cup {None}]
        /\ \A k \in Jobs : rows[k] \in {row[k], None}
    BY <1>2
  <1> HIDE DEF rows
  <1>4. /\ row' \in [Jobs -> RowType \cup {None}] /\ Living /\ run' \in [Jobs -> Runs]
    BY <1>1, <1>3, InsertRow DEF Runs
  <1>5. disk' \in [Names -> Contents \cup {None}]
    BY <1>1, <1>2, UnlinkType
  <1>6. Types'
    BY <1>1, <1>4, <1>5 DEF Inv, Types, TypeOK, upVars, Runs, MaintOK
  <1>7. Using
    BY <1>1 DEF Using, Uses, Handles, upVars
  <1> QED BY <1>4, <1>6, <1>7

LEMMA UploadStartsStep ==
  ASSUME Inv, NEW w \in Workers, NEW j \in Jobs, UploadStarts(w, j)
  PROVE  Types' /\ Living /\ Using
  <1> DEFINE u == [job |-> j, path |-> Path(j), folder |-> row[j].folder,
                   content |-> disk[Path(j)], pc |-> "sending"]
  <1>1. /\ j \in queue /\ queue' = queue \ {j}
        /\ UNCHANGED <<fileVars, run, fin, post, maint, mega, inputs>>
        /\ \/ /\ Path(j) \in Files /\ Set(j, [row[j] EXCEPT !.mega = "uploading"])
              /\ upload' = [upload EXCEPT ![w] = u]
           \/ Set(j, [row[j] EXCEPT !.mega = "failed"]) /\ UNCHANGED upload
           \/ UNCHANGED <<row, upload>>
    BY DEF UploadStarts
  <1>2. /\ row \in [Jobs -> RowType \cup {None}] /\ None \notin Names
        /\ \A n \in Files : n \in Names /\ disk[n] \in Contents
        /\ RowLife(j) /\ Done(j)
    BY <1>1, Typed DEF Uses
  <1>3. row' \in [Jobs -> RowType \cup {None}] /\ Living
    <2>1. ASSUME NEW state \in {"uploading", "failed"}, Set(j, [row[j] EXCEPT !.mega = state])
          PROVE  row' \in [Jobs -> RowType \cup {None}] /\ Living
      <3> DEFINE new == [row[j] EXCEPT !.mega = state]
      <3>1. row[j] # None => /\ new \in RowType /\ new.status = row[j].status
                             /\ Named(new)
        <4>1. row[j] # None => row[j] \in RowType /\ Named(row[j])
          BY <1>2 DEF RowLife, Done
        <4> QED BY <4>1 DEF RowType, Named
      <3>2. Set(j, new) /\ run' = run
        BY <1>1, <2>1
      <3> HIDE DEF new
      <3> QED BY <1>2, <3>1, <3>2, SetDone
    <2>2. CASE UNCHANGED row
      <3>1. Mild
        BY <1>1, <2>2 DEF Mild
      <3> QED BY <1>2, <2>2, <3>1, MildLiving
    <2> QED BY <1>1, <2>1, <2>2
  <1>4. /\ upload' \in [Workers -> UploadType \cup {None}]
        /\ \A v \in Workers : upload'[v] = upload[v] \/ upload'[v].job = j
    <2>1. CASE Path(j) \in Files /\ upload' = [upload EXCEPT ![w] = u]
      <3>1. row[j] # None
        BY <1>2, <2>1 DEF Path
      <3>2. row[j].folder \in Folders
        BY <1>2, <3>1 DEF RowType
      <3>3. u \in UploadType /\ u.job = j
        BY <1>2, <2>1, <3>2 DEF UploadType
      <3> HIDE DEF u
      <3> QED BY <2>1, <3>3, Typed
    <2> QED BY <1>1, <2>1, Typed
  <1> HIDE DEF u
  <1>5. Types'
    BY <1>1, <1>3, <1>4 DEF Inv, Types, TypeOK, fileVars, MaintOK
  <1>6. Using
    BY <1>1, <1>2, <1>3, <1>4 DEF Using, Uses, Handles, Living
  <1> QED BY <1>3, <1>5, <1>6

LEMMA UploadEndsStep ==
  ASSUME Inv, NEW w \in Workers, Uploaded(w) \/ UploadFails(w)
  PROVE  Types' /\ Living /\ Using
  <1> DEFINE u == upload[w]
             j == u.job
             sent == [row[j] EXCEPT !.mega = "uploaded", !.remoteName = u.path]
             failed == [row[j] EXCEPT !.mega = "failed"]
             node == [name |-> u.path, folder |-> u.folder, content |-> u.content]
  <1>1. /\ u # None
        /\ \/ upload' = [upload EXCEPT ![w] = None]
           \/ upload' = [upload EXCEPT ![w].pc = "unlinking"]
        /\ UNCHANGED <<disk, run, fin, queue, post, maint, mega, inputs>>
        /\ \/ Set(j, sent) /\ remote' = Append(remote, node) /\ Len(remote) < MaxNodes
           \/ Set(j, failed) /\ UNCHANGED remote
    BY DEF Uploaded, UploadFails, UploadAt, fileVars
  <1>2. /\ row \in [Jobs -> RowType \cup {None}] /\ remote \in Seq(Node) /\ Len(remote) <= MaxNodes
        /\ upload \in [Workers -> UploadType \cup {None}]
    BY Typed
  <1>3. u \in UploadType
    BY <1>1, <1>2
  <1>4. j \in Jobs /\ RowLife(j) /\ Done(j) /\ node \in Node /\ u.path \in Names
    <2>1. j \in Jobs /\ node \in Node /\ u.path \in Names
      BY <1>3 DEF UploadType, Node
    <2>2. Uses(j)
      BY <1>1 DEF Uses, Handles
    <2> QED BY <2>1, <2>2, Typed
  <1>5. ASSUME NEW new \in {sent, failed}, row[j] # None
        PROVE  /\ new \in RowType /\ new.status = row[j].status
               /\ Named(new)
    <2>1. row[j] \in RowType /\ Named(row[j])
      BY <1>2, <1>4, <1>5 DEF RowLife, Done
    <2>2. CASE new = sent
      BY <1>4, <2>1, <2>2 DEF RowType, Named
    <2>3. CASE new = failed
      BY <2>1, <2>3 DEF RowType, Named
    <2> QED BY <1>5, <2>2, <2>3
  <1>6. /\ upload' \in [Workers -> UploadType \cup {None}]
        /\ \A v \in Workers : upload'[v] # None => upload[v] # None /\ upload'[v].job = upload[v].job
    <2>1. [u EXCEPT !.pc = "unlinking"] \in UploadType /\ [u EXCEPT !.pc = "unlinking"].job = j
      BY <1>3 DEF UploadType
    <2> QED BY <1>1, <1>2, <2>1
  <1> HIDE DEF sent, failed, node, j, u
  <1>7. row' \in [Jobs -> RowType \cup {None}] /\ Living
    <2>1. PICK new \in {sent, failed} : Set(j, new)
      BY <1>1
    <2> QED BY <1>1, <1>4, <1>5, <2>1, SetDone
  <1>8. remote' \in Seq(Node) /\ Len(remote') <= MaxNodes
    BY <1>1, <1>2, <1>4, LibraryAssumption
  <1>9. Types'
    BY <1>1, <1>6, <1>7, <1>8 DEF Inv, Types, TypeOK, Node, MaintOK
  <1>10. Using
    BY <1>1, <1>6 DEF Using, Uses, Handles
  <1> QED BY <1>7, <1>9, <1>10

LEMMA UnlinkedStep ==
  ASSUME Inv, NEW w \in Workers, Unlinked(w)
  PROVE  Types' /\ Living /\ Using
  <1>1. /\ upload' = [upload EXCEPT ![w] = None]
        /\ disk' \in {disk, Unlink(upload[w].path)}
        /\ UNCHANGED <<row, remote, run, fin, queue, post, maint, mega, inputs>>
    BY DEF Unlinked
  <1>2. /\ disk' \in [Names -> Contents \cup {None}]
        /\ upload' \in [Workers -> UploadType \cup {None}]
        /\ \A v \in Workers : upload'[v] \in {upload[v], None}
    BY <1>1, UnlinkType, Typed
  <1>3. Types'
    BY <1>1, <1>2 DEF Inv, Types, TypeOK, MaintOK
  <1>4. Mild /\ Using
    BY <1>1, <1>2 DEF Mild, Using, Uses, Handles
  <1> QED BY <1>3, <1>4, MildLiving

LEMMA RequestUploadStep ==
  ASSUME Inv, NEW j \in Jobs, RequestUpload(j)
  PROVE  Types' /\ Living /\ Using
  <1> DEFINE new == [row[j] EXCEPT !.mega = "pending"]
  <1>1. /\ Path(j) \in Files /\ row[j].status = "completed" /\ Set(j, new)
        /\ queue' = queue \cup {j}
        /\ UNCHANGED <<fileVars, run, fin, upload, post, maint, mega>>
    BY DEF RequestUpload
  <1>2. /\ row \in [Jobs -> RowType \cup {None}] /\ None \notin Names /\ RowLife(j)
        /\ \A n \in Files : n \in Names
    BY Typed
  <1>3. row[j] # None /\ Done(j)
    BY <1>1, <1>2 DEF Path, RowLife
  <1>4. /\ new \in RowType /\ new.status = row[j].status
        /\ Named(new)
    <2>1. row[j] \in RowType /\ Named(row[j])
      BY <1>2, <1>3, <1>1 DEF RowLife
    <2> QED BY <2>1 DEF RowType, Named
  <1> HIDE DEF new
  <1>5. row' \in [Jobs -> RowType \cup {None}] /\ Living
    BY <1>1, <1>3, <1>4, SetDone
  <1>6. inputs' \in 0 .. MaxInputs
    BY InputOK DEF RequestUpload
  <1>7. Types'
    BY <1>1, <1>5, <1>6 DEF Inv, Types, TypeOK, fileVars, MaintOK
  <1>8. Using
    BY <1>1, <1>3, <1>5 DEF Using, Uses, Handles, Living
  <1> QED BY <1>5, <1>7, <1>8

LEMMA DeleteStep ==
  ASSUME Inv, NEW j \in Jobs, Delete(j)
  PROVE  Types' /\ Living /\ Using
  <1>1. /\ row' \in {row, [row EXCEPT ![j] = None]} /\ disk' = Unlink(Path(j))
        /\ UNCHANGED <<remote, run, fin, upVars, post, maint, mega>>
    BY DEF Delete
  <1>2. row \in [Jobs -> RowType \cup {None}]
    BY Typed
  <1>3. /\ row' \in [Jobs -> RowType \cup {None}]
        /\ \A k \in Jobs : row'[k] \in {row[k], None}
    BY <1>1, <1>2
  <1>4. disk' \in [Names -> Contents \cup {None}] /\ inputs' \in 0 .. MaxInputs
    BY <1>1, UnlinkType, InputOK DEF Delete
  <1>5. Types'
    BY <1>1, <1>3, <1>4 DEF Inv, Types, TypeOK, upVars, MaintOK
  <1>6. Mild /\ Using
    BY <1>1, <1>3 DEF Mild, Using, Uses, Handles, upVars
  <1> QED BY <1>5, <1>6, MildLiving

-----------------------------------------------------------------------------
(* Maintenance.                                                            *)

\* What there is to do: rows that exist and are completed.
LEMMA PendingDone ==
  ASSUME Inv, NEW task, NEW j \in Pending(task)
  PROVE  /\ j \in Jobs /\ row[j] # None /\ row[j] \in RowType /\ Done(j)
         /\ task = "backfill" => row[j].path = Plain
  <1>1. /\ j \in Jobs /\ row[j] # None
        /\ row[j].status = "completed" \/ row[j].mega = "uploaded"
        /\ task = "backfill" => row[j].hash = None
    BY DEF Pending, MissingHash, Existing, WithoutSeason
  <1>2. row \in [Jobs -> RowType \cup {None}] /\ RowLife(j)
    BY <1>1, Typed
  <1>3. Done(j) /\ Named(row[j])
    BY <1>1, <1>2, LibraryAssumption DEF RowLife
  <1> QED BY <1>1, <1>2, <1>3 DEF Named

LEMMA StartTaskStep ==
  ASSUME Inv, NEW task \in Tasks, StartTask(task)
  PROVE  Types' /\ Living /\ Using
  <1>1. /\ maint' = [task |-> task, todo |-> Pending(task), pc |-> "next",
                     job |-> None, seen |-> None, file |-> None, content |-> None]
        /\ UNCHANGED <<row, fileVars, run, fin, upVars, post, mega>>
    BY DEF StartTask
  <1>2. Pending(task) \subseteq Jobs
    BY PendingDone
  <1>3. MaintOK(maint')
    BY <1>1, <1>2 DEF MaintOK, Steps
  <1>4. maint'.pc = "next" /\ maint'.todo \in SUBSET Jobs
    BY <1>1, <1>2
  <1>5. inputs' \in 0 .. MaxInputs
    BY InputOK DEF StartTask
  <1>6. Types'
    BY <1>1, <1>3, <1>4, <1>5 DEF Inv, Types, TypeOK, fileVars, upVars
  <1>7. Mild /\ Using
    BY <1>1, <1>4 DEF Mild, Using, Uses, Handles, upVars
  <1> QED BY <1>6, <1>7, MildLiving

\* A step that changes nothing but where the run is: it ends, or an item does,
\* or the item goes on with the same job.
Onward ==
  /\ UNCHANGED <<disk, fin, upVars, post, mega, inputs>>
  /\ remote' \in Seq(Node) /\ Len(remote') <= MaxNodes
  /\ maint' # None =>
       /\ MaintOK(maint')
       /\ \/ maint'.pc = "next"
          \/ maint'.job = maint.job /\ maint # None /\ maint.pc # "next"

LEMMA OnwardStep ==
  ASSUME Inv, Onward, Living, row' \in [Jobs -> RowType \cup {None}], run' \in [Jobs -> Runs]
  PROVE  Types' /\ Living /\ Using
  <1>1. Types'
    BY DEF Inv, Types, TypeOK, Onward, Node, upVars, Runs, MaintOK
  <1>2. Using
    BY DEF Using, Uses, Handles, Onward, upVars
  <1> QED BY <1>1, <1>2

\* The end of an item.
LEMMA StepOverOK ==
  ASSUME Inv, maint # None, StepOver
  PROVE  MaintOK(maint') /\ maint'.pc = "next"
  BY DEF Inv, Types, StepOver, MaintOK, Steps

LEMMA EndTaskStep ==
  ASSUME Inv, EndTask \/ Throws
  PROVE  Types' /\ Living /\ Using
  <1>1. UNCHANGED <<row, fileVars, run, fin, upVars, post, mega, inputs>>
    BY DEF EndTask, Throws
  <1>2. maint' # None => MaintOK(maint') /\ maint'.pc = "next"
    BY StepOverOK DEF EndTask, Throws
  <1>3. Mild
    BY <1>1 DEF Mild
  <1>4. Onward /\ row' \in [Jobs -> RowType \cup {None}] /\ run' \in [Jobs -> Runs]
    BY <1>1, <1>2, Typed DEF Onward, fileVars
  <1> QED BY <1>3, <1>4, MildLiving, OnwardStep

LEMMA TakesStep ==
  ASSUME Inv, NEW j \in Jobs, Takes(j)
  PROVE  Types' /\ Living /\ Using
  <1> DEFINE picked == [maint EXCEPT !.todo = @ \ {j}, !.job = j, !.seen = row[j]]
  <1>1. /\ At("next") /\ UNCHANGED <<row, fileVars, run, fin, upVars, post, mega, inputs>>
        /\ \/ maint' = [maint EXCEPT !.todo = @ \ {j}]
           \/ /\ j \in Pending(maint.task)
              /\ \E f \in Resolve(Path(j)) :
                   maint' = [picked EXCEPT !.pc = "hash", !.file = f, !.content = disk[f]]
           \/ j \in Pending(maint.task) /\ maint' = [picked EXCEPT !.pc = "connect"]
    BY DEF Takes
  <1>2. MaintOK(maint) /\ maint # None /\ maint.pc = "next"
    BY <1>1 DEF Inv, Types, At
  <1>3. \A n \in Files : n \in Names /\ disk[n] \in Contents
    BY Typed
  <1>4. /\ maint' # None => MaintOK(maint')
        /\ \/ maint'.pc = "next"
           \/ maint'.job = j /\ j \in Pending(maint.task)
    <2>1. CASE maint' = [maint EXCEPT !.todo = @ \ {j}]
      BY <1>2, <2>1 DEF MaintOK, Steps
    <2>2. CASE /\ j \in Pending(maint.task)
               /\ \E f \in Resolve(Path(j)) :
                    maint' = [picked EXCEPT !.pc = "hash", !.file = f, !.content = disk[f]]
      <3>1. PICK f \in Resolve(Path(j)) :
              maint' = [picked EXCEPT !.pc = "hash", !.file = f, !.content = disk[f]]
        BY <2>2
      <3>2. f \in Names /\ disk[f] \in Contents
        BY <1>3 DEF Resolve
      <3>3. row[j] \in RowType /\ (maint.task = "backfill" => row[j].path = Plain)
        BY <2>2, PendingDone
      <3>4. maint' = [task |-> maint.task, todo |-> maint.todo \ {j}, pc |-> "hash", job |-> j,
                      seen |-> row[j], file |-> f, content |-> disk[f]]
        BY <1>2, <3>1 DEF MaintOK
      <3> QED BY <1>2, <2>2, <3>2, <3>3, <3>4 DEF MaintOK, Steps
    <2>3. CASE j \in Pending(maint.task) /\ maint' = [picked EXCEPT !.pc = "connect"]
      <3>1. row[j] \in RowType /\ (maint.task = "backfill" => row[j].path = Plain)
        BY <2>3, PendingDone
      <3>2. maint' = [task |-> maint.task, todo |-> maint.todo \ {j}, pc |-> "connect", job |-> j,
                      seen |-> row[j], file |-> maint.file, content |-> maint.content]
        BY <1>2, <2>3 DEF MaintOK
      <3> QED BY <1>2, <2>3, <3>1, <3>2 DEF MaintOK, Steps
    <2> QED BY <1>1, <2>1, <2>2, <2>3
  <1> HIDE DEF picked
  <1>5. Types'
    BY <1>1, <1>4 DEF Inv, Types, TypeOK, fileVars, upVars, MaintOK
  <1>6. Mild
    BY <1>1 DEF Mild
  <1>7. Using
    <2>1. j \in Pending(maint.task) => Done(j)'
      BY <1>1, PendingDone DEF Done
    <2> QED BY <1>1, <1>4, <2>1 DEF Using, Uses, Handles, upVars
  <1> QED BY <1>5, <1>6, <1>7, MildLiving

\* The job of an item.
LEMMA ItemJob ==
  ASSUME Inv, maint # None, maint.pc # "next"
  PROVE  /\ maint.job \in Jobs /\ maint.seen \in RowType /\ MaintOK(maint)
         /\ Done(maint.job) /\ RowLife(maint.job)
         /\ row[maint.job] # None =>
              /\ row[maint.job] \in RowType
              /\ Named(row[maint.job])
  <1>1. maint.job \in Jobs /\ maint.seen \in RowType /\ MaintOK(maint)
    BY DEF Inv, Types, MaintOK
  <1>2. Done(maint.job) /\ RowLife(maint.job) /\ row \in [Jobs -> RowType \cup {None}]
    BY <1>1, Typed DEF Uses
  <1> QED BY <1>1, <1>2 DEF RowLife, Done

LEMMA HashedLocalStep ==
  ASSUME Inv, HashedLocal
  PROVE  Types' /\ Living /\ Using
  <1> DEFINE j == maint.job
             named == InsertHash(maint.file, maint.content)
             hashed == [row[j] EXCEPT !.path = named, !.hash = maint.content]
  <1>1. /\ maint # None /\ maint.pc = "hash" /\ StepOver
        /\ disk' \in {disk, Move(maint.file, named)}
        /\ (Set(j, hashed) /\ UNCHANGED queue) \/ SetAndUpload(j, hashed)
        /\ UNCHANGED <<remote, run, fin, upload, post, mega, inputs>>
    BY DEF HashedLocal, At
  <1>2. /\ j \in Jobs /\ Done(j) /\ maint.file \in Names /\ maint.content \in Contents
        /\ row[j] # None => row[j] \in RowType
    BY <1>1, ItemJob DEF MaintOK
  <1>3. /\ row \in [Jobs -> RowType \cup {None}] /\ disk \in [Names -> Contents \cup {None}]
        /\ queue \in SUBSET Jobs /\ Contents \subseteq Names
    BY Typed
  <1>4. named = maint.content /\ named \in Names
    BY <1>2, <1>3 DEF InsertHash
  <1>5. disk' \in [Names -> Contents \cup {None}]
    BY <1>1, <1>2, <1>3, <1>4 DEF Move
  <1>6. row[j] # None => /\ hashed \in RowType /\ hashed.status = row[j].status
                         /\ Named(hashed)
    BY <1>2, <1>4, LibraryAssumption DEF RowType, Named
  <1> HIDE DEF hashed, named, j
  <1>7. PICK new : /\ Set(j, new) /\ queue' \in {queue, queue \cup {j}}
                   /\ row[j] # None => /\ new \in RowType /\ new.status = row[j].status
                                       /\ Named(new)
    <2>1. CASE SetAndUpload(j, hashed)
      BY <1>2, <1>6, <2>1, SetAndUploadRow DEF Named
    <2>2. CASE Set(j, hashed) /\ UNCHANGED queue
      BY <1>6, <2>2
    <2> QED BY <1>1, <2>1, <2>2
  <1>8. row' \in [Jobs -> RowType \cup {None}] /\ Living
    BY <1>1, <1>2, <1>7, SetDone
  <1>9. MaintOK(maint') /\ maint'.pc = "next"
    BY <1>1, StepOverOK
  <1>10. Types'
    BY <1>1, <1>2, <1>3, <1>5, <1>7, <1>8, <1>9 DEF Inv, Types, TypeOK, MaintOK
  <1>11. Using
    BY <1>1, <1>2, <1>7, <1>8, <1>9 DEF Using, Uses, Handles, Living
  <1> QED BY <1>8, <1>10, <1>11

LEMMA FetchStep ==
  ASSUME Inv, Fetch
  PROVE  Types' /\ Living /\ Using
  <1> DEFINE i == Find(RemoteName(maint.seen), maint.seen.folder)
             name == InsertHash(maint.seen.path, remote[i].content)
  <1>1. /\ maint # None /\ maint.pc = "connect" /\ i # 0
        /\ maint' = [maint EXCEPT !.pc = "fetch", !.content = remote[i].content, !.file = name]
        /\ UNCHANGED <<row, fileVars, run, fin, upVars, post, mega, inputs>>
    BY DEF Fetch, At, OnRemote
  <1>2. remote \in Seq(Node) /\ Len(remote) <= MaxNodes /\ Contents \subseteq Names
    BY Typed
  <1>3. remote[i] \in Node
    BY <1>1, <1>2, FindNode
  <1>4. remote[i].content \in Contents /\ name \in Names /\ name = remote[i].content
    BY <1>2, <1>3 DEF Node, InsertHash
  <1>5. MaintOK(maint') /\ maint'.job = maint.job
    <2>1. MaintOK(maint)
      BY <1>1 DEF Inv, Types
    <2>2. maint' = [task |-> maint.task, todo |-> maint.todo, pc |-> "fetch", job |-> maint.job,
                    seen |-> maint.seen, file |-> name, content |-> remote[i].content]
      BY <1>1, <2>1 DEF MaintOK
    <2> HIDE DEF name, i
    <2> QED BY <1>1, <1>4, <2>1, <2>2 DEF MaintOK, Steps
  <1>6. Mild
    BY <1>1 DEF Mild
  <1>7. Onward /\ row' \in [Jobs -> RowType \cup {None}] /\ run' \in [Jobs -> Runs]
    BY <1>1, <1>2, <1>5, Typed DEF Onward, fileVars
  <1> QED BY <1>6, <1>7, MildLiving, OnwardStep

\* Only the place changes.
LEMMA ItemGoes ==
  ASSUME Inv, maint # None, maint.pc # "next", NEW pc \in Steps \ {"next"},
         pc \in {"hash", "fetch", "record"} => maint.pc \in {"hash", "fetch", "record"},
         pc \in {"fetch", "record"} => maint.pc \in {"fetch", "record"},
         pc # "wait", maint' = [maint EXCEPT !.pc = pc]
  PROVE  MaintOK(maint') /\ maint'.job = maint.job
  <1>1. MaintOK(maint)
    BY DEF Inv, Types
  <1>2. maint' = [task |-> maint.task, todo |-> maint.todo, pc |-> pc, job |-> maint.job,
                  seen |-> maint.seen, file |-> maint.file, content |-> maint.content]
    BY <1>1 DEF MaintOK
  <1> QED BY <1>1, <1>2 DEF MaintOK

LEMMA RenameNodeStep ==
  ASSUME Inv, RenameNode
  PROVE  Types' /\ Living /\ Using
  <1> DEFINE i == Find(RemoteName(maint.seen), maint.seen.folder)
  <1>1. /\ maint # None /\ maint.pc = "fetch" /\ i # 0
        /\ remote' = [remote EXCEPT ![i].name = maint.file]
        /\ maint' = [maint EXCEPT !.pc = "record"]
        /\ UNCHANGED <<row, disk, run, fin, upVars, post, mega, inputs>>
    BY DEF RenameNode, At
  <1>2. remote \in Seq(Node) /\ Len(remote) <= MaxNodes
    BY Typed
  <1>3. i \in 1 .. Len(remote) /\ remote[i] \in Node
    BY <1>1, <1>2, FindNode
  <1>4. maint.file \in Names
    BY <1>1 DEF Inv, Types, MaintOK
  <1> HIDE DEF i
  <1>5. remote' \in Seq(Node) /\ Len(remote') <= MaxNodes
    <2>1. remote' = [remote EXCEPT ![i] = [remote[i] EXCEPT !.name = maint.file]]
      BY <1>1, <1>2, <1>3
    <2>2. [remote[i] EXCEPT !.name = maint.file] \in Node
      BY <1>3, <1>4 DEF Node
    <2> QED BY <1>2, <1>3, <2>1, <2>2
  <1>6. MaintOK(maint') /\ maint'.job = maint.job
    <2>1. "record" \in Steps \ {"next"}
      BY DEF Steps
    <2> QED BY <1>1, <2>1, ItemGoes
  <1>7. Mild
    BY <1>1 DEF Mild
  <1>8. Onward /\ row' \in [Jobs -> RowType \cup {None}] /\ run' \in [Jobs -> Runs]
    BY <1>1, <1>5, <1>6, Typed DEF Onward
  <1> QED BY <1>7, <1>8, MildLiving, OnwardStep

LEMMA RecordStep ==
  ASSUME Inv, RecordHash \/ RecordSeason
  PROVE  Types' /\ Living /\ Using
  <1> DEFINE j == maint.job
             hashed == [row[j] EXCEPT !.hash = maint.content, !.path = maint.file,
                          !.remoteName = maint.file]
             moved == [row[j] EXCEPT !.folder = "season"]
  <1>1. /\ maint # None /\ maint.pc \in {"record", "moved"} /\ StepOver
        /\ (maint.pc = "record" /\ Set(j, hashed)) \/ Set(j, moved)
        /\ UNCHANGED <<fileVars, run, fin, upVars, post, mega, inputs>>
    BY DEF RecordHash, RecordSeason, At
  <1>2. /\ j \in Jobs /\ Done(j)
        /\ maint.pc = "record" => /\ maint.file \in Names /\ maint.content \in Contents
                                  /\ maint.file = maint.content
        /\ row[j] # None => row[j] \in RowType /\ Named(row[j])
    BY <1>1, ItemJob DEF MaintOK
  <1>3. ASSUME maint.pc = "record", row[j] # None
        PROVE  /\ hashed \in RowType /\ hashed.status = row[j].status /\ Named(hashed)
    BY <1>2, <1>3, LibraryAssumption DEF RowType, Named
  <1>4. ASSUME row[j] # None
        PROVE  /\ moved \in RowType /\ moved.status = row[j].status
               /\ Named(moved)
    BY <1>2, <1>4 DEF RowType, Named, Folders
  <1> HIDE DEF hashed, moved, j
  <1>5. row' \in [Jobs -> RowType \cup {None}] /\ Living
    <2>1. CASE maint.pc = "record" /\ Set(j, hashed)
      BY <1>1, <1>2, <1>3, <2>1, SetDone
    <2>2. CASE Set(j, moved)
      BY <1>1, <1>2, <1>4, <2>2, SetDone
    <2> QED BY <1>1, <2>1, <2>2
  <1>6. MaintOK(maint') /\ maint'.pc = "next"
    BY <1>1, StepOverOK
  <1>7. Onward /\ run' \in [Jobs -> Runs]
    BY <1>1, <1>6, Typed DEF Onward, fileVars
  <1> QED BY <1>5, <1>7, OnwardStep

LEMMA ReDownloadStep ==
  ASSUME Inv, NEW new \in Jobs, ReDownload(new)
  PROVE  Types' /\ Living /\ Using
  <1>1. /\ maint # None /\ maint.pc = "connect" /\ Insert(row, new, "single")
        /\ "single" \in Folders /\ maint.task = "backfill"
        /\ maint' = [maint EXCEPT !.pc = "wait", !.file = new, !.content = mega]
        /\ UNCHANGED <<fileVars, fin, upVars, post, mega, inputs>>
    BY DEF ReDownload, At, Folders
  <1>2. row \in [Jobs -> RowType \cup {None}] /\ \A k \in Jobs : row[k] \in {row[k], None}
    BY Typed
  <1>3. /\ row' \in [Jobs -> RowType \cup {None}] /\ Living /\ run' \in [Jobs -> Runs]
    BY <1>1, <1>2, InsertRow DEF Runs
  <1>4. MaintOK(maint') /\ maint'.job = maint.job
    <2>1. MaintOK(maint) /\ new \in Jobs \ {maint.job}
      <3>1. MaintOK(maint) /\ Done(maint.job)
        BY <1>1, ItemJob
      <3> QED BY <1>1, <3>1 DEF Done, Insert
    <2>2. maint' = [task |-> maint.task, todo |-> maint.todo, pc |-> "wait", job |-> maint.job,
                    seen |-> maint.seen, file |-> new, content |-> mega]
      BY <1>1, <2>1 DEF MaintOK
    <2>3. /\ maint'.task = maint.task /\ maint'.todo = maint.todo /\ maint'.pc = "wait"
          /\ maint'.job = maint.job /\ maint'.seen = maint.seen /\ maint'.file = new
          /\ maint' = [task |-> maint'.task, todo |-> maint'.todo, pc |-> maint'.pc,
                       job |-> maint'.job, seen |-> maint'.seen, file |-> maint'.file,
                       content |-> maint'.content]
      BY <2>2, ZenonT(30)
    <2> QED BY <1>1, <2>1, <2>3 DEF MaintOK, Steps
  <1>5. Onward
    BY <1>1, <1>4, Typed DEF Onward, fileVars
  <1> QED BY <1>3, <1>5, OnwardStep

LEMMA ReplaceStep ==
  ASSUME Inv, Replace
  PROVE  Types' /\ Living /\ Using
  <1>1. /\ maint # None /\ maint.pc = "wait" /\ maint' = [maint EXCEPT !.pc = "drop"]
        /\ DeleteRemote(maint.seen) \/ UNCHANGED remote
        /\ UNCHANGED <<row, disk, run, fin, upVars, post, mega, inputs>>
    BY DEF Replace, At
  <1>2. remote \in Seq(Node) /\ Len(remote) <= MaxNodes
    BY Typed
  <1>3. remote' \in Seq(Node) /\ Len(remote') <= MaxNodes
    BY <1>1, <1>2, DeleteNode
  <1>4. MaintOK(maint') /\ maint'.job = maint.job
    <2>1. "drop" \in Steps \ {"next"}
      BY DEF Steps
    <2> QED BY <1>1, <2>1, ItemGoes
  <1>5. Mild
    BY <1>1 DEF Mild
  <1>6. Onward /\ row' \in [Jobs -> RowType \cup {None}] /\ run' \in [Jobs -> Runs]
    BY <1>1, <1>3, <1>4, Typed DEF Onward
  <1> QED BY <1>5, <1>6, MildLiving, OnwardStep

LEMMA DroppedStep ==
  ASSUME Inv, Dropped
  PROVE  Types' /\ Living /\ Using
  <1>1. /\ maint # None /\ row' = [row EXCEPT ![maint.job] = None] /\ StepOver
        /\ UNCHANGED <<fileVars, run, fin, upVars, post, mega, inputs>>
    BY DEF Dropped, At
  <1>2. row \in [Jobs -> RowType \cup {None}]
    BY Typed
  <1>3. Mild /\ row' \in [Jobs -> RowType \cup {None}]
    BY <1>1, <1>2 DEF Mild
  <1>4. MaintOK(maint') /\ maint'.pc = "next"
    BY <1>1, StepOverOK
  <1>5. Onward /\ run' \in [Jobs -> Runs]
    BY <1>1, <1>4, Typed DEF Onward, fileVars
  <1> QED BY <1>3, <1>5, MildLiving, OnwardStep

LEMMA MoveNodeStep ==
  ASSUME Inv, MoveNode
  PROVE  Types' /\ Living /\ Using
  <1> DEFINE i == Find(maint.seen.remoteName, "playlist")
  <1>1. /\ maint # None /\ maint.pc = "connect" /\ maint' = [maint EXCEPT !.pc = "moved"]
        /\ UNCHANGED remote \/ (i # 0 /\ remote' = [remote EXCEPT ![i].folder = "season"])
        /\ UNCHANGED <<row, disk, run, fin, upVars, post, mega, inputs>>
    BY DEF MoveNode, At
  <1>2. remote \in Seq(Node) /\ Len(remote) <= MaxNodes
    BY Typed
  <1>3. i # 0 => i \in 1 .. Len(remote) /\ remote[i] \in Node
    BY <1>2, FindNode
  <1> HIDE DEF i
  <1>4. remote' \in Seq(Node) /\ Len(remote') <= MaxNodes
    <2>1. CASE i # 0 /\ remote' = [remote EXCEPT ![i].folder = "season"]
      <3>1. remote' = [remote EXCEPT ![i] = [remote[i] EXCEPT !.folder = "season"]]
        BY <1>2, <1>3, <2>1
      <3>2. [remote[i] EXCEPT !.folder = "season"] \in Node
        BY <1>3, <2>1 DEF Node, Folders
      <3> QED BY <1>2, <1>3, <2>1, <3>1, <3>2
    <2> QED BY <1>1, <1>2, <2>1
  <1>5. MaintOK(maint') /\ maint'.job = maint.job
    <2>1. "moved" \in Steps \ {"next"}
      BY DEF Steps
    <2> QED BY <1>1, <2>1, ItemGoes
  <1>6. Mild
    BY <1>1 DEF Mild
  <1>7. Onward /\ row' \in [Jobs -> RowType \cup {None}] /\ run' \in [Jobs -> Runs]
    BY <1>1, <1>4, <1>5, Typed DEF Onward
  <1> QED BY <1>6, <1>7, MildLiving, OnwardStep

-----------------------------------------------------------------------------
(* The setting, a restart, and the invariant.                              *)

LEMMA ToggleMegaStep ==
  ASSUME Inv, ToggleMega
  PROVE  Types' /\ Living /\ Using
  <1>1. mega' \in BOOLEAN /\ UNCHANGED <<row, fileVars, run, fin, upVars, post, maint>>
    BY DEF ToggleMega
  <1>2. inputs' \in 0 .. MaxInputs
    BY InputOK DEF ToggleMega
  <1>3. Types'
    BY <1>1, <1>2 DEF Inv, Types, TypeOK, fileVars, upVars, MaintOK
  <1>4. Mild /\ Using
    BY <1>1 DEF Mild, Using, Uses, Handles, upVars
  <1> QED BY <1>3, <1>4, MildLiving

\* The file that a restart finds renamed was hashed for j: the rename of
\* finalizeCompleted or of rehashLocal is all it does.
LEMMA CutShortMoves ==
  ASSUME Inv, NEW j \in Jobs, CutShort(j)
  PROVE  /\ disk' \in [Names -> Contents \cup {None}]
         /\ \E f \in Names, c \in Contents :
              /\ \/ fin[j] # None /\ f = fin[j].file /\ c = fin[j].content
                 \/ At("hash") /\ maint.job = j /\ f = maint.file /\ c = maint.content
              /\ {f, c} \cap Files # {} /\ disk' = Renamed(f, c)
              /\ \A m \in Names \ {c} : disk'[m] \in {disk[m], None}
              /\ disk'[c] \in {disk[c], disk[f]}
  <1>1. PICK f, c :
          /\ \/ fin[j] # None /\ f = fin[j].file /\ c = fin[j].content
             \/ At("hash") /\ maint.job = j /\ f = maint.file /\ c = maint.content
          /\ {f, c} \cap Files # {} /\ disk' = Renamed(f, c)
    <2>1. CASE fin[j] # None /\ disk' = Renamed(fin[j].file, InsertHash(fin[j].file, fin[j].content))
               /\ {fin[j].file, InsertHash(fin[j].file, fin[j].content)} \cap Files # {}
      BY <2>1 DEF InsertHash
    <2>2. CASE /\ At("hash") /\ maint.job = j
               /\ maint.file \in Files /\ maint.content \notin Files
               /\ disk' = Move(maint.file, maint.content)
      BY <2>2 DEF Renamed
    <2> QED BY <2>1, <2>2 DEF CutShort, InsertHash
  <1>2. /\ fin \in [Jobs -> [file : Names, content : Contents] \cup {None}]
        /\ disk \in [Names -> Contents \cup {None}] /\ Contents \subseteq Names
    BY Typed
  <1>3. f \in Names /\ c \in Contents
    BY <1>1, <1>2 DEF Inv, Types, MaintOK, At
  <1>4. disk' \in [Names -> Contents \cup {None}]
    BY <1>1, <1>2, <1>3 DEF Renamed, Unlink, Move
  <1>5. /\ \A m \in Names \ {c} : disk'[m] \in {disk[m], None}
        /\ disk'[c] \in {disk[c], disk[f]}
    BY <1>1, <1>2, <1>3 DEF Renamed, Unlink, Move
  <1> QED BY <1>1, <1>3, <1>4, <1>5

\* A row whose file had landed was not completed; what is queued again is.
LEMMA RestartStep ==
  ASSUME Inv, Restart
  PROVE  Types' /\ Living /\ Using
  <1>1. /\ row' = [j \in Jobs |-> IF row[j] # None /\ run[j] = "landed"
                                    THEN [row[j] EXCEPT !.status = "failed"] ELSE row[j]]
        /\ run' = [j \in Jobs |-> IF run[j] = "landed" THEN "over" ELSE run[j]]
        /\ queue' = {j \in Jobs : Path(j) # None /\ row[j].mega \in {"pending", "uploading"}}
        /\ fin' = [j \in Jobs |-> None] /\ upload' = [w \in Workers |-> None]
        /\ post' = [q \in Requests |-> None] /\ maint' = None
        /\ UNCHANGED <<remote, mega>>
        /\ disk' = disk \/ \E j \in Jobs : CutShort(j)
    BY DEF Restart, Reconciles, Recovered
  <1>2. row \in [Jobs -> RowType \cup {None}] /\ run \in [Jobs -> Runs] /\ \A j \in Jobs : RowLife(j)
    BY Typed
  <1>3. \A j \in Jobs :
          /\ run'[j] = IF run[j] = "landed" THEN "over" ELSE run[j]
          /\ row'[j] = IF row[j] # None /\ run[j] = "landed"
                         THEN [row[j] EXCEPT !.status = "failed"] ELSE row[j]
    BY <1>1
  <1>4. \A j \in Jobs : row'[j] \in RowType \cup {None}
    BY <1>2, <1>3 DEF RowType
  <1>5. row' \in [Jobs -> RowType \cup {None}] /\ run' \in [Jobs -> Runs]
    BY <1>1, <1>2, <1>3, <1>4 DEF Runs
  <1>6. ASSUME NEW j \in Jobs
        PROVE  RowLife(j)' /\ (Done(j) => Done(j)')
    <2>1. CASE run[j] = "landed" /\ row[j] # None
      <3>1. row[j] \in RowType /\ row[j].hash = None /\ row[j].mega = None
        BY <1>2, <2>1 DEF RowLife, Done
      <3>2. /\ row'[j].status = "failed" /\ row'[j].hash = None /\ row'[j].mega = None
            /\ run'[j] = "over"
        BY <1>3, <2>1, <3>1 DEF RowType
      <3> QED BY <2>1, <3>2 DEF RowLife, Done
    <2>2. CASE run[j] = "landed" /\ row[j] = None
      BY <1>3, <2>2 DEF RowLife, Done
    <2>3. CASE run[j] # "landed"
      BY <1>2, <1>3, <2>3 DEF RowLife, Done
    <2> QED BY <2>1, <2>2, <2>3
  <1>7. Living
    BY <1>6 DEF Living
  <1>8. ASSUME NEW j \in queue'
        PROVE  Done(j)
    <2>1. row[j] # None /\ row[j].mega \in {"pending", "uploading"} /\ j \in Jobs
      BY <1>1, <1>8 DEF Path
    <2> QED BY <1>2, <2>1, LibraryAssumption DEF RowLife
  <1>9. Using
    BY <1>1, <1>6, <1>8 DEF Using, Uses, Handles
  <1>10. inputs' \in 0 .. MaxInputs
    BY InputOK DEF Restart
  <1>11. disk' \in [Names -> Contents \cup {None}]
    BY <1>1, CutShortMoves, Typed
  <1>12. Types'
    BY <1>1, <1>5, <1>10, <1>11 DEF Inv, Types, TypeOK, Runs
  <1> QED BY <1>7, <1>9, <1>12

\* The rows from before the hash are completed.
LEMMA InvInit ==
  Init => Inv
  <1> SUFFICES ASSUME Init PROVE Inv
    OBVIOUS
  <1>1. PICK old \in SUBSET Old, c \in Contents, onMega \in BOOLEAN :
          /\ row = [j \in Jobs |-> IF j \in old THEN OldRow(onMega) ELSE None]
          /\ run = [j \in Jobs |-> IF j \in old THEN "over" ELSE "none"]
          /\ disk = [n \in Names |-> IF n = Plain /\ old # {} /\ ~ onMega THEN c ELSE None]
          /\ remote = IF old = {} \/ ~ onMega THEN <<>>
                      ELSE <<[name |-> Plain, folder |-> "playlist", content |-> c]>>
    BY DEF Init
  <1>2. /\ fin = [j \in Jobs |-> None] /\ queue = {} /\ upload = [w \in Workers |-> None]
        /\ post = [q \in Requests |-> None]
        /\ maint = None /\ mega \in BOOLEAN /\ inputs = 0
    BY DEF Init
  <1>3. OldRow(onMega) \in RowType /\ OldRow(onMega).status = "completed"
        /\ OldRow(onMega).path = Plain /\ Plain \in Names
        /\ OldRow(onMega).hash = None
    BY DEF OldRow, NewRow, RowType, Names, Folders
  <1> HIDE DEF Init
  <1>4. /\ row \in [Jobs -> RowType \cup {None}] /\ run \in [Jobs -> Runs]
        /\ disk \in [Names -> Contents \cup {None}]
    BY <1>1, <1>3 DEF Runs
  <1>5. TypeOK
    <2>1. remote \in Seq(Node) /\ Len(remote) <= 1
      <3>1. [name |-> Plain, folder |-> "playlist", content |-> c] \in Node
        BY DEF Node, Names, Folders
      <3> HIDE DEF Node
      <3>2. /\ <<[name |-> Plain, folder |-> "playlist", content |-> c]>> \in Seq(Node)
            /\ <<>> \in Seq(Node)
        BY <3>1
      <3> QED BY <1>1, <3>2
    <2> QED BY <1>1, <1>2, <1>4, <2>1, LibraryAssumption DEF TypeOK, Node, Runs
  <1>6. ASSUME NEW j \in Jobs
        PROVE  RowLife(j) /\ ~ Uses(j)
    <2>1. RowLife(j)
      BY <1>1, <1>3 DEF RowLife, Done, Named
    <2>2. ~ Uses(j)
      BY <1>2 DEF Uses, Handles
    <2> QED BY <2>1, <2>2
  <1> QED BY <1>2, <1>5, <1>6 DEF Inv, Types

LEMMA InvNext ==
  Inv /\ [Next]_vars => Inv'
  <1> SUFFICES ASSUME Inv, [Next]_vars PROVE Inv'
    OBVIOUS
  <1>1. CASE UNCHANGED vars
    <2>1. UNCHANGED <<row, disk, remote, run, fin, queue, upload, post, maint, mega, inputs>>
      BY <1>1 DEF vars, fileVars, upVars
    <2>2. Types'
      BY <2>1 DEF Inv, Types, TypeOK, MaintOK
    <2>3. Mild /\ Using
      BY <2>1 DEF Mild, Using, Uses, Handles
    <2> QED BY <2>2, <2>3, MildLiving, InvStep
  <1>2. CASE Next
    <2> SUFFICES Types' /\ Living /\ Using
      BY InvStep
    <2>1. ASSUME NEW j \in Jobs, Post(j) \/ Start(j) \/ Land(j) \/ Fails(j) \/ Completes(j)
                                 \/ Finalized(j)
          PROVE  Types' /\ Living /\ Using
      BY <2>1, PostStep, StartStep, FailsStep, CompletesStep, FinalizedStep
    <2>2. ASSUME NEW j \in Jobs, RequestUpload(j) \/ Delete(j) \/ Takes(j) \/ ReDownload(j)
          PROVE  Types' /\ Living /\ Using
      BY <2>2, RequestUploadStep, DeleteStep, TakesStep, ReDownloadStep
    <2>3. ASSUME NEW q \in Requests,
                 \/ \E j \in Jobs : Overwrite(q, j) \/ OverwriteDone(q, j)
                 \/ OverwriteRemote(q) \/ OverwriteCheck(q)
          PROVE  Types' /\ Living /\ Using
      BY <2>3, OverwriteStep, OverwriteDoneStep, OverwriteGoesStep
    <2>8. ASSUME NEW w \in Workers,
                 \/ \E j \in Jobs : UploadStarts(w, j)
                 \/ Uploaded(w) \/ Unlinked(w) \/ UploadFails(w)
          PROVE  Types' /\ Living /\ Using
      BY <2>8, UploadStartsStep, UploadEndsStep, UnlinkedStep
    <2>4. ASSUME NEW task \in Tasks, StartTask(task)
          PROVE  Types' /\ Living /\ Using
      BY <2>4, StartTaskStep
    <2>5. CASE EndTask \/ Throws \/ HashedLocal \/ Fetch \/ RenameNode \/ RecordHash
      BY <2>5, EndTaskStep, HashedLocalStep, FetchStep, RenameNodeStep, RecordStep
    <2>6. CASE Replace \/ Dropped \/ MoveNode \/ RecordSeason
      BY <2>6, ReplaceStep, DroppedStep, MoveNodeStep, RecordStep
    <2>7. CASE ToggleMega \/ Restart
      BY <2>7, ToggleMegaStep, RestartStep
    <2> QED BY <1>2, <2>1, <2>2, <2>3, <2>4, <2>5, <2>6, <2>7, <2>8 DEF Next
  <1> QED BY <1>1, <1>2

\* The lives of the rows, at every moment.
THEOREM Invariance == Spec => []Inv
  BY InvInit, InvNext, PTL DEF Spec

\* Rows, files, nodes and what the server holds of them between two awaits have
\* the values the code expects, whatever the number of jobs.
THEOREM TypeCorrect == Spec => []TypeOK
  <1>1. Inv => TypeOK
    BY DEF Inv, Types
  <1> QED BY <1>1, Invariance, PTL

-----------------------------------------------------------------------------
(* A name that embeds a hash is that of the content.                       *)

\* The row is left, loses its hash, or has none yet; the file under its path is
\* left, or goes.
RowKept(j) ==
  \/ row'[j] = None \/ row'[j].hash = None
  \/ row[j] # None /\ row'[j].hash = row[j].hash /\ row'[j].path = row[j].path
FileKept(j) ==
  row[j] # None /\ row[j].hash # None => disk'[row[j].path] \in {None, disk[row[j].path]}

LEMMA Quiet ==
  ASSUME Inv, NEW j \in Jobs, ~ Misnamed(j), RowKept(j), FileKept(j)
  PROVE  ~ Misnamed(j)'
  <1> SUFFICES ASSUME row'[j] # None, row'[j].hash # None,
                      disk'[row'[j].path] \notin {None, row'[j].hash}
               PROVE  FALSE
    BY DEF Misnamed, Other, Existing
  <1>1. row[j] # None /\ row'[j].hash = row[j].hash /\ row'[j].path = row[j].path
    BY DEF RowKept
  <1>2. j \in Existing
    BY <1>1, Typed DEF RowLife, Done, Existing
  <1>3. disk[row[j].path] \in {None, row[j].hash}
    BY <1>1, <1>2 DEF Misnamed, Other
  <1> QED BY <1>1, <1>3 DEF FileKept

\* The job of an update keeps its hash and path, or has no hash.
LEMMA SetKept ==
  ASSUME Inv, NEW j \in Jobs, NEW k \in Jobs, NEW new, Set(k, new),
         j = k /\ row[j] # None =>
           new.hash = None \/ (new.hash = row[j].hash /\ new.path = row[j].path)
  PROVE  RowKept(j)
  <1>1. row \in [Jobs -> RowType \cup {None}]
    BY Typed
  <1> QED BY <1>1 DEF Set, RowKept

LEMMA SetAndUploadKept ==
  ASSUME Inv, NEW j \in Jobs, NEW k \in Jobs, NEW r, SetAndUpload(k, r),
         row[k] # None => r \in RowType,
         j = k /\ row[j] # None =>
           r.hash = None \/ (r.hash = row[j].hash /\ r.path = row[j].path)
  PROVE  RowKept(j)
  <1>1. PICK new : /\ Set(k, new)
                   /\ row[k] # None => new.hash = r.hash /\ new.path = r.path
    BY SetAndUploadRow
  <1>2. j = k /\ row[j] # None =>
          new.hash = None \/ (new.hash = row[j].hash /\ new.path = row[j].path)
    BY <1>1
  <1> QED BY <1>1, <1>2, SetKept

LEMMA SameDisk ==
  ASSUME NEW j, disk' = disk
  PROVE  FileKept(j)
  BY DEF FileKept

LEMMA UnlinkKept ==
  ASSUME Inv, NEW j \in Jobs, NEW name, disk' \in {disk, Unlink(name)}
  PROVE  FileKept(j)
  <1>1. disk \in [Names -> Contents \cup {None}]
    BY Typed
  <1>2. row[j] # None /\ row[j].hash # None => row[j].path \in Names
    BY Typed DEF RowLife, Named
  <1> QED BY <1>1, <1>2 DEF Unlink, FileKept

\* The names of a row, of a download, of finalizeCompleted, of an upload, of an
\* overwrite and of an item.
LEMMA ClaimsOf ==
  ASSUME NEW j \in Jobs, NEW n \in Names,
         \/ row[j] # None /\ n \in {row[j].path, row[j].remoteName}
         \/ run[j] \in {"running", "landed"} /\ n = Plain
         \/ fin[j] # None /\ n \in {fin[j].file, fin[j].content}
         \/ \E w \in Workers : Handles(w, j) /\ n = upload[w].path
         \/ \E q \in Requests :
              Removes(q, j) /\ n \in {post[q].seen.path, post[q].seen.remoteName}
         \/ /\ maint # None /\ maint.job = j
            /\ n \in {maint.seen.path, maint.seen.remoteName, maint.file, maint.content}
  PROVE  n \in Claims(j)
  BY DEF Claims

LEMMA NoRival ==
  ASSUME NEW j \in Jobs, ~ Rival(j), NEW k \in Jobs \ {j}, NEW n \in Claims(k)
  PROVE  n \notin Claims(j)
  BY DEF Rival

\* A file put under a name that another job claims.
LEMMA OtherKept ==
  ASSUME Inv, NEW j \in Jobs, ~ Rival(j), NEW k \in Jobs \ {j}, NEW n \in Claims(k),
         \A m \in Names \ {n} : disk'[m] \in {None, disk[m]}
  PROVE  FileKept(j)
  <1> SUFFICES ASSUME row[j] # None, row[j].hash # None
               PROVE  disk'[row[j].path] \in {None, disk[row[j].path]}
    BY DEF FileKept
  <1>1. row[j].path \in Names
    BY Typed DEF RowLife, Named
  <1>2. row[j].path \in Claims(j)
    BY <1>1, ClaimsOf
  <1> QED BY <1>1, <1>2, NoRival

LEMMA InsertKept ==
  ASSUME Inv, NEW j \in Jobs, NEW k \in Jobs, NEW folder \in Folders,
         NEW rows \in [Jobs -> RowType \cup {None}],
         \A i \in Jobs : rows[i] \in {row[i], None}, Insert(rows, k, folder)
  PROVE  RowKept(j)
  <1>1. row'[k].hash = None /\ \A i \in Jobs \ {k} : row'[i] \in {row[i], None}
    BY InsertRow
  <1> QED BY <1>1 DEF RowKept

\* The premise of HashNamesFile.
Hashed(j) == j \in Jobs /\ ~ Rival(j) /\ ~ Misnamed(j) /\ ~ Mistaken(j)

LEMMA LandHash ==
  ASSUME Inv, NEW j, Hashed(j), NEW k \in Jobs, Land(k)
  PROVE  ~ Misnamed(j)'
  <1>1. j \in Jobs /\ ~ Rival(j) /\ ~ Misnamed(j)
    BY DEF Hashed
  <1>2. PICK c \in Contents : disk' = [disk EXCEPT ![Plain] = c]
    BY DEF Land
  <1>3. run[k] = "running" /\ row' = row
    BY DEF Land
  <1>4. FileKept(j)
    <2>1. CASE k = j
      <3>1. row[j] # None => row[j].hash = None
        BY <1>1, <1>3, <2>1, Typed DEF RowLife, Done
      <3> QED BY <3>1 DEF FileKept
    <2>2. CASE k # j
      <3>1. Plain \in Claims(k)
        BY <1>3, Typed, ClaimsOf
      <3>2. disk \in [Names -> Contents \cup {None}]
        BY Typed
      <3>3. \A m \in Names \ {Plain} : disk'[m] \in {None, disk[m]}
        BY <1>2, <3>2
      <3> QED BY <1>1, <2>2, <3>1, <3>3, OtherKept
    <2> QED BY <2>1, <2>2
  <1>5. RowKept(j)
    BY <1>3 DEF RowKept
  <1> QED BY <1>1, <1>4, <1>5, Quiet

\* finalizeCompleted: the new name is that of what it hashed, and so is the file.
LEMMA FinalizedHash ==
  ASSUME Inv, NEW j, Hashed(j), NEW k \in Jobs, Finalized(k)
  PROVE  ~ Misnamed(j)'
  <1> DEFINE f == fin[k].file
             c == fin[k].content
             hashed == [row[k] EXCEPT !.path = c, !.hash = c]
  <1>1. /\ fin[k] # None
        /\ \/ SetAndUpload(k, row[k]) /\ disk' = disk
           \/ /\ SetAndUpload(k, hashed)
              /\ disk' = IF f = c THEN disk
                         ELSE IF c \in Files THEN Unlink(f) ELSE Move(f, c)
    BY DEF Finalized, InsertHash, Renamed
  <1>2. /\ fin \in [Jobs -> [file : Names, content : Contents] \cup {None}]
        /\ disk \in [Names -> Contents \cup {None}] /\ Contents \subseteq Names
        /\ row \in [Jobs -> RowType \cup {None}] /\ None \notin Names
    BY Typed
  <1>3. f \in Names /\ c \in Contents /\ c \in Names
    BY <1>1, <1>2
  <1>4. j \in Jobs /\ ~ Rival(j) /\ ~ Misnamed(j) /\ ~ Mistaken(j)
    BY DEF Hashed
  <1>5. row[k] # None => /\ row[k] \in RowType /\ hashed \in RowType
                         /\ hashed.hash = c /\ hashed.path = c
    <2>1. row[k] # None => row[k] \in RowType
      BY <1>2
    <2> QED BY <1>3, <2>1 DEF RowType
  <1>6. \A m \in Names : disk'[m] = IF f # c /\ m = f /\ disk' # disk THEN None
                                    ELSE IF m = c /\ disk' # disk /\ c \notin Files THEN disk[f]
                                    ELSE disk[m]
    BY <1>1, <1>2, <1>3 DEF Unlink, Move
  <1>7. fin[k] = fin[k] /\ fin[k].file = f /\ fin[k].content = c
    OBVIOUS
  <1> HIDE DEF hashed
  <1>8. CASE SetAndUpload(k, row[k]) /\ disk' = disk
    <2>1. RowKept(j)
      BY <1>4, <1>5, <1>8, SetAndUploadKept
    <2> QED BY <1>4, <1>8, <2>1, SameDisk, Quiet
  <1>9. CASE SetAndUpload(k, hashed) /\ k # j
    <2>1. RowKept(j)
      BY <1>4, <1>5, <1>9, SetAndUploadKept
    <2>2. c \in Claims(k)
      BY <1>1, <1>3, <1>7, ClaimsOf
    <2>3. \A m \in Names \ {c} : disk'[m] \in {None, disk[m]}
      BY <1>6
    <2>4. FileKept(j)
      BY <1>4, <1>9, <2>2, <2>3, OtherKept
    <2> QED BY <1>4, <2>1, <2>4, Quiet
  <1>10. CASE SetAndUpload(k, hashed) /\ k = j
    <2>1. PICK new : /\ Set(j, new)
                     /\ row[j] # None => new \in RowType /\ new.hash = c /\ new.path = c
      BY <1>5, <1>10, SetAndUploadRow
    <2>2. row'[j] = IF row[j] = None THEN None ELSE new
      BY <1>2, <1>4, <2>1, SetRow
    <2>3. disk[f] \in {None, c} /\ disk[c] \in {None, c}
      BY <1>1, <1>4, <1>7, <1>10 DEF Mistaken, Mistake, Unlike
    <2>4. disk'[c] \in {None, c}
      BY <1>3, <1>6, <2>3
    <2> QED BY <2>1, <2>2, <2>4 DEF Misnamed, Other, Existing
  <1> QED BY <1>1, <1>8, <1>9, <1>10

LEMMA HashedLocalHash ==
  ASSUME Inv, NEW j, Hashed(j), HashedLocal
  PROVE  ~ Misnamed(j)'
  <1> DEFINE k == maint.job
             f == maint.file
             c == maint.content
             hashed == [row[k] EXCEPT !.path = c, !.hash = c]
  <1>1. /\ At("hash") /\ disk' = IF c \in Files THEN disk ELSE Move(f, c)
        /\ Set(k, hashed) \/ SetAndUpload(k, hashed)
    BY DEF HashedLocal, InsertHash
  <1>2. /\ maint # None /\ k \in Jobs /\ f \in Names /\ c \in Contents
        /\ row[k] # None => row[k] \in RowType
    BY <1>1, ItemJob DEF MaintOK, At
  <1>3. j \in Jobs /\ ~ Rival(j) /\ ~ Misnamed(j) /\ ~ Mistaken(j)
    BY DEF Hashed
  <1>4. /\ disk \in [Names -> Contents \cup {None}] /\ c \in Names
        /\ row \in [Jobs -> RowType \cup {None}]
    BY <1>2, Typed
  <1>5. row[k] # None => hashed \in RowType /\ hashed.path = c /\ hashed.hash = c
    BY <1>2, <1>4 DEF RowType
  <1>6. /\ \A m \in Names \ {c} : disk'[m] \in {None, disk[m]}
        /\ disk'[c] \in {disk[c], disk[f], None}
    BY <1>1, <1>2, <1>4 DEF Move
  <1> HIDE DEF hashed
  <1>7. CASE k # j
    <2>1. RowKept(j)
      BY <1>1, <1>2, <1>3, <1>5, <1>7, SetKept, SetAndUploadKept
    <2>2. c \in Claims(k)
      BY <1>2, <1>4, ClaimsOf
    <2>3. FileKept(j)
      BY <1>2, <1>3, <1>6, <1>7, <2>2, OtherKept
    <2> QED BY <1>3, <2>1, <2>3, Quiet
  <1>8. CASE k = j
    <2>1. PICK new : /\ Set(j, new)
                     /\ row[j] # None => new \in RowType /\ new.hash = c /\ new.path = c
      BY <1>1, <1>3, <1>5, <1>8, SetAndUploadRow
    <2>2. row'[j] = IF row[j] = None THEN None ELSE new
      BY <1>3, <1>4, <2>1, SetRow
    <2>3. disk[f] \in {None, c} /\ disk[c] \in {None, c}
      BY <1>1, <1>3, <1>8 DEF Mistaken, Mistake, Unlike
    <2>4. disk'[c] \in {None, c}
      BY <1>6, <2>3
    <2> QED BY <2>1, <2>2, <2>4 DEF Misnamed, Other, Existing
  <1> QED BY <1>7, <1>8

LEMMA RecordHashHash ==
  ASSUME Inv, NEW j, Hashed(j), RecordHash
  PROVE  ~ Misnamed(j)'
  <1> DEFINE k == maint.job
             new == [row[k] EXCEPT !.hash = maint.content, !.path = maint.file,
                       !.remoteName = maint.file]
  <1>1. At("record") /\ disk' = disk /\ Set(k, new)
    BY DEF RecordHash, fileVars
  <1>2. /\ maint # None /\ k \in Jobs /\ row \in [Jobs -> RowType \cup {None}]
        /\ maint.file \in Names /\ maint.content \in Contents /\ Contents \subseteq Names
    BY <1>1, ItemJob, Typed DEF MaintOK, At
  <1>3. j \in Jobs /\ ~ Misnamed(j) /\ ~ Mistaken(j)
    BY DEF Hashed
  <1>4. row[k] # None => /\ new \in RowType /\ new.hash = maint.content
                         /\ new.path = maint.file
    <2>1. row[k] # None => row[k] \in RowType
      BY <1>2
    <2> QED BY <1>2, <2>1 DEF RowType
  <1> HIDE DEF new
  <1>5. CASE k = j
    <2>1. row'[j] = IF row[j] = None THEN None ELSE new
      BY <1>1, <1>2, <1>4, <1>5, SetRow
    <2>2. disk'[maint.file] \in {None, maint.content}
      BY <1>1, <1>3, <1>5 DEF Mistaken, Recording, Unlike
    <2> QED BY <1>4, <1>5, <2>1, <2>2 DEF Misnamed, Other, Existing
  <1>6. CASE k # j
    <2>1. RowKept(j)
      BY <1>1, <1>2, <1>3, <1>6, SetKept
    <2> QED BY <1>1, <1>3, <2>1, SameDisk, Quiet
  <1> QED BY <1>5, <1>6

\* The steps of a download that leave what is hashed alone.
LEMMA DownloadKept ==
  ASSUME Inv, NEW j \in Jobs, NEW k \in Jobs,
         \/ Post(k) \/ Start(k) \/ Fails(k) \/ Completes(k)
         \/ \E q \in Requests : Overwrite(q, k) \/ OverwriteDone(q, k)
  PROVE  RowKept(j) /\ FileKept(j)
  <1>1. /\ row \in [Jobs -> RowType \cup {None}] /\ "season" \in Folders
        /\ \A i \in Jobs : row[i] \in {row[i], None}
    BY Typed DEF Folders
  <1>2. CASE Post(k)
    <2>1. Insert(row, k, "season") /\ disk' = disk
      BY <1>2 DEF Post, fileVars
    <2> QED BY <1>1, <2>1, InsertKept, SameDisk
  <1>3. CASE Start(k) \/ \E q \in Requests : Overwrite(q, k)
    <2>1. row' = row /\ disk' = disk
      BY <1>3 DEF Overwrite, Start, fileVars
    <2> QED BY <2>1, SameDisk DEF RowKept
  <1>4. ASSUME NEW q \in Requests, OverwriteDone(q, k)
        PROVE  RowKept(j) /\ FileKept(j)
    <2> DEFINE rows == [row EXCEPT ![post[q].old] = None]
    <2>1. Insert(rows, k, "season") /\ disk' \in {disk, Unlink(post[q].seen.path)}
      BY <1>4 DEF OverwriteDone
    <2>2. /\ rows \in [Jobs -> RowType \cup {None}]
          /\ \A i \in Jobs : rows[i] \in {row[i], None}
      BY <1>1
    <2> HIDE DEF rows
    <2> QED BY <1>1, <2>1, <2>2, InsertKept, UnlinkKept
  <1>5. ASSUME Fails(k) \/ Completes(k), row[k] # None
        PROVE  row[k] \in RowType /\ row[k].hash = None
    BY <1>1, <1>5, Typed DEF Fails, Completes, RowLife, Done
  <1>6. CASE Fails(k)
    <2> DEFINE new == [row[k] EXCEPT !.status = "failed",
                         !.path = IF run[k] = "queued" THEN @ ELSE Plain]
    <2>1. Set(k, new) /\ disk' = disk
      BY <1>6 DEF Fails, fileVars
    <2>2. row[k] # None => new.hash = None
      BY <1>5, <1>6 DEF RowType
    <2> HIDE DEF new
    <2> QED BY <2>1, <2>2, SetKept, SameDisk
  <1>7. CASE Completes(k)
    <2> DEFINE done == [row[k] EXCEPT !.status = "completed", !.path = Plain]
    <2>1. Set(k, done) \/ SetAndUpload(k, done)
      BY <1>7 DEF Completes
    <2>2. row[k] # None => done \in RowType /\ done.hash = None
      <3>1. row[k] # None => row[k] \in RowType /\ row[k].hash = None
        BY <1>5, <1>7
      <3> QED BY <3>1, Typed DEF RowType
    <2>3. disk' = disk
      BY <1>7 DEF Completes, fileVars
    <2> HIDE DEF done
    <2> QED BY <2>1, <2>2, <2>3, SetKept, SetAndUploadKept, SameDisk
  <1> QED BY <1>2, <1>3, <1>4, <1>6, <1>7

LEMMA UploadKept ==
  ASSUME Inv, NEW j \in Jobs, NEW k \in Jobs,
         \/ RequestUpload(k) \/ Delete(k)
         \/ \E w \in Workers :
              UploadStarts(w, k) \/ Uploaded(w) \/ Unlinked(w) \/ UploadFails(w)
  PROVE  RowKept(j) /\ FileKept(j)
  <1>1. row \in [Jobs -> RowType \cup {None}]
    BY Typed
  <1>2. ASSUME NEW i \in Jobs, NEW m, Set(i, [row[i] EXCEPT !.mega = m])
        PROVE  RowKept(j)
    <2> DEFINE new == [row[i] EXCEPT !.mega = m]
    <2>1. row[i] # None => new.hash = row[i].hash /\ new.path = row[i].path
      <3>1. row[i] # None => row[i] \in RowType
        BY <1>1
      <3> QED BY <3>1 DEF RowType
    <2>2. Set(i, new)
      BY <1>2
    <2> HIDE DEF new
    <2> QED BY <2>1, <2>2, SetKept
  <1>3. CASE RequestUpload(k) \/ \E w \in Workers : UploadStarts(w, k)
    <2>1. disk' = disk
      BY <1>3 DEF UploadStarts, RequestUpload, fileVars
    <2>2. \/ row' = row
          \/ \E m \in {"uploading", "failed", "pending"} : Set(k, [row[k] EXCEPT !.mega = m])
      BY <1>3 DEF UploadStarts, RequestUpload
    <2>3. RowKept(j)
      BY <1>2, <2>2 DEF RowKept
    <2> QED BY <2>1, <2>3, SameDisk
  <1>4. CASE Delete(k)
    <2>1. disk' = Unlink(Path(k)) /\ row' \in {row, [row EXCEPT ![k] = None]}
      BY <1>4 DEF Delete
    <2>2. RowKept(j)
      BY <1>1, <2>1 DEF RowKept
    <2> QED BY <2>1, <2>2, UnlinkKept
  <1>5. ASSUME NEW w \in Workers, upload[w] # None
        PROVE  upload[w].job \in Jobs
    BY <1>5, Typed DEF UploadType
  <1>6. ASSUME NEW w \in Workers, Uploaded(w)
        PROVE  RowKept(j) /\ FileKept(j)
    <2> DEFINE i == upload[w].job
               new == [row[i] EXCEPT !.mega = "uploaded", !.remoteName = upload[w].path]
    <2>1. Set(i, new) /\ disk' = disk /\ i \in Jobs
      BY <1>5, <1>6 DEF Uploaded, UploadAt
    <2>2. row[i] # None => new.hash = row[i].hash /\ new.path = row[i].path
      <3>1. row[i] # None => row[i] \in RowType
        BY <1>1, <2>1
      <3> QED BY <3>1 DEF RowType
    <2> HIDE DEF new, i
    <2> QED BY <2>1, <2>2, SetKept, SameDisk
  <1>7. ASSUME NEW w \in Workers, UploadFails(w)
        PROVE  RowKept(j) /\ FileKept(j)
    <2>1. disk' = disk /\ Set(upload[w].job, [row[upload[w].job] EXCEPT !.mega = "failed"])
      BY <1>7 DEF UploadFails, fileVars
    <2>2. upload[w].job \in Jobs
      BY <1>5, <1>7 DEF UploadFails, UploadAt
    <2> QED BY <1>2, <2>1, <2>2, SameDisk
  <1>8. ASSUME NEW w \in Workers, Unlinked(w)
        PROVE  RowKept(j) /\ FileKept(j)
    <2>1. row' = row /\ disk' \in {disk, Unlink(upload[w].path)}
      BY <1>8 DEF Unlinked
    <2> QED BY <2>1, UnlinkKept DEF RowKept
  <1> QED BY <1>3, <1>4, <1>6, <1>7, <1>8

LEMMA MaintenanceKept ==
  ASSUME Inv, NEW j \in Jobs,
         \/ \E k \in Jobs : Takes(k) \/ ReDownload(k)
         \/ \E task \in Tasks : StartTask(task)
         \/ EndTask \/ Throws \/ Fetch \/ RenameNode \/ Replace \/ Dropped \/ MoveNode
         \/ RecordSeason
  PROVE  RowKept(j) /\ FileKept(j)
  <1>1. row \in [Jobs -> RowType \cup {None}]
    BY Typed
  <1>2. disk' = disk
    BY DEF Takes, ReDownload, StartTask, EndTask, Throws, Fetch, RenameNode, Replace, Dropped,
       MoveNode, RecordSeason, fileVars
  <1>3. CASE row' = row
    BY <1>2, <1>3, SameDisk DEF RowKept
  <1>4. CASE \E k \in Jobs : ReDownload(k)
    <2>1. PICK k \in Jobs : Insert(row, k, "single")
      BY <1>4 DEF ReDownload
    <2>2. "single" \in Folders /\ \A i \in Jobs : row[i] \in {row[i], None}
      BY DEF Folders
    <2> QED BY <1>1, <1>2, <2>1, <2>2, InsertKept, SameDisk
  <1>5. CASE Dropped
    <2>1. row' = [row EXCEPT ![maint.job] = None]
      BY <1>5 DEF Dropped
    <2>2. RowKept(j)
      BY <1>1, <2>1 DEF RowKept
    <2> QED BY <1>2, <2>2, SameDisk
  <1>6. CASE RecordSeason
    <2> DEFINE k == maint.job
               new == [row[k] EXCEPT !.folder = "season"]
    <2>1. Set(k, new) /\ k \in Jobs
      BY <1>6, ItemJob DEF RecordSeason, At
    <2>2. row[k] # None => new.hash = row[k].hash /\ new.path = row[k].path
      <3>1. row[k] # None => row[k] \in RowType
        BY <1>1, <2>1
      <3> QED BY <3>1 DEF RowType
    <2> HIDE DEF new, k
    <2> QED BY <1>2, <2>1, <2>2, SetKept, SameDisk
  <1>7. \/ row' = row \/ (\E k \in Jobs : ReDownload(k)) \/ Dropped \/ RecordSeason
    BY DEF Takes, StartTask, EndTask, Throws, Fetch, RenameNode, Replace, MoveNode
  <1> QED BY <1>3, <1>4, <1>5, <1>6, <1>7

LEMMA ToggleKept ==
  ASSUME Inv, NEW j \in Jobs,
         ToggleMega \/ \E q \in Requests : OverwriteRemote(q) \/ OverwriteCheck(q)
  PROVE  RowKept(j) /\ FileKept(j)
  <1>1. disk' = disk /\ row' = row
    BY DEF OverwriteRemote, OverwriteCheck, ToggleMega, fileVars
  <1> QED BY <1>1, SameDisk DEF RowKept

\* The row of the job whose hashing a restart cuts short may have the hash from
\* another hashing: the file that is moved is what was hashed, and is not put
\* under any other name than that of its hash.
LEMMA RestartHash ==
  ASSUME Inv, NEW j, Hashed(j), Restart
  PROVE  ~ Misnamed(j)'
  <1>1. j \in Jobs /\ ~ Rival(j) /\ ~ Misnamed(j) /\ ~ Mistaken(j)
    BY DEF Hashed
  <1>2. row \in [Jobs -> RowType \cup {None}] /\ Contents \subseteq Names
    BY Typed
  <1>3. row'[j] = IF row[j] # None /\ run[j] = "landed"
                    THEN [row[j] EXCEPT !.status = "failed"] ELSE row[j]
    BY <1>1 DEF Restart, Reconciles
  <1>4. RowKept(j)
    BY <1>1, <1>2, <1>3 DEF RowKept, RowType
  <1>5. CASE disk' = disk
    BY <1>1, <1>4, <1>5, SameDisk, Quiet
  <1>6. ASSUME NEW k \in Jobs, CutShort(k)
        PROVE  ~ Misnamed(j)'
    <2>1. PICK f \in Names, c \in Contents :
            /\ \/ fin[k] # None /\ f = fin[k].file /\ c = fin[k].content
               \/ At("hash") /\ maint.job = k /\ f = maint.file /\ c = maint.content
            /\ \A m \in Names \ {c} : disk'[m] \in {disk[m], None}
            /\ disk'[c] \in {disk[c], disk[f]}
      BY <1>6, CutShortMoves
    <2>2. CASE k # j
      <3>1. c \in Claims(k)
        BY <1>2, <2>1, ClaimsOf DEF At
      <3>2. FileKept(j)
        BY <1>1, <2>1, <2>2, <3>1, OtherKept
      <3> QED BY <1>1, <1>4, <3>2, Quiet
    <2>3. CASE k = j
      <3>1. disk[f] \in {None, c} /\ disk[c] \in {None, c}
        BY <1>1, <2>1, <2>3 DEF Mistaken, Mistake, Unlike
      <3>2. CASE row[j] # None /\ row[j].hash # None
        <4>1. row[j].path = row[j].hash
          BY <1>1, <3>2, Typed DEF RowLife, Named
        <4>2. j \in Existing /\ disk[row[j].path] \in {None, row[j].hash}
          BY <1>1, <3>2, Typed DEF Misnamed, Other, Existing, RowLife, Done
        <4>3. row[j].path \in Names
          BY <1>1, <3>2, Typed DEF RowLife, Named
        <4>4. disk'[row[j].path] \in {None, row[j].hash}
          BY <2>1, <3>1, <4>1, <4>2, <4>3
        <4>5. row'[j].path = row[j].path /\ row'[j].hash = row[j].hash
          BY <1>1, <1>2, <1>3, <3>2 DEF RowType
        <4> QED BY <4>4, <4>5 DEF Misnamed, Other
      <3>3. CASE row[j] = None \/ row[j].hash = None
        <4>1. row'[j] = None \/ row'[j].hash = None
          BY <1>1, <1>2, <1>3, <3>3 DEF RowType
        <4> QED BY <4>1 DEF Misnamed, Other, Existing
      <3> QED BY <3>2, <3>3
    <2> QED BY <2>2, <2>3
  <1> QED BY <1>5, <1>6 DEF Restart

LEMMA HashStep ==
  ASSUME Inv, [Next]_vars, NEW j, Hashed(j)
  PROVE  ~ Misnamed(j)'
  <1>1. j \in Jobs /\ ~ Misnamed(j)
    BY DEF Hashed
  <1>2. CASE UNCHANGED vars
    <2>1. row' = row /\ disk' = disk
      BY <1>2 DEF vars, fileVars
    <2> QED BY <1>1, <2>1 DEF Misnamed, Other, Existing
  <1>3. CASE Next
    <2>1. ASSUME RowKept(j) /\ FileKept(j)
          PROVE  ~ Misnamed(j)'
      BY <1>1, <2>1, Quiet
    <2>2. ASSUME NEW k \in Jobs, \/ Post(k) \/ Start(k) \/ Fails(k) \/ Completes(k)
                                 \/ \E q \in Requests : Overwrite(q, k) \/ OverwriteDone(q, k)
          PROVE  ~ Misnamed(j)'
      BY <1>1, <2>1, <2>2, DownloadKept
    <2>3. ASSUME NEW k \in Jobs, RequestUpload(k) \/ Delete(k)
          PROVE  ~ Misnamed(j)'
      BY <1>1, <2>1, <2>3, UploadKept
    <2>4. ASSUME NEW w \in Workers,
                 \/ \E k \in Jobs : UploadStarts(w, k)
                 \/ Uploaded(w) \/ Unlinked(w) \/ UploadFails(w)
          PROVE  ~ Misnamed(j)'
      BY <1>1, <2>1, <2>4, UploadKept
    <2>5. ASSUME NEW k \in Jobs, Land(k) \/ Finalized(k)
          PROVE  ~ Misnamed(j)'
      BY <2>5, LandHash, FinalizedHash
    <2>6. CASE \/ \E k \in Jobs : Takes(k) \/ ReDownload(k)
               \/ \E task \in Tasks : StartTask(task)
               \/ EndTask \/ Throws \/ Fetch \/ RenameNode \/ Replace \/ Dropped \/ MoveNode
               \/ RecordSeason
      BY <1>1, <2>1, <2>6, MaintenanceKept
    <2>7. CASE ToggleMega \/ \E q \in Requests : OverwriteRemote(q) \/ OverwriteCheck(q)
      BY <1>1, <2>1, <2>7, ToggleKept
    <2>8. CASE HashedLocal \/ RecordHash \/ Restart
      BY <2>8, HashedLocalHash, RecordHashHash, RestartHash
    <2> QED BY <1>1, <1>3, <2>2, <2>3, <2>4, <2>5, <2>6, <2>7, <2>8 DEF Next
  <1> QED BY <1>2, <1>3

\* The name that a completed row records keeps the promise it makes: however the
\* downloads, the uploads, the user, the maintenance and the restarts interleave,
\* the file under it stays the one whose hash it embeds, and a row that gets a
\* hash gets its file's, but for the jobs and the moments named in Library.
THEOREM HashCorrect == Spec => HashNamesFile
  <1>1. Inv /\ [Next]_vars =>
          [\A j \in Jobs : Misnamed(j)' => Misnamed(j) \/ Mistaken(j) \/ Rival(j)]_vars
    BY HashStep DEF Hashed
  <1> QED BY <1>1, Invariance, PTL DEF Spec, HashNamesFile
=============================================================================
