------------------------- MODULE LibraryCopiesProofs -------------------------
(***************************************************************************)
(* Proofs that no step of Library takes an entry's node, or its last copy, *)
(* but those named there (NodeStays, LastCopyStays): for any number of     *)
(* jobs, contents, nodes, requests and restarts.                           *)
(*                                                                         *)
(* Most steps are calm for an entry: they leave what its row says of its   *)
(* copies, its file, and a node of the same name and content for every     *)
(* node of it.  That a step of another job is calm follows from the claims *)
(* (OthersFile, OthersNode): what it writes or deletes has a name that the *)
(* other job claims.  The steps of the entry itself are taken one by one.  *)
(***************************************************************************)
EXTENDS LibraryProofs

(***************************************************************************)
(* The nodes as a set.                                                     *)
(***************************************************************************)

LEMMA NodesType ==
  ASSUME Inv
  PROVE  \A n \in ToSet(remote) : n \in Node
  <1>1. remote \in Seq(Node)
    BY Typed
  <1> QED BY <1>1 DEF ToSet

\* A node is appended.
LEMMA AppendNode ==
  ASSUME Inv, NEW m \in Node, remote' = Append(remote, m)
  PROVE  m \in ToSet(remote') /\ \A n \in ToSet(remote) : n \in ToSet(remote')
  <1>1. remote \in Seq(Node)
    BY Typed
  <1> HIDE DEF Node
  <1>2. /\ DOMAIN remote' = 1 .. Len(remote) + 1 /\ DOMAIN remote = 1 .. Len(remote)
        /\ remote'[Len(remote) + 1] = m /\ \A i \in 1 .. Len(remote) : remote'[i] = remote[i]
        /\ Len(remote) \in Nat
    BY <1>1
  <1>3. Len(remote) + 1 \in DOMAIN remote' /\ DOMAIN remote \subseteq DOMAIN remote'
    BY <1>2
  <1> QED BY <1>2, <1>3 DEF ToSet

\* A node is changed.
LEMMA ChangeNode ==
  ASSUME Inv, NEW i \in 1 .. Len(remote), NEW m \in Node, remote' = [remote EXCEPT ![i] = m]
  PROVE  /\ m \in ToSet(remote') /\ remote[i] \in ToSet(remote)
         /\ \A n \in ToSet(remote) : n = remote[i] \/ n \in ToSet(remote')
  <1>1. remote \in Seq(Node)
    BY Typed
  <1> HIDE DEF Node
  <1>2. /\ DOMAIN remote' = DOMAIN remote /\ i \in DOMAIN remote
        /\ remote'[i] = m /\ \A k \in DOMAIN remote \ {i} : remote'[k] = remote[k]
    BY <1>1
  <1> QED BY <1>2 DEF ToSet

\* A node is removed.
LEMMA RemovedNode ==
  ASSUME Inv, NEW i \in 1 .. Len(remote), remote' = RemoveAt(remote, i)
  PROVE  \A n \in ToSet(remote) : n = remote[i] \/ n \in ToSet(remote')
  <1>1. remote \in Seq(Node) /\ Len(remote) \in Nat /\ i \in Nat
    BY Typed
  <1> HIDE DEF Node
  <1> DEFINE s == SubSeq(remote, 1, i - 1)
             t == SubSeq(remote, i + 1, Len(remote))
  <1>2. remote' = s \o t
    BY DEF RemoveAt
  <1>3. /\ s \in Seq(Node) /\ Len(s) = i - 1
        /\ \A k \in 1 .. i - 1 : s[k] = remote[k]
    BY <1>1
  <1>4. /\ t \in Seq(Node) /\ Len(t) = Len(remote) - i
        /\ \A k \in 1 .. Len(remote) - i : t[k] = remote[i + k]
    BY <1>1
  <1> HIDE DEF s, t
  <1>5. /\ Len(remote') = Len(remote) - 1 /\ DOMAIN remote' = 1 .. Len(remote) - 1
        /\ \A k \in 1 .. Len(remote) - 1 :
             remote'[k] = IF k < i THEN s[k] ELSE t[k - (i - 1)]
    <2>1. /\ s \o t \in Seq(Node) /\ Len(s \o t) = Len(s) + Len(t)
          /\ \A k \in 1 .. Len(s) + Len(t) :
               (s \o t)[k] = IF k <= Len(s) THEN s[k] ELSE t[k - Len(s)]
      BY <1>3, <1>4, ConcatProperties
    <2>2. Len(s) + Len(t) = Len(remote) - 1 /\ \A k \in Int : k <= Len(s) <=> k < i
      BY <1>1, <1>3, <1>4
    <2>3. Len(remote') = Len(remote) - 1 /\ DOMAIN remote' = 1 .. Len(remote) - 1
      BY <1>2, <2>1, <2>2
    <2> QED BY <1>2, <1>3, <2>1, <2>2, <2>3
  <1> SUFFICES ASSUME NEW k \in 1 .. Len(remote), k # i
               PROVE  \E l \in DOMAIN remote' : remote'[l] = remote[k]
    BY <1>1 DEF ToSet
  <1>6. CASE k < i
    <2>1. k \in 1 .. Len(remote) - 1 /\ k \in 1 .. i - 1
      BY <1>1, <1>6
    <2> QED BY <1>3, <1>5, <1>6, <2>1
  <1>7. CASE k > i
    <2>1. /\ k - 1 \in 1 .. Len(remote) - 1 /\ ~ (k - 1 < i)
          /\ k - 1 - (i - 1) = k - i /\ k - i \in 1 .. Len(remote) - i /\ i + (k - i) = k
      BY <1>1, <1>7
    <2>2. remote'[k - 1] = t[k - i] /\ t[k - i] = remote[k]
      BY <1>4, <1>5, <2>1
    <2> QED BY <1>5, <2>1, <2>2
  <1> QED BY <1>1, <1>6, <1>7

\* deleteRemoteForJob takes no node but one of the row's name.
LEMMA DeletedNode ==
  ASSUME Inv, NEW r, DeleteRemote(r) \/ UNCHANGED remote
  PROVE  \A n \in ToSet(remote) : n.name = RemoteName(r) \/ n \in ToSet(remote')
  <1> DEFINE i == Find(RemoteName(r), r.folder)
  <1>1. remote' = remote \/ (i # 0 /\ remote' = RemoveAt(remote, i))
    BY DEF DeleteRemote
  <1>2. i = 0 \/ (i \in 1 .. Len(remote) /\ remote[i].name = RemoteName(r))
    BY FindNode, Typed
  <1> HIDE DEF i
  <1> QED BY <1>1, <1>2, RemovedNode

-----------------------------------------------------------------------------
(* What the properties are about, and the calm steps.                      *)

\* The node is a copy of the job's, as HasNode says.
NodeOf(j, n) ==
  IF Recording(j) THEN n.name = maint.file /\ n.content = maint.content
  ELSE n.name = row[j].remoteName /\ Same(j, n.content)

\* The premises that the two properties have in common.
Subject(j) ==
  /\ j \in Existing /\ j \in Existing' /\ ~ Disturbed(j) /\ ~ MayGo(j)

\* What they say of a step.
Kept(j) ==
  /\ HasNode(j) => HasNode(j)'
  /\ HasFile(j) /\ (Sent(j) => HasNode(j)) => HasFile(j)' \/ HasNode(j)' \/ Strays(j)

RowStays(j) ==
  /\ row'[j].hash = row[j].hash /\ row'[j].path = row[j].path
  /\ row'[j].remoteName = row[j].remoteName
FileStays(j) == disk'[row[j].path] = disk[row[j].path]
NodesStay(j) ==
  \A n \in ToSet(remote) :
    NodeOf(j, n) => \E m \in ToSet(remote') : m.name = n.name /\ m.content = n.content
PlaceStays(j) ==
  /\ Recording(j)' <=> Recording(j)
  /\ Recording(j) => maint'.file = maint.file /\ maint'.content = maint.content

LEMMA CalmNode ==
  ASSUME NEW j \in Jobs, RowStays(j), NodesStay(j), PlaceStays(j), HasNode(j)
  PROVE  HasNode(j)'
  <1>1. PICK n \in ToSet(remote) : NodeOf(j, n)
    BY DEF HasNode, NodeOf
  <1>2. PICK m \in ToSet(remote') : m.name = n.name /\ m.content = n.content
    BY <1>1 DEF NodesStay
  <1>3. CASE Recording(j)
    <2>1. n.name = maint.file /\ n.content = maint.content
      BY <1>1, <1>3 DEF NodeOf
    <2>2. Recording(j)' /\ m.name = maint'.file /\ m.content = maint'.content
      BY <1>2, <1>3, <2>1 DEF PlaceStays
    <2> QED BY <2>2 DEF HasNode
  <1>4. CASE ~ Recording(j)
    <2>1. n.name = row[j].remoteName /\ Same(j, n.content)
      BY <1>1, <1>4 DEF NodeOf
    <2>2. ~ Recording(j)' /\ m.name = row'[j].remoteName /\ Same(j, m.content)'
      BY <1>2, <1>4, <2>1 DEF PlaceStays, RowStays, Same
    <2> QED BY <2>2 DEF HasNode
  <1> QED BY <1>3, <1>4

LEMMA CalmFile ==
  ASSUME NEW j \in Jobs, RowStays(j), FileStays(j), HasFile(j)
  PROVE  HasFile(j)'
  BY DEF RowStays, FileStays, HasFile, Same

Calm(j) == RowStays(j) /\ FileStays(j) /\ NodesStay(j) /\ PlaceStays(j)

LEMMA CalmKept ==
  ASSUME NEW j \in Jobs, Calm(j)
  PROVE  Kept(j)
  BY CalmNode, CalmFile DEF Calm, Kept

\* The entry of a subject is that of a completed job.
LEMMA SubjectFacts ==
  ASSUME Inv, NEW j, Subject(j)
  PROVE  /\ j \in Jobs /\ ~ Rival(j) /\ row[j] # None /\ row[j] \in RowType
         /\ Done(j) /\ run[j] = "over" /\ row[j].status = "completed" /\ Named(row[j])
         /\ row[j].path \in Names /\ row[j].path \in Claims(j) /\ row'[j] # None
  <1>1. /\ j \in Jobs /\ ~ Rival(j) /\ row[j] # None /\ row'[j] # None
        /\ row[j].status = "completed" \/ row[j].mega = "uploaded"
    BY DEF Subject, Existing, Disturbed
  <1>2. RowLife(j) /\ row[j] \in RowType
    BY <1>1, Typed
  <1>3. Done(j) /\ Named(row[j])
    BY <1>1, <1>2, LibraryAssumption DEF RowLife
  <1>4. row[j].path \in Names /\ row[j].path \in Claims(j)
    BY <1>1, <1>3, ClaimsOf DEF Named
  <1> QED BY <1>1, <1>2, <1>3, <1>4 DEF Done

\* A node of the entry has a name that its job claims.
LEMMA NodeClaimed ==
  ASSUME Inv, NEW j, Subject(j), NEW n \in ToSet(remote), NodeOf(j, n)
  PROVE  n.name \in Claims(j)
  <1>1. n.name \in Names
    BY NodesType DEF Node
  <1>2. j \in Jobs /\ row[j] # None
    BY SubjectFacts
  <1> QED BY <1>1, <1>2, ClaimsOf DEF NodeOf, Recording, At

\* Another job changes files under names that it claims.
LEMMA OthersFile ==
  ASSUME Inv, NEW j, Subject(j), NEW k \in Jobs \ {j},
         \A m \in Names : m \in Claims(k) \/ disk'[m] = disk[m]
  PROVE  FileStays(j)
  BY SubjectFacts, NoRival DEF FileStays

\* And so it is with nodes.
LEMMA OthersNode ==
  ASSUME Inv, NEW j, Subject(j), NEW k \in Jobs \ {j},
         \A n \in ToSet(remote) : n.name \in Claims(k) \/ n \in ToSet(remote')
  PROVE  NodesStay(j)
  <1> SUFFICES ASSUME NEW n \in ToSet(remote), NodeOf(j, n)
               PROVE  n \in ToSet(remote')
    BY DEF NodesStay
  <1>1. n.name \in Claims(j)
    BY NodeClaimed
  <1> QED BY <1>1, SubjectFacts, NoRival

LEMMA SameNodes ==
  ASSUME NEW j, remote' = remote
  PROVE  NodesStay(j)
  BY DEF NodesStay

LEMMA SameMaint ==
  ASSUME NEW j, maint' = maint
  PROVE  PlaceStays(j)
  BY DEF PlaceStays, Recording, At

\* The item is none that records a name, before or after the step.
LEMMA Elsewhere ==
  ASSUME NEW j, maint # None => maint.pc # "record" \/ maint.job # j,
         maint' # None => maint'.pc # "record" \/ maint'.job # j
  PROVE  PlaceStays(j)
  BY DEF PlaceStays, Recording, At

-----------------------------------------------------------------------------
(* The steps of downloads and overwrites.                                  *)

\* An update of a row leaves what another says, and what it does not set.
LEMMA SetStays ==
  ASSUME Inv, NEW j \in Jobs, row[j] # None, NEW k \in Jobs, NEW new, Set(k, new),
         j = k => /\ new.hash = row[j].hash /\ new.path = row[j].path
                  /\ new.remoteName = row[j].remoteName
  PROVE  RowStays(j)
  <1>1. row \in [Jobs -> RowType \cup {None}]
    BY Typed
  <1> QED BY <1>1 DEF Set, RowStays

\* As does one that sets mega_status.
LEMMA SetMega ==
  ASSUME Inv, NEW j \in Jobs, row[j] # None, NEW k \in Jobs, NEW m,
         Set(k, [row[k] EXCEPT !.mega = m])
  PROVE  RowStays(j)
  <1> DEFINE new == [row[k] EXCEPT !.mega = m]
  <1>1. j = k => /\ new.hash = row[j].hash /\ new.path = row[j].path
                 /\ new.remoteName = row[j].remoteName
    <2>1. j = k => row[k] \in RowType
      BY Typed
    <2> QED BY <2>1 DEF RowType
  <1>2. Set(k, new)
    OBVIOUS
  <1> HIDE DEF new
  <1> QED BY <1>1, <1>2, SetStays

LEMMA SetAndUploadStays ==
  ASSUME Inv, NEW j \in Jobs, row[j] # None, NEW k \in Jobs \ {j}, NEW r, SetAndUpload(k, r)
  PROVE  RowStays(j)
  <1>1. PICK new : Set(k, new)
    BY DEF SetAndUpload
  <1> QED BY <1>1, SetStays

\* A new row.
LEMMA InsertStays ==
  ASSUME Inv, NEW j, Subject(j), NEW k \in Jobs, NEW folder \in Folders,
         NEW rows \in [Jobs -> RowType \cup {None}], rows[j] = row[j], Insert(rows, k, folder)
  PROVE  RowStays(j)
  <1>1. run[k] = "none" /\ row' = [rows EXCEPT ![k] = NewRow(folder)]
    BY DEF Insert
  <1>2. j \in Jobs /\ k # j
    BY <1>1, SubjectFacts
  <1>3. row'[j] = row[j]
    BY <1>1, <1>2
  <1> QED BY <1>3 DEF RowStays

LEMMA PostCalm ==
  ASSUME Inv, NEW j, Subject(j), NEW k \in Jobs, Post(k) \/ Start(k) \/ Fails(k) \/ Completes(k)
  PROVE  Calm(j)
  <1>1. disk' = disk /\ remote' = remote /\ maint' = maint
    BY DEF Post, Start, Fails, Completes, fileVars
  <1>2. j \in Jobs /\ row[j] # None /\ run[j] = "over" /\ row \in [Jobs -> RowType \cup {None}]
    BY SubjectFacts, Typed
  <1>3. RowStays(j)
    <2>1. CASE Post(k)
      <3>1. Insert(row, k, "season") /\ "season" \in Folders
        BY <2>1 DEF Post, Folders
      <3> QED BY <1>2, <3>1, InsertStays
    <2>2. CASE Start(k)
      BY <2>2 DEF Start, RowStays
    <2>3. CASE Fails(k)
      <3>1. k # j
        BY <1>2, <2>3 DEF Fails
      <3>2. \E new : Set(k, new)
        BY <2>3 DEF Fails
      <3> QED BY <1>2, <3>1, <3>2, SetStays
    <2>4. CASE Completes(k)
      <3>1. k # j
        BY <1>2, <2>4 DEF Completes
      <3>2. \E r : Set(k, r) \/ SetAndUpload(k, r)
        BY <2>4 DEF Completes
      <3> QED BY <1>2, <3>1, <3>2, SetStays, SetAndUploadStays
    <2> QED BY <2>1, <2>2, <2>3, <2>4
  <1> QED BY <1>1, <1>3, SameNodes, SameMaint DEF Calm, FileStays

LEMMA LandCalm ==
  ASSUME Inv, NEW j, Subject(j), NEW k \in Jobs, Land(k)
  PROVE  Calm(j)
  <1>1. PICK c \in Contents : disk' = [disk EXCEPT ![Plain] = c]
    BY DEF Land
  <1>2. run[k] = "running" /\ row' = row /\ remote' = remote /\ maint' = maint
    BY DEF Land
  <1>3. k # j /\ Plain \in Claims(k)
    BY <1>2, SubjectFacts, ClaimsOf, Typed
  <1>4. \A m \in Names : m \in Claims(k) \/ disk'[m] = disk[m]
    BY <1>1, <1>3, Typed
  <1>5. FileStays(j)
    BY <1>3, <1>4, OthersFile
  <1> QED BY <1>2, <1>5, SameNodes, SameMaint DEF Calm, RowStays

LEMMA OverwriteCalm ==
  ASSUME Inv, NEW j, Subject(j), NEW q \in Requests,
         OverwriteRemote(q) \/ OverwriteCheck(q) \/ \E e \in Jobs : Overwrite(q, e)
  PROVE  Calm(j)
  <1>1. row' = row /\ disk' = disk /\ maint' = maint
    BY DEF Overwrite, OverwriteRemote, OverwriteCheck, fileVars
  <1>2. NodesStay(j)
    <2>1. CASE remote' = remote
      BY <2>1, SameNodes
    <2>2. CASE OverwriteRemote(q) /\ DeleteRemote(post[q].seen)
      <3> DEFINE k == post[q].old
                 r == post[q].seen
      <3>1. post[q] # None /\ post[q] \in PostType
        BY <2>2, Typed DEF OverwriteRemote, PostAt
      <3>2. k \in Jobs \ {j} /\ Removes(q, k)
        BY <3>1 DEF Subject, MayGo, Condemned, Removes, PostType
      <3>3. \A n \in ToSet(remote) : n.name \in Claims(k) \/ n \in ToSet(remote')
        <4> SUFFICES ASSUME NEW n \in ToSet(remote), n.name = RemoteName(r)
                     PROVE  n.name \in Claims(k)
          BY <2>2, DeletedNode
        <4>1. n.name \in Names
          BY NodesType DEF Node
        <4>2. n.name \in {r.path, r.remoteName}
          BY DEF RemoteName
        <4> HIDE DEF k
        <4> QED BY <3>2, <4>1, <4>2, ClaimsOf
      <3> HIDE DEF k
      <3> QED BY <3>2, <3>3, OthersNode
    <2> QED BY <2>1, <2>2 DEF Overwrite, OverwriteRemote, OverwriteCheck, fileVars
  <1> QED BY <1>1, <1>2, SameMaint DEF Calm, RowStays, FileStays

LEMMA OverwriteDoneCalm ==
  ASSUME Inv, NEW j, Subject(j), NEW q \in Requests, NEW k \in Jobs, OverwriteDone(q, k)
  PROVE  Calm(j)
  <1> DEFINE o == post[q].old
             p == post[q].seen.path
             rows == [row EXCEPT ![o] = None]
  <1>1. /\ post[q] # None /\ Insert(rows, k, "season") /\ "season" \in Folders
        /\ remote' = remote /\ maint' = maint /\ disk' \in {disk, Unlink(p)}
    BY DEF OverwriteDone, PostAt, Folders
  <1>2. o \in Jobs \ {j} /\ Removes(q, o)
    BY <1>1, Typed DEF Subject, MayGo, Condemned, Removes, PostType
  <1>3. rows \in [Jobs -> RowType \cup {None}] /\ rows[j] = row[j]
    BY <1>2, SubjectFacts, Typed
  <1> HIDE DEF rows, o
  <1>4. RowStays(j)
    BY <1>1, <1>3, InsertStays
  <1>5. \A m \in Names : m \in Claims(o) \/ disk'[m] = disk[m]
    <2> SUFFICES ASSUME NEW m \in Names, m # p
                 PROVE  disk'[m] = disk[m]
      BY <1>2, ClaimsOf
    <2> QED BY <1>1, Typed DEF Unlink
  <1>6. FileStays(j)
    BY <1>2, <1>5, OthersFile
  <1> QED BY <1>1, <1>4, <1>6, SameNodes, SameMaint DEF Calm

\* finalizeCompleted of another job; and of the entry's own, which gives it the
\* hash and the name of the file and of the node that it has.
LEMMA FinalizedCalm ==
  ASSUME Inv, NEW j, Subject(j), NEW k \in Jobs \ {j}, Finalized(k)
  PROVE  Calm(j)
  <1> DEFINE f == fin[k].file
             c == fin[k].content
  <1>1. /\ fin[k] # None /\ remote' = remote /\ maint' = maint
        /\ \E r : SetAndUpload(k, r)
        /\ disk' \in {disk, Unlink(f), Move(f, c)}
    BY DEF Finalized, InsertHash, Renamed
  <1>2. j \in Jobs /\ row[j] # None
    BY SubjectFacts
  <1>3. f \in Names /\ c \in Names /\ disk \in [Names -> Contents \cup {None}]
    BY <1>1, Typed
  <1>4. f \in Claims(k) /\ c \in Claims(k)
    BY <1>1, <1>3, ClaimsOf
  <1>5. RowStays(j)
    BY <1>1, <1>2, SetAndUploadStays
  <1> HIDE DEF f, c
  <1>6. \A m \in Names : m \in Claims(k) \/ disk'[m] = disk[m]
    BY <1>1, <1>3, <1>4 DEF Unlink, Move
  <1>7. FileStays(j)
    BY <1>6, OthersFile
  <1> QED BY <1>1, <1>5, <1>7, SameNodes, SameMaint DEF Calm

\* A row is given a hash and a name, and there is a file of both; its node is one
\* of that hash.
LEMMA HashKept ==
  ASSUME Inv, NEW j, Subject(j), NEW name, NEW c \in Contents, ~ Mistake(j, name, c),
         remote' = remote, ~ Recording(j), ~ Recording(j)',
         row'[j].hash = c, row'[j].path = c, row'[j].remoteName = row[j].remoteName,
         disk'[c] = c
  PROVE  Kept(j)
  <1>1. HasFile(j)'
    BY Typed DEF HasFile, Same
  <1>2. ASSUME HasNode(j)
        PROVE  HasNode(j)'
    <2>1. PICK n \in ToSet(remote) : n.name = row[j].remoteName
      BY <1>2 DEF HasNode
    <2>2. n.content = c
      BY <2>1, SubjectFacts DEF Mistake
    <2>3. n \in ToSet(remote') /\ n.name = row'[j].remoteName /\ Same(j, n.content)'
      BY <2>1, <2>2, Typed DEF Same
    <2> QED BY <2>3 DEF HasNode
  <1> QED BY <1>1, <1>2 DEF Kept

LEMMA FinalizedKept ==
  ASSUME Inv, NEW j, Subject(j), Finalized(j)
  PROVE  Kept(j)
  <1> DEFINE f == fin[j].file
             c == fin[j].content
             hashed == [row[j] EXCEPT !.path = c, !.hash = c]
  <1>1. /\ fin[j] # None /\ remote' = remote /\ maint' = maint
        /\ \/ SetAndUpload(j, row[j]) /\ disk' = disk
           \/ /\ SetAndUpload(j, hashed) /\ {f, c} \cap Files # {}
              /\ disk' = IF f = c THEN disk ELSE IF c \in Files THEN Unlink(f) ELSE Move(f, c)
    BY DEF Finalized, InsertHash, Renamed
  <1>2. /\ j \in Jobs /\ row[j] # None /\ row[j] \in RowType /\ ~ Mistaken(j)
        /\ row \in [Jobs -> RowType \cup {None}]
    BY SubjectFacts, Typed DEF Subject, Disturbed
  <1>3. f \in Names /\ c \in Contents /\ c \in Names /\ disk \in [Names -> Contents \cup {None}]
    BY <1>1, <1>2, Typed
  <1>4. ~ Mistake(j, f, c)
    BY <1>1, <1>2 DEF Mistaken
  <1>5. hashed \in RowType /\ hashed.path = c /\ hashed.hash = c
        /\ hashed.remoteName = row[j].remoteName
    BY <1>2, <1>3 DEF RowType
  <1> HIDE DEF hashed
  <1>6. CASE SetAndUpload(j, row[j]) /\ disk' = disk
    <2>1. PICK new : /\ Set(j, new) /\ new.hash = row[j].hash /\ new.path = row[j].path
                     /\ new.remoteName = row[j].remoteName
      BY <1>2, <1>6, SetAndUploadRow
    <2>2. RowStays(j)
      BY <1>2, <2>1, SetStays
    <2>3. Calm(j)
      BY <1>1, <1>6, <2>2, SameNodes, SameMaint DEF Calm, FileStays
    <2> QED BY <1>2, <2>3, CalmKept
  <1>7. CASE /\ SetAndUpload(j, hashed) /\ {f, c} \cap Files # {}
             /\ disk' = IF f = c THEN disk ELSE IF c \in Files THEN Unlink(f) ELSE Move(f, c)
    <2>1. PICK new : /\ Set(j, new) /\ new \in RowType /\ new.hash = c /\ new.path = c
                     /\ new.remoteName = row[j].remoteName
      BY <1>2, <1>5, <1>7, SetAndUploadRow
    <2>2. row'[j] = new
      BY <1>2, <2>1, SetRow
    <2>3. disk[f] \in {None, c} /\ disk[c] \in {None, c}
      BY <1>4 DEF Mistake, Unlike
    <2> HIDE DEF f, c
    <2>4. disk'[c] = c
      BY <1>3, <1>7, <2>3 DEF Unlink, Move, Files
    <2>5. CASE ~ Recording(j)
      <3>1. ~ Recording(j)'
        BY <1>1, <2>5 DEF Recording, At
      <3> QED BY <1>1, <1>3, <1>4, <2>1, <2>2, <2>4, <2>5, <3>1, HashKept
    <2>6. CASE Recording(j)
      <3>1. HasFile(j)'
        BY <1>3, <2>1, <2>2, <2>4, Typed DEF HasFile, Same
      <3>2. HasNode(j) => HasNode(j)'
        BY <1>1, <2>6 DEF HasNode, Recording, At
      <3> QED BY <3>1, <3>2 DEF Kept
    <2> QED BY <2>5, <2>6
  <1> QED BY <1>1, <1>6, <1>7

-----------------------------------------------------------------------------
(* The uploader and the history routes.                                    *)

LEMMA UploadCalm ==
  ASSUME Inv, NEW j, Subject(j),
         \/ \E k \in Jobs : RequestUpload(k) \/ \E w \in Workers : UploadStarts(w, k)
         \/ \E w \in Workers : UploadFails(w)
  PROVE  Calm(j)
  <1>1. disk' = disk /\ remote' = remote /\ maint' = maint
    BY DEF UploadStarts, RequestUpload, UploadFails, fileVars
  <1>2. j \in Jobs /\ row[j] # None
    BY SubjectFacts
  <1>3. row' = row \/ \E i \in Jobs : \E m : Set(i, [row[i] EXCEPT !.mega = m])
    <2>1. CASE \E k \in Jobs : RequestUpload(k) \/ \E w \in Workers : UploadStarts(w, k)
      BY <2>1 DEF UploadStarts, RequestUpload
    <2>2. ASSUME NEW w \in Workers, UploadFails(w)
          PROVE  \E i \in Jobs : \E m : Set(i, [row[i] EXCEPT !.mega = m])
      <3>1. upload[w] \in UploadType
        BY <2>2, Typed DEF UploadFails, UploadAt
      <3>2. upload[w].job \in Jobs
        BY <3>1 DEF UploadType
      <3> QED BY <2>2, <3>2 DEF UploadFails
    <2> QED BY <2>1, <2>2
  <1>4. RowStays(j)
    BY <1>2, <1>3, SetMega DEF RowStays
  <1> QED BY <1>1, <1>4, SameNodes, SameMaint DEF Calm, FileStays

\* What was sent is what the row stands for.
LEMMA UploadedKept ==
  ASSUME Inv, NEW j, Subject(j), NEW w \in Workers, Uploaded(w)
  PROVE  Kept(j)
  <1> DEFINE u == upload[w]
             k == u.job
             p == u.path
             node == [name |-> p, folder |-> u.folder, content |-> u.content]
             new == [row[k] EXCEPT !.mega = "uploaded", !.remoteName = p]
  <1>1. /\ u # None /\ remote' = Append(remote, node) /\ Set(k, new)
        /\ disk' = disk /\ maint' = maint
    BY DEF Uploaded, UploadAt
  <1>2. u \in UploadType
    BY <1>1, Typed
  <1>3. /\ j \in Jobs /\ row[j] # None /\ row[j] \in RowType
        /\ row \in [Jobs -> RowType \cup {None}]
    BY SubjectFacts, Typed
  <1>4. k \in Jobs /\ node \in Node
    BY <1>2 DEF Node, UploadType
  <1>5. node.name = p /\ node.content = u.content
    OBVIOUS
  <1>6. k = j => /\ new.hash = row[j].hash /\ new.path = row[j].path
                 /\ new.remoteName = p /\ new \in RowType
    <2>1. p \in Names
      BY <1>2 DEF UploadType
    <2> QED BY <1>3, <2>1 DEF RowType
  <1> HIDE DEF node, new
  <1>7. node \in ToSet(remote') /\ \A n \in ToSet(remote) : n \in ToSet(remote')
    BY <1>1, <1>4, AppendNode
  <1>8. NodesStay(j) /\ PlaceStays(j)
    BY <1>1, <1>7, SameMaint DEF NodesStay
  <1>9. CASE k # j
    <2>1. RowStays(j)
      BY <1>1, <1>3, <1>4, <1>9, SetStays
    <2> QED BY <1>1, <1>3, <1>8, <2>1, CalmKept DEF Calm, FileStays
  <1>10. CASE k = j /\ Recording(j)
    <2>1. HasNode(j)
      BY <1>10 DEF Subject, MayGo
    <2>2. HasNode(j)'
      BY <1>1, <1>7, <1>10, <2>1 DEF HasNode, Recording, At
    <2> QED BY <2>1, <2>2 DEF Kept
  <1>11. CASE k = j /\ ~ Recording(j)
    <2>1. row'[j] = new
      BY <1>1, <1>3, <1>6, <1>11, SetRow
    <2>2. row[j].hash \in {None, u.content}
      <3>1. ~ Missent(j) /\ j \in Existing
        BY DEF Subject, Disturbed
      <3>2. Handles(w, j) /\ u.content # None
        BY <1>1, <1>2, <1>11, Typed DEF Handles, UploadType
      <3> QED BY <3>1, <3>2 DEF Missent, Other
    <2>3. PICK n \in ToSet(remote') : n.name = p /\ n.content = u.content
      BY <1>5, <1>7
    <2>4. ~ Recording(j)'
      BY <1>1, <1>11 DEF Recording, At
    <2>5. n.name = row'[j].remoteName /\ Same(j, n.content)'
      <3>1. u.content # None
        BY <1>2, Typed DEF UploadType
      <3> QED BY <1>6, <1>11, <2>1, <2>2, <2>3, <3>1 DEF Same
    <2>6. HasNode(j)'
      BY <2>4, <2>5 DEF HasNode
    <2> QED BY <2>6 DEF Kept
  <1> QED BY <1>9, <1>10, <1>11

\* The local copy goes once the node is there.
LEMMA UnlinkedKept ==
  ASSUME Inv, NEW j, Subject(j), NEW w \in Workers, Unlinked(w)
  PROVE  Kept(j)
  <1> DEFINE k == upload[w].job
             p == upload[w].path
  <1>1. /\ UploadAt(w, "unlinking") /\ upload[w] # None /\ disk' \in {disk, Unlink(p)}
        /\ row' = row /\ remote' = remote /\ maint' = maint
    BY DEF Unlinked, UploadAt
  <1>2. upload[w] \in UploadType
    BY <1>1, Typed
  <1>3. j \in Jobs /\ k \in Jobs /\ Handles(w, k) /\ p \in Names
    BY <1>1, <1>2, SubjectFacts DEF Handles, UploadType
  <1>4. RowStays(j) /\ NodesStay(j) /\ PlaceStays(j)
    BY <1>1, SameNodes, SameMaint DEF RowStays
  <1> HIDE DEF k
  <1>5. CASE k # j
    <2>1. p \in Claims(k)
      BY <1>3, ClaimsOf
    <2>2. \A m \in Names : m \in Claims(k) \/ disk'[m] = disk[m]
      BY <1>1, <2>1, Typed DEF Unlink
    <2>3. FileStays(j)
      BY <1>3, <1>5, <2>2, OthersFile
    <2> QED BY <1>3, <1>4, <2>3, CalmKept DEF Calm
  <1>6. CASE k = j
    <2>1. Sent(j)
      BY <1>1, <1>3, <1>6 DEF Sent
    <2>2. HasNode(j) => HasNode(j)'
      BY <1>3, <1>4, CalmNode
    <2> QED BY <2>1, <2>2 DEF Kept
  <1> QED BY <1>5, <1>6

\* A delete of the entry takes its local copy, when it is on MEGA.
LEMMA DeleteKept ==
  ASSUME Inv, NEW j, Subject(j), NEW k \in Jobs, Delete(k)
  PROVE  Kept(j)
  <1>1. /\ row[k] # None /\ disk' = Unlink(Path(k)) /\ remote' = remote /\ maint' = maint
        /\ \/ row' = [row EXCEPT ![k] = None]
           \/ row[k].mega = "uploaded" /\ row' = row
    BY DEF Delete
  <1>2. /\ j \in Jobs /\ row[j] # None /\ row'[j] # None
        /\ row \in [Jobs -> RowType \cup {None}] /\ disk \in [Names -> Contents \cup {None}]
    BY SubjectFacts, Typed
  <1>3. RowStays(j) /\ NodesStay(j) /\ PlaceStays(j)
    BY <1>1, <1>2, SameNodes, SameMaint DEF RowStays
  <1>4. CASE k # j
    <2>1. \A m \in Names : m \in Claims(k) \/ disk'[m] = disk[m]
      <3> SUFFICES ASSUME NEW m \in Names, m # Path(k)
                   PROVE  disk'[m] = disk[m]
        BY <1>1, ClaimsOf DEF Path
      <3> QED BY <1>1, <1>2 DEF Unlink
    <2>2. FileStays(j)
      BY <1>4, <2>1, OthersFile
    <2> QED BY <1>2, <1>3, <2>2, CalmKept DEF Calm
  <1>5. CASE k = j
    <2>1. Sent(j)
      BY <1>1, <1>2, <1>5 DEF Sent
    <2>2. HasNode(j) => HasNode(j)'
      BY <1>2, <1>3, CalmNode
    <2> QED BY <2>1, <2>2 DEF Kept
  <1> QED BY <1>4, <1>5

-----------------------------------------------------------------------------
(* Maintenance.                                                            *)

\* The run is a record of its fields.
LEMMA MaintRecord ==
  ASSUME Inv, maint # None
  PROVE  maint = [task |-> maint.task, todo |-> maint.todo, pc |-> maint.pc, job |-> maint.job,
                  seen |-> maint.seen, file |-> maint.file, content |-> maint.content]
  BY DEF Inv, Types, MaintOK

\* The run goes from one place to another, and neither is that of a record.
LEMMA ItemCalm ==
  ASSUME Inv, NEW j,
         \/ \E k \in Jobs : Takes(k) \/ ReDownload(k)
         \/ \E task \in Tasks : StartTask(task)
         \/ EndTask \/ Throws \/ HashedLocal \/ Fetch \/ Replace \/ Dropped \/ MoveNode
         \/ RecordSeason
  PROVE  PlaceStays(j)
  <1>1. CASE \E k \in Jobs : Takes(k)
    <2>1. PICK k \in Jobs : Takes(k)
      BY <1>1
    <2>2. maint # None /\ maint.pc = "next"
      BY <2>1 DEF Takes, At
    <2>3. maint'.pc \in {"next", "hash", "connect"}
      <3>1. \/ maint' = [maint EXCEPT !.todo = @ \ {k}]
            \/ \E f : maint' = [[maint EXCEPT !.todo = @ \ {k}, !.job = k, !.seen = row[k]]
                                  EXCEPT !.pc = "hash", !.file = f, !.content = disk[f]]
            \/ maint' = [[maint EXCEPT !.todo = @ \ {k}, !.job = k, !.seen = row[k]]
                           EXCEPT !.pc = "connect"]
        BY <2>1 DEF Takes
      <3> QED BY <2>2, <3>1, MaintRecord
    <2> QED BY <2>2, <2>3, Elsewhere
  <1>2. CASE \E k \in Jobs : ReDownload(k)
    <2>1. /\ maint # None /\ maint.pc = "connect"
          /\ \E k \in Jobs : maint' = [maint EXCEPT !.pc = "wait", !.file = k, !.content = mega]
      BY <1>2 DEF ReDownload, At
    <2>2. maint'.pc = "wait"
      BY <2>1, MaintRecord
    <2> QED BY <2>1, <2>2, Elsewhere
  <1>3. CASE \E task \in Tasks : StartTask(task)
    BY <1>3, Elsewhere DEF StartTask
  <1>4. CASE EndTask
    BY <1>4, Elsewhere DEF EndTask, At
  <1>5. CASE Throws \/ HashedLocal \/ Dropped \/ RecordSeason
    <2>1. maint # None /\ StepOver /\ maint.pc # "record"
      BY <1>5 DEF Throws, HashedLocal, Dropped, RecordSeason, At
    <2> QED BY <2>1, MaintRecord, Elsewhere DEF StepOver
  <1>6. CASE Fetch
    <2>1. /\ maint # None /\ maint.pc = "connect"
          /\ \E f, c : maint' = [maint EXCEPT !.pc = "fetch", !.content = c, !.file = f]
      BY <1>6 DEF Fetch, At
    <2>2. maint'.pc = "fetch"
      BY <2>1, MaintRecord
    <2> QED BY <2>1, <2>2, Elsewhere
  <1>7. CASE Replace \/ MoveNode
    <2>1. /\ maint # None /\ maint.pc \in {"wait", "connect"}
          /\ \E pc \in {"drop", "moved"} : maint' = [maint EXCEPT !.pc = pc]
      BY <1>7 DEF Replace, MoveNode, At
    <2>2. maint'.pc \in {"drop", "moved"}
      BY <2>1, MaintRecord
    <2> QED BY <2>1, <2>2, Elsewhere
  <1> QED BY <1>1, <1>2, <1>3, <1>4, <1>5, <1>6, <1>7

LEMMA MaintenanceCalm ==
  ASSUME Inv, NEW j, Subject(j),
         \/ \E k \in Jobs : Takes(k) \/ ReDownload(k)
         \/ \E task \in Tasks : StartTask(task)
         \/ EndTask \/ Throws \/ Fetch \/ Dropped \/ RecordSeason
  PROVE  Calm(j)
  <1>1. disk' = disk /\ remote' = remote
    BY DEF Takes, ReDownload, StartTask, EndTask, Throws, Fetch, Dropped, RecordSeason, fileVars
  <1>2. /\ j \in Jobs /\ row[j] # None /\ row'[j] # None
        /\ row \in [Jobs -> RowType \cup {None}]
    BY SubjectFacts, Typed
  <1>3. PlaceStays(j)
    BY ItemCalm
  <1>4. RowStays(j)
    <2>1. CASE row' = row
      BY <2>1 DEF RowStays
    <2>2. CASE \E k \in Jobs : ReDownload(k)
      <3>1. PICK k \in Jobs : Insert(row, k, "single")
        BY <2>2 DEF ReDownload
      <3>2. "single" \in Folders
        BY DEF Folders
      <3> QED BY <1>2, <3>1, <3>2, InsertStays
    <2>3. CASE Dropped
      BY <1>2, <2>3 DEF Dropped, RowStays
    <2>4. CASE RecordSeason
      <3> DEFINE k == maint.job
                 new == [row[k] EXCEPT !.folder = "season"]
      <3>1. Set(k, new) /\ k \in Jobs
        BY <2>4, ItemJob DEF RecordSeason, At
      <3>2. j = k => /\ new.hash = row[j].hash /\ new.path = row[j].path
                     /\ new.remoteName = row[j].remoteName
        <4>1. j = k => row[k] \in RowType
          BY SubjectFacts
        <4> QED BY <4>1 DEF RowType
      <3> HIDE DEF new, k
      <3> QED BY <1>2, <3>1, <3>2, SetStays
    <2>5. row' = row \/ (\E k \in Jobs : ReDownload(k)) \/ Dropped \/ RecordSeason
      BY DEF Takes, StartTask, EndTask, Throws, Fetch
    <2> QED BY <2>1, <2>2, <2>3, <2>4, <2>5
  <1> QED BY <1>1, <1>3, <1>4, SameNodes DEF Calm, FileStays

LEMMA HashedLocalKept ==
  ASSUME Inv, NEW j, Subject(j), HashedLocal
  PROVE  Kept(j)
  <1> DEFINE k == maint.job
             f == maint.file
             c == maint.content
             hashed == [row[k] EXCEPT !.path = c, !.hash = c]
  <1>1. /\ At("hash") /\ disk' = IF c \in Files THEN disk ELSE Move(f, c)
        /\ {f, c} \cap Files # {} /\ remote' = remote
        /\ Set(k, hashed) \/ SetAndUpload(k, hashed)
    BY DEF HashedLocal, InsertHash
  <1>2. /\ maint # None /\ k \in Jobs /\ f \in Names /\ c \in Contents
        /\ row[k] # None => row[k] \in RowType
    BY <1>1, ItemJob DEF MaintOK, At
  <1>3. /\ j \in Jobs /\ row[j] # None /\ row[j] \in RowType /\ ~ Mistaken(j)
        /\ row \in [Jobs -> RowType \cup {None}] /\ disk \in [Names -> Contents \cup {None}]
        /\ c \in Names /\ PlaceStays(j) /\ ~ Recording(j)
    BY <1>1, <1>2, SubjectFacts, Typed, ItemCalm DEF Subject, Disturbed, Recording, At
  <1>4. f \in Claims(k) /\ c \in Claims(k)
    BY <1>2, <1>3, ClaimsOf
  <1>5. j = k => /\ hashed \in RowType /\ hashed.path = c /\ hashed.hash = c
                 /\ hashed.remoteName = row[j].remoteName
    BY <1>2, <1>3 DEF RowType
  <1>6. CASE k # j
    <2>1. RowStays(j)
      BY <1>1, <1>2, <1>3, <1>6, SetStays, SetAndUploadStays
    <2> HIDE DEF f, c, k
    <2>2. \A m \in Names : m \in Claims(k) \/ disk'[m] = disk[m]
      BY <1>1, <1>2, <1>3, <1>4 DEF Move
    <2>3. FileStays(j)
      BY <1>2, <1>6, <2>2, OthersFile
    <2> QED BY <1>1, <1>3, <2>1, <2>3, SameNodes, CalmKept DEF Calm
  <1>7. CASE k = j
    <2>1. ~ Mistake(j, f, c)
      BY <1>1, <1>3, <1>7 DEF Mistaken
    <2> HIDE DEF hashed
    <2>2. PICK new : /\ Set(j, new) /\ new \in RowType /\ new.hash = c /\ new.path = c
                     /\ new.remoteName = row[j].remoteName
      BY <1>1, <1>3, <1>5, <1>7, SetAndUploadRow
    <2>3. row'[j] = new
      BY <1>3, <2>2, SetRow
    <2>4. disk[f] \in {None, c} /\ disk[c] \in {None, c}
      BY <2>1 DEF Mistake, Unlike
    <2>5. ~ Recording(j)'
      BY <1>3 DEF PlaceStays
    <2> HIDE DEF f, c
    <2>6. disk'[c] = c
      BY <1>1, <1>2, <1>3, <2>4 DEF Move, Files
    <2> QED BY <1>1, <1>2, <1>3, <2>1, <2>2, <2>3, <2>5, <2>6, HashKept
  <1> QED BY <1>6, <1>7

\* The node is known by its handle, and keeps its content under its new name.
LEMMA RenameNodeKept ==
  ASSUME Inv, NEW j, Subject(j), RenameNode
  PROVE  Kept(j)
  <1> DEFINE i == Find(RemoteName(maint.seen), maint.seen.folder)
             k == maint.job
             m == [remote[i] EXCEPT !.name = maint.file]
  <1>1. /\ maint # None /\ maint.pc = "fetch" /\ i # 0 /\ remote[i].content = maint.content
        /\ remote' = [remote EXCEPT ![i].name = maint.file]
        /\ maint' = [maint EXCEPT !.pc = "record"] /\ row' = row /\ disk' = disk
    BY DEF RenameNode, At
  <1>2. remote \in Seq(Node)
    BY Typed
  <1>3. i \in 1 .. Len(remote) /\ remote[i] \in Node /\ remote[i].name = RemoteName(maint.seen)
    BY <1>1, <1>2, FindNode
  <1>4. /\ k \in Jobs /\ MaintOK(maint) /\ maint.seen \in RowType
        /\ maint.file \in Names /\ maint.content \in Contents /\ maint.task \in Tasks
        /\ maint.todo \in SUBSET Jobs
    BY <1>1, ItemJob DEF MaintOK
  <1>5. m \in Node /\ m.name = maint.file /\ m.content = maint.content
    BY <1>1, <1>3, <1>4 DEF Node
  <1>6. remote' = [remote EXCEPT ![i] = m]
    BY <1>1, <1>2, <1>3
  <1>7. maint' = [task |-> maint.task, todo |-> maint.todo, pc |-> "record", job |-> k,
                  seen |-> maint.seen, file |-> maint.file, content |-> maint.content]
    BY <1>1, MaintRecord
  <1>8. /\ maint'.pc = "record" /\ maint'.job = k /\ maint'.file = maint.file
        /\ maint'.content = maint.content
    BY <1>7
  <1> HIDE DEF m, i, k
  <1>9. /\ m \in ToSet(remote')
        /\ \A n \in ToSet(remote) : n = remote[i] \/ n \in ToSet(remote')
    BY <1>3, <1>5, <1>6, ChangeNode
  <1>10. j \in Jobs
    BY SubjectFacts
  <1>11. CASE k # j
    <2>1. remote[i].name \in Claims(k)
      <3>1. remote[i].name \in Names
        BY <1>3 DEF Node
      <3>2. maint.job = k /\ remote[i].name \in {maint.seen.path, maint.seen.remoteName}
        BY <1>3 DEF RemoteName, k
      <3> QED BY <1>1, <1>4, <3>1, <3>2, ClaimsOf
    <2>2. NodesStay(j)
      BY <1>4, <1>9, <1>11, <2>1, OthersNode
    <2>3. PlaceStays(j)
      BY <1>1, <1>8, <1>11, Elsewhere
    <2>4. Calm(j)
      BY <1>1, <2>2, <2>3 DEF Calm, RowStays, FileStays
    <2> QED BY <1>10, <2>4, CalmKept
  <1>12. CASE k = j
    <2>1. maint' \in Item
      BY <1>4, <1>7 DEF Item
    <2>2. Recording(j)'
      BY <1>8, <1>12, <2>1, NoneAssumption DEF Recording, At
    <2>3. PICK n \in ToSet(remote') : n.name = maint'.file /\ n.content = maint'.content
      BY <1>5, <1>8, <1>9
    <2>4. HasNode(j)'
      BY <2>2, <2>3 DEF HasNode
    <2> QED BY <2>4 DEF Kept
  <1> QED BY <1>11, <1>12

LEMMA RecordHashKept ==
  ASSUME Inv, NEW j, Subject(j), RecordHash
  PROVE  Kept(j)
  <1> DEFINE k == maint.job
             new == [row[k] EXCEPT !.hash = maint.content, !.path = maint.file,
                       !.remoteName = maint.file]
  <1>1. /\ maint # None /\ maint.pc = "record" /\ Set(k, new) /\ StepOver
        /\ disk' = disk /\ remote' = remote
    BY DEF RecordHash, At, fileVars
  <1>2. k \in Jobs /\ maint.file \in Names /\ maint.content \in Contents
    BY <1>1, ItemJob DEF MaintOK
  <1>3. /\ j \in Jobs /\ row[j] # None /\ row[j] \in RowType
        /\ row \in [Jobs -> RowType \cup {None}]
    BY SubjectFacts, Typed
  <1>4. maint'.pc = "next"
    BY <1>1, MaintRecord DEF StepOver
  <1>5. CASE k # j
    <2>1. PlaceStays(j)
      BY <1>1, <1>4, <1>5, Elsewhere
    <2> HIDE DEF new
    <2>2. RowStays(j)
      BY <1>1, <1>2, <1>3, <1>5, SetStays
    <2>3. Calm(j)
      BY <1>1, <2>1, <2>2, SameNodes DEF Calm, FileStays
    <2> QED BY <1>3, <2>3, CalmKept
  <1>6. CASE k = j
    <2>1. new \in RowType /\ new.hash = maint.content /\ new.remoteName = maint.file
      BY <1>2, <1>3, <1>6 DEF RowType
    <2>2. Recording(j)
      BY <1>1, <1>6 DEF Recording, At
    <2>3. HasNode(j)
      BY <2>2 DEF Subject, MayGo
    <2>4. PICK n \in ToSet(remote) : n.name = maint.file /\ n.content = maint.content
      BY <2>2, <2>3 DEF HasNode
    <2> HIDE DEF new
    <2>5. row'[j] = new
      BY <1>1, <1>3, <1>6, <2>1, SetRow
    <2>6. n \in ToSet(remote') /\ n.name = row'[j].remoteName /\ Same(j, n.content)'
      BY <1>1, <1>2, <2>1, <2>4, <2>5, Typed DEF Same
    <2>7. ~ Recording(j)'
      BY <1>4 DEF Recording, At
    <2>8. HasNode(j)'
      BY <2>6, <2>7 DEF HasNode
    <2> QED BY <2>8 DEF Kept
  <1> QED BY <1>5, <1>6

\* The old copy goes when the new download has one, had one, or claims the name
\* of the old as well.
LEMMA ReplaceCalm ==
  ASSUME Inv, NEW j, Subject(j), Replace
  PROVE  Calm(j)
  <1> DEFINE k == maint.job
             new == maint.file
  <1>1. /\ maint # None /\ maint.pc = "wait" /\ Ready(row[new], maint.content)
        /\ DeleteRemote(maint.seen) \/ UNCHANGED remote
        /\ row' = row /\ disk' = disk
    BY DEF Replace, At
  <1>2. /\ k \in Jobs /\ maint.seen \in RowType /\ maint.seen.path = Plain
        /\ new \in Jobs /\ new # k
    BY <1>1, ItemJob DEF MaintOK
  <1>3. j \in Jobs /\ ~ Rival(j)
    BY SubjectFacts
  <1>4. k # j
    <2> SUFFICES ASSUME k = j PROVE FALSE
      OBVIOUS
    <2>1. ~ Covered(new) /\ ~ Deprived(new)
      BY DEF Subject, MayGo
    <2>2. row[new] # None /\ row[new].hash = None
      BY <1>1, <2>1 DEF Ready, Deprived
    <2>3. row[new].mega = "uploaded"
      BY <1>1, <2>2 DEF Ready
    <2>4. row[new].path = Plain
      BY <1>2, <2>2, <2>3, Typed, LibraryAssumption DEF RowLife, Named
    <2>5. Plain \in Claims(new)
      BY <1>2, <2>2, <2>4, Typed, ClaimsOf
    <2>6. Plain \in Claims(j)
      BY <1>1, <1>2, Typed, ClaimsOf
    <2> QED BY <1>2, <1>3, <2>5, <2>6, NoRival
  <1>5. \A n \in ToSet(remote) : n.name \in Claims(k) \/ n \in ToSet(remote')
    <2> SUFFICES ASSUME NEW n \in ToSet(remote), n.name = RemoteName(maint.seen)
                 PROVE  n.name \in Claims(k)
      BY <1>1, DeletedNode
    <2>1. n.name \in Names
      BY NodesType DEF Node
    <2>2. n.name \in {maint.seen.path, maint.seen.remoteName}
      BY DEF RemoteName
    <2> QED BY <1>1, <1>2, <2>1, <2>2, ClaimsOf
  <1>6. NodesStay(j)
    BY <1>2, <1>4, <1>5, OthersNode
  <1>7. PlaceStays(j)
    BY ItemCalm
  <1> QED BY <1>1, <1>6, <1>7 DEF Calm, RowStays, FileStays

\* A node that is moved keeps its name and its content.
LEMMA MoveNodeCalm ==
  ASSUME Inv, NEW j, MoveNode
  PROVE  Calm(j)
  <1> DEFINE i == Find(maint.seen.remoteName, "playlist")
             m == [remote[i] EXCEPT !.folder = "season"]
  <1>1. /\ remote' = remote \/ (i # 0 /\ remote' = [remote EXCEPT ![i].folder = "season"])
        /\ row' = row /\ disk' = disk
    BY DEF MoveNode
  <1>2. remote \in Seq(Node)
    BY Typed
  <1>3. NodesStay(j)
    <2>1. CASE i # 0 /\ remote' = [remote EXCEPT ![i].folder = "season"]
      <3>1. i \in 1 .. Len(remote) /\ remote[i] \in Node
        BY <1>2, <2>1, FindNode
      <3>2. remote' = [remote EXCEPT ![i] = m]
        BY <1>2, <2>1, <3>1
      <3>3. m \in Node /\ m.name = remote[i].name /\ m.content = remote[i].content
        BY <3>1 DEF Node, Folders
      <3> HIDE DEF m, i
      <3>4. /\ m \in ToSet(remote')
            /\ \A n \in ToSet(remote) : n = remote[i] \/ n \in ToSet(remote')
        BY <3>1, <3>2, <3>3, ChangeNode
      <3> QED BY <3>3, <3>4 DEF NodesStay
    <2> QED BY <1>1, <2>1, SameNodes
  <1>4. PlaceStays(j)
    BY ItemCalm
  <1> QED BY <1>1, <1>3, <1>4 DEF Calm, RowStays, FileStays

-----------------------------------------------------------------------------
(* A restart, and the theorems.                                            *)

LEMMA ToggleCalm ==
  ASSUME NEW j, ToggleMega
  PROVE  Calm(j)
  <1>1. row' = row /\ disk' = disk /\ remote' = remote /\ maint' = maint
    BY DEF ToggleMega, fileVars
  <1> QED BY <1>1, SameNodes, SameMaint DEF Calm, RowStays, FileStays

\* A restart leaves all but the file it finds renamed: another job's, or the
\* entry's own, which has the name of what was hashed.
LEMMA RestartKept ==
  ASSUME Inv, NEW j, Subject(j), Restart
  PROVE  Kept(j)
  <1>1. /\ remote' = remote /\ maint' = None
        /\ disk' = disk \/ \E k \in Jobs : CutShort(k)
    BY DEF Restart
  <1>2. j \in Jobs /\ run[j] = "over" /\ ~ Mistaken(j) /\ ~ Recording(j)
    BY <1>1, SubjectFacts DEF Subject, Disturbed, MayGo
  <1>3. row'[j] = row[j]
    BY <1>2 DEF Restart, Reconciles
  <1>4. RowStays(j) /\ NodesStay(j) /\ PlaceStays(j)
    BY <1>1, <1>2, <1>3, SameNodes DEF RowStays, PlaceStays, Recording, At
  <1>5. CASE disk' = disk
    BY <1>2, <1>4, <1>5, CalmKept DEF Calm, FileStays
  <1>6. ASSUME NEW k \in Jobs \ {j}, CutShort(k)
        PROVE  Kept(j)
    <2>1. PICK f \in Names, c \in Contents :
            /\ \/ fin[k] # None /\ f = fin[k].file /\ c = fin[k].content
               \/ At("hash") /\ maint.job = k /\ f = maint.file /\ c = maint.content
            /\ disk' = Renamed(f, c)
      BY <1>6, CutShortMoves
    <2>2. f \in Claims(k) /\ c \in Claims(k)
      BY <2>1, Typed, ClaimsOf DEF At
    <2>3. \A m \in Names : m \in Claims(k) \/ disk'[m] = disk[m]
      BY <2>1, <2>2, Typed DEF Renamed, Unlink, Move
    <2>4. FileStays(j)
      BY <2>3, OthersFile
    <2> QED BY <1>2, <1>4, <2>4, CalmKept DEF Calm
  <1>7. CASE CutShort(j)
    <2>1. PICK f \in Names, c \in Contents :
            /\ \/ fin[j] # None /\ f = fin[j].file /\ c = fin[j].content
               \/ At("hash") /\ maint.job = j /\ f = maint.file /\ c = maint.content
            /\ {f, c} \cap Files # {} /\ disk' = Renamed(f, c)
      BY <1>2, <1>7, CutShortMoves
    <2>2. disk[f] \in {None, c} /\ disk[c] \in {None, c}
      BY <1>2, <2>1 DEF Mistaken, Mistake, Unlike
    <2>3. disk'[c] = c
      BY <2>1, <2>2, Typed DEF Renamed, Unlink, Move, Files
    <2>4. Strays(j)
      BY <1>7, <2>1, <2>3 DEF Strays
    <2>5. HasNode(j) => HasNode(j)'
      BY <1>2, <1>4, CalmNode
    <2> QED BY <2>4, <2>5 DEF Kept
  <1> QED BY <1>1, <1>5, <1>6, <1>7

LEMMA KeptStep ==
  ASSUME Inv, Next, NEW j, Subject(j)
  PROVE  Kept(j)
  <1>1. Calm(j) => Kept(j)
    BY SubjectFacts, CalmKept
  <1>2. ASSUME NEW k \in Jobs, Post(k) \/ Start(k) \/ Land(k) \/ Fails(k) \/ Completes(k)
        PROVE  Kept(j)
    BY <1>1, <1>2, PostCalm, LandCalm
  <1>3. ASSUME NEW k \in Jobs, Finalized(k)
        PROVE  Kept(j)
    BY <1>1, <1>3, FinalizedCalm, FinalizedKept
  <1>4. ASSUME NEW k \in Jobs, RequestUpload(k) \/ Delete(k)
        PROVE  Kept(j)
    BY <1>1, <1>4, UploadCalm, DeleteKept
  <1>5. ASSUME NEW q \in Requests,
               \/ \E k \in Jobs : Overwrite(q, k) \/ OverwriteDone(q, k)
               \/ OverwriteRemote(q) \/ OverwriteCheck(q)
        PROVE  Kept(j)
    BY <1>1, <1>5, OverwriteCalm, OverwriteDoneCalm
  <1>6. ASSUME NEW w \in Workers,
               \/ \E k \in Jobs : UploadStarts(w, k)
               \/ Uploaded(w) \/ Unlinked(w) \/ UploadFails(w)
        PROVE  Kept(j)
    BY <1>1, <1>6, UploadCalm, UploadedKept, UnlinkedKept
  <1>7. CASE \/ \E k \in Jobs : Takes(k) \/ ReDownload(k)
             \/ \E task \in Tasks : StartTask(task)
             \/ EndTask \/ Throws \/ Fetch \/ Dropped \/ RecordSeason
    BY <1>1, <1>7, MaintenanceCalm
  <1>8. CASE HashedLocal \/ RenameNode \/ RecordHash
    BY <1>8, HashedLocalKept, RenameNodeKept, RecordHashKept
  <1>9. CASE Replace \/ MoveNode
    BY <1>1, <1>9, ReplaceCalm, MoveNodeCalm
  <1>10. CASE ToggleMega \/ Restart
    BY <1>1, <1>10, ToggleCalm, RestartKept
  <1> QED BY <1>2, <1>3, <1>4, <1>5, <1>6, <1>7, <1>8, <1>9, <1>10 DEF Next

\* An entry that is on MEGA stays there: however uploads, renames, moves, rehashes,
\* overwrites and restarts interleave, no step but those that MayGo names takes its
\* node, or leaves its row with the name of a node that is not there.
THEOREM NodesCorrect == Spec => NodeStays
  <1>1. Inv /\ [Next]_vars =>
          [\A j \in Existing : HasNode(j) =>
             j \notin Existing' \/ HasNode(j)' \/ Disturbed(j) \/ MayGo(j)]_vars
    BY KeptStep DEF Subject, Kept
  <1> QED BY <1>1, Invariance, PTL DEF Spec, NodeStays

\* The user's library loses nothing: no step but those that MayGo and Strays name
\* takes the last copy of a completed download, local or on MEGA, whatever else the
\* server does at the time; the unlink after an upload, which another worker's, an
\* overwrite or a delete may run beside, the rename of finalizeCompleted and the
\* local rehash among them.
THEOREM CopiesCorrect == Spec => LastCopyStays
  <1>1. Inv /\ [Next]_vars =>
          [\A j \in Existing : (IF Sent(j) THEN HasNode(j) ELSE HasFile(j) \/ HasNode(j)) =>
             \/ j \notin Existing' \/ HasFile(j)' \/ HasNode(j)'
             \/ Strays(j) \/ Disturbed(j) \/ MayGo(j)]_vars
    BY KeptStep DEF Subject, Kept
  <1> QED BY <1>1, Invariance, PTL DEF Spec, LastCopyStays
=============================================================================
