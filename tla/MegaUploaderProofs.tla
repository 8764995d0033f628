------------------------- MODULE MegaUploaderProofs -------------------------
(***************************************************************************)
(* Proofs about MegaUploader: for any finite set of downloads, any largest *)
(* limit and any number of settings changes, restarts, rehashes and        *)
(* overwrites.                                                             *)
(***************************************************************************)
EXTENDS MegaUploader, SequenceTheorems, FiniteSetTheorems, TLAPS

(***************************************************************************)
(* The queue: a sequence without repetitions.                              *)
(***************************************************************************)

\* Adding a new id at the end.
LEMMA AppendNew ==
  ASSUME NEW S, NEW q \in Seq(S), IsInjective(q), NEW id \in S, id \notin ToSet(q)
  PROVE  /\ Append(q, id) \in Seq(S) /\ IsInjective(Append(q, id))
         /\ ToSet(Append(q, id)) = ToSet(q) \cup {id}
  <1> DEFINE r == Append(q, id)
  <1>1. /\ r \in Seq(S) /\ Len(q) \in Nat /\ DOMAIN q = 1 .. Len(q)
        /\ DOMAIN r = 1 .. Len(q) + 1 /\ r[Len(q) + 1] = id
        /\ \A i \in 1 .. Len(q) : r[i] = q[i]
    OBVIOUS
  <1> HIDE DEF r
  <1>2. \A i \in 1 .. Len(q) : q[i] # id
    BY <1>1 DEF ToSet
  <1>3. \A i \in DOMAIN r : i = Len(q) + 1 \/ i \in 1 .. Len(q)
    BY <1>1
  <1>4. IsInjective(r)
    BY <1>1, <1>2, <1>3 DEF IsInjective
  <1>5. ToSet(r) = ToSet(q) \cup {id}
    BY <1>1, <1>3 DEF ToSet
  <1> QED BY <1>1, <1>4, <1>5 DEF r

\* Taking the first id.
LEMMA TailOfQueue ==
  ASSUME NEW S, NEW q \in Seq(S), IsInjective(q), q # <<>>
  PROVE  /\ Tail(q) \in Seq(S) /\ IsInjective(Tail(q)) /\ Head(q) \in ToSet(q)
         /\ ToSet(Tail(q)) = ToSet(q) \ {Head(q)}
  <1> DEFINE r == Tail(q)
  <1>1. /\ r \in Seq(S) /\ Len(q) \in Nat /\ Len(q) >= 1 /\ DOMAIN q = 1 .. Len(q)
        /\ DOMAIN r = 1 .. Len(q) - 1 /\ Head(q) = q[1]
        /\ \A i \in 1 .. Len(q) - 1 : r[i] = q[i + 1]
    OBVIOUS
  <1> HIDE DEF r
  <1>2. IsInjective(r)
    BY <1>1 DEF IsInjective
  <1>3. ToSet(r) \subseteq ToSet(q) \ {Head(q)}
    <2> SUFFICES ASSUME NEW i \in DOMAIN r PROVE r[i] \in ToSet(q) /\ r[i] # q[1]
      BY <1>1 DEF ToSet
    <2>1. i + 1 \in DOMAIN q /\ r[i] = q[i + 1] /\ i + 1 # 1 /\ 1 \in DOMAIN q
      BY <1>1
    <2> QED BY <2>1 DEF IsInjective, ToSet
  <1>4. ToSet(q) \ {Head(q)} \subseteq ToSet(r)
    <2> SUFFICES ASSUME NEW i \in DOMAIN q, i # 1 PROVE q[i] \in ToSet(r)
      BY <1>1 DEF ToSet
    <2>1. i - 1 \in DOMAIN r /\ r[i - 1] = q[i]
      BY <1>1
    <2> QED BY <2>1 DEF ToSet
  <1>5. Head(q) \in ToSet(q)
    BY <1>1 DEF ToSet
  <1> QED BY <1>1, <1>2, <1>3, <1>4, <1>5 DEF r

\* Taking an id from the middle.
LEMMA RemoveFromQueue ==
  ASSUME NEW S, NEW q \in Seq(S), IsInjective(q), NEW n \in DOMAIN q
  PROVE  /\ RemoveAt(q, n) \in Seq(S) /\ IsInjective(RemoveAt(q, n))
         /\ ToSet(RemoveAt(q, n)) = ToSet(q) \ {q[n]}
  <1> DEFINE r == RemoveAt(q, n)
  <1>1. /\ Len(q) \in Nat /\ DOMAIN q = 1 .. Len(q) /\ n \in Nat /\ 1 <= n /\ n <= Len(q)
    OBVIOUS
  <1> DEFINE u == SubSeq(q, 1, n - 1)
             v == SubSeq(q, n + 1, Len(q))
  <1>2. u \in Seq(S) /\ Len(u) = n - 1 /\ \A i \in 1 .. n - 1 : u[i] = q[i]
    BY <1>1
  <1>3. v \in Seq(S) /\ Len(v) = Len(q) - n /\ \A i \in 1 .. Len(q) - n : v[i] = q[n + i]
    BY <1>1
  <1>4. /\ r \in Seq(S) /\ DOMAIN r = 1 .. Len(q) - 1
        /\ \A i \in 1 .. Len(q) - 1 : i < n => r[i] = q[i]
        /\ \A i \in 1 .. Len(q) - 1 : i >= n => r[i] = q[i + 1]
    <2>1. r = u \o v
      BY DEF RemoveAt
    <2> HIDE DEF u, v, r
    <2>2. /\ r \in Seq(S) /\ Len(r) = (n - 1) + (Len(q) - n)
          /\ \A i \in 1 .. n - 1 : r[i] = u[i]
          /\ \A i \in n .. Len(q) - 1 : r[i] = v[i - (n - 1)]
      <3>1. /\ r \in Seq(S) /\ Len(r) = Len(u) + Len(v)
            /\ \A i \in 1 .. Len(u) + Len(v) :
                 r[i] = IF i <= Len(u) THEN u[i] ELSE v[i - Len(u)]
        BY <1>2, <1>3, <2>1, ConcatProperties
      <3>2. Len(u) = n - 1 /\ Len(v) = Len(q) - n
        BY <1>2, <1>3
      <3> QED BY <1>1, <3>1, <3>2
    <2>3. DOMAIN r = 1 .. Len(q) - 1
      BY <1>1, <2>2
    <2>4. ASSUME NEW i \in 1 .. Len(q) - 1, i >= n PROVE r[i] = q[i + 1]
      <3>1. i - (n - 1) \in 1 .. Len(q) - n /\ n + (i - (n - 1)) = i + 1
        BY <1>1, <2>4
      <3>2. v[i - (n - 1)] = q[i + 1]
        BY <1>3, <3>1
      <3> QED BY <1>1, <2>2, <2>4, <3>2
    <2> QED BY <1>1, <1>2, <2>2, <2>3, <2>4
  <1> HIDE DEF r, u, v
  <1>5. IsInjective(r)
    <2> SUFFICES ASSUME NEW i \in DOMAIN r, NEW k \in DOMAIN r, r[i] = r[k] PROVE i = k
      BY DEF IsInjective
    <2> DEFINE at(x) == IF x < n THEN x ELSE x + 1
    <2>1. at(i) \in DOMAIN q /\ r[i] = q[at(i)]
      BY <1>1, <1>4
    <2>2. at(k) \in DOMAIN q /\ r[k] = q[at(k)]
      BY <1>1, <1>4
    <2>3. at(i) = at(k)
      BY <2>1, <2>2 DEF IsInjective
    <2> QED BY <1>1, <1>4, <2>3
  <1>6. ToSet(r) \subseteq ToSet(q) \ {q[n]}
    <2> SUFFICES ASSUME NEW i \in DOMAIN r PROVE r[i] \in ToSet(q) /\ r[i] # q[n]
      BY DEF ToSet
    <2>1. PICK k \in DOMAIN q : r[i] = q[k] /\ k # n
      BY <1>1, <1>4
    <2> QED BY <2>1 DEF IsInjective, ToSet
  <1>7. ToSet(q) \ {q[n]} \subseteq ToSet(r)
    <2> SUFFICES ASSUME NEW i \in DOMAIN q, i # n PROVE q[i] \in ToSet(r)
      BY DEF ToSet
    <2>1. PICK k \in DOMAIN r : r[k] = q[i]
      <3>1. CASE i < n
        BY <1>1, <1>4, <3>1
      <3>2. CASE i > n
        <4>1. i - 1 \in 1 .. Len(q) - 1 /\ ~(i - 1 < n) /\ (i - 1) + 1 = i
          BY <1>1, <3>2
        <4> QED BY <1>4, <4>1
      <3> QED BY <1>1, <3>1, <3>2
    <2> QED BY <2>1 DEF ToSet
  <1> QED BY <1>4, <1>5, <1>6, <1>7 DEF r

\* The queue of a new process has the rows it finds, each once.
LEMMA QueueOfRows ==
  ASSUME NEW S \in SUBSET Ids, NEW q \in SetToSeqs(S)
  PROVE  q \in Seq(Ids) /\ IsInjective(q) /\ ToSet(q) = S
  <1>1. IsFiniteSet(S)
    BY UploaderAssumption, FS_Subset
  <1> DEFINE n == Cardinality(S)
  <1>2. n \in Nat
    BY <1>1, FS_CardinalityType
  <1>3. q \in [1 .. n -> S] /\ \A i, j \in 1 .. n : i # j => q[i] # q[j]
    BY DEF SetToSeqs
  <1> HIDE DEF n
  <1>4. IsInjective(q) /\ q \in Injection(1 .. n, S)
    BY <1>3 DEF IsInjective, Injection
  <1>5. q \in Seq(Ids)
    BY <1>2, <1>3
  <1>6. Cardinality(1 .. n) = Cardinality(S)
    BY <1>2, FS_Interval DEF n
  <1>7. q \in Surjection(1 .. n, S)
    BY <1>1, <1>4, <1>6, FS_Injection
  <1>8. ToSet(q) = S
    BY <1>3, <1>7 DEF Surjection, ToSet
  <1> QED BY <1>4, <1>5, <1>8

-----------------------------------------------------------------------------
(* Type correctness, with what it needs: the count of workers is right and *)
(* the queue has no id twice.                                              *)

Rows == {"null", "pending", "uploading", "uploaded", "failed", "canceled", "absent"}
Counted == activeWorkers = Cardinality(Live)
Busy == \A w \in Workers : job[w] # None <=> pc[w] \in Working

CoreInv == TypeOK /\ Counted /\ Busy /\ QueueMirrored

LEMMA SomeWorkers ==
  ASSUME NEW S \in SUBSET Workers
  PROVE  /\ IsFiniteSet(S) /\ Cardinality(S) \in Nat /\ Cardinality(S) <= MaxLimit
         /\ Cardinality(S) = 0 <=> S = {}
  BY UploaderAssumption, FS_Subset, FS_CardinalityType, FS_EmptySet

LEMMA LiveCount ==
  /\ IsFiniteSet(Live) /\ Cardinality(Live) \in Nat /\ Cardinality(Live) <= MaxLimit
  /\ Cardinality(Live) = 0 <=> Live = {}
  <1>1. Live \in SUBSET Workers
    BY DEF Live
  <1> QED BY <1>1, SomeWorkers

\* A worker that is off becomes live, or a live one ends.
LEMMA LiveStarts ==
  ASSUME TypeOK, Counted, NEW w \in Workers, pc[w] = "off", NEW to \in PCs, to # "off", Goto(w, to)
  PROVE  Live' = Live \cup {w} /\ Cardinality(Live') = Cardinality(Live) + 1
  <1>1. Live' = Live \cup {w} /\ w \notin Live
    BY DEF Live, Goto, TypeOK
  <1> QED BY <1>1, LiveCount, FS_AddElement

LEMMA LiveEnds ==
  ASSUME TypeOK, Counted, NEW w \in Workers, pc[w] # "off", Goto(w, "off")
  PROVE  Live' = Live \ {w} /\ Cardinality(Live') = Cardinality(Live) - 1
  <1>1. Live' = Live \ {w} /\ w \in Live
    BY DEF Live, Goto, TypeOK
  <1> QED BY <1>1, LiveCount, FS_RemoveElement

\* A live worker moves on.
LEMMA LiveMoves ==
  ASSUME TypeOK, NEW w \in Workers, pc[w] # "off", NEW to \in PCs, to # "off", Goto(w, to)
  PROVE  Live' = Live /\ pc' \in [Workers -> PCs]
  BY DEF Live, Goto, TypeOK

LEMMA MarkType ==
  ASSUME TypeOK, NEW id \in Ids, NEW status \in Rows, Mark(id, status)
  PROVE  row' \in [Ids -> Rows]
  BY DEF TypeOK, Mark, Rows

LEMMA EnqueueEffect ==
  ASSUME TypeOK, QueueMirrored, NEW id \in Ids, Enqueue(id)
  PROVE  /\ queue' \in Seq(Ids) /\ queued' \in SUBSET Ids
         /\ queued' = queued \cup {id} /\ QueueMirrored'
         /\ dropped' = dropped \ {id}
         /\ callee' \in {"none", "spawn", "call"}
  <1>1. CASE id \in queued
    BY <1>1 DEF TypeOK, QueueMirrored, Enqueue, queueVars
  <1>2. CASE id \notin queued
    <2>1. queue \in Seq(Ids) /\ IsInjective(queue) /\ queued = ToSet(queue) /\ queued \in SUBSET Ids
      BY DEF TypeOK, QueueMirrored
    <2>2. /\ queue' = Append(queue, id) /\ queued' = queued \cup {id}
          /\ dropped' = dropped \ {id} /\ callee' \in {"none", "spawn", "call"}
      BY <1>2 DEF Enqueue, Spawning
    <2>3. Append(queue, id) \in Seq(Ids) /\ IsInjective(Append(queue, id))
          /\ ToSet(Append(queue, id)) = ToSet(queue) \cup {id}
      BY <1>2, <2>1, AppendNew
    <2> QED BY <1>2, <2>1, <2>2, <2>3 DEF QueueMirrored
  <1> QED BY <1>1, <1>2

LEMMA UnqueueEffect ==
  ASSUME TypeOK, QueueMirrored, NEW id \in Ids, Unqueue(id), queued' = queued \ {id}
  PROVE  queue' \in Seq(Ids) /\ QueueMirrored' /\ id \in queued
  <1>1. PICK i \in DOMAIN queue : queue[i] = id /\ queue' = RemoveAt(queue, i)
    BY DEF Unqueue
  <1>2. queue \in Seq(Ids) /\ IsInjective(queue) /\ queued = ToSet(queue) /\ id \in ToSet(queue)
    BY <1>1 DEF TypeOK, QueueMirrored, ToSet
  <1>3. RemoveAt(queue, i) \in Seq(Ids) /\ IsInjective(RemoveAt(queue, i))
        /\ ToSet(RemoveAt(queue, i)) = ToSet(queue) \ {queue[i]}
    BY <1>2, RemoveFromQueue
  <1> QED BY <1>1, <1>2, <1>3 DEF QueueMirrored

LEMMA TakeEffect ==
  ASSUME TypeOK, QueueMirrored, queue # <<>>,
         queue' = Tail(queue), queued' = queued \ {Head(queue)}
  PROVE  queue' \in Seq(Ids) /\ QueueMirrored' /\ Head(queue) \in queued /\ Head(queue) \in Ids
  BY TailOfQueue DEF TypeOK, QueueMirrored

\* The end of processOne, after its catch block or without it.
LEMMA ReleaseType ==
  ASSUME TypeOK, Busy, NEW w \in Workers, pc[w] \in Working, Release(w)
  PROVE  /\ job[w] \in Ids /\ Live' = Live /\ pc' \in [Workers -> PCs]
         /\ activeUploads' \in [Ids -> Workers \cup {None}]
         /\ job' \in [Workers -> Ids \cup {None}]
         /\ src' \in [Workers -> {"null", "raw", "hashed"}]
         /\ signal' \in [Workers -> {"clear", "aborted", "missed"}]
         /\ Busy'
  <1>1. job[w] \in Ids
    BY DEF TypeOK, Busy
  <1>2. Live' = Live /\ pc' \in [Workers -> PCs]
    BY LiveMoves DEF Release, Working, PCs
  <1>3. Busy'
    BY DEF Release, Goto, Busy, TypeOK, Working
  <1> QED BY <1>1, <1>2, <1>3 DEF Release, TypeOK

LEMMA CaughtType ==
  ASSUME TypeOK, Busy, NEW w \in Workers, pc[w] \in Working, Caught(w)
  PROVE  Release(w) /\ row' \in [Ids -> Rows]
  <1>1. Release(w) /\ job[w] \in Ids
    BY ReleaseType DEF Caught
  <1>2. (IF signal[w] = "clear" THEN "failed" ELSE "canceled") \in Rows
    BY DEF Rows
  <1> QED BY <1>1, <1>2, MarkType DEF Caught

LEMMA CoreInit == Init => CoreInv
  <1> SUFFICES ASSUME Init PROVE CoreInv
    OBVIOUS
  <1> USE UploaderAssumption DEF Init
  <1>1. Live = {}
    BY DEF Live
  <1>2. activeWorkers = 0 /\ Cardinality(Live) = 0
    BY <1>1, FS_EmptySet
  <1>3. queue \in Seq(Ids) /\ QueueMirrored
    BY EmptySeq DEF QueueMirrored, ToSet, IsInjective
  <1>4. TypeOK
    <2>1. pc \in [Workers -> PCs]
      BY DEF PCs
    <2>2. activeWorkers \in 0 .. MaxLimit /\ upsets \in 0 .. MaxUpsets
      OBVIOUS
    <2>3. /\ row \in [Ids -> Rows] /\ path \in [Ids -> {"null", "raw", "hashed"}]
          /\ file \in [Ids -> {"raw", "hashed", "gone"}] /\ remote \in [Ids -> BOOLEAN]
          /\ fin \in [Ids -> {"new", "hashing", "done"}]
          /\ activeUploads \in [Ids -> Workers \cup {None}]
          /\ job \in [Workers -> Ids \cup {None}]
          /\ src \in [Workers -> {"null", "raw", "hashed"}]
          /\ signal \in [Workers -> {"clear", "aborted", "missed"}]
      BY DEF Rows
    <2> QED BY <1>3, <2>1, <2>2, <2>3 DEF TypeOK, Rows
  <1>5. Busy
    BY DEF Busy, Working
  <1> QED BY <1>2, <1>3, <1>4, <1>5 DEF CoreInv, Counted

\* Asking for an upload, whatever the row says.
LEMMA AskType ==
  ASSUME TypeOK, QueueMirrored, NEW id \in Ids, AskAnyway(id)
  PROVE  /\ row' \in [Ids -> Rows] /\ queue' \in Seq(Ids) /\ queued' \in SUBSET Ids
         /\ QueueMirrored' /\ callee' \in {"none", "spawn", "call"}
         /\ dropped' \in SUBSET Ids /\ raced' \in SUBSET Ids
  <1>1. Mark(id, "pending") /\ Enqueue(id) /\ raced' \in {raced, raced \cup {id}}
    BY DEF AskAnyway
  <1>2. row' \in [Ids -> Rows]
    BY <1>1, MarkType DEF Rows
  <1> QED BY <1>1, <1>2, EnqueueEffect DEF TypeOK

LEMMA NamePathType ==
  ASSUME TypeOK, NEW id \in Ids, NEW name \in {"raw", "hashed"}, NamePath(id, name)
  PROVE  path' \in [Ids -> {"null", "raw", "hashed"}]
  BY DEF TypeOK, NamePath

\* What drives the uploader.
Driver(id) ==
  \/ Complete(id) \/ Finalize(id) \/ RehashLocal(id)
  \/ RequestUpload(id) \/ CancelUpload(id) \/ DeleteRow(id) \/ DeleteLocal(id)
  \/ OverwriteRemote(id) \/ OverwriteDeletes(id)

LEMMA CoreDrivers ==
  ASSUME CoreInv, NEW id \in Ids, Driver(id)
  PROVE  CoreInv'
  <1> USE DEF CoreInv, tableVars, queueVars, workerVars, settingVars, historyVars
  <1>1. UNCHANGED <<activeWorkers, pc, job>>
    BY DEF Driver, Complete, Finalize, RehashLocal, RequestUpload, CancelUpload, DeleteRow,
       DeleteLocal, OverwriteRemote, OverwriteDeletes
  <1>2. Counted' /\ Busy'
    BY <1>1 DEF Counted, Live, Busy
  <1>3. CASE Complete(id)
    <2>1. path' \in [Ids -> {"null", "raw", "hashed"}]
      BY <1>3, NamePathType DEF Complete
    <2> QED BY <1>2, <1>3, <2>1 DEF Complete, TypeOK, QueueMirrored
  <1>4. CASE Finalize(id)
    <2>1. /\ fin' \in [Ids -> {"new", "hashing", "done"}]
          /\ file' \in [Ids -> {"raw", "hashed", "gone"}]
      BY <1>4 DEF Finalize, TypeOK
    <2>2. path' \in [Ids -> {"null", "raw", "hashed"}]
      BY <1>4, NamePathType DEF Finalize, TypeOK
    <2>3. CASE AskAnyway(id)
      BY <1>2, <1>4, <2>1, <2>2, <2>3, AskType DEF Finalize, TypeOK, Rows
    <2>4. CASE UNCHANGED <<row, queueVars, callee, dropped, raced>>
      BY <1>2, <1>4, <2>1, <2>2, <2>4 DEF Finalize, TypeOK, QueueMirrored
    <2> QED BY <1>4, <2>3, <2>4 DEF Finalize
  <1>5. CASE RehashLocal(id)
    <2>1. upsets' \in 0 .. MaxUpsets /\ file' \in [Ids -> {"raw", "hashed", "gone"}]
      BY <1>5, UploaderAssumption DEF RehashLocal, TypeOK
    <2>2. path' \in [Ids -> {"null", "raw", "hashed"}]
      BY <1>5, NamePathType DEF RehashLocal
    <2>3. CASE AskAnyway(id)
      BY <1>2, <1>5, <2>1, <2>2, <2>3, AskType DEF RehashLocal, TypeOK, Rows
    <2>4. CASE UNCHANGED <<row, queueVars, callee, dropped, raced>>
      BY <1>2, <1>5, <2>1, <2>2, <2>4 DEF RehashLocal, TypeOK, QueueMirrored
    <2> QED BY <1>5, <2>3, <2>4 DEF RehashLocal
  <1>6. CASE RequestUpload(id)
    <2>1. row' \in [Ids -> Rows]
      BY <1>6, MarkType DEF RequestUpload, Rows
    <2>2. queue' \in Seq(Ids) /\ queued' \in SUBSET Ids /\ QueueMirrored'
          /\ callee' \in {"none", "spawn", "call"} /\ dropped' \in SUBSET Ids
      BY <1>6, EnqueueEffect DEF RequestUpload, TypeOK
    <2> QED BY <1>2, <1>6, <2>1, <2>2 DEF RequestUpload, TypeOK, Rows
  <1>7. CASE CancelUpload(id)
    <2>1. CASE /\ activeUploads[id] # None
               /\ signal' = [signal EXCEPT ![activeUploads[id]] =
                               IF @ = "clear" THEN "aborted" ELSE @]
               /\ UNCHANGED <<row, queueVars>>
      <3>1. signal' \in [Workers -> {"clear", "aborted", "missed"}]
        BY <2>1 DEF TypeOK
      <3> QED BY <1>2, <1>7, <2>1, <3>1 DEF CancelUpload, TypeOK, QueueMirrored
    <2>2. CASE /\ Unqueue(id) /\ queued' = queued \ {id} /\ Mark(id, "canceled")
               /\ UNCHANGED signal
      <3>1. row' \in [Ids -> Rows]
        BY <2>2, MarkType DEF Rows
      <3>2. queue' \in Seq(Ids) /\ QueueMirrored'
        BY <2>2, UnqueueEffect
      <3> QED BY <1>2, <1>7, <2>2, <3>1, <3>2 DEF CancelUpload, TypeOK, Rows
    <2> QED BY <1>7, <2>1, <2>2 DEF CancelUpload
  <1>8. CASE DeleteRow(id) \/ DeleteLocal(id)
    BY <1>2, <1>8 DEF DeleteRow, DeleteLocal, TypeOK, QueueMirrored
  <1>9. CASE OverwriteRemote(id) \/ OverwriteDeletes(id)
    <2>1. upsets' \in 0 .. MaxUpsets /\ doomed' \in SUBSET Ids
      BY <1>9, UploaderAssumption DEF OverwriteRemote, OverwriteDeletes, TypeOK
    <2> QED BY <1>2, <1>9, <2>1 DEF OverwriteRemote, OverwriteDeletes, TypeOK, QueueMirrored
  <1> QED BY <1>3, <1>4, <1>5, <1>6, <1>7, <1>8, <1>9 DEF Driver

\* The settings.
Saves == Notify \/ \E e \in BOOLEAN, n \in Limits : SaveSettings(e, n)

LEMMA CoreSaves ==
  ASSUME CoreInv, Saves
  PROVE  CoreInv'
  <1> USE DEF CoreInv, tableVars, queueVars, workerVars, settingVars, historyVars
  <1>1. /\ UNCHANGED <<tableVars, queueVars, workerVars, historyVars>>
        /\ enabled' \in BOOLEAN /\ limit' \in Limits
    BY DEF Saves, Notify, SaveSettings, TypeOK
  <1>2. callee' \in {"none", "spawn", "call"} /\ upsets' \in 0 .. MaxUpsets
    BY UploaderAssumption DEF Saves, Notify, SaveSettings, Spawning, TypeOK
  <1> QED BY <1>1, <1>2 DEF TypeOK, Counted, Live, Busy, QueueMirrored

LEMMA CoreRestart ==
  ASSUME CoreInv, Restart
  PROVE  CoreInv' /\ queued' = {id \in Ids : row[id] \in {"pending", "uploading"}}
  <1> USE DEF CoreInv
  <1>1. /\ queue' \in Seq(Ids) /\ IsInjective(queue') /\ queued' = ToSet(queue')
        /\ queued' = {id \in Ids : row[id] \in {"pending", "uploading"}}
    BY QueueOfRows DEF Restart
  <1>2. /\ activeUploads' \in [Ids -> Workers \cup {None}] /\ activeWorkers' = 0
        /\ pc' = [w \in Workers |-> "off"] /\ job' = [w \in Workers |-> None]
        /\ src' \in [Workers -> {"null", "raw", "hashed"}]
        /\ signal' \in [Workers -> {"clear", "aborted", "missed"}]
        /\ paused' = FALSE /\ dropped' = {} /\ raced' = {} /\ UNCHANGED doomed
    BY DEF Restart, ForgetProcess
  <1>3. Live' = {}
    BY <1>2 DEF Live
  <1>4. Counted'
    BY <1>2, <1>3, FS_EmptySet DEF Counted
  <1>5. Busy'
    BY <1>2 DEF Busy, Working
  <1>6. /\ row' \in [Ids -> Rows] /\ fin' \in [Ids -> {"new", "hashing", "done"}]
        /\ upsets' \in 0 .. MaxUpsets /\ callee' \in {"none", "spawn", "call"}
        /\ file' \in [Ids -> {"raw", "hashed", "gone"}]
        /\ UNCHANGED <<path, remote, enabled, limit>>
    BY UploaderAssumption DEF Restart, ForgetProcess, Spawning, TypeOK, Rows
  <1>7. TypeOK'
    <2>1. pc' \in [Workers -> PCs] /\ job' \in [Workers -> Ids \cup {None}]
      BY <1>2 DEF PCs
    <2>2. activeWorkers' \in 0 .. MaxLimit
      BY <1>2, UploaderAssumption
    <2> QED BY <1>1, <1>2, <1>6, <2>1, <2>2 DEF TypeOK, Rows
  <1> QED BY <1>1, <1>4, <1>5, <1>7 DEF QueueMirrored

\* spawnWorkers and the loop of a worker.
LEMMA CoreSpawn ==
  ASSUME CoreInv, Spawn
  PROVE  CoreInv'
  <1> USE DEF CoreInv
  <1>1. PICK w \in Workers : pc[w] = "off" /\ Goto(w, "called")
    BY DEF Spawn
  <1>2. Live' = Live \cup {w} /\ Cardinality(Live') = Cardinality(Live) + 1
    BY <1>1, LiveStarts DEF PCs
  <1>3. Live' \in SUBSET Workers /\ activeWorkers' = activeWorkers + 1
    BY <1>2 DEF Live, Spawn
  <1>4. activeWorkers' \in 0 .. MaxLimit /\ Counted'
    <2>1. activeWorkers' = Cardinality(Live')
      BY <1>2, <1>3 DEF Counted
    <2> QED BY <1>3, <2>1, SomeWorkers, UploaderAssumption DEF Counted
  <1>5. pc' \in [Workers -> PCs] /\ Busy'
    BY <1>1 DEF Spawn, Goto, TypeOK, PCs, Busy, Working
  <1> QED BY <1>4, <1>5
       DEF Spawn, TypeOK, QueueMirrored, tableVars, queueVars, settingVars, historyVars

LEMMA CoreLoop ==
  ASSUME CoreInv, NEW w \in Workers, LoopTop(w)
  PROVE  CoreInv'
  <1> USE DEF CoreInv, tableVars, queueVars, workerVars, settingVars, historyVars
  <1>1. pc[w] \in {"called", "closing"} /\ callee' \in {"none", "spawn", "call"}
    BY DEF LoopTop, Spawning, TypeOK
  <1>2. CASE queue = <<>> \/ ~ enabled \/ OverLimit
    <2>1. Goto(w, "off") /\ activeWorkers' = activeWorkers - 1
      BY <1>2 DEF LoopTop
    <2>2. Live' = Live \ {w} /\ Cardinality(Live') = Cardinality(Live) - 1
      BY <1>1, <2>1, LiveEnds
    <2>3. w \in Live /\ Cardinality(Live) # 0
      BY <1>1, LiveCount DEF Live
    <2>4. activeWorkers' \in 0 .. MaxLimit /\ paused' \in BOOLEAN
      <3>1. activeWorkers \in Nat /\ activeWorkers # 0 /\ activeWorkers <= MaxLimit
        BY <2>3 DEF Counted, TypeOK
      <3>2. paused' \in BOOLEAN
        BY <1>2 DEF LoopTop, TypeOK
      <3> QED BY <2>1, <3>1, <3>2, UploaderAssumption
    <2>5. pc' \in [Workers -> PCs] /\ Busy'
      BY <1>1, <2>1 DEF LoopTop, Goto, TypeOK, PCs, Busy, Working
    <2> QED BY <1>1, <2>1, <2>2, <2>4, <2>5 DEF LoopTop, TypeOK, Counted, QueueMirrored
  <1>3. CASE ~(queue = <<>> \/ ~ enabled \/ OverLimit)
    <2>1. Goto(w, "connecting") /\ UNCHANGED activeWorkers /\ paused' = FALSE
      BY <1>3 DEF LoopTop
    <2>2. Live' = Live /\ pc' \in [Workers -> PCs]
      BY <1>1, <2>1, LiveMoves DEF PCs
    <2>3. Busy'
      BY <1>1, <2>1 DEF LoopTop, Goto, TypeOK, Busy, Working
    <2> QED BY <1>1, <2>1, <2>2, <2>3 DEF LoopTop, TypeOK, Counted, QueueMirrored
  <1> QED BY <1>2, <1>3

\* A worker without a job moves on.
LEMMA CoreMoves ==
  ASSUME CoreInv, NEW w \in Workers, Connected(w) \/ ConnectFails(w) \/ DrainEnds(w)
  PROVE  CoreInv'
  <1> USE DEF CoreInv, tableVars, queueVars, workerVars, settingVars, historyVars
  <1>1. PICK to \in {"drain", "closing"} :
          /\ Goto(w, to) /\ pc[w] \in {"connecting", "drain"}
          /\ UNCHANGED <<tableVars, queueVars, activeUploads, activeWorkers, job, src, signal,
                         callee, settingVars, historyVars>>
    BY DEF Connected, ConnectFails, DrainEnds, At
  <1>2. Live' = Live /\ pc' \in [Workers -> PCs]
    BY <1>1, LiveMoves DEF PCs
  <1>3. Busy'
    BY <1>1 DEF Goto, TypeOK, Busy, Working
  <1> QED BY <1>1, <1>2, <1>3 DEF TypeOK, Counted, QueueMirrored

LEMMA CoreTake ==
  ASSUME CoreInv, NEW w \in Workers, Take(w)
  PROVE  CoreInv'
  <1> USE DEF CoreInv
  <1> DEFINE id == Head(queue)
  <1>1. queue' \in Seq(Ids) /\ QueueMirrored' /\ id \in Ids /\ queued' \in SUBSET Ids
    BY TakeEffect DEF Take, TypeOK
  <1>2. pc[w] = "drain"
    BY DEF Take, At
  <1> HIDE DEF id
  <1>3. CASE UNCHANGED <<pc, job, src>> /\ (UNCHANGED row \/ Mark(id, "failed"))
    <2>1. row' \in [Ids -> Rows]
      BY <1>1, <1>3, MarkType DEF TypeOK, Rows
    <2> QED BY <1>1, <1>3, <2>1 DEF Take, TypeOK, Rows, Counted, Live, Busy, settingVars, historyVars
  <1>4. CASE /\ Goto(w, "folder") /\ job' = [job EXCEPT ![w] = id]
             /\ src' = [src EXCEPT ![w] = path[id]] /\ file[id] = path[id] /\ UNCHANGED row
    <2>1. Live' = Live /\ pc' \in [Workers -> PCs]
      BY <1>2, <1>4, LiveMoves DEF PCs
    <2>2. /\ job' \in [Workers -> Ids \cup {None}]
          /\ src' \in [Workers -> {"null", "raw", "hashed"}]
      BY <1>1, <1>4 DEF TypeOK
    <2>3. Busy'
      BY <1>1, <1>2, <1>4, UploaderAssumption DEF Busy, TypeOK, Goto, Working
    <2> QED BY <1>1, <1>4, <2>1, <2>2, <2>3 DEF Take, TypeOK, Counted, settingVars, historyVars
  <1> QED BY <1>3, <1>4 DEF Take, id

\* A worker with a job moves on.
LEMMA CoreFolder ==
  ASSUME CoreInv, NEW w \in Workers, FolderReady(w) \/ FolderFails(w)
  PROVE  CoreInv'
  <1> USE DEF CoreInv, tableVars, queueVars, settingVars, historyVars
  <1>1. pc[w] = "folder" /\ job[w] \in Ids
    BY DEF FolderReady, FolderFails, At, Busy, TypeOK, Working
  <1>2. CASE FolderReady(w)
    <2>1. Live' = Live /\ pc' \in [Workers -> PCs]
      BY <1>1, <1>2, LiveMoves DEF FolderReady, PCs
    <2>2. row' \in [Ids -> Rows]
      BY <1>1, <1>2, MarkType DEF FolderReady, Rows
    <2>3. activeUploads' \in [Ids -> Workers \cup {None}]
      BY <1>1, <1>2 DEF FolderReady, TypeOK
    <2>4. Busy'
      BY <1>1, <1>2 DEF FolderReady, Busy, TypeOK, Goto, Working
    <2> QED BY <1>2, <2>1, <2>2, <2>3, <2>4 DEF FolderReady, TypeOK, Rows, Counted, QueueMirrored
  <1>3. CASE FolderFails(w)
    <2>1. Live' = Live /\ pc' \in [Workers -> PCs]
      BY <1>1, <1>3, LiveMoves DEF FolderFails, PCs
    <2>2. /\ job' \in [Workers -> Ids \cup {None}] /\ dropped' \in SUBSET Ids
          /\ src' \in [Workers -> {"null", "raw", "hashed"}]
      BY <1>1, <1>3 DEF FolderFails, TypeOK
    <2>3. Busy'
      BY <1>1, <1>3 DEF FolderFails, Busy, TypeOK, Goto, Working
    <2> QED BY <1>3, <2>1, <2>2, <2>3 DEF FolderFails, TypeOK, Counted, QueueMirrored
  <1> QED BY <1>2, <1>3

\* What is left to show of a step that releases a job.
LEMMA CoreRelease ==
  ASSUME CoreInv, NEW w \in Workers, pc[w] \in Working, Release(w),
         row' \in [Ids -> Rows], remote' \in [Ids -> BOOLEAN],
         file' \in [Ids -> {"raw", "hashed", "gone"}],
         UNCHANGED <<path, fin, queueVars, activeWorkers, callee, settingVars, historyVars>>
  PROVE  CoreInv'
  <1> USE DEF CoreInv
  <1>1. /\ Live' = Live /\ pc' \in [Workers -> PCs] /\ Busy'
        /\ activeUploads' \in [Ids -> Workers \cup {None}]
        /\ job' \in [Workers -> Ids \cup {None}]
        /\ src' \in [Workers -> {"null", "raw", "hashed"}]
        /\ signal' \in [Workers -> {"clear", "aborted", "missed"}]
    BY ReleaseType
  <1>2. UNCHANGED <<queue, queued, enabled, limit, upsets, paused, dropped, raced, doomed>>
    BY DEF queueVars, settingVars, historyVars
  <1> QED BY <1>1, <1>2 DEF TypeOK, Rows, Counted, QueueMirrored

LEMMA CoreUpload ==
  ASSUME CoreInv, NEW w \in Workers,
         Opened(w) \/ UploadAborted(w) \/ UploadFails(w) \/ Uploaded(w) \/ Unlinked(w)
  PROVE  CoreInv'
  <1> USE DEF CoreInv
  <1>1. pc[w] \in {"stat", "uploading", "unlinking"} /\ pc[w] \in Working /\ job[w] \in Ids
    BY DEF Opened, UploadAborted, UploadFails, Uploaded, Unlinked, At, Busy, TypeOK, Working
  <1>2. remote' \in [Ids -> BOOLEAN] /\ file' \in [Ids -> {"raw", "hashed", "gone"}]
    BY <1>1 DEF Opened, UploadAborted, UploadFails, Uploaded, Unlinked, TypeOK
  <1>3. UNCHANGED <<path, fin, queueVars, activeWorkers, callee, settingVars, historyVars>>
    BY DEF Opened, UploadAborted, UploadFails, Uploaded, Unlinked
  <1>4. CASE Caught(w)
    <2>1. Release(w) /\ row' \in [Ids -> Rows]
      BY <1>1, <1>4, CaughtType
    <2> QED BY <1>1, <1>2, <1>3, <2>1, CoreRelease
  <1>5. CASE Release(w) /\ UNCHANGED row
    <2>1. row' \in [Ids -> Rows]
      BY <1>5 DEF TypeOK, Rows
    <2> QED BY <1>1, <1>2, <1>3, <1>5, <2>1, CoreRelease
  <1>6. CASE Mark(job[w], "uploaded") /\ Release(w)
    <2>1. row' \in [Ids -> Rows]
      BY <1>1, <1>6, MarkType DEF Rows
    <2> QED BY <1>1, <1>2, <1>3, <1>6, <2>1, CoreRelease
  <1>7. ASSUME NEW to \in {"uploading", "unlinking"}, Goto(w, to),
               row' \in [Ids -> Rows], signal' \in [Workers -> {"clear", "aborted", "missed"}],
               UNCHANGED <<activeUploads, job, src>>
        PROVE  CoreInv'
    <2>1. Live' = Live /\ pc' \in [Workers -> PCs]
      BY <1>1, <1>7, LiveMoves DEF PCs
    <2>2. Busy'
      BY <1>1, <1>7 DEF Busy, Goto, TypeOK, Working
    <2>3. UNCHANGED <<queue, queued, enabled, limit, upsets, paused, dropped, raced, doomed>>
      BY <1>3 DEF queueVars, settingVars, historyVars
    <2> QED BY <1>2, <1>3, <1>7, <2>1, <2>2, <2>3 DEF TypeOK, Rows, Counted, QueueMirrored
  <1>8. CASE /\ Goto(w, "uploading") /\ UNCHANGED <<row, activeUploads, job, src>>
             /\ signal' = [signal EXCEPT ![w] = IF @ = "clear" THEN @ ELSE "missed"]
    <2>1. row' \in [Ids -> Rows] /\ signal' \in [Workers -> {"clear", "aborted", "missed"}]
      BY <1>8 DEF TypeOK, Rows
    <2> QED BY <1>7, <1>8, <2>1
  <1>9. CASE /\ Mark(job[w], "uploaded") /\ Goto(w, "unlinking")
             /\ UNCHANGED <<activeUploads, job, src, signal>>
    <2>1. row' \in [Ids -> Rows]
      BY <1>1, <1>9, MarkType DEF Rows
    <2>2. signal' \in [Workers -> {"clear", "aborted", "missed"}]
      BY <1>9 DEF TypeOK
    <2> QED BY <1>7, <1>9, <2>1, <2>2
  <1>10. CASE Opened(w)
    BY <1>4, <1>8, <1>10 DEF Opened
  <1>11. CASE Uploaded(w)
    BY <1>4, <1>6, <1>9, <1>11 DEF Uploaded
  <1>12. CASE Unlinked(w)
    BY <1>5, <1>12 DEF Unlinked
  <1>13. CASE UploadAborted(w) \/ UploadFails(w)
    BY <1>4, <1>13 DEF UploadAborted, UploadFails
  <1> QED BY <1>10, <1>11, <1>12, <1>13

LEMMA CoreStep ==
  ASSUME CoreInv, [Next]_vars
  PROVE  CoreInv'
  <1>1. CASE UNCHANGED vars
    BY <1>1 DEF vars, tableVars, queueVars, workerVars, settingVars, historyVars, CoreInv,
       TypeOK, Counted, Live, Busy, QueueMirrored
  <1>2. ASSUME NEW w \in Workers,
               WorkerStep(w) \/ Connected(w) \/ ConnectFails(w) \/ FolderFails(w) \/ UploadFails(w)
        PROVE  CoreInv'
    BY <1>2, CoreLoop, CoreMoves, CoreTake, CoreFolder, CoreUpload DEF WorkerStep
  <1> QED BY <1>1, <1>2, CoreDrivers, CoreSaves, CoreRestart, CoreSpawn DEF Next, Driver, Saves

-----------------------------------------------------------------------------
(* What steps do, for one id at a time.                                    *)

LEMMA MarkEffect ==
  ASSUME TypeOK, NEW id \in Ids, NEW status \in Rows \ {"absent"}, Mark(id, status)
  PROVE  /\ \A k \in Ids \ {id} : row'[k] = row[k]
         /\ row[id] = "absent" => row'[id] = "absent"
         /\ row[id] # "absent" => row'[id] = status
  BY DEF TypeOK, Mark, Rows

LEMMA ReleaseEffect ==
  ASSUME CoreInv, NEW w \in Workers, pc[w] \in Working, Release(w)
  PROVE  /\ job[w] \in Ids /\ pc'[w] = "drain" /\ job'[w] = None
         /\ \A v \in Workers \ {w} : pc'[v] = pc[v] /\ job'[v] = job[v]
         /\ activeUploads'[job[w]] = None
         /\ \A k \in Ids \ {job[w]} : activeUploads'[k] = activeUploads[k]
  <1>1. job[w] \in Ids
    BY DEF CoreInv, TypeOK, Busy
  <1> QED BY <1>1 DEF Release, Goto, CoreInv, TypeOK

\* What processOne's catch block does to its row.
LEMMA CaughtEffect ==
  ASSUME CoreInv, NEW w \in Workers, pc[w] \in Working, Caught(w)
  PROVE  /\ Release(w) /\ job[w] \in Ids
         /\ \A k \in Ids \ {job[w]} : row'[k] = row[k]
         /\ row[job[w]] = "absent" => row'[job[w]] = "absent"
         /\ row[job[w]] # "absent" => row'[job[w]] \in {"failed", "canceled"}
  <1>1. Release(w) /\ job[w] \in Ids
    BY ReleaseEffect DEF Caught
  <1>2. PICK status \in {"failed", "canceled"} : Mark(job[w], status)
    BY DEF Caught
  <1>3. status \in Rows \ {"absent"}
    BY DEF Rows
  <1> QED BY <1>1, <1>2, <1>3, MarkEffect DEF CoreInv

\* An upload that starts.
LEMMA FolderReadyEffect ==
  ASSUME CoreInv, NEW w \in Workers, FolderReady(w)
  PROVE  /\ job[w] \in Ids /\ pc[w] = "folder" /\ pc'[w] = "stat"
         /\ \A v \in Workers \ {w} : pc'[v] = pc[v]
         /\ activeUploads'[job[w]] = w
         /\ \A k \in Ids \ {job[w]} : activeUploads'[k] = activeUploads[k] /\ row'[k] = row[k]
         /\ row[job[w]] = "absent" => row'[job[w]] = "absent"
         /\ row[job[w]] # "absent" => row'[job[w]] = "uploading"
         /\ UNCHANGED <<job, path, file, remote, fin, queue, queued, callee, paused, dropped,
                        raced, doomed>>
  <1>1. job[w] \in Ids /\ pc[w] = "folder"
    BY DEF FolderReady, At, CoreInv, Busy, TypeOK, Working
  <1>2. Mark(job[w], "uploading") /\ "uploading" \in Rows \ {"absent"}
    BY DEF FolderReady, Rows
  <1>3. /\ \A k \in Ids \ {job[w]} : row'[k] = row[k]
        /\ row[job[w]] = "absent" => row'[job[w]] = "absent"
        /\ row[job[w]] # "absent" => row'[job[w]] = "uploading"
    BY <1>1, <1>2, MarkEffect DEF CoreInv
  <1> QED BY <1>1, <1>3 DEF FolderReady, Goto, CoreInv, TypeOK, queueVars, historyVars

\* A worker that takes an id drops it, fails it or works on it.
LEMMA Taken ==
  ASSUME CoreInv, NEW w \in Workers, Take(w)
  PROVE  \E id \in Ids :
           /\ id \in queued /\ queued' = queued \ {id} /\ pc[w] = "drain" /\ job[w] = None
           /\ \A k \in Ids \ {id} : row'[k] = row[k]
           /\ UNCHANGED <<path, file, remote, fin, activeUploads, callee, paused, dropped, raced, doomed>>
           /\ \/ /\ row[id] \in {"absent", "canceled"} /\ row'[id] = row[id]
                 /\ UNCHANGED <<pc, job>>
              \/ /\ row[id] \notin {"absent", "canceled"} /\ row'[id] = "failed"
                 /\ UNCHANGED <<pc, job>>
              \/ /\ row[id] \notin {"absent", "canceled"} /\ row'[id] = row[id]
                 /\ pc' = [pc EXCEPT ![w] = "folder"] /\ job' = [job EXCEPT ![w] = id]
  <1> DEFINE id == Head(queue)
  <1>1. id \in Ids /\ id \in queued /\ queued' = queued \ {id} /\ pc[w] = "drain"
    BY TakeEffect DEF Take, At, CoreInv
  <1>2. job[w] = None
    BY <1>1 DEF CoreInv, Busy, Working
  <1> HIDE DEF id
  <1>3. UNCHANGED <<path, file, remote, fin, activeUploads, callee, paused, dropped, raced, doomed>>
    BY DEF Take, historyVars
  <1>4. CASE row[id] \in {"absent", "canceled"} /\ UNCHANGED <<row, pc, job>>
    BY <1>1, <1>2, <1>3, <1>4
  <1>5. CASE row[id] \notin {"absent", "canceled"} /\ Mark(id, "failed") /\ UNCHANGED <<pc, job>>
    <2>1. "failed" \in Rows \ {"absent"}
      BY DEF Rows
    <2>2. row'[id] = "failed" /\ \A k \in Ids \ {id} : row'[k] = row[k]
      BY <1>1, <1>5, <2>1, MarkEffect DEF CoreInv
    <2> QED BY <1>1, <1>2, <1>3, <1>5, <2>2
  <1>6. CASE /\ row[id] \notin {"absent", "canceled"} /\ Goto(w, "folder")
             /\ job' = [job EXCEPT ![w] = id] /\ UNCHANGED row
    BY <1>1, <1>2, <1>3, <1>6 DEF Goto
  <1> QED BY <1>4, <1>5, <1>6 DEF Take, id

\* The rest of processOne: an upload goes on or its worker lets go of it.
LEMMA Uploading ==
  ASSUME CoreInv, NEW w \in Workers,
         Opened(w) \/ UploadAborted(w) \/ UploadFails(w) \/ Uploaded(w) \/ Unlinked(w)
  PROVE  /\ UNCHANGED <<path, fin, queue, queued, callee, paused, dropped, raced, doomed>>
         /\ job[w] \in Ids /\ pc[w] \in Working \ {"folder"}
         /\ \A k \in Ids : remote[k] => remote'[k]
         /\ \A k \in Ids : file'[k] = "gone" => file[k] = "gone" \/ (pc[w] = "unlinking" /\ k = job[w])
         /\ \A k \in Ids \ {job[w]} : row'[k] = row[k]
         /\ row[job[w]] = "absent" => row'[job[w]] = "absent"
         /\ \/ /\ Release(w) /\ pc[w] = "unlinking" /\ row' = row
            \/ /\ Release(w) /\ pc[w] # "unlinking"
               /\ row[job[w]] # "absent" =>
                    row'[job[w]] \in {"failed", "canceled"} \/ (row'[job[w]] = "uploaded" /\ remote'[job[w]])
            \/ /\ pc[w] = "stat" /\ pc' = [pc EXCEPT ![w] = "uploading"]
               /\ UNCHANGED <<row, job, activeUploads>>
            \/ /\ pc[w] = "uploading" /\ pc' = [pc EXCEPT ![w] = "unlinking"]
               /\ remote'[job[w]] /\ (row[job[w]] # "absent" => row'[job[w]] = "uploaded")
               /\ UNCHANGED <<job, activeUploads>>
  <1>1. /\ job[w] \in Ids /\ pc[w] \in Working \ {"folder"}
        /\ UNCHANGED <<path, fin, queue, queued, callee, paused, dropped, raced, doomed>>
    BY DEF Opened, UploadAborted, UploadFails, Uploaded, Unlinked, At, CoreInv, Busy, TypeOK,
       Working, queueVars, historyVars
  <1>2. pc[w] \in Working
    BY <1>1
  <1>3. \A k \in Ids : remote[k] => remote'[k]
    BY <1>1 DEF Opened, UploadAborted, UploadFails, Uploaded, Unlinked, CoreInv, TypeOK
  <1>4. ASSUME Caught(w), pc[w] # "unlinking"
        PROVE  /\ Release(w) /\ \A k \in Ids \ {job[w]} : row'[k] = row[k]
               /\ row[job[w]] = "absent" => row'[job[w]] = "absent"
               /\ row[job[w]] # "absent" => row'[job[w]] \in {"failed", "canceled"}
    BY <1>2, <1>4, CaughtEffect
  <1>5. ASSUME Mark(job[w], "uploaded")
        PROVE  /\ \A k \in Ids \ {job[w]} : row'[k] = row[k]
               /\ row[job[w]] = "absent" => row'[job[w]] = "absent"
               /\ row[job[w]] # "absent" => row'[job[w]] = "uploaded"
    BY <1>1, <1>5, MarkEffect DEF CoreInv, Rows
  <1>6. CASE Opened(w)
    <2>1. pc[w] = "stat" /\ UNCHANGED file
      BY <1>6 DEF Opened, At
    <2>2. CASE Caught(w)
      BY <1>1, <1>3, <1>4, <2>1, <2>2
    <2>3. CASE Goto(w, "uploading") /\ UNCHANGED <<row, activeUploads, job, src>>
      BY <1>1, <1>3, <2>1, <2>3 DEF Goto
    <2> QED BY <1>6, <2>2, <2>3 DEF Opened
  <1>7. CASE UploadAborted(w) \/ UploadFails(w)
    <2>1. pc[w] = "uploading" /\ UNCHANGED file /\ Caught(w)
      BY <1>7 DEF UploadAborted, UploadFails, At
    <2> QED BY <1>1, <1>3, <1>4, <2>1
  <1>8. CASE Uploaded(w)
    <2>1. pc[w] = "uploading" /\ UNCHANGED file /\ remote'[job[w]]
      BY <1>1, <1>8 DEF Uploaded, At, CoreInv, TypeOK
    <2>2. CASE Caught(w)
      BY <1>1, <1>3, <1>4, <2>1, <2>2
    <2>3. CASE Mark(job[w], "uploaded") /\ Release(w)
      BY <1>1, <1>3, <1>5, <2>1, <2>3
    <2>4. CASE /\ Mark(job[w], "uploaded") /\ Goto(w, "unlinking")
               /\ UNCHANGED <<activeUploads, job, src, signal>>
      BY <1>1, <1>3, <1>5, <2>1, <2>4 DEF Goto
    <2> QED BY <1>8, <2>2, <2>3, <2>4 DEF Uploaded
  <1>9. CASE Unlinked(w)
    <2>1. pc[w] = "unlinking" /\ Release(w) /\ row' = row
      BY <1>9 DEF Unlinked, At
    <2>2. \A k \in Ids : file'[k] = "gone" => file[k] = "gone" \/ k = job[w]
      BY <1>1, <1>9 DEF Unlinked, CoreInv, TypeOK
    <2> QED BY <1>1, <1>3, <2>1, <2>2
  <1> QED BY <1>6, <1>7, <1>8, <1>9

\* Asking for an upload.
LEMMA Asked ==
  ASSUME CoreInv, NEW id \in Ids, Mark(id, "pending"), Enqueue(id)
  PROVE  /\ \A k \in Ids \ {id} : row'[k] = row[k]
         /\ row[id] = "absent" => row'[id] = "absent"
         /\ row[id] # "absent" => row'[id] = "pending"
         /\ queued' = queued \cup {id} /\ dropped' = dropped \ {id}
  <1>1. "pending" \in Rows \ {"absent"}
    BY DEF Rows
  <1> QED BY <1>1, MarkEffect, EnqueueEffect DEF CoreInv

\* Workers without a job.
LEMMA Waiting ==
  ASSUME CoreInv, NEW w \in Workers,
         LoopTop(w) \/ Connected(w) \/ ConnectFails(w) \/ DrainEnds(w)
  PROVE  /\ UNCHANGED <<tableVars, queueVars, activeUploads, job, dropped, raced, doomed>>
         /\ job[w] = None /\ \A v \in Workers \ {w} : pc'[v] = pc[v]
  <1>1. pc[w] \in {"called", "closing", "connecting", "drain"}
    BY DEF LoopTop, Connected, ConnectFails, DrainEnds, At
  <1>2. job[w] = None
    BY <1>1 DEF CoreInv, Busy, Working
  <1>3. UNCHANGED <<tableVars, queueVars, activeUploads, job, dropped, raced, doomed>>
    BY DEF LoopTop, Connected, ConnectFails, DrainEnds, historyVars
  <1>4. \E to \in PCs : Goto(w, to)
    BY DEF LoopTop, Connected, ConnectFails, DrainEnds, PCs
  <1>5. \A v \in Workers \ {w} : pc'[v] = pc[v]
    BY <1>4 DEF Goto, CoreInv, TypeOK
  <1> QED BY <1>2, <1>3, <1>5

\* spawnWorkers starts only a worker that is off.
LEMMA Spawned ==
  ASSUME CoreInv, Spawn
  PROVE  /\ UNCHANGED <<tableVars, queueVars, activeUploads, job, historyVars>>
         /\ \A v \in Workers : pc[v] # "off" => pc'[v] = pc[v]
         /\ \A v \in Workers : pc'[v] = pc[v] \/ pc'[v] = "called"
  <1>1. PICK w \in Workers : pc[w] = "off" /\ Goto(w, "called")
    BY DEF Spawn
  <1> QED BY <1>1 DEF Spawn, Goto, CoreInv, TypeOK

\* What the driver of one id leaves alone, and how it changes its row.
LEMMA Driven ==
  ASSUME CoreInv, NEW id \in Ids, Driver(id)
  PROVE  /\ UNCHANGED <<pc, job, activeUploads, paused>>
         /\ \A k \in Ids \ {id} : /\ row'[k] = row[k] /\ fin'[k] = fin[k] /\ file'[k] = file[k]
                                  /\ (remote'[k] <=> remote[k])
                                  /\ (k \in queued' <=> k \in queued)
                                  /\ (k \in dropped' <=> k \in dropped)
                                  /\ (k \in raced' <=> k \in raced)
                                  /\ (k \in doomed' <=> k \in doomed)
         /\ row'[id] = "pending" => id \in queued' \/ (row[id] = "pending" /\ UNCHANGED <<queued, dropped>>)
         /\ row[id] = "absent" => row'[id] = "absent"
         /\ raced \subseteq raced' /\ doomed \subseteq doomed'
         /\ \/ row'[id] = row[id] \/ row'[id] \in {"pending", "canceled", "absent"}
  <1> USE DEF queueVars, workerVars, historyVars
  <1>1. UNCHANGED <<pc, job, activeUploads, paused>>
    BY DEF Driver, Complete, Finalize, RehashLocal, RequestUpload, CancelUpload, DeleteRow,
       DeleteLocal, OverwriteRemote, OverwriteDeletes
  <1>2. \A k \in Ids \ {id} : fin'[k] = fin[k] /\ file'[k] = file[k] /\ (remote'[k] <=> remote[k])
    BY DEF Driver, Complete, Finalize, RehashLocal, RequestUpload, CancelUpload, DeleteRow,
       DeleteLocal, OverwriteRemote, OverwriteDeletes, CoreInv, TypeOK
  <1>3. CASE \/ Mark(id, "pending") /\ Enqueue(id)
             \/ UNCHANGED <<row, queued, dropped>>
    <2>1. /\ \A k \in Ids \ {id} : /\ row'[k] = row[k] /\ (k \in queued' <=> k \in queued)
                                   /\ (k \in dropped' <=> k \in dropped)
          /\ row'[id] = "pending" => id \in queued' \/ (row[id] = "pending" /\ UNCHANGED <<queued, dropped>>)
          /\ row[id] = "absent" => row'[id] = "absent"
          /\ \/ row'[id] = row[id] \/ row'[id] = "pending"
      BY <1>3, Asked
    <2>2. /\ raced' \in {raced, raced \cup {id}} /\ doomed' \in {doomed, doomed \cup {id}}
      <3>1. CASE Complete(id) \/ RequestUpload(id) \/ CancelUpload(id) \/ DeleteRow(id) \/ DeleteLocal(id)
        BY <3>1 DEF Complete, RequestUpload, CancelUpload, DeleteRow, DeleteLocal
      <3>2. CASE Finalize(id) \/ RehashLocal(id)
        BY <3>2 DEF Finalize, RehashLocal, AskAnyway
      <3>3. CASE OverwriteRemote(id) \/ OverwriteDeletes(id)
        BY <3>3 DEF OverwriteRemote, OverwriteDeletes
      <3> QED BY <3>1, <3>2, <3>3 DEF Driver
    <2> QED BY <1>1, <1>2, <2>1, <2>2
  <1>4. CASE CancelUpload(id)
    <2>1. CASE queued' = queued \ {id} /\ Mark(id, "canceled")
      <3>1. /\ \A k \in Ids \ {id} : row'[k] = row[k]
            /\ row[id] = "absent" => row'[id] = "absent"
            /\ row[id] # "absent" => row'[id] = "canceled"
        BY <2>1, MarkEffect DEF CoreInv, Rows
      <3> QED BY <1>1, <1>2, <1>4, <2>1, <3>1 DEF CancelUpload
    <2> QED BY <1>3, <1>4, <2>1 DEF CancelUpload
  <1>5. CASE DeleteRow(id) \/ OverwriteDeletes(id)
    <2>1. row' = [row EXCEPT ![id] = "absent"] /\ UNCHANGED <<queued, dropped, raced>>
          /\ doomed' \in {doomed, doomed \cup {id}}
      BY <1>5 DEF DeleteRow, OverwriteDeletes
    <2> QED BY <1>1, <1>2, <2>1 DEF CoreInv, TypeOK
  <1>6. CASE \/ Complete(id) \/ Finalize(id) \/ RehashLocal(id) \/ RequestUpload(id)
             \/ DeleteLocal(id) \/ OverwriteRemote(id)
    BY <1>3, <1>6
    DEF Complete, Finalize, RehashLocal, AskAnyway, RequestUpload, DeleteLocal, OverwriteRemote
  <1> QED BY <1>4, <1>5, <1>6 DEF Driver

-----------------------------------------------------------------------------
(* Nothing asked for is forgotten.                                         *)

\* A pending row is in the queue, or with a worker that has not begun the
\* upload, or its folder could not be made.
PendInv ==
  \A id \in Ids : row[id] = "pending" =>
    \/ id \in queued \cup dropped
    \/ \E w \in Workers : job[w] = id /\ pc[w] = "folder"

LEMMA PendStep ==
  ASSUME CoreInv, PendInv, Next
  PROVE  PendInv'
  <1> SUFFICES ASSUME NEW k \in Ids, row'[k] = "pending"
               PROVE  \/ k \in queued' \cup dropped'
                      \/ \E w \in Workers : job'[w] = k /\ pc'[w] = "folder"
    BY DEF PendInv
  <1> USE DEF tableVars, queueVars, workerVars, settingVars, historyVars
  <1>1. ASSUME NEW id \in Ids, Driver(id)
        PROVE  \/ k \in queued' \cup dropped'
               \/ \E w \in Workers : job'[w] = k /\ pc'[w] = "folder"
    BY <1>1, Driven DEF PendInv
  <1>5. CASE Restart
    <2>1. row[k] \in {"pending", "uploading"}
      BY <1>5 DEF Restart
    <2> QED BY <1>5, <2>1, CoreRestart
  <1>6. CASE Saves
    BY <1>6 DEF Saves, Notify, SaveSettings, PendInv
  <1>7. CASE Spawn
    BY <1>7, Spawned DEF PendInv
  <1>8. ASSUME NEW w \in Workers, LoopTop(w) \/ Connected(w) \/ ConnectFails(w) \/ DrainEnds(w)
        PROVE  \/ k \in queued' \cup dropped'
               \/ \E v \in Workers : job'[v] = k /\ pc'[v] = "folder"
    BY <1>8, Waiting, UploaderAssumption DEF PendInv
  <1>9. ASSUME NEW w \in Workers, Take(w)
        PROVE  \/ k \in queued' \cup dropped'
               \/ \E v \in Workers : job'[v] = k /\ pc'[v] = "folder"
    <2>1. PICK id \in Ids :
           /\ id \in queued /\ queued' = queued \ {id} /\ job[w] = None
           /\ \A j \in Ids \ {id} : row'[j] = row[j]
           /\ UNCHANGED dropped
           /\ \/ row'[id] # "pending" /\ UNCHANGED <<pc, job>>
              \/ pc' = [pc EXCEPT ![w] = "folder"] /\ job' = [job EXCEPT ![w] = id]
      BY <1>9, Taken
    <2>2. CASE k = id
      <3>1. job'[w] = id /\ pc'[w] = "folder"
        BY <2>1, <2>2 DEF CoreInv, TypeOK
      <3> QED BY <2>2, <3>1
    <2>3. CASE k # id
      <3>1. row[k] = "pending"
        BY <2>1, <2>3
      <3>2. CASE k \in queued \cup dropped
        BY <2>1, <2>3, <3>2
      <3>3. ASSUME NEW v \in Workers, job[v] = k, pc[v] = "folder"
            PROVE  job'[v] = k /\ pc'[v] = "folder"
        <4>1. v # w
          BY <2>1, <3>3, UploaderAssumption
        <4> QED BY <2>1, <3>3, <4>1 DEF CoreInv, TypeOK
      <3> QED BY <3>1, <3>2, <3>3 DEF PendInv
    <2> QED BY <2>2, <2>3
  <1>10. ASSUME NEW w \in Workers, FolderReady(w)
        PROVE  \/ k \in queued' \cup dropped'
               \/ \E v \in Workers : job'[v] = k /\ pc'[v] = "folder"
    <2>1. k # job[w] /\ row[k] = "pending"
      BY <1>10, FolderReadyEffect
    <2> QED BY <1>10, <2>1, FolderReadyEffect DEF PendInv
  <1>11. ASSUME NEW w \in Workers, FolderFails(w)
        PROVE  \/ k \in queued' \cup dropped'
               \/ \E v \in Workers : job'[v] = k /\ pc'[v] = "folder"
    <2>1. /\ row[k] = "pending" /\ queued' = queued /\ dropped' = dropped \cup {job[w]}
          /\ \A v \in Workers \ {w} : job'[v] = job[v] /\ pc'[v] = pc[v]
      BY <1>11 DEF FolderFails, Goto, CoreInv, TypeOK
    <2> QED BY <2>1 DEF PendInv
  <1>12. ASSUME NEW w \in Workers,
                Opened(w) \/ UploadAborted(w) \/ UploadFails(w) \/ Uploaded(w) \/ Unlinked(w)
        PROVE  \/ k \in queued' \cup dropped'
               \/ \E v \in Workers : job'[v] = k /\ pc'[v] = "folder"
    <2>1. row[k] = "pending" /\ UNCHANGED <<queued, dropped>> /\ pc[w] # "folder"
      BY <1>12, Uploading DEF Working
    <2>2. \A v \in Workers \ {w} : job'[v] = job[v] /\ pc'[v] = pc[v]
      BY <1>12, Uploading, ReleaseEffect DEF CoreInv, TypeOK
    <2> QED BY <2>1, <2>2 DEF PendInv
  <1> QED
    BY <1>1, <1>5, <1>6, <1>7, <1>8, <1>9, <1>10, <1>11, <1>12
    DEF Next, WorkerStep, Driver, Saves

-----------------------------------------------------------------------------
(* A queue with something in it is served.                                 *)

LEMMA ServedStep ==
  ASSUME CoreInv, QueueServed, Next
  PROVE  QueueServed'
  <1> SUFFICES ASSUME queue' # <<>>, callee' = "none", ~ paused'
               PROVE  Live' # {}
    BY DEF QueueServed, Idle
  <1> USE DEF tableVars, queueVars, workerVars, settingVars, historyVars
  <1>1. ASSUME UNCHANGED <<pc, paused>>, callee = "none", queue # <<>>
        PROVE  Live' # {}
    BY <1>1 DEF QueueServed, Idle, Live
  <1>2. ASSUME UNCHANGED activeWorkers, limit' \in Limits,
               \/ UNCHANGED <<pc, limit, paused, queue>> /\ callee = "none"
               \/ UNCHANGED pc /\ Spawning(activeWorkers, queue', limit') = "none"
        PROVE  Live' # {}
    <2>1. CASE Spawning(activeWorkers, queue', limit') = "none" /\ UNCHANGED pc
      <3>1. activeWorkers >= limit'
        BY <1>2, <2>1 DEF Spawning, CoreInv, TypeOK, Limits
      <3>2. Live # {}
        BY <1>2, <3>1, LiveCount DEF CoreInv, Counted, Limits
      <3> QED BY <2>1, <3>2 DEF Live
    <2> QED BY <1>1, <1>2, <2>1
  <1>3. ASSUME NEW id \in Ids, Driver(id)
        PROVE  Live' # {}
    <2>1. UNCHANGED <<pc, paused, activeWorkers, limit>> /\ callee = "none" /\ limit \in Limits
      BY <1>3 DEF Driver, Complete, Finalize, RehashLocal, RequestUpload, CancelUpload, DeleteRow,
         DeleteLocal, OverwriteRemote, OverwriteDeletes, Idle, CoreInv, TypeOK
    <2>2. CASE UNCHANGED queue
      BY <1>1, <2>1, <2>2
    <2>3. CASE Enqueue(id)
      BY <1>2, <2>1, <2>3 DEF Enqueue
    <2>4. CASE Unqueue(id)
      <3>1. queue # <<>>
        BY <2>4 DEF Unqueue
      <3> QED BY <1>1, <2>1, <3>1
    <2> QED BY <1>3, <2>2, <2>3, <2>4
         DEF Driver, Complete, Finalize, RehashLocal, AskAnyway, RequestUpload, CancelUpload,
             DeleteRow, DeleteLocal, OverwriteRemote, OverwriteDeletes
  <1>4. CASE Restart \/ Spawn \/ Saves
    <2>1. ~ Restart
      <3>1. ASSUME Restart PROVE FALSE
        <4>1. Spawning(0, queue', limit) = "none" /\ limit \in Nat \ {0}
          BY <3>1 DEF Restart, CoreInv, TypeOK, Limits
        <4> QED BY <4>1 DEF Spawning
      <3> QED BY <3>1
    <2>2. ~ Spawn
      BY DEF Spawn
    <2>3. ASSUME NEW e \in BOOLEAN, NEW n \in Limits, SaveSettings(e, n)
          PROVE  Live' # {}
      <3>1. UNCHANGED <<activeWorkers, pc, paused, queue>> /\ limit' = n /\ callee = "none"
            /\ (n = limit \/ Spawning(activeWorkers, queue, n) = "none")
        BY <2>3 DEF SaveSettings, Idle
      <3> QED BY <1>2, <3>1
    <2>4. ~ Notify
      BY DEF Notify
    <2> QED BY <1>4, <2>1, <2>2, <2>3, <2>4 DEF Saves
  <1>6. ASSUME NEW w \in Workers, pc'[w] # "off"
        PROVE  Live' # {}
    BY <1>6 DEF Live
  <1>7. ASSUME NEW w \in Workers, LoopTop(w)
        PROVE  Live' # {}
    <2>1. CASE queue = <<>> \/ ~ enabled \/ OverLimit
      <3>1. Goto(w, "off") /\ pc[w] # "off" /\ queue' = queue /\ UNCHANGED limit
            /\ activeWorkers' = activeWorkers - 1
            /\ paused' = (paused \/ (queue # <<>> /\ ~ enabled))
        BY <1>7, <2>1 DEF LoopTop
      <3>2. OverLimit
        BY <2>1, <3>1
      <3>3. Cardinality(Live') = Cardinality(Live) - 1
        BY <3>1, LiveEnds DEF CoreInv
      <3>4. Cardinality(Live') # 0
        BY <3>2, <3>3 DEF OverLimit, CoreInv, Counted, TypeOK, Limits
      <3> QED BY <3>4, FS_EmptySet
    <2>2. CASE Goto(w, "connecting")
      BY <1>6, <2>2 DEF Goto, CoreInv, TypeOK
    <2> QED BY <1>7, <2>1, <2>2 DEF LoopTop
  <1>8. ASSUME NEW w \in Workers, Connected(w) \/ ConnectFails(w) \/ DrainEnds(w) \/ FolderReady(w) \/ FolderFails(w)
        PROVE  Live' # {}
    <2>1. pc'[w] # "off"
      BY <1>8 DEF Connected, ConnectFails, DrainEnds, FolderReady, FolderFails, Goto, CoreInv, TypeOK
    <2> QED BY <1>6, <2>1
  <1>9. ASSUME NEW w \in Workers, Take(w)
        PROVE  Live' # {}
    <2>1. pc'[w] # "off"
      BY <1>9, Taken DEF CoreInv, TypeOK
    <2> QED BY <1>6, <2>1
  <1>10. ASSUME NEW w \in Workers,
                Opened(w) \/ UploadAborted(w) \/ UploadFails(w) \/ Uploaded(w) \/ Unlinked(w)
        PROVE  Live' # {}
    <2>1. pc'[w] # "off"
      BY <1>10, Uploading, ReleaseEffect DEF CoreInv, TypeOK
    <2> QED BY <1>6, <2>1
  <1> QED BY <1>3, <1>4, <1>7, <1>8, <1>9, <1>10 DEF Next, WorkerStep, Driver, Saves

-----------------------------------------------------------------------------
(* One worker for an id, found through activeUploads.                      *)

\* The workers that have the id: one at most, and its place goes with the
\* row, unless an overwrite has deleted that, and with the map of uploads.
Held(id) ==
  /\ \A v, w \in Workers : job[v] = id /\ job[w] = id => v = w
  /\ \A w \in Workers : job[w] = id =>
       /\ id \notin queued /\ fin[id] # "new"
       /\ pc[w] = "folder" => row[id] \in {"pending", "absent"}
       /\ pc[w] \in {"stat", "uploading"} => row[id] \in {"uploading", "absent"}
       /\ pc[w] = "unlinking" => row[id] \in {"uploaded", "absent"}
       /\ pc[w] # "folder" => activeUploads[id] = w

\* The map has the id while its upload runs.
Mapped(id) ==
  /\ activeUploads[id] # None =>
       job[activeUploads[id]] = id /\ pc[activeUploads[id]] # "folder"
  /\ row[id] = "uploading" => activeUploads[id] # None

\* An id is queued with its row pending, and after its download.
Asking(id) ==
  /\ id \in queued => row[id] \in {"pending", "absent"}
  /\ fin[id] = "new" => row[id] \in {"null", "absent"} /\ id \notin queued

Own(id) == Held(id) /\ Mapped(id) /\ Asking(id)

\* The ids that finalizeCompleted or rehashLocal asked for nevertheless are out.
OwnInv ==
  /\ \A id \in Ids \ raced : Own(id)
  /\ \A id \in raced : fin[id] # "new"

\* A step that changes nothing of the id.
Same(id) ==
  /\ \A w \in Workers : (job'[w] = id <=> job[w] = id) /\ (job[w] = id => pc'[w] = pc[w])
  /\ activeUploads'[id] = activeUploads[id] /\ row'[id] = row[id] /\ fin'[id] = fin[id]
  /\ id \in queued' <=> id \in queued

LEMMA OwnSame ==
  ASSUME CoreInv, NEW k \in Ids, Own(k), Same(k)
  PROVE  Own(k)'
  <1>1. activeUploads[k] # None => activeUploads[k] \in Workers
    BY DEF CoreInv, TypeOK
  <1> QED BY <1>1 DEF Own, Held, Mapped, Asking, Same

\* An id that no worker has is in no map either.
LEMMA OwnFree ==
  ASSUME CoreInv, NEW k \in Ids, Own(k), \A w \in Workers : job[w] # k
  PROVE  activeUploads[k] = None
  BY DEF Own, Mapped, CoreInv, TypeOK

\* A row that is not at work has no worker, unless it is uploaded and its
\* file is being removed.
LEMMA OwnRow ==
  ASSUME CoreInv, NEW k \in Ids, Own(k), row[k] \in {"null", "failed", "canceled"}
  PROVE  \A w \in Workers : job[w] # k
  <1> SUFFICES ASSUME NEW w \in Workers, job[w] = k PROVE FALSE
    OBVIOUS
  <1>1. pc[w] \in Working
    BY UploaderAssumption DEF CoreInv, Busy
  <1> QED BY <1>1 DEF Own, Held, Working

\* What is to show of a step after which no worker has the id.
LEMMA OwnLoose ==
  ASSUME NEW k \in Ids, \A w \in Workers : job'[w] # k, activeUploads'[k] = None,
         row'[k] # "uploading", Asking(k)'
  PROVE  Own(k)'
  BY DEF Own, Held, Mapped

\* What is to show of a step that changes the row only: deleting it, or asking
\* for an upload no worker has.
LEMMA OwnDeleted ==
  ASSUME CoreInv, NEW k \in Ids, Own(k), row'[k] = "absent",
         UNCHANGED <<pc, job, activeUploads, fin, queued>>
  PROVE  Own(k)'
  BY DEF Own, Held, Mapped, Asking

LEMMA OwnAsked ==
  ASSUME CoreInv, NEW k \in Ids, Own(k), fin[k] # "new", fin'[k] # "new",
         UNCHANGED <<pc, job, activeUploads>>,
         \/ AskAnyway(k) /\ k \notin raced'
         \/ Mark(k, "pending") /\ Enqueue(k) /\ row[k] \in {"null", "failed", "canceled"}
  PROVE  Own(k)'
  <1>1. \A w \in Workers : job[w] # k
    <2>1. CASE AskAnyway(k) /\ k \notin raced'
      BY <2>1 DEF AskAnyway
    <2>2. CASE row[k] \in {"null", "failed", "canceled"}
      BY <2>2, OwnRow
    <2> QED BY <2>1, <2>2
  <1>2. activeUploads[k] = None
    BY <1>1, OwnFree
  <1>3. row'[k] \in {"pending", "absent"}
    BY Asked DEF AskAnyway, CoreInv, TypeOK, Rows
  <1> QED BY <1>1, <1>2, <1>3, OwnLoose DEF Asking

\* What drives the uploader.
LEMMA OwnDrivers ==
  ASSUME CoreInv, OwnInv, NEW id \in Ids, NEW k \in Ids \ raced', Driver(id)
  PROVE  Own(k)'
  <1> USE DEF queueVars, workerVars, historyVars
  <1>1. /\ UNCHANGED <<pc, job, activeUploads>>
        /\ \A j \in Ids \ {id} : row'[j] = row[j] /\ fin'[j] = fin[j] /\ (j \in queued' <=> j \in queued)
        /\ raced \subseteq raced'
    BY Driven
  <1>2. Own(k)
    BY <1>1 DEF OwnInv
  <1>3. CASE k # id
    BY <1>1, <1>2, <1>3, OwnSame DEF Same
  <1>4. CASE k = id /\ Complete(id)
    <2>1. fin[k] = "new" /\ fin'[k] = "hashing" /\ UNCHANGED <<row, queued>>
      BY <1>4 DEF Complete, CoreInv, TypeOK
    <2>2. \A w \in Workers : job[w] # k
      BY <1>2, <2>1 DEF Own, Held
    <2>3. activeUploads[k] = None
      BY <1>2, <2>2, OwnFree
    <2> QED BY <1>1, <1>2, <2>1, <2>2, <2>3, OwnLoose DEF Own, Asking
  <1>5. CASE k = id /\ (Finalize(id) \/ RehashLocal(id))
    <2>1. fin[k] # "new" /\ fin'[k] # "new"
      BY <1>5 DEF Finalize, RehashLocal, CoreInv, TypeOK
    <2>2. CASE AskAnyway(id)
      BY <1>1, <1>2, <1>5, <2>1, <2>2, OwnAsked
    <2>3. CASE UNCHANGED <<row, queued>>
      BY <1>1, <1>2, <2>1, <2>3 DEF Own, Held, Mapped, Asking
    <2> QED BY <1>5, <2>2, <2>3 DEF Finalize, RehashLocal
  <1>6. CASE k = id /\ RequestUpload(id)
    <2>1. fin[k] # "new" /\ fin' = fin /\ row[k] \in {"null", "failed", "canceled"}
      BY <1>6 DEF RequestUpload
    <2> QED BY <1>1, <1>2, <1>6, <2>1, OwnAsked DEF RequestUpload
  <1>7. CASE k = id /\ CancelUpload(id)
    <2>1. CASE UNCHANGED <<row, queued>>
      BY <1>1, <1>2, <1>7, <2>1, OwnSame DEF CancelUpload, Same
    <2>2. CASE activeUploads[id] = None /\ Unqueue(id) /\ queued' = queued \ {id} /\ Mark(id, "canceled")
      <3>1. id \in queued /\ row'[id] \in {"absent", "canceled"}
        BY <2>2, UnqueueEffect, MarkEffect DEF CoreInv, Rows
      <3>2. \A w \in Workers : job[w] # k
        BY <1>2, <1>7, <3>1 DEF Own, Held
      <3>3. fin'[k] # "new"
        BY <1>2, <1>7, <3>1 DEF Own, Asking, CancelUpload
      <3> QED BY <1>1, <1>7, <2>2, <3>1, <3>2, <3>3, OwnLoose DEF Asking
    <2> QED BY <1>7, <2>1, <2>2 DEF CancelUpload
  <1>8. CASE k = id /\ (DeleteRow(id) \/ OverwriteDeletes(id))
    <2>1. row'[k] = "absent" /\ UNCHANGED <<fin, queued>>
      BY <1>8 DEF DeleteRow, OverwriteDeletes, CoreInv, TypeOK
    <2> QED BY <1>1, <1>2, <2>1, OwnDeleted
  <1>9. CASE k = id /\ (DeleteLocal(id) \/ OverwriteRemote(id))
    BY <1>1, <1>2, <1>9, OwnSame DEF DeleteLocal, OverwriteRemote, Same
  <1> QED BY <1>3, <1>4, <1>5, <1>6, <1>7, <1>8, <1>9 DEF Driver

LEMMA OwnRestart ==
  ASSUME CoreInv, OwnInv, Restart, NEW k \in Ids
  PROVE  Own(k)'
  <1>1. job'= [w \in Workers |-> None] /\ activeUploads' = [id \in Ids |-> None]
    BY DEF Restart, ForgetProcess
  <1>2. queued' = {id \in Ids : row[id] \in {"pending", "uploading"}}
    BY CoreRestart
  <1>3. /\ row'[k] = IF row[k] = "uploading" THEN "pending" ELSE row[k]
        /\ fin'[k] = IF fin[k] = "hashing" THEN "done" ELSE fin[k]
    BY DEF Restart, ForgetProcess
  <1>4. \/ fin[k] # "new"
        \/ row[k] \in {"null", "absent"}
    BY DEF OwnInv, Own, Asking
  <1>5. Asking(k)'
    BY <1>2, <1>3, <1>4 DEF Asking
  <1>6. \A w \in Workers : job'[w] # k
    BY <1>1, UploaderAssumption
  <1> QED BY <1>1, <1>3, <1>5, <1>6, OwnLoose

LEMMA OwnTake ==
  ASSUME CoreInv, NEW w \in Workers, Take(w), NEW k \in Ids, Own(k)
  PROVE  Own(k)'
  <1>1. PICK id \in Ids :
          /\ id \in queued /\ queued' = queued \ {id} /\ job[w] = None
          /\ \A j \in Ids \ {id} : row'[j] = row[j]
          /\ UNCHANGED <<fin, activeUploads>>
          /\ \/ /\ row[id] \in {"absent", "canceled"} /\ row'[id] = row[id]
                /\ UNCHANGED <<pc, job>>
             \/ row'[id] = "failed" /\ UNCHANGED <<pc, job>>
             \/ /\ row[id] \notin {"absent", "canceled"} /\ row'[id] = row[id]
                /\ pc' = [pc EXCEPT ![w] = "folder"] /\ job' = [job EXCEPT ![w] = id]
    BY Taken
  <1>2. CASE k # id
    <2>1. ASSUME NEW v \in Workers
          PROVE  (job'[v] = k <=> job[v] = k) /\ (job[v] = k => pc'[v] = pc[v])
      BY <1>1, <1>2, UploaderAssumption DEF CoreInv, TypeOK
    <2> QED BY <1>1, <1>2, <2>1, OwnSame DEF Same
  <1>3. CASE k = id
    <2>1. /\ \A v \in Workers : job[v] # k
          /\ row[k] \in {"pending", "absent"} /\ fin[k] # "new"
      BY <1>1, <1>3 DEF Own, Held, Asking
    <2>2. activeUploads[k] = None
      BY <2>1, OwnFree
    <2>3. CASE UNCHANGED <<pc, job>> /\ row'[k] \in {"absent", "canceled", "failed"}
      BY <1>1, <1>3, <2>1, <2>2, <2>3, OwnLoose DEF Asking
    <2>4. CASE /\ row[k] \notin {"absent", "canceled"} /\ row'[k] = row[k]
               /\ pc' = [pc EXCEPT ![w] = "folder"] /\ job' = [job EXCEPT ![w] = k]
      <3>1. /\ job'[w] = k /\ pc'[w] = "folder" /\ row'[k] = "pending"
            /\ \A v \in Workers \ {w} : job'[v] # k
        BY <2>1, <2>4 DEF CoreInv, TypeOK
      <3> QED BY <1>1, <1>3, <2>1, <2>2, <3>1 DEF Own, Held, Mapped, Asking
    <2> QED BY <1>1, <1>3, <2>3, <2>4
  <1> QED BY <1>2, <1>3

LEMMA OwnFolder ==
  ASSUME CoreInv, NEW w \in Workers, FolderReady(w) \/ FolderFails(w), NEW k \in Ids, Own(k)
  PROVE  Own(k)'
  <1>1. CASE FolderReady(w)
    <2>1. CASE k # job[w]
      BY <1>1, <2>1, FolderReadyEffect, OwnSame DEF Same
    <2>2. CASE k = job[w]
      <3>1. row[k] \in {"pending", "absent"} /\ k \notin queued /\ fin[k] # "new"
            /\ \A v \in Workers \ {w} : job[v] # k
        BY <1>1, <2>2, FolderReadyEffect DEF Own, Held
      <3>2. /\ row'[k] \in {"uploading", "absent"} /\ activeUploads'[k] = w /\ pc'[w] = "stat"
            /\ UNCHANGED <<job, fin, queued>>
        BY <1>1, <2>2, <3>1, FolderReadyEffect
      <3> QED BY <2>2, <3>1, <3>2, UploaderAssumption DEF Own, Held, Mapped, Asking
    <2> QED BY <2>1, <2>2
  <1>2. CASE FolderFails(w)
    <2>1. /\ pc[w] = "folder" /\ job[w] \in Ids /\ job'[w] = None
          /\ \A v \in Workers \ {w} : job'[v] = job[v] /\ pc'[v] = pc[v]
          /\ UNCHANGED <<row, fin, queued, activeUploads>>
      BY <1>2 DEF FolderFails, Goto, At, CoreInv, TypeOK, Busy, Working, tableVars, queueVars
    <2>2. CASE k # job[w]
      BY <2>1, <2>2, UploaderAssumption, OwnSame DEF Same
    <2>3. CASE k = job[w]
      <3>1. row[k] # "uploading" /\ \A v \in Workers \ {w} : job[v] # k
        BY <2>1, <2>3 DEF Own, Held
      <3>2. activeUploads[k] = None
        BY <2>1, <2>3, <3>1 DEF Own, Mapped, CoreInv, TypeOK
      <3>3. Asking(k)'
        BY <2>1 DEF Own, Asking
      <3>4. \A v \in Workers : job'[v] # k
        BY <2>1, <3>1, UploaderAssumption
      <3> QED BY <2>1, <3>1, <3>2, <3>3, <3>4, OwnLoose
    <2> QED BY <2>2, <2>3
  <1> QED BY <1>1, <1>2

LEMMA OwnUpload ==
  ASSUME CoreInv, NEW w \in Workers,
         Opened(w) \/ UploadAborted(w) \/ UploadFails(w) \/ Uploaded(w) \/ Unlinked(w),
         NEW k \in Ids, Own(k)
  PROVE  Own(k)'
  <1>1. /\ UNCHANGED <<fin, queued>> /\ job[w] \in Ids /\ pc[w] \in Working \ {"folder"}
        /\ \A j \in Ids \ {job[w]} : row'[j] = row[j]
    BY Uploading
  <1>2. CASE k # job[w]
    <2>1. ASSUME Release(w) PROVE Same(k)
      BY <1>1, <1>2, <2>1, ReleaseEffect, UploaderAssumption DEF Same
    <2>2. ASSUME NEW to \in PCs, pc' = [pc EXCEPT ![w] = to], UNCHANGED <<job, activeUploads>>
          PROVE  Same(k)
      BY <1>1, <1>2, <2>2 DEF Same, CoreInv, TypeOK
    <2> QED BY <1>2, <2>1, <2>2, Uploading, OwnSame DEF PCs
  <1>3. CASE k = job[w]
    <2>1. /\ \A v \in Workers \ {w} : job[v] # k
          /\ k \notin queued /\ fin[k] # "new" /\ activeUploads[k] = w
          /\ pc[w] # "unlinking" => row[k] \in {"uploading", "absent"}
          /\ pc[w] = "unlinking" => row[k] \in {"uploaded", "absent"}
      BY <1>1, <1>3 DEF Own, Held, Working
    <2>2. CASE Release(w) /\ row'[k] # "uploading"
      <3>1. (\A v \in Workers : job'[v] # k) /\ activeUploads'[k] = None
        BY <1>1, <1>3, <2>1, <2>2, ReleaseEffect, UploaderAssumption
      <3> QED BY <1>1, <2>1, <2>2, <3>1, OwnLoose DEF Asking
    <2>3. CASE /\ pc[w] = "stat" /\ pc' = [pc EXCEPT ![w] = "uploading"]
               /\ UNCHANGED <<row, job, activeUploads>>
      <3>1. pc'[w] = "uploading" /\ row'[k] \in {"uploading", "absent"}
        BY <2>1, <2>3 DEF CoreInv, TypeOK
      <3> QED BY <1>1, <1>3, <2>1, <2>3, <3>1 DEF Own, Held, Mapped, Asking
    <2>4. CASE /\ pc[w] = "uploading" /\ pc' = [pc EXCEPT ![w] = "unlinking"]
               /\ row'[k] \in {"uploaded", "absent"} /\ UNCHANGED <<job, activeUploads>>
      <3>1. pc'[w] = "unlinking"
        BY <2>4 DEF CoreInv, TypeOK
      <3> QED BY <1>1, <1>3, <2>1, <2>4, <3>1 DEF Own, Held, Mapped, Asking
    <2> QED BY <1>3, <2>1, <2>2, <2>3, <2>4, Uploading
  <1> QED BY <1>2, <1>3

LEMMA OwnStep ==
  ASSUME CoreInv, OwnInv, Next
  PROVE  OwnInv'
  <1>1. ASSUME UNCHANGED <<raced, fin>> PROVE \A id \in raced' : fin'[id] # "new"
    BY <1>1 DEF OwnInv
  <1>2. ASSUME UNCHANGED raced, NEW k \in Ids \ raced' PROVE Own(k)
    BY <1>2 DEF OwnInv
  <1>3. CASE Restart
    <2>1. \A id \in raced' : fin'[id] # "new"
      BY <1>3 DEF Restart, ForgetProcess
    <2> QED BY <1>3, <2>1, OwnRestart DEF OwnInv
  <1>4. ASSUME NEW id \in Ids, Driver(id) PROVE OwnInv'
    <2>1. ASSUME NEW j \in raced' PROVE fin'[j] # "new"
      <3>1. fin[j] # "new" \/ (j = id /\ fin'[id] # "new")
        <4>1. CASE j \in raced
          BY <4>1 DEF OwnInv
        <4>2. CASE j \notin raced
          <5>1. Finalize(id) \/ RehashLocal(id)
            BY <1>4, <2>1, <4>2 DEF Driver, Complete, RequestUpload, CancelUpload, DeleteRow,
               DeleteLocal, OverwriteRemote, OverwriteDeletes, historyVars
          <5>2. AskAnyway(id) /\ j = id
            BY <2>1, <4>2, <5>1 DEF Finalize, RehashLocal, AskAnyway
          <5>3. fin'[id] # "new"
            BY <5>1 DEF Finalize, RehashLocal, CoreInv, TypeOK
          <5> QED BY <5>2, <5>3
        <4> QED BY <4>1, <4>2
      <3>2. j \in Ids
        BY CoreStep DEF CoreInv, TypeOK
      <3>3. fin[j] # "new" => fin'[j] # "new"
        BY <1>4, <3>2 DEF Driver, Complete, Finalize, RehashLocal, RequestUpload, CancelUpload,
           DeleteRow, DeleteLocal, OverwriteRemote, OverwriteDeletes, CoreInv, TypeOK
      <3> QED BY <3>1, <3>3
    <2> QED BY <1>4, <2>1, OwnDrivers DEF OwnInv
  <1>5. CASE Saves
    <2>1. UNCHANGED <<raced, fin>>
      BY <1>5 DEF Saves, Notify, SaveSettings, historyVars, tableVars
    <2>2. ASSUME NEW k \in Ids \ raced' PROVE Own(k)'
      <3>1. Own(k) /\ Same(k)
        BY <1>2, <1>5, <2>1
        DEF Saves, Notify, SaveSettings, Same, tableVars, queueVars, workerVars, historyVars
      <3> QED BY <3>1, OwnSame
    <2> QED BY <1>1, <2>1, <2>2 DEF OwnInv
  <1>6. CASE Spawn
    <2>1. UNCHANGED <<raced, fin>>
      BY <1>6 DEF Spawn, historyVars, tableVars
    <2>2. ASSUME NEW k \in Ids \ raced' PROVE Own(k)'
      <3>1. \A w \in Workers : job[w] = k => pc[w] # "off"
        BY UploaderAssumption DEF CoreInv, Busy, Working
      <3>2. Own(k) /\ Same(k)
        BY <1>2, <1>6, <2>1, <3>1, Spawned DEF Same, tableVars, queueVars, historyVars
      <3> QED BY <3>2, OwnSame
    <2> QED BY <1>1, <2>1, <2>2 DEF OwnInv
  <1>7. ASSUME NEW w \in Workers, LoopTop(w) \/ Connected(w) \/ ConnectFails(w) \/ DrainEnds(w)
        PROVE  OwnInv'
    <2>1. UNCHANGED <<raced, fin>>
      BY <1>7, Waiting DEF tableVars
    <2>2. ASSUME NEW k \in Ids \ raced' PROVE Own(k)'
      <3>1. Own(k) /\ Same(k)
        BY <1>2, <1>7, <2>1, Waiting, UploaderAssumption DEF Same, tableVars, queueVars
      <3> QED BY <3>1, OwnSame
    <2> QED BY <1>1, <2>1, <2>2 DEF OwnInv
  <1>8. ASSUME NEW w \in Workers, Take(w) PROVE OwnInv'
    BY <1>1, <1>2, <1>8, Taken, OwnTake DEF OwnInv
  <1>9. ASSUME NEW w \in Workers, FolderReady(w) \/ FolderFails(w) PROVE OwnInv'
    <2>1. UNCHANGED <<raced, fin>>
      BY <1>9, FolderReadyEffect DEF FolderFails, tableVars
    <2> QED BY <1>1, <1>2, <1>9, <2>1, OwnFolder DEF OwnInv
  <1>10. ASSUME NEW w \in Workers,
                Opened(w) \/ UploadAborted(w) \/ UploadFails(w) \/ Uploaded(w) \/ Unlinked(w)
         PROVE  OwnInv'
    BY <1>1, <1>2, <1>10, Uploading, OwnUpload DEF OwnInv
  <1> QED
    BY <1>3, <1>4, <1>5, <1>6, <1>7, <1>8, <1>9, <1>10 DEF Next, WorkerStep, Driver, Saves

-----------------------------------------------------------------------------
(* No finished download is lost.                                           *)

\* A worker unlinks a file only when MEGA has it, or had it when an overwrite
\* had not yet deleted it there.  A row says uploaded under the same condition,
\* and what is overwritten was downloaded.
OnMegaOnce(id) == remote[id] \/ id \in doomed

FileInv ==
  /\ NoFileLost
  /\ \A w \in Workers : pc[w] = "unlinking" => OnMegaOnce(job[w])
  /\ \A id \in Ids : row[id] = "uploaded" => OnMegaOnce(id)
  /\ \A id \in doomed : fin[id] # "new"

LEMMA FileStep ==
  ASSUME CoreInv, OwnInv, FileInv, Next
  PROVE  FileInv'
  <1> USE DEF tableVars, queueVars, workerVars, settingVars, historyVars
  <1>1. ASSUME \A k \in Ids :
                 /\ OnMegaOnce(k) => OnMegaOnce(k)'
                 /\ fin'[k] # "new" /\ row'[k] # "absent" /\ file'[k] = "gone" =>
                      \/ fin[k] # "new" /\ row[k] # "absent" /\ file[k] = "gone"
                      \/ OnMegaOnce(k)'
                 /\ row'[k] = "uploaded" => row[k] = "uploaded" \/ OnMegaOnce(k)'
                 /\ k \in doomed' => k \in doomed \/ fin'[k] # "new"
                 /\ fin[k] # "new" => fin'[k] # "new",
               \A v \in Workers : pc'[v] = "unlinking" =>
                 \/ pc[v] = "unlinking" /\ job'[v] = job[v]
                 \/ \E k \in Ids : k = job'[v] /\ OnMegaOnce(k)',
               doomed' \in SUBSET Ids
        PROVE  FileInv'
    <2>1. \A v \in Workers : pc[v] = "unlinking" => job[v] \in Ids
      BY DEF CoreInv, TypeOK, Busy, Working
    <2>2. ASSUME NEW id \in Ids \ doomed', fin'[id] # "new", row'[id] # "absent", file'[id] = "gone"
          PROVE  remote'[id]
      BY <1>1, <2>2 DEF FileInv, NoFileLost, OnMegaOnce
    <2>3. ASSUME NEW v \in Workers, pc'[v] = "unlinking" PROVE
                 \E k \in Ids : k = job'[v] /\ OnMegaOnce(k)'
      <3>1. CASE pc[v] = "unlinking" /\ job'[v] = job[v]
        BY <1>1, <2>1, <3>1 DEF FileInv, OnMegaOnce
      <3> QED BY <1>1, <2>3, <3>1
    <2>4. ASSUME NEW id \in Ids, row'[id] = "uploaded" PROVE OnMegaOnce(id)'
      BY <1>1, <2>4 DEF FileInv
    <2>5. ASSUME NEW id \in doomed' PROVE fin'[id] # "new"
      BY <1>1, <2>5 DEF FileInv
    <2> QED BY <2>2, <2>3, <2>4, <2>5 DEF FileInv, NoFileLost, OnMegaOnce
  <1>2. doomed' \in SUBSET Ids
    BY CoreStep DEF CoreInv, TypeOK
  <1>3. ASSUME NEW id \in Ids, Driver(id)
        PROVE  FileInv'
    <2>1. /\ UNCHANGED <<pc, job>>
          /\ \A k \in Ids \ {id} : /\ row'[k] = row[k] /\ fin'[k] = fin[k] /\ file'[k] = file[k]
                                   /\ (remote'[k] <=> remote[k]) /\ (k \in doomed' <=> k \in doomed)
          /\ row[id] = "absent" => row'[id] = "absent"
          /\ row'[id] = "uploaded" => row[id] = "uploaded"
          /\ doomed \subseteq doomed'
      BY <1>3, Driven
    <2>2. \A v \in Workers : pc'[v] = "unlinking" => pc[v] = "unlinking" /\ job'[v] = job[v]
      BY <2>1
    <2>3. ASSUME \/ remote'[id] <=> remote[id]
                 \/ id \in doomed',
                 fin[id] # "new" => fin'[id] # "new",
                 fin'[id] # "new" /\ row'[id] # "absent" /\ file'[id] = "gone" =>
                      \/ fin[id] # "new" /\ row[id] # "absent" /\ file[id] = "gone"
                      \/ OnMegaOnce(id)',
                 id \in doomed' => id \in doomed \/ fin'[id] # "new"
          PROVE  FileInv'
      <3>1. \A k \in Ids : OnMegaOnce(k) => OnMegaOnce(k)'
        BY <2>1, <2>3 DEF OnMegaOnce
      <3> HIDE DEF OnMegaOnce
      <3> QED BY <1>1, <1>2, <2>1, <2>2, <2>3, <3>1
    <2>4. CASE Complete(id)
      <3>1. file'[id] = "raw" /\ fin'[id] # "new" /\ UNCHANGED <<remote, doomed>>
        BY <2>4 DEF Complete, CoreInv, TypeOK
      <3> QED BY <2>3, <3>1
    <2>5. CASE Finalize(id) \/ RehashLocal(id) \/ RequestUpload(id) \/ CancelUpload(id)
      <3>1. /\ UNCHANGED <<remote, doomed>> /\ (fin[id] = "new" <=> fin'[id] = "new")
            /\ file'[id] = "gone" => file[id] = "gone"
        BY <2>5 DEF Finalize, RehashLocal, RequestUpload, CancelUpload, CoreInv, TypeOK
      <3> QED BY <2>1, <2>3, <3>1
    <2>6. CASE DeleteRow(id)
      <3>1. UNCHANGED <<remote, doomed, fin>> /\ row'[id] = "absent"
        BY <2>6 DEF DeleteRow, CoreInv, TypeOK
      <3> QED BY <2>3, <3>1
    <2>7. CASE DeleteLocal(id)
      <3>1. UNCHANGED <<remote, doomed, fin>> /\ row[id] = "uploaded"
        BY <2>7 DEF DeleteLocal
      <3>2. OnMegaOnce(id)'
        BY <3>1 DEF FileInv, OnMegaOnce
      <3> QED BY <2>3, <3>1, <3>2
    <2>8. CASE OverwriteDeletes(id)
      <3>1. id \in doomed' /\ fin[id] # "new" /\ fin' = fin
        BY <2>8 DEF OverwriteDeletes
      <3>2. OnMegaOnce(id)'
        BY <3>1 DEF OnMegaOnce
      <3> QED BY <2>3, <3>1, <3>2
    <2>9. CASE OverwriteRemote(id)
      <3>1. id \in doomed' /\ UNCHANGED <<row, file, fin>>
        BY <2>9 DEF OverwriteRemote
      <3>2. fin[id] # "new"
        BY <2>9 DEF OverwriteRemote, WasUploaded, OwnInv, Own, Asking
      <3> QED BY <2>3, <3>1, <3>2
    <2> QED BY <1>3, <2>4, <2>5, <2>6, <2>7, <2>8, <2>9 DEF Driver
  <1>7. CASE Restart
    <2>1. UNCHANGED <<remote, doomed>> /\ \A v \in Workers : pc'[v] = "off"
      BY <1>7 DEF Restart, ForgetProcess
    <2>2. \A k \in Ids : /\ fin'[k] = "new" <=> fin[k] = "new"
                         /\ row'[k] \in {row[k], "pending"}
                         /\ row[k] = "absent" => row'[k] = "absent"
      BY <1>7 DEF Restart, ForgetProcess
    <2>3. \A k \in Ids : file'[k] = "gone" => file[k] = "gone"
      BY <1>7 DEF Restart, Renaming, CoreInv, TypeOK
    <2>4. \A k \in Ids : OnMegaOnce(k) => OnMegaOnce(k)'
      BY <2>1 DEF OnMegaOnce
    <2>5. \A v \in Workers : pc'[v] # "unlinking"
      BY <2>1
    <2>6. ASSUME NEW k \in Ids
          PROVE  /\ fin'[k] # "new" /\ row'[k] # "absent" /\ file'[k] = "gone" =>
                      fin[k] # "new" /\ row[k] # "absent" /\ file[k] = "gone"
                 /\ row'[k] = "uploaded" => row[k] = "uploaded"
                 /\ k \in doomed' => k \in doomed
                 /\ fin[k] # "new" => fin'[k] # "new"
      <3>1. (fin'[k] # "new" <=> fin[k] # "new") /\ (row'[k] # "absent" => row[k] # "absent")
        BY <2>2
      <3>2. row'[k] = "uploaded" => row[k] = "uploaded"
        BY <2>2
      <3>3. (file'[k] = "gone" => file[k] = "gone") /\ doomed' = doomed
        BY <2>1, <2>3
      <3> QED BY <3>1, <3>2, <3>3
    <2> HIDE DEF OnMegaOnce
    <2> QED BY <1>1, <1>2, <2>4, <2>5, <2>6
  <1>8. ASSUME UNCHANGED <<row, file, remote, fin, doomed>>,
               \A v \in Workers : pc'[v] = "unlinking" => pc[v] = "unlinking" /\ job'[v] = job[v]
        PROVE  FileInv'
    BY <1>1, <1>2, <1>8 DEF OnMegaOnce
  <1>9. CASE Spawn \/ Saves
    <2>1. CASE Spawn
      BY <1>8, <2>1, Spawned
    <2>2. CASE Saves
      BY <1>8, <2>2 DEF Saves, Notify, SaveSettings
    <2> QED BY <1>9, <2>1, <2>2
  <1>10. ASSUME NEW w \in Workers, LoopTop(w) \/ Connected(w) \/ ConnectFails(w) \/ DrainEnds(w)
        PROVE  FileInv'
    <2>1. UNCHANGED <<row, file, remote, fin, doomed, job>> /\ \A v \in Workers \ {w} : pc'[v] = pc[v]
      BY <1>10, Waiting
    <2>2. pc'[w] # "unlinking"
      BY <1>10 DEF LoopTop, Connected, ConnectFails, DrainEnds, Goto, CoreInv, TypeOK
    <2> QED BY <1>8, <2>1, <2>2
  <1>11. ASSUME NEW w \in Workers, Take(w)
        PROVE  FileInv'
    <2>1. PICK id \in Ids :
           /\ pc[w] = "drain"
           /\ \A k \in Ids \ {id} : row'[k] = row[k]
           /\ UNCHANGED <<file, remote, fin, doomed>>
           /\ row[id] = "absent" => row'[id] = "absent"
           /\ row'[id] \in {row[id], "failed"}
           /\ \/ UNCHANGED <<pc, job>>
              \/ pc' = [pc EXCEPT ![w] = "folder"] /\ job' = [job EXCEPT ![w] = id]
      BY <1>11, Taken
    <2>2. \A v \in Workers : pc'[v] = "unlinking" => pc[v] = "unlinking" /\ job'[v] = job[v]
      BY <2>1 DEF CoreInv, TypeOK
    <2> QED BY <1>1, <1>2, <2>1, <2>2 DEF OnMegaOnce
  <1>12. ASSUME NEW w \in Workers, FolderReady(w)
        PROVE  FileInv'
    <2>1. /\ UNCHANGED <<file, remote, fin, doomed, job>>
          /\ \A k \in Ids : row[k] = "absent" => row'[k] = "absent"
          /\ \A k \in Ids : row'[k] \in {row[k], "uploading"}
      BY <1>12, FolderReadyEffect
    <2>2. \A v \in Workers : pc'[v] = "unlinking" => pc[v] = "unlinking"
      BY <1>12, FolderReadyEffect
    <2> QED BY <1>1, <1>2, <2>1, <2>2 DEF OnMegaOnce
  <1>13. ASSUME NEW w \in Workers, FolderFails(w)
        PROVE  FileInv'
    <2>1. UNCHANGED <<row, file, remote, fin, doomed>>
          /\ \A v \in Workers : pc'[v] = "unlinking" => pc[v] = "unlinking" /\ job'[v] = job[v]
      BY <1>13 DEF FolderFails, Goto, At, CoreInv, TypeOK
    <2> QED BY <1>8, <2>1
  <1>14. ASSUME NEW w \in Workers,
                Opened(w) \/ UploadAborted(w) \/ UploadFails(w) \/ Uploaded(w) \/ Unlinked(w)
        PROVE  FileInv'
    <2>1. /\ UNCHANGED <<fin, doomed>> /\ job[w] \in Ids
          /\ \A k \in Ids : remote[k] => remote'[k]
          /\ \A k \in Ids : row[k] = "absent" => row'[k] = "absent"
          /\ \A k \in Ids : file'[k] = "gone" => file[k] = "gone" \/ (pc[w] = "unlinking" /\ k = job[w])
          /\ \A k \in Ids \ {job[w]} : row'[k] = row[k]
          /\ \/ row'[job[w]] \in {row[job[w]], "failed", "canceled"}
             \/ remote'[job[w]]
      BY <1>14, Uploading
    <2>2. pc[w] = "unlinking" => OnMegaOnce(job[w])
      BY DEF FileInv
    <2>3. \A k \in Ids : OnMegaOnce(k) => OnMegaOnce(k)'
      BY <2>1 DEF OnMegaOnce
    <2>4. \A k \in Ids : remote'[k] => OnMegaOnce(k)'
      BY DEF OnMegaOnce
    <2>5. ASSUME NEW v \in Workers, pc'[v] = "unlinking"
          PROVE  \/ pc[v] = "unlinking" /\ job'[v] = job[v]
                 \/ \E k \in Ids : k = job'[v] /\ OnMegaOnce(k)'
      <3>1. (pc[v] = "unlinking" /\ job'[v] = job[v]) \/ remote'[job'[v]]
        BY <1>14, <2>5, Uploading, ReleaseEffect DEF CoreInv, TypeOK, Working
      <3>2. job'[v] \in Ids
        <4>1. CoreInv'
          BY CoreStep
        <4> QED BY <2>5, <4>1 DEF CoreInv, TypeOK, Busy, Working
      <3> QED BY <3>1, <3>2 DEF OnMegaOnce
    <2> HIDE DEF OnMegaOnce
    <2> QED BY <1>1, <1>2, <2>1, <2>2, <2>3, <2>4, <2>5
  <1> QED
    BY <1>3, <1>7, <1>9, <1>10, <1>11, <1>12, <1>13, <1>14
    DEF Next, WorkerStep, Driver, Saves

-----------------------------------------------------------------------------
(* The lifecycle of an upload.                                             *)

\* The status of one id in the lifecycle.
Shown(id) ==
  IF id \in doomed THEN "retired"
  ELSE IF row[id] = "absent" THEN "absent"
  ELSE IF id \in raced THEN "disputed" ELSE row[id]

LEMMA ShownIs == LifeStatus = [id \in Ids |-> Shown(id)]
  BY DEF LifeStatus, Shown

\* A step that leaves an id as it is, for the lifecycle.
Kept(id) ==
  /\ Shown(id)' = Shown(id)
  /\ file'[id] = "gone" <=> file[id] = "gone"
  /\ remote'[id] <=> remote[id]

\* A step about one id only changes that one in the lifecycle.
LEMMA OneMoves ==
  ASSUME NEW k \in Ids, \A j \in Ids \ {k} : Kept(j)
  PROVE  /\ LifeStatus' = [LifeStatus EXCEPT ![k] = Shown(k)'] /\ LifeStatus[k] = Shown(k)
         /\ Shown(k)' = Shown(k) => LifeStatus' = LifeStatus
         /\ file'[k] # "gone" => OnDisk' = OnDisk \cup {k}
         /\ file'[k] = "gone" => OnDisk' = OnDisk \ {k}
         /\ (file'[k] = "gone" <=> file[k] = "gone") => OnDisk' = OnDisk
         /\ remote'[k] => OnMega' = OnMega \cup {k}
         /\ ~ remote'[k] => OnMega' = OnMega \ {k}
         /\ (remote'[k] <=> remote[k]) => OnMega' = OnMega
  <1>1. LifeStatus' = [id \in Ids |-> Shown(id)']
    BY DEF LifeStatus, Shown
  <1>2. LifeStatus = [id \in Ids |-> Shown(id)]
    BY ShownIs
  <1>3. \A j \in Ids \ {k} : Shown(j)' = Shown(j)
    BY DEF Kept
  <1>4. OnDisk' = {id \in Ids : file'[id] # "gone"} /\ OnMega' = {id \in Ids : remote'[id]}
    BY DEF OnDisk, OnMega
  <1> HIDE DEF Shown
  <1>5. /\ LifeStatus' = [LifeStatus EXCEPT ![k] = Shown(k)'] /\ LifeStatus[k] = Shown(k)
        /\ Shown(k)' = Shown(k) => LifeStatus' = LifeStatus
    BY <1>1, <1>2, <1>3
  <1> QED BY <1>4, <1>5 DEF Kept, OnDisk, OnMega

LEMMA AllKept ==
  ASSUME \A j \in Ids : Kept(j)
  PROVE  UNCHANGED <<LifeStatus, OnDisk, OnMega>>
  <1>1. LifeStatus' = [id \in Ids |-> Shown(id)']
    BY DEF LifeStatus, Shown
  <1>2. LifeStatus = [id \in Ids |-> Shown(id)]
    BY ShownIs
  <1>3. \A j \in Ids : Shown(j)' = Shown(j)
    BY DEF Kept
  <1> HIDE DEF Shown
  <1>4. LifeStatus' = LifeStatus
    BY <1>1, <1>2, <1>3
  <1> QED BY <1>4 DEF Kept, OnDisk, OnMega

LEMMA StatusMoves ==
  ASSUME NEW k \in Ids, \A j \in Ids \ {k} : Kept(j),
         NEW from, NEW to, Shown(k) \in from, Shown(k)' = to, to \notin from
  PROVE  Lifecycle!Move(k, from, to) /\ LifeStatus'[k] # LifeStatus[k]
  <1>1. /\ LifeStatus' = [LifeStatus EXCEPT ![k] = Shown(k)']
        /\ LifeStatus[k] = Shown(k)
    BY OneMoves
  <1>2. k \in DOMAIN LifeStatus
    BY DEF LifeStatus
  <1> HIDE DEF Shown, Kept
  <1> QED BY <1>1, <1>2 DEF Lifecycle!Move

Simulates == Lifecycle!Next \/ UNCHANGED <<LifeStatus, OnDisk, OnMega>>

\* A step of the lifecycle about one id.
LEMMA SimulatesOne ==
  ASSUME NEW k \in Ids,
         \/ Lifecycle!Land(k) \/ Lifecycle!Clean(k) \/ Lifecycle!Send(k) \/ Lifecycle!Erase(k)
         \/ /\ LifeStatus'[k] # LifeStatus[k]
            /\ \/ Lifecycle!Ask(k) \/ Lifecycle!Dispute(k) \/ Lifecycle!Begin(k)
               \/ Lifecycle!Drop(k) \/ Lifecycle!Stop(k) \/ Lifecycle!Done(k)
               \/ Lifecycle!Forget(k) \/ Lifecycle!Retire(k)
  PROVE  Simulates
  BY DEF Simulates, Lifecycle!Next, Lifecycle!OfFile, Lifecycle!OfStatus

\* Nothing but the disk is promised of an entry that is overwritten.
LEMMA RetiredSimulates ==
  ASSUME CoreInv, NEW k \in Ids, \A j \in Ids \ {k} : Kept(j), k \in doomed',
         file[k] = "gone" => file'[k] = "gone",
         k \in doomed \/ (remote'[k] => remote[k])
  PROVE  Simulates
  <1>1. /\ LifeStatus' = [LifeStatus EXCEPT ![k] = "retired"] /\ LifeStatus[k] = Shown(k)
        /\ Shown(k)' = Shown(k) => LifeStatus' = LifeStatus
        /\ file'[k] # "gone" => OnDisk' = OnDisk
        /\ file'[k] = "gone" => OnDisk' = OnDisk \ {k}
        /\ remote'[k] => OnMega' = OnMega \cup {k}
        /\ ~ remote'[k] => OnMega' = OnMega \ {k}
        /\ (remote'[k] <=> remote[k]) => OnMega' = OnMega
    <2>1. Shown(k)' = "retired"
      BY DEF Shown
    <2> QED BY <2>1, OneMoves
  <1>2. OnDisk' \in {OnDisk, OnDisk \ {k}}
    BY <1>1
  <1>3. CASE k \in doomed
    <2>1. LifeStatus' = LifeStatus /\ LifeStatus[k] = "retired"
      BY <1>1, <1>3 DEF Shown
    <2>2. OnMega' \in {OnMega, OnMega \ {k}, OnMega \cup {k}}
      BY <1>1
    <2>3. Lifecycle!Erase(k)
      BY <1>2, <2>1, <2>2 DEF Lifecycle!Erase
    <2> QED BY <2>3, SimulatesOne
  <1>4. CASE k \notin doomed
    <2>1. Shown(k) # "retired"
      BY <1>4 DEF Shown, CoreInv, TypeOK
    <2>2. k \in DOMAIN LifeStatus
      BY DEF LifeStatus
    <2>3. LifeStatus'[k] # LifeStatus[k] /\ LifeStatus[k] # "retired"
      BY <1>1, <2>1, <2>2
    <2>4. OnMega' \in {OnMega, OnMega \ {k}}
      BY <1>1, <1>4
    <2>5. Lifecycle!Retire(k)
      BY <1>1, <1>2, <2>3, <2>4 DEF Lifecycle!Retire
    <2> QED BY <2>3, <2>5, SimulatesOne
  <1> QED BY <1>3, <1>4

\* What drives the uploader leaves all other ids as they are.
LEMMA DriverKeeps ==
  ASSUME CoreInv, NEW id \in Ids, Driver(id)
  PROVE  \A j \in Ids \ {id} : Kept(j)
  BY Driven DEF Kept, Shown

LEMMA DriversSimulate ==
  ASSUME CoreInv, OwnInv, FileInv, NEW id \in Ids, Driver(id)
  PROVE  Simulates
  <1> USE DEF historyVars
  <1>1. \A j \in Ids \ {id} : Kept(j)
    BY DriverKeeps
  <1>2. ASSUME id \notin raced PROVE Own(id)
    BY <1>2 DEF OwnInv
  <1>3. CASE id \in doomed'
    <2>1. CASE OverwriteRemote(id) \/ OverwriteDeletes(id)
      <3>1. (file[id] = "gone" => file'[id] = "gone") /\ (remote'[id] => remote[id])
        BY <2>1 DEF OverwriteRemote, OverwriteDeletes, CoreInv, TypeOK
      <3> QED BY <1>1, <1>3, <3>1, RetiredSimulates
    <2>2. CASE ~ (OverwriteRemote(id) \/ OverwriteDeletes(id))
      <3>1. doomed' = doomed
        BY <2>2 DEF Driver, Complete, Finalize, RehashLocal, RequestUpload, CancelUpload, DeleteRow,
           DeleteLocal
      <3>2. ~ Complete(id)
        BY <1>3, <3>1 DEF FileInv, Complete
      <3>3. file[id] = "gone" => file'[id] = "gone"
        BY <2>2, <3>2 DEF Driver, Finalize, RehashLocal, RequestUpload, CancelUpload, DeleteRow,
           DeleteLocal, CoreInv, TypeOK
      <3> QED BY <1>1, <1>3, <3>1, <3>3, RetiredSimulates
    <2> QED BY <2>1, <2>2
  <1>4. CASE id \notin doomed'
    <2>1. /\ id \notin doomed /\ remote' = remote /\ ~ OverwriteRemote(id) /\ ~ OverwriteDeletes(id)
      <3>1. ~ OverwriteRemote(id) /\ ~ OverwriteDeletes(id)
        BY <1>4 DEF OverwriteRemote, OverwriteDeletes
      <3> QED BY <1>4, <3>1 DEF Driver, Complete, Finalize, RehashLocal, RequestUpload, CancelUpload,
           DeleteRow, DeleteLocal
    <2>2. OnMega' = OnMega
      BY <2>1 DEF OnMega
    <2>3. ASSUME file'[id] = "gone" <=> file[id] = "gone" PROVE OnDisk' = OnDisk
      BY <1>1, <2>3, OneMoves
    <2>4. ASSUME file'[id] = "gone" <=> file[id] = "gone", Shown(id)' = Shown(id)
          PROVE  Simulates
      <3>1. \A j \in Ids : Kept(j)
        BY <1>1, <2>1, <2>4 DEF Kept
      <3> QED BY <3>1, AllKept DEF Simulates
    <2>5. ASSUME file'[id] = "gone" <=> file[id] = "gone",
                 Shown(id) \in Lifecycle!Retryable, Shown(id)' = "pending"
          PROVE  Simulates
      <3>1. /\ Lifecycle!Move(id, Lifecycle!Retryable, "pending")
            /\ LifeStatus'[id] # LifeStatus[id]
        BY <1>1, <2>5, StatusMoves DEF Lifecycle!Retryable
      <3>2. Lifecycle!Ask(id)
        BY <2>2, <2>3, <2>5, <3>1 DEF Lifecycle!Ask
      <3> QED BY <3>1, <3>2, SimulatesOne
    <2>6. CASE Complete(id)
      <3>1. fin[id] = "new" /\ file'[id] = "raw" /\ UNCHANGED <<row, raced>>
        BY <2>6 DEF Complete, CoreInv, TypeOK
      <3>2. id \notin raced /\ row[id] \in {"null", "absent"}
        BY <1>2, <3>1 DEF OwnInv, Own, Asking
      <3>3. Shown(id) \in {"null", "absent"} /\ Shown(id)' = Shown(id)
        BY <1>4, <2>1, <3>1, <3>2 DEF Shown
      <3>4. LifeStatus' = LifeStatus /\ LifeStatus[id] \in {"null", "absent"}
            /\ OnDisk' = OnDisk \cup {id}
        BY <1>1, <3>1, <3>3, OneMoves
      <3>5. Lifecycle!Land(id)
        BY <2>2, <3>4 DEF Lifecycle!Land
      <3> QED BY <3>5, SimulatesOne
    <2>7. CASE AskAnyway(id) /\ (file'[id] = "gone" <=> file[id] = "gone")
      <3>1. /\ row[id] = "absent" => row'[id] = "absent"
            /\ row[id] # "absent" => row'[id] = "pending"
        BY <2>7, Asked DEF AskAnyway
      <3>2. CASE row[id] = "absent" \/ id \in raced
        <4>1. Shown(id)' = Shown(id)
          BY <1>4, <2>1, <2>7, <3>1, <3>2 DEF Shown, AskAnyway
        <4> QED BY <2>4, <2>7, <4>1
      <3>3. CASE row[id] # "absent" /\ id \notin raced /\ id \notin raced'
        <4>1. row[id] # "uploaded" /\ \A w \in Workers : job[w] # id
          BY <2>7, <3>3 DEF AskAnyway
        <4>2. activeUploads[id] = None
          BY <1>2, <3>3, <4>1, OwnFree
        <4>3. row[id] \in {"null", "failed", "canceled", "pending"}
          BY <1>2, <3>3, <4>1, <4>2 DEF Own, Mapped, CoreInv, TypeOK
        <4>4. Shown(id) = row[id] /\ Shown(id)' = "pending"
          BY <1>4, <2>1, <3>1, <3>3 DEF Shown
        <4>5. CASE row[id] = "pending"
          BY <2>4, <2>7, <4>4, <4>5
        <4>6. CASE row[id] \in {"null", "failed", "canceled"}
          BY <2>5, <2>7, <4>4, <4>6 DEF Lifecycle!Retryable
        <4> QED BY <4>3, <4>5, <4>6
      <3>4. CASE row[id] # "absent" /\ id \notin raced /\ id \in raced'
        <4>1. row[id] = "uploaded" \/ \E w \in Workers : job[w] = id
          BY <2>7, <3>4 DEF AskAnyway
        <4>2. \A w \in Workers : job[w] = id => pc[w] \in Working
          BY UploaderAssumption DEF CoreInv, Busy
        <4>3. row[id] \in {"pending", "uploading", "uploaded"}
          BY <1>2, <3>4, <4>1, <4>2 DEF Own, Held, Working
        <4>4. Shown(id) \in {"pending", "uploading", "uploaded"} /\ Shown(id)' = "disputed"
          BY <1>4, <2>1, <3>1, <3>4, <4>3 DEF Shown
        <4>5. /\ Lifecycle!Move(id, {"pending", "uploading", "uploaded"}, "disputed")
              /\ LifeStatus'[id] # LifeStatus[id]
          BY <1>1, <4>4, StatusMoves
        <4>6. Lifecycle!Dispute(id)
          BY <2>2, <2>3, <2>7, <4>5 DEF Lifecycle!Dispute
        <4> QED BY <4>5, <4>6, SimulatesOne
      <3> QED BY <3>2, <3>3, <3>4
    <2>8. CASE Finalize(id) \/ RehashLocal(id)
      <3>1. file'[id] = "gone" <=> file[id] = "gone"
        BY <2>8 DEF Finalize, RehashLocal, CoreInv, TypeOK
      <3>2. CASE UNCHANGED <<row, raced>>
        BY <1>4, <2>1, <2>4, <3>1, <3>2 DEF Shown
      <3> QED BY <2>7, <2>8, <3>1, <3>2 DEF Finalize, RehashLocal
    <2>9. CASE RequestUpload(id)
      <3>1. /\ file' = file /\ row[id] \in {"null", "failed", "canceled"} /\ row'[id] = "pending"
            /\ raced' = raced
        BY <2>9, Asked DEF RequestUpload
      <3>2. CASE id \in raced
        BY <1>4, <2>1, <2>4, <3>1, <3>2 DEF Shown
      <3>3. CASE id \notin raced
        <4>1. Shown(id) \in Lifecycle!Retryable /\ Shown(id)' = "pending"
          BY <1>4, <2>1, <3>1, <3>3 DEF Shown, Lifecycle!Retryable
        <4> QED BY <2>5, <3>1, <4>1
      <3> QED BY <3>2, <3>3
    <2>10. CASE CancelUpload(id)
      <3>1. file' = file /\ raced' = raced /\ row[id] \in {"pending", "uploading"}
        BY <2>10 DEF CancelUpload
      <3>2. CASE UNCHANGED row
        BY <1>4, <2>1, <2>4, <3>1, <3>2 DEF Shown
      <3>3. CASE Unqueue(id) /\ queued' = queued \ {id} /\ Mark(id, "canceled")
        <4>1. id \in queued /\ row'[id] = "canceled"
          BY <3>1, <3>3, UnqueueEffect, MarkEffect DEF CoreInv, Rows
        <4>2. CASE id \in raced
          BY <1>4, <2>1, <2>4, <3>1, <4>1, <4>2 DEF Shown
        <4>3. CASE id \notin raced
          <5>1. row[id] = "pending"
            BY <1>2, <3>1, <4>1, <4>3 DEF Own, Asking
          <5>2. Shown(id) \in {"pending"} /\ Shown(id)' = "canceled"
            BY <1>4, <2>1, <3>1, <4>1, <4>3, <5>1 DEF Shown
          <5>3. Lifecycle!Move(id, {"pending"}, "canceled") /\ LifeStatus'[id] # LifeStatus[id]
            BY <1>1, <5>2, StatusMoves
          <5>4. Lifecycle!Drop(id)
            BY <2>2, <2>3, <3>1, <5>3 DEF Lifecycle!Drop
          <5> QED BY <5>3, <5>4, SimulatesOne
        <4> QED BY <4>2, <4>3
      <3> QED BY <2>10, <3>2, <3>3 DEF CancelUpload
    <2>11. CASE DeleteRow(id)
      <3>1. /\ row[id] \in {"null", "failed", "canceled"} /\ row'[id] = "absent" /\ raced' = raced
            /\ file'[id] = "gone" \/ file'[id] = file[id]
        BY <2>11 DEF DeleteRow, CoreInv, TypeOK
      <3>2. Shown(id) \in Lifecycle!Retryable \cup {"disputed"} /\ Shown(id)' = "absent"
        BY <1>4, <2>1, <3>1 DEF Shown, Lifecycle!Retryable
      <3>3. /\ Lifecycle!Move(id, Lifecycle!Retryable \cup {"disputed"}, "absent")
            /\ LifeStatus'[id] # LifeStatus[id]
        BY <1>1, <3>2, StatusMoves DEF Lifecycle!Retryable
      <3>4. OnDisk' \in {OnDisk, OnDisk \ {id}}
        BY <1>1, <3>1, OneMoves
      <3>5. Lifecycle!Forget(id)
        BY <2>2, <3>3, <3>4 DEF Lifecycle!Forget
      <3> QED BY <3>3, <3>5, SimulatesOne
    <2>12. CASE DeleteLocal(id)
      <3>1. /\ row[id] = "uploaded" /\ UNCHANGED <<row, raced>>
            /\ file'[id] = "gone" \/ file'[id] = file[id]
        BY <2>12 DEF DeleteLocal, CoreInv, TypeOK
      <3>2. Shown(id) \in {"uploaded", "disputed"} /\ Shown(id)' = Shown(id)
        BY <1>4, <2>1, <3>1 DEF Shown
      <3>3. CASE file'[id] = file[id]
        BY <2>4, <3>2, <3>3
      <3>4. CASE file'[id] = "gone"
        <4>1. id \in OnMega
          BY <2>1, <3>1 DEF FileInv, OnMegaOnce, OnMega
        <4>2. /\ LifeStatus' = LifeStatus /\ LifeStatus[id] \in {"uploaded", "disputed"}
              /\ OnDisk' = OnDisk \ {id}
          BY <1>1, <3>2, <3>4, OneMoves
        <4>3. Lifecycle!Clean(id)
          BY <2>2, <4>1, <4>2 DEF Lifecycle!Clean
        <4> QED BY <4>3, SimulatesOne
      <3> QED BY <3>1, <3>3, <3>4
    <2> QED BY <2>1, <2>6, <2>8, <2>9, <2>10, <2>11, <2>12 DEF Driver
  <1> QED BY <1>3, <1>4

\* A restart ends every dispute.
LEMMA RestartSimulates ==
  ASSUME CoreInv, OwnInv, FileInv, Restart
  PROVE  Simulates
  <1>1. /\ UNCHANGED <<remote, doomed>> /\ raced' = {}
        /\ \A id \in Ids : row'[id] = IF row[id] = "uploading" THEN "pending" ELSE row[id]
        /\ \A id \in Ids : file'[id] = "gone" <=> file[id] = "gone"
    BY DEF Restart, ForgetProcess, Renaming, CoreInv, TypeOK
  <1>2. UNCHANGED <<OnDisk, OnMega>>
    BY <1>1 DEF OnDisk, OnMega
  <1>3. LifeStatus' = [id \in Ids |-> Shown(id)'] /\ LifeStatus = [id \in Ids |-> Shown(id)]
    BY ShownIs DEF LifeStatus, Shown
  <1>4. \A id \in Ids : Shown(id)' = IF id \in doomed THEN "retired" ELSE row'[id]
    BY <1>1 DEF Shown
  <1>5. \A id \in Ids : row[id] \in Rows /\ row'[id] \in Rows \ {"uploading"}
    BY <1>1 DEF CoreInv, TypeOK, Rows
  <1>6. LifeStatus' \in [Ids -> Lifecycle!Statuses]
    <2>1. \A id \in Ids : Shown(id)' \in Lifecycle!Statuses
      BY <1>4, <1>5 DEF Rows, Lifecycle!Statuses, Lifecycle!Retryable
    <2> HIDE DEF Shown
    <2> QED BY <1>3, <2>1
  <1>7. ASSUME NEW id \in Ids PROVE Lifecycle!Resumes(id)
    <2>1. LifeStatus'[id] = Shown(id)' /\ LifeStatus[id] = Shown(id)
      BY <1>3
    <2>0. CASE id \in doomed
      <3>1. Shown(id) = "retired" /\ Shown(id)' = "retired"
        BY <1>1, <2>0 DEF Shown
      <3> QED BY <2>1, <3>1 DEF Lifecycle!Resumes
    <2>2. CASE id \notin doomed /\ row[id] = "absent"
      <3>1. Shown(id) = "absent" /\ row'[id] = "absent" /\ Shown(id)' = "absent"
        BY <1>1, <1>4, <2>2 DEF Shown
      <3> QED BY <2>1, <3>1 DEF Lifecycle!Resumes
    <2>3. CASE id \notin doomed /\ row[id] # "absent" /\ id \notin raced
      <3>1. Shown(id) = row[id] /\ row[id] # "disputed"
        BY <1>5, <2>3 DEF Shown, Rows
      <3> QED BY <1>1, <1>4, <2>1, <2>3, <3>1 DEF Lifecycle!Resumes
    <2>4. CASE id \notin doomed /\ row[id] # "absent" /\ id \in raced
      <3>1. Shown(id) = "disputed"
        BY <2>4 DEF Shown
      <3>2. row'[id] \in Lifecycle!Retryable \cup {"pending", "uploaded"}
        BY <1>1, <1>5, <2>4 DEF Rows, Lifecycle!Retryable
      <3>3. row'[id] = "uploaded" => id \in OnMega
        BY <1>1, <2>4 DEF FileInv, OnMegaOnce, OnMega
      <3> QED BY <1>4, <2>1, <2>4, <3>1, <3>2, <3>3 DEF Lifecycle!Resumes
    <2> QED BY <2>0, <2>2, <2>3, <2>4
  <1>8. Lifecycle!Resume
    BY <1>2, <1>6, <1>7 DEF Lifecycle!Resume
  <1> QED BY <1>2, <1>8 DEF Simulates, Lifecycle!Next

\* A worker takes an id, or begins its upload.
LEMMA BeginSimulates ==
  ASSUME CoreInv, OwnInv, NEW w \in Workers, Take(w) \/ FolderReady(w)
  PROVE  Simulates
  <1>1. CASE Take(w)
    <2>1. PICK id \in Ids :
            /\ id \in queued /\ \A k \in Ids \ {id} : row'[k] = row[k]
            /\ UNCHANGED <<file, remote, raced, doomed>>
            /\ \/ row'[id] = row[id]
               \/ row[id] \notin {"absent", "canceled"} /\ row'[id] = "failed"
      BY <1>1, Taken
    <2>2. \A j \in Ids \ {id} : Kept(j)
      BY <2>1 DEF Kept, Shown
    <2>3. CASE row'[id] = row[id] \/ id \in raced \/ id \in doomed
      <3>1. \A j \in Ids : Kept(j)
        BY <2>1, <2>2, <2>3 DEF Kept, Shown
      <3> QED BY <3>1, AllKept DEF Simulates
    <2>4. CASE row[id] # "absent" /\ row'[id] = "failed" /\ id \notin raced /\ id \notin doomed
      <3>1. row[id] = "pending"
        BY <2>1, <2>4 DEF OwnInv, Own, Asking
      <3>2. Shown(id) \in {"pending"} /\ Shown(id)' = "failed"
        BY <2>1, <2>4, <3>1 DEF Shown
      <3>3. Lifecycle!Move(id, {"pending"}, "failed") /\ LifeStatus'[id] # LifeStatus[id]
        BY <2>2, <3>2, StatusMoves
      <3>4. UNCHANGED <<OnDisk, OnMega>>
        BY <2>1 DEF OnDisk, OnMega
      <3>5. Lifecycle!Drop(id)
        BY <3>3, <3>4 DEF Lifecycle!Drop
      <3> QED BY <3>3, <3>5, SimulatesOne
    <2> QED BY <2>1, <2>3, <2>4
  <1>2. CASE FolderReady(w)
    <2> DEFINE id == job[w]
    <2>1. /\ id \in Ids /\ pc[w] = "folder" /\ \A k \in Ids \ {id} : row'[k] = row[k]
          /\ row[id] = "absent" => row'[id] = "absent"
          /\ row[id] # "absent" => row'[id] = "uploading"
          /\ UNCHANGED <<file, remote, raced, doomed>>
      BY <1>2, FolderReadyEffect
    <2>2. id \notin raced => row[id] \in {"pending", "absent"}
      BY <2>1 DEF OwnInv, Own, Held
    <2>3. PICK k \in Ids : k = id
      BY <2>1
    <2> HIDE DEF id
    <2>4. \A j \in Ids \ {k} : Kept(j)
      BY <2>1, <2>3 DEF Kept, Shown
    <2>5. CASE k \in raced \/ k \in doomed \/ row[k] = "absent"
      <3>1. \A j \in Ids : Kept(j)
        BY <2>1, <2>3, <2>4, <2>5 DEF Kept, Shown
      <3> QED BY <3>1, AllKept DEF Simulates
    <2>6. CASE k \notin raced /\ k \notin doomed /\ row[k] # "absent"
      <3>1. Shown(k) \in {"pending"} /\ Shown(k)' = "uploading"
        BY <2>1, <2>2, <2>3, <2>6 DEF Shown
      <3>2. Lifecycle!Move(k, {"pending"}, "uploading") /\ LifeStatus'[k] # LifeStatus[k]
        BY <2>4, <3>1, StatusMoves
      <3>3. UNCHANGED <<OnDisk, OnMega>>
        BY <2>1 DEF OnDisk, OnMega
      <3>4. Lifecycle!Begin(k)
        BY <3>2, <3>3 DEF Lifecycle!Begin
      <3> QED BY <3>2, <3>4, SimulatesOne
    <2> QED BY <2>5, <2>6
  <1> QED BY <1>1, <1>2

\* What an upload does to its id and to no other: it goes on, stops or is done,
\* or its local copy goes.
LEMMA UploadEffect ==
  ASSUME CoreInv, NEW w \in Workers,
         Opened(w) \/ UploadAborted(w) \/ UploadFails(w) \/ Uploaded(w) \/ Unlinked(w)
  PROVE  \E k \in Ids :
           /\ k = job[w] /\ raced' = raced /\ doomed' = doomed
           /\ \A j \in Ids \ {k} : row'[j] = row[j] /\ file'[j] = file[j] /\ (remote'[j] <=> remote[j])
           /\ row[k] = "absent" => row'[k] = "absent"
           /\ \/ pc[w] = "stat" /\ UNCHANGED <<row, file, remote>>
              \/ /\ pc[w] \in {"stat", "uploading"} /\ UNCHANGED file
                 /\ row[k] # "absent" => row'[k] \in {"failed", "canceled"}
                 /\ remote[k] => remote'[k]
              \/ /\ pc[w] = "uploading" /\ UNCHANGED file
                 /\ row[k] # "absent" => row'[k] = "uploaded"
                 /\ remote'[k]
              \/ /\ pc[w] = "unlinking" /\ UNCHANGED <<row, remote>>
                 /\ file[k] = "gone" => file'[k] = "gone"
  <1>1. /\ raced' = raced /\ doomed' = doomed /\ job[w] \in Ids /\ pc[w] \in Working
        /\ \A j \in Ids \ {job[w]} : row'[j] = row[j]
        /\ row[job[w]] = "absent" => row'[job[w]] = "absent"
    BY Uploading
  <1>2. PICK k \in Ids : k = job[w]
    BY <1>1
  <1>3. \A j \in Ids \ {k} : file'[j] = file[j] /\ (remote'[j] <=> remote[j])
    BY <1>2 DEF Opened, UploadAborted, UploadFails, Uploaded, Unlinked, CoreInv, TypeOK
  <1>4. ASSUME Caught(w) PROVE row[k] # "absent" => row'[k] \in {"failed", "canceled"}
    BY <1>1, <1>2, <1>4, CaughtEffect
  <1>5. ASSUME Mark(job[w], "uploaded") PROVE row[k] # "absent" => row'[k] = "uploaded"
    BY <1>1, <1>2, <1>5, MarkEffect DEF CoreInv, Rows
  <1>6. CASE Opened(w)
    BY <1>1, <1>2, <1>3, <1>4, <1>6 DEF Opened, At
  <1>7. CASE UploadAborted(w) \/ UploadFails(w)
    <2>1. remote[k] => remote'[k]
      BY <1>2, <1>7 DEF UploadAborted, UploadFails, CoreInv, TypeOK
    <2> QED BY <1>1, <1>2, <1>3, <1>4, <1>7, <2>1 DEF UploadAborted, UploadFails, At
  <1>8. CASE Uploaded(w)
    <2>1. remote'[k] /\ UNCHANGED file /\ pc[w] = "uploading"
      BY <1>2, <1>8 DEF Uploaded, CoreInv, TypeOK, At
    <2>2. Caught(w) \/ Mark(job[w], "uploaded")
      BY <1>8 DEF Uploaded
    <2> QED BY <1>1, <1>2, <1>3, <1>4, <1>5, <2>1, <2>2
  <1>9. CASE Unlinked(w)
    <2>1. file[k] = "gone" => file'[k] = "gone"
      BY <1>2, <1>9 DEF Unlinked, CoreInv, TypeOK
    <2> QED BY <1>1, <1>2, <1>3, <1>9, <2>1 DEF Unlinked, At
  <1> QED BY <1>6, <1>7, <1>8, <1>9

\* The rest of processOne.
LEMMA UploadSimulates ==
  ASSUME CoreInv, CoreInv', OwnInv, FileInv, NEW w \in Workers,
         Opened(w) \/ UploadAborted(w) \/ UploadFails(w) \/ Uploaded(w) \/ Unlinked(w)
  PROVE  Simulates
  <1>1. PICK k \in Ids :
           /\ k = job[w] /\ raced' = raced /\ doomed' = doomed
           /\ \A j \in Ids \ {k} : row'[j] = row[j] /\ file'[j] = file[j] /\ (remote'[j] <=> remote[j])
           /\ row[k] = "absent" => row'[k] = "absent"
           /\ \/ pc[w] = "stat" /\ UNCHANGED <<row, file, remote>>
              \/ /\ pc[w] \in {"stat", "uploading"} /\ UNCHANGED file
                 /\ row[k] # "absent" => row'[k] \in {"failed", "canceled"}
                 /\ remote[k] => remote'[k]
              \/ /\ pc[w] = "uploading" /\ UNCHANGED file
                 /\ row[k] # "absent" => row'[k] = "uploaded"
                 /\ remote'[k]
              \/ /\ pc[w] = "unlinking" /\ UNCHANGED <<row, remote>>
                 /\ file[k] = "gone" => file'[k] = "gone"
    BY UploadEffect
  <1>2. /\ k \notin raced /\ pc[w] \in {"stat", "uploading"} => row[k] \in {"uploading", "absent"}
        /\ k \notin raced /\ pc[w] = "unlinking" => row[k] \in {"uploaded", "absent"}
        /\ pc[w] = "unlinking" => remote[k] \/ k \in doomed
    BY <1>1 DEF OwnInv, Own, Held, FileInv, OnMegaOnce
  <1>3. \A j \in Ids \ {k} : Kept(j)
    BY <1>1 DEF Kept, Shown
  <1>4. /\ OnDisk' = OnDisk \/ (file'[k] = "gone" /\ OnDisk' = OnDisk \ {k})
        /\ OnMega' = OnMega \/ (remote'[k] /\ OnMega' = OnMega \cup {k})
        /\ remote'[k] => OnMega' = OnMega \cup {k}
        /\ file' = file => OnDisk' = OnDisk
        /\ remote' = remote => OnMega' = OnMega
        /\ LifeStatus[k] = Shown(k)
        /\ Shown(k)' = Shown(k) => LifeStatus' = LifeStatus
    <2>1. /\ LifeStatus[k] = Shown(k)
          /\ Shown(k)' = Shown(k) => LifeStatus' = LifeStatus
          /\ file'[k] # "gone" => OnDisk' = OnDisk \cup {k}
          /\ file'[k] = "gone" => OnDisk' = OnDisk \ {k}
          /\ (file'[k] = "gone" <=> file[k] = "gone") => OnDisk' = OnDisk
          /\ remote'[k] => OnMega' = OnMega \cup {k}
          /\ (remote'[k] <=> remote[k]) => OnMega' = OnMega
      BY <1>3, OneMoves
    <2>2. file'[k] # "gone" => file[k] # "gone"
      BY <1>1
    <2>3. remote[k] => remote'[k]
      BY <1>1
    <2> HIDE DEF Shown
    <2> QED BY <2>1, <2>2, <2>3
  <1>5. CASE pc[w] = "stat" /\ UNCHANGED <<row, file, remote>>
    <2>1. \A j \in Ids : Kept(j)
      BY <1>1, <1>5 DEF Kept, Shown
    <2> QED BY <2>1, AllKept DEF Simulates
  <1>10. CASE k \in doomed
    <2>1. file[k] = "gone" => file'[k] = "gone"
      BY <1>1
    <2> QED BY <1>1, <1>3, <1>10, <2>1, RetiredSimulates
  <1>6. CASE k \notin doomed /\ pc[w] = "unlinking" /\ UNCHANGED <<row, remote>>
    <2>1. LifeStatus' = LifeStatus /\ OnMega' = OnMega /\ k \in OnMega
      BY <1>1, <1>2, <1>4, <1>6 DEF Shown, OnMega
    <2>2. LifeStatus[k] \in {"uploaded", "disputed", "absent"}
      BY <1>2, <1>4, <1>6 DEF Shown
    <2>3. CASE OnDisk' = OnDisk
      BY <2>1, <2>3 DEF Simulates
    <2>4. CASE OnDisk' = OnDisk \ {k}
      <3>1. Lifecycle!Clean(k)
        BY <2>1, <2>2, <2>4 DEF Lifecycle!Clean
      <3> QED BY <3>1, SimulatesOne
    <2> QED BY <1>4, <2>3, <2>4
  <1>7. CASE /\ k \notin doomed /\ pc[w] \in {"stat", "uploading"} /\ UNCHANGED file
             /\ row[k] # "absent" => row'[k] \in {"failed", "canceled", "uploaded"}
             /\ row[k] = "absent" \/ k \in raced
    <2>1. Shown(k)' = Shown(k) /\ Shown(k) \in {"absent", "disputed"}
      BY <1>1, <1>7 DEF Shown
    <2>2. LifeStatus' = LifeStatus /\ LifeStatus[k] \in {"absent", "disputed"} /\ OnDisk' = OnDisk
      BY <1>4, <1>7, <2>1
    <2>3. CASE OnMega' = OnMega
      BY <2>2, <2>3 DEF Simulates
    <2>4. CASE OnMega' = OnMega \cup {k}
      <3>1. Lifecycle!Send(k)
        BY <2>2, <2>4 DEF Lifecycle!Send
      <3> QED BY <3>1, SimulatesOne
    <2> QED BY <1>4, <2>3, <2>4
  <1>8. CASE /\ pc[w] \in {"stat", "uploading"} /\ UNCHANGED file
             /\ row'[k] \in {"failed", "canceled"} /\ k \notin raced /\ k \notin doomed
    <2>1. Shown(k) \in {"uploading"} /\ Shown(k)' \in {"failed", "canceled"}
      BY <1>1, <1>2, <1>8 DEF Shown
    <2>2. PICK to \in {"failed", "canceled"} : Shown(k)' = to
      BY <2>1
    <2>3. Lifecycle!Move(k, {"uploading"}, to) /\ LifeStatus'[k] # LifeStatus[k]
      BY <1>3, <2>1, <2>2, StatusMoves
    <2>4. OnDisk' = OnDisk /\ OnMega' \in {OnMega, OnMega \cup {k}}
      BY <1>4, <1>8
    <2>5. Lifecycle!Stop(k)
      BY <2>3, <2>4 DEF Lifecycle!Stop
    <2> QED BY <2>3, <2>5, SimulatesOne
  <1>9. CASE /\ pc[w] = "uploading" /\ UNCHANGED file
             /\ row'[k] = "uploaded" /\ remote'[k] /\ k \notin raced /\ k \notin doomed
    <2>1. Shown(k) \in {"uploading"} /\ Shown(k)' = "uploaded"
      BY <1>1, <1>2, <1>9 DEF Shown
    <2>2. Lifecycle!Move(k, {"uploading"}, "uploaded") /\ LifeStatus'[k] # LifeStatus[k]
      BY <1>3, <2>1, StatusMoves
    <2>3. OnDisk' = OnDisk /\ OnMega' = OnMega \cup {k}
      BY <1>4, <1>9
    <2>4. Lifecycle!Done(k)
      BY <2>2, <2>3 DEF Lifecycle!Done
    <2> QED BY <2>2, <2>4, SimulatesOne
  <1> QED BY <1>1, <1>5, <1>6, <1>7, <1>8, <1>9, <1>10

\* Every step of the uploader is a step of the lifecycle, or shows it nothing.
LEMMA StepSimulates ==
  ASSUME CoreInv, OwnInv, FileInv, Next
  PROVE  Simulates
  <1>1. ASSUME UNCHANGED <<row, file, remote, raced, doomed>> PROVE Simulates
    BY <1>1 DEF Simulates, LifeStatus, OnDisk, OnMega
  <1>2. CoreInv'
    BY CoreStep
  <1>3. CASE Spawn \/ Saves
    BY <1>1, <1>3 DEF Spawn, Saves, Notify, SaveSettings, tableVars, historyVars
  <1>4. ASSUME NEW w \in Workers,
               LoopTop(w) \/ Connected(w) \/ ConnectFails(w) \/ DrainEnds(w) \/ FolderFails(w)
        PROVE  Simulates
    BY <1>1, <1>4, Waiting DEF FolderFails, tableVars
  <1> QED
    BY <1>2, <1>3, <1>4, DriversSimulate, RestartSimulates, BeginSimulates, UploadSimulates
    DEF Next, WorkerStep, Driver, Saves

-----------------------------------------------------------------------------
(* The theorems.                                                           *)

Inv == CoreInv /\ PendInv /\ FileInv /\ QueueServed /\ OwnInv

LEMMA InvInit == Init => Inv
  <1> SUFFICES ASSUME Init PROVE Inv
    OBVIOUS
  <1>1. CoreInv
    BY CoreInit
  <1>2. PendInv /\ QueueServed
    BY DEF Init, PendInv, QueueServed
  <1>3. FileInv
    BY DEF Init, FileInv, NoFileLost, OnMegaOnce
  <1>4. OwnInv
    BY UploaderAssumption DEF Init, OwnInv, Own, Held, Mapped, Asking
  <1> QED BY <1>1, <1>2, <1>3, <1>4 DEF Inv

LEMMA InvStep == Inv /\ [Next]_vars => Inv'
  <1> SUFFICES ASSUME Inv, [Next]_vars PROVE Inv'
    OBVIOUS
  <1>1. CASE Next
    BY <1>1, CoreStep, PendStep, FileStep, ServedStep, OwnStep DEF Inv
  <1>2. CASE UNCHANGED vars
    <2> USE <1>2 DEF Inv, vars, tableVars, queueVars, workerVars, settingVars, historyVars
    <2>1. CoreInv'
      BY CoreStep
    <2>2. PendInv' /\ FileInv'
      BY DEF PendInv, FileInv, NoFileLost, OnMegaOnce
    <2>3. QueueServed'
      BY DEF QueueServed, Idle, Live
    <2>4. OwnInv'
      BY DEF OwnInv, Own, Held, Mapped, Asking
    <2> QED BY <2>1, <2>2, <2>3, <2>4
  <1> QED BY <1>1, <1>2

LEMMA InvAlways == Spec => []Inv
  BY InvInit, InvStep, PTL DEF Spec

\* Every variable keeps its type: in particular the count of workers never
\* leaves 0..MaxLimit, whichever way a worker leaves its loop.
THEOREM TypeCorrect == Spec => []TypeOK
  <1>1. Inv => TypeOK
    BY DEF Inv, CoreInv
  <1> QED BY <1>1, InvAlways, PTL

\* The set `queued` and the queue agree, and the queue has no id twice:
\* enqueueMegaUpload, the workers' shift, cancelMegaUpload and a restart keep
\* them together.
THEOREM QueueCorrect == Spec => []QueueMirrored
  <1>1. Inv => QueueMirrored
    BY DEF Inv, CoreInv
  <1> QED BY <1>1, InvAlways, PTL

\* A pending row is queued, or held by a worker, or its folder could not be
\* made: a cancel, a restart or a refused login forgets none.
THEOREM PendingCorrect == Spec => []PendingTracked
  <1>1. Inv => PendingTracked
    BY DEF Inv, PendInv, PendingTracked
  <1> QED BY <1>1, InvAlways, PTL

\* What the table shows as uploading, cancelMegaUpload finds in activeUploads,
\* and one worker has it, whatever drives the uploader; but for the ids that
\* finalizeCompleted or rehashLocal asks for when a worker has them or has
\* uploaded them.
THEOREM CancelCorrect == Spec => []UploadsCancelable
  <1>1. Inv => UploadsCancelable
    BY DEF Inv, OwnInv, Own, Held, Mapped, UploadsCancelable
  <1> QED BY <1>1, InvAlways, PTL

\* The local file is removed only once MEGA has it, with its row, or with an
\* entry that is overwritten.
THEOREM FilesCorrect == Spec => []NoFileLost
  <1>1. Inv => NoFileLost
    BY DEF Inv, FileInv
  <1> QED BY <1>1, InvAlways, PTL

\* The workers over a reduced limit do not all leave, and a refused login
\* ends none, while there is something to upload.
THEOREM ServiceCorrect == Spec => []QueueServed
  <1>1. Inv => QueueServed
    BY DEF Inv
  <1> QED BY <1>1, InvAlways, PTL

\* The uploader implements the lifecycle: for any number of downloads, workers,
\* restarts, rehashes, overwrites and settings changes, no step skips a status,
\* takes one back or writes to a deleted row, uploaded is final, and a local file
\* is removed only once MEGA has it or with its row.  All but the part about the
\* file leaves out the disputed uploads, and the whole the overwritten entries.
THEOREM UploadsImplemented == Spec => ImplementsUploads
  <1>1. Init => Lifecycle!Init
    BY DEF Init, LifeStatus, OnDisk, OnMega, Lifecycle!Init
  <1>2. Inv /\ [Next]_vars => [Lifecycle!Next]_<<LifeStatus, OnDisk, OnMega>>
    <2>1. CASE UNCHANGED vars
      BY <2>1 DEF vars, tableVars, historyVars, LifeStatus, OnDisk, OnMega
    <2> QED BY <2>1, StepSimulates DEF Inv, Simulates
  <1>3. []Inv /\ [][Next]_vars => [][Lifecycle!Next]_<<LifeStatus, OnDisk, OnMega>>
    BY <1>2, PTL
  <1> QED BY <1>1, <1>3, InvAlways, PTL
       DEF Spec, ImplementsUploads, Lifecycle!Spec, Lifecycle!vars
=============================================================================
