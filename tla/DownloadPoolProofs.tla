------------------------- MODULE DownloadPoolProofs -------------------------
(***************************************************************************)
(* Proofs about DownloadPool, for every number of jobs, workers and DELETE *)
(* handlers and every capacity of the channel and of the ring.             *)
(***************************************************************************)
EXTENDS DownloadPool, FiniteSetTheorems, TLAPS

(***************************************************************************)
(* Type correctness.  The bounds on the two sequences are the substance:   *)
(* the ring never outgrows Registry.cap and the channel its capacity.      *)
(***************************************************************************)

\* What Registry.update does to the type of the registry.
LEMMA UpdateType ==
  ASSUME TypeOK, NEW id \in Ids, NEW s \in Statuses, Update(id, s)
  PROVE  reg' \in [Ids -> Statuses \cup {"absent"}]
  BY DEF TypeOK, Update

\* What Registry.markFinished does to the types of the registry and the ring:
\* the ring holds at most RingCap ids, before and after.
LEMMA MarkFinishedType ==
  ASSUME TypeOK, NEW id \in Ids, MarkFinished(id)
  PROVE  /\ reg' \in [Ids -> Statuses \cup {"absent"}]
         /\ ring' \in Seq(Ids) /\ Len(ring') <= RingCap
  <1>0. /\ reg \in [Ids -> Statuses \cup {"absent"}]
        /\ ring \in Seq(Ids) /\ Len(ring) \in Nat /\ Len(ring) <= RingCap
        /\ RingCap \in Nat \ {0}
    BY PoolAssumption DEF TypeOK
  <1>1. CASE reg[id] = "absent" /\ UNCHANGED regVars
    BY <1>0, <1>1 DEF regVars
  <1>2. CASE /\ Len(ring) < RingCap
             /\ ring' = Append(ring, id)
             /\ UNCHANGED reg
    <2>1. Append(ring, id) \in Seq(Ids) /\ Len(Append(ring, id)) = Len(ring) + 1
      BY <1>0
    <2> QED BY <1>0, <1>2, <2>1
  <1>3. CASE /\ Len(ring) >= RingCap
             /\ ring' = Tail(Append(ring, id))
             /\ reg' = [reg EXCEPT ![Head(ring)] = IF @ \in Terminal THEN "absent" ELSE @]
    <2>1. /\ Append(ring, id) \in Seq(Ids)
          /\ Append(ring, id) # <<>>
          /\ Len(Append(ring, id)) = RingCap + 1
      BY <1>0, <1>3
    <2>2. Tail(Append(ring, id)) \in Seq(Ids) /\ Len(Tail(Append(ring, id))) = RingCap
      BY <1>0, <2>1
    <2>3. reg' \in [Ids -> Statuses \cup {"absent"}]
      BY <1>0, <1>3
    <2> QED BY <1>0, <1>3, <2>2, <2>3
  <1> QED BY <1>1, <1>2, <1>3 DEF MarkFinished

\* Where a goroutine is and whether it has a job go together.
Busy ==
  /\ \A w \in Workers : job[w] = None <=> pc[w] \in {"gone", "idle"}
  /\ \A c \in Cancelers : did[c] = None <=> dpc[c] = "idle"

\* No id is None, so a busy worker or handler has an id.
LEMMA BusyHas ==
  ASSUME TypeOK, Busy
  PROVE  /\ \A w \in Workers : pc[w] \notin {"gone", "idle"} => job[w] \in Ids
         /\ \A c \in Cancelers : dpc[c] # "idle" => did[c] \in Ids
  BY DEF TypeOK, Busy

\* Every step of the module keeps the types.
LEMMA TypeStep ==
  ASSUME TypeOK, Busy, [Next]_vars
  PROVE  TypeOK' /\ Busy'
  <1>1. CASE UNCHANGED vars
    BY <1>1 DEF vars, regVars, poolVars, workerVars, handlerVars, historyVars,
       TypeOK, Busy
  <1>2. CASE Next
  <2>1. ASSUME NEW id \in Ids, PostAdd(id)
         PROVE  TypeOK' /\ Busy'
    BY <2>1 DEF PostAdd, TypeOK, Busy, regVars, poolVars, workerVars,
       handlerVars, historyVars, Statuses, Terminal
  <2>2. ASSUME NEW id \in Ids, PostAnnounce(id)
         PROVE  TypeOK' /\ Busy'
    BY <2>2 DEF PostAnnounce, TypeOK, Busy, regVars, poolVars, workerVars,
       handlerVars, historyVars, Statuses, Terminal, Publish
  <2>3. ASSUME NEW id \in Ids, PostEnqueue(id)
         PROVE  TypeOK' /\ Busy'
    <3>1. jobs \in Seq(Ids) /\ Len(jobs) \in Nat /\ ChanCap \in Nat
      BY PoolAssumption DEF TypeOK
    <3>2. Append(jobs, id) \in Seq(Ids) /\ Len(Append(jobs, id)) = Len(jobs) + 1
      BY <3>1
    <3>3. jobs' \in Seq(Ids) /\ Len(jobs') <= ChanCap
      BY <2>3, <3>1, <3>2 DEF PostEnqueue
    <3> QED BY <2>3, <3>3 DEF PostEnqueue, TypeOK, Busy, regVars, poolVars,
       workerVars, handlerVars, historyVars
  <2>4. ASSUME NEW id \in Ids, CancelRun(id)
         PROVE  TypeOK' /\ Busy'
    BY <2>4 DEF CancelRun, TypeOK, Busy, regVars, poolVars, workerVars,
       handlerVars, historyVars
  <2>5. ASSUME NEW c \in Cancelers, NEW id \in Ids, CancelLook(c, id)
         PROVE  TypeOK' /\ Busy'
    BY <2>5, PoolAssumption DEF CancelLook, TypeOK, Busy, regVars, poolVars,
       workerVars, handlerVars, historyVars
  <2>6. ASSUME NEW c \in Cancelers, CancelMark(c)
         PROVE  TypeOK' /\ Busy'
    <3>1. did[c] \in Ids
      BY <2>6, BusyHas DEF CancelMark
    <3>2. reg' \in [Ids -> Statuses \cup {"absent"}]
      BY <2>6, <3>1, UpdateType DEF CancelMark, Statuses, Terminal
    <3> QED BY <2>6, <3>2 DEF CancelMark, TypeOK, Busy, regVars, poolVars,
       workerVars, handlerVars, historyVars
  <2>7. ASSUME NEW c \in Cancelers, CancelAnnounce(c)
         PROVE  TypeOK' /\ Busy'
    BY <2>7 DEF CancelAnnounce, TypeOK, Busy, regVars, poolVars, workerVars,
       handlerVars, historyVars, Statuses, Terminal, Publish
  <2>8. ASSUME NEW c \in Cancelers, CancelFile(c)
         PROVE  TypeOK' /\ Busy'
    <3>1. did[c] \in Ids
      BY <2>8, BusyHas DEF CancelFile
    <3>2. /\ reg' \in [Ids -> Statuses \cup {"absent"}]
          /\ ring' \in Seq(Ids) /\ Len(ring') <= RingCap
      BY <2>8, <3>1, MarkFinishedType DEF CancelFile
    <3> QED BY <2>8, <3>2 DEF CancelFile, TypeOK, Busy, regVars, poolVars,
       workerVars, handlerVars, historyVars
  <2>9. ASSUME NEW w \in Workers, WorkerExit(w)
         PROVE  TypeOK' /\ Busy'
    BY <2>9 DEF WorkerExit, TypeOK, Busy, regVars, poolVars, workerVars,
       handlerVars, historyVars, Goto, PCs, BeforeBegin, BeforeUpdate, Running,
       AfterUpdate
  <2>10. ASSUME NEW w \in Workers, WorkerPick(w)
         PROVE  TypeOK' /\ Busy'
    <3>1. jobs \in Seq(Ids) /\ jobs # <<>> /\ Len(jobs) \in Nat /\ ChanCap \in Nat
      BY <2>10, PoolAssumption DEF TypeOK, WorkerPick
    <3>2. /\ Head(jobs) \in Ids /\ Head(jobs) # None
          /\ Tail(jobs) \in Seq(Ids) /\ Len(Tail(jobs)) = Len(jobs) - 1
      BY <3>1, PoolAssumption
    <3>3. /\ jobs' \in Seq(Ids) /\ Len(jobs') <= ChanCap
          /\ job' \in [Workers -> Ids \cup {None}]
      BY <2>10, <3>1, <3>2 DEF WorkerPick, TypeOK
    <3> QED BY <2>10, <3>2, <3>3 DEF WorkerPick, TypeOK, Busy, regVars,
       poolVars, workerVars, handlerVars, historyVars, Goto, PCs, BeforeBegin,
       BeforeUpdate, Running, AfterUpdate
  <2>11. ASSUME NEW w \in Workers, RunSkip(w)
         PROVE  TypeOK' /\ Busy'
    BY <2>11 DEF RunSkip, TypeOK, Busy, regVars, poolVars, workerVars,
       handlerVars, historyVars, Goto, PCs, BeforeBegin, BeforeUpdate, Running,
       AfterUpdate
  <2>12. ASSUME NEW w \in Workers, RunCheck(w)
         PROVE  TypeOK' /\ Busy'
    BY <2>12 DEF RunCheck, TypeOK, Busy, regVars, poolVars, workerVars,
       handlerVars, historyVars, Goto, PCs, BeforeBegin, BeforeUpdate, Running,
       AfterUpdate
  <2>13. ASSUME NEW w \in Workers, RunRegister(w)
         PROVE  TypeOK' /\ Busy'
    BY <2>13 DEF RunRegister, TypeOK, Busy, regVars, poolVars, workerVars,
       handlerVars, historyVars, Goto, PCs, BeforeBegin, BeforeUpdate, Running,
       AfterUpdate
  <2>14. ASSUME NEW w \in Workers, RunBegin(w)
         PROVE  TypeOK' /\ Busy'
    <3>1. job[w] \in Ids
      BY <2>14, BusyHas DEF RunBegin, Goto
    <3>2. reg' \in [Ids -> Statuses \cup {"absent"}]
      BY <2>14, <3>1, UpdateType DEF RunBegin, Statuses, Terminal
    <3> QED BY <2>14, <3>2 DEF RunBegin, TypeOK, Busy, regVars, poolVars,
       workerVars, handlerVars, historyVars, Goto, PCs, BeforeBegin,
       BeforeUpdate, Running, AfterUpdate
  <2>15. ASSUME NEW w \in Workers, RunAnnounce(w)
         PROVE  TypeOK' /\ Busy'
    BY <2>15 DEF RunAnnounce, TypeOK, Busy, regVars, poolVars, workerVars,
       handlerVars, historyVars, Goto, PCs, BeforeBegin, BeforeUpdate, Running,
       AfterUpdate, Statuses, Terminal, Publish
  <2>16. ASSUME NEW w \in Workers, LaunchFails(w)
         PROVE  TypeOK' /\ Busy'
    BY <2>16 DEF LaunchFails, TypeOK, Busy, regVars, poolVars, workerVars,
       handlerVars, historyVars, Goto, PCs, BeforeBegin, BeforeUpdate, Running,
       AfterUpdate, Terminal
  <2>17. ASSUME NEW w \in Workers, Launch(w)
         PROVE  TypeOK' /\ Busy'
    BY <2>17 DEF Launch, TypeOK, Busy, regVars, poolVars, workerVars,
       handlerVars, historyVars, Goto, PCs, BeforeBegin, BeforeUpdate, Running,
       AfterUpdate
  <2>18. ASSUME NEW w \in Workers, ProcExits(w)
         PROVE  TypeOK' /\ Busy'
    BY <2>18 DEF ProcExits, TypeOK, Busy, regVars, poolVars, workerVars,
       handlerVars, historyVars, Goto, PCs, BeforeBegin, BeforeUpdate, Running,
       AfterUpdate, Terminal
  <2>19. ASSUME NEW w \in Workers, ObserveExit(w)
         PROVE  TypeOK' /\ Busy'
    BY <2>19 DEF ObserveExit, TypeOK, Busy, regVars, poolVars, workerVars,
       handlerVars, historyVars, Goto, PCs, BeforeBegin, BeforeUpdate, Running,
       AfterUpdate
  <2>20. ASSUME NEW w \in Workers, ObserveCancel(w)
         PROVE  TypeOK' /\ Busy'
    <3>1. /\ pc' \in [Workers -> PCs]
          /\ \A v \in Workers :
               pc'[v] \in {"gone", "idle"} <=> pc[v] \in {"gone", "idle"}
      BY <2>20 DEF ObserveCancel, TypeOK, Goto, PCs, BeforeBegin, BeforeUpdate,
         Running, AfterUpdate
    <3>2. out' \in [Workers -> Terminal]
      BY <2>20 DEF ObserveCancel, TypeOK, Terminal
    <3> QED BY <2>20, <3>1, <3>2 DEF ObserveCancel, TypeOK, Busy, regVars,
       poolVars, workerVars, handlerVars, historyVars
  <2>21. ASSUME NEW w \in Workers, Killed(w)
         PROVE  TypeOK' /\ Busy'
    BY <2>21 DEF Killed, TypeOK, Busy, regVars, poolVars, workerVars,
       handlerVars, historyVars, Goto, PCs, BeforeBegin, BeforeUpdate, Running,
       AfterUpdate
  <2>22. ASSUME NEW w \in Workers, EndUpdate(w)
         PROVE  TypeOK' /\ Busy'
    <3>1. job[w] \in Ids /\ out[w] \in Statuses
      BY <2>22, BusyHas DEF EndUpdate, Goto, TypeOK, Statuses
    <3>2. reg' \in [Ids -> Statuses \cup {"absent"}]
      BY <2>22, <3>1, UpdateType DEF EndUpdate
    <3> QED BY <2>22, <3>2 DEF EndUpdate, TypeOK, Busy, regVars, poolVars,
       workerVars, handlerVars, historyVars, Goto, PCs, BeforeBegin,
       BeforeUpdate, Running, AfterUpdate
  <2>23. ASSUME NEW w \in Workers, EndAnnounce(w)
         PROVE  TypeOK' /\ Busy'
    BY <2>23 DEF EndAnnounce, TypeOK, Busy, regVars, poolVars, workerVars,
       handlerVars, historyVars, Goto, PCs, BeforeBegin, BeforeUpdate, Running,
       AfterUpdate, Statuses, Terminal, Publish
  <2>24. ASSUME NEW w \in Workers, EndFile(w)
         PROVE  TypeOK' /\ Busy'
    <3>1. job[w] \in Ids
      BY <2>24, BusyHas DEF EndFile, Goto
    <3>2. /\ reg' \in [Ids -> Statuses \cup {"absent"}]
          /\ ring' \in Seq(Ids) /\ Len(ring') <= RingCap
      BY <2>24, <3>1, MarkFinishedType DEF EndFile
    <3> QED BY <2>24, <3>2 DEF EndFile, TypeOK, Busy, regVars, poolVars,
       workerVars, handlerVars, historyVars, Goto, PCs, BeforeBegin,
       BeforeUpdate, Running, AfterUpdate
  <2>25. ASSUME NEW w \in Workers, EndRun(w)
         PROVE  TypeOK' /\ Busy'
    BY <2>25 DEF EndRun, TypeOK, Busy, regVars, poolVars, workerVars,
       handlerVars, historyVars, Goto, PCs, BeforeBegin, BeforeUpdate, Running,
       AfterUpdate, Terminal
  <2>26. ASSUME NEW n \in Sizes, ResizeBegin(n)
         PROVE  TypeOK' /\ Busy'
    BY <2>26 DEF ResizeBegin, TypeOK, Busy, regVars, poolVars, workerVars,
       handlerVars, historyVars
  <2>27. ASSUME ResizeEnd
         PROVE  TypeOK' /\ Busy'
    <3>1. /\ pc' \in [Workers -> PCs]
          /\ \A v \in Workers : pc'[v] \in {"gone", "idle"}
      BY <2>27 DEF ResizeEnd, PCs
    <3>2. \A v \in Workers : job[v] = None
      BY <2>27 DEF ResizeEnd, AllGone, Busy
    <3> QED BY <2>27, <3>1, <3>2 DEF ResizeEnd, TypeOK, Busy, regVars,
       poolVars, workerVars, handlerVars, historyVars
  <2>28. ASSUME Drain
         PROVE  TypeOK' /\ Busy'
    BY <2>28 DEF Drain, TypeOK, Busy, regVars, poolVars, workerVars,
       handlerVars, historyVars
  <2>29. ASSUME ShutdownBegin
         PROVE  TypeOK' /\ Busy'
    BY <2>29 DEF ShutdownBegin, TypeOK, Busy, regVars, poolVars, workerVars,
       handlerVars, historyVars
  <2>30. ASSUME ShutdownEnd
         PROVE  TypeOK' /\ Busy'
    BY <2>30 DEF ShutdownEnd, TypeOK, Busy, regVars, poolVars, workerVars,
       handlerVars, historyVars
  <2>31. ASSUME MainReturns
         PROVE  TypeOK' /\ Busy'
    BY <2>31 DEF MainReturns, TypeOK, Busy, regVars, poolVars, workerVars,
       handlerVars, historyVars
    <2> QED BY <1>2, <2>1, <2>2, <2>3, <2>4, <2>5, <2>6, <2>7, <2>8, <2>9,
       <2>10, <2>11, <2>12, <2>13, <2>14, <2>15, <2>16, <2>17, <2>18, <2>19,
       <2>20, <2>21, <2>22, <2>23, <2>24, <2>25, <2>26, <2>27, <2>28, <2>29,
       <2>30, <2>31 DEF Next, PostStep, CancelStep, LaunchStep, WaitStep, RunStep
  <1> QED BY <1>1, <1>2

LEMMA TypesAndBusy == Spec => [](TypeOK /\ Busy)
  <1>1. Init => TypeOK /\ Busy
    <2> SUFFICES ASSUME Init PROVE TypeOK /\ Busy
      OBVIOUS
    <2>1. /\ ring \in Seq(Ids) /\ Len(ring) <= RingCap
          /\ jobs \in Seq(Ids) /\ Len(jobs) <= ChanCap
      BY PoolAssumption DEF Init
    <2>2. /\ pc \in [Workers -> PCs] /\ \A w \in Workers : pc[w] \in {"gone", "idle"}
          /\ out \in [Workers -> Terminal]
      BY DEF Init, PCs, Terminal
    <2> QED BY <2>1, <2>2, PoolAssumption DEF Init, TypeOK, Busy
  <1>2. TypeOK /\ Busy /\ [Next]_vars => TypeOK' /\ Busy'
    BY TypeStep
  <1> QED BY <1>1, <1>2, PTL DEF Spec

\* The state of DownloadPool always has its types: Registry's ring never holds
\* more than its cap, the channel never more than its capacity.
THEOREM TypeCorrect == Spec => []TypeOK
  BY TypesAndBusy, PTL

(***************************************************************************)
(* JobsAccounted is inductive given the types: a status is written only by *)
(* whoever holds the job, or by a DELETE that makes it canceled.           *)
(***************************************************************************)

\* What Registry.update does to the statuses.
LEMMA UpdateEffect ==
  ASSUME TypeOK, NEW id \in Ids, NEW s, Update(id, s)
  PROVE  /\ \A k \in Ids : k # id => reg'[k] = reg[k]
         /\ reg[id] = "absent" => reg'[id] = "absent"
         /\ reg[id] # "absent" => reg'[id] = s
  BY DEF TypeOK, Update

\* What Registry.markFinished does to the statuses: at most one terminal job
\* is forgotten.
LEMMA MarkFinishedEffect ==
  ASSUME TypeOK, NEW id \in Ids, MarkFinished(id)
  PROVE  \/ reg' = reg
         \/ \E k \in Ids : reg[k] \in Terminal /\ reg' = [reg EXCEPT ![k] = "absent"]
  <1>1. CASE UNCHANGED reg
    BY <1>1
  <1>2. CASE /\ Len(ring) >= RingCap
             /\ reg' = [reg EXCEPT ![Head(ring)] = IF @ \in Terminal THEN "absent" ELSE @]
    <2>1. Head(ring) \in Ids
      BY <1>2, PoolAssumption DEF TypeOK
    <2>2. CASE reg[Head(ring)] \in Terminal
      BY <1>2, <2>1, <2>2
    <2>3. CASE reg[Head(ring)] \notin Terminal
      BY <1>2, <2>1, <2>3 DEF TypeOK
    <2> QED BY <2>2, <2>3
  <1> QED BY <1>1, <1>2 DEF MarkFinished, regVars

\* A step that gives no job the status queued or running, leaves the channel
\* and the POST handlers alone, and keeps every worker that holds a queued or
\* a running job where it can hold it.
LEMMA AccountedKept ==
  ASSUME JobsAccounted, UNCHANGED <<jobs, posting>>,
         \A id \in Ids : reg'[id] \in {"queued", "running"} => reg'[id] = reg[id],
         \A id \in Ids, w \in Workers :
           /\ reg'[id] = "queued" /\ HeldBy(id, w, BeforeBegin) =>
                 HeldBy(id, w, BeforeBegin)'
           /\ reg'[id] = "running" /\ HeldBy(id, w, BeforeUpdate) =>
                 HeldBy(id, w, BeforeUpdate)'
  PROVE  JobsAccounted'
  BY DEF JobsAccounted, Pending, InChan

LEMMA AccountedStep ==
  ASSUME TypeOK, Busy, JobsAccounted, [Next]_vars
  PROVE  JobsAccounted'
  <1>1. CASE UNCHANGED vars
    BY <1>1 DEF vars, regVars, poolVars, workerVars, handlerVars, historyVars,
       JobsAccounted, Pending, InChan, HeldBy
  <1>2. CASE Next
  <2>1. ASSUME NEW id \in Ids, PostAdd(id)
         PROVE  JobsAccounted'
    BY <2>1 DEF PostAdd, JobsAccounted, Pending, InChan, HeldBy, TypeOK,
       regVars, poolVars, workerVars, handlerVars, historyVars
  <2>2. ASSUME NEW id \in Ids, PostAnnounce(id)
         PROVE  JobsAccounted'
    BY <2>2 DEF PostAnnounce, JobsAccounted, Pending, InChan, HeldBy, TypeOK,
       regVars, poolVars, workerVars, handlerVars, historyVars
  <2>3. ASSUME NEW id \in Ids, PostEnqueue(id)
         PROVE  JobsAccounted'
    BY <2>3 DEF PostEnqueue, JobsAccounted, Pending, InChan, HeldBy, TypeOK,
       regVars, poolVars, workerVars, handlerVars, historyVars
  <2>4. ASSUME NEW id \in Ids, CancelRun(id)
         PROVE  JobsAccounted'
    BY <2>4 DEF CancelRun, JobsAccounted, Pending, InChan, HeldBy, TypeOK,
       regVars, poolVars, workerVars, handlerVars, historyVars
  <2>5. ASSUME NEW c \in Cancelers, NEW id \in Ids, CancelLook(c, id)
         PROVE  JobsAccounted'
    BY <2>5 DEF CancelLook, JobsAccounted, Pending, InChan, HeldBy, TypeOK,
       regVars, poolVars, workerVars, handlerVars, historyVars
  <2>6. ASSUME NEW c \in Cancelers, CancelMark(c)
         PROVE  JobsAccounted'
    <3>1. did[c] \in Ids
      BY <2>6, BusyHas DEF CancelMark
    <3>2. \A id \in Ids :
            reg'[id] \in {"queued", "running"} => reg'[id] = reg[id]
      BY <2>6, <3>1, UpdateEffect DEF CancelMark
    <3> QED BY <2>6, <3>2, AccountedKept DEF CancelMark, HeldBy,
       regVars, poolVars, workerVars, handlerVars, historyVars
  <2>7. ASSUME NEW c \in Cancelers, CancelAnnounce(c)
         PROVE  JobsAccounted'
    BY <2>7 DEF CancelAnnounce, JobsAccounted, Pending, InChan, HeldBy, TypeOK,
       regVars, poolVars, workerVars, handlerVars, historyVars
  <2>8. ASSUME NEW c \in Cancelers, CancelFile(c)
         PROVE  JobsAccounted'
    <3>1. did[c] \in Ids
      BY <2>8, BusyHas DEF CancelFile
    <3>2. \A id \in Ids :
            reg'[id] \in {"queued", "running"} => reg'[id] = reg[id]
      BY <2>8, <3>1, MarkFinishedEffect DEF CancelFile, TypeOK
    <3> QED BY <2>8, <3>2, AccountedKept DEF CancelFile, HeldBy,
       regVars, poolVars, workerVars, handlerVars, historyVars
  <2>9. ASSUME NEW w \in Workers, WorkerExit(w)
         PROVE  JobsAccounted'
    BY <2>9, AccountedKept DEF WorkerExit, HeldBy, TypeOK, Goto, BeforeBegin,
       BeforeUpdate, Running, AfterUpdate,
       regVars, poolVars, workerVars, handlerVars, historyVars
  <2>10. ASSUME NEW w \in Workers, WorkerPick(w)
         PROVE  JobsAccounted'
    <3>1. jobs \in Seq(Ids) /\ jobs # <<>> /\ Len(jobs) \in Nat
      BY <2>10 DEF TypeOK, WorkerPick
    <3>2. /\ Tail(jobs) \in Seq(Ids) /\ Len(Tail(jobs)) = Len(jobs) - 1
          /\ \A k \in 1..Len(Tail(jobs)) : Tail(jobs)[k] = jobs[k + 1]
          /\ Head(jobs) = jobs[1]
      BY <3>1
    <3>3. ASSUME NEW id \in Ids, InChan(id)
          PROVE  InChan(id)' \/ id = Head(jobs)
      <4>1. PICK k \in 1..Len(jobs) : jobs[k] = id
        BY <3>3 DEF InChan
      <4>2. CASE k = 1
        BY <3>2, <4>1, <4>2
      <4>3. CASE k # 1
        <5>1. k - 1 \in 1..Len(Tail(jobs)) /\ Tail(jobs)[k - 1] = id
          BY <3>1, <3>2, <4>1, <4>3
        <5> QED BY <2>10, <5>1 DEF InChan, WorkerPick
      <4> QED BY <4>2, <4>3
    <3>4. ASSUME NEW id \in Ids, NEW pcs, NEW v \in Workers, HeldBy(id, v,
       pcs), "idle" \notin pcs
          PROVE  HeldBy(id, v, pcs)'
      BY <2>10, <3>4 DEF WorkerPick, Goto, HeldBy, TypeOK
    <3>5. ASSUME NEW id \in Ids, id = Head(jobs)
          PROVE  HeldBy(id, w, BeforeBegin)'
      BY <2>10, <3>5 DEF WorkerPick, Goto, HeldBy, TypeOK, BeforeBegin
    <3>6. "idle" \notin BeforeBegin /\ "idle" \notin BeforeUpdate
      BY DEF BeforeBegin, BeforeUpdate, Running
    <3>7. reg' = reg /\ posting' = posting
      BY <2>10 DEF WorkerPick, regVars, handlerVars
    <3>8. ASSUME NEW id \in Ids, Pending(id)
          PROVE  Pending(id)'
      BY <3>3, <3>4, <3>5, <3>6, <3>7, <3>8 DEF Pending
    <3>9. ASSUME NEW id \in Ids, \E v \in Workers : HeldBy(id, v,
       BeforeUpdate)
          PROVE  \E v \in Workers : HeldBy(id, v, BeforeUpdate)'
      BY <3>4, <3>6, <3>9
    <3> QED BY <3>7, <3>8, <3>9 DEF JobsAccounted
  <2>11. ASSUME NEW w \in Workers, RunSkip(w)
         PROVE  JobsAccounted'
    BY <2>11, AccountedKept DEF RunSkip, HeldBy, TypeOK, Goto, BeforeBegin,
       BeforeUpdate, Running, AfterUpdate,
       regVars, poolVars, workerVars, handlerVars, historyVars
  <2>12. ASSUME NEW w \in Workers, RunCheck(w)
         PROVE  JobsAccounted'
    BY <2>12, AccountedKept DEF RunCheck, HeldBy, TypeOK, Goto, BeforeBegin,
       BeforeUpdate, Running, AfterUpdate,
       regVars, poolVars, workerVars, handlerVars, historyVars
  <2>13. ASSUME NEW w \in Workers, RunRegister(w)
         PROVE  JobsAccounted'
    BY <2>13, AccountedKept DEF RunRegister, HeldBy, TypeOK, Goto, BeforeBegin,
       BeforeUpdate, Running, AfterUpdate,
       regVars, poolVars, workerVars, handlerVars, historyVars
  <2>14. ASSUME NEW w \in Workers, RunBegin(w)
         PROVE  JobsAccounted'
    <3>1. job[w] \in Ids /\ pc[w] = "registered" /\ pc' = [pc EXCEPT ![w] = "begun"]
      BY <2>14, BusyHas DEF RunBegin, Goto
    <3>2. /\ \A k \in Ids : k # job[w] => reg'[k] = reg[k]
          /\ reg'[job[w]] \in {"absent", "running"}
      BY <2>14, <3>1, UpdateEffect DEF RunBegin
    <3>3. UNCHANGED <<jobs, posting, job>>
      BY <2>14 DEF RunBegin, poolVars, handlerVars
    <3>4. ASSUME NEW id \in Ids, reg'[id] = "queued"
          PROVE  Pending(id)'
      <4>1. id # job[w] /\ Pending(id)
        BY <3>2, <3>4 DEF JobsAccounted
      <4>2. \A v \in Workers : HeldBy(id, v, BeforeBegin) => HeldBy(id, v,
         BeforeBegin)'
        BY <3>1, <3>3, <4>1 DEF HeldBy, TypeOK
      <4> QED BY <3>3, <4>1, <4>2 DEF Pending, InChan
    <3>5. ASSUME NEW id \in Ids, reg'[id] = "running"
          PROVE  \E v \in Workers : HeldBy(id, v, BeforeUpdate)'
      <4>1. CASE id = job[w]
        <5>1. HeldBy(id, w, BeforeUpdate)'
          BY <3>1, <3>3, <4>1 DEF HeldBy, BeforeUpdate, Running, TypeOK
        <5> QED BY <5>1
      <4>2. CASE id # job[w]
        <5>1. PICK v \in Workers : HeldBy(id, v, BeforeUpdate)
          BY <3>2, <3>5, <4>2 DEF JobsAccounted
        <5>2. HeldBy(id, v, BeforeUpdate)'
          BY <3>1, <3>3, <4>2, <5>1 DEF HeldBy, TypeOK
        <5> QED BY <5>2
      <4> QED BY <4>1, <4>2
    <3> QED BY <3>4, <3>5 DEF JobsAccounted
  <2>15. ASSUME NEW w \in Workers, RunAnnounce(w)
         PROVE  JobsAccounted'
    BY <2>15, AccountedKept DEF RunAnnounce, HeldBy, TypeOK, Goto, BeforeBegin,
       BeforeUpdate, Running, AfterUpdate,
       regVars, poolVars, workerVars, handlerVars, historyVars
  <2>16. ASSUME NEW w \in Workers, LaunchFails(w)
         PROVE  JobsAccounted'
    BY <2>16, AccountedKept DEF LaunchFails, HeldBy, TypeOK, Goto, BeforeBegin,
       BeforeUpdate, Running, AfterUpdate,
       regVars, poolVars, workerVars, handlerVars, historyVars
  <2>17. ASSUME NEW w \in Workers, Launch(w)
         PROVE  JobsAccounted'
    BY <2>17, AccountedKept DEF Launch, HeldBy, TypeOK, Goto, BeforeBegin,
       BeforeUpdate, Running, AfterUpdate,
       regVars, poolVars, workerVars, handlerVars, historyVars
  <2>18. ASSUME NEW w \in Workers, ProcExits(w)
         PROVE  JobsAccounted'
    BY <2>18, AccountedKept DEF ProcExits, HeldBy, TypeOK, Goto, BeforeBegin,
       BeforeUpdate, Running, AfterUpdate,
       regVars, poolVars, workerVars, handlerVars, historyVars
  <2>19. ASSUME NEW w \in Workers, ObserveExit(w)
         PROVE  JobsAccounted'
    BY <2>19, AccountedKept DEF ObserveExit, HeldBy, TypeOK, Goto, BeforeBegin,
       BeforeUpdate, Running, AfterUpdate,
       regVars, poolVars, workerVars, handlerVars, historyVars
  <2>20. ASSUME NEW w \in Workers, ObserveCancel(w)
         PROVE  JobsAccounted'
    BY <2>20, AccountedKept DEF ObserveCancel, HeldBy, TypeOK, Goto,
       BeforeBegin, BeforeUpdate, Running, AfterUpdate,
       regVars, poolVars, workerVars, handlerVars, historyVars
  <2>21. ASSUME NEW w \in Workers, Killed(w)
         PROVE  JobsAccounted'
    BY <2>21, AccountedKept DEF Killed, HeldBy, TypeOK, Goto, BeforeBegin,
       BeforeUpdate, Running, AfterUpdate,
       regVars, poolVars, workerVars, handlerVars, historyVars
  <2>22. ASSUME NEW w \in Workers, EndUpdate(w)
         PROVE  JobsAccounted'
    <3>1. /\ job[w] \in Ids /\ out[w] \in Terminal
          /\ pc[w] = "ending" /\ pc' = [pc EXCEPT ![w] = "updated"]
      BY <2>22, BusyHas DEF EndUpdate, Goto, TypeOK
    <3>2. /\ \A k \in Ids : k # job[w] => reg'[k] = reg[k]
          /\ reg'[job[w]] \notin {"queued", "running"}
      BY <2>22, <3>1, UpdateEffect DEF EndUpdate, Terminal
    <3>3. UNCHANGED <<jobs, posting, job>>
      BY <2>22 DEF EndUpdate, poolVars, handlerVars
    <3>4. \A id \in Ids, v \in Workers :
            /\ reg'[id] = "queued" /\ HeldBy(id, v, BeforeBegin) => HeldBy(id,
               v, BeforeBegin)'
            /\ reg'[id] = "running" /\ HeldBy(id, v,
               BeforeUpdate) => HeldBy(id, v, BeforeUpdate)'
      BY <3>1, <3>2, <3>3 DEF HeldBy, TypeOK
    <3> QED BY <3>2, <3>3, <3>4, AccountedKept
  <2>23. ASSUME NEW w \in Workers, EndAnnounce(w)
         PROVE  JobsAccounted'
    BY <2>23, AccountedKept DEF EndAnnounce, HeldBy, TypeOK, Goto, BeforeBegin,
       BeforeUpdate, Running, AfterUpdate,
       regVars, poolVars, workerVars, handlerVars, historyVars
  <2>24. ASSUME NEW w \in Workers, EndFile(w)
         PROVE  JobsAccounted'
    <3>1. job[w] \in Ids
      BY <2>24, BusyHas DEF EndFile, Goto
    <3>2. \A id \in Ids :
            reg'[id] \in {"queued", "running"} => reg'[id] = reg[id]
      BY <2>24, <3>1, MarkFinishedEffect DEF EndFile, TypeOK
    <3> QED BY <2>24, <3>2, AccountedKept DEF EndFile, HeldBy, TypeOK,
       Goto, BeforeBegin, BeforeUpdate, Running, AfterUpdate,
       regVars, poolVars, workerVars, handlerVars, historyVars
  <2>25. ASSUME NEW w \in Workers, EndRun(w)
         PROVE  JobsAccounted'
    BY <2>25, AccountedKept DEF EndRun, HeldBy, TypeOK, Goto, BeforeBegin,
       BeforeUpdate, Running, AfterUpdate,
       regVars, poolVars, workerVars, handlerVars, historyVars
  <2>26. ASSUME NEW n \in Sizes, ResizeBegin(n)
         PROVE  JobsAccounted'
    BY <2>26 DEF ResizeBegin, JobsAccounted, Pending, InChan, HeldBy, TypeOK,
       regVars, poolVars, workerVars, handlerVars, historyVars
  <2>27. ASSUME ResizeEnd
         PROVE  JobsAccounted'
    <3>1. \A id \in Ids, w \in Workers :
            ~HeldBy(id, w, BeforeBegin) /\ ~HeldBy(id, w, BeforeUpdate)
      BY <2>27 DEF ResizeEnd, AllGone, HeldBy, BeforeBegin, BeforeUpdate,
         Running
    <3> QED BY <2>27, <3>1, AccountedKept DEF ResizeEnd, regVars, poolVars,
       workerVars, handlerVars, historyVars
  <2>28. ASSUME Drain
         PROVE  JobsAccounted'
    BY <2>28 DEF Drain, JobsAccounted, Pending, InChan, HeldBy, TypeOK,
       regVars, poolVars, workerVars, handlerVars, historyVars
  <2>29. ASSUME ShutdownBegin
         PROVE  JobsAccounted'
    BY <2>29 DEF ShutdownBegin, JobsAccounted, Pending, InChan, HeldBy, TypeOK,
       regVars, poolVars, workerVars, handlerVars, historyVars
  <2>30. ASSUME ShutdownEnd
         PROVE  JobsAccounted'
    BY <2>30 DEF ShutdownEnd, JobsAccounted, Pending, InChan, HeldBy, TypeOK,
       regVars, poolVars, workerVars, handlerVars, historyVars
  <2>31. ASSUME MainReturns
         PROVE  JobsAccounted'
    BY <2>31 DEF MainReturns, JobsAccounted, Pending, InChan, HeldBy, TypeOK,
       regVars, poolVars, workerVars, handlerVars, historyVars
  <2> QED BY <1>2, <2>1, <2>2, <2>3, <2>4, <2>5, <2>6, <2>7, <2>8, <2>9, <2>10,
     <2>11, <2>12, <2>13, <2>14, <2>15, <2>16, <2>17, <2>18, <2>19, <2>20,
     <2>21, <2>22, <2>23, <2>24, <2>25, <2>26, <2>27, <2>28, <2>29,
     <2>30, <2>31 DEF Next, PostStep, CancelStep, LaunchStep, WaitStep, RunStep
  <1> QED BY <1>1, <1>2

\* No job is stranded between the registry, the channel and the workers.
THEOREM NoJobStranded == Spec => []JobsAccounted
  <1>1. Init => JobsAccounted
    BY DEF Init, JobsAccounted
  <1>2. TypeOK /\ Busy /\ JobsAccounted /\ [Next]_vars => JobsAccounted'
    BY AccountedStep
  <1> QED BY <1>1, <1>2, TypesAndBusy, PTL DEF Spec

(***************************************************************************)
(* NoTerminalLeak is inductive given the types: markFinished puts into the *)
(* ring what it leaves in the registry, and forgets what it rotates out.   *)
(***************************************************************************)

LEMMA MarkFinishedRing ==
  ASSUME TypeOK, NEW id \in Ids, MarkFinished(id)
  PROVE  /\ reg'[id] \in Terminal => InRing(id)'
         /\ \A k \in Ids : reg'[k] \in Terminal => reg'[k] = reg[k]
         /\ \A k \in Ids : InRing(k) /\ reg'[k] \in Terminal => InRing(k)'
  <1>0. /\ ring \in Seq(Ids) /\ Len(ring) \in Nat /\ Len(ring) <= RingCap
        /\ RingCap \in Nat \ {0}
        /\ reg \in [Ids -> Statuses \cup {"absent"}]
        /\ "absent" \notin Terminal
    BY PoolAssumption DEF TypeOK, Terminal
  <1>1. CASE reg[id] = "absent" /\ UNCHANGED regVars
    BY <1>0, <1>1 DEF regVars, InRing
  <1>2. CASE /\ Len(ring) < RingCap
             /\ ring' = Append(ring, id)
             /\ UNCHANGED reg
    <2>1. /\ Len(ring') = Len(ring) + 1
          /\ ring'[Len(ring) + 1] = id
          /\ \A i \in 1..Len(ring) : ring'[i] = ring[i]
      BY <1>0, <1>2
    <2>2. InRing(id)'
      BY <1>0, <2>1 DEF InRing
    <2>3. \A k \in Ids : InRing(k) => InRing(k)'
      BY <1>0, <2>1 DEF InRing
    <2> QED BY <1>2, <2>2, <2>3
  <1>3. CASE /\ Len(ring) >= RingCap
             /\ ring' = Tail(Append(ring, id))
             /\ reg' = [reg EXCEPT ![Head(ring)] = IF @ \in Terminal THEN "absent" ELSE @]
    <2>1. /\ Len(ring') = Len(ring) /\ Len(ring) >= 1
          /\ ring'[Len(ring)] = id
          /\ \A i \in 2..Len(ring) : ring'[i - 1] = ring[i]
          /\ Head(ring) = ring[1] /\ Head(ring) \in Ids
      <3>1. /\ Append(ring, id) \in Seq(Ids) /\ Append(ring, id) # <<>>
            /\ Len(Append(ring, id)) = Len(ring) + 1
            /\ Append(ring, id)[Len(ring) + 1] = id
            /\ \A i \in 1..Len(ring) : Append(ring, id)[i] = ring[i]
        BY <1>0
      <3>2. /\ Len(ring') = Len(ring)
            /\ \A i \in 1..Len(ring) : ring'[i] = Append(ring, id)[i + 1]
        BY <1>0, <1>3, <3>1
      <3>3. Len(ring) >= 1 /\ ring # <<>>
        BY <1>0, <1>3
      <3>4. Head(ring) = ring[1] /\ Head(ring) \in Ids
        BY <1>0, <3>3
      <3>5. ring'[Len(ring)] = id
        BY <1>0, <3>1, <3>2, <3>3
      <3>6. ASSUME NEW i \in 2..Len(ring)
            PROVE  ring'[i - 1] = ring[i]
        <4>1. i - 1 \in 1..Len(ring) /\ i \in 1..Len(ring) /\ (i - 1) + 1 = i
          BY <1>0
        <4> QED BY <3>1, <3>2, <4>1
      <3> QED BY <3>2, <3>3, <3>4, <3>5, <3>6
    <2>2. InRing(id)'
      BY <1>0, <2>1 DEF InRing
    <2>3. \A k \in Ids : reg'[k] \in Terminal => reg'[k] = reg[k] /\ k # Head(ring)
      BY <1>0, <1>3, <2>1
    <2>4. ASSUME NEW k \in Ids, InRing(k), k # ring[1]
          PROVE  InRing(k)'
      <3>1. PICK i \in 1..Len(ring) : ring[i] = k
        BY <2>4 DEF InRing
      <3>2. i \in 2..Len(ring) /\ i - 1 \in 1..Len(ring')
        BY <1>0, <2>1, <2>4, <3>1
      <3> QED BY <2>1, <3>1, <3>2 DEF InRing
    <2> QED BY <2>1, <2>2, <2>3, <2>4
  <1> QED BY <1>1, <1>2, <1>3 DEF MarkFinished

\* Who is about to call markFinished for an id.
Filing(id) ==
  \/ \E w \in Workers : HeldBy(id, w, {"updated", "told"})
  \/ \E c \in Cancelers : did[c] = id /\ dpc[c] \in {"marked", "told"}

\* A step that makes no job terminal, leaves the ring alone and keeps those
\* who are about to file a job.
LEMMA LeakKept ==
  ASSUME NoTerminalLeak, UNCHANGED ring,
         \A id \in Ids : reg'[id] \in Terminal => reg[id] \in Terminal,
         \A id \in Ids, w \in Workers :
           HeldBy(id, w, {"updated", "told"}) =>
                 HeldBy(id, w, {"updated", "told"})',
         \A c \in Cancelers : dpc[c] \in {"marked", "told"} =>
           dpc'[c] \in {"marked", "told"} /\ did'[c] = did[c]
  PROVE  NoTerminalLeak'
  BY DEF NoTerminalLeak, InRing

LEMMA LeakStep ==
  ASSUME TypeOK, Busy, NoTerminalLeak, [Next]_vars
  PROVE  NoTerminalLeak'
  <1>1. CASE UNCHANGED vars
    BY <1>1, LeakKept DEF vars, regVars, poolVars, workerVars, handlerVars,
       historyVars, HeldBy
  <1>2. CASE Next
  <2>1. ASSUME NEW id \in Ids, PostAdd(id)
         PROVE  NoTerminalLeak'
    BY <2>1, LeakKept DEF PostAdd, HeldBy, TypeOK, Terminal,
       regVars, poolVars, workerVars, handlerVars, historyVars
  <2>2. ASSUME NEW id \in Ids, PostAnnounce(id)
         PROVE  NoTerminalLeak'
    BY <2>2, LeakKept DEF PostAnnounce, HeldBy, TypeOK,
       regVars, poolVars, workerVars, handlerVars, historyVars
  <2>3. ASSUME NEW id \in Ids, PostEnqueue(id)
         PROVE  NoTerminalLeak'
    BY <2>3, LeakKept DEF PostEnqueue, HeldBy, TypeOK,
       regVars, poolVars, workerVars, handlerVars, historyVars
  <2>4. ASSUME NEW id \in Ids, CancelRun(id)
         PROVE  NoTerminalLeak'
    BY <2>4, LeakKept DEF CancelRun, HeldBy, TypeOK,
       regVars, poolVars, workerVars, handlerVars, historyVars
  <2>5. ASSUME NEW c \in Cancelers, NEW id \in Ids, CancelLook(c, id)
         PROVE  NoTerminalLeak'
    BY <2>5, LeakKept DEF CancelLook, HeldBy, TypeOK,
       regVars, poolVars, workerVars, handlerVars, historyVars
  <2>6. ASSUME NEW c \in Cancelers, CancelMark(c)
         PROVE  NoTerminalLeak'
    <3>1. did[c] \in Ids
      BY <2>6, BusyHas DEF CancelMark
    <3>2. /\ \A k \in Ids : k # did[c] => reg'[k] = reg[k]
          /\ dpc' = [dpc EXCEPT ![c] = "marked"] /\ UNCHANGED <<did, ring,
             workerVars>>
      BY <2>6, <3>1, UpdateEffect DEF CancelMark
    <3>3. dpc'[c] \in {"marked", "told"} /\ did'[c] = did[c]
      BY <3>2 DEF TypeOK
    <3>4. \A d \in Cancelers : dpc[d] \in {"marked", "told"} =>
            dpc'[d] \in {"marked", "told"} /\ did'[d] = did[d]
      BY <3>2 DEF TypeOK
    <3> QED BY <3>2, <3>3, <3>4 DEF NoTerminalLeak, InRing, HeldBy, workerVars
  <2>7. ASSUME NEW c \in Cancelers, CancelAnnounce(c)
         PROVE  NoTerminalLeak'
    BY <2>7, LeakKept DEF CancelAnnounce, HeldBy, TypeOK,
       regVars, poolVars, workerVars, handlerVars, historyVars
  <2>8. ASSUME NEW c \in Cancelers, CancelFile(c)
         PROVE  NoTerminalLeak'
    <3>1. PICK id \in Ids : id = did[c] /\ MarkFinished(id)
      BY <2>8, BusyHas DEF CancelFile
    <3>2. /\ reg'[id] \in Terminal => InRing(id)'
          /\ \A k \in Ids : reg'[k] \in Terminal => reg'[k] = reg[k]
          /\ \A k \in Ids : InRing(k) /\ reg'[k] \in Terminal => InRing(k)'
      BY <3>1, MarkFinishedRing
    <3>3. \A k \in Ids : k # id /\ Filing(k) => Filing(k)'
      BY <2>8, <3>1 DEF CancelFile, Filing, HeldBy, TypeOK, workerVars,
         handlerVars
    <3>4. ASSUME NEW k \in Ids, reg'[k] \in Terminal
          PROVE  InRing(k)' \/ Filing(k)'
      BY <3>2, <3>3, <3>4 DEF NoTerminalLeak, Filing
    <3> QED BY <3>4 DEF NoTerminalLeak, Filing
  <2>9. ASSUME NEW w \in Workers, WorkerExit(w)
         PROVE  NoTerminalLeak'
    BY <2>9, LeakKept DEF WorkerExit, HeldBy, TypeOK, Goto,
       regVars, poolVars, workerVars, handlerVars, historyVars
  <2>10. ASSUME NEW w \in Workers, WorkerPick(w)
         PROVE  NoTerminalLeak'
    BY <2>10, LeakKept DEF WorkerPick, HeldBy, TypeOK, Goto,
       regVars, poolVars, workerVars, handlerVars, historyVars
  <2>11. ASSUME NEW w \in Workers, RunSkip(w)
         PROVE  NoTerminalLeak'
    BY <2>11, LeakKept DEF RunSkip, HeldBy, TypeOK, Goto,
       regVars, poolVars, workerVars, handlerVars, historyVars
  <2>12. ASSUME NEW w \in Workers, RunCheck(w)
         PROVE  NoTerminalLeak'
    BY <2>12, LeakKept DEF RunCheck, HeldBy, TypeOK, Goto,
       regVars, poolVars, workerVars, handlerVars, historyVars
  <2>13. ASSUME NEW w \in Workers, RunRegister(w)
         PROVE  NoTerminalLeak'
    BY <2>13, LeakKept DEF RunRegister, HeldBy, TypeOK, Goto,
       regVars, poolVars, workerVars, handlerVars, historyVars
  <2>14. ASSUME NEW w \in Workers, RunBegin(w)
         PROVE  NoTerminalLeak'
    <3>1. job[w] \in Ids
      BY <2>14, BusyHas DEF RunBegin, Goto
    <3>2. \A id \in Ids : reg'[id] \in Terminal => reg[id] \in Terminal
      BY <2>14, <3>1, UpdateEffect DEF RunBegin, Terminal
    <3> QED BY <2>14, <3>2, LeakKept DEF RunBegin, HeldBy, TypeOK, Goto,
       regVars, poolVars, workerVars, handlerVars, historyVars
  <2>15. ASSUME NEW w \in Workers, RunAnnounce(w)
         PROVE  NoTerminalLeak'
    BY <2>15, LeakKept DEF RunAnnounce, HeldBy, TypeOK, Goto,
       regVars, poolVars, workerVars, handlerVars, historyVars
  <2>16. ASSUME NEW w \in Workers, LaunchFails(w)
         PROVE  NoTerminalLeak'
    BY <2>16, LeakKept DEF LaunchFails, HeldBy, TypeOK, Goto,
       regVars, poolVars, workerVars, handlerVars, historyVars
  <2>17. ASSUME NEW w \in Workers, Launch(w)
         PROVE  NoTerminalLeak'
    BY <2>17, LeakKept DEF Launch, HeldBy, TypeOK, Goto,
       regVars, poolVars, workerVars, handlerVars, historyVars
  <2>18. ASSUME NEW w \in Workers, ProcExits(w)
         PROVE  NoTerminalLeak'
    BY <2>18, LeakKept DEF ProcExits, HeldBy, TypeOK, Goto,
       regVars, poolVars, workerVars, handlerVars, historyVars
  <2>19. ASSUME NEW w \in Workers, ObserveExit(w)
         PROVE  NoTerminalLeak'
    BY <2>19, LeakKept DEF ObserveExit, HeldBy, TypeOK, Goto,
       regVars, poolVars, workerVars, handlerVars, historyVars
  <2>20. ASSUME NEW w \in Workers, ObserveCancel(w)
         PROVE  NoTerminalLeak'
    BY <2>20, LeakKept DEF ObserveCancel, HeldBy, TypeOK, Goto,
       regVars, poolVars, workerVars, handlerVars, historyVars
  <2>21. ASSUME NEW w \in Workers, Killed(w)
         PROVE  NoTerminalLeak'
    BY <2>21, LeakKept DEF Killed, HeldBy, TypeOK, Goto,
       regVars, poolVars, workerVars, handlerVars, historyVars
  <2>22. ASSUME NEW w \in Workers, EndUpdate(w)
         PROVE  NoTerminalLeak'
    <3>1. job[w] \in Ids /\ pc[w] = "ending" /\ pc' = [pc EXCEPT ![w] = "updated"]
      BY <2>22, BusyHas DEF EndUpdate, Goto
    <3>2. /\ \A k \in Ids : k # job[w] => reg'[k] = reg[k]
          /\ UNCHANGED <<ring, job, did, dpc>>
      BY <2>22, <3>1, UpdateEffect DEF EndUpdate, handlerVars
    <3>3. HeldBy(job[w], w, {"updated", "told"})'
      BY <3>1, <3>2 DEF HeldBy, TypeOK
    <3>4. \A id \in Ids, v \in Workers :
            HeldBy(id, v, {"updated", "told"}) => HeldBy(id, v, {"updated", "told"})'
      BY <3>1, <3>2 DEF HeldBy, TypeOK
    <3>5. ASSUME NEW id \in Ids, reg'[id] \in Terminal
          PROVE  InRing(id)' \/ Filing(id)'
      <4>1. CASE id = job[w]
        BY <3>2, <3>1, <4>1 DEF Filing, HeldBy, TypeOK
      <4>2. CASE id # job[w]
        BY <3>2, <3>4, <3>5, <4>2 DEF NoTerminalLeak, InRing, Filing
      <4> QED BY <4>1, <4>2
    <3> QED BY <3>5 DEF NoTerminalLeak, Filing
  <2>23. ASSUME NEW w \in Workers, EndAnnounce(w)
         PROVE  NoTerminalLeak'
    BY <2>23, LeakKept DEF EndAnnounce, HeldBy, TypeOK, Goto,
       regVars, poolVars, workerVars, handlerVars, historyVars
  <2>24. ASSUME NEW w \in Workers, EndFile(w)
         PROVE  NoTerminalLeak'
    <3>1. PICK id \in Ids : id = job[w] /\ MarkFinished(id)
      BY <2>24, BusyHas DEF EndFile, Goto
    <3>2. /\ reg'[id] \in Terminal => InRing(id)'
          /\ \A k \in Ids : reg'[k] \in Terminal => reg'[k] = reg[k]
          /\ \A k \in Ids : InRing(k) /\ reg'[k] \in Terminal => InRing(k)'
      BY <3>1, MarkFinishedRing
    <3>3. \A k \in Ids : k # id /\ Filing(k) => Filing(k)'
      BY <2>24, <3>1 DEF EndFile, Goto, Filing, HeldBy, TypeOK, workerVars,
         handlerVars
    <3>4. ASSUME NEW k \in Ids, reg'[k] \in Terminal
          PROVE  InRing(k)' \/ Filing(k)'
      BY <3>2, <3>3, <3>4 DEF NoTerminalLeak, Filing
    <3> QED BY <3>4 DEF NoTerminalLeak, Filing
  <2>25. ASSUME NEW w \in Workers, EndRun(w)
         PROVE  NoTerminalLeak'
    BY <2>25, LeakKept DEF EndRun, HeldBy, TypeOK, Goto,
       regVars, poolVars, workerVars, handlerVars, historyVars
  <2>26. ASSUME NEW n \in Sizes, ResizeBegin(n)
         PROVE  NoTerminalLeak'
    BY <2>26, LeakKept DEF ResizeBegin, HeldBy, TypeOK,
       regVars, poolVars, workerVars, handlerVars, historyVars
  <2>27. ASSUME ResizeEnd
         PROVE  NoTerminalLeak'
    <3>1. \A id \in Ids, w \in Workers : ~HeldBy(id, w, {"updated", "told"})
      BY <2>27 DEF ResizeEnd, AllGone, HeldBy
    <3> QED BY <2>27, <3>1, LeakKept DEF ResizeEnd, regVars, poolVars,
       workerVars, handlerVars, historyVars
  <2>28. ASSUME Drain
         PROVE  NoTerminalLeak'
    BY <2>28, LeakKept DEF Drain, HeldBy, TypeOK,
       regVars, poolVars, workerVars, handlerVars, historyVars
  <2>29. ASSUME ShutdownBegin
         PROVE  NoTerminalLeak'
    BY <2>29, LeakKept DEF ShutdownBegin, HeldBy, TypeOK,
       regVars, poolVars, workerVars, handlerVars, historyVars
  <2>30. ASSUME ShutdownEnd
         PROVE  NoTerminalLeak'
    BY <2>30, LeakKept DEF ShutdownEnd, HeldBy, TypeOK,
       regVars, poolVars, workerVars, handlerVars, historyVars
  <2>31. ASSUME MainReturns
         PROVE  NoTerminalLeak'
    BY <2>31, LeakKept DEF MainReturns, HeldBy, TypeOK,
       regVars, poolVars, workerVars, handlerVars, historyVars
  <2> QED BY <1>2, <2>1, <2>2, <2>3, <2>4, <2>5, <2>6, <2>7, <2>8, <2>9, <2>10,
     <2>11, <2>12, <2>13, <2>14, <2>15, <2>16, <2>17, <2>18, <2>19, <2>20,
     <2>21, <2>22, <2>23, <2>24, <2>25, <2>26, <2>27, <2>28, <2>29,
     <2>30, <2>31 DEF Next, PostStep, CancelStep, LaunchStep, WaitStep, RunStep
  <1> QED BY <1>1, <1>2

\* The registry does not leak finished jobs: every terminal entry is in the
\* ring or about to enter it.
THEOREM NoLeak == Spec => []NoTerminalLeak
  <1>1. Init => NoTerminalLeak
    BY DEF Init, NoTerminalLeak, Terminal
  <1>2. TypeOK /\ Busy /\ NoTerminalLeak /\ [Next]_vars => NoTerminalLeak'
    BY LeakStep
  <1> QED BY <1>1, <1>2, TypesAndBusy, PTL DEF Spec

(***************************************************************************)
(* ParallelLimit: only the first Pool.maxParallel slots ever hold a worker, *)
(* because resize starts new ones after the last old one is gone.          *)
(***************************************************************************)

SlotsInv == \A w \in Workers : pc[w] # "gone" => w <= size

LEMMA SlotsStep ==
  ASSUME TypeOK, SlotsInv, [Next]_vars
  PROVE  SlotsInv'
  <1>1. CASE UNCHANGED vars
    BY <1>1 DEF vars, poolVars, workerVars, SlotsInv
  <1>2. CASE Next
  <2>1. ASSUME NEW id \in Ids, PostAdd(id)
         PROVE  SlotsInv'
    BY <2>1 DEF PostAdd, SlotsInv, TypeOK,
       poolVars, workerVars
  <2>2. ASSUME NEW id \in Ids, PostAnnounce(id)
         PROVE  SlotsInv'
    BY <2>2 DEF PostAnnounce, SlotsInv, TypeOK,
       poolVars, workerVars
  <2>3. ASSUME NEW id \in Ids, PostEnqueue(id)
         PROVE  SlotsInv'
    BY <2>3 DEF PostEnqueue, SlotsInv, TypeOK,
       poolVars, workerVars
  <2>4. ASSUME NEW id \in Ids, CancelRun(id)
         PROVE  SlotsInv'
    BY <2>4 DEF CancelRun, SlotsInv, TypeOK,
       poolVars, workerVars
  <2>5. ASSUME NEW c \in Cancelers, NEW id \in Ids, CancelLook(c, id)
         PROVE  SlotsInv'
    BY <2>5 DEF CancelLook, SlotsInv, TypeOK,
       poolVars, workerVars
  <2>6. ASSUME NEW c \in Cancelers, CancelMark(c)
         PROVE  SlotsInv'
    BY <2>6 DEF CancelMark, SlotsInv, TypeOK,
       poolVars, workerVars
  <2>7. ASSUME NEW c \in Cancelers, CancelAnnounce(c)
         PROVE  SlotsInv'
    BY <2>7 DEF CancelAnnounce, SlotsInv, TypeOK,
       poolVars, workerVars
  <2>8. ASSUME NEW c \in Cancelers, CancelFile(c)
         PROVE  SlotsInv'
    BY <2>8 DEF CancelFile, SlotsInv, TypeOK,
       poolVars, workerVars
  <2>9. ASSUME NEW w \in Workers, WorkerExit(w)
         PROVE  SlotsInv'
    BY <2>9 DEF WorkerExit, Goto, SlotsInv, TypeOK,
       poolVars, workerVars
  <2>10. ASSUME NEW w \in Workers, WorkerPick(w)
         PROVE  SlotsInv'
    BY <2>10 DEF WorkerPick, Goto, SlotsInv, TypeOK,
       poolVars, workerVars
  <2>11. ASSUME NEW w \in Workers, RunSkip(w)
         PROVE  SlotsInv'
    BY <2>11 DEF RunSkip, Goto, SlotsInv, TypeOK,
       poolVars, workerVars
  <2>12. ASSUME NEW w \in Workers, RunCheck(w)
         PROVE  SlotsInv'
    BY <2>12 DEF RunCheck, Goto, SlotsInv, TypeOK,
       poolVars, workerVars
  <2>13. ASSUME NEW w \in Workers, RunRegister(w)
         PROVE  SlotsInv'
    BY <2>13 DEF RunRegister, Goto, SlotsInv, TypeOK,
       poolVars, workerVars
  <2>14. ASSUME NEW w \in Workers, RunBegin(w)
         PROVE  SlotsInv'
    BY <2>14 DEF RunBegin, Goto, SlotsInv, TypeOK,
       poolVars, workerVars
  <2>15. ASSUME NEW w \in Workers, RunAnnounce(w)
         PROVE  SlotsInv'
    BY <2>15 DEF RunAnnounce, Goto, SlotsInv, TypeOK,
       poolVars, workerVars
  <2>16. ASSUME NEW w \in Workers, LaunchFails(w)
         PROVE  SlotsInv'
    BY <2>16 DEF LaunchFails, Goto, SlotsInv, TypeOK,
       poolVars, workerVars
  <2>17. ASSUME NEW w \in Workers, Launch(w)
         PROVE  SlotsInv'
    BY <2>17 DEF Launch, Goto, SlotsInv, TypeOK,
       poolVars, workerVars
  <2>18. ASSUME NEW w \in Workers, ProcExits(w)
         PROVE  SlotsInv'
    BY <2>18 DEF ProcExits, Goto, SlotsInv, TypeOK,
       poolVars, workerVars
  <2>19. ASSUME NEW w \in Workers, ObserveExit(w)
         PROVE  SlotsInv'
    BY <2>19 DEF ObserveExit, Goto, SlotsInv, TypeOK,
       poolVars, workerVars
  <2>20. ASSUME NEW w \in Workers, ObserveCancel(w)
         PROVE  SlotsInv'
    BY <2>20 DEF ObserveCancel, Goto, SlotsInv, TypeOK,
       poolVars, workerVars
  <2>21. ASSUME NEW w \in Workers, Killed(w)
         PROVE  SlotsInv'
    BY <2>21 DEF Killed, Goto, SlotsInv, TypeOK,
       poolVars, workerVars
  <2>22. ASSUME NEW w \in Workers, EndUpdate(w)
         PROVE  SlotsInv'
    BY <2>22 DEF EndUpdate, Goto, SlotsInv, TypeOK,
       poolVars, workerVars
  <2>23. ASSUME NEW w \in Workers, EndAnnounce(w)
         PROVE  SlotsInv'
    BY <2>23 DEF EndAnnounce, Goto, SlotsInv, TypeOK,
       poolVars, workerVars
  <2>24. ASSUME NEW w \in Workers, EndFile(w)
         PROVE  SlotsInv'
    BY <2>24 DEF EndFile, Goto, SlotsInv, TypeOK,
       poolVars, workerVars
  <2>25. ASSUME NEW w \in Workers, EndRun(w)
         PROVE  SlotsInv'
    BY <2>25 DEF EndRun, Goto, SlotsInv, TypeOK,
       poolVars, workerVars
  <2>26. ASSUME NEW n \in Sizes, ResizeBegin(n)
         PROVE  SlotsInv'
    BY <2>26 DEF ResizeBegin, SlotsInv, TypeOK,
       poolVars, workerVars
  <2>27. ASSUME ResizeEnd
         PROVE  SlotsInv'
    BY <2>27 DEF ResizeEnd, SlotsInv, TypeOK
  <2>28. ASSUME Drain
         PROVE  SlotsInv'
    BY <2>28 DEF Drain, SlotsInv, TypeOK,
       poolVars, workerVars
  <2>29. ASSUME ShutdownBegin
         PROVE  SlotsInv'
    BY <2>29 DEF ShutdownBegin, SlotsInv, TypeOK,
       poolVars, workerVars
  <2>30. ASSUME ShutdownEnd
         PROVE  SlotsInv'
    BY <2>30 DEF ShutdownEnd, SlotsInv, TypeOK,
       poolVars, workerVars
  <2>31. ASSUME MainReturns
         PROVE  SlotsInv'
    BY <2>31 DEF MainReturns, SlotsInv, TypeOK,
       poolVars, workerVars
  <2> QED BY <1>2, <2>1, <2>2, <2>3, <2>4, <2>5, <2>6, <2>7, <2>8, <2>9, <2>10,
     <2>11, <2>12, <2>13, <2>14, <2>15, <2>16, <2>17, <2>18, <2>19, <2>20,
     <2>21, <2>22, <2>23, <2>24, <2>25, <2>26, <2>27, <2>28, <2>29,
     <2>30, <2>31 DEF Next, PostStep, CancelStep, LaunchStep, WaitStep, RunStep
  <1> QED BY <1>1, <1>2

\* Never more yt-dlp processes than Pool.maxParallel, in every pool and across
\* every resize.
THEOREM AtMostMaxParallel == Spec => []ParallelLimit
  <1>1. Init => SlotsInv
    BY PoolAssumption DEF Init, SlotsInv, Workers, Sizes
  <1>2. TypeOK /\ SlotsInv /\ [Next]_vars => SlotsInv'
    BY SlotsStep
  <1>3. TypeOK /\ SlotsInv => ParallelLimit
    <2> SUFFICES ASSUME TypeOK, SlotsInv PROVE ParallelLimit
      OBVIOUS
    <2> DEFINE Alive == {w \in Workers : pc[w] \in {"alive", "killing"}}
    <2>1. size \in Nat /\ Alive \subseteq 1..size
      BY PoolAssumption DEF TypeOK, SlotsInv, Workers, Sizes
    <2>2. IsFiniteSet(1..size) /\ Cardinality(1..size) = size
      BY <2>1, FS_Interval
    <2>3. Cardinality(Alive) <= Cardinality(1..size)
      BY <2>1, <2>2, FS_Subset
    <2> QED BY <2>2, <2>3 DEF ParallelLimit
  <1> QED BY <1>1, <1>2, <1>3, TypesAndBusy, PTL DEF Spec

(***************************************************************************)
(* One holder per job, the fact the rest of the file rests on: an accepted *)
(* job is in the channel once, or with one worker, or already behind it.   *)
(***************************************************************************)

OneHolder ==
  /\ \A i \in 1..Len(jobs) : posting[jobs[i]] = "accepted"
  /\ \A i, k \in 1..Len(jobs) : jobs[i] = jobs[k] => i = k
  /\ \A w \in Workers : job[w] # None =>
       posting[job[w]] = "accepted" /\ \A i \in 1..Len(jobs) : jobs[i] # job[w]
  /\ \A v, w \in Workers : job[v] # None /\ job[v] = job[w] => v = w

LEMMA HolderStep ==
  ASSUME TypeOK, Busy, OneHolder, [Next]_vars
  PROVE  OneHolder'
  <1>1. CASE UNCHANGED vars
    BY <1>1 DEF vars, poolVars, workerVars, handlerVars, OneHolder
  <1>2. CASE Next
  <2>1. ASSUME NEW id \in Ids, PostAdd(id)
         PROVE  OneHolder'
    BY <2>1 DEF PostAdd, OneHolder, TypeOK,
       poolVars, workerVars, handlerVars
  <2>2. ASSUME NEW id \in Ids, PostAnnounce(id)
         PROVE  OneHolder'
    BY <2>2 DEF PostAnnounce, OneHolder, TypeOK,
       poolVars, workerVars, handlerVars
  <2>3. ASSUME NEW id \in Ids, PostEnqueue(id)
         PROVE  OneHolder'
    <3>1. /\ jobs \in Seq(Ids) /\ Len(jobs) \in Nat /\ jobs' = Append(jobs, id)
          /\ posting \in [Ids -> {"new", "added", "announced", "accepted"}]
          /\ posting[id] = "announced" /\ posting' = [posting EXCEPT ![id] = "accepted"]
          /\ UNCHANGED job /\ job \in [Workers -> Ids \cup {None}]
      BY <2>3 DEF PostEnqueue, TypeOK, workerVars
    <3>2. /\ Len(jobs') = Len(jobs) + 1 /\ jobs'[Len(jobs) + 1] = id
          /\ \A i \in 1..Len(jobs) : jobs'[i] = jobs[i] /\ jobs[i] \in Ids
      BY <3>1
    <3>3. \A i \in 1..Len(jobs) : jobs[i] # id
      BY <3>1 DEF OneHolder
    <3>4. \A i \in 1..Len(jobs') : posting'[jobs'[i]] = "accepted"
      BY <3>1, <3>2, <3>3 DEF OneHolder
    <3>5. \A i, k \in 1..Len(jobs') : jobs'[i] = jobs'[k] => i = k
      BY <3>1, <3>2, <3>3 DEF OneHolder
    <3>6. \A w \in Workers : job'[w] # None =>
            posting'[job'[w]] = "accepted" /\ \A i \in 1..Len(jobs') : jobs'[i] # job'[w]
      BY <3>1, <3>2, <3>3 DEF OneHolder
    <3> QED BY <3>1, <3>4, <3>5, <3>6 DEF OneHolder
  <2>4. ASSUME NEW id \in Ids, CancelRun(id)
         PROVE  OneHolder'
    BY <2>4 DEF CancelRun, OneHolder, TypeOK,
       poolVars, workerVars, handlerVars
  <2>5. ASSUME NEW c \in Cancelers, NEW id \in Ids, CancelLook(c, id)
         PROVE  OneHolder'
    BY <2>5 DEF CancelLook, OneHolder, TypeOK,
       poolVars, workerVars, handlerVars
  <2>6. ASSUME NEW c \in Cancelers, CancelMark(c)
         PROVE  OneHolder'
    BY <2>6 DEF CancelMark, OneHolder, TypeOK,
       poolVars, workerVars, handlerVars
  <2>7. ASSUME NEW c \in Cancelers, CancelAnnounce(c)
         PROVE  OneHolder'
    BY <2>7 DEF CancelAnnounce, OneHolder, TypeOK,
       poolVars, workerVars, handlerVars
  <2>8. ASSUME NEW c \in Cancelers, CancelFile(c)
         PROVE  OneHolder'
    BY <2>8 DEF CancelFile, OneHolder, TypeOK,
       poolVars, workerVars, handlerVars
  <2>9. ASSUME NEW w \in Workers, WorkerExit(w)
         PROVE  OneHolder'
    BY <2>9 DEF WorkerExit, Goto, OneHolder, TypeOK,
       poolVars, workerVars, handlerVars
  <2>10. ASSUME NEW w \in Workers, WorkerPick(w)
         PROVE  OneHolder'
    <3>1. /\ jobs \in Seq(Ids) /\ jobs # <<>> /\ Len(jobs) \in Nat /\ jobs' = Tail(jobs)
          /\ job \in [Workers -> Ids \cup {None}] /\ job[w] = None
          /\ job' = [job EXCEPT ![w] = jobs[1]]
          /\ UNCHANGED posting
      BY <2>10 DEF WorkerPick, TypeOK, Goto, Busy, handlerVars
    <3>2. /\ Len(jobs') = Len(jobs) - 1 /\ Len(jobs) >= 1
          /\ \A i \in 1..Len(jobs') : i + 1 \in 2..Len(jobs) /\ jobs'[i] = jobs[i + 1]
      BY <3>1
    <3>3. \A i \in 1..Len(jobs') : posting'[jobs'[i]] = "accepted" /\ jobs'[i] # jobs[1]
      BY <3>1, <3>2 DEF OneHolder
    <3>4. \A i, k \in 1..Len(jobs') : jobs'[i] = jobs'[k] => i = k
      <4> SUFFICES ASSUME NEW i \in 1..Len(jobs'), NEW k \in 1..Len(jobs'),
                          jobs'[i] = jobs'[k]
                   PROVE  i = k
        OBVIOUS
      <4>1. jobs[i + 1] = jobs[k + 1] /\ i + 1 \in 1..Len(jobs) /\ k + 1 \in 1..Len(jobs)
        BY <3>1, <3>2
      <4>2. i + 1 = k + 1
        BY <4>1 DEF OneHolder
      <4> QED BY <3>1, <3>2, <4>2
    <3>5. posting[jobs[1]] = "accepted" /\ \A v \in Workers : job[v] # jobs[1] \/ job[v] = None
      BY <3>1, <3>2 DEF OneHolder
    <3>6. ASSUME NEW v \in Workers, job'[v] # None
          PROVE  posting'[job'[v]] = "accepted" /\ \A i \in 1..Len(jobs') : jobs'[i] # job'[v]
      <4>1. CASE v = w
        BY <3>1, <3>3, <3>5, <4>1
      <4>2. CASE v # w
        BY <3>1, <3>2, <3>6, <4>2 DEF OneHolder
      <4> QED BY <4>1, <4>2
    <3>7. \A u, v \in Workers : job'[u] # None /\ job'[u] = job'[v] => u = v
      BY <3>1, <3>5 DEF OneHolder
    <3> QED BY <3>3, <3>4, <3>6, <3>7 DEF OneHolder
  <2>11. ASSUME NEW w \in Workers, RunSkip(w)
         PROVE  OneHolder'
    BY <2>11 DEF RunSkip, Goto, OneHolder, TypeOK,
       poolVars, workerVars, handlerVars
  <2>12. ASSUME NEW w \in Workers, RunCheck(w)
         PROVE  OneHolder'
    BY <2>12 DEF RunCheck, Goto, OneHolder, TypeOK,
       poolVars, workerVars, handlerVars
  <2>13. ASSUME NEW w \in Workers, RunRegister(w)
         PROVE  OneHolder'
    BY <2>13 DEF RunRegister, Goto, OneHolder, TypeOK,
       poolVars, workerVars, handlerVars
  <2>14. ASSUME NEW w \in Workers, RunBegin(w)
         PROVE  OneHolder'
    BY <2>14 DEF RunBegin, Goto, OneHolder, TypeOK,
       poolVars, workerVars, handlerVars
  <2>15. ASSUME NEW w \in Workers, RunAnnounce(w)
         PROVE  OneHolder'
    BY <2>15 DEF RunAnnounce, Goto, OneHolder, TypeOK,
       poolVars, workerVars, handlerVars
  <2>16. ASSUME NEW w \in Workers, LaunchFails(w)
         PROVE  OneHolder'
    BY <2>16 DEF LaunchFails, Goto, OneHolder, TypeOK,
       poolVars, workerVars, handlerVars
  <2>17. ASSUME NEW w \in Workers, Launch(w)
         PROVE  OneHolder'
    BY <2>17 DEF Launch, Goto, OneHolder, TypeOK,
       poolVars, workerVars, handlerVars
  <2>18. ASSUME NEW w \in Workers, ProcExits(w)
         PROVE  OneHolder'
    BY <2>18 DEF ProcExits, Goto, OneHolder, TypeOK,
       poolVars, workerVars, handlerVars
  <2>19. ASSUME NEW w \in Workers, ObserveExit(w)
         PROVE  OneHolder'
    BY <2>19 DEF ObserveExit, Goto, OneHolder, TypeOK,
       poolVars, workerVars, handlerVars
  <2>20. ASSUME NEW w \in Workers, ObserveCancel(w)
         PROVE  OneHolder'
    BY <2>20 DEF ObserveCancel, Goto, OneHolder, TypeOK,
       poolVars, workerVars, handlerVars
  <2>21. ASSUME NEW w \in Workers, Killed(w)
         PROVE  OneHolder'
    BY <2>21 DEF Killed, Goto, OneHolder, TypeOK,
       poolVars, workerVars, handlerVars
  <2>22. ASSUME NEW w \in Workers, EndUpdate(w)
         PROVE  OneHolder'
    BY <2>22 DEF EndUpdate, Goto, OneHolder, TypeOK,
       poolVars, workerVars, handlerVars
  <2>23. ASSUME NEW w \in Workers, EndAnnounce(w)
         PROVE  OneHolder'
    BY <2>23 DEF EndAnnounce, Goto, OneHolder, TypeOK,
       poolVars, workerVars, handlerVars
  <2>24. ASSUME NEW w \in Workers, EndFile(w)
         PROVE  OneHolder'
    BY <2>24 DEF EndFile, Goto, OneHolder, TypeOK,
       poolVars, workerVars, handlerVars
  <2>25. ASSUME NEW w \in Workers, EndRun(w)
         PROVE  OneHolder'
    BY <2>25 DEF EndRun, Goto, OneHolder, TypeOK,
       poolVars, workerVars, handlerVars
  <2>26. ASSUME NEW n \in Sizes, ResizeBegin(n)
         PROVE  OneHolder'
    BY <2>26 DEF ResizeBegin, OneHolder, TypeOK,
       poolVars, workerVars, handlerVars
  <2>27. ASSUME ResizeEnd
         PROVE  OneHolder'
    BY <2>27 DEF ResizeEnd, OneHolder, TypeOK,
       poolVars, workerVars, handlerVars
  <2>28. ASSUME Drain
         PROVE  OneHolder'
    BY <2>28 DEF Drain, OneHolder, TypeOK,
       poolVars, workerVars, handlerVars
  <2>29. ASSUME ShutdownBegin
         PROVE  OneHolder'
    BY <2>29 DEF ShutdownBegin, OneHolder, TypeOK,
       poolVars, workerVars, handlerVars
  <2>30. ASSUME ShutdownEnd
         PROVE  OneHolder'
    BY <2>30 DEF ShutdownEnd, OneHolder, TypeOK,
       poolVars, workerVars, handlerVars
  <2>31. ASSUME MainReturns
         PROVE  OneHolder'
    BY <2>31 DEF MainReturns, OneHolder, TypeOK,
       poolVars, workerVars, handlerVars
  <2> QED BY <1>2, <2>1, <2>2, <2>3, <2>4, <2>5, <2>6, <2>7, <2>8, <2>9, <2>10,
     <2>11, <2>12, <2>13, <2>14, <2>15, <2>16, <2>17, <2>18, <2>19, <2>20,
     <2>21, <2>22, <2>23, <2>24, <2>25, <2>26, <2>27, <2>28, <2>29,
     <2>30, <2>31 DEF Next, PostStep, CancelStep, LaunchStep, WaitStep, RunStep
  <1> QED BY <1>1, <1>2

LEMMA HoldersUnique == Spec => []OneHolder
  <1>1. Init => OneHolder
    BY DEF Init, OneHolder
  <1>2. TypeOK /\ Busy /\ OneHolder /\ [Next]_vars => OneHolder'
    BY HolderStep
  <1> QED BY <1>1, <1>2, TypesAndBusy, PTL DEF Spec

(***************************************************************************)
(* RunsAreCancelable: from Store to Delete a run's entry of cancelFns is   *)
(* its own, since no other worker runs the same job.                       *)
(***************************************************************************)

Registered == {"registered"} \cup BeforeUpdate \cup AfterUpdate

FnsInv == \A w \in Workers : pc[w] \in Registered => cancelFns[job[w]] = w

LEMMA FnsStep ==
  ASSUME TypeOK, Busy, OneHolder, FnsInv, [Next]_vars
  PROVE  FnsInv'
  <1>1. CASE UNCHANGED vars
    BY <1>1 DEF vars, poolVars, workerVars, FnsInv
  <1>2. CASE Next
  <2>1. ASSUME NEW id \in Ids, PostAdd(id)
         PROVE  FnsInv'
    BY <2>1 DEF PostAdd, FnsInv, TypeOK, Registered, BeforeUpdate, AfterUpdate,
       Running,
       poolVars, workerVars
  <2>2. ASSUME NEW id \in Ids, PostAnnounce(id)
         PROVE  FnsInv'
    BY <2>2 DEF PostAnnounce, FnsInv, TypeOK, Registered, BeforeUpdate,
       AfterUpdate, Running,
       poolVars, workerVars
  <2>3. ASSUME NEW id \in Ids, PostEnqueue(id)
         PROVE  FnsInv'
    BY <2>3 DEF PostEnqueue, FnsInv, TypeOK, Registered, BeforeUpdate,
       AfterUpdate, Running,
       poolVars, workerVars
  <2>4. ASSUME NEW id \in Ids, CancelRun(id)
         PROVE  FnsInv'
    BY <2>4 DEF CancelRun, FnsInv, TypeOK, Registered, BeforeUpdate,
       AfterUpdate, Running,
       poolVars, workerVars
  <2>5. ASSUME NEW c \in Cancelers, NEW id \in Ids, CancelLook(c, id)
         PROVE  FnsInv'
    BY <2>5 DEF CancelLook, FnsInv, TypeOK, Registered, BeforeUpdate,
       AfterUpdate, Running,
       poolVars, workerVars
  <2>6. ASSUME NEW c \in Cancelers, CancelMark(c)
         PROVE  FnsInv'
    BY <2>6 DEF CancelMark, FnsInv, TypeOK, Registered, BeforeUpdate,
       AfterUpdate, Running,
       poolVars, workerVars
  <2>7. ASSUME NEW c \in Cancelers, CancelAnnounce(c)
         PROVE  FnsInv'
    BY <2>7 DEF CancelAnnounce, FnsInv, TypeOK, Registered, BeforeUpdate,
       AfterUpdate, Running,
       poolVars, workerVars
  <2>8. ASSUME NEW c \in Cancelers, CancelFile(c)
         PROVE  FnsInv'
    BY <2>8 DEF CancelFile, FnsInv, TypeOK, Registered, BeforeUpdate,
       AfterUpdate, Running,
       poolVars, workerVars
  <2>9. ASSUME NEW w \in Workers, WorkerExit(w)
         PROVE  FnsInv'
    BY <2>9 DEF WorkerExit, Goto, FnsInv, TypeOK, Registered, BeforeUpdate,
       AfterUpdate, Running,
       poolVars, workerVars
  <2>10. ASSUME NEW w \in Workers, WorkerPick(w)
         PROVE  FnsInv'
    BY <2>10 DEF WorkerPick, Goto, FnsInv, TypeOK, Registered, BeforeUpdate,
       AfterUpdate, Running,
       poolVars, workerVars
  <2>11. ASSUME NEW w \in Workers, RunSkip(w)
         PROVE  FnsInv'
    BY <2>11 DEF RunSkip, Goto, FnsInv, TypeOK, Registered, BeforeUpdate,
       AfterUpdate, Running,
       poolVars, workerVars
  <2>12. ASSUME NEW w \in Workers, RunCheck(w)
         PROVE  FnsInv'
    BY <2>12 DEF RunCheck, Goto, FnsInv, TypeOK, Registered, BeforeUpdate,
       AfterUpdate, Running,
       poolVars, workerVars
  <2>13. ASSUME NEW w \in Workers, RunRegister(w)
         PROVE  FnsInv'
    <3>1. job[w] \in Ids /\ \A v \in Workers : v # w => job[v] # job[w]
      BY <2>13, BusyHas, PoolAssumption DEF RunRegister, Goto, OneHolder
    <3>2. \A v \in Workers : pc[v] \in Registered => job[v] \in Ids
      BY BusyHas DEF Registered, BeforeUpdate, AfterUpdate, Running
    <3> QED BY <2>13, <3>1, <3>2 DEF RunRegister, Goto, FnsInv, TypeOK,
       Registered, BeforeUpdate, AfterUpdate, Running
  <2>14. ASSUME NEW w \in Workers, RunBegin(w)
         PROVE  FnsInv'
    BY <2>14 DEF RunBegin, Goto, FnsInv, TypeOK, Registered, BeforeUpdate,
       AfterUpdate, Running,
       poolVars, workerVars
  <2>15. ASSUME NEW w \in Workers, RunAnnounce(w)
         PROVE  FnsInv'
    BY <2>15 DEF RunAnnounce, Goto, FnsInv, TypeOK, Registered, BeforeUpdate,
       AfterUpdate, Running,
       poolVars, workerVars
  <2>16. ASSUME NEW w \in Workers, LaunchFails(w)
         PROVE  FnsInv'
    BY <2>16 DEF LaunchFails, Goto, FnsInv, TypeOK, Registered, BeforeUpdate,
       AfterUpdate, Running,
       poolVars, workerVars
  <2>17. ASSUME NEW w \in Workers, Launch(w)
         PROVE  FnsInv'
    BY <2>17 DEF Launch, Goto, FnsInv, TypeOK, Registered, BeforeUpdate,
       AfterUpdate, Running,
       poolVars, workerVars
  <2>18. ASSUME NEW w \in Workers, ProcExits(w)
         PROVE  FnsInv'
    BY <2>18 DEF ProcExits, Goto, FnsInv, TypeOK, Registered, BeforeUpdate,
       AfterUpdate, Running,
       poolVars, workerVars
  <2>19. ASSUME NEW w \in Workers, ObserveExit(w)
         PROVE  FnsInv'
    BY <2>19 DEF ObserveExit, Goto, FnsInv, TypeOK, Registered, BeforeUpdate,
       AfterUpdate, Running,
       poolVars, workerVars
  <2>20. ASSUME NEW w \in Workers, ObserveCancel(w)
         PROVE  FnsInv'
    BY <2>20 DEF ObserveCancel, Goto, FnsInv, TypeOK, Registered, BeforeUpdate,
       AfterUpdate, Running,
       poolVars, workerVars
  <2>21. ASSUME NEW w \in Workers, Killed(w)
         PROVE  FnsInv'
    BY <2>21 DEF Killed, Goto, FnsInv, TypeOK, Registered, BeforeUpdate,
       AfterUpdate, Running,
       poolVars, workerVars
  <2>22. ASSUME NEW w \in Workers, EndUpdate(w)
         PROVE  FnsInv'
    BY <2>22 DEF EndUpdate, Goto, FnsInv, TypeOK, Registered, BeforeUpdate,
       AfterUpdate, Running,
       poolVars, workerVars
  <2>23. ASSUME NEW w \in Workers, EndAnnounce(w)
         PROVE  FnsInv'
    BY <2>23 DEF EndAnnounce, Goto, FnsInv, TypeOK, Registered, BeforeUpdate,
       AfterUpdate, Running,
       poolVars, workerVars
  <2>24. ASSUME NEW w \in Workers, EndFile(w)
         PROVE  FnsInv'
    BY <2>24 DEF EndFile, Goto, FnsInv, TypeOK, Registered, BeforeUpdate,
       AfterUpdate, Running,
       poolVars, workerVars
  <2>25. ASSUME NEW w \in Workers, EndRun(w)
         PROVE  FnsInv'
    <3>1. job[w] \in Ids /\ \A v \in Workers : v # w => job[v] # job[w]
      BY <2>25, BusyHas, PoolAssumption DEF EndRun, Goto, OneHolder
    <3>2. \A v \in Workers : pc[v] \in Registered => job[v] \in Ids
      BY BusyHas DEF Registered, BeforeUpdate, AfterUpdate, Running
    <3> QED BY <2>25, <3>1, <3>2 DEF EndRun, Goto, FnsInv, TypeOK,
       Registered, BeforeUpdate, AfterUpdate, Running
  <2>26. ASSUME NEW n \in Sizes, ResizeBegin(n)
         PROVE  FnsInv'
    BY <2>26 DEF ResizeBegin, FnsInv, TypeOK, Registered, BeforeUpdate,
       AfterUpdate, Running,
       poolVars, workerVars
  <2>27. ASSUME ResizeEnd
         PROVE  FnsInv'
    BY <2>27 DEF ResizeEnd, FnsInv, TypeOK, Registered, BeforeUpdate,
       AfterUpdate, Running
  <2>28. ASSUME Drain
         PROVE  FnsInv'
    BY <2>28 DEF Drain, FnsInv, TypeOK, Registered, BeforeUpdate, AfterUpdate,
       Running,
       poolVars, workerVars
  <2>29. ASSUME ShutdownBegin
         PROVE  FnsInv'
    BY <2>29 DEF ShutdownBegin, FnsInv, TypeOK, Registered, BeforeUpdate,
       AfterUpdate, Running,
       poolVars, workerVars
  <2>30. ASSUME ShutdownEnd
         PROVE  FnsInv'
    BY <2>30 DEF ShutdownEnd, FnsInv, TypeOK, Registered, BeforeUpdate,
       AfterUpdate, Running,
       poolVars, workerVars
  <2>31. ASSUME MainReturns
         PROVE  FnsInv'
    BY <2>31 DEF MainReturns, FnsInv, TypeOK, Registered, BeforeUpdate,
       AfterUpdate, Running,
       poolVars, workerVars
  <2> QED BY <1>2, <2>1, <2>2, <2>3, <2>4, <2>5, <2>6, <2>7, <2>8, <2>9, <2>10,
     <2>11, <2>12, <2>13, <2>14, <2>15, <2>16, <2>17, <2>18, <2>19, <2>20,
     <2>21, <2>22, <2>23, <2>24, <2>25, <2>26, <2>27, <2>28, <2>29,
     <2>30, <2>31 DEF Next, PostStep, CancelStep, LaunchStep, WaitStep, RunStep
  <1> QED BY <1>1, <1>2

\* A DELETE finds every job whose yt-dlp is alive, and its CancelFunc.
THEOREM EveryRunCancelable == Spec => []RunsAreCancelable
  <1>1. Init => FnsInv
    BY DEF Init, FnsInv, Registered, BeforeUpdate, AfterUpdate, Running
  <1>2. TypeOK /\ Busy /\ OneHolder /\ FnsInv /\ [Next]_vars => FnsInv'
    BY FnsStep
  <1>3. FnsInv => RunsAreCancelable
    BY DEF FnsInv, RunsAreCancelable, Registered, BeforeUpdate, Running
  <1> QED BY <1>1, <1>2, <1>3, TypesAndBusy, HoldersUnique, PTL DEF Spec

\* Pool.shutdown waits for every run there is: what is left when main goes was
\* picked after it returned, by the workers of a PATCH that waited for Pool.mu.
THEOREM NothingOutlivesMain == Spec => []StoppedMeansReaped
  <1> DEFINE Gone == phase \in {"down", "stopped"} =>
                        \A w \in Workers : job[w] # None => job[w] \in late
  <1>1. Init => Gone
    BY DEF Init
  <1>2. TypeOK /\ Busy /\ Gone /\ [Next]_vars => Gone'
    <2> SUFFICES ASSUME TypeOK, Busy, Gone, [Next]_vars PROVE Gone'
      OBVIOUS
    <2>1. CASE UNCHANGED vars
      BY <2>1 DEF vars, workerVars, handlerVars, historyVars
    <2>2. ASSUME phase' = phase, late \subseteq late',
                 \A w \in Workers : job'[w] \in {job[w], None} \cup late'
                                    \/ phase \notin {"down", "stopped"}
          PROVE  Gone'
      BY <2>2
    <2>3. ASSUME NEW id \in Ids, PostAdd(id) \/ PostStep(id) \/ CancelRun(id)
          PROVE  Gone'
      BY <2>2, <2>3 DEF PostAdd, PostStep, PostAnnounce, PostEnqueue, CancelRun,
         workerVars, handlerVars, historyVars
    <2>4. ASSUME NEW c \in Cancelers, CancelStep(c) \/ \E id \in Ids : CancelLook(c, id)
          PROVE  Gone'
      BY <2>2, <2>4 DEF CancelStep, CancelMark, CancelAnnounce, CancelFile,
         CancelLook, workerVars, historyVars
    <2>5. ASSUME Up, NEW w \in Workers, WorkerPick(w)
          PROVE  Gone'
      BY <2>2, <2>5 DEF WorkerPick, Up, TypeOK, handlerVars
    <2>6. ASSUME NEW w \in Workers, RunSkip(w) \/ EndRun(w)
          PROVE  Gone'
      BY <2>2, <2>6 DEF RunSkip, EndRun, TypeOK, handlerVars, historyVars
    <2>7. ASSUME NEW w \in Workers, WorkerExit(w) \/ RunStep(w) \/ ProcExits(w),
                 ~ (RunSkip(w) \/ EndRun(w))
          PROVE  Gone'
      BY <2>2, <2>7 DEF WorkerExit, RunStep, ProcExits, RunCheck, RunRegister,
         RunBegin, RunAnnounce, LaunchStep, Launch, LaunchFails, WaitStep,
         ObserveExit, ObserveCancel, Killed, EndUpdate, EndAnnounce, EndFile,
         handlerVars, historyVars
    <2>8. ASSUME NEW n \in Sizes, ResizeBegin(n)
          PROVE  Gone'
      BY <2>2, <2>8 DEF ResizeBegin, workerVars, handlerVars, historyVars
    <2>9. CASE ResizeEnd \/ ShutdownBegin
      BY <2>2, <2>9 DEF ResizeEnd, ShutdownBegin, handlerVars, historyVars
    <2>10. CASE Drain
      BY <2>10 DEF Drain
    <2>11. CASE ShutdownEnd
      BY <2>11 DEF ShutdownEnd, AllGone, Busy, workerVars
    <2>12. CASE MainReturns
      BY <2>12 DEF MainReturns, workerVars, historyVars
    <2> QED BY <2>1, <2>3, <2>4, <2>5, <2>6, <2>7, <2>8, <2>9, <2>10, <2>11,
         <2>12 DEF Next
  <1>3. TypeOK /\ Gone /\ JobsAccounted => StoppedMeansReaped
    BY PoolAssumption DEF StoppedMeansReaped, JobsAccounted, HeldBy, TypeOK
  <1> QED BY <1>1, <1>2, <1>3, NoJobStranded, TypesAndBusy, PTL DEF Spec

(***************************************************************************)
(* The life cycle.  For a job no DELETE caught in the queue, the status in *)
(* the registry says where the job is: queued until its one worker begins  *)
(* it and running until that worker reports its end.                       *)
(***************************************************************************)

Undisputed(id) == id \notin queuedCancels

LifeInv ==
  /\ \A id \in Ids : Undisputed(id) =>
       /\ posting[id] = "new" => reg[id] = "absent"
       /\ posting[id] \in {"added", "announced"} \/ InChan(id) => reg[id] = "queued"
       /\ \A w \in Workers : HeldBy(id, w, BeforeBegin) => reg[id] = "queued"
       /\ \A w \in Workers : HeldBy(id, w, BeforeUpdate) => reg[id] = "running"
  /\ \A c \in Cancelers : did[c] # None => did[c] \in queuedCancels

LEMMA LifeStep ==
  ASSUME TypeOK, Busy, OneHolder, LifeInv, [Next]_vars
  PROVE  LifeInv'
  <1>1. CASE UNCHANGED vars
    BY <1>1 DEF vars, regVars, poolVars, workerVars, handlerVars, historyVars,
       LifeInv, Undisputed, InChan, HeldBy
  <1>2. CASE Next
  <2>1. ASSUME NEW id \in Ids, PostAdd(id)
         PROVE  LifeInv'
    BY <2>1 DEF PostAdd,
       LifeInv, Undisputed, InChan, HeldBy, TypeOK,
       regVars, poolVars, workerVars, handlerVars, historyVars
  <2>2. ASSUME NEW id \in Ids, PostAnnounce(id)
         PROVE  LifeInv'
    BY <2>2 DEF PostAnnounce,
       LifeInv, Undisputed, InChan, HeldBy, TypeOK,
       regVars, poolVars, workerVars, handlerVars, historyVars
  <2>3. ASSUME NEW id \in Ids, PostEnqueue(id)
         PROVE  LifeInv'
    BY <2>3 DEF PostEnqueue,
       LifeInv, Undisputed, InChan, HeldBy, TypeOK,
       regVars, poolVars, workerVars, handlerVars, historyVars
  <2>4. ASSUME NEW id \in Ids, CancelRun(id)
         PROVE  LifeInv'
    BY <2>4 DEF CancelRun,
       LifeInv, Undisputed, InChan, HeldBy, TypeOK,
       regVars, poolVars, workerVars, handlerVars, historyVars
  <2>5. ASSUME NEW c \in Cancelers, NEW id \in Ids, CancelLook(c, id)
         PROVE  LifeInv'
    BY <2>5 DEF CancelLook,
       LifeInv, Undisputed, InChan, HeldBy, TypeOK,
       regVars, poolVars, workerVars, handlerVars, historyVars
  <2>6. ASSUME NEW c \in Cancelers, CancelMark(c)
         PROVE  LifeInv'
    <3>0. /\ reg \in [Ids -> Statuses \cup {"absent"}]
          /\ pc \in [Workers -> PCs] /\ job \in [Workers -> Ids \cup {None}]
          /\ None \notin Ids
      BY PoolAssumption DEF TypeOK
    <3>1. did[c] \in Ids /\ did[c] \in queuedCancels
      BY <2>6, BusyHas DEF CancelMark, LifeInv, Busy
    <3>2. \A id \in Ids : Undisputed(id) => reg'[id] = reg[id]
      BY <2>6, <3>1, UpdateEffect DEF CancelMark, Undisputed
    <3> QED BY <2>6, <3>2 DEF CancelMark, LifeInv, Undisputed, InChan, HeldBy,
       regVars, poolVars, workerVars, handlerVars, historyVars
  <2>7. ASSUME NEW c \in Cancelers, CancelAnnounce(c)
         PROVE  LifeInv'
    BY <2>7 DEF CancelAnnounce,
       LifeInv, Undisputed, InChan, HeldBy, TypeOK,
       regVars, poolVars, workerVars, handlerVars, historyVars
  <2>8. ASSUME NEW c \in Cancelers, CancelFile(c)
         PROVE  LifeInv'
    <3>0. /\ reg \in [Ids -> Statuses \cup {"absent"}]
          /\ pc \in [Workers -> PCs] /\ job \in [Workers -> Ids \cup {None}]
          /\ None \notin Ids
      BY PoolAssumption DEF TypeOK
    <3>1. did[c] \in Ids /\ MarkFinished(did[c])
      BY <2>8, BusyHas DEF CancelFile
    <3>2. \A id \in Ids : reg[id] \in {"absent", "queued", "running"} =>
          reg'[id] = reg[id]
      BY <3>0, <3>1, MarkFinishedEffect DEF Terminal
    <3>3. /\ UNCHANGED <<jobs, pc, job, posting, queuedCancels>>
          /\ did' = [did EXCEPT ![c] = None]
      BY <2>8 DEF CancelFile, poolVars, workerVars, historyVars
    <3> QED BY <3>2, <3>3 DEF LifeInv, Undisputed, InChan, HeldBy, TypeOK
  <2>9. ASSUME NEW w \in Workers, WorkerExit(w)
         PROVE  LifeInv'
    BY <2>9 DEF WorkerExit, Goto, BeforeBegin, BeforeUpdate, Running,
       AfterUpdate,
       LifeInv, Undisputed, InChan, HeldBy, TypeOK,
       regVars, poolVars, workerVars, handlerVars, historyVars
  <2>10. ASSUME NEW w \in Workers, WorkerPick(w)
         PROVE  LifeInv'
    BY <2>10 DEF WorkerPick, Goto, BeforeBegin, BeforeUpdate, Running,
       AfterUpdate,
       LifeInv, Undisputed, InChan, HeldBy, TypeOK,
       regVars, poolVars, workerVars, handlerVars, historyVars
  <2>11. ASSUME NEW w \in Workers, RunSkip(w)
         PROVE  LifeInv'
    BY <2>11 DEF RunSkip, Goto, BeforeBegin, BeforeUpdate, Running,
       AfterUpdate,
       LifeInv, Undisputed, InChan, HeldBy, TypeOK,
       regVars, poolVars, workerVars, handlerVars, historyVars
  <2>12. ASSUME NEW w \in Workers, RunCheck(w)
         PROVE  LifeInv'
    BY <2>12 DEF RunCheck, Goto, BeforeBegin, BeforeUpdate, Running,
       AfterUpdate,
       LifeInv, Undisputed, InChan, HeldBy, TypeOK,
       regVars, poolVars, workerVars, handlerVars, historyVars
  <2>13. ASSUME NEW w \in Workers, RunRegister(w)
         PROVE  LifeInv'
    BY <2>13 DEF RunRegister, Goto, BeforeBegin, BeforeUpdate, Running,
       AfterUpdate,
       LifeInv, Undisputed, InChan, HeldBy, TypeOK,
       regVars, poolVars, workerVars, handlerVars, historyVars
  <2>14. ASSUME NEW w \in Workers, RunBegin(w)
         PROVE  LifeInv'
    <3>0. /\ reg \in [Ids -> Statuses \cup {"absent"}]
          /\ pc \in [Workers -> PCs] /\ job \in [Workers -> Ids \cup {None}]
          /\ None \notin Ids
      BY PoolAssumption DEF TypeOK
    <3>1. /\ job[w] \in Ids /\ pc[w] = "registered"
          /\ pc' = [pc EXCEPT ![w] = "begun"]
          /\ UNCHANGED <<jobs, job, posting, did, queuedCancels>>
      BY <2>14, BusyHas DEF RunBegin, Goto, poolVars, handlerVars, historyVars
    <3>2. \A id \in Ids : id # job[w] => reg'[id] = reg[id]
      BY <2>14, <3>1, UpdateEffect DEF RunBegin
    <3>3. Undisputed(job[w]) => reg'[job[w]] = "running"
      <4>1. HeldBy(job[w], w, BeforeBegin)
        BY <3>1 DEF HeldBy, BeforeBegin, BeforeUpdate, Running
      <4>2. Undisputed(job[w]) => reg[job[w]] # "absent"
        BY <3>1, <4>1 DEF LifeInv
      <4> QED BY <2>14, <3>1, <4>2, UpdateEffect DEF RunBegin
    <3>4. /\ posting[job[w]] = "accepted" /\ ~ InChan(job[w])
          /\ \A v \in Workers : job[v] = job[w] => v = w
      BY <3>0, <3>1 DEF OneHolder, InChan
    <3>5. ASSUME NEW id \in Ids, Undisputed(id), id # job[w]
          PROVE  /\ posting[id] = "new" => reg'[id] = "absent"
                 /\ posting[id] \in {"added", "announced"} \/ InChan(id) =>
                       reg'[id] = "queued"
                 /\ \A v \in Workers : job[v] = id /\ pc'[v] \in BeforeBegin =>
                      reg'[id] = "queued"
                 /\ \A v \in Workers : job[v] = id /\ pc'[v] \in BeforeUpdate =>
                      reg'[id] = "running"
      BY <3>0, <3>1, <3>2, <3>5 DEF LifeInv, HeldBy
    <3>6. /\ \A v \in Workers : ~ (job[v] = job[w] /\ pc'[v] \in BeforeBegin)
          /\ \A v \in Workers : job[v] = job[w] /\ pc'[v] \in BeforeUpdate =>
               reg'[job[w]] = "running" \/ ~ Undisputed(job[w])
      BY <3>0, <3>1, <3>3, <3>4 DEF HeldBy, BeforeBegin, BeforeUpdate, Running
    <3>7. ASSUME NEW id \in Ids, Undisputed(id)
          PROVE  /\ posting[id] = "new" => reg'[id] = "absent"
                 /\ posting[id] \in {"added", "announced"} \/ InChan(id) =>
                       reg'[id] = "queued"
                 /\ \A v \in Workers : job[v] = id /\ pc'[v] \in BeforeBegin =>
                      reg'[id] = "queued"
                 /\ \A v \in Workers : job[v] = id /\ pc'[v] \in BeforeUpdate =>
                      reg'[id] = "running"
      <4>1. CASE id = job[w]
        BY <3>4, <3>6, <3>7, <4>1
      <4>2. CASE id # job[w]
        BY <3>5, <3>7, <4>2
      <4> QED BY <4>1, <4>2
    <3>8. \A k \in Cancelers : did[k] # None => did[k] \in queuedCancels
      BY DEF LifeInv
    <3> QED BY <3>1, <3>7, <3>8 DEF LifeInv, Undisputed, InChan, HeldBy
  <2>15. ASSUME NEW w \in Workers, RunAnnounce(w)
         PROVE  LifeInv'
    BY <2>15 DEF RunAnnounce, Goto, BeforeBegin, BeforeUpdate, Running,
       AfterUpdate,
       LifeInv, Undisputed, InChan, HeldBy, TypeOK,
       regVars, poolVars, workerVars, handlerVars, historyVars
  <2>16. ASSUME NEW w \in Workers, LaunchFails(w)
         PROVE  LifeInv'
    BY <2>16 DEF LaunchFails, Goto, BeforeBegin, BeforeUpdate, Running,
       AfterUpdate,
       LifeInv, Undisputed, InChan, HeldBy, TypeOK,
       regVars, poolVars, workerVars, handlerVars, historyVars
  <2>17. ASSUME NEW w \in Workers, Launch(w)
         PROVE  LifeInv'
    BY <2>17 DEF Launch, Goto, BeforeBegin, BeforeUpdate, Running,
       AfterUpdate,
       LifeInv, Undisputed, InChan, HeldBy, TypeOK,
       regVars, poolVars, workerVars, handlerVars, historyVars
  <2>18. ASSUME NEW w \in Workers, ProcExits(w)
         PROVE  LifeInv'
    BY <2>18 DEF ProcExits, Goto, BeforeBegin, BeforeUpdate, Running,
       AfterUpdate,
       LifeInv, Undisputed, InChan, HeldBy, TypeOK,
       regVars, poolVars, workerVars, handlerVars, historyVars
  <2>19. ASSUME NEW w \in Workers, ObserveExit(w)
         PROVE  LifeInv'
    BY <2>19 DEF ObserveExit, Goto, BeforeBegin, BeforeUpdate, Running,
       AfterUpdate,
       LifeInv, Undisputed, InChan, HeldBy, TypeOK,
       regVars, poolVars, workerVars, handlerVars, historyVars
  <2>20. ASSUME NEW w \in Workers, ObserveCancel(w)
         PROVE  LifeInv'
    BY <2>20 DEF ObserveCancel, Goto, BeforeBegin, BeforeUpdate, Running,
       AfterUpdate,
       LifeInv, Undisputed, InChan, HeldBy, TypeOK,
       regVars, poolVars, workerVars, handlerVars, historyVars
  <2>21. ASSUME NEW w \in Workers, Killed(w)
         PROVE  LifeInv'
    BY <2>21 DEF Killed, Goto, BeforeBegin, BeforeUpdate, Running,
       AfterUpdate,
       LifeInv, Undisputed, InChan, HeldBy, TypeOK,
       regVars, poolVars, workerVars, handlerVars, historyVars
  <2>22. ASSUME NEW w \in Workers, EndUpdate(w)
         PROVE  LifeInv'
    <3>0. /\ reg \in [Ids -> Statuses \cup {"absent"}]
          /\ pc \in [Workers -> PCs] /\ job \in [Workers -> Ids \cup {None}]
          /\ None \notin Ids
      BY PoolAssumption DEF TypeOK
    <3>1. /\ job[w] \in Ids /\ pc[w] = "ending"
          /\ pc' = [pc EXCEPT ![w] = "updated"]
          /\ UNCHANGED <<jobs, job, posting, did, queuedCancels>>
      BY <2>22, BusyHas DEF EndUpdate, Goto, poolVars, handlerVars,
         historyVars
    <3>2. \A id \in Ids : id # job[w] => reg'[id] = reg[id]
      BY <2>22, <3>1, UpdateEffect DEF EndUpdate
    <3>3. Undisputed(job[w]) => reg'[job[w]] = out[w]
      <4>1. HeldBy(job[w], w, BeforeUpdate)
        BY <3>1 DEF HeldBy, BeforeBegin, BeforeUpdate, Running
      <4>2. Undisputed(job[w]) => reg[job[w]] # "absent"
        BY <3>1, <4>1 DEF LifeInv
      <4> QED BY <2>22, <3>1, <4>2, UpdateEffect DEF EndUpdate
    <3>4. /\ posting[job[w]] = "accepted" /\ ~ InChan(job[w])
          /\ \A v \in Workers : job[v] = job[w] => v = w
      BY <3>0, <3>1 DEF OneHolder, InChan
    <3>5. ASSUME NEW id \in Ids, Undisputed(id), id # job[w]
          PROVE  /\ posting[id] = "new" => reg'[id] = "absent"
                 /\ posting[id] \in {"added", "announced"} \/ InChan(id) =>
                       reg'[id] = "queued"
                 /\ \A v \in Workers : job[v] = id /\ pc'[v] \in BeforeBegin =>
                      reg'[id] = "queued"
                 /\ \A v \in Workers : job[v] = id /\ pc'[v] \in BeforeUpdate =>
                      reg'[id] = "running"
      BY <3>0, <3>1, <3>2, <3>5 DEF LifeInv, HeldBy
    <3>6. /\ \A v \in Workers : ~ (job[v] = job[w] /\ pc'[v] \in BeforeBegin)
          /\ \A v \in Workers : job[v] = job[w] /\ pc'[v] \in BeforeUpdate =>
               reg'[job[w]] = "running" \/ ~ Undisputed(job[w])
      BY <3>0, <3>1, <3>3, <3>4 DEF HeldBy, BeforeBegin, BeforeUpdate, Running
    <3>7. ASSUME NEW id \in Ids, Undisputed(id)
          PROVE  /\ posting[id] = "new" => reg'[id] = "absent"
                 /\ posting[id] \in {"added", "announced"} \/ InChan(id) =>
                       reg'[id] = "queued"
                 /\ \A v \in Workers : job[v] = id /\ pc'[v] \in BeforeBegin =>
                      reg'[id] = "queued"
                 /\ \A v \in Workers : job[v] = id /\ pc'[v] \in BeforeUpdate =>
                      reg'[id] = "running"
      <4>1. CASE id = job[w]
        BY <3>4, <3>6, <3>7, <4>1
      <4>2. CASE id # job[w]
        BY <3>5, <3>7, <4>2
      <4> QED BY <4>1, <4>2
    <3>8. \A k \in Cancelers : did[k] # None => did[k] \in queuedCancels
      BY DEF LifeInv
    <3> QED BY <3>1, <3>7, <3>8 DEF LifeInv, Undisputed, InChan, HeldBy
  <2>23. ASSUME NEW w \in Workers, EndAnnounce(w)
         PROVE  LifeInv'
    BY <2>23 DEF EndAnnounce, Goto, BeforeBegin, BeforeUpdate, Running,
       AfterUpdate,
       LifeInv, Undisputed, InChan, HeldBy, TypeOK,
       regVars, poolVars, workerVars, handlerVars, historyVars
  <2>24. ASSUME NEW w \in Workers, EndFile(w)
         PROVE  LifeInv'
    <3>0. /\ reg \in [Ids -> Statuses \cup {"absent"}]
          /\ pc \in [Workers -> PCs] /\ job \in [Workers -> Ids \cup {None}]
          /\ None \notin Ids
      BY PoolAssumption DEF TypeOK
    <3>1. job[w] \in Ids /\ MarkFinished(job[w])
      BY <2>24, BusyHas DEF EndFile, Goto
    <3>2. \A id \in Ids : reg[id] \in {"absent", "queued", "running"} =>
          reg'[id] = reg[id]
      BY <3>0, <3>1, MarkFinishedEffect DEF Terminal
    <3>3. /\ UNCHANGED <<jobs, job, posting, did, queuedCancels>>
          /\ pc' = [pc EXCEPT ![w] = "filed"]
      BY <2>24 DEF EndFile, Goto, poolVars, handlerVars, historyVars
    <3> QED BY <3>0, <3>2, <3>3 DEF LifeInv, Undisputed, InChan, HeldBy,
       BeforeBegin,
       BeforeUpdate, Running
  <2>25. ASSUME NEW w \in Workers, EndRun(w)
         PROVE  LifeInv'
    BY <2>25 DEF EndRun, Goto, BeforeBegin, BeforeUpdate, Running,
       AfterUpdate,
       LifeInv, Undisputed, InChan, HeldBy, TypeOK,
       regVars, poolVars, workerVars, handlerVars, historyVars
  <2>26. ASSUME NEW n \in Sizes, ResizeBegin(n)
         PROVE  LifeInv'
    BY <2>26 DEF ResizeBegin,
       LifeInv, Undisputed, InChan, HeldBy, TypeOK,
       regVars, poolVars, workerVars, handlerVars, historyVars
  <2>27. ASSUME ResizeEnd
         PROVE  LifeInv'
    <3>1. /\ \A w \in Workers : pc'[w] \in {"idle", "gone"}
          /\ UNCHANGED <<reg, jobs, posting, did, queuedCancels>>
      BY <2>27 DEF ResizeEnd, regVars, handlerVars, historyVars
    <3> QED BY <3>1 DEF LifeInv, Undisputed, InChan, HeldBy, BeforeBegin,
       BeforeUpdate, Running
  <2>28. ASSUME Drain
         PROVE  LifeInv'
    BY <2>28 DEF Drain,
       LifeInv, Undisputed, InChan, HeldBy, TypeOK,
       regVars, poolVars, workerVars, handlerVars, historyVars
  <2>29. ASSUME ShutdownBegin
         PROVE  LifeInv'
    BY <2>29 DEF ShutdownBegin,
       LifeInv, Undisputed, InChan, HeldBy, TypeOK,
       regVars, poolVars, workerVars, handlerVars, historyVars
  <2>30. ASSUME ShutdownEnd
         PROVE  LifeInv'
    BY <2>30 DEF ShutdownEnd,
       LifeInv, Undisputed, InChan, HeldBy, TypeOK,
       regVars, poolVars, workerVars, handlerVars, historyVars
  <2>31. ASSUME MainReturns
         PROVE  LifeInv'
    BY <2>31 DEF MainReturns,
       LifeInv, Undisputed, InChan, HeldBy, TypeOK,
       regVars, poolVars, workerVars, handlerVars, historyVars
  <2> QED BY <1>2, <2>1, <2>2, <2>3, <2>4, <2>5, <2>6, <2>7, <2>8, <2>9, <2>10,
     <2>11, <2>12, <2>13, <2>14, <2>15, <2>16, <2>17, <2>18, <2>19, <2>20,
     <2>21, <2>22, <2>23, <2>24, <2>25, <2>26, <2>27, <2>28, <2>29,
     <2>30, <2>31 DEF Next, PostStep, CancelStep, LaunchStep, WaitStep, RunStep
  <1> QED BY <1>1, <1>2

LEMMA LifeCorrect == Spec => []LifeInv
  <1>1. Init => LifeInv
    BY DEF Init, LifeInv, InChan, HeldBy, BeforeBegin, BeforeUpdate, Running
  <1>2. TypeOK /\ Busy /\ OneHolder /\ LifeInv /\ [Next]_vars => LifeInv'
    BY LifeStep
  <1> QED BY <1>1, <1>2, TypesAndBusy, HoldersUnique, PTL DEF Spec

(***************************************************************************)
(* The refinement: each step of the pool is a step of JobLifecycle on the  *)
(* abstract status, or leaves it alone.                                    *)
(***************************************************************************)

\* A step that leaves the registry and the disputed jobs alone is a stutter.
LEMMA StatusKept ==
  ASSUME UNCHANGED <<reg, queuedCancels>>
  PROVE  LifeStatus' = LifeStatus
  BY DEF LifeStatus

\* A step that moves one undisputed job moves its abstract status alone.
LEMMA StatusMoved ==
  ASSUME NEW id \in Ids, id \notin queuedCancels, UNCHANGED queuedCancels, NEW s,
         reg'[id] = s, \A k \in Ids : k # id => reg'[k] = reg[k]
  PROVE  LifeStatus' = [LifeStatus EXCEPT ![id] = s] /\ LifeStatus[id] = reg[id]
  BY DEF LifeStatus

\* A step that writes the status of a disputed job only is a stutter.
LEMMA DisputedMoved ==
  ASSUME NEW id \in queuedCancels, UNCHANGED queuedCancels,
         \A k \in Ids : k # id => reg'[k] = reg[k]
  PROVE  LifeStatus' = LifeStatus
  BY DEF LifeStatus

\* markFinished is a Forget or a stutter.
LEMMA FiledForgets ==
  ASSUME TypeOK, NEW id \in Ids, MarkFinished(id), UNCHANGED queuedCancels
  PROVE  LifeStatus' = LifeStatus \/ \E k \in Ids : Lifecycle!Forget(k)
  <1>1. CASE reg' = reg
    BY <1>1, StatusKept
  <1>2. CASE \E k \in Ids : reg[k] \in Terminal /\ reg' = [reg EXCEPT ![k] = "absent"]
    <2>1. PICK k \in Ids : reg[k] \in Terminal /\ reg' = [reg EXCEPT ![k] = "absent"]
      BY <1>2
    <2>2. reg'[k] = "absent" /\ \A j \in Ids : j # k => reg'[j] = reg[j]
      BY <2>1 DEF TypeOK
    <2>3. CASE k \in queuedCancels
      BY <2>2, <2>3, DisputedMoved
    <2>4. CASE k \notin queuedCancels
      <3>1. LifeStatus' = [LifeStatus EXCEPT ![k] = "absent"] /\ LifeStatus[k] = reg[k]
        BY <2>2, <2>4, StatusMoved
      <3> QED BY <2>1, <3>1 DEF LifeStatus, Lifecycle!Forget, Lifecycle!Move,
         Lifecycle!Terminal, Terminal
    <2> QED BY <2>3, <2>4
  <1> QED BY <1>1, <1>2, MarkFinishedEffect

LEMMA LifeSimulation ==
  ASSUME TypeOK, Busy, LifeInv, [Next]_vars
  PROVE  Lifecycle!Next \/ LifeStatus' = LifeStatus
  <1>1. CASE UNCHANGED vars
    BY <1>1, StatusKept DEF vars, regVars, historyVars
  <1>2. CASE Next
  <2>1. ASSUME NEW id \in Ids, PostAdd(id)
         PROVE  Lifecycle!Next \/ LifeStatus' = LifeStatus
    <3>1. reg[id] = "absent" /\ reg' = [reg EXCEPT ![id] = "queued"] /\ UNCHANGED queuedCancels
      BY <2>1 DEF PostAdd, historyVars
    <3>2. reg'[id] = "queued" /\ \A k \in Ids : k # id => reg'[k] = reg[k]
      BY <3>1 DEF TypeOK
    <3>3. CASE id \in queuedCancels
      BY <3>1, <3>2, <3>3, DisputedMoved
    <3>4. CASE id \notin queuedCancels
      BY <3>1, <3>2, <3>4, StatusMoved DEF LifeStatus, Lifecycle!Next,
         Lifecycle!Accept, Lifecycle!Move
    <3> QED BY <3>3, <3>4
  <2>2. ASSUME NEW id \in Ids, PostAnnounce(id)
         PROVE  Lifecycle!Next \/ LifeStatus' = LifeStatus
    BY <2>2, StatusKept DEF PostAnnounce, regVars, historyVars
  <2>3. ASSUME NEW id \in Ids, PostEnqueue(id)
         PROVE  Lifecycle!Next \/ LifeStatus' = LifeStatus
    BY <2>3, StatusKept DEF PostEnqueue, regVars, historyVars
  <2>4. ASSUME NEW id \in Ids, CancelRun(id)
         PROVE  Lifecycle!Next \/ LifeStatus' = LifeStatus
    BY <2>4, StatusKept DEF CancelRun, regVars, historyVars
  <2>5. ASSUME NEW c \in Cancelers, NEW id \in Ids, CancelLook(c, id)
         PROVE  Lifecycle!Next \/ LifeStatus' = LifeStatus
    <3>1. reg[id] = "queued" /\ UNCHANGED reg /\ queuedCancels' = queuedCancels \cup {id}
      BY <2>5 DEF CancelLook, regVars
    <3>2. CASE id \in queuedCancels
      BY <3>1, <3>2, StatusKept
    <3>3. CASE id \notin queuedCancels
      <4>1. LifeStatus' = [LifeStatus EXCEPT ![id] = "disputed"] /\ LifeStatus[id] = "queued"
        BY <3>1, <3>3 DEF LifeStatus
      <4> QED BY <4>1 DEF LifeStatus, Lifecycle!Next, Lifecycle!Dispute,
         Lifecycle!Move
    <3> QED BY <3>2, <3>3
  <2>6. ASSUME NEW c \in Cancelers, CancelMark(c)
         PROVE  Lifecycle!Next \/ LifeStatus' = LifeStatus
    <3>1. did[c] \in Ids /\ did[c] \in queuedCancels /\ UNCHANGED queuedCancels
      BY <2>6, BusyHas DEF CancelMark, LifeInv, Busy, historyVars
    <3>2. \A id \in Ids : id # did[c] => reg'[id] = reg[id]
      BY <2>6, <3>1, UpdateEffect DEF CancelMark
    <3> QED BY <3>1, <3>2, DisputedMoved
  <2>7. ASSUME NEW c \in Cancelers, CancelAnnounce(c)
         PROVE  Lifecycle!Next \/ LifeStatus' = LifeStatus
    BY <2>7, StatusKept DEF CancelAnnounce, regVars, historyVars
  <2>8. ASSUME NEW c \in Cancelers, CancelFile(c)
         PROVE  Lifecycle!Next \/ LifeStatus' = LifeStatus
    <3>1. did[c] \in Ids /\ MarkFinished(did[c]) /\ UNCHANGED queuedCancels
      BY <2>8, BusyHas DEF CancelFile, historyVars
    <3> QED BY <3>1, FiledForgets DEF Lifecycle!Next
  <2>9. ASSUME NEW w \in Workers, WorkerExit(w)
         PROVE  Lifecycle!Next \/ LifeStatus' = LifeStatus
    BY <2>9, StatusKept DEF WorkerExit, regVars, historyVars
  <2>10. ASSUME NEW w \in Workers, WorkerPick(w)
         PROVE  Lifecycle!Next \/ LifeStatus' = LifeStatus
    BY <2>10, StatusKept DEF WorkerPick, regVars, historyVars
  <2>11. ASSUME NEW w \in Workers, RunSkip(w)
         PROVE  Lifecycle!Next \/ LifeStatus' = LifeStatus
    BY <2>11, StatusKept DEF RunSkip, regVars, historyVars
  <2>12. ASSUME NEW w \in Workers, RunCheck(w)
         PROVE  Lifecycle!Next \/ LifeStatus' = LifeStatus
    BY <2>12, StatusKept DEF RunCheck, regVars, historyVars
  <2>13. ASSUME NEW w \in Workers, RunRegister(w)
         PROVE  Lifecycle!Next \/ LifeStatus' = LifeStatus
    BY <2>13, StatusKept DEF RunRegister, regVars, historyVars
  <2>14. ASSUME NEW w \in Workers, RunBegin(w)
         PROVE  Lifecycle!Next \/ LifeStatus' = LifeStatus
    <3>1. job[w] \in Ids /\ HeldBy(job[w], w, BeforeBegin) /\ UNCHANGED queuedCancels
      BY <2>14, BusyHas DEF RunBegin, Goto, historyVars, HeldBy, BeforeBegin,
         BeforeUpdate,
         Running
    <3>2. \A k \in Ids : k # job[w] => reg'[k] = reg[k]
      BY <2>14, <3>1, UpdateEffect DEF RunBegin
    <3>3. CASE job[w] \in queuedCancels
      BY <3>1, <3>2, <3>3, DisputedMoved
    <3>4. CASE job[w] \notin queuedCancels
      <4>1. reg[job[w]] = "queued"
        BY <3>1, <3>4 DEF LifeInv, Undisputed
      <4>2. reg'[job[w]] = "running"
        BY <2>14, <3>1, <4>1, UpdateEffect DEF RunBegin
      <4>3. LifeStatus' = [LifeStatus EXCEPT ![job[w]] = "running"] /\ LifeStatus[job[w]] = "queued"
        BY <3>1, <3>2, <3>4, <4>1, <4>2, StatusMoved
      <4>4. out[w] \in {"completed", "failed", "canceled"}
        BY DEF TypeOK, Terminal
      <4>5. Lifecycle!Start(job[w])
        BY <4>3, <4>4 DEF LifeStatus, Lifecycle!Start, Lifecycle!Move,
           Lifecycle!Terminal
      <4>6. \E k \in Ids : Lifecycle!Start(k)
        BY <3>1, <4>5
      <4> QED BY <4>6 DEF Lifecycle!Next
    <3> QED BY <3>3, <3>4
  <2>15. ASSUME NEW w \in Workers, RunAnnounce(w)
         PROVE  Lifecycle!Next \/ LifeStatus' = LifeStatus
    BY <2>15, StatusKept DEF RunAnnounce, regVars, historyVars
  <2>16. ASSUME NEW w \in Workers, LaunchFails(w)
         PROVE  Lifecycle!Next \/ LifeStatus' = LifeStatus
    BY <2>16, StatusKept DEF LaunchFails, regVars, historyVars
  <2>17. ASSUME NEW w \in Workers, Launch(w)
         PROVE  Lifecycle!Next \/ LifeStatus' = LifeStatus
    BY <2>17, StatusKept DEF Launch, regVars, historyVars
  <2>18. ASSUME NEW w \in Workers, ProcExits(w)
         PROVE  Lifecycle!Next \/ LifeStatus' = LifeStatus
    BY <2>18, StatusKept DEF ProcExits, regVars, historyVars
  <2>19. ASSUME NEW w \in Workers, ObserveExit(w)
         PROVE  Lifecycle!Next \/ LifeStatus' = LifeStatus
    BY <2>19, StatusKept DEF ObserveExit, regVars, historyVars
  <2>20. ASSUME NEW w \in Workers, ObserveCancel(w)
         PROVE  Lifecycle!Next \/ LifeStatus' = LifeStatus
    BY <2>20, StatusKept DEF ObserveCancel, regVars, historyVars
  <2>21. ASSUME NEW w \in Workers, Killed(w)
         PROVE  Lifecycle!Next \/ LifeStatus' = LifeStatus
    BY <2>21, StatusKept DEF Killed, regVars, historyVars
  <2>22. ASSUME NEW w \in Workers, EndUpdate(w)
         PROVE  Lifecycle!Next \/ LifeStatus' = LifeStatus
    <3>1. job[w] \in Ids /\ HeldBy(job[w], w, BeforeUpdate) /\ UNCHANGED queuedCancels
      BY <2>22, BusyHas DEF EndUpdate, Goto, historyVars, HeldBy, BeforeBegin,
         BeforeUpdate,
         Running
    <3>2. \A k \in Ids : k # job[w] => reg'[k] = reg[k]
      BY <2>22, <3>1, UpdateEffect DEF EndUpdate
    <3>3. CASE job[w] \in queuedCancels
      BY <3>1, <3>2, <3>3, DisputedMoved
    <3>4. CASE job[w] \notin queuedCancels
      <4>1. reg[job[w]] = "running"
        BY <3>1, <3>4 DEF LifeInv, Undisputed
      <4>2. reg'[job[w]] = out[w]
        BY <2>22, <3>1, <4>1, UpdateEffect DEF EndUpdate
      <4>3. LifeStatus' = [LifeStatus EXCEPT ![job[w]] = out[w]] /\ LifeStatus[job[w]] = "running"
        BY <3>1, <3>2, <3>4, <4>1, <4>2, StatusMoved
      <4>4. out[w] \in {"completed", "failed", "canceled"}
        BY DEF TypeOK, Terminal
      <4>5. Lifecycle!Finish(job[w])
        BY <4>3, <4>4 DEF LifeStatus, Lifecycle!Finish, Lifecycle!Move,
           Lifecycle!Terminal
      <4>6. \E k \in Ids : Lifecycle!Finish(k)
        BY <3>1, <4>5
      <4> QED BY <4>6 DEF Lifecycle!Next
    <3> QED BY <3>3, <3>4
  <2>23. ASSUME NEW w \in Workers, EndAnnounce(w)
         PROVE  Lifecycle!Next \/ LifeStatus' = LifeStatus
    BY <2>23, StatusKept DEF EndAnnounce, regVars, historyVars
  <2>24. ASSUME NEW w \in Workers, EndFile(w)
         PROVE  Lifecycle!Next \/ LifeStatus' = LifeStatus
    <3>1. job[w] \in Ids /\ MarkFinished(job[w]) /\ UNCHANGED queuedCancels
      BY <2>24, BusyHas DEF EndFile, Goto, historyVars
    <3> QED BY <3>1, FiledForgets DEF Lifecycle!Next
  <2>25. ASSUME NEW w \in Workers, EndRun(w)
         PROVE  Lifecycle!Next \/ LifeStatus' = LifeStatus
    BY <2>25, StatusKept DEF EndRun, regVars, historyVars
  <2>26. ASSUME NEW n \in Sizes, ResizeBegin(n)
         PROVE  Lifecycle!Next \/ LifeStatus' = LifeStatus
    BY <2>26, StatusKept DEF ResizeBegin, regVars, historyVars
  <2>27. ASSUME ResizeEnd
         PROVE  Lifecycle!Next \/ LifeStatus' = LifeStatus
    BY <2>27, StatusKept DEF ResizeEnd, regVars, historyVars
  <2>28. ASSUME Drain
         PROVE  Lifecycle!Next \/ LifeStatus' = LifeStatus
    BY <2>28, StatusKept DEF Drain, regVars, historyVars
  <2>29. ASSUME ShutdownBegin
         PROVE  Lifecycle!Next \/ LifeStatus' = LifeStatus
    BY <2>29, StatusKept DEF ShutdownBegin, regVars, historyVars
  <2>30. ASSUME ShutdownEnd
         PROVE  Lifecycle!Next \/ LifeStatus' = LifeStatus
    BY <2>30, StatusKept DEF ShutdownEnd, regVars, historyVars
  <2>31. ASSUME MainReturns
         PROVE  Lifecycle!Next \/ LifeStatus' = LifeStatus
    BY <2>31, StatusKept DEF MainReturns, regVars, historyVars
  <2> QED BY <1>2, <2>1, <2>2, <2>3, <2>4, <2>5, <2>6, <2>7, <2>8, <2>9, <2>10,
     <2>11, <2>12, <2>13, <2>14, <2>15, <2>16, <2>17, <2>18, <2>19, <2>20,
     <2>21, <2>22, <2>23, <2>24, <2>25, <2>26, <2>27, <2>28, <2>29,
     <2>30, <2>31 DEF Next, PostStep, CancelStep, LaunchStep, WaitStep, RunStep
  <1> QED BY <1>1, <1>2

\* The pool implements the job life cycle: whatever the DELETEs, resizes and
\* evictions, a job no DELETE caught in the queue goes from queued to running
\* to one terminal status, and is forgotten only after that.
THEOREM PoolImplementsLifecycle == Spec => ImplementsLifecycle
  <1>1. Init => Lifecycle!Init
    BY DEF Init, LifeStatus, Lifecycle!Init
  <1>2. TypeOK /\ Busy /\ LifeInv /\ [Next]_vars => [Lifecycle!Next]_LifeStatus
    BY LifeSimulation
  <1>3. [](TypeOK /\ Busy /\ LifeInv) /\ [][Next]_vars =>
        [][Lifecycle!Next]_LifeStatus
    BY <1>2, PTL
  <1>4. Spec => Lifecycle!Init /\ [][Lifecycle!Next]_LifeStatus
    BY <1>1, <1>3, TypesAndBusy, LifeCorrect, PTL DEF Spec
  <1> QED BY <1>4, PTL DEF ImplementsLifecycle, Lifecycle!Spec

=============================================================================
