---------------------------- MODULE DownloadPool ----------------------------
(***************************************************************************)
(* The downloader service's job registry and worker pool, from             *)
(* src/downloader/cmd/downloader/main.go (Registry, Pool, postJob,         *)
(* deleteJob, patchConfig and the shutdown sequence of main).              *)
(*                                                                         *)
(* One step of this module is one critical section of the code (a registry *)
(* operation under Registry.mu, a publish under EventBus.mu, a channel or  *)
(* sync.Map operation), so every interleaving of the goroutines serving    *)
(* POST, DELETE and PATCH requests and of the workers is a behaviour.  The *)
(* yt-dlp child of a run is either alive or has exited; what it prints is  *)
(* not modelled here.                                                      *)
(***************************************************************************)
EXTENDS Naturals, Sequences, FiniteSets

CONSTANTS
  Ids,          \* job ids; the web service mints a fresh UUID for each job
  Cancelers,    \* goroutines serving DELETE /jobs/{id}
  MaxParallel,  \* the largest pool size a PATCH /config asks for
  InitParallel, \* Config.MaxParallel, the size the pool starts with
  ChanCap,      \* capacity of Pool.jobs (1000 in the code)
  RingCap,      \* Registry.cap, finished entries kept (50 in the code)
  None          \* "no job": a model value outside Ids

Sizes == 1..MaxParallel
Workers == 1..MaxParallel

ASSUME PoolAssumption ==
  /\ MaxParallel \in Nat \ {0}
  /\ InitParallel \in Sizes
  /\ ChanCap \in Nat \ {0}
  /\ RingCap \in Nat \ {0}
  /\ None \notin Ids \cup Nat

Terminal == {"completed", "failed", "canceled"}
Statuses == {"queued", "running"} \cup Terminal

\* The places of Pool.worker and Pool.run between two critical sections.
BeforeBegin == {"picked", "checked", "registered"}
Running == {"begun", "launching", "alive", "exited", "killing"}
BeforeUpdate == Running \cup {"ending"}
AfterUpdate == {"updated", "told", "filed"}
PCs == {"gone", "idle"} \cup BeforeBegin \cup BeforeUpdate \cup AfterUpdate

VARIABLES
  \* Registry
  reg,       \* status of each job in Registry.jobs, "absent" if not there
  ring,      \* Registry.finished, oldest first
  \* Pool
  jobs,      \* the channel Pool.jobs
  cancelFns, \* Pool.cancelFns: the worker whose run an id's CancelFunc stops
  poolDone,  \* whether workersCtx has been cancelled
  size,      \* Pool.maxParallel
  target,    \* argument of the resize holding Pool.mu
  mu,        \* who holds Pool.mu: "free", "resize" or "shutdown"
  \* one worker goroutine per slot
  pc,        \* where the worker is
  job,       \* the job it is running
  ctxDone,   \* whether the CancelFunc of its run has been called
  out,       \* the status its run will report ("failed" while undecided)
  \* request handlers and main
  posting,   \* where the POST /jobs handler of an id is
  dpc, did,  \* where a DELETE handler is, and for which id
  phase,     \* main: "serving", "draining", "down" once Pool.shutdown has
             \* returned, "stopped" when the process is gone
  \* history
  said,          \* the last status event published for each id
  queuedCancels, \* ids a DELETE found queued (cancel's second branch)
  late           \* ids picked by a worker after Pool.shutdown has returned

regVars == <<reg, ring>>
poolVars == <<jobs, cancelFns, poolDone, size, target, mu>>
workerVars == <<pc, job, ctxDone, out>>
handlerVars == <<posting, dpc, did, phase>>
historyVars == <<said, queuedCancels, late>>
vars == <<regVars, poolVars, workerVars, handlerVars, historyVars>>

-----------------------------------------------------------------------------
(* Registry operations, each one critical section of Registry.mu.          *)

\* Registry.update(id, fn): fn runs only when the entry still exists.
Update(id, status) ==
  reg' = [reg EXCEPT ![id] = IF @ = "absent" THEN @ ELSE status]

\* Mutant: the ring's overflow loop is missing.
MarkFinishedNoLoop(id) ==
  \/ reg[id] = "absent" /\ UNCHANGED regVars
  \/ reg[id] # "absent" /\ ring' = Append(ring, id) /\ UNCHANGED reg

\* Mutant: the ring rotates and the evicted entry stays in the registry.
MarkFinishedKeeps(id) ==
  \/ reg[id] = "absent" /\ UNCHANGED regVars
  \/ /\ reg[id] # "absent"
     /\ ring' = IF Len(ring) < RingCap THEN Append(ring, id) ELSE Tail(Append(ring, id))
     /\ UNCHANGED reg

\* Registry.markFinished: append to the ring and evict its oldest entry when
\* it overflows; an evicted id leaves the registry only if it is terminal.
\* The ring holds at most RingCap ids before, so the loop runs at most once.
MarkFinished(id) ==
  \/ /\ reg[id] = "absent"
     /\ UNCHANGED regVars
  \/ /\ reg[id] # "absent"
     /\ Len(ring) < RingCap
     /\ ring' = Append(ring, id)
     /\ UNCHANGED reg
  \/ /\ reg[id] # "absent"
     /\ Len(ring) >= RingCap
     /\ ring' = Tail(Append(ring, id))
     /\ reg' = [reg EXCEPT ![Head(ring)] = IF @ \in Terminal THEN "absent" ELSE @]

\* EventBus.publish of a status event.
Publish(id, status) == said' = [said EXCEPT ![id] = status]

-----------------------------------------------------------------------------
(* POST /jobs: add to the registry, publish queued, then enqueue.          *)

\* registry.add, which refuses an id it already has.
PostAdd(id) ==
  /\ posting[id] = "new"
  /\ reg[id] = "absent"
  /\ reg' = [reg EXCEPT ![id] = "queued"]
  /\ posting' = [posting EXCEPT ![id] = "added"]
  /\ UNCHANGED <<ring, poolVars, workerVars, dpc, did, phase, historyVars>>

PostAnnounce(id) ==
  /\ posting[id] = "added"
  /\ Publish(id, "queued")
  /\ posting' = [posting EXCEPT ![id] = "announced"]
  /\ UNCHANGED <<regVars, poolVars, workerVars, dpc, did, phase, queuedCancels,
                 late>>

\* Mutant: a non-blocking send, which drops the job when the channel is full.
PostEnqueueDrops(id) ==
  /\ posting[id] = "announced"
  /\ jobs' = IF Len(jobs) < ChanCap THEN Append(jobs, id) ELSE jobs
  /\ posting' = [posting EXCEPT ![id] = "accepted"]
  /\ UNCHANGED <<regVars, cancelFns, poolDone, size, target, mu, workerVars,
                 dpc, did, phase, historyVars>>

\* p.jobs <- j blocks while the channel is full.
PostEnqueue(id) ==
  /\ posting[id] = "announced"
  /\ Len(jobs) < ChanCap
  /\ jobs' = Append(jobs, id)
  /\ posting' = [posting EXCEPT ![id] = "accepted"]
  /\ UNCHANGED <<regVars, cancelFns, poolDone, size, target, mu, workerVars,
                 dpc, did, phase, historyVars>>

-----------------------------------------------------------------------------
(* DELETE /jobs/{id}: Pool.cancel.                                          *)

\* cancelFns has the id: call its CancelFunc and return.
CancelRun(id) ==
  /\ cancelFns[id] \in Workers
  /\ ctxDone' = [ctxDone EXCEPT ![cancelFns[id]] = TRUE]
  /\ UNCHANGED <<regVars, poolVars, pc, job, out, handlerVars, historyVars>>

\* Otherwise a job the registry shows as queued will be marked canceled, in a
\* later critical section; in every other case cancel does nothing.  Its two
\* reads, of cancelFns and of the registry, are one step: a job that is queued
\* at the second was so at the first, or was added between the two.
CancelLook(c, id) ==
  /\ dpc[c] = "idle"
  /\ cancelFns[id] = None
  /\ reg[id] = "queued"
  /\ dpc' = [dpc EXCEPT ![c] = "saw"]
  /\ did' = [did EXCEPT ![c] = id]
  /\ queuedCancels' = queuedCancels \cup {id}
  /\ UNCHANGED <<regVars, poolVars, workerVars, posting, phase, said, late>>

CancelMark(c) ==
  /\ dpc[c] = "saw"
  /\ Update(did[c], "canceled")
  /\ dpc' = [dpc EXCEPT ![c] = "marked"]
  /\ UNCHANGED <<ring, poolVars, workerVars, posting, did, phase, historyVars>>

CancelAnnounce(c) ==
  /\ dpc[c] = "marked"
  /\ Publish(did[c], "canceled")
  /\ dpc' = [dpc EXCEPT ![c] = "told"]
  /\ UNCHANGED <<regVars, poolVars, workerVars, posting, did, phase, queuedCancels,
                 late>>

CancelFile(c) ==
  /\ dpc[c] = "told"
  /\ MarkFinished(did[c])
  /\ dpc' = [dpc EXCEPT ![c] = "idle"]
  /\ did' = [did EXCEPT ![c] = None]
  /\ UNCHANGED <<poolVars, workerVars, posting, phase, historyVars>>

-----------------------------------------------------------------------------
(* A worker goroutine: Pool.worker around Pool.run.                         *)

Goto(w, from, to) ==
  /\ pc[w] = from
  /\ pc' = [pc EXCEPT ![w] = to]

\* The two cases of worker's select; when both are ready Go picks either.
WorkerExit(w) ==
  /\ poolDone
  /\ Goto(w, "idle", "gone")
  /\ UNCHANGED <<regVars, poolVars, job, ctxDone, out, handlerVars, historyVars>>

WorkerPick(w) ==
  /\ jobs # <<>>
  /\ Goto(w, "idle", "picked")
  /\ job' = [job EXCEPT ![w] = Head(jobs)]
  /\ jobs' = Tail(jobs)
  /\ late' = IF phase = "down" THEN late \cup {Head(jobs)} ELSE late
  /\ UNCHANGED <<regVars, cancelFns, poolDone, size, target, mu, ctxDone, out,
                 handlerVars, said, queuedCancels>>

\* run's first test: skip a job that was canceled while queued.
RunSkip(w) ==
  /\ Goto(w, "picked", "idle")
  /\ reg[job[w]] = "canceled"
  /\ job' = [job EXCEPT ![w] = None]
  /\ UNCHANGED <<regVars, poolVars, ctxDone, out, handlerVars, historyVars>>

RunCheck(w) ==
  /\ Goto(w, "picked", "checked")
  /\ reg[job[w]] # "canceled"
  /\ UNCHANGED <<regVars, poolVars, job, ctxDone, out, handlerVars, historyVars>>

\* Mutant: the run's CancelFunc is not stored.
RunUnregistered(w) ==
  /\ Goto(w, "checked", "registered")
  /\ UNCHANGED <<regVars, poolVars, job, ctxDone, out, handlerVars, historyVars>>

RunRegister(w) ==
  /\ Goto(w, "checked", "registered")
  /\ cancelFns' = [cancelFns EXCEPT ![job[w]] = w]
  /\ UNCHANGED <<regVars, jobs, poolDone, size, target, mu, job, ctxDone, out,
                 handlerVars, historyVars>>

RunBegin(w) ==
  /\ Goto(w, "registered", "begun")
  /\ Update(job[w], "running")
  /\ UNCHANGED <<ring, poolVars, job, ctxDone, out, handlerVars, historyVars>>

RunAnnounce(w) ==
  /\ Goto(w, "begun", "launching")
  /\ Publish(job[w], "running")
  /\ UNCHANGED <<regVars, poolVars, job, ctxDone, out, handlerVars, queuedCancels, late>>

\* Mutant: the return after p.fail is missing.
LaunchFailsOn(w) ==
  /\ Goto(w, "launching", "alive")
  /\ Update(job[w], "failed")
  /\ UNCHANGED <<ring, poolVars, job, ctxDone, out, handlerVars, historyVars>>

\* A cookie jar that cannot be copied, a pipe or a start error: p.fail.
LaunchFails(w) ==
  /\ Goto(w, "launching", "ending")
  /\ out' = [out EXCEPT ![w] = "failed"]
  /\ UNCHANGED <<regVars, poolVars, job, ctxDone, handlerVars, historyVars>>

Launch(w) ==
  /\ Goto(w, "launching", "alive")
  /\ UNCHANGED <<regVars, poolVars, job, ctxDone, out, handlerVars, historyVars>>

\* Mutants: the run's context is the workers' own, or hangs off Background.
CtxOfPool(w) == poolDone
CtxOfJob(w) == ctxDone[w]

\* The run's context derives from workersCtx: it is done when either is.
CtxDone(w) == ctxDone[w] \/ poolDone

\* yt-dlp exits on its own, with success or not; cmd.Wait fills doneCh.
ProcExits(w) ==
  /\ Goto(w, "alive", "exited")
  /\ \E o \in {"completed", "failed"} : out' = [out EXCEPT ![w] = o]
  /\ UNCHANGED <<regVars, poolVars, job, ctxDone, handlerVars, historyVars>>

\* select takes <-doneCh: the exit status decides.
ObserveExit(w) ==
  /\ Goto(w, "exited", "ending")
  /\ UNCHANGED <<regVars, poolVars, job, ctxDone, out, handlerVars, historyVars>>

\* select takes <-ctx.Done(), even when doneCh is ready too.
ObserveCancel(w) ==
  /\ CtxDone(w)
  /\ \/ Goto(w, "alive", "killing")
     \/ Goto(w, "exited", "ending")
  /\ out' = [out EXCEPT ![w] = "canceled"]
  /\ UNCHANGED <<regVars, poolVars, job, ctxDone, handlerVars, historyVars>>

\* SIGINT, and SIGKILL after three seconds: the child is gone and reaped.
Killed(w) ==
  /\ Goto(w, "killing", "ending")
  /\ UNCHANGED <<regVars, poolVars, job, ctxDone, out, handlerVars, historyVars>>

EndUpdate(w) ==
  /\ Goto(w, "ending", "updated")
  /\ Update(job[w], out[w])
  /\ UNCHANGED <<ring, poolVars, job, ctxDone, out, handlerVars, historyVars>>

EndAnnounce(w) ==
  /\ Goto(w, "updated", "told")
  /\ Publish(job[w], out[w])
  /\ UNCHANGED <<regVars, poolVars, job, ctxDone, out, handlerVars, queuedCancels, late>>

EndFile(w) ==
  /\ Goto(w, "told", "filed")
  /\ MarkFinished(job[w])
  /\ UNCHANGED <<poolVars, job, ctxDone, out, handlerVars, historyVars>>

\* The deferred cancelFns.Delete; run's locals, its context among them, are
\* gone and the worker loops.
EndRun(w) ==
  /\ Goto(w, "filed", "idle")
  /\ cancelFns' = [cancelFns EXCEPT ![job[w]] = None]
  /\ job' = [job EXCEPT ![w] = None]
  /\ ctxDone' = [ctxDone EXCEPT ![w] = FALSE]
  /\ out' = [out EXCEPT ![w] = "failed"]
  /\ UNCHANGED <<regVars, jobs, poolDone, size, target, mu, handlerVars, historyVars>>

-----------------------------------------------------------------------------
(* PATCH /config: Pool.resize, which holds Pool.mu across wg.Wait().        *)

\* n = size is the no-op branch.  The handler may have been waiting for Pool.mu,
\* or for the rest of its request, since before the SIGTERM.
ResizeBegin(n) ==
  /\ mu = "free"
  /\ n # size
  /\ mu' = "resize"
  /\ target' = n
  /\ poolDone' = TRUE
  /\ UNCHANGED <<regVars, jobs, cancelFns, size, workerVars, handlerVars, historyVars>>

AllGone == \A w \in Workers : pc[w] = "gone"

\* Mutant: the new workers start without wg.Wait().
ResizeEndEarly ==
  /\ mu = "resize"
  /\ size' = target
  /\ poolDone' = FALSE
  /\ mu' = "free"
  /\ pc' = [w \in Workers |->
             IF pc[w] = "gone" /\ w <= target THEN "idle" ELSE pc[w]]
  /\ UNCHANGED <<regVars, jobs, cancelFns, target, job, ctxDone, out,
                 handlerVars, historyVars>>

ResizeEnd ==
  /\ mu = "resize"
  /\ AllGone
  /\ size' = target
  /\ poolDone' = FALSE
  /\ mu' = "free"
  /\ pc' = [w \in Workers |-> IF w <= target THEN "idle" ELSE "gone"]
  /\ UNCHANGED <<regVars, jobs, cancelFns, target, job, ctxDone, out,
                 handlerVars, historyVars>>

-----------------------------------------------------------------------------
(* main: SIGTERM, http Shutdown, then Pool.shutdown.                        *)

\* No new connection is accepted; the handlers already running go on, and as
\* they may not have come to their first step yet, no action asks for "serving".
Drain ==
  /\ phase = "serving"
  /\ phase' = "draining"
  /\ UNCHANGED <<regVars, poolVars, workerVars, posting, dpc, did, historyVars>>

\* Mutant: shutdown cancels the runs and does not stop the workers.
ShutdownBeginRunsOnly ==
  /\ phase = "draining"
  /\ mu = "free"
  /\ mu' = "shutdown"
  /\ ctxDone' = [w \in Workers |-> ctxDone[w] \/ \E id \in Ids : cancelFns[id] = w]
  /\ UNCHANGED <<regVars, jobs, cancelFns, poolDone, size, target, pc, job, out,
                 handlerVars, historyVars>>

\* http Shutdown returns when the handlers are done or after ten seconds;
\* Pool.shutdown then waits for Pool.mu and cancels every registered run.
ShutdownBegin ==
  /\ phase = "draining"
  /\ mu = "free"
  /\ mu' = "shutdown"
  /\ ctxDone' = [w \in Workers |-> ctxDone[w] \/ \E id \in Ids : cancelFns[id] = w]
  /\ poolDone' = TRUE
  /\ UNCHANGED <<regVars, jobs, cancelFns, size, target, pc, job, out,
                 handlerVars, historyVars>>

\* Mutant: Pool.shutdown returns without wg.Wait().
ShutdownEndEarly ==
  /\ mu = "shutdown"
  /\ mu' = "free"
  /\ phase' = "down"
  /\ UNCHANGED <<regVars, jobs, cancelFns, poolDone, size, target, workerVars,
                 posting, dpc, did, historyVars>>

\* wg.Wait() returns, and the deferred unlock lets the next one have Pool.mu.
ShutdownEnd ==
  /\ mu = "shutdown"
  /\ AllGone
  /\ mu' = "free"
  /\ phase' = "down"
  /\ UNCHANGED <<regVars, jobs, cancelFns, poolDone, size, target, workerVars,
                 posting, dpc, did, historyVars>>

\* main returns: the process is gone, in whatever state its goroutines are.
MainReturns ==
  /\ phase = "down"
  /\ phase' = "stopped"
  /\ UNCHANGED <<regVars, poolVars, workerVars, posting, dpc, did, historyVars>>

-----------------------------------------------------------------------------
Init ==
  /\ reg = [id \in Ids |-> "absent"]
  /\ ring = <<>>
  /\ jobs = <<>>
  /\ cancelFns = [id \in Ids |-> None]
  /\ poolDone = FALSE
  /\ size = InitParallel
  /\ target = InitParallel
  /\ mu = "free"
  /\ pc = [w \in Workers |-> IF w <= InitParallel THEN "idle" ELSE "gone"]
  /\ job = [w \in Workers |-> None]
  /\ ctxDone = [w \in Workers |-> FALSE]
  /\ out = [w \in Workers |-> "failed"]
  /\ posting = [id \in Ids |-> "new"]
  /\ dpc = [c \in Cancelers |-> "idle"]
  /\ did = [c \in Cancelers |-> None]
  /\ phase = "serving"
  /\ said = [id \in Ids |-> "none"]
  /\ queuedCancels = {}
  /\ late = {}

PostStep(id) == PostAnnounce(id) \/ PostEnqueue(id)
CancelStep(c) == CancelMark(c) \/ CancelAnnounce(c) \/ CancelFile(c)
LaunchStep(w) == Launch(w) \/ LaunchFails(w)
WaitStep(w) == ObserveExit(w) \/ ObserveCancel(w) \/ Killed(w)
RunStep(w) ==
  \/ RunSkip(w) \/ RunCheck(w) \/ RunRegister(w) \/ RunBegin(w)
  \/ RunAnnounce(w) \/ LaunchStep(w) \/ WaitStep(w)
  \/ EndUpdate(w) \/ EndAnnounce(w) \/ EndFile(w) \/ EndRun(w)

Up == phase # "stopped"

Next ==
  /\ Up
  /\ \/ \E id \in Ids : PostAdd(id) \/ PostStep(id) \/ CancelRun(id)
     \/ \E c \in Cancelers : CancelStep(c) \/ \E id \in Ids : CancelLook(c, id)
     \/ \E w \in Workers : WorkerExit(w) \/ WorkerPick(w) \/ RunStep(w) \/ ProcExits(w)
     \/ \E n \in Sizes : ResizeBegin(n)
     \/ ResizeEnd \/ Drain \/ ShutdownBegin \/ ShutdownEnd \/ MainReturns

(***************************************************************************)
(* Fairness.  Handlers and workers are goroutines, which the Go scheduler  *)
(* does not starve.  select chooses at random among its ready cases, so a  *)
(* case of the worker loop that is ready again and again is taken: strong  *)
(* fairness.  So is one who waits for Pool.mu, which a Go mutex hands over  *)
(* in order once somebody has waited for a millisecond, whatever requests  *)
(* there are.  Clients need not send anything, yt-dlp need not exit unless *)
(* it is killed, and no SIGTERM need arrive.                               *)
(***************************************************************************)
Fairness ==
  /\ \A id \in Ids : WF_vars(Up /\ PostStep(id))
  /\ \A c \in Cancelers : WF_vars(Up /\ CancelStep(c))
  /\ \A w \in Workers : /\ SF_vars(Up /\ WorkerExit(w))
                        /\ SF_vars(Up /\ WorkerPick(w))
                        /\ WF_vars(Up /\ RunStep(w))
  /\ WF_vars(Up /\ ResizeEnd)
  /\ SF_vars(ShutdownBegin)
  /\ WF_vars(ShutdownEnd)
  /\ WF_vars(MainReturns)

Spec == Init /\ [][Next]_vars /\ Fairness

-----------------------------------------------------------------------------
TypeOK ==
  /\ reg \in [Ids -> Statuses \cup {"absent"}]
  /\ ring \in Seq(Ids) /\ Len(ring) <= RingCap
  /\ jobs \in Seq(Ids) /\ Len(jobs) <= ChanCap
  /\ cancelFns \in [Ids -> Workers \cup {None}]
  /\ poolDone \in BOOLEAN
  /\ size \in Sizes
  /\ target \in Sizes
  /\ mu \in {"free", "resize", "shutdown"}
  /\ pc \in [Workers -> PCs]
  /\ job \in [Workers -> Ids \cup {None}]
  /\ ctxDone \in [Workers -> BOOLEAN]
  /\ out \in [Workers -> Terminal]
  /\ posting \in [Ids -> {"new", "added", "announced", "accepted"}]
  /\ dpc \in [Cancelers -> {"idle", "saw", "marked", "told"}]
  /\ did \in [Cancelers -> Ids \cup {None}]
  /\ phase \in {"serving", "draining", "down", "stopped"}
  /\ said \in [Ids -> Statuses \cup {"none"}]
  /\ queuedCancels \in SUBSET Ids
  /\ late \in SUBSET Ids

(* Where a job can be between its 202 and its terminal status.             *)
InChan(id) == \E i \in 1..Len(jobs) : jobs[i] = id
InRing(id) == \E i \in 1..Len(ring) : ring[i] = id
HeldBy(id, w, pcs) == job[w] = id /\ pc[w] \in pcs
Pending(id) ==
  \/ posting[id] \in {"added", "announced"}
  \/ InChan(id)
  \/ \E w \in Workers : HeldBy(id, w, BeforeBegin)

\* No job is stranded: an entry the registry shows as queued is still with
\* its POST handler, in the channel or with a worker that has not begun it,
\* and one it shows as running has a worker that will give it its terminal
\* status, whatever resizes, cancels and evictions happened in between.
JobsAccounted ==
  \A id \in Ids :
    /\ reg[id] = "queued" => Pending(id)
    /\ reg[id] = "running" => \E w \in Workers : HeldBy(id, w, BeforeUpdate)

\* Terminal entries do not accumulate: each is in the ring, from which it
\* will be evicted, or someone is about to put it there (markFinished drops
\* an id from the ring without deleting a job that is not terminal).
NoTerminalLeak ==
  \A id \in Ids : reg[id] \in Terminal =>
    \/ InRing(id)
    \/ \E w \in Workers : HeldBy(id, w, {"updated", "told"})
    \/ \E c \in Cancelers : did[c] = id /\ dpc[c] \in {"marked", "told"}

\* Pool.resize: however the pool is resized, at most Pool.maxParallel yt-dlp
\* processes are alive.
ParallelLimit ==
  Cardinality({w \in Workers : pc[w] \in {"alive", "killing"}}) <= size

\* A DELETE reaches every yt-dlp that is alive, and it stops that job's run
\* and no other.
RunsAreCancelable ==
  \A w \in Workers : pc[w] = "alive" => cancelFns[job[w]] = w

\* Pool.shutdown: every run that is under way when it is called, or that a
\* worker picks while it waits, has come to its end and reported its status
\* when it returns; and what main leaves behind when the process goes is at
\* most what was picked since, by the workers of a PATCH that had waited for
\* Pool.mu meanwhile.
StoppedMeansReaped ==
  phase \in {"down", "stopped"} =>
    /\ \A w \in Workers : job[w] # None => job[w] \in late
    /\ \A id \in Ids : reg[id] = "running" => id \in late

\* The job life cycle of JobLifecycle, for every job a DELETE did not catch
\* in the queue.
LifeStatus == [id \in Ids |-> IF id \in queuedCancels THEN "disputed" ELSE reg[id]]
Lifecycle == INSTANCE JobLifecycle WITH status <- LifeStatus
ImplementsLifecycle == Lifecycle!Spec

\* Every job the registry accepts gets a terminal status event, provided that
\* no yt-dlp runs for ever and main is not told to stop: no interleaving of
\* resizes, cancels and evictions loses one.  (It need not be the last event:
\* a DELETE that arrives between the add and the publish of postJob has its
\* canceled followed by queued.)
DownloadsEnd == \A w \in Workers : []<>(pc[w] # "alive")
JobsSettle ==
  DownloadsEnd =>
    \A id \in Ids :
      posting[id] = "added" ~> (said[id] \in Terminal \/ phase # "serving")

\* DELETE of a running job: its yt-dlp dies, also when it never exits by
\* itself, unless main returns first.
CancelStopsRun ==
  \A w \in Workers :
    (pc[w] = "alive" /\ ctxDone[w]) ~> (pc[w] \notin {"alive", "killing"} \/ ~ Up)

\* PATCH /config returns: resize's wg.Wait() does not hang on a run.
ResizeCompletes == (mu = "resize") ~> (mu # "resize" \/ ~ Up)

\* After SIGTERM main returns.
ShutdownCompletes == (phase = "draining") ~> (phase = "stopped")

\* What docs/api.md says of PATCH /config and the comment in resize of
\* in-flight jobs: a run ends as canceled only if a DELETE (or the shutdown)
\* asked for it.
ResizeSparesJobs ==
  [][\A w \in Workers :
       pc[w] = "alive" /\ pc'[w] = "killing" => ctxDone[w] \/ mu = "shutdown"]_vars

\* What docs/architecture.md says of cancellation from queued, and the comment
\* in cancel: once DELETE has answered for a job it found queued, no yt-dlp
\* of that job is alive.
QueuedCancelNeverRuns ==
  \A w \in Workers : pc[w] = "alive" =>
    job[w] \notin queuedCancels \/ \E c \in Cancelers : did[c] = job[w]

=============================================================================
