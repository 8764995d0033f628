------------------------------ MODULE JobSync ------------------------------
(***************************************************************************)
(* How the rows of the web service's jobs table follow the jobs of the     *)
(* downloader: POST /api/jobs (src/web/src/app/api/jobs/route.ts), the     *)
(* event bus and the /events stream (src/downloader/cmd/downloader/        *)
(* main.go), and the consumer and reconciliation of src/web/server.ts.     *)
(*                                                                         *)
(* The downloader is DownloadPool seen per job: a registry operation and   *)
(* the publish that follows it stay separate steps.  The event stream is   *)
(* one queue, from EventBus.publish to applyEvent.  Either service may be  *)
(* restarted, and the stream may break, at any point.                      *)
(***************************************************************************)
EXTENDS Naturals, Sequences, SequencesExt

CONSTANTS
  Ids,       \* jobs
  Other,     \* any job whose row is not looked at
  BusCap,    \* capacity of a subscriber's channel (256 in the code)
  MaxFaults  \* bound: restarts, broken streams and failed GETs in a behaviour

ASSUME SyncAssumption ==
  /\ Other \notin Ids
  /\ BusCap \in Nat \ {0}
  /\ MaxFaults \in Nat

Active == {"queued", "running"}
Terminal == {"completed", "failed", "canceled"}
Statuses == Active \cup Terminal

VARIABLES
  \* downloader
  reg,       \* Registry.jobs: status, or "absent"
  run,       \* where the job is: with postJob ("added"), in the channel
             \* ("waiting") or in Pool.run
  del,       \* a DELETE of it in the second branch of Pool.cancel
  linked,    \* whether the bus has the web service as a subscriber
  bus,       \* the events on their way to it
  \* web service
  row,       \* status of its row, or "none"
  post,      \* its POST to the downloader: "adrift" if the web service that
             \* sent it is gone
  conn,      \* where consumeEvents is
  alive,     \* reconcileNow's set of ids
  faults,    \* restarts, broken streams and failed GETs so far
  \* history
  said,      \* the last status published
  missed,    \* jobs with an event that found no subscriber, or was never made
  overrun,   \* jobs with an event dropped because the channel was full
  early,     \* jobs whose canceled event went out before their queued event
  disputed,  \* jobs a DELETE found in the queue
  disowned   \* jobs at work in the downloader that the web service gave up

jobVars == <<reg, run, del>>
busVars == <<linked, bus, said, missed, overrun>>
webVars == <<row, post, conn, alive>>
oddVars == <<early, disputed, disowned>>
vars == <<jobVars, busVars, webVars, faults, oddVars>>

-----------------------------------------------------------------------------
(* EventBus.                                                               *)

Of(id) == {e \in ToSet(bus) : e.id = id}

\* Mutant: the channel is unbounded.
SendAll(e) ==
  /\ UNCHANGED <<linked, overrun>>
  /\ \/ linked /\ bus' = Append(bus, e) /\ UNCHANGED missed
     \/ ~ linked /\ missed' = missed \cup ({e.id} \cap Ids) /\ UNCHANGED bus

\* publish to a subscriber that keeps up, to none, or to one that does not
\* and loses its oldest event.
Send(e) ==
  /\ UNCHANGED linked
  /\ \/ /\ linked
        /\ Len(bus) < BusCap
        /\ bus' = Append(bus, e)
        /\ UNCHANGED <<missed, overrun>>
     \/ /\ linked
        /\ Len(bus) >= BusCap
        /\ bus' = Append(Tail(bus), e)
        /\ overrun' = overrun \cup ({Head(bus).id} \cap Ids)
        /\ UNCHANGED missed
     \/ /\ ~ linked
        /\ missed' = missed \cup ({e.id} \cap Ids)
        /\ UNCHANGED <<bus, overrun>>

Publish(id, status) ==
  /\ Send([id |-> id, status |-> status])
  /\ said' = [said EXCEPT ![id] = status]

\* The stream ends: what was on its way is lost.
Unsubscribed ==
  /\ linked' = FALSE
  /\ bus' = <<>>
  /\ missed' = missed \cup ({e.id : e \in ToSet(bus)} \cap Ids)
  /\ UNCHANGED <<said, overrun>>

-----------------------------------------------------------------------------
(* The downloader.                                                         *)

\* Registry.update: nothing happens to an entry that is gone.
Update(id, status) ==
  reg' = [reg EXCEPT ![id] = IF @ = "absent" THEN @ ELSE status]

Step(id, from, to) ==
  /\ run[id] = from
  /\ run' = [run EXCEPT ![id] = to]

\* postJob: add, publish, enqueue.  The web service may be gone by now.
PostAdd(id) ==
  /\ Step(id, "none", "added")
  /\ reg' = [reg EXCEPT ![id] = "queued"]
  /\ \/ post[id] = "sending" /\ post' = [post EXCEPT ![id] = "arrived"]
     \/ post[id] = "adrift" /\ post' = [post EXCEPT ![id] = "over"]
  /\ UNCHANGED <<del, busVars, row, conn, alive, faults, oddVars>>

PostSay(id) ==
  /\ Step(id, "added", "waiting")
  /\ Publish(id, "queued")
  /\ UNCHANGED <<reg, del, webVars, faults, oddVars>>

\* A worker picks the job and skips it if it was canceled.
Pick(id) ==
  /\ \/ Step(id, "waiting", "over") /\ reg[id] = "canceled"
     \/ Step(id, "waiting", "checked") /\ reg[id] # "canceled"
  /\ UNCHANGED <<reg, del, busVars, webVars, faults, oddVars>>

Begin(id) ==
  /\ Step(id, "checked", "begun")
  /\ Update(id, "running")
  /\ UNCHANGED <<del, busVars, webVars, faults, oddVars>>

BeginSay(id) ==
  /\ Step(id, "begun", "alive")
  /\ Publish(id, "running")
  /\ UNCHANGED <<reg, del, webVars, faults, oddVars>>

\* yt-dlp is done, or a DELETE, a resize or an error ends the run.
End(id) ==
  /\ \E o \in Terminal :
       /\ Step(id, "alive", o)
       /\ Update(id, o)
  /\ UNCHANGED <<del, busVars, webVars, faults, oddVars>>

EndSay(id) ==
  /\ run[id] \in Terminal
  /\ run' = [run EXCEPT ![id] = "over"]
  /\ Publish(id, run[id])
  /\ UNCHANGED <<reg, del, webVars, faults, oddVars>>

\* The ring evicts a finished entry.
Forget(id) ==
  /\ reg[id] \in Terminal
  /\ reg' = [reg EXCEPT ![id] = "absent"]
  /\ UNCHANGED <<run, del, busVars, webVars, faults, oddVars>>

\* Whatever else the downloader publishes: the progress of this job and the
\* events of all the others.
Chatter ==
  /\ linked
  /\ Send([id |-> Other, status |-> "running"])
  /\ UNCHANGED <<jobVars, said, webVars, faults, oddVars>>

\* Pool.cancel of a job that is queued and not yet registered by a worker.
CancelLook(id) ==
  /\ del[id] = "none"
  /\ reg[id] = "queued"
  /\ del' = [del EXCEPT ![id] = "saw"]
  /\ disputed' = disputed \cup {id}
  /\ UNCHANGED <<reg, run, busVars, webVars, faults, early, disowned>>

CancelMark(id) ==
  /\ del[id] = "saw"
  /\ del' = [del EXCEPT ![id] = "marked"]
  /\ Update(id, "canceled")
  /\ UNCHANGED <<run, busVars, webVars, faults, oddVars>>

CancelSay(id) ==
  /\ del[id] = "marked"
  /\ del' = [del EXCEPT ![id] = "none"]
  /\ Publish(id, "canceled")
  /\ early' = IF run[id] = "added" THEN early \cup {id} ELSE early
  /\ UNCHANGED <<reg, run, webVars, faults, disputed, disowned>>

-----------------------------------------------------------------------------
(* POST /api/jobs: a row, then the request.                                *)

InsertRow(id) ==
  /\ row[id] = "none"
  /\ row' = [row EXCEPT ![id] = "queued"]
  /\ post' = [post EXCEPT ![id] = "sending"]
  /\ UNCHANGED <<jobVars, busVars, conn, alive, faults, oddVars>>

\* The downloader answers once the job is in the channel.
PostAnswered(id) ==
  /\ post[id] = "arrived"
  /\ run[id] # "added"
  /\ post' = [post EXCEPT ![id] = "over"]
  /\ UNCHANGED <<jobVars, busVars, row, conn, alive, faults, oddVars>>

\* The request is lost, or its answer is: the route marks the row failed,
\* whatever it says by now.
PostFails(id) ==
  /\ post[id] \in {"sending", "arrived"}
  /\ post' = [post EXCEPT ![id] = "over"]
  /\ row' = [row EXCEPT ![id] = "failed"]
  /\ disowned' = IF post[id] = "arrived" THEN disowned \cup {id} ELSE disowned
  /\ UNCHANGED <<jobVars, busVars, conn, alive, faults, early, disputed>>

-----------------------------------------------------------------------------
(* consumeEvents.                                                          *)

\* Mutant: a reconnect reads on without reconcileNow.
ConnectOnly ==
  /\ conn = "down"
  /\ conn' = "reading"
  /\ linked' = TRUE
  /\ UNCHANGED <<jobVars, bus, said, missed, overrun, row, post, alive, faults, oddVars>>

\* fetch("/events") has its answer: the bus has a new subscriber.
Connect ==
  /\ conn = "down"
  /\ conn' = "open"
  /\ linked' = TRUE
  /\ UNCHANGED <<jobVars, bus, said, missed, overrun, row, post, alive, faults, oddVars>>

AtWork == {"added", "waiting", "checked", "begun", "alive"}
InRegistry(status) == {id \in Ids : reg[id] \in status}

\* Mutant: every job GET /jobs lists is taken for alive.
ListAll ==
  /\ conn = "open"
  /\ conn' = "listed"
  /\ alive' = InRegistry(Statuses)
  /\ UNCHANGED <<jobVars, busVars, row, post, faults, oddVars>>

\* reconcileNow's GET /jobs, or its failure, after which no id is alive.
List ==
  /\ conn = "open"
  /\ conn' = "listed"
  /\ \/ alive' = InRegistry(Active) /\ UNCHANGED faults
     \/ alive' = {} /\ faults < MaxFaults /\ faults' = faults + 1
  /\ disowned' = disowned \cup {id \in Ids \ alive' : run[id] \in AtWork}
  /\ UNCHANGED <<jobVars, busVars, row, post, early, disputed>>

\* Mutant: reconcileOrphans does not look at the row's own status.
ReconcileAll ==
  /\ conn = "listed"
  /\ conn' = "reading"
  /\ row' = [id \in Ids |->
       IF row[id] # "none" /\ id \notin alive THEN "failed" ELSE row[id]]
  /\ UNCHANGED <<jobVars, busVars, post, alive, faults, oddVars>>

\* reconcileOrphans; syncSettings and the first read follow.
Reconcile ==
  /\ conn = "listed"
  /\ conn' = "reading"
  /\ row' = [id \in Ids |->
       IF row[id] \in Active /\ id \notin alive THEN "failed" ELSE row[id]]
  /\ alive' = {}
  /\ UNCHANGED <<jobVars, busVars, post, faults, oddVars>>

\* Mutant: reconcileNow is not awaited, events are applied while it runs.
ApplyEventsEarly ==
  /\ conn \in {"open", "listed", "reading"}
  /\ bus # <<>>
  /\ bus' = Tail(bus)
  /\ row' = [id \in Ids |-> IF Head(bus).id = id THEN Head(bus).status ELSE row[id]]
  /\ UNCHANGED <<jobVars, linked, said, missed, overrun, post, conn, alive, faults, oddVars>>

\* applyEvent of a status event: updateJobStatus does not look at the status
\* it replaces.
ApplyEvent ==
  /\ conn = "reading"
  /\ bus # <<>>
  /\ bus' = Tail(bus)
  /\ row' = [id \in Ids |-> IF Head(bus).id = id THEN Head(bus).status ELSE row[id]]
  /\ UNCHANGED <<jobVars, linked, said, missed, overrun, post, conn, alive, faults, oddVars>>

\* read() says done, or throws: reconnect in two seconds.
Disconnected ==
  /\ conn = "reading"
  /\ ~ linked
  /\ conn' = "down"
  /\ UNCHANGED <<jobVars, busVars, row, post, alive, faults, oddVars>>

-----------------------------------------------------------------------------
(* Faults.                                                                 *)

Fault ==
  /\ faults < MaxFaults
  /\ faults' = faults + 1

StreamBreaks ==
  /\ Fault
  /\ linked
  /\ Unsubscribed
  /\ UNCHANGED <<jobVars, webVars, oddVars>>

\* Its requests under way have nobody to wait for them.
WebRestarts ==
  /\ Fault
  /\ Unsubscribed
  /\ conn' = "down"
  /\ alive' = {}
  /\ post' = [id \in Ids |-> CASE post[id] = "sending" -> "adrift"
                               [] post[id] = "arrived" -> "over"
                               [] OTHER -> post[id]]
  /\ UNCHANGED <<jobVars, row, oddVars>>

\* The registry and the runs are gone, and no event will tell of them.
DownloaderRestarts ==
  /\ Fault
  /\ reg' = [id \in Ids |-> "absent"]
  /\ run' = [id \in Ids |-> IF run[id] = "none" THEN "none" ELSE "over"]
  /\ del' = [id \in Ids |-> "none"]
  /\ linked' = FALSE
  /\ bus' = <<>>
  /\ missed' = missed \cup {id \in Ids :
       run[id] \notin {"none", "over"} \/ del[id] # "none" \/ Of(id) # {}}
  /\ UNCHANGED <<said, overrun, webVars, oddVars>>

-----------------------------------------------------------------------------
Init ==
  /\ reg = [id \in Ids |-> "absent"]
  /\ run = [id \in Ids |-> "none"]
  /\ del = [id \in Ids |-> "none"]
  /\ linked = FALSE
  /\ bus = <<>>
  /\ row = [id \in Ids |-> "none"]
  /\ post = [id \in Ids |-> "none"]
  /\ conn = "down"
  /\ alive = {}
  /\ faults = 0
  /\ said = [id \in Ids |-> "none"]
  /\ missed = {}
  /\ overrun = {}
  /\ early = {}
  /\ disputed = {}
  /\ disowned = {}

RunStep(id) == PostSay(id) \/ Pick(id) \/ Begin(id) \/ BeginSay(id) \/ EndSay(id)
CancelStep(id) == CancelMark(id) \/ CancelSay(id)
Consume == Connect \/ List \/ Reconcile \/ ApplyEvent \/ Disconnected

Next ==
  \/ \E id \in Ids :
       \/ InsertRow(id) \/ PostAdd(id) \/ PostAnswered(id) \/ PostFails(id)
       \/ RunStep(id) \/ End(id) \/ Forget(id) \/ CancelLook(id) \/ CancelStep(id)
  \/ Chatter \/ Consume
  \/ StreamBreaks \/ WebRestarts \/ DownloaderRestarts

(***************************************************************************)
(* Fairness.  Goroutines and the consumer's loop go on; the consumer tries *)
(* again until it connects; a request arrives or fails.  Jobs in the       *)
(* channel are picked, which is DownloadPool's JobsSettle.                 *)
(***************************************************************************)
Fairness ==
  /\ \A id \in Ids :
       /\ WF_vars(RunStep(id))
       /\ WF_vars(CancelStep(id))
       /\ WF_vars(post[id] = "sending" /\ (PostAdd(id) \/ PostFails(id)))
       /\ WF_vars(PostAnswered(id))
  /\ WF_vars(Consume)

Spec == Init /\ [][Next]_vars /\ Fairness

-----------------------------------------------------------------------------
TypeOK ==
  /\ reg \in [Ids -> Statuses \cup {"absent"}]
  /\ run \in [Ids -> AtWork \cup Terminal \cup {"none", "over"}]
  /\ del \in [Ids -> {"none", "saw", "marked"}]
  /\ linked \in BOOLEAN
  /\ bus \in Seq([id : Ids \cup {Other}, status : Statuses]) /\ Len(bus) <= BusCap
  /\ row \in [Ids -> Statuses \cup {"none"}]
  /\ post \in [Ids -> {"none", "sending", "adrift", "arrived", "over"}]
  /\ conn \in {"down", "open", "listed", "reading"}
  /\ alive \in SUBSET Ids
  /\ faults \in 0..MaxFaults
  /\ said \in [Ids -> Statuses \cup {"none"}]
  /\ missed \in SUBSET Ids
  /\ overrun \in SUBSET Ids
  /\ early \in SUBSET Ids
  /\ disputed \in SUBSET Ids
  /\ disowned \in SUBSET Ids

Following == conn = "reading" /\ linked

\* The registry is ahead of what the downloader has published.
Unsaid(id) == run[id] \in {"added", "begun"} \cup Terminal \/ del[id] # "none"

\* What the table says is what the downloader last said: while the consumer
\* is connected a row without an event under way, or about to be, has the last
\* status published, however the reconciliation of the reconnect and the
\* events that came meanwhile interleaved.  The exceptions lost an event, had
\* two in the wrong order, or the web service gave them up while the
\* downloader had them.
RowsMirror ==
  \A id \in Ids \ (missed \cup overrun \cup early \cup disowned) :
    Following /\ said[id] # "none" /\ ~ Unsaid(id) /\ Of(id) = {} => row[id] = said[id]

\* No row is left behind as queued or running: while the consumer is
\* connected such a row has its request or its job still under way, or an
\* event.  The exceptions are an event dropped from a full channel, and a
\* DELETE that overtook the queued event.
NoStaleRow ==
  \A id \in Ids \ (overrun \cup early) :
    Following /\ row[id] \in Active =>
      \/ post[id] = "sending"
      \/ run[id] \notin {"none", "over"}
      \/ del[id] # "none"
      \/ Of(id) # {}

\* A completed download, which has gone on to hashing and the upload, stays
\* completed, unless a DELETE found the job queued or its POST failed after
\* the downloader had taken it.
CompletedIsFinal ==
  [][\A id \in Ids : row[id] = "completed" =>
       row'[id] = "completed" \/ id \in disputed \/ id \in disowned']_vars

\* Every row reaches a terminal status, across restarts of both services and
\* broken streams, provided that no download runs for ever.
RowsSettle ==
  (\A id \in Ids : []<>(run[id] # "alive")) =>
    \A id \in Ids :
      row[id] \in Active ~> row[id] \in Terminal \/ id \in overrun \cup early

\* What the comment in consumeEvents says of the reconciliation: it marks
\* failed the rows the downloader does not know about, of which a job it has
\* as completed is none, and certainly not when no event will say so.
OnlyUnknownFail ==
  [][\A id \in Ids :
       Reconcile /\ row[id] # row'[id] =>
         reg[id] # "completed" \/ Unsaid(id) \/ Of(id) # {}]_vars

=============================================================================
