------------------------------ MODULE LiveView ------------------------------
(***************************************************************************)
(* How one job gets to the queue page of a browser: the run publishes its  *)
(* events (YtDlpRun), the web service applies each one it is sent to the   *)
(* job's row and broadcasts it (server.ts, ws-hub.ts), and the page merges *)
(* a snapshot and the events after it into its view (use-jobs-ws.ts).      *)
(*                                                                         *)
(* JobSync has the event stream itself, and what a reconciliation races    *)
(* with; here a lost stream comes back, and is reconciled, in one step.    *)
(***************************************************************************)
EXTENDS YtDlpRun

VARIABLES
  row,    \* the status of the job's row, "none" before the insert
  told,   \* how many of the run's events the web service got or missed
  socket, \* the page's socket: "closed" or "open"
  wire,   \* what was sent to it and is on the way
  view,   \* the status of the job on the page, or "none"
  silent  \* the row ended by a write that is not broadcast

liveVars == <<runVars, row, told, socket, wire, view, silent>>

Active == {"queued", "running"}

LiveInit ==
  /\ RunInit
  /\ row = "none" /\ told = 0 /\ silent = FALSE
  /\ socket = "closed" /\ wire = <<>> /\ view = "none"

\* insertJob: not broadcast.
Insert ==
  /\ row = "none"
  /\ row' = "queued"
  /\ UNCHANGED <<runVars, told, socket, wire, view, silent>>

\* The downloader did not take the job.
PostFails ==
  /\ row = "queued" /\ pc = "idle"
  /\ row' = "failed" /\ silent' = TRUE
  /\ UNCHANGED <<runVars, told, socket, wire, view>>

\* A worker takes it.
Starts ==
  /\ row = "queued"
  /\ LaunchFails \/ \E lines \in Scripts : Launch(lines)
  /\ UNCHANGED <<row, told, socket, wire, view, silent>>

\* broadcast: to the sockets that are open.
Broadcast(message) == wire' = IF socket = "open" THEN Append(wire, message) ELSE wire

\* applyEvent, as far as the status goes, and the broadcast that follows it.
Delivered ==
  /\ told < Len(events)
  /\ told' = told + 1
  /\ LET event == events[told'] IN
       /\ row' = IF event \in Active \cup Terminal THEN event ELSE row
       /\ silent' = (silent /\ event \notin Active)
       /\ Broadcast([type |-> "event", status |-> event])
  /\ UNCHANGED <<runVars, socket, view>>

\* The stream was lost, and with it what was published; reconcileNow ends the
\* row of a job that the downloader no longer runs, without a broadcast.
Reconciled ==
  /\ told < Len(events)
  /\ told' = Len(events)
  /\ IF row \in Active /\ pc = "over" THEN row' = "failed" /\ silent' = TRUE
     ELSE UNCHANGED <<row, silent>>
  /\ UNCHANGED <<runVars, socket, wire, view>>

\* listActiveJobs.
ActiveStatus == IF row \in Active THEN row ELSE "none"
Snapshot == [type |-> "snapshot", status |-> ActiveStatus]

\* The socket is registered and sent the snapshot in one turn.
SendSnapshot == wire' = <<Snapshot>> /\ socket' = "open"

\* The page connects.
Connect ==
  /\ socket = "closed"
  /\ SendSnapshot
  /\ UNCHANGED <<runVars, row, told, view, silent>>

\* The socket closes, for the page is left or the connection lost; the view is
\* kept until the next snapshot.
Disconnect ==
  /\ socket = "open"
  /\ socket' = "closed" /\ wire' = <<>>
  /\ UNCHANGED <<runVars, row, told, view, silent>>

\* Mutant: a status event of an unknown job is dropped.
ApplyKnown(shown, status) ==
  IF status \in Terminal THEN "none"
  ELSE IF status \in Active /\ shown # "none" THEN status ELSE shown

\* apply: a terminal status takes the job off the view, any other sets it, even
\* of a job the view does not have.
Apply(shown, status) ==
  IF status \in Terminal THEN "none" ELSE IF status \in Active THEN status ELSE shown

\* onmessage.
Message ==
  /\ wire # <<>>
  /\ wire' = Tail(wire)
  /\ view' = IF Head(wire).type = "snapshot" THEN Head(wire).status
             ELSE Apply(view, Head(wire).status)
  /\ UNCHANGED <<runVars, row, told, socket, silent>>

LiveNext ==
  \/ Insert \/ PostFails \/ Starts \/ Delivered \/ Reconciled
  \/ Connect \/ Disconnect \/ Message
  \/ RunNext /\ UNCHANGED <<row, told, socket, wire, view, silent>>

EventTypes == {"running", "TITLE", "SEASON", "PROGRESS"} \cup Terminal
Messages == [type : {"snapshot"}, status : Active \cup {"none"}]
              \cup [type : {"event"}, status : EventTypes]

LiveTypes ==
  /\ pc \in {"idle", "select", "killing", "drain", "drain-canceled", "over"}
  /\ script \in Seq(Lines) /\ pipe \in Seq(Lines) /\ buf \in Seq(Lines)
  /\ proc \in {"running", "ok", "error"} /\ files \subseteq Names
  /\ probed \in Names \cup {Nothing} /\ {deaf, closed, cancel, silent} \subseteq BOOLEAN
  /\ events \in Seq(EventTypes) /\ told \in 0 .. Len(events)
  /\ row \in Active \cup Terminal \cup {"none"} /\ view \in Active \cup {"none"}
  /\ socket \in {"open", "closed"} /\ wire \in Seq(Messages)

\* With the socket open and nothing on the way, the page has no job that is over,
\* unless its row was ended by a write that nobody broadcasts (the reconciliation
\* or a refused POST), and every running job, as running; however the snapshot,
\* the events and lost connections fall together (use-jobs-ws.ts:56-140).
BrowserTrue ==
  socket = "open" /\ wire = <<>> =>
    /\ view # "none" => row \in Active \/ silent
    /\ row = "running" => view = "running"
=============================================================================
