---------------------------- MODULE DesktopView ----------------------------
(***************************************************************************)
(* The queue page in the desktop application.  Its window has no socket to *)
(* the web service: the shell subscribes to the downloader's events itself *)
(* and emits them to the window (events.rs), while the page fetches its    *)
(* snapshot from the web service, which has the same events in its own     *)
(* time (use-jobs-ws.ts).  So events and snapshot take two ways, and the   *)
(* page begins to listen while the snapshot is under way.                  *)
(***************************************************************************)
EXTENDS LiveView

VARIABLES
  passed,    \* how many of the run's events the shell emitted or missed
  fetched,   \* the page's GET /api/jobs: where it is, its answer, and how many
             \* events the web service had had when it gave it
  listening, \* the page's listener is registered
  emitted,   \* what was emitted to it and is on the way
  shown,     \* the status of the job on the page, or "none"
  gap        \* history: an event passed the page by

desktopVars == <<passed, fetched, listening, emitted, shown, gap>>

Fetched(at, status, since) == fetched' = [at |-> at, status |-> status, since |-> since]

DesktopInit ==
  /\ passed = 0 /\ fetched = [at |-> "closed", status |-> "none", since |-> 0]
  /\ listening = FALSE /\ emitted = <<>> /\ shown = "none" /\ gap = FALSE

\* The next event is emitted, to whoever listens.
Emits ==
  /\ fetched.at # "closed"
  /\ passed < Len(events)
  /\ passed' = passed + 1
  /\ emitted' = IF listening THEN Append(emitted, events[passed']) ELSE emitted
  /\ UNCHANGED <<liveVars, fetched, listening, shown, gap>>

\* The stream ends, and 2 s later there is a new one, without what was published
\* until then.
Misses ==
  /\ fetched.at # "closed"
  /\ passed < Len(events)
  /\ passed' = Len(events)
  /\ gap' = TRUE
  /\ UNCHANGED <<liveVars, fetched, listening, emitted, shown>>

\* The page is opened, wherever the shell has got to: it asks for the snapshot, and
\* for its listener.
OpensPage ==
  /\ fetched.at = "closed"
  /\ Fetched("asked", "none", 0)
  /\ passed' \in 0 .. Len(events)
  /\ UNCHANGED <<liveVars, listening, emitted, shown, gap>>

Listens ==
  /\ fetched.at # "closed" /\ ~ listening
  /\ listening' = TRUE
  /\ gap' = (gap \/ (fetched.at = "got" /\ passed > fetched.since))
  /\ UNCHANGED <<liveVars, passed, fetched, emitted, shown>>

\* GET /api/jobs.
Answers ==
  /\ fetched.at = "asked"
  /\ Fetched("answered", ActiveStatus, told)
  /\ UNCHANGED <<liveVars, passed, listening, emitted, shown, gap>>

\* The answer arrives.  It replaces what the page has learnt from the events.
Arrives ==
  /\ fetched.at = "answered"
  /\ Fetched("got", "none", fetched.since)
  /\ shown' = fetched.status
  /\ gap' = (gap \/ (listening /\ passed - Len(emitted) > fetched.since))
  /\ UNCHANGED <<liveVars, passed, listening, emitted>>

\* It does not, and the page does without.
FetchFails ==
  /\ fetched.at \in {"asked", "answered"}
  /\ Fetched("got", "none", 0)
  /\ gap' = (gap \/ passed > 0)
  /\ UNCHANGED <<liveVars, passed, listening, emitted, shown>>

\* Mutant: a status event of a job that the page does not have is dropped.
HearsKnown ==
  /\ emitted # <<>>
  /\ emitted' = Tail(emitted)
  /\ shown' = ApplyKnown(shown, Head(emitted))
  /\ UNCHANGED <<liveVars, passed, fetched, listening, gap>>

\* The listener is called.
Hears ==
  /\ emitted # <<>>
  /\ emitted' = Tail(emitted)
  /\ shown' = Apply(shown, Head(emitted))
  /\ UNCHANGED <<liveVars, passed, fetched, listening, gap>>

\* The page is left.
Leaves ==
  /\ fetched.at # "closed"
  /\ Fetched("closed", "none", 0)
  /\ listening' = FALSE /\ emitted' = <<>> /\ shown' = "none" /\ gap' = FALSE
  /\ passed' = 0
  /\ UNCHANGED liveVars

DesktopNext ==
  \/ Emits \/ Misses
  \/ OpensPage \/ Listens \/ Answers \/ Arrives \/ FetchFails \/ Hears \/ Leaves

DesktopTypes ==
  /\ passed \in 0 .. Len(events)
  /\ fetched \in [at : {"closed", "asked", "answered", "got"},
                  status : Active \cup {"none"}, since : 0 .. Len(events)]
  /\ {listening, gap} \subseteq BOOLEAN
  /\ emitted \in Seq(EventTypes) /\ shown \in Active \cup {"none"}

\* The page in the application shows the same, once the web service and the shell
\* have passed on all events and nothing is on the way.  It does not matter which
\* of the two is behind; but an event that the snapshot does not know of and that
\* came before it, or before the listener, is never shown (use-jobs-ws.ts:142-166),
\* nor one that the shell missed (events.rs:42-49): a job may stay on the page that
\* is over.
DesktopTrue ==
  /\ fetched.at = "got" /\ listening /\ emitted = <<>>
  /\ told = Len(events) /\ passed = Len(events) /\ ~ gap
  => /\ shown # "none" => row \in Active \/ silent
     /\ row = "running" => shown = "running"
=============================================================================
