------------------------------ MODULE YtDlpRun ------------------------------
(***************************************************************************)
(* One run of yt-dlp (run, main.go): the process writes lines to a pipe, a *)
(* goroutine scans them and handleStdoutLine publishes what they say, a    *)
(* second one waits for the process and so closes the pipe, and run itself *)
(* waits for a cancel or for the exit, then for the scanner.               *)
(*                                                                         *)
(* The directory is that of the job, and only the files of its source [id] *)
(* are in it.  Nothing is said of standard error.                          *)
(***************************************************************************)
EXTENDS Naturals, SequencesExt

CONSTANTS
  Scripts, \* the outputs a run may have: sequences of Lines
  Nothing  \* no path

VARIABLES
  pc,     \* run: "idle", "select", "killing", "drain",
          \* "drain-canceled", "over"
  script, \* what yt-dlp has still to print
  proc,   \* the process: "running", "ok", "error"
  pipe,   \* what it printed and nobody read
  buf,    \* what the scanner has read and not handled
  deaf,   \* it has given up
  closed, \* cmd.Wait has closed the pipe
  probed, \* the path captured last
  cancel, \* the run's context is canceled
  events, \* the types of the events published
  files   \* the directory

runVars == <<pc, script, proc, pipe, buf, deaf, closed, probed, cancel, events, files>>

\* What yt-dlp prints: the probes of --print, and its progress.
Lines == {"TITLE", "SEASON", "DEST:source", "DEST:final", "PROGRESS", "FINAL"}
\* "source" is the file before audio is extracted from it, "old" a finished
\* file of an earlier download.
Names == {"part", "source", "final", "old"}
Terminal == {"completed", "failed", "canceled"}

\* The final path is the last to be printed (--print after_move), and a run that
\* ends well has printed it.
ASSUME RunAssumption ==
  \A lines \in Scripts : lines \in Seq(Lines) /\ lines # <<>> /\ Last(lines) = "FINAL"

RunInit ==
  /\ pc = "idle" /\ script = <<>> /\ proc = "ok" /\ pipe = <<>> /\ buf = <<>>
  /\ deaf = FALSE /\ closed = FALSE /\ probed = Nothing /\ cancel = FALSE /\ events = <<>>
  /\ files \in {{}, {"old"}, {"part"}}

Publish(type) == events' = Append(events, type)
PublishOnce(type) == events' = IF type \in ToSet(events) THEN events ELSE Append(events, type)

\* run up to the select; the scanners and the waiter are started.
Launch(lines) ==
  /\ pc = "idle"
  /\ pc' = "select" /\ script' = lines /\ proc' = "running"
  /\ Publish("running")
  /\ UNCHANGED <<pipe, buf, deaf, closed, probed, cancel, files>>

\* run fails before the process starts: the cookies file is gone, say.
LaunchFails ==
  /\ pc = "idle"
  /\ pc' = "over"
  /\ events' = <<"running", "failed">>
  /\ UNCHANGED <<script, proc, pipe, buf, deaf, closed, probed, cancel, files>>

\* What yt-dlp has done when it prints a line.
Effect(line) ==
  CASE line = "PROGRESS" -> files \cup {"part"}
    [] line = "FINAL" -> (files \ {"part"}) \cup {"final"}
    [] OTHER -> files

\* yt-dlp prints its next line.
Prints ==
  /\ proc = "running" /\ script # <<>>
  /\ pipe' = Append(pipe, Head(script))
  /\ files' = Effect(Head(script))
  /\ script' = Tail(script)
  /\ UNCHANGED <<pc, proc, buf, deaf, closed, probed, cancel, events>>

\* It exits: when it is through, or at any time with an error.  A signal may
\* find it just done.
Exits ==
  /\ proc = "running"
  /\ proc' \in IF script = <<>> THEN {"ok", "error"} ELSE {"error"}
  /\ UNCHANGED <<pc, script, pipe, buf, deaf, closed, probed, cancel, events, files>>

\* The scanner, out of lines, reads all there is in the pipe.
Reads ==
  /\ ~closed /\ ~deaf /\ pipe # <<>> /\ buf = <<>>
  /\ buf' = pipe /\ pipe' = <<>>
  /\ UNCHANGED <<pc, script, proc, deaf, closed, probed, cancel, events, files>>

\* A line is longer than 1 MB: the scanner stops, and handles no other. yt-dlp may
\* block on the pipe, and so print no more.
GivesUp ==
  /\ ~deaf /\ (buf # <<>> \/ (pipe # <<>> /\ ~closed))
  /\ deaf' = TRUE /\ buf' = <<>>
  /\ UNCHANGED <<pc, script, proc, pipe, closed, probed, cancel, events, files>>

\* The path a line gives, the last one counts.
Probe(line) ==
  CASE line = "DEST:source" -> "source"
    [] line \in {"DEST:final", "FINAL"} -> "final"
    [] OTHER -> probed

\* handleStdoutLine.
Handle(line) ==
  /\ probed' = Probe(line)
  /\ \/ line \in {"TITLE", "SEASON"} /\ PublishOnce(line)
     \/ line = "PROGRESS" /\ Publish(line)
     \/ line \notin {"TITLE", "SEASON", "PROGRESS"} /\ UNCHANGED events

Scans ==
  /\ buf # <<>>
  /\ Handle(Head(buf)) /\ buf' = Tail(buf)
  /\ UNCHANGED <<pc, script, proc, pipe, deaf, closed, cancel, files>>

\* cmd.Wait returns in its goroutine: the pipe is closed, and what the scanner
\* has not read is lost.
WaitReturns ==
  /\ pc \in {"select", "killing"} /\ proc # "running" /\ ~closed
  /\ closed' = TRUE /\ pipe' = <<>>
  /\ UNCHANGED <<pc, script, proc, buf, deaf, probed, cancel, events, files>>

\* A DELETE, a resize or a shutdown cancels the context.
Cancel ==
  /\ pc = "select" /\ ~cancel
  /\ cancel' = TRUE
  /\ UNCHANGED <<pc, script, proc, pipe, buf, deaf, closed, probed, events, files>>

\* The select: SIGINT, and SIGKILL after 3 s, or the exit.  Either, if both
\* are ready.
Interrupt ==
  /\ pc = "select" /\ cancel
  /\ pc' = "killing"
  /\ UNCHANGED <<script, proc, pipe, buf, deaf, closed, probed, cancel, events, files>>

Exited ==
  /\ closed /\ pc \in {"select", "killing"}
  /\ pc' = IF pc = "select" THEN "drain" ELSE "drain-canceled"
  /\ UNCHANGED <<script, proc, pipe, buf, deaf, closed, probed, cancel, events, files>>

\* Mutant: the terminal event does not wait for the scanner.
NotDrained == TRUE

\* parserWG.Wait.
Drained == buf = <<>>

\* The terminal event, with the captured path.
Finish ==
  /\ pc \in {"drain", "drain-canceled"} /\ Drained
  /\ Publish(IF pc = "drain-canceled" THEN "canceled"
             ELSE IF proc = "ok" THEN "completed" ELSE "failed")
  /\ pc' = "over"
  /\ UNCHANGED <<script, proc, pipe, buf, deaf, closed, probed, cancel, files>>

RunNext ==
  \/ Prints \/ Exits \/ Reads \/ GivesUp \/ Scans \/ WaitReturns
  \/ Cancel \/ Interrupt \/ Exited \/ Finish

-----------------------------------------------------------------------------
(* The web service's side of the path (cleanup.ts).                        *)

\* Mutant: the captured path is taken as it is.
CapturedPath(path) == IF path \in files THEN {path} ELSE {}

\* resolveActualFile: the captured path, else a finished file of its [id]; the
\* newest, by dates that yt-dlp may take from the source.
ActualFile(path) ==
  IF path = Nothing THEN {} ELSE IF path \in files THEN {path} ELSE files \ {"part"}

\* The events of a run come in order: running first, then at most one title and
\* one season, and nothing after the terminal event, whatever the scanner has
\* left to read when the process exits or is killed (main.go:677).
EventsInOrder ==
  \A i, k \in DOMAIN events :
    /\ (events[i] = "running") = (i = 1)
    /\ events[i] \in Terminal => i = Len(events)
    /\ events[i] = events[k] /\ events[i] \in {"TITLE", "SEASON"} => i = k

\* Of a completed run of which any path was captured, the web service finds the
\* file, even if the end of the output, with the final path, was lost
\* (main.go:657); unless an earlier download of the same [id] lies beside it.
PathFound ==
  pc = "over" /\ Last(events) = "completed" /\ probed # Nothing /\ "old" \notin files =>
    ActualFile(probed) = {"final"}
=============================================================================
