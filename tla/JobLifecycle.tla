---------------------------- MODULE JobLifecycle ----------------------------
(***************************************************************************)
(* What the downloader promises about the status of a job: the state       *)
(* machine of src/docs/architecture.md ("State machine") as main.go's      *)
(* JobStatus and Registry realise it.                                      *)
(*                                                                         *)
(*      absent -> queued -> running -> completed | failed | canceled       *)
(*                                                                         *)
(* and back to absent when the registry forgets a finished job.  A job     *)
(* that a DELETE caught in the queue is "disputed": the request and the    *)
(* worker that picks the job write its status without looking at each      *)
(* other, so nothing more is promised about it.                            *)
(***************************************************************************)
CONSTANT Ids

VARIABLE status

Terminal == {"completed", "failed", "canceled"}

Move(id, from, to) ==
  /\ status[id] \in from
  /\ status' = [status EXCEPT ![id] = to]

Accept(id) == Move(id, {"absent"}, "queued")
Start(id) == Move(id, {"queued"}, "running")
Finish(id) == \E o \in Terminal : Move(id, {"running"}, o)
Forget(id) == Move(id, Terminal, "absent")
Dispute(id) == Move(id, {"queued"}, "disputed")

Init == status = [id \in Ids |-> "absent"]

Next ==
  \E id \in Ids : Accept(id) \/ Start(id) \/ Finish(id) \/ Forget(id) \/ Dispute(id)

Spec == Init /\ [][Next]_status
=============================================================================
