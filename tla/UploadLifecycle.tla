-------------------------- MODULE UploadLifecycle --------------------------
(***************************************************************************)
(* What the web service promises about a finished download and MEGA: the   *)
(* pipeline of src/docs/architecture.md ("MEGA upload pipeline"), as       *)
(* mega_status in the jobs table, and the two places where the file is.    *)
(*                                                                         *)
(*      null -> pending -> uploading -> uploaded | failed | canceled       *)
(*                                                                         *)
(* Failed and canceled uploads may be asked for again; uploaded is final,  *)
(* and the local file is only removed once MEGA has it, or with its row.   *)
(* An upload that the end of a hashing asks for when it is under way or    *)
(* done is "disputed": nothing is promised of its status until the service *)
(* restarts, but all of its file.  An entry that is overwritten is         *)
(* "retired", and its copies go.                                           *)
(***************************************************************************)
CONSTANT Ids

VARIABLES
  status,
  disk, mega  \* the ids whose file is on disk, and those whose file MEGA has

vars == <<status, disk, mega>>

Retryable == {"null", "failed", "canceled"}
Statuses == Retryable \cup {"pending", "uploading", "uploaded", "absent", "disputed",
                          "retired"}

Move(id, from, to) ==
  /\ status[id] \in from
  /\ status' = [status EXCEPT ![id] = to]

\* The download is there.
Land(id) ==
  /\ status[id] \in {"null", "absent"}
  /\ disk' = disk \cup {id}
  /\ UNCHANGED <<status, mega>>

Ask(id) == Move(id, Retryable, "pending") /\ UNCHANGED <<disk, mega>>
Dispute(id) ==
  Move(id, {"pending", "uploading", "uploaded"}, "disputed") /\ UNCHANGED <<disk, mega>>
Begin(id) == Move(id, {"pending"}, "uploading") /\ UNCHANGED <<disk, mega>>
Drop(id) == \E to \in {"failed", "canceled"} :
  Move(id, {"pending"}, to) /\ UNCHANGED <<disk, mega>>

\* The upload ends; MEGA may have the file even if it was canceled.
Stop(id) ==
  /\ \E to \in {"failed", "canceled"} : Move(id, {"uploading"}, to)
  /\ mega' \in {mega, mega \cup {id}}
  /\ UNCHANGED disk
Done(id) ==
  /\ Move(id, {"uploading"}, "uploaded")
  /\ mega' = mega \cup {id}
  /\ UNCHANGED disk

\* The local copy goes.
Clean(id) ==
  /\ status[id] \in {"uploaded", "disputed", "absent"} /\ id \in mega
  /\ disk' = disk \ {id}
  /\ UNCHANGED <<status, mega>>

\* What a disputed upload may do besides, even when its row is gone.
Send(id) ==
  /\ status[id] \in {"disputed", "absent"}
  /\ mega' = mega \cup {id}
  /\ UNCHANGED <<status, disk>>

\* The user deletes the row.
Forget(id) ==
  /\ Move(id, Retryable \cup {"disputed"}, "absent")
  /\ disk' \in {disk, disk \ {id}}
  /\ UNCHANGED mega

\* An overwrite deletes the entry, in whatever state, and its copies with it.
Retire(id) ==
  /\ status[id] # "retired"
  /\ status' = [status EXCEPT ![id] = "retired"]
  /\ disk' \in {disk, disk \ {id}}
  /\ mega' \in {mega, mega \ {id}}
Erase(id) ==
  /\ status[id] = "retired"
  /\ disk' \in {disk, disk \ {id}}
  /\ mega' \in {mega, mega \ {id}, mega \cup {id}}
  /\ UNCHANGED status

\* The service restarts.
Resumes(id) ==
  CASE status[id] = "uploading" -> status'[id] = "pending"
    [] status[id] = "disputed" -> /\ status'[id] \in Retryable \cup {"pending", "uploaded"}
                                  /\ status'[id] = "uploaded" => id \in mega
    [] OTHER -> status'[id] = status[id]
Resume ==
  /\ status' \in [Ids -> Statuses]
  /\ \A id \in Ids : Resumes(id)
  /\ UNCHANGED <<disk, mega>>

Init == status = [id \in Ids |-> "null"] /\ disk = {} /\ mega = {}

\* A step is about a file, takes one status further or resumes them all.
OfFile(id) == Land(id) \/ Clean(id) \/ Send(id) \/ Erase(id)
OfStatus(id) ==
  /\ status'[id] # status[id]
  /\ \/ Ask(id) \/ Dispute(id) \/ Begin(id) \/ Drop(id) \/ Stop(id) \/ Done(id)
     \/ Forget(id) \/ Retire(id)

Next ==
  \/ \E id \in Ids : OfFile(id) \/ OfStatus(id)
  \/ Resume

Spec == Init /\ [][Next]_vars
=============================================================================
