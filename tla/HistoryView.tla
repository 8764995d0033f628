---------------------------- MODULE HistoryView ----------------------------
(***************************************************************************)
(* The history page (app/history/page.tsx): what it shows of one entry, a  *)
(* download that is on disk.  It polls the history, asks for what its      *)
(* buttons offer, and makes of an accepted request what it thinks that the *)
(* service did (api/history), until the next poll; and the uploader        *)
(* (MegaUploader) moves the entry meanwhile.                               *)
(***************************************************************************)
EXTENDS Naturals

CONSTANT MaxAsks \* bound: requests of the page under way at once

ASSUME AsksAssumption == MaxAsks \in Nat

VARIABLES
  entry,  \* the entry: its mega_status, "gone" once deleted, and whether its
          \* file is there
  asks,   \* the requests: what for ("nothing": none), how far, what the entry was
          \* once it was handled, and whether no other was under way, nor the entry
          \* moved, meanwhile
  listed, \* the entry as the page has it
  behind  \* history: the entry moved, or requests crossed, since the last poll alone

historyVars == <<entry, asks, listed, behind>>

Entries ==
  [mega : {"gone", "null", "pending", "uploading", "uploaded", "failed", "canceled"},
   local : BOOLEAN]
Gone == [mega |-> "gone", local |-> FALSE]

AskSlots == 1 .. MaxAsks
NoAsk == [what |-> "nothing", at |-> "asked", found |-> Gone, alone |-> FALSE]
Asked == {s \in AskSlots : asks[s].what # "nothing"}

Downloaded == [mega |-> "null", local |-> TRUE]

HistoryInit ==
  /\ entry = Downloaded
  /\ listed = Gone /\ asks = [s \in AskSlots |-> NoAsk] /\ behind = TRUE

-----------------------------------------------------------------------------
(* The service.                                                            *)

\* The uploader marks the entry, in whatever order (MegaUploader says in which),
\* and removes the file, as does the deletion of an entry of the same name.
Marks == {"pending", "uploading", "uploaded", "failed", "canceled"}
UploaderMoves ==
  /\ entry # Gone
  /\ entry' \in [mega : {entry.mega} \cup Marks, local : {entry.local, FALSE}] \ {entry}
  /\ asks' = [s \in AskSlots |-> [asks[s] EXCEPT !.alone = FALSE]]
  /\ behind' = TRUE
  /\ UNCHANGED listed

\* The handler of a request: it is accepted and the entry is changed, or refused.
Handles(s, what, accepted, found) ==
  /\ asks[s].what = what /\ asks[s].at = "asked"
  /\ entry' = IF accepted THEN found ELSE entry
  /\ asks' = [asks EXCEPT ![s] = [@ EXCEPT !.at = IF accepted THEN "ok" ELSE "refused",
                                           !.found = entry']]
  /\ UNCHANGED <<listed, behind>>

\* GET /api/history.
GetHistory(s) == Handles(s, "load", TRUE, entry)

\* DELETE /api/history/:id, and its localOnly form.
DeleteEntry(s) ==
  Handles(s, "delete", entry.mega \in {"null", "failed", "canceled"}, Gone)
DeleteLocal(s) ==
  Handles(s, "delete local", entry.mega = "uploaded", [entry EXCEPT !.local = FALSE])

\* POST /api/history/:id/upload.
PostUpload(s) ==
  Handles(s, "upload", entry.mega \in {"null", "failed", "canceled"} /\ entry.local,
          [entry EXCEPT !.mega = "pending"])

\* DELETE /api/history/:id/upload.  One that is being sent is canceled later, if
\* it is; and one that is neither queued nor sent, not at all.
DeleteUpload(s) ==
  \E found \in {entry, [entry EXCEPT !.mega = "canceled"]} :
    /\ found # entry => entry.mega = "pending"
    /\ Handles(s, "cancel", entry.mega \in {"pending", "uploading"}, found)

-----------------------------------------------------------------------------
(* The page.                                                               *)

\* It sends a request, whatever else is under way.
Asks(s, what) ==
  /\ s \notin Asked
  /\ asks' = [t \in AskSlots |->
                IF t = s
                THEN [what |-> what, at |-> "asked", found |-> Gone, alone |-> Asked = {}]
                ELSE [asks[t] EXCEPT !.alone = FALSE]]
  /\ behind' = (behind \/ Asked # {})
  /\ UNCHANGED <<entry, listed>>

\* load, once it is mounted and at every interval.
Polls(s) == Asks(s, "load")

\* The buttons of ActionCell.
Offers(e) ==
  CASE e.mega = "gone" -> {}
    [] e.mega = "uploaded" -> IF e.local THEN {"delete local"} ELSE {}
    [] e.mega \in {"pending", "uploading"} -> {"cancel"}
    [] OTHER -> {"upload", "delete"}

Clicks(s) == \E what \in Offers(listed) : Asks(s, what)

\* What the page makes of the entry once its request was accepted.
OnDelete(e) == Gone
OnDeleteLocal(e) == [e EXCEPT !.local = FALSE]
\* (Mutant: it leaves the entry as it was.)
OnUploadWaits(e) == e
OnUpload(e) == [e EXCEPT !.mega = "pending"]
OnCancelUpload(e) == [e EXCEPT !.mega = "canceled"]

\* ... if it has it still.
Assumed(what, e) ==
  CASE e.mega = "gone" -> e
    [] what = "delete" -> OnDelete(e)
    [] what = "delete local" -> OnDeleteLocal(e)
    [] what = "upload" -> OnUpload(e)
    [] what = "cancel" -> OnCancelUpload(e)

Frees(s) == asks' = [asks EXCEPT ![s] = NoAsk]

\* The answer to a poll takes the place of the list.
ListArrives(s) ==
  /\ asks[s].what = "load" /\ asks[s].at = "ok"
  /\ listed' = asks[s].found
  /\ behind' = ~ asks[s].alone
  /\ Frees(s)
  /\ UNCHANGED entry

\* The answer to another request; nothing but a toast comes of a refusal.
Replied(s) ==
  /\ asks[s].what \notin {"nothing", "load"} /\ asks[s].at # "asked"
  /\ listed' = IF asks[s].at = "ok" THEN Assumed(asks[s].what, listed) ELSE listed
  /\ behind' = (behind \/ (asks[s].what = "cancel" /\ asks[s].found.mega # "canceled"))
  /\ Frees(s)
  /\ UNCHANGED entry

\* A request or its answer is lost.
Lost(s) ==
  /\ s \in Asked
  /\ behind' = (behind \/ asks[s].what # "load")
  /\ Frees(s)
  /\ UNCHANGED <<entry, listed>>

HistoryNext ==
  \/ UploaderMoves
  \/ \E s \in AskSlots :
       \/ Polls(s) \/ Clicks(s) \/ ListArrives(s) \/ Replied(s) \/ Lost(s)
       \/ GetHistory(s) \/ DeleteEntry(s) \/ DeleteLocal(s) \/ PostUpload(s) \/ DeleteUpload(s)

-----------------------------------------------------------------------------

AskType ==
  [what : {"nothing", "load", "delete", "delete local", "upload", "cancel"},
   at : {"asked", "ok", "refused"}, found : Entries, alone : BOOLEAN]

HistoryTypes ==
  /\ {entry, listed} \subseteq Entries
  /\ asks \in [AskSlots -> AskType]
  /\ behind \in BOOLEAN

\* With no request under way the page has the entry as it is: what it makes of an
\* accepted request is what the service did, however the user clicks on what it
\* offers between the polls.  But it is behind, until a poll that nothing crosses,
\* when the uploader moved the entry, when requests crossed, one was lost, or when
\* the cancel of an upload was answered before the upload ended (page.tsx:68-188).
HistoryTrue == Asked = {} /\ ~ behind => listed = entry
=============================================================================
