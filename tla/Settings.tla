------------------------------ MODULE Settings ------------------------------
(***************************************************************************)
(* The settings: the form of settings/page.tsx, kept in the tab store      *)
(* (tab-state.tsx) while the page comes and goes under the guard of        *)
(* nav-guard.tsx; the table that PUT /api/settings writes; and the one     *)
(* value that the downloader keeps for itself, its parallel limit, pushed  *)
(* by that PUT and by syncSettings (server.ts) after each reconnection.    *)
(*                                                                         *)
(* Settings are three: format, the default format, container and compat,   *)
(* which the PUT saves first; limit, which it saves and pushes; and rest,  *)
(* which it saves after the push.                                          *)
(***************************************************************************)
EXTENDS Naturals

CONSTANTS
  Limits,   \* what may be typed as the limit; 0 is not valid
  Formats, Rests, \* the other settings
  Defaults, \* those of the form, and of GET for a limit that was never saved
  EnvLimit, \* the downloader's own limit, from its environment
  Never,    \* the limit was never saved
  Stored,   \* what may be saved to begin with
  Typed,    \* bound: what is typed into the form
  MaxPuts,  \* bound: PUTs under way at once
  Unread    \* no baseline: the settings were not read yet

Values == [format : Formats, limit : Limits, rest : Rests]
Tables == [format : Formats, limit : (Limits \ {0}) \cup {Never}, rest : Rests]

ASSUME SettingsAssumption ==
  /\ Limits \subseteq Nat /\ Never \notin Limits /\ EnvLimit \in Limits \ {0}
  /\ Defaults \in Values /\ Defaults.limit # 0
  /\ Stored \subseteq Tables /\ Typed \subseteq Values
  /\ Unread \notin Values /\ MaxPuts \in Nat

VARIABLES
  db,       \* the settings table
  conf,     \* the limit the downloader works with
  stream,   \* the event stream: "down", "syncing", "up"
  sync,     \* syncSettings' push: the limit and how far it is, "no" if there is none
  puts,     \* the PUTs: by whom, the values, how far ("no": none), and whether no
            \* other was under way, nor the page left, meanwhile
  draft,    \* the form
  baseline, \* what it is compared with
  page,     \* "settings" or "elsewhere"
  modal,    \* the guard's dialog: "no", "open", "busy"
  seed,     \* the first read: "no", "asked", "done"
  submitting, \* the form's own flag
  drift,    \* a push failed, or two crossed, since the last push alone
  upset     \* a PUT failed, or two crossed, or the first read failed

pushVars == <<conf, stream, sync, drift>>
formVars == <<draft, baseline, page, modal, seed, submitting>>
settingsVars == <<db, pushVars, puts, formVars, upset>>

NoSync == [limit |-> EnvLimit, at |-> "no"]

Slots == 1 .. MaxPuts
NoPut == [by |-> "form", values |-> Defaults, at |-> "no", alone |-> FALSE]

SettingsInit ==
  /\ db \in Stored /\ conf = EnvLimit
  /\ stream = "down" /\ sync = NoSync /\ puts = [s \in Slots |-> NoPut]
  /\ draft = Defaults /\ baseline = Unread /\ page = "elsewhere" /\ modal = "no"
  /\ seed = "no" /\ submitting = FALSE
  /\ drift = FALSE /\ upset = FALSE

-----------------------------------------------------------------------------
(* The server.                                                             *)

\* Pushes that the downloader may not have seen yet.
Pushing(s) == puts[s].at \in {"push", "pushed"}
PushUnderWay == sync.at # "no" \/ \E s \in Slots : Pushing(s)

Set(s, at) == puts' = [puts EXCEPT ![s].at = at]

\* The handler saves all that comes before the push, and sends the PATCH.
SavesLimit(s) ==
  /\ puts[s].at = "sent"
  /\ db' = [db EXCEPT !.format = puts[s].values.format, !.limit = puts[s].values.limit]
  /\ Set(s, "push")
  /\ drift' = PushUnderWay
  /\ UNCHANGED <<conf, stream, sync, formVars, upset>>

\* patchConfig, in the downloader.
Patched(s) ==
  /\ puts[s].at = "push"
  /\ conf' = puts[s].values.limit
  /\ Set(s, "pushed")
  /\ UNCHANGED <<db, stream, sync, drift, formVars, upset>>

\* The PATCH is answered: the rest is saved.
Saved(s) ==
  /\ puts[s].at = "pushed"
  /\ db' = [db EXCEPT !.rest = puts[s].values.rest]
  /\ Set(s, "ok")
  /\ UNCHANGED <<pushVars, formVars, upset>>

\* The PATCH failed, or its answer was lost: 502, and the rest is not saved.
PatchFails(s) ==
  /\ puts[s].at \in {"push", "pushed"}
  /\ Set(s, "failed")
  /\ drift' = TRUE /\ upset' = TRUE
  /\ UNCHANGED <<db, conf, stream, sync, formVars>>

\* The downloader starts again, with its environment's limit.
DownloaderRestarts ==
  /\ conf' = EnvLimit /\ stream' = "down"
  /\ UNCHANGED <<db, sync, drift, puts, formVars, upset>>

\* Nothing is pushed; as a mutant of PushSaved, not even a saved limit.
NoPush == stream' = "up" /\ UNCHANGED <<sync, drift>>

\* syncSettings, up to its await; a limit that was never saved is not pushed.
PushSaved ==
  IF db.limit = Never THEN NoPush
  ELSE /\ stream' = "syncing" /\ sync' = [limit |-> db.limit, at |-> "push"]
       /\ drift' = PushUnderWay

\* The stream is up again (consumeEvents).
Reconnects ==
  /\ stream = "down" /\ sync.at = "no"
  /\ PushSaved
  /\ UNCHANGED <<db, conf, puts, formVars, upset>>

\* The push reaches the downloader.
SyncPatched ==
  /\ sync.at = "push"
  /\ conf' = sync.limit /\ sync' = [sync EXCEPT !.at = "pushed"]
  /\ UNCHANGED <<db, stream, drift, puts, formVars, upset>>

\* It is answered, or fails, which is only logged.
SyncEnds ==
  /\ sync.at # "no"
  /\ sync' = NoSync
  /\ drift' = (drift \/ sync.at = "push" \/ stream = "down")
  /\ stream' = IF stream = "down" THEN "down" ELSE "up"
  /\ UNCHANGED <<db, conf, puts, formVars, upset>>

-----------------------------------------------------------------------------
(* The page.                                                               *)

\* GET /api/settings.
Shown == IF db.limit = Never THEN [db EXCEPT !.limit = Defaults.limit] ELSE db

isDirty == baseline # Unread /\ draft # baseline

\* The page is mounted, its own state new; the first time, it asks for the
\* settings (useSeedOnce).
Opens ==
  /\ page = "elsewhere"
  /\ page' = "settings" /\ submitting' = FALSE
  /\ seed' = IF seed = "no" THEN "asked" ELSE seed
  /\ UNCHANGED <<db, pushVars, puts, draft, baseline, modal, upset>>

\* The answer, or the defaults if there is none, whichever page is shown; until
\* then the form is not.
Seeded ==
  /\ seed = "asked" /\ seed' = "done"
  /\ \/ draft' = Shown /\ UNCHANGED upset
     \/ draft' = draft /\ upset' = TRUE
  /\ baseline' = draft'
  /\ UNCHANGED <<db, pushVars, puts, page, modal, submitting>>

\* The fields are not disabled while a save is under way.
Edits(values) ==
  /\ page = "settings" /\ modal = "no" /\ baseline # Unread
  /\ draft' = values /\ draft # values
  /\ UNCHANGED <<db, pushVars, puts, baseline, page, modal, seed, submitting, upset>>

\* Mutant: nobody looks at what was typed.
AnyLimit == TRUE

\* What saveSettings asks of the form.
Valid == draft.limit # 0

UnderWay == {s \in Slots : puts[s].at # "no"}

\* What is under way has been crossed by another, or the page was left.
Crossed == [s \in Slots |-> [puts[s] EXCEPT !.alone = FALSE]]
Crosses == upset' = (upset \/ UnderWay # {})

\* saveSettings, up to its await.
Save(by) ==
  /\ LET free == Slots \ UnderWay
         sent == [by |-> by, values |-> draft, at |-> "sent", alone |-> UnderWay = {}]
     IN \E s \in free : /\ \A t \in free : s <= t
                        /\ puts' = [Crossed EXCEPT ![s] = sent]
  /\ Crosses
  /\ submitting' = TRUE

\* onSubmit; the button is disabled while a save is under way.
Submits ==
  /\ page = "settings" /\ modal = "no" /\ baseline # Unread /\ ~submitting /\ Valid
  /\ Save("form")
  /\ UNCHANGED <<db, pushVars, draft, baseline, page, modal, seed>>

\* requestNavigate.
Navigates ==
  /\ page = "settings" /\ modal = "no"
  /\ IF isDirty THEN modal' = "open" /\ UNCHANGED <<page, puts, upset>>
     ELSE /\ page' = "elsewhere" /\ puts' = Crossed /\ Crosses
          /\ UNCHANGED modal
  /\ UNCHANGED <<db, pushVars, draft, baseline, seed, submitting>>

\* The dialog's Save: refused at once if the form is not valid, which closes it.
SavesFirst ==
  /\ modal = "open"
  /\ IF Valid THEN modal' = "busy" /\ Save("guard")
     ELSE modal' = "no" /\ UNCHANGED <<puts, upset, submitting>>
  /\ UNCHANGED <<db, pushVars, draft, baseline, page, seed>>

\* discardSettings, and on.
Discards ==
  /\ modal = "open"
  /\ draft' = baseline /\ modal' = "no" /\ page' = "elsewhere"
  /\ puts' = Crossed /\ Crosses
  /\ UNCHANGED <<db, pushVars, baseline, seed, submitting>>

Stays ==
  /\ modal = "open"
  /\ modal' = "no"
  /\ UNCHANGED <<db, pushVars, puts, draft, baseline, page, seed, submitting, upset>>

\* Mutant: the form as it is when the answer comes is taken for saved.
FormNow(s) == draft

\* What was sent: the snapshot is of the closure that sent it.
SavedSnapshot(s) == puts[s].values

\* The answer to a save; the dialog's closes it, and goes on if all was saved.
Answered(s) ==
  /\ puts[s].at \in {"ok", "failed"}
  /\ puts' = [puts EXCEPT ![s] = NoPut]
  /\ baseline' = IF puts[s].at = "ok" THEN SavedSnapshot(s) ELSE baseline
  /\ IF puts[s].by = "guard"
     THEN modal' = "no" /\ page' = IF puts[s].at = "ok" THEN "elsewhere" ELSE page
     ELSE UNCHANGED <<modal, page>>
  /\ submitting' = FALSE
  /\ upset' = (upset /\ ~(puts[s].at = "ok" /\ puts[s].alone))
  /\ UNCHANGED <<db, pushVars, draft, seed>>

SettingsNext ==
  \/ \E s \in Slots : SavesLimit(s) \/ Patched(s) \/ Saved(s) \/ PatchFails(s) \/ Answered(s)
  \/ DownloaderRestarts \/ Reconnects \/ SyncPatched \/ SyncEnds
  \/ Opens \/ Seeded \/ (\E values \in Typed : Edits(values))
  \/ Submits \/ Navigates \/ SavesFirst \/ Discards \/ Stays

-----------------------------------------------------------------------------

PutType == [by : {"form", "guard"}, values : Values, alone : BOOLEAN,
            at : {"no", "sent", "push", "pushed", "ok", "failed"}]

SettingsTypes ==
  /\ db \in Tables /\ conf \in Limits \ {0}
  /\ stream \in {"down", "syncing", "up"}
  /\ sync \in [limit : Limits \ {0}, at : {"no", "push", "pushed"}]
  /\ puts \in [Slots -> PutType] /\ \A s \in UnderWay : puts[s].values.limit # 0
  /\ draft \in Values /\ baseline \in Values \cup {Unread}
  /\ page \in {"settings", "elsewhere"} /\ modal \in {"no", "open", "busy"}
  /\ seed \in {"no", "asked", "done"} /\ {drift, upset, submitting} \subseteq BOOLEAN

\* What is saved is what the downloader works with, after any restart of it and
\* any saves, once nothing is being pushed; unless the last push failed (502)
\* or crossed another, until the next one (route.ts:91, server.ts:161-192).  It
\* keeps its own limit as long as none was saved.
LimitAgrees ==
  stream = "up" /\ ~PushUnderWay /\ ~drift =>
    conf = IF db.limit = Never THEN EnvLimit ELSE db.limit

\* With no save under way, what the form is compared with is what is saved, and
\* leaving the page through the guard leaves nothing unsaved behind, edits made
\* while a save was under way included; unless a save failed or crossed another
\* or the page was left before its answer (page.tsx:201-304, nav-guard.tsx:46-83).
PageTrue ==
  UnderWay = {} /\ ~upset /\ baseline # Unread =>
    /\ baseline = Shown
    /\ page = "elsewhere" => draft = baseline
=============================================================================
