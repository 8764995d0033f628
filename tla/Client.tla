------------------------------- MODULE Client -------------------------------
(***************************************************************************)
(* The pages that keep live state: the queue page's view of a running job, *)
(* in a browser (LiveView) and in the desktop application (DesktopView),   *)
(* the history page's of an entry (HistoryView), and the settings page     *)
(* (Settings).  The service is installed as the one or the other; the      *)
(* browser's pages share nothing, and each is explored with the others at  *)
(* rest.                                                                   *)
(***************************************************************************)
EXTENDS DesktopView, HistoryView, Settings

CONSTANT
  AppScripts \* bound: the outputs explored with the application's page

ASSUME ClientAssumption == AppScripts \subseteq Scripts

VARIABLE
  client \* where the pages are: in a "browser" or in the "application"

vars == <<client, liveVars, desktopVars, historyVars, settingsVars>>

Init ==
  /\ LiveInit /\ DesktopInit /\ HistoryInit /\ SettingsInit
  /\ client \in {"browser", "application"}

LiveRests == files = {} /\ row = "none" /\ socket = "closed" /\ view = "none"
HistoryRests == entry = Downloaded /\ listed = Gone /\ Asked = {}
SettingsRest == seed = "no" /\ stream = "down" /\ sync.at = "no"

ShortRun == pc = "idle" /\ pc' = "select" => script' \in AppScripts

Next ==
  \/ /\ client = "browser"
     /\ \/ SettingsRest /\ HistoryRests /\ LiveNext /\ UNCHANGED <<historyVars, settingsVars>>
        \/ SettingsRest /\ LiveRests /\ HistoryNext /\ UNCHANGED <<liveVars, settingsVars>>
        \/ LiveRests /\ HistoryRests /\ SettingsNext /\ UNCHANGED <<liveVars, historyVars>>
     /\ UNCHANGED <<desktopVars, client>>
  \/ /\ client = "application"
     /\ \/ LiveNext /\ socket' = "closed" /\ ShortRun /\ UNCHANGED desktopVars
        \/ DesktopNext
     /\ UNCHANGED <<historyVars, settingsVars, client>>

Spec == Init /\ [][Next]_vars

-----------------------------------------------------------------------------

\* The shapes of the pages' state; the saved limit is one that the service and
\* the downloader can work with (page.tsx:211-214), whatever is typed.
TypeOK == LiveTypes /\ DesktopTypes /\ HistoryTypes /\ SettingsTypes

\* What the queue page shows, in a browser and in the application, and the history
\* page of an entry.
ViewTrue == BrowserTrue /\ DesktopTrue /\ HistoryTrue
=============================================================================
