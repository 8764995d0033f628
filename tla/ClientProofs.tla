---------------------------- MODULE ClientProofs ----------------------------
(***************************************************************************)
(* Proofs about Client: for any outputs of a run, any settings and any     *)
(* number of saves under way.                                              *)
(***************************************************************************)
EXTENDS Client, SequenceTheorems, TLAPS

Ats == {"no", "sent", "push", "pushed", "ok", "failed"}

\* What moving one PUT on does to all of them.
LEMMA SetEffect ==
  ASSUME puts \in [Slots -> PutType], NEW s \in Slots, NEW at \in Ats, Set(s, at)
  PROVE  /\ puts' \in [Slots -> PutType]
         /\ puts'[s] = [puts[s] EXCEPT !.at = at]
         /\ \A t \in Slots \ {s} : puts'[t] = puts[t]
  <1>1. puts[s] \in PutType
    OBVIOUS
  <1>2. [puts[s] EXCEPT !.at = at] \in PutType
    BY <1>1 DEF PutType, Ats
  <1> QED BY <1>2 DEF Set

\* What a new save, or a page that is left, does to those under way.
LEMMA CrossedEffect ==
  ASSUME puts \in [Slots -> PutType]
  PROVE  /\ Crossed \in [Slots -> PutType]
         /\ \A s \in Slots : /\ Crossed[s].at = puts[s].at /\ Crossed[s].by = puts[s].by
                             /\ Crossed[s].values = puts[s].values /\ ~Crossed[s].alone
  <1> SUFFICES ASSUME NEW s \in Slots
               PROVE  LET c == [puts[s] EXCEPT !.alone = FALSE]
                      IN /\ c \in PutType /\ c.at = puts[s].at /\ c.by = puts[s].by
                         /\ c.values = puts[s].values /\ ~c.alone
    BY DEF Crossed
  <1>1. puts[s] \in PutType
    OBVIOUS
  <1> QED BY <1>1 DEF PutType

\* A save takes a free slot, and is alone if all were free.
LEMMA SaveEffect ==
  ASSUME puts \in [Slots -> PutType], draft \in Values, NEW by \in {"form", "guard"}, Save(by)
  PROVE  /\ puts' \in [Slots -> PutType]
         /\ \E s \in Slots :
              /\ puts[s].at = "no"
              /\ puts'[s].by = by /\ puts'[s].values = draft /\ puts'[s].at = "sent"
              /\ puts'[s].alone => UnderWay = {}
              /\ UnderWay = {} => puts'[s].alone
              /\ \A t \in Slots \ {s} :
                   /\ puts'[t].at = puts[t].at /\ puts'[t].by = puts[t].by
                   /\ puts'[t].values = puts[t].values /\ ~puts'[t].alone
  <1>1. PICK s \in Slots \ UnderWay :
          puts' = [Crossed EXCEPT ![s] = [by |-> by, values |-> draft, at |-> "sent",
                                          alone |-> UnderWay = {}]]
    BY DEF Save
  <1> DEFINE sent == [by |-> by, values |-> draft, at |-> "sent", alone |-> UnderWay = {}]
  <1>2. (UnderWay = {}) \in BOOLEAN
    OBVIOUS
  <1>3. sent \in PutType
    BY <1>2 DEF PutType
  <1>4. /\ sent.by = by /\ sent.values = draft /\ sent.at = "sent"
        /\ sent.alone => UnderWay = {}
        /\ UnderWay = {} => sent.alone
    OBVIOUS
  <1> HIDE DEF sent
  <1>5. /\ puts' \in [Slots -> PutType] /\ puts'[s] = sent
        /\ \A t \in Slots \ {s} : puts'[t] = Crossed[t]
    BY <1>1, <1>3, CrossedEffect DEF sent
  <1>6. puts[s].at = "no"
    BY <1>1 DEF UnderWay
  <1>7. \A t \in Slots \ {s} :
           /\ puts'[t].at = puts[t].at /\ puts'[t].by = puts[t].by
           /\ puts'[t].values = puts[t].values /\ ~puts'[t].alone
    BY <1>5, CrossedEffect
  <1>8. /\ puts'[s].by = by /\ puts'[s].values = draft /\ puts'[s].at = "sent"
        /\ puts'[s].alone => UnderWay = {}
        /\ UnderWay = {} => puts'[s].alone
    BY <1>4, <1>5
  <1> QED BY <1>5, <1>6, <1>7, <1>8

\* What an answer does.
LEMMA AnswerEffect ==
  ASSUME puts \in [Slots -> PutType], NEW s \in Slots, Answered(s)
  PROVE  /\ puts' \in [Slots -> PutType] /\ puts'[s].at = "no"
         /\ \A t \in Slots \ {s} : puts'[t] = puts[t]
  <1>1. NoPut \in PutType
    BY SettingsAssumption DEF NoPut, PutType
  <1> QED BY <1>1 DEF Answered, NoPut

-----------------------------------------------------------------------------
(* Type correctness of the settings. A limit of 0 stays in the form: what  *)
(* is sent is valid, so what is saved and what is pushed are.              *)

USE DEF Slots

\* A valid save is a save of a valid limit.
LEMMA SaveTypes ==
  ASSUME SettingsTypes, NEW by \in {"form", "guard"}, Save(by), Valid
  PROVE  /\ puts' \in [Slots -> PutType] /\ \A s \in UnderWay' : puts'[s].values.limit # 0
         /\ upset' \in BOOLEAN
  <1>1. PICK s \in Slots :
          /\ puts'[s].values = draft
          /\ \A t \in Slots \ {s} : puts'[t].at = puts[t].at /\ puts'[t].values = puts[t].values
    BY SaveEffect DEF SettingsTypes
  <1>2. puts' \in [Slots -> PutType]
    BY SaveEffect DEF SettingsTypes
  <1>3. \A r \in UnderWay' : puts'[r].values.limit # 0
    BY <1>1 DEF SettingsTypes, UnderWay, Valid
  <1>4. upset' \in BOOLEAN
    BY DEF SettingsTypes, Save, Crosses
  <1> QED BY <1>2, <1>3, <1>4

\* Moving a PUT on keeps what it carries.
LEMMA SetTypes ==
  ASSUME SettingsTypes, NEW s \in Slots, NEW at \in Ats, Set(s, at), puts[s].at # "no"
  PROVE  /\ puts' \in [Slots -> PutType] /\ \A t \in UnderWay' : puts'[t].values.limit # 0
         /\ puts[s].values \in Values /\ puts[s].values.limit # 0
  <1>1. puts[s] \in PutType
    BY DEF SettingsTypes
  <1>2. /\ puts' \in [Slots -> PutType] /\ puts'[s] = [puts[s] EXCEPT !.at = at]
        /\ \A t \in Slots \ {s} : puts'[t] = puts[t]
    BY SetEffect DEF SettingsTypes
  <1>3. puts'[s].values = puts[s].values
    BY <1>1, <1>2 DEF PutType
  <1>4. puts[s].values \in Values /\ puts[s].values.limit # 0
    BY <1>1 DEF SettingsTypes, UnderWay, PutType
  <1>5. \A t \in UnderWay' : puts'[t].values.limit # 0
    BY <1>2, <1>3, <1>4 DEF SettingsTypes, UnderWay
  <1> QED BY <1>2, <1>4, <1>5

\* Leaving the page keeps what the PUTs carry.
LEMMA LeaveTypes ==
  ASSUME SettingsTypes, puts' = Crossed, Crosses
  PROVE  /\ puts' \in [Slots -> PutType] /\ \A t \in UnderWay' : puts'[t].values.limit # 0
         /\ upset' \in BOOLEAN
  BY CrossedEffect DEF SettingsTypes, UnderWay, Crosses

\* A limit that was never saved is shown as the form's default.
LEMMA ShownTypes ==
  ASSUME db \in Tables
  PROVE  Shown \in Values
  BY SettingsAssumption DEF Shown, Tables, Values

\* The guard's dialog is only about a form that was read.
LEMMA SettingsTypesStep ==
  ASSUME SettingsTypes, modal # "no" => baseline # Unread, SettingsNext
  PROVE  SettingsTypes'
  <1> USE DEF SettingsTypes, pushVars, formVars
  <1>1. ASSUME NEW s \in Slots, SavesLimit(s) PROVE SettingsTypes'
    <2>1. "push" \in Ats
      BY DEF Ats
    <2>2. /\ puts' \in [Slots -> PutType] /\ \A t \in UnderWay' : puts'[t].values.limit # 0
          /\ puts[s].values \in Values /\ puts[s].values.limit # 0
      BY <1>1, <2>1, SetTypes DEF SavesLimit
    <2>3. db' \in Tables
      BY <1>1, <2>2 DEF SavesLimit, Values, Tables
    <2>4. drift' \in BOOLEAN
      BY <1>1 DEF SavesLimit, PushUnderWay
    <2> QED BY <1>1, <2>2, <2>3, <2>4 DEF SavesLimit
  <1>2. ASSUME NEW s \in Slots, Patched(s) PROVE SettingsTypes'
    <2>1. "pushed" \in Ats
      BY DEF Ats
    <2>2. /\ puts' \in [Slots -> PutType] /\ \A t \in UnderWay' : puts'[t].values.limit # 0
          /\ puts[s].values \in Values /\ puts[s].values.limit # 0
      BY <1>2, <2>1, SetTypes DEF Patched
    <2> QED BY <1>2, <2>2 DEF Patched, Values
  <1>3. ASSUME NEW s \in Slots, Saved(s) PROVE SettingsTypes'
    <2>1. "ok" \in Ats
      BY DEF Ats
    <2>2. /\ puts' \in [Slots -> PutType] /\ \A t \in UnderWay' : puts'[t].values.limit # 0
          /\ puts[s].values \in Values /\ puts[s].values.limit # 0
      BY <1>3, <2>1, SetTypes DEF Saved
    <2>3. db' \in Tables
      BY <1>3, <2>2 DEF Saved, Values, Tables
    <2> QED BY <1>3, <2>2, <2>3 DEF Saved
  <1>4. ASSUME NEW s \in Slots, PatchFails(s) PROVE SettingsTypes'
    <2>1. "failed" \in Ats
      BY DEF Ats
    <2>2. puts' \in [Slots -> PutType] /\ \A t \in UnderWay' : puts'[t].values.limit # 0
      BY <1>4, <2>1, SetTypes DEF PatchFails
    <2> QED BY <1>4, <2>2 DEF PatchFails
  <1>5. ASSUME NEW s \in Slots, Answered(s) PROVE SettingsTypes'
    <2>1. puts' \in [Slots -> PutType] /\ \A t \in UnderWay' : puts'[t].values.limit # 0
      BY <1>5, AnswerEffect DEF UnderWay
    <2>2. puts[s] \in PutType
      OBVIOUS
    <2>3. baseline' \in Values \cup {Unread}
      BY <1>5, <2>2 DEF Answered, SavedSnapshot, PutType
    <2>4. page' \in {"settings", "elsewhere"} /\ modal' \in {"no", "open", "busy"}
          /\ upset' \in BOOLEAN
      BY <1>5 DEF Answered
    <2> QED BY <1>5, <2>1, <2>3, <2>4 DEF Answered
  <1>6. CASE DownloaderRestarts
    BY <1>6, SettingsAssumption DEF DownloaderRestarts, Values, UnderWay
  <1>7. CASE Reconnects
    <2>1. sync' \in [limit : Limits \ {0}, at : {"no", "push", "pushed"}]
      BY <1>7 DEF Reconnects, PushSaved, NoPush, Tables
    <2>2. drift' \in BOOLEAN /\ stream' \in {"syncing", "up"}
      BY <1>7 DEF Reconnects, PushSaved, NoPush, PushUnderWay
    <2> QED BY <1>7, <2>1, <2>2 DEF Reconnects, UnderWay
  <1>8. CASE SyncPatched
    BY <1>8 DEF SyncPatched, UnderWay
  <1>9. CASE SyncEnds
    <2>1. NoSync \in [limit : Limits \ {0}, at : {"no", "push", "pushed"}]
      BY SettingsAssumption DEF NoSync, Values
    <2> QED BY <1>9, <2>1 DEF SyncEnds, UnderWay
  <1>10. CASE Opens
    BY <1>10 DEF Opens, UnderWay
  <1>11. CASE Seeded
    BY <1>11, ShownTypes DEF Seeded, UnderWay
  <1>12. ASSUME NEW values \in Typed, Edits(values) PROVE SettingsTypes'
    BY <1>12, SettingsAssumption DEF Edits, UnderWay
  <1>13. CASE Submits
    BY <1>13, SaveTypes DEF Submits, Save
  <1>14. CASE Navigates
    <2>1. CASE isDirty
      BY <1>14, <2>1 DEF Navigates, UnderWay
    <2>2. CASE ~isDirty
      BY <1>14, <2>2, LeaveTypes DEF Navigates
    <2> QED BY <2>1, <2>2
  <1>15. CASE SavesFirst
    <2>1. CASE Valid
      BY <1>15, <2>1, SaveTypes DEF SavesFirst, Save
    <2>2. CASE ~Valid
      BY <1>15, <2>2 DEF SavesFirst, UnderWay
    <2> QED BY <2>1, <2>2
  <1>16. CASE Discards
    <2>1. baseline \in Values
      BY <1>16 DEF Discards
    <2> QED BY <1>16, <2>1, LeaveTypes DEF Discards
  <1>17. CASE Stays
    BY <1>17 DEF Stays, UnderWay
  <1> QED
    BY <1>1, <1>2, <1>3, <1>4, <1>5, <1>6, <1>7, <1>8, <1>9, <1>10, <1>11, <1>12, <1>13,
       <1>14, <1>15, <1>16, <1>17 DEF SettingsNext

-----------------------------------------------------------------------------
(* Type correctness of the queue page.                                     *)

LEMMA RunTypesStep ==
  ASSUME LiveTypes, RunNext
  PROVE  /\ pc' \in {"idle", "select", "killing", "drain", "drain-canceled", "over"}
         /\ script' \in Seq(Lines) /\ pipe' \in Seq(Lines) /\ buf' \in Seq(Lines)
         /\ proc' \in {"running", "ok", "error"} /\ files' \subseteq Names
         /\ probed' \in Names \cup {Nothing} /\ {deaf', closed', cancel'} \subseteq BOOLEAN
         /\ events' \in Seq(EventTypes) /\ Len(events) <= Len(events')
  <1> USE DEF LiveTypes
  <1>1. CASE Prints
    <2>1. Head(script) \in Lines /\ Tail(script) \in Seq(Lines)
      BY <1>1 DEF Prints
    <2>2. Effect(Head(script)) \subseteq Names
      BY DEF Effect, Names
    <2> QED BY <1>1, <2>1, <2>2 DEF Prints
  <1>2. CASE Scans
    <2>1. Head(buf) \in Lines /\ Tail(buf) \in Seq(Lines)
      BY <1>2 DEF Scans
    <2>2. probed' \in Names \cup {Nothing}
      BY <1>2, <2>1 DEF Scans, Handle, Probe, Names
    <2>3. events' \in Seq(EventTypes) /\ Len(events) <= Len(events')
      <3>1. CASE Head(buf) \in {"TITLE", "SEASON", "PROGRESS"}
        <4>1. Head(buf) \in EventTypes
          BY <3>1 DEF EventTypes
        <4>2. Append(events, Head(buf)) \in Seq(EventTypes)
              /\ Len(Append(events, Head(buf))) = Len(events) + 1
          BY <4>1
        <4>3. events' = events \/ events' = Append(events, Head(buf))
          BY <1>2, <3>1 DEF Scans, Handle, Publish, PublishOnce
        <4>4. events \in Seq(EventTypes) /\ Len(events) \in Nat
          OBVIOUS
        <4> HIDE DEF LiveTypes
        <4> QED BY <4>2, <4>3, <4>4
      <3>2. CASE Head(buf) \notin {"TITLE", "SEASON", "PROGRESS"}
        BY <1>2, <3>2 DEF Scans, Handle
      <3> QED BY <3>1, <3>2
    <2> QED BY <1>2, <2>1, <2>2, <2>3 DEF Scans
  <1>3. CASE Finish
    <2>1. PICK type \in Terminal : events' = Append(events, type)
      BY <1>3 DEF Finish, Publish, Terminal
    <2>2. events' \in Seq(EventTypes) /\ Len(events) <= Len(events')
      BY <2>1 DEF EventTypes
    <2> QED BY <1>3, <2>2 DEF Finish
  <1>4. CASE Exits
    <2>1. proc' \in {"ok", "error"}
      BY <1>4 DEF Exits
    <2> QED BY <1>4, <2>1 DEF Exits
  <1>5. CASE Reads
    BY <1>5 DEF Reads
  <1>6. CASE WaitReturns
    <2>1. closed' \in BOOLEAN /\ cancel' \in BOOLEAN
      BY <1>6 DEF WaitReturns
    <2> QED BY <1>6, <2>1 DEF WaitReturns
  <1>8. CASE Cancel
    <2>1. closed' \in BOOLEAN /\ cancel' \in BOOLEAN
      BY <1>8 DEF Cancel
    <2> QED BY <1>8, <2>1 DEF Cancel
  <1>9. CASE Interrupt
    BY <1>9 DEF Interrupt
  <1>7. CASE Exited
    BY <1>7 DEF Exited
  <1>10. CASE GivesUp
    <2>1. buf' \in Seq(Lines) /\ deaf' \in BOOLEAN
      BY <1>10, EmptySeq DEF GivesUp
    <2> QED BY <1>10, <2>1 DEF GivesUp
  <1> QED BY <1>1, <1>2, <1>3, <1>4, <1>5, <1>6, <1>7, <1>8, <1>9, <1>10 DEF RunNext

\* A script is a sequence of lines, its final path at the end.
LEMMA StartTypes ==
  ASSUME LiveTypes, pc = "idle" => events = <<>>,
         LaunchFails \/ \E lines \in Scripts : Launch(lines),
         UNCHANGED <<row, told, socket, wire, view, silent>>
  PROVE  LiveTypes'
  <1> USE DEF LiveTypes
  <1>1. CASE LaunchFails
    <2>1. <<"running", "failed">> \in Seq(EventTypes) /\ Len(events) = 0
      BY <1>1 DEF LaunchFails, EventTypes, Terminal
    <2> QED BY <1>1, <2>1 DEF LaunchFails
  <1>2. ASSUME NEW lines \in Scripts, Launch(lines) PROVE LiveTypes'
    <2>1. lines \in Seq(Lines)
      BY RunAssumption
    <2>2. Append(events, "running") \in Seq(EventTypes)
          /\ Len(Append(events, "running")) = Len(events) + 1
      BY DEF EventTypes
    <2> QED BY <1>2, <2>1, <2>2 DEF Launch, Publish
  <1> QED BY <1>1, <1>2

LEMMA LiveTypesStep ==
  ASSUME LiveTypes, pc = "idle" => events = <<>>, LiveNext
  PROVE  LiveTypes'
  <1> USE DEF LiveTypes, runVars
  <1>1. CASE Insert \/ PostFails
    <2>1. row' \in Active \cup Terminal \cup {"none"} /\ silent' \in BOOLEAN
      BY <1>1 DEF Insert, PostFails, Active, Terminal
    <2> QED BY <1>1, <2>1 DEF Insert, PostFails
  <1>8. CASE Disconnect
    BY <1>8 DEF Disconnect
  <1>2. CASE Starts
    BY <1>2, StartTypes DEF Starts
  <1>3. CASE Delivered
    <2> DEFINE event == events[told + 1]
    <2>1. told + 1 \in 1 .. Len(events) /\ event \in EventTypes
      BY <1>3 DEF Delivered
    <2>2. row' \in Active \cup Terminal \cup {"none"} /\ silent' \in BOOLEAN
      BY <1>3, <2>1 DEF Delivered
    <2>3. [type |-> "event", status |-> event] \in Messages
      BY <2>1 DEF Messages
    <2>4. wire' \in Seq(Messages)
      BY <1>3, <2>1, <2>3 DEF Delivered, Broadcast
    <2> QED BY <1>3, <2>1, <2>2, <2>4 DEF Delivered
  <1>4. CASE Reconciled
    <2>1. row' \in Active \cup Terminal \cup {"none"} /\ silent' \in BOOLEAN
      BY <1>4 DEF Reconciled, Terminal
    <2> QED BY <1>4, <2>1 DEF Reconciled
  <1>5. CASE Connect
    <2>1. Snapshot \in Messages
      BY DEF Snapshot, ActiveStatus, Messages
    <2> QED BY <1>5, <2>1 DEF Connect, SendSnapshot
  <1>6. CASE Message
    <2>1. Head(wire) \in Messages /\ Tail(wire) \in Seq(Messages)
      BY <1>6 DEF Message
    <2>2. view' \in Active \cup {"none"}
      BY <1>6, <2>1 DEF Message, Messages, Apply
    <2> QED BY <1>6, <2>1, <2>2 DEF Message
  <1>7. CASE RunNext /\ UNCHANGED <<row, told, socket, wire, view, silent>>
    BY <1>7, RunTypesStep
  <1> QED BY <1>1, <1>2, <1>3, <1>4, <1>5, <1>6, <1>7, <1>8 DEF LiveNext

-----------------------------------------------------------------------------
(* The order of a run's events.                                            *)

\* The run's steps come in order, and the scanner has nothing to read before
\* the run and after it.
EventInv ==
  /\ pc \in {"idle", "over"} => pipe = <<>> /\ buf = <<>> /\ proc # "running"
  /\ closed => pc # "idle" /\ pipe = <<>> /\ proc # "running"
  /\ pc \in {"drain", "drain-canceled"} => closed
  /\ events = <<>> <=> pc = "idle"
  /\ pc # "over" => \A i \in DOMAIN events : events[i] \notin Terminal
  /\ EventsInOrder

\* Publishing a title, a season or progress keeps the order, if the first two
\* are published once.
LEMMA PublishInOrder ==
  ASSUME LiveTypes, EventInv, pc \notin {"idle", "over"},
         NEW type \in EventTypes, events' = Append(events, type), type # "running",
         type \in {"TITLE", "SEASON"} => \A i \in DOMAIN events : events[i] # type
  PROVE  EventsInOrder' /\ DOMAIN events' = 1 .. Len(events) + 1 /\ Len(events) >= 1
         /\ events'[Len(events) + 1] = type /\ \A i \in DOMAIN events : events'[i] = events[i]
  <1>1. /\ events \in Seq(EventTypes) /\ Len(events) \in Nat /\ events # <<>>
        /\ \A i \in DOMAIN events : events[i] \notin Terminal
    BY DEF LiveTypes, EventInv
  <1>2. /\ Len(events') = Len(events) + 1 /\ events'[Len(events) + 1] = type
        /\ \A i \in 1 .. Len(events) : events'[i] = events[i]
        /\ DOMAIN events' = 1 .. Len(events) + 1 /\ Len(events) >= 1
    BY <1>1
  <1>3. EventsInOrder
    BY DEF EventInv
  <1> QED BY <1>1, <1>2, <1>3 DEF EventsInOrder

LEMMA EventRunStep ==
  ASSUME LiveTypes, EventInv, RunNext
  PROVE  EventInv'
  <1>1. CASE Scans
    <2>1. pc \notin {"idle", "over"} /\ buf # <<>> /\ Head(buf) \in Lines
      BY <1>1 DEF Scans, EventInv, LiveTypes
    <2>2. CASE UNCHANGED events
      BY <1>1, <2>1, <2>2 DEF Scans, EventInv, EventsInOrder
    <2>3. CASE Head(buf) \in {"TITLE", "SEASON", "PROGRESS"} /\ events' = Append(events, Head(buf))
               /\ (Head(buf) \in {"TITLE", "SEASON"} => Head(buf) \notin ToSet(events))
      <3>1. Head(buf) \in EventTypes /\ Head(buf) # "running" /\ Head(buf) \notin Terminal
        BY <2>3 DEF EventTypes, Terminal
      <3>2. Head(buf) \in {"TITLE", "SEASON"} => \A i \in DOMAIN events : events[i] # Head(buf)
        BY <2>3 DEF ToSet
      <3>3. EventsInOrder' /\ DOMAIN events' = 1 .. Len(events) + 1 /\ Len(events) >= 1
            /\ events'[Len(events) + 1] = Head(buf)
            /\ \A i \in DOMAIN events : events'[i] = events[i]
        BY <2>1, <2>3, <3>1, <3>2, PublishInOrder
      <3>4. events' # <<>>
        BY <2>3 DEF LiveTypes
      <3>5. DOMAIN events = 1 .. Len(events) /\ Len(events) \in Nat
            /\ \A i \in DOMAIN events : events[i] \notin Terminal
        BY <2>1 DEF LiveTypes, EventInv
      <3>6. ASSUME NEW i \in DOMAIN events' PROVE events'[i] \notin Terminal
        <4>1. i = Len(events) + 1 \/ i \in DOMAIN events
          BY <3>3, <3>5
        <4> QED BY <3>1, <3>3, <3>5, <4>1
      <3> QED BY <1>1, <2>1, <3>3, <3>4, <3>6 DEF Scans, EventInv
    <2> QED BY <1>1, <2>2, <2>3 DEF Scans, Handle, Publish, PublishOnce
  <1>2. CASE Finish
    <2>1. PICK type \in Terminal : events' = Append(events, type)
      BY <1>2 DEF Finish, Publish, Terminal
    <2>2. type \in EventTypes /\ type # "running" /\ type \notin {"TITLE", "SEASON"}
      BY DEF EventTypes, Terminal
    <2>3. EventsInOrder' /\ DOMAIN events' = 1 .. Len(events) + 1
      BY <1>2, <2>1, <2>2, PublishInOrder DEF Finish
    <2>4. events' # <<>>
      BY <2>1 DEF LiveTypes
    <2>5. closed
      BY <1>2 DEF Finish, EventInv
    <2> QED BY <1>2, <2>3, <2>4, <2>5 DEF Finish, Drained, EventInv
  <1>3. CASE Prints
    BY <1>3 DEF Prints, EventInv, EventsInOrder
  <1>4. CASE Exits
    BY <1>4 DEF Exits, EventInv, EventsInOrder
  <1>5. CASE Reads
    BY <1>5 DEF Reads, EventInv, EventsInOrder
  <1>10. CASE GivesUp
    BY <1>10 DEF GivesUp, EventInv, EventsInOrder
  <1>6. CASE WaitReturns
    BY <1>6 DEF WaitReturns, EventInv, EventsInOrder
  <1>7. CASE Cancel
    BY <1>7 DEF Cancel, EventInv, EventsInOrder
  <1>8. CASE Interrupt
    BY <1>8 DEF Interrupt, EventInv, EventsInOrder
  <1>9. CASE Exited
    BY <1>9 DEF Exited, EventInv, EventsInOrder
  <1> QED BY <1>1, <1>2, <1>3, <1>4, <1>5, <1>6, <1>7, <1>8, <1>9, <1>10 DEF RunNext

LEMMA EventStep ==
  ASSUME LiveTypes, EventInv, LiveNext
  PROVE  EventInv'
  <1>1. CASE LaunchFails
    <2>1. events' = <<"running", "failed">>
      BY <1>1 DEF LaunchFails
    <2>2. EventsInOrder'
      BY <2>1 DEF EventsInOrder, Terminal
    <2> QED BY <1>1, <2>1, <2>2 DEF LaunchFails, EventInv
  <1>2. ASSUME NEW lines \in Scripts, Launch(lines) PROVE EventInv'
    <2>1. events' = <<"running">>
      BY <1>2 DEF Launch, Publish, EventInv, LiveTypes
    <2>2. EventsInOrder'
      BY <2>1 DEF EventsInOrder, Terminal
    <2>3. events' # <<>> /\ \A i \in DOMAIN events' : events'[i] \notin Terminal
      BY <2>1 DEF Terminal
    <2> QED BY <1>2, <2>2, <2>3 DEF Launch, EventInv
  <1>3. CASE UNCHANGED runVars
    BY <1>3 DEF runVars, EventInv, EventsInOrder
  <1> QED
    BY <1>1, <1>2, <1>3, EventRunStep DEF LiveNext, Starts, Insert, PostFails, Delivered,
       Reconciled, Connect, Disconnect, Message

-----------------------------------------------------------------------------
(* The path of a completed run.                                            *)

\* All that yt-dlp had to print is printed, and its file is in place.
Printed == script = <<>> /\ "final" \in files /\ "part" \notin files

\* The final path is at the end of the output, and a run does not end well
\* before it is printed.
PathInv ==
  /\ probed \in {Nothing, "source", "final"} /\ "source" \notin files
  /\ script # <<>> => Last(script) = "FINAL"
  /\ pc \notin {"idle", "over"} => script # <<>> \/ Printed
  /\ pc \notin {"idle", "over"} /\ proc = "ok" => Printed
  /\ pc = "over" /\ Last(events) = "completed" => Printed

\* The rest of a sequence ends as the sequence does.
LEMMA LastOfTail ==
  ASSUME NEW S, NEW s \in Seq(S), s # <<>>
  PROVE  /\ Tail(s) # <<>> => Last(Tail(s)) = Last(s)
         /\ Tail(s) = <<>> => Head(s) = Last(s)
  <1> DEFINE t == Tail(s)
  <1>1. /\ t \in Seq(S) /\ Len(s) \in Nat /\ Len(s) >= 1 /\ Len(t) = Len(s) - 1
        /\ \A i \in 1 .. Len(t) : t[i] = s[i + 1]
    OBVIOUS
  <1> HIDE DEF t
  <1>2. ASSUME t # <<>> PROVE Last(t) = Last(s)
    <2>1. Len(t) \in Nat \ {0}
      BY <1>1, <1>2, EmptySeq
    <2> QED BY <1>1, <2>1 DEF Last
  <1>3. ASSUME t = <<>> PROVE Head(s) = Last(s)
    <2>1. Len(t) = 0
      BY <1>3, EmptySeq
    <2>2. Len(s) = 1
      BY <1>1, <2>1
    <2> QED BY <2>2 DEF Last
  <1> QED BY <1>2, <1>3 DEF t

LEMMA PathRunStep ==
  ASSUME LiveTypes, EventInv, PathInv, RunNext
  PROVE  PathInv'
  <1>1. CASE Prints
    <2>1. script # <<>> /\ script \in Seq(Lines) /\ script' = Tail(script)
          /\ proc' = "running" /\ pc' = pc /\ pc \notin {"idle", "over"} /\ probed' = probed
          /\ files' = Effect(Head(script))
      BY <1>1 DEF Prints, LiveTypes, EventInv
    <2>2. script' # <<>> => Last(script') = "FINAL"
      BY <2>1, LastOfTail DEF PathInv
    <2>3. "source" \notin files'
      BY <2>1 DEF PathInv, Effect
    <2>4. script' = <<>> => "final" \in files' /\ "part" \notin files'
      <3>1. script' = <<>> => Head(script) = "FINAL"
        BY <2>1, LastOfTail DEF PathInv
      <3> QED BY <2>1, <3>1 DEF Effect
    <2> QED BY <2>1, <2>2, <2>3, <2>4 DEF PathInv, Printed
  <1>2. CASE Exits
    <2>1. proc' = "ok" => script = <<>>
      BY <1>2 DEF Exits
    <2>2. pc \notin {"idle", "over"}
      BY <1>2 DEF Exits, EventInv
    <2> QED BY <1>2, <2>1, <2>2 DEF Exits, PathInv, Printed
  <1>3. CASE Scans
    <2>1. pc' = pc /\ pc \notin {"idle", "over"} /\ probed' = Probe(Head(buf))
          /\ UNCHANGED <<script, files, proc>>
      BY <1>3 DEF Scans, Handle, EventInv
    <2>2. probed' \in {Nothing, "source", "final"}
      BY <2>1 DEF PathInv, Probe
    <2> QED BY <2>1, <2>2 DEF PathInv, Printed
  <1>4. CASE Finish
    <2>1. events' = Append(events, "completed") => proc = "ok"
      BY <1>4 DEF Finish, Publish, LiveTypes
    <2>2. PICK type \in Terminal :
            events' = Append(events, type) /\ (type = "completed" => proc = "ok")
      BY <1>4 DEF Finish, Publish, Terminal
    <2>3. Last(events') = type
      BY <2>2 DEF Last, LiveTypes
    <2> QED BY <1>4, <2>2, <2>3 DEF Finish, PathInv, Printed
  <1>5. CASE Reads
    BY <1>5 DEF Reads, PathInv, Printed
  <1>10. CASE GivesUp
    BY <1>10 DEF GivesUp, PathInv, Printed
  <1>6. CASE WaitReturns
    BY <1>6 DEF WaitReturns, PathInv, Printed
  <1>7. CASE Cancel
    BY <1>7 DEF Cancel, PathInv, Printed
  <1>8. CASE Interrupt
    BY <1>8 DEF Interrupt, PathInv, Printed
  <1>9. CASE Exited
    BY <1>9 DEF Exited, PathInv, Printed
  <1> QED BY <1>1, <1>2, <1>3, <1>4, <1>5, <1>6, <1>7, <1>8, <1>9, <1>10 DEF RunNext

LEMMA PathStep ==
  ASSUME LiveTypes, EventInv, PathInv, LiveNext
  PROVE  PathInv'
  <1>1. CASE LaunchFails
    <2>1. Last(events') = "failed"
      BY <1>1 DEF LaunchFails, Last
    <2> QED BY <1>1, <2>1 DEF LaunchFails, PathInv, Printed
  <1>2. ASSUME NEW lines \in Scripts, Launch(lines) PROVE PathInv'
    BY <1>2, RunAssumption DEF Launch, PathInv, Printed
  <1>3. CASE UNCHANGED runVars
    BY <1>3 DEF runVars, PathInv, Printed
  <1> QED
    BY <1>1, <1>2, <1>3, PathRunStep DEF LiveNext, Starts, Insert, PostFails, Delivered,
       Reconciled, Connect, Disconnect, Message

LEMMA PathFromInv ==
  ASSUME LiveTypes, PathInv
  PROVE  PathFound
  <1> SUFFICES ASSUME Printed, probed # Nothing, "old" \notin files
               PROVE  ActualFile(probed) = {"final"}
    BY DEF PathFound, PathInv
  <1>1. files = {"final"}
    BY DEF LiveTypes, Names, PathInv, Printed
  <1> QED BY <1>1 DEF ActualFile, PathInv

-----------------------------------------------------------------------------
(* The page's view of a job.                                               *)

\* A view the page may end up with.
Agrees(v) ==
  /\ v # "none" => row \in Active \/ silent
  /\ row = "running" => v = "running"

\* What a message makes of the view, if it says anything of the status.
Decides(m) == m.type = "snapshot" \/ m.status \in Active \cup Terminal
Outcome(m) == IF m.status \in Active THEN m.status ELSE "none"

\* The last message on the way that decides the view is right about it, and if
\* there is none the view is.
ViewInv ==
  socket = "open" =>
    /\ (\A k \in DOMAIN wire : ~Decides(wire[k])) => Agrees(view)
    /\ \A k \in DOMAIN wire :
         Decides(wire[k]) /\ (\A j \in DOMAIN wire : Decides(wire[j]) => j <= k) =>
           Agrees(Outcome(wire[k]))

\* A step that sends and receives nothing: it must spare the views that are right.
LEMMA ViewKept ==
  ASSUME LiveTypes, ViewInv, UNCHANGED <<wire, view, socket>>,
         \A v \in Active \cup {"none"} : Agrees(v) => Agrees(v)'
  PROVE  ViewInv'
  <1> SUFFICES ASSUME socket = "open"
               PROVE  /\ (\A k \in DOMAIN wire : ~Decides(wire[k])) => Agrees(view)'
                      /\ \A k \in DOMAIN wire :
                           Decides(wire[k]) /\ (\A j \in DOMAIN wire : Decides(wire[j]) => j <= k) =>
                             Agrees(Outcome(wire[k]))'
    BY DEF ViewInv, Agrees, Decides, Outcome
  <1>1. view \in Active \cup {"none"} /\ \A m : Outcome(m) \in Active \cup {"none"}
    BY DEF LiveTypes, Outcome
  <1>2. (\A k \in DOMAIN wire : ~Decides(wire[k])) => Agrees(view)'
    <2>1. Agrees(view) => Agrees(view)'
      BY <1>1 DEF Agrees
    <2> QED BY <2>1 DEF ViewInv
  <1>3. ASSUME NEW k \in DOMAIN wire, Decides(wire[k]),
               \A j \in DOMAIN wire : Decides(wire[j]) => j <= k
        PROVE  Agrees(Outcome(wire[k]))'
    <2>1. Agrees(Outcome(wire[k]))
      BY <1>3 DEF ViewInv
    <2> QED BY <1>1, <2>1 DEF Agrees, Outcome
  <1> QED BY <1>2, <1>3

LEMMA ViewStep ==
  ASSUME LiveTypes, ViewInv, LiveNext
  PROVE  ViewInv'
  <1>1. CASE Insert
    BY <1>1, ViewKept DEF Insert, Agrees, Active
  <1>2. CASE PostFails
    BY <1>2, ViewKept DEF PostFails, Agrees
  <1>3. CASE Starts
    BY <1>3, ViewKept DEF Starts, Agrees
  <1>4. CASE Reconciled
    BY <1>4, ViewKept DEF Reconciled, Agrees
  <1>5. CASE RunNext /\ UNCHANGED <<row, told, socket, wire, view, silent>>
    BY <1>5, ViewKept DEF Agrees
  <1>6. CASE Disconnect
    BY <1>6 DEF Disconnect, ViewInv
  <1>7. CASE Connect
    <2>1. PICK s \in Active \cup {"none"} :
            /\ s = (IF row \in Active THEN row ELSE "none")
            /\ wire' = <<[type |-> "snapshot", status |-> s]>>
            /\ UNCHANGED <<row, silent, view>>
      BY <1>7 DEF Connect, SendSnapshot, Snapshot, ActiveStatus
    <2> DEFINE m == [type |-> "snapshot", status |-> s]
    <2>2. Decides(m) /\ Outcome(m) = s
      BY <2>1 DEF Decides, Outcome, Active
    <2>3. Agrees(s)'
      BY <2>1 DEF Agrees, Active
    <2>4. DOMAIN wire' = {1} /\ wire'[1] = m
      BY <2>1
    <2> HIDE DEF m
    <2> QED BY <2>2, <2>3, <2>4 DEF ViewInv, Decides, Outcome, Agrees
  <1>8. CASE Delivered
    <2>1. PICK event \in EventTypes :
            /\ row' = (IF event \in Active \cup Terminal THEN event ELSE row)
            /\ silent' = (silent /\ event \notin Active)
            /\ wire' = (IF socket = "open"
                        THEN Append(wire, [type |-> "event", status |-> event]) ELSE wire)
            /\ UNCHANGED <<socket, view>>
      <3>1. told + 1 \in 1 .. Len(events) /\ events[told + 1] \in EventTypes
        BY <1>8 DEF Delivered, LiveTypes
      <3> QED BY <1>8, <3>1 DEF Delivered, Broadcast
    <2> DEFINE m == [type |-> "event", status |-> event]
    <2>2. m.type = "event" /\ m.status = event /\ m \in Messages
      BY DEF Messages
    <2>3. CASE socket = "closed"
      BY <2>1, <2>3 DEF ViewInv
    <2>4. CASE socket = "open"
      <3> HIDE DEF m
      <3>1. /\ Len(wire) \in Nat /\ DOMAIN wire = 1 .. Len(wire)
            /\ DOMAIN wire' = 1 .. Len(wire) + 1 /\ wire'[Len(wire) + 1] = m
            /\ \A k \in DOMAIN wire : wire'[k] = wire[k]
        BY <2>1, <2>2, <2>4 DEF LiveTypes, m
      <3>2. CASE event \in Active \cup Terminal
        <4>1. Decides(m)
          BY <2>2, <3>2 DEF Decides
        <4>2. Agrees(Outcome(m))'
          BY <2>1, <2>2, <3>2 DEF Agrees, Outcome, EventTypes, Active, Terminal
        <4>3. ASSUME NEW k \in DOMAIN wire', \A j \in DOMAIN wire' : Decides(wire'[j]) => j <= k
              PROVE  k = Len(wire) + 1
          BY <3>1, <4>1, <4>3
        <4>4. \E k \in DOMAIN wire' : Decides(wire'[k])
          BY <3>1, <4>1
        <4>5. ASSUME NEW k \in DOMAIN wire', \A j \in DOMAIN wire' : Decides(wire'[j]) => j <= k
              PROVE  Agrees(Outcome(wire[k]))'
          BY <3>1, <4>2, <4>3, <4>5 DEF Agrees, Outcome
        <4> QED BY <4>4, <4>5 DEF ViewInv, Decides, Outcome, Agrees
      <3>3. CASE event \notin Active \cup Terminal
        <4>1. ~Decides(m)
          BY <2>2, <3>3 DEF Decides
        <4>2. row' = row /\ silent' = silent
          BY <2>1, <3>3 DEF LiveTypes
        <4>3. (\A k \in DOMAIN wire' : ~Decides(wire'[k])) => Agrees(view)
          BY <2>4, <3>1 DEF ViewInv
        <4>4. ASSUME NEW k \in DOMAIN wire', Decides(wire'[k]),
                     \A j \in DOMAIN wire' : Decides(wire'[j]) => j <= k
              PROVE  Agrees(Outcome(wire'[k]))
          <5>1. k \in DOMAIN wire /\ wire'[k] = wire[k]
            BY <3>1, <4>1, <4>4
          <5> QED BY <2>4, <3>1, <4>4, <5>1 DEF ViewInv
        <4> QED BY <2>1, <4>2, <4>3, <4>4 DEF ViewInv, Decides, Outcome, Agrees
      <3> QED BY <3>2, <3>3
    <2> QED BY <2>3, <2>4 DEF LiveTypes
  <1>9. CASE Message
    <2>1. /\ wire # <<>> /\ wire' = Tail(wire) /\ UNCHANGED <<row, silent, socket>>
          /\ view' = (IF Head(wire).type = "snapshot" THEN Head(wire).status
                      ELSE Apply(view, Head(wire).status))
      BY <1>9 DEF Message
    <2>2. /\ Len(wire) \in Nat /\ Len(wire) >= 1 /\ DOMAIN wire = 1 .. Len(wire)
          /\ DOMAIN wire' = 1 .. Len(wire) - 1 /\ Head(wire) = wire[1] /\ wire[1] \in Messages
          /\ \A k \in DOMAIN wire' : wire'[k] = wire[k + 1]
      BY <2>1 DEF LiveTypes
    <2>3. view' = IF Decides(wire[1]) THEN Outcome(wire[1]) ELSE view
      <3>1. wire[1].type = "snapshot" => wire[1].status \in Active \cup {"none"}
        BY <2>2 DEF Messages
      <3> QED BY <2>1, <2>2, <3>1 DEF Decides, Outcome, Apply, Active, Terminal
    <2> SUFFICES ASSUME socket = "open"
                 PROVE  /\ (\A k \in DOMAIN wire' : ~Decides(wire'[k])) => Agrees(view')
                        /\ \A k \in DOMAIN wire' :
                             Decides(wire'[k]) /\ (\A j \in DOMAIN wire' : Decides(wire'[j]) => j <= k) =>
                               Agrees(Outcome(wire'[k]))
      BY <2>1 DEF ViewInv, Decides, Outcome, Agrees
    <2>4. ASSUME \A k \in DOMAIN wire' : ~Decides(wire'[k])
          PROVE  Agrees(view')
      <3>1. ASSUME NEW k \in DOMAIN wire, k # 1 PROVE ~Decides(wire[k])
        <4>1. k - 1 \in DOMAIN wire' /\ wire'[k - 1] = wire[k]
          BY <2>2, <3>1
        <4> QED BY <2>4, <4>1
      <3>2. CASE Decides(wire[1])
        <4>1. \A j \in DOMAIN wire : Decides(wire[j]) => j <= 1
          BY <2>2, <3>1
        <4> QED BY <2>2, <2>3, <3>2, <4>1 DEF ViewInv
      <3>3. CASE ~Decides(wire[1])
        BY <2>2, <2>3, <3>1, <3>3 DEF ViewInv
      <3> QED BY <3>2, <3>3
    <2>5. ASSUME NEW k \in DOMAIN wire', Decides(wire'[k]),
                 \A j \in DOMAIN wire' : Decides(wire'[j]) => j <= k
          PROVE  Agrees(Outcome(wire'[k]))
      <3>1. k + 1 \in DOMAIN wire /\ wire'[k] = wire[k + 1] /\ k \in Nat
        BY <2>2
      <3>2. ASSUME NEW j \in DOMAIN wire, Decides(wire[j]) PROVE j <= k + 1
        <4>1. j = 1 \/ (j - 1 \in DOMAIN wire' /\ wire'[j - 1] = wire[j])
          BY <2>2
        <4> QED BY <2>2, <2>5, <3>1, <3>2, <4>1
      <3> QED BY <2>5, <3>1, <3>2 DEF ViewInv
    <2> QED BY <2>4, <2>5
  <1> QED BY <1>1, <1>2, <1>3, <1>4, <1>5, <1>6, <1>7, <1>8, <1>9 DEF LiveNext

-----------------------------------------------------------------------------
(* The limit.                                                              *)

\* As long as no limit is saved the downloader has its own; and unless something
\* went wrong, at most one push is under way, it carries what is saved, and once
\* it has arrived the downloader has it.
LimitInv ==
  /\ db.limit = Never => conf = EnvLimit /\ ~PushUnderWay
  /\ ~drift =>
      /\ \A s, t \in Slots : Pushing(s) /\ Pushing(t) => s = t
      /\ \A s \in Slots : Pushing(s) => sync.at = "no" /\ puts[s].values.limit = db.limit
      /\ sync.at # "no" => sync.limit = db.limit
      /\ stream # "down" /\ sync.at # "push" /\ (\A s \in Slots : puts[s].at # "push") =>
           conf = IF db.limit = Never THEN EnvLimit ELSE db.limit

\* A step that starts or ends no push.
LEMMA LimitKept ==
  ASSUME LimitInv, UNCHANGED <<db, pushVars>>,
         \A s \in Slots : Pushing(s)' => Pushing(s) /\ puts'[s].values = puts[s].values,
         \A s \in Slots : puts[s].at = "push" => puts'[s].at = "push"
  PROVE  LimitInv'
  <1>1. UNCHANGED <<db, conf, stream, sync, drift>>
    BY DEF pushVars
  <1> QED BY <1>1 DEF LimitInv, PushUnderWay, Pushing

LEMMA LimitStep ==
  ASSUME SettingsTypes, LimitInv, SettingsNext
  PROVE  LimitInv'
  <1>1. puts \in [Slots -> PutType] /\ \A s \in Slots : puts[s] \in PutType
    BY DEF SettingsTypes
  <1> USE DEF Pushing, PushUnderWay
  <1>2. ASSUME NEW s \in Slots, SavesLimit(s) PROVE LimitInv'
    <2>1. /\ puts'[s].at = "push" /\ puts'[s].values = puts[s].values
          /\ \A t \in Slots \ {s} : puts'[t] = puts[t]
      BY <1>1, <1>2, SetEffect DEF SavesLimit, Ats, PutType
    <2>2. db'.limit = puts[s].values.limit /\ db'.limit # Never
      BY <1>1, <1>2, SettingsAssumption DEF SavesLimit, SettingsTypes, Tables, Values, PutType
    <2>3. ~drift' => sync.at = "no" /\ \A t \in Slots : ~Pushing(t)
      BY <1>2 DEF SavesLimit, PushUnderWay
    <2> QED BY <1>2, <2>1, <2>2, <2>3 DEF SavesLimit, LimitInv
  <1>3. ASSUME NEW s \in Slots, Patched(s) PROVE LimitInv'
    <2>1. /\ puts'[s].at = "pushed" /\ puts'[s].values = puts[s].values /\ puts[s].at = "push"
          /\ \A t \in Slots \ {s} : puts'[t] = puts[t]
      BY <1>1, <1>3, SetEffect DEF Patched, Ats, PutType
    <2> QED BY <1>3, <2>1 DEF Patched, LimitInv
  <1>4. ASSUME NEW s \in Slots, Saved(s) PROVE LimitInv'
    <2>1. /\ puts'[s].at = "ok" /\ puts[s].at = "pushed"
          /\ \A t \in Slots \ {s} : puts'[t] = puts[t]
      BY <1>1, <1>4, SetEffect DEF Saved, Ats, PutType
    <2>2. db'.limit = db.limit
      BY <1>4 DEF Saved, SettingsTypes, Tables
    <2> QED BY <1>4, <2>1, <2>2 DEF Saved, LimitInv, pushVars
  <1>5. ASSUME NEW s \in Slots, PatchFails(s) PROVE LimitInv'
    <2>1. Pushing(s) /\ db.limit # Never
      BY <1>5 DEF PatchFails, LimitInv
    <2> QED BY <1>5, <2>1 DEF PatchFails, LimitInv
  <1>6. ASSUME NEW s \in Slots, Answered(s) PROVE LimitInv'
    <2>1. puts'[s].at = "no" /\ \A t \in Slots \ {s} : puts'[t] = puts[t]
      BY <1>1, <1>6, AnswerEffect
    <2> QED BY <1>6, <2>1, LimitKept DEF Answered
  <1>7. CASE DownloaderRestarts
    BY <1>7 DEF DownloaderRestarts, LimitInv
  <1>8. CASE Reconnects
    <2>1. CASE db.limit = Never
      BY <1>8, <2>1 DEF Reconnects, PushSaved, NoPush, LimitInv
    <2>2. CASE db.limit # Never
      <3>1. sync'.at = "push" /\ sync'.limit = db.limit
        BY <1>8, <2>2 DEF Reconnects, PushSaved
      <3>2. ~drift' => \A t \in Slots : ~Pushing(t)
        BY <1>8, <2>2 DEF Reconnects, PushSaved
      <3> QED BY <1>8, <2>2, <3>1, <3>2 DEF Reconnects, LimitInv
    <2> QED BY <2>1, <2>2
  <1>9. CASE SyncPatched
    <2>1. sync'.at = "pushed" /\ sync'.limit = sync.limit /\ sync.at = "push"
      BY <1>9 DEF SyncPatched, SettingsTypes
    <2> QED BY <1>9, <2>1 DEF SyncPatched, LimitInv
  <1>10. CASE SyncEnds
    <2>1. sync'.at = "no"
      BY <1>10 DEF SyncEnds, NoSync
    <2>2. ~drift' => ~drift /\ sync.at = "pushed" /\ stream # "down"
      BY <1>10 DEF SyncEnds, SettingsTypes
    <2> QED BY <1>10, <2>1, <2>2 DEF SyncEnds, LimitInv
  <1>11. ASSUME NEW by \in {"form", "guard"}, Save(by), UNCHANGED <<db, pushVars>>
         PROVE  LimitInv'
    <2>1. \A t \in Slots : /\ Pushing(t)' => Pushing(t) /\ puts'[t].values = puts[t].values
                           /\ puts[t].at = "push" => puts'[t].at = "push"
      <3>1. PICK s \in Slots :
              /\ puts[s].at = "no" /\ puts'[s].at = "sent"
              /\ \A t \in Slots \ {s} : puts'[t].at = puts[t].at /\ puts'[t].values = puts[t].values
        BY <1>1, <1>11, SaveEffect DEF SettingsTypes
      <3> QED BY <3>1
    <2> QED BY <1>11, <2>1, LimitKept
  <1>12. CASE puts' = Crossed /\ UNCHANGED <<db, pushVars>>
    BY <1>1, <1>12, CrossedEffect, LimitKept
  <1>13. CASE UNCHANGED <<db, pushVars, puts>>
    BY <1>13, LimitKept
  <1>14. CASE Submits \/ SavesFirst
    BY <1>11, <1>13, <1>14 DEF Submits, SavesFirst
  <1>15. CASE Navigates \/ Discards
    BY <1>12, <1>13, <1>15 DEF Navigates, Discards
  <1>16. CASE Opens \/ Seeded \/ Stays \/ \E values \in Typed : Edits(values)
    BY <1>13, <1>16 DEF Opens, Seeded, Stays, Edits
  <1> QED
    BY <1>2, <1>3, <1>4, <1>5, <1>6, <1>7, <1>8, <1>9, <1>10, <1>14, <1>15, <1>16
    DEF SettingsNext

LEMMA LimitFromInv ==
  ASSUME LimitInv
  PROVE  LimitAgrees
  BY DEF LimitInv, LimitAgrees, PushUnderWay, Pushing

-----------------------------------------------------------------------------
(* The form.                                                               *)

ByGuard == {s \in UnderWay : puts[s].by = "guard"}

\* A save that no other crossed, its page still there: nothing else wrote the
\* table since it began to, and if it is the guard's, nobody edits the form.
AloneInv ==
  \A s \in UnderWay : puts[s].alone =>
    /\ UnderWay = {s} /\ page = "settings"
    /\ s \in ByGuard => draft = puts[s].values
    /\ puts[s].at \in {"push", "pushed", "ok"} =>
         db.limit = puts[s].values.limit /\ db.format = puts[s].values.format
    /\ puts[s].at = "ok" => db = puts[s].values

PageInv ==
  /\ baseline = Unread => UnderWay = {} /\ modal = "no"
  /\ seed # "done" => baseline = Unread
  /\ modal # "no" => page = "settings"
  /\ ByGuard # {} => modal = "busy"
  /\ \A s, t \in ByGuard : s = t
  /\ \A s \in UnderWay : puts[s].at = "failed" \/ ~puts[s].alone => upset
  /\ AloneInv
  /\ PageTrue

\* A step that leaves the form, the table and the PUTs alone.
LEMMA PageKept ==
  ASSUME PageInv, UNCHANGED <<db, puts, draft, baseline, upset, page, modal, seed>>
  PROVE  PageInv'
  BY DEF PageInv, AloneInv, PageTrue, Shown, ByGuard, UnderWay

\* A new save: those under way are crossed, and it is alone if there are none.
LEMMA SavePage ==
  ASSUME SettingsTypes, PageInv, NEW by \in {"form", "guard"}, Save(by),
         UNCHANGED <<db, draft, baseline, page, seed>>, page = "settings", baseline # Unread,
         ByGuard = {}, modal' = IF by = "guard" THEN "busy" ELSE modal
  PROVE  PageInv'
  <1>1. PICK s \in Slots :
          /\ puts[s].at = "no"
          /\ puts'[s].by = by /\ puts'[s].values = draft /\ puts'[s].at = "sent"
          /\ puts'[s].alone => UnderWay = {}
          /\ UnderWay = {} => puts'[s].alone
          /\ \A t \in Slots \ {s} :
               /\ puts'[t].at = puts[t].at /\ puts'[t].by = puts[t].by
               /\ puts'[t].values = puts[t].values /\ ~puts'[t].alone
    BY SaveEffect DEF SettingsTypes
  <1>2. UnderWay' = UnderWay \cup {s} /\ s \notin UnderWay
    BY <1>1 DEF UnderWay
  <1>3. ByGuard' = IF by = "guard" THEN {s} ELSE {}
    <2>1. ByGuard' \subseteq {s}
      BY <1>1, <1>2 DEF ByGuard, UnderWay
    <2>2. s \in ByGuard' <=> by = "guard"
      BY <1>1, <1>2 DEF ByGuard
    <2> QED BY <2>1, <2>2
  <1>4. upset' = (upset \/ UnderWay # {})
    BY DEF Save, Crosses
  <1>5. \A t \in UnderWay' : puts'[t].at = "failed" \/ ~puts'[t].alone => upset'
    <2>1. CASE UnderWay = {}
      BY <1>1, <1>2, <2>1
    <2>2. CASE UnderWay # {}
      BY <1>4, <2>2
    <2> QED BY <2>1, <2>2
  <1>6. AloneInv'
    <2> SUFFICES ASSUME NEW t \in UnderWay', puts'[t].alone
                 PROVE  /\ UnderWay' = {t} /\ page' = "settings" /\ draft' = puts'[t].values
                        /\ puts'[t].at = "sent"
      BY DEF AloneInv
    <2>1. t = s
      BY <1>1 DEF UnderWay
    <2> QED BY <1>1, <1>2, <2>1
  <1>7. PageTrue'
    BY <1>2 DEF PageTrue
  <1> QED BY <1>2, <1>3, <1>5, <1>6, <1>7 DEF PageInv

\* The page is left: the saves under way are crossed.
LEMMA LeavePage ==
  ASSUME SettingsTypes, PageInv, ByGuard = {}, puts' = Crossed, Crosses,
         UNCHANGED <<db, baseline, seed>>, draft' = IF baseline = Unread THEN draft ELSE baseline,
         page' = "elsewhere", modal' = "no"
  PROVE  PageInv'
  <1>1. \A s \in Slots : /\ puts'[s].at = puts[s].at /\ puts'[s].by = puts[s].by
                         /\ ~puts'[s].alone
    BY CrossedEffect DEF SettingsTypes
  <1>2. UnderWay' = UnderWay /\ ByGuard' = {}
    BY <1>1 DEF UnderWay, ByGuard
  <1>3. UnderWay # {} => upset'
    BY DEF Crosses
  <1>4. AloneInv'
    BY <1>1 DEF AloneInv, UnderWay
  <1>5. PageTrue'
    BY <1>2 DEF PageInv, PageTrue, Shown, Crosses
  <1> QED BY <1>2, <1>3, <1>4, <1>5 DEF PageInv

\* A PUT moves on in the server; only the last of the three steps may break
\* what is true of a form with no save under way, and that is not this one.
LEMMA MovePage ==
  ASSUME SettingsTypes, PageInv, NEW s \in Slots, NEW at \in Ats \ {"no"}, puts[s].at # "no",
         Set(s, at), UNCHANGED <<draft, baseline, page, modal, seed>>, upset => upset',
         at = "failed" => upset',
         puts[s].alone /\ at \in {"push", "pushed", "ok"} =>
           db'.limit = puts[s].values.limit /\ db'.format = puts[s].values.format,
         puts[s].alone /\ at = "ok" => db' = puts[s].values
  PROVE  PageInv'
  <1>1. puts[s] \in PutType
    BY DEF SettingsTypes
  <1>2. /\ puts'[s] = [puts[s] EXCEPT !.at = at]
        /\ \A t \in Slots \ {s} : puts'[t] = puts[t]
    BY SetEffect DEF SettingsTypes
  <1>7. /\ puts'[s].at = at /\ puts'[s].by = puts[s].by /\ puts'[s].values = puts[s].values
        /\ puts'[s].alone = puts[s].alone
    BY <1>1, <1>2 DEF PutType
  <1>3. UnderWay' = UnderWay /\ ByGuard' = ByGuard /\ s \in UnderWay
    <2>1. \A t \in Slots : /\ puts'[t].at # "no" <=> puts[t].at # "no"
                           /\ puts'[t].by = puts[t].by
      BY <1>2, <1>7
    <2> QED BY <2>1 DEF UnderWay, ByGuard
  <1>4. AloneInv'
    <2> SUFFICES ASSUME NEW t \in UnderWay, puts'[t].alone
                 PROVE  /\ UnderWay = {t} /\ page = "settings"
                        /\ t \in ByGuard => draft = puts'[t].values
                        /\ puts'[t].at \in {"push", "pushed", "ok"} =>
                             /\ db'.limit = puts'[t].values.limit
                             /\ db'.format = puts'[t].values.format
                        /\ puts'[t].at = "ok" => db' = puts'[t].values
      BY <1>3 DEF AloneInv
    <2>1. t \in Slots /\ puts[t].alone /\ puts'[t].values = puts[t].values
      BY <1>2, <1>7 DEF UnderWay
    <2>2. UnderWay = {t} /\ page = "settings" /\ (t \in ByGuard => draft = puts[t].values)
      BY <2>1 DEF PageInv, AloneInv
    <2>3. t = s
      BY <1>3, <2>2
    <2> QED BY <1>7, <2>1, <2>2, <2>3
  <1>5. PageTrue'
    BY <1>3 DEF PageTrue
  <1>6. \A t \in UnderWay' : puts'[t].at = "failed" \/ ~puts'[t].alone => upset'
    BY <1>2, <1>3, <1>7 DEF PageInv, UnderWay
  <1> QED BY <1>3, <1>4, <1>5, <1>6 DEF PageInv

LEMMA PageStep ==
  ASSUME SettingsTypes, PageInv, SettingsNext
  PROVE  PageInv'
  <1> USE DEF pushVars, formVars
  <1>1. puts \in [Slots -> PutType] /\ \A s \in Slots : puts[s] \in PutType
    BY DEF SettingsTypes
  <1>2. ASSUME NEW s \in Slots, SavesLimit(s) PROVE PageInv'
    <2>1. /\ db'.limit = puts[s].values.limit /\ db'.format = puts[s].values.format
          /\ puts[s].at = "sent"
      BY <1>2 DEF SavesLimit, SettingsTypes, Tables
    <2> QED BY <1>2, <2>1, MovePage DEF SavesLimit, Ats
  <1>3. ASSUME NEW s \in Slots, Patched(s) PROVE PageInv'
    <2>1. puts[s].alone =>
            db.limit = puts[s].values.limit /\ db.format = puts[s].values.format
      BY <1>3 DEF Patched, PageInv, AloneInv, UnderWay
    <2> QED BY <1>3, <2>1, MovePage DEF Patched, Ats
  <1>4. ASSUME NEW s \in Slots, Saved(s) PROVE PageInv'
    <2>1. puts[s].alone =>
            db.limit = puts[s].values.limit /\ db.format = puts[s].values.format
      BY <1>4 DEF Saved, PageInv, AloneInv, UnderWay
    <2>2. puts[s].alone => db' = puts[s].values
      BY <1>1, <1>4, <2>1 DEF Saved, SettingsTypes, Tables, Values, PutType
    <2>3. db'.limit = db.limit /\ db'.format = db.format
      BY <1>4 DEF Saved, SettingsTypes, Tables
    <2> QED BY <1>4, <2>1, <2>2, <2>3, MovePage DEF Saved, Ats
  <1>5. ASSUME NEW s \in Slots, PatchFails(s) PROVE PageInv'
    BY <1>5, MovePage DEF PatchFails, Ats
  <1>6. ASSUME NEW s \in Slots, Answered(s) PROVE PageInv'
    <2>1. puts'[s].at = "no" /\ \A t \in Slots \ {s} : puts'[t] = puts[t]
      BY <1>1, <1>6, AnswerEffect
    <2>2. UnderWay' = UnderWay \ {s} /\ s \in UnderWay /\ ByGuard' = ByGuard \ {s}
      BY <1>6, <2>1 DEF Answered, UnderWay, ByGuard
    <2>3. baseline # Unread /\ baseline' # Unread
      BY <1>1, <1>6, <2>2, SettingsAssumption
      DEF PageInv, Answered, SavedSnapshot, PutType
    <2>4. CASE puts[s].alone
      <3>1. UnderWay' = {} /\ ByGuard' = {} /\ page = "settings"
        BY <2>2, <2>4 DEF PageInv, AloneInv, ByGuard
      <3>2. puts[s].at = "failed" => upset'
        BY <1>6, <2>2 DEF PageInv, Answered
      <3>3. puts[s].at = "ok" => baseline' = Shown /\ (page' = "elsewhere" => draft = baseline')
        <4>1. puts[s].at = "ok" => db = puts[s].values /\ Shown = db
          BY <1>1, <2>2, <2>4, SettingsAssumption DEF PageInv, AloneInv, Shown, PutType, Values
        <4> QED
          BY <1>6, <2>2, <2>4, <3>1, <4>1 DEF PageInv, AloneInv, Answered, SavedSnapshot, ByGuard
      <3>4. PageTrue'
        BY <1>6, <3>1, <3>2, <3>3 DEF Answered, PageTrue, Shown
      <3>5. AloneInv' /\ (modal' # "no" => page' = "settings")
        BY <1>6, <3>1 DEF AloneInv, Answered, PageInv
      <3> QED BY <1>6, <2>3, <3>1, <3>4, <3>5 DEF PageInv, Answered
    <2>5. CASE ~puts[s].alone
      <3>1. upset /\ upset'
        BY <1>6, <2>2, <2>5 DEF PageInv, Answered
      <3>2. \A t \in UnderWay' : ~puts'[t].alone
        BY <2>1, <2>2 DEF PageInv, AloneInv, UnderWay
      <3>3. AloneInv' /\ PageTrue'
        BY <3>1, <3>2 DEF AloneInv, PageTrue
      <3>4. /\ modal' # "no" => page' = "settings"
            /\ ByGuard' # {} => modal' = "busy"
            /\ \A t, u \in ByGuard' : t = u
        <4>1. CASE puts[s].by = "guard"
          <5>1. ByGuard' = {}
            BY <2>2, <4>1 DEF PageInv, ByGuard
          <5> QED BY <1>6, <4>1, <5>1 DEF Answered
        <4>2. CASE puts[s].by # "guard"
          BY <1>6, <2>2, <4>2 DEF Answered, PageInv
        <4> QED BY <4>1, <4>2
      <3> QED BY <1>6, <2>3, <3>1, <3>3, <3>4 DEF PageInv, Answered
    <2> QED BY <2>4, <2>5
  <1>7. CASE DownloaderRestarts \/ Reconnects \/ SyncPatched \/ SyncEnds
    BY <1>7, PageKept DEF DownloaderRestarts, Reconnects, SyncPatched, SyncEnds
  <1>8. CASE Opens
    <2>1. UnderWay' = UnderWay /\ ByGuard' = ByGuard
      BY <1>8 DEF Opens, UnderWay, ByGuard
    <2>2. AloneInv' /\ PageTrue'
      BY <1>8, <2>1 DEF Opens, PageInv, AloneInv, PageTrue, Shown
    <2> QED BY <1>8, <2>1, <2>2 DEF Opens, PageInv
  <1>9. CASE Seeded
    <2>1. UnderWay = {} /\ modal = "no" /\ UnderWay' = {} /\ ByGuard' = {}
      BY <1>9 DEF Seeded, PageInv, UnderWay, ByGuard
    <2>2. baseline' # Unread /\ baseline' = draft' /\ (~upset' => draft' = Shown)
      BY <1>9, ShownTypes, SettingsAssumption DEF Seeded, SettingsTypes
    <2> QED BY <1>9, <2>1, <2>2 DEF Seeded, PageInv, AloneInv, PageTrue, Shown
  <1>10. ASSUME NEW values \in Typed, Edits(values) PROVE PageInv'
    <2>1. UnderWay' = UnderWay /\ ByGuard' = ByGuard /\ ByGuard = {} /\ page = "settings"
      BY <1>10 DEF Edits, PageInv, UnderWay, ByGuard
    <2>2. AloneInv' /\ PageTrue'
      BY <1>10, <2>1 DEF Edits, PageInv, AloneInv, PageTrue, Shown
    <2> QED BY <1>10, <2>1, <2>2 DEF Edits, PageInv, UnderWay
  <1>11. CASE Submits
    BY <1>11, SavePage DEF Submits, PageInv
  <1>12. CASE SavesFirst
    <2>1. CASE Valid
      BY <1>12, <2>1, SavePage DEF SavesFirst, PageInv
    <2>2. CASE ~Valid
      <3>1. UnderWay' = UnderWay /\ ByGuard' = ByGuard /\ ByGuard = {}
        BY <1>12, <2>2 DEF SavesFirst, PageInv, UnderWay, ByGuard
      <3>2. AloneInv' /\ PageTrue'
        BY <1>12, <2>2, <3>1 DEF SavesFirst, PageInv, AloneInv, PageTrue, Shown
      <3> QED BY <1>12, <2>2, <3>1, <3>2 DEF SavesFirst, PageInv, UnderWay
    <2> QED BY <2>1, <2>2
  <1>13. CASE Navigates
    <2>1. CASE isDirty
      <3>1. UnderWay' = UnderWay /\ ByGuard' = ByGuard /\ ByGuard = {} /\ baseline # Unread
        BY <1>13, <2>1 DEF Navigates, PageInv, UnderWay, ByGuard, isDirty
      <3>2. AloneInv' /\ PageTrue'
        BY <1>13, <2>1, <3>1 DEF Navigates, PageInv, AloneInv, PageTrue, Shown
      <3> QED BY <1>13, <2>1, <3>1, <3>2 DEF Navigates, PageInv, UnderWay
    <2>2. CASE ~isDirty
      BY <1>13, <2>2, LeavePage DEF Navigates, PageInv, isDirty
    <2> QED BY <2>1, <2>2
  <1>14. CASE Discards
    BY <1>14, LeavePage DEF Discards, PageInv
  <1>15. CASE Stays
    <2>1. UnderWay' = UnderWay /\ ByGuard' = ByGuard /\ ByGuard = {}
      BY <1>15 DEF Stays, PageInv, UnderWay, ByGuard
    <2>2. AloneInv' /\ PageTrue'
      BY <1>15, <2>1 DEF Stays, PageInv, AloneInv, PageTrue, Shown
    <2> QED BY <1>15, <2>1, <2>2 DEF Stays, PageInv, UnderWay
  <1> QED
    BY <1>2, <1>3, <1>4, <1>5, <1>6, <1>7, <1>8, <1>9, <1>10, <1>11, <1>12, <1>13, <1>14,
       <1>15 DEF SettingsNext

-----------------------------------------------------------------------------
(* The page in the application.                                            *)

\* A row that is over stays so, for nothing is left to be delivered; and once the
\* last event was delivered or missed, the row is over if the run is.
RowInv ==
  /\ row = "none" => pc = "idle"
  /\ row = "running" => told >= 1
  /\ row \in Terminal => told = Len(events) /\ (pc = "over" \/ (pc = "idle" /\ silent))
  /\ pc = "over" /\ told = Len(events) => row \in Terminal
  /\ pc = "over" => events[Len(events)] \in Terminal

\* What a run has published, it has published.
LEMMA EventsGrow ==
  ASSUME LiveTypes, EventInv, LiveNext
  PROVE  /\ Len(events) <= Len(events')
         /\ \A i \in 1 .. Len(events) : events'[i] = events[i]
         /\ pc = "over" => events' = events /\ pc' = "over"
         /\ events' # events => Len(events') > Len(events) /\ pc # "over"
         /\ pc' = "over" /\ pc # "over" =>
              Len(events') > Len(events) /\ events'[Len(events')] \in Terminal
         /\ pc' = "idle" => pc = "idle"
  <1> USE DEF LiveTypes, EventInv, runVars
  <1>0. events \in Seq(EventTypes) /\ Len(events) \in Nat
    OBVIOUS
  <1>1. CASE Insert \/ PostFails \/ Delivered \/ Reconciled \/ Connect \/ Disconnect \/ Message
    BY <1>1 DEF Insert, PostFails, Delivered, Reconciled, Connect, Disconnect, Message
  <1>2. CASE Starts
    <2>1. CASE LaunchFails
      <3>1. pc = "idle" /\ pc' = "over" /\ Len(events) = 0 /\ events' = <<"running", "failed">>
        BY <2>1 DEF LaunchFails
      <3> QED BY <3>1 DEF Terminal
    <2>2. ASSUME NEW lines \in Scripts, Launch(lines)
          PROVE  pc = "idle" /\ pc' = "select" /\ events' = Append(events, "running")
      BY <2>2 DEF Launch, Publish
    <2>3. CASE \E lines \in Scripts : Launch(lines)
      <3>1. pc = "idle" /\ pc' = "select" /\ events' = Append(events, "running")
        BY <2>2, <2>3
      <3> HIDE DEF LiveTypes, EventInv
      <3> QED BY <1>0, <3>1
    <2> QED BY <1>2, <2>1, <2>3 DEF Starts
  <1>3. CASE RunNext
    <2>1. CASE Scans
      <3>1. /\ events' = events \/ \E type \in Lines : events' = Append(events, type)
            /\ pc' = pc /\ pc # "over"
        BY <2>1 DEF Scans, Handle, Publish, PublishOnce
      <3> HIDE DEF LiveTypes, EventInv
      <3> QED BY <1>0, <3>1
    <2>2. CASE Finish
      <3>1. \E type \in Terminal : events' = Append(events, type)
        BY <2>2 DEF Finish, Publish, Terminal
      <3>2. pc # "over" /\ pc' = "over"
        BY <2>2 DEF Finish
      <3> HIDE DEF LiveTypes, EventInv
      <3> QED BY <1>0, <3>1, <3>2
    <2>3. CASE Prints \/ Exits \/ Reads \/ GivesUp \/ WaitReturns \/ Cancel \/ Interrupt \/ Exited
      BY <2>3 DEF Prints, Exits, Reads, GivesUp, WaitReturns, Cancel, Interrupt, Exited
    <2> QED BY <1>3, <2>1, <2>2, <2>3 DEF RunNext
  <1> QED BY <1>1, <1>2, <1>3 DEF LiveNext

LEMMA RowStep ==
  ASSUME LiveTypes, EventInv, RowInv, LiveNext
  PROVE  RowInv'
  <1>0. /\ Len(events) \in Nat /\ told \in 0 .. Len(events)
        /\ row \in Active \cup Terminal \cup {"none"}
        /\ Active \cap Terminal = {} /\ "none" \notin Active \cup Terminal
    BY DEF LiveTypes, Active, Terminal
  <1>1. CASE Insert
    BY <1>0, <1>1 DEF Insert, RowInv, runVars, Active, Terminal
  <1>2. CASE PostFails
    BY <1>0, <1>2 DEF PostFails, RowInv, EventInv, runVars, Active, Terminal
  <1>3. CASE Starts
    BY <1>0, <1>3, EventsGrow DEF Starts, RowInv, Launch, LaunchFails, Active, Terminal
  <1>4. CASE Delivered
    <2> DEFINE event == events[told + 1]
    <2>1. /\ told < Len(events) /\ told' = told + 1 /\ UNCHANGED <<pc, events>>
          /\ row' = IF event \in Active \cup Terminal THEN event ELSE row
      BY <1>4 DEF Delivered, runVars
    <2>2. event \in Terminal => told + 1 = Len(events) /\ pc = "over"
      BY <1>0, <2>1 DEF EventInv, EventsInOrder
    <2>3. row \notin Terminal /\ row # "none"
      BY <1>0, <2>1 DEF RowInv, EventInv
    <2>4. row' \in Terminal => event \in Terminal
      BY <1>0, <2>1, <2>3
    <2>5. pc = "over" /\ told + 1 = Len(events) => event \in Terminal
      BY DEF RowInv
    <2>6. row' # "none"
      BY <1>0, <2>1, <2>3
    <2> HIDE DEF event
    <2>7. row' \in Terminal => told' = Len(events') /\ pc' = "over"
      BY <2>1, <2>2, <2>4
    <2>8. pc' = "over" /\ told' = Len(events') => row' \in Terminal
      BY <2>1, <2>5
    <2>9. pc' = "over" => events'[Len(events')] \in Terminal
      BY <2>1 DEF RowInv
    <2> QED BY <1>0, <2>1, <2>6, <2>7, <2>8, <2>9 DEF RowInv
  <1>5. CASE Reconciled
    <2>1. row \notin Terminal /\ row # "none"
      BY <1>0, <1>5 DEF Reconciled, RowInv, EventInv
    <2> QED BY <1>0, <1>5, <2>1 DEF Reconciled, RowInv, runVars, Terminal
  <1>6. CASE Connect \/ Disconnect \/ Message
    BY <1>6 DEF Connect, Disconnect, Message, RowInv, runVars
  <1>7. CASE RunNext /\ UNCHANGED <<row, told, socket, wire, view, silent>>
    <2>1. pc \notin {"idle", "over"}
      BY <1>7 DEF EventInv, RunNext, Prints, Exits, Reads, GivesUp, Scans, WaitReturns, Cancel,
                  Interrupt, Exited, Finish
    <2>2. row \notin Terminal /\ row # "none"
      BY <2>1 DEF RowInv
    <2> QED BY <1>0, <1>7, <2>1, <2>2, EventsGrow DEF RowInv
  <1> QED BY <1>1, <1>2, <1>3, <1>4, <1>5, <1>6, <1>7 DEF LiveNext

\* A status that a snapshot gave: it is right of the events the snapshot knows of.
Knows(status) ==
  fetched.since >= 1 =>
    /\ row = "running" => status = "running"
    /\ events[fetched.since] \in Terminal => status = "none"

\* How many events the page has heard of, or the shell has passed on before.
heard == passed - Len(emitted)

\* What the page shows is right of the events it has heard of. The row may not
\* have got the first of them.
Shows ==
  heard >= 1 =>
    /\ events[heard] \in Terminal => shown = "none"
    /\ events[heard] \notin Terminal /\ (row = "running" \/ told = 0) => shown = "running"

DesktopInv ==
  /\ fetched.at = "closed" => ~ listening
  /\ ~ listening => emitted = <<>>
  /\ Len(emitted) <= passed
  /\ ~ gap => \A k \in DOMAIN emitted : emitted[k] = events[heard + k]
  /\ fetched.since <= told
  /\ fetched.at = "answered" => Knows(fetched.status)
  /\ fetched.at = "got" /\ ~ listening => Knows(shown)
  /\ fetched.at = "got" /\ listening /\ ~ gap => Shows
  /\ row = "none" => fetched.status = "none" /\ shown = "none"

\* The service and the run go on; the page and the shell do not.
LEMMA DesktopTypesRest ==
  ASSUME DesktopTypes, UNCHANGED desktopVars, Len(events) \in Nat, Len(events') \in Nat,
         Len(events) <= Len(events')
  PROVE  DesktopTypes'
  <1>1. passed' \in 0 .. Len(events')
    BY DEF desktopVars, DesktopTypes
  <1>2. /\ fetched.at \in {"closed", "asked", "answered", "got"}
        /\ fetched.status \in Active \cup {"none"} /\ fetched.since \in 0 .. Len(events')
        /\ fetched = [at |-> fetched.at, status |-> fetched.status, since |-> fetched.since]
    BY DEF DesktopTypes
  <1>3. fetched' \in [at : {"closed", "asked", "answered", "got"},
                      status : Active \cup {"none"}, since : 0 .. Len(events')]
    BY <1>2 DEF desktopVars
  <1> QED BY <1>1, <1>3 DEF desktopVars, DesktopTypes

LEMMA DesktopRest ==
  ASSUME LiveTypes, DesktopTypes, EventInv, RowInv, DesktopInv, LiveNext, UNCHANGED desktopVars
  PROVE  DesktopInv'
  <1>1. /\ Len(events) \in Nat /\ told \in 0 .. Len(events) /\ passed \in 0 .. Len(events)
        /\ Len(events) <= Len(events') /\ \A i \in 1 .. Len(events) : events'[i] = events[i]
        /\ emitted \in Seq(EventTypes) /\ fetched.since \in 0 .. Len(events)
    BY EventsGrow DEF LiveTypes, DesktopTypes
  <1>2. UNCHANGED <<passed, fetched, listening, emitted, shown, gap>> /\ heard' = heard
    BY DEF desktopVars, heard
  <1>3. heard \in 0 .. Len(events) /\ heard + Len(emitted) = passed
    BY <1>1 DEF DesktopInv, heard
  <1>4. told' >= told /\ told' \in Nat
    BY <1>1 DEF LiveNext, Insert, PostFails, Starts, Delivered, Reconciled, Connect, Disconnect,
                Message
  <1>5. row' = "none" => row = "none"
    <2>1. CASE Delivered
      <3>1. row # "none"
        BY <1>1, <2>1 DEF Delivered, RowInv, EventInv
      <3> QED BY <2>1, <3>1 DEF Delivered, Active, Terminal
    <2>2. CASE ~Delivered
      BY <2>2 DEF LiveNext, Insert, PostFails, Starts, Reconciled, Connect, Disconnect, Message
    <2> QED BY <2>1, <2>2
  <1>6. row' = "running" /\ row # "running" => told = 0
    <2>1. CASE Delivered
      <3> SUFFICES ASSUME row' = "running", row # "running" PROVE told = 0
        OBVIOUS
      <3>1. told + 1 \in DOMAIN events /\ events[told + 1] = "running"
        BY <1>1, <2>1 DEF Delivered, LiveTypes
      <3>2. told + 1 = 1
        BY <3>1 DEF EventInv, EventsInOrder
      <3> QED BY <1>1, <3>2
    <2>2. CASE ~Delivered
      BY <2>2 DEF LiveNext, Insert, PostFails, Starts, Reconciled, Connect, Disconnect, Message
    <2> QED BY <2>1, <2>2
  <1>7. told' = 0 => told = 0
    BY <1>1, <1>4
  <1>8. ~gap' => \A k \in DOMAIN emitted' : emitted'[k] = events'[heard' + k]
    <2> SUFFICES ASSUME ~gap, NEW k \in DOMAIN emitted PROVE emitted[k] = events'[heard + k]
      BY <1>2
    <2>1. heard + k \in 1 .. Len(events)
      BY <1>1, <1>3
    <2> QED BY <1>1, <2>1 DEF DesktopInv
  <1>9. ASSUME NEW status, Knows(status), status' = status PROVE Knows(status)'
    <2> SUFFICES ASSUME fetched.since >= 1
                 PROVE  /\ row' = "running" => status = "running"
                        /\ events'[fetched.since] \in Terminal => status = "none"
      BY <1>2, <1>9 DEF Knows
    <2>1. events'[fetched.since] = events[fetched.since]
      BY <1>1
    <2>2. told >= 1
      BY <1>1 DEF DesktopInv
    <2> QED BY <1>1, <1>6, <1>9, <2>1, <2>2 DEF Knows
  <1>10. fetched'.at = "answered" => Knows(fetched.status)'
    BY <1>2, <1>9 DEF DesktopInv
  <1>11. fetched'.at = "got" /\ ~listening' => Knows(shown)'
    BY <1>2, <1>9 DEF DesktopInv
  <1>12. fetched'.at = "got" /\ listening' /\ ~gap' => Shows'
    <2> SUFFICES ASSUME Shows, heard >= 1
                 PROVE  /\ events'[heard] \in Terminal => shown = "none"
                        /\ events'[heard] \notin Terminal /\ (row' = "running" \/ told' = 0) =>
                             shown = "running"
      BY <1>2 DEF DesktopInv, Shows
    <2>1. events'[heard] = events[heard]
      BY <1>1, <1>3
    <2> QED BY <1>6, <1>7, <2>1 DEF Shows
  <1> QED BY <1>1, <1>2, <1>4, <1>5, <1>8, <1>10, <1>11, <1>12 DEF DesktopInv

LEMMA DesktopTypesStep ==
  ASSUME LiveTypes, DesktopTypes, DesktopNext
  PROVE  DesktopTypes'
  <1> USE DEF DesktopTypes
  <1>1. /\ UNCHANGED liveVars /\ UNCHANGED events /\ Len(events) \in Nat
        /\ told \in 0 .. Len(events) /\ \A i \in 1 .. Len(events) : events[i] \in EventTypes
    BY DEF LiveTypes, DesktopNext, Emits, Misses, OpensPage, Listens, Answers, Arrives, FetchFails,
           Hears, Leaves, liveVars, runVars
  <1>2. CASE Emits
    BY <1>1, <1>2 DEF Emits
  <1>3. CASE Misses
    BY <1>1, <1>3 DEF Misses
  <1>4. CASE OpensPage
    BY <1>1, <1>4 DEF OpensPage, Fetched
  <1>5. CASE Listens
    <2>1. gap' \in BOOLEAN
      BY <1>5 DEF Listens
    <2> QED BY <1>1, <1>5, <2>1 DEF Listens
  <1>6. CASE Answers
    BY <1>1, <1>6 DEF Answers, Fetched, ActiveStatus
  <1>7. CASE Arrives
    <2>1. gap' \in BOOLEAN
      BY <1>7 DEF Arrives
    <2> QED BY <1>1, <1>7, <2>1 DEF Arrives, Fetched
  <1>8. CASE FetchFails
    <2>1. gap' \in BOOLEAN
      BY <1>8 DEF FetchFails
    <2> QED BY <1>1, <1>8, <2>1 DEF FetchFails, Fetched
  <1>9. CASE Hears
    <2>1. Head(emitted) \in EventTypes /\ Tail(emitted) \in Seq(EventTypes)
      BY <1>9 DEF Hears
    <2>2. shown' \in Active \cup {"none"}
      BY <1>9, <2>1 DEF Hears, Apply
    <2> QED BY <1>1, <1>9, <2>1, <2>2 DEF Hears
  <1>10. CASE Leaves
    <2>1. emitted' \in Seq(EventTypes)
      BY <1>10, EmptySeq DEF Leaves
    <2>2. {listening', gap'} \subseteq BOOLEAN /\ shown' \in Active \cup {"none"}
      BY <1>10 DEF Leaves
    <2>3. 0 \in 0 .. Len(events') /\ passed' = 0
          /\ fetched' = [at |-> "closed", status |-> "none", since |-> 0]
      BY <1>1, <1>10 DEF Leaves, Fetched
    <2>4. fetched' \in [at : {"closed", "asked", "answered", "got"},
                       status : Active \cup {"none"}, since : 0 .. Len(events')]
      BY <2>3
    <2> QED BY <2>1, <2>2, <2>3, <2>4
  <1> QED
    BY <1>2, <1>3, <1>4, <1>5, <1>6, <1>7, <1>8, <1>9, <1>10 DEF DesktopNext

LEMMA DesktopStep ==
  ASSUME LiveTypes, DesktopTypes, EventInv, RowInv, DesktopInv, DesktopNext
  PROVE  DesktopInv'
  <1>1. /\ UNCHANGED <<pc, events, row, told>>
        /\ events \in Seq(EventTypes) /\ Len(events) \in Nat /\ told \in 0 .. Len(events)
        /\ passed \in 0 .. Len(events) /\ emitted \in Seq(EventTypes) /\ Len(emitted) \in Nat
        /\ fetched.since \in 0 .. Len(events) /\ shown \in Active \cup {"none"}
    BY DEF LiveTypes, DesktopTypes, DesktopNext, Emits, Misses, OpensPage, Listens, Answers,
           Arrives, FetchFails, Hears, Leaves, liveVars, runVars
  <1>2. heard \in 0 .. Len(events) /\ heard + Len(emitted) = passed
    BY <1>1 DEF DesktopInv, heard
  <1>3. \A i \in 1 .. Len(events) : events[i] \in Terminal => i = Len(events)
    BY <1>1 DEF EventInv, EventsInOrder
  <1>4. row = "none" => Len(events) = 0
    BY DEF RowInv, EventInv
  <1>5. CASE Emits
    <2>1. /\ passed < Len(events) /\ passed' = passed + 1
          /\ UNCHANGED <<fetched, listening, shown, gap>>
          /\ emitted' = IF listening THEN Append(emitted, events[passed + 1]) ELSE emitted
      BY <1>5 DEF Emits
    <2>2. CASE listening
      <3>1. /\ emitted' = Append(emitted, events[passed + 1])
            /\ Len(emitted') = Len(emitted) + 1 /\ heard' = heard
        BY <1>1, <2>1, <2>2 DEF heard
      <3>2. ASSUME ~gap, NEW k \in DOMAIN emitted' PROVE emitted'[k] = events[heard + k]
        <4>1. CASE k = Len(emitted) + 1
          BY <1>1, <1>2, <3>1, <4>1
        <4>2. CASE k # Len(emitted) + 1
          <5>1. k \in DOMAIN emitted /\ emitted'[k] = emitted[k]
            BY <1>1, <3>1, <4>2
          <5> QED BY <3>2, <5>1 DEF DesktopInv
        <4> QED BY <4>1, <4>2
      <3>3. fetched.at = "got" /\ ~gap => Shows'
        BY <1>1, <2>1, <2>2, <3>1 DEF DesktopInv, Shows
      <3> QED BY <1>1, <2>1, <2>2, <3>1, <3>2, <3>3 DEF DesktopInv, Knows
    <2>3. CASE ~listening
      <3>1. emitted' = <<>> /\ Len(emitted') = 0 /\ DOMAIN emitted' = {}
        BY <2>1, <2>3 DEF DesktopInv
      <3> QED BY <1>1, <2>1, <2>3, <3>1 DEF DesktopInv, Knows
    <2> QED BY <2>2, <2>3
  <1>6. CASE Misses
    BY <1>1, <1>6 DEF Misses, DesktopInv, Knows
  <1>7. CASE OpensPage
    <2>1. emitted' = <<>> /\ Len(emitted') = 0 /\ DOMAIN emitted' = {} /\ ~listening
          /\ fetched'.at = "asked" /\ fetched'.since = 0 /\ fetched'.status = "none"
          /\ UNCHANGED <<listening, shown, gap>> /\ passed' >= 0
      BY <1>1, <1>7 DEF OpensPage, Fetched, DesktopInv
    <2> QED BY <1>1, <2>1 DEF DesktopInv
  <1>8. CASE Listens
    <2>0. /\ fetched.at # "closed" /\ ~listening /\ emitted = <<>>
          /\ UNCHANGED <<passed, fetched, emitted, shown>> /\ listening' /\ heard' = heard
          /\ ~gap' => ~gap /\ ~(fetched.at = "got" /\ passed > fetched.since)
      BY <1>8 DEF Listens, DesktopInv, heard
    <2>1. Len(emitted) = 0 /\ DOMAIN emitted = {} /\ heard = passed
      BY <1>1, <1>2, <2>0
    <2>2. ASSUME fetched.at = "got", ~gap' PROVE Shows'
      <3>1. Knows(shown) /\ heard <= fetched.since
        BY <1>1, <2>0, <2>1, <2>2 DEF DesktopInv
      <3>2. ASSUME heard >= 1
            PROVE  /\ events[heard] \in Terminal => shown = "none"
                   /\ row = "running" \/ told = 0 => shown = "running"
        <4>1. fetched.since >= 1 /\ fetched.since <= told
          BY <1>1, <1>2, <3>1, <3>2 DEF DesktopInv
        <4>2. events[heard] \in Terminal => heard = fetched.since
          BY <1>1, <1>2, <1>3, <3>1, <3>2
        <4> QED BY <1>1, <3>1, <4>1, <4>2 DEF Knows
      <3> QED BY <1>1, <2>0, <3>2 DEF Shows
    <2> QED BY <1>1, <2>0, <2>1, <2>2 DEF DesktopInv, Knows
  <1>9. CASE Answers
    <2>1. /\ fetched'.at = "answered" /\ fetched'.status = ActiveStatus /\ fetched'.since = told
          /\ UNCHANGED <<passed, listening, emitted, shown, gap>> /\ heard' = heard
      BY <1>9 DEF Answers, Fetched, heard
    <2>2. ASSUME told >= 1, events[told] \in Terminal PROVE ActiveStatus = "none"
      <3>1. told = Len(events) /\ pc = "over"
        BY <1>1, <1>3, <2>2 DEF EventInv
      <3>2. row \in Terminal
        BY <3>1 DEF RowInv
      <3> QED BY <3>2 DEF ActiveStatus, Active, Terminal
    <2>3. /\ row = "running" => ActiveStatus = "running"
          /\ row = "none" => ActiveStatus = "none"
      BY DEF ActiveStatus, Active
    <2>4. Knows(fetched.status)'
      BY <1>1, <2>1, <2>2, <2>3 DEF Knows
    <2>5. fetched.at # "closed" /\ fetched.at # "got"
      BY <1>9 DEF Answers
    <2> QED BY <1>1, <2>1, <2>3, <2>4, <2>5 DEF DesktopInv
  <1>10. CASE Arrives
    <2>1. /\ fetched.at = "answered" /\ fetched'.at = "got" /\ fetched'.status = "none"
          /\ fetched'.since = fetched.since /\ shown' = fetched.status
          /\ UNCHANGED <<passed, listening, emitted>> /\ heard' = heard
          /\ ~gap' => ~gap /\ ~(listening /\ heard > fetched.since)
      BY <1>10 DEF Arrives, Fetched, heard
    <2>2. Knows(shown)' /\ Knows(fetched.status)
      BY <1>1, <2>1 DEF DesktopInv, Knows
    <2>3. ASSUME listening, ~gap' PROVE Shows'
      <3>1. heard <= fetched.since
        BY <1>1, <1>2, <2>1, <2>3
      <3>2. ASSUME heard >= 1
            PROVE  /\ events[heard] \in Terminal => fetched.status = "none"
                   /\ row = "running" \/ told = 0 => fetched.status = "running"
        <4>1. fetched.since >= 1 /\ fetched.since <= told
          BY <1>1, <1>2, <3>1, <3>2 DEF DesktopInv
        <4>2. events[heard] \in Terminal => heard = fetched.since
          BY <1>1, <1>2, <1>3, <3>1, <3>2
        <4> QED BY <1>1, <2>2, <4>1, <4>2 DEF Knows
      <3> QED BY <1>1, <2>1, <3>2 DEF Shows
    <2> QED BY <1>1, <2>1, <2>2, <2>3 DEF DesktopInv
  <1>11. CASE FetchFails
    <2>1. /\ fetched'.at = "got" /\ fetched'.status = "none" /\ fetched'.since = 0
          /\ UNCHANGED <<passed, listening, emitted, shown>> /\ heard' = heard
          /\ ~gap' => ~gap /\ ~(passed > 0)
      BY <1>11 DEF FetchFails, Fetched, heard
    <2>2. ~gap' => heard' = 0
      BY <1>1, <1>2, <2>1
    <2>3. Knows(shown)' /\ (~gap' => Shows')
      BY <2>1, <2>2 DEF Knows, Shows
    <2>4. fetched.at # "closed"
      BY <1>11 DEF FetchFails
    <2> QED BY <1>1, <2>1, <2>3, <2>4 DEF DesktopInv
  <1>12. CASE Hears
    <2>1. /\ emitted # <<>> /\ emitted' = Tail(emitted) /\ shown' = Apply(shown, Head(emitted))
          /\ UNCHANGED <<passed, fetched, listening, gap>>
      BY <1>12 DEF Hears
    <2>2. /\ Len(emitted) >= 1 /\ Len(emitted') = Len(emitted) - 1 /\ heard' = heard + 1
          /\ \A k \in DOMAIN emitted' : k \in Nat /\ k + 1 \in DOMAIN emitted
                                        /\ emitted'[k] = emitted[k + 1]
          /\ Head(emitted) = emitted[1] /\ 1 \in DOMAIN emitted
          /\ heard + 1 \in 1 .. Len(events)
      BY <1>1, <1>2, <2>1 DEF heard
    <2>3. listening /\ row # "none" /\ fetched.at # "closed"
      BY <1>4, <2>1, <2>2 DEF DesktopInv
    <2>4. ASSUME ~gap
          PROVE  /\ Head(emitted) = events[heard + 1]
                 /\ \A k \in DOMAIN emitted' : emitted'[k] = events[heard + 1 + k]
      <3>1. \A k \in DOMAIN emitted : emitted[k] = events[heard + k]
        BY <2>4 DEF DesktopInv
      <3>2. ASSUME NEW k \in DOMAIN emitted' PROVE emitted'[k] = events[heard + 1 + k]
        <4>1. emitted'[k] = events[heard + (k + 1)] /\ k \in Nat
          BY <2>2, <3>1
        <4> QED BY <1>2, <4>1
      <3> QED BY <2>2, <3>1, <3>2
    <2>5. ASSUME fetched.at = "got", ~gap PROVE Shows'
      <3>1. Shows /\ Head(emitted) = events[heard + 1]
        BY <2>3, <2>4, <2>5 DEF DesktopInv
      <3>2. CASE heard = 0
        <4>1. events[1] = "running"
          BY <1>1, <2>2, <3>2 DEF EventInv, EventsInOrder
        <4>2. shown' = "running" /\ events[heard + 1] \notin Terminal
          BY <2>1, <3>1, <3>2, <4>1 DEF Apply, Active, Terminal
        <4> QED BY <1>1, <2>2, <4>2 DEF Shows
      <3>3. CASE heard >= 1
        <4>1. events[heard] \notin Terminal /\ events[heard + 1] # "running"
          BY <1>1, <1>2, <1>3, <2>2, <3>3 DEF EventInv, EventsInOrder
        <4>2. events[heard + 1] # "queued"
          BY <1>1, <2>2 DEF EventTypes, Terminal
        <4>3. shown' = IF events[heard + 1] \in Terminal THEN "none" ELSE shown
          BY <2>1, <3>1, <4>1, <4>2 DEF Apply, Active
        <4> QED BY <1>1, <2>2, <3>1, <3>3, <4>1, <4>3 DEF Shows
      <3> QED BY <1>2, <3>2, <3>3
    <2>6. Len(emitted') <= passed'
      BY <1>1, <2>1, <2>2 DEF DesktopInv
    <2>7. ~gap' => \A k \in DOMAIN emitted' : emitted'[k] = events'[heard' + k]
      BY <1>1, <2>1, <2>2, <2>4
    <2>8. fetched'.at = "answered" => Knows(fetched.status)'
      BY <1>1, <2>1 DEF DesktopInv, Knows
    <2> QED BY <1>1, <2>1, <2>3, <2>5, <2>6, <2>7, <2>8 DEF DesktopInv
  <1>13. CASE Leaves
    <2>1. /\ fetched'.at = "closed" /\ fetched'.status = "none" /\ fetched'.since = 0
          /\ ~listening' /\ emitted' = <<>> /\ shown' = "none" /\ passed' = 0
          /\ Len(emitted') = 0 /\ DOMAIN emitted' = {}
      BY <1>13 DEF Leaves, Fetched
    <2> QED BY <1>1, <2>1 DEF DesktopInv
  <1> QED
    BY <1>5, <1>6, <1>7, <1>8, <1>9, <1>10, <1>11, <1>12, <1>13 DEF DesktopNext

\* With nothing on the way, the page has heard of all events.
LEMMA DesktopFromInv ==
  ASSUME LiveTypes, DesktopTypes, EventInv, RowInv, DesktopInv
  PROVE  DesktopTrue
  <1> SUFFICES ASSUME fetched.at = "got", listening, emitted = <<>>, told = Len(events),
                      passed = Len(events), ~gap
               PROVE  /\ shown # "none" => row \in Active \/ silent
                      /\ row = "running" => shown = "running"
    BY DEF DesktopTrue
  <1>1. Len(events) \in Nat /\ heard = Len(events) /\ Shows
    BY DEF DesktopInv, LiveTypes, heard
  <1>2. CASE Len(events) = 0
    <2>1. pc = "idle"
      BY <1>2 DEF EventInv, LiveTypes
    <2>2. row # "running"
      BY <1>2 DEF RowInv, LiveTypes
    <2> QED BY <2>1, <2>2 DEF RowInv, DesktopInv, LiveTypes
  <1>3. CASE Len(events) >= 1
    <2>1. pc # "idle" /\ row # "none"
      BY <1>3 DEF EventInv, RowInv
    <2>2. row \in Terminal => pc = "over"
      BY <2>1 DEF RowInv
    <2>3. row = "running" => events[Len(events)] \notin Terminal
      BY <1>3 DEF RowInv, EventInv, Terminal
    <2> QED BY <1>1, <1>3, <2>1, <2>2, <2>3 DEF Shows, RowInv, LiveTypes
  <1> QED BY <1>1, <1>2, <1>3

-----------------------------------------------------------------------------
(* The history page.                                                       *)

Whats == {"load", "delete", "delete local", "upload", "cancel"}

\* A request, other than a poll, that was accepted and whose answer is on the way.
Accepted(s) == asks[s].what # "load" /\ asks[s].at = "ok"

\* What the answers on the way will make of the page.  A request alone has the
\* service's state, and the page that is not behind waits for one alone.
HistoryInv ==
  /\ \A s \in Asked :
       asks[s].alone => /\ Asked = {s}
                        /\ asks[s].what = "load" /\ asks[s].at = "ok" => asks[s].found = entry
  /\ ~ behind =>
       /\ \A s \in Asked : asks[s].alone
       /\ (\A s \in Asked : ~ Accepted(s)) => listed = entry
       /\ \A s \in Asked :
            Accepted(s) => \/ Assumed(asks[s].what, listed) = entry
                           \/ asks[s].what = "cancel" /\ asks[s].found.mega # "canceled"

\* The entries are closed under what is made of them.
LEMMA EntryTypes ==
  ASSUME NEW e \in Entries
  PROVE  /\ Gone \in Entries
         /\ [e EXCEPT !.local = FALSE] \in Entries
         /\ [e EXCEPT !.mega = "pending"] \in Entries
         /\ [e EXCEPT !.mega = "canceled"] \in Entries
         /\ [e EXCEPT !.mega = "canceled"].mega = "canceled"
         /\ \A what \in Whats \ {"load"} : Assumed(what, e) \in Entries
  BY DEF Gone, Entries, Assumed, OnDelete, OnDeleteLocal, OnUpload, OnCancelUpload, Whats

LEMMA AskTypes == NoAsk \in AskType /\ NoAsk.what = "nothing" /\ ~ NoAsk.alone
  BY DEF NoAsk, AskType, Gone, Entries

\* What handling a request does.
LEMMA HandlesEffect ==
  ASSUME HistoryTypes, NEW s \in AskSlots, NEW what \in Whats, NEW accepted \in BOOLEAN,
         NEW found \in Entries, Handles(s, what, accepted, found)
  PROVE  /\ entry' = IF accepted THEN found ELSE entry
         /\ entry' \in Entries /\ asks' \in [AskSlots -> AskType]
         /\ asks[s].what = what /\ asks[s].at = "asked"
         /\ asks'[s].what = what /\ asks'[s].at = IF accepted THEN "ok" ELSE "refused"
         /\ asks'[s].found = entry' /\ asks'[s].alone = asks[s].alone
         /\ \A t \in AskSlots \ {s} : asks'[t] = asks[t]
         /\ s \in Asked /\ Asked' = Asked
         /\ UNCHANGED <<listed, behind>>
  <1>1. entry \in Entries /\ asks \in [AskSlots -> AskType] /\ asks[s] \in AskType
    BY DEF HistoryTypes
  <1>2. entry' = IF accepted THEN found ELSE entry
    BY DEF Handles
  <1>3. entry' \in Entries
    BY <1>1, <1>2
  <1> DEFINE a == [asks[s] EXCEPT !.at = IF accepted THEN "ok" ELSE "refused", !.found = entry']
  <1>4. /\ a \in AskType /\ a.what = asks[s].what /\ a.found = entry' /\ a.alone = asks[s].alone
        /\ a.at = IF accepted THEN "ok" ELSE "refused"
    BY <1>1, <1>3 DEF AskType
  <1>5. asks' = [asks EXCEPT ![s] = a]
    BY DEF Handles
  <1> HIDE DEF a
  <1>6. asks' \in [AskSlots -> AskType] /\ asks'[s] = a /\ \A t \in AskSlots \ {s} : asks'[t] = asks[t]
    BY <1>1, <1>4, <1>5
  <1>7. asks[s].what = what /\ asks[s].at = "asked" /\ UNCHANGED <<listed, behind>>
    BY DEF Handles
  <1>8. s \in Asked /\ Asked' = Asked
    BY <1>4, <1>6, <1>7 DEF Asked, Whats
  <1> QED BY <1>2, <1>3, <1>4, <1>6, <1>7, <1>8

\* An accepted request does to the entry what the page will make of it; but for
\* the cancel of an upload.
LEMMA HandlesStep ==
  ASSUME HistoryTypes, HistoryInv, NEW s \in AskSlots, NEW what \in Whats,
         NEW accepted \in BOOLEAN, NEW found \in Entries, Handles(s, what, accepted, found),
         what = "load" => found = entry,
         accepted /\ what # "load" =>
           \/ Assumed(what, entry) = found
           \/ what = "cancel" /\ found = entry /\ found.mega # "canceled"
  PROVE  HistoryTypes' /\ HistoryInv'
  <1>1. HistoryTypes'
    BY HandlesEffect DEF HistoryTypes
  <1>2. ASSUME NEW t \in Asked', asks'[t].alone
        PROVE  /\ t = s /\ Asked' = {t}
               /\ asks'[t].what = "load" /\ asks'[t].at = "ok" => asks'[t].found = entry'
    BY <1>2, HandlesEffect DEF HistoryInv, Asked
  <1>3. ASSUME ~ behind'
        PROVE  /\ \A t \in Asked' : asks'[t].alone
               /\ (\A t \in Asked' : ~ Accepted(t)') => listed' = entry'
               /\ \A t \in Asked' :
                    Accepted(t)' => \/ Assumed(asks'[t].what, listed') = entry'
                                    \/ asks'[t].what = "cancel" /\ asks'[t].found.mega # "canceled"
    <2>1. asks[s].alone /\ Asked = {s} /\ listed = entry
      BY <1>3, HandlesEffect DEF HistoryInv, Accepted
    <2>2. Asked' = {s} /\ asks'[s].alone /\ listed' = entry
      BY <2>1, HandlesEffect
    <2>3. asks'[s].what = what /\ (asks'[s].at = "ok" <=> accepted) /\ asks'[s].found = entry'
      BY HandlesEffect
    <2>4. CASE accepted /\ what # "load"
      <3>1. entry' = found /\ Accepted(s)'
        BY <2>3, <2>4, HandlesEffect DEF Accepted
      <3>2. \/ Assumed(what, listed') = entry'
            \/ asks'[s].what = "cancel" /\ asks'[s].found.mega # "canceled"
        BY <2>2, <2>3, <2>4, <3>1
      <3>3. Assumed(asks'[s].what, listed') = Assumed(what, listed')
        BY <2>3
      <3> QED BY <2>2, <3>1, <3>2, <3>3
    <2>5. CASE ~ (accepted /\ what # "load")
      BY <2>2, <2>3, <2>5, HandlesEffect DEF Accepted
    <2> QED BY <2>4, <2>5
  <1> QED BY <1>1, <1>2, <1>3 DEF HistoryInv

\* The uploader leaves the page behind, and no request alone.
LEMMA UploaderMovesStep ==
  ASSUME HistoryTypes, UploaderMoves
  PROVE  HistoryTypes' /\ HistoryInv'
  <1>1. entry' \in Entries
    BY DEF UploaderMoves, HistoryTypes, Entries, Marks
  <1>2. \A s \in AskSlots : asks[s] \in AskType
    BY DEF HistoryTypes
  <1>3. \A s \in AskSlots : asks'[s] \in AskType /\ ~ asks'[s].alone
    BY <1>2 DEF UploaderMoves, AskType
  <1>4. asks' \in [AskSlots -> AskType]
    BY <1>3 DEF UploaderMoves
  <1>5. behind' = TRUE /\ listed' = listed
    BY DEF UploaderMoves
  <1> QED BY <1>1, <1>3, <1>4, <1>5 DEF HistoryTypes, HistoryInv, Asked

\* A new request is alone, or the page is behind.
LEMMA AsksStep ==
  ASSUME HistoryTypes, HistoryInv, NEW s \in AskSlots, NEW what \in Whats, Asks(s, what)
  PROVE  HistoryTypes' /\ HistoryInv'
  <1> DEFINE new == [what |-> what, at |-> "asked", found |-> Gone, alone |-> Asked = {}]
  <1>1. (Asked = {}) \in BOOLEAN /\ Gone \in Entries
    BY EntryTypes DEF HistoryTypes
  <1>2. new \in AskType /\ new.what = what /\ new.at = "asked" /\ (new.alone <=> Asked = {})
    BY <1>1 DEF AskType, Whats
  <1>3. asks' = [t \in AskSlots |-> IF t = s THEN new ELSE [asks[t] EXCEPT !.alone = FALSE]]
    BY DEF Asks
  <1> HIDE DEF new
  <1>4. \A t \in AskSlots : asks[t] \in AskType
    BY DEF HistoryTypes
  <1>5. \A t \in AskSlots \ {s} :
          asks'[t] \in AskType /\ ~ asks'[t].alone /\ asks'[t].what = asks[t].what
    BY <1>3, <1>4 DEF AskType
  <1>6. asks'[s] = new /\ asks' \in [AskSlots -> AskType]
    BY <1>2, <1>3, <1>5
  <1>7. Asked' = Asked \cup {s} /\ s \notin Asked
    BY <1>2, <1>5, <1>6 DEF Asks, Asked, Whats
  <1>8. entry' = entry /\ listed' = listed /\ behind' = (behind \/ Asked # {})
    BY DEF Asks
  <1>9. HistoryTypes'
    BY <1>6, <1>8 DEF HistoryTypes
  <1>10. ASSUME NEW t \in Asked', asks'[t].alone
         PROVE  Asked' = {t} /\ asks'[t].at = "asked"
    BY <1>2, <1>5, <1>6, <1>7, <1>10 DEF Asked
  <1>11. ASSUME ~ behind' PROVE Asked' = {s} /\ asks'[s].alone /\ ~ Accepted(s)' /\ listed' = entry'
    BY <1>2, <1>6, <1>7, <1>8, <1>11 DEF HistoryInv, Accepted
  <1> QED BY <1>9, <1>10, <1>11 DEF HistoryInv

\* A request that is over.
LEMMA FreesEffect ==
  ASSUME HistoryTypes, NEW s \in AskSlots, Frees(s), asks[s].what # "nothing"
  PROVE  /\ asks' \in [AskSlots -> AskType]
         /\ s \in Asked /\ Asked' = Asked \ {s}
         /\ \A t \in AskSlots \ {s} : asks'[t] = asks[t]
  BY AskTypes DEF Frees, HistoryTypes, Asked

\* The answer to a poll alone brings the page up to date.
LEMMA ListArrivesStep ==
  ASSUME HistoryTypes, HistoryInv, NEW s \in AskSlots, ListArrives(s)
  PROVE  HistoryTypes' /\ HistoryInv'
  <1>1. /\ asks[s] \in AskType /\ asks[s].what = "load" /\ asks[s].at = "ok"
        /\ listed' = asks[s].found /\ behind' = (~ asks[s].alone) /\ entry' = entry
    BY DEF ListArrives, HistoryTypes
  <1>2. /\ asks' \in [AskSlots -> AskType] /\ s \in Asked /\ Asked' = Asked \ {s}
        /\ \A t \in AskSlots \ {s} : asks'[t] = asks[t]
    BY <1>1, FreesEffect DEF ListArrives
  <1>3. HistoryTypes'
    BY <1>1, <1>2 DEF HistoryTypes, AskType
  <1>4. \A t \in Asked' : ~ asks'[t].alone
    BY <1>2 DEF HistoryInv, Asked
  <1>5. ~ behind' => Asked' = {} /\ listed' = entry'
    BY <1>1, <1>2 DEF HistoryInv
  <1> QED BY <1>3, <1>4, <1>5 DEF HistoryInv

\* The answer to a request alone leaves the page as the service's.
LEMMA RepliedStep ==
  ASSUME HistoryTypes, HistoryInv, NEW s \in AskSlots, Replied(s)
  PROVE  HistoryTypes' /\ HistoryInv'
  <1>1. /\ asks[s] \in AskType /\ asks[s].what \in Whats \ {"load"} /\ asks[s].at \in {"ok", "refused"}
        /\ entry' = entry
        /\ behind' = (behind \/ (asks[s].what = "cancel" /\ asks[s].found.mega # "canceled"))
        /\ listed' = IF asks[s].at = "ok" THEN Assumed(asks[s].what, listed) ELSE listed
    BY DEF Replied, HistoryTypes, AskType, Whats
  <1>2. /\ asks' \in [AskSlots -> AskType] /\ s \in Asked /\ Asked' = Asked \ {s}
        /\ \A t \in AskSlots \ {s} : asks'[t] = asks[t]
    BY <1>1, FreesEffect DEF Replied
  <1>3. listed' \in Entries
    BY <1>1, EntryTypes DEF HistoryTypes
  <1>4. HistoryTypes'
    BY <1>1, <1>2, <1>3 DEF HistoryTypes
  <1>5. \A t \in Asked' : ~ asks'[t].alone
    BY <1>2 DEF HistoryInv, Asked
  <1>6. ASSUME ~ behind' PROVE Asked' = {} /\ listed' = entry'
    <2>1. asks[s].alone /\ Asked = {s} /\ ~ behind
      BY <1>1, <1>2, <1>6 DEF HistoryInv
    <2>2. asks[s].at = "ok" => Assumed(asks[s].what, listed) = entry
      BY <1>1, <1>2, <1>6, <2>1 DEF HistoryInv, Accepted
    <2>3. asks[s].at = "refused" => listed = entry
      BY <2>1 DEF HistoryInv, Accepted
    <2> QED BY <1>1, <1>2, <2>1, <2>2, <2>3
  <1> QED BY <1>4, <1>5, <1>6 DEF HistoryInv

LEMMA LostStep ==
  ASSUME HistoryTypes, HistoryInv, NEW s \in AskSlots, Lost(s)
  PROVE  HistoryTypes' /\ HistoryInv'
  <1>1. /\ s \in Asked /\ asks[s].what # "nothing" /\ entry' = entry /\ listed' = listed
        /\ behind' = (behind \/ asks[s].what # "load")
    BY DEF Lost, Asked
  <1>2. /\ asks' \in [AskSlots -> AskType] /\ Asked' = Asked \ {s}
        /\ \A t \in AskSlots \ {s} : asks'[t] = asks[t]
    BY <1>1, FreesEffect DEF Lost
  <1>3. HistoryTypes'
    BY <1>1, <1>2 DEF HistoryTypes
  <1>4. \A t \in Asked' : asks'[t].alone => FALSE
    BY <1>1, <1>2 DEF HistoryInv, Asked
  <1>5. ~ behind' => Asked' = {} /\ listed' = entry'
    BY <1>1, <1>2 DEF HistoryInv, Accepted
  <1> QED BY <1>3, <1>4, <1>5 DEF HistoryInv

\* Every step of the history page keeps its invariant.
LEMMA HistoryStep ==
  ASSUME HistoryTypes, HistoryInv, HistoryNext
  PROVE  HistoryTypes' /\ HistoryInv'
  <1>0. entry \in Entries /\ listed \in Entries
    BY DEF HistoryTypes
  <1>1. CASE UploaderMoves
    BY <1>1, UploaderMovesStep
  <1>2. ASSUME NEW s \in AskSlots, Polls(s) PROVE HistoryTypes' /\ HistoryInv'
    BY <1>2, AsksStep DEF Polls, Whats
  <1>3. ASSUME NEW s \in AskSlots, Clicks(s) PROVE HistoryTypes' /\ HistoryInv'
    <2>1. PICK what \in Offers(listed) : Asks(s, what)
      BY <1>3 DEF Clicks
    <2>2. what \in Whats
      BY DEF Offers, Whats
    <2> QED BY <2>1, <2>2, AsksStep
  <1>4. ASSUME NEW s \in AskSlots, ListArrives(s) PROVE HistoryTypes' /\ HistoryInv'
    BY <1>4, ListArrivesStep
  <1>5. ASSUME NEW s \in AskSlots, Replied(s) PROVE HistoryTypes' /\ HistoryInv'
    BY <1>5, RepliedStep
  <1>6. ASSUME NEW s \in AskSlots, Lost(s) PROVE HistoryTypes' /\ HistoryInv'
    BY <1>6, LostStep
  <1>7. ASSUME NEW s \in AskSlots, GetHistory(s) PROVE HistoryTypes' /\ HistoryInv'
    BY <1>0, <1>7, HandlesStep DEF GetHistory, Whats
  <1>8. ASSUME NEW s \in AskSlots, DeleteEntry(s) PROVE HistoryTypes' /\ HistoryInv'
    <2>1. entry.mega \in {"null", "failed", "canceled"} => Assumed("delete", entry) = Gone
      BY DEF Assumed, OnDelete
    <2>2. (entry.mega \in {"null", "failed", "canceled"}) \in BOOLEAN /\ "delete" \in Whats
      BY DEF Whats
    <2> QED BY <1>0, <1>8, <2>1, <2>2, EntryTypes, HandlesStep DEF DeleteEntry
  <1>9. ASSUME NEW s \in AskSlots, DeleteLocal(s) PROVE HistoryTypes' /\ HistoryInv'
    <2>1. entry.mega = "uploaded" =>
            Assumed("delete local", entry) = [entry EXCEPT !.local = FALSE]
      BY DEF Assumed, OnDeleteLocal
    <2>2. (entry.mega = "uploaded") \in BOOLEAN /\ "delete local" \in Whats
      BY DEF Whats
    <2> QED BY <1>0, <1>9, <2>1, <2>2, EntryTypes, HandlesStep DEF DeleteLocal
  <1>10. ASSUME NEW s \in AskSlots, PostUpload(s) PROVE HistoryTypes' /\ HistoryInv'
    <2>1. entry.mega \in {"null", "failed", "canceled"} /\ entry.local =>
            Assumed("upload", entry) = [entry EXCEPT !.mega = "pending"]
      BY DEF Assumed, OnUpload
    <2>2. /\ (entry.mega \in {"null", "failed", "canceled"} /\ entry.local) \in BOOLEAN
          /\ "upload" \in Whats
      BY DEF Whats
    <2> QED BY <1>0, <1>10, <2>1, <2>2, EntryTypes, HandlesStep DEF PostUpload
  <1>11. ASSUME NEW s \in AskSlots, DeleteUpload(s) PROVE HistoryTypes' /\ HistoryInv'
    <2>1. PICK found \in {entry, [entry EXCEPT !.mega = "canceled"]} :
            /\ found # entry => entry.mega = "pending"
            /\ Handles(s, "cancel", entry.mega \in {"pending", "uploading"}, found)
      BY <1>11 DEF DeleteUpload
    <2>2. entry.mega = "pending" =>
            Assumed("cancel", entry) = [entry EXCEPT !.mega = "canceled"]
      BY DEF Assumed, OnCancelUpload
    <2>3. found \in Entries
      BY <1>0, <2>1, EntryTypes
    <2>4. entry.mega \in {"pending", "uploading"} =>
            \/ Assumed("cancel", entry) = found
            \/ found = entry /\ found.mega # "canceled"
      BY <2>1, <2>2
    <2>5. (entry.mega \in {"pending", "uploading"}) \in BOOLEAN /\ "cancel" \in Whats
      BY DEF Whats
    <2> QED BY <1>0, <2>1, <2>3, <2>4, <2>5, HandlesStep
  <1> QED BY <1>1, <1>2, <1>3, <1>4, <1>5, <1>6, <1>7, <1>8, <1>9, <1>10, <1>11 DEF HistoryNext

-----------------------------------------------------------------------------
(* All together: the inductive invariant and what it implies.              *)

Inv ==
  /\ TypeOK /\ EventInv /\ PathInv /\ ViewInv
  /\ RowInv /\ DesktopInv
  /\ LimitInv /\ PageInv /\ HistoryInv

LEMMA InvInit == Init => Inv
  <1> SUFFICES ASSUME Init PROVE Inv
    OBVIOUS
  <1> USE DEF Init, LiveInit, RunInit, DesktopInit, SettingsInit
  <1>1. LiveTypes
    <2>1. /\ script \in Seq(Lines) /\ pipe \in Seq(Lines) /\ buf \in Seq(Lines)
          /\ wire \in Seq(Messages) /\ events \in Seq(EventTypes) /\ told \in 0 .. Len(events)
      BY EmptySeq
    <2>2. files \subseteq Names
      BY DEF Names
    <2>3. row \in Active \cup Terminal \cup {"none"} /\ view \in Active \cup {"none"}
          /\ probed \in Names \cup {Nothing} /\ silent \in BOOLEAN
      OBVIOUS
    <2> QED BY <2>1, <2>2, <2>3 DEF LiveTypes
  <1>2. SettingsTypes
    <2>1. NoPut \in PutType
      BY SettingsAssumption DEF NoPut, PutType
    <2>2. puts \in [Slots -> PutType] /\ UnderWay = {}
      BY <2>1 DEF NoPut, UnderWay
    <2> QED BY <2>2, SettingsAssumption DEF SettingsTypes, NoSync
  <1>3. EventInv
    BY DEF EventInv, EventsInOrder
  <1>4. PathInv
    BY DEF PathInv, Printed
  <1>5. ViewInv
    BY DEF ViewInv
  <1>6. LimitInv
    BY DEF LimitInv, PushUnderWay, Pushing, NoPut, NoSync
  <1>7. PageInv
    <2>1. UnderWay = {} /\ ByGuard = {}
      BY DEF UnderWay, ByGuard, NoPut
    <2> QED BY <2>1 DEF PageInv, AloneInv, PageTrue
  <1>8. RowInv
    BY DEF RowInv, Terminal
  <1>9. DesktopTypes /\ DesktopInv
    <2>1. Len(events) = 0 /\ Len(emitted) = 0 /\ DOMAIN emitted = {} /\ emitted \in Seq(EventTypes)
      BY EmptySeq
    <2>2. {listening, gap} \subseteq BOOLEAN /\ shown \in Active \cup {"none"}
      OBVIOUS
    <2>3. 0 \in 0 .. Len(events)
      BY <2>1
    <2>4. fetched \in [at : {"closed", "asked", "answered", "got"},
                      status : Active \cup {"none"}, since : 0 .. Len(events)]
      BY <2>3
    <2> QED BY <2>1, <2>2, <2>3, <2>4 DEF DesktopTypes, DesktopInv
  <1>10. HistoryTypes /\ HistoryInv
    <2>1. entry \in Entries /\ listed \in Entries /\ behind
      BY DEF HistoryInit, Downloaded, Gone, Entries
    <2>2. asks \in [AskSlots -> AskType] /\ Asked = {}
      BY AskTypes DEF HistoryInit, Asked
    <2>3. behind \in BOOLEAN
      BY DEF HistoryInit
    <2> QED BY <2>1, <2>2, <2>3 DEF HistoryTypes, HistoryInv
  <1> QED BY <1>1, <1>2, <1>3, <1>4, <1>5, <1>6, <1>7, <1>8, <1>9, <1>10 DEF Inv, TypeOK

\* What a step of the settings page leaves alone.
LEMMA LiveRest ==
  ASSUME Inv, UNCHANGED liveVars
  PROVE  LiveTypes' /\ EventInv' /\ PathInv' /\ ViewInv' /\ RowInv'
  <1> USE DEF liveVars, runVars, Inv, TypeOK
  <1>1. LiveTypes'
    BY DEF LiveTypes
  <1>2. EventInv'
    BY DEF EventInv, EventsInOrder
  <1>3. PathInv'
    BY DEF PathInv, Printed
  <1>4. ViewInv'
    BY DEF ViewInv, Agrees, Outcome, Decides
  <1>5. RowInv'
    BY DEF RowInv
  <1> QED BY <1>1, <1>2, <1>3, <1>4, <1>5

LEMMA PageRests ==
  ASSUME Inv, UNCHANGED <<liveVars, desktopVars>>
  PROVE  DesktopTypes' /\ DesktopInv'
  <1> USE DEF liveVars, runVars, desktopVars, Inv, TypeOK
  <1>1. DesktopTypes'
    BY DEF DesktopTypes
  <1>2. UNCHANGED <<heard, events, row, told>>
    BY DEF heard
  <1> QED BY <1>1, <1>2 DEF DesktopInv, Knows, Shows

\* What a step of the queue page leaves alone.
LEMMA SettingsRests ==
  ASSUME Inv, UNCHANGED settingsVars
  PROVE  SettingsTypes' /\ LimitInv' /\ PageInv'
  <1> USE DEF settingsVars, pushVars, formVars, Inv, TypeOK
  <1>1. SettingsTypes'
    BY DEF SettingsTypes, UnderWay
  <1>2. LimitInv'
    BY DEF LimitInv, PushUnderWay, Pushing
  <1>3. PageInv'
    BY PageKept
  <1> QED BY <1>1, <1>2, <1>3

LEMMA HistoryRest ==
  ASSUME Inv, UNCHANGED historyVars
  PROVE  HistoryTypes' /\ HistoryInv'
  BY DEF historyVars, Inv, TypeOK, HistoryTypes, HistoryInv, Asked, Accepted

LEMMA InvStep == Inv /\ [Next]_vars => Inv'
  <1> SUFFICES ASSUME Inv, [Next]_vars PROVE Inv'
    OBVIOUS
  <1>0. /\ LiveTypes /\ DesktopTypes /\ SettingsTypes /\ EventInv /\ PathInv /\ ViewInv
        /\ RowInv /\ DesktopInv /\ LimitInv /\ PageInv /\ HistoryTypes /\ HistoryInv
    BY DEF Inv, TypeOK
  <1>1. CASE LiveNext /\ UNCHANGED <<settingsVars, desktopVars, historyVars>>
    <2>1. LiveTypes'
      BY <1>0, <1>1, LiveTypesStep DEF EventInv
    <2>2. EventInv' /\ PathInv' /\ ViewInv' /\ RowInv'
      BY <1>0, <1>1, EventStep, PathStep, ViewStep, RowStep
    <2>3. Len(events) \in Nat /\ Len(events') \in Nat /\ Len(events) <= Len(events')
      BY <1>0, <1>1, <2>1, EventsGrow DEF LiveTypes
    <2>4. DesktopTypes' /\ DesktopInv'
      BY <1>0, <1>1, <2>3, DesktopTypesRest, DesktopRest
    <2>5. SettingsTypes' /\ LimitInv' /\ PageInv'
      BY <1>1, SettingsRests
    <2> QED BY <1>1, <2>1, <2>2, <2>4, <2>5, HistoryRest DEF Inv, TypeOK
  <1>2. CASE SettingsNext /\ UNCHANGED <<liveVars, desktopVars, historyVars>>
    <2>1. SettingsTypes'
      BY <1>0, <1>2, SettingsTypesStep DEF PageInv
    <2>2. LimitInv' /\ PageInv'
      BY <1>0, <1>2, LimitStep, PageStep
    <2> QED BY <1>2, <2>1, <2>2, LiveRest, PageRests, HistoryRest DEF Inv, TypeOK
  <1>3. CASE DesktopNext /\ UNCHANGED <<settingsVars, historyVars>>
    <2>1. UNCHANGED liveVars
      BY <1>3 DEF DesktopNext, Emits, Misses, OpensPage, Listens, Answers, Arrives, FetchFails,
                  Hears, Leaves
    <2>2. DesktopTypes' /\ DesktopInv'
      BY <1>0, <1>3, DesktopTypesStep, DesktopStep
    <2> QED BY <1>3, <2>1, <2>2, LiveRest, SettingsRests, HistoryRest DEF Inv, TypeOK
  <1>4. CASE UNCHANGED vars
    <2>1. /\ UNCHANGED liveVars /\ UNCHANGED desktopVars /\ UNCHANGED settingsVars
          /\ UNCHANGED historyVars
      BY <1>4 DEF vars
    <2> QED BY <2>1, LiveRest, PageRests, SettingsRests, HistoryRest DEF Inv, TypeOK
  <1>5. CASE HistoryNext /\ UNCHANGED <<liveVars, desktopVars, settingsVars>>
    <2>1. HistoryTypes' /\ HistoryInv'
      BY <1>0, <1>5, HistoryStep
    <2> QED BY <1>5, <2>1, LiveRest, PageRests, SettingsRests DEF Inv, TypeOK
  <1>6. Next => \/ LiveNext /\ UNCHANGED <<settingsVars, desktopVars, historyVars>>
                \/ SettingsNext /\ UNCHANGED <<liveVars, desktopVars, historyVars>>
                \/ DesktopNext /\ UNCHANGED <<settingsVars, historyVars>>
                \/ HistoryNext /\ UNCHANGED <<liveVars, desktopVars, settingsVars>>
    BY DEF Next
  <1> QED BY <1>1, <1>2, <1>3, <1>4, <1>5, <1>6

LEMMA InvCorrect == Spec => []Inv
  BY InvInit, InvStep, PTL DEF Spec

\* The state of both pages keeps its shape, and a limit of 0, which may be typed
\* at any time, is never sent, saved or pushed.
THEOREM TypeCorrect == Spec => []TypeOK
  <1>1. Inv => TypeOK
    BY DEF Inv
  <1> QED BY <1>1, InvCorrect, PTL

\* A run's events come in order, whatever yt-dlp prints and wherever it is cut off.
THEOREM EventsCorrect == Spec => []EventsInOrder
  <1>1. Inv => EventsInOrder
    BY DEF Inv, EventInv
  <1> QED BY <1>1, InvCorrect, PTL

\* The file of a completed run is found by the path captured, however much of the
\* end of its output was lost.
THEOREM FileIsFound == Spec => []PathFound
  <1>1. Inv => PathFound
    BY PathFromInv DEF Inv, TypeOK
  <1> QED BY <1>1, InvCorrect, PTL

\* The queue page's view of a job is right once it has read what was sent to it, in
\* a browser; and in the application, if no event passed it by.  The history page
\* is right about an entry once its requests were answered, if nothing crossed them.
THEOREM ViewCorrect == Spec => []ViewTrue
  <1>1. ASSUME Inv, socket = "open", wire = <<>> PROVE Agrees(view)
    <2>1. DOMAIN wire = {}
      BY <1>1
    <2> QED BY <1>1, <2>1 DEF Inv, ViewInv
  <1>2. Inv => BrowserTrue
    BY <1>1 DEF BrowserTrue, Agrees
  <1>3. Inv => DesktopTrue
    BY DesktopFromInv DEF Inv, TypeOK
  <1>4. Inv => HistoryTrue
    BY DEF Inv, HistoryInv, HistoryTrue
  <1>5. Inv => ViewTrue
    BY <1>2, <1>3, <1>4 DEF ViewTrue
  <1> QED BY <1>5, InvCorrect, PTL

\* The downloader works with the limit that is saved, once nothing is being
\* pushed and nothing went wrong.
THEOREM LimitCorrect == Spec => []LimitAgrees
  <1>1. Inv => LimitAgrees
    BY LimitFromInv DEF Inv
  <1> QED BY <1>1, InvCorrect, PTL

\* The form is compared with what is saved, and is not left behind changed.
THEOREM NothingUnsaved == Spec => []PageTrue
  <1>1. Inv => PageTrue
    BY DEF Inv, PageInv
  <1> QED BY <1>1, InvCorrect, PTL
=============================================================================
