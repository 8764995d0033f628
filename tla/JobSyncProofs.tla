--------------------------- MODULE JobSyncProofs ---------------------------
(***************************************************************************)
(* Proofs about JobSync: for any set of jobs, any capacity of the          *)
(* subscriber's channel and any number of faults.                          *)
(***************************************************************************)
EXTENDS JobSync, SequenceTheorems, TLAPS

Events == [id : Ids \cup {Other}, status : Statuses]

(***************************************************************************)
(* The events of one job in a queue of events.                             *)
(***************************************************************************)

\* There is none.
Silent(q, k) == \A i \in DOMAIN q : q[i].id # k

\* The last one has a status in S.
LastIn(q, k, S) ==
  \A i \in DOMAIN q :
    q[i].id = k /\ (\A j \in DOMAIN q : j > i => q[j].id # k) => q[i].status \in S

\* Nothing follows its completion.
Ends(q, k) ==
  \A i, j \in DOMAIN q :
    q[i].id = k /\ q[i].status = "completed" /\ j > i => q[j].id # k

\* None is its completion.
Incomplete(q, k) == \A i \in DOMAIN q : q[i].id = k => q[i].status # "completed"

LEMMA SilentOf ==
  ASSUME TypeOK, NEW id \in Ids
  PROVE  Of(id) = {} <=> Silent(bus, id)
  <1>1. ToSet(bus) = {bus[i] : i \in DOMAIN bus}
    BY DEF ToSet
  <1> QED BY <1>1 DEF Of, Silent

\* An empty queue.
LEMMA Emptied ==
  ASSUME NEW k
  PROVE  /\ Silent(<<>>, k) /\ Ends(<<>>, k) /\ Incomplete(<<>>, k)
         /\ \A S : LastIn(<<>>, k, S)
  BY DEF Silent, Ends, Incomplete, LastIn

LEMMA TailFacts ==
  ASSUME NEW S, NEW q \in Seq(S), q # <<>>
  PROVE  /\ Tail(q) \in Seq(S) /\ Len(q) \in Nat /\ Len(q) >= 1 /\ DOMAIN q = 1 .. Len(q)
         /\ Len(Tail(q)) = Len(q) - 1 /\ DOMAIN Tail(q) = 1 .. Len(q) - 1
         /\ Head(q) = q[1] /\ q[1] \in S
         /\ \A i \in 1 .. Len(q) - 1 : Tail(q)[i] = q[i + 1]
  OBVIOUS

\* The first event leaves the queue.
LEMMA Shift ==
  ASSUME NEW q \in Seq(Events), q # <<>>, NEW k \in Ids
  PROVE  /\ \A S : LastIn(q, k, S) => LastIn(Tail(q), k, S)
         /\ \A S : LastIn(q, k, S) /\ Head(q).id = k /\ Silent(Tail(q), k) => Head(q).status \in S
         /\ Ends(q, k) => Ends(Tail(q), k)
         /\ Ends(q, k) /\ Head(q).id = k /\ Head(q).status = "completed" => Silent(Tail(q), k)
         /\ Incomplete(q, k) => Incomplete(Tail(q), k)
         /\ Incomplete(q, k) /\ Head(q).id = k => Head(q).status # "completed"
         /\ Silent(q, k) => Silent(Tail(q), k) /\ Head(q).id # k
         /\ Head(q).id # k /\ Silent(Tail(q), k) => Silent(q, k)
  <1> DEFINE r == Tail(q)
  <1>1. /\ r \in Seq(Events) /\ Len(q) \in Nat /\ Len(q) >= 1 /\ DOMAIN q = 1 .. Len(q)
        /\ Len(r) = Len(q) - 1 /\ DOMAIN r = 1 .. Len(q) - 1
        /\ Head(q) = q[1] /\ q[1] \in Events
        /\ \A i \in 1 .. Len(q) - 1 : r[i] = q[i + 1]
    <2> HIDE DEF Events
    <2> QED BY TailFacts
  <1> HIDE DEF r
  <1>2. \A i \in DOMAIN r : i + 1 \in DOMAIN q /\ i + 1 # 1 /\ r[i] = q[i + 1]
    BY <1>1
  <1>3. \A i \in DOMAIN q : i = 1 \/ (i - 1 \in DOMAIN r /\ q[i] = r[i - 1])
    BY <1>1
  <1>4. 1 \in DOMAIN q /\ \A i \in DOMAIN q : i \in Nat /\ i >= 1
    BY <1>1
  <1>5. \A i \in DOMAIN r : i \in Nat /\ i >= 1
    BY <1>1
  <1>6. ASSUME NEW S, LastIn(q, k, S) PROVE LastIn(r, k, S)
    <2> SUFFICES ASSUME NEW i \in DOMAIN r, r[i].id = k,
                        \A j \in DOMAIN r : j > i => r[j].id # k
                 PROVE  r[i].status \in S
      BY DEF LastIn
    <2>1. ASSUME NEW j \in DOMAIN q, j > i + 1 PROVE q[j].id # k
      <3>1. j # 1 /\ j \in Nat /\ i \in Nat
        BY <1>4, <1>5, <2>1
      <3>2. j - 1 \in DOMAIN r /\ j - 1 > i /\ q[j] = r[j - 1]
        BY <1>3, <2>1, <3>1
      <3> QED BY <3>2
    <2> QED BY <1>2, <1>6, <2>1 DEF LastIn
  <1>7. ASSUME NEW S, LastIn(q, k, S), q[1].id = k, Silent(r, k) PROVE q[1].status \in S
    <2>1. \A j \in DOMAIN q : j > 1 => q[j].id # k
      <3> SUFFICES ASSUME NEW j \in DOMAIN q, j # 1 PROVE q[j].id # k
        BY <1>4
      <3>1. j - 1 \in DOMAIN r /\ q[j] = r[j - 1]
        BY <1>3
      <3> QED BY <1>7, <3>1 DEF Silent
    <2> QED BY <1>4, <1>7, <2>1 DEF LastIn
  <1>8. ASSUME Ends(q, k) PROVE Ends(r, k)
    <2> SUFFICES ASSUME NEW i \in DOMAIN r, NEW j \in DOMAIN r, j > i,
                        r[i].id = k, r[i].status = "completed"
                 PROVE  r[j].id # k
      BY DEF Ends
    <2>1. j + 1 > i + 1
      BY <1>5
    <2> QED BY <1>2, <1>8, <2>1 DEF Ends
  <1>9. ASSUME Ends(q, k), q[1].id = k, q[1].status = "completed" PROVE Silent(r, k)
    <2> SUFFICES ASSUME NEW i \in DOMAIN r PROVE r[i].id # k
      BY DEF Silent
    <2>1. i + 1 > 1
      BY <1>5
    <2> QED BY <1>2, <1>4, <1>9, <2>1 DEF Ends
  <1>10. Incomplete(q, k) => Incomplete(r, k) /\ (q[1].id = k => q[1].status # "completed")
    BY <1>2, <1>4 DEF Incomplete
  <1>11. Silent(q, k) => Silent(r, k) /\ q[1].id # k
    BY <1>2, <1>4 DEF Silent
  <1>12. q[1].id # k /\ Silent(r, k) => Silent(q, k)
    BY <1>3 DEF Silent
  <1> QED BY <1>1, <1>6, <1>7, <1>8, <1>9, <1>10, <1>11, <1>12 DEF r

\* An event is added at the end.
LEMMA Appended ==
  ASSUME NEW q \in Seq(Events), NEW e \in Events, NEW k \in Ids
  PROVE  LET r == Append(q, e)
         IN  /\ r \in Seq(Events) /\ Len(r) = Len(q) + 1
             /\ e.id = k => ~ Silent(r, k) /\ LastIn(r, k, {e.status})
             /\ Incomplete(q, k) => Ends(r, k)
             /\ Incomplete(q, k) /\ (e.id # k \/ e.status # "completed") => Incomplete(r, k)
             /\ e.id # k => (Silent(r, k) <=> Silent(q, k))
             /\ e.id # k => \A S : LastIn(q, k, S) => LastIn(r, k, S)
             /\ e.id # k /\ Ends(q, k) => Ends(r, k)
  <1> DEFINE r == Append(q, e)
             n == Len(q) + 1
  <1>1. /\ r \in Seq(Events) /\ Len(r) = n /\ DOMAIN r = DOMAIN q \cup {n} /\ r[n] = e
        /\ n \in Nat /\ \A i \in DOMAIN q : i \in Nat /\ i < n /\ r[i] = q[i]
    <2>1. /\ r \in Seq(Events) /\ Len(r) = n /\ DOMAIN r = 1 .. n /\ DOMAIN q = 1 .. Len(q)
          /\ r[n] = e /\ Len(q) \in Nat /\ \A i \in 1 .. Len(q) : r[i] = q[i]
      OBVIOUS
    <2> QED BY <2>1
  <1>2. Len(r) = Len(q) + 1
    BY <1>1
  <1> HIDE DEF r, n
  <1>3. ASSUME e.id = k PROVE ~ Silent(r, k) /\ LastIn(r, k, {e.status})
    BY <1>1, <1>3 DEF Silent, LastIn
  <1>4. ASSUME Incomplete(q, k) PROVE Ends(r, k)
    BY <1>1, <1>4 DEF Incomplete, Ends
  <1>5. ASSUME Incomplete(q, k), e.id # k \/ e.status # "completed" PROVE Incomplete(r, k)
    BY <1>1, <1>5 DEF Incomplete
  <1>6. ASSUME e.id # k PROVE Silent(r, k) <=> Silent(q, k)
    BY <1>1, <1>6 DEF Silent
  <1>7. ASSUME e.id # k, NEW S, LastIn(q, k, S) PROVE LastIn(r, k, S)
    <2> SUFFICES ASSUME NEW i \in DOMAIN r, r[i].id = k,
                        \A j \in DOMAIN r : j > i => r[j].id # k
                 PROVE  r[i].status \in S
      BY DEF LastIn
    <2>1. i \in DOMAIN q /\ r[i] = q[i]
      BY <1>1, <1>7
    <2>2. \A j \in DOMAIN q : j > i => q[j].id # k
      BY <1>1
    <2> QED BY <1>7, <2>1, <2>2 DEF LastIn
  <1>8. ASSUME e.id # k, Ends(q, k) PROVE Ends(r, k)
    <2> SUFFICES ASSUME NEW i \in DOMAIN r, NEW j \in DOMAIN r, j > i,
                        r[i].id = k, r[i].status = "completed"
                 PROVE  r[j].id # k
      BY DEF Ends
    <2>1. i \in DOMAIN q /\ r[i] = q[i]
      BY <1>1, <1>8
    <2> QED BY <1>1, <1>8, <2>1 DEF Ends
  <1> QED BY <1>1, <1>2, <1>3, <1>4, <1>5, <1>6, <1>7, <1>8 DEF r

\* What publishing an event does to the queue, for one job.
LEMMA SendEffect ==
  ASSUME TypeOK, NEW e \in Events, Send(e), NEW k \in Ids
  PROVE  /\ bus' \in Seq(Events) /\ Len(bus') <= BusCap /\ linked' = linked
         /\ missed' \in SUBSET Ids /\ overrun' \in SUBSET Ids
         /\ missed \subseteq missed' /\ overrun \subseteq overrun'
         /\ ~ linked => UNCHANGED bus /\ (e.id = k => k \in missed')
         /\ linked /\ e.id = k => ~ Silent(bus', k) /\ LastIn(bus', k, {e.status})
         /\ e.id = k /\ Incomplete(bus, k) => Ends(bus', k)
         /\ Incomplete(bus, k) /\ (e.id # k \/ e.status # "completed") => Incomplete(bus', k)
         /\ e.id # k /\ Silent(bus, k) => Silent(bus', k)
         /\ e.id # k /\ k \notin overrun' => (Silent(bus', k) <=> Silent(bus, k))
         /\ e.id # k => \A S : LastIn(bus, k, S) => LastIn(bus', k, S)
         /\ e.id # k /\ Ends(bus, k) => Ends(bus', k)
  <1>0. bus \in Seq(Events) /\ Len(bus) <= BusCap /\ Len(bus) \in Nat /\ BusCap \in Nat \ {0}
        /\ linked \in BOOLEAN /\ missed \in SUBSET Ids /\ overrun \in SUBSET Ids
    BY SyncAssumption DEF TypeOK, Events
  <1>1. CASE ~ linked /\ missed' = missed \cup ({e.id} \cap Ids) /\ UNCHANGED <<bus, overrun>>
    <2>1. Incomplete(bus, k) => Ends(bus, k)
      BY DEF Incomplete, Ends
    <2>2. linked' = linked
      BY DEF Send
    <2> HIDE DEF Events
    <2> QED BY <1>0, <1>1, <2>1, <2>2
  <1>2. CASE linked /\ Len(bus) < BusCap /\ bus' = Append(bus, e) /\ UNCHANGED <<missed, overrun>>
    <2>1. linked' = linked
      BY DEF Send
    <2> HIDE DEF Events
    <2>2. Len(bus') <= BusCap
      BY <1>0, <1>2, Appended
    <2> QED BY <1>0, <1>2, <2>1, <2>2, Appended
  <1>3. CASE /\ linked /\ Len(bus) >= BusCap /\ bus' = Append(Tail(bus), e)
             /\ overrun' = overrun \cup ({Head(bus).id} \cap Ids) /\ UNCHANGED missed
    <2>1. linked' = linked
      BY DEF Send
    <2>2. bus # <<>>
      BY <1>0, <1>3
    <2> HIDE DEF Events
    <2>3. Tail(bus) \in Seq(Events) /\ Len(Tail(bus)) = Len(bus) - 1
      BY <1>0, <2>2, TailFacts
    <2>4. bus' \in Seq(Events) /\ Len(bus') <= BusCap
      BY <1>0, <1>3, <2>3, Appended
    <2>5. k \notin overrun' => Head(bus).id # k
      BY <1>3
    <2>6. /\ \A S : LastIn(bus, k, S) => LastIn(Tail(bus), k, S)
          /\ Ends(bus, k) => Ends(Tail(bus), k)
          /\ Incomplete(bus, k) => Incomplete(Tail(bus), k)
          /\ Silent(bus, k) => Silent(Tail(bus), k)
          /\ Head(bus).id # k /\ Silent(Tail(bus), k) => Silent(bus, k)
      BY <1>0, <2>2, Shift
    <2>7. /\ e.id = k => ~ Silent(bus', k) /\ LastIn(bus', k, {e.status})
          /\ Incomplete(Tail(bus), k) => Ends(bus', k)
          /\ Incomplete(Tail(bus), k) /\ (e.id # k \/ e.status # "completed") => Incomplete(bus', k)
          /\ e.id # k => (Silent(bus', k) <=> Silent(Tail(bus), k))
          /\ e.id # k => \A S : LastIn(Tail(bus), k, S) => LastIn(bus', k, S)
          /\ e.id # k /\ Ends(Tail(bus), k) => Ends(bus', k)
      BY <1>3, <2>3, Appended
    <2> QED BY <1>0, <1>3, <2>1, <2>4, <2>5, <2>6, <2>7
  <1> QED BY <1>1, <1>2, <1>3 DEF Send

-----------------------------------------------------------------------------
(* Type correctness.                                                       *)

\* The bus keeps its type whatever is published.
LEMMA BusType ==
  ASSUME TypeOK, NEW e \in Events, Send(e)
  PROVE  /\ bus' \in Seq(Events) /\ Len(bus') <= BusCap /\ linked' \in BOOLEAN
         /\ missed' \in SUBSET Ids /\ overrun' \in SUBSET Ids
  <1>1. CASE Ids = {}
    <2>1. missed' \in SUBSET Ids /\ overrun' \in SUBSET Ids /\ linked' \in BOOLEAN
      BY <1>1 DEF Send, TypeOK
    <2>2. bus \in Seq(Events) /\ Len(bus) <= BusCap /\ Len(bus) \in Nat /\ BusCap \in Nat \ {0}
      BY SyncAssumption DEF TypeOK, Events
    <2>3. CASE bus' = bus
      BY <2>1, <2>2, <2>3
    <2>4. CASE Len(bus) < BusCap /\ bus' = Append(bus, e)
      BY <2>1, <2>2, <2>4
    <2>5. CASE Len(bus) >= BusCap /\ bus' = Append(Tail(bus), e)
      <3> HIDE DEF Events
      <3>1. bus # <<>>
        BY <2>2, <2>5
      <3>2. Tail(bus) \in Seq(Events) /\ Len(Tail(bus)) = Len(bus) - 1
        BY <2>2, <3>1, TailFacts
      <3> QED BY <2>1, <2>2, <2>5, <3>2
    <2> QED BY <2>3, <2>4, <2>5 DEF Send
  <1>2. CASE \E k \in Ids : TRUE
    BY <1>2, SendEffect DEF TypeOK
  <1> QED BY <1>1, <1>2

LEMMA PublishType ==
  ASSUME TypeOK, NEW id \in Ids, NEW status \in Statuses, Publish(id, status)
  PROVE  /\ bus' \in Seq(Events) /\ Len(bus') <= BusCap /\ linked' \in BOOLEAN
         /\ missed' \in SUBSET Ids /\ overrun' \in SUBSET Ids
         /\ said' \in [Ids -> Statuses \cup {"none"}]
  <1>1. [id |-> id, status |-> status] \in Events
    BY DEF Events
  <1> QED BY <1>1, BusType DEF Publish, TypeOK

LEMMA TypeInit == Init => TypeOK
  <1> SUFFICES ASSUME Init PROVE TypeOK
    OBVIOUS
  <1> USE SyncAssumption DEF Init
  <1>1. bus \in Seq(Events) /\ Len(bus) <= BusCap
    BY EmptySeq
  <1>2. faults \in 0 .. MaxFaults
    OBVIOUS
  <1> QED BY <1>1, <1>2 DEF TypeOK, Events

\* The downloader's steps.
LEMMA TypeDownloader ==
  ASSUME TypeOK, NEW id \in Ids,
         \/ PostAdd(id) \/ RunStep(id) \/ End(id) \/ Forget(id) \/ CancelLook(id) \/ CancelStep(id)
  PROVE  TypeOK'
  <1> USE DEF jobVars, busVars, webVars, oddVars, Statuses, Active, Terminal, AtWork
  <1>1. CASE PostAdd(id)
    <2>1. reg' \in [Ids -> Statuses \cup {"absent"}]
      BY <1>1 DEF PostAdd, TypeOK
    <2>2. run' \in [Ids -> AtWork \cup Terminal \cup {"none", "over"}]
      BY <1>1 DEF PostAdd, Step, TypeOK
    <2>3. post' \in [Ids -> {"none", "sending", "adrift", "arrived", "over"}]
      BY <1>1 DEF PostAdd, TypeOK
    <2> QED BY <1>1, <2>1, <2>2, <2>3 DEF PostAdd, TypeOK
  <1>2. ASSUME NEW from, NEW to \in AtWork \cup Terminal \cup {"over"}, Step(id, from, to)
        PROVE  run' \in [Ids -> AtWork \cup Terminal \cup {"none", "over"}]
    BY <1>2 DEF Step, TypeOK
  <1>3. ASSUME NEW status \in Statuses, Update(id, status)
        PROVE  reg' \in [Ids -> Statuses \cup {"absent"}]
    BY <1>3 DEF Update, TypeOK
  <1>4. CASE PostSay(id) \/ BeginSay(id) \/ EndSay(id)
    <2>1. run' \in [Ids -> AtWork \cup Terminal \cup {"none", "over"}]
      BY <1>2, <1>4 DEF PostSay, BeginSay, EndSay, TypeOK
    <2>2. \E status \in Statuses : Publish(id, status)
      BY <1>4 DEF PostSay, BeginSay, EndSay
    <2>3. UNCHANGED <<reg, del, webVars, faults, oddVars>>
      BY <1>4 DEF PostSay, BeginSay, EndSay
    <2> QED BY <2>1, <2>2, <2>3, PublishType DEF TypeOK, Events
  <1>5. CASE Pick(id)
    <2>1. run' \in [Ids -> AtWork \cup Terminal \cup {"none", "over"}]
      BY <1>2, <1>5 DEF Pick
    <2> QED BY <1>5, <2>1 DEF Pick, TypeOK
  <1>6. CASE Begin(id)
    <2>1. run' \in [Ids -> AtWork \cup Terminal \cup {"none", "over"}]
      BY <1>2, <1>6 DEF Begin
    <2>2. reg' \in [Ids -> Statuses \cup {"absent"}]
      BY <1>3, <1>6 DEF Begin
    <2> QED BY <1>6, <2>1, <2>2 DEF Begin, TypeOK
  <1>7. CASE End(id)
    <2>1. PICK o \in Terminal : Step(id, "alive", o) /\ Update(id, o)
      BY <1>7 DEF End
    <2>2. run' \in [Ids -> AtWork \cup Terminal \cup {"none", "over"}]
      BY <1>2, <2>1
    <2>3. reg' \in [Ids -> Statuses \cup {"absent"}]
      BY <1>3, <2>1
    <2> QED BY <1>7, <2>2, <2>3 DEF End, TypeOK
  <1>8. CASE Forget(id)
    BY <1>8 DEF Forget, TypeOK
  <1>9. CASE CancelLook(id)
    BY <1>9 DEF CancelLook, TypeOK
  <1>10. CASE CancelMark(id)
    <2>1. reg' \in [Ids -> Statuses \cup {"absent"}]
      BY <1>3, <1>10 DEF CancelMark
    <2> QED BY <1>10, <2>1 DEF CancelMark, TypeOK
  <1>11. CASE CancelSay(id)
    <2>1. Publish(id, "canceled")
      BY <1>11 DEF CancelSay
    <2>2. del' \in [Ids -> {"none", "saw", "marked"}] /\ early' \in SUBSET Ids
      BY <1>11 DEF CancelSay, TypeOK
    <2> QED BY <1>11, <2>1, <2>2, PublishType DEF CancelSay, TypeOK, Events
  <1> QED BY <1>1, <1>4, <1>5, <1>6, <1>7, <1>8, <1>9, <1>10, <1>11 DEF RunStep, CancelStep

\* The steps of the web service.
LEMMA TypeWeb ==
  ASSUME TypeOK,
         \/ \E id \in Ids : InsertRow(id) \/ PostAnswered(id) \/ PostFails(id)
         \/ Consume
  PROVE  TypeOK'
  <1> USE DEF jobVars, busVars, webVars, oddVars
  <1>1. ASSUME NEW id \in Ids, InsertRow(id) \/ PostAnswered(id) \/ PostFails(id)
        PROVE  TypeOK'
    <2>1. row' \in [Ids -> Statuses \cup {"none"}]
      BY <1>1 DEF InsertRow, PostAnswered, PostFails, TypeOK, Statuses, Active, Terminal
    <2>2. post' \in [Ids -> {"none", "sending", "adrift", "arrived", "over"}]
      BY <1>1 DEF InsertRow, PostAnswered, PostFails, TypeOK
    <2>3. disowned' \in SUBSET Ids
      BY <1>1 DEF InsertRow, PostAnswered, PostFails, TypeOK
    <2> QED BY <1>1, <2>1, <2>2, <2>3 DEF InsertRow, PostAnswered, PostFails, TypeOK
  <1>2. CASE Connect \/ Disconnected
    BY <1>2 DEF Connect, Disconnected, TypeOK
  <1>3. CASE List
    <2>1. alive' \in SUBSET Ids /\ disowned' \in SUBSET Ids
      BY <1>3 DEF List, InRegistry, TypeOK
    <2>2. faults' \in 0 .. MaxFaults
      BY <1>3, SyncAssumption DEF List, TypeOK
    <2> QED BY <1>3, <2>1, <2>2 DEF List, TypeOK
  <1>4. CASE Reconcile
    <2>1. row' \in [Ids -> Statuses \cup {"none"}]
      BY <1>4 DEF Reconcile, TypeOK, Statuses, Terminal
    <2> QED BY <1>4, <2>1 DEF Reconcile, TypeOK
  <1>5. CASE ApplyEvent
    <2>1. bus \in Seq(Events) /\ bus # <<>> /\ bus' = Tail(bus) /\ Len(bus) <= BusCap
      BY <1>5 DEF ApplyEvent, TypeOK, Events
    <2>2. bus' \in Seq(Events) /\ Len(bus') <= BusCap /\ Head(bus) \in Events
      <3> HIDE DEF Events
      <3> QED BY <2>1, TailFacts, SyncAssumption
    <2>3. row' \in [Ids -> Statuses \cup {"none"}]
      BY <1>5, <2>2 DEF ApplyEvent, TypeOK, Events
    <2> QED BY <1>5, <2>2, <2>3 DEF ApplyEvent, TypeOK, Events
  <1> QED BY <1>1, <1>2, <1>3, <1>4, <1>5 DEF Consume

\* Faults, and what the downloader says of other jobs.
LEMMA TypeFaults ==
  ASSUME TypeOK, Chatter \/ StreamBreaks \/ WebRestarts \/ DownloaderRestarts
  PROVE  TypeOK'
  <1> USE DEF jobVars, busVars, webVars, oddVars
  <1>1. CASE Chatter
    <2>1. [id |-> Other, status |-> "running"] \in Events
      BY DEF Events, Statuses, Active
    <2> QED BY <1>1, <2>1, BusType DEF Chatter, TypeOK, Events
  <1>2. ASSUME Fault PROVE faults' \in 0 .. MaxFaults
    BY <1>2, SyncAssumption DEF Fault, TypeOK
  <1>3. ASSUME Unsubscribed
        PROVE  /\ linked' \in BOOLEAN /\ bus' \in Seq(Events) /\ Len(bus') <= BusCap
               /\ missed' \in SUBSET Ids
    <2>1. bus' \in Seq(Events) /\ Len(bus') <= BusCap
      BY <1>3, EmptySeq, SyncAssumption DEF Unsubscribed
    <2>2. linked' \in BOOLEAN /\ missed' \in SUBSET Ids
      BY <1>3 DEF Unsubscribed, TypeOK
    <2> QED BY <2>1, <2>2
  <1>4. CASE StreamBreaks
    BY <1>2, <1>3, <1>4 DEF StreamBreaks, Unsubscribed, TypeOK, Events
  <1>5. CASE WebRestarts
    <2>1. post' \in [Ids -> {"none", "sending", "adrift", "arrived", "over"}]
      BY <1>5 DEF WebRestarts, TypeOK
    <2> QED BY <1>2, <1>3, <1>5, <2>1 DEF WebRestarts, Unsubscribed, TypeOK, Events
  <1>6. CASE DownloaderRestarts
    <2>1. /\ reg' \in [Ids -> Statuses \cup {"absent"}]
          /\ run' \in [Ids -> AtWork \cup Terminal \cup {"none", "over"}]
          /\ del' \in [Ids -> {"none", "saw", "marked"}]
          /\ linked' \in BOOLEAN /\ missed' \in SUBSET Ids
      BY <1>6 DEF DownloaderRestarts, TypeOK
    <2>2. bus' \in Seq(Events) /\ Len(bus') <= BusCap
      BY <1>6, EmptySeq, SyncAssumption DEF DownloaderRestarts
    <2> QED BY <1>2, <1>6, <2>1, <2>2 DEF DownloaderRestarts, TypeOK, Events
  <1> QED BY <1>1, <1>4, <1>5, <1>6

LEMMA TypeStep == TypeOK /\ [Next]_vars => TypeOK'
  <1> SUFFICES ASSUME TypeOK, [Next]_vars PROVE TypeOK'
    OBVIOUS
  <1>1. CASE UNCHANGED vars
    BY <1>1 DEF vars, jobVars, busVars, webVars, oddVars, TypeOK
  <1> QED BY <1>1, TypeDownloader, TypeWeb, TypeFaults DEF Next

-----------------------------------------------------------------------------
(* The inductive invariant, one job at a time.                             *)

\* Nothing waits for a subscriber that is not there.
LinkInv == (linked => conn # "down") /\ (~ linked => bus = <<>>)

\* How far the job has come in the two services.
Begun(k) ==
  /\ reg[k] \in Active => run[k] \in AtWork
  /\ run[k] = "none" =>
       reg[k] = "absent" /\ said[k] = "none" /\ del[k] = "none" /\ Silent(bus, k)
  /\ post[k] \in {"none", "sending", "adrift"} => run[k] = "none"
  /\ row[k] = "none" => post[k] = "none"

\* A job that is canceled or over has been said to be, or is about to.
Said(k) ==
  /\ reg[k] = "canceled" /\ run[k] = "added" => del[k] = "marked"
  /\ reg[k] = "canceled" /\ run[k] = "waiting" => del[k] = "marked" \/ said[k] = "canceled"
  /\ run[k] = "over" => del[k] = "marked" \/ said[k] \in Terminal \/ k \in missed

\* The downloader has no more to do or to say about the job.
Done(k) ==
  /\ del[k] = "none"
  /\ run[k] \in {"none", "over"} \/ (run[k] = "waiting" /\ reg[k] = "canceled")

\* Of a job that is done the last event under way is of its end; when there
\* is none its row is not active, or the reconciliation under way will see it.
Told(k) ==
  linked /\ post[k] # "sending" /\ Done(k) =>
    /\ LastIn(bus, k, Terminal)
    /\ Silent(bus, k) /\ row[k] \in Active =>
         conn = "open" \/ (conn = "listed" /\ k \notin alive)

\* The last event under way is the last one published; when there is none
\* the row has its status, and no reconciliation is about to change it.
Mirror(k) ==
  /\ LastIn(bus, k, {said[k]})
  /\ said[k] # "none" /\ Silent(bus, k) /\ ~ Unsaid(k) =>
       /\ row[k] = said[k]
       /\ conn = "listed" /\ k \notin alive => said[k] \in Terminal

\* Nothing is published, under way or to come, after a completion.
Final(k) ==
  /\ del[k] = "none" /\ Ends(bus, k)
  /\ run[k] # "over" => Incomplete(bus, k)
  /\ row[k] = "completed" => run[k] = "over" /\ Silent(bus, k)

Own(k) ==
  /\ Begun(k)
  /\ k \notin early => Said(k)
  /\ k \notin early \cup overrun => Told(k)
  /\ k \notin missed \cup overrun \cup early \cup disowned => Mirror(k)
  /\ k \notin disputed => Final(k)

Inv == TypeOK /\ LinkInv /\ \A k \in Ids : Own(k)

LEMMA Widen ==
  ASSUME NEW q, NEW k, NEW S, NEW T, LastIn(q, k, S), S \subseteq T
  PROVE  LastIn(q, k, T)
  BY DEF LastIn

LEMMA SilentLast ==
  ASSUME NEW q, NEW k, NEW S, Silent(q, k)
  PROVE  LastIn(q, k, S)
  BY DEF LastIn, Silent

\* What happens to other jobs makes no difference to this one.
LEMMA Bystander ==
  ASSUME TypeOK, NEW k \in Ids, Own(k),
         UNCHANGED <<reg[k], run[k], del[k], row[k], post[k], said[k], conn, alive, linked>>,
         k \in missed => k \in missed',
         k \in overrun => k \in overrun', k \in early => k \in early',
         k \in disowned => k \in disowned', k \in disputed => k \in disputed',
         UNCHANGED bus \/ \E e \in Events : e.id # k /\ Send(e)
  PROVE  Own(k)'
  <1>1. /\ Silent(bus, k) => Silent(bus', k)
        /\ k \notin overrun' => (Silent(bus', k) <=> Silent(bus, k))
        /\ \A S : LastIn(bus, k, S) => LastIn(bus', k, S)
        /\ Ends(bus, k) => Ends(bus', k)
        /\ Incomplete(bus, k) => Incomplete(bus', k)
    <2>1. CASE UNCHANGED bus
      BY <2>1
    <2>2. CASE \E e \in Events : e.id # k /\ Send(e)
      <3>1. PICK e \in Events : e.id # k /\ Send(e)
        BY <2>2
      <3> HIDE DEF Events
      <3> QED BY <3>1, SendEffect
    <2> QED BY <2>1, <2>2
  <1>2. Begun(k)'
    BY <1>1 DEF Own, Begun
  <1>3. k \notin early' => Said(k)'
    BY DEF Own, Said
  <1>4. k \notin early' \cup overrun' => Told(k)'
    BY <1>1 DEF Own, Told, Done
  <1>5. k \notin missed' \cup overrun' \cup early' \cup disowned' => Mirror(k)'
    <2>1. PICK s : s = said[k] /\ s = said'[k]
      OBVIOUS
    <2> QED BY <1>1, <2>1 DEF Own, Mirror, Unsaid
  <1>6. k \notin disputed' => Final(k)'
    BY <1>1 DEF Own, Final
  <1> QED BY <1>2, <1>3, <1>4, <1>5, <1>6 DEF Own

\* Publishing an event of the job itself.
LEMMA Speaking ==
  ASSUME TypeOK, NEW k \in Ids, NEW status \in Statuses, Publish(k, status)
  PROVE  /\ linked' = linked /\ said'[k] = status
         /\ k \in missed => k \in missed'
         /\ k \in overrun => k \in overrun'
         /\ ~ linked => UNCHANGED bus /\ k \in missed'
         /\ linked => ~ Silent(bus', k) /\ LastIn(bus', k, {status})
         /\ Incomplete(bus, k) => Ends(bus', k)
         /\ Incomplete(bus, k) /\ status # "completed" => Incomplete(bus', k)
  <1> DEFINE e == [id |-> k, status |-> status]
  <1>1. e \in Events /\ e.id = k /\ e.status = status
    BY DEF Events
  <1>2. Send(e) /\ said'[k] = status
    BY DEF Publish, TypeOK
  <1> HIDE DEF e, Events
  <1>3. /\ linked' = linked /\ missed \subseteq missed' /\ overrun \subseteq overrun'
        /\ ~ linked => UNCHANGED bus /\ (e.id = k => k \in missed')
        /\ linked /\ e.id = k => ~ Silent(bus', k) /\ LastIn(bus', k, {e.status})
        /\ e.id = k /\ Incomplete(bus, k) => Ends(bus', k)
        /\ Incomplete(bus, k) /\ (e.id # k \/ e.status # "completed") => Incomplete(bus', k)
    BY <1>1, <1>2, SendEffect
  <1> QED BY <1>1, <1>2, <1>3

\* The job's own steps in the downloader that publish nothing.
LEMMA QuietStep ==
  ASSUME TypeOK, LinkInv, NEW k \in Ids, Own(k),
         PostAdd(k) \/ Pick(k) \/ Begin(k) \/ End(k) \/ Forget(k) \/ CancelLook(k) \/ CancelMark(k)
  PROVE  Own(k)'
  <1> USE DEF jobVars, busVars, webVars, oddVars
  <1>1. UNCHANGED <<linked, bus, said, missed, overrun, row, conn, alive, early, disowned>>
    BY DEF PostAdd, Pick, Begin, End, Forget, CancelLook, CancelMark
  <1>2. PICK s : s = said[k] /\ s = said'[k]
    BY <1>1
  <1>3. CASE PostAdd(k)
    <2>1. /\ run[k] = "none" /\ run'[k] = "added" /\ reg'[k] = "queued"
          /\ post[k] \in {"sending", "adrift"} /\ post'[k] \in {"arrived", "over"}
          /\ del' = del /\ disputed' = disputed
      BY <1>3 DEF PostAdd, Step, TypeOK
    <2> QED BY <1>1, <1>2, <2>1
         DEF Own, Begun, Said, Told, Done, Mirror, Unsaid, Final, Active, AtWork
  <1>4. CASE Pick(k)
    <2>1. /\ run[k] = "waiting" /\ run'[k] \in {"over", "checked"} /\ UNCHANGED <<reg, post, del, disputed>>
          /\ run'[k] = "over" => reg[k] = "canceled"
      BY <1>4 DEF Pick, Step, TypeOK
    <2> QED BY <1>1, <1>2, <2>1
         DEF Own, Begun, Said, Told, Done, Mirror, Unsaid, Final, Active, AtWork, Terminal
  <1>5. CASE Begin(k)
    <2>1. /\ run[k] = "checked" /\ run'[k] = "begun" /\ UNCHANGED <<post, del, disputed>>
          /\ reg'[k] \in {"running", "absent"}
      BY <1>5 DEF Begin, Update, Step, TypeOK
    <2> QED BY <1>1, <1>2, <2>1
         DEF Own, Begun, Said, Told, Done, Mirror, Unsaid, Final, Active, AtWork
  <1>6. CASE End(k)
    <2>1. /\ run[k] = "alive" /\ run'[k] \in Terminal /\ UNCHANGED <<post, del, disputed>>
          /\ reg'[k] \in Terminal \cup {"absent"}
      BY <1>6 DEF End, Update, Step, TypeOK
    <2> QED BY <1>1, <1>2, <2>1
         DEF Own, Begun, Said, Told, Done, Mirror, Unsaid, Final, Active, AtWork, Terminal
  <1>7. CASE Forget(k)
    <2>1. reg[k] \in Terminal /\ reg'[k] = "absent" /\ UNCHANGED <<run, del, post, disputed>>
      BY <1>7 DEF Forget, TypeOK
    <2> QED BY <1>1, <1>2, <2>1
         DEF Own, Begun, Said, Told, Done, Mirror, Unsaid, Final, Active, Terminal
  <1>8. CASE CancelLook(k)
    <2>1. /\ reg[k] = "queued" /\ del[k] = "none" /\ del'[k] = "saw" /\ k \in disputed'
          /\ UNCHANGED <<reg, run, post>>
      BY <1>8 DEF CancelLook, TypeOK
    <2> QED BY <1>1, <1>2, <2>1
         DEF Own, Begun, Said, Told, Done, Mirror, Unsaid, Active, AtWork
  <1>9. CASE CancelMark(k)
    <2>1. /\ del[k] = "saw" /\ del'[k] = "marked" /\ UNCHANGED <<run, post, disputed>>
          /\ reg'[k] \in {"canceled", "absent"}
      BY <1>9 DEF CancelMark, Update, TypeOK
    <2> QED BY <1>1, <1>2, <2>1
         DEF Own, Begun, Said, Told, Done, Mirror, Unsaid, Final, Active
  <1> QED BY <1>3, <1>4, <1>5, <1>6, <1>7, <1>8, <1>9

\* Those that publish.
LEMMA SpeakingStep ==
  ASSUME TypeOK, LinkInv, NEW k \in Ids, Own(k),
         PostSay(k) \/ BeginSay(k) \/ EndSay(k) \/ CancelSay(k)
  PROVE  Own(k)'
  <1> USE DEF jobVars, busVars, webVars, oddVars
  <1>1. UNCHANGED <<reg, row, post, conn, alive, disputed, disowned>>
    BY DEF PostSay, BeginSay, EndSay, CancelSay
  <1>2. CASE PostSay(k) \/ BeginSay(k)
    <2>1. PICK s \in {"queued", "running"} :
            /\ Publish(k, s) /\ UNCHANGED <<del, early>>
            /\ \/ s = "queued" /\ run[k] = "added" /\ run'[k] = "waiting"
               \/ s = "running" /\ run[k] = "begun" /\ run'[k] = "alive"
      BY <1>2 DEF PostSay, BeginSay, Step, TypeOK
    <2>2. /\ linked' = linked /\ said'[k] = s
          /\ k \in missed => k \in missed'
          /\ k \in overrun => k \in overrun'
          /\ ~ linked => UNCHANGED bus /\ k \in missed'
          /\ linked => ~ Silent(bus', k) /\ LastIn(bus', k, {s})
          /\ Incomplete(bus, k) => Ends(bus', k) /\ Incomplete(bus', k)
      BY <2>1, Speaking DEF Statuses, Active
    <2>3. Begun(k)' /\ (k \notin early' => Said(k)')
      BY <1>1, <2>1, <2>2 DEF Own, Begun, Said, AtWork
    <2>4. k \notin early' \cup overrun' => Told(k)'
      BY <1>1, <2>1, <2>2 DEF Own, Said, Told, Done
    <2>5. k \notin missed' \cup overrun' \cup early' \cup disowned' => Mirror(k)'
      BY <2>2 DEF Mirror
    <2>6. k \notin disputed' => Final(k)'
      BY <1>1, <2>1, <2>2 DEF Own, Final
    <2> QED BY <2>3, <2>4, <2>5, <2>6 DEF Own
  <1>3. CASE EndSay(k)
    <2>1. PICK s \in Terminal :
            run[k] = s /\ run'[k] = "over" /\ Publish(k, s) /\ UNCHANGED <<del, early>>
      BY <1>3 DEF EndSay, TypeOK
    <2>2. /\ linked' = linked /\ said'[k] = s
          /\ k \in missed => k \in missed'
          /\ k \in overrun => k \in overrun'
          /\ ~ linked => UNCHANGED bus /\ k \in missed'
          /\ linked => ~ Silent(bus', k) /\ LastIn(bus', k, {s})
          /\ Incomplete(bus, k) => Ends(bus', k)
      BY <2>1, Speaking DEF Statuses
    <2>3. linked => LastIn(bus', k, Terminal)
      BY <2>1, <2>2, Widen
    <2>4. Begun(k)' /\ (k \notin early' => Said(k)')
      BY <1>1, <2>1, <2>2 DEF Own, Begun, Said, AtWork, Terminal
    <2>5. k \notin early' \cup overrun' => Told(k)'
      BY <2>2, <2>3 DEF Told
    <2>6. k \notin missed' \cup overrun' \cup early' \cup disowned' => Mirror(k)'
      BY <2>2 DEF Mirror
    <2>7. k \notin disputed' => Final(k)'
      BY <1>1, <2>1, <2>2 DEF Own, Final, Terminal
    <2> QED BY <2>4, <2>5, <2>6, <2>7 DEF Own
  <1>4. CASE CancelSay(k)
    <2>1. /\ del[k] = "marked" /\ del'[k] = "none" /\ run' = run /\ Publish(k, "canceled")
          /\ early' = IF run[k] = "added" THEN early \cup {k} ELSE early
      BY <1>4 DEF CancelSay, TypeOK
    <2>2. "canceled" \in Statuses /\ {"canceled"} \subseteq Terminal
      BY DEF Statuses, Terminal
    <2>3. /\ linked' = linked /\ said'[k] = "canceled"
          /\ k \in missed => k \in missed'
          /\ k \in overrun => k \in overrun'
          /\ ~ linked => UNCHANGED bus /\ k \in missed'
          /\ linked => ~ Silent(bus', k) /\ LastIn(bus', k, {"canceled"})
      BY <2>1, <2>2, Speaking
    <2>4. linked => LastIn(bus', k, Terminal)
      BY <2>2, <2>3, Widen
    <2>5. Begun(k)'
      BY <1>1, <2>1, <2>3 DEF Own, Begun
    <2>6. k \notin early' => Said(k)'
      BY <1>1, <2>1, <2>3 DEF Own, Said, Terminal
    <2>7. k \notin early' \cup overrun' => Told(k)'
      BY <2>3, <2>4 DEF Told
    <2>8. k \notin missed' \cup overrun' \cup early' \cup disowned' => Mirror(k)'
      BY <2>3 DEF Mirror
    <2>9. k \in disputed'
      BY <1>1, <2>1 DEF Own, Final
    <2> QED BY <2>5, <2>6, <2>7, <2>8, <2>9 DEF Own
  <1> QED BY <1>2, <1>3, <1>4

\* The requests of the web service.
LEMMA RequestStep ==
  ASSUME TypeOK, LinkInv, NEW k \in Ids, Own(k), InsertRow(k) \/ PostAnswered(k) \/ PostFails(k)
  PROVE  Own(k)'
  <1> USE DEF jobVars, busVars, webVars, oddVars
  <1>1. UNCHANGED <<reg, run, del, linked, bus, said, missed, overrun, conn, alive, early, disputed>>
    BY DEF InsertRow, PostAnswered, PostFails
  <1>2. PICK s : s = said[k] /\ s = said'[k]
    BY <1>1
  <1>3. CASE InsertRow(k)
    <2>1. row[k] = "none" /\ row'[k] = "queued" /\ post'[k] = "sending" /\ disowned' = disowned
      BY <1>3 DEF InsertRow, TypeOK
    <2> QED BY <1>1, <1>2, <2>1 DEF Own, Begun, Said, Told, Mirror, Final
  <1>4. CASE PostAnswered(k)
    <2>1. post[k] = "arrived" /\ post'[k] = "over" /\ UNCHANGED <<row, disowned>>
      BY <1>4 DEF PostAnswered, TypeOK
    <2> QED BY <1>1, <1>2, <2>1 DEF Own, Begun, Said, Told, Done, Mirror, Unsaid, Final
  <1>5. CASE PostFails(k)
    <2>1. /\ post[k] \in {"sending", "arrived"} /\ post'[k] = "over" /\ row'[k] = "failed"
          /\ k \in disowned => k \in disowned'
          /\ post[k] = "arrived" => k \in disowned'
      BY <1>5 DEF PostFails, TypeOK
    <2>2. post[k] = "sending" => LastIn(bus, k, Terminal)
      BY SilentLast DEF Own, Begun
    <2> QED BY <1>1, <1>2, <2>1, <2>2
         DEF Own, Begun, Said, Told, Done, Mirror, Final, Active
  <1> QED BY <1>3, <1>4, <1>5

-----------------------------------------------------------------------------
(* The consumer and its reconciliation.                                    *)

LEMMA ConnectStep ==
  ASSUME TypeOK, LinkInv, NEW k \in Ids, Own(k), Connect
  PROVE  Own(k)'
  <1> USE DEF jobVars, busVars, webVars, oddVars
  <1>1. /\ bus = <<>> /\ conn' = "open"
        /\ UNCHANGED <<reg, run, del, bus, said, missed, overrun, row, post, alive,
                       early, disputed, disowned>>
    BY DEF Connect, LinkInv
  <1>2. PICK s : s = said[k] /\ s = said'[k]
    BY <1>1
  <1>3. \A S : LastIn(bus, k, S)
    BY <1>1, Emptied
  <1> QED BY <1>1, <1>2, <1>3 DEF Own, Begun, Said, Told, Mirror, Unsaid, Final

LEMMA ListStep ==
  ASSUME TypeOK, LinkInv, NEW k \in Ids, Own(k), List
  PROVE  Own(k)'
  <1> USE DEF jobVars, busVars, webVars, oddVars
  <1>1. /\ conn = "open" /\ conn' = "listed"
        /\ UNCHANGED <<reg, run, del, linked, bus, said, missed, overrun, row, post,
                       early, disputed>>
        /\ k \in alive' => reg[k] \in Active
        /\ k \in disowned => k \in disowned'
        /\ k \notin alive' /\ run[k] \in AtWork => k \in disowned'
    BY DEF List, InRegistry
  <1>2. PICK s : s = said[k] /\ s = said'[k]
    BY <1>1
  <1>3. Begun(k)' /\ (k \notin early' => Said(k)') /\ (k \notin disputed' => Final(k)')
    BY <1>1 DEF Own, Begun, Said, Final
  <1>4. k \notin early' \cup overrun' => Told(k)'
    <2>1. Done(k) => k \notin alive'
      BY <1>1 DEF Own, Begun, Done, Active, AtWork
    <2> QED BY <1>1, <2>1 DEF Own, Told, Done
  <1>5. k \notin missed' \cup overrun' \cup early' \cup disowned' => Mirror(k)'
    <2> SUFFICES ASSUME k \notin missed \cup overrun \cup early \cup disowned'
                 PROVE  Mirror(k)'
      BY <1>1
    <2>1. Mirror(k) /\ Said(k) /\ Begun(k)
      BY <1>1 DEF Own
    <2>2. ASSUME said[k] # "none", ~ Unsaid(k), k \notin alive'
          PROVE  said[k] \in Terminal
      <3>1. run[k] = "over" /\ del[k] = "none"
        BY <1>1, <2>1, <2>2 DEF Unsaid, Begun, TypeOK
      <3> QED BY <2>1, <3>1 DEF Said
    <2> QED BY <1>1, <1>2, <2>1, <2>2 DEF Mirror, Unsaid
  <1> QED BY <1>3, <1>4, <1>5 DEF Own

LEMMA ReconcileStep ==
  ASSUME TypeOK, LinkInv, NEW k \in Ids, Own(k), Reconcile
  PROVE  Own(k)'
  <1> USE DEF jobVars, busVars, webVars, oddVars
  <1>1. /\ conn = "listed" /\ conn' = "reading"
        /\ UNCHANGED <<reg, run, del, linked, bus, said, missed, overrun, post,
                       early, disputed, disowned>>
        /\ row'[k] = IF row[k] \in Active /\ k \notin alive THEN "failed" ELSE row[k]
    BY DEF Reconcile
  <1>2. PICK s : s = said[k] /\ s = said'[k]
    BY <1>1
  <1>3. Begun(k)' /\ (k \notin early' => Said(k)') /\ (k \notin disputed' => Final(k)')
    BY <1>1 DEF Own, Begun, Said, Final, Active
  <1>4. k \notin early' \cup overrun' => Told(k)'
    BY <1>1 DEF Own, Told, Done, Active
  <1>5. k \notin missed' \cup overrun' \cup early' \cup disowned' => Mirror(k)'
    BY <1>1, <1>2 DEF Own, Mirror, Unsaid, Active, Terminal
  <1> QED BY <1>3, <1>4, <1>5 DEF Own

LEMMA ApplyStep ==
  ASSUME TypeOK, LinkInv, NEW k \in Ids, Own(k), ApplyEvent
  PROVE  Own(k)'
  <1> USE DEF jobVars, busVars, webVars, oddVars
  <1>1. /\ conn = "reading" /\ conn' = "reading" /\ bus # <<>> /\ bus' = Tail(bus)
        /\ UNCHANGED <<reg, run, del, linked, said, missed, overrun, post, alive,
                       early, disputed, disowned>>
        /\ row'[k] = IF Head(bus).id = k THEN Head(bus).status ELSE row[k]
    BY DEF ApplyEvent
  <1>2. PICK s : s = said[k] /\ s = said'[k]
    BY <1>1
  <1>3. bus \in Seq(Events)
    BY DEF TypeOK, Events
  <1>4. /\ \A S : LastIn(bus, k, S) => LastIn(bus', k, S)
        /\ \A S : LastIn(bus, k, S) /\ Head(bus).id = k /\ Silent(bus', k) => Head(bus).status \in S
        /\ Ends(bus, k) => Ends(bus', k)
        /\ Ends(bus, k) /\ Head(bus).id = k /\ Head(bus).status = "completed" => Silent(bus', k)
        /\ Incomplete(bus, k) => Incomplete(bus', k)
        /\ Incomplete(bus, k) /\ Head(bus).id = k => Head(bus).status # "completed"
        /\ Silent(bus, k) => Silent(bus', k) /\ Head(bus).id # k
        /\ Head(bus).id # k /\ Silent(bus', k) => Silent(bus, k)
    BY <1>1, <1>3, Shift
  <1>5. Head(bus) \in Events
    <2> HIDE DEF Events
    <2> QED BY <1>1, <1>3, TailFacts
  <1>6. Head(bus).status \in Statuses /\ "none" \notin Statuses
    BY <1>5 DEF Events, Statuses, Active, Terminal
  <1>7. Begun(k)' /\ (k \notin early' => Said(k)')
    BY <1>1, <1>4, <1>6 DEF Own, Begun, Said
  <1>8. k \notin early' \cup overrun' => Told(k)'
    BY <1>1, <1>4 DEF Own, Told, Done, Active, Terminal
  <1>9. k \notin missed' \cup overrun' \cup early' \cup disowned' => Mirror(k)'
    BY <1>1, <1>2, <1>4 DEF Own, Mirror, Unsaid
  <1>10. k \notin disputed' => Final(k)'
    BY <1>1, <1>4 DEF Own, Final
  <1> QED BY <1>7, <1>8, <1>9, <1>10 DEF Own

LEMMA DisconnectStep ==
  ASSUME TypeOK, LinkInv, NEW k \in Ids, Own(k), Disconnected
  PROVE  Own(k)'
  <1> USE DEF jobVars, busVars, webVars, oddVars
  <1>1. /\ ~ linked /\ conn' = "down"
        /\ UNCHANGED <<reg, run, del, linked, bus, said, missed, overrun, row, post, alive,
                       early, disputed, disowned>>
    BY DEF Disconnected
  <1>2. PICK s : s = said[k] /\ s = said'[k]
    BY <1>1
  <1> QED BY <1>1, <1>2 DEF Own, Begun, Said, Told, Mirror, Unsaid, Final

-----------------------------------------------------------------------------
(* Faults.                                                                 *)

LEMMA UnlinkStep ==
  ASSUME TypeOK, LinkInv, NEW k \in Ids, Own(k), StreamBreaks \/ WebRestarts
  PROVE  Own(k)'
  <1> USE DEF jobVars, busVars, webVars, oddVars
  <1>1. /\ ~ linked' /\ bus' = <<>> /\ conn' \in {conn, "down"} /\ alive' \in {alive, {}}
        /\ conn' # "down" => alive' = alive
        /\ UNCHANGED <<reg, run, del, said, overrun, row, early, disputed, disowned>>
        /\ missed' = missed \cup ({e.id : e \in ToSet(bus)} \cap Ids)
    BY DEF StreamBreaks, WebRestarts, Unsubscribed
  <1>2. PICK s : s = said[k] /\ s = said'[k]
    BY <1>1
  <1>3. k \in missed => k \in missed'
    BY <1>1
  <1>4. k \notin missed' => Silent(bus, k)
    BY <1>1 DEF Silent, ToSet
  <1>5. Silent(bus', k) /\ Ends(bus', k) /\ Incomplete(bus', k) /\ \A S : LastIn(bus', k, S)
    BY <1>1, Emptied
  <1>6. /\ post'[k] \in {"none", "sending", "adrift"} => post[k] \in {"none", "sending", "adrift"}
        /\ post[k] = "none" => post'[k] = "none"
    BY DEF StreamBreaks, WebRestarts, TypeOK
  <1>7. Begun(k)' /\ (k \notin early' => Said(k)')
    BY <1>1, <1>3, <1>5, <1>6 DEF Own, Begun, Said
  <1>8. Told(k)'
    BY <1>1 DEF Told
  <1>9. k \notin missed' \cup overrun' \cup early' \cup disowned' => Mirror(k)'
    BY <1>1, <1>2, <1>3, <1>4, <1>5 DEF Own, Mirror, Unsaid
  <1>10. k \notin disputed' => Final(k)'
    BY <1>1, <1>5 DEF Own, Final
  <1> QED BY <1>7, <1>8, <1>9, <1>10 DEF Own

LEMMA DownStep ==
  ASSUME TypeOK, LinkInv, NEW k \in Ids, Own(k), DownloaderRestarts
  PROVE  Own(k)'
  <1> USE DEF jobVars, busVars, webVars, oddVars
  <1>1. /\ ~ linked' /\ bus' = <<>> /\ reg'[k] = "absent" /\ del'[k] = "none"
        /\ run'[k] = IF run[k] = "none" THEN "none" ELSE "over"
        /\ UNCHANGED <<said, overrun, row, post, conn, alive, early, disputed, disowned>>
        /\ k \in missed => k \in missed'
        /\ k \notin missed' => run[k] \in {"none", "over"} /\ del[k] = "none" /\ Of(k) = {}
    BY DEF DownloaderRestarts
  <1>2. PICK s : s = said[k] /\ s = said'[k]
    BY <1>1
  <1>3. Silent(bus', k) /\ Ends(bus', k) /\ Incomplete(bus', k) /\ \A S : LastIn(bus', k, S)
    BY <1>1, Emptied
  <1>4. k \notin missed' => Silent(bus, k)
    BY <1>1, SilentOf
  <1>5. Begun(k)' /\ (k \notin early' => Said(k)')
    BY <1>1, <1>3 DEF Own, Begun, Said, Active
  <1>6. Told(k)'
    BY <1>1 DEF Told
  <1>7. k \notin missed' \cup overrun' \cup early' \cup disowned' => Mirror(k)'
    BY <1>1, <1>2, <1>3, <1>4 DEF Own, Mirror, Unsaid, AtWork, Terminal
  <1>8. k \notin disputed' => Final(k)'
    BY <1>1, <1>3 DEF Own, Final
  <1> QED BY <1>5, <1>6, <1>7, <1>8 DEF Own

-----------------------------------------------------------------------------
(* The theorems.                                                           *)

LEMMA LinkStep ==
  ASSUME TypeOK, LinkInv, Next
  PROVE  LinkInv'
  <1> USE DEF jobVars, busVars, webVars, oddVars
  <1>1. ASSUME NEW e, Send(e), UNCHANGED conn PROVE LinkInv'
    BY <1>1 DEF Send, LinkInv
  <1>2. ASSUME NEW id \in Ids, NEW s, Publish(id, s), UNCHANGED conn PROVE LinkInv'
    BY <1>1, <1>2 DEF Publish
  <1>3. ASSUME UNCHANGED <<linked, bus, conn>> PROVE LinkInv'
    BY <1>3 DEF LinkInv
  <1>4. ASSUME NEW id \in Ids, InsertRow(id) \/ PostAdd(id) \/ PostAnswered(id) \/ PostFails(id)
        PROVE  LinkInv'
    BY <1>3, <1>4 DEF InsertRow, PostAdd, PostAnswered, PostFails
  <1>5. ASSUME NEW id \in Ids, RunStep(id) PROVE LinkInv'
    BY <1>2, <1>3, <1>5 DEF RunStep, PostSay, Pick, Begin, BeginSay, EndSay
  <1>6. ASSUME NEW id \in Ids, End(id) \/ Forget(id) \/ CancelLook(id) PROVE LinkInv'
    BY <1>3, <1>6 DEF End, Forget, CancelLook
  <1>7. ASSUME NEW id \in Ids, CancelStep(id) PROVE LinkInv'
    BY <1>2, <1>3, <1>7 DEF CancelStep, CancelMark, CancelSay
  <1>8. CASE Chatter
    BY <1>1, <1>8 DEF Chatter
  <1>9. CASE Consume
    BY <1>9 DEF Consume, Connect, List, Reconcile, ApplyEvent, Disconnected, LinkInv
  <1>10. CASE StreamBreaks \/ WebRestarts \/ DownloaderRestarts
    BY <1>10 DEF StreamBreaks, WebRestarts, DownloaderRestarts, Unsubscribed, LinkInv
  <1> QED BY <1>4, <1>5, <1>6, <1>7, <1>8, <1>9, <1>10 DEF Next

\* A step of another job.
LEMMA OtherJob ==
  ASSUME TypeOK, NEW k \in Ids, Own(k), NEW id \in Ids, id # k,
         \/ InsertRow(id) \/ PostAdd(id) \/ PostAnswered(id) \/ PostFails(id)
         \/ RunStep(id) \/ End(id) \/ Forget(id) \/ CancelLook(id) \/ CancelStep(id)
  PROVE  Own(k)'
  <1> USE DEF jobVars, busVars, webVars, oddVars
  <1>1. ASSUME NEW s \in Statuses, Publish(id, s)
        PROVE  /\ \E e \in Events : e.id # k /\ Send(e)
               /\ k \in missed => k \in missed'
               /\ k \in overrun => k \in overrun'
               /\ UNCHANGED <<said[k], linked>>
    <2> DEFINE e == [id |-> id, status |-> s]
    <2>1. e \in Events /\ e.id # k /\ Send(e)
      BY <1>1 DEF Events, Publish
    <2>2. said'[k] = said[k] /\ linked' = linked
      BY <1>1 DEF Publish, Send, TypeOK
    <2> HIDE DEF e, Events
    <2>3. missed \subseteq missed' /\ overrun \subseteq overrun'
      BY <2>1, SendEffect
    <2> QED BY <2>1, <2>2, <2>3
  <1>2. CASE InsertRow(id) \/ PostAdd(id) \/ PostAnswered(id) \/ PostFails(id)
    <2>1. /\ UNCHANGED <<reg[k], run[k], del[k], row[k], post[k], said[k], conn, alive, linked>>
          /\ UNCHANGED <<bus, missed, overrun, early, disputed>>
          /\ k \in disowned => k \in disowned'
      BY <1>2 DEF InsertRow, PostAdd, PostAnswered, PostFails, Step, TypeOK
    <2> QED BY <2>1, Bystander
  <1>3. CASE Pick(id) \/ Begin(id) \/ End(id) \/ Forget(id) \/ CancelLook(id) \/ CancelMark(id)
    <2>1. /\ UNCHANGED <<reg[k], run[k], del[k], row[k], post[k], said[k], conn, alive, linked>>
          /\ UNCHANGED <<bus, missed, overrun, early, disowned>>
          /\ k \in disputed => k \in disputed'
      BY <1>3 DEF Pick, Begin, End, Forget, CancelLook, CancelMark, Step, Update, TypeOK
    <2> QED BY <2>1, Bystander
  <1>4. CASE PostSay(id) \/ BeginSay(id) \/ EndSay(id) \/ CancelSay(id)
    <2>1. /\ UNCHANGED <<reg[k], run[k], del[k], row[k], post[k], conn, alive>>
          /\ UNCHANGED <<disputed, disowned>>
          /\ k \in early => k \in early'
      BY <1>4 DEF PostSay, BeginSay, EndSay, CancelSay, Step, TypeOK
    <2>2. PICK s \in Statuses : Publish(id, s)
      BY <1>4 DEF PostSay, BeginSay, EndSay, CancelSay, Statuses, Active, Terminal
    <2>3. /\ \E e \in Events : e.id # k /\ Send(e)
          /\ k \in missed => k \in missed'
          /\ k \in overrun => k \in overrun'
          /\ UNCHANGED <<said[k], linked>>
      BY <1>1, <2>2
    <2> HIDE DEF Events
    <2> QED BY <2>1, <2>3, Bystander
  <1> QED BY <1>2, <1>3, <1>4 DEF RunStep, CancelStep

LEMMA OwnStep ==
  ASSUME TypeOK, LinkInv, Next, NEW k \in Ids, Own(k)
  PROVE  Own(k)'
  <1>1. ASSUME NEW id \in Ids,
               \/ InsertRow(id) \/ PostAdd(id) \/ PostAnswered(id) \/ PostFails(id)
               \/ RunStep(id) \/ End(id) \/ Forget(id) \/ CancelLook(id) \/ CancelStep(id)
        PROVE  Own(k)'
    <2>1. CASE id # k
      BY <1>1, <2>1, OtherJob
    <2>2. CASE id = k
      BY <1>1, <2>2, RequestStep, QuietStep, SpeakingStep DEF RunStep, CancelStep
    <2> QED BY <2>1, <2>2
  <1>2. CASE Chatter
    <2> DEFINE e == [id |-> Other, status |-> "running"]
    <2>1. e \in Events /\ e.id # k /\ Send(e)
      BY <1>2, SyncAssumption DEF Chatter, Events, Statuses, Active
    <2>2. /\ UNCHANGED <<reg[k], run[k], del[k], row[k], post[k], said[k], conn, alive>>
          /\ UNCHANGED <<early, disputed, disowned>>
      BY <1>2 DEF Chatter, jobVars, webVars, oddVars
    <2> HIDE DEF e, Events
    <2>3. missed \subseteq missed' /\ overrun \subseteq overrun' /\ linked' = linked
      BY <2>1, SendEffect
    <2> QED BY <2>1, <2>2, <2>3, Bystander
  <1>3. CASE Consume
    BY <1>3, ConnectStep, ListStep, ReconcileStep, ApplyStep, DisconnectStep DEF Consume
  <1>4. CASE StreamBreaks \/ WebRestarts \/ DownloaderRestarts
    BY <1>4, UnlinkStep, DownStep
  <1> QED BY <1>1, <1>2, <1>3, <1>4 DEF Next

LEMMA InvInit == Init => Inv
  <1> SUFFICES ASSUME Init PROVE Inv
    OBVIOUS
  <1>1. TypeOK
    BY TypeInit
  <1>2. LinkInv
    BY DEF Init, LinkInv
  <1>3. ASSUME NEW k \in Ids PROVE Own(k)
    <2>1. bus = <<>>
      BY DEF Init
    <2>2. Silent(bus, k) /\ Ends(bus, k) /\ Incomplete(bus, k) /\ \A S : LastIn(bus, k, S)
      BY <2>1, Emptied
    <2> QED BY <2>2 DEF Init, Own, Begun, Said, Told, Mirror, Final, Active
  <1> QED BY <1>1, <1>2, <1>3 DEF Inv

LEMMA InvStep == Inv /\ [Next]_vars => Inv'
  <1> SUFFICES ASSUME Inv, [Next]_vars PROVE Inv'
    OBVIOUS
  <1>1. TypeOK'
    BY TypeStep DEF Inv
  <1>2. CASE Next
    BY <1>1, <1>2, LinkStep, OwnStep DEF Inv
  <1>3. CASE UNCHANGED vars
    <2> USE <1>3 DEF vars, jobVars, busVars, webVars, oddVars
    <2>1. LinkInv'
      BY DEF Inv, LinkInv
    <2>2. ASSUME NEW k \in Ids PROVE Own(k)'
      BY Bystander DEF Inv
    <2> QED BY <1>1, <2>1, <2>2 DEF Inv
  <1> QED BY <1>2, <1>3

LEMMA InvAlways == Spec => []Inv
  BY InvInit, InvStep, PTL DEF Spec

\* Every variable keeps its type: in particular the channel never holds more
\* than its capacity, since publish drops the oldest event.
THEOREM TypeCorrect == Spec => []TypeOK
  <1>1. Inv => TypeOK
    BY DEF Inv
  <1> QED BY <1>1, InvAlways, PTL

\* A row shows the last status published once its events are applied, through
\* every reconciliation, broken stream and restart, but for the jobs that lost
\* an event, had two in the wrong order, or were given up too soon.
THEOREM MirrorCorrect == Spec => []RowsMirror
  <1>1. Inv => RowsMirror
    BY SilentOf DEF Inv, Own, Mirror, RowsMirror
  <1> QED BY <1>1, InvAlways, PTL

\* No row stays queued or running with nothing under way for it: the last
\* event, or the reconciliation of the reconnect, ends it.
THEOREM NoStaleCorrect == Spec => []NoStaleRow
  <1>1. ASSUME Inv PROVE NoStaleRow
    <2> SUFFICES ASSUME NEW id \in Ids \ (overrun \cup early), Following, row[id] \in Active,
                        post[id] # "sending", run[id] \in {"none", "over"}, del[id] = "none",
                        Of(id) = {}
                 PROVE  FALSE
      BY DEF NoStaleRow
    <2>1. Silent(bus, id)
      BY <1>1, SilentOf DEF Inv
    <2> QED BY <1>1, <2>1 DEF Inv, Own, Told, Done, Following
  <1> QED BY <1>1, InvAlways, PTL

\* A completed row stays completed: after its completion the downloader says
\* nothing more of a job, and the reconciliation leaves the row alone, unless
\* a DELETE found the job in the queue or its POST was given up.
THEOREM CompletionCorrect == Spec => CompletedIsFinal
  <1>1. ASSUME Inv, Next, NEW id \in Ids, row[id] = "completed"
        PROVE  row'[id] = "completed" \/ id \in disputed \/ id \in disowned'
    <2> SUFFICES ASSUME id \notin disputed, id \notin disowned'
                 PROVE  row'[id] = "completed"
      OBVIOUS
    <2>1. Begun(id) /\ run[id] = "over" /\ Silent(bus, id)
      BY <1>1 DEF Inv, Own, Final
    <2>2. CASE UNCHANGED row[id]
      BY <1>1, <2>2
    <2>3. ASSUME NEW k \in Ids, InsertRow(k) \/ PostFails(k) PROVE row'[id] = row[id]
      <3>1. k # id
        BY <1>1, <2>1, <2>3 DEF Begun, InsertRow, PostFails
      <3> QED BY <1>1, <2>3, <3>1 DEF Inv, TypeOK, InsertRow, PostFails
    <2>4. CASE Reconcile
      BY <1>1, <2>4 DEF Reconcile, Active
    <2>5. CASE ApplyEvent
      <3>1. bus \in Seq(Events) /\ bus # <<>>
        BY <1>1, <2>5 DEF Inv, TypeOK, Events, ApplyEvent
      <3>2. Head(bus).id # id
        BY <2>1, <3>1, Shift
      <3> QED BY <1>1, <2>5, <3>2 DEF ApplyEvent
    <2> QED BY <1>1, <2>2, <2>3, <2>4, <2>5
         DEF Next, Consume, RunStep, CancelStep, PostAdd, PostSay, Pick, Begin, BeginSay, End,
             EndSay, Forget, CancelLook, CancelMark, CancelSay, PostAnswered, Chatter, Connect,
             List, Disconnected, StreamBreaks, WebRestarts, DownloaderRestarts, webVars
  <1>2. Inv /\ [Next]_vars =>
          [\A id \in Ids : row[id] = "completed" =>
             row'[id] = "completed" \/ id \in disputed \/ id \in disowned']_vars
    BY <1>1
  <1> QED BY <1>2, InvAlways, PTL DEF Spec, CompletedIsFinal
=============================================================================
