----------------------------- MODULE AlertsProofs -----------------------------
(***************************************************************************)
(* Proofs about Alerts, for any number of processes and of channels.       *)
(*                                                                         *)
(* What a gateway inside fire_alert holds in memory has to agree with the  *)
(* row it will update, across other gateways' alerts and its own death:    *)
(* StageInv says what the row is at each stage, and OneGateway that no two *)
(* gateways work on the same row.  None of it depends on how the clock,    *)
(* the prunes or other processes' appends are timed, so the theorems hold  *)
(* of FreeSpec, which asks no discipline of the deployment.                *)
(***************************************************************************)
EXTENDS Alerts, EventLogProofs, FiniteSetTheorems

FreeSpec == AlertInit /\ [][AlertNext]_alertVars

AlertRows == [marker : Nat, delivered : BOOLEAN, confirmed : BOOLEAN]
Firings == [stage : {"persist", "send", "mark"}, marker : Nat, next : Nat, ok : BOOLEAN]

ShapeInv ==
  /\ appended \in Nat /\ pc \in [Procs -> Stages]
  /\ markers \subseteq 1..appended
  /\ alerts \subseteq AlertRows
  /\ firing \in [Gateways -> {NotFiring} \cup Firings]

\* A row is about a marker, and a marker has one row at most.
OneRow ==
  /\ \A a \in alerts : a.marker \in markers
  /\ \A a, b \in alerts : a.marker = b.marker => a = b

\* A gateway that fires is past its start, and its marker is its own.
OneGateway ==
  /\ \A g \in Gateways : firing[g] # NotFiring => pc[g] = "idle" /\ firing[g].marker \in markers
  /\ \A g, h \in Gateways : firing[g] # NotFiring /\ firing[h] # NotFiring
       /\ firing[g].marker = firing[h].marker => g = h

\* What the table has of an alert, by how far its gateway is.
StageInv ==
  \A g \in Gateways :
    /\ firing[g].stage = "persist" =>
         firing[g].ok = FALSE /\ \A a \in alerts : a.marker # firing[g].marker
    /\ firing[g].stage \in {"send", "mark"} =>
         \E a \in alerts : /\ a.marker = firing[g].marker
                           /\ a.delivered = FALSE /\ a.confirmed = firing[g].ok

MarkerInv ==
  \A m \in markers : (\E a \in alerts : a.marker = m) \/ m \in cut \/ Fired(m)

AlertInv == ShapeInv /\ OneRow /\ OneGateway /\ StageInv /\ MarkerInv /\ DeliveryIsHonest

-------------------------------------------------------------------------------
LEMMA FiringShapes ==
  ASSUME ShapeInv, NEW g \in Gateways
  PROVE  /\ firing[g] # NotFiring => firing[g] \in Firings
         /\ firing[g].stage \in {"persist", "send", "mark"} => firing[g] # NotFiring
BY DEF ShapeInv, NotFiring, Firings

\* Only the log moves, and no gateway inside fire_alert with it.
LEMMA LogOnly ==
  ASSUME AlertInv, UNCHANGED <<firing, alerts, markers, cut>>,
         appended' \in Nat, appended <= appended', pc' \in [Procs -> Stages],
         \A g \in Gateways : firing[g] # NotFiring => pc'[g] = "idle"
  PROVE  AlertInv'
<1>1. ShapeInv'
  BY DEF AlertInv, ShapeInv
<1>2. (OneRow /\ OneGateway)'
  BY DEF AlertInv, OneRow, OneGateway
<1>3. StageInv'
  BY DEF AlertInv, StageInv
<1>4. MarkerInv' /\ DeliveryIsHonest'
  BY DEF AlertInv, MarkerInv, DeliveryIsHonest, Fired
<1> QED BY <1>1, <1>2, <1>3, <1>4 DEF AlertInv

LEMMA GotoFacts ==
  ASSUME ShapeInv, NEW p \in Procs, NEW st \in Stages, Goto(p, st)
  PROVE  /\ pc' \in [Procs -> Stages] /\ pc'[p] = st
         /\ \A q \in Procs : q # p => pc'[q] = pc[q]
BY DEF ShapeInv, Goto

LEMMA LogStepKeeps ==
  ASSUME AlertInv, LogStep, UNCHANGED <<firing, alerts, markers, cut>>
  PROVE  AlertInv'
<1> USE DEF Procs, Appenders, Stages
<1>0. /\ appended \in Nat /\ appended <= appended /\ appended + 1 \in Nat
      /\ appended <= appended + 1 /\ pc \in [Procs -> Stages]
      /\ \A g \in Gateways : firing[g] # NotFiring => pc[g] = "idle"
  BY DEF AlertInv, ShapeInv, OneGateway
<1>1. ASSUME ClockStep PROVE AlertInv'
  BY <1>0, <1>1, LogOnly DEF ClockStep
<1>2. ASSUME NEW p \in Procs, p \in Gateways => firing[p] = NotFiring, NEW st \in Stages,
             Goto(p, st), appended' = appended \/ appended' = appended + 1
      PROVE  AlertInv'
  <2>1. pc' \in [Procs -> Stages] /\ \A q \in Procs : q # p => pc'[q] = pc[q]
    BY <1>2, GotoFacts DEF AlertInv
  <2> QED BY <1>0, <1>2, <2>1, LogOnly
<1>3. ASSUME NEW p \in Appenders, Serving(p), BeginImmediate(p) \/ LogEvent(p) PROVE AlertInv'
  BY <1>2, <1>3 DEF Serving, BeginImmediate, LogEvent, InsertRow
<1>4. ASSUME NEW g \in Gateways, GapCheck(g) \/ GapReadTip(g) PROVE AlertInv'
  BY <1>0, <1>2, <1>4 DEF GapCheck, GapReadTip
<1>5. ASSUME NEW p \in Pruners, PruneScan(p) \/ PruneApply(p) PROVE AlertInv'
  BY <1>2, <1>5, ProcAssumption DEF PruneScan, PruneApply
<1> QED BY <1>1, <1>3, <1>4, <1>5 DEF LogStep

\* The marker is new, and its gateway starts to fire.
LEMMA GapMarkedKeeps ==
  ASSUME AlertInv, NEW g \in Gateways, GapMarked(g)
  PROVE  AlertInv'
<1> DEFINE m == appended + 1
           new == [stage |-> "persist", marker |-> m, next |-> 1, ok |-> FALSE]
<1>1. /\ appended \in Nat /\ m \in Nat /\ m \notin markers /\ m >= 1 /\ appended' = m
      /\ markers' = markers \cup {m} /\ markers' \subseteq 1..appended'
  BY DEF AlertInv, ShapeInv, GapMarked, GapWrite, InsertRow
<1>2. /\ new \in Firings /\ new # NotFiring /\ new.stage = "persist" /\ new.marker = m
      /\ new.ok = FALSE
  BY <1>1 DEF Firings, NotFiring
<1>3. firing'[g] = new /\ \A h \in Gateways : h # g => firing'[h] = firing[h]
  BY DEF GapMarked, AlertInv, ShapeInv
<1>4. pc' \in [Procs -> Stages] /\ pc'[g] = "idle" /\ \A q \in Procs : q # g => pc'[q] = pc[q]
  BY GotoFacts DEF GapMarked, GapWrite, InsertRow, AlertInv, Procs, Appenders, Stages
<1>5. firing[g] = NotFiring /\ alerts' = alerts /\ cut' = cut
  BY DEF AlertInv, OneGateway, GapMarked, GapWrite
<1>6. ShapeInv'
  BY <1>1, <1>2, <1>4, <1>5 DEF GapMarked, AlertInv, ShapeInv
<1> HIDE DEF new, m
<1>7. OneRow'
  BY <1>1, <1>5 DEF AlertInv, OneRow
<1>8. OneGateway'
  BY <1>1, <1>2, <1>3, <1>4 DEF AlertInv, OneGateway, Procs, Appenders
<1>9. StageInv'
  <2>1. \A a \in alerts : a.marker # m
    BY <1>1 DEF AlertInv, OneRow
  <2>2. \A h \in Gateways : h # g => StageInv!(h)'
    BY <1>3, <1>5 DEF AlertInv, StageInv
  <2>3. StageInv!(g)'
    BY <1>2, <1>3, <1>5, <2>1
  <2> QED BY <2>2, <2>3 DEF StageInv
<1>10. \A x : Fired(x) => Fired(x)'
  BY <1>3, <1>5 DEF Fired
<1>11. \A x : x = m => Fired(x)'
  BY <1>2, <1>3 DEF Fired
<1>12. MarkerInv'
  BY <1>1, <1>5, <1>10, <1>11 DEF AlertInv, MarkerInv
<1>13. DeliveryIsHonest'
  BY <1>5, <1>10 DEF AlertInv, DeliveryIsHonest
<1> QED BY <1>6, <1>7, <1>8, <1>9, <1>12, <1>13 DEF AlertInv

\* The row is there from now on.
LEMMA PersistKeeps ==
  ASSUME AlertInv, NEW g \in Gateways, AlertPersist(g)
  PROVE  AlertInv'
<1> DEFINE m == firing[g].marker
           row == [marker |-> m, delivered |-> FALSE, confirmed |-> FALSE]
           new == [firing[g] EXCEPT !.stage = "send"]
<1>1. firing[g] \in Firings /\ firing[g] # NotFiring /\ firing[g].stage = "persist"
  BY FiringShapes DEF AlertPersist, AlertInv
<1>2. /\ row \in AlertRows /\ row.marker = m /\ row.delivered = FALSE /\ row.confirmed = FALSE
      /\ alerts' = alerts \cup {row}
  BY <1>1 DEF AlertPersist, Firings, AlertRows
<1>3. new \in Firings /\ new # NotFiring /\ new.stage = "send" /\ new.marker = m
  BY <1>1 DEF Firings, NotFiring
<1>4. new.ok = FALSE
  <2>1. firing[g].ok = FALSE
    BY <1>1 DEF AlertInv, StageInv
  <2> QED BY <1>1, <2>1, Zenon DEF Firings
<1>5. firing'[g] = new /\ \A h \in Gateways : h # g => firing'[h] = firing[h]
  BY DEF AlertPersist, AlertInv, ShapeInv
<1>6. UNCHANGED <<pc, appended, markers, cut>>
  BY DEF AlertPersist, vars
<1>7. ShapeInv'
  BY <1>2, <1>3, <1>6 DEF AlertPersist, AlertInv, ShapeInv
<1>8. m \in markers /\ \A a \in alerts : a.marker # m
  BY <1>1 DEF AlertInv, OneGateway, StageInv
<1> HIDE DEF new, row
<1>9. OneRow'
  BY <1>2, <1>6, <1>8 DEF AlertInv, OneRow
<1>10. OneGateway'
  BY <1>1, <1>3, <1>5, <1>6 DEF AlertInv, OneGateway
<1>11. StageInv'
  <2>1. ASSUME NEW h \in Gateways, h # g PROVE StageInv!(h)'
    <3>1. firing[h].stage = "persist" => firing[h].marker # m
      BY <1>1, <2>1, FiringShapes DEF AlertInv, OneGateway
    <3>2. firing'[h] = firing[h] /\ StageInv!(h)
      BY <1>5, <2>1 DEF AlertInv, StageInv
    <3> QED BY <1>2, <3>1, <3>2
  <2>2. StageInv!(g)'
    BY <1>2, <1>3, <1>4, <1>5, Zenon
  <2> QED BY <2>1, <2>2 DEF StageInv
<1>12. \A x : Fired(x) => Fired(x)'
  BY <1>1, <1>3, <1>5 DEF Fired
<1>13. MarkerInv'
  BY <1>2, <1>6, <1>12 DEF AlertInv, MarkerInv
<1>14. DeliveryIsHonest'
  BY <1>2, <1>6, <1>12 DEF AlertInv, DeliveryIsHonest
<1> QED BY <1>7, <1>9, <1>10, <1>11, <1>13, <1>14 DEF AlertInv

\* The row a gateway works on.
LEMMA RowFacts ==
  ASSUME AlertInv, NEW g \in Gateways, firing[g].stage \in {"send", "mark"}
  PROVE  /\ AlertRow(g) \in alerts /\ AlertRow(g) \in AlertRows
         /\ AlertRow(g).marker = firing[g].marker
         /\ AlertRow(g).delivered = FALSE /\ AlertRow(g).confirmed = firing[g].ok
         /\ \A a \in alerts : a.marker = firing[g].marker => a = AlertRow(g)
<1>1. PICK a \in alerts : /\ a.marker = firing[g].marker
                          /\ a.delivered = FALSE /\ a.confirmed = firing[g].ok
  BY DEF AlertInv, StageInv
<1>2. AlertRow(g) \in alerts /\ AlertRow(g).marker = firing[g].marker
  BY <1>1 DEF AlertRow
<1>3. AlertRow(g) = a /\ \A b \in alerts : b.marker = firing[g].marker => b = AlertRow(g)
  BY <1>1, <1>2 DEF AlertInv, OneRow
<1>4. AlertRow(g).delivered = FALSE /\ AlertRow(g).confirmed = firing[g].ok
  BY <1>1, <1>3, Zenon
<1> QED BY <1>2, <1>3, <1>4 DEF AlertInv, ShapeInv

\* A channel answered, with or without a row update.
LEMMA NextChannelFacts ==
  ASSUME AlertInv, NEW g \in Gateways, firing[g].stage = "send", NEW answer \in BOOLEAN,
         NextChannel(g, answer)
  PROVE  /\ firing' \in [Gateways -> {NotFiring} \cup Firings]
         /\ firing'[g] \in Firings /\ firing'[g] # NotFiring
         /\ firing'[g].stage \in {"send", "mark"} /\ firing'[g].marker = firing[g].marker
         /\ firing'[g].ok = (firing[g].ok \/ answer)
         /\ \A h \in Gateways : h # g => firing'[h] = firing[h]
<1> DEFINE st == IF firing[g].next = NChannels THEN "mark" ELSE "send"
           up == firing[g].ok \/ answer
           new == [firing[g] EXCEPT !.next = firing[g].next + 1, !.ok = up, !.stage = st]
<1>1. firing[g] \in Firings
  BY FiringShapes DEF AlertInv
<1>2. firing'[g] = new /\ \A h \in Gateways : h # g => firing'[h] = firing[h]
  BY DEF NextChannel, AlertInv, ShapeInv
<1>3. st \in {"send", "mark"} /\ up \in BOOLEAN /\ firing[g].next + 1 \in Nat
  BY <1>1 DEF Firings
<1> HIDE DEF st, up
<1>4. new \in Firings
  BY <1>1, <1>3 DEF Firings
<1>5. new.stage = st /\ new.marker = firing[g].marker
  BY <1>1 DEF Firings
<1>6. new.ok = up
  BY <1>1, Zenon DEF Firings
<1>7. new # NotFiring
  BY <1>3, <1>5 DEF NotFiring
<1>8. firing' = [firing EXCEPT ![g] = new]
  BY <1>2 DEF NextChannel, AlertInv, ShapeInv
<1> HIDE DEF new
<1>9. firing' \in [Gateways -> {NotFiring} \cup Firings]
  BY <1>4, <1>8 DEF AlertInv, ShapeInv
<1>10. firing'[g].ok = up
  BY <1>2, <1>6, Zenon
<1> QED BY <1>2, <1>3, <1>4, <1>5, <1>7, <1>9, <1>10 DEF up

\* One gateway's row and stage move; whatever else there is stays.
LEMMA OneFires ==
  ASSUME AlertInv, NEW g \in Gateways, firing[g].stage \in {"send", "mark"},
         NEW row \in AlertRows, row.marker = firing[g].marker, Update(g, row),
         firing' \in [Gateways -> {NotFiring} \cup Firings],
         \A h \in Gateways : h # g => firing'[h] = firing[h],
         firing'[g] # NotFiring => firing'[g].marker = firing[g].marker,
         StageInv!(g)',
         row.delivered => row.confirmed,
         row.confirmed /\ ~row.delivered => firing'[g] # NotFiring,
         UNCHANGED <<vars, markers, cut>>
  PROVE  AlertInv'
<1> DEFINE m == firing[g].marker
           old == AlertRow(g)
<1>1. /\ old \in alerts /\ old.marker = m /\ \A a \in alerts : a.marker = m => a = old
      /\ alerts' = (alerts \ {old}) \cup {row}
  BY RowFacts DEF Update
<1>2. firing[g] # NotFiring /\ UNCHANGED <<pc, appended>>
  BY FiringShapes DEF AlertInv, vars
<1> HIDE DEF old
<1>3. ShapeInv'
  BY <1>1, <1>2 DEF AlertInv, ShapeInv
<1>4. OneRow'
  BY <1>1 DEF AlertInv, OneRow
<1>5. OneGateway'
  BY <1>2 DEF AlertInv, OneGateway
<1>6. StageInv'
  <2>1. ASSUME NEW h \in Gateways, h # g PROVE StageInv!(h)'
    <3>1. firing[h].stage \in {"persist", "send", "mark"} => firing[h].marker # m
      BY <1>2, <2>1, FiringShapes DEF AlertInv, OneGateway
    <3>2. firing'[h] = firing[h] /\ StageInv!(h)
      BY <2>1 DEF AlertInv, StageInv
    <3>3. \A a : a.marker # m => (a \in alerts' <=> a \in alerts)
      BY <1>1
    <3>4. \A a \in alerts' : a \in alerts \/ a.marker = m
      BY <1>1
    <3>5. firing[h].stage = "persist" =>
            firing[h].ok = FALSE /\ \A a \in alerts' : a.marker # firing[h].marker
      BY <3>1, <3>2, <3>4
    <3>6. firing[h].stage \in {"send", "mark"} =>
            \E a \in alerts' : /\ a.marker = firing[h].marker
                               /\ a.delivered = FALSE /\ a.confirmed = firing[h].ok
      BY <3>1, <3>2, <3>3
    <3> QED BY <3>2, <3>5, <3>6
  <2> QED BY <2>1 DEF StageInv
<1>7. \A x : Fired(x) => Fired(x)' \/ x = m
  BY DEF Fired
<1>8. MarkerInv'
  BY <1>1, <1>7 DEF AlertInv, MarkerInv
<1>9. DeliveryIsHonest'
  <2>1. ASSUME NEW a \in alerts'
        PROVE  /\ a.delivered => a.confirmed
               /\ a.confirmed /\ ~a.delivered => a.marker \in cut \/ Fired(a.marker)'
    <3>1. CASE a = row
      <4>1. firing'[g] # NotFiring => Fired(row.marker)'
        BY DEF Fired
      <4> QED BY <3>1, <4>1
    <3>2. CASE a \in alerts /\ a # old
      <4>1. a.marker # m
        BY <1>1, <3>2
      <4>2. /\ a.delivered => a.confirmed
            /\ a.confirmed /\ ~a.delivered => a.marker \in cut \/ Fired(a.marker)
        BY <3>2 DEF AlertInv, DeliveryIsHonest
      <4> QED BY <1>7, <4>1, <4>2
    <3> QED BY <1>1, <3>1, <3>2
  <2> QED BY <2>1 DEF DeliveryIsHonest
<1> QED BY <1>3, <1>4, <1>5, <1>6, <1>8, <1>9 DEF AlertInv

LEMMA SendDeliveredKeeps ==
  ASSUME AlertInv, NEW g \in Gateways, SendDelivered(g)
  PROVE  AlertInv'
<1> DEFINE old == AlertRow(g)
           row == [old EXCEPT !.confirmed = TRUE]
<1>1. firing[g].stage = "send" /\ Update(g, row) /\ UNCHANGED <<vars, markers, cut>>
  BY DEF SendDelivered
<1>2. /\ old \in alerts /\ old \in AlertRows /\ old.marker = firing[g].marker
      /\ old.delivered = FALSE
  BY <1>1, RowFacts
<1>3. row \in AlertRows /\ row.marker = firing[g].marker
  BY <1>2 DEF AlertRows
<1>4. row.confirmed = TRUE /\ row.delivered = FALSE
  BY <1>2, Zenon DEF AlertRows
<1>5. TRUE \in BOOLEAN /\ NextChannel(g, TRUE)
  BY DEF SendDelivered
<1>6. /\ firing' \in [Gateways -> {NotFiring} \cup Firings] /\ firing'[g] # NotFiring
      /\ firing'[g].stage \in {"send", "mark"} /\ firing'[g].marker = firing[g].marker
      /\ firing'[g].ok = TRUE
      /\ \A h \in Gateways : h # g => firing'[h] = firing[h]
  BY <1>1, <1>5, NextChannelFacts
<1>7. row \in alerts'
  BY <1>1 DEF Update
<1> HIDE DEF row, old
<1>8. StageInv!(g)'
  <2>1. row.confirmed = firing'[g].ok
    BY <1>4, <1>6, Zenon
  <2> QED BY <1>3, <1>4, <1>6, <1>7, <2>1
<1> QED BY <1>1, <1>3, <1>4, <1>6, <1>8, OneFires

LEMMA SendFailedKeeps ==
  ASSUME AlertInv, NEW g \in Gateways, SendFailed(g)
  PROVE  AlertInv'
<1> DEFINE old == AlertRow(g)
<1>1. firing[g].stage = "send" /\ UNCHANGED <<vars, alerts, markers, cut>>
  BY DEF SendFailed
<1>2. /\ old \in alerts /\ old \in AlertRows /\ old.marker = firing[g].marker
      /\ old.delivered = FALSE /\ old.confirmed = firing[g].ok
  BY <1>1, RowFacts
<1>3. Update(g, old)
  BY <1>1, <1>2 DEF Update
<1>4. FALSE \in BOOLEAN /\ NextChannel(g, FALSE)
  BY DEF SendFailed
<1>5. /\ firing' \in [Gateways -> {NotFiring} \cup Firings] /\ firing'[g] # NotFiring
      /\ firing'[g].stage \in {"send", "mark"} /\ firing'[g].marker = firing[g].marker
      /\ firing'[g].ok = (firing[g].ok \/ FALSE)
      /\ \A h \in Gateways : h # g => firing'[h] = firing[h]
  BY <1>1, <1>4, NextChannelFacts
<1>6. firing'[g].ok = firing[g].ok
  <2>1. firing[g].ok \in BOOLEAN
    BY <1>1, FiringShapes DEF AlertInv, Firings
  <2> QED BY <1>5, <2>1
<1> HIDE DEF old
<1>7. StageInv!(g)'
  <2>1. old.confirmed = firing'[g].ok
    BY <1>2, <1>6, Zenon
  <2> QED BY <1>1, <1>2, <1>5, <2>1
<1> QED BY <1>1, <1>2, <1>3, <1>5, <1>7, OneFires

LEMMA AlertMarkKeeps ==
  ASSUME AlertInv, NEW g \in Gateways, AlertMark(g)
  PROVE  AlertInv'
<1> DEFINE old == AlertRow(g)
           row == [old EXCEPT !.delivered = firing[g].ok]
<1>1. firing[g].stage = "mark" /\ Update(g, row) /\ UNCHANGED <<vars, markers, cut>>
  BY DEF AlertMark
<1>2. /\ old \in alerts /\ old \in AlertRows /\ old.marker = firing[g].marker
      /\ old.confirmed = firing[g].ok
  BY <1>1, RowFacts
<1>3. firing[g].ok \in BOOLEAN
  BY <1>1, FiringShapes DEF AlertInv, Firings
<1>4. row \in AlertRows /\ row.marker = firing[g].marker
  BY <1>2, <1>3 DEF AlertRows
<1>5. row.delivered = firing[g].ok /\ row.confirmed = firing[g].ok
  BY <1>2, Zenon DEF AlertRows
<1>6. /\ firing' \in [Gateways -> {NotFiring} \cup Firings] /\ firing'[g] = NotFiring
      /\ \A h \in Gateways : h # g => firing'[h] = firing[h]
  BY DEF AlertMark, AlertInv, ShapeInv
<1> HIDE DEF row, old
<1>7. StageInv!(g)'
  BY <1>6 DEF NotFiring
<1>8. /\ row.delivered => row.confirmed
      /\ row.confirmed /\ ~row.delivered => firing'[g] # NotFiring
  BY <1>3, <1>5, Zenon
<1> QED BY <1>1, <1>4, <1>6, <1>7, <1>8, OneFires

\* The death of a gateway leaves its alert as it is, and marks it as cut.
LEMMA AlertCrashKeeps ==
  ASSUME AlertInv, NEW p \in Procs, AlertCrash(p)
  PROVE  AlertInv'
<1> DEFINE dead == {p} \cap {g \in Gateways : firing[g] # NotFiring}
<1>1. /\ firing' = [g \in Gateways |-> IF g \in dead THEN NotFiring ELSE firing[g]]
      /\ cut' = cut \cup {firing[g].marker : g \in dead}
      /\ UNCHANGED <<appended, alerts, markers>>
  BY DEF AlertCrash, Crash
<1>2. /\ \A g \in Gateways : g \in dead => firing'[g] = NotFiring /\ firing[g].marker \in cut'
      /\ \A g \in Gateways : g \notin dead =>
           firing'[g] = firing[g] /\ (firing[g] # NotFiring => g # p)
  BY <1>1
<1> HIDE DEF dead
<1>3. pc' \in [Procs -> Stages] /\ \A q \in Procs : q # p => pc'[q] = pc[q]
  <2>1. PICK st \in Stages : Goto(p, st)
    BY DEF AlertCrash, Crash, Stages
  <2> QED BY <2>1, GotoFacts DEF AlertInv
<1>4. ShapeInv'
  <2>1. firing' \in [Gateways -> {NotFiring} \cup Firings]
    BY <1>1 DEF AlertInv, ShapeInv
  <2> QED BY <1>1, <1>3, <2>1 DEF AlertInv, ShapeInv
<1>5. OneRow'
  BY <1>1 DEF AlertInv, OneRow
<1>6. OneGateway'
  <2>1. \A g \in Gateways : firing'[g] # NotFiring =>
          firing'[g] = firing[g] /\ firing[g] # NotFiring /\ g # p /\ g \in Procs
    BY <1>2 DEF Procs, Appenders
  <2> QED BY <1>1, <1>3, <2>1 DEF AlertInv, OneGateway
<1>7. StageInv'
  <2>1. \A g \in Gateways : firing'[g] = firing[g] \/ firing'[g] = NotFiring
    BY <1>2
  <2>2. ASSUME NEW g \in Gateways PROVE StageInv!(g)'
    <3>1. CASE firing'[g] = firing[g]
      BY <1>1, <3>1 DEF AlertInv, StageInv
    <3>2. CASE firing'[g] = NotFiring
      BY <3>2 DEF NotFiring
    <3> QED BY <2>1, <3>1, <3>2
  <2> QED BY <2>2 DEF StageInv
<1>8. \A x : Fired(x) => Fired(x)' \/ x \in cut'
  <2> SUFFICES ASSUME NEW x, NEW g \in Gateways, firing[g] # NotFiring, firing[g].marker = x
               PROVE  Fired(x)' \/ x \in cut'
    BY DEF Fired
  <2> QED BY <1>2 DEF Fired
<1>9. MarkerInv'
  BY <1>1, <1>8 DEF AlertInv, MarkerInv
<1>10. DeliveryIsHonest'
  BY <1>1, <1>8 DEF AlertInv, DeliveryIsHonest
<1> QED BY <1>4, <1>5, <1>6, <1>7, <1>9, <1>10 DEF AlertInv

LEMMA AlertStepKeeps == AlertInv /\ [AlertNext]_alertVars => AlertInv'
<1> SUFFICES ASSUME AlertInv, [AlertNext]_alertVars PROVE AlertInv'
  OBVIOUS
<1>1. CASE UNCHANGED alertVars
  <2>1. UNCHANGED <<pc, appended, firing, alerts, markers, cut>>
    BY <1>1 DEF alertVars, vars
  <2> QED BY <2>1, LogOnly DEF AlertInv, ShapeInv, OneGateway
<1> QED BY <1>1, LogStepKeeps, GapMarkedKeeps, PersistKeeps, SendDeliveredKeeps, SendFailedKeeps,
           AlertMarkKeeps, AlertCrashKeeps DEF AlertNext

LEMMA AlertInvariance == FreeSpec => []AlertInv
<1>1. AlertInit => AlertInv
  <2> SUFFICES ASSUME AlertInit PROVE AlertInv
    OBVIOUS
  <2>1. ShapeInv
    BY DEF AlertInit, Init, ShapeInv, Stages
  <2>2. OneRow /\ OneGateway /\ MarkerInv /\ DeliveryIsHonest
    BY DEF AlertInit, OneRow, OneGateway, MarkerInv, DeliveryIsHonest
  <2>3. StageInv
    BY DEF AlertInit, StageInv, NotFiring
  <2> QED BY <2>1, <2>2, <2>3 DEF AlertInv
<1> QED BY <1>1, AlertStepKeeps, PTL DEF FreeSpec

\* The deployments the runs check are among FreeSpec's behaviours.
LEMMA RunsAreFree == AlertSpec \/ AlertSpecLoudStartup => FreeSpec
<1>1. [AlertNext /\ Disciplined]_alertVars => [AlertNext]_alertVars
  OBVIOUS
<1>2. [AlertNext /\ MonotoneClock /\ SerialPrune]_alertVars => [AlertNext]_alertVars
  OBVIOUS
<1> QED BY <1>1, <1>2, PTL DEF AlertSpec, AlertSpecLoudStartup, FreeSpec

\* Every gap marker gets exactly one alert row, or its gateway died before it
\* wrote one (resilience.py:89-114, service.py:63-70): for any number of
\* gateways and channels, and whatever the clock, the prunes and other
\* processes' appends do.
THEOREM EveryGapAlerted == AlertSpec \/ AlertSpecLoudStartup \/ FreeSpec => []GapsAreAlerted
<1>1. AlertInv => GapsAreAlerted
  <2> SUFFICES ASSUME AlertInv, NEW m \in markers
               PROVE  Cardinality(RowOf(m)) <= 1 /\ (RowOf(m) = {} => m \in cut \/ Fired(m))
    BY DEF GapsAreAlerted
  <2>1. RowOf(m) = {} \/ \E a : RowOf(m) = {a}
    BY DEF AlertInv, OneRow, RowOf
  <2>2. Cardinality(RowOf(m)) \in {0, 1}
    BY <2>1, FS_EmptySet, FS_Singleton
  <2>3. Cardinality(RowOf(m)) <= 1
    BY <2>2
  <2>4. RowOf(m) = {} => m \in cut \/ Fired(m)
    BY DEF AlertInv, MarkerInv, RowOf
  <2> QED BY <2>3, <2>4
<1> QED BY <1>1, AlertInvariance, RunsAreFree, PTL

\* delivered is set exactly when a receiver confirmed the alert, except after
\* a death in between (service.py:7-10, channel.py:158-168): for any
\* number of channels and any order of their answers.
THEOREM HonestDelivery == AlertSpec \/ AlertSpecLoudStartup \/ FreeSpec => []DeliveryIsHonest
<1>1. AlertInv => DeliveryIsHonest
  BY DEF AlertInv
<1> QED BY <1>1, AlertInvariance, RunsAreFree, PTL

\* Firing alerts does not touch the event log: a gateway that alerts behaves
\* towards it as one that does not, so what EventLogProofs shows of
\* DisciplinedSpec holds with alerts too (resilience.py:89-114).
THEOREM AlertsKeepTheLog == AlertSpec => DisciplinedSpec
<1>1. AlertNext => [Next]_vars
  <2>1. LogStep => Next
    BY DEF LogStep, Next
  <2>2. \A g \in Gateways : GapMarked(g) => Next
    BY DEF GapMarked, Next
  <2>3. \A g \in Gateways :
          AlertPersist(g) \/ AlertMark(g) \/ SendDelivered(g) \/ SendFailed(g) => UNCHANGED vars
    BY DEF AlertPersist, AlertMark, SendDelivered, SendFailed
  <2>4. \A p \in Procs : AlertCrash(p) => Next
    BY DEF AlertCrash, Next
  <2> QED BY <2>1, <2>2, <2>3, <2>4 DEF AlertNext
<1>2. [AlertNext /\ Disciplined]_alertVars => [Next /\ Disciplined]_vars
  BY <1>1 DEF alertVars
<1>3. AlertInit => Init
  BY DEF AlertInit
<1> QED BY <1>2, <1>3, PTL DEF AlertSpec, DisciplinedSpec
===============================================================================
