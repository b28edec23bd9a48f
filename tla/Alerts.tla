-------------------------------- MODULE Alerts --------------------------------
(***************************************************************************)
(* alerts/service.py and alerts/channel.py, for the alert a gateway fires  *)
(* when it starts after an outage (gateway/resilience.py): the event log's *)
(* processes, with the start of a gateway carried on past its gap marker.  *)
(*                                                                         *)
(* fire_alert commits the row, hands the alert to each channel in turn,    *)
(* and commits what came of it.  The gateway serves nothing meanwhile, but *)
(* it may die between any two of these, and other processes keep writing.  *)
(***************************************************************************)
EXTENDS EventLog, FiniteSets

CONSTANT NChannels  \* channels configured: CompositeAlertChannel's list

ASSUME ChannelAssumption == NChannels \in Nat \ {0}

VARIABLES
  firing,   \* where each starting gateway is in fire_alert
  alerts,   \* alerts rows: the gap marker each is about and `delivered`, with
            \* the history `confirmed`: some receiver acknowledged it
  markers,  \* history: the gap markers written
  cut       \* history: markers whose gateway died before fire_alert ended

alertVars == <<vars, firing, alerts, markers, cut>>

NotFiring == [stage |-> "none"]

AlertInit ==
  /\ Init
  /\ firing = [g \in Gateways |-> NotFiring]
  /\ alerts = {} /\ markers = {} /\ cut = {}

\* Mutant: only the marker is written.
GapMarkedOnly(g) ==
  /\ GapWrite(g)
  /\ markers' = markers \cup {appended + 1}
  /\ UNCHANGED <<firing, alerts, cut>>

\* The marker is committed; fire_alert is called next.
GapMarked(g) ==
  /\ GapWrite(g)
  /\ firing' = [firing EXCEPT ![g] =
       [stage |-> "persist", marker |-> appended + 1, next |-> 1, ok |-> FALSE]]
  /\ markers' = markers \cup {appended + 1}
  /\ UNCHANGED <<alerts, cut>>

\* INSERT with delivered = 0, and commit.
AlertPersist(g) ==
  /\ firing[g].stage = "persist" /\ lock = NoProc
  /\ alerts' = alerts \cup
       {[marker |-> firing[g].marker, delivered |-> FALSE, confirmed |-> FALSE]}
  /\ firing' = [firing EXCEPT ![g].stage = "send"]
  /\ UNCHANGED <<vars, markers, cut>>

AlertRow(g) == CHOOSE a \in alerts : a.marker = firing[g].marker
Update(g, row) == alerts' = (alerts \ {AlertRow(g)}) \cup {row}

\* Mutant: the last channel's answer decides.
NextChannelLast(g, answer) ==
  firing' = [firing EXCEPT ![g].next = @ + 1, ![g].ok = answer,
               ![g].stage = IF firing[g].next = NChannels THEN "mark" ELSE "send"]

\* results.append(...), then the next channel or any(results).
NextChannel(g, answer) ==
  firing' = [firing EXCEPT ![g].next = @ + 1, ![g].ok = @ \/ answer,
               ![g].stage = IF firing[g].next = NChannels THEN "mark" ELSE "send"]

\* channel.send returned True.
SendDelivered(g) ==
  /\ firing[g].stage = "send"
  /\ Update(g, [AlertRow(g) EXCEPT !.confirmed = TRUE])
  /\ NextChannel(g, TRUE)
  /\ UNCHANGED <<vars, markers, cut>>

\* It returned False or raised: the receiver was unreachable or refused, or it
\* has the alert and its answer was lost or late.
SendFailed(g) ==
  /\ firing[g].stage = "send"
  /\ NextChannel(g, FALSE)
  /\ UNCHANGED <<vars, alerts, markers, cut>>

\* UPDATE alerts SET delivered, and commit; the gateway goes on to serve.
AlertMark(g) ==
  /\ firing[g].stage = "mark" /\ lock = NoProc
  /\ Update(g, [AlertRow(g) EXCEPT !.delivered = firing[g].ok])
  /\ firing' = [firing EXCEPT ![g] = NotFiring]
  /\ UNCHANGED <<vars, markers, cut>>

\* A gateway dies, inside fire_alert or not.
AlertCrash(p) ==
  /\ Crash(p)
  /\ LET dead == {p} \cap {g \in Gateways : firing[g] # NotFiring} IN
       /\ firing' = [g \in Gateways |-> IF g \in dead THEN NotFiring ELSE firing[g]]
       /\ cut' = cut \cup {firing[g].marker : g \in dead}
  /\ UNCHANGED <<alerts, markers>>

Serving(p) == p \in Gateways => firing[p] = NotFiring

\* The event log's other steps; a gateway inside fire_alert takes none.
LogStep ==
  \/ ClockStep
  \/ \E p \in Appenders : Serving(p) /\ (BeginImmediate(p) \/ LogEvent(p))
  \/ \E g \in Gateways : GapCheck(g) \/ GapReadTip(g)
  \/ \E p \in Pruners : PruneScan(p) \/ PruneApply(p)

AlertNext ==
  \/ LogStep /\ UNCHANGED <<firing, alerts, markers, cut>>
  \/ \E g \in Gateways :
       \/ GapMarked(g) \/ AlertPersist(g) \/ AlertMark(g)
       \/ SendDelivered(g) \/ SendFailed(g)
  \/ \E p \in Procs : AlertCrash(p)

AlertSpec == AlertInit /\ [][AlertNext /\ Disciplined]_alertVars

\* Without QuietStartup.
AlertSpecLoudStartup == AlertInit /\ [][AlertNext /\ MonotoneClock /\ SerialPrune]_alertVars

-------------------------------------------------------------------------------
(* Properties.                                                              *)

Fired(m) == \E g \in Gateways : firing[g] # NotFiring /\ firing[g].marker = m
RowOf(m) == {a \in alerts : a.marker = m}

\* Every outage that was written down is alerted on, with exactly one row
\* (resilience.py:89-114, service.py:63-70): the row is missing only while
\* the gateway is on its way to write it, or because it died inside
\* fire_alert.  (`cut` holds every death there; a row once committed stays, so
\* only a death before the row's commit can leave a marker without one.)  The
\* next start will not make up for that: the marker is then the newest event.
GapsAreAlerted ==
  \A m \in markers :
    /\ Cardinality(RowOf(m)) <= 1
    /\ RowOf(m) = {} => m \in cut \/ Fired(m)

\* "`delivered` records what actually happened, not what was attempted"
\* (service.py:7-10), as far as the gateway can know: once fire_alert is
\* through, delivered is set exactly when some receiver confirmed the alert,
\* whichever channel that was.  Only a death in between leaves a confirmed
\* alert marked undelivered; none is ever marked delivered that nobody
\* confirmed.
DeliveryIsHonest ==
  \A a \in alerts :
    /\ a.delivered => a.confirmed
    /\ a.confirmed /\ ~a.delivered => a.marker \in cut \/ Fired(a.marker)
===============================================================================
