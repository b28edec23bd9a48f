------------------------------ MODULE OtelIngest ------------------------------
(***************************************************************************)
(* gateway/otel_ingest.py: POST /v1/otel/events on a gateway that also     *)
(* answers tool calls.  Reports share with them the event loop, the        *)
(* credential registry, the agents table, the event log and the alerts.    *)
(*                                                                         *)
(* A report is a batch of items, each the tool it reports on or Malformed. *)
(* After `await request.json()` the handler never yields, so a report      *)
(* keeps the loop busy until its response; each commit is a step, because  *)
(* the process may die, or the database refuse a write, at any of them.    *)
(***************************************************************************)
EXTENDS Gateway, Sequences

CONSTANTS
  Reports,    \* the ingestion requests of a behaviour
  Malformed,  \* an item without a usable gen_ai.tool.name
  MaxItems    \* bound: items of one report

ASSUME OtelAssumption ==
  Reports \cap Calls = {} /\ NoCall \notin Reports /\ Malformed \notin Tools /\ MaxItems \in Nat

VARIABLE report

otelVars == <<allVars, report>>

Bodies == UNION {[1..n -> Tools \cup {Malformed}] : n \in 1..MaxItems}

OtelInit == GwInit /\ report = [r \in Reports |-> Fresh]

\* The status code, or the stage the handler goes on to, once the body is
\* parsed and the token resolved.
OtelFirstStage(g, k) ==
  CASE Identified(g, k)                                      -> "limit"
    [] ~Identified(g, k) /\ (k # NoToken \/ RequireToken)    -> "401"
    [] OTHER                                                 -> "discover"

InHandler == {"discover", "announce", "announce_alert", "limit", "items", "alerted"}

\* Mutant: items are checked one by one as they are logged.
OtelReceiveLazy(r, g, k, body, name) ==
  /\ report[r].stage = "new"
  /\ gw[g].mode = "up" /\ gw[g].busy = NoCall
  /\ LET stage == OtelFirstStage(g, k) IN
       /\ gw' = [gw EXCEPT ![g] = [Refreshed(g) EXCEPT
                                     !.busy = IF stage = "401" THEN NoCall ELSE r]]
       /\ report' = [report EXCEPT ![r] =
            [stage |-> stage, gw |-> g, name |-> name, body |-> body, next |-> 1,
             scope |-> IF Identified(g, k) THEN Refreshed(g).registry[k].scope ELSE Unscoped]]
  /\ UNCHANGED <<scope, discovered, log, alerts, call, ended>>

\* _translate_event runs over the whole batch before anything else happens:
\* one malformed item and the request is a 400 that did not even refresh the
\* registry.
OtelReceive(r, g, k, body, name) ==
  /\ report[r].stage = "new"
  /\ gw[g].mode = "up" /\ gw[g].busy = NoCall
  /\ LET bad == Malformed \in {body[i] : i \in DOMAIN body}
         stage == IF bad THEN "400" ELSE OtelFirstStage(g, k)
     IN  /\ gw' = IF bad THEN gw
                  ELSE [gw EXCEPT ![g] = [Refreshed(g) EXCEPT
                                            !.busy = IF stage = "401" THEN NoCall ELSE r]]
         /\ report' = [report EXCEPT ![r] =
              [stage |-> stage, gw |-> g, name |-> name, body |-> body, next |-> 1,
               scope |-> IF ~bad /\ Identified(g, k)
                           THEN Refreshed(g).registry[k].scope ELSE Unscoped]]
  /\ UNCHANGED <<scope, discovered, log, alerts, call, ended>>

OtelTurn(r, stage) ==
  /\ report[r].stage = stage
  /\ gw[report[r].gw].busy = r

OtelMove(r, stage) == report' = [report EXCEPT ![r].stage = stage]

\* log_otel_event: one event, committed.
OtelRecord(r, type, item) ==
  log' = log \cup {[call |-> r, name |-> report[r].name, type |-> type, item |-> item]}

OtelAlert(r, type, item) ==
  alerts' = alerts \cup {[call |-> r, type |-> type, item |-> item]}

\* Mutant: every tokenless report counts as a first sighting.
OtelDiscoverAlways(r) ==
  /\ OtelTurn(r, "discover")
  /\ discovered' = discovered \cup {report[r].name}
  /\ OtelMove(r, "announce")
  /\ UNCHANGED <<scope, gw, log, alerts, call, ended>>

OtelDiscover(r) ==
  /\ OtelTurn(r, "discover")
  /\ discovered' = discovered \cup {report[r].name}
  /\ OtelMove(r, IF report[r].name \in discovered THEN "limit" ELSE "announce")
  /\ UNCHANGED <<scope, gw, log, alerts, call, ended>>

OtelAnnounce(r) ==
  /\ OtelTurn(r, "announce")
  /\ OtelRecord(r, "agent.discovered", 0)
  /\ OtelMove(r, "announce_alert")
  /\ UNCHANGED <<scope, gw, discovered, alerts, call, ended>>

OtelAnnounceAlert(r) ==
  /\ OtelTurn(r, "announce_alert")
  /\ OtelAlert(r, "agent_discovered", 0)
  /\ OtelMove(r, "limit")
  /\ UNCHANGED <<scope, gw, discovered, log, call, ended>>

OtelAnswer(r, status) ==
  /\ OtelMove(r, status)
  /\ gw' = [gw EXCEPT ![report[r].gw].busy = NoCall]

\* rate_limiter.allow said no: 429, and nothing is written.
OtelLimited(r) ==
  /\ OtelTurn(r, "limit")
  /\ OtelAnswer(r, "429")
  /\ UNCHANGED <<scope, discovered, log, alerts, call, ended>>

OtelAllowed(r) ==
  /\ OtelTurn(r, "limit")
  /\ OtelMove(r, "items")
  /\ UNCHANGED <<scope, gw, discovered, log, alerts, call, ended>>

\* The status Starlette answers with when a write raises; "500_unannounced" is
\* the one that falls between an agents row and its agent.discovered.
Failed(stage) == IF stage = "announce" THEN "500_unannounced" ELSE "500"

\* The database stays locked past its busy timeout: nothing is written, and the
\* exception leaves the handler.  The rate limit writes nothing.
OtelWriteRefused(r) ==
  /\ report[r].stage \in InHandler \ {"limit"} /\ OtelTurn(r, report[r].stage)
  /\ OtelAnswer(r, Failed(report[r].stage))
  /\ UNCHANGED <<scope, discovered, log, alerts, call, ended>>

Item(r) == report[r].body[report[r].next]
Outside(r, tool) == report[r].scope # Unscoped /\ tool \notin report[r].scope

\* Outside granted_scope: the alert is committed before the event.
OtelScopeAlert(r) ==
  /\ OtelTurn(r, "items") /\ Outside(r, Item(r))
  /\ OtelAlert(r, "otel_scope_violation_reported", report[r].next)
  /\ OtelMove(r, "alerted")
  /\ UNCHANGED <<scope, gw, discovered, log, call, ended>>

\* Mutant: the scope check is skipped.
OtelLogItemUnchecked(r) ==
  /\ OtelTurn(r, "items") \/ OtelTurn(r, "alerted")
  /\ OtelRecord(r, "tool.called", report[r].next)
  /\ IF report[r].next = Len(report[r].body)
       THEN OtelAnswer(r, "202")
       ELSE /\ report' = [report EXCEPT ![r].stage = "items", ![r].next = @ + 1]
            /\ UNCHANGED gw
  /\ UNCHANGED <<scope, discovered, alerts, call, ended>>

\* The item's event; after the last one, 202 with the logged ids.
OtelLogItem(r) ==
  /\ OtelTurn(r, "alerted") \/ (OtelTurn(r, "items") /\ ~Outside(r, Item(r)))
  /\ OtelRecord(r, "tool.called", report[r].next)
  /\ IF report[r].next = Len(report[r].body)
       THEN OtelAnswer(r, "202")
       ELSE /\ report' = [report EXCEPT ![r].stage = "items", ![r].next = @ + 1]
            /\ UNCHANGED gw
  /\ UNCHANGED <<scope, discovered, alerts, call, ended>>

\* The process dies with the calls and the reports it was working on.
OtelCrash(g) ==
  /\ GatewayCrash(g)
  /\ report' = [r \in Reports |->
       IF report[r].stage \in InHandler /\ report[r].gw = g
         THEN [report[r] EXCEPT !.stage = Lost(@)] ELSE report[r]]

\* What a gateway does by itself once a report is inside it.
OtelWork(r) ==
  \/ OtelDiscover(r) \/ OtelAnnounce(r) \/ OtelAnnounceAlert(r)
  \/ OtelLimited(r) \/ OtelAllowed(r)
  \/ OtelScopeAlert(r) \/ OtelLogItem(r) \/ OtelWriteRefused(r)

OtelStep ==
  \/ \E r \in Reports, g \in Gateways, k \in Tokens \cup {NoToken}, body \in Bodies, n \in Names :
       OtelReceive(r, g, k, body, n)
  \/ \E r \in Reports : OtelWork(r)

OtelNext ==
  \/ UNCHANGED report /\ (Tick \/ CliStep \/ (UNCHANGED credVars /\ GwStep))
  \/ UNCHANGED credVars /\ OtelStep
  \/ UNCHANGED credVars /\ \E g \in Gateways : OtelCrash(g)

OtelSpec == OtelInit /\ [][OtelNext]_otelVars

\* The event loop keeps running a call or a report it has started, each of
\* whose writes is made or refused within SQLite's busy timeout.  Nothing is
\* assumed of the backend, which has no timeout (middleware.py:389), nor of
\* clients, CLI processes, time or crashes.
LoopFairness ==
  /\ \A c \in Calls : WF_otelVars(Work(c) /\ UNCHANGED <<credVars, report>>)
  /\ \A r \in Reports : WF_otelVars(OtelWork(r) /\ UNCHANGED credVars)

FairOtelSpec == OtelSpec /\ LoopFairness

-------------------------------------------------------------------------------
LoggedItems(r) == {e.item : e \in {x \in log : x.call = r /\ x.type = "tool.called"}}

\* A report is logged whole or not at all, as far as its status tells: 202
\* means every item has its event, 4xx that none has, and whatever tool
\* calls, crashes, refused writes and credential changes happen meanwhile, the
\* items logged so far are the first ones of the batch, those before the item
\* a 500 gave up at included (otel_ingest.py:70-72, 227-256).
BatchInOrder ==
  \A r \in Reports :
    CASE report[r].stage = "new" -> LoggedItems(r) = {}
      [] report[r].stage \in {"400", "401", "429"} -> LoggedItems(r) = {}
      [] report[r].stage = "202" ->
           /\ Malformed \notin {report[r].body[i] : i \in DOMAIN report[r].body}
           /\ LoggedItems(r) = 1..Len(report[r].body)
      [] OTHER -> LoggedItems(r) = 1..(report[r].next - 1)

\* Every logged item outside the reporter's granted_scope has its alert, even
\* if the process died right after the event (otel_ingest.py:231-250).
ScopeReportsAlerted ==
  \A r \in Reports : \A i \in LoggedItems(r) :
    Outside(r, report[r].body[i]) =>
      [call |-> r, type |-> "otel_scope_violation_reported", item |-> i] \in alerts

\* An agents row made on either path has its agent.discovered event or will
\* get it from the request that made it, unless that request's process died,
\* or its event was refused, just between the two commits (discovery.py:87-94,
\* middleware.py:251-259, otel_ingest.py:203): no race of calls and reports
\* leaves a client that no later request announces.
SightingsAreAnnounced ==
  \A n \in discovered :
    \/ \E e \in log : e.type = "agent.discovered" /\ e.name = n
    \/ \E c \in Calls : call[c].stage \in {"announce", "unannounced"} /\ call[c].name = n
    \/ \E r \in Reports : /\ report[r].stage \in {"announce", "unannounced", "500_unannounced"}
                          /\ report[r].name = n

\* Nothing holds a gateway's event loop for good, and no request is left inside
\* with nobody to work on it: a call is answered, lost or waiting for the
\* backend, a report gets its status or dies with its process, whatever the
\* backends of other calls do (token_bucket.py:7-9, "rejected at the gateway,
\* not silently queued"; middleware.py:192-411, otel_ingest.py:139-258).
TheLoopIsFreed ==
  /\ \A c \in Calls : Inside(c) ~> ~Inside(c)
  /\ \A r \in Reports : report[r].stage \in InHandler ~> report[r].stage \notin InHandler
===============================================================================
