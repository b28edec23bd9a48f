-------------------------------- MODULE Gateway --------------------------------
(***************************************************************************)
(* gateway/middleware.py on top of Credentials: gateways of one            *)
(* organization that answer tool calls from an in-memory copy of the       *)
(* credential table, reloaded when a request finds it credential_refresh_  *)
(* seconds old, while CLI processes issue, renew, revoke and re-register.  *)
(*                                                                         *)
(* A gateway is one event loop: on_call_tool runs without interruption     *)
(* from its start to `await call_next`, and again from there to its end,   *)
(* so `busy` names the call inside such a stretch.  Each commit is a step, *)
(* since the process may die, and other processes write, between commits,  *)
(* and a write may be refused ("database is locked").                      *)
(* The rate limiter's answer is left open here; TokenBucket decides it.    *)
(***************************************************************************)
EXTENDS Credentials, FiniteSets

CONSTANTS
  Gateways,      \* gateway processes of the organization
  Calls,         \* the tool calls of a behaviour
  Tools,         \* tool names a call may ask for
  Heartbeat,     \* HEARTBEAT_TOOL_NAME, one of Tools
  Agents,        \* agents with a registered identity
  AgentOf,       \* the agent each token was issued to
  Scopes,        \* granted_scope values an agent may be registered with
  Unscoped,      \* granted_scope is None: a caller without an identity
  Names,         \* client_info names, which discovered agent ids come from
  NoToken,       \* no X-BF-Agent-Token header
  NoCall,        \* no call is inside a synchronous stretch
  Refresh,       \* credential_refresh_seconds
  RequireToken   \* --require-token

ASSUME GatewayAssumption ==
  /\ Heartbeat \in Tools
  /\ AgentOf \in [Tokens -> Agents]
  /\ Refresh \in Nat \ {0}
  /\ RequireToken \in BOOLEAN
  /\ NoToken \notin Tokens /\ NoCall \notin Calls
  /\ Scopes \subseteq SUBSET Tools /\ Unscoped \notin Scopes

VARIABLES
  scope,       \* agent_identities.granted_scope
  gw,          \* gateway process: mode, token_registry, loaded_at, busy; read_at is history
  discovered,  \* agents rows made by discover_agent
  log,         \* events rows a call is the cause of
  alerts,      \* alerts rows
  call,        \* where each call is
  ended        \* history: when a token's authority for a tool last ended

gwVars == <<scope, gw, discovered, log, alerts, call, ended>>
allVars == <<credVars, gwVars>>

Never == MaxClock + 1

\* What the tables say now: the token is usable and the tool is open to it.
Authority(k, tool) ==
  /\ Usable(creds[k])
  /\ tool \in scope[AgentOf[k]] \cup {Heartbeat}

\* History, kept by every step that can end or restore an authority.
WatchAuthority ==
  ended' = [k \in Tokens |-> [t \in Tools |->
              IF Authority(k, t)' THEN Never
              ELSE IF Authority(k, t) THEN clock' ELSE ended[k][t]]]

\* History: for how long the authority a request relies on had been gone.
Lag(k, tool) ==
  IF k \in Tokens /\ ended[k][tool] <= clock THEN clock - ended[k][tool] ELSE 0

Missing == [known |-> FALSE]
Fresh == [stage |-> "new"]
Down == [mode |-> "down"]

\* load_token_registry: usable tokens with the scope of the agent's identity.
Registry ==
  [k \in Tokens |-> IF Usable(creds[k])
                      THEN [known |-> TRUE, scope |-> scope[AgentOf[k]]]
                      ELSE Missing]

GwInit ==
  /\ CredInit
  /\ scope \in [Agents -> Scopes]
  /\ gw = [g \in Gateways |-> Down]
  /\ discovered = {}
  /\ log = {}
  /\ alerts = {}
  /\ call = [c \in Calls |-> Fresh]
  /\ ended = [k \in Tokens |-> [t \in Tools |-> 0]]

-------------------------------------------------------------------------------
(* The process.                                                             *)

\* GatewayMiddleware.__init__ reads the table ...
StartLoad(g) ==
  /\ gw[g].mode = "down"
  /\ gw' = [gw EXCEPT ![g] = [mode |-> "loading", registry |-> Registry, read_at |-> clock]]
  /\ UNCHANGED <<scope, discovered, log, alerts, call, ended>>

\* ... and only then stamps _token_registry_loaded_at.
StartStamp(g) ==
  /\ gw[g].mode = "loading"
  /\ gw' = [gw EXCEPT ![g] = [mode |-> "up", registry |-> gw[g].registry,
                              read_at |-> gw[g].read_at, loaded_at |-> clock,
                              busy |-> NoCall]]
  /\ UNCHANGED <<scope, discovered, log, alerts, call, ended>>

\* All that is left of a call once nobody works on it.
Settled(c, stage) == [stage |-> stage, tool |-> call[c].tool, name |-> call[c].name]

\* How a process's death, or a write the database refuses, ends a request:
\* between the commit of a new agents row and the event that announces it, or
\* anywhere else.
Lost(stage) == IF stage = "announce" THEN "unannounced" ELSE "lost"

Unsettled(c) == call[c].stage \notin {"new", "answered", "raised", "lost", "unannounced"}
Inside(c) == Unsettled(c) /\ call[c].stage # "forwarded"

\* The process dies; its calls get no answer and its memory is gone.
GatewayCrash(g) ==
  /\ gw[g].mode # "down"
  /\ gw' = [gw EXCEPT ![g] = Down]
  /\ call' = [c \in Calls |-> IF Unsettled(c) /\ call[c].gw = g
                                THEN Settled(c, Lost(call[c].stage))
                                ELSE call[c]]
  /\ UNCHANGED <<scope, discovered, log, alerts, ended>>

-------------------------------------------------------------------------------
(* on_call_tool.                                                            *)

\* The registry read again and stamped `at`.
Reloaded(g, at) ==
  [gw[g] EXCEPT !.registry = Registry, !.read_at = clock, !.loaded_at = at]

\* Mutant: the registry is reloaded one tick too late.
RefreshedLate(g) ==
  IF clock - gw[g].loaded_at > Refresh THEN Reloaded(g, clock) ELSE gw[g]

\* Mutant: the stamp is the time of the next reload instead of this one's.
RefreshedDeadline(g) ==
  IF clock - gw[g].loaded_at >= Refresh THEN Reloaded(g, clock + Refresh) ELSE gw[g]

\* _maybe_refresh_token_registry: the stamp is the time read before the load.
Refreshed(g) ==
  IF clock - gw[g].loaded_at >= Refresh THEN Reloaded(g, clock) ELSE gw[g]

Identified(g, k) == k \in Tokens /\ Refreshed(g).registry[k].known

\* Which branch of on_call_tool a request takes: a resolved identity goes on
\* to the checks; a dead token of this organization's agent is rejected under
\* that agent; anything else is discovered first.
FirstStage(g, k) ==
  CASE Identified(g, k) -> "admit"
    [] k \in Tokens /\ ~Identified(g, k) /\ creds[k] # NoRow -> "reject_token"
    [] OTHER -> "discover"

\* A request arrives: refresh, resolve, branch.
Arrive(c, g, k, tool, name) ==
  /\ call[c].stage = "new"
  /\ gw[g].mode = "up" /\ gw[g].busy = NoCall
  /\ gw' = [gw EXCEPT ![g] = [Refreshed(g) EXCEPT !.busy = c]]
  /\ call' = [call EXCEPT ![c] =
       [stage |-> FirstStage(g, k), gw |-> g, token |-> k, tool |-> tool, name |-> name,
        lag |-> Lag(k, tool), slack |-> Refreshed(g).loaded_at - Refreshed(g).read_at,
        scope |-> IF Identified(g, k) THEN Refreshed(g).registry[k].scope ELSE Unscoped]]
  /\ UNCHANGED <<scope, discovered, log, alerts, ended>>

Turn(c, stage) ==
  /\ call[c].stage = stage
  /\ gw[call[c].gw].busy = c

Move(c, stage) == call' = [call EXCEPT ![c].stage = stage]

\* The rest of the synchronous stretch once the caller has an agent row.
AfterDiscovery(c) ==
  CASE call[c].token # NoToken -> "reject_token"
    [] call[c].token = NoToken /\ RequireToken -> "reject_no_token"
    [] OTHER -> "admit"

\* Mutant: the row is looked up first, so two gateways may both claim the
\* first sighting.
DiscoverAlways(c) ==
  /\ Turn(c, "discover")
  /\ discovered' = discovered \cup {call[c].name}
  /\ Move(c, "announce")
  /\ UNCHANGED <<scope, gw, log, alerts, ended>>

\* Mutant: nobody asks whether the row is new.
DiscoverSilent(c) ==
  /\ Turn(c, "discover")
  /\ discovered' = discovered \cup {call[c].name}
  /\ Move(c, AfterDiscovery(c))
  /\ UNCHANGED <<scope, gw, log, alerts, ended>>

\* discover_agent: INSERT OR IGNORE and commit; rowcount tells a first sighting.
Discover(c) ==
  /\ Turn(c, "discover")
  /\ discovered' = discovered \cup {call[c].name}
  /\ Move(c, IF call[c].name \in discovered THEN AfterDiscovery(c) ELSE "announce")
  /\ UNCHANGED <<scope, gw, log, alerts, ended>>

Record(c, type, result) ==
  log' = log \cup {[call |-> c, name |-> call[c].name, type |-> type, result |-> result]}

\* agent.discovered, committed on its own.
Announce(c) ==
  /\ Turn(c, "announce")
  /\ Record(c, "agent.discovered", "success")
  /\ Move(c, "announce_alert")
  /\ UNCHANGED <<scope, gw, discovered, alerts, ended>>

\* The alert row; what its channel makes of it never reaches the caller.
fire_alert(c, type) == alerts' = alerts \cup {[call |-> c, type |-> type]}

\* _fire_discovery_alert.
AnnounceAlert(c) ==
  /\ Turn(c, "announce_alert")
  /\ fire_alert(c, "agent_discovered")
  /\ Move(c, AfterDiscovery(c))
  /\ UNCHANGED <<scope, gw, discovered, log, ended>>

\* The stretch ends, and the loop is free for other calls.
Leave(c, stage) ==
  /\ call' = [call EXCEPT ![c] = Settled(c, stage)]
  /\ gw' = [gw EXCEPT ![call[c].gw].busy = NoCall]

\* The result, or the exception the code raises, goes back to the caller.
Answer(c) == Leave(c, "answered")

\* The stages of a call with a write ahead of it.
Writing == {"discover", "announce", "announce_alert", "reject_token", "reject_no_token",
            "admit", "limited_alert"}

\* The database stays locked past its busy timeout at one of the stretch's
\* writes: nothing is written and sqlite3.OperationalError ends the call.  A
\* heartbeat that reached the checks has nothing to write before it is passed on.
WriteRefused(c) ==
  /\ call[c].stage \in Writing /\ Turn(c, call[c].stage)
  /\ ~(call[c].stage = "admit" /\ call[c].tool = Heartbeat)
  /\ Leave(c, Lost(call[c].stage))
  /\ UNCHANGED <<scope, discovered, log, alerts, ended>>

RejectToken(c) ==
  /\ Turn(c, "reject_token")
  /\ Record(c, "tool.rejected_unrecognized_token", "denied")
  /\ Answer(c)
  /\ UNCHANGED <<scope, discovered, alerts, ended>>

RejectNoToken(c) ==
  /\ Turn(c, "reject_no_token")
  /\ Record(c, "tool.rejected_no_token", "denied")
  /\ Answer(c)
  /\ UNCHANGED <<scope, discovered, alerts, ended>>

\* `await call_next`: the loop is free for other calls.
Forward(c) ==
  /\ Move(c, "forwarded")
  /\ gw' = [gw EXCEPT ![call[c].gw].busy = NoCall]

\* A heartbeat skips the rate limit and the scope check.
AdmitHeartbeat(c) ==
  /\ Turn(c, "admit") /\ call[c].tool = Heartbeat
  /\ Forward(c)
  /\ UNCHANGED <<scope, discovered, log, alerts, ended>>

\* Mutant: the call waits for tokens instead of being turned away, and nobody
\* wakes it.
RateLimitedQueued(c) ==
  /\ Turn(c, "admit") /\ call[c].tool # Heartbeat
  /\ Move(c, "queued")
  /\ UNCHANGED <<scope, gw, discovered, log, alerts, ended>>

\* The limiter said no: event, then alert, then the exception.
RateLimited(c) ==
  /\ Turn(c, "admit") /\ call[c].tool # Heartbeat
  /\ Record(c, "tool.rate_limited", "denied")
  /\ Move(c, "limited_alert")
  /\ UNCHANGED <<scope, gw, discovered, alerts, ended>>

\* Mutant: the rejection is raised without the alert.
LimitedAlertSkipped(c) ==
  /\ Turn(c, "limited_alert")
  /\ Answer(c)
  /\ UNCHANGED <<scope, discovered, log, alerts, ended>>

LimitedAlert(c) ==
  /\ Turn(c, "limited_alert")
  /\ fire_alert(c, "rate_limited")
  /\ Answer(c)
  /\ UNCHANGED <<scope, discovered, log, ended>>

InScope(c) == call[c].scope # Unscoped => call[c].tool \in call[c].scope

Blocked(c) ==
  /\ Turn(c, "admit") /\ call[c].tool # Heartbeat
  /\ ~InScope(c)
  /\ Record(c, "tool.blocked", "denied")
  /\ Answer(c)
  /\ UNCHANGED <<scope, discovered, alerts, ended>>

Admit(c) ==
  /\ Turn(c, "admit") /\ call[c].tool # Heartbeat
  /\ InScope(c)
  /\ Forward(c)
  /\ UNCHANGED <<scope, discovered, log, alerts, ended>>

\* How the backend's answer ends a call.
Backend(ok) == IF ok THEN "answered" ELSE "raised"

\* Mutant: the finally block logs only calls that succeeded.
ReturnUnlogged(c, ok) ==
  /\ call[c].stage = "forwarded"
  /\ gw[call[c].gw].busy = NoCall
  /\ IF ok
       THEN Record(c, IF call[c].tool = Heartbeat THEN "agent.heartbeat" ELSE "tool.called",
                   "success")
       ELSE UNCHANGED log
  /\ call' = [call EXCEPT ![c] = Settled(c, Backend(ok))]
  /\ UNCHANGED <<scope, gw, discovered, alerts, ended>>

\* _handle_heartbeat has no finally: a heartbeat that raised is not logged.
HeartbeatLogged(c, ok) ==
  IF ok THEN Record(c, "agent.heartbeat", "success") ELSE UNCHANGED log

\* call_next returned or raised.  tool.called is written in the finally block
\* with log_event's default result either way.
Return(c, ok) ==
  /\ call[c].stage = "forwarded"
  /\ gw[call[c].gw].busy = NoCall
  /\ IF call[c].tool = Heartbeat
       THEN HeartbeatLogged(c, ok)
       ELSE Record(c, "tool.called", "success")
  /\ call' = [call EXCEPT ![c] = Settled(c, Backend(ok))]
  /\ UNCHANGED <<scope, gw, discovered, alerts, ended>>

\* call_next came back, but the event is refused: the tool has run, the caller
\* gets sqlite3.OperationalError, and nothing is logged.
ReturnRefused(c) ==
  /\ call[c].stage = "forwarded"
  /\ gw[call[c].gw].busy = NoCall
  /\ call' = [call EXCEPT ![c] = Settled(c, "lost")]
  /\ UNCHANGED <<scope, gw, discovered, log, alerts, ended>>

-------------------------------------------------------------------------------
\* register_identity on an existing agent replaces its granted_scope.
Reregister(a, s) ==
  /\ s # scope[a]
  /\ scope' = [scope EXCEPT ![a] = s]
  /\ WatchAuthority
  /\ UNCHANGED <<gw, discovered, log, alerts, call>>

\* Time passes, also between a gateway's reading the table and its stamp.
Tick ==
  /\ CredTick
  /\ UNCHANGED <<scope, gw, discovered, log, alerts, call>>
  /\ WatchAuthority

\* A CLI step on the credential table.
CliStep ==
  /\ CredStep
  /\ UNCHANGED <<scope, gw, discovered, log, alerts, call>>
  /\ WatchAuthority

\* What a gateway does by itself once a call is inside it.
Work(c) ==
  \/ Discover(c) \/ Announce(c) \/ AnnounceAlert(c)
  \/ RejectToken(c) \/ RejectNoToken(c)
  \/ AdmitHeartbeat(c) \/ RateLimited(c) \/ LimitedAlert(c)
  \/ Blocked(c) \/ Admit(c) \/ WriteRefused(c)

GwStep ==
  \/ \E g \in Gateways : StartLoad(g) \/ StartStamp(g)
  \/ \E c \in Calls, g \in Gateways, k \in Tokens \cup {NoToken}, tool \in Tools, n \in Names :
       Arrive(c, g, k, tool, n)
  \/ \E c \in Calls : Work(c) \/ ReturnRefused(c) \/ \E ok \in BOOLEAN : Return(c, ok)
  \/ \E a \in Agents, s \in Scopes : Reregister(a, s)

GwNext ==
  \/ Tick
  \/ CliStep
  \/ UNCHANGED credVars /\ GwStep
  \/ UNCHANGED credVars /\ \E g \in Gateways : GatewayCrash(g)

GwSpec == GwInit /\ [][GwNext]_allVars

-------------------------------------------------------------------------------
Stages == {"new", "discover", "announce", "announce_alert", "reject_token",
           "reject_no_token", "admit", "limited_alert", "forwarded", "answered", "raised",
           "lost", "unannounced"}

\* Types of the gateway's own state; a gateway that is busy is busy with a
\* call of its own that is inside a synchronous stretch, and its registry was
\* never stamped with a time to come.
GwTypeOK ==
  /\ CredTypeOK
  /\ scope \in [Agents -> Scopes]
  /\ \A g \in Gateways :
       \/ gw[g].mode \in {"down", "loading"}
       \/ /\ gw[g].mode = "up"
          /\ gw[g].loaded_at \in 0..clock
          /\ gw[g].busy \in {NoCall} \cup {c \in Calls : Inside(c) /\ call[c].gw = g}
  /\ discovered \subseteq Names
  /\ \A e \in log : e.call \in Calls /\ e.result \in {"success", "denied"}
  /\ \A e \in alerts : e.call \in Calls
  /\ \A c \in Calls : call[c].stage \in Stages

\* The kill switch: a call is passed to the backend on a token only if the
\* token's authority for that tool - not revoked, not expired, tool still in
\* the agent's granted_scope - ended less than one refresh interval before the
\* request arrived (middleware.py:140-163), wherever revocations, renewals,
\* re-registrations, restarts and other calls fall.  Until a gateway's first
\* reload the bound is longer by `slack`, the time its startup took between
\* reading the table and stamping the copy (middleware.py:128, 137).
AuthorityBound ==
  \A c \in Calls : call[c].stage = "forwarded" => call[c].lag < Refresh + call[c].slack

EventsOf(c) == {e \in log : e.call = c /\ e.type # "agent.discovered"}

\* Every call its caller got an answer for left exactly one event of its own,
\* whether the gateway or the backend answered, and no call still unanswered
\* has left one but a rate-limited call whose alert is being written
\* (middleware.py:261-411, 468-487).  A heartbeat is answered without a trace
\* exactly when its call_next raised.  Calls that end with their process or at
\* a refused write have left at most one.
AnswersAreLogged ==
  \A c \in Calls :
    CASE call[c].stage = "answered" -> Cardinality(EventsOf(c)) = 1
      [] call[c].stage = "raised" ->
           Cardinality(EventsOf(c)) = IF call[c].tool = Heartbeat THEN 0 ELSE 1
      [] call[c].stage \in {"lost", "unannounced", "limited_alert"} -> Cardinality(EventsOf(c)) <= 1
      [] OTHER -> EventsOf(c) = {}

\* A first sighting is announced once: gateways that see the same unknown
\* client at the same moment do not both log agent.discovered
\* (discovery.py:87-94).
DiscoveredOnce ==
  \A n \in Names :
    Cardinality({e \in log : e.type = "agent.discovered" /\ e.name = n}) <= 1

\* A rate-limit rejection that reached its caller was alerted on
\* (middleware.py:345-355).
RejectionIsAlerted ==
  \A e \in log :
    e.type = "tool.rate_limited" /\ call[e.call].stage = "answered"
      => [call |-> e.call, type |-> "rate_limited"] \in alerts
===============================================================================
