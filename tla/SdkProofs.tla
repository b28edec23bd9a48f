------------------------------- MODULE SdkProofs -------------------------------
(***************************************************************************)
(* Proofs about OtelIngest and Sdk for any calls, reports, gateways and    *)
(* batch size: reports next to tool calls on gateways that restart, and    *)
(* SDK clients that stop waiting for them.                                 *)
(***************************************************************************)
EXTENDS Sdk, GatewayProofs, SequenceTheorems

Workers == Calls \cup Reports \cup {NoCall}

RepStages == {"discover", "announce", "announce_alert", "limit", "items", "alerted",
              "202", "400", "401", "429", "500", "500_unannounced", "lost", "unannounced"}
Received == [stage : RepStages, gw : Gateways, name : Names, body : Bodies,
             next : Nat \ {0}, scope : Scopes \cup {Unscoped}]

\* A report is a record, and its gateway is up while it is handled.
ReportInv ==
  /\ report \in [Reports -> {Fresh} \cup Received]
  /\ \A r \in Reports : report[r].stage \in InHandler => gw[report[r].gw].mode = "up"

WellFormed(r) == Malformed \notin {report[r].body[i] : i \in DOMAIN report[r].body}

\* How far a report's items are logged, by where it is.
BatchInv ==
  \A r \in Reports :
    /\ report[r].stage \in {"new", "400", "401", "429"} => LoggedItems(r) = {}
    /\ report[r].stage \in {"discover", "announce", "announce_alert", "limit",
                            "unannounced", "500_unannounced"} =>
         LoggedItems(r) = {} /\ report[r].next = 1
    /\ report[r].stage \in {"items", "alerted", "lost", "500"} =>
         LoggedItems(r) = 1..(report[r].next - 1)
    /\ report[r].stage = "500" => report[r].next <= Len(report[r].body)
    /\ report[r].stage \in InHandler => report[r].next <= Len(report[r].body) /\ WellFormed(r)
    /\ report[r].stage = "202" => LoggedItems(r) = 1..Len(report[r].body) /\ WellFormed(r)

ScopeAlert(r, i) == [call |-> r, type |-> "otel_scope_violation_reported", item |-> i]

\* The alert of an item outside the scope is there before its event.
AlertedInv ==
  \A r \in Reports :
    /\ \A i \in LoggedItems(r) : Outside(r, report[r].body[i]) => ScopeAlert(r, i) \in alerts
    /\ report[r].stage = "alerted" => ScopeAlert(r, report[r].next) \in alerts

\* Calls and reports announce agents alike.
Requests == Calls \cup Reports
Req(x) == IF x \in Calls THEN call[x] ELSE report[x]
Announces(e, n) == e.type = "agent.discovered" /\ e.name = n
Announcements == {e \in log : e.type = "agent.discovered"}
Sighting == {"announce", "unannounced", "500_unannounced"}

\* Whoever made a row announces it, alone and once.
SightInv ==
  /\ \A e \in log : e.type = "agent.discovered" => e.name \in discovered
  /\ \A e, f \in log : \A n : Announces(e, n) /\ Announces(f, n) => e = f
  /\ \A x \in Requests : Req(x).stage = "announce" =>
       /\ Req(x).name \in discovered
       /\ \A e \in log : ~Announces(e, Req(x).name)
       /\ \A y \in Requests : Req(y).stage = "announce" /\ Req(y).name = Req(x).name => y = x
  /\ \A n \in discovered :
       \/ \E e \in log : Announces(e, n)
       \/ \E x \in Requests : Req(x).stage \in Sighting /\ Req(x).name = n

OtelInv == GwInv(Workers) /\ ReportInv /\ BatchInv /\ AlertedInv /\ SightInv

-------------------------------------------------------------------------------
LEMMA BodyFacts ==
  ASSUME NEW body \in Bodies
  PROVE  body \in Seq(Tools \cup {Malformed}) /\ Len(body) \in Nat /\ Len(body) >= 1
                                               /\ DOMAIN body = 1..Len(body)
<1>1. PICK n \in 1..MaxItems : body \in [1..n -> Tools \cup {Malformed}]
  BY DEF Bodies
<1>2. n \in Nat /\ n >= 1
  BY <1>1, OtelAssumption
<1>3. body \in Seq(Tools \cup {Malformed})
  BY <1>1, <1>2, SeqDef
<1>4. DOMAIN body = 1..n /\ DOMAIN body = 1..Len(body) /\ Len(body) \in Nat
  BY <1>1, <1>3, LenProperties
<1>5. Len(body) = n
  BY <1>1, <1>2, <1>3, LenProperties
<1> QED BY <1>2, <1>3, <1>4, <1>5

LEMMA ReportShapes ==
  ASSUME ReportInv, NEW r \in Reports
  PROVE  /\ report[r].stage = "new" \/ report[r].stage \in RepStages
         /\ report[r].stage # "new" => report[r] \in Received
         /\ report[r].stage = "new" => report[r] = Fresh
BY DEF ReportInv, Fresh, Received, RepStages

-------------------------------------------------------------------------------
(* What a report does to the state tool calls depend on.                    *)

\* Events and alerts of reports are nothing to a call.
LEMMA ReportsWrite ==
  ASSUME NEW B, GwInv(B), UNCHANGED <<credVars, scope, ended, call, gw>>,
         discovered' \subseteq Names, alerts \subseteq alerts', log \subseteq log',
         \A e \in log' : e \in log \/ e.call \in Reports
  PROVE  GwInv(B)'
<1>1. (CredTypeOK /\ Shapes(B))'
  BY DEF GwInv, CredTypeOK, Shapes, credVars
<1>2. RegistryInv'
  BY CopiesStay DEF GwInv, RegistryInv
<1>3. (BusyInv /\ AdmitInv)'
  BY DEF GwInv, BusyInv, AdmitInv, Unsettled, Inside, InScope
<1>4. \A c \in Calls : EventsOf(c)' = EventsOf(c)
  BY OtelAssumption DEF EventsOf
<1>5. LogInv'
  BY <1>4 DEF GwInv, LogInv
<1>6. LimitInv'
  BY OtelAssumption DEF GwInv, LimitInv
<1> QED BY <1>1, <1>2, <1>3, <1>5, <1>6 DEF GwInv

\* A report takes the free loop, or gives it back.
LEMMA ReportsHold ==
  ASSUME NEW B, GwInv(B), UNCHANGED <<credVars, scope, ended, call, discovered, alerts>>,
         log \subseteq log', \A e \in log' : e \in log \/ e.call \in Reports,
         NEW g \in Gateways, gw[g].mode = "up", gw[g].busy \notin Calls,
         NEW new \in Up(B), new.busy \notin Calls,
         new.read_at <= new.loaded_at, new.loaded_at <= clock,
         Backed(new.registry, new.read_at),
         gw' = [gw EXCEPT ![g] = new]
  PROVE  GwInv(B)'
<1>1. gw'[g] = new /\ new.mode = "up" /\ \A h \in Gateways : h # g => gw'[h] = gw[h]
  BY DEF GwInv, Shapes, Up
<1>2. (CredTypeOK /\ Shapes(B))'
  BY DEF GwInv, CredTypeOK, Shapes, credVars
<1>3. RegistryInv'
  BY <1>1, CopiesStay DEF GwInv, RegistryInv
<1>4. \A c \in Calls : (Unsettled(c)' <=> Unsettled(c)) /\ (Inside(c)' <=> Inside(c))
  BY DEF Unsettled, Inside
<1>10. \A c \in Calls : Unsettled(c) => call[c].gw \in Gateways
  BY CallShapes DEF GwInv
<1>5. BusyInv'
  <2>1. \A c \in Calls : Inside(c) => call[c].gw # g
    BY DEF GwInv, BusyInv
  <2>2. \A c \in Calls : Unsettled(c) => gw'[call[c].gw].mode = "up"
    BY <1>1, <1>10 DEF GwInv, BusyInv
  <2>3. \A c \in Calls : Inside(c) => gw'[call[c].gw].busy = c
    BY <1>1, <1>10, <2>1 DEF GwInv, BusyInv, Inside
  <2>4. \A h \in Gateways, c \in Calls : gw'[h].mode = "up" /\ gw'[h].busy = c =>
          Inside(c) /\ call[c].gw = h
    BY <1>1 DEF GwInv, BusyInv
  <2> QED BY <1>4, <2>2, <2>3, <2>4 DEF BusyInv
<1>6. AdmitInv'
  BY DEF GwInv, AdmitInv, Unsettled, InScope
<1>7. \A c \in Calls : EventsOf(c)' = EventsOf(c)
  BY OtelAssumption DEF EventsOf
<1>8. LogInv'
  BY <1>7 DEF GwInv, LogInv
<1>9. LimitInv'
  BY OtelAssumption DEF GwInv, LimitInv
<1> QED BY <1>2, <1>3, <1>5, <1>6, <1>8, <1>9 DEF GwInv

-------------------------------------------------------------------------------
(* First sightings: the three kinds of step a request can take.             *)

\* Nobody claims a new sighting, and nobody drops one.
LEMMA SightStays ==
  ASSUME SightInv, discovered' = discovered, Announcements' = Announcements,
         \A x \in Requests :
           /\ Req(x)'.stage = "announce" => Req(x).stage = "announce" /\ Req(x)'.name = Req(x).name
           /\ Req(x).stage \in Sighting => Req(x)'.stage \in Sighting /\ Req(x)'.name = Req(x).name
  PROVE  SightInv'
<1>1. \A e : e.type = "agent.discovered" => (e \in log' <=> e \in log)
  BY DEF Announcements
<1> QED BY <1>1 DEF SightInv, Announces

\* The commit that made the row.
LEMMA SightMade ==
  ASSUME SightInv, NEW y \in Requests, Req(y).name \notin discovered,
         Req(y).stage \notin Sighting,
         discovered' = discovered \cup {Req(y).name}, log' = log,
         Req(y)'.stage = "announce", Req(y)'.name = Req(y).name,
         \A x \in Requests : x # y => Req(x)' = Req(x)
  PROVE  SightInv'
BY DEF SightInv, Announces, Sighting

\* The commit that announces it.
LEMMA SightAnnounced ==
  ASSUME SightInv, NEW y \in Requests, Req(y).stage = "announce", NEW e,
         Announces(e, Req(y).name),
         discovered' = discovered, log' = log \cup {e}, Req(y)'.stage \notin Sighting,
         \A x \in Requests : x # y => Req(x)' = Req(x)
  PROVE  SightInv'
BY DEF SightInv, Announces, Sighting

-------------------------------------------------------------------------------
(* First sightings by tool calls.                                           *)

\* A call changes, but neither makes nor announces a sighting.
QuietCall(c) ==
  /\ discovered' = discovered /\ Announcements' = Announcements
  /\ call[c].stage \notin Sighting /\ call'[c].stage \notin Sighting
  /\ \A d \in Calls : d # c => call'[d] = call[d]

LEMMA OtherRecords ==
  ASSUME NEW c, NEW type, NEW result, Record(c, type, result), type # "agent.discovered"
  PROVE  Announcements' = Announcements
<1> DEFINE e == [call |-> c, name |-> call[c].name, type |-> type, result |-> result]
<1>1. log' = log \cup {e} /\ e.type = type
  BY DEF Record
<1> HIDE DEF e
<1> QED BY <1>1 DEF Announcements

\* A call that is still under way is about to announce, or no sighting at all.
LEMMA UnsettledSighting ==
  ASSUME NEW B, Shapes(B), NEW c \in Calls, Unsettled(c), call[c].stage \in Sighting
  PROVE  call[c].stage = "announce"
BY CallShapes DEF Sighting, Unsettled, Stages

LEMMA AnswersAreQuiet ==
  ASSUME NEW B, GwInv(B), NEW c \in Calls, Unsettled(c), call[c].stage # "announce",
         NEW st \in {"answered", "raised", "lost"}, call' = [call EXCEPT ![c] = Settled(c, st)],
         discovered' = discovered, Announcements' = Announcements
  PROVE  QuietCall(c)
<1>1. call'[c].stage = st /\ \A d \in Calls : d # c => call'[d] = call[d]
  BY AnswerFacts DEF GwInv
<1>2. call[c].stage \notin Sighting
  BY UnsettledSighting DEF GwInv
<1>3. st \notin Sighting
  BY DEF Sighting
<1> QED BY <1>1, <1>2, <1>3 DEF QuietCall

LEMMA MovesAreQuiet ==
  ASSUME NEW B, GwInv(B), NEW c \in Calls, Unsettled(c), call[c].stage # "announce",
         NEW st, Move(c, st), st \notin Sighting,
         discovered' = discovered, Announcements' = Announcements
  PROVE  QuietCall(c)
<1>1. call[c].stage \notin Sighting
  BY UnsettledSighting DEF GwInv
<1>2. call'[c].stage = st /\ \A d \in Calls : d # c => call'[d] = call[d]
  BY OthersStay DEF GwInv
<1> QED BY <1>1, <1>2 DEF QuietCall

LEMMA WorkIsQuiet ==
  ASSUME NEW B, GwInv(B), NEW c \in Calls,
         Work(c) \/ ReturnRefused(c) \/ \E ok \in BOOLEAN : Return(c, ok),
         ~Discover(c), ~Announce(c), ~WriteRefused(c)
  PROVE  QuietCall(c)
<1>1. CASE AnnounceAlert(c)
  <2>1. AfterDiscovery(c) \notin Sighting
    BY DEF AfterDiscovery, Sighting
  <2>2. Unsettled(c) /\ call[c].stage # "announce" /\ Announcements' = Announcements
    BY <1>1 DEF AnnounceAlert, Turn, Unsettled, Announcements
  <2> QED BY <1>1, <2>1, <2>2, MovesAreQuiet DEF AnnounceAlert
<1>2. CASE RejectToken(c) \/ RejectNoToken(c) \/ Blocked(c)
  <2>1. Unsettled(c) /\ call[c].stage # "announce"
    BY <1>2 DEF RejectToken, RejectNoToken, Blocked, Turn, Unsettled
  <2>2. Announcements' = Announcements
    BY <1>2, OtherRecords DEF RejectToken, RejectNoToken, Blocked
  <2> QED BY <1>2, <2>1, <2>2, AnswersAreQuiet DEF RejectToken, RejectNoToken, Blocked, Answer, Leave
<1>3. CASE AdmitHeartbeat(c) \/ Admit(c)
  <2>1. Unsettled(c) /\ call[c].stage # "announce" /\ Announcements' = Announcements
    BY <1>3 DEF AdmitHeartbeat, Admit, Turn, Unsettled, Announcements
  <2>2. "forwarded" \notin Sighting
    BY DEF Sighting
  <2> QED BY <1>3, <2>1, <2>2, MovesAreQuiet DEF AdmitHeartbeat, Admit, Forward
<1>4. CASE RateLimited(c)
  <2>1. Unsettled(c) /\ call[c].stage # "announce"
    BY <1>4 DEF RateLimited, Turn, Unsettled
  <2>2. Announcements' = Announcements
    BY <1>4, OtherRecords DEF RateLimited
  <2>3. "limited_alert" \notin Sighting
    BY DEF Sighting
  <2> QED BY <1>4, <2>1, <2>2, <2>3, MovesAreQuiet DEF RateLimited
<1>5. CASE LimitedAlert(c)
  <2>1. Unsettled(c) /\ call[c].stage # "announce" /\ Announcements' = Announcements
    BY <1>5 DEF LimitedAlert, Turn, Unsettled, Announcements
  <2> QED BY <1>5, <2>1, AnswersAreQuiet DEF LimitedAlert, Answer, Leave
<1>6. CASE \E ok \in BOOLEAN : Return(c, ok)
  <2>1. Unsettled(c) /\ call[c].stage # "announce"
    BY <1>6 DEF Return, HeartbeatLogged, Unsettled
  <2>2. Announcements' = Announcements
    <3>1. log' = log => Announcements' = Announcements
      BY DEF Announcements
    <3> QED BY <1>6, <3>1, OtherRecords DEF Return, HeartbeatLogged
  <2>3. \A ok \in BOOLEAN : Backend(ok) \in {"answered", "raised"}
    BY DEF Backend
  <2>4. /\ discovered' = discovered
        /\ \E st \in {"answered", "raised"} : call' = [call EXCEPT ![c] = Settled(c, st)]
    BY <1>6, <2>3 DEF Return, HeartbeatLogged
  <2> QED BY <2>1, <2>2, <2>4, AnswersAreQuiet
<1>7. CASE ReturnRefused(c)
  <2>1. Unsettled(c) /\ call[c].stage # "announce" /\ Announcements' = Announcements
    BY <1>7 DEF ReturnRefused, Unsettled, Announcements
  <2> QED BY <1>7, <2>1, AnswersAreQuiet DEF ReturnRefused
<1> QED BY <1>1, <1>2, <1>3, <1>4, <1>5, <1>6, <1>7 DEF Work

LEMMA ArriveIsQuiet ==
  ASSUME NEW B, GwInv(B), NEW c \in Calls, NEW g \in Gateways, NEW k, NEW tool, NEW n,
         Arrive(c, g, k, tool, n)
  PROVE  QuietCall(c)
<1>1. FirstStage(g, k) \notin Sighting
  BY DEF FirstStage, Sighting
<1>2. call'[c].stage = FirstStage(g, k) /\ \A d \in Calls : d # c => call'[d] = call[d]
  BY DEF Arrive, GwInv, Shapes
<1> QED BY <1>1, <1>2 DEF Arrive, QuietCall, Sighting, Announcements

LEMMA QuietCallKeepsSight ==
  ASSUME SightInv, NEW c \in Calls, QuietCall(c), UNCHANGED report
  PROVE  SightInv'
<1>1. \A x \in Requests : Req(x)' = Req(x) \/ (Req(x).stage \notin Sighting /\ Req(x)'.stage \notin Sighting)
  BY DEF Requests, Req, QuietCall
<1> QED BY <1>1, SightStays DEF QuietCall, Sighting

LEMMA DiscoverKeepsSight ==
  ASSUME NEW B, GwInv(B), SightInv, NEW c \in Calls, Discover(c), UNCHANGED report
  PROVE  SightInv'
<1>1. Unsettled(c) /\ call[c] \in Active /\ call[c].stage \notin Sighting
  BY CallShapes DEF GwInv, Discover, Turn, Unsettled, Sighting
<1> DEFINE st == IF call[c].name \in discovered THEN AfterDiscovery(c) ELSE "announce"
<1>2. Move(c, st)
  BY DEF Discover
<1>3. call'[c].stage = st /\ \A d \in Calls : d # c => call'[d] = call[d]
  BY <1>1, <1>2, OthersStay DEF GwInv
<1>4. call'[c].name = call[c].name
  BY <1>1, <1>2 DEF Move, GwInv, Shapes, Active
<1>5. CASE call[c].name \in discovered
  <2>1. st \notin Sighting
    BY <1>5 DEF AfterDiscovery, Sighting
  <2>2. discovered' = discovered /\ Announcements' = Announcements
    BY <1>5 DEF Discover, Announcements
  <2> QED BY <1>1, <1>3, <2>1, <2>2, QuietCallKeepsSight DEF QuietCall
<1>6. CASE call[c].name \notin discovered
  <2>1. Req(c) = call[c] /\ Req(c)' = call'[c] /\ c \in Requests
    BY DEF Req, Requests
  <2>2. \A x \in Requests : x # c => Req(x)' = Req(x)
    BY <1>3 DEF Req, Requests
  <2> QED BY <1>1, <1>3, <1>4, <1>6, <2>1, <2>2, SightMade DEF Discover
<1> QED BY <1>5, <1>6

\* A refused write: the sighting it may have been about to announce stays.
LEMMA RefusedKeepsSight ==
  ASSUME NEW B, GwInv(B), SightInv, NEW c \in Calls, WriteRefused(c), UNCHANGED report
  PROVE  SightInv'
<1>1. Unsettled(c) /\ discovered' = discovered /\ Announcements' = Announcements
  BY DEF WriteRefused, Writing, Unsettled, Announcements
<1> DEFINE st == Lost(call[c].stage)
<1>2. /\ st \in {"lost", "unannounced"} /\ (call[c].stage = "announce" => st = "unannounced")
      /\ call' = [call EXCEPT ![c] = Settled(c, st)]
  BY DEF Lost, WriteRefused, Leave
<1> HIDE DEF st
<1>3. /\ call'[c].stage = st /\ call'[c].name = call[c].name
      /\ \A d \in Calls : d # c => call'[d] = call[d]
  <2>1. call'[c].stage = st /\ \A d \in Calls : d # c => call'[d] = call[d]
    BY <1>1, <1>2, AnswerFacts DEF GwInv
  <2>2. call'[c] = Settled(c, st)
    BY <1>2 DEF GwInv, Shapes
  <2> QED BY <2>1, <2>2 DEF Settled
<1>4. call[c].stage \in Sighting => call[c].stage = "announce"
  BY <1>1, UnsettledSighting DEF GwInv
<1>5. \A x \in Requests :
        /\ Req(x)'.stage = "announce" => Req(x).stage = "announce" /\ Req(x)'.name = Req(x).name
        /\ Req(x).stage \in Sighting => Req(x)'.stage \in Sighting /\ Req(x)'.name = Req(x).name
  BY <1>2, <1>3, <1>4 DEF Req, Requests, Sighting
<1> QED BY <1>1, <1>5, SightStays

LEMMA AnnounceKeepsSight ==
  ASSUME NEW B, GwInv(B), SightInv, NEW c \in Calls, Announce(c), UNCHANGED report
  PROVE  SightInv'
<1>1. Unsettled(c)
  BY DEF Announce, Turn, Unsettled
<1>2. call'[c].stage = "announce_alert" /\ \A d \in Calls : d # c => call'[d] = call[d]
  BY <1>1, OthersStay DEF GwInv, Announce
<1> DEFINE e == [call |-> c, name |-> call[c].name, type |-> "agent.discovered",
                 result |-> "success"]
<1>3. log' = log \cup {e} /\ Announces(e, call[c].name)
  BY DEF Announce, Record, Announces
<1> HIDE DEF e
<1>4. Req(c) = call[c] /\ Req(c)' = call'[c] /\ c \in Requests
  BY DEF Req, Requests
<1>5. \A x \in Requests : x # c => Req(x)' = Req(x)
  BY <1>2 DEF Req, Requests
<1>6. Req(c)'.stage \notin Sighting /\ Req(c).stage = "announce" /\ discovered' = discovered
  BY <1>2, <1>4 DEF Sighting, Announce, Turn
<1> QED BY <1>3, <1>4, <1>5, <1>6, SightAnnounced

-------------------------------------------------------------------------------
(* Steps of tool calls, the CLI and the clock, as the reports see them.      *)

\* A running gateway stays up until it dies.
LEMMA ModesStay ==
  ASSUME NEW B, GwInv(B), Tick \/ CliStep \/ GwStep, NEW g \in Gateways, gw[g].mode = "up"
  PROVE  gw'[g].mode = "up"
<1> USE DEF GwInv, Shapes
<1>0. gw[g] \in Up(B) /\ gw' = gw => gw'[g].mode = "up"
  BY GwShapes
<1>1. ASSUME NEW h \in Gateways, StartLoad(h) \/ StartStamp(h) PROVE gw'[g].mode = "up"
  BY <1>1 DEF StartLoad, StartStamp
<1>2. ASSUME NEW c \in Calls, NEW h \in Gateways, NEW k, NEW tool, NEW n, Arrive(c, h, k, tool, n)
      PROVE  gw'[g].mode = "up"
  <2>1. Refreshed(h) \in Up(B) /\ gw' = [gw EXCEPT ![h] = [Refreshed(h) EXCEPT !.busy = c]]
    BY <1>2, RefreshedFacts DEF Arrive
  <2>2. [Refreshed(h) EXCEPT !.busy = c].mode = "up"
    BY <2>1 DEF Up
  <2> QED BY <2>1, <2>2
<1>3. \A h \in Gateways : gw' = [gw EXCEPT ![h].busy = NoCall] => gw'[g].mode = "up"
  BY GwShapes DEF Up
<1>4. ASSUME NEW c \in Calls, Answer(c) \/ Forward(c) \/ WriteRefused(c), Unsettled(c)
      PROVE  gw'[g].mode = "up"
  BY <1>3, <1>4, CallShapes DEF Answer, Leave, Forward, WriteRefused
<1>5. ASSUME NEW c \in Calls, Work(c) PROVE gw'[g].mode = "up"
  <2>1. CASE Discover(c) \/ Announce(c) \/ AnnounceAlert(c) \/ RateLimited(c)
    BY <2>1 DEF Discover, Announce, AnnounceAlert, RateLimited
  <2>2. RejectToken(c) \/ RejectNoToken(c) \/ Blocked(c) \/ LimitedAlert(c) => Answer(c) /\ Unsettled(c)
    BY DEF RejectToken, RejectNoToken, Blocked, LimitedAlert, Turn, Unsettled
  <2>3. AdmitHeartbeat(c) \/ Admit(c) => Forward(c) /\ Unsettled(c)
    BY DEF AdmitHeartbeat, Admit, Turn, Unsettled
  <2>4. WriteRefused(c) => Unsettled(c)
    BY DEF WriteRefused, Writing, Unsettled
  <2> QED BY <1>4, <1>5, <2>1, <2>2, <2>3, <2>4 DEF Work
<1>6. \A c, ok : ReturnRefused(c) \/ Return(c, ok) => gw' = gw
  BY DEF Return, HeartbeatLogged, ReturnRefused
<1>7. \A a, s : Reregister(a, s) => gw' = gw
  BY DEF Reregister
<1>8. Tick \/ CliStep => gw' = gw
  BY DEF Tick, CliStep
<1> QED BY <1>1, <1>2, <1>5, <1>6, <1>7, <1>8 DEF GwStep

\* A tool call writes events and alerts under its own name only.
LEMMA CallsWriteTheirOwn ==
  ASSUME Tick \/ CliStep \/ GwStep \/ \E g : GatewayCrash(g)
  PROVE  /\ log \subseteq log' /\ alerts \subseteq alerts'
         /\ \A e \in log' : e \in log \/ e.call \in Calls
<1>1. ASSUME NEW c \in Calls, NEW type, NEW result, Record(c, type, result)
      PROVE  log \subseteq log' /\ \A e \in log' : e \in log \/ e.call \in Calls
  <2> DEFINE e == [call |-> c, name |-> call[c].name, type |-> type, result |-> result]
  <2>1. log' = log \cup {e} /\ e.call = c
    BY <1>1 DEF Record
  <2> HIDE DEF e
  <2> QED BY <2>1
<1>2. ASSUME NEW c \in Calls, Work(c) \/ ReturnRefused(c) \/ \E ok : Return(c, ok)
      PROVE  /\ log \subseteq log' /\ alerts \subseteq alerts'
             /\ \A e \in log' : e \in log \/ e.call \in Calls
  BY <1>1, <1>2, WorkWrites DEF fire_alert
<1> QED BY <1>2, OthersWriteNothing DEF GwStep

LEMMA ItemsStay ==
  ASSUME log \subseteq log', NEW r \in Reports,
         \A e \in log' : e.call = r /\ e.type = "tool.called" => e \in log
  PROVE  LoggedItems(r)' = LoggedItems(r)
BY DEF LoggedItems

LEMMA ReportsUntouched ==
  ASSUME ReportInv, BatchInv, AlertedInv, UNCHANGED report,
         \A g \in Gateways : gw[g].mode = "up" => gw'[g].mode = "up",
         \A r \in Reports : LoggedItems(r)' = LoggedItems(r), alerts \subseteq alerts'
  PROVE  (ReportInv /\ BatchInv /\ AlertedInv)'
<1>1. \A r \in Reports : report[r].stage \in InHandler => report[r].gw \in Gateways
  BY ReportShapes DEF InHandler, Received
<1>2. ReportInv'
  BY <1>1 DEF ReportInv
<1>3. BatchInv'
  BY DEF BatchInv, WellFormed
<1>4. AlertedInv'
  BY DEF AlertedInv, Outside
<1> QED BY <1>2, <1>3, <1>4

LEMMA CallsKeepSight ==
  ASSUME NEW B, GwInv(B), SightInv, UNCHANGED report, Tick \/ CliStep \/ GwStep
  PROVE  SightInv'
<1>1. ASSUME UNCHANGED <<log, discovered, call>> PROVE SightInv'
  BY <1>1, SightStays DEF Announcements, Req
<1>2. \A g : StartLoad(g) \/ StartStamp(g) => UNCHANGED <<log, discovered, call>>
  BY DEF StartLoad, StartStamp
<1>3. \A a, s : Reregister(a, s) => UNCHANGED <<log, discovered, call>>
  BY DEF Reregister
<1>4. Tick \/ CliStep => UNCHANGED <<log, discovered, call>>
  BY DEF Tick, CliStep
<1>5. \A c \in Calls :
        Work(c) \/ ReturnRefused(c) \/ (\E ok \in BOOLEAN : Return(c, ok)) => SightInv'
  BY WorkIsQuiet, QuietCallKeepsSight, DiscoverKeepsSight, AnnounceKeepsSight, RefusedKeepsSight
<1>6. \A c \in Calls, g \in Gateways : \A k, tool, n : Arrive(c, g, k, tool, n) => SightInv'
  BY ArriveIsQuiet, QuietCallKeepsSight
<1> QED BY <1>1, <1>2, <1>3, <1>4, <1>5, <1>6 DEF GwStep

LEMMA GatewayKeeps ==
  ASSUME OtelInv, UNCHANGED report, Tick \/ CliStep \/ (UNCHANGED credVars /\ GwStep)
  PROVE  OtelInv'
<1>1. GwInv(Workers)'
  BY TickKeeps, CliStepKeeps, GwStepKeeps DEF OtelInv, Workers
<1>2. \A g \in Gateways : gw[g].mode = "up" => gw'[g].mode = "up"
  BY ModesStay DEF OtelInv
<1>3. (\A r \in Reports : LoggedItems(r)' = LoggedItems(r)) /\ alerts \subseteq alerts'
  BY CallsWriteTheirOwn, ItemsStay, OtelAssumption
<1> QED BY <1>1, <1>2, <1>3, ReportsUntouched, CallsKeepSight DEF OtelInv

\* A process dies with all it was working on.
LEMMA OtelCrashKeeps ==
  ASSUME OtelInv, UNCHANGED credVars, NEW g \in Gateways, OtelCrash(g)
  PROVE  OtelInv'
<1>1. GatewayCrash(g) /\ GwInv(Workers)'
  BY CrashKeeps DEF OtelCrash, OtelInv
<1>2. log' = log /\ alerts' = alerts /\ discovered' = discovered
  BY <1>1 DEF GatewayCrash
<1>3. ASSUME NEW r \in Reports
      PROVE  \/ report'[r] = report[r] /\ (report[r].stage \in InHandler => report[r].gw # g)
             \/ /\ report[r].stage \in InHandler /\ report[r] \in Received /\ report'[r] \in Received
                /\ report'[r].stage = IF report[r].stage = "announce" THEN "unannounced" ELSE "lost"
                /\ report'[r].next = report[r].next /\ report'[r].body = report[r].body
                /\ report'[r].scope = report[r].scope /\ report'[r].name = report[r].name
  <2>1. CASE report[r].stage \in InHandler /\ report[r].gw = g
    <3>1. report[r] \in Received
      BY <2>1, ReportShapes DEF OtelInv, InHandler
    <3>2. report'[r] = [report[r] EXCEPT !.stage = Lost(report[r].stage)]
      BY <2>1 DEF OtelCrash
    <3> QED BY <2>1, <3>1, <3>2 DEF Lost, Received, RepStages
  <2>2. CASE ~(report[r].stage \in InHandler /\ report[r].gw = g)
    BY <2>2 DEF OtelCrash
  <2> QED BY <2>1, <2>2
<1>4. ReportInv'
  <2>1. report' \in [Reports -> {Fresh} \cup Received]
    <3>1. \A r \in Reports : report'[r] \in {Fresh} \cup Received
      BY <1>3 DEF OtelInv, ReportInv
    <3> QED BY <3>1 DEF OtelCrash
  <2>2. ASSUME NEW r \in Reports, report'[r].stage \in InHandler
        PROVE  gw'[report'[r].gw].mode = "up"
    <3>1. report'[r] = report[r] /\ report[r].gw # g
      BY <1>3, <2>2 DEF InHandler
    <3>2. report[r].gw \in Gateways
      BY <2>2, <3>1, ReportShapes DEF OtelInv, InHandler, Received
    <3>3. gw'[report[r].gw] = gw[report[r].gw]
      BY <1>1, <3>1, <3>2 DEF GatewayCrash, OtelInv, GwInv, Shapes
    <3> QED BY <2>2, <3>1, <3>3 DEF OtelInv, ReportInv
  <2> QED BY <2>1, <2>2 DEF ReportInv
<1>5. \A r \in Reports : LoggedItems(r)' = LoggedItems(r)
  BY <1>2 DEF LoggedItems
<1>6. BatchInv'
  <2>1. ASSUME NEW r \in Reports PROVE BatchInv!(r)'
    <3>1. CASE report'[r] = report[r]
      BY <1>5, <3>1 DEF OtelInv, BatchInv, WellFormed
    <3>2. CASE report[r].stage \in InHandler /\ report[r] \in Received /\ report'[r].stage = "unannounced"
      BY <1>3, <1>5, <3>2 DEF OtelInv, BatchInv, InHandler
    <3>3. CASE report[r].stage \in InHandler /\ report[r] \in Received /\ report'[r].stage = "lost"
      <4>1. report'[r].next = report[r].next
        BY <1>3, <3>3
      <4>2. LoggedItems(r) = 1..(report[r].next - 1)
        <5>1. report[r].stage \in {"items", "alerted"} => LoggedItems(r) = 1..(report[r].next - 1)
          BY DEF OtelInv, BatchInv
        <5>2. LoggedItems(r) = {} /\ report[r].next = 1 => LoggedItems(r) = 1..(report[r].next - 1)
          OBVIOUS
        <5> QED BY <3>3, <5>1, <5>2 DEF OtelInv, BatchInv, InHandler
      <4> QED BY <1>5, <3>3, <4>1, <4>2 DEF InHandler
    <3> QED BY <1>3, <3>1, <3>2, <3>3
  <2> QED BY <2>1 DEF BatchInv
<1>7. AlertedInv'
  <2>1. ASSUME NEW r \in Reports PROVE AlertedInv!(r)'
    BY <1>2, <1>3, <1>5 DEF OtelInv, AlertedInv, Outside
  <2> QED BY <2>1 DEF AlertedInv
<1>8. SightInv'
  <2>1. ASSUME NEW c \in Calls
        PROVE  \/ call'[c] = call[c]
               \/ /\ call'[c].name = call[c].name /\ call'[c].stage # "announce"
                  /\ call[c].stage \in Sighting => call'[c].stage \in Sighting
    <3>1. CASE Unsettled(c) /\ call[c].gw = g
      <4>1. call'[c] = Settled(c, Lost(call[c].stage))
        BY <1>1, <3>1 DEF GatewayCrash
      <4>2. call[c].stage \in Sighting => call[c].stage = "announce"
        BY <3>1, UnsettledSighting DEF OtelInv, GwInv
      <4> QED BY <4>1, <4>2 DEF Settled, Lost, Sighting
    <3>2. CASE ~(Unsettled(c) /\ call[c].gw = g)
      BY <1>1, <3>2 DEF GatewayCrash
    <3> QED BY <3>1, <3>2
  <2>2. ASSUME NEW r \in Reports
        PROVE  \/ report'[r] = report[r]
               \/ /\ report'[r].name = report[r].name /\ report'[r].stage # "announce"
                  /\ report[r].stage \in Sighting => report'[r].stage \in Sighting
    BY <1>3 DEF Sighting, InHandler
  <2>3. Announcements' = Announcements
    BY <1>2 DEF Announcements
  <2>4. \A x \in Requests :
           /\ Req(x)'.stage = "announce" => Req(x).stage = "announce" /\ Req(x)'.name = Req(x).name
           /\ Req(x).stage \in Sighting => Req(x)'.stage \in Sighting /\ Req(x)'.name = Req(x).name
    BY <2>1, <2>2 DEF Req, Requests
  <2> QED BY <1>2, <2>3, <2>4, SightStays DEF OtelInv
<1> QED BY <1>1, <1>4, <1>6, <1>7, <1>8 DEF OtelInv

-------------------------------------------------------------------------------
(* The handler's own steps.                                                 *)

\* One report changes; the others keep what they have.
LEMMA OneReport ==
  ASSUME OtelInv, NEW r \in Reports, report'[r] \in Received,
         report' = [report EXCEPT ![r] = report'[r]],
         \A g \in Gateways : gw[g].mode = "up" => gw'[g].mode = "up",
         report'[r].stage \in InHandler => gw[report'[r].gw].mode = "up",
         log \subseteq log', \A e \in log' : e \in log \/ e.call = r, alerts \subseteq alerts',
         BatchInv!(r)', AlertedInv!(r)'
  PROVE  (ReportInv /\ BatchInv /\ AlertedInv)'
<1>1. \A q \in Reports : q # r => report'[q] = report[q] /\ LoggedItems(q)' = LoggedItems(q)
  BY ItemsStay DEF OtelInv, ReportInv
<1>2. ReportInv'
  <2>1. report' \in [Reports -> {Fresh} \cup Received]
    BY DEF OtelInv, ReportInv
  <2>2. ASSUME NEW q \in Reports, report'[q].stage \in InHandler
        PROVE  gw'[report'[q].gw].mode = "up"
    <3>1. report'[q].gw \in Gateways
      BY <1>1, <2>2, ReportShapes DEF OtelInv, InHandler, Received
    <3>2. gw[report'[q].gw].mode = "up"
      BY <1>1, <2>2 DEF OtelInv, ReportInv
    <3> QED BY <3>1, <3>2
  <2> QED BY <2>1, <2>2 DEF ReportInv
<1>3. BatchInv'
  <2>1. \A q \in Reports : q # r => BatchInv!(q)'
    BY <1>1 DEF OtelInv, BatchInv, WellFormed
  <2> QED BY <2>1 DEF BatchInv
<1>4. AlertedInv'
  <2>1. \A q \in Reports : q # r => AlertedInv!(q)'
    BY <1>1 DEF OtelInv, AlertedInv, Outside
  <2> QED BY <2>1 DEF AlertedInv
<1> QED BY <1>2, <1>3, <1>4

LEMMA OtelMoveFacts ==
  ASSUME ReportInv, NEW r \in Reports, report[r].stage \in InHandler,
         NEW st \in RepStages, OtelMove(r, st)
  PROVE  /\ report[r] \in Received /\ report'[r] \in Received /\ report'[r].stage = st
         /\ report'[r].gw = report[r].gw /\ report'[r].name = report[r].name
         /\ report'[r].body = report[r].body /\ report'[r].next = report[r].next
         /\ report'[r].scope = report[r].scope
         /\ report' = [report EXCEPT ![r] = report'[r]]
         /\ \A q \in Reports : q # r => report'[q] = report[q]
<1>1. report[r] \in Received
  BY ReportShapes DEF InHandler
<1>2. /\ report'[r] = [report[r] EXCEPT !.stage = st]
      /\ \A q \in Reports : q # r => report'[q] = report[q]
  BY DEF OtelMove, ReportInv
<1>3. report' = [report EXCEPT ![r] = report'[r]]
  BY <1>2 DEF OtelMove, ReportInv
<1>4. report'[r] \in Received /\ report'[r].stage = st
  BY <1>1, <1>2 DEF Received
<1>5. /\ report'[r].gw = report[r].gw /\ report'[r].name = report[r].name
      /\ report'[r].body = report[r].body /\ report'[r].next = report[r].next
      /\ report'[r].scope = report[r].scope
  BY <1>1, <1>2 DEF Received
<1> QED BY <1>1, <1>2, <1>3, <1>4, <1>5

\* A report that neither makes nor announces a sighting.
LEMMA QuietReport ==
  ASSUME SightInv, NEW r \in Reports, discovered' = discovered, Announcements' = Announcements,
         UNCHANGED call, \A q \in Reports : q # r => report'[q] = report[q],
         report[r].stage \notin Sighting, report'[r].stage \notin Sighting
  PROVE  SightInv'
<1>1. \A x \in Requests : Req(x)' = Req(x) \/ (Req(x).stage \notin Sighting /\ Req(x)'.stage \notin Sighting)
  BY DEF Requests, Req
<1> QED BY <1>1, SightStays DEF Sighting

LEMMA OtelDiscoverKeeps ==
  ASSUME OtelInv, UNCHANGED credVars, NEW r \in Reports, OtelDiscover(r)
  PROVE  OtelInv'
<1> DEFINE st == IF report[r].name \in discovered THEN "limit" ELSE "announce"
<1>1. st \in RepStages /\ st \in InHandler /\ OtelMove(r, st) /\ report[r].stage \in InHandler
  BY DEF OtelDiscover, OtelTurn, RepStages, InHandler
<1>2. /\ report[r] \in Received /\ report'[r] \in Received /\ report'[r].stage = st
      /\ report'[r].gw = report[r].gw /\ report'[r].name = report[r].name
      /\ report'[r].body = report[r].body /\ report'[r].next = report[r].next
      /\ report'[r].scope = report[r].scope
      /\ report' = [report EXCEPT ![r] = report'[r]]
      /\ \A q \in Reports : q # r => report'[q] = report[q]
  BY <1>1, OtelMoveFacts DEF OtelInv
<1>3. GwInv(Workers)'
  <2>1. discovered' \subseteq Names
    BY <1>2 DEF OtelDiscover, Received, OtelInv, GwInv, Shapes
  <2> QED BY <2>1, ReportsWrite DEF OtelDiscover, OtelInv
<1>4. LoggedItems(r)' = LoggedItems(r)
  BY DEF OtelDiscover, LoggedItems
<1>5. BatchInv!(r)'
  BY <1>2, <1>4 DEF OtelInv, BatchInv, OtelDiscover, OtelTurn, WellFormed, InHandler
<1>6. AlertedInv!(r)'
  BY <1>2, <1>4 DEF OtelInv, AlertedInv, OtelDiscover, Outside
<1>7. (ReportInv /\ BatchInv /\ AlertedInv)'
  BY <1>1, <1>2, <1>5, <1>6, OneReport DEF OtelDiscover, OtelInv, ReportInv
<1>8. SightInv'
  <2>1. CASE report[r].name \in discovered
    <3>1. discovered' = discovered /\ Announcements' = Announcements /\ call' = call
      BY <2>1 DEF OtelDiscover, Announcements
    <3> QED BY <1>2, <2>1, <3>1, QuietReport DEF OtelInv, OtelDiscover, OtelTurn, Sighting
  <2>2. CASE report[r].name \notin discovered
    <3>1. Req(r) = report[r] /\ Req(r)' = report'[r] /\ r \in Requests
      BY OtelAssumption DEF Req, Requests
    <3>2. \A x \in Requests : x # r => Req(x)' = Req(x)
      BY <1>2 DEF Req, Requests, OtelDiscover
    <3> QED BY <1>2, <2>2, <3>1, <3>2, SightMade DEF OtelDiscover, OtelTurn, OtelInv, Sighting
  <2> QED BY <2>1, <2>2
<1> QED BY <1>3, <1>7, <1>8 DEF OtelInv

\* Writing agent.discovered.
LEMMA OtelAnnounceKeeps ==
  ASSUME OtelInv, UNCHANGED credVars, NEW r \in Reports, OtelAnnounce(r)
  PROVE  OtelInv'
<1>1. "announce_alert" \in RepStages /\ report[r].stage \in InHandler
  BY DEF OtelAnnounce, OtelTurn, RepStages, InHandler
<1>2. /\ report[r] \in Received /\ report'[r] \in Received /\ report'[r].stage = "announce_alert"
      /\ report'[r].gw = report[r].gw /\ report'[r].name = report[r].name
      /\ report'[r].body = report[r].body /\ report'[r].next = report[r].next
      /\ report'[r].scope = report[r].scope
      /\ report' = [report EXCEPT ![r] = report'[r]]
      /\ \A q \in Reports : q # r => report'[q] = report[q]
  BY <1>1, OtelMoveFacts DEF OtelInv, OtelAnnounce
<1> DEFINE e == [call |-> r, name |-> report[r].name, type |-> "agent.discovered", item |-> 0]
<1>3. /\ log' = log \cup {e} /\ e.call = r /\ e.type = "agent.discovered"
      /\ Announces(e, report[r].name)
  BY DEF OtelAnnounce, OtelRecord, Announces
<1> HIDE DEF e
<1>4. GwInv(Workers)'
  <2>1. discovered' \subseteq Names
    BY DEF OtelAnnounce, OtelInv, GwInv, Shapes
  <2> QED BY <1>3, <2>1, ReportsWrite DEF OtelAnnounce, OtelInv
<1>5. LoggedItems(r)' = LoggedItems(r)
  BY <1>3, ItemsStay
<1>6. BatchInv!(r)'
  BY <1>2, <1>5 DEF OtelInv, BatchInv, OtelAnnounce, OtelTurn, WellFormed, InHandler
<1>7. AlertedInv!(r)'
  BY <1>2, <1>5 DEF OtelInv, AlertedInv, OtelAnnounce, Outside
<1>8. (ReportInv /\ BatchInv /\ AlertedInv)'
  BY <1>1, <1>2, <1>3, <1>6, <1>7, OneReport DEF OtelAnnounce, OtelInv, ReportInv
<1>9. SightInv'
  <2>1. Req(r) = report[r] /\ Req(r)' = report'[r] /\ r \in Requests
    BY OtelAssumption DEF Req, Requests
  <2>2. \A x \in Requests : x # r => Req(x)' = Req(x)
    BY <1>2 DEF Req, Requests, OtelAnnounce
  <2>3. Req(r)'.stage \notin Sighting /\ Req(r).stage = "announce" /\ discovered' = discovered
    BY <1>2, <2>1 DEF Sighting, OtelAnnounce, OtelTurn
  <2> QED BY <1>3, <2>1, <2>2, <2>3, SightAnnounced DEF OtelInv
<1> QED BY <1>4, <1>8, <1>9 DEF OtelInv

\* A step on to the next part of the handler, with an alert at most.
LEMMA OtelQuietMove ==
  ASSUME OtelInv, UNCHANGED <<credVars, scope, gw, discovered, log, call, ended>>,
         alerts \subseteq alerts',
         NEW r \in Reports, report[r].stage \in InHandler, report[r].stage # "announce",
         NEW st \in {"limit", "items", "alerted"}, OtelMove(r, st),
         IF st = "limit" THEN LoggedItems(r) = {} /\ report[r].next = 1
                         ELSE LoggedItems(r) = 1..(report[r].next - 1),
         st = "alerted" => ScopeAlert(r, report[r].next) \in alerts'
  PROVE  OtelInv'
<1>1. st \in RepStages /\ st \in InHandler
  BY DEF RepStages, InHandler
<1>2. /\ report[r] \in Received /\ report'[r] \in Received /\ report'[r].stage = st
      /\ report'[r].gw = report[r].gw /\ report'[r].name = report[r].name
      /\ report'[r].body = report[r].body /\ report'[r].next = report[r].next
      /\ report'[r].scope = report[r].scope
      /\ report' = [report EXCEPT ![r] = report'[r]]
      /\ \A q \in Reports : q # r => report'[q] = report[q]
  BY <1>1, OtelMoveFacts DEF OtelInv
<1>3. GwInv(Workers)'
  <2>1. discovered' \subseteq Names
    BY DEF OtelInv, GwInv, Shapes
  <2> QED BY <2>1, ReportsWrite DEF OtelInv
<1>4. LoggedItems(r)' = LoggedItems(r)
  BY DEF LoggedItems
<1>5. BatchInv!(r)'
  BY <1>2, <1>4 DEF OtelInv, BatchInv, WellFormed, InHandler
<1>6. AlertedInv!(r)'
  BY <1>2, <1>4 DEF OtelInv, AlertedInv, Outside, ScopeAlert
<1>7. (ReportInv /\ BatchInv /\ AlertedInv)'
  BY <1>1, <1>2, <1>5, <1>6, OneReport DEF OtelInv, ReportInv
<1>8. SightInv'
  <2>1. Announcements' = Announcements
    BY DEF Announcements
  <2> QED BY <1>2, <2>1, QuietReport DEF OtelInv, InHandler, Sighting
<1> QED BY <1>3, <1>7, <1>8 DEF OtelInv

LEMMA OtelAnnounceAlertKeeps ==
  ASSUME OtelInv, UNCHANGED credVars, NEW r \in Reports, OtelAnnounceAlert(r)
  PROVE  OtelInv'
<1>1. /\ report[r].stage = "announce_alert" /\ report[r].stage \in InHandler
      /\ LoggedItems(r) = {} /\ report[r].next = 1
  BY DEF OtelAnnounceAlert, OtelTurn, InHandler, OtelInv, BatchInv
<1> QED BY <1>1, OtelQuietMove DEF OtelAnnounceAlert, OtelAlert

LEMMA OtelAllowedKeeps ==
  ASSUME OtelInv, UNCHANGED credVars, NEW r \in Reports, OtelAllowed(r)
  PROVE  OtelInv'
<1>1. /\ report[r].stage = "limit" /\ report[r].stage \in InHandler
      /\ LoggedItems(r) = {} /\ report[r].next = 1
  BY DEF OtelAllowed, OtelTurn, InHandler, OtelInv, BatchInv
<1>2. LoggedItems(r) = 1..(report[r].next - 1)
  BY <1>1
<1> QED BY <1>1, <1>2, OtelQuietMove DEF OtelAllowed

LEMMA OtelScopeAlertKeeps ==
  ASSUME OtelInv, UNCHANGED credVars, NEW r \in Reports, OtelScopeAlert(r)
  PROVE  OtelInv'
<1>1. /\ report[r].stage = "items" /\ report[r].stage \in InHandler
      /\ LoggedItems(r) = 1..(report[r].next - 1)
  BY DEF OtelScopeAlert, OtelTurn, InHandler, OtelInv, BatchInv
<1>2. alerts \subseteq alerts' /\ ScopeAlert(r, report[r].next) \in alerts'
  BY DEF OtelScopeAlert, OtelAlert, ScopeAlert
<1> QED BY <1>1, <1>2, OtelQuietMove DEF OtelScopeAlert

\* The response: the loop is free again.
LEMMA OtelFrees ==
  ASSUME OtelInv, UNCHANGED <<credVars, scope, ended, call, discovered, alerts>>,
         log \subseteq log', \A e \in log' : e \in log \/ e.call \in Reports,
         NEW r \in Reports, report[r].stage \in InHandler, gw[report[r].gw].busy = r,
         gw' = [gw EXCEPT ![report[r].gw].busy = NoCall]
  PROVE  GwInv(Workers)' /\ \A g \in Gateways : gw[g].mode = "up" => gw'[g].mode = "up"
<1> DEFINE g == report[r].gw
           new == [gw[g] EXCEPT !.busy = NoCall]
<1>1. g \in Gateways /\ gw[g].mode = "up"
  BY ReportShapes DEF OtelInv, ReportInv, InHandler, Received
<1>2. /\ gw[g] \in Up(Workers) /\ gw[g].read_at <= gw[g].loaded_at
      /\ gw[g].loaded_at <= clock /\ Backed(gw[g].registry, gw[g].read_at)
  BY <1>1, GwShapes DEF OtelInv, GwInv, RegistryInv
<1>3. /\ new \in Up(Workers) /\ new.mode = "up" /\ new.busy = NoCall
      /\ new.loaded_at = gw[g].loaded_at /\ new.read_at = gw[g].read_at
      /\ new.registry = gw[g].registry
  BY <1>2 DEF Up, Workers
<1>4. gw' = [gw EXCEPT ![g] = new]
  BY <1>1 DEF OtelInv, GwInv, Shapes
<1>5. gw[g].busy \notin Calls
  BY OtelAssumption
<1> HIDE DEF new, g
<1>6. GwInv(Workers)'
  BY <1>1, <1>2, <1>3, <1>4, <1>5, ReportsHold, GatewayAssumption DEF OtelInv
<1>7. \A h \in Gateways : gw[h].mode = "up" => gw'[h].mode = "up"
  BY <1>1, <1>3, <1>4 DEF OtelInv, GwInv, Shapes
<1> QED BY <1>6, <1>7

LEMMA OtelLimitedKeeps ==
  ASSUME OtelInv, UNCHANGED credVars, NEW r \in Reports, OtelLimited(r)
  PROVE  OtelInv'
<1>1. /\ "429" \in RepStages /\ report[r].stage \in InHandler /\ OtelMove(r, "429")
      /\ LoggedItems(r) = {}
  BY DEF OtelLimited, OtelTurn, OtelAnswer, RepStages, InHandler, OtelInv, BatchInv
<1>2. /\ report[r] \in Received /\ report'[r] \in Received /\ report'[r].stage = "429"
      /\ report'[r].body = report[r].body /\ report'[r].next = report[r].next
      /\ report' = [report EXCEPT ![r] = report'[r]]
      /\ \A q \in Reports : q # r => report'[q] = report[q]
  BY <1>1, OtelMoveFacts DEF OtelInv
<1>3. GwInv(Workers)' /\ \A g \in Gateways : gw[g].mode = "up" => gw'[g].mode = "up"
  BY <1>1, OtelFrees DEF OtelLimited, OtelTurn, OtelAnswer
<1>4. LoggedItems(r)' = {}
  BY <1>1 DEF OtelLimited, LoggedItems
<1>5. BatchInv!(r)' /\ AlertedInv!(r)'
  BY <1>2, <1>4 DEF InHandler
<1>6. (ReportInv /\ BatchInv /\ AlertedInv)'
  BY <1>2, <1>3, <1>5, OneReport DEF OtelLimited, InHandler
<1>7. SightInv'
  <2>1. Announcements' = Announcements
    BY DEF OtelLimited, Announcements
  <2> QED BY <1>2, <2>1, QuietReport DEF OtelInv, OtelLimited, OtelTurn, Sighting
<1> QED BY <1>3, <1>6, <1>7 DEF OtelInv

\* A refused write: 500, with what was logged before it.
LEMMA OtelWriteRefusedKeeps ==
  ASSUME OtelInv, UNCHANGED credVars, NEW r \in Reports, OtelWriteRefused(r)
  PROVE  OtelInv'
<1> DEFINE st == Failed(report[r].stage)
<1>1. /\ report[r].stage \in InHandler \ {"limit"} /\ gw[report[r].gw].busy = r
      /\ OtelMove(r, st) /\ gw' = [gw EXCEPT ![report[r].gw].busy = NoCall]
      /\ UNCHANGED <<scope, discovered, log, alerts, call, ended>>
  BY DEF OtelWriteRefused, OtelTurn, OtelAnswer
<1>2. /\ st \in RepStages /\ st \in {"500", "500_unannounced"}
      /\ st = "500_unannounced" <=> report[r].stage = "announce"
  BY DEF Failed, RepStages
<1> HIDE DEF st
<1>3. /\ report[r] \in Received /\ report'[r] \in Received /\ report'[r].stage = st
      /\ report'[r].name = report[r].name
      /\ report'[r].body = report[r].body /\ report'[r].next = report[r].next
      /\ report'[r].scope = report[r].scope
      /\ report' = [report EXCEPT ![r] = report'[r]]
      /\ \A q \in Reports : q # r => report'[q] = report[q]
  BY <1>1, <1>2, OtelMoveFacts DEF OtelInv
<1>4. GwInv(Workers)' /\ \A g \in Gateways : gw[g].mode = "up" => gw'[g].mode = "up"
  BY <1>1, OtelFrees
<1>5. LoggedItems(r)' = LoggedItems(r)
  BY <1>1 DEF LoggedItems
<1>6. BatchInv!(r)'
  <2>1. CASE report[r].stage = "announce"
    BY <1>2, <1>3, <1>5, <2>1 DEF OtelInv, BatchInv, InHandler
  <2>2. CASE report[r].stage \in {"discover", "announce_alert", "items", "alerted"}
    <3>1. LoggedItems(r) = {} /\ report[r].next = 1 => LoggedItems(r) = 1..(report[r].next - 1)
      OBVIOUS
    <3>2. LoggedItems(r) = 1..(report[r].next - 1)
      BY <2>2, <3>1 DEF OtelInv, BatchInv
    <3>3. report'[r].stage = "500"
      BY <1>2, <1>3, <2>2
    <3>4. report[r].next <= Len(report[r].body)
      BY <2>2 DEF OtelInv, BatchInv, InHandler
    <3> QED BY <1>3, <1>5, <3>2, <3>3, <3>4 DEF InHandler
  <2> QED BY <1>1, <2>1, <2>2 DEF InHandler
<1>7. AlertedInv!(r)'
  BY <1>1, <1>2, <1>3, <1>5 DEF OtelInv, AlertedInv, Outside
<1>8. (ReportInv /\ BatchInv /\ AlertedInv)'
  BY <1>1, <1>2, <1>3, <1>4, <1>6, <1>7, OneReport DEF InHandler
<1>9. SightInv'
  <2>1. Announcements' = Announcements
    BY <1>1 DEF Announcements
  <2>2. \A x \in Requests :
          /\ Req(x)'.stage = "announce" => Req(x).stage = "announce" /\ Req(x)'.name = Req(x).name
          /\ Req(x).stage \in Sighting => Req(x)'.stage \in Sighting /\ Req(x)'.name = Req(x).name
    <3>1. report[r].stage \in Sighting => report[r].stage = "announce"
      BY <1>1 DEF Sighting, InHandler
    <3> QED BY <1>1, <1>2, <1>3, <3>1 DEF Req, Requests, Sighting
  <2> QED BY <1>1, <2>1, <2>2, SightStays DEF OtelInv
<1> QED BY <1>4, <1>8, <1>9 DEF OtelInv

\* An item's event is the next one of the batch, and its alert is there.
LEMMA OtelLogItemKeeps ==
  ASSUME OtelInv, UNCHANGED credVars, NEW r \in Reports, OtelLogItem(r)
  PROVE  OtelInv'
<1> DEFINE n == report[r].next
<1>1. /\ report[r].stage \in {"items", "alerted"} /\ report[r].stage \in InHandler
      /\ gw[report[r].gw].busy = r
      /\ report[r].stage = "alerted" \/ ~Outside(r, Item(r))
  BY DEF OtelLogItem, OtelTurn, InHandler
<1>2. report[r] \in Received /\ n \in Nat \ {0} /\ report[r].body \in Bodies
  BY <1>1, ReportShapes DEF OtelInv, InHandler, Received
<1>3. LoggedItems(r) = 1..(n - 1) /\ n <= Len(report[r].body) /\ WellFormed(r)
  BY <1>1 DEF OtelInv, BatchInv
<1> DEFINE e == [call |-> r, name |-> report[r].name, type |-> "tool.called", item |-> n]
<1>4. /\ log' = log \cup {e} /\ e.call = r /\ e.type = "tool.called" /\ e.item = n
      /\ alerts' = alerts /\ discovered' = discovered /\ UNCHANGED <<scope, ended, call>>
  BY DEF OtelLogItem, OtelRecord
<1> HIDE DEF e
<1>5. LoggedItems(r)' = 1..n
  <2>1. LoggedItems(r)' = LoggedItems(r) \cup {n}
    BY <1>4 DEF LoggedItems
  <2> QED BY <1>2, <1>3, <2>1
<1>6. /\ report'[r] \in Received /\ report'[r].stage \in {"202", "items"}
      /\ report'[r].gw = report[r].gw
      /\ report'[r].body = report[r].body /\ report'[r].scope = report[r].scope
      /\ report'[r].stage = "202" => n = Len(report[r].body)
      /\ report'[r].stage = "items" => n # Len(report[r].body) /\ report'[r].next = n + 1
      /\ report' = [report EXCEPT ![r] = report'[r]]
      /\ \A q \in Reports : q # r => report'[q] = report[q]
      /\ report'[r].stage = "202" => gw' = [gw EXCEPT ![report[r].gw].busy = NoCall]
      /\ report'[r].stage = "items" => gw' = gw
  <2>1. CASE n = Len(report[r].body)
    <3>1. OtelMove(r, "202") /\ "202" \in RepStages
          /\ gw' = [gw EXCEPT ![report[r].gw].busy = NoCall]
      BY <2>1 DEF OtelLogItem, OtelAnswer, RepStages
    <3> QED BY <1>1, <2>1, <3>1, OtelMoveFacts DEF OtelInv
  <2>2. CASE n # Len(report[r].body)
    <3>1. report' = [report EXCEPT ![r].stage = "items", ![r].next = @ + 1] /\ gw' = gw
      BY <2>2 DEF OtelLogItem
    <3>2. /\ report'[r] = [report[r] EXCEPT !.stage = "items", !.next = report[r].next + 1]
          /\ \A q \in Reports : q # r => report'[q] = report[q]
      BY <3>1 DEF OtelInv, ReportInv
    <3>3. report' = [report EXCEPT ![r] = report'[r]]
      BY <3>1, <3>2 DEF OtelInv, ReportInv
    <3>4. /\ report'[r] \in Received /\ report'[r].stage = "items" /\ report'[r].next = n + 1
          /\ report'[r].gw = report[r].gw
          /\ report'[r].body = report[r].body /\ report'[r].scope = report[r].scope
      <4>1. report[r].next + 1 \in Nat \ {0} /\ "items" \in RepStages
        BY <1>2 DEF RepStages
      <4>2. report'[r] \in Received /\ report'[r].stage = "items"
        BY <1>2, <3>2, <4>1 DEF Received
      <4> QED BY <1>2, <3>2, <4>2 DEF Received
    <3> QED BY <2>2, <3>1, <3>2, <3>3, <3>4
  <2> QED BY <2>1, <2>2
<1>7. GwInv(Workers)' /\ \A g \in Gateways : gw[g].mode = "up" => gw'[g].mode = "up"
  <2>1. CASE report'[r].stage = "202"
    BY <1>1, <1>4, <1>6, <2>1, OtelFrees
  <2>2. CASE report'[r].stage = "items"
    <3>1. discovered' \subseteq Names
      BY <1>4 DEF OtelInv, GwInv, Shapes
    <3> QED BY <1>4, <1>6, <2>2, <3>1, ReportsWrite DEF OtelInv
  <2> QED BY <1>6, <2>1, <2>2
<1>8. BatchInv!(r)'
  <2>1. Len(report[r].body) \in Nat
    BY <1>2, BodyFacts
  <2>2. CASE report'[r].stage = "202"
    BY <1>3, <1>5, <1>6, <2>2 DEF WellFormed, InHandler
  <2>3. CASE report'[r].stage = "items"
    <3>1. LoggedItems(r)' = 1..(report'[r].next - 1) /\ report'[r].next <= Len(report'[r].body)
      BY <1>2, <1>3, <1>5, <1>6, <2>1, <2>3
    <3> QED BY <1>3, <1>6, <2>3, <3>1 DEF WellFormed
  <2> QED BY <1>6, <2>2, <2>3
<1>9. AlertedInv!(r)'
  <2>1. \A i \in LoggedItems(r) : Outside(r, report[r].body[i]) => ScopeAlert(r, i) \in alerts
    BY DEF OtelInv, AlertedInv
  <2>2. Outside(r, report[r].body[n]) => ScopeAlert(r, n) \in alerts
    BY <1>1 DEF OtelInv, AlertedInv, Item
  <2>3. \A i \in 1..n : i \in LoggedItems(r) \/ i = n
    BY <1>2, <1>3
  <2>4. ASSUME NEW i \in LoggedItems(r)', Outside(r, report[r].body[i])'
        PROVE  ScopeAlert(r, i) \in alerts
    <3>1. Outside(r, report[r].body[i])
      BY <1>6, <2>4 DEF Outside
    <3> QED BY <1>5, <2>1, <2>2, <2>3, <3>1
  <2> QED BY <1>4, <1>6, <2>4 DEF ScopeAlert
<1>10. (ReportInv /\ BatchInv /\ AlertedInv)'
  BY <1>1, <1>4, <1>6, <1>7, <1>8, <1>9, OneReport DEF OtelInv, ReportInv
<1>11. SightInv'
  <2>1. Announcements' = Announcements
    BY <1>4 DEF Announcements
  <2> QED BY <1>1, <1>4, <1>6, <2>1, QuietReport DEF OtelInv, Sighting
<1> QED BY <1>7, <1>10, <1>11 DEF OtelInv

\* A request is read: refused on the spot, or the loop is its own.
LEMMA OtelReceiveKeeps ==
  ASSUME OtelInv, UNCHANGED credVars, NEW r \in Reports, NEW g \in Gateways,
         NEW k \in Tokens \cup {NoToken}, NEW body \in Bodies, NEW n \in Names,
         OtelReceive(r, g, k, body, n)
  PROVE  OtelInv'
<1> DEFINE bad == Malformed \in {body[i] : i \in DOMAIN body}
           stage == IF bad THEN "400" ELSE OtelFirstStage(g, k)
           sc == IF ~bad /\ Identified(g, k) THEN Refreshed(g).registry[k].scope ELSE Unscoped
           rep == [stage |-> stage, gw |-> g, name |-> n, body |-> body, next |-> 1, scope |-> sc]
           new == [Refreshed(g) EXCEPT !.busy = IF stage = "401" THEN NoCall ELSE r]
<1>1. /\ report[r].stage = "new" /\ gw[g].mode = "up" /\ gw[g].busy = NoCall
      /\ UNCHANGED <<scope, discovered, log, alerts, call, ended>>
      /\ report' = [report EXCEPT ![r] = rep]
      /\ gw' = IF bad THEN gw ELSE [gw EXCEPT ![g] = new]
  BY DEF OtelReceive
<1>2. stage \in {"400", "401", "limit", "discover"} /\ (bad <=> stage = "400")
  BY DEF OtelFirstStage
<1>3. /\ Refreshed(g) \in Up(Workers) /\ Refreshed(g).read_at <= Refreshed(g).loaded_at
      /\ Refreshed(g).loaded_at <= clock
      /\ Backed(Refreshed(g).registry, Refreshed(g).read_at)
  BY <1>1, RefreshedFacts DEF OtelInv
<1>4. sc \in Scopes \cup {Unscoped}
  <2>1. Refreshed(g).registry \in Registries
    BY <1>3 DEF Up
  <2>2. ASSUME Identified(g, k) PROVE Refreshed(g).registry[k].scope \in Scopes
    <3>1. k \in Tokens /\ Refreshed(g).registry[k] # Missing
      BY <2>2 DEF Identified, Missing
    <3>2. Refreshed(g).registry[k] \in {Missing} \cup [known : {TRUE}, scope : Scopes]
      BY <2>1, <3>1 DEF Registries
    <3> QED BY <3>1, <3>2
  <2> QED BY <2>2
<1>5. /\ new \in Up(Workers) /\ new.mode = "up" /\ new.busy \in Reports \cup {NoCall}
      /\ new.loaded_at = Refreshed(g).loaded_at /\ new.read_at = Refreshed(g).read_at
      /\ new.registry = Refreshed(g).registry
  BY <1>3 DEF Up, Workers
<1>6. rep \in Received /\ rep.stage = stage /\ rep.gw = g /\ rep.body = body /\ rep.next = 1
  BY <1>2, <1>4 DEF Received, RepStages
<1>7. bad <=> Malformed \in {body[i] : i \in DOMAIN body}
  OBVIOUS
<1> HIDE DEF new, sc, bad, stage, rep
<1>8. GwInv(Workers)' /\ \A h \in Gateways : gw[h].mode = "up" => gw'[h].mode = "up"
  <2>1. CASE bad
    <3>1. discovered' \subseteq Names
      BY <1>1 DEF OtelInv, GwInv, Shapes
    <3> QED BY <1>1, <2>1, <3>1, ReportsWrite DEF OtelInv
  <2>2. CASE ~bad
    <3>1. gw[g].busy \notin Calls /\ new.busy \notin Calls /\ gw' = [gw EXCEPT ![g] = new]
      BY <1>1, <1>5, <2>2, OtelAssumption, GatewayAssumption
    <3>2. GwInv(Workers)'
      BY <1>1, <1>3, <1>5, <3>1, ReportsHold DEF OtelInv
    <3>3. \A h \in Gateways : gw[h].mode = "up" => gw'[h].mode = "up"
      BY <1>5, <3>1 DEF OtelInv, GwInv, Shapes
    <3> QED BY <3>2, <3>3
  <2> QED BY <2>1, <2>2
<1>9. report'[r] = rep /\ \A q \in Reports : q # r => report'[q] = report[q]
  BY <1>1 DEF OtelInv, ReportInv
<1>10. LoggedItems(r)' = {}
  BY <1>1 DEF LoggedItems, OtelInv, BatchInv
<1>11. BatchInv!(r)'
  <2>1. 1 <= Len(body)
    BY BodyFacts
  <2> QED BY <1>2, <1>6, <1>7, <1>9, <1>10, <2>1 DEF WellFormed, InHandler
<1>12. AlertedInv!(r)'
  BY <1>2, <1>6, <1>9, <1>10
<1>13. (ReportInv /\ BatchInv /\ AlertedInv)'
  BY <1>1, <1>6, <1>8, <1>9, <1>11, <1>12, OneReport
<1>14. SightInv'
  <2>1. Announcements' = Announcements
    BY <1>1 DEF Announcements
  <2> QED BY <1>1, <1>2, <1>6, <1>9, <2>1, QuietReport DEF OtelInv, Sighting
<1> QED BY <1>8, <1>13, <1>14 DEF OtelInv

LEMMA OtelInitHolds == OtelInit => OtelInv
<1> SUFFICES ASSUME OtelInit PROVE OtelInv
  OBVIOUS
<1>1. GwInv(Workers)
  BY GwInitHolds DEF OtelInit
<1>2. ReportInv
  BY DEF OtelInit, ReportInv, Fresh, InHandler
<1>3. \A r \in Reports : report[r].stage = "new" /\ LoggedItems(r) = {}
  BY DEF OtelInit, GwInit, LoggedItems, Fresh
<1>4. BatchInv /\ AlertedInv
  BY <1>3 DEF BatchInv, AlertedInv, InHandler
<1>5. \A x \in Requests : Req(x).stage = "new"
  BY DEF OtelInit, GwInit, Req, Requests, Fresh
<1>6. SightInv
  BY <1>5 DEF SightInv, OtelInit, GwInit
<1> QED BY <1>1, <1>2, <1>4, <1>6 DEF OtelInv

LEMMA OtelNextKeeps ==
  ASSUME OtelInv, [OtelNext]_otelVars
  PROVE  OtelInv'
<1>1. CASE UNCHANGED report /\ (Tick \/ CliStep \/ (UNCHANGED credVars /\ GwStep))
  BY <1>1, GatewayKeeps
<1>2. CASE UNCHANGED credVars /\ OtelStep
  BY <1>2, OtelReceiveKeeps, OtelDiscoverKeeps, OtelAnnounceKeeps, OtelAnnounceAlertKeeps,
     OtelLimitedKeeps, OtelAllowedKeeps, OtelScopeAlertKeeps, OtelLogItemKeeps,
     OtelWriteRefusedKeeps DEF OtelStep, OtelWork
<1>3. CASE UNCHANGED credVars /\ \E g \in Gateways : OtelCrash(g)
  BY <1>3, OtelCrashKeeps
<1>4. CASE UNCHANGED otelVars
  <2>1. UNCHANGED <<credVars, scope, ended, call, gw, discovered, log, alerts, report>>
    BY <1>4 DEF otelVars, allVars, gwVars
  <2>2. GwInv(Workers)'
    <3>1. discovered' \subseteq Names
      BY <2>1 DEF OtelInv, GwInv, Shapes
    <3> QED BY <2>1, <3>1, ReportsWrite DEF OtelInv
  <2>3. (ReportInv /\ BatchInv /\ AlertedInv)'
    BY <2>1, ReportsUntouched DEF OtelInv, LoggedItems
  <2>4. SightInv'
    BY <2>1, SightStays DEF OtelInv, Announcements, Req
  <2> QED BY <2>2, <2>3, <2>4 DEF OtelInv
<1> QED BY <1>1, <1>2, <1>3, <1>4 DEF OtelNext

-------------------------------------------------------------------------------
(* The SDK's side.                                                          *)

Outcomes == {"pending", "returned", "own_exception", "report_error", "os_error",
             "encoding_error"}
Clients == [stage : {"posting", "sent", "done"}, at : Gateways \cup {NoCall},
            outcome : Outcomes, block : Blocks, raise_on_error : BOOLEAN]
Refusals == {"400", "401", "429", "500", "500_unannounced"}

\* What a client knows of its report: it has not left, or no gateway holds it,
\* or the answer was given, and answers are final.
ClientInv ==
  /\ client \in [Reports -> {NoClient} \cup Clients]
  /\ \A r \in Reports :
       /\ client[r].stage = "posting" => report[r].stage = "new" /\ client[r].at = NoCall
       /\ client[r] # NoClient => report[r].stage = "new" \/ Len(report[r].body) = 1
       /\ client[r].stage = "done" /\ client[r].outcome = "report_error" =>
            \/ report[r].stage = "new" /\ client[r].at = NoCall
            \/ report[r].stage \in Refusals
       /\ client[r].stage = "done" /\ client[r].outcome = "returned" /\ client[r].raise_on_error =>
            report[r].stage = "202"
       /\ client[r].stage = "done" /\ client[r].outcome = "encoding_error" =>
            report[r].stage = "new" /\ client[r].at = NoCall
       /\ client[r].stage = "done" /\ client[r].block = "raised" =>
            client[r].outcome # "report_error"

SdkInv == OtelInv /\ ClientInv

\* A report is read once, and its body and its answer stay.
LEMMA ReportSteps ==
  ASSUME OtelInv, OtelNext, NEW r \in Reports
  PROVE  /\ report[r].stage # "new" => report'[r].stage # "new" /\ report'[r].body = report[r].body
         /\ report[r].stage \in Refusals \cup {"202"} => report'[r] = report[r]
<1> DEFINE Kept == /\ report[r].stage # "new" =>
                        report'[r].stage # "new" /\ report'[r].body = report[r].body
                   /\ report[r].stage \in Refusals \cup {"202"} => report'[r] = report[r]
<1>1. UNCHANGED report => Kept
  OBVIOUS
<1>2. ASSUME NEW q \in Reports, NEW g, NEW k, NEW body, NEW n, OtelReceive(q, g, k, body, n)
      PROVE  Kept
  <2>1. q # r => report'[r] = report[r]
    BY <1>2 DEF OtelReceive, OtelInv, ReportInv
  <2>2. q = r => report[r].stage = "new"
    BY <1>2 DEF OtelReceive
  <2> QED BY <2>1, <2>2 DEF Refusals
<1>3. ASSUME NEW q \in Reports, report[q].stage \in InHandler, NEW st \in RepStages, OtelMove(q, st)
      PROVE  Kept
  <2>1. /\ q # r => report'[r] = report[r]
        /\ report'[q].stage = st /\ report'[q].body = report[q].body
    BY <1>3, OtelMoveFacts DEF OtelInv
  <2> QED BY <1>3, <2>1 DEF Refusals, InHandler, RepStages
<1>4. ASSUME NEW q \in Reports,
             OtelDiscover(q) \/ OtelAnnounce(q) \/ OtelAnnounceAlert(q) \/ OtelLimited(q)
               \/ OtelAllowed(q) \/ OtelScopeAlert(q) \/ OtelWriteRefused(q)
      PROVE  Kept
  <2>1. \E st \in RepStages : report[q].stage \in InHandler /\ OtelMove(q, st)
    BY <1>4 DEF OtelDiscover, OtelAnnounce, OtelAnnounceAlert, OtelLimited, OtelAllowed,
                OtelScopeAlert, OtelWriteRefused, Failed, OtelAnswer, OtelTurn, RepStages,
                InHandler
  <2> QED BY <1>3, <2>1
<1>5. ASSUME NEW q \in Reports, OtelLogItem(q) PROVE Kept
  <2>1. report[q].stage \in InHandler /\ report[q] \in Received
    BY <1>5, ReportShapes DEF OtelLogItem, OtelTurn, InHandler, OtelInv
  <2>2. CASE OtelMove(q, "202")
    BY <1>3, <2>1, <2>2 DEF RepStages
  <2>3. CASE report' = [report EXCEPT ![q].stage = "items", ![q].next = @ + 1]
    <3>1. /\ q # r => report'[r] = report[r]
          /\ report'[q] = [report[q] EXCEPT !.stage = "items", !.next = report[q].next + 1]
      BY <2>3 DEF OtelInv, ReportInv
    <3>2. report'[q].stage = "items" /\ report'[q].body = report[q].body
      BY <2>1, <3>1 DEF Received
    <3> QED BY <2>1, <3>1, <3>2 DEF Refusals, InHandler
  <2> QED BY <1>5, <2>2, <2>3 DEF OtelLogItem, OtelAnswer
<1>6. ASSUME NEW g \in Gateways, OtelCrash(g) PROVE Kept
  <2>1. CASE report[r].stage \in InHandler /\ report[r].gw = g
    <3>1. report[r] \in Received
      BY <2>1, ReportShapes DEF OtelInv, InHandler
    <3>2. report'[r] = [report[r] EXCEPT !.stage = Lost(report[r].stage)]
      BY <1>6, <2>1 DEF OtelCrash
    <3>3. report'[r].stage # "new" /\ report'[r].body = report[r].body
      BY <3>1, <3>2 DEF Lost, Received
    <3> QED BY <2>1, <3>3 DEF Refusals, InHandler
  <2>2. CASE ~(report[r].stage \in InHandler /\ report[r].gw = g)
    BY <1>6, <2>2 DEF OtelCrash
  <2> QED BY <2>1, <2>2
<1> QED BY <1>1, <1>2, <1>4, <1>5, <1>6 DEF OtelNext, OtelStep, OtelWork

\* What the gateways do behind a client's back.
LEMMA GatewaySideKeeps ==
  ASSUME SdkInv, GatewaySide
  PROVE  SdkInv'
<1> USE BlockAssumption
<1>1. OtelInv'
  BY OtelNextKeeps DEF SdkInv, GatewaySide
<1>2. ASSUME NEW r \in Reports
      PROVE  /\ client'[r] = client[r] \/ client'[r] = [client[r] EXCEPT !.at = NoCall]
             /\ client'[r] \in {NoClient} \cup Clients
             /\ (client'[r] = NoClient) <=> (client[r] = NoClient)
             /\ client'[r].stage = client[r].stage
             /\ client[r].at = NoCall => client'[r].at = NoCall
             /\ client[r] # NoClient =>
                  /\ client'[r].outcome = client[r].outcome /\ client'[r].block = client[r].block
                  /\ client'[r].raise_on_error = client[r].raise_on_error
  <2>1. client'[r] = client[r] \/ client'[r] = [client[r] EXCEPT !.at = NoCall]
    BY DEF GatewaySide
  <2>2. CASE client[r] = NoClient
    BY <2>1, <2>2 DEF NoClient
  <2>3. CASE client[r] \in Clients
    BY <2>1, <2>3 DEF NoClient, Clients
  <2> QED BY <2>1, <2>2, <2>3 DEF SdkInv, ClientInv
<1>3. ASSUME NEW r \in Reports
      PROVE  /\ report[r].stage # "new" => report'[r].stage # "new" /\ report'[r].body = report[r].body
             /\ report[r].stage \in Refusals \cup {"202"} => report'[r] = report[r]
             /\ report[r].stage = "new" /\ report'[r].stage # "new" =>
                  client[r] = NoClient \/ (client[r].at # NoCall /\ Len(report'[r].body) = 1)
  <2>1. report'[r].stage # "new" => report'[r].gw \in Gateways
    BY <1>1, ReportShapes DEF OtelInv, ReportInv, Received, Fresh
  <2> QED BY <2>1, ReportSteps DEF SdkInv, GatewaySide, Readable
<1>4. client' \in [Reports -> {NoClient} \cup Clients]
  BY <1>2 DEF GatewaySide
<1>5. ASSUME NEW r \in Reports PROVE ClientInv!2!(r)'
  <2>1. CASE client[r] = NoClient
    BY <1>2, <2>1 DEF NoClient
  <2>2. CASE client[r] # NoClient
    <3>1. ClientInv!2!(r)
      BY DEF SdkInv, ClientInv
    <3>2. client[r].at = NoCall /\ report[r].stage = "new" =>
            report'[r].stage = "new" /\ client'[r].at = NoCall
      BY <1>2, <1>3, <2>2
    <3>3. client'[r].stage = "posting" => report'[r].stage = "new" /\ client'[r].at = NoCall
      BY <1>2, <3>1, <3>2
    <3>4. report'[r].stage = "new" \/ Len(report'[r].body) = 1
      BY <1>3, <2>2, <3>1
    <3>5. client'[r].stage = "done" /\ client'[r].outcome = "report_error" =>
            \/ report'[r].stage = "new" /\ client'[r].at = NoCall
            \/ report'[r].stage \in Refusals
      BY <1>2, <1>3, <2>2, <3>1, <3>2
    <3>6. client'[r].stage = "done" /\ client'[r].outcome = "returned" /\ client'[r].raise_on_error =>
            report'[r].stage = "202"
      BY <1>2, <1>3, <2>2, <3>1, Zenon
    <3>7. client'[r].stage = "done" /\ client'[r].outcome = "encoding_error" =>
            report'[r].stage = "new" /\ client'[r].at = NoCall
      BY <1>2, <2>2, <3>1, <3>2
    <3>8. client'[r].stage = "done" /\ client'[r].block = "raised" =>
            client'[r].outcome # "report_error"
      BY <1>2, <2>2, <3>1
    <3> QED BY <3>3, <3>4, <3>5, <3>6, <3>7, <3>8
  <2> QED BY <2>1, <2>2
<1> QED BY <1>1, <1>4, <1>5 DEF SdkInv, ClientInv

\* One client moves; its report does not.
LEMMA OneClient ==
  ASSUME SdkInv, NEW r \in Reports, UNCHANGED otelVars, client'[r] \in Clients,
         client' = [client EXCEPT ![r] = client'[r]], ClientInv!2!(r)'
  PROVE  SdkInv'
<1>1. OtelInv'
  BY OtelNextKeeps DEF SdkInv
<1>2. report' = report
  BY DEF otelVars
<1>3. \A q \in Reports : q # r => client'[q] = client[q]
  BY DEF SdkInv, ClientInv
<1>4. \A q \in Reports : q # r => ClientInv!2!(q)'
  BY <1>2, <1>3 DEF SdkInv, ClientInv
<1>5. client' \in [Reports -> {NoClient} \cup Clients]
  BY DEF SdkInv, ClientInv
<1> QED BY <1>1, <1>4, <1>5 DEF SdkInv, ClientInv

LEMMA TraceKeeps ==
  ASSUME SdkInv, NEW r \in Reports, NEW block \in Blocks, NEW strict \in BOOLEAN,
         trace_tool_call(r, block, strict)
  PROVE  SdkInv'
<1> DEFINE new == [stage |-> "posting", at |-> NoCall, outcome |-> "pending",
                   block |-> block, raise_on_error |-> strict]
<1>1. new \in Clients /\ new.stage = "posting" /\ new.at = NoCall
  BY DEF Clients, Outcomes
<1>2. client' = [client EXCEPT ![r] = new] /\ client'[r] = new
  BY DEF trace_tool_call, SdkInv, ClientInv
<1>3. report'[r].stage = "new" /\ UNCHANGED otelVars
  BY DEF trace_tool_call, otelVars
<1> HIDE DEF new
<1> QED BY <1>1, <1>2, <1>3, OneClient

LEMMA SendKeeps ==
  ASSUME SdkInv, NEW r \in Reports, NEW g \in Gateways, Send(r, g)
  PROVE  SdkInv'
<1> DEFINE new == [client[r] EXCEPT !.stage = "sent", !.at = g]
<1>1. client[r] \in Clients /\ client[r] # NoClient
  BY DEF Send, SdkInv, ClientInv, NoClient
<1>2. new \in Clients /\ new.stage = "sent"
  BY <1>1 DEF Clients
<1>3. client' = [client EXCEPT ![r] = new] /\ client'[r] = new
  BY DEF Send, SdkInv, ClientInv
<1>4. report'[r] = report[r] /\ UNCHANGED otelVars
  BY DEF Send, otelVars
<1>5. report[r].stage = "new" \/ Len(report[r].body) = 1
  BY <1>1 DEF SdkInv, ClientInv
<1> HIDE DEF new
<1> QED BY <1>2, <1>3, <1>4, <1>5, OneClient

\* What trace_tool_call gives back, by what it knows.
LEMMA FinishKeeps ==
  ASSUME SdkInv, NEW r \in Reports, NEW outcome \in Outcomes, Finish(r, outcome),
         client[r].stage \in {"posting", "sent"},
         outcome = "report_error" => \/ report[r].stage = "new" /\ client[r].at = NoCall
                                     \/ report[r].stage \in Refusals,
         outcome = "returned" /\ client[r].raise_on_error => report[r].stage = "202",
         outcome = "encoding_error" => report[r].stage = "new" /\ client[r].at = NoCall,
         client[r].block = "raised" => outcome # "report_error"
  PROVE  SdkInv'
<1> DEFINE new == [client[r] EXCEPT !.stage = "done", !.outcome = outcome]
<1>1. client[r] \in Clients /\ client[r] # NoClient
  BY DEF SdkInv, ClientInv, NoClient
<1>2. /\ new \in Clients /\ new.stage = "done" /\ new.outcome = outcome /\ new.at = client[r].at
      /\ new.block = client[r].block
  BY <1>1 DEF Clients
<1>3. new.raise_on_error = client[r].raise_on_error
  BY <1>1, Zenon DEF Clients
<1>4. client' = [client EXCEPT ![r] = new] /\ client'[r] = new
  BY DEF Finish, SdkInv, ClientInv
<1>5. report'[r] = report[r] /\ UNCHANGED otelVars
  BY DEF Finish, otelVars
<1>6. report[r].stage = "new" \/ Len(report[r].body) = 1
  BY <1>1 DEF SdkInv, ClientInv
<1> HIDE DEF new
<1>7. outcome = "returned" /\ client'[r].raise_on_error => report'[r].stage = "202"
  BY <1>3, <1>4, <1>5, Zenon
<1>8. ClientInv!2!(r)'
  BY <1>2, <1>4, <1>5, <1>6, <1>7
<1> QED BY <1>2, <1>4, <1>5, <1>8, OneClient

LEMMA FailureFacts ==
  ASSUME SdkInv, NEW r \in Reports, client[r].stage \in {"posting", "sent"}
  PROVE  /\ Own(client[r]) \in {"returned", "own_exception"}
         /\ ReportFailed(client[r]) \in {"report_error", "returned", "own_exception"}
         /\ Own(client[r]) \notin {"report_error", "encoding_error"}
         /\ ReportFailed(client[r]) # "encoding_error"
         /\ client[r].block = "raised" =>
              Own(client[r]) = "own_exception" /\ ReportFailed(client[r]) = "own_exception"
         /\ client[r].raise_on_error => ReportFailed(client[r]) # "returned"
<1>1. Own(client[r]) \in {"returned", "own_exception"}
  BY DEF Own
<1>2. client[r].block = "raised" => Own(client[r]) = "own_exception"
  BY DEF Own
<1>3. ReportFailed(client[r]) \in {"report_error", Own(client[r])}
  BY DEF ReportFailed
<1>4. client[r].block = "raised" => ReportFailed(client[r]) = Own(client[r])
  BY DEF ReportFailed
<1>5. client[r].raise_on_error /\ client[r].block # "raised" => ReportFailed(client[r]) = "report_error"
  BY DEF ReportFailed
<1> QED BY <1>1, <1>2, <1>3, <1>4, <1>5

LEMMA SdkStepKeeps ==
  ASSUME SdkInv, SdkStep
  PROVE  SdkInv'
<1>1. ASSUME NEW r \in Reports, Unreachable(r) PROVE SdkInv'
  <2>1. /\ client[r].stage = "posting" /\ Finish(r, ReportFailed(client[r]))
        /\ report[r].stage = "new" /\ client[r].at = NoCall
    BY <1>1 DEF Unreachable, SdkInv, ClientInv
  <2>2. ReportFailed(client[r]) \in Outcomes
    BY <2>1, FailureFacts DEF Outcomes
  <2> QED BY <2>1, <2>2, FailureFacts, FinishKeeps
<1>4. ASSUME NEW r \in Reports, Unsendable(r) PROVE SdkInv'
  <2>1. /\ client[r].stage = "posting" /\ Finish(r, "encoding_error")
        /\ report[r].stage = "new" /\ client[r].at = NoCall /\ "encoding_error" \in Outcomes
    BY <1>4 DEF Unsendable, SdkInv, ClientInv, Outcomes
  <2> QED BY <2>1, FinishKeeps
<1>2. ASSUME NEW r \in Reports, Answered(r) PROVE SdkInv'
  <2>1. CASE report[r].stage = "202"
    <3>1. client[r].stage = "sent" /\ Finish(r, Own(client[r]))
      BY <1>2, <2>1 DEF Answered
    <3>2. Own(client[r]) \in Outcomes /\ Own(client[r]) # "report_error"
      BY <3>1, FailureFacts DEF Outcomes
    <3> QED BY <2>1, <3>1, <3>2, FailureFacts, FinishKeeps
  <2>2. CASE report[r].stage \in Refusals
    <3>1. client[r].stage = "sent" /\ Finish(r, ReportFailed(client[r]))
      BY <1>2, <2>2 DEF Answered, Refusals
    <3>2. ReportFailed(client[r]) \in Outcomes
      BY <3>1, FailureFacts DEF Outcomes
    <3> QED BY <2>2, <3>1, <3>2, FailureFacts, FinishKeeps
  <2> QED BY <1>2, <2>1, <2>2 DEF Answered, Replies, Refusals
<1>3. ASSUME NEW r \in Reports, Broken(r) PROVE SdkInv'
  <2>1. client[r].stage = "sent" /\ Finish(r, "os_error") /\ "os_error" \in Outcomes
    BY <1>3 DEF Broken, Outcomes
  <2> QED BY <2>1, FinishKeeps
<1> QED BY <1>1, <1>2, <1>3, <1>4, TraceKeeps, SendKeeps DEF SdkStep

LEMMA SdkInvariance == SdkSpec => []SdkInv
<1>1. SdkInit => SdkInv
  <2> SUFFICES ASSUME SdkInit PROVE SdkInv
    OBVIOUS
  <2>1. ClientInv
    BY DEF SdkInit, ClientInv, NoClient
  <2> QED BY <2>1, OtelInitHolds DEF SdkInit, SdkInv
<1>2. SdkInv /\ UNCHANGED sdkVars => SdkInv'
  <2> SUFFICES ASSUME SdkInv, UNCHANGED sdkVars PROVE SdkInv'
    OBVIOUS
  <2>1. UNCHANGED otelVars /\ report' = report /\ client' = client
    BY DEF sdkVars, otelVars
  <2>2. OtelInv'
    BY <2>1, OtelNextKeeps DEF SdkInv
  <2>3. ClientInv'
    BY <2>1 DEF SdkInv, ClientInv
  <2> QED BY <2>2, <2>3 DEF SdkInv
<1>3. SdkInv /\ SdkNext => SdkInv'
  BY SdkStepKeeps, GatewaySideKeeps DEF SdkNext
<1> QED BY <1>1, <1>2, <1>3, PTL DEF SdkSpec

-------------------------------------------------------------------------------
(* The properties.                                                          *)

\* A 202 means every item has its event and a 4xx that none has, for batches
\* of any size next to any number of tool calls, reports and crashes
\* (otel_ingest.py:70-72, 227-256).
THEOREM BatchesInOrder == SdkSpec => []BatchInOrder
<1>1. SdkInv => BatchInOrder
  <2> SUFFICES ASSUME SdkInv, NEW r \in Reports PROVE BatchInOrder!(r)
    BY DEF BatchInOrder
  <2>1. BatchInv!(r)
    BY DEF SdkInv, OtelInv, BatchInv
  <2>2. report[r].stage = "new" \/ report[r].stage \in RepStages
    BY ReportShapes DEF SdkInv, OtelInv
  <2>3. CASE report[r].stage \in {"new", "400", "401", "429"}
    BY <2>1, <2>3
  <2>4. CASE report[r].stage = "202"
    BY <2>1, <2>4 DEF WellFormed
  <2>5. CASE report[r].stage \notin {"new", "400", "401", "429", "202"}
    <3>1. LoggedItems(r) = {} /\ report[r].next = 1 => LoggedItems(r) = 1..(report[r].next - 1)
      OBVIOUS
    <3>2. LoggedItems(r) = 1..(report[r].next - 1)
      BY <2>1, <2>2, <2>5, <3>1 DEF RepStages
    <3> QED BY <2>5, <3>2
  <2> QED BY <2>3, <2>4, <2>5
<1> QED BY <1>1, SdkInvariance, PTL

\* No item outside the reporter's scope is logged before its alert
\* (otel_ingest.py:231-250).
THEOREM ScopeReports == SdkSpec => []ScopeReportsAlerted
<1>1. SdkInv => ScopeReportsAlerted
  BY DEF SdkInv, OtelInv, AlertedInv, ScopeReportsAlerted, ScopeAlert
<1> QED BY <1>1, SdkInvariance, PTL

\* Gateways that see the same unknown client at the same moment, on either
\* path, announce it once (discovery.py:87-94).
THEOREM AnnouncedOnce == SdkSpec => []DiscoveredOnce
<1>1. SdkInv => DiscoveredOnce
  <2> SUFFICES ASSUME SdkInv, NEW n \in Names
               PROVE  Cardinality({e \in log : e.type = "agent.discovered" /\ e.name = n}) <= 1
    BY DEF DiscoveredOnce
  <2> DEFINE E == {e \in log : e.type = "agent.discovered" /\ e.name = n}
  <2>1. \A e, f \in E : e = f
    BY DEF SdkInv, OtelInv, SightInv, Announces
  <2>2. E = {} \/ \E e : E = {e}
    BY <2>1
  <2> HIDE DEF E
  <2>3. Cardinality(E) \in {0, 1}
    BY <2>2, FS_EmptySet, FS_Singleton
  <2>4. Cardinality(E) <= 1
    BY <2>3
  <2> QED BY <2>4 DEF E
<1> QED BY <1>1, SdkInvariance, PTL

\* An agents row is announced, will be by the request that made it, or lost
\* its announcement to a crash between the two commits (discovery.py:87-94,
\* middleware.py:251-259, otel_ingest.py:203).
THEOREM SightingsAnnounced == SdkSpec => []SightingsAreAnnounced
<1>1. SdkInv => SightingsAreAnnounced
  <2> SUFFICES ASSUME SdkInv, NEW n \in discovered PROVE SightingsAreAnnounced!(n)
    BY DEF SightingsAreAnnounced
  <2>1. \/ \E e \in log : Announces(e, n)
        \/ \E x \in Requests : Req(x).stage \in Sighting /\ Req(x).name = n
    BY DEF SdkInv, OtelInv, SightInv
  <2>2. \A c \in Calls : call[c].stage # "500_unannounced"
    BY CallShapes DEF SdkInv, OtelInv, GwInv, Stages
  <2> QED BY <2>1, <2>2 DEF Announces, Requests, Req, Sighting
<1> QED BY <1>1, SdkInvariance, PTL

\* Under raise_on_error, BFAgentViewerReportError means nothing was logged
\* nor ever will be, and a block that returned was logged; an encoding error
\* means nothing was sent; and BFAgentViewerReportError replaces no Exception
\* of the block (sdk.py:66-71, 82-87, 127-186).
THEOREM TruthfulReports == SdkSpec => []ReportsTellTruth
<1>1. SdkInv => ReportsTellTruth
  <2> SUFFICES ASSUME SdkInv, NEW r \in Reports, Ended(r)
               PROVE  /\ client[r].raise_on_error =>
                           /\ client[r].outcome = "report_error" => LoggedItems(r) = {}
                           /\ client[r].outcome = "returned" => LoggedItems(r) = {1}
                      /\ client[r].outcome = "encoding_error" =>
                           LoggedItems(r) = {} /\ report[r].stage = "new"
                      /\ client[r].block = "raised" => client[r].outcome # "report_error"
    BY DEF ReportsTellTruth
  <2>1. client[r].stage = "done" /\ client[r] # NoClient
    BY DEF Ended, NoClient
  <2>2. ClientInv!2!(r) /\ BatchInv!(r)
    BY DEF SdkInv, OtelInv, ClientInv, BatchInv
  <2>3. client[r].outcome = "report_error" => LoggedItems(r) = {}
    <3>1. ASSUME report[r].stage = "500", Len(report[r].body) = 1 PROVE LoggedItems(r) = {}
      <4>1. LoggedItems(r) = 1..(report[r].next - 1) /\ report[r].next <= 1
        BY <2>2, <3>1
      <4>2. report[r].next \in Nat \ {0}
        BY <3>1, ReportShapes DEF SdkInv, OtelInv, Received
      <4> QED BY <4>1, <4>2
    <3> QED BY <2>1, <2>2, <3>1 DEF Refusals
  <2>4. client[r].raise_on_error /\ client[r].outcome = "returned" => LoggedItems(r) = 1..1
    BY <2>1, <2>2
  <2>5. 1..1 = {1}
    OBVIOUS
  <2>6. client[r].outcome = "encoding_error" => LoggedItems(r) = {} /\ report[r].stage = "new"
    BY <2>1, <2>2
  <2>7. client[r].block = "raised" => client[r].outcome # "report_error"
    BY <2>1, <2>2
  <2> QED BY <2>3, <2>4, <2>5, <2>6, <2>7
<1> QED BY <1>1, SdkInvariance, PTL

\* The kill switch of tool calls is not loosened by reports that share the
\* registry's refreshes and the event loop (middleware.py:140-163, 414-423,
\* otel_ingest.py:186-256).
THEOREM KillSwitchWithReports == SdkSpec => []AuthorityBound
<1>1. SdkInv => AuthorityBound
  BY DEF SdkInv, OtelInv, GwInv, AdmitInv, AuthorityBound
<1> QED BY <1>1, SdkInvariance, PTL
===============================================================================
