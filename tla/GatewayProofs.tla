---------------------------- MODULE GatewayProofs ----------------------------
(***************************************************************************)
(* Proofs about Credentials and Gateway for any tokens, agents, tools,     *)
(* gateways, calls, refresh interval and clock bound.                      *)
(*                                                                         *)
(* The bound on the kill switch is a race between three clocks: when an    *)
(* authority ended, when a gateway last read the table and when a call     *)
(* arrived.  RegistryInv says what a loaded copy is worth: whatever it     *)
(* grants was still granted when it was read.    AdmitInv carries that to  *)
(* the call, LogInv and LimitInv follow a call's events from stage to      *)
(* stage.                                                                  *)
(*                                                                         *)
(* What keeps a gateway's loop busy is a parameter, so that the lemmas     *)
(* also serve a gateway that answers more than tool calls.                 *)
(***************************************************************************)
EXTENDS Gateway, FiniteSetTheorems, TLAPS

-------------------------------------------------------------------------------
(* Credentials.                                                             *)

\* Who changes the credentials table, and how.
LEMMA CredStepKeeps ==
  ASSUME CredTypeOK, CredStep
  PROVE  CredTypeOK' /\ clock' = clock
<1> USE CredentialAssumption
<1>0. clock \in Nat /\ \A x \in TTLs : clock + x \in Nat
  BY DEF CredTypeOK, Time
<1>1. ASSUME NEW k \in Tokens, NEW type \in {"issued", "renewed", "revoked"},
             Audited(type, k), creds' \in [Tokens -> Rows]
      PROVE  audit' \in Seq(AuditEvents)
  <2>1. [type |-> type, token |-> k, expiry |-> creds'[k].expiry] \in AuditEvents
    BY <1>1 DEF AuditEvents, Rows
  <2> QED BY <1>1, <2>1 DEF Audited, CredTypeOK
<1>2. ASSUME NEW c \in Clis, NEW k \in Tokens, NEW e \in Expiries, Issue(c, k, e)
      PROVE  CredTypeOK' /\ clock' = clock
  <2>1. creds' \in [Tokens -> Rows]
    BY <1>2 DEF CredTypeOK, Issue, Rows
  <2> QED BY <1>1, <1>2, <2>1 DEF CredTypeOK, Issue
<1>3. ASSUME NEW c \in Clis, NEW k \in Tokens, NEW ttl \in TTLs, RenewCheck(c, k, ttl)
      PROVE  CredTypeOK' /\ clock' = clock
  <2>1. [token |-> k, expiry |-> clock + ttl] \in Renewals
    BY <1>0 DEF Renewals
  <2> QED BY <1>3, <2>1 DEF CredTypeOK, RenewCheck
<1>4. ASSUME NEW c \in Clis, NEW k \in Tokens, Revoke(c, k)
      PROVE  CredTypeOK' /\ clock' = clock
  <2>1. creds' \in [Tokens -> Rows]
    BY <1>4 DEF CredTypeOK, Revoke, Rows
  <2> QED BY <1>1, <1>4, <2>1 DEF CredTypeOK, Revoke
<1>5. ASSUME NEW c \in Clis, RenewApply(c)
      PROVE  CredTypeOK' /\ clock' = clock
  <2>1. renewal[c] \in Renewals /\ renewal[c].token \in Tokens /\ renewal[c].expiry \in Nat
    BY <1>5 DEF CredTypeOK, RenewApply, Renewals
  <2>2. creds' \in [Tokens -> Rows]
    BY <1>5, <2>1 DEF CredTypeOK, RenewApply, Rows, Expiries
  <2> QED BY <1>1, <1>5, <2>1, <2>2 DEF CredTypeOK, RenewApply
<1>6. ASSUME NEW c \in Clis, CliCrash(c)
      PROVE  CredTypeOK' /\ clock' = clock
  BY <1>6 DEF CredTypeOK, CliCrash
<1> QED BY <1>0, <1>2, <1>3, <1>4, <1>5, <1>6 DEF CredStep, Expiries

LEMMA CredTickKeeps ==
  ASSUME CredTypeOK, CredTick
  PROVE  CredTypeOK'
BY CredentialAssumption DEF CredTypeOK, CredTick, Time

LEMMA CredInitHolds == CredInit => CredTypeOK
<1> SUFFICES ASSUME CredInit PROVE CredTypeOK
  OBVIOUS
<1>1. NoRow \in Rows
  BY DEF NoRow, Rows, Expiries
<1>2. audit \in Seq(AuditEvents)
  BY DEF CredInit
<1> QED BY <1>1, <1>2, CredentialAssumption DEF CredInit, CredTypeOK, Time

\* The types of the table, of its audit events and of a renewal under way
\* (registry.py:76-178).
THEOREM CredTypeCorrect == CredSpec => []CredTypeOK
<1>1. CredTypeOK /\ [CredNext]_credVars => CredTypeOK'
  <2>1. CredTypeOK /\ UNCHANGED credVars => CredTypeOK'
    BY DEF CredTypeOK, credVars
  <2> QED BY <2>1, CredStepKeeps, CredTickKeeps DEF CredNext
<1> QED BY <1>1, CredInitHolds, PTL DEF CredSpec

\* A revoked credential stays revoked, for any number of tokens and of
\* processes, including a renewal that passed its check before the
\* revocation and writes after it (registry.py:134-178).
THEOREM RevocationStands == CredSpec => RevocationIsFinal
<1>1. ASSUME CredTypeOK, [CredNext]_credVars, NEW k \in Tokens, creds[k].status = "revoked"
      PROVE  creds'[k].status = "revoked"
  <2>1. ASSUME NEW c \in Clis, NEW j \in Tokens, NEW e, Issue(c, j, e)
        PROVE  creds'[k].status = "revoked"
    BY <1>1, <2>1 DEF Issue, CredTypeOK, NoRow
  <2>2. ASSUME NEW c \in Clis, NEW j \in Tokens, Revoke(c, j)
        PROVE  creds'[k].status = "revoked"
    BY <1>1, <2>2 DEF Revoke, CredTypeOK, Rows
  <2>3. ASSUME NEW c \in Clis, RenewApply(c)
        PROVE  creds'[k].status = "revoked"
    <3>1. renewal[c].token \in Tokens
      BY <1>1, <2>3 DEF CredTypeOK, RenewApply, Renewals
    <3> QED BY <1>1, <2>3, <3>1 DEF RenewApply, CredTypeOK, Rows
  <2>4. \A c, j, ttl : RenewCheck(c, j, ttl) => creds' = creds
    BY DEF RenewCheck
  <2>5. \A c : CliCrash(c) => creds' = creds
    BY DEF CliCrash
  <2>6. CredTick \/ UNCHANGED credVars => creds' = creds
    BY DEF CredTick, credVars
  <2> QED BY <1>1, <2>1, <2>2, <2>3, <2>4, <2>5, <2>6 DEF CredNext, CredStep
<1>2. CredTypeOK /\ [CredNext]_credVars =>
        [\A k \in Tokens : creds[k].status = "revoked" => creds'[k].status = "revoked"]_credVars
  BY <1>1
<1> QED BY <1>2, CredTypeCorrect, PTL DEF CredSpec, RevocationIsFinal

-------------------------------------------------------------------------------
(* The audit trail.  That a replay exists and is the only one is carried    *)
(* along the behaviour, event by event, so no induction over the log is     *)
(* needed.                                                                  *)

Applied(rows, e) == [rows EXCEPT ![e.token] = Replayed(@, e)]

IsReplay(h, events) ==
  h = [i \in 0..Len(events) |->
         IF i = 0 THEN [k \in Tokens |-> NoRow] ELSE Applied(h[i - 1], events[i])]

ReplayInv ==
  \E h : IsReplay(h, audit) /\ creds = h[Len(audit)] /\ \A g : IsReplay(g, audit) => g = h

\* The one replay is the one Replay chooses.
LEMMA ReplayIsUnique ==
  ASSUME ReplayInv
  PROVE  AuditReplays
<1>1. PICK h : IsReplay(h, audit) /\ creds = h[Len(audit)] /\ \A g : IsReplay(g, audit) => g = h
  BY DEF ReplayInv
<1>2. Replay = CHOOSE g : IsReplay(g, audit)
  BY DEF Replay, IsReplay, Applied
<1>3. IsReplay(Replay, audit)
  BY <1>1, <1>2
<1> QED BY <1>1, <1>3 DEF AuditReplays

\* One more event, and the table it makes.
LEMMA ReplayExtends ==
  ASSUME CredTypeOK, ReplayInv, NEW e \in AuditEvents,
         audit' = Append(audit, e), creds' = Applied(creds, e)
  PROVE  ReplayInv'
<1> DEFINE n == Len(audit)
<1>1. /\ n \in Nat /\ Len(audit') = n + 1 /\ audit'[n + 1] = e
      /\ \A i \in 1..n : audit'[i] = audit[i]
  BY DEF CredTypeOK
<1>2. PICK h : IsReplay(h, audit) /\ creds = h[n] /\ \A g : IsReplay(g, audit) => g = h
  BY DEF ReplayInv
<1> DEFINE f == [i \in 0..(n + 1) |-> IF i <= n THEN h[i] ELSE creds']
<1> HIDE DEF n
<1>3. DOMAIN h = 0..n /\ h[0] = [k \in Tokens |-> NoRow]
      /\ \A i \in 1..n : h[i] = Applied(h[i - 1], audit[i])
  <2>1. h = [i \in 0..n |->
               IF i = 0 THEN [k \in Tokens |-> NoRow] ELSE Applied(h[i - 1], audit[i])]
    BY <1>2 DEF IsReplay, n
  <2>2. 0 \in 0..n /\ 1..n \subseteq 0..n /\ \A i \in 1..n : i # 0
    BY <1>1
  <2>3. DOMAIN h = 0..n
    BY <2>1
  <2>4. \A i \in 0..n :
          h[i] = IF i = 0 THEN [k \in Tokens |-> NoRow] ELSE Applied(h[i - 1], audit[i])
    BY <2>1
  <2> HIDE DEF Applied
  <2> QED BY <2>2, <2>3, <2>4
<1>4. IsReplay(f, audit')
  <2>1. f[0] = [k \in Tokens |-> NoRow]
    BY <1>1, <1>3
  <2>2. ASSUME NEW i \in 1..n
        PROVE  f[i] = Applied(f[i - 1], audit'[i])
    BY <1>1, <1>3
  <2>3. f[n + 1] = Applied(f[n], audit'[n + 1])
    BY <1>1, <1>2
  <2>4. f = [i \in 0..(n + 1) |->
               IF i = 0 THEN [k \in Tokens |-> NoRow] ELSE Applied(f[i - 1], audit'[i])]
    <3> DEFINE u == [i \in 0..(n + 1) |->
               IF i = 0 THEN [k \in Tokens |-> NoRow] ELSE Applied(f[i - 1], audit'[i])]
    <3>1. ASSUME NEW i \in 0..(n + 1)
          PROVE  f[i] = u[i]
      <4>1. i = 0 \/ i \in 1..n \/ i = n + 1
        BY <1>1
      <4> HIDE DEF f
      <4>2. CASE i = 0
        BY <4>2, <2>1, <1>1
      <4>3. CASE i \in 1..n
        BY <4>3, <2>2, <1>1
      <4>4. CASE i = n + 1
        BY <4>4, <2>3, <1>1
      <4> QED BY <4>1, <4>2, <4>3, <4>4
    <3>2. f = u
      BY <3>1
    <3> QED BY <3>2
  <2> QED BY <2>4, <1>1 DEF IsReplay
<1>5. creds' = f[n + 1]
  BY <1>1
<1>6. ASSUME NEW g, IsReplay(g, audit')
      PROVE  g = f
  <2>1. /\ g = [i \in DOMAIN g |-> g[i]] /\ DOMAIN g = 0..(n + 1)
        /\ g[0] = [k \in Tokens |-> NoRow]
        /\ \A i \in 1..(n + 1) : g[i] = Applied(g[i - 1], audit'[i])
    <3>1. g = [i \in 0..(n + 1) |->
                 IF i = 0 THEN [k \in Tokens |-> NoRow] ELSE Applied(g[i - 1], audit'[i])]
      BY <1>1, <1>6 DEF IsReplay
    <3>2. 0 \in 0..(n + 1) /\ 1..(n + 1) \subseteq 0..(n + 1) /\ \A i \in 1..(n + 1) : i # 0
      BY <1>1
    <3>3. DOMAIN g = 0..(n + 1) /\ g = [i \in DOMAIN g |-> g[i]]
      BY <3>1
    <3>4. \A i \in 0..(n + 1) :
            g[i] = IF i = 0 THEN [k \in Tokens |-> NoRow] ELSE Applied(g[i - 1], audit'[i])
      BY <3>1
    <3> HIDE DEF Applied
    <3> QED BY <3>2, <3>3, <3>4
  <2> DEFINE r == [i \in 0..n |-> g[i]]
  <2>2. IsReplay(r, audit)
    <3> DEFINE u == [i \in 0..n |->
                 IF i = 0 THEN [k \in Tokens |-> NoRow] ELSE Applied(r[i - 1], audit[i])]
    <3>1. ASSUME NEW i \in 0..n
          PROVE  r[i] = u[i]
      <4>1. CASE i = 0
        BY <4>1, <2>1, <1>1
      <4>2. CASE i # 0
        <5>1. i \in 1..n /\ i \in 1..(n + 1) /\ i - 1 \in 0..n
          BY <4>2, <1>1
        <5>2. r[i] = g[i] /\ r[i - 1] = g[i - 1] /\ audit'[i] = audit[i]
          BY <5>1, <1>1
        <5> QED BY <4>2, <5>1, <5>2, <2>1
      <4> QED BY <4>1, <4>2
    <3>2. r = u
      BY <3>1
    <3> QED BY <3>2 DEF IsReplay, n
  <2>3. r = h
    BY <2>2, <1>2
  <2>4. \A i \in 0..n : g[i] = h[i]
    BY <2>3
  <2>5. g[n + 1] = Applied(h[n], e)
    BY <2>1, <2>4, <1>1
  <2>6. ASSUME NEW i \in 0..(n + 1)
        PROVE  g[i] = f[i]
    BY <2>4, <2>5, <1>1, <1>2
  <2> HIDE DEF f
  <2>7. f = [i \in DOMAIN f |-> f[i]] /\ DOMAIN f = 0..(n + 1)
    BY DEF f
  <2> QED BY <2>1, <2>6, <2>7
<1> HIDE DEF f
<1> QED BY <1>1, <1>4, <1>5, <1>6 DEF ReplayInv

LEMMA ReplayStays ==
  ASSUME ReplayInv, UNCHANGED <<audit, creds>>
  PROVE  ReplayInv'
<1>1. audit' = audit /\ creds' = creds
  OBVIOUS
<1>2. PICK h : IsReplay(h, audit) /\ creds = h[Len(audit)] /\ \A g : IsReplay(g, audit) => g = h
  BY DEF ReplayInv
<1>3. IsReplay(h, audit') /\ creds' = h[Len(audit')] /\ \A g : IsReplay(g, audit') => g = h
  BY <1>1, <1>2
<1> QED BY <1>3 DEF ReplayInv

\* A row and its event are written together, and the event says what the row
\* became.
LEMMA CredStepReplays ==
  ASSUME CredTypeOK, ReplayInv, [CredNext]_credVars
  PROVE  ReplayInv'
<1> USE CredentialAssumption
<1>0. clock \in Nat /\ \A x \in TTLs : clock + x \in Nat
  BY DEF CredTypeOK, Time
<1>1. ASSUME NEW c \in Clis, NEW k \in Tokens, NEW x \in Expiries, Issue(c, k, x)
      PROVE  ReplayInv'
  <2> DEFINE e == [type |-> "issued", token |-> k, expiry |-> creds'[k].expiry]
  <2>1. creds'[k].expiry = x
    BY <1>1 DEF Issue, CredTypeOK
  <2>2. e \in AuditEvents /\ audit' = Append(audit, e)
    BY <1>1, <2>1 DEF Issue, Audited, AuditEvents
  <2>3. creds' = Applied(creds, e)
    BY <1>1, <2>1 DEF Issue, Applied, Replayed
  <2> QED BY <2>2, <2>3, ReplayExtends
<1>2. ASSUME NEW c \in Clis, NEW k \in Tokens, Revoke(c, k)
      PROVE  ReplayInv'
  <2> DEFINE e == [type |-> "revoked", token |-> k, expiry |-> creds'[k].expiry]
  <2>1. creds'[k].expiry \in Expiries
    BY <1>2 DEF Revoke, CredTypeOK, Rows
  <2>2. e \in AuditEvents /\ audit' = Append(audit, e)
    BY <1>2, <2>1 DEF Revoke, Audited, AuditEvents
  <2>3. creds' = Applied(creds, e)
    BY <1>2 DEF Revoke, Applied, Replayed
  <2> QED BY <2>2, <2>3, ReplayExtends
<1>3. ASSUME NEW c \in Clis, RenewApply(c)
      PROVE  ReplayInv'
  <2> DEFINE k == renewal[c].token
             e == [type |-> "renewed", token |-> k, expiry |-> creds'[k].expiry]
  <2>1. k \in Tokens /\ renewal[c].expiry \in Expiries
    BY <1>3 DEF RenewApply, CredTypeOK, Renewals, Expiries
  <2>2. creds'[k].expiry = renewal[c].expiry
    BY <1>3, <2>1 DEF RenewApply, CredTypeOK, Rows
  <2>3. e \in AuditEvents /\ audit' = Append(audit, e)
    BY <1>3, <2>1, <2>2 DEF RenewApply, Audited, AuditEvents
  <2>4. creds' = Applied(creds, e)
    BY <1>3, <2>1, <2>2 DEF RenewApply, Applied, Replayed
  <2> QED BY <2>3, <2>4, ReplayExtends
<1>4. \A c, k, ttl : RenewCheck(c, k, ttl) => UNCHANGED <<audit, creds>>
  BY DEF RenewCheck
<1>5. \A c : CliCrash(c) => UNCHANGED <<audit, creds>>
  BY DEF CliCrash
<1>6. CredTick \/ UNCHANGED credVars => UNCHANGED <<audit, creds>>
  BY DEF CredTick, credVars
<1>7. CredStep => ReplayInv'
  BY <1>0, <1>1, <1>2, <1>3, <1>4, <1>5, ReplayStays DEF CredStep, Expiries
<1> QED BY <1>6, <1>7, ReplayStays DEF CredNext

LEMMA ReplayStarts == CredInit => ReplayInv
<1> SUFFICES ASSUME CredInit PROVE ReplayInv
  OBVIOUS
<1> DEFINE h == [i \in 0..0 |-> [k \in Tokens |-> NoRow]]
<1>1. Len(audit) = 0 /\ creds = [k \in Tokens |-> NoRow]
  BY DEF CredInit
<1>2. \A g : IsReplay(g, audit) => g = h
  <2> SUFFICES ASSUME NEW g, IsReplay(g, audit) PROVE g = h
    OBVIOUS
  <2>1. g = [i \in 0..0 |-> IF i = 0 THEN [k \in Tokens |-> NoRow] ELSE Applied(g[i - 1], audit[i])]
    BY <1>1 DEF IsReplay
  <2>2. \A i \in 0..0 : i = 0
    OBVIOUS
  <2> QED BY <2>1, <2>2
<1>3. IsReplay(h, audit)
  <2>1. \A i \in 0..0 : i = 0
    OBVIOUS
  <2> QED BY <1>1, <2>1 DEF IsReplay
<1>4. creds = h[Len(audit)]
  BY <1>1
<1> HIDE DEF h
<1> QED BY <1>2, <1>3, <1>4 DEF ReplayInv

\* The audit events rebuild the credentials table, for any number of tokens
\* and processes and logs of any length, renewals racing revocations and
\* killed processes included (registry.py:48-73, 76-178).
THEOREM AuditTrail == CredSpec => []AuditReplays
<1>1. CredTypeOK /\ CredTypeOK' /\ ReplayInv /\ [CredNext]_credVars => ReplayInv'
  BY CredStepReplays
<1>2. CredSpec => []ReplayInv
  BY <1>1, ReplayStarts, CredTypeCorrect, PTL DEF CredSpec
<1> QED BY <1>2, ReplayIsUnique, PTL

-------------------------------------------------------------------------------
(* Gateway: the inductive invariant.                                        *)

Registries == [Tokens -> {Missing} \cup [known : {TRUE}, scope : Scopes]]
Loading == [mode : {"loading"}, registry : Registries, read_at : Nat]
Up(B) == [mode : {"up"}, registry : Registries, read_at : Nat, loaded_at : Nat, busy : B]

Active == [stage : {"discover", "announce", "announce_alert", "reject_token",
                    "reject_no_token", "admit", "limited_alert", "forwarded"},
           gw : Gateways, token : Tokens \cup {NoToken}, tool : Tools, name : Names,
           lag : Nat, slack : Nat, scope : Scopes \cup {Unscoped}]
Closed == [stage : {"answered", "raised", "lost", "unannounced"}, tool : Tools, name : Names]

Shapes(B) ==
  /\ scope \in [Agents -> Scopes]
  /\ gw \in [Gateways -> {Down} \cup Loading \cup Up(B)]
  /\ discovered \subseteq Names
  /\ call \in [Calls -> {Fresh} \cup Active \cup Closed]
  /\ ended \in [Tokens -> [Tools -> Nat]]

\* The loop is held by the one call that is inside a synchronous stretch.
BusyInv ==
  /\ \A c \in Calls : Unsettled(c) => gw[call[c].gw].mode = "up"
  /\ \A c \in Calls : Inside(c) => gw[call[c].gw].busy = c
  /\ \A g \in Gateways, c \in Calls : gw[g].mode = "up" /\ gw[g].busy = c =>
       Inside(c) /\ call[c].gw = g

\* Everything a copy of the table grants was granted until `time` at least.
Backed(registry, time) ==
  \A k \in Tokens, t \in Tools :
    registry[k] # Missing /\ t \in registry[k].scope \cup {Heartbeat} => ended[k][t] >= time

RegistryInv ==
  /\ \A k \in Tokens, t \in Tools : Authority(k, t) => ended[k][t] = Never
  /\ \A g \in Gateways :
       /\ gw[g].mode = "loading" => /\ gw[g].read_at <= clock
                                    /\ Backed(gw[g].registry, gw[g].read_at)
       /\ gw[g].mode = "up" => /\ gw[g].read_at <= gw[g].loaded_at
                               /\ gw[g].loaded_at <= clock
                               /\ Backed(gw[g].registry, gw[g].read_at)

\* A call that will be passed on relies on nothing older than a refresh.
AdmitInv ==
  \A c \in Calls :
    /\ call[c].stage = "admit" /\ (call[c].tool = Heartbeat \/ InScope(c)) =>
         call[c].lag < Refresh + call[c].slack
    /\ call[c].stage = "forwarded" => call[c].lag < Refresh + call[c].slack
    /\ Unsettled(c) /\ call[c].token = NoToken => call[c].lag = 0

\* The events of a call, by where it is.
LogInv ==
  \A c \in Calls :
    /\ call[c].stage \in {"answered", "limited_alert"} => \E e : EventsOf(c) = {e}
    /\ call[c].stage = "raised" /\ call[c].tool # Heartbeat => \E e : EventsOf(c) = {e}
    /\ call[c].stage = "raised" /\ call[c].tool = Heartbeat => EventsOf(c) = {}
    /\ call[c].stage \in {"lost", "unannounced"} =>
         (\E e : EventsOf(c) = {e}) \/ EventsOf(c) = {}
    /\ call[c].stage \notin {"answered", "raised", "limited_alert", "lost", "unannounced"} =>
         EventsOf(c) = {}

\* A rate-limited call that got past its alert has it.
LimitInv ==
  \A e \in log : e.type = "tool.rate_limited" /\ e.call \in Calls =>
    /\ call[e.call].stage \in {"limited_alert", "answered", "lost"}
    /\ call[e.call].stage = "answered" => [call |-> e.call, type |-> "rate_limited"] \in alerts

GwInv(B) ==
  /\ CredTypeOK /\ Shapes(B)
  /\ BusyInv /\ RegistryInv /\ AdmitInv /\ LogInv /\ LimitInv

-------------------------------------------------------------------------------
(* What the shapes say.                                                     *)

LEMMA CallShapes ==
  ASSUME NEW B, Shapes(B), NEW c \in Calls
  PROVE  /\ call[c] = Fresh \/ call[c] \in Active \/ call[c] \in Closed
         /\ call[c].stage \in Stages
         /\ Unsettled(c) => call[c] \in Active /\ call[c].gw \in Gateways
         /\ ~Unsettled(c) => call[c].stage \in {"new", "answered", "raised", "lost", "unannounced"}
BY DEF Shapes, Fresh, Active, Closed, Unsettled, Stages

LEMMA GwShapes ==
  ASSUME NEW B, Shapes(B), NEW g \in Gateways
  PROVE  /\ gw[g].mode \in {"down", "loading", "up"}
         /\ gw[g].mode = "loading" => gw[g] \in Loading
         /\ gw[g].mode = "up" => gw[g] \in Up(B)
BY DEF Shapes, Down, Loading, Up

\* A copy of the table taken now is backed now.
LEMMA RegistryIsBacked ==
  ASSUME NEW B, GwInv(B)
  PROVE  Registry \in Registries /\ Backed(Registry, clock)
<1> USE CredentialAssumption, GatewayAssumption
<1>1. \A k \in Tokens : AgentOf[k] \in Agents /\ scope[AgentOf[k]] \in Scopes
  BY DEF GwInv, Shapes
<1>2. Registry \in Registries
  BY <1>1 DEF Registry, Registries
<1>3. ASSUME NEW k \in Tokens, NEW t \in Tools, Registry[k] # Missing,
             t \in Registry[k].scope \cup {Heartbeat}
      PROVE  ended[k][t] >= clock
  <2>1. Usable(creds[k]) /\ Registry[k] = [known |-> TRUE, scope |-> scope[AgentOf[k]]]
    BY <1>3 DEF Registry
  <2>2. Authority(k, t)
    BY <1>3, <2>1 DEF Authority
  <2>3. ended[k][t] = MaxClock + 1
    BY <2>2 DEF GwInv, RegistryInv, Never
  <2> QED BY <2>3 DEF GwInv, CredTypeOK, Time
<1> QED BY <1>2, <1>3 DEF Backed

\* _maybe_refresh_token_registry leaves a copy younger than the interval.
LEMMA RefreshedFacts ==
  ASSUME NEW B, GwInv(B), NEW g \in Gateways, gw[g].mode = "up"
  PROVE  LET r == Refreshed(g) IN
           /\ r \in Up(B) /\ r.busy = gw[g].busy
           /\ r.read_at <= r.loaded_at
           /\ r.loaded_at <= clock /\ clock - r.loaded_at < Refresh
           /\ Backed(r.registry, r.read_at)
<1> USE CredentialAssumption, GatewayAssumption
<1>1. gw[g] \in Up(B) /\ clock \in Nat
  BY GwShapes DEF GwInv, CredTypeOK, Time
<1>2. /\ gw[g].read_at <= gw[g].loaded_at /\ gw[g].loaded_at <= clock
      /\ Backed(gw[g].registry, gw[g].read_at)
  BY DEF GwInv, RegistryInv
<1>3. CASE clock - gw[g].loaded_at >= Refresh
  <2>1. Refreshed(g) = [gw[g] EXCEPT !.registry = Registry, !.read_at = clock, !.loaded_at = clock]
    BY <1>3 DEF Refreshed, Reloaded
  <2>2. /\ Refreshed(g) \in Up(B) /\ Refreshed(g).busy = gw[g].busy
        /\ Refreshed(g).registry = Registry
        /\ Refreshed(g).read_at = clock /\ Refreshed(g).loaded_at = clock
    BY <1>1, <2>1, RegistryIsBacked DEF Up
  <2> QED BY <1>1, <2>2, RegistryIsBacked
<1>4. CASE ~(clock - gw[g].loaded_at >= Refresh)
  <2>1. Refreshed(g) = gw[g]
    BY <1>4 DEF Refreshed
  <2> QED BY <1>1, <1>2, <1>4, <2>1 DEF Up
<1> QED BY <1>3, <1>4

-------------------------------------------------------------------------------
(* Steps outside the gateways: time, the CLI and re-registration.           *)

LEMMA WatchKeeps ==
  ASSUME NEW B, GwInv(B), WatchAuthority, gw' = gw,
         clock' \in Time, clock <= clock'
  PROVE  ended' \in [Tokens -> [Tools -> Nat]] /\ RegistryInv'
<1> USE CredentialAssumption, GatewayAssumption
<1>1. clock \in Nat /\ clock' \in Nat /\ clock' <= MaxClock /\ Never \in Nat /\ clock' <= Never
  BY DEF GwInv, CredTypeOK, Time, Never
<1>2. ended \in [Tokens -> [Tools -> Nat]]
  BY DEF GwInv, Shapes
<1>3. \A k \in Tokens, t \in Tools :
        ended'[k][t] = IF Authority(k, t)' THEN Never
                       ELSE IF Authority(k, t) THEN clock' ELSE ended[k][t]
  BY DEF WatchAuthority
<1>4. ended' \in [Tokens -> [Tools -> Nat]]
  BY <1>1, <1>2 DEF WatchAuthority
<1>5. \A k \in Tokens, t \in Tools : Authority(k, t)' => ended'[k][t] = Never
  BY <1>3
<1>7. ASSUME NEW g \in Gateways, gw[g].mode \in {"loading", "up"}
      PROVE  Backed(gw[g].registry, gw[g].read_at)'
  <2>1. /\ gw[g].read_at \in Nat /\ gw[g].read_at <= clock
        /\ Backed(gw[g].registry, gw[g].read_at)
    <3>1. CASE gw[g].mode = "loading"
      BY <3>1, GwShapes DEF GwInv, RegistryInv, Loading
    <3>2. CASE gw[g].mode = "up"
      <4>1. /\ gw[g].read_at \in Nat /\ gw[g].loaded_at \in Nat
            /\ gw[g].read_at <= gw[g].loaded_at /\ gw[g].loaded_at <= clock
            /\ Backed(gw[g].registry, gw[g].read_at)
        BY <3>2, GwShapes DEF GwInv, RegistryInv, Up
      <4> QED BY <4>1, <1>1
    <3> QED BY <1>7, <3>1, <3>2
  <2>2. gw[g].read_at <= clock'
    BY <1>1, <2>1
  <2>3. \A k \in Tokens, t \in Tools :
          gw[g].registry[k] # Missing /\ t \in gw[g].registry[k].scope \cup {Heartbeat}
            => ended'[k][t] >= gw[g].read_at
    BY <1>1, <1>2, <1>3, <2>1, <2>2 DEF Backed
  <2> QED BY <2>3 DEF Backed
<1>8. ASSUME NEW g \in Gateways
      PROVE  /\ gw[g].mode = "loading" => gw[g].read_at <= clock'
             /\ gw[g].mode = "up" => /\ gw[g].read_at <= gw[g].loaded_at
                                     /\ gw[g].loaded_at <= clock'
  <2>1. CASE gw[g].mode = "loading"
    <3>1. gw[g].read_at \in Nat /\ gw[g].read_at <= clock
      BY <2>1, GwShapes DEF GwInv, RegistryInv, Loading
    <3> QED BY <1>1, <2>1, <3>1
  <2>2. CASE gw[g].mode = "up"
    <3>1. /\ gw[g].loaded_at \in Nat /\ gw[g].loaded_at <= clock
          /\ gw[g].read_at <= gw[g].loaded_at
      BY <2>2, GwShapes DEF GwInv, RegistryInv, Up
    <3> QED BY <1>1, <2>2, <3>1
  <2>3. CASE gw[g].mode = "down"
    BY <2>3
  <2> QED BY <2>1, <2>2, <2>3, GwShapes DEF GwInv
<1> QED BY <1>4, <1>5, <1>7, <1>8 DEF RegistryInv

\* Nothing about the calls changes.
LEMMA CallsUntouched ==
  ASSUME BusyInv, AdmitInv, LogInv, LimitInv, UNCHANGED <<gw, call, log, alerts>>
  PROVE  (BusyInv /\ AdmitInv /\ LogInv /\ LimitInv)'
<1>1. \A c : Unsettled(c)' = Unsettled(c) /\ Inside(c)' = Inside(c)
               /\ InScope(c)' = InScope(c) /\ EventsOf(c)' = EventsOf(c)
  BY DEF Unsettled, Inside, InScope, EventsOf
<1>2. BusyInv'
  BY <1>1 DEF BusyInv
<1>3. AdmitInv'
  BY <1>1 DEF AdmitInv
<1>4. LogInv'
  BY <1>1 DEF LogInv
<1>5. LimitInv'
  BY <1>1 DEF LimitInv
<1> QED BY <1>2, <1>3, <1>4, <1>5

LEMMA TickKeeps ==
  ASSUME NEW B, GwInv(B), Tick
  PROVE  GwInv(B)'
<1>1. CredTypeOK' /\ clock' \in Time /\ clock <= clock'
  BY CredTickKeeps, CredentialAssumption DEF Tick, GwInv, CredTick, CredTypeOK, Time
<1>2. ended' \in [Tokens -> [Tools -> Nat]] /\ RegistryInv'
  BY <1>1, WatchKeeps DEF Tick
<1>3. Shapes(B)'
  BY <1>2 DEF Tick, GwInv, Shapes
<1> QED BY <1>1, <1>2, <1>3, CallsUntouched DEF Tick, GwInv

LEMMA CliStepKeeps ==
  ASSUME NEW B, GwInv(B), CliStep
  PROVE  GwInv(B)'
<1>1. CredTypeOK' /\ clock' = clock /\ clock' \in Time /\ clock <= clock'
  BY CredStepKeeps, CredentialAssumption DEF CliStep, GwInv, CredTypeOK, Time
<1>2. ended' \in [Tokens -> [Tools -> Nat]] /\ RegistryInv'
  BY <1>1, WatchKeeps DEF CliStep
<1>3. Shapes(B)'
  BY <1>2 DEF CliStep, GwInv, Shapes
<1> QED BY <1>1, <1>2, <1>3, CallsUntouched DEF CliStep, GwInv

LEMMA ReregisterKeeps ==
  ASSUME NEW B, GwInv(B), UNCHANGED credVars, NEW a \in Agents, NEW s \in Scopes, Reregister(a, s)
  PROVE  GwInv(B)'
<1>1. CredTypeOK' /\ clock' = clock /\ clock' \in Time /\ clock <= clock'
  BY CredentialAssumption DEF GwInv, CredTypeOK, Time, credVars
<1>2. ended' \in [Tokens -> [Tools -> Nat]] /\ RegistryInv'
  BY <1>1, WatchKeeps DEF Reregister
<1>3. Shapes(B)'
  BY <1>2 DEF Reregister, GwInv, Shapes
<1> QED BY <1>1, <1>2, <1>3, CallsUntouched DEF Reregister, GwInv

-------------------------------------------------------------------------------
(* The process starts and dies.                                             *)

\* The copies stay backed as long as nothing outside the gateways moves.
LEMMA CopiesStay ==
  ASSUME RegistryInv, UNCHANGED <<credVars, scope, ended>>,
         \A g \in Gateways :
           /\ gw'[g].mode = "loading" => /\ gw'[g].read_at <= clock
                                         /\ Backed(gw'[g].registry, gw'[g].read_at)
           /\ gw'[g].mode = "up" => /\ gw'[g].read_at <= gw'[g].loaded_at
                                    /\ gw'[g].loaded_at <= clock
                                    /\ Backed(gw'[g].registry, gw'[g].read_at)
  PROVE  RegistryInv'
<1>1. \A k \in Tokens, t \in Tools : Authority(k, t)' <=> Authority(k, t)
  BY DEF Authority, Usable, Expired, credVars
<1> QED BY <1>1 DEF RegistryInv, Backed, credVars

LEMMA StartLoadKeeps ==
  ASSUME NEW B, GwInv(B), UNCHANGED credVars, NEW g \in Gateways, StartLoad(g)
  PROVE  GwInv(B)'
<1> USE CredentialAssumption
<1> DEFINE new == [mode |-> "loading", registry |-> Registry, read_at |-> clock]
<1>1. new \in Loading /\ Backed(new.registry, new.read_at) /\ new.read_at <= clock
  BY RegistryIsBacked DEF Loading, GwInv, CredTypeOK, Time
<1>2. gw'[g] = new /\ \A h \in Gateways : h # g => gw'[h] = gw[h]
  BY DEF StartLoad, GwInv, Shapes
<1>3. CredTypeOK' /\ Shapes(B)'
  BY <1>1 DEF StartLoad, GwInv, Shapes, CredTypeOK, credVars
<1>4. RegistryInv'
  BY <1>1, <1>2, CopiesStay DEF StartLoad, GwInv, RegistryInv
<1>5. BusyInv'
  <2>1. \A c \in Calls : Unsettled(c) => call[c].gw \in Gateways /\ call[c].gw # g
    BY CallShapes DEF GwInv, BusyInv, StartLoad
  <2> QED BY <1>2, <2>1 DEF StartLoad, GwInv, BusyInv, Unsettled, Inside
<1>6. (AdmitInv /\ LogInv /\ LimitInv)'
  BY DEF StartLoad, GwInv, AdmitInv, LogInv, LimitInv, Unsettled, InScope, EventsOf
<1> QED BY <1>3, <1>4, <1>5, <1>6 DEF GwInv

LEMMA StartStampKeeps ==
  ASSUME NEW B, NoCall \in B, GwInv(B), UNCHANGED credVars, NEW g \in Gateways, StartStamp(g)
  PROVE  GwInv(B)'
<1> USE GatewayAssumption, CredentialAssumption
<1> DEFINE new == [mode |-> "up", registry |-> gw[g].registry, read_at |-> gw[g].read_at,
                   loaded_at |-> clock, busy |-> NoCall]
<1>1. new \in Up(B) /\ clock \in Nat
  BY GwShapes DEF StartStamp, GwInv, Loading, Up, CredTypeOK, Time
<1>2. gw'[g] = new /\ \A h \in Gateways : h # g => gw'[h] = gw[h]
  BY DEF StartStamp, GwInv, Shapes
<1>3. CredTypeOK' /\ Shapes(B)'
  BY <1>1 DEF StartStamp, GwInv, Shapes, CredTypeOK, credVars
<1>4. RegistryInv'
  <2>1. gw[g].read_at <= clock /\ Backed(gw[g].registry, gw[g].read_at)
    BY DEF StartStamp, GwInv, RegistryInv
  <2> QED BY <1>1, <1>2, <2>1, CopiesStay DEF StartStamp, GwInv, RegistryInv
<1>5. BusyInv'
  <2>1. \A c \in Calls : Unsettled(c) => call[c].gw \in Gateways /\ call[c].gw # g
    BY CallShapes DEF GwInv, BusyInv, StartStamp
  <2> QED BY <1>2, <2>1 DEF StartStamp, GwInv, BusyInv, Unsettled, Inside
<1>6. (AdmitInv /\ LogInv /\ LimitInv)'
  BY DEF StartStamp, GwInv, AdmitInv, LogInv, LimitInv, Unsettled, InScope, EventsOf
<1> QED BY <1>3, <1>4, <1>5, <1>6 DEF GwInv

LEMMA CrashKeeps ==
  ASSUME NEW B, GwInv(B), UNCHANGED credVars, NEW g \in Gateways, GatewayCrash(g)
  PROVE  GwInv(B)'
<1>1. gw'[g] = Down /\ \A h \in Gateways : h # g => gw'[h] = gw[h]
  BY DEF GatewayCrash, GwInv, Shapes
<1>2. ASSUME NEW c \in Calls
      PROVE  \/ call'[c] = call[c] /\ (Unsettled(c) => call[c].gw # g)
             \/ /\ Unsettled(c) /\ call'[c] \in Closed
                /\ call'[c].stage = (IF call[c].stage = "announce" THEN "unannounced" ELSE "lost")
  <2>1. CASE Unsettled(c) /\ call[c].gw = g
    <3>1. call[c] \in Active
      BY <2>1, CallShapes DEF GwInv
    <3>2. call'[c] = Settled(c, Lost(call[c].stage))
      BY <2>1 DEF GatewayCrash
    <3> QED BY <2>1, <3>1, <3>2 DEF Settled, Lost, Active, Closed
  <2>2. CASE ~(Unsettled(c) /\ call[c].gw = g)
    BY <2>2 DEF GatewayCrash
  <2> QED BY <2>1, <2>2
<1>3. CredTypeOK' /\ Shapes(B)'
  <2>1. call' \in [Calls -> {Fresh} \cup Active \cup Closed]
    BY <1>2, CallShapes DEF GwInv, GatewayCrash
  <2>2. gw' \in [Gateways -> {Down} \cup Loading \cup Up(B)]
    BY DEF GatewayCrash, GwInv, Shapes
  <2> QED BY <2>1, <2>2 DEF GatewayCrash, GwInv, Shapes, CredTypeOK, credVars
<1>4. RegistryInv'
  BY <1>1, CopiesStay DEF GatewayCrash, GwInv, RegistryInv, Down
<1>5. \A c \in Calls : Unsettled(c)' => Unsettled(c) /\ call'[c] = call[c] /\ call[c].gw # g
                                        /\ call[c].gw \in Gateways
  BY <1>2, CallShapes DEF Unsettled, GwInv
<1>6. BusyInv'
  <2>1. \A c \in Calls : Unsettled(c)' => gw'[call'[c].gw] = gw[call[c].gw]
    BY <1>1, <1>5
  <2>2. ASSUME NEW h \in Gateways, NEW c \in Calls, gw'[h].mode = "up", gw'[h].busy = c
        PROVE  Inside(c)' /\ call'[c].gw = h
    <3>1. h # g /\ gw'[h] = gw[h]
      BY <1>1, <2>2 DEF Down
    <3>2. Inside(c) /\ call[c].gw = h
      BY <2>2, <3>1 DEF GwInv, BusyInv
    <3>3. call'[c] = call[c]
      BY <3>1, <3>2 DEF GatewayCrash
    <3> QED BY <3>2, <3>3 DEF Inside, Unsettled
  <2> QED BY <1>5, <2>1, <2>2 DEF GwInv, BusyInv, Inside
<1>7. AdmitInv'
  <2>1. ASSUME NEW c \in Calls PROVE AdmitInv!(c)'
    <3>1. CASE Unsettled(c)'
      BY <1>5, <3>1 DEF GwInv, AdmitInv, InScope
    <3>2. CASE ~Unsettled(c)'
      BY <3>2 DEF Unsettled
    <3> QED BY <3>1, <3>2
  <2> QED BY <2>1 DEF AdmitInv
<1>8. LogInv'
  <2>1. ASSUME NEW c \in Calls PROVE LogInv!(c)'
    <3>1. EventsOf(c)' = EventsOf(c)
      BY DEF EventsOf, GatewayCrash
    <3>2. CASE call'[c] = call[c]
      BY <3>1, <3>2 DEF GwInv, LogInv
    <3>3. CASE Unsettled(c) /\ call'[c].stage \in {"lost", "unannounced"}
      BY <3>1, <3>3 DEF GwInv, LogInv, Unsettled
    <3> QED BY <1>2, <3>2, <3>3
  <2> QED BY <2>1 DEF LogInv
<1>9. LimitInv'
  <2>1. ASSUME NEW e \in log, e.type = "tool.rate_limited", e.call \in Calls
        PROVE  /\ call'[e.call].stage \in {"limited_alert", "answered", "lost"}
               /\ call'[e.call].stage = "answered" =>
                    [call |-> e.call, type |-> "rate_limited"] \in alerts
    BY <1>2, <2>1 DEF GwInv, LimitInv
  <2> QED BY <2>1 DEF LimitInv, GatewayCrash
<1> QED BY <1>3, <1>4, <1>6, <1>7, <1>8, <1>9 DEF GwInv

-------------------------------------------------------------------------------
(* on_call_tool.                                                            *)

\* What the registry of a request's gateway is worth to the request.
LEMMA LagIsBounded ==
  ASSUME NEW B, GwInv(B), NEW g \in Gateways, gw[g].mode = "up",
         NEW k \in Tokens, NEW tool \in Tools, Identified(g, k),
         tool \in Refreshed(g).registry[k].scope \cup {Heartbeat}
  PROVE  Lag(k, tool) < Refresh + (Refreshed(g).loaded_at - Refreshed(g).read_at)
<1> USE CredentialAssumption, GatewayAssumption
<1> DEFINE r == Refreshed(g)
<1>1. /\ r \in Up(B) /\ r.loaded_at \in Nat /\ r.read_at \in Nat /\ clock \in Nat
      /\ r.read_at <= r.loaded_at
      /\ r.loaded_at <= clock /\ clock - r.loaded_at < Refresh
      /\ Backed(r.registry, r.read_at)
  BY RefreshedFacts DEF Up, GwInv, CredTypeOK, Time
<1>2. r.registry[k] # Missing
  BY DEF Identified, Missing
<1>3. ended[k][tool] >= r.read_at /\ ended[k][tool] \in Nat
  BY <1>1, <1>2 DEF Backed, GwInv, Shapes
<1> HIDE DEF r
<1> QED BY <1>1, <1>3 DEF Lag, r

LEMMA ArriveKeeps ==
  ASSUME NEW B, Calls \subseteq B, GwInv(B), UNCHANGED credVars,
         NEW c \in Calls, NEW g \in Gateways, NEW k \in Tokens \cup {NoToken},
         NEW tool \in Tools, NEW name \in Names, Arrive(c, g, k, tool, name)
  PROVE  GwInv(B)'
<1> USE CredentialAssumption, GatewayAssumption
<1> DEFINE r == Refreshed(g)
           new == [r EXCEPT !.busy = c]
           sc == IF Identified(g, k) THEN r.registry[k].scope ELSE Unscoped
           slack == r.loaded_at - r.read_at
           req == [stage |-> FirstStage(g, k), gw |-> g, token |-> k, tool |-> tool,
                   name |-> name, lag |-> Lag(k, tool), slack |-> slack, scope |-> sc]
<1>1. gw[g].mode = "up" /\ gw[g].busy = NoCall /\ call[c].stage = "new"
  BY DEF Arrive
<1>2. /\ r \in Up(B) /\ r.read_at <= r.loaded_at /\ r.loaded_at <= clock
      /\ Backed(r.registry, r.read_at)
  BY <1>1, RefreshedFacts
<1>3. /\ new \in Up(B) /\ new.busy = c /\ new.mode = "up"
      /\ new.registry = r.registry /\ new.read_at = r.read_at /\ new.loaded_at = r.loaded_at
  BY <1>2 DEF Up
<1>4. gw'[g] = new /\ \A h \in Gateways : h # g => gw'[h] = gw[h]
  BY DEF Arrive, GwInv, Shapes
<1>5. FirstStage(g, k) \in {"admit", "reject_token", "discover"}
  BY DEF FirstStage
<1>6. Identified(g, k) => k \in Tokens /\ sc \in Scopes /\ sc # Unscoped
  <2> SUFFICES ASSUME Identified(g, k) PROVE k \in Tokens /\ sc \in Scopes
    OBVIOUS
  <2>1. k \in Tokens /\ r.registry[k] # Missing
    BY DEF Identified, Missing
  <2>2. r.registry[k] \in {Missing} \cup [known : {TRUE}, scope : Scopes]
    BY <1>2, <2>1 DEF Up, Registries
  <2> QED BY <2>1, <2>2
<1>7. Lag(k, tool) \in Nat /\ (k = NoToken => Lag(k, tool) = 0)
  <2>1. k \in Tokens => ended[k][tool] \in Nat
    BY DEF GwInv, Shapes
  <2> QED BY <2>1 DEF Lag, GwInv, CredTypeOK, Time
<1>8. req \in Active /\ slack \in Nat
  <2>1. slack \in Nat
    BY <1>2 DEF Up
  <2> HIDE DEF slack
  <2> QED BY <1>5, <1>6, <1>7, <2>1 DEF Active
<1>9. /\ call'[c].stage = FirstStage(g, k) /\ call'[c].gw = g /\ call'[c].token = k
      /\ call'[c].tool = tool /\ call'[c].lag = Lag(k, tool) /\ call'[c].scope = sc
      /\ call'[c].slack = slack
      /\ \A d \in Calls : d # c => call'[d] = call[d]
  BY DEF Arrive, GwInv, Shapes
<1>10. CredTypeOK' /\ Shapes(B)'
  <2>1. gw' \in [Gateways -> {Down} \cup Loading \cup Up(B)]
    BY <1>3 DEF Arrive, GwInv, Shapes
  <2>2. call' \in [Calls -> {Fresh} \cup Active \cup Closed]
    BY <1>8 DEF Arrive, GwInv, Shapes
  <2> QED BY <2>1, <2>2 DEF Arrive, GwInv, Shapes, CredTypeOK, credVars
<1> HIDE DEF new, req, r, sc, slack
<1>11. RegistryInv'
  BY <1>2, <1>3, <1>4, CopiesStay DEF Arrive, GwInv, RegistryInv
<1>12. BusyInv'
  <2>1. \A d \in Calls : d # c => (Unsettled(d)' <=> Unsettled(d)) /\ (Inside(d)' <=> Inside(d))
    BY <1>9 DEF Unsettled, Inside
  <2>2. \A d \in Calls : Unsettled(d) => call[d].gw \in Gateways
    BY CallShapes DEF GwInv
  <2>3. \A d \in Calls : Inside(d) => call[d].gw # g
    BY <1>1 DEF GwInv, BusyInv
  <2>4. Inside(c)' /\ call'[c].gw = g
    BY <1>5, <1>9 DEF Inside, Unsettled
  <2>5. ~Inside(c)
    BY <1>1 DEF Inside, Unsettled
  <2>6. \A d \in Calls : Unsettled(d)' => gw'[call'[d].gw].mode = "up"
    BY <1>1, <1>3, <1>4, <1>9, <2>1, <2>2, <2>4 DEF GwInv, BusyInv
  <2>7. \A d \in Calls : Inside(d)' => gw'[call'[d].gw].busy = d
    BY <1>3, <1>4, <1>9, <2>1, <2>2, <2>3, <2>4 DEF GwInv, BusyInv, Inside
  <2>8. \A h \in Gateways, d \in Calls : gw'[h].mode = "up" /\ gw'[h].busy = d =>
          Inside(d)' /\ call'[d].gw = h
    BY <1>3, <1>4, <1>9, <2>1, <2>4, <2>5 DEF GwInv, BusyInv
  <2> QED BY <2>6, <2>7, <2>8 DEF BusyInv
<1>13. AdmitInv'
  <2>1. ASSUME FirstStage(g, k) = "admit", tool = Heartbeat \/ (sc # Unscoped => tool \in sc)
        PROVE  Lag(k, tool) < Refresh + slack
    <3>1. Identified(g, k)
      BY <2>1 DEF FirstStage
    <3>2. k \in Tokens /\ tool \in r.registry[k].scope \cup {Heartbeat}
      BY <2>1, <3>1, <1>6 DEF sc
    <3> QED BY <1>1, <3>1, <3>2, LagIsBounded DEF r, slack
  <2>2. AdmitInv!(c)'
    BY <1>5, <1>7, <1>9, <2>1 DEF InScope
  <2>3. \A d \in Calls : d # c => AdmitInv!(d)'
    BY <1>9 DEF GwInv, AdmitInv, Unsettled, InScope
  <2> QED BY <2>2, <2>3 DEF AdmitInv
<1>14. LogInv'
  <2>1. \A d \in Calls : EventsOf(d)' = EventsOf(d)
    BY DEF EventsOf, Arrive
  <2>2. EventsOf(c) = {}
    BY <1>1 DEF GwInv, LogInv
  <2>3. LogInv!(c)'
    BY <1>5, <1>9, <2>1, <2>2
  <2>4. \A d \in Calls : d # c => LogInv!(d)'
    BY <1>9, <2>1 DEF GwInv, LogInv
  <2> QED BY <2>3, <2>4 DEF LogInv
<1>15. LimitInv'
  BY <1>1, <1>9 DEF GwInv, LimitInv, Arrive
<1> QED BY <1>10, <1>11, <1>12, <1>13, <1>14, <1>15 DEF GwInv

\* A call that has its turn is inside the stretch of its gateway.
LEMMA TurnIsInside ==
  ASSUME NEW B, GwInv(B), NEW c \in Calls, Inside(c)
  PROVE  /\ call[c] \in Active /\ call[c].gw \in Gateways
         /\ gw[call[c].gw] \in Up(B) /\ gw[call[c].gw].busy = c
BY CallShapes, GwShapes DEF GwInv, BusyInv, Inside

\* From one commit to the next of the same stretch.
LEMMA MoveKeeps ==
  ASSUME NEW B, GwInv(B), UNCHANGED <<credVars, scope, gw, ended>>, discovered' \subseteq Names,
         NEW c \in Calls, Inside(c),
         NEW st \in {"announce", "announce_alert", "reject_token", "reject_no_token", "admit",
                     "limited_alert"},
         st = "admit" => call[c].token = NoToken, Move(c, st)
  PROVE  (CredTypeOK /\ Shapes(B) /\ BusyInv /\ RegistryInv /\ AdmitInv)'
<1> USE GatewayAssumption
<1>1. call[c] \in Active /\ Unsettled(c)
  BY TurnIsInside DEF Inside
<1>2. /\ call'[c] = [call[c] EXCEPT !.stage = st]
      /\ \A d \in Calls : d # c => call'[d] = call[d]
  BY DEF Move, GwInv, Shapes
<1>3. /\ call'[c] \in Active /\ call'[c].stage = st /\ call'[c].gw = call[c].gw
      /\ call'[c].token = call[c].token /\ call'[c].lag = call[c].lag
      /\ call'[c].slack = call[c].slack /\ call[c].slack \in Nat
  BY <1>1, <1>2 DEF Active
<1>4. CredTypeOK' /\ Shapes(B)'
  <2>1. call' \in [Calls -> {Fresh} \cup Active \cup Closed]
    BY <1>2, <1>3 DEF Move, GwInv, Shapes
  <2> QED BY <2>1 DEF GwInv, Shapes, CredTypeOK, credVars
<1>5. RegistryInv'
  BY CopiesStay DEF GwInv, RegistryInv
<1>6. \A d \in Calls : /\ Unsettled(d)' <=> Unsettled(d)
                       /\ Inside(d)' <=> Inside(d)
                       /\ call'[d].gw = call[d].gw
  BY <1>1, <1>2, <1>3 DEF Unsettled, Inside
<1>7. BusyInv'
  BY <1>6 DEF GwInv, BusyInv
<1>8. AdmitInv'
  <2>1. AdmitInv!(c)'
    BY <1>1, <1>3 DEF GwInv, AdmitInv
  <2>2. \A d \in Calls : d # c => AdmitInv!(d)'
    BY <1>2 DEF GwInv, AdmitInv, Unsettled, InScope
  <2> QED BY <2>1, <2>2 DEF AdmitInv
<1> QED BY <1>4, <1>5, <1>7, <1>8

\* The end of a stretch: the loop is free again.
LEMMA FreeKeeps ==
  ASSUME NEW B, NoCall \in B, GwInv(B), UNCHANGED <<credVars, scope, ended, discovered>>,
         NEW c \in Calls, Inside(c), gw' = [gw EXCEPT ![call[c].gw].busy = NoCall],
         NEW new \in Active \cup Closed,
         new.stage \in {"forwarded", "answered", "lost", "unannounced"},
         new.stage = "forwarded" => /\ new = [call[c] EXCEPT !.stage = "forwarded"]
                                    /\ call[c].lag < Refresh + call[c].slack,
         call' = [call EXCEPT ![c] = new]
  PROVE  (CredTypeOK /\ Shapes(B) /\ BusyInv /\ RegistryInv /\ AdmitInv)'
<1> USE GatewayAssumption
<1> DEFINE g == call[c].gw
<1>1. call[c] \in Active /\ g \in Gateways /\ gw[g] \in Up(B) /\ gw[g].busy = c
  BY TurnIsInside
<1>2. /\ gw'[g] \in Up(B) /\ gw'[g].mode = "up" /\ gw'[g].busy = NoCall
      /\ gw'[g].registry = gw[g].registry
      /\ gw'[g].read_at = gw[g].read_at /\ gw'[g].loaded_at = gw[g].loaded_at
      /\ \A h \in Gateways : h # g => gw'[h] = gw[h]
  <2>1. gw' = [gw EXCEPT ![g] = [gw[g] EXCEPT !.busy = NoCall]]
    BY <1>1 DEF GwInv, Shapes
  <2> QED BY <1>1, <2>1 DEF GwInv, Shapes, Up
<1>3. call'[c] = new /\ \A d \in Calls : d # c => call'[d] = call[d]
  BY DEF GwInv, Shapes
<1>4. CredTypeOK' /\ Shapes(B)'
  <2>1. gw' \in [Gateways -> {Down} \cup Loading \cup Up(B)]
    <3>1. \A h \in Gateways : gw'[h] \in {Down} \cup Loading \cup Up(B)
      BY <1>2 DEF GwInv, Shapes
    <3> QED BY <3>1 DEF GwInv, Shapes
  <2>2. call' \in [Calls -> {Fresh} \cup Active \cup Closed]
    BY DEF GwInv, Shapes
  <2> QED BY <2>1, <2>2 DEF GwInv, Shapes, CredTypeOK, credVars
<1>5. RegistryInv'
  <2>1. gw[g].mode = "up"
    BY <1>1 DEF Up
  <2> QED BY <1>1, <1>2, <2>1, CopiesStay DEF GwInv, RegistryInv
<1>6. ~Inside(c)' /\ (Unsettled(c)' => call'[c].gw = g)
  <2>1. new.stage = "forwarded" => new.gw = g
    BY <1>1 DEF Active
  <2> QED BY <1>3, <2>1 DEF Inside, Unsettled
<1>7. \A d \in Calls : d # c => (Unsettled(d)' <=> Unsettled(d)) /\ (Inside(d)' <=> Inside(d))
  BY <1>3 DEF Unsettled, Inside
<1>8. BusyInv'
  <2>1. \A d \in Calls : Unsettled(d) => call[d].gw \in Gateways
    BY CallShapes DEF GwInv
  <2>2. \A d \in Calls : d # c /\ Inside(d) => call[d].gw # g
    BY <1>1 DEF GwInv, BusyInv
  <2>3. \A d \in Calls : Unsettled(d)' => gw'[call'[d].gw].mode = "up"
    BY <1>2, <1>3, <1>6, <1>7, <2>1 DEF GwInv, BusyInv
  <2>4. \A d \in Calls : Inside(d)' => gw'[call'[d].gw].busy = d
    BY <1>2, <1>3, <1>6, <1>7, <2>1, <2>2 DEF GwInv, BusyInv, Inside
  <2>5. \A h \in Gateways, d \in Calls : gw'[h].mode = "up" /\ gw'[h].busy = d =>
          Inside(d)' /\ call'[d].gw = h
    BY <1>2, <1>3, <1>7 DEF GwInv, BusyInv
  <2> QED BY <2>3, <2>4, <2>5 DEF BusyInv
<1>9. AdmitInv'
  <2>1. AdmitInv!(c)'
    <3>1. CASE new.stage = "forwarded"
      <4>1. /\ new.lag = call[c].lag /\ new.slack = call[c].slack
            /\ new.token = call[c].token /\ Unsettled(c)
        BY <1>1, <3>1 DEF Active, Inside
      <4> QED BY <1>3, <3>1, <4>1 DEF GwInv, AdmitInv
    <3>2. CASE new.stage \in {"answered", "lost", "unannounced"}
      BY <1>3, <3>2 DEF Unsettled
    <3> QED BY <3>1, <3>2
  <2>2. \A d \in Calls : d # c => AdmitInv!(d)'
    BY <1>3 DEF GwInv, AdmitInv, Unsettled, InScope
  <2> QED BY <2>1, <2>2 DEF AdmitInv
<1> QED BY <1>4, <1>5, <1>8, <1>9

\* One more event of a call, or one that announces an agent.
LEMMA EventsGrow ==
  ASSUME NEW c, NEW e, e.call = c, log' = log \cup {e}
  PROVE  /\ e.type # "agent.discovered" => EventsOf(c)' = EventsOf(c) \cup {e}
         /\ e.type = "agent.discovered" => EventsOf(c)' = EventsOf(c)
         /\ \A d : d # c => EventsOf(d)' = EventsOf(d)
BY DEF EventsOf

\* Stages at which a call has left no event of its own yet.
Silent(c) == call[c].stage \in {"discover", "announce", "announce_alert", "reject_token",
                                "reject_no_token", "admit", "forwarded"}

LEMMA SilentFacts ==
  ASSUME NEW B, GwInv(B), NEW c \in Calls, Silent(c)
  PROVE  /\ Unsettled(c) /\ EventsOf(c) = {}
         /\ call[c].stage # "forwarded" => Inside(c)
         /\ \A e \in log : e.type = "tool.rate_limited" => e.call # c
BY DEF Silent, GwInv, LogInv, LimitInv, Unsettled, Inside

\* A call moves on, and others stay where they are.
LEMMA OthersStay ==
  ASSUME NEW B, Shapes(B), NEW c \in Calls, NEW st, Move(c, st), Unsettled(c)
  PROVE  /\ call'[c].stage = st /\ call'[c].tool = call[c].tool
         /\ \A d \in Calls : d # c => call'[d] = call[d]
<1>1. call[c] \in Active
  BY CallShapes
<1>2. call'[c] = [call[c] EXCEPT !.stage = st] /\ \A d \in Calls : d # c => call'[d] = call[d]
  BY DEF Move, Shapes
<1> QED BY <1>1, <1>2 DEF Active

\* A move that writes at most agent.discovered or an alert.
LEMMA QuietMove ==
  ASSUME NEW B, GwInv(B), NEW c \in Calls, Silent(c), NEW st, Move(c, st),
         st \notin {"answered", "raised", "limited_alert", "lost", "unannounced"},
         \A d \in Calls : EventsOf(d)' = EventsOf(d), alerts \subseteq alerts',
         \A e \in log' : e.type = "tool.rate_limited" => e \in log
  PROVE  (LogInv /\ LimitInv)'
<1>1. call'[c].stage = st /\ \A d \in Calls : d # c => call'[d] = call[d]
  BY OthersStay, SilentFacts DEF GwInv
<1>2. LogInv'
  BY <1>1, SilentFacts DEF GwInv, LogInv
<1>3. LimitInv'
  BY <1>1, SilentFacts DEF GwInv, LimitInv
<1> QED BY <1>2, <1>3

\* A silent call is answered and its event written.
LEMMA LoudAnswer ==
  ASSUME NEW B, GwInv(B), NEW c \in Calls, Silent(c), NEW type, NEW result,
         Record(c, type, result), type \notin {"agent.discovered", "tool.rate_limited"},
         \/ call'[c].stage = "answered"
         \/ call'[c].stage = "raised" /\ call'[c].tool # Heartbeat,
         \A d \in Calls : d # c => call'[d] = call[d],
         alerts' = alerts
  PROVE  (LogInv /\ LimitInv)'
<1> DEFINE e == [call |-> c, name |-> call[c].name, type |-> type, result |-> result]
<1>1. log' = log \cup {e} /\ e.call = c /\ e.type = type
  BY DEF Record
<1> HIDE DEF e
<1>2. EventsOf(c)' = {e} /\ \A d \in Calls : d # c => EventsOf(d)' = EventsOf(d)
  BY <1>1, EventsGrow, SilentFacts
<1>3. LogInv!(c)'
  BY <1>2
<1>4. LogInv'
  BY <1>2, <1>3 DEF GwInv, LogInv
<1>5. LimitInv'
  BY <1>1, SilentFacts DEF GwInv, LimitInv
<1> QED BY <1>4, <1>5

LEMMA AnswerFacts ==
  ASSUME NEW B, Shapes(B), NEW c \in Calls, Unsettled(c),
         NEW st \in {"answered", "raised", "lost", "unannounced"},
         call' = [call EXCEPT ![c] = Settled(c, st)]
  PROVE  /\ Settled(c, st) \in Closed /\ call'[c] \in Closed
         /\ call'[c].stage = st /\ call'[c].tool = call[c].tool
         /\ Settled(c, st).stage = st
         /\ \A d \in Calls : d # c => call'[d] = call[d]
<1>1. call[c] \in Active
  BY CallShapes
<1>2. Settled(c, st) \in Closed
  BY <1>1 DEF Settled, Active, Closed
<1> QED BY <1>2 DEF Shapes, Settled

\* A call without an event of its own, or with one, is lost as it is.
LEMMA LostQuietly ==
  ASSUME NEW B, GwInv(B), NEW c \in Calls, Unsettled(c), UNCHANGED <<log, alerts>>,
         \/ call'[c].stage = "lost"
         \/ call'[c].stage = "unannounced" /\ call[c].stage = "announce",
         \A d \in Calls : d # c => call'[d] = call[d]
  PROVE  (LogInv /\ LimitInv)'
<1>1. \A d \in Calls : EventsOf(d)' = EventsOf(d)
  BY DEF EventsOf
<1>2. (\E e : EventsOf(c) = {e}) \/ EventsOf(c) = {}
  BY DEF GwInv, LogInv, Unsettled
<1>3. LogInv!(c)'
  BY <1>1, <1>2
<1>4. LogInv'
  BY <1>1, <1>3 DEF GwInv, LogInv
<1>5. call[c].stage = "announce" => \A e \in log : e.type = "tool.rate_limited" => e.call # c
  BY SilentFacts DEF Silent
<1>6. LimitInv'
  BY <1>5 DEF GwInv, LimitInv
<1> QED BY <1>4, <1>6

LEMMA DiscoverKeeps ==
  ASSUME NEW B, GwInv(B), UNCHANGED credVars, NEW c \in Calls, Discover(c)
  PROVE  GwInv(B)'
<1>1. Silent(c)
  BY DEF Discover, Turn, Silent
<1>2. Inside(c) /\ call[c] \in Active
  BY <1>1, SilentFacts, TurnIsInside DEF Discover, Turn
<1> DEFINE st == IF call[c].name \in discovered THEN AfterDiscovery(c) ELSE "announce"
<1>3. /\ AfterDiscovery(c) \in {"reject_token", "reject_no_token", "admit"}
      /\ AfterDiscovery(c) = "admit" => call[c].token = NoToken
  BY DEF AfterDiscovery
<1>4. /\ st \in {"announce", "reject_token", "reject_no_token", "admit"}
      /\ st = "admit" => call[c].token = NoToken
      /\ Move(c, st)
  BY <1>3 DEF Discover
<1>5. discovered' \subseteq Names
  BY <1>2 DEF Discover, GwInv, Shapes, Active
<1> HIDE DEF st
<1>6. (CredTypeOK /\ Shapes(B) /\ BusyInv /\ RegistryInv /\ AdmitInv)'
  BY <1>2, <1>4, <1>5, MoveKeeps DEF Discover
<1>7. (LogInv /\ LimitInv)'
  <2>1. \A d \in Calls : EventsOf(d)' = EventsOf(d)
    BY DEF Discover, EventsOf
  <2> QED BY <1>1, <1>4, <2>1, QuietMove DEF Discover
<1> QED BY <1>6, <1>7 DEF GwInv

LEMMA AnnounceKeeps ==
  ASSUME NEW B, GwInv(B), UNCHANGED credVars, NEW c \in Calls, Announce(c)
  PROVE  GwInv(B)'
<1>1. Silent(c)
  BY DEF Announce, Turn, Silent
<1>2. Inside(c)
  BY <1>1, SilentFacts DEF Announce, Turn
<1>3. (CredTypeOK /\ Shapes(B) /\ BusyInv /\ RegistryInv /\ AdmitInv)'
  BY <1>2, MoveKeeps DEF Announce, GwInv, Shapes
<1>4. (LogInv /\ LimitInv)'
  <2> DEFINE e == [call |-> c, name |-> call[c].name, type |-> "agent.discovered",
                   result |-> "success"]
  <2>1. log' = log \cup {e} /\ e.call = c /\ e.type = "agent.discovered"
    BY DEF Announce, Record
  <2> HIDE DEF e
  <2>2. \A d \in Calls : EventsOf(d)' = EventsOf(d)
    BY <2>1, EventsGrow
  <2> QED BY <1>1, <2>1, <2>2, QuietMove DEF Announce
<1> QED BY <1>3, <1>4 DEF GwInv

LEMMA AnnounceAlertKeeps ==
  ASSUME NEW B, GwInv(B), UNCHANGED credVars, NEW c \in Calls, AnnounceAlert(c)
  PROVE  GwInv(B)'
<1>1. Silent(c)
  BY DEF AnnounceAlert, Turn, Silent
<1>2. Inside(c)
  BY <1>1, SilentFacts DEF AnnounceAlert, Turn
<1>3. /\ AfterDiscovery(c) \in {"reject_token", "reject_no_token", "admit"}
      /\ AfterDiscovery(c) = "admit" => call[c].token = NoToken
  BY DEF AfterDiscovery
<1>4. (CredTypeOK /\ Shapes(B) /\ BusyInv /\ RegistryInv /\ AdmitInv)'
  BY <1>2, <1>3, MoveKeeps DEF AnnounceAlert, GwInv, Shapes
<1>5. (LogInv /\ LimitInv)'
  <2>1. \A d \in Calls : EventsOf(d)' = EventsOf(d)
    BY DEF AnnounceAlert, EventsOf
  <2> QED BY <1>1, <1>3, <2>1, QuietMove DEF AnnounceAlert, fire_alert
<1> QED BY <1>4, <1>5 DEF GwInv

LEMMA RateLimitedKeeps ==
  ASSUME NEW B, GwInv(B), UNCHANGED credVars, NEW c \in Calls, RateLimited(c)
  PROVE  GwInv(B)'
<1>1. Silent(c)
  BY DEF RateLimited, Turn, Silent
<1>2. Inside(c) /\ Unsettled(c) /\ EventsOf(c) = {}
  BY <1>1, SilentFacts DEF RateLimited, Turn
<1>3. (CredTypeOK /\ Shapes(B) /\ BusyInv /\ RegistryInv /\ AdmitInv)'
  BY <1>2, MoveKeeps DEF RateLimited, GwInv, Shapes
<1>4. call'[c].stage = "limited_alert" /\ \A d \in Calls : d # c => call'[d] = call[d]
  BY <1>2, OthersStay DEF RateLimited, GwInv
<1> DEFINE e == [call |-> c, name |-> call[c].name, type |-> "tool.rate_limited",
                 result |-> "denied"]
<1>5. log' = log \cup {e} /\ e.call = c /\ e.type = "tool.rate_limited" /\ alerts' = alerts
  BY DEF RateLimited, Record
<1> HIDE DEF e
<1>6. EventsOf(c)' = {e} /\ \A d \in Calls : d # c => EventsOf(d)' = EventsOf(d)
  BY <1>2, <1>5, EventsGrow
<1>7. LogInv!(c)'
  BY <1>4, <1>6
<1>8. LogInv'
  BY <1>4, <1>6, <1>7 DEF GwInv, LogInv
<1>9. LimitInv'
  BY <1>1, <1>4, <1>5, SilentFacts DEF GwInv, LimitInv
<1> QED BY <1>3, <1>8, <1>9 DEF GwInv

LEMMA LimitedAlertKeeps ==
  ASSUME NEW B, NoCall \in B, GwInv(B), UNCHANGED credVars, NEW c \in Calls, LimitedAlert(c)
  PROVE  GwInv(B)'
<1>1. Inside(c) /\ Unsettled(c) /\ call[c].stage = "limited_alert"
  BY DEF LimitedAlert, Turn, Inside, Unsettled
<1>2. /\ Settled(c, "answered") \in Closed /\ Settled(c, "answered").stage = "answered"
      /\ call'[c].stage = "answered" /\ call'[c].tool = call[c].tool
      /\ \A d \in Calls : d # c => call'[d] = call[d]
  BY <1>1, AnswerFacts DEF LimitedAlert, Answer, Leave, GwInv
<1>3. (CredTypeOK /\ Shapes(B) /\ BusyInv /\ RegistryInv /\ AdmitInv)'
  BY <1>1, <1>2, FreeKeeps DEF LimitedAlert, Answer, Leave
<1>4. \A d \in Calls : EventsOf(d)' = EventsOf(d)
  BY DEF LimitedAlert, EventsOf
<1>5. LogInv'
  <2>1. LogInv!(c)'
    <3>1. PICK e : EventsOf(c) = {e}
      BY <1>1 DEF GwInv, LogInv
    <3> QED BY <1>2, <1>4, <3>1
  <2> QED BY <1>2, <1>4, <2>1 DEF GwInv, LogInv
<1>6. LimitInv'
  BY <1>1, <1>2 DEF GwInv, LimitInv, LimitedAlert, fire_alert
<1> QED BY <1>3, <1>5, <1>6 DEF GwInv

\* The three rejections that are one event and an answer.
LEMMA RejectKeeps ==
  ASSUME NEW B, NoCall \in B, GwInv(B), UNCHANGED credVars, NEW c \in Calls,
         RejectToken(c) \/ RejectNoToken(c) \/ Blocked(c)
  PROVE  GwInv(B)'
<1>1. Silent(c) /\ call[c].stage # "forwarded"
  BY DEF RejectToken, RejectNoToken, Blocked, Turn, Silent
<1>2. Answer(c) /\ UNCHANGED <<scope, discovered, alerts, ended>>
  BY DEF RejectToken, RejectNoToken, Blocked
<1>3. PICK type \in {"tool.rejected_unrecognized_token", "tool.rejected_no_token", "tool.blocked"} :
        Record(c, type, "denied")
  BY DEF RejectToken, RejectNoToken, Blocked
<1>4. Inside(c) /\ Unsettled(c)
  BY <1>1, SilentFacts
<1>5. /\ Settled(c, "answered") \in Closed /\ Settled(c, "answered").stage = "answered"
      /\ call'[c].stage = "answered"
      /\ \A d \in Calls : d # c => call'[d] = call[d]
  BY <1>2, <1>4, AnswerFacts DEF Answer, Leave, GwInv
<1>6. (CredTypeOK /\ Shapes(B) /\ BusyInv /\ RegistryInv /\ AdmitInv)'
  BY <1>2, <1>4, <1>5, FreeKeeps DEF Answer, Leave
<1>7. (LogInv /\ LimitInv)'
  BY <1>1, <1>2, <1>3, <1>5, LoudAnswer
<1> QED BY <1>6, <1>7 DEF GwInv

\* A refused write.
LEMMA WriteRefusedKeeps ==
  ASSUME NEW B, NoCall \in B, GwInv(B), UNCHANGED credVars, NEW c \in Calls, WriteRefused(c)
  PROVE  GwInv(B)'
<1>1. Inside(c) /\ Unsettled(c) /\ UNCHANGED <<scope, discovered, log, alerts, ended>>
  BY DEF WriteRefused, Writing, Inside, Unsettled
<1> DEFINE st == Lost(call[c].stage)
<1>2. st \in {"lost", "unannounced"} /\ (st = "unannounced" => call[c].stage = "announce")
  BY DEF Lost
<1>3. /\ call' = [call EXCEPT ![c] = Settled(c, st)]
      /\ gw' = [gw EXCEPT ![call[c].gw].busy = NoCall]
  BY DEF WriteRefused, Leave
<1> HIDE DEF st
<1>4. /\ Settled(c, st) \in Closed /\ Settled(c, st).stage = st /\ call'[c].stage = st
      /\ \A d \in Calls : d # c => call'[d] = call[d]
  BY <1>1, <1>2, <1>3, AnswerFacts DEF GwInv
<1>5. (CredTypeOK /\ Shapes(B) /\ BusyInv /\ RegistryInv /\ AdmitInv)'
  BY <1>1, <1>2, <1>3, <1>4, FreeKeeps
<1>6. (LogInv /\ LimitInv)'
  BY <1>1, <1>2, <1>4, LostQuietly
<1> QED BY <1>5, <1>6 DEF GwInv

\* Both ways on to the backend.
LEMMA AdmitKeeps ==
  ASSUME NEW B, NoCall \in B, GwInv(B), UNCHANGED credVars, NEW c \in Calls,
         AdmitHeartbeat(c) \/ Admit(c)
  PROVE  GwInv(B)'
<1>1. /\ Silent(c) /\ call[c].stage = "admit" /\ Forward(c)
      /\ UNCHANGED <<scope, discovered, log, alerts, ended>>
  BY DEF AdmitHeartbeat, Admit, Turn, Silent
<1>2. call[c].lag < Refresh + call[c].slack
  BY DEF AdmitHeartbeat, Admit, Turn, GwInv, AdmitInv
<1>3. Inside(c) /\ call[c] \in Active
  BY <1>1, SilentFacts, TurnIsInside
<1> DEFINE new == [call[c] EXCEPT !.stage = "forwarded"]
<1>4. new \in Active /\ new.stage = "forwarded"
  BY <1>3 DEF Active
<1>5. call' = [call EXCEPT ![c] = new]
  BY <1>1 DEF Forward, Move, GwInv, Shapes
<1>6. (CredTypeOK /\ Shapes(B) /\ BusyInv /\ RegistryInv /\ AdmitInv)'
  BY <1>1, <1>2, <1>3, <1>4, <1>5, FreeKeeps DEF Forward
<1>7. (LogInv /\ LimitInv)'
  <2>1. \A d \in Calls : EventsOf(d)' = EventsOf(d)
    BY <1>1 DEF EventsOf
  <2> QED BY <1>1, <2>1, QuietMove DEF Forward
<1> QED BY <1>6, <1>7 DEF GwInv

\* The end of a call that was with the backend.
LEMMA BackendKeeps ==
  ASSUME NEW B, GwInv(B), UNCHANGED <<credVars, scope, gw, discovered, ended>>,
         NEW c \in Calls, call[c].stage = "forwarded", gw[call[c].gw].busy = NoCall,
         NEW st \in {"answered", "raised", "lost"}, call' = [call EXCEPT ![c] = Settled(c, st)]
  PROVE  (CredTypeOK /\ Shapes(B) /\ BusyInv /\ RegistryInv /\ AdmitInv)'
<1>1. Unsettled(c) /\ ~Inside(c)
  BY DEF Unsettled, Inside
<1>2. /\ call'[c] \in Closed /\ call'[c].stage = st
      /\ \A d \in Calls : d # c => call'[d] = call[d]
  BY <1>1, AnswerFacts DEF GwInv
<1>3. CredTypeOK' /\ Shapes(B)'
  <2>1. call' \in [Calls -> {Fresh} \cup Active \cup Closed]
    BY <1>2 DEF GwInv, Shapes
  <2> QED BY <2>1 DEF GwInv, Shapes, CredTypeOK, credVars
<1>4. RegistryInv'
  BY CopiesStay DEF GwInv, RegistryInv
<1>5. /\ ~Unsettled(c)' /\ ~Inside(c)'
      /\ \A d \in Calls : d # c => (Unsettled(d)' <=> Unsettled(d)) /\ (Inside(d)' <=> Inside(d))
  BY <1>2 DEF Unsettled, Inside
<1>6. BusyInv'
  BY <1>1, <1>2, <1>5 DEF GwInv, BusyInv
<1>7. AdmitInv'
  <2>1. \A d \in Calls : d # c => AdmitInv!(d)'
    BY <1>2 DEF GwInv, AdmitInv, Unsettled, InScope
  <2>2. AdmitInv!(c)'
    BY <1>2, <1>5
  <2> QED BY <2>1, <2>2 DEF AdmitInv
<1> QED BY <1>3, <1>4, <1>6, <1>7

LEMMA ReturnKeeps ==
  ASSUME NEW B, GwInv(B), UNCHANGED credVars, NEW c \in Calls, NEW ok \in BOOLEAN, Return(c, ok)
  PROVE  GwInv(B)'
<1>1. /\ Silent(c) /\ Unsettled(c) /\ call[c].stage = "forwarded"
      /\ gw[call[c].gw].busy = NoCall
      /\ UNCHANGED <<scope, gw, discovered, alerts, ended>>
  BY SilentFacts DEF Return, HeartbeatLogged, Silent
<1>2. /\ Backend(ok) \in {"answered", "raised"} /\ (Backend(ok) = "answered" <=> ok)
      /\ call' = [call EXCEPT ![c] = Settled(c, Backend(ok))]
  BY DEF Return, HeartbeatLogged, Backend
<1>3. /\ call'[c].stage = Backend(ok) /\ call'[c].tool = call[c].tool
      /\ \A d \in Calls : d # c => call'[d] = call[d]
  BY <1>1, <1>2, AnswerFacts DEF GwInv
<1>4. (CredTypeOK /\ Shapes(B) /\ BusyInv /\ RegistryInv /\ AdmitInv)'
  BY <1>1, <1>2, BackendKeeps
<1>5. (LogInv /\ LimitInv)'
  <2>1. CASE call[c].tool = Heartbeat /\ ~ok
    <3>1. log' = log
      BY <2>1 DEF Return, HeartbeatLogged
    <3>2. \A d \in Calls : EventsOf(d)' = EventsOf(d)
      BY <3>1 DEF EventsOf
    <3>3. EventsOf(c) = {}
      BY <1>1, SilentFacts
    <3>4. LogInv!(c)'
      BY <1>2, <1>3, <2>1, <3>2, <3>3
    <3>5. LogInv'
      BY <1>3, <3>2, <3>4 DEF GwInv, LogInv
    <3>6. LimitInv'
      BY <1>1, <1>3, <3>1, SilentFacts DEF GwInv, LimitInv
    <3> QED BY <3>5, <3>6
  <2>2. CASE ~(call[c].tool = Heartbeat /\ ~ok)
    <3>1. \E type \in {"agent.heartbeat", "tool.called"} : Record(c, type, "success")
      BY <2>2 DEF Return, HeartbeatLogged
    <3>2. call'[c].stage = "answered" \/ (call'[c].stage = "raised" /\ call'[c].tool # Heartbeat)
      BY <1>2, <1>3, <2>2
    <3> QED BY <1>1, <1>3, <3>1, <3>2, LoudAnswer
  <2> QED BY <2>1, <2>2
<1> QED BY <1>4, <1>5 DEF GwInv

LEMMA ReturnRefusedKeeps ==
  ASSUME NEW B, GwInv(B), UNCHANGED credVars, NEW c \in Calls, ReturnRefused(c)
  PROVE  GwInv(B)'
<1>1. /\ Unsettled(c) /\ call[c].stage = "forwarded" /\ gw[call[c].gw].busy = NoCall
      /\ UNCHANGED <<scope, gw, discovered, log, alerts, ended>>
      /\ call' = [call EXCEPT ![c] = Settled(c, "lost")]
  BY DEF ReturnRefused, Unsettled
<1>2. call'[c].stage = "lost" /\ \A d \in Calls : d # c => call'[d] = call[d]
  BY <1>1, AnswerFacts DEF GwInv
<1>3. (CredTypeOK /\ Shapes(B) /\ BusyInv /\ RegistryInv /\ AdmitInv)'
  BY <1>1, BackendKeeps
<1>4. (LogInv /\ LimitInv)'
  BY <1>1, <1>2, LostQuietly
<1> QED BY <1>3, <1>4 DEF GwInv

-------------------------------------------------------------------------------
(* All of it together.                                                      *)

LEMMA GwStepKeeps ==
  ASSUME NEW B, Calls \cup {NoCall} \subseteq B, GwInv(B), UNCHANGED credVars, GwStep
  PROVE  GwInv(B)'
BY StartLoadKeeps, StartStampKeeps, ArriveKeeps, DiscoverKeeps, AnnounceKeeps, AnnounceAlertKeeps,
   RejectKeeps, AdmitKeeps, RateLimitedKeeps, LimitedAlertKeeps, WriteRefusedKeeps, ReturnKeeps,
   ReturnRefusedKeeps, ReregisterKeeps
   DEF GwStep, Work

LEMMA GwInitHolds ==
  ASSUME NEW B, GwInit
  PROVE  GwInv(B)
<1> USE CredentialAssumption, GatewayAssumption
<1>1. CredTypeOK /\ Shapes(B)
  BY CredInitHolds DEF GwInit, Shapes
<1>2. BusyInv /\ AdmitInv
  BY DEF GwInit, BusyInv, AdmitInv, Unsettled, Inside, Fresh, Down
<1>3. RegistryInv
  BY DEF GwInit, CredInit, RegistryInv, Authority, Usable, NoRow, Down
<1>4. LogInv /\ LimitInv
  BY DEF GwInit, LogInv, LimitInv, EventsOf, Fresh
<1> QED BY <1>1, <1>2, <1>3, <1>4 DEF GwInv

CallsOnly == Calls \cup {NoCall}

LEMMA GwInvariance == GwSpec => []GwInv(CallsOnly)
<1>1. GwInit => GwInv(CallsOnly)
  BY GwInitHolds
<1>2. GwInv(CallsOnly) /\ UNCHANGED allVars => GwInv(CallsOnly)'
  <2> SUFFICES ASSUME GwInv(CallsOnly), UNCHANGED allVars PROVE GwInv(CallsOnly)'
    OBVIOUS
  <2>1. (CredTypeOK /\ Shapes(CallsOnly))'
    BY DEF GwInv, CredTypeOK, Shapes, allVars, credVars, gwVars
  <2>2. RegistryInv'
    BY CopiesStay DEF GwInv, RegistryInv, allVars, gwVars
  <2> QED BY <2>1, <2>2, CallsUntouched DEF GwInv, allVars, gwVars
<1>3. GwInv(CallsOnly) /\ GwNext => GwInv(CallsOnly)'
  BY TickKeeps, CliStepKeeps, GwStepKeeps, CrashKeeps DEF GwNext, CallsOnly
<1> QED BY <1>1, <1>2, <1>3, PTL DEF GwSpec

\* Who writes events and alerts on the gateway's path.
EventTypes == {"agent.discovered", "tool.rejected_unrecognized_token", "tool.rejected_no_token",
               "tool.rate_limited", "tool.blocked", "agent.heartbeat", "tool.called"}

LEMMA WorkWrites ==
  ASSUME NEW c, Work(c) \/ ReturnRefused(c) \/ \E ok : Return(c, ok)
  PROVE  /\ \/ log' = log
            \/ \E type \in EventTypes, result \in {"success", "denied"} : Record(c, type, result)
         /\ alerts' = alerts \/ \E type : fire_alert(c, type)
<1> DEFINE Writes == /\ \/ log' = log
                        \/ \E type \in EventTypes, result \in {"success", "denied"} :
                             Record(c, type, result)
                     /\ alerts' = alerts \/ \E type : fire_alert(c, type)
<1> USE DEF EventTypes
<1>1. Discover(c) \/ AdmitHeartbeat(c) \/ Admit(c) \/ WriteRefused(c) \/ ReturnRefused(c) => Writes
  BY DEF Discover, AdmitHeartbeat, Admit, WriteRefused, ReturnRefused
<1>2. Announce(c) \/ RateLimited(c) => Writes
  BY DEF Announce, RateLimited
<1>3. AnnounceAlert(c) \/ LimitedAlert(c) => Writes
  BY DEF AnnounceAlert, LimitedAlert
<1>4. RejectToken(c) \/ RejectNoToken(c) \/ Blocked(c) => Writes
  BY DEF RejectToken, RejectNoToken, Blocked
<1>5. \A ok : Return(c, ok) => Writes
  BY DEF Return, HeartbeatLogged
<1> QED BY <1>1, <1>2, <1>3, <1>4, <1>5 DEF Work

LEMMA OthersWriteNothing ==
  ASSUME \/ Tick \/ CliStep \/ UNCHANGED allVars
         \/ \E g : StartLoad(g) \/ StartStamp(g) \/ GatewayCrash(g)
         \/ \E c, g, k, tool, n : Arrive(c, g, k, tool, n)
         \/ \E a, s : Reregister(a, s)
  PROVE  UNCHANGED <<log, alerts>>
<1>1. Tick \/ CliStep \/ UNCHANGED allVars => UNCHANGED <<log, alerts>>
  BY DEF Tick, CliStep, allVars, gwVars
<1>2. \A g : StartLoad(g) \/ StartStamp(g) \/ GatewayCrash(g) => UNCHANGED <<log, alerts>>
  BY DEF StartLoad, StartStamp, GatewayCrash
<1>3. \A c, g, k, tool, n : Arrive(c, g, k, tool, n) => UNCHANGED <<log, alerts>>
  BY DEF Arrive
<1>4. \A a, s : Reregister(a, s) => UNCHANGED <<log, alerts>>
  BY DEF Reregister
<1> QED BY <1>1, <1>2, <1>3, <1>4

\* Every event and every alert belongs to a call.
WrittenByCalls ==
  /\ \A e \in log : e.call \in Calls /\ e.result \in {"success", "denied"}
  /\ \A e \in alerts : e.call \in Calls

LEMMA CallsWrite == GwSpec => []WrittenByCalls
<1>1. GwInit => WrittenByCalls
  BY DEF GwInit, WrittenByCalls
<1>2. WrittenByCalls /\ [GwNext]_allVars => WrittenByCalls'
  <2> SUFFICES ASSUME WrittenByCalls, [GwNext]_allVars PROVE WrittenByCalls'
    OBVIOUS
  <2>1. ASSUME NEW c \in Calls, Work(c) \/ ReturnRefused(c) \/ \E ok : Return(c, ok)
        PROVE  WrittenByCalls'
    <3>1. \A e \in log' : e \in log \/ (e.call = c /\ e.result \in {"success", "denied"})
      <4>1. ASSUME NEW type \in EventTypes, NEW result \in {"success", "denied"},
                   Record(c, type, result)
            PROVE  \A e \in log' : e \in log \/ (e.call = c /\ e.result \in {"success", "denied"})
        BY <4>1 DEF Record
      <4> QED BY <2>1, <4>1, WorkWrites
    <3>2. \A e \in alerts' : e \in alerts \/ e.call = c
      BY <2>1, WorkWrites DEF fire_alert
    <3> QED BY <3>1, <3>2 DEF WrittenByCalls
  <2>2. CASE UNCHANGED <<log, alerts>>
    BY <2>2 DEF WrittenByCalls
  <2> QED BY <2>1, <2>2, OthersWriteNothing DEF GwNext, GwStep
<1> QED BY <1>1, <1>2, PTL DEF GwSpec

\* The gateway's own types, that a busy loop is busy with a call of its own,
\* and that no registry is stamped with a time to come (middleware.py:114-163,
\* 192-411).
THEOREM GwTypeCorrect == GwSpec => []GwTypeOK
<1>1. GwInv(CallsOnly) /\ WrittenByCalls => GwTypeOK
  <2> SUFFICES ASSUME GwInv(CallsOnly), WrittenByCalls PROVE GwTypeOK
    OBVIOUS
  <2>1. ASSUME NEW g \in Gateways
        PROVE  \/ gw[g].mode \in {"down", "loading"}
               \/ /\ gw[g].mode = "up" /\ gw[g].loaded_at \in 0..clock
                  /\ gw[g].busy \in {NoCall} \cup {c \in Calls : Inside(c) /\ call[c].gw = g}
    <3>1. gw[g].mode = "up" => gw[g].busy \in Calls \cup {NoCall} /\ gw[g].loaded_at \in Nat
      BY GwShapes DEF GwInv, Up, CallsOnly
    <3>2. clock \in Nat /\ (gw[g].mode = "up" => gw[g].loaded_at <= clock)
      BY CredentialAssumption DEF GwInv, CredTypeOK, Time, RegistryInv
    <3>3. gw[g].mode = "up" => gw[g].loaded_at \in 0..clock
      BY <3>1, <3>2
    <3> QED BY <3>1, <3>3, GwShapes DEF GwInv, BusyInv
  <2>2. \A c \in Calls : call[c].stage \in Stages
    BY CallShapes DEF GwInv
  <2> QED BY <2>1, <2>2 DEF GwTypeOK, GwInv, Shapes, WrittenByCalls
<1> QED BY <1>1, GwInvariance, CallsWrite, PTL

\* The kill switch works within one refresh interval (and, until the first
\* reload, the time startup took), for any interval, any number of gateways and calls, and any order of revocations, renewals,
\* expiries, re-registrations, restarts and crashes (middleware.py:140-163).
THEOREM KillSwitch == GwSpec => []AuthorityBound
<1>1. GwInv(CallsOnly) => AuthorityBound
  BY DEF GwInv, AdmitInv, AuthorityBound
<1> QED BY <1>1, GwInvariance, PTL

\* An answered call has exactly one event of its own, and so has one whose
\* backend call raised, except a heartbeat, which then has none
\* (middleware.py:261-411, 468-487).
THEOREM AnswersLogged == GwSpec => []AnswersAreLogged
<1>1. GwInv(CallsOnly) => AnswersAreLogged
  <2> SUFFICES ASSUME GwInv(CallsOnly), NEW c \in Calls PROVE AnswersAreLogged!(c)
    BY DEF AnswersAreLogged
  <2>1. \A e : EventsOf(c) = {e} => Cardinality(EventsOf(c)) = 1
    BY FS_Singleton
  <2>2. EventsOf(c) = {} => Cardinality(EventsOf(c)) = 0
    BY FS_EmptySet
  <2>3. CASE call[c].stage = "answered"
    BY <2>1, <2>3 DEF GwInv, LogInv
  <2>4. CASE call[c].stage = "raised"
    BY <2>1, <2>2, <2>4 DEF GwInv, LogInv
  <2>5. CASE call[c].stage \in {"lost", "unannounced", "limited_alert"}
    <3>1. Cardinality(EventsOf(c)) \in {0, 1}
      BY <2>1, <2>2, <2>5 DEF GwInv, LogInv
    <3>2. Cardinality(EventsOf(c)) <= 1
      BY <3>1
    <3> QED BY <2>5, <3>2
  <2>6. CASE call[c].stage \notin {"answered", "raised", "lost", "unannounced", "limited_alert"}
    BY <2>6 DEF GwInv, LogInv
  <2> QED BY <2>3, <2>4, <2>5, <2>6
<1> QED BY <1>1, GwInvariance, PTL

\* No caller is told of a rate limit that was not alerted on
\* (middleware.py:345-355).
THEOREM RejectionsAlerted == GwSpec => []RejectionIsAlerted
<1>1. GwInv(CallsOnly) /\ WrittenByCalls => RejectionIsAlerted
  BY DEF GwInv, LimitInv, WrittenByCalls, RejectionIsAlerted
<1> QED BY <1>1, GwInvariance, CallsWrite, PTL
===============================================================================
