# bf-agent-viewer in TLA+

TLA+ models of the bf-agent-viewer core: the tamper-evident event log and its
retention prune, the gateway that authorises and records agents' tool calls,
the credential life cycle behind its kill switch, who an agent is and who
answers for it, OTel ingestion and the SDK that reports to it, alerts, the rate
limiter, the signed checkpoint file, console sign-in and what the console
shows. TLC checks them on small instances; except for the one liveness
property, what it checks is also proved with TLAPS, for every instance. Paths below are relative to `src/bf_agent_viewer/`.

## 1. The system

Several operating-system processes share one SQLite file: any number of
gateways (an asyncio loop each), a console (a web server), and short-lived CLI
commands, many started by cron. Nothing but SQLite's write lock and a few
`INSERT OR IGNORE` / `O_EXCL` idioms coordinates them.

| Component | State | Operations | What makes it correct |
|---|---|---|---|
| Event log `events/log.py` | `events`, hash chain | `log_event`, `last_hash`, `verify_chain` | the chain always replays; no committed event disappears |
| Retention `retention/prune.py` | `retention_checkpoints` | `prune_events` | only rows past the window go; the chain still replays |
| Gap marker `gateway/resilience.py` | one event, one alert | `check_and_log_gap` at start-up | a gap is recorded without harming the chain |
| Rate limiter `ratelimit/token_bucket.py` | a bucket per agent, a lock | `allow`, `remaining` | no window grants more than burst plus rate; agents do not pay for each other |
| Credentials `identity/registry.py` | `credentials` | `issue_token`, `renew_token`, `revoke_token` | audit events replay to the table; revoked is final |
| Identity `identity/registry.py`, `cli.py` | `organizations`, `humans`, `agents`, `agent_identities` | `org create`, `human create`, `register_identity`, `load_token_registry` | scopes narrow from parent to child; organizations are separate; every active agent can be cut off |
| Discovery `identity/discovery.py` | unclaimed `agents` rows | `discover_agent`, `claim_discovered_agent` | one row and one announcement per client; a claim issues a credential |
| Gateway `gateway/middleware.py` | in-memory `token_registry` with its load time | `on_call_tool`, refresh, start-up | the kill switch acts within one refresh interval; every answer is logged |
| OTel ingestion `gateway/otel_ingest.py` | none of its own | `ingest_otel_events` | batches are logged whole and in order; violations are alerted |
| Checkpoints `integrity/checkpoint.py` | key files, checkpoint file | key creation, `write_checkpoint`, two verifiers | one install key; the file verifies; no false alarm |
| Console sign-in `console/auth.py`, `console/app.py` | credentials with counters, pending logins, sessions | provisioning, login, enrolment, logout | lockout bounds guessing; pending logins are spent once |
| Alerts `alerts/` | `alerts` | `fire_alert`, channels | an alert row survives whatever its channel does; `delivered` is what was confirmed |
| Console views, reports `console/queries.py`, `reports/export.py` | none | lists, delegation chain and tree, an agent's page, search, export | nothing of another organization, nothing of one's own left out |
| SDK `sdk.py` | none beyond a call | `trace_tool_call`, `record_tool_call` | what the caller is told agrees with the log; its own exception survives |
| Sandbox, CLI parsing | none beyond the above | process set-up, printing | |

How they interact: a gateway reads the credential tables into memory at start
and whenever a request finds the copy old, appends to the event log with
`log_event` (write lock, tip, insert, commit), discovers unknown callers and
fires alerts, each with a commit of its own. OTel reports run on the same loop
and share all of it. CLI commands change credentials and scopes under the
gateways' feet, prune the log and sign its tip. The console only reads the
log; its sign-in has tables of its own.

Hard to test here: two processes between each other's commits (tips, first
sightings, keys, checkpoint lines); values read before a lock, an await or a
slow hash and used after it; a process that dies between two commits; a cached
registry; rowids that SQLite reuses after a prune emptied the table; clock
readings taken before a lock. `PROJECT.json` lists each at its line.

## 2. Modules

`X` in a `MCX` module is instantiated for TLC; `XProofs` holds theorems.

```
AuditChain <--implements-- EventLog --- EventLogProofs
     |                        ^ EXTENDS       ^ EXTENDS
     | store of            Alerts   --- AlertsProofs       MCEventLog
     v                     TokenBucket - TokenBucketProofs MCTokenBucket
Checkpoint --- CheckpointProofs                            MCCheckpoint
                           Credentials                     MCCredentials
                              ^ EXTENDS
                           Gateway ---- GatewayProofs      MCGateway
                              ^ EXTENDS       ^
                           OtelIngest         | EXTENDS  MCOtelLoop
                              ^ EXTENDS       |
                           Sdk -------- SdkProofs          MCOtelIngest
                           Identity
                              ^ EXTENDS
                           AgentQueries
                              ^ EXTENDS
                           Console ---- IdentityProofs     MCIdentity
                           ConsoleAuth - ConsoleAuthProofs MCConsoleAuth
```

**AuditChain** is what the event store promises: a history of `total` events,
of which a prefix up to `base` is cut and the rest is `live`; a step appends
one event or cuts a longer prefix.

**EventLog** models `log.py`, `prune.py` and the gap marker over SQLite. Each
process has a `pc` and the values it read. `BeginImmediate`/`LogEvent` are
`log_event(prev_hash=None)` with its caller's commit; `GapCheck`,
`GapReadTip`, `GapWrite` are the marker, whose tip is read without the lock;
`PruneScan`/`PruneApply` are the unlocked scan and the one write transaction;
`Crash` rolls a transaction back. A content hash is a fresh number: SHA-256 is
taken as collision free, and `id` makes each payload unique. `NextRowid`
restarts at 1 in an emptied table, as SQLite does without AUTOINCREMENT.

**Alerts** carries the start of a gateway on past its gap marker, next to all
the processes of EventLog: `GapMarked` is the marker's commit, `AlertPersist`
the alert row's, `SendDelivered`/`SendFailed` one channel's answer (a lost
answer is a failure although the receiver may have the alert), `AlertMark` the
commit of `delivered`. The gateway serves nothing until it is through
(`build_gateway` runs the check first) and may die anywhere in between.
History: which markers were written, and for which the gateway died before
`fire_alert` ended.

**TokenBucket** models `allow()`: `ReadNow` takes the time before the lock, so
threads may apply readings out of order; `Grant`/`Refuse` are the locked part.
`last_refill` may move backwards and tokens with it. Three history variables
record a window's origin and everything granted since it was opened, all grants
ever, and the latest reading applied. A caller already waiting for the lock when
a window opens holds an older reading; its grant counts in the window, and the
window's origin is the oldest such reading. (Counted from the instant it opens
instead, a window may grant more: a late grant moves `last_refill` back, and the
next one refills the same stretch again.)

**Credentials** models the three credential operations of CLI processes.
Issue and revoke are single transactions with their audit event; renewal is a
check (`RenewCheck`) and an update by id (`RenewApply`) with a gap in between.

**Gateway** extends it with gateway processes. `on_call_tool` never yields
before `await call_next`, so `busy` names the call inside such a stretch;
every commit is a step, because the process may die there and other processes
run. The limiter's verdict is left open (`RateLimited` is enabled next to
`Admit`/`Blocked`): every sequence of verdicts is covered, the real ones
included. `ended` is history: when the tables last stopped authorising a token
for a tool; `Arrive` stores how long ago that was, and by how much the registry
copy's stamp is later than the reading it was made from (`slack`, positive only
between a start-up and the first reload: `StartLoad` and `StartStamp` are two
steps and time passes between them). A write may be refused at any point
(`WriteRefused`, `ReturnRefused`: the database stays locked past its busy
timeout and the exception ends the call), also after the tool has run.
`"answered"` and `"raised"` are calls whose backend returned or raised.

**OtelIngest** extends Gateway with reports handled on the same loop. Items
are the tool names they report on, or malformed. A refused write is a 500.

**Sdk** adds the client: `trace_tool_call` with the way the wrapped block
ended and `raise_on_error`; `Unsendable`, `Send`, `Unreachable`, `Answered` and
`Broken` are the ways `_post` goes. A sent request waits with one gateway until it is read,
possibly after the client gave up, or until that gateway dies. `Broken` is a
timeout or a reset while the response is awaited: `urlopen` then raises
`TimeoutError` or `ConnectionError` and not `URLError`, so nothing in `sdk.py`
catches it. `Unsendable` is what `json.dumps` or `Request` raise before `_post`'s
`try`, which is not caught either.

**Identity** models who an agent is, in a database several organizations
share. `register` and `claim` are three steps of a CLI process: the checks
(SELECTs outside any transaction), the agents and identity rows in one commit,
and `issue_token` in another; other processes run in between and the process
may die there. Gateways add unclaimed rows and log events. The CLI names an
identity after its agent, so a parent is named by its agent. History: agents
whose command died before `issue_token`, and whether the identity of somebody's
parent was ever replaced.

**AgentQueries** holds the plain queries of `queries.py` and the export's
filters as operators over Identity's tables: the lists of agents and of an
agent's events, and the export by agent and by owner.

**Console** adds the pages: the upward walk `AncestorChain`, the downward
recursion `DelegationChildren`, the dashboard and an agent's page. `Climb` is
the loop of `_ancestor_chain` as a function of the number of rounds (`OneUp` is
one), `DelegationChildren` the recursion as a function of `_max_depth`, the
agent and `_seen_agent_ids` (`OneLevel` is one call). The walks are compared
with each other and with `Above`, a definition of delegation by closure, within
an agent's own organization, instead of by walking.

**Checkpoint** models writers that find or create the key (`FindKey`,
`CreateKey`, `WriteKey`, `OpenPub`, `WritePub`; both files are created in one
step and filled in another), then read the last line, read the tip,
and append, over AuditChain. History: `overlapped`, whether two writes have
ever run at the same time, and `torn`, whether a writer died between opening
`.pub` and writing it. A checkpoint hash is the tuple it hashes; a
signature is its key.

**ConsoleAuth** models provisioning, the password step with its slow hash
between read and update, pending logins, enrolment, sessions and console
deaths. Time passes inside handlers too: between the expiry check and the
session, and between the reading a lockout counts from (`Judge`) and its UPDATE. TOTP codes and passwords are right or wrong.

Definitions whose comment begins with "Mutant:" are variants of the operation
that follows, each a plausible slip in that code; they are used by no
specification and show that the property named with them in `PROJECT.json`
notices the slip.

## 3. Runs

| Run | Question | Result |
|---|---|---|
| `event_log_disciplined` | Two restarting gateways, a CLI and two pruners, crashes anywhere, under the three assumptions below: `ChainVerifies`, `NothingLost`, `PruneKeepsFresh`, and the store implements AuditChain; `GapsAreAlerted` and `DeliveryIsHonest` for the gap alert over two channels | holds |
| `event_log_loud_startup` | The same chain if another process may append between a gap marker's tip read and its insert | violated: the marker and the other event share a predecessor |
| `token_bucket` | Concurrent `allow()` with stale readings: `WindowBound`, `RefusedOnlyWhenSpent` | holds |
| `credentials` | Two CLIs, two tokens, kills inside a renewal: `AuditReplays`, `RevocationIsFinal` | holds |
| `credentials_resurrect` | A renewal never revives an expired credential | violated: it may expire between check and update |
| `gateway_calls` | Two interleaved calls against changing credentials, scopes and restarts: `AuthorityBound`, `AnswersAreLogged`, `RejectionIsAlerted` | holds |
| `otel_ingest` | A report, through the SDK or not, and a call on two gateways: `BatchInOrder`, `ScopeReportsAlerted`, `DiscoveredOnce`, `SightingsAreAnnounced`, and `ReportsTellTruth` for the SDK's caller | holds |
| `otel_loop` | A call and a report on one loop, under its fairness: `TheLoopIsFreed` | holds |
| `identity` | Two organizations with a shared id, racing and dying register and claim commands: `OneOrganization`, `ClaimedIsRevocable`, `AuthorityNarrows`, and the console's views of the result: `ViewsMatchDelegation`, `DashboardLeadsToEachAgent`, `ConsoleStaysInOrg`, `ExportPartitions` | holds |
| `checkpoint` | Racing and serial writers: `SignedByInstallKey`, `KeyNeverReplaced`, `FileVerifies`, `AnchorsAdvance`, `AcceptsUnpruned` | holds |
| `checkpoint_false_alarm` | `checkpoint verify` accepts any store only appends and prunes have touched | violated: the anchored row may have been pruned |
| `console_auth` | Two accounts, re-provisioning, console deaths, slow handlers: `GuessBound`, `OneShot`, `FreshPassword` | holds |

The three violations quote the line of documentation they contradict in
`PROJECT.json`, under "findings".

**What the event log assumes.** `DisciplinedSpec` is the full next-state
relation restricted by three conditions on a deployment: the wall clock is not
stepped back (`MonotoneClock`; `verify_chain` reads by `created_at` but rows
chain by rowid), nothing appends between a starting gateway's tip read and its
gap marker (`QuietStartup`), and no prune commits between another's scan and
delete (`SerialPrune`). None can be left out: without `QuietStartup` the second
run fails, and deleting either of the other two from `Disciplined` makes
`event_log_disciplined` itself fail on `ChainVerifies`. Likewise
`FileVerifies`, `AnchorsAdvance` and `AcceptsUnpruned` speak of behaviours
without overlapping writes, and fail without that condition, whereas the key
properties hold with every overlap.

**What identity does not guarantee.** Agent ids are global in the database and
nothing keeps two organizations from using one: both may register it, and the id
of a discovered client is made from its name alone (`discovery.py:48`, `63`).
With a shared id a registration moves the row, discovery's `INSERT OR IGNORE`
takes the other organization's client for known, the activity count
(`queries.py:307-309`) mixes both organizations' events, and a page names a
parent that has gone to the other. No assumption rules this out: the constant
`Uses` is any relation, the run's instance has a client `d` that both
organizations have, and every property speaks of every state. They say how far
the damage goes, through `Exclusive(a)` (at most one organization uses `a`): what
is looked up by an exclusive id is its own organization's (owner, tokens, events,
count, and the parent if the parent's id is exclusive), while breadcrumbs, trees
and exports hold nothing foreign whatever ids are shared. Without the
`Exclusive` conditions `OneOrganization` and `ConsoleStaysInOrg` fail.
`AuthorityNarrows` holds until the identity of somebody's parent is replaced, and
`DashboardLeadsToEachAgent` says what such a replacement, or a parent's move to
another organization (`Cuts`), does to the views.

**Known divergences** met while modelling, besides the three runs that are
expected to fail:
- `sdk.py:129-132` promises that a reporting failure never replaces the wrapped
  block's exception. A timeout while the response is awaited does
  (`sdk.py:158`, `180` catch no `TimeoutError`), and so does what `json.dumps`
  raises on arguments it cannot serialize (`sdk.py:164` stands before the
  `try`); both are raised without `raise_on_error` too; under `raise_on_error` a block left by a
  `BaseException` such as `CancelledError` has it replaced by the report error
  and is reported as a success (`sdk.py:146`). `ReportsTellTruth` states what
  does hold.
- `checkpoint.py:118-121`: the public key beside the private one is what
  `checkpoint verify` needs. A writer that dies inside `checkpoint.py:138` leaves
  it empty; `_load_public_key` prefers it to the private key all the same, no
  later write repairs it, and verification raises from then on.
  `SignedByInstallKey` says that this is the only way to an empty `.pub`.
- `middleware.py:397` writes a tool's event after the tool has run: if that write
  is refused, the call leaves no trace and its caller gets the database's error
  (`ReturnRefused`).
- `otel_ingest.py:22-25` says a report over the rate limit is recorded and
  alerted on; `OtelLimited` (`otel_ingest.py:221`) answers 429 and leaves no
  trace.
- `docs/features.md:26` says authority only ever narrows: re-registering a
  parent with a smaller scope leaves its children wider.
- `queries.py:187-190` says delegation never produces a cycle: two
  re-registrations do, and the agents on it are on no dashboard row.
- `discovery.py:116-120` says a claim never re-owns a claimed agent: two claims
  that both passed the check do.

**Bounds.** Every bound is a constant in a guard. The theorems of section 4 hold
for every value of these constants; for `TheLoopIsFreed` the instance below is
all there is.
- Event log: 3 events and clock 0..4 with retention 1 and gap threshold 2 let a
  table be filled, emptied by a prune and refilled with reused rowids, a
  gateway restart after a gap, and a second prune; two channels have every
  mix of answers.
- Token bucket: burst 5, cost 2 and rate 1 make two calls that must succeed, a
  third that depends on the time, and a bucket that is capped or short by one; two threads give readings out of order; two agents
  show independence.
- Credentials: two CLIs and two tokens, TTLs 1 and 2, clock to 3, four changes:
  each pair of operations meets on one token in every order, across an expiry.
- Gateway: refresh interval 2 and clock 0..3 have a registry fresh, at the edge
  and overdue; two changes are enough to issue and revoke, or issue and renew.
  Two calls interleave around one `await`; three add no new pair.
- OTel: batches of one and two items with every mix of tools and malformed
  items; two gateways and one name make the sighting race. One report is posted
  by the SDK after each kind of block, with and without `raise_on_error`, or by
  another client.
- The loop's liveness: one call and one report of up to two items that may find
  the loop held by each other, at every branch, with refused writes and deaths.
- Identity: three commands by two processes over two ids of one organization and
  one that both use build a chain of three, a cycle, a replaced parent, a parent
  moved to the other organization, a client both meet, and a register racing a
  claim; a hop limit of 2 is reached and passed.
- Checkpoint: three lines are the fewest where "the last line" and "the first
  line" and "the line before" are three different things; three events let a
  prune empty the table.
- Console: lockout after 2 failures for 2 units with clock 0..3 has a whole
  lockout pass; two accounts, one re-provisioning each, and one pending login,
  which both its uses, its expiry, a wrong code and a death compete for (logins
  do not touch each other's rows; the theorems are for any number).

Symmetry sets contain processes, calls, tokens or accounts that no constant
tells apart; the liveness run uses none. Deadlock is checked where processes
never stop (event log, token bucket); elsewhere behaviours end when calls,
clock or changes are used up, and `CHECK_DEADLOCK FALSE` says so.

**Fairness** (`otel_loop` only). Weak fairness of `Work(c)` and `OtelWork(r)`:
asyncio keeps running a handler it has entered, and every SQLite wait ends, with
the write or with "database is locked". Nothing is assumed of the backend, which
the middleware waits for without a timeout, so `TheLoopIsFreed` ends a call's
stretch at `await call_next`; nor of callers, CLIs, time, start-up or crashes.

## 4. Proofs

**EventLogProofs**: `TypeCorrect`, `NothingIsLost`, `ChainAlwaysVerifies`,
`PruneOnlyStale`, `EventLogImplementsAuditChain`, all from `DisciplinedSpec`,
for any sets of processes, retention window, threshold and bounds, using
`ProcAssumption` and `BoundAssumption`. `verify_chain` is far from inductive:
it says nothing of the tips processes hold or of the order of rowids. The
inductive invariant is
- `RowsLinear`: rows are the events after `retention_tip`, each hash once, with
  prev = hash - 1; rowids and `created` grow with the hash and no row is from
  the future, so the verifier's order is the order of the hashes;
- `AppendersCurrent`: a process inside the write lock, or between a gap
  marker's tip read and its insert, holds the current tip;
- `PrunersCurrent`: a scanned prefix still ends at the row it was read from,
  and all of it is past the window.

Each action keeps each conjunct; the three assumptions are used exactly where
a clock step, an append during `gap_write`, or a second prune would break one.

**TokenBucketProofs**: `TypeCorrect`, `WindowsAreBounded`,
`RefusalsAreEarned`, for all rates, bursts, costs, agents and threads. The
bound on a window needs an account per agent: what is left in the bucket plus
what the window was granted is at most a burst plus the refill from the
window's origin to `last_refill`, which stays true when a late thread moves
`last_refill` backwards, because the tokens fall with it. Refusals need the
opposite account over everything ever granted.

**CheckpointProofs**: `TypeCorrect`, `InstallKeySigns`, `KeyIsKept`, from
`Spec` with every overlap and death, for any set of writers. The invariant
follows the key from `O_EXCL` to the last line: at most one writer is between
creating and writing the key, while no key has been written nobody signs, and
afterwards every writer's key, every line, and the `.pub` file unless it is empty
agree with it; it is empty only while its writer is between `OpenPub` and `WritePub` or once
`torn`. That the whole file verifies is therefore stated for `~torn`, that its
lines chain without that condition.
`SerialFileVerifies`, `AnchorsNeverRetreat` and `UntouchedStoreAccepted` add
`SerialInv`: no anchor is ahead of the store, and until two writes overlap the
one active writer still holds the last line's hash when it appends, and a tip
no earlier than any anchored. That the tip read is the last event ever logged,
also from a table a prune emptied, is the lemma `TipIsTotal`.

**GatewayProofs**, over Credentials: `CredTypeCorrect`, `RevocationStands`,
`AuditTrail`, from `CredSpec`. `AuditReplays` compares the table with a
recursive function of the whole log. `ReplayInv` says that a replay exists, is
the only one, and ends in the table; each commit extends it by one event, so
the induction runs along the behaviour and not over the log.

Over Gateway: `GwTypeCorrect`, `KillSwitch`, `AnswersLogged`,
`RejectionsAlerted`, from `GwSpec`, for any tokens, agents, tools, gateways,
calls, refresh interval and clock bound. `AuthorityBound` speaks of a call that
was passed on and of when its authority ended; nothing in it mentions the
registry copy that let it through. `GwInv` adds
- `RegistryInv`: whatever a loaded copy grants was granted when it was loaded
  at least, also for a copy that is loaded and not yet stamped, and what the
  tables grant now has not ended;
- `AdmitInv`: a call on its way relies on nothing that ended a refresh interval,
  plus its registry's `slack`, before it arrived;
- `BusyInv`: the loop is held by the one call inside a synchronous stretch;
- `LogInv`, `LimitInv`: the events and alerts of a call at each of its stages.

What holds the loop is a parameter of `GwInv`, so that its lemmas serve
the next module too.

**SdkProofs**, from `SdkSpec`, which contains Credentials, Gateway and
OtelIngest: `BatchesInOrder`, `ScopeReports`, `AnnouncedOnce`,
`SightingsAnnounced`, `TruthfulReports`, and `KillSwitchWithReports`, the bound
of the kill switch for gateways that also take reports. `OtelInv` is `GwInv` for
calls and reports together with how far a report's items are logged at each
stage (`BatchInv`), that an alert precedes its event (`AlertedInv`) and that
whoever made an agent's row announces it, alone and once (`SightInv`);
`ClientInv` relates what a client will be told to the report it sent, also when
its gateway reads it after the client gave up.

**IdentityProofs**, from `Spec`, for any organizations, humans, agents and
number of commands: `TypeCorrect`, `Revocable`, `Narrowing`, `OneOrg`,
`ExportsPartition`, and the console's pages, `ConsoleSeparated`, `ViewsAgree`
and `DashboardComplete`. A command
checks with SELECTs and writes later; `CommandInv` is what a passed check still
guarantees at the write, `RowInv` ties the tables to each other, `TokenInv`
follows an identity to its credential across a death, and `ScopeInv` keeps a
registration within its parent's scope until a parent is replaced. `OneOrg`
adds `OrgInv`, that rows, tokens, events and what a command is about to write
agree on an organization wherever the id is exclusive. None of these theorems
has a hypothesis on the ids in use; where sharing matters the property says so
per id.

The pages are recursive functions of a number of hops or levels. The provers
cannot instantiate the library's induction theorems, which take a predicate, so
`InductionSet` restates induction for a *set* of naturals (from the
well-foundedness of `<`), and `Iterates` shows that a step repeated any number of
times is a function; `ClimbSteps` and `TreeSteps` follow, the two recursions
round by round. Both walks are then described by one notion, `Upward(a, p, o)`:
`p` is a way up from `a`, parent after parent, within `o`, no identity twice; it
ends where a parent is missing or is another organization's.
By induction on hops the breadcrumb is the longest way up within the limit
(`ChainIsPath`, `ChainIsLongest`); by induction on depth the tree of `b` holds
whoever has a way up that ends at `b` (`TreeIsPaths`), whatever
`_seen_agent_ids` has cut off; since there is only one way up (`PathsAgree`), the
two views agree. A chain the limit did not cut is closed under parents, hence
all of `Above` (`StoppedAll`). Counting needs `FiniteInv`, that finitely many
identities have been written, for `Agents` may be infinite; that cycles take a
re-registration is `AcyclicInv`: the agent a write replaces is nobody's parent,
so no way up comes back to it. `RootExists`, `RootEndsLoop` and `RootIsLast` make
the one dashboard row of an agent the end of its way up.

**ConsoleAuthProofs**, from `Spec`, for any humans, lockout limit and
durations: `TypeCorrect`, `LockoutBounds`, `LoginSpentOnce`, `SessionIsFresh`.
The properties are about answers, the invariant about the request in progress:
the failure count read before scrypt covers every wrong password of the window
or the account is locked past its end (`GuessInv`), a presented row is never in
the table again, in nobody else's hands and tokens are not reissued
(`SpentInv`), and it had not expired when its handler checked (`FreshInv`).

**AlertsProofs**: `EveryGapAlerted` and `HonestDelivery`, for any gateways and
channels. `StageInv` says what the table has of an alert at each stage of
`fire_alert`, `OneGateway` that no two gateways work on one row. Neither needs
the three assumptions on a deployment, so the theorems also cover `FreeSpec`,
the next-state relation without them. `AlertsKeepTheLog` shows that `AlertSpec`
implies `DisciplinedSpec`, which carries EventLogProofs' theorems over to the
specification the run checks.

**Assumptions.** The proofs use only the constants' named ASSUMEs: bounds and
durations are numbers, sets of processes are apart, and a sentinel that stands
for an absent value (`None`, `NoCall`, SQL's NULL) is none of the values. TLC
evaluates all of them on every run.

**Left to TLC.** `TheLoopIsFreed`: liveness and ENABLED are out of the
prover's reach. The three properties of the runs that are expected to fail are false.

## 5. Not modelled

- The sandbox (`gateway/sandbox.py`): it computes rlimits, container arguments
  and an environment for a child process and keeps no state; what could go
  wrong is in the operating system and Docker.
- Formatting: payload fields and the two payload versions of a hash, CSV, page
  layout, argument parsing, printing and logging; the console's search and
  single-event page, which apply the event list's organization filter; the export's date bounds,
  row limits, sort orders and online status of the console's lists.
- Schema creation and migrations (`db/`), run before anything else.
- `chattr +a` on the checkpoint file, which is best effort.
- The rate limiter's verdict inside Gateway and OtelIngest is left open, and
  the delivery of the gateway's other alerts is as in Alerts.
- A caller that retries on top of the SDK: `sdk.py` has no retry.

## 6. Plan

1. *Done*: event log and prune with its refinement and proofs; rate limiter
   with proofs; credentials; gateway and kill switch; OTel; checkpoints with
   proofs of the key; console sign-in.
2. *Done*: Identity with claims and organizations, Console over it, the gap
   alert and its delivery, the SDK against the ingesting gateway.
3. *Done*: theorems for every invariant and action property of the passing
   runs over every module; Console's walks as recursive functions, so that they
   can be reasoned about.
4. Left: liveness as a theorem, when the prover has ENABLED.
