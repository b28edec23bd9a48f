------------------------------- MODULE EventLog -------------------------------
(***************************************************************************)
(* The tamper-evident event table of bf_agent_viewer and everything that   *)
(* writes to it: events/log.py (log_event, last_hash, verify_chain),       *)
(* gateway/resilience.py (the gap marker of a starting gateway) and        *)
(* retention/prune.py, over one SQLite file shared by separate processes.  *)
(*                                                                         *)
(* A row's content hash is abstracted to the number of events inserted     *)
(* when it was computed: SHA-256 over (prev_hash, payload) is taken to be  *)
(* collision free and payloads carry a fresh uuid, so recomputing a hash   *)
(* gives the stored one exactly when it starts from the row's own prev.    *)
(* The hash 0 stands for the string GENESIS.                               *)
(***************************************************************************)
EXTENDS Naturals

CONSTANTS
  Gateways,      \* gateway processes: gap check at startup, then log_event
  Clis,          \* CLI processes that log credential and claim events
  Pruners,       \* `retention prune` processes
  NoProc,        \* nobody holds SQLite's write lock
  Retention,     \* retention window, in clock units
  GapThreshold,  \* gap_threshold_seconds, in clock units
  MaxEvents,     \* bound: events inserted in a behaviour
  MaxClock       \* bound: the wall clock stays in 0..MaxClock

Appenders == Gateways \cup Clis
Time == 0..MaxClock
Genesis == 0

ASSUME ProcAssumption ==
  /\ Gateways \cap Clis = {}
  /\ Appenders \cap Pruners = {}
  /\ NoProc \notin Appenders

ASSUME BoundAssumption ==
  /\ Retention \in Nat /\ GapThreshold \in Nat
  /\ MaxEvents \in Nat /\ MaxClock \in Nat

VARIABLES
  events,         \* the committed rows of the events table
  retention_tip,  \* chain_tip_hash of the newest retention_checkpoints row
  appended,       \* rows ever committed, the source of fresh hashes
  clock,          \* the host's wall clock
  lock,           \* who holds SQLite's write lock between two steps
  pc,             \* where each process is
  local           \* what each process read and has yet to use

vars == <<events, retention_tip, appended, clock, lock, pc, local>>

Row == [rowid : Nat, hash : Nat, prev : Nat, created : Time, occurred : Time]

Procs == Appenders \cup Pruners

\* A call's locals: the hash to chain from (an appender) or to record (a
\* pruner), the occurred_at to store, and the pruner's prefix_end_rowid.
Locals == [tip : Nat, stamp : Time, end : Nat]
Blank == [tip |-> Genesis, stamp |-> 0, end |-> 0]

Stages == {"down", "gap_tip", "gap_write", "idle", "in_tx", "scanned"}

-------------------------------------------------------------------------------
(* Reading the table.                                                       *)

\* ORDER BY rowid DESC LIMIT 1.
Newest == CHOOSE r \in events : \A s \in events : s.rowid <= r.rowid

\* The hash the next event has to chain from.
last_hash == IF events = {} THEN retention_tip ELSE Newest.hash

\* SQLite gives a row without AUTOINCREMENT the largest rowid plus one, so
\* numbering restarts when the table has been emptied.
NextRowid == IF events = {} THEN 1 ELSE Newest.rowid + 1

\* verify_chain reads ORDER BY created_at, rowid.
Precedes(r, s) ==
  \/ r.created < s.created
  \/ r.created = s.created /\ r.rowid < s.rowid

\* Replay from the latest retention checkpoint: the first row chains from it
\* and every other row from the one read just before it.
verify_chain ==
  \A s \in events :
    LET before == {r \in events : Precedes(r, s)}
    IN  IF before = {}
          THEN s.prev = retention_tip
          ELSE \E r \in before :
                 /\ \A q \in before : q = r \/ Precedes(q, r)
                 /\ s.prev = r.hash

-------------------------------------------------------------------------------
Init ==
  /\ events = {}
  /\ retention_tip = Genesis
  /\ appended = 0
  /\ clock = 0
  /\ lock = NoProc
  /\ pc = [p \in Procs |-> IF p \in Gateways THEN "down" ELSE "idle"]
  /\ local = [p \in Procs |-> Blank]

Goto(p, stage) == pc' = [pc EXCEPT ![p] = stage]
Keep(p, values) == local' = [local EXCEPT ![p] = values]

\* The host's clock moves; NTP or an operator may step it back.
ClockStep ==
  \E t \in Time :
    /\ t # clock
    /\ clock' = t
    /\ UNCHANGED <<events, retention_tip, appended, lock, pc, local>>

-------------------------------------------------------------------------------
(* log_event(prev_hash=None): write lock, tip, insert, commit.              *)

\* Mutant: the tip is read in a deferred transaction.
BeginWithoutLock(p) ==
  /\ p \in Appenders /\ pc[p] = "idle"
  /\ lock' = lock
  /\ Keep(p, [tip |-> last_hash, stamp |-> clock, end |-> 0])
  /\ Goto(p, "in_tx")
  /\ UNCHANGED <<events, retention_tip, appended, clock>>

\* BEGIN IMMEDIATE, then the tip and occurred_at are read inside the lock.
BeginImmediate(p) ==
  /\ p \in Appenders /\ pc[p] = "idle"
  /\ lock = NoProc
  /\ lock' = p
  /\ Keep(p, [tip |-> last_hash, stamp |-> clock, end |-> 0])
  /\ Goto(p, "in_tx")
  /\ UNCHANGED <<events, retention_tip, appended, clock>>

\* The row log_event inserts for p; created_at is the database's own default.
NewRow(p) ==
  [rowid |-> NextRowid, hash |-> appended + 1, prev |-> local[p].tip,
   created |-> clock, occurred |-> local[p].stamp]

InsertRow(p) ==
  /\ appended < MaxEvents
  /\ events' = events \cup {NewRow(p)}
  /\ appended' = appended + 1
  /\ Goto(p, "idle")
  /\ Keep(p, Blank)
  /\ UNCHANGED <<retention_tip, clock>>

\* INSERT and the caller's commit, which publishes the row and drops the lock.
LogEvent(p) ==
  /\ p \in Appenders /\ pc[p] = "in_tx"
  /\ InsertRow(p)
  /\ lock' = NoProc

-------------------------------------------------------------------------------
(* check_and_log_gap, once per gateway startup.                             *)

\* The newest row is old enough: a gap has to be written down.  No row at
\* all, or a recent one, sends the gateway straight to serving.
GapCheck(g) ==
  /\ g \in Gateways /\ pc[g] = "down"
  /\ IF events # {} /\ clock >= Newest.occurred + GapThreshold
       THEN Goto(g, "gap_tip")
       ELSE Goto(g, "idle")
  /\ UNCHANGED <<events, retention_tip, appended, clock, lock, local>>

\* prev_hash = last_hash(conn), with no lock held; log_event is then called
\* with that prev_hash and stamps occurred_at before its INSERT.
GapReadTip(g) ==
  /\ g \in Gateways /\ pc[g] = "gap_tip"
  /\ Keep(g, [tip |-> last_hash, stamp |-> clock, end |-> 0])
  /\ Goto(g, "gap_write")
  /\ UNCHANGED <<events, retention_tip, appended, clock, lock>>

\* The INSERT waits for the write lock; commit follows at once.
GapWrite(g) ==
  /\ g \in Gateways /\ pc[g] = "gap_write"
  /\ lock = NoProc
  /\ InsertRow(g)
  /\ UNCHANGED lock

-------------------------------------------------------------------------------
(* prune_events: an unlocked scan, then checkpoint and delete in one        *)
(* transaction.                                                             *)

\* Mutant: the cutoff comparison is off by one.
PrunablePrefixInclusive ==
  {r \in events : \A s \in events :
                    s.rowid <= r.rowid => s.occurred + Retention <= clock}

\* The longest run of rows, in rowid order, that are all past the window.
PrunablePrefix ==
  {r \in events : \A s \in events :
                    s.rowid <= r.rowid => s.occurred + Retention < clock}

\* A run that finds nothing past the window returns without a write.
PruneScan(p) ==
  /\ p \in Pruners /\ pc[p] = "idle"
  /\ \E r \in PrunablePrefix :
       /\ \A s \in PrunablePrefix : s.rowid <= r.rowid
       /\ Keep(p, [tip |-> r.hash, stamp |-> 0, end |-> r.rowid])
  /\ Goto(p, "scanned")
  /\ UNCHANGED <<events, retention_tip, appended, clock, lock>>

\* Mutant: the delete forgets the row the checkpoint was taken from.
PruneApplyExclusive(p) ==
  /\ p \in Pruners /\ pc[p] = "scanned"
  /\ lock = NoProc
  /\ retention_tip' = local[p].tip
  /\ events' = {r \in events : r.rowid >= local[p].end}
  /\ Goto(p, "idle")
  /\ Keep(p, Blank)
  /\ UNCHANGED <<appended, clock, lock>>

\* Mutant: the transaction is left open.
PruneApplyUncommitted(p) ==
  /\ p \in Pruners /\ pc[p] = "scanned"
  /\ lock = NoProc
  /\ retention_tip' = local[p].tip
  /\ events' = {r \in events : r.rowid > local[p].end}
  /\ lock' = p
  /\ Goto(p, "idle")
  /\ Keep(p, Blank)
  /\ UNCHANGED <<appended, clock>>

\* Mutant: rows are deleted and no retention checkpoint is recorded.
PruneApplyNoCheckpoint(p) ==
  /\ p \in Pruners /\ pc[p] = "scanned"
  /\ lock = NoProc
  /\ events' = {r \in events : r.rowid > local[p].end}
  /\ Goto(p, "idle")
  /\ Keep(p, Blank)
  /\ UNCHANGED <<retention_tip, appended, clock, lock>>

PruneApply(p) ==
  /\ p \in Pruners /\ pc[p] = "scanned"
  /\ lock = NoProc
  /\ retention_tip' = local[p].tip
  /\ events' = {r \in events : r.rowid > local[p].end}
  /\ Goto(p, "idle")
  /\ Keep(p, Blank)
  /\ UNCHANGED <<appended, clock, lock>>

-------------------------------------------------------------------------------
\* A process dies at any point: SQLite rolls its transaction back, what was
\* committed stays.  A gateway has to be started again.
Crash(p) ==
  /\ pc[p] # (IF p \in Gateways THEN "down" ELSE "idle")
  /\ Goto(p, IF p \in Gateways THEN "down" ELSE "idle")
  /\ Keep(p, Blank)
  /\ lock' = IF lock = p THEN NoProc ELSE lock
  /\ UNCHANGED <<events, retention_tip, appended, clock>>

Next ==
  \/ ClockStep
  \/ \E p \in Appenders : BeginImmediate(p) \/ LogEvent(p)
  \/ \E g \in Gateways : GapCheck(g) \/ GapReadTip(g) \/ GapWrite(g)
  \/ \E p \in Pruners : PruneScan(p) \/ PruneApply(p)
  \/ \E p \in Procs : Crash(p)

Spec == Init /\ [][Next]_vars

-------------------------------------------------------------------------------
(* What a deployment has to respect for the chain to stay verifiable.       *)

\* The wall clock is never stepped back.
MonotoneClock == clock' >= clock

\* While a starting gateway stands between reading the tip for its gap marker
\* and writing the marker, nothing else appends.
QuietStartup ==
  \A g \in Gateways :
    pc[g] = "gap_write" /\ appended' # appended => pc'[g] # "gap_write"

\* No prune is applied between another prune's scan and its delete.
SerialPrune ==
  \A p \in Pruners :
    pc[p] = "scanned" /\ retention_tip' # retention_tip => pc'[p] # "scanned"

Disciplined == MonotoneClock /\ QuietStartup /\ SerialPrune

DisciplinedSpec == Init /\ [][Next /\ Disciplined]_vars

-------------------------------------------------------------------------------
(* Properties.                                                              *)

\* Types of the table, of the lock and of what each process holds.
TypeOK ==
  /\ events \subseteq Row
  /\ retention_tip \in Nat
  /\ appended \in 0..MaxEvents
  /\ clock \in Time
  /\ lock \in Appenders \cup {NoProc}
  /\ pc \in [Procs -> Stages]
  /\ local \in [Procs -> Locals]

\* verify_chain (events/log.py:172) reports no tampering: whatever order the
\* processes wrote, crashed and pruned in, the rows replay, in the order the
\* verifier reads them, from the latest retention checkpoint.
ChainVerifies == verify_chain

\* No committed event is missing: the stored rows are exactly those inserted
\* after the one the latest retention checkpoint names, so neither a prune
\* (retention/prune.py:121-128) nor a reused rowid can drop one in between.
NothingLost == {r.hash : r \in events} = (retention_tip + 1)..appended

\* prune_events only ever deletes rows that are past the retention window at
\* the moment of the DELETE (retention/prune.py:127), not only when scanned.
PruneKeepsFresh ==
  [][\A r \in events : r \notin events' => r.occurred + Retention < clock]_vars

Chain == INSTANCE AuditChain WITH
  total <- appended,
  base <- retention_tip,
  live <- {r.hash : r \in events}

\* The event store implements the abstract audit history: every step appends
\* one event at the new end, cuts a prefix, or changes nothing of it.
ImplementsAuditChain == Chain!ChainSpec
===============================================================================
