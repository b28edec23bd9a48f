--------------------------- MODULE EventLogProofs ---------------------------
(***************************************************************************)
(* Proofs about EventLog, for any number of gateways, CLI processes and    *)
(* pruners, any retention window and gap threshold.                        *)
(*                                                                         *)
(* ChainVerifies is not inductive: it says nothing of what a process has   *)
(* read and not yet used.  IndInv adds that, and describes the stored rows *)
(* by their hashes: they are the consecutive numbers after retention_tip,  *)
(* each chained from the number before it, with rowid and created_at       *)
(* running the same way.                                                   *)
(***************************************************************************)
EXTENDS EventLog, TLAPS

\* The stored rows are consecutive and ordered alike by hash, rowid and time.
RowsLinear ==
  /\ retention_tip <= appended
  /\ \A r \in events :
       /\ retention_tip < r.hash /\ r.hash <= appended
       /\ r.prev + 1 = r.hash
       /\ r.created <= clock
  /\ \A h \in (retention_tip + 1)..appended : \E r \in events : r.hash = h
  /\ \A r, s \in events :
       r.hash < s.hash => r.rowid < s.rowid /\ r.created <= s.created
  /\ \A r, s \in events : r.hash = s.hash => r = s

\* Whoever is about to insert holds the current tip, and a transaction that
\* is open holds the write lock.
AppendersCurrent ==
  \A p \in Appenders :
    /\ pc[p] \in {"in_tx", "gap_write"} => local[p].tip = appended
    /\ pc[p] = "in_tx" => lock = p
    /\ pc[p] = "gap_write" => p \in Gateways

\* What a pruner scanned is still there and still past the window.
PrunersCurrent ==
  \A p \in Pruners :
    pc[p] = "scanned" =>
      \E r \in events :
        /\ r.rowid = local[p].end
        /\ r.hash = local[p].tip
        /\ \A s \in events : s.rowid <= r.rowid => s.occurred + Retention < clock

IndInv == TypeOK /\ RowsLinear /\ AppendersCurrent /\ PrunersCurrent

-----------------------------------------------------------------------------
\* Reading the table: under the invariant the newest row is the last one
\* inserted, so the tip a process reads is `appended`.
LEMMA NewestIsLast ==
  ASSUME TypeOK, RowsLinear, events # {}
  PROVE  /\ Newest \in events
         /\ Newest.hash = appended
         /\ \A s \in events : s.rowid <= Newest.rowid
<1> USE BoundAssumption
<1>1. PICK r \in events : r.hash = appended
  <2>1. retention_tip + 1 \in Nat /\ retention_tip < appended
    BY DEF RowsLinear, TypeOK, Row
  <2>2. appended \in (retention_tip + 1)..appended
    BY <2>1 DEF TypeOK
  <2> QED BY <2>2 DEF RowsLinear
<1>2. \A s \in events : s.rowid <= r.rowid
  <2> TAKE s \in events
  <2>1. s.hash <= r.hash /\ s.hash \in Nat /\ r.hash \in Nat
        /\ s.rowid \in Nat /\ r.rowid \in Nat
    BY <1>1 DEF RowsLinear, TypeOK, Row
  <2>2. CASE s.hash < r.hash
    BY <2>1, <2>2 DEF RowsLinear
  <2>3. CASE s.hash = r.hash
    BY <2>1, <2>3 DEF RowsLinear
  <2> QED BY <2>1, <2>2, <2>3
<1>3. /\ Newest \in events
      /\ \A s \in events : s.rowid <= Newest.rowid
  BY <1>2 DEF Newest
<1>4. Newest.hash = appended
  <2>1. Newest.hash <= appended /\ Newest.hash \in Nat /\ appended \in Nat
        /\ Newest.rowid \in Nat /\ r.rowid \in Nat
    BY <1>3 DEF RowsLinear, TypeOK, Row
  <2>2. ~(Newest.hash < r.hash)
    BY <1>3, <1>1, <2>1 DEF RowsLinear
  <2> QED BY <1>1, <2>1, <2>2
<1> QED BY <1>3, <1>4

LEMMA TipIsAppended ==
  ASSUME TypeOK, RowsLinear
  PROVE  last_hash = appended
<1> USE BoundAssumption
<1>1. CASE events = {}
  <2>1. ~(retention_tip < appended)
    <3> SUFFICES ASSUME retention_tip < appended PROVE FALSE
      OBVIOUS
    <3>1. appended \in (retention_tip + 1)..appended
      BY DEF TypeOK
    <3> QED BY <3>1, <1>1 DEF RowsLinear
  <2> QED BY <1>1, <2>1 DEF RowsLinear, TypeOK, last_hash
<1>2. CASE events # {}
  BY <1>2, NewestIsLast DEF last_hash
<1> QED BY <1>1, <1>2

-----------------------------------------------------------------------------
\* The initial state satisfies the inductive invariant.
LEMMA InitIndInv == Init => IndInv
<1> SUFFICES ASSUME Init PROVE IndInv
  OBVIOUS
<1> USE BoundAssumption, ProcAssumption DEF Init
<1>1. TypeOK
  BY DEF TypeOK, Row, Procs, Stages, Locals, Blank, Genesis, Time
<1>2. RowsLinear
  BY DEF RowsLinear, Genesis
<1>3. AppendersCurrent
  BY DEF AppendersCurrent, Procs
<1>4. PrunersCurrent
  BY DEF PrunersCurrent, Procs, Appenders
<1> QED BY <1>1, <1>2, <1>3, <1>4 DEF IndInv

\* The new row extends the table at its new end.
LEMMA InsertKeepsRows ==
  ASSUME NEW p \in Appenders, TypeOK, RowsLinear,
         local[p].tip = appended, InsertRow(p)
  PROVE  /\ events' \subseteq Row
         /\ RowsLinear'
         /\ NewRow(p).hash = appended + 1
         /\ \A s \in events : s.rowid < NewRow(p).rowid
<1> DEFINE n == NewRow(p)
<1> USE BoundAssumption
<1>0. /\ appended \in Nat /\ retention_tip \in Nat /\ clock \in Nat
      /\ appended' = appended + 1 /\ retention_tip' = retention_tip
      /\ clock' = clock /\ events' = events \cup {n}
      /\ local[p] \in Locals
  BY DEF InsertRow, TypeOK, Procs, Time
<1>1. /\ NextRowid \in Nat
      /\ \A s \in events : s.rowid < NextRowid
  <2>1. CASE events = {}
    BY <2>1 DEF NextRowid
  <2>2. CASE events # {}
    <3>1. /\ Newest \in events
          /\ \A s \in events : s.rowid <= Newest.rowid
      BY <2>2, NewestIsLast
    <3>2. \A s \in events : s.rowid \in Nat
      BY DEF TypeOK, Row
    <3> QED BY <2>2, <3>1, <3>2 DEF NextRowid
  <2> QED BY <2>1, <2>2
<1>2. /\ n.rowid = NextRowid /\ n.hash = appended + 1 /\ n.prev = appended
      /\ n.created = clock
      /\ n \in Row
  BY <1>0, <1>1 DEF NewRow, Row, Locals, TypeOK
<1>3. events' \subseteq Row
  BY <1>0, <1>2 DEF TypeOK
<1> HIDE DEF n
<1>4. \A r \in events : /\ r.hash \in Nat /\ r.rowid \in Nat /\ r.created \in Nat
                        /\ r.prev \in Nat
  BY DEF TypeOK, Row, Time
<1>5. RowsLinear'
  <2>1. (retention_tip <= appended)'
    BY <1>0 DEF RowsLinear
  <2>2. \A r \in events' :
           /\ retention_tip < r.hash /\ r.hash <= appended + 1
           /\ r.prev + 1 = r.hash
           /\ r.created <= clock
    BY <1>0, <1>2, <1>4 DEF RowsLinear
  <2>3. \A h \in (retention_tip + 1)..(appended + 1) : \E r \in events' : r.hash = h
    <3> TAKE h \in (retention_tip + 1)..(appended + 1)
    <3>1. CASE h = appended + 1
      BY <3>1, <1>0, <1>2
    <3>2. CASE h # appended + 1
      <4>1. h \in (retention_tip + 1)..appended
        BY <3>2, <1>0
      <4> QED BY <4>1, <1>0 DEF RowsLinear
    <3> QED BY <3>1, <3>2
  <2>4. ASSUME NEW r \in events', NEW s \in events', r.hash < s.hash
        PROVE  r.rowid < s.rowid /\ r.created <= s.created
    <3>1. r \in events
      BY <2>4, <2>2, <1>0, <1>2, <1>4
    <3>2. CASE s \in events
      BY <2>4, <3>1, <3>2 DEF RowsLinear
    <3>3. CASE s = n
      BY <3>1, <3>3, <1>1, <1>2 DEF RowsLinear
    <3> QED BY <3>2, <3>3, <1>0
  <2>5. ASSUME NEW r \in events', NEW s \in events', r.hash = s.hash
        PROVE  r = s
    <3>1. \A q \in events : q.hash # n.hash
      BY <1>0, <1>2, <1>4 DEF RowsLinear
    <3> QED BY <2>5, <3>1, <1>0 DEF RowsLinear
  <2> QED BY <2>1, <2>2, <2>3, <2>4, <2>5, <1>0 DEF RowsLinear
<1> QED BY <1>1, <1>2, <1>3, <1>5 DEF n

-----------------------------------------------------------------------------
(* One lemma per action: it keeps the invariant.                            *)

LEMMA ClockKeeps ==
  ASSUME IndInv, ClockStep, MonotoneClock
  PROVE  IndInv'
<1> USE BoundAssumption
<1>0. /\ clock \in Nat /\ clock' \in Nat /\ clock <= clock' /\ clock' \in Time
      /\ \A r \in events : r.created \in Nat /\ r.occurred \in Nat
  BY DEF IndInv, TypeOK, Row, Time, ClockStep, MonotoneClock
<1>1. TypeOK'
  BY <1>0 DEF IndInv, TypeOK, ClockStep
<1>2. RowsLinear'
  BY <1>0 DEF IndInv, RowsLinear, ClockStep
<1>3. AppendersCurrent'
  BY DEF IndInv, AppendersCurrent, ClockStep
<1>4. PrunersCurrent'
  <2> SUFFICES ASSUME NEW p \in Pruners, pc[p] = "scanned"
               PROVE  \E r \in events :
                        /\ r.rowid = local[p].end
                        /\ r.hash = local[p].tip
                        /\ \A s \in events : s.rowid <= r.rowid
                                               => s.occurred + Retention < clock'
    BY DEF PrunersCurrent, ClockStep
  <2>1. PICK r \in events :
          /\ r.rowid = local[p].end
          /\ r.hash = local[p].tip
          /\ \A s \in events : s.rowid <= r.rowid => s.occurred + Retention < clock
    BY DEF IndInv, PrunersCurrent
  <2>2. \A s \in events : s.rowid <= r.rowid => s.occurred + Retention < clock'
    BY <2>1, <1>0
  <2> QED BY <2>1, <2>2
<1> QED BY <1>1, <1>2, <1>3, <1>4 DEF IndInv

\* A step that leaves the table and the clock alone keeps the rows' part.
LEMMA RowsUntouched ==
  ASSUME RowsLinear, UNCHANGED <<events, retention_tip, appended, clock>>
  PROVE  RowsLinear'
BY DEF RowsLinear

LEMMA BeginKeeps ==
  ASSUME IndInv, NEW p \in Appenders, BeginImmediate(p)
  PROVE  IndInv'
<1> USE BoundAssumption, ProcAssumption
<1>a. last_hash = appended
  BY TipIsAppended DEF IndInv
<1>0. /\ UNCHANGED <<events, retention_tip, appended, clock>>
      /\ appended \in Nat /\ clock \in Time
      /\ pc' = [pc EXCEPT ![p] = "in_tx"]
      /\ local' = [local EXCEPT ![p] =
                     [tip |-> appended, stamp |-> clock, end |-> 0]]
      /\ lock = NoProc /\ lock' = p
      /\ pc \in [Procs -> Stages] /\ local \in [Procs -> Locals]
      /\ p \in Procs /\ p \notin Pruners
  BY <1>a DEF IndInv, TypeOK, BeginImmediate, Goto, Keep, Procs
<1>1. TypeOK'
  BY <1>0 DEF IndInv, TypeOK, Stages, Locals
<1>2. RowsLinear'
  BY <1>0, RowsUntouched DEF IndInv
<1>3. AppendersCurrent'
  BY <1>0 DEF IndInv, AppendersCurrent, Procs
<1>4. PrunersCurrent'
  BY <1>0 DEF IndInv, PrunersCurrent, Procs
<1> QED BY <1>1, <1>2, <1>3, <1>4 DEF IndInv

\* Both ways of inserting a row (under a lock held since the tip was read,
\* or as a gap marker of a quiet startup) keep the invariant.
LEMMA InsertKeeps ==
  ASSUME IndInv, NEW p \in Appenders, InsertRow(p), QuietStartup,
         pc[p] \in {"in_tx", "gap_write"},
         lock = NoProc \/ lock = p, lock' = NoProc
  PROVE  IndInv'
<1> USE BoundAssumption, ProcAssumption
<1>0. /\ UNCHANGED <<retention_tip, clock>>
      /\ appended \in Nat /\ appended' = appended + 1 /\ appended' \in 0..MaxEvents
      /\ events' = events \cup {NewRow(p)}
      /\ pc' = [pc EXCEPT ![p] = "idle"]
      /\ local' = [local EXCEPT ![p] = Blank]
      /\ pc \in [Procs -> Stages] /\ local \in [Procs -> Locals]
      /\ p \in Procs /\ p \notin Pruners
      /\ local[p].tip = appended
  BY DEF IndInv, TypeOK, InsertRow, Goto, Keep, Procs, AppendersCurrent
<1>1. /\ events' \subseteq Row
      /\ RowsLinear'
      /\ \A s \in events : s.rowid < NewRow(p).rowid
      /\ NewRow(p) \in Row
  BY <1>0, InsertKeepsRows DEF IndInv
<1>2. TypeOK'
  <2>1. Blank \in Locals
    BY DEF Blank, Locals, Time, Genesis
  <2> QED BY <1>0, <1>1, <2>1 DEF IndInv, TypeOK, Stages
<1>3. AppendersCurrent'
  <2> SUFFICES ASSUME NEW q \in Appenders
               PROVE  /\ pc'[q] \notin {"in_tx", "gap_write"}
    BY DEF AppendersCurrent
  <2>1. CASE q = p
    BY <2>1, <1>0
  <2>2. CASE q # p
    <3>1. pc'[q] = pc[q]
      BY <2>2, <1>0 DEF Procs
    <3>2. pc[q] # "in_tx"
      BY <2>2 DEF IndInv, AppendersCurrent
    <3>3. pc[q] # "gap_write"
      <4>1. CASE q \in Gateways
        BY <4>1, <3>1, <1>0 DEF QuietStartup
      <4>2. CASE q \notin Gateways
        BY <4>2 DEF IndInv, AppendersCurrent
      <4> QED BY <4>1, <4>2
    <3> QED BY <3>1, <3>2, <3>3
  <2> QED BY <2>1, <2>2
<1>4. PrunersCurrent'
  <2> SUFFICES ASSUME NEW q \in Pruners, pc[q] = "scanned"
               PROVE  \E r \in events' :
                        /\ r.rowid = local[q].end
                        /\ r.hash = local[q].tip
                        /\ \A s \in events' : s.rowid <= r.rowid
                                                => s.occurred + Retention < clock
    BY <1>0 DEF PrunersCurrent, Procs
  <2>1. PICK r \in events :
          /\ r.rowid = local[q].end
          /\ r.hash = local[q].tip
          /\ \A s \in events : s.rowid <= r.rowid => s.occurred + Retention < clock
    BY DEF IndInv, PrunersCurrent
  <2>2. r.rowid < NewRow(p).rowid /\ r.rowid \in Nat /\ NewRow(p).rowid \in Nat
    BY <1>1 DEF IndInv, TypeOK, Row
  <2>3. \A s \in events' : s.rowid <= r.rowid => s \in events
    BY <2>2, <1>0
  <2> QED BY <1>0, <2>1, <2>3
<1> QED BY <1>1, <1>2, <1>3, <1>4 DEF IndInv

LEMMA GapCheckKeeps ==
  ASSUME IndInv, NEW g \in Gateways, GapCheck(g)
  PROVE  IndInv'
<1> USE ProcAssumption
<1>0. /\ UNCHANGED <<events, retention_tip, appended, clock, lock, local>>
      /\ \E st \in {"gap_tip", "idle"} : pc' = [pc EXCEPT ![g] = st]
      /\ pc \in [Procs -> Stages]
      /\ g \in Procs /\ g \notin Pruners /\ g \in Appenders
  BY DEF IndInv, TypeOK, GapCheck, Goto, Procs, Appenders
<1>1. TypeOK'
  BY <1>0 DEF IndInv, TypeOK, Stages
<1>2. RowsLinear'
  BY <1>0, RowsUntouched DEF IndInv
<1>3. AppendersCurrent'
  BY <1>0 DEF IndInv, AppendersCurrent, Procs
<1>4. PrunersCurrent'
  BY <1>0 DEF IndInv, PrunersCurrent, Procs
<1> QED BY <1>1, <1>2, <1>3, <1>4 DEF IndInv

LEMMA GapReadTipKeeps ==
  ASSUME IndInv, NEW g \in Gateways, GapReadTip(g)
  PROVE  IndInv'
<1> USE BoundAssumption, ProcAssumption
<1>a. last_hash = appended
  BY TipIsAppended DEF IndInv
<1>0. /\ UNCHANGED <<events, retention_tip, appended, clock, lock>>
      /\ appended \in Nat /\ clock \in Time
      /\ pc' = [pc EXCEPT ![g] = "gap_write"]
      /\ local' = [local EXCEPT ![g] =
                     [tip |-> appended, stamp |-> clock, end |-> 0]]
      /\ pc \in [Procs -> Stages] /\ local \in [Procs -> Locals]
      /\ g \in Procs /\ g \notin Pruners /\ g \in Appenders
  BY <1>a DEF IndInv, TypeOK, GapReadTip, Goto, Keep, Procs, Appenders
<1>1. TypeOK'
  BY <1>0 DEF IndInv, TypeOK, Stages, Locals
<1>2. RowsLinear'
  BY <1>0, RowsUntouched DEF IndInv
<1>3. AppendersCurrent'
  BY <1>0 DEF IndInv, AppendersCurrent, Procs
<1>4. PrunersCurrent'
  BY <1>0 DEF IndInv, PrunersCurrent, Procs
<1> QED BY <1>1, <1>2, <1>3, <1>4 DEF IndInv

LEMMA PruneScanKeeps ==
  ASSUME IndInv, NEW p \in Pruners, PruneScan(p)
  PROVE  IndInv'
<1> USE BoundAssumption, ProcAssumption
<1>1. PICK r \in PrunablePrefix :
        local' = [local EXCEPT ![p] = [tip |-> r.hash, stamp |-> 0, end |-> r.rowid]]
  BY DEF PruneScan, Keep
<1>0. /\ UNCHANGED <<events, retention_tip, appended, clock, lock>>
      /\ pc' = [pc EXCEPT ![p] = "scanned"]
      /\ pc \in [Procs -> Stages] /\ local \in [Procs -> Locals]
      /\ p \in Procs /\ p \notin Appenders
      /\ r \in events /\ r.hash \in Nat /\ r.rowid \in Nat
      /\ \A s \in events : s.rowid <= r.rowid => s.occurred + Retention < clock
  BY <1>1 DEF IndInv, TypeOK, PruneScan, Goto, Procs, PrunablePrefix, Row
<1>2. TypeOK'
  <2>1. [tip |-> r.hash, stamp |-> 0, end |-> r.rowid] \in Locals
    BY <1>0 DEF Locals, Time
  <2> QED BY <1>0, <1>1, <2>1 DEF IndInv, TypeOK, Stages
<1>3. RowsLinear'
  BY <1>0, RowsUntouched DEF IndInv
<1>4. AppendersCurrent'
  BY <1>0, <1>1 DEF IndInv, AppendersCurrent, Procs
<1>5. PrunersCurrent'
  <2> SUFFICES ASSUME NEW q \in Pruners, pc'[q] = "scanned"
               PROVE  \E x \in events :
                        /\ x.rowid = local'[q].end
                        /\ x.hash = local'[q].tip
                        /\ \A s \in events : s.rowid <= x.rowid
                                               => s.occurred + Retention < clock
    BY <1>0 DEF PrunersCurrent
  <2>1. CASE q = p
    BY <2>1, <1>0, <1>1
  <2>2. CASE q # p
    BY <2>2, <1>0, <1>1 DEF IndInv, PrunersCurrent, Procs
  <2> QED BY <2>1, <2>2
<1> QED BY <1>2, <1>3, <1>4, <1>5 DEF IndInv

LEMMA PruneApplyKeeps ==
  ASSUME IndInv, NEW p \in Pruners, PruneApply(p), SerialPrune
  PROVE  IndInv'
<1> USE BoundAssumption, ProcAssumption
<1>1. PICK r \in events : r.rowid = local[p].end /\ r.hash = local[p].tip
  BY DEF IndInv, PrunersCurrent, PruneApply
<1>0. /\ UNCHANGED <<appended, clock, lock>>
      /\ retention_tip' = r.hash
      /\ events' = {s \in events : s.rowid > r.rowid}
      /\ pc' = [pc EXCEPT ![p] = "idle"]
      /\ local' = [local EXCEPT ![p] = Blank]
      /\ pc \in [Procs -> Stages] /\ local \in [Procs -> Locals]
      /\ p \in Procs /\ p \notin Appenders
      /\ retention_tip \in Nat /\ appended \in Nat
  BY <1>1 DEF IndInv, TypeOK, PruneApply, Goto, Keep, Procs
<1>2. \A s \in events : s.hash \in Nat /\ s.rowid \in Nat /\ s.prev \in Nat
  BY DEF IndInv, TypeOK, Row
<1>3. \A s \in events : s \in events' <=> s.hash > r.hash
  <2> TAKE s \in events
  <2>1. CASE s.hash > r.hash
    BY <2>1, <1>0, <1>2 DEF IndInv, RowsLinear
  <2>2. CASE s.hash = r.hash
    BY <2>2, <1>0, <1>2 DEF IndInv, RowsLinear
  <2>3. CASE s.hash < r.hash
    BY <2>3, <1>0, <1>2 DEF IndInv, RowsLinear
  <2> QED BY <1>2, <2>1, <2>2, <2>3
<1>4. TypeOK'
  <2>1. Blank \in Locals
    BY DEF Blank, Locals, Time, Genesis
  <2> QED BY <1>0, <1>2, <2>1 DEF IndInv, TypeOK, Stages
<1>5. RowsLinear'
  <2>1. (retention_tip <= appended)'
    BY <1>0 DEF IndInv, RowsLinear
  <2>2. \A s \in events' : /\ s \in events
                           /\ r.hash < s.hash /\ s.hash <= appended
                           /\ s.prev + 1 = s.hash /\ s.created <= clock
    BY <1>0, <1>2, <1>3 DEF IndInv, RowsLinear
  <2>3. \A h \in (r.hash + 1)..appended : \E s \in events' : s.hash = h
    <3> TAKE h \in (r.hash + 1)..appended
    <3>1. h \in (retention_tip + 1)..appended /\ h > r.hash
      BY <1>0, <1>2 DEF IndInv, RowsLinear
    <3>2. PICK s \in events : s.hash = h
      BY <3>1 DEF IndInv, RowsLinear
    <3> QED BY <3>1, <3>2, <1>3
  <2>4. \A s, t \in events' :
          /\ s.hash < t.hash => s.rowid < t.rowid /\ s.created <= t.created
          /\ s.hash = t.hash => s = t
    BY <2>2 DEF IndInv, RowsLinear
  <2> QED BY <2>1, <2>2, <2>3, <2>4, <1>0 DEF RowsLinear
<1>6. AppendersCurrent'
  BY <1>0 DEF IndInv, AppendersCurrent, Procs
<1>7. PrunersCurrent'
  <2> SUFFICES ASSUME NEW q \in Pruners, pc'[q] = "scanned"
               PROVE  FALSE
    BY DEF PrunersCurrent
  <2>1. q # p /\ pc[q] = "scanned"
    BY <1>0 DEF Procs
  <2>2. retention_tip' # retention_tip
    BY <1>0, <1>2 DEF IndInv, RowsLinear
  <2> QED BY <2>1, <2>2 DEF SerialPrune
<1> QED BY <1>4, <1>5, <1>6, <1>7 DEF IndInv

LEMMA CrashKeeps ==
  ASSUME IndInv, NEW p \in Procs, Crash(p)
  PROVE  IndInv'
<1> USE BoundAssumption, ProcAssumption
<1>0. /\ UNCHANGED <<events, retention_tip, appended, clock>>
      /\ \E st \in {"down", "idle"} : pc' = [pc EXCEPT ![p] = st]
      /\ local' = [local EXCEPT ![p] = Blank]
      /\ lock' = IF lock = p THEN NoProc ELSE lock
      /\ pc \in [Procs -> Stages] /\ local \in [Procs -> Locals]
  BY DEF IndInv, TypeOK, Crash, Goto, Keep
<1>1. TypeOK'
  <2>1. Blank \in Locals
    BY DEF Blank, Locals, Time, Genesis
  <2> QED BY <1>0, <2>1 DEF IndInv, TypeOK, Stages
<1>2. RowsLinear'
  BY <1>0, RowsUntouched DEF IndInv
<1>3. AppendersCurrent'
  BY <1>0 DEF IndInv, AppendersCurrent, Procs
<1>4. PrunersCurrent'
  BY <1>0 DEF IndInv, PrunersCurrent, Procs
<1> QED BY <1>1, <1>2, <1>3, <1>4 DEF IndInv

\* Every step of a disciplined deployment keeps the inductive invariant.
LEMMA StepKeeps == IndInv /\ [Next /\ Disciplined]_vars => IndInv'
<1> SUFFICES ASSUME IndInv, [Next /\ Disciplined]_vars PROVE IndInv'
  OBVIOUS
<1>1. CASE UNCHANGED vars
  BY <1>1 DEF IndInv, TypeOK, RowsLinear, AppendersCurrent, PrunersCurrent, vars
<1>2. CASE Next /\ Disciplined
  <2> USE <1>2 DEF Disciplined
  <2>1. CASE ClockStep
    BY <2>1, ClockKeeps
  <2>2. ASSUME NEW p \in Appenders, BeginImmediate(p) PROVE IndInv'
    BY <2>2, BeginKeeps
  <2>3. ASSUME NEW p \in Appenders, LogEvent(p) PROVE IndInv'
    <3>1. lock = p
      BY <2>3 DEF IndInv, AppendersCurrent, LogEvent
    <3> QED BY <2>3, <3>1, InsertKeeps DEF LogEvent
  <2>4. ASSUME NEW g \in Gateways, GapCheck(g) PROVE IndInv'
    BY <2>4, GapCheckKeeps
  <2>5. ASSUME NEW g \in Gateways, GapReadTip(g) PROVE IndInv'
    BY <2>5, GapReadTipKeeps
  <2>6. ASSUME NEW g \in Gateways, GapWrite(g) PROVE IndInv'
    BY <2>6, InsertKeeps DEF GapWrite, Appenders
  <2>7. ASSUME NEW p \in Pruners, PruneScan(p) PROVE IndInv'
    BY <2>7, PruneScanKeeps
  <2>8. ASSUME NEW p \in Pruners, PruneApply(p) PROVE IndInv'
    BY <2>8, PruneApplyKeeps
  <2>9. ASSUME NEW p \in Procs, Crash(p) PROVE IndInv'
    BY <2>9, CrashKeeps
  <2> QED BY <2>1, <2>2, <2>3, <2>4, <2>5, <2>6, <2>7, <2>8, <2>9 DEF Next
<1> QED BY <1>1, <1>2

LEMMA Invariance == DisciplinedSpec => []IndInv
<1>1. Init => IndInv
  BY InitIndInv
<1>2. IndInv /\ [Next /\ Disciplined]_vars => IndInv'
  BY StepKeeps
<1> QED BY <1>1, <1>2, PTL DEF DisciplinedSpec

-----------------------------------------------------------------------------
(* The theorems.                                                            *)

\* TypeOK holds in every state of a disciplined deployment.
THEOREM TypeCorrect == DisciplinedSpec => []TypeOK
<1>1. IndInv => TypeOK
  BY DEF IndInv
<1> QED BY <1>1, Invariance, PTL

\* No committed event is missing between the retention checkpoint and the
\* newest event, whatever the processes do.
LEMMA RowsAreInterval == TypeOK /\ RowsLinear => NothingLost
<1> SUFFICES ASSUME TypeOK, RowsLinear PROVE NothingLost
  OBVIOUS
<1>1. ASSUME NEW r \in events
      PROVE  r.hash \in (retention_tip + 1)..appended
  BY BoundAssumption DEF TypeOK, RowsLinear, Row
<1>2. ASSUME NEW h \in (retention_tip + 1)..appended
      PROVE  h \in {r.hash : r \in events}
  BY DEF RowsLinear
<1> QED BY <1>1, <1>2 DEF NothingLost

THEOREM NothingIsLost == DisciplinedSpec => []NothingLost
<1>1. IndInv => NothingLost
  BY RowsAreInterval DEF IndInv
<1> QED BY <1>1, Invariance, PTL

\* The verifier's reading order is the order of the hashes.
LEMMA PrecedesIsHashOrder ==
  ASSUME TypeOK, RowsLinear, NEW r \in events, NEW s \in events
  PROVE  Precedes(r, s) <=> r.hash < s.hash
<1>0. /\ r.hash \in Nat /\ s.hash \in Nat /\ r.rowid \in Nat /\ s.rowid \in Nat
      /\ r.created \in Nat /\ s.created \in Nat
  BY BoundAssumption DEF TypeOK, Row, Time
<1>1. CASE r.hash < s.hash
  BY <1>0, <1>1 DEF RowsLinear, Precedes
<1>2. CASE r.hash = s.hash
  BY <1>0, <1>2 DEF RowsLinear, Precedes
<1>3. CASE s.hash < r.hash
  BY <1>0, <1>3 DEF RowsLinear, Precedes
<1> QED BY <1>0, <1>1, <1>2, <1>3

LEMMA LinearRowsVerify == TypeOK /\ RowsLinear => ChainVerifies
<1> SUFFICES ASSUME TypeOK, RowsLinear, NEW s \in events
             PROVE  IF {r \in events : Precedes(r, s)} = {}
                      THEN s.prev = retention_tip
                      ELSE \E r \in {q \in events : Precedes(q, s)} :
                             /\ \A q \in {x \in events : Precedes(x, s)} :
                                  q = r \/ Precedes(q, r)
                             /\ s.prev = r.hash
  BY DEF ChainVerifies, verify_chain
<1>0. /\ retention_tip \in Nat /\ appended \in Nat
      /\ \A r \in events : r.hash \in Nat /\ r.prev \in Nat
      /\ retention_tip < s.hash /\ s.hash <= appended /\ s.prev + 1 = s.hash
  BY BoundAssumption DEF TypeOK, RowsLinear, Row
<1>1. CASE s.prev = retention_tip
  <2>1. \A r \in events : ~(r.hash < s.hash)
    BY <1>0, <1>1 DEF RowsLinear
  <2> QED BY <1>1, <2>1, PrecedesIsHashOrder
<1>2. CASE s.prev # retention_tip
  <2>1. s.prev \in (retention_tip + 1)..appended
    BY <1>0, <1>2
  <2>2. PICK r \in events : r.hash = s.prev
    BY <2>1 DEF RowsLinear
  <2>3. Precedes(r, s)
    BY <2>2, <1>0, PrecedesIsHashOrder
  <2>4. ASSUME NEW q \in events, Precedes(q, s)
        PROVE  q = r \/ Precedes(q, r)
    <3>1. q.hash < s.hash
      BY <2>4, PrecedesIsHashOrder
    <3>2. q.hash = r.hash \/ q.hash < r.hash
      BY <3>1, <2>2, <1>0
    <3>3. CASE q.hash = r.hash
      BY <3>3 DEF RowsLinear
    <3>4. CASE q.hash < r.hash
      BY <3>4, PrecedesIsHashOrder
    <3> QED BY <3>2, <3>3, <3>4
  <2> QED BY <2>2, <2>3, <2>4
<1> QED BY <1>1, <1>2

\* verify_chain (events/log.py:172) never reports tampering in a deployment
\* that respects the three disciplines, for any number of processes.
THEOREM ChainAlwaysVerifies == DisciplinedSpec => []ChainVerifies
<1>1. IndInv => ChainVerifies
  BY LinearRowsVerify DEF IndInv
<1> QED BY <1>1, Invariance, PTL

\* A delete only removes rows past the retention window.
LEMMA StepKeepsFresh ==
  IndInv /\ [Next /\ Disciplined]_vars
    => [\A r \in events : r \notin events' => r.occurred + Retention < clock]_vars
<1> SUFFICES ASSUME IndInv, [Next /\ Disciplined]_vars,
                    NEW r \in events, r \notin events'
             PROVE  r.occurred + Retention < clock
  OBVIOUS
<1>1. PICK p \in Pruners : PruneApply(p)
  BY DEF Next, vars, ClockStep, BeginImmediate, LogEvent, InsertRow, GapCheck,
         GapReadTip, GapWrite, PruneScan, Crash
<1>2. PICK e \in events :
        /\ e.rowid = local[p].end
        /\ \A s \in events : s.rowid <= e.rowid => s.occurred + Retention < clock
  BY <1>1 DEF IndInv, PrunersCurrent, PruneApply
<1>3. r.rowid <= e.rowid
  BY <1>1, <1>2 DEF PruneApply, IndInv, TypeOK, Row
<1> QED BY <1>2, <1>3

\* prune_events (retention/prune.py:127) deletes only rows that are past the
\* window when the DELETE runs.
THEOREM PruneOnlyStale == DisciplinedSpec => PruneKeepsFresh
<1>1. IndInv /\ [Next /\ Disciplined]_vars
        => [\A r \in events : r \notin events' => r.occurred + Retention < clock]_vars
  BY StepKeepsFresh
<1> QED BY <1>1, Invariance, PTL DEF DisciplinedSpec, PruneKeepsFresh

-----------------------------------------------------------------------------
(* Refinement of AuditChain.                                                *)

LEMMA InitRefines == Init => Chain!ChainInit
BY DEF Init, Chain!ChainInit, Genesis

LEMMA StepRefines ==
  IndInv /\ [Next /\ Disciplined]_vars => [Chain!ChainNext]_(Chain!chainVars)
<1> SUFFICES ASSUME IndInv, [Next /\ Disciplined]_vars
             PROVE  [Chain!ChainNext]_(Chain!chainVars)
  OBVIOUS
<1>1. CASE UNCHANGED <<events, retention_tip, appended>>
  BY <1>1 DEF Chain!chainVars
<1>2. ASSUME NEW p \in Appenders, InsertRow(p)
      PROVE  Chain!ChainAppend
  <2>1. NewRow(p).hash = appended + 1
    BY DEF NewRow
  <2>2. {r.hash : r \in events'} = {r.hash : r \in events} \cup {appended + 1}
    BY <1>2, <2>1 DEF InsertRow
  <2> QED BY <1>2, <2>2 DEF Chain!ChainAppend, InsertRow
<1>3. ASSUME NEW p \in Pruners, PruneApply(p), SerialPrune
      PROVE  Chain!ChainPrune
  <2>1. PICK e \in events : e.rowid = local[p].end /\ e.hash = local[p].tip
    BY <1>3 DEF IndInv, PrunersCurrent, PruneApply
  <2>2. \A s \in events : s \in events' <=> s.hash > e.hash
    <3> TAKE s \in events
    <3>0. /\ s.hash \in Nat /\ e.hash \in Nat /\ s.rowid \in Nat /\ e.rowid \in Nat
          /\ events' = {x \in events : x.rowid > e.rowid}
      BY <1>3, <2>1 DEF IndInv, TypeOK, Row, PruneApply
    <3>1. CASE s.hash > e.hash
      BY <3>0, <3>1 DEF IndInv, RowsLinear
    <3>2. CASE s.hash = e.hash
      BY <3>0, <3>2 DEF IndInv, RowsLinear
    <3>3. CASE s.hash < e.hash
      BY <3>0, <3>3 DEF IndInv, RowsLinear
    <3> QED BY <3>0, <3>1, <3>2, <3>3
  <2>3. events' \subseteq events
    BY <1>3 DEF PruneApply
  <2>4. {r.hash : r \in events'} = {h \in {r.hash : r \in events} : h > e.hash}
    BY <2>2, <2>3
  <2>5. e.hash \in {r.hash : r \in events}
    BY <2>1
  <2>6. retention_tip' = e.hash /\ appended' = appended
    BY <1>3, <2>1 DEF PruneApply
  <2> QED BY <2>4, <2>5, <2>6 DEF Chain!ChainPrune
<1>4. \/ UNCHANGED <<events, retention_tip, appended>>
      \/ \E p \in Appenders : InsertRow(p)
      \/ \E p \in Pruners : PruneApply(p) /\ SerialPrune
  BY DEF Next, Disciplined, vars, ClockStep, BeginImmediate, LogEvent, GapCheck,
         GapReadTip, GapWrite, PruneScan, Crash, Appenders
<1> QED BY <1>1, <1>2, <1>3, <1>4 DEF Chain!ChainNext

\* The event store of a disciplined deployment implements the abstract audit
\* history: it grows at the new end and is cut at the old end, nothing else.
THEOREM EventLogImplementsAuditChain == DisciplinedSpec => ImplementsAuditChain
<1>1. Init => Chain!ChainInit
  BY InitRefines
<1>2. IndInv /\ [Next /\ Disciplined]_vars => [Chain!ChainNext]_(Chain!chainVars)
  BY StepRefines
<1> QED BY <1>1, <1>2, Invariance, PTL
        DEF DisciplinedSpec, ImplementsAuditChain, Chain!ChainSpec
=============================================================================
