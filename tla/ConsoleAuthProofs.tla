-------------------------- MODULE ConsoleAuthProofs --------------------------
(***************************************************************************)
(* Proofs about ConsoleAuth for any humans, limits and durations: lockout  *)
(* bounds guessing, a pending login is spent on first use, and a session   *)
(* rests on a fresh password, with provisioning and waiting between any    *)
(* two commits of a handler and the console dying anywhere.                *)
(*                                                                         *)
(* Each property has to be followed through the request in progress:       *)
(* GuessInv covers the failure count start_login read before scrypt and    *)
(* the time it took before it could write, SpentInv and FreshInv the       *)
(* pending row a handler has consumed.                                     *)
(***************************************************************************)
EXTENDS ConsoleAuth, TLAPS

Rows == [token : Nat, human : Humans, expires : Nat]
LoginRequests == [at : {"right", "wrong"}, human : Humans, failed : 0..(MAX_FAILED_ATTEMPTS - 1)]
CountRequests == [at : {"count"}, human : Humans, failed : 0..(MAX_FAILED_ATTEMPTS - 1), judged : Nat]
CodeRequests == [at : {"verify", "enroll", "create"}, row : Rows, checked : Nat]
CredentialRows == [version : 0..MaxProvisions, enabled : BOOLEAN,
                   failed : 0..(MAX_FAILED_ATTEMPTS - 1), locked : Nat]

\* The types the run's TypeOK leaves open.
Shapes ==
  /\ clock \in Nat /\ issued \in Nat
  /\ credentials \in [Humans -> CredentialRows]
  /\ handler \in {Idle} \cup LoginRequests \cup CountRequests \cup CodeRequests
  /\ guesses \in [Humans -> [since : Nat, wrong : Nat]]
  /\ pending \subseteq Rows

\* While h's window is open, its wrong passwords are all in the counter, or
\* one of them locked the account for longer than the window.
Covered(h) ==
  LET g == guesses[h] IN
    /\ g.since <= clock
    /\ g.wrong <= MAX_FAILED_ATTEMPTS
    /\ clock < g.since + LOCKOUT_DURATION =>
         \/ g.wrong <= credentials[h].failed
         \/ credentials[h].locked >= g.since + LOCKOUT_DURATION

\* The count a request carries over scrypt covers the window's wrong
\* passwords too, and once the request is judged it keeps covering them
\* however long it waits: a window opened later has none yet.
GuessInv ==
  /\ \A h \in Humans : Covered(h)
  /\ handler.at = "wrong" =>
       LET g == guesses[handler.human] IN
         clock < g.since + LOCKOUT_DURATION => g.wrong <= handler.failed
  /\ handler.at = "count" =>
       LET g == guesses[handler.human] IN
         /\ handler.judged <= clock
         /\ handler.judged \in g.since..(g.since + LOCKOUT_DURATION - 1) => g.wrong <= handler.failed
         /\ handler.judged < g.since => g.wrong = 0

InHand == handler.at \in {"verify", "enroll", "create"}

\* A consumed row is in nobody else's hands, and tokens are never reissued.
SpentInv ==
  /\ OneShot
  /\ \A p \in pending \cup used : p.token \in Nat /\ p.token <= issued
  /\ \A s \in sessions : s.human \in Humans /\ s.login \in Rows /\ s.login.token <= issued
  /\ InHand =>
       /\ handler.row \in used
       /\ \A s \in sessions : s.login # handler.row

\* A consumed row had not expired when its handler took it.
FreshInv == FreshPassword /\ (InHand => handler.checked < handler.row.expires)

IndInv == TypeOK /\ Shapes /\ GuessInv /\ SpentInv /\ FreshInv

-------------------------------------------------------------------------------
\* What the request in progress holds, by where it is.
LEMMA HandlerShapes ==
  ASSUME Shapes
  PROVE  /\ handler = Idle <=> handler.at = "idle"
         /\ handler.at \in {"right", "wrong"} => handler \in LoginRequests
         /\ handler.at = "count" => handler \in CountRequests
         /\ InHand => handler \in CodeRequests
BY DEF Shapes, Idle, LoginRequests, CountRequests, CodeRequests, InHand

LEMMA InitHolds == Init => IndInv
<1> SUFFICES ASSUME Init PROVE IndInv
  OBVIOUS
<1> USE AuthAssumption
<1>1. NoCredentials \in CredentialRows
  BY DEF NoCredentials, CredentialRows
<1>2. TypeOK /\ Shapes
  BY <1>1 DEF Init, TypeOK, Shapes, CredentialRows
<1>3. GuessInv
  BY DEF Init, GuessInv, Covered, Idle, NoCredentials
<1>4. SpentInv /\ FreshInv
  BY DEF Init, SpentInv, OneShot, FreshInv, FreshPassword, InHand, Idle
<1> QED BY <1>2, <1>3, <1>4 DEF IndInv

-------------------------------------------------------------------------------
(* One lemma per action.                                                    *)

LEMMA TickKeeps ==
  ASSUME IndInv, Tick
  PROVE  IndInv'
<1> USE AuthAssumption
<1>1. (TypeOK /\ Shapes)'
  BY DEF IndInv, Tick, TypeOK, Shapes
<1>2. GuessInv'
  <2>1. \A g \in Humans : guesses[g].since \in Nat
    BY DEF IndInv, Shapes
  <2>2. \A g \in Humans : Covered(g)'
    BY <2>1 DEF IndInv, Tick, Shapes, GuessInv, Covered
  <2>3. handler.at = "wrong" => handler.human \in Humans
    BY HandlerShapes DEF IndInv, LoginRequests
  <2>4. handler.at = "count" => handler.human \in Humans /\ handler.judged \in Nat
    BY HandlerShapes DEF IndInv, CountRequests
  <2> QED BY <2>1, <2>2, <2>3, <2>4 DEF IndInv, Tick, Shapes, GuessInv
<1>3. (SpentInv /\ FreshInv)'
  BY DEF IndInv, Tick, SpentInv, OneShot, FreshInv, FreshPassword, InHand, Idle
<1> QED BY <1>1, <1>2, <1>3 DEF IndInv

LEMMA ObserveKeeps ==
  ASSUME IndInv, NEW h \in Humans, Observe(h)
  PROVE  IndInv'
<1> USE AuthAssumption
<1>1. (TypeOK /\ Shapes)'
  BY DEF IndInv, Observe, TypeOK, Shapes
<1>2. GuessInv'
  <2>1. guesses'[h] = [since |-> clock, wrong |-> 0] /\
        \A g \in Humans : g # h => guesses'[g] = guesses[g]
    BY DEF IndInv, Shapes, Observe
  <2>2. \A g \in Humans : credentials[g].failed \in Nat
    BY DEF IndInv, Shapes, CredentialRows
  <2>3. handler.at = "wrong" => handler.human \in Humans /\ handler.failed \in Nat
    BY HandlerShapes DEF IndInv, LoginRequests
  <2>4. handler.at = "count" => /\ handler.human \in Humans /\ handler.failed \in Nat
                                /\ handler.judged \in Nat
    BY HandlerShapes DEF IndInv, CountRequests
  <2>5. \A g \in Humans : Covered(g)'
    BY <2>1, <2>2 DEF IndInv, Observe, Shapes, GuessInv, Covered
  <2> QED BY <2>1, <2>3, <2>4, <2>5 DEF IndInv, Observe, Shapes, GuessInv
<1>3. (SpentInv /\ FreshInv)'
  BY DEF IndInv, Observe, SpentInv, OneShot, FreshInv, FreshPassword, InHand
<1> QED BY <1>1, <1>2, <1>3 DEF IndInv

LEMMA ProvisionKeeps ==
  ASSUME IndInv, NEW h \in Humans, Provision(h)
  PROVE  IndInv'
<1> USE AuthAssumption
<1> DEFINE row == [NoCredentials EXCEPT !.version = credentials[h].version + 1]
<1>1. row \in CredentialRows
  <2>1. credentials[h].version + 1 \in 0..MaxProvisions
    BY DEF IndInv, Shapes, Provision, CredentialRows
  <2>2. NoCredentials \in CredentialRows
    BY DEF NoCredentials, CredentialRows
  <2> QED BY <2>1, <2>2 DEF CredentialRows
<1>2. credentials' \in [Humans -> CredentialRows]
  BY <1>1 DEF IndInv, Shapes, Provision
<1>3. (TypeOK /\ Shapes)'
  BY <1>2 DEF IndInv, Provision, TypeOK, Shapes, CredentialRows
<1>4. GuessInv'
  <2>1. guesses'[h] = [since |-> clock, wrong |-> 0] /\
        \A g \in Humans : g # h => guesses'[g] = guesses[g] /\ credentials'[g] = credentials[g]
    BY DEF IndInv, Shapes, Provision
  <2>2. \A g \in Humans : credentials'[g].failed \in Nat
    BY <1>2 DEF CredentialRows
  <2>3. handler.at = "wrong" => handler.human \in Humans /\ handler.failed \in Nat
    BY HandlerShapes DEF IndInv, LoginRequests
  <2>4. handler.at = "count" => /\ handler.human \in Humans /\ handler.failed \in Nat
                                /\ handler.judged \in Nat
    BY HandlerShapes DEF IndInv, CountRequests
  <2>5. \A g \in Humans : Covered(g)'
    BY <2>1, <2>2 DEF IndInv, Provision, Shapes, GuessInv, Covered
  <2> QED BY <2>1, <2>3, <2>4, <2>5 DEF IndInv, Provision, Shapes, GuessInv
<1>5. (SpentInv /\ FreshInv)'
  BY DEF IndInv, Provision, SpentInv, OneShot, FreshInv, FreshPassword, InHand
<1> QED BY <1>3, <1>4, <1>5 DEF IndInv

LEMMA LoginReadKeeps ==
  ASSUME IndInv, NEW h \in Humans, NEW guess \in Typed, LoginRead(h, guess)
  PROVE  IndInv'
<1> USE AuthAssumption
<1>1. handler' \in LoginRequests /\ handler'.human = h /\ handler'.failed = credentials[h].failed
  BY DEF IndInv, Shapes, LoginRead, LoginRequests, CredentialRows
<1>2. (TypeOK /\ Shapes)'
  BY <1>1 DEF IndInv, LoginRead, TypeOK, Shapes
<1>3. GuessInv'
  <2>1. credentials[h].locked <= clock /\ credentials[h].locked \in Nat
    BY DEF IndInv, Shapes, LoginRead, Locked, CredentialRows
  <2>2. guesses[h].since \in Nat /\ clock \in Nat
    BY DEF IndInv, Shapes
  <2>3. clock < guesses[h].since + LOCKOUT_DURATION => guesses[h].wrong <= credentials[h].failed
    BY <2>1, <2>2 DEF IndInv, GuessInv, Covered
  <2>4. \A g \in Humans : Covered(g)'
    BY DEF IndInv, LoginRead, GuessInv, Covered
  <2>5. handler'.at # "count"
    BY <1>1 DEF LoginRequests
  <2> QED BY <1>1, <2>3, <2>4, <2>5 DEF IndInv, LoginRead, GuessInv
<1>4. (SpentInv /\ FreshInv)'
  BY <1>1 DEF IndInv, LoginRead, LoginRequests, SpentInv, OneShot, FreshInv, FreshPassword, InHand
<1> QED BY <1>2, <1>3, <1>4 DEF IndInv

\* The count a request carries covers the window at the time it is judged.
LEMMA JudgeKeeps ==
  ASSUME IndInv, Judge
  PROVE  IndInv'
<1> USE AuthAssumption
<1>1. handler \in LoginRequests /\ clock \in Nat
  BY HandlerShapes DEF IndInv, Shapes, Judge
<1>2. /\ handler' \in CountRequests /\ handler'.at = "count"
      /\ handler'.human = handler.human /\ handler'.failed = handler.failed
      /\ handler'.judged = clock
  BY <1>1 DEF Judge, LoginRequests, CountRequests
<1>3. (TypeOK /\ Shapes)'
  BY <1>2 DEF IndInv, Judge, TypeOK, Shapes
<1>4. GuessInv'
  <2> DEFINE g == guesses[handler.human]
  <2>1. handler.human \in Humans /\ handler.failed \in Nat /\ g.since \in Nat
    BY <1>1 DEF IndInv, Shapes, LoginRequests
  <2>2. g.since <= clock /\ (clock < g.since + LOCKOUT_DURATION => g.wrong <= handler.failed)
    BY <2>1 DEF IndInv, Judge, GuessInv, Covered
  <2>3. \A k \in Humans : Covered(k)'
    BY DEF IndInv, Judge, GuessInv, Covered
  <2>4. guesses' = guesses /\ clock' = clock
    BY DEF Judge
  <2> QED BY <1>1, <1>2, <2>1, <2>2, <2>3, <2>4 DEF GuessInv
<1>5. (SpentInv /\ FreshInv)'
  BY <1>2 DEF IndInv, Judge, SpentInv, OneShot, FreshInv, FreshPassword, InHand
<1> QED BY <1>3, <1>4, <1>5 DEF IndInv

LEMMA LoginWrongKeeps ==
  ASSUME IndInv, LoginWrong
  PROVE  IndInv'
<1> USE AuthAssumption
<1> DEFINE h == handler.human
           hf == handler.failed
           at == handler.judged
           lock == hf + 1 >= MAX_FAILED_ATTEMPTS
<1>1. h \in Humans /\ hf \in 0..(MAX_FAILED_ATTEMPTS - 1) /\ at \in Nat /\ clock \in Nat
  BY HandlerShapes DEF IndInv, Shapes, LoginWrong, CountRequests
<1>2. /\ credentials' \in [Humans -> CredentialRows]
      /\ credentials'[h].failed = (IF lock THEN 0 ELSE hf + 1)
      /\ credentials'[h].locked = (IF lock THEN at + LOCKOUT_DURATION ELSE 0)
      /\ \A g \in Humans : g # h => credentials'[g] = credentials[g]
  <2> DEFINE nf == IF lock THEN 0 ELSE hf + 1
             nl == IF lock THEN at + LOCKOUT_DURATION ELSE 0
  <2>1. nf \in 0..(MAX_FAILED_ATTEMPTS - 1) /\ nl \in Nat
    BY <1>1
  <2>2. credentials' = [credentials EXCEPT ![h].failed = nf, ![h].locked = nl]
    BY DEF LoginWrong
  <2>3. credentials \in [Humans -> CredentialRows] /\ credentials[h] \in CredentialRows
    BY <1>1 DEF IndInv, Shapes
  <2> HIDE DEF nf, nl
  <2>4. [credentials[h] EXCEPT !.failed = nf, !.locked = nl] \in CredentialRows
    BY <2>1, <2>3 DEF CredentialRows
  <2>5. credentials' = [credentials EXCEPT ![h] = [credentials[h] EXCEPT !.failed = nf, !.locked = nl]]
    BY <1>1, <2>2, <2>3
  <2>6. credentials' \in [Humans -> CredentialRows]
    BY <2>3, <2>4, <2>5
  <2>7. credentials'[h].failed = nf /\ credentials'[h].locked = nl
    BY <1>1, <2>3, <2>5 DEF CredentialRows
  <2>8. \A g \in Humans : g # h => credentials'[g] = credentials[g]
    BY <2>3, <2>5
  <2> QED BY <2>6, <2>7, <2>8 DEF nf, nl
<1>3. /\ guesses' \in [Humans -> [since : Nat, wrong : Nat]]
      /\ guesses'[h].since = guesses[h].since
      /\ guesses'[h].wrong = IF at \in guesses[h].since..(guesses[h].since + LOCKOUT_DURATION - 1)
                             THEN guesses[h].wrong + 1 ELSE guesses[h].wrong
      /\ \A g \in Humans : g # h => guesses'[g] = guesses[g]
  <2>1. guesses[h] \in [since : Nat, wrong : Nat]
    BY <1>1 DEF IndInv, Shapes
  <2>2. Counted(h) \in [since : Nat, wrong : Nat]
    BY <2>1 DEF Counted
  <2> QED BY <1>1, <2>1, <2>2 DEF IndInv, Shapes, LoginWrong, Counted
<1>4. (TypeOK /\ Shapes)'
  BY <1>2, <1>3 DEF IndInv, LoginWrong, TypeOK, Shapes, CredentialRows
<1>5. GuessInv'
  <2> DEFINE since == guesses[h].since
             wrong == guesses[h].wrong
             within == at \in since..(since + LOCKOUT_DURATION - 1)
             nw == guesses'[h].wrong
             nf == credentials'[h].failed
             nl == credentials'[h].locked
  <2>1. since \in Nat /\ wrong \in Nat
    BY <1>1 DEF IndInv, Shapes
  <2>2. /\ since <= clock /\ wrong <= MAX_FAILED_ATTEMPTS
        /\ at <= clock
        /\ within => wrong <= hf
        /\ at < since => wrong = 0
    BY <1>1 DEF IndInv, LoginWrong, GuessInv, Covered
  <2>3. nw = IF within THEN wrong + 1 ELSE wrong
    BY <1>3
  <2>4. nf = (IF lock THEN 0 ELSE hf + 1) /\ nl = (IF lock THEN at + LOCKOUT_DURATION ELSE 0)
    BY <1>2
  <2>5. hf \in 0..(MAX_FAILED_ATTEMPTS - 1) /\ at \in Nat /\ clock \in Nat
    BY <1>1
  <2>6. /\ since <= clock /\ nw <= MAX_FAILED_ATTEMPTS
        /\ clock < since + LOCKOUT_DURATION => nw <= nf \/ nl >= since + LOCKOUT_DURATION
    <3> HIDE DEF since, wrong, nw, nf, nl, hf, at
    <3>1. nw <= MAX_FAILED_ATTEMPTS
      BY <2>1, <2>2, <2>3, <2>5
    <3>2. within => nw <= nf \/ nl >= since + LOCKOUT_DURATION
      BY <2>1, <2>2, <2>3, <2>4, <2>5
    <3>3. ~within /\ clock < since + LOCKOUT_DURATION => nw <= nf
      BY <2>1, <2>2, <2>3, <2>4, <2>5
    <3> QED BY <2>2, <3>1, <3>2, <3>3
  <2>7. PICK k \in Humans : k = h
    BY <1>1
  <2>8. Covered(k)'
    BY <1>3, <2>6, <2>7 DEF Covered, LoginWrong
  <2>9. \A g \in Humans : g # k => Covered(g)'
    BY <1>2, <1>3, <2>7 DEF IndInv, GuessInv, Covered, LoginWrong
  <2>10. handler' = Idle
    BY DEF LoginWrong
  <2> QED BY <2>8, <2>9, <2>10 DEF GuessInv, Idle
<1>6. (SpentInv /\ FreshInv)'
  BY DEF IndInv, LoginWrong, SpentInv, OneShot, FreshInv, FreshPassword, InHand, Idle
<1> QED BY <1>4, <1>5, <1>6 DEF IndInv

LEMMA LoginRightKeeps ==
  ASSUME IndInv, LoginRight
  PROVE  IndInv'
<1> USE AuthAssumption
<1> DEFINE h == handler.human
           row == [token |-> issued + 1, human |-> h, expires |-> clock + PENDING_LOGIN_TTL]
<1>1. h \in Humans /\ clock \in Nat /\ issued \in Nat
  BY HandlerShapes DEF IndInv, Shapes, LoginRight, LoginRequests
<1>2. /\ credentials' \in [Humans -> CredentialRows]
      /\ \A g \in Humans : g # h => credentials'[g] = credentials[g]
  <2>1. credentials[h] \in CredentialRows
    BY <1>1 DEF IndInv, Shapes
  <2>2. [credentials[h] EXCEPT !.failed = 0, !.locked = 0] \in CredentialRows
    <3>1. 0 \in 0..(MAX_FAILED_ATTEMPTS - 1) /\ 0 \in Nat
      OBVIOUS
    <3>2. [credentials[h] EXCEPT !.failed = 0] \in CredentialRows
      BY <2>1, <3>1 DEF CredentialRows
    <3> QED BY <2>1, <3>1, <3>2 DEF CredentialRows
  <2>3. credentials' = [credentials EXCEPT ![h] =
                          [credentials[h] EXCEPT !.failed = 0, !.locked = 0]]
    BY <1>1, <2>1 DEF IndInv, Shapes, LoginRight, CredentialRows
  <2> QED BY <1>1, <2>2, <2>3 DEF IndInv, Shapes
<1>3. /\ guesses' \in [Humans -> [since : Nat, wrong : Nat]]
      /\ guesses'[h] = [since |-> clock, wrong |-> 0]
      /\ \A g \in Humans : g # h => guesses'[g] = guesses[g]
  BY <1>1 DEF IndInv, Shapes, LoginRight
<1>4. row \in Rows /\ pending' = pending \cup {row} /\ issued' = issued + 1
  BY <1>1 DEF LoginRight, Rows
<1>5. (TypeOK /\ Shapes)'
  BY <1>1, <1>2, <1>3, <1>4 DEF IndInv, LoginRight, TypeOK, Shapes, CredentialRows
<1>6. GuessInv'
  <2>1. \A g \in Humans : credentials'[g].failed \in Nat
    BY <1>2 DEF CredentialRows
  <2>2. \A g \in Humans : Covered(g)'
    BY <1>1, <1>2, <1>3, <2>1 DEF IndInv, LoginRight, GuessInv, Covered
  <2> QED BY <2>2 DEF LoginRight, GuessInv, Idle
<1>7. SpentInv'
  <2>1. row.token = issued + 1 /\ issued' = issued + 1
    BY <1>4
  <2>2. row \notin used
    BY <1>1, <2>1 DEF IndInv, SpentInv
  <2>3. \A p \in pending' \cup used' : p.token \in Nat /\ p.token <= issued'
    BY <1>1, <1>4, <2>1 DEF IndInv, SpentInv, LoginRight
  <2>4. sessions' = sessions /\ handler' = Idle /\ used' = used
    BY DEF LoginRight
  <2>5. OneShot'
    BY <1>4, <2>2, <2>4 DEF IndInv, SpentInv, OneShot
  <2>6. \A s \in sessions : s.login.token <= issued'
    BY <1>1, <1>4 DEF IndInv, SpentInv, Rows
  <2> QED BY <2>3, <2>4, <2>5, <2>6 DEF IndInv, SpentInv, InHand, Idle
<1>8. FreshInv'
  BY DEF IndInv, LoginRight, FreshInv, FreshPassword, InHand, Idle
<1> QED BY <1>5, <1>6, <1>7, <1>8 DEF IndInv

LEMMA ConsumeKeeps ==
  ASSUME IndInv, NEW p \in pending, NEW route \in {"verify", "enroll"}, Consume(p, route)
  PROVE  IndInv'
<1> USE AuthAssumption
<1>1. p \in Rows /\ pending' \subseteq pending /\ p \notin pending'
  BY DEF IndInv, Shapes, Consume
<1>2. \/ handler' = Idle
      \/ handler' = [at |-> route, row |-> p, checked |-> clock] /\ p.expires > clock
  BY <1>1 DEF Consume, IndInv, Shapes, Rows
<1>3. (TypeOK /\ Shapes)'
  <2>1. [at |-> route, row |-> p, checked |-> clock] \in CodeRequests
    BY <1>1 DEF CodeRequests, IndInv, Shapes
  <2> QED BY <1>1, <1>2, <2>1 DEF IndInv, Consume, TypeOK, Shapes
<1>4. GuessInv'
  BY <1>2 DEF IndInv, Consume, GuessInv, Covered, Idle
<1>5. SpentInv'
  <2>1. used' = used \cup {p} /\ pending' = pending \ {p} /\ UNCHANGED <<sessions, issued>>
    BY DEF Consume
  <2>2. \A s \in sessions : s.login # p
    BY DEF IndInv, SpentInv, OneShot
  <2>3. OneShot'
    BY <2>1 DEF IndInv, SpentInv, OneShot
  <2>4. InHand' => handler'.row = p
    BY <1>2 DEF InHand, Idle
  <2> QED BY <2>1, <2>2, <2>3, <2>4 DEF IndInv, SpentInv
<1>6. FreshInv'
  BY <1>1, <1>2 DEF IndInv, Consume, FreshInv, FreshPassword, InHand, Idle, Shapes, Rows
<1> QED BY <1>3, <1>4, <1>5, <1>6 DEF IndInv

\* A handler that gives up, or dies, leaves everything as it is.
LEMMA LeaveKeeps ==
  ASSUME IndInv, handler' = Idle,
         UNCHANGED <<clock, credentials, pending, sessions, issued, guesses, used>>
  PROVE  IndInv'
BY DEF IndInv, TypeOK, Shapes, GuessInv, Covered, SpentInv, OneShot, FreshInv, FreshPassword, InHand, Idle

\* The code was right: the handler goes on to create the session.
LEMMA AcceptKeeps ==
  ASSUME IndInv, InHand, handler' = [handler EXCEPT !.at = "create"],
         \/ credentials' = credentials
         \/ credentials' = [credentials EXCEPT ![handler.row.human].enabled = TRUE],
         UNCHANGED <<clock, pending, sessions, issued, guesses, used>>
  PROVE  IndInv'
<1> USE AuthAssumption
<1>1. handler \in CodeRequests /\ handler.row.human \in Humans
  BY HandlerShapes DEF IndInv, CodeRequests, Rows
<1>2. /\ handler' \in CodeRequests /\ handler'.at = "create"
      /\ handler'.row = handler.row /\ handler'.checked = handler.checked
  BY <1>1 DEF CodeRequests
<1>3. /\ credentials' \in [Humans -> CredentialRows]
      /\ \A h \in Humans : /\ credentials'[h].failed = credentials[h].failed
                          /\ credentials'[h].locked = credentials[h].locked
  <2> DEFINE g == handler.row.human
             row == [credentials[g] EXCEPT !.enabled = TRUE]
  <2>1. credentials \in [Humans -> CredentialRows] /\ credentials[g] \in CredentialRows
    BY <1>1 DEF IndInv, Shapes
  <2>2. CASE credentials' = credentials
    BY <2>1, <2>2
  <2>3. CASE credentials' = [credentials EXCEPT ![g].enabled = TRUE]
    <3>1. row \in CredentialRows /\ row.failed = credentials[g].failed
                                /\ row.locked = credentials[g].locked
      BY <2>1 DEF CredentialRows
    <3>2. credentials' = [credentials EXCEPT ![g] = row]
      BY <1>1, <2>1, <2>3 DEF CredentialRows
    <3> QED BY <1>1, <2>1, <3>1, <3>2
  <2> QED BY <2>2, <2>3
<1>4. (TypeOK /\ Shapes)'
  BY <1>2, <1>3 DEF IndInv, TypeOK, Shapes, CredentialRows
<1>5. GuessInv'
  BY <1>2, <1>3 DEF IndInv, GuessInv, Covered
<1>6. (SpentInv /\ FreshInv)'
  BY <1>2 DEF IndInv, SpentInv, OneShot, FreshInv, FreshPassword, InHand
<1> QED BY <1>4, <1>5, <1>6 DEF IndInv

LEMMA CreateSessionKeeps ==
  ASSUME IndInv, create_session
  PROVE  IndInv'
<1> USE AuthAssumption
<1>1. PICK new : /\ new.human = handler.row.human /\ new.checked = handler.checked
                 /\ new.login = handler.row
                 /\ sessions' = sessions \cup {new}
  BY DEF create_session
<1>2. InHand /\ handler \in CodeRequests /\ handler.row \in Rows /\ handler.row.human \in Humans
  BY HandlerShapes DEF IndInv, CodeRequests, Rows, InHand, create_session
<1>3. (TypeOK /\ Shapes)'
  BY <1>1, <1>2 DEF IndInv, TypeOK, Shapes, create_session
<1>4. GuessInv'
  BY DEF IndInv, GuessInv, Covered, create_session, Idle
<1>5. SpentInv'
  <2>1. handler' = Idle /\ pending' = pending /\ issued' = issued /\ used' = used
    BY DEF create_session
  <2>2. OneShot'
    BY <1>1, <1>2, <2>1 DEF IndInv, SpentInv, OneShot
  <2> QED BY <1>1, <1>2, <2>1, <2>2 DEF IndInv, SpentInv, InHand, Idle
<1>6. FreshInv'
  BY <1>1, <1>2 DEF IndInv, FreshInv, FreshPassword, InHand, Idle, create_session
<1> QED BY <1>3, <1>4, <1>5, <1>6 DEF IndInv

LEMMA EndSessionKeeps ==
  ASSUME IndInv, NEW s \in sessions, EndSession(s)
  PROVE  IndInv'
BY DEF IndInv, EndSession, TypeOK, Shapes, GuessInv, Covered, SpentInv, OneShot, FreshInv, FreshPassword, InHand

LEMMA StutterKeeps == IndInv /\ UNCHANGED vars => IndInv'
BY DEF IndInv, vars, TypeOK, Shapes, GuessInv, Covered, SpentInv, OneShot, FreshInv, FreshPassword, InHand

LEMMA NextKeeps == IndInv /\ [Next]_vars => IndInv'
<1> SUFFICES ASSUME IndInv, Next PROVE IndInv'
  BY StutterKeeps
<1>1. ASSUME NEW code \in Typed, CodeWrong(code) PROVE IndInv'
  BY <1>1, LeaveKeeps DEF CodeWrong
<1>2. ASSUME NEW code \in Typed, Enroll(code) PROVE IndInv'
  BY <1>2, AcceptKeeps DEF Enroll, InHand
<1>3. ASSUME NEW code \in Typed, Verify(code) PROVE IndInv'
  BY <1>3, AcceptKeeps DEF Verify, InHand
<1>4. CASE Crash
  BY <1>4, LeaveKeeps DEF Crash
<1> QED BY <1>1, <1>2, <1>3, <1>4, TickKeeps, ObserveKeeps, ProvisionKeeps, LoginReadKeeps,
           JudgeKeeps, LoginWrongKeeps, LoginRightKeeps, ConsumeKeeps, CreateSessionKeeps, EndSessionKeeps
        DEF Next

LEMMA Invariance == Spec => []IndInv
BY InitHolds, NextKeeps, PTL DEF Spec

-------------------------------------------------------------------------------
(* The theorems.                                                            *)

\* The tables keep their types (auth.py's three console tables).
THEOREM TypeCorrect == Spec => []TypeOK
<1>1. IndInv => TypeOK
  BY DEF IndInv
<1> QED BY <1>1, Invariance, PTL

\* Lockout bounds guessing for every limit and every duration, although the
\* failure is counted from a value read before scrypt, is written after a wait,
\* and a provisioning may fall in between (auth.py:24-26, 128-179).
THEOREM LockoutBounds == Spec => []GuessBound
<1>1. IndInv => GuessBound
  BY DEF IndInv, GuessInv, Covered, GuessBound
<1> QED BY <1>1, Invariance, PTL

\* A pending login that was presented, with a right or a wrong code, in time or
\* late, is never in the table again, and at most one session came of it,
\* wherever the console died (auth.py:182-199).
THEOREM LoginSpentOnce == Spec => []OneShot
<1>1. IndInv => OneShot
  BY DEF IndInv, SpentInv
<1> QED BY <1>1, Invariance, PTL

\* A session is for the human who entered the password, and its pending login
\* had not expired when it was presented, however long the handler then took
\* (auth.py:182-199, 235-278).
THEOREM SessionIsFresh == Spec => []FreshPassword
<1>1. IndInv => FreshPassword
  BY DEF IndInv, FreshInv
<1> QED BY <1>1, Invariance, PTL
===============================================================================
