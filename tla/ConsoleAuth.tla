------------------------------ MODULE ConsoleAuth ------------------------------
(***************************************************************************)
(* console/auth.py and the login routes of console/app.py: one console     *)
(* process, whose handlers run one at a time to their end, and a CLI that  *)
(* (re)provisions accounts in another process.  A handler is a sequence of *)
(* reads and commits; the CLI's commit may fall between any two of them,   *)
(* in particular while scrypt runs between start_login's SELECT and        *)
(* UPDATE, and time passes between them, since a commit may wait for the   *)
(* database's lock.                                                        *)
(*                                                                         *)
(* Passwords and TOTP secrets are the number of the provisioning that set  *)
(* them; what a visitor types is a guess at that number.                   *)
(***************************************************************************)
EXTENDS Naturals, FiniteSets

CONSTANTS
  Humans,
  MAX_FAILED_ATTEMPTS, LOCKOUT_DURATION, PENDING_LOGIN_TTL, SESSION_TTL,
  MaxClock,      \* bound: wall clock
  MaxProvisions, \* bound: provisionings of one account
  MaxTokens      \* bound: pending-login tokens issued

ASSUME AuthAssumption ==
  /\ MAX_FAILED_ATTEMPTS \in Nat \ {0}
  /\ LOCKOUT_DURATION \in Nat /\ PENDING_LOGIN_TTL \in Nat /\ SESSION_TTL \in Nat
  /\ MaxClock \in Nat /\ MaxProvisions \in Nat /\ MaxTokens \in Nat

VARIABLES
  clock,
  credentials,  \* console_credentials, by human
  pending,      \* console_pending_logins rows
  sessions,     \* console_sessions rows
  issued,       \* how many pending tokens were ever made
  handler,      \* the request the console is in, and what it has read
  guesses,      \* history: wrong passwords of the window an observer opened
  used          \* history: the pending logins ever presented

vars == <<clock, credentials, pending, sessions, issued, handler, guesses, used>>

Idle == [at |-> "idle"]
NoCredentials == [version |-> 0, enabled |-> FALSE, failed |-> 0, locked |-> 0]
Locked(c) == c.locked > clock

Init ==
  /\ clock = 0
  /\ credentials = [h \in Humans |-> NoCredentials]
  /\ pending = {} /\ sessions = {} /\ issued = 0
  /\ handler = Idle
  /\ guesses = [h \in Humans |-> [since |-> 0, wrong |-> 0]]
  /\ used = {}

\* Time passes, between and inside handlers.
Tick ==
  /\ clock < MaxClock
  /\ clock' = clock + 1
  /\ UNCHANGED <<credentials, pending, sessions, issued, handler, guesses, used>>

\* History only: an observer starts counting h's wrong passwords.
Observe(h) ==
  /\ guesses' = [guesses EXCEPT ![h] = [since |-> clock, wrong |-> 0]]
  /\ UNCHANGED <<clock, credentials, pending, sessions, issued, handler, used>>

\* provision_console_user: insert, or replace everything of the row.
Provision(h) ==
  /\ credentials[h].version < MaxProvisions
  /\ credentials' = [credentials EXCEPT ![h] =
       [NoCredentials EXCEPT !.version = credentials[h].version + 1]]
  /\ guesses' = [guesses EXCEPT ![h] = [since |-> clock, wrong |-> 0]]
  /\ UNCHANGED <<clock, pending, sessions, issued, handler, used>>

-------------------------------------------------------------------------------
(* start_login.                                                             *)

\* Mutant: the lockout is not looked at.
LoginReadUnlocked(h, guess) ==
  /\ handler = Idle /\ credentials[h].version > 0
  /\ handler' = [at |-> IF guess = credentials[h].version THEN "right" ELSE "wrong",
                 human |-> h, failed |-> credentials[h].failed]
  /\ UNCHANGED <<clock, credentials, pending, sessions, issued, guesses, used>>

\* SELECT, lockout check and scrypt.  An unknown or locked account is
\* answered without a write.
LoginRead(h, guess) ==
  /\ handler = Idle /\ credentials[h].version > 0
  /\ ~Locked(credentials[h])
  /\ handler' = [at |-> IF guess = credentials[h].version THEN "right" ELSE "wrong",
                 human |-> h, failed |-> credentials[h].failed]
  /\ UNCHANGED <<clock, credentials, pending, sessions, issued, guesses, used>>

\* The password was wrong: the time a lockout would count from is read before
\* the UPDATE, which may have to wait.
Judge ==
  /\ handler.at = "wrong"
  /\ handler' = [at |-> "count", human |-> handler.human, failed |-> handler.failed,
                 judged |-> clock]
  /\ UNCHANGED <<clock, credentials, pending, sessions, issued, guesses, used>>

\* History: the answer counts in the window its password was judged in.
Counted(h) ==
  LET g == guesses[h] IN
    IF handler.judged \in g.since..(g.since + LOCKOUT_DURATION - 1)
      THEN [g EXCEPT !.wrong = @ + 1] ELSE g

\* Mutant: the lockout starts one attempt late.
LoginWrongLate ==
  LET h == handler.human
      lock == handler.failed + 1 > MAX_FAILED_ATTEMPTS
  IN  /\ handler.at = "count"
      /\ credentials' = [credentials EXCEPT
           ![h].failed = IF lock THEN 0 ELSE handler.failed + 1,
           ![h].locked = IF lock THEN handler.judged + LOCKOUT_DURATION ELSE 0]
      /\ guesses' = [guesses EXCEPT ![h] = Counted(h)]
      /\ handler' = Idle
      /\ UNCHANGED <<clock, pending, sessions, issued, used>>

\* The failure is counted from the value read before scrypt; the last one
\* allowed locks the account and restarts the count.
LoginWrong ==
  LET h == handler.human
      lock == handler.failed + 1 >= MAX_FAILED_ATTEMPTS
  IN  /\ handler.at = "count"
      /\ credentials' = [credentials EXCEPT
           ![h].failed = IF lock THEN 0 ELSE handler.failed + 1,
           ![h].locked = IF lock THEN handler.judged + LOCKOUT_DURATION ELSE 0]
      /\ guesses' = [guesses EXCEPT ![h] = Counted(h)]
      /\ handler' = Idle
      /\ UNCHANGED <<clock, pending, sessions, issued, used>>

\* Reset the counter and issue a pending-login token, in one transaction.
LoginRight ==
  LET h == handler.human
  IN  /\ handler.at = "right"
      /\ issued < MaxTokens
      /\ credentials' = [credentials EXCEPT ![h].failed = 0, ![h].locked = 0]
      /\ issued' = issued + 1
      /\ pending' = pending \cup {[token |-> issued + 1, human |-> h,
                                   expires |-> clock + PENDING_LOGIN_TTL]}
      /\ guesses' = [guesses EXCEPT ![h] = [since |-> clock, wrong |-> 0]]
      /\ handler' = Idle
      /\ UNCHANGED <<clock, sessions, used>>

-------------------------------------------------------------------------------
(* /login/verify and /login/enroll.                                         *)

\* Mutant: the row's expiry is not checked.
ConsumeExpired(p, route) ==
  /\ handler = Idle
  /\ pending' = pending \ {p}
  /\ used' = used \cup {p}
  /\ handler' = [at |-> route, row |-> p, checked |-> clock]
  /\ UNCHANGED <<clock, credentials, sessions, issued, guesses>>

\* _consume_pending_login: spent whatever comes next, even when expired.
Consume(p, route) ==
  /\ handler = Idle
  /\ pending' = pending \ {p}
  /\ used' = used \cup {p}
  /\ handler' = IF p.expires <= clock THEN Idle
                ELSE [at |-> route, row |-> p, checked |-> clock]
  /\ UNCHANGED <<clock, credentials, sessions, issued, guesses>>

\* Mutant: the delete is left to create_session's commit, so a wrong code
\* rolls it back and the row is only gone when the login succeeds.
CodeWrongRollback(code) ==
  /\ handler.at \in {"verify", "enroll"}
  /\ code # credentials[handler.row.human].version
  /\ pending' = pending \cup {handler.row}
  /\ handler' = Idle
  /\ UNCHANGED <<clock, credentials, sessions, issued, guesses, used>>

\* A wrong TOTP code: back to the login page, the token is gone.
CodeWrong(code) ==
  /\ handler.at \in {"verify", "enroll"}
  /\ code # credentials[handler.row.human].version
  /\ handler' = Idle
  /\ UNCHANGED <<clock, credentials, pending, sessions, issued, guesses, used>>

\* enroll_totp: totp_enabled = 1 is committed before the session is made.
Enroll(code) ==
  /\ handler.at = "enroll"
  /\ code = credentials[handler.row.human].version
  /\ credentials' = [credentials EXCEPT ![handler.row.human].enabled = TRUE]
  /\ handler' = [handler EXCEPT !.at = "create"]
  /\ UNCHANGED <<clock, pending, sessions, issued, guesses, used>>

\* complete_login: the code alone decides.
Verify(code) ==
  /\ handler.at = "verify"
  /\ code = credentials[handler.row.human].version
  /\ handler' = [handler EXCEPT !.at = "create"]
  /\ UNCHANGED <<clock, credentials, pending, sessions, issued, guesses, used>>

create_session ==
  /\ handler.at = "create"
  /\ sessions' = sessions \cup
       {[human |-> handler.row.human, expires |-> clock + SESSION_TTL, created |-> clock,
         login |-> handler.row, checked |-> handler.checked, n |-> Cardinality({s \in sessions : s.login = handler.row})]}
  /\ handler' = Idle
  /\ UNCHANGED <<clock, credentials, pending, issued, guesses, used>>

-------------------------------------------------------------------------------
\* resolve_session deletes an expired row it is shown; logout deletes any.
EndSession(s) ==
  /\ handler = Idle
  /\ sessions' = sessions \ {s}
  /\ UNCHANGED <<clock, credentials, pending, issued, handler, guesses, used>>

\* The console dies inside a handler; committed rows stay.
Crash ==
  /\ handler # Idle
  /\ handler' = Idle
  /\ UNCHANGED <<clock, credentials, pending, sessions, issued, guesses, used>>

Typed == 0..MaxProvisions

Next ==
  \/ Tick
  \/ \E h \in Humans : Observe(h) \/ Provision(h) \/ \E guess \in Typed : LoginRead(h, guess)
  \/ Judge \/ LoginWrong \/ LoginRight
  \/ \E p \in pending, route \in {"verify", "enroll"} : Consume(p, route)
  \/ \E code \in Typed : CodeWrong(code) \/ Enroll(code) \/ Verify(code)
  \/ create_session
  \/ \E s \in sessions : EndSession(s)
  \/ Crash

Spec == Init /\ [][Next]_vars

-------------------------------------------------------------------------------
\* Types of the tables.
TypeOK ==
  /\ clock \in 0..MaxClock
  /\ credentials \in [Humans -> [version : 0..MaxProvisions, enabled : BOOLEAN,
                                 failed : 0..(MAX_FAILED_ATTEMPTS - 1), locked : Nat]]
  /\ \A p \in pending : p.human \in Humans /\ p.token \in 1..issued
  /\ \A s \in sessions : s.human \in Humans

\* Lockout really bounds guessing: of the wrong passwords judged within any
\* LOCKOUT_DURATION that has no correct password or provisioning in it, no
\* more than MAX_FAILED_ATTEMPTS are answered (auth.py:24-26, 147-165),
\* although the counter knows nothing of time, restarts at each lockout and is
\* written some time after it was read.
GuessBound == \A h \in Humans : guesses[h].wrong <= MAX_FAILED_ATTEMPTS

\* A pending login is spent on first use, right or wrong (auth.py:182-199):
\* once presented it is never in the table again, so it cannot be presented a
\* second time, and at most one session ever came of it, wherever the console
\* died and whatever the code, the expiry or a provisioning made of it.
OneShot ==
  /\ used \cap pending = {}
  /\ \A s \in sessions : s.login \in used
  /\ \A s, t \in sessions : s.login = t.login => s = t

\* A session belongs to the human who entered the password, and its pending
\* login had not expired when it was presented (auth.py:197).  The session
\* itself may be made later than that (auth.py:272): by as long as the handler's
\* own commits take.
FreshPassword ==
  \A s \in sessions : s.checked < s.login.expires /\ s.human = s.login.human
===============================================================================
