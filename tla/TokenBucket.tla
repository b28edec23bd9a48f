------------------------------ MODULE TokenBucket ------------------------------
(***************************************************************************)
(* ratelimit/token_bucket.py: one token bucket per agent, shared by the    *)
(* threads of a gateway.  allow() reads the monotonic clock BEFORE it      *)
(* takes the lock, so a thread that waits for the lock applies an older    *)
(* `now` than the bucket's last_refill: elapsed is then negative.          *)
(*                                                                         *)
(* Tokens are counted in whole sub-units: Rate of them per clock tick, at  *)
(* most Burst in a bucket, Cost for one call (floats in the code).         *)
(***************************************************************************)
EXTENDS Integers

CONSTANTS
  Agents,    \* agent ids calls are charged to
  Threads,   \* threads that may be inside allow() at once
  Rate,      \* steady refill per tick
  Burst,     \* capacity of a bucket
  Cost,      \* price of one call
  MaxClock   \* bound: ticks of the monotonic clock

ASSUME RateAssumption ==
  /\ Rate \in Nat /\ Burst \in Nat /\ Cost \in Nat \ {0} /\ MaxClock \in Nat

VARIABLES
  clock,    \* time.monotonic()
  buckets,  \* the agents that have a _Bucket
  tokens,   \* its tokens
  last,     \* its last_refill
  call,     \* the allow() each thread is in: the agent and its `now`
  window,   \* history: an observation window per agent, its origin and spending
  granted,  \* history: everything an agent was ever granted
  high      \* history: the latest `now` an agent's bucket was refilled at

vars == <<clock, buckets, tokens, last, call, window, granted, high>>

NoCall == [in |-> FALSE]
Calls == {NoCall} \cup [in : {TRUE}, agent : Agents, now : Nat]

Init ==
  /\ clock = 0
  /\ buckets = {}
  /\ tokens = [a \in Agents |-> Burst]
  /\ last = [a \in Agents |-> 0]
  /\ call = [t \in Threads |-> NoCall]
  /\ window = [a \in Agents |-> [since |-> 0, spent |-> 0]]
  /\ granted = [a \in Agents |-> 0]
  /\ high = [a \in Agents |-> 0]

Tick ==
  /\ clock < MaxClock
  /\ clock' = clock + 1
  /\ UNCHANGED <<buckets, tokens, last, call, window, granted, high>>

\* now = time.monotonic(), before the lock.
ReadNow(t, a) ==
  /\ call[t] = NoCall
  /\ call' = [call EXCEPT ![t] = [in |-> TRUE, agent |-> a, now |-> clock]]
  /\ UNCHANGED <<clock, buckets, tokens, last, window, granted, high>>

Smaller(x, y) == IF x <= y THEN x ELSE y

\* Mutant: the cap on a bucket is forgotten.
RefilledUncapped(a, now) ==
  IF a \notin buckets THEN Burst ELSE tokens[a] + Rate * (now - last[a])

\* The bucket's tokens once refilled up to `now`; a new bucket is full.
Refilled(a, now) ==
  IF a \notin buckets
    THEN Burst
    ELSE Smaller(Burst, tokens[a] + Rate * (now - last[a]))

\* Mutant: last_refill is set one tick early.
RefillBackdated(a, now, left) ==
  /\ buckets' = buckets \cup {a}
  /\ last' = [last EXCEPT ![a] = now - 1]
  /\ tokens' = [tokens EXCEPT ![a] = left]
  /\ high' = [high EXCEPT ![a] = IF now > @ THEN now ELSE @]

\* Mutant: one bucket for all agents.
RefillShared(a, now, left) ==
  /\ buckets' = Agents
  /\ last' = [b \in Agents |-> now]
  /\ tokens' = [b \in Agents |-> left]
  /\ high' = [high EXCEPT ![a] = IF now > @ THEN now ELSE @]

\* A new bucket's last_refill is `now` itself.
Refill(a, now, left) ==
  /\ buckets' = buckets \cup {a}
  /\ last' = [last EXCEPT ![a] = now]
  /\ tokens' = [tokens EXCEPT ![a] = left]
  /\ high' = [high EXCEPT ![a] = IF now > @ THEN now ELSE @]

Finish(t) == call' = [call EXCEPT ![t] = NoCall]

\* The locked section when the bucket holds enough: returns True.
Grant(t) ==
  LET a == call[t].agent
      now == call[t].now
  IN  /\ call[t] # NoCall
      /\ Refilled(a, now) >= Cost
      /\ Refill(a, now, Refilled(a, now) - Cost)
      /\ window' = [window EXCEPT ![a].spent = @ + Cost]
      /\ granted' = [granted EXCEPT ![a] = @ + Cost]
      /\ Finish(t)
      /\ UNCHANGED clock

\* The locked section when it does not: returns False, consumes nothing.
Refuse(t) ==
  LET a == call[t].agent
      now == call[t].now
  IN  /\ call[t] # NoCall
      /\ Refilled(a, now) < Cost
      /\ Refill(a, now, Refilled(a, now))
      /\ Finish(t)
      /\ UNCHANGED <<clock, window, granted>>

\* The clock, and the readings that agent a's callers at the lock hold.
Readings(a) ==
  {clock} \cup {call[t].now : t \in {u \in Threads : call[u] # NoCall /\ call[u].agent = a}}

\* History only: an observer starts counting every grant agent a gets from now
\* on.  The window's origin is the oldest reading a grant in it may still use.
OpenWindow(a) ==
  /\ \E s \in Readings(a) :
       /\ \A u \in Readings(a) : s <= u
       /\ window' = [window EXCEPT ![a] = [since |-> s, spent |-> 0]]
  /\ UNCHANGED <<clock, buckets, tokens, last, call, granted, high>>

Next ==
  \/ Tick
  \/ \E t \in Threads, a \in Agents : ReadNow(t, a)
  \/ \E t \in Threads : Grant(t) \/ Refuse(t)
  \/ \E a \in Agents : OpenWindow(a)

Spec == Init /\ [][Next]_vars

-------------------------------------------------------------------------------
\* Types; tokens may be negative, after a refill with an older `now`.
TypeOK ==
  /\ clock \in 0..MaxClock
  /\ buckets \subseteq Agents
  /\ tokens \in [Agents -> Int]
  /\ last \in [Agents -> Nat]
  /\ call \in [Threads -> Calls]
  /\ window \in [Agents -> [since : Nat, spent : Nat]]
  /\ granted \in [Agents -> Nat]
  /\ high \in [Agents -> Nat]

\* In any window an agent is granted at most one burst plus what the steady
\* rate refills from the window's origin on, counting EVERY grant made in it,
\* however the threads interleave between reading the clock and taking the lock
\* (token_bucket.py:43-44).  The origin is the instant the window opened, or the
\* older reading of a caller that was then already waiting for the lock: such a
\* caller may move last_refill back, and the refill it undoes is granted again.
WindowBound ==
  \A a \in Agents :
    window[a].spent <= Burst + Rate * (clock - window[a].since)

\* An agent is refused only when its own grants, plus what it loses by coming
\* to the lock with an older `now` than its bucket has seen, have used up the
\* burst (token_bucket.py:54-57): other agents' calls never cost it anything.
RefusedOnlyWhenSpent ==
  [][\A t \in Threads :
       call[t] # NoCall /\ call'[t] = NoCall /\ granted' = granted =>
         LET a == call[t].agent
         IN  granted[a] + Cost + Rate * (high'[a] - call[t].now) > Burst]_vars
===============================================================================
