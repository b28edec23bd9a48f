--------------------------- MODULE TokenBucketProofs ---------------------------
(***************************************************************************)
(* Proofs about TokenBucket for any agents, threads, Rate, Burst and Cost. *)
(*                                                                         *)
(* The bound on a window follows from an account that every refill keeps:  *)
(* what is left in the bucket plus what the window was granted is at most  *)
(* the burst plus the refill from the window's origin to last_refill, even *)
(* when last_refill moves backwards, since tokens fall with it.  The bound *)
(* on refusals is the opposite account, over everything ever granted.      *)
(***************************************************************************)
EXTENDS TokenBucket, TLAPS

Sane ==
  /\ \A t \in Threads : call[t] # NoCall =>
       /\ call[t].now <= clock
       /\ window[call[t].agent].since <= call[t].now
  /\ \A a \in Agents :
       /\ window[a].since <= clock
       /\ tokens[a] <= Burst
       /\ last[a] <= high[a]
       /\ a \notin buckets => window[a].spent = 0 /\ granted[a] = 0 /\ high[a] = 0

\* What a window was granted is covered up to last_refill.
WindowAccount ==
  \A a \in Agents :
    window[a].spent > 0 =>
      tokens[a] + window[a].spent <= Burst + Rate * (last[a] - window[a].since)

\* Tokens only disappear by being granted or by a refill in the past.
GrantAccount ==
  \A a \in Agents :
    a \in buckets => tokens[a] + granted[a] + Rate * (high[a] - last[a]) >= Burst

IndInv == TypeOK /\ Sane /\ WindowAccount /\ WindowBound /\ GrantAccount

-------------------------------------------------------------------------------
(* Arithmetic: the products with Rate that the accounts need.               *)

LEMMA RateTypes == \A x, y \in Int : Rate * (x - y) \in Int
BY RateAssumption

LEMMA RateAdds ==
  \A x, y, z \in Int : Rate * (x - y) + Rate * (y - z) = Rate * (x - z)
BY RateAssumption

LEMMA RateSigns ==
  \A x, y \in Int : /\ x <= y => Rate * (x - y) <= 0 /\ 0 <= Rate * (y - x)
                    /\ x = y => Rate * (x - y) = 0
BY RateAssumption

LEMMA RateGrows ==
  \A x, y, z \in Int : x <= y => Rate * (x - z) <= Rate * (y - z)
BY RateAssumption

LEMMA InitIndInv == Init => IndInv
<1> SUFFICES ASSUME Init PROVE IndInv
  OBVIOUS
<1> USE RateAssumption
<1>1. TypeOK
  <2>1. call \in [Threads -> Calls]
    BY DEF Init, Calls
  <2>2. window \in [Agents -> [since : Nat, spent : Nat]]
    BY DEF Init
  <2>3. clock \in 0..MaxClock /\ buckets \subseteq Agents
    BY DEF Init
  <2>4. tokens \in [Agents -> Int] /\ last \in [Agents -> Nat]
    BY DEF Init
  <2>5. granted \in [Agents -> Nat] /\ high \in [Agents -> Nat]
    BY DEF Init
  <2> QED BY <2>1, <2>2, <2>3, <2>4, <2>5 DEF TypeOK
<1>2. Sane /\ WindowAccount /\ GrantAccount
  BY DEF Init, Sane, WindowAccount, GrantAccount
<1>3. WindowBound
  <2> SUFFICES ASSUME NEW a \in Agents
               PROVE  window[a].spent <= Burst + Rate * (clock - window[a].since)
    BY DEF WindowBound
  <2>1. window[a].since = 0 /\ window[a].spent = 0 /\ clock = 0
    BY DEF Init
  <2>2. Rate * (clock - window[a].since) = 0
    BY <2>1, RateSigns
  <2> QED BY <2>1, <2>2
<1> QED BY <1>1, <1>2, <1>3 DEF IndInv

\* What a refill leaves, for the agent and the `now` of a call in progress.
LEMMA RefillFacts ==
  ASSUME IndInv, NEW t \in Threads, call[t] # NoCall
  PROVE  LET a == call[t].agent
             now == call[t].now
         IN  /\ a \in Agents /\ now \in Nat /\ now <= clock
             /\ window[a].since <= now
             /\ Refilled(a, now) \in Int
             /\ Refilled(a, now) <= Burst
             /\ a \in buckets => Refilled(a, now) <= tokens[a] + Rate * (now - last[a])
             /\ a \in buckets => \/ Refilled(a, now) = Burst
                                 \/ Refilled(a, now) = tokens[a] + Rate * (now - last[a])
             /\ a \notin buckets => Refilled(a, now) = Burst
<1> DEFINE a == call[t].agent
           now == call[t].now
<1>1. a \in Agents /\ now \in Nat /\ now <= clock /\ window[a].since <= now
  BY DEF IndInv, TypeOK, Sane, Calls, NoCall
<1>2. tokens[a] \in Int /\ last[a] \in Int /\ Burst \in Int
  BY <1>1, RateAssumption DEF IndInv, TypeOK
<1>3. Rate * (now - last[a]) \in Int
  BY <1>1, <1>2, RateTypes
<1> HIDE DEF a, now
<1> QED BY <1>1, <1>2, <1>3 DEF Refilled, Smaller, a, now

-------------------------------------------------------------------------------
(* One lemma per action.                                                    *)

LEMMA TickKeeps == ASSUME IndInv, Tick PROVE IndInv'
<1> USE RateAssumption
<1>0. /\ clock \in Nat /\ clock' = clock + 1 /\ clock' \in 0..MaxClock
      /\ UNCHANGED <<buckets, tokens, last, call, window, granted, high>>
  BY DEF IndInv, TypeOK, Tick
<1>1. TypeOK'
  BY <1>0 DEF IndInv, TypeOK
<1>2. Sane'
  <2>1. \A t \in Threads : call[t] # NoCall => call[t].now \in Nat
    BY DEF IndInv, TypeOK, Calls, NoCall
  <2>2. \A a \in Agents : window[a].since \in Nat
    BY DEF IndInv, TypeOK
  <2>3. \A t \in Threads : call[t] # NoCall => call[t].now <= clock'
    BY <1>0, <2>1 DEF IndInv, Sane
  <2>4. \A a \in Agents : window[a].since <= clock'
    BY <1>0, <2>2 DEF IndInv, Sane
  <2> QED BY <1>0, <2>3, <2>4 DEF IndInv, Sane
<1>3. WindowAccount' /\ GrantAccount'
  BY <1>0 DEF IndInv, WindowAccount, GrantAccount
<1>4. WindowBound'
  <2> SUFFICES ASSUME NEW a \in Agents
               PROVE  window[a].spent <= Burst + Rate * (clock' - window[a].since)
    BY <1>0 DEF WindowBound
  <2>1. window[a].since \in Int /\ window[a].spent \in Int
    BY DEF IndInv, TypeOK
  <2>0. clock \in Int /\ clock' \in Int /\ clock <= clock'
    BY <1>0
  <2>2. Rate * (clock - window[a].since) <= Rate * (clock' - window[a].since)
    BY <2>0, <2>1, RateGrows
  <2>3. window[a].spent <= Burst + Rate * (clock - window[a].since)
    BY DEF IndInv, WindowBound
  <2>4. /\ Rate * (clock - window[a].since) \in Int
        /\ Rate * (clock' - window[a].since) \in Int
    BY <1>0, <2>1, RateTypes
  <2> QED BY <2>1, <2>2, <2>3, <2>4
<1> QED BY <1>1, <1>2, <1>3, <1>4 DEF IndInv

LEMMA ReadNowKeeps ==
  ASSUME IndInv, NEW t \in Threads, NEW a \in Agents, ReadNow(t, a)
  PROVE  IndInv'
<1> USE RateAssumption
<1>0. /\ UNCHANGED <<clock, buckets, tokens, last, window, granted, high>>
      /\ call' = [call EXCEPT ![t] = [in |-> TRUE, agent |-> a, now |-> clock]]
      /\ call \in [Threads -> Calls] /\ clock \in Nat
  BY DEF IndInv, TypeOK, ReadNow
<1>1. TypeOK'
  <2>1. [in |-> TRUE, agent |-> a, now |-> clock] \in Calls
    BY <1>0 DEF Calls
  <2> QED BY <1>0, <2>1 DEF IndInv, TypeOK
<1>2. Sane'
  <2>1. window[a].since <= clock
    BY DEF IndInv, Sane
  <2> QED BY <1>0, <2>1 DEF IndInv, Sane
<1>3. WindowAccount' /\ GrantAccount' /\ WindowBound'
  BY <1>0 DEF IndInv, WindowAccount, GrantAccount, WindowBound
<1> QED BY <1>1, <1>2, <1>3 DEF IndInv

LEMMA OpenWindowKeeps ==
  ASSUME IndInv, NEW a \in Agents, OpenWindow(a)
  PROVE  IndInv'
<1> USE RateAssumption
<1>1. PICK s \in Readings(a) :
        /\ \A u \in Readings(a) : s <= u
        /\ window' = [window EXCEPT ![a] = [since |-> s, spent |-> 0]]
  BY DEF OpenWindow
<1>0. /\ UNCHANGED <<clock, buckets, tokens, last, call, granted, high>>
      /\ window \in [Agents -> [since : Nat, spent : Nat]] /\ clock \in Nat
  BY DEF IndInv, TypeOK, OpenWindow
<1>2. s \in Nat /\ s <= clock
  <2>1. \A t \in Threads : call[t] # NoCall => call[t].now \in Nat
    BY DEF IndInv, TypeOK, Calls, NoCall
  <2> QED BY <1>0, <1>1, <2>1 DEF Readings
<1>3. \A t \in Threads : call[t] # NoCall /\ call[t].agent = a => s <= call[t].now
  BY <1>1 DEF Readings
<1>4. /\ window'[a].since = s /\ window'[a].spent = 0
      /\ \A b \in Agents : b # a => window'[b] = window[b]
  BY <1>0, <1>1
<1>5. TypeOK'
  <2>1. window' \in [Agents -> [since : Nat, spent : Nat]]
    BY <1>0, <1>1, <1>2
  <2> QED BY <1>0, <2>1 DEF IndInv, TypeOK
<1>6. Sane'
  <2>1. ASSUME NEW t \in Threads, call[t] # NoCall
        PROVE  call[t].now <= clock /\ window'[call[t].agent].since <= call[t].now
    <3>1. call[t].agent \in Agents
      BY <2>1 DEF IndInv, TypeOK, Calls, NoCall
    <3> QED BY <2>1, <3>1, <1>3, <1>4 DEF IndInv, Sane
  <2>2. ASSUME NEW b \in Agents
        PROVE  /\ window'[b].since <= clock
               /\ b \notin buckets => window'[b].spent = 0
    BY <1>2, <1>4 DEF IndInv, Sane
  <2> QED BY <2>1, <2>2, <1>0 DEF IndInv, Sane
<1>7. WindowAccount' /\ GrantAccount'
  BY <1>0, <1>4 DEF IndInv, WindowAccount, GrantAccount
<1>8. WindowBound'
  <2> SUFFICES ASSUME NEW b \in Agents
               PROVE  window'[b].spent <= Burst + Rate * (clock - window'[b].since)
    BY <1>0 DEF WindowBound
  <2>1. CASE b # a
    BY <2>1, <1>4 DEF IndInv, WindowBound
  <2>2. CASE b = a
    <3>1. 0 <= Rate * (clock - s) /\ Rate * (clock - s) \in Int
      BY <1>0, <1>2, RateSigns, RateTypes
    <3> QED BY <2>2, <3>1, <1>4
  <2> QED BY <2>1, <2>2
<1> QED BY <1>5, <1>6, <1>7, <1>8 DEF IndInv

\* The locked section leaves `left` tokens and adds `paid` to what the agent
\* was granted.  Both outcomes of allow() are instances of this step.
Locked(t, left, paid) ==
  LET a == call[t].agent
      now == call[t].now
  IN  /\ call[t] # NoCall
      /\ Refill(a, now, left)
      /\ window' = [window EXCEPT ![a].spent = @ + paid]
      /\ granted' = [granted EXCEPT ![a] = @ + paid]
      /\ Finish(t)
      /\ UNCHANGED clock

\* Either the call pays Cost out of a bucket that holds it, or nothing.
LEMMA LockedKeeps ==
  ASSUME IndInv, NEW t \in Threads, NEW paid \in Nat,
         call[t] # NoCall,
         Locked(t, Refilled(call[t].agent, call[t].now) - paid, paid),
         paid > 0 => Refilled(call[t].agent, call[t].now) - paid >= 0
  PROVE  IndInv'
<1> USE RateAssumption
<1> DEFINE a == call[t].agent
           now == call[t].now
           full == Refilled(a, now)
           left == full - paid
<1>1. /\ a \in Agents /\ now \in Nat /\ now <= clock /\ window[a].since <= now
      /\ full \in Int /\ full <= Burst
      /\ a \in buckets => full <= tokens[a] + Rate * (now - last[a])
      /\ a \in buckets => full = Burst \/ full = tokens[a] + Rate * (now - last[a])
      /\ a \notin buckets => full = Burst
  BY RefillFacts
<1>2. /\ buckets' = buckets \cup {a}
      /\ last' = [last EXCEPT ![a] = now]
      /\ tokens' = [tokens EXCEPT ![a] = left]
      /\ high' = [high EXCEPT ![a] = IF now > @ THEN now ELSE @]
      /\ window' = [window EXCEPT ![a].spent = @ + paid]
      /\ granted' = [granted EXCEPT ![a] = @ + paid]
      /\ call' = [call EXCEPT ![t] = NoCall]
      /\ clock' = clock
  BY DEF Locked, Refill, Finish
<1>3. paid > 0 => left >= 0
  OBVIOUS
<1> HIDE DEF a, now, full
<1>4. /\ clock \in Nat /\ buckets \subseteq Agents
      /\ tokens \in [Agents -> Int] /\ last \in [Agents -> Nat]
      /\ call \in [Threads -> Calls]
      /\ window \in [Agents -> [since : Nat, spent : Nat]]
      /\ granted \in [Agents -> Nat] /\ high \in [Agents -> Nat]
      /\ clock \in 0..MaxClock
  BY DEF IndInv, TypeOK
<1>5. /\ tokens[a] \in Int /\ last[a] \in Nat /\ granted[a] \in Nat /\ high[a] \in Nat
      /\ window[a].since \in Nat /\ window[a].spent \in Nat /\ window[a].since <= clock
      /\ last[a] <= high[a] /\ tokens[a] <= Burst
      /\ a \notin buckets => window[a].spent = 0 /\ granted[a] = 0 /\ high[a] = 0
  BY <1>1, <1>4 DEF IndInv, Sane
<1>6. /\ window'[a].since = window[a].since
      /\ window'[a].spent = window[a].spent + paid
      /\ tokens'[a] = left /\ last'[a] = now /\ granted'[a] = granted[a] + paid
      /\ high'[a] = IF now > high[a] THEN now ELSE high[a]
      /\ a \in buckets'
  BY <1>1, <1>2, <1>4
<1>7. \A b \in Agents : b # a =>
        /\ window'[b] = window[b] /\ tokens'[b] = tokens[b] /\ last'[b] = last[b]
        /\ granted'[b] = granted[b] /\ high'[b] = high[b]
        /\ b \in buckets' <=> b \in buckets
  BY <1>1, <1>2, <1>4
<1>8. TypeOK'
  <2>1. NoCall \in Calls
    BY DEF Calls
  <2>2. call' \in [Threads -> Calls]
    BY <1>2, <1>4, <2>1
  <2>3. window' \in [Agents -> [since : Nat, spent : Nat]]
    BY <1>1, <1>2, <1>4, <1>5
  <2>4. /\ tokens' \in [Agents -> Int] /\ last' \in [Agents -> Nat]
        /\ granted' \in [Agents -> Nat] /\ high' \in [Agents -> Nat]
    BY <1>1, <1>2, <1>4, <1>5
  <2> QED BY <1>1, <1>2, <1>4, <2>2, <2>3, <2>4 DEF TypeOK
<1>9. Sane'
  <2>1. ASSUME NEW u \in Threads, call'[u] # NoCall
        PROVE  call'[u].now <= clock' /\ window'[call'[u].agent].since <= call'[u].now
    <3>1. call'[u] = call[u] /\ call[u] # NoCall
      BY <2>1, <1>2, <1>4
    <3>2. call[u].agent \in Agents
      BY <3>1, <1>4 DEF Calls, NoCall
    <3>3. window'[call[u].agent].since = window[call[u].agent].since
      BY <3>2, <1>6, <1>7
    <3> QED BY <3>1, <3>3, <1>2 DEF IndInv, Sane
  <2>2. ASSUME NEW b \in Agents
        PROVE  /\ window'[b].since <= clock'
               /\ tokens'[b] <= Burst
               /\ last'[b] <= high'[b]
               /\ b \notin buckets' =>
                    window'[b].spent = 0 /\ granted'[b] = 0 /\ high'[b] = 0
    <3>1. CASE b = a
      BY <3>1, <1>1, <1>2, <1>5, <1>6
    <3>2. CASE b # a
      BY <3>2, <1>2, <1>7 DEF IndInv, Sane
    <3> QED BY <3>1, <3>2
  <2> QED BY <2>1, <2>2 DEF Sane
<1> DEFINE start == window[a].since
           gain == Rate * (now - last[a])
           span == Rate * (last[a] - start)
           ahead == Rate * (now - start)
<1>10. /\ gain \in Int /\ span \in Int /\ ahead \in Int
       /\ gain + span = ahead
       /\ ahead >= 0
  BY <1>1, <1>5, RateTypes, RateAdds, RateSigns
<1>11. window'[a].spent > 0 => left + window'[a].spent <= Burst + ahead
  <2> HIDE DEF gain, span, ahead, start
  <2>1. /\ window[a].spent > 0 => tokens[a] + window[a].spent <= Burst + span
        /\ window[a].spent > 0 => a \in buckets
    BY <1>1, <1>5 DEF IndInv, WindowAccount, span, start
  <2>2. a \in buckets => full <= tokens[a] + gain
    BY <1>1 DEF gain
  <2>3. window'[a].spent = window[a].spent + paid
    BY <1>6
  <2>4. CASE window[a].spent > 0
    BY <2>1, <2>2, <2>3, <2>4, <1>1, <1>5, <1>10
  <2>5. CASE window[a].spent = 0
    BY <2>3, <2>5, <1>1, <1>5, <1>10
  <2> QED BY <2>4, <2>5, <1>5
<1>12. WindowAccount'
  <2> SUFFICES ASSUME NEW b \in Agents, window'[b].spent > 0
               PROVE  tokens'[b] + window'[b].spent
                        <= Burst + Rate * (last'[b] - window'[b].since)
    BY DEF WindowAccount
  <2>1. CASE b = a
    BY <2>1, <1>6, <1>11
  <2>2. CASE b # a
    BY <2>2, <1>7 DEF IndInv, WindowAccount
  <2> QED BY <2>1, <2>2
<1>13. WindowBound'
  <2> SUFFICES ASSUME NEW b \in Agents
               PROVE  window'[b].spent <= Burst + Rate * (clock - window'[b].since)
    BY <1>2 DEF WindowBound
  <2>1. CASE b # a
    BY <2>1, <1>7 DEF IndInv, WindowBound
  <2>2. CASE b = a
    <3>1. window[a].spent <= Burst + Rate * (clock - start)
      BY <1>1 DEF IndInv, WindowBound
    <3>2. CASE window'[a].spent = window[a].spent
      BY <2>2, <3>1, <3>2, <1>6
    <3>3. CASE window'[a].spent # window[a].spent
      <4>1. paid > 0 /\ window'[a].spent > 0
        BY <3>3, <1>5, <1>6
      <4>0. now \in Int /\ clock \in Int /\ start \in Int /\ now <= clock
        BY <1>1, <1>4, <1>5
      <4>2. ahead <= Rate * (clock - start) /\ Rate * (clock - start) \in Int
        BY <4>0, RateGrows, RateTypes
      <4>3. window'[a].spent \in Nat
        BY <1>5, <1>6, <4>1
      <4> HIDE DEF ahead, gain, span
      <4>4. window'[a].spent <= Burst + ahead
        BY <4>1, <4>3, <1>1, <1>3, <1>10, <1>11
      <4>5. window'[a].spent <= Burst + Rate * (clock - start)
        BY <4>2, <4>3, <4>4, <1>10
      <4> QED BY <2>2, <4>5, <1>6
    <3> QED BY <3>2, <3>3
  <2> QED BY <2>1, <2>2
<1>14. left + granted'[a] + Rate * (high'[a] - now) >= Burst
  <2> DEFINE top == high'[a]
             drop == Rate * (top - now)
             was == Rate * (high[a] - last[a])
             rise == Rate * (top - last[a])
  <2>1. /\ top \in Nat /\ now <= top /\ high[a] <= top
    BY <1>1, <1>5, <1>6
  <2>2. /\ drop \in Int /\ was \in Int /\ rise \in Int
        /\ drop >= 0 /\ was <= rise /\ drop + gain = rise
    BY <1>1, <1>5, <2>1, RateTypes, RateSigns, RateGrows, RateAdds
  <2>3. a \in buckets => tokens[a] + granted[a] + was >= Burst
    BY <1>1 DEF IndInv, GrantAccount
  <2>4. \/ full = Burst
        \/ a \in buckets /\ full = tokens[a] + gain
    BY <1>1
  <2> HIDE DEF drop, was, rise, gain, top
  <2>a. granted'[a] = granted[a] + paid /\ granted[a] \in Nat /\ tokens[a] \in Int
    BY <1>5, <1>6
  <2>b. full \in Int
    BY <1>1
  <2>c. gain \in Int
    BY <1>10
  <2>5. ASSUME full = Burst
        PROVE  left + granted'[a] + drop >= Burst
    BY <2>5, <2>2, <2>a
  <2>6. ASSUME a \in buckets, full = tokens[a] + gain
        PROVE  left + granted'[a] + drop >= Burst
    BY <2>6, <2>2, <2>3, <2>a, <2>b, <2>c
  <2> QED BY <2>4, <2>5, <2>6 DEF drop, top
<1>15. GrantAccount'
  <2> SUFFICES ASSUME NEW b \in Agents, b \in buckets'
               PROVE  tokens'[b] + granted'[b] + Rate * (high'[b] - last'[b]) >= Burst
    BY DEF GrantAccount
  <2>1. CASE b = a
    BY <2>1, <1>6, <1>14
  <2>2. CASE b # a
    BY <2>2, <1>7 DEF IndInv, GrantAccount
  <2> QED BY <2>1, <2>2
<1> QED BY <1>8, <1>9, <1>12, <1>13, <1>15 DEF IndInv

LEMMA GrantKeeps ==
  ASSUME IndInv, NEW t \in Threads, Grant(t)
  PROVE  IndInv'
<1>1. /\ call[t] # NoCall
      /\ Locked(t, Refilled(call[t].agent, call[t].now) - Cost, Cost)
      /\ Refilled(call[t].agent, call[t].now) >= Cost
  BY DEF Grant, Locked
<1>2. Refilled(call[t].agent, call[t].now) \in Int
  BY <1>1, RefillFacts
<1>3. Refilled(call[t].agent, call[t].now) - Cost >= 0
  BY <1>1, <1>2, RateAssumption
<1> QED BY <1>1, <1>3, LockedKeeps, RateAssumption

LEMMA RefuseKeeps ==
  ASSUME IndInv, NEW t \in Threads, Refuse(t)
  PROVE  IndInv'
<1> DEFINE a == call[t].agent
           now == call[t].now
<1>1. /\ call[t] # NoCall
      /\ Refill(a, now, Refilled(a, now))
      /\ Finish(t)
      /\ UNCHANGED <<clock, window, granted>>
  BY DEF Refuse
<1>2. a \in Agents /\ Refilled(a, now) \in Int
  BY <1>1, RefillFacts
<1>3. Refilled(a, now) = Refilled(a, now) - 0
  BY <1>2
<1>4. /\ granted \in [Agents -> Nat]
      /\ window \in [Agents -> [since : Nat, spent : Nat]]
  BY DEF IndInv, TypeOK
<1> HIDE DEF a, now
<1>5. granted' = [granted EXCEPT ![a] = @ + 0]
  BY <1>1, <1>2, <1>4
<1>6. window' = [window EXCEPT ![a].spent = @ + 0]
  BY <1>1, <1>2, <1>4
<1>7. Refill(a, now, Refilled(a, now) - 0)
  BY <1>1, <1>3
<1>8. Locked(t, Refilled(a, now) - 0, 0)
  BY <1>1, <1>5, <1>6, <1>7 DEF Locked, a, now
<1> QED BY <1>1, <1>8, LockedKeeps DEF a, now

\* Every step keeps the accounts.
LEMMA StepKeeps == IndInv /\ [Next]_vars => IndInv'
<1> SUFFICES ASSUME IndInv, [Next]_vars PROVE IndInv'
  OBVIOUS
<1>1. CASE UNCHANGED vars
  BY <1>1 DEF IndInv, TypeOK, Sane, WindowAccount, WindowBound, GrantAccount, vars
<1>2. CASE Tick
  BY <1>2, TickKeeps
<1>3. ASSUME NEW t \in Threads, NEW a \in Agents, ReadNow(t, a) PROVE IndInv'
  BY <1>3, ReadNowKeeps
<1>4. ASSUME NEW t \in Threads, Grant(t) PROVE IndInv'
  BY <1>4, GrantKeeps
<1>5. ASSUME NEW t \in Threads, Refuse(t) PROVE IndInv'
  BY <1>5, RefuseKeeps
<1>6. ASSUME NEW a \in Agents, OpenWindow(a) PROVE IndInv'
  BY <1>6, OpenWindowKeeps
<1> QED BY <1>1, <1>2, <1>3, <1>4, <1>5, <1>6 DEF Next

LEMMA Invariance == Spec => []IndInv
<1>1. Init => IndInv
  BY InitIndInv
<1>2. IndInv /\ [Next]_vars => IndInv'
  BY StepKeeps
<1> QED BY <1>1, <1>2, PTL DEF Spec

-------------------------------------------------------------------------------
(* The theorems.                                                            *)

\* TypeOK holds in every reachable state.
THEOREM TypeCorrect == Spec => []TypeOK
<1>1. IndInv => TypeOK
  BY DEF IndInv
<1> QED BY <1>1, Invariance, PTL

\* The limiter's promise for every Rate, Burst and Cost and any number of
\* threads racing between the clock and the lock (token_bucket.py:43-57).
THEOREM WindowsAreBounded == Spec => []WindowBound
<1>1. IndInv => WindowBound
  BY DEF IndInv
<1> QED BY <1>1, Invariance, PTL

LEMMA StepRefusesFairly ==
  IndInv /\ [Next]_vars =>
    [\A t \in Threads :
       call[t] # NoCall /\ call'[t] = NoCall /\ granted' = granted =>
         LET a == call[t].agent
         IN  granted[a] + Cost + Rate * (high'[a] - call[t].now) > Burst]_vars
<1> SUFFICES ASSUME IndInv, Next, NEW t \in Threads,
                    call[t] # NoCall, call'[t] = NoCall, granted' = granted
             PROVE  granted[call[t].agent] + Cost
                      + Rate * (high'[call[t].agent] - call[t].now) > Burst
  BY DEF vars
<1> DEFINE a == call[t].agent
           now == call[t].now
           full == Refilled(a, now)
<1> USE RateAssumption
<1>1. /\ a \in Agents /\ now \in Nat /\ full \in Int
      /\ call \in [Threads -> Calls]
      /\ granted \in [Agents -> Nat] /\ high \in [Agents -> Nat]
      /\ last \in [Agents -> Nat] /\ tokens \in [Agents -> Int]
  BY RefillFacts DEF IndInv, TypeOK
<1>2. CASE Refuse(t)
  <2>1. IndInv'
    BY <1>2, RefuseKeeps
  <2>2. /\ full < Cost /\ a \in buckets'
        /\ tokens'[a] = full /\ last'[a] = now
    BY <1>2, <1>1 DEF Refuse, Refill
  <2>3. tokens'[a] + granted'[a] + Rate * (high'[a] - last'[a]) >= Burst
    BY <2>1, <2>2, <1>1 DEF IndInv, GrantAccount
  <2>4. Rate * (high'[a] - now) \in Int /\ granted[a] \in Nat
    <3>1. high'[a] \in Int
      BY <2>1, <1>1 DEF IndInv, TypeOK
    <3> QED BY <3>1, <1>1, RateTypes
  <2>5. full + granted[a] + Rate * (high'[a] - now) >= Burst
    BY <2>2, <2>3
  <2> HIDE DEF a, now, full
  <2>6. granted[a] + Cost + Rate * (high'[a] - now) > Burst
    BY <2>2, <2>4, <2>5, <1>1
  <2> QED BY <2>6 DEF a, now
<1>3. CASE Grant(t)
  <2>1. granted'[a] = granted[a] + Cost
    BY <1>3, <1>1 DEF Grant
  <2>2. FALSE
    BY <2>1, <1>1
  <2> QED BY <2>2
<1>4. \/ Refuse(t) \/ Grant(t)
  BY <1>1 DEF Next, Tick, ReadNow, OpenWindow, Grant, Refuse, Finish, NoCall
<1> QED BY <1>2, <1>3, <1>4

\* No agent is turned away for what other agents did: a refusal means its own
\* grants, and its own late arrival at the lock, used up the burst.
THEOREM RefusalsAreEarned == Spec => RefusedOnlyWhenSpent
<1>1. IndInv /\ [Next]_vars =>
        [\A t \in Threads :
           call[t] # NoCall /\ call'[t] = NoCall /\ granted' = granted =>
             LET a == call[t].agent
             IN  granted[a] + Cost + Rate * (high'[a] - call[t].now) > Burst]_vars
  BY StepRefusesFairly
<1> QED BY <1>1, Invariance, PTL DEF Spec, RefusedOnlyWhenSpent
===============================================================================
