---------------------------- MODULE IdentityProofs ----------------------------
(***************************************************************************)
(* Proofs about Identity and the pages over it, for any organizations,     *)
(* humans, agents, depth of delegation and number of racing and dying      *)
(* commands.                                                               *)
(*                                                                         *)
(* The checks of a command are SELECTs and its writes come later, so none  *)
(* of the properties is inductive: CommandInv says what a check that was   *)
(* passed still guarantees when the write comes, RowInv ties the tables to *)
(* each other.                                                             *)
(*                                                                         *)
(* The console's walks are recursive functions.  What they compute is      *)
(* proved by induction on hops and depth, as the ways up the delegation    *)
(* graph: the breadcrumb is the longest within the limit, a tree the       *)
(* starts of those that end at its root.                                   *)
(***************************************************************************)
EXTENDS Console, FiniteSetTheorems, SequenceTheorems, WellFoundedInduction, TLAPS

\* What a process between two of its steps still knows: a parent's identity
\* row and a discovered agent's row stay, a human keeps its organization.
CommandInv ==
  \A p \in Clis :
    LET c == cli[p] IN
      /\ c.pc = "register" =>
           /\ human[c.owner] = c.org /\ <<c.org, c.agent>> \in Uses
           /\ c.parent # None => identity[c.parent] # None
      /\ c.pc = "claim" =>
           /\ human[c.owner] = c.org /\ c.parent = None /\ agent[c.agent] # None
      /\ c.pc = "issue" => agent[c.agent] # None /\ identity[c.agent] # None

\* Only an agent with a row has an identity, and only one with an identity a
\* credential; unclaimed rows have neither nor an owner.
RowInv ==
  \A a \in Agents :
    /\ agent[a] = None => identity[a] = None
    /\ identity[a] = None => \A t \in tokens : t[1] # a
    /\ identity[a] # None /\ identity[a].parent # None => identity[identity[a].parent] # None
    /\ agent[a] # None =>
         /\ agent[a].status = "unclaimed" <=> identity[a] = None
         /\ agent[a].owner = None <=> identity[a] = None

\* Whoever has an identity has a credential, is about to get one or lost its
\* process just before.
TokenInv ==
  \A a \in Agents : identity[a] # None =>
    \/ \E t \in tokens : t[1] = a
    \/ a \in orphans
    \/ \E p \in Clis : cli[p].pc = "issue" /\ cli[p].agent = a

\* While no parent was replaced, a registration past its check stays within
\* the scope its parent has.
ScopeInv ==
  ~restated =>
    /\ AuthorityNarrows
    /\ \A p \in Clis : cli[p].pc = "register" /\ cli[p].parent # None =>
         cli[p].scope \subseteq identity[cli[p].parent].scope

IndInv == TypeOK /\ CommandInv /\ RowInv /\ TokenInv /\ ScopeInv

-------------------------------------------------------------------------------
\* What a process holds, by where it is.
LEMMA CliShapes ==
  ASSUME TypeOK, NEW p \in Clis
  PROVE  /\ cli[p] = Idle \/ cli[p] \in Commands \/ cli[p] \in Issues
         /\ cli[p].pc \in {"idle", "register", "claim", "issue"}
         /\ cli[p] = Idle <=> cli[p].pc = "idle"
         /\ cli[p].pc \in {"register", "claim"} => cli[p] \in Commands
         /\ cli[p].pc = "issue" => cli[p] \in Issues
BY DEF TypeOK, Idle, Commands, Issues

LEMMA InitHolds == Init => IndInv
<1> SUFFICES ASSUME Init PROVE IndInv
  OBVIOUS
<1> USE IdentityAssumption
<1>1. TypeOK
  <2>1. commands \in 0..MaxCommands
    BY DEF Init
  <2>3. restated \in BOOLEAN
    BY Zenon DEF Init
  <2>2. cli \in [Clis -> {Idle} \cup Commands \cup Issues]
    BY DEF Init
  <2> QED BY <2>1, <2>2, <2>3 DEF Init, TypeOK
<1>2. CommandInv /\ RowInv /\ TokenInv
  BY DEF Init, CommandInv, RowInv, TokenInv, Idle
<1>3. ScopeInv
  BY DEF Init, ScopeInv, AuthorityNarrows, Idle
<1> QED BY <1>1, <1>2, <1>3 DEF IndInv

-------------------------------------------------------------------------------
(* One lemma per action.                                                    *)

LEMMA OrgCreateKeeps ==
  ASSUME IndInv, NEW o \in Orgs, OrgCreate(o)
  PROVE  IndInv'
BY DEF IndInv, OrgCreate, TypeOK, CommandInv, RowInv, TokenInv, ScopeInv, AuthorityNarrows

LEMMA HumanCreateKeeps ==
  ASSUME IndInv, NEW h \in Humans, NEW o \in Orgs, HumanCreate(h, o)
  PROVE  IndInv'
<1>1. TypeOK'
  BY DEF IndInv, HumanCreate, TypeOK
<1>2. (RowInv /\ TokenInv /\ ScopeInv)'
  BY DEF IndInv, HumanCreate, RowInv, TokenInv, ScopeInv, AuthorityNarrows
<1>3. CommandInv'
  <2> SUFFICES ASSUME NEW p \in Clis PROVE CommandInv!(p)'
    BY DEF CommandInv
  <2>1. CASE cli[p].pc \in {"register", "claim"}
    <3>1. cli[p] \in Commands
      BY <2>1, CliShapes DEF IndInv
    <3>2. cli[p].org # None /\ human[cli[p].owner] = cli[p].org
      BY <2>1, <3>1, IdentityAssumption DEF IndInv, CommandInv, Commands
    <3>3. human'[cli[p].owner] = human[cli[p].owner]
      BY <3>1, <3>2 DEF IndInv, HumanCreate, TypeOK, Commands
    <3> QED BY <2>1, <3>2, <3>3 DEF IndInv, HumanCreate, CommandInv
  <2> QED BY <2>1 DEF IndInv, HumanCreate, CommandInv
<1> QED BY <1>1, <1>2, <1>3 DEF IndInv

LEMMA DiscoverKeeps ==
  ASSUME IndInv, NEW o \in Orgs, NEW a \in Agents, Discover(o, a)
  PROVE  IndInv'
<1> USE IdentityAssumption
<1>1. TypeOK'
  BY DEF IndInv, Discover, TypeOK, AgentRows
<1>2. (TokenInv /\ ScopeInv)'
  BY DEF IndInv, Discover, TokenInv, ScopeInv, AuthorityNarrows
<1>3. agent'[a] = [org |-> o, owner |-> None, status |-> "unclaimed"] /\ agent'[a] # None
  BY DEF IndInv, TypeOK, Discover, AgentRows
<1>4. \A b \in Agents : b # a => agent'[b] = agent[b]
  BY DEF IndInv, TypeOK, Discover
<1>5. CommandInv'
  <2> SUFFICES ASSUME NEW p \in Clis PROVE CommandInv!(p)'
    BY DEF CommandInv
  <2> USE CliShapes DEF IndInv, Discover, CommandInv, Commands, Issues
  <2> QED BY <1>3, <1>4
<1>6. RowInv'
  BY <1>3, <1>4 DEF IndInv, RowInv, Discover
<1> QED BY <1>1, <1>2, <1>5, <1>6 DEF IndInv

LEMMA LogCallKeeps ==
  ASSUME IndInv, NEW o \in Orgs, NEW a \in Agents, LogCall(o, a)
  PROVE  IndInv'
BY DEF IndInv, LogCall, TypeOK, CommandInv, RowInv, TokenInv, ScopeInv, AuthorityNarrows

\* Both checks leave the tables alone; what they found is what CommandInv asks.
LEMMA StartKeeps ==
  ASSUME IndInv, NEW p \in Clis, NEW c \in Commands, Start(p, c),
         human[c.owner] = c.org,
         c.pc = "register" =>
           /\ <<c.org, c.agent>> \in Uses
           /\ c.parent # None =>
                identity[c.parent] # None /\ c.scope \subseteq identity[c.parent].scope,
         c.pc = "claim" => c.parent = None /\ agent[c.agent] # None
  PROVE  IndInv'
<1> USE IdentityAssumption
<1>1. cli'[p] = c /\ \A q \in Clis : q # p => cli'[q] = cli[q]
  BY DEF IndInv, TypeOK, Start
<1>2. cli[p].pc = "idle" /\ c.pc \in {"register", "claim"}
  BY DEF Start, Idle, Commands
<1>3. TypeOK'
  BY DEF IndInv, TypeOK, Start
<1>4. CommandInv'
  BY <1>1, <1>2 DEF IndInv, CommandInv, Start
<1>5. RowInv'
  BY DEF IndInv, RowInv, Start
<1>6. TokenInv'
  BY <1>1, <1>2 DEF IndInv, TokenInv, Start
<1>7. ScopeInv'
  BY <1>1, <1>2 DEF IndInv, ScopeInv, AuthorityNarrows, Start
<1> QED BY <1>3, <1>4, <1>5, <1>6, <1>7 DEF IndInv

LEMMA RegisterCheckKeeps ==
  ASSUME IndInv, NEW p \in Clis, NEW o \in Orgs, NEW a \in Agents, NEW h \in Humans,
         NEW scope \in SUBSET Tools, NEW parent \in Agents \cup {None},
         RegisterCheck(p, o, a, h, scope, parent)
  PROVE  IndInv'
<1> DEFINE c == [pc |-> "register", org |-> o, agent |-> a, owner |-> h,
                 scope |-> scope, parent |-> parent]
<1>1. c \in Commands
  BY DEF Commands
<1>2. /\ Start(p, c) /\ human[c.owner] = c.org /\ <<c.org, c.agent>> \in Uses
      /\ c.parent # None =>
           identity[c.parent] # None /\ c.scope \subseteq identity[c.parent].scope
  BY DEF RegisterCheck, MayDelegate
<1> QED BY <1>1, <1>2, StartKeeps

LEMMA ClaimCheckKeeps ==
  ASSUME IndInv, NEW p \in Clis, NEW o \in Orgs, NEW a \in Agents, NEW h \in Humans,
         NEW scope \in SUBSET Tools, ClaimCheck(p, o, a, h, scope)
  PROVE  IndInv'
<1> DEFINE c == [pc |-> "claim", org |-> o, agent |-> a, owner |-> h,
                 scope |-> scope, parent |-> None]
<1>1. c \in Commands
  BY DEF Commands
<1>2. /\ Start(p, c) /\ human[c.owner] = c.org
      /\ c.parent = None /\ agent[c.agent] # None
  BY DEF ClaimCheck
<1> QED BY <1>1, <1>2, StartKeeps

\* The write common to register and claim: an active row with an owner and
\* an identity, and the process moves on to issue_token.
LEMMA WriteKeeps ==
  ASSUME IndInv, NEW p \in Clis, cli[p].pc \in {"register", "claim"}, WriteIdentity(p),
         NEW row \in AgentRows, row.status = "active", row.owner \in Humans,
         agent' = [agent EXCEPT ![cli[p].agent] = row]
  PROVE  IndInv'
<1> USE IdentityAssumption
<1> DEFINE a == cli[p].agent
           i == [parent |-> cli[p].parent, scope |-> cli[p].scope]
<1>1. /\ cli[p] \in Commands /\ a \in Agents /\ i \in IdentityRows /\ i # None /\ row # None
      /\ cli[p].parent \in Agents \cup {None}
  BY CliShapes DEF IndInv, Commands, IdentityRows, AgentRows
<1>2. /\ cli'[p] = [pc |-> "issue", agent |-> a]
      /\ \A q \in Clis : q # p => cli'[q] = cli[q]
  BY DEF IndInv, TypeOK, WriteIdentity
<1>3. identity'[a] = i /\ \A b \in Agents : b # a => identity'[b] = identity[b]
  BY <1>1 DEF IndInv, TypeOK, WriteIdentity
<1>4. agent'[a] = row /\ \A b \in Agents : b # a => agent'[b] = agent[b]
  BY <1>1 DEF IndInv, TypeOK
<1>5. TypeOK'
  <2>1. restated' \in BOOLEAN
    BY DEF WriteIdentity, IndInv, TypeOK
  <2>2. [pc |-> "issue", agent |-> a] \in Issues
    BY <1>1 DEF Issues
  <2>3. cli' \in [Clis -> {Idle} \cup Commands \cup Issues]
    BY <2>2 DEF IndInv, TypeOK, WriteIdentity
  <2>4. identity' \in [Agents -> {None} \cup IdentityRows]
    BY <1>1 DEF IndInv, TypeOK, WriteIdentity
  <2>5. agent' \in [Agents -> {None} \cup AgentRows]
    BY <1>1 DEF IndInv, TypeOK
  <2> QED BY <2>1, <2>3, <2>4, <2>5 DEF IndInv, TypeOK, WriteIdentity
<1>6. \A b \in Agents : identity[b] # None => identity'[b] # None
  BY <1>1, <1>3
<1>7. \A b \in Agents : agent[b] # None => agent'[b] # None
  BY <1>1, <1>4
<1>8. cli[p].parent # None => identity[cli[p].parent] # None
  BY DEF IndInv, CommandInv
<1>9. CommandInv'
  <2> SUFFICES ASSUME NEW q \in Clis PROVE CommandInv!(q)'
    BY DEF CommandInv
  <2>1. CASE q = p
    BY <2>1, <1>1, <1>2, <1>3, <1>4
  <2>2. CASE q # p
    <3>1. cli'[q] = cli[q] /\ human' = human
      BY <2>2, <1>2 DEF WriteIdentity
    <3>2. cli[q].pc \in {"register", "claim"} =>
            cli[q].agent \in Agents /\ cli[q].parent \in Agents \cup {None}
      BY CliShapes DEF IndInv, Commands
    <3>3. cli[q].pc = "issue" => cli[q].agent \in Agents
      BY CliShapes DEF IndInv, Issues
    <3> QED BY <3>1, <3>2, <3>3, <1>6, <1>7 DEF IndInv, CommandInv
  <2> QED BY <2>1, <2>2
<1>10. RowInv'
  <2> SUFFICES ASSUME NEW b \in Agents PROVE RowInv!(b)'
    BY DEF RowInv
  <2>1. tokens' = tokens
    BY DEF WriteIdentity
  <2>2. CASE b = a
    BY <2>1, <2>2, <1>1, <1>3, <1>4, <1>6, <1>8
  <2>3. CASE b # a
    <3>1. identity'[b] = identity[b] /\ agent'[b] = agent[b]
      BY <2>3, <1>3, <1>4
    <3>2. identity[b] # None => identity[b].parent \in Agents \cup {None}
      BY DEF IndInv, TypeOK, IdentityRows
    <3> QED BY <2>1, <3>1, <3>2, <1>6 DEF IndInv, RowInv
  <2> QED BY <2>2, <2>3
<1>11. TokenInv'
  <2> SUFFICES ASSUME NEW b \in Agents, identity'[b] # None PROVE TokenInv!(b)!2'
    BY DEF TokenInv
  <2>1. CASE b = a
    BY <2>1, <1>2
  <2>2. CASE b # a
    BY <2>2, <1>2, <1>3 DEF IndInv, TokenInv, WriteIdentity
  <2> QED BY <2>1, <2>2
<1>12. ScopeInv'
  <2> SUFFICES ASSUME ~restated'
      PROVE (AuthorityNarrows /\ ScopeInv!2!2)'
    BY DEF ScopeInv
  <2>1. ~restated /\ ~IsParent(a)
    BY DEF WriteIdentity
  <2>2. ASSUME NEW b \in Agents, identity'[b] # None, identity'[b].parent # None
        PROVE  identity'[b].scope \subseteq identity'[identity'[b].parent].scope
    <3>1. CASE b = a
      <4>0. cli[p].parent # None
        BY <3>1, <2>2, <1>3
      <4>1. cli[p].pc = "register" /\ cli[p].parent \in Agents /\ cli[p].parent # None
        BY <4>0, <1>1 DEF IndInv, CommandInv
      <4>2. cli[p].parent # a
        BY <4>1, <2>1 DEF IsParent
      <4>3. cli[p].scope \subseteq identity[cli[p].parent].scope
        BY <4>1, <2>1 DEF IndInv, ScopeInv
      <4> QED BY <3>1, <4>1, <4>2, <4>3, <1>3
    <3>2. CASE b # a
      <4>1. identity'[b] = identity[b] /\ identity[b].parent \in Agents
        BY <3>2, <2>2, <1>3 DEF IndInv, TypeOK, IdentityRows
      <4>2. identity[b].parent # a
        BY <2>1, <2>2, <4>1 DEF IsParent
      <4> QED BY <4>1, <4>2, <2>1, <2>2, <1>3 DEF IndInv, ScopeInv, AuthorityNarrows
    <3> QED BY <3>1, <3>2
  <2>3. ASSUME NEW q \in Clis, cli'[q].pc = "register", cli'[q].parent # None
        PROVE  cli'[q].scope \subseteq identity'[cli'[q].parent].scope
    <3>1. q # p /\ cli'[q] = cli[q]
      BY <2>3, <1>2
    <3>2. cli[q].parent \in Agents
      BY <2>3, <3>1, CliShapes DEF IndInv, Commands
    <3>3. cli[q].parent # a
      BY <2>1, <2>3, <3>1 DEF IsParent
    <3> QED BY <3>1, <3>2, <3>3, <2>1, <2>3, <1>3 DEF IndInv, ScopeInv
  <2> QED BY <2>2, <2>3 DEF AuthorityNarrows
<1> QED BY <1>5, <1>9, <1>10, <1>11, <1>12 DEF IndInv

LEMMA RegisterWriteKeeps ==
  ASSUME IndInv, NEW p \in Clis, RegisterWrite(p)
  PROVE  IndInv'
<1> DEFINE c == cli[p]
           row == [org |-> c.org, owner |-> c.owner, status |-> "active"]
<1>1. c \in Commands
  BY CliShapes DEF IndInv, RegisterWrite
<1>2. row \in AgentRows /\ row.status = "active" /\ row.owner \in Humans
  BY <1>1 DEF Commands, AgentRows
<1> QED BY <1>2, WriteKeeps DEF RegisterWrite

LEMMA ClaimWriteKeeps ==
  ASSUME IndInv, NEW p \in Clis, ClaimWrite(p)
  PROVE  IndInv'
<1> DEFINE c == cli[p]
           row == [agent[c.agent] EXCEPT !.owner = c.owner, !.status = "active"]
<1>1. c \in Commands /\ c.pc = "claim"
  BY CliShapes DEF IndInv, ClaimWrite
<1>2. agent[c.agent] \in AgentRows
  BY <1>1 DEF IndInv, CommandInv, TypeOK, Commands
<1>3. row \in AgentRows /\ row.status = "active" /\ row.owner \in Humans
  BY <1>1, <1>2 DEF Commands, AgentRows
<1>4. agent' = [agent EXCEPT ![c.agent] = row]
  BY <1>1, <1>2 DEF ClaimWrite, IndInv, TypeOK, AgentRows
<1> QED BY <1>1, <1>3, <1>4, WriteKeeps DEF ClaimWrite

LEMMA IssueTokenKeeps ==
  ASSUME IndInv, NEW p \in Clis, IssueToken(p)
  PROVE  IndInv'
<1> USE IdentityAssumption
<1> DEFINE a == cli[p].agent
<1>1. a \in Agents /\ agent[a] # None /\ identity[a] # None /\ agent[a] \in AgentRows
  BY CliShapes DEF IndInv, TypeOK, CommandInv, Issues, IssueToken
<1>2. cli'[p] = Idle /\ \A q \in Clis : q # p => cli'[q] = cli[q]
  BY DEF IndInv, TypeOK, IssueToken
<1>3. TypeOK'
  BY <1>1 DEF IndInv, TypeOK, IssueToken, AgentRows
<1>4. CommandInv'
  BY <1>2 DEF IndInv, CommandInv, IssueToken, Idle
<1>5. RowInv'
  BY <1>1 DEF IndInv, RowInv, IssueToken
<1>6. TokenInv'
  <2> SUFFICES ASSUME NEW b \in Agents, identity[b] # None PROVE TokenInv!(b)!2'
    BY DEF TokenInv, IssueToken
  <2>1. CASE b = a
    <3>1. <<a, agent[a].org>> \in tokens'
      BY DEF IssueToken
    <3> QED BY <2>1, <3>1
  <2>2. CASE b # a
    BY <2>2, <1>2 DEF IndInv, TokenInv, IssueToken
  <2> QED BY <2>1, <2>2
<1>7. ScopeInv'
  BY <1>2 DEF IndInv, ScopeInv, AuthorityNarrows, IssueToken, Idle
<1> QED BY <1>3, <1>4, <1>5, <1>6, <1>7 DEF IndInv

LEMMA CliDeathKeeps ==
  ASSUME IndInv, NEW p \in Clis, CliDeath(p)
  PROVE  IndInv'
<1>1. cli'[p] = Idle /\ \A q \in Clis : q # p => cli'[q] = cli[q]
  BY DEF IndInv, TypeOK, CliDeath
<1>2. TypeOK'
  <2>1. orphans' \subseteq Agents
    BY CliShapes DEF IndInv, TypeOK, CliDeath, Issues
  <2> QED BY <2>1 DEF IndInv, TypeOK, CliDeath
<1>3. CommandInv'
  BY <1>1 DEF IndInv, CommandInv, CliDeath, Idle
<1>4. RowInv'
  BY DEF IndInv, RowInv, CliDeath
<1>5. TokenInv'
  BY <1>1 DEF IndInv, TokenInv, CliDeath
<1>6. ScopeInv'
  BY <1>1 DEF IndInv, ScopeInv, AuthorityNarrows, CliDeath, Idle
<1> QED BY <1>2, <1>3, <1>4, <1>5, <1>6 DEF IndInv

LEMMA StutterKeeps == IndInv /\ UNCHANGED idVars => IndInv'
BY DEF IndInv, idVars, TypeOK, CommandInv, RowInv, TokenInv, ScopeInv, AuthorityNarrows

LEMMA NextKeeps == IndInv /\ [Next]_idVars => IndInv'
BY OrgCreateKeeps, HumanCreateKeeps, DiscoverKeeps, LogCallKeeps, RegisterCheckKeeps,
   ClaimCheckKeeps, RegisterWriteKeeps, ClaimWriteKeeps, IssueTokenKeeps, CliDeathKeeps,
   StutterKeeps
   DEF Next, CliStep

LEMMA Invariance == Spec => []IndInv
BY InitHolds, NextKeeps, PTL DEF Spec

-------------------------------------------------------------------------------
(* The theorems.                                                            *)

\* The tables and what each command holds keep their types (registry.py,
\* discovery.py and cli.py's register and claim).
THEOREM TypeCorrect == Spec => []TypeOK
<1>1. IndInv => TypeOK
  BY DEF IndInv
<1> QED BY <1>1, Invariance, PTL

\* Claiming and registering leave an agent one can revoke, or a process that
\* died on the way; an unclaimed agent has nothing, however commands race
\* (discovery.py:114-160, registry.py:254-304).
THEOREM Revocable == Spec => []ClaimedIsRevocable
<1>1. IndInv => ClaimedIsRevocable
  <2> SUFFICES ASSUME IndInv, NEW a \in Agents PROVE ClaimedIsRevocable!(a)
    BY DEF ClaimedIsRevocable
  <2>1. CASE agent[a] = None
    BY <2>1 DEF IndInv, RowInv
  <2>2. CASE agent[a] # None /\ agent[a].status = "unclaimed"
    BY <2>2 DEF IndInv, RowInv
  <2>3. CASE agent[a] # None /\ agent[a].status # "unclaimed"
    BY <2>3 DEF IndInv, RowInv, TokenInv
  <2> QED BY <2>1, <2>2, <2>3
<1> QED BY <1>1, Invariance, PTL

\* Authority narrows down every delegation chain, whatever commands raced
\* between check and write, as long as no parent is replaced
\* (registry.py:206-229).
THEOREM Narrowing == Spec => []AuthorityNarrows
<1>1. IndInv => AuthorityNarrows
  BY DEF IndInv, ScopeInv, AuthorityNarrows
<1> QED BY <1>1, Invariance, PTL

-------------------------------------------------------------------------------
(* One organization.  Rows are replaced and updated by agent id alone, so   *)
(* what a row and all that hangs on it keep is that every organization      *)
(* involved uses the id it was found by.                                    *)

\* Every row is in an organization that uses its id and, with its parent's id,
\* in one that uses that; owner, tokens and events are of one that uses the
\* agent's, and so is what a command will write.
OrgInv ==
  /\ \A a \in Agents : agent[a] # None =>
       /\ <<agent[a].org, a>> \in Uses
       /\ agent[a].owner # None => <<human[agent[a].owner], a>> \in Uses
       /\ identity[a] # None /\ identity[a].parent # None =>
            <<agent[a].org, identity[a].parent>> \in Uses
  /\ \A t \in tokens \cup events : agent[t[1]] # None /\ <<t[2], t[1]>> \in Uses
  /\ \A p \in Clis :
       /\ cli[p].pc = "register" /\ cli[p].parent # None => <<cli[p].org, cli[p].parent>> \in Uses
       /\ cli[p].pc = "claim" => <<cli[p].org, cli[p].agent>> \in Uses

\* The writers of humans, agents and agent_identities.
LEMMA WhoWrites ==
  ASSUME Next
  PROVE  \/ \E h \in Humans, o \in Orgs : HumanCreate(h, o)
         \/ \E o \in Orgs, a \in Agents : Discover(o, a)
         \/ \E p \in Clis : RegisterWrite(p) \/ ClaimWrite(p)
         \/ UNCHANGED <<human, agent, identity>>
<1>1. \A o : OrgCreate(o) => UNCHANGED <<human, agent, identity>>
  BY DEF OrgCreate
<1>2. \A o, a : LogCall(o, a) => UNCHANGED <<human, agent, identity>>
  BY DEF LogCall
<1>3. \A p, o, a, h, scope, parent :
        RegisterCheck(p, o, a, h, scope, parent) => UNCHANGED <<human, agent, identity>>
  BY DEF RegisterCheck, Start
<1>4. \A p, o, a, h, scope : ClaimCheck(p, o, a, h, scope) => UNCHANGED <<human, agent, identity>>
  BY DEF ClaimCheck, Start
<1>5. \A p : IssueToken(p) \/ CliDeath(p) => UNCHANGED <<human, agent, identity>>
  BY DEF IssueToken, CliDeath
<1> QED BY <1>1, <1>2, <1>3, <1>4, <1>5 DEF Next, CliStep

\* Humans never move.
LEMMA HumansStay ==
  ASSUME TypeOK, Next, NEW h \in Humans, human[h] # None
  PROVE  human'[h] = human[h]
<1>1. ASSUME NEW g \in Humans, NEW o \in Orgs, HumanCreate(g, o)
      PROVE  human'[h] = human[h]
  BY <1>1 DEF HumanCreate, TypeOK
<1>2. \A o, a : Discover(o, a) => human' = human
  BY DEF Discover
<1>3. \A p : RegisterWrite(p) \/ ClaimWrite(p) => human' = human
  BY DEF RegisterWrite, ClaimWrite, WriteIdentity
<1> QED BY <1>1, <1>2, <1>3, WhoWrites

\* What a write puts in the two tables.
LEMMA WrittenRow ==
  ASSUME IndInv, OrgInv, NEW p \in Clis, RegisterWrite(p) \/ ClaimWrite(p)
  PROVE  LET c == cli[p] IN
           /\ c \in Commands /\ <<c.org, c.agent>> \in Uses /\ human[c.owner] = c.org
           /\ identity' = [identity EXCEPT ![c.agent] = [parent |-> c.parent, scope |-> c.scope]]
           /\ \E row \in AgentRows :
                /\ <<row.org, c.agent>> \in Uses /\ row.owner = c.owner
                /\ c.parent # None => <<row.org, c.parent>> \in Uses
                /\ agent' = [agent EXCEPT ![c.agent] = row]
<1> DEFINE c == cli[p]
<1>1. CASE RegisterWrite(p)
  <2> DEFINE row == [org |-> c.org, owner |-> c.owner, status |-> "active"]
  <2>1. c \in Commands /\ c.pc = "register"
    BY <1>1, CliShapes DEF RegisterWrite, IndInv
  <2>2. /\ row \in AgentRows /\ row.org = c.org /\ row.owner = c.owner
        /\ agent' = [agent EXCEPT ![c.agent] = row]
    BY <1>1, <2>1 DEF AgentRows, Commands, RegisterWrite
  <2>3. identity' = [identity EXCEPT ![c.agent] = [parent |-> c.parent, scope |-> c.scope]]
    BY <1>1 DEF RegisterWrite, WriteIdentity
  <2>4. <<c.org, c.agent>> \in Uses /\ human[c.owner] = c.org
    BY <2>1 DEF IndInv, CommandInv
  <2>5. c.parent # None => <<c.org, c.parent>> \in Uses
    BY <2>1 DEF OrgInv
  <2> QED BY <2>1, <2>2, <2>3, <2>4, <2>5
<1>2. CASE ClaimWrite(p)
  <2> DEFINE row == [agent[c.agent] EXCEPT !.owner = c.owner, !.status = "active"]
  <2>1. c \in Commands /\ c.pc = "claim"
    BY <1>2, CliShapes DEF IndInv, ClaimWrite
  <2>2. agent[c.agent] \in AgentRows /\ agent[c.agent] # None /\ c.agent \in Agents
    BY <2>1 DEF IndInv, CommandInv, TypeOK, Commands
  <2>3. row \in AgentRows /\ row.org = agent[c.agent].org /\ row.owner = c.owner
    BY <2>1, <2>2 DEF AgentRows, Commands
  <2>4. agent' = [agent EXCEPT ![c.agent] = row]
    BY <1>2, <2>2 DEF ClaimWrite, IndInv, TypeOK, AgentRows
  <2>5. c.parent = None /\ human[c.owner] = c.org
    BY <2>1 DEF IndInv, CommandInv
  <2>6. <<c.org, c.agent>> \in Uses /\ <<agent[c.agent].org, c.agent>> \in Uses
    BY <2>1, <2>2 DEF OrgInv
  <2>7. identity' = [identity EXCEPT ![c.agent] = [parent |-> c.parent, scope |-> c.scope]]
    BY <1>2 DEF ClaimWrite, WriteIdentity
  <2> QED BY <2>1, <2>3, <2>4, <2>5, <2>6, <2>7
<1> QED BY <1>1, <1>2

\* A row that is there stays.
LEMMA RowsStay ==
  ASSUME IndInv, OrgInv, Next, NEW a \in Agents, agent[a] # None
  PROVE  agent'[a] # None
<1>1. ASSUME NEW o \in Orgs, NEW b \in Agents, Discover(o, b)
      PROVE  agent'[a] = agent[a]
  BY <1>1 DEF Discover, IndInv, TypeOK
<1>2. ASSUME NEW p \in Clis, RegisterWrite(p) \/ ClaimWrite(p)
      PROVE  agent'[a] # None
  <2>1. PICK row \in AgentRows : agent' = [agent EXCEPT ![cli[p].agent] = row]
    BY <1>2, WrittenRow
  <2>2. row # None
    BY IdentityAssumption
  <2> QED BY <2>1, <2>2 DEF IndInv, TypeOK
<1>3. \A h, o : HumanCreate(h, o) => agent' = agent
  BY DEF HumanCreate
<1> QED BY <1>1, <1>2, <1>3, WhoWrites

\* Whom a row belongs to and what it hangs under.
LEMMA RowsAgree ==
  ASSUME IndInv, OrgInv, Next, NEW a \in Agents, agent'[a] # None
  PROVE  /\ <<agent'[a].org, a>> \in Uses
         /\ agent'[a].owner # None => <<human'[agent'[a].owner], a>> \in Uses
         /\ identity'[a] # None /\ identity'[a].parent # None =>
              <<agent'[a].org, identity'[a].parent>> \in Uses
<1> USE IdentityAssumption
<1> DEFINE Agrees == /\ <<agent'[a].org, a>> \in Uses
                     /\ agent'[a].owner # None => <<human'[agent'[a].owner], a>> \in Uses
                     /\ identity'[a] # None /\ identity'[a].parent # None =>
                          <<agent'[a].org, identity'[a].parent>> \in Uses
<1>1. ASSUME agent'[a] = agent[a], identity'[a] = identity[a] PROVE Agrees
  <2>1. agent[a] \in AgentRows
    BY <1>1 DEF IndInv, TypeOK
  <2>2. agent[a].owner # None =>
          /\ agent[a].owner \in Humans /\ <<human[agent[a].owner], a>> \in Uses
          /\ human[agent[a].owner] # None
    BY <1>1, <2>1 DEF OrgInv, AgentRows
  <2>3. agent[a].owner # None => human'[agent[a].owner] = human[agent[a].owner]
    BY <2>2, HumansStay DEF IndInv
  <2> QED BY <1>1, <2>2, <2>3 DEF OrgInv
<1>2. ASSUME NEW o \in Orgs, NEW b \in Agents, Discover(o, b), b = a PROVE Agrees
  <2>1. <<agent'[a].org, a>> \in Uses /\ agent'[a].owner = None
    BY <1>2 DEF Discover, IndInv, TypeOK
  <2>2. identity'[a] = None
    BY <1>2 DEF Discover, IndInv, RowInv
  <2> QED BY <2>1, <2>2
<1>3. ASSUME NEW p \in Clis, RegisterWrite(p) \/ ClaimWrite(p), cli[p].agent = a PROVE Agrees
  <2> DEFINE c == cli[p]
  <2>1. /\ c \in Commands /\ <<c.org, c.agent>> \in Uses /\ human[c.owner] = c.org
        /\ identity' = [identity EXCEPT ![a] = [parent |-> c.parent, scope |-> c.scope]]
    BY <1>3, WrittenRow
  <2>2. PICK row \in AgentRows :
          /\ <<row.org, a>> \in Uses /\ row.owner = c.owner
          /\ c.parent # None => <<row.org, c.parent>> \in Uses
          /\ agent' = [agent EXCEPT ![a] = row]
    BY <1>3, WrittenRow
  <2>3. agent'[a] = row /\ identity'[a].parent = c.parent
    BY <2>1, <2>2 DEF IndInv, TypeOK
  <2>4. human'[c.owner] = c.org
    BY <2>1, HumansStay DEF IndInv, Commands
  <2> QED BY <1>3, <2>1, <2>2, <2>3, <2>4
<1>4. ASSUME NEW p \in Clis, RegisterWrite(p) \/ ClaimWrite(p), cli[p].agent # a
      PROVE  agent'[a] = agent[a] /\ identity'[a] = identity[a]
  <2>1. PICK row \in AgentRows : agent' = [agent EXCEPT ![cli[p].agent] = row]
    BY <1>4, WrittenRow
  <2>2. identity' = [identity EXCEPT ![cli[p].agent] =
                       [parent |-> cli[p].parent, scope |-> cli[p].scope]]
    BY <1>4, WrittenRow
  <2> QED BY <1>4, <2>1, <2>2 DEF IndInv, TypeOK
<1>5. ASSUME NEW o \in Orgs, NEW b \in Agents, Discover(o, b), b # a
      PROVE  agent'[a] = agent[a] /\ identity'[a] = identity[a]
  BY <1>5 DEF Discover, IndInv, TypeOK
<1>6. \A h, o : HumanCreate(h, o) => agent' = agent /\ identity' = identity
  BY DEF HumanCreate
<1>7. Agrees
  <2> HIDE DEF Agrees
  <2> QED BY <1>1, <1>2, <1>3, <1>4, <1>5, <1>6, WhoWrites
<1> QED BY <1>7

\* Tokens and events are filed under an organization that uses the id.
LEMMA FilesAgree ==
  ASSUME IndInv, OrgInv, Next, NEW t \in (tokens \cup events)'
  PROVE  agent'[t[1]] # None /\ <<t[2], t[1]>> \in Uses
<1>1. CASE t \in tokens \cup events
  <2>1. t[1] \in Agents /\ agent[t[1]] # None /\ <<t[2], t[1]>> \in Uses
    BY <1>1 DEF OrgInv, IndInv, TypeOK
  <2> QED BY <2>1, RowsStay
<1>2. ASSUME NEW o \in Orgs, NEW a \in Agents, LogCall(o, a), t = <<a, o>>
      PROVE  agent'[t[1]] # None /\ <<t[2], t[1]>> \in Uses
  <2>1. agent' = agent
    BY <1>2 DEF LogCall
  <2>2. CASE Resolves(o, a)
    <3>1. agent[a] # None /\ agent[a].org = o
      BY <2>2 DEF Resolves, IndInv, RowInv
    <3> QED BY <1>2, <2>1, <3>1 DEF OrgInv
  <2>3. CASE <<o, a>> \in Uses /\ agent[a] # None
    BY <1>2, <2>1, <2>3
  <2> QED BY <1>2, <2>2, <2>3 DEF LogCall
<1>3. ASSUME NEW p \in Clis, IssueToken(p), t = <<cli[p].agent, agent[cli[p].agent].org>>
      PROVE  agent'[t[1]] # None /\ <<t[2], t[1]>> \in Uses
  <2>1. cli[p].agent \in Agents /\ agent[cli[p].agent] # None /\ agent' = agent
    BY <1>3, CliShapes DEF IssueToken, IndInv, CommandInv, Issues
  <2> QED BY <1>3, <2>1 DEF OrgInv
<1>4. \/ t \in tokens \cup events
      \/ \E o \in Orgs, a \in Agents : LogCall(o, a) /\ t = <<a, o>>
      \/ \E p \in Clis : IssueToken(p) /\ t = <<cli[p].agent, agent[cli[p].agent].org>>
  <2>1. \A o, a : LogCall(o, a) => (tokens \cup events)' = tokens \cup events \cup {<<a, o>>}
    BY DEF LogCall
  <2>2. \A p : IssueToken(p) => (tokens \cup events)' =
                 tokens \cup events \cup {<<cli[p].agent, agent[cli[p].agent].org>>}
    BY DEF IssueToken
  <2>3. \A o : OrgCreate(o) => UNCHANGED <<tokens, events>>
    BY DEF OrgCreate
  <2>4. \A p, o, a, h, scope, parent :
          RegisterCheck(p, o, a, h, scope, parent) => UNCHANGED <<tokens, events>>
    BY DEF RegisterCheck, Start
  <2>5. \A p, o, a, h, scope : ClaimCheck(p, o, a, h, scope) => UNCHANGED <<tokens, events>>
    BY DEF ClaimCheck, Start
  <2>6. \A p : RegisterWrite(p) \/ ClaimWrite(p) \/ CliDeath(p) => UNCHANGED <<tokens, events>>
    BY DEF RegisterWrite, ClaimWrite, WriteIdentity, CliDeath
  <2>7. \A h, o : HumanCreate(h, o) => UNCHANGED <<tokens, events>>
    BY DEF HumanCreate
  <2>8. \A o, a : Discover(o, a) => UNCHANGED <<tokens, events>>
    BY DEF Discover
  <2> QED BY <2>1, <2>2, <2>3, <2>4, <2>5, <2>6, <2>7, <2>8 DEF Next, CliStep
<1> QED BY <1>1, <1>2, <1>3, <1>4

\* Where a process at a check-to-write gap came from.
LEMMA WhoCommands ==
  ASSUME TypeOK, OrgInv, RowInv, Next, NEW p \in Clis, cli'[p].pc \in {"register", "claim"}
  PROVE  \/ cli'[p] = cli[p]
         \/ cli'[p].pc = "claim" /\ <<cli'[p].org, cli'[p].agent>> \in Uses
         \/ /\ cli'[p].pc = "register"
            /\ cli'[p].parent # None => <<cli'[p].org, cli'[p].parent>> \in Uses
<1> DEFINE Claims == cli'[p].pc = "claim" /\ <<cli'[p].org, cli'[p].agent>> \in Uses
           Registers == /\ cli'[p].pc = "register"
                        /\ cli'[p].parent # None => <<cli'[p].org, cli'[p].parent>> \in Uses
<1>1. ASSUME NEW q \in Clis, NEW o \in Orgs, NEW a \in Agents, NEW h \in Humans,
             NEW scope \in SUBSET Tools, NEW parent \in Agents \cup {None},
             RegisterCheck(q, o, a, h, scope, parent)
      PROVE  cli'[p] = cli[p] \/ Registers
  <2>1. parent # None => identity[parent] # None /\ agent[parent].org = o /\ parent \in Agents
    BY <1>1 DEF RegisterCheck, MayDelegate
  <2>2. parent # None => agent[parent] # None
    BY <2>1 DEF RowInv
  <2>3. parent # None => <<o, parent>> \in Uses
    BY <2>1, <2>2 DEF OrgInv
  <2> QED BY <1>1, <2>3 DEF RegisterCheck, Start, TypeOK
<1>2. ASSUME NEW q \in Clis, NEW o \in Orgs, NEW a \in Agents, NEW h \in Humans,
             NEW scope \in SUBSET Tools, ClaimCheck(q, o, a, h, scope)
      PROVE  cli'[p] = cli[p] \/ Claims
  <2>1. <<o, a>> \in Uses
    BY <1>2 DEF ClaimCheck, OrgInv
  <2> QED BY <1>2, <2>1 DEF ClaimCheck, Start, TypeOK
<1>3. ASSUME NEW q \in Clis, CliStep(q) \/ CliDeath(q)
      PROVE  cli'[p] = cli[p]
  BY <1>3 DEF CliStep, RegisterWrite, ClaimWrite, WriteIdentity, IssueToken, CliDeath, Idle, TypeOK
<1>4. \A o : OrgCreate(o) => cli' = cli
  BY DEF OrgCreate
<1>5. \A h, o : HumanCreate(h, o) => cli' = cli
  BY DEF HumanCreate
<1>6. \A o, a : Discover(o, a) \/ LogCall(o, a) => cli' = cli
  BY DEF Discover, LogCall
<1> QED BY <1>1, <1>2, <1>3, <1>4, <1>5, <1>6 DEF Next

LEMMA OrgKeeps ==
  ASSUME IndInv, OrgInv, [Next]_idVars
  PROVE  OrgInv'
<1>1. CASE UNCHANGED idVars
  BY <1>1 DEF OrgInv, idVars
<1>2. CASE Next
  <2>1. ASSUME NEW p \in Clis
        PROVE  /\ cli'[p].pc = "register" /\ cli'[p].parent # None =>
                    <<cli'[p].org, cli'[p].parent>> \in Uses
               /\ cli'[p].pc = "claim" => <<cli'[p].org, cli'[p].agent>> \in Uses
    BY <1>2, WhoCommands DEF IndInv, OrgInv
  <2> QED BY <1>2, <2>1, RowsAgree, FilesAgree DEF OrgInv
<1> QED BY <1>1, <1>2

LEMMA OrgInvariance == Spec => []OrgInv
<1>1. Init => OrgInv
  BY DEF Init, OrgInv, Idle
<1>2. IndInv /\ OrgInv /\ [Next]_idVars => OrgInv'
  BY OrgKeeps
<1> QED BY <1>1, <1>2, Invariance, PTL DEF Spec

\* What OrgInv says of an id that one organization has for itself.
LEMMA ExclusiveIds ==
  ASSUME TypeOK, OrgInv, NEW a \in Agents, agent[a] # None
  PROVE  LET o == agent[a].org
             parent == IF identity[a] = None THEN None ELSE identity[a].parent
         IN  /\ Exclusive(a) =>
                  /\ agent[a].owner # None => human[agent[a].owner] = o
                  /\ \A t \in tokens \cup events : t[1] = a => t[2] = o
             /\ parent # None /\ agent[parent] # None /\ Exclusive(parent) => agent[parent].org = o
<1> USE IdentityAssumption
<1> DEFINE o == agent[a].org
           parent == IF identity[a] = None THEN None ELSE identity[a].parent
<1>1. o \in Orgs /\ <<o, a>> \in Uses
  BY DEF TypeOK, OrgInv, AgentRows
<1>2. \A u, b : <<u, b>> \in Uses => u \in Orgs
  OBVIOUS
<1>3. ASSUME Exclusive(a), agent[a].owner # None PROVE human[agent[a].owner] = o
  <2>1. <<human[agent[a].owner], a>> \in Uses
    BY <1>3 DEF OrgInv
  <2> QED BY <1>1, <1>2, <1>3, <2>1 DEF Exclusive
<1>4. ASSUME Exclusive(a), NEW t \in tokens \cup events, t[1] = a PROVE t[2] = o
  <2>1. <<t[2], a>> \in Uses
    BY <1>4 DEF OrgInv
  <2> QED BY <1>1, <1>2, <1>4, <2>1 DEF Exclusive
<1>5. ASSUME parent # None, agent[parent] # None, Exclusive(parent) PROVE agent[parent].org = o
  <2>1. parent \in Agents /\ <<o, parent>> \in Uses
    BY <1>5 DEF TypeOK, OrgInv, IdentityRows
  <2>2. <<agent[parent].org, parent>> \in Uses
    BY <1>5, <2>1 DEF OrgInv
  <2> QED BY <1>2, <1>5, <2>1, <2>2 DEF Exclusive
<1> QED BY <1>3, <1>4, <1>5

\* An agent's owner, tokens and events stay in its organization through every
\* race and death unless another organization uses the agent's id, its parent
\* unless one uses the parent's (registry.py:206-246, 329-352,
\* discovery.py:140-152).
THEOREM OneOrg == Spec => []OneOrganization
<1>1. ASSUME IndInv, OrgInv PROVE OneOrganization
  <2>1. TypeOK
    BY <1>1 DEF IndInv
  <2>2. \A a \in Agents : identity[a] # None /\ identity[a].parent # None =>
          identity[a].parent \in Agents /\ agent[identity[a].parent] # None
    BY <1>1 DEF IndInv, RowInv, TypeOK, IdentityRows
  <2> QED BY <1>1, <2>1, <2>2, ExclusiveIds DEF OneOrganization
<1> QED BY <1>1, Invariance, OrgInvariance, PTL

\* Exports by owner and exports by agent each partition the events they cover,
\* whoever the agents have been handed to since, as far as no other organization
\* uses the agent's id, and hold nothing of another organization in any case
\* (export.py:81-87, app.py's export form).
THEOREM ExportsPartition == Spec => []ExportPartitions
<1> USE IdentityAssumption
<1>1. ASSUME TypeOK, OrgInv PROVE ExportPartitions
  <2> SUFFICES ASSUME NEW o \in Orgs, NEW e \in events
               PROVE  LET byOwner == {h \in ExportOwners(o) : e \in Export(o, None, h)}
                          byAgent == {a \in ExportAgents(o) : e \in Export(o, a, None)}
                      IN  /\ e[2] # o => \A h \in Humans \cup {None} : e \notin Export(o, None, h)
                          /\ e[2] = o /\ Exclusive(e[1]) =>
                               /\ Cardinality(byAgent) = 1
                               /\ Cardinality(byOwner) = IF agent[e[1]].owner = None THEN 0 ELSE 1
    BY DEF ExportPartitions
  <2> DEFINE byOwner == {h \in ExportOwners(o) : e \in Export(o, None, h)}
             byAgent == {a \in ExportAgents(o) : e \in Export(o, a, None)}
             owner == agent[e[1]].owner
  <2>1. o # None /\ e[1] \in Agents /\ e[1] # None
    BY <1>1 DEF TypeOK
  <2>2. agent[e[1]] # None /\ owner \in Humans \cup {None}
    BY <1>1, <2>1 DEF OrgInv, TypeOK, AgentRows
  <2>3. e[2] # o => \A h \in Humans \cup {None} : e \notin Export(o, None, h)
    BY <2>1 DEF Export, Ours
  <2>4. ASSUME e[2] = o, Exclusive(e[1])
        PROVE  /\ Cardinality(byAgent) = 1
               /\ Cardinality(byOwner) = IF owner = None THEN 0 ELSE 1
    <3>0. agent[e[1]].org = o /\ (owner # None => human[owner] = o)
      BY <1>1, <2>1, <2>2, <2>4, ExclusiveIds
    <3>1. byAgent = {e[1]}
      <4>1. e[1] \in ExportAgents(o)
        BY <2>1, <2>2, <3>0 DEF ExportAgents, ListAgents, RowsOf, Ours
      <4>2. e \in Export(o, e[1], None)
        BY <2>4 DEF Export, Ours
      <4>3. \A a \in ExportAgents(o) : e \in Export(o, a, None) => a = e[1]
        BY <1>1 DEF Export, ExportAgents, ListAgents, RowsOf
      <4> QED BY <4>1, <4>2, <4>3
    <3>2. Cardinality(byAgent) = 1
      BY <3>1, FS_Singleton
    <3>3. CASE owner = None
      <4>1. \A h \in Humans : e \notin Export(o, None, h)
        BY <2>1, <3>3 DEF Export
      <4>2. byOwner = {}
        BY <4>1 DEF ExportOwners
      <4>3. Cardinality(byOwner) = 0
        BY <4>2, FS_EmptySet
      <4> HIDE DEF byOwner, byAgent
      <4> QED BY <3>2, <3>3, <4>3
    <3>4. CASE owner # None
      <4>1. owner \in Humans /\ human[owner] = o
        BY <2>2, <3>0, <3>4
      <4>2. owner \in ExportOwners(o) /\ e \in Export(o, None, owner)
        BY <2>1, <2>2, <2>4, <4>1 DEF ExportOwners, Export, Ours
      <4>3. \A h \in Humans : e \in Export(o, None, h) => h = owner
        BY <2>1 DEF Export
      <4>4. byOwner = {owner}
        BY <4>2, <4>3 DEF ExportOwners
      <4>5. Cardinality(byOwner) = 1
        BY <4>4, FS_Singleton
      <4> HIDE DEF byOwner, byAgent
      <4> QED BY <3>2, <3>4, <4>5
    <3> QED BY <3>3, <3>4
  <2> HIDE DEF byOwner, byAgent
  <2>5. /\ e[2] # o => \A h \in Humans \cup {None} : e \notin Export(o, None, h)
        /\ e[2] = o /\ Exclusive(e[1]) =>
             /\ Cardinality(byAgent) = 1
             /\ Cardinality(byOwner) = IF owner = None THEN 0 ELSE 1
    BY <2>3, <2>4
  <2> QED BY <2>5 DEF byOwner, byAgent
<1> QED BY <1>1, OrgInvariance, TypeCorrect, PTL

-------------------------------------------------------------------------------
(* Induction over the naturals, for the recursive functions of Console.     *)

\* Every nonempty set of naturals has a least one.
LEMMA LeastNatural ==
  ASSUME NEW T \in SUBSET Nat, T # {}
  PROVE  \E m \in T : \A k \in T : m <= k
<1> DEFINE R == OpToRel(<, Nat)
<1>1. IsWellFoundedOn(R, Nat)
  BY NatLessThanWellFounded
<1>2. R = {ss \in Nat \X Nat : ss[1] < ss[2]}
  BY DEF OpToRel
<1> HIDE DEF R
<1>3. \E x \in T : \A y \in T : ~ (<<y, x>> \in R)
  BY <1>1, WFMin
<1>4. PICK x \in T : \A y \in T : <<y, x>> \notin R
  BY <1>3
<1>5. ASSUME NEW y \in T, y < x PROVE FALSE
  <2>1. <<y, x>> \in Nat \X Nat
    BY <1>4
  <2>2. <<y, x>>[1] < <<y, x>>[2]
    BY <1>5
  <2>3. <<y, x>> \in R
    BY <1>2, <2>1, <2>2
  <2> QED BY <1>4, <2>3
<1>6. \A y \in T : x <= y
  BY <1>4, <1>5
<1> QED BY <1>4, <1>6

\* Induction, for a set of naturals in place of a predicate.
LEMMA InductionSet ==
  ASSUME NEW P \in SUBSET Nat, 0 \in P, \A n \in P : n + 1 \in P
  PROVE  P = Nat
<1> SUFFICES ASSUME P # Nat PROVE FALSE
  OBVIOUS
<1> DEFINE T == Nat \ P
<1>1. T \in SUBSET Nat /\ T # {}
  OBVIOUS
<1>2. PICK m \in T : \A k \in T : m <= k
  BY <1>1, LeastNatural
<1>3. m # 0 /\ m - 1 \in Nat /\ m - 1 \notin T
  BY <1>2
<1> QED BY <1>3

\* What a step makes of a value, any number of times.
LEMMA Iterates ==
  ASSUME NEW X, NEW x0 \in X, NEW g \in [X -> X]
  PROVE  \E h \in [Nat -> X] : h[0] = x0 /\ \A n \in Nat : h[n + 1] = g[h[n]]
<1> DEFINE Run(n, f) == /\ f \in [0..n -> X] /\ f[0] = x0
                        /\ \A i \in 0..(n - 1) : f[i + 1] = g[f[i]]
           Long == {n \in Nat : \E f : Run(n, f)}
<1>1. Long = Nat
  <2>1. 0 \in Long
    <3> DEFINE f == [i \in 0..0 |-> x0]
    <3>1. Run(0, f)
      OBVIOUS
    <3> QED BY <3>1
  <2>2. ASSUME NEW n \in Long PROVE n + 1 \in Long
    <3>1. PICK f : Run(n, f)
      BY <2>2
    <3> DEFINE e == [i \in 0..(n + 1) |-> IF i = n + 1 THEN g[f[n]] ELSE f[i]]
    <3>2. e \in [0..(n + 1) -> X] /\ e[0] = x0
      BY <3>1
    <3>3. ASSUME NEW i \in 0..n PROVE e[i + 1] = g[e[i]]
      BY <3>1
    <3>4. Run(n + 1, e)
      <4>1. 0..((n + 1) - 1) = 0..n
        OBVIOUS
      <4> HIDE DEF e
      <4> QED BY <3>2, <3>3, <4>1
    <3> HIDE DEF e, Run
    <3> QED BY <3>4
  <2>3. Long \in SUBSET Nat
    OBVIOUS
  <2> HIDE DEF Long
  <2> QED BY <2>1, <2>2, <2>3, InductionSet
<1>2. ASSUME NEW n \in Nat, NEW m \in Nat, NEW e, NEW f, Run(n, e), Run(m, f)
      PROVE  \A i \in Nat : i <= n /\ i <= m => e[i] = f[i]
  <2> DEFINE Same == {i \in Nat : i <= n /\ i <= m => e[i] = f[i]}
  <2>1. 0 \in Same
    BY <1>2
  <2>2. ASSUME NEW i \in Same PROVE i + 1 \in Same
    BY <1>2, <2>2
  <2>3. Same \in SUBSET Nat
    OBVIOUS
  <2>4. Same = Nat
    <3> HIDE DEF Same
    <3> QED BY <2>1, <2>2, <2>3, InductionSet
  <2> QED BY <2>4
<1> DEFINE r(n) == CHOOSE f : Run(n, f)
           h == [n \in Nat |-> r(n)[n]]
<1>3. ASSUME NEW n \in Nat PROVE Run(n, r(n))
  <2>1. \E f : Run(n, f)
    BY <1>1
  <2> HIDE DEF Run
  <2> QED BY <2>1
<1> HIDE DEF r
<1>4. \A n \in Nat : r(n)[n] \in X
  BY <1>3
<1>5. h \in [Nat -> X]
  BY <1>4
<1>6. h[0] = x0
  BY <1>3
<1>7. ASSUME NEW n \in Nat PROVE h[n + 1] = g[h[n]]
  <2>1. r(n + 1)[n + 1] = g[r(n + 1)[n]]
    BY <1>3
  <2>2. r(n + 1)[n] = r(n)[n]
    <3>1. Run(n, r(n)) /\ Run(n + 1, r(n + 1))
      BY <1>3
    <3> HIDE DEF Run
    <3> QED BY <3>1, <1>2
  <2> QED BY <2>1, <2>2
<1> HIDE DEF h
<1> QED BY <1>5, <1>6, <1>7

-------------------------------------------------------------------------------
(* The walks of queries.py, round by round.                                 *)

\* What Climb chooses.
IsClimb(f, start, o) == f = [n \in Nat |-> IF n = 0 THEN <<>> ELSE OneUp(f[n - 1], start, o)]

\* A round leaves a chain of agents.
LEMMA OneUpGrows ==
  ASSUME NEW start, NEW o, NEW c \in Seq(Agents)
  PROVE  OneUp(c, start, o) \in Seq(Agents)
BY DEF OneUp, Joined, RowsOf

\* _ancestor_chain starts empty and takes one round after the other
\* (queries.py:176-218).
LEMMA ClimbSteps ==
  ASSUME NEW start, NEW o
  PROVE  /\ Climb(start, o)[0] = <<>>
         /\ \A n \in Nat : /\ Climb(start, o)[n] \in Seq(Agents)
                           /\ Climb(start, o)[n + 1] = OneUp(Climb(start, o)[n], start, o)
<1> DEFINE X == Seq(Agents)
           g == [c \in X |-> OneUp(c, start, o)]
           none == <<>>
<1>1. g \in [X -> X] /\ none \in X
  BY OneUpGrows
<1>2. PICK h \in [Nat -> X] : h[0] = none /\ \A n \in Nat : h[n + 1] = g[h[n]]
  <2> HIDE DEF X, g, none
  <2> QED BY <1>1, Iterates
<1>3. \A n \in Nat : h[n + 1] = OneUp(h[n], start, o)
  BY <1>2
<1> HIDE DEF X, g
<1>4. \A n \in Nat : h[n] = IF n = 0 THEN <<>> ELSE OneUp(h[n - 1], start, o)
  <2> SUFFICES ASSUME NEW n \in Nat, n # 0 PROVE h[n] = OneUp(h[n - 1], start, o)
    BY <1>2
  <2>1. n - 1 \in Nat /\ (n - 1) + 1 = n
    OBVIOUS
  <2> QED BY <1>3, <2>1
<1>5. IsClimb(h, start, o)
  BY <1>2, <1>4 DEF IsClimb
<1>6. Climb(start, o) = CHOOSE f : IsClimb(f, start, o)
  BY DEF Climb, IsClimb
<1> DEFINE f == Climb(start, o)
<1>7. IsClimb(f, start, o)
  BY <1>5, <1>6
<1> HIDE DEF f
<1>8. f[0] = <<>> /\ \A n \in Nat : f[n + 1] = OneUp(f[n], start, o)
  <2>1. \A n \in Nat : f[n] = IF n = 0 THEN <<>> ELSE OneUp(f[n - 1], start, o)
    BY <1>7 DEF IsClimb
  <2>2. \A n \in Nat : n + 1 \in Nat /\ n + 1 # 0 /\ (n + 1) - 1 = n
    OBVIOUS
  <2>3. f[0] = <<>>
    BY <2>1
  <2>4. ASSUME NEW n \in Nat PROVE f[n + 1] = OneUp(f[n], start, o)
    <3>1. f[n + 1] = IF n + 1 = 0 THEN <<>> ELSE OneUp(f[(n + 1) - 1], start, o)
      BY <2>1, <2>2
    <3> QED BY <2>2, <3>1
  <2> QED BY <2>3, <2>4
<1>9. \A n \in Nat : f[n] \in Seq(Agents)
  <2> DEFINE P == {n \in Nat : f[n] \in Seq(Agents)}
  <2>1. 0 \in P
    <3>1. f[0] \in Seq(Agents)
      BY <1>8
    <3> QED BY <3>1
  <2>2. ASSUME NEW n \in P PROVE n + 1 \in P
    <3>1. n \in Nat /\ n + 1 \in Nat /\ f[n] \in Seq(Agents)
      OBVIOUS
    <3>2. f[n + 1] = OneUp(f[n], start, o)
      BY <1>8, <3>1
    <3>3. OneUp(f[n], start, o) \in Seq(Agents)
      BY <3>1, OneUpGrows
    <3> QED BY <3>1, <3>2, <3>3
  <2>3. P \in SUBSET Nat
    OBVIOUS
  <2>4. P = Nat
    <3> HIDE DEF P
    <3> QED BY <2>1, <2>2, <2>3, InductionSet
  <2> QED BY <2>4
<1> QED BY <1>8, <1>9 DEF f

\* A tree's agents by root and _seen_agent_ids, and what DelegationChildren
\* chooses.
Trees == [Agents -> [SUBSET Agents -> SUBSET Agents]]

IsTree(f, o) ==
  f = [depth \in Nat |->
         [a \in Agents |-> [seen \in SUBSET Agents |->
            IF depth = 0 THEN {} ELSE OneLevel(f[depth - 1], a, seen, o)]]]

\* A level leaves trees of agents.
LEMMA OneLevelGrows ==
  ASSUME NEW o, NEW t \in Trees, NEW a \in Agents, NEW seen \in SUBSET Agents
  PROVE  OneLevel(t, a, seen, o) \in SUBSET Agents
<1>1. ChildrenOf(a, o) \subseteq Agents
  BY DEF ChildrenOf, Joined, RowsOf
<1>2. seen \cup {a} \in SUBSET Agents
  OBVIOUS
<1>3. \A b \in ChildrenOf(a, o) : t[b][seen \cup {a}] \in SUBSET Agents
  BY <1>1, <1>2 DEF Trees
<1> QED BY <1>1, <1>3 DEF OneLevel

\* _delegation_children stops at depth zero and takes one level after the
\* other (queries.py:221-272).
LEMMA TreeSteps ==
  ASSUME NEW o
  PROVE  /\ \A a \in Agents, seen \in SUBSET Agents : DelegationChildren(o)[0][a][seen] = {}
         /\ \A n \in Nat : \A a \in Agents, seen \in SUBSET Agents :
              DelegationChildren(o)[n + 1][a][seen] =
                OneLevel(DelegationChildren(o)[n], a, seen, o)
<1> DEFINE Level(t) == [a \in Agents |-> [seen \in SUBSET Agents |-> OneLevel(t, a, seen, o)]]
           x0 == [a \in Agents |-> [seen \in SUBSET Agents |-> {}]]
           g == [t \in Trees |-> Level(t)]
<1>1. x0 \in Trees
  BY DEF Trees
<1>2. g \in [Trees -> Trees]
  <2>1. ASSUME NEW t \in Trees PROVE Level(t) \in Trees
    BY OneLevelGrows DEF Trees
  <2> QED BY <2>1
<1>3. PICK h \in [Nat -> Trees] : h[0] = x0 /\ \A n \in Nat : h[n + 1] = g[h[n]]
  <2> HIDE DEF x0, g
  <2> QED BY <1>1, <1>2, Iterates
<1>4. \A n \in Nat : h[n + 1] = Level(h[n])
  BY <1>3
<1> HIDE DEF g
<1> DEFINE Body(f, n) == [a \in Agents |-> [seen \in SUBSET Agents |->
                            IF n = 0 THEN {} ELSE OneLevel(f[n - 1], a, seen, o)]]
<1>5. \A n \in Nat : h[n] = Body(h, n)
  <2>1. h[0] = Body(h, 0)
    BY <1>3
  <2>2. ASSUME NEW n \in Nat, n # 0 PROVE h[n] = Body(h, n)
    <3>1. n - 1 \in Nat /\ (n - 1) + 1 = n
      BY <2>2
    <3>2. h[n] = Level(h[n - 1])
      BY <1>4, <3>1
    <3>3. Body(h, n) = Level(h[n - 1])
      BY <2>2
    <3> QED BY <3>2, <3>3
  <2> QED BY <2>1, <2>2
<1>6. IsTree(h, o)
  <2> HIDE DEF Body
  <2>1. h = [n \in Nat |-> Body(h, n)]
    BY <1>3, <1>5
  <2> QED BY <2>1 DEF IsTree, Body
<1>7. DelegationChildren(o) = CHOOSE f : IsTree(f, o)
  BY DEF DelegationChildren, IsTree
<1> DEFINE f == DelegationChildren(o)
<1>8. IsTree(f, o)
  BY <1>6, <1>7
<1> HIDE DEF f
<1>9. \A n \in Nat : f[n] = Body(f, n)
  <2>1. f = [n \in Nat |-> Body(f, n)]
    BY <1>8 DEF IsTree
  <2> HIDE DEF Body
  <2> QED BY <2>1
<1>10. ASSUME NEW a \in Agents, NEW seen \in SUBSET Agents PROVE f[0][a][seen] = {}
  <2>1. f[0] = Body(f, 0)
    <3> HIDE DEF Body
    <3> QED BY <1>9
  <2>2. Body(f, 0)[a][seen] = {}
    OBVIOUS
  <2> HIDE DEF Body
  <2> QED BY <2>1, <2>2
<1>11. ASSUME NEW n \in Nat, NEW a \in Agents, NEW seen \in SUBSET Agents
       PROVE  f[n + 1][a][seen] = OneLevel(f[n], a, seen, o)
  <2>1. n + 1 \in Nat /\ n + 1 # 0 /\ (n + 1) - 1 = n
    OBVIOUS
  <2>2. f[n + 1] = Body(f, n + 1)
    BY <1>9, <2>1
  <2>3. Body(f, n + 1)[a][seen] = IF n + 1 = 0 THEN {} ELSE OneLevel(f[(n + 1) - 1], a, seen, o)
    OBVIOUS
  <2> HIDE DEF Body
  <2> QED BY <2>1, <2>2, <2>3
<1> QED BY <1>10, <1>11 DEF f

-------------------------------------------------------------------------------
(* Ways up.                                                                 *)

\* A way up the delegation graph from a within o: parent after parent, no
\* identity twice.
Upward(a, p, o) ==
  /\ p \in Seq(Agents)
  /\ \A i \in 1..Len(p) : p[i] \in Joined(o)
  /\ Len(p) > 0 => p[1] = ParentOf(a)
  /\ \A i \in 1..(Len(p) - 1) : p[i + 1] = ParentOf(p[i])
  /\ \A i, j \in 1..Len(p) : p[i] = p[j] => i = j

\* Where a way up from a would go next, and that the chain ends there.
NextUp(a, c) == IF c = <<>> THEN ParentOf(a) ELSE ParentOf(Last(c))
Stopped(a, c, o) == NextUp(a, c) \notin Joined(o) \ Range(c)

\* The elements of a sequence.
LEMMA RangeIsIndexed ==
  ASSUME NEW S, NEW p \in Seq(S)
  PROVE  Range(p) = {p[i] : i \in 1..Len(p)} /\ Range(p) \subseteq S /\ Len(p) \in Nat
BY DEF Range

\* One more parent that is not on the way yet.
LEMMA PathGrows ==
  ASSUME NEW a, NEW o, NEW c, Upward(a, c, o), NextUp(a, c) \in Joined(o) \ Range(c)
  PROVE  Upward(a, Append(c, NextUp(a, c)), o)
<1> DEFINE x == NextUp(a, c)
           d == Append(c, x)
<1>1. c \in Seq(Agents) /\ Len(c) \in Nat /\ x \in Agents /\ x \in Joined(o) /\ x \notin Range(c)
  BY DEF Upward, Joined, RowsOf
<1>2. c = <<>> <=> Len(c) = 0
  BY <1>1, EmptySeq
<1>3. x = IF Len(c) = 0 THEN ParentOf(a) ELSE ParentOf(c[Len(c)])
  BY <1>2 DEF NextUp, Last
<1> HIDE DEF x
<1>4. /\ d \in Seq(Agents) /\ Len(d) = Len(c) + 1 /\ d[Len(c) + 1] = x
      /\ \A i \in 1..Len(c) : d[i] = c[i]
  BY <1>1
<1> HIDE DEF d
<1>5. \A i \in 1..Len(d) : d[i] \in Joined(o)
  BY <1>1, <1>4 DEF Upward
<1>6. d[1] = ParentOf(a)
  BY <1>1, <1>3, <1>4 DEF Upward
<1>7. ASSUME NEW i \in 1..(Len(d) - 1) PROVE d[i + 1] = ParentOf(d[i])
  <2>1. CASE i = Len(c)
    BY <2>1, <1>1, <1>3, <1>4
  <2>2. CASE i # Len(c)
    <3>1. i \in 1..(Len(c) - 1) /\ i + 1 \in 1..Len(c) /\ i \in 1..Len(c)
      BY <2>2, <1>1, <1>4
    <3> QED BY <3>1, <1>4 DEF Upward
  <2> QED BY <2>1, <2>2
<1>8. \A i \in 1..Len(c) : c[i] # x
  BY <1>1, RangeIsIndexed
<1>9. ASSUME NEW i \in 1..Len(d), NEW j \in 1..Len(d), d[i] = d[j] PROVE i = j
  <2>1. CASE i \in 1..Len(c) /\ j \in 1..Len(c)
    BY <2>1, <1>4, <1>9 DEF Upward
  <2>2. CASE i = Len(c) + 1 /\ j \in 1..Len(c)
    BY <2>2, <1>1, <1>4, <1>8, <1>9
  <2>3. CASE j = Len(c) + 1 /\ i \in 1..Len(c)
    BY <2>3, <1>1, <1>4, <1>8, <1>9
  <2>4. \A k \in 1..Len(d) : k \in 1..Len(c) \/ k = Len(c) + 1
    BY <1>1, <1>4
  <2> QED BY <2>1, <2>2, <2>3, <2>4
<1>10. Upward(a, d, o)
  BY <1>4, <1>5, <1>6, <1>7, <1>9 DEF Upward
<1> QED BY <1>10 DEF d, x

\* A round of the loop takes that step, unless the way has stopped.
LEMMA OneUpIs ==
  ASSUME NEW a, NEW o, NEW c
  PROVE  OneUp(c, ParentOf(a), o) =
           IF Stopped(a, c, o) THEN c ELSE Append(c, NextUp(a, c))
BY DEF OneUp, Stopped, NextUp

\* The breadcrumb's chain is a way up, complete unless max_hops cut it.
LEMMA ChainIsPath ==
  ASSUME NEW a, NEW o, NEW n \in Nat
  PROVE  LET c == Climb(ParentOf(a), o)[n] IN
           Upward(a, c, o) /\ Len(c) <= n /\ (Len(c) = n \/ Stopped(a, c, o))
<1> DEFINE f == Climb(ParentOf(a), o)
           Good(k) == Upward(a, f[k], o) /\ Len(f[k]) <= k /\ (Len(f[k]) = k \/ Stopped(a, f[k], o))
           P == {k \in Nat : Good(k)}
<1>1. f[0] = <<>> /\ \A k \in Nat : f[k] \in Seq(Agents) /\ f[k + 1] = OneUp(f[k], ParentOf(a), o)
  BY ClimbSteps
<1> HIDE DEF f
<1>2. 0 \in P
  <2>1. <<>> \in Seq(Agents) /\ Len(<<>>) = 0
    BY EmptySeq
  <2>2. Upward(a, <<>>, o)
    BY <2>1 DEF Upward
  <2> QED BY <1>1, <2>1, <2>2
<1>3. ASSUME NEW k \in P PROVE k + 1 \in P
  <2>1. k \in Nat /\ k + 1 \in Nat /\ Good(k) /\ f[k] \in Seq(Agents) /\ Len(f[k]) \in Nat
    <3>1. k \in Nat /\ Good(k)
      <4> HIDE DEF Good
      <4> QED OBVIOUS
    <3>2. f[k] \in Seq(Agents)
      BY <1>1, <3>1
    <3> HIDE DEF Good
    <3> QED BY <3>1, <3>2
  <2>2. f[k + 1] = IF Stopped(a, f[k], o) THEN f[k] ELSE Append(f[k], NextUp(a, f[k]))
    <3>1. k \in Nat
      OBVIOUS
    <3>2. f[k + 1] = OneUp(f[k], ParentOf(a), o)
      BY <1>1, <3>1
    <3> QED BY <3>2, OneUpIs
  <2>3. CASE Stopped(a, f[k], o)
    <3>1. f[k + 1] = f[k]
      BY <2>2, <2>3
    <3> QED BY <2>1, <2>3, <3>1
  <2>4. CASE ~Stopped(a, f[k], o)
    <3>1. f[k + 1] = Append(f[k], NextUp(a, f[k]))
      BY <2>2, <2>4
    <3>2. Upward(a, f[k + 1], o)
      BY <2>1, <2>4, <3>1, PathGrows DEF Stopped
    <3>3. Len(f[k]) = k
      BY <2>1, <2>4
    <3>4. NextUp(a, f[k]) \in Agents
      BY <2>4 DEF Stopped, Joined, RowsOf
    <3>5. Len(f[k + 1]) = Len(f[k]) + 1
      BY <2>1, <3>1, <3>4
    <3> QED BY <2>1, <3>2, <3>3, <3>5
  <2> QED BY <2>3, <2>4
<1>4. P \in SUBSET Nat
  OBVIOUS
<1> HIDE DEF Good
<1>5. P = Nat
  <2> HIDE DEF P
  <2> QED BY <1>2, <1>3, <1>4, InductionSet
<1>6. Good(n)
  BY <1>5
<1> QED BY <1>6 DEF Good, f

\* There is only one way up.
LEMMA PathsAgree ==
  ASSUME NEW a, NEW o, NEW p, NEW q, Upward(a, p, o), Upward(a, q, o)
  PROVE  \A i \in 1..Len(p) : i \in 1..Len(q) => p[i] = q[i]
<1> DEFINE Same(i) == i + 1 \in 1..Len(p) /\ i + 1 \in 1..Len(q) => p[i + 1] = q[i + 1]
           P == {i \in Nat : Same(i)}
<1>1. Len(p) \in Nat /\ Len(q) \in Nat
  BY DEF Upward
<1>2. 0 \in P
  BY <1>1 DEF Upward
<1>3. ASSUME NEW k \in P PROVE k + 1 \in P
  <2> SUFFICES ASSUME (k + 1) + 1 \in 1..Len(p), (k + 1) + 1 \in 1..Len(q)
               PROVE  p[(k + 1) + 1] = q[(k + 1) + 1]
    OBVIOUS
  <2>1. /\ k + 1 \in 1..(Len(p) - 1) /\ k + 1 \in 1..(Len(q) - 1)
        /\ k + 1 \in 1..Len(p) /\ k + 1 \in 1..Len(q)
    BY <1>1
  <2>2. p[k + 1] = q[k + 1]
    BY <2>1
  <2>3. p[(k + 1) + 1] = ParentOf(p[k + 1]) /\ q[(k + 1) + 1] = ParentOf(q[k + 1])
    BY <2>1 DEF Upward
  <2> QED BY <2>2, <2>3
<1>4. P \in SUBSET Nat
  OBVIOUS
<1>5. P = Nat
  <2> HIDE DEF P
  <2> QED BY <1>2, <1>3, <1>4, InductionSet
<1> HIDE DEF P
<1> SUFFICES ASSUME NEW i \in 1..Len(p), i \in 1..Len(q) PROVE p[i] = q[i]
  OBVIOUS
<1>6. i - 1 \in Nat /\ (i - 1) + 1 = i
  BY <1>1
<1>7. Same(i - 1)
  BY <1>5, <1>6 DEF P
<1> QED BY <1>6, <1>7

\* No way up within the limit is longer than the chain.
LEMMA ChainIsLongest ==
  ASSUME NEW a, NEW o, NEW n \in Nat, NEW p, Upward(a, p, o), Len(p) <= n
  PROVE  Len(p) <= Len(Climb(ParentOf(a), o)[n])
<1> DEFINE c == Climb(ParentOf(a), o)[n]
<1>1. Upward(a, c, o) /\ Len(c) <= n /\ (Len(c) = n \/ Stopped(a, c, o))
  BY ChainIsPath
<1> HIDE DEF c
<1> SUFFICES ASSUME ~(Len(p) <= Len(c)) PROVE FALSE
  BY DEF c
<1>2. c \in Seq(Agents) /\ p \in Seq(Agents) /\ Len(p) \in Nat /\ Len(c) \in Nat
  BY <1>1 DEF Upward
<1>3. Len(c) + 1 \in 1..Len(p) /\ Stopped(a, c, o)
  BY <1>1, <1>2
<1>4. \A i \in 1..Len(c) : p[i] = c[i] /\ i \in 1..Len(p)
  BY <1>1, <1>2, PathsAgree
<1>5. p[Len(c) + 1] = NextUp(a, c)
  <2>1. CASE c = <<>>
    BY <2>1, <1>2, <1>3 DEF NextUp, Upward
  <2>2. CASE c # <<>>
    <3>1. Len(c) \in 1..Len(c) /\ Len(c) \in 1..(Len(p) - 1)
      BY <1>2, <1>3, <2>2, EmptySeq
    <3>2. p[Len(c) + 1] = ParentOf(p[Len(c)])
      BY <3>1 DEF Upward
    <3> QED BY <2>2, <1>4, <3>1, <3>2 DEF NextUp, Last
  <2> QED BY <2>1, <2>2
<1>6. p[Len(c) + 1] \in Joined(o)
  BY <1>3 DEF Upward
<1>7. PICK i \in 1..Len(c) : c[i] = p[Len(c) + 1]
  BY <1>2, <1>3, <1>5, <1>6, RangeIsIndexed DEF Stopped
<1>8. p[i] = p[Len(c) + 1] /\ i \in 1..Len(p)
  BY <1>4, <1>7
<1>9. i = Len(c) + 1
  BY <1>3, <1>8 DEF Upward
<1> QED BY <1>2, <1>9

\* The way up from x ends at b within n steps and avoids `seen`.
Reaches(x, p, b, n, seen, o) ==
  /\ Upward(x, p, o)
  /\ Len(p) \in 1..n
  /\ p[Len(p)] = b
  /\ Range(p) \cap seen = {}

\* A way up to y that avoids y's parent goes on to it.
LEMMA ReachesLonger ==
  ASSUME NEW x, NEW p, NEW y, NEW b, NEW n \in Nat, NEW seen, NEW o,
         Reaches(x, p, y, n, seen \cup {b}, o), b \in Joined(o), ParentOf(y) = b, b \notin seen
  PROVE  Reaches(x, Append(p, b), b, n + 1, seen, o)
<1> DEFINE d == Append(p, b)
<1>1. p \in Seq(Agents) /\ Len(p) \in 1..n /\ b \in Agents /\ p # <<>>
  BY EmptySeq DEF Reaches, Upward, Joined, RowsOf
<1>2. NextUp(x, p) = b
  BY <1>1 DEF NextUp, Last, Reaches
<1>3. b \notin Range(p)
  BY DEF Reaches
<1>4. Upward(x, d, o)
  BY <1>2, <1>3, PathGrows DEF Reaches
<1>5. /\ d \in Seq(Agents) /\ Len(d) = Len(p) + 1 /\ d[Len(p) + 1] = b
      /\ \A i \in 1..Len(p) : d[i] = p[i]
  BY <1>1
<1> HIDE DEF d
<1>6. Range(d) = {d[i] : i \in 1..Len(d)} /\ Range(p) = {p[i] : i \in 1..Len(p)}
  BY <1>1, <1>5, RangeIsIndexed
<1>7. ASSUME NEW i \in 1..Len(d) PROVE d[i] \notin seen
  <2>1. CASE i = Len(p) + 1
    BY <1>5, <2>1
  <2>2. CASE i \in 1..Len(p)
    <3>1. p[i] \in Range(p)
      BY <1>6, <2>2
    <3> QED BY <1>5, <2>2, <3>1 DEF Reaches
  <2> QED BY <2>1, <2>2, <1>1, <1>5
<1>8. Range(d) \cap seen = {}
  BY <1>6, <1>7
<1>9. Len(d) \in 1..(n + 1) /\ d[Len(d)] = b
  BY <1>1, <1>5
<1> QED BY <1>4, <1>8, <1>9 DEF Reaches, d

\* The first steps of a way up are one.
LEMMA PrefixIsPath ==
  ASSUME NEW x, NEW p, NEW o, Upward(x, p, o), NEW m \in 0..Len(p)
  PROVE  LET q == SubSeq(p, 1, m) IN
           /\ Upward(x, q, o) /\ Len(q) = m
           /\ \A i \in 1..m : q[i] = p[i]
<1> DEFINE q == SubSeq(p, 1, m)
<1>1. p \in Seq(Agents) /\ Len(p) \in Nat
  BY DEF Upward
<1>2. q \in Seq(Agents) /\ Len(q) = m /\ \A i \in 1..m : q[i] = p[i] /\ i \in 1..Len(p)
  BY <1>1
<1> HIDE DEF q
<1>3. \A i \in 1..Len(q) : q[i] \in Joined(o)
  BY <1>2 DEF Upward
<1>4. Len(q) > 0 => q[1] = ParentOf(x)
  BY <1>1, <1>2 DEF Upward
<1>5. ASSUME NEW i \in 1..(Len(q) - 1) PROVE q[i + 1] = ParentOf(q[i])
  <2>1. i \in 1..m /\ i + 1 \in 1..m /\ i \in 1..(Len(p) - 1)
    BY <1>1, <1>2
  <2> QED BY <1>2, <2>1 DEF Upward
<1>6. \A i, j \in 1..Len(q) : q[i] = q[j] => i = j
  BY <1>2 DEF Upward
<1>7. Upward(x, q, o)
  BY <1>2, <1>3, <1>4, <1>5, <1>6 DEF Upward
<1> QED BY <1>2, <1>7 DEF q

\* A way up to b of two steps or more came by one of b's children.
LEMMA ReachesShorter ==
  ASSUME NEW x, NEW p, NEW b, NEW n \in Nat, NEW seen, NEW o,
         Reaches(x, p, b, n + 1, seen, o), Len(p) > 1
  PROVE  LET q == SubSeq(p, 1, Len(p) - 1)
             y == p[Len(p) - 1]
         IN  Reaches(x, q, y, n, seen \cup {b}, o) /\ y \in Joined(o) /\ ParentOf(y) = b
<1> DEFINE m == Len(p) - 1
           q == SubSeq(p, 1, m)
           y == p[m]
<1>1. p \in Seq(Agents) /\ Len(p) \in Nat /\ Len(p) \in 1..(n + 1)
  BY DEF Reaches, Upward
<1>2. m \in 1..n /\ m \in 0..Len(p) /\ m \in 1..(Len(p) - 1) /\ m + 1 = Len(p) /\ m \in 1..Len(p)
  BY <1>1
<1> HIDE DEF m
<1>3. Upward(x, q, o) /\ Len(q) = m /\ \A i \in 1..m : q[i] = p[i]
  BY <1>2, PrefixIsPath DEF Reaches
<1>4. y \in Joined(o) /\ ParentOf(y) = p[m + 1]
  BY <1>2 DEF Reaches, Upward
<1> HIDE DEF q
<1>5. Range(q) = {q[i] : i \in 1..Len(q)} /\ Range(p) = {p[i] : i \in 1..Len(p)}
  BY <1>1, <1>3, RangeIsIndexed DEF Upward
<1>6. ASSUME NEW i \in 1..m PROVE q[i] \notin seen \cup {b}
  <2>1. i \in 1..Len(p) /\ i # Len(p) /\ Len(p) \in 1..Len(p) /\ q[i] = p[i]
    BY <1>1, <1>2, <1>3
  <2>2. p[i] \notin seen
    BY <2>1, <1>5 DEF Reaches
  <2>3. p[i] # p[Len(p)]
    BY <2>1 DEF Reaches, Upward
  <2> QED BY <2>1, <2>2, <2>3 DEF Reaches
<1>7. Range(q) \cap (seen \cup {b}) = {}
  BY <1>3, <1>5, <1>6
<1>8. q[Len(q)] = y
  BY <1>2, <1>3
<1>9. Reaches(x, q, y, n, seen \cup {b}, o)
  BY <1>2, <1>3, <1>7, <1>8 DEF Reaches
<1> QED BY <1>2, <1>4, <1>9 DEF Reaches, q, m

\* An agent without an identity has nobody below it.
LEMMA NoIdentityNoTree ==
  ASSUME NEW o, NEW n \in Nat, NEW b \in Agents, identity[b] = None, NEW seen \in SUBSET Agents
  PROVE  DelegationChildren(o)[n][b][seen] = {}
<1>1. CASE n = 0
  BY <1>1, TreeSteps
<1>2. CASE n # 0
  <2>1. n - 1 \in Nat /\ (n - 1) + 1 = n
    BY <1>2
  <2>2. DelegationChildren(o)[n][b][seen] = OneLevel(DelegationChildren(o)[n - 1], b, seen, o)
    BY <2>1, TreeSteps
  <2>3. ChildrenOf(b, o) = {}
    BY DEF ChildrenOf
  <2>4. OneLevel(DelegationChildren(o)[n - 1], b, seen, o) = {}
    BY <2>3 DEF OneLevel
  <2> QED BY <2>2, <2>4
<1> QED BY <1>1, <1>2

\* The tree below b holds exactly those whose way up ends at b.
LEMMA TreeIsPaths ==
  ASSUME NEW o, NEW n \in Nat
  PROVE  \A b \in Joined(o), seen \in SUBSET Agents : \A x :
           x \in DelegationChildren(o)[n][b][seen] <=>
             x \in Joined(o) /\ \E p : Reaches(x, p, b, n, seen, o)
<1> DEFINE f == DelegationChildren(o)
           Good(k) == \A b \in Joined(o), seen \in SUBSET Agents : \A x :
                        x \in f[k][b][seen] <=>
                          x \in Joined(o) /\ \E p : Reaches(x, p, b, k, seen, o)
           P == {k \in Nat : Good(k)}
<1>0. Joined(o) \subseteq Agents
  BY DEF Joined, RowsOf
<1>1. /\ \A b \in Agents, seen \in SUBSET Agents : f[0][b][seen] = {}
      /\ \A k \in Nat : \A b \in Agents, seen \in SUBSET Agents :
           f[k + 1][b][seen] = OneLevel(f[k], b, seen, o)
  BY TreeSteps
<1> HIDE DEF f
<1>2. Good(0)
  <2>1. \A x, p, b, seen : ~Reaches(x, p, b, 0, seen, o)
    BY DEF Reaches
  <2> QED BY <1>0, <1>1, <2>1
<1>3. ASSUME NEW k \in Nat, Good(k) PROVE Good(k + 1)
  <2> SUFFICES ASSUME NEW b \in Joined(o), NEW seen \in SUBSET Agents, NEW x
               PROVE  x \in f[k + 1][b][seen] <=>
                        x \in Joined(o) /\ \E p : Reaches(x, p, b, k + 1, seen, o)
    OBVIOUS
  <2> HIDE DEF Good
  <2>1. b \in Agents /\ identity[b] # None
    BY DEF Joined, RowsOf
  <2>2. f[k + 1][b][seen] = OneLevel(f[k], b, seen, o)
    BY <1>1, <2>1
  <2>3. \A y : y \in ChildrenOf(b, o) <=> y \in Joined(o) /\ ParentOf(y) = b
    BY <2>1 DEF ChildrenOf
  <2>4. seen \cup {b} \in SUBSET Agents
    BY <2>1
  <2>5. ASSUME NEW y \in Joined(o)
        PROVE  x \in f[k][y][seen \cup {b}] <=>
                 x \in Joined(o) /\ \E p : Reaches(x, p, y, k, seen \cup {b}, o)
    BY <1>3, <2>4 DEF Good
  <2>6. ASSUME x \in f[k + 1][b][seen]
        PROVE  x \in Joined(o) /\ \E p : Reaches(x, p, b, k + 1, seen, o)
    <3>1. /\ b \notin seen
          /\ x \in ChildrenOf(b, o) \/ \E y \in ChildrenOf(b, o) : x \in f[k][y][seen \cup {b}]
      <4> DEFINE deeper == {f[k][y][seen \cup {b}] : y \in ChildrenOf(b, o)}
      <4>1. b \notin seen /\ x \in ChildrenOf(b, o) \cup UNION deeper
        BY <2>2, <2>6 DEF OneLevel
      <4> QED BY <4>1
    <3>2. CASE x \in ChildrenOf(b, o)
      <4> DEFINE p == <<b>>
      <4>1. p \in Seq(Agents) /\ Len(p) = 1 /\ p[1] = b
        BY <2>1
      <4> HIDE DEF p
      <4>2. x \in Joined(o) /\ ParentOf(x) = b
        BY <2>3, <3>2
      <4>3. Upward(x, p, o)
        BY <4>1, <4>2 DEF Upward
      <4>4. Range(p) \cap seen = {}
        BY <3>1, <4>1, RangeIsIndexed
      <4>5. Reaches(x, p, b, k + 1, seen, o)
        BY <4>1, <4>3, <4>4 DEF Reaches
      <4> QED BY <4>2, <4>5
    <3>3. CASE \E y \in ChildrenOf(b, o) : x \in f[k][y][seen \cup {b}]
      <4>1. PICK y : y \in Joined(o) /\ ParentOf(y) = b /\ x \in f[k][y][seen \cup {b}]
        BY <2>3, <3>3
      <4>2. PICK p : x \in Joined(o) /\ Reaches(x, p, y, k, seen \cup {b}, o)
        BY <2>5, <4>1
      <4>3. Reaches(x, Append(p, b), b, k + 1, seen, o)
        BY <3>1, <4>1, <4>2, ReachesLonger
      <4> QED BY <4>2, <4>3
    <3> QED BY <3>1, <3>2, <3>3
  <2>7. ASSUME x \in Joined(o), NEW p, Reaches(x, p, b, k + 1, seen, o)
        PROVE  x \in f[k + 1][b][seen]
    <3>1. p \in Seq(Agents) /\ Len(p) \in 1..(k + 1) /\ p[Len(p)] = b /\ b \in Range(p)
      <4>1. p \in Seq(Agents) /\ Len(p) \in 1..(k + 1) /\ p[Len(p)] = b
        BY <2>7 DEF Reaches, Upward
      <4> QED BY <4>1, RangeIsIndexed
    <3>2. b \notin seen
      BY <2>7, <3>1 DEF Reaches
    <3>3. CASE Len(p) = 1
      <4>1. ParentOf(x) = b
        BY <2>7, <3>1, <3>3 DEF Reaches, Upward
      <4>2. x \in ChildrenOf(b, o)
        BY <2>3, <2>7, <4>1
      <4> QED BY <2>2, <3>2, <4>2 DEF OneLevel
    <3>4. CASE Len(p) > 1
      <4> DEFINE y == p[Len(p) - 1]
                 q == SubSeq(p, 1, Len(p) - 1)
      <4>1. Reaches(x, q, y, k, seen \cup {b}, o) /\ y \in Joined(o) /\ ParentOf(y) = b
        BY <2>7, <3>4, ReachesShorter
      <4> HIDE DEF y, q
      <4>2. x \in f[k][y][seen \cup {b}] /\ y \in ChildrenOf(b, o)
        BY <2>3, <2>5, <2>7, <4>1
      <4> QED BY <2>2, <3>2, <4>2 DEF OneLevel
    <3>5. Len(p) = 1 \/ Len(p) > 1
      <4>1. \A m \in 1..(k + 1) : m = 1 \/ m > 1
        OBVIOUS
      <4> QED BY <3>1, <4>1
    <3> QED BY <3>3, <3>4, <3>5
  <2> QED BY <2>6, <2>7
<1> HIDE DEF Good
<1>4. P = Nat
  <2>1. P \in SUBSET Nat /\ 0 \in P /\ \A k \in P : k + 1 \in P
    BY <1>2, <1>3
  <2> HIDE DEF P
  <2> QED BY <2>1, InductionSet
<1>5. Good(n)
  BY <1>4
<1> QED BY <1>5 DEF Good, f

\* The breadcrumb of a names b exactly when the tree of b names a.
LEMMA ChainAndTree ==
  ASSUME NEW o, NEW n \in Nat, NEW a \in Joined(o), NEW b \in Joined(o)
  PROVE  b \in Range(Climb(ParentOf(a), o)[n]) <=> a \in DelegationChildren(o)[n][b][{}]
<1> DEFINE c == Climb(ParentOf(a), o)[n]
<1>1. Upward(a, c, o) /\ Len(c) <= n
  BY ChainIsPath
<1>2. \A p : Upward(a, p, o) /\ Len(p) <= n => Len(p) <= Len(c)
  BY ChainIsLongest
<1> HIDE DEF c
<1>3. c \in Seq(Agents) /\ Len(c) \in Nat
  BY <1>1 DEF Upward
<1>4. Range(c) = {c[i] : i \in 1..Len(c)}
  BY <1>3, RangeIsIndexed
<1>5. a \in DelegationChildren(o)[n][b][{}] <=> \E p : Reaches(a, p, b, n, {}, o)
  BY TreeIsPaths
<1>6. ASSUME b \in Range(c) PROVE \E p : Reaches(a, p, b, n, {}, o)
  <2>1. PICK i \in 1..Len(c) : c[i] = b
    BY <1>4, <1>6
  <2> DEFINE p == SubSeq(c, 1, i)
  <2>2. Upward(a, p, o) /\ Len(p) = i /\ p[i] = c[i]
    BY <1>1, <1>3, PrefixIsPath
  <2> HIDE DEF p
  <2>3. Len(p) \in 1..n
    BY <1>1, <1>3, <2>2
  <2>4. Reaches(a, p, b, n, {}, o)
    BY <2>1, <2>2, <2>3 DEF Reaches
  <2> QED BY <2>4
<1>7. ASSUME NEW p, Reaches(a, p, b, n, {}, o) PROVE b \in Range(c)
  <2>1. Upward(a, p, o) /\ Len(p) \in 1..n /\ p[Len(p)] = b
    BY <1>7 DEF Reaches
  <2>2. Len(p) <= Len(c)
    BY <1>2, <2>1
  <2>3. Len(p) \in 1..Len(p) /\ Len(p) \in 1..Len(c)
    BY <1>3, <2>1, <2>2
  <2>4. p[Len(p)] = c[Len(p)]
    BY <1>1, <2>1, <2>3, PathsAgree
  <2> QED BY <1>4, <2>1, <2>3, <2>4
<1> QED BY <1>5, <1>6, <1>7 DEF c

-------------------------------------------------------------------------------
(* The pages of one organization.                                           *)

\* Reversing keeps length and elements.
LEMMA ReverseFacts ==
  ASSUME NEW S, NEW p \in Seq(S)
  PROVE  /\ Reverse(p) \in Seq(S) /\ Len(Reverse(p)) = Len(p) /\ Range(Reverse(p)) = Range(p)
         /\ Len(p) > 0 => Last(Reverse(p)) = p[1]
<1> DEFINE r == Reverse(p)
<1>1. Len(p) \in Nat /\ \A i \in 1..Len(p) : p[i] \in S
  OBVIOUS
<1>2. \A i \in 1..Len(p) : (Len(p) - i) + 1 \in 1..Len(p)
  BY <1>1
<1>3. /\ r = [i \in 1..Len(p) |-> p[(Len(p) - i) + 1]]
      /\ \A i \in 1..Len(p) : r[i] = p[(Len(p) - i) + 1]
  BY DEF Reverse
<1>4. r \in Seq(S) /\ Len(r) = Len(p)
  <2>1. r \in [1..Len(p) -> S]
    BY <1>1, <1>2, <1>3
  <2>2. r \in Seq(S)
    BY <1>1, <2>1, SeqDef
  <2> QED BY <1>1, <2>1, <2>2, LenProperties
<1> HIDE DEF r
<1>5. Range(r) = {r[i] : i \in 1..Len(p)} /\ Range(p) = {p[i] : i \in 1..Len(p)}
  BY <1>4, RangeIsIndexed
<1>6. \A i \in 1..Len(p) : r[i] \in Range(p)
  BY <1>2, <1>3, <1>5
<1>7. ASSUME NEW i \in 1..Len(p) PROVE p[i] \in Range(r)
  <2>1. (Len(p) - i) + 1 \in 1..Len(p) /\ (Len(p) - ((Len(p) - i) + 1)) + 1 = i
    BY <1>1
  <2>2. r[(Len(p) - i) + 1] = p[i]
    BY <1>3, <2>1
  <2> QED BY <1>5, <2>1, <2>2
<1>8. Range(r) = Range(p)
  BY <1>5, <1>6, <1>7
<1>9. ASSUME Len(p) > 0 PROVE Last(r) = p[1]
  <2>1. Len(p) \in 1..Len(p) /\ (Len(p) - Len(p)) + 1 = 1
    BY <1>1, <1>9
  <2> QED BY <1>3, <1>4, <2>1 DEF Last
<1> QED BY <1>4, <1>8, <1>9 DEF r

\* The breadcrumb is the chain the wrong way round.
LEMMA BreadcrumbIs ==
  ASSUME NEW a, NEW n \in Nat
  PROVE  LET c == Climb(ParentOf(a), agent[a].org)[n]
             b == Breadcrumb(a, n)
         IN  /\ Upward(a, c, agent[a].org)
             /\ Len(b) = Len(c) /\ Range(b) = Range(c) /\ (Len(c) > 0 => Last(b) = c[1])
<1> DEFINE c == Climb(ParentOf(a), agent[a].org)[n]
<1>1. Upward(a, c, agent[a].org)
  BY ChainIsPath
<1>2. Breadcrumb(a, n) = Reverse(c)
  BY DEF Breadcrumb, AncestorChain
<1>3. c \in Seq(Agents)
  BY <1>1 DEF Upward
<1> HIDE DEF c
<1>4. /\ Len(Reverse(c)) = Len(c) /\ Range(Reverse(c)) = Range(c)
      /\ Len(c) > 0 => Last(Reverse(c)) = c[1]
  BY <1>3, ReverseFacts
<1> QED BY <1>1, <1>2, <1>4 DEF c

\* A parent is an agent.
LEMMA ParentType ==
  ASSUME TypeOK, NEW a \in Agents
  PROVE  ParentOf(a) \in Agents \cup {None}
BY DEF ParentOf, TypeOK, IdentityRows

\* A parent has an identity and, unless its id is shared, is in its child's
\* organization.
LEMMA ParentIsJoined ==
  ASSUME IndInv, OrgInv, NEW a \in Agents, agent[a] # None, ParentOf(a) # None,
         Exclusive(ParentOf(a))
  PROVE  ParentOf(a) \in Joined(agent[a].org)
<1> USE IdentityAssumption
<1>1. identity[a] # None /\ ParentOf(a) = identity[a].parent /\ ParentOf(a) \in Agents
  BY ParentType DEF ParentOf, IndInv
<1>2. identity[ParentOf(a)] # None
  BY <1>1 DEF IndInv, RowInv
<1>3. agent[ParentOf(a)] # None
  BY <1>1, <1>2 DEF IndInv, RowInv
<1>4. agent[ParentOf(a)].org = agent[a].org
  BY <1>1, <1>3, ExclusiveIds DEF IndInv
<1> QED BY <1>1, <1>2, <1>3, <1>4 DEF Joined, RowsOf, Ours

\* A console restricted to one organization shows that organization's rows
\* only, however long its chains and deep its trees and whatever ids two
\* organizations share, and an agent's owner, activity count and parent are that
\* organization's unless the id they are looked up by is shared
\* (queries.py:176-337).
THEOREM ConsoleSeparated == Spec => []ConsoleStaysInOrg
<1> USE IdentityAssumption, HopsAssumption
<1>1. ASSUME IndInv, OrgInv PROVE ConsoleStaysInOrg
  <2> SUFFICES ASSUME NEW o \in Orgs, NEW a \in Agents, GetAgent(a, o) # None
               PROVE  LET page == GetAgent(a, o) IN
                        /\ page.org = o
                        /\ Range(page.chain) \cup page.below \subseteq RowsOf(o)
                        /\ Exclusive(a) =>
                             /\ page.owner # None => human[page.owner] = o
                             /\ page.count = Cardinality(ListEvents(a, o))
                        /\ page.parent # None /\ Exclusive(page.parent) => page.parent \in RowsOf(o)
    BY DEF ConsoleStaysInOrg
  <2>1. o # None /\ MaxHops \in Nat
    OBVIOUS
  <2>2. LET page == GetAgent(a, o) IN
          /\ page.org = o
          /\ Range(page.chain) \cup page.below \subseteq RowsOf(o)
          /\ Exclusive(a) =>
               /\ page.owner # None => human[page.owner] = o
               /\ page.count = Cardinality(ListEvents(a, o))
          /\ page.parent # None /\ Exclusive(page.parent) => page.parent \in RowsOf(o)
    <3> DEFINE page == GetAgent(a, o)
    <3>1. a \in RowsOf(o)
      BY DEF GetAgent
    <3>2. agent[a] # None /\ agent[a].org = o
      BY <2>1, <3>1 DEF RowsOf, Ours
    <3>3. /\ page.org = o /\ page.owner = agent[a].owner /\ page.parent = ParentOf(a)
          /\ page.chain = Breadcrumb(a, MaxHops) /\ page.below = SubAgents(a, MaxHops)
          /\ page.count = Cardinality({e \in events : e[1] = a})
      BY <3>1, <3>2 DEF GetAgent
    <3>4. Exclusive(a) /\ agent[a].owner # None => human[agent[a].owner] = o
      BY <1>1, <3>2, ExclusiveIds DEF IndInv
    <3>5. ParentOf(a) # None /\ Exclusive(ParentOf(a)) => ParentOf(a) \in RowsOf(o)
      BY <1>1, <3>2, ParentIsJoined DEF Joined
    <3>6. Range(Breadcrumb(a, MaxHops)) \subseteq RowsOf(o)
      <4> DEFINE c == Climb(ParentOf(a), o)[MaxHops]
      <4>1. Upward(a, c, o) /\ Range(Breadcrumb(a, MaxHops)) = Range(c)
        BY <2>1, <3>2, BreadcrumbIs
      <4> HIDE DEF c
      <4>2. \A i \in 1..Len(c) : c[i] \in RowsOf(o)
        BY <4>1 DEF Upward, Joined
      <4> QED BY <4>1, <4>2, RangeIsIndexed DEF Upward
    <3>7. SubAgents(a, MaxHops) \subseteq RowsOf(o)
      <4>1. SubAgents(a, MaxHops) = DelegationChildren(o)[MaxHops][a][{}]
        BY <3>2 DEF SubAgents
      <4>2. CASE identity[a] = None
        BY <2>1, <4>1, <4>2, NoIdentityNoTree
      <4>3. CASE identity[a] # None
        <5>1. a \in Joined(o)
          BY <3>1, <4>3 DEF Joined
        <5>2. \A x : x \in DelegationChildren(o)[MaxHops][a][{}] => x \in Joined(o)
          BY <2>1, <5>1, TreeIsPaths
        <5> QED BY <4>1, <5>2 DEF Joined
      <4> QED BY <4>2, <4>3
    <3>8. Exclusive(a) => {e \in events : e[1] = a} = ListEvents(a, o)
      <4>1. Exclusive(a) => \A e \in events : e[1] = a => e[2] = o
        BY <1>1, <3>2, ExclusiveIds DEF IndInv
      <4> QED BY <4>1 DEF ListEvents, Ours
    <3> HIDE DEF page
    <3>9. /\ page.org = o
          /\ Range(page.chain) \cup page.below \subseteq RowsOf(o)
          /\ Exclusive(a) =>
               /\ page.owner # None => human[page.owner] = o
               /\ page.count = Cardinality(ListEvents(a, o))
          /\ page.parent # None /\ Exclusive(page.parent) => page.parent \in RowsOf(o)
      BY <3>3, <3>4, <3>5, <3>6, <3>7, <3>8
    <3> QED BY <3>9 DEF page
  <2> QED BY <2>2
<1> QED BY <1>1, Invariance, OrgInvariance, PTL

-------------------------------------------------------------------------------
(* The reference, Above, and the chain.                                     *)

\* A parent within an organization is one of its agents with an identity.
LEMMA ParentInType ==
  ASSUME NEW a, NEW o
  PROVE  /\ ParentIn(a, o) \in Joined(o) \cup {None}
         /\ ParentOf(a) \in Joined(o) => ParentIn(a, o) = ParentOf(a)
         /\ Joined(o) \in SUBSET Agents /\ None \notin Joined(o)
BY IdentityAssumption DEF ParentIn, Joined, RowsOf

\* Above holds the parent of everything it holds and of a,
LEMMA AboveClosed ==
  ASSUME NEW a, NEW x \in Above(a) \cup {a}
  PROVE  ParentIn(x, agent[a].org) \in Above(a) \cup {None}
<1> DEFINE o == agent[a].org
           y == ParentIn(x, o)
<1> SUFFICES ASSUME y # None PROVE y \in Above(a)
  OBVIOUS
<1>1. y \in Joined(o)
  BY ParentInType
<1>2. ASSUME NEW S \in SUBSET Joined(o), \A z \in S \cup {a} : ParentIn(z, o) \in S \cup {None}
      PROVE  y \in S
  <2>1. x \in S \cup {a}
    BY <1>2 DEF Above
  <2> QED BY <1>2, <2>1
<1> HIDE DEF y
<1> QED BY <1>1, <1>2 DEF Above

\* and is the least such set.
LEMMA AboveLeast ==
  ASSUME NEW a, NEW S, \A y \in S \cup {a} : ParentIn(y, agent[a].org) \in S \cup {None}
  PROVE  Above(a) \subseteq S
<1> DEFINE o == agent[a].org
           T == S \cap Joined(o)
<1>1. \A y \in T \cup {a} : ParentIn(y, o) \in T \cup {None}
  BY ParentInType
<1>2. T \in SUBSET Joined(o)
  OBVIOUS
<1> HIDE DEF T
<1>3. Above(a) \subseteq T
  BY <1>1, <1>2 DEF Above
<1> QED BY <1>3 DEF T

\* A way up stays in it.
LEMMA PathAbove ==
  ASSUME NEW a, NEW p, Upward(a, p, agent[a].org)
  PROVE  Range(p) \subseteq Above(a)
<1> USE IdentityAssumption
<1> DEFINE Good(i) == i + 1 \in 1..Len(p) => p[i + 1] \in Above(a)
           P == {i \in Nat : Good(i)}
<1>1. p \in Seq(Agents) /\ Len(p) \in Nat
      /\ \A i \in 1..Len(p) : p[i] \in Joined(agent[a].org) /\ p[i] # None
  BY ParentInType DEF Upward
<1>2. 0 \in P
  <2> SUFFICES ASSUME 1 \in 1..Len(p) PROVE p[1] \in Above(a)
    OBVIOUS
  <2>1. p[1] = ParentIn(a, agent[a].org) /\ p[1] # None
    BY <1>1, ParentInType DEF Upward
  <2> QED BY <2>1, AboveClosed
<1>3. ASSUME NEW k \in P PROVE k + 1 \in P
  <2> SUFFICES ASSUME (k + 1) + 1 \in 1..Len(p) PROVE p[(k + 1) + 1] \in Above(a)
    OBVIOUS
  <2>1. k + 1 \in 1..(Len(p) - 1) /\ k + 1 \in 1..Len(p)
    BY <1>1
  <2>2. p[k + 1] \in Above(a)
    BY <2>1
  <2>3. p[(k + 1) + 1] = ParentOf(p[k + 1])
    BY <2>1 DEF Upward
  <2>4. p[(k + 1) + 1] = ParentIn(p[k + 1], agent[a].org) /\ p[(k + 1) + 1] # None
    BY <1>1, <2>3, ParentInType
  <2> QED BY <2>2, <2>4, AboveClosed
<1>4. P \in SUBSET Nat
  OBVIOUS
<1>5. P = Nat
  <2> HIDE DEF P
  <2> QED BY <1>2, <1>3, <1>4, InductionSet
<1>6. ASSUME NEW i \in 1..Len(p) PROVE p[i] \in Above(a)
  <2>1. i - 1 \in Nat /\ (i - 1) + 1 = i
    BY <1>1
  <2>2. Good(i - 1)
    <3> HIDE DEF Good
    <3> QED BY <1>5, <2>1
  <2> QED BY <2>1, <2>2
<1> QED BY <1>1, <1>6, RangeIsIndexed

\* A chain that the limit did not cut names everything above.
LEMMA StoppedAll ==
  ASSUME NEW a, NEW c, Upward(a, c, agent[a].org), Stopped(a, c, agent[a].org)
  PROVE  Above(a) = Range(c)
<1> DEFINE o == agent[a].org
<1>1. c \in Seq(Agents) /\ Len(c) \in Nat /\ Range(c) = {c[i] : i \in 1..Len(c)}
  BY RangeIsIndexed DEF Upward
<1> HIDE DEF o
<1>2. ASSUME NEW x \in Range(c) \cup {a} PROVE ParentIn(x, o) \in Range(c) \cup {None}
  <2> SUFFICES ASSUME ParentIn(x, o) # None PROVE ParentIn(x, o) \in Range(c)
    OBVIOUS
  <2>1. ParentOf(x) \in Joined(o) /\ ParentIn(x, o) = ParentOf(x)
    BY DEF ParentIn
  <2>2. CASE x = a
    <3>1. CASE c = <<>>
      BY <2>1, <2>2, <3>1 DEF Stopped, NextUp, o
    <3>2. CASE c # <<>>
      <4>1. 1 \in 1..Len(c)
        BY <1>1, <3>2, EmptySeq
      <4> QED BY <1>1, <2>1, <2>2, <4>1 DEF Upward
    <3> QED BY <3>1, <3>2
  <2>3. CASE x \in Range(c)
    <3>1. PICK i \in 1..Len(c) : c[i] = x
      BY <1>1, <2>3
    <3>2. CASE i = Len(c)
      <4>1. c # <<>>
        BY <1>1, <3>1, EmptySeq
      <4>2. NextUp(a, c) = ParentOf(x)
        BY <3>1, <3>2, <4>1 DEF NextUp, Last
      <4> QED BY <2>1, <4>2 DEF Stopped, o
    <3>3. CASE i # Len(c)
      <4>1. i \in 1..(Len(c) - 1) /\ i + 1 \in 1..Len(c)
        BY <1>1, <3>3
      <4>2. c[i + 1] = ParentOf(x)
        BY <3>1, <4>1 DEF Upward
      <4> QED BY <1>1, <2>1, <4>1, <4>2
    <3> QED BY <3>2, <3>3
  <2> QED BY <2>2, <2>3
<1>3. Above(a) \subseteq Range(c)
  BY <1>2, AboveLeast DEF o
<1> QED BY <1>3, PathAbove

\* A way up repeats nothing.
LEMMA PathSize ==
  ASSUME NEW a, NEW p, NEW o, Upward(a, p, o)
  PROVE  IsFiniteSet(Range(p)) /\ Cardinality(Range(p)) = Len(p)
<1>1. p \in Seq(Agents) /\ Len(p) \in Nat /\ Range(p) = {p[i] : i \in 1..Len(p)}
  BY RangeIsIndexed DEF Upward
<1>2. p \in [1..Len(p) -> Range(p)]
  BY <1>1
<1>3. p \in Injection(1..Len(p), Range(p))
  <2>1. DOMAIN p = 1..Len(p)
    BY <1>2
  <2>2. \A i, j \in 1..Len(p) : p[i] = p[j] => i = j
    BY DEF Upward
  <2>3. IsInjective(p)
    BY <2>1, <2>2 DEF IsInjective
  <2> QED BY <1>2, <2>3 DEF Injection
<1>4. p \in Surjection(1..Len(p), Range(p))
  BY <1>1, <1>2 DEF Surjection
<1>5. ExistsBijection(1..Len(p), Range(p))
  BY <1>3, <1>4 DEF ExistsBijection, Bijection
<1>6. IsFiniteSet(1..Len(p)) /\ Cardinality(1..Len(p)) = Len(p)
  <2>1. Len(p) \in Int /\ 1 \in Int /\ (IF 1 > Len(p) THEN 0 ELSE Len(p) - 1 + 1) = Len(p)
    BY <1>1
  <2> QED BY <2>1, FS_Interval
<1> QED BY <1>5, <1>6, FS_Bijection

\* Every command writes one identity, so there are finitely many.
FiniteInv == IsFiniteSet({a \in Agents : identity[a] # None})

\* The identity row a write leaves.
LEMMA WrittenIdentity ==
  ASSUME IndInv, NEW p \in Clis, RegisterWrite(p) \/ ClaimWrite(p)
  PROVE  /\ cli[p] \in Commands
         /\ identity' = [identity EXCEPT ![cli[p].agent] =
                           [parent |-> cli[p].parent, scope |-> cli[p].scope]]
<1>1. cli[p].pc \in {"register", "claim"} /\ WriteIdentity(p)
  BY DEF RegisterWrite, ClaimWrite
<1> QED BY <1>1, CliShapes DEF WriteIdentity, IndInv

\* A write adds at most one identity.
LEMMA FiniteInvariance == Spec => []FiniteInv
<1>1. Init => FiniteInv
  <2> SUFFICES ASSUME Init PROVE FiniteInv
    OBVIOUS
  <2>1. {a \in Agents : identity[a] # None} = {}
    BY DEF Init
  <2> QED BY <2>1, FS_EmptySet DEF FiniteInv
<1>2. IndInv /\ FiniteInv /\ [Next]_idVars => FiniteInv'
  <2> SUFFICES ASSUME IndInv, FiniteInv, [Next]_idVars PROVE FiniteInv'
    OBVIOUS
  <2>1. CASE identity' = identity
    BY <2>1 DEF FiniteInv
  <2>2. ASSUME NEW p \in Clis, RegisterWrite(p) \/ ClaimWrite(p) PROVE FiniteInv'
    <3> DEFINE S == {a \in Agents : identity[a] # None}
               T == {a \in Agents : identity'[a] # None}
               x == cli[p].agent
               row == [parent |-> cli[p].parent, scope |-> cli[p].scope]
    <3>1. x \in Agents /\ identity' = [identity EXCEPT ![x] = row]
      BY <2>2, WrittenIdentity DEF Commands
    <3>2. T \in SUBSET (S \cup {x})
      BY <3>1 DEF IndInv, TypeOK
    <3>3. IsFiniteSet(S)
      BY DEF FiniteInv
    <3> HIDE DEF S, T, x
    <3>4. IsFiniteSet(S \cup {x})
      BY <3>3, FS_AddElement
    <3>5. IsFiniteSet(T)
      BY <3>2, <3>4, FS_Subset
    <3> QED BY <3>5 DEF FiniteInv, T
  <2>3. \A h, o : HumanCreate(h, o) => identity' = identity
    BY DEF HumanCreate
  <2>4. \A o, a : Discover(o, a) => identity' = identity
    BY DEF Discover
  <2>5. UNCHANGED idVars => identity' = identity
    BY DEF idVars
  <2> QED BY <2>1, <2>2, <2>3, <2>4, <2>5, WhoWrites
<1> QED BY <1>1, <1>2, Invariance, PTL DEF Spec

\* Whoever is above an agent has an identity.
LEMMA AboveFinite ==
  ASSUME FiniteInv, NEW a
  PROVE  IsFiniteSet(Above(a)) /\ Cardinality(Above(a)) \in Nat
<1> DEFINE S == {x \in Agents : identity[x] # None}
<1>2. Above(a) \in SUBSET S
  BY DEF Above, Joined, RowsOf
<1>3. IsFiniteSet(S)
  BY DEF FiniteInv
<1> HIDE DEF S
<1>4. IsFiniteSet(Above(a))
  BY <1>2, <1>3, FS_Subset
<1> QED BY <1>4, FS_CardinalityType

\* The smaller of two.
LEMMA MinOfTwo ==
  ASSUME NEW m \in Nat, NEW n \in Nat
  PROVE  Min({m, n}) = IF m <= n THEN m ELSE n
<1> DEFINE k == IF m <= n THEN m ELSE n
<1>1. k \in {m, n} /\ \A y \in {m, n} : k <= y
  OBVIOUS
<1>2. \A x \in {m, n} : (\A y \in {m, n} : x <= y) => x = k
  OBVIOUS
<1> QED BY <1>1, <1>2 DEF Min

\* How long a breadcrumb is.
LEMMA ChainSize ==
  ASSUME FiniteInv, NEW a, NEW n \in Nat
  PROVE  LET c == Climb(ParentOf(a), agent[a].org)[n] IN
           /\ Len(c) = Min({n, Cardinality(Above(a))})
           /\ Cardinality(Above(a)) <= n => Range(c) = Above(a)
<1> DEFINE o == agent[a].org
           c == Climb(ParentOf(a), o)[n]
<1>1. Upward(a, c, o) /\ Len(c) <= n /\ (Len(c) = n \/ Stopped(a, c, o))
  BY ChainIsPath
<1> HIDE DEF c
<1>2. Len(c) \in Nat /\ Cardinality(Range(c)) = Len(c)
  <2>1. Len(c) \in Nat
    BY <1>1 DEF Upward
  <2> QED BY <1>1, <2>1, PathSize
<1>3. IsFiniteSet(Above(a)) /\ Cardinality(Above(a)) \in Nat
  BY AboveFinite
<1>4. Min({n, Cardinality(Above(a))}) = IF n <= Cardinality(Above(a)) THEN n ELSE Cardinality(Above(a))
  BY <1>3, MinOfTwo
<1>5. CASE Stopped(a, c, o)
  <2>1. Above(a) = Range(c)
    BY <1>1, <1>5, StoppedAll
  <2>2. Cardinality(Above(a)) = Len(c)
    BY <1>2, <2>1
  <2>3. Len(c) = Min({n, Cardinality(Above(a))})
    BY <1>1, <1>2, <1>4, <2>2
  <2> QED BY <2>1, <2>3 DEF c
<1>6. CASE ~Stopped(a, c, o)
  <2>1. Range(c) \in SUBSET Above(a)
    BY <1>1, PathAbove
  <2>2. /\ Cardinality(Range(c)) <= Cardinality(Above(a))
        /\ Cardinality(Above(a)) = Cardinality(Range(c)) => Above(a) = Range(c)
    BY <1>3, <2>1, FS_Subset
  <2>3. Len(c) = n
    BY <1>1, <1>6
  <2>4. n <= Cardinality(Above(a))
    BY <1>2, <2>2, <2>3
  <2>5. Cardinality(Above(a)) <= n => Cardinality(Above(a)) = Cardinality(Range(c))
    BY <1>2, <1>3, <2>3, <2>4
  <2>6. Len(c) = Min({n, Cardinality(Above(a))})
    BY <1>4, <2>3, <2>4
  <2> QED BY <2>2, <2>5, <2>6 DEF c
<1> QED BY <1>5, <1>6

\* Breadcrumbs and trees agree over the whole database.
LEMMA ViewsAgreeOn ==
  ASSUME TypeOK, NEW a \in RowsOf(None), NEW b \in RowsOf(None), NEW n \in Nat
  PROVE  b \in Range(Breadcrumb(a, n)) <=> a \in SubAgents(b, n)
<1> USE IdentityAssumption
<1> DEFINE o == agent[a].org
           c == Climb(ParentOf(a), o)[n]
<1>1. /\ a \in Agents /\ agent[a] # None /\ b \in Agents /\ agent[b] # None
      /\ o \in Orgs /\ agent[b].org \in Orgs /\ o # None /\ agent[b].org # None
  BY DEF RowsOf, TypeOK, AgentRows
<1>2. Upward(a, c, o) /\ Range(Breadcrumb(a, n)) = Range(c)
  BY BreadcrumbIs
<1>3. SubAgents(b, n) = DelegationChildren(agent[b].org)[n][b][{}]
  BY DEF SubAgents
<1>4. \A x \in Agents : \A u \in Orgs :
        x \in Joined(u) <=> agent[x] # None /\ agent[x].org = u /\ identity[x] # None
  BY DEF Joined, RowsOf, Ours
<1>5. Range(c) \subseteq Joined(o)
  <2> HIDE DEF c
  <2> QED BY <1>2, RangeIsIndexed DEF Upward
<1>6. CASE identity[b] = None
  <2>1. SubAgents(b, n) = {}
    BY <1>1, <1>3, <1>6, NoIdentityNoTree
  <2>2. b \notin Range(c)
    <3> HIDE DEF c
    <3> QED BY <1>1, <1>4, <1>5, <1>6
  <2> QED BY <1>2, <2>1, <2>2
<1>7. CASE identity[b] # None /\ agent[b].org # o
  <2>1. b \in Joined(agent[b].org) /\ a \notin Joined(agent[b].org) /\ b \notin Joined(o)
    BY <1>1, <1>4, <1>7
  <2>2. a \notin SubAgents(b, n)
    BY <1>3, <2>1, TreeIsPaths
  <2> HIDE DEF c
  <2> QED BY <1>2, <1>5, <2>1, <2>2
<1>8. CASE identity[b] # None /\ agent[b].org = o /\ identity[a] # None
  <2>1. a \in Joined(o) /\ b \in Joined(o)
    BY <1>1, <1>4, <1>8
  <2>2. b \in Range(c) <=> a \in DelegationChildren(o)[n][b][{}]
    BY <2>1, ChainAndTree
  <2> QED BY <1>2, <1>3, <1>8, <2>2
<1>9. CASE identity[b] # None /\ agent[b].org = o /\ identity[a] = None
  <2>1. b \in Joined(o) /\ a \notin Joined(o)
    BY <1>1, <1>4, <1>9
  <2>2. a \notin SubAgents(b, n)
    BY <1>3, <1>9, <2>1, TreeIsPaths
  <2>3. ParentOf(a) = None
    BY <1>9 DEF ParentOf
  <2> HIDE DEF c
  <2>4. Range(c) = {}
    <3>1. c \in Seq(Agents) /\ Len(c) \in Nat /\ \A i \in 1..Len(c) : c[i] # None
      BY <1>2 DEF Upward
    <3>2. ~(Len(c) > 0)
      BY <1>2, <2>3, <3>1 DEF Upward
    <3> QED BY <3>1, <3>2, RangeIsIndexed
  <2> QED BY <1>2, <2>2, <2>4
<1> QED BY <1>6, <1>7, <1>8, <1>9

\* Breadcrumbs and trees agree with the delegation graph of their organization
\* and with each other, whatever its shape, for every limit on their depth
\* (queries.py:104-106, 176-272).
THEOREM ViewsAgree == Spec => []ViewsMatchDelegation
<1> USE IdentityAssumption, HopsAssumption
<1>1. ASSUME IndInv, FiniteInv PROVE ViewsMatchDelegation
  <2> SUFFICES ASSUME NEW a \in RowsOf(None), NEW hops \in 1..MaxHops
               PROVE  LET chain == Breadcrumb(a, hops) IN
                        /\ Range(chain) \subseteq Above(a)
                        /\ Len(chain) = Cardinality(Range(chain))
                        /\ Len(chain) = Min({hops, Cardinality(Above(a))})
                        /\ ParentIn(a, agent[a].org) # None => ParentIn(a, agent[a].org) = Last(chain)
                        /\ \A b \in RowsOf(None) : b \in Range(chain) <=> a \in SubAgents(b, hops)
    BY DEF ViewsMatchDelegation
  <2> DEFINE o == agent[a].org
             c == Climb(ParentOf(a), o)[hops]
             chain == Breadcrumb(a, hops)
  <2>1. hops \in Nat /\ hops >= 1 /\ a \in Agents /\ agent[a] # None /\ TypeOK
    BY <1>1 DEF RowsOf, IndInv
  <2>2. /\ Upward(a, c, o) /\ Len(chain) = Len(c) /\ Range(chain) = Range(c)
        /\ Len(c) > 0 => Last(chain) = c[1]
    BY <2>1, BreadcrumbIs
  <2>3. Len(c) = Min({hops, Cardinality(Above(a))})
    BY <1>1, <2>1, ChainSize
  <2>4. \A b \in RowsOf(None) : b \in Range(chain) <=> a \in SubAgents(b, hops)
    BY <2>1, ViewsAgreeOn
  <2>5. Len(c) = hops \/ Stopped(a, c, o)
    BY <2>1, ChainIsPath
  <2> HIDE DEF c, chain
  <2>6. Range(c) \subseteq Above(a) /\ Cardinality(Range(c)) = Len(c)
    BY <2>1, <2>2, PathAbove, PathSize
  <2>7. ASSUME ParentIn(a, o) # None PROVE ParentIn(a, o) = Last(chain)
    <3>1. ParentOf(a) \in Joined(o) /\ ParentIn(a, o) = ParentOf(a)
      BY <2>7 DEF ParentIn
    <3>2. c \in Seq(Agents) /\ Len(c) \in Nat
      BY <2>2 DEF Upward
    <3>3. Len(c) > 0
      <4> SUFFICES ASSUME Len(c) = 0 PROVE FALSE
        BY <3>2
      <4>1. c = <<>>
        BY <3>2, EmptySeq
      <4>2. Range(c) = {}
        <5>1. Range(c) = {c[i] : i \in 1..Len(c)}
          BY <3>2, RangeIsIndexed
        <5>2. 1..0 = {}
          OBVIOUS
        <5> QED BY <5>1, <5>2
      <4>3. Stopped(a, c, o)
        BY <2>1, <2>5
      <4> QED BY <3>1, <4>1, <4>2, <4>3 DEF Stopped, NextUp
    <3> QED BY <2>2, <3>1, <3>3 DEF Upward
  <2>8. /\ Range(chain) \subseteq Above(a)
        /\ Len(chain) = Cardinality(Range(chain))
        /\ Len(chain) = Min({hops, Cardinality(Above(a))})
    BY <2>2, <2>3, <2>6
  <2> QED BY <2>4, <2>7, <2>8 DEF chain
<1> QED BY <1>1, Invariance, FiniteInvariance, PTL

-------------------------------------------------------------------------------
(* The dashboard.                                                           *)

\* Everything above a in whatever organization, as far as parents go.
Ancestors(a) ==
  {b \in Agents : \A S \in SUBSET Agents :
     (\A x \in S \cup {a} : ParentOf(x) \in S \cup {None}) => b \in S}

\* While no parent is replaced, nobody is among its own ancestors.
AcyclicInv == ~restated => \A b \in Agents : b \notin Ancestors(b)

LEMMA AncestorsClosed ==
  ASSUME TypeOK, NEW a \in Agents, NEW x \in Ancestors(a) \cup {a}
  PROVE  ParentOf(x) \in Ancestors(a) \cup {None}
<1> SUFFICES ASSUME ParentOf(x) # None PROVE ParentOf(x) \in Ancestors(a)
  OBVIOUS
<1>1. x \in Agents /\ ParentOf(x) \in Agents
  BY ParentType DEF Ancestors
<1>2. ASSUME NEW S \in SUBSET Agents, \A y \in S \cup {a} : ParentOf(y) \in S \cup {None}
      PROVE  ParentOf(x) \in S
  <2>1. x \in S \cup {a}
    BY <1>2 DEF Ancestors
  <2> QED BY <1>2, <2>1
<1> QED BY <1>1, <1>2 DEF Ancestors

\* What is above an agent is among its ancestors.
LEMMA AboveIsAncestor ==
  ASSUME TypeOK, NEW a \in Agents
  PROVE  Above(a) \subseteq Ancestors(a)
<1>1. ASSUME NEW y \in Ancestors(a) \cup {a}
      PROVE  ParentIn(y, agent[a].org) \in Ancestors(a) \cup {None}
  BY AncestorsClosed DEF ParentIn
<1> QED BY <1>1, AboveLeast

\* Nothing is above an agent without a parent.
LEMMA RootIsTop ==
  ASSUME NEW a, ParentIn(a, agent[a].org) = None
  PROVE  Above(a) = {}
<1> DEFINE S == {}
<1>1. \A y \in S \cup {a} : ParentIn(y, agent[a].org) \in S \cup {None}
  OBVIOUS
<1>2. Above(a) \subseteq S
  <2> HIDE DEF S
  <2> QED BY <1>1, AboveLeast
<1> QED BY <1>2

\* The written agent is nobody's parent, so no way up comes back to it.
LEMMA WriteStaysAcyclic ==
  ASSUME IndInv, AcyclicInv, NEW p \in Clis, RegisterWrite(p) \/ ClaimWrite(p)
  PROVE  AcyclicInv'
<1> USE IdentityAssumption
<1> SUFFICES ASSUME ~restated', NEW b \in Agents PROVE b \notin Ancestors(b)'
  BY DEF AcyclicInv
<1>1. cli[p].pc \in {"register", "claim"} /\ WriteIdentity(p)
  BY DEF RegisterWrite, ClaimWrite
<1>2. PICK x \in Agents, q \in Agents \cup {None} : x = cli[p].agent /\ q = cli[p].parent
  BY WrittenIdentity DEF Commands
<1>3. ~restated /\ ~IsParent(x)
  BY <1>2, <1>1 DEF WriteIdentity
<1> DEFINE row == [parent |-> q, scope |-> cli[p].scope]
<1>4. identity' = [identity EXCEPT ![x] = row] /\ row # None
  BY <1>2, WrittenIdentity DEF Commands, IdentityRows
<1>5. q # x
  <2>1. CASE cli[p].pc = "register"
    BY <1>2, <1>3, <2>1 DEF IsParent
  <2>2. CASE cli[p].pc = "claim"
    BY <1>2, <2>2 DEF IndInv, CommandInv
  <2> QED BY <1>1, <2>1, <2>2
<1>6. \A y \in Agents : ParentOf(y) # x
  BY <1>2, <1>3 DEF ParentOf, IsParent
<1>7. ParentOf(x)' = q /\ \A y \in Agents : y # x => ParentOf(y)' = ParentOf(y)
  <2>1. identity'[x] = row /\ \A y \in Agents : y # x => identity'[y] = identity[y]
    BY <1>4 DEF IndInv, TypeOK
  <2>2. ParentOf(x)' = q
    BY <1>4, <2>1 DEF ParentOf
  <2>3. ASSUME NEW y \in Agents, y # x PROVE ParentOf(y)' = ParentOf(y)
    <3>1. identity'[y] = identity[y]
      BY <2>1, <2>3
    <3> QED BY <3>1 DEF ParentOf
  <2> QED BY <2>2, <2>3
<1>8. \A y \in Agents : ParentOf(y) \in Agents \cup {None}
  BY ParentType DEF IndInv
<1>9. CASE b = x
  <2> DEFINE S == Agents \ {x}
  <2>1. ASSUME NEW y \in S \cup {x} PROVE ParentOf(y)' \in S \cup {None}
    <3>1. CASE y = x
      BY <1>2, <1>5, <1>7, <3>1
    <3>2. CASE y # x
      <4>1. y \in Agents /\ ParentOf(y)' = ParentOf(y)
        BY <1>7, <2>1, <3>2
      <4> QED BY <1>6, <1>8, <4>1
    <3> QED BY <3>1, <3>2
  <2>2. S \in SUBSET Agents /\ x \notin S
    OBVIOUS
  <2> HIDE DEF S
  <2> QED BY <1>9, <2>1, <2>2 DEF Ancestors
<1>10. CASE b # x
  <2> DEFINE S == Ancestors(b) \ {x}
  <2>1. S \in SUBSET Agents /\ b \notin S
    BY <1>3 DEF Ancestors, AcyclicInv
  <2>2. ASSUME NEW y \in S \cup {b} PROVE ParentOf(y)' \in S \cup {None}
    <3>1. y \in Ancestors(b) \cup {b} /\ y \in Agents /\ y # x
      BY <1>10, <2>1
    <3>2. ParentOf(y) \in Ancestors(b) \cup {None}
      BY <3>1, AncestorsClosed DEF IndInv
    <3> QED BY <1>6, <1>7, <3>1, <3>2
  <2> HIDE DEF S
  <2> QED BY <2>1, <2>2 DEF Ancestors
<1> QED BY <1>9, <1>10

\* Nobody else writes identities.
LEMMA AcyclicInvariance == Spec => []AcyclicInv
<1>1. Init => AcyclicInv
  <2> SUFFICES ASSUME Init, NEW b \in Agents PROVE b \notin Ancestors(b)
    BY DEF AcyclicInv
  <2>1. ParentOf(b) = None
    BY DEF Init, ParentOf
  <2>2. {} \in SUBSET Agents /\ b \notin {}
    OBVIOUS
  <2> QED BY <2>1, <2>2 DEF Ancestors
<1>2. IndInv /\ AcyclicInv /\ [Next]_idVars => AcyclicInv'
  <2> SUFFICES ASSUME IndInv, AcyclicInv, [Next]_idVars PROVE AcyclicInv'
    OBVIOUS
  <2>1. CASE identity' = identity /\ restated' = restated
    BY <2>1 DEF AcyclicInv, Ancestors, ParentOf
  <2>2. ASSUME NEW p \in Clis, RegisterWrite(p) \/ ClaimWrite(p) PROVE AcyclicInv'
    BY <2>2, WriteStaysAcyclic
  <2>3. CASE Next
    <3>1. \A o, h : OrgCreate(o) \/ HumanCreate(h, o) => identity' = identity /\ restated' = restated
      BY DEF OrgCreate, HumanCreate
    <3>2. \A o, a : Discover(o, a) \/ LogCall(o, a) => identity' = identity /\ restated' = restated
      BY DEF Discover, LogCall
    <3>3. \A p, o, a, h, scope, parent : RegisterCheck(p, o, a, h, scope, parent) =>
            identity' = identity /\ restated' = restated
      BY DEF RegisterCheck, Start
    <3>4. \A p, o, a, h, scope : ClaimCheck(p, o, a, h, scope) =>
            identity' = identity /\ restated' = restated
      BY DEF ClaimCheck, Start
    <3>5. \A p : IssueToken(p) \/ CliDeath(p) => identity' = identity /\ restated' = restated
      BY DEF IssueToken, CliDeath
    <3> QED BY <2>1, <2>2, <2>3, <3>1, <3>2, <3>3, <3>4, <3>5 DEF Next, CliStep
  <2>4. UNCHANGED idVars => identity' = identity /\ restated' = restated
    BY DEF idVars
  <2> QED BY <2>1, <2>3, <2>4
<1> QED BY <1>1, <1>2, Invariance, PTL DEF Spec

\* The way through everything above a.
LEMMA WholeChain ==
  ASSUME FiniteInv, NEW a
  PROVE  \E c : Upward(a, c, agent[a].org) /\ Range(c) = Above(a)
<1> DEFINE n == Cardinality(Above(a))
           c == Climb(ParentOf(a), agent[a].org)[n]
<1>1. n \in Nat
  BY AboveFinite
<1>2. Upward(a, c, agent[a].org)
  BY <1>1, ChainIsPath
<1>3. Range(c) = Above(a)
  <2>1. n <= n
    BY <1>1
  <2>2. Cardinality(Above(a)) <= n => Range(c) = Above(a)
    <3> HIDE DEF n
    <3> QED BY <1>1, ChainSize
  <2> HIDE DEF c
  <2> QED BY <2>1, <2>2
<1> QED BY <1>2, <1>3

\* A way up passes an agent without a parent only at its end.
LEMMA RootIsLast ==
  ASSUME NEW a, NEW o, NEW c, Upward(a, c, o), NEW r \in Range(c), ParentIn(r, o) = None
  PROVE  Len(c) \in 1..Len(c) /\ r = c[Len(c)]
<1> USE IdentityAssumption
<1>1. c \in Seq(Agents) /\ Len(c) \in Nat /\ \A i \in 1..Len(c) : c[i] \in Joined(o)
  BY DEF Upward
<1>2. PICK i \in 1..Len(c) : c[i] = r
  BY <1>1, RangeIsIndexed
<1>3. i = Len(c)
  <2> SUFFICES ASSUME i # Len(c) PROVE FALSE
    OBVIOUS
  <2>1. i \in 1..(Len(c) - 1) /\ i + 1 \in 1..Len(c)
    BY <1>1
  <2>2. c[i + 1] = ParentOf(r) /\ c[i + 1] \in Joined(o)
    BY <1>1, <1>2, <2>1 DEF Upward
  <2> QED BY <2>2, ParentInType
<1> QED BY <1>2, <1>3

\* Whoever has a root above is on no cycle and below none.
LEMMA RootEndsLoop ==
  ASSUME TypeOK, FiniteInv, NEW a \in Agents, agent[a] # None,
         NEW r \in Above(a) \cup {a}, ParentIn(r, agent[a].org) = None
  PROVE  ~Looped(a)
<1>1. CASE r = a
  BY <1>1, RootIsTop DEF Looped
<1>2. CASE r \in Above(a)
  <2> DEFINE o == agent[a].org
  <2>0. o \in Orgs /\ \A b \in Joined(o) : agent[b].org = o
    BY IdentityAssumption DEF TypeOK, AgentRows, Joined, RowsOf, Ours
  <2> HIDE DEF o
  <2>1. PICK c : Upward(a, c, o) /\ Range(c) = Above(a)
    BY WholeChain DEF o
  <2>2. /\ c \in Seq(Agents) /\ Len(c) \in Nat /\ \A i \in 1..Len(c) : c[i] \in Joined(o)
        /\ Range(c) = {c[i] : i \in 1..Len(c)}
    BY <2>1, RangeIsIndexed DEF Upward
  <2>3. ParentIn(c[Len(c)], o) = None
    BY <1>2, <2>1, RootIsLast DEF o
  <2> SUFFICES ASSUME NEW b \in Above(a), b \in Above(b) PROVE FALSE
    BY DEF Looped
  <2>4. PICK i \in 1..Len(c) : c[i] = b
    BY <2>1, <2>2
  <2> DEFINE S == {c[j] : j \in (i + 1)..Len(c)}
  <2>5. agent[b].org = o
    BY <2>0, <2>2, <2>4
  <2>6. ASSUME NEW y \in S \cup {b} PROVE ParentIn(y, agent[b].org) \in S \cup {None}
    <3>1. PICK j \in i..Len(c) : c[j] = y
      BY <2>2, <2>4
    <3>2. CASE j = Len(c)
      BY <2>3, <2>5, <3>1, <3>2
    <3>3. CASE j # Len(c)
      <4>1. j \in 1..(Len(c) - 1) /\ j + 1 \in (i + 1)..Len(c)
        BY <2>2, <3>3
      <4>2. ParentOf(y) = c[j + 1]
        BY <2>1, <3>1, <4>1 DEF Upward
      <4>3. ParentIn(y, o) = c[j + 1]
        BY <2>2, <4>1, <4>2, ParentInType
      <4> QED BY <2>5, <4>1, <4>3
    <3> QED BY <3>2, <3>3
  <2>7. b \in S
    <3> HIDE DEF S
    <3> QED BY <2>6, AboveLeast
  <2>8. PICK j \in (i + 1)..Len(c) : c[j] = c[i]
    BY <2>4, <2>7
  <2>9. j \in 1..Len(c) /\ j # i
    BY <2>2
  <2> QED BY <2>1, <2>8, <2>9 DEF Upward
<1> QED BY <1>1, <1>2

\* A way up through everything above a ends, or closes a loop.
LEMMA RootExists ==
  ASSUME TypeOK, FiniteInv, NEW a \in Agents, agent[a] # None, ~Looped(a)
  PROVE  \E r \in Above(a) \cup {a} : ParentIn(r, agent[a].org) = None
<1> DEFINE o == agent[a].org
           Up(x) == ParentIn(x, o)
<1> SUFFICES ASSUME \A r \in Above(a) \cup {a} : Up(r) # None PROVE FALSE
  OBVIOUS
<1>0. o \in Orgs /\ \A b \in Joined(o) : agent[b].org = o
  BY IdentityAssumption DEF TypeOK, AgentRows, Joined, RowsOf, Ours
<1>1. \A r \in Above(a) \cup {a} : Up(r) \in Above(a)
  BY AboveClosed
<1>2. PICK c : Upward(a, c, o) /\ Range(c) = Above(a)
  BY WholeChain
<1> HIDE DEF o
<1>3. c \in Seq(Agents) /\ Len(c) \in Nat /\ Range(c) = {c[i] : i \in 1..Len(c)}
      /\ \A i \in 1..Len(c) : c[i] \in Joined(o)
  BY <1>2, RangeIsIndexed DEF Upward
<1>4. Len(c) \in 1..Len(c)
  <2>1. PICK i \in 1..Len(c) : c[i] = Up(a)
    BY <1>1, <1>2, <1>3
  <2> QED BY <1>3
<1> DEFINE l == c[Len(c)]
<1>5. l \in Above(a) /\ agent[l].org = o
  BY <1>0, <1>2, <1>3, <1>4
<1>6. PICK i \in 1..Len(c) : c[i] = Up(l)
  BY <1>1, <1>2, <1>3, <1>5
<1> DEFINE Good(k) == i + k \in 1..Len(c) => c[i + k] \in Above(l)
           P == {k \in Nat : Good(k)}
<1>7. ASSUME NEW y \in Above(l) \cup {l}, Up(y) # None PROVE Up(y) \in Above(l)
  BY <1>5, <1>7, AboveClosed
<1>8. 0 \in P
  <2>1. Up(l) \in Above(l)
    BY <1>1, <1>5, <1>7
  <2>2. i + 0 = i
    BY <1>3
  <2> HIDE DEF l
  <2> QED BY <1>6, <2>1, <2>2
<1>9. ASSUME NEW k \in P PROVE k + 1 \in P
  <2> SUFFICES ASSUME i + (k + 1) \in 1..Len(c) PROVE c[i + (k + 1)] \in Above(l)
    OBVIOUS
  <2>1. i + k \in 1..Len(c) /\ i + k \in 1..(Len(c) - 1) /\ i + (k + 1) = (i + k) + 1
    BY <1>3
  <2>2. c[i + k] \in Above(l)
    BY <2>1
  <2>3. c[(i + k) + 1] = Up(c[i + k])
    <3>1. c[(i + k) + 1] = ParentOf(c[i + k]) /\ (i + k) + 1 \in 1..Len(c)
      BY <1>2, <2>1 DEF Upward
    <3> QED BY <1>3, <3>1, ParentInType
  <2>4. c[i + k] \in Above(a)
    BY <1>2, <1>3, <2>1
  <2> HIDE DEF l
  <2> QED BY <1>1, <1>7, <2>1, <2>2, <2>3, <2>4
<1>10. P = Nat
  <2>1. P \in SUBSET Nat
    OBVIOUS
  <2> HIDE DEF P
  <2> QED BY <1>8, <1>9, <2>1, InductionSet
<1>11. l \in Above(l)
  <2>1. Len(c) - i \in Nat /\ i + (Len(c) - i) = Len(c)
    BY <1>3
  <2>2. Good(Len(c) - i)
    <3> HIDE DEF Good
    <3> QED BY <1>10, <2>1
  <2> QED BY <1>4, <2>1, <2>2
<1> QED BY <1>5, <1>11 DEF Looped

\* Within the limit the chain reaches the root only if it reaches everything.
LEMMA RootIsDeep ==
  ASSUME NEW a, NEW n \in Nat,
         NEW r \in Range(Climb(ParentOf(a), agent[a].org)[n]), ParentIn(r, agent[a].org) = None
  PROVE  Cardinality(Above(a)) <= n
<1> DEFINE o == agent[a].org
           c == Climb(ParentOf(a), o)[n]
<1>1. Upward(a, c, o) /\ Len(c) <= n /\ r \in Range(c)
  BY ChainIsPath
<1> HIDE DEF c
<1>2. r = c[Len(c)] /\ Len(c) \in 1..Len(c)
  BY <1>1, RootIsLast
<1>3. c # <<>>
  BY <1>2, EmptySeq
<1>4. NextUp(a, c) = ParentOf(r)
  BY <1>2, <1>3 DEF NextUp, Last
<1>5. Stopped(a, c, o)
  BY <1>4, ParentInType DEF Stopped
<1>6. Above(a) = Range(c)
  BY <1>1, <1>5, StoppedAll
<1>7. Cardinality(Above(a)) = Len(c)
  BY <1>1, <1>6, PathSize
<1> QED BY <1>1, <1>7

\* Every agent is reached from exactly one row of its organization's dashboard,
\* or hangs on a cycle, under a parent of another organization or deeper than
\* the limit and is reached from none; while no parent has been replaced there
\* is no cycle, and a parent is lost only if its id is used by two organizations
\* (queries.py:129-141, 176-272).
THEOREM DashboardComplete == Spec => []DashboardLeadsToEachAgent
<1> USE IdentityAssumption, HopsAssumption
<1>1. ASSUME IndInv, OrgInv, FiniteInv, AcyclicInv PROVE DashboardLeadsToEachAgent
  <2> SUFFICES ASSUME NEW o \in Orgs, NEW a \in RowsOf(o)
               PROVE  /\ \A hops \in 1..MaxHops :
                           LET rows == {r \in Dashboard(o) : a = r \/ a \in SubAgents(r, hops)} IN
                             Cardinality(rows) =
                               IF Looped(a) \/ Cuts(a) # {} \/ Cardinality(Above(a)) > hops
                                 THEN 0 ELSE 1
                      /\ Looped(a) => restated
                      /\ \A b \in Cuts(a) : ~Exclusive(ParentOf(b))
    BY DEF DashboardLeadsToEachAgent
  <2>1. o # None /\ a \in Agents /\ agent[a] # None /\ agent[a].org = o /\ TypeOK
    BY <1>1 DEF RowsOf, Ours, IndInv
  <2>2. Looped(a) => restated
    <3> SUFFICES ASSUME NEW b \in Above(a), b \in Above(b) PROVE restated
      BY DEF Looped
    <3>1. b \in Agents /\ b \in Ancestors(b)
      BY <2>1, AboveIsAncestor DEF Above, Joined, RowsOf
    <3> QED BY <1>1, <3>1 DEF AcyclicInv
  <2>3. ASSUME NEW b \in Cuts(a) PROVE ~Exclusive(ParentOf(b))
    <3>1. /\ b \in Agents /\ agent[b] # None /\ agent[b].org = o
          /\ ParentOf(b) # None /\ ParentIn(b, o) = None
      BY <2>1 DEF Cuts, Above, Joined, RowsOf, Ours
    <3>2. ParentOf(b) \notin Joined(o)
      BY <3>1, ParentInType
    <3> QED BY <1>1, <3>1, <3>2, ParentIsJoined
  <2>4. ASSUME NEW hops \in 1..MaxHops
        PROVE  Cardinality({r \in Dashboard(o) : a = r \/ a \in SubAgents(r, hops)}) =
                 IF Looped(a) \/ Cuts(a) # {} \/ Cardinality(Above(a)) > hops THEN 0 ELSE 1
    <3> DEFINE rows == {r \in Dashboard(o) : a = r \/ a \in SubAgents(r, hops)}
               c == Climb(ParentOf(a), o)[hops]
    <3>1. hops \in Nat
      OBVIOUS
    <3>2. RowsOf(o) \subseteq RowsOf(None) /\ RowsOf(None) # {} /\ a \in RowsOf(None)
      BY DEF RowsOf, Ours
    <3>3. Dashboard(o) = {r \in RowsOf(o) : ParentOf(r) = None}
      BY <3>2 DEF Dashboard, ListAgents
    <3>4. Upward(a, c, o) /\ Range(Breadcrumb(a, hops)) = Range(c)
      BY <2>1, <3>1, BreadcrumbIs
    <3>5. /\ Cardinality(Above(a)) <= hops => Range(c) = Above(a)
          /\ Cardinality(Above(a)) \in Nat
      BY <1>1, <2>1, <3>1, ChainSize, AboveFinite
    <3>6. \A r \in Range(c) : ParentIn(r, o) = None => Cardinality(Above(a)) <= hops
      BY <2>1, <3>1, RootIsDeep
    <3> HIDE DEF c
    <3>7. Range(c) \subseteq RowsOf(o) /\ Range(c) \subseteq Above(a)
      <4>1. Range(c) \subseteq Joined(o)
        BY <3>4, RangeIsIndexed DEF Upward
      <4> QED BY <2>1, <3>4, <4>1, PathAbove DEF Joined
    <3>8. rows = {r \in Range(c) \cup {a} : ParentOf(r) = None}
      <4>1. \A r \in RowsOf(o) : a \in SubAgents(r, hops) <=> r \in Range(c)
        BY <2>1, <3>1, <3>2, <3>4, ViewsAgreeOn
      <4> QED BY <3>3, <3>7, <4>1
    <3> HIDE DEF rows
    <3>9. \A r : ParentOf(r) = None => ParentIn(r, o) = None
      BY ParentInType DEF ParentIn
    <3>10. ASSUME \A r \in Range(c) \cup {a} : ParentOf(r) # None PROVE Cardinality(rows) = 0
      BY <3>8, <3>10, FS_EmptySet
    <3>11. CASE Looped(a)
      <4>1. \A r \in Range(c) \cup {a} : ParentOf(r) # None
        BY <1>1, <2>1, <3>7, <3>9, <3>11, RootEndsLoop
      <4> QED BY <3>10, <3>11, <4>1 DEF rows
    <3>12. CASE Cardinality(Above(a)) > hops
      <4>1. \A r \in Range(c) : ParentOf(r) # None
        BY <3>5, <3>6, <3>9, <3>12, <3>1
      <4>2. ParentOf(a) # None
        <5> SUFFICES ASSUME ParentOf(a) = None PROVE FALSE
          OBVIOUS
        <5>1. Cardinality(Above(a)) = 0
          BY <2>1, <3>9, RootIsTop, FS_EmptySet
        <5> QED BY <3>1, <3>12, <5>1
      <4> QED BY <3>10, <3>12, <4>1, <4>2 DEF rows
    <3>13. CASE ~Looped(a) /\ ~(Cardinality(Above(a)) > hops)
      <4>1. Range(c) = Above(a)
        BY <3>1, <3>5, <3>13
      <4>2. PICK r \in Range(c) \cup {a} : ParentIn(r, o) = None
        BY <1>1, <2>1, <3>13, <4>1, RootExists
      <4>3. ASSUME NEW s \in Range(c) \cup {a}, ParentIn(s, o) = None PROVE s = r
        <5>1. CASE ParentIn(a, o) = None
          BY <2>1, <4>1, <4>2, <4>3, <5>1, RootIsTop
        <5>2. CASE ParentIn(a, o) # None
          <6>1. r \in Range(c) /\ s \in Range(c)
            BY <4>2, <4>3, <5>2
          <6> QED BY <3>4, <4>2, <4>3, <6>1, RootIsLast
        <5> QED BY <5>1, <5>2
      <4>4. CASE ParentOf(r) = None
        <5>1. rows = {r}
          BY <3>8, <3>9, <4>2, <4>3, <4>4
        <5>2. Cardinality(rows) = 1
          BY <5>1, FS_Singleton
        <5>3. Cuts(a) = {}
          BY <2>1, <4>1, <4>3, <4>4 DEF Cuts
        <5> QED BY <3>13, <5>2, <5>3 DEF rows
      <4>5. CASE ParentOf(r) # None
        <5>1. \A s \in Range(c) \cup {a} : ParentOf(s) # None
          BY <3>9, <4>3, <4>5
        <5>2. r \in Cuts(a)
          BY <2>1, <4>1, <4>2, <4>5 DEF Cuts
        <5> QED BY <3>10, <5>1, <5>2 DEF rows
      <4> QED BY <4>4, <4>5
    <3> QED BY <3>11, <3>12, <3>13
  <2> QED BY <2>2, <2>3, <2>4
<1> QED BY <1>1, Invariance, OrgInvariance, FiniteInvariance, AcyclicInvariance, PTL
===============================================================================
