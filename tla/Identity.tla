------------------------------- MODULE Identity -------------------------------
(***************************************************************************)
(* Who an agent is: organizations, humans, agents and agent_identities in  *)
(* one database file that several organizations share.  cli.py's org,      *)
(* human, register and claim commands write it from short-lived processes, *)
(* gateways add a row for every unrecognized client they meet              *)
(* (identity/discovery.py).                                                *)
(*                                                                         *)
(* A command checks with SELECTs outside any transaction, writes agents    *)
(* and agent_identities in one commit, and issues the token in another:    *)
(* other processes run, and this one may die, between these three.         *)
(*                                                                         *)
(* The CLI names an identity after its agent, so the identity rows are a   *)
(* function of the agent id and a parent is named by its agent.            *)
(***************************************************************************)
EXTENDS Naturals, FiniteSets

CONSTANTS
  Orgs, Humans, Clis,
  Agents,       \* agent ids
  Discovered,   \* the ids discovery_agent_id makes from client names
  Tools,        \* tool names a scope is made of
  Uses,         \* <<o, a>>: id a is registered or met in organization o
  None,         \* NULL, or no row
  MaxCommands   \* bound: register and claim commands of a behaviour

AgentRows == [org : Orgs, owner : Humans \cup {None}, status : {"unclaimed", "active"}]
IdentityRows == [parent : Agents \cup {None}, scope : SUBSET Tools]

ASSUME IdentityAssumption ==
  /\ Discovered \subseteq Agents
  /\ Uses \subseteq Orgs \X Agents
  /\ None \notin Orgs \cup Humans \cup Agents \cup AgentRows \cup IdentityRows
  /\ MaxCommands \in Nat

VARIABLES
  orgs,      \* organizations rows
  human,     \* humans rows: the organization of each
  agent,     \* agents rows: organization, owner, status
  identity,  \* agent_identities rows: parent and granted_scope
  tokens,    \* <<a, o>>: a credential of a, issued while o owned a's row
  events,    \* <<a, o>>: events of a logged under organization o
  cli,       \* where each CLI process is
  commands,  \* register and claim commands started
  orphans,   \* history: agents whose command died before issue_token
  restated   \* history: the identity of a parent was replaced

idVars ==
  <<orgs, human, agent, identity, tokens, events, cli, commands, orphans, restated>>

Idle == [pc |-> "idle"]
Commands ==
  [pc : {"register", "claim"}, org : Orgs, agent : Agents, owner : Humans,
   scope : SUBSET Tools, parent : Agents \cup {None}]
Issues == [pc : {"issue"}, agent : Agents]

Init ==
  /\ orgs = {} /\ human = [h \in Humans |-> None]
  /\ agent = [a \in Agents |-> None] /\ identity = [a \in Agents |-> None]
  /\ tokens = {} /\ events = {}
  /\ cli = [p \in Clis |-> Idle] /\ commands = 0 /\ orphans = {} /\ restated = FALSE

OrgCreate(o) ==
  /\ o \notin orgs
  /\ orgs' = orgs \cup {o}
  /\ UNCHANGED <<human, agent, identity, tokens, events, cli, commands, orphans, restated>>

HumanCreate(h, o) ==
  /\ o \in orgs /\ human[h] = None
  /\ human' = [human EXCEPT ![h] = o]
  /\ UNCHANGED <<orgs, agent, identity, tokens, events, cli, commands, orphans, restated>>

\* Mutant: INSERT OR REPLACE.
DiscoverReplacing(o, a) ==
  /\ <<o, a>> \in Uses /\ a \in Discovered
  /\ agent' = [agent EXCEPT ![a] = [org |-> o, owner |-> None, status |-> "unclaimed"]]
  /\ UNCHANGED <<orgs, human, identity, tokens, events, cli, commands, orphans, restated>>

\* discover_agent's INSERT OR IGNORE, where it inserts.
Discover(o, a) ==
  /\ <<o, a>> \in Uses /\ a \in Discovered
  /\ agent[a] = None
  /\ agent' = [agent EXCEPT ![a] = [org |-> o, owner |-> None, status |-> "unclaimed"]]
  /\ UNCHANGED <<orgs, human, identity, tokens, events, cli, commands, orphans, restated>>

\* load_token_registry: the organization whose gateways know a's tokens.
Resolves(o, a) ==
  /\ \E t \in tokens : t[1] = a
  /\ identity[a] # None /\ agent[a].org = o

\* A gateway of o logs a call of a, known by its token or met by its name.
LogCall(o, a) ==
  /\ Resolves(o, a) \/ (a \in Discovered /\ <<o, a>> \in Uses /\ agent[a] # None)
  /\ events' = events \cup {<<a, o>>}
  /\ UNCHANGED <<orgs, human, agent, identity, tokens, cli, commands, orphans, restated>>

Start(p, c) ==
  /\ cli[p] = Idle /\ commands < MaxCommands
  /\ cli' = [cli EXCEPT ![p] = c]
  /\ commands' = commands + 1
  /\ UNCHANGED <<orgs, human, agent, identity, tokens, events, orphans, restated>>

\* Mutant: the parent has to exist, whatever its scope.
MayDelegateWider(o, parent, scope) ==
  parent # None => identity[parent] # None /\ agent[parent].org = o

\* The parent identity is one of o's and the scope within its scope.
MayDelegate(o, parent, scope) ==
  parent # None =>
    /\ identity[parent] # None /\ agent[parent].org = o
    /\ scope \subseteq identity[parent].scope

\* Mutant: any human may be made the owner.
RegisterCheckAnyOwner(p, o, a, h, scope, parent) ==
  /\ <<o, a>> \in Uses
  /\ MayDelegate(o, parent, scope)
  /\ human[h] # None
  /\ Start(p, [pc |-> "register", org |-> o, agent |-> a, owner |-> h,
               scope |-> scope, parent |-> parent])

\* register_identity up to its first INSERT.
RegisterCheck(p, o, a, h, scope, parent) ==
  /\ <<o, a>> \in Uses
  /\ MayDelegate(o, parent, scope)
  /\ human[h] = o
  /\ Start(p, [pc |-> "register", org |-> o, agent |-> a, owner |-> h,
               scope |-> scope, parent |-> parent])

\* claim_discovered_agent up to its UPDATE.
ClaimCheck(p, o, a, h, scope) ==
  /\ agent[a] # None /\ agent[a].org = o /\ agent[a].status = "unclaimed"
  /\ human[h] = o
  /\ Start(p, [pc |-> "claim", org |-> o, agent |-> a, owner |-> h,
               scope |-> scope, parent |-> None])

\* a's identity is named as parent, by a row or by a command past its check.
IsParent(a) ==
  \/ \E b \in Agents : identity[b] # None /\ identity[b].parent = a
  \/ \E p \in Clis : cli[p].pc = "register" /\ cli[p].parent = a

\* The identity row and the move on to issue_token, common to both.
WriteIdentity(p) ==
  LET c == cli[p] IN
    /\ identity' = [identity EXCEPT ![c.agent] = [parent |-> c.parent, scope |-> c.scope]]
    /\ cli' = [cli EXCEPT ![p] = [pc |-> "issue", agent |-> c.agent]]
    /\ restated' = (restated \/ IsParent(c.agent))
    /\ UNCHANGED <<orgs, human, tokens, events, commands, orphans>>

\* INSERT OR REPLACE of both rows, committed together.
RegisterWrite(p) ==
  LET c == cli[p] IN
    /\ c.pc = "register"
    /\ agent' = [agent EXCEPT ![c.agent] =
                   [org |-> c.org, owner |-> c.owner, status |-> "active"]]
    /\ WriteIdentity(p)

\* Mutant: a status of its own for claimed agents.
ClaimWriteClaimed(p) ==
  LET c == cli[p] IN
    /\ c.pc = "claim"
    /\ agent' = [agent EXCEPT ![c.agent].owner = c.owner, ![c.agent].status = "claimed"]
    /\ WriteIdentity(p)

\* The UPDATE names the agent id alone: neither status nor organization is
\* looked at again.
ClaimWrite(p) ==
  LET c == cli[p] IN
    /\ c.pc = "claim"
    /\ agent' = [agent EXCEPT ![c.agent].owner = c.owner, ![c.agent].status = "active"]
    /\ WriteIdentity(p)

\* issue_token: the credential and its credential.issued event, filed under
\* the organization the agents row names now.
IssueToken(p) ==
  LET a == cli[p].agent IN
    /\ cli[p].pc = "issue"
    /\ tokens' = tokens \cup {<<a, agent[a].org>>}
    /\ events' = events \cup {<<a, agent[a].org>>}
    /\ cli' = [cli EXCEPT ![p] = Idle]
    /\ UNCHANGED <<orgs, human, agent, identity, commands, orphans, restated>>

\* The process dies; what it committed stays.
CliDeath(p) ==
  /\ cli[p] # Idle
  /\ cli' = [cli EXCEPT ![p] = Idle]
  /\ orphans' = orphans \cup (IF cli[p].pc = "issue" THEN {cli[p].agent} ELSE {})
  /\ UNCHANGED <<orgs, human, agent, identity, tokens, events, commands, restated>>

CliStep(p) ==
  \/ RegisterWrite(p) \/ ClaimWrite(p) \/ IssueToken(p)

Next ==
  \/ \E o \in Orgs : OrgCreate(o) \/ \E h \in Humans : HumanCreate(h, o)
  \/ \E o \in Orgs, a \in Agents : Discover(o, a) \/ LogCall(o, a)
  \/ \E p \in Clis, o \in Orgs, a \in Agents, h \in Humans, scope \in SUBSET Tools :
       \/ \E parent \in Agents \cup {None} : RegisterCheck(p, o, a, h, scope, parent)
       \/ ClaimCheck(p, o, a, h, scope)
  \/ \E p \in Clis : CliStep(p) \/ CliDeath(p)

Spec == Init /\ [][Next]_idVars

-------------------------------------------------------------------------------
(* Properties.                                                              *)

\* Types of the tables and of what each command holds between its steps.
TypeOK ==
  /\ orgs \subseteq Orgs
  /\ human \in [Humans -> Orgs \cup {None}]
  /\ agent \in [Agents -> {None} \cup AgentRows]
  /\ identity \in [Agents -> {None} \cup IdentityRows]
  /\ tokens \subseteq Agents \X Orgs /\ events \subseteq Agents \X Orgs
  /\ cli \in [Clis -> {Idle} \cup Commands \cup Issues]
  /\ commands \in 0..MaxCommands
  /\ orphans \subseteq Agents /\ restated \in BOOLEAN

\* At most one organization uses the id.  Nothing in the code sees to it: two
\* organizations may register one id, and the id of a discovered agent is made
\* from the client's name alone (discovery.py:48, 63).
Exclusive(a) == \A o, u \in Orgs : <<o, a>> \in Uses /\ <<u, a>> \in Uses => o = u

\* Everything an agent hangs together with stays in its own organization,
\* whatever commands raced or died, as far as the id it is looked up by is no
\* other organization's too: its owner (registry.py:231-246,
\* discovery.py:140-152), the tokens its gateways accept (registry.py:329-352)
\* and the events filed under its id, and its parent (registry.py:206-223).
\* An id that two organizations share therefore costs nobody but those who
\* use it, and the agents they put under it.
OneOrganization ==
  \A a \in Agents : agent[a] # None =>
    LET o == agent[a].org
        parent == IF identity[a] = None THEN None ELSE identity[a].parent
    IN  /\ Exclusive(a) =>
             /\ agent[a].owner # None => human[agent[a].owner] = o
             /\ \A t \in tokens \cup events : t[1] = a => t[2] = o
        /\ parent # None /\ Exclusive(parent) => agent[parent].org = o

\* Claiming means "credential-rotated, not just owned" (discovery.py:27-32,
\* 114-117): an active agent has an identity and a credential to revoke, or
\* a command is about to issue it, or died just before; an unclaimed one has
\* neither owner, identity nor credential, however often it is met again.
ClaimedIsRevocable ==
  \A a \in Agents :
    LET issued == \E t \in tokens : t[1] = a IN
      CASE agent[a] = None -> identity[a] = None /\ ~issued
        [] agent[a] # None /\ agent[a].status = "unclaimed" ->
             agent[a].owner = None /\ identity[a] = None /\ ~issued
        [] OTHER ->
             /\ agent[a].owner # None /\ identity[a] # None
             /\ \/ issued \/ a \in orphans
                \/ \E p \in Clis : cli[p].pc = "issue" /\ cli[p].agent = a

\* "Authority only ever narrows going down a delegation chain"
\* (docs/features.md:26), for commands racing between their check and their
\* write, as long as no identity that is somebody's parent is replaced: the
\* parent's scope is looked at once, at registration (registry.py:224-229).
AuthorityNarrows ==
  ~restated =>
    \A a \in Agents : identity[a] # None /\ identity[a].parent # None =>
      identity[a].scope \subseteq identity[identity[a].parent].scope
===============================================================================
