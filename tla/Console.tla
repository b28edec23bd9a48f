-------------------------------- MODULE Console --------------------------------
(***************************************************************************)
(* The console's pages over AgentQueries: the walks of queries.py up and   *)
(* down the delegation chain, the dashboard and an agent's page, as        *)
(* app.py's routes call them.                                              *)
(***************************************************************************)
EXTENDS AgentQueries, Sequences, SequencesExt

CONSTANT MaxHops  \* max_hops and _max_depth

ASSUME HopsAssumption == MaxHops \in Nat \ {0}

\* The dashboard route; with no agent in the database it shows onboarding.
Dashboard(o) == IF RowsOf(None) = {} THEN {} ELSE ListAgents(o, FALSE)

\* Mutant: the join is not restricted to the organization.
JoinedUnfiltered(o) == {a \in RowsOf(None) : identity[a] # None}

\* agent_identities JOIN agents.
Joined(o) == {a \in RowsOf(o) : identity[a] # None}

\* One round of _ancestor_chain's loop: the next identity up, unless there is
\* none, its agent is not one of o's or is in the chain already.
OneUp(chain, start, o) ==
  LET current == IF chain = <<>> THEN start ELSE ParentOf(Last(chain)) IN
    IF current \in Joined(o) \ Range(chain) THEN Append(chain, current) ELSE chain

\* The chain after n rounds; one that stopped growing stays as it is.
Climb(start, o) ==
  LET chain[n \in Nat] == IF n = 0 THEN <<>> ELSE OneUp(chain[n - 1], start, o)
  IN  chain

\* Mutant: the hop limit is off by one.
AncestorChainLonger(start, o, hops) == Reverse(Climb(start, o)[hops + 1])

\* _ancestor_chain: at most `hops` rows and none twice, returned root first.
AncestorChain(start, o, hops) == Reverse(Climb(start, o)[hops])

ChildrenOf(a, o) == {b \in Joined(o) : identity[a] # None /\ ParentOf(b) = a}

\* One level of _delegation_children for agent a, as the ids of its nodes and
\* of the nodes below them; `deeper` has the trees one level lower.
OneLevel(deeper, a, seen, o) ==
  IF a \in seen THEN {}
  ELSE ChildrenOf(a, o) \cup UNION {deeper[b][seen \cup {a}] : b \in ChildrenOf(a, o)}

\* _delegation_children for every _max_depth, agent and _seen_agent_ids.
DelegationChildren(o) ==
  LET tree[depth \in Nat] ==
        [a \in Agents |-> [seen \in SUBSET Agents |->
           IF depth = 0 THEN {} ELSE OneLevel(tree[depth - 1], a, seen, o)]]
  IN  tree

\* Breadcrumb and nested tree of an agent's page: past the row itself the
\* agent's own organization replaces the console's.
Breadcrumb(a, hops) == AncestorChain(ParentOf(a), agent[a].org, hops)
SubAgents(a, hops) == DelegationChildren(agent[a].org)[hops][a][{}]

\* get_agent; neither the count nor the parent is filtered by organization.
GetAgent(a, o) ==
  IF a \notin RowsOf(o) THEN None
  ELSE [org |-> agent[a].org, owner |-> agent[a].owner,
        count |-> Cardinality({e \in events : e[1] = a}),
        parent |-> ParentOf(a),
        chain |-> Breadcrumb(a, MaxHops),
        below |-> SubAgents(a, MaxHops)]

-------------------------------------------------------------------------------
(* Properties.                                                              *)

\* The parent of a within organization o.
ParentIn(a, o) == IF ParentOf(a) \in Joined(o) THEN ParentOf(a) ELSE None

\* Reference: every identity above a in a's organization, the least set that
\* holds a's parent there and with an identity its parent.
Above(a) ==
  LET o == agent[a].org IN
    {b \in Joined(o) : \A S \in SUBSET Joined(o) :
       (\A x \in S \cup {a} : ParentIn(x, o) \in S \cup {None}) => b \in S}

Looped(a) == \E b \in Above(a) : b \in Above(b)

\* Where the way up from a leaves a's organization.
Cuts(a) ==
  {b \in Above(a) \cup {a} : ParentOf(b) # None /\ ParentIn(b, agent[a].org) = None}

\* The two traversals of the delegation graph agree with it and with each
\* other, also where re-registrations have closed a cycle or moved a parent to
\* another organization and where it is deeper than the limit: the breadcrumb
\* of a names each identity above a in a's organization once, up to max_hops,
\* and ends with the parent, if that is there ("it's just ancestor_chain[-1]",
\* queries.py:104-106); b is in it exactly when a is in the tree of b
\* (queries.py:176-272).
ViewsMatchDelegation ==
  \A a \in RowsOf(None), hops \in 1..MaxHops :
    LET chain == Breadcrumb(a, hops)
        parent == ParentIn(a, agent[a].org)
    IN
      /\ Range(chain) \subseteq Above(a)
      /\ Len(chain) = Cardinality(Range(chain))
      /\ Len(chain) = Min({hops, Cardinality(Above(a))})
      /\ parent # None => parent = Last(chain)
      /\ \A b \in RowsOf(None) : b \in Range(chain) <=> a \in SubAgents(b, hops)

\* No agent is lost between the flat list and the nested views (list_agents,
\* queries.py:129-141): each is reached from exactly one dashboard row,
\* unless it is deeper than the limit, hangs on a delegation cycle or under a
\* parent that has become another organization's, in which case no row leads
\* to it; and a cycle takes a re-registration of somebody's parent, a lost
\* parent an id that two organizations use.
DashboardLeadsToEachAgent ==
  \A o \in Orgs : \A a \in RowsOf(o) :
    /\ \A hops \in 1..MaxHops :
         LET rows == {r \in Dashboard(o) : a = r \/ a \in SubAgents(r, hops)} IN
           Cardinality(rows) =
             IF Looped(a) \/ Cuts(a) # {} \/ Cardinality(Above(a)) > hops THEN 0 ELSE 1
    /\ Looped(a) => restated
    /\ \A b \in Cuts(a) : ~Exclusive(ParentOf(b))

\* The page of an agent on a console restricted to one organization (T-014:
\* queries.py:282-337) is of that organization's rows only, however its chains
\* were re-registered.  What the page looks up by an id alone, the owner, the
\* activity count (queries.py:307-309) and the parent, is that organization's
\* as far as no other one uses that id: a shared id does show the other's.
ConsoleStaysInOrg ==
  \A o \in Orgs : \A a \in Agents : GetAgent(a, o) # None =>
    LET page == GetAgent(a, o) IN
      /\ page.org = o
      /\ Range(page.chain) \cup page.below \subseteq RowsOf(o)
      /\ Exclusive(a) =>
           /\ page.owner # None => human[page.owner] = o
           /\ page.count = Cardinality(ListEvents(a, o))
      /\ page.parent # None /\ Exclusive(page.parent) => page.parent \in RowsOf(o)
===============================================================================
