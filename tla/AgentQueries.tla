----------------------------- MODULE AgentQueries -----------------------------
(***************************************************************************)
(* What the console and the export select from the tables Identity keeps:  *)
(* the lists of console/queries.py and reports/export.py.  A console is    *)
(* started for one organization (--org) or for the whole database (None).  *)
(* Reads only; every operator is one query, and its invariants are checked *)
(* in every state the commands and gateways can bring the tables to.       *)
(***************************************************************************)
EXTENDS Identity

Ours(org, o) == o = None \/ org = o
RowsOf(o) == {a \in Agents : agent[a] # None /\ Ours(agent[a].org, o)}
ParentOf(a) == IF identity[a] = None THEN None ELSE identity[a].parent

\* Mutant: sub-agents stay in the flat list.
ListAgentsFlat(o, includeSubAgents) == RowsOf(o)

\* list_agents; sub-agents only where the export form asks for them.
ListAgents(o, includeSubAgents) ==
  {a \in RowsOf(o) : includeSubAgents \/ ParentOf(a) = None}

\* list_events of one agent.
ListEvents(a, o) == {e \in events : e[1] = a /\ Ours(e[2], o)}

\* Mutant: the owner filter forgets the organization.
ExportAcross(o, a, h) ==
  {e \in events :
     /\ Ours(e[2], o) \/ h # None
     /\ a = None \/ e[1] = a
     /\ h = None \/ (agent[e[1]] # None /\ agent[e[1]].owner = h)}

\* export_events_csv by agent and by owner; the owner is the agent's present one.
Export(o, a, h) ==
  {e \in events :
     /\ Ours(e[2], o)
     /\ a = None \/ e[1] = a
     /\ h = None \/ (agent[e[1]] # None /\ agent[e[1]].owner = h)}

\* The owners and agents the export form offers.
ExportOwners(o) == {h \in Humans : human[h] # None /\ Ours(human[h], o)}
ExportAgents(o) == ListAgents(o, TRUE)

-------------------------------------------------------------------------------
\* The compliance export (export.py:81-87) loses nothing and repeats nothing
\* when it is taken owner by owner or agent by agent, whoever the agents have
\* been handed to meanwhile: every event of an owned agent is in the export
\* of exactly one owner the form offers and every agent's event in that of
\* exactly one agent, unless another organization uses the agent's id too; and
\* none is in another organization's.  (A gap marker's agent-gateway has no
\* agents row; only the unfiltered export holds it.)
ExportPartitions ==
  \A o \in Orgs : \A e \in events :
    LET byOwner == {h \in ExportOwners(o) : e \in Export(o, None, h)}
        byAgent == {a \in ExportAgents(o) : e \in Export(o, a, None)}
    IN  /\ e[2] # o => \A h \in Humans \cup {None} : e \notin Export(o, None, h)
        /\ e[2] = o /\ Exclusive(e[1]) =>
             /\ Cardinality(byAgent) = 1
             /\ Cardinality(byOwner) = IF agent[e[1]].owner = None THEN 0 ELSE 1
===============================================================================
