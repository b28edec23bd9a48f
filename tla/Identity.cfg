SPECIFICATION Spec
CONSTANTS
  oA = oA
  oB = oB
  Orgs = {oA, oB}
  Humans = {h1, h2}
  Clis = {c1, c2}
  a1 = a1
  a2 = a2
  d = d
  Agents = {a1, a2, d}
  Discovered = {d}
  Tools = {t1}
  Uses <- MCUses
  None = None
  MaxCommands = 3
  MaxHops = 2
SYMMETRY Symmetry
INVARIANTS TypeOK OneOrganization ClaimedIsRevocable AuthorityNarrows
  ViewsMatchDelegation DashboardLeadsToEachAgent ConsoleStaysInOrg ExportPartitions
CHECK_DEADLOCK FALSE
