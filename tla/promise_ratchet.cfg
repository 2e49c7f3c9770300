CONSTANTS
  alice = alice  bob = bob  carol = carol
  as = as  bs = bs  cs = cs  bw = bw
  Users <- PairUsers
  Agents <- WebAgents
  AgentInfo <- WebInfo
  DefaultAgent <- PairDefault
  OrgOf <- PairOrg
  Linked <- NoLinks
  Sends <- DesktopMail
  Handoffs = {}
  Reqs = {r1, r2}
  CreateKeys = {}
  ReplyKeys = {}
  MaxThread = 1
  TurnChoices <- NoTurns
  MaxId = 4
  Ops = {"create", "reply", "propose", "approve"}
  Absent = Absent
SPECIFICATION Spec
SYMMETRY Workers
CHECK_DEADLOCK FALSE
PROPERTIES
  NeverReupgraded
