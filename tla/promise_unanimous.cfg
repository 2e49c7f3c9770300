CONSTANTS
  alice = alice  bob = bob  carol = carol
  as = as  bs = bs  cs = cs  bw = bw
  Users <- TeamUsers
  Agents <- TeamAgents
  AgentInfo <- TeamInfo
  DefaultAgent <- TeamDefault
  OrgOf <- TeamOrg
  Linked <- NoLinks
  Sends <- TeamMail
  Handoffs = {}
  Reqs = {r1, r2}
  CreateKeys = {}
  ReplyKeys = {}
  MaxThread = 1
  TurnChoices <- NoTurns
  MaxId = 4
  Ops = {"create", "reply", "propose", "approve"}
  Absent = Absent
SPECIFICATION Spec
SYMMETRY Workers
CHECK_DEADLOCK FALSE
INVARIANTS
  UnanimousConsent
