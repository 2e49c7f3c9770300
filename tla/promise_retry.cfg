CONSTANTS
  alice = alice  bob = bob  carol = carol
  as = as  bs = bs  cs = cs  bw = bw
  Users <- PairUsers
  Agents <- OnlineAgents
  AgentInfo <- OnlineInfo
  DefaultAgent <- OnlineDefault
  OrgOf <- PairOrg
  Linked <- NoLinks
  Sends <- OnlineMail
  Handoffs = {}
  Reqs = {r1, r2}
  CreateKeys = {}
  ReplyKeys = {k1}
  MaxThread = 1
  TurnChoices <- OneAwaits
  MaxId = 3
  Ops = {"create", "reply"}
  Absent = Absent
SPECIFICATION Spec
SYMMETRY Workers
CHECK_DEADLOCK FALSE
INVARIANTS
  OneMessagePerKey
