CONSTANTS
  alice = alice  bob = bob  carol = carol
  as = as  bs = bs  cs = cs  bw = bw
  Users <- PairUsers
  Agents <- WebAgents
  AgentInfo <- WebInfo
  DefaultAgent <- PairDefault
  OrgOf <- PairOrg
  Linked <- NoLinks
  Sends <- BothMail
  Handoffs = {}
  Reqs = {r1, r2}
  CreateKeys = {}
  ReplyKeys = {}
  MaxThread = 1
  TurnChoices <- NoTurns
  MaxId = 4
  Ops = {"create", "reply", "propose", "approve", "deny", "close"}
  Absent = Absent
SPECIFICATION Spec
CONSTRAINT OneMix
SYMMETRY Workers
CHECK_DEADLOCK FALSE
INVARIANTS
  ConsentBehindDowngrade
  DeniedStaysE2E
  PayloadBehindMessage
  DividerSplitsHistory
PROPERTIES
  RatchetIsOneWay
