SPECIFICATION Spec
CONSTANTS
  r1 = r1
  r2 = r2
  bo = bo
  cy = cy
  Absent = Absent
  Reqs = {r1, r2}
  Scopes <- MCScopes
  Addresses = {"pay", "box"}
  Subs = {"s1", "s2", "s3"}
  Slugs = {"acme", "ent"}
  Locals = {"ann", "bob"}
  HomeSlug = "acme"
  HomeSub = "s1"
  HomeLocal = "ann"
  MaxUser = 3
  MaxOrg = 2
  MaxInvite = 2
  MaxListing = 2
  MaxSlug = 2
  MaxAgent = 2
  OldAgents = {1}
  PubKeys = {"k1", "k2"}
  OldKey = "k1"
  MaxDevice = 5
  MaxKeys = 1
  MaxKeyId = 3
  Targets = {"alice"}
  Askers = {bo, cy}
  Unknown = "nobody"
  PinLimit = 2
  AskCap = 6
  TargetCap = 9
  MailCap = 2
  FlagLimit = 2
  MaxPin = 1
  MaxAsk = 2
  MaxLink = 2
  MaxMail = 3
  BlobQuota = 3
  BlobSizes = {1, 2}
  Voters = {"v"}
  MaxBlob = 3
  MaxPaper = 2
SYMMETRY MCSym
INVARIANTS
  HandlesResolve InviteAdmitsOne SlugIndexAgrees AddressHasOneListing OneAgentPerSlot NewKeyHasOneDevice RevokedKeyIsDead UnpairClosesMail GuessesBounded MailBounded QuotaIsSum
CHECK_DEADLOCK FALSE
