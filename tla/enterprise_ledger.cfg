CONSTANTS
  acme = acme  vendor = vendor  bot = bot
  Orgs = {acme, vendor}
  Listings = {bot}
  OwnerOrg <- OneListing
  Threads = {t1}
  Days = {1, 2}
  Prices = {2}
  Amounts = {1}
  Reqs = {r1, r2}
  Limit = 1
  Tries = 2
  MaxCredit = 3
  None = None
SPECIFICATION FairSpec
INVARIANTS
  NeverOverdrawn
  BalanceIsTrail
  LoopGuardHolds
  GivesUpOnlyWhenBusy
PROPERTIES
  AlwaysAnswered
  ImplementsAccount
