SPECIFICATION Spec
CONSTANTS
  r1 = r1
  r2 = r2
  ann = ann
  bob = bob
  eve = eve
  Absent = Absent
  Reqs = {r1}
  Scopes <- MCInTurn
  Insiders = {ann, bob}
  Outsiders = {eve}
  Creator = ann
  Linked = {ann}
  Lists <- MCLists
  NameOf <- MCNameOf
  Names = {"backlog", "doing", "done", "later"}
  Views = {"list", "page"}
  LaneGap = 8
  LaneMinGap = 4
  MaxFiles = 1
  MaxProposal = 2
  MaxCard = 3
  MaxNote = 2
PROPERTY PointNeverMoves
CHECK_DEADLOCK FALSE
