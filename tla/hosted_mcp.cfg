SPECIFICATION FairSpec
CONSTANTS
  Absent = Absent
  Isolates = {"east", "west"}
  Users = {"ann", "bob"}
  Ids = {"s1"}
  MaxStream = 2
  Reqs = {"r1", "r2"}
  Tasks = {"answer", "todo", "move", "tick", "learn", "hello", "hi", "draft", "path", "empty", "pry", "end", "inbox", "people", "alive"}
  TaskInfo <- MCTaskInfo
  Boards = {"plan"}
  Mail = {"mine", "other", "card"}
  MailInfo <- MCMailInfo
  Tokens = {"ann", "bob", "game", "grok"}
  TokenInfo <- MCTokenInfo
  Config <- MCConfig
  Scopes <- MCScopes
  PostLimit = 2
INVARIANTS
  OneStreamPerSession SessionsHold RetriesAreSafe OkMeansDone
PROPERTIES
  StreamReopens
CHECK_DEADLOCK FALSE
