---------------------------- MODULE ThreadStore ----------------------------
(***************************************************************************)
(* The key-value rows of one hub that mail threads live in, and the        *)
(* requests that read and write them (hub/store/store.ts, types.ts).       *)
(*                                                                         *)
(* A handler is a chain of awaits on Deno KV.  Every `kv.get` or `kv.list` *)
(* is a step of its own and every `kv.set`, `kv.delete` or atomic commit   *)
(* is one more; between two steps of a request any other request may run.  *)
(* What a request has read stays in its record, as it stays in the         *)
(* handler's local variables.                                              *)
(*                                                                         *)
(* The directory (users, organizations, agents, approved external links)   *)
(* does not change here, so reads of it are not steps.                     *)
(***************************************************************************)
EXTENDS Naturals, FiniteSets

CONSTANTS
  Users,          \* user ids
  Agents,         \* agent ids (registered slots)
  AgentInfo,      \* agent id -> [user, transport, slug]
  DefaultAgent,   \* user -> the agent a bare address resolves to
  OrgOf,          \* user -> organization
  Linked,         \* approved external contacts: a set of {user, user}
  Reqs,           \* HTTP requests that may be in flight at the same time
  CreateKeys,     \* idempotency keys that clients send with createThread
  ReplyKeys,      \* and with postReply
  Sends,          \* <<agent, address>>: the first messages that clients send
  Handoffs,       \* agents that repliers hand a thread to
  TurnChoices,    \* what clients declare as turns: sets of users, or Absent
  MaxId,          \* BOUND: ids handed out for threads, messages and proposals
  MaxThread,      \* BOUND: the largest id a thread may take
  Ops,            \* the endpoints that this instance exercises
  Absent          \* no row, no value

Modes      == {"e2e", "app_envelope"}
AllAgents  == "@all"       \* bare @all: the sender's own agents
OrgWide    == "@all@org"   \* @all@<org>: every member of the organization
Broadcasts == {AllAgents, OrgWide}
Ids        == 1..MaxId
Keys       == CreateKeys \cup ReplyKeys

ASSUME DirectoryAssumption ==
  /\ AgentInfo \in [Agents -> [user: Users, transport: {"sidecar", "mcp"}, slug: STRING]]
  /\ DefaultAgent \in [Users -> Agents]
  /\ \A u \in Users : AgentInfo[DefaultAgent[u]].user = u
  /\ DOMAIN OrgOf = Users
  /\ MaxId \in Nat /\ MaxThread \in 0..MaxId
  /\ Sends \subseteq Agents \X (Agents \cup Broadcasts)
  /\ Handoffs \subseteq Agents
  /\ Agents \cap Broadcasts = {}
  /\ TurnChoices \subseteq (SUBSET Users) \cup {Absent}
  /\ "system" \notin Users
  /\ Absent \notin Users /\ Absent \notin Agents /\ Absent \notin Keys

VARIABLES
  thread,       \* ["threads", id]: ThreadMeta rows
  inbox,        \* ["inbox", user, id]: InboxEntry rows
  messages,     \* ["messages", thread, id]: the stored messages
  payloads,     \* ["app_envelopes", thread, id]: keys of the app_envelope records
  idem,         \* ["idempotency", user, key] rows
  proposals,    \* ["downgrade_proposals", id] rows
  nextId,       \* source of fresh ids (crypto.randomUUID)
  req,          \* the requests in flight
  \* what follows is history: no handler reads it
  overwritten,  \* threads and proposals a commit replaced without having seen their last value
  answered,     \* [user, key, thread, id]: replies with a key, stored less than a day ago
  consented,    \* [user, id, thread]: who proposed, or asked to approve, proposal id for a thread
  denied        \* proposals for which a deny was saved

rows    == <<thread, inbox, messages, payloads, idem, proposals, nextId>>
history == <<overwritten, answered, consented, denied>>
vars    == <<rows, req, history>>

Owner(a)     == AgentInfo[a].user
IsSidecar(a) == a \in Agents /\ AgentInfo[a].transport = "sidecar"
IsWeb(a)     == a \in Agents /\ AgentInfo[a].transport = "mcp"
AgentsOf(u)  == {a \in Agents : Owner(a) = u}
Members(org) == {u \in Users : OrgOf[u] = org}

InboxRow   == [status: {"pending", "replied"}, role: {"sender", "recipient"}]
PointRow   == [message: Ids, approvers: SUBSET Agents]
ThreadRow  ==
  [kind: {"direct", "broadcast"}, status: {"open", "closed"}, mode: Modes,
   from: Users, fromAgent: Agents, audience: Agents \cup Broadcasts,
   external: BOOLEAN, participants: SUBSET Users,
   awaiting: (SUBSET Users) \cup {Absent}, replies: Nat, point: PointRow \cup {Absent}]
MessageRow ==
  [id: Ids, thread: Ids, from: Users \cup {"system"}, agent: Agents \cup {Absent},
   store: Modes, senderOnly: BOOLEAN]
IdemRow    == [kind: {"create_thread", "reply"}, thread: Ids, message: Ids]
ProposalRow ==
  [thread: Ids, agent: Agents, proposer: Users,
   status: {"pending", "approved", "denied"},
   required: SUBSET Agents, approvals: SUBSET Agents, divider: Ids \cup {Absent}]

ASSUME AbsentAssumption ==
  /\ Absent \notin Ids
  /\ Absent \notin {"sender", "recipient", "pending", "replied"}
  /\ Absent \notin ThreadRow /\ Absent \notin InboxRow /\ Absent \notin ProposalRow
  /\ Absent \notin PointRow /\ Absent \notin IdemRow

\* A request: what was asked, where its handler is (pc), what it has read.
Idle ==
  [op |-> "none", pc |-> "idle", user |-> Absent, tid |-> Absent, agent |-> Absent,
   to |-> Absent, key |-> Absent, late |-> FALSE,
   own |-> Absent, owner |-> Absent, snap |-> Absent, peers |-> [u \in Users |-> Absent],
   pid |-> Absent, prop |-> Absent, listed |-> {}, records |-> {}]

Endpoints == {"create", "reply", "close", "delete", "propose", "approve", "deny"}
Places ==
  {"idle", "inbox", "thread", "peers", "commit", "drop", "listMessages", "listPayloads",
   "dropInboxes", "dropBody", "check", "persist", "proposal", "save", "ownerInbox", "finalize"}
Roles   == {"sender", "recipient"}
Request ==
  [op: Endpoints \cup {"none"}, pc: Places,
   user: Users \cup {Absent}, tid: Ids \cup {Absent}, agent: Agents \cup {Absent},
   to: Agents \cup Broadcasts \cup {Absent}, key: Keys \cup {Absent}, late: BOOLEAN,
   own: Roles \cup {Absent}, owner: InboxRow \cup {Absent}, snap: ThreadRow \cup {Absent},
   peers: [Users -> Roles \cup {Absent}],
   pid: Ids \cup {Absent}, prop: ProposalRow \cup {Absent}, listed: SUBSET Ids, records: SUBSET Ids]

Init ==
  /\ thread = [t \in Ids |-> Absent]
  /\ inbox = [u \in Users |-> [t \in Ids |-> Absent]]
  /\ messages = {}
  /\ payloads = {}
  /\ idem = [u \in Users |-> [k \in Keys |-> Absent]]
  /\ proposals = [p \in Ids |-> Absent]
  /\ nextId = 1
  /\ req = [r \in Reqs |-> Idle]
  /\ overwritten = {}
  /\ answered = {}
  /\ consented = {}
  /\ denied = {}

(***************************************************************************)
(* Reads shared by the handlers.                                           *)
(***************************************************************************)

At(r, op, pc) == req[r].op = op /\ req[r].pc = pc

Becomes(r, q) == req' = [req EXCEPT ![r] = q]

\* A handler that returns or throws leaves nothing behind in memory.
Answer(r) == Becomes(r, Idle)

\* threadVisibleToOrg
Visible(u, row) ==
  \/ row.external
  \/ u \in row.participants
  \/ OrgOf[row.from] = OrgOf[u]

Role(u, t) == IF inbox[u][t] = Absent THEN Absent ELSE inbox[u][t].role

\* listThreadPeerUserIds: who may have an inbox row for the thread
PeerCandidates(row) ==
  IF row.participants # {} THEN row.participants
  ELSE {row.from} \cup Members(OrgOf[row.from])

\* canViewMessage
CanView(u, row, role, m) ==
  \/ m.from = u
  \/ ~(row.kind = "broadcast" /\ m.senderOnly)
  \/ role = "sender"

\* The first read of every thread endpoint but createThread and postReply:
\* no inbox row, "Not a thread participant".  Clients learn thread ids from
\* listThreads, so a request names a thread its user has a row for.
ReadOwnInbox(r, op, u, t) ==
  /\ op \in Ops
  /\ req[r] = Idle
  /\ inbox[u][t] # Absent

\* A commit is `stale` when the row it replaces changed since it was read.
Overwrites(row, seen, id) == overwritten \cup (IF row = seen THEN {} ELSE {id})

\* The process serving a request dies: nothing it holds in memory survives.
Crash(r) ==
  /\ "crash" \in Ops
  /\ req[r].pc # "idle"
  /\ Answer(r)
  /\ UNCHANGED <<rows, history>>

=============================================================================
