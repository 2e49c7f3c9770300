------------------------------ MODULE HostedMcp ------------------------------
(***************************************************************************)
(* The hosted MCP server: sessions, event streams and tools, with clients  *)
(* that come back with what they know, retry what was not answered, and    *)
(* leave, and isolates that are recycled at any moment.                    *)
(***************************************************************************)
EXTENDS HostedTools

CONSTANTS
  Scopes,      \* BOUND: the operations, isolates, headers and batches of a behaviour, and
               \* what may be sealed at its start
  PostLimit    \* BOUND: commits of one task at the hub

\* What clients send
Endpoints == {"initialize", "open", "end", "call"}

ASSUME ScopeAssumption ==
  /\ PostLimit \in Nat
  /\ \A s \in Scopes :
       /\ s.isos \subseteq Isolates /\ s.batches \subseteq Seq(Tasks)
       /\ s.sealed \subseteq Boards \cup Mail
       /\ \A h \in s.shown : Credential(h) \in Tokens \cup {Absent}

VARIABLE scope

vars == <<sessionVars, req, void, toolVars, scope>>

Init == InitDoor /\ InitSessions /\ InitTools /\ scope \in Scopes /\ sealed \in SUBSET scope.sealed

\* A client sends what it has no answer for, the same batch again if need be.
Wants(batch) ==
  /\ \A k \in 1..Len(batch) : batch[k] \notin done /\ post[batch[k]] < PostLimit

\* BOUND: as long as there are ids and streams to give.
Room(op, id) ==
  /\ op = "initialize" \/ (op = "open" /\ id = Absent) => \E new \in Ids : owner[new] = Absent
  /\ op = "open" => \E s \in Streams : streams[s] = Absent

Client(r, i, h, op) ==
  /\ op \in scope.ops \cap Endpoints
  /\ \E id \in told \cup {Absent}, batch \in scope.batches :
       Room(op, id) /\ Wants(batch) /\ Arrive(r, i, h, op, id, batch)

Server(r) == (SessionStep(r) /\ UNCHANGED toolVars) \/ ToolStep(r)

World ==
  \/ \E s \in Streams : ClientLeaves(s) \/ RuntimeCancels(s)
  \/ \E i \in Isolates : "recycle" \in scope.ops /\ Recycle(i)
  \/ \E id \in Ids : "age" \in scope.ops /\ (Age(id) \/ KvExpires(id))

Next ==
  \/ /\ \/ \E r \in Reqs :
             \/ \E i \in scope.isos, h \in scope.shown, op \in scope.ops : Client(r, i, h, op) /\ UNCHANGED toolVars
             \/ Server(r)
        \/ World /\ UNCHANGED toolVars
        \/ "hub" \in scope.ops /\ HubChanges
     /\ UNCHANGED <<void, scope>>
  \/ /\ "void" \in scope.ops /\ \E t \in Tokens : Voids(t)
     /\ UNCHANGED <<sessionVars, req, toolVars, scope>>

Spec == Init /\ [][Next]_vars

\* The runtime notices connections that are gone.
Fairness == \A s \in Streams : WF_vars(RuntimeCancels(s) /\ UNCHANGED <<void, toolVars, scope>>)

FairSpec == Spec /\ Fairness

-----------------------------------------------------------------------------
TypeOK ==
  /\ rows \in [Ids -> Users \cup {Absent}] /\ owner \in [Ids -> Users \cup {Absent}]
  /\ local \in [Isolates -> [Ids -> Row \cup {Absent}]]
  /\ streams \in [Streams -> StreamRow \cup {Absent}]
  /\ old \subseteq Ids /\ told \subseteq Ids /\ ending \subseteq Ids /\ ended \subseteq Ids /\ lost \subseteq Ids
  /\ post \in [Tasks -> Nat] /\ keyRow \subseteq Tasks /\ stored \subseteq Tasks
  /\ fine \subseteq done /\ done \subseteq Tasks /\ crossed \subseteq Tasks
  /\ archived \subseteq Boards /\ sealed \subseteq Boards \cup Mail /\ void \subseteq Tokens
  /\ scope \in Scopes

\* "Only one SSE stream is allowed per session": on one isolate, however many
\* GETs of a session wait for the hub at the same time (isolates do not see
\* each other's streams).
OneStreamPerSession ==
  \A s, t \in Streams :
    s # t /\ streams[s] # Absent /\ streams[t] # Absent /\ streams[s].open /\ streams[t].open
      => <<streams[s].iso, streams[s].id>> # <<streams[t].iso, streams[t].id>>

\* A session outlives the isolates: its owner is told that it does not exist
\* only when it is a day old or somebody deletes it; and when DELETE has been
\* answered, no isolate serves a later request with it.
SessionsHold ==
  /\ lost = {}
  /\ \A r \in Reqs : req[r].dead => req[r].pc \in {"read", "resolve"}

\* A host may send again what was not answered because the isolate was recycled,
\* if the task has an idempotency key: it is done once, except when two tries are
\* at the hub at the same time.  It may always send again what it was told only reads.
RetriesAreSafe ==
  \A n \in Tasks :
    /\ Tool(n) \in ReadOnlyHint => post[n] = 0 /\ n \notin stored
    /\ Info(n).key /\ n \notin crossed => post[n] <= 1

\* Who is told that a task is done finds it done at the hub, also when the tool
\* had to look first, stored a card in between, or was in a batch with tasks
\* that failed.
OkMeansDone ==
  \A n \in fine : \A k \in DOMAIN Plan[n] :
    /\ Plan[n][k] = "putAgentHandshake" => n \in stored
    /\ Plan[n][k] \in MailWrites \cup BoardWrites => post[n] >= 1

\* When the client of a stream has gone, its session becomes free for a new
\* stream.
StreamReopens ==
  \A s \in Streams :
    streams[s] # Absent /\ streams[s].gone
      ~> \A i \in Isolates, id \in Ids : local[i][id] # Absent => local[i][id].sse # s
=============================================================================
