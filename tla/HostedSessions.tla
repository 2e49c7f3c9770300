--------------------------- MODULE HostedSessions ---------------------------
(***************************************************************************)
(* Transport sessions of the hosted MCP server (mcp/transport,             *)
(* mcp/session, and the handlers of mcp/routes/mcp.ts up to the tools).    *)
(*                                                                         *)
(* A session is a row in KV, which every isolate reads.  The one event     *)
(* stream a session may have lives in the memory of the isolate that       *)
(* opened it.  Isolates are recycled at any time and share only the KV.    *)
(* A request keeps its place (`pc`) and its local variables in `req[r]`;   *)
(* each action runs up to the next await.                                  *)
(***************************************************************************)
EXTENDS HostedDoor

CONSTANTS
  Isolates,   \* server processes, as Deno Deploy runs them
  Ids,        \* BOUND: session ids ever made (crypto.randomUUID)
  MaxStream,  \* BOUND: event streams ever opened
  Reqs        \* requests in flight at the same time

VARIABLES
  rows,      \* KV ["mcp_sessions", id]: the owner
  old,       \* sessions whose age exceeds SESSION_TTL_MS
  owner,     \* ids made so far, with the subject each was made for
  local,     \* what each isolate remembers of a session: owner and stream
  streams,   \* event streams: isolate, session, open or not, client gone or not
  req,       \* requests in flight
  told,      \* ids a client has received
  ending,    \* history: ids a DELETE was accepted for
  ended,     \* history: ids a DELETE was answered for
  lost       \* history: live sessions their owner was told not to exist

Streams == 1..MaxStream

\* What an isolate remembers of a session, and an event stream.
Row       == [sub : Users, sse : Streams \cup {Absent}]
StreamRow == [iso : Isolates, id : Ids, open : BOOLEAN, gone : BOOLEAN]

ASSUME SessionAssumption ==
  /\ MaxStream \in Nat /\ Absent \notin Streams \cup Row \cup StreamRow
  /\ Absent \notin Ids \cup Users

sessionVars == <<rows, old, owner, local, streams, told, ending, ended, lost>>

Idle == [op |-> "none", pc |-> "idle", iso |-> Absent, tok |-> Absent, sub |-> Absent, slug |-> Absent,
         id |-> Absent,
         row |-> Absent, dead |-> FALSE, batch |-> <<>>, at |-> 0, step |-> 0, ok |-> {}]

\* The request goes on at pc, is answered, or has a new session.
At(r, pc)   == req[r].pc = pc
Goes(r, pc) == req' = [req EXCEPT ![r].pc = pc]
Answer(r)   == req' = [req EXCEPT ![r] = Idle]
Tells(r)    == told' = told \cup ({req[r].id} \ {Absent})

\* A request arrives with headers that let it in, and maybe an id its client
\* knows: initialize ignores the id, DELETE needs one.
Methods(op, batch) ==
  IF op = "call" THEN {IF batch = <<>> THEN "notification" ELSE "tool"} ELSE {op}

Arrive(r, i, h, op, id, batch) ==
  /\ req[r] = Idle /\ Door(h, Methods(op, batch)) = "in"
  /\ op = "initialize" => id = Absent
  /\ op = "end" => id # Absent
  /\ op # "call" => batch = <<>>
  /\ \E slug \in Slugs(h) : req' = [req EXCEPT ![r] =
       [Idle EXCEPT !.op = op, !.iso = i, !.tok = Credential(h), !.sub = Subject(h),
                    !.slug = slug, !.id = id, !.batch = batch,
                    !.dead = id \in ended, !.at = 1, !.step = 1,
                    !.pc = IF op = "initialize" THEN "create"
                           ELSE IF id = Absent THEN "bind" ELSE "read"]]
  /\ UNCHANGED sessionVars

-----------------------------------------------------------------------------
\* Isolate i forgets the sessions D and cancels their streams.
Forgotten(i, D) == [local EXCEPT ![i] = [id \in Ids |-> IF id \in D THEN Absent ELSE @[id]]]
AttachedTo(i, D) == {s \in Streams : \E id \in D : local[i][id] # Absent /\ local[i][id].sse = s}
Closed(S) == [s \in Streams |-> IF s \in S THEN [streams[s] EXCEPT !.open = FALSE] ELSE streams[s]]

Forgets(i, D) ==
  /\ local' = Forgotten(i, D)
  /\ streams' = Closed(AttachedTo(i, D))

\* MUTANT: only an isolate that does not know the session asks the KV.
RowSeenLocally(i, id) == IF local[i][id] # Absent THEN local[i][id].sub ELSE rows[id]

RowSeen(i, id) == rows[id]

\* SessionStore.get
ReadRow(r) ==
  /\ At(r, "read")
  /\ req' = [req EXCEPT ![r].row = RowSeen(req[r].iso, req[r].id), ![r].pc = "resolve"]
  /\ UNCHANGED sessionVars

Found(q) == q.row # Absent

\* 404: the client has to initialize again.
NotFound(r) ==
  /\ Answer(r)
  /\ lost' = lost \cup {id \in told \ (old \cup ending) : id = req[r].id /\ owner[id] = req[r].sub}
  /\ UNCHANGED <<owner, told, ending, ended, old>>

ResolveGone(r) ==
  /\ At(r, "resolve") /\ ~Found(req[r])
  /\ Forgets(req[r].iso, {req[r].id})
  /\ NotFound(r)
  /\ UNCHANGED rows

\* Too old: the store deletes the session itself, the row in a later step.
ResolveOld(r) ==
  /\ At(r, "resolve") /\ Found(req[r]) /\ req[r].id \in old
  /\ Forgets(req[r].iso, {req[r].id})
  /\ Goes(r, "expire")
  /\ UNCHANGED <<rows, old, owner, told, ending, ended, lost>>

Expire(r) ==
  /\ At(r, "expire")
  /\ rows' = [rows EXCEPT ![req[r].id] = Absent]
  /\ NotFound(r)
  /\ UNCHANGED <<local, streams>>

\* The isolate now knows the session, whoever asked.
Hydrated(q) ==
  IF local[q.iso][q.id] # Absent THEN local
  ELSE [local EXCEPT ![q.iso][q.id] = [sub |-> q.row, sse |-> Absent]]

ResolveForeign(r) ==
  /\ At(r, "resolve") /\ Found(req[r]) /\ req[r].id \notin old /\ req[r].row # req[r].sub
  /\ local' = Hydrated(req[r])
  /\ NotFound(r)
  /\ UNCHANGED <<rows, streams>>

Resolves(r) ==
  /\ At(r, "resolve") /\ Found(req[r]) /\ req[r].id \notin old
  /\ req[r].row = req[r].sub

\* GET answers 409 if it sees a stream; otherwise it and POST go on to bind.
Resolve(r) ==
  /\ Resolves(r) /\ req[r].op # "end"
  /\ local' = Hydrated(req[r])
  /\ IF req[r].op = "open" /\ local'[req[r].iso][req[r].id].sse # Absent
     THEN Answer(r) ELSE Goes(r, "bind")
  /\ UNCHANGED <<rows, old, owner, streams, told, ending, ended, lost>>

\* DELETE: this isolate forgets at once, the row goes in a later step.
ResolveEnd(r) ==
  /\ Resolves(r) /\ req[r].op = "end"
  /\ Forgets(req[r].iso, {req[r].id})
  /\ ending' = ending \cup {req[r].id}
  /\ Goes(r, "drop")
  /\ UNCHANGED <<rows, old, owner, told, ended, lost>>

Drop(r) ==
  /\ At(r, "drop")
  /\ rows' = [rows EXCEPT ![req[r].id] = Absent]
  /\ ended' = ended \cup {req[r].id}
  /\ Answer(r)
  /\ UNCHANGED <<old, owner, local, streams, told, ending, lost>>

-----------------------------------------------------------------------------
\* The hub binds the agent, or the request is answered with its error.
BindFails(r) == At(r, "bind") /\ Answer(r) /\ UNCHANGED sessionVars

Bind(r) ==
  /\ At(r, "bind") /\ HubTakes(req[r].tok)
  /\ \/ /\ req[r].op = "initialize" \/ (req[r].op = "call" /\ req[r].batch = <<>>)
        /\ Answer(r) /\ Tells(r)
     \/ req[r].op = "call" /\ req[r].batch # <<>> /\ Goes(r, "tool") /\ UNCHANGED told
     \/ /\ req[r].op = "open" /\ UNCHANGED told
        /\ Goes(r, IF req[r].id = Absent THEN "create" ELSE "attach")
  /\ UNCHANGED <<rows, old, owner, local, streams, ending, ended, lost>>

\* SessionStore.create: sweeps this isolate, remembers the session, then stores it.
Create(r, id) ==
  /\ At(r, "create") /\ owner[id] = Absent
  /\ owner' = [owner EXCEPT ![id] = req[r].sub]
  /\ local' = [Forgotten(req[r].iso, old) EXCEPT ![req[r].iso][id] = [sub |-> req[r].sub, sse |-> Absent]]
  /\ streams' = Closed(AttachedTo(req[r].iso, old))
  /\ req' = [req EXCEPT ![r].id = id, ![r].pc = "persist"]
  /\ UNCHANGED <<rows, old, told, ending, ended, lost>>

Persist(r) ==
  /\ At(r, "persist")
  /\ rows' = [rows EXCEPT ![req[r].id] = req[r].sub]
  /\ Goes(r, IF req[r].op = "open" THEN "attach" ELSE "bind")
  /\ UNCHANGED <<old, owner, local, streams, told, ending, ended, lost>>

\* MUTANT: the check that GET made before it bound the agent is enough.
AttachesAnyway(i, id) == local[i][id] # Absent

Attaches(i, id) == local[i][id] # Absent /\ local[i][id].sse = Absent

\* openStandaloneSseStream: a stream that cannot be attached is born broken.
Attach(r, s) ==
  /\ At(r, "attach") /\ streams[s] = Absent /\ \A t \in 1..(s - 1) : streams[t] # Absent
  /\ Attaches(req[r].iso, req[r].id)
  /\ local' = [local EXCEPT ![req[r].iso][req[r].id].sse = s]
  /\ streams' = [streams EXCEPT ![s] =
       [iso |-> req[r].iso, id |-> req[r].id, open |-> TRUE, gone |-> FALSE]]
  /\ Answer(r) /\ Tells(r)
  /\ UNCHANGED <<rows, old, owner, ending, ended, lost>>

AttachFails(r) ==
  /\ At(r, "attach") /\ ~Attaches(req[r].iso, req[r].id)
  /\ Answer(r) /\ Tells(r)
  /\ UNCHANGED <<rows, old, owner, local, streams, ending, ended, lost>>

-----------------------------------------------------------------------------
\* MUTANT: a stream that ends leaves its place taken.
DetachNothing(i, id) == local

Detach(i, id) ==
  IF local[i][id] = Absent THEN local ELSE [local EXCEPT ![i][id].sse = Absent]

ClientLeaves(s) ==
  /\ streams[s] # Absent /\ streams[s].open /\ ~streams[s].gone
  /\ streams' = [streams EXCEPT ![s].gone = TRUE]
  /\ UNCHANGED <<rows, old, owner, local, req, told, ending, ended, lost>>

\* The runtime calls cancel of the stream of a connection that is gone.
RuntimeCancels(s) ==
  /\ streams[s] # Absent /\ streams[s].open /\ streams[s].gone
  /\ local' = Detach(streams[s].iso, streams[s].id)
  /\ streams' = [streams EXCEPT ![s].open = FALSE]
  /\ UNCHANGED <<rows, old, owner, req, told, ending, ended, lost>>

\* The hub goes on with a call that was sent to it.
Outlives(q) == q.pc = "hub"

Recycle(i) ==
  /\ local' = [local EXCEPT ![i] = [id \in Ids |-> Absent]]
  /\ streams' = [s \in Streams |-> IF streams[s] # Absent /\ streams[s].iso = i
                                   THEN [streams[s] EXCEPT !.open = FALSE] ELSE streams[s]]
  /\ req' = [r \in Reqs |-> IF req[r].iso # i THEN req[r]
                            ELSE IF Outlives(req[r]) THEN [req[r] EXCEPT !.iso = Absent] ELSE Idle]
  /\ UNCHANGED <<rows, old, owner, told, ending, ended, lost>>

\* A day passes for a session; KV drops its row at the same age, or later.
Age(id) ==
  /\ owner[id] # Absent /\ id \notin old
  /\ old' = old \cup {id}
  /\ UNCHANGED <<rows, owner, local, streams, req, told, ending, ended, lost>>

KvExpires(id) ==
  /\ id \in old /\ rows[id] # Absent
  /\ rows' = [rows EXCEPT ![id] = Absent]
  /\ UNCHANGED <<old, owner, local, streams, req, told, ending, ended, lost>>

SessionStep(r) ==
  \/ ReadRow(r) \/ ResolveGone(r) \/ ResolveOld(r) \/ Expire(r) \/ ResolveForeign(r)
  \/ Resolve(r) \/ ResolveEnd(r) \/ Drop(r) \/ BindFails(r) \/ Bind(r) \/ Persist(r)
  \/ \E id \in Ids : Create(r, id)
  \/ \E s \in Streams : Attach(r, s)
  \/ AttachFails(r)

InitSessions ==
  /\ rows = [id \in Ids |-> Absent]
  /\ owner = [id \in Ids |-> Absent]
  /\ old = {} /\ told = {} /\ ending = {} /\ ended = {} /\ lost = {}
  /\ local = [i \in Isolates |-> [id \in Ids |-> Absent]]
  /\ streams = [s \in Streams |-> Absent]
  /\ req = [r \in Reqs |-> Idle]
=============================================================================
