-------------------------- MODULE HostedMcpProofs --------------------------
(***************************************************************************)
(* Sessions, streams and tools of the hosted MCP server, for any number of *)
(* isolates, sessions, clients and requests in flight.                     *)
(*                                                                         *)
(* What an isolate decides rests on a row it read before it waited, or on  *)
(* memory that it shares with nobody.  The invariants say for each request *)
(* in flight what is certain of its session and of the tasks of its batch, *)
(* and for each stream that its isolate knows it.                          *)
(***************************************************************************)
EXTENDS HostedMcp, TLAPS

-----------------------------------------------------------------------------
(* Types *)

\* Requests
Places     == {"idle", "create", "bind", "read", "resolve", "expire", "drop", "persist", "attach",
               "tool", "hub"}
GivenSlugs ==
  UNION {Slugs(h) : h \in {g \in UNION {s.shown : s \in Scopes} : Credential(g) # Absent}}
Requests ==
  [op : Endpoints \cup {"none"}, pc : Places, iso : Isolates \cup {Absent},
   tok : Tokens \cup {Absent}, sub : Users \cup {Absent}, slug : GivenSlugs \cup {Absent},
   id : Ids \cup {Absent}, row : Users \cup {Absent}, dead : BOOLEAN, batch : Seq(Tasks),
   at : Nat, step : Nat, ok : SUBSET Tasks]

\* Where a request is tells what it has.
Placed(q) ==
  /\ q.pc = "idle" \/ (q.sub \in Users /\ (q.pc # "hub" => q.iso \in Isolates))
  /\ q.pc \in {"read", "resolve", "expire", "drop", "persist", "attach"} => q.id \in Ids
  /\ q.pc \notin {"tool", "hub"} => q.ok = {}
  /\ q.pc \notin {"idle", "tool", "hub"} => q.at = 1 /\ q.step = 1
  /\ q.pc \in {"tool", "hub"} =>
       /\ q.at \in 1..Len(q.batch) /\ q.step >= 1
       /\ \A n \in q.ok : \E k \in 1..q.at : q.batch[k] = n

TypeInv == TypeOK /\ req \in [Reqs -> Requests] /\ \A p \in Reqs : Placed(req[p])

\* What a request holds when it is answered.
LEMMA IdleFits == Idle \in Requests /\ Placed(Idle)
BY DEF Idle, Requests, Placed, Places

\* In a step of request r, the others stay as they are.
Alone(r) == req' \in [Reqs -> Requests] /\ \A p \in Reqs : p # r => req'[p] = req[p]

\* An answer leaves nothing of a request.
LEMMA Answered ==
  ASSUME req \in [Reqs -> Requests], NEW r \in Reqs, Answer(r)
  PROVE  Alone(r) /\ req'[r] = Idle
BY IdleFits DEF Answer, Alone

\* What a step of a request at the sessions does to requests: those that go to the
\* tools start with the first request of their first task.
SessionMove(r) ==
  /\ Alone(r) /\ Placed(req'[r])
  /\ req[r].pc \notin {"idle", "tool", "hub"}
  /\ req'[r].ok = {}
  /\ req'[r].pc \notin {"tool", "hub"} \/ (req'[r].pc = "tool" /\ req'[r].step = 1)

\* A request that goes on at pc, with all that it has.
LEMMA Gone ==
  ASSUME req \in [Reqs -> Requests], NEW r \in Reqs, NEW pc \in Places, Goes(r, pc)
  PROVE  Alone(r) /\ req'[r] = [req[r] EXCEPT !.pc = pc]
<1>1. [req[r] EXCEPT !.pc = pc] \in Requests
  BY DEF Requests
<1> QED
  BY <1>1 DEF Goes, Alone

\* Every step of a request at the sessions is such a move.
LEMMA SessionsMove ==
  ASSUME TypeInv, NEW r \in Reqs, SessionStep(r)
  PROVE  SessionMove(r)
<1> USE DEF TypeInv, SessionMove
<1>a. req \in [Reqs -> Requests] /\ req[r] \in Requests /\ Placed(req[r])
  OBVIOUS
<1>0. ASSUME Answer(r), req[r].pc \notin {"idle", "tool", "hub"}
      PROVE  SessionMove(r)
  BY <1>a, <1>0, Answered, IdleFits DEF Idle
<1>1. ASSUME NEW pc \in Places, Goes(r, pc), req[r].pc \notin {"idle", "tool", "hub"},
             pc \notin {"tool", "hub", "idle"},
             pc \in {"read", "resolve", "expire", "drop", "persist", "attach"} => req[r].id \in Ids
      PROVE  SessionMove(r)
  <2>1. Alone(r) /\ req'[r] = [req[r] EXCEPT !.pc = pc]
    BY <1>a, <1>1, Gone
  <2> QED
    BY <1>a, <1>1, <2>1 DEF Placed, Requests
<1>2. CASE ReadRow(r)
  <2>1. req[r].id \in Ids /\ rows[req[r].id] \in Users \cup {Absent} /\ At(r, "read")
    BY <1>a, <1>2 DEF ReadRow, At, Placed, TypeOK
  <2>2. req' = [req EXCEPT ![r].row = rows[req[r].id], ![r].pc = "resolve"]
    BY <1>2 DEF ReadRow, RowSeen
  <2>3. [req[r] EXCEPT !.row = rows[req[r].id], !.pc = "resolve"] \in Requests
    BY <1>a, <2>1 DEF Requests, Places
  <2>4. Alone(r) /\ req'[r] = [req[r] EXCEPT !.row = rows[req[r].id], !.pc = "resolve"]
    BY <1>a, <2>2, <2>3 DEF Alone
  <2> QED
    BY <1>a, <2>1, <2>4 DEF Placed, Requests, At
<1>3. CASE ResolveGone(r) \/ Expire(r) \/ ResolveForeign(r) \/ Drop(r) \/ BindFails(r) \/ AttachFails(r)
           \/ \E s \in Streams : Attach(r, s)
  BY <1>0, <1>3 DEF ResolveGone, Expire, ResolveForeign, NotFound, Drop, BindFails, AttachFails, Attach, At
<1>4. CASE ResolveOld(r)
  BY <1>1, <1>4, <1>a DEF ResolveOld, At, Places, Placed
<1>5. CASE Resolve(r)
  BY <1>0, <1>1, <1>5, <1>a DEF Resolve, Resolves, At, Places, Placed
<1>6. CASE ResolveEnd(r)
  BY <1>1, <1>6, <1>a DEF ResolveEnd, Resolves, At, Places, Placed
<1>7. CASE Bind(r)
  <2>1. CASE Answer(r)
    BY <1>0, <1>7, <2>1 DEF Bind, At
  <2>2. CASE req[r].batch # <<>> /\ Goes(r, "tool")
    <3>1. Alone(r) /\ req'[r] = [req[r] EXCEPT !.pc = "tool"] /\ req[r].pc = "bind"
      BY <1>a, <1>7, <2>2, Gone DEF Places, Bind, At
    <3>2. req[r].batch \in Seq(Tasks) /\ Len(req[r].batch) \in Nat \ {0}
      BY <1>a, <2>2 DEF Requests
    <3> QED
      BY <1>a, <3>1, <3>2 DEF Placed, Requests
  <2>3. CASE req[r].op = "open" /\ Goes(r, IF req[r].id = Absent THEN "create" ELSE "attach")
    <3>1. req[r].pc = "bind" /\ (req[r].id = Absent \/ req[r].id \in Ids)
      BY <1>a, <1>7 DEF Bind, At, Requests
    <3> QED
      BY <1>1, <2>3, <3>1 DEF Places
  <2> QED
    BY <1>7, <2>1, <2>2, <2>3 DEF Bind
<1>8. CASE \E id \in Ids : Create(r, id)
  <2>1. PICK id \in Ids : Create(r, id)
    BY <1>8
  <2>2. Alone(r) /\ req'[r] = [req[r] EXCEPT !.id = id, !.pc = "persist"] /\ req[r].pc = "create"
    <3>1. [req[r] EXCEPT !.id = id, !.pc = "persist"] \in Requests
      BY <1>a DEF Requests, Places
    <3> QED
      BY <1>a, <2>1, <3>1 DEF Create, At, Alone
  <2> QED
    BY <1>a, <2>2 DEF Placed, Requests
<1>9. CASE Persist(r)
  BY <1>1, <1>9, <1>a DEF Persist, At, Places, Placed
<1> QED
  BY <1>2, <1>3, <1>4, <1>5, <1>6, <1>7, <1>8, <1>9 DEF SessionStep

\* The task that a request is at.
LEMMA AtTask ==
  ASSUME NEW q \in Requests, Placed(q), q.pc \in {"tool", "hub"}
  PROVE  Task(q) \in Tasks /\ q.at \in 1..Len(q.batch) /\ Len(q.batch) \in Nat
         /\ q.batch \in Seq(Tasks) /\ q.step \in Nat \ {0} /\ q.sub \in Users
         /\ \A k \in 1..Len(q.batch) : q.batch[k] \in Tasks
BY DEF Placed, Task, Requests

\* What a step of a request at the tools does to requests, and to what clients know:
\* it works on, or is answered.
ToolMove(r) ==
  /\ Alone(r) /\ Placed(req'[r])
  /\ req[r].pc \in {"tool", "hub"}
  /\ \/ req'[r] = Idle
     \/ /\ req'[r].pc \in {"tool", "hub"}
        /\ req'[r].id = req[r].id /\ req'[r].dead = req[r].dead /\ req'[r].batch = req[r].batch
  /\ told' = told \/ told' = told \cup ({req[r].id} \ {Absent})
  /\ done' \subseteq Tasks /\ done \subseteq done'
  /\ fine' \subseteq done' /\ fine \subseteq fine'

\* A request that works on, with other values.
LEMMA WorkedOn ==
  ASSUME TypeInv, NEW r \in Reqs, req[r].pc \in {"tool", "hub"}, NEW q \in Requests, Placed(q),
         req' = [req EXCEPT ![r] = q], q.pc \in {"tool", "hub"},
         q.id = req[r].id, q.dead = req[r].dead, q.batch = req[r].batch,
         UNCHANGED <<done, fine, told>>
  PROVE  ToolMove(r) /\ req'[r] = q
<1>1. Alone(r) /\ req'[r] = q
  BY DEF TypeInv, Alone
<1> QED
  BY <1>1 DEF ToolMove, TypeInv, TypeOK

\* Working off a call of the batch is such a move.
LEMMA Advances ==
  ASSUME TypeInv, NEW r \in Reqs, req[r].pc \in {"tool", "hub"}, req[r].iso \in Isolates,
         NEW ok \in BOOLEAN, Advance(r, ok)
  PROVE  ToolMove(r)
<1>a. req[r] \in Requests /\ Placed(req[r])
  BY DEF TypeInv
<1>b. /\ Task(req[r]) \in Tasks /\ req[r].at \in 1..Len(req[r].batch) /\ Len(req[r].batch) \in Nat
      /\ \A k \in 1..Len(req[r].batch) : req[r].batch[k] \in Tasks
  BY <1>a, AtTask
<1> DEFINE good == IF ok THEN req[r].ok \cup {Task(req[r])} ELSE req[r].ok
<1>c. good \subseteq Tasks
  BY <1>a, <1>b DEF Requests
<1>d. \A n \in good : \E k \in 1..req[r].at : req[r].batch[k] = n
  BY <1>a, <1>b DEF Placed, Task
<1> HIDE DEF good
<1>1. CASE req[r].at < Len(req[r].batch)
  <2> DEFINE q == [req[r] EXCEPT !.at = @ + 1, !.step = 1, !.pc = "tool", !.ok = good]
  <2>1. q \in Requests
    <3>1. req[r].at + 1 \in Nat /\ 1 \in Nat
      BY <1>b
    <3> QED
      BY <1>a, <1>c, <3>1 DEF Requests, Places
  <2>2. Placed(q)
    <3>1. q.at = req[r].at + 1 /\ q.step = 1 /\ q.ok = good /\ q.pc = "tool"
          /\ q.batch = req[r].batch /\ q.sub = req[r].sub /\ q.iso = req[r].iso /\ q.id = req[r].id
      BY <1>a DEF Requests
    <3>2. req[r].sub \in Users /\ q.at \in 1..Len(req[r].batch)
      BY <1>a, <1>b, <1>1, <3>1 DEF Placed
    <3>3. \A n \in good : \E k \in 1..(req[r].at + 1) : req[r].batch[k] = n
      BY <1>b, <1>d
    <3> QED
      BY <3>1, <3>2, <3>3 DEF Placed
  <2>3. req' = [req EXCEPT ![r] = q] /\ UNCHANGED <<done, fine, told>>
    BY <1>1 DEF Advance, TypeInv, good
  <2>4. q.pc = "tool" /\ q.id = req[r].id /\ q.dead = req[r].dead /\ q.batch = req[r].batch
    BY <1>a DEF Requests
  <2> QED
    BY <2>1, <2>2, <2>3, <2>4, WorkedOn
<1>2. CASE ~(req[r].at < Len(req[r].batch))
  <2>1. /\ Answer(r) /\ Tells(r)
        /\ done' = done \cup {req[r].batch[k] : k \in 1..req[r].at}
        /\ fine' = fine \cup good
    BY <1>2 DEF Advance, good
  <2>2. Alone(r) /\ req'[r] = Idle
    BY <2>1, Answered DEF TypeInv
  <2>3. done' \subseteq Tasks /\ done \subseteq done' /\ fine \subseteq fine'
    BY <1>b, <2>1 DEF TypeInv, TypeOK
  <2>4. fine' \subseteq done'
    BY <1>d, <2>1 DEF TypeInv, TypeOK
  <2> QED
    BY <2>1, <2>2, <2>3, <2>4, IdleFits DEF ToolMove, Tells
<1> QED
  BY <1>1, <1>2

\* So is the next request of a tool.
LEMMA NextCalls ==
  ASSUME TypeInv, NEW r \in Reqs, req[r].pc \in {"tool", "hub"}, req[r].iso \in Isolates, NextCall(r)
  PROVE  ToolMove(r)
<1>a. req[r] \in Requests /\ Placed(req[r])
  BY DEF TypeInv
<1>1. CASE req[r].step < Len(Plan[Task(req[r])])
  <2> DEFINE q == [req[r] EXCEPT !.step = @ + 1, !.pc = "tool"]
  <2>1. q \in Requests
    <3>1. req[r].step + 1 \in Nat
      BY <1>a DEF Requests
    <3> QED
      BY <1>a, <3>1 DEF Requests, Places
  <2>2. q.step = req[r].step + 1 /\ q.pc = "tool" /\ q.ok = req[r].ok /\ q.at = req[r].at
        /\ q.batch = req[r].batch /\ q.sub = req[r].sub /\ q.iso = req[r].iso /\ q.id = req[r].id
        /\ q.dead = req[r].dead
    BY <1>a DEF Requests
  <2>3. req[r].step \in Nat
    BY <1>a DEF Requests
  <2>4. Placed(q)
    BY <1>a, <2>2, <2>3 DEF Placed
  <2>5. req' = [req EXCEPT ![r] = q] /\ UNCHANGED <<done, fine, told>>
    BY <1>1 DEF NextCall
  <2> QED
    BY <2>1, <2>2, <2>4, <2>5, WorkedOn
<1>2. CASE ~(req[r].step < Len(Plan[Task(req[r])]))
  BY <1>2, Advances DEF NextCall
<1> QED
  BY <1>1, <1>2

\* Every step of a request at the tools is such a move.
LEMMA ToolsMove ==
  ASSUME TypeInv, NEW r \in Reqs, ToolStep(r)
  PROVE  ToolMove(r)
<1>a. req[r] \in Requests /\ Placed(req[r])
  BY DEF TypeInv
<1>1. ASSUME req[r].pc = "tool"
      PROVE  req[r].iso \in Isolates
  BY <1>a, <1>1 DEF Placed
<1>2. ASSUME req[r].pc = "hub", req[r].iso # Absent
      PROVE  req[r].iso \in Isolates
  BY <1>a, <1>2 DEF Requests
<1>3. CASE Direct(r)
  BY <1>1, <1>3, Advances DEF Direct, At, Fails
<1>4. CASE Read(r)
  BY <1>1, <1>4, Advances, NextCalls DEF Read, Asks, At, Fails
<1>5. CASE Unprepared(r)
  BY <1>1, <1>5, Advances DEF Unprepared, Asks, At, Fails
<1>6. CASE Send(r)
  <2>1. req[r].pc = "tool"
    BY <1>6 DEF Send, Asks, At
  <2>2. CASE NextCall(r)
    BY <1>1, <2>1, <2>2, NextCalls
  <2>3. CASE Goes(r, "hub") /\ UNCHANGED <<done, fine, told>>
    <3> DEFINE q == [req[r] EXCEPT !.pc = "hub"]
    <3>1. q \in Requests
      BY <1>a DEF Requests, Places
    <3>2. q.step = req[r].step /\ q.pc = "hub" /\ q.ok = req[r].ok /\ q.at = req[r].at
          /\ q.batch = req[r].batch /\ q.sub = req[r].sub /\ q.id = req[r].id
          /\ q.dead = req[r].dead
      BY <1>a DEF Requests
    <3>3. Placed(q)
      BY <1>a, <2>1, <3>2 DEF Placed
    <3>4. req' = [req EXCEPT ![r] = q]
      BY <2>3 DEF Goes
    <3> QED
      BY <2>1, <2>3, <3>1, <3>2, <3>3, <3>4, WorkedOn
  <2> QED
    BY <1>6, <2>2, <2>3 DEF Send
<1>7. ASSUME req[r].pc = "hub", Orphaned(r)
      PROVE  ToolMove(r)
  <2>1. Alone(r) /\ req'[r] = Idle
    BY <1>7, Answered DEF Orphaned, TypeInv
  <2> QED
    BY <1>7, <2>1, IdleFits DEF Orphaned, ToolMove, TypeInv, TypeOK
<1>8. CASE HubCommits(r)
  BY <1>2, <1>7, <1>8, NextCalls DEF HubCommits, At
<1>9. CASE HubRefuses(r)
  BY <1>2, <1>7, <1>9, Advances DEF HubRefuses, At, Fails
<1> QED
  BY <1>3, <1>4, <1>5, <1>6, <1>8, <1>9 DEF ToolStep

\* The hub has done at least what it had done, for tasks there are.
LEMMA HubTypes ==
  ASSUME TypeInv, NEW r \in Reqs, ToolStep(r)
  PROVE  /\ post' \in [Tasks -> Nat] /\ \A n \in Tasks : post[n] <= post'[n]
         /\ keyRow' \subseteq Tasks /\ stored' \subseteq Tasks /\ stored \subseteq stored'
         /\ crossed' \subseteq Tasks /\ crossed \subseteq crossed'
         /\ UNCHANGED <<sealed, archived>>
<1>a. req[r] \in Requests /\ Placed(req[r])
  BY DEF TypeInv
<1>b. post \in [Tasks -> Nat] /\ keyRow \subseteq Tasks /\ stored \subseteq Tasks /\ crossed \subseteq Tasks
  BY DEF TypeInv, TypeOK
<1>1. ASSUME UNCHANGED <<post, keyRow, stored>>, UNCHANGED <<sealed, archived>>, UNCHANGED crossed
      PROVE  /\ post' \in [Tasks -> Nat] /\ \A n \in Tasks : post[n] <= post'[n]
             /\ keyRow' \subseteq Tasks /\ stored' \subseteq Tasks /\ stored \subseteq stored'
             /\ crossed' \subseteq Tasks /\ crossed \subseteq crossed'
             /\ UNCHANGED <<sealed, archived>>
  BY <1>b, <1>1
<1>2. CASE Direct(r) \/ Read(r) \/ Unprepared(r) \/ HubRefuses(r)
  BY <1>1, <1>2 DEF Direct, Read, Unprepared, HubRefuses, hubSide
<1>3. CASE Send(r)
  <2>1. Task(req[r]) \in Tasks
    BY <1>a, <1>3, AtTask DEF Send, Asks, At
  <2>2. UNCHANGED <<post, keyRow, stored, sealed, archived>>
    BY <1>3 DEF Send, hubSide
  <2>3. crossed' = crossed \/ crossed' = crossed \cup {Task(req[r])}
    BY <1>3 DEF Send
  <2> QED
    BY <1>b, <2>1, <2>2, <2>3
<1>4. CASE HubCommits(r)
  <2>1. Task(req[r]) \in Tasks
    BY <1>a, <1>4, AtTask DEF HubCommits, At
  <2>2. stored' \subseteq Tasks /\ stored \subseteq stored'
    BY <1>b, <1>4, <2>1 DEF HubCommits
  <2>3. post' = post \/ post' = [post EXCEPT ![Task(req[r])] = @ + 1]
    BY <1>4 DEF HubCommits
  <2>4. keyRow' \subseteq Tasks /\ UNCHANGED <<sealed, archived, crossed>>
    BY <1>b, <1>4, <2>1 DEF HubCommits
  <2> QED
    BY <1>b, <2>1, <2>2, <2>3, <2>4
<1> QED
  BY <1>2, <1>3, <1>4 DEF ToolStep

\* A request that arrives, from somebody who was let in.
Arrival(r) ==
  /\ Alone(r) /\ Placed(req'[r])
  /\ req[r].pc = "idle"
  /\ req'[r].ok = {} /\ req'[r].pc \in {"create", "bind", "read"}
  /\ req'[r].id \in told \cup {Absent} /\ (req'[r].dead => req'[r].id \in ended /\ req'[r].pc = "read")

\* What a client sends is such a request.
LEMMA ClientsArrive ==
  ASSUME TypeInv, NEW r \in Reqs, NEW i \in scope.isos, NEW h \in scope.shown, NEW op, Client(r, i, h, op)
  PROVE  Arrival(r) /\ UNCHANGED sessionVars
<1>1. PICK id \in told \cup {Absent}, batch \in scope.batches : Arrive(r, i, h, op, id, batch)
  BY DEF Client
<1>2. op \in Endpoints /\ scope \in Scopes /\ told \subseteq Ids /\ ended \subseteq Ids
  BY DEF Client, TypeInv, TypeOK
<1>3. i \in Isolates /\ batch \in Seq(Tasks) /\ Credential(h) \in Tokens \cup {Absent}
  BY <1>2, ScopeAssumption
<1>4. Credential(h) # Absent
  BY <1>1 DEF Arrive, Door
<1>5. Credential(h) \in Tokens /\ Subject(h) \in Users
  BY <1>3, <1>4, TokenAssumption DEF Subject
<1>6. Slugs(h) \subseteq GivenSlugs
  BY <1>2, <1>4 DEF GivenSlugs
<1>7. PICK slug \in Slugs(h) : req' = [req EXCEPT ![r] =
        [Idle EXCEPT !.op = op, !.iso = i, !.tok = Credential(h), !.sub = Subject(h),
                     !.slug = slug, !.id = id, !.batch = batch,
                     !.dead = id \in ended, !.at = 1, !.step = 1,
                     !.pc = IF op = "initialize" THEN "create"
                            ELSE IF id = Absent THEN "bind" ELSE "read"]]
  BY <1>1 DEF Arrive
<1> DEFINE pc == IF op = "initialize" THEN "create" ELSE IF id = Absent THEN "bind" ELSE "read"
<1>p. PICK place \in {"create", "bind", "read"} : place = pc
  OBVIOUS
<1>q. PICK q : q = [Idle EXCEPT !.op = op, !.iso = i, !.tok = Credential(h), !.sub = Subject(h),
                     !.slug = slug, !.id = id, !.batch = batch,
                     !.dead = id \in ended, !.at = 1, !.step = 1, !.pc = place]
  OBVIOUS
<1>r. /\ DOMAIN q = {"op", "pc", "iso", "tok", "sub", "slug", "id", "row", "dead", "batch", "at",
                     "step", "ok"}
      /\ q = [x \in DOMAIN q |-> q[x]]
      /\ q.op = op /\ q.pc = place /\ q.iso = i /\ q.tok = Credential(h) /\ q.sub = Subject(h)
      /\ q.slug = slug /\ q.id = id /\ q.row = Absent /\ q.batch = batch /\ q.at = 1 /\ q.step = 1
      /\ q.ok = {}
      /\ q.dead \in BOOLEAN /\ (q.dead => id \in ended)
  <2> DEFINE c == Credential(h) su == Subject(h)
  <2>1. q = [Idle EXCEPT !.op = op, !.iso = i, !.tok = c, !.sub = su, !.slug = slug, !.id = id,
                     !.batch = batch, !.dead = id \in ended, !.at = 1, !.step = 1, !.pc = place]
    BY <1>q
  <2> HIDE DEF c, su
  <2>2. DOMAIN q = {"op", "pc", "iso", "tok", "sub", "slug", "id", "row", "dead", "batch", "at",
                    "step", "ok"}
    BY <2>1 DEF Idle
  <2>3. q = [x \in DOMAIN q |-> q[x]]
    BY <2>1
  <2>4. q.op = op /\ q.pc = place /\ q.iso = i /\ q.tok = c /\ q.sub = su /\ q.slug = slug /\ q.id = id
    BY <2>1 DEF Idle
  <2>5. q.row = Absent /\ q.batch = batch /\ q.at = 1
    BY <2>1 DEF Idle
  <2>6. q.step = 1 /\ q.ok = {}
    BY <2>1 DEF Idle
  <2>7. q.dead \in BOOLEAN
    BY <2>1 DEF Idle
  <2>8. q.dead = (id \in ended)
    BY <2>1 DEF Idle
  <2>9. q.dead => id \in ended
    BY <2>8
  <2> QED
    BY <2>2, <2>3, <2>4, <2>5, <2>6, <2>7, <2>9 DEF c, su
<1>8. req' = [req EXCEPT ![r] = q]
  BY <1>7, <1>p, <1>q, Zenon
<1>9. q \in Requests
  BY <1>2, <1>3, <1>5, <1>6, <1>r DEF Requests, Places
<1>10. op = "initialize" => id = Absent
  BY <1>1 DEF Arrive
<1>11. id \in ended => place = "read"
  BY <1>2, <1>10, <1>p, SessionAssumption
<1>12. Placed(q)
  <2>1. place = "read" => id \in Ids
    BY <1>2, <1>p
  <2> QED
    BY <1>3, <1>5, <1>r, <2>1 DEF Placed
<1>13. Alone(r) /\ req'[r] = q
  BY <1>8, <1>9 DEF Alone, TypeInv
<1>14. req[r].pc = "idle" /\ UNCHANGED sessionVars
  BY <1>1 DEF Arrive, Idle
<1> QED
  BY <1>1, <1>r, <1>11, <1>12, <1>13, <1>14 DEF Arrival

\* A recycled isolate leaves a request alone, ends it, or leaves it to the hub.
Outlasts(p) ==
  \/ req'[p] = req[p] \/ req'[p] = Idle
  \/ req[p].pc = "hub" /\ req'[p] = [req[p] EXCEPT !.iso = Absent]

\* That is what recycling does to requests.
LEMMA RecycleLeaves ==
  ASSUME TypeInv, NEW i \in Isolates, Recycle(i)
  PROVE  req' \in [Reqs -> Requests] /\ \A p \in Reqs : Outlasts(p) /\ Placed(req'[p])
<1>1. req' = [p \in Reqs |-> IF req[p].iso # i THEN req[p]
                             ELSE IF Outlives(req[p]) THEN [req[p] EXCEPT !.iso = Absent] ELSE Idle]
  BY DEF Recycle
<1>2. ASSUME NEW p \in Reqs
      PROVE  req'[p] \in Requests /\ Outlasts(p) /\ Placed(req'[p])
  <2>1. req[p] \in Requests /\ Placed(req[p])
    BY DEF TypeInv
  <2>2. CASE req'[p] = req[p] \/ req'[p] = Idle
    BY <2>1, <2>2, IdleFits DEF Outlasts
  <2>3. CASE req[p].pc = "hub" /\ req'[p] = [req[p] EXCEPT !.iso = Absent]
    <3>1. req'[p] \in Requests
      BY <2>1, <2>3 DEF Requests
    <3> QED
      BY <2>1, <2>3, <3>1 DEF Outlasts, Placed, Requests
  <2> QED
    BY <1>1, <2>2, <2>3 DEF Outlives
<1> QED
  BY <1>1, <1>2

-----------------------------------------------------------------------------
(* Sessions *)

\* A session that is made and stored, until it is too old or deleted.
Alive(id) == owner[id] # Absent /\ (id \notin old \cup ending => rows[id] = owner[id])

HoldsSession(q) ==
  /\ q.id # Absent /\ q.pc # "persist" => Alive(q.id)
  /\ q.pc = "persist" => owner[q.id] = q.sub /\ q.id \notin told
  /\ q.pc = "resolve" /\ q.id \notin old \cup ending => q.row = owner[q.id]
  /\ q.pc = "expire" => q.id \in old
  /\ q.pc = "drop" => q.id \in ending
  /\ q.dead => q.pc \in {"read", "resolve"} /\ q.id \in ended
  /\ q.dead /\ q.pc = "resolve" => q.row = Absent

SessionInv ==
  /\ \A p \in Reqs : HoldsSession(req[p])
  /\ \A p, q \in Reqs : p # q /\ req[p].pc = "persist" => req[q].id # req[p].id
  /\ \A p \in Reqs : req[p].pc = "persist" => req[p].id \notin ending
  /\ \A id \in told : Alive(id)
  /\ \A id \in ending : owner[id] # Absent
  /\ \A id \in ended : id \in ending /\ rows[id] = Absent
  /\ lost = {}

-----------------------------------------------------------------------------
(* Streams *)

\* An open stream is the one that its isolate knows for its session, and what an isolate
\* knows of streams there is.
StreamsFit(loc, str) ==
  /\ \A s \in Streams : str[s] # Absent /\ str[s].open =>
       /\ loc[str[s].iso][str[s].id] # Absent
       /\ loc[str[s].iso][str[s].id].sse = s
  /\ \A i \in Isolates, id \in Ids :
       loc[i][id] # Absent /\ loc[i][id].sse # Absent => str[loc[i][id].sse] # Absent

\* Sessions with a stream were made.
StreamInv ==
  /\ StreamsFit(local, streams)
  /\ \A s \in Streams : streams[s] # Absent => owner[streams[s].id] # Absent

Locals       == [Isolates -> [Ids -> Row \cup {Absent}]]
StreamTables == [Streams -> StreamRow \cup {Absent}]

\* Streams str continue those of now: the same ones, some of them closed.
Continue(str) ==
  /\ str \in StreamTables
  /\ \A s \in Streams : IF streams[s] = Absent THEN str[s] = Absent
                        ELSE /\ str[s] # Absent /\ str[s].iso = streams[s].iso /\ str[s].id = streams[s].id
                             /\ str[s].open => streams[s].open

\* Rows are none, and so are streams.
LEMMA RowsAreSome == Absent \notin Row /\ Absent \notin StreamRow /\ Absent \notin Streams
                     /\ Absent \notin Ids /\ Absent \notin Users
BY SessionAssumption

\* When an isolate forgets sessions and cancels their streams, the other streams fit.
LEMMA ForgettingFits ==
  ASSUME local \in Locals, streams \in StreamTables, StreamsFit(local, streams),
         NEW i \in Isolates, NEW D \in SUBSET Ids
  PROVE  /\ Forgotten(i, D) \in Locals
         /\ \A j \in Isolates, id \in Ids :
              Forgotten(i, D)[j][id] = IF j = i /\ id \in D THEN Absent ELSE local[j][id]
         /\ Continue(Closed(AttachedTo(i, D)))
         /\ StreamsFit(Forgotten(i, D), Closed(AttachedTo(i, D)))
<1> DEFINE L == Forgotten(i, D)
           A == AttachedTo(i, D)
           C == Closed(A)
<1>1. L \in Locals /\ \A j \in Isolates, id \in Ids :
        L[j][id] = IF j = i /\ id \in D THEN Absent ELSE local[j][id]
  BY DEF Forgotten, Locals
<1>2. ASSUME NEW s \in A
      PROVE  s \in Streams /\ streams[s] \in StreamRow
  <2>1. PICK id \in D : local[i][id] # Absent /\ local[i][id].sse = s
    BY <1>2 DEF AttachedTo
  <2>2. s \in Streams
    BY <1>2 DEF AttachedTo
  <2>3. streams[s] # Absent
    BY <2>1, <2>2, RowsAreSome DEF StreamsFit
  <2> QED
    BY <2>2, <2>3 DEF StreamTables
<1>3. ASSUME NEW s \in Streams
      PROVE  C[s] = IF s \in A THEN [streams[s] EXCEPT !.open = FALSE] ELSE streams[s]
  BY DEF Closed
<1>4. Continue(C)
  <2>1. ASSUME NEW s \in Streams
        PROVE  /\ C[s] \in StreamRow \cup {Absent}
               /\ IF streams[s] = Absent THEN C[s] = Absent
                  ELSE /\ C[s] # Absent /\ C[s].iso = streams[s].iso /\ C[s].id = streams[s].id
                       /\ C[s].open => streams[s].open
    <3>1. CASE s \in A
      <4>1. streams[s] \in StreamRow
        BY <1>2, <3>1
      <4>2. C[s] = [streams[s] EXCEPT !.open = FALSE]
        BY <1>3, <3>1
      <4>3. C[s] \in StreamRow /\ C[s].iso = streams[s].iso /\ C[s].id = streams[s].id /\ ~C[s].open
        BY <4>1, <4>2 DEF StreamRow
      <4> QED
        BY <4>1, <4>3, RowsAreSome
    <3>2. CASE s \notin A
      BY <1>3, <3>2 DEF StreamTables
    <3> QED
      BY <3>1, <3>2
  <2>2. C = [s \in Streams |-> C[s]]
    BY DEF Closed
  <2> QED
    BY <2>1, <2>2 DEF Continue, StreamTables
<1>5. \A s \in A : ~C[s].open
  <2>1. ASSUME NEW s \in A
        PROVE  ~C[s].open
    BY <1>2, <1>3 DEF StreamRow
  <2> QED
    BY <2>1
<1>6. ASSUME NEW s \in Streams, C[s] # Absent, C[s].open
      PROVE  L[C[s].iso][C[s].id] # Absent /\ L[C[s].iso][C[s].id].sse = s
  <2>1. s \notin A /\ C[s] = streams[s] /\ streams[s] \in StreamRow
    BY <1>3, <1>5, <1>6 DEF StreamTables
  <2>2. streams[s].iso \in Isolates /\ streams[s].id \in Ids
    BY <2>1 DEF StreamRow
  <2>3. local[streams[s].iso][streams[s].id] # Absent /\ local[streams[s].iso][streams[s].id].sse = s
    BY <1>6, <2>1 DEF StreamsFit
  <2>4. ~(streams[s].iso = i /\ streams[s].id \in D)
    BY <2>1, <2>3 DEF AttachedTo
  <2> QED
    BY <1>1, <2>1, <2>2, <2>3, <2>4
<1>7. ASSUME NEW j \in Isolates, NEW id \in Ids, L[j][id] # Absent, L[j][id].sse # Absent
      PROVE  C[L[j][id].sse] # Absent
  <2>1. L[j][id] = local[j][id] /\ local[j][id] \in Row
    BY <1>1, <1>7 DEF Locals
  <2>2. local[j][id].sse \in Streams /\ streams[local[j][id].sse] # Absent
    BY <1>7, <2>1 DEF Row, StreamsFit
  <2> QED
    BY <1>4, <2>1, <2>2 DEF Continue
<1> QED
  BY <1>1, <1>4, <1>6, <1>7 DEF StreamsFit

\* Sessions are made once, and what is old or ended stays so.
RowsGrow ==
  /\ rows' \in [Ids -> Users \cup {Absent}] /\ owner' \in [Ids -> Users \cup {Absent}]
  /\ \A id \in Ids : owner[id] # Absent => owner'[id] = owner[id]
  /\ old' \subseteq Ids /\ told' \subseteq Ids /\ ending' \subseteq Ids /\ ended' \subseteq Ids
  /\ lost' \subseteq Ids
  /\ old \subseteq old' /\ ending \subseteq ending' /\ ended \subseteq ended' /\ told \subseteq told'

\* That is so in every step of a request at the sessions.
LEMMA SessionsGrow ==
  ASSUME TypeInv, NEW r \in Reqs, SessionStep(r)
  PROVE  RowsGrow
<1> USE DEF RowsGrow
<1>a. req[r] \in Requests /\ Placed(req[r])
  BY DEF TypeInv
<1>b. /\ rows \in [Ids -> Users \cup {Absent}] /\ owner \in [Ids -> Users \cup {Absent}]
      /\ old \subseteq Ids /\ told \subseteq Ids /\ ending \subseteq Ids /\ ended \subseteq Ids /\ lost \subseteq Ids
  BY DEF TypeInv, TypeOK
<1>c. req[r].id \in Ids \cup {Absent}
  BY <1>a DEF Requests
<1>1. CASE ReadRow(r) \/ BindFails(r)
  BY <1>1, <1>b DEF ReadRow, BindFails, sessionVars
<1>2. CASE ResolveGone(r) \/ ResolveForeign(r)
  BY <1>2, <1>b DEF ResolveGone, ResolveForeign, NotFound
<1>3. CASE Expire(r)
  <2>1. rows' \in [Ids -> Users \cup {Absent}]
    BY <1>3, <1>b DEF Expire
  <2> QED
    BY <1>3, <1>b, <2>1 DEF Expire, NotFound
<1>4. CASE ResolveOld(r) \/ Resolve(r)
  BY <1>4, <1>b DEF ResolveOld, Resolve
<1>5. CASE ResolveEnd(r)
  <2>1. req[r].id \in Ids
    BY <1>5, <1>a DEF ResolveEnd, Resolves, At, Placed
  <2> QED
    BY <1>5, <1>b, <2>1 DEF ResolveEnd
<1>6. CASE Drop(r)
  <2>1. req[r].id \in Ids
    BY <1>6, <1>a DEF Drop, At, Placed
  <2>2. rows' \in [Ids -> Users \cup {Absent}]
    BY <1>6, <1>b DEF Drop
  <2> QED
    BY <1>6, <1>b, <2>1, <2>2 DEF Drop
<1>7. CASE Bind(r)
  BY <1>7, <1>b, <1>c DEF Bind, Tells
<1>8. CASE \E id \in Ids : Create(r, id)
  <2>1. PICK id \in Ids : Create(r, id)
    BY <1>8
  <2>2. req[r].sub \in Users /\ owner[id] = Absent /\ owner' = [owner EXCEPT ![id] = req[r].sub]
    BY <1>a, <2>1 DEF Create, At, Placed
  <2> QED
    BY <1>b, <2>1, <2>2 DEF Create
<1>9. CASE Persist(r)
  <2>1. req[r].sub \in Users /\ rows' = [rows EXCEPT ![req[r].id] = req[r].sub]
    BY <1>a, <1>9 DEF Persist, At, Placed
  <2> QED
    BY <1>9, <1>b, <2>1 DEF Persist
<1>10. CASE (\E s \in Streams : Attach(r, s)) \/ AttachFails(r)
  BY <1>10, <1>b, <1>c DEF Attach, AttachFails, Tells
<1> QED
  BY <1>1, <1>2, <1>3, <1>4, <1>5, <1>6, <1>7, <1>8, <1>9, <1>10 DEF SessionStep

\* In every such step the streams fit what isolates know.
LEMMA SessionsKeepStreams ==
  ASSUME TypeInv, SessionInv, StreamInv, NEW r \in Reqs, SessionStep(r)
  PROVE  local' \in Locals /\ streams' \in StreamTables /\ StreamInv'
<1>a. req[r] \in Requests /\ Placed(req[r])
  BY DEF TypeInv
<1>b. local \in Locals /\ streams \in StreamTables
  BY DEF TypeInv, TypeOK, Locals, StreamTables
<1>c. RowsGrow
  BY SessionsGrow
<1>g. ASSUME local' \in Locals, Continue(streams'), StreamsFit(local', streams')
      PROVE  streams' \in StreamTables /\ StreamInv'
  <2>1. ASSUME NEW s \in Streams, streams'[s] # Absent
        PROVE  owner'[streams'[s].id] # Absent
    <3>1. streams[s] # Absent /\ streams'[s].id = streams[s].id
      BY <1>g, <2>1 DEF Continue
    <3>2. streams[s].id \in Ids /\ owner[streams[s].id] # Absent
      BY <1>b, <3>1 DEF StreamTables, StreamRow, StreamInv
    <3> QED
      BY <1>c, <3>1, <3>2 DEF RowsGrow
  <2> QED
    BY <1>g, <2>1 DEF Continue, StreamInv
<1>1. ASSUME UNCHANGED <<local, streams>>
      PROVE  local' \in Locals /\ streams' \in StreamTables /\ StreamInv'
  BY <1>1, <1>b, <1>g DEF Continue, StreamInv
<1>2. ASSUME NEW i \in Isolates, NEW D \in SUBSET Ids, Forgets(i, D)
      PROVE  local' \in Locals /\ streams' \in StreamTables /\ StreamInv'
  <2>1. local' = Forgotten(i, D) /\ streams' = Closed(AttachedTo(i, D))
    BY <1>2 DEF Forgets
  <2>2. local' \in Locals /\ Continue(streams') /\ StreamsFit(local', streams')
    BY <1>b, <2>1, ForgettingFits DEF StreamInv
  <2> QED
    BY <1>g, <2>2
<1>3. ASSUME local' = Hydrated(req[r]), UNCHANGED streams, req[r].row \in Users, req[r].id \in Ids,
             req[r].iso \in Isolates
      PROVE  local' \in Locals /\ streams' \in StreamTables /\ StreamInv'
  <2>1. CASE local[req[r].iso][req[r].id] # Absent
    BY <1>1, <1>3, <2>1 DEF Hydrated
  <2>2. CASE local[req[r].iso][req[r].id] = Absent
    <3> DEFINE row == [sub |-> req[r].row, sse |-> Absent]
    <3>1. row \in Row
      BY <1>3 DEF Row
    <3>2. local' = [local EXCEPT ![req[r].iso][req[r].id] = row]
      BY <1>3, <2>2 DEF Hydrated
    <3>3. row.sse = Absent
      OBVIOUS
    <3> HIDE DEF row
    <3>4. local' \in Locals
      BY <1>3, <1>b, <3>1, <3>2 DEF Locals
    <3>5. \A i \in Isolates, id \in Ids :
            local'[i][id] = IF i = req[r].iso /\ id = req[r].id THEN row ELSE local[i][id]
      BY <1>3, <1>b, <3>2 DEF Locals
    <3>6. StreamsFit(local', streams')
      <4>1. ASSUME NEW s \in Streams, streams[s] # Absent, streams[s].open
            PROVE  local'[streams[s].iso][streams[s].id] = local[streams[s].iso][streams[s].id]
        <5>1. streams[s].iso \in Isolates /\ streams[s].id \in Ids
          BY <1>b, <4>1 DEF StreamTables, StreamRow
        <5>2. local[streams[s].iso][streams[s].id] # Absent
          BY <4>1 DEF StreamInv, StreamsFit
        <5> QED
          BY <2>2, <3>5, <5>1, <5>2
      <4> QED
        BY <1>3, <3>3, <3>5, <4>1 DEF StreamInv, StreamsFit
    <3> QED
      BY <1>3, <1>b, <1>g, <3>4, <3>6 DEF Continue
  <2> QED
    BY <2>1, <2>2
<1>4. CASE ReadRow(r) \/ BindFails(r) \/ Expire(r) \/ Drop(r) \/ Bind(r) \/ Persist(r) \/ AttachFails(r)
  BY <1>1, <1>4 DEF ReadRow, BindFails, Expire, Drop, Bind, Persist, AttachFails, sessionVars
<1>5. CASE ResolveGone(r) \/ ResolveOld(r) \/ ResolveEnd(r)
  <2>1. Forgets(req[r].iso, {req[r].id}) /\ At(r, "resolve")
    BY <1>5 DEF ResolveGone, ResolveOld, ResolveEnd, Resolves
  <2> QED
    BY <1>2, <1>a, <2>1 DEF At, Placed
<1>6. CASE ResolveForeign(r) \/ Resolve(r)
  <2>1. At(r, "resolve") /\ req[r].row # Absent /\ local' = Hydrated(req[r]) /\ UNCHANGED streams
    BY <1>6 DEF ResolveForeign, Resolve, Resolves, Found
  <2> QED
    BY <1>3, <1>a, <2>1 DEF At, Placed, Requests
<1>7. CASE \E id \in Ids : Create(r, id)
  <2>1. PICK id \in Ids : Create(r, id)
    BY <1>7
  <2> DEFINE row == [sub |-> req[r].sub, sse |-> Absent]
             i   == req[r].iso
             L   == Forgotten(i, old)
  <2>2. i \in Isolates /\ row \in Row /\ row.sse = Absent
    BY <1>a, <2>1 DEF Create, At, Placed, Row
  <2>3. owner[id] = Absent /\ local' = [L EXCEPT ![i][id] = row] /\ streams' = Closed(AttachedTo(i, old))
    BY <2>1 DEF Create
  <2>4. L \in Locals /\ Continue(streams') /\ StreamsFit(L, streams')
    BY <1>b, <2>2, <2>3, ForgettingFits DEF StreamInv, TypeInv, TypeOK
  <2> HIDE DEF row, i, L
  <2>5. local' \in Locals /\ \A j \in Isolates, x \in Ids :
          local'[j][x] = IF j = i /\ x = id THEN row ELSE L[j][x]
    BY <2>2, <2>3, <2>4 DEF Locals
  <2>6. ASSUME NEW s \in Streams, streams'[s] # Absent
        PROVE  streams'[s].iso \in Isolates /\ streams'[s].id \in Ids \ {id}
    <3>1. streams[s] # Absent /\ streams'[s].id = streams[s].id /\ streams'[s].iso = streams[s].iso
      BY <2>4, <2>6 DEF Continue
    <3>2. owner[streams[s].id] # Absent /\ streams[s].iso \in Isolates /\ streams[s].id \in Ids
      BY <1>b, <3>1 DEF StreamInv, StreamTables, StreamRow
    <3> QED
      BY <2>3, <3>1, <3>2
  <2>7. StreamsFit(local', streams')
    BY <2>2, <2>4, <2>5, <2>6 DEF StreamsFit
  <2> QED
    BY <1>g, <2>4, <2>5, <2>7
<1>8. CASE \E s \in Streams : Attach(r, s)
  <2>1. PICK s \in Streams : Attach(r, s)
    BY <1>8
  <2> DEFINE i   == req[r].iso
             id  == req[r].id
             new == [iso |-> i, id |-> id, open |-> TRUE, gone |-> FALSE]
  <2>2. i \in Isolates /\ id \in Ids /\ new \in StreamRow
    BY <1>a, <2>1 DEF Attach, At, Placed, StreamRow
  <2>3. /\ streams[s] = Absent /\ local[i][id] # Absent /\ local[i][id].sse = Absent
        /\ local' = [local EXCEPT ![i][id].sse = s] /\ streams' = [streams EXCEPT ![s] = new]
        /\ UNCHANGED owner
    BY <2>1 DEF Attach, Attaches
  <2>4. new.iso = i /\ new.id = id
    OBVIOUS
  <2> HIDE DEF new, i, id
  <2>5. local[i][id] \in Row
    BY <1>b, <2>2, <2>3 DEF Locals
  <2>6. PICK row \in Row : row = [local[i][id] EXCEPT !.sse = s]
    BY <2>5 DEF Row
  <2>7. row.sse = s
    BY <2>5, <2>6 DEF Row
  <2>8. local' = [local EXCEPT ![i][id] = row]
    BY <2>3, <2>6
  <2>9. local' \in Locals /\ \A j \in Isolates, x \in Ids :
          local'[j][x] = IF j = i /\ x = id THEN row ELSE local[j][x]
    BY <1>b, <2>2, <2>8 DEF Locals
  <2>10. streams' \in StreamTables /\ \A t \in Streams : streams'[t] = IF t = s THEN new ELSE streams[t]
    BY <1>b, <2>2, <2>3 DEF StreamTables
  <2>11. new # Absent /\ row # Absent /\ s # Absent
    BY <2>2, RowsAreSome
  <2>12. ASSUME NEW t \in Streams, streams'[t] # Absent, streams'[t].open
         PROVE  /\ local'[streams'[t].iso][streams'[t].id] # Absent
                /\ local'[streams'[t].iso][streams'[t].id].sse = t
    <3>1. CASE t = s
      BY <2>2, <2>4, <2>7, <2>9, <2>10, <2>11, <3>1
    <3>2. CASE t # s
      <4>1. streams'[t] = streams[t] /\ streams[t] \in StreamRow
        BY <1>b, <2>10, <2>12, <3>2 DEF StreamTables
      <4>2. local[streams[t].iso][streams[t].id].sse = t /\ local[streams[t].iso][streams[t].id] # Absent
        BY <2>12, <4>1 DEF StreamInv, StreamsFit
      <4>3. ~(streams[t].iso = i /\ streams[t].id = id)
        BY <2>3, <4>2, RowsAreSome
      <4> QED
        BY <2>9, <4>1, <4>2, <4>3 DEF StreamRow
    <3> QED
      BY <3>1, <3>2
  <2>13. ASSUME NEW j \in Isolates, NEW x \in Ids, local'[j][x] # Absent, local'[j][x].sse # Absent
         PROVE  streams'[local'[j][x].sse] # Absent
    <3>1. CASE j = i /\ x = id
      BY <2>7, <2>9, <2>10, <2>11, <3>1
    <3>2. CASE ~(j = i /\ x = id)
      <4>1. local'[j][x] = local[j][x] /\ local[j][x] \in Row
        BY <1>b, <2>9, <2>13, <3>2 DEF Locals
      <4> QED
        BY <2>10, <2>11, <2>13, <4>1 DEF StreamInv, StreamsFit, Row
    <3> QED
      BY <3>1, <3>2
  <2>14. StreamsFit(local', streams')
    BY <2>12, <2>13 DEF StreamsFit
  <2>15. owner[id] # Absent /\ owner' = owner
    BY <1>a, <2>1, <2>2, <2>3, RowsAreSome DEF SessionInv, HoldsSession, Alive, Attach, At, id
  <2>16. \A t \in Streams : streams'[t] # Absent => owner'[streams'[t].id] # Absent
    BY <2>4, <2>10, <2>15 DEF StreamInv
  <2> QED
    BY <2>9, <2>10, <2>14, <2>16 DEF StreamInv
<1> QED
  BY <1>4, <1>5, <1>6, <1>7, <1>8 DEF SessionStep

\* Whatever happens to connections, isolates and time, the streams fit.
LEMMA WorldKeepsStreams ==
  ASSUME TypeInv, StreamInv, World
  PROVE  RowsGrow /\ local' \in Locals /\ streams' \in StreamTables /\ StreamInv'
<1>b. local \in Locals /\ streams \in StreamTables
  BY DEF TypeInv, TypeOK, Locals, StreamTables
<1>c. /\ rows \in [Ids -> Users \cup {Absent}] /\ owner \in [Ids -> Users \cup {Absent}]
      /\ old \subseteq Ids /\ told \subseteq Ids /\ ending \subseteq Ids /\ ended \subseteq Ids /\ lost \subseteq Ids
  BY DEF TypeInv, TypeOK
<1>g. ASSUME local' \in Locals, Continue(streams'), StreamsFit(local', streams'), UNCHANGED owner
      PROVE  local' \in Locals /\ streams' \in StreamTables /\ StreamInv'
  <2>1. \A s \in Streams : streams'[s] # Absent => owner'[streams'[s].id] # Absent
    BY <1>g DEF Continue, StreamInv
  <2> QED
    BY <1>g, <2>1 DEF Continue, StreamInv
<1>1. CASE \E s \in Streams : ClientLeaves(s)
  <2>1. PICK s \in Streams : ClientLeaves(s)
    BY <1>1
  <2>2. streams[s] \in StreamRow /\ streams' = [streams EXCEPT ![s].gone = TRUE] /\ local' = local
    BY <1>b, <2>1 DEF ClientLeaves, StreamTables
  <2>3. PICK x \in StreamRow : x = [streams[s] EXCEPT !.gone = TRUE]
    BY <2>2 DEF StreamRow
  <2>4. x.iso = streams[s].iso /\ x.id = streams[s].id /\ x.open = streams[s].open /\ x # Absent
    BY <2>2, <2>3, RowsAreSome DEF StreamRow
  <2>5. streams' = [streams EXCEPT ![s] = x]
    BY <2>2, <2>3
  <2>6. \A t \in Streams : streams'[t] = IF t = s THEN x ELSE streams[t]
    BY <1>b, <2>5 DEF StreamTables
  <2>7. streams' \in StreamTables
    BY <1>b, <2>5 DEF StreamTables
  <2>8. Continue(streams')
    BY <1>b, <2>2, <2>4, <2>6, <2>7, RowsAreSome DEF Continue
  <2>9. StreamsFit(local', streams')
    <3>1. streams[s] # Absent /\ streams[s].open
      BY <2>1 DEF ClientLeaves
    <3>2. ASSUME NEW t \in Streams, streams'[t] # Absent, streams'[t].open
          PROVE  /\ local'[streams'[t].iso][streams'[t].id] # Absent
                 /\ local'[streams'[t].iso][streams'[t].id].sse = t
      <4>1. streams[t] # Absent /\ streams[t].open /\ streams'[t].iso = streams[t].iso
            /\ streams'[t].id = streams[t].id
        BY <2>4, <2>6, <3>1, <3>2
      <4> QED
        BY <2>2, <4>1 DEF StreamInv, StreamsFit
    <3>3. ASSUME NEW j \in Isolates, NEW y \in Ids, local'[j][y] # Absent, local'[j][y].sse # Absent
          PROVE  streams'[local'[j][y].sse] # Absent
      <4>1. local[j][y] \in Row /\ local'[j][y] = local[j][y]
        BY <1>b, <2>2, <3>3 DEF Locals
      <4>2. local[j][y].sse \in Streams /\ streams[local[j][y].sse] # Absent
        BY <3>3, <4>1 DEF Row, StreamInv, StreamsFit
      <4> QED
        BY <2>4, <2>6, <4>1, <4>2
    <3> QED
      BY <3>2, <3>3 DEF StreamsFit
  <2> QED
    BY <1>b, <1>c, <1>g, <2>1, <2>2, <2>8, <2>9 DEF ClientLeaves, RowsGrow
<1>2. CASE \E s \in Streams : RuntimeCancels(s)
  <2>1. PICK s \in Streams : RuntimeCancels(s)
    BY <1>2
  <2>2. /\ streams[s] \in StreamRow /\ streams[s] # Absent /\ streams[s].open
        /\ streams' = [streams EXCEPT ![s].open = FALSE]
        /\ local' = Detach(streams[s].iso, streams[s].id)
    BY <1>b, <2>1 DEF RuntimeCancels, StreamTables
  <2>3. PICK x \in StreamRow : x = [streams[s] EXCEPT !.open = FALSE]
    BY <2>2 DEF StreamRow
  <2>4. x.iso = streams[s].iso /\ x.id = streams[s].id /\ ~x.open /\ x # Absent
    BY <2>2, <2>3, RowsAreSome DEF StreamRow
  <2>5. streams' = [streams EXCEPT ![s] = x]
    BY <2>2, <2>3
  <2>6. \A t \in Streams : streams'[t] = IF t = s THEN x ELSE streams[t]
    BY <1>b, <2>5 DEF StreamTables
  <2>7. streams' \in StreamTables
    BY <1>b, <2>5 DEF StreamTables
  <2>8. Continue(streams')
    BY <1>b, <2>2, <2>4, <2>6, <2>7, RowsAreSome DEF Continue
  <2> DEFINE i  == streams[s].iso
             id == streams[s].id
  <2>9. i \in Isolates /\ id \in Ids /\ local[i][id] # Absent /\ local[i][id].sse = s
    BY <2>2 DEF StreamRow, StreamInv, StreamsFit
  <2> HIDE DEF i, id
  <2>10. local[i][id] \in Row
    BY <1>b, <2>9 DEF Locals
  <2>11. PICK row \in Row : row = [local[i][id] EXCEPT !.sse = Absent]
    BY <2>10 DEF Row
  <2>12. row.sse = Absent
    BY <2>10, <2>11 DEF Row
  <2>13. local' = [local EXCEPT ![i][id] = row]
    BY <2>2, <2>9, <2>11 DEF Detach, i, id
  <2>14. local' \in Locals /\ \A j \in Isolates, y \in Ids :
           local'[j][y] = IF j = i /\ y = id THEN row ELSE local[j][y]
    BY <1>b, <2>9, <2>13 DEF Locals
  <2>15. ASSUME NEW t \in Streams, streams'[t] # Absent, streams'[t].open
         PROVE  /\ local'[streams'[t].iso][streams'[t].id] # Absent
                /\ local'[streams'[t].iso][streams'[t].id].sse = t
    <3>1. t # s /\ streams'[t] = streams[t] /\ streams[t] \in StreamRow
      BY <1>b, <2>4, <2>6, <2>15 DEF StreamTables
    <3>2. local[streams[t].iso][streams[t].id].sse = t /\ local[streams[t].iso][streams[t].id] # Absent
      BY <2>15, <3>1 DEF StreamInv, StreamsFit
    <3>3. ~(streams[t].iso = i /\ streams[t].id = id)
      BY <2>9, <3>1, <3>2
    <3> QED
      BY <2>14, <3>1, <3>2, <3>3 DEF StreamRow
  <2>16. ASSUME NEW j \in Isolates, NEW y \in Ids, local'[j][y] # Absent, local'[j][y].sse # Absent
         PROVE  streams'[local'[j][y].sse] # Absent
    <3>1. local'[j][y] = local[j][y] /\ local[j][y] \in Row
      BY <1>b, <2>12, <2>14, <2>16 DEF Locals
    <3>2. local[j][y].sse \in Streams /\ streams[local[j][y].sse] # Absent
      BY <2>16, <3>1 DEF Row, StreamInv, StreamsFit
    <3> QED
      BY <2>4, <2>6, <3>1, <3>2
  <2>17. StreamsFit(local', streams')
    BY <2>15, <2>16 DEF StreamsFit
  <2> QED
    BY <1>c, <1>g, <2>1, <2>8, <2>14, <2>17 DEF RuntimeCancels, RowsGrow
<1>3. CASE \E i \in Isolates : Recycle(i)
  <2>1. PICK i \in Isolates : Recycle(i)
    BY <1>3
  <2>2. /\ local' = [local EXCEPT ![i] = [id \in Ids |-> Absent]]
        /\ streams' = [s \in Streams |-> IF streams[s] # Absent /\ streams[s].iso = i
                                         THEN [streams[s] EXCEPT !.open = FALSE] ELSE streams[s]]
    BY <2>1 DEF Recycle
  <2>3. local' \in Locals /\ \A j \in Isolates, id \in Ids :
          local'[j][id] = IF j = i THEN Absent ELSE local[j][id]
    BY <1>b, <2>2 DEF Locals
  <2>4. ASSUME NEW s \in Streams
        PROVE  /\ streams'[s] \in StreamRow \cup {Absent}
               /\ IF streams[s] = Absent THEN streams'[s] = Absent
                  ELSE /\ streams'[s] # Absent /\ streams'[s].iso = streams[s].iso
                       /\ streams'[s].id = streams[s].id
                       /\ streams'[s].open => streams[s].open /\ streams[s].iso # i
    <3>1. CASE streams[s] # Absent /\ streams[s].iso = i
      <4>1. streams[s] \in StreamRow /\ streams'[s] = [streams[s] EXCEPT !.open = FALSE]
        BY <1>b, <2>2, <3>1 DEF StreamTables
      <4>2. streams'[s] \in StreamRow /\ streams'[s].iso = streams[s].iso /\ streams'[s].id = streams[s].id
            /\ ~streams'[s].open
        BY <4>1 DEF StreamRow
      <4> QED
        BY <3>1, <4>2, RowsAreSome
    <3>2. CASE ~(streams[s] # Absent /\ streams[s].iso = i)
      BY <1>b, <2>2, <3>2 DEF StreamTables
    <3> QED
      BY <3>1, <3>2
  <2>5. streams' = [s \in Streams |-> streams'[s]]
    BY <2>2
  <2>6. Continue(streams')
    BY <2>4, <2>5 DEF Continue, StreamTables
  <2>7. ASSUME NEW s \in Streams, streams'[s] # Absent, streams'[s].open
        PROVE  /\ local'[streams'[s].iso][streams'[s].id] # Absent
               /\ local'[streams'[s].iso][streams'[s].id].sse = s
    <3>1. /\ streams[s] # Absent /\ streams'[s].iso = streams[s].iso /\ streams'[s].id = streams[s].id
          /\ streams[s].open /\ streams[s].iso # i /\ streams[s] \in StreamRow
      BY <1>b, <2>4, <2>7 DEF StreamTables
    <3>2. local[streams[s].iso][streams[s].id].sse = s /\ local[streams[s].iso][streams[s].id] # Absent
      BY <3>1 DEF StreamInv, StreamsFit
    <3> QED
      BY <2>3, <3>1, <3>2 DEF StreamRow
  <2>8. ASSUME NEW j \in Isolates, NEW id \in Ids, local'[j][id] # Absent, local'[j][id].sse # Absent
        PROVE  streams'[local'[j][id].sse] # Absent
    <3>1. local'[j][id] = local[j][id] /\ local[j][id] \in Row
      BY <1>b, <2>3, <2>8 DEF Locals
    <3>2. local[j][id].sse \in Streams /\ streams[local[j][id].sse] # Absent
      BY <2>8, <3>1 DEF Row, StreamInv, StreamsFit
    <3> QED
      BY <2>4, <3>1, <3>2
  <2>9. StreamsFit(local', streams')
    BY <2>7, <2>8 DEF StreamsFit
  <2> QED
    BY <1>c, <1>g, <2>1, <2>3, <2>6, <2>9 DEF Recycle, RowsGrow
<1>4. CASE \E id \in Ids : Age(id) \/ KvExpires(id)
  <2>1. PICK id \in Ids : Age(id) \/ KvExpires(id)
    BY <1>4
  <2>2. UNCHANGED <<local, streams, owner>>
    BY <2>1 DEF Age, KvExpires
  <2>3. RowsGrow
    <3>1. CASE Age(id)
      BY <1>c, <3>1 DEF Age, RowsGrow
    <3>2. CASE KvExpires(id)
      BY <1>c, <3>2 DEF KvExpires, RowsGrow
    <3> QED
      BY <2>1, <3>1, <3>2
  <2> QED
    BY <1>b, <2>2, <2>3 DEF StreamInv
<1> QED
  BY <1>1, <1>2, <1>3, <1>4 DEF World

\* The kinds of steps: a request arrives, or is at the sessions or the tools, the world
\* around moves on, the hub changes by itself, a token becomes void.
Arrives(r)  == Arrival(r) /\ UNCHANGED <<sessionVars, toolVars, void, scope>>
AtSession(r) == SessionStep(r) /\ UNCHANGED <<toolVars, void, scope>>
AtTools(r)  == ToolStep(r) /\ UNCHANGED <<void, scope>>
Around      == World /\ UNCHANGED <<toolVars, void, scope>>
HubAlone    == HubChanges /\ UNCHANGED <<void, scope>>
TokenVoid   == \E t \in Tokens : Voids(t) /\ UNCHANGED <<sessionVars, req, toolVars, scope>>

\* There are no others.
LEMMA StepKinds ==
  ASSUME TypeInv, [Next]_vars
  PROVE  \/ \E r \in Reqs : Arrives(r) \/ AtSession(r) \/ AtTools(r)
         \/ Around \/ HubAlone \/ TokenVoid \/ UNCHANGED vars
<1>1. CASE \E r \in Reqs : /\ \E i \in scope.isos, h \in scope.shown, op \in scope.ops :
                               Client(r, i, h, op) /\ UNCHANGED toolVars
                           /\ UNCHANGED <<void, scope>>
  <2>1. PICK r \in Reqs : /\ \E i \in scope.isos, h \in scope.shown, op \in scope.ops :
                               Client(r, i, h, op) /\ UNCHANGED toolVars
                          /\ UNCHANGED <<void, scope>>
    BY <1>1
  <2>2. PICK i \in scope.isos, h \in scope.shown, op \in scope.ops :
          Client(r, i, h, op) /\ UNCHANGED toolVars
    BY <2>1
  <2>3. Arrives(r)
    BY <2>1, <2>2, ClientsArrive DEF Arrives
  <2> QED
    BY <2>3
<1>2. ASSUME NEW r \in Reqs, Server(r), UNCHANGED <<void, scope>>
      PROVE  AtSession(r) \/ AtTools(r)
  BY <1>2 DEF Server, AtSession, AtTools
<1>3. CASE World /\ UNCHANGED toolVars /\ UNCHANGED <<void, scope>>
  BY <1>3 DEF Around
<1>4. CASE HubChanges /\ UNCHANGED <<void, scope>>
  BY <1>4 DEF HubAlone
<1>5. CASE (\E t \in Tokens : Voids(t)) /\ UNCHANGED <<sessionVars, req, toolVars, scope>>
  BY <1>5 DEF TokenVoid
<1> QED
  BY <1>1, <1>2, <1>3, <1>4, <1>5 DEF Next

\* A step that leaves the tools alone keeps their types.
LEMMA ToolTypesKept ==
  ASSUME TypeInv, UNCHANGED <<toolVars, void, scope>>, RowsGrow, local' \in Locals, streams' \in StreamTables
  PROVE  TypeOK'
BY DEF TypeInv, TypeOK, toolVars, hubSide, RowsGrow, Locals, StreamTables

\* Types are kept.
LEMMA StepTypes ==
  ASSUME TypeInv, SessionInv, StreamInv, [Next]_vars
  PROVE  TypeInv' /\ StreamInv'
<1>b. /\ rows \in [Ids -> Users \cup {Absent}] /\ owner \in [Ids -> Users \cup {Absent}]
      /\ old \subseteq Ids /\ told \subseteq Ids /\ ending \subseteq Ids /\ ended \subseteq Ids /\ lost \subseteq Ids
      /\ local \in Locals /\ streams \in StreamTables
  BY DEF TypeInv, TypeOK, Locals, StreamTables
<1>c. ASSUME UNCHANGED sessionVars
      PROVE  RowsGrow /\ local' \in Locals /\ streams' \in StreamTables /\ StreamInv'
  <2>1. UNCHANGED <<rows, old, owner, local, streams, told, ending, ended, lost>>
    BY <1>c DEF sessionVars
  <2>2. RowsGrow
    BY <1>b, <2>1 DEF RowsGrow
  <2> QED
    BY <1>b, <2>1, <2>2 DEF StreamInv
<1>d. ASSUME NEW r \in Reqs, Alone(r), Placed(req'[r])
      PROVE  req' \in [Reqs -> Requests] /\ \A p \in Reqs : Placed(req'[p])
  BY <1>d DEF Alone, TypeInv
<1>1. ASSUME NEW r \in Reqs, Arrives(r)
      PROVE  TypeInv' /\ StreamInv'
  <2>1. Alone(r) /\ Placed(req'[r])
    BY <1>1 DEF Arrives, Arrival
  <2>2. RowsGrow /\ local' \in Locals /\ streams' \in StreamTables /\ StreamInv'
    BY <1>1, <1>c DEF Arrives
  <2>3. TypeOK'
    BY <1>1, <2>2, ToolTypesKept DEF Arrives
  <2> QED
    BY <1>d, <2>1, <2>2, <2>3 DEF TypeInv
<1>2. ASSUME NEW r \in Reqs, AtSession(r)
      PROVE  TypeInv' /\ StreamInv'
  <2>1. Alone(r) /\ Placed(req'[r])
    BY <1>2, SessionsMove DEF AtSession, SessionMove
  <2>2. RowsGrow /\ local' \in Locals /\ streams' \in StreamTables /\ StreamInv'
    BY <1>2, SessionsGrow, SessionsKeepStreams DEF AtSession
  <2>3. TypeOK'
    BY <1>2, <2>2, ToolTypesKept DEF AtSession
  <2> QED
    BY <1>d, <2>1, <2>2, <2>3 DEF TypeInv
<1>3. ASSUME NEW r \in Reqs, AtTools(r)
      PROVE  TypeInv' /\ StreamInv'
  <2>1. ToolMove(r)
    BY <1>3, ToolsMove DEF AtTools
  <2>2. /\ post' \in [Tasks -> Nat] /\ keyRow' \subseteq Tasks /\ stored' \subseteq Tasks
        /\ crossed' \subseteq Tasks /\ UNCHANGED <<sealed, archived>>
    BY <1>3, HubTypes DEF AtTools
  <2>3. UNCHANGED <<rows, old, owner, local, streams, ending, ended, lost, void, scope>>
    BY <1>3 DEF AtTools, ToolStep
  <2>4. told' \subseteq Ids
    BY <1>b, <2>1 DEF ToolMove, TypeInv, Requests
  <2>5. TypeOK'
    BY <2>1, <2>2, <2>3, <2>4 DEF TypeInv, TypeOK, ToolMove
  <2>6. StreamInv'
    BY <2>3 DEF StreamInv
  <2> QED
    BY <1>d, <2>1, <2>5, <2>6 DEF TypeInv, ToolMove
<1>4. CASE Around
  <2>1. RowsGrow /\ local' \in Locals /\ streams' \in StreamTables /\ StreamInv'
    BY <1>4, WorldKeepsStreams DEF Around
  <2>2. TypeOK'
    BY <1>4, <2>1, ToolTypesKept DEF Around
  <2>3. CASE UNCHANGED req
    BY <2>1, <2>2, <2>3 DEF TypeInv
  <2>4. CASE \E i \in Isolates : Recycle(i)
    BY <2>1, <2>2, <2>4, RecycleLeaves DEF TypeInv
  <2> QED
    BY <1>4, <2>3, <2>4 DEF Around, World, ClientLeaves, RuntimeCancels, Age, KvExpires
<1>5. CASE HubAlone
  <2>1. UNCHANGED <<sessionVars, req, post, keyRow, stored, done, fine, crossed, void, scope>>
    BY <1>5 DEF HubAlone, HubChanges
  <2>2. archived' \subseteq Boards /\ sealed' \subseteq Boards \cup Mail
    BY <1>5 DEF HubAlone, HubChanges, TypeInv, TypeOK
  <2>3. RowsGrow /\ local' \in Locals /\ streams' \in StreamTables /\ StreamInv'
    BY <1>c, <2>1
  <2>4. TypeOK'
    BY <2>1, <2>2, <2>3 DEF TypeInv, TypeOK, RowsGrow, Locals, StreamTables
  <2> QED
    BY <2>1, <2>3, <2>4 DEF TypeInv
<1>6. CASE TokenVoid
  <2>1. UNCHANGED <<sessionVars, req, toolVars, scope>> /\ void' \subseteq Tokens
    BY <1>6 DEF TokenVoid, Voids, TypeInv, TypeOK
  <2>2. RowsGrow /\ local' \in Locals /\ streams' \in StreamTables /\ StreamInv'
    BY <1>c, <2>1
  <2>3. TypeOK'
    BY <2>1, <2>2 DEF TypeInv, TypeOK, toolVars, hubSide, RowsGrow, Locals, StreamTables
  <2> QED
    BY <2>1, <2>2, <2>3 DEF TypeInv
<1>7. CASE UNCHANGED vars
  <2>1. UNCHANGED <<sessionVars, req, toolVars, void, scope>>
    BY <1>7 DEF vars
  <2>2. RowsGrow /\ local' \in Locals /\ streams' \in StreamTables /\ StreamInv'
    BY <1>c, <2>1
  <2>3. TypeOK'
    BY <2>1, <2>2, ToolTypesKept
  <2> QED
    BY <2>1, <2>2, <2>3 DEF TypeInv
<1> QED
  BY <1>1, <1>2, <1>3, <1>4, <1>5, <1>6, <1>7, StepKinds

\* What lasts: sessions that are alive, until they are old or ended.
AliveKept == \A id \in Ids : Alive(id) => Alive(id)'

\* Of a request that stays as it is, everything holds that held, when another one, r, takes
\* its step.
LEMMA OthersHold ==
  ASSUME TypeInv, SessionInv, RowsGrow, AliveKept, NEW r \in Reqs, NEW p \in Reqs, p # r,
         req'[p] = req[p],
         told' = told \/ told' = told \cup ({req[r].id} \ {Absent})
  PROVE  HoldsSession(req[p])'
<1>a. req[p] \in Requests /\ Placed(req[p]) /\ HoldsSession(req[p])
  BY DEF TypeInv, SessionInv
<1> PICK q \in Requests : q = req[p]
  BY <1>a
<1>b. q.id \in Ids \cup {Absent} /\ Absent \notin Ids /\ Absent \notin Users
  BY RowsAreSome DEF Requests
<1>1. q.id # Absent /\ q.pc # "persist" => Alive(q.id)'
  BY <1>a, <1>b DEF HoldsSession, AliveKept
<1>2. q.pc = "persist" => owner'[q.id] = q.sub /\ q.id \notin told'
  <2>1. ASSUME q.pc = "persist"
        PROVE  q.id \in Ids /\ q.sub \in Users /\ owner[q.id] = q.sub /\ q.id \notin told /\ req[r].id # q.id
    BY <1>a, <2>1 DEF Placed, HoldsSession, SessionInv
  <2> QED
    BY <1>b, <2>1 DEF RowsGrow
<1>3. q.pc = "resolve" /\ q.id \notin old' \cup ending' => q.row = owner'[q.id]
  BY <1>a, <1>b DEF Placed, HoldsSession, Alive, RowsGrow
<1>4. (q.pc = "expire" => q.id \in old') /\ (q.pc = "drop" => q.id \in ending')
  BY <1>a DEF HoldsSession, RowsGrow
<1>5. (q.dead => q.pc \in {"read", "resolve"} /\ q.id \in ended') /\ (q.dead /\ q.pc = "resolve" => q.row = Absent)
  BY <1>a DEF HoldsSession, RowsGrow
<1>6. HoldsSession(q)'
  BY <1>1, <1>2, <1>3, <1>4, <1>5 DEF HoldsSession
<1> QED
  BY <1>6 DEF HoldsSession, Alive

\* What a step of request r has to see to, so that SessionInv holds after it.
SeesTo(r) ==
  /\ Alone(r) /\ RowsGrow /\ AliveKept
  /\ HoldsSession(req[r])'
  /\ req'[r].id \in {Absent, req[r].id} \cup told \/ (req'[r].id \in Ids /\ owner[req'[r].id] = Absent)
  /\ req'[r].pc = "persist" => req'[r].id \in Ids /\ owner[req'[r].id] = Absent
  /\ told' = told \/ (req[r].pc # "persist" /\ told' = told \cup ({req[r].id} \ {Absent}))
  /\ ending' = ending \/ (req[r].pc = "resolve" /\ ending' = ending \cup {req[r].id})
  /\ ended' = ended \/ (req[r].pc = "drop" /\ ended' = ended \cup {req[r].id})
  /\ \A id \in ended' : rows'[id] = Absent
  /\ lost' = {}

\* That is enough.
LEMMA SeenTo ==
  ASSUME TypeInv, SessionInv, NEW r \in Reqs, SeesTo(r)
  PROVE  SessionInv'
<1>a. \A p \in Reqs : req[p] \in Requests /\ Placed(req[p]) /\ HoldsSession(req[p])
  BY DEF TypeInv, SessionInv
<1>b. RowsGrow /\ AliveKept /\ \A p \in Reqs : p # r => req'[p] = req[p]
  BY DEF SeesTo, Alone
<1>c. told \subseteq Ids /\ ending \subseteq Ids /\ ended \subseteq Ids
  BY DEF TypeInv, TypeOK
<1>1. \A p \in Reqs : HoldsSession(req[p])'
  <2>1. ASSUME NEW p \in Reqs, p # r
        PROVE  HoldsSession(req[p])'
    BY <1>b, <2>1, OthersHold DEF SeesTo
  <2>2. HoldsSession(req[r])'
    BY DEF SeesTo
  <2> QED
    BY <2>1, <2>2
<1>d. ASSUME NEW p \in Reqs, req[p].id \in Ids
      PROVE  owner[req[p].id] # Absent
  <2>1. CASE req[p].pc = "persist"
    BY <1>a, <2>1, RowsAreSome DEF Placed, HoldsSession
  <2>2. CASE req[p].pc # "persist"
    BY <1>a, <1>d, <2>2, RowsAreSome DEF HoldsSession, Alive
  <2> QED
    BY <2>1, <2>2
<1>2. ASSUME NEW p \in Reqs, NEW q \in Reqs, p # q, req'[p].pc = "persist"
      PROVE  req'[q].id # req'[p].id
  <2>1. CASE p = r
    <3>1. req'[q] = req[q] /\ owner[req'[r].id] = Absent /\ req'[r].id \in Ids
      BY <1>2, <1>b, <2>1 DEF SeesTo
    <3> QED
      BY <1>d, <2>1, <3>1
  <2>2. CASE p # r
    <3>1. req'[p] = req[p] /\ req[p].id \in Ids /\ req[p].id \notin told /\ owner[req[p].id] # Absent
      BY <1>2, <1>a, <1>b, <1>d, <2>2 DEF Placed, HoldsSession
    <3>2. CASE q = r
      <4>1. req[r].id # req[p].id
        BY <1>2, <2>2, <3>1 DEF SessionInv
      <4>2. req'[r].id \in {Absent, req[r].id} \cup told \/ owner[req'[r].id] = Absent
        BY DEF SeesTo
      <4> QED
        BY <3>1, <3>2, <4>1, <4>2, RowsAreSome
    <3>3. CASE q # r
      BY <1>2, <1>b, <2>2, <3>1, <3>3 DEF SessionInv
    <3> QED
      BY <3>2, <3>3
  <2> QED
    BY <2>1, <2>2
<1>3. ASSUME NEW p \in Reqs, req'[p].pc = "persist"
      PROVE  req'[p].id \notin ending'
  <2>1. CASE p = r
    <3>1. owner[req'[r].id] = Absent /\ req'[r].id \in Ids
      BY <1>3, <2>1 DEF SeesTo
    <3>2. req'[r].id \notin ending /\ req'[r].id # req[r].id
      BY <1>d, <3>1 DEF SessionInv
    <3> QED
      BY <2>1, <3>2 DEF SeesTo
  <2>2. CASE p # r
    <3>1. req'[p] = req[p] /\ req[p].id \notin ending /\ req[r].id # req[p].id
      BY <1>3, <1>b, <2>2 DEF SessionInv
    <3> QED
      BY <3>1 DEF SeesTo
  <2> QED
    BY <2>1, <2>2
<1>4. ASSUME NEW id \in told'
      PROVE  Alive(id)'
  <2>1. CASE id \in told
    BY <1>b, <1>c, <2>1 DEF SessionInv, AliveKept
  <2>2. CASE id \notin told
    <3>1. req[r].pc # "persist" /\ id = req[r].id /\ id # Absent
      BY <1>4, <2>2 DEF SeesTo
    <3>2. Alive(id) /\ id \in Ids
      BY <1>a, <3>1 DEF HoldsSession, Requests
    <3> QED
      BY <1>b, <3>2 DEF AliveKept
  <2> QED
    BY <2>1, <2>2
<1>5. ASSUME NEW id \in ending'
      PROVE  owner'[id] # Absent
  <2>1. CASE id \in ending
    BY <1>b, <1>c, <2>1 DEF SessionInv, RowsGrow
  <2>2. CASE id \notin ending
    <3>1. req[r].pc = "resolve" /\ id = req[r].id
      BY <1>5, <2>2 DEF SeesTo
    <3> QED
      BY <1>a, <1>b, <1>d, <3>1 DEF Placed, RowsGrow
  <2> QED
    BY <2>1, <2>2
<1>6. ASSUME NEW id \in ended'
      PROVE  id \in ending' /\ rows'[id] = Absent
  <2>1. CASE id \in ended
    BY <1>b, <2>1 DEF SessionInv, RowsGrow, SeesTo
  <2>2. CASE id \notin ended
    <3>1. req[r].pc = "drop" /\ id = req[r].id
      BY <1>6, <2>2 DEF SeesTo
    <3> QED
      BY <1>6, <1>a, <1>b, <3>1 DEF HoldsSession, RowsGrow, SeesTo
  <2> QED
    BY <2>1, <2>2
<1>7. lost' = {}
  BY DEF SeesTo
<1> QED
  BY <1>1, <1>2, <1>3, <1>4, <1>5, <1>6, <1>7 DEF SessionInv

\* A session stays alive if its row is kept or is written as it was made.
LEMMA AliveStays ==
  ASSUME TypeInv, RowsGrow,
         \A id \in Ids \ (old \cup ending) : owner[id] # Absent => rows'[id] \in {rows[id], owner[id]}
  PROVE  AliveKept
BY DEF AliveKept, Alive, RowsGrow

\* Nothing holds of an answered request.
LEMMA NothingHeld ==
  ASSUME NEW r \in Reqs, req'[r] = Idle
  PROVE  HoldsSession(req[r])' /\ req'[r].id = Absent /\ req'[r].pc # "persist"
BY DEF HoldsSession, Idle

\* Requests at the sessions see to the invariant.
LEMMA SessionsSee ==
  ASSUME TypeInv, SessionInv, NEW r \in Reqs, SessionStep(r)
  PROVE  SeesTo(r)
<1>a. req[r] \in Requests /\ Placed(req[r]) /\ HoldsSession(req[r])
  BY DEF TypeInv, SessionInv
<1>b. RowsGrow /\ SessionMove(r) /\ Alone(r) /\ req \in [Reqs -> Requests]
  BY SessionsGrow, SessionsMove DEF SessionMove, TypeInv
<1>c. \A id \in ended : rows[id] = Absent /\ id \in ending
  BY DEF SessionInv
<1>d. lost = {} /\ ended \subseteq Ids /\ told \subseteq Ids
  BY DEF SessionInv, TypeInv, TypeOK
<1>e. rows \in [Ids -> Users \cup {Absent}] /\ owner \in [Ids -> Users \cup {Absent}]
  BY DEF TypeInv, TypeOK
<1>k. ASSUME UNCHANGED rows
      PROVE  AliveKept
  BY <1>b, <1>k, AliveStays
\* The request is answered.
<1>0. ASSUME AliveKept, Answer(r), UNCHANGED ending,
             told' = told \/ (req[r].pc # "persist" /\ told' = told \cup ({req[r].id} \ {Absent})),
             ended' = ended \/ (req[r].pc = "drop" /\ ended' = ended \cup {req[r].id}),
             \A id \in ended' : rows'[id] = Absent, lost' = {}
      PROVE  SeesTo(r)
  <2>1. req'[r] = Idle
    BY <1>0, <1>b, Answered
  <2>2. HoldsSession(req[r])' /\ req'[r].id = Absent /\ req'[r].pc # "persist"
    BY <2>1, NothingHeld
  <2> QED
    BY <1>0, <1>b, <2>2 DEF SeesTo
\* Its client is told that the session does not exist.
<1>1. ASSUME AliveKept, NotFound(r), req[r].pc # "persist",
             \A id \in ended : rows'[id] = Absent,
             req[r].id \in old \cup ending \/ req[r].sub # owner[req[r].id]
      PROVE  SeesTo(r)
  <2>1. lost' = {}
    BY <1>1, <1>d DEF NotFound
  <2>2. Answer(r) /\ UNCHANGED <<told, ending, ended>>
    BY <1>1 DEF NotFound
  <2> QED
    BY <1>0, <1>1, <2>1, <2>2
\* It goes on with its session.
<1>2. ASSUME AliveKept, NEW pc \in Places, Goes(r, pc), UNCHANGED <<told, ended, lost>>,
             pc # "persist" /\ req[r].pc # "persist" /\ pc # "resolve",
             ending' = ending \/ (req[r].pc = "resolve" /\ ending' = ending \cup {req[r].id}),
             \A id \in ended : rows'[id] = Absent,
             pc = "expire" => req[r].id \in old, pc = "drop" => req[r].id \in ending', ~req[r].dead
      PROVE  SeesTo(r)
  <2>1. req'[r] = [req[r] EXCEPT !.pc = pc]
    BY <1>2, <1>b, Gone
  <2>2. req'[r].pc = pc /\ req'[r].id = req[r].id /\ req'[r].dead = req[r].dead
    BY <1>a, <2>1 DEF Requests
  <2>3. req'[r].id # Absent => Alive(req[r].id)'
    <3>1. PICK id \in Ids \cup {Absent} : id = req[r].id
      BY <1>a DEF Requests
    <3>2. id # Absent => Alive(id)'
      BY <1>2, <1>a, <3>1 DEF HoldsSession, AliveKept
    <3> QED
      BY <2>2, <3>1, <3>2 DEF Alive
  <2>4. HoldsSession(req[r])'
    BY <1>2, <1>b, <2>2, <2>3 DEF HoldsSession, RowsGrow, Alive
  <2> QED
    BY <1>2, <1>b, <1>d, <2>2, <2>4 DEF SeesTo
\* A request whose session had ended found no row.
<1>3. ASSUME req[r].pc = "resolve", req[r].row # Absent
      PROVE  ~req[r].dead
  BY <1>3, <1>a DEF HoldsSession
<1>4. CASE ReadRow(r)
  <2> DEFINE row == rows[req[r].id]
  <2>1. At(r, "read") /\ req' = [req EXCEPT ![r].row = row, ![r].pc = "resolve"]
        /\ UNCHANGED <<rows, old, owner, told, ending, ended, lost>>
    BY <1>4 DEF ReadRow, RowSeen, sessionVars
  <2>2. req[r].id \in Ids /\ Alive(req[r].id) /\ req[r].pc = "read"
    BY <1>a, <2>1, RowsAreSome DEF At, Placed, HoldsSession
  <2> HIDE DEF row
  <2>3. req'[r] = [req[r] EXCEPT !.row = row, !.pc = "resolve"]
    BY <1>b, <2>1
  <2>4. /\ req'[r].pc = "resolve" /\ req'[r].id = req[r].id /\ req'[r].dead = req[r].dead
        /\ req'[r].row = row
    BY <1>a, <2>3 DEF Requests
  <2>5. req[r].dead => row = Absent /\ req[r].id \in ended
    BY <1>a, <1>c DEF HoldsSession, row
  <2>6. req[r].id \notin old \cup ending => row = owner[req[r].id]
    BY <2>2 DEF Alive, row
  <2>7. HoldsSession(req[r])'
    BY <2>1, <2>2, <2>4, <2>5, <2>6 DEF HoldsSession, Alive
  <2> QED
    BY <1>b, <1>c, <1>d, <1>k, <2>1, <2>4, <2>7 DEF SeesTo
<1>5. CASE ResolveGone(r)
  <2>1. At(r, "resolve") /\ req[r].row = Absent /\ NotFound(r) /\ UNCHANGED rows
    BY <1>5 DEF ResolveGone, Found
  <2>2. req[r].id \in Ids /\ owner[req[r].id] # Absent
    BY <1>a, <2>1, RowsAreSome DEF At, Placed, HoldsSession, Alive
  <2>3. req[r].id \in old \cup ending
    BY <1>a, <2>1, <2>2 DEF At, HoldsSession
  <2> QED
    BY <1>1, <1>c, <1>k, <2>1, <2>3 DEF At
<1>6. CASE ResolveOld(r)
  <2>1. /\ At(r, "resolve") /\ req[r].row # Absent /\ req[r].id \in old /\ Goes(r, "expire")
        /\ UNCHANGED <<rows, told, ending, ended, lost>>
    BY <1>6 DEF ResolveOld, Found
  <2> QED
    BY <1>2, <1>3, <1>c, <1>k, <2>1 DEF At, Places
<1>7. CASE Expire(r)
  <2>1. At(r, "expire") /\ rows' = [rows EXCEPT ![req[r].id] = Absent] /\ NotFound(r)
    BY <1>7 DEF Expire
  <2>2. req[r].id \in old
    BY <1>a, <2>1 DEF At, HoldsSession
  <2>3. AliveKept
    BY <1>b, <1>e, <2>1, <2>2, AliveStays
  <2>4. \A id \in ended : rows'[id] = Absent
    BY <1>c, <1>d, <1>e, <2>1
  <2> QED
    BY <1>1, <2>1, <2>2, <2>3, <2>4 DEF At
<1>8. CASE ResolveForeign(r)
  <2>1. /\ At(r, "resolve") /\ req[r].row # Absent /\ req[r].id \notin old /\ req[r].row # req[r].sub
        /\ NotFound(r) /\ UNCHANGED rows
    BY <1>8 DEF ResolveForeign, Found
  <2>2. req[r].id \in old \cup ending \/ req[r].sub # owner[req[r].id]
    BY <1>a, <2>1 DEF At, HoldsSession
  <2> QED
    BY <1>1, <1>c, <1>k, <2>1, <2>2 DEF At
<1>9. CASE Resolve(r)
  <2>1. /\ At(r, "resolve") /\ req[r].row # Absent
        /\ UNCHANGED <<rows, told, ending, ended, lost>>
        /\ Answer(r) \/ Goes(r, "bind")
    BY <1>9 DEF Resolve, Resolves, Found
  <2>2. CASE Answer(r)
    BY <1>0, <1>c, <1>d, <1>k, <2>1, <2>2
  <2>3. CASE Goes(r, "bind")
    BY <1>2, <1>3, <1>c, <1>k, <2>1, <2>3 DEF At, Places
  <2> QED
    BY <2>1, <2>2, <2>3
<1>10. CASE ResolveEnd(r)
  <2>1. /\ At(r, "resolve") /\ req[r].row # Absent /\ Goes(r, "drop")
        /\ ending' = ending \cup {req[r].id} /\ UNCHANGED <<rows, told, ended, lost>>
    BY <1>10 DEF ResolveEnd, Resolves, Found
  <2> QED
    BY <1>2, <1>3, <1>c, <1>k, <2>1 DEF At, Places
<1>11. CASE Drop(r)
  <2>1. /\ At(r, "drop") /\ rows' = [rows EXCEPT ![req[r].id] = Absent]
        /\ ended' = ended \cup {req[r].id} /\ Answer(r) /\ UNCHANGED <<told, ending, lost>>
    BY <1>11 DEF Drop
  <2>2. req[r].id \in ending /\ req[r].id \in Ids
    BY <1>a, <2>1 DEF At, HoldsSession, Placed
  <2>3. AliveKept
    BY <1>b, <1>e, <2>1, <2>2, AliveStays
  <2>4. \A id \in ended' : rows'[id] = Absent
    BY <1>c, <1>d, <1>e, <2>1, <2>2
  <2> QED
    BY <1>0, <1>d, <2>1, <2>3, <2>4 DEF At
<1>12. CASE BindFails(r)
  BY <1>0, <1>12, <1>c, <1>d, <1>k DEF BindFails, sessionVars
<1>13. CASE Bind(r)
  <2>1. At(r, "bind") /\ UNCHANGED <<rows, ending, ended, lost>>
    BY <1>13 DEF Bind
  <2>2. ~req[r].dead
    BY <1>a, <2>1 DEF At, HoldsSession
  <2>3. CASE Answer(r) /\ Tells(r)
    BY <1>0, <1>c, <1>d, <1>k, <2>1, <2>3 DEF At, Tells
  <2>4. ASSUME NEW pc \in {"tool", "create", "attach"}, Goes(r, pc), UNCHANGED told
        PROVE  SeesTo(r)
    BY <1>2, <1>c, <1>k, <2>1, <2>2, <2>4 DEF At, Places
  <2> QED
    BY <1>13, <2>3, <2>4 DEF Bind
<1>14. CASE \E id \in Ids : Create(r, id)
  <2>1. PICK id \in Ids : Create(r, id)
    BY <1>14
  <2>2. /\ At(r, "create") /\ owner[id] = Absent /\ owner' = [owner EXCEPT ![id] = req[r].sub]
        /\ req' = [req EXCEPT ![r].id = id, ![r].pc = "persist"]
        /\ UNCHANGED <<rows, old, told, ending, ended, lost>>
    BY <2>1 DEF Create
  <2>3. req'[r] = [req[r] EXCEPT !.id = id, !.pc = "persist"]
    BY <1>b, <2>2
  <2>4. req'[r].pc = "persist" /\ req'[r].id = id /\ req'[r].dead = req[r].dead /\ req'[r].sub = req[r].sub
    BY <1>a, <2>3 DEF Requests
  <2>5. ~req[r].dead
    BY <1>a, <2>2 DEF At, HoldsSession
  <2>6. id \notin told /\ owner'[id] = req[r].sub
    BY <1>e, <2>2 DEF SessionInv, Alive
  <2>7. HoldsSession(req[r])'
    BY <2>2, <2>4, <2>5, <2>6 DEF HoldsSession
  <2> QED
    BY <1>b, <1>c, <1>d, <1>k, <2>2, <2>4, <2>7 DEF SeesTo
<1>15. CASE Persist(r)
  <2>1. /\ At(r, "persist") /\ rows' = [rows EXCEPT ![req[r].id] = req[r].sub]
        /\ Goes(r, IF req[r].op = "open" THEN "attach" ELSE "bind")
        /\ UNCHANGED <<old, owner, told, ending, ended, lost>>
    BY <1>15 DEF Persist
  <2>2. req[r].id \in Ids /\ owner[req[r].id] = req[r].sub /\ req[r].sub \in Users /\ ~req[r].dead
    BY <1>a, <2>1 DEF At, Placed, HoldsSession
  <2>3. AliveKept
    BY <1>b, <1>e, <2>1, <2>2, AliveStays
  <2>4. req[r].id \notin ended
    BY <1>c, <2>1 DEF At, SessionInv
  <2>5. \A id \in ended : rows'[id] = Absent
    BY <1>c, <1>d, <1>e, <2>1, <2>4
  <2>6. PICK pc \in {"attach", "bind"} : pc = IF req[r].op = "open" THEN "attach" ELSE "bind"
    OBVIOUS
  <2>7. req'[r] = [req[r] EXCEPT !.pc = pc]
    BY <1>b, <2>1, <2>6, Gone DEF Places
  <2>8. req'[r].pc = pc /\ req'[r].id = req[r].id /\ req'[r].dead = req[r].dead
    BY <1>a, <2>7 DEF Requests
  <2>9. Alive(req[r].id)'
    BY <1>e, <2>1, <2>2, <2>8, RowsAreSome DEF Alive
  <2>10. HoldsSession(req[r])'
    BY <2>2, <2>8, <2>9 DEF HoldsSession, Alive
  <2> QED
    BY <1>b, <1>d, <2>1, <2>3, <2>5, <2>8, <2>10 DEF SeesTo
<1>16. CASE (\E s \in Streams : Attach(r, s)) \/ AttachFails(r)
  <2>1. At(r, "attach") /\ Answer(r) /\ Tells(r) /\ UNCHANGED <<rows, ending, ended, lost>>
    BY <1>16 DEF Attach, AttachFails
  <2> QED
    BY <1>0, <1>c, <1>d, <1>k, <2>1 DEF At, Tells
<1> QED
  BY <1>4, <1>5, <1>6, <1>7, <1>8, <1>9, <1>10, <1>11, <1>12, <1>13, <1>14, <1>15, <1>16 DEF SessionStep

\* Requests at the tools, and those that arrive, see to it as well.
LEMMA ToolsSee ==
  ASSUME TypeInv, SessionInv, NEW r \in Reqs, AtTools(r)
  PROVE  SeesTo(r)
<1>a. req[r] \in Requests /\ HoldsSession(req[r])
  BY DEF TypeInv, SessionInv
<1>1. ToolMove(r) /\ UNCHANGED <<rows, old, owner, local, streams, ending, ended, lost>>
  BY ToolsMove DEF AtTools, ToolStep
<1>2. RowsGrow
  BY <1>1, <1>a DEF RowsGrow, ToolMove, TypeInv, TypeOK, Requests
<1>3. AliveKept
  BY <1>1, <1>2, AliveStays
<1>4. HoldsSession(req[r])'
  <2>1. CASE req'[r] = Idle
    BY <2>1, NothingHeld
  <2>2. CASE /\ req'[r].pc \in {"tool", "hub"}
             /\ req'[r].id = req[r].id /\ req'[r].dead = req[r].dead
    <3>1. ~req[r].dead /\ (req[r].id # Absent => Alive(req[r].id))
      BY <1>a, <1>1 DEF ToolMove, HoldsSession
    <3> QED
      BY <1>1, <2>2, <3>1 DEF HoldsSession, Alive
  <2> QED
    BY <1>1, <2>1, <2>2 DEF ToolMove
<1>5. req'[r].id \in {Absent, req[r].id} /\ req'[r].pc # "persist" /\ req[r].pc # "persist"
  BY <1>1 DEF ToolMove, Idle
<1> QED
  BY <1>1, <1>2, <1>3, <1>4, <1>5 DEF SeesTo, ToolMove, SessionInv

LEMMA ArrivalsSee ==
  ASSUME TypeInv, SessionInv, NEW r \in Reqs, Arrives(r)
  PROVE  SeesTo(r)
<1>1. Arrival(r) /\ UNCHANGED <<rows, old, owner, local, streams, told, ending, ended, lost>>
  BY DEF Arrives, sessionVars
<1>2. RowsGrow
  BY <1>1 DEF RowsGrow, TypeInv, TypeOK
<1>3. AliveKept
  BY <1>1, <1>2, AliveStays
<1>4. HoldsSession(req[r])'
  <2>1. req'[r].id # Absent => Alive(req[r].id)'
    BY <1>1 DEF Arrival, SessionInv, Alive
  <2> QED
    BY <1>1, <2>1 DEF Arrival, HoldsSession
<1> QED
  BY <1>1, <1>2, <1>3, <1>4 DEF SeesTo, Arrival, SessionInv

\* Whatever happens around, SessionInv holds after it.
LEMMA WorldSees ==
  ASSUME TypeInv, SessionInv, StreamInv, World
  PROVE  SessionInv'
<1>a. \A p \in Reqs : req[p] \in Requests /\ Placed(req[p]) /\ HoldsSession(req[p])
  BY DEF TypeInv, SessionInv
<1>b. /\ rows \in [Ids -> Users \cup {Absent}] /\ owner \in [Ids -> Users \cup {Absent}]
      /\ told \subseteq Ids /\ ended \subseteq Ids /\ ending \subseteq Ids
  BY DEF TypeInv, TypeOK
<1>1. RowsGrow
  BY WorldKeepsStreams
<1>2. UNCHANGED <<owner, told, ending, ended, lost>> /\ AliveKept
  <2>1. CASE UNCHANGED rows
    <3>1. AliveKept
      BY <1>1, <2>1, AliveStays
    <3> QED
      BY <3>1 DEF World, ClientLeaves, RuntimeCancels, Recycle, Age, KvExpires
  <2>2. CASE \E id \in Ids : KvExpires(id)
    <3>1. PICK id \in Ids : KvExpires(id)
      BY <2>2
    <3>2. id \in old /\ rows' = [rows EXCEPT ![id] = Absent] /\ UNCHANGED <<owner, told, ending, ended, lost>>
      BY <3>1 DEF KvExpires
    <3>3. AliveKept
      BY <1>1, <1>b, <3>2, AliveStays
    <3> QED
      BY <3>2, <3>3
  <2> QED
    BY <2>1, <2>2 DEF World, ClientLeaves, RuntimeCancels, Recycle, Age
<1>3. \A id \in ended : rows'[id] = Absent
  <2>1. \A id \in Ids : rows[id] = Absent => rows'[id] = Absent
    BY <1>b DEF World, ClientLeaves, RuntimeCancels, Recycle, Age, KvExpires
  <2> QED
    BY <1>b, <2>1 DEF SessionInv
<1>4. ASSUME NEW p \in Reqs
      PROVE  \/ req'[p] = Idle
             \/ /\ req'[p].id = req[p].id /\ req'[p].pc = req[p].pc /\ req'[p].dead = req[p].dead
                /\ req'[p].sub = req[p].sub /\ req'[p].row = req[p].row
  <2>1. CASE UNCHANGED req
    BY <2>1
  <2>2. CASE \E i \in Isolates : Recycle(i)
    <3>1. Outlasts(p)
      BY <2>2, RecycleLeaves
    <3> QED
      BY <1>a, <3>1 DEF Outlasts, Requests
  <2> QED
    BY <2>1, <2>2 DEF World, ClientLeaves, RuntimeCancels, Age, KvExpires
<1>5. ASSUME NEW p \in Reqs
      PROVE  HoldsSession(req[p])'
  <2>1. CASE req'[p] = Idle
    BY <2>1, NothingHeld
  <2>2. CASE /\ req'[p].id = req[p].id /\ req'[p].pc = req[p].pc /\ req'[p].dead = req[p].dead
             /\ req'[p].sub = req[p].sub /\ req'[p].row = req[p].row
    <3>1. PICK q \in Requests : q = req[p]
      BY <1>a
    <3>2. q.id # Absent /\ q.pc # "persist" => Alive(q.id)'
      BY <1>a, <1>2, <3>1 DEF HoldsSession, AliveKept, Requests
    <3>3. HoldsSession(q)
      BY <1>a, <3>1
    <3>4. req'[p].id # Absent /\ req'[p].pc # "persist" => Alive(req[p].id)'
      BY <2>2, <3>1, <3>2 DEF Alive
    <3> QED
      BY <1>1, <1>2, <2>2, <3>1, <3>3, <3>4 DEF HoldsSession, RowsGrow
  <2> QED
    BY <1>4, <2>1, <2>2
<1>6. \A p \in Reqs : req'[p].pc = "persist" => req'[p].id = req[p].id /\ req[p].pc = "persist"
  BY <1>4 DEF Idle
<1>7. \A p \in Reqs : req'[p].id \in {req[p].id, Absent}
  BY <1>4 DEF Idle
<1>8. \A p, q \in Reqs : p # q /\ req'[p].pc = "persist" => req'[q].id # req'[p].id
  BY <1>a, <1>6, <1>7, RowsAreSome DEF SessionInv, Placed
<1>9. \A p \in Reqs : req'[p].pc = "persist" => req'[p].id \notin ending'
  BY <1>2, <1>6 DEF SessionInv
<1>10. \A id \in told' : Alive(id)'
  BY <1>b, <1>2 DEF SessionInv, AliveKept
<1>11. (\A id \in ending' : owner'[id] # Absent) /\ lost' = {}
  BY <1>2 DEF SessionInv
<1>12. \A id \in ended' : id \in ending' /\ rows'[id] = Absent
  BY <1>2, <1>3 DEF SessionInv
<1> QED
  BY <1>5, <1>8, <1>9, <1>10, <1>11, <1>12 DEF SessionInv

\* A step that leaves requests and sessions alone leaves SessionInv.
LEMMA SessionsLeft ==
  ASSUME SessionInv, UNCHANGED <<sessionVars, req>>
  PROVE  SessionInv'
BY DEF SessionInv, HoldsSession, Alive, sessionVars

\* Sessions and streams are in order at the start, and after every step.
LEMMA InitSessionInv == Init => TypeInv /\ SessionInv /\ StreamInv
<1> SUFFICES ASSUME Init
             PROVE  TypeInv /\ SessionInv /\ StreamInv
  OBVIOUS
<1>1. TypeOK
  <2>1. scope \in Scopes /\ sealed \subseteq Boards \cup Mail
    BY ScopeAssumption DEF Init
  <2> QED
    BY <2>1 DEF Init, InitDoor, InitSessions, InitTools, TypeOK
<1>2. req = [r \in Reqs |-> Idle]
  BY DEF Init, InitSessions
<1>3. TypeInv
  BY <1>1, <1>2, IdleFits DEF TypeInv
<1>4. SessionInv
  BY <1>2 DEF SessionInv, HoldsSession, Idle, Init, InitSessions
<1>5. StreamInv
  BY DEF StreamInv, StreamsFit, Init, InitSessions
<1> QED
  BY <1>3, <1>4, <1>5

LEMMA StepSessions ==
  ASSUME TypeInv, SessionInv, StreamInv, [Next]_vars
  PROVE  TypeInv' /\ SessionInv' /\ StreamInv'
<1>1. ASSUME NEW r \in Reqs, SeesTo(r)
      PROVE  SessionInv'
  BY <1>1, SeenTo
<1>2. ASSUME NEW r \in Reqs, Arrives(r) \/ AtSession(r) \/ AtTools(r)
      PROVE  SessionInv'
  BY <1>1, <1>2, ArrivalsSee, SessionsSee, ToolsSee DEF AtSession
<1>3. ASSUME Around
      PROVE  SessionInv'
  <2>1. World
    BY <1>3 DEF Around
  <2> QED
    BY <2>1, WorldSees
<1>4. ASSUME HubAlone \/ TokenVoid \/ UNCHANGED vars
      PROVE  SessionInv'
  <2>1. UNCHANGED <<sessionVars, req>>
    BY <1>4 DEF HubAlone, HubChanges, TokenVoid, vars
  <2> QED
    BY <2>1, SessionsLeft
<1> QED
  BY <1>2, <1>3, <1>4, StepKinds, StepTypes

LEMMA SessionsAreKept == Spec => [](TypeInv /\ SessionInv /\ StreamInv)
<1>1. TypeInv /\ SessionInv /\ StreamInv /\ [Next]_vars => (TypeInv /\ SessionInv /\ StreamInv)'
  BY StepSessions
<1> QED
  BY <1>1, InitSessionInv, PTL DEF Spec

\* Every reachable state of the server is well typed.
THEOREM TypeCorrect == Spec => []TypeOK
<1>1. TypeInv => TypeOK
  BY DEF TypeInv
<1> QED
  BY <1>1, SessionsAreKept, PTL

\* On one isolate, a session has one open event stream, however many GETs of it wait
\* for the hub at the same time.
THEOREM StreamsAreSingle == Spec => []OneStreamPerSession
<1>1. TypeInv /\ StreamInv => OneStreamPerSession
  BY DEF StreamInv, StreamsFit, OneStreamPerSession, TypeInv, TypeOK
<1> QED
  BY <1>1, SessionsAreKept, PTL

\* A session outlives the isolates that served it, and nobody serves a request of a
\* session whose DELETE was answered before it came.
THEOREM SessionsOutliveIsolates == Spec => []SessionsHold
<1>1. SessionInv => SessionsHold
  BY DEF SessionInv, HoldsSession, SessionsHold
<1> QED
  BY <1>1, SessionsAreKept, PTL

-----------------------------------------------------------------------------
(* Plans *)

\* What tools ask the hub for when they look.
Looks == {"listThreads", "peek", "fetchAppMessages", "listAgents", "listContacts",
          "listExternalContacts", "listCollabs", "getCollab"}

LEMMA LooksDoNotWrite == Looks \cap Writes = {} /\ "putAgentHandshake" \notin MailWrites \cup BoardWrites
BY DEF Looks, Writes, MailWrites, BoardWrites

\* The tools by what their requests are.
LEMMA ToolNames ==
  /\ DOMAIN ReadPlans = {"health", "ping", "list_threads", "get_thread"}
  /\ DOMAIN ListPlans = {"list_agents", "list_contacts", "list_collabs", "get_collab"}
  /\ DOMAIN MarkProcessed = {"mark_processed"}
  /\ DOMAIN BoardPlans = {"create_card", "set_lane", "set_checklist_item", "add_learning"}
  /\ DOMAIN ReplyPlan = {"reply_to_thread"}
  /\ DOMAIN MailPlans = {"close_thread", "delete_thread", "upvote_message"}
BY DEF ReadPlans, ListPlans, MarkProcessed, BoardPlans, ReplyPlan, MailPlans

\* A tool that hosts are told only reads asks the hub for nothing else.
LEMMA PlansThatRead ==
  ASSUME NEW n \in Tasks, Tool(n) \in ReadOnlyHint
  PROVE  Plan[n] \in Seq(Looks)
<1>1. CASE Tool(n) \in DOMAIN ReadPlans
  <2>1. Plan[n] = ReadPlans[Tool(n)]
    BY <1>1, ToolNames DEF Plan
  <2>2. \A t \in DOMAIN ReadPlans : ReadPlans[t] \in Seq(Looks)
    <3>1. ReadPlans["health"] = <<>> /\ <<>> \in Seq(Looks)
      BY DEF ReadPlans, Looks
    <3>2. ReadPlans["ping"] = <<>> /\ <<>> \in Seq(Looks)
      BY DEF ReadPlans, Looks
    <3>3. ReadPlans["list_threads"] = <<"listThreads", "peek">> /\ <<"listThreads", "peek">> \in Seq(Looks)
      BY DEF ReadPlans, Looks
    <3>4. ReadPlans["get_thread"] = <<"fetchAppMessages">> /\ <<"fetchAppMessages">> \in Seq(Looks)
      BY DEF ReadPlans, Looks
    <3> QED
      BY <3>1, <3>2, <3>3, <3>4, ToolNames
  <2> QED
    BY <1>1, <2>1, <2>2
<1>2. CASE Tool(n) \in DOMAIN ListPlans
  <2>1. Plan[n] = ListPlans[Tool(n)]
    BY <1>2, ToolNames DEF Plan
  <2>2. \A t \in DOMAIN ListPlans : ListPlans[t] \in Seq(Looks)
    <3>1. ListPlans["list_agents"] = <<"listAgents">> /\ <<"listAgents">> \in Seq(Looks)
      BY DEF ListPlans, Looks
    <3>2. ListPlans["list_contacts"] = <<"listContacts", "listExternalContacts">> /\ <<"listContacts", "listExternalContacts">> \in Seq(Looks)
      BY DEF ListPlans, Looks
    <3>3. ListPlans["list_collabs"] = <<"listCollabs">> /\ <<"listCollabs">> \in Seq(Looks)
      BY DEF ListPlans, Looks
    <3>4. ListPlans["get_collab"] = <<"getCollab">> /\ <<"getCollab">> \in Seq(Looks)
      BY DEF ListPlans, Looks
    <3> QED
      BY <3>1, <3>2, <3>3, <3>4, ToolNames
  <2> QED
    BY <1>2, <2>1, <2>2
<1>3. CASE Tool(n) \in DOMAIN MarkProcessed
  <2>1. Plan[n] = MarkProcessed[Tool(n)]
    BY <1>3, ToolNames DEF Plan
  <2>2. \A t \in DOMAIN MarkProcessed : MarkProcessed[t] \in Seq(Looks)
    <3>1. MarkProcessed["mark_processed"] = <<>> /\ <<>> \in Seq(Looks)
      BY DEF MarkProcessed, Looks
    <3> QED
      BY <3>1, ToolNames
  <2> QED
    BY <1>3, <2>1, <2>2
<1> QED
  BY <1>1, <1>2, <1>3 DEF ReadOnlyHint

\* Replies and cards look, and then write once.
LEMMA PlansWithKey ==
  ASSUME NEW n \in Tasks, Key(n)
  PROVE  /\ Plan[n] \in Seq(Looks \cup Writes) /\ Len(Plan[n]) = 2
         /\ Plan[n][1] \in Looks /\ Plan[n][2] \in MailWrites
<1>1. CASE Tool(n) = "reply_to_thread"
  <2>1. Plan[n] = <<"fetchAppMessages", "replyToThread">>
    BY <1>1, ToolNames DEF Plan, ReplyPlan
  <2> QED
    BY <2>1 DEF Looks, Writes, MailWrites
<1>2. CASE Tool(n) = "create_card"
  <2>1. Plan[n] = <<"getCollab", "createThread">>
    BY <1>2, ToolNames DEF Plan, BoardPlans
  <2> QED
    BY <2>1 DEF Looks, Writes, MailWrites
<1> QED
  BY <1>1, <1>2 DEF Key

\* A plan is a list of requests.
LEMMA PlansAreLists ==
  ASSUME NEW n \in Tasks
  PROVE  Plan[n] \in Seq(Looks \cup Writes)
<1> DEFINE R == Looks \cup Writes
<1>a. <<"fetchAppMessages", "replyToThread">> \in Seq(R) /\ <<"createThread">> \in Seq(R)
      /\ <<"getCollab">> \in Seq(R) /\ <<"putAgentHandshake">> \in Seq(R) /\ <<>> \in Seq(R)
  BY DEF Looks, Writes, MailWrites
<1>1. CASE Tool(n) \in ReadOnlyHint
  <2>1. Plan[n] \in Seq(Looks)
    BY <1>1, PlansThatRead
  <2> QED
    BY <2>1
<1>2. CASE Tool(n) \in DOMAIN BoardPlans
  <2>1. Plan[n] = BoardPlans[Tool(n)]
    BY <1>2, ToolNames DEF Plan
  <2>2. \A t \in DOMAIN BoardPlans : BoardPlans[t] \in Seq(R)
    <3>1. BoardPlans["create_card"] = <<"getCollab", "createThread">> /\ <<"getCollab", "createThread">> \in Seq(R)
      BY DEF BoardPlans, Looks, Writes, BoardWrites, MailWrites
    <3>2. BoardPlans["set_lane"] = <<"getCollab", "setLane">> /\ <<"getCollab", "setLane">> \in Seq(R)
      BY DEF BoardPlans, Looks, Writes, BoardWrites, MailWrites
    <3>3. BoardPlans["set_checklist_item"] = <<"getCollab", "setChecklistItem">> /\ <<"getCollab", "setChecklistItem">> \in Seq(R)
      BY DEF BoardPlans, Looks, Writes, BoardWrites, MailWrites
    <3>4. BoardPlans["add_learning"] = <<"getCollab", "addLearning">> /\ <<"getCollab", "addLearning">> \in Seq(R)
      BY DEF BoardPlans, Looks, Writes, BoardWrites, MailWrites
    <3> QED
      BY <3>1, <3>2, <3>3, <3>4, ToolNames
  <2> QED
    BY <1>2, <2>1, <2>2
<1>3. CASE Tool(n) \in DOMAIN MailPlans
  <2>1. Plan[n] = MailPlans[Tool(n)]
    BY <1>3, ToolNames DEF Plan
  <2>2. \A t \in DOMAIN MailPlans : MailPlans[t] \in Seq(R)
    <3>1. MailPlans["close_thread"] = <<"closeThread">> /\ <<"closeThread">> \in Seq(R)
      BY DEF MailPlans, Looks, Writes, MailWrites
    <3>2. MailPlans["delete_thread"] = <<"deleteThread">> /\ <<"deleteThread">> \in Seq(R)
      BY DEF MailPlans, Looks, Writes, MailWrites
    <3>3. MailPlans["upvote_message"] = <<"upvoteMessage">> /\ <<"upvoteMessage">> \in Seq(R)
      BY DEF MailPlans, Looks, Writes, MailWrites
    <3> QED
      BY <3>1, <3>2, <3>3, ToolNames
  <2> QED
    BY <1>3, <2>1, <2>2
<1>4. CASE Tool(n) \in DOMAIN ReplyPlan
  <2>1. Tool(n) = "reply_to_thread" /\ Plan[n] = ReplyPlan[Tool(n)]
    BY <1>4, ToolNames DEF Plan
  <2>2. ReplyPlan["reply_to_thread"] = <<"fetchAppMessages", "replyToThread">>
    BY DEF ReplyPlan
  <2> QED
    BY <1>a, <2>1, <2>2
<1>5. CASE Tool(n) = "forward_draft"
  <2>1. Plan[n] = ForwardPlan(n)
    BY <1>5, ToolNames DEF Plan
  <2> HIDE DEF R
  <2>2. ForwardPlan(n) \in Seq(R)
    BY <1>a DEF ForwardPlan
  <2> QED
    BY <2>1, <2>2 DEF R
<1>6. CASE Tool(n) = "publish_handshake"
  <2>1. Plan[n] = HandshakePlan(n)
    BY <1>6, ToolNames DEF Plan
  <2>2. ReplyPlan.reply_to_thread \in Seq(R)
    BY <1>a DEF ReplyPlan
  <2> HIDE DEF R
  <2>3. HandshakePlan(n) \in Seq(R)
    BY <1>a, <2>2 DEF HandshakePlan
  <2> QED
    BY <2>1, <2>3 DEF R
<1> QED
  BY <1>1, <1>2, <1>3, <1>4, <1>5, <1>6, ToolAssumption DEF FixedTools

-----------------------------------------------------------------------------
(* Tools *)

\* The k-th request of task n left its mark at the hub, if it is to leave one.
Did(n, k) ==
  /\ Plan[n][k] = "putAgentHandshake" => n \in stored
  /\ Plan[n][k] \in MailWrites \cup BoardWrites => post[n] >= 1
Finished(n) == \A k \in DOMAIN Plan[n] : Did(n, k)

HoldsTask(q) ==
  /\ q.pc \in {"tool", "hub"} =>
       \A k \in DOMAIN Plan[Task(q)] : k < q.step => Did(Task(q), k)
  /\ q.pc = "hub" => q.step \in DOMAIN Plan[Task(q)] /\ Call(q) \in Writes
  /\ \A n \in q.ok : Finished(n)

ToolInv ==
  /\ \A p \in Reqs : HoldsTask(req[p])
  /\ \A n \in keyRow : Key(n) /\ post[n] >= 1
  /\ \A n \in fine : Finished(n)
  /\ \A n \in Tasks : Tool(n) \in ReadOnlyHint => post[n] = 0 /\ n \notin stored

\* What was done at the hub stays done.
HubGrows == post' \in [Tasks -> Nat] /\ (\A n \in Tasks : post[n] <= post'[n]) /\ stored \subseteq stored'

LEMMA DidStays ==
  ASSUME TypeInv, HubGrows, NEW n \in Tasks
  PROVE  /\ \A k \in DOMAIN Plan[n] : Did(n, k) => Did(n, k)'
         /\ Finished(n) => Finished(n)'
<1>1. post[n] \in Nat /\ post'[n] \in Nat /\ post[n] <= post'[n]
  BY DEF TypeInv, TypeOK, HubGrows
<1>2. ASSUME NEW k \in DOMAIN Plan[n], Did(n, k)
      PROVE  Did(n, k)'
  BY <1>1, <1>2 DEF Did, HubGrows
<1> QED
  BY <1>2 DEF Finished

\* A request with no finished tasks that is not at the hub, and at the tools only with
\* its first request, holds what it is to hold.
LEMMA FreshHolds ==
  ASSUME NEW q \in Requests, Placed(q), q.ok = {}, q.pc # "hub", q.pc = "tool" => q.step = 1
  PROVE  HoldsTask(q)
<1>1. CASE q.pc # "tool"
  BY <1>1 DEF HoldsTask
<1>2. CASE q.pc = "tool"
  <2>1. Task(q) \in Tasks
    BY <1>2, AtTask
  <2>2. \A k \in DOMAIN Plan[Task(q)] : ~(k < 1)
    BY <2>1, PlansAreLists
  <2> QED
    BY <1>2, <2>2 DEF HoldsTask
<1> QED
  BY <1>1, <1>2

\* What holds of a request holds after a step that leaves it alone.
LEMMA HeldStill ==
  ASSUME TypeInv, HubGrows, NEW p \in Reqs, req'[p] = req[p], HoldsTask(req[p])
  PROVE  HoldsTask(req[p])'
<1>1. PICK q \in Requests : q = req[p] /\ Placed(q)
  BY DEF TypeInv
<1>2. HoldsTask(q) /\ req'[p] = q
  BY <1>1
<1>3. \A n \in q.ok : Finished(n)'
  BY <1>1, <1>2, DidStays DEF HoldsTask, Requests
<1>4. q.pc \in {"tool", "hub"} => \A k \in DOMAIN Plan[Task(q)] : k < q.step => Did(Task(q), k)'
  <2> SUFFICES ASSUME q.pc \in {"tool", "hub"}, NEW k \in DOMAIN Plan[Task(q)], k < q.step
               PROVE  Did(Task(q), k)'
    OBVIOUS
  <2>1. Task(q) \in Tasks
    BY <1>1, AtTask
  <2> QED
    BY <1>2, <2>1, DidStays DEF HoldsTask
<1>5. q.pc = "hub" => q.step \in DOMAIN Plan[Task(q)] /\ Call(q) \in Writes
  BY <1>2 DEF HoldsTask
<1>6. HoldsTask(q)'
  BY <1>3, <1>4, <1>5 DEF HoldsTask, Call, Task
<1> QED
  BY <1>2, <1>6 DEF HoldsTask, Call, Task

\* A call that is worked off, with an answer that is an error or is true.
LEMMA AdvanceHolds ==
  ASSUME TypeInv, ToolInv, HubGrows, NEW r \in Reqs, req[r].pc \in {"tool", "hub"},
         NEW n \in Tasks, n = Task(req[r]), NEW ok \in BOOLEAN, Advance(r, ok), ok => Finished(n)'
  PROVE  /\ HoldsTask(req[r])' /\ (\A m \in fine' : Finished(m)')
         /\ req'[r].pc \in {"idle", "tool"}
<1>a. req[r] \in Requests /\ Placed(req[r]) /\ HoldsTask(req[r])
  BY DEF TypeInv, ToolInv
<1>b. fine \subseteq Tasks
  BY DEF TypeInv, TypeOK
<1> DEFINE good == IF ok THEN req[r].ok \cup {n} ELSE req[r].ok
<1>c. \A m \in good : Finished(m)'
  <2>1. \A m \in req[r].ok : Finished(m)'
    BY <1>a, DidStays DEF HoldsTask, Requests
  <2> QED
    BY <2>1
<1>d. \A m \in fine : Finished(m)'
  BY <1>b, DidStays DEF ToolInv
<1> HIDE DEF good
<1>1. CASE req[r].at < Len(req[r].batch)
  <2>1. req' = [req EXCEPT ![r].at = @ + 1, ![r].step = 1, ![r].pc = "tool", ![r].ok = good]
        /\ UNCHANGED <<done, fine, told>>
    BY <1>1 DEF Advance, good
  <2>2. req'[r] = [req[r] EXCEPT !.at = @ + 1, !.step = 1, !.pc = "tool", !.ok = good]
    BY <2>1 DEF TypeInv
  <2>3. PICK q : q = [req[r] EXCEPT !.at = @ + 1, !.step = 1, !.pc = "tool", !.ok = good]
    OBVIOUS
  <2>4. q.at = req[r].at + 1 /\ q.step = 1 /\ q.pc = "tool" /\ q.ok = good /\ q.batch = req[r].batch
    BY <1>a, <2>3 DEF Requests
  <2>5. req[r].at \in 1..Len(req[r].batch) /\ Len(req[r].batch) \in Nat
        /\ \A k \in 1..Len(req[r].batch) : req[r].batch[k] \in Tasks
    BY <1>a, AtTask
  <2>6. Task(q) \in Tasks
    BY <1>1, <2>4, <2>5 DEF Task
  <2>7. \A k \in DOMAIN Plan[Task(q)] : ~(k < 1)
    BY <2>6, PlansAreLists
  <2>8. HoldsTask(q)'
    BY <1>c, <2>4, <2>7 DEF HoldsTask, Task
  <2>9. req'[r] = q
    BY <2>2, <2>3
  <2>10. HoldsTask(req[r])'
    BY <2>8, <2>9 DEF HoldsTask, Task, Call
  <2> QED
    BY <1>d, <2>1, <2>4, <2>9, <2>10
<1>2. CASE ~(req[r].at < Len(req[r].batch))
  <2>1. Answer(r) /\ fine' = fine \cup good
    BY <1>2 DEF Advance, good
  <2>2. req'[r] = Idle
    BY <2>1, Answered DEF TypeInv
  <2>3. HoldsTask(req[r])' /\ req'[r].pc = "idle"
    BY <2>2 DEF HoldsTask, Idle
  <2> QED
    BY <1>c, <1>d, <2>1, <2>3
<1> QED
  BY <1>1, <1>2

\* The hub answered the request of a tool: the next one, or the answer.
LEMMA NextCallHolds ==
  ASSUME TypeInv, ToolInv, HubGrows, NEW r \in Reqs, req[r].pc \in {"tool", "hub"}, NextCall(r),
         NEW n \in Tasks, n = Task(req[r]), NEW s \in DOMAIN Plan[n], s = req[r].step, Did(n, s)'
  PROVE  /\ HoldsTask(req[r])' /\ (\A m \in fine' : Finished(m)')
         /\ req'[r].pc \in {"idle", "tool"}
<1>a. req[r] \in Requests /\ Placed(req[r]) /\ HoldsTask(req[r])
  BY DEF TypeInv, ToolInv
<1>b. n \in Tasks /\ req[r].step \in Nat
  BY <1>a, AtTask
<1>c. PICK len \in Nat : DOMAIN Plan[n] = 1..len /\ Len(Plan[n]) = len
  BY <1>b, PlansAreLists
<1>d. \A k \in DOMAIN Plan[n] : k <= s => Did(n, k)'
  <2> SUFFICES ASSUME NEW k \in DOMAIN Plan[n], k <= s
               PROVE  Did(n, k)'
    OBVIOUS
  <2>1. CASE k = s
    BY <2>1
  <2>2. CASE k < s
    BY <1>a, <1>b, <2>2, DidStays DEF HoldsTask
  <2> QED
    BY <1>b, <1>c, <2>1, <2>2
<1>1. CASE req[r].step < Len(Plan[n])
  <2>1. req' = [req EXCEPT ![r].step = @ + 1, ![r].pc = "tool"] /\ UNCHANGED <<done, fine, told>>
    BY <1>1 DEF NextCall
  <2>2. req'[r] = [req[r] EXCEPT !.step = @ + 1, !.pc = "tool"]
    BY <2>1 DEF TypeInv
  <2>3. PICK q : q = [req[r] EXCEPT !.step = @ + 1, !.pc = "tool"]
    OBVIOUS
  <2>4. q.at = req[r].at /\ q.step = req[r].step + 1 /\ q.pc = "tool" /\ q.ok = req[r].ok
        /\ q.batch = req[r].batch /\ Task(q) = n
    BY <1>a, <2>3 DEF Requests, Task
  <2>5. \A m \in q.ok : Finished(m)'
    BY <1>a, <2>4, DidStays DEF HoldsTask, Requests
  <2>6. \A k \in DOMAIN Plan[n] : k < q.step => Did(n, k)'
    <3>1. \A k \in DOMAIN Plan[n] : k < q.step => k <= s
      BY <1>b, <1>c, <2>4
    <3> QED
      BY <1>d, <3>1
  <2>7. HoldsTask(q)'
    <3>1. Task(q)' = n
      BY <2>4 DEF Task
    <3> QED
      BY <2>4, <2>5, <2>6, <3>1 DEF HoldsTask
  <2>8. req'[r] = q
    BY <2>2, <2>3
  <2>9. HoldsTask(req[r])'
    BY <2>7, <2>8 DEF HoldsTask, Task, Call
  <2>10. \A m \in fine' : Finished(m)'
    BY <2>1, DidStays DEF ToolInv, TypeInv, TypeOK
  <2> QED
    BY <2>4, <2>8, <2>9, <2>10
<1>2. CASE ~(req[r].step < Len(Plan[n]))
  <2>1. Advance(r, TRUE)
    BY <1>2 DEF NextCall
  <2>2. \A k \in DOMAIN Plan[n] : k <= s
    BY <1>2, <1>b, <1>c
  <2>3. Finished(n)'
    BY <1>d, <2>2 DEF Finished
  <2> QED
    BY <2>1, <2>3, AdvanceHolds
<1> QED
  BY <1>1, <1>2

\* A commit at the hub: the task, the step and the request of its plan that is done.
LEMMA AtCommit ==
  ASSUME TypeInv, ToolInv, NEW r \in Reqs, At(r, "hub")
  PROVE  /\ Task(req[r]) \in Tasks /\ req[r].step \in DOMAIN Plan[Task(req[r])]
         /\ Plan[Task(req[r])][req[r].step] \in Writes /\ Call(req[r]) \in Writes
         /\ Tool(Task(req[r])) \notin ReadOnlyHint
         /\ Key(Task(req[r])) => Call(req[r]) # "putAgentHandshake"
<1>1. req[r] \in Requests /\ Placed(req[r]) /\ HoldsTask(req[r]) /\ req[r].pc = "hub"
  BY DEF TypeInv, ToolInv, At
<1>2. PICK n \in Tasks : n = Task(req[r])
  BY <1>1, AtTask
<1>3. PICK s : s = req[r].step /\ s \in DOMAIN Plan[n] /\ Plan[n][s] \in Writes
  BY <1>1, <1>2 DEF HoldsTask, Call
<1>4. Tool(n) \notin ReadOnlyHint
  <2> SUFFICES ASSUME Tool(n) \in ReadOnlyHint
               PROVE  FALSE
    OBVIOUS
  <2>1. Plan[n] \in Seq(Looks)
    BY PlansThatRead
  <2>2. Plan[n][s] \in Looks
    BY <1>3, <2>1
  <2> QED
    BY <1>3, <2>2, LooksDoNotWrite
<1>5. Key(n) => Plan[n][s] # "putAgentHandshake"
  <2> SUFFICES ASSUME Key(n)
               PROVE  Plan[n][s] # "putAgentHandshake"
    OBVIOUS
  <2>1. /\ Plan[n] \in Seq(Looks \cup Writes) /\ Len(Plan[n]) = 2
        /\ Plan[n][1] \in Looks /\ Plan[n][2] \in MailWrites
    BY PlansWithKey
  <2>2. s = 1 \/ s = 2
    BY <1>3, <2>1
  <2> QED
    BY <1>3, <2>1, <2>2 DEF Looks, MailWrites
<1> QED
  BY <1>2, <1>3, <1>4, <1>5 DEF Call

\* What a step of a request at the tools does at the hub.
LEMMA HubEffects ==
  ASSUME TypeInv, ToolInv, NEW r \in Reqs, ToolStep(r)
  PROVE  /\ \A m \in keyRow' : Key(m) /\ post'[m] >= 1
         /\ \A m \in Tasks : Tool(m) \in ReadOnlyHint => post'[m] = 0 /\ m \notin stored'
<1>a. post \in [Tasks -> Nat] /\ keyRow \subseteq Tasks /\ stored \subseteq Tasks
  BY DEF TypeInv, TypeOK
<1>1. CASE Direct(r) \/ Read(r) \/ Unprepared(r) \/ Send(r) \/ HubRefuses(r)
  <2>1. UNCHANGED <<post, keyRow, stored>>
    BY <1>1 DEF Direct, Read, Unprepared, Send, HubRefuses, hubSide
  <2> QED
    BY <2>1 DEF ToolInv
<1>2. CASE HubCommits(r)
  <2>1. At(r, "hub")
    BY <1>2 DEF HubCommits
  <2>2. PICK n \in Tasks : n = Task(req[r]) /\ Tool(n) \notin ReadOnlyHint
                           /\ (Key(n) => Call(req[r]) # "putAgentHandshake")
    BY <2>1, AtCommit
  <2>3. IF Call(req[r]) = "putAgentHandshake"
        THEN stored' = stored \cup {n} /\ post' = post
        ELSE post' = [post EXCEPT ![n] = @ + 1] /\ stored' = stored
    BY <1>2, <2>2 DEF HubCommits
  <2>4. keyRow' = IF Key(n) THEN keyRow \cup {n} ELSE keyRow
    BY <1>2, <2>2 DEF HubCommits
  <2>5. ASSUME NEW m \in keyRow'
        PROVE  Key(m) /\ post'[m] >= 1
    <3>1. CASE m \in keyRow
      <4>1. m \in Tasks /\ Key(m) /\ post[m] >= 1 /\ post[m] \in Nat
        BY <1>a, <3>1 DEF ToolInv
      <4> QED
        BY <1>a, <2>3, <4>1
    <3>2. CASE m = n /\ Key(n)
      BY <1>a, <2>2, <2>3, <3>2
    <3> QED
      BY <2>4, <2>5, <3>1, <3>2
  <2>6. ASSUME NEW m \in Tasks, Tool(m) \in ReadOnlyHint
        PROVE  post'[m] = 0 /\ m \notin stored'
    <3>1. m # n
      BY <2>2, <2>6
    <3> QED
      BY <1>a, <2>3, <2>6, <3>1 DEF ToolInv
  <2> QED
    BY <2>5, <2>6
<1> QED
  BY <1>1, <1>2 DEF ToolStep

\* A request at the tools holds what it is to hold after its step, and it is told that
\* something is done only of what is done.
LEMMA ToolStepHolds ==
  ASSUME TypeInv, ToolInv, NEW r \in Reqs, ToolStep(r)
  PROVE  HoldsTask(req[r])' /\ (\A m \in fine' : Finished(m)')
<1>a. req[r] \in Requests /\ Placed(req[r]) /\ HoldsTask(req[r])
  BY DEF TypeInv, ToolInv
<1>b. HubGrows
  BY HubTypes DEF HubGrows
<1>c. req[r].pc \in {"tool", "hub"}
  BY ToolsMove DEF ToolMove
<1>d. PICK n \in Tasks : n = Task(req[r])
  BY <1>a, <1>c, AtTask
<1>e. PICK s \in Nat \ {0} : s = req[r].step
  BY <1>a, <1>c, AtTask
<1>f. PICK len \in Nat : DOMAIN Plan[n] = 1..len /\ Len(Plan[n]) = len
  BY PlansAreLists
<1>g. \A m \in fine : Finished(m)'
  BY <1>b, DidStays DEF ToolInv, TypeInv, TypeOK
<1>1. ASSUME Fails(r)
      PROVE  HoldsTask(req[r])' /\ (\A m \in fine' : Finished(m)')
  BY <1>1, <1>b, <1>c, <1>d, AdvanceHolds DEF Fails
<1>2. ASSUME NextCall(r), s \in DOMAIN Plan[n], Did(n, s)'
      PROVE  HoldsTask(req[r])' /\ (\A m \in fine' : Finished(m)')
  BY <1>2, <1>b, <1>c, <1>d, <1>e, NextCallHolds
<1>3. ASSUME Orphaned(r)
      PROVE  HoldsTask(req[r])' /\ (\A m \in fine' : Finished(m)')
  <2>1. req'[r] = Idle /\ fine' = fine
    BY <1>3, Answered DEF Orphaned, TypeInv
  <2> QED
    BY <1>g, <2>1 DEF HoldsTask, Idle
<1>4. ASSUME Asks(r)
      PROVE  s \in DOMAIN Plan[n] /\ Call(req[r]) = Plan[n][s] /\ At(r, "tool")
  BY <1>4, <1>d, <1>e, <1>f DEF Asks, Call
<1>5. CASE Direct(r)
  <2>1. CASE Fails(r)
    BY <1>1, <2>1
  <2>2. CASE Plan[n] = <<>> /\ Advance(r, TRUE)
    <3>1. Finished(n)'
      BY <2>2 DEF Finished
    <3> QED
      BY <1>b, <1>c, <1>d, <2>2, <3>1, AdvanceHolds
  <2> QED
    BY <1>5, <1>d, <2>1, <2>2 DEF Direct
<1>6. CASE Read(r)
  <2>1. CASE NextCall(r)
    <3>1. Asks(r) /\ Call(req[r]) \notin Writes
      BY <1>6 DEF Read
    <3>2. Did(n, s)'
      BY <1>4, <3>1 DEF Did, Writes
    <3> QED
      BY <1>2, <1>4, <2>1, <3>1, <3>2
  <2> QED
    BY <1>1, <1>6, <2>1 DEF Read
<1>7. CASE Unprepared(r)
  BY <1>1, <1>7 DEF Unprepared
<1>8. CASE Send(r)
  <2>1. Asks(r) /\ Call(req[r]) \in Writes /\ UNCHANGED <<post, stored>>
    BY <1>8 DEF Send, hubSide
  <2>2. CASE NextCall(r) /\ Key(n) /\ n \in keyRow
    <3>1. post[n] >= 1
      BY <2>2 DEF ToolInv
    <3>2. Plan[n][s] # "putAgentHandshake"
      <4>1. /\ Plan[n] \in Seq(Looks \cup Writes) /\ Len(Plan[n]) = 2
            /\ Plan[n][1] \in Looks /\ Plan[n][2] \in MailWrites
        BY <2>2, PlansWithKey
      <4>2. s = 1 \/ s = 2
        BY <1>4, <1>f, <2>1, <4>1
      <4> QED
        BY <4>1, <4>2 DEF Looks, MailWrites
    <3>3. Did(n, s)'
      BY <2>1, <3>1, <3>2 DEF Did
    <3> QED
      BY <1>2, <1>4, <2>1, <2>2, <3>3
  <2>3. CASE Goes(r, "hub") /\ UNCHANGED <<done, fine, told>>
    <3>1. req'[r] = [req[r] EXCEPT !.pc = "hub"]
      BY <1>a, <2>3, Gone DEF Places, TypeInv
    <3>2. PICK q : q = [req[r] EXCEPT !.pc = "hub"]
      OBVIOUS
    <3>3. q.at = req[r].at /\ q.step = s /\ q.pc = "hub" /\ q.ok = req[r].ok /\ q.batch = req[r].batch
          /\ Task(q) = n
      BY <1>a, <1>d, <1>e, <3>2 DEF Requests, Task
    <3>4. \A m \in q.ok : Finished(m)'
      BY <1>a, <1>b, <3>3, DidStays DEF HoldsTask, Requests
    <3>5. \A k \in DOMAIN Plan[n] : k < s => Did(n, k)'
      BY <1>a, <1>b, <1>c, <1>d, <1>e, DidStays DEF HoldsTask
    <3>6. s \in DOMAIN Plan[n] /\ Plan[n][s] \in Writes
      BY <1>4, <2>1
    <3>7. Task(q)' = n /\ Call(q)' = Plan[n][s]
      BY <3>3 DEF Task, Call
    <3>8. HoldsTask(q)'
      BY <3>3, <3>4, <3>5, <3>6, <3>7 DEF HoldsTask
    <3>9. req'[r] = q
      BY <3>1, <3>2
    <3>10. HoldsTask(req[r])'
      BY <3>8, <3>9 DEF HoldsTask, Task, Call
    <3> QED
      BY <1>g, <2>3, <3>10
  <2> QED
    BY <1>8, <1>d, <2>2, <2>3 DEF Send
<1>9. CASE HubCommits(r)
  <2>1. CASE NextCall(r)
    <3>1. s \in DOMAIN Plan[n] /\ Call(req[r]) = Plan[n][s]
      BY <1>9, <1>d, <1>e, AtCommit DEF HubCommits, Call
    <3>2. IF Plan[n][s] = "putAgentHandshake"
          THEN stored' = stored \cup {n} /\ post' = post
          ELSE post' = [post EXCEPT ![n] = @ + 1] /\ stored' = stored
      BY <1>9, <1>d, <3>1 DEF HubCommits
    <3>3. post \in [Tasks -> Nat]
      BY DEF TypeInv, TypeOK
    <3>4. Did(n, s)'
      <4>1. CASE Plan[n][s] = "putAgentHandshake"
        BY <3>2, <4>1, LooksDoNotWrite DEF Did
      <4>2. CASE Plan[n][s] # "putAgentHandshake"
        BY <3>2, <3>3, <4>2 DEF Did
      <4> QED
        BY <4>1, <4>2
    <3> QED
      BY <1>2, <2>1, <3>1, <3>4
  <2> QED
    BY <1>3, <1>9, <2>1 DEF HubCommits
<1>10. CASE HubRefuses(r)
  BY <1>1, <1>3, <1>10 DEF HubRefuses
<1> QED
  BY <1>5, <1>6, <1>7, <1>8, <1>9, <1>10 DEF ToolStep

\* A request that no longer has anything, or is as it was but for its isolate, holds
\* what it held.
LEMMA RecycledHolds ==
  ASSUME TypeInv, ToolInv, HubGrows, NEW p \in Reqs, Outlasts(p)
  PROVE  HoldsTask(req[p])'
<1>1. req[p] \in Requests /\ HoldsTask(req[p])
  BY DEF TypeInv, ToolInv
<1>2. CASE req'[p] = req[p]
  BY <1>1, <1>2, HeldStill
<1>3. CASE req'[p] = Idle
  BY <1>3 DEF HoldsTask, Idle
<1>4. CASE req[p].pc = "hub" /\ req'[p] = [req[p] EXCEPT !.iso = Absent]
  <2>1. PICK q \in Requests : q = req[p] /\ Placed(q) /\ HoldsTask(q)
    BY <1>1 DEF TypeInv
  <2>2. PICK x : x = [q EXCEPT !.iso = Absent]
    OBVIOUS
  <2>3. x.pc = "hub" /\ x.step = q.step /\ x.ok = q.ok /\ Task(x) = Task(q) /\ q.pc = "hub"
    BY <1>4, <2>1, <2>2 DEF Requests, Task
  <2>4. \A m \in q.ok : Finished(m)'
    BY <2>1, DidStays DEF HoldsTask, Requests
  <2>5. PICK n \in Tasks : n = Task(q)
    BY <2>1, <2>3, AtTask
  <2>6. \A k \in DOMAIN Plan[n] : k < q.step => Did(n, k)'
    BY <2>1, <2>3, <2>5, DidStays DEF HoldsTask
  <2>7. q.step \in DOMAIN Plan[n] /\ Plan[n][q.step] \in Writes
    BY <2>1, <2>3, <2>5 DEF HoldsTask, Call
  <2>8. Task(x)' = n /\ Call(x)' = Plan[n][q.step]
    BY <2>3, <2>5 DEF Task, Call
  <2>9. HoldsTask(x)'
    BY <2>3, <2>4, <2>6, <2>7, <2>8 DEF HoldsTask
  <2>10. req'[p] = x
    BY <1>4, <2>1, <2>2
  <2> QED
    BY <2>9, <2>10 DEF HoldsTask, Task, Call
<1> QED
  BY <1>2, <1>3, <1>4 DEF Outlasts

\* What else happens leaves the tools' invariant, if all requests hold what they are to.
LEMMA ToolsLeft ==
  ASSUME TypeInv, ToolInv, UNCHANGED <<post, keyRow, stored, fine>>,
         \A p \in Reqs : HoldsTask(req[p])'
  PROVE  ToolInv'
<1>1. HubGrows
  BY DEF HubGrows, TypeInv, TypeOK
<1>2. \A n \in fine' : Finished(n)'
  BY <1>1, DidStays DEF ToolInv, TypeInv, TypeOK
<1>3. \A n \in keyRow' : Key(n)' /\ post'[n] >= 1
  BY DEF ToolInv, Key
<1>4. \A n \in Tasks : Tool(n) \in ReadOnlyHint => post'[n] = 0 /\ n \notin stored'
  BY DEF ToolInv
<1> QED
  BY <1>2, <1>3, <1>4 DEF ToolInv, Key

\* Every step keeps it.
LEMMA StepTools ==
  ASSUME TypeInv, ToolInv, [Next]_vars
  PROVE  ToolInv'
<1>a. \A p \in Reqs : HoldsTask(req[p])
  BY DEF ToolInv
<1>1. ASSUME NEW r \in Reqs, AtTools(r)
      PROVE  ToolInv'
  <2>0. ToolStep(r)
    BY <1>1 DEF AtTools
  <2>1. HubGrows
    BY <2>0, HubTypes DEF HubGrows
  <2>2. Alone(r)
    BY <2>0, ToolsMove DEF ToolMove
  <2>3. HoldsTask(req[r])' /\ (\A m \in fine' : Finished(m)')
    BY <2>0, ToolStepHolds
  <2>4. \A p \in Reqs : HoldsTask(req[p])'
    BY <1>a, <2>1, <2>2, <2>3, HeldStill DEF Alone
  <2>5. /\ \A m \in keyRow' : Key(m) /\ post'[m] >= 1
        /\ \A m \in Tasks : Tool(m) \in ReadOnlyHint => post'[m] = 0 /\ m \notin stored'
    BY <2>0, HubEffects
  <2> QED
    BY <2>3, <2>4, <2>5 DEF ToolInv, Key
<1>b. ASSUME UNCHANGED toolVars
      PROVE  HubGrows /\ UNCHANGED <<post, keyRow, stored, fine>>
  BY <1>b DEF toolVars, hubSide, HubGrows, TypeInv, TypeOK
<1>2. ASSUME NEW r \in Reqs, UNCHANGED toolVars, Alone(r), Placed(req'[r]), req'[r].ok = {},
             req'[r].pc # "hub", req'[r].pc = "tool" => req'[r].step = 1
      PROVE  ToolInv'
  <2>1. PICK q : q = req'[r]
    OBVIOUS
  <2>2. HoldsTask(q)
    BY <1>2, <2>1, FreshHolds DEF Alone
  <2>3. PICK x \in Requests : x = q /\ Placed(x)
    BY <1>2, <2>1 DEF Alone
  <2>4. HubGrows /\ UNCHANGED <<post, keyRow, stored, fine>>
    BY <1>2, <1>b
  <2>5. HoldsTask(q)'
    BY <1>2, <2>1, <2>2, <2>4 DEF HoldsTask, Did, Finished, Task, Call
  <2>6. HoldsTask(req[r])'
    BY <2>1, <2>5 DEF HoldsTask, Task, Call
  <2>7. \A p \in Reqs : HoldsTask(req[p])'
    BY <1>2, <1>a, <2>4, <2>6, HeldStill DEF Alone
  <2> QED
    BY <2>4, <2>7, ToolsLeft
<1>3. ASSUME NEW r \in Reqs, Arrives(r)
      PROVE  ToolInv'
  BY <1>2, <1>3 DEF Arrives, Arrival
<1>4. ASSUME NEW r \in Reqs, AtSession(r)
      PROVE  ToolInv'
  BY <1>2, <1>4, SessionsMove DEF AtSession, SessionMove
<1>5. ASSUME Around
      PROVE  ToolInv'
  <2>1. HubGrows /\ UNCHANGED <<post, keyRow, stored, fine>>
    BY <1>5, <1>b DEF Around
  <2>2. \A p \in Reqs : HoldsTask(req[p])'
    <3>1. CASE UNCHANGED req
      BY <1>a, <2>1, <3>1, HeldStill
    <3>2. CASE \E i \in Isolates : Recycle(i)
      BY <2>1, <3>2, RecycleLeaves, RecycledHolds
    <3> QED
      BY <1>5, <3>1, <3>2 DEF Around, World, ClientLeaves, RuntimeCancels, Age, KvExpires
  <2> QED
    BY <2>1, <2>2, ToolsLeft
<1>6. ASSUME HubAlone \/ TokenVoid \/ UNCHANGED vars
      PROVE  ToolInv'
  <2>1. UNCHANGED <<req, post, keyRow, stored, fine>>
    BY <1>6 DEF HubAlone, HubChanges, TokenVoid, vars, toolVars, hubSide
  <2>2. HubGrows
    BY <2>1 DEF HubGrows, TypeInv, TypeOK
  <2>3. \A p \in Reqs : HoldsTask(req[p])'
    BY <1>a, <2>1, <2>2, HeldStill
  <2> QED
    BY <2>1, <2>3, ToolsLeft
<1> QED
  BY <1>1, <1>3, <1>4, <1>5, <1>6, StepKinds

LEMMA InitToolInv == Init => ToolInv
<1> SUFFICES ASSUME Init
             PROVE  ToolInv
  OBVIOUS
<1>1. req = [r \in Reqs |-> Idle] /\ post = [n \in Tasks |-> 0] /\ keyRow = {} /\ stored = {} /\ fine = {}
  BY DEF Init, InitSessions, InitTools
<1> QED
  BY <1>1 DEF ToolInv, HoldsTask, Idle

LEMMA ToolsAreKept == Spec => [](TypeInv /\ SessionInv /\ StreamInv /\ ToolInv)
<1>1. /\ TypeInv /\ SessionInv /\ StreamInv /\ ToolInv /\ [Next]_vars
      => (TypeInv /\ SessionInv /\ StreamInv /\ ToolInv)'
  BY StepSessions, StepTools
<1> QED
  BY <1>1, InitSessionInv, InitToolInv, PTL DEF Spec

\* Who is told that a task is done finds all of it done at the hub, in batches and by
\* tools of several requests too.
THEOREM AnswersAreTrue == Spec => []OkMeansDone
<1>1. ToolInv => OkMeansDone
  BY DEF ToolInv, Finished, Did, OkMeansDone
<1> QED
  BY <1>1, ToolsAreKept, PTL

-----------------------------------------------------------------------------
(* Retries *)

\* A keyed task is at the hub once, and only before it is done.
OnceInv ==
  \A n \in Tasks : Info(n).key /\ n \notin crossed =>
    /\ \A p, q \in AtHub(n) : p = q
    /\ AtHub(n) # {} => post[n] = 0
    /\ post[n] <= 1
    /\ post[n] >= 1 => n \in keyRow

\* The requests at the hub for a task: no more than before, unless one goes there.
LEMMA FewerAtHub ==
  ASSUME NEW n \in Tasks, \A p \in Reqs : req'[p].pc = "hub" => req[p].pc = "hub" /\ Task(req'[p]) = Task(req[p])
  PROVE  AtHub(n)' \subseteq AtHub(n)
BY DEF AtHub, Task

LEMMA NobodyNew ==
  ASSUME OnceInv, UNCHANGED <<post, keyRow>>, crossed \subseteq crossed',
         \A n \in Tasks : AtHub(n)' \subseteq AtHub(n)
  PROVE  OnceInv'
BY DEF OnceInv, Info

\* A step that brings nobody to the hub and does nothing there.
LEMMA NobodyGoes ==
  ASSUME OnceInv, UNCHANGED <<post, keyRow>>, crossed \subseteq crossed',
         \A p \in Reqs : req'[p].pc = "hub" => req[p].pc = "hub" /\ Task(req'[p]) = Task(req[p])
  PROVE  OnceInv'
BY FewerAtHub, NobodyNew

\* Going on to the next request or call leaves the hub.
LEMMA LeavesHub ==
  ASSUME TypeInv, NEW r \in Reqs, req[r].pc \in {"tool", "hub"}, NEW ok \in BOOLEAN,
         Advance(r, ok) \/ NextCall(r) \/ Answer(r)
  PROVE  req'[r].pc # "hub" /\ \A p \in Reqs : p # r => req'[p] = req[p]
<1>a. req[r] \in Requests
  BY DEF TypeInv
<1>1. ASSUME Answer(r)
      PROVE  req'[r].pc # "hub" /\ \A p \in Reqs : p # r => req'[p] = req[p]
  BY <1>1, Answered DEF Alone, Idle, TypeInv
<1>2. ASSUME NEW yes, Advance(r, yes)
      PROVE  req'[r].pc # "hub" /\ \A p \in Reqs : p # r => req'[p] = req[p]
  <2>1. CASE Answer(r)
    BY <1>1, <2>1
  <2> DEFINE good == IF yes THEN req[r].ok \cup {Task(req[r])} ELSE req[r].ok
  <2> HIDE DEF good
  <2>2. CASE req' = [req EXCEPT ![r].at = @ + 1, ![r].step = 1, ![r].pc = "tool", ![r].ok = good]
    BY <1>a, <2>2 DEF TypeInv, Requests
  <2> QED
    BY <1>2, <2>1, <2>2 DEF Advance, good
<1>3. ASSUME NextCall(r)
      PROVE  req'[r].pc # "hub" /\ \A p \in Reqs : p # r => req'[p] = req[p]
  <2>1. CASE req' = [req EXCEPT ![r].step = @ + 1, ![r].pc = "tool"]
    BY <1>a, <2>1 DEF TypeInv, Requests
  <2> QED
    BY <1>2, <1>3, <2>1 DEF NextCall
<1> QED
  BY <1>1, <1>2, <1>3

\* The two keys are one: only replies and cards have one.
LEMMA KeysAreKeys == \A n \in Tasks : Info(n).key => Key(n)
BY ToolAssumption DEF Key

\* A request that the hub is sent.
LEMMA SendOnce ==
  ASSUME TypeInv, ToolInv, OnceInv, NEW r \in Reqs, Send(r)
  PROVE  OnceInv'
<1>a. req[r] \in Requests /\ Placed(req[r]) /\ req[r].pc = "tool"
  BY DEF TypeInv, Send, Asks, At
<1>b. PICK n \in Tasks : n = Task(req[r])
  BY <1>a, AtTask
<1>c. UNCHANGED <<post, keyRow>> /\ post \in [Tasks -> Nat]
  BY DEF Send, hubSide, TypeInv, TypeOK
<1>1. CASE NextCall(r) /\ UNCHANGED crossed
  <2>1. req'[r].pc # "hub" /\ \A p \in Reqs : p # r => req'[p] = req[p]
    BY <1>a, <1>1, LeavesHub
  <2> QED
    BY <1>1, <1>c, <2>1, NobodyGoes
<1>2. CASE /\ ~(Key(n) /\ n \in keyRow) /\ Goes(r, "hub")
           /\ crossed' = IF AtHub(n) = {} THEN crossed ELSE crossed \cup {n}
  <2>1. req'[r] = [req[r] EXCEPT !.pc = "hub"] /\ \A p \in Reqs : p # r => req'[p] = req[p]
    BY <1>a, <1>2, Gone DEF Alone, Places, TypeInv
  <2>2. Task(req'[r]) = n
    BY <1>a, <1>b, <2>1 DEF Task, Requests
  <2>3. SUFFICES ASSUME NEW m \in Tasks, Info(m).key, m \notin crossed'
                 PROVE  /\ \A p, q \in AtHub(m)' : p = q
                        /\ AtHub(m)' # {} => post'[m] = 0
                        /\ post'[m] <= 1
                        /\ post'[m] >= 1 => m \in keyRow'
    BY DEF OnceInv, Info
  <2>4. m \notin crossed
    BY <1>2, <2>3
  <2>5. /\ \A p, q \in AtHub(m) : p = q
        /\ AtHub(m) # {} => post[m] = 0
        /\ post[m] <= 1
        /\ post[m] >= 1 => m \in keyRow
    BY <2>3, <2>4 DEF OnceInv
  <2>6. CASE m = n
    <3>1. AtHub(m) = {} /\ m \notin keyRow
      BY <1>2, <2>3, <2>6, KeysAreKeys
    <3>2. AtHub(m)' \subseteq {r}
      BY <2>1, <3>1 DEF AtHub, Task
    <3>3. post[m] = 0
      BY <1>c, <2>5, <3>1
    <3> QED
      BY <1>c, <2>5, <3>2, <3>3
  <2>7. CASE m # n
    <3>1. AtHub(m)' \subseteq AtHub(m)
      BY <2>1, <2>2, <2>7 DEF AtHub, Task
    <3> QED
      BY <1>c, <2>5, <3>1
  <2> QED
    BY <2>6, <2>7
<1> QED
  BY <1>1, <1>2, <1>b DEF Send

\* What the hub commits.
LEMMA CommitOnce ==
  ASSUME TypeInv, ToolInv, OnceInv, NEW r \in Reqs, HubCommits(r)
  PROVE  OnceInv'
<1>a. req[r] \in Requests /\ Placed(req[r]) /\ req[r].pc = "hub" /\ At(r, "hub")
  BY DEF TypeInv, HubCommits, At
<1>b. PICK n \in Tasks : n = Task(req[r]) /\ (Key(n) => Call(req[r]) # "putAgentHandshake")
  BY <1>a, AtCommit
<1>c. IF Call(req[r]) = "putAgentHandshake" THEN post' = post ELSE post' = [post EXCEPT ![n] = @ + 1]
  BY <1>b DEF HubCommits
<1>d. keyRow' = (IF Key(n) THEN keyRow \cup {n} ELSE keyRow) /\ UNCHANGED crossed
  BY <1>b DEF HubCommits
<1>e. post \in [Tasks -> Nat]
  BY DEF TypeInv, TypeOK
<1>f. req'[r].pc # "hub" /\ \A p \in Reqs : p # r => req'[p] = req[p]
  BY <1>a, LeavesHub DEF HubCommits, Orphaned
<1>1. SUFFICES ASSUME NEW m \in Tasks, Info(m).key, m \notin crossed'
               PROVE  /\ \A p, q \in AtHub(m)' : p = q
                      /\ AtHub(m)' # {} => post'[m] = 0
                      /\ post'[m] <= 1
                      /\ post'[m] >= 1 => m \in keyRow'
  BY DEF OnceInv, Info
<1>2. /\ \A p, q \in AtHub(m) : p = q
      /\ AtHub(m) # {} => post[m] = 0
      /\ post[m] <= 1
      /\ post[m] >= 1 => m \in keyRow
  BY <1>1, <1>d DEF OnceInv
<1>3. AtHub(m)' \subseteq AtHub(m) \ {r}
  BY <1>f DEF AtHub, Task
<1>4. CASE m = n
  <2>1. r \in AtHub(m)
    BY <1>a, <1>b, <1>4 DEF AtHub
  <2>2. AtHub(m)' = {}
    BY <1>2, <1>3, <2>1
  <2>3. post'[m] = 1 /\ m \in keyRow'
    BY <1>1, <1>2, <1>4, <1>b, <1>c, <1>d, <1>e, <2>1, KeysAreKeys
  <2> QED
    BY <2>2, <2>3
<1>5. CASE m # n
  <2>1. post'[m] = post[m] /\ keyRow \subseteq keyRow'
    BY <1>5, <1>c, <1>d, <1>e
  <2> QED
    BY <1>2, <1>3, <2>1
<1> QED
  BY <1>4, <1>5

\* Every step keeps it.
LEMMA StepOnce ==
  ASSUME TypeInv, ToolInv, OnceInv, [Next]_vars
  PROVE  OnceInv'
<1>1. ASSUME NEW r \in Reqs, AtTools(r)
      PROVE  OnceInv'
  <2>0. ToolStep(r) /\ req[r].pc \in {"tool", "hub"}
    BY <1>1, ToolsMove DEF AtTools, ToolMove
  <2>1. CASE Send(r)
    BY <2>1, SendOnce
  <2>2. CASE HubCommits(r)
    BY <2>2, CommitOnce
  <2>3. CASE Direct(r) \/ Read(r) \/ Unprepared(r) \/ HubRefuses(r)
    <3>1. UNCHANGED <<post, keyRow, crossed>>
      BY <2>3 DEF Direct, Read, Unprepared, HubRefuses, hubSide
    <3>2. Advance(r, TRUE) \/ Advance(r, FALSE) \/ NextCall(r) \/ Answer(r)
      BY <2>3 DEF Direct, Read, Unprepared, HubRefuses, Orphaned, Fails
    <3>3. req'[r].pc # "hub" /\ \A p \in Reqs : p # r => req'[p] = req[p]
      BY <2>0, <3>2, LeavesHub
    <3> QED
      BY <3>1, <3>3, NobodyGoes
  <2> QED
    BY <2>0, <2>1, <2>2, <2>3 DEF ToolStep
<1>2. ASSUME UNCHANGED toolVars
      PROVE  UNCHANGED <<post, keyRow>> /\ crossed \subseteq crossed'
  BY <1>2 DEF toolVars, hubSide
<1>3. ASSUME NEW r \in Reqs, Arrives(r) \/ AtSession(r)
      PROVE  OnceInv'
  <2>1. Alone(r) /\ req'[r].pc # "hub" /\ UNCHANGED toolVars
    BY <1>3, SessionsMove DEF Arrives, Arrival, AtSession, SessionMove
  <2> QED
    BY <1>2, <2>1, NobodyGoes DEF Alone
<1>4. ASSUME Around
      PROVE  OnceInv'
  <2>1. \A p \in Reqs : Outlasts(p)
    <3>1. CASE UNCHANGED req
      BY <3>1 DEF Outlasts
    <3>2. CASE \E i \in Isolates : Recycle(i)
      BY <3>2, RecycleLeaves
    <3> QED
      BY <1>4, <3>1, <3>2 DEF Around, World, ClientLeaves, RuntimeCancels, Age, KvExpires
  <2>2. \A p \in Reqs : req'[p].pc = "hub" => req[p].pc = "hub" /\ Task(req'[p]) = Task(req[p])
    <3> SUFFICES ASSUME NEW p \in Reqs, req'[p].pc = "hub"
                 PROVE  req[p].pc = "hub" /\ Task(req'[p]) = Task(req[p])
      OBVIOUS
    <3>1. PICK q \in Requests : q = req[p]
      BY DEF TypeInv
    <3>2. CASE req'[p] = [q EXCEPT !.iso = Absent] /\ q.pc = "hub"
      BY <3>1, <3>2 DEF Requests, Task
    <3>3. req'[p] # Idle
      BY DEF Idle
    <3> QED
      BY <2>1, <3>1, <3>2, <3>3 DEF Outlasts
  <2> QED
    BY <1>2, <1>4, <2>2, NobodyGoes DEF Around
<1>5. ASSUME HubAlone \/ TokenVoid \/ UNCHANGED vars
      PROVE  OnceInv'
  <2>1. UNCHANGED <<req, post, keyRow, crossed>>
    BY <1>5 DEF HubAlone, HubChanges, TokenVoid, vars, toolVars, hubSide
  <2> QED
    BY <2>1, NobodyGoes
<1> QED
  BY <1>1, <1>3, <1>4, <1>5, StepKinds

LEMMA InitOnceInv == Init => OnceInv
<1> SUFFICES ASSUME Init
             PROVE  OnceInv
  OBVIOUS
<1>1. req = [r \in Reqs |-> Idle] /\ post = [n \in Tasks |-> 0]
  BY DEF Init, InitSessions, InitTools
<1> QED
  BY <1>1 DEF OnceInv, AtHub, Idle

\* A host may send again what a recycled isolate left without an answer: with a key it
\* is done once, unless two tries are at the hub at the same time; and what it is told
\* only reads changes nothing, however often it is sent.
THEOREM SafeToRetry == Spec => []RetriesAreSafe
<1>1. /\ TypeInv /\ SessionInv /\ StreamInv /\ ToolInv /\ OnceInv /\ [Next]_vars
      => (TypeInv /\ SessionInv /\ StreamInv /\ ToolInv /\ OnceInv)'
  BY StepSessions, StepTools, StepOnce
<1>2. ToolInv /\ OnceInv => RetriesAreSafe
  BY DEF ToolInv, OnceInv, RetriesAreSafe
<1> QED
  BY <1>1, <1>2, InitSessionInv, InitToolInv, InitOnceInv, PTL DEF Spec

=============================================================================
