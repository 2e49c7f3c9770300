------------------------ MODULE ThreadConsentProofs ------------------------
(***************************************************************************)
(* Every row and every request of ThreadHub is well typed, and nobody's    *)
(* end-to-end encryption ends without consent, for any directory, clients  *)
(* and number of requests in flight, whatever requests overlap.            *)
(*                                                                         *)
(* TypeOK alone is not inductive: a handler relies on what it read at an   *)
(* earlier step.  TypeInv adds, for each place of a handler, which of its  *)
(* fields are set (Placed), and that proposals are never deleted (Known).  *)
(*                                                                         *)
(* ConsentBehindDowngrade speaks of thread rows only; commits build these  *)
(* from rows and proposals read long before.  ConsentInv therefore says    *)
(* the same of every copy that a request in flight still holds, and of the *)
(* approvals in stored and held proposals.                                 *)
(***************************************************************************)
EXTENDS ThreadHub, TLAPS

-----------------------------------------------------------------------------
(* Types *)

Consent == {"propose", "approve", "deny"}

\* What the place of a request tells about its fields.
Placed(q) ==
  /\ q.pc # "idle" => q.user \in Users
  /\ q.pc \notin {"idle", "commit"} => q.tid \in Ids
  /\ q.op # "create" /\ q.pc = "commit" => q.tid \in Ids
  /\ q.op = "create" => q.agent \in Agents /\ q.to \in Agents \cup Broadcasts
  /\ q.op \in {"reply", "propose"} => q.agent \in Agents
  /\ q.op = "reply" /\ q.pc \in {"thread", "peers", "commit"} => q.own \in Roles
  /\ q.op = "reply" /\ q.pc \in {"peers", "commit"} => q.snap \in ThreadRow
  /\ q.op = "close" /\ q.pc = "commit" => q.snap \in ThreadRow
  /\ q.pc \in {"check", "persist", "proposal", "save", "ownerInbox", "finalize"}
       => q.op \in Consent /\ q.snap \in ThreadRow
  /\ q.pc \in {"persist", "save", "ownerInbox", "finalize"} => q.prop \in ProposalRow
  /\ q.op \in {"approve", "deny"} \/ q.pc \in {"save", "ownerInbox", "finalize"} => q.pid \in Ids
  /\ q.pc = "finalize" => q.owner \in InboxRow

\* Proposals are never deleted.
Known(q) == q.op \in {"approve", "deny"} => proposals[q.pid] \in ProposalRow

TypeInv == TypeOK /\ \A r \in Reqs : Placed(req[r]) /\ Known(req[r])

\* Setting a field of a request to a value of its type.
LEMMA FieldType ==
  ASSUME NEW q \in Request
  PROVE  /\ \A v \in Endpoints : [q EXCEPT !.op = v] \in Request
         /\ \A v \in Places : [q EXCEPT !.pc = v] \in Request
         /\ \A v \in Users : [q EXCEPT !.user = v] \in Request
         /\ \A v \in Ids : [q EXCEPT !.tid = v] \in Request
         /\ \A v \in Agents : [q EXCEPT !.agent = v] \in Request
         /\ \A v \in Agents \cup Broadcasts \cup {Absent} : [q EXCEPT !.to = v] \in Request
         /\ \A v \in Keys \cup {Absent} : [q EXCEPT !.key = v] \in Request
         /\ \A v \in BOOLEAN : [q EXCEPT !.late = v] \in Request
         /\ \A v \in Roles \cup {Absent} : [q EXCEPT !.own = v] \in Request
         /\ \A v \in InboxRow : [q EXCEPT !.owner = v] \in Request
         /\ \A v \in ThreadRow \cup {Absent} : [q EXCEPT !.snap = v] \in Request
         /\ \A v \in [Users -> Roles \cup {Absent}] : [q EXCEPT !.peers = v] \in Request
         /\ \A v \in Ids : [q EXCEPT !.pid = v] \in Request
         /\ \A v \in ProposalRow : [q EXCEPT !.prop = v] \in Request
         /\ \A v \in SUBSET Ids : [q EXCEPT !.listed = v] \in Request
         /\ \A v \in SUBSET Ids : [q EXCEPT !.records = v] \in Request
<1>1. ASSUME NEW v \in Endpoints PROVE [q EXCEPT !.op = v] \in Request
  BY SMTT(30) DEF Request
<1>2. ASSUME NEW v \in Places PROVE [q EXCEPT !.pc = v] \in Request
  BY SMTT(30) DEF Request
<1>3. ASSUME NEW v \in Users PROVE [q EXCEPT !.user = v] \in Request
  BY SMTT(30) DEF Request
<1>4. ASSUME NEW v \in Ids PROVE [q EXCEPT !.tid = v] \in Request
  BY SMTT(30) DEF Request
<1>5. ASSUME NEW v \in Agents PROVE [q EXCEPT !.agent = v] \in Request
  BY SMTT(30) DEF Request
<1>6. ASSUME NEW v \in Agents \cup Broadcasts \cup {Absent} PROVE [q EXCEPT !.to = v] \in Request
  BY SMTT(30) DEF Request
<1>7. ASSUME NEW v \in Keys \cup {Absent} PROVE [q EXCEPT !.key = v] \in Request
  BY SMTT(30) DEF Request
<1>8. ASSUME NEW v \in BOOLEAN PROVE [q EXCEPT !.late = v] \in Request
  BY SMTT(30) DEF Request
<1>9. ASSUME NEW v \in Roles \cup {Absent} PROVE [q EXCEPT !.own = v] \in Request
  BY SMTT(30) DEF Request
<1>10. ASSUME NEW v \in InboxRow PROVE [q EXCEPT !.owner = v] \in Request
  BY SMTT(30) DEF Request
<1>11. ASSUME NEW v \in ThreadRow \cup {Absent} PROVE [q EXCEPT !.snap = v] \in Request
  BY SMTT(30) DEF Request
<1>12. ASSUME NEW v \in [Users -> Roles \cup {Absent}] PROVE [q EXCEPT !.peers = v] \in Request
  BY SMTT(30) DEF Request
<1>13. ASSUME NEW v \in Ids PROVE [q EXCEPT !.pid = v] \in Request
  BY SMTT(30) DEF Request
<1>14. ASSUME NEW v \in ProposalRow PROVE [q EXCEPT !.prop = v] \in Request
  BY SMTT(30) DEF Request
<1>15. ASSUME NEW v \in SUBSET Ids PROVE [q EXCEPT !.listed = v] \in Request
  BY SMTT(30) DEF Request
<1>16. ASSUME NEW v \in SUBSET Ids PROVE [q EXCEPT !.records = v] \in Request
  BY SMTT(30) DEF Request
<1> QED
  BY <1>1, <1>2, <1>3, <1>4, <1>5, <1>6, <1>7, <1>8, <1>9, <1>10, <1>11, <1>12, <1>13, <1>14, <1>15, <1>16

\* An idle request is well formed.
LEMMA IdleRequest == Idle \in Request
BY DEF Idle, Request, Places

(***************************************************************************)
(* The empty record of a request is placed: it stands at no step of a      *)
(* handler.                                                                *)
(***************************************************************************)
LEMMA IdlePlace == Placed(Idle) /\ Idle.op = "none" /\ Idle.pc = "idle" /\ Idle.snap = Absent
BY DEF Idle, Placed

\* A step that only moves one request on keeps the types of all requests.
LEMMA RequestsType ==
  ASSUME TypeInv, NEW r \in Reqs, NEW q \in Request, Placed(q), Becomes(r, q),
         \A p \in Ids : proposals[p] \in ProposalRow => proposals'[p] \in ProposalRow,
         q.op \in {"approve", "deny"} => proposals'[q.pid] \in ProposalRow
  PROVE  /\ req' \in [Reqs -> Request]
         /\ \A s \in Reqs : Placed(req'[s]) /\ Known(req[s])'
<1>1. req \in [Reqs -> Request]
  BY DEF TypeInv, TypeOK
<1>2. req' = [req EXCEPT ![r] = q]
  BY DEF Becomes
<1>3. req' \in [Reqs -> Request]
  BY <1>1, <1>2
<1>4. ASSUME NEW s \in Reqs PROVE Placed(req'[s]) /\ Known(req[s])'
  <2>1. CASE s = r
    BY <1>1, <1>2, <2>1 DEF Known
  <2>2. CASE s # r
    <3>1. req'[s] = req[s] /\ Placed(req[s]) /\ Known(req[s])
      BY <1>1, <1>2, <2>2 DEF TypeInv
    <3>2. req[s].op \in {"approve", "deny"} => req[s].pid \in Ids
      BY <3>1 DEF Placed
    <3> QED
      BY <3>1, <3>2 DEF Known
  <2> QED
    BY <2>1, <2>2
<1> QED
  BY <1>3, <1>4

\* A step that changes no row.
LEMMA MoveType ==
  ASSUME TypeInv, NEW r \in Reqs, NEW q \in Request, Placed(q), Becomes(r, q),
         UNCHANGED rows, UNCHANGED <<overwritten, answered, denied>>,
         consented' \subseteq [user: Users, id: Ids, thread: Ids],
         q.op \in {"approve", "deny"} => proposals[q.pid] \in ProposalRow
  PROVE  TypeInv'
<1>1. req' \in [Reqs -> Request] /\ \A s \in Reqs : Placed(req'[s]) /\ Known(req[s])'
  BY RequestsType DEF rows
<1> QED
  BY <1>1 DEF TypeInv, TypeOK, rows

\* Answering leaves an idle request.
LEMMA AnswerType ==
  ASSUME TypeInv, NEW r \in Reqs, Answer(r), UNCHANGED <<rows, history>> PROVE TypeInv'
<1>1. consented' \subseteq [user: Users, id: Ids, thread: Ids]
  BY DEF TypeInv, TypeOK, history
<1> QED
  BY <1>1, IdleRequest, IdlePlace, MoveType DEF Answer, history

\* Agents belong to users.
LEMMA OwnerType == \A a \in Agents : Owner(a) \in Users
BY DirectoryAssumption DEF Owner

\* What a client may send is addressed by an agent to an agent or a broadcast.
LEMMA SendType == \A s \in Sends : s[1] \in Agents /\ s[2] \in Agents \cup Broadcasts
BY DirectoryAssumption

\* Requests that start: what the client chose is of the right type.
LEMMA MailStartType ==
  ASSUME TypeInv, NEW r \in Reqs,
         CreateStart(r) \/ ReplyStart(r) \/ CloseStart(r) \/ DeleteStart(r)
  PROVE  TypeInv'
<1>0. consented \subseteq [user: Users, id: Ids, thread: Ids]
  BY DEF TypeInv, TypeOK
<1>1. CASE CreateStart(r)
  <2>1. PICK s, key, q :
          /\ s \in Sends /\ key \in CreateKeys \cup {Absent}
          /\ q = [Idle EXCEPT !.op = "create", !.pc = "commit", !.user = Owner(s[1]),
                              !.agent = s[1], !.to = s[2], !.key = key]
          /\ Becomes(r, q) /\ UNCHANGED <<rows, history>>
    BY <1>1 DEF CreateStart
  <2>2. PICK a, to, u : a = s[1] /\ to = s[2] /\ u = Owner(a)
    OBVIOUS
  <2>3. a \in Agents /\ to \in Agents \cup Broadcasts /\ u \in Users
    BY <2>1, <2>2, OwnerType, SendType
  <2>4. key \in Keys \cup {Absent}
    BY <2>1 DEF Keys
  <2>5. q = [Idle EXCEPT !.op = "create", !.pc = "commit", !.user = u, !.agent = a,
                         !.to = to, !.key = key]
    BY <2>1, <2>2
  <2>6. q \in Request
    BY <2>3, <2>4, <2>5, IdleRequest, FieldType DEF Places, Endpoints
  <2>7. Placed(q) /\ q.op = "create"
    BY <2>3, <2>5, IdleRequest, IdlePlace DEF Request, Placed
  <2> QED
    BY <2>1, <2>6, <2>7, <1>0, MoveType DEF history
<1>2. CASE ReplyStart(r)
  <2>1. PICK a, t, key, u, late, q :
          /\ a \in Agents /\ t \in Ids /\ key \in ReplyKeys \cup {Absent}
          /\ u = Owner(a) /\ late \in BOOLEAN
          /\ q = [Idle EXCEPT !.op = "reply", !.pc = "inbox", !.user = u, !.tid = t,
                              !.agent = a, !.key = key, !.late = late]
          /\ Becomes(r, q) /\ UNCHANGED <<rows, history>>
    BY <1>2 DEF ReplyStart
  <2>2. q = [Idle EXCEPT !.op = "reply", !.pc = "inbox", !.user = u, !.tid = t,
                         !.agent = a, !.key = key, !.late = late]
    BY <2>1
  <2>3. /\ a \in Agents /\ t \in Ids /\ key \in Keys \cup {Absent}
        /\ u \in Users /\ late \in BOOLEAN
    BY <2>1, OwnerType DEF Keys
  <2>4. q \in Request
    BY <2>2, <2>3, IdleRequest, FieldType DEF Places, Endpoints
  <2>5. Placed(q) /\ q.op = "reply"
    BY <2>2, <2>3, IdleRequest, IdlePlace DEF Request, Placed
  <2> QED
    BY <2>1, <2>4, <2>5, <1>0, MoveType DEF history
<1>3. CASE CloseStart(r) \/ DeleteStart(r)
  <2>1. PICK u, t, op, q :
          /\ u \in Users /\ t \in Ids /\ op \in {"close", "delete"}
          /\ q = [Idle EXCEPT !.op = op, !.pc = "thread", !.user = u, !.tid = t]
          /\ Becomes(r, q) /\ UNCHANGED <<rows, history>>
    BY <1>3 DEF CloseStart, DeleteStart
  <2>2. q = [Idle EXCEPT !.op = op, !.pc = "thread", !.user = u, !.tid = t]
    BY <2>1
  <2>3. u \in Users /\ t \in Ids /\ op \in {"close", "delete"}
    BY <2>1
  <2>4. q \in Request
    BY <2>2, <2>3, IdleRequest, FieldType DEF Places, Endpoints
  <2>5. Placed(q) /\ q.op = op
    BY <2>2, <2>3, IdleRequest, IdlePlace DEF Request, Placed
  <2> QED
    BY <2>1, <2>3, <2>4, <2>5, <1>0, MoveType DEF history
<1> QED
  BY <1>1, <1>2, <1>3

\* The same for the consent endpoints.
LEMMA ConsentStartType ==
  ASSUME TypeInv, NEW r \in Reqs,
         \/ ProposeStart(r)
         \/ \E u \in Users, p \in Ids : ApproveStart(r, u, p) \/ DenyStart(r, u, p)
  PROVE  TypeInv'
<1>0. consented \subseteq [user: Users, id: Ids, thread: Ids]
  BY DEF TypeInv, TypeOK
<1>1. CASE ProposeStart(r)
  <2>1. PICK u, t, w, q :
          /\ u \in Users /\ t \in Ids /\ w \in Agents
          /\ q = [Idle EXCEPT !.op = "propose", !.pc = "thread", !.user = u, !.tid = t, !.agent = w]
          /\ Becomes(r, q) /\ UNCHANGED <<rows, history>>
    BY <1>1 DEF ProposeStart
  <2>2. q = [Idle EXCEPT !.op = "propose", !.pc = "thread", !.user = u, !.tid = t, !.agent = w]
    BY <2>1
  <2>3. u \in Users /\ t \in Ids /\ w \in Agents
    BY <2>1
  <2>4. q \in Request
    BY <2>2, <2>3, IdleRequest, FieldType DEF Places, Endpoints
  <2>5. Placed(q) /\ q.op = "propose"
    BY <2>2, <2>3, IdleRequest, IdlePlace DEF Request, Placed
  <2> QED
    BY <2>1, <2>4, <2>5, <1>0, MoveType DEF history
<1>2. ASSUME NEW u \in Users, NEW p \in Ids, ApproveStart(r, u, p) \/ DenyStart(r, u, p)
      PROVE  TypeInv'
  <2>1. PICK t, op, q :
          /\ t = proposals[p].thread /\ op \in {"approve", "deny"}
          /\ q = [Idle EXCEPT !.op = op, !.pc = "thread", !.user = u, !.tid = t, !.pid = p]
          /\ Becomes(r, q) /\ UNCHANGED <<rows, overwritten, answered, denied>>
    BY <1>2 DEF ApproveStart, DenyStart, history
  <2>2. proposals[p] \in ProposalRow
    BY <1>2 DEF ApproveStart, DenyStart, TypeInv, TypeOK
  <2>3. t \in Ids /\ op \in {"approve", "deny"}
    BY <2>1, <2>2 DEF ProposalRow
  <2>4. q = [Idle EXCEPT !.op = op, !.pc = "thread", !.user = u, !.tid = t, !.pid = p]
    BY <2>1
  <2>5. q \in Request
    BY <2>3, <2>4, IdleRequest, FieldType DEF Places, Endpoints
  <2>6. Placed(q) /\ q.pid = p
    BY <2>3, <2>4, IdleRequest, IdlePlace DEF Request, Placed
  <2>7. consented' \subseteq [user: Users, id: Ids, thread: Ids]
    <3>1. consented' \subseteq consented \cup {[user |-> u, id |-> p, thread |-> t]}
      BY <1>2, <2>1 DEF ApproveStart, DenyStart, history
    <3> QED
      BY <1>0, <2>3, <3>1
  <2> QED
    BY <2>1, <2>2, <2>5, <2>6, <2>7, MoveType
<1> QED
  BY <1>1, <1>2

\* A step that reads, and keeps what was asked.
LEMMA ReadType ==
  ASSUME TypeInv, NEW r \in Reqs, NEW q \in Request, Placed(q), Becomes(r, q),
         q.op = req[r].op, q.pid = req[r].pid, UNCHANGED <<rows, history>>
  PROVE  TypeInv'
<1>1. consented' \subseteq [user: Users, id: Ids, thread: Ids]
  BY DEF TypeInv, TypeOK, history
<1>2. Known(req[r])
  BY DEF TypeInv
<1> QED
  BY <1>1, <1>2, MoveType DEF Known, history

\* A row of an inbox is absent or a well-typed entry.
LEMMA InboxType ==
  ASSUME TypeInv, NEW u \in Users, NEW t \in Ids
  PROVE  inbox[u][t] \in InboxRow \cup {Absent}
BY DEF TypeInv, TypeOK

\* The role kept in an inbox entry is one of the two roles.
LEMMA RoleType ==
  ASSUME TypeInv, NEW u \in Users, NEW t \in Ids
  PROVE  Role(u, t) \in Roles \cup {Absent} /\ (inbox[u][t] # Absent => Role(u, t) \in Roles)
BY InboxType DEF Role, InboxRow, Roles

\* The thread row of an id is absent or well typed.
LEMMA ThreadType ==
  ASSUME TypeInv, NEW t \in Ids PROVE thread[t] \in ThreadRow \cup {Absent}
BY DEF TypeInv, TypeOK

\* A request in flight is well typed and stands where its handler can be.
LEMMA ReqType ==
  ASSUME TypeInv, NEW r \in Reqs PROVE req[r] \in Request /\ Placed(req[r])
BY DEF TypeInv, TypeOK

\* The reads of postReply.
LEMMA ReplyReadType ==
  ASSUME TypeInv, NEW r \in Reqs, ReplyInbox(r) \/ ReplyThread(r) \/ ReplyPeers(r)
  PROVE  TypeInv'
<1>1. PICK p : p = req[r]
  OBVIOUS
<1>2. p \in Request /\ Placed(p)
  BY <1>1, ReqType
<1>3. CASE Answer(r)
  BY <1>3, AnswerType DEF ReplyInbox, ReplyThread, ReplyPeers
<1>4. CASE ReplyInbox(r) /\ ~Answer(r)
  <2>1. p.op = "reply" /\ p.pc = "inbox"
    BY <1>1, <1>4 DEF ReplyInbox, At
  <2>2. PICK role, q :
          /\ role = Role(p.user, p.tid) /\ inbox[p.user][p.tid] # Absent
          /\ q = [p EXCEPT !.pc = "thread", !.own = role]
          /\ Becomes(r, q) /\ UNCHANGED <<rows, history>>
    BY <1>1, <1>4 DEF ReplyInbox
  <2>3. q = [p EXCEPT !.pc = "thread", !.own = role]
    BY <2>2
  <2>4. p.user \in Users /\ p.tid \in Ids
    BY <1>2, <2>1 DEF Placed
  <2>5. role \in Roles
    BY <2>2, <2>4, RoleType
  <2>6. q \in Request
    BY <1>2, <2>3, <2>5, FieldType DEF Places
  <2>7. Placed(q) /\ q.op = p.op /\ q.pid = p.pid
    BY <1>2, <2>1, <2>3, <2>5 DEF Request, Placed
  <2> QED
    BY <1>1, <2>2, <2>6, <2>7, ReadType
<1>5. CASE ReplyThread(r) /\ ~Answer(r)
  <2>1. p.op = "reply" /\ p.pc = "thread"
    BY <1>1, <1>5 DEF ReplyThread, At
  <2>0. PICK wire, to :
          /\ to \in Handoffs \cup {Absent} /\ ReplyAllowed(p, thread[p.tid], wire, to)
          /\ Becomes(r, [p EXCEPT !.pc = "peers", !.snap = thread[p.tid], !.to = to])
          /\ UNCHANGED <<rows, history>>
    BY <1>1, <1>5 DEF ReplyThread
  <2>2. PICK row, q :
          /\ to \in Handoffs \cup {Absent} /\ row = thread[p.tid] /\ row # Absent
          /\ q = [p EXCEPT !.pc = "peers", !.snap = row, !.to = to]
          /\ Becomes(r, q) /\ UNCHANGED <<rows, history>>
    BY <2>0 DEF ReplyAllowed
  <2>3. q = [p EXCEPT !.pc = "peers", !.snap = row, !.to = to]
    BY <2>2
  <2>4. p.tid \in Ids /\ to \in Agents \cup Broadcasts \cup {Absent}
    BY <1>2, <2>1, <2>2, DirectoryAssumption DEF Placed
  <2>5. row \in ThreadRow
    BY <2>2, <2>4, ThreadType
  <2>6. q \in Request
    BY <1>2, <2>3, <2>4, <2>5, FieldType DEF Places
  <2>7. Placed(q) /\ q.op = p.op /\ q.pid = p.pid
    BY <1>2, <2>1, <2>3, <2>5 DEF Request, Placed
  <2> QED
    BY <1>1, <2>2, <2>6, <2>7, ReadType
<1>6. CASE ReplyPeers(r)
  <2>1. p.op = "reply" /\ p.pc = "peers"
    BY <1>1, <1>6 DEF ReplyPeers, At
  <2>2. PICK peers, q :
          /\ peers = [v \in Users |->
                       IF v \in PeerCandidates(p.snap) THEN Role(v, p.tid) ELSE Absent]
          /\ q = [p EXCEPT !.pc = "commit", !.peers = peers]
          /\ Becomes(r, q) /\ UNCHANGED <<rows, history>>
    BY <1>1, <1>6 DEF ReplyPeers
  <2>3. q = [p EXCEPT !.pc = "commit", !.peers = peers]
    BY <2>2
  <2>4. p.tid \in Ids
    BY <1>2, <2>1 DEF Placed
  <2>5. peers \in [Users -> Roles \cup {Absent}]
    BY <2>2, <2>4, RoleType
  <2>6. q \in Request
    BY <1>2, <2>3, <2>5, FieldType DEF Places
  <2>7. Placed(q) /\ q.op = p.op /\ q.pid = p.pid
    BY <1>2, <2>1, <2>3 DEF Request, Placed
  <2> QED
    BY <1>1, <2>2, <2>6, <2>7, ReadType
<1> QED
  BY <1>3, <1>4, <1>5, <1>6

\* The reads of closeThread and deleteThread.
LEMMA CloseReadType ==
  ASSUME TypeInv, NEW r \in Reqs,
         CloseThread(r) \/ DeleteThread(r) \/ DeleteListMessages(r) \/ DeleteListPayloads(r)
  PROVE  TypeInv'
<1>1. PICK p : p = req[r]
  OBVIOUS
<1>2. p \in Request /\ Placed(p)
  BY <1>1, ReqType
<1>3. CASE Answer(r)
  BY <1>3, AnswerType DEF CloseThread, DeleteThread, DeleteListMessages, DeleteListPayloads
<1>4. CASE CloseThread(r) /\ ~Answer(r)
  <2>1. p.op = "close" /\ p.pc = "thread"
    BY <1>1, <1>4 DEF CloseThread, At
  <2>2. PICK row, q :
          /\ row = thread[p.tid] /\ row # Absent
          /\ q = [p EXCEPT !.pc = "commit", !.snap = row]
          /\ Becomes(r, q) /\ UNCHANGED <<rows, history>>
    BY <1>1, <1>4 DEF CloseThread
  <2>3. q = [p EXCEPT !.pc = "commit", !.snap = row]
    BY <2>2
  <2>4. p.tid \in Ids
    BY <1>2, <2>1 DEF Placed
  <2>5. row \in ThreadRow
    BY <2>2, <2>4, ThreadType
  <2>6. q \in Request
    BY <1>2, <2>3, <2>5, FieldType DEF Places
  <2>7. Placed(q) /\ q.op = p.op /\ q.pid = p.pid
    BY <1>2, <2>1, <2>3, <2>5 DEF Request, Placed
  <2> QED
    BY <1>1, <2>2, <2>6, <2>7, ReadType
<1>5. CASE DeleteThread(r) /\ ~Answer(r)
  <2>1. p.op = "delete" /\ p.pc = "thread"
    BY <1>1, <1>5 DEF DeleteThread, At
  <2>2. PICK pc, row, q :
          /\ pc \in {"drop", "listMessages"} /\ row = thread[p.tid]
          /\ q = [p EXCEPT !.pc = pc, !.snap = row]
          /\ Becomes(r, q) /\ UNCHANGED <<rows, history>>
    BY <1>1, <1>5 DEF DeleteThread
  <2>3. q = [p EXCEPT !.pc = pc, !.snap = row] /\ pc \in {"drop", "listMessages"}
    BY <2>2
  <2>4. p.tid \in Ids
    BY <1>2, <2>1 DEF Placed
  <2>5. row \in ThreadRow \cup {Absent}
    BY <2>2, <2>4, ThreadType
  <2>6. q \in Request
    BY <1>2, <2>3, <2>5, FieldType DEF Places
  <2>7. Placed(q) /\ q.op = p.op /\ q.pid = p.pid
    BY <1>2, <2>1, <2>3, <2>5 DEF Request, Placed
  <2> QED
    BY <1>1, <2>2, <2>6, <2>7, ReadType
<1>6. CASE DeleteListMessages(r)
  <2>1. p.op = "delete" /\ p.pc = "listMessages"
    BY <1>1, <1>6 DEF DeleteListMessages, At
  <2>2. PICK listed, q :
          /\ listed = {m.id : m \in {n \in messages : n.thread = p.tid}}
          /\ q = [p EXCEPT !.pc = "listPayloads", !.listed = listed]
          /\ Becomes(r, q) /\ UNCHANGED <<rows, history>>
    BY <1>1, <1>6 DEF DeleteListMessages
  <2>3. q = [p EXCEPT !.pc = "listPayloads", !.listed = listed]
    BY <2>2
  <2>4. listed \in SUBSET Ids
    BY <2>2 DEF TypeInv, TypeOK, MessageRow
  <2>5. q \in Request
    BY <1>2, <2>3, <2>4, FieldType DEF Places
  <2>6. Placed(q) /\ q.op = p.op /\ q.pid = p.pid
    BY <1>2, <2>1, <2>3 DEF Request, Placed
  <2> QED
    BY <1>1, <2>2, <2>5, <2>6, ReadType
<1>7. CASE DeleteListPayloads(r)
  <2>1. p.op = "delete" /\ p.pc = "listPayloads"
    BY <1>1, <1>7 DEF DeleteListPayloads, At
  <2>2. PICK records, q :
          /\ records = {i \in Ids : <<p.tid, i>> \in payloads}
          /\ q = [p EXCEPT !.pc = "dropInboxes", !.records = records]
          /\ Becomes(r, q) /\ UNCHANGED <<rows, history>>
    BY <1>1, <1>7 DEF DeleteListPayloads
  <2>3. q = [p EXCEPT !.pc = "dropInboxes", !.records = records]
    BY <2>2
  <2>4. records \in SUBSET Ids
    BY <2>2
  <2>5. q \in Request
    BY <1>2, <2>3, <2>4, FieldType DEF Places
  <2>6. Placed(q) /\ q.op = p.op /\ q.pid = p.pid
    BY <1>2, <2>1, <2>3 DEF Request, Placed
  <2> QED
    BY <1>1, <2>2, <2>5, <2>6, ReadType
<1> QED
  BY <1>3, <1>4, <1>5, <1>6, <1>7

\* The reads of the consent endpoints.
LEMMA ConsentReadType ==
  ASSUME TypeInv, NEW r \in Reqs,
         LoadThread(r) \/ ProposeCheck(r) \/ ApproveProposal(r) \/ DenyProposal(r)
  PROVE  TypeInv'
<1>1. PICK p : p = req[r]
  OBVIOUS
<1>2. p \in Request /\ Placed(p) /\ Known(p)
  BY <1>1, ReqType DEF TypeInv
<1>3. CASE Answer(r)
  BY <1>3, AnswerType DEF LoadThread, ProposeCheck, ApproveProposal, DenyProposal
<1>4. CASE LoadThread(r) /\ ~Answer(r)
  <2>1. p.op \in Consent /\ p.pc = "thread"
    BY <1>1, <1>4 DEF LoadThread, Consent
  <2>2. PICK pc, row, q :
          /\ pc = IF p.op = "propose" THEN "check" ELSE "proposal"
          /\ row = thread[p.tid] /\ row # Absent
          /\ q = [p EXCEPT !.snap = row, !.pc = pc]
          /\ Becomes(r, q) /\ UNCHANGED <<rows, history>>
    BY <1>1, <1>4 DEF LoadThread
  <2>3. q = [p EXCEPT !.snap = row, !.pc = pc] /\ pc \in {"check", "proposal"}
    BY <2>2
  <2>4. p.tid \in Ids
    BY <1>2, <2>1 DEF Placed
  <2>5. row \in ThreadRow
    BY <2>2, <2>4, ThreadType
  <2>6. q \in Request
    BY <1>2, <2>3, <2>5, FieldType DEF Places
  <2>7. Placed(q) /\ q.op = p.op /\ q.pid = p.pid
    BY <1>2, <2>1, <2>3, <2>5 DEF Request, Placed, Consent
  <2> QED
    BY <1>1, <2>2, <2>6, <2>7, ReadType
<1>5. CASE ProposeCheck(r) /\ ~Answer(r)
  <2>1. p.op = "propose" /\ p.pc = "check"
    BY <1>1, <1>5 DEF ProposeCheck, At
  <2>2. PICK required, prop, q :
          /\ required = Approvers(p.tid, p.snap)
          /\ prop = [thread |-> p.tid, agent |-> p.agent, proposer |-> p.user,
                     status |-> "pending", required |-> required,
                     approvals |-> {a \in required : Owner(a) = p.user}, divider |-> Absent]
          /\ q = [p EXCEPT !.pc = "persist", !.prop = prop]
          /\ Becomes(r, q) /\ UNCHANGED <<rows, history>>
    BY <1>1, <1>5 DEF ProposeCheck
  <2>3. q = [p EXCEPT !.pc = "persist", !.prop = prop]
    BY <2>2
  <2>4. p.tid \in Ids /\ p.agent \in Agents /\ p.user \in Users /\ p.snap \in ThreadRow
    BY <1>2, <2>1 DEF Placed
  <2>5. required \subseteq Agents
    BY <2>2 DEF Approvers
  <2>6. prop \in ProposalRow
    BY <2>2, <2>4, <2>5 DEF ProposalRow
  <2>7. q \in Request
    BY <1>2, <2>3, <2>6, FieldType DEF Places
  <2>8. Placed(q) /\ q.op = p.op /\ q.pid = p.pid
    BY <1>2, <2>1, <2>3, <2>6 DEF Request, Placed
  <2> QED
    BY <1>1, <2>2, <2>7, <2>8, ReadType
<1>6. CASE (ApproveProposal(r) \/ DenyProposal(r)) /\ ~Answer(r)
  <2>1. p.op \in {"approve", "deny"} /\ p.pc = "proposal"
    BY <1>1, <1>6 DEF ApproveProposal, DenyProposal, At
  <2>2. PICK pc, prop, q :
          /\ pc \in {"ownerInbox", "save"} /\ prop = proposals[p.pid]
          /\ q = [p EXCEPT !.prop = prop, !.pc = pc]
          /\ Becomes(r, q) /\ UNCHANGED <<rows, history>>
    BY <1>1, <1>6 DEF ApproveProposal, DenyProposal
  <2>3. q = [p EXCEPT !.prop = prop, !.pc = pc] /\ pc \in {"ownerInbox", "save"}
    BY <2>2
  <2>4. prop \in ProposalRow
    BY <1>2, <2>1, <2>2 DEF Known
  <2>5. q \in Request
    BY <1>2, <2>3, <2>4, FieldType DEF Places
  <2>6. Placed(q) /\ q.op = p.op /\ q.pid = p.pid
    BY <1>2, <2>1, <2>3, <2>4 DEF Request, Placed
  <2> QED
    BY <1>1, <2>2, <2>5, <2>6, ReadType
<1> QED
  BY <1>3, <1>4, <1>5, <1>6

\* finalizeApprovedDowngrade reads the inbox row of the web agent's owner.
LEMMA FinalizeReadType ==
  ASSUME TypeInv, NEW r \in Reqs, FinalizeInbox(r)
  PROVE  TypeInv'
<1>1. PICK p : p = req[r]
  OBVIOUS
<1>2. p \in Request /\ Placed(p)
  BY <1>1, ReqType
<1>3. p.pc = "ownerInbox"
  BY <1>1 DEF FinalizeInbox
<1>4. PICK v, owner, q :
        /\ v = Owner(p.prop.agent)
        /\ owner = IF inbox[v][p.tid] # Absent THEN inbox[v][p.tid]
                   ELSE [status |-> "pending",
                         role |-> IF v = p.snap.from THEN "sender" ELSE "recipient"]
        /\ q = [p EXCEPT !.pc = "finalize", !.owner = owner]
        /\ Becomes(r, q) /\ UNCHANGED <<rows, history>>
  BY <1>1 DEF FinalizeInbox
<1>5. q = [p EXCEPT !.pc = "finalize", !.owner = owner]
  BY <1>4
<1>6. p.prop \in ProposalRow /\ p.tid \in Ids
  BY <1>2, <1>3 DEF Placed
<1>7. v \in Users
  BY <1>4, <1>6, OwnerType DEF ProposalRow
<1>8. owner \in InboxRow
  BY <1>4, <1>6, <1>7, InboxType DEF InboxRow
<1>9. q \in Request
  BY <1>2, <1>5, <1>8, FieldType DEF Places
<1>10. Placed(q) /\ q.op = p.op /\ q.pid = p.pid
  BY <1>2, <1>3, <1>5, <1>8 DEF Request, Placed
<1> QED
  BY <1>1, <1>4, <1>9, <1>10, ReadType

\* Setting a field of a thread row or of a proposal to a value of its type.
LEMMA RowFieldType ==
  ASSUME NEW row \in ThreadRow
  PROVE  /\ \A v \in {"open", "closed"} : [row EXCEPT !.status = v] \in ThreadRow
         /\ \A v \in Modes : [row EXCEPT !.mode = v] \in ThreadRow
         /\ \A v \in Agents \cup Broadcasts : [row EXCEPT !.audience = v] \in ThreadRow
         /\ \A v \in (SUBSET Users) \cup {Absent} : [row EXCEPT !.awaiting = v] \in ThreadRow
         /\ \A v \in Nat : [row EXCEPT !.replies = v] \in ThreadRow
         /\ \A v \in PointRow : [row EXCEPT !.point = v] \in ThreadRow
<1>1. ASSUME NEW v \in {"open", "closed"} PROVE [row EXCEPT !.status = v] \in ThreadRow
  BY DEF ThreadRow
<1>2. ASSUME NEW v \in Modes PROVE [row EXCEPT !.mode = v] \in ThreadRow
  BY DEF ThreadRow
<1>3. ASSUME NEW v \in Agents \cup Broadcasts PROVE [row EXCEPT !.audience = v] \in ThreadRow
  BY DEF ThreadRow
<1>4. ASSUME NEW v \in (SUBSET Users) \cup {Absent} PROVE [row EXCEPT !.awaiting = v] \in ThreadRow
  BY DEF ThreadRow
<1>5. ASSUME NEW v \in Nat PROVE [row EXCEPT !.replies = v] \in ThreadRow
  BY DEF ThreadRow
<1>6. ASSUME NEW v \in PointRow PROVE [row EXCEPT !.point = v] \in ThreadRow
  BY DEF ThreadRow
<1> QED
  BY <1>1, <1>2, <1>3, <1>4, <1>5, <1>6

\* Replacing one field of a stored proposal keeps it a proposal.
LEMMA ProposalFieldType ==
  ASSUME NEW p \in ProposalRow
  PROVE  /\ \A v \in {"pending", "approved", "denied"} : [p EXCEPT !.status = v] \in ProposalRow
         /\ \A v \in SUBSET Agents : [p EXCEPT !.approvals = v] \in ProposalRow
         /\ \A v \in Ids : [p EXCEPT !.divider = v] \in ProposalRow
<1>1. ASSUME NEW v \in {"pending", "approved", "denied"} PROVE [p EXCEPT !.status = v] \in ProposalRow
  BY DEF ProposalRow
<1>2. ASSUME NEW v \in SUBSET Agents PROVE [p EXCEPT !.approvals = v] \in ProposalRow
  BY DEF ProposalRow
<1>3. ASSUME NEW v \in Ids PROVE [p EXCEPT !.divider = v] \in ProposalRow
  BY DEF ProposalRow
<1> QED
  BY <1>1, <1>2, <1>3

\* A commit that answers: rows of the right type, no proposal deleted.
LEMMA SaveType ==
  ASSUME TypeInv, NEW r \in Reqs, Answer(r),
         thread' \in [Ids -> ThreadRow \cup {Absent}],
         inbox' \in [Users -> [Ids -> InboxRow \cup {Absent}]],
         messages' \subseteq MessageRow,
         payloads' \subseteq Ids \X Ids,
         idem' \in [Users -> [Keys -> IdemRow \cup {Absent}]],
         proposals' \in [Ids -> ProposalRow \cup {Absent}],
         \A p \in Ids : proposals[p] \in ProposalRow => proposals'[p] \in ProposalRow,
         nextId' \in 1..MaxId + 1,
         overwritten' \subseteq Ids,
         answered' \subseteq [user: Users, key: Keys, thread: Ids, id: Ids],
         consented' \subseteq [user: Users, id: Ids, thread: Ids],
         denied' \subseteq Ids
  PROVE  TypeInv'
<1>1. req' \in [Reqs -> Request] /\ \A s \in Reqs : Placed(req'[s]) /\ Known(req[s])'
  BY IdleRequest, IdlePlace, RequestsType DEF Answer
<1> QED
  BY <1>1 DEF TypeInv, TypeOK

\* A commit marks only ids as overwritten.
LEMMA OverwritesType ==
  ASSUME TypeInv, NEW id \in Ids, NEW row, NEW seen
  PROVE  Overwrites(row, seen, id) \subseteq Ids
BY DEF TypeInv, TypeOK, Overwrites

\* A fresh id is in range, and so is the next one.
LEMMA FreshId == nextId \in Ids => nextId + 1 \in 1..MaxId + 1
BY DirectoryAssumption DEF Ids

\* The thread row that createThread builds is well typed.
LEMMA NewThreadType ==
  ASSUME NEW u \in Users, NEW a \in Agents, NEW to \in Agents \cup Broadcasts,
         NEW turns \in (SUBSET Users) \cup {Absent}
  PROVE  NewThread(u, a, to, turns) \in ThreadRow
<1>1. PICK kind, mode, external, participants :
        /\ kind = IF to \in Broadcasts THEN "broadcast" ELSE "direct"
        /\ mode = EncryptionMode(u, a, to)
        /\ external \in BOOLEAN /\ external = CrossOrg(u, to)
        /\ participants = IF CrossOrg(u, to) THEN {u, Owner(to)} ELSE {}
  BY DEF CrossOrg
<1>2. mode \in Modes
  BY <1>1 DEF EncryptionMode, Modes
<1>3. participants \in SUBSET Users
  BY <1>1, OwnerType DEF CrossOrg
<1>4. NewThread(u, a, to, turns) =
        [kind |-> kind, status |-> "open", mode |-> mode, from |-> u, fromAgent |-> a,
         audience |-> to, external |-> external, participants |-> participants,
         awaiting |-> turns, replies |-> 0, point |-> Absent]
  BY <1>1 DEF NewThread
<1> QED
  BY <1>1, <1>2, <1>3, <1>4 DEF ThreadRow

\* The commit of createThread keeps the types.
LEMMA CreateCommitType ==
  ASSUME TypeInv, NEW r \in Reqs, CreateCommit(r)
  PROVE  TypeInv'
<1> DEFINE p == req[r]
<1>1. PICK turns \in TurnChoices :
        /\ nextId <= MaxThread /\ nextId' = nextId + 1
        /\ thread' = [thread EXCEPT ![nextId] = NewThread(p.user, p.agent, p.to, turns)]
        /\ messages' = messages \cup
             {[id |-> nextId, thread |-> nextId, from |-> p.user, agent |-> p.agent,
               store |-> NewThread(p.user, p.agent, p.to, turns).mode, senderOnly |-> FALSE]}
        /\ payloads' = IF NewThread(p.user, p.agent, p.to, turns).mode = "app_envelope"
                       THEN payloads \cup {<<nextId, nextId>>} ELSE payloads
        /\ inbox' = [v \in Users |->
             IF v \in {p.user} \cup Recipients(p.user, p.to)
             THEN [inbox[v] EXCEPT ![nextId] =
                     FirstInboxRow(NewThread(p.user, p.agent, p.to, turns), p.user, v)]
             ELSE inbox[v]]
        /\ idem' = IF p.key = Absent THEN idem
                   ELSE [idem EXCEPT ![p.user][p.key] =
                          [kind |-> "create_thread", thread |-> nextId, message |-> nextId]]
        /\ Answer(r)
        /\ UNCHANGED <<proposals, history>>
  BY DEF CreateCommit
<1>2. p \in Request /\ Placed(p) /\ p.op = "create" /\ p.pc = "commit"
  BY ReqType DEF CreateCommit, At
<1> HIDE DEF p
<1>3. p.user \in Users /\ p.agent \in Agents /\ p.to \in Agents \cup Broadcasts
      /\ p.key \in Keys \cup {Absent}
  BY <1>2 DEF Placed, Request
<1>4. PICK row : row = NewThread(p.user, p.agent, p.to, turns)
  OBVIOUS
<1>5. nextId \in Ids
  BY <1>1, DirectoryAssumption DEF TypeInv, TypeOK, Ids
<1>6. row \in ThreadRow
  <2>1. turns \in (SUBSET Users) \cup {Absent}
    BY DirectoryAssumption
  <2> QED
    BY <1>3, <1>4, <2>1, NewThreadType
<1>7. thread' \in [Ids -> ThreadRow \cup {Absent}]
  BY <1>1, <1>4, <1>6 DEF TypeInv, TypeOK
<1>8. messages' \subseteq MessageRow
  <2>1. row.mode \in Modes
    BY <1>6 DEF ThreadRow
  <2>2. PICK m : m = [id |-> nextId, thread |-> nextId, from |-> p.user, agent |-> p.agent,
                      store |-> row.mode, senderOnly |-> FALSE]
    OBVIOUS
  <2>3. m \in MessageRow
    BY <1>3, <1>5, <2>1, <2>2 DEF MessageRow
  <2>4. messages' = messages \cup {m}
    BY <1>1, <1>4, <2>2
  <2> QED
    BY <2>3, <2>4 DEF TypeInv, TypeOK
<1>9. payloads' \subseteq Ids \X Ids
  BY <1>1, <1>5 DEF TypeInv, TypeOK
<1>10. inbox' \in [Users -> [Ids -> InboxRow \cup {Absent}]]
  <2>1. ASSUME NEW v \in Users PROVE FirstInboxRow(row, p.user, v) \in InboxRow
    BY DEF FirstInboxRow, InboxRow
  <2>2. inbox' = [v \in Users |->
             IF v \in {p.user} \cup Recipients(p.user, p.to)
             THEN [inbox[v] EXCEPT ![nextId] = FirstInboxRow(row, p.user, v)]
             ELSE inbox[v]]
    BY <1>1, <1>4
  <2> QED
    BY <1>5, <2>1, <2>2 DEF TypeInv, TypeOK
<1>11. idem' \in [Users -> [Keys -> IdemRow \cup {Absent}]]
  <2>1. [kind |-> "create_thread", thread |-> nextId, message |-> nextId] \in IdemRow
    BY <1>5 DEF IdemRow
  <2> QED
    BY <1>1, <1>3, <2>1 DEF TypeInv, TypeOK
<1>12. nextId' \in 1..MaxId + 1
  BY <1>1, <1>5, FreshId
<1> QED
  BY <1>1, <1>7, <1>8, <1>9, <1>10, <1>11, <1>12, SaveType DEF TypeInv, TypeOK, history

\* The row a reply writes.
LEMMA RepliedThreadType ==
  ASSUME NEW q \in Request, q.snap \in ThreadRow, NEW turns \in (SUBSET Users) \cup {Absent}
  PROVE  RepliedThread(q, turns) \in ThreadRow
<1>1. PICK row, replies, awaiting, audience :
        /\ row = q.snap /\ replies = row.replies + 1
        /\ awaiting = IF turns # Absent THEN turns ELSE row.awaiting
        /\ audience = IF q.to # Absent THEN q.to ELSE row.audience
  OBVIOUS
<1>2. /\ row \in ThreadRow /\ replies \in Nat
      /\ awaiting \in (SUBSET Users) \cup {Absent} /\ audience \in Agents \cup Broadcasts
  BY <1>1 DEF ThreadRow, Request
<1>3. RepliedThread(q, turns) =
        [row EXCEPT !.replies = replies, !.awaiting = awaiting, !.audience = audience]
  BY <1>1, <1>2 DEF RepliedThread, ThreadRow
<1>4. [row EXCEPT !.replies = replies] \in ThreadRow
  BY <1>2, RowFieldType
<1>5. [[row EXCEPT !.replies = replies] EXCEPT !.awaiting = awaiting] \in ThreadRow
  BY <1>2, <1>4, RowFieldType
<1> QED
  BY <1>2, <1>3, <1>5, RowFieldType

\* The inbox rows it writes.
LEMMA InboxAfterReplyType ==
  ASSUME TypeInv, NEW q \in Request, q.user \in Users, q.tid \in Ids, q.own \in Roles,
         NEW turns \in (SUBSET Users) \cup {Absent}
  PROVE  InboxAfterReply(q, turns) \in [Users -> [Ids -> InboxRow \cup {Absent}]]
<1>1. ASSUME NEW v \in Users, StatusAfterReply(q, turns, v) # Absent
      PROVE  [status |-> StatusAfterReply(q, turns, v),
              role |-> IF v = q.user /\ (turns = Absent \/ q.peers[v] = Absent)
                       THEN q.own ELSE q.peers[v]] \in InboxRow
  <2>1. q.peers[v] \in Roles \cup {Absent}
    BY DEF Request
  <2>2. StatusAfterReply(q, turns, v) \in {"pending", "replied"}
    BY <1>1 DEF StatusAfterReply
  <2>3. v = q.user \/ q.peers[v] # Absent
    BY <1>1 DEF StatusAfterReply
  <2>4. v = q.user /\ turns # Absent => q.peers[v] \in Roles \/ q.peers[v] = Absent
    BY <2>1
  <2> QED
    BY <2>1, <2>2, <2>3, <2>4 DEF InboxRow, Roles
<1> QED
  BY <1>1 DEF InboxAfterReply, TypeInv, TypeOK

\* The commit of postReply keeps the types.
LEMMA ReplyCommitType ==
  ASSUME TypeInv, NEW r \in Reqs, ReplyCommit(r)
  PROVE  TypeInv'
<1> DEFINE p == req[r]
<1>1. PICK turns \in TurnChoices :
        /\ nextId \in Ids /\ nextId' = nextId + 1
        /\ messages' = messages \cup
             {[id |-> nextId, thread |-> p.tid, from |-> p.user, agent |-> p.agent,
               store |-> p.snap.mode,
               senderOnly |-> p.snap.kind = "broadcast" /\ p.snap.audience = OrgWide]}
        /\ thread' = [thread EXCEPT ![p.tid] = RepliedThread(p, turns)]
        /\ payloads' = IF p.snap.mode = "app_envelope"
                       THEN payloads \cup {<<p.tid, nextId>>} ELSE payloads
        /\ inbox' = InboxAfterReply(p, turns)
        /\ idem' = IF p.key = Absent THEN idem
                   ELSE [idem EXCEPT ![p.user][p.key] =
                          [kind |-> "reply", thread |-> p.tid, message |-> nextId]]
        /\ overwritten' = Overwrites(thread[p.tid], p.snap, p.tid)
        /\ answered' = IF p.key = Absent THEN answered
             ELSE answered \cup {[user |-> p.user, key |-> p.key, thread |-> p.tid, id |-> nextId]}
        /\ Answer(r)
        /\ UNCHANGED <<proposals, consented, denied>>
  BY DEF ReplyCommit
<1>2. p \in Request /\ Placed(p) /\ p.op = "reply" /\ p.pc = "commit"
  BY ReqType DEF ReplyCommit, At
<1> HIDE DEF p
<1>3. /\ p.user \in Users /\ p.tid \in Ids /\ p.agent \in Agents /\ p.own \in Roles
      /\ p.snap \in ThreadRow /\ p.key \in Keys \cup {Absent}
  BY <1>2 DEF Placed, Request
<1>4. turns \in (SUBSET Users) \cup {Absent}
  BY DirectoryAssumption
<1>5. thread' \in [Ids -> ThreadRow \cup {Absent}]
  <2>1. RepliedThread(p, turns) \in ThreadRow
    BY <1>2, <1>3, <1>4, RepliedThreadType
  <2> QED
    BY <1>1, <2>1 DEF TypeInv, TypeOK
<1>6. messages' \subseteq MessageRow
  <2>1. PICK mode, hidden : mode = p.snap.mode /\ hidden \in BOOLEAN
          /\ hidden = (p.snap.kind = "broadcast" /\ p.snap.audience = OrgWide)
    OBVIOUS
  <2>2. mode \in Modes
    BY <1>3, <2>1 DEF ThreadRow
  <2>3. PICK m : m = [id |-> nextId, thread |-> p.tid, from |-> p.user, agent |-> p.agent,
                      store |-> mode, senderOnly |-> hidden]
    OBVIOUS
  <2>4. m \in MessageRow
    BY <1>1, <1>3, <2>1, <2>2, <2>3 DEF MessageRow
  <2>5. messages' = messages \cup {m}
    BY <1>1, <2>1, <2>3
  <2> QED
    BY <2>4, <2>5 DEF TypeInv, TypeOK
<1>7. payloads' \subseteq Ids \X Ids
  BY <1>1, <1>3 DEF TypeInv, TypeOK
<1>8. inbox' \in [Users -> [Ids -> InboxRow \cup {Absent}]]
  BY <1>1, <1>2, <1>3, <1>4, InboxAfterReplyType
<1>9. idem' \in [Users -> [Keys -> IdemRow \cup {Absent}]]
  <2>1. [kind |-> "reply", thread |-> p.tid, message |-> nextId] \in IdemRow
    BY <1>1, <1>3 DEF IdemRow
  <2> QED
    BY <1>1, <1>3, <2>1 DEF TypeInv, TypeOK
<1>10. nextId' \in 1..MaxId + 1
  BY <1>1, FreshId
<1>11. overwritten' \subseteq Ids
  BY <1>1, <1>3, OverwritesType
<1>12. answered' \subseteq [user: Users, key: Keys, thread: Ids, id: Ids]
  BY <1>1, <1>3 DEF TypeInv, TypeOK
<1> QED
  BY <1>1, <1>5, <1>6, <1>7, <1>8, <1>9, <1>10, <1>11, <1>12, SaveType DEF TypeInv, TypeOK

\* The commits of closeThread keep the types.
LEMMA CloseCommitType ==
  ASSUME TypeInv, NEW r \in Reqs, CloseCommit(r)
  PROVE  TypeInv'
<1> DEFINE p == req[r]
<1>1. /\ thread' = [thread EXCEPT ![p.tid] = [p.snap EXCEPT !.status = "closed"]]
      /\ overwritten' = Overwrites(thread[p.tid], p.snap, p.tid)
      /\ Answer(r)
      /\ UNCHANGED <<inbox, messages, payloads, idem, proposals, nextId, answered, consented, denied>>
  BY DEF CloseCommit
<1>2. p \in Request /\ Placed(p) /\ p.op = "close" /\ p.pc = "commit"
  BY ReqType DEF CloseCommit, At
<1> HIDE DEF p
<1>3. p.tid \in Ids /\ p.snap \in ThreadRow
  BY <1>2 DEF Placed
<1>4. [p.snap EXCEPT !.status = "closed"] \in ThreadRow
  BY <1>3, RowFieldType
<1>5. thread' \in [Ids -> ThreadRow \cup {Absent}]
  BY <1>1, <1>4 DEF TypeInv, TypeOK
<1>6. overwritten' \subseteq Ids
  BY <1>1, <1>3, OverwritesType
<1> QED
  BY <1>1, <1>5, <1>6, SaveType DEF TypeInv, TypeOK

\* Each step of deleteThread keeps the types.
LEMMA DeleteType ==
  ASSUME TypeInv, NEW r \in Reqs, DeleteDrop(r) \/ DeleteInboxes(r) \/ DeleteBody(r)
  PROVE  TypeInv'
<1> DEFINE p == req[r]
<1>1. p \in Request /\ Placed(p) /\ p.op = "delete" /\ p.pc \in {"drop", "dropInboxes", "dropBody"}
  BY ReqType DEF DeleteDrop, DeleteInboxes, DeleteBody, At
<1>2. p.user \in Users /\ p.tid \in Ids
  BY <1>1 DEF Placed
<1>3. CASE DeleteDrop(r)
  <2>1. /\ inbox' = [inbox EXCEPT ![p.user][p.tid] = Absent]
        /\ Answer(r)
        /\ UNCHANGED <<thread, messages, payloads, idem, proposals, nextId, history>>
    BY <1>3 DEF DeleteDrop
  <2> HIDE DEF p
  <2>2. inbox' \in [Users -> [Ids -> InboxRow \cup {Absent}]]
    BY <1>2, <2>1 DEF TypeInv, TypeOK
  <2> QED
    BY <2>1, <2>2, SaveType DEF TypeInv, TypeOK, history
<1>4. CASE DeleteInboxes(r)
  <2>1. /\ inbox' = [v \in Users |->
             IF v \in {p.user} \cup Members(OrgOf[p.user])
             THEN [inbox[v] EXCEPT ![p.tid] = Absent] ELSE inbox[v]]
        /\ Becomes(r, [p EXCEPT !.pc = "dropBody"])
        /\ UNCHANGED <<thread, messages, payloads, idem, proposals, nextId, history>>
    BY <1>4 DEF DeleteInboxes
  <2> HIDE DEF p
  <2>2. inbox' \in [Users -> [Ids -> InboxRow \cup {Absent}]]
    BY <1>2, <2>1 DEF TypeInv, TypeOK
  <2>3. PICK q : q = [p EXCEPT !.pc = "dropBody"]
    OBVIOUS
  <2>4. q \in Request
    BY <1>1, <2>3, FieldType DEF Places
  <2>5. Placed(q) /\ q.op = "delete"
    BY <1>1, <2>3 DEF Request, Placed
  <2>6. req' \in [Reqs -> Request] /\ \A s \in Reqs : Placed(req'[s]) /\ Known(req[s])'
    BY <2>1, <2>3, <2>4, <2>5, RequestsType
  <2> QED
    BY <2>1, <2>2, <2>6 DEF TypeInv, TypeOK, history
<1>5. CASE DeleteBody(r)
  <2>1. /\ messages' = {m \in messages : m.thread # p.tid \/ m.id \notin p.listed}
        /\ payloads' = payloads \ ({p.tid} \X p.records)
        /\ thread' = [thread EXCEPT ![p.tid] = Absent]
        /\ overwritten' = Overwrites(thread[p.tid], p.snap, p.tid)
        /\ Answer(r)
        /\ UNCHANGED <<inbox, idem, proposals, nextId, answered, consented, denied>>
    BY <1>5 DEF DeleteBody
  <2> HIDE DEF p
  <2>2. overwritten' \subseteq Ids
    BY <1>2, <2>1, OverwritesType
  <2>3. thread' \in [Ids -> ThreadRow \cup {Absent}]
    BY <2>1 DEF TypeInv, TypeOK
  <2>4. messages' \subseteq MessageRow /\ payloads' \subseteq Ids \X Ids
    BY <2>1 DEF TypeInv, TypeOK
  <2> QED
    BY <2>1, <2>2, <2>3, <2>4, SaveType DEF TypeInv, TypeOK
<1> QED
  BY <1>3, <1>4, <1>5

\* Storing a new proposal keeps the types.
LEMMA ProposePersistType ==
  ASSUME TypeInv, NEW r \in Reqs, ProposePersist(r)
  PROVE  TypeInv'
<1> DEFINE p == req[r]
<1>1. /\ nextId \in Ids /\ nextId' = nextId + 1
      /\ proposals' = [proposals EXCEPT ![nextId] = p.prop]
      /\ consented' = consented \cup {[user |-> p.user, id |-> nextId, thread |-> p.tid]}
      /\ \/ Becomes(r, [p EXCEPT !.pc = "ownerInbox", !.pid = nextId])
         \/ Answer(r)
      /\ UNCHANGED <<thread, inbox, messages, payloads, idem, overwritten, answered, denied>>
  BY DEF ProposePersist
<1>2. p \in Request /\ Placed(p) /\ p.op = "propose" /\ p.pc = "persist"
  BY ReqType DEF ProposePersist, At
<1> HIDE DEF p
<1>3. p.user \in Users /\ p.tid \in Ids /\ p.prop \in ProposalRow
  BY <1>2 DEF Placed
<1>4. /\ proposals' \in [Ids -> ProposalRow \cup {Absent}]
      /\ \A i \in Ids : proposals[i] \in ProposalRow => proposals'[i] \in ProposalRow
  BY <1>1, <1>3 DEF TypeInv, TypeOK
<1>5. consented' \subseteq [user: Users, id: Ids, thread: Ids]
  BY <1>1, <1>3 DEF TypeInv, TypeOK
<1>6. nextId' \in 1..MaxId + 1
  BY <1>1, FreshId
<1>7. CASE Answer(r)
  BY <1>1, <1>4, <1>5, <1>6, <1>7, SaveType DEF TypeInv, TypeOK
<1>8. CASE Becomes(r, [p EXCEPT !.pc = "ownerInbox", !.pid = nextId])
  <2>1. PICK q, id : q = [p EXCEPT !.pc = "ownerInbox", !.pid = id] /\ id = nextId
    OBVIOUS
  <2>2. q = [p EXCEPT !.pc = "ownerInbox", !.pid = id] /\ id \in Ids
    BY <1>1, <2>1
  <2>3. q \in Request
    BY <1>2, <2>2, FieldType DEF Places
  <2>4. Placed(q) /\ q.op = "propose"
    BY <1>2, <2>2 DEF Request, Placed
  <2>5. req' \in [Reqs -> Request] /\ \A s \in Reqs : Placed(req'[s]) /\ Known(req[s])'
    BY <1>4, <1>8, <2>1, <2>3, <2>4, RequestsType
  <2> QED
    BY <1>1, <1>4, <1>5, <1>6, <2>5 DEF TypeInv, TypeOK
<1> QED
  BY <1>1, <1>7, <1>8

\* Saving an approval or a denial keeps the types.
LEMMA ConsentSaveType ==
  ASSUME TypeInv, NEW r \in Reqs, ApproveSave(r) \/ DenySave(r)
  PROVE  TypeInv'
<1> DEFINE p == req[r]
<1>1. p \in Request /\ Placed(p) /\ p.op \in {"approve", "deny"} /\ p.pc = "save"
  BY ReqType DEF ApproveSave, DenySave, At
<1>2. p.pid \in Ids /\ p.prop \in ProposalRow
  BY <1>1 DEF Placed
<1>3. PICK row :
        /\ \/ row = [p.prop EXCEPT !.approvals = p.prop.approvals \cup Mine(p.prop, p.user)]
           \/ row = [p.prop EXCEPT !.status = "denied"]
        /\ proposals' = [proposals EXCEPT ![p.pid] = row]
  BY DEF ApproveSave, DenySave
<1>4. /\ overwritten' = Overwrites(proposals[p.pid], p.prop, p.pid)
      /\ denied' \in {denied, denied \cup {p.pid}}
      /\ Answer(r)
      /\ UNCHANGED <<thread, inbox, messages, payloads, idem, nextId, answered, consented>>
  BY DEF ApproveSave, DenySave
<1> HIDE DEF p
<1>5. row \in ProposalRow
  <2>1. p.prop.approvals \cup Mine(p.prop, p.user) \in SUBSET Agents
    BY <1>2 DEF ProposalRow, Mine
  <2> QED
    BY <1>2, <1>3, <2>1, ProposalFieldType
<1>6. /\ proposals' \in [Ids -> ProposalRow \cup {Absent}]
      /\ \A i \in Ids : proposals[i] \in ProposalRow => proposals'[i] \in ProposalRow
  BY <1>3, <1>5 DEF TypeInv, TypeOK
<1>7. overwritten' \subseteq Ids /\ denied' \subseteq Ids
  BY <1>2, <1>4, OverwritesType DEF TypeInv, TypeOK
<1> QED
  BY <1>4, <1>6, <1>7, SaveType DEF TypeInv, TypeOK

\* The thread row and the proposal that a finished downgrade writes.
LEMMA DowngradedThreadType ==
  ASSUME NEW q \in Request, q.snap \in ThreadRow, q.prop \in ProposalRow, NEW id \in Ids
  PROVE  DowngradedThread(q, id) \in ThreadRow
<1>1. PICK row, agent, replies, point :
        /\ row = q.snap /\ replies = row.replies + 1 /\ agent = q.prop.agent
        /\ point = [message |-> id, approvers |-> q.prop.required]
  OBVIOUS
<1>2. /\ row \in ThreadRow /\ replies \in Nat
      /\ agent \in Agents \cup Broadcasts /\ point \in PointRow
  BY <1>1 DEF ThreadRow, ProposalRow, PointRow
<1>3. DowngradedThread(q, id) =
        [row EXCEPT !.mode = "app_envelope", !.audience = agent, !.replies = replies, !.point = point]
  BY <1>1, <1>2 DEF DowngradedThread, ThreadRow
<1>4. [row EXCEPT !.mode = "app_envelope"] \in ThreadRow
  BY <1>2, RowFieldType DEF Modes
<1>5. [[row EXCEPT !.mode = "app_envelope"] EXCEPT !.audience = agent] \in ThreadRow
  BY <1>2, <1>4, RowFieldType
<1>6. [[[row EXCEPT !.mode = "app_envelope"] EXCEPT !.audience = agent]
         EXCEPT !.replies = replies] \in ThreadRow
  BY <1>2, <1>5, RowFieldType
<1> QED
  BY <1>2, <1>3, <1>6, RowFieldType

\* A proposal marked as approved and final is well typed.
LEMMA ApprovedProposalType ==
  ASSUME NEW p \in ProposalRow, NEW id \in Ids
  PROVE  [p EXCEPT !.status = "approved", !.approvals = p.required, !.divider = id] \in ProposalRow
<1>1. p.required \in SUBSET Agents
  BY DEF ProposalRow
<1>2. [p EXCEPT !.status = "approved"] \in ProposalRow
  BY ProposalFieldType
<1>3. [[p EXCEPT !.status = "approved"] EXCEPT !.approvals = p.required] \in ProposalRow
  BY <1>1, <1>2, ProposalFieldType
<1> QED
  BY <1>3, ProposalFieldType

\* The commit of finalizeApprovedDowngrade keeps the types.
LEMMA FinalizeCommitType ==
  ASSUME TypeInv, NEW r \in Reqs, FinalizeCommit(r)
  PROVE  TypeInv'
<1> DEFINE p == req[r]
<1>1. /\ p.pc = "finalize" /\ nextId \in Ids /\ nextId' = nextId + 1
      /\ thread' = [thread EXCEPT ![p.tid] = DowngradedThread(p, nextId)]
      /\ messages' = messages \cup
           {[id |-> nextId, thread |-> p.tid, from |-> "system", agent |-> Absent,
             store |-> "app_envelope", senderOnly |-> FALSE]}
      /\ payloads' = payloads \cup {<<p.tid, nextId>>}
      /\ proposals' = [proposals EXCEPT ![p.pid] =
           [p.prop EXCEPT !.status = "approved", !.approvals = p.prop.required, !.divider = nextId]]
      /\ inbox' = [inbox EXCEPT ![Owner(p.prop.agent)][p.tid] = p.owner]
      /\ overwritten' = Overwrites(thread[p.tid], p.snap, p.tid)
                        \cup Overwrites(proposals[p.pid], p.prop, p.pid)
      /\ Answer(r)
      /\ UNCHANGED <<idem, answered, consented, denied>>
  BY DEF FinalizeCommit
<1>2. p \in Request /\ Placed(p)
  BY ReqType
<1> HIDE DEF p
<1>3. /\ p.tid \in Ids /\ p.pid \in Ids /\ p.snap \in ThreadRow
      /\ p.prop \in ProposalRow /\ p.owner \in InboxRow
  BY <1>1, <1>2 DEF Placed
<1>4. thread' \in [Ids -> ThreadRow \cup {Absent}]
  <2>1. DowngradedThread(p, nextId) \in ThreadRow
    BY <1>1, <1>2, <1>3, DowngradedThreadType
  <2> QED
    BY <1>1, <2>1 DEF TypeInv, TypeOK
<1>5. messages' \subseteq MessageRow
  <2>1. PICK m : m = [id |-> nextId, thread |-> p.tid, from |-> "system", agent |-> Absent,
                      store |-> "app_envelope", senderOnly |-> FALSE]
    OBVIOUS
  <2>2. m \in MessageRow
    BY <1>1, <1>3, <2>1 DEF MessageRow, Modes
  <2>3. messages' = messages \cup {m}
    BY <1>1, <2>1
  <2> QED
    BY <2>2, <2>3 DEF TypeInv, TypeOK
<1>6. payloads' \subseteq Ids \X Ids
  BY <1>1, <1>3 DEF TypeInv, TypeOK
<1>7. /\ proposals' \in [Ids -> ProposalRow \cup {Absent}]
      /\ \A i \in Ids : proposals[i] \in ProposalRow => proposals'[i] \in ProposalRow
  <2>1. PICK row : row = [p.prop EXCEPT !.status = "approved", !.approvals = p.prop.required,
                                        !.divider = nextId]
    OBVIOUS
  <2>2. row \in ProposalRow
    BY <1>1, <1>3, <2>1, ApprovedProposalType
  <2>3. proposals' = [proposals EXCEPT ![p.pid] = row]
    BY <1>1, <2>1
  <2> QED
    BY <2>2, <2>3 DEF TypeInv, TypeOK
<1>8. inbox' \in [Users -> [Ids -> InboxRow \cup {Absent}]]
  <2>1. Owner(p.prop.agent) \in Users
    BY <1>3, OwnerType DEF ProposalRow
  <2> QED
    BY <1>1, <1>3, <2>1 DEF TypeInv, TypeOK
<1>9. nextId' \in 1..MaxId + 1
  BY <1>1, FreshId
<1>10. overwritten' \subseteq Ids
  BY <1>1, <1>3, OverwritesType
<1> QED
  BY <1>1, <1>4, <1>5, <1>6, <1>7, <1>8, <1>9, <1>10, SaveType DEF TypeInv, TypeOK

-----------------------------------------------------------------------------
(* Every reachable state is well typed *)

LEMMA InitType == Init => TypeInv
<1> SUFFICES ASSUME Init PROVE TypeInv
  OBVIOUS
<1>1. nextId \in 1..MaxId + 1
  BY DirectoryAssumption DEF Init
<1>2. req \in [Reqs -> Request] /\ \A r \in Reqs : Placed(req[r]) /\ Known(req[r])
  BY IdleRequest, IdlePlace DEF Init, Known
<1> QED
  BY <1>1, <1>2 DEF Init, TypeInv, TypeOK

\* A step is one of a request, or changes no more than idempotency rows.
LEMMA Steps ==
  ASSUME [Next]_vars
  PROVE  (\E r \in Reqs : MailStep(r) \/ ConsentStep(r) \/ Crash(r)) \/ UNCHANGED mail
BY DEF Next, Expiry, IdemExpires, mail, vars, rows, history

\* A step that changes nothing keeps the types, and so does one that drops an
\* idempotency row.
LEMMA StutterType ==
  ASSUME TypeInv, UNCHANGED mail,
         idem' \in [Users -> [Keys -> IdemRow \cup {Absent}]], answered' \subseteq answered
  PROVE  TypeInv'
<1>1. \A r \in Reqs : Known(req[r])'
  BY DEF TypeInv, Known, mail
<1> QED
  BY <1>1 DEF TypeInv, TypeOK, mail

\* Stuttering and expiry keep the types.
LEMMA ExpiryType ==
  ASSUME TypeInv, Expiry \/ UNCHANGED vars
  PROVE  TypeInv'
<1>1. CASE UNCHANGED vars
  BY <1>1, StutterType DEF TypeInv, TypeOK, vars, rows, history, mail
<1>2. CASE Expiry
  <2>1. PICK u \in Users, key \in Keys : IdemExpires(u, key)
    BY <1>2 DEF Expiry
  <2>2. PICK none : none = [idem[u] EXCEPT ![key] = Absent] /\ idem' = [idem EXCEPT ![u] = none]
    BY <2>1 DEF IdemExpires
  <2>3. none \in [Keys -> IdemRow \cup {Absent}]
    BY <2>2 DEF TypeInv, TypeOK
  <2>4. idem' \in [Users -> [Keys -> IdemRow \cup {Absent}]]
    BY <2>2, <2>3 DEF TypeInv, TypeOK
  <2> QED
    BY <2>1, <2>4, StutterType DEF IdemExpires
<1> QED
  BY <1>1, <1>2

\* Every step of every handler, and a crash, keeps the types.
LEMMA StepType == TypeInv /\ [Next]_vars => TypeInv'
<1> SUFFICES ASSUME TypeInv, [Next]_vars PROVE TypeInv'
  OBVIOUS
<1>1. CASE Expiry \/ UNCHANGED vars
  BY <1>1, ExpiryType
<1>2. ASSUME NEW r \in Reqs, MailStep(r) PROVE TypeInv'
  BY <1>2, MailStartType, ReplyReadType, CloseReadType, CreateCommitType, ReplyCommitType,
     CloseCommitType, DeleteType DEF MailStep
<1>3. ASSUME NEW r \in Reqs, ConsentStep(r) PROVE TypeInv'
  BY <1>3, ConsentStartType, ConsentReadType, FinalizeReadType, ProposePersistType,
     ConsentSaveType, FinalizeCommitType DEF ConsentStep
<1>4. ASSUME NEW r \in Reqs, Crash(r) PROVE TypeInv'
  BY <1>4, AnswerType DEF Crash
<1> QED
  BY <1>1, <1>2, <1>3, <1>4 DEF Next

\* What a handler holds at each of its steps is of the right type, and so is
\* every row, whatever requests overlap: no commit writes a row of the wrong
\* kind built from stale reads.
THEOREM TypeCorrect == Spec => []TypeOK
<1>1. TypeInv => TypeOK
  BY DEF TypeInv
<1> QED
  BY <1>1, InitType, StepType, PTL DEF Spec

-----------------------------------------------------------------------------
(* What a step does to the record of the request that takes it: it answers, *)
(* arrives, or goes on to its next place with what it has just read.        *)

\* The places entered with the thread row just read.
JustRead(q) == q.pc \in {"peers", "check", "proposal", "drop", "listMessages"} \/ q.op = "close"

\* The places of a consent handler that goes on with a proposal.
HoldsProposal(q) == q.pc \in {"persist", "save", "ownerInbox", "finalize"}

\* A request that has just come in.
Arrives(q) ==
  /\ q.snap = Absent /\ q.prop = Absent
  /\ q.op = "create" =>
       /\ q.pc = "commit" /\ ~q.late
       /\ q.key \in CreateKeys \cup {Absent} /\ Routable(q.user, q.agent, q.to)
  /\ q.op # "create" =>
       /\ q.pc \in {"inbox", "thread"} /\ q.user \in Users /\ q.tid \in Ids
       /\ inbox[q.user][q.tid] # Absent
  /\ q.op = "reply" =>
       /\ q.key \in ReplyKeys \cup {Absent}
       /\ q.late => \E m \in LastAnswer(q.user, q.key) : m.thread = q.tid
       /\ q.key # Absent => ~AnswersRetry(idem[q.user][q.key], q.tid)
  /\ q.op # "reply" => ~q.late

\* A request that goes on from p to q.
Continues(p, q) ==
  /\ p.pc # "idle" /\ p.op # "create"
  /\ q.op = p.op /\ q.user = p.user /\ q.tid = p.tid /\ q.key = p.key /\ q.late = p.late
  /\ q.snap = IF JustRead(q) THEN thread[p.tid] ELSE p.snap
  /\ JustRead(q) /\ q.pc # "drop" => q.snap # Absent
  /\ q.pc \in {"inbox", "thread", "peers", "commit", "drop", "listMessages", "listPayloads",
               "dropInboxes", "dropBody"} => q.prop = p.prop
  /\ q.op = "reply" /\ q.pc = "commit" =>
       /\ p.pc = "peers"
       /\ q.peers = [v \in Users |-> IF v \in PeerCandidates(p.snap) THEN Role(v, p.tid) ELSE Absent]
  /\ q.pc = "listMessages" => q.snap.from = q.user
  /\ q.pc = "listPayloads" => p.pc = "listMessages" /\ q.listed = {m.id : m \in In(p.tid)}
  /\ q.pc = "dropInboxes" =>
       /\ p.pc = "listPayloads" /\ q.listed = p.listed
       /\ q.records = {i \in Ids : <<p.tid, i>> \in payloads}
  /\ q.pc = "dropBody" =>
       /\ p.op = "delete" /\ p.pc = "dropInboxes"
       /\ q.listed = p.listed /\ q.records = p.records
       /\ \A v \in {p.user} \cup Members(OrgOf[p.user]) :
            v \in Users => inbox'[v][p.tid] = Absent
  /\ HoldsProposal(q) =>
       \/ HoldsProposal(p) /\ q.prop = p.prop
       \/ /\ q.prop \in ProposalRow /\ q.prop.status = "pending"
          /\ \/ p.op = "propose" /\ Proposable(p.user, p.tid, p.snap, q.prop.agent)
             \/ p.op \in {"approve", "deny"} /\ q.prop = proposals[p.pid]

\* Where a request starts.
LEMMA StartMoves ==
  ASSUME TypeInv, NEW r \in Reqs,
         \/ CreateStart(r) \/ ReplyStart(r) \/ CloseStart(r) \/ DeleteStart(r) \/ ProposeStart(r)
         \/ \E u \in Users, p \in Ids : ApproveStart(r, u, p) \/ DenyStart(r, u, p)
  PROVE  \E q : Becomes(r, q) /\ Arrives(q)
<1>0. Idle.snap = Absent /\ Idle.prop = Absent /\ Idle.late = FALSE
  BY DEF Idle
<1>1. CASE CreateStart(r)
  <2>1. PICK u, a, to, key, q :
          /\ key \in CreateKeys \cup {Absent} /\ Routable(u, a, to)
          /\ q = [Idle EXCEPT !.op = "create", !.pc = "commit", !.user = u,
                              !.agent = a, !.to = to, !.key = key]
          /\ Becomes(r, q)
    BY <1>1 DEF CreateStart
  <2>2. /\ q.op = "create" /\ q.pc = "commit" /\ q.user = u /\ q.agent = a /\ q.to = to
        /\ q.key = key /\ q.snap = Absent /\ q.prop = Absent /\ q.late = FALSE
    BY <1>0, <2>1, IdleRequest DEF Request
  <2> QED
    BY <2>1, <2>2 DEF Arrives
<1>2. CASE ReplyStart(r)
  <2>1. PICK a \in Agents, t \in Ids, key \in ReplyKeys \cup {Absent} :
          /\ inbox[Owner(a)][t] # Absent
          /\ ~AnswersRetry(IF key = Absent THEN Absent ELSE idem[Owner(a)][key], t)
          /\ Becomes(r, [Idle EXCEPT !.op = "reply", !.pc = "inbox", !.user = Owner(a),
                              !.tid = t, !.agent = a, !.key = key,
                              !.late = \E m \in LastAnswer(Owner(a), key) : m.thread = t])
    BY <1>2 DEF ReplyStart, ReadOwnInbox
  <2>2. PICK u, late, q :
          /\ u = Owner(a)
          /\ late = \E m \in LastAnswer(u, key) : m.thread = t
          /\ q = [Idle EXCEPT !.op = "reply", !.pc = "inbox", !.user = u, !.tid = t,
                              !.agent = a, !.key = key, !.late = late]
    OBVIOUS
  <2>3. u \in Users /\ Becomes(r, q) /\ (key # Absent => ~AnswersRetry(idem[u][key], t))
    BY <2>1, <2>2, OwnerType
  <2>4. /\ q.op = "reply" /\ q.pc = "inbox" /\ q.user = u /\ q.tid = t
        /\ q.key = key /\ q.late = late /\ q.snap = Absent /\ q.prop = Absent
    BY <1>0, <2>2, IdleRequest DEF Request
  <2>5. q.late => \E m \in LastAnswer(q.user, q.key) : m.thread = q.tid
    BY <2>2, <2>4, Zenon
  <2>6. /\ q.snap = Absent /\ q.prop = Absent /\ q.op = "reply" /\ q.pc = "inbox"
        /\ q.user \in Users /\ q.tid \in Ids /\ inbox[q.user][q.tid] # Absent
        /\ q.key \in ReplyKeys \cup {Absent}
        /\ q.key # Absent => ~AnswersRetry(idem[q.user][q.key], q.tid)
    BY <2>1, <2>2, <2>3, <2>4
  <2> QED
    BY <2>3, <2>5, <2>6 DEF Arrives
<1>3. CASE CloseStart(r) \/ DeleteStart(r)
  <2>1. PICK u, t, op, q :
          /\ u \in Users /\ t \in Ids /\ op \in {"close", "delete"} /\ inbox[u][t] # Absent
          /\ q = [Idle EXCEPT !.op = op, !.pc = "thread", !.user = u, !.tid = t]
          /\ Becomes(r, q)
    BY <1>3 DEF CloseStart, DeleteStart, ReadOwnInbox
  <2>2. /\ q.op = op /\ q.pc = "thread" /\ q.user = u /\ q.tid = t
        /\ q.snap = Absent /\ q.prop = Absent /\ q.late = FALSE
    BY <1>0, <2>1, IdleRequest DEF Request
  <2> QED
    BY <2>1, <2>2 DEF Arrives
<1>4. CASE ProposeStart(r)
  <2>1. PICK u, t, w, q :
          /\ u \in Users /\ t \in Ids /\ inbox[u][t] # Absent
          /\ q = [Idle EXCEPT !.op = "propose", !.pc = "thread", !.user = u, !.tid = t, !.agent = w]
          /\ Becomes(r, q)
    BY <1>4 DEF ProposeStart, ReadOwnInbox
  <2>2. /\ q.op = "propose" /\ q.pc = "thread" /\ q.user = u /\ q.tid = t
        /\ q.snap = Absent /\ q.prop = Absent /\ q.late = FALSE
    BY <1>0, <2>1, IdleRequest DEF Request
  <2> QED
    BY <2>1, <2>2 DEF Arrives
<1>5. ASSUME NEW u \in Users, NEW p \in Ids, ApproveStart(r, u, p) \/ DenyStart(r, u, p)
      PROVE  \E q : Becomes(r, q) /\ Arrives(q)
  <2>1. PICK t, op, q :
          /\ t = proposals[p].thread /\ proposals[p] # Absent /\ inbox[u][t] # Absent
          /\ op \in {"approve", "deny"}
          /\ q = [Idle EXCEPT !.op = op, !.pc = "thread", !.user = u, !.tid = t, !.pid = p]
          /\ Becomes(r, q)
    BY <1>5 DEF ApproveStart, DenyStart, ReadOwnInbox
  <2>2. /\ q.op = op /\ q.pc = "thread" /\ q.user = u /\ q.tid = t
        /\ q.snap = Absent /\ q.prop = Absent /\ q.late = FALSE
    BY <1>0, <2>1, IdleRequest DEF Request
  <2>3. t \in Ids
    BY <2>1 DEF TypeInv, TypeOK, ProposalRow
  <2> QED
    BY <2>1, <2>2, <2>3 DEF Arrives
<1> QED
  BY <1>1, <1>2, <1>3, <1>4, <1>5

\* Where the handlers of mail go on.
LEMMA MailMoves ==
  ASSUME TypeInv, NEW r \in Reqs, ~Answer(r),
         \/ ReplyInbox(r) \/ ReplyThread(r) \/ ReplyPeers(r) \/ CloseThread(r) \/ DeleteThread(r)
         \/ DeleteListMessages(r) \/ DeleteListPayloads(r) \/ DeleteInboxes(r)
  PROVE  \E q : Becomes(r, q) /\ Continues(req[r], q)
<1> DEFINE p == req[r]
<1>1. p \in Request /\ Placed(p)
  BY ReqType
<1>2. CASE ReplyInbox(r)
  <2>1. PICK role, q :
          /\ p.op = "reply" /\ p.pc = "inbox" /\ q = [p EXCEPT !.pc = "thread", !.own = role]
          /\ Becomes(r, q)
    BY <1>2 DEF ReplyInbox, At
  <2> HIDE DEF p
  <2>2. /\ q.op = p.op /\ q.user = p.user /\ q.tid = p.tid /\ q.key = p.key /\ q.late = p.late
        /\ q.pc = "thread" /\ q.snap = p.snap /\ q.prop = p.prop
    BY <1>1, <2>1 DEF Request
  <2>3. Continues(p, q)
    BY <2>1, <2>2 DEF Continues, JustRead, HoldsProposal
  <2> QED
    BY <2>1, <2>3 DEF p
<1>3. CASE ReplyThread(r)
  <2>1. PICK wire, to :
          /\ p.op = "reply" /\ p.pc = "thread"
          /\ ReplyAllowed(p, thread[p.tid], wire, to)
          /\ Becomes(r, [p EXCEPT !.pc = "peers", !.snap = thread[p.tid], !.to = to])
    BY <1>3 DEF ReplyThread, At
  <2> HIDE DEF p
  <2>2. PICK row, q :
          row = thread[p.tid] /\ q = [p EXCEPT !.pc = "peers", !.snap = row, !.to = to]
    OBVIOUS
  <2>3. /\ q.op = p.op /\ q.user = p.user /\ q.tid = p.tid /\ q.key = p.key /\ q.late = p.late
        /\ q.pc = "peers" /\ q.snap = row /\ q.prop = p.prop
    BY <1>1, <2>2 DEF Request
  <2>4. row # Absent
    BY <2>1, <2>2 DEF ReplyAllowed
  <2>5. Continues(p, q)
    BY <2>1, <2>2, <2>3, <2>4 DEF Continues, JustRead, HoldsProposal
  <2> QED
    BY <2>1, <2>2, <2>5 DEF p
<1>4. CASE ReplyPeers(r)
  <2>1. PICK peers, q :
          /\ p.op = "reply" /\ p.pc = "peers"
          /\ peers = [v \in Users |->
                 IF v \in PeerCandidates(p.snap) THEN Role(v, p.tid) ELSE Absent]
          /\ q = [p EXCEPT !.pc = "commit", !.peers = peers]
          /\ Becomes(r, q)
    BY <1>4 DEF ReplyPeers, At
  <2> HIDE DEF p
  <2>2. /\ q.op = p.op /\ q.user = p.user /\ q.tid = p.tid /\ q.key = p.key /\ q.late = p.late
        /\ q.pc = "commit" /\ q.snap = p.snap /\ q.prop = p.prop /\ q.peers = peers
    BY <1>1, <2>1 DEF Request
  <2>3. Continues(p, q)
    BY <2>1, <2>2 DEF Continues, JustRead, HoldsProposal
  <2> QED
    BY <2>1, <2>3 DEF p
<1>5. CASE CloseThread(r) \/ DeleteThread(r)
  <2>1. PICK row, pc, q :
          /\ p.op \in {"close", "delete"} /\ p.pc = "thread" /\ row = thread[p.tid]
          /\ \/ p.op = "close" /\ pc = "commit" /\ row # Absent
             \/ p.op = "delete" /\ pc = "drop"
             \/ p.op = "delete" /\ pc = "listMessages" /\ row # Absent /\ row.from = p.user
          /\ q = [p EXCEPT !.pc = pc, !.snap = row]
          /\ Becomes(r, q)
    BY <1>5 DEF CloseThread, DeleteThread, At
  <2> HIDE DEF p
  <2>2. /\ q.op = p.op /\ q.user = p.user /\ q.tid = p.tid /\ q.key = p.key /\ q.late = p.late
        /\ q.pc = pc /\ q.snap = row /\ q.prop = p.prop
    BY <1>1, <2>1 DEF Request
  <2>3. Continues(p, q)
    BY <2>1, <2>2 DEF Continues, JustRead, HoldsProposal
  <2> QED
    BY <2>1, <2>3 DEF p
<1>6. CASE DeleteListMessages(r) \/ DeleteListPayloads(r)
  <2>1. PICK pc, listed, records, q :
          /\ p.op = "delete"
          /\ \/ /\ p.pc = "listMessages" /\ pc = "listPayloads"
                /\ listed = {m.id : m \in In(p.tid)}
                /\ q = [p EXCEPT !.pc = pc, !.listed = listed]
             \/ /\ p.pc = "listPayloads" /\ pc = "dropInboxes"
                /\ records = {i \in Ids : <<p.tid, i>> \in payloads}
                /\ q = [p EXCEPT !.pc = pc, !.records = records]
          /\ Becomes(r, q)
    BY <1>6 DEF DeleteListMessages, DeleteListPayloads, At, In
  <2> HIDE DEF p
  <2>2. /\ q.op = p.op /\ q.user = p.user /\ q.tid = p.tid /\ q.key = p.key /\ q.late = p.late
        /\ q.pc = pc /\ q.snap = p.snap /\ q.prop = p.prop
        /\ pc = "listPayloads" => q.listed = listed
        /\ pc = "dropInboxes" => q.listed = p.listed /\ q.records = records
    BY <1>1, <2>1 DEF Request
  <2>3. Continues(p, q)
    BY <2>1, <2>2 DEF Continues, JustRead, HoldsProposal
  <2> QED
    BY <2>1, <2>3 DEF p
<1>7. CASE DeleteInboxes(r)
  <2>1. PICK q :
          /\ p.op = "delete" /\ p.pc = "dropInboxes" /\ q = [p EXCEPT !.pc = "dropBody"]
          /\ inbox' = [v \in Users |->
               IF v \in {p.user} \cup Members(OrgOf[p.user])
               THEN [inbox[v] EXCEPT ![p.tid] = Absent] ELSE inbox[v]]
          /\ Becomes(r, q)
    BY <1>7 DEF DeleteInboxes, At
  <2> HIDE DEF p
  <2>2. /\ q.op = p.op /\ q.user = p.user /\ q.tid = p.tid /\ q.key = p.key /\ q.late = p.late
        /\ q.pc = "dropBody" /\ q.snap = p.snap /\ q.prop = p.prop
        /\ q.listed = p.listed /\ q.records = p.records
    BY <1>1, <2>1 DEF Request
  <2>3. \A v \in {p.user} \cup Members(OrgOf[p.user]) : v \in Users => inbox'[v][p.tid] = Absent
    BY <1>1, <2>1 DEF TypeInv, TypeOK, Placed
  <2>4. Continues(p, q)
    BY <2>1, <2>2, <2>3 DEF Continues, JustRead, HoldsProposal
  <2> QED
    BY <2>1, <2>4 DEF p
<1> QED
  BY <1>2, <1>3, <1>4, <1>5, <1>6, <1>7

\* Where the handlers of downgrade consent go on.
LEMMA ConsentMoves ==
  ASSUME TypeInv, NEW r \in Reqs, ~Answer(r),
         \/ LoadThread(r) \/ ProposeCheck(r) \/ ProposePersist(r)
         \/ ApproveProposal(r) \/ DenyProposal(r) \/ FinalizeInbox(r)
  PROVE  \E q : Becomes(r, q) /\ Continues(req[r], q)
<1> DEFINE p == req[r]
<1>1. p \in Request /\ Placed(p) /\ Known(p)
  BY ReqType DEF TypeInv, Known
<1>2. CASE LoadThread(r)
  <2>1. PICK row, pc, q :
          /\ p.op \in Consent /\ p.pc = "thread" /\ row = thread[p.tid] /\ row # Absent
          /\ pc \in {"check", "proposal"}
          /\ q = [p EXCEPT !.snap = row, !.pc = pc] /\ Becomes(r, q)
    BY <1>2 DEF LoadThread, Consent
  <2> HIDE DEF p
  <2>2. /\ q.op = p.op /\ q.user = p.user /\ q.tid = p.tid /\ q.key = p.key /\ q.late = p.late
        /\ q.pc = pc /\ q.snap = row
    BY <1>1, <2>1 DEF Request
  <2>3. Continues(p, q)
    BY <2>1, <2>2 DEF Continues, JustRead, HoldsProposal, Consent
  <2> QED
    BY <2>1, <2>3 DEF p
<1>3. CASE ProposeCheck(r)
  <2>1. /\ p.op = "propose" /\ p.pc = "check"
        /\ Proposable(p.user, p.tid, p.snap, p.agent)
        /\ Becomes(r, [p EXCEPT !.pc = "persist",
               !.prop = [thread |-> p.tid, agent |-> p.agent, proposer |-> p.user,
                         status |-> "pending", required |-> Approvers(p.tid, p.snap),
                         approvals |-> {a \in Approvers(p.tid, p.snap) : Owner(a) = p.user},
                         divider |-> Absent]])
    BY <1>3 DEF ProposeCheck, At
  <2> HIDE DEF p
  <2>2. PICK prop, q :
          /\ prop = [thread |-> p.tid, agent |-> p.agent, proposer |-> p.user,
                     status |-> "pending", required |-> Approvers(p.tid, p.snap),
                     approvals |-> {a \in Approvers(p.tid, p.snap) : Owner(a) = p.user},
                     divider |-> Absent]
          /\ q = [p EXCEPT !.pc = "persist", !.prop = prop]
    OBVIOUS
  <2>3. prop.agent = p.agent /\ prop.status = "pending"
    BY <2>2
  <2>4. prop \in ProposalRow
    BY <1>1, <2>1, <2>2 DEF Placed, ProposalRow, Approvers
  <2>5. /\ q.op = p.op /\ q.user = p.user /\ q.tid = p.tid /\ q.key = p.key /\ q.late = p.late
        /\ q.pc = "persist" /\ q.snap = p.snap /\ q.prop = prop
    BY <1>1, <2>2 DEF Request
  <2>6. Continues(p, q)
    BY <2>1, <2>3, <2>4, <2>5 DEF Continues, JustRead, HoldsProposal
  <2> QED
    BY <2>1, <2>2, <2>6 DEF p
<1>4. CASE ProposePersist(r)
  <2>1. /\ p.op = "propose" /\ p.pc = "persist"
        /\ Becomes(r, [p EXCEPT !.pc = "ownerInbox", !.pid = nextId])
    BY <1>4 DEF ProposePersist, At
  <2> HIDE DEF p
  <2>2. PICK n, q : n = nextId /\ q = [p EXCEPT !.pc = "ownerInbox", !.pid = n]
    OBVIOUS
  <2>3. /\ q.op = p.op /\ q.user = p.user /\ q.tid = p.tid /\ q.key = p.key /\ q.late = p.late
        /\ q.pc = "ownerInbox" /\ q.snap = p.snap /\ q.prop = p.prop
    BY <1>1, <2>2 DEF Request
  <2>4. Continues(p, q)
    BY <2>1, <2>3 DEF Continues, JustRead, HoldsProposal
  <2> QED
    BY <2>1, <2>2, <2>4 DEF p
<1>5. CASE ApproveProposal(r) \/ DenyProposal(r)
  <2>1. PICK prop, pc, q :
          /\ p.op \in {"approve", "deny"} /\ pc \in {"ownerInbox", "save"}
          /\ prop = proposals[p.pid] /\ prop.status = "pending"
          /\ q = [p EXCEPT !.prop = prop, !.pc = pc]
          /\ Becomes(r, q)
    BY <1>5 DEF ApproveProposal, DenyProposal, At
  <2> HIDE DEF p
  <2>2. /\ q.op = p.op /\ q.user = p.user /\ q.tid = p.tid /\ q.key = p.key /\ q.late = p.late
        /\ q.pc = pc /\ q.snap = p.snap /\ q.prop = prop
    BY <1>1, <2>1 DEF Request
  <2>3. prop \in ProposalRow /\ p.pc # "idle"
    BY <1>1, <1>5, <2>1 DEF Known, p, ApproveProposal, DenyProposal, At
  <2>4. Continues(p, q)
    BY <2>1, <2>2, <2>3 DEF Continues, JustRead, HoldsProposal
  <2> QED
    BY <2>1, <2>4 DEF p
<1>6. CASE FinalizeInbox(r)
  <2>1. PICK owner, q :
          /\ p.pc = "ownerInbox" /\ q = [p EXCEPT !.pc = "finalize", !.owner = owner]
          /\ Becomes(r, q)
    BY <1>6 DEF FinalizeInbox
  <2> HIDE DEF p
  <2>2. /\ q.op = p.op /\ q.user = p.user /\ q.tid = p.tid /\ q.key = p.key /\ q.late = p.late
        /\ q.pc = "finalize" /\ q.snap = p.snap /\ q.prop = p.prop
    BY <1>1, <2>1 DEF Request
  <2>3. p.op \in Consent
    BY <1>1, <2>1 DEF Placed
  <2>4. Continues(p, q)
    BY <2>1, <2>2, <2>3 DEF Continues, JustRead, HoldsProposal, Consent
  <2> QED
    BY <2>1, <2>4 DEF p
<1> QED
  BY <1>2, <1>3, <1>4, <1>5, <1>6

\* Every step answers, takes a new request or continues one.
LEMMA StepMoves ==
  ASSUME TypeInv, NEW r \in Reqs, MailStep(r) \/ ConsentStep(r) \/ Crash(r)
  PROVE  \E q : Becomes(r, q) /\ (q = Idle \/ Arrives(q) \/ Continues(req[r], q))
<1>1. CASE Answer(r)
  BY <1>1 DEF Answer
<1>2. CASE Crash(r)
  BY <1>1, <1>2 DEF Crash
<1>3. CASE MailStep(r) /\ ~Answer(r)
  BY <1>3, StartMoves, MailMoves DEF MailStep, CreateCommit, ReplyCommit, CloseCommit, DeleteDrop,
     DeleteBody
<1>4. CASE ConsentStep(r) /\ ~Answer(r)
  BY <1>4, StartMoves, ConsentMoves DEF ConsentStep, ApproveSave, DenySave, FinalizeCommit
<1> QED
  BY <1>1, <1>2, <1>3, <1>4



-----------------------------------------------------------------------------
(* A proposal belongs to one thread for good, and a request that approves, *)
(* denies or finalizes it works on that thread.  Commits replace the row of *)
(* a proposal by the copy a request holds, so this is said of copies too;   *)
(* and a new proposal replaces none, because ids are fresh.                 *)

\* Stored proposal i is one for thread t.
ProposalFor(P, i, t) == P[i] \in ProposalRow /\ P[i].thread = t

\* The proposal that a request names, and the copy it holds, are for its thread.
Tied(P, q) ==
  /\ q.pid # Absent => q.pid \in Ids /\ ProposalFor(P, q.pid, q.tid)
  /\ q.prop # Absent => q.prop.thread = q.tid

\* No proposal has an id yet to be given.
FreshProposals(P, n) == \A i \in Ids : i >= n => P[i] = Absent

TieInv ==
  /\ FreshProposals(proposals, nextId)
  /\ \A r \in Reqs : Tied(proposals, req[r])

\* A step of one request, in which no stored proposal changes its thread.
LEMMA TieKept ==
  ASSUME TypeInv, TieInv, NEW r \in Reqs, NEW q, Becomes(r, q), Tied(proposals', q),
         FreshProposals(proposals', nextId'),
         \A i, t \in Ids : ProposalFor(proposals, i, t) => ProposalFor(proposals', i, t)
  PROVE  TieInv'
<1>1. ASSUME NEW s \in Reqs PROVE Tied(proposals', req'[s])
  <2>1. req' = [req EXCEPT ![r] = q] /\ req \in [Reqs -> Request]
    BY DEF Becomes, TypeInv, TypeOK
  <2>2. CASE s = r
    BY <2>1, <2>2
  <2>3. CASE s # r
    <3>1. req'[s] = req[s] /\ Tied(proposals, req[s])
      BY <2>1, <2>3 DEF TieInv
    <3>2. \A i, t : ProposalFor(proposals, i, t) /\ i \in Ids => t \in Ids
      BY DEF ProposalFor, ProposalRow
    <3> QED
      BY <3>1, <3>2 DEF Tied
  <2> QED
    BY <2>2, <2>3
<1> QED
  BY <1>1 DEF TieInv

\* A request without a proposal is tied to nothing.
LEMMA LooseTied ==
  ASSUME NEW P, NEW q, q.pid = Absent, q.prop = Absent
  PROVE  Tied(P, q)
BY DEF Tied

\* A later id is fresh too.
LEMMA FreshLater ==
  ASSUME TypeInv, TieInv, UNCHANGED proposals, nextId' \in {nextId, nextId + 1}
  PROVE  FreshProposals(proposals', nextId')
BY DirectoryAssumption DEF FreshProposals, TieInv, TypeInv, TypeOK, Ids

\* A step that leaves proposals alone and keeps what the request named.
LEMMA TieCarried ==
  ASSUME TypeInv, TieInv, NEW r \in Reqs, NEW q, Becomes(r, q), UNCHANGED proposals,
         nextId' \in {nextId, nextId + 1},
         \/ q.pid = req[r].pid /\ q.tid = req[r].tid /\ q.prop = req[r].prop
         \/ q.pid = Absent /\ q.prop = Absent
  PROVE  TieInv'
<1>1. Tied(proposals', q)
  BY LooseTied DEF TieInv, Tied
<1> QED
  BY <1>1, TieKept, FreshLater

\* A step that answers.
LEMMA TieAnswer ==
  ASSUME TypeInv, TieInv, NEW r \in Reqs, Answer(r), UNCHANGED proposals,
         nextId' \in {nextId, nextId + 1}
  PROVE  TieInv'
BY TieCarried DEF Answer, Idle

\* A request that has just come in names no proposal, unless it is to approve
\* or deny one.
LEMMA StartTie ==
  ASSUME TypeInv, TieInv, NEW r \in Reqs,
         CreateStart(r) \/ ReplyStart(r) \/ CloseStart(r) \/ DeleteStart(r) \/ ProposeStart(r)
  PROVE  TieInv'
<1>0. Idle.pid = Absent /\ Idle.prop = Absent
  BY DEF Idle
<1>1. CASE CreateStart(r)
  <2>1. PICK u, a, to, key, q :
          /\ q = [Idle EXCEPT !.op = "create", !.pc = "commit", !.user = u,
                              !.agent = a, !.to = to, !.key = key]
          /\ Becomes(r, q) /\ UNCHANGED <<rows, history>>
    BY <1>1 DEF CreateStart
  <2>2. q.pid = Absent /\ q.prop = Absent
    BY <1>0, <2>1, IdleRequest DEF Request
  <2> QED
    BY <2>1, <2>2, TieCarried DEF rows
<1>2. CASE ReplyStart(r)
  <2>1. PICK u, a, t, key, late, q :
          /\ q = [Idle EXCEPT !.op = "reply", !.pc = "inbox", !.user = u, !.tid = t,
                              !.agent = a, !.key = key, !.late = late]
          /\ Becomes(r, q) /\ UNCHANGED <<rows, history>>
    BY <1>2 DEF ReplyStart
  <2>2. q.pid = Absent /\ q.prop = Absent
    BY <1>0, <2>1, IdleRequest DEF Request
  <2> QED
    BY <2>1, <2>2, TieCarried DEF rows
<1>3. CASE CloseStart(r) \/ DeleteStart(r)
  <2>1. PICK u, t, op, q :
          /\ q = [Idle EXCEPT !.op = op, !.pc = "thread", !.user = u, !.tid = t]
          /\ Becomes(r, q) /\ UNCHANGED <<rows, history>>
    BY <1>3 DEF CloseStart, DeleteStart
  <2>2. q.pid = Absent /\ q.prop = Absent
    BY <1>0, <2>1, IdleRequest DEF Request
  <2> QED
    BY <2>1, <2>2, TieCarried DEF rows
<1>4. CASE ProposeStart(r)
  <2>1. PICK u, t, w, q :
          /\ q = [Idle EXCEPT !.op = "propose", !.pc = "thread", !.user = u, !.tid = t, !.agent = w]
          /\ Becomes(r, q) /\ UNCHANGED <<rows, history>>
    BY <1>4 DEF ProposeStart
  <2>2. q.pid = Absent /\ q.prop = Absent
    BY <1>0, <2>1, IdleRequest DEF Request
  <2> QED
    BY <2>1, <2>2, TieCarried DEF rows
<1> QED
  BY <1>1, <1>2, <1>3, <1>4

\* A request to approve or deny is for the thread of the proposal it names.
LEMMA NameTie ==
  ASSUME TypeInv, TieInv, NEW r \in Reqs, NEW u \in Users, NEW i \in Ids,
         ApproveStart(r, u, i) \/ DenyStart(r, u, i)
  PROVE  TieInv'
<1>1. PICK op, t, q :
        /\ t = proposals[i].thread
        /\ q = [Idle EXCEPT !.op = op, !.pc = "thread", !.user = u, !.tid = t, !.pid = i]
        /\ Becomes(r, q) /\ UNCHANGED rows
  BY DEF ApproveStart, DenyStart
<1>2. proposals[i] \in ProposalRow
  BY DEF ApproveStart, DenyStart, TypeInv, TypeOK
<1>3. Idle.prop = Absent
  BY DEF Idle
<1>4. q.pid = i /\ q.tid = t /\ q.prop = Absent
  BY <1>1, <1>3, IdleRequest DEF Request
<1>5. Tied(proposals, q)
  BY <1>1, <1>2, <1>4 DEF Tied, ProposalFor
<1> QED
  BY <1>1, <1>5, TieKept, FreshLater DEF rows

\* Reads that change neither the proposal a request names nor the one it holds.
LEMMA ReadTie ==
  ASSUME TypeInv, TieInv, NEW r \in Reqs, ~Answer(r),
         \/ ReplyInbox(r) \/ ReplyThread(r) \/ ReplyPeers(r) \/ CloseThread(r)
         \/ DeleteThread(r) \/ DeleteListMessages(r) \/ DeleteListPayloads(r)
         \/ LoadThread(r) \/ FinalizeInbox(r)
  PROVE  TieInv'
<1> DEFINE p == req[r]
<1>1. p \in Request
  BY ReqType
<1>2. PICK pc, q :
        /\ \/ \E role : q = [p EXCEPT !.pc = pc, !.own = role]
           \/ \E row, to : q = [p EXCEPT !.pc = pc, !.snap = row, !.to = to]
           \/ \E peers : q = [p EXCEPT !.pc = pc, !.peers = peers]
           \/ \E row : q = [p EXCEPT !.pc = pc, !.snap = row]
           \/ \E listed : q = [p EXCEPT !.pc = pc, !.listed = listed]
           \/ \E records : q = [p EXCEPT !.pc = pc, !.records = records]
           \/ \E row : q = [p EXCEPT !.snap = row, !.pc = pc]
           \/ \E owner : q = [p EXCEPT !.pc = pc, !.owner = owner]
        /\ Becomes(r, q) /\ UNCHANGED <<rows, history>>
  <2>1. CASE ReplyInbox(r)
    BY <2>1 DEF ReplyInbox
  <2>2. CASE ReplyThread(r)
    <3>1. PICK wire, to :
            /\ ReplyAllowed(p, thread[p.tid], wire, to)
            /\ Becomes(r, [p EXCEPT !.pc = "peers", !.snap = thread[p.tid], !.to = to])
            /\ UNCHANGED <<rows, history>>
      BY <2>2 DEF ReplyThread
    <3> QED
      BY <3>1
  <2>3. CASE ReplyPeers(r)
    BY <2>3 DEF ReplyPeers
  <2>4. CASE CloseThread(r)
    BY <2>4 DEF CloseThread
  <2>5. CASE DeleteThread(r) \/ DeleteListMessages(r) \/ DeleteListPayloads(r)
    BY <2>5 DEF DeleteThread, DeleteListMessages, DeleteListPayloads
  <2>6. CASE LoadThread(r)
    BY <2>6 DEF LoadThread
  <2>7. CASE FinalizeInbox(r)
    BY <2>7 DEF FinalizeInbox
  <2> QED
    BY <2>1, <2>2, <2>3, <2>4, <2>5, <2>6, <2>7
<1> HIDE DEF p
<1>3. q.pid = p.pid /\ q.tid = p.tid /\ q.prop = p.prop
  BY <1>1, <1>2 DEF Request
<1> QED
  BY <1>2, <1>3, TieCarried DEF rows, p

\* The guards of propose, approve and deny: the copy they go on with is for
\* the thread of the request.
LEMMA CheckTie ==
  ASSUME TypeInv, TieInv, NEW r \in Reqs, ~Answer(r),
         ProposeCheck(r) \/ ApproveProposal(r) \/ DenyProposal(r)
  PROVE  TieInv'
<1> DEFINE p == req[r]
<1>1. p \in Request /\ Placed(p) /\ Tied(proposals, p)
  BY ReqType DEF TieInv
<1>2. PICK pc, prop, q :
        /\ prop.thread = p.tid \/ (p.op \in {"approve", "deny"} /\ prop = proposals[p.pid])
        /\ q = [p EXCEPT !.pc = pc, !.prop = prop]
        /\ Becomes(r, q) /\ UNCHANGED <<rows, history>>
  <2>1. CASE ProposeCheck(r)
    <3>1. PICK required, own :
            /\ Becomes(r, [p EXCEPT !.pc = "persist",
                 !.prop = [thread |-> p.tid, agent |-> p.agent, proposer |-> p.user,
                           status |-> "pending", required |-> required, approvals |-> own,
                           divider |-> Absent]])
            /\ UNCHANGED <<rows, history>>
      BY <2>1, Zenon DEF ProposeCheck
    <3>2. PICK prop :
            /\ prop.thread = p.tid
            /\ Becomes(r, [p EXCEPT !.pc = "persist", !.prop = prop])
      BY <3>1
    <3> HIDE DEF p
    <3> QED
      BY <3>1, <3>2
  <2>2. CASE ApproveProposal(r) \/ DenyProposal(r)
    BY <2>2 DEF ApproveProposal, DenyProposal, At
  <2> QED
    BY <2>1, <2>2
<1> HIDE DEF p
<1>3. q.pid = p.pid /\ q.tid = p.tid /\ q.prop = prop
  BY <1>1, <1>2 DEF Request
<1>4. prop.thread = p.tid
  BY <1>1, <1>2, AbsentAssumption DEF Placed, Tied, ProposalFor
<1>5. Tied(proposals, q)
  BY <1>1, <1>3, <1>4 DEF Tied
<1> QED
  BY <1>2, <1>5, TieKept, FreshLater DEF rows

\* Commits of mail leave proposals and what requests hold of them alone.
LEMMA MailCommitTie ==
  ASSUME TypeInv, TieInv, NEW r \in Reqs,
         \/ CreateCommit(r) \/ ReplyCommit(r) \/ CloseCommit(r)
         \/ DeleteDrop(r) \/ DeleteInboxes(r) \/ DeleteBody(r)
  PROVE  TieInv'
<1>1. CASE CreateCommit(r)
  BY <1>1, TieAnswer DEF CreateCommit
<1>2. CASE ReplyCommit(r)
  BY <1>2, TieAnswer DEF ReplyCommit
<1>3. CASE CloseCommit(r) \/ DeleteDrop(r) \/ DeleteBody(r)
  BY <1>3, TieAnswer DEF CloseCommit, DeleteDrop, DeleteBody
<1>4. CASE DeleteInboxes(r)
  <2> DEFINE p == req[r]
  <2>1. p \in Request
    BY ReqType
  <2>2. PICK q : /\ q = [p EXCEPT !.pc = "dropBody"]
                 /\ Becomes(r, q) /\ UNCHANGED <<proposals, nextId>>
    BY <1>4 DEF DeleteInboxes
  <2> HIDE DEF p
  <2>3. q.pid = p.pid /\ q.tid = p.tid /\ q.prop = p.prop
    BY <2>1, <2>2 DEF Request
  <2> QED
    BY <2>2, <2>3, TieCarried DEF p
<1> QED
  BY <1>1, <1>2, <1>3, <1>4

\* A fresh id replaces no proposal.
LEMMA PersistTie ==
  ASSUME TypeInv, TieInv, NEW r \in Reqs, ProposePersist(r)
  PROVE  TieInv'
<1> DEFINE p == req[r]
<1>1. p \in Request /\ Placed(p) /\ Tied(proposals, p)
  BY ReqType DEF TieInv
<1>2. /\ p.pc = "persist" /\ nextId \in Ids /\ nextId' = nextId + 1
      /\ proposals' = [proposals EXCEPT ![nextId] = p.prop]
      /\ \/ Becomes(r, [p EXCEPT !.pc = "ownerInbox", !.pid = nextId])
         \/ Answer(r)
  BY DEF ProposePersist, At
<1> HIDE DEF p
<1>3. p.prop \in ProposalRow /\ p.prop.thread = p.tid
  BY <1>1, <1>2, AbsentAssumption DEF Placed, Tied
<1>4. nextId \in Nat /\ Ids \subseteq Nat
  BY <1>2, DirectoryAssumption DEF Ids
<1>5. proposals[nextId] = Absent
  BY <1>2, <1>4 DEF TieInv, FreshProposals
<1>6. /\ proposals'[nextId] = p.prop
      /\ \A i \in Ids : i # nextId => proposals'[i] = proposals[i]
  BY <1>2 DEF TypeInv, TypeOK
<1>7. FreshProposals(proposals', nextId')
  <2>1. \A i \in Ids : i >= nextId + 1 => i >= nextId /\ i # nextId
    BY <1>4
  <2> QED
    BY <1>2, <1>6, <2>1 DEF TieInv, FreshProposals
<1>8. \A i, t \in Ids : ProposalFor(proposals, i, t) => ProposalFor(proposals', i, t)
  BY <1>5, <1>6, AbsentAssumption DEF ProposalFor
<1>9. CASE Answer(r)
  BY <1>7, <1>8, <1>9, TieKept, LooseTied DEF Answer, Idle
<1>10. CASE Becomes(r, [p EXCEPT !.pc = "ownerInbox", !.pid = nextId])
  <2>1. PICK q, id : q = [p EXCEPT !.pc = "ownerInbox", !.pid = id] /\ id = nextId
    OBVIOUS
  <2>2. q.pid = nextId /\ q.tid = p.tid /\ q.prop = p.prop
    BY <1>1, <2>1 DEF Request
  <2>3. Tied(proposals', q)
    BY <1>2, <1>3, <1>6, <2>2 DEF Tied, ProposalFor
  <2> QED
    BY <1>7, <1>8, <1>10, <2>1, <2>3, TieKept
<1> QED
  BY <1>2, <1>9, <1>10

\* Saving an approval or a denial, and finalizing, write back a copy that is
\* for the same thread as the row it replaces.
LEMMA SaveTie ==
  ASSUME TypeInv, TieInv, NEW r \in Reqs, ApproveSave(r) \/ DenySave(r) \/ FinalizeCommit(r)
  PROVE  TieInv'
<1> DEFINE p == req[r]
<1>1. p \in Request /\ Placed(p) /\ Tied(proposals, p)
  BY ReqType DEF TieInv
<1>2. PICK row, n :
        /\ p.pc \in {"save", "finalize"} /\ n = nextId
        /\ \/ row = [p.prop EXCEPT !.approvals = p.prop.approvals \cup Mine(p.prop, p.user)]
           \/ row = [p.prop EXCEPT !.status = "denied"]
           \/ /\ n \in Ids
              /\ row = [p.prop EXCEPT !.status = "approved", !.approvals = p.prop.required,
                                      !.divider = n]
        /\ proposals' = [proposals EXCEPT ![p.pid] = row]
        /\ nextId' \in {nextId, nextId + 1}
        /\ Answer(r)
  <2>1. CASE ApproveSave(r) \/ DenySave(r)
    BY <2>1 DEF ApproveSave, DenySave, At
  <2>2. CASE FinalizeCommit(r)
    BY <2>2 DEF FinalizeCommit
  <2> QED
    BY <2>1, <2>2
<1> HIDE DEF p
<1>3. p.pid \in Ids /\ p.prop \in ProposalRow
  BY <1>1, <1>2 DEF Placed
<1>4. p.prop.thread = p.tid /\ ProposalFor(proposals, p.pid, p.tid)
  BY <1>1, <1>3, AbsentAssumption DEF Tied
<1>5. row \in ProposalRow
  <2>1. p.prop.approvals \cup Mine(p.prop, p.user) \in SUBSET Agents
    BY <1>3 DEF ProposalRow, Mine
  <2>2. CASE n \in Ids /\ row = [p.prop EXCEPT !.status = "approved",
                                    !.approvals = p.prop.required, !.divider = n]
    BY <1>3, <2>2, ApprovedProposalType
  <2> QED
    BY <1>2, <1>3, <2>1, <2>2, ProposalFieldType
<1>6. row.thread = p.tid
  BY <1>2, <1>3, <1>4 DEF ProposalRow
<1>7. /\ proposals'[p.pid] = row
      /\ \A i \in Ids : i # p.pid => proposals'[i] = proposals[i]
  BY <1>2, <1>3 DEF TypeInv, TypeOK
<1>8. \A i, t \in Ids : ProposalFor(proposals, i, t) => ProposalFor(proposals', i, t)
  BY <1>4, <1>5, <1>6, <1>7 DEF ProposalFor
<1>9. FreshProposals(proposals', nextId')
  <2>1. nextId \in Nat /\ Ids \subseteq Nat
    BY DirectoryAssumption DEF TypeInv, TypeOK, Ids
  <2>2. \A i \in Ids : i >= nextId' => i >= nextId
    BY <1>2, <2>1
  <2>3. ~(p.pid >= nextId)
    BY <1>3, <1>4, AbsentAssumption DEF TieInv, FreshProposals, ProposalFor
  <2> QED
    BY <1>3, <1>7, <2>2, <2>3 DEF TieInv, FreshProposals
<1>10. Becomes(r, Idle) /\ Tied(proposals', Idle)
  BY <1>2, LooseTied DEF Answer, Idle
<1> QED
  BY <1>8, <1>9, <1>10, TieKept

\* At the start nothing is proposed.
LEMMA InitTie == Init => TieInv
BY LooseTied DEF Init, TieInv, FreshProposals, Idle

\* Every step of every handler keeps proposals tied to their threads.
LEMMA StepTie == TypeInv /\ TieInv /\ [Next]_vars => TieInv'
<1> SUFFICES ASSUME TypeInv, TieInv, [Next]_vars PROVE TieInv'
  OBVIOUS
<1>1. CASE UNCHANGED mail
  BY <1>1 DEF TieInv, mail
<1>2. ASSUME NEW r \in Reqs, Answer(r), UNCHANGED <<rows, history>> PROVE TieInv'
  BY <1>2, TieAnswer DEF rows
<1>3. ASSUME NEW r \in Reqs, MailStep(r) PROVE TieInv'
  <2>1. CASE Answer(r) /\ (ReplyInbox(r) \/ ReplyThread(r) \/ ReplyPeers(r) \/ CloseThread(r)
         \/ DeleteThread(r) \/ DeleteListMessages(r) \/ DeleteListPayloads(r))
    BY <2>1, <1>2 DEF ReplyInbox, ReplyThread, ReplyPeers, CloseThread, DeleteThread,
       DeleteListMessages, DeleteListPayloads
  <2> QED
    BY <1>3, <2>1, StartTie, ReadTie, MailCommitTie DEF MailStep
<1>4. ASSUME NEW r \in Reqs, ConsentStep(r) PROVE TieInv'
  <2>1. CASE Answer(r) /\ (LoadThread(r) \/ ProposeCheck(r) \/ ApproveProposal(r)
         \/ DenyProposal(r) \/ FinalizeInbox(r))
    BY <2>1, <1>2 DEF LoadThread, ProposeCheck, ApproveProposal, DenyProposal, FinalizeInbox
  <2> QED
    BY <1>4, <2>1, StartTie, NameTie, ReadTie, CheckTie, PersistTie, SaveTie DEF ConsentStep
<1>5. ASSUME NEW r \in Reqs, Crash(r) PROVE TieInv'
  BY <1>2, <1>5 DEF Crash
<1> QED
  BY <1>1, <1>3, <1>4, <1>5, Steps

\* Every proposal, stored or held by a request, stays with the thread it was
\* made for.
THEOREM ProposalInvariant == Spec => [](TypeInv /\ TieInv)
BY InitType, StepType, InitTie, StepTie, PTL DEF Spec

-----------------------------------------------------------------------------
(* Every divider and every approval was agreed on *)

\* The owners of all agents in `as` proposed or asked to approve proposal p for
\* thread t.
Agreed(C, as, p, t) == \A a \in as : [user |-> Owner(a), id |-> p, thread |-> t] \in C

\* The divider in a row of thread t was agreed on, by one proposal.
Backed(C, row, t) == row.point # Absent => \E p \in Ids : Agreed(C, row.point.approvers, p, t)

\* The places of a handler that still needs the thread row it read.
HoldsRow(q) ==
  \/ q.op = "reply" /\ q.pc \in {"peers", "commit"}
  \/ q.op = "close" /\ q.pc = "commit"
  \/ q.pc \in {"check", "persist", "proposal", "save", "ownerInbox", "finalize"}

\* What a request holds, however old, was agreed on.
Consenting(C, q) ==
  /\ HoldsRow(q) => Backed(C, q.snap, q.tid)
  /\ q.op = "approve" => [user |-> q.user, id |-> q.pid, thread |-> q.tid] \in C
  /\ q.pc = "persist" => \A a \in q.prop.approvals : Owner(a) = q.user
  /\ q.pc = "save" => Agreed(C, q.prop.approvals, q.pid, q.tid)
  /\ q.pc \in {"ownerInbox", "finalize"} => Agreed(C, q.prop.required, q.pid, q.tid)

ConsentInv ==
  /\ \A t \in Ids : thread[t] # Absent => Backed(consented, thread[t], t)
  /\ \A p \in Ids : proposals[p] \in ProposalRow =>
       Agreed(consented, proposals[p].approvals, p, proposals[p].thread)
  /\ \A r \in Reqs : Consenting(consented, req[r])

\* Consent once given is not taken back.
LEMMA AgreedGrows ==
  ASSUME NEW C, NEW D, C \subseteq D
  PROVE  /\ \A as, p, t : Agreed(C, as, p, t) => Agreed(D, as, p, t)
         /\ \A row, t : Backed(C, row, t) => Backed(D, row, t)
         /\ \A q : Consenting(C, q) => Consenting(D, q)
<1>1. \A as, p, t : Agreed(C, as, p, t) => Agreed(D, as, p, t)
  BY DEF Agreed
<1>2. \A row, t : Backed(C, row, t) => Backed(D, row, t)
  BY <1>1 DEF Backed
<1> QED
  BY <1>1, <1>2 DEF Consenting

\* A step of one request: the row and the proposal it writes, if any, are
\* agreed on, and so is what it goes on with.
LEMMA ConsentKept ==
  ASSUME TypeInv, ConsentInv, NEW r \in Reqs, NEW q, Becomes(r, q),
         consented \subseteq consented', Consenting(consented', q),
         \A t \in Ids : thread'[t] \in {Absent, thread[t]} \/ Backed(consented', thread'[t], t),
         \A p \in Ids : proposals'[p] = proposals[p]
                        \/ Agreed(consented', proposals'[p].approvals, p, proposals'[p].thread)
  PROVE  ConsentInv'
<1>1. ASSUME NEW t \in Ids, thread'[t] # Absent PROVE Backed(consented', thread'[t], t)
  BY <1>1, AgreedGrows DEF ConsentInv
<1>2. ASSUME NEW p \in Ids, proposals'[p] \in ProposalRow
      PROVE  Agreed(consented', proposals'[p].approvals, p, proposals'[p].thread)
  BY <1>2, AgreedGrows DEF ConsentInv
<1>3. ASSUME NEW s \in Reqs PROVE Consenting(consented', req'[s])
  <2>1. req' = [req EXCEPT ![r] = q] /\ req \in [Reqs -> Request]
    BY DEF Becomes, TypeInv, TypeOK
  <2>2. CASE s = r
    BY <2>1, <2>2
  <2>3. CASE s # r
    BY <2>1, <2>3, AgreedGrows DEF ConsentInv
  <2> QED
    BY <2>2, <2>3
<1> QED
  BY <1>1, <1>2, <1>3 DEF ConsentInv

\* The empty record of a request holds no proposal, so it owes no consent.
LEMMA IdleConsenting == \A C : Consenting(C, Idle)
BY IdlePlace DEF Consenting, HoldsRow

\* Requests without a thread row, and not asking to approve.
LEMMA PlainConsenting ==
  ASSUME NEW C, NEW q, q.op # "approve", ~HoldsRow(q)
  PROVE  Consenting(C, q)
BY DEF Consenting, HoldsRow

\* A step that reads.
LEMMA ConsentRead ==
  ASSUME TypeInv, ConsentInv, NEW r \in Reqs, NEW q, Becomes(r, q),
         UNCHANGED <<rows, history>>, Consenting(consented, q)
  PROVE  ConsentInv'
BY ConsentKept DEF rows, history

\* A step that answers and leaves threads and proposals alone.
LEMMA ConsentAnswer ==
  ASSUME TypeInv, ConsentInv, NEW r \in Reqs, Answer(r), UNCHANGED <<thread, proposals, consented>>
  PROVE  ConsentInv'
BY ConsentKept, IdleConsenting DEF Answer

(***************************************************************************)
(* A request that has just come in, other than an approval, holds no       *)
(* proposal yet.                                                           *)
(***************************************************************************)
LEMMA StartConsent ==
  ASSUME TypeInv, ConsentInv, NEW r \in Reqs,
         \/ CreateStart(r) \/ ReplyStart(r) \/ CloseStart(r) \/ DeleteStart(r) \/ ProposeStart(r)
         \/ \E u \in Users, p \in Ids : DenyStart(r, u, p)
  PROVE  ConsentInv'
<1>1. CASE CreateStart(r)
  <2>1. PICK u, a, to, key, q :
          /\ q = [Idle EXCEPT !.op = "create", !.pc = "commit", !.user = u,
                              !.agent = a, !.to = to, !.key = key]
          /\ Becomes(r, q) /\ UNCHANGED <<rows, history>>
    BY <1>1 DEF CreateStart
  <2>2. q.op = "create" /\ q.pc = "commit"
    BY <2>1, IdleRequest DEF Request
  <2> QED
    BY <2>1, <2>2, PlainConsenting, ConsentRead DEF HoldsRow
<1>2. CASE ReplyStart(r)
  <2>1. PICK u, a, t, key, late, q :
          /\ q = [Idle EXCEPT !.op = "reply", !.pc = "inbox", !.user = u, !.tid = t,
                              !.agent = a, !.key = key, !.late = late]
          /\ Becomes(r, q) /\ UNCHANGED <<rows, history>>
    BY <1>2 DEF ReplyStart
  <2>2. q.op = "reply" /\ q.pc = "inbox"
    BY <2>1, IdleRequest DEF Request
  <2> QED
    BY <2>1, <2>2, PlainConsenting, ConsentRead DEF HoldsRow
<1>3. CASE CloseStart(r) \/ DeleteStart(r)
  <2>1. PICK u, t, op, q :
          /\ u \in Users /\ t \in Ids /\ op \in {"close", "delete"}
          /\ q = [Idle EXCEPT !.op = op, !.pc = "thread", !.user = u, !.tid = t]
          /\ Becomes(r, q) /\ UNCHANGED <<rows, history>>
    BY <1>3 DEF CloseStart, DeleteStart
  <2>2. q.op \in {"close", "delete"} /\ q.pc = "thread"
    BY <2>1, IdleRequest DEF Request
  <2> QED
    BY <2>1, <2>2, PlainConsenting, ConsentRead DEF HoldsRow
<1>4. CASE ProposeStart(r)
  <2>1. PICK u, t, w, q :
          /\ q = [Idle EXCEPT !.op = "propose", !.pc = "thread", !.user = u, !.tid = t, !.agent = w]
          /\ Becomes(r, q) /\ UNCHANGED <<rows, history>>
    BY <1>4 DEF ProposeStart
  <2>2. q.op = "propose" /\ q.pc = "thread"
    BY <2>1, IdleRequest DEF Request
  <2> QED
    BY <2>1, <2>2, PlainConsenting, ConsentRead DEF HoldsRow
<1>5. ASSUME NEW u \in Users, NEW p \in Ids, DenyStart(r, u, p) PROVE ConsentInv'
  <2>1. PICK t, q :
          /\ q = [Idle EXCEPT !.op = "deny", !.pc = "thread", !.user = u, !.tid = t, !.pid = p]
          /\ Becomes(r, q) /\ UNCHANGED <<rows, history>>
    BY <1>5 DEF DenyStart
  <2>2. q.op = "deny" /\ q.pc = "thread"
    BY <2>1, IdleRequest DEF Request
  <2> QED
    BY <2>1, <2>2, PlainConsenting, ConsentRead DEF HoldsRow
<1> QED
  BY <1>1, <1>2, <1>3, <1>4, <1>5

\* Asking to approve is consent.
LEMMA ApproveStartConsent ==
  ASSUME TypeInv, ConsentInv, NEW r \in Reqs, NEW u \in Users, NEW p \in Ids, ApproveStart(r, u, p)
  PROVE  ConsentInv'
<1>1. PICK t, q :
        /\ q = [Idle EXCEPT !.op = "approve", !.pc = "thread", !.user = u, !.tid = t, !.pid = p]
        /\ Becomes(r, q)
        /\ consented' = consented \cup {[user |-> u, id |-> p, thread |-> t]}
        /\ UNCHANGED <<rows, overwritten, answered, denied>>
  BY DEF ApproveStart
<1>2. q.op = "approve" /\ q.pc = "thread" /\ q.user = u /\ q.pid = p /\ q.tid = t
  BY <1>1, IdleRequest DEF Request
<1>3. Consenting(consented', q)
  BY <1>1, <1>2 DEF Consenting, HoldsRow
<1> QED
  BY <1>1, <1>3, ConsentKept DEF rows

\* Reads of mail: the thread row read, or still held, was agreed on.
LEMMA MailReadConsent ==
  ASSUME TypeInv, ConsentInv, NEW r \in Reqs,
         \/ ReplyInbox(r) \/ ReplyThread(r) \/ ReplyPeers(r) \/ CloseThread(r)
         \/ DeleteThread(r) \/ DeleteListMessages(r) \/ DeleteListPayloads(r)
  PROVE  ConsentInv'
<1> DEFINE p == req[r]
<1>1. p \in Request /\ Placed(p) /\ Consenting(consented, p)
  BY ReqType DEF ConsentInv
<1>2. CASE Answer(r)
  BY <1>2, ConsentAnswer DEF ReplyInbox, ReplyThread, ReplyPeers, CloseThread, DeleteThread,
     DeleteListMessages, DeleteListPayloads, rows, history
<1>3. CASE ReplyInbox(r) /\ ~Answer(r)
  <2>1. PICK role, q :
          /\ p.op = "reply" /\ q = [p EXCEPT !.pc = "thread", !.own = role]
          /\ Becomes(r, q) /\ UNCHANGED <<rows, history>>
    BY <1>3 DEF ReplyInbox, At
  <2> HIDE DEF p
  <2>2. q.op = "reply" /\ q.pc = "thread"
    BY <1>1, <2>1 DEF Request
  <2> QED
    BY <2>1, <2>2, PlainConsenting, ConsentRead DEF HoldsRow
<1>4. CASE ReplyThread(r) /\ ~Answer(r)
  <2>1. PICK wire, to :
          /\ p.op = "reply" /\ p.pc = "thread"
          /\ ReplyAllowed(p, thread[p.tid], wire, to)
          /\ Becomes(r, [p EXCEPT !.pc = "peers", !.snap = thread[p.tid], !.to = to])
          /\ UNCHANGED <<rows, history>>
    BY <1>4 DEF ReplyThread, At
  <2> HIDE DEF p
  <2>2. PICK row, q :
          row = thread[p.tid] /\ q = [p EXCEPT !.pc = "peers", !.snap = row, !.to = to]
    OBVIOUS
  <2>3. q.op = "reply" /\ q.pc = "peers" /\ q.snap = row /\ q.tid = p.tid
    BY <1>1, <2>1, <2>2 DEF Request
  <2>4. Backed(consented, row, p.tid)
    BY <1>1, <2>1, <2>2 DEF ReplyAllowed, Placed, ConsentInv
  <2>5. Consenting(consented, q)
    BY <2>3, <2>4 DEF Consenting
  <2> QED
    BY <2>1, <2>2, <2>5, ConsentRead
<1>5. CASE ReplyPeers(r)
  <2>1. PICK peers, q :
          /\ p.op = "reply" /\ p.pc = "peers" /\ q = [p EXCEPT !.pc = "commit", !.peers = peers]
          /\ Becomes(r, q) /\ UNCHANGED <<rows, history>>
    BY <1>5 DEF ReplyPeers, At
  <2> HIDE DEF p
  <2>2. q.op = "reply" /\ q.pc = "commit" /\ q.snap = p.snap /\ q.tid = p.tid
    BY <1>1, <2>1 DEF Request
  <2>3. Consenting(consented, q)
    BY <1>1, <2>1, <2>2 DEF Consenting, HoldsRow
  <2> QED
    BY <2>1, <2>3, ConsentRead
<1>6. CASE CloseThread(r) /\ ~Answer(r)
  <2>1. PICK row, q :
          /\ p.op = "close" /\ p.pc = "thread"
          /\ row = thread[p.tid] /\ row # Absent /\ q = [p EXCEPT !.pc = "commit", !.snap = row]
          /\ Becomes(r, q) /\ UNCHANGED <<rows, history>>
    BY <1>6 DEF CloseThread, At
  <2> HIDE DEF p
  <2>2. q.op = "close" /\ q.pc = "commit" /\ q.snap = row /\ q.tid = p.tid
    BY <1>1, <2>1 DEF Request
  <2>3. Backed(consented, row, p.tid)
    BY <1>1, <2>1 DEF Placed, ConsentInv
  <2>4. Consenting(consented, q)
    BY <2>2, <2>3 DEF Consenting
  <2> QED
    BY <2>1, <2>4, ConsentRead
<1>7. CASE (DeleteThread(r) \/ DeleteListMessages(r) \/ DeleteListPayloads(r)) /\ ~Answer(r)
  <2>1. PICK pc, row, listed, records, q :
          /\ p.op = "delete" /\ pc \in {"drop", "listMessages", "listPayloads", "dropInboxes"}
          /\ \/ q = [p EXCEPT !.pc = pc, !.snap = row]
             \/ q = [p EXCEPT !.pc = pc, !.listed = listed]
             \/ q = [p EXCEPT !.pc = pc, !.records = records]
          /\ Becomes(r, q) /\ UNCHANGED <<rows, history>>
    BY <1>7 DEF DeleteThread, DeleteListMessages, DeleteListPayloads, At
  <2> HIDE DEF p
  <2>2. q.op = "delete" /\ q.pc \in {"drop", "listMessages", "listPayloads", "dropInboxes"}
    BY <1>1, <2>1 DEF Request
  <2> QED
    BY <2>1, <2>2, PlainConsenting, ConsentRead DEF HoldsRow
<1> QED
  BY <1>2, <1>3, <1>4, <1>5, <1>6, <1>7

\* Reads of consent: a proposal holds agreed approvals; with the caller's own
\* it is finalized only when everybody required agreed.
LEMMA LoadThreadConsent ==
  ASSUME TypeInv, ConsentInv, NEW r \in Reqs, LoadThread(r), ~Answer(r)
  PROVE  ConsentInv'
<1> DEFINE p == req[r]
<1>1. p \in Request /\ Placed(p) /\ Consenting(consented, p)
  BY ReqType DEF ConsentInv
<1>2. PICK pc, row, q :
        /\ p.op \in Consent /\ p.pc = "thread" /\ pc \in {"check", "proposal"}
        /\ row = thread[p.tid] /\ row # Absent /\ q = [p EXCEPT !.snap = row, !.pc = pc]
        /\ Becomes(r, q) /\ UNCHANGED <<rows, history>>
  BY DEF LoadThread, Consent
<1> HIDE DEF p
<1>3. q.op = p.op /\ q.pc = pc /\ q.snap = row /\ q.tid = p.tid /\ q.user = p.user /\ q.pid = p.pid
  BY <1>1, <1>2 DEF Request
<1>4. Backed(consented, row, p.tid)
  BY <1>1, <1>2 DEF Placed, ConsentInv
<1>5. Consenting(consented, q)
  BY <1>1, <1>2, <1>3, <1>4 DEF Consenting
<1> QED
  BY <1>2, <1>5, ConsentRead

\* propose makes a proposal that only its proposer's own agents have approved.
LEMMA ProposeCheckConsent ==
  ASSUME TypeInv, ConsentInv, NEW r \in Reqs, ProposeCheck(r), ~Answer(r)
  PROVE  ConsentInv'
<1> DEFINE p == req[r]
<1>1. p \in Request /\ Placed(p) /\ Consenting(consented, p)
  BY ReqType DEF ConsentInv
<1>2. PICK required, prop, q :
        /\ p.op = "propose" /\ p.pc = "check"
        /\ prop = [thread |-> p.tid, agent |-> p.agent, proposer |-> p.user,
                   status |-> "pending", required |-> required,
                   approvals |-> {a \in required : Owner(a) = p.user}, divider |-> Absent]
        /\ q = [p EXCEPT !.pc = "persist", !.prop = prop]
        /\ Becomes(r, q) /\ UNCHANGED <<rows, history>>
  BY DEF ProposeCheck, At
<1> HIDE DEF p
<1>3. q.op = "propose" /\ q.pc = "persist" /\ q.snap = p.snap /\ q.tid = p.tid
      /\ q.user = p.user /\ q.prop = prop
  BY <1>1, <1>2 DEF Request
<1>4. \A a \in prop.approvals : Owner(a) = p.user
  BY <1>2
<1>5. Consenting(consented, q)
  BY <1>1, <1>2, <1>3, <1>4 DEF Consenting, HoldsRow
<1> QED
  BY <1>2, <1>5, ConsentRead

\* The stored proposal that a request names is for its thread.
LEMMA NamedProposal ==
  ASSUME TieInv, NEW r \in Reqs, req[r].pid \in Ids
  PROVE  proposals[req[r].pid].thread = req[r].tid
BY AbsentAssumption DEF TieInv, Tied, ProposalFor

\* So is the copy that it holds.
LEMMA HeldProposal ==
  ASSUME TieInv, NEW r \in Reqs, req[r].prop \in ProposalRow
  PROVE  req[r].prop.thread = req[r].tid
BY AbsentAssumption DEF TieInv, Tied

\* approve reads a stored proposal and adds to it only its own user.
LEMMA ApproveProposalConsent ==
  ASSUME TypeInv, TieInv, ConsentInv, NEW r \in Reqs, ApproveProposal(r), ~Answer(r)
  PROVE  ConsentInv'
<1> DEFINE p == req[r]
<1>1. p \in Request /\ Placed(p) /\ Known(p) /\ Consenting(consented, p)
  BY ReqType DEF TypeInv, ConsentInv
<1>2. PICK prop, updated, pc, q :
        /\ p.op = "approve" /\ p.pc = "proposal"
        /\ prop = proposals[p.pid]
        /\ updated = [prop EXCEPT !.approvals = prop.approvals \cup Mine(prop, p.user)]
        /\ pc = IF IsUnanimous(updated) THEN "ownerInbox" ELSE "save"
        /\ q = [p EXCEPT !.prop = prop, !.pc = pc]
        /\ Becomes(r, q) /\ UNCHANGED <<rows, history>>
  BY DEF ApproveProposal, At
<1> HIDE DEF p
<1>3. q.op = "approve" /\ q.pc = pc /\ q.snap = p.snap /\ q.tid = p.tid /\ q.user = p.user
      /\ q.pid = p.pid
      /\ q.prop = prop
  BY <1>1, <1>2 DEF Request
<1>4. p.pid \in Ids /\ prop \in ProposalRow
  BY <1>1, <1>2 DEF Placed, Known
<1>5. Agreed(consented, prop.approvals, p.pid, p.tid)
  BY <1>2, <1>4, NamedProposal DEF ConsentInv, p
<1>6. pc = "ownerInbox" => Agreed(consented, prop.required, p.pid, p.tid)
  <2>1. updated.required = prop.required
        /\ updated.approvals = prop.approvals \cup Mine(prop, p.user)
    BY <1>2, <1>4 DEF ProposalRow
  <2>2. [user |-> p.user, id |-> p.pid, thread |-> p.tid] \in consented
    BY <1>1, <1>2 DEF Consenting
  <2> QED
    BY <1>2, <1>5, <2>1, <2>2 DEF Agreed, Mine, IsUnanimous
<1>7. Consenting(consented, q)
  BY <1>1, <1>2, <1>3, <1>5, <1>6 DEF Consenting, HoldsRow
<1> QED
  BY <1>2, <1>7, ConsentRead

\* deny reads a stored proposal and adds no approval to it.
LEMMA DenyProposalConsent ==
  ASSUME TypeInv, TieInv, ConsentInv, NEW r \in Reqs, DenyProposal(r), ~Answer(r)
  PROVE  ConsentInv'
<1> DEFINE p == req[r]
<1>1. p \in Request /\ Placed(p) /\ Known(p) /\ Consenting(consented, p)
  BY ReqType DEF TypeInv, ConsentInv
<1>2. PICK prop, q :
        /\ p.op = "deny" /\ p.pc = "proposal"
        /\ prop = proposals[p.pid] /\ q = [p EXCEPT !.prop = prop, !.pc = "save"]
        /\ Becomes(r, q) /\ UNCHANGED <<rows, history>>
  BY DEF DenyProposal, At
<1> HIDE DEF p
<1>3. q.op = "deny" /\ q.pc = "save" /\ q.snap = p.snap /\ q.tid = p.tid /\ q.pid = p.pid
      /\ q.prop = prop
  BY <1>1, <1>2 DEF Request
<1>4. Agreed(consented, prop.approvals, p.pid, p.tid)
  <2>1. p.pid \in Ids /\ prop \in ProposalRow
    BY <1>1, <1>2 DEF Placed, Known
  <2> QED
    BY <1>2, <2>1, NamedProposal DEF ConsentInv, p
<1>5. Consenting(consented, q)
  BY <1>1, <1>2, <1>3, <1>4 DEF Consenting, HoldsRow
<1> QED
  BY <1>2, <1>5, ConsentRead

\* finalize keeps the approved proposal it was given.
LEMMA FinalizeInboxConsent ==
  ASSUME TypeInv, ConsentInv, NEW r \in Reqs, FinalizeInbox(r)
  PROVE  ConsentInv'
<1> DEFINE p == req[r]
<1>1. p \in Request /\ Placed(p) /\ Consenting(consented, p)
  BY ReqType DEF ConsentInv
<1>2. PICK owner, q :
        /\ p.pc = "ownerInbox" /\ q = [p EXCEPT !.pc = "finalize", !.owner = owner]
        /\ Becomes(r, q) /\ UNCHANGED <<rows, history>>
  BY DEF FinalizeInbox
<1> HIDE DEF p
<1>3. q.op = p.op /\ q.pc = "finalize" /\ q.snap = p.snap /\ q.tid = p.tid
      /\ q.user = p.user /\ q.pid = p.pid
      /\ q.prop = p.prop
  BY <1>1, <1>2 DEF Request
<1>4. Consenting(consented, q)
  BY <1>1, <1>2, <1>3 DEF Consenting, HoldsRow
<1> QED
  BY <1>2, <1>4, ConsentRead

\* Commits: what they write comes from what they hold.
LEMMA MailCommitConsent ==
  ASSUME TypeInv, ConsentInv, NEW r \in Reqs,
         \/ CreateCommit(r) \/ ReplyCommit(r) \/ CloseCommit(r)
         \/ DeleteDrop(r) \/ DeleteInboxes(r) \/ DeleteBody(r)
  PROVE  ConsentInv'
<1> DEFINE p == req[r]
<1>1. p \in Request /\ Placed(p) /\ Consenting(consented, p)
  BY ReqType DEF ConsentInv
<1>2. CASE CreateCommit(r)
  <2>1. PICK turns, row :
          /\ row = NewThread(p.user, p.agent, p.to, turns)
          /\ thread' = [thread EXCEPT ![nextId] = row]
          /\ Answer(r) /\ UNCHANGED <<proposals, history>>
    BY <1>2 DEF CreateCommit
  <2>2. \A t : Backed(consented, row, t)
    BY <2>1 DEF NewThread, Backed
  <2> QED
    BY <2>1, <2>2, ConsentKept, IdleConsenting DEF Answer, history, TypeInv, TypeOK
<1>3. CASE ReplyCommit(r)
  <2>1. PICK turns, row :
          /\ p.op = "reply" /\ p.pc = "commit" /\ row = RepliedThread(p, turns)
          /\ thread' = [thread EXCEPT ![p.tid] = row]
          /\ Answer(r) /\ UNCHANGED <<proposals, consented>>
    BY <1>3 DEF ReplyCommit, At
  <2> HIDE DEF p
  <2>2. Backed(consented, row, p.tid)
    <3>1. p.snap \in ThreadRow
      BY <1>1, <2>1 DEF Placed
    <3>2. row.point = p.snap.point
      BY <2>1, <3>1 DEF RepliedThread, ThreadRow
    <3> QED
      BY <1>1, <2>1, <3>2 DEF Consenting, HoldsRow, Backed
  <2> QED
    BY <2>1, <2>2, ConsentKept, IdleConsenting DEF Answer, TypeInv, TypeOK
<1>4. CASE CloseCommit(r)
  <2>1. PICK row :
          /\ p.op = "close" /\ p.pc = "commit" /\ row = [p.snap EXCEPT !.status = "closed"]
          /\ thread' = [thread EXCEPT ![p.tid] = row]
          /\ Answer(r) /\ UNCHANGED <<proposals, consented>>
    BY <1>4 DEF CloseCommit, At
  <2> HIDE DEF p
  <2>2. Backed(consented, row, p.tid)
    <3>1. p.snap \in ThreadRow
      BY <1>1, <2>1 DEF Placed
    <3>2. row.point = p.snap.point
      BY <2>1, <3>1 DEF ThreadRow
    <3> QED
      BY <1>1, <2>1, <3>2 DEF Consenting, HoldsRow, Backed
  <2> QED
    BY <2>1, <2>2, ConsentKept, IdleConsenting DEF Answer, TypeInv, TypeOK
<1>5. CASE DeleteDrop(r)
  BY <1>5, ConsentAnswer DEF DeleteDrop, history
<1>6. CASE DeleteInboxes(r)
  <2>1. PICK q :
          /\ p.op = "delete" /\ q = [p EXCEPT !.pc = "dropBody"]
          /\ Becomes(r, q) /\ UNCHANGED <<thread, proposals, consented>>
    BY <1>6 DEF DeleteInboxes, At, history
  <2> HIDE DEF p
  <2>2. q.op = "delete" /\ q.pc = "dropBody"
    BY <1>1, <2>1 DEF Request
  <2>3. Consenting(consented, q)
    BY <2>2, PlainConsenting DEF HoldsRow
  <2> QED
    BY <2>1, <2>3, ConsentKept
<1>7. CASE DeleteBody(r)
  <2>1. /\ thread' = [thread EXCEPT ![p.tid] = Absent]
        /\ Answer(r) /\ UNCHANGED <<proposals, consented>>
    BY <1>7 DEF DeleteBody
  <2> HIDE DEF p
  <2> QED
    BY <2>1, ConsentKept, IdleConsenting DEF Answer, TypeInv, TypeOK
<1> QED
  BY <1>2, <1>3, <1>4, <1>5, <1>6, <1>7

\* Storing a new proposal keeps the consent behind every proposal.
LEMMA ProposePersistConsent ==
  ASSUME TypeInv, TieInv, ConsentInv, NEW r \in Reqs, ProposePersist(r)
  PROVE  ConsentInv'
<1> DEFINE p == req[r]
<1>1. p \in Request /\ Placed(p) /\ Consenting(consented, p)
  BY ReqType DEF ConsentInv
<1>2. /\ p.op = "propose" /\ p.pc = "persist" /\ nextId \in Ids
      /\ proposals' = [proposals EXCEPT ![nextId] = p.prop]
      /\ consented' = consented \cup {[user |-> p.user, id |-> nextId, thread |-> p.tid]}
      /\ IF IsUnanimous(p.prop)
         THEN Becomes(r, [p EXCEPT !.pc = "ownerInbox", !.pid = nextId])
         ELSE Answer(r)
      /\ UNCHANGED thread
  BY DEF ProposePersist, At
<1> HIDE DEF p
<1>3. Agreed(consented', p.prop.approvals, nextId, p.tid)
  BY <1>1, <1>2 DEF Consenting, Agreed
<1>4. \A i \in Ids : \/ proposals'[i] = proposals[i]
                   \/ Agreed(consented', proposals'[i].approvals, i, proposals'[i].thread)
  <2>1. p.prop \in ProposalRow
    BY <1>1, <1>2 DEF Placed
  <2>2. p.prop.thread = p.tid
    BY <2>1, HeldProposal DEF p
  <2> QED
    BY <1>2, <1>3, <2>2 DEF TypeInv, TypeOK
<1>5. CASE Answer(r)
  BY <1>2, <1>4, <1>5, ConsentKept, IdleConsenting DEF Answer
<1>6. CASE IsUnanimous(p.prop) /\ Becomes(r, [p EXCEPT !.pc = "ownerInbox", !.pid = nextId])
  <2>1. PICK q, id : q = [p EXCEPT !.pc = "ownerInbox", !.pid = id] /\ id = nextId
    OBVIOUS
  <2>2. q.op = "propose" /\ q.pc = "ownerInbox" /\ q.pid = nextId /\ q.prop = p.prop
        /\ q.snap = p.snap /\ q.tid = p.tid
    BY <1>1, <1>2, <2>1 DEF Request
  <2>3. Agreed(consented', p.prop.required, nextId, p.tid)
    BY <1>3, <1>6 DEF IsUnanimous, Agreed
  <2>4. Backed(consented', p.snap, p.tid)
    BY <1>1, <1>2, AgreedGrows DEF Consenting, HoldsRow
  <2>5. Consenting(consented', q)
    BY <2>2, <2>3, <2>4 DEF Consenting
  <2> QED
    BY <1>2, <1>4, <1>6, <2>1, <2>5, ConsentKept
<1> QED
  BY <1>2, <1>5, <1>6

\* Saving an approval or a denial keeps the consent behind every proposal.
LEMMA ConsentSaveConsent ==
  ASSUME TypeInv, TieInv, ConsentInv, NEW r \in Reqs, ApproveSave(r) \/ DenySave(r)
  PROVE  ConsentInv'
<1> DEFINE p == req[r]
<1>1. p \in Request /\ Placed(p) /\ Consenting(consented, p) /\ p.pc = "save"
  BY ReqType DEF ConsentInv, ApproveSave, DenySave, At
<1>2. PICK row :
        /\ \/ /\ p.op = "approve"
              /\ row = [p.prop EXCEPT !.approvals = p.prop.approvals \cup Mine(p.prop, p.user)]
           \/ row = [p.prop EXCEPT !.status = "denied"]
        /\ proposals' = [proposals EXCEPT ![p.pid] = row]
        /\ Answer(r) /\ UNCHANGED <<thread, consented>>
  BY DEF ApproveSave, DenySave, At
<1> HIDE DEF p
<1>3. p.pid \in Ids /\ p.prop \in ProposalRow
  BY <1>1 DEF Placed
<1>4. \/ p.op = "approve" /\ row.approvals = p.prop.approvals \cup Mine(p.prop, p.user)
      \/ row.approvals = p.prop.approvals
  BY <1>2, <1>3 DEF ProposalRow
<1>5. Agreed(consented, row.approvals, p.pid, p.tid)
  BY <1>1, <1>4 DEF Consenting, Agreed, Mine
<1>6. row.thread = p.tid
  BY <1>2, <1>3, HeldProposal DEF ProposalRow, p
<1>7. \A i \in Ids : \/ proposals'[i] = proposals[i]
                   \/ Agreed(consented, proposals'[i].approvals, i, proposals'[i].thread)
  BY <1>2, <1>3, <1>5, <1>6 DEF TypeInv, TypeOK
<1> QED
  BY <1>2, <1>7, ConsentKept, IdleConsenting DEF Answer

\* The commit of the downgrade approves only what has been consented to.
LEMMA FinalizeCommitConsent ==
  ASSUME TypeInv, TieInv, ConsentInv, NEW r \in Reqs, FinalizeCommit(r)
  PROVE  ConsentInv'
<1> DEFINE p == req[r]
<1>1. p \in Request /\ Placed(p) /\ Consenting(consented, p)
  BY ReqType DEF ConsentInv
<1>2. PICK row, prop, id :
        /\ p.pc = "finalize" /\ id = nextId
        /\ row = DowngradedThread(p, id)
        /\ prop = [p.prop EXCEPT !.status = "approved", !.approvals = p.prop.required,
                                 !.divider = id]
        /\ thread' = [thread EXCEPT ![p.tid] = row]
        /\ proposals' = [proposals EXCEPT ![p.pid] = prop]
        /\ Answer(r) /\ UNCHANGED consented
  BY DEF FinalizeCommit
<1> HIDE DEF p
<1>3. p.pid \in Ids /\ p.prop \in ProposalRow /\ p.snap \in ThreadRow
  BY <1>1, <1>2 DEF Placed
<1>4. Agreed(consented, p.prop.required, p.pid, p.tid)
  BY <1>1, <1>2 DEF Consenting
<1>5. row.point.approvers = p.prop.required
  BY <1>2, <1>3 DEF DowngradedThread, ThreadRow
<1>6. Backed(consented, row, p.tid)
  BY <1>3, <1>4, <1>5 DEF Backed
<1>7. prop.approvals = p.prop.required /\ prop.thread = p.tid
  BY <1>2, <1>3, HeldProposal DEF ProposalRow, p
<1>8. \A i \in Ids : \/ proposals'[i] = proposals[i]
                   \/ Agreed(consented, proposals'[i].approvals, i, proposals'[i].thread)
  BY <1>2, <1>3, <1>4, <1>7 DEF TypeInv, TypeOK
<1>9. \A t \in Ids : thread'[t] = thread[t] \/ Backed(consented, thread'[t], t)
  BY <1>2, <1>6 DEF TypeInv, TypeOK
<1> QED
  BY <1>2, <1>8, <1>9, ConsentKept, IdleConsenting DEF Answer

\* At the start nothing is proposed.
LEMMA InitConsent == Init => ConsentInv
<1> SUFFICES ASSUME Init PROVE ConsentInv
  OBVIOUS
<1>1. \A r \in Reqs : Consenting(consented, req[r])
  BY IdleConsenting DEF Init
<1> QED
  BY <1>1, AbsentAssumption DEF Init, ConsentInv

\* Every step of every handler keeps the consent invariant.
LEMMA StepConsent == TypeInv /\ TieInv /\ ConsentInv /\ [Next]_vars => ConsentInv'
<1> SUFFICES ASSUME TypeInv, TieInv, ConsentInv, [Next]_vars PROVE ConsentInv'
  OBVIOUS
<1>1. CASE UNCHANGED mail
  BY <1>1 DEF ConsentInv, mail
<1>2. ASSUME NEW r \in Reqs, MailStep(r) PROVE ConsentInv'
  BY <1>2, StartConsent, MailReadConsent, MailCommitConsent DEF MailStep
<1>3. ASSUME NEW r \in Reqs, ConsentStep(r) PROVE ConsentInv'
  <2>1. CASE Answer(r) /\ (LoadThread(r) \/ ProposeCheck(r) \/ ApproveProposal(r) \/ DenyProposal(r))
    BY <2>1, ConsentAnswer DEF LoadThread, ProposeCheck, ApproveProposal, DenyProposal, rows, history
  <2> QED
    BY <1>3, <2>1, StartConsent, ApproveStartConsent, LoadThreadConsent, ProposeCheckConsent,
       ApproveProposalConsent, DenyProposalConsent, FinalizeInboxConsent, ProposePersistConsent,
       ConsentSaveConsent, FinalizeCommitConsent DEF ConsentStep
<1>4. ASSUME NEW r \in Reqs, Crash(r) PROVE ConsentInv'
  BY <1>4, ConsentAnswer DEF Crash, rows, history
<1> QED
  BY <1>1, <1>2, <1>3, <1>4, Steps

\* Rows and requests only ever carry a divider, and proposals only ever
\* approvals, that the owners of the listed agents agreed to.
THEOREM ConsentInvariant == Spec => [](TypeInv /\ ConsentInv)
BY ProposalInvariant, InitConsent, StepConsent, PTL DEF Spec

\* However proposals, approvals, denials, replies, closes and deletes overlap:
\* the owner of every approver of a downgraded thread proposed or approved one
\* and the same proposal for it.
THEOREM NoDowngradeWithoutConsent == Spec => []ConsentBehindDowngrade
<1>1. TypeInv /\ ConsentInv => ConsentBehindDowngrade
  BY DEF ConsentInv, ConsentBehindDowngrade, Exists, Backed, Agreed
<1> QED
  BY <1>1, ConsentInvariant, PTL

-----------------------------------------------------------------------------
(* A denied proposal downgrades nothing *)

\* Proposal p, never denied, was approved with message m as the divider of t.
Won(P, D, p, t, m) ==
  /\ p \in Ids \ D
  /\ P[p] # Absent /\ P[p].thread = t /\ P[p].status = "approved" /\ P[p].divider = m

\* A deny is there to stay, a handler goes on with pending proposals only, and
\* the divider of a row is that of a proposal that won.
VoteInv ==
  /\ \A p \in denied : proposals[p] # Absent /\ (p \notin overwritten => proposals[p].status = "denied")
  /\ \A r \in Reqs : HoldsProposal(req[r]) => req[r].prop.status = "pending"
  /\ DeniedStaysE2E

\* Handlers hold pending proposals.
LEMMA PendingHeld ==
  ASSUME TypeInv, VoteInv, NEW r \in Reqs, MailStep(r) \/ ConsentStep(r) \/ Crash(r)
  PROVE  \A s \in Reqs : HoldsProposal(req'[s]) => req'[s].prop.status = "pending"
<1>1. PICK q : Becomes(r, q) /\ (q = Idle \/ Arrives(q) \/ Continues(req[r], q))
  BY StepMoves
<1>2. HoldsProposal(q) => q.prop.status = "pending"
  BY <1>1, IdlePlace DEF VoteInv, HoldsProposal, Arrives, Continues
<1> QED
  BY <1>1, <1>2 DEF Becomes, VoteInv, TypeInv, TypeOK

\* A step that writes no proposal that is there, and no new divider.
LEMMA VoteKept ==
  ASSUME TypeInv, VoteInv, NEW r \in Reqs, MailStep(r) \/ ConsentStep(r) \/ Crash(r),
         \A p \in Ids : proposals[p] # Absent => proposals'[p] = proposals[p],
         UNCHANGED denied, overwritten \subseteq overwritten',
         \A t \in Ids : thread'[t] # Absent /\ t \notin overwritten' =>
           \/ thread'[t].point = Absent
           \/ thread[t] # Absent /\ thread'[t].point = thread[t].point
  PROVE  VoteInv'
<1>1. denied \subseteq Ids
  BY DEF TypeInv, TypeOK
<1>2. \A p \in denied' : proposals'[p] # Absent /\ (p \notin overwritten' => proposals'[p].status = "denied")
  BY <1>1 DEF VoteInv
<1>3. ASSUME NEW t \in Ids, Exists(t)', thread'[t].point # Absent, Untouched(t)'
      PROVE  \E p \in Ids : Won(proposals', denied', p, t, thread'[t].point.message)
  <2>1. Exists(t) /\ thread'[t].point = thread[t].point
    BY <1>3 DEF Exists, Untouched
  <2>2. Untouched(t)
    BY <1>3 DEF Untouched
  <2>3. PICK p \in Ids : Won(proposals, denied, p, t, thread[t].point.message)
    BY <1>3, <2>1, <2>2 DEF VoteInv, DeniedStaysE2E, Won
  <2> QED
    BY <2>1, <2>3 DEF Won
<1>4. DeniedStaysE2E'
  BY <1>3 DEF DeniedStaysE2E, Won
<1> QED
  BY <1>2, <1>4, PendingHeld DEF VoteInv

\* A reply, a close and a delete keep the divider of the row they replace.
LEMMA MailVote ==
  ASSUME TypeInv, VoteInv, NEW r \in Reqs, MailStep(r)
  PROVE  VoteInv'
<1> DEFINE p == req[r]
<1>1. p \in Request /\ Placed(p)
  BY ReqType
<1>2. CASE CreateCommit(r)
  <2>1. PICK n, row :
          /\ row.point = Absent /\ thread' = [thread EXCEPT ![n] = row]
          /\ UNCHANGED <<proposals, history>>
    <3>1. PICK n, turns :
            /\ thread' = [thread EXCEPT ![n] = NewThread(p.user, p.agent, p.to, turns)]
            /\ UNCHANGED <<proposals, history>>
      BY <1>2 DEF CreateCommit
    <3>2. NewThread(p.user, p.agent, p.to, turns).point = Absent
      BY DEF NewThread
    <3> HIDE DEF p
    <3> QED
      BY <3>1, <3>2
  <2>2. \A t \in Ids : thread'[t] # Absent =>
          thread'[t].point = Absent \/ thread'[t] = thread[t]
    BY <2>1 DEF TypeInv, TypeOK
  <2> QED
    BY <2>1, <2>2, VoteKept DEF history
<1>3. CASE ReplyCommit(r) \/ CloseCommit(r) \/ DeleteBody(r)
  <2>1. PICK row :
          /\ thread' = [thread EXCEPT ![p.tid] = row]
          /\ overwritten' = Overwrites(thread[p.tid], p.snap, p.tid)
          /\ \/ p.op = "reply" /\ p.pc = "commit" /\ \E turns : row = RepliedThread(p, turns)
             \/ p.op = "close" /\ p.pc = "commit" /\ row = [p.snap EXCEPT !.status = "closed"]
             \/ row = Absent
          /\ UNCHANGED <<proposals, denied>>
    BY <1>3 DEF ReplyCommit, CloseCommit, DeleteBody, At
  <2> HIDE DEF p
  <2>2. row # Absent => p.snap \in ThreadRow /\ row.point = p.snap.point
    BY <1>1, <2>1 DEF Placed, RepliedThread, ThreadRow
  <2>3. \A t \in Ids : thread'[t] = thread[t] \/ (t = p.tid /\ thread'[t] = row)
    BY <2>1 DEF TypeInv, TypeOK
  <2>4. ASSUME NEW t \in Ids, thread'[t] # Absent, t \notin overwritten'
        PROVE  thread[t] # Absent /\ thread'[t].point = thread[t].point
    BY <2>1, <2>2, <2>3, <2>4, AbsentAssumption DEF Overwrites
  <2>5. overwritten \subseteq overwritten'
    BY <2>1 DEF Overwrites
  <2> QED
    BY <2>1, <2>4, <2>5, VoteKept
<1>4. CASE ~CreateCommit(r) /\ ~ReplyCommit(r) /\ ~CloseCommit(r) /\ ~DeleteBody(r)
  <2>1. UNCHANGED <<thread, proposals, overwritten, denied>>
    BY <1>4 DEF MailStep, CreateStart, ReplyStart, ReplyInbox, ReplyThread, ReplyPeers, CloseStart,
       CloseThread, DeleteStart, DeleteThread, DeleteDrop, DeleteListMessages, DeleteListPayloads,
       DeleteInboxes, rows, history
  <2> QED
    BY <2>1, VoteKept
<1> QED
  BY <1>2, <1>3, <1>4

\* Persisting a proposal takes a fresh id.
LEMMA PersistVote ==
  ASSUME TypeInv, TieInv, VoteInv, NEW r \in Reqs, ProposePersist(r)
  PROVE  VoteInv'
<1>1. PICK n, prop :
        /\ n = nextId /\ n \in Ids /\ proposals' = [proposals EXCEPT ![n] = prop]
        /\ UNCHANGED <<thread, overwritten, denied>>
  BY DEF ProposePersist
<1>2. n >= n
  BY <1>1, DirectoryAssumption DEF Ids
<1>3. proposals[n] = Absent
  BY <1>1, <1>2 DEF TieInv, FreshProposals
<1>4. \A i \in Ids : proposals[i] # Absent => proposals'[i] = proposals[i]
  BY <1>1, <1>3 DEF TypeInv, TypeOK
<1> QED
  BY <1>1, <1>4, VoteKept DEF ConsentStep

\* Saving a vote on a proposal that changed since it was read is recorded; on
\* one that did not, it was pending and had downgraded nothing.
LEMMA SaveVote ==
  ASSUME TypeInv, TieInv, VoteInv, NEW r \in Reqs, ApproveSave(r) \/ DenySave(r)
  PROVE  VoteInv'
<1> DEFINE p == req[r]
<1>1. p \in Request /\ Placed(p) /\ Tied(proposals, p)
      /\ (HoldsProposal(p) => p.prop.status = "pending")
  BY ReqType DEF TieInv, VoteInv
<1>2. PICK row :
        /\ p.pc = "save"
        /\ proposals' = [proposals EXCEPT ![p.pid] = row]
        /\ overwritten' = Overwrites(proposals[p.pid], p.prop, p.pid)
        /\ UNCHANGED thread
        /\ \/ /\ row = [p.prop EXCEPT !.approvals = p.prop.approvals \cup Mine(p.prop, p.user)]
              /\ denied' = denied
           \/ /\ row = [p.prop EXCEPT !.status = "denied"]
              /\ denied' = denied \cup {p.pid}
  BY DEF ApproveSave, DenySave, At
<1> HIDE DEF p
<1>3. p.pid \in Ids /\ p.prop \in ProposalRow /\ p.prop.status = "pending"
  BY <1>1, <1>2 DEF Placed, HoldsProposal
<1>4. /\ p.prop.thread = p.tid /\ proposals[p.pid] \in ProposalRow
      /\ proposals[p.pid].thread = p.tid
  BY <1>1, <1>3, AbsentAssumption DEF Tied, ProposalFor
<1>5. /\ row.thread = p.tid /\ row # Absent
      /\ row.status = "denied" \/ denied' = denied
  <2>1. row \in ProposalRow
    <3>1. p.prop.approvals \cup Mine(p.prop, p.user) \in SUBSET Agents
      BY <1>3 DEF ProposalRow, Mine
    <3> QED
      BY <1>2, <1>3, <3>1, ProposalFieldType
  <2> QED
    BY <1>2, <1>3, <1>4, <2>1, AbsentAssumption DEF ProposalRow
<1>6. /\ proposals'[p.pid] = row
      /\ \A i \in Ids \ {p.pid} : proposals'[i] = proposals[i]
  BY <1>2, <1>3 DEF TypeInv, TypeOK
<1>7. p.pid \notin overwritten' => proposals[p.pid] = p.prop /\ p.pid \notin overwritten
  BY <1>2 DEF Overwrites
<1>8. overwritten \subseteq overwritten' /\ denied \subseteq denied' /\ denied' \subseteq denied \cup {p.pid}
  BY <1>2 DEF Overwrites
<1>9. ASSUME NEW i \in denied'
      PROVE  proposals'[i] # Absent /\ (i \notin overwritten' => proposals'[i].status = "denied")
  <2>1. CASE i = p.pid
    <3>1. ASSUME i \notin overwritten', denied' = denied PROVE FALSE
      BY <1>3, <1>7, <1>9, <2>1, <3>1 DEF VoteInv
    <3> QED
      BY <1>5, <1>6, <2>1, <3>1
  <2>2. CASE i # p.pid
    <3>1. i \in denied /\ i \in Ids
      BY <1>8, <2>2 DEF TypeInv, TypeOK
    <3> QED
      BY <1>6, <1>8, <2>2, <3>1 DEF VoteInv
  <2> QED
    BY <2>1, <2>2
<1>10. ASSUME NEW t \in Ids, Exists(t)', thread'[t].point # Absent, Untouched(t)'
       PROVE  \E i \in Ids : Won(proposals', denied', i, t, thread'[t].point.message)
  <2>1. Exists(t) /\ thread'[t].point = thread[t].point
    BY <1>2, <1>10 DEF Exists
  <2>2. Untouched(t)
    BY <1>4, <1>5, <1>6, <1>8, <1>10 DEF Untouched
  <2>3. PICK i \in Ids : Won(proposals, denied, i, t, thread[t].point.message)
    BY <1>10, <2>1, <2>2 DEF VoteInv, DeniedStaysE2E, Won
  <2>4. i # p.pid
    <3>1. ASSUME i = p.pid PROVE FALSE
      <4>1. t = p.tid /\ proposals[p.pid].status = "approved"
        BY <1>4, <2>3, <3>1 DEF Won
      <4>2. p.pid \notin overwritten'
        BY <1>3, <1>5, <1>6, <1>10, <4>1 DEF Untouched
      <4> QED
        BY <1>3, <1>7, <4>1, <4>2
    <3> QED
      BY <3>1
  <2> QED
    BY <1>6, <1>8, <2>1, <2>3, <2>4 DEF Won
<1>11. DeniedStaysE2E'
  BY <1>10 DEF DeniedStaysE2E, Won
<1> QED
  BY <1>9, <1>11, PendingHeld DEF VoteInv, ConsentStep

\* A downgrade makes its own proposal the one that won, and that was not
\* denied: it was pending when read, and had not changed.
LEMMA FinalizeVote ==
  ASSUME TypeInv, TieInv, VoteInv, NEW r \in Reqs, FinalizeCommit(r)
  PROVE  VoteInv'
<1>1. PICK p, n, row, prop :
        /\ p = req[r] /\ p.pc = "finalize" /\ n = nextId /\ n \in Ids
        /\ row = DowngradedThread(p, n)
        /\ prop = [p.prop EXCEPT !.status = "approved", !.approvals = p.prop.required, !.divider = n]
        /\ thread' = [thread EXCEPT ![p.tid] = row]
        /\ proposals' = [proposals EXCEPT ![p.pid] = prop]
        /\ overwritten' = Overwrites(thread[p.tid], p.snap, p.tid)
                          \cup Overwrites(proposals[p.pid], p.prop, p.pid)
        /\ UNCHANGED denied
  BY DEF FinalizeCommit
<1>2. /\ p \in Request /\ p.tid \in Ids /\ p.pid \in Ids
      /\ p.snap \in ThreadRow /\ p.prop \in ProposalRow /\ p.prop.status = "pending"
      /\ p.prop.thread = p.tid /\ proposals[p.pid] \in ProposalRow
      /\ proposals[p.pid].thread = p.tid
  BY <1>1, ReqType, AbsentAssumption DEF TieInv, Tied, ProposalFor, VoteInv, Placed, HoldsProposal
<1>3. row.point.message = n
  BY <1>1, <1>2 DEF DowngradedThread, ThreadRow
<1>4. /\ prop # Absent /\ prop.thread = p.tid /\ prop.status = "approved" /\ prop.divider = n
  <2>1. prop \in ProposalRow
    BY <1>1, <1>2, ApprovedProposalType
  <2> QED
    BY <1>1, <1>2, <2>1, AbsentAssumption DEF ProposalRow
<1>5. /\ proposals'[p.pid] = prop
      /\ \A i \in Ids \ {p.pid} : proposals'[i] = proposals[i]
      /\ thread'[p.tid] = row
      /\ \A t \in Ids \ {p.tid} : thread'[t] = thread[t]
  BY <1>1, <1>2 DEF TypeInv, TypeOK
<1>6. p.pid \notin overwritten' => p.pid \notin denied
  BY <1>1, <1>2 DEF Overwrites, VoteInv
<1>7. overwritten \subseteq overwritten'
  BY <1>1 DEF Overwrites
<1>8. ASSUME NEW i \in denied'
      PROVE  proposals'[i] # Absent /\ (i \notin overwritten' => proposals'[i].status = "denied")
  <2>1. i \in denied /\ i \in Ids
    BY <1>1, <1>8 DEF TypeInv, TypeOK
  <2> QED
    BY <1>4, <1>5, <1>6, <1>7, <2>1 DEF VoteInv
<1>9. ASSUME NEW t \in Ids, Exists(t)', thread'[t].point # Absent, Untouched(t)'
      PROVE  \E i \in Ids : Won(proposals', denied', i, t, thread'[t].point.message)
  <2>1. CASE t = p.tid
    <3>1. p.pid \notin overwritten'
      BY <1>2, <1>4, <1>5, <1>9, <2>1 DEF Untouched
    <3>2. p.pid \in Ids \ denied'
      BY <1>1, <1>2, <1>6, <3>1
    <3>3. thread'[t].point.message = n
      BY <1>3, <1>5, <2>1
    <3> QED
      BY <1>4, <1>5, <2>1, <3>2, <3>3 DEF Won
  <2>2. CASE t # p.tid
    <3>1. Exists(t) /\ thread'[t] = thread[t]
      BY <1>5, <1>9, <2>2 DEF Exists
    <3>2. Untouched(t)
      BY <1>2, <1>5, <1>7, <1>9, <2>2 DEF Untouched
    <3>3. PICK i \in Ids : Won(proposals, denied, i, t, thread[t].point.message)
      BY <1>9, <3>1, <3>2 DEF VoteInv, DeniedStaysE2E, Won
    <3>4. i # p.pid
      BY <1>2, <2>2, <3>3 DEF Won
    <3> QED
      BY <1>1, <1>5, <3>1, <3>3, <3>4 DEF Won
  <2> QED
    BY <2>1, <2>2
<1>10. DeniedStaysE2E'
  BY <1>9 DEF DeniedStaysE2E, Won
<1> QED
  BY <1>8, <1>10, PendingHeld DEF VoteInv, ConsentStep

\* At the start nothing is denied.
LEMMA InitVote == Init => VoteInv
BY IdlePlace DEF Init, VoteInv, HoldsProposal, DeniedStaysE2E, Exists

\* Every step of every handler respects a deny.
LEMMA StepVote == TypeInv /\ TieInv /\ VoteInv /\ [Next]_vars => VoteInv'
<1> SUFFICES ASSUME TypeInv, TieInv, VoteInv, [Next]_vars PROVE VoteInv'
  OBVIOUS
<1>1. CASE UNCHANGED mail
  BY <1>1 DEF VoteInv, DeniedStaysE2E, Untouched, Exists, mail
<1>2. ASSUME NEW r \in Reqs, ConsentStep(r) PROVE VoteInv'
  <2>1. CASE ~ProposePersist(r) /\ ~ApproveSave(r) /\ ~DenySave(r) /\ ~FinalizeCommit(r)
    <3>1. UNCHANGED <<thread, proposals, overwritten, denied>>
      BY <1>2, <2>1 DEF ConsentStep, ProposeStart, ProposeCheck, ApproveStart, DenyStart,
         LoadThread, ApproveProposal, DenyProposal, FinalizeInbox, rows, history
    <3> QED
      BY <1>2, <3>1, VoteKept
  <2> QED
    BY <1>2, <2>1, PersistVote, SaveVote, FinalizeVote
<1>3. ASSUME NEW r \in Reqs, Crash(r) PROVE VoteInv'
  BY <1>3, VoteKept DEF Crash, rows, history
<1> QED
  BY <1>1, <1>2, <1>3, MailVote, Steps

\* Any deny keeps the thread E2E: where no commit replaced a row blindly, the
\* divider of a downgraded thread is that of an approved proposal nobody denied.
THEOREM DenyIsFinal == Spec => []DeniedStaysE2E
<1>1. Spec => [](TypeInv /\ TieInv /\ VoteInv)
  BY InitType, StepType, InitTie, StepTie, InitVote, StepVote, PTL DEF Spec
<1>2. VoteInv => DeniedStaysE2E
  BY DEF VoteInv
<1> QED
  BY <1>1, <1>2, PTL

=============================================================================
