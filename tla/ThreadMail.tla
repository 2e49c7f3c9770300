----------------------------- MODULE ThreadMail -----------------------------
(***************************************************************************)
(* Mail threads: createThread, postReply, closeThread and deleteThread of  *)
(* HubStore (hub/store/store.ts).                                          *)
(*                                                                         *)
(* None of these commits carries a `check`: what a request writes is built *)
(* from the row it read some awaits ago and always commits.  The retry     *)
(* loops around the commits of createThread and postReply only ever run    *)
(* again for billed mail, which the module EnterpriseLedger models.        *)
(***************************************************************************)
EXTENDS ThreadStore

-----------------------------------------------------------------------------
(* createThread *)

\* Recipients of a thread: @all, @all@<org> (the sender alone when the
\* organization has no other member), or the owner of the addressed agent.
Recipients(u, to) ==
  IF to = AllAgents THEN {u}
  ELSE IF to = OrgWide
       THEN IF Members(OrgOf[u]) = {u} THEN {u} ELSE Members(OrgOf[u]) \ {u}
       ELSE {Owner(to)}

\* siblingSlots: other transports registered under the same slug
Siblings(a) ==
  {b \in AgentsOf(Owner(a)) : b # a /\ AgentInfo[b].slug = AgentInfo[a].slug}

\* The agents whose transport decides the mode of a new thread.
Participants(u, a, to) ==
  {a} \cup (IF to = AllAgents THEN AgentsOf(u)
            ELSE IF to = OrgWide THEN {DefaultAgent[v] : v \in Recipients(u, to)}
                 ELSE {to} \cup Siblings(to))

CrossOrg(u, to) == to \in Agents /\ OrgOf[Owner(to)] # OrgOf[u]

\* resolveThreadEncryptionMode
EncryptionMode(u, a, to) ==
  IF CrossOrg(u, to) \/ \E b \in Participants(u, a, to) : IsWeb(b)
  THEN "app_envelope" ELSE "e2e"

\* Routing: no handoff to the sending agent itself, cross-org mail only over
\* an approved external contact.
Routable(u, a, to) ==
  /\ to # a
  /\ CrossOrg(u, to) => {u, Owner(to)} \in Linked

NewThread(u, a, to, turns) ==
  [kind |-> IF to \in Broadcasts THEN "broadcast" ELSE "direct",
   status |-> "open", mode |-> EncryptionMode(u, a, to),
   from |-> u, fromAgent |-> a, audience |-> to,
   external |-> CrossOrg(u, to),
   participants |-> IF CrossOrg(u, to) THEN {u, Owner(to)} ELSE {},
   awaiting |-> turns, replies |-> 0, point |-> Absent]

\* Inbox rows of a new thread.  With declared turns exactly the awaited users
\* are pending; otherwise everybody but the sender.  A sender who is also a
\* recipient (mail between own agents) keeps the recipient role.
FirstInboxRow(row, u, v) ==
  [status |-> IF (IF row.awaiting # Absent THEN v \in row.awaiting ELSE v # u)
              THEN "pending" ELSE "replied",
   role |-> IF v = u /\ u \notin Recipients(u, row.audience) THEN "sender" ELSE "recipient"]

CreateStart(r) ==
  \E s \in Sends, key \in CreateKeys \cup {Absent} :
    LET a == s[1]
        to == s[2]
        u == Owner(a)
        prior == IF key = Absent THEN Absent ELSE idem[u][key]
        \* a retry is answered from the idempotency row while its thread is there
        hit == /\ prior # Absent
               /\ prior.kind = "create_thread"
               /\ thread[prior.thread] # Absent
               /\ Visible(u, thread[prior.thread])
    IN /\ "create" \in Ops
       /\ req[r] = Idle
       /\ nextId <= MaxThread
       /\ ~hit
       /\ Routable(u, a, to)
       /\ Becomes(r, [Idle EXCEPT !.op = "create", !.pc = "commit", !.user = u, !.agent = a,
                                 !.to = to, !.key = key])
       /\ UNCHANGED <<rows, history>>

\* The wire unit has to be of the kind the resolved mode asks for; a request
\* whose unit is not is refused before anything is read or written.
CreateCommit(r) ==
  \E turns \in TurnChoices :
    LET q == req[r]
        u == q.user
        row == NewThread(u, q.agent, q.to, turns)
    IN /\ At(r, "create", "commit")
       /\ nextId <= MaxThread
       /\ nextId' = nextId + 1
       /\ thread' = [thread EXCEPT ![nextId] = row]
       /\ messages' = messages \cup
            {[id |-> nextId, thread |-> nextId, from |-> u, agent |-> q.agent,
              store |-> row.mode, senderOnly |-> FALSE]}
       /\ payloads' = IF row.mode = "app_envelope"
                      THEN payloads \cup {<<nextId, nextId>>} ELSE payloads
       /\ inbox' = [v \in Users |->
            IF v \in {u} \cup Recipients(u, q.to)
            THEN [inbox[v] EXCEPT ![nextId] = FirstInboxRow(row, u, v)]
            ELSE inbox[v]]
       /\ idem' = IF q.key = Absent THEN idem
                  ELSE [idem EXCEPT ![u][q.key] =
                         [kind |-> "create_thread", thread |-> nextId, message |-> nextId]]
       /\ Answer(r)
       /\ UNCHANGED <<proposals, history>>

-----------------------------------------------------------------------------
(* postReply *)

\* MUTANT: takes the row of a createThread for its own.
AnswersRetryOfCreate(prior, t) ==
  prior # Absent /\ prior.kind = "create_thread" /\ prior.thread = t

\* The idempotency row that answers a retry of a reply to thread t.
AnswersRetry(prior, t) ==
  prior # Absent /\ prior.kind = "reply" /\ prior.thread = t

\* History: the last answer to a reply of u with this key, while its day lasts.
LastAnswer(u, key) ==
  {m \in answered : /\ m.user = u /\ m.key = key
                    /\ \A n \in answered : n.user = u /\ n.key = key => n.id <= m.id}

\* First await: the idempotency row.  A hit is answered with the stored
\* message id and changes nothing.  (What else the client sends is chosen at
\* the step that first looks at it.)
ReplyStart(r) ==
  \E a \in Agents, t \in Ids, key \in ReplyKeys \cup {Absent} :
    LET u == Owner(a)
        prior == IF key = Absent THEN Absent ELSE idem[u][key]
    IN /\ ReadOwnInbox(r, "reply", u, t)
       /\ ~AnswersRetry(prior, t)
       /\ Becomes(r, [Idle EXCEPT !.op = "reply", !.pc = "inbox", !.user = u, !.tid = t,
                              !.agent = a, !.key = key,
                              !.late = \E m \in LastAnswer(u, key) : m.thread = t])
       /\ UNCHANGED <<rows, history>>

ReplyInbox(r) ==
  LET q == req[r] IN
  /\ At(r, "reply", "inbox")
  /\ IF inbox[q.user][q.tid] = Absent
     THEN Answer(r)
     ELSE Becomes(r, [q EXCEPT !.pc = "thread", !.own = Role(q.user, q.tid)])
  /\ UNCHANGED <<rows, history>>

\* MUTANT: forgets that a closed thread takes no reply.
ReplyAllowedWhenClosed(q, row, wire, to) ==
  /\ row # Absent
  /\ Visible(q.user, row)
  /\ wire = row.mode
  /\ row.mode = "e2e" => ~IsWeb(q.agent) /\ ~IsWeb(to)

\* What stops a reply once the thread row has been read: the thread is gone,
\* invisible or closed, a web agent would speak or be added in an E2E thread,
\* or the wire unit does not match the mode of the thread.
ReplyAllowed(q, row, wire, to) ==
  /\ row # Absent
  /\ Visible(q.user, row)
  /\ row.status # "closed"
  /\ wire = row.mode
  /\ row.mode = "e2e" => ~IsWeb(q.agent) /\ ~IsWeb(to)

\* `to` hands the thread to another agent of the caller (to_agent).
ReplyThread(r) ==
  \E wire \in Modes, to \in Handoffs \cup {Absent} :
    LET q == req[r] IN
    /\ At(r, "reply", "thread")
    /\ to # Absent => Owner(to) = q.user /\ to # q.agent
    /\ IF ReplyAllowed(q, thread[q.tid], wire, to)
       THEN Becomes(r, [q EXCEPT !.pc = "peers", !.snap = thread[q.tid], !.to = to])
       ELSE Answer(r)
    /\ UNCHANGED <<rows, history>>

\* The inbox rows the commit will update, one step for all of them.
ReplyPeers(r) ==
  LET q == req[r] IN
  /\ At(r, "reply", "peers")
  /\ Becomes(r, [q EXCEPT !.pc = "commit",
               !.peers = [v \in Users |->
                 IF v \in PeerCandidates(q.snap) THEN Role(v, q.tid) ELSE Absent]])
  /\ UNCHANGED <<rows, history>>

\* MUTANT: a reply does not count itself.
RepliedThreadUncounted(q, turns) ==
  [q.snap EXCEPT !.awaiting = IF turns # Absent THEN turns ELSE @,
                 !.audience = IF q.to # Absent THEN q.to ELSE @]

\* MUTANT: rebuilds the row field by field and forgets downgrade_point.
RepliedThreadNoPoint(q, turns) ==
  [q.snap EXCEPT !.replies = @ + 1, !.point = Absent,
                 !.awaiting = IF turns # Absent THEN turns ELSE @,
                 !.audience = IF q.to # Absent THEN q.to ELSE @]

\* The thread row a reply writes: the one it read, one reply older.
RepliedThread(q, turns) ==
  [q.snap EXCEPT !.replies = @ + 1,
                 !.awaiting = IF turns # Absent THEN turns ELSE @,
                 !.audience = IF q.to # Absent THEN q.to ELSE @]

\* MUTANT: the replier is done, even when declared to be awaited.
StatusAfterReplySelfDone(q, turns, v) ==
  LET hasRow == q.peers[v] # Absent
  IN IF v = q.user THEN "replied"
     ELSE IF turns # Absent
          THEN IF hasRow THEN (IF v \in turns THEN "pending" ELSE "replied") ELSE Absent
          ELSE IF hasRow /\ (q.snap.from = q.user \/ q.snap.from = v) THEN "pending" ELSE Absent

\* New status of v's inbox row, Absent when the reply leaves it alone: with
\* declared turns everybody's; otherwise the replier's, and that of the peers
\* it wakes (all of them for the original sender, else only that sender).
StatusAfterReply(q, turns, v) ==
  LET hasRow == q.peers[v] # Absent
      woken == hasRow /\ (q.snap.from = q.user \/ q.snap.from = v)
  IN IF turns # Absent
     THEN IF hasRow \/ v = q.user THEN (IF v \in turns THEN "pending" ELSE "replied") ELSE Absent
     ELSE IF v = q.user THEN "replied" ELSE IF woken THEN "pending" ELSE Absent

\* The inbox rows after a reply: the replier keeps the role read first, unless
\* the row was read again for the turns.
InboxAfterReply(q, turns) ==
  [v \in Users |->
    IF StatusAfterReply(q, turns, v) = Absent THEN inbox[v]
    ELSE [inbox[v] EXCEPT ![q.tid] =
           [status |-> StatusAfterReply(q, turns, v),
            role |-> IF v = q.user /\ (turns = Absent \/ q.peers[v] = Absent)
                     THEN q.own ELSE q.peers[v]]]]

ReplyCommit(r) ==
  \E turns \in TurnChoices :
    LET q == req[r] IN
    /\ At(r, "reply", "commit")
    /\ nextId \in Ids
    /\ nextId' = nextId + 1
    /\ messages' = messages \cup
         {[id |-> nextId, thread |-> q.tid, from |-> q.user, agent |-> q.agent,
           store |-> q.snap.mode,
           senderOnly |-> q.snap.kind = "broadcast" /\ q.snap.audience = OrgWide]}
    /\ thread' = [thread EXCEPT ![q.tid] = RepliedThread(q, turns)]
    /\ payloads' = IF q.snap.mode = "app_envelope"
                   THEN payloads \cup {<<q.tid, nextId>>} ELSE payloads
    /\ inbox' = InboxAfterReply(q, turns)
    /\ idem' = IF q.key = Absent THEN idem
               ELSE [idem EXCEPT ![q.user][q.key] =
                      [kind |-> "reply", thread |-> q.tid, message |-> nextId]]
    /\ overwritten' = Overwrites(thread[q.tid], q.snap, q.tid)
    /\ answered' = IF q.key = Absent THEN answered
                   ELSE answered \cup {[user |-> q.user, key |-> q.key, thread |-> q.tid, id |-> nextId]}
    /\ Answer(r)
    /\ UNCHANGED <<proposals, consented, denied>>

-----------------------------------------------------------------------------
(* closeThread *)

CloseStart(r) ==
  \E u \in Users, t \in Ids :
    /\ ReadOwnInbox(r, "close", u, t)
    /\ Becomes(r, [Idle EXCEPT !.op = "close", !.pc = "thread", !.user = u, !.tid = t])
    /\ UNCHANGED <<rows, history>>

CloseThread(r) ==
  LET q == req[r]
      row == thread[q.tid]
  IN /\ At(r, "close", "thread")
     /\ IF row # Absent /\ Visible(q.user, row) /\ row.status # "closed"
        THEN Becomes(r, [q EXCEPT !.pc = "commit", !.snap = row])
        ELSE Answer(r)
     /\ UNCHANGED <<rows, history>>

CloseCommit(r) ==
  LET q == req[r] IN
  /\ At(r, "close", "commit")
  /\ thread' = [thread EXCEPT ![q.tid] = [q.snap EXCEPT !.status = "closed"]]
  /\ overwritten' = Overwrites(thread[q.tid], q.snap, q.tid)
  /\ Answer(r)
  /\ UNCHANGED <<inbox, messages, payloads, idem, proposals, nextId, answered, consented, denied>>

-----------------------------------------------------------------------------
(* deleteThread *)

DeleteStart(r) ==
  \E u \in Users, t \in Ids :
    /\ ReadOwnInbox(r, "delete", u, t)
    /\ Becomes(r, [Idle EXCEPT !.op = "delete", !.pc = "thread", !.user = u, !.tid = t])
    /\ UNCHANGED <<rows, history>>

\* Only the original sender purges; everybody else, and anybody whose thread
\* is already gone, just drops the own inbox row.
DeleteThread(r) ==
  LET q == req[r]
      row == thread[q.tid]
      to(pc) == Becomes(r, [q EXCEPT !.pc = pc, !.snap = row])
  IN /\ At(r, "delete", "thread")
     /\ IF row = Absent THEN to("drop")
        ELSE IF ~Visible(q.user, row) THEN Answer(r)
             ELSE IF row.from = q.user THEN to("listMessages") ELSE to("drop")
     /\ UNCHANGED <<rows, history>>

DeleteDrop(r) ==
  LET q == req[r] IN
  /\ At(r, "delete", "drop")
  /\ inbox' = [inbox EXCEPT ![q.user][q.tid] = Absent]
  /\ Answer(r)
  /\ UNCHANGED <<thread, messages, payloads, idem, proposals, nextId, history>>

\* kv.list of the messages (with their upvotes and receipts) to be deleted
DeleteListMessages(r) ==
  LET q == req[r] IN
  /\ At(r, "delete", "listMessages")
  /\ Becomes(r, [q EXCEPT !.pc = "listPayloads",
               !.listed = {m.id : m \in {n \in messages : n.thread = q.tid}}])
  /\ UNCHANGED <<rows, history>>

\* kv.list of the app_envelope records to be deleted
DeleteListPayloads(r) ==
  LET q == req[r] IN
  /\ At(r, "delete", "listPayloads")
  /\ Becomes(r, [q EXCEPT !.pc = "dropInboxes",
               !.records = {i \in Ids : <<q.tid, i>> \in payloads}])
  /\ UNCHANGED <<rows, history>>

\* MUTANT: clears the inbox row of the caller only.
DeleteOwnInbox(r) ==
  LET q == req[r] IN
  /\ At(r, "delete", "dropInboxes")
  /\ inbox' = [inbox EXCEPT ![q.user][q.tid] = Absent]
  /\ Becomes(r, [q EXCEPT !.pc = "dropBody"])
  /\ UNCHANGED <<thread, messages, payloads, idem, proposals, nextId, history>>

\* First batch: the inbox rows of the caller and of the members of the
\* caller's organization.
DeleteInboxes(r) ==
  LET q == req[r] IN
  /\ At(r, "delete", "dropInboxes")
  /\ inbox' = [v \in Users |->
       IF v \in {q.user} \cup Members(OrgOf[q.user])
       THEN [inbox[v] EXCEPT ![q.tid] = Absent] ELSE inbox[v]]
  /\ Becomes(r, [q EXCEPT !.pc = "dropBody"])
  /\ UNCHANGED <<thread, messages, payloads, idem, proposals, nextId, history>>

\* Second batch: what was listed, and the thread row.
DeleteBody(r) ==
  LET q == req[r] IN
  /\ At(r, "delete", "dropBody")
  /\ messages' = {m \in messages : m.thread # q.tid \/ m.id \notin q.listed}
  /\ payloads' = payloads \ ({q.tid} \X q.records)
  /\ thread' = [thread EXCEPT ![q.tid] = Absent]
  /\ overwritten' = Overwrites(thread[q.tid], q.snap, q.tid)
  /\ Answer(r)
  /\ UNCHANGED <<inbox, idem, proposals, nextId, answered, consented, denied>>

-----------------------------------------------------------------------------
(* Idempotency rows *)

\* All but the idempotency rows and what was answered for them
mail == <<thread, inbox, messages, payloads, proposals, nextId, req, overwritten, consented, denied>>

\* Both writers of a row give it IDEMPOTENCY_TTL_MS, a day: from then on the
\* store drops it at some moment, whatever is in flight, and a retry that comes
\* later is a reply (or a thread) like any other.
IdemExpires(u, key) ==
  /\ "expire" \in Ops
  /\ idem[u][key] # Absent
  /\ idem' = [idem EXCEPT ![u][key] = Absent]
  /\ answered' = {m \in answered : m.user # u \/ m.key # key}
  /\ UNCHANGED mail

-----------------------------------------------------------------------------

MailStep(r) ==
  \/ CreateStart(r) \/ CreateCommit(r)
  \/ ReplyStart(r) \/ ReplyInbox(r) \/ ReplyThread(r) \/ ReplyPeers(r) \/ ReplyCommit(r)
  \/ CloseStart(r) \/ CloseThread(r) \/ CloseCommit(r)
  \/ DeleteStart(r) \/ DeleteThread(r) \/ DeleteDrop(r)
  \/ DeleteListMessages(r) \/ DeleteListPayloads(r) \/ DeleteInboxes(r) \/ DeleteBody(r)

=============================================================================
