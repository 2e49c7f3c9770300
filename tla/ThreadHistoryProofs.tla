------------------------- MODULE ThreadHistoryProofs -------------------------
(*************************************************************************)
(* What a thread keeps once it is there, and what is left of it when it  *)
(* is purged, for threads no commit replaced blindly.                    *)
(*                                                                       *)
(* RatchetInv says why a commit on the row it read is harmless; BookInv, *)
(* that the row and the messages agree; KeyInv, what a retry finds;      *)
(* ReachInv, who can have the thread in the inbox; PurgeInv, what a      *)
(* purge in flight has listed; MirrorInv, whom a reply in flight found   *)
(* in the thread.                                                        *)
(*************************************************************************)
EXTENDS ThreadConsentProofs, FiniteSetTheorems

-----------------------------------------------------------------------------
(* Rows.
   What a thread row keeps: app_envelope mode, its divider and being closed.
   Ids are fresh, so that a new thread replaces none, a reply holds a row that was
   open, and a downgrade one that was E2E. *)

\* What a request holds when n is the next id.
Cautious(n, q) ==
  /\ q.pc # "idle" /\ q.op # "create" => q.tid < n
  /\ q.op = "reply" /\ q.pc \in {"peers", "commit"} => q.snap.status # "closed"
  /\ q.pc \in {"persist", "ownerInbox", "finalize"} => q.snap.mode = "e2e"

RatchetInv ==
  /\ \A t \in Ids : t >= nextId => thread[t] = Absent /\ \A u \in Users : inbox[u][t] = Absent
  /\ \A r \in Reqs : Cautious(nextId, req[r])

\* Ids are numbers, and so is the next one.
LEMMA NumberType == (Ids \subseteq Nat) /\ (TypeInv => nextId \in Nat)
BY DirectoryAssumption DEF Ids, TypeInv, TypeOK

\* Who has a row for a thread asks for one that was created.
LEMMA RowIsOld ==
  ASSUME RatchetInv, TypeInv, NEW u \in Users, NEW t \in Ids, inbox[u][t] # Absent
  PROVE  t < nextId
BY NumberType DEF RatchetInv

\* What a request holds stays cautious when more ids are handed out.
LEMMA CautiousGrows ==
  ASSUME TypeInv, nextId' \in {nextId, nextId + 1}, NEW r \in Reqs, Cautious(nextId, req[r])
  PROVE  Cautious(nextId', req[r])
<1>1. PICK q : q = req[r]
  OBVIOUS
<1>2. q.pc # "idle" /\ q.op # "create" => q.tid \in Ids
  BY <1>1, ReqType DEF Placed
<1>3. PICK n, m : n = nextId /\ m = nextId'
  OBVIOUS
<1>4. n \in Nat /\ m \in {n, n + 1} /\ Cautious(n, q)
  BY <1>1, <1>3, NumberType
<1>5. q.pc # "idle" /\ q.op # "create" => q.tid \in Nat
  BY <1>2, NumberType
<1>6. Cautious(m, q)
  BY <1>4, <1>5 DEF Cautious
<1> QED
  BY <1>1, <1>3, <1>6

\* A step of one request that touches no row of an id yet to be given.
LEMMA RatchetKept ==
  ASSUME TypeInv, RatchetInv, NEW r \in Reqs, NEW q, Becomes(r, q),
         nextId' \in {nextId, nextId + 1}, Cautious(nextId', q),
         \A t \in Ids : t >= nextId' =>
           /\ thread'[t] = thread[t]
           /\ \A u \in Users : inbox'[u][t] = inbox[u][t]
  PROVE  RatchetInv'
<1>1. ASSUME NEW t \in Ids, t >= nextId'
      PROVE  thread'[t] = Absent /\ \A u \in Users : inbox'[u][t] = Absent
  <2>1. t >= nextId
    BY <1>1, NumberType
  <2> QED
    BY <1>1, <2>1 DEF RatchetInv
<1>2. ASSUME NEW s \in Reqs PROVE Cautious(nextId', req'[s])
  <2>1. req' = [req EXCEPT ![r] = q] /\ req \in [Reqs -> Request]
    BY DEF Becomes, TypeInv, TypeOK
  <2>2. CASE s = r
    BY <2>1, <2>2
  <2>3. CASE s # r
    BY <2>1, <2>3, CautiousGrows DEF RatchetInv
  <2> QED
    BY <2>2, <2>3
<1> QED
  BY <1>1, <1>2 DEF RatchetInv

\* The empty record of a request holds no row.
LEMMA IdleCautious == \A n : Cautious(n, Idle)
BY IdlePlace DEF Cautious

(***************************************************************************)
(* A step in which one request only reads keeps the ratchet invariant, if  *)
(* the request stays cautious.                                             *)
(***************************************************************************)
LEMMA RatchetRead ==
  ASSUME TypeInv, RatchetInv, NEW r \in Reqs, NEW q, Becomes(r, q),
         UNCHANGED <<rows, history>>, Cautious(nextId, q)
  PROVE  RatchetInv'
BY RatchetKept DEF rows, history

\* A step that answers.
LEMMA RatchetAnswer ==
  ASSUME TypeInv, RatchetInv, NEW r \in Reqs, Answer(r),
         nextId' \in {nextId, nextId + 1},
         \A t \in Ids : t >= nextId' =>
           /\ thread'[t] = thread[t]
           /\ \A u \in Users : inbox'[u][t] = inbox[u][t]
  PROVE  RatchetInv'
BY RatchetKept, IdleCautious DEF Answer

\* A request that has just come in keeps the ratchet invariant.
LEMMA StartRatchet ==
  ASSUME TypeInv, RatchetInv, NEW r \in Reqs,
         \/ CreateStart(r) \/ ReplyStart(r) \/ CloseStart(r) \/ DeleteStart(r) \/ ProposeStart(r)
         \/ \E u \in Users, p \in Ids : ApproveStart(r, u, p) \/ DenyStart(r, u, p)
  PROVE  RatchetInv'
<1>1. CASE CreateStart(r)
  <2>1. PICK u, a, to, key, q :
          /\ q = [Idle EXCEPT !.op = "create", !.pc = "commit", !.user = u,
                              !.agent = a, !.to = to, !.key = key]
          /\ Becomes(r, q) /\ UNCHANGED <<rows, history>>
    BY <1>1 DEF CreateStart
  <2>2. q.op = "create" /\ q.pc = "commit"
    BY <2>1, IdleRequest DEF Request
  <2> QED
    BY <2>1, <2>2, RatchetRead DEF Cautious
<1>2. CASE ReplyStart(r)
  <2>1. PICK u, a, t, key, late, q :
          /\ a \in Agents /\ u = Owner(a) /\ t \in Ids /\ inbox[u][t] # Absent
          /\ q = [Idle EXCEPT !.op = "reply", !.pc = "inbox", !.user = u, !.tid = t,
                              !.agent = a, !.key = key, !.late = late]
          /\ Becomes(r, q) /\ UNCHANGED <<rows, history>>
    BY <1>2 DEF ReplyStart, ReadOwnInbox
  <2>2. q.op = "reply" /\ q.pc = "inbox" /\ q.tid = t
    BY <2>1, IdleRequest DEF Request
  <2>3. t < nextId
    BY <2>1, OwnerType, RowIsOld
  <2> QED
    BY <2>1, <2>2, <2>3, RatchetRead DEF Cautious
<1>3. CASE CloseStart(r) \/ DeleteStart(r)
  <2>1. PICK u, t, op, q :
          /\ u \in Users /\ t \in Ids /\ op \in {"close", "delete"} /\ inbox[u][t] # Absent
          /\ q = [Idle EXCEPT !.op = op, !.pc = "thread", !.user = u, !.tid = t]
          /\ Becomes(r, q) /\ UNCHANGED <<rows, history>>
    BY <1>3 DEF CloseStart, DeleteStart, ReadOwnInbox
  <2>2. q.op = op /\ q.pc = "thread" /\ q.tid = t
    BY <2>1, IdleRequest DEF Request
  <2>3. t < nextId
    BY <2>1, RowIsOld
  <2> QED
    BY <2>1, <2>2, <2>3, RatchetRead DEF Cautious
<1>4. CASE ProposeStart(r)
  <2>1. PICK u, t, w, q :
          /\ u \in Users /\ t \in Ids /\ w \in Agents /\ inbox[u][t] # Absent
          /\ q = [Idle EXCEPT !.op = "propose", !.pc = "thread", !.user = u, !.tid = t, !.agent = w]
          /\ Becomes(r, q) /\ UNCHANGED <<rows, history>>
    BY <1>4 DEF ProposeStart, ReadOwnInbox
  <2>2. q.op = "propose" /\ q.pc = "thread" /\ q.tid = t
    BY <2>1, IdleRequest DEF Request
  <2>3. t < nextId
    BY <2>1, RowIsOld
  <2> QED
    BY <2>1, <2>2, <2>3, RatchetRead DEF Cautious
<1>5. ASSUME NEW u \in Users, NEW p \in Ids, ApproveStart(r, u, p) \/ DenyStart(r, u, p)
      PROVE  RatchetInv'
  <2>1. PICK t, op, q :
          /\ t = proposals[p].thread /\ proposals[p] # Absent /\ inbox[u][t] # Absent
          /\ op \in {"approve", "deny"}
          /\ q = [Idle EXCEPT !.op = op, !.pc = "thread", !.user = u, !.tid = t, !.pid = p]
          /\ Becomes(r, q) /\ UNCHANGED rows
    BY <1>5 DEF ApproveStart, DenyStart, ReadOwnInbox
  <2>2. q.op = op /\ q.pc = "thread" /\ q.tid = t
    BY <2>1, IdleRequest DEF Request
  <2>3. t \in Ids
    BY <2>1 DEF TypeInv, TypeOK, ProposalRow
  <2>4. t < nextId
    BY <2>1, <2>3, RowIsOld
  <2>5. Cautious(nextId', q)
    BY <2>1, <2>2, <2>4 DEF Cautious, rows
  <2> QED
    BY <2>1, <2>5, RatchetKept DEF rows
<1> QED
  BY <1>1, <1>2, <1>3, <1>4, <1>5

(***************************************************************************)
(* The reads of createThread, postReply, closeThread and deleteThread keep *)
(* the ratchet invariant.                                                  *)
(***************************************************************************)
LEMMA MailReadRatchet ==
  ASSUME TypeInv, RatchetInv, NEW r \in Reqs,
         \/ ReplyInbox(r) \/ ReplyThread(r) \/ ReplyPeers(r) \/ CloseThread(r)
         \/ DeleteThread(r) \/ DeleteListMessages(r) \/ DeleteListPayloads(r)
  PROVE  RatchetInv'
<1> DEFINE p == req[r]
<1>1. p \in Request /\ Cautious(nextId, p)
  BY ReqType DEF RatchetInv
<1>2. CASE Answer(r)
  BY <1>2, RatchetAnswer DEF ReplyInbox, ReplyThread, ReplyPeers, CloseThread, DeleteThread,
     DeleteListMessages, DeleteListPayloads, rows, history
<1>3. CASE ReplyInbox(r) /\ ~Answer(r)
  <2>1. PICK role, q :
          /\ p.op = "reply" /\ p.pc = "inbox" /\ q = [p EXCEPT !.pc = "thread", !.own = role]
          /\ Becomes(r, q) /\ UNCHANGED <<rows, history>>
    BY <1>3 DEF ReplyInbox, At
  <2> HIDE DEF p
  <2>2. q.op = "reply" /\ q.pc = "thread" /\ q.tid = p.tid
    BY <1>1, <2>1 DEF Request
  <2> QED
    BY <1>1, <2>1, <2>2, RatchetRead DEF Cautious
<1>4. CASE ReplyThread(r) /\ ~Answer(r)
  <2>1. PICK wire, to :
          /\ p.op = "reply" /\ p.pc = "thread"
          /\ ReplyAllowed(p, thread[p.tid], wire, to)
          /\ Becomes(r, [p EXCEPT !.pc = "peers", !.snap = thread[p.tid], !.to = to])
          /\ UNCHANGED <<rows, history>>
    BY <1>4 DEF ReplyThread, At
  <2> HIDE DEF p
  <2>2. PICK row, q :
          row = thread[p.tid] /\ q = [p EXCEPT !.pc = "peers", !.snap = row, !.to = to]
    OBVIOUS
  <2>3. q.op = "reply" /\ q.pc = "peers" /\ q.snap = row /\ q.tid = p.tid
    BY <1>1, <2>1, <2>2 DEF Request
  <2>4. row.status # "closed"
    BY <2>1, <2>2 DEF ReplyAllowed
  <2>5. Cautious(nextId, q)
    BY <1>1, <2>1, <2>3, <2>4 DEF Cautious
  <2> QED
    BY <2>1, <2>2, <2>5, RatchetRead
<1>5. CASE ReplyPeers(r)
  <2>1. PICK peers, q :
          /\ p.op = "reply" /\ p.pc = "peers" /\ q = [p EXCEPT !.pc = "commit", !.peers = peers]
          /\ Becomes(r, q) /\ UNCHANGED <<rows, history>>
    BY <1>5 DEF ReplyPeers, At
  <2> HIDE DEF p
  <2>2. q.op = "reply" /\ q.pc = "commit" /\ q.snap = p.snap /\ q.tid = p.tid
    BY <1>1, <2>1 DEF Request
  <2>3. Cautious(nextId, q)
    BY <1>1, <2>1, <2>2 DEF Cautious
  <2> QED
    BY <2>1, <2>3, RatchetRead
<1>6. CASE (CloseThread(r) \/ DeleteThread(r) \/ DeleteListMessages(r) \/ DeleteListPayloads(r))
           /\ ~Answer(r)
  <2>1. PICK pc, row, listed, records, q :
          /\ p.op \in {"close", "delete"} /\ p.pc # "idle"
          /\ pc \in {"commit", "drop", "listMessages", "listPayloads", "dropInboxes"}
          /\ \/ q = [p EXCEPT !.pc = pc, !.snap = row]
             \/ q = [p EXCEPT !.pc = pc, !.listed = listed]
             \/ q = [p EXCEPT !.pc = pc, !.records = records]
          /\ Becomes(r, q) /\ UNCHANGED <<rows, history>>
    <3>1. CASE CloseThread(r) \/ DeleteThread(r)
      BY <1>6, <3>1 DEF CloseThread, DeleteThread, At
    <3>2. CASE DeleteListMessages(r)
      BY <1>6, <3>2 DEF DeleteListMessages, At
    <3>3. CASE DeleteListPayloads(r)
      BY <1>6, <3>3 DEF DeleteListPayloads, At
    <3> QED
      BY <1>6, <3>1, <3>2, <3>3
  <2> HIDE DEF p
  <2>2. q.op = p.op /\ q.pc = pc /\ q.tid = p.tid
    BY <1>1, <2>1 DEF Request
  <2>3. Cautious(nextId, q)
    BY <1>1, <2>1, <2>2 DEF Cautious
  <2> QED
    BY <2>1, <2>3, RatchetRead
<1> QED
  BY <1>2, <1>3, <1>4, <1>5, <1>6

(***************************************************************************)
(* The reads of propose, approve, deny, finalize and fetch keep the        *)
(* ratchet invariant.                                                      *)
(***************************************************************************)
LEMMA ConsentReadRatchet ==
  ASSUME TypeInv, RatchetInv, NEW r \in Reqs,
         \/ LoadThread(r) \/ ProposeCheck(r) \/ ApproveProposal(r) \/ DenyProposal(r)
         \/ FinalizeInbox(r)
  PROVE  RatchetInv'
<1> DEFINE p == req[r]
<1>1. p \in Request /\ Placed(p) /\ Cautious(nextId, p)
  BY ReqType DEF RatchetInv
<1>2. CASE Answer(r)
  BY <1>2, RatchetAnswer DEF LoadThread, ProposeCheck, ApproveProposal, DenyProposal,
     FinalizeInbox, rows, history
<1>3. CASE LoadThread(r) /\ ~Answer(r)
  <2>1. PICK pc, row, q :
          /\ p.op \in Consent /\ p.pc = "thread" /\ pc \in {"check", "proposal"}
          /\ q = [p EXCEPT !.snap = row, !.pc = pc]
          /\ Becomes(r, q) /\ UNCHANGED <<rows, history>>
    BY <1>3 DEF LoadThread, Consent
  <2> HIDE DEF p
  <2>2. q.op = p.op /\ q.pc = pc /\ q.tid = p.tid
    BY <1>1, <2>1 DEF Request
  <2>3. Cautious(nextId, q)
    BY <1>1, <2>1, <2>2 DEF Cautious, Consent
  <2> QED
    BY <2>1, <2>3, RatchetRead
<1>4. CASE ProposeCheck(r) /\ ~Answer(r)
  <2>1. PICK prop, q :
          /\ p.op = "propose" /\ p.pc = "check" /\ p.snap.mode = "e2e"
          /\ q = [p EXCEPT !.pc = "persist", !.prop = prop]
          /\ Becomes(r, q) /\ UNCHANGED <<rows, history>>
    BY <1>4 DEF ProposeCheck, At
  <2> HIDE DEF p
  <2>2. q.op = "propose" /\ q.pc = "persist" /\ q.snap = p.snap /\ q.tid = p.tid
    BY <1>1, <2>1 DEF Request
  <2>3. Cautious(nextId, q)
    BY <1>1, <2>1, <2>2 DEF Cautious
  <2> QED
    BY <2>1, <2>3, RatchetRead
<1>5. CASE (ApproveProposal(r) \/ DenyProposal(r)) /\ ~Answer(r)
  <2>1. PICK prop, pc, q :
          /\ p.op \in {"approve", "deny"} /\ p.pc = "proposal"
          /\ pc \in {"ownerInbox", "save"} /\ (pc = "ownerInbox" => p.snap.mode = "e2e")
          /\ q = [p EXCEPT !.prop = prop, !.pc = pc]
          /\ Becomes(r, q) /\ UNCHANGED <<rows, history>>
    BY <1>5 DEF ApproveProposal, DenyProposal, At
  <2> HIDE DEF p
  <2>2. q.op = p.op /\ q.pc = pc /\ q.snap = p.snap /\ q.tid = p.tid
    BY <1>1, <2>1 DEF Request
  <2>3. Cautious(nextId, q)
    BY <1>1, <2>1, <2>2 DEF Cautious
  <2> QED
    BY <2>1, <2>3, RatchetRead
<1>6. CASE FinalizeInbox(r)
  <2>1. PICK owner, q :
          /\ p.pc = "ownerInbox" /\ q = [p EXCEPT !.pc = "finalize", !.owner = owner]
          /\ Becomes(r, q) /\ UNCHANGED <<rows, history>>
    BY <1>6 DEF FinalizeInbox
  <2> HIDE DEF p
  <2>2. q.op = p.op /\ q.pc = "finalize" /\ q.snap = p.snap /\ q.tid = p.tid
    BY <1>1, <2>1 DEF Request
  <2>3. Cautious(nextId, q)
    BY <1>1, <2>1, <2>2 DEF Cautious
  <2> QED
    BY <2>1, <2>3, RatchetRead
<1> QED
  BY <1>2, <1>3, <1>4, <1>5, <1>6

\* Commits write rows of the thread they belong to, or of a fresh one.
LEMMA CommitRatchet ==
  ASSUME TypeInv, RatchetInv, NEW r \in Reqs,
         \/ CreateCommit(r) \/ ReplyCommit(r) \/ CloseCommit(r)
         \/ DeleteDrop(r) \/ DeleteBody(r)
         \/ ApproveSave(r) \/ DenySave(r) \/ FinalizeCommit(r)
  PROVE  RatchetInv'
<1> DEFINE p == req[r]
<1>1. p \in Request /\ Placed(p) /\ Cautious(nextId, p) /\ nextId \in Nat
  BY ReqType, NumberType DEF RatchetInv
<1>2. CASE CreateCommit(r)
  <2>1. PICK row, box :
          /\ nextId' = nextId + 1 /\ Answer(r)
          /\ thread' = [thread EXCEPT ![nextId] = row]
          /\ inbox' = [v \in Users |->
               IF v \in {p.user} \cup Recipients(p.user, p.to)
               THEN [inbox[v] EXCEPT ![nextId] = box[v]] ELSE inbox[v]]
    <3>1. PICK turns \in TurnChoices :
            inbox' = [v \in Users |->
               IF v \in {p.user} \cup Recipients(p.user, p.to)
               THEN [inbox[v] EXCEPT ![nextId] =
                       FirstInboxRow(NewThread(p.user, p.agent, p.to, turns), p.user, v)]
               ELSE inbox[v]]
      BY <1>2 DEF CreateCommit
    <3>2. PICK box : box = [v \in Users |->
                       FirstInboxRow(NewThread(p.user, p.agent, p.to, turns), p.user, v)]
      OBVIOUS
    <3>3. inbox' = [v \in Users |->
               IF v \in {p.user} \cup Recipients(p.user, p.to)
               THEN [inbox[v] EXCEPT ![nextId] = box[v]] ELSE inbox[v]]
      BY <3>1, <3>2
    <3>4. PICK row : nextId' = nextId + 1 /\ Answer(r) /\ thread' = [thread EXCEPT ![nextId] = row]
      BY <1>2 DEF CreateCommit
    <3> QED
      BY <3>3, <3>4
  <2>2. ASSUME NEW t \in Ids, t >= nextId'
        PROVE  thread'[t] = thread[t] /\ \A u \in Users : inbox'[u][t] = inbox[u][t]
    <3>1. t # nextId
      BY <1>1, <2>1, <2>2, NumberType
    <3> QED
      BY <2>1, <3>1 DEF TypeInv, TypeOK
  <2> QED
    BY <2>1, <2>2, RatchetAnswer
<1>3. CASE ReplyCommit(r)
  <2>1. PICK row, box :
          /\ p.op = "reply" /\ p.pc = "commit" /\ nextId' = nextId + 1 /\ Answer(r)
          /\ thread' = [thread EXCEPT ![p.tid] = row]
          /\ \A v \in Users : inbox'[v] \in {inbox[v], [inbox[v] EXCEPT ![p.tid] = box[v]]}
    <3>1. PICK turns \in TurnChoices : inbox' = InboxAfterReply(p, turns)
      BY <1>3 DEF ReplyCommit
    <3>2. PICK box : box = [v \in Users |->
            [status |-> StatusAfterReply(p, turns, v),
             role |-> IF v = p.user /\ (turns = Absent \/ p.peers[v] = Absent)
                      THEN p.own ELSE p.peers[v]]]
      OBVIOUS
    <3>3. \A v \in Users : inbox'[v] \in {inbox[v], [inbox[v] EXCEPT ![p.tid] = box[v]]}
      BY <3>1, <3>2 DEF InboxAfterReply
    <3> QED
      BY <1>3, <3>3 DEF ReplyCommit, At
  <2>2. p.tid \in Ids /\ p.tid < nextId
    BY <1>1, <2>1 DEF Placed, Cautious
  <2>3. ASSUME NEW t \in Ids, t >= nextId'
        PROVE  thread'[t] = thread[t] /\ \A u \in Users : inbox'[u][t] = inbox[u][t]
    <3>1. t # p.tid
      BY <1>1, <2>1, <2>2, <2>3, NumberType
    <3> QED
      BY <2>1, <3>1 DEF TypeInv, TypeOK
  <2> QED
    BY <2>1, <2>3, RatchetAnswer
<1>4. CASE CloseCommit(r) \/ DeleteDrop(r) \/ DeleteBody(r)
  <2>1. PICK row :
          /\ p.op \in {"close", "delete"} /\ p.pc # "idle" /\ nextId' = nextId /\ Answer(r)
          /\ thread' \in {thread, [thread EXCEPT ![p.tid] = row]}
          /\ inbox' \in {inbox, [inbox EXCEPT ![p.user][p.tid] = Absent]}
    BY <1>4 DEF CloseCommit, DeleteDrop, DeleteBody, At
  <2>2. p.tid < nextId
    BY <1>1, <2>1 DEF Cautious
  <2>3. ASSUME NEW t \in Ids, t >= nextId'
        PROVE  thread'[t] = thread[t] /\ \A u \in Users : inbox'[u][t] = inbox[u][t]
    <3>1. t # p.tid
      BY <1>1, <2>1, <2>2, <2>3, NumberType
    <3>2. thread'[t] = thread[t]
      BY <2>1, <3>1 DEF TypeInv, TypeOK
    <3>3. inbox' = [inbox EXCEPT ![p.user][p.tid] = Absent] => \A u \in Users : inbox'[u][t] = inbox[u][t]
      BY <3>1 DEF TypeInv, TypeOK
    <3> QED
      BY <2>1, <3>2, <3>3
  <2> QED
    BY <2>1, <2>3, RatchetAnswer
<1>5. CASE ApproveSave(r) \/ DenySave(r)
  BY <1>5, RatchetAnswer DEF ApproveSave, DenySave
<1>6. CASE FinalizeCommit(r)
  <2>1. PICK row :
          /\ p.pc = "finalize" /\ nextId' = nextId + 1 /\ Answer(r)
          /\ thread' = [thread EXCEPT ![p.tid] = row]
          /\ inbox' = [inbox EXCEPT ![Owner(p.prop.agent)][p.tid] = p.owner]
    BY <1>6 DEF FinalizeCommit
  <2>2. p.tid \in Ids /\ p.tid < nextId
    BY <1>1, <2>1 DEF Placed, Cautious, Consent
  <2>3. ASSUME NEW t \in Ids, t >= nextId'
        PROVE  thread'[t] = thread[t] /\ \A u \in Users : inbox'[u][t] = inbox[u][t]
    <3>1. t # p.tid
      BY <1>1, <2>1, <2>2, <2>3, NumberType
    <3> QED
      BY <2>1, <3>1 DEF TypeInv, TypeOK
  <2> QED
    BY <2>1, <2>3, RatchetAnswer
<1> QED
  BY <1>2, <1>3, <1>4, <1>5, <1>6

\* The two commits that go on: a proposal that is unanimous at once, and the
\* first batch of a purge.
LEMMA MiddleCommitRatchet ==
  ASSUME TypeInv, RatchetInv, NEW r \in Reqs, ProposePersist(r) \/ DeleteInboxes(r)
  PROVE  RatchetInv'
<1> DEFINE p == req[r]
<1>1. p \in Request /\ Placed(p) /\ Cautious(nextId, p) /\ nextId \in Nat
  BY ReqType, NumberType DEF RatchetInv
<1>2. CASE ProposePersist(r)
  <2>1. /\ p.op = "propose" /\ p.pc = "persist" /\ nextId' = nextId + 1
        /\ Becomes(r, [p EXCEPT !.pc = "ownerInbox", !.pid = nextId]) \/ Answer(r)
        /\ UNCHANGED <<thread, inbox>>
    BY <1>2 DEF ProposePersist, At
  <2> HIDE DEF p
  <2>2. CASE Answer(r)
    BY <2>1, <2>2, RatchetAnswer
  <2>3. CASE Becomes(r, [p EXCEPT !.pc = "ownerInbox", !.pid = nextId])
    <3>1. PICK id, q : id = nextId /\ q = [p EXCEPT !.pc = "ownerInbox", !.pid = id]
      OBVIOUS
    <3>2. q.op = "propose" /\ q.pc = "ownerInbox" /\ q.snap = p.snap /\ q.tid = p.tid
      BY <1>1, <2>1, <3>1 DEF Request
    <3>3. p.tid \in Nat
      BY <1>1, <2>1, NumberType DEF Placed
    <3>4. Cautious(nextId', q)
      BY <1>1, <2>1, <3>2, <3>3 DEF Cautious
    <3> QED
      BY <2>1, <2>3, <3>1, <3>4, RatchetKept
  <2> QED
    BY <2>1, <2>2, <2>3
<1>3. CASE DeleteInboxes(r)
  <2>1. /\ p.op = "delete" /\ p.pc = "dropInboxes"
        /\ inbox' = [v \in Users |->
             IF v \in {p.user} \cup Members(OrgOf[p.user])
             THEN [inbox[v] EXCEPT ![p.tid] = Absent] ELSE inbox[v]]
        /\ Becomes(r, [p EXCEPT !.pc = "dropBody"])
        /\ UNCHANGED <<thread, nextId>>
    BY <1>3 DEF DeleteInboxes, At
  <2> HIDE DEF p
  <2>2. PICK q : q = [p EXCEPT !.pc = "dropBody"]
    OBVIOUS
  <2>3. q.op = "delete" /\ q.pc = "dropBody" /\ q.tid = p.tid
    BY <1>1, <2>1, <2>2 DEF Request
  <2>4. Cautious(nextId', q) /\ p.tid < nextId
    BY <1>1, <2>1, <2>3 DEF Cautious
  <2>5. ASSUME NEW t \in Ids, t >= nextId', NEW u \in Users PROVE inbox'[u][t] = inbox[u][t]
    <3>1. t # p.tid
      BY <1>1, <2>1, <2>4, <2>5, NumberType
    <3> QED
      BY <2>1, <3>1 DEF TypeInv, TypeOK
  <2> QED
    BY <2>1, <2>2, <2>4, <2>5, RatchetKept
<1> QED
  BY <1>2, <1>3

\* At the start no row exists and every request is idle.
LEMMA InitRatchet == Init => RatchetInv
<1> SUFFICES ASSUME Init PROVE RatchetInv
  OBVIOUS
<1>1. \A r \in Reqs : Cautious(nextId, req[r])
  BY IdleCautious DEF Init
<1> QED
  BY <1>1 DEF Init, RatchetInv

\* Every step of every handler keeps the ratchet invariant.
LEMMA StepRatchet == TypeInv /\ RatchetInv /\ [Next]_vars => RatchetInv'
<1> SUFFICES ASSUME TypeInv, RatchetInv, [Next]_vars PROVE RatchetInv'
  OBVIOUS
<1>1. CASE UNCHANGED mail
  BY <1>1 DEF RatchetInv, mail
<1>2. ASSUME NEW r \in Reqs, MailStep(r) PROVE RatchetInv'
  BY <1>2, StartRatchet, MailReadRatchet, CommitRatchet, MiddleCommitRatchet DEF MailStep
<1>3. ASSUME NEW r \in Reqs, ConsentStep(r) PROVE RatchetInv'
  BY <1>3, StartRatchet, ConsentReadRatchet, CommitRatchet, MiddleCommitRatchet DEF ConsentStep
<1>4. ASSUME NEW r \in Reqs, Crash(r) PROVE RatchetInv'
  BY <1>4, RatchetAnswer DEF Crash, rows, history
<1> QED
  BY <1>1, <1>2, <1>3, <1>4, Steps

-----------------------------------------------------------------------------
(* What a step does to a thread *)

\* Mode, divider and closing of thread t outlast the step.
Lasting(t) ==
  /\ thread[t].mode = "app_envelope"
       => thread'[t].mode = "app_envelope" /\ thread'[t].point = thread[t].point
  /\ thread[t].status = "closed"
       => /\ thread'[t].status = "closed"
          /\ In(t) \subseteq In(t)'
          /\ \A m \in In(t)' \ In(t) : m.from = "system"

\* The same row, and at most one new message, which belongs to another thread.
LEMMA OtherThread ==
  ASSUME NEW t \in Ids, thread'[t] = thread[t],
         messages' = messages \/ \E m : m.thread # t /\ messages' = messages \cup {m}
  PROVE  Lasting(t)
BY DEF Lasting, In

\* Steps that write neither threads nor messages.
LEMMA QuietStep ==
  ASSUME NEW r \in Reqs, MailStep(r) \/ ConsentStep(r) \/ Crash(r),
         ~CreateCommit(r), ~ReplyCommit(r), ~CloseCommit(r), ~DeleteBody(r), ~FinalizeCommit(r)
  PROVE  UNCHANGED <<thread, messages>>
<1>1. CASE Crash(r)
  BY <1>1 DEF Crash, rows
<1>2. CASE MailStep(r)
  BY <1>2 DEF MailStep, CreateStart, ReplyStart, ReplyInbox, ReplyThread, ReplyPeers, CloseStart,
     CloseThread, DeleteStart, DeleteThread, DeleteDrop, DeleteListMessages, DeleteListPayloads,
     DeleteInboxes, rows
<1>3. CASE ConsentStep(r)
  BY <1>3 DEF ConsentStep, ProposeStart, ProposeCheck, ProposePersist, ApproveStart, DenyStart,
     LoadThread, ApproveProposal, ApproveSave, DenyProposal, DenySave, FinalizeInbox, rows
<1> QED
  BY <1>1, <1>2, <1>3

\* A commit on the row it read keeps what must last; so does one on another
\* thread, and no commit creates a thread that is there.
LEMMA CommitLasting ==
  ASSUME TypeInv, RatchetInv, NEW r \in Reqs, NEW t \in Ids,
         thread[t] # Absent, thread'[t] # Absent, t \notin overwritten',
         CreateCommit(r) \/ ReplyCommit(r) \/ CloseCommit(r) \/ DeleteBody(r) \/ FinalizeCommit(r)
  PROVE  Lasting(t)
<1> DEFINE p == req[r]
<1>1. p \in Request /\ Placed(p) /\ Cautious(nextId, p)
  BY ReqType DEF RatchetInv
<1>2. CASE CreateCommit(r)
  <2>1. PICK m, row : /\ m.thread = nextId /\ messages' = messages \cup {m}
                      /\ thread' = [thread EXCEPT ![nextId] = row]
    BY <1>2 DEF CreateCommit
  <2>2. t # nextId
    BY NumberType DEF RatchetInv
  <2> QED
    BY <2>1, <2>2, OtherThread DEF TypeInv, TypeOK
<1>3. CASE ReplyCommit(r)
  <2>1. PICK turns \in TurnChoices :
          /\ p.op = "reply" /\ p.pc = "commit"
          /\ thread' = [thread EXCEPT ![p.tid] = RepliedThread(p, turns)]
          /\ overwritten' = Overwrites(thread[p.tid], p.snap, p.tid)
    BY <1>3 DEF ReplyCommit, At
  <2>2. PICK m : m.thread = p.tid /\ messages' = messages \cup {m}
    BY <1>3 DEF ReplyCommit
  <2> HIDE DEF p
  <2>3. CASE t # p.tid
    BY <2>1, <2>2, <2>3, OtherThread DEF TypeInv, TypeOK
  <2>4. CASE t = p.tid
    <3>1. thread[t] = p.snap /\ p.snap \in ThreadRow /\ p.snap.status # "closed"
      BY <1>1, <2>1, <2>4 DEF Overwrites, Placed, Cautious
    <3>2. thread'[t] = RepliedThread(p, turns)
      BY <2>1, <2>4 DEF TypeInv, TypeOK
    <3>3. thread'[t].mode = p.snap.mode /\ thread'[t].point = p.snap.point
      BY <3>1, <3>2 DEF RepliedThread, ThreadRow
    <3> QED
      BY <3>1, <3>3 DEF Lasting
  <2> QED
    BY <2>3, <2>4
<1>4. CASE CloseCommit(r)
  <2>1. PICK row :
          /\ p.op = "close" /\ p.pc = "commit" /\ row = [p.snap EXCEPT !.status = "closed"]
          /\ thread' = [thread EXCEPT ![p.tid] = row] /\ messages' = messages
          /\ overwritten' = Overwrites(thread[p.tid], p.snap, p.tid)
    BY <1>4 DEF CloseCommit, At
  <2> HIDE DEF p
  <2>2. CASE t # p.tid
    BY <2>1, <2>2, OtherThread DEF TypeInv, TypeOK
  <2>3. CASE t = p.tid
    <3>1. thread[t] = p.snap /\ p.snap \in ThreadRow /\ thread'[t] = row
      BY <1>1, <2>1, <2>3 DEF Overwrites, Placed, TypeInv, TypeOK
    <3>2. row.mode = p.snap.mode /\ row.point = p.snap.point /\ row.status = "closed"
      BY <2>1, <3>1 DEF ThreadRow
    <3> QED
      BY <2>1, <3>1, <3>2 DEF Lasting, In
  <2> QED
    BY <2>2, <2>3
<1>5. CASE DeleteBody(r)
  <2>1. /\ thread' = [thread EXCEPT ![p.tid] = Absent]
        /\ messages' = {m \in messages : m.thread # p.tid \/ m.id \notin p.listed}
    BY <1>5 DEF DeleteBody
  <2> HIDE DEF p
  <2>2. t # p.tid
    BY <2>1 DEF TypeInv, TypeOK
  <2>3. thread'[t] = thread[t]
    BY <2>1, <2>2 DEF TypeInv, TypeOK
  <2> QED
    BY <2>1, <2>2, <2>3 DEF Lasting, In
<1>6. CASE FinalizeCommit(r)
  <2>1. PICK row :
          /\ p.pc = "finalize" /\ row = DowngradedThread(p, nextId)
          /\ thread' = [thread EXCEPT ![p.tid] = row]
          /\ p.tid \notin overwritten' => thread[p.tid] = p.snap
    BY <1>6 DEF FinalizeCommit, Overwrites
  <2>2. PICK m : m.thread = p.tid /\ m.from = "system" /\ messages' = messages \cup {m}
    BY <1>6 DEF FinalizeCommit
  <2> HIDE DEF p
  <2>3. CASE t # p.tid
    BY <2>1, <2>2, <2>3, OtherThread DEF TypeInv, TypeOK
  <2>4. CASE t = p.tid
    <3>1. thread[t] = p.snap /\ p.snap \in ThreadRow /\ p.snap.mode = "e2e" /\ thread'[t] = row
      BY <1>1, <2>1, <2>4 DEF Placed, Cautious, TypeInv, TypeOK
    <3>2. row.status = p.snap.status
      BY <2>1, <3>1 DEF DowngradedThread, ThreadRow
    <3> QED
      BY <2>2, <3>1, <3>2 DEF Lasting, In
  <2> QED
    BY <2>3, <2>4
<1> QED
  BY <1>2, <1>3, <1>4, <1>5, <1>6

(***************************************************************************)
(* No step of any handler takes back a downgrade or a close except by a    *)
(* blind overwrite.                                                        *)
(***************************************************************************)
LEMMA StepLasting ==
  ASSUME TypeInv, RatchetInv, [Next]_vars, NEW t \in Ids,
         thread[t] # Absent, thread'[t] # Absent, t \notin overwritten'
  PROVE  Lasting(t)
<1>1. CASE UNCHANGED <<thread, messages>>
  BY <1>1, OtherThread
<1>2. CASE UNCHANGED mail
  BY <1>1, <1>2 DEF mail
<1>3. ASSUME NEW r \in Reqs, MailStep(r) \/ ConsentStep(r) \/ Crash(r) PROVE Lasting(t)
  BY <1>1, <1>3, QuietStep, CommitLasting
<1> QED
  BY <1>2, <1>3, Steps

\* Ids are fresh, and what requests hold is never a closed row to reply to or
\* a hub-readable one to downgrade.
THEOREM RatchetInvariant == Spec => [](TypeInv /\ RatchetInv)
BY InitType, StepType, InitRatchet, StepRatchet, PTL DEF Spec

\* The ratchet holds step by step as long as no commit replaced the row of the
\* thread blindly: encryption does not come back and the divider stays.
THEOREM OneWayRatchet == Spec => RatchetIsOneWay
<1>1. TypeInv /\ RatchetInv /\ [Next]_vars =>
        [\A t \in Ids : /\ Exists(t) /\ thread[t].mode = "app_envelope"
                        /\ Exists(t)' /\ t \notin overwritten'
                        => thread'[t].mode = "app_envelope" /\ thread'[t].point = thread[t].point]_vars
  BY StepLasting DEF Lasting, Exists
<1> QED
  BY <1>1, RatchetInvariant, PTL DEF Spec, RatchetIsOneWay

\* Under the same condition a closed thread stays closed and only a divider is
\* added to it.
THEOREM FinalClose == Spec => ClosedIsFinal
<1>1. TypeInv /\ RatchetInv /\ [Next]_vars =>
        [\A t \in Ids : /\ Exists(t) /\ thread[t].status = "closed"
                        /\ Exists(t)' /\ t \notin overwritten'
                        => /\ thread'[t].status = "closed"
                           /\ In(t) \subseteq In(t)'
                           /\ \A m \in In(t)' \ In(t) : m.from = "system"]_vars
  BY StepLasting DEF Lasting, Exists
<1> QED
  BY <1>1, RatchetInvariant, PTL DEF Spec, ClosedIsFinal

-----------------------------------------------------------------------------
(* Messages.
   The row counts them, its divider splits them into sealed and hub-readable ones,
   and each of the latter has its payload.  Messages are never changed, so it is the
   commits that write a message and the row together that matter.  One that was not
   blind continues the row as it is, and its message has the newest id. *)

\* Messages and payloads are filed under ids that were given, and are finitely many.
Filed ==
  /\ IsFiniteSet(messages)
  /\ \A m \in messages : m.thread < nextId /\ m.id < nextId
  /\ \A x \in payloads : x[1] < nextId

\* The row of thread t and its messages agree.
Sound(t) ==
  /\ Cardinality(In(t)) = thread[t].replies + 1
  /\ thread[t].point # Absent
       => thread[t].mode = "app_envelope" /\ thread[t].point.message < nextId
  /\ SplitAtDivider(t)
  /\ \A m \in In(t) : m.store = "app_envelope" => <<t, m.id>> \in payloads

BookInv == Filed /\ \A t \in Ids \ overwritten : Exists(t) => Sound(t)

-----------------------------------------------------------------------------
(* Messages of one thread *)

\* What is stored as a message.
LEMMA MessageType ==
  ASSUME TypeInv, NEW m \in messages
  PROVE  m.id \in Nat /\ m.thread \in Ids /\ m.store \in Modes
BY NumberType DEF TypeInv, TypeOK, MessageRow

\* A message with the next id makes its thread one message longer.
LEMMA OneLonger ==
  ASSUME TypeInv, Filed, NEW t \in Ids, NEW m, m.id = nextId, m.thread = t,
         messages' = messages \cup {m}
  PROVE  /\ In(t)' = In(t) \cup {m}
         /\ IsFiniteSet(In(t)) /\ Cardinality(In(t)) \in Nat
         /\ Cardinality(In(t)') = Cardinality(In(t)) + 1
<1>1. In(t)' = In(t) \cup {m}
  BY DEF In
<1>2. IsFiniteSet(In(t))
  BY FS_Subset DEF In, Filed
<1>3. m \notin In(t)
  BY MessageType, NumberType DEF In, Filed
<1> QED
  BY <1>1, <1>2, <1>3, FS_AddElement, FS_CardinalityType

\* A row that keeps what agrees with its messages, and messages that stay.
LEMMA SameSound ==
  ASSUME TypeInv, NEW t \in Ids, Exists(t), Sound(t), In(t)' = In(t),
         thread'[t].replies = thread[t].replies, thread'[t].mode = thread[t].mode,
         thread'[t].point = thread[t].point,
         \A i : <<t, i>> \in payloads => <<t, i>> \in payloads',
         nextId' \in {nextId, nextId + 1}
  PROVE  Sound(t)'
<1>1. thread[t].point # Absent => thread[t].point.message \in Nat
  BY ThreadType, NumberType DEF Exists, ThreadRow, PointRow
<1>2. nextId \in Nat
  BY NumberType
<1>3. SplitAtDivider(t)'
  BY DEF Sound, SplitAtDivider
<1> QED
  BY <1>1, <1>2, <1>3 DEF Sound

\* A reply continues the row and is stored as its mode says.
LEMMA RepliedSound ==
  ASSUME TypeInv, Filed, NEW t \in Ids, Exists(t), Sound(t), NEW m, m.id = nextId, m.thread = t,
         messages' = messages \cup {m}, m.store = thread[t].mode,
         payloads' = IF m.store = "app_envelope" THEN payloads \cup {<<t, nextId>>} ELSE payloads,
         thread'[t].replies = thread[t].replies + 1, thread'[t].mode = thread[t].mode,
         thread'[t].point = thread[t].point, nextId' = nextId + 1
  PROVE  Sound(t)'
<1>1. /\ thread[t].point # Absent => thread[t].point.message \in Nat
      /\ thread[t].replies \in Nat /\ nextId \in Nat
  BY ThreadType, NumberType DEF Exists, ThreadRow, PointRow
<1>2. In(t)' = In(t) \cup {m} /\ Cardinality(In(t)') = thread'[t].replies + 1
  BY <1>1, OneLonger DEF Sound
<1>3. ASSUME NEW n \in In(t)'
      PROVE  n.store = IF thread'[t].point = Absent THEN thread'[t].mode
                       ELSE IF n.id < thread'[t].point.message THEN "e2e" ELSE "app_envelope"
  <2>1. CASE n \in In(t)
    BY <2>1 DEF Sound, SplitAtDivider
  <2>2. CASE n = m
    BY <1>1, <2>2 DEF Sound
  <2> QED
    BY <1>2, <2>1, <2>2
<1>4. \A n \in In(t)' : n.store = "app_envelope" => <<t, n.id>> \in payloads'
  BY <1>2 DEF Sound
<1> QED
  BY <1>1, <1>2, <1>3, <1>4 DEF Sound, SplitAtDivider

\* A downgrade of an E2E row puts the divider behind everything there is.
LEMMA DowngradedSound ==
  ASSUME TypeInv, Filed, NEW t \in Ids, Exists(t), Sound(t), thread[t].mode = "e2e",
         NEW m, m.id = nextId, m.thread = t, m.store = "app_envelope",
         messages' = messages \cup {m}, payloads' = payloads \cup {<<t, nextId>>},
         thread'[t].replies = thread[t].replies + 1, thread'[t].mode = "app_envelope",
         thread'[t].point # Absent, thread'[t].point.message = nextId, nextId' = nextId + 1
  PROVE  Sound(t)'
<1>1. thread[t].replies \in Nat /\ nextId \in Nat
  BY ThreadType, NumberType DEF Exists, ThreadRow
<1>2. In(t)' = In(t) \cup {m} /\ Cardinality(In(t)') = thread'[t].replies + 1
  BY <1>1, OneLonger DEF Sound
<1>3. thread[t].point = Absent
  BY DEF Sound
<1>4. ASSUME NEW n \in In(t)'
      PROVE  n.store = IF n.id < nextId THEN "e2e" ELSE "app_envelope"
  <2>1. CASE n \in In(t)
    <3>1. n.id < nextId
      BY <2>1 DEF Filed, In
    <3> QED
      BY <1>3, <2>1, <3>1 DEF Sound, SplitAtDivider
  <2>2. CASE n = m
    BY <1>1, <2>2
  <2> QED
    BY <1>2, <2>1, <2>2
<1>5. \A n \in In(t)' : n.store = "app_envelope" => <<t, n.id>> \in payloads'
  BY <1>2 DEF Sound
<1> QED
  BY <1>1, <1>2, <1>4, <1>5 DEF Sound, SplitAtDivider

\* A new thread has its first message and nothing else.
LEMMA CreatedSound ==
  ASSUME TypeInv, Filed, NEW t \in Ids, t = nextId, NEW m, m.id = t, m.thread = t,
         messages' = messages \cup {m}, m.store = thread'[t].mode,
         payloads' = IF m.store = "app_envelope" THEN payloads \cup {<<t, t>>} ELSE payloads,
         thread'[t].replies = 0, thread'[t].point = Absent
  PROVE  Sound(t)'
<1>1. In(t) = {}
  BY NumberType, MessageType DEF In, Filed
<1>2. In(t)' = {m}
  BY <1>1, OneLonger
<1>3. Cardinality(In(t)') = 1
  BY <1>2, FS_Singleton
<1> QED
  BY <1>2, <1>3 DEF Sound, SplitAtDivider

-----------------------------------------------------------------------------
(* Steps *)

\* Steps that write neither threads, messages nor payloads.
LEMMA QuietHistory ==
  ASSUME TypeInv, NEW r \in Reqs, MailStep(r) \/ ConsentStep(r) \/ Crash(r),
         ~CreateCommit(r), ~ReplyCommit(r), ~CloseCommit(r), ~DeleteBody(r), ~FinalizeCommit(r)
  PROVE  /\ UNCHANGED <<thread, messages, payloads>>
         /\ nextId' \in {nextId, nextId + 1} /\ overwritten \subseteq overwritten'
<1>1. UNCHANGED <<thread, messages>>
  BY QuietStep
<1>2. CASE Crash(r)
  BY <1>1, <1>2 DEF Crash, rows, history
<1>3. CASE MailStep(r)
  BY <1>1, <1>3 DEF MailStep, CreateStart, ReplyStart, ReplyInbox, ReplyThread, ReplyPeers, CloseStart,
     CloseThread, DeleteStart, DeleteThread, DeleteDrop, DeleteListMessages, DeleteListPayloads,
     DeleteInboxes, rows, history
<1>4. CASE ApproveSave(r) \/ DenySave(r)
  BY <1>1, <1>4 DEF ApproveSave, DenySave, Overwrites
<1>5. CASE ConsentStep(r) /\ ~ApproveSave(r) /\ ~DenySave(r)
  BY <1>1, <1>5 DEF ConsentStep, ProposeStart, ProposeCheck, ProposePersist, ApproveStart, DenyStart,
     LoadThread, ApproveProposal, DenyProposal, FinalizeInbox, rows, history
<1> QED
  BY <1>2, <1>3, <1>4, <1>5

\* Nothing new is filed, or under the next id.
LEMMA FiledKept ==
  ASSUME TypeInv, Filed, nextId' \in {nextId, nextId + 1},
         \/ messages' \subseteq messages
         \/ \E m : /\ messages' = messages \cup {m}
                   /\ m.id < nextId' /\ m.thread < nextId',
         \/ payloads' \subseteq payloads
         \/ \E t, i : payloads' = payloads \cup {<<t, i>>} /\ t < nextId'
  PROVE  Filed'
<1>1. IsFiniteSet(messages')
  BY FS_Subset, FS_AddElement DEF Filed
<1>2. nextId \in Nat /\ Ids \subseteq Nat
  BY NumberType
<1>3. ASSUME NEW m \in messages PROVE m.thread < nextId' /\ m.id < nextId'
  <2>1. m.thread \in Nat /\ m.id \in Nat /\ m.thread < nextId /\ m.id < nextId
    BY <1>2, MessageType DEF Filed
  <2> QED
    BY <1>2, <2>1
<1>4. ASSUME NEW x \in payloads PROVE x[1] < nextId'
  <2>1. x[1] \in Nat /\ x[1] < nextId
    BY <1>2 DEF Filed, TypeInv, TypeOK
  <2> QED
    BY <1>2, <2>1
<1> QED
  BY <1>1, <1>3, <1>4 DEF Filed

\* A step that touches the history of at most one thread.
LEMMA BookKept ==
  ASSUME TypeInv, BookInv, Filed', nextId' \in {nextId, nextId + 1}, overwritten \subseteq overwritten',
         NEW x, x \in Ids \ overwritten' /\ thread'[x] # Absent => Sound(x)',
         \A t \in Ids \ {x} :
           /\ thread'[t] = thread[t] /\ In(t)' = In(t)
           /\ \A i : <<t, i>> \in payloads => <<t, i>> \in payloads'
  PROVE  BookInv'
<1>1. ASSUME NEW t \in Ids \ overwritten', Exists(t)' PROVE Sound(t)'
  <2>1. CASE t = x
    BY <1>1, <2>1 DEF Exists
  <2>2. CASE t # x
    <3>1. Exists(t) /\ Sound(t)
      BY <1>1, <2>2 DEF BookInv, Exists
    <3> QED
      BY <2>2, <3>1, SameSound
  <2> QED
    BY <2>1, <2>2
<1> QED
  BY <1>1 DEF BookInv

\* createThread: a row, a message and its payload under one fresh id.
LEMMA CreateBook ==
  ASSUME TypeInv, RatchetInv, BookInv, NEW r \in Reqs, CreateCommit(r)
  PROVE  BookInv'
<1>1. PICK n, row, m :
        /\ n = nextId /\ nextId' = n + 1
        /\ row.replies = 0 /\ row.point = Absent /\ row.mode \in Modes
        /\ m.id = n /\ m.thread = n /\ m.store = row.mode
        /\ n <= MaxThread
        /\ thread' = [thread EXCEPT ![n] = row]
        /\ messages' = messages \cup {m}
        /\ payloads' = IF row.mode = "app_envelope" THEN payloads \cup {<<n, n>>} ELSE payloads
        /\ UNCHANGED overwritten
  <2>1. PICK turns \in TurnChoices :
          LET row == NewThread(req[r].user, req[r].agent, req[r].to, turns)
          IN /\ nextId <= MaxThread /\ nextId' = nextId + 1
             /\ thread' = [thread EXCEPT ![nextId] = row]
             /\ messages' = messages \cup
                  {[id |-> nextId, thread |-> nextId, from |-> req[r].user,
                    agent |-> req[r].agent, store |-> row.mode, senderOnly |-> FALSE]}
             /\ payloads' = IF row.mode = "app_envelope"
                            THEN payloads \cup {<<nextId, nextId>>} ELSE payloads
             /\ UNCHANGED overwritten
    BY DEF CreateCommit, history
  <2>2. PICK p, row : p = req[r] /\ row = NewThread(p.user, p.agent, p.to, turns)
    OBVIOUS
  <2>3. row.replies = 0 /\ row.point = Absent /\ row.mode \in Modes
    BY <2>2 DEF NewThread, EncryptionMode, Modes
  <2>4. PICK m : m = [id |-> nextId, thread |-> nextId, from |-> p.user,
                      agent |-> p.agent, store |-> row.mode, senderOnly |-> FALSE]
    OBVIOUS
  <2>5. m.id = nextId /\ m.thread = nextId /\ m.store = row.mode
    BY <2>4
  <2> QED
    BY <2>1, <2>2, <2>3, <2>4, <2>5
<1>2. n \in Ids /\ n \in Nat
  <2>1. n \in 1..MaxId + 1 /\ MaxId \in Nat /\ MaxThread \in 0..MaxId
    BY <1>1, DirectoryAssumption DEF TypeInv, TypeOK
  <2> QED
    BY <1>1, <2>1 DEF Ids
<1>3. thread'[n] = row /\ \A t \in Ids \ {n} : thread'[t] = thread[t]
  BY <1>1, <1>2 DEF TypeInv, TypeOK
<1>4. Filed'
  <2>1. m.id < nextId' /\ m.thread < nextId' /\ n < nextId' /\ nextId' \in {nextId, nextId + 1}
    BY <1>1, <1>2
  <2>2. payloads' \subseteq payloads \/ \E t, i : payloads' = payloads \cup {<<t, i>>} /\ t < nextId'
    BY <1>1, <2>1
  <2> QED
    BY <1>1, <2>1, <2>2, FiledKept DEF BookInv
<1>5. Sound(n)'
  <2>1. payloads' = IF m.store = "app_envelope" THEN payloads \cup {<<n, n>>} ELSE payloads
    BY <1>1
  <2>2. m.store = thread'[n].mode /\ thread'[n].replies = 0 /\ thread'[n].point = Absent
    BY <1>1, <1>3
  <2> QED
    BY <1>1, <1>2, <2>1, <2>2, CreatedSound DEF BookInv
<1>6. \A t \in Ids \ {n} : In(t)' = In(t) /\ \A i : <<t, i>> \in payloads => <<t, i>> \in payloads'
  BY <1>1 DEF In
<1>7. overwritten \subseteq overwritten' /\ nextId' \in {nextId, nextId + 1}
  BY <1>1
<1> QED
  BY <1>3, <1>4, <1>5, <1>6, <1>7, BookKept

\* A thread written by a commit that was not blind was as the request holds it.
LEMMA NotBlind ==
  ASSUME NEW t, NEW row, NEW seen, overwritten' = Overwrites(row, seen, t), t \notin overwritten'
  PROVE  row = seen /\ t \notin overwritten
BY DEF Overwrites

\* postReply: a message, its payload and the row one reply longer.
LEMMA ReplyBook ==
  ASSUME TypeInv, RatchetInv, BookInv, NEW r \in Reqs, ReplyCommit(r)
  PROVE  BookInv'
<1>1. PICK p, n, turns :
        /\ p = req[r] /\ n = nextId /\ p.op = "reply" /\ p.pc = "commit"
        /\ n \in Ids /\ nextId' = n + 1
        /\ thread' = [thread EXCEPT ![p.tid] = RepliedThread(p, turns)]
        /\ messages' = messages \cup
             {[id |-> n, thread |-> p.tid, from |-> p.user, agent |-> p.agent,
               store |-> p.snap.mode,
               senderOnly |-> p.snap.kind = "broadcast" /\ p.snap.audience = OrgWide]}
        /\ payloads' = IF p.snap.mode = "app_envelope" THEN payloads \cup {<<p.tid, n>>} ELSE payloads
        /\ overwritten' = Overwrites(thread[p.tid], p.snap, p.tid)
  BY DEF ReplyCommit, At
<1>2. PICK row, m :
        /\ row = RepliedThread(p, turns)
        /\ m = [id |-> n, thread |-> p.tid, from |-> p.user, agent |-> p.agent,
                store |-> p.snap.mode,
                senderOnly |-> p.snap.kind = "broadcast" /\ p.snap.audience = OrgWide]
  OBVIOUS
<1>3. /\ m.id = n /\ m.thread = p.tid /\ m.store = p.snap.mode
      /\ messages' = messages \cup {m}
  BY <1>1, <1>2
<1>4. p \in Request /\ p.tid \in Ids /\ p.tid < n /\ p.snap \in ThreadRow /\ n \in Nat
  BY <1>1, ReqType, NumberType DEF Placed, RatchetInv, Cautious
<1>5. row.replies = p.snap.replies + 1 /\ row.mode = p.snap.mode /\ row.point = p.snap.point
  BY <1>2, <1>4 DEF RepliedThread, ThreadRow
<1>6. thread'[p.tid] = row /\ \A t \in Ids \ {p.tid} : thread'[t] = thread[t]
  BY <1>1, <1>2, <1>4 DEF TypeInv, TypeOK
<1>7. Filed'
  <2>1. m.id < nextId' /\ m.thread < nextId' /\ p.tid < nextId' /\ nextId' \in {nextId, nextId + 1}
    <3>1. p.tid \in Nat
      BY <1>4, NumberType
    <3> QED
      BY <1>1, <1>3, <1>4, <3>1
  <2>2. payloads' \subseteq payloads \/ \E t, i : payloads' = payloads \cup {<<t, i>>} /\ t < nextId'
    BY <1>1, <2>1
  <2>3. Filed
    BY DEF BookInv
  <2> QED
    BY <1>3, <2>1, <2>2, <2>3, FiledKept
<1>8. ASSUME p.tid \notin overwritten' PROVE Sound(p.tid)'
  <2>1. thread[p.tid] = p.snap /\ p.tid \notin overwritten /\ Exists(p.tid)
    BY <1>1, <1>4, <1>8, NotBlind, AbsentAssumption DEF Exists
  <2> QED
    BY <1>1, <1>3, <1>4, <1>5, <1>6, <2>1, RepliedSound DEF BookInv
<1>9. \A t \in Ids \ {p.tid} : In(t)' = In(t) /\ \A i : <<t, i>> \in payloads => <<t, i>> \in payloads'
  BY <1>1, <1>3 DEF In
<1>10. overwritten \subseteq overwritten' /\ nextId' \in {nextId, nextId + 1}
  BY <1>1 DEF Overwrites
<1> QED
  BY <1>6, <1>7, <1>8, <1>9, <1>10, BookKept

\* closeThread: only the status of the row changes.
LEMMA CloseBook ==
  ASSUME TypeInv, RatchetInv, BookInv, NEW r \in Reqs, CloseCommit(r)
  PROVE  BookInv'
<1>1. PICK p, row :
        /\ p = req[r] /\ p.op = "close" /\ p.pc = "commit"
        /\ row = [p.snap EXCEPT !.status = "closed"]
        /\ thread' = [thread EXCEPT ![p.tid] = row]
        /\ overwritten' = Overwrites(thread[p.tid], p.snap, p.tid)
        /\ UNCHANGED <<messages, payloads, nextId>>
  BY DEF CloseCommit, At
<1>2. p.tid \in Ids /\ p.snap \in ThreadRow
  BY <1>1, ReqType DEF Placed
<1>3. row.replies = p.snap.replies /\ row.mode = p.snap.mode /\ row.point = p.snap.point
  BY <1>1, <1>2 DEF ThreadRow
<1>4. thread'[p.tid] = row /\ \A t \in Ids \ {p.tid} : thread'[t] = thread[t]
  BY <1>1, <1>2 DEF TypeInv, TypeOK
<1>5. Filed'
  BY <1>1, FiledKept DEF BookInv
<1>6. ASSUME p.tid \notin overwritten' PROVE Sound(p.tid)'
  <2>1. thread[p.tid] = p.snap /\ p.tid \notin overwritten /\ Exists(p.tid)
    BY <1>1, <1>2, <1>6, NotBlind, AbsentAssumption DEF Exists
  <2>2. In(p.tid)' = In(p.tid)
    BY <1>1 DEF In
  <2> QED
    BY <1>1, <1>2, <1>3, <1>4, <2>1, <2>2, SameSound DEF BookInv
<1> QED
  BY <1>1, <1>4, <1>5, <1>6, BookKept DEF Overwrites, In

\* The last batch of deleteThread: the row goes, and messages of it alone.
LEMMA DeleteBook ==
  ASSUME TypeInv, RatchetInv, BookInv, NEW r \in Reqs, DeleteBody(r)
  PROVE  BookInv'
<1>1. PICK p :
        /\ p = req[r] /\ p.op = "delete" /\ p.pc = "dropBody"
        /\ messages' = {m \in messages : m.thread # p.tid \/ m.id \notin p.listed}
        /\ payloads' = payloads \ ({p.tid} \X p.records)
        /\ thread' = [thread EXCEPT ![p.tid] = Absent]
        /\ overwritten' = Overwrites(thread[p.tid], p.snap, p.tid)
        /\ UNCHANGED nextId
  BY DEF DeleteBody, At
<1>2. p.tid \in Ids
  BY <1>1, ReqType DEF Placed
<1>3. thread'[p.tid] = Absent /\ \A t \in Ids \ {p.tid} : thread'[t] = thread[t]
  BY <1>1, <1>2 DEF TypeInv, TypeOK
<1>4. Filed'
  BY <1>1, FiledKept DEF BookInv
<1>5. \A t \in Ids \ {p.tid} : In(t)' = In(t) /\ \A i : <<t, i>> \in payloads => <<t, i>> \in payloads'
  BY <1>1 DEF In
<1> QED
  BY <1>1, <1>3, <1>4, <1>5, BookKept DEF Overwrites

\* finalizeApprovedDowngrade: the divider, its payload and the downgraded row.
LEMMA FinalizeBook ==
  ASSUME TypeInv, RatchetInv, BookInv, NEW r \in Reqs, FinalizeCommit(r)
  PROVE  BookInv'
<1>1. PICK p, n :
        /\ p = req[r] /\ n = nextId /\ p.pc = "finalize"
        /\ n \in Ids /\ nextId' = n + 1
        /\ thread' = [thread EXCEPT ![p.tid] = DowngradedThread(p, n)]
        /\ messages' = messages \cup
             {[id |-> n, thread |-> p.tid, from |-> "system", agent |-> Absent,
               store |-> "app_envelope", senderOnly |-> FALSE]}
        /\ payloads' = payloads \cup {<<p.tid, n>>}
        /\ overwritten \subseteq overwritten'
        /\ p.tid \notin overwritten' => thread[p.tid] = p.snap
  BY DEF FinalizeCommit, Overwrites
<1>2. PICK row, m :
        /\ row = DowngradedThread(p, n)
        /\ m = [id |-> n, thread |-> p.tid, from |-> "system", agent |-> Absent,
                store |-> "app_envelope", senderOnly |-> FALSE]
  OBVIOUS
<1>3. /\ m.id = n /\ m.thread = p.tid /\ m.store = "app_envelope"
      /\ messages' = messages \cup {m}
  BY <1>1, <1>2
<1>4. /\ p \in Request /\ p.tid \in Ids /\ p.tid < n /\ n \in Nat
      /\ p.snap \in ThreadRow /\ p.snap.mode = "e2e" /\ p.prop \in ProposalRow
  BY <1>1, ReqType, NumberType DEF Placed, Consent, RatchetInv, Cautious
<1>5. /\ row.replies = p.snap.replies + 1 /\ row.mode = "app_envelope"
      /\ row.point = [message |-> n, approvers |-> p.prop.required]
  BY <1>2, <1>4 DEF DowngradedThread, ThreadRow
<1>6. row.point # Absent /\ row.point.message = n
  <2>1. row.point \in PointRow
    BY <1>1, <1>4, <1>5 DEF PointRow, ProposalRow
  <2> QED
    BY <2>1, <1>5, AbsentAssumption
<1>7. thread'[p.tid] = row /\ \A t \in Ids \ {p.tid} : thread'[t] = thread[t]
  BY <1>1, <1>2, <1>4 DEF TypeInv, TypeOK
<1>8. Filed'
  <2>1. m.id < nextId' /\ m.thread < nextId' /\ p.tid < nextId' /\ nextId' \in {nextId, nextId + 1}
    <3>1. p.tid \in Nat
      BY <1>4, NumberType
    <3> QED
      BY <1>1, <1>3, <1>4, <3>1
  <2> QED
    BY <1>1, <1>3, <2>1, FiledKept DEF BookInv
<1>9. ASSUME p.tid \notin overwritten' PROVE Sound(p.tid)'
  <2>1. thread[p.tid] = p.snap /\ p.tid \notin overwritten /\ Exists(p.tid)
    BY <1>1, <1>4, <1>9, AbsentAssumption DEF Exists
  <2>2. Filed /\ Sound(p.tid)
    BY <1>4, <2>1 DEF BookInv
  <2>3. /\ thread'[p.tid].replies = thread[p.tid].replies + 1
        /\ thread'[p.tid].mode = "app_envelope" /\ thread[p.tid].mode = "e2e"
        /\ thread'[p.tid].point # Absent /\ thread'[p.tid].point.message = n
    BY <1>4, <1>5, <1>6, <1>7, <2>1
  <2> QED
    BY <1>1, <1>3, <1>4, <2>1, <2>2, <2>3, DowngradedSound
<1>10. \A t \in Ids \ {p.tid} : In(t)' = In(t) /\ \A i : <<t, i>> \in payloads => <<t, i>> \in payloads'
  BY <1>1, <1>3 DEF In
<1>11. nextId' \in {nextId, nextId + 1}
  BY <1>1
<1> QED
  BY <1>1, <1>7, <1>8, <1>9, <1>10, <1>11, BookKept

\* At the start nothing is stored.
LEMMA InitBook == Init => BookInv
BY FS_EmptySet DEF Init, BookInv, Filed, Exists

\* Every step of every handler keeps rows and messages in agreement.
LEMMA StepBook == TypeInv /\ RatchetInv /\ BookInv /\ [Next]_vars => BookInv'
<1> SUFFICES ASSUME TypeInv, RatchetInv, BookInv, [Next]_vars PROVE BookInv'
  OBVIOUS
<1>1. ASSUME UNCHANGED <<thread, messages, payloads>>, nextId' \in {nextId, nextId + 1},
             overwritten \subseteq overwritten'
      PROVE  BookInv'
  <2>1. Filed'
    BY <1>1, FiledKept DEF BookInv
  <2>2. ASSUME NEW t \in Ids \ overwritten', Exists(t)' PROVE Sound(t)'
    <3>1. Exists(t) /\ Sound(t)
      BY <1>1, <2>2 DEF BookInv, Exists
    <3> QED
      BY <1>1, <3>1, SameSound DEF In
  <2> QED
    BY <2>1, <2>2 DEF BookInv
<1>2. CASE UNCHANGED mail
  BY <1>1, <1>2 DEF mail
<1>3. ASSUME NEW r \in Reqs, MailStep(r) \/ ConsentStep(r) \/ Crash(r) PROVE BookInv'
  BY <1>1, <1>3, QuietHistory, CreateBook, ReplyBook, CloseBook, DeleteBook, FinalizeBook
<1> QED
  BY <1>2, <1>3, Steps

\* The rows and the messages of threads no commit replaced blindly agree.
THEOREM BookInvariant == Spec => [](TypeInv /\ RatchetInv /\ BookInv)
BY InitType, StepType, InitRatchet, StepRatchet, InitBook, StepBook, PTL DEF Spec

\* The reply counter of a thread tells how many messages followed its first
\* one: postReply and finalizeApprovedDowngrade write the message and the row
\* in one commit, and a commit on the row it read counts on from there.
THEOREM MessagesAreCounted == Spec => []CountsEveryMessage
<1>1. BookInv => CountsEveryMessage
  BY DEF BookInv, Sound, CountsEveryMessage
<1> QED
  BY <1>1, BookInvariant, PTL

\* Every hub-readable message of a thread has the record that holds its body.
THEOREM PayloadsAreThere == Spec => []PayloadBehindMessage
<1>1. BookInv => PayloadBehindMessage
  BY DEF BookInv, Sound, PayloadBehindMessage
<1> QED
  BY <1>1, BookInvariant, PTL

\* The divider of a downgraded thread has only sealed messages before it, only
\* hub-readable ones from it on, and is where fetchAppMessages begins.
THEOREM DividerIsWhereE2EEnds == Spec => []DividerSplitsHistory
<1>1. ASSUME TypeInv, BookInv, NEW t \in Ids \ overwritten, Exists(t)
      PROVE  SplitAtDivider(t) /\ FetchedAtDivider(t)
  <2>1. Sound(t)
    BY <1>1 DEF BookInv
  <2>2. ASSUME NEW u \in Users, thread[t].point # Absent
        PROVE  Fetched(u, t) = {m \in In(t) : /\ m.id >= thread[t].point.message
                                             /\ CanView(u, thread[t], Role(u, t), m)}
    <3>1. thread[t].point.message \in Nat
      BY <1>1, <2>2, ThreadType, NumberType DEF Exists, ThreadRow, PointRow
    <3>2. ASSUME NEW m \in In(t)
          PROVE  VisibleAfterDowngrade(thread[t], m) <=> m.id >= thread[t].point.message
      <4>1. m.id \in Nat
        BY <1>1, MessageType DEF In
      <4> QED
        BY <2>1, <2>2, <3>1, <4>1 DEF Sound, SplitAtDivider, VisibleAfterDowngrade
    <3> QED
      BY <3>2 DEF Fetched, In
  <2> QED
    BY <2>1, <2>2 DEF Sound, FetchedAtDivider
<1>2. TypeInv /\ BookInv => DividerSplitsHistory
  BY <1>1 DEF DividerSplitsHistory
<1> QED
  BY <1>2, BookInvariant, PTL

-----------------------------------------------------------------------------
(* Retries *)

\* Ids are handed out one at a time.
LEMMA NextIdGrows ==
  ASSUME TypeInv, NEW r \in Reqs, MailStep(r) \/ ConsentStep(r) \/ Crash(r)
  PROVE  nextId' \in {nextId, nextId + 1} /\ nextId \in Nat
<1>1. nextId' \in {nextId, nextId + 1}
  BY DEF MailStep, CreateStart, CreateCommit, ReplyStart, ReplyInbox, ReplyThread, ReplyPeers,
     ReplyCommit, CloseStart, CloseThread, CloseCommit, DeleteStart, DeleteThread, DeleteDrop,
     DeleteListMessages, DeleteListPayloads, DeleteInboxes, DeleteBody,
     ConsentStep, ProposeStart, ProposeCheck, ProposePersist, ApproveStart, DenyStart, LoadThread,
     ApproveProposal, ApproveSave, DenyProposal, DenySave, FinalizeInbox, FinalizeCommit,
     Crash, rows
<1> QED
  BY <1>1, NumberType

\* The idempotency row of an answered reply is that of the last one with its user
\* and key.
Remembered(m) ==
  \E n \in LastAnswer(m.user, m.key) :
    /\ idem[m.user][m.key] # Absent
    /\ idem[m.user][m.key].kind = "reply" /\ idem[m.user][m.key].thread = n.thread

\* Answers have ids of their own.  Replies are remembered under their keys, until
\* they expire; createThread uses its own.
KeyInv ==
  /\ \A m \in answered : m.id < nextId
  /\ \A m, n \in answered : m.id = n.id => m = n
  /\ \A m \in answered : m.key \in CreateKeys \/ Remembered(m)
  /\ \A r \in Reqs : req[r].op = "create" => req[r].key \in CreateKeys \cup {Absent}
  /\ RetryAddsNothing

\* Of two last answers with one user and key neither is older: there is one.
LEMMA OneLastAnswer ==
  ASSUME TypeInv, KeyInv, NEW u, NEW key,
         NEW m \in LastAnswer(u, key), NEW n \in LastAnswer(u, key)
  PROVE  m = n
<1>1. m \in answered /\ n \in answered /\ m.id <= n.id /\ n.id <= m.id
  BY DEF LastAnswer
<1>2. m.id \in Nat /\ n.id \in Nat
  BY <1>1, NumberType DEF TypeInv, TypeOK
<1> QED
  BY <1>1, <1>2 DEF KeyInv

\* A request that was let in late uses a key that createThread uses too.
LEMMA LateHeld ==
  ASSUME TypeInv, KeyInv, NEW r \in Reqs, MailStep(r) \/ ConsentStep(r) \/ Crash(r)
  PROVE  /\ RetryAddsNothing'
         /\ \A s \in Reqs : req'[s].op = "create" => req'[s].key \in CreateKeys \cup {Absent}
<1>1. PICK q : Becomes(r, q) /\ (q = Idle \/ Arrives(q) \/ Continues(req[r], q))
  BY StepMoves
<1>2. q.late => q.key \in CreateKeys
  <2>1. CASE q = Idle
    BY <2>1 DEF Idle
  <2>2. CASE Arrives(q)
    <3>1. SUFFICES ASSUME q.late, q.key \notin CreateKeys PROVE FALSE
      OBVIOUS
    <3>2. q.op = "reply"
      BY <2>2, <3>1 DEF Arrives
    <3>3. PICK m \in LastAnswer(q.user, q.key) : m.thread = q.tid
      BY <2>2, <3>1, <3>2 DEF Arrives
    <3>4. m \in answered /\ m.user = q.user /\ m.key = q.key
      BY <3>3 DEF LastAnswer
    <3>5. q.key \in Keys
      BY <3>4 DEF TypeInv, TypeOK
    <3>6. ~AnswersRetry(idem[q.user][q.key], q.tid)
      BY <2>2, <3>2, <3>5, DirectoryAssumption DEF Arrives
    <3>7. Remembered(m)
      BY <3>1, <3>4 DEF KeyInv
    <3>8. PICK n \in LastAnswer(q.user, q.key) :
            /\ idem[q.user][q.key] # Absent
            /\ idem[q.user][q.key].kind = "reply" /\ idem[q.user][q.key].thread = n.thread
      BY <3>4, <3>7 DEF Remembered
    <3>9. m = n
      BY <3>3, <3>8, OneLastAnswer
    <3> QED
      BY <3>3, <3>6, <3>8, <3>9 DEF AnswersRetry
  <2>3. CASE Continues(req[r], q)
    <3>1. q.key = req[r].key /\ (q.late => req[r].late)
      BY <2>3 DEF Continues
    <3> QED
      BY <3>1 DEF KeyInv, RetryAddsNothing
  <2> QED
    BY <1>1, <2>1, <2>2, <2>3
<1>3. q.op = "create" => q.key \in CreateKeys \cup {Absent}
  BY <1>1, IdlePlace DEF Arrives, Continues, KeyInv
<1>4. \A s \in Reqs : req'[s] = q \/ req'[s] = req[s]
  BY <1>1 DEF Becomes, TypeInv, TypeOK
<1>5. ASSUME NEW s \in Reqs, req'[s].late PROVE req'[s].key \in CreateKeys
  BY <1>2, <1>4, <1>5 DEF KeyInv, RetryAddsNothing
<1> QED
  BY <1>3, <1>4, <1>5 DEF RetryAddsNothing, KeyInv

\* A reply remembers its own answer, and createThread forgets one only under a
\* key of its own.
LEMMA KeyKept ==
  ASSUME TypeInv, KeyInv, NEW r \in Reqs, MailStep(r) \/ ConsentStep(r) \/ Crash(r)
  PROVE  KeyInv'
<1> DEFINE p == req[r]
<1>1. p \in Request
  BY ReqType
<1>2. nextId' \in {nextId, nextId + 1} /\ nextId \in Nat /\ \A m \in answered : m.id \in Nat
  BY NextIdGrows, NumberType DEF TypeInv, TypeOK
<1>3. CASE CreateCommit(r)
  <2>1. PICK row :
          /\ p.op = "create" /\ UNCHANGED answered
          /\ idem' = IF p.key = Absent THEN idem ELSE [idem EXCEPT ![p.user][p.key] = row]
    BY <1>3 DEF CreateCommit, At, history
  <2> HIDE DEF p
  <2>2. p.key \in CreateKeys \cup {Absent}
    BY <2>1 DEF KeyInv, p
  <2>3. ASSUME NEW m \in answered, m.key \notin CreateKeys PROVE Remembered(m)'
    <3>1. Remembered(m) /\ m.user \in Users /\ m.key \in Keys
      BY <2>3 DEF KeyInv, TypeInv, TypeOK
    <3>2. idem'[m.user][m.key] = idem[m.user][m.key]
      BY <2>1, <2>2, <2>3, <3>1 DEF TypeInv, TypeOK
    <3> QED
      BY <2>1, <3>1, <3>2 DEF Remembered, LastAnswer
  <2>4. \A m \in answered' : m.id < nextId'
    BY <1>2, <2>1 DEF KeyInv
  <2>5. \A m, n \in answered' : m.id = n.id => m = n
    BY <2>1 DEF KeyInv
  <2> QED
    BY <2>1, <2>3, <2>4, <2>5, LateHeld DEF KeyInv
<1>4. CASE ReplyCommit(r)
  <2>1. PICK n, row, new :
          /\ p.op = "reply" /\ p.pc = "commit" /\ n = nextId /\ n \in Ids
          /\ row = [kind |-> "reply", thread |-> p.tid, message |-> n]
          /\ new = [user |-> p.user, key |-> p.key, thread |-> p.tid, id |-> n]
          /\ idem' = IF p.key = Absent THEN idem ELSE [idem EXCEPT ![p.user][p.key] = row]
          /\ answered' = IF p.key = Absent THEN answered ELSE answered \cup {new}
    BY <1>4 DEF ReplyCommit, At
  <2>0. nextId' = n + 1
    BY <1>4, <2>1 DEF ReplyCommit
  <2> HIDE DEF p
  <2>2. p.user \in Users /\ p.tid \in Ids /\ p.key \in Keys \cup {Absent}
    BY <1>1, <2>1, ReqType DEF Placed, Request, p
  <2>3. /\ new.user = p.user /\ new.key = p.key /\ new.thread = p.tid /\ new.id = n
        /\ row.kind = "reply" /\ row.thread = p.tid
    BY <2>1
  <2>4. row # Absent
    BY <2>1, <2>2, AbsentAssumption DEF IdemRow
  <2>5. ASSUME NEW m \in answered', m.key \notin CreateKeys PROVE Remembered(m)'
    <3>1. m.user \in Users /\ m.key \in Keys
      BY <2>1, <2>2, <2>3, <2>5 DEF TypeInv, TypeOK
    <3>2. CASE p.key # Absent /\ m.user = p.user /\ m.key = p.key
      <4>1. idem'[m.user][m.key] = row /\ new \in answered'
        BY <2>1, <3>1, <3>2 DEF TypeInv, TypeOK
      <4>2. ASSUME NEW x \in answered' PROVE x.id <= new.id
        <5>1. CASE x = new
          BY <1>2, <2>0, <2>1, <2>3, <5>1
        <5>2. CASE x \in answered
          BY <1>2, <2>0, <2>1, <2>3, <5>2 DEF KeyInv
        <5> QED
          BY <2>1, <4>2, <5>1, <5>2
      <4>3. new \in LastAnswer(m.user, m.key)'
        BY <2>3, <3>2, <4>1, <4>2 DEF LastAnswer
      <4> QED
        BY <2>3, <2>4, <4>1, <4>3 DEF Remembered
    <3>3. CASE ~(p.key # Absent /\ m.user = p.user /\ m.key = p.key)
      <4>1. m \in answered
        BY <2>1, <2>3, <2>5, <3>3
      <4>2. idem'[m.user][m.key] = idem[m.user][m.key]
        BY <2>1, <2>2, <3>1, <3>3 DEF TypeInv, TypeOK
      <4>3. PICK x \in LastAnswer(m.user, m.key) :
              /\ idem[m.user][m.key] # Absent
              /\ idem[m.user][m.key].kind = "reply" /\ idem[m.user][m.key].thread = x.thread
        BY <2>5, <4>1 DEF KeyInv, Remembered
      <4>4. x \in LastAnswer(m.user, m.key)'
        BY <2>1, <2>3, <3>3, <4>3 DEF LastAnswer
      <4> QED
        BY <4>2, <4>3, <4>4 DEF Remembered
    <3> QED
      BY <3>2, <3>3
  <2>6. \A m \in answered' : m.id < nextId'
    BY <1>2, <2>0, <2>1, <2>3 DEF KeyInv
  <2>7. ASSUME NEW x \in answered', NEW y \in answered', x.id = y.id PROVE x = y
    BY <1>2, <2>0, <2>1, <2>3, <2>7 DEF KeyInv
  <2> QED
    BY <2>5, <2>6, <2>7, LateHeld DEF KeyInv
<1>5. CASE ~CreateCommit(r) /\ ~ReplyCommit(r)
  <2>1. UNCHANGED <<idem, answered>>
    BY <1>5 DEF MailStep, CreateStart, ReplyStart, ReplyInbox, ReplyThread, ReplyPeers, CloseStart,
       CloseThread, CloseCommit, DeleteStart, DeleteThread, DeleteDrop, DeleteListMessages,
       DeleteListPayloads, DeleteInboxes, DeleteBody, ConsentStep, ProposeStart, ProposeCheck,
       ProposePersist, ApproveStart, DenyStart, LoadThread, ApproveProposal, ApproveSave,
       DenyProposal, DenySave, FinalizeInbox, FinalizeCommit, Crash, rows, history
  <2>2. \A m \in answered' : m.id < nextId'
    BY <1>2, <2>1 DEF KeyInv
  <2>3. \A m, n \in answered' : m.id = n.id => m = n
    BY <2>1 DEF KeyInv
  <2>4. \A m \in answered' : m.key \in CreateKeys \/ Remembered(m)'
    BY <2>1 DEF KeyInv, Remembered, LastAnswer
  <2> QED
    BY <2>2, <2>3, <2>4, LateHeld DEF KeyInv
<1> QED
  BY <1>3, <1>4, <1>5

\* A row that expires takes with it what was answered under its user and key, and
\* nothing else.
LEMMA KeyExpires ==
  ASSUME TypeInv, KeyInv, NEW u \in Users, NEW key \in Keys, IdemExpires(u, key)
  PROVE  KeyInv'
<1>1. /\ idem' = [idem EXCEPT ![u][key] = Absent]
      /\ answered' = {m \in answered : m.user # u \/ m.key # key}
      /\ UNCHANGED <<nextId, req>>
  BY DEF IdemExpires, mail
<1>2. ASSUME NEW m \in answered', m.key \notin CreateKeys PROVE Remembered(m)'
  <2>1. m \in answered /\ m.user \in Users /\ m.key \in Keys /\ (m.user # u \/ m.key # key)
    BY <1>1, <1>2 DEF TypeInv, TypeOK
  <2>2. idem'[m.user][m.key] = idem[m.user][m.key]
    BY <1>1, <2>1 DEF TypeInv, TypeOK
  <2>3. PICK n \in LastAnswer(m.user, m.key) :
          /\ idem[m.user][m.key] # Absent
          /\ idem[m.user][m.key].kind = "reply" /\ idem[m.user][m.key].thread = n.thread
    BY <1>2, <2>1 DEF KeyInv, Remembered
  <2>4. n \in LastAnswer(m.user, m.key)'
    BY <1>1, <2>1, <2>3 DEF LastAnswer
  <2> QED
    BY <2>2, <2>3, <2>4 DEF Remembered
<1>3. RetryAddsNothing'
  BY <1>1 DEF KeyInv, RetryAddsNothing
<1> QED
  BY <1>1, <1>2, <1>3 DEF KeyInv

\* At the start nothing is answered.
LEMMA InitKey == Init => KeyInv
BY DEF Init, KeyInv, RetryAddsNothing, Idle

\* Every step of every handler remembers what was answered, and so does the end of
\* a row's day.
LEMMA StepKey == TypeInv /\ KeyInv /\ [Next]_vars => KeyInv'
<1> SUFFICES ASSUME TypeInv, KeyInv, [Next]_vars PROVE KeyInv'
  OBVIOUS
<1>1. CASE UNCHANGED vars
  BY <1>1 DEF KeyInv, Remembered, LastAnswer, RetryAddsNothing, vars, rows, history
<1>2. CASE Expiry
  BY <1>2, KeyExpires DEF Expiry
<1> QED
  BY <1>1, <1>2, KeyKept DEF Next

\* A retry within the day of the answer gets past the idempotency row of postReply
\* only if its user spends the key on createThread too.
THEOREM RetriesAddNothing == Spec => []RetryAddsNothing
<1>1. Spec => [](TypeInv /\ KeyInv)
  BY InitType, StepType, InitKey, StepKey, PTL DEF Spec
<1>2. KeyInv => RetryAddsNothing
  BY DEF KeyInv
<1> QED
  BY <1>1, <1>2, PTL

-----------------------------------------------------------------------------
(* Reach and purge.
   A thread reaches only the people it was sent to, and its purge leaves none of it
   behind, whatever was in flight meanwhile.  deleteThread lists and deletes in several
   steps, and its last batch carries no check.  It is complete because a thread only
   grows: as long as the row counts as many replies as when it was read, what was
   listed is all there is, and a commit that was not blind finds that row. *)

\* Threads that are there and that no commit replaced blindly.
Kept(t) == Exists(t) /\ t \notin overwritten

\* People a thread with this row may reach: the sender's organization, and
\* both ends of an external contact.
InReach(u, row) == u \in UNION Linked \/ OrgOf[u] = OrgOf[row.from]

Enclosed(t) ==
  /\ thread[t].participants \subseteq UNION Linked
  /\ \A u \in Users : inbox[u][t] # Absent => InReach(u, thread[t])

\* Whoever asks is in reach of the thread, and so is the owner of the web agent
\* in the proposal the request holds.
AsksWithin(q) ==
  /\ q.op = "create" => Routable(q.user, q.agent, q.to)
  /\ q.pc # "idle" /\ q.op # "create" /\ Kept(q.tid) =>
       /\ InReach(q.user, thread[q.tid])
       /\ HoldsProposal(q) => InReach(Owner(q.prop.agent), thread[q.tid])
  /\ q.op = "reply" /\ q.pc = "commit" =>
       \A v \in Users : q.peers[v] # Absent => v \in PeerCandidates(q.snap)

ProposesWithin(p) ==
  proposals[p] # Absent =>
    /\ proposals[p].thread < nextId
    /\ Kept(proposals[p].thread) =>
         InReach(Owner(proposals[p].agent), thread[proposals[p].thread])

ReachInv ==
  /\ \A t \in Ids : Kept(t) => Enclosed(t)
  /\ \A r \in Reqs : AsksWithin(req[r])
  /\ \A p \in Ids : ProposesWithin(p)

\* The purge, from the row it read on.
Purging(q) == q.op = "delete" /\ q.pc \in {"listMessages", "listPayloads", "dropInboxes", "dropBody"}

\* What a purge has listed, or cleared, is all there is.
Thorough(q) ==
  /\ q.pc # "listMessages" => \A m \in In(q.tid) : m.id \in q.listed
  /\ q.pc \in {"dropInboxes", "dropBody"} => \A i : <<q.tid, i>> \in payloads => i \in q.records
  /\ q.pc = "dropBody" => \A u \in Users \ UNION Linked : inbox[u][q.tid] = Absent

\* A purge is by the sender, and thorough unless the thread has grown since.
PurgesAll(q) ==
  Purging(q) =>
    /\ q.snap \in ThreadRow
    /\ Kept(q.tid) =>
         /\ q.user = thread[q.tid].from
         /\ q.snap.replies <= thread[q.tid].replies
         /\ q.snap.replies = thread[q.tid].replies => Thorough(q)

PurgeInv == PurgeIsComplete /\ \A r \in Reqs : PurgesAll(req[r])

-----------------------------------------------------------------------------
(* One step and one thread *)

\* Nothing of thread t changes, but for inbox rows that may go.
Still(t) ==
  /\ thread'[t] = thread[t] /\ In(t)' = In(t)
  /\ \A i : <<t, i>> \in payloads' => <<t, i>> \in payloads
  /\ \A u \in Users : inbox'[u][t] \in {Absent, inbox[u][t]}

\* The step of r is a commit on thread t.
Writes(r, t) ==
  \/ CreateCommit(r) /\ t = nextId
  \/ t = req[r].tid /\ (ReplyCommit(r) \/ CloseCommit(r) \/ DeleteBody(r) \/ FinalizeCommit(r))

\* Every step leaves a thread alone or is a commit on it.
LEMMA StepScope ==
  ASSUME TypeInv, NEW r \in Reqs, MailStep(r) \/ ConsentStep(r) \/ Crash(r), NEW t \in Ids
  PROVE  Still(t) \/ Writes(r, t)
<1> DEFINE p == req[r]
<1>1. p \in Request /\ Placed(p)
  BY ReqType
<1>2. CASE CreateCommit(r) /\ t # nextId
  <2>1. PICK turns \in TurnChoices :
          LET row == NewThread(p.user, p.agent, p.to, turns)
          IN /\ thread' = [thread EXCEPT ![nextId] = row]
             /\ messages' = messages \cup
                  {[id |-> nextId, thread |-> nextId, from |-> p.user,
                    agent |-> p.agent, store |-> row.mode, senderOnly |-> FALSE]}
             /\ payloads' = IF row.mode = "app_envelope"
                            THEN payloads \cup {<<nextId, nextId>>} ELSE payloads
             /\ inbox' = [v \in Users |->
                  IF v \in {p.user} \cup Recipients(p.user, p.to)
                  THEN [inbox[v] EXCEPT ![nextId] = FirstInboxRow(row, p.user, v)]
                  ELSE inbox[v]]
    BY <1>2 DEF CreateCommit
  <2> HIDE DEF p
  <2>2. PICK row : row = NewThread(p.user, p.agent, p.to, turns)
    OBVIOUS
  <2>3. thread'[t] = thread[t]
    BY <1>2, <2>1 DEF TypeInv, TypeOK
  <2>4. In(t)' = In(t)
    BY <1>2, <2>1 DEF In
  <2>5. \A i : <<t, i>> \in payloads' => <<t, i>> \in payloads
    BY <1>2, <2>1
  <2>6. ASSUME NEW u \in Users PROVE inbox'[u][t] = inbox[u][t]
    <3>1. \E w : inbox'[u] \in {inbox[u], [inbox[u] EXCEPT ![nextId] = w]}
      BY <2>1
    <3> QED
      BY <1>2, <3>1 DEF TypeInv, TypeOK
  <2> QED
    BY <2>3, <2>4, <2>5, <2>6 DEF Still
<1>3. CASE ReplyCommit(r) /\ t # p.tid
  <2>1. PICK n, turns, row :
          /\ row = RepliedThread(p, turns)
          /\ thread' = [thread EXCEPT ![p.tid] = row]
          /\ inbox' = InboxAfterReply(p, turns)
          /\ payloads' \subseteq payloads \cup {<<p.tid, n>>}
    BY <1>3 DEF ReplyCommit
  <2>2. PICK m : m.thread = p.tid /\ messages' = messages \cup {m}
    BY <1>3 DEF ReplyCommit
  <2> HIDE DEF p
  <2>3. \A v \in Users : \E w : inbox'[v] \in {inbox[v], [inbox[v] EXCEPT ![p.tid] = w]}
    BY <2>1 DEF InboxAfterReply
  <2>4. \A v \in Users : inbox'[v][t] = inbox[v][t]
    BY <1>3, <2>3 DEF TypeInv, TypeOK
  <2> QED
    BY <1>3, <2>1, <2>2, <2>4 DEF Still, In, TypeInv, TypeOK
<1>4. CASE CloseCommit(r) /\ t # p.tid
  <2>1. PICK row : thread' = [thread EXCEPT ![p.tid] = row]
                   /\ UNCHANGED <<messages, payloads, inbox>>
    BY <1>4 DEF CloseCommit
  <2> HIDE DEF p
  <2> QED
    BY <1>4, <2>1 DEF Still, In, TypeInv, TypeOK
<1>5. CASE DeleteBody(r) /\ t # p.tid
  <2>1. /\ thread' = [thread EXCEPT ![p.tid] = Absent]
        /\ messages' = {m \in messages : m.thread # p.tid \/ m.id \notin p.listed}
        /\ payloads' \subseteq payloads /\ UNCHANGED inbox
    BY <1>5 DEF DeleteBody
  <2> HIDE DEF p
  <2> QED
    BY <1>5, <2>1 DEF Still, In, TypeInv, TypeOK
<1>6. CASE FinalizeCommit(r) /\ t # p.tid
  <2>1. PICK n, v, row :
          /\ row = DowngradedThread(p, n) /\ v = Owner(p.prop.agent)
          /\ thread' = [thread EXCEPT ![p.tid] = row]
          /\ inbox' = [inbox EXCEPT ![v][p.tid] = p.owner]
          /\ payloads' = payloads \cup {<<p.tid, n>>}
    BY <1>6 DEF FinalizeCommit
  <2>2. PICK m : m.thread = p.tid /\ messages' = messages \cup {m}
    BY <1>6 DEF FinalizeCommit
  <2> HIDE DEF p
  <2>3. \A u \in Users : inbox'[u][t] = inbox[u][t]
    BY <1>6, <2>1 DEF TypeInv, TypeOK
  <2> QED
    BY <1>6, <2>1, <2>2, <2>3 DEF Still, In, TypeInv, TypeOK
<1>7. CASE DeleteDrop(r) \/ DeleteInboxes(r)
  <2>1. PICK S : inbox' = [v \in Users |->
                   IF v \in S THEN [inbox[v] EXCEPT ![p.tid] = Absent] ELSE inbox[v]]
                 /\ UNCHANGED <<thread, messages, payloads>>
    <3>1. CASE DeleteInboxes(r)
      BY <3>1 DEF DeleteInboxes
    <3>2. CASE DeleteDrop(r)
      <4>1. /\ inbox' = [inbox EXCEPT ![p.user][p.tid] = Absent]
            /\ UNCHANGED <<thread, messages, payloads>>
        BY <3>2 DEF DeleteDrop
      <4> HIDE DEF p
      <4>2. inbox' = [v \in Users |->
              IF v \in {p.user} THEN [inbox[v] EXCEPT ![p.tid] = Absent] ELSE inbox[v]]
        BY <4>1 DEF TypeInv, TypeOK
      <4> QED
        BY <4>1, <4>2
    <3> QED
      BY <1>7, <3>1, <3>2
  <2> HIDE DEF p
  <2> QED
    BY <2>1 DEF Still, In, TypeInv, TypeOK
<1>8. CASE ~CreateCommit(r) /\ ~ReplyCommit(r) /\ ~CloseCommit(r) /\ ~DeleteBody(r)
           /\ ~FinalizeCommit(r) /\ ~DeleteDrop(r) /\ ~DeleteInboxes(r)
  <2>1. UNCHANGED <<thread, messages, payloads, inbox>>
    BY <1>8 DEF MailStep, CreateStart, ReplyStart, ReplyInbox, ReplyThread, ReplyPeers, CloseStart,
       CloseThread, DeleteStart, DeleteThread, DeleteListMessages,
       DeleteListPayloads, ConsentStep, ProposeStart, ProposeCheck,
       ProposePersist, ApproveStart, DenyStart, LoadThread, ApproveProposal, ApproveSave,
       DenyProposal, DenySave, FinalizeInbox, Crash, rows, history
  <2> QED
    BY <2>1 DEF Still, In
<1> QED
  BY <1>2, <1>3, <1>4, <1>5, <1>6, <1>7, <1>8 DEF Writes

\* No step takes a thread off the list of those that were replaced blindly.
LEMMA OverwrittenGrows ==
  ASSUME TypeInv, NEW r \in Reqs, MailStep(r) \/ ConsentStep(r) \/ Crash(r)
  PROVE  overwritten \subseteq overwritten'
BY DEF MailStep, CreateStart, CreateCommit, ReplyStart, ReplyInbox, ReplyThread, ReplyPeers,
   ReplyCommit, CloseStart, CloseThread, CloseCommit, DeleteStart, DeleteThread, DeleteDrop,
   DeleteListMessages, DeleteListPayloads, DeleteInboxes, DeleteBody,
   ConsentStep, ProposeStart, ProposeCheck, ProposePersist, ApproveStart, DenyStart, LoadThread,
   ApproveProposal, ApproveSave, DenyProposal, DenySave, FinalizeInbox, FinalizeCommit,
   Crash, Overwrites, rows, history

\* What a step that was not blind does to an old thread: it stays with its
\* people and keeps its divider, and gets one reply longer unless nothing is
\* added to it.
Grown(t) ==
  /\ Kept(t)
  /\ thread'[t].from = thread[t].from /\ thread'[t].participants = thread[t].participants
  /\ thread'[t].point = Absent => thread[t].point = Absent
  /\ \/ thread'[t].replies = thread[t].replies + 1
     \/ /\ thread'[t].replies = thread[t].replies
        /\ thread'[t].awaiting = thread[t].awaiting
        /\ In(t)' = In(t)
        /\ \A i : <<t, i>> \in payloads' => <<t, i>> \in payloads
        /\ \A u \in Users : inbox'[u][t] \in {Absent, inbox[u][t]}

\* A thread that is kept after a step was kept before, and has grown at most.
LEMMA KeptStep ==
  ASSUME TypeInv, RatchetInv, NEW r \in Reqs, MailStep(r) \/ ConsentStep(r) \/ Crash(r),
         NEW t \in Ids, t < nextId, Kept(t)'
  PROVE  Grown(t)
<1> DEFINE p == req[r]
<1>1. p \in Request /\ Placed(p) /\ Cautious(nextId, p)
  BY ReqType DEF RatchetInv
<1>2. CASE Still(t)
  BY <1>2, OverwrittenGrows DEF Still, Grown, Kept, Exists
<1>3. CASE CreateCommit(r) /\ t = nextId
  BY <1>3, NumberType
<1>4. CASE t = p.tid /\ ReplyCommit(r)
  <2>1. PICK turns :
          /\ p.op = "reply" /\ p.pc = "commit"
          /\ thread' = [thread EXCEPT ![p.tid] = RepliedThread(p, turns)]
          /\ overwritten' = Overwrites(thread[p.tid], p.snap, p.tid)
    BY <1>4 DEF ReplyCommit, At
  <2> HIDE DEF p
  <2>2. p.snap \in ThreadRow /\ thread[t] = p.snap /\ t \notin overwritten
    BY <1>1, <1>4, <2>1 DEF Overwrites, Placed, Kept
  <2>3. /\ RepliedThread(p, turns).from = p.snap.from
        /\ RepliedThread(p, turns).participants = p.snap.participants
        /\ RepliedThread(p, turns).point = p.snap.point
        /\ RepliedThread(p, turns).replies = p.snap.replies + 1
    BY <2>2 DEF RepliedThread, ThreadRow
  <2>4. thread'[t] = RepliedThread(p, turns)
    BY <1>4, <2>1 DEF TypeInv, TypeOK
  <2> QED
    BY <2>2, <2>3, <2>4, AbsentAssumption DEF Grown, Kept, Exists
<1>5. CASE t = p.tid /\ CloseCommit(r)
  <2>1. PICK row :
          /\ p.op = "close" /\ p.pc = "commit" /\ row = [p.snap EXCEPT !.status = "closed"]
          /\ thread' = [thread EXCEPT ![p.tid] = row]
          /\ overwritten' = Overwrites(thread[p.tid], p.snap, p.tid)
          /\ UNCHANGED <<messages, payloads, inbox>>
    BY <1>5 DEF CloseCommit, At
  <2> HIDE DEF p
  <2>2. p.snap \in ThreadRow /\ thread[t] = p.snap /\ t \notin overwritten
    BY <1>1, <1>5, <2>1 DEF Overwrites, Placed, Kept
  <2>3. /\ row.from = p.snap.from /\ row.participants = p.snap.participants
        /\ row.point = p.snap.point /\ row.awaiting = p.snap.awaiting
        /\ row.replies = p.snap.replies
    BY <2>1, <2>2 DEF ThreadRow
  <2>4. thread'[t] = row
    BY <1>5, <2>1 DEF TypeInv, TypeOK
  <2> QED
    BY <2>1, <2>2, <2>3, <2>4, AbsentAssumption DEF Grown, Kept, Exists, In
<1>6. CASE t = p.tid /\ DeleteBody(r)
  <2>1. thread' = [thread EXCEPT ![p.tid] = Absent]
    BY <1>6 DEF DeleteBody
  <2> QED
    BY <1>6, <2>1 DEF TypeInv, TypeOK, Kept, Exists
<1>7. CASE t = p.tid /\ FinalizeCommit(r)
  <2>1. PICK n, row :
          /\ n \in Ids /\ p.pc = "finalize" /\ row = DowngradedThread(p, n)
          /\ thread' = [thread EXCEPT ![p.tid] = row]
          /\ p.tid \notin overwritten' => thread[p.tid] = p.snap /\ p.tid \notin overwritten
    BY <1>7 DEF FinalizeCommit, Overwrites
  <2> HIDE DEF p
  <2>2. p.snap \in ThreadRow /\ thread[t] = p.snap /\ t \notin overwritten
    BY <1>1, <1>7, <2>1 DEF Placed, Kept
  <2>3. /\ row.from = p.snap.from /\ row.participants = p.snap.participants
        /\ row.replies = p.snap.replies + 1
        /\ row.point = [message |-> n, approvers |-> p.prop.required]
    BY <2>1, <2>2 DEF DowngradedThread, ThreadRow
  <2>5. row.point # Absent
    BY <1>1, <2>1, <2>3, AbsentAssumption DEF Placed, ProposalRow, PointRow
  <2>4. thread'[t] = row
    BY <1>7, <2>1 DEF TypeInv, TypeOK
  <2> QED
    BY <2>2, <2>3, <2>4, <2>5, AbsentAssumption DEF Grown, Kept, Exists
<1> QED
  BY <1>2, <1>3, <1>4, <1>5, <1>6, <1>7, StepScope DEF Writes

-----------------------------------------------------------------------------
(* Reach *)

\* Reach follows from where the thread came from.
LEMMA ReachStays ==
  ASSUME NEW t \in Ids, Grown(t), NEW u
  PROVE  InReach(u, thread[t]) => InReach(u, thread'[t])
BY DEF Grown, InReach

\* What a request holds belongs to an old thread.
LEMMA HeldIsOld ==
  ASSUME TypeInv, RatchetInv, NEW r \in Reqs, req[r].pc # "idle", req[r].op # "create"
  PROVE  req[r].tid \in Ids /\ req[r].tid < nextId
BY ReqType DEF RatchetInv, Cautious, Placed

\* Requests stay within reach.
LEMMA AsksStay ==
  ASSUME TypeInv, RatchetInv, TieInv, ReachInv, NEW r \in Reqs,
         MailStep(r) \/ ConsentStep(r) \/ Crash(r)
  PROVE  \A s \in Reqs : AsksWithin(req[s])'
<1> DEFINE p == req[r]
<1>1. PICK q : Becomes(r, q) /\ (q = Idle \/ Arrives(q) \/ Continues(p, q))
  BY StepMoves
<1>2. \A s \in Reqs : req'[s] = IF s = r THEN q ELSE req[s]
  BY <1>1 DEF Becomes, TypeInv, TypeOK
<1>3. ASSUME q.pc # "idle", q.op # "create", Kept(q.tid)'
      PROVE  /\ InReach(q.user, thread'[q.tid])
             /\ HoldsProposal(q) => InReach(Owner(q.prop.agent), thread'[q.tid])
  <2>1. CASE Arrives(q)
    <3>1. q.user \in Users /\ q.tid \in Ids /\ q.tid < nextId /\ ~HoldsProposal(q)
          /\ inbox[q.user][q.tid] # Absent
      BY <1>3, <2>1, RowIsOld DEF Arrives, HoldsProposal
    <3>2. Grown(q.tid)
      BY <1>3, <3>1, KeptStep
    <3>3. InReach(q.user, thread[q.tid])
      BY <3>1, <3>2 DEF ReachInv, Enclosed, Grown
    <3> QED
      BY <3>1, <3>2, <3>3, ReachStays
  <2>2. CASE Continues(p, q)
    <3>1. /\ p.pc # "idle" /\ p.op # "create" /\ q.op = p.op /\ q.user = p.user /\ q.tid = p.tid
      BY <2>2 DEF Continues
    <3>2. p.tid \in Ids /\ p.tid < nextId /\ Placed(p) /\ Tied(proposals, p)
      BY <3>1, HeldIsOld, ReqType DEF TieInv
    <3>3. Grown(p.tid)
      BY <1>3, <3>1, <3>2, KeptStep
    <3>4. InReach(p.user, thread[p.tid])
      BY <1>3, <3>1, <3>3 DEF ReachInv, AsksWithin, Grown
    <3>5. ASSUME HoldsProposal(q) PROVE InReach(Owner(q.prop.agent), thread[p.tid])
      <4>1. CASE HoldsProposal(p) /\ q.prop = p.prop
        BY <1>3, <3>1, <3>3, <4>1 DEF ReachInv, AsksWithin, Grown
      <4>2. CASE Proposable(p.user, p.tid, p.snap, q.prop.agent) /\ q.prop \in ProposalRow
        <5>1. Owner(q.prop.agent) \in Users
          BY <4>2, OwnerType DEF ProposalRow
        <5> QED
          BY <3>2, <3>3, <3>4, <4>2, <5>1 DEF Proposable, ReachInv, Enclosed, Grown
      <4>3. CASE p.op \in {"approve", "deny"} /\ q.prop = proposals[p.pid] /\ q.prop \in ProposalRow
        <5>1. p.pid \in Ids /\ p.pid # Absent
          BY <3>2, <4>3, AbsentAssumption DEF Placed
        <5>2. proposals[p.pid] # Absent /\ proposals[p.pid].thread = p.tid
          BY <3>2, <4>3, <5>1, AbsentAssumption DEF Tied, ProposalFor
        <5> QED
          BY <3>3, <4>3, <5>1, <5>2 DEF ReachInv, ProposesWithin, Grown
      <4> QED
        BY <2>2, <3>5, <4>1, <4>2, <4>3 DEF Continues
    <3> QED
      BY <3>1, <3>2, <3>3, <3>4, <3>5, ReachStays
  <2> QED
    BY <1>1, <1>3, <2>1, <2>2, IdlePlace
<1>4. q.op = "create" => Routable(q.user, q.agent, q.to)
  BY <1>1, IdlePlace DEF Arrives, Continues
<1>5. q.op = "reply" /\ q.pc = "commit" =>
        \A v \in Users : q.peers[v] # Absent => v \in PeerCandidates(q.snap)
  BY <1>1, IdlePlace DEF Arrives, Continues, JustRead
<1>6. AsksWithin(req[r])'
  BY <1>2, <1>3, <1>4, <1>5 DEF AsksWithin
<1>7. ASSUME NEW s \in Reqs, s # r PROVE AsksWithin(req[s])'
  <2>1. req'[s] = req[s] /\ AsksWithin(req[s])
    BY <1>2, <1>7 DEF ReachInv
  <2>2. ASSUME req[s].pc # "idle", req[s].op # "create", Kept(req[s].tid)'
        PROVE  /\ InReach(req[s].user, thread'[req[s].tid])
               /\ HoldsProposal(req[s]) => InReach(Owner(req[s].prop.agent), thread'[req[s].tid])
    <3>1. PICK x, t : x = req[s] /\ t = x.tid
      OBVIOUS
    <3>2. t \in Ids /\ t < nextId
      BY <2>2, <3>1, HeldIsOld
    <3>3. Kept(t)'
      BY <2>1, <2>2, <3>1
    <3>4. Grown(t)
      BY <3>2, <3>3, KeptStep
    <3> QED
      BY <2>1, <2>2, <3>1, <3>2, <3>4, ReachStays DEF AsksWithin, Grown
  <2> QED
    BY <2>1, <2>2 DEF AsksWithin
<1> QED
  BY <1>6, <1>7

\* A proposal is written by a handler that holds it, for the thread it names.
LEMMA ProposalWritten ==
  ASSUME TypeInv, TieInv, NEW r \in Reqs, MailStep(r) \/ ConsentStep(r) \/ Crash(r),
         NEW i \in Ids, proposals'[i] # proposals[i]
  PROVE  /\ req[r].pc # "idle" /\ req[r].op # "create" /\ HoldsProposal(req[r])
         /\ req[r].prop \in ProposalRow
         /\ proposals'[i].thread = req[r].tid /\ proposals'[i].agent = req[r].prop.agent
<1> DEFINE p == req[r]
<1>1. Placed(p) /\ Tied(proposals, p)
  BY ReqType DEF TieInv
<1>2. ProposePersist(r) \/ ApproveSave(r) \/ DenySave(r) \/ FinalizeCommit(r)
  <2>1. SUFFICES ASSUME ~ProposePersist(r) /\ ~ApproveSave(r) /\ ~DenySave(r)
                          /\ ~FinalizeCommit(r)
                 PROVE  UNCHANGED proposals
    OBVIOUS
  <2> QED
    BY <2>1 DEF MailStep, CreateStart, CreateCommit, ReplyStart, ReplyInbox, ReplyThread,
       ReplyPeers, ReplyCommit, CloseStart, CloseThread, CloseCommit, DeleteStart, DeleteThread,
       DeleteDrop, DeleteListMessages, DeleteListPayloads, DeleteInboxes, DeleteBody,
       ConsentStep, ProposeStart, ProposeCheck, ApproveStart, DenyStart, LoadThread,
       ApproveProposal, DenyProposal, FinalizeInbox, Crash, rows
<1>3. p.pc \in {"persist", "save", "finalize"}
  BY <1>2 DEF ProposePersist, ApproveSave, DenySave, FinalizeCommit, At
<1>4. p.prop \in ProposalRow /\ p.op # "create" /\ p.prop.thread = p.tid
  BY <1>1, <1>3, AbsentAssumption DEF Placed, Tied, Consent
<1>5. proposals'[i].thread = p.prop.thread /\ proposals'[i].agent = p.prop.agent
  <2>1. CASE ProposePersist(r)
    <3>1. PICK n : n = nextId
      OBVIOUS
    <3>2. proposals' = [proposals EXCEPT ![n] = p.prop]
      BY <2>1, <3>1 DEF ProposePersist
    <3> QED
      BY <3>2 DEF TypeInv, TypeOK
  <2>2. CASE ApproveSave(r) \/ DenySave(r)
    <3>1. PICK row :
            /\ proposals' = [proposals EXCEPT ![p.pid] = row]
            /\ row.thread = p.prop.thread /\ row.agent = p.prop.agent
      BY <2>2, <1>4 DEF ApproveSave, DenySave, ProposalRow
    <3> QED
      BY <3>1 DEF TypeInv, TypeOK
  <2>3. CASE FinalizeCommit(r)
    <3>1. PICK row :
            row = [p.prop EXCEPT !.status = "approved", !.approvals = p.prop.required,
                                 !.divider = nextId]
      OBVIOUS
    <3>2. proposals' = [proposals EXCEPT ![p.pid] = row]
      BY <2>3, <3>1 DEF FinalizeCommit
    <3>3. row.thread = p.prop.thread /\ row.agent = p.prop.agent
      BY <1>4, <3>1 DEF ProposalRow
    <3> QED
      BY <3>2, <3>3 DEF TypeInv, TypeOK
  <2> QED
    BY <1>2, <2>1, <2>2, <2>3
<1> QED
  BY <1>3, <1>4, <1>5 DEF HoldsProposal

\* Proposals stay within reach.
LEMMA ProposalsStay ==
  ASSUME TypeInv, RatchetInv, TieInv, ReachInv, NEW r \in Reqs,
         MailStep(r) \/ ConsentStep(r) \/ Crash(r)
  PROVE  \A i \in Ids : ProposesWithin(i)'
<1> SUFFICES ASSUME NEW i \in Ids, proposals'[i] # Absent
             PROVE  /\ proposals'[i].thread < nextId'
                    /\ Kept(proposals[i].thread)' =>
                         InReach(Owner(proposals'[i].agent), thread'[proposals'[i].thread])
  BY DEF ProposesWithin
<1>1. PICK t, a : t = proposals'[i].thread /\ a = proposals'[i].agent
  OBVIOUS
<1>2. t \in Ids /\ t < nextId /\ (Kept(t) => InReach(Owner(a), thread[t]))
  <2>1. CASE proposals'[i] = proposals[i]
    <3>1. proposals[i] \in ProposalRow
      BY <2>1 DEF TypeInv, TypeOK
    <3> QED
      BY <1>1, <2>1, <3>1 DEF ReachInv, ProposesWithin, ProposalRow
  <2>2. CASE proposals'[i] # proposals[i]
    BY <1>1, <2>2, ProposalWritten, HeldIsOld DEF ReachInv, AsksWithin
  <2> QED
    BY <2>1, <2>2
<1>3. t < nextId'
  BY <1>2, NextIdGrows, NumberType
<1>4. ASSUME Kept(t)' PROVE InReach(Owner(a), thread'[t])
  BY <1>2, <1>4, KeptStep, ReachStays DEF Grown
<1>5. Kept(proposals[i].thread)' => Kept(t)'
  BY <1>1 DEF Kept, Exists
<1> QED
  BY <1>1, <1>3, <1>4, <1>5

\* A new thread goes to its sender's organization, or over an external contact.
LEMMA CreateEncloses ==
  ASSUME TypeInv, RatchetInv, ReachInv, NEW r \in Reqs, CreateCommit(r),
         NEW t \in Ids, t = nextId
  PROVE  Enclosed(t)'
<1>1. PICK p : p = req[r] /\ p \in Request /\ Placed(p)
  BY ReqType
<1>2. PICK turns \in TurnChoices :
        /\ p.op = "create" /\ p.pc = "commit"
        /\ thread' = [thread EXCEPT ![t] = NewThread(p.user, p.agent, p.to, turns)]
        /\ inbox' = [v \in Users |->
             IF v \in {p.user} \cup Recipients(p.user, p.to)
             THEN [inbox[v] EXCEPT ![t] =
                    FirstInboxRow(NewThread(p.user, p.agent, p.to, turns), p.user, v)]
             ELSE inbox[v]]
  BY <1>1 DEF CreateCommit, At
<1>3. p.user \in Users /\ p.to \in Agents \cup Broadcasts /\ Routable(p.user, p.agent, p.to)
  BY <1>1, <1>2 DEF Placed, ReachInv, AsksWithin
<1>4. PICK row : row = NewThread(p.user, p.agent, p.to, turns)
  OBVIOUS
<1>5. /\ row.from = p.user
      /\ row.participants = IF CrossOrg(p.user, p.to) THEN {p.user, Owner(p.to)} ELSE {}
  BY <1>4 DEF NewThread
<1>6. thread'[t] = row
  BY <1>2, <1>4 DEF TypeInv, TypeOK
<1>7. CrossOrg(p.user, p.to) => {p.user, Owner(p.to)} \subseteq UNION Linked
  BY <1>3 DEF Routable
<1>8. ASSUME NEW u \in Users, inbox'[u][t] # Absent PROVE InReach(u, row)
  <2>1. \A v \in Users : inbox[v][t] = Absent
    BY NumberType DEF RatchetInv
  <2>2. u \in {p.user} \cup Recipients(p.user, p.to)
    BY <1>2, <1>8, <2>1
  <2>3. CASE u = p.user \/ p.to \in Broadcasts
    <3>1. p.to \in Broadcasts => p.to \in {AllAgents, OrgWide}
      BY DEF Broadcasts
    <3> QED
      BY <1>5, <2>2, <2>3, <3>1 DEF Recipients, Members, InReach, Broadcasts, AllAgents, OrgWide
  <2>4. CASE u # p.user /\ p.to \notin Broadcasts
    <3>1. u = Owner(p.to) /\ p.to \in Agents
      BY <1>3, <2>2, <2>4 DEF Recipients, Broadcasts
    <3> QED
      BY <1>5, <1>7, <3>1 DEF InReach, CrossOrg
  <2> QED
    BY <2>3, <2>4
<1> QED
  BY <1>5, <1>6, <1>7, <1>8 DEF Enclosed

\* A reply tells the people of the thread and the one who replies.
LEMMA ReplyEncloses ==
  ASSUME TypeInv, RatchetInv, ReachInv, NEW r \in Reqs, ReplyCommit(r),
         NEW t \in Ids, t = req[r].tid, Kept(t)', Grown(t)
  PROVE  \A u \in Users : inbox'[u][t] # Absent => InReach(u, thread[t])
<1>1. PICK p : p = req[r] /\ p \in Request /\ Placed(p) /\ AsksWithin(p)
  BY ReqType DEF ReachInv
<1>2. PICK turns :
        /\ p.op = "reply" /\ p.pc = "commit"
        /\ inbox' = InboxAfterReply(p, turns)
        /\ overwritten' = Overwrites(thread[p.tid], p.snap, p.tid)
  BY <1>1 DEF ReplyCommit, At
<1>3. thread[t] = p.snap
  BY <1>1, <1>2 DEF Overwrites, Kept
<1> SUFFICES ASSUME NEW u \in Users, inbox'[u][t] # Absent PROVE InReach(u, thread[t])
  OBVIOUS
<1>4. CASE StatusAfterReply(p, turns, u) = Absent
  <2>1. inbox'[u] = inbox[u]
    BY <1>2, <1>4 DEF InboxAfterReply
  <2> QED
    BY <2>1 DEF ReachInv, Enclosed, Grown
<1>5. CASE u = p.user
  BY <1>1, <1>2, <1>5 DEF AsksWithin, Grown
<1>6. CASE u # p.user /\ p.peers[u] # Absent
  <2>1. u \in PeerCandidates(thread[t])
    BY <1>1, <1>2, <1>3, <1>6 DEF AsksWithin
  <2> QED
    BY <2>1 DEF PeerCandidates, Members, InReach, ReachInv, Enclosed, Grown
<1> QED
  BY <1>4, <1>5, <1>6 DEF StatusAfterReply

\* A downgrade adds the owner of the web agent.
LEMMA FinalizeEncloses ==
  ASSUME TypeInv, RatchetInv, ReachInv, NEW r \in Reqs, FinalizeCommit(r),
         NEW t \in Ids, t = req[r].tid, Grown(t)
  PROVE  \A u \in Users : inbox'[u][t] # Absent => InReach(u, thread[t])
<1>1. PICK p, v :
        /\ p = req[r] /\ Placed(p) /\ AsksWithin(p) /\ p.pc = "finalize"
        /\ v = Owner(p.prop.agent)
        /\ inbox' = [inbox EXCEPT ![v][p.tid] = p.owner]
  BY ReqType DEF ReachInv, FinalizeCommit
<1>2. InReach(v, thread[t])
  BY <1>1 DEF AsksWithin, HoldsProposal, Grown, Placed, Consent
<1>3. \A u \in Users : u # v => inbox'[u] = inbox[u]
  BY <1>1 DEF TypeInv, TypeOK
<1> QED
  BY <1>2, <1>3 DEF ReachInv, Enclosed, Grown

\* Threads stay within reach.
LEMMA ThreadsStay ==
  ASSUME TypeInv, RatchetInv, ReachInv, NEW r \in Reqs,
         MailStep(r) \/ ConsentStep(r) \/ Crash(r), NEW t \in Ids, Kept(t)'
  PROVE  Enclosed(t)'
<1>1. CASE CreateCommit(r) /\ t = nextId
  BY <1>1, CreateEncloses
<1>2. CASE Still(t)
  <2>1. Kept(t)
    BY <1>2, OverwrittenGrows DEF Still, Kept, Exists
  <2> QED
    BY <1>2, <2>1 DEF ReachInv, Enclosed, Still, InReach
<1>3. CASE t = req[r].tid /\ (ReplyCommit(r) \/ CloseCommit(r) \/ DeleteBody(r) \/ FinalizeCommit(r))
  <2>1. req[r].pc # "idle" /\ req[r].op # "create"
    BY <1>3, ReqType DEF ReplyCommit, CloseCommit, DeleteBody, FinalizeCommit, At, Placed, Consent
  <2>2. Grown(t)
    BY <1>3, <2>1, HeldIsOld, KeptStep
  <2>3. \A u \in Users : inbox'[u][t] # Absent => InReach(u, thread[t])
    <3>1. CASE CloseCommit(r) \/ DeleteBody(r)
      BY <2>2, <3>1 DEF CloseCommit, DeleteBody, ReachInv, Enclosed, Grown
    <3> QED
      BY <1>3, <2>2, <3>1, ReplyEncloses, FinalizeEncloses
  <2> QED
    BY <2>2, <2>3, ReachStays DEF ReachInv, Enclosed, Grown
<1> QED
  BY <1>1, <1>2, <1>3, StepScope DEF Writes

\* At the start there is nobody to reach.
LEMMA InitReach == Init => ReachInv
BY IdlePlace, AbsentAssumption DEF Init, ReachInv, Kept, Exists, AsksWithin, ProposesWithin

\* Every step of every handler keeps threads within reach.
LEMMA StepReach ==
  TypeInv /\ RatchetInv /\ TieInv /\ ReachInv /\ [Next]_vars => ReachInv'
<1> SUFFICES ASSUME TypeInv, RatchetInv, TieInv, ReachInv, [Next]_vars PROVE ReachInv'
  OBVIOUS
<1>1. CASE UNCHANGED mail
  BY <1>1 DEF ReachInv, Kept, Exists, Enclosed, AsksWithin, ProposesWithin, mail
<1> QED
  BY <1>1, AsksStay, ProposalsStay, ThreadsStay, Steps DEF ReachInv

-----------------------------------------------------------------------------
(* Purge *)

\* What a step adds to a thread that is gone afterwards: nothing.
LEMMA GoneStep ==
  ASSUME TypeInv, NEW r \in Reqs, MailStep(r) \/ ConsentStep(r) \/ Crash(r),
         NEW t \in Ids, ~Exists(t)'
  PROVE  Still(t) \/ (DeleteBody(r) /\ t = req[r].tid)
<1> DEFINE p == req[r]
<1>1. p \in Request /\ Placed(p)
  BY ReqType
<1>2. ASSUME CreateCommit(r), t = nextId PROVE FALSE
  <2>1. PICK turns, n :
          /\ turns \in TurnChoices /\ n = nextId /\ p.op = "create" /\ p.pc = "commit"
          /\ thread' = [thread EXCEPT ![n] = NewThread(p.user, p.agent, p.to, turns)]
    BY <1>2 DEF CreateCommit, At
  <2> HIDE DEF p
  <2>2. NewThread(p.user, p.agent, p.to, turns) \in ThreadRow
    BY <1>1, <2>1, DirectoryAssumption, NewThreadType DEF Placed
  <2> QED
    BY <1>2, <2>1, <2>2, AbsentAssumption DEF Exists, TypeInv, TypeOK
<1>3. ASSUME ReplyCommit(r), t = p.tid PROVE FALSE
  <2>1. PICK turns \in TurnChoices :
          /\ p.op = "reply" /\ p.pc = "commit"
          /\ thread' = [thread EXCEPT ![p.tid] = RepliedThread(p, turns)]
    BY <1>3 DEF ReplyCommit, At
  <2> HIDE DEF p
  <2>2. RepliedThread(p, turns) \in ThreadRow
    BY <1>1, <2>1, DirectoryAssumption, RepliedThreadType DEF Placed
  <2> QED
    BY <1>3, <2>1, <2>2, AbsentAssumption DEF Exists, TypeInv, TypeOK
<1>4. ASSUME CloseCommit(r), t = p.tid PROVE FALSE
  <2>1. PICK row :
          /\ p.op = "close" /\ p.pc = "commit" /\ row = [p.snap EXCEPT !.status = "closed"]
          /\ thread' = [thread EXCEPT ![p.tid] = row]
    BY <1>4 DEF CloseCommit, At
  <2> HIDE DEF p
  <2>2. row \in ThreadRow
    BY <1>1, <2>1 DEF Placed, ThreadRow
  <2> QED
    BY <1>4, <2>1, <2>2, AbsentAssumption DEF Exists, TypeInv, TypeOK
<1>5. ASSUME FinalizeCommit(r), t = p.tid PROVE FALSE
  <2>1. PICK n, row :
          /\ n = nextId /\ n \in Ids /\ p.pc = "finalize" /\ row = DowngradedThread(p, n)
          /\ thread' = [thread EXCEPT ![p.tid] = row]
    BY <1>5 DEF FinalizeCommit
  <2> HIDE DEF p
  <2>2. row \in ThreadRow
    BY <1>1, <2>1, DowngradedThreadType DEF Placed
  <2> QED
    BY <1>5, <2>1, <2>2, AbsentAssumption DEF Exists, TypeInv, TypeOK
<1> QED
  BY <1>2, <1>3, <1>4, <1>5, StepScope DEF Writes

\* A purge that goes on has listed all there is, unless the thread has grown.
LEMMA PurgeMoves ==
  ASSUME TypeInv, RatchetInv, ReachInv, PurgeInv, NEW r \in Reqs,
         MailStep(r) \/ ConsentStep(r) \/ Crash(r)
  PROVE  \A s \in Reqs : PurgesAll(req[s])'
<1>1. PICK p, q : p = req[r] /\ Becomes(r, q) /\ (q = Idle \/ Arrives(q) \/ Continues(p, q))
  BY StepMoves
<1>2. \A s \in Reqs : req'[s] = IF s = r THEN q ELSE req[s]
  BY <1>1 DEF Becomes, TypeInv, TypeOK
<1>3. ASSUME Purging(q)
      PROVE  /\ q.snap \in ThreadRow
             /\ Kept(q.tid)' =>
                  /\ q.user = thread'[q.tid].from
                  /\ q.snap.replies <= thread'[q.tid].replies
                  /\ q.snap.replies = thread'[q.tid].replies => Thorough(q)'
  <2>1. Continues(p, q)
    BY <1>1, <1>3, IdlePlace DEF Purging, Arrives
  <2>2. /\ p.pc # "idle" /\ p.op = "delete" /\ q.user = p.user /\ q.tid = p.tid
        /\ q.pc = "listMessages" => q.snap = thread[p.tid] /\ q.snap # Absent /\ q.snap.from = q.user
        /\ q.pc # "listMessages" => q.snap = p.snap /\ Purging(p)
    BY <1>3, <2>1 DEF Continues, Purging, JustRead
  <2>3. p.tid \in Ids /\ p.tid < nextId /\ PurgesAll(p)
    BY <1>1, <2>2, HeldIsOld DEF PurgeInv
  <2>4. q.snap \in ThreadRow
    BY <2>2, <2>3, ThreadType DEF PurgesAll
  <2>5. ASSUME Kept(p.tid)'
        PROVE  /\ q.user = thread'[p.tid].from
               /\ q.snap.replies <= thread'[p.tid].replies
               /\ q.snap.replies = thread'[p.tid].replies => Thorough(q)'
    <3>1. Grown(p.tid)
      BY <2>3, <2>5, KeptStep
    <3>2. thread[p.tid] \in ThreadRow /\ thread[p.tid].replies \in Nat /\ q.snap.replies \in Nat
      BY <2>3, <2>4, <3>1, ThreadType DEF Grown, Kept, Exists, ThreadRow
    <3>3. q.user = thread[p.tid].from /\ q.snap.replies <= thread[p.tid].replies
      BY <2>2, <2>3, <3>1, <3>2 DEF PurgesAll, Grown
    <3>4. ASSUME q.snap.replies = thread'[p.tid].replies PROVE Thorough(q)'
      <4>1. /\ q.snap.replies = thread[p.tid].replies
            /\ In(p.tid)' = In(p.tid)
            /\ \A i : <<p.tid, i>> \in payloads' => <<p.tid, i>> \in payloads
            /\ \A u \in Users : inbox'[u][p.tid] \in {Absent, inbox[u][p.tid]}
        BY <3>1, <3>2, <3>3, <3>4 DEF Grown
      <4>2. q.pc # "listMessages" => Thorough(p)
        BY <2>2, <2>3, <3>1, <4>1 DEF PurgesAll, Grown
      <4>3. ASSUME q.pc # "listMessages", NEW m \in In(p.tid)' PROVE m.id \in q.listed
        BY <1>3, <2>1, <4>1, <4>2, <4>3 DEF Continues, Thorough, Purging
      <4>4. ASSUME q.pc \in {"dropInboxes", "dropBody"}, NEW i, <<p.tid, i>> \in payloads'
            PROVE  i \in q.records
        <5>1. <<p.tid, i>> \in payloads /\ i \in Ids
          BY <4>1, <4>4 DEF TypeInv, TypeOK
        <5> QED
          BY <2>1, <4>2, <4>4, <5>1 DEF Continues, Thorough
      <4>5. ASSUME q.pc = "dropBody", NEW u \in Users \ UNION Linked
            PROVE  inbox'[u][p.tid] = Absent
        <5>1. CASE inbox[u][p.tid] = Absent
          BY <4>1, <5>1
        <5>2. CASE inbox[u][p.tid] # Absent
          <6>1. OrgOf[u] = OrgOf[p.user]
            BY <2>2, <2>3, <3>1, <3>3, <5>2 DEF ReachInv, Enclosed, InReach, Grown
          <6> QED
            BY <2>1, <4>5, <6>1 DEF Continues, Members
        <5> QED
          BY <5>1, <5>2
      <4> QED
        BY <2>2, <4>3, <4>4, <4>5 DEF Thorough
    <3> QED
      BY <3>1, <3>2, <3>3, <3>4 DEF Grown
  <2> QED
    BY <2>2, <2>4, <2>5
<1>4. PurgesAll(req[r])'
  BY <1>2, <1>3 DEF PurgesAll
<1>5. ASSUME NEW s \in Reqs, s # r PROVE PurgesAll(req[s])'
  <2>1. PICK x : x = req[s] /\ req'[s] = x /\ PurgesAll(x)
    BY <1>2, <1>5 DEF PurgeInv
  <2>2. ASSUME Purging(x), Kept(x.tid)'
        PROVE  /\ x.user = thread'[x.tid].from
               /\ x.snap.replies <= thread'[x.tid].replies
               /\ x.snap.replies = thread'[x.tid].replies => Thorough(x)'
    <3>1. x.tid \in Ids /\ x.tid < nextId
      BY <2>1, <2>2, HeldIsOld DEF Purging
    <3>2. Grown(x.tid)
      BY <2>2, <3>1, KeptStep
    <3>3. thread[x.tid].replies \in Nat /\ x.snap.replies \in Nat
      BY <2>1, <2>2, <3>1, <3>2, ThreadType DEF Grown, Kept, Exists, ThreadRow, PurgesAll
    <3>4. x.user = thread[x.tid].from /\ x.snap.replies <= thread[x.tid].replies
      BY <2>1, <2>2, <3>2 DEF PurgesAll, Grown
    <3>5. ASSUME x.snap.replies = thread'[x.tid].replies PROVE Thorough(x)'
      <4>1. Thorough(x)
        BY <2>1, <2>2, <3>2, <3>3, <3>4, <3>5 DEF PurgesAll, Grown
      <4>2. /\ In(x.tid)' = In(x.tid)
            /\ \A i : <<x.tid, i>> \in payloads' => <<x.tid, i>> \in payloads
            /\ \A u \in Users : inbox'[u][x.tid] \in {Absent, inbox[u][x.tid]}
        BY <3>2, <3>3, <3>4, <3>5 DEF Grown
      <4> QED
        BY <4>1, <4>2 DEF Thorough
    <3> QED
      BY <3>2, <3>3, <3>4, <3>5 DEF Grown
  <2> QED
    BY <2>1, <2>2 DEF PurgesAll
<1> QED
  BY <1>4, <1>5

\* A step that was not blind and after which thread t is gone leaves nothing
\* of it behind.
LEMMA PurgeStays ==
  ASSUME TypeInv, RatchetInv, ReachInv, PurgeInv, NEW r \in Reqs,
         MailStep(r) \/ ConsentStep(r) \/ Crash(r),
         NEW t \in Ids, t \notin overwritten', ~Exists(t)'
  PROVE  /\ In(t)' = {}
         /\ \A i \in Ids : <<t, i>> \notin payloads'
         /\ \A u \in Users \ UNION Linked : inbox'[u][t] = Absent
<1>1. CASE Still(t)
  <2>1. ~Exists(t) /\ t \notin overwritten
    BY <1>1, OverwrittenGrows DEF Still, Exists
  <2> QED
    BY <1>1, <2>1 DEF Still, PurgeInv, PurgeIsComplete
<1>2. CASE DeleteBody(r) /\ t = req[r].tid
  <2>1. PICK p :
          /\ p = req[r] /\ p.op = "delete" /\ p.pc = "dropBody"
          /\ messages' = {m \in messages : m.thread # p.tid \/ m.id \notin p.listed}
          /\ payloads' = payloads \ ({p.tid} \X p.records)
          /\ overwritten' = Overwrites(thread[p.tid], p.snap, p.tid)
          /\ UNCHANGED inbox
    BY <1>2 DEF DeleteBody, At
  <2>2. thread[t] = p.snap /\ t \notin overwritten
    BY <1>2, <2>1 DEF Overwrites
  <2>3. Purging(p) /\ p.snap \in ThreadRow
    BY <2>1 DEF Purging, PurgeInv, PurgesAll
  <2>4. Thorough(p)
    BY <1>2, <2>1, <2>2, <2>3, AbsentAssumption DEF PurgeInv, PurgesAll, Kept, Exists
  <2>5. In(t)' = {}
    BY <1>2, <2>1, <2>4 DEF Thorough, In
  <2> QED
    BY <1>2, <2>1, <2>4, <2>5 DEF Thorough
<1> QED
  BY <1>1, <1>2, GoneStep

\* At the start nothing is there to purge.
LEMMA InitPurge == Init => PurgeInv
BY IdlePlace DEF Init, PurgeInv, PurgeIsComplete, PurgesAll, Purging, In

\* Every step of every handler keeps purges complete.
LEMMA StepPurge ==
  TypeInv /\ RatchetInv /\ ReachInv /\ PurgeInv /\ [Next]_vars => PurgeInv'
<1> SUFFICES ASSUME TypeInv, RatchetInv, ReachInv, PurgeInv, [Next]_vars PROVE PurgeInv'
  OBVIOUS
<1>1. CASE UNCHANGED mail
  BY <1>1 DEF PurgeInv, PurgeIsComplete, PurgesAll, Thorough, Kept, Exists, In, mail
<1>2. ASSUME NEW r \in Reqs, MailStep(r) \/ ConsentStep(r) \/ Crash(r) PROVE PurgeInv'
  <2>1. PurgeIsComplete'
    BY <1>2, PurgeStays DEF PurgeIsComplete
  <2> QED
    BY <1>2, <2>1, PurgeMoves DEF PurgeInv
<1> QED
  BY <1>1, <1>2, Steps

\* A thread reaches nobody but its sender's organization and the two ends of
\* external contacts, and what requests hold can bring in nobody else.
THEOREM ReachInvariant == Spec => [](TypeInv /\ RatchetInv /\ TieInv /\ ReachInv)
BY InitType, StepType, InitRatchet, StepRatchet, InitTie, StepTie, InitReach, StepReach, PTL DEF Spec

\* A purge is complete, whatever replied, closed, approved or purged meanwhile:
\* unless the row was replaced blindly, nothing of the thread is left.
THEOREM PurgeLeavesNothing == Spec => []PurgeIsComplete
<1>1. Spec => [](TypeInv /\ RatchetInv /\ TieInv /\ ReachInv /\ PurgeInv)
  BY InitType, StepType, InitRatchet, StepRatchet, InitTie, StepTie, InitReach, StepReach,
     InitPurge, StepPurge, PTL DEF Spec
<1>2. PurgeInv => PurgeIsComplete
  BY DEF PurgeInv
<1> QED
  BY <1>1, <1>2, PTL

-----------------------------------------------------------------------------
(* Turns.
   When every message declares who is awaited, the inbox says the same.  A reply sets
   the row and the inboxes of those it found in the thread a step earlier; nobody is
   missed, because whoever got an inbox row since got it from a commit that made the
   thread longer, and on a thread that is longer than when it was read the commit is
   blind. *)

\* The inbox of thread t, up to its downgrade, is that of its people and says
\* who is awaited.
Mirrors(t) ==
  thread[t].point = Absent =>
    /\ thread[t].awaiting # Absent
    /\ \A u \in Users : inbox[u][t] # Absent =>
         /\ u \in PeerCandidates(thread[t])
         /\ inbox[u][t].status = "pending" <=> u \in thread[t].awaiting

\* Nobody with an inbox row escapes the commit of the reply.
Reaches(q) ==
  \A u \in Users : inbox[u][q.tid] # Absent => q.peers[u] # Absent \/ u = q.user

\* The reply is by one of the thread's people, and reaches all of them unless
\* the thread has grown since it was read.
RepliesToAll(q) ==
  q.op = "reply" /\ q.pc # "idle" /\ Kept(q.tid) /\ thread[q.tid].point = Absent =>
    /\ q.user \in PeerCandidates(thread[q.tid])
    /\ q.pc \in {"peers", "commit"} =>
         /\ q.snap.from = thread[q.tid].from /\ q.snap.participants = thread[q.tid].participants
         /\ q.snap.replies <= thread[q.tid].replies
         /\ q.pc = "commit" /\ q.snap.replies = thread[q.tid].replies => Reaches(q)

MirrorInv ==
  /\ \A t \in Ids : Kept(t) => Mirrors(t)
  /\ \A r \in Reqs : RepliesToAll(req[r])

\* The people of a thread stay the same.
LEMMA SamePeople ==
  ASSUME NEW t \in Ids, Grown(t)
  PROVE  PeerCandidates(thread'[t]) = PeerCandidates(thread[t])
BY DEF Grown, PeerCandidates

\* A reply held by a request that waits reaches everybody as before.
LEMMA ReplyStays ==
  ASSUME TypeInv, RatchetInv, NEW r \in Reqs, MailStep(r) \/ ConsentStep(r) \/ Crash(r),
         NEW x \in Request, Placed(x), RepliesToAll(x), x.tid \in Ids, x.tid < nextId
  PROVE  RepliesToAll(x)'
<1> SUFFICES ASSUME x.op = "reply", x.pc # "idle", Kept(x.tid)', thread'[x.tid].point = Absent
             PROVE  /\ x.user \in PeerCandidates(thread'[x.tid])
                    /\ x.pc \in {"peers", "commit"} =>
                         /\ x.snap.from = thread'[x.tid].from
                         /\ x.snap.participants = thread'[x.tid].participants
                         /\ x.snap.replies <= thread'[x.tid].replies
                         /\ x.pc = "commit" /\ x.snap.replies = thread'[x.tid].replies => Reaches(x)'
  BY DEF RepliesToAll
<1>1. Grown(x.tid) /\ Kept(x.tid) /\ thread[x.tid].point = Absent
  BY KeptStep DEF Grown
<1>2. x.user \in PeerCandidates(thread'[x.tid])
  BY <1>1, SamePeople DEF RepliesToAll
<1>3. thread[x.tid].replies \in Nat
  BY <1>1, ThreadType DEF Kept, Exists, ThreadRow
<1>4. ASSUME x.pc \in {"peers", "commit"}
      PROVE  /\ x.snap.from = thread'[x.tid].from
             /\ x.snap.participants = thread'[x.tid].participants
             /\ x.snap.replies <= thread'[x.tid].replies
             /\ x.pc = "commit" /\ x.snap.replies = thread'[x.tid].replies => Reaches(x)'
  <2>1. x.snap.replies \in Nat
    BY <1>4 DEF Placed, ThreadRow
  <2>2. /\ x.snap.from = thread[x.tid].from /\ x.snap.participants = thread[x.tid].participants
        /\ x.snap.replies <= thread[x.tid].replies
        /\ x.pc = "commit" /\ x.snap.replies = thread[x.tid].replies => Reaches(x)
    BY <1>1, <1>4 DEF RepliesToAll
  <2>3. /\ x.snap.from = thread'[x.tid].from /\ x.snap.participants = thread'[x.tid].participants
        /\ x.snap.replies <= thread'[x.tid].replies
    BY <1>1, <1>3, <2>1, <2>2 DEF Grown
  <2>4. ASSUME x.pc = "commit", x.snap.replies = thread'[x.tid].replies PROVE Reaches(x)'
    <3>1. x.snap.replies = thread[x.tid].replies
          /\ \A u \in Users : inbox'[u][x.tid] \in {Absent, inbox[u][x.tid]}
      BY <1>1, <1>3, <2>1, <2>2, <2>4 DEF Grown
    <3> QED
      BY <2>2, <2>4, <3>1 DEF Reaches
  <2> QED
    BY <2>3, <2>4
<1> QED
  BY <1>2, <1>4

\* A reply that goes on reaches everybody it has to.
LEMMA ReplyMoves ==
  ASSUME TypeInv, RatchetInv, MirrorInv, NEW r \in Reqs, MailStep(r) \/ ConsentStep(r) \/ Crash(r),
         NEW q, Becomes(r, q), Arrives(q) \/ Continues(req[r], q)
  PROVE  RepliesToAll(q)'
<1> SUFFICES ASSUME q.op = "reply", q.pc # "idle", Kept(q.tid)', thread'[q.tid].point = Absent
             PROVE  /\ q.user \in PeerCandidates(thread'[q.tid])
                    /\ q.pc \in {"peers", "commit"} =>
                         /\ q.snap.from = thread'[q.tid].from
                         /\ q.snap.participants = thread'[q.tid].participants
                         /\ q.snap.replies <= thread'[q.tid].replies
                         /\ q.pc = "commit" /\ q.snap.replies = thread'[q.tid].replies => Reaches(q)'
  BY DEF RepliesToAll
<1>1. PICK p : p = req[r] /\ Placed(p) /\ RepliesToAll(p) /\ p \in Request
  BY ReqType DEF MirrorInv
<1>2. CASE Arrives(q)
  <2>1. q.pc \in {"inbox", "thread"} /\ q.user \in Users /\ q.tid \in Ids
        /\ inbox[q.user][q.tid] # Absent
    BY <1>2 DEF Arrives
  <2>2. Grown(q.tid) /\ Kept(q.tid) /\ thread[q.tid].point = Absent
    BY <2>1, RowIsOld, KeptStep DEF Grown
  <2>3. q.user \in PeerCandidates(thread[q.tid])
    BY <2>1, <2>2 DEF MirrorInv, Mirrors
  <2> QED
    BY <2>1, <2>2, <2>3, SamePeople
<1>3. CASE Continues(p, q)
  <2>1. /\ p.pc # "idle" /\ p.op = "reply" /\ q.user = p.user /\ q.tid = p.tid
        /\ q.pc = "peers" => q.snap = thread[p.tid]
        /\ q.pc = "commit" =>
             /\ p.pc = "peers" /\ q.snap = p.snap
             /\ q.peers = [v \in Users |->
                             IF v \in PeerCandidates(p.snap) THEN Role(v, p.tid) ELSE Absent]
    BY <1>3 DEF Continues, JustRead
  <2>2. p.tid \in Ids /\ p.tid < nextId
    BY <1>1, <2>1, HeldIsOld
  <2>3. Grown(p.tid) /\ Kept(p.tid) /\ thread[p.tid].point = Absent
    BY <2>1, <2>2, KeptStep DEF Grown
  <2>4. thread[p.tid].replies \in Nat
    BY <2>2, <2>3, ThreadType DEF Kept, Exists, ThreadRow
  <2>5. q.user \in PeerCandidates(thread'[q.tid])
    BY <1>1, <2>1, <2>2, <2>3, SamePeople DEF RepliesToAll
  <2>6. CASE q.pc = "peers"
    BY <2>1, <2>3, <2>4, <2>5, <2>6 DEF Grown
  <2>7. CASE q.pc = "commit"
    <3>1. p.snap.replies \in Nat
      BY <1>1, <2>1, <2>7 DEF Placed, ThreadRow
    <3>2. /\ p.snap.from = thread[p.tid].from /\ p.snap.participants = thread[p.tid].participants
          /\ p.snap.replies <= thread[p.tid].replies
      BY <1>1, <2>1, <2>3, <2>7 DEF RepliesToAll
    <3>3. /\ q.snap.from = thread'[q.tid].from /\ q.snap.participants = thread'[q.tid].participants
          /\ q.snap.replies <= thread'[q.tid].replies
      BY <2>1, <2>3, <2>4, <2>7, <3>1, <3>2 DEF Grown
    <3>4. ASSUME q.snap.replies = thread'[q.tid].replies PROVE Reaches(q)'
      <4>1. \A u \in Users : inbox'[u][p.tid] \in {Absent, inbox[u][p.tid]}
        BY <2>1, <2>3, <2>4, <2>7, <3>1, <3>2, <3>4 DEF Grown
      <4>2. PeerCandidates(p.snap) = PeerCandidates(thread[p.tid])
        BY <3>2 DEF PeerCandidates
      <4>3. ASSUME NEW u \in Users, inbox'[u][q.tid] # Absent PROVE q.peers[u] # Absent
        <5>1. inbox[u][p.tid] # Absent
          BY <2>1, <4>1, <4>3
        <5>2. inbox[u][p.tid].role # Absent
          BY <2>2, <5>1, AbsentAssumption DEF TypeInv, TypeOK, InboxRow
        <5>3. u \in PeerCandidates(p.snap)
          BY <2>2, <2>3, <4>2, <5>1 DEF MirrorInv, Mirrors
        <5> QED
          BY <2>1, <2>7, <5>1, <5>2, <5>3 DEF Role
      <4> QED
        BY <4>3 DEF Reaches
    <3> QED
      BY <2>5, <3>3, <3>4
  <2> QED
    BY <2>5, <2>6, <2>7
<1> QED
  BY <1>1, <1>2, <1>3

\* Requests in flight reach everybody they have to.
LEMMA RepliesStay ==
  ASSUME TypeInv, RatchetInv, MirrorInv, NEW r \in Reqs, MailStep(r) \/ ConsentStep(r) \/ Crash(r)
  PROVE  \A s \in Reqs : RepliesToAll(req[s])'
<1>1. PICK q : Becomes(r, q) /\ (q = Idle \/ Arrives(q) \/ Continues(req[r], q))
  BY StepMoves
<1>2. \A s \in Reqs : req'[s] = IF s = r THEN q ELSE req[s]
  BY <1>1 DEF Becomes, TypeInv, TypeOK
<1>3. RepliesToAll(q)'
  BY <1>1, ReplyMoves, IdlePlace DEF RepliesToAll
<1>4. RepliesToAll(req[r])'
  BY <1>2, <1>3 DEF RepliesToAll, Kept, Exists, Reaches
<1>5. ASSUME NEW s \in Reqs, s # r PROVE RepliesToAll(req[s])'
  <2>1. PICK x : x = req[s] /\ req'[s] = x /\ x \in Request /\ Placed(x) /\ RepliesToAll(x)
    BY <1>2, <1>5, ReqType DEF MirrorInv
  <2>2. RepliesToAll(x)'
    BY <2>1, HeldIsOld, ReplyStays DEF RepliesToAll
  <2> QED
    BY <2>1, <2>2 DEF RepliesToAll, Kept, Exists, Reaches
<1> QED
  BY <1>4, <1>5

\* Clients that declare turns with every message.
TurnsDeclared == Absent \notin TurnChoices

\* A new thread is pending for whom it declares.
LEMMA CreateMirrors ==
  ASSUME TurnsDeclared, TypeInv, RatchetInv, NEW r \in Reqs, CreateCommit(r),
         NEW t \in Ids, t = nextId
  PROVE  Mirrors(t)'
<1>1. PICK p : p = req[r] /\ p \in Request /\ Placed(p)
  BY ReqType
<1>2. PICK turns \in TurnChoices :
        /\ p.op = "create" /\ p.pc = "commit"
        /\ thread' = [thread EXCEPT ![t] = NewThread(p.user, p.agent, p.to, turns)]
        /\ inbox' = [v \in Users |->
             IF v \in {p.user} \cup Recipients(p.user, p.to)
             THEN [inbox[v] EXCEPT ![t] =
                    FirstInboxRow(NewThread(p.user, p.agent, p.to, turns), p.user, v)]
             ELSE inbox[v]]
  BY <1>1 DEF CreateCommit, At
<1>3. p.user \in Users /\ p.to \in Agents \cup Broadcasts
  BY <1>1, <1>2 DEF Placed
<1>4. PICK row : row = NewThread(p.user, p.agent, p.to, turns)
  OBVIOUS
<1>5. /\ row.from = p.user /\ row.awaiting = turns /\ turns # Absent
      /\ row.participants = IF CrossOrg(p.user, p.to) THEN {p.user, Owner(p.to)} ELSE {}
  BY <1>2, <1>4 DEF NewThread, TurnsDeclared
<1>6. thread'[t] = row
  BY <1>2, <1>4 DEF TypeInv, TypeOK
<1>7. ASSUME NEW u \in Users, inbox'[u][t] # Absent
      PROVE  u \in PeerCandidates(row) /\ (inbox'[u][t].status = "pending" <=> u \in row.awaiting)
  <2>1. inbox[u][t] = Absent
    BY NumberType DEF RatchetInv
  <2>2. u \in {p.user} \cup Recipients(p.user, p.to)
    BY <1>2, <1>7, <2>1
  <2>3. inbox'[u][t] = FirstInboxRow(row, p.user, u)
    BY <1>2, <1>4, <2>2 DEF TypeInv, TypeOK
  <2>4. inbox'[u][t].status = "pending" <=> u \in row.awaiting
    BY <1>5, <2>3 DEF FirstInboxRow
  <2>5. u \in PeerCandidates(row)
    <3>1. CASE CrossOrg(p.user, p.to)
      <4>1. p.to # AllAgents /\ p.to # OrgWide
        BY <3>1, DirectoryAssumption DEF CrossOrg, Broadcasts
      <4> QED
        BY <1>5, <2>2, <3>1, <4>1 DEF PeerCandidates, Recipients
    <3>2. CASE ~CrossOrg(p.user, p.to)
      <4>1. row.participants = {} /\ PeerCandidates(row) = {p.user} \cup Members(OrgOf[p.user])
        BY <1>5, <3>2 DEF PeerCandidates
      <4>2. CASE p.to = AllAgents \/ p.to = OrgWide
        BY <2>2, <4>1, <4>2 DEF Recipients, AllAgents, OrgWide
      <4>3. CASE p.to # AllAgents /\ p.to # OrgWide
        <5>1. p.to \in Agents /\ u \in {p.user, Owner(p.to)}
          BY <1>3, <2>2, <4>3 DEF Recipients, Broadcasts
        <5> QED
          BY <3>2, <4>1, <5>1 DEF CrossOrg, Members
      <4> QED
        BY <4>2, <4>3
    <3> QED
      BY <3>1, <3>2
  <2> QED
    BY <2>4, <2>5
<1> QED
  BY <1>5, <1>6, <1>7 DEF Mirrors

\* A reply that is not blind leaves everybody as it declares.
LEMMA ReplyMirrors ==
  ASSUME TurnsDeclared, TypeInv, RatchetInv, ReachInv, MirrorInv, NEW r \in Reqs, ReplyCommit(r),
         NEW t \in Ids, t = req[r].tid, Kept(t)', Grown(t)
  PROVE  Mirrors(t)'
<1>1. PICK p : p = req[r] /\ p \in Request /\ Placed(p) /\ RepliesToAll(p) /\ AsksWithin(p)
  BY ReqType DEF MirrorInv, ReachInv
<1>2. PICK turns \in TurnChoices :
        /\ p.op = "reply" /\ p.pc = "commit"
        /\ thread' = [thread EXCEPT ![t] = RepliedThread(p, turns)]
        /\ inbox' = InboxAfterReply(p, turns)
        /\ overwritten' = Overwrites(thread[t], p.snap, t)
  BY <1>1 DEF ReplyCommit, At
<1>3. p.tid = t /\ thread[t] = p.snap /\ p.snap \in ThreadRow /\ turns # Absent
  BY <1>1, <1>2, NotBlind DEF Kept, Placed, TurnsDeclared
<1>4. PICK row : row = RepliedThread(p, turns)
  OBVIOUS
<1>5. thread'[t] = row /\ row.awaiting = turns
  BY <1>2, <1>3, <1>4 DEF RepliedThread, ThreadRow, TypeInv, TypeOK
<1> SUFFICES ASSUME row.point = Absent, NEW u \in Users, inbox'[u][t] # Absent
             PROVE  /\ u \in PeerCandidates(row)
                    /\ inbox'[u][t].status = "pending" <=> u \in turns
  BY <1>3, <1>5 DEF Mirrors
<1>6. thread[t].point = Absent /\ Kept(t) /\ PeerCandidates(row) = PeerCandidates(thread[t])
  BY <1>5, SamePeople DEF Grown
<1>7. p.user \in PeerCandidates(row) /\ Reaches(p)
  BY <1>1, <1>2, <1>3, <1>6 DEF RepliesToAll
<1>8. CASE StatusAfterReply(p, turns, u) = Absent
  <2>1. inbox'[u] = inbox[u] /\ u # p.user /\ p.peers[u] = Absent
    BY <1>2, <1>3, <1>8, AbsentAssumption DEF InboxAfterReply, StatusAfterReply
  <2> QED
    BY <1>3, <1>7, <2>1 DEF Reaches
<1>9. CASE StatusAfterReply(p, turns, u) # Absent
  <2>1. /\ p.peers[u] # Absent \/ u = p.user
        /\ StatusAfterReply(p, turns, u) = IF u \in turns THEN "pending" ELSE "replied"
    BY <1>3, <1>9 DEF StatusAfterReply
  <2>2. PICK role :
          inbox'[u] = [inbox[u] EXCEPT ![t] = [status |-> StatusAfterReply(p, turns, u), role |-> role]]
    BY <1>2, <1>3, <1>9 DEF InboxAfterReply
  <2>3. inbox'[u][t].status = StatusAfterReply(p, turns, u)
    BY <2>2 DEF TypeInv, TypeOK
  <2>4. ASSUME u # p.user PROVE u \in PeerCandidates(thread[t])
    BY <1>1, <1>2, <1>3, <2>1, <2>4 DEF AsksWithin
  <2> QED
    BY <1>6, <1>7, <2>1, <2>3, <2>4
<1> QED
  BY <1>8, <1>9

\* The inbox of every thread says who is awaited.
LEMMA ThreadsMirror ==
  ASSUME TurnsDeclared, TypeInv, RatchetInv, ReachInv, MirrorInv, NEW r \in Reqs,
         MailStep(r) \/ ConsentStep(r) \/ Crash(r), NEW t \in Ids, Kept(t)'
  PROVE  Mirrors(t)'
<1>1. CASE CreateCommit(r) /\ t = nextId
  BY <1>1, CreateMirrors
<1>2. CASE Still(t)
  <2>1. Kept(t)
    BY <1>2, OverwrittenGrows DEF Still, Kept, Exists
  <2> QED
    BY <1>2, <2>1 DEF MirrorInv, Mirrors, Still
<1>3. CASE t = req[r].tid /\ (ReplyCommit(r) \/ CloseCommit(r) \/ DeleteBody(r) \/ FinalizeCommit(r))
  <2>1. PICK p : p = req[r] /\ p \in Request /\ Placed(p)
    BY ReqType
  <2>2. Grown(t)
    <3>1. p.pc # "idle" /\ p.op # "create"
      BY <1>3, <2>1 DEF ReplyCommit, CloseCommit, DeleteBody, FinalizeCommit, At, Placed, Consent
    <3> QED
      BY <1>3, <2>1, <3>1, HeldIsOld, KeptStep
  <2>3. CASE ReplyCommit(r)
    BY <1>3, <2>2, <2>3, ReplyMirrors
  <2>4. CASE CloseCommit(r)
    <3>1. PICK row :
            /\ p.op = "close" /\ p.pc = "commit" /\ row = [p.snap EXCEPT !.status = "closed"]
            /\ thread' = [thread EXCEPT ![t] = row]
            /\ overwritten' = Overwrites(thread[t], p.snap, t)
            /\ UNCHANGED inbox
      BY <1>3, <2>1, <2>4 DEF CloseCommit, At
    <3>2. thread[t] = p.snap /\ p.snap \in ThreadRow
      BY <2>1, <3>1, NotBlind DEF Placed, Kept
    <3>3. thread'[t] = row /\ row.point = p.snap.point /\ row.awaiting = p.snap.awaiting
      BY <3>1, <3>2 DEF ThreadRow, TypeInv, TypeOK
    <3> QED
      BY <2>2, <3>1, <3>2, <3>3, SamePeople DEF MirrorInv, Mirrors, Grown
  <2>5. CASE DeleteBody(r)
    <3>1. thread' = [thread EXCEPT ![t] = Absent]
      BY <1>3, <2>5 DEF DeleteBody
    <3> QED
      BY <3>1 DEF TypeInv, TypeOK, Kept, Exists
  <2>6. CASE FinalizeCommit(r)
    <3>1. PICK n, row :
            /\ n \in Ids /\ p.pc = "finalize" /\ row = DowngradedThread(p, n)
            /\ thread' = [thread EXCEPT ![t] = row]
      BY <1>3, <2>1, <2>6 DEF FinalizeCommit
    <3>2. p.snap \in ThreadRow /\ p.prop \in ProposalRow
      BY <2>1, <3>1 DEF Placed
    <3>3. row.point = [message |-> n, approvers |-> p.prop.required]
      BY <3>1, <3>2 DEF DowngradedThread, ThreadRow
    <3>4. row.point # Absent
      BY <3>1, <3>2, <3>3, AbsentAssumption DEF ProposalRow, PointRow
    <3>5. thread'[t] = row
      BY <3>1 DEF TypeInv, TypeOK
    <3> QED
      BY <3>4, <3>5 DEF Mirrors
  <2> QED
    BY <1>3, <2>3, <2>4, <2>5, <2>6
<1> QED
  BY <1>1, <1>2, <1>3, StepScope DEF Writes

\* At the start there is nobody to wake.
LEMMA InitMirror == Init => MirrorInv
BY IdlePlace, AbsentAssumption DEF Init, MirrorInv, Kept, Exists, RepliesToAll

\* Every step of every handler keeps inboxes and turns in agreement.
LEMMA StepMirror ==
  TurnsDeclared => (TypeInv /\ RatchetInv /\ ReachInv /\ MirrorInv /\ [Next]_vars => MirrorInv')
<1> SUFFICES ASSUME TurnsDeclared, TypeInv, RatchetInv, ReachInv, MirrorInv, [Next]_vars
             PROVE  MirrorInv'
  OBVIOUS
<1>1. CASE UNCHANGED mail
  BY <1>1 DEF MirrorInv, Mirrors, RepliesToAll, Reaches, Kept, Exists, mail
<1> QED
  BY <1>1, RepliesStay, ThreadsMirror, Steps DEF MirrorInv

\* Whatever overlaps, who is awaited has the thread under "needs you" and
\* nobody else has, for clients that declare turns with every message and
\* until a downgrade, unless a commit replaced the row blindly.
THEOREM TurnsAreMirrored ==
  ASSUME TurnsDeclared
  PROVE  Spec => []AwaitingIsMirrored
<1>1. MirrorInv => AwaitingIsMirrored
  BY DEF MirrorInv, Mirrors, AwaitingIsMirrored, Kept
<1>2. Spec => []MirrorInv
  <2>1. TypeInv /\ RatchetInv /\ ReachInv /\ MirrorInv /\ [Next]_vars => MirrorInv'
    BY StepMirror
  <2> QED
    BY <2>1, ReachInvariant, InitMirror, PTL DEF Spec
<1> QED
  BY <1>1, <1>2, PTL

=============================================================================
