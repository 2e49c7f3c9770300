-------------------------- MODULE ThreadDowngrade --------------------------
(***************************************************************************)
(* Consent to end end-to-end encryption on a thread: propose, approve and  *)
(* deny a downgrade (hub/store/thread_downgrade.ts), and what a web agent  *)
(* may fetch afterwards.                                                   *)
(*                                                                         *)
(* As in ThreadMail no commit carries a `check`: the thread row and the    *)
(* proposal that finalizeApprovedDowngrade writes are the ones its caller  *)
(* read, with a few fields changed.                                        *)
(***************************************************************************)
EXTENDS ThreadStore

\* collectSidecarApproverAgentIds: sidecar agents among the two ends of the
\* thread and the authors of its messages, and for bare @all all sidecar
\* agents of the owner.
Approvers(t, row) ==
  LET authors == {m.agent : m \in {n \in messages : n.thread = t}}
      roster == IF row.audience = AllAgents THEN AgentsOf(row.from) ELSE {}
  IN {a \in Agents : IsSidecar(a) /\ a \in {row.fromAgent, row.audience} \cup authors \cup roster}

\* Whose web agent may be proposed (resolveProposedWebAgent): the caller's, or
\* one of somebody on the thread who has an inbox row for it.
Proposable(u, t, row, w) ==
  LET v == Owner(w)
      ends == {a \in Agents : a \in {row.fromAgent, row.audience}}
      candidates == {u, row.from} \cup row.participants \cup {Owner(a) : a \in ends}
  IN IsWeb(w) /\ v \in candidates /\ (v = u \/ inbox[v][t] # Absent)

\* agentIdsForUser over the required approvers
Mine(p, u) == {a \in p.required : Owner(a) = u}

\* MUTANT: one approval is enough.
IsApproved(p) == p.required \cap p.approvals # {}

IsUnanimous(p) == p.required \subseteq p.approvals

PendingFor(t) ==
  \E p \in Ids : proposals[p] # Absent /\ proposals[p].thread = t /\ proposals[p].status = "pending"

-----------------------------------------------------------------------------
(* loadThread: inbox row, then thread row; shared by the three endpoints *)

ProposeStart(r) ==
  \E u \in Users, t \in Ids, w \in Agents :
    /\ ReadOwnInbox(r, "propose", u, t)
    /\ IsWeb(w)
    /\ Becomes(r, [Idle EXCEPT !.op = "propose", !.pc = "thread",
                              !.user = u, !.tid = t, !.agent = w])
    /\ UNCHANGED <<rows, history>>

ApproveStart(r, u, p) ==
  /\ proposals[p] # Absent
  /\ ReadOwnInbox(r, "approve", u, proposals[p].thread)
  /\ Becomes(r, [Idle EXCEPT !.op = "approve", !.pc = "thread",
                            !.user = u, !.tid = proposals[p].thread, !.pid = p])
  /\ consented' = consented \cup {[user |-> u, id |-> p, thread |-> proposals[p].thread]}
  /\ UNCHANGED <<rows, overwritten, answered, denied>>

DenyStart(r, u, p) ==
  /\ proposals[p] # Absent
  /\ ReadOwnInbox(r, "deny", u, proposals[p].thread)
  /\ Becomes(r, [Idle EXCEPT !.op = "deny", !.pc = "thread",
                            !.user = u, !.tid = proposals[p].thread, !.pid = p])
  /\ UNCHANGED <<rows, history>>

LoadThread(r) ==
  LET q == req[r]
      row == thread[q.tid]
  IN /\ q.op \in {"propose", "approve", "deny"} /\ q.pc = "thread"
     /\ IF row # Absent /\ Visible(q.user, row)
        THEN Becomes(r, [q EXCEPT !.snap = row,
                                !.pc = IF q.op = "propose" THEN "check" ELSE "proposal"])
        ELSE Answer(r)
     /\ UNCHANGED <<rows, history>>

-----------------------------------------------------------------------------
(* proposeThreadDowngrade *)

\* The guards on the thread row, the search for a pending proposal, and the
\* approvers computed from the stored messages.
ProposeCheck(r) ==
  LET q == req[r]
      required == Approvers(q.tid, q.snap)
  IN /\ At(r, "propose", "check")
     /\ IF /\ q.snap.status = "open"
           /\ q.snap.mode = "e2e"
           /\ q.snap.point = Absent
           /\ ~PendingFor(q.tid)
           /\ Proposable(q.user, q.tid, q.snap, q.agent)
           /\ required # {}
        THEN Becomes(r, [q EXCEPT !.pc = "persist",
               !.prop = [thread |-> q.tid, agent |-> q.agent, proposer |-> q.user,
                         status |-> "pending", required |-> required,
                         \* the proposer's own sidecar agents approve with the proposal
                         approvals |-> {a \in required : Owner(a) = q.user}, divider |-> Absent]])
        ELSE Answer(r)
     /\ UNCHANGED <<rows, history>>

\* The pending proposal is stored first, and finalized when already unanimous.
ProposePersist(r) ==
  LET q == req[r] IN
  /\ At(r, "propose", "persist")
  /\ nextId \in Ids
  /\ nextId' = nextId + 1
  /\ proposals' = [proposals EXCEPT ![nextId] = q.prop]
  /\ consented' = consented \cup {[user |-> q.user, id |-> nextId, thread |-> q.tid]}
  /\ IF IsUnanimous(q.prop)
     THEN Becomes(r, [q EXCEPT !.pc = "ownerInbox", !.pid = nextId])
     ELSE Answer(r)
  /\ UNCHANGED <<thread, inbox, messages, payloads, idem, overwritten, answered, denied>>

-----------------------------------------------------------------------------
(* approveThreadDowngrade *)

\* MUTANT: does not look at the status of the proposal.
ApproveAnyProposal(r) ==
  LET q == req[r]
      p == proposals[q.pid]
      updated == [p EXCEPT !.approvals = @ \cup Mine(p, q.user)]
  IN /\ At(r, "approve", "proposal")
     /\ IF q.snap.mode = "e2e" /\ Mine(p, q.user) # {}
        THEN Becomes(r, [q EXCEPT !.prop = p,
                                !.pc = IF IsUnanimous(updated) THEN "ownerInbox" ELSE "save"])
        ELSE Answer(r)
     /\ UNCHANGED <<rows, history>>

\* Loads the proposal; only a pending one on an E2E thread can be approved, by
\* the owner of a required agent.
ApproveProposal(r) ==
  LET q == req[r]
      p == proposals[q.pid]
      updated == [p EXCEPT !.approvals = @ \cup Mine(p, q.user)]
  IN /\ At(r, "approve", "proposal")
     /\ IF p.status = "pending" /\ q.snap.mode = "e2e" /\ Mine(p, q.user) # {}
        THEN Becomes(r, [q EXCEPT !.prop = p,
                                !.pc = IF IsUnanimous(updated) THEN "ownerInbox" ELSE "save"])
        ELSE Answer(r)
     /\ UNCHANGED <<rows, history>>

ApproveSave(r) ==
  LET q == req[r] IN
  /\ At(r, "approve", "save")
  /\ proposals' = [proposals EXCEPT ![q.pid] =
                    [q.prop EXCEPT !.approvals = @ \cup Mine(q.prop, q.user)]]
  /\ overwritten' = Overwrites(proposals[q.pid], q.prop, q.pid)
  /\ Answer(r)
  /\ UNCHANGED <<thread, inbox, messages, payloads, idem, nextId, answered, consented, denied>>

-----------------------------------------------------------------------------
(* denyThreadDowngrade *)

\* Any participant may deny; one who owns no required agent has the own inbox
\* row read again.
DenyProposal(r) ==
  LET q == req[r]
      p == proposals[q.pid]
  IN /\ At(r, "deny", "proposal")
     /\ IF p.status = "pending" /\ (Mine(p, q.user) # {} \/ inbox[q.user][q.tid] # Absent)
        THEN Becomes(r, [q EXCEPT !.prop = p, !.pc = "save"])
        ELSE Answer(r)
     /\ UNCHANGED <<rows, history>>

DenySave(r) ==
  LET q == req[r] IN
  /\ At(r, "deny", "save")
  /\ proposals' = [proposals EXCEPT ![q.pid] = [q.prop EXCEPT !.status = "denied"]]
  /\ overwritten' = Overwrites(proposals[q.pid], q.prop, q.pid)
  /\ denied' = denied \cup {q.pid}
  /\ Answer(r)
  /\ UNCHANGED <<thread, inbox, messages, payloads, idem, nextId, answered, consented>>

-----------------------------------------------------------------------------
(* finalizeApprovedDowngrade *)

\* Reads the inbox row of the web agent's owner, who gets one if he has none.
FinalizeInbox(r) ==
  LET q == req[r]
      v == Owner(q.prop.agent)
      row == inbox[v][q.tid]
  IN /\ q.pc = "ownerInbox"
     /\ Becomes(r, [q EXCEPT !.pc = "finalize",
          !.owner = IF row # Absent THEN row
                    ELSE [status |-> "pending",
                          role |-> IF v = q.snap.from THEN "sender" ELSE "recipient"]])
     /\ UNCHANGED <<rows, history>>

\* MUTANT: addresses the thread to the owner instead of the web agent.
DowngradedThreadToUser(q, divider) ==
  [q.snap EXCEPT !.mode = "app_envelope", !.audience = Owner(q.prop.agent), !.replies = @ + 1,
                 !.point = [message |-> divider, approvers |-> q.prop.required]]

\* MUTANT: records the divider but leaves the mode alone.
DowngradedThreadStillE2E(q, divider) ==
  [q.snap EXCEPT !.audience = q.prop.agent, !.replies = @ + 1,
                 !.point = [message |-> divider, approvers |-> q.prop.required]]

\* The thread row of a finished downgrade: the one that was read, in
\* app_envelope mode, addressed to the web agent, one message longer.
DowngradedThread(q, divider) ==
  [q.snap EXCEPT !.mode = "app_envelope", !.audience = q.prop.agent, !.replies = @ + 1,
                 !.point = [message |-> divider, approvers |-> q.prop.required]]

\* MUTANT: stores the divider without its app_envelope record.
FinalizeNoPayload(r) ==
  LET q == req[r]
      v == Owner(q.prop.agent)
  IN /\ q.pc = "finalize"
     /\ nextId \in Ids
     /\ nextId' = nextId + 1
     /\ thread' = [thread EXCEPT ![q.tid] = DowngradedThread(q, nextId)]
     /\ messages' = messages \cup
          {[id |-> nextId, thread |-> q.tid, from |-> "system", agent |-> Absent,
            store |-> "app_envelope", senderOnly |-> FALSE]}
     /\ proposals' = [proposals EXCEPT ![q.pid] =
                       [q.prop EXCEPT !.status = "approved", !.approvals = q.prop.required,
                                      !.divider = nextId]]
     /\ inbox' = [inbox EXCEPT ![v][q.tid] = q.owner]
     /\ overwritten' = Overwrites(thread[q.tid], q.snap, q.tid)
                       \cup Overwrites(proposals[q.pid], q.prop, q.pid)
     /\ Answer(r)
     /\ UNCHANGED <<payloads, idem, answered, consented, denied>>

FinalizeCommit(r) ==
  LET q == req[r]
      v == Owner(q.prop.agent)
  IN /\ q.pc = "finalize"
     /\ nextId \in Ids
     /\ nextId' = nextId + 1
     /\ thread' = [thread EXCEPT ![q.tid] = DowngradedThread(q, nextId)]
     /\ messages' = messages \cup
          {[id |-> nextId, thread |-> q.tid, from |-> "system", agent |-> Absent,
            store |-> "app_envelope", senderOnly |-> FALSE]}
     /\ payloads' = payloads \cup {<<q.tid, nextId>>}
     /\ proposals' = [proposals EXCEPT ![q.pid] =
                       [q.prop EXCEPT !.status = "approved", !.approvals = q.prop.required,
                                      !.divider = nextId]]
     /\ inbox' = [inbox EXCEPT ![v][q.tid] = q.owner]
     /\ overwritten' = Overwrites(thread[q.tid], q.snap, q.tid)
                       \cup Overwrites(proposals[q.pid], q.prop, q.pid)
     /\ Answer(r)
     /\ UNCHANGED <<idem, answered, consented, denied>>

-----------------------------------------------------------------------------
(* fetchAppMessages: what a participant's web agent may pull *)

\* messageVisibleAfterDowngrade
VisibleAfterDowngrade(row, m) ==
  IF row.point = Absent THEN m.store = "app_envelope"
  ELSE m.id = row.point.message \/ m.store = "app_envelope"

\* The messages fetchAppMessages returns to u, while the thread is app_envelope.
Fetched(u, t) ==
  {m \in messages : /\ m.thread = t
                    /\ CanView(u, thread[t], Role(u, t), m)
                    /\ VisibleAfterDowngrade(thread[t], m)}

ConsentStep(r) ==
  \/ ProposeStart(r) \/ ProposeCheck(r) \/ ProposePersist(r)
  \/ \E u \in Users, p \in Ids : ApproveStart(r, u, p) \/ DenyStart(r, u, p)
  \/ LoadThread(r)
  \/ ApproveProposal(r) \/ ApproveSave(r)
  \/ DenyProposal(r) \/ DenySave(r)
  \/ FinalizeInbox(r) \/ FinalizeCommit(r)

=============================================================================
