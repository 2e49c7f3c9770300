----------------------------- MODULE ThreadHub -----------------------------
(***************************************************************************)
(* The mail endpoints and the downgrade consent endpoints over the same    *)
(* rows, any of them in flight at the same time, and what the hub promises *)
(* about a thread.                                                         *)
(*                                                                         *)
(* Several promises are kept only as long as no commit replaces a row that *)
(* changed after it was read (`overwritten` records the exceptions): the   *)
(* properties say what a `check` on the thread and proposal rows would     *)
(* guarantee, and that nothing else is needed.                             *)
(***************************************************************************)
EXTENDS ThreadMail, ThreadDowngrade

Expiry == \E u \in Users, key \in Keys : IdemExpires(u, key)

Next == (\E r \in Reqs : MailStep(r) \/ ConsentStep(r) \/ Crash(r)) \/ Expiry

Spec == Init /\ [][Next]_vars

-----------------------------------------------------------------------------

TypeOK ==
  /\ thread \in [Ids -> ThreadRow \cup {Absent}]
  /\ inbox \in [Users -> [Ids -> InboxRow \cup {Absent}]]
  /\ messages \subseteq MessageRow
  /\ payloads \subseteq Ids \X Ids
  /\ idem \in [Users -> [Keys -> IdemRow \cup {Absent}]]
  /\ proposals \in [Ids -> ProposalRow \cup {Absent}]
  /\ nextId \in 1..MaxId + 1
  /\ req \in [Reqs -> Request]
  /\ overwritten \subseteq Ids
  /\ answered \subseteq [user: Users, key: Keys, thread: Ids, id: Ids]
  /\ consented \subseteq [user: Users, id: Ids, thread: Ids]
  /\ denied \subseteq Ids

Exists(t) == thread[t] # Absent
In(t)     == {m \in messages : m.thread = t}

\* Threads no commit has replaced blindly, themselves or through a proposal.
Untouched(t) ==
  /\ t \notin overwritten
  /\ \A p \in Ids : proposals[p] # Absent /\ proposals[p].thread = t => p \notin overwritten

(***************************************************************************)
(* Safety of mail                                                          *)
(***************************************************************************)

\* Closing is final: a closed thread is not opened again and nobody writes to
\* it (a downgrade proposed before may still be approved and adds its divider).
\* postReply and closeThread write whole rows they read earlier, so only such a
\* late write can reopen it.
ClosedIsFinal ==
  [][\A t \in Ids : /\ Exists(t) /\ thread[t].status = "closed"
                    /\ Exists(t)' /\ t \notin overwritten'
                    => /\ thread'[t].status = "closed"
                       /\ In(t) \subseteq In(t)'
                       /\ \A m \in In(t)' \ In(t) : m.from = "system"]_vars

\* reply_count tells how many messages followed the first one (replies and
\* the divider of a downgrade), whatever was in flight together.
CountsEveryMessage ==
  \A t \in Ids \ overwritten :
    Exists(t) => Cardinality(In(t)) = thread[t].replies + 1

\* Split store: the hub-readable message of a thread that still exists has its
\* app_envelope record (for its 30 days), or fetchAppMessages fails for the whole
\* thread.
PayloadBehindMessage ==
  \A t \in Ids \ overwritten : \A m \in In(t) :
    Exists(t) /\ m.store = "app_envelope" => <<t, m.id>> \in payloads

\* A purge is complete: once the thread row is gone, so are its messages, its
\* app_envelope records and, in an organization without external contacts,
\* every inbox row, at whichever step a purging process died.
PurgeIsComplete ==
  \A t \in Ids \ overwritten : ~Exists(t) =>
    /\ In(t) = {}
    /\ \A i \in Ids : <<t, i>> \notin payloads
    /\ \A u \in Users \ UNION Linked : inbox[u][t] = Absent

\* Every user who is declared to be awaited, and nobody else, has the thread
\* under "needs you" (clients that declare turns with every message), until a
\* downgrade wakes the owner of its web agent, whom nobody declared.
AwaitingIsMirrored ==
  \A t \in Ids \ overwritten : \A u \in Users :
    Exists(t) /\ thread[t].awaiting # Absent /\ thread[t].point = Absent /\ inbox[u][t] # Absent =>
      (inbox[u][t].status = "pending" <=> u \in thread[t].awaiting)

\* A retry of the reply that a key was last answered for, within the day that its
\* idempotency row lasts, does not get past the row, so it is not posted again:
\* no reply of another user or key, no createThread, no purge of the thread and no
\* crash takes the row away.  (Rows are keyed by user and key alone: the last
\* answer counts, to whichever thread; and a createThread replaces the row if
\* clients use one key for both.)
RetryAddsNothing ==
  \A r \in Reqs : req[r].late => req[r].key \in CreateKeys

(***************************************************************************)
(* Safety of downgrade consent                                             *)
(***************************************************************************)

\* The ratchet: an app_envelope thread never becomes E2E.
RatchetIsOneWay ==
  [][\A t \in Ids : /\ Exists(t) /\ thread[t].mode = "app_envelope"
                    /\ Exists(t)' /\ t \notin overwritten'
                    => thread'[t].mode = "app_envelope" /\ thread'[t].point = thread[t].point]_vars

\* No downgrade without consent: whatever overlapped, the owner of every agent
\* on the approver list of a downgraded thread proposed or approved one and
\* the same proposal for that thread.
ConsentBehindDowngrade ==
  \A t \in Ids : Exists(t) /\ thread[t].point # Absent =>
    \E p \in Ids : \A a \in thread[t].point.approvers :
      [user |-> Owner(a), id |-> p, thread |-> t] \in consented

\* Any deny keeps the thread E2E: a thread is downgraded only by a proposal
\* that is approved, by its divider, and was never denied.
DeniedStaysE2E ==
  \A t \in Ids : Exists(t) /\ thread[t].point # Absent /\ Untouched(t) =>
    \E p \in Ids \ denied :
      /\ proposals[p] # Absent /\ proposals[p].thread = t
      /\ proposals[p].status = "approved"
      /\ proposals[p].divider = thread[t].point.message

\* The divider is where E2E ended: all messages before it are E2E, all after
\* it are hub-readable, and a thread without one holds messages of its mode.
\* Channel-join semantics: what a participant's web agent fetches of a
\* downgraded thread is the divider and everything after it, nothing before.
SplitAtDivider(t) ==
  \A m \in In(t) :
    m.store = IF thread[t].point = Absent THEN thread[t].mode
              ELSE IF m.id < thread[t].point.message THEN "e2e" ELSE "app_envelope"

FetchedAtDivider(t) ==
  \A u \in Users : thread[t].point # Absent /\ inbox[u][t] # Absent =>
    Fetched(u, t) = {m \in In(t) : /\ m.id >= thread[t].point.message
                                  /\ CanView(u, thread[t], Role(u, t), m)}

DividerSplitsHistory ==
  \A t \in Ids \ overwritten : Exists(t) => SplitAtDivider(t) /\ FetchedAtDivider(t)

(***************************************************************************)
(* What the documents promise without the exceptions above.                *)
(***************************************************************************)

\* "Ratchet is one-way -- never re-upgrade": also with replies in flight.
NeverReupgraded ==
  [][\A t \in Ids : Exists(t) /\ thread[t].mode = "app_envelope" /\ Exists(t)'
                    => thread'[t].mode = "app_envelope"]_vars

\* "Unanimous approval from all sidecar participants": everybody who has the
\* thread and a desktop agent to read it proposed or approved the downgrade.
UnanimousConsent ==
  \A t \in Ids : Exists(t) /\ thread[t].point # Absent =>
    \E p \in Ids : \A u \in Users :
      inbox[u][t] # Absent /\ (\E a \in AgentsOf(u) : IsSidecar(a))
        => [user |-> u, id |-> p, thread |-> t] \in consented

\* "Optional client key scoped to this thread -- retries return the original
\* message_id": replies with one key to one thread have one message id.
OneMessagePerKey ==
  \A m, n \in answered :
    m.user = n.user /\ m.key = n.key /\ m.thread = n.thread => m.id = n.id

\* "Thread delete purges app payloads for all participants": no app_envelope
\* record outlives its thread.
PayloadsDieWithThread ==
  \A t \in Ids, i \in Ids : <<t, i>> \in payloads => Exists(t)

=============================================================================
