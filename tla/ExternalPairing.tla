--------------------------- MODULE ExternalPairing ---------------------------
(***************************************************************************)
(* External contacts (hub/store/external_contacts_api.ts and               *)
(* external_pairing.ts): a requester names a handle of another             *)
(* organization and the PIN its owner gave him, the owner approves or      *)
(* denies, and mail over the resulting link is limited per day             *)
(* (createThread and postReply of store.ts) until either side unpairs.     *)
(* Every counter here is read, and set some awaits later.                  *)
(***************************************************************************)
EXTENDS HubRequests

CONSTANTS
  Targets,     \* users who are asked to connect
  Askers,      \* users who ask, each of another organization
  Unknown,     \* a handle without a user
  PinLimit,    \* PAIR_WRONG_PIN_LIMIT: 5
  AskCap,      \* PAIR_SUBMISSIONS_PER_REQUESTER_DAY: 10
  TargetCap,   \* PAIR_SUBMISSIONS_PER_TARGET_DAY: 20
  MailCap,     \* EXTERNAL_LINK_MSGS_PER_DAY: 200
  FlagLimit,   \* PAIR_DENY_OPS_THRESHOLD: 5
  MaxPin, MaxAsk, MaxLink, MaxMail   \* BOUNDS: PINs, requests, links, threads ever made

Handled == Targets \cup {Unknown}
Pairs   == Askers \X Handled
Couples == Askers \X Targets
AskIds  == 1..MaxAsk
LinkIds == 1..MaxLink
MailIds == 1..MaxMail

VARIABLES
  pins,       \* ["pairing_pins", user]: how many were issued, and whether the last is valid
  failures,   \* ["pair_failures", requester, handle]
  askedBy,    \* ["pair_submissions_requester", user, day]
  askedOf,    \* ["pair_submissions_target", handle, day]
  asks,       \* ["pair_requests", id] and its two index rows
  links,      \* ["external_contacts", id] and its row for each user
  pairRow,    \* ["external_contact_pair", user, user] -> link
  blocks,     \* ["pair_blocks", target, handle]
  denies,     \* ["pair_denies", handle, id]: who was denied
  flags,      \* ["pairing_ops_flags", id]: how many for each handle
  mail,       \* ["threads", id] of threads over a link
  mailCount,  \* ["external_link_msgs", link, day]
  guesses,    \* history: wrong PINs answered since a right one or the end of a lock
  mailed,     \* history: messages let through on each link
  late        \* history: threads written by a request that began before the unpairing ended

pairingRows == <<pins, failures, askedBy, askedOf, asks, links, pairRow, blocks, denies, flags,
                 mail, mailCount, guesses, mailed, late>>

AskStatuses == {"pending", "approved", "denied"}
AskRow  == [from: Askers, of: Targets, status: AskStatuses]
LinkRow == [pair: Couples, live: BOOLEAN]   \* not live: deleted
MailRow == [link: LinkIds, open: BOOLEAN]
Failure == [count: Nat, locked: BOOLEAN]

ASSUME PairingAssumption ==
  /\ Unknown \notin Targets /\ Targets \cap Askers = {}
  /\ PinLimit \in Nat \ {0} /\ AskCap \in Nat /\ TargetCap \in Nat /\ MailCap \in Nat
  /\ MaxPin \in Nat /\ MaxAsk \in Nat /\ MaxLink \in Nat \ {0} /\ MaxMail \in Nat \ {0}
  /\ Absent \notin AskIds \cup LinkIds \cup MailIds \cup AskRow \cup LinkRow \cup MailRow
  /\ \A s \in Scopes : DOMAIN s = {"ops", "left", "tries"} /\ s.left \in Nat
                      /\ s.tries \subseteq Askers \X Handled \X Nat

Asked(c) == [from |-> c[1], of |-> c[2], status |-> "pending"]

\* Nothing yet; or, for behaviours about mail, a couple that is connected; or,
\* for behaviours about approval, two requests that wait (of one asker when
\* both were in flight at once).
InitPairing ==
  \E first, second \in Couples :
  LET connected == "mail" \in scope.ops
      waiting   == "deny" \in scope.ops
  IN
  /\ ~connected /\ ~waiting => first = second
  /\ pins = [t \in Targets |-> [issued |-> 0, valid |-> FALSE]]
  /\ failures = [p \in Pairs |-> [count |-> 0, locked |-> FALSE]]
  /\ askedBy = [u \in Askers |-> 0] /\ askedOf = [h \in Handled |-> 0]
  /\ asks = [a \in AskIds |->
       IF waiting /\ a <= 2 THEN Asked(IF a = 1 THEN first ELSE second) ELSE Absent]
  /\ links = [l \in LinkIds |-> IF connected /\ l = 1 THEN [pair |-> first, live |-> TRUE] ELSE Absent]
  /\ pairRow = [c \in Couples |-> IF connected /\ c = first THEN 1 ELSE Absent]
  /\ blocks = {} /\ denies = {}
  /\ flags = [h \in Targets |-> 0]
  /\ mail = [m \in MailIds |-> IF connected /\ m = 1 THEN [link |-> 1, open |-> TRUE] ELSE Absent]
  /\ mailCount = [l \in LinkIds |-> 0]
  /\ guesses = [p \in Pairs |-> 0]
  /\ mailed = [l \in LinkIds |-> 0]
  /\ late = {}

-----------------------------------------------------------------------------
\* issuePairingPin, rotatePairingPin; the end of a PIN's and of a lock's time

NextId(rows, x) == x \in DOMAIN rows /\ rows[x] = Absent /\ \A y \in DOMAIN rows : y < x => rows[y] # Absent

PinIssue(r, t) ==
  /\ Free(r, "pin") /\ pins[t].issued < MaxPin
  /\ pins' = [pins EXCEPT ![t] = [issued |-> @.issued + 1, valid |-> TRUE]]
  /\ Reads(r, Idle)
  /\ UNCHANGED <<failures, askedBy, askedOf, asks, links, pairRow, blocks, denies, flags, mail,
                 mailCount, guesses, mailed, late, overwritten>>

PinExpires(t) ==
  /\ "pin" \in scope.ops /\ pins[t].valid
  /\ pins' = [pins EXCEPT ![t].valid = FALSE]
  /\ UNCHANGED <<req, failures, askedBy, askedOf, asks, links, pairRow, blocks, denies, flags, mail,
                 mailCount, guesses, mailed, late, overwritten>>

LockEnds(p) ==
  /\ failures[p].locked
  /\ failures' = [failures EXCEPT ![p].locked = FALSE]
  /\ guesses' = [guesses EXCEPT ![p] = 0]
  /\ UNCHANGED <<req, pins, askedBy, askedOf, asks, links, pairRow, blocks, denies, flags, mail,
                 mailCount, mailed, late, overwritten>>

-----------------------------------------------------------------------------
\* submitPairRequest

\* MUTANT: the count starts again with each attempt
RecordFirstWrongPin(f) == [count |-> 1, locked |-> 1 >= PinLimit \/ f.locked]

\* isPairLocked, recordWrongPin, clearPairFailures
RecordWrongPin(f) ==
  [count |-> f.count + 1, locked |-> f.count + 1 >= PinLimit \/ f.locked]
Cleared == [count |-> 0, locked |-> FALSE]

\* The refusals before the counters; what was read is all read here.
SubmitStart(r, u, h, pin) ==
  /\ Free(r, "submit")
  /\ h \in Targets => <<h, u>> \notin blocks /\ pairRow[<<u, h>>] = Absent
  /\ ~failures[<<u, h>>].locked
  /\ askedBy[u] < AskCap /\ askedOf[h] < TargetCap
  /\ Reads(r, Begin("submit", "count", {}, [user |-> u, handle |-> h, pin |-> pin, failure |-> failures[<<u, h>>],
        by |-> askedBy[u] + 1, of |-> askedOf[h] + 1]))
  /\ UNCHANGED <<pairingRows, overwritten>>

SubmitCount(r) ==
  /\ At(r, "submit", "count")
  /\ LET m == req[r].mem IN
       /\ askedBy' = [askedBy EXCEPT ![m.user] = m.by]
       /\ Reads(r, On(req[r], "countOf", {}, m))
  /\ UNCHANGED <<pins, failures, askedOf, asks, links, pairRow, blocks, denies, flags, mail,
                 mailCount, guesses, mailed, late, overwritten>>

\* The second counter, then the PIN
RightPin(m) == m.handle \in Targets /\ pins[m.handle].valid /\ pins[m.handle].issued = m.pin

SubmitCountOf(r) ==
  /\ At(r, "submit", "countOf")
  /\ LET m == req[r].mem IN
       /\ askedOf' = [askedOf EXCEPT ![m.handle] = m.of]
       /\ Reads(r, On(req[r], "pin", {}, m))
  /\ UNCHANGED <<pins, failures, askedBy, asks, links, pairRow, blocks, denies, flags, mail,
                 mailCount, guesses, mailed, late, overwritten>>

SubmitPin(r) ==
  /\ At(r, "submit", "pin")
  /\ Reads(r, On(req[r], IF RightPin(req[r].mem) THEN "right" ELSE "wrong", {}, req[r].mem))
  /\ UNCHANGED <<pairingRows, overwritten>>

SubmitWrong(r) ==
  /\ At(r, "submit", "wrong")
  /\ LET m == req[r].mem
         p == <<m.user, m.handle>>
     IN /\ failures' = [failures EXCEPT ![p] = RecordWrongPin(m.failure)]
        /\ guesses' = [guesses EXCEPT ![p] = @ + 1]
        /\ Answer(r)
  /\ UNCHANGED <<pins, askedBy, askedOf, asks, links, pairRow, blocks, denies, flags, mail,
                 mailCount, mailed, late, overwritten>>

SubmitRight(r) ==
  /\ At(r, "submit", "right")
  /\ LET m == req[r].mem
         p == <<m.user, m.handle>>
     IN /\ failures' = [failures EXCEPT ![p] = Cleared]
        /\ guesses' = [guesses EXCEPT ![p] = 0]
        /\ Reads(r, On(req[r], "find", {}, m))
  /\ UNCHANGED <<pins, askedBy, askedOf, asks, links, pairRow, blocks, denies, flags, mail,
                 mailCount, mailed, late, overwritten>>

\* findPendingBetween
Pending(u, t) == {a \in AskIds : asks[a] = Asked(<<u, t>>)}

SubmitFind(r) ==
  /\ At(r, "submit", "find")
  /\ IF Pending(req[r].mem.user, req[r].mem.handle) # {} THEN Answer(r)
     ELSE Reads(r, On(req[r], "commit", {}, req[r].mem))
  /\ UNCHANGED <<pairingRows, overwritten>>

SubmitCommit(r) ==
  /\ At(r, "submit", "commit")
  /\ \E a \in AskIds :
       /\ NextId(asks, a)
       /\ asks' = [asks EXCEPT ![a] =
            Asked(<<req[r].mem.user, req[r].mem.handle>>)]
  /\ Leaves(r, {})
  /\ UNCHANGED <<pins, failures, askedBy, askedOf, links, pairRow, blocks, denies, flags, mail,
                 mailCount, guesses, mailed, late, overwritten>>

-----------------------------------------------------------------------------
\* approvePairRequest

ApproveStart(r, a) ==
  /\ Free(r, "approve") /\ asks[a] # Absent /\ asks[a].status = "pending"
  /\ Reads(r, Begin("approve", "link", {<<"ask", a>>}, [ask |-> a, pair |-> <<asks[a].from, asks[a].of>>]))
  /\ UNCHANGED <<pairingRows, overwritten>>

ApproveLink(r) ==
  /\ At(r, "approve", "link")
  /\ IF pairRow[req[r].mem.pair] # Absent THEN Answer(r)
     ELSE Reads(r, On(req[r], "commit", {}, req[r].mem))
  /\ UNCHANGED <<pairingRows, overwritten>>

\* The link and its thread.  History: the row was resolved, or the pair linked,
\* since it was read.
ApproveCommit(r) ==
  /\ At(r, "approve", "commit")
  /\ LET m == req[r].mem IN
       \E l \in LinkIds, t \in MailIds :
         /\ NextId(links, l) /\ NextId(mail, t)
         /\ links' = [links EXCEPT ![l] = [pair |-> m.pair, live |-> TRUE]]
         /\ pairRow' = [pairRow EXCEPT ![m.pair] = l]
         /\ mail' = [mail EXCEPT ![t] = [link |-> l, open |-> TRUE]]
         /\ asks' = [asks EXCEPT ![m.ask].status = "approved"]
         /\ overwritten' = overwritten \cup req[r].stale
              \cup (IF pairRow[m.pair] = Absent THEN {} ELSE {<<"pair", m.pair>>})
         /\ Leaves(r, {<<"ask", m.ask>>})
  /\ UNCHANGED <<pins, failures, askedBy, askedOf, blocks, denies, flags, mailCount, guesses,
                 mailed, late>>

-----------------------------------------------------------------------------
\* denyPairRequest: block, resolve, record, and perhaps flag the target

DenyStart(r, a) ==
  /\ Free(r, "deny") /\ asks[a] # Absent /\ asks[a].status = "pending"
  /\ Reads(r, Begin("deny", "block", {<<"ask", a>>}, [ask |-> a, from |-> asks[a].from, of |-> asks[a].of]))
  /\ UNCHANGED <<pairingRows, overwritten>>

DenyBlock(r) ==
  /\ At(r, "deny", "block")
  /\ blocks' = blocks \cup {<<req[r].mem.of, req[r].mem.from>>}
  /\ Reads(r, On(req[r], "resolve", {}, req[r].mem))
  /\ UNCHANGED <<pins, failures, askedBy, askedOf, asks, links, pairRow, denies, flags, mail,
                 mailCount, guesses, mailed, late, overwritten>>

DenyResolve(r) ==
  /\ At(r, "deny", "resolve")
  /\ LET a == req[r].mem.ask IN
       /\ asks' = [asks EXCEPT ![a].status = "denied"]
       /\ Writes(r, On(req[r], "record", {}, req[r].mem), {<<"ask", a>>})
       /\ Clobbers(r, {<<"ask", a>>})
  /\ UNCHANGED <<pins, failures, askedBy, askedOf, links, pairRow, blocks, denies, flags, mail,
                 mailCount, guesses, mailed, late>>

DenyRecord(r) ==
  /\ At(r, "deny", "record")
  /\ denies' = denies \cup {<<req[r].mem.of, req[r].mem.from>>}
  /\ Reads(r, On(req[r], "flag", {}, req[r].mem))
  /\ UNCHANGED <<pins, failures, askedBy, askedOf, asks, links, pairRow, blocks, flags, mail,
                 mailCount, guesses, mailed, late, overwritten>>

\* maybeRaiseOpsFlag: the count and the flags, then the new flag
Denied(h) == {d[2] : d \in {x \in denies : x[1] = h}}

DenyFlag(r) ==
  /\ At(r, "deny", "flag")
  /\ IF Cardinality(Denied(req[r].mem.of)) < FlagLimit \/ flags[req[r].mem.of] > 0 THEN Answer(r)
     ELSE Reads(r, On(req[r], "raise", {}, req[r].mem))
  /\ UNCHANGED <<pairingRows, overwritten>>

DenyRaise(r) ==
  /\ At(r, "deny", "raise")
  /\ flags' = [flags EXCEPT ![req[r].mem.of] = @ + 1]
  /\ Leaves(r, {})
  /\ UNCHANGED <<pins, failures, askedBy, askedOf, asks, links, pairRow, blocks, denies, mail,
                 mailCount, guesses, mailed, late, overwritten>>

-----------------------------------------------------------------------------
\* unpairExternalContact: close the open threads of the link one by one, then
\* drop the link

Live(l)     == links[l] # Absent /\ links[l].live
OpenOver(l) == {m \in MailIds : mail[m] # Absent /\ mail[m].link = l /\ mail[m].open}

UnpairStart(r, l) ==
  /\ Free(r, "unpair") /\ Live(l)
  /\ Reads(r, Begin("unpair", "scan", {}, [link |-> l, pair |-> links[l].pair, todo |-> {}]))
  /\ UNCHANGED <<pairingRows, overwritten>>

\* MUTANT: unpairing closes no thread
UnpairSkipsScan(r) ==
  /\ At(r, "unpair", "scan")
  /\ Reads(r, On(req[r], "close", {}, req[r].mem))
  /\ UNCHANGED <<pairingRows, overwritten>>

\* The list is read as the loop goes on: a thread made meanwhile may be missed.
UnpairScan(r) ==
  /\ At(r, "unpair", "scan")
  /\ Reads(r, On(req[r], "close", {}, [req[r].mem EXCEPT !.todo = OpenOver(req[r].mem.link)]))
  /\ UNCHANGED <<pairingRows, overwritten>>

UnpairClose(r) ==
  /\ At(r, "unpair", "close")
  /\ \E m \in req[r].mem.todo :
       /\ mail' = [mail EXCEPT ![m].open = FALSE]
       /\ Writes(r, On(req[r], "close", {}, [req[r].mem EXCEPT !.todo = @ \ {m}]), {<<"mail", m>>})
  /\ UNCHANGED <<pins, failures, askedBy, askedOf, asks, links, pairRow, blocks, denies, flags,
                 mailCount, guesses, mailed, late, overwritten>>

\* The pair row goes whatever link it points to by now.
UnpairCommit(r) ==
  /\ At(r, "unpair", "close") /\ req[r].mem.todo = {}
  /\ LET m == req[r].mem IN
       /\ links' = [links EXCEPT ![m.link].live = FALSE]
       /\ pairRow' = [pairRow EXCEPT ![m.pair] = Absent]
       /\ overwritten' = IF pairRow[m.pair] \in {Absent, m.link} THEN overwritten
                         ELSE overwritten \cup {<<"pair", m.pair>>}
       /\ Leaves(r, {})
  /\ UNCHANGED <<pins, failures, askedBy, askedOf, asks, blocks, denies, flags, mail, mailCount,
                 guesses, mailed, late>>

-----------------------------------------------------------------------------
\* Mail over a link: createThread, and postReply to a thread of a link

\* MUTANT: one message too many
VelocityLax(l) == mailCount[l] <= MailCap

\* assertExternalLinkVelocity: the count is read where the link is
Velocity(l) == mailCount[l] < MailCap

MailStart(r, c) ==
  /\ Free(r, "mail") /\ pairRow[c] # Absent /\ Live(pairRow[c]) /\ Velocity(pairRow[c])
  /\ LET l == pairRow[c] IN
       Reads(r, Begin("mail", "count", {<<"mailCount", l>>},
                      [link |-> l, count |-> mailCount[l] + 1, thread |-> Absent]))
  /\ UNCHANGED <<pairingRows, overwritten>>

ReplyStart(r, t) ==
  /\ Free(r, "reply") /\ mail[t] # Absent /\ mail[t].open /\ Velocity(mail[t].link)
  /\ LET l == mail[t].link IN
       Reads(r, Begin("reply", "count", {<<"mailCount", l>>, <<"mail", t>>},
                      [link |-> l, count |-> mailCount[l] + 1, thread |-> t]))
  /\ UNCHANGED <<pairingRows, overwritten>>

MailOps == {"mail", "reply"}

MailCounted(r) ==
  /\ req[r].op \in MailOps /\ req[r].pc = "count"
  /\ LET m == req[r].mem IN
       /\ mailCount' = [mailCount EXCEPT ![m.link] = m.count]
       /\ mailed' = [mailed EXCEPT ![m.link] = @ + 1]
       /\ Clobbers(r, {<<"mailCount", m.link>>})
       /\ Writes(r, On(req[r], "commit", {}, m), {<<"mailCount", m.link>>})
  /\ UNCHANGED <<pins, failures, askedBy, askedOf, asks, links, pairRow, blocks, denies, flags,
                 mail, guesses, late>>

\* An unpairing of the link has listed its threads.
Unpairing(l) ==
  ~Live(l) \/ \E q \in Reqs : At(q, "unpair", "close") /\ req[q].mem.link = l

\* A new thread, or the thread's row as it was read
MailCommit(r) ==
  /\ req[r].op \in MailOps /\ req[r].pc = "commit"
  /\ \E t \in MailIds :
       LET m == req[r].mem IN
       /\ IF m.thread = Absent THEN NextId(mail, t) ELSE t = m.thread
       /\ mail' = [mail EXCEPT ![t] = [link |-> m.link, open |-> TRUE]]
       /\ late' = IF Unpairing(m.link) THEN late \cup {t} ELSE late
       /\ Leaves(r, {<<"mail", t>>})
  /\ UNCHANGED <<pins, failures, askedBy, askedOf, asks, links, pairRow, blocks, denies, flags,
                 mailCount, guesses, mailed, overwritten>>

-----------------------------------------------------------------------------
PairingStep(r) ==
  \/ SubmitCount(r) \/ SubmitCountOf(r) \/ SubmitPin(r) \/ SubmitWrong(r) \/ SubmitRight(r)
  \/ SubmitFind(r) \/ SubmitCommit(r)
  \/ ApproveLink(r) \/ ApproveCommit(r)
  \/ DenyBlock(r) \/ DenyResolve(r) \/ DenyRecord(r) \/ DenyFlag(r) \/ DenyRaise(r)
  \/ UnpairScan(r) \/ UnpairClose(r) \/ UnpairCommit(r)
  \/ MailCounted(r) \/ MailCommit(r)

PairingStart(r) ==
  \/ \E t \in Targets : PinIssue(r, t)
  \/ \E a \in scope.tries : SubmitStart(r, a[1], a[2], a[3])
  \/ \E a \in AskIds : ApproveStart(r, a) \/ DenyStart(r, a)
  \/ \E l \in LinkIds : UnpairStart(r, l)
  \/ \E c \in Couples : MailStart(r, c)
  \/ \E t \in MailIds : ReplyStart(r, t)

PairingTime == (\E t \in Targets : PinExpires(t)) \/ (\E p \in Pairs : LockEnds(p))

TypeOKPairing ==
  /\ pins \in [Targets -> [issued: 0..MaxPin, valid: BOOLEAN]]
  /\ failures \in [Pairs -> Failure]
  /\ askedBy \in [Askers -> 0..AskCap] /\ askedOf \in [Handled -> 0..TargetCap]
  /\ asks \in [AskIds -> AskRow \cup {Absent}]
  /\ links \in [LinkIds -> LinkRow \cup {Absent}]
  /\ pairRow \in [Couples -> LinkIds \cup {Absent}]
  /\ blocks \subseteq Targets \X Askers /\ denies \subseteq Targets \X Askers
  /\ flags \in [Targets -> Nat]
  /\ mail \in [MailIds -> MailRow \cup {Absent}]
  /\ mailCount \in [LinkIds -> 0..MailCap] /\ late \subseteq MailIds
=============================================================================
