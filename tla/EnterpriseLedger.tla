-------------------------- MODULE EnterpriseLedger --------------------------
(***************************************************************************)
(* Debit on store: how prepaid enterprise credits are topped up and spent  *)
(* (hub/store/enterprise.ts), inside the retry loops of createThread and   *)
(* postReply (hub/store/store.ts).                                         *)
(*                                                                         *)
(* planEnterpriseDebit reads the listing, the ledger of the payer and the  *)
(* loop guard of the thread, one await each.  The debit it plans goes into *)
(* the commit that stores the message, with a `check` on the versionstamps *)
(* of the ledger and loop guard rows.  A failed commit plans anew, at most *)
(* Tries times.  topUpCredits is the same loop over the ledger row alone.  *)
(*                                                                         *)
(* A versionstamp is a counter per row, 0 as long as there is no row.  The *)
(* loop guard row is only ever replaced by its successor, so its count     *)
(* stands for its versionstamp.                                            *)
(***************************************************************************)
EXTENDS Integers

CONSTANTS
  Orgs,        \* organizations that hold credits
  Listings,    \* registry listings
  OwnerOrg,    \* listing -> organization of its submitter
  Threads,     \* ids of threads with an enterprise listing
  Days,        \* UTC days
  Prices,      \* prices per message, in cents
  Amounts,     \* amounts that ops top up, in cents
  Reqs,        \* requests that may be in flight at the same time
  Limit,       \* ENTERPRISE_BILLED_MSGS_PER_DAY_THREAD
  Tries,       \* commits a request attempts
  MaxCredit,   \* BOUND: cents ever credited to one organization
  None         \* no value

ASSUME LedgerAssumption ==
  /\ Days \subseteq Nat
  /\ Prices \subseteq Nat
  /\ Amounts \subseteq Nat \ {0}
  /\ Limit \in Nat
  /\ Tries \in Nat \ {0}
  /\ MaxCredit \in Nat
  /\ OwnerOrg \in [Listings -> Orgs]
  /\ None \notin Orgs \cup Listings \cup Threads

VARIABLES
  ledger,      \* ["billing_ledgers", org]: balance, and the version of the row
  loop,        \* ["enterprise_loop_guard", thread, day]
  thread,      \* threads with enterprise_listing_id: the listing and the customer
  listing,     \* ["registry_listings", id]: price, and whether it is published
  today,       \* utcDayKey()
  req,         \* the requests in flight
  \* what follows is history: no handler reads it
  credits,     \* sum of the "credit" entries in billing_ledger_entries, per org
  debits,      \* sum of the "debit" entries, per org
  billed       \* debits committed (billed messages, mostly), per thread and day

trail  == <<credits, debits, billed>>
stored == <<ledger, loop, thread, listing, today, trail>>
vars   == <<stored, req>>

Row      == [balance: Int, version: Nat]
Billing  == [listing: Listings, customer: Orgs]
Sending  == {"listing", "ledger", "loop", "commit"}
Crediting == {"read", "credit"}

\* A request: what was asked, where it is (pc), what it has read, how many
\* commits it has tried; and how many commits of others it has missed.
Idle ==
  [kind |-> None, pc |-> "idle", org |-> None, listing |-> None, thread |-> None,
   amount |-> 0, day |-> None, row |-> [balance |-> 0, version |-> 0], count |-> 0,
   tries |-> 0, missed |-> 0]

Init ==
  /\ ledger = [o \in Orgs |-> [balance |-> 0, version |-> 0]]
  /\ loop = [t \in Threads |-> [d \in Days |-> 0]]
  /\ thread = [t \in Threads |-> None]
  /\ listing \in [Listings -> [published: {FALSE}, price: Prices]]
  /\ today \in Days
  /\ req = [r \in Reqs |-> Idle]
  /\ credits = [o \in Orgs |-> 0]
  /\ debits = [o \in Orgs |-> 0]
  /\ billed = [t \in Threads |-> [d \in Days |-> 0]]

Becomes(r, q) == req' = [req EXCEPT ![r] = q]

Answer(r) == Becomes(r, Idle)

\* Request r has committed and answers; every other request in flight has
\* missed one more commit (history: counted up to Tries).
Missing(q) == IF q.pc = "idle" \/ q.missed = Tries THEN q ELSE [q EXCEPT !.missed = @ + 1]

Committed(r) == req' = [q \in Reqs |-> IF q = r THEN Idle ELSE Missing(req[q])]

\* MUTANT: tries again for as long as it takes.
RetryForever(r, again) == Becomes(r, [req[r] EXCEPT !.tries = @ + 1, !.pc = again])

\* MUTANT: gives up one try early.
RetryOneShort(r, again) ==
  Becomes(r, [req[r] EXCEPT !.tries = @ + 1,
                            !.pc = IF req[r].tries + 2 < Tries THEN again ELSE "gaveUp"])

\* The commit of a request failed: its loop runs again, or throws `internal`.
Retry(r, again) ==
  Becomes(r, [req[r] EXCEPT !.tries = @ + 1,
                            !.pc = IF req[r].tries + 1 < Tries THEN again ELSE "gaveUp"])

-----------------------------------------------------------------------------
(* Sending to a listing *)

\* createThread: the address resolves to a published listing; the ids of the
\* thread and of its message are fresh.
CreateStart(r) ==
  \E o \in Orgs, l \in Listings, t \in Threads :
    /\ req[r] = Idle
    /\ listing[l].published
    /\ thread[t] = None
    /\ \A q \in Reqs : req[q].thread # t
    /\ Becomes(r, [Idle EXCEPT !.kind = "create", !.pc = "listing", !.org = o,
                     !.listing = l, !.thread = t])
    /\ UNCHANGED stored

\* postReply on a billed thread.  The agent of the listing replies for free;
\* with any other agent the customer, and the owner of the listing, pay.
FollowUpStart(r) ==
  \E t \in Threads, o \in Orgs :
    /\ req[r] = Idle
    /\ thread[t] # None
    /\ o \in {thread[t].customer, OwnerOrg[thread[t].listing]}
    /\ Becomes(r, [Idle EXCEPT !.kind = "debit", !.pc = "listing", !.org = o,
                     !.listing = thread[t].listing, !.thread = t])
    /\ UNCHANGED stored

\* debitEnterpriseOnStore (POST /billing/debit): anybody debits a thread by its
\* id, for any listing, and no message is stored with it.
DebitStart(r) ==
  \E t \in Threads, o \in Orgs, l \in Listings :
    /\ req[r] = Idle
    /\ thread[t] # None
    /\ Becomes(r, [Idle EXCEPT !.kind = "debit", !.pc = "listing", !.org = o,
                     !.listing = l, !.thread = t])
    /\ UNCHANGED stored

\* planEnterpriseDebit: the listing has to be published; price and day are set
ReadListing(r) ==
  LET l == listing[req[r].listing] IN
  /\ req[r].pc = "listing"
  /\ IF l.published
     THEN Becomes(r, [req[r] EXCEPT !.pc = "ledger", !.amount = l.price, !.day = today])
     ELSE Answer(r)
  /\ UNCHANGED stored

\* MUTANT: any credit at all will do.
ReadLedgerNotEmpty(r) ==
  LET row == ledger[req[r].org] IN
  /\ req[r].pc = "ledger"
  /\ IF row.balance > 0
     THEN Becomes(r, [req[r] EXCEPT !.pc = "loop", !.row = row])
     ELSE Answer(r)
  /\ UNCHANGED stored

\* MUTANT: waits for credits instead of refusing.
ReadLedgerWaits(r) ==
  LET row == ledger[req[r].org] IN
  /\ req[r].pc = "ledger"
  /\ IF row.balance >= req[r].amount
     THEN Becomes(r, [req[r] EXCEPT !.pc = "loop", !.row = row])
     ELSE Becomes(r, [req[r] EXCEPT !.pc = "listing"])
  /\ UNCHANGED stored

\* then the ledger has to cover the price
ReadLedger(r) ==
  LET row == ledger[req[r].org] IN
  /\ req[r].pc = "ledger"
  /\ IF row.balance >= req[r].amount
     THEN Becomes(r, [req[r] EXCEPT !.pc = "loop", !.row = row])
     ELSE Answer(r)
  /\ UNCHANGED stored

\* MUTANT: one message too many.
ReadLoopOneMore(r) ==
  LET count == loop[req[r].thread][req[r].day] IN
  /\ req[r].pc = "loop"
  /\ IF count <= Limit
     THEN Becomes(r, [req[r] EXCEPT !.pc = "commit", !.count = count])
     ELSE Answer(r)
  /\ UNCHANGED stored

\* then the loop guard has to have room.
ReadLoop(r) ==
  LET count == loop[req[r].thread][req[r].day] IN
  /\ req[r].pc = "loop"
  /\ IF count < Limit
     THEN Becomes(r, [req[r] EXCEPT !.pc = "commit", !.count = count])
     ELSE Answer(r)
  /\ UNCHANGED stored

\* MUTANT: no check on the ledger row.
LoopCheckOnly(q) == loop[q.thread][q.day] = q.count

\* MUTANT: no check on the loop guard row.
LedgerCheckOnly(q) == ledger[q.org].version = q.row.version

\* tx.check(ledgerRes), tx.check(loopRes)
DebitChecks(q) ==
  /\ ledger[q.org].version = q.row.version
  /\ loop[q.thread][q.day] = q.count

\* The commit that stores the message, if there is one, and carries the debit.
SendCommit(r) ==
  LET q == req[r] IN
  /\ q.pc = "commit"
  /\ DebitChecks(q)
  /\ ledger' = [ledger EXCEPT ![q.org] =
                 [balance |-> q.row.balance - q.amount, version |-> @.version + 1]]
  /\ loop' = [loop EXCEPT ![q.thread][q.day] = q.count + 1]
  /\ thread' = IF q.kind = "create"
               THEN [thread EXCEPT ![q.thread] = [listing |-> q.listing, customer |-> q.org]]
               ELSE thread
  /\ debits' = [debits EXCEPT ![q.org] = @ + q.amount]
  /\ billed' = [billed EXCEPT ![q.thread][q.day] = @ + 1]
  /\ Committed(r)
  /\ UNCHANGED <<listing, today, credits>>

SendConflict(r) ==
  /\ req[r].pc = "commit"
  /\ ~DebitChecks(req[r])
  /\ Retry(r, "listing")
  /\ UNCHANGED stored

-----------------------------------------------------------------------------
(* topUpCredits *)

TopUpStart(r) ==
  \E o \in Orgs, amount \in Amounts :
    /\ req[r] = Idle
    /\ credits[o] + amount <= MaxCredit
    /\ Becomes(r, [Idle EXCEPT !.kind = "topUp", !.pc = "read", !.org = o,
                     !.amount = amount])
    /\ UNCHANGED stored

TopUpRead(r) ==
  /\ req[r].pc = "read"
  /\ Becomes(r, [req[r] EXCEPT !.pc = "credit", !.row = ledger[req[r].org]])
  /\ UNCHANGED stored

TopUpCommit(r) ==
  LET q == req[r] IN
  /\ q.pc = "credit"
  /\ ledger[q.org].version = q.row.version
  /\ ledger' = [ledger EXCEPT ![q.org] =
                 [balance |-> q.row.balance + q.amount, version |-> @.version + 1]]
  /\ credits' = [credits EXCEPT ![q.org] = @ + q.amount]
  /\ Committed(r)
  /\ UNCHANGED <<loop, thread, listing, today, debits, billed>>

TopUpConflict(r) ==
  /\ req[r].pc = "credit"
  /\ ledger[req[r].org].version # req[r].row.version
  /\ Retry(r, "read")
  /\ UNCHANGED stored

-----------------------------------------------------------------------------

\* "Failed to post reply", "Failed to top up credits": answered with an error.
GiveUp(r) ==
  /\ req[r].pc = "gaveUp"
  /\ Answer(r)
  /\ UNCHANGED stored

\* The process serving a request dies; the one commit was made or was not.
Crash(r) ==
  /\ req[r].pc # "idle"
  /\ Answer(r)
  /\ UNCHANGED stored

\* The commit of any registry operation: submitters edit a draft, ops publish,
\* suspend and unpublish, each writing a listing row it read earlier.
RegistryCommit ==
  \E l \in Listings, published \in BOOLEAN, price \in Prices :
    /\ listing' = [listing EXCEPT ![l] = [published |-> published, price |-> price]]
    /\ UNCHANGED <<ledger, loop, thread, today, req, trail>>

Midnight ==
  /\ today + 1 \in Days
  /\ today' = today + 1
  /\ UNCHANGED <<ledger, loop, thread, listing, req, trail>>

Work(r) ==
  \/ ReadListing(r) \/ ReadLedger(r) \/ ReadLoop(r) \/ SendCommit(r) \/ SendConflict(r)
  \/ TopUpRead(r) \/ TopUpCommit(r) \/ TopUpConflict(r) \/ GiveUp(r)

Next ==
  \/ \E r \in Reqs : 
       \/ CreateStart(r) \/ FollowUpStart(r) \/ DebitStart(r) \/ TopUpStart(r)
       \/ Work(r) \/ Crash(r)
  \/ RegistryCommit
  \/ Midnight

\* A handler that was started runs on: nothing in it waits for another one.
Fairness == \A r \in Reqs : WF_vars(Work(r))

Spec     == Init /\ [][Next]_vars
FairSpec == Spec /\ Fairness

-----------------------------------------------------------------------------

Request ==
  [kind: {"create", "debit", "topUp", None}, pc: Sending \cup Crediting \cup {"idle", "gaveUp"},
   org: Orgs \cup {None}, listing: Listings \cup {None}, thread: Threads \cup {None},
   amount: Nat, day: Days \cup {None}, row: Row, count: Nat, tries: 0..Tries, missed: 0..Tries]

TypeOK ==
  /\ ledger \in [Orgs -> Row]
  /\ loop \in [Threads -> [Days -> Nat]]
  /\ thread \in [Threads -> Billing \cup {None}]
  /\ listing \in [Listings -> [published: BOOLEAN, price: Prices]]
  /\ today \in Days
  /\ req \in [Reqs -> Request]
  /\ credits \in [Orgs -> Nat]
  /\ debits \in [Orgs -> Nat]
  /\ billed \in [Threads -> [Days -> Nat]]

\* Nobody spends credits that are not there, however many sends were planned
\* against the same balance.
NeverOverdrawn == \A o \in Orgs : ledger[o].balance >= 0

\* No entry is lost: a balance is what the credit entries add up to, less what
\* the debit entries do.
BalanceIsTrail == \A o \in Orgs : ledger[o].balance = credits[o] - debits[o]

\* The loop guard: whoever pays, a thread stores at most Limit billed messages
\* planned on one day, and the guard has counted each of them.
LoopGuardHolds ==
  \A t \in Threads, d \in Days : billed[t][d] = loop[t][d] /\ billed[t][d] <= Limit

\* A send or top-up that could be served fails only after Tries others got in
\* between: each failed attempt is due to a commit of another request.
GivesUpOnlyWhenBusy ==
  \A r \in Reqs : req[r].pc = "gaveUp" => req[r].missed = Tries

\* Every request is answered, whatever the others and ops do meanwhile.
AlwaysAnswered == \A r \in Reqs : req[r].pc # "idle" ~> req[r].pc = "idle"

\* To an observer of balances and billed messages, requests are atomic.
Account == INSTANCE CreditAccount WITH
  balance <- [o \in Orgs |-> ledger[o].balance],
  sent <- billed

ImplementsAccount == Account!AccountSpec

=============================================================================
