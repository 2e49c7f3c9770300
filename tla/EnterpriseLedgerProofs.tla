----------------------- MODULE EnterpriseLedgerProofs -----------------------
(***************************************************************************)
(* Proofs about EnterpriseLedger, for any organizations, threads, prices   *)
(* and number of concurrent requests.                                      *)
(*                                                                         *)
(* The argument is optimistic concurrency: a request may hold an old copy  *)
(* of a row, but as long as the version it read is the current one the     *)
(* copy is the row (Snapshot), so a commit that passes its checks has      *)
(* computed the new row from the present one.                              *)
(***************************************************************************)
EXTENDS EnterpriseLedger, TLAPS

\* What the place of a request tells about its fields.
Placed(q) ==
  /\ q.pc \in Sending => q.org \in Orgs /\ q.listing \in Listings /\ q.thread \in Threads
  /\ q.pc \in Crediting => q.org \in Orgs /\ q.amount \in Amounts
  /\ q.pc \in {"ledger", "loop", "commit"} => q.day \in Days /\ q.amount \in Prices
  /\ q.pc \in Sending \cup Crediting => q.tries < Tries

TypeInv == TypeOK /\ \A r \in Reqs : Placed(req[r])

-----------------------------------------------------------------------------

USE LedgerAssumption

\* An idle request is well formed.
LEMMA IdleType == Idle \in Request /\ Placed(Idle)
BY DEF Idle, Request, Row, Sending, Crediting, Placed

\* The fields of an idle request that the invariants look at.
LEMMA IdleFields == Idle.pc = "idle" /\ Idle.tries = 0 /\ Idle.missed = 0
BY DEF Idle

\* A step that only moves one request on keeps the types, if the request has one.
LEMMA BecomesType ==
  ASSUME TypeInv, NEW r \in Reqs, NEW q \in Request, Placed(q),
         Becomes(r, q), UNCHANGED stored
  PROVE  TypeInv'
<1>1. req' \in [Reqs -> Request]
  BY DEF TypeInv, TypeOK, Becomes
<1>2. \A s \in Reqs : Placed(req'[s])
  BY DEF TypeInv, TypeOK, Becomes
<1>3. TypeOK'
  BY <1>1 DEF TypeInv, TypeOK, stored, trail
<1>4. \A s \in Reqs : Placed(req[s])'
  BY <1>2 DEF Placed
<1> QED
  BY <1>3, <1>4 DEF TypeInv

\* Loop guard counts and billed messages are numbers.
LEMMA LoopType == TypeOK => \A t \in Threads, d \in Days : loop[t][d] \in Nat /\ billed[t][d] \in Nat
BY DEF TypeOK

\* Answering a request keeps the types.
LEMMA AnswerType == ASSUME TypeInv, NEW r \in Reqs, Answer(r), UNCHANGED stored PROVE TypeInv'
BY IdleType, BecomesType DEF Answer

\* So does starting one: createThread, postReply, a debit or a top-up.
LEMMA StartType ==
  ASSUME TypeInv, NEW r \in Reqs, CreateStart(r) \/ FollowUpStart(r) \/ DebitStart(r) \/ TopUpStart(r)
  PROVE  TypeInv'
<1>1. CASE CreateStart(r)
  <2>1. PICK o, l, t, q :
          /\ o \in Orgs /\ l \in Listings /\ t \in Threads
          /\ q = [Idle EXCEPT !.kind = "create", !.pc = "listing", !.org = o,
                           !.listing = l, !.thread = t]
          /\ Becomes(r, q) /\ UNCHANGED stored
    BY <1>1 DEF CreateStart
  <2>2. q \in Request
    BY <2>1, IdleType DEF Request, Sending, Crediting
  <2>3. Placed(q)
    BY <2>1, IdleType, IdleFields DEF Request, Sending, Crediting, Placed
  <2> QED
    BY <2>1, <2>2, <2>3, BecomesType
<1>2. CASE FollowUpStart(r)
  <2>1. PICK t, o, q :
          /\ t \in Threads /\ o \in Orgs
          /\ thread[t] # None
          /\ q = [Idle EXCEPT !.kind = "debit", !.pc = "listing", !.org = o,
                           !.listing = thread[t].listing, !.thread = t]
          /\ Becomes(r, q) /\ UNCHANGED stored
    BY <1>2 DEF FollowUpStart
  <2>2. thread[t].listing \in Listings
    BY <2>1 DEF TypeInv, TypeOK, Billing
  <2>3. q \in Request
    BY <2>1, <2>2, IdleType DEF Request, Sending, Crediting
  <2>4. Placed(q)
    BY <2>1, <2>2, IdleType, IdleFields DEF Request, Sending, Crediting, Placed
  <2> QED
    BY <2>1, <2>3, <2>4, BecomesType
<1>3. CASE TopUpStart(r)
  <2>1. PICK o, amount, q :
          /\ o \in Orgs /\ amount \in Amounts
          /\ q = [Idle EXCEPT !.kind = "topUp", !.pc = "read", !.org = o, !.amount = amount]
          /\ Becomes(r, q) /\ UNCHANGED stored
    BY <1>3 DEF TopUpStart
  <2>2. q \in Request
    BY <2>1, IdleType DEF Request, Sending, Crediting
  <2>3. Placed(q)
    BY <2>1, IdleType, IdleFields DEF Request, Sending, Crediting, Placed
  <2> QED
    BY <2>1, <2>2, <2>3, BecomesType
<1>4. CASE DebitStart(r)
  <2>1. PICK t, o, l, q :
          /\ t \in Threads /\ o \in Orgs /\ l \in Listings
          /\ q = [Idle EXCEPT !.kind = "debit", !.pc = "listing", !.org = o,
                           !.listing = l, !.thread = t]
          /\ Becomes(r, q) /\ UNCHANGED stored
    BY <1>4 DEF DebitStart
  <2>2. q \in Request
    BY <2>1, IdleType DEF Request, Sending, Crediting
  <2>3. Placed(q)
    BY <2>1, IdleType, IdleFields DEF Request, Sending, Crediting, Placed
  <2> QED
    BY <2>1, <2>2, <2>3, BecomesType
<1> QED
  BY <1>1, <1>2, <1>3, <1>4

\* So do the reads of planEnterpriseDebit and topUpCredits.
LEMMA ReadType ==
  ASSUME TypeInv, NEW r \in Reqs,
         ReadListing(r) \/ ReadLedger(r) \/ ReadLoop(r) \/ TopUpRead(r)
  PROVE  TypeInv'
<1> DEFINE p == req[r]
<1>0. p \in Request /\ Placed(p)
  BY DEF TypeInv, TypeOK
<1>1. CASE ReadListing(r)
  <2>1. CASE Answer(r)
    BY <1>1, <2>1, AnswerType DEF ReadListing
  <2>2. ASSUME NEW q, Becomes(r, q),
               q = [p EXCEPT !.pc = "ledger", !.amount = listing[p.listing].price, !.day = today]
        PROVE  TypeInv'
    <3>1. p.pc = "listing"
      BY <1>1 DEF ReadListing
    <3>2. listing[p.listing].price \in Prices /\ today \in Days
      BY <1>0, <3>1 DEF TypeInv, TypeOK, Placed, Sending
    <3>3. q \in Request /\ Placed(q)
      BY <1>0, <2>2, <3>1, <3>2 DEF Request, Sending, Crediting, Placed
    <3> QED
      BY <1>1, <2>2, <3>3, BecomesType DEF ReadListing
  <2> QED
    BY <1>1, <2>1, <2>2 DEF ReadListing
<1>2. CASE ReadLedger(r)
  <2>1. CASE Answer(r)
    BY <1>2, <2>1, AnswerType DEF ReadLedger
  <2>2. ASSUME NEW q, Becomes(r, q), q = [p EXCEPT !.pc = "loop", !.row = ledger[p.org]]
        PROVE  TypeInv'
    <3>1. p.pc = "ledger"
      BY <1>2 DEF ReadLedger
    <3>2. ledger[p.org] \in Row
      BY <1>0, <3>1 DEF TypeInv, TypeOK, Placed, Sending
    <3>3. q \in Request /\ Placed(q)
      BY <1>0, <2>2, <3>1, <3>2 DEF Request, Sending, Crediting, Placed
    <3> QED
      BY <1>2, <2>2, <3>3, BecomesType DEF ReadLedger
  <2> QED
    BY <1>2, <2>1, <2>2 DEF ReadLedger
<1>3. CASE ReadLoop(r)
  <2>1. CASE Answer(r)
    BY <1>3, <2>1, AnswerType DEF ReadLoop
  <2>2. ASSUME NEW q, Becomes(r, q), q = [p EXCEPT !.pc = "commit", !.count = loop[p.thread][p.day]]
        PROVE  TypeInv'
    <3>1. p.pc = "loop"
      BY <1>3 DEF ReadLoop
    <3>2. p.thread \in Threads /\ p.day \in Days
      BY <1>0, <3>1 DEF Placed, Sending
    <3>3. loop[p.thread][p.day] \in Nat
      BY <3>2, LoopType DEF TypeInv
    <3>4. q \in Request /\ Placed(q)
      BY <1>0, <2>2, <3>1, <3>3 DEF Request, Sending, Crediting, Placed
    <3> QED
      BY <1>3, <2>2, <3>4, BecomesType DEF ReadLoop
  <2> QED
    BY <1>3, <2>1, <2>2 DEF ReadLoop
<1>4. CASE TopUpRead(r)
  <2>1. PICK q : Becomes(r, q) /\ q = [p EXCEPT !.pc = "credit", !.row = ledger[p.org]]
    BY <1>4 DEF TopUpRead
  <2>2. p.pc = "read"
    BY <1>4 DEF TopUpRead
  <2>3. ledger[p.org] \in Row
    BY <1>0, <2>2 DEF TypeInv, TypeOK, Placed, Crediting
  <2>4. q \in Request /\ Placed(q)
    BY <1>0, <2>1, <2>2, <2>3 DEF Request, Sending, Crediting, Placed
  <2> QED
    BY <1>4, <2>1, <2>4, BecomesType DEF TopUpRead
<1> QED
  BY <1>1, <1>2, <1>3, <1>4

\* So does a failed commit, which counts one more try.
LEMMA RetryType ==
  ASSUME TypeInv, NEW r \in Reqs, NEW again \in {"listing", "read"},
         again = "listing" => req[r].pc \in Sending, again = "read" => req[r].pc \in Crediting,
         Retry(r, again), UNCHANGED stored
  PROVE  TypeInv'
<1> DEFINE p == req[r]
<1>0. p \in Request /\ Placed(p)
  BY DEF TypeInv, TypeOK
<1>1. PICK q, pc : /\ pc = IF p.tries + 1 < Tries THEN again ELSE "gaveUp"
                   /\ q = [p EXCEPT !.tries = @ + 1, !.pc = pc]
                   /\ Becomes(r, q)
  BY DEF Retry
<1>2. p.tries \in Nat /\ p.tries < Tries
  BY <1>0 DEF Request, Placed, Sending, Crediting
<1>3. q \in Request
  <2>1. p.tries + 1 \in 0..Tries
    BY <1>2
  <2>2. pc \in {"listing", "read", "gaveUp"}
    BY <1>1
  <2>3. PICK tries : tries = p.tries + 1 /\ q = [p EXCEPT !.tries = tries, !.pc = pc]
    BY <1>1
  <2> QED
    BY <1>0, <2>1, <2>2, <2>3 DEF Request, Sending, Crediting
<1>4. Placed(q)
  <2>1. /\ q.org = p.org /\ q.listing = p.listing /\ q.thread = p.thread
        /\ q.day = p.day /\ q.amount = p.amount
        /\ q.tries = p.tries + 1 /\ q.pc = pc
    BY <1>0, <1>1 DEF Request, Sending, Crediting
  <2>2. q.tries < Tries \/ pc = "gaveUp"
    BY <1>1, <1>2, <2>1
  <2>3. CASE pc = "gaveUp"
    BY <2>1, <2>3 DEF Sending, Crediting, Placed
  <2>4. CASE pc = again /\ q.tries < Tries
    BY <1>0, <2>1, <2>4 DEF Sending, Crediting, Placed
  <2> QED
    BY <1>1, <2>2, <2>3, <2>4
<1> QED
  BY <1>1, <1>3, <1>4, BecomesType

\* A request that misses a commit is where it was, with what it had read.
LEMMA MissingKeeps ==
  ASSUME NEW p \in Request, Placed(p), NEW q, q = Missing(p)
  PROVE  /\ q \in Request /\ Placed(q)
         /\ q.pc = p.pc /\ q.org = p.org /\ q.thread = p.thread /\ q.day = p.day
         /\ q.amount = p.amount /\ q.row = p.row /\ q.count = p.count /\ q.tries = p.tries
         /\ p.pc # "idle" => q.missed = IF p.missed = Tries THEN Tries ELSE p.missed + 1
<1>1. CASE p.pc = "idle" \/ p.missed = Tries
  BY <1>1 DEF Missing
<1>2. CASE ~(p.pc = "idle" \/ p.missed = Tries)
  <2>1. q = [p EXCEPT !.missed = @ + 1]
    BY <1>2 DEF Missing
  <2>2. p.missed + 1 \in 0..Tries
    BY <1>2 DEF Request
  <2>3. q \in Request
    BY <2>1, <2>2 DEF Request, Sending, Crediting
  <2>4. /\ q.pc = p.pc /\ q.org = p.org /\ q.thread = p.thread /\ q.day = p.day
        /\ q.amount = p.amount /\ q.row = p.row /\ q.count = p.count /\ q.tries = p.tries
        /\ q.listing = p.listing /\ q.missed = p.missed + 1
    BY <2>1 DEF Request, Sending, Crediting
  <2>5. Placed(q)
    BY <2>4 DEF Placed
  <2> QED
    BY <1>2, <2>3, <2>4, <2>5
<1> QED
  BY <1>1, <1>2

\* So does a commit, for the request that made it and for those that missed it.
LEMMA CommittedType ==
  ASSUME TypeInv, NEW r \in Reqs, Committed(r)
  PROVE  req' \in [Reqs -> Request] /\ \A s \in Reqs : Placed(req'[s])
<1>1. \A s \in Reqs : req[s] \in Request /\ Placed(req[s])
  BY DEF TypeInv, TypeOK
<1>2. \A s \in Reqs : Missing(req[s]) \in Request /\ Placed(Missing(req[s]))
  BY <1>1, MissingKeeps
<1> QED
  BY <1>2, IdleType DEF Committed

\* Hence the commits of a debit and of a top-up keep the types of the rows too.
LEMMA CommitType ==
  ASSUME TypeInv, NEW r \in Reqs, SendCommit(r) \/ TopUpCommit(r)
  PROVE  TypeInv'
<1> DEFINE p == req[r]
<1>0. p \in Request /\ Placed(p)
  BY DEF TypeInv, TypeOK
<1>1. req' \in [Reqs -> Request] /\ \A s \in Reqs : Placed(req'[s])
  BY CommittedType DEF SendCommit, TopUpCommit
<1>2. \A s \in Reqs : Placed(req[s])'
  BY <1>1 DEF Placed
<1>3. p.row.balance \in Int /\ p.row.version \in Nat /\ p.amount \in Nat /\ p.count \in Nat
  BY <1>0 DEF Request, Row
<1>4. CASE SendCommit(r)
  <2>1. p.org \in Orgs /\ p.listing \in Listings /\ p.thread \in Threads /\ p.day \in Days
    BY <1>0, <1>4 DEF SendCommit, Placed, Sending
  <2>2. ledger[p.org].version \in Nat
    BY <2>1 DEF TypeInv, TypeOK, Row
  <2>3. ledger' \in [Orgs -> Row]
    BY <1>3, <1>4, <2>1, <2>2 DEF SendCommit, TypeInv, TypeOK, Row
  <2>4. loop' \in [Threads -> [Days -> Nat]]
    BY <1>3, <1>4, <2>1 DEF SendCommit, TypeInv, TypeOK
  <2>5. billed' \in [Threads -> [Days -> Nat]]
    <3>1. billed' = [billed EXCEPT ![p.thread][p.day] = billed[p.thread][p.day] + 1]
      BY <1>4 DEF SendCommit
    <3>2. billed[p.thread][p.day] + 1 \in Nat
      BY <2>1, LoopType DEF TypeInv
    <3>3. PICK n \in Nat : billed' = [billed EXCEPT ![p.thread][p.day] = n]
      BY <3>1, <3>2
    <3> QED
      BY <2>1, <3>3 DEF TypeInv, TypeOK
  <2>6. thread' \in [Threads -> Billing \cup {None}]
    BY <1>4, <2>1 DEF SendCommit, TypeInv, TypeOK, Billing
  <2>7. debits' \in [Orgs -> Nat]
    BY <1>3, <1>4, <2>1 DEF SendCommit, TypeInv, TypeOK
  <2> QED
    BY <1>1, <1>2, <1>4, <2>3, <2>4, <2>5, <2>6, <2>7 DEF SendCommit, TypeInv, TypeOK
<1>5. CASE TopUpCommit(r)
  <2>1. p.org \in Orgs
    BY <1>0, <1>5 DEF TopUpCommit, Placed, Crediting
  <2>2. ledger[p.org].version \in Nat
    BY <2>1 DEF TypeInv, TypeOK, Row
  <2>3. ledger' \in [Orgs -> Row]
    BY <1>3, <1>5, <2>1, <2>2 DEF TopUpCommit, TypeInv, TypeOK, Row
  <2>4. credits' \in [Orgs -> Nat]
    BY <1>3, <1>5, <2>1 DEF TopUpCommit, TypeInv, TypeOK
  <2> QED
    BY <1>1, <1>2, <1>5, <2>3, <2>4 DEF TopUpCommit, TypeInv, TypeOK
<1> QED
  BY <1>4, <1>5

\* Registry operations, midnight and stuttering leave requests and ledgers alone.
LEMMA OtherType ==
  ASSUME TypeInv, RegistryCommit \/ Midnight \/ UNCHANGED vars
  PROVE  TypeInv'
<1>1. TypeOK'
  BY DEF TypeInv, TypeOK, RegistryCommit, Midnight, vars, stored, trail
<1>2. req' = req
  BY DEF RegistryCommit, Midnight, vars
<1> QED
  BY <1>1, <1>2 DEF TypeInv, Placed

\* The hub starts well typed.
LEMMA InitType == Init => TypeInv
<1> SUFFICES ASSUME Init PROVE TypeInv
  OBVIOUS
<1>1. TypeOK
  <2>1. listing \in [Listings -> [published: BOOLEAN, price: Prices]]
    BY DEF Init
  <2>2. ledger \in [Orgs -> Row]
    BY DEF Init, Row
  <2>3. req \in [Reqs -> Request]
    BY IdleType DEF Init
  <2>4. thread \in [Threads -> Billing \cup {None}]
    BY DEF Init
  <2>5. loop \in [Threads -> [Days -> Nat]] /\ billed \in [Threads -> [Days -> Nat]]
    BY DEF Init
  <2>6. credits \in [Orgs -> Nat] /\ debits \in [Orgs -> Nat]
    BY DEF Init
  <2>7. today \in Days
    BY DEF Init
  <2> QED
    BY <2>1, <2>2, <2>3, <2>4, <2>5, <2>6, <2>7 DEF TypeOK
<1>2. \A r \in Reqs : Placed(req[r])
  BY IdleType DEF Init
<1> QED
  BY <1>1, <1>2 DEF TypeInv

\* No step of any request leaves the types.
LEMMA StepType == TypeInv /\ [Next]_vars => TypeInv'
<1> SUFFICES ASSUME TypeInv, [Next]_vars PROVE TypeInv'
  OBVIOUS
<1>1. ASSUME NEW r \in Reqs, CreateStart(r) \/ FollowUpStart(r) \/ DebitStart(r) \/ TopUpStart(r) PROVE TypeInv'
  BY <1>1, StartType
<1>2. ASSUME NEW r \in Reqs, ReadListing(r) \/ ReadLedger(r) \/ ReadLoop(r) \/ TopUpRead(r)
      PROVE TypeInv'
  BY <1>2, ReadType
<1>3. ASSUME NEW r \in Reqs, SendCommit(r) \/ TopUpCommit(r) PROVE TypeInv'
  BY <1>3, CommitType
<1>4. ASSUME NEW r \in Reqs, SendConflict(r) PROVE TypeInv'
  BY <1>4, RetryType DEF SendConflict, Sending
<1>5. ASSUME NEW r \in Reqs, TopUpConflict(r) PROVE TypeInv'
  BY <1>5, RetryType DEF TopUpConflict, Crediting
<1>6. ASSUME NEW r \in Reqs, GiveUp(r) \/ Crash(r) PROVE TypeInv'
  BY <1>6, AnswerType DEF GiveUp, Crash
<1>7. CASE RegistryCommit \/ Midnight \/ UNCHANGED vars
  BY <1>7, OtherType
<1> QED
  BY <1>1, <1>2, <1>3, <1>4, <1>5, <1>6, <1>7 DEF Next, Work

\* Every reachable state is well typed, for all instances.
THEOREM TypeCorrect == Spec => []TypeOK
<1>1. TypeInv => TypeOK
  BY DEF TypeInv
<1> QED
  BY InitType, StepType, <1>1, PTL DEF Spec

-----------------------------------------------------------------------------
(* The inductive invariant *)

\* A copy of a ledger row whose version is still current is the row; it covers
\* the price, and the loop guard that was read had room.
Snapshot(q) ==
  /\ q.pc \in {"loop", "commit", "credit"} =>
       /\ q.row.version <= ledger[q.org].version
       /\ q.row.version = ledger[q.org].version => q.row.balance = ledger[q.org].balance
  /\ q.pc \in {"loop", "commit"} => q.amount <= q.row.balance
  /\ q.pc = "commit" => q.count < Limit

\* Every failed attempt is paid for by a commit of another request, and so is
\* the attempt under way as soon as it is bound to fail.
Patient(q) ==
  /\ q.pc # "idle" => q.tries <= q.missed
  /\ q.pc = "gaveUp" => q.tries = Tries
  /\ q.pc \in {"loop", "commit", "credit"} /\ q.row.version # ledger[q.org].version
       => q.tries < q.missed
  /\ q.pc = "commit" /\ q.count # loop[q.thread][q.day] => q.tries < q.missed

Books == NeverOverdrawn /\ BalanceIsTrail /\ LoopGuardHolds

IInv == TypeInv /\ Books /\ \A r \in Reqs : Snapshot(req[r]) /\ Patient(req[r])

\* An idle request has read nothing that could be stale.
LEMMA IdleSound == Snapshot(Idle) /\ Patient(Idle)
BY IdleFields DEF Snapshot, Patient

\* The invariant holds in the empty hub.
LEMMA InitInv == Init => IInv
<1> SUFFICES ASSUME Init PROVE IInv
  OBVIOUS
<1>1. TypeInv
  BY InitType
<1>2. Books
  BY DEF Init, Books, NeverOverdrawn, BalanceIsTrail, LoopGuardHolds
<1>3. \A r \in Reqs : Snapshot(req[r]) /\ Patient(req[r])
  BY IdleSound DEF Init
<1> QED
  BY <1>1, <1>2, <1>3 DEF IInv

\* A step that only moves one request on keeps the books; the request has to be sound.
LEMMA BecomesInv ==
  ASSUME IInv, TypeInv', NEW r \in Reqs, NEW q, Snapshot(q), Patient(q),
         Becomes(r, q), UNCHANGED stored
  PROVE  IInv'
<1>1. Books'
  BY DEF IInv, Books, NeverOverdrawn, BalanceIsTrail, LoopGuardHolds, stored, trail
<1>2. \A s \in Reqs : Snapshot(req'[s]) /\ Patient(req'[s])
  BY DEF IInv, TypeInv, TypeOK, Becomes
<1>3. \A s \in Reqs : (Snapshot(req[s]) /\ Patient(req[s]))'
  BY <1>2 DEF Snapshot, Patient, stored
<1> QED
  BY <1>1, <1>3 DEF IInv

\* Answering a request keeps the invariant.
LEMMA AnswerInv ==
  ASSUME IInv, TypeInv', NEW r \in Reqs, Answer(r), UNCHANGED stored PROVE IInv'
BY IdleSound, BecomesInv DEF Answer

\* A request that starts has read nothing and missed nothing.
LEMMA StartInv ==
  ASSUME IInv, TypeInv', NEW r \in Reqs, CreateStart(r) \/ FollowUpStart(r) \/ DebitStart(r) \/ TopUpStart(r)
  PROVE  IInv'
<1>1. CASE CreateStart(r)
  <2>1. PICK o, l, t, q :
          /\ o \in Orgs /\ l \in Listings /\ t \in Threads
          /\ q = [Idle EXCEPT !.kind = "create", !.pc = "listing", !.org = o,
                           !.listing = l, !.thread = t]
          /\ Becomes(r, q) /\ UNCHANGED stored
    BY <1>1 DEF CreateStart
  <2>2. q.pc = "listing" /\ q.tries = 0 /\ q.missed = 0
    BY <2>1, IdleType, IdleFields DEF Request, Sending, Crediting
  <2>3. Snapshot(q) /\ Patient(q)
    BY <2>2 DEF Snapshot, Patient
  <2> QED
    BY <2>1, <2>3, BecomesInv
<1>2. CASE FollowUpStart(r)
  <2>1. PICK t, o, q :
          /\ t \in Threads /\ o \in Orgs
          /\ q = [Idle EXCEPT !.kind = "debit", !.pc = "listing", !.org = o,
                           !.listing = thread[t].listing, !.thread = t]
          /\ Becomes(r, q) /\ UNCHANGED stored
    BY <1>2 DEF FollowUpStart
  <2>2. q.pc = "listing" /\ q.tries = 0 /\ q.missed = 0
    BY <2>1, IdleType, IdleFields DEF Request, Sending, Crediting
  <2>3. Snapshot(q) /\ Patient(q)
    BY <2>2 DEF Snapshot, Patient
  <2> QED
    BY <2>1, <2>3, BecomesInv
<1>3. CASE TopUpStart(r)
  <2>1. PICK o, amount, q :
          /\ o \in Orgs /\ amount \in Amounts
          /\ q = [Idle EXCEPT !.kind = "topUp", !.pc = "read", !.org = o, !.amount = amount]
          /\ Becomes(r, q) /\ UNCHANGED stored
    BY <1>3 DEF TopUpStart
  <2>2. q.pc = "read" /\ q.tries = 0 /\ q.missed = 0
    BY <2>1, IdleType, IdleFields DEF Request, Sending, Crediting
  <2>3. Snapshot(q) /\ Patient(q)
    BY <2>2 DEF Snapshot, Patient
  <2> QED
    BY <2>1, <2>3, BecomesInv
<1>4. CASE DebitStart(r)
  <2>1. PICK t, o, l, q :
          /\ t \in Threads /\ o \in Orgs /\ l \in Listings
          /\ q = [Idle EXCEPT !.kind = "debit", !.pc = "listing", !.org = o,
                           !.listing = l, !.thread = t]
          /\ Becomes(r, q) /\ UNCHANGED stored
    BY <1>4 DEF DebitStart
  <2>2. q.pc = "listing" /\ q.tries = 0 /\ q.missed = 0
    BY <2>1, IdleType, IdleFields DEF Request, Sending, Crediting
  <2>3. Snapshot(q) /\ Patient(q)
    BY <2>2 DEF Snapshot, Patient
  <2> QED
    BY <2>1, <2>3, BecomesInv
<1> QED
  BY <1>1, <1>2, <1>3, <1>4

\* What a read puts into a request is the current version of the row.
LEMMA ReadInv ==
  ASSUME IInv, TypeInv', NEW r \in Reqs,
         ReadListing(r) \/ ReadLedger(r) \/ ReadLoop(r) \/ TopUpRead(r)
  PROVE  IInv'
<1> DEFINE p == req[r]
<1>0. p \in Request /\ Placed(p) /\ Snapshot(p) /\ Patient(p) /\ UNCHANGED stored
  BY DEF IInv, TypeInv, TypeOK, ReadListing, ReadLedger, ReadLoop, TopUpRead
<1>1. CASE ReadListing(r)
  <2>1. ASSUME NEW q, Becomes(r, q),
               q = [p EXCEPT !.pc = "ledger", !.amount = listing[p.listing].price, !.day = today]
        PROVE  IInv'
    <3>1. q.pc = "ledger" /\ q.tries = p.tries /\ q.missed = p.missed /\ p.pc = "listing"
      BY <1>0, <1>1, <2>1 DEF Request, ReadListing
    <3>2. Snapshot(q) /\ Patient(q)
      BY <1>0, <3>1 DEF Snapshot, Patient
    <3> QED
      BY <1>0, <2>1, <3>2, BecomesInv
  <2> QED
    BY <1>0, <1>1, <2>1, AnswerInv DEF ReadListing
<1>2. CASE ReadLedger(r)
  <2>1. ASSUME NEW q, Becomes(r, q), p.amount <= ledger[p.org].balance,
               q = [p EXCEPT !.pc = "loop", !.row = ledger[p.org]]
        PROVE  IInv'
    <3>1. /\ q.pc = "loop" /\ q.tries = p.tries /\ q.missed = p.missed /\ p.pc = "ledger"
          /\ q.row = ledger[p.org] /\ q.org = p.org /\ q.amount = p.amount
      BY <1>0, <1>2, <2>1 DEF Request, ReadLedger
    <3>2. ledger[p.org].version \in Nat
      BY <1>0, <3>1 DEF IInv, TypeInv, TypeOK, Row, Placed, Sending
    <3>3. Snapshot(q) /\ Patient(q)
      BY <1>0, <2>1, <3>1, <3>2 DEF Snapshot, Patient
    <3> QED
      BY <1>0, <2>1, <3>3, BecomesInv
  <2>2. ledger[p.org].balance \in Int /\ p.amount \in Int
    BY <1>0, <1>2 DEF IInv, TypeInv, TypeOK, Row, Placed, Sending, Request, ReadLedger
  <2> QED
    BY <1>0, <1>2, <2>1, <2>2, AnswerInv DEF ReadLedger
<1>3. CASE ReadLoop(r)
  <2>1. ASSUME NEW q, Becomes(r, q), loop[p.thread][p.day] < Limit,
               q = [p EXCEPT !.pc = "commit", !.count = loop[p.thread][p.day]]
        PROVE  IInv'
    <3>1. /\ q.pc = "commit" /\ q.tries = p.tries /\ q.missed = p.missed /\ p.pc = "loop"
          /\ q.row = p.row /\ q.org = p.org /\ q.amount = p.amount
          /\ q.thread = p.thread /\ q.day = p.day /\ q.count = loop[p.thread][p.day]
      BY <1>0, <1>3, <2>1 DEF Request, ReadLoop
    <3>2. Snapshot(q)
      BY <1>0, <2>1, <3>1 DEF Snapshot
    <3>3. Patient(q)
      BY <1>0, <3>1 DEF Patient
    <3> QED
      BY <1>0, <2>1, <3>2, <3>3, BecomesInv
  <2> QED
    BY <1>0, <1>3, <2>1, AnswerInv DEF ReadLoop
<1>4. CASE TopUpRead(r)
  <2>1. PICK q : Becomes(r, q) /\ q = [p EXCEPT !.pc = "credit", !.row = ledger[p.org]]
    BY <1>4 DEF TopUpRead
  <2>2. /\ q.pc = "credit" /\ q.tries = p.tries /\ q.missed = p.missed /\ p.pc = "read"
        /\ q.row = ledger[p.org] /\ q.org = p.org
    BY <1>0, <1>4, <2>1 DEF Request, TopUpRead
  <2>3. ledger[p.org].version \in Nat
    BY <1>0, <2>2 DEF IInv, TypeInv, TypeOK, Row, Placed, Crediting
  <2>4. Snapshot(q) /\ Patient(q)
    BY <1>0, <2>2, <2>3 DEF Snapshot, Patient
  <2> QED
    BY <1>0, <2>1, <2>4, BecomesInv
<1> QED
  BY <1>1, <1>2, <1>3, <1>4

\* The failed attempt had been paid for (Patient), so one more is fair.
LEMMA RetryInv ==
  ASSUME IInv, TypeInv', NEW r \in Reqs, SendConflict(r) \/ TopUpConflict(r)
  PROVE  IInv'
<1> DEFINE p == req[r]
<1>0. p \in Request /\ Placed(p) /\ Snapshot(p) /\ Patient(p)
  BY DEF IInv, TypeInv, TypeOK
<1>1. PICK again \in {"listing", "read"} : Retry(r, again) /\ UNCHANGED stored
  BY DEF SendConflict, TopUpConflict
<1>2. PICK q, pc : /\ pc = IF p.tries + 1 < Tries THEN again ELSE "gaveUp"
                   /\ q = [p EXCEPT !.tries = @ + 1, !.pc = pc]
                   /\ Becomes(r, q)
  BY <1>1 DEF Retry
<1>3. p.tries < p.missed
  BY <1>0 DEF SendConflict, TopUpConflict, DebitChecks, Patient
<1>4. q.tries = p.tries + 1 /\ q.missed = p.missed /\ q.pc = pc
  BY <1>0, <1>2 DEF Request
<1>5. p.tries \in Nat /\ p.missed \in Nat /\ p.tries < Tries
  BY <1>0 DEF Request, Placed, Sending, Crediting, SendConflict, TopUpConflict
<1>6. q.pc \in {"listing", "read", "gaveUp"} /\ (q.pc = "gaveUp" => q.tries = Tries)
  BY <1>2, <1>4, <1>5
<1>7. Snapshot(q)
  BY <1>6 DEF Snapshot
<1>8. Patient(q)
  BY <1>3, <1>4, <1>5, <1>6 DEF Patient
<1> QED
  BY <1>1, <1>2, <1>7, <1>8, BecomesInv

\* After a commit of r the row of its organization is a new version, and all the
\* others have missed one: nobody who held the old row is short of patience.
LEMMA CommittedSound ==
  ASSUME IInv, NEW r \in Reqs, Committed(r), NEW org \in Orgs,
         NEW row, row.version = ledger[org].version + 1,
         ledger' = [ledger EXCEPT ![org] = row]
  PROVE  \A s \in Reqs : (Snapshot(req[s]) /\ Patient(req[s]))'
<1> SUFFICES ASSUME NEW s \in Reqs PROVE (Snapshot(req[s]) /\ Patient(req[s]))'
  OBVIOUS
<1> DEFINE p == req[s]
<1>0. p \in Request /\ Placed(p) /\ Snapshot(p) /\ Patient(p)
  BY DEF IInv, TypeInv, TypeOK
<1>1. CASE s = r
  <2>1. req'[s] = Idle
    BY <1>1 DEF Committed
  <2> QED
    BY <2>1, IdleFields DEF Snapshot, Patient
<1>2. CASE s # r
  <2>1. PICK q : q = Missing(p) /\ q = req'[s]
    BY <1>2 DEF Committed
  <2>2. /\ q.pc = p.pc /\ q.org = p.org /\ q.thread = p.thread /\ q.day = p.day
        /\ q.amount = p.amount /\ q.row = p.row /\ q.count = p.count /\ q.tries = p.tries
        /\ p.pc # "idle" => q.missed = IF p.missed = Tries THEN Tries ELSE p.missed + 1
    <3> HIDE DEF p
    <3> QED
      BY <1>0, <2>1, MissingKeeps
  <2>3. /\ p.tries \in Nat /\ p.missed \in Nat /\ p.tries <= Tries /\ p.missed <= Tries
        /\ p.row.version \in Nat
    BY <1>0 DEF Request, Row
  <2>4. q.pc \in Sending \cup Crediting => q.tries < q.missed
    BY <1>0, <2>2, <2>3 DEF Placed, Patient, Sending, Crediting
  <2>5. q.pc # "idle" => q.tries <= q.missed
    BY <1>0, <2>2, <2>3 DEF Patient
  <2>6. Patient(req[s])'
    BY <1>0, <2>1, <2>2, <2>4, <2>5 DEF Patient, Sending, Crediting
  <2>7. Snapshot(req[s])'
    <3>1. CASE q.pc \notin {"loop", "commit", "credit"}
      BY <2>1, <3>1 DEF Snapshot
    <3>2. CASE q.pc \in {"loop", "commit", "credit"}
      <4>1. p.org \in Orgs
        BY <1>0, <2>2, <3>2 DEF Placed, Sending, Crediting
      <4>2. ledger[p.org].version \in Nat
        BY <4>1 DEF IInv, TypeInv, TypeOK, Row
      <4>3. CASE p.org = org
        <5>1. ledger'[p.org].version = ledger[p.org].version + 1
          BY <4>1, <4>3 DEF IInv, TypeInv, TypeOK
        <5>2. p.row.version <= ledger[p.org].version
          BY <1>0, <2>2, <3>2 DEF Snapshot
        <5>3. p.row.version < ledger'[p.org].version
          BY <2>3, <4>2, <5>1, <5>2
        <5> QED
          BY <1>0, <2>1, <2>2, <2>3, <4>2, <5>1, <5>3 DEF Snapshot
      <4>4. CASE p.org # org
        <5>1. ledger'[p.org] = ledger[p.org]
          BY <4>1, <4>4 DEF IInv, TypeInv, TypeOK
        <5> QED
          BY <1>0, <2>1, <2>2, <5>1 DEF Snapshot
      <4> QED
        BY <4>3, <4>4
    <3> QED
      BY <3>1, <3>2
  <2> QED
    BY <2>6, <2>7
<1> QED
  BY <1>1, <1>2

\* What a send that passes its checks finds: the rows are the ones it read.
LEMMA SendFinds ==
  ASSUME IInv, NEW r \in Reqs, SendCommit(r)
  PROVE  /\ req[r].org \in Orgs /\ req[r].thread \in Threads /\ req[r].day \in Days
         /\ req[r].amount \in Prices
         /\ req[r].amount <= ledger[req[r].org].balance
         /\ loop[req[r].thread][req[r].day] < Limit
         /\ ledger' = [ledger EXCEPT ![req[r].org] =
              [balance |-> ledger[req[r].org].balance - req[r].amount,
               version |-> ledger[req[r].org].version + 1]]
         /\ loop' = [loop EXCEPT ![req[r].thread][req[r].day] =
              loop[req[r].thread][req[r].day] + 1]
<1> DEFINE p == req[r]
<1>0. p \in Request /\ Placed(p) /\ Snapshot(p)
  BY DEF IInv, TypeInv, TypeOK
<1>1. p.org \in Orgs /\ p.thread \in Threads /\ p.day \in Days /\ p.amount \in Prices
  BY <1>0 DEF SendCommit, Placed, Sending
<1>2. /\ p.pc = "commit" /\ ledger[p.org].version = p.row.version
      /\ loop[p.thread][p.day] = p.count
  BY DEF SendCommit, DebitChecks
<1>3. p.row.balance = ledger[p.org].balance /\ p.amount <= p.row.balance /\ p.count < Limit
  BY <1>0, <1>2 DEF Snapshot
<1>4. /\ ledger' = [ledger EXCEPT ![p.org] =
           [balance |-> p.row.balance - p.amount, version |-> ledger[p.org].version + 1]]
      /\ loop' = [loop EXCEPT ![p.thread][p.day] = p.count + 1]
  BY DEF SendCommit
<1>5. ledger' = [ledger EXCEPT ![p.org] =
           [balance |-> ledger[p.org].balance - p.amount, version |-> ledger[p.org].version + 1]]
  BY <1>3, <1>4
<1>6. loop' = [loop EXCEPT ![p.thread][p.day] = loop[p.thread][p.day] + 1]
  BY <1>2, <1>4
<1> QED
  BY <1>1, <1>2, <1>3, <1>5, <1>6

\* Likewise a top-up.
LEMMA TopUpFinds ==
  ASSUME IInv, NEW r \in Reqs, TopUpCommit(r)
  PROVE  /\ req[r].org \in Orgs /\ req[r].amount \in Amounts
         /\ ledger' = [ledger EXCEPT ![req[r].org] =
              [balance |-> ledger[req[r].org].balance + req[r].amount,
               version |-> ledger[req[r].org].version + 1]]
<1> DEFINE p == req[r]
<1>0. p \in Request /\ Placed(p) /\ Snapshot(p)
  BY DEF IInv, TypeInv, TypeOK
<1>1. p.pc = "credit" /\ ledger[p.org].version = p.row.version
  BY DEF TopUpCommit
<1>2. p.row.balance = ledger[p.org].balance
  BY <1>0, <1>1 DEF Snapshot
<1>3. ledger' = [ledger EXCEPT ![p.org] =
           [balance |-> p.row.balance + p.amount, version |-> ledger[p.org].version + 1]]
  BY DEF TopUpCommit
<1> QED
  BY <1>0, <1>1, <1>2, <1>3 DEF Placed, Crediting

\* A commit that passes its checks keeps the books, and the others stay sound.
LEMMA CommitInv ==
  ASSUME IInv, TypeInv', NEW r \in Reqs, SendCommit(r) \/ TopUpCommit(r)
  PROVE  IInv'
<1> DEFINE p == req[r]
<1>0. TypeInv /\ p.amount \in Int /\ \A o \in Orgs : ledger[o] \in Row
  BY DEF IInv, TypeInv, TypeOK, Request
<1>1. CASE SendCommit(r)
  <2>1. PICK row : /\ row = [balance |-> ledger[p.org].balance - p.amount,
                             version |-> ledger[p.org].version + 1]
                   /\ ledger' = [ledger EXCEPT ![p.org] = row]
    BY <1>1, SendFinds
  <2>2. PICK n : /\ n = loop[p.thread][p.day] + 1
                 /\ loop' = [loop EXCEPT ![p.thread][p.day] = n]
    BY <1>1, SendFinds
  <2>3. /\ p.org \in Orgs /\ p.thread \in Threads /\ p.day \in Days
        /\ p.amount <= ledger[p.org].balance /\ loop[p.thread][p.day] < Limit
    BY <1>1, SendFinds
  <2>4. row.balance = ledger[p.org].balance - p.amount /\ row.version = ledger[p.org].version + 1
    BY <2>1
  <2>5. \A o \in Orgs : ledger'[o].balance =
          IF o = p.org THEN ledger[o].balance - p.amount ELSE ledger[o].balance
    BY <1>0, <2>1, <2>3, <2>4 DEF TypeInv, TypeOK
  <2>6. NeverOverdrawn'
    BY <1>0, <2>3, <2>5 DEF IInv, Books, NeverOverdrawn, Row
  <2>7. BalanceIsTrail'
    <3>1. credits' = credits /\ debits' = [debits EXCEPT ![p.org] = @ + p.amount]
      BY <1>1 DEF SendCommit
    <3>2. \A o \in Orgs : debits[o] \in Nat /\ credits[o] \in Nat
      BY <1>0 DEF TypeInv, TypeOK
    <3>3. \A o \in Orgs : debits'[o] = IF o = p.org THEN debits[o] + p.amount ELSE debits[o]
      BY <1>0, <3>1 DEF TypeInv, TypeOK
    <3> QED
      BY <1>0, <2>5, <3>1, <3>2, <3>3 DEF IInv, Books, BalanceIsTrail, Row
  <2>8. LoopGuardHolds'
    <3>1. billed' = [billed EXCEPT ![p.thread][p.day] = billed[p.thread][p.day] + 1]
      BY <1>1 DEF SendCommit
    <3>2. billed' = [billed EXCEPT ![p.thread][p.day] = n]
      BY <2>2, <2>3, <3>1 DEF IInv, Books, LoopGuardHolds
    <3>3. n \in Int /\ n <= Limit
      BY <1>0, <2>2, <2>3, LoopType DEF TypeInv
    <3>4. \A t \in Threads, d \in Days :
            /\ loop'[t][d] = IF t = p.thread /\ d = p.day THEN n ELSE loop[t][d]
            /\ billed'[t][d] = IF t = p.thread /\ d = p.day THEN n ELSE billed[t][d]
      BY <1>0, <2>2, <3>2 DEF TypeInv, TypeOK
    <3> QED
      BY <3>3, <3>4 DEF IInv, Books, LoopGuardHolds
  <2>9. \A s \in Reqs : (Snapshot(req[s]) /\ Patient(req[s]))'
    BY <1>1, <2>1, <2>3, <2>4, CommittedSound DEF SendCommit
  <2> QED
    BY <2>6, <2>7, <2>8, <2>9 DEF IInv, Books
<1>2. CASE TopUpCommit(r)
  <2>1. PICK row : /\ row = [balance |-> ledger[p.org].balance + p.amount,
                             version |-> ledger[p.org].version + 1]
                   /\ ledger' = [ledger EXCEPT ![p.org] = row]
    BY <1>2, TopUpFinds
  <2>2. p.org \in Orgs /\ p.amount \in Nat
    BY <1>2, TopUpFinds
  <2>3. row.balance = ledger[p.org].balance + p.amount /\ row.version = ledger[p.org].version + 1
    BY <2>1
  <2>4. \A o \in Orgs : ledger'[o].balance =
          IF o = p.org THEN ledger[o].balance + p.amount ELSE ledger[o].balance
    BY <1>0, <2>1, <2>2, <2>3 DEF TypeInv, TypeOK
  <2>5. NeverOverdrawn'
    BY <1>0, <2>2, <2>4 DEF IInv, Books, NeverOverdrawn, Row
  <2>6. BalanceIsTrail'
    <3>1. debits' = debits /\ credits' = [credits EXCEPT ![p.org] = @ + p.amount]
      BY <1>2 DEF TopUpCommit
    <3>2. \A o \in Orgs : debits[o] \in Nat /\ credits[o] \in Nat
      BY <1>0 DEF TypeInv, TypeOK
    <3>3. \A o \in Orgs : credits'[o] = IF o = p.org THEN credits[o] + p.amount ELSE credits[o]
      BY <1>0, <3>1 DEF TypeInv, TypeOK
    <3> QED
      BY <1>0, <2>4, <3>1, <3>2, <3>3 DEF IInv, Books, BalanceIsTrail, Row
  <2>7. LoopGuardHolds'
    BY <1>2 DEF IInv, Books, LoopGuardHolds, TopUpCommit
  <2>8. \A s \in Reqs : (Snapshot(req[s]) /\ Patient(req[s]))'
    BY <1>2, <2>1, <2>2, <2>3, CommittedSound DEF TopUpCommit
  <2> QED
    BY <2>5, <2>6, <2>7, <2>8 DEF IInv, Books
<1> QED
  BY <1>1, <1>2

\* Registry operations, midnight and stuttering change nothing the invariant reads.
LEMMA OtherInv ==
  ASSUME IInv, TypeInv', RegistryCommit \/ Midnight \/ UNCHANGED vars PROVE IInv'
<1>1. UNCHANGED <<ledger, loop, credits, debits, billed, req>>
  BY DEF RegistryCommit, Midnight, vars, stored, trail
<1>2. Books'
  BY <1>1 DEF IInv, Books, NeverOverdrawn, BalanceIsTrail, LoopGuardHolds
<1>3. \A r \in Reqs : (Snapshot(req[r]) /\ Patient(req[r]))'
  BY <1>1 DEF IInv, Snapshot, Patient
<1> QED
  BY <1>2, <1>3 DEF IInv

\* The invariant is inductive.
LEMMA StepInv == IInv /\ [Next]_vars => IInv'
<1> SUFFICES ASSUME IInv, [Next]_vars PROVE IInv'
  OBVIOUS
<1>0. TypeInv'
  BY StepType DEF IInv
<1>1. ASSUME NEW r \in Reqs, CreateStart(r) \/ FollowUpStart(r) \/ DebitStart(r) \/ TopUpStart(r) PROVE IInv'
  BY <1>0, <1>1, StartInv
<1>2. ASSUME NEW r \in Reqs, ReadListing(r) \/ ReadLedger(r) \/ ReadLoop(r) \/ TopUpRead(r)
      PROVE IInv'
  BY <1>0, <1>2, ReadInv
<1>3. ASSUME NEW r \in Reqs, SendCommit(r) \/ TopUpCommit(r) PROVE IInv'
  BY <1>0, <1>3, CommitInv
<1>4. ASSUME NEW r \in Reqs, SendConflict(r) \/ TopUpConflict(r) PROVE IInv'
  BY <1>0, <1>4, RetryInv
<1>5. ASSUME NEW r \in Reqs, GiveUp(r) \/ Crash(r) PROVE IInv'
  BY <1>0, <1>5, AnswerInv DEF GiveUp, Crash
<1>6. CASE RegistryCommit \/ Midnight \/ UNCHANGED vars
  BY <1>0, <1>6, OtherInv
<1> QED
  BY <1>1, <1>2, <1>3, <1>4, <1>5, <1>6 DEF Next, Work

\* Whatever the interleaving: the books balance, and every row a request holds is
\* as old as the commits it has missed.  The safety theorems below are its parts.
THEOREM InductiveInvariant == Spec => []IInv
BY InitInv, StepInv, PTL DEF Spec

\* Concurrent debits and top-ups (planEnterpriseDebit, topUpCredits) never take
\* an organization below zero.
THEOREM NoOverdraft == Spec => []NeverOverdrawn
<1>1. IInv => NeverOverdrawn
  BY DEF IInv, Books
<1> QED
  BY InductiveInvariant, <1>1, PTL

\* The balance of a ledger row and the trail of billing_ledger_entries agree.
THEOREM NoEntryLost == Spec => []BalanceIsTrail
<1>1. IInv => BalanceIsTrail
  BY DEF IInv, Books
<1> QED
  BY InductiveInvariant, <1>1, PTL

\* No interleaving stores more than Limit billed messages of one thread and day.
THEOREM LoopGuard == Spec => []LoopGuardHolds
<1>1. IInv => LoopGuardHolds
  BY DEF IInv, Books
<1> QED
  BY InductiveInvariant, <1>1, PTL

\* A request that answers with "Failed to ..." had Tries commits get in its way.
THEOREM NoVainFailure == Spec => []GivesUpOnlyWhenBusy
<1>1. IInv => GivesUpOnlyWhenBusy
  <2> SUFFICES ASSUME IInv, NEW r \in Reqs, req[r].pc = "gaveUp" PROVE req[r].missed = Tries
    BY DEF GivesUpOnlyWhenBusy
  <2>1. req[r] \in Request /\ Patient(req[r])
    BY DEF IInv, TypeInv, TypeOK
  <2>2. req[r].tries = Tries /\ req[r].tries <= req[r].missed
    BY <2>1 DEF Patient
  <2>3. req[r].missed \in 0..Tries
    BY <2>1 DEF Request
  <2> QED
    BY <2>2, <2>3
<1> QED
  BY InductiveInvariant, <1>1, PTL

-----------------------------------------------------------------------------
(* Refinement *)

\* The empty hub is an account without credits.
LEMMA InitRefines == Init => Account!AccountInit
BY DEF Init, Account!AccountInit

\* A commit is one step of the account; every other step is invisible to it.
LEMMA StepRefines ==
  IInv /\ [Next]_vars =>
    [Account!AccountNext]_<<[o \in Orgs |-> ledger[o].balance], billed>>
<1> SUFFICES ASSUME IInv, [Next]_vars
    PROVE  [Account!AccountNext]_<<[o \in Orgs |-> ledger[o].balance], billed>>
  OBVIOUS
<1>0. TypeInv /\ ledger \in [Orgs -> Row]
  BY DEF IInv, TypeInv, TypeOK
<1>1. ASSUME NEW r \in Reqs, SendCommit(r)
      PROVE  Account!AccountNext
  <2> DEFINE p == req[r]
  <2>1. PICK row : /\ row = [balance |-> ledger[p.org].balance - p.amount,
                             version |-> ledger[p.org].version + 1]
                   /\ ledger' = [ledger EXCEPT ![p.org] = row]
    BY <1>1, SendFinds
  <2>2. /\ p.org \in Orgs /\ p.thread \in Threads /\ p.day \in Days /\ p.amount \in Prices
        /\ p.amount <= ledger[p.org].balance /\ loop[p.thread][p.day] < Limit
    BY <1>1, SendFinds
  <2>3. [o \in Orgs |-> ledger'[o].balance] =
        [[o \in Orgs |-> ledger[o].balance] EXCEPT ![p.org] = ledger[p.org].balance - p.amount]
    <3>1. row.balance = ledger[p.org].balance - p.amount
      BY <2>1
    <3>2. ledger' = [ledger EXCEPT ![p.org] = row]
      BY <2>1
    <3> QED
      BY <1>0, <2>2, <3>1, <3>2
  <2>4. billed[p.thread][p.day] < Limit
    BY <2>2 DEF IInv, Books, LoopGuardHolds
  <2>5. billed' = [billed EXCEPT ![p.thread][p.day] = @ + 1]
    BY <1>1 DEF SendCommit
  <2>6. PICK o \in Orgs, t \in Threads, d \in Days, price \in Prices :
          o = p.org /\ t = p.thread /\ d = p.day /\ price = p.amount
    BY <2>2
  <2>7. Account!SendBilled(o, t, d, price)
    BY <2>2, <2>3, <2>4, <2>5, <2>6 DEF Account!SendBilled
  <2> QED
    BY <2>7 DEF Account!AccountNext
<1>2. ASSUME NEW r \in Reqs, TopUpCommit(r)
      PROVE  Account!AccountNext
  <2> DEFINE p == req[r]
  <2>1. PICK row : /\ row = [balance |-> ledger[p.org].balance + p.amount,
                             version |-> ledger[p.org].version + 1]
                   /\ ledger' = [ledger EXCEPT ![p.org] = row]
    BY <1>2, TopUpFinds
  <2>2. p.org \in Orgs /\ p.amount \in Amounts
    BY <1>2, TopUpFinds
  <2>3. [o \in Orgs |-> ledger'[o].balance] =
        [[o \in Orgs |-> ledger[o].balance] EXCEPT ![p.org] = ledger[p.org].balance + p.amount]
    <3>1. row.balance = ledger[p.org].balance + p.amount
      BY <2>1
    <3>2. ledger' = [ledger EXCEPT ![p.org] = row]
      BY <2>1
    <3> QED
      BY <1>0, <2>2, <3>1, <3>2
  <2>4. PICK o \in Orgs, amount \in Amounts : o = p.org /\ amount = p.amount
    BY <2>2
  <2>5. Account!TopUp(o, amount)
    BY <1>2, <2>2, <2>3, <2>4 DEF Account!TopUp, TopUpCommit
  <2> QED
    BY <2>5 DEF Account!AccountNext
<1>3. ASSUME UNCHANGED <<ledger, billed>>
      PROVE  UNCHANGED <<[o \in Orgs |-> ledger[o].balance], billed>>
  BY <1>3
<1>4. ASSUME NEW r \in Reqs,
             \/ CreateStart(r) \/ FollowUpStart(r) \/ DebitStart(r) \/ TopUpStart(r)
             \/ ReadListing(r) \/ ReadLedger(r) \/ ReadLoop(r) \/ TopUpRead(r)
             \/ SendConflict(r) \/ TopUpConflict(r) \/ GiveUp(r) \/ Crash(r)
      PROVE  UNCHANGED <<ledger, billed>>
  <2>1. UNCHANGED stored
    BY <1>4 DEF CreateStart, FollowUpStart, DebitStart, TopUpStart, ReadListing, ReadLedger, ReadLoop,
         TopUpRead, SendConflict, TopUpConflict, GiveUp, Crash
  <2> QED
    BY <2>1 DEF stored, trail
<1>5. ASSUME RegistryCommit \/ Midnight \/ UNCHANGED vars
      PROVE  UNCHANGED <<ledger, billed>>
  BY <1>5 DEF RegistryCommit, Midnight, vars, stored, trail
<1> QED
  BY <1>1, <1>2, <1>3, <1>4, <1>5 DEF Next, Work

\* To whoever looks at balances and billed messages, each debit and each top-up
\* happens in one step, though the code reads and writes over several awaits.
THEOREM Implements == Spec => ImplementsAccount
BY InitRefines, StepRefines, InductiveInvariant, PTL
   DEF Spec, ImplementsAccount, Account!AccountSpec

=============================================================================
