--------------------------- MODULE CreditAccount ---------------------------
(***************************************************************************)
(* What enterprise billing promises, with no requests and no rows: every   *)
(* organization has prepaid credits, every billed message is paid for in   *)
(* full and at once, and a thread takes a limited number of them per day.  *)
(***************************************************************************)
EXTENDS Integers

CONSTANTS
  Orgs, Threads, Days,
  Prices,    \* cents a message may cost
  Amounts,   \* cents that may be added at once
  Limit      \* billed messages per thread and day

VARIABLES
  balance,   \* organization -> prepaid cents
  sent       \* thread -> day -> billed messages

AccountInit ==
  /\ balance = [o \in Orgs |-> 0]
  /\ sent = [t \in Threads |-> [d \in Days |-> 0]]

TopUp(o, amount) ==
  /\ balance' = [balance EXCEPT ![o] = @ + amount]
  /\ UNCHANGED sent

SendBilled(o, t, d, price) ==
  /\ price <= balance[o]
  /\ sent[t][d] < Limit
  /\ balance' = [balance EXCEPT ![o] = @ - price]
  /\ sent' = [sent EXCEPT ![t][d] = @ + 1]

AccountNext ==
  \E o \in Orgs :
    \/ \E amount \in Amounts : TopUp(o, amount)
    \/ \E t \in Threads, d \in Days, price \in Prices : SendBilled(o, t, d, price)

AccountSpec == AccountInit /\ [][AccountNext]_<<balance, sent>>

=============================================================================
