--------------------------- MODULE MCThreadMixes ---------------------------
(***************************************************************************)
(* MCThreadHub over mixes of endpoints: all of them at once are too many   *)
(* interleavings, so the state constraint OneMix keeps to a few.          *)
(***************************************************************************)
EXTENDS MCThreadHub

Busy(op) == \E r \in Reqs : req[r].op = op

\* What this behaviour did besides writing first messages, proposing and approving
Replied == \E t \in Ids : Exists(t) /\ \E m \in In(t) : m.id > t /\ m.from # "system"
Closed  == \E t \in Ids : Exists(t) /\ thread[t].status = "closed"
Did     == {op \in {"reply", "close", "deny"} : Busy(op)}
             \cup (IF Replied THEN {"reply"} ELSE {}) \cup (IF Closed THEN {"close"} ELSE {})
             \cup (IF denied # {} THEN {"deny"} ELSE {})

MaxAsk == 2   \* BOUND: proposals in a behaviour with a deny

\* BOUND: replies, closes and denials do not come together in one behaviour, and only
\* replies meet mail that was hub-readable from the start.
OneMix ==
  /\ Cardinality(Did) <= 1
  /\ Did \cap {"close", "deny"} # {} =>
       \A t \in Ids : Exists(t) => thread[t].mode = "e2e" \/ thread[t].point # Absent
  /\ "deny" \in Did => Cardinality({p \in Ids : proposals[p] # Absent}) <= MaxAsk

=============================================================================
