---------------------------- MODULE HubRequests ----------------------------
(***************************************************************************)
(* Requests in flight at the hub, for the components that keep accounts,   *)
(* agents, contacts and boards.  A handler is a chain of awaits: each      *)
(* action is one read, one write or one commit of it (adjacent reads are   *)
(* one action where the README says so), and any other request may run     *)
(* between two of them.                                                    *)
(*                                                                         *)
(* `mem` holds the handler's local variables, a record of its own for each *)
(* operation.  `held` names the rows it has read and will check or write   *)
(* back, `stale` those of them that somebody wrote since.  An              *)
(* atomic().check(row) of a row that was present thus passes exactly while *)
(* the row is not stale: a versionstamp never returns.  A row that was     *)
(* read as absent is compared with its present state, as a missing row has *)
(* no versionstamp.                                                        *)
(***************************************************************************)
EXTENDS Naturals, FiniteSets

CONSTANTS
  Reqs,     \* requests that may be in flight at the same time
  Scopes,   \* BOUND: the operations of a behaviour, how many requests it has, and
            \* `tries`, what else a component varies: the submissions to pair of
            \* ExternalPairing, the steerers at the start of CollabBoard
  Absent    \* no row, no value

VARIABLES
  req,          \* the requests in flight
  scope,        \* the operations of this behaviour and the requests still to come
  overwritten   \* history: keys of rows a commit replaced although they had
                \* changed since it read them; read by no action

Idle == [op |-> "none", pc |-> "idle", held |-> {}, stale |-> {}, mem |-> Absent]

Free(r, op)   == req[r] = Idle /\ op \in scope.ops /\ scope.left > 0
At(r, op, pc) == req[r].op = op /\ req[r].pc = pc

Begin(op, pc, held, mem) == [op |-> op, pc |-> pc, held |-> held, stale |-> {}, mem |-> mem]
On(q, pc, held, mem)   == [q EXCEPT !.pc = pc, !.held = @ \cup held, !.mem = mem]

\* A request begins, or one goes on.
Begins == scope' = [scope EXCEPT !.left = @ - 1]
GoesOn == UNCHANGED scope

\* Request r becomes q and writes the rows named by K.
Writes(r, q, K) ==
  req' = [p \in Reqs |->
            IF p = r THEN q ELSE [req[p] EXCEPT !.stale = @ \cup (req[p].held \cap K)]]

Reads(r, q)   == Writes(r, q, {})
Answer(r)     == Reads(r, Idle)                \* answers or throws: nothing stays in memory
Leaves(r, K)  == Writes(r, Idle, K)            \* answers with its last commit
Clobbers(r, K) ==                              \* writes back the rows named by K unchecked
  overwritten' = overwritten \cup (req[r].stale \cap K)

\* The process of a handler dies between two awaits.
Crash(r) == req[r] # Idle /\ Answer(r) /\ UNCHANGED overwritten

InitRequests ==
  /\ req = [r \in Reqs |-> Idle]
  /\ scope \in Scopes
  /\ overwritten = {}

TypeOKRequests ==
  /\ scope.left \in Nat /\ \E s \in Scopes : scope.ops = s.ops /\ scope.tries = s.tries
  /\ \A r \in Reqs :
       /\ DOMAIN req[r] = {"op", "pc", "held", "stale", "mem"}
       /\ req[r].stale \subseteq req[r].held
       /\ req[r] # Idle => req[r].op \in scope.ops
=============================================================================
