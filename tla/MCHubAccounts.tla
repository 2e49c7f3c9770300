---------------------------- MODULE MCHubAccounts ----------------------------
(***************************************************************************)
(* Two requests in flight, over twenty-one mixes of operations: each mix   *)
(* names operations that meet in some row, and how many requests a         *)
(* behaviour makes for them.                                               *)
(***************************************************************************)
EXTENDS HubAccounts, TLC

CONSTANTS r1, r2, bo, cy

S(ops, left) == [ops |-> ops, left |-> left, tries |-> {}]
Pair(ops, left, tries) == [ops |-> ops, left |-> left, tries |-> tries]

\* A submission to pair is an asker, the handle he names and the PIN he gives.
MCScopes == {
  S({"createOrg", "join"}, 4), S({"join", "invite"}, 4), S({"slug", "join"}, 5), S({"slug", "createOrg"}, 5),
  S({"profile", "slug", "join"}, 3), S({"createOrg", "profile"}, 3), S({"seed", "me", "profile"}, 3),
  S({"draft", "edit", "verify", "publish", "suspend", "unpublish"}, 5),
  S({"draft", "verify", "createOrg", "slug"}, 4),
  S({"connect", "rename", "handshake"}, 3),
  S({"connect", "rename", "prefer", "router", "handshake", "look"}, 2),
  S({"device"}, 4), S({"mint", "use", "revoke"}, 6),
  S({"upload", "paper", "vote", "receipt"}, 4), S({"upload"}, 6),
  Pair({"submit"}, 6, {<<bo, "alice", 0>>}),
  Pair({"submit", "pin"}, 3, {<<bo, "alice", 1>>, <<cy, "alice", 1>>}),
  Pair({"submit", "pin", "approve"}, 3, {<<bo, "alice", 1>>, <<bo, "nobody", 1>>}),
  S({"approve", "deny", "unpair"}, 5), S({"mail", "reply", "unpair"}, 5),
  S({"mail", "reply"}, 6)}

MCSym == Permutations(Reqs)
=============================================================================
