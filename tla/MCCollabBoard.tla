---------------------------- MODULE MCCollabBoard ----------------------------
(***************************************************************************)
(* A board of two members of an organization and one external contact of   *)
(* the creator, with two requests in flight, over mixes of operations that *)
(* write the same rows.                                                    *)
(***************************************************************************)
EXTENDS CollabViews, TLC

CONSTANTS r1, r2, ann, bob, eve

\* Operations, how many requests, and the steerers of the board at the start
B(ops, left, starts) == [ops |-> ops, left |-> left, tries |-> starts]

MCScopes == {
  B({"create", "add"}, 2, {Absent}),
  B({"add", "approve", "deny"}, 4, {{ann, bob}}), B({"add", "remove", "approve"}, 4, {{ann, bob}}),
  B({"add", "approve", "downgrade"}, 4, {{ann, bob}}),
  B({"archive", "unarchive", "remove", "rename", "add"}, 3, {{ann, bob}}),
  B({"archive", "unarchive", "add", "approve"}, 4, {{ann, bob}}),
  B({"attach", "learn", "instruct", "archive", "downgrade"}, 4, {{ann}, {ann, eve}}),
  B({"card", "lane", "close", "archive"}, 4, {{ann}}),
  B({"card", "lane"}, 5, {{ann}}),
  B({"card", "lane", "check", "close"}, 4, {{ann}}), B({"card", "check", "close"}, 3, {{ann, bob}}),
  B({"card", "lane", "delete", "list"}, 4, {{ann}}), B({"card", "close", "list"}, 3, {{ann, bob}}),
  B({"card", "rename", "close", "list"}, 4, {{ann}}),
  B({"attach", "learn", "downgrade", "page"}, 4, {{ann}}),
  B({"card", "lane", "reply", "archive"}, 4, {{ann}}), B({"card", "check", "unseal", "archive"}, 4, {{ann}}),
  B({"card", "reply", "delete", "list"}, 3, {{ann, bob}}), B({"card", "unseal", "downgrade", "page"}, 4, {{ann}}),
  B({"card", "delete"}, 3, {{ann, eve}}), B({"attach", "add", "approve", "page"}, 3, {{ann}, {ann, bob}})}

MCLists  == <<"todo", "now", "end">>
MCNameOf == [todo |-> "backlog", now |-> "doing", end |-> "done"]

\* One request at a time
MCInTurn == {B({"add", "approve", "downgrade"}, 3, {{ann, bob}})}

MCSym == Permutations(Reqs)
=============================================================================
