----------------------------- MODULE MCHostedMcp -----------------------------
(***************************************************************************)
(* Two isolates, two requests in flight, and mixes of what clients do.     *)
(***************************************************************************)
EXTENDS HostedMcp

Told(t, args) == [tool |-> t, args |-> args, key |-> FALSE, board |-> Absent, thread |-> Absent,
                  flat |-> <<>>, bundle |-> <<>>]
On(x, i)  == [i EXCEPT !.board = IF x = "plan" THEN x ELSE Absent, !.thread = IF x # "plan" THEN x ELSE "card"]
Keyed(i)  == [i EXCEPT !.key = TRUE]
Words     == [text |-> TRUE]
Files(k)  == [files |-> k]

MCTaskInfo == [
  answer |-> Keyed(On("mine", [Told("reply_to_thread", {"bundle"}) EXCEPT !.bundle = Files({"inline"})])),
  todo   |-> Keyed([Told("create_card", {"title"}) EXCEPT !.board = "plan"]),
  move   |-> On("plan", Told("set_lane", {"lane_id"})),
  tick   |-> On("plan", Told("set_checklist_item", {})),
  learn  |-> On("plan", Told("add_learning", {"notes"})),
  hello  |-> On("mine", Told("publish_handshake", {})),
  hi     |-> Told("publish_handshake", {"recipient"}),
  draft  |-> [Told("forward_draft", {"recipient"}) EXCEPT !.board = "plan", !.flat = Words, !.bundle = Files({"label"})],
  path   |-> [Told("forward_draft", {"recipient"}) EXCEPT !.flat = Files({"path"}), !.bundle = Words],
  empty  |-> Told("forward_draft", {"recipient"}),
  pry    |-> On("other", Told("get_thread", {})),
  end    |-> On("mine", Told("close_thread", {})),
  inbox  |-> Told("list_threads", {}),
  people |-> Told("list_contacts", {}),
  alive  |-> Told("health", {})]

MCMailInfo == [
  mine  |-> [agents |-> {}, slugs |-> {"chatgpt"}, all |-> FALSE],
  other |-> [agents |-> {<<"ann", "claude">>}, slugs |-> {}, all |-> FALSE],
  card  |-> [agents |-> {<<"ann", "chatgpt">>}, slugs |-> {}, all |-> FALSE]]

\* Access tokens for this server's path, for the hub, and for something else; a key.
MCTokenInfo == [
  ann  |-> [kind |-> "jwt", sub |-> "ann", aud |-> <<"here", "mcp">>, iss |-> "auth", slug |-> Absent],
  bob  |-> [kind |-> "jwt", sub |-> "bob", aud |-> <<"hub">>, iss |-> "alias", slug |-> Absent],
  game |-> [kind |-> "jwt", sub |-> "ann", aud |-> <<"game">>, iss |-> "auth", slug |-> Absent],
  grok |-> [kind |-> "key", sub |-> "ann", aud |-> Absent, iss |-> Absent, slug |-> "claude"]]
MCConfig == [hub |-> <<"hub">>, mcp |-> {<<"here">>}, issuers |-> {"auth", "alias"}, slug |-> "chatgpt"]

Bearer(t) == [own |-> Absent, bearer |-> t, slug |-> Absent]
Ann       == {Bearer("ann")}
Both      == {Bearer("ann"), Bearer("bob")}
Strangers     == {Bearer("game"), Bearer(Absent), [own |-> "grok", bearer |-> "bob", slug |-> Absent]}

\* Operations, isolates that serve, headers clients show, and what a POST may carry
S(ops, isos, shown, batches) == [ops |-> ops, isos |-> isos, shown |-> shown, batches |-> batches, sealed |-> {}]
Sealed(s, X) == [s EXCEPT !.sealed = X]
Nothing == {<<>>}

MCScopes == {
  S({"initialize", "open", "end"}, {"east", "west"}, Ann, Nothing),
  S({"initialize", "open", "recycle"}, {"east", "west"}, Ann, Nothing),
  S({"initialize", "open", "age"}, {"east"}, Ann, Nothing),
  S({"initialize", "call", "end"}, {"east", "west"}, Both, Nothing),
  S({"initialize", "call", "end", "recycle", "age"}, {"east", "west"}, Ann, Nothing),
  S({"initialize", "call", "void"}, {"east"}, Strangers, {<<>>, <<"pry">>}),
  S({"call", "recycle"}, {"east"}, Ann, {<<"answer", "todo">>}),
  S({"call", "recycle"}, {"east"}, Ann, {<<"hello", "hi">>}),
  S({"call", "recycle"}, {"east"}, Ann, {<<"people", "end">>}),
  S({"call"}, {"east"}, Ann, {<<"path", "alive", "empty", "tick", "inbox">>}),
  Sealed(S({"call", "hub"}, {"east"}, Ann, {<<"move">>, <<"answer">>}), {"plan", "mine"}),
  Sealed(S({"call", "hub"}, {"east"}, Ann, {<<"draft">>, <<"learn">>, <<"pry">>}), {"plan"})}
=============================================================================
