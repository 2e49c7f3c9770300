----------------------------- MODULE MCWebSite ------------------------------
(* Small instances of WebSite: a group of pages and their forms at a time. *)
EXTENDS WebSite

CONSTANTS t1, t2, none

MCTabs == {t1, t2}
Scope(go, do, left, trouble, as, incoming) ==
  [go |-> go, do |-> do, left |-> left, trouble |-> trouble, missed |-> 0, as |-> as, incoming |-> incoming]

MCScopes ==
  { Scope({"dashboard", "signup", "create", "join", "login"}, {"create", "join", "sign out"}, 4, 2, "none", {}),
    Scope({"contacts"}, {"issue", "rotate", "sign out"}, 4, 2, "member", {}),
    Scope({"contacts"}, {"ask", "approve", "deny", "unpair", "asked"}, 4, 1, "member", {1, 2}),
    Scope({"connectors"}, {"mint", "revoke"}, 5, 2, "member", {}),
    Scope({"invites", "dashboard"}, {"slug", "invite"}, 4, 2, "admin", {}),
    Scope({"profile", "contacts"}, {"profile", "sign out"}, 4, 2, "member", {}),
    Scope({"ops"}, {"refresh", "verify", "publish", "suspend", "topup", "role"}, 5, 1, "member", {}),
    Scope({"download", "waitlist", "home"}, {"wait"}, 5, 1, "none", {}) }
=============================================================================
