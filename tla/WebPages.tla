------------------------------ MODULE WebPages ------------------------------
(***************************************************************************)
(* The pages of the web site for one person: which page a tab ends at, and *)
(* what it shows (web/src/proxy.ts, web/src/lib, web/src/app).             *)
(*                                                                         *)
(* A request passes the proxy, then the page, which asks the session       *)
(* cookie, then the hub who this is, then the hub for its lists; each is a *)
(* step, and a redirect starts again at the proxy.  A call to the hub that *)
(* misses (no token, no network, an error of the hub) is taken from the    *)
(* behaviour's share of trouble.  Auth0 is external: who signs in comes    *)
(* back to the place that was asked for.                                   *)
(***************************************************************************)
EXTENDS Naturals, FiniteSets

CONSTANTS
  Tabs,     \* tabs of the person's browser
  MaxKeys,  \* connector keys of a person
  Scopes,   \* BOUND: pages, forms, events and trouble of a behaviour, and how it begins
  Absent    \* nothing

VARIABLES
  account,   \* at the hub: "none" before onboarding, then "member" or "admin"
  hub,       \* at the hub: the person's rows; requests, keys, invites and names count up;
             \* `gone`: keys revoked, contacts removed, requests of the person's denied
  seeded,    \* at the hub: the profile has been filled from Auth0
  granted,   \* at Auth0: the person has the SuperAdmin role
  cookie,    \* the session: signed in, and the roles in its ID and access token
  unlocked,  \* the download cookie
  told,      \* history: every fact that a page has told the person is done
  tab,       \* the tabs
  scope      \* the behaviour's pages, forms, and the events and trouble left

pageVars == <<account, hub, seeded, granted, cookie, unlocked, told>>

Protected == {"signup", "join", "create", "dashboard", "connectors", "invites", "ops"}
Members   == {"dashboard", "connectors", "invites", "ops", "profile", "contacts"}
Entry     == {"signup", "join", "create"}
Open      == {"home", "login", "waitlist", "alpha", "download"}   \* alpha: /waitlist?next=/download
Pages     == Protected \cup Members \cup Open

\* What a page shows of the hub's rows.
Rows    == [pin |-> 0, asks |-> {}, incoming |-> {}, links |-> {}, keys |-> {},
            invites |-> {},
            slug |-> 0, listing |-> "none"]
Lists   == [contacts |-> {"pin", "asks", "incoming", "links"}, connectors |-> {"keys"},
            invites |-> {"invites"}, ops |-> {"listing"}, dashboard |-> {"invites"}]

\* Nothing is no row; who asked before the behaviour begins has the first two.
ASSUME WebAssumption ==
  /\ Absent \notin Nat
  /\ \A s \in Scopes :
       /\ DOMAIN s = {"go", "do", "left", "trouble", "missed", "as", "incoming"}
       /\ s.incoming \subseteq {1, 2} /\ s.left \in Nat /\ s.trouble \in Nat /\ s.missed = 0

Newest(S) == {i \in S : \A j \in S : j <= i}
View(p, ok, me) ==
  [d \in DOMAIN Rows |->
     IF d = "slug" THEN IF p = "invites" THEN me.slug ELSE 0
     ELSE IF ~ok \/ p \notin DOMAIN Lists THEN Rows[d]
     ELSE IF d \notin Lists[p] THEN Rows[d]
     ELSE IF p # "dashboard" THEN hub[d]
     ELSE IF me.account = "admin" THEN Newest(hub[d]) ELSE {}]

\* The state of a page's components when it is mounted.
Mounted == [oks |-> {}, minted |-> Absent, hidden |-> FALSE, seen |-> {}, code |-> Absent,
            did |-> {}, again |-> {}]
NoCall  == [form |-> Absent, arg |-> Absent, row |-> Absent]
Blank   == [page |-> "home", pc |-> "rest", to |-> "home", keep |-> FALSE, me |-> Absent,
            view |-> Rows, alert |-> FALSE, parts |-> Mounted, call |-> NoCall]

At(t, pc) == tab[t].pc = pc
Becomes(t, r) == tab' = [tab EXCEPT ![t] = r]

\* A tab asks for page p; `keep`: router.refresh of the page it shows.
Asking(r, p, keep) ==
  [r EXCEPT !.pc = "proxy", !.to = p, !.keep = keep, !.me = Absent, !.alert = FALSE]

\* The sign-in page of Auth0, with the place to come back to.
SignsIn(back) == [Blank EXCEPT !.page = "auth", !.to = back]

-----------------------------------------------------------------------------
(* Components that combine what the page was given with what they remember. *)

\* ConnectorsPanel: the key minted last heads the list until the page has it;
\* once seen and gone it is gone, and so is its secret.
Listed(parts, view) ==
  view.keys \cup (IF parts.minted \in {Absent} \cup parts.seen THEN {} ELSE {parts.minted})
Revealed(parts, view) ==
  /\ parts.minted # Absent /\ ~parts.hidden
  /\ ~(parts.minted \in parts.seen /\ parts.minted \notin view.keys)

\* InviteAdmin: the invite of the last answer heads the list.
ListedInvites(parts, view) == view.invites \cup ({parts.code} \ {Absent})

\* Rows of a list keep their state as long as they are listed.
Kept(oks, parts, view) ==
  {o \in oks : CASE o[1] \in {"approve", "deny"} -> o[2] \in view.incoming
                [] o[1] = "unpair" -> o[2] \in view.links
                [] o[1] = "revoke" -> o[2] \in Listed(parts, view)
                [] OTHER -> TRUE}

\* The page is rendered: for the first time, or again with its components.
Shown(r, p, view, alert) ==
  LET was   == IF r.keep /\ r.page = p THEN r.parts ELSE Mounted
      parts == [was EXCEPT !.seen = @ \cup view.keys, !.again = {}]
  IN [r EXCEPT !.page = p, !.pc = "rest", !.me = Absent, !.view = view, !.alert = alert,
               !.parts = [parts EXCEPT !.oks = Kept(@, parts, view)]]

-----------------------------------------------------------------------------
(* The steps of a request *)

\* proxy: who is not signed in is sent to sign in first.
Proxy(t) ==
  /\ At(t, "proxy")
  /\ Becomes(t, IF tab[t].to \in Protected /\ ~cookie.in THEN SignsIn(tab[t].to)
                ELSE [tab[t] EXCEPT !.pc = "page"])
  /\ UNCHANGED <<pageVars, scope>>

\* requireSession names the place to come back to; members' pages do not say theirs.
\* Nothing on the site leads to /login with a returnTo of its own (the header links to
\* it plainly, Auth0's sign-in is another path), so who is signed in goes on to the
\* dashboard.
ReturnTo(p) == IF p = "join" THEN "join" ELSE "signup"

PageSession(t) ==
  LET r == tab[t] IN
  /\ At(t, "page")
  /\ Becomes(t,
       CASE r.to = "login" /\ cookie.in -> Asking(r, "dashboard", FALSE)
         [] r.to \in {"waitlist", "alpha"} /\ unlocked -> Asking(r, "download", FALSE)
         [] r.to = "download" /\ ~unlocked -> Asking(r, "alpha", FALSE)
         [] r.to \in Protected \cup Members /\ ~cookie.in -> SignsIn(ReturnTo(r.to))
         [] r.to \in Protected \cup Members /\ cookie.in -> [r EXCEPT !.pc = "me"]
         [] OTHER -> Shown(r, r.to, Rows, FALSE))
  /\ UNCHANGED <<pageVars, scope>>

\* A call reaches the hub, or it does not.
Reaches == UNCHANGED scope
Misses  == scope.trouble > 0 /\ scope' = [scope EXCEPT !.trouble = @ - 1, !.missed = @ + 1]

\* MUTANT: who gets an answer of the hub is sent on to the dashboard
EntryEager(r) == Asking(r, "dashboard", FALSE)

\* getMe.  Entry pages send members on and show an alert when the hub is down, or
\* was when they were sent there (hub_error); members' pages send everybody else,
\* and everybody when it is down, to /signup.
EntryWithMe(r) == IF account = "none" THEN Shown(r, r.to, Rows, r.alert) ELSE Asking(r, "dashboard", FALSE)
EntryDown(r)   == Shown(r, r.to, Rows, TRUE)
MemberWithMe(r) ==
  IF account = "none" THEN Asking(r, "signup", FALSE)
  ELSE [r EXCEPT !.pc = IF seeded THEN "load" ELSE "seed", !.me = [account |-> account, slug |-> hub.slug]]
MemberDown(r)  == [Asking(r, "signup", FALSE) EXCEPT !.alert = TRUE]

PageMe(t) ==
  LET r == tab[t] IN
  /\ At(t, "me")
  /\ \/ Misses  /\ Becomes(t, IF r.to \in Entry THEN EntryDown(r) ELSE MemberDown(r))
     \/ Reaches /\ Becomes(t, IF r.to \in Entry THEN EntryWithMe(r) ELSE MemberWithMe(r))
  /\ UNCHANGED pageVars

\* seedMeFromAuth0Session: tried on every page until it works, never in the way.
PageSeed(t) ==
  /\ At(t, "seed")
  /\ \/ Misses /\ UNCHANGED seeded
     \/ Reaches /\ seeded' = TRUE
  /\ Becomes(t, [tab[t] EXCEPT !.pc = "load"])
  /\ UNCHANGED <<account, hub, granted, cookie, unlocked, told>>

\* isOrgAdmin of the row read before; sessionShowsOps: the hub's word, which is
\* the access token's, or the roles the session kept from the ID token.
MayEnter(p, me) ==
  /\ p = "invites" => me.account = "admin"
  /\ p = "ops" => cookie.token \/ cookie.saved

\* The lists of a page: all or an alert.  The operations page shows none when the
\* hub refuses it; listings that fail alone are shown as none, and the dashboard
\* has no link of an invite when only the invites fail.
HubShows(p) == p = "ops" => cookie.token

PageLoad(t) ==
  LET r == tab[t]
      V(ok) == View(r.to, ok, r.me)
  IN /\ At(t, "load")
     /\ \/ /\ ~MayEnter(r.to, r.me)
           /\ Reaches /\ Becomes(t, Asking(r, "dashboard", FALSE))
        \/ /\ MayEnter(r.to, r.me)
           /\ Reaches /\ Becomes(t, Shown(r, r.to, V(HubShows(r.to)), ~HubShows(r.to)))
        \/ /\ MayEnter(r.to, r.me) /\ r.to \in DOMAIN Lists
           /\ Misses /\ Becomes(t, Shown(r, r.to, V(FALSE), TRUE))
        \/ /\ MayEnter(r.to, r.me) /\ r.to \in {"ops", "dashboard"} /\ HubShows(r.to)
           /\ Misses /\ Becomes(t, Shown(r, r.to, V(FALSE), FALSE))
     /\ UNCHANGED pageVars

PageStep(t) == Proxy(t) \/ PageSession(t) \/ PageMe(t) \/ PageSeed(t) \/ PageLoad(t)

-----------------------------------------------------------------------------
(* The person and the world *)

Happens == scope.left > 0 /\ scope' = [scope EXCEPT !.left = @ - 1]

Visit(t, p) ==
  /\ At(t, "rest") /\ p \in scope.go /\ Happens
  /\ Becomes(t, Asking(tab[t], p, FALSE))
  /\ UNCHANGED pageVars

\* Auth0, then the callback: beforeSessionSaved keeps the roles of the ID token.
SignIn(t) ==
  /\ tab[t].page = "auth" /\ At(t, "rest") /\ Happens
  /\ cookie' = [in |-> TRUE, saved |-> granted, token |-> granted]
  /\ Becomes(t, Asking(tab[t], tab[t].to, FALSE))
  /\ UNCHANGED <<account, hub, seeded, granted, unlocked, told>>

\* The session ends, in another tab or by itself; its access token is renewed;
\* somebody asks to pair, or answers a request of the person's.
World ==
  /\ Happens
  /\ UNCHANGED <<account, seeded, unlocked, told, tab>>
  /\ \/ /\ "sign out" \in scope.do /\ cookie.in
        /\ cookie' = [in |-> FALSE, saved |-> FALSE, token |-> FALSE]
        /\ UNCHANGED <<hub, granted>>
     \/ /\ "role" \in scope.do
        /\ granted' = ~granted
        /\ UNCHANGED <<hub, cookie>>
     \/ /\ "role" \in scope.do /\ cookie.in
        /\ cookie' = [cookie EXCEPT !.token = granted]
        /\ UNCHANGED <<hub, granted>>
     \/ /\ "asked" \in scope.do
        /\ \/ hub' = [hub EXCEPT !.incoming = @ \cup {hub.next}, !.next = @ + 1]
           \/ \E i \in hub.asks : hub' = [hub EXCEPT !.asks = @ \ {i}, !.links = @ \cup {i}]
           \/ \E i \in hub.asks : hub' = [hub EXCEPT !.asks = @ \ {i}, !.gone = @ \cup {i}]
        /\ UNCHANGED <<granted, cookie>>

InitPages ==
  /\ scope \in Scopes
  /\ account = scope.as
  /\ hub = [pin |-> 0, asks |-> {}, incoming |-> scope.incoming, links |-> {}, keys |-> {},
            invites |-> {}, gone |-> {}, slug |-> 0, listing |-> "draft", next |-> 3]
  /\ seeded \in BOOLEAN
  /\ granted = ("role" \in scope.do)
  /\ cookie \in {[in |-> FALSE, saved |-> FALSE, token |-> FALSE],
                 [in |-> TRUE, saved |-> granted, token |-> granted]}
  /\ unlocked = FALSE /\ told = {}
  /\ tab = [t \in Tabs |-> Blank]
=============================================================================
