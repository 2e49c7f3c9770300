------------------------------ MODULE WebForms ------------------------------
(***************************************************************************)
(* The forms of the web site: what a page offers, the server action behind *)
(* it, and what the page makes of the answer (web/src/app/actions.ts,      *)
(* web/src/components).                                                    *)
(*                                                                         *)
(* An action asks for the session, then the hub, which decides and writes  *)
(* in one step and answers in another.  The page is not rendered again by  *)
(* itself: a component asks for that with router.refresh, in an effect     *)
(* that runs when the text it shows for success changes, and so not when   *)
(* the same text comes a second time.  The hub answers ok to some calls    *)
(* that find nothing to do (hub/store): the revocation of a revoked key, a *)
(* request to who has one pending, the name the organization has.          *)
(***************************************************************************)
EXTENDS WebPages

Pairing == {"issue", "rotate", "ask", "approve", "deny", "unpair"}
Listing == {"verify", "publish", "suspend"}

\* The place an action's sign-in comes back to.
BackTo(f) ==
  CASE f \in Pairing -> "contacts"
    [] f \in {"mint", "revoke"} -> "connectors"
    [] f = "slug" -> "invites"
    [] f = "profile" -> "profile"
    [] f \in Listing \cup {"refresh", "topup"} -> "ops"
    [] f \in {"invite", "create", "join"} -> "signup"

\* The forms of each component, as its page was given rows and it remembers some.
PinForms(v)      == {<<IF v.pin = 0 THEN "issue" ELSE "rotate", Absent>>}
RequestForms     == {"ask"} \X {"new", "same"}    \* same: who has a request of the person's pending
IncomingForms(v) == {"approve", "deny"} \X v.incoming
ExternalForms(v) == {"unpair"} \X v.links
RevokeForms(r)   == {"revoke"} \X Listed(r.parts, r.view)
MintForms(r)     == IF Cardinality(Listed(r.parts, r.view)) < MaxKeys THEN {<<"mint", Absent>>} ELSE {}
SlugForms        == {"slug"} \X {"new", "same"}   \* same: the name the organization has
InviteForms      == {"invite"} \X {"mail", "link"}
ProfileForms     == {<<"profile", Absent>>}
CreateForms      == {<<"create", Absent>>}
JoinForms        == {<<"join", Absent>>}
WaitForms(r)     == IF r.parts.oks = {} THEN {"wait"} \X {"person", "bot"} ELSE {}

ListingForm == [draft |-> "verify", verified |-> "publish", published |-> "suspend"]
ListingForms(v) == {<<ListingForm[l], Absent>> : l \in {v.listing} \cap DOMAIN ListingForm}
OpsForms        == {<<"refresh", Absent>>, <<"topup", Absent>>}

Offers(r) ==
  CASE r.page = "contacts"   -> PinForms(r.view) \cup RequestForms \cup IncomingForms(r.view)
                                  \cup ExternalForms(r.view)
    [] r.page = "connectors" -> MintForms(r) \cup RevokeForms(r)
    [] r.page = "invites"    -> SlugForms \cup InviteForms
    [] r.page = "profile"    -> ProfileForms
    [] r.page = "create"     -> CreateForms
    [] r.page = "join"       -> JoinForms
    [] r.page = "ops"        -> OpsForms \cup ListingForms(r.view)
    [] r.page \in {"waitlist", "alpha"} -> WaitForms(r)
    [] OTHER -> {}

Submit(t) ==
  \E o \in Offers(tab[t]) :
    /\ At(t, "rest") /\ o[1] \in scope.do /\ Happens
    /\ Becomes(t, [tab[t] EXCEPT !.pc = IF o[1] = "wait" THEN "call" ELSE "act",
                                 !.call = [form |-> o[1], arg |-> o[2], row |-> Absent]])
    /\ UNCHANGED pageVars

\* "Done" under the secret of a minted key
Dismiss(t) ==
  LET r == tab[t] IN
  /\ At(t, "rest") /\ r.page = "connectors" /\ Revealed(r.parts, r.view)
  /\ "mint" \in scope.do /\ Happens
  /\ Becomes(t, [r EXCEPT !.parts.hidden = TRUE])
  /\ UNCHANGED pageVars

ActSession(t) ==
  /\ At(t, "act")
  /\ Becomes(t, IF cookie.in THEN [tab[t] EXCEPT !.pc = "call"]
                ELSE SignsIn(BackTo(tab[t].call.form)))
  /\ UNCHANGED <<pageVars, scope>>

-----------------------------------------------------------------------------
(* What the hub does with a call *)

\* The hub may refuse these for what was typed, or for another's sake.
Picky == {"ask", "approve", "slug", "profile", "create", "join", "topup", "verify"}
OpsForm(f) == f \in Listing \cup {"refresh", "topup"}

\* MUTANT: a request that was denied or approved before is approved
AcceptsLate(f, a) ==
  /\ f = "deny" => a \in hub.incoming
  /\ f = "unpair" => a \in hub.links
  /\ f = "revoke" => a \in hub.keys \cup hub.gone
  /\ f = "mint" => Cardinality(hub.keys) < MaxKeys
  /\ f \in {"create", "join"} => account = "none"
  /\ f = "publish" => hub.listing \in {"verified", "published"}
  /\ OpsForm(f) => cookie.token

Accepts(f, a) ==
  /\ f \in {"approve", "deny"} => a \in hub.incoming
  /\ f = "unpair" => a \in hub.links
  /\ f = "revoke" => a \in hub.keys \cup hub.gone
  /\ f = "mint" => Cardinality(hub.keys) < MaxKeys
  /\ f \in {"create", "join"} => account = "none"
  /\ f = "publish" => hub.listing \in {"verified", "published"}
  /\ OpsForm(f) => cookie.token

ListingDone(f) ==
  CASE f = "verify"  -> IF hub.listing = "draft" THEN "verified" ELSE hub.listing
    [] f = "publish" -> "published"
    [] f = "suspend" -> "suspended"

\* What the hub may answer with: the new PIN, the row the form is about, the listing,
\* a new number; or what is there already.
RowForms == {"approve", "deny", "unpair", "revoke"}
Made(f, a) ==
  CASE f \in {"issue", "rotate"}  -> {hub.pin + 1}
    [] f = "ask" /\ a = "same"    -> hub.asks
    [] f = "slug" /\ a = "same"   -> {hub.slug}
    [] f \in RowForms             -> {a}
    [] f = "refresh"              -> {hub.listing}
    [] f \in Listing              -> {ListingDone(f)}
    [] OTHER                      -> {hub.next}

\* The rows after a form has made n of them; what was there already changes nothing.
After(n) == IF n = hub.next THEN n + 1 ELSE hub.next
PairingDone(f, n) ==
  CASE f \in {"issue", "rotate"} -> [hub EXCEPT !.pin = n]
    [] f = "ask"     -> [hub EXCEPT !.asks = @ \cup {n}, !.next = After(n)]
    [] f = "approve" -> [hub EXCEPT !.incoming = @ \ {n}, !.links = @ \cup {n}]
    [] f = "deny"    -> [hub EXCEPT !.incoming = @ \ {n}]
    [] f = "unpair"  -> [hub EXCEPT !.links = @ \ {n}, !.gone = @ \cup {n}]
NewHub(f, n) ==
  CASE f \in Pairing -> PairingDone(f, n)
    [] f = "mint"    -> [hub EXCEPT !.keys = @ \cup {n}, !.next = After(n)]
    [] f = "revoke"  -> [hub EXCEPT !.keys = @ \ {n}, !.gone = @ \cup {n}]
    [] f = "invite"  -> [hub EXCEPT !.invites = @ \cup {n}, !.next = After(n)]
    [] f = "slug"    -> [hub EXCEPT !.slug = n, !.next = After(n)]
    [] f \in Listing -> [hub EXCEPT !.listing = n]
    [] OTHER -> hub
JoinsAs(f) == CASE f = "create" -> "admin" [] f = "join" -> "member" [] OTHER -> account

Commits(f, n) ==
  /\ hub' = NewHub(f, n)
  /\ account' = JoinsAs(f)
  /\ UNCHANGED <<seeded, granted, cookie, unlocked, told>>

-----------------------------------------------------------------------------
(* What the page makes of the answer *)

\* The forms a component answers for in one text; the first that has one gives it.
Texts(f) ==
  CASE f \in {"issue", "rotate"} -> <<"issue", "rotate">>
    [] f \in {"approve", "deny"} -> <<"approve", "deny">>
    [] OTHER -> <<f, f>>
TextOf(oks, f, k) ==
  LET first == Texts(f)[1]  second == Texts(f)[2]
  IN IF <<first, k>> \in oks THEN first ELSE IF <<second, k>> \in oks THEN second ELSE Absent

\* A row's form answers for its row.
KeyOf(f, a) == IF f \in RowForms THEN a ELSE Absent

\* MUTANT: the external contacts do not ask for the page again
UnpairForgets == {"issue", "rotate", "ask", "approve", "deny", "mint", "revoke", "slug"}

Refreshing == {"issue", "rotate", "ask", "approve", "deny", "unpair", "mint", "revoke", "slug"}

\* A text is told from none.
ASSUME FormAssumption == Absent \notin Refreshing

\* The effect that asks for the page again.  A minted key's depends on its secret too.
Refreshes(was, is, f, k) ==
  /\ f \in Refreshing /\ TextOf(is, f, k) # Absent
  /\ \/ TextOf(is, f, k) # TextOf(was, f, k)
     \/ f = "mint" /\ <<f, k>> \in is

\* The facts that a page tells of, with the hub's row or number, and shows; who
\* has joined is sent on to the dashboard.
Telling == {"issue", "rotate", "ask", "approve", "deny", "unpair", "mint", "revoke", "slug", "invite"}
Tells(c) == IF c.form \in Telling \cup {"create", "join"} THEN {<<c.form, c.row>>} ELSE {}

\* An answer of success: the invite's shows until the next one.  `again`, history:
\* facts for which the page was not asked again, as the text was the one before.
Learns(parts, f, a, n) ==
  LET k    == KeyOf(f, a)
      oks  == parts.oks \cup {<<f, k>>}
      mine == IF f = "invite" THEN {d \in parts.did : d[1] # f} ELSE parts.did
  IN [parts EXCEPT !.oks = oks,
        !.minted = IF f = "mint" THEN n ELSE @, !.hidden = IF f = "mint" THEN FALSE ELSE @,
        !.code = IF f = "invite" THEN n ELSE @,
        !.did = IF f \in Telling THEN mine \cup {<<f, n>>} ELSE @,
        !.again = IF f \in Refreshing \ {"mint"} /\ TextOf(oks, f, k) = TextOf(parts.oks, f, k)
                  THEN @ \cup {<<f, n>>} ELSE @]

\* An answer of failure takes the place of the last one.
Forgets(parts, f, a) ==
  [parts EXCEPT !.oks = @ \ {<<f, KeyOf(f, a)>>},
     !.minted = IF f = "mint" THEN Absent ELSE @, !.code = IF f = "invite" THEN Absent ELSE @,
     !.did = IF f = "invite" THEN {d \in @ : d[1] # f} ELSE @]

\* The page after an answer: as it is, or asked for again.
Answered(r, parts) ==
  LET f == r.call.form
      s == [r EXCEPT !.pc = "rest", !.parts = parts, !.call = NoCall]
  IN IF Refreshes(r.parts.oks, parts.oks, f, KeyOf(f, r.call.arg)) THEN Asking(s, r.page, TRUE) ELSE s

Fails(r) == Answered(r, Forgets(r.parts, r.call.form, r.call.arg))

\* Success: some forms go on to another page; the operations page takes the row
\* it gets, or the lists.
Succeeds(r) ==
  LET f == r.call.form
      n == r.call.row
      s == Answered(r, Learns(r.parts, f, r.call.arg, n))
  IN CASE f \in {"create", "join"} -> Asking(s, "dashboard", FALSE)
       [] f = "wait" /\ r.page = "alpha" -> Asking(s, "download", FALSE)
       [] f \in Listing /\ r.view.listing # "none" -> [s EXCEPT !.view.listing = n]
       [] f = "refresh" -> [s EXCEPT !.view.listing = n, !.alert = FALSE]
       [] OTHER -> s

\* The call does not reach the hub; the hub, or the action before it, refuses; it is
\* done; or the listings fail of what the operations page is refreshed with.
CallStep(t) ==
  LET r == tab[t]
      f == r.call.form
      a == r.call.arg
      Told(n) == [r EXCEPT !.pc = "answer", !.call.row = n]
  IN /\ At(t, "call") /\ f # "wait"
     /\ \/ Misses /\ Becomes(t, Fails(r)) /\ UNCHANGED pageVars
        \/ /\ ~Accepts(f, a) \/ f \in Picky
           /\ Reaches /\ Becomes(t, Fails(r)) /\ UNCHANGED pageVars
        \/ /\ Accepts(f, a) /\ Reaches
           /\ \E n \in Made(f, a) : Commits(f, n) /\ Becomes(t, Told(n))
        \/ /\ Accepts(f, a) /\ f = "refresh"
           /\ Misses /\ Becomes(t, Told("none")) /\ UNCHANGED pageVars

\* The person is told of it.
Informs(t) ==
  /\ Reaches /\ Becomes(t, Succeeds(tab[t]))
  /\ told' = told \cup Tells(tab[t].call)
  /\ UNCHANGED <<account, hub, seeded, granted, cookie, unlocked>>

\* The answer comes, or is lost; an invite by mail is not told of yet.
ByMail(c) == c.form = "invite" /\ c.arg = "mail"
AnswerStep(t) ==
  LET r == tab[t] IN
  /\ At(t, "answer")
  /\ \/ Misses /\ Becomes(t, Fails(r)) /\ UNCHANGED pageVars
     \/ ~ByMail(r.call) /\ Informs(t)
     \/ ByMail(r.call) /\ Reaches /\ Becomes(t, [r EXCEPT !.pc = "mail"]) /\ UNCHANGED pageVars

\* The waiting list has a route of its own, which asks for no session: what the hub
\* refuses, or who cannot reach it, is told; a person's cookie unlocks the download.
\* A bot gets the same answer, and no place.
WaitStep(t) ==
  LET r == tab[t] IN
  /\ At(t, "call") /\ r.call.form = "wait"
  /\ \/ Misses /\ Becomes(t, Fails(r)) /\ UNCHANGED unlocked
     \/ /\ Reaches /\ Becomes(t, Succeeds(r))
        /\ unlocked' = (unlocked \/ r.call.arg = "person")
  /\ UNCHANGED <<account, hub, seeded, granted, cookie, told>>

\* MUTANT: a mail that is not sent is told as a failure of the action
MailStrict(t) ==
  /\ At(t, "mail")
  /\ \/ Misses /\ Becomes(t, Fails(tab[t])) /\ UNCHANGED pageVars
     \/ Reaches /\ Becomes(t, Fails(tab[t])) /\ UNCHANGED pageVars
     \/ Informs(t)

\* The invite is made; getMe for the name of the organization, then the mail.
\* That the mail fails or is skipped is told beside the link.
MailStep(t) ==
  /\ At(t, "mail")
  /\ \/ Misses /\ Becomes(t, Fails(tab[t])) /\ UNCHANGED pageVars
     \/ Informs(t)

ActStep(t) == ActSession(t) \/ CallStep(t) \/ AnswerStep(t) \/ WaitStep(t) \/ MailStep(t)
=============================================================================
