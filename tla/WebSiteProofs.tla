---------------------------- MODULE WebSiteProofs ----------------------------
(***************************************************************************)
(* What the pages of the web site show and tell, for any number of tabs    *)
(* and any rows of the hub.                                                *)
(*                                                                         *)
(* ShowsWhatItDid compares a page at rest with the hub, but a page is put  *)
(* together in several steps, while other tabs change the rows.  SiteInv   *)
(* says of each of these steps what is needed of the next: what was told   *)
(* stays so at the hub, because ids are given out once (Done); a page that *)
(* loads again keeps its components and has not read anything older than   *)
(* what they told; and a page that is up shows it (Visible).               *)
(*                                                                         *)
(* ToldWhatHappened counts rows of the hub against calls that failed, so   *)
(* WordInv, which rests on SiteInv, says which row each call under way has *)
(* made: a row is told of, or its call goes on, or that call has failed.   *)
(***************************************************************************)
EXTENDS WebSite, FiniteSetTheorems, TLAPS

-----------------------------------------------------------------------------
(* What is said of the hub, of a page's rows and of a tab *)

Loading == {"proxy", "page", "me", "seed", "load"}
Acting  == {"act", "call", "answer", "mail"}

\* The page a form that tells of something is on.
HomeOf(f) ==
  IF f \in Pairing THEN "contacts" ELSE IF f \in {"mint", "revoke"} THEN "connectors" ELSE "invites"

HubRow == [pin: Nat, asks: SUBSET Nat, incoming: SUBSET Nat, links: SUBSET Nat, keys: SUBSET Nat,
           invites: SUBSET Nat, gone: SUBSET Nat, slug: Nat, listing: {"draft", "verified", "published", "suspended"}, next: Nat]

\* Ids are given out once, and a contact is asked for, asking or linked, one at a time.
HubInv(h) ==
  /\ h \in HubRow
  /\ h.slug < h.next
  /\ \A x \in h.asks \cup h.incoming \cup h.links \cup h.keys \cup h.gone : x < h.next
  /\ h.asks \cap h.incoming = {} /\ h.asks \cap h.links = {} /\ h.incoming \cap h.links = {}

\* From h to g nothing that is gone returns, nothing but new ids comes, and nothing is
\* lost but into what is gone.
Onward(h, g) ==
  /\ h.pin <= g.pin /\ h.slug <= g.slug /\ h.next <= g.next
  /\ \A x \in Nat : x < h.next =>
       /\ x \in g.asks => x \in h.asks
       /\ x \in g.incoming => x \in h.incoming
       /\ x \in g.links => x \in h.links \cup h.asks \cup h.incoming
       /\ x \in g.keys => x \in h.keys
  /\ h.asks \subseteq g.asks \cup g.links \cup g.gone
  /\ h.links \subseteq g.links \cup g.gone /\ h.keys \subseteq g.keys \cup g.gone
  /\ h.gone \subseteq g.gone /\ h.invites \subseteq g.invites

\* What was told is so at the hub, for good.
Done(h, d) ==
  LET f == d[1]
      x == d[2]
  IN /\ x \in Nat
     /\ f \in {"issue", "rotate"} => x <= h.pin
     /\ f = "slug" => x <= h.slug
     /\ f \in {"ask", "approve", "deny", "unpair", "mint", "revoke"} => x < h.next
     /\ f = "ask" => x \in h.asks \cup h.links \cup h.gone
     /\ f \in {"approve", "deny", "unpair"} => x \notin h.incoming /\ x \notin h.asks
     /\ f = "approve" => x \in h.links \cup h.gone
     /\ f \in {"deny", "unpair"} => x \notin h.links
     /\ f = "mint" => x \in h.keys \cup h.gone
     /\ f = "revoke" => x \notin h.keys
     /\ f = "invite" => x \in h.invites

\* What was told shows in a page's rows, but for what others did since.
Visible(h, v, d) ==
  LET f == d[1]
      x == d[2]
  IN /\ f \in {"issue", "rotate"} => x <= v.pin
     /\ f = "slug" => x <= v.slug
     /\ f = "ask" => x \in v.asks \/ x \notin h.asks
     /\ f \in {"approve", "deny"} => x \notin v.incoming
     /\ f = "approve" => x \in v.links \/ x \notin h.links
     /\ f = "unpair" => x \notin v.links
     /\ f = "mint" => x \in v.keys \/ x \notin h.keys
     /\ f = "revoke" => x \notin v.keys

\* A page remembers only what its own forms told, and what was so at the hub.
Known(h, page, parts, d) ==
  /\ d[1] \in Telling /\ page = HomeOf(d[1]) /\ Done(h, d)
  /\ d[1] = "invite" => parts.code = d[2]

\* The form of a page that is acting is one of the page's.
Placed(f, page) ==
  /\ f \in Telling => page = HomeOf(f)
  /\ f = "refresh" => page = "ops"

\* A tab is a record, and so are the parts of its page.
Fields == {"pin", "asks", "incoming", "links", "keys", "invites", "slug", "listing"}
Formed(r) ==
  /\ DOMAIN r = {"page", "pc", "to", "keep", "me", "view", "alert", "parts", "call"}
  /\ DOMAIN r.parts = {"oks", "minted", "hidden", "seen", "code", "did", "again"}
  /\ DOMAIN r.view = Fields /\ DOMAIN r.call = {"form", "arg", "row"}
  /\ r.keep \in BOOLEAN /\ r.alert \in BOOLEAN

\* What each step of loading and of acting leaves to the next: a page that loads again
\* is the same page, `me` is not older than the name it was told of, and a page that
\* is up shows what it remembers.
TabInv(h, r) ==
  /\ Formed(r)
  /\ \A d \in r.parts.did : Known(h, r.page, r.parts, d)
  /\ r.pc \in Loading /\ r.keep => r.to = r.page
  /\ r.pc \in {"seed", "load"} /\ r.keep => \A d \in r.parts.did : d[1] = "slug" => d[2] <= r.me.slug
  /\ r.pc \notin Loading /\ ~r.alert =>
       \A d \in r.parts.did : d \in r.parts.again \/ Visible(h, r.view, d)
  /\ r.pc \in Acting => Placed(r.call.form, r.page)
  /\ r.pc \in {"answer", "mail"} /\ r.call.form \in Telling => Done(h, <<r.call.form, r.call.row>>)
  /\ r.pc = "mail" => r.call.form = "invite"

\* A tab whose call is under way.
Busy(h, r) ==
  /\ Formed(r) /\ r.pc \in {"call", "answer", "mail"} /\ Placed(r.call.form, r.page)
  /\ \A d \in r.parts.did : Known(h, r.page, r.parts, d)
  /\ ~r.alert => \A d \in r.parts.did : d \in r.parts.again \/ Visible(h, r.view, d)

\* The hub's rows, and every tab against them.
SiteInv == HubInv(hub) /\ DOMAIN tab = Tabs /\ \A t \in Tabs : TabInv(hub, tab[t])

-----------------------------------------------------------------------------
(* The hub moves on *)

\* A hub row, said field by field; rows stay rows when fields are set.
HubFields(h) ==
  /\ h.pin \in Nat /\ h.slug \in Nat /\ h.next \in Nat
  /\ h.asks \subseteq Nat /\ h.incoming \subseteq Nat /\ h.links \subseteq Nat
  /\ h.keys \subseteq Nat /\ h.invites \subseteq Nat /\ h.gone \subseteq Nat

LEMMA RowType ==
  ASSUME NEW h \in HubRow
  PROVE  /\ \A v \in Nat : [h EXCEPT !.pin = v] \in HubRow /\ [h EXCEPT !.slug = v] \in HubRow
         /\ \A v \in Nat : [h EXCEPT !.next = v] \in HubRow
         /\ \A v \in SUBSET Nat : [h EXCEPT !.asks = v] \in HubRow /\ [h EXCEPT !.incoming = v] \in HubRow
         /\ \A v \in SUBSET Nat : [h EXCEPT !.links = v] \in HubRow /\ [h EXCEPT !.keys = v] \in HubRow
         /\ \A v \in SUBSET Nat : [h EXCEPT !.invites = v] \in HubRow /\ [h EXCEPT !.gone = v] \in HubRow
         /\ \A v \in {"draft", "verified", "published", "suspended"} : [h EXCEPT !.listing = v] \in HubRow
BY DEF HubRow

LEMMA RowTypes ==
  ASSUME NEW h \in HubRow
  PROVE  /\ \A v \in SUBSET Nat, n \in Nat : [h EXCEPT !.asks = v, !.next = n] \in HubRow
         /\ \A v \in SUBSET Nat, n \in Nat : [h EXCEPT !.incoming = v, !.next = n] \in HubRow
         /\ \A v \in SUBSET Nat, n \in Nat : [h EXCEPT !.keys = v, !.next = n] \in HubRow
         /\ \A v \in SUBSET Nat, n \in Nat : [h EXCEPT !.invites = v, !.next = n] \in HubRow
         /\ \A v \in Nat, n \in Nat : [h EXCEPT !.slug = v, !.next = n] \in HubRow
         /\ \A v, w \in SUBSET Nat : [h EXCEPT !.incoming = v, !.links = w] \in HubRow
         /\ \A v, w \in SUBSET Nat : [h EXCEPT !.asks = v, !.links = w] \in HubRow
         /\ \A v, w \in SUBSET Nat : [h EXCEPT !.asks = v, !.gone = w] \in HubRow
         /\ \A v, w \in SUBSET Nat : [h EXCEPT !.links = v, !.gone = w] \in HubRow
         /\ \A v, w \in SUBSET Nat : [h EXCEPT !.keys = v, !.gone = w] \in HubRow
<1>1. \A k \in HubRow : /\ \A n \in Nat : [k EXCEPT !.next = n] \in HubRow
                         /\ \A w \in SUBSET Nat : [k EXCEPT !.links = w] \in HubRow
                         /\ \A x \in SUBSET Nat : [k EXCEPT !.gone = x] \in HubRow
  BY RowType
<1> QED
  BY <1>1, RowType

LEMMA HubTyped ==
  ASSUME NEW h, HubInv(h)
  PROVE  h \in HubRow /\ HubFields(h)
BY DEF HubInv, HubRow, HubFields

\* What was told stays so, and stays shown.
LEMMA StaysDone ==
  ASSUME NEW h, NEW g, HubInv(h), HubInv(g), Onward(h, g), NEW d, Done(h, d)
  PROVE  Done(g, d)
<1>1. d[2] \in Nat
  BY DEF Done
<1>2. h.pin \in Nat /\ g.pin \in Nat /\ h.slug \in Nat /\ g.slug \in Nat /\ h.next \in Nat /\ g.next \in Nat
  BY DEF HubInv, HubRow
<1> QED
  BY <1>1, <1>2 DEF Done, Onward

LEMMA StaysKnown ==
  ASSUME NEW h, NEW g, HubInv(h), HubInv(g), Onward(h, g), NEW page, NEW parts, NEW d, Known(h, page, parts, d)
  PROVE  Known(g, page, parts, d)
BY StaysDone DEF Known

LEMMA StaysVisible ==
  ASSUME NEW h, NEW g, Onward(h, g), NEW v, NEW d, Done(h, d), Visible(h, v, d)
  PROVE  Visible(g, v, d)
BY DEF Done, Visible, Onward

LEMMA TabStays ==
  ASSUME NEW h, NEW g, HubInv(h), HubInv(g), Onward(h, g), NEW r, TabInv(h, r)
  PROVE  TabInv(g, r)
<1>1. \A d \in r.parts.did : Known(g, r.page, r.parts, d) /\ Done(h, d)
  BY StaysKnown DEF TabInv, Known
<1>2. \A d \in r.parts.did : Visible(h, r.view, d) => Visible(g, r.view, d)
  BY <1>1, StaysVisible
<1>3. \A d : Done(h, d) => Done(g, d)
  BY StaysDone
<1> QED
  BY <1>1, <1>2, <1>3 DEF TabInv

\* Tab t becomes r while the hub moves on.
LEMMA TabMoves ==
  ASSUME SiteInv, NEW t \in Tabs, NEW r, Becomes(t, r), HubInv(hub'), Onward(hub, hub'), TabInv(hub', r)
  PROVE  SiteInv'
<1>1. DOMAIN tab' = Tabs /\ tab'[t] = r /\ \A u \in Tabs \ {t} : tab'[u] = tab[u]
  BY DEF SiteInv, Becomes
<1>2. \A u \in Tabs : TabInv(hub', tab[u])
  BY TabStays DEF SiteInv
<1>3. \A u \in Tabs : TabInv(hub', tab'[u])
  BY <1>1, <1>2
<1> QED
  BY <1>1, <1>3 DEF SiteInv

LEMMA HubRests ==
  ASSUME NEW h, HubInv(h)
  PROVE  Onward(h, h)
BY DEF HubInv, HubRow, Onward

LEMMA TabMovesAlone ==
  ASSUME SiteInv, NEW t \in Tabs, NEW r, Becomes(t, r), UNCHANGED hub, TabInv(hub, r)
  PROVE  SiteInv'
<1>1. HubInv(hub') /\ Onward(hub, hub') /\ TabInv(hub', r)
  BY HubRests DEF SiteInv
<1> QED
  BY <1>1, TabMoves

-----------------------------------------------------------------------------
(* What the steps make of a tab *)

LEMMA AskingKept ==
  ASSUME NEW h, NEW r, Formed(r), \A d \in r.parts.did : Known(h, r.page, r.parts, d),
         NEW p, NEW keep \in BOOLEAN, keep => p = r.page
  PROVE  TabInv(h, Asking(r, p, keep))
<1> DEFINE s == Asking(r, p, keep)
<1>1. /\ s.pc = "proxy" /\ s.to = p /\ s.keep = keep /\ s.alert = FALSE
      /\ s.page = r.page /\ s.parts = r.parts /\ s.view = r.view
  BY DEF Asking, Formed
<1>2. Formed(s)
  BY <1>1 DEF Asking, Formed
<1> HIDE DEF s
<1>3. TabInv(h, s)
  BY <1>1, <1>2 DEF TabInv, Loading, Acting
<1> QED
  BY <1>3 DEF s

LEMMA SignsInKept ==
  ASSUME NEW h, NEW back
  PROVE  TabInv(h, SignsIn(back))
<1> DEFINE s == SignsIn(back)
<1>1. s.pc = "rest" /\ s.keep = FALSE /\ s.alert = FALSE /\ s.view = Rows /\ s.parts = Mounted
  BY DEF SignsIn, Blank
<1>2. Formed(s) /\ s.parts.did = {}
  BY <1>1 DEF SignsIn, Blank, Formed, Mounted, Rows, Fields, NoCall
<1> HIDE DEF s
<1>3. TabInv(h, s)
  BY <1>1, <1>2 DEF TabInv, Loading, Acting
<1> QED
  BY <1>3 DEF s

\* A page that is put up, with its components or new ones, shows what they told.
LEMMA ShownKept ==
  ASSUME NEW h, NEW r, Formed(r), \A d \in r.parts.did : Known(h, r.page, r.parts, d),
         NEW p, NEW view, DOMAIN view = Fields, NEW alert \in BOOLEAN,
         r.keep /\ r.page = p /\ ~alert => \A d \in r.parts.did : Visible(h, view, d)
  PROVE  TabInv(h, Shown(r, p, view, alert))
<1> DEFINE s == Shown(r, p, view, alert)
           was == IF r.keep /\ r.page = p THEN r.parts ELSE Mounted
           parts == [was EXCEPT !.seen = @ \cup view.keys, !.again = {}]
<1>1. DOMAIN was = {"oks", "minted", "hidden", "seen", "code", "did", "again"}
  BY DEF Formed, Mounted
<1>2. DOMAIN parts = DOMAIN was /\ parts.did = was.did /\ parts.code = was.code
  BY <1>1
<1>3. s = [r EXCEPT !.page = p, !.pc = "rest", !.me = Absent, !.view = view, !.alert = alert,
                    !.parts = [parts EXCEPT !.oks = Kept(parts.oks, parts, view)]]
  BY DEF Shown
<1> HIDE DEF s, parts
<1>4. /\ s.pc = "rest" /\ s.page = p /\ s.view = view /\ s.alert = alert /\ s.keep = r.keep
      /\ s.parts = [parts EXCEPT !.oks = Kept(parts.oks, parts, view)]
  BY <1>3 DEF Formed
<1>5. Formed(s)
  BY <1>1, <1>2, <1>3, <1>4 DEF Formed
<1>6. s.parts.did = was.did /\ s.parts.code = was.code
  BY <1>1, <1>2, <1>4
<1>7. ASSUME r.keep /\ r.page = p PROVE TabInv(h, s)
  <2>1. was = r.parts
    BY <1>7
  <2>2. \A d \in s.parts.did : Known(h, s.page, s.parts, d)
    BY <1>4, <1>6, <1>7, <2>1 DEF Known
  <2>3. ~s.alert => \A d \in s.parts.did : Visible(h, s.view, d)
    BY <1>4, <1>6, <1>7, <2>1
  <2> QED
    BY <1>4, <1>5, <2>2, <2>3 DEF TabInv, Loading, Acting
<1>8. ASSUME ~(r.keep /\ r.page = p) PROVE TabInv(h, s)
  <2>1. s.parts.did = {}
    BY <1>6, <1>8 DEF Mounted
  <2> QED
    BY <1>4, <1>5, <2>1 DEF TabInv, Loading, Acting
<1> QED
  BY <1>7, <1>8 DEF s

-----------------------------------------------------------------------------
(* The steps of a request *)

\* The pages that tell of forms show the hub's rows when these were loaded.
Homes == {"contacts", "connectors", "invites"}

LEMMA HomeIsListed ==
  ASSUME NEW h, NEW page, NEW parts, NEW d, Known(h, page, parts, d)
  PROVE  page \in Homes
BY DEF Known, HomeOf, Homes

LEMMA Loaded ==
  ASSUME NEW p \in Homes, NEW me
  PROVE  LET v == View(p, TRUE, me) IN
         /\ p = "contacts" => v.pin = hub.pin /\ v.asks = hub.asks /\ v.incoming = hub.incoming /\ v.links = hub.links
         /\ p = "connectors" => v.keys = hub.keys
         /\ p = "invites" => v.slug = me.slug
<1> DEFINE v == View(p, TRUE, me)
<1>1. DOMAIN Rows = Fields /\ DOMAIN Lists = {"contacts", "connectors", "invites", "ops", "dashboard"}
  BY DEF Rows, Lists, Fields
<1>2. /\ Lists["contacts"] = {"pin", "asks", "incoming", "links"}
      /\ Lists["connectors"] = {"keys"} /\ Lists["invites"] = {"invites"}
  BY DEF Lists
<1>3. v = [d \in Fields |->
             IF d = "slug" THEN IF p = "invites" THEN me.slug ELSE 0
             ELSE IF ~TRUE \/ p \notin DOMAIN Lists THEN Rows[d]
             ELSE IF d \notin Lists[p] THEN Rows[d]
             ELSE IF p # "dashboard" THEN hub[d]
             ELSE IF me.account = "admin" THEN Newest(hub[d]) ELSE {}]
  BY <1>1 DEF View
<1> HIDE DEF v
<1>4. p = "contacts" => v.pin = hub.pin /\ v.asks = hub.asks /\ v.incoming = hub.incoming /\ v.links = hub.links
  BY <1>1, <1>2, <1>3 DEF Fields
<1>5. p = "connectors" => v.keys = hub.keys
  BY <1>1, <1>2, <1>3 DEF Fields
<1>6. p = "invites" => v.slug = me.slug
  BY <1>3 DEF Fields
<1> QED
  BY <1>4, <1>5, <1>6 DEF v

LEMMA LoadedIsVisible ==
  ASSUME NEW p \in Homes, NEW me, NEW parts, NEW d, Known(hub, p, parts, d),
         d[1] = "slug" => d[2] <= me.slug
  PROVE  Visible(hub, View(p, TRUE, me), d)
<1> DEFINE v == View(p, TRUE, me)
<1>1. /\ p = "contacts" => v.pin = hub.pin /\ v.asks = hub.asks /\ v.incoming = hub.incoming /\ v.links = hub.links
      /\ p = "connectors" => v.keys = hub.keys
      /\ p = "invites" => v.slug = me.slug
  BY Loaded
<1>2. p = HomeOf(d[1]) /\ Done(hub, d)
  BY DEF Known
<1> HIDE DEF v
<1>3. /\ d[1] \in Pairing => p = "contacts"
      /\ d[1] \in {"mint", "revoke"} => p = "connectors"
      /\ d[1] = "slug" => p = "invites"
  BY <1>2 DEF HomeOf, Pairing
<1>4. Visible(hub, v, d)
  BY <1>1, <1>2, <1>3 DEF Visible, Done, Pairing
<1> QED
  BY <1>4 DEF v

LEMMA ViewFields ==
  ASSUME NEW p, NEW ok, NEW me
  PROVE  DOMAIN View(p, ok, me) = Fields
BY DEF View, Rows, Fields

\* A page passes from one step of loading to the next.
LEMMA PassingKept ==
  ASSUME NEW h, NEW r, TabInv(h, r), r.pc \in Loading, NEW pc \in Loading \ {"seed", "load"}
  PROVE  TabInv(h, [r EXCEPT !.pc = pc])
<1> DEFINE s == [r EXCEPT !.pc = pc]
<1>1. /\ s.pc = pc /\ s.to = r.to /\ s.keep = r.keep /\ s.alert = r.alert
      /\ s.page = r.page /\ s.parts = r.parts /\ s.view = r.view
  BY DEF TabInv, Formed
<1>2. Formed(s)
  BY <1>1 DEF TabInv, Formed
<1> HIDE DEF s
<1>3. TabInv(h, s)
  BY <1>1, <1>2 DEF TabInv, Loading, Acting
<1> QED
  BY <1>3 DEF s

\* What a tab says of its facts, and what this needs of the page.
LEMMA TabFacts ==
  ASSUME SiteInv, NEW t \in Tabs
  PROVE  /\ TabInv(hub, tab[t]) /\ Formed(tab[t])
         /\ \A d \in tab[t].parts.did : Known(hub, tab[t].page, tab[t].parts, d)
BY DEF SiteInv, TabInv

LEMMA ProxyKept ==
  ASSUME SiteInv, NEW t \in Tabs, Proxy(t)
  PROVE  SiteInv'
<1> DEFINE r == tab[t]
           s == IF r.to \in Protected /\ ~cookie.in THEN SignsIn(r.to) ELSE [r EXCEPT !.pc = "page"]
<1>1. TabInv(hub, r) /\ r.pc = "proxy" /\ Becomes(t, s) /\ UNCHANGED hub
  BY TabFacts DEF Proxy, At, pageVars
<1>2. TabInv(hub, SignsIn(r.to))
  BY <1>1, SignsInKept DEF TabInv
<1>3. TabInv(hub, [r EXCEPT !.pc = "page"])
  BY <1>1, PassingKept DEF Loading
<1>4. TabInv(hub, s)
  BY <1>2, <1>3
<1> QED
  BY <1>1, <1>4, TabMovesAlone

LEMMA PageSessionKept ==
  ASSUME SiteInv, NEW t \in Tabs, PageSession(t)
  PROVE  SiteInv'
<1> DEFINE r == tab[t]
<1>1. /\ TabInv(hub, r) /\ Formed(r) /\ \A d \in r.parts.did : Known(hub, r.page, r.parts, d)
      /\ r.pc = "page" /\ UNCHANGED hub
  BY TabFacts DEF PageSession, At, pageVars
<1>2. PICK s : /\ Becomes(t, s)
               /\ s = CASE r.to = "login" /\ cookie.in -> Asking(r, "dashboard", FALSE)
                        [] r.to \in {"waitlist", "alpha"} /\ unlocked -> Asking(r, "download", FALSE)
                        [] r.to = "download" /\ ~unlocked -> Asking(r, "alpha", FALSE)
                        [] r.to \in Protected \cup Members /\ ~cookie.in -> SignsIn(ReturnTo(r.to))
                        [] r.to \in Protected \cup Members /\ cookie.in -> [r EXCEPT !.pc = "me"]
                        [] OTHER -> Shown(r, r.to, Rows, FALSE)
  BY DEF PageSession
<1>3. \A p : TabInv(hub, Asking(r, p, FALSE))
  BY <1>1, AskingKept
<1>4. TabInv(hub, SignsIn(ReturnTo(r.to)))
  BY <1>1, SignsInKept
<1>5. TabInv(hub, [r EXCEPT !.pc = "me"])
  BY <1>1, PassingKept DEF Loading
<1>6. r.to \notin Homes => TabInv(hub, Shown(r, r.to, Rows, FALSE))
  <2>1. DOMAIN Rows = Fields
    BY DEF Rows, Fields
  <2>2. r.to \notin Homes /\ r.page = r.to => r.parts.did = {}
    BY <1>1, HomeIsListed
  <2> QED
    BY <1>1, <2>1, <2>2, ShownKept
<1>7. Homes \subseteq Protected \cup Members
  BY DEF Homes, Protected, Members
<1>8. TabInv(hub, s)
  BY <1>2, <1>3, <1>4, <1>5, <1>6, <1>7
<1> QED
  BY <1>1, <1>2, <1>8, TabMovesAlone

\* What getMe found for a member's page is no older than what the page told.
LEMMA MemberKept ==
  ASSUME NEW h, HubInv(h), NEW r, TabInv(h, r), r.pc = "me", NEW pc \in {"seed", "load"}, NEW me, me.slug = h.slug
  PROVE  TabInv(h, [r EXCEPT !.pc = pc, !.me = me])
<1> DEFINE s == [r EXCEPT !.pc = pc, !.me = me]
<1>1. /\ s.pc = pc /\ s.to = r.to /\ s.keep = r.keep /\ s.alert = r.alert /\ s.me = me
      /\ s.page = r.page /\ s.parts = r.parts /\ s.view = r.view
  BY DEF TabInv, Formed
<1>2. Formed(s)
  BY <1>1 DEF TabInv, Formed
<1>3. \A d \in r.parts.did : d[1] = "slug" => d[2] <= h.slug
  BY DEF TabInv, Known, Done
<1> HIDE DEF s
<1>4. TabInv(h, s)
  BY <1>1, <1>2, <1>3 DEF TabInv, Loading, Acting
<1> QED
  BY <1>4 DEF s

LEMMA SeedingKept ==
  ASSUME NEW h, NEW r, TabInv(h, r), r.pc = "seed"
  PROVE  TabInv(h, [r EXCEPT !.pc = "load"])
<1> DEFINE s == [r EXCEPT !.pc = "load"]
<1>1. /\ s.pc = "load" /\ s.to = r.to /\ s.keep = r.keep /\ s.alert = r.alert /\ s.me = r.me
      /\ s.page = r.page /\ s.parts = r.parts /\ s.view = r.view
  BY DEF TabInv, Formed
<1>2. Formed(s)
  BY <1>1 DEF TabInv, Formed
<1> HIDE DEF s
<1>4. TabInv(h, s)
  BY <1>1, <1>2 DEF TabInv, Loading, Acting
<1> QED
  BY <1>4 DEF s

LEMMA PageMeKept ==
  ASSUME SiteInv, NEW t \in Tabs, PageMe(t)
  PROVE  SiteInv'
<1> DEFINE r == tab[t]
           known == [account |-> account, slug |-> hub.slug]
<1>1. /\ TabInv(hub, r) /\ Formed(r) /\ \A d \in r.parts.did : Known(hub, r.page, r.parts, d)
      /\ r.pc = "me" /\ UNCHANGED hub
  BY TabFacts DEF PageMe, At, pageVars
<1>2. PICK s : /\ Becomes(t, s)
               /\ \/ r.to \in Entry /\ s = EntryDown(r)
                  \/ r.to \notin Entry /\ s = MemberDown(r)
                  \/ r.to \in Entry /\ s = EntryWithMe(r)
                  \/ r.to \notin Entry /\ s = MemberWithMe(r)
  BY DEF PageMe
<1>3. \A p : TabInv(hub, Asking(r, p, FALSE))
  BY <1>1, AskingKept
<1>4. ASSUME r.to \in Entry, NEW alert \in BOOLEAN PROVE TabInv(hub, Shown(r, r.to, Rows, alert))
  <2>1. DOMAIN Rows = Fields
    BY DEF Rows, Fields
  <2>2. r.page = r.to => r.parts.did = {}
    BY <1>1, <1>4, HomeIsListed DEF Entry, Homes
  <2> QED
    BY <1>1, <2>1, <2>2, ShownKept
<1>5. r.to \in Entry => TabInv(hub, EntryDown(r)) /\ TabInv(hub, EntryWithMe(r))
  BY <1>1, <1>3, <1>4 DEF EntryDown, EntryWithMe, Formed
<1>6. TabInv(hub, MemberDown(r))
  <2> DEFINE a == Asking(r, "signup", FALSE)
             s2 == [a EXCEPT !.alert = TRUE]
  <2>1. TabInv(hub, a) /\ a.pc = "proxy" /\ a.keep = FALSE
    BY <1>1, <1>3 DEF Asking, Formed
  <2> HIDE DEF a
  <2>2. /\ s2.pc = "proxy" /\ s2.keep = FALSE /\ s2.alert = TRUE
        /\ s2.page = a.page /\ s2.parts = a.parts /\ s2.view = a.view
    BY <2>1 DEF TabInv, Formed
  <2>3. Formed(s2)
    BY <2>1, <2>2 DEF TabInv, Formed
  <2> HIDE DEF s2
  <2>4. TabInv(hub, s2)
    BY <2>1, <2>2, <2>3 DEF TabInv, Loading, Acting
  <2> QED
    BY <2>4 DEF s2, a, MemberDown
<1>7. TabInv(hub, MemberWithMe(r))
  <2>1. \A pc \in {"seed", "load"} : TabInv(hub, [r EXCEPT !.pc = pc, !.me = known])
    <3>1. known.slug = hub.slug /\ HubInv(hub)
      BY DEF SiteInv
    <3> HIDE DEF known
    <3> QED
      BY <1>1, <3>1, MemberKept
  <2> QED
    BY <1>3, <2>1 DEF MemberWithMe
<1>8. TabInv(hub, s)
  BY <1>2, <1>5, <1>6, <1>7
<1> QED
  BY <1>1, <1>2, <1>8, TabMovesAlone

LEMMA PageSeedKept ==
  ASSUME SiteInv, NEW t \in Tabs, PageSeed(t)
  PROVE  SiteInv'
<1>1. tab[t].pc = "seed" /\ Becomes(t, [tab[t] EXCEPT !.pc = "load"]) /\ UNCHANGED hub
  BY DEF PageSeed, At
<1>2. TabInv(hub, [tab[t] EXCEPT !.pc = "load"])
  BY <1>1, TabFacts, SeedingKept
<1> QED
  BY <1>1, <1>2, TabMovesAlone

LEMMA PageLoadKept ==
  ASSUME SiteInv, NEW t \in Tabs, PageLoad(t)
  PROVE  SiteInv'
<1> DEFINE r == tab[t]
           V(ok) == View(r.to, ok, r.me)
<1>1. /\ TabInv(hub, r) /\ Formed(r) /\ \A d \in r.parts.did : Known(hub, r.page, r.parts, d)
      /\ r.pc = "load" /\ UNCHANGED hub
  BY TabFacts DEF PageLoad, At, pageVars
<1>2. PICK s : /\ Becomes(t, s)
               /\ \/ s = Asking(r, "dashboard", FALSE)
                  \/ s = Shown(r, r.to, V(HubShows(r.to)), ~HubShows(r.to))
                  \/ s = Shown(r, r.to, V(FALSE), TRUE)
                  \/ r.to \in {"ops", "dashboard"} /\ s = Shown(r, r.to, V(FALSE), FALSE)
  BY DEF PageLoad
<1>3. TabInv(hub, Asking(r, "dashboard", FALSE))
  BY <1>1, AskingKept
<1>4. TabInv(hub, Shown(r, r.to, V(FALSE), TRUE))
  BY <1>1, ViewFields, ShownKept
<1>5. ASSUME r.to \in {"ops", "dashboard"}
      PROVE  TabInv(hub, Shown(r, r.to, V(FALSE), FALSE))
  <2>1. r.page = r.to => r.parts.did = {}
    BY <1>1, <1>5, HomeIsListed DEF Homes
  <2> QED
    BY <1>1, <2>1, ViewFields, ShownKept
<1>6. TabInv(hub, Shown(r, r.to, V(HubShows(r.to)), ~HubShows(r.to)))
  <2>1. ASSUME NEW d \in r.parts.did, r.keep, r.page = r.to, HubShows(r.to)
        PROVE  Visible(hub, V(HubShows(r.to)), d)
    <3>1. Known(hub, r.to, r.parts, d) /\ r.to \in Homes
      BY <1>1, <2>1, HomeIsListed
    <3>2. d[1] = "slug" => d[2] <= r.me.slug
      BY <1>1, <2>1 DEF TabInv
    <3>3. Visible(hub, View(r.to, TRUE, r.me), d)
      BY <3>1, <3>2, LoadedIsVisible
    <3>4. HubShows(r.to) = TRUE
      BY <2>1, <3>1 DEF HubShows, Homes
    <3> QED
      BY <3>3, <3>4
  <2>2. r.keep /\ r.page = r.to /\ ~(~HubShows(r.to)) =>
          \A d \in r.parts.did : Visible(hub, V(HubShows(r.to)), d)
    BY <2>1
  <2>3. (~HubShows(r.to)) \in BOOLEAN /\ DOMAIN V(HubShows(r.to)) = Fields
    BY ViewFields
  <2> QED
    BY <1>1, <2>2, <2>3, ShownKept
<1>7. TabInv(hub, s)
  BY <1>2, <1>3, <1>4, <1>5, <1>6
<1> QED
  BY <1>1, <1>2, <1>7, TabMovesAlone

-----------------------------------------------------------------------------
(* The person and the world *)

LEMMA PageStepKept ==
  ASSUME SiteInv, NEW t \in Tabs, PageStep(t)
  PROVE  SiteInv'
BY ProxyKept, PageSessionKept, PageMeKept, PageSeedKept, PageLoadKept DEF PageStep

LEMMA VisitKept ==
  ASSUME SiteInv, NEW t \in Tabs, NEW p, Visit(t, p)
  PROVE  SiteInv'
<1>1. Becomes(t, Asking(tab[t], p, FALSE)) /\ UNCHANGED hub
  BY DEF Visit, pageVars
<1>2. TabInv(hub, Asking(tab[t], p, FALSE))
  BY TabFacts, AskingKept
<1> QED
  BY <1>1, <1>2, TabMovesAlone

LEMMA SignInKept ==
  ASSUME SiteInv, NEW t \in Tabs, SignIn(t)
  PROVE  SiteInv'
<1>1. Becomes(t, Asking(tab[t], tab[t].to, FALSE)) /\ UNCHANGED hub
  BY DEF SignIn
<1>2. TabInv(hub, Asking(tab[t], tab[t].to, FALSE))
  BY TabFacts, AskingKept
<1> QED
  BY <1>1, <1>2, TabMovesAlone

LEMMA WorldMoves ==
  ASSUME HubInv(hub), World
  PROVE  HubInv(hub') /\ Onward(hub, hub')
<1>2. HubInv(hub) /\ hub \in HubRow /\ HubFields(hub)
  BY HubTyped
<1> QED
  <2>1. CASE UNCHANGED hub
    BY <1>2, <2>1, HubRests
  <2>2. CASE hub' = [hub EXCEPT !.incoming = @ \cup {hub.next}, !.next = @ + 1]
    <3>1. /\ hub'.pin = hub.pin /\ hub'.slug = hub.slug /\ hub'.next = hub.next + 1
          /\ hub'.asks = hub.asks /\ hub'.incoming = hub.incoming \cup {hub.next}
          /\ hub'.links = hub.links /\ hub'.keys = hub.keys
          /\ hub'.invites = hub.invites /\ hub'.gone = hub.gone
      BY <1>2, <2>2 DEF HubRow
    <3>2. hub' \in HubRow
      <4>1. hub.incoming \cup {hub.next} \in SUBSET Nat /\ hub.next + 1 \in Nat
        BY <1>2, <2>2 DEF HubFields
      <4>2. [hub EXCEPT !.incoming = hub.incoming \cup {hub.next}, !.next = hub.next + 1] \in HubRow
        BY <1>2, <4>1, RowTypes, Zenon
      <4> QED
        BY <2>2, <4>2
    <3>3. Onward(hub, hub')
      BY <1>2, <3>1 DEF Onward, HubFields
    <3>4. HubInv(hub')
      BY <1>2, <2>2, <3>1, <3>2 DEF HubInv, HubFields
    <3> QED
      BY <3>3, <3>4
  <2>3. ASSUME NEW i \in hub.asks, hub' = [hub EXCEPT !.asks = @ \ {i}, !.links = @ \cup {i}]
        PROVE  HubInv(hub') /\ Onward(hub, hub')
    <3>1. /\ hub'.pin = hub.pin /\ hub'.slug = hub.slug /\ hub'.next = hub.next
          /\ hub'.asks = hub.asks \ {i} /\ hub'.incoming = hub.incoming
          /\ hub'.links = hub.links \cup {i} /\ hub'.keys = hub.keys
          /\ hub'.invites = hub.invites /\ hub'.gone = hub.gone
      BY <1>2, <2>3 DEF HubRow
    <3>2. hub' \in HubRow
      <4>1. hub.asks \ {i} \in SUBSET Nat /\ hub.links \cup {i} \in SUBSET Nat
        BY <1>2, <2>3 DEF HubFields
      <4>2. [hub EXCEPT !.asks = hub.asks \ {i}, !.links = hub.links \cup {i}] \in HubRow
        BY <1>2, <4>1, RowTypes, Zenon
      <4> QED
        BY <2>3, <4>2
    <3>3. Onward(hub, hub')
      BY <1>2, <3>1 DEF Onward, HubFields
    <3>4. HubInv(hub')
      BY <1>2, <2>3, <3>1, <3>2 DEF HubInv, HubFields
    <3> QED
      BY <3>3, <3>4
  <2>4. ASSUME NEW i \in hub.asks, hub' = [hub EXCEPT !.asks = @ \ {i}, !.gone = @ \cup {i}]
        PROVE  HubInv(hub') /\ Onward(hub, hub')
    <3>1. /\ hub'.pin = hub.pin /\ hub'.slug = hub.slug /\ hub'.next = hub.next
          /\ hub'.asks = hub.asks \ {i} /\ hub'.incoming = hub.incoming
          /\ hub'.links = hub.links /\ hub'.keys = hub.keys
          /\ hub'.invites = hub.invites /\ hub'.gone = hub.gone \cup {i}
      BY <1>2, <2>4 DEF HubRow
    <3>2. hub' \in HubRow
      <4>1. hub.asks \ {i} \in SUBSET Nat /\ hub.gone \cup {i} \in SUBSET Nat
        BY <1>2, <2>4 DEF HubFields
      <4>2. [hub EXCEPT !.asks = hub.asks \ {i}, !.gone = hub.gone \cup {i}] \in HubRow
        BY <1>2, <4>1, RowTypes, Zenon
      <4> QED
        BY <2>4, <4>2
    <3>3. Onward(hub, hub')
      BY <1>2, <3>1 DEF Onward, HubFields
    <3>4. HubInv(hub')
      BY <1>2, <2>4, <3>1, <3>2 DEF HubInv, HubFields
    <3> QED
      BY <3>3, <3>4
  <2> QED
    BY <2>1, <2>2, <2>3, <2>4 DEF World

LEMMA WorldKept ==
  ASSUME SiteInv, World
  PROVE  SiteInv'
<1>1. UNCHANGED tab
  BY DEF World
<1>2. HubInv(hub) /\ HubInv(hub') /\ Onward(hub, hub')
  BY WorldMoves DEF SiteInv
<1>3. \A t \in Tabs : TabInv(hub', tab'[t])
  BY <1>1, <1>2, TabStays DEF SiteInv
<1> QED
  BY <1>1, <1>2, <1>3 DEF SiteInv

-----------------------------------------------------------------------------
(* Forms *)

LEMMA OffersFit ==
  ASSUME NEW r, NEW o \in Offers(r)
  PROVE  Placed(o[1], r.page)
<1> USE DEF Placed, HomeOf, Telling, Pairing
<1>1. CASE r.page = "contacts"
  <2>1. o[1] \in Pairing
    BY <1>1 DEF Offers, PinForms, RequestForms, IncomingForms, ExternalForms
  <2> QED
    BY <1>1, <2>1
<1>2. CASE r.page = "connectors"
  <2>1. o[1] \in {"mint", "revoke"}
    BY <1>2 DEF Offers, MintForms, RevokeForms
  <2> QED
    BY <1>2, <2>1
<1>3. CASE r.page = "invites"
  <2>1. o[1] \in {"slug", "invite"}
    BY <1>3 DEF Offers, SlugForms, InviteForms
  <2> QED
    BY <1>3, <2>1
<1>4. CASE r.page = "ops"
  <2>1. o[1] \in {"refresh", "topup", "verify", "publish", "suspend"}
    BY <1>4 DEF Offers, OpsForms, ListingForms, ListingForm
  <2> QED
    BY <1>4, <2>1
<1>5. CASE r.page \notin {"contacts", "connectors", "invites", "ops"}
  <2>1. o[1] \in {"profile", "create", "join", "wait"}
    BY <1>5 DEF Offers, ProfileForms, CreateForms, JoinForms, WaitForms
  <2> QED
    BY <2>1
<1> QED
  BY <1>1, <1>2, <1>3, <1>4, <1>5

LEMMA SubmitKept ==
  ASSUME SiteInv, NEW t \in Tabs, Submit(t)
  PROVE  SiteInv'
<1> DEFINE r == tab[t]
<1>1. PICK o \in Offers(r), pc \in {"call", "act"} :
        Becomes(t, [r EXCEPT !.pc = pc, !.call = [form |-> o[1], arg |-> o[2], row |-> Absent]])
  BY DEF Submit
<1>2. r.pc = "rest" /\ UNCHANGED hub /\ TabInv(hub, r)
  BY TabFacts DEF Submit, At, pageVars
<1> DEFINE s == [r EXCEPT !.pc = pc, !.call = [form |-> o[1], arg |-> o[2], row |-> Absent]]
<1>3. /\ s.pc = pc /\ s.alert = r.alert /\ s.call.form = o[1]
      /\ s.page = r.page /\ s.parts = r.parts /\ s.view = r.view
  BY <1>2 DEF TabInv, Formed
<1>4. Formed(s)
  BY <1>2, <1>3 DEF TabInv, Formed
<1>5. Placed(o[1], r.page)
  BY OffersFit
<1> HIDE DEF s
<1>6. TabInv(hub, s)
  BY <1>2, <1>3, <1>4, <1>5 DEF TabInv, Loading, Acting
<1> QED
  BY <1>1, <1>2, <1>6, TabMovesAlone DEF s

LEMMA DismissKept ==
  ASSUME SiteInv, NEW t \in Tabs, Dismiss(t)
  PROVE  SiteInv'
<1> DEFINE r == tab[t]
           s == [r EXCEPT !.parts.hidden = TRUE]
<1>1. Becomes(t, s) /\ r.pc = "rest" /\ UNCHANGED hub /\ TabInv(hub, r)
  BY TabFacts DEF Dismiss, At, pageVars
<1>2. s.parts = [r.parts EXCEPT !.hidden = TRUE] /\ DOMAIN s = DOMAIN r
      /\ s.pc = r.pc /\ s.alert = r.alert /\ s.page = r.page /\ s.view = r.view /\ s.keep = r.keep
  BY <1>1 DEF TabInv, Formed
<1>3. s.parts.did = r.parts.did /\ s.parts.seen = r.parts.seen /\ s.parts.again = r.parts.again
      /\ s.parts.code = r.parts.code /\ DOMAIN s.parts = DOMAIN r.parts
  BY <1>1, <1>2 DEF TabInv, Formed
<1>4. Formed(s)
  BY <1>1, <1>2, <1>3 DEF TabInv, Formed
<1> HIDE DEF s
<1>5. \A d \in s.parts.did : Known(hub, s.page, s.parts, d)
  BY <1>1, <1>2, <1>3 DEF TabInv, Known
<1>6. TabInv(hub, s)
  BY <1>1, <1>2, <1>3, <1>4, <1>5 DEF TabInv, Loading, Acting
<1> QED
  BY <1>1, <1>6, TabMovesAlone

LEMMA ActSessionKept ==
  ASSUME SiteInv, NEW t \in Tabs, ActSession(t)
  PROVE  SiteInv'
<1> DEFINE r == tab[t]
           s == [r EXCEPT !.pc = "call"]
<1>1. Becomes(t, IF cookie.in THEN s ELSE SignsIn(BackTo(r.call.form)))
      /\ r.pc = "act" /\ UNCHANGED hub /\ TabInv(hub, r)
  BY TabFacts DEF ActSession, At, pageVars
<1>2. TabInv(hub, SignsIn(BackTo(r.call.form)))
  BY <1>1, SignsInKept DEF TabInv
<1>3. /\ s.pc = "call" /\ s.alert = r.alert /\ s.call = r.call
      /\ s.page = r.page /\ s.parts = r.parts /\ s.view = r.view
  BY <1>1 DEF TabInv, Formed
<1>4. Formed(s)
  BY <1>1, <1>3 DEF TabInv, Formed
<1> HIDE DEF s
<1>5. TabInv(hub, s)
  BY <1>1, <1>3, <1>4 DEF TabInv, Loading, Acting
<1> QED
  BY <1>1, <1>2, <1>5, TabMovesAlone

-----------------------------------------------------------------------------
(* What the hub does with a call *)

\* What each form makes of the hub's rows, with n its row.
LEMMA NewRows ==
  ASSUME NEW f, NEW n
  PROVE  /\ f \in {"issue", "rotate"} => NewHub(f, n) = [hub EXCEPT !.pin = n]
         /\ f = "ask" => NewHub(f, n) = [hub EXCEPT !.asks = @ \cup {n}, !.next = After(n)]
         /\ f = "approve" => NewHub(f, n) = [hub EXCEPT !.incoming = @ \ {n}, !.links = @ \cup {n}]
         /\ f = "deny" => NewHub(f, n) = [hub EXCEPT !.incoming = @ \ {n}]
         /\ f = "unpair" => NewHub(f, n) = [hub EXCEPT !.links = @ \ {n}, !.gone = @ \cup {n}]
<1>1. f \in Pairing => NewHub(f, n) = PairingDone(f, n)
  BY Zenon DEF NewHub, Pairing, Listing
<1>2. /\ f \in {"issue", "rotate"} => PairingDone(f, n) = [hub EXCEPT !.pin = n]
      /\ f = "ask" => PairingDone(f, n) = [hub EXCEPT !.asks = @ \cup {n}, !.next = After(n)]
      /\ f = "approve" => PairingDone(f, n) = [hub EXCEPT !.incoming = @ \ {n}, !.links = @ \cup {n}]
      /\ f = "deny" => PairingDone(f, n) = [hub EXCEPT !.incoming = @ \ {n}]
      /\ f = "unpair" => PairingDone(f, n) = [hub EXCEPT !.links = @ \ {n}, !.gone = @ \cup {n}]
  BY Zenon DEF PairingDone
<1> QED
  BY <1>1, <1>2, Zenon DEF Pairing

LEMMA NewRowsOfForms ==
  ASSUME NEW f, NEW n
  PROVE  /\ f = "mint" => NewHub(f, n) = [hub EXCEPT !.keys = @ \cup {n}, !.next = After(n)]
         /\ f = "revoke" => NewHub(f, n) = [hub EXCEPT !.keys = @ \ {n}, !.gone = @ \cup {n}]
         /\ f = "invite" => NewHub(f, n) = [hub EXCEPT !.invites = @ \cup {n}, !.next = After(n)]
         /\ f = "slug" => NewHub(f, n) = [hub EXCEPT !.slug = n, !.next = After(n)]
         /\ f \in Listing => NewHub(f, n) = [hub EXCEPT !.listing = n]
         /\ f \notin Pairing \cup {"mint", "revoke", "invite", "slug"} \cup Listing => NewHub(f, n) = hub
BY Zenon DEF NewHub, Pairing, Listing

\* The same, form by form.
LEMMA AskRows == ASSUME NEW n PROVE NewHub("ask", n) = [hub EXCEPT !.asks = @ \cup {n}, !.next = After(n)]
BY NewRows, Zenon
LEMMA ApproveRows == ASSUME NEW n PROVE NewHub("approve", n) = [hub EXCEPT !.incoming = @ \ {n}, !.links = @ \cup {n}]
BY NewRows, Zenon
LEMMA DenyRows == ASSUME NEW n PROVE NewHub("deny", n) = [hub EXCEPT !.incoming = @ \ {n}]
BY NewRows, Zenon
LEMMA UnpairRows == ASSUME NEW n PROVE NewHub("unpair", n) = [hub EXCEPT !.links = @ \ {n}, !.gone = @ \cup {n}]
BY NewRows, Zenon
LEMMA MintRows == ASSUME NEW n PROVE NewHub("mint", n) = [hub EXCEPT !.keys = @ \cup {n}, !.next = After(n)]
BY NewRowsOfForms, Zenon
LEMMA RevokeRows == ASSUME NEW n PROVE NewHub("revoke", n) = [hub EXCEPT !.keys = @ \ {n}, !.gone = @ \cup {n}]
BY NewRowsOfForms, Zenon
LEMMA InviteRows == ASSUME NEW n PROVE NewHub("invite", n) = [hub EXCEPT !.invites = @ \cup {n}, !.next = After(n)]
BY NewRowsOfForms, Zenon
LEMMA SlugRows == ASSUME NEW n PROVE NewHub("slug", n) = [hub EXCEPT !.slug = n, !.next = After(n)]
BY NewRowsOfForms, Zenon
LEMMA PinRows == ASSUME NEW f \in {"issue", "rotate"}, NEW n PROVE NewHub(f, n) = [hub EXCEPT !.pin = n]
BY NewRows, Zenon
LEMMA ListingRows == ASSUME NEW f \in Listing, NEW n PROVE NewHub(f, n) = [hub EXCEPT !.listing = n]
BY NewRowsOfForms, Zenon
LEMMA OtherRows ==
  ASSUME NEW f, f \notin Pairing \cup {"mint", "revoke", "invite", "slug"} \cup Listing, NEW n
  PROVE  NewHub(f, n) = hub
BY NewRowsOfForms, Zenon

\* The rows that the hub may answer with.
LEMMA MadeRows ==
  ASSUME NEW f, NEW a, NEW n \in Made(f, a)
  PROVE  /\ f \in {"issue", "rotate"} => n = hub.pin + 1
         /\ f = "ask" => n \in hub.asks \cup {hub.next}
         /\ f = "slug" => n \in {hub.slug, hub.next}
         /\ f \in RowForms => n = a
         /\ f \in {"mint", "invite"} => n = hub.next
         /\ f \in Listing => n = ListingDone(f)
<1>1. f \in {"issue", "rotate"} => Made(f, a) = {hub.pin + 1}
  BY Zenon DEF Made, RowForms, Listing
<1>2. f = "ask" => Made(f, a) = hub.asks \/ Made(f, a) = {hub.next}
  BY Zenon DEF Made, RowForms, Listing
<1>3. f = "slug" => Made(f, a) = {hub.slug} \/ Made(f, a) = {hub.next}
  BY Zenon DEF Made, RowForms, Listing
<1>4. f \in RowForms => Made(f, a) = {a}
  BY Zenon DEF Made, RowForms, Listing
<1>5. f \in {"mint", "invite"} => Made(f, a) = {hub.next}
  BY Zenon DEF Made, RowForms, Listing
<1>6. f \in Listing => Made(f, a) = {ListingDone(f)}
  BY Zenon DEF Made, RowForms, Listing
<1> QED
  BY <1>1, <1>2, <1>3, <1>4, <1>5, <1>6

\* A row that is there, or the next one, is below what comes after it.
LEMMA Later ==
  ASSUME hub.next \in Nat, NEW n \in Nat, n <= hub.next
  PROVE  After(n) \in Nat /\ hub.next <= After(n) /\ n < After(n)
BY DEF After

\* A call that the hub takes moves it on, and makes what is told of it so.
LEMMA HubMoves ==
  ASSUME HubInv(hub), NEW f, NEW a, Accepts(f, a), NEW n \in Made(f, a), NEW g, g = NewHub(f, n)
  PROVE  HubInv(g) /\ Onward(hub, g) /\ (f \in Telling => Done(g, <<f, n>>))
<1> USE DEF Telling
<1>1. hub \in HubRow /\ HubFields(hub) /\ Onward(hub, hub)
  BY HubTyped, HubRests
<1>2. CASE f \in {"issue", "rotate"}
  <2>1. g = [hub EXCEPT !.pin = n]
    BY <1>2, PinRows
  <2>2. n = hub.pin + 1 /\ n \in Nat
    BY <1>1, <1>2, MadeRows DEF HubFields
  <2>3. /\ g.pin = n /\ g.slug = hub.slug /\ g.next = hub.next
        /\ g.asks = hub.asks /\ g.incoming = hub.incoming
        /\ g.links = hub.links /\ g.keys = hub.keys
        /\ g.invites = hub.invites /\ g.gone = hub.gone
    BY <1>1, <2>1 DEF HubRow
  <2>4. g \in HubRow
    <3>1. n \in Nat
      BY <1>1, <2>2 DEF HubFields
    <3>2. [hub EXCEPT !.pin = n] \in HubRow
      BY <1>1, <3>1, RowType, Zenon
    <3> QED
      BY <2>1, <3>2
  <2>5. Done(g, <<f, n>>)
    BY <1>1, <1>2, <2>2, <2>3 DEF Done, HubFields
  <2>6. Onward(hub, g)
    BY <1>1, <2>2, <2>3 DEF Onward, HubFields
  <2>7. HubInv(g)
    BY <1>1, <2>2, <2>3, <2>4 DEF HubInv, HubFields
  <2> QED
    BY <2>5, <2>6, <2>7
<1>3. CASE f = "ask"
  <2>1. g = [hub EXCEPT !.asks = @ \cup {n}, !.next = After(n)]
    BY <1>3, AskRows
  <2>2. /\ n \in Nat /\ n <= hub.next /\ n \notin hub.incoming /\ n \notin hub.links
        /\ n \in hub.asks \/ n = hub.next
    BY <1>1, <1>3, MadeRows DEF HubFields, HubInv
  <2>a. After(n) \in Nat /\ hub.next <= After(n) /\ n < After(n)
    BY <1>1, <2>2, Later DEF HubFields
  <2>3. /\ g.pin = hub.pin /\ g.slug = hub.slug /\ g.next = After(n)
        /\ g.asks = hub.asks \cup {n} /\ g.incoming = hub.incoming
        /\ g.links = hub.links /\ g.keys = hub.keys
        /\ g.invites = hub.invites /\ g.gone = hub.gone
    BY <1>1, <2>1 DEF HubRow
  <2>4. g \in HubRow
    <3>1. hub.asks \cup {n} \in SUBSET Nat /\ After(n) \in Nat
      BY <1>1, <2>2, <2>a DEF HubFields
    <3>2. [hub EXCEPT !.asks = hub.asks \cup {n}, !.next = After(n)] \in HubRow
      BY <1>1, <3>1, RowTypes, Zenon
    <3> QED
      BY <2>1, <3>2
  <2>5. Done(g, <<f, n>>)
    BY <1>1, <1>3, <2>2, <2>3, <2>a DEF Done, HubFields
  <2>6. Onward(hub, g)
    BY <1>1, <2>2, <2>3, <2>a DEF Onward, HubFields
  <2>7. HubInv(g)
    BY <1>1, <2>2, <2>3, <2>4, <2>a DEF HubInv, HubFields
  <2> QED
    BY <2>5, <2>6, <2>7
<1>4. CASE f = "approve"
  <2>1. g = [hub EXCEPT !.incoming = @ \ {n}, !.links = @ \cup {n}]
    BY <1>4, ApproveRows
  <2>2. /\ n \in Nat /\ n < hub.next /\ n \in hub.incoming
        /\ n \notin hub.asks /\ n \notin hub.links
    BY <1>1, <1>4, MadeRows DEF HubFields, HubInv, Accepts, RowForms
  <2>3. /\ g.pin = hub.pin /\ g.slug = hub.slug /\ g.next = hub.next
        /\ g.asks = hub.asks /\ g.incoming = hub.incoming \ {n}
        /\ g.links = hub.links \cup {n} /\ g.keys = hub.keys
        /\ g.invites = hub.invites /\ g.gone = hub.gone
    BY <1>1, <2>1 DEF HubRow
  <2>4. g \in HubRow
    <3>1. hub.incoming \ {n} \in SUBSET Nat /\ hub.links \cup {n} \in SUBSET Nat
      BY <1>1, <2>2 DEF HubFields
    <3>2. [hub EXCEPT !.incoming = hub.incoming \ {n}, !.links = hub.links \cup {n}] \in HubRow
      BY <1>1, <3>1, RowTypes, Zenon
    <3> QED
      BY <2>1, <3>2
  <2>5. Done(g, <<f, n>>)
    BY <1>1, <1>4, <2>2, <2>3 DEF Done, HubFields
  <2>6. Onward(hub, g)
    BY <1>1, <2>2, <2>3 DEF Onward, HubFields
  <2>7. HubInv(g)
    BY <1>1, <2>2, <2>3, <2>4 DEF HubInv, HubFields
  <2> QED
    BY <2>5, <2>6, <2>7
<1>5. CASE f = "deny"
  <2>1. g = [hub EXCEPT !.incoming = @ \ {n}]
    BY <1>5, DenyRows
  <2>2. /\ n \in Nat /\ n < hub.next /\ n \in hub.incoming
        /\ n \notin hub.asks /\ n \notin hub.links
    BY <1>1, <1>5, MadeRows DEF HubFields, HubInv, Accepts, RowForms
  <2>3. /\ g.pin = hub.pin /\ g.slug = hub.slug /\ g.next = hub.next
        /\ g.asks = hub.asks /\ g.incoming = hub.incoming \ {n}
        /\ g.links = hub.links /\ g.keys = hub.keys
        /\ g.invites = hub.invites /\ g.gone = hub.gone
    BY <1>1, <2>1 DEF HubRow
  <2>4. g \in HubRow
    <3>1. hub.incoming \ {n} \in SUBSET Nat
      BY <1>1, <2>2 DEF HubFields
    <3>2. [hub EXCEPT !.incoming = hub.incoming \ {n}] \in HubRow
      BY <1>1, <3>1, RowType, Zenon
    <3> QED
      BY <2>1, <3>2
  <2>5. Done(g, <<f, n>>)
    BY <1>1, <1>5, <2>2, <2>3 DEF Done, HubFields
  <2>6. Onward(hub, g)
    BY <1>1, <2>2, <2>3 DEF Onward, HubFields
  <2>7. HubInv(g)
    BY <1>1, <2>2, <2>3, <2>4 DEF HubInv, HubFields
  <2> QED
    BY <2>5, <2>6, <2>7
<1>6. CASE f = "unpair"
  <2>1. g = [hub EXCEPT !.links = @ \ {n}, !.gone = @ \cup {n}]
    BY <1>6, UnpairRows
  <2>2. /\ n \in Nat /\ n < hub.next /\ n \in hub.links
        /\ n \notin hub.asks /\ n \notin hub.incoming
    BY <1>1, <1>6, MadeRows DEF HubFields, HubInv, Accepts, RowForms
  <2>3. /\ g.pin = hub.pin /\ g.slug = hub.slug /\ g.next = hub.next
        /\ g.asks = hub.asks /\ g.incoming = hub.incoming
        /\ g.links = hub.links \ {n} /\ g.keys = hub.keys
        /\ g.invites = hub.invites /\ g.gone = hub.gone \cup {n}
    BY <1>1, <2>1 DEF HubRow
  <2>4. g \in HubRow
    <3>1. hub.links \ {n} \in SUBSET Nat /\ hub.gone \cup {n} \in SUBSET Nat
      BY <1>1, <2>2 DEF HubFields
    <3>2. [hub EXCEPT !.links = hub.links \ {n}, !.gone = hub.gone \cup {n}] \in HubRow
      BY <1>1, <3>1, RowTypes, Zenon
    <3> QED
      BY <2>1, <3>2
  <2>5. Done(g, <<f, n>>)
    BY <1>1, <1>6, <2>2, <2>3 DEF Done, HubFields
  <2>6. Onward(hub, g)
    BY <1>1, <2>2, <2>3 DEF Onward, HubFields
  <2>7. HubInv(g)
    BY <1>1, <2>2, <2>3, <2>4 DEF HubInv, HubFields
  <2> QED
    BY <2>5, <2>6, <2>7
<1>7. CASE f = "mint"
  <2>1. g = [hub EXCEPT !.keys = @ \cup {n}, !.next = After(n)]
    BY <1>7, MintRows
  <2>2. n = hub.next /\ n \in Nat /\ n <= hub.next
    BY <1>1, <1>7, MadeRows DEF HubFields
  <2>a. After(n) \in Nat /\ hub.next <= After(n) /\ n < After(n)
    BY <1>1, <2>2, Later DEF HubFields
  <2>3. /\ g.pin = hub.pin /\ g.slug = hub.slug /\ g.next = After(n)
        /\ g.asks = hub.asks /\ g.incoming = hub.incoming
        /\ g.links = hub.links /\ g.keys = hub.keys \cup {n}
        /\ g.invites = hub.invites /\ g.gone = hub.gone
    BY <1>1, <2>1 DEF HubRow
  <2>4. g \in HubRow
    <3>1. hub.keys \cup {n} \in SUBSET Nat /\ After(n) \in Nat
      BY <1>1, <2>2, <2>a DEF HubFields
    <3>2. [hub EXCEPT !.keys = hub.keys \cup {n}, !.next = After(n)] \in HubRow
      BY <1>1, <3>1, RowTypes, Zenon
    <3> QED
      BY <2>1, <3>2
  <2>5. Done(g, <<f, n>>)
    BY <1>1, <1>7, <2>2, <2>3, <2>a DEF Done, HubFields
  <2>6. Onward(hub, g)
    BY <1>1, <2>2, <2>3, <2>a DEF Onward, HubFields
  <2>7. HubInv(g)
    BY <1>1, <2>2, <2>3, <2>4, <2>a DEF HubInv, HubFields
  <2> QED
    BY <2>5, <2>6, <2>7
<1>8. CASE f = "revoke"
  <2>1. g = [hub EXCEPT !.keys = @ \ {n}, !.gone = @ \cup {n}]
    BY <1>8, RevokeRows
  <2>2. n \in Nat /\ n < hub.next
    BY <1>1, <1>8, MadeRows DEF HubFields, HubInv, Accepts, RowForms
  <2>3. /\ g.pin = hub.pin /\ g.slug = hub.slug /\ g.next = hub.next
        /\ g.asks = hub.asks /\ g.incoming = hub.incoming
        /\ g.links = hub.links /\ g.keys = hub.keys \ {n}
        /\ g.invites = hub.invites /\ g.gone = hub.gone \cup {n}
    BY <1>1, <2>1 DEF HubRow
  <2>4. g \in HubRow
    <3>1. hub.keys \ {n} \in SUBSET Nat /\ hub.gone \cup {n} \in SUBSET Nat
      BY <1>1, <2>2 DEF HubFields
    <3>2. [hub EXCEPT !.keys = hub.keys \ {n}, !.gone = hub.gone \cup {n}] \in HubRow
      BY <1>1, <3>1, RowTypes, Zenon
    <3> QED
      BY <2>1, <3>2
  <2>5. Done(g, <<f, n>>)
    BY <1>1, <1>8, <2>2, <2>3 DEF Done, HubFields
  <2>6. Onward(hub, g)
    BY <1>1, <2>2, <2>3 DEF Onward, HubFields
  <2>7. HubInv(g)
    BY <1>1, <2>2, <2>3, <2>4 DEF HubInv, HubFields
  <2> QED
    BY <2>5, <2>6, <2>7
<1>9. CASE f = "invite"
  <2>1. g = [hub EXCEPT !.invites = @ \cup {n}, !.next = After(n)]
    BY <1>9, InviteRows
  <2>2. n = hub.next /\ n \in Nat /\ n <= hub.next
    BY <1>1, <1>9, MadeRows DEF HubFields
  <2>a. After(n) \in Nat /\ hub.next <= After(n) /\ n < After(n)
    BY <1>1, <2>2, Later DEF HubFields
  <2>3. /\ g.pin = hub.pin /\ g.slug = hub.slug /\ g.next = After(n)
        /\ g.asks = hub.asks /\ g.incoming = hub.incoming
        /\ g.links = hub.links /\ g.keys = hub.keys
        /\ g.invites = hub.invites \cup {n} /\ g.gone = hub.gone
    BY <1>1, <2>1 DEF HubRow
  <2>4. g \in HubRow
    <3>1. hub.invites \cup {n} \in SUBSET Nat /\ After(n) \in Nat
      BY <1>1, <2>2, <2>a DEF HubFields
    <3>2. [hub EXCEPT !.invites = hub.invites \cup {n}, !.next = After(n)] \in HubRow
      BY <1>1, <3>1, RowTypes, Zenon
    <3> QED
      BY <2>1, <3>2
  <2>5. Done(g, <<f, n>>)
    BY <1>1, <1>9, <2>2, <2>3, <2>a DEF Done, HubFields
  <2>6. Onward(hub, g)
    BY <1>1, <2>2, <2>3, <2>a DEF Onward, HubFields
  <2>7. HubInv(g)
    BY <1>1, <2>2, <2>3, <2>4, <2>a DEF HubInv, HubFields
  <2> QED
    BY <2>5, <2>6, <2>7
<1>10. CASE f = "slug"
  <2>1. g = [hub EXCEPT !.slug = n, !.next = After(n)]
    BY <1>10, SlugRows
  <2>2. n \in Nat /\ n <= hub.next /\ hub.slug <= n
    BY <1>1, <1>10, MadeRows DEF HubFields, HubInv
  <2>a. After(n) \in Nat /\ hub.next <= After(n) /\ n < After(n)
    BY <1>1, <2>2, Later DEF HubFields
  <2>3. /\ g.pin = hub.pin /\ g.slug = n /\ g.next = After(n)
        /\ g.asks = hub.asks /\ g.incoming = hub.incoming
        /\ g.links = hub.links /\ g.keys = hub.keys
        /\ g.invites = hub.invites /\ g.gone = hub.gone
    BY <1>1, <2>1 DEF HubRow
  <2>4. g \in HubRow
    <3>1. n \in Nat /\ After(n) \in Nat
      BY <1>1, <2>2, <2>a DEF HubFields
    <3>2. [hub EXCEPT !.slug = n, !.next = After(n)] \in HubRow
      BY <1>1, <3>1, RowTypes, Zenon
    <3> QED
      BY <2>1, <3>2
  <2>5. Done(g, <<f, n>>)
    BY <1>1, <1>10, <2>2, <2>3, <2>a DEF Done, HubFields
  <2>6. Onward(hub, g)
    BY <1>1, <2>2, <2>3, <2>a DEF Onward, HubFields
  <2>7. HubInv(g)
    BY <1>1, <2>2, <2>3, <2>4, <2>a DEF HubInv, HubFields
  <2> QED
    BY <2>5, <2>6, <2>7
<1>11. CASE f \in Listing
  <2>1. g = [hub EXCEPT !.listing = n]
    BY <1>11, ListingRows, Zenon
  <2>a. f \notin Telling
    BY <1>11 DEF Listing, Telling
  <2>2. n \in {"draft", "verified", "published", "suspended"}
    <3>1. hub.listing \in {"draft", "verified", "published", "suspended"}
      BY <1>1 DEF HubRow
    <3>2. (IF hub.listing = "draft" THEN "verified" ELSE hub.listing) \in {"draft", "verified", "published", "suspended"}
      BY <3>1
    <3>3. n = ListingDone(f)
      BY <1>11, MadeRows
    <3> QED
      BY <1>11, <3>2, <3>3, Zenon DEF ListingDone, Listing
  <2>3. /\ g.pin = hub.pin /\ g.slug = hub.slug /\ g.next = hub.next
        /\ g.asks = hub.asks /\ g.incoming = hub.incoming
        /\ g.links = hub.links /\ g.keys = hub.keys
        /\ g.invites = hub.invites /\ g.gone = hub.gone
    BY <1>1, <2>1 DEF HubRow
  <2>4. g \in HubRow
    <3>1. [hub EXCEPT !.listing = n] \in HubRow
      BY <1>1, <2>2, RowType, Zenon
    <3> QED
      BY <2>1, <3>1
  <2> QED
    BY <1>1, <2>a, <2>3, <2>4 DEF HubInv, Onward, HubFields
<1>12. CASE f \notin Pairing \cup {"mint", "revoke", "invite", "slug"} \cup Listing
  <2>1. g = hub
    BY <1>12, OtherRows, Zenon
  <2>2. f \notin Telling
    BY <1>12 DEF Pairing, Telling
  <2> QED
    BY <1>1, <2>1, <2>2
<1> QED
  BY <1>2, <1>3, <1>4, <1>5, <1>6, <1>7, <1>8, <1>9, <1>10, <1>11, <1>12 DEF Pairing

-----------------------------------------------------------------------------
(* What the page makes of the answer *)

PartNames == {"oks", "minted", "hidden", "seen", "code", "did", "again"}

\* What the parts of page r have to be after an answer.
Answers(h, r, parts) ==
  /\ DOMAIN parts = PartNames
  /\ \A d \in parts.did : Known(h, r.page, parts, d)
  /\ ~Refreshes(r.parts.oks, parts.oks, r.call.form, KeyOf(r.call.form, r.call.arg)) /\ ~r.alert =>
       \A d \in parts.did : d \in parts.again \/ Visible(h, r.view, d)

\* After an answer the page is as it was, but for its parts, or asked for again.
LEMMA AnsweredKept ==
  ASSUME NEW h, NEW r, Formed(r), r.pc \notin Loading,
         NEW parts, Answers(h, r, parts),
         NEW s, s = Answered(r, parts)
  PROVE  /\ TabInv(h, s) /\ s.parts = parts /\ s.page = r.page /\ s.view = r.view
         /\ s.pc \in {"rest", "proxy"}
<1> DEFINE f == r.call.form
           still == [r EXCEPT !.pc = "rest", !.parts = parts, !.call = NoCall]
           again == Refreshes(r.parts.oks, parts.oks, f, KeyOf(f, r.call.arg))
<1>1. /\ still.pc = "rest" /\ still.parts = parts /\ still.page = r.page /\ still.view = r.view
      /\ still.alert = r.alert /\ still.keep = r.keep /\ still.call = NoCall
  BY DEF Formed
<1>2. Formed(still)
  BY <1>1 DEF Formed, PartNames, Answers, NoCall
<1>3. s = IF again THEN Asking(still, r.page, TRUE) ELSE still
  BY DEF Answered
<1> HIDE DEF still, again
<1>4. CASE again
  <2>1. s = Asking(still, r.page, TRUE)
    BY <1>3, <1>4
  <2>2. TabInv(h, Asking(still, r.page, TRUE))
    BY <1>1, <1>2, AskingKept DEF Answers
  <2>3. /\ s.parts = still.parts /\ s.page = still.page /\ s.view = still.view
        /\ s.pc = "proxy"
    BY <1>2, <2>1 DEF Asking, Formed
  <2> QED
    BY <1>1, <2>1, <2>2, <2>3
<1>5. CASE ~again
  <2>1. s = still
    BY <1>3, <1>5
  <2>2. ~r.alert => \A d \in parts.did : d \in parts.again \/ Visible(h, r.view, d)
    BY <1>5 DEF again, Answers
  <2>3. TabInv(h, still)
    BY <1>1, <1>2, <2>2 DEF Answers, TabInv, Loading, Acting
  <2> QED
    BY <1>1, <2>1, <2>3
<1> QED
  BY <1>4, <1>5

\* A failure takes back what only the last success of the form told.
LEMMA FailsKept ==
  ASSUME NEW h, NEW r, Busy(h, r)
  PROVE  TabInv(h, Fails(r)) /\ Fails(r).pc \in {"rest", "proxy"}
<1> DEFINE f == r.call.form
           parts == Forgets(r.parts, f, r.call.arg)
           s == Answered(r, parts)
<1>1. Formed(r) /\ r.pc \notin Loading /\ DOMAIN r.parts = PartNames
  BY DEF Busy, Formed, Loading, PartNames
<1>2. /\ DOMAIN parts = PartNames
      /\ parts.seen = r.parts.seen /\ parts.again = r.parts.again
      /\ parts.code = IF f = "invite" THEN Absent ELSE r.parts.code
      /\ parts.did = IF f = "invite" THEN {d \in r.parts.did : d[1] # f} ELSE r.parts.did
  BY <1>1 DEF Forgets, PartNames
<1>3. Fails(r) = s
  BY DEF Fails
<1> HIDE DEF parts
<1>4. \A d \in parts.did : Known(h, r.page, parts, d)
  BY <1>2 DEF Known, Busy
<1>5. ~r.alert => \A d \in parts.did : d \in parts.again \/ Visible(h, r.view, d)
  BY <1>2 DEF Busy
<1>6. Answers(h, r, parts)
  BY <1>2, <1>4, <1>5 DEF Answers
<1>7. s = Answered(r, parts)
  OBVIOUS
<1> HIDE DEF s
<1>8. TabInv(h, s) /\ s.pc \in {"rest", "proxy"}
  BY <1>1, <1>6, <1>7, AnsweredKept
<1> QED
  BY <1>3, <1>8

\* A form that tells asks for the page again, or its text came a second time.
LEMMA TextIsThere ==
  ASSUME NEW f \in Refreshing, NEW k, NEW oks, <<f, k>> \in oks
  PROVE  TextOf(oks, f, k) # Absent
<1>1. CASE f \in {"issue", "rotate"}
  <2>1. Texts(f) = <<"issue", "rotate">>
    BY <1>1, Zenon DEF Texts
  <2> QED
    BY <1>1, <2>1, FormAssumption DEF TextOf, Refreshing
<1>2. CASE f \in {"approve", "deny"}
  <2>1. Texts(f) = <<"approve", "deny">>
    BY <1>2, Zenon DEF Texts
  <2> QED
    BY <1>2, <2>1, FormAssumption DEF TextOf, Refreshing
<1>3. CASE f \notin {"issue", "rotate", "approve", "deny"}
  <2>1. Texts(f) = <<f, f>>
    BY <1>3, Zenon DEF Texts
  <2> QED
    BY <2>1, FormAssumption DEF TextOf
<1> QED
  BY <1>1, <1>2, <1>3

LEMMA LearnsKept ==
  ASSUME NEW h, NEW r, Busy(h, r), NEW n, r.call.form \in Telling => Done(h, <<r.call.form, n>>),
         NEW s, s = Answered(r, Learns(r.parts, r.call.form, r.call.arg, n))
  PROVE  /\ TabInv(h, s) /\ s.page = r.page /\ s.view = r.view /\ s.pc \in {"rest", "proxy"}
         /\ r.call.form \notin Telling => s.parts.did = r.parts.did
<1> DEFINE f == r.call.form
           a == r.call.arg
           k == KeyOf(f, a)
           new == <<f, n>>
           oks == r.parts.oks \cup {<<f, k>>}
           mine == IF f = "invite" THEN {d \in r.parts.did : d[1] # f} ELSE r.parts.did
           parts == Learns(r.parts, f, a, n)
<1>1. Formed(r) /\ r.pc \notin Loading /\ DOMAIN r.parts = PartNames /\ Placed(f, r.page)
  BY DEF Busy, Formed, Loading, PartNames
<1>2. /\ DOMAIN parts = PartNames
      /\ parts.oks = oks /\ parts.seen = r.parts.seen
      /\ parts.code = IF f = "invite" THEN n ELSE r.parts.code
      /\ parts.did = IF f \in Telling THEN mine \cup {new} ELSE r.parts.did
      /\ parts.again = IF f \in Refreshing \ {"mint"} /\ TextOf(oks, f, k) = TextOf(r.parts.oks, f, k)
                       THEN r.parts.again \cup {new} ELSE r.parts.again
  <2>1. DOMAIN parts = PartNames
    BY <1>1 DEF Learns, PartNames
  <2>2. parts.oks = oks /\ parts.seen = r.parts.seen /\ parts.code = IF f = "invite" THEN n ELSE r.parts.code
    BY <1>1 DEF Learns, PartNames
  <2>3. parts.did = IF f \in Telling THEN mine \cup {new} ELSE r.parts.did
    BY <1>1 DEF Learns, PartNames
  <2>4. parts.again = IF f \in Refreshing \ {"mint"} /\ TextOf(oks, f, k) = TextOf(r.parts.oks, f, k)
                       THEN r.parts.again \cup {new} ELSE r.parts.again
    BY <1>1 DEF Learns, PartNames
  <2> QED
    BY <2>1, <2>2, <2>3, <2>4
<1>3. "invite" \in Telling
  BY DEF Telling
<1> HIDE DEF parts
<1>4. \A d \in parts.did :
        \/ d \in r.parts.did /\ Known(h, r.page, r.parts, d) /\ (d[1] = "invite" => parts.code = r.parts.code)
        \/ f \in Telling /\ d = new
  BY <1>2, <1>3 DEF Busy
<1>5. new[1] = f /\ new[2] = n
  OBVIOUS
<1>6. f \in Telling => Done(h, new)
  OBVIOUS
<1> HIDE DEF new
<1>7. f \in Telling => Known(h, r.page, parts, new)
  BY <1>1, <1>2, <1>5, <1>6 DEF Known, Placed
<1>8. \A d \in parts.did : Known(h, r.page, parts, d)
  BY <1>4, <1>7 DEF Known
<1>9. ASSUME ~Refreshes(r.parts.oks, parts.oks, f, k), ~r.alert, NEW d \in parts.did
      PROVE  d \in parts.again \/ Visible(h, r.view, d)
  <2>1. CASE d \in r.parts.did
    BY <1>1, <1>2, <1>9, <2>1 DEF Busy
  <2>2. CASE f \in Refreshing /\ d = new
    <3>1. <<f, k>> \in parts.oks
      BY <1>2
    <3>2. f # "mint" /\ TextOf(parts.oks, f, k) = TextOf(r.parts.oks, f, k)
      BY <1>9, <2>2, <3>1, TextIsThere DEF Refreshes
    <3> QED
      BY <1>2, <2>2, <3>2
  <2>3. CASE f = "invite" /\ d = new
    BY <1>5, <2>3 DEF Visible
  <2> QED
    BY <1>4, <2>1, <2>2, <2>3 DEF Telling, Refreshing
<1>10. TabInv(h, s) /\ s.parts = parts /\ s.page = r.page /\ s.view = r.view /\ s.pc \in {"rest", "proxy"}
  <2>1. s = Answered(r, parts)
    BY DEF parts
  <2>2. ~Refreshes(r.parts.oks, parts.oks, r.call.form, KeyOf(r.call.form, r.call.arg)) /\ ~r.alert =>
           \A d \in parts.did : d \in parts.again \/ Visible(h, r.view, d)
    BY <1>9
  <2>3. Answers(h, r, parts)
    BY <1>2, <1>8, <2>2 DEF Answers
  <2> QED
    BY <1>1, <2>1, <2>3, AnsweredKept
<1> QED
  BY <1>2, <1>10

\* The operations page takes the listing it gets.
LEMMA ListingKept ==
  ASSUME NEW h, NEW s, TabInv(h, s), NEW l
  PROVE  TabInv(h, [s EXCEPT !.view.listing = l]) /\ [s EXCEPT !.view.listing = l].pc = s.pc
<1> DEFINE z == [s EXCEPT !.view.listing = l]
<1>1. Formed(s)
  BY DEF TabInv
<1>2. /\ DOMAIN z = DOMAIN s /\ z.page = s.page /\ z.pc = s.pc /\ z.to = s.to /\ z.keep = s.keep /\ z.me = s.me
      /\ z.alert = s.alert /\ z.parts = s.parts /\ z.call = s.call
      /\ z.view = [s.view EXCEPT !.listing = l]
  BY <1>1 DEF Formed
<1>3. /\ DOMAIN z.view = Fields
      /\ z.view.pin = s.view.pin /\ z.view.slug = s.view.slug /\ z.view.asks = s.view.asks
      /\ z.view.incoming = s.view.incoming /\ z.view.links = s.view.links /\ z.view.keys = s.view.keys
  BY <1>1, <1>2 DEF Formed, Fields
<1> HIDE DEF z
<1>4. Formed(z)
  BY <1>1, <1>2, <1>3 DEF Formed
<1>5. \A d : Visible(h, s.view, d) => Visible(h, z.view, d)
  BY <1>2, <1>3 DEF Visible
<1>6. TabInv(h, z)
  BY <1>2, <1>4, <1>5 DEF TabInv
<1> QED
  BY <1>2, <1>6 DEF z

\* The operations page says nothing of a list that failed before.
LEMMA AlertKept ==
  ASSUME NEW h, NEW s, TabInv(h, s), s.parts.did = {}
  PROVE  TabInv(h, [s EXCEPT !.alert = FALSE]) /\ [s EXCEPT !.alert = FALSE].pc = s.pc
<1> DEFINE z == [s EXCEPT !.alert = FALSE]
<1>1. /\ DOMAIN z = DOMAIN s /\ z.page = s.page /\ z.pc = s.pc /\ z.to = s.to /\ z.keep = s.keep /\ z.me = s.me
      /\ z.alert = FALSE /\ z.parts = s.parts /\ z.call = s.call /\ z.view = s.view
  BY DEF TabInv, Formed
<1> HIDE DEF z
<1>2. Formed(z)
  BY <1>1 DEF TabInv, Formed
<1>3. TabInv(h, z)
  BY <1>1, <1>2 DEF TabInv
<1> QED
  BY <1>1, <1>3 DEF z

\* Where a success leads, `s` the page after the answer.
Leads(r, s) ==
  LET f == r.call.form
      n == r.call.row
  IN /\ f \in {"create", "join"} => Succeeds(r) = Asking(s, "dashboard", FALSE)
     /\ f = "wait" /\ r.page = "alpha" => Succeeds(r) = Asking(s, "download", FALSE)
     /\ f \in Listing /\ r.view.listing # "none" => Succeeds(r) = [s EXCEPT !.view.listing = n]
     /\ f = "refresh" => Succeeds(r) = [s EXCEPT !.view.listing = n, !.alert = FALSE]
     /\ /\ f \notin {"create", "join", "refresh"} /\ ~(f = "wait" /\ r.page = "alpha")
        /\ ~(f \in Listing /\ r.view.listing # "none")
        => Succeeds(r) = s

LEMMA SucceedsCases ==
  ASSUME NEW r, NEW s, s = Answered(r, Learns(r.parts, r.call.form, r.call.arg, r.call.row))
  PROVE  Leads(r, s)
<1> DEFINE f == r.call.form
           n == r.call.row
<1>1. Succeeds(r) =
        CASE f \in {"create", "join"} -> Asking(s, "dashboard", FALSE)
          [] f = "wait" /\ r.page = "alpha" -> Asking(s, "download", FALSE)
          [] f \in Listing /\ r.view.listing # "none" -> [s EXCEPT !.view.listing = n]
          [] f = "refresh" -> [s EXCEPT !.view.listing = n, !.alert = FALSE]
          [] OTHER -> s
  BY Zenon DEF Succeeds
<1> QED
  BY <1>1, Zenon DEF Leads, Listing

LEMMA SucceedsKept ==
  ASSUME NEW h, NEW r, Busy(h, r), r.call.form \in Telling => Done(h, <<r.call.form, r.call.row>>)
  PROVE  TabInv(h, Succeeds(r)) /\ Succeeds(r).pc \in {"rest", "proxy"}
<1> DEFINE f == r.call.form
           n == r.call.row
           s == Answered(r, Learns(r.parts, f, r.call.arg, n))
           Ends(z) == TabInv(h, z) /\ z.pc \in {"rest", "proxy"}
<1>0. s = Answered(r, Learns(r.parts, f, r.call.arg, n))
  OBVIOUS
<1> HIDE DEF s
<1>1. /\ TabInv(h, s) /\ s.page = r.page /\ s.pc \in {"rest", "proxy"}
      /\ f \notin Telling => s.parts.did = r.parts.did
  BY <1>0, LearnsKept
<1>2. Leads(r, s)
  BY <1>0, SucceedsCases
<1>3. \/ Succeeds(r) = Asking(s, "dashboard", FALSE)
      \/ Succeeds(r) = Asking(s, "download", FALSE)
      \/ Succeeds(r) = [s EXCEPT !.view.listing = n]
      \/ f = "refresh" /\ Succeeds(r) = [s EXCEPT !.view.listing = n, !.alert = FALSE]
      \/ Succeeds(r) = s
  BY <1>2 DEF Leads
<1>4. \A p : Ends(Asking(s, p, FALSE))
  <2>1. \A p : TabInv(h, Asking(s, p, FALSE))
    BY <1>1, AskingKept DEF TabInv
  <2>2. \A p : Asking(s, p, FALSE).pc = "proxy"
    BY <1>1 DEF TabInv, Formed, Asking
  <2> QED
    BY <2>1, <2>2
<1>5. \A x : Ends([s EXCEPT !.view.listing = x])
  BY <1>1, ListingKept
<1>6. ASSUME f = "refresh"
      PROVE  Ends([s EXCEPT !.view.listing = n, !.alert = FALSE])
  <2>1. r.page = "ops" /\ f \notin Telling
    BY <1>6 DEF Busy, Placed, Telling
  <2>2. s.parts.did = {}
    BY <1>1, <2>1, HomeIsListed DEF Busy, Homes
  <2> DEFINE z == [s EXCEPT !.view.listing = n]
  <2>3. z.parts = s.parts
    BY <1>1 DEF TabInv, Formed
  <2>4. Ends(z) /\ z.parts.did = {}
    BY <1>5, <2>2, <2>3
  <2> HIDE DEF z
  <2>5. Ends([z EXCEPT !.alert = FALSE])
    BY <2>4, AlertKept
  <2> QED
    BY <2>5 DEF z
<1>7. Ends(s)
  BY <1>1
<1> HIDE DEF Ends
<1>8. Ends(Succeeds(r))
  BY <1>3, <1>4, <1>5, <1>6, <1>7
<1> QED
  BY <1>8 DEF Ends

-----------------------------------------------------------------------------
(* The steps of an action *)

\* A call that is under way keeps its place when only its progress changes.
LEMMA OnItsWay ==
  ASSUME NEW h, NEW r, Busy(h, r),
         NEW s, Formed(s), s.pc \in {"answer", "mail"}, s.pc = "mail" => s.call.form = "invite",
         s.alert = r.alert, s.page = r.page, s.parts = r.parts, s.view = r.view,
         s.call.form = r.call.form, s.call.form \in Telling => Done(h, <<s.call.form, s.call.row>>)
  PROVE  TabInv(h, s)
BY DEF Busy, TabInv, Loading, Acting

LEMMA BusyTabs ==
  ASSUME SiteInv, NEW t \in Tabs, tab[t].pc \in {"call", "answer", "mail"}
  PROVE  /\ Busy(hub, tab[t]) /\ HubInv(hub) /\ Onward(hub, hub)
         /\ tab[t].pc # "call" /\ tab[t].call.form \in Telling => Done(hub, <<tab[t].call.form, tab[t].call.row>>)
BY TabFacts, HubRests DEF SiteInv, TabInv, Busy, Loading, Acting

\* What a call does: it fails, it is done, or the listings fail.
CallFails(t) == Becomes(t, Fails(tab[t])) /\ UNCHANGED <<hub, account, told>>
CallWith(t, n) == [tab[t] EXCEPT !.pc = "answer", !.call = [tab[t].call EXCEPT !.row = n]]
CallIsDone(t, n) ==
  /\ Accepts(tab[t].call.form, tab[t].call.arg) /\ n \in Made(tab[t].call.form, tab[t].call.arg)
  /\ hub' = NewHub(tab[t].call.form, n) /\ account' = JoinsAs(tab[t].call.form)
  /\ UNCHANGED <<told, scope>> /\ Becomes(t, CallWith(t, n))
CallListsFail(t) ==
  tab[t].call.form = "refresh" /\ UNCHANGED <<hub, account, told>> /\ Becomes(t, CallWith(t, "none"))

LEMMA CallWithFields ==
  ASSUME NEW t, Formed(tab[t]), NEW n
  PROVE  LET r == tab[t]
             s == CallWith(t, n)
         IN /\ Formed(s) /\ s.pc = "answer" /\ s.alert = r.alert /\ s.page = r.page /\ s.parts = r.parts
            /\ s.view = r.view /\ s.call.form = r.call.form /\ s.call.row = n
<1> DEFINE r == tab[t]
           s == CallWith(t, n)
<1>1. /\ s.pc = "answer" /\ s.alert = r.alert /\ s.page = r.page /\ s.parts = r.parts
      /\ s.view = r.view /\ s.keep = r.keep /\ DOMAIN s = DOMAIN r /\ s.call = [r.call EXCEPT !.row = n]
  BY DEF Formed, CallWith
<1>2. DOMAIN s.call = DOMAIN r.call /\ s.call.form = r.call.form /\ s.call.row = n
  BY <1>1 DEF Formed
<1> HIDE DEF s
<1>3. Formed(s)
  <2>1. /\ DOMAIN r = {"page", "pc", "to", "keep", "me", "view", "alert", "parts", "call"}
        /\ DOMAIN r.parts = {"oks", "minted", "hidden", "seen", "code", "did", "again"}
        /\ DOMAIN r.view = Fields /\ DOMAIN r.call = {"form", "arg", "row"}
        /\ r.keep \in BOOLEAN /\ r.alert \in BOOLEAN
    BY DEF Formed
  <2> HIDE DEF r
  <2> QED
    BY <1>1, <1>2, <2>1, Zenon DEF Formed
<1> QED
  BY <1>1, <1>2, <1>3 DEF s

LEMMA CallCases ==
  ASSUME NEW t, Formed(tab[t]), CallStep(t)
  PROVE  /\ tab[t].pc = "call"
         /\ CallFails(t) \/ CallListsFail(t) \/ \E n : CallIsDone(t, n)
<1> DEFINE r == tab[t]
           f == r.call.form
           a == r.call.arg
<1>1. \A n : [r EXCEPT !.pc = "answer", !.call.row = n] = CallWith(t, n)
  BY DEF CallWith, Formed
<1>2. r.pc = "call"
  <2>1. At(t, "call")
    BY ZenonT(60) DEF CallStep
  <2> QED
    BY <2>1 DEF At
<1>3. \/ Becomes(t, Fails(r)) /\ UNCHANGED pageVars
      \/ Accepts(f, a) /\ UNCHANGED scope
         /\ \E n \in Made(f, a) : Commits(f, n) /\ Becomes(t, [r EXCEPT !.pc = "answer", !.call.row = n])
      \/ f = "refresh" /\ Becomes(t, [r EXCEPT !.pc = "answer", !.call.row = "none"]) /\ UNCHANGED pageVars
  BY DEF CallStep, Reaches
<1>4. ASSUME Becomes(t, Fails(r)), UNCHANGED pageVars PROVE CallFails(t)
  BY <1>4 DEF CallFails, pageVars
<1>5. ASSUME Accepts(f, a), UNCHANGED scope, NEW n \in Made(f, a), Commits(f, n),
             Becomes(t, [r EXCEPT !.pc = "answer", !.call.row = n])
      PROVE  CallIsDone(t, n)
  BY <1>1, <1>5, Zenon DEF CallIsDone, Commits
<1>6. ASSUME f = "refresh", Becomes(t, [r EXCEPT !.pc = "answer", !.call.row = "none"]), UNCHANGED pageVars
      PROVE  CallListsFail(t)
  BY <1>1, <1>6 DEF CallListsFail, pageVars
<1> QED
  BY <1>2, <1>3, <1>4, <1>5, <1>6

LEMMA CallStepKept ==
  ASSUME SiteInv, NEW t \in Tabs, CallStep(t)
  PROVE  SiteInv'
<1> DEFINE r == tab[t]
<1>1. r.pc = "call" /\ Busy(hub, r) /\ HubInv(hub) /\ TabInv(hub, r)
  BY TabFacts, CallCases, BusyTabs
<1>2. CASE CallFails(t)
  BY <1>1, <1>2, FailsKept, TabMovesAlone DEF CallFails
<1>3. CASE CallListsFail(t)
  <2>1. r.call.form \notin Telling
    BY <1>3 DEF CallListsFail, Telling
  <2> DEFINE s == CallWith(t, "none")
  <2>2. /\ Formed(s) /\ s.pc = "answer" /\ s.alert = r.alert /\ s.page = r.page /\ s.parts = r.parts
        /\ s.view = r.view /\ s.call.form = r.call.form
    BY <1>1, CallWithFields DEF Busy
  <2> HIDE DEF s
  <2>3. TabInv(hub, s)
    BY <1>1, <2>1, <2>2, OnItsWay
  <2> QED
    BY <1>3, <2>3, TabMovesAlone DEF CallListsFail, s
<1>4. ASSUME NEW n, CallIsDone(t, n) PROVE SiteInv'
  <2>1. HubInv(hub') /\ Onward(hub, hub') /\ (r.call.form \in Telling => Done(hub', <<r.call.form, n>>))
    BY <1>1, <1>4, HubMoves DEF CallIsDone
  <2>2. TabInv(hub', r)
    BY <1>1, <2>1, TabStays
  <2>3. Busy(hub', r)
    BY <1>1, <2>2 DEF TabInv, Busy, Loading, Acting
  <2> DEFINE s == CallWith(t, n)
  <2>4. /\ Formed(s) /\ s.pc = "answer" /\ s.alert = r.alert /\ s.page = r.page /\ s.parts = r.parts
        /\ s.view = r.view /\ s.call.form = r.call.form /\ s.call.row = n
    BY <1>1, CallWithFields DEF Busy
  <2>5. Becomes(t, s)
    BY <1>4 DEF CallIsDone
  <2> HIDE DEF s
  <2>6. TabInv(hub', s)
    BY <2>1, <2>3, <2>4, OnItsWay
  <2> QED
    BY <2>1, <2>5, <2>6, TabMoves
<1> QED
  BY <1>2, <1>3, <1>4, TabFacts, CallCases

\* What an answer does: it is lost, it is told, or a mail is still to be sent.
AnswerLost(t) == Becomes(t, Fails(tab[t])) /\ UNCHANGED <<hub, account, told>> /\ Misses
AnswerMails(t) ==
  /\ tab[t].call.form = "invite" /\ UNCHANGED <<hub, account, told, scope>>
  /\ Becomes(t, [tab[t] EXCEPT !.pc = "mail"])

LEMMA AnswerCases ==
  ASSUME NEW t, AnswerStep(t) \/ MailStep(t)
  PROVE  /\ tab[t].pc \in {"answer", "mail"}
         /\ AnswerLost(t) \/ AnswerMails(t) \/ Informs(t)
BY DEF AnswerStep, MailStep, At, pageVars, ByMail, AnswerLost, AnswerMails, Reaches

LEMMA AnswerKept ==
  ASSUME SiteInv, NEW t \in Tabs, AnswerStep(t) \/ MailStep(t)
  PROVE  SiteInv'
<1> DEFINE r == tab[t]
<1>1. /\ r.pc \in {"answer", "mail"} /\ Busy(hub, r) /\ Formed(r)
      /\ r.call.form \in Telling => Done(hub, <<r.call.form, r.call.row>>)
  BY TabFacts, AnswerCases, BusyTabs
<1>2. CASE AnswerLost(t)
  BY <1>1, <1>2, FailsKept, TabMovesAlone DEF AnswerLost
<1>3. CASE Informs(t)
  BY <1>1, <1>3, SucceedsKept, TabMovesAlone DEF Informs
<1>4. CASE AnswerMails(t)
  <2> DEFINE s == [r EXCEPT !.pc = "mail"]
  <2>1. /\ s.pc = "mail" /\ s.alert = r.alert /\ s.page = r.page /\ s.parts = r.parts /\ s.view = r.view
        /\ s.call = r.call /\ s.keep = r.keep /\ DOMAIN s = DOMAIN r
    BY <1>1 DEF Formed
  <2>2. Formed(s)
    BY <1>1, <2>1 DEF Formed
  <2> HIDE DEF s
  <2>3. TabInv(hub, s)
    BY <1>1, <1>4, <2>1, <2>2, OnItsWay DEF AnswerMails
  <2> QED
    BY <1>4, <2>3, TabMovesAlone DEF AnswerMails, s
<1> QED
  BY <1>2, <1>3, <1>4, AnswerCases

LEMMA WaitStepKept ==
  ASSUME SiteInv, NEW t \in Tabs, WaitStep(t)
  PROVE  SiteInv'
<1> DEFINE r == tab[t]
<1>1. r.pc = "call" /\ UNCHANGED hub /\ r.call.form \notin Telling
  BY DEF WaitStep, At, Telling
<1>2. Becomes(t, Fails(r)) \/ Becomes(t, Succeeds(r))
  BY DEF WaitStep
<1>3. TabInv(hub, Fails(r)) /\ TabInv(hub, Succeeds(r))
  BY <1>1, BusyTabs, FailsKept, SucceedsKept
<1> QED
  BY <1>1, <1>2, <1>3, TabMovesAlone

-----------------------------------------------------------------------------
(* The invariant of the site *)

LEMMA NextKept ==
  ASSUME SiteInv, Next
  PROVE  SiteInv'
<1>1. CASE World
  BY <1>1, WorldKept
<1>2. ASSUME NEW t \in Tabs, PageStep(t) PROVE SiteInv'
  BY <1>2, PageStepKept
<1>3. ASSUME NEW t \in Tabs, ActStep(t) PROVE SiteInv'
  BY <1>3, ActSessionKept, CallStepKept, AnswerKept, WaitStepKept DEF ActStep
<1>4. ASSUME NEW t \in Tabs, Submit(t) PROVE SiteInv'
  BY <1>4, SubmitKept
<1>5. ASSUME NEW t \in Tabs, Dismiss(t) PROVE SiteInv'
  BY <1>5, DismissKept
<1>6. ASSUME NEW t \in Tabs, SignIn(t) PROVE SiteInv'
  BY <1>6, SignInKept
<1>7. ASSUME NEW t \in Tabs, NEW p \in scope.go, Visit(t, p) PROVE SiteInv'
  BY <1>7, VisitKept
<1> QED
  BY <1>1, <1>2, <1>3, <1>4, <1>5, <1>6, <1>7 DEF Next

LEMMA SiteStutters ==
  ASSUME SiteInv, UNCHANGED vars
  PROVE  SiteInv'
BY DEF SiteInv, vars

LEMMA SiteBegins ==
  ASSUME Init
  PROVE  SiteInv
<1>1. scope \in Scopes /\ tab = [t \in Tabs |-> Blank]
      /\ hub = [pin |-> 0, asks |-> {}, incoming |-> scope.incoming, links |-> {}, keys |-> {},
                invites |-> {}, gone |-> {}, slug |-> 0, listing |-> "draft", next |-> 3]
  BY DEF Init, InitPages
<1>2. scope.incoming \subseteq {1, 2}
  BY <1>1, WebAssumption
<1>3. HubInv(hub)
  <2>1. hub \in HubRow
    BY <1>1, <1>2 DEF HubRow
  <2>2. /\ hub.slug = 0 /\ hub.next = 3 /\ hub.asks = {} /\ hub.links = {} /\ hub.keys = {}
        /\ hub.gone = {} /\ hub.incoming = scope.incoming
    BY <1>1
  <2>3. \A x \in hub.asks \cup hub.incoming \cup hub.links \cup hub.keys \cup hub.gone : x < hub.next
    BY <1>2, <2>2
  <2> QED
    BY <2>1, <2>2, <2>3 DEF HubInv
<1>4. Formed(Blank)
  BY DEF Formed, Blank, Mounted, Rows, Fields, NoCall
<1>5. TabInv(hub, Blank)
  BY <1>4 DEF TabInv, Blank, NoCall, Mounted, Loading, Acting
<1> QED
  BY <1>1, <1>3, <1>5 DEF SiteInv

\* The rows and the pages fit together, in every step of loading and acting.
THEOREM SiteInvariant == Spec => []SiteInv
<1>1. Init => SiteInv
  BY SiteBegins
<1>2. SiteInv /\ [Next]_vars => SiteInv'
  BY NextKept, SiteStutters
<1> QED
  BY <1>1, <1>2, PTL DEF Spec

-----------------------------------------------------------------------------
(* What is told, and what nobody heard of *)

\* What a tab's call has made at the hub and not told yet.
Making(r) == IF r.pc \in {"answer", "mail"} THEN Tells(r.call) ELSE {}

\* Joining is told once it is so; and there is no more unheard of than calls that
\* failed.
Joined(c) == (c.form = "create" => account = "admin") /\ (c.form = "join" => account = "member")
WordInv ==
  /\ \A d \in told : \/ d[1] \in Telling /\ Done(hub, d)
                     \/ d[1] = "create" /\ account = "admin"
                     \/ d[1] = "join" /\ account = "member"
  /\ \A t \in Tabs : tab[t].pc \in {"answer", "mail"} => Joined(tab[t].call)
  /\ DOMAIN scope = {"go", "do", "left", "trouble", "missed", "as", "incoming"} /\ scope.missed \in Nat
  /\ IsFiniteSet(Unheard) /\ Cardinality(Unheard) <= scope.missed

\* The steps that only read what is said, told and counted.
Counted ==
  /\ DOMAIN scope' = {"go", "do", "left", "trouble", "missed", "as", "incoming"}
  /\ scope'.missed \in Nat /\ scope.missed <= scope'.missed

LEMMA CountedSteps ==
  ASSUME WordInv
  PROVE  /\ UNCHANGED scope => Counted
         /\ Happens => Counted
         /\ Misses => Counted /\ scope'.missed = scope.missed + 1
<1>1. DOMAIN scope = {"go", "do", "left", "trouble", "missed", "as", "incoming"} /\ scope.missed \in Nat
  BY DEF WordInv
<1>2. UNCHANGED scope => Counted
  BY <1>1 DEF Counted
<1>3. Happens => Counted
  BY <1>1 DEF Counted, Happens
<1>4. Misses => Counted /\ scope'.missed = scope.missed + 1
  BY <1>1 DEF Counted, Misses
<1> QED
  BY <1>2, <1>3, <1>4

LEMMA UnderWayIs ==
  ASSUME NEW d
  PROVE  d \in UnderWay <=> \E t \in Tabs : d \in Making(tab[t])
BY DEF UnderWay, Making

LEMMA UnderWayWas ==
  ASSUME NEW d
  PROVE  d \in UnderWay' <=> \E t \in Tabs : d \in Making(tab'[t])
BY DEF UnderWay, Making

\* Nothing becomes unheard of but what tab t had made, and did not tell.
LEMMA UnheardOf ==
  ASSUME SiteInv, NEW t \in Tabs, NEW r, Becomes(t, r), told \subseteq told',
         Standing' \subseteq Standing \cup Making(r)
  PROVE  Unheard' \subseteq Unheard \cup (Making(tab[t]) \ (Making(r) \cup told'))
<1>1. tab'[t] = r /\ \A u \in Tabs \ {t} : tab'[u] = tab[u]
  BY DEF SiteInv, Becomes
<1>2. SUFFICES ASSUME NEW d \in Unheard', d \notin Unheard
               PROVE  d \in Making(tab[t]) /\ d \notin Making(r) /\ d \notin told'
  OBVIOUS
<1>3. d \in Standing' /\ d \notin told' /\ d \notin UnderWay'
  BY <1>2 DEF Unheard
<1>4. \A u \in Tabs : d \notin Making(tab'[u])
  BY <1>3, UnderWayWas
<1>5. d \notin Making(r)
  BY <1>1, <1>4
<1>6. d \in Standing /\ d \notin told
  BY <1>3, <1>5
<1>7. d \in UnderWay
  BY <1>2, <1>6 DEF Unheard
<1>8. PICK u \in Tabs : d \in Making(tab[u])
  BY <1>7, UnderWayIs
<1>9. u = t
  BY <1>1, <1>4, <1>8
<1> QED
  BY <1>3, <1>5, <1>8, <1>9

\* No more is unheard of than before, in a step that counts no less.
LEMMA FewerUnheard ==
  ASSUME WordInv, Counted, Unheard' \subseteq Unheard
  PROVE  IsFiniteSet(Unheard') /\ Cardinality(Unheard') <= scope'.missed
<1>1. IsFiniteSet(Unheard) /\ Cardinality(Unheard) <= scope.missed /\ scope.missed \in Nat
  BY DEF WordInv
<1>2. IsFiniteSet(Unheard') /\ Cardinality(Unheard') <= Cardinality(Unheard)
  BY <1>1, FS_Subset
<1>3. Cardinality(Unheard) \in Nat /\ Cardinality(Unheard') \in Nat
  BY <1>1, <1>2, FS_CardinalityType
<1> QED
  BY <1>1, <1>2, <1>3 DEF Counted

\* One more is, in a call that is counted.
LEMMA OneMoreUnheard ==
  ASSUME WordInv, Misses, NEW d, Unheard' \subseteq Unheard \cup {d}
  PROVE  IsFiniteSet(Unheard') /\ Cardinality(Unheard') <= scope'.missed
<1>1. IsFiniteSet(Unheard) /\ Cardinality(Unheard) <= scope.missed /\ scope.missed \in Nat
  BY DEF WordInv
<1>2. /\ IsFiniteSet(Unheard \cup {d})
      /\ Cardinality(Unheard \cup {d}) = Cardinality(Unheard) \/ Cardinality(Unheard \cup {d}) = Cardinality(Unheard) + 1
  BY <1>1, FS_AddElement
<1>3. IsFiniteSet(Unheard') /\ Cardinality(Unheard') <= Cardinality(Unheard \cup {d})
  BY <1>2, FS_Subset
<1>4. Cardinality(Unheard) \in Nat /\ Cardinality(Unheard') \in Nat
  BY <1>1, <1>3, FS_CardinalityType
<1>5. scope'.missed = scope.missed + 1
  BY CountedSteps
<1> QED
  BY <1>1, <1>2, <1>3, <1>4, <1>5

\* A step of one tab that neither makes nor tells.
Quiet(t) ==
  /\ UNCHANGED <<hub, account, told>> /\ Counted
  /\ tab[t].pc \notin {"answer", "mail"}
  /\ \E r : /\ Becomes(t, r)
            /\ r.pc \in {"answer", "mail"} => r.call.form = "refresh"

LEMMA QuietKept ==
  ASSUME SiteInv, WordInv, NEW t \in Tabs, Quiet(t)
  PROVE  WordInv'
<1>1. PICK r : Becomes(t, r) /\ (r.pc \in {"answer", "mail"} => r.call.form = "refresh")
  BY DEF Quiet
<1>2. tab'[t] = r /\ \A u \in Tabs \ {t} : tab'[u] = tab[u]
  BY <1>1 DEF SiteInv, Becomes
<1>3. hub' = hub /\ account' = account /\ told' = told /\ Counted /\ Making(tab[t]) = {} /\ Making(r) = {}
  BY <1>1 DEF Quiet, Making, Tells, Telling
<1>4. Unheard' \subseteq Unheard
  <2>1. Standing' = Standing
    BY <1>3 DEF Standing
  <2> QED
    BY <1>1, <1>3, <2>1, UnheardOf
<1>5. \A u \in Tabs : tab'[u].pc \in {"answer", "mail"} =>
        Joined(tab'[u].call) \/ tab'[u].call.form = "refresh"
  BY <1>1, <1>2 DEF WordInv
<1>6. \A u \in Tabs : tab'[u].pc \in {"answer", "mail"} =>
        /\ tab'[u].call.form = "create" => account' = "admin"
        /\ tab'[u].call.form = "join" => account' = "member"
  BY <1>3, <1>5 DEF Joined
<1>7. IsFiniteSet(Unheard') /\ Cardinality(Unheard') <= scope'.missed
  BY <1>3, <1>4, FewerUnheard
<1> QED
  BY <1>3, <1>6, <1>7 DEF WordInv, Counted, Joined

\* Where the steps of loading and of failing leave a tab.
LEMMA AskingAsks ==
  ASSUME NEW r, Formed(r), NEW p, NEW keep
  PROVE  Asking(r, p, keep).pc = "proxy" /\ DOMAIN Asking(r, p, keep) = DOMAIN r
BY DEF Asking, Formed

LEMMA ShownRests ==
  ASSUME NEW r, Formed(r), NEW p, NEW view, NEW alert
  PROVE  Shown(r, p, view, alert).pc = "rest"
<1> DEFINE was == IF r.keep /\ r.page = p THEN r.parts ELSE Mounted
           parts == [was EXCEPT !.seen = @ \cup view.keys, !.again = {}]
           new == [parts EXCEPT !.oks = Kept(@, parts, view)]
<1>1. Shown(r, p, view, alert) =
        [r EXCEPT !.page = p, !.pc = "rest", !.me = Absent, !.view = view, !.alert = alert, !.parts = new]
  BY DEF Shown
<1> HIDE DEF new
<1> QED
  BY <1>1 DEF Formed

LEMMA SignsInRests ==
  ASSUME NEW back
  PROVE  SignsIn(back).pc = "rest"
BY DEF SignsIn, Blank

LEMMA QuietStep ==
  ASSUME WordInv, NEW t, UNCHANGED <<hub, account, told>>, tab[t].pc \notin {"answer", "mail"},
         NEW r, Becomes(t, r), r.pc \notin {"answer", "mail"},
         UNCHANGED scope \/ Happens \/ Misses
  PROVE  Quiet(t)
BY CountedSteps DEF Quiet

LEMMA PageIsQuiet ==
  ASSUME SiteInv, WordInv, NEW t \in Tabs, PageStep(t)
  PROVE  Quiet(t)
<1> DEFINE r == tab[t]
           V(ok) == View(r.to, ok, r.me)
<1>1. Formed(r)
  BY TabFacts
<1>a. \A p : Asking(r, p, FALSE).pc = "proxy"
  BY <1>1, AskingAsks
<1>b. \A p, view, alert : Shown(r, p, view, alert).pc = "rest"
  BY <1>1, ShownRests, Zenon
<1>2. r.pc \in Loading /\ UNCHANGED <<hub, account, told>>
  BY DEF PageStep, Proxy, PageSession, PageMe, PageSeed, PageLoad, At, Loading, pageVars
<1>3. UNCHANGED scope \/ Misses
  BY DEF PageStep, Proxy, PageSession, PageMe, PageSeed, PageLoad, Reaches
<1>4. CASE Proxy(t)
  <2>1. PICK s : Becomes(t, s) /\ (s = SignsIn(r.to) \/ s = [r EXCEPT !.pc = "page"])
    BY <1>4 DEF Proxy
  <2>2. s.pc \in {"rest", "page"}
    BY <1>1, <2>1, SignsInRests DEF Formed
  <2> QED
    BY <1>2, <1>3, <2>1, <2>2, QuietStep DEF Loading
<1>5. CASE PageSession(t)
  <2>1. PICK s : /\ Becomes(t, s)
                 /\ s = CASE r.to = "login" /\ cookie.in -> Asking(r, "dashboard", FALSE)
                          [] r.to \in {"waitlist", "alpha"} /\ unlocked -> Asking(r, "download", FALSE)
                          [] r.to = "download" /\ ~unlocked -> Asking(r, "alpha", FALSE)
                          [] r.to \in Protected \cup Members /\ ~cookie.in -> SignsIn(ReturnTo(r.to))
                          [] r.to \in Protected \cup Members /\ cookie.in -> [r EXCEPT !.pc = "me"]
                          [] OTHER -> Shown(r, r.to, Rows, FALSE)
    BY <1>5 DEF PageSession
  <2>2. SignsIn(ReturnTo(r.to)).pc = "rest" /\ [r EXCEPT !.pc = "me"].pc = "me"
    BY <1>1, SignsInRests DEF Formed
  <2> DEFINE Quick(x) == x.pc \notin {"answer", "mail"}
  <2>3. \A p : Quick(Asking(r, p, FALSE))
    BY <1>a
  <2>4. Quick(SignsIn(ReturnTo(r.to))) /\ Quick([r EXCEPT !.pc = "me"])
    BY <2>2
  <2>5. Quick(Shown(r, r.to, Rows, FALSE))
    <3>1. Shown(r, r.to, Rows, FALSE).pc = "rest"
      BY <1>b, Zenon
    <3> QED
      BY <3>1
  <2> HIDE DEF Quick
  <2>6. Quick(s)
    BY <2>1, <2>3, <2>4, <2>5
  <2>7. s.pc \notin {"answer", "mail"}
    BY <2>6 DEF Quick
  <2> QED
    BY <1>2, <1>3, <2>1, <2>7, QuietStep DEF Loading
<1>6. CASE PageMe(t)
  <2>1. PICK s : /\ Becomes(t, s)
                 /\ s \in {EntryDown(r), MemberDown(r), EntryWithMe(r), MemberWithMe(r)}
    BY <1>6 DEF PageMe
  <2>2. EntryDown(r).pc = "rest" /\ EntryWithMe(r).pc \in {"rest", "proxy"}
    BY <1>a, <1>b, Zenon DEF EntryDown, EntryWithMe
  <2>3. MemberDown(r).pc = "proxy"
    <3> DEFINE a == Asking(r, "signup", FALSE)
    <3>1. a.pc = "proxy" /\ DOMAIN a = DOMAIN r
      BY <1>1, AskingAsks
    <3> HIDE DEF a
    <3>2. [a EXCEPT !.alert = TRUE].pc = "proxy"
      BY <1>1, <3>1 DEF Formed
    <3> QED
      BY <3>2 DEF MemberDown, a
  <2>4. MemberWithMe(r).pc \in {"proxy", "load", "seed"}
    <3>1. \A me : [r EXCEPT !.pc = "load", !.me = me].pc = "load" /\ [r EXCEPT !.pc = "seed", !.me = me].pc = "seed"
      BY <1>1 DEF Formed
    <3> QED
      BY <1>a, <3>1, Zenon DEF MemberWithMe
  <2>5. s.pc \in {"proxy", "rest", "load", "seed"}
    BY <2>1, <2>2, <2>3, <2>4
  <2> QED
    BY <1>2, <1>3, <2>1, <2>5, QuietStep DEF Loading
<1>7. CASE PageSeed(t)
  <2>1. Becomes(t, [r EXCEPT !.pc = "load"])
    BY <1>7 DEF PageSeed
  <2>2. [r EXCEPT !.pc = "load"].pc = "load"
    BY <1>1 DEF Formed
  <2> QED
    BY <1>2, <1>3, <2>1, <2>2, QuietStep DEF Loading
<1>8. CASE PageLoad(t)
  <2>1. PICK s : /\ Becomes(t, s)
                 /\ \/ s = Asking(r, "dashboard", FALSE)
                    \/ s = Shown(r, r.to, V(HubShows(r.to)), ~HubShows(r.to))
                    \/ s = Shown(r, r.to, V(FALSE), TRUE)
                    \/ s = Shown(r, r.to, V(FALSE), FALSE)
    BY <1>8 DEF PageLoad
  <2> DEFINE Quick(x) == x.pc = "proxy" \/ x.pc = "rest"
  <2>2. Quick(Asking(r, "dashboard", FALSE))
    BY <1>a
  <2>3. \A view, alert : Quick(Shown(r, r.to, view, alert))
    BY <1>b, Zenon
  <2> HIDE DEF Quick, V
  <2>4. Quick(s)
    BY <2>1, <2>2, <2>3, Zenon
  <2>5. s.pc = "proxy" \/ s.pc = "rest"
    BY <2>4 DEF Quick
  <2> QED
    BY <1>2, <1>3, <2>1, <2>5, QuietStep DEF Loading
<1> QED
  BY <1>4, <1>5, <1>6, <1>7, <1>8 DEF PageStep

LEMMA PersonIsQuiet ==
  ASSUME SiteInv, WordInv, NEW t \in Tabs,
         Submit(t) \/ Dismiss(t) \/ SignIn(t) \/ (\E p \in scope.go : Visit(t, p)) \/ ActSession(t)
  PROVE  Quiet(t)
<1> DEFINE r == tab[t]
<1>1. Formed(r)
  BY TabFacts
<1>2. r.pc \in {"rest", "act"} /\ UNCHANGED <<hub, account, told>> /\ (UNCHANGED scope \/ Happens)
  BY DEF Submit, Dismiss, SignIn, Visit, ActSession, At, pageVars
<1>3. CASE Submit(t)
  <2>1. PICK o \in Offers(r), pc \in {"call", "act"} :
          Becomes(t, [r EXCEPT !.pc = pc, !.call = [form |-> o[1], arg |-> o[2], row |-> Absent]])
    BY <1>3 DEF Submit
  <2>2. [r EXCEPT !.pc = pc, !.call = [form |-> o[1], arg |-> o[2], row |-> Absent]].pc = pc
    BY <1>1 DEF Formed
  <2> QED
    BY <1>2, <2>1, <2>2, QuietStep
<1>4. CASE Dismiss(t)
  <2>1. Becomes(t, [r EXCEPT !.parts.hidden = TRUE])
    BY <1>4 DEF Dismiss
  <2>2. [r EXCEPT !.parts.hidden = TRUE].pc = r.pc
    BY <1>1 DEF Formed
  <2> QED
    BY <1>2, <2>1, <2>2, QuietStep
<1>5. CASE SignIn(t)
  <2>1. Becomes(t, Asking(r, r.to, FALSE))
    BY <1>5 DEF SignIn
  <2> QED
    BY <1>1, <1>2, <2>1, AskingAsks, QuietStep
<1>6. ASSUME NEW p \in scope.go, Visit(t, p) PROVE Quiet(t)
  <2>1. Becomes(t, Asking(r, p, FALSE))
    BY <1>6 DEF Visit
  <2> QED
    BY <1>1, <1>2, <2>1, AskingAsks, QuietStep
<1>7. CASE ActSession(t)
  <2>1. PICK s : Becomes(t, s) /\ (s = [r EXCEPT !.pc = "call"] \/ s = SignsIn(BackTo(r.call.form)))
    BY <1>7 DEF ActSession
  <2>2. s.pc \in {"call", "rest"}
    BY <1>1, <2>1, SignsInRests DEF Formed
  <2> QED
    BY <1>2, <2>1, <2>2, QuietStep
<1> QED
  BY <1>3, <1>4, <1>5, <1>6, <1>7

LEMMA WaitIsQuiet ==
  ASSUME SiteInv, WordInv, NEW t \in Tabs, WaitStep(t)
  PROVE  Quiet(t)
<1> DEFINE r == tab[t]
<1>1. /\ r.pc = "call" /\ UNCHANGED <<hub, account, told>> /\ r.call.form \notin Telling
      /\ UNCHANGED scope \/ Misses
  BY DEF WaitStep, At, Telling, Reaches
<1>2. PICK s \in {Fails(r), Succeeds(r)} : Becomes(t, s)
  BY DEF WaitStep
<1>3. s.pc \in {"rest", "proxy"}
  BY <1>1, <1>2, BusyTabs, FailsKept, SucceedsKept
<1> QED
  BY <1>1, <1>2, <1>3, QuietStep

LEMMA WorldKeepsWord ==
  ASSUME SiteInv, WordInv, World
  PROVE  WordInv'
<1>1. UNCHANGED <<account, told, tab>> /\ Counted
  <2>1. Happens /\ UNCHANGED <<account, told, tab>>
    BY DEF World
  <2> QED
    BY <2>1, CountedSteps
<1>2. HubInv(hub) /\ HubInv(hub') /\ Onward(hub, hub') /\ hub \in HubRow
  BY WorldMoves DEF SiteInv, HubInv
<1>3. \A d : Done(hub, d) => Done(hub', d)
  BY <1>2, StaysDone
<1>4. hub'.keys = hub.keys /\ hub'.invites = hub.invites /\ hub'.asks \subseteq hub.asks
  BY <1>2, ZenonT(90) DEF World, HubRow
<1>5. Unheard' \subseteq Unheard
  <2>1. Standing' \subseteq Standing
    BY <1>4 DEF Standing
  <2>2. UnderWay' = UnderWay
    BY <1>1 DEF UnderWay
  <2> QED
    BY <1>1, <2>1, <2>2 DEF Unheard
<1>6. IsFiniteSet(Unheard') /\ Cardinality(Unheard') <= scope'.missed
  BY <1>1, <1>5, FewerUnheard
<1> QED
  BY <1>1, <1>3, <1>6 DEF WordInv, Counted, Joined

\* A call that the hub takes makes one row, of its form.
LEMMA StandingMoves ==
  ASSUME HubInv(hub), NEW f, NEW n, hub' = NewHub(f, n)
  PROVE  Standing' \subseteq Standing \cup (IF f \in Telling THEN {<<f, n>>} ELSE {})
<1>1. hub \in HubRow
  BY DEF HubInv
<1>2. CASE f = "ask"
  <2>1. hub' = [hub EXCEPT !.asks = @ \cup {n}, !.next = After(n)]
    BY <1>2, AskRows
  <2>2. hub'.asks = hub.asks \cup {n} /\ hub'.keys = hub.keys /\ hub'.invites = hub.invites
    BY <1>1, <2>1 DEF HubRow
  <2> QED
    BY <1>2, <2>2 DEF Standing, Telling
<1>3. CASE f = "mint"
  <2>1. hub' = [hub EXCEPT !.keys = @ \cup {n}, !.next = After(n)]
    BY <1>3, MintRows
  <2>2. hub'.asks = hub.asks /\ hub'.keys = hub.keys \cup {n} /\ hub'.invites = hub.invites
    BY <1>1, <2>1 DEF HubRow
  <2> QED
    BY <1>3, <2>2 DEF Standing, Telling
<1>4. CASE f = "invite"
  <2>1. hub' = [hub EXCEPT !.invites = @ \cup {n}, !.next = After(n)]
    BY <1>4, InviteRows
  <2>2. hub'.asks = hub.asks /\ hub'.keys = hub.keys /\ hub'.invites = hub.invites \cup {n}
    BY <1>1, <2>1 DEF HubRow
  <2> QED
    BY <1>4, <2>2 DEF Standing, Telling
<1>5. CASE f \notin {"ask", "mint", "invite"}
  <2>1. hub'.asks = hub.asks /\ hub'.keys \subseteq hub.keys /\ hub'.invites = hub.invites
    <3>1. CASE f \in {"issue", "rotate"}
      <4>1. hub' = [hub EXCEPT !.pin = n]
        BY <3>1, PinRows, Zenon
      <4> QED
        BY <1>1, <4>1 DEF HubRow
    <3>2. CASE f = "approve"
      <4>1. hub' = [hub EXCEPT !.incoming = @ \ {n}, !.links = @ \cup {n}]
        BY <3>2, ApproveRows, Zenon
      <4> QED
        BY <1>1, <4>1 DEF HubRow
    <3>3. CASE f = "deny"
      <4>1. hub' = [hub EXCEPT !.incoming = @ \ {n}]
        BY <3>3, DenyRows, Zenon
      <4> QED
        BY <1>1, <4>1 DEF HubRow
    <3>4. CASE f = "unpair"
      <4>1. hub' = [hub EXCEPT !.links = @ \ {n}, !.gone = @ \cup {n}]
        BY <3>4, UnpairRows, Zenon
      <4> QED
        BY <1>1, <4>1 DEF HubRow
    <3>5. CASE f = "revoke"
      <4>1. hub' = [hub EXCEPT !.keys = @ \ {n}, !.gone = @ \cup {n}]
        BY <3>5, RevokeRows, Zenon
      <4> QED
        BY <1>1, <4>1 DEF HubRow
    <3>6. CASE f = "slug"
      <4>1. hub' = [hub EXCEPT !.slug = n, !.next = After(n)]
        BY <3>6, SlugRows, Zenon
      <4> QED
        BY <1>1, <4>1 DEF HubRow
    <3>7. CASE f \in Listing
      <4>1. hub' = [hub EXCEPT !.listing = n]
        BY <3>7, ListingRows, Zenon
      <4> QED
        BY <1>1, <4>1 DEF HubRow
    <3>8. CASE f \notin Pairing \cup {"mint", "revoke", "invite", "slug"} \cup Listing
      BY <3>8, OtherRows
    <3> QED
      BY <1>5, <3>1, <3>2, <3>3, <3>4, <3>5, <3>6, <3>7, <3>8 DEF Pairing
  <2> QED
    BY <2>1 DEF Standing
<1> QED
  BY <1>2, <1>3, <1>4, <1>5

LEMMA CallKeepsWord ==
  ASSUME SiteInv, WordInv, NEW t \in Tabs, CallStep(t)
  PROVE  WordInv'
<1> DEFINE r == tab[t]
           f == r.call.form
<1>1. /\ r.pc = "call" /\ Busy(hub, r) /\ HubInv(hub) /\ Formed(r)
      /\ UNCHANGED scope \/ Misses
  BY TabFacts, CallCases, BusyTabs DEF CallStep, Reaches
<1>2. CASE CallFails(t)
  <2>1. Fails(r).pc \in {"rest", "proxy"}
    BY <1>1, FailsKept
  <2> QED
    BY <1>1, <1>2, <2>1, QuietStep, QuietKept DEF CallFails
<1>3. CASE CallListsFail(t)
  <2> DEFINE s == CallWith(t, "none")
  <2>1. s.call.form = "refresh" /\ Becomes(t, s) /\ UNCHANGED <<hub, account, told>>
    BY <1>1, <1>3, CallWithFields DEF CallListsFail
  <2>2. Counted
    BY <1>1, CountedSteps
  <2> HIDE DEF s
  <2>3. Quiet(t)
    BY <1>1, <2>1, <2>2 DEF Quiet
  <2> QED
    BY <2>3, QuietKept
<1>4. ASSUME NEW n, CallIsDone(t, n) PROVE WordInv'
  <2> DEFINE s == CallWith(t, n)
  <2>1. s.pc = "answer" /\ s.call.form = f /\ s.call.row = n
    BY <1>1, CallWithFields
  <2>2. /\ Becomes(t, s) /\ hub' = NewHub(f, n) /\ account' = JoinsAs(f) /\ told' = told /\ UNCHANGED scope
        /\ Accepts(f, r.call.arg) /\ n \in Made(f, r.call.arg)
    BY <1>4 DEF CallIsDone
  <2> HIDE DEF s
  <2>3. HubInv(hub') /\ Onward(hub, hub')
    BY <1>1, <2>2, HubMoves
  <2>4. \A d : Done(hub, d) => Done(hub', d)
    BY <1>1, <2>3, StaysDone
  <2>5. tab'[t] = s /\ \A u \in Tabs \ {t} : tab'[u] = tab[u]
    BY <2>2 DEF SiteInv, Becomes
  <2>6. /\ f = "create" => account = "none" /\ account' = "admin"
        /\ f = "join" => account = "none" /\ account' = "member"
        /\ f \notin {"create", "join"} => account' = account
    <3>1. f \in {"create", "join"} => account = "none"
      BY <2>2 DEF Accepts
    <3>2. /\ f = "create" => JoinsAs(f) = "admin"
          /\ f = "join" => JoinsAs(f) = "member"
          /\ f \notin {"create", "join"} => JoinsAs(f) = account
      BY Zenon DEF JoinsAs
    <3> QED
      BY <2>2, <3>1, <3>2
  <2>7. \A d \in told' : \/ d[1] \in Telling /\ Done(hub', d)
                         \/ d[1] = "create" /\ account' = "admin"
                         \/ d[1] = "join" /\ account' = "member"
    BY <2>2, <2>4, <2>6 DEF WordInv
  <2>8. \A u \in Tabs : tab'[u].pc \in {"answer", "mail"} =>
          /\ tab'[u].call.form = "create" => account' = "admin"
          /\ tab'[u].call.form = "join" => account' = "member"
    <3>1. \A u \in Tabs \ {t} : tab'[u].pc \in {"answer", "mail"} =>
            /\ tab'[u].call.form = "create" => account = "admin"
            /\ tab'[u].call.form = "join" => account = "member"
      BY <2>5 DEF WordInv, Joined
    <3> QED
      BY <2>1, <2>5, <2>6, <3>1
  <2>9. Unheard' \subseteq Unheard
    <3>1. Making(r) = {} /\ Making(s) = Tells(s.call)
      BY <1>1, <2>1 DEF Making
    <3>2. f \in Telling => Making(s) = {<<f, n>>}
      BY <2>1, <3>1 DEF Tells
    <3>3. Standing' \subseteq Standing \cup Making(s)
      BY <1>1, <2>2, <3>2, StandingMoves
    <3> QED
      BY <2>2, <3>1, <3>3, UnheardOf
  <2>10. Counted
    BY <2>2, CountedSteps
  <2>11. IsFiniteSet(Unheard') /\ Cardinality(Unheard') <= scope'.missed
    BY <2>9, <2>10, FewerUnheard
  <2> QED
    BY <2>7, <2>8, <2>10, <2>11 DEF WordInv, Counted, Joined
<1> QED
  BY <1>1, <1>2, <1>3, <1>4, CallCases

LEMMA AnswerKeepsWord ==
  ASSUME SiteInv, WordInv, NEW t \in Tabs, AnswerStep(t) \/ MailStep(t)
  PROVE  WordInv'
<1> DEFINE r == tab[t]
           c == r.call
<1>1. /\ r.pc \in {"answer", "mail"} /\ Busy(hub, r) /\ Formed(r)
      /\ c.form \in Telling => Done(hub, <<c.form, c.row>>)
  BY TabFacts, AnswerCases, BusyTabs
<1>2. Making(r) = Tells(c) /\ Joined(c)
  BY <1>1 DEF Making, WordInv
<1>3. ASSUME NEW s, Becomes(t, s), UNCHANGED <<hub, account>>, told \subseteq told', Counted,
             s.pc \in {"answer", "mail"} => s.call = c,
             IsFiniteSet(Unheard') /\ Cardinality(Unheard') <= scope'.missed,
             \A d \in told' : d \in told \/ d \in Tells(c)
      PROVE  WordInv'
  <2>1. tab'[t] = s /\ \A u \in Tabs \ {t} : tab'[u] = tab[u]
    BY <1>3 DEF SiteInv, Becomes
  <2>2. \A d \in Tells(c) : \/ d[1] \in Telling /\ Done(hub, d)
                            \/ d[1] = "create" /\ account = "admin"
                            \/ d[1] = "join" /\ account = "member"
    BY <1>1, <1>2 DEF Tells, Joined
  <2>3. \A u \in Tabs : tab'[u].pc \in {"answer", "mail"} => Joined(tab'[u].call)
    BY <1>2, <1>3, <2>1 DEF WordInv
  <2>4. \A u \in Tabs : tab'[u].pc \in {"answer", "mail"} =>
          /\ tab'[u].call.form = "create" => account' = "admin"
          /\ tab'[u].call.form = "join" => account' = "member"
    BY <1>3, <2>3 DEF Joined
  <2>5. \A d \in told' : \/ d[1] \in Telling /\ Done(hub', d)
                         \/ d[1] = "create" /\ account' = "admin"
                         \/ d[1] = "join" /\ account' = "member"
    BY <1>3, <2>2 DEF WordInv
  <2> QED
    BY <1>3, <2>4, <2>5 DEF WordInv, Counted, Joined
<1>4. UNCHANGED hub => Standing' = Standing
  BY DEF Standing
<1>5. CASE AnswerLost(t)
  <2> DEFINE s == Fails(r)
  <2>1. /\ Becomes(t, s) /\ UNCHANGED <<hub, account, told>> /\ Misses /\ s.pc \in {"rest", "proxy"}
    BY <1>1, <1>5, FailsKept DEF AnswerLost
  <2> HIDE DEF s
  <2>2. Unheard' \subseteq Unheard \cup Tells(c)
    BY <1>2, <1>4, <2>1, UnheardOf
  <2>3. Unheard' \subseteq Unheard \cup {<<c.form, c.row>>}
    BY <2>2 DEF Tells
  <2>4. IsFiniteSet(Unheard') /\ Cardinality(Unheard') <= scope'.missed
    BY <2>1, <2>3, OneMoreUnheard
  <2>5. Counted
    BY <2>1, CountedSteps
  <2> QED
    BY <1>3, <2>1, <2>4, <2>5
<1>6. CASE AnswerMails(t)
  <2> DEFINE s == [r EXCEPT !.pc = "mail"]
  <2>1. /\ Becomes(t, s) /\ UNCHANGED <<hub, account, told, scope>> /\ s.pc = "mail" /\ s.call = c
    BY <1>1, <1>6 DEF AnswerMails, Formed
  <2> HIDE DEF s
  <2>2. Making(s) = Tells(c)
    BY <2>1 DEF Making
  <2>3. Unheard' \subseteq Unheard
    BY <1>2, <1>4, <2>1, <2>2, UnheardOf
  <2>4. Counted
    BY <2>1, CountedSteps
  <2>5. IsFiniteSet(Unheard') /\ Cardinality(Unheard') <= scope'.missed
    BY <2>3, <2>4, FewerUnheard
  <2> QED
    BY <1>3, <2>1, <2>4, <2>5
<1>7. CASE Informs(t)
  <2> DEFINE s == Succeeds(r)
  <2>1. /\ Becomes(t, s) /\ UNCHANGED <<hub, account, scope>> /\ s.pc \in {"rest", "proxy"}
        /\ told' = told \cup Tells(c)
    BY <1>1, <1>7, SucceedsKept DEF Informs, Reaches
  <2> HIDE DEF s
  <2>2. Unheard' \subseteq Unheard
    BY <1>2, <1>4, <2>1, UnheardOf
  <2>3. Counted
    BY <2>1, CountedSteps
  <2>4. IsFiniteSet(Unheard') /\ Cardinality(Unheard') <= scope'.missed
    BY <2>2, <2>3, FewerUnheard
  <2> QED
    BY <1>3, <2>1, <2>3, <2>4
<1> QED
  BY <1>5, <1>6, <1>7, AnswerCases

LEMMA WordKept ==
  ASSUME SiteInv, WordInv, Next
  PROVE  WordInv'
<1>1. CASE World
  BY <1>1, WorldKeepsWord
<1>2. ASSUME NEW t \in Tabs, PageStep(t) PROVE WordInv'
  BY <1>2, PageIsQuiet, QuietKept
<1>3. ASSUME NEW t \in Tabs, ActStep(t) PROVE WordInv'
  BY <1>3, PersonIsQuiet, WaitIsQuiet, QuietKept, CallKeepsWord, AnswerKeepsWord DEF ActStep
<1>4. ASSUME NEW t \in Tabs, Submit(t) \/ Dismiss(t) \/ SignIn(t) \/ \E p \in scope.go : Visit(t, p)
      PROVE  WordInv'
  BY <1>4, PersonIsQuiet, QuietKept
<1> QED
  BY <1>1, <1>2, <1>3, <1>4 DEF Next

LEMMA WordStutters ==
  ASSUME WordInv, UNCHANGED vars
  PROVE  WordInv'
<1>1. Unheard' = Unheard
  BY DEF vars, Unheard, Standing, UnderWay
<1> QED
  BY <1>1 DEF vars, WordInv, Joined

LEMMA WordBegins ==
  ASSUME Init
  PROVE  WordInv
<1>1. /\ scope \in Scopes /\ told = {} /\ \A t \in Tabs : tab[t].pc = "rest"
      /\ hub.asks = {} /\ hub.keys = {} /\ hub.invites = {}
  BY DEF Init, InitPages, Blank
<1>2. DOMAIN scope = {"go", "do", "left", "trouble", "missed", "as", "incoming"} /\ scope.missed = 0
  BY <1>1, WebAssumption
<1>3. Unheard = {}
  BY <1>1 DEF Unheard, Standing
<1>4. IsFiniteSet(Unheard) /\ Cardinality(Unheard) = 0
  BY <1>3, FS_EmptySet
<1> QED
  BY <1>1, <1>2, <1>4 DEF WordInv

\* What is so for good at the hub is what a fact told says.
LEMMA DoneHolds ==
  ASSUME HubInv(hub), NEW d, d[1] \in Telling, Done(hub, d)
  PROVE  Holds(d)
<1>1. hub.pin \in Nat /\ hub.slug \in Nat /\ d[2] \in Nat
  BY DEF HubInv, HubRow, Done
<1>2. /\ d[1] \in {"issue", "rotate"} /\ d[2] <= hub.pin => Holds(d)
      /\ d[1] = "ask" /\ d[2] \in hub.asks \cup hub.links \cup hub.gone => Holds(d)
      /\ d[1] = "approve" /\ d[2] \in hub.links \cup hub.gone /\ d[2] \notin hub.incoming => Holds(d)
      /\ d[1] = "deny" /\ d[2] \notin hub.incoming \cup hub.links => Holds(d)
      /\ d[1] = "unpair" /\ d[2] \notin hub.links => Holds(d)
  BY Zenon DEF Holds
<1>3. /\ d[1] = "mint" /\ d[2] \in hub.keys \cup hub.gone => Holds(d)
      /\ d[1] = "revoke" /\ d[2] \notin hub.keys => Holds(d)
      /\ d[1] = "slug" /\ d[2] <= hub.slug => Holds(d)
      /\ d[1] = "invite" /\ d[2] \in hub.invites => Holds(d)
  BY Zenon DEF Holds
<1> QED
  BY <1>1, <1>2, <1>3 DEF Done, Telling

LEMMA JoinHolds ==
  ASSUME NEW d
  PROVE  /\ d[1] = "create" /\ account = "admin" => Holds(d)
         /\ d[1] = "join" /\ account = "member" => Holds(d)
BY Zenon DEF Holds

\* What a person was told is done is so at the hub for good; and no more keys, requests
\* and invites stand there without a word of them than calls failed on the way.
THEOREM NothingIsToldFalsely == Spec => []ToldWhatHappened
<1>1. Init => SiteInv /\ WordInv
  BY SiteBegins, WordBegins
<1>2. SiteInv /\ WordInv /\ [Next]_vars => SiteInv' /\ WordInv'
  BY NextKept, SiteStutters, WordKept, WordStutters
<1>3. SiteInv /\ WordInv => ToldWhatHappened
  <2>1. ASSUME SiteInv, WordInv, NEW d \in told PROVE Holds(d)
    BY <2>1, DoneHolds, JoinHolds DEF WordInv, SiteInv
  <2> QED
    BY <2>1 DEF ToldWhatHappened, WordInv
<1> QED
  BY <1>1, <1>2, <1>3, PTL DEF Spec

-----------------------------------------------------------------------------
(* What is told shows *)

\* What a page's rows and its memory have to be for each kind of fact to show.
LEMMA ShowsPairing ==
  ASSUME NEW r, NEW d
  PROVE  /\ d[1] \in {"issue", "rotate"} /\ r.view.pin >= d[2] => Shows(r, d)
         /\ d[1] = "ask" /\ (d[2] \in r.view.asks \/ d[2] \notin hub.asks) => Shows(r, d)
         /\ d[1] = "approve" /\ d[2] \notin r.view.incoming /\ (d[2] \in r.view.links \/ d[2] \notin hub.links)
              => Shows(r, d)
         /\ d[1] = "deny" /\ d[2] \notin r.view.incoming => Shows(r, d)
         /\ d[1] = "unpair" /\ d[2] \notin r.view.links => Shows(r, d)
BY Zenon DEF Shows

LEMMA ShowsRows ==
  ASSUME NEW r, NEW d
  PROVE  /\ d[1] = "mint" /\ (d[2] \in Listed(r.parts, r.view) \/ d[2] \notin hub.keys) => Shows(r, d)
         /\ d[1] = "slug" /\ r.view.slug >= d[2] => Shows(r, d)
         /\ d[1] = "invite" /\ d[2] \in ListedInvites(r.parts, r.view) => Shows(r, d)
         /\ /\ d[1] = "revoke"
            /\ d[2] \notin Listed(r.parts, r.view)
            /\ ~(r.parts.minted = d[2] /\ Revealed(r.parts, r.view))
            => Shows(r, d)
BY Zenon DEF Shows

LEMMA VisibleShows ==
  ASSUME NEW r, NEW d, Known(hub, r.page, r.parts, d), Visible(hub, r.view, d),
         ~(d[1] = "revoke" /\ NeverListed(r.parts, d[2]))
  PROVE  Shows(r, d)
<1> DEFINE x == d[2]
<1>1. d[1] \in Telling /\ x \in Nat
  BY DEF Known, Done
<1>2. CASE d[1] \in {"issue", "rotate"}
  BY <1>1, <1>2, ShowsPairing DEF Visible
<1>3. CASE d[1] \in {"ask", "approve", "deny", "unpair"}
  BY <1>3, ShowsPairing DEF Visible
<1>4. CASE d[1] = "slug"
  BY <1>4, ShowsRows DEF Visible
<1>5. CASE d[1] = "mint"
  <2>1. x \in Listed(r.parts, r.view) \/ x \notin hub.keys
    BY <1>5 DEF Visible, Listed
  <2> QED
    BY <1>5, <2>1, ShowsRows
<1>6. CASE d[1] = "revoke"
  <2>1. x \notin r.view.keys /\ (r.parts.minted = x => x \in r.parts.seen)
    BY <1>6 DEF Visible, NeverListed
  <2>2. x \notin Listed(r.parts, r.view)
    BY <2>1 DEF Listed
  <2>3. ~(r.parts.minted = x /\ Revealed(r.parts, r.view))
    BY <2>1 DEF Revealed
  <2> QED
    BY <1>6, <2>2, <2>3, ShowsRows
<1>7. CASE d[1] = "invite"
  <2>1. r.parts.code = x /\ x # Absent
    BY <1>1, <1>7, WebAssumption DEF Known
  <2>2. x \in ListedInvites(r.parts, r.view)
    BY <2>1 DEF ListedInvites
  <2> QED
    BY <1>7, <2>2, ShowsRows
<1> QED
  BY <1>1, <1>2, <1>3, <1>4, <1>5, <1>6, <1>7 DEF Telling

\* What a person was told is done shows on the page they are left with, whatever
\* other tabs, other people and the hub did while it was loaded; but for a page that
\* says its lists failed, a text that came twice (`again`), and the page's own new key,
\* revoked before any list had it (NeverListed).
THEOREM WhatIsToldShows == Spec => []ShowsWhatItDid
<1>1. ASSUME SiteInv, NEW t \in Tabs, tab[t].pc = "rest", ~tab[t].alert, NEW d \in tab[t].parts.did,
             d \notin tab[t].parts.again, ~(d[1] = "revoke" /\ NeverListed(tab[t].parts, d[2]))
      PROVE  Shows(tab[t], d)
  <2>1. TabInv(hub, tab[t])
    BY <1>1 DEF SiteInv
  <2>2. Known(hub, tab[t].page, tab[t].parts, d) /\ Visible(hub, tab[t].view, d)
    BY <1>1, <2>1 DEF TabInv, Loading
  <2> QED
    BY <1>1, <2>2, VisibleShows
<1>2. SiteInv => ShowsWhatItDid
  BY <1>1 DEF ShowsWhatItDid
<1> QED
  BY <1>2, SiteInvariant, PTL
=============================================================================
