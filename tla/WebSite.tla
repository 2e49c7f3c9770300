------------------------------ MODULE WebSite -------------------------------
(***************************************************************************)
(* The web site as one system: the tabs of a person's browser, the server  *)
(* that renders pages and runs actions for them, and the rows of the hub.  *)
(***************************************************************************)
EXTENDS WebForms

vars == <<account, hub, seeded, granted, cookie, unlocked, told, tab, scope>>

Init == InitPages

ServerStep(t) == PageStep(t) \/ ActStep(t)

Next ==
  \/ World
  \/ \E t \in Tabs :
       \/ PageStep(t) \/ ActStep(t)
       \/ Submit(t) \/ Dismiss(t) \/ SignIn(t)
       \/ \E p \in scope.go : Visit(t, p)

\* The server finishes what it has begun for a tab; nobody has to do anything,
\* and how often a call fails is bounded by scope.trouble.
Spec == Init /\ [][Next]_vars /\ \A t \in Tabs : WF_vars(ServerStep(t))

-----------------------------------------------------------------------------
\* Every visit and every action comes to an end: the redirects between the
\* sign-in page, /signup, /dashboard and the pages that send people away, each
\* decided by a call of its own, never chase one another.
PageSettles == \A t \in Tabs : tab[t].pc # "rest" ~> tab[t].pc = "rest"

\* What a person was told is done is so at the hub, for good: a key revoked, a
\* contact removed or a request denied does not come back, whichever tab was told;
\* what was made or agreed is there, until it is undone in its turn.
Holds(d) ==
  LET f == d[1]
      x == d[2]
  IN CASE f \in {"issue", "rotate"} -> x <= hub.pin
       [] f = "ask"     -> x \in hub.asks \cup hub.links \cup hub.gone
       [] f = "approve" -> x \in hub.links \cup hub.gone /\ x \notin hub.incoming
       [] f = "deny"    -> x \notin hub.incoming \cup hub.links
       [] f = "unpair"  -> x \notin hub.links
       [] f = "mint"    -> x \in hub.keys \cup hub.gone
       [] f = "revoke"  -> x \notin hub.keys
       [] f = "slug"    -> x <= hub.slug
       [] f = "invite"  -> x \in hub.invites
       [] f = "create"  -> account = "admin"
       [] f = "join"    -> account = "member"

\* Rows that the person made and has no word of, but for those whose call is under way.
Standing == ({"mint"} \X hub.keys) \cup ({"ask"} \X hub.asks) \cup ({"invite"} \X hub.invites)
UnderWay == UNION {Tells(tab[t].call) : t \in {u \in Tabs : tab[u].pc \in {"answer", "mail"}}}
Unheard  == (Standing \ told) \ UnderWay

\* A form tells what happened.  Whatever was told as done is done; and the keys,
\* requests and invites that stand at the hub although their form told of an error,
\* so that they may be asked for again, are no more than the calls that failed on the
\* way: answers that were lost, and the getMe after an invite (createInviteAction).
ToldWhatHappened ==
  /\ \A d \in told : Holds(d)
  /\ Cardinality(Unheard) <= scope.missed

\* The one key that the list does not tell from a key it has yet to load: the page's
\* own, before any list had it.  When the page's lists failed after the mint, a
\* revocation leaves it in the list with its secret (connectors-panel.tsx:278-297).
NeverListed(parts, x) == parts.minted = x /\ x \notin parts.seen

\* What a person was told is done shows on the page they are left with.  What others
\* did since may hide it, and there are three exceptions: the page says that its
\* lists failed to load; the component got the same text twice and did not ask for
\* the page again (`again`); and the key of NeverListed, which stays on show when it
\* is revoked.
Shows(r, d) ==
  LET f == d[1]
      x == d[2]
      v == r.view
  IN CASE f \in {"issue", "rotate"} -> v.pin >= x
       [] f = "ask"     -> x \in v.asks \/ x \notin hub.asks
       [] f = "approve" -> x \notin v.incoming /\ (x \in v.links \/ x \notin hub.links)
       [] f = "deny"    -> x \notin v.incoming
       [] f = "unpair"  -> x \notin v.links
       [] f = "mint"    -> x \in Listed(r.parts, v) \/ x \notin hub.keys
       [] f = "revoke"  -> x \notin Listed(r.parts, v) /\ ~(r.parts.minted = x /\ Revealed(r.parts, v))
       [] f = "slug"    -> v.slug >= x
       [] f = "invite"  -> x \in ListedInvites(r.parts, v)

ShowsWhatItDid ==
  \A t \in Tabs :
    tab[t].pc = "rest" /\ ~tab[t].alert =>
      \A d \in tab[t].parts.did :
        \/ d \in tab[t].parts.again
        \/ d[1] = "revoke" /\ NeverListed(tab[t].parts, d[2])
        \/ Shows(tab[t], d)

TypeOK ==
  /\ account \in {"none", "member", "admin"}
  /\ \A t \in Tabs : /\ tab[t].page \in Pages \cup {"auth"}
                     /\ tab[t].pc \in {"rest", "proxy", "page", "me", "seed", "load", "act", "call", "answer", "mail"}
                     /\ Offers(tab[t]) # {} => tab[t].page \in Pages
=============================================================================
