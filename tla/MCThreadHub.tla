---------------------------- MODULE MCThreadHub ----------------------------
(* Small directories for ThreadHub. *)
EXTENDS ThreadHub, TLC

CONSTANTS alice, bob, carol,   \* users
          as, bs, cs, bw       \* agents: first letter is the owner, w is a web slot

Slot(u, t, s) == [user |-> u, transport |-> t, slug |-> s]

\* Two colleagues, each with a desktop agent.
PairUsers   == {alice, bob}
PairOrg     == alice :> "acme" @@ bob :> "acme"
PairDefault == alice :> as @@ bob :> bs

\* The same two and bob's web agent: E2E mail between the desktop agents (which
\* a downgrade opens to the web agent), hub-readable mail to the web agent.
WebAgents   == {as, bs, bw}
WebInfo     == as :> Slot(alice, "sidecar", "claude") @@ bs :> Slot(bob, "sidecar", "cursor")
            @@ bw :> Slot(bob, "mcp", "chatgpt")
DesktopMail == {<<as, bs>>}
BothMail    == {<<as, bs>>, <<as, bw>>}

\* Bob only has a web agent: every thread is hub-readable.
OnlineAgents  == {as, bw}
OnlineInfo    == as :> Slot(alice, "sidecar", "claude") @@ bw :> Slot(bob, "mcp", "chatgpt")
OnlineDefault == alice :> as @@ bob :> bw
OnlineMail    == {<<as, bw>>}

\* Three colleagues and bob's web agent; alice writes to the organization.
TeamUsers   == {alice, bob, carol}
TeamAgents  == {as, bs, cs, bw}
TeamInfo    == WebInfo @@ cs :> Slot(carol, "sidecar", "claude")
TeamDefault == PairDefault @@ carol :> cs
TeamOrg     == PairOrg @@ carol :> "acme"
TeamMail    == {<<as, OrgWide>>}

NoLinks == {}

\* Clients that declare no turns; clients that always declare one awaited user.
NoTurns   == {Absent}
OneAwaits == {{u} : u \in Users}

Workers == Permutations(Reqs)

=============================================================================
