---------------------------- MODULE AgentRegistry ----------------------------
(***************************************************************************)
(* The agents of one user (hub/store/store.ts: connectAgent, renameAgent,  *)
(* setRouter, setTransportDefault, putAgentHandshake, resolveAgentForUser).*)
(* A slug has up to two slots, one per transport.  A bare slug is routed   *)
(* by the user's rules, then by the preferred transport.  Older data has   *)
(* only a pointer from the slug to the desktop agent, and no router row.   *)
(***************************************************************************)
EXTENDS HubRequests, Sequences

CONSTANTS
  MaxSlug,     \* agent slugs are 1..MaxSlug, in alphabetical order
  MaxAgent,    \* BOUND: agents ever created
  OldAgents    \* slugs that have a desktop agent from before slots existed, in an older account

AgentSlugs == 1..MaxSlug
AgentIds   == 1..MaxAgent
Transports == {"sidecar", "mcp"}

VARIABLES
  agents,      \* ["agents", id]
  slot,        \* ["user_agent_slugs", user, slug, transport] -> agent
  legacy,      \* ["user_agent_slugs", user, slug] -> desktop agent
  router,      \* ["user_router", user]
  defaultRow,  \* ["user_default_agent", user]
  prefs        \* ["user_transport_prefs", user]: slug -> transport

agentRows == <<agents, slot, legacy, router, defaultRow, prefs>>

AgentRow  == [slug: AgentSlugs, transport: Transports]
NoRules   == [s \in AgentSlugs |-> <<>>]
RouterRow == [default: AgentIds \cup {Absent}, rules: [AgentSlugs -> Seq(AgentIds)]]

ASSUME AgentAssumption ==
  /\ MaxSlug \in Nat \ {0} /\ MaxAgent \in Nat \ {0}
  /\ OldAgents \subseteq AgentSlugs \cap AgentIds
  /\ Absent \notin AgentIds \cup AgentSlugs \cup AgentRow

\* A user who is new, or one from before slots existed
AgentOps == {"connect", "prefer", "router", "handshake", "rename", "look"}

InitAgents ==
  \E old \in {{}} \cup (IF scope.ops \cap AgentOps = {} THEN {} ELSE {OldAgents}) :
  /\ agents = [a \in AgentIds |->
       IF a \in old THEN [slug |-> a, transport |-> "sidecar"] ELSE Absent]
  /\ slot = [s \in AgentSlugs |-> [t \in Transports |-> Absent]]
  /\ legacy = [s \in AgentSlugs |-> IF s \in old THEN s ELSE Absent]
  /\ router = Absent
  /\ defaultRow = IF old = {} THEN Absent ELSE CHOOSE a \in old : TRUE
  /\ prefs = [s \in AgentSlugs |-> Absent]

-----------------------------------------------------------------------------
\* Helpers

Other(t)     == IF t = "sidecar" THEN "mcp" ELSE "sidecar"
Preferred(s) == IF prefs[s] = Absent THEN "sidecar" ELSE prefs[s]

\* lookupAgentSlotId: the slot, or the old pointer to a desktop agent
Lookup(s, t) ==
  IF slot[s][t] # Absent THEN slot[s][t]
  ELSE IF t = "sidecar" /\ legacy[s] # Absent /\ agents[legacy[s]].transport = "sidecar"
       THEN legacy[s] ELSE Absent

\* loadRouter: the row, or what it would be from the index.  Before the first
\* router row no agent was ever renamed, so an index entry has its agent's slug.
FirstOf(s) == SelectSeq(<<legacy[s], slot[s]["mcp"], slot[s]["sidecar"]>>, LAMBDA a : a # Absent)
Loaded ==
  IF router # Absent THEN router
  ELSE [default |-> defaultRow,
        rules |-> [s \in AgentSlugs |-> SubSeq(FirstOf(s), 1, IF FirstOf(s) = <<>> THEN 0 ELSE 1)]]
Migrates == router = Absent /\ (Loaded.rules # NoRules \/ Loaded.default # Absent)

\* resolveAgentForUser, for a slug and for the bare address
RuleFor(s) == IF Loaded.rules[s] = <<>> THEN Absent ELSE Head(Loaded.rules[s])
Resolve(s) ==
  IF RuleFor(s) # Absent THEN RuleFor(s)
  ELSE IF Lookup(s, Preferred(s)) # Absent THEN Lookup(s, Preferred(s))
  ELSE Lookup(s, Other(Preferred(s)))

\* The rest of a handler that loads the router and then commits: a missing
\* router row is stored first.  `mem` has the router that was loaded.
LoadsRouter(r, q, mem) ==
  Reads(r, On(q, IF Migrates THEN "migrate" ELSE "commit", {<<"router">>}, mem))

Migrate(r) ==
  /\ req[r].pc = "migrate"
  /\ router' = req[r].mem.router
  /\ Clobbers(r, {<<"router">>})
  /\ Writes(r, [req[r] EXCEPT !.pc = "commit", !.stale = @ \ {<<"router">>}], {<<"router">>})
  /\ UNCHANGED <<agents, slot, legacy, defaultRow, prefs>>

-----------------------------------------------------------------------------
\* connectAgent: refresh the agent of the slot, or create one

ConnectStart(r, s, t) ==
  /\ Free(r, "connect")
  /\ LET a == Lookup(s, t) IN
       IF a # Absent
       THEN Reads(r, Begin("connect", "refresh", {<<"agent", a>>},
                           [agent |-> a, row |-> [agents[a] EXCEPT !.transport = t]]))
       ELSE Reads(r, Begin("connect", "load", {}, [slug |-> s, transport |-> t]))
  /\ UNCHANGED <<agentRows, overwritten>>

ConnectRefresh(r) ==
  /\ At(r, "connect", "refresh")
  /\ LET m == req[r].mem IN
       /\ agents' = [agents EXCEPT ![m.agent] = m.row]
       /\ Clobbers(r, {<<"agent", m.agent>>})
       /\ Writes(r, On(req[r], "slot", {}, m), {<<"agent", m.agent>>})
  /\ UNCHANGED <<slot, legacy, router, defaultRow, prefs>>

\* ensureSlotIndex: one write, or two for a desktop agent
ConnectSlot(r) ==
  /\ At(r, "connect", "slot")
  /\ LET m == req[r].mem IN
       /\ slot' = [slot EXCEPT ![m.row.slug][m.row.transport] = m.agent]
       /\ overwritten' = IF slot[m.row.slug][m.row.transport] \in {Absent, m.agent} THEN overwritten
                         ELSE overwritten \cup {<<"slot", m.row.slug, m.row.transport>>}
       /\ IF m.row.transport = "sidecar" THEN Reads(r, On(req[r], "legacy", {}, m)) ELSE Answer(r)
  /\ UNCHANGED <<agents, legacy, router, defaultRow, prefs>>

ConnectLegacy(r) ==
  /\ At(r, "connect", "legacy")
  /\ legacy' = [legacy EXCEPT ![req[r].mem.row.slug] = req[r].mem.agent]
  /\ Answer(r)
  /\ UNCHANGED <<agents, slot, router, defaultRow, prefs, overwritten>>

ConnectLoad(r) ==
  /\ At(r, "connect", "load")
  /\ LET m == req[r].mem IN
       LoadsRouter(r, req[r], [slug |-> m.slug, transport |-> m.transport,
                               preferred |-> Preferred(m.slug), router |-> Loaded])
  /\ UNCHANGED <<agentRows, overwritten>>

\* The rule for the slug goes to the new agent when there is none or its
\* transport is the preferred one.
RulesWith(m, a) ==
  IF m.router.rules[m.slug] = <<>> \/ m.preferred = m.transport
  THEN [m.router.rules EXCEPT ![m.slug] = <<a>>] ELSE m.router.rules

ConnectCommit(r) ==
  /\ At(r, "connect", "commit")
  /\ \E a \in AgentIds :
       LET m == req[r].mem
           default == IF m.router.default = Absent THEN a ELSE m.router.default
       IN
       /\ agents[a] = Absent /\ \A b \in 1..(a - 1) : agents[b] # Absent
       /\ agents' = [agents EXCEPT ![a] = [slug |-> m.slug, transport |-> m.transport]]
       /\ slot' = [slot EXCEPT ![m.slug][m.transport] = a]
       /\ legacy' = IF m.transport = "sidecar" THEN [legacy EXCEPT ![m.slug] = a] ELSE legacy
       /\ defaultRow' = default
       /\ router' = [default |-> default, rules |-> RulesWith(m, a)]
       /\ overwritten' = overwritten \cup req[r].stale \cup
            (IF slot[m.slug][m.transport] = Absent THEN {} ELSE {<<"slot", m.slug, m.transport>>})
       /\ Leaves(r, {<<"router">>})
  /\ UNCHANGED prefs

-----------------------------------------------------------------------------
\* setTransportDefault, setRouter (and setDefaultAgent), putAgentHandshake

PreferStart(r, s, t) ==
  /\ Free(r, "prefer")
  /\ Reads(r, Begin("prefer", "load", {}, [slug |-> s, transport |-> t, prefs |-> prefs]))
  /\ UNCHANGED <<agentRows, overwritten>>

PreferLoad(r) ==
  /\ At(r, "prefer", "load")
  /\ LET m == req[r].mem IN
       LoadsRouter(r, req[r], [slug |-> m.slug, transport |-> m.transport, prefs |-> m.prefs,
                               agent |-> Lookup(m.slug, m.transport), router |-> Loaded])
  /\ UNCHANGED <<agentRows, overwritten>>

PreferCommit(r) ==
  /\ At(r, "prefer", "commit")
  /\ LET m == req[r].mem IN
       /\ prefs' = [m.prefs EXCEPT ![m.slug] = m.transport]
       /\ router' = IF m.agent = Absent THEN router
                    ELSE [m.router EXCEPT !.rules[m.slug] = <<m.agent>>]
       /\ LET written == IF m.agent = Absent THEN {} ELSE {<<"router">>}
          IN Clobbers(r, written) /\ Leaves(r, written)
  /\ UNCHANGED <<agents, slot, legacy, defaultRow>>

\* default: an agent, or Absent to leave it; rules: a rule set of the client's, or Absent
RouterStart(r, default, rules) ==
  /\ Free(r, "router")
  /\ default # Absent => agents[default] # Absent
  /\ rules # Absent => \A s \in AgentSlugs : rules[s] # <<>> => agents[Head(rules[s])] # Absent
  /\ LoadsRouter(r, Begin("router", "load", {}, Absent),
                 [default |-> default, rules |-> rules, router |-> Loaded])
  /\ UNCHANGED <<agentRows, overwritten>>

RouterCommit(r) ==
  /\ At(r, "router", "commit")
  /\ LET m == req[r].mem
         default == IF m.default = Absent THEN m.router.default ELSE m.default
     IN
       /\ router' = [default |-> default, rules |-> IF m.rules = Absent THEN m.router.rules ELSE m.rules]
       /\ defaultRow' = default
       /\ Clobbers(r, {<<"router">>}) /\ Leaves(r, {<<"router">>})
  /\ UNCHANGED <<agents, slot, legacy, prefs>>

HandshakeStart(r, a) ==
  /\ Free(r, "handshake") /\ agents[a] # Absent
  /\ Reads(r, Begin("handshake", "commit", {<<"agent", a>>}, [agent |-> a, row |-> agents[a]]))
  /\ UNCHANGED <<agentRows, overwritten>>

HandshakeSave(r) ==
  /\ At(r, "handshake", "commit")
  /\ agents' = [agents EXCEPT ![req[r].mem.agent] = req[r].mem.row]
  /\ Clobbers(r, {<<"agent", req[r].mem.agent>>}) /\ Leaves(r, {<<"agent", req[r].mem.agent>>})
  /\ UNCHANGED <<slot, legacy, router, defaultRow, prefs>>

-----------------------------------------------------------------------------
\* renameAgent

RenameStart(r, a, new) ==
  /\ Free(r, "rename") /\ agents[a] # Absent /\ agents[a].slug # new
  /\ Lookup(new, agents[a].transport) \in {Absent, a}
  /\ Reads(r, Begin("rename", "load", {<<"agent", a>>}, [agent |-> a, row |-> agents[a], to |-> new]))
  /\ UNCHANGED <<agentRows, overwritten>>

\* The router, the preferences, and whether the old pointer is this agent's alone
RenameLoad(r) ==
  /\ At(r, "rename", "load")
  /\ LET m == req[r].mem IN
       LoadsRouter(r, req[r],
         [agent |-> m.agent, row |-> m.row, to |-> m.to, prefs |-> prefs, router |-> Loaded,
          dropOld |-> /\ legacy[m.row.slug] = m.agent
                      /\ Lookup(m.row.slug, Other(m.row.transport)) = Absent])
  /\ UNCHANGED <<agentRows, overwritten>>

\* Rules of the agent move with the slug; the order of the list is kept.
RulesRenamed(rules, a, old, new) ==
  LET moved == SelectSeq(rules[old], LAMBDA b : b = a)
      both  == IF old < new THEN moved \o rules[new] ELSE rules[new] \o moved
  IN [rules EXCEPT ![old] = SelectSeq(@, LAMBDA b : b # a),
                   ![new] = IF \E i \in DOMAIN both : both[i] = a THEN both ELSE Append(both, a)]

PrefsRenamed(p, old, new) ==
  IF p[old] # Absent /\ p[new] = Absent THEN [p EXCEPT ![new] = p[old], ![old] = Absent] ELSE p

\* MUTANT: a rename that leaves the slot of the new slug out
RenameForgetsSlot(r) ==
  /\ At(r, "rename", "commit")
  /\ LET m == req[r].mem
         a == m.agent  old == m.row.slug
     IN
     /\ slot' = [slot EXCEPT ![old][m.row.transport] = Absent]
     /\ agents' = [agents EXCEPT ![a] = [m.row EXCEPT !.slug = m.to]]
     /\ router' = [m.router EXCEPT !.rules = RulesRenamed(m.router.rules, a, old, m.to)]
     /\ prefs' = PrefsRenamed(m.prefs, old, m.to)
     /\ overwritten' = overwritten \cup req[r].stale
     /\ Leaves(r, {<<"router">>, <<"agent", a>>})
  /\ UNCHANGED <<legacy, defaultRow>>

RenameCommit(r) ==
  /\ At(r, "rename", "commit")
  /\ LET m == req[r].mem
         a == m.agent  old == m.row.slug  t == m.row.transport
     IN
     /\ slot' = [slot EXCEPT ![old][t] = Absent, ![m.to][t] = a]
     /\ legacy' = [s \in AgentSlugs |->
          IF s = m.to /\ t = "sidecar" THEN a
          ELSE IF s = old /\ m.dropOld THEN Absent ELSE legacy[s]]
     /\ agents' = [agents EXCEPT ![a] = [m.row EXCEPT !.slug = m.to]]
     /\ router' = [m.router EXCEPT !.rules = RulesRenamed(m.router.rules, a, old, m.to)]
     /\ prefs' = PrefsRenamed(m.prefs, old, m.to)
     /\ overwritten' = overwritten \cup req[r].stale \cup
          (IF slot[m.to][t] \in {Absent, a} THEN {} ELSE {<<"slot", m.to, t>>}) \cup
          (IF slot[old][t] \in {Absent, a} THEN {} ELSE {<<"slot", old, t>>})
     /\ Leaves(r, {<<"router">>, <<"agent", a>>})
  /\ UNCHANGED defaultRow

-----------------------------------------------------------------------------
\* getRouter, listAgents and every address resolution load the router

LookStart(r) ==
  /\ Free(r, "look") /\ Migrates
  /\ LoadsRouter(r, Begin("look", "load", {}, Absent), [router |-> Loaded])
  /\ UNCHANGED <<agentRows, overwritten>>

LookEnd(r) ==
  /\ At(r, "look", "commit")
  /\ Answer(r)
  /\ UNCHANGED <<agentRows, overwritten>>

AgentStep(r) ==
  \/ ConnectRefresh(r) \/ ConnectSlot(r) \/ ConnectLegacy(r) \/ ConnectLoad(r) \/ ConnectCommit(r)
  \/ PreferLoad(r) \/ PreferCommit(r) \/ RouterCommit(r) \/ HandshakeSave(r)
  \/ RenameLoad(r) \/ RenameCommit(r) \/ Migrate(r) \/ LookEnd(r)

\* Rule sets a client may send: one rule at most, for any slug
ClientRules == {[NoRules EXCEPT ![s] = <<a>>] : s \in AgentSlugs, a \in AgentIds} \cup {NoRules}

AgentStart(r) ==
  \/ \E s \in AgentSlugs, t \in Transports : ConnectStart(r, s, t) \/ PreferStart(r, s, t)
  \/ \E d \in AgentIds \cup {Absent}, u \in ClientRules \cup {Absent} : RouterStart(r, d, u)
  \/ \E a \in AgentIds : HandshakeStart(r, a)
  \/ \E a \in AgentIds, s \in AgentSlugs : RenameStart(r, a, s)
  \/ LookStart(r)

TypeOKSlots ==
  /\ agents \in [AgentIds -> AgentRow \cup {Absent}]
  /\ slot \in [AgentSlugs -> [Transports -> AgentIds \cup {Absent}]]
  /\ legacy \in [AgentSlugs -> AgentIds \cup {Absent}]
  /\ defaultRow \in AgentIds \cup {Absent}
  /\ prefs \in [AgentSlugs -> Transports \cup {Absent}]

TypeOKAgents == TypeOKSlots /\ router \in RouterRow \cup {Absent}
=============================================================================
