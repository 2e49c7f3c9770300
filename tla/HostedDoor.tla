----------------------------- MODULE HostedDoor -----------------------------
(***************************************************************************)
(* Who may talk to the hosted MCP server, and as which agent (mcp/auth,    *)
(* mcp/config.ts, authenticate and resolveSlug of mcp/routes/mcp.ts).      *)
(*                                                                         *)
(* Signatures, lookups and clocks are external: a token says what it says, *)
(* and it is void once its key is revoked or its time is over.             *)
(***************************************************************************)
EXTENDS Naturals, FiniteSets, Sequences

CONSTANTS
  Users,      \* subjects of tokens
  Tokens,     \* connector keys and access tokens, as clients hold them
  TokenInfo,  \* kind ("key" or "jwt") and subject; audience, issuer or slug
  Config,     \* McpConfig: audiences of the hub and of this server (paths), issuers, default slug
  Absent      \* no header, no value

ASSUME TokenAssumption == \A t \in Tokens : TokenInfo[t].sub \in Users

VARIABLE void \* external: tokens that were revoked or ran out

\* A request h shows headers made for connector keys (own), a bearer, and the slug
\* in its query or header.  A header made for keys wins over the bearer.
Credential(h) == IF h.own # Absent THEN h.own ELSE h.bearer

\* An access token names this server, its /mcp path, or the hub.
Expanded(aud) == {aud} \cup (IF aud[Len(aud)] = "mcp" THEN {} ELSE {Append(aud, "mcp")})
Audiences     == {Config.hub} \cup UNION {Expanded(aud) : aud \in Config.mcp}
Verified(t)   == t \notin void /\ TokenInfo[t].iss \in Config.issuers /\ TokenInfo[t].aud \in Audiences

\* Keys, and what comes in a header made for keys, are looked up at the hub,
\* which takes access tokens for the same audiences.
IsKey(t)    == TokenInfo[t].kind = "key"
ByHub(h)    == h.own # Absent \/ IsKey(h.bearer)
HubTakes(t) == IF IsKey(t) THEN t \notin void ELSE Verified(t)

Admits(h)   == IF ByHub(h) THEN HubTakes(Credential(h)) ELSE Verified(Credential(h))
Subject(h) == TokenInfo[Credential(h)].sub

\* Without credentials, the server tells that it is alive, and nothing else.
\* Whoever is not let in is answered at the door and changes nothing.
Liveness == {"initialize", "ping", "notification"}
Door(h, methods) ==
  IF Credential(h) = Absent THEN IF methods \subseteq Liveness THEN "alive" ELSE "refused"
  ELSE IF Admits(h) THEN "in" ELSE "refused"

\* The agent: the slug asked for, else the one its key was made for (if the hub
\* answers that question), else a default.
Slugs(h) ==
  IF h.slug # Absent THEN {h.slug}
  ELSE {Config.slug} \cup (IF IsKey(Credential(h)) THEN {TokenInfo[Credential(h)].slug} \ {Absent} ELSE {})

Voids(t) == t \notin void /\ void' = void \cup {t}

InitDoor == void = {}
=============================================================================
