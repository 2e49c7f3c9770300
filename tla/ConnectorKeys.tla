---------------------------- MODULE ConnectorKeys ----------------------------
(***************************************************************************)
(* Keys with which hosted agents of one user reach the hub                 *)
(* (hub/store/mcp_connectors.ts; verifyAccessToken in store.ts).  A key    *)
(* has a row, an index row for the hash of its token and one in the list   *)
(* of its user.  Using a key writes its row back with the time of use,     *)
(* unchecked, while it may be revoked.                                     *)
(***************************************************************************)
EXTENDS HubRequests

CONSTANTS
  MaxKeys,   \* MAX_MCP_CONNECTORS: 8
  MaxKeyId   \* BOUND: keys ever minted

KeyIds == 1..MaxKeyId

VARIABLES
  keyRow,     \* ["mcp_connectors", id]: "active" or "revoked" (revoked_at)
  hashRow,    \* ["mcp_connector_hashes", hash of the token]: the keys that have one
  userKeys,   \* ["user_mcp_connectors", user, id]
  revoked     \* history: keys that were revoked

keyRows == <<keyRow, hashRow, userKeys, revoked>>

ASSUME KeyAssumption ==
  MaxKeys \in Nat \ {0} /\ MaxKeyId \in Nat /\ Absent \notin {"active", "revoked"}

InitKeys ==
  /\ keyRow = [k \in KeyIds |-> Absent]
  /\ hashRow = {}
  /\ userKeys = {}
  /\ revoked = {}

-----------------------------------------------------------------------------
\* listMcpConnectorRecords
ActiveKeys == {k \in userKeys : keyRow[k] = "active"}

\* lookupMcpConnectorByToken: does the token of k authenticate?
Authenticates(k) == k \in hashRow /\ keyRow[k] = "active"

MintStart(r) ==
  /\ Free(r, "mint")
  /\ Cardinality(ActiveKeys) < MaxKeys
  /\ Reads(r, Begin("mint", "commit", {}, Absent))
  /\ UNCHANGED <<keyRows, overwritten>>

MintCommit(r) ==
  /\ At(r, "mint", "commit")
  /\ \E k \in KeyIds :
       /\ keyRow[k] = Absent /\ \A j \in 1..(k - 1) : keyRow[j] # Absent
       /\ keyRow' = [keyRow EXCEPT ![k] = "active"]
       /\ hashRow' = hashRow \cup {k}
       /\ userKeys' = userKeys \cup {k}
  /\ Leaves(r, {})
  /\ UNCHANGED <<revoked, overwritten>>

\* resolveMcpConnectorToken: look the key up, then touchMcpConnectorLastUsed
UseStart(r, k) ==
  /\ Free(r, "use") /\ Authenticates(k)
  /\ Reads(r, Begin("use", "touch", {<<"key", k>>}, [key |-> k, row |-> keyRow[k]]))
  /\ UNCHANGED <<keyRows, overwritten>>

UseTouch(r) ==
  /\ At(r, "use", "touch")
  /\ keyRow' = [keyRow EXCEPT ![req[r].mem.key] = req[r].mem.row]
  /\ Clobbers(r, {<<"key", req[r].mem.key>>})
  /\ Leaves(r, {<<"key", req[r].mem.key>>})
  /\ UNCHANGED <<hashRow, userKeys, revoked>>

\* MUTANT: the index row of the token stays
RevokeKeepsHash(r) ==
  /\ At(r, "revoke", "commit")
  /\ LET k == req[r].mem.key IN
       /\ keyRow' = [keyRow EXCEPT ![k] = "revoked"]
       /\ userKeys' = userKeys \ {k}
       /\ revoked' = revoked \cup {k}
       /\ Leaves(r, {<<"key", k>>})
  /\ UNCHANGED <<hashRow, overwritten>>

RevokeStart(r, k) ==
  /\ Free(r, "revoke") /\ keyRow[k] = "active"
  /\ Reads(r, Begin("revoke", "commit", {}, [key |-> k]))
  /\ UNCHANGED <<keyRows, overwritten>>

RevokeCommit(r) ==
  /\ At(r, "revoke", "commit")
  /\ LET k == req[r].mem.key IN
       /\ keyRow' = [keyRow EXCEPT ![k] = "revoked"]
       /\ hashRow' = hashRow \ {k}
       /\ userKeys' = userKeys \ {k}
       /\ revoked' = revoked \cup {k}
       /\ Leaves(r, {<<"key", k>>})
  /\ UNCHANGED overwritten

-----------------------------------------------------------------------------
KeyStep(r)  == MintCommit(r) \/ UseTouch(r) \/ RevokeCommit(r)
KeyStart(r) == MintStart(r) \/ \E k \in KeyIds : UseStart(r, k) \/ RevokeStart(r, k)

TypeOKKeys ==
  /\ keyRow \in [KeyIds -> {"active", "revoked", Absent}]
  /\ hashRow \subseteq KeyIds /\ userKeys \subseteq KeyIds /\ revoked \subseteq KeyIds
=============================================================================
