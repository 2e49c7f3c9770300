------------------------- MODULE EnterpriseRegistry -------------------------
(***************************************************************************)
(* The life cycle of an enterprise listing (hub/store/enterprise.ts:       *)
(* createDraft, updateDraft, verifyAndReserveSlug, publishListing,         *)
(* suspendListing, unpublishListing).  Verification reserves a slug of the *)
(* name space that organizations take theirs from.  Each listing has a     *)
(* stub agent whose visibility follows it.                                 *)
(***************************************************************************)
EXTENDS OrgDirectory

CONSTANTS
  Addresses,   \* addresses that listings ask for
  MaxListing   \* BOUND: listings ever created

ListingIds == 1..MaxListing

VARIABLES
  listings,     \* ["registry_listings", id]
  addressRow,   \* ["registry_listing_addresses", address] -> listing
  stubPublic    \* ["agents", id].visibility of a listing's stub agent

registryRows == <<listings, addressRow, stubPublic>>

Statuses   == {"draft", "published", "suspended"}
ListingRow == [address: Addresses, org: OrgIds, status: Statuses, verified: BOOLEAN,
               slug: Slugs \cup {Absent}]

ASSUME RegistryAssumption ==
  MaxListing \in Nat \ {0} /\ Absent \notin ListingIds \cup ListingRow

InitRegistry ==
  /\ listings = [l \in ListingIds |-> Absent]
  /\ addressRow = [a \in Addresses |-> Absent]
  /\ stubPublic = [l \in ListingIds |-> FALSE]

-----------------------------------------------------------------------------
\* createDraft

DraftStart(r, u, a) ==
  /\ Free(r, "draft") /\ users[u] # Absent
  /\ addressRow[a] = Absent
  /\ Reads(r, Begin("draft", "commit", {}, [org |-> users[u].org, address |-> a]))
  /\ UNCHANGED <<registryRows, orgRows, reserved, overwritten>>

\* MUTANT: the address is not among the checks
DraftUnchecked(q) == TRUE

DraftChecked(q) == addressRow[q.mem.address] = Absent

DraftCommit(r) ==
  /\ At(r, "draft", "commit") /\ DraftChecked(req[r])
  /\ \E l \in ListingIds :
       LET m == req[r].mem IN
       /\ Fresh(listings, l)
       /\ listings' = [listings EXCEPT ![l] =
            [address |-> m.address, org |-> m.org, status |-> "draft",
             verified |-> FALSE, slug |-> Absent]]
       /\ addressRow' = [addressRow EXCEPT ![m.address] = l]
       /\ stubPublic' = [stubPublic EXCEPT ![l] = FALSE]
  /\ Leaves(r, {})
  /\ UNCHANGED <<orgRows, reserved, overwritten>>

DraftConflict(r) ==
  /\ At(r, "draft", "commit") /\ ~DraftChecked(req[r])
  /\ Answer(r)
  /\ UNCHANGED <<registryRows, orgRows, reserved, overwritten>>

-----------------------------------------------------------------------------
\* updateDraft, publishListing, suspendListing, unpublishListing: read the
\* listing, read its agent, write both back

\* What the operation makes of the listing it has read; Absent where it refuses.
\* "edit" changes price and capabilities only, which no property tells apart.
Edited(row)      == IF row.status = "draft" THEN row ELSE Absent
Published(row)   == IF row.status = "draft" /\ row.verified /\ row.slug # Absent
                    THEN [row EXCEPT !.status = "published"] ELSE Absent
Suspended(row)   == [row EXCEPT !.status = "suspended"]
Unpublished(row) == [row EXCEPT !.status = "draft"]

ListingOps == {"edit", "publish", "suspend", "unpublish"}
After(op, row) ==
  CASE op = "edit" -> Edited(row) [] op = "publish" -> Published(row)
    [] op = "suspend" -> Suspended(row) [] op = "unpublish" -> Unpublished(row)

\* requireListing; for an edit the caller is of the submitter's organization
ListingStart(r, op, l) ==
  /\ Free(r, op) /\ listings[l] # Absent
  /\ After(op, listings[l]) # Absent
  /\ Reads(r, Begin(op, "agent", {<<"listing", l>>},
                    [listing |-> l, row |-> After(op, listings[l]), public |-> FALSE]))
  /\ UNCHANGED <<registryRows, orgRows, reserved, overwritten>>

ListingAgent(r) ==
  /\ req[r].op \in ListingOps /\ req[r].pc = "agent"
  /\ Reads(r, On(req[r], "commit", {},
       [req[r].mem EXCEPT !.public =
          IF req[r].op = "edit" THEN stubPublic[req[r].mem.listing] ELSE req[r].op = "publish"]))
  /\ UNCHANGED <<registryRows, orgRows, reserved, overwritten>>

ListingCommit(r) ==
  /\ req[r].op \in ListingOps /\ req[r].pc = "commit"
  /\ LET m == req[r].mem IN
       /\ listings' = [listings EXCEPT ![m.listing] = m.row]
       /\ stubPublic' = [stubPublic EXCEPT ![m.listing] = m.public]
       /\ Clobbers(r, {<<"listing", m.listing>>})
       /\ Leaves(r, {<<"listing", m.listing>>})
  /\ UNCHANGED <<orgRows, addressRow, reserved>>

-----------------------------------------------------------------------------
\* verifyAndReserveSlug, for the slug of the address or one that ops names

VerifyStart(r, l, slug) ==
  /\ Free(r, "verify") /\ listings[l] # Absent
  /\ Reads(r, Begin("verify", "slugs", {<<"listing", l>>},
                    [listing |-> l, slug |-> slug, row |-> listings[l]]))
  /\ UNCHANGED <<registryRows, orgRows, reserved, overwritten>>

VerifySlugs(r) ==
  /\ At(r, "verify", "slugs")
  /\ LET m == req[r].mem IN
       IF slugRow[m.slug] \in {Absent, m.row.org} /\ reserved[m.slug] \in {Absent, m.listing}
       THEN Reads(r, On(req[r], "commit", {}, m))
       ELSE Answer(r)
  /\ UNCHANGED <<registryRows, orgRows, reserved, overwritten>>

VerifyCommit(r) ==
  /\ At(r, "verify", "commit")
  /\ LET m == req[r].mem IN
       /\ listings' = [listings EXCEPT ![m.listing] = [m.row EXCEPT !.verified = TRUE, !.slug = m.slug]]
       /\ reserved' = [reserved EXCEPT ![m.slug] = m.listing]
       /\ overwritten' = overwritten
            \cup req[r].stale
            \cup (IF reserved[m.slug] \in {Absent, m.listing} THEN {} ELSE {<<"reserved", m.slug>>})
       /\ Leaves(r, {<<"listing", m.listing>>})
  /\ UNCHANGED <<orgRows, addressRow, stubPublic>>

-----------------------------------------------------------------------------
RegistryStep(r) ==
  \/ DraftCommit(r) \/ DraftConflict(r)
  \/ ListingAgent(r) \/ ListingCommit(r) \/ VerifySlugs(r) \/ VerifyCommit(r)

RegistryStart(r) ==
  \/ \E u \in UserIds, a \in Addresses : DraftStart(r, u, a)
  \/ \E op \in ListingOps, l \in ListingIds : ListingStart(r, op, l)
  \/ \E l \in ListingIds, s \in Slugs : VerifyStart(r, l, s)

TypeOKRegistry ==
  /\ listings \in [ListingIds -> ListingRow \cup {Absent}]
  /\ addressRow \in [Addresses -> ListingIds \cup {Absent}]
  /\ stubPublic \in [ListingIds -> BOOLEAN]
  /\ reserved \in [Slugs -> ListingIds \cup {Absent}]
=============================================================================
