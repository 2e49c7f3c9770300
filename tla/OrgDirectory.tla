---------------------------- MODULE OrgDirectory ----------------------------
(***************************************************************************)
(* Accounts, organizations and invites (hub/store/store.ts: getMe,         *)
(* updateProfile, seedProfile, createOrgWithAdmin, joinOrg, createInvite,  *)
(* updateOrgSlug).  A handle is a local part and an organization's slug.   *)
(* A user's login subject, handle and organization have index rows.        *)
(***************************************************************************)
EXTENDS HubRequests

CONSTANTS
  Subs,       \* login subjects of the identity provider
  Slugs,      \* organization slugs
  Locals,     \* local parts of handles
  HomeSlug,   \* the slug, administrator and subject of the organization
  HomeSub,    \* that exists at the start
  HomeLocal,
  MaxUser, MaxOrg, MaxInvite   \* BOUNDS: ids ever handed out

UserIds == 1..MaxUser
OrgIds  == 1..MaxOrg
Codes   == 1..MaxInvite
Handles == Locals \X Slugs

VARIABLES
  users,       \* ["users", id]
  subRow,      \* ["auth0_sub", sub] -> user
  handleRow,   \* ["handles", handle] -> user
  orgs,        \* ["orgs", id]: the slug in it
  slugRow,     \* ["org_slugs", slug] -> organization
  reserved,    \* ["reserved_org_slugs", slug] -> listing, written by the registry
  members,     \* ["members", org, user]
  invites,     \* ["invites", code]
  orgInvites,  \* ["org_invites", org, code]
  joined,      \* history: users who joined with an invite
  lagging      \* history: users whose handle was made from a slug already replaced, or
               \* who joined while a new slug was given to the members already there

orgRows == <<users, subRow, handleRow, orgs, slugRow, members, invites, orgInvites, joined, lagging>>

Names   == {"none", "auth0", "own"}
UserRow == [sub: Subs, handle: Handles, org: OrgIds, admin: BOOLEAN,
            name: Names, email: BOOLEAN, seeded: BOOLEAN]
InviteRow == [org: OrgIds, usedBy: UserIds \cup {Absent}]

ASSUME OrgAssumption ==
  /\ HomeSlug \in Slugs /\ HomeSub \in Subs /\ HomeLocal \in Locals
  /\ MaxUser \in Nat \ {0} /\ MaxOrg \in Nat \ {0} /\ MaxInvite \in Nat \ {0}
  /\ Absent \notin UserIds \cup OrgIds \cup Codes \cup Handles \cup Slugs \cup UserRow \cup InviteRow

\* One organization with its administrator and an invite: what createOrg and
\* createInvite leave behind.
InitOrg ==
  /\ users = [u \in UserIds |->
       IF u = 1 THEN [sub |-> HomeSub, handle |-> <<HomeLocal, HomeSlug>>, org |-> 1,
                      admin |-> TRUE, name |-> "none", email |-> FALSE, seeded |-> FALSE]
                ELSE Absent]
  /\ subRow = [s \in Subs |-> IF s = HomeSub THEN 1 ELSE Absent]
  /\ handleRow = [h \in Handles |-> IF h = <<HomeLocal, HomeSlug>> THEN 1 ELSE Absent]
  /\ orgs = [o \in OrgIds |-> IF o = 1 THEN HomeSlug ELSE Absent]
  /\ slugRow = [s \in Slugs |-> IF s = HomeSlug THEN 1 ELSE Absent]
  /\ reserved = [s \in Slugs |-> Absent]
  /\ members = [o \in OrgIds |-> IF o = 1 THEN {1} ELSE {}]
  /\ invites = [c \in Codes |-> IF c = 1 THEN [org |-> 1, usedBy |-> Absent] ELSE Absent]
  /\ orgInvites = [o \in OrgIds |-> IF o = 1 THEN {1} ELSE {}]
  /\ joined = [c \in Codes |-> {}]
  /\ lagging = {}

-----------------------------------------------------------------------------
\* Helpers

\* crypto.randomUUID() and randomToken(): an id that no row has
Fresh(rows, x) == x \in DOMAIN rows /\ rows[x] = Absent /\ \A y \in DOMAIN rows : y < x => rows[y] # Absent

\* getUserByAuth0Sub
UserOf(sub) == IF subRow[sub] = Absent THEN Absent ELSE users[subRow[sub]]

\* authContextFromUser: the caller is onboarded; an administrator of his organization
IsAdmin(u) == users[u] # Absent /\ users[u].admin

\* applyAuth0ProfileSeed, as createOrgWithAdmin and joinOrg call it on a new user
NewUser(sub, handle, org, admin, name, email) ==
  [sub |-> sub, handle |-> handle, org |-> org, admin |-> admin,
   name |-> name, email |-> email, seeded |-> name = "auth0"]

\* applyAuth0ProfileSeed with forceMarkSeeded, as POST /profile/seed calls it
Seed(row, name, email) ==
  [row EXCEPT !.email = @ \/ email,
              !.name = IF ~row.seeded /\ row.name = "none" THEN name ELSE @,
              !.seeded = TRUE]

\* applyAuth0ProfileSeed with seedNamePhoto: false, as getMe calls it
Backfill(row, email) == [row EXCEPT !.email = @ \/ email]

\* The subject's row was read late; the commit compares it but nobody looks at it.
SubChecked(q) == q.mem.taken \/ subRow[q.mem.sub] = Absent
SubHeld(sub)  == IF subRow[sub] = Absent THEN {} ELSE {<<"sub", sub>>}

-----------------------------------------------------------------------------
\* createOrgWithAdmin

CreateOrgStart(r, sub, slug, local) ==
  /\ Free(r, "createOrg")
  /\ reserved[slug] = Absent
  /\ UserOf(sub) = Absent
  /\ Reads(r, Begin("createOrg", "claim", {},
                    [sub |-> sub, slug |-> slug, handle |-> <<local, slug>>, taken |-> FALSE]))
  /\ UNCHANGED <<orgRows, reserved, overwritten>>

CreateOrgClaim(r) ==
  /\ At(r, "createOrg", "claim")
  /\ LET m == req[r].mem IN
       IF slugRow[m.slug] = Absent /\ handleRow[m.handle] = Absent
       THEN Reads(r, On(req[r], "commit", SubHeld(m.sub), [m EXCEPT !.taken = subRow[m.sub] # Absent]))
       ELSE Answer(r)
  /\ UNCHANGED <<orgRows, reserved, overwritten>>

OrgClaimed(q) == q.stale = {} /\ slugRow[q.mem.slug] = Absent /\ handleRow[q.mem.handle] = Absent /\ SubChecked(q)

CreateOrgCommit(r) ==
  /\ At(r, "createOrg", "commit") /\ OrgClaimed(req[r])
  /\ \E u \in UserIds, o \in OrgIds, name \in {"none", "auth0"}, email \in BOOLEAN :
       LET m == req[r].mem IN
       /\ Fresh(users, u) /\ Fresh(orgs, o)
       /\ orgs' = [orgs EXCEPT ![o] = m.slug]
       /\ slugRow' = [slugRow EXCEPT ![m.slug] = o]
       /\ users' = [users EXCEPT ![u] = NewUser(m.sub, m.handle, o, TRUE, name, email)]
       /\ subRow' = [subRow EXCEPT ![m.sub] = u]
       /\ handleRow' = [handleRow EXCEPT ![m.handle] = u]
       /\ members' = [members EXCEPT ![o] = {u}]
       /\ Leaves(r, {<<"sub", m.sub>>})
  /\ UNCHANGED <<reserved, invites, orgInvites, joined, lagging, overwritten>>

CreateOrgConflict(r) ==
  /\ At(r, "createOrg", "commit") /\ ~OrgClaimed(req[r])
  /\ Answer(r)
  /\ UNCHANGED <<orgRows, reserved, overwritten>>

-----------------------------------------------------------------------------
\* createInvite: two writes; joinOrg

InviteStart(r, u) ==
  /\ Free(r, "invite") /\ IsAdmin(u) /\ orgs[users[u].org] # Absent
  /\ \E c \in Codes :
       /\ Fresh(invites, c)
       /\ invites' = [invites EXCEPT ![c] = [org |-> users[u].org, usedBy |-> Absent]]
       /\ Reads(r, Begin("invite", "index", {}, [org |-> users[u].org, code |-> c]))
  /\ UNCHANGED <<users, subRow, handleRow, orgs, slugRow, reserved, members, orgInvites, joined,
                 lagging, overwritten>>

InviteIndex(r) ==
  /\ At(r, "invite", "index")
  /\ orgInvites' = [orgInvites EXCEPT ![req[r].mem.org] = @ \cup {req[r].mem.code}]
  /\ Leaves(r, {})
  /\ UNCHANGED <<users, subRow, handleRow, orgs, slugRow, reserved, members, invites, joined,
                 lagging, overwritten>>

JoinStart(r, sub, c, local) ==
  /\ Free(r, "join")
  /\ UserOf(sub) = Absent
  /\ invites[c] # Absent /\ invites[c].usedBy = Absent
  /\ LET slug == orgs[invites[c].org] IN
       Reads(r, Begin("join", "claim", {<<"invite", c>>},
                      [sub |-> sub, code |-> c, org |-> invites[c].org, slug |-> slug,
                       handle |-> <<local, slug>>, taken |-> FALSE]))
  /\ UNCHANGED <<orgRows, reserved, overwritten>>

\* MUTANT: the invite is not among the checks
JoinUnchecked(q) == handleRow[q.mem.handle] = Absent /\ SubChecked(q)

JoinClaim(r) ==
  /\ At(r, "join", "claim")
  /\ LET m == req[r].mem IN
       IF handleRow[m.handle] = Absent
       THEN Reads(r, On(req[r], "commit", SubHeld(m.sub), [m EXCEPT !.taken = subRow[m.sub] # Absent]))
       ELSE Answer(r)
  /\ UNCHANGED <<orgRows, reserved, overwritten>>

JoinChecked(q) == q.stale = {} /\ handleRow[q.mem.handle] = Absent /\ SubChecked(q)

JoinCommit(r) ==
  /\ At(r, "join", "commit") /\ JoinChecked(req[r])
  /\ \E u \in UserIds, name \in {"none", "auth0"}, email \in BOOLEAN :
       LET m == req[r].mem IN
       /\ Fresh(users, u)
       /\ users' = [users EXCEPT ![u] = NewUser(m.sub, m.handle, m.org, FALSE, name, email)]
       /\ subRow' = [subRow EXCEPT ![m.sub] = u]
       /\ handleRow' = [handleRow EXCEPT ![m.handle] = u]
       /\ members' = [members EXCEPT ![m.org] = @ \cup {u}]
       /\ invites' = [invites EXCEPT ![m.code].usedBy = u]
       /\ orgInvites' = [orgInvites EXCEPT ![m.org] = @ \ {m.code}]
       /\ joined' = [joined EXCEPT ![m.code] = @ \cup {u}]
       /\ lagging' = IF orgs[m.org] = m.slug THEN lagging ELSE lagging \cup {u}
       /\ Leaves(r, {<<"sub", m.sub>>, <<"invite", m.code>>})
  /\ UNCHANGED <<orgs, slugRow, reserved, overwritten>>

JoinConflict(r) ==
  /\ At(r, "join", "commit") /\ ~JoinChecked(req[r])
  /\ Answer(r)
  /\ UNCHANGED <<orgRows, reserved, overwritten>>

-----------------------------------------------------------------------------
\* updateOrgSlug: the organization, then its members, then one commit

SlugStart(r, u, to) ==
  /\ Free(r, "slug") /\ IsAdmin(u)
  /\ LET o == users[u].org IN
       /\ orgs[o] \notin {Absent, to}
       /\ reserved[to] = Absent /\ slugRow[to] = Absent
       /\ Reads(r, Begin("slug", "members", {<<"org", o>>},
                         [org |-> o, from |-> orgs[o], to |-> to, who |-> {}, gone |-> {}]))
  /\ UNCHANGED <<orgRows, reserved, overwritten>>

Renamed(handle, to) == <<handle[1], to>>

SlugMembers(r) ==
  /\ At(r, "slug", "members")
  /\ LET m    == req[r].mem
         who  == {u \in members[m.org] : users[u] # Absent}
         old  == {users[u].handle : u \in who}
         new  == {Renamed(h, m.to) : h \in old}
         here == {h \in old \cup new : handleRow[h] # Absent}
         free == \A u \in who : handleRow[Renamed(users[u].handle, m.to)] \in {Absent, u}
     IN IF free /\ \A u \in who : users[u].handle[2] = m.from
        THEN Reads(r, On(req[r], "commit",
                         {<<"user", u>> : u \in who} \cup {<<"handle", h>> : h \in here} \cup
                         {<<"slug", s>> : s \in {m.from} \ {s \in Slugs : slugRow[s] = Absent}},
                         [m EXCEPT !.who = who, !.gone = (old \cup new) \ here]))
        ELSE Answer(r)
  /\ UNCHANGED <<orgRows, reserved, overwritten>>

\* MUTANT: the new slug is not among the checks
SlugUnchecked(q) == q.stale = {} /\ \A h \in q.mem.gone : handleRow[h] = Absent

SlugChecked(q) ==
  q.stale = {} /\ slugRow[q.mem.to] = Absent /\ \A h \in q.mem.gone : handleRow[h] = Absent

SlugCommit(r) ==
  /\ At(r, "slug", "commit") /\ SlugChecked(req[r])
  /\ LET m   == req[r].mem
         old == {users[u].handle : u \in m.who}
         new == {Renamed(h, m.to) : h \in old}
     IN \E mover \in [new -> m.who] :
        /\ \A h \in new : Renamed(users[mover[h]].handle, m.to) = h
        /\ orgs' = [orgs EXCEPT ![m.org] = m.to]
        /\ slugRow' = [slugRow EXCEPT ![m.from] = Absent, ![m.to] = m.org]
        /\ users' = [u \in UserIds |->
             IF u \in m.who THEN [users[u] EXCEPT !.handle = Renamed(@, m.to)] ELSE users[u]]
        /\ handleRow' = [h \in Handles |->
             IF h \in new THEN mover[h] ELSE IF h \in old THEN Absent ELSE handleRow[h]]
        /\ lagging' = lagging \cup (members[m.org] \ m.who)
        /\ Leaves(r, {<<"org", m.org>>, <<"slug", m.from>>} \cup {<<"user", u>> : u \in m.who}
                       \cup {<<"handle", h>> : h \in old \cup new})
  /\ UNCHANGED <<subRow, reserved, members, invites, orgInvites, joined, overwritten>>

SlugConflict(r) ==
  /\ At(r, "slug", "commit") /\ ~SlugChecked(req[r])
  /\ Answer(r)
  /\ UNCHANGED <<orgRows, reserved, overwritten>>

-----------------------------------------------------------------------------
\* updateProfile, seedProfile, getMe: the row read at the start is written at the end

\* What updateProfile does with display_name; an edit of any kind marks the row seeded.
ProfileStart(r, sub, name, local) ==
  /\ Free(r, "profile") /\ UserOf(sub) # Absent
  /\ LET u   == subRow[sub]
         row == [users[u] EXCEPT !.name = IF name = Absent THEN @ ELSE name, !.seeded = TRUE]
     IN Reads(r, Begin("profile", IF local = Absent THEN "save" ELSE "org", {<<"user", u>>},
                       [user |-> u, row |-> row, old |-> row.handle, local |-> local, gone |-> {},
                        lost |-> FALSE, slug |-> Absent]))
  /\ UNCHANGED <<orgRows, reserved, overwritten>>

ProfileOrg(r) ==
  /\ At(r, "profile", "org")
  /\ LET m  == req[r].mem
         nh == <<m.local, orgs[m.row.org]>>
     IN Reads(r, On(req[r], IF nh = m.old THEN "save" ELSE "reads", {},
                    [m EXCEPT !.row.handle = nh, !.slug = orgs[m.row.org]]))
  /\ UNCHANGED <<orgRows, reserved, overwritten>>

\* MUTANT: the new handle is not among the checks
ProfileUnchecked(q) == q.stale = {}

\* The rows of the commit's checks are read here, the user row once more: what
\* happened to it since the first read goes unnoticed.
ProfileReads(r) ==
  /\ At(r, "profile", "reads")
  /\ LET m     == req[r].mem
         pair  == {m.old, m.row.handle}
         here  == {h \in pair : handleRow[h] # Absent}
     IN IF handleRow[m.row.handle] \in {Absent, m.user}
        THEN Reads(r, [On(req[r], "commit", {<<"handle", h>> : h \in here},
                          [m EXCEPT !.gone = pair \ here, !.lost = req[r].stale # {}])
                       EXCEPT !.stale = {}])
        ELSE Answer(r)
  /\ UNCHANGED <<orgRows, reserved, overwritten>>

ProfileChecked(q) == q.stale = {} /\ \A h \in q.mem.gone : handleRow[h] = Absent

ProfileCommit(r) ==
  /\ At(r, "profile", "commit") /\ ProfileChecked(req[r])
  /\ LET m == req[r].mem IN
       /\ users' = [users EXCEPT ![m.user] = m.row]
       /\ handleRow' = [handleRow EXCEPT ![m.old] = Absent, ![m.row.handle] = m.user]
       /\ overwritten' = IF m.lost THEN overwritten \cup {<<"user", m.user>>} ELSE overwritten
       /\ lagging' = IF orgs[m.row.org] = m.slug THEN lagging \ {m.user} ELSE lagging \cup {m.user}
       /\ Leaves(r, {<<"user", m.user>>, <<"handle", m.old>>, <<"handle", m.row.handle>>})
  /\ UNCHANGED <<subRow, orgs, slugRow, reserved, members, invites, orgInvites, joined>>

ProfileConflict(r) ==
  /\ At(r, "profile", "commit") /\ ~ProfileChecked(req[r])
  /\ Answer(r)
  /\ UNCHANGED <<orgRows, reserved, overwritten>>

SeedStart(r, sub, name, email) ==
  /\ Free(r, "seed") /\ UserOf(sub) # Absent
  /\ LET u == subRow[sub] IN
       /\ Seed(users[u], name, email) # users[u]
       /\ Reads(r, Begin("seed", "save", {<<"user", u>>},
                         [user |-> u, row |-> Seed(users[u], name, email)]))
  /\ UNCHANGED <<orgRows, reserved, overwritten>>

MeStart(r, sub, email) ==
  /\ Free(r, "me") /\ UserOf(sub) # Absent
  /\ LET u == subRow[sub] IN
       /\ Backfill(users[u], email) # users[u]
       /\ Reads(r, Begin("me", "save", {<<"user", u>>},
                         [user |-> u, row |-> Backfill(users[u], email)]))
  /\ UNCHANGED <<orgRows, reserved, overwritten>>

UserSave(r) ==
  /\ req[r].op \in {"profile", "seed", "me"} /\ req[r].pc = "save"
  /\ users' = [users EXCEPT ![req[r].mem.user] = req[r].mem.row]
  /\ Clobbers(r, {<<"user", req[r].mem.user>>})
  /\ Leaves(r, {<<"user", req[r].mem.user>>})
  /\ UNCHANGED <<subRow, handleRow, orgs, slugRow, reserved, members, invites, orgInvites, joined,
                 lagging>>

-----------------------------------------------------------------------------
OrgStep(r) ==
  \/ CreateOrgClaim(r) \/ CreateOrgCommit(r) \/ CreateOrgConflict(r)
  \/ InviteIndex(r) \/ JoinClaim(r) \/ JoinCommit(r) \/ JoinConflict(r)
  \/ SlugMembers(r) \/ SlugCommit(r) \/ SlugConflict(r)
  \/ ProfileOrg(r) \/ ProfileReads(r) \/ ProfileCommit(r) \/ ProfileConflict(r)
  \/ UserSave(r)

OrgStart(r) ==
  \/ \E sub \in Subs, slug \in Slugs, l \in Locals : CreateOrgStart(r, sub, slug, l)
  \/ \E u \in UserIds : InviteStart(r, u)
  \/ \E sub \in Subs, c \in Codes, l \in Locals : JoinStart(r, sub, c, l)
  \/ \E u \in UserIds, s \in Slugs : SlugStart(r, u, s)
  \/ \E sub \in Subs, n \in {Absent, "none", "own"}, l \in Locals \cup {Absent} :
       ProfileStart(r, sub, n, l)
  \/ \E sub \in Subs, n \in {"none", "auth0"}, e \in BOOLEAN : SeedStart(r, sub, n, e)
  \/ \E sub \in Subs, e \in BOOLEAN : MeStart(r, sub, e)

TypeOKOrg ==
  /\ users \in [UserIds -> UserRow \cup {Absent}]
  /\ subRow \in [Subs -> UserIds \cup {Absent}]
  /\ handleRow \in [Handles -> UserIds \cup {Absent}]
  /\ orgs \in [OrgIds -> Slugs \cup {Absent}]
  /\ slugRow \in [Slugs -> OrgIds \cup {Absent}]
  /\ members \in [OrgIds -> SUBSET UserIds]
  /\ invites \in [Codes -> InviteRow \cup {Absent}]
  /\ orgInvites \in [OrgIds -> SUBSET Codes]
  /\ joined \in [Codes -> SUBSET UserIds] /\ lagging \subseteq UserIds
=============================================================================
