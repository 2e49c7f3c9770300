------------------------- MODULE HubDirectoryProofs -------------------------
(***************************************************************************)
(* Handles, invites and listings of the hub, and the types of all its rows *)
(* of accounts, for every number of requests in flight.                    *)
(*                                                                         *)
(* createOrgWithAdmin, joinOrg, updateOrgSlug and updateProfile write      *)
(* several rows in one commit that checks the rows it read.  The invariant *)
(* says for each request in flight what it remembers of those rows, and    *)
(* that it is so still unless it holds a stale row; a step of another      *)
(* request leaves that alone or makes a row stale.  The commits that check *)
(* nothing (getMe, seedProfile, those of the listings) are recorded in     *)
(* `overwritten` when they lose a newer row.                               *)
(***************************************************************************)
EXTENDS HubAccountsProofs, FiniteSetTheorems

-----------------------------------------------------------------------------
(* Accounts and organizations *)

\* What is known of the rows, whatever was lost: members and users agree, and
\* an invite that let somebody in is used up.
Settled ==
  /\ TypeOKOrg
  /\ \A u \in UserIds :
       users[u] # Absent => orgs[users[u].org] # Absent /\ u \in members[users[u].org]
  /\ \A o \in OrgIds : \A u \in members[o] : users[u] # Absent /\ users[u].org = o
  /\ \A c \in Codes :
       /\ invites[c] # Absent => orgs[invites[c].org] # Absent
       /\ joined[c] # {} => /\ invites[c] # Absent /\ invites[c].usedBy # Absent
                            /\ joined[c] = {invites[c].usedBy}

\* The rows that a request will write are of the right kind.
ClaimOf(m) ==
  /\ m.sub \in Subs /\ m.slug \in Slugs /\ m.handle \in Handles /\ m.handle[2] = m.slug

HoldsPlace(q) ==
  /\ q.op = "createOrg" => DOMAIN q.mem = {"sub", "slug", "handle", "taken"} /\ ClaimOf(q.mem)
  /\ q.op = "invite" => q.mem.code \in Codes
  /\ q.op = "join" =>
       /\ DOMAIN q.mem = {"sub", "code", "org", "slug", "handle", "taken"} /\ ClaimOf(q.mem)
       /\ q.mem.code \in Codes /\ q.mem.org \in OrgIds /\ orgs[q.mem.org] # Absent
  /\ q.op = "slug" =>
       /\ DOMAIN q.mem = {"org", "from", "to", "who", "gone"}
       /\ q.mem.org \in OrgIds /\ orgs[q.mem.org] # Absent /\ q.mem.to \in Slugs
       /\ q.mem.from \in Slugs /\ q.mem.who \subseteq members[q.mem.org]
  /\ q.op \in {"profile", "seed", "me"} =>
       /\ q.mem.user \in UserIds /\ users[q.mem.user] # Absent
       /\ q.mem.row \in UserRow /\ q.mem.row.org = users[q.mem.user].org
  /\ q.op = "profile" =>
       /\ DOMAIN q.mem = {"user", "row", "old", "local", "gone", "lost", "slug"}
       /\ q.pc \in {"save", "org", "reads", "commit"} /\ q.mem.old \in Handles
       /\ q.pc = "org" => q.mem.local \in Locals
       /\ q.pc \in {"reads", "commit"} => q.mem.row.handle[2] = q.mem.slug
  /\ q.op \in {"seed", "me"} => q.pc = "save"

\* A handle that a request will give to user u: nobody had it, and the request
\* will see whether that changed, or it is u's, as its row is unless stale.
MayTake(q, h, u) == h \in q.mem.gone \/ (<<"handle", h>> \in q.held /\ handleRow[h] = u)

\* What a request has read is as it was, or the request has a stale row.
HoldsView(q) ==
  /\ q.op = "join" =>
       /\ <<"invite", q.mem.code>> \in q.held
       /\ q.stale = {} => invites[q.mem.code] # Absent /\ invites[q.mem.code].usedBy = Absent
  /\ q.op = "slug" /\ q.pc = "commit" => \A u \in q.mem.who :
       /\ <<"user", u>> \in q.held
       /\ q.stale = {} => /\ users[u].handle[2] = q.mem.from
                          /\ MayTake(q, Renamed(users[u].handle, q.mem.to), u)
  /\ q.op \in {"profile", "seed", "me"} =>
       /\ <<"user", q.mem.user>> \in q.held
       /\ <<"user", q.mem.user>> \notin q.stale =>
            /\ q.pc \in {"save", "org"} => q.mem.row.handle = users[q.mem.user].handle
            /\ q.op = "profile" =>
                 /\ q.pc \in {"org", "reads"} \/ (q.pc = "commit" /\ ~q.mem.lost) =>
                      q.mem.old = users[q.mem.user].handle
  /\ q.op = "profile" /\ q.pc = "commit" /\ q.stale = {} => MayTake(q, q.mem.row.handle, q.mem.user)

OrgInv ==
  /\ Settled
  /\ HandlesResolve
  /\ \A p \in Reqs : HoldsPlace(req[p]) /\ HoldsView(req[p])

\* What a step of request r may do to the rows without taking from the other
\* requests what they need.
Respects(r) ==
  /\ \A o \in OrgIds : (orgs[o] # Absent => orgs'[o] # Absent) /\ members[o] \subseteq members'[o]
  /\ \A u \in UserIds : users[u] # Absent => users'[u] # Absent /\ users'[u].org = users[u].org
  /\ \A p \in Reqs : p # r =>
       /\ Aside(p)
       /\ \A u \in UserIds : users[u] # Absent /\ <<"user", u>> \in req[p].held =>
            <<"user", u>> \in req'[p].stale \/ users'[u].handle = users[u].handle
       /\ \A h \in Handles : <<"handle", h>> \in req[p].held =>
            req'[p].stale # {} \/ handleRow[h] = Absent \/ handleRow'[h] = handleRow[h]
       /\ \A c \in Codes :
            <<"invite", c>> \in req[p].held /\ invites[c] # Absent /\ invites[c].usedBy = Absent =>
              req'[p].stale # {} \/ (invites'[c] # Absent /\ invites'[c].usedBy = Absent)

\* A step that respects the others leaves what they hold as it was.
LEMMA OthersStay ==
  ASSUME OrgInv, NEW r \in Reqs, Respects(r), NEW p \in Reqs, p # r
  PROVE  HoldsPlace(req[p])' /\ HoldsView(req[p])'
<1>1. HoldsPlace(req[p]) /\ HoldsView(req[p]) /\ Aside(p)
  BY DEF OrgInv, Respects
<1>2. HoldsPlace(req[p])'
  BY <1>1 DEF Respects, Aside, HoldsPlace, ClaimOf
<1>3. ASSUME NEW h \in Handles, NEW u \in UserIds, req'[p].stale = {}, MayTake(req[p], h, u)
      PROVE  MayTake(req[p], h, u)'
  BY <1>1, <1>3, OrgAssumption DEF MayTake, Respects, Aside
<1>4. req'[p].op = "join" =>
       /\ <<"invite", req'[p].mem.code>> \in req'[p].held
       /\ req'[p].stale = {} => invites'[req'[p].mem.code] # Absent /\ invites'[req'[p].mem.code].usedBy = Absent
  BY <1>1 DEF HoldsView, HoldsPlace, Aside, Respects
<1>5. ASSUME req[p].op = "slug", req[p].pc = "commit", NEW u \in req[p].mem.who
      PROVE  /\ <<"user", u>> \in req'[p].held
             /\ req'[p].stale = {} => /\ users'[u].handle[2] = req[p].mem.from
                                      /\ MayTake(req[p], Renamed(users[u].handle, req[p].mem.to), u)'
  <2>1. u \in UserIds /\ users[u] # Absent /\ users[u].handle \in Handles /\ req[p].mem.to \in Slugs
    BY <1>1, <1>5 DEF HoldsPlace, OrgInv, Settled, TypeOKOrg, UserRow
  <2>2. Renamed(users[u].handle, req[p].mem.to) \in Handles
    BY <2>1 DEF Renamed, Handles
  <2>3. <<"user", u>> \in req[p].held
    BY <1>1, <1>5 DEF HoldsView
  <2>4. ASSUME req'[p].stale = {}
        PROVE  /\ users'[u].handle = users[u].handle
               /\ users[u].handle[2] = req[p].mem.from
               /\ MayTake(req[p], Renamed(users[u].handle, req[p].mem.to), u)
    BY <1>1, <1>5, <2>1, <2>3, <2>4 DEF HoldsView, Respects, Aside
  <2> QED
    BY <1>1, <1>3, <2>1, <2>2, <2>3, <2>4 DEF Aside
<1>6. ASSUME req[p].op \in {"profile", "seed", "me"}
      PROVE  /\ <<"user", req[p].mem.user>> \in req'[p].held
             /\ <<"user", req[p].mem.user>> \notin req'[p].stale =>
                  /\ <<"user", req[p].mem.user>> \notin req[p].stale
                  /\ users'[req[p].mem.user].handle = users[req[p].mem.user].handle
  BY <1>1, <1>6 DEF HoldsPlace, HoldsView, Respects, Aside
<1>7. ASSUME req[p].op = "profile", req[p].pc = "commit", req'[p].stale = {}
      PROVE  MayTake(req[p], req[p].mem.row.handle, req[p].mem.user)'
  <2>1. req[p].mem.row.handle \in Handles /\ req[p].mem.user \in UserIds
    BY <1>1, <1>7 DEF HoldsPlace, UserRow
  <2>2. MayTake(req[p], req[p].mem.row.handle, req[p].mem.user)
    BY <1>1, <1>7 DEF HoldsView, Aside
  <2>3. PICK h \in Handles, u \in UserIds : h = req[p].mem.row.handle /\ u = req[p].mem.user
    BY <2>1
  <2>4. MayTake(req[p], h, u)'
    BY <1>3, <1>7, <2>2, <2>3
  <2> QED
    BY <1>1, <2>3, <2>4 DEF Aside
<1>8. HoldsView(req[p])'
  BY <1>1, <1>4, <1>5, <1>6, <1>7 DEF HoldsView, Aside, MayTake
<1> QED
  BY <1>2, <1>8

\* Such a step keeps the invariant, if it keeps what is known of the rows and of its own request.
LEMMA OrgKept ==
  ASSUME OrgInv, NEW r \in Reqs, Settled', HandlesResolve', Respects(r),
         HoldsPlace(req[r])', HoldsView(req[r])'
  PROVE  OrgInv'
BY OthersStay DEF OrgInv

\* So does a step that writes none of these rows.
LEMMA OrgStays ==
  ASSUME OrgInv, NEW r \in Reqs, UNCHANGED orgRows, overwritten \subseteq overwritten',
         \A p \in Reqs : p # r => Aside(p), HoldsPlace(req[r])', HoldsView(req[r])'
  PROVE  OrgInv'
<1>1. Settled'
  BY DEF OrgInv, Settled, TypeOKOrg, orgRows
<1>2. HandlesResolve'
  BY DEF OrgInv, HandlesResolve, NoLostEdit, orgRows
<1>3. Respects(r)
  BY DEF Respects, orgRows
<1> QED
  BY <1>1, <1>2, <1>3, OrgKept

\* Requests of other components, and those that are answered.
LEMMA OrgAside ==
  ASSUME AllFormed, OrgInv, NEW r \in Reqs, NEW Ops, Becomes(r, Ops),
         Ops \cap {"createOrg", "invite", "join", "slug", "profile", "seed", "me"} = {},
         UNCHANGED orgRows, overwritten \subseteq overwritten'
  PROVE  OrgInv'
<1>1. req'[r].op \in Ops \cup {"none"} /\ \A p \in Reqs : p # r => Aside(p)
  BY Bystanders
<1>2. HoldsPlace(req[r])' /\ HoldsView(req[r])'
  BY <1>1 DEF HoldsPlace, HoldsView
<1> QED
  BY <1>1, <1>2, OrgStays

\* A request that is answered without a commit.
LEMMA OrgAnswers ==
  ASSUME AllFormed, OrgInv, NEW r \in Reqs, Ends(r), UNCHANGED orgRows,
         overwritten \subseteq overwritten'
  PROVE  OrgInv'
<1>1. Becomes(r, {})
  BY Ending
<1> QED
  BY <1>1, OrgAside

\* The row of a new account.
LEMMA NewRow ==
  ASSUME NEW sub \in Subs, NEW handle \in Handles, NEW org \in OrgIds, NEW admin \in BOOLEAN,
         NEW name \in {"none", "auth0"}, NEW email \in BOOLEAN
  PROVE  /\ NewUser(sub, handle, org, admin, name, email) \in UserRow
         /\ NewUser(sub, handle, org, admin, name, email).handle = handle
         /\ NewUser(sub, handle, org, admin, name, email).org = org
BY DEF UserRow, Names, NewUser

\* Rows are not absent.
LEMMA RowsAreThere ==
  /\ \A row \in UserRow : row # Absent /\ row.org \in OrgIds /\ row.handle \in Handles
  /\ \A row \in InviteRow : row # Absent /\ row.org \in OrgIds
  /\ \A x \in UserIds \cup OrgIds \cup Slugs : x # Absent
<1>1. Absent \notin UserRow /\ Absent \notin InviteRow
  BY OrgAssumption
<1> QED
  BY <1>1, OrgAssumption DEF UserRow, InviteRow

-----------------------------------------------------------------------------
\* createOrgWithAdmin

\* createOrgWithAdmin begins.
LEMMA FoundStart ==
  ASSUME AllFormed, OrgInv, NEW r \in Reqs, NEW sub \in Subs, NEW slug \in Slugs, NEW local \in Locals,
         CreateOrgStart(r, sub, slug, local)
  PROVE  OrgInv'
<1>1. PICK mem : mem = [sub |-> sub, slug |-> slug, handle |-> <<local, slug>>, taken |-> FALSE]
  OBVIOUS
<1>2. Writes(r, Begin("createOrg", "claim", {}, mem), {})
  BY <1>1, Zenon DEF CreateOrgStart, Reads
<1>3. /\ req'[r].op = "createOrg" /\ req'[r].pc = "claim" /\ req'[r].mem = mem
      /\ \A p \in Reqs : p # r => Aside(p)
  BY <1>2, Opens
<1>4. DOMAIN mem = {"sub", "slug", "handle", "taken"} /\ ClaimOf(mem)
  BY <1>1 DEF ClaimOf, Handles
<1>5. HoldsPlace(req[r])' /\ HoldsView(req[r])'
  BY <1>3, <1>4 DEF HoldsPlace, HoldsView
<1> QED
  BY <1>3, <1>5, OrgStays DEF CreateOrgStart

\* It reads the row of the account and finds the slug free.
LEMMA FoundClaim ==
  ASSUME AllFormed, OrgInv, NEW r \in Reqs, CreateOrgClaim(r)
  PROVE  OrgInv'
<1>1. UNCHANGED <<orgRows, overwritten>>
  BY DEF CreateOrgClaim
<1>2. CASE Ends(r)
  BY <1>1, <1>2, OrgAnswers
<1>3. CASE ~Ends(r)
  <2>1. PICK mem : mem = [req[r].mem EXCEPT !.taken = subRow[req[r].mem.sub] # Absent]
    OBVIOUS
  <2>2. \E held, K : Writes(r, On(req[r], "commit", held, mem), K)
    BY <1>3, <2>1, Zenon DEF CreateOrgClaim, Answer, Reads, Ends
  <2>3. /\ req'[r].op = "createOrg" /\ req'[r].pc = "commit" /\ req'[r].mem = mem
        /\ \A p \in Reqs : p # r => Aside(p)
    <3>1. req[r].op = "createOrg"
      BY DEF CreateOrgClaim, At
    <3> QED
      BY <2>2, <3>1, Moves
  <2>4. DOMAIN mem = {"sub", "slug", "handle", "taken"} /\ ClaimOf(mem)
    BY <2>1 DEF ClaimOf, CreateOrgClaim, At, OrgInv, HoldsPlace
  <2>5. HoldsPlace(req[r])' /\ HoldsView(req[r])'
    BY <2>3, <2>4 DEF HoldsPlace, HoldsView
  <2> QED
    BY <1>1, <2>3, <2>5, OrgStays
<1> QED
  BY <1>2, <1>3

\* It writes the organization and its administrator; all it goes by was checked.
LEMMA FoundCommit ==
  ASSUME AllFormed, OrgInv, NEW r \in Reqs, CreateOrgCommit(r)
  PROVE  OrgInv'
<1>1. PICK m : m = req[r].mem
  OBVIOUS
<1>2. ClaimOf(m) /\ handleRow[m.handle] = Absent /\ Settled /\ HandlesResolve
  BY <1>1 DEF CreateOrgCommit, At, OrgInv, HoldsPlace, OrgClaimed
<1>3. PICK u \in UserIds, o \in OrgIds, name \in {"none", "auth0"}, email \in BOOLEAN :
        /\ users[u] = Absent /\ orgs[o] = Absent
        /\ orgs' = [orgs EXCEPT ![o] = m.slug]
        /\ slugRow' = [slugRow EXCEPT ![m.slug] = o]
        /\ users' = [users EXCEPT ![u] = NewUser(m.sub, m.handle, o, TRUE, name, email)]
        /\ subRow' = [subRow EXCEPT ![m.sub] = u]
        /\ handleRow' = [handleRow EXCEPT ![m.handle] = u]
        /\ members' = [members EXCEPT ![o] = {u}]
        /\ Leaves(r, {<<"sub", m.sub>>})
  BY <1>1 DEF CreateOrgCommit, Fresh
<1>4. PICK row : row = NewUser(m.sub, m.handle, o, TRUE, name, email)
  OBVIOUS
<1>5. row \in UserRow /\ row # Absent /\ row.handle = m.handle /\ row.org = o
  <2>1. m.sub \in Subs /\ m.handle \in Handles /\ TRUE \in BOOLEAN
    BY <1>2 DEF ClaimOf
  <2>2. row \in UserRow /\ row.handle = m.handle /\ row.org = o
    BY <1>4, <2>1 DEF NewUser, UserRow, Names
  <2> QED
    BY <2>2, RowsAreThere
<1>6. /\ req'[r].op = "none"
      /\ \A p \in Reqs : p # r =>
           Aside(p) /\ req'[p].stale = req[p].stale \cup (req[p].held \cap {<<"sub", m.sub>>})
  BY <1>3, Closes DEF Leaves
<1>7. UNCHANGED <<invites, orgInvites, joined, lagging, overwritten>>
  BY DEF CreateOrgCommit
<1>8. /\ \A v \in UserIds : v # u => users'[v] = users[v]
      /\ users'[u] = row
      /\ \A k \in OrgIds : k # o => orgs'[k] = orgs[k] /\ members'[k] = members[k]
      /\ orgs'[o] = m.slug /\ members'[o] = {u} /\ members[o] = {}
      /\ \A h \in Handles : h # m.handle => handleRow'[h] = handleRow[h]
      /\ handleRow'[m.handle] = u
  BY <1>2, <1>3, <1>4 DEF Settled, TypeOKOrg, ClaimOf
<1>9. TypeOKOrg'
  BY <1>2, <1>3, <1>4, <1>5, <1>7 DEF Settled, TypeOKOrg, ClaimOf
<1>10. Settled'
  <2>0. \A v \in UserIds : users[v] # Absent => users[v].org # o /\ users[v].org \in OrgIds
    BY <1>2, <1>3, RowsAreThere DEF Settled, TypeOKOrg
  <2>1. ASSUME NEW v \in UserIds, users'[v] # Absent
        PROVE  orgs'[users'[v].org] # Absent /\ v \in members'[users'[v].org]
    <3>1. CASE v = u
      BY <1>2, <1>5, <1>8, <3>1, RowsAreThere DEF ClaimOf
    <3>2. CASE v # u
      BY <1>2, <1>8, <2>0, <2>1, <3>2 DEF Settled
    <3> QED
      BY <3>1, <3>2
  <2>2. ASSUME NEW k \in OrgIds, NEW v \in members'[k]
        PROVE  users'[v] # Absent /\ users'[v].org = k
    <3>1. CASE k = o
      BY <1>5, <1>8, <2>2, <3>1
    <3>2. CASE k # o
      <4>1. v \in members[k] /\ v \in UserIds /\ users[v] # Absent /\ users[v].org = k
        BY <1>2, <1>8, <2>2, <3>2 DEF Settled, TypeOKOrg
      <4> QED
        BY <1>3, <1>8, <4>1
    <3> QED
      BY <3>1, <3>2
  <2>3. \A c \in Codes : invites'[c] # Absent => orgs'[invites'[c].org] # Absent
    BY <1>2, <1>3, <1>7, <1>8, RowsAreThere DEF Settled, ClaimOf, TypeOKOrg
  <2> QED
    BY <1>2, <1>7, <1>9, <2>1, <2>2, <2>3 DEF Settled
<1>11. HandlesResolve'
  <2> SUFFICES ASSUME NoLostEdit', NEW v \in UserIds, users'[v] # Absent
               PROVE  /\ handleRow'[users'[v].handle] = v
                      /\ v \notin lagging' => users'[v].handle[2] = orgs'[users'[v].org]
    BY DEF HandlesResolve
  <2>1. CASE v = u
    BY <1>2, <1>5, <1>8, <2>1 DEF ClaimOf
  <2>2. CASE v # u
    <3>1. /\ users[v] # Absent /\ handleRow[users[v].handle] = v
          /\ v \notin lagging => users[v].handle[2] = orgs[users[v].org]
      BY <1>2, <1>7, <1>8, <2>2 DEF HandlesResolve, NoLostEdit
    <3>2. users[v].handle \in Handles /\ users[v].org \in OrgIds /\ orgs[users[v].org] # Absent
      BY <1>2, <3>1, RowsAreThere DEF Settled, TypeOKOrg
    <3>3. users[v].handle # m.handle /\ users[v].org # o
      BY <1>2, <1>3, <3>1, <3>2, RowsAreThere
    <3> QED
      BY <1>7, <1>8, <2>2, <3>1, <3>2, <3>3
  <2> QED
    BY <2>1, <2>2
<1>12. Respects(r)
  BY <1>2, <1>3, <1>5, <1>6, <1>7, <1>8, OrgAssumption DEF Respects, ClaimOf, Settled, TypeOKOrg
<1>13. HoldsPlace(req[r])' /\ HoldsView(req[r])'
  BY <1>6 DEF HoldsPlace, HoldsView
<1> QED
  BY <1>10, <1>11, <1>12, <1>13, OrgKept

-----------------------------------------------------------------------------
\* createInvite and joinOrg

\* createInvite writes the invite.
LEMMA InviteWrites ==
  ASSUME AllFormed, OrgInv, NEW r \in Reqs, NEW u \in UserIds, InviteStart(r, u)
  PROVE  OrgInv'
<1>1. PICK c \in Codes :
        /\ invites[c] = Absent
        /\ invites' = [invites EXCEPT ![c] = [org |-> users[u].org, usedBy |-> Absent]]
        /\ Reads(r, Begin("invite", "index", {}, [org |-> users[u].org, code |-> c]))
  BY DEF InviteStart, Fresh
<1>2. /\ UNCHANGED <<users, subRow, handleRow, orgs, slugRow, members, orgInvites, joined, lagging,
                     overwritten>>
      /\ users[u] # Absent /\ orgs[users[u].org] # Absent
  BY DEF InviteStart, IsAdmin
<1>3. PICK row, mem : row = [org |-> users[u].org, usedBy |-> Absent]
                      /\ mem = [org |-> users[u].org, code |-> c]
  OBVIOUS
<1>4. users[u].org \in OrgIds
  BY <1>2, RowsAreThere DEF OrgInv, Settled, TypeOKOrg
<1>5. row \in InviteRow /\ row.usedBy = Absent /\ row.org = users[u].org
  BY <1>3, <1>4 DEF InviteRow
<1>6. Writes(r, Begin("invite", "index", {}, mem), {})
  BY <1>1, <1>3 DEF Reads
<1>7. /\ req'[r].op = "invite" /\ req'[r].mem = mem
      /\ \A p \in Reqs : p # r => Aside(p)
  BY <1>6, Opens
<1>8. Settled'
  BY <1>1, <1>2, <1>3, <1>5 DEF OrgInv, Settled, TypeOKOrg
<1>9. HandlesResolve'
  BY <1>2 DEF OrgInv, HandlesResolve, NoLostEdit
<1>10. Respects(r)
  BY <1>1, <1>2, <1>7 DEF Respects, OrgInv, Settled, TypeOKOrg
<1>11. HoldsPlace(req[r])' /\ HoldsView(req[r])'
  BY <1>3, <1>7 DEF HoldsPlace, HoldsView
<1> QED
  BY <1>8, <1>9, <1>10, <1>11, OrgKept

\* createInvite writes the row of the organization for it.
LEMMA InviteIsIndexed ==
  ASSUME AllFormed, OrgInv, NEW r \in Reqs, InviteIndex(r)
  PROVE  OrgInv'
<1>1. req[r].mem.code \in Codes
  BY DEF OrgInv, HoldsPlace, InviteIndex, At
<1>2. /\ UNCHANGED <<users, subRow, handleRow, orgs, slugRow, members, invites, joined, lagging,
                     overwritten>>
      /\ Writes(r, Idle, {})
      /\ orgInvites' = [orgInvites EXCEPT ![req[r].mem.org] = @ \cup {req[r].mem.code}]
  BY DEF InviteIndex, Leaves
<1>3. req'[r].op = "none" /\ \A p \in Reqs : p # r => Aside(p)
  BY <1>2, Closes
<1>4. orgInvites' \in [OrgIds -> SUBSET Codes]
  BY <1>1, <1>2 DEF OrgInv, Settled, TypeOKOrg
<1>5. Settled'
  BY <1>2, <1>4 DEF OrgInv, Settled, TypeOKOrg
<1>6. HandlesResolve'
  BY <1>2 DEF OrgInv, HandlesResolve, NoLostEdit
<1>7. Respects(r)
  BY <1>2, <1>3 DEF Respects
<1>8. HoldsPlace(req[r])' /\ HoldsView(req[r])'
  BY <1>3 DEF HoldsPlace, HoldsView
<1> QED
  BY <1>5, <1>6, <1>7, <1>8, OrgKept

\* joinOrg reads the invite and the organization.
LEMMA JoinBegins ==
  ASSUME AllFormed, OrgInv, NEW r \in Reqs, NEW sub \in Subs, NEW c \in Codes, NEW local \in Locals,
         JoinStart(r, sub, c, local)
  PROVE  OrgInv'
<1>1. PICK mem : mem = [sub |-> sub, code |-> c, org |-> invites[c].org, slug |-> orgs[invites[c].org],
                        handle |-> <<local, orgs[invites[c].org]>>, taken |-> FALSE]
  OBVIOUS
<1>2. /\ Writes(r, Begin("join", "claim", {<<"invite", c>>}, mem), {})
      /\ invites[c] # Absent /\ invites[c].usedBy = Absent /\ UNCHANGED <<orgRows, overwritten>>
  BY <1>1, Zenon DEF JoinStart, Reads
<1>3. /\ req'[r].op = "join" /\ req'[r].pc = "claim" /\ req'[r].mem = mem
      /\ req'[r].held = {<<"invite", c>>}
      /\ \A p \in Reqs : p # r => Aside(p)
  BY <1>2, Opens
<1>4. /\ invites[c].org \in OrgIds /\ orgs[invites[c].org] \in Slugs
      /\ orgs[invites[c].org] # Absent
  BY <1>2, RowsAreThere DEF OrgInv, Settled, TypeOKOrg
<1>5. /\ DOMAIN mem = {"sub", "code", "org", "slug", "handle", "taken"} /\ ClaimOf(mem)
      /\ mem.code = c /\ mem.org = invites[c].org
  BY <1>1, <1>4 DEF ClaimOf, Handles
<1>6. HoldsPlace(req[r])' /\ HoldsView(req[r])'
  BY <1>2, <1>3, <1>4, <1>5 DEF HoldsPlace, HoldsView, orgRows, ClaimOf
<1> QED
  BY <1>2, <1>3, <1>6, OrgStays

\* It reads the row of the account.
LEMMA JoinClaims ==
  ASSUME AllFormed, OrgInv, NEW r \in Reqs, JoinClaim(r)
  PROVE  OrgInv'
<1>1. UNCHANGED <<orgRows, overwritten>>
  BY DEF JoinClaim
<1>2. CASE Ends(r)
  BY <1>1, <1>2, OrgAnswers
<1>3. CASE ~Ends(r)
  <2>1. PICK mem : mem = [req[r].mem EXCEPT !.taken = subRow[req[r].mem.sub] # Absent]
    OBVIOUS
  <2>2. PICK held, K : Writes(r, On(req[r], "commit", held, mem), K)
    BY <1>3, <2>1, Zenon DEF JoinClaim, Answer, Reads, Ends
  <2>3. HoldsPlace(req[r]) /\ HoldsView(req[r]) /\ req[r].op = "join"
    BY DEF JoinClaim, At, OrgInv
  <2>4. /\ \E h, L : Writes(r, On(req[r], "commit", h, mem), L)
        /\ \E L : Writes(r, On(req[r], "commit", held, mem), L)
    BY <2>2, Zenon
  <2>5. /\ req'[r].op = "join" /\ req'[r].pc = "commit" /\ req'[r].mem = mem
        /\ \A p \in Reqs : p # r => Aside(p)
    BY <2>3, <2>4, Moves
  <2>6. req'[r].held = req[r].held \cup held /\ req'[r].stale = req[r].stale
    BY <2>4, Reading
  <2>7. /\ DOMAIN mem = {"sub", "code", "org", "slug", "handle", "taken"} /\ ClaimOf(mem)
        /\ mem.code = req[r].mem.code /\ mem.org = req[r].mem.org
    BY <2>1, <2>3 DEF ClaimOf, HoldsPlace
  <2>8. HoldsPlace(req[r])' /\ HoldsView(req[r])'
    BY <1>1, <2>3, <2>5, <2>6, <2>7 DEF HoldsPlace, HoldsView, orgRows, ClaimOf
  <2> QED
    BY <1>1, <2>5, <2>8, OrgStays
<1> QED
  BY <1>2, <1>3

\* It writes the account, if the invite has not changed since.
LEMMA JoinCommits ==
  ASSUME AllFormed, OrgInv, NEW r \in Reqs, JoinCommit(r)
  PROVE  OrgInv'
<1>1. PICK m : m = req[r].mem
  OBVIOUS
<1>2. /\ ClaimOf(m) /\ handleRow[m.handle] = Absent /\ Settled /\ HandlesResolve
      /\ m.code \in Codes /\ m.org \in OrgIds /\ orgs[m.org] # Absent
      /\ invites[m.code] # Absent /\ invites[m.code].usedBy = Absent
  BY <1>1 DEF JoinCommit, At, OrgInv, HoldsPlace, HoldsView, JoinChecked
<1>3. PICK u \in UserIds, name \in {"none", "auth0"}, email \in BOOLEAN :
        /\ users[u] = Absent
        /\ users' = [users EXCEPT ![u] = NewUser(m.sub, m.handle, m.org, FALSE, name, email)]
        /\ subRow' = [subRow EXCEPT ![m.sub] = u]
        /\ handleRow' = [handleRow EXCEPT ![m.handle] = u]
        /\ members' = [members EXCEPT ![m.org] = @ \cup {u}]
        /\ invites' = [invites EXCEPT ![m.code].usedBy = u]
        /\ orgInvites' = [orgInvites EXCEPT ![m.org] = @ \ {m.code}]
        /\ joined' = [joined EXCEPT ![m.code] = @ \cup {u}]
        /\ lagging' = IF orgs[m.org] = m.slug THEN lagging ELSE lagging \cup {u}
        /\ Leaves(r, {<<"sub", m.sub>>, <<"invite", m.code>>})
  BY <1>1 DEF JoinCommit, Fresh
<1>4. PICK row : row = NewUser(m.sub, m.handle, m.org, FALSE, name, email)
  OBVIOUS
<1>5. row \in UserRow /\ row # Absent /\ row.handle = m.handle /\ row.org = m.org
  <2>1. m.sub \in Subs /\ m.handle \in Handles /\ FALSE \in BOOLEAN
    BY <1>2 DEF ClaimOf
  <2>2. row \in UserRow /\ row.handle = m.handle /\ row.org = m.org
    BY <1>2, <1>4, <2>1 DEF NewUser, UserRow, Names
  <2> QED
    BY <2>2, RowsAreThere
<1>6. PICK invite : invite = [invites[m.code] EXCEPT !.usedBy = u]
  OBVIOUS
<1>7. invite \in InviteRow /\ invite # Absent /\ invite.usedBy = u /\ invite.org = invites[m.code].org
  <2>1. invites[m.code] \in InviteRow
    BY <1>2 DEF Settled, TypeOKOrg
  <2>2. invite \in InviteRow /\ invite.usedBy = u /\ invite.org = invites[m.code].org
    BY <1>6, <2>1 DEF InviteRow
  <2> QED
    BY <2>2, RowsAreThere
<1>8. /\ req'[r].op = "none"
      /\ \A p \in Reqs : p # r =>
           /\ Aside(p)
           /\ req'[p].stale = req[p].stale \cup (req[p].held \cap {<<"sub", m.sub>>, <<"invite", m.code>>})
  BY <1>3, Closes DEF Leaves
<1>9. UNCHANGED <<orgs, slugRow, overwritten>>
  BY DEF JoinCommit
<1>10. /\ \A v \in UserIds : v # u => users'[v] = users[v]
       /\ users'[u] = row
       /\ \A k \in OrgIds : k # m.org => members'[k] = members[k]
       /\ members'[m.org] = members[m.org] \cup {u}
       /\ \A h \in Handles : h # m.handle => handleRow'[h] = handleRow[h]
       /\ handleRow'[m.handle] = u
       /\ \A c \in Codes : c # m.code => invites'[c] = invites[c] /\ joined'[c] = joined[c]
       /\ invites'[m.code] = invite /\ joined'[m.code] = {u}
  BY <1>2, <1>3, <1>4, <1>6 DEF Settled, TypeOKOrg, ClaimOf
<1>11. TypeOKOrg'
  <2>1. users' = [users EXCEPT ![u] = row] /\ invites' = [invites EXCEPT ![m.code] = invite]
    BY <1>2, <1>3, <1>4, <1>6 DEF Settled, TypeOKOrg
  <2> QED
    <3>1. users' \in [UserIds -> UserRow \cup {Absent}] /\ invites' \in [Codes -> InviteRow \cup {Absent}]
      BY <1>2, <1>5, <1>7, <2>1 DEF Settled, TypeOKOrg
    <3>2. subRow' \in [Subs -> UserIds \cup {Absent}] /\ handleRow' \in [Handles -> UserIds \cup {Absent}]
      BY <1>2, <1>3 DEF Settled, TypeOKOrg
    <3>3. /\ members' \in [OrgIds -> SUBSET UserIds] /\ orgInvites' \in [OrgIds -> SUBSET Codes]
          /\ joined' \in [Codes -> SUBSET UserIds]
      BY <1>2, <1>3 DEF Settled, TypeOKOrg
    <3>4. lagging' \subseteq UserIds
      BY <1>2, <1>3 DEF Settled, TypeOKOrg
    <3> QED
      BY <1>2, <1>9, <3>1, <3>2, <3>3, <3>4 DEF Settled, TypeOKOrg
<1>12. Settled'
  <2>1. ASSUME NEW v \in UserIds, users'[v] # Absent
        PROVE  orgs'[users'[v].org] # Absent /\ v \in members'[users'[v].org]
    <3>1. CASE v = u
      BY <1>2, <1>5, <1>9, <1>10, <3>1
    <3>2. CASE v # u
      <4>1. users[v] # Absent /\ users[v].org \in OrgIds
        BY <1>2, <1>10, <2>1, <3>2, RowsAreThere DEF Settled, TypeOKOrg
      <4> QED
        BY <1>2, <1>9, <1>10, <3>2, <4>1 DEF Settled
    <3> QED
      BY <3>1, <3>2
  <2>2. ASSUME NEW k \in OrgIds, NEW v \in members'[k]
        PROVE  users'[v] # Absent /\ users'[v].org = k
    <3>1. CASE v = u
      <4>1. u \notin members[k]
        BY <1>2, <1>3 DEF Settled
      <4>2. k = m.org
        BY <1>10, <2>2, <3>1, <4>1
      <4> QED
        BY <1>5, <1>10, <3>1, <4>2
    <3>2. CASE v # u
      <4>1. v \in members[k] /\ v \in UserIds
        BY <1>2, <1>10, <2>2, <3>2 DEF Settled, TypeOKOrg
      <4> QED
        BY <1>2, <1>10, <3>2, <4>1 DEF Settled
    <3> QED
      BY <3>1, <3>2
  <2>3. ASSUME NEW c \in Codes
        PROVE  /\ invites'[c] # Absent => orgs'[invites'[c].org] # Absent
               /\ joined'[c] # {} => /\ invites'[c] # Absent /\ invites'[c].usedBy # Absent
                                     /\ joined'[c] = {invites'[c].usedBy}
    <3>1. CASE c = m.code
      BY <1>2, <1>7, <1>9, <1>10, <3>1, RowsAreThere DEF Settled
    <3>2. CASE c # m.code
      BY <1>2, <1>9, <1>10, <3>2 DEF Settled
    <3> QED
      BY <3>1, <3>2
  <2> QED
    BY <1>11, <2>1, <2>2, <2>3 DEF Settled
<1>13. HandlesResolve'
  <2> SUFFICES ASSUME NoLostEdit', NEW v \in UserIds, users'[v] # Absent
               PROVE  /\ handleRow'[users'[v].handle] = v
                      /\ v \notin lagging' => users'[v].handle[2] = orgs'[users'[v].org]
    BY DEF HandlesResolve
  <2>1. CASE v = u
    <3>1. u \notin lagging' => orgs[m.org] = m.slug
      BY <1>3
    <3> QED
      BY <1>2, <1>5, <1>9, <1>10, <2>1, <3>1 DEF ClaimOf
  <2>2. CASE v # u
    <3>1. /\ users[v] # Absent /\ handleRow[users[v].handle] = v
          /\ v \notin lagging => users[v].handle[2] = orgs[users[v].org]
      BY <1>2, <1>9, <1>10, <2>2 DEF HandlesResolve, NoLostEdit
    <3>2. users[v].handle \in Handles /\ users[v].handle # m.handle
      BY <1>2, <3>1, RowsAreThere DEF Settled, TypeOKOrg
    <3> QED
      BY <1>3, <1>9, <1>10, <2>2, <3>1, <3>2
  <2> QED
    BY <2>1, <2>2
<1>14. Respects(r)
  <2>1. \A v \in UserIds : users[v] # Absent => users'[v] = users[v]
    BY <1>3, <1>10
  <2>2. \A h \in Handles : handleRow[h] # Absent => handleRow'[h] = handleRow[h]
    BY <1>2, <1>10
  <2>3. \A p \in Reqs : p # r /\ <<"invite", m.code>> \in req[p].held => req'[p].stale # {}
    BY <1>8
  <2> QED
    BY <1>8, <1>9, <1>10, <2>1, <2>2, <2>3 DEF Respects
<1>15. HoldsPlace(req[r])' /\ HoldsView(req[r])'
  BY <1>8 DEF HoldsPlace, HoldsView
<1> QED
  BY <1>12, <1>13, <1>14, <1>15, OrgKept

-----------------------------------------------------------------------------
\* updateOrgSlug

\* updateOrgSlug begins.
LEMMA RenameBegins ==
  ASSUME AllFormed, OrgInv, NEW r \in Reqs, NEW u \in UserIds, NEW to \in Slugs, SlugStart(r, u, to)
  PROVE  OrgInv'
<1>1. PICK o : o = users[u].org
  OBVIOUS
<1>2. PICK mem : mem = [org |-> o, from |-> orgs[o], to |-> to, who |-> {}, gone |-> {}]
  OBVIOUS
<1>3. /\ Writes(r, Begin("slug", "members", {<<"org", o>>}, mem), {})
      /\ users[u] # Absent /\ orgs[o] # Absent /\ UNCHANGED <<orgRows, overwritten>>
  BY <1>1, <1>2, Zenon DEF SlugStart, IsAdmin, Reads
<1>4. /\ req'[r].op = "slug" /\ req'[r].pc = "members" /\ req'[r].mem = mem
      /\ \A p \in Reqs : p # r => Aside(p)
  BY <1>3, Opens
<1>5. o \in OrgIds /\ orgs[o] \in Slugs
  BY <1>1, <1>3, RowsAreThere DEF OrgInv, Settled, TypeOKOrg
<1>6. /\ DOMAIN mem = {"org", "from", "to", "who", "gone"}
      /\ mem.org = o /\ mem.from = orgs[o] /\ mem.to = to /\ mem.who = {}
  BY <1>2
<1>7. HoldsPlace(req[r])' /\ HoldsView(req[r])'
  BY <1>3, <1>4, <1>5, <1>6 DEF HoldsPlace, HoldsView, orgRows
<1> QED
  BY <1>3, <1>4, <1>7, OrgStays

\* It lists the members and the handles they will have.
LEMMA RenameLists ==
  ASSUME AllFormed, OrgInv, NEW r \in Reqs, SlugMembers(r)
  PROVE  OrgInv'
<1>1. UNCHANGED <<orgRows, overwritten>>
  BY DEF SlugMembers
<1>2. CASE Ends(r)
  BY <1>1, <1>2, OrgAnswers
<1>3. CASE ~Ends(r)
  <2>1. PICK m, who : m = req[r].mem /\ who = {u \in members[m.org] : users[u] # Absent}
    OBVIOUS
  <2>2. PICK old : old = {users[u].handle : u \in who}
    OBVIOUS
  <2>3. PICK new : new = {Renamed(h, m.to) : h \in old}
    OBVIOUS
  <2>4. PICK here : here = {h \in old \cup new : handleRow[h] # Absent}
    OBVIOUS
  <2>5. PICK mem : mem = [m EXCEPT !.who = who, !.gone = (old \cup new) \ here]
    OBVIOUS
  <2>6. PICK held :
          held = {<<"user", u>> : u \in who} \cup {<<"handle", h>> : h \in here} \cup
                 {<<"slug", s>> : s \in {m.from} \ {s \in Slugs : slugRow[s] = Absent}}
    OBVIOUS
  <2>7. /\ Writes(r, On(req[r], "commit", held, mem), {})
        /\ \A u \in who : /\ handleRow[Renamed(users[u].handle, m.to)] \in {Absent, u}
                          /\ users[u].handle[2] = m.from
    BY <1>3, <2>1, <2>2, <2>3, <2>4, <2>5, <2>6, ZenonT(60) DEF SlugMembers, Answer, Reads, Ends
  <2>8. HoldsPlace(req[r]) /\ req[r].op = "slug"
    BY DEF SlugMembers, At, OrgInv
  <2>9. /\ DOMAIN mem = {"org", "from", "to", "who", "gone"}
        /\ mem.org = m.org /\ mem.from = m.from /\ mem.to = m.to /\ mem.who = who
        /\ mem.gone = (old \cup new) \ here
    BY <2>1, <2>5, <2>8 DEF HoldsPlace
  <2>10. /\ req'[r].op = "slug" /\ req'[r].pc = "commit" /\ req'[r].mem = mem
         /\ \A p \in Reqs : p # r => Aside(p)
    <3>1. \E h, L : Writes(r, On(req[r], "commit", h, mem), L)
      BY <2>7, Zenon
    <3> QED
      BY <2>8, <3>1, Moves
  <2>11. held \subseteq req'[r].held
    <3>1. \E L : Writes(r, On(req[r], "commit", held, mem), L)
      BY <2>7, Zenon
    <3>2. req'[r].held = req[r].held \cup held
      BY <3>1, Reading
    <3> QED
      BY <3>2
  <2>12. HoldsPlace(req[r])'
    BY <1>1, <2>1, <2>8, <2>9, <2>10 DEF HoldsPlace, orgRows
  <2>13. ASSUME NEW u \in who
         PROVE  /\ <<"user", u>> \in req'[r].held
                /\ users'[u].handle[2] = req'[r].mem.from
                /\ MayTake(req[r], Renamed(users[u].handle, req[r].mem.to), u)'
    <3>1. PICK h : h = Renamed(users[u].handle, m.to)
      OBVIOUS
    <3>2. h \in new /\ (handleRow[h] = Absent \/ handleRow[h] = u)
      BY <2>2, <2>3, <2>7, <3>1
    <3>3. h \in mem.gone \/ (<<"handle", h>> \in held /\ handleRow[h] = u)
      BY <2>4, <2>6, <2>9, <3>2
    <3>4. <<"user", u>> \in held
      BY <2>6
    <3>5. Renamed(users'[u].handle, req'[r].mem.to) = h
      BY <1>1, <2>9, <2>10, <3>1 DEF orgRows
    <3>6. MayTake(req[r], Renamed(users[u].handle, req[r].mem.to), u)'
      BY <1>1, <2>10, <2>11, <3>3, <3>5 DEF MayTake, orgRows
    <3> QED
      BY <1>1, <2>7, <2>9, <2>10, <2>11, <3>4, <3>6 DEF orgRows
  <2>14. HoldsView(req[r])'
    BY <2>9, <2>10, <2>13 DEF HoldsView
  <2> QED
    BY <1>1, <2>10, <2>12, <2>14, OrgStays
<1> QED
  BY <1>2, <1>3

\* The row of a member with his new handle.
LEMMA RenamedRow ==
  ASSUME NEW row \in UserRow, NEW to \in Slugs
  PROVE  /\ Renamed(row.handle, to) \in Handles /\ Renamed(row.handle, to)[2] = to
         /\ [row EXCEPT !.handle = Renamed(@, to)] \in UserRow
         /\ [row EXCEPT !.handle = Renamed(@, to)].handle = Renamed(row.handle, to)
         /\ [row EXCEPT !.handle = Renamed(@, to)].org = row.org
BY DEF UserRow, Renamed, Handles

\* Two handles of one organization that get the same new one are the same.
LEMMA RenamedOnce ==
  ASSUME NEW g \in Handles, NEW h \in Handles, NEW to, g[2] = h[2], Renamed(g, to) = Renamed(h, to)
  PROVE  g = h
BY DEF Renamed, Handles

\* It writes the slug and every handle, if no row of them has changed since.
LEMMA RenameCommits ==
  ASSUME AllFormed, OrgInv, NEW r \in Reqs, SlugCommit(r)
  PROVE  OrgInv'
<1> DEFINE m   == req[r].mem
           old == {users[u].handle : u \in m.who}
           new == {Renamed(h, m.to) : h \in old}
           K   == {<<"org", m.org>>, <<"slug", m.from>>} \cup {<<"user", u>> : u \in m.who}
                    \cup {<<"handle", h>> : h \in old \cup new}
<1>5. PICK mover \in [new -> m.who] :
        /\ \A h \in new : Renamed(users[mover[h]].handle, m.to) = h
        /\ orgs' = [orgs EXCEPT ![m.org] = m.to]
        /\ slugRow' = [slugRow EXCEPT ![m.from] = Absent, ![m.to] = m.org]
        /\ users' = [u \in UserIds |->
             IF u \in m.who THEN [users[u] EXCEPT !.handle = Renamed(@, m.to)] ELSE users[u]]
        /\ handleRow' = [h \in Handles |->
             IF h \in new THEN mover[h] ELSE IF h \in old THEN Absent ELSE handleRow[h]]
        /\ lagging' = lagging \cup (members[m.org] \ m.who)
        /\ Writes(r, Idle, K)
  BY DEF SlugCommit, Leaves
<1>1. m = req[r].mem
  OBVIOUS
<1>2. old = {users[u].handle : u \in m.who}
  OBVIOUS
<1>3. new = {Renamed(h, m.to) : h \in old}
  OBVIOUS
<1>4. K = {<<"org", m.org>>, <<"slug", m.from>>} \cup {<<"user", u>> : u \in m.who}
            \cup {<<"handle", h>> : h \in old \cup new}
  OBVIOUS
<1> HIDE DEF m, old, new, K
<1>6. UNCHANGED <<subRow, members, invites, orgInvites, joined, overwritten>>
  BY DEF SlugCommit
<1>7. /\ m.org \in OrgIds /\ orgs[m.org] # Absent /\ m.to \in Slugs /\ m.from \in Slugs
      /\ m.who \subseteq members[m.org]
      /\ Settled /\ HandlesResolve
  BY <1>1 DEF SlugCommit, At, OrgInv, HoldsPlace
<1>8. \A u \in m.who : /\ users[u].handle[2] = m.from
                       /\ handleRow[Renamed(users[u].handle, m.to)] \in {Absent, u}
  BY <1>1 DEF SlugCommit, At, OrgInv, HoldsView, SlugChecked, MayTake
<1>9. \A u \in m.who : /\ u \in UserIds /\ users[u] \in UserRow /\ users[u] # Absent
                       /\ users[u].handle \in Handles /\ users[u].org = m.org
  BY <1>7, RowsAreThere DEF Settled, TypeOKOrg
<1>10. /\ req'[r].op = "none"
       /\ \A p \in Reqs : p # r => Aside(p) /\ req'[p].stale = req[p].stale \cup (req[p].held \cap K)
  BY <1>5, Closes
<1>11. \A u \in m.who : /\ users'[u] \in UserRow /\ users'[u] # Absent
                        /\ users'[u].handle = Renamed(users[u].handle, m.to)
                        /\ users'[u].handle[2] = m.to /\ users'[u].handle \in Handles
                        /\ users'[u].org = m.org
  BY <1>5, <1>7, <1>9, RenamedRow, RowsAreThere
<1>12. \A v \in UserIds : v \notin m.who => users'[v] = users[v]
  BY <1>5
<1>13. /\ orgs'[m.org] = m.to /\ m.to # Absent
       /\ \A k \in OrgIds : k # m.org => orgs'[k] = orgs[k]
  BY <1>5, <1>7, RowsAreThere DEF Settled, TypeOKOrg
<1>14. TypeOKOrg'
  <2>1. users' \in [UserIds -> UserRow \cup {Absent}]
    BY <1>5, <1>7, <1>11, <1>12 DEF Settled, TypeOKOrg
  <2>2. handleRow' \in [Handles -> UserIds \cup {Absent}]
    BY <1>5, <1>7, <1>9 DEF Settled, TypeOKOrg
  <2>3. orgs' \in [OrgIds -> Slugs \cup {Absent}] /\ slugRow' \in [Slugs -> OrgIds \cup {Absent}]
    BY <1>5, <1>7 DEF Settled, TypeOKOrg
  <2>4. lagging' \subseteq UserIds
    BY <1>5, <1>7 DEF Settled, TypeOKOrg
  <2> QED
    BY <1>6, <1>7, <2>1, <2>2, <2>3, <2>4 DEF Settled, TypeOKOrg
<1>15. \A v \in UserIds : /\ users'[v] # Absent <=> users[v] # Absent
                          /\ users[v] # Absent => users'[v].org = users[v].org
  BY <1>9, <1>11, <1>12
<1>16. Settled'
  <2>1. \A k \in OrgIds : orgs[k] # Absent => orgs'[k] # Absent
    BY <1>13
  <2>2. \A v \in UserIds :
          users'[v] # Absent => orgs'[users'[v].org] # Absent /\ v \in members'[users'[v].org]
    BY <1>6, <1>7, <1>15, <2>1, RowsAreThere DEF Settled, TypeOKOrg
  <2>3. \A k \in OrgIds : \A v \in members'[k] : users'[v] # Absent /\ users'[v].org = k
    BY <1>6, <1>7, <1>15 DEF Settled, TypeOKOrg
  <2>4. \A c \in Codes : invites'[c] # Absent => orgs'[invites'[c].org] # Absent
    BY <1>6, <1>7, <2>1, RowsAreThere DEF Settled, TypeOKOrg
  <2> QED
    BY <1>6, <1>7, <1>14, <2>2, <2>3, <2>4 DEF Settled
<1>17. HandlesResolve'
  <2> SUFFICES ASSUME NoLostEdit', NEW v \in UserIds, users'[v] # Absent
               PROVE  /\ handleRow'[users'[v].handle] = v
                      /\ v \notin lagging' => users'[v].handle[2] = orgs'[users'[v].org]
    BY DEF HandlesResolve
  <2>1. /\ \A u \in UserIds : users[u] # Absent => handleRow[users[u].handle] = u
        /\ \A u \in UserIds : users[u] # Absent /\ u \notin lagging =>
             users[u].handle[2] = orgs[users[u].org]
    BY <1>6, <1>7 DEF HandlesResolve, NoLostEdit
  <2>2. CASE v \in m.who
    <3>1. PICK h : h = users'[v].handle
      OBVIOUS
    <3>2. h \in new /\ h \in Handles /\ h = Renamed(users[v].handle, m.to)
      BY <1>2, <1>3, <1>11, <2>2, <3>1
    <3>3. mover[h] \in m.who /\ Renamed(users[mover[h]].handle, m.to) = h
      BY <1>5, <3>2
    <3>4. users[mover[h]].handle = users[v].handle
      BY <1>8, <1>9, <2>2, <3>2, <3>3, RenamedOnce
    <3>5. mover[h] = v
      BY <1>9, <2>1, <2>2, <3>3, <3>4
    <3>6. handleRow'[h] = v
      BY <1>5, <3>2, <3>5
    <3> QED
      BY <1>11, <1>13, <2>2, <3>1, <3>6
  <2>3. CASE v \notin m.who
    <3>1. PICK h : h = users[v].handle
      OBVIOUS
    <3>2. users[v] # Absent /\ users'[v].handle = h /\ handleRow[h] = v /\ h \in Handles
      BY <1>7, <1>12, <2>1, <2>3, <3>1, RowsAreThere DEF Settled, TypeOKOrg
    <3>3. h \notin old
      BY <1>2, <1>9, <2>1, <2>3, <3>2
    <3>4. h \notin new
      <4>1. \A u \in m.who : handleRow[Renamed(users[u].handle, m.to)] # v
        BY <1>8, <2>3, RowsAreThere
      <4> QED
        BY <1>2, <1>3, <3>2, <4>1
    <3>5. handleRow'[h] = v
      BY <1>5, <3>2, <3>3, <3>4
    <3>6. v \notin lagging' => users[v].org # m.org /\ v \notin lagging
      BY <1>5, <1>7, <2>3, <3>2 DEF Settled
    <3>7. users[v].org \in OrgIds /\ users'[v] = users[v]
      BY <1>7, <1>12, <2>3, <3>2, RowsAreThere DEF Settled, TypeOKOrg
    <3> QED
      BY <1>13, <2>1, <3>1, <3>2, <3>5, <3>6, <3>7
  <2> QED
    BY <2>2, <2>3
<1>18. Respects(r)
  <2>1. ASSUME NEW p \in Reqs, p # r, NEW u \in UserIds, <<"user", u>> \in req[p].held
        PROVE  <<"user", u>> \in req'[p].stale \/ users'[u].handle = users[u].handle
    <3>1. CASE u \in m.who
      <4>1. <<"user", u>> \in K
        BY <1>4, <3>1
      <4> QED
        BY <1>10, <2>1, <4>1
    <3>2. CASE u \notin m.who
      BY <1>12, <3>2
    <3> QED
      BY <3>1, <3>2
  <2>2. ASSUME NEW p \in Reqs, p # r, NEW h \in Handles, <<"handle", h>> \in req[p].held
        PROVE  req'[p].stale # {} \/ handleRow'[h] = handleRow[h]
    <3>1. CASE h \in old \cup new
      <4>1. <<"handle", h>> \in K
        BY <1>4, <3>1
      <4> QED
        BY <1>10, <2>2, <4>1
    <3>2. CASE h \notin old \cup new
      BY <1>5, <3>2
    <3> QED
      BY <3>1, <3>2
  <2>3. \A k \in OrgIds : orgs[k] # Absent => orgs'[k] # Absent
    BY <1>13
  <2> QED
    BY <1>6, <1>10, <1>15, <2>1, <2>2, <2>3 DEF Respects
<1>19. HoldsPlace(req[r])' /\ HoldsView(req[r])'
  BY <1>10 DEF HoldsPlace, HoldsView
<1> QED
  BY <1>16, <1>17, <1>18, <1>19, OrgKept

-----------------------------------------------------------------------------
\* updateProfile, seedProfile and getMe

\* What seedProfile and getMe make of a row: its handle and its organization stay.
LEMMA SeededRow ==
  ASSUME NEW row \in UserRow, NEW name \in {"none", "auth0"}, NEW email \in BOOLEAN
  PROVE  /\ Seed(row, name, email) \in UserRow /\ Backfill(row, email) \in UserRow
         /\ Seed(row, name, email).handle = row.handle /\ Seed(row, name, email).org = row.org
         /\ Backfill(row, email).handle = row.handle /\ Backfill(row, email).org = row.org
<1>1. Seed(row, name, email) \in UserRow
  BY DEF UserRow, Seed, Names
<1>2. Backfill(row, email) \in UserRow
  BY DEF UserRow, Backfill
<1>3. Seed(row, name, email).handle = row.handle /\ Seed(row, name, email).org = row.org
  BY DEF UserRow, Seed
<1>4. Backfill(row, email).handle = row.handle /\ Backfill(row, email).org = row.org
  BY DEF UserRow, Backfill
<1> QED
  BY <1>1, <1>2, <1>3, <1>4

\* So they do in what updateProfile makes of it before the handle changes.
LEMMA EditedRow ==
  ASSUME NEW row \in UserRow, NEW name \in {Absent, "none", "own"}
  PROVE  /\ [row EXCEPT !.name = IF name = Absent THEN @ ELSE name, !.seeded = TRUE] \in UserRow
         /\ [row EXCEPT !.name = IF name = Absent THEN @ ELSE name, !.seeded = TRUE].handle = row.handle
         /\ [row EXCEPT !.name = IF name = Absent THEN @ ELSE name, !.seeded = TRUE].org = row.org
BY DEF UserRow, Names

\* A row with another handle.
LEMMA MovedRow ==
  ASSUME NEW row \in UserRow, NEW h \in Handles
  PROVE  /\ [row EXCEPT !.handle = h] \in UserRow
         /\ [row EXCEPT !.handle = h].handle = h /\ [row EXCEPT !.handle = h].org = row.org
BY DEF UserRow

\* A request that will save the row it has read, with the same handle.
LEMMA SeedBegins ==
  ASSUME AllFormed, OrgInv, NEW r \in Reqs, NEW u \in UserIds, NEW row \in UserRow, users[u] # Absent,
         row.handle = users[u].handle, row.org = users[u].org, NEW op \in {"seed", "me"},
         Writes(r, Begin(op, "save", {<<"user", u>>}, [user |-> u, row |-> row]), {}),
         UNCHANGED <<orgRows, overwritten>>
  PROVE  OrgInv'
<1>1. PICK mem : mem = [user |-> u, row |-> row]
  OBVIOUS
<1>2. Writes(r, Begin(op, "save", {<<"user", u>>}, mem), {})
  BY <1>1
<1>3. /\ req'[r].op = op /\ req'[r].pc = "save" /\ req'[r].mem = mem /\ req'[r].held = {<<"user", u>>}
      /\ \A p \in Reqs : p # r => Aside(p)
  BY <1>2, Opens
<1>4. mem.user = u /\ mem.row = row
  BY <1>1
<1>5. HoldsPlace(req[r])' /\ HoldsView(req[r])'
  BY <1>3, <1>4 DEF HoldsPlace, HoldsView, orgRows
<1> QED
  BY <1>3, <1>5, OrgStays

\* seedProfile and getMe begin.
LEMMA SeedsBegin ==
  ASSUME AllFormed, OrgInv, NEW r \in Reqs, NEW sub \in Subs, NEW e \in BOOLEAN,
         MeStart(r, sub, e) \/ \E n \in {"none", "auth0"} : SeedStart(r, sub, n, e)
  PROVE  OrgInv'
<1>1. PICK u : u = subRow[sub]
  OBVIOUS
<1>2. users[u] # Absent /\ subRow[sub] # Absent
  BY <1>1 DEF MeStart, SeedStart, UserOf
<1>3. u \in UserIds /\ users[u] \in UserRow
  BY <1>1, <1>2, RowsAreThere DEF OrgInv, Settled, TypeOKOrg
<1>4. CASE MeStart(r, sub, e)
  <2>1. PICK row : row = Backfill(users[u], e)
    OBVIOUS
  <2>2. row \in UserRow /\ row.handle = users[u].handle /\ row.org = users[u].org
    BY <1>3, <2>1, SeededRow
  <2>3. /\ Writes(r, Begin("me", "save", {<<"user", u>>}, [user |-> u, row |-> row]), {})
        /\ UNCHANGED <<orgRows, overwritten>>
    BY <1>1, <1>4, <2>1, Zenon DEF MeStart, Reads
  <2> QED
    BY <1>2, <1>3, <2>2, <2>3, SeedBegins
<1>5. ASSUME NEW n \in {"none", "auth0"}, SeedStart(r, sub, n, e)
      PROVE  OrgInv'
  <2>1. PICK row : row = Seed(users[u], n, e)
    OBVIOUS
  <2>2. row \in UserRow /\ row.handle = users[u].handle /\ row.org = users[u].org
    BY <1>3, <2>1, SeededRow
  <2>3. /\ Writes(r, Begin("seed", "save", {<<"user", u>>}, [user |-> u, row |-> row]), {})
        /\ UNCHANGED <<orgRows, overwritten>>
    BY <1>1, <1>5, <2>1, Zenon DEF SeedStart, Reads
  <2> QED
    BY <1>2, <1>3, <2>2, <2>3, SeedBegins
<1> QED
  BY <1>4, <1>5

\* updateProfile begins: it saves, or looks for the slug of its organization.
LEMMA ProfileBegins ==
  ASSUME AllFormed, OrgInv, NEW r \in Reqs, NEW sub \in Subs, NEW name \in {Absent, "none", "own"},
         NEW local \in Locals \cup {Absent}, ProfileStart(r, sub, name, local)
  PROVE  OrgInv'
<1>1. PICK u : u = subRow[sub]
  OBVIOUS
<1>2. users[u] # Absent /\ subRow[sub] # Absent /\ UNCHANGED <<orgRows, overwritten>>
  BY <1>1 DEF ProfileStart, UserOf
<1>3. u \in UserIds /\ users[u] \in UserRow
  BY <1>1, <1>2, RowsAreThere DEF OrgInv, Settled, TypeOKOrg
<1>4. PICK row : row = [users[u] EXCEPT !.name = IF name = Absent THEN @ ELSE name, !.seeded = TRUE]
  OBVIOUS
<1>5. row \in UserRow /\ row.handle = users[u].handle /\ row.org = users[u].org
  BY <1>3, <1>4, EditedRow
<1>6. PICK pc, mem : /\ pc = IF local = Absent THEN "save" ELSE "org"
                     /\ mem = [user |-> u, row |-> row, old |-> row.handle, local |-> local, gone |-> {},
                               lost |-> FALSE, slug |-> Absent]
  OBVIOUS
<1>7. Writes(r, Begin("profile", pc, {<<"user", u>>}, mem), {})
  BY <1>1, <1>4, <1>6, Zenon DEF ProfileStart, Reads
<1>8. pc \in {"save", "org"} /\ (pc = "org" => local \in Locals)
  BY <1>6
<1>9. /\ req'[r].op = "profile" /\ req'[r].pc = pc /\ req'[r].mem = mem /\ req'[r].held = {<<"user", u>>}
      /\ \A p \in Reqs : p # r => Aside(p)
  BY <1>7, <1>8, Opens
<1>10. /\ DOMAIN mem = {"user", "row", "old", "local", "gone", "lost", "slug"}
       /\ mem.user = u /\ mem.row = row /\ mem.old = row.handle /\ mem.local = local
  BY <1>6
<1>11. row.handle \in Handles
  BY <1>5, RowsAreThere
<1>12. HoldsPlace(req[r])'
  BY <1>2, <1>3, <1>5, <1>8, <1>9, <1>10, <1>11 DEF HoldsPlace, orgRows
<1>13. HoldsView(req[r])'
  BY <1>2, <1>5, <1>8, <1>9, <1>10 DEF HoldsView, orgRows
<1> QED
  BY <1>2, <1>9, <1>12, <1>13, OrgStays

\* It has the slug, and with it the new handle.
LEMMA ProfileFindsOrg ==
  ASSUME AllFormed, OrgInv, NEW r \in Reqs, ProfileOrg(r)
  PROVE  OrgInv'
<1>1. /\ HoldsPlace(req[r]) /\ HoldsView(req[r]) /\ req[r].op = "profile" /\ req[r].pc = "org"
      /\ UNCHANGED <<orgRows, overwritten>>
  BY DEF OrgInv, ProfileOrg, At
<1>2. PICK m, slug, nh : m = req[r].mem /\ slug = orgs[m.row.org] /\ nh = <<m.local, slug>>
  OBVIOUS
<1>3. /\ m.row \in UserRow /\ m.user \in UserIds /\ users[m.user] # Absent
      /\ m.row.org = users[m.user].org /\ m.local \in Locals /\ m.old \in Handles
      /\ DOMAIN m = {"user", "row", "old", "local", "gone", "lost", "slug"}
  BY <1>1, <1>2 DEF HoldsPlace
<1>4. slug \in Slugs /\ nh \in Handles /\ nh[2] = slug
  <2>1. orgs[m.row.org] \in Slugs
    BY <1>3, RowsAreThere DEF OrgInv, Settled, TypeOKOrg
  <2> QED
    BY <1>2, <1>3, <2>1 DEF Handles
<1>5. PICK row : row = [m.row EXCEPT !.handle = nh]
  OBVIOUS
<1>6. row \in UserRow /\ row.handle = nh /\ row.org = m.row.org
  BY <1>3, <1>4, <1>5, MovedRow
<1>7. PICK pc, mem : pc = (IF nh = m.old THEN "save" ELSE "reads")
                     /\ mem = [m EXCEPT !.row.handle = nh, !.slug = slug]
  OBVIOUS
<1>8. /\ DOMAIN mem = {"user", "row", "old", "local", "gone", "lost", "slug"}
      /\ mem.user = m.user /\ mem.row = row /\ mem.old = m.old /\ mem.slug = slug
  BY <1>3, <1>5, <1>7
<1>9. Writes(r, On(req[r], pc, {}, mem), {})
  BY <1>2, <1>7, Zenon DEF ProfileOrg, Reads
<1>10. pc \in {"save", "reads"} /\ (pc = "save" => nh = m.old)
  BY <1>7
<1>11. /\ req'[r].op = "profile" /\ req'[r].pc = pc /\ req'[r].mem = mem
       /\ \A p \in Reqs : p # r => Aside(p)
  <2>1. \E h, L : Writes(r, On(req[r], pc, h, mem), L)
    BY <1>9, Zenon
  <2> QED
    BY <1>1, <1>10, <2>1, Moves
<1>12. req[r].held \subseteq req'[r].held /\ req'[r].stale = req[r].stale
  BY <1>9, <1>10, Reading
<1>13. HoldsPlace(req[r])'
  BY <1>1, <1>3, <1>4, <1>6, <1>8, <1>10, <1>11 DEF HoldsPlace, orgRows
<1>14. HoldsView(req[r])'
  BY <1>1, <1>2, <1>6, <1>8, <1>10, <1>11, <1>12 DEF HoldsView, orgRows
<1> QED
  BY <1>1, <1>11, <1>13, <1>14, OrgStays

\* The check of the user's row is against the row as it is now: what was stale
\* is forgotten, but for the mark that the row was.
LEMMA ProfileReadsRows ==
  ASSUME AllFormed, OrgInv, NEW r \in Reqs, ProfileReads(r)
  PROVE  OrgInv'
<1>1. /\ HoldsPlace(req[r]) /\ HoldsView(req[r]) /\ req[r].op = "profile" /\ req[r].pc = "reads"
      /\ UNCHANGED <<orgRows, overwritten>>
  BY DEF OrgInv, ProfileReads, At
<1>2. CASE Ends(r)
  BY <1>1, <1>2, OrgAnswers
<1>3. CASE ~Ends(r)
  <2>1. PICK m, here, held :
          /\ m = req[r].mem
          /\ here = {h \in {m.old, m.row.handle} : handleRow[h] # Absent}
          /\ held = {<<"handle", h>> : h \in here}
    OBVIOUS
  <2>2. PICK mem : mem = [m EXCEPT !.gone = {m.old, m.row.handle} \ here, !.lost = req[r].stale # {}]
    OBVIOUS
  <2>3. /\ Writes(r, [On(req[r], "commit", held, mem) EXCEPT !.stale = {}], {})
        /\ handleRow[m.row.handle] \in {Absent, m.user}
    BY <1>3, <2>1, <2>2, Zenon DEF ProfileReads, Answer, Reads, Ends
  <2>4. PICK q : q = [On(req[r], "commit", held, mem) EXCEPT !.stale = {}]
    OBVIOUS
  <2>5. /\ Formed(q) /\ q.op = "profile" /\ q.pc = "commit" /\ q.held = req[r].held \cup held
        /\ q.stale = {} /\ q.mem = mem
    <3>1. Formed(req[r])
      BY DEF AllFormed
    <3>2. PICK x : x = On(req[r], "commit", held, mem)
      OBVIOUS
    <3>3. /\ Formed(x) /\ x.op = "profile" /\ x.pc = "commit" /\ x.held = req[r].held \cup held
          /\ x.mem = mem
      BY <1>1, <3>1, <3>2, GoingOn
    <3> QED
      BY <2>4, <3>2, <3>3 DEF Formed
  <2>6. req'[r] = q /\ \A p \in Reqs : p # r => Aside(p)
    BY <2>3, <2>4, <2>5, Writing
  <2>7. /\ m.row \in UserRow /\ m.user \in UserIds /\ users[m.user] # Absent
        /\ m.row.org = users[m.user].org /\ m.old \in Handles /\ m.row.handle[2] = m.slug
        /\ DOMAIN m = {"user", "row", "old", "local", "gone", "lost", "slug"}
    BY <1>1, <2>1 DEF HoldsPlace
  <2>8. /\ DOMAIN mem = {"user", "row", "old", "local", "gone", "lost", "slug"}
        /\ mem.user = m.user /\ mem.row = m.row /\ mem.old = m.old /\ mem.slug = m.slug
        /\ mem.gone = {m.old, m.row.handle} \ here
    BY <2>2, <2>7
  <2>9. mem.lost <=> req[r].stale # {}
    BY <2>2, <2>7
  <2>10. HoldsPlace(req[r])'
    BY <1>1, <2>5, <2>6, <2>7, <2>8 DEF HoldsPlace, orgRows
  <2>11. m.row.handle \in mem.gone \/ (<<"handle", m.row.handle>> \in held /\ handleRow[m.row.handle] = m.user)
    BY <2>1, <2>3, <2>8
  <2>12. MayTake(req[r], req[r].mem.row.handle, req[r].mem.user)'
    BY <1>1, <2>5, <2>6, <2>8, <2>11 DEF MayTake, orgRows
  <2>13. /\ <<"user", m.user>> \in req[r].held
         /\ <<"user", m.user>> \notin req[r].stale => m.old = users[m.user].handle
    BY <1>1, <2>1 DEF HoldsView
  <2>14. HoldsView(req[r])'
    BY <1>1, <2>5, <2>6, <2>8, <2>9, <2>12, <2>13 DEF HoldsView, orgRows
  <2> QED
    BY <1>1, <2>6, <2>10, <2>14, OrgStays
<1> QED
  BY <1>2, <1>3

\* The user keeps his place in the tables when his row is replaced by one of
\* his that has this handle, and the index of handles follows.
LEMMA RowReplaced ==
  ASSUME OrgInv, NEW u \in UserIds, users[u] # Absent, NEW row \in UserRow, row.org = users[u].org,
         users' = [users EXCEPT ![u] = row],
         handleRow' \in [Handles -> UserIds \cup {Absent}], lagging' \subseteq UserIds,
         UNCHANGED <<subRow, orgs, slugRow, members, invites, orgInvites, joined>>
  PROVE  /\ Settled'
         /\ \A v \in UserIds : v # u => users'[v] = users[v]
         /\ users'[u] = row
         /\ \A v \in UserIds : users[v] # Absent => users'[v] # Absent /\ users'[v].org = users[v].org
<1>1. users \in [UserIds -> UserRow \cup {Absent}]
  BY DEF OrgInv, Settled, TypeOKOrg
<1>2. users'[u] = row /\ row # Absent /\ \A v \in UserIds : v # u => users'[v] = users[v]
  BY <1>1, RowsAreThere
<1>3. users' \in [UserIds -> UserRow \cup {Absent}]
  BY <1>1
<1>4. \A v \in UserIds : /\ users[v] # Absent <=> users'[v] # Absent
                         /\ users[v] # Absent => users'[v].org = users[v].org
  BY <1>2
<1>5. TypeOKOrg'
  BY <1>3 DEF OrgInv, Settled, TypeOKOrg
<1>6. \A v \in UserIds :
        users'[v] # Absent => orgs'[users'[v].org] # Absent /\ v \in members'[users'[v].org]
  BY <1>4 DEF OrgInv, Settled
<1>7. \A k \in OrgIds : \A v \in members'[k] : users'[v] # Absent /\ users'[v].org = k
  BY <1>4 DEF OrgInv, Settled, TypeOKOrg
<1>8. Settled'
  BY <1>5, <1>6, <1>7 DEF OrgInv, Settled
<1> QED
  BY <1>2, <1>4, <1>8

\* A row is saved as it was read: the history says when that was an old copy.
LEMMA UserIsSaved ==
  ASSUME AllFormed, OrgInv, NEW r \in Reqs, UserSave(r)
  PROVE  OrgInv'
<1>1. PICK u, row : u = req[r].mem.user /\ row = req[r].mem.row
  OBVIOUS
<1>2. /\ users' = [users EXCEPT ![u] = row]
      /\ overwritten' = overwritten \cup (req[r].stale \cap {<<"user", u>>})
      /\ Writes(r, Idle, {<<"user", u>>})
      /\ UNCHANGED <<subRow, handleRow, orgs, slugRow, members, invites, orgInvites, joined, lagging>>
  BY <1>1 DEF UserSave, Clobbers, Leaves
<1>3. /\ u \in UserIds /\ users[u] # Absent /\ row \in UserRow /\ row.org = users[u].org
      /\ <<"user", u>> \notin req[r].stale => row.handle = users[u].handle
  BY <1>1 DEF UserSave, OrgInv, HoldsPlace, HoldsView
<1>4. /\ req'[r].op = "none"
      /\ \A p \in Reqs : p # r =>
           Aside(p) /\ req'[p].stale = req[p].stale \cup (req[p].held \cap {<<"user", u>>})
  BY <1>2, Closes
<1>5. /\ Settled'
      /\ \A v \in UserIds : v # u => users'[v] = users[v]
      /\ users'[u] = row
      /\ \A v \in UserIds : users[v] # Absent => users'[v] # Absent /\ users'[v].org = users[v].org
  <2>1. handleRow' \in [Handles -> UserIds \cup {Absent}] /\ lagging' \subseteq UserIds
    BY <1>2 DEF OrgInv, Settled, TypeOKOrg
  <2> QED
    BY <1>2, <1>3, <2>1, RowReplaced
<1>6. HandlesResolve'
  <2> SUFFICES ASSUME NoLostEdit', NEW v \in UserIds, users'[v] # Absent
               PROVE  /\ handleRow'[users'[v].handle] = v
                      /\ v \notin lagging' => users'[v].handle[2] = orgs'[users'[v].org]
    BY DEF HandlesResolve
  <2>1. NoLostEdit /\ <<"user", u>> \notin req[r].stale
    BY <1>2, <1>3 DEF NoLostEdit
  <2>2. users[v] # Absent /\ users'[v].handle = users[v].handle /\ users'[v].org = users[v].org
    BY <1>3, <1>5, <2>1
  <2> QED
    BY <1>2, <2>1, <2>2 DEF OrgInv, HandlesResolve
<1>7. Respects(r)
  <2>1. ASSUME NEW p \in Reqs, p # r, NEW v \in UserIds, <<"user", v>> \in req[p].held
        PROVE  <<"user", v>> \in req'[p].stale \/ users'[v].handle = users[v].handle
    BY <1>4, <1>5, <2>1
  <2> QED
    BY <1>2, <1>4, <1>5, <2>1 DEF Respects
<1>8. HoldsPlace(req[r])' /\ HoldsView(req[r])'
  BY <1>4 DEF HoldsPlace, HoldsView
<1> QED
  BY <1>5, <1>6, <1>7, <1>8, OrgKept

\* updateProfile gives the user his new handle, unless a row it goes by has changed.
LEMMA ProfileCommits ==
  ASSUME AllFormed, OrgInv, NEW r \in Reqs, ProfileCommit(r)
  PROVE  OrgInv'
<1>1. PICK m, u, row, old, h :
        m = req[r].mem /\ u = m.user /\ row = m.row /\ old = m.old /\ h = m.row.handle
  OBVIOUS
<1>2. /\ users' = [users EXCEPT ![u] = row]
      /\ handleRow' = [handleRow EXCEPT ![old] = Absent, ![h] = u]
      /\ overwritten' = IF m.lost THEN overwritten \cup {<<"user", u>>} ELSE overwritten
      /\ lagging' = IF orgs[row.org] = m.slug THEN lagging \ {u} ELSE lagging \cup {u}
      /\ Writes(r, Idle, {<<"user", u>>, <<"handle", old>>, <<"handle", h>>})
      /\ UNCHANGED <<subRow, orgs, slugRow, members, invites, orgInvites, joined>>
  BY <1>1, Zenon DEF ProfileCommit, Leaves
<1>3. /\ u \in UserIds /\ users[u] # Absent /\ row \in UserRow /\ row.org = users[u].org
      /\ old \in Handles /\ h \in Handles /\ row.handle = h /\ h[2] = m.slug
  BY <1>1 DEF ProfileCommit, At, OrgInv, HoldsPlace, UserRow
<1>4. /\ ~m.lost => old = users[u].handle
      /\ handleRow[h] \in {Absent, u}
  BY <1>1 DEF ProfileCommit, At, OrgInv, HoldsView, ProfileChecked, MayTake
<1>5. /\ req'[r].op = "none"
      /\ \A p \in Reqs : p # r =>
           /\ Aside(p)
           /\ req'[p].stale = req[p].stale \cup
                (req[p].held \cap {<<"user", u>>, <<"handle", old>>, <<"handle", h>>})
  BY <1>2, Closes
<1>6. /\ Settled'
      /\ \A v \in UserIds : v # u => users'[v] = users[v]
      /\ users'[u] = row
      /\ \A v \in UserIds : users[v] # Absent => users'[v] # Absent /\ users'[v].org = users[v].org
  <2>1. handleRow' \in [Handles -> UserIds \cup {Absent}]
    BY <1>2, <1>3 DEF OrgInv, Settled, TypeOKOrg
  <2>2. lagging' \subseteq UserIds
    BY <1>2, <1>3 DEF OrgInv, Settled, TypeOKOrg
  <2> QED
    BY <1>2, <1>3, <2>1, <2>2, RowReplaced
<1>7. /\ handleRow'[h] = u
      /\ \A g \in Handles : g \notin {old, h} => handleRow'[g] = handleRow[g]
  BY <1>2, <1>3 DEF OrgInv, Settled, TypeOKOrg
<1>8. HandlesResolve'
  <2> SUFFICES ASSUME NoLostEdit', NEW v \in UserIds, users'[v] # Absent
               PROVE  /\ handleRow'[users'[v].handle] = v
                      /\ v \notin lagging' => users'[v].handle[2] = orgs'[users'[v].org]
    BY DEF HandlesResolve
  <2>1. NoLostEdit /\ ~m.lost
    BY <1>2, <1>3 DEF NoLostEdit
  <2>2. CASE v = u
    <3>1. u \notin lagging' => orgs[row.org] = m.slug
      BY <1>2
    <3> QED
      BY <1>2, <1>3, <1>6, <1>7, <2>2, <3>1
  <2>3. CASE v # u
    <3>1. /\ users[v] # Absent /\ handleRow[users[v].handle] = v
          /\ v \notin lagging => users[v].handle[2] = orgs[users[v].org]
      BY <1>6, <2>1, <2>3 DEF OrgInv, HandlesResolve
    <3>2. handleRow[old] = u /\ users[v].handle \in Handles
      BY <1>3, <1>4, <2>1, <3>1, RowsAreThere DEF OrgInv, HandlesResolve, Settled, TypeOKOrg
    <3>3. users[v].handle \notin {old, h}
      BY <1>4, <2>3, <3>1, <3>2, RowsAreThere
    <3>4. v \notin lagging' => v \notin lagging
      BY <1>2, <2>3
    <3> QED
      BY <1>2, <1>6, <1>7, <2>3, <3>1, <3>2, <3>3, <3>4
  <2> QED
    BY <2>2, <2>3
<1>9. Respects(r)
  <2>1. ASSUME NEW p \in Reqs, p # r, NEW v \in UserIds, <<"user", v>> \in req[p].held
        PROVE  <<"user", v>> \in req'[p].stale \/ users'[v].handle = users[v].handle
    BY <1>5, <1>6, <2>1
  <2>2. ASSUME NEW p \in Reqs, p # r, NEW g \in Handles, <<"handle", g>> \in req[p].held
        PROVE  req'[p].stale # {} \/ handleRow'[g] = handleRow[g]
    BY <1>5, <1>7, <2>2
  <2> QED
    BY <1>2, <1>5, <1>6, <2>1, <2>2 DEF Respects
<1>10. HoldsPlace(req[r])' /\ HoldsView(req[r])'
  BY <1>5 DEF HoldsPlace, HoldsView
<1> QED
  BY <1>6, <1>8, <1>9, <1>10, OrgKept

-----------------------------------------------------------------------------
\* Every step

\* Starts keep the invariant.
LEMMA OrgBeginsKept ==
  ASSUME AllFormed, OrgInv, NEW r \in Reqs, OrgStart(r)
  PROVE  OrgInv'
<1>1. CASE \E sub \in Subs, slug \in Slugs, l \in Locals : CreateOrgStart(r, sub, slug, l)
  BY <1>1, FoundStart
<1>2. CASE \E u \in UserIds : InviteStart(r, u)
  BY <1>2, InviteWrites
<1>3. CASE \E sub \in Subs, c \in Codes, l \in Locals : JoinStart(r, sub, c, l)
  BY <1>3, JoinBegins
<1>4. CASE \E u \in UserIds, s \in Slugs : SlugStart(r, u, s)
  BY <1>4, RenameBegins
<1>5. CASE \E sub \in Subs, n \in {Absent, "none", "own"}, l \in Locals \cup {Absent} :
             ProfileStart(r, sub, n, l)
  BY <1>5, ProfileBegins
<1>6. CASE \/ \E sub \in Subs, n \in {"none", "auth0"}, e \in BOOLEAN : SeedStart(r, sub, n, e)
           \/ \E sub \in Subs, e \in BOOLEAN : MeStart(r, sub, e)
  BY <1>6, SeedsBegin
<1> QED
  BY <1>1, <1>2, <1>3, <1>4, <1>5, <1>6 DEF OrgStart

\* Later steps keep it.
LEMMA OrgGoesOnKept ==
  ASSUME AllFormed, OrgInv, NEW r \in Reqs, OrgStep(r)
  PROVE  OrgInv'
<1>1. CASE CreateOrgConflict(r) \/ JoinConflict(r) \/ SlugConflict(r) \/ ProfileConflict(r)
  <2>1. Ends(r) /\ UNCHANGED <<orgRows, overwritten>>
    BY <1>1, Zenon DEF CreateOrgConflict, JoinConflict, SlugConflict, ProfileConflict, Answer, Reads, Ends
  <2> QED
    BY <2>1, OrgAnswers
<1> QED
  BY <1>1, FoundClaim, FoundCommit, InviteIsIndexed, JoinClaims, JoinCommits, RenameLists,
     RenameCommits, ProfileFindsOrg, ProfileReadsRows, ProfileCommits, UserIsSaved DEF OrgStep

\* Steps of the registry leave the rows of organizations alone.
LEMMA RegistryApart ==
  ASSUME NEW r \in Reqs, RegistryStart(r) \/ RegistryStep(r)
  PROVE  UNCHANGED orgRows
BY DEF RegistryStart, DraftStart, ListingStart, VerifyStart, RegistryStep, DraftCommit, DraftConflict,
   ListingAgent, ListingCommit, VerifySlugs, VerifyCommit, orgRows

\* Every step of the hub keeps it.
LEMMA StepOrg ==
  ASSUME AllFormed, OrgInv, [Next]_vars
  PROVE  OrgInv'
<1>1. ASSUME NEW r \in Reqs, Directory(r) PROVE OrgInv'
  <2>1. CASE OrgStart(r) \/ OrgStep(r)
    BY <2>1, OrgBeginsKept, OrgGoesOnKept
  <2>2. CASE RegistryStart(r) \/ RegistryStep(r)
    BY <2>2, RegistryApart, RegistryBegins, RegistryGoesOn, OrgAside DEF RegistryOps, ListingOps
  <2> QED
    BY <1>1, <2>1, <2>2 DEF Directory
<1>2. ASSUME NEW r \in Reqs, Agency(r) \/ Keyring(r) \/ Contacts(r) \/ Shelf(r) \/ Dies(r)
      PROVE  OrgInv'
  <2>1. PICK Ops : /\ Becomes(r, Ops) /\ overwritten \subseteq overwritten'
                   /\ Ops \cap {"createOrg", "invite", "join", "slug", "profile", "seed", "me"} = {}
    BY <1>2, AgencyFrame, KeyringFrame, ContactsFrame, ShelfFrame, DeathFrame
       DEF AgentOps, DeviceOps, KeyOps, ContactOps, ShelfOps
  <2>2. UNCHANGED orgRows
    BY <1>2 DEF Agency, Keyring, Contacts, Shelf, Dies, hubRows, directoryRows
  <2> QED
    BY <2>1, <2>2, OrgAside
<1>3. CASE UNCHANGED <<req, overwritten, orgRows>>
  <2>1. Settled'
    BY <1>3 DEF OrgInv, Settled, TypeOKOrg, orgRows
  <2>2. HandlesResolve'
    BY <1>3 DEF OrgInv, HandlesResolve, NoLostEdit, orgRows
  <2>3. ASSUME NEW p \in Reqs PROVE HoldsPlace(req[p])' /\ HoldsView(req[p])'
    <3>1. HoldsPlace(req[p])'
      BY <1>3 DEF OrgInv, HoldsPlace, orgRows
    <3>2. HoldsView(req[p])'
      BY <1>3 DEF OrgInv, HoldsView, MayTake, orgRows
    <3> QED
      BY <3>1, <3>2
  <2> QED
    BY <2>1, <2>2, <2>3 DEF OrgInv
<1> QED
  BY <1>1, <1>2, <1>3, TimeFrame DEF Next, vars, hubRows, directoryRows

\* It holds at the start, of one organization with its administrator and an invite.
LEMMA InitOrgInv == Init => OrgInv
<1> SUFFICES ASSUME Init PROVE OrgInv
  OBVIOUS
<1>1. \A p \in Reqs : HoldsPlace(req[p]) /\ HoldsView(req[p])
  BY DEF Init, InitRequests, Idle, HoldsPlace, HoldsView
<1>2. PICK row : row = [sub |-> HomeSub, handle |-> <<HomeLocal, HomeSlug>>, org |-> 1,
                        admin |-> TRUE, name |-> "none", email |-> FALSE, seeded |-> FALSE]
  OBVIOUS
<1>3. 1 \in UserIds /\ 1 \in OrgIds /\ 1 \in Codes /\ <<HomeLocal, HomeSlug>> \in Handles
  BY OrgAssumption DEF UserIds, OrgIds, Codes, Handles
<1>4. row \in UserRow /\ row # Absent
  BY <1>2, <1>3, OrgAssumption, RowsAreThere DEF UserRow, Names
<1>5. row.handle = <<HomeLocal, HomeSlug>> /\ row.org = 1
  BY <1>2
<1>6. PICK invite : invite = [org |-> 1, usedBy |-> Absent]
  OBVIOUS
<1>7. invite \in InviteRow /\ invite.org = 1
  BY <1>3, <1>6 DEF InviteRow
<1>8. /\ users = [u \in UserIds |-> IF u = 1 THEN row ELSE Absent]
      /\ invites = [c \in Codes |-> IF c = 1 THEN invite ELSE Absent]
  BY <1>2, <1>6 DEF Init, InitOrg
<1>9. TypeOKOrg
  <2>1. users \in [UserIds -> UserRow \cup {Absent}] /\ invites \in [Codes -> InviteRow \cup {Absent}]
    BY <1>4, <1>7, <1>8
  <2> QED
    BY <1>3, <2>1, OrgAssumption DEF Init, InitOrg, TypeOKOrg
<1>10. Settled
  <2>1. /\ users[1] = row /\ \A u \in UserIds : u # 1 => users[u] = Absent
        /\ orgs[1] # Absent
        /\ members = [o \in OrgIds |-> IF o = 1 THEN {1} ELSE {}]
        /\ \A c \in Codes : joined[c] = {} /\ (invites[c] # Absent => invites[c] = invite)
    BY <1>3, <1>8, RowsAreThere, OrgAssumption DEF Init, InitOrg
  <2>2. \A u \in UserIds : users[u] # Absent => orgs[users[u].org] # Absent /\ u \in members[users[u].org]
    BY <1>3, <1>5, <2>1
  <2>3. \A o \in OrgIds : \A u \in members[o] : users[u] # Absent /\ users[u].org = o
    BY <1>3, <1>4, <1>5, <2>1
  <2> QED
    BY <1>7, <1>9, <2>1, <2>2, <2>3 DEF Settled
<1>11. HandlesResolve
  BY <1>3, <1>5, <1>8 DEF Init, InitOrg, HandlesResolve
<1> QED
  BY <1>1, <1>10, <1>11 DEF OrgInv

\* The invariant of accounts and organizations, for every behaviour.
LEMMA OrgIsKept == Spec => [](AllFormed /\ OrgInv)
<1>1. AllFormed /\ OrgInv /\ [Next]_vars => (AllFormed /\ OrgInv)'
  BY FormedKept, StepOrg
<1> QED
  BY <1>1, InitFormed, InitOrgInv, PTL DEF Spec

\* As long as no user's row was replaced by an old copy of it, every handle leads
\* to the user who has it, and ends in the slug of his organization unless that
\* was made from a slug already replaced: updateOrgSlug, updateProfile, joinOrg
\* and createOrgWithAdmin check, in one commit, all the rows they go by.
THEOREM HandlesLeadHome == Spec => []HandlesResolve
<1>1. OrgInv => HandlesResolve
  BY DEF OrgInv
<1> QED
  BY <1>1, OrgIsKept, PTL

\* An invite lets one user in, however many requests use its code at once: the
\* second commit finds the row of the invite changed.
THEOREM InvitesAdmitOne == Spec => []InviteAdmitsOne
<1>1. ASSUME OrgInv, NEW c \in Codes PROVE Cardinality(joined[c]) <= 1
  <2>1. CASE joined[c] = {}
    BY <2>1, FS_EmptySet
  <2>2. CASE joined[c] # {}
    <3>1. joined[c] = {invites[c].usedBy}
      BY <1>1, <2>2 DEF OrgInv, Settled
    <3> QED
      <4>1. Cardinality({invites[c].usedBy}) = 1
        BY FS_Singleton
      <4> QED
        BY <3>1, <4>1
  <2> QED
    BY <2>1, <2>2
<1>2. OrgInv => InviteAdmitsOne
  BY <1>1 DEF InviteAdmitsOne
<1> QED
  BY <1>2, OrgIsKept, PTL

-----------------------------------------------------------------------------
(* Slugs *)

\* A rename holds the row of its organization, which has the old slug unless the
\* row is stale.
HoldsSlug(q) ==
  q.op = "slug" =>
    /\ <<"org", q.mem.org>> \in q.held /\ q.mem.from # q.mem.to
    /\ q.stale = {} => orgs[q.mem.org] = q.mem.from

SlugInv == SlugIndexAgrees /\ \A p \in Reqs : HoldsSlug(req[p])

\* A step that leaves organizations and slugs alone keeps it, if its own request fits.
LEMMA SlugsStay ==
  ASSUME SlugInv, NEW r \in Reqs, UNCHANGED <<orgs, slugRow>>,
         \A p \in Reqs : p # r => Aside(p), HoldsSlug(req[r])'
  PROVE  SlugInv'
<1>1. SlugIndexAgrees'
  BY DEF SlugInv, SlugIndexAgrees
<1>2. ASSUME NEW p \in Reqs, p # r PROVE HoldsSlug(req[p])'
  BY <1>2 DEF SlugInv, HoldsSlug, Aside
<1> QED
  BY <1>1, <1>2 DEF SlugInv

\* Requests of other operations, and those that are answered, keep it.
LEMMA SlugsAside ==
  ASSUME AllFormed, SlugInv, NEW r \in Reqs, NEW Ops, Becomes(r, Ops), "slug" \notin Ops,
         UNCHANGED <<orgs, slugRow>>
  PROVE  SlugInv'
<1>1. req'[r].op \in Ops \cup {"none"} /\ \A p \in Reqs : p # r => Aside(p)
  BY Bystanders
<1>2. HoldsSlug(req[r])'
  BY <1>1 DEF HoldsSlug
<1> QED
  BY <1>1, <1>2, SlugsStay

\* updateOrgSlug reads the organization, and refuses the slug it has.
LEMMA SlugBegins ==
  ASSUME AllFormed, SlugInv, NEW r \in Reqs, NEW u \in UserIds, NEW to \in Slugs, SlugStart(r, u, to)
  PROVE  SlugInv'
<1>1. PICK o : o = users[u].org
  OBVIOUS
<1>2. PICK mem : mem = [org |-> o, from |-> orgs[o], to |-> to, who |-> {}, gone |-> {}]
  OBVIOUS
<1>3. /\ Writes(r, Begin("slug", "members", {<<"org", o>>}, mem), {})
      /\ orgs[o] # to /\ UNCHANGED <<orgs, slugRow>>
  BY <1>1, <1>2, Zenon DEF SlugStart, Reads, orgRows
<1>4. /\ req'[r].held = {<<"org", o>>} /\ req'[r].mem = mem
      /\ \A p \in Reqs : p # r => Aside(p)
  BY <1>3, Opens
<1>5. mem.org = o /\ mem.from = orgs[o] /\ mem.to = to
  BY <1>2
<1>6. HoldsSlug(req[r])'
  BY <1>3, <1>4, <1>5 DEF HoldsSlug
<1> QED
  BY <1>3, <1>4, <1>6, SlugsStay

\* It reads the members, and keeps what it knows of the organization.
LEMMA SlugReadsMembers ==
  ASSUME AllFormed, OrgInv, SlugInv, NEW r \in Reqs, SlugMembers(r)
  PROVE  SlugInv'
<1>1. UNCHANGED <<orgs, slugRow>> /\ req[r].op = "slug"
  BY DEF SlugMembers, orgRows, At
<1>2. CASE Ends(r)
  <2>1. Becomes(r, {})
    BY <1>2, Ending
  <2> QED
    BY <1>1, <2>1, SlugsAside
<1>3. CASE ~Ends(r)
  <2>1. PICK held, who, gone :
          Writes(r, On(req[r], "commit", held, [req[r].mem EXCEPT !.who = who, !.gone = gone]), {})
    BY <1>3, Zenon DEF SlugMembers, Answer, Reads, Ends
  <2>2. PICK mem : mem = [req[r].mem EXCEPT !.who = who, !.gone = gone]
    OBVIOUS
  <2>3. /\ \E h, K : Writes(r, On(req[r], "commit", h, mem), K)
        /\ \E K : Writes(r, On(req[r], "commit", held, mem), K)
    BY <2>1, <2>2, Zenon
  <2>4. /\ req'[r].op = "slug" /\ req'[r].mem = mem
        /\ \A p \in Reqs : p # r => Aside(p)
    BY <1>1, <2>3, Moves
  <2>5. req'[r].held = req[r].held \cup held /\ req'[r].stale = req[r].stale
    BY <2>3, Reading
  <2>6. DOMAIN req[r].mem = {"org", "from", "to", "who", "gone"} /\ HoldsSlug(req[r])
    BY <1>1 DEF OrgInv, HoldsPlace, SlugInv
  <2>7. mem.org = req[r].mem.org /\ mem.from = req[r].mem.from /\ mem.to = req[r].mem.to
    BY <2>2, <2>6
  <2>8. HoldsSlug(req[r])'
    BY <1>1, <2>4, <2>5, <2>6, <2>7 DEF HoldsSlug
  <2> QED
    BY <1>1, <2>4, <2>8, SlugsStay
<1> QED
  BY <1>2, <1>3

\* Its commit moves the organization from the old slug, which was still its own,
\* to one that still led nowhere.
LEMMA SlugMoves ==
  ASSUME AllFormed, OrgInv, SlugInv, NEW r \in Reqs, SlugCommit(r)
  PROVE  SlugInv'
<1>1. PICK m : m = req[r].mem
  OBVIOUS
<1>2. PICK k : k = m.org
  OBVIOUS
<1>3. /\ req[r].op = "slug" /\ req[r].stale = {} /\ slugRow[m.to] = Absent
  BY <1>1 DEF SlugCommit, At, SlugChecked
<1>4. k \in OrgIds /\ m.from \in Slugs /\ m.to \in Slugs
  BY <1>1, <1>2, <1>3 DEF OrgInv, HoldsPlace
<1>5. orgs[k] = m.from /\ m.from # m.to
  BY <1>1, <1>2, <1>3 DEF SlugInv, HoldsSlug
<1>6. PICK K : /\ orgs' = [orgs EXCEPT ![k] = m.to]
               /\ slugRow' = [slugRow EXCEPT ![m.from] = Absent, ![m.to] = k]
               /\ Writes(r, Idle, K) /\ <<"org", k>> \in K
  BY <1>1, <1>2 DEF SlugCommit, Leaves
<1>7. /\ orgs \in [OrgIds -> Slugs \cup {Absent}] /\ slugRow \in [Slugs -> OrgIds \cup {Absent}]
      /\ \A o \in OrgIds : o # Absent
  BY RowsAreThere DEF OrgInv, Settled, TypeOKOrg
<1>8. /\ orgs'[k] = m.to /\ \A o \in OrgIds : o # k => orgs'[o] = orgs[o]
      /\ slugRow'[m.to] = k /\ slugRow'[m.from] = Absent
      /\ \A s \in Slugs : s # m.from /\ s # m.to => slugRow'[s] = slugRow[s]
  BY <1>4, <1>5, <1>6, <1>7
<1>9. ASSUME NEW s \in Slugs, NEW o \in OrgIds PROVE slugRow'[s] = o <=> orgs'[o] = s
  <2>1. (slugRow[s] = o <=> orgs[o] = s) /\ (slugRow[s] = k <=> orgs[k] = s)
    BY <1>4 DEF SlugInv, SlugIndexAgrees
  <2>2. CASE s = m.to
    BY <1>3, <1>7, <1>8, <2>1, <2>2
  <2>3. CASE s = m.from
    BY <1>5, <1>7, <1>8, <2>1, <2>3
  <2>4. CASE s # m.from /\ s # m.to
    BY <1>5, <1>8, <2>1, <2>4
  <2> QED
    BY <2>2, <2>3, <2>4
<1>10. /\ req'[r].op = "none"
       /\ \A p \in Reqs : p # r => Aside(p) /\ req'[p].stale = req[p].stale \cup (req[p].held \cap K)
  BY <1>6, Closes
<1>11. ASSUME NEW p \in Reqs, p # r PROVE HoldsSlug(req[p])'
  <2>1. HoldsSlug(req[p]) /\ HoldsPlace(req[p])
    BY DEF SlugInv, OrgInv
  <2>2. CASE req[p].op = "slug" /\ req[p].mem.org = k
    BY <1>6, <1>10, <1>11, <2>1, <2>2 DEF HoldsSlug, Aside
  <2>3. CASE ~(req[p].op = "slug" /\ req[p].mem.org = k)
    BY <1>8, <1>10, <1>11, <2>1, <2>3 DEF HoldsSlug, HoldsPlace, Aside
  <2> QED
    BY <2>2, <2>3
<1> QED
  BY <1>9, <1>10, <1>11 DEF SlugInv, SlugIndexAgrees, HoldsSlug

\* createOrgWithAdmin gives a new organization a slug that still led nowhere.
LEMMA SlugIsFounded ==
  ASSUME AllFormed, OrgInv, SlugInv, NEW r \in Reqs, CreateOrgCommit(r)
  PROVE  SlugInv'
<1>1. PICK to : to = req[r].mem.slug
  OBVIOUS
<1>2. to \in Slugs /\ slugRow[to] = Absent
  BY <1>1 DEF CreateOrgCommit, At, OrgClaimed, OrgInv, HoldsPlace, ClaimOf
<1>3. PICK k, K : /\ k \in OrgIds /\ orgs[k] = Absent
                  /\ orgs' = [orgs EXCEPT ![k] = to]
                  /\ slugRow' = [slugRow EXCEPT ![to] = k]
                  /\ Writes(r, Idle, K)
  BY <1>1 DEF CreateOrgCommit, Fresh, Leaves
<1>4. /\ orgs \in [OrgIds -> Slugs \cup {Absent}] /\ slugRow \in [Slugs -> OrgIds \cup {Absent}]
      /\ \A x \in OrgIds \cup Slugs : x # Absent
  BY RowsAreThere DEF OrgInv, Settled, TypeOKOrg
<1>5. /\ orgs'[k] = to /\ \A o \in OrgIds : o # k => orgs'[o] = orgs[o]
      /\ slugRow'[to] = k /\ \A s \in Slugs : s # to => slugRow'[s] = slugRow[s]
  BY <1>2, <1>3, <1>4
<1>6. ASSUME NEW s \in Slugs, NEW o \in OrgIds PROVE slugRow'[s] = o <=> orgs'[o] = s
  <2>1. (slugRow[s] = o <=> orgs[o] = s) /\ slugRow[s] # k
    BY <1>3, <1>4 DEF SlugInv, SlugIndexAgrees
  <2> QED
    BY <1>2, <1>4, <1>5, <2>1
<1>7. /\ req'[r].op = "none"
      /\ \A p \in Reqs : p # r => Aside(p)
  BY <1>3, Closes
<1>8. ASSUME NEW p \in Reqs, p # r PROVE HoldsSlug(req[p])'
  <2>1. HoldsSlug(req[p]) /\ HoldsPlace(req[p])
    BY DEF SlugInv, OrgInv
  <2> QED
    BY <1>3, <1>5, <1>7, <1>8, <2>1 DEF HoldsSlug, HoldsPlace, Aside
<1> QED
  BY <1>6, <1>7, <1>8 DEF SlugInv, SlugIndexAgrees, HoldsSlug

\* No other step of accounts and organizations writes an organization or a slug.
LEMMA SlugsRest ==
  ASSUME NEW r \in Reqs, OrgStart(r) \/ OrgStep(r), ~CreateOrgCommit(r), ~SlugCommit(r)
  PROVE  UNCHANGED <<orgs, slugRow>>
BY DEF OrgStart, CreateOrgStart, InviteStart, JoinStart, SlugStart, ProfileStart, SeedStart, MeStart,
     OrgStep, CreateOrgClaim, CreateOrgConflict, InviteIndex, JoinClaim, JoinCommit, JoinConflict,
     SlugMembers, SlugConflict, ProfileOrg, ProfileReads, ProfileCommit, ProfileConflict, UserSave,
     orgRows

\* The steps of accounts and organizations keep the invariant.
LEMMA SlugsKept ==
  ASSUME AllFormed, OrgInv, SlugInv, NEW r \in Reqs, OrgStart(r) \/ OrgStep(r)
  PROVE  SlugInv'
<1>1. CASE \E u \in UserIds, s \in Slugs : SlugStart(r, u, s)
  BY <1>1, SlugBegins
<1>2. CASE OrgStart(r) /\ ~\E u \in UserIds, s \in Slugs : SlugStart(r, u, s)
  <2>1. Becomes(r, OrgOps \ {"slug"})
    BY <1>2, Beginning DEF OrgStart, CreateOrgStart, InviteStart, JoinStart, ProfileStart, SeedStart,
       MeStart, Reads, OrgOps
  <2>2. UNCHANGED <<orgs, slugRow>>
    BY <1>2 DEF OrgStart, CreateOrgStart, InviteStart, JoinStart, ProfileStart, SeedStart, MeStart, orgRows
  <2> QED
    BY <2>1, <2>2, SlugsAside
<1>3. CASE CreateOrgCommit(r) \/ SlugMembers(r) \/ SlugCommit(r)
  BY <1>3, SlugIsFounded, SlugReadsMembers, SlugMoves
<1>4. CASE SlugConflict(r)
  <2>1. Ends(r) /\ UNCHANGED <<orgs, slugRow>>
    BY <1>4, Zenon DEF SlugConflict, Answer, Reads, Ends, orgRows
  <2>2. Becomes(r, {})
    BY <2>1, Ending
  <2> QED
    BY <2>1, <2>2, SlugsAside
<1>5. CASE OrgStep(r) /\ ~CreateOrgCommit(r) /\ ~SlugMembers(r) /\ ~SlugCommit(r) /\ ~SlugConflict(r)
  <2>1. req[r].op # "slug"
    BY <1>5 DEF OrgStep, CreateOrgClaim, CreateOrgConflict, InviteIndex, JoinClaim, JoinCommit,
       JoinConflict, ProfileOrg, ProfileReads, ProfileCommit, ProfileConflict, UserSave, At
  <2>2. Becomes(r, {req[r].op}) /\ UNCHANGED <<orgs, slugRow>>
    BY <1>5, OrgProceeds, SlugsRest
  <2> QED
    BY <2>1, <2>2, SlugsAside
<1> QED
  BY <1>1, <1>2, <1>3, <1>4, <1>5

\* Every step of the hub keeps it.
LEMMA StepSlugs ==
  ASSUME AllFormed, OrgInv, SlugInv, [Next]_vars
  PROVE  SlugInv'
<1>1. ASSUME NEW r \in Reqs, Directory(r) PROVE SlugInv'
  <2>1. CASE OrgStart(r) \/ OrgStep(r)
    BY <2>1, SlugsKept
  <2>2. CASE RegistryStart(r) \/ RegistryStep(r)
    <3>1. Becomes(r, RegistryOps) /\ "slug" \notin RegistryOps
      BY <2>2, RegistryBegins, RegistryGoesOn DEF RegistryOps, ListingOps
    <3>2. UNCHANGED <<orgs, slugRow>>
      BY <2>2, RegistryApart DEF orgRows
    <3> QED
      BY <3>1, <3>2, SlugsAside
  <2> QED
    BY <1>1, <2>1, <2>2 DEF Directory
<1>2. ASSUME NEW r \in Reqs, Agency(r) \/ Keyring(r) \/ Contacts(r) \/ Shelf(r) \/ Dies(r)
      PROVE  SlugInv'
  <2>1. PICK Ops : Becomes(r, Ops) /\ "slug" \notin Ops
    BY <1>2, AgencyFrame, KeyringFrame, ContactsFrame, ShelfFrame, DeathFrame
       DEF AgentOps, DeviceOps, KeyOps, ContactOps, ShelfOps
  <2>2. UNCHANGED <<orgs, slugRow>>
    BY <1>2 DEF Agency, Keyring, Contacts, Shelf, Dies, hubRows, directoryRows, orgRows
  <2> QED
    BY <2>1, <2>2, SlugsAside
<1>3. CASE UNCHANGED <<req, orgs, slugRow>>
  BY <1>3 DEF SlugInv, SlugIndexAgrees, HoldsSlug
<1> QED
  BY <1>1, <1>2, <1>3, TimeFrame DEF Next, vars, hubRows, directoryRows, orgRows

\* It holds at the start, of one organization.
LEMMA InitSlugInv == Init => SlugInv
<1> SUFFICES ASSUME Init PROVE SlugInv
  OBVIOUS
<1>1. \A p \in Reqs : HoldsSlug(req[p])
  BY DEF Init, InitRequests, Idle, HoldsSlug
<1>2. SlugIndexAgrees
  BY RowsAreThere, OrgAssumption DEF Init, InitOrg, SlugIndexAgrees, OrgIds
<1> QED
  BY <1>1, <1>2 DEF SlugInv

\* An organization is found under its slug, and every slug that is taken leads to
\* the organization that has it, however many are founded and renamed at once:
\* createOrgWithAdmin and updateOrgSlug compare the slug they take, and the rename
\* the row of its organization, in the commit that writes them.
THEOREM SlugsLeadHome == Spec => []SlugIndexAgrees
<1>1. AllFormed /\ OrgInv /\ SlugInv /\ [Next]_vars => (AllFormed /\ OrgInv /\ SlugInv)'
  BY FormedKept, StepOrg, StepSlugs
<1>2. SlugInv => SlugIndexAgrees
  BY DEF SlugInv
<1> QED
  BY <1>1, <1>2, InitFormed, InitOrgInv, InitSlugInv, PTL DEF Spec

-----------------------------------------------------------------------------
(* The enterprise registry *)

\* A request that will write a listing back has a copy of it, and whatever
\* happened to the listing since, it has the address of that copy.
HoldsListing(q) ==
  /\ q.op = "draft" => q.mem.org \in OrgIds /\ q.mem.address \in Addresses
  /\ q.op \in ListingOps \cup {"verify"} =>
       /\ q.mem.listing \in ListingIds /\ q.mem.row \in ListingRow
       /\ listings[q.mem.listing] # Absent
       /\ listings[q.mem.listing].address = q.mem.row.address
  /\ q.op \in ListingOps => DOMAIN q.mem = {"listing", "row", "public"}
  /\ q.op = "verify" => q.mem.slug \in Slugs

RegistryTypes ==
  /\ listings \in [ListingIds -> ListingRow \cup {Absent}]
  /\ addressRow \in [Addresses -> ListingIds \cup {Absent}]
  /\ reserved \in [Slugs -> ListingIds \cup {Absent}]

RegistryInv ==
  /\ RegistryTypes /\ AddressHasOneListing
  /\ \A p \in Reqs : HoldsListing(req[p])

\* A step keeps the invariant for the requests it is not of, if it keeps every
\* listing and its address.
LEMMA RegistryKept ==
  ASSUME RegistryInv, NEW r \in Reqs, RegistryTypes', AddressHasOneListing', HoldsListing(req[r])',
         \A p \in Reqs : p # r => Aside(p),
         \A l \in ListingIds : listings[l] # Absent =>
           listings'[l] # Absent /\ listings'[l].address = listings[l].address
  PROVE  RegistryInv'
<1>1. ASSUME NEW p \in Reqs, p # r PROVE HoldsListing(req[p])'
  <2>1. HoldsListing(req[p]) /\ Aside(p)
    BY <1>1 DEF RegistryInv
  <2> QED
    BY <2>1 DEF HoldsListing, Aside
<1> QED
  BY <1>1 DEF RegistryInv

\* A step that leaves listings, addresses and reserved slugs alone keeps it.
LEMMA RegistryStays ==
  ASSUME RegistryInv, NEW r \in Reqs, UNCHANGED <<listings, addressRow, reserved>>,
         HoldsListing(req[r])', \A p \in Reqs : p # r => Aside(p)
  PROVE  RegistryInv'
<1>1. RegistryTypes' /\ AddressHasOneListing'
  BY DEF RegistryInv, RegistryTypes, AddressHasOneListing
<1> QED
  BY <1>1, RegistryKept

\* Requests of other components, and those that are answered, keep it.
LEMMA RegistryAside ==
  ASSUME AllFormed, RegistryInv, NEW r \in Reqs, NEW Ops, Becomes(r, Ops),
         Ops \cap ({"draft", "verify"} \cup ListingOps) = {},
         UNCHANGED <<listings, addressRow, reserved>>
  PROVE  RegistryInv'
<1>1. req'[r].op \in Ops \cup {"none"} /\ \A p \in Reqs : p # r => Aside(p)
  BY Bystanders
<1>2. HoldsListing(req[r])'
  BY <1>1 DEF HoldsListing, ListingOps
<1> QED
  BY <1>1, <1>2, RegistryStays

\* What an operation makes of a listing: it keeps the address.
LEMMA AfterRow ==
  ASSUME NEW op \in ListingOps, NEW row \in ListingRow, After(op, row) # Absent
  PROVE  After(op, row) \in ListingRow /\ After(op, row).address = row.address
<1>1. CASE op = "edit"
  BY <1>1 DEF After, Edited, ListingRow
<1>2. CASE op = "publish"
  BY <1>2 DEF After, Published, ListingRow, Statuses
<1>3. CASE op = "suspend"
  BY <1>3 DEF After, Suspended, ListingRow, Statuses
<1>4. CASE op = "unpublish"
  BY <1>4 DEF After, Unpublished, ListingRow, Statuses
<1> QED
  BY <1>1, <1>2, <1>3, <1>4 DEF ListingOps

-----------------------------------------------------------------------------
\* createDraft

\* createDraft reads the account of the submitter.
LEMMA DraftBegins ==
  ASSUME AllFormed, OrgInv, RegistryInv, NEW r \in Reqs, NEW u \in UserIds, NEW a \in Addresses,
         DraftStart(r, u, a)
  PROVE  RegistryInv'
<1>1. PICK mem : mem = [org |-> users[u].org, address |-> a]
  OBVIOUS
<1>2. Writes(r, Begin("draft", "commit", {}, mem), {}) /\ UNCHANGED <<listings, addressRow, reserved>>
  BY <1>1, Zenon DEF DraftStart, Reads, registryRows
<1>3. /\ req'[r].op = "draft" /\ req'[r].mem = mem
      /\ \A p \in Reqs : p # r => Aside(p)
  BY <1>2, Opens
<1>4. mem.org \in OrgIds /\ mem.address \in Addresses
  BY <1>1, RowsAreThere DEF DraftStart, OrgInv, Settled, TypeOKOrg
<1>5. HoldsListing(req[r])'
  BY <1>3, <1>4 DEF HoldsListing, ListingOps
<1> QED
  BY <1>2, <1>3, <1>5, RegistryStays

\* It writes a new listing, under an address that leads nowhere yet.
LEMMA DraftCommits ==
  ASSUME AllFormed, RegistryInv, NEW r \in Reqs, DraftCommit(r)
  PROVE  RegistryInv'
<1>1. PICK m : m = req[r].mem
  OBVIOUS
<1>2. m.org \in OrgIds /\ m.address \in Addresses /\ addressRow[m.address] = Absent
  BY <1>1 DEF DraftCommit, DraftChecked, At, RegistryInv, HoldsListing
<1>3. PICK row : row = [address |-> m.address, org |-> m.org, status |-> "draft",
                        verified |-> FALSE, slug |-> Absent]
  OBVIOUS
<1>4. PICK l \in ListingIds :
        /\ listings[l] = Absent
        /\ listings' = [listings EXCEPT ![l] = row]
        /\ addressRow' = [addressRow EXCEPT ![m.address] = l]
        /\ Writes(r, Idle, {}) /\ UNCHANGED reserved
  BY <1>1, <1>3 DEF DraftCommit, Fresh, Leaves, RegistryInv
<1>5. row \in ListingRow /\ row.address = m.address
  BY <1>2, <1>3 DEF ListingRow, Statuses
<1>6. /\ listings' \in [ListingIds -> ListingRow \cup {Absent}]
      /\ listings'[l] = row /\ \A k \in ListingIds : k # l => listings'[k] = listings[k]
      /\ addressRow' \in [Addresses -> ListingIds \cup {Absent}]
      /\ addressRow'[m.address] = l
      /\ \A a \in Addresses : a # m.address => addressRow'[a] = addressRow[a]
  BY <1>2, <1>4, <1>5 DEF RegistryInv, RegistryTypes
<1>7. /\ req'[r].op = "none" /\ \A p \in Reqs : p # r => Aside(p)
  BY <1>4, Closes
<1>8. HoldsListing(req[r])'
  BY <1>7 DEF HoldsListing, ListingOps
<1>9. AddressHasOneListing'
  <2> SUFFICES ASSUME NEW k \in ListingIds, listings'[k] # Absent
               PROVE  addressRow'[listings'[k].address] = k
    BY DEF AddressHasOneListing
  <2>1. CASE k = l
    BY <1>5, <1>6, <2>1
  <2>2. CASE k # l
    <3>1. PICK a \in Addresses : a = listings[k].address
      BY <1>6, <2>2 DEF RegistryInv, RegistryTypes, ListingRow
    <3>2. addressRow[a] = k /\ a # m.address
      BY <1>2, <1>6, <2>2, <3>1, RegistryAssumption DEF RegistryInv, AddressHasOneListing
    <3> QED
      BY <1>6, <2>2, <3>1, <3>2
  <2> QED
    BY <2>1, <2>2
<1>10. RegistryTypes'
  BY <1>4, <1>6 DEF RegistryInv, RegistryTypes
<1> QED
  BY <1>4, <1>6, <1>7, <1>8, <1>9, <1>10, RegistryKept

-----------------------------------------------------------------------------
\* updateDraft, publishListing, suspendListing, unpublishListing

\* An operation on a listing reads it.
LEMMA ListingBegins ==
  ASSUME AllFormed, RegistryInv, NEW r \in Reqs, NEW op \in ListingOps, NEW l \in ListingIds,
         ListingStart(r, op, l)
  PROVE  RegistryInv'
<1>1. PICK row : row = After(op, listings[l])
  OBVIOUS
<1>2. PICK mem : mem = [listing |-> l, row |-> row, public |-> FALSE]
  OBVIOUS
<1>3. /\ Writes(r, Begin(op, "agent", {<<"listing", l>>}, mem), {})
      /\ UNCHANGED <<listings, addressRow, reserved>>
  BY <1>1, <1>2, Zenon DEF ListingStart, Reads, registryRows
<1>4. /\ req'[r].op = op /\ req'[r].mem = mem /\ req'[r].held = {<<"listing", l>>}
      /\ \A p \in Reqs : p # r => Aside(p)
  BY <1>3, Opens
<1>5. row \in ListingRow /\ listings[l] # Absent /\ listings[l].address = row.address
  BY <1>1, AfterRow DEF ListingStart, RegistryInv, RegistryTypes
<1>6. DOMAIN mem = {"listing", "row", "public"} /\ mem.listing = l /\ mem.row = row
  BY <1>2
<1>7. HoldsListing(req[r])'
  BY <1>1, <1>3, <1>4, <1>5, <1>6 DEF HoldsListing, ListingOps
<1> QED
  BY <1>3, <1>4, <1>7, RegistryStays

\* It reads the stub agent.
LEMMA ListingReadsAgent ==
  ASSUME AllFormed, RegistryInv, NEW r \in Reqs, ListingAgent(r)
  PROVE  RegistryInv'
<1>1. PICK public : public = IF req[r].op = "edit" THEN stubPublic[req[r].mem.listing]
                                                ELSE req[r].op = "publish"
  OBVIOUS
<1>2. PICK mem : mem = [req[r].mem EXCEPT !.public = public]
  OBVIOUS
<1>3. /\ Writes(r, On(req[r], "commit", {}, mem), {})
      /\ UNCHANGED <<listings, addressRow, reserved>>
  BY <1>1, <1>2, Zenon DEF ListingAgent, Reads, registryRows
<1>4. /\ req'[r].op = req[r].op /\ req'[r].mem = mem
      /\ req'[r].held = req[r].held \cup {} /\ req'[r].stale = req[r].stale
      /\ \A p \in Reqs : p # r => Aside(p)
  <2>1. /\ \E held, K : Writes(r, On(req[r], "commit", held, mem), K)
        /\ \E K : Writes(r, On(req[r], "commit", {}, mem), K)
    BY <1>3, Zenon
  <2>2. /\ req'[r].op = req[r].op /\ req'[r].mem = mem
        /\ \A p \in Reqs : p # r => Aside(p)
    BY <2>1, Moves
  <2>3. req'[r].held = req[r].held \cup {} /\ req'[r].stale = req[r].stale
    BY <2>1, Reading
  <2> QED
    BY <2>2, <2>3
<1>5. req[r].op \in ListingOps /\ HoldsListing(req[r])
  BY DEF ListingAgent, RegistryInv
<1>6. DOMAIN mem = {"listing", "row", "public"} /\ mem.listing = req[r].mem.listing /\ mem.row = req[r].mem.row
  BY <1>2, <1>5 DEF HoldsListing
<1>7. HoldsListing(req[r])'
  BY <1>3, <1>4, <1>5, <1>6 DEF HoldsListing, ListingOps
<1> QED
  BY <1>3, <1>4, <1>7, RegistryStays

\* A request that has a copy of a listing may write back what has its address.
LEMMA Replacing ==
  ASSUME AllFormed, RegistryInv, NEW r \in Reqs, NEW l \in ListingIds, NEW row \in ListingRow,
         listings[l] # Absent, row.address = listings[l].address,
         listings' = [listings EXCEPT ![l] = row], Leaves(r, {<<"listing", l>>}),
         reserved' \in [Slugs -> ListingIds \cup {Absent}], UNCHANGED addressRow
  PROVE  RegistryInv'
<1>1. /\ listings' \in [ListingIds -> ListingRow \cup {Absent}]
      /\ listings'[l] = row /\ \A k \in ListingIds : k # l => listings'[k] = listings[k]
  BY DEF RegistryInv, RegistryTypes
<1>2. req'[r].op = "none" /\ \A p \in Reqs : p # r => Aside(p)
  BY Closes DEF Leaves
<1>3. HoldsListing(req[r])'
  BY <1>2 DEF HoldsListing, ListingOps
<1>4. row # Absent
  BY RegistryAssumption
<1>5. \A k \in ListingIds : listings[k] # Absent =>
        listings'[k] # Absent /\ listings'[k].address = listings[k].address
  BY <1>1, <1>4
<1>6. AddressHasOneListing'
  BY <1>1, <1>5 DEF RegistryInv, AddressHasOneListing
<1>7. RegistryTypes'
  BY <1>1 DEF RegistryInv, RegistryTypes
<1> QED
  BY <1>2, <1>3, <1>5, <1>6, <1>7, RegistryKept

\* updateDraft, publishListing, suspendListing and unpublishListing write it back.
LEMMA ListingCommits ==
  ASSUME AllFormed, RegistryInv, NEW r \in Reqs, ListingCommit(r)
  PROVE  RegistryInv'
<1>1. HoldsListing(req[r]) /\ req[r].op \in ListingOps
  BY DEF RegistryInv, ListingCommit
<1>2. PICK l \in ListingIds, row \in ListingRow : l = req[r].mem.listing /\ row = req[r].mem.row
  BY <1>1 DEF HoldsListing
<1>3. /\ listings' = [listings EXCEPT ![l] = row] /\ Leaves(r, {<<"listing", l>>})
      /\ UNCHANGED <<addressRow, reserved>>
  BY <1>2 DEF ListingCommit
<1>4. listings[l] # Absent /\ row.address = listings[l].address
  BY <1>1, <1>2 DEF HoldsListing
<1>5. reserved' \in [Slugs -> ListingIds \cup {Absent}]
  BY <1>3 DEF RegistryInv, RegistryTypes
<1> QED
  BY <1>3, <1>4, <1>5, Replacing

-----------------------------------------------------------------------------
\* verifyAndReserveSlug

\* verifyAndReserveSlug reads the listing.
LEMMA VerifyBegins ==
  ASSUME AllFormed, RegistryInv, NEW r \in Reqs, NEW l \in ListingIds, NEW slug \in Slugs,
         VerifyStart(r, l, slug)
  PROVE  RegistryInv'
<1>1. PICK row : row = listings[l]
  OBVIOUS
<1>2. PICK mem : mem = [listing |-> l, slug |-> slug, row |-> row]
  OBVIOUS
<1>3. /\ Writes(r, Begin("verify", "slugs", {<<"listing", l>>}, mem), {})
      /\ UNCHANGED <<listings, addressRow, reserved>>
  BY <1>1, <1>2, Zenon DEF VerifyStart, Reads, registryRows
<1>4. /\ req'[r].op = "verify" /\ req'[r].mem = mem /\ req'[r].held = {<<"listing", l>>}
      /\ \A p \in Reqs : p # r => Aside(p)
  BY <1>3, Opens
<1>5. row \in ListingRow /\ listings[l] # Absent
  BY <1>1 DEF VerifyStart, RegistryInv, RegistryTypes
<1>6. HoldsListing(req[r])'
  BY <1>1, <1>2, <1>3, <1>4, <1>5 DEF HoldsListing, ListingOps
<1> QED
  BY <1>3, <1>4, <1>6, RegistryStays

\* It finds the slug neither taken nor reserved for another listing.
LEMMA VerifyReadsSlugs ==
  ASSUME AllFormed, RegistryInv, NEW r \in Reqs, VerifySlugs(r)
  PROVE  RegistryInv'
<1>1. UNCHANGED <<listings, addressRow, reserved>> /\ req[r].op = "verify"
  BY DEF VerifySlugs, At, registryRows
<1>2. CASE Ends(r)
  <2>1. Becomes(r, {})
    BY <1>2, Ending
  <2> QED
    BY <1>1, <2>1, RegistryAside
<1>3. CASE ~Ends(r)
  <2>1. Writes(r, On(req[r], "commit", {}, req[r].mem), {})
    BY <1>3, Zenon DEF VerifySlugs, Reads, Answer, Ends
  <2>2. /\ req'[r].op = req[r].op /\ req'[r].mem = req[r].mem
        /\ req'[r].held = req[r].held \cup {} /\ req'[r].stale = req[r].stale
        /\ \A p \in Reqs : p # r => Aside(p)
    <3>1. PICK mem : mem = req[r].mem
      OBVIOUS
    <3>2. /\ \E held, K : Writes(r, On(req[r], "commit", held, mem), K)
          /\ \E K : Writes(r, On(req[r], "commit", {}, mem), K)
      BY <2>1, <3>1, Zenon
    <3>3. /\ req'[r].op = req[r].op /\ req'[r].mem = mem
          /\ \A p \in Reqs : p # r => Aside(p)
      BY <3>2, Moves
    <3>4. req'[r].held = req[r].held \cup {} /\ req'[r].stale = req[r].stale
      BY <3>2, Reading
    <3> QED
      BY <3>1, <3>3, <3>4
  <2>3. HoldsListing(req[r])'
    BY <1>1, <2>2 DEF HoldsListing, ListingOps, RegistryInv
  <2> QED
    BY <1>1, <2>2, <2>3, RegistryStays
<1> QED
  BY <1>2, <1>3

\* It writes the listing and the reserved slug.
LEMMA VerifyCommits ==
  ASSUME AllFormed, RegistryInv, NEW r \in Reqs, VerifyCommit(r)
  PROVE  RegistryInv'
<1>1. HoldsListing(req[r]) /\ req[r].op = "verify"
  BY DEF RegistryInv, VerifyCommit, At
<1>2. PICK l \in ListingIds, copy \in ListingRow, slug \in Slugs :
        l = req[r].mem.listing /\ copy = req[r].mem.row /\ slug = req[r].mem.slug
  BY <1>1 DEF HoldsListing
<1>3. PICK row : row = [copy EXCEPT !.verified = TRUE, !.slug = slug]
  OBVIOUS
<1>4. row \in ListingRow /\ row.address = copy.address
  BY <1>3 DEF ListingRow
<1>5. /\ listings' = [listings EXCEPT ![l] = row] /\ reserved' = [reserved EXCEPT ![slug] = l]
      /\ Leaves(r, {<<"listing", l>>}) /\ UNCHANGED addressRow
  BY <1>2, <1>3 DEF VerifyCommit
<1>6. listings[l] # Absent /\ row.address = listings[l].address
  BY <1>1, <1>2, <1>4 DEF HoldsListing
<1>7. reserved' \in [Slugs -> ListingIds \cup {Absent}]
  BY <1>5 DEF RegistryInv, RegistryTypes
<1> QED
  BY <1>4, <1>5, <1>6, <1>7, Replacing

-----------------------------------------------------------------------------
\* Every step

\* The steps of the registry keep the invariant.
LEMMA RegistryMoves ==
  ASSUME AllFormed, OrgInv, RegistryInv, NEW r \in Reqs, RegistryStart(r) \/ RegistryStep(r)
  PROVE  RegistryInv'
<1>1. CASE RegistryStart(r)
  BY <1>1, DraftBegins, ListingBegins, VerifyBegins DEF RegistryStart
<1>2. CASE DraftConflict(r)
  <2>1. Ends(r) /\ UNCHANGED <<listings, addressRow, reserved>>
    BY <1>2, Zenon DEF DraftConflict, Answer, Reads, Ends, registryRows
  <2>2. Becomes(r, {})
    BY <2>1, Ending
  <2> QED
    BY <2>1, <2>2, RegistryAside
<1>3. CASE RegistryStep(r) /\ ~DraftConflict(r)
  BY <1>3, DraftCommits, ListingReadsAgent, ListingCommits, VerifyReadsSlugs, VerifyCommits
     DEF RegistryStep
<1> QED
  BY <1>1, <1>2, <1>3

\* Steps of organizations leave the listings and the reserved slugs alone.
LEMMA OrgApart ==
  ASSUME NEW r \in Reqs, OrgStart(r) \/ OrgStep(r)
  PROVE  UNCHANGED reserved
BY DEF OrgStart, CreateOrgStart, InviteStart, JoinStart, SlugStart, ProfileStart, SeedStart, MeStart,
     OrgStep, CreateOrgClaim, CreateOrgCommit, CreateOrgConflict, InviteIndex, JoinClaim, JoinCommit,
     JoinConflict, SlugMembers, SlugCommit, SlugConflict, ProfileOrg, ProfileReads, ProfileCommit,
     ProfileConflict, UserSave

\* Every step of the hub keeps it.
LEMMA StepRegistry ==
  ASSUME AllFormed, OrgInv, RegistryInv, [Next]_vars
  PROVE  RegistryInv'
<1>1. ASSUME NEW r \in Reqs, Directory(r) PROVE RegistryInv'
  <2>1. CASE (OrgStart(r) \/ OrgStep(r)) /\ UNCHANGED registryRows
    <3>1. Becomes(r, OrgOps)
      BY <2>1, OrgBegins, OrgGoesOn
    <3>2. UNCHANGED <<listings, addressRow, reserved>>
      BY <2>1, OrgApart DEF registryRows
    <3>3. OrgOps \cap ({"draft", "verify"} \cup ListingOps) = {}
      BY DEF OrgOps, ListingOps
    <3> QED
      BY <3>1, <3>2, <3>3, RegistryAside
  <2>2. CASE RegistryStart(r) \/ RegistryStep(r)
    BY <2>2, RegistryMoves
  <2> QED
    BY <1>1, <2>1, <2>2 DEF Directory
<1>2. ASSUME NEW r \in Reqs, Agency(r) \/ Keyring(r) \/ Contacts(r) \/ Shelf(r) \/ Dies(r)
      PROVE  RegistryInv'
  <2>1. PICK Ops : /\ Becomes(r, Ops)
                   /\ Ops \cap ({"draft", "verify"} \cup ListingOps) = {}
    BY <1>2, AgencyFrame, KeyringFrame, ContactsFrame, ShelfFrame, DeathFrame
       DEF AgentOps, DeviceOps, KeyOps, ContactOps, ShelfOps, ListingOps
  <2>2. UNCHANGED <<listings, addressRow, reserved>>
    BY <1>2 DEF Agency, Keyring, Contacts, Shelf, Dies, hubRows, directoryRows, registryRows
  <2> QED
    BY <2>1, <2>2, RegistryAside
<1>3. CASE UNCHANGED <<req, listings, addressRow, reserved>>
  <2>1. RegistryTypes' /\ AddressHasOneListing'
    BY <1>3 DEF RegistryInv, RegistryTypes, AddressHasOneListing
  <2>2. \A p \in Reqs : HoldsListing(req[p])'
    BY <1>3 DEF RegistryInv, HoldsListing
  <2> QED
    BY <1>3, <2>1, <2>2 DEF RegistryInv
<1> QED
  BY <1>1, <1>2, <1>3, TimeFrame DEF Next, vars, hubRows, directoryRows, registryRows

\* It holds at the start, without listings.
LEMMA InitRegistryInv == Init => RegistryInv
BY DEF Init, InitRequests, InitRegistry, InitOrg, Idle, RegistryInv, RegistryTypes, AddressHasOneListing,
   HoldsListing, ListingOps

\* The invariants of organizations and of the registry, for every behaviour.
LEMMA RegistryIsKept == Spec => [](AllFormed /\ OrgInv /\ RegistryInv)
<1>1. AllFormed /\ OrgInv /\ RegistryInv /\ [Next]_vars => (AllFormed /\ OrgInv /\ RegistryInv)'
  BY FormedKept, StepOrg, StepRegistry
<1> QED
  BY <1>1, InitFormed, InitOrgInv, InitRegistryInv, PTL DEF Spec

\* createDraft compares the address with its row when it writes, and no operation
\* on a listing changes the address in it, however old the copy it writes back:
\* the address of every listing leads to it, so no two listings share one.
THEOREM AddressesLeadHome == Spec => []AddressHasOneListing
<1>1. RegistryInv => AddressHasOneListing
  BY DEF RegistryInv
<1> QED
  BY <1>1, RegistryIsKept, PTL

-----------------------------------------------------------------------------
(* Types of the requests *)

\* What TypeOKRequests says of a request
Fits(q) ==
  /\ DOMAIN q = {"op", "pc", "held", "stale", "mem"}
  /\ q.stale \subseteq q.held
  /\ q # Idle => q.op \in scope.ops

\* Request r becomes one that fits.
Allowed(r) == \E q, K : Writes(r, q, K) /\ Fits(q)

\* A request that begins is of an operation of the scope.
LEMMA BeginningFits ==
  ASSUME NEW r \in Reqs, NEW op \in scope.ops, NEW pc, NEW held, NEW mem, Reads(r, Begin(op, pc, held, mem))
  PROVE  Allowed(r)
<1>1. Fits(Begin(op, pc, held, mem))
  BY DEF Fits, Begin
<1> QED
  BY <1>1 DEF Allowed, Reads

\* A request that is answered is gone.
LEMMA EndingFits ==
  ASSUME NEW r \in Reqs, NEW K, Writes(r, Idle, K)
  PROVE  Allowed(r)
<1>1. Fits(Idle)
  BY DEF Fits, Idle
<1> QED
  BY <1>1 DEF Allowed

\* A request that goes on keeps its operation.
LEMMA GoingOnFits ==
  ASSUME TypeOKRequests, NEW r \in Reqs, req[r].op # "none", NEW pc, NEW held, NEW mem
  PROVE  Fits(On(req[r], pc, held, mem))
<1>1. Fits(req[r]) /\ req[r] # Idle
  BY DEF TypeOKRequests, Fits, Idle
<1>2. req[r].op \in scope.ops
  BY <1>1 DEF Fits
<1> QED
  BY <1>1, <1>2 DEF Fits, On

\* Request r goes on, or is answered.
GoesOnOrEnds(r) ==
  \/ \E pc, held, mem, K : Writes(r, On(req[r], pc, held, mem), K)
  \/ \E K : Writes(r, Idle, K)

\* A step that goes on or ends is one of a request of the scope.
LEMMA StepFits ==
  ASSUME TypeOKRequests, NEW r \in Reqs, req[r].op # "none", GoesOnOrEnds(r)
  PROVE  Allowed(r)
BY GoingOnFits, EndingFits DEF GoesOnOrEnds, Allowed

\* Accounts and organizations
LEMMA OrgFits ==
  ASSUME TypeOKRequests, NEW r \in Reqs, OrgStart(r) \/ OrgStep(r)
  PROVE  Allowed(r) /\ (OrgStart(r) => scope.left > 0)
<1>0. ASSUME OrgStart(r) PROVE scope.left > 0
  BY <1>0 DEF OrgStart, CreateOrgStart, InviteStart, JoinStart, SlugStart, ProfileStart,
     SeedStart, MeStart, Free
<1>1. ASSUME OrgStart(r) PROVE Allowed(r)
  BY <1>1, BeginningFits DEF OrgStart, CreateOrgStart, InviteStart, JoinStart, SlugStart, ProfileStart,
     SeedStart, MeStart, Free
<1>2. ASSUME OrgStep(r) PROVE Allowed(r)
  <2>1. req[r].op # "none"
    BY <1>2 DEF OrgStep, CreateOrgClaim, CreateOrgCommit, CreateOrgConflict, InviteIndex,
     JoinClaim, JoinCommit, JoinConflict, SlugMembers, SlugCommit, SlugConflict, ProfileOrg,
     ProfileReads, ProfileCommit, ProfileConflict, UserSave, At
  <2>2. CASE ProfileReads(r)
    <3>1. PICK held, mem :
            Reads(r, [On(req[r], "commit", held, mem) EXCEPT !.stale = {}]) \/ Writes(r, Idle, {})
      BY <2>2, Zenon DEF ProfileReads, Answer, Reads
    <3>2. CASE Reads(r, [On(req[r], "commit", held, mem) EXCEPT !.stale = {}])
      <4>1. PICK q : q = On(req[r], "commit", held, mem)
        OBVIOUS
      <4>2. Fits(q) /\ q.op # "none"
        BY <2>1, <4>1, GoingOnFits DEF On, TypeOKRequests
      <4>3. Fits([q EXCEPT !.stale = {}])
        BY <4>2 DEF Fits, Idle
      <4> QED
        BY <3>2, <4>1, <4>3 DEF Allowed, Reads
    <3> QED
      BY <3>1, <3>2, EndingFits
  <2>3. CASE ~ProfileReads(r)
    <3>1. GoesOnOrEnds(r)
      BY <1>2, <2>3, Zenon DEF OrgStep, CreateOrgClaim, CreateOrgCommit, CreateOrgConflict, InviteIndex,
       JoinClaim, JoinCommit, JoinConflict, SlugMembers, SlugCommit, SlugConflict, ProfileOrg,
       ProfileCommit, ProfileConflict, UserSave, Reads, Answer, Leaves, GoesOnOrEnds
    <3> QED
      BY <2>1, <3>1, StepFits
  <2> QED
    BY <2>2, <2>3
<1> QED
  BY <1>0, <1>1, <1>2

\* The registry
LEMMA RegistryFits ==
  ASSUME TypeOKRequests, NEW r \in Reqs, RegistryStart(r) \/ RegistryStep(r)
  PROVE  Allowed(r) /\ (RegistryStart(r) => scope.left > 0)
<1>0. ASSUME RegistryStart(r) PROVE scope.left > 0
  BY <1>0 DEF RegistryStart, DraftStart, ListingStart, VerifyStart, Free
<1>1. ASSUME RegistryStart(r) PROVE Allowed(r)
  BY <1>1, BeginningFits DEF RegistryStart, DraftStart, ListingStart, VerifyStart, Free
<1>2. ASSUME RegistryStep(r) PROVE Allowed(r)
  <2>1. req[r].op # "none"
    BY <1>2 DEF RegistryStep, DraftCommit, DraftConflict, ListingAgent, ListingCommit, VerifySlugs,
       VerifyCommit, At, ListingOps
  <2>2. GoesOnOrEnds(r)
    BY <1>2, Zenon DEF RegistryStep, DraftCommit, DraftConflict, ListingAgent, ListingCommit, VerifySlugs,
       VerifyCommit, Reads, Answer, Leaves, GoesOnOrEnds
  <2> QED
    BY <2>1, <2>2, StepFits
<1> QED
  BY <1>0, <1>1, <1>2

\* Devices and connector keys
LEMMA KeyringFits ==
  ASSUME TypeOKRequests, NEW r \in Reqs, DeviceStart(r) \/ DeviceStep(r) \/ KeyStart(r) \/ KeyStep(r)
  PROVE  Allowed(r) /\ (DeviceStart(r) \/ KeyStart(r) => scope.left > 0)
<1>0. ASSUME DeviceStart(r) \/ KeyStart(r) PROVE scope.left > 0
  BY <1>0 DEF DeviceStart, RegisterStart, KeyStart, MintStart, UseStart, RevokeStart, Free
<1>1. ASSUME DeviceStart(r) \/ KeyStart(r) PROVE Allowed(r)
  BY <1>1, BeginningFits DEF DeviceStart, RegisterStart, KeyStart, MintStart, UseStart, RevokeStart, Free
<1>2. ASSUME DeviceStep(r) \/ KeyStep(r) PROVE Allowed(r)
  <2>1. req[r].op # "none"
    BY <1>2 DEF DeviceStep, PurgeOne, Reindex, RegisterIndex, RegisterLegacy, RegisterCommit,
     RegisterConflict, RegisterUpdate, KeyStep, MintCommit, UseTouch, RevokeCommit, At
  <2>2. GoesOnOrEnds(r)
    BY <1>2, Zenon DEF DeviceStep, PurgeOne, Reindex, RegisterIndex, RegisterLegacy, RegisterCommit,
     RegisterConflict, RegisterUpdate, ReturnOrUpdate, KeyStep, MintCommit, UseTouch, RevokeCommit,
     Reads, Answer, Leaves, GoesOnOrEnds
  <2> QED
    BY <2>1, <2>2, StepFits
<1> QED
  BY <1>0, <1>1, <1>2

\* External contacts
LEMMA ContactsFit ==
  ASSUME TypeOKRequests, NEW r \in Reqs, PairingStart(r) \/ PairingStep(r)
  PROVE  Allowed(r) /\ (PairingStart(r) => scope.left > 0)
<1>0. ASSUME PairingStart(r) PROVE scope.left > 0
  BY <1>0 DEF PairingStart, PinIssue, SubmitStart, ApproveStart, DenyStart, UnpairStart, MailStart,
     ReplyStart, Free
<1>1. ASSUME PairingStart(r) PROVE Allowed(r)
  <2>1. CASE \E t \in Targets : PinIssue(r, t)
    BY <2>1, EndingFits DEF PinIssue, Reads
  <2>2. CASE ~\E t \in Targets : PinIssue(r, t)
    BY <1>1, <2>2, BeginningFits DEF PairingStart, SubmitStart, ApproveStart, DenyStart, UnpairStart,
       MailStart, ReplyStart, Free
  <2> QED
    BY <2>1, <2>2
<1>2. ASSUME PairingStep(r) PROVE Allowed(r)
  <2>1. req[r].op # "none"
    BY <1>2 DEF PairingStep, SubmitCount, SubmitCountOf, SubmitPin, SubmitWrong, SubmitRight,
     SubmitFind, SubmitCommit, ApproveLink, ApproveCommit, DenyBlock, DenyResolve, DenyRecord,
     DenyFlag, DenyRaise, UnpairScan, UnpairClose, UnpairCommit, MailCounted, MailCommit, MailOps, At
  <2>2. GoesOnOrEnds(r)
    BY <1>2, Zenon DEF PairingStep, SubmitCount, SubmitCountOf, SubmitPin, SubmitWrong, SubmitRight,
     SubmitFind, SubmitCommit, ApproveLink, ApproveCommit, DenyBlock, DenyResolve, DenyRecord,
     DenyFlag, DenyRaise, UnpairScan, UnpairClose, UnpairCommit, MailCounted, MailCommit,
     Reads, Answer, Leaves, GoesOnOrEnds
  <2> QED
    BY <2>1, <2>2, StepFits
<1> QED
  BY <1>0, <1>1, <1>2

\* What members store
LEMMA ShelfFits ==
  ASSUME TypeOKRequests, NEW r \in Reqs, ShelfStart(r) \/ ShelfStep(r)
  PROVE  Allowed(r) /\ (ShelfStart(r) => scope.left > 0)
<1>0. ASSUME ShelfStart(r) PROVE scope.left > 0
  BY <1>0 DEF ShelfStart, UploadStart, PaperNew, PaperStart, VoteStart, ReceiptStart, Free
<1>1. ASSUME ShelfStart(r) PROVE Allowed(r)
  <2>1. CASE PaperNew(r)
    BY <2>1, EndingFits DEF PaperNew, Reads
  <2>2. CASE ~PaperNew(r)
    BY <1>1, <2>2, BeginningFits DEF ShelfStart, UploadStart, PaperStart, VoteStart, ReceiptStart, Free
  <2> QED
    BY <2>1, <2>2
<1>2. ASSUME ShelfStep(r) PROVE Allowed(r)
  <2>1. req[r].op # "none"
    BY <1>2 DEF ShelfStep, UploadCommit, UploadConflict, PaperUpdate, PaperDelete, VoteSave, ReceiptSave, At
  <2>2. GoesOnOrEnds(r)
    BY <1>2, Zenon DEF ShelfStep, UploadCommit, UploadConflict, PaperUpdate, PaperDelete, VoteSave,
       ReceiptSave, Reads, Answer, Leaves, GoesOnOrEnds
  <2> QED
    BY <2>1, <2>2, StepFits
<1> QED
  BY <1>0, <1>1, <1>2

\* Agents: a first step may load the router, and a migration makes the router's
\* row fresh.
LEMMA AgentsFit ==
  ASSUME AllFormed, TypeOKRequests, NEW r \in Reqs, AgentStart(r) \/ AgentStep(r)
  PROVE  Allowed(r) /\ (AgentStart(r) => scope.left > 0)
<1>0. ASSUME AgentStart(r) PROVE scope.left > 0
  BY <1>0 DEF AgentStart, ConnectStart, PreferStart, RouterStart, HandshakeStart, RenameStart, LookStart, Free
<1>1. ASSUME AgentStart(r) PROVE Allowed(r)
  <2>1. ASSUME NEW op \in scope.ops, NEW m, LoadsRouter(r, Begin(op, "load", {}, Absent), m)
        PROVE  Allowed(r)
    <3>1. PICK q : q = Begin(op, "load", {}, Absent)
      OBVIOUS
    <3>2. DOMAIN q = {"op", "pc", "held", "stale", "mem"} /\ q.op = op /\ q.stale = {}
      BY <3>1 DEF Begin
    <3>3. PICK pc, held, mem : Reads(r, On(q, pc, held, mem))
      BY <2>1, <3>1, Zenon DEF LoadsRouter
    <3>4. Fits(On(q, pc, held, mem))
      BY <3>2 DEF Fits, On
    <3> QED
      BY <3>3, <3>4 DEF Allowed, Reads
  <2>2. CASE \/ \E d \in AgentIds \cup {Absent}, u \in ClientRules \cup {Absent} : RouterStart(r, d, u)
             \/ LookStart(r)
    BY <2>1, <2>2 DEF RouterStart, LookStart, Free
  <2>3. CASE \/ \E s \in AgentSlugs, t \in Transports : ConnectStart(r, s, t) \/ PreferStart(r, s, t)
             \/ \E a \in AgentIds : HandshakeStart(r, a) \/ \E s \in AgentSlugs : RenameStart(r, a, s)
    BY <2>3, BeginningFits DEF ConnectStart, PreferStart, HandshakeStart, RenameStart, Free
  <2> QED
    BY <1>1, <2>2, <2>3 DEF AgentStart
<1>2. ASSUME AgentStep(r) PROVE Allowed(r)
  <2>1. req[r].op \in AgentOps
    BY <1>2 DEF AgentStep, ConnectRefresh, ConnectSlot, ConnectLegacy, ConnectLoad, ConnectCommit,
       PreferLoad, PreferCommit, RouterCommit, HandshakeSave, RenameLoad, RenameCommit, LookEnd,
       Migrate, At, AgentOps, AllFormed, Formed
  <2>2. CASE Migrate(r)
    <3>1. PICK q, K : /\ Writes(r, q, K)
                      /\ q = [req[r] EXCEPT !.pc = "commit", !.stale = req[r].stale \ {<<"router">>}]
      BY <2>2 DEF Migrate
    <3>2. req[r] # Idle
      BY <2>1 DEF Idle, AgentOps
    <3>3. Fits(req[r])
      BY DEF TypeOKRequests, Fits
    <3>4. Fits(q)
      BY <3>1, <3>2, <3>3 DEF Fits
    <3> QED
      BY <3>1, <3>4 DEF Allowed
  <2>3. CASE ~Migrate(r)
    <3>1. GoesOnOrEnds(r)
      BY <1>2, <2>3, Zenon DEF AgentStep, ConnectRefresh, ConnectSlot, ConnectLegacy, ConnectLoad,
         ConnectCommit, PreferLoad, PreferCommit, RouterCommit, HandshakeSave, RenameLoad,
         RenameCommit, LookEnd, LoadsRouter, Answer, Reads, Leaves, GoesOnOrEnds
    <3> QED
      BY <2>1, <3>1, StepFits DEF AgentOps
  <2> QED
    BY <2>2, <2>3
<1> QED
  BY <1>0, <1>1, <1>2

\* Requests stay those of the scope.
LEMMA RequestsKept ==
  ASSUME AllFormed, TriesFormed, TypeOKRequests, [Next]_vars
  PROVE  TypeOKRequests'
<1>1. ASSUME NEW r \in Reqs, Allowed(r), (scope.left > 0 /\ Begins) \/ GoesOn PROVE TypeOKRequests'
  <2>1. PICK q, K : Writes(r, q, K) /\ Fits(q)
    BY <1>1 DEF Allowed
  <2>2. scope'.left \in Nat /\ scope'.ops = scope.ops /\ scope'.tries = scope.tries
    BY <1>1 DEF Begins, GoesOn, TypeOKRequests, TriesFormed
  <2>3. ASSUME NEW p \in Reqs
        PROVE  /\ DOMAIN req'[p] = {"op", "pc", "held", "stale", "mem"}
               /\ req'[p].stale \subseteq req'[p].held
               /\ req'[p] # Idle => req'[p].op \in scope.ops
    <3>1. CASE p = r
      BY <2>1, <3>1 DEF Writes, Fits
    <3>2. CASE p # r
      <4>1. req'[p] = [req[p] EXCEPT !.stale = req[p].stale \cup (req[p].held \cap K)]
        BY <2>1, <3>2 DEF Writes
      <4>2. Fits(req[p])
        BY DEF TypeOKRequests, Fits
      <4>3. req[p] = Idle => req'[p] = Idle
        BY <4>1 DEF Idle
      <4> QED
        BY <4>1, <4>2, <4>3 DEF Fits
    <3> QED
      BY <3>1, <3>2
  <2> QED
    BY <2>2, <2>3 DEF TypeOKRequests
<1>2. ASSUME NEW r \in Reqs,
             Directory(r) \/ Agency(r) \/ Keyring(r) \/ Contacts(r) \/ Shelf(r) \/ Dies(r)
      PROVE  TypeOKRequests'
  <2>1. Allowed(r)
    BY <1>2, OrgFits, RegistryFits, AgentsFit, KeyringFits, ContactsFit, ShelfFits, EndingFits
       DEF Directory, Agency, Keyring, Contacts, Shelf, Dies, Crash, Answer, Reads
  <2>2. (scope.left > 0 /\ Begins) \/ GoesOn
    BY <1>2, OrgFits, RegistryFits, AgentsFit, KeyringFits, ContactsFit, ShelfFits
       DEF Directory, Agency, Keyring, Contacts, Shelf, Dies, GoesOn
  <2> QED
    BY <1>1, <2>1, <2>2
<1>3. CASE UNCHANGED <<req, scope>>
  BY <1>3 DEF TypeOKRequests
<1> QED
  BY <1>2, <1>3, TimeFrame DEF Next, vars, Time

\* No request is in flight at first.
LEMMA InitRequestTypes == Init => TypeOKRequests
BY PairingAssumption DEF Init, InitRequests, TypeOKRequests, Idle

-----------------------------------------------------------------------------
(* Types of the counters of contacts *)

\* What a request will write in a counter, a block or a denial was within bounds
\* when it was read.
HoldsCount(q) ==
  /\ q.op = "submit" =>
       /\ q.mem.user \in Askers /\ q.mem.handle \in Handled /\ q.mem.failure \in Failure
       /\ q.mem.by \in 0..AskCap /\ q.mem.of \in 0..TargetCap
  /\ q.op = "deny" => q.mem.of \in Targets /\ q.mem.from \in Askers
  /\ q.op \in MailOps => q.mem.link \in LinkIds /\ q.mem.count \in 0..MailCap

\* The rows of PINs, failures, asks, blocks, denials, flags and threads
CountTypes ==
  /\ pins \in [Targets -> [issued: 0..MaxPin, valid: BOOLEAN]]
  /\ failures \in [Pairs -> Failure]
  /\ askedBy \in [Askers -> 0..AskCap] /\ askedOf \in [Handled -> 0..TargetCap]
  /\ blocks \subseteq Targets \X Askers /\ denies \subseteq Targets \X Askers
  /\ flags \in [Targets -> Nat]
  /\ mailCount \in [LinkIds -> 0..MailCap] /\ late \subseteq MailIds

\* The counters, and what requests hold of them
CountInv == CountTypes /\ \A p \in Reqs : HoldsCount(req[p])

\* Request r goes on with what it has in memory.
Passes(r) == \E pc, K : pc # "migrate" /\ Writes(r, On(req[r], pc, {}, req[r].mem), K)

\* Requests that stay aside keep what they hold, and so does one that passes.
LEMMA CountsStand ==
  ASSUME AllFormed, CountInv, NEW r \in Reqs, HoldsCount(req'[r]), \A p \in Reqs : p # r => Aside(p)
  PROVE  \A p \in Reqs : HoldsCount(req'[p])
BY DEF CountInv, HoldsCount, Aside, MailOps

\* A step of no request of contacts leaves what they hold.
LEMMA CountsAside ==
  ASSUME AllFormed, CountInv, NEW r \in Reqs, NEW Ops, Becomes(r, Ops),
         Ops \cap ({"submit", "deny"} \cup MailOps) = {}
  PROVE  \A p \in Reqs : HoldsCount(req'[p])
<1>1. req'[r].op \in Ops \cup {"none"} /\ \A p \in Reqs : p # r => Aside(p)
  BY Bystanders
<1>2. HoldsCount(req'[r])
  BY <1>1 DEF HoldsCount, MailOps
<1> QED
  BY <1>1, <1>2, CountsStand

\* A request that goes on with the same memory holds what it held.
LEMMA CountsPass ==
  ASSUME AllFormed, CountInv, NEW r \in Reqs, Passes(r)
  PROVE  \A p \in Reqs : HoldsCount(req'[p])
<1>1. PICK pc, K : pc # "migrate" /\ Writes(r, On(req[r], pc, {}, req[r].mem), K)
  BY DEF Passes
<1>2. /\ req'[r].op = req[r].op /\ req'[r].mem = req[r].mem
      /\ \A p \in Reqs : p # r => Aside(p)
  BY <1>1, Passing
<1>3. HoldsCount(req'[r])
  BY <1>2 DEF CountInv, HoldsCount
<1> QED
  BY <1>2, <1>3, CountsStand

\* Requests begin with what they read, below the limits.
LEMMA CountsBegin ==
  ASSUME AllFormed, TriesFormed, ContactInv, CountInv, NEW r \in Reqs, PairingStart(r)
  PROVE  \A p \in Reqs : HoldsCount(req'[p])
<1>1. CASE \E t \in Targets : PinIssue(r, t)
  <2>1. Ends(r)
    BY <1>1, Zenon DEF PinIssue, Reads, Ends
  <2>2. Becomes(r, {})
    BY <2>1, Ending
  <2> QED
    BY <2>2, CountsAside
<1>2. CASE \/ \E a \in AskIds : ApproveStart(r, a)
           \/ \E l \in LinkIds : UnpairStart(r, l)
  <2>1. Becomes(r, {"approve", "unpair"})
    BY <1>2, Beginning DEF ApproveStart, UnpairStart, Reads
  <2> QED
    BY <2>1, CountsAside DEF MailOps
<1>3. CASE \E a \in scope.tries : SubmitStart(r, a[1], a[2], a[3])
  <2>1. PICK u \in Askers, h \in Handled, pin \in Nat : SubmitStart(r, u, h, pin)
    BY <1>3 DEF TriesFormed
  <2>2. PICK mem : mem = [user |-> u, handle |-> h, pin |-> pin, failure |-> failures[<<u, h>>],
                          by |-> askedBy[u] + 1, of |-> askedOf[h] + 1]
    OBVIOUS
  <2>3. Writes(r, Begin("submit", "count", {}, mem), {})
    BY <2>1, <2>2, Zenon DEF SubmitStart, Reads
  <2>4. askedBy[u] < AskCap /\ askedOf[h] < TargetCap
    BY <2>1 DEF SubmitStart
  <2>5. /\ askedBy[u] \in 0..AskCap /\ askedOf[h] \in 0..TargetCap /\ failures[<<u, h>>] \in Failure
    BY DEF CountInv, CountTypes, Pairs
  <2>6. mem.by \in 0..AskCap /\ mem.of \in 0..TargetCap
    BY <2>2, <2>4, <2>5, PairingAssumption
  <2>7. /\ req'[r].op = "submit" /\ req'[r].mem = mem
        /\ \A p \in Reqs : p # r => Aside(p)
    BY <2>3, Opens
  <2>8. HoldsCount(req'[r])
    BY <2>2, <2>5, <2>6, <2>7 DEF HoldsCount, MailOps
  <2> QED
    BY <2>7, <2>8, CountsStand
<1>4. CASE \E a \in AskIds : DenyStart(r, a)
  <2>1. PICK a \in AskIds : DenyStart(r, a)
    BY <1>4
  <2>2. asks[a] \in AskRow
    BY <2>1 DEF DenyStart, ContactInv, ContactTypes
  <2>3. PICK mem : mem = [ask |-> a, from |-> asks[a].from, of |-> asks[a].of]
    OBVIOUS
  <2>4. Writes(r, Begin("deny", "block", {<<"ask", a>>}, mem), {})
    BY <2>1, <2>3, Zenon DEF DenyStart, Reads
  <2>5. /\ req'[r].op = "deny" /\ req'[r].mem = mem
        /\ \A p \in Reqs : p # r => Aside(p)
    BY <2>4, Opens
  <2>6. HoldsCount(req'[r])
    BY <2>2, <2>3, <2>5 DEF HoldsCount, MailOps, AskRow
  <2> QED
    BY <2>5, <2>6, CountsStand
<1>5. CASE (\E c \in Couples : MailStart(r, c)) \/ \E t \in MailIds : ReplyStart(r, t)
  <2>1. PICK op, l, held, thread :
          /\ op \in MailOps /\ l \in LinkIds
          /\ Writes(r, Begin(op, "count", held, [link |-> l, count |-> mailCount[l] + 1, thread |-> thread]), {})
          /\ Velocity(l)
    <3>1. CASE \E c \in Couples : MailStart(r, c)
      BY <3>1 DEF MailStart, Reads, MailOps, ContactInv, ContactTypes
    <3>2. CASE \E t \in MailIds : ReplyStart(r, t)
      BY <3>2 DEF ReplyStart, Reads, MailOps, ContactInv, ContactTypes, MailRow
    <3> QED
      BY <1>5, <3>1, <3>2
  <2>2. PICK mem : mem = [link |-> l, count |-> mailCount[l] + 1, thread |-> thread]
    OBVIOUS
  <2>3. mailCount[l] \in 0..MailCap
    BY <2>1 DEF CountInv, CountTypes
  <2>4. mem.link = l /\ mem.count \in 0..MailCap
    BY <2>1, <2>2, <2>3, PairingAssumption DEF Velocity
  <2>5. /\ req'[r].op = op /\ req'[r].mem = mem
        /\ \A p \in Reqs : p # r => Aside(p)
    BY <2>1, <2>2, Opens
  <2>6. HoldsCount(req'[r])
    BY <2>1, <2>4, <2>5 DEF HoldsCount, MailOps
  <2> QED
    BY <2>5, <2>6, CountsStand
<1> QED
  BY <1>1, <1>2, <1>3, <1>4, <1>5 DEF PairingStart

\* Their later steps keep it in memory.
LEMMA CountsGoOn ==
  ASSUME AllFormed, CountInv, NEW r \in Reqs, PairingStep(r)
  PROVE  \A p \in Reqs : HoldsCount(req'[p])
<1>1. CASE UnpairScan(r) \/ UnpairClose(r)
  <2>1. req[r].op = "unpair"
    BY <1>1 DEF UnpairScan, UnpairClose, At
  <2>2. Proceeds(r)
    BY <1>1, Zenon DEF UnpairScan, UnpairClose, Reads, Proceeds
  <2>3. Becomes(r, {"unpair"})
    BY <2>1, <2>2, Proceeding
  <2> QED
    BY <2>3, CountsAside DEF MailOps
<1>2. CASE ~(UnpairScan(r) \/ UnpairClose(r))
  <2>1. Ends(r) \/ Passes(r)
    <3>1. CASE SubmitPin(r)
      <4>1. PICK pc : /\ pc = IF RightPin(req[r].mem) THEN "right" ELSE "wrong"
                      /\ Writes(r, On(req[r], pc, {}, req[r].mem), {})
        BY <3>1, Zenon DEF SubmitPin, Reads
      <4> QED
        BY <4>1 DEF Passes
    <3>2. CASE ~SubmitPin(r)
      BY <1>2, <3>2, Zenon DEF PairingStep, SubmitCount, SubmitCountOf, SubmitWrong, SubmitRight, SubmitFind,
         SubmitCommit, ApproveLink, ApproveCommit, DenyBlock, DenyResolve, DenyRecord, DenyFlag,
         DenyRaise, UnpairCommit, MailCounted, MailCommit, Reads, Answer, Leaves, Ends, Passes
    <3> QED
      BY <3>1, <3>2
  <2>2. Ends(r) => Becomes(r, {})
    BY Ending
  <2> QED
    BY <2>1, <2>2, CountsAside, CountsPass
<1> QED
  BY <1>1, <1>2

\* Requests that begin, time, and steps that write no counter.
LEMMA CountersRest ==
  ASSUME CountTypes, UNCHANGED <<pins, failures, askedBy, askedOf, blocks, denies, flags, mailCount, late>>
  PROVE  CountTypes'
BY DEF CountTypes

\* Each write of a counter is of what the request holds.
LEMMA CountersKept ==
  ASSUME TriesFormed, ContactInv, CountInv, NEW r \in Reqs, PairingStart(r) \/ PairingStep(r)
  PROVE  CountTypes'
<1>0. CountTypes /\ HoldsCount(req[r])
  BY DEF CountInv
<1>1. CASE \E t \in Targets : PinIssue(r, t)
  <2>1. PICK t \in Targets : PinIssue(r, t)
    BY <1>1
  <2>2. pins[t].issued \in 0..MaxPin /\ pins[t].issued < MaxPin
    BY <1>0, <2>1 DEF PinIssue, CountTypes
  <2>3. [issued |-> pins[t].issued + 1, valid |-> TRUE] \in [issued: 0..MaxPin, valid: BOOLEAN]
    BY <2>2, PairingAssumption
  <2> QED
    BY <1>0, <2>1, <2>3 DEF PinIssue, CountTypes
<1>2. CASE SubmitCount(r) \/ SubmitCountOf(r)
  BY <1>0, <1>2 DEF SubmitCount, SubmitCountOf, At, HoldsCount, CountTypes
<1>3. CASE SubmitWrong(r) \/ SubmitRight(r)
  <2>1. PICK u \in Askers, h \in Handled, row \in Failure :
          failures' = [failures EXCEPT ![<<u, h>>] = row]
    <3>1. req[r].mem.failure \in Failure /\ req[r].mem.user \in Askers /\ req[r].mem.handle \in Handled
      BY <1>0, <1>3 DEF SubmitWrong, SubmitRight, At, HoldsCount
    <3>2. PICK f \in Failure : f = req[r].mem.failure
      BY <3>1
    <3>3. (f.count + 1 >= PinLimit \/ f.locked) \in BOOLEAN /\ f.count + 1 \in Nat
      BY DEF Failure
    <3>4. RecordWrongPin(f) \in Failure /\ Cleared \in Failure
      BY <3>3 DEF RecordWrongPin, Cleared, Failure
    <3> QED
      BY <1>3, <3>1, <3>2, <3>4 DEF SubmitWrong, SubmitRight
  <2>2. UNCHANGED <<pins, askedBy, askedOf, blocks, denies, flags, mailCount, late>>
    BY <1>3 DEF SubmitWrong, SubmitRight
  <2> QED
    BY <1>0, <2>1, <2>2 DEF CountTypes, Pairs
<1>4. CASE DenyBlock(r) \/ DenyRecord(r) \/ DenyRaise(r)
  <2>1. req[r].mem.of \in Targets /\ req[r].mem.from \in Askers
    BY <1>0, <1>4 DEF DenyBlock, DenyRecord, DenyRaise, At, HoldsCount
  <2>2. CASE DenyBlock(r) \/ DenyRecord(r)
    BY <1>0, <2>1, <2>2 DEF DenyBlock, DenyRecord, CountTypes
  <2>3. CASE DenyRaise(r)
    BY <1>0, <2>1, <2>3 DEF DenyRaise, CountTypes
  <2> QED
    BY <1>4, <2>2, <2>3
<1>5. CASE MailCounted(r)
  BY <1>0, <1>5 DEF MailCounted, HoldsCount, CountTypes
<1>6. CASE MailCommit(r)
  BY <1>0, <1>6 DEF MailCommit, CountTypes
<1>7. CASE ~((\E t \in Targets : PinIssue(r, t)) \/ SubmitCount(r) \/ SubmitCountOf(r) \/ SubmitWrong(r)
             \/ SubmitRight(r) \/ DenyBlock(r) \/ DenyRecord(r) \/ DenyRaise(r)
             \/ MailCounted(r) \/ MailCommit(r))
  <2>1. UNCHANGED <<pins, failures, askedBy, askedOf, blocks, denies, flags, mailCount, late>>
    BY <1>7 DEF PairingStart, PairingStep, SubmitStart, ApproveStart, DenyStart, UnpairStart, MailStart,
       ReplyStart, SubmitPin, SubmitFind, SubmitCommit, ApproveLink, ApproveCommit, DenyResolve, DenyFlag,
       UnpairScan, UnpairClose, UnpairCommit, pairingRows
  <2> QED
    BY <1>0, <2>1, CountersRest
<1> QED
  BY <1>1, <1>2, <1>3, <1>4, <1>5, <1>6, <1>7

\* A PIN expires, or a lock ends.
LEMMA CountersInTime ==
  ASSUME CountTypes, PairingTime
  PROVE  CountTypes'
<1>1. CASE \E t \in Targets : PinExpires(t)
  <2>1. PICK t \in Targets : PinExpires(t)
    BY <1>1
  <2>2. [pins[t] EXCEPT !.valid = FALSE] \in [issued: 0..MaxPin, valid: BOOLEAN]
    BY DEF CountTypes
  <2> QED
    BY <2>1, <2>2 DEF PinExpires, CountTypes
<1>2. CASE \E p \in Pairs : LockEnds(p)
  <2>1. PICK p \in Pairs : LockEnds(p)
    BY <1>2
  <2>2. [failures[p] EXCEPT !.locked = FALSE] \in Failure
    BY DEF CountTypes, Failure
  <2> QED
    BY <2>1, <2>2 DEF LockEnds, CountTypes
<1> QED
  BY <1>1, <1>2 DEF PairingTime

\* Every step keeps the counters of contacts within their bounds.
LEMMA StepCounts ==
  ASSUME AllFormed, TriesFormed, ContactInv, CountInv, [Next]_vars
  PROVE  CountInv'
<1>1. ASSUME NEW r \in Reqs, Contacts(r) PROVE CountInv'
  <2>1. PairingStart(r) \/ PairingStep(r)
    BY <1>1 DEF Contacts
  <2>2. \A p \in Reqs : HoldsCount(req'[p])
    BY <2>1, CountsBegin, CountsGoOn
  <2> QED
    BY <2>1, <2>2, CountersKept DEF CountInv, HoldsCount
<1>2. ASSUME NEW r \in Reqs, Directory(r) \/ Agency(r) \/ Keyring(r) \/ Shelf(r) \/ Dies(r)
      PROVE  CountInv'
  <2>1. PICK Ops : Becomes(r, Ops) /\ Ops \cap ({"submit", "deny"} \cup MailOps) = {}
    BY <1>2, DirectoryFrame, AgencyFrame, KeyringFrame, ShelfFrame, DeathFrame
       DEF OrgOps, RegistryOps, ListingOps, AgentOps, DeviceOps, KeyOps, ShelfOps, MailOps
  <2>2. UNCHANGED <<pins, failures, askedBy, askedOf, blocks, denies, flags, mailCount, late>>
    BY <1>2 DEF Directory, Agency, Keyring, Shelf, Dies, hubRows, pairingRows
  <2>3. \A p \in Reqs : HoldsCount(req'[p])
    BY <2>1, CountsAside
  <2>4. CountTypes'
    BY <2>2, CountersRest DEF CountInv
  <2> QED
    BY <2>3, <2>4 DEF CountInv, HoldsCount
<1>3. CASE UNCHANGED <<req, pins, failures, askedBy, askedOf, blocks, denies, flags, mailCount, late>>
  BY <1>3 DEF CountInv, CountTypes, HoldsCount
<1>4. CASE Time
  <2>1. PairingTime /\ UNCHANGED req
    BY <1>4, TimeFrame DEF Time
  <2>2. CountTypes'
    BY <2>1, CountersInTime DEF CountInv
  <2> QED
    BY <2>1, <2>2 DEF CountInv, HoldsCount
<1> QED
  BY <1>1, <1>2, <1>3, <1>4 DEF Next, vars, hubRows, pairingRows

\* All counters are at zero at first.
LEMMA InitCountInv == Init => CountInv
<1> SUFFICES ASSUME Init PROVE CountInv
  OBVIOUS
<1>1. \A p \in Reqs : HoldsCount(req[p])
  BY DEF Init, InitRequests, Idle, HoldsCount, MailOps
<1>2. CountTypes
  BY PairingAssumption DEF Init, InitPairing, CountTypes, Failure
<1> QED
  BY <1>1, <1>2 DEF CountInv

-----------------------------------------------------------------------------
(* Types of drafts, votes and receipts *)

\* The draft, or the voter, that a request is about
HoldsPaper(q) ==
  /\ q.op = "paper" => q.mem.paper \in PaperIds
  /\ q.op \in {"vote", "receipt"} => q.mem.agent \in Voters

\* The sets of drafts, votes and receipts
PaperTypes ==
  papers \subseteq PaperIds /\ discarded \subseteq PaperIds /\ votes \subseteq Voters /\ receipts \subseteq Voters

\* Those sets, and what requests hold of them
PaperInv == PaperTypes /\ \A p \in Reqs : HoldsPaper(req[p])

\* A step of another kind of request leaves what they hold.
LEMMA PapersAside ==
  ASSUME AllFormed, PaperInv, NEW r \in Reqs, NEW Ops, Becomes(r, Ops), Ops \cap {"paper", "vote", "receipt"} = {}
  PROVE  \A p \in Reqs : HoldsPaper(req'[p])
<1>1. req'[r].op \in Ops \cup {"none"} /\ \A p \in Reqs : p # r => Aside(p)
  BY Bystanders
<1> QED
  BY <1>1 DEF PaperInv, HoldsPaper, Aside

\* Each request works on what it was asked for.
LEMMA PapersMove ==
  ASSUME AllFormed, PaperInv, NEW r \in Reqs, ShelfStart(r) \/ ShelfStep(r)
  PROVE  PaperInv'
<1>0. HoldsPaper(req[r]) /\ PaperTypes
  BY DEF PaperInv
<1>1. PaperTypes'
  <2>1. CASE ShelfStart(r)
    BY <1>0, <2>1 DEF ShelfStart, UploadStart, PaperNew, PaperStart, VoteStart, ReceiptStart, shelfRows, PaperTypes
  <2>2. CASE ShelfStep(r)
    BY <1>0, <2>2 DEF ShelfStep, UploadCommit, UploadConflict, PaperUpdate, PaperDelete, VoteSave, ReceiptSave,
       At, shelfRows, PaperTypes, HoldsPaper
  <2> QED
    BY <2>1, <2>2
<1>2. CASE ShelfStep(r) \/ PaperNew(r)
  <2>1. Ends(r)
    BY <1>2, Zenon DEF ShelfStep, UploadCommit, UploadConflict, PaperUpdate, PaperDelete, VoteSave,
       ReceiptSave, PaperNew, Answer, Reads, Leaves, Ends
  <2>2. Becomes(r, {})
    BY <2>1, Ending
  <2>3. \A p \in Reqs : HoldsPaper(req'[p])
    BY <2>2, PapersAside
  <2> QED
    BY <1>1, <2>3 DEF PaperInv, HoldsPaper
<1>3. CASE \E size \in BlobSizes : UploadStart(r, size)
  <2>1. Becomes(r, {"upload"})
    BY <1>3, Beginning DEF UploadStart, Reads
  <2>2. \A p \in Reqs : HoldsPaper(req'[p])
    BY <2>1, PapersAside
  <2> QED
    BY <1>1, <2>2 DEF PaperInv, HoldsPaper
<1>4. CASE \/ \E p \in PaperIds, what \in {"update", "delete"} : PaperStart(r, p, what)
           \/ \E a \in Voters : VoteStart(r, a) \/ ReceiptStart(r, a)
  <2>1. PICK op, pc, held, mem :
          /\ Reads(r, Begin(op, pc, held, mem)) /\ pc # "migrate"
          /\ \/ op = "paper" /\ mem.paper \in PaperIds
             \/ op \in {"vote", "receipt"} /\ mem.agent \in Voters
    <3>1. CASE \E p \in PaperIds, what \in {"update", "delete"} : PaperStart(r, p, what)
      BY <3>1 DEF PaperStart
    <3>2. CASE \E a \in Voters : VoteStart(r, a) \/ ReceiptStart(r, a)
      BY <3>2 DEF VoteStart, ReceiptStart
    <3> QED
      BY <1>4, <3>1, <3>2
  <2>2. /\ req'[r].op = op /\ req'[r].mem = mem
        /\ \A p \in Reqs : p # r => Aside(p)
    BY <2>1, Opens DEF Reads
  <2>3. \A p \in Reqs : HoldsPaper(req'[p])
    BY <2>1, <2>2 DEF PaperInv, HoldsPaper, Aside
  <2> QED
    BY <1>1, <2>3 DEF PaperInv, HoldsPaper
<1> QED
  BY <1>2, <1>3, <1>4 DEF ShelfStart

\* Every step keeps the sets of drafts, votes and receipts.
LEMMA StepPapers ==
  ASSUME AllFormed, PaperInv, [Next]_vars
  PROVE  PaperInv'
<1>1. ASSUME NEW r \in Reqs, Shelf(r) PROVE PaperInv'
  BY <1>1, PapersMove DEF Shelf
<1>2. ASSUME NEW r \in Reqs, Directory(r) \/ Agency(r) \/ Keyring(r) \/ Contacts(r) \/ Dies(r)
      PROVE  PaperInv'
  <2>1. PICK Ops : Becomes(r, Ops) /\ Ops \cap {"paper", "vote", "receipt"} = {}
    BY <1>2, DirectoryFrame, AgencyFrame, KeyringFrame, ContactsFrame, DeathFrame
       DEF OrgOps, RegistryOps, ListingOps, AgentOps, DeviceOps, KeyOps, ContactOps
  <2>2. UNCHANGED <<papers, discarded, votes, receipts>>
    BY <1>2 DEF Directory, Agency, Keyring, Contacts, Dies, hubRows, shelfRows
  <2>3. \A p \in Reqs : HoldsPaper(req'[p])
    BY <2>1, PapersAside
  <2> QED
    BY <2>2, <2>3 DEF PaperInv, PaperTypes, HoldsPaper
<1>3. CASE UNCHANGED <<req, papers, discarded, votes, receipts>>
  BY <1>3 DEF PaperInv, PaperTypes, HoldsPaper
<1> QED
  BY <1>1, <1>2, <1>3, TimeFrame DEF Next, vars, hubRows, shelfRows

\* They are empty at first.
LEMMA InitPaperInv == Init => PaperInv
BY DEF Init, InitRequests, InitShelf, Idle, PaperInv, PaperTypes, HoldsPaper

-----------------------------------------------------------------------------
(* Types of the addresses and stub agents of listings *)

\* Whether the stub agent of the listing is to be public
HoldsStub(q) == q.op \in ListingOps => q.mem.public \in BOOLEAN

\* The rows of addresses and of stub agents
StubTypes ==
  addressRow \in [Addresses -> ListingIds \cup {Absent}] /\ stubPublic \in [ListingIds -> BOOLEAN]

\* Those rows, and what requests hold of them
StubInv == StubTypes /\ \A p \in Reqs : HoldsStub(req[p])

\* Requests that stay aside keep what they hold.
LEMMA StubsStand ==
  ASSUME StubInv, NEW r \in Reqs, HoldsStub(req'[r]), \A p \in Reqs : p # r => Aside(p)
  PROVE  \A p \in Reqs : HoldsStub(req'[p])
BY DEF StubInv, HoldsStub, Aside

\* A step of no request of listings leaves what they hold.
LEMMA StubsAside ==
  ASSUME AllFormed, StubInv, NEW r \in Reqs, NEW Ops, Becomes(r, Ops), Ops \cap ListingOps = {}
  PROVE  \A p \in Reqs : HoldsStub(req'[p])
<1>1. req'[r].op \in Ops \cup {"none"} /\ \A p \in Reqs : p # r => Aside(p)
  BY Bystanders
<1> QED
  BY <1>1 DEF StubInv, HoldsStub, Aside, ListingOps

\* A request on a listing sets its agent's visibility to what it read or what
\* its operation makes of it.
LEMMA StubsMove ==
  ASSUME AllFormed, RegistryInv, StubInv, NEW r \in Reqs, RegistryStart(r) \/ RegistryStep(r)
  PROVE  StubInv'
<1>0. HoldsStub(req[r]) /\ StubTypes /\ HoldsListing(req[r])
  BY DEF StubInv, RegistryInv
<1>1. StubTypes'
  <2>1. CASE DraftCommit(r)
    BY <1>0, <2>1 DEF DraftCommit, At, HoldsListing, StubTypes
  <2>2. CASE ListingCommit(r)
    BY <1>0, <2>2 DEF ListingCommit, HoldsListing, HoldsStub, StubTypes
  <2>3. CASE ~(DraftCommit(r) \/ ListingCommit(r))
    BY <1>0, <2>3 DEF RegistryStart, DraftStart, ListingStart, VerifyStart, RegistryStep, DraftConflict,
       ListingAgent, VerifySlugs, VerifyCommit, registryRows, StubTypes
  <2> QED
    BY <2>1, <2>2, <2>3
<1>2. CASE \E op \in ListingOps, l \in ListingIds : ListingStart(r, op, l)
  <2>1. PICK op \in ListingOps, l \in ListingIds : ListingStart(r, op, l)
    BY <1>2
  <2>2. PICK mem : mem = [listing |-> l, row |-> After(op, listings[l]), public |-> FALSE]
    OBVIOUS
  <2>3. Writes(r, Begin(op, "agent", {<<"listing", l>>}, mem), {})
    BY <2>1, <2>2, Zenon DEF ListingStart, Reads
  <2>4. /\ req'[r].op = op /\ req'[r].mem = mem
        /\ \A p \in Reqs : p # r => Aside(p)
    BY <2>3, Opens
  <2>5. mem.public \in BOOLEAN
    BY <2>2
  <2>6. HoldsStub(req'[r])
    BY <2>4, <2>5, Zenon DEF HoldsStub
  <2>7. \A p \in Reqs : HoldsStub(req'[p])
    BY <2>4, <2>6, StubsStand
  <2> QED
    BY <1>1, <2>7 DEF StubInv, HoldsStub
<1>3. CASE ListingAgent(r)
  <2>1. PICK mem, public : /\ mem = [req[r].mem EXCEPT !.public = public]
                           /\ public = IF req[r].op = "edit" THEN stubPublic[req[r].mem.listing]
                                       ELSE req[r].op = "publish"
                           /\ Writes(r, On(req[r], "commit", {}, mem), {})
    BY <1>3, Zenon DEF ListingAgent, Reads
  <2>2. req[r].op \in ListingOps
    BY <1>3 DEF ListingAgent
  <2>3. DOMAIN req[r].mem = {"listing", "row", "public"} /\ req[r].mem.listing \in ListingIds
    BY <1>0, <2>2 DEF HoldsListing
  <2>4. mem.public = public
    BY <2>1, <2>3
  <2>5. stubPublic[req[r].mem.listing] \in BOOLEAN
    BY <1>0, <2>3 DEF StubTypes
  <2>6. (req[r].op = "publish") \in BOOLEAN
    BY Zenon
  <2>7. public \in BOOLEAN
    BY <2>1, <2>5, <2>6, Zenon
  <2>8. mem.public \in BOOLEAN
    BY <2>4, <2>7, Zenon
  <2>9. /\ req'[r].op = req[r].op /\ req'[r].mem = mem
        /\ \A p \in Reqs : p # r => Aside(p)
    <3>1. \E held, K : Writes(r, On(req[r], "commit", held, mem), K)
      BY <2>1
    <3> QED
      BY <3>1, Moves
  <2>10. HoldsStub(req'[r])
    BY <2>8, <2>9, Zenon DEF HoldsStub
  <2>11. \A p \in Reqs : HoldsStub(req'[p])
    BY <2>9, <2>10, StubsStand
  <2> QED
    BY <1>1, <2>11 DEF StubInv, HoldsStub
<1>4. CASE ListingCommit(r)
  <2>1. Ends(r)
    BY <1>4, Zenon DEF ListingCommit, Leaves, Ends
  <2>2. Becomes(r, {})
    BY <2>1, Ending
  <2>3. \A p \in Reqs : HoldsStub(req'[p])
    BY <2>2, StubsAside
  <2> QED
    BY <1>1, <2>3 DEF StubInv, HoldsStub
<1>5. CASE \/ \E u \in UserIds, a \in Addresses : DraftStart(r, u, a)
           \/ \E l \in ListingIds, s \in Slugs : VerifyStart(r, l, s)
  <2>1. Becomes(r, {"draft", "verify"})
    BY <1>5, Beginning DEF DraftStart, VerifyStart, Reads
  <2>2. \A p \in Reqs : HoldsStub(req'[p])
    BY <2>1, StubsAside DEF ListingOps
  <2> QED
    BY <1>1, <2>2 DEF StubInv, HoldsStub
<1>6. CASE DraftCommit(r) \/ DraftConflict(r) \/ VerifySlugs(r) \/ VerifyCommit(r)
  <2>1. req[r].op \in {"draft", "verify"}
    BY <1>6 DEF DraftCommit, DraftConflict, VerifySlugs, VerifyCommit, At
  <2>2. Proceeds(r) \/ Ends(r)
    BY <1>6, Zenon DEF DraftCommit, DraftConflict, VerifySlugs, VerifyCommit, Reads, Answer, Leaves,
       Proceeds, Ends
  <2>3. Becomes(r, {"draft", "verify"})
    BY <2>1, <2>2, Proceeding
  <2>4. \A p \in Reqs : HoldsStub(req'[p])
    BY <2>3, StubsAside DEF ListingOps
  <2> QED
    BY <1>1, <2>4 DEF StubInv, HoldsStub
<1> QED
  BY <1>2, <1>3, <1>4, <1>5, <1>6 DEF RegistryStart, RegistryStep

\* Every step keeps the rows of addresses and of stub agents.
LEMMA StepStubs ==
  ASSUME AllFormed, RegistryInv, StubInv, [Next]_vars
  PROVE  StubInv'
<1>1. ASSUME NEW r \in Reqs, Directory(r) PROVE StubInv'
  <2>1. CASE (OrgStart(r) \/ OrgStep(r)) /\ UNCHANGED registryRows
    <3>1. Becomes(r, OrgOps) /\ OrgOps \cap ListingOps = {}
      BY <2>1, OrgBegins, OrgGoesOn DEF OrgOps, ListingOps
    <3>2. \A p \in Reqs : HoldsStub(req'[p])
      BY <3>1, StubsAside
    <3> QED
      BY <2>1, <3>2 DEF StubInv, StubTypes, HoldsStub, registryRows
  <2>2. CASE RegistryStart(r) \/ RegistryStep(r)
    BY <2>2, StubsMove
  <2> QED
    BY <1>1, <2>1, <2>2 DEF Directory
<1>2. ASSUME NEW r \in Reqs, Agency(r) \/ Keyring(r) \/ Contacts(r) \/ Shelf(r) \/ Dies(r)
      PROVE  StubInv'
  <2>1. PICK Ops : Becomes(r, Ops) /\ Ops \cap ListingOps = {}
    BY <1>2, AgencyFrame, KeyringFrame, ContactsFrame, ShelfFrame, DeathFrame
       DEF AgentOps, DeviceOps, KeyOps, ContactOps, ShelfOps, ListingOps
  <2>2. UNCHANGED <<addressRow, stubPublic>>
    BY <1>2 DEF Agency, Keyring, Contacts, Shelf, Dies, hubRows, directoryRows, registryRows
  <2>3. \A p \in Reqs : HoldsStub(req'[p])
    BY <2>1, StubsAside
  <2> QED
    BY <2>2, <2>3 DEF StubInv, StubTypes, HoldsStub
<1>3. CASE UNCHANGED <<req, addressRow, stubPublic>>
  BY <1>3 DEF StubInv, StubTypes, HoldsStub
<1> QED
  BY <1>1, <1>2, <1>3, TimeFrame DEF Next, vars, hubRows, directoryRows, registryRows

\* There are no listings at first.
LEMMA InitStubInv == Init => StubInv
BY DEF Init, InitRequests, InitRegistry, Idle, StubInv, StubTypes, HoldsStub, ListingOps

-----------------------------------------------------------------------------
(* Types of the routing of agents *)

\* The transport preferences, by slug
Prefs == [AgentSlugs -> Transports \cup {Absent}]

\* A router, but for what the rules of a slug are
RouterFits(x) ==
  /\ DOMAIN x = {"default", "rules"} /\ x.default \in AgentIds \cup {Absent}
  /\ DOMAIN x.rules = AgentSlugs

\* The router, and the preferences, that a request has read or was given
HoldsRouter(q) ==
  /\ q.pc = "migrate" \/ (q.op \in {"connect", "prefer", "router", "rename"} /\ q.pc = "commit")
       => RouterFits(q.mem.router)
  /\ q.op = "prefer" => q.mem.slug \in AgentSlugs /\ q.mem.transport \in Transports /\ q.mem.prefs \in Prefs
  /\ q.op = "router" =>
       /\ q.mem.default \in AgentIds \cup {Absent}
       /\ q.mem.rules # Absent => DOMAIN q.mem.rules = AgentSlugs
  /\ q.op = "rename" /\ q.pc \in {"migrate", "commit"} => q.mem.prefs \in Prefs

\* The rows of the router, of the default agent and of the preferences
RouterTypes ==
  /\ router # Absent => RouterFits(router)
  /\ defaultRow \in AgentIds \cup {Absent} /\ prefs \in Prefs

\* Those rows, and what requests hold of them
RouterInv == RouterTypes /\ \A p \in Reqs : HoldsRouter(req[p])

\* Requests that stay aside keep what they hold.
LEMMA RoutersStand ==
  ASSUME RouterInv, NEW r \in Reqs, HoldsRouter(req'[r]), \A p \in Reqs : p # r => Aside(p)
  PROVE  \A p \in Reqs : HoldsRouter(req'[p])
BY DEF RouterInv, HoldsRouter, Aside

\* A step of no request of agents leaves what they hold.
LEMMA RoutersAside ==
  ASSUME AllFormed, RouterInv, NEW r \in Reqs, NEW Ops, Becomes(r, Ops), Ops \cap AgentOps = {}
  PROVE  \A p \in Reqs : HoldsRouter(req'[p])
<1>1. /\ req'[r].op \in Ops \cup {"none"} /\ Formed(req'[r])
      /\ \A p \in Reqs : p # r => Aside(p)
  BY Bystanders DEF AllFormed
<1>2. req'[r].op \notin AgentOps
  BY <1>1 DEF AgentOps
<1>3. HoldsRouter(req'[r])
  BY <1>1, <1>2 DEF HoldsRouter, Formed, AgentOps
<1> QED
  BY <1>1, <1>3, RoutersStand

\* The router that is loaded is the row, or made of the older rows.
LEMMA LoadedFits ==
  ASSUME RouterTypes
  PROVE  RouterFits(Loaded)
<1>1. CASE router # Absent
  BY <1>1 DEF RouterTypes, Loaded
<1>2. CASE router = Absent
  <2>1. \E f : Loaded = [default |-> defaultRow, rules |-> f] /\ DOMAIN f = AgentSlugs
    <3>1. PICK f : f = [s \in AgentSlugs |-> SubSeq(FirstOf(s), 1, IF FirstOf(s) = <<>> THEN 0 ELSE 1)]
      OBVIOUS
    <3>2. Loaded = [default |-> defaultRow, rules |-> f]
      BY <1>2, <3>1, Zenon DEF Loaded
    <3>3. DOMAIN f = AgentSlugs
      BY <3>1
    <3> QED
      BY <3>2, <3>3
  <2> QED
    BY <2>1 DEF RouterFits, RouterTypes
<1> QED
  BY <1>1, <1>2

\* A request that loads the router is then about to migrate it or to commit.
LEMMA RouterIsLoaded ==
  ASSUME AllFormed, NEW r \in Reqs, NEW q, Formed(q), q.op \in AgentOps, NEW mem, LoadsRouter(r, q, mem)
  PROVE  /\ req'[r].op = q.op /\ req'[r].pc \in {"migrate", "commit"} /\ req'[r].mem = mem
         /\ \A p \in Reqs : p # r => Aside(p)
<1>1. PICK pc, K : pc \in {"migrate", "commit"} /\ Writes(r, On(q, pc, K, mem), {})
  <2>1. \/ Writes(r, On(q, "migrate", {<<"router">>}, mem), {})
        \/ Writes(r, On(q, "commit", {<<"router">>}, mem), {})
    BY Zenon DEF LoadsRouter, Reads
  <2> QED
    BY <2>1
<1>2. PICK n : n = On(q, pc, K, mem)
  OBVIOUS
<1>3. Formed(n) /\ n.op = q.op /\ n.pc = pc /\ n.mem = mem
  BY <1>2, GoingOn
<1> QED
  BY <1>1, <1>2, <1>3, Writing

\* A preference, a router and a look begin; so do a connect, a handshake and a
\* rename, which have no router yet.
LEMMA RoutersBegin ==
  ASSUME AllFormed, RouterInv, NEW r \in Reqs, AgentStart(r)
  PROVE  \A p \in Reqs : HoldsRouter(req'[p])
<1>0. RouterTypes
  BY DEF RouterInv
<1>1. CASE \E s \in AgentSlugs, t \in Transports : PreferStart(r, s, t)
  <2>1. PICK s \in AgentSlugs, t \in Transports : PreferStart(r, s, t)
    BY <1>1
  <2>2. PICK mem : mem = [slug |-> s, transport |-> t, prefs |-> prefs]
    OBVIOUS
  <2>3. Writes(r, Begin("prefer", "load", {}, mem), {})
    BY <2>1, <2>2, Zenon DEF PreferStart, Reads
  <2>4. /\ req'[r].op = "prefer" /\ req'[r].pc = "load" /\ req'[r].mem = mem
        /\ \A p \in Reqs : p # r => Aside(p)
    BY <2>3, Opens
  <2>5. HoldsRouter(req'[r])
    BY <1>0, <2>2, <2>4 DEF HoldsRouter, RouterTypes
  <2> QED
    BY <2>4, <2>5, RoutersStand
<1>2. CASE \/ \E s \in AgentSlugs, t \in Transports : ConnectStart(r, s, t)
           \/ \E a \in AgentIds : HandshakeStart(r, a) \/ \E s \in AgentSlugs : RenameStart(r, a, s)
  <2>1. PICK op, pc, held, mem :
          /\ op \in {"connect", "handshake", "rename"}
          /\ Writes(r, Begin(op, pc, held, mem), {}) /\ pc # "migrate"
          /\ pc = "commit" => op = "handshake"
    <3>1. CASE \E s \in AgentSlugs, t \in Transports : ConnectStart(r, s, t)
      BY <3>1 DEF ConnectStart, Reads
    <3>2. CASE \E a \in AgentIds : HandshakeStart(r, a)
      BY <3>2 DEF HandshakeStart, Reads
    <3>3. CASE \E a \in AgentIds : \E s \in AgentSlugs : RenameStart(r, a, s)
      BY <3>3 DEF RenameStart, Reads
    <3> QED
      BY <1>2, <3>1, <3>2, <3>3
  <2>2. /\ req'[r].op = op /\ req'[r].pc = pc
        /\ \A p \in Reqs : p # r => Aside(p)
    BY <2>1, Opens
  <2>3. HoldsRouter(req'[r])
    BY <2>1, <2>2 DEF HoldsRouter
  <2> QED
    BY <2>2, <2>3, RoutersStand
<1>3. ASSUME NEW op \in {"router", "look"}, NEW mem, LoadsRouter(r, Begin(op, "load", {}, Absent), mem),
             RouterFits(mem.router),
             op = "router" => /\ mem.default \in AgentIds \cup {Absent}
                              /\ mem.rules # Absent => DOMAIN mem.rules = AgentSlugs
      PROVE  \A p \in Reqs : HoldsRouter(req'[p])
  <2>1. PICK q : q = Begin(op, "load", {}, Absent)
    OBVIOUS
  <2>2. Formed(q) /\ q.op = op /\ q.op \in AgentOps
    BY <2>1, Begun DEF AgentOps
  <2>3. LoadsRouter(r, q, mem)
    BY <1>3, <2>1
  <2>4. /\ req'[r].op = op /\ req'[r].pc \in {"migrate", "commit"} /\ req'[r].mem = mem
        /\ \A p \in Reqs : p # r => Aside(p)
    BY <2>2, <2>3, RouterIsLoaded
  <2>5. HoldsRouter(req'[r])
    BY <1>3, <2>4 DEF HoldsRouter
  <2> QED
    BY <2>4, <2>5, RoutersStand
<1>4. CASE \E d \in AgentIds \cup {Absent}, u \in ClientRules \cup {Absent} : RouterStart(r, d, u)
  <2>1. PICK d \in AgentIds \cup {Absent}, u \in ClientRules \cup {Absent} : RouterStart(r, d, u)
    BY <1>4
  <2>2. PICK mem : mem = [default |-> d, rules |-> u, router |-> Loaded]
    OBVIOUS
  <2>3. LoadsRouter(r, Begin("router", "load", {}, Absent), mem)
    BY <2>1, <2>2, Zenon DEF RouterStart
  <2>4. u # Absent => DOMAIN u = AgentSlugs
    BY DEF ClientRules, NoRules
  <2>5. mem.default = d /\ mem.rules = u /\ mem.router = Loaded
    BY <2>2
  <2> QED
    BY <1>0, <1>3, <2>3, <2>4, <2>5, LoadedFits
<1>5. CASE LookStart(r)
  <2>1. PICK mem : mem = [router |-> Loaded]
    OBVIOUS
  <2>2. LoadsRouter(r, Begin("look", "load", {}, Absent), mem)
    BY <1>5, <2>1, Zenon DEF LookStart
  <2>3. mem.router = Loaded
    BY <2>1
  <2> QED
    BY <1>0, <1>3, <2>2, <2>3, LoadedFits
<1> QED
  BY <1>1, <1>2, <1>4, <1>5 DEF AgentStart

\* Their later steps
LEMMA RoutersGoOn ==
  ASSUME AllFormed, RouterInv, NEW r \in Reqs, AgentStep(r)
  PROVE  \A p \in Reqs : HoldsRouter(req'[p])
<1>0. RouterTypes /\ HoldsRouter(req[r]) /\ Formed(req[r])
  BY DEF RouterInv, AllFormed
<1>1. CASE ConnectLoad(r) \/ PreferLoad(r) \/ RenameLoad(r)
  <2>1. PICK mem : /\ LoadsRouter(r, req[r], mem) /\ mem.router = Loaded
                   /\ req[r].op = "prefer" => /\ mem.slug = req[r].mem.slug
                                              /\ mem.transport = req[r].mem.transport
                                              /\ mem.prefs = req[r].mem.prefs
                   /\ req[r].op = "rename" => mem.prefs = prefs
    BY <1>1 DEF ConnectLoad, PreferLoad, RenameLoad, At
  <2>2. req[r].op \in {"connect", "prefer", "rename"}
    BY <1>1 DEF ConnectLoad, PreferLoad, RenameLoad, At
  <2>3. /\ req'[r].op = req[r].op /\ req'[r].mem = mem
        /\ \A p \in Reqs : p # r => Aside(p)
    BY <1>0, <2>1, <2>2, RouterIsLoaded DEF AgentOps
  <2>4. HoldsRouter(req'[r])
    BY <1>0, <2>1, <2>2, <2>3, LoadedFits DEF HoldsRouter, RouterTypes
  <2> QED
    BY <2>3, <2>4, RoutersStand
<1>2. CASE Migrate(r)
  <2>1. PICK q, K : /\ Writes(r, q, K)
                    /\ q = [req[r] EXCEPT !.pc = "commit", !.stale = req[r].stale \ {<<"router">>}]
    BY <1>2 DEF Migrate
  <2>2. q.op = req[r].op /\ q.pc = "commit" /\ q.mem = req[r].mem /\ Formed(q)
    BY <1>0, <2>1 DEF Formed
  <2>3. req'[r] = q /\ \A p \in Reqs : p # r => Aside(p)
    BY <2>1, <2>2, Writing
  <2>4. HoldsRouter(req'[r])
    BY <1>0, <1>2, <2>2, <2>3 DEF Migrate, HoldsRouter
  <2> QED
    BY <2>3, <2>4, RoutersStand
<1>3. CASE ConnectRefresh(r) \/ ConnectSlot(r)
  <2>1. req[r].op = "connect"
    BY <1>3 DEF ConnectRefresh, ConnectSlot, At
  <2>2. Ends(r) \/ \E pc, held, mem, K : pc \in {"slot", "legacy"} /\ Writes(r, On(req[r], pc, held, mem), K)
    <3>1. CASE ConnectRefresh(r)
      <4>1. \E held, mem, K : Writes(r, On(req[r], "slot", held, mem), K)
        BY <3>1, Zenon DEF ConnectRefresh
      <4> QED
        BY <4>1
    <3>2. CASE ConnectSlot(r)
      <4>1. Ends(r) \/ \E held, mem, K : Writes(r, On(req[r], "legacy", held, mem), K)
        BY <3>2, Zenon DEF ConnectSlot, Answer, Reads, Ends
      <4> QED
        BY <4>1
    <3> QED
      BY <1>3, <3>1, <3>2
  <2>3. CASE Ends(r)
    <3>1. Becomes(r, {})
      BY <2>3, Ending
    <3> QED
      BY <3>1, RoutersAside
  <2>4. CASE ~Ends(r)
    <3>1. PICK pc, held, mem, K : pc \in {"slot", "legacy"} /\ Writes(r, On(req[r], pc, held, mem), K)
      BY <2>2, <2>4, Zenon
    <3>2. \E h, k : Writes(r, On(req[r], pc, h, mem), k)
      BY <3>1, Zenon
    <3>3. /\ req'[r].op = "connect" /\ req'[r].pc \in {"slot", "legacy"}
          /\ \A p \in Reqs : p # r => Aside(p)
      BY <2>1, <3>1, <3>2, Moves
    <3>4. HoldsRouter(req'[r])
      BY <3>3 DEF HoldsRouter
    <3> QED
      BY <3>3, <3>4, RoutersStand
  <2> QED
    BY <2>3, <2>4
<1>4. CASE \/ ConnectLegacy(r) \/ ConnectCommit(r) \/ PreferCommit(r) \/ RouterCommit(r) \/ HandshakeSave(r)
           \/ RenameCommit(r) \/ LookEnd(r)
  <2>1. Ends(r)
    BY <1>4, Zenon DEF ConnectLegacy, ConnectCommit, PreferCommit, RouterCommit, HandshakeSave, RenameCommit,
       LookEnd, Answer, Reads, Leaves, Ends
  <2>2. Becomes(r, {})
    BY <2>1, Ending
  <2> QED
    BY <2>2, RoutersAside
<1> QED
  BY <1>1, <1>2, <1>3, <1>4 DEF AgentStep

\* Setting rules keeps the slugs there are rules for.
LEMMA RulesFit ==
  ASSUME NEW x, RouterFits(x), NEW rules, DOMAIN rules = AgentSlugs
  PROVE  RouterFits([x EXCEPT !.rules = rules])
BY DEF RouterFits

\* What the steps write fits.
LEMMA RoutersKept ==
  ASSUME AllFormed, AgentInv, RouterInv, NEW r \in Reqs, AgentStart(r) \/ AgentStep(r)
  PROVE  RouterTypes'
<1>0. RouterTypes /\ HoldsRouter(req[r]) /\ HoldsAgent(req[r]) /\ Formed(req[r])
  BY DEF RouterInv, AgentInv, AllFormed
<1>1. CASE Migrate(r)
  BY <1>0, <1>1 DEF Migrate, HoldsRouter, RouterTypes
<1>2. CASE ConnectCommit(r)
  <2>1. PICK m : m = req[r].mem
    OBVIOUS
  <2>2. RouterFits(m.router) /\ m.slug \in AgentSlugs
    BY <1>0, <1>2, <2>1 DEF ConnectCommit, At, HoldsRouter, HoldsAgent, MakesAgent
  <2>3. PICK a, default :
          /\ a \in AgentIds
          /\ default = IF m.router.default = Absent THEN a ELSE m.router.default
          /\ defaultRow' = default /\ router' = [default |-> default, rules |-> RulesWith(m, a)]
    BY <1>2, <2>1, Zenon DEF ConnectCommit
  <2>4. default \in AgentIds \cup {Absent}
    BY <2>2, <2>3 DEF RouterFits
  <2>5. DOMAIN RulesWith(m, a) = AgentSlugs
    BY <2>2 DEF RouterFits, RulesWith
  <2>6. RouterFits(router')
    BY <2>3, <2>4, <2>5 DEF RouterFits
  <2>7. UNCHANGED prefs
    BY <1>2 DEF ConnectCommit
  <2> QED
    BY <1>0, <2>3, <2>4, <2>6, <2>7 DEF RouterTypes
<1>3. CASE PreferCommit(r)
  <2>1. PICK m : m = req[r].mem
    OBVIOUS
  <2>2. RouterFits(m.router) /\ m.slug \in AgentSlugs /\ m.transport \in Transports /\ m.prefs \in Prefs
    BY <1>0, <1>3, <2>1 DEF PreferCommit, At, HoldsRouter
  <2>3. /\ prefs' = [m.prefs EXCEPT ![m.slug] = m.transport]
        /\ router' = IF m.agent = Absent THEN router
                     ELSE [m.router EXCEPT !.rules[m.slug] = <<m.agent>>]
        /\ UNCHANGED defaultRow
    BY <1>3, <2>1, Zenon DEF PreferCommit
  <2>4. prefs' \in Prefs
    BY <2>2, <2>3 DEF Prefs
  <2>5. RouterFits([m.router EXCEPT !.rules[m.slug] = <<m.agent>>])
    <3>1. PICK x, rules : x = m.router /\ rules = [m.router.rules EXCEPT ![m.slug] = <<m.agent>>]
      OBVIOUS
    <3>2. [m.router EXCEPT !.rules[m.slug] = <<m.agent>>] = [x EXCEPT !.rules = rules]
      BY <3>1
    <3>3. RouterFits(x) /\ DOMAIN rules = AgentSlugs
      BY <2>2, <3>1 DEF RouterFits
    <3> QED
      BY <3>2, <3>3, RulesFit
  <2> QED
    BY <1>0, <2>3, <2>4, <2>5 DEF RouterTypes
<1>4. CASE RouterCommit(r)
  <2>1. PICK m : m = req[r].mem
    OBVIOUS
  <2>2. RouterFits(m.router) /\ m.default \in AgentIds \cup {Absent}
        /\ (m.rules # Absent => DOMAIN m.rules = AgentSlugs)
    BY <1>0, <1>4, <2>1 DEF RouterCommit, At, HoldsRouter
  <2>3. PICK default, rules :
          /\ default = IF m.default = Absent THEN m.router.default ELSE m.default
          /\ rules = IF m.rules = Absent THEN m.router.rules ELSE m.rules
          /\ router' = [default |-> default, rules |-> rules] /\ defaultRow' = default
          /\ UNCHANGED prefs
    BY <1>4, <2>1, Zenon DEF RouterCommit
  <2>4. default \in AgentIds \cup {Absent} /\ DOMAIN rules = AgentSlugs
    BY <2>2, <2>3 DEF RouterFits
  <2>5. RouterFits(router')
    BY <2>3, <2>4 DEF RouterFits
  <2> QED
    BY <1>0, <2>3, <2>4, <2>5 DEF RouterTypes
<1>5. CASE RenameCommit(r)
  <2>1. PICK m, old : m = req[r].mem /\ old = m.row.slug
    OBVIOUS
  <2>2. RouterFits(m.router) /\ m.prefs \in Prefs /\ old \in AgentSlugs /\ m.to \in AgentSlugs
    BY <1>0, <1>5, <2>1 DEF RenameCommit, At, HoldsRouter, HoldsAgent, WorksOnAgent, AgentRow
  <2>3. /\ router' = [m.router EXCEPT !.rules = RulesRenamed(m.router.rules, m.agent, old, m.to)]
        /\ prefs' = PrefsRenamed(m.prefs, old, m.to) /\ UNCHANGED defaultRow
    BY <1>5, <2>1, Zenon DEF RenameCommit
  <2>4. prefs' \in Prefs
    BY <2>2, <2>3 DEF Prefs, PrefsRenamed
  <2>5. PICK x, y : RulesRenamed(m.router.rules, m.agent, old, m.to)
                      = [m.router.rules EXCEPT ![old] = x, ![m.to] = y]
    BY Zenon DEF RulesRenamed
  <2>6. DOMAIN RulesRenamed(m.router.rules, m.agent, old, m.to) = AgentSlugs
    BY <2>2, <2>5 DEF RouterFits
  <2>7. RouterFits(router')
    BY <2>2, <2>3, <2>6, RulesFit
  <2> QED
    BY <1>0, <2>3, <2>4, <2>7 DEF RouterTypes
<1>6. CASE ~(Migrate(r) \/ ConnectCommit(r) \/ PreferCommit(r) \/ RouterCommit(r) \/ RenameCommit(r))
  <2>1. UNCHANGED <<router, defaultRow, prefs>>
    BY <1>6 DEF AgentStart, ConnectStart, PreferStart, RouterStart, HandshakeStart, RenameStart, LookStart,
       AgentStep, ConnectRefresh, ConnectSlot, ConnectLegacy, ConnectLoad, PreferLoad, HandshakeSave,
       RenameLoad, LookEnd, agentRows
  <2> QED
    BY <1>0, <2>1 DEF RouterTypes
<1> QED
  BY <1>1, <1>2, <1>3, <1>4, <1>5, <1>6

\* Every step keeps the rows of routing.
LEMMA StepRouters ==
  ASSUME AllFormed, AgentInv, RouterInv, [Next]_vars
  PROVE  RouterInv'
<1>1. ASSUME NEW r \in Reqs, Agency(r) PROVE RouterInv'
  <2>1. AgentStart(r) \/ AgentStep(r)
    BY <1>1 DEF Agency
  <2>2. \A p \in Reqs : HoldsRouter(req'[p])
    BY <2>1, RoutersBegin, RoutersGoOn
  <2> QED
    BY <2>1, <2>2, RoutersKept DEF RouterInv, HoldsRouter
<1>2. ASSUME NEW r \in Reqs, Directory(r) \/ Keyring(r) \/ Contacts(r) \/ Shelf(r) \/ Dies(r)
      PROVE  RouterInv'
  <2>1. PICK Ops : Becomes(r, Ops) /\ Ops \cap AgentOps = {}
    BY <1>2, DirectoryFrame, KeyringFrame, ContactsFrame, ShelfFrame, DeathFrame
       DEF OrgOps, RegistryOps, ListingOps, DeviceOps, KeyOps, ContactOps, ShelfOps, AgentOps
  <2>2. UNCHANGED <<router, defaultRow, prefs>>
    BY <1>2 DEF Directory, Keyring, Contacts, Shelf, Dies, hubRows, agentRows
  <2>3. \A p \in Reqs : HoldsRouter(req'[p])
    BY <2>1, RoutersAside
  <2> QED
    BY <2>2, <2>3 DEF RouterInv, RouterTypes, HoldsRouter
<1>3. CASE UNCHANGED <<req, router, defaultRow, prefs>>
  BY <1>3 DEF RouterInv, RouterTypes, HoldsRouter
<1> QED
  BY <1>1, <1>2, <1>3, TimeFrame DEF Next, vars, hubRows, agentRows

\* There is no router at first, and no preference.
LEMMA InitRouterInv == Init => RouterInv
<1> SUFFICES ASSUME Init PROVE RouterInv
  OBVIOUS
<1>1. \A p \in Reqs : HoldsRouter(req[p])
  BY DEF Init, InitRequests, Idle, HoldsRouter
<1>2. InitAgents
  BY DEF Init
<1>3. PICK old \in {{}} \cup (IF scope.ops \cap AgentOps = {} THEN {} ELSE {OldAgents}) :
        /\ router = Absent /\ defaultRow = IF old = {} THEN Absent ELSE CHOOSE a \in old : TRUE
        /\ prefs = [s \in AgentSlugs |-> Absent]
  BY <1>2, Zenon DEF InitAgents
<1>4. old \subseteq AgentIds
  BY <1>3, AgentAssumption
<1>5. defaultRow \in AgentIds \cup {Absent}
  BY <1>3, <1>4
<1> QED
  BY <1>1, <1>3, <1>5 DEF RouterInv, RouterTypes, Prefs

(***************************************************************************)
(* The types of the hub's rows                                             *)
(***************************************************************************)

\* TypeOK of HubAccounts, but for which agents a rule of the router lists: the code
\* filters the lists of rules, and of a filtered sequence only its use is known here.
RowTypes ==
  /\ TypeOKRequests /\ TypeOKOrg /\ TypeOKRegistry /\ TypeOKSlots /\ TypeOKDevices
  /\ TypeOKKeys /\ TypeOKPairing /\ TypeOKShelf
  /\ router # Absent => RouterFits(router)

\* What the sections above keep, together.
RowsInv ==
  /\ AllFormed /\ TriesFormed /\ TypeOKRequests
  /\ OrgInv /\ RegistryInv /\ StubInv /\ AgentInv /\ RouterInv /\ DeviceInv /\ KeyInv
  /\ ContactInv /\ CountInv /\ ShelfInv /\ PaperInv

\* Together they say what the types say.
LEMMA RowsHaveTypes == RowsInv => RowTypes
<1> SUFFICES ASSUME RowsInv PROVE RowTypes
  OBVIOUS
<1>1. TypeOKRequests /\ TypeOKOrg /\ TypeOKKeys
  BY DEF RowsInv, OrgInv, Settled, KeyInv
<1>2. TypeOKRegistry
  BY DEF RowsInv, RegistryInv, RegistryTypes, StubInv, StubTypes, TypeOKRegistry
<1>3. TypeOKDevices
  BY DEF RowsInv, DeviceInv, DeviceTable
<1>4. TypeOKPairing
  BY DEF RowsInv, ContactInv, ContactTypes, CountInv, CountTypes, TypeOKPairing
<1>5. TypeOKShelf
  BY DEF RowsInv, ShelfInv, PaperInv, PaperTypes, TypeOKShelf
<1>6. TypeOKSlots /\ (router # Absent => RouterFits(router))
  <2>1. AgentTable /\ RouterTypes
    BY DEF RowsInv, AgentInv, RouterInv
  <2> QED
    BY <2>1 DEF AgentTable, RouterTypes, Prefs, TypeOKSlots
<1> QED
  BY <1>1, <1>2, <1>3, <1>4, <1>5, <1>6 DEF RowTypes

\* Every row of the hub is of its type, however many requests are in flight and
\* whichever of them lose an update: what a request writes back from memory was
\* read, or was given, as a row of that type; the counters of contacts stay under
\* their caps.
THEOREM RowsKeepTheirTypes == Spec => []RowTypes
<1>1. Init => RowsInv
  BY InitFormed, InitContacts, InitRequestTypes, InitOrgInv, InitRegistryInv, InitStubInv, InitAgentInv,
     InitRouterInv, InitDeviceInv, InitKeyInv, InitCountInv, InitShelfInv, InitPaperInv DEF RowsInv
<1>2. RowsInv /\ [Next]_vars => RowsInv'
  <2> SUFFICES ASSUME RowsInv, [Next]_vars PROVE RowsInv'
    OBVIOUS
  <2>1. /\ AllFormed /\ TriesFormed /\ TypeOKRequests
        /\ OrgInv /\ RegistryInv /\ StubInv /\ AgentInv /\ RouterInv /\ DeviceInv /\ KeyInv
        /\ ContactInv /\ CountInv /\ ShelfInv /\ PaperInv
    BY DEF RowsInv
  <2>2. AllFormed' /\ TriesFormed' /\ TypeOKRequests'
    BY <2>1, FormedKept, TriesKept, RequestsKept
  <2>3. OrgInv' /\ RegistryInv' /\ StubInv'
    BY <2>1, StepOrg, StepRegistry, StepStubs
  <2>4. AgentInv' /\ RouterInv'
    BY <2>1, StepAgents, StepRouters
  <2>5. DeviceInv' /\ KeyInv'
    BY <2>1, StepDevices, StepKeys
  <2>6. ContactInv' /\ CountInv'
    BY <2>1, StepContacts, StepCounts
  <2>7. ShelfInv' /\ PaperInv'
    BY <2>1, StepShelf, StepPapers
  <2> QED
    BY <2>2, <2>3, <2>4, <2>5, <2>6, <2>7 DEF RowsInv
<1> QED
  BY <1>1, <1>2, RowsHaveTypes, PTL DEF Spec
=============================================================================
