------------------------- MODULE HubAccountsProofs -------------------------
(***************************************************************************)
(* What holds at the hub for every number of requests in flight: of the    *)
(* connector keys, the devices, the external contacts, the agents and the  *)
(* storage of its users; and, for two requests, of wrong PINs.             *)
(*                                                                         *)
(* The components share the requests, so the first part says once what a   *)
(* step of any of them does to those: its own request goes on, ends or is  *)
(* a new one of that component, and in every other one nothing changes but *)
(* that more of what it holds is stale.  What a component relies on in its *)
(* own requests is then kept by the steps of all the others.               *)
(***************************************************************************)
EXTENDS HubAccounts, TLAPS, NaturalsInduction, WellFoundedInduction

-----------------------------------------------------------------------------
(* Requests *)

\* Requests are records, and only agents are migrated.
Formed(q) ==
  /\ DOMAIN q = {"op", "pc", "held", "stale", "mem"}
  /\ q.pc = "migrate" => q.op \in AgentOps

AllFormed == \A p \in Reqs : Formed(req[p])

\* In request p nothing changes, but that more of what it holds may be stale.
Aside(p) ==
  /\ req'[p].op = req[p].op /\ req'[p].pc = req[p].pc
  /\ req'[p].held = req[p].held /\ req'[p].mem = req[p].mem
  /\ req[p].stale \subseteq req'[p].stale

\* Request r goes on, or is answered; it becomes another one, of these
\* operations, or is answered.
Proceeds(r) == \E pc, held, mem, K : pc # "migrate" /\ Writes(r, On(req[r], pc, held, mem), K)
Ends(r)     == \E K : Writes(r, Idle, K)
Becomes(r, Ops) == \E q, K : Writes(r, q, K) /\ Formed(q) /\ q.op \in Ops \cup {"none"}

\* The operations of the components
OrgOps      == {"createOrg", "invite", "join", "slug", "profile", "seed", "me"}
RegistryOps == {"draft", "verify"} \cup ListingOps
DeviceOps  == {"device"}
KeyOps     == {"mint", "use", "revoke"}
ContactOps == {"submit", "approve", "deny", "unpair", "mail", "reply"}
ShelfOps   == {"upload", "paper", "vote", "receipt"}

\* What a write does to requests.
LEMMA Writing ==
  ASSUME AllFormed, NEW r \in Reqs, NEW q, NEW K, Writes(r, q, K), Formed(q)
  PROVE  /\ AllFormed'
         /\ req'[r] = q
         /\ \A p \in Reqs : p # r => Aside(p) /\ req'[p].stale = req[p].stale \cup (req[p].held \cap K)
<1>1. req'[r] = q
  BY DEF Writes
<1>2. ASSUME NEW p \in Reqs, p # r
      PROVE  Formed(req'[p]) /\ Aside(p) /\ req'[p].stale = req[p].stale \cup (req[p].held \cap K)
  <2>1. req'[p] = [req[p] EXCEPT !.stale = req[p].stale \cup (req[p].held \cap K)]
    BY <1>2 DEF Writes
  <2> QED
    BY <2>1 DEF AllFormed, Aside, Formed
<1> QED
  BY <1>1, <1>2 DEF AllFormed

\* The same, for a component that does not know more of the step.
LEMMA Bystanders ==
  ASSUME AllFormed, NEW r \in Reqs, NEW Ops, Becomes(r, Ops)
  PROVE  /\ AllFormed'
         /\ req'[r].op \in Ops \cup {"none"}
         /\ \A p \in Reqs : p # r => Aside(p)
BY Writing DEF Becomes

\* New requests, those that go on, and those that end.
LEMMA Beginning ==
  ASSUME NEW r \in Reqs, NEW Ops, NEW op \in Ops, NEW pc, NEW held, NEW mem, NEW K, pc # "migrate",
         Writes(r, Begin(op, pc, held, mem), K)
  PROVE  Becomes(r, Ops)
<1>1. Formed(Begin(op, pc, held, mem)) /\ Begin(op, pc, held, mem).op = op
  BY DEF Formed, Begin
<1> QED
  BY <1>1 DEF Becomes

\* The record of a request that begins.
LEMMA Begun ==
  ASSUME NEW op, NEW pc, NEW held, NEW mem, pc # "migrate"
  PROVE  /\ Formed(Begin(op, pc, held, mem))
         /\ Begin(op, pc, held, mem).op = op /\ Begin(op, pc, held, mem).pc = pc
         /\ Begin(op, pc, held, mem).held = held /\ Begin(op, pc, held, mem).stale = {}
         /\ Begin(op, pc, held, mem).mem = mem
BY DEF Formed, Begin

\* The record of a request that goes on.
LEMMA GoingOn ==
  ASSUME NEW q, Formed(q), NEW pc, NEW held, NEW mem, pc # "migrate" \/ q.op \in AgentOps
  PROVE  /\ Formed(On(q, pc, held, mem))
         /\ On(q, pc, held, mem).op = q.op /\ On(q, pc, held, mem).pc = pc
         /\ On(q, pc, held, mem).held = q.held \cup held /\ On(q, pc, held, mem).stale = q.stale
         /\ On(q, pc, held, mem).mem = mem
BY DEF Formed, On

\* A request that is answered becomes one of any set of operations.
LEMMA Ending ==
  ASSUME NEW r \in Reqs, NEW Ops, Ends(r)
  PROVE  Becomes(r, Ops)
<1>1. Formed(Idle) /\ Idle.op = "none"
  BY DEF Formed, Idle
<1> QED
  BY <1>1 DEF Becomes, Ends

\* A request that goes on keeps its operation.
LEMMA Proceeding ==
  ASSUME AllFormed, NEW r \in Reqs, NEW Ops, req[r].op \in Ops, Proceeds(r) \/ Ends(r)
  PROVE  Becomes(r, Ops)
BY Ending, GoingOn DEF AllFormed, Becomes, Proceeds

\* What the record of a request is after each kind of write.
LEMMA Opens ==
  ASSUME AllFormed, NEW r \in Reqs, NEW op, NEW pc, NEW held, NEW mem, NEW K, pc # "migrate",
         Writes(r, Begin(op, pc, held, mem), K)
  PROVE  /\ req'[r].op = op /\ req'[r].pc = pc /\ req'[r].held = held /\ req'[r].stale = {}
         /\ req'[r].mem = mem
         /\ \A p \in Reqs : p # r => Aside(p) /\ req'[p].stale = req[p].stale \cup (req[p].held \cap K)
BY Begun, Writing

\* A request that goes on: where it is, what it holds, what it remembers.
LEMMA Advances ==
  ASSUME AllFormed, NEW r \in Reqs, NEW pc, NEW held, NEW mem, NEW K,
         pc # "migrate" \/ req[r].op \in AgentOps, Writes(r, On(req[r], pc, held, mem), K)
  PROVE  /\ req'[r].op = req[r].op /\ req'[r].pc = pc /\ req'[r].held = req[r].held \cup held
         /\ req'[r].stale = req[r].stale /\ req'[r].mem = mem
         /\ \A p \in Reqs : p # r => Aside(p) /\ req'[p].stale = req[p].stale \cup (req[p].held \cap K)
<1>1. Formed(req[r])
  BY DEF AllFormed
<1> QED
  BY <1>1, GoingOn, Writing

\* The same, when what it has read does not matter.
LEMMA Moves ==
  ASSUME AllFormed, NEW r \in Reqs, NEW pc, NEW mem, pc # "migrate",
         \E held, K : Writes(r, On(req[r], pc, held, mem), K)
  PROVE  /\ req'[r].op = req[r].op /\ req'[r].pc = pc /\ req'[r].mem = mem
         /\ \A p \in Reqs : p # r => Aside(p)
<1>1. PICK held, K : Writes(r, On(req[r], pc, held, mem), K)
  OBVIOUS
<1> QED
  BY <1>1, Advances

\* A request goes on with what it has read.
LEMMA Reading ==
  ASSUME AllFormed, NEW r \in Reqs, NEW pc, NEW held, NEW mem, pc # "migrate",
         \E K : Writes(r, On(req[r], pc, held, mem), K)
  PROVE  req'[r].held = req[r].held \cup held /\ req'[r].stale = req[r].stale
<1>1. PICK K : Writes(r, On(req[r], pc, held, mem), K)
  OBVIOUS
<1>2. Formed(req[r])
  BY DEF AllFormed
<1>3. PICK q : q = On(req[r], pc, held, mem)
  OBVIOUS
<1>4. Formed(q) /\ q.held = req[r].held \cup held /\ q.stale = req[r].stale
  BY <1>2, <1>3, GoingOn
<1>5. req'[r] = q
  BY <1>1, <1>3, <1>4, Writing
<1> QED
  BY <1>4, <1>5

\* A request that is answered with a write.
LEMMA Closes ==
  ASSUME AllFormed, NEW r \in Reqs, NEW K, Writes(r, Idle, K)
  PROVE  /\ req'[r].op = "none" /\ req'[r].pc = "idle"
         /\ \A p \in Reqs : p # r => Aside(p) /\ req'[p].stale = req[p].stale \cup (req[p].held \cap K)
<1>1. Formed(Idle) /\ Idle.op = "none" /\ Idle.pc = "idle"
  BY DEF Formed, Idle
<1> QED
  BY <1>1, Writing

-----------------------------------------------------------------------------
(* Steps of each component *)

\* Starts of requests about accounts and organizations.
LEMMA OrgBegins ==
  ASSUME NEW r \in Reqs, OrgStart(r)
  PROVE  Becomes(r, OrgOps) /\ overwritten \subseteq overwritten'
BY Beginning DEF OrgStart, CreateOrgStart, InviteStart, JoinStart, SlugStart, ProfileStart, SeedStart,
   MeStart, Reads, OrgOps

\* Their later steps keep the operation; a profile edit that reads again holds
\* fresh rows.
LEMMA OrgProceeds ==
  ASSUME AllFormed, NEW r \in Reqs, OrgStep(r)
  PROVE  Becomes(r, {req[r].op})
<1>1. req[r].op \in {req[r].op}
  OBVIOUS
<1>2. CASE ProfileReads(r)
  <2>1. PICK held, mem :
          Reads(r, [On(req[r], "commit", held, mem) EXCEPT !.stale = {}]) \/ Ends(r)
    BY <1>2, Zenon DEF ProfileReads, Answer, Reads, Ends
  <2>2. CASE Reads(r, [On(req[r], "commit", held, mem) EXCEPT !.stale = {}])
    <3> DEFINE q == On(req[r], "commit", held, mem)
    <3>1. Formed(q) /\ q.op = req[r].op /\ q.pc = "commit"
      BY GoingOn DEF AllFormed
    <3> HIDE DEF q
    <3>2. Formed([q EXCEPT !.stale = {}]) /\ [q EXCEPT !.stale = {}].op = q.op
      BY <3>1 DEF Formed
    <3> QED
      BY <2>2, <3>1, <3>2 DEF Reads, Becomes, q
  <2> QED
    BY <1>1, <2>1, <2>2, Proceeding
<1>3. CASE ~ProfileReads(r)
  <2>1. Proceeds(r) \/ Ends(r)
    BY <1>3, Zenon DEF OrgStep, CreateOrgClaim, CreateOrgCommit, CreateOrgConflict, InviteIndex,
     JoinClaim, JoinCommit, JoinConflict, SlugMembers, SlugCommit, SlugConflict, ProfileOrg,
     ProfileCommit, ProfileConflict, UserSave, Reads, Answer, Leaves, Proceeds, Ends
  <2> QED
    BY <1>1, <2>1, Proceeding
<1> QED BY <1>2, <1>3

\* So they stay among the operations of accounts and organizations.
LEMMA OrgGoesOn ==
  ASSUME AllFormed, NEW r \in Reqs, OrgStep(r)
  PROVE  Becomes(r, OrgOps) /\ overwritten \subseteq overwritten'
<1>1. req[r].op \in OrgOps /\ overwritten \subseteq overwritten'
  BY DEF OrgStep, CreateOrgClaim, CreateOrgCommit, CreateOrgConflict, InviteIndex,
     JoinClaim, JoinCommit, JoinConflict, SlugMembers, SlugCommit, SlugConflict, ProfileOrg,
     ProfileReads, ProfileCommit, ProfileConflict, UserSave, At, Clobbers, OrgOps
<1> QED
  BY <1>1, OrgProceeds DEF Becomes

\* Starts of requests about listings.
LEMMA RegistryBegins ==
  ASSUME NEW r \in Reqs, RegistryStart(r)
  PROVE  Becomes(r, RegistryOps) /\ overwritten \subseteq overwritten'
BY Beginning DEF RegistryStart, DraftStart, ListingStart, VerifyStart, Reads, RegistryOps

\* Their later steps.
LEMMA RegistryGoesOn ==
  ASSUME AllFormed, NEW r \in Reqs, RegistryStep(r)
  PROVE  Becomes(r, RegistryOps) /\ overwritten \subseteq overwritten'
<1>1. req[r].op \in RegistryOps /\ overwritten \subseteq overwritten'
  BY DEF RegistryStep, DraftCommit, DraftConflict, ListingAgent, ListingCommit, VerifySlugs,
     VerifyCommit, At, Clobbers, RegistryOps
<1>2. Proceeds(r) \/ Ends(r)
  BY Zenon DEF RegistryStep, DraftCommit, DraftConflict, ListingAgent, ListingCommit, VerifySlugs,
     VerifyCommit, Reads, Answer, Leaves, Proceeds, Ends
<1> QED
  BY <1>1, <1>2, Proceeding

\* Starts of registrations of a device.
LEMMA DeviceBegins ==
  ASSUME NEW r \in Reqs, DeviceStart(r)
  PROVE  Becomes(r, DeviceOps) /\ overwritten \subseteq overwritten'
BY Beginning DEF DeviceStart, RegisterStart, Reads, DeviceOps

\* Their later steps.
LEMMA DeviceGoesOn ==
  ASSUME AllFormed, NEW r \in Reqs, DeviceStep(r)
  PROVE  Becomes(r, DeviceOps) /\ overwritten \subseteq overwritten'
<1>1. req[r].op \in DeviceOps /\ overwritten \subseteq overwritten'
  BY DEF DeviceStep, PurgeOne, Reindex, RegisterIndex, RegisterLegacy, RegisterCommit,
     RegisterConflict, RegisterUpdate, At, Clobbers, DeviceOps
<1>2. Proceeds(r) \/ Ends(r)
  BY Zenon DEF DeviceStep, PurgeOne, Reindex, RegisterIndex, RegisterLegacy, RegisterCommit,
     RegisterConflict, RegisterUpdate, ReturnOrUpdate, Reads, Answer, Leaves, Proceeds, Ends
<1> QED
  BY <1>1, <1>2, Proceeding

\* Starts of requests about connector keys.
LEMMA KeyBegins ==
  ASSUME NEW r \in Reqs, KeyStart(r)
  PROVE  Becomes(r, KeyOps) /\ overwritten \subseteq overwritten'
BY Beginning DEF KeyStart, MintStart, UseStart, RevokeStart, Reads, KeyOps

\* Their later steps, which all answer.
LEMMA KeyGoesOn ==
  ASSUME AllFormed, NEW r \in Reqs, KeyStep(r)
  PROVE  Becomes(r, KeyOps) /\ overwritten \subseteq overwritten'
<1>1. req[r].op \in KeyOps /\ overwritten \subseteq overwritten'
  BY DEF KeyStep, MintCommit, UseTouch, RevokeCommit, At, Clobbers, KeyOps
<1>2. Ends(r)
  BY Zenon DEF KeyStep, MintCommit, UseTouch, RevokeCommit, Leaves, Ends
<1> QED
  BY <1>1, <1>2, Proceeding

\* Starts of requests about contacts; a PIN is issued in one step.
LEMMA ContactsBegin ==
  ASSUME AllFormed, NEW r \in Reqs, PairingStart(r)
  PROVE  Becomes(r, ContactOps) /\ overwritten \subseteq overwritten'
<1>1. CASE \E t \in Targets : PinIssue(r, t)
  <2>1. Ends(r) /\ overwritten \subseteq overwritten'
    BY <1>1, Zenon DEF PinIssue, Reads, Ends
  <2> QED
    BY <2>1, Ending
<1>2. CASE ~\E t \in Targets : PinIssue(r, t)
  BY <1>2, Beginning DEF PairingStart, SubmitStart, ApproveStart, DenyStart, UnpairStart, MailStart,
     ReplyStart, Reads, ContactOps
<1> QED
  BY <1>1, <1>2

\* Their later steps.
LEMMA ContactsGoOn ==
  ASSUME AllFormed, NEW r \in Reqs, PairingStep(r)
  PROVE  Becomes(r, ContactOps) /\ overwritten \subseteq overwritten'
<1>1. req[r].op \in ContactOps /\ overwritten \subseteq overwritten'
  BY DEF PairingStep, SubmitCount, SubmitCountOf, SubmitPin, SubmitWrong, SubmitRight,
     SubmitFind, SubmitCommit, ApproveLink, ApproveCommit, DenyBlock, DenyResolve, DenyRecord,
     DenyFlag, DenyRaise, UnpairScan, UnpairClose, UnpairCommit, MailCounted, MailCommit, MailOps,
     At, Clobbers, ContactOps
<1>2. Proceeds(r) \/ Ends(r)
  BY Zenon DEF PairingStep, SubmitCount, SubmitCountOf, SubmitPin, SubmitWrong, SubmitRight,
     SubmitFind, SubmitCommit, ApproveLink, ApproveCommit, DenyBlock, DenyResolve, DenyRecord,
     DenyFlag, DenyRaise, UnpairScan, UnpairClose, UnpairCommit, MailCounted, MailCommit,
     Reads, Answer, Leaves, Proceeds, Ends
<1> QED
  BY <1>1, <1>2, Proceeding

\* Starts of requests about what members store; a paper is made in one step.
LEMMA ShelfBegins ==
  ASSUME AllFormed, NEW r \in Reqs, ShelfStart(r)
  PROVE  Becomes(r, ShelfOps) /\ overwritten \subseteq overwritten'
<1>1. CASE PaperNew(r)
  <2>1. Ends(r) /\ overwritten \subseteq overwritten'
    BY <1>1, Zenon DEF PaperNew, Reads, Ends
  <2> QED
    BY <2>1, Ending
<1>2. CASE ~PaperNew(r)
  BY <1>2, Beginning DEF ShelfStart, UploadStart, PaperStart, VoteStart, ReceiptStart, Reads, ShelfOps
<1> QED
  BY <1>1, <1>2

\* Their later steps, which all answer.
LEMMA ShelfGoesOn ==
  ASSUME AllFormed, NEW r \in Reqs, ShelfStep(r)
  PROVE  Becomes(r, ShelfOps) /\ overwritten \subseteq overwritten'
<1>1. req[r].op \in ShelfOps /\ overwritten \subseteq overwritten'
  BY DEF ShelfStep, UploadCommit, UploadConflict, PaperUpdate, PaperDelete, VoteSave, ReceiptSave,
     At, Clobbers, ShelfOps
<1>2. Ends(r)
  BY Zenon DEF ShelfStep, UploadCommit, UploadConflict, PaperUpdate, PaperDelete, VoteSave,
     ReceiptSave, Answer, Reads, Leaves, Ends
<1> QED
  BY <1>1, <1>2, Proceeding

\* A request whose first step loads the router.
LEMMA LoadingFirst ==
  ASSUME NEW r \in Reqs, NEW op \in AgentOps, NEW m, LoadsRouter(r, Begin(op, "load", {}, Absent), m)
  PROVE  Becomes(r, AgentOps)
<1> DEFINE q == Begin(op, "load", {}, Absent)
<1>1. Formed(q) /\ q.op = op
  BY DEF Formed, Begin
<1> HIDE DEF q
<1>2. PICK pc, held, mem : Reads(r, On(q, pc, held, mem))
  BY Zenon DEF LoadsRouter, q
<1>3. Formed(On(q, pc, held, mem)) /\ On(q, pc, held, mem).op = op
  BY <1>1, GoingOn
<1> QED
  BY <1>2, <1>3 DEF Reads, Becomes

\* Starts of requests about agents.
LEMMA AgentsBegin ==
  ASSUME AllFormed, NEW r \in Reqs, AgentStart(r)
  PROVE  Becomes(r, AgentOps) /\ overwritten \subseteq overwritten'
<1>1. CASE \E s \in AgentSlugs, t \in Transports : ConnectStart(r, s, t) \/ PreferStart(r, s, t)
  BY <1>1, Beginning DEF ConnectStart, PreferStart, Reads, AgentOps
<1>2. CASE \E a \in AgentIds : HandshakeStart(r, a) \/ \E s \in AgentSlugs : RenameStart(r, a, s)
  BY <1>2, Beginning DEF HandshakeStart, RenameStart, Reads, AgentOps
<1>3. CASE \/ \E d \in AgentIds \cup {Absent}, u \in ClientRules \cup {Absent} : RouterStart(r, d, u)
           \/ LookStart(r)
  BY <1>3, LoadingFirst DEF RouterStart, LookStart, AgentOps
<1> QED
  BY <1>1, <1>2, <1>3 DEF AgentStart

\* Their later steps; only theirs go through a migration of the router.
LEMMA AgentsGoOn ==
  ASSUME AllFormed, NEW r \in Reqs, AgentStep(r)
  PROVE  Becomes(r, AgentOps) /\ overwritten \subseteq overwritten'
<1>1. CASE Migrate(r)
  <2>1. req[r].op \in AgentOps /\ overwritten \subseteq overwritten'
    BY <1>1 DEF Migrate, Clobbers, AllFormed, Formed
  <2>2. PICK q, K : /\ Writes(r, q, K)
                    /\ q = [req[r] EXCEPT !.pc = "commit", !.stale = req[r].stale \ {<<"router">>}]
    BY <1>1 DEF Migrate
  <2>3. Formed(q) /\ q.op = req[r].op
    BY <2>2 DEF AllFormed, Formed
  <2> QED
    BY <2>1, <2>2, <2>3 DEF Becomes
<1>2. CASE ~Migrate(r)
  <2>1. req[r].op \in AgentOps /\ overwritten \subseteq overwritten'
    BY <1>2 DEF AgentStep, ConnectRefresh, ConnectSlot, ConnectLegacy, ConnectLoad, ConnectCommit,
       PreferLoad, PreferCommit, RouterCommit, HandshakeSave, RenameLoad, RenameCommit, LookEnd,
       At, Clobbers, AgentOps
  <2>2. \/ \E pc, held, mem : Reads(r, On(req[r], pc, held, mem))
        \/ Proceeds(r) \/ Ends(r)
    BY <1>2, Zenon DEF AgentStep, ConnectRefresh, ConnectSlot, ConnectLegacy, ConnectLoad,
       ConnectCommit, PreferLoad, PreferCommit, RouterCommit, HandshakeSave, RenameLoad,
       RenameCommit, LookEnd, LoadsRouter, Answer, Reads, Leaves, Proceeds, Ends
  <2> QED
    BY <2>1, <2>2, Proceeding, GoingOn DEF AllFormed, Reads, Becomes
<1> QED
  BY <1>1, <1>2

\* A step of one component makes requests of that component only.
LEMMA DirectoryFrame ==
  ASSUME AllFormed, NEW r \in Reqs, Directory(r)
  PROVE  /\ Becomes(r, OrgOps) \/ Becomes(r, RegistryOps)
         /\ overwritten \subseteq overwritten'
BY OrgBegins, OrgGoesOn, RegistryBegins, RegistryGoesOn DEF Directory

\* The same for the agents,
LEMMA AgencyFrame ==
  ASSUME AllFormed, NEW r \in Reqs, Agency(r)
  PROVE  Becomes(r, AgentOps) /\ overwritten \subseteq overwritten'
BY AgentsBegin, AgentsGoOn DEF Agency

\* the devices and the keys,
LEMMA KeyringFrame ==
  ASSUME AllFormed, NEW r \in Reqs, Keyring(r)
  PROVE  /\ \/ Becomes(r, DeviceOps) /\ UNCHANGED keyRows
            \/ Becomes(r, KeyOps) /\ UNCHANGED deviceRows
         /\ overwritten \subseteq overwritten'
BY DeviceBegins, DeviceGoesOn, KeyBegins, KeyGoesOn DEF Keyring

\* the contacts,
LEMMA ContactsFrame ==
  ASSUME AllFormed, NEW r \in Reqs, Contacts(r)
  PROVE  Becomes(r, ContactOps) /\ overwritten \subseteq overwritten'
BY ContactsBegin, ContactsGoOn DEF Contacts

\* what members store,
LEMMA ShelfFrame ==
  ASSUME AllFormed, NEW r \in Reqs, Shelf(r)
  PROVE  Becomes(r, ShelfOps) /\ overwritten \subseteq overwritten'
BY ShelfBegins, ShelfGoesOn DEF Shelf

\* a process that dies, whose requests are gone and write nothing,
LEMMA DeathFrame ==
  ASSUME NEW r \in Reqs, Dies(r)
  PROVE  Becomes(r, {}) /\ overwritten' = overwritten /\ UNCHANGED hubRows
<1>1. Ends(r)
  BY Zenon DEF Dies, Crash, Answer, Reads, Ends
<1> QED
  BY <1>1, Ending DEF Dies, Crash

\* and time, which passes for contacts only.
LEMMA TimeFrame ==
  ASSUME Time
  PROVE  UNCHANGED <<req, overwritten, directoryRows, agentRows, deviceRows, keyRows, shelfRows>>
BY DEF Time, PairingTime, PinExpires, LockEnds

\* Requests stay well formed.
LEMMA FormedKept ==
  ASSUME AllFormed, [Next]_vars
  PROVE  AllFormed'
<1>1. ASSUME NEW r \in Reqs, NEW Ops, Becomes(r, Ops) PROVE AllFormed'
  BY <1>1, Bystanders
<1>2. CASE UNCHANGED req
  BY <1>2 DEF AllFormed
<1> QED
  BY <1>1, <1>2, DirectoryFrame, AgencyFrame, KeyringFrame, ContactsFrame, ShelfFrame, DeathFrame,
     TimeFrame DEF Next, vars

\* No request is in flight at the start.
LEMMA InitFormed == Init => AllFormed
BY DEF Init, InitRequests, AllFormed, Formed, Idle

-----------------------------------------------------------------------------
(* Connector keys *)

\* A revoked key was minted once, so that it is never minted again, and has
\* lost the index row of its token, which only minting writes.
HoldsKey(q) ==
  /\ q.op = "use" => q.mem.key \in KeyIds /\ q.mem.row = "active"
  /\ q.op = "revoke" => q.mem.key \in KeyIds

KeyInv ==
  /\ TypeOKKeys
  /\ revoked \cap hashRow = {}
  /\ \A k \in revoked : keyRow[k] # Absent
  /\ \A p \in Reqs : HoldsKey(req[p])

\* Requests of other components, and those that are answered, keep KeyInv.
LEMMA KeysAside ==
  ASSUME AllFormed, KeyInv, NEW r \in Reqs, NEW Ops, Becomes(r, Ops), Ops \cap KeyOps = {},
         UNCHANGED keyRows
  PROVE  KeyInv'
BY Bystanders DEF KeyInv, TypeOKKeys, keyRows, HoldsKey, Aside, KeyOps

\* mintConnectorKey, a use of a token, and revokeConnectorKey begin.
LEMMA KeysBegin ==
  ASSUME AllFormed, KeyInv, NEW r \in Reqs, KeyStart(r)
  PROVE  KeyInv'
<1>1. UNCHANGED keyRows
  BY DEF KeyStart, MintStart, UseStart, RevokeStart
<1>2. HoldsKey(req'[r]) /\ \A p \in Reqs : p # r => Aside(p)
  <2>1. CASE MintStart(r)
    BY <2>1, Begun, Writing DEF MintStart, Reads, HoldsKey
  <2>2. ASSUME NEW k \in KeyIds, UseStart(r, k)
        PROVE  HoldsKey(req'[r]) /\ \A p \in Reqs : p # r => Aside(p)
    BY <2>2, Begun, Writing DEF UseStart, Authenticates, Reads, HoldsKey
  <2>3. ASSUME NEW k \in KeyIds, RevokeStart(r, k)
        PROVE  HoldsKey(req'[r]) /\ \A p \in Reqs : p # r => Aside(p)
    BY <2>3, Begun, Writing DEF RevokeStart, Reads, HoldsKey
  <2> QED
    BY <2>1, <2>2, <2>3 DEF KeyStart
<1> QED
  BY <1>1, <1>2 DEF KeyInv, TypeOKKeys, keyRows, HoldsKey, Aside

\* They commit: a use that was in flight writes back an active row, but no index row.
LEMMA KeysGoOn ==
  ASSUME AllFormed, KeyInv, NEW r \in Reqs, KeyStep(r)
  PROVE  KeyInv'
<1>1. \A p \in Reqs : HoldsKey(req'[p])
  <2>1. Ends(r)
    BY Zenon DEF KeyStep, MintCommit, UseTouch, RevokeCommit, Leaves, Ends
  <2>2. req'[r].op = "none" /\ \A p \in Reqs : p # r => Aside(p)
    <3>1. Becomes(r, {})
      BY <2>1, Ending
    <3> QED
      BY <3>1, Bystanders
  <2> QED
    BY <2>2 DEF KeyInv, HoldsKey, Aside
<1>2. CASE MintCommit(r)
  BY <1>1, <1>2 DEF MintCommit, KeyInv, TypeOKKeys
<1>3. CASE UseTouch(r)
  BY <1>1, <1>3, KeyAssumption DEF UseTouch, At, HoldsKey, KeyInv, TypeOKKeys
<1>4. CASE RevokeCommit(r)
  BY <1>1, <1>4, KeyAssumption DEF RevokeCommit, At, HoldsKey, KeyInv, TypeOKKeys
<1> QED
  BY <1>2, <1>3, <1>4 DEF KeyStep

\* Every step keeps KeyInv.
LEMMA StepKeys ==
  ASSUME AllFormed, KeyInv, [Next]_vars
  PROVE  KeyInv'
<1>1. ASSUME NEW r \in Reqs, Keyring(r) PROVE KeyInv'
  BY <1>1, KeysBegin, KeysGoOn, DeviceBegins, DeviceGoesOn, KeysAside
     DEF Keyring, DeviceOps, KeyOps
<1>2. ASSUME NEW r \in Reqs, Directory(r) \/ Agency(r) \/ Contacts(r) \/ Shelf(r) \/ Dies(r)
      PROVE  KeyInv'
  <2>1. PICK Ops : Becomes(r, Ops) /\ Ops \cap KeyOps = {}
    BY <1>2, DirectoryFrame, AgencyFrame, ContactsFrame, ShelfFrame, DeathFrame
       DEF OrgOps, RegistryOps, ListingOps, AgentOps, ContactOps, ShelfOps, KeyOps
  <2>2. UNCHANGED keyRows
    BY <1>2 DEF Directory, Agency, Contacts, Shelf, Dies, hubRows
  <2> QED
    BY <2>1, <2>2, KeysAside
<1>3. CASE UNCHANGED <<req, keyRows>>
  BY <1>3 DEF KeyInv, TypeOKKeys, keyRows, HoldsKey
<1> QED
  BY <1>1, <1>2, <1>3, TimeFrame DEF Next, vars, hubRows

\* KeyInv holds at the start.
LEMMA InitKeyInv == Init => KeyInv
BY DEF Init, InitRequests, InitKeys, KeyInv, TypeOKKeys, HoldsKey, Idle

\* The token of a revoked key never authenticates again, although a use of the
\* key that was in flight writes its row back as it was: lookup goes by the
\* index row, and revokeMcpConnector deletes that one.
THEOREM RevokedKeysStayDead == Spec => []RevokedKeyIsDead
<1>1. AllFormed /\ KeyInv /\ [Next]_vars => (AllFormed /\ KeyInv)'
  BY FormedKept, StepKeys
<1>2. KeyInv => RevokedKeyIsDead
  BY DEF KeyInv, RevokedKeyIsDead, Authenticates
<1> QED
  BY <1>1, <1>2, InitFormed, InitKeyInv, PTL DEF Spec


-----------------------------------------------------------------------------
(* Devices *)

\* What is known of the rows: device 1 was there first and stays.
DeviceTable ==
  /\ TypeOKDevices
  /\ devices[1] # Absent
  /\ \A d \in OldIds : devices[d] # Absent => devices[d].key = OldKey
  /\ NewKeyHasOneDevice

\* The row a request will write is one for this device.
RightKey(d, row) ==
  /\ row \in DeviceRow
  /\ d \in OldIds => row.key = OldKey
  /\ d \notin OldIds => devices[d] # Absent /\ devices[d].key = row.key

\* A request purges no device but an old one with an older twin, and a request
\* that is about to add a device will find the index changed if there is one
\* with its key.
HoldsDevice(q) ==
  q.op = "device" =>
    /\ q.pc \in {"purge", "legacy", "commit", "update"}
    /\ q.mem.key \in PubKeys
    /\ q.pc # "update" =>
         /\ DOMAIN q.mem = {"key", "platform", "keep", "drop"}
         /\ q.mem.platform \in Platforms
         /\ q.mem.keep \subseteq PubKeys \X DeviceIds /\ q.mem.drop \subseteq {2}
    /\ q.pc = "commit" => With(q.mem.key) = {} \/ ~IndexUnchanged(q)
    /\ q.pc = "update" => q.mem.device \in DeviceIds /\ RightKey(q.mem.device, q.mem.row)

DeviceInv == DeviceTable /\ \A p \in Reqs : HoldsDevice(req[p])

\* The devices of before the index are device ids.
LEMMA OldDevices == 1 \in DeviceIds /\ 2 \in DeviceIds /\ DeviceIds \subseteq Nat
BY DeviceAssumption DEF DeviceIds

\* The device that is kept for a key is the only new one, or device 1.
LEMMA EarliestDevice ==
  ASSUME DeviceTable, NEW k \in PubKeys, With(k) # {}
  PROVE  Earliest(With(k)) \in With(k) /\ With(k) \ {Earliest(With(k))} \subseteq {2}
<1>1. CASE k = OldKey
  <2>1. 1 \in With(k) /\ With(k) \subseteq {1, 2}
    BY <1>1, OldDevices DEF With, DeviceTable, NewKeyHasOneDevice, OldIds
  <2>2. \A e \in With(k) : 1 <= e
    BY <2>1
  <2>3. Earliest(With(k)) \in With(k) /\ \A e \in With(k) : Earliest(With(k)) <= e
    BY <2>1, <2>2 DEF Earliest
  <2> QED
    BY <2>1, <2>3
<1>2. CASE k # OldKey
  <2>1. PICK d : d \in With(k)
    OBVIOUS
  <2>2. With(k) = {d} /\ d \in Nat
    <3>1. d \in Nat /\ d \in DeviceIds /\ devices[d] # Absent /\ devices[d].key = k
      BY <2>1, OldDevices DEF With
    <3>2. ASSUME NEW e \in With(k), e # d PROVE FALSE
      <4>1. e \in DeviceIds /\ devices[e] # Absent /\ devices[e].key = devices[d].key
        BY <3>1, <3>2 DEF With
      <4>2. {d, e} \subseteq OldIds
        BY <3>1, <3>2, <4>1 DEF DeviceTable, NewKeyHasOneDevice
      <4> QED
        BY <1>2, <3>1, <4>2 DEF DeviceTable, OldIds
    <3> QED
      BY <2>1, <3>1, <3>2
  <2>3. Earliest(With(k)) \in With(k) /\ \A e \in With(k) : Earliest(With(k)) <= e
    BY <2>2 DEF Earliest
  <2> QED
    BY <2>2, <2>3
<1> QED
  BY <1>1, <1>2

\* When what a step does to the rows leaves others their right to go on.
LEMMA DevicesKept ==
  ASSUME DeviceInv, NEW r \in Reqs, DeviceTable', HoldsDevice(req[r])',
         \A p \in Reqs : p # r => Aside(p),
         \A k \in PubKeys : pubkeyRow[k] # Absent => pubkeyRow'[k] # Absent,
         \A d \in DeviceIds \ OldIds :
           devices[d] # Absent => devices'[d] # Absent /\ devices'[d].key = devices[d].key,
         \A p \in Reqs, k \in PubKeys : p # r /\ With(k) = {} =>
           \/ With(k)' = {}
           \/ pubkeyRow'[k] # Absent /\ (<<"index", k>> \in req[p].held => req'[p].stale # {})
  PROVE  DeviceInv'
<1> SUFFICES ASSUME NEW p \in Reqs, p # r PROVE HoldsDevice(req[p])'
  BY DEF DeviceInv
<1>1. HoldsDevice(req[p]) /\ Aside(p)
  BY DEF DeviceInv
<1>2. ASSUME req[p].op = "device", req[p].pc = "commit"
      PROVE  With(req[p].mem.key)' = {} \/ ~IndexUnchanged(req[p])'
  BY <1>1, <1>2 DEF HoldsDevice, IndexUnchanged, Aside
<1>3. ASSUME req[p].op = "device", req[p].pc = "update"
      PROVE  RightKey(req[p].mem.device, req[p].mem.row)'
  BY <1>1, <1>3 DEF HoldsDevice, RightKey, Aside
<1> QED
  BY <1>1, <1>2, <1>3 DEF HoldsDevice, Aside

\* Requests of other components keep DeviceInv.
LEMMA DevicesAside ==
  ASSUME AllFormed, DeviceInv, NEW r \in Reqs, NEW Ops, Becomes(r, Ops), Ops \cap DeviceOps = {},
         UNCHANGED deviceRows
  PROVE  DeviceInv'
<1>1. HoldsDevice(req[r])' /\ \A p \in Reqs : p # r => Aside(p)
  BY Bystanders DEF HoldsDevice, DeviceOps
<1>2. DeviceTable' /\ \A k : With(k)' = With(k)
  BY DEF DeviceInv, DeviceTable, TypeOKDevices, NewKeyHasOneDevice, deviceRows, With
<1> QED
  BY <1>1, <1>2, DevicesKept DEF deviceRows

\* A step that leaves the devices alone, and removes no index entry.
LEMMA DevicesStay ==
  ASSUME DeviceInv, NEW r \in Reqs, UNCHANGED devices, HoldsDevice(req[r])',
         \A p \in Reqs : p # r => Aside(p),
         pubkeyRow' \in [PubKeys -> DeviceIds \cup {Absent}],
         \A k \in PubKeys : pubkeyRow[k] # Absent => pubkeyRow'[k] # Absent
  PROVE  DeviceInv'
<1>1. DeviceTable' /\ \A k : With(k)' = With(k)
  BY DEF DeviceInv, DeviceTable, TypeOKDevices, NewKeyHasOneDevice, With
<1> QED
  BY <1>1, DevicesKept

\* registerDevice begins: it reads the index row of its key.
LEMMA DevicesBegin ==
  ASSUME AllFormed, DeviceInv, NEW r \in Reqs, DeviceStart(r)
  PROVE  DeviceInv'
<1>1. PICK k \in PubKeys, pf \in Platforms : RegisterStart(r, k, pf)
  BY DEF DeviceStart
<1> DEFINE keep == {<<j, Earliest(With(j))>> : j \in Taken}
           drop == UNION {With(j) \ {Earliest(With(j))} : j \in Taken}
           mem  == [key |-> k, platform |-> pf, keep |-> keep, drop |-> drop]
<1>2. \A j \in Taken : /\ j \in PubKeys /\ Earliest(With(j)) \in DeviceIds
                       /\ With(j) \ {Earliest(With(j))} \subseteq {2}
  BY EarliestDevice DEF Taken, With, DeviceInv
<1>3. keep \subseteq PubKeys \X DeviceIds /\ drop \subseteq {2}
  BY <1>2
<1>4. Writes(r, Begin("device", "purge", {}, mem), {})
  BY <1>1 DEF RegisterStart, Reads
<1>5. DOMAIN mem = {"key", "platform", "keep", "drop"} /\ mem.key = k /\ mem.platform = pf
      /\ mem.keep = keep /\ mem.drop = drop
  OBVIOUS
<1> HIDE DEF mem, keep, drop
<1>6. /\ req'[r].pc = "purge" /\ req'[r].mem = mem
      /\ \A p \in Reqs : p # r => Aside(p)
  BY <1>4, Opens
<1>7. HoldsDevice(req[r])'
  BY <1>3, <1>5, <1>6 DEF HoldsDevice
<1> QED
  BY <1>1, <1>6, <1>7, DevicesStay DEF RegisterStart, deviceRows, DeviceInv, DeviceTable, TypeOKDevices

\* An old device with the same key is deleted.
LEMMA DevicesPurge ==
  ASSUME AllFormed, DeviceInv, NEW r \in Reqs, PurgeOne(r)
  PROVE  DeviceInv'
<1>1. PICK d \in req[r].mem.drop :
        /\ devices' = [devices EXCEPT ![d] = Absent]
        /\ Writes(r, On(req[r], "purge", {}, [req[r].mem EXCEPT !.drop = @ \ {d}]), {<<"device", d>>})
  BY DEF PurgeOne
<1> DEFINE mem == [req[r].mem EXCEPT !.drop = @ \ {d}]
<1>2. HoldsDevice(req[r]) /\ req[r].op = "device" /\ req[r].pc = "purge"
  BY DEF DeviceInv, PurgeOne, At
<1>3. d = 2 /\ d \in OldIds /\ d \in DeviceIds
  BY <1>2, OldDevices DEF HoldsDevice, OldIds
<1>4. /\ DOMAIN mem = {"key", "platform", "keep", "drop"}
      /\ mem.key = req[r].mem.key /\ mem.platform = req[r].mem.platform
      /\ mem.keep = req[r].mem.keep /\ mem.drop \subseteq {2}
  BY <1>2 DEF HoldsDevice
<1>0. \E held, K : Writes(r, On(req[r], "purge", held, mem), K)
  BY <1>1, Zenon
<1> HIDE DEF mem
<1>5. /\ req'[r].op = req[r].op /\ req'[r].pc = "purge" /\ req'[r].mem = mem
      /\ \A p \in Reqs : p # r => Aside(p)
  BY <1>0, Moves
<1>6. HoldsDevice(req[r])'
  BY <1>2, <1>4, <1>5 DEF HoldsDevice
<1>7. /\ DeviceTable'
      /\ \A e \in DeviceIds \ OldIds : devices'[e] = devices[e]
      /\ \A k : With(k) = {} => With(k)' = {}
  <2>1. DeviceTable'
    <3>1. TypeOKDevices' /\ devices'[d] = Absent
      BY <1>1, <1>3 DEF DeviceInv, DeviceTable, TypeOKDevices, PurgeOne
    <3>2. \A e \in DeviceIds : e # d => devices'[e] = devices[e]
      BY <1>1, <1>3 DEF DeviceInv, DeviceTable, TypeOKDevices
    <3> QED
      BY <1>3, <3>1, <3>2, OldDevices DEF DeviceInv, DeviceTable, NewKeyHasOneDevice, OldIds
  <2>2. \A e \in DeviceIds : e # d => devices'[e] = devices[e]
    BY <1>1, <1>3 DEF DeviceInv, DeviceTable, TypeOKDevices
  <2>3. devices'[d] = Absent
    BY <1>1, <1>3 DEF DeviceInv, DeviceTable, TypeOKDevices
  <2>4. \A k : With(k) = {} => With(k)' = {}
    BY <2>2, <2>3 DEF With
  <2> QED
    BY <1>3, <2>1, <2>2, <2>4
<1> QED
  BY <1>5, <1>6, <1>7, DevicesKept DEF PurgeOne

\* The one that remains gets the index row.
LEMMA DevicesReindex ==
  ASSUME AllFormed, DeviceInv, NEW r \in Reqs, Reindex(r)
  PROVE  DeviceInv'
<1>1. PICK e \in req[r].mem.keep :
        /\ pubkeyRow' = [pubkeyRow EXCEPT ![e[1]] = e[2]]
        /\ Writes(r, On(req[r], "purge", {}, [req[r].mem EXCEPT !.keep = @ \ {e}]), {<<"index", e[1]>>})
  BY DEF Reindex
<1> DEFINE mem == [req[r].mem EXCEPT !.keep = @ \ {e}]
<1>2. HoldsDevice(req[r]) /\ req[r].op = "device" /\ req[r].pc = "purge"
  BY DEF DeviceInv, Reindex, At
<1>3. e[1] \in PubKeys /\ e[2] \in DeviceIds
  BY <1>2 DEF HoldsDevice
<1>4. /\ DOMAIN mem = {"key", "platform", "keep", "drop"}
      /\ mem.key = req[r].mem.key /\ mem.platform = req[r].mem.platform
      /\ mem.keep \subseteq PubKeys \X DeviceIds /\ mem.drop = req[r].mem.drop
  BY <1>2 DEF HoldsDevice
<1>0. \E held, K : Writes(r, On(req[r], "purge", held, mem), K)
  BY <1>1, Zenon
<1> HIDE DEF mem
<1>5. /\ req'[r].op = req[r].op /\ req'[r].pc = "purge" /\ req'[r].mem = mem
      /\ \A p \in Reqs : p # r => Aside(p)
  BY <1>0, Moves
<1>6. HoldsDevice(req[r])'
  BY <1>2, <1>4, <1>5 DEF HoldsDevice
<1>7. /\ pubkeyRow' \in [PubKeys -> DeviceIds \cup {Absent}]
      /\ \A k \in PubKeys : pubkeyRow[k] # Absent => pubkeyRow'[k] # Absent
  BY <1>1, <1>3, DeviceAssumption DEF DeviceInv, DeviceTable, TypeOKDevices
<1> QED
  BY <1>5, <1>6, <1>7, DevicesStay DEF Reindex

\* A request that will write back a row it has read holds one for this device.
LEMMA Updating ==
  ASSUME AllFormed, DeviceInv, NEW r \in Reqs, NEW d \in DeviceIds, devices[d] # Absent,
         NEW pf \in Platforms, NEW k \in PubKeys, NEW held, NEW K, req[r].op = "device",
         UNCHANGED devices,
         Writes(r, On(req[r], "update", held,
                     [key |-> k, device |-> d, row |-> [devices[d] EXCEPT !.platform = pf]]), K)
  PROVE  HoldsDevice(req[r])' /\ \A p \in Reqs : p # r => Aside(p)
<1>0. PICK row : row = [devices[d] EXCEPT !.platform = pf]
  OBVIOUS
<1> DEFINE mem == [key |-> k, device |-> d, row |-> row]
<1>1. devices[d] \in DeviceRow
  BY DEF DeviceInv, DeviceTable, TypeOKDevices
<1>2. row \in DeviceRow /\ row.key = devices[d].key
  BY <1>0, <1>1 DEF DeviceRow
<1>3. RightKey(d, row)'
  BY <1>2 DEF RightKey, DeviceInv, DeviceTable
<1>4. mem.key = k /\ mem.device = d /\ mem.row = row
  OBVIOUS
<1>7. \E h, L : Writes(r, On(req[r], "update", h, mem), L)
  BY <1>0, Zenon
<1> HIDE DEF mem
<1>5. /\ req'[r].op = "device" /\ req'[r].pc = "update" /\ req'[r].mem = mem
      /\ \A p \in Reqs : p # r => Aside(p)
  BY <1>7, Moves
<1>6. req'[r].mem.key \in PubKeys /\ req'[r].mem.device = d /\ req'[r].mem.row = row
  BY <1>4, <1>5
<1> QED
  BY <1>3, <1>5, <1>6 DEF HoldsDevice, RightKey

\* The device that the index leads to is the one of the request.
LEMMA DevicesReturn ==
  ASSUME AllFormed, DeviceInv, NEW r \in Reqs, NEW d \in DeviceIds, devices[d] # Absent, NEW held,
         req[r].op = "device", req[r].pc # "update", ReturnOrUpdate(r, d, held), UNCHANGED deviceRows
  PROVE  DeviceInv'
<1>1. req[r].mem.key \in PubKeys /\ req[r].mem.platform \in Platforms
  BY DEF DeviceInv, HoldsDevice
<1>2. HoldsDevice(req[r])' /\ \A p \in Reqs : p # r => Aside(p)
  <2>1. CASE devices[d].platform = req[r].mem.platform
    BY <2>1, Closes DEF ReturnOrUpdate, Answer, Reads, HoldsDevice
  <2>2. CASE devices[d].platform # req[r].mem.platform
    BY <1>1, <2>2, Updating DEF ReturnOrUpdate, Reads, deviceRows
  <2> QED
    BY <2>1, <2>2
<1> QED
  BY <1>2, DevicesStay DEF deviceRows, DeviceInv, DeviceTable, TypeOKDevices

\* What the index and the list of old devices show.
LEMMA DevicesLookUp ==
  ASSUME AllFormed, DeviceInv, NEW r \in Reqs, RegisterIndex(r)
  PROVE  DeviceInv'
<1> DEFINE k == req[r].mem.key
           d == pubkeyRow[k]
           held == IF d = Absent THEN {} ELSE {<<"index", k>>}
           mem == [req[r].mem EXCEPT !.drop = {}]
<1>1. HoldsDevice(req[r]) /\ req[r].op = "device" /\ req[r].pc = "purge" /\ UNCHANGED deviceRows
  BY DEF DeviceInv, RegisterIndex, At
<1>2. d \in DeviceIds \cup {Absent}
  BY <1>1 DEF HoldsDevice, DeviceInv, DeviceTable, TypeOKDevices
<1>3. CASE d # Absent /\ devices[d] # Absent
  BY <1>1, <1>2, <1>3, DevicesReturn DEF RegisterIndex
<1>4. CASE ~(d # Absent /\ devices[d] # Absent)
  <2>1. \E h, L : Writes(r, On(req[r], "legacy", h, mem), L)
    BY <1>4, Zenon DEF RegisterIndex, Reads
  <2>2. /\ DOMAIN mem = {"key", "platform", "keep", "drop"}
        /\ mem.key = req[r].mem.key /\ mem.platform = req[r].mem.platform
        /\ mem.keep = req[r].mem.keep /\ mem.drop = {}
    BY <1>1 DEF HoldsDevice
  <2> HIDE DEF mem, held
  <2>3. /\ req'[r].pc = "legacy" /\ req'[r].mem = mem
        /\ \A p \in Reqs : p # r => Aside(p)
    BY <2>1, Moves
  <2>4. HoldsDevice(req[r])'
    BY <1>1, <2>2, <2>3 DEF HoldsDevice
  <2> QED
    BY <1>1, <2>3, <2>4, DevicesStay DEF deviceRows, DeviceInv, DeviceTable, TypeOKDevices
<1> QED
  BY <1>3, <1>4

\* A new device, or an old one, gets the index row of its key.
LEMMA DevicesAdopt ==
  ASSUME AllFormed, DeviceInv, NEW r \in Reqs, RegisterLegacy(r)
  PROVE  DeviceInv'
<1> DEFINE k == req[r].mem.key
           d == Earliest(With(k))
<1>1. HoldsDevice(req[r]) /\ req[r].op = "device" /\ req[r].pc = "legacy" /\ UNCHANGED devices
  BY DEF DeviceInv, RegisterLegacy, At
<1>2. k \in PubKeys /\ req[r].mem.platform \in Platforms
  BY <1>1 DEF HoldsDevice
<1>3. CASE With(k) = {}
  <2>1. (\E h, L : Writes(r, On(req[r], "commit", h, req[r].mem), L)) /\ UNCHANGED pubkeyRow
    BY <1>3, Zenon DEF RegisterLegacy, Reads
  <2>2. /\ req'[r].pc = "commit" /\ req'[r].mem = req[r].mem
        /\ \A p \in Reqs : p # r => Aside(p)
    <3>1. PICK m : m = req[r].mem
      OBVIOUS
    <3>2. \E h, L : Writes(r, On(req[r], "commit", h, m), L)
      BY <2>1, <3>1
    <3>3. /\ req'[r].pc = "commit" /\ req'[r].mem = m
          /\ \A p \in Reqs : p # r => Aside(p)
      BY <3>2, Moves
    <3> QED
      BY <3>1, <3>3
  <2>3. With(k)' = {}
    BY <1>1, <1>3, <2>2 DEF With
  <2>4. HoldsDevice(req[r])'
    BY <1>1, <2>2, <2>3 DEF HoldsDevice
  <2> QED
    BY <1>1, <2>1, <2>2, <2>4, DevicesStay DEF DeviceInv, DeviceTable, TypeOKDevices
<1>4. CASE With(k) # {}
  <2>1. d \in DeviceIds /\ devices[d] # Absent
    BY <1>2, <1>4, EarliestDevice DEF With, DeviceInv
  <2> DEFINE row == [devices[d] EXCEPT !.platform = req[r].mem.platform]
             mem == [key |-> k, device |-> d, row |-> row]
  <2>2. /\ pubkeyRow' = [pubkeyRow EXCEPT ![k] = d]
        /\ \/ Writes(r, Idle, {<<"index", k>>})
           \/ Writes(r, On(req[r], "update", {<<"device", d>>}, mem), {<<"index", k>>})
    BY <1>4, Zenon DEF RegisterLegacy
  <2>3. HoldsDevice(req[r])' /\ \A p \in Reqs : p # r => Aside(p)
    <3>1. CASE Writes(r, Idle, {<<"index", k>>})
      BY <3>1, Closes DEF HoldsDevice
    <3>2. CASE Writes(r, On(req[r], "update", {<<"device", d>>}, mem), {<<"index", k>>})
      <4> HIDE DEF d, k
      <4> QED
        BY <1>1, <1>2, <2>1, <3>2, Updating
    <3> QED
      BY <2>2, <3>1, <3>2
  <2>4. /\ pubkeyRow' \in [PubKeys -> DeviceIds \cup {Absent}]
        /\ \A j \in PubKeys : pubkeyRow[j] # Absent => pubkeyRow'[j] # Absent
    BY <1>2, <2>1, <2>2, DeviceAssumption DEF DeviceInv, DeviceTable, TypeOKDevices
  <2> QED
    BY <1>1, <2>3, <2>4, DevicesStay
<1> QED
  BY <1>3, <1>4

\* A key that a device gets has no other, and requests that had found none with
\* it will find the index entry that they read changed, or one where none was.
LEMMA DevicesAdd ==
  ASSUME AllFormed, DeviceInv, NEW r \in Reqs, RegisterCommit(r)
  PROVE  DeviceInv'
<1> DEFINE k == req[r].mem.key
<1>1. HoldsDevice(req[r]) /\ req[r].op = "device" /\ req[r].pc = "commit" /\ IndexUnchanged(req[r])
  BY DEF DeviceInv, RegisterCommit, At
<1>2. k \in PubKeys /\ req[r].mem.platform \in Platforms /\ With(k) = {}
  BY <1>1 DEF HoldsDevice
<1>3. PICK d \in DeviceIds :
        /\ devices[d] = Absent /\ d \notin OldIds
        /\ devices' = [devices EXCEPT ![d] = [key |-> k, platform |-> req[r].mem.platform]]
        /\ pubkeyRow' = [pubkeyRow EXCEPT ![k] = d]
        /\ Leaves(r, {<<"index", k>>})
  BY DEF RegisterCommit
<1>4. [key |-> k, platform |-> req[r].mem.platform] \in DeviceRow
  BY <1>2 DEF DeviceRow
<1> DEFINE row == [key |-> k, platform |-> req[r].mem.platform]
<1>5. row \in DeviceRow /\ row # Absent /\ row.key = k
  BY <1>4, DeviceAssumption
<1> HIDE DEF row
<1>6. devices' = [devices EXCEPT ![d] = row]
  BY <1>3 DEF row
<1>7. /\ req'[r].op = "none"
      /\ \A p \in Reqs : p # r => Aside(p) /\ req'[p].stale = req[p].stale \cup (req[p].held \cap {<<"index", k>>})
  BY <1>3, Closes DEF Leaves
<1>8. DeviceTable'
  <2>1. TypeOKDevices' /\ devices'[1] # Absent
        /\ \A e \in OldIds : devices'[e] # Absent => devices'[e].key = OldKey
    BY <1>2, <1>3, <1>5, <1>6, OldDevices DEF DeviceInv, DeviceTable, TypeOKDevices, OldIds
  <2>2. NewKeyHasOneDevice'
    BY <1>2, <1>3, <1>5, <1>6 DEF DeviceInv, DeviceTable, TypeOKDevices, NewKeyHasOneDevice, With
  <2> QED
    BY <2>1, <2>2 DEF DeviceTable
<1>9. \A j \in PubKeys : j # k => (With(j) = {} => With(j)' = {})
  BY <1>3, <1>5, <1>6 DEF With, DeviceInv, DeviceTable, TypeOKDevices
<1>10. pubkeyRow'[k] # Absent /\ \A j \in PubKeys : pubkeyRow[j] # Absent => pubkeyRow'[j] # Absent
  BY <1>2, <1>3, DeviceAssumption DEF DeviceInv, DeviceTable, TypeOKDevices
<1>11. \A e \in DeviceIds \ OldIds : devices[e] # Absent => devices'[e] = devices[e]
  BY <1>3, <1>6 DEF DeviceInv, DeviceTable, TypeOKDevices
<1>12. HoldsDevice(req[r])'
  BY <1>7 DEF HoldsDevice
<1>13. \A p \in Reqs : p # r /\ <<"index", k>> \in req[p].held => req'[p].stale # {}
  BY <1>7
<1> HIDE DEF k
<1> QED
  BY <1>7, <1>8, <1>9, <1>10, <1>11, <1>12, <1>13, DevicesKept

\* Somebody else has the index row by now, and the request starts again.
LEMMA DevicesLost ==
  ASSUME AllFormed, DeviceInv, NEW r \in Reqs, RegisterConflict(r)
  PROVE  DeviceInv'
<1> DEFINE d == pubkeyRow[req[r].mem.key]
<1>1. HoldsDevice(req[r]) /\ req[r].op = "device" /\ req[r].pc = "commit" /\ UNCHANGED deviceRows
  BY DEF DeviceInv, RegisterConflict, At
<1>2. d \in DeviceIds \cup {Absent}
  BY <1>1 DEF HoldsDevice, DeviceInv, DeviceTable, TypeOKDevices
<1>3. CASE d # Absent /\ devices[d] # Absent
  BY <1>1, <1>2, <1>3, DevicesReturn DEF RegisterConflict
<1>4. CASE ~(d # Absent /\ devices[d] # Absent)
  <2>1. Writes(r, Idle, {})
    BY <1>4 DEF RegisterConflict, Answer, Reads
  <2>2. HoldsDevice(req[r])' /\ \A p \in Reqs : p # r => Aside(p)
    BY <2>1, Closes DEF HoldsDevice
  <2> QED
    BY <1>1, <2>2, DevicesStay DEF deviceRows, DeviceInv, DeviceTable, TypeOKDevices
<1> QED
  BY <1>3, <1>4

\* An old row that is written back may revive a purged device, but no other.
LEMMA DevicesUpdate ==
  ASSUME AllFormed, DeviceInv, NEW r \in Reqs, RegisterUpdate(r)
  PROVE  DeviceInv'
<1> DEFINE d == req[r].mem.device
           row == req[r].mem.row
<1>1. HoldsDevice(req[r]) /\ req[r].op = "device" /\ req[r].pc = "update"
  BY DEF DeviceInv, RegisterUpdate, At
<1>2. d \in DeviceIds /\ RightKey(d, row) /\ row # Absent
  BY <1>1, DeviceAssumption DEF HoldsDevice, RightKey
<1>3. devices' = [devices EXCEPT ![d] = row] /\ UNCHANGED pubkeyRow /\ Leaves(r, {<<"device", d>>})
  BY DEF RegisterUpdate
<1>4. HoldsDevice(req[r])' /\ \A p \in Reqs : p # r => Aside(p)
  BY <1>3, Closes DEF Leaves, HoldsDevice
<1> HIDE DEF d, row
<1>5. DeviceTable'
  <2>1. TypeOKDevices' /\ devices'[1] # Absent
        /\ \A e \in OldIds : devices'[e] # Absent => devices'[e].key = OldKey
    BY <1>2, <1>3, OldDevices DEF DeviceInv, DeviceTable, TypeOKDevices, RightKey
  <2>2. \A e \in DeviceIds \ OldIds : /\ devices'[e] # Absent <=> devices[e] # Absent
                                      /\ devices[e] # Absent => devices'[e].key = devices[e].key
    BY <1>2, <1>3 DEF DeviceInv, DeviceTable, TypeOKDevices, RightKey
  <2>3. \A e \in DeviceIds \ OldIds : devices[e] # Absent => devices[e].key # OldKey
    BY OldDevices DEF DeviceInv, DeviceTable, NewKeyHasOneDevice, OldIds
  <2>4. NewKeyHasOneDevice'
    BY <2>1, <2>2, <2>3 DEF DeviceInv, DeviceTable, NewKeyHasOneDevice
  <2> QED
    BY <2>1, <2>4 DEF DeviceTable
<1>6. 1 \in With(OldKey)
  BY OldDevices DEF DeviceInv, DeviceTable, With, OldIds
<1>7. \A k \in PubKeys : With(k) = {} => With(k)' = {}
  BY <1>2, <1>3, <1>6 DEF With, RightKey, DeviceInv, DeviceTable, TypeOKDevices
<1>8. \A e \in DeviceIds \ OldIds :
        devices[e] # Absent => devices'[e] # Absent /\ devices'[e].key = devices[e].key
  BY <1>2, <1>3 DEF DeviceInv, DeviceTable, TypeOKDevices, RightKey
<1> QED
  BY <1>3, <1>4, <1>5, <1>7, <1>8, DevicesKept

\* Every step keeps DeviceInv.
LEMMA StepDevices ==
  ASSUME AllFormed, DeviceInv, [Next]_vars
  PROVE  DeviceInv'
<1>1. ASSUME NEW r \in Reqs, Keyring(r) PROVE DeviceInv'
  <2>1. CASE DeviceStart(r) \/ DeviceStep(r)
    BY <2>1, DevicesBegin, DevicesPurge, DevicesReindex, DevicesLookUp, DevicesAdopt, DevicesAdd,
       DevicesLost, DevicesUpdate DEF DeviceStep
  <2>2. CASE (KeyStart(r) \/ KeyStep(r)) /\ UNCHANGED deviceRows
    BY <2>2, KeyBegins, KeyGoesOn, DevicesAside DEF DeviceOps, KeyOps
  <2> QED
    BY <1>1, <2>1, <2>2 DEF Keyring
<1>2. ASSUME NEW r \in Reqs, Directory(r) \/ Agency(r) \/ Contacts(r) \/ Shelf(r) \/ Dies(r)
      PROVE  DeviceInv'
  <2>1. PICK Ops : Becomes(r, Ops) /\ Ops \cap DeviceOps = {}
    BY <1>2, DirectoryFrame, AgencyFrame, ContactsFrame, ShelfFrame, DeathFrame
       DEF OrgOps, RegistryOps, ListingOps, AgentOps, ContactOps, ShelfOps, DeviceOps
  <2>2. UNCHANGED deviceRows
    BY <1>2 DEF Directory, Agency, Contacts, Shelf, Dies, hubRows
  <2> QED
    BY <2>1, <2>2, DevicesAside
<1>3. CASE UNCHANGED <<req, deviceRows>>
  BY <1>3 DEF DeviceInv, DeviceTable, TypeOKDevices, NewKeyHasOneDevice, deviceRows, HoldsDevice,
     IndexUnchanged, With, RightKey
<1> QED
  BY <1>1, <1>2, <1>3, TimeFrame DEF Next, vars, hubRows

\* DeviceInv holds at the start.
LEMMA InitDeviceInv == Init => DeviceInv
<1> SUFFICES ASSUME Init PROVE DeviceInv
  OBVIOUS
<1>1. \A p \in Reqs : HoldsDevice(req[p])
  BY DEF Init, InitRequests, Idle, HoldsDevice
<1>2. [key |-> OldKey, platform |-> "macos"] \in DeviceRow /\ Absent \notin DeviceRow
  BY DeviceAssumption DEF DeviceRow, Platforms
<1> QED
  BY <1>1, <1>2, OldDevices DEF Init, InitDevices, DeviceInv, DeviceTable, TypeOKDevices,
     NewKeyHasOneDevice, OldIds

\* However many registrations are in flight, no two devices have the same key,
\* but for those from before the index: a registration that found no device
\* with its key commits only when the index row is as it was.
THEOREM NewKeysHaveOneDevice == Spec => []NewKeyHasOneDevice
<1>1. AllFormed /\ DeviceInv /\ [Next]_vars => (AllFormed /\ DeviceInv)'
  BY FormedKept, StepDevices
<1>2. DeviceInv => NewKeyHasOneDevice
  BY DEF DeviceInv, DeviceTable
<1> QED
  BY <1>1, <1>2, InitFormed, InitDeviceInv, PTL DEF Spec

-----------------------------------------------------------------------------
(* External contacts *)

\* What is tried
TriesFormed ==
  DOMAIN scope = {"ops", "left", "tries"} /\ scope.tries \subseteq Askers \X Handled \X Nat

\* The rows of contacts
ContactTypes ==
  /\ asks \in [AskIds -> AskRow \cup {Absent}]
  /\ links \in [LinkIds -> LinkRow \cup {Absent}]
  /\ pairRow \in [Couples -> LinkIds \cup {Absent}]
  /\ mail \in [MailIds -> MailRow \cup {Absent}]

\* What a request will write is of the right kind, and an unpairing that has
\* listed the open threads of its link will close them all, but for those that
\* were written since.
HoldsContact(q) ==
  /\ q.op = "submit" =>
       /\ q.mem.user \in Askers
       /\ q.pc \in {"right", "find", "commit"} => q.mem.handle \in Targets
  /\ q.op \in {"approve", "deny"} => q.mem.ask \in AskIds /\ asks[q.mem.ask] # Absent
  /\ q.op = "approve" => q.mem.pair \in Couples
  /\ q.op = "unpair" =>
       /\ DOMAIN q.mem = {"link", "pair", "todo"}
       /\ q.mem.link \in LinkIds /\ links[q.mem.link] # Absent
       /\ q.mem.pair = links[q.mem.link].pair
       /\ \A m \in q.mem.todo : m \in MailIds /\ mail[m] # Absent
       /\ q.pc = "close" => OpenOver(q.mem.link) \subseteq q.mem.todo \cup late
  /\ q.op \in MailOps => q.mem.link \in LinkIds /\ q.mem.thread \in MailIds \cup {Absent}

ContactInv ==
  /\ ContactTypes /\ UnpairClosesMail
  /\ \A p \in Reqs : HoldsContact(req[p])

\* What is tried is fixed for a behaviour.
LEMMA TriesKept ==
  ASSUME TriesFormed, [Next]_vars
  PROVE  TriesFormed'
<1>1. Begins \/ UNCHANGED scope
  BY DEF Next, vars, Directory, Agency, Keyring, Contacts, Shelf, GoesOn, Dies, Time
<1> QED
  BY <1>1 DEF TriesFormed, Begins

\* A step keeps the invariant for the requests it is not of, if rows stay, links
\* keep their pair, and no other thread of a link is open than was, but those
\* written late.
LEMMA ContactKept ==
  ASSUME ContactInv, NEW r \in Reqs,
         ContactTypes', UnpairClosesMail', HoldsContact(req[r])',
         late \subseteq late',
         \A a \in AskIds : asks[a] # Absent => asks'[a] # Absent,
         \A m \in MailIds : mail[m] # Absent => mail'[m] # Absent,
         \A l \in LinkIds : links[l] # Absent =>
           /\ links'[l] # Absent /\ links'[l].pair = links[l].pair,
         \A p \in Reqs : p # r =>
           /\ Aside(p)
           /\ \A l \in LinkIds : At(p, "unpair", "close") /\ l = req[p].mem.link /\ links[l] # Absent =>
                OpenOver(l)' \subseteq OpenOver(l) \cup late'
  PROVE  ContactInv'
<1>1. ASSUME NEW p \in Reqs, p # r PROVE HoldsContact(req[p])'
  <2>1. HoldsContact(req[p]) /\ Aside(p)
    BY <1>1 DEF ContactInv
  <2>2. CASE req[p].op = "unpair"
    <3>1. PICK l \in LinkIds : l = req[p].mem.link
      BY <2>1, <2>2 DEF HoldsContact
    <3> DEFINE todo == req[p].mem.todo
    <3>2. /\ links[l] # Absent /\ DOMAIN req[p].mem = {"link", "pair", "todo"}
          /\ req[p].mem.pair = links[l].pair
          /\ \A m \in todo : m \in MailIds /\ mail[m] # Absent
          /\ req[p].pc = "close" => OpenOver(l) \subseteq todo \cup late
      BY <2>1, <2>2, <3>1 DEF HoldsContact
    <3>3. req[p].pc = "close" => OpenOver(l)' \subseteq OpenOver(l) \cup late'
      BY <1>1, <2>2, <3>1, <3>2 DEF At
    <3>4. req[p].pc = "close" => OpenOver(l)' \subseteq todo \cup late'
      BY <3>2, <3>3
    <3>5. PICK q : q = req'[p]
      OBVIOUS
    <3>6. /\ q.op = "unpair" /\ q.pc = req[p].pc /\ q.mem = req[p].mem
      BY <2>1, <2>2, <3>5 DEF Aside
    <3>7. HoldsContact(q)'
      BY <3>1, <3>2, <3>4, <3>6 DEF HoldsContact, MailOps
    <3> QED
      BY <3>5, <3>7
  <2>3. CASE req[p].op # "unpair"
    BY <2>1, <2>3 DEF HoldsContact, Aside
  <2> QED
    BY <2>2, <2>3
<1> QED
  BY <1>1 DEF ContactInv

\* A step that leaves these rows alone keeps the invariant if its own request fits.
LEMMA ContactStays ==
  ASSUME ContactInv, NEW r \in Reqs, UNCHANGED <<asks, links, pairRow, mail, late>>,
         \A p \in Reqs : p # r => Aside(p), HoldsContact(req[r])'
  PROVE  ContactInv'
<1>1. ContactTypes'
  BY DEF ContactInv, ContactTypes
<1>2. UnpairClosesMail'
  BY DEF ContactInv, UnpairClosesMail, Live, OpenOver
<1>3. \A l : OpenOver(l)' = OpenOver(l)
  BY DEF OpenOver
<1> QED
  BY <1>1, <1>2, <1>3, ContactKept

\* Requests of other components, and those that are answered, keep it.
LEMMA ContactAside ==
  ASSUME AllFormed, ContactInv, NEW r \in Reqs, NEW Ops, Becomes(r, Ops), Ops \cap ContactOps = {},
         UNCHANGED <<asks, links, pairRow, mail, late>>
  PROVE  ContactInv'
<1>1. req'[r].op \in Ops \cup {"none"} /\ \A p \in Reqs : p # r => Aside(p)
  BY Bystanders
<1>2. HoldsContact(req[r])'
  BY <1>1 DEF HoldsContact, ContactOps, MailOps
<1> QED
  BY <1>1, <1>2, ContactStays

\* A request goes on with what it has in memory.
LEMMA Passing ==
  ASSUME AllFormed, NEW r \in Reqs, NEW pc, pc # "migrate",
         \E K : Writes(r, On(req[r], pc, {}, req[r].mem), K)
  PROVE  /\ req'[r].op = req[r].op /\ req'[r].pc = pc /\ req'[r].mem = req[r].mem
         /\ \A p \in Reqs : p # r => Aside(p)
<1>1. PICK mem : mem = req[r].mem
  OBVIOUS
<1>2. \E held, K : Writes(r, On(req[r], pc, held, mem), K)
  BY <1>1
<1> QED
  BY <1>1, <1>2, Moves

-----------------------------------------------------------------------------
\* submitPairRequest

\* submitPairRequest begins, for one of the tries of the behaviour.
LEMMA SubmitBegins ==
  ASSUME AllFormed, TriesFormed, ContactInv, NEW r \in Reqs, NEW a \in scope.tries,
         SubmitStart(r, a[1], a[2], a[3])
  PROVE  ContactInv'
<1>1. PICK u \in Askers, h \in Handled, pin \in Nat : a = <<u, h, pin>>
  BY DEF TriesFormed
<1>2. PICK mem : mem = [user |-> u, handle |-> h, pin |-> pin, failure |-> failures[<<u, h>>],
                        by |-> askedBy[u] + 1, of |-> askedOf[h] + 1]
  OBVIOUS
<1>3. a[1] = u /\ a[2] = h /\ a[3] = pin
  BY <1>1
<1>4. SubmitStart(r, u, h, pin)
  BY <1>3
<1>5. /\ Writes(r, Begin("submit", "count", {}, mem), {})
      /\ UNCHANGED <<asks, links, pairRow, mail, late, overwritten>>
  BY <1>2, <1>4, Zenon DEF SubmitStart, Reads, pairingRows
<1>6. /\ req'[r].op = "submit" /\ req'[r].pc = "count" /\ req'[r].mem = mem
      /\ \A p \in Reqs : p # r => Aside(p)
  BY <1>5, Opens
<1>7. HoldsContact(req[r])'
  BY <1>2, <1>6 DEF HoldsContact, MailOps
<1> QED
  BY <1>5, <1>6, <1>7, ContactStays

\* It writes its two counters.
LEMMA SubmitCounts ==
  ASSUME AllFormed, ContactInv, NEW r \in Reqs, SubmitCount(r) \/ SubmitCountOf(r)
  PROVE  ContactInv'
<1>1. UNCHANGED <<asks, links, pairRow, mail, late, overwritten>> /\ req[r].op = "submit"
  BY DEF SubmitCount, SubmitCountOf, At
<1>2. PICK pc \in {"countOf", "pin"} : \E K : Writes(r, On(req[r], pc, {}, req[r].mem), K)
  <2>1. CASE SubmitCount(r)
    <3>1. \E K : Writes(r, On(req[r], "countOf", {}, req[r].mem), K)
      BY <2>1, Zenon DEF SubmitCount, Reads
    <3> QED
      BY <3>1
  <2>2. CASE SubmitCountOf(r)
    <3>1. \E K : Writes(r, On(req[r], "pin", {}, req[r].mem), K)
      BY <2>2, Zenon DEF SubmitCountOf, Reads
    <3> QED
      BY <3>1
  <2> QED
    BY <2>1, <2>2
<1>3. /\ req'[r].op = "submit" /\ req'[r].pc = pc /\ req'[r].mem = req[r].mem
      /\ \A p \in Reqs : p # r => Aside(p)
  BY <1>1, <1>2, Passing
<1>4. HoldsContact(req[r])'
  BY <1>1, <1>3 DEF HoldsContact, MailOps, ContactInv
<1> QED
  BY <1>1, <1>3, <1>4, ContactStays

\* Only an answer to a user who exists comes out right.
LEMMA SubmitTriesPin ==
  ASSUME AllFormed, ContactInv, NEW r \in Reqs, SubmitPin(r)
  PROVE  ContactInv'
<1>1. UNCHANGED <<asks, links, pairRow, mail, late, overwritten>> /\ req[r].op = "submit"
  BY DEF SubmitPin, At, pairingRows
<1>2. PICK pc : /\ pc = IF RightPin(req[r].mem) THEN "right" ELSE "wrong"
                /\ \E K : Writes(r, On(req[r], pc, {}, req[r].mem), K)
  BY Zenon DEF SubmitPin, Reads
<1>3. pc = "wrong" \/ (pc = "right" /\ req[r].mem.handle \in Targets)
  BY <1>2 DEF RightPin
<1>4. /\ req'[r].op = "submit" /\ req'[r].pc = pc /\ req'[r].mem = req[r].mem
      /\ \A p \in Reqs : p # r => Aside(p)
  BY <1>1, <1>2, <1>3, Passing
<1>5. HoldsContact(req[r])'
  BY <1>1, <1>3, <1>4 DEF HoldsContact, MailOps, ContactInv
<1> QED
  BY <1>1, <1>4, <1>5, ContactStays

\* It clears the failures of a pair whose PIN was right.
LEMMA SubmitClears ==
  ASSUME AllFormed, ContactInv, NEW r \in Reqs, SubmitRight(r)
  PROVE  ContactInv'
<1>1. /\ UNCHANGED <<asks, links, pairRow, mail, late, overwritten>>
      /\ req[r].op = "submit" /\ req[r].pc = "right"
  BY DEF SubmitRight, At
<1>2. \E K : Writes(r, On(req[r], "find", {}, req[r].mem), K)
  BY Zenon DEF SubmitRight, Reads
<1>3. /\ req'[r].op = "submit" /\ req'[r].pc = "find" /\ req'[r].mem = req[r].mem
      /\ \A p \in Reqs : p # r => Aside(p)
  BY <1>1, <1>2, Passing
<1>4. HoldsContact(req[r])'
  BY <1>1, <1>3 DEF HoldsContact, MailOps, ContactInv
<1> QED
  BY <1>1, <1>3, <1>4, ContactStays

\* It finds no request that is pending.
LEMMA SubmitFinds ==
  ASSUME AllFormed, ContactInv, NEW r \in Reqs, SubmitFind(r), ~Ends(r)
  PROVE  ContactInv'
<1>1. /\ UNCHANGED <<asks, links, pairRow, mail, late, overwritten>>
      /\ req[r].op = "submit" /\ req[r].pc = "find"
  BY DEF SubmitFind, At, pairingRows
<1>2. \E K : Writes(r, On(req[r], "commit", {}, req[r].mem), K)
  BY Zenon DEF SubmitFind, Reads, Answer, Ends
<1>3. /\ req'[r].op = "submit" /\ req'[r].pc = "commit" /\ req'[r].mem = req[r].mem
      /\ \A p \in Reqs : p # r => Aside(p)
  BY <1>1, <1>2, Passing
<1>4. HoldsContact(req[r])'
  BY <1>1, <1>3 DEF HoldsContact, MailOps, ContactInv
<1> QED
  BY <1>1, <1>3, <1>4, ContactStays

\* Requests that leave links, pairs and threads alone, and are over.
LEMMA AskWritten ==
  ASSUME AllFormed, ContactInv, NEW r \in Reqs, NEW a \in AskIds, NEW row \in AskRow,
         asks' = [asks EXCEPT ![a] = row], UNCHANGED <<links, pairRow, mail, late>>,
         \A p \in Reqs : p # r => Aside(p), HoldsContact(req[r])'
  PROVE  ContactInv'
<1>1. /\ asks' \in [AskIds -> AskRow \cup {Absent}]
      /\ \A b \in AskIds : asks[b] # Absent => asks'[b] # Absent
  BY PairingAssumption DEF ContactInv, ContactTypes
<1>2. ContactTypes'
  BY <1>1 DEF ContactInv, ContactTypes
<1>3. UnpairClosesMail'
  BY DEF ContactInv, UnpairClosesMail, Live, OpenOver
<1>4. \A l : OpenOver(l)' = OpenOver(l)
  BY DEF OpenOver
<1> QED
  BY <1>1, <1>2, <1>3, <1>4, ContactKept

\* It writes the request to pair.
LEMMA SubmitCommits ==
  ASSUME AllFormed, ContactInv, NEW r \in Reqs, SubmitCommit(r)
  PROVE  ContactInv'
<1>1. PICK u, h : u = req[r].mem.user /\ h = req[r].mem.handle
  OBVIOUS
<1>2. u \in Askers /\ h \in Targets
  BY <1>1 DEF SubmitCommit, At, ContactInv, HoldsContact
<1>3. PICK row : row = Asked(<<u, h>>)
  OBVIOUS
<1>4. row \in AskRow
  BY <1>2, <1>3 DEF Asked, AskRow, AskStatuses
<1>5. PICK a \in AskIds : asks' = [asks EXCEPT ![a] = row]
  BY <1>1, <1>3 DEF SubmitCommit
<1>6. Writes(r, Idle, {}) /\ UNCHANGED <<links, pairRow, mail, late, overwritten>>
  BY DEF SubmitCommit, Leaves
<1>7. req'[r].op = "none" /\ \A p \in Reqs : p # r => Aside(p)
  BY <1>6, Closes
<1>8. HoldsContact(req[r])'
  BY <1>7 DEF HoldsContact, MailOps
<1> QED
  BY <1>4, <1>5, <1>6, <1>7, <1>8, AskWritten

-----------------------------------------------------------------------------
\* approvePairRequest and denyPairRequest

\* approvePairRequest and denyPairRequest read the request to pair.
LEMMA ResolvingBegins ==
  ASSUME AllFormed, ContactInv, NEW r \in Reqs, NEW a \in AskIds, ApproveStart(r, a) \/ DenyStart(r, a)
  PROVE  ContactInv'
<1>1. /\ UNCHANGED <<asks, links, pairRow, mail, late, overwritten>>
      /\ asks[a] # Absent
  BY DEF ApproveStart, DenyStart, pairingRows
<1>2. PICK row \in AskRow : row = asks[a]
  BY <1>1 DEF ContactInv, ContactTypes
<1>3. CASE ApproveStart(r, a)
  <2>1. PICK mem : mem = [ask |-> a, pair |-> <<asks[a].from, asks[a].of>>]
    OBVIOUS
  <2>2. Writes(r, Begin("approve", "link", {<<"ask", a>>}, mem), {})
    BY <1>3, <2>1, Zenon DEF ApproveStart, Reads
  <2>3. /\ req'[r].op = "approve" /\ req'[r].mem = mem
        /\ \A p \in Reqs : p # r => Aside(p)
    BY <2>2, Opens
  <2>4. mem.ask = a /\ mem.pair \in Couples
    BY <1>2, <2>1 DEF AskRow, Couples
  <2>5. HoldsContact(req[r])'
    BY <1>1, <2>3, <2>4 DEF HoldsContact, MailOps
  <2> QED
    BY <1>1, <2>3, <2>5, ContactStays
<1>4. CASE DenyStart(r, a)
  <2>1. PICK mem : mem = [ask |-> a, from |-> asks[a].from, of |-> asks[a].of]
    OBVIOUS
  <2>2. Writes(r, Begin("deny", "block", {<<"ask", a>>}, mem), {})
    BY <1>4, <2>1, Zenon DEF DenyStart, Reads
  <2>3. /\ req'[r].op = "deny" /\ req'[r].mem = mem
        /\ \A p \in Reqs : p # r => Aside(p)
    BY <2>2, Opens
  <2>4. HoldsContact(req[r])'
    BY <1>1, <2>1, <2>3 DEF HoldsContact, MailOps
  <2> QED
    BY <1>1, <2>3, <2>4, ContactStays
<1> QED
  BY <1>3, <1>4

\* approvePairRequest finds no link of the pair.
LEMMA ApproveFindsNone ==
  ASSUME AllFormed, ContactInv, NEW r \in Reqs, ApproveLink(r), ~Ends(r)
  PROVE  ContactInv'
<1>1. UNCHANGED <<asks, links, pairRow, mail, late, overwritten>> /\ req[r].op = "approve"
  BY DEF ApproveLink, At, pairingRows
<1>2. \E K : Writes(r, On(req[r], "commit", {}, req[r].mem), K)
  BY Zenon DEF ApproveLink, Reads, Answer, Ends
<1>3. /\ req'[r].op = "approve" /\ req'[r].mem = req[r].mem
      /\ \A p \in Reqs : p # r => Aside(p)
  BY <1>1, <1>2, Passing
<1>4. HoldsContact(req[r])'
  BY <1>1, <1>3 DEF HoldsContact, MailOps, ContactInv
<1> QED
  BY <1>1, <1>3, <1>4, ContactStays

\* The new link and its thread are the only ones written, and the thread is open
\* over a link that is live.
LEMMA ApproveCommits ==
  ASSUME AllFormed, ContactInv, NEW r \in Reqs, ApproveCommit(r)
  PROVE  ContactInv'
<1>1. PICK a \in AskIds, c \in Couples : a = req[r].mem.ask /\ c = req[r].mem.pair /\ asks[a] # Absent
  BY DEF ApproveCommit, At, ContactInv, HoldsContact
<1>2. PICK old \in AskRow, ask \in AskRow : old = asks[a] /\ ask = [old EXCEPT !.status = "approved"]
  BY <1>1 DEF ContactInv, ContactTypes, AskRow, AskStatuses
<1>3. PICK link : link = [pair |-> c, live |-> TRUE]
  OBVIOUS
<1>4. link \in LinkRow
  BY <1>3 DEF LinkRow
<1>5. PICK l \in LinkIds, t \in MailIds :
        /\ links[l] = Absent /\ mail[t] = Absent
        /\ links' = [links EXCEPT ![l] = link]
        /\ pairRow' = [pairRow EXCEPT ![c] = l]
        /\ mail' = [mail EXCEPT ![t] = [link |-> l, open |-> TRUE]]
        /\ asks' = [asks EXCEPT ![a] = ask]
        /\ Writes(r, Idle, {<<"ask", a>>})
        /\ UNCHANGED late
  BY <1>1, <1>2, <1>3 DEF ApproveCommit, NextId, Leaves
<1>6. PICK new : new = [link |-> l, open |-> TRUE]
  OBVIOUS
<1>7. new \in MailRow /\ new.link = l
  BY <1>6 DEF MailRow
<1>8. ContactTypes'
  BY <1>4, <1>5, <1>6, <1>7 DEF ContactInv, ContactTypes
<1>9. /\ links'[l] = link /\ \A k \in LinkIds : k # l => links'[k] = links[k]
      /\ mail'[t] = new /\ \A m \in MailIds : m # t => mail'[m] = mail[m]
      /\ \A b \in AskIds : asks[b] # Absent => asks'[b] # Absent
      /\ \A m \in MailIds : mail[m] # Absent => mail'[m] # Absent
  BY <1>4, <1>5, <1>6, <1>7, PairingAssumption DEF ContactInv, ContactTypes
<1>10. \A k \in LinkIds : k # l => OpenOver(k)' = OpenOver(k)
  BY <1>5, <1>7, <1>9 DEF OpenOver
<1>11. UnpairClosesMail'
  <2> SUFFICES ASSUME NEW k \in LinkIds, links'[k] # Absent, ~(links'[k] # Absent /\ links'[k].live)
               PROVE  OpenOver(k)' \subseteq late'
    BY DEF UnpairClosesMail, Live
  <2>1. k # l
    BY <1>3, <1>9
  <2> QED
    BY <1>5, <1>9, <1>10, <2>1 DEF ContactInv, UnpairClosesMail, Live
<1>12. req'[r].op = "none" /\ \A p \in Reqs : p # r => Aside(p)
  BY <1>5, Closes
<1>13. HoldsContact(req[r])'
  BY <1>12 DEF HoldsContact, MailOps
<1>14. ASSUME NEW k \in LinkIds, links[k] # Absent
       PROVE  /\ links'[k] # Absent /\ links'[k].pair = links[k].pair
              /\ OpenOver(k)' \subseteq OpenOver(k) \cup late'
  BY <1>5, <1>9, <1>10, <1>14
<1> QED
  BY <1>5, <1>8, <1>9, <1>11, <1>12, <1>13, <1>14, ContactKept

\* denyPairRequest blocks the requester, records the denial and counts denials.
LEMMA DenyPasses ==
  ASSUME AllFormed, ContactInv, NEW r \in Reqs,
         DenyBlock(r) \/ DenyRecord(r) \/ (DenyFlag(r) /\ ~Ends(r))
  PROVE  ContactInv'
<1>1. UNCHANGED <<asks, links, pairRow, mail, late, overwritten>> /\ req[r].op = "deny"
  BY DEF DenyBlock, DenyRecord, DenyFlag, At, pairingRows
<1>2. \/ \E K : Writes(r, On(req[r], "resolve", {}, req[r].mem), K)
      \/ \E K : Writes(r, On(req[r], "flag", {}, req[r].mem), K)
      \/ \E K : Writes(r, On(req[r], "raise", {}, req[r].mem), K)
  BY Zenon DEF DenyBlock, DenyRecord, DenyFlag, Reads, Answer, Ends
<1>3. /\ req'[r].op = "deny" /\ req'[r].mem = req[r].mem
      /\ \A p \in Reqs : p # r => Aside(p)
  BY <1>1, <1>2, Passing
<1>4. HoldsContact(req[r])'
  BY <1>1, <1>3 DEF HoldsContact, MailOps, ContactInv
<1> QED
  BY <1>1, <1>3, <1>4, ContactStays

\* It resolves the request to pair, whatever that has become.
LEMMA DenyResolves ==
  ASSUME AllFormed, ContactInv, NEW r \in Reqs, DenyResolve(r)
  PROVE  ContactInv'
<1>1. /\ UNCHANGED <<links, pairRow, mail, late>> /\ req[r].op = "deny"
      /\ overwritten \subseteq overwritten'
  BY DEF DenyResolve, At, Clobbers
<1>2. PICK a \in AskIds : a = req[r].mem.ask /\ asks[a] # Absent
  BY <1>1 DEF ContactInv, HoldsContact
<1>3. PICK old \in AskRow, ask \in AskRow : old = asks[a] /\ ask = [old EXCEPT !.status = "denied"]
  BY <1>2 DEF ContactInv, ContactTypes, AskRow, AskStatuses
<1>4. asks' = [asks EXCEPT ![a] = ask]
  BY <1>2, <1>3 DEF DenyResolve
<1>5. \E K : Writes(r, On(req[r], "record", {}, req[r].mem), K)
  BY Zenon DEF DenyResolve
<1>6. /\ req'[r].op = "deny" /\ req'[r].mem = req[r].mem
      /\ \A p \in Reqs : p # r => Aside(p)
  BY <1>1, <1>5, Passing
<1>7. asks'[a] # Absent
  BY <1>3, <1>4, PairingAssumption DEF ContactInv, ContactTypes
<1>8. HoldsContact(req[r])'
  BY <1>2, <1>6, <1>7 DEF HoldsContact, MailOps
<1> QED
  BY <1>1, <1>4, <1>6, <1>8, AskWritten

-----------------------------------------------------------------------------
\* unpairExternalContact

\* unpairExternalContact reads the link.
LEMMA UnpairBegins ==
  ASSUME AllFormed, ContactInv, NEW r \in Reqs, NEW l \in LinkIds, UnpairStart(r, l)
  PROVE  ContactInv'
<1>1. UNCHANGED <<asks, links, pairRow, mail, late, overwritten>> /\ links[l] # Absent
  BY DEF UnpairStart, Live, pairingRows
<1>2. PICK mem : mem = [link |-> l, pair |-> links[l].pair, todo |-> {}]
  OBVIOUS
<1>3. Writes(r, Begin("unpair", "scan", {}, mem), {})
  BY <1>2, Zenon DEF UnpairStart, Reads
<1>4. /\ req'[r].op = "unpair" /\ req'[r].pc = "scan" /\ req'[r].mem = mem
      /\ \A p \in Reqs : p # r => Aside(p)
  BY <1>3, Opens
<1>5. /\ DOMAIN mem = {"link", "pair", "todo"} /\ mem.link = l /\ mem.pair = links[l].pair
      /\ mem.todo = {}
  BY <1>2
<1>6. HoldsContact(req[r])'
  BY <1>1, <1>4, <1>5 DEF HoldsContact, MailOps
<1> QED
  BY <1>1, <1>4, <1>6, ContactStays

\* It lists the open threads of the link.
LEMMA UnpairScans ==
  ASSUME AllFormed, ContactInv, NEW r \in Reqs, UnpairScan(r)
  PROVE  ContactInv'
<1>1. UNCHANGED <<asks, links, pairRow, mail, late, overwritten>> /\ req[r].op = "unpair"
  BY DEF UnpairScan, At, pairingRows
<1>2. PICK todo, mem : todo = OpenOver(req[r].mem.link) /\ mem = [req[r].mem EXCEPT !.todo = todo]
  OBVIOUS
<1>3. \E held, K : Writes(r, On(req[r], "close", held, mem), K)
  BY <1>2, Zenon DEF UnpairScan, Reads
<1>4. PICK q : q = req'[r]
  OBVIOUS
<1>5. /\ q.op = "unpair" /\ q.mem = mem
      /\ \A p \in Reqs : p # r => Aside(p)
  BY <1>1, <1>3, <1>4, Moves
<1>6. PICK l \in LinkIds : /\ l = req[r].mem.link /\ links[l] # Absent
                           /\ DOMAIN req[r].mem = {"link", "pair", "todo"}
                           /\ req[r].mem.pair = links[l].pair
  BY <1>1 DEF ContactInv, HoldsContact
<1>7. /\ DOMAIN mem = {"link", "pair", "todo"} /\ mem.link = l /\ mem.todo = todo
      /\ mem.pair = links[l].pair
  BY <1>2, <1>6
<1>8. todo = OpenOver(l) /\ OpenOver(l)' = OpenOver(l)
  BY <1>1, <1>2, <1>6 DEF OpenOver
<1>9. HoldsContact(q)'
  <2>1. links'[l] # Absent /\ q.mem.pair = links'[l].pair /\ OpenOver(l)' \subseteq todo \cup late'
    BY <1>1, <1>5, <1>6, <1>7, <1>8
  <2>2. \A m \in todo : m \in MailIds /\ mail'[m] # Absent
    BY <1>1, <1>8 DEF OpenOver
  <2> QED
    BY <1>5, <1>7, <2>1, <2>2 DEF HoldsContact, MailOps
<1>10. HoldsContact(req[r])'
  BY <1>4, <1>9
<1> QED
  BY <1>1, <1>5, <1>10, ContactStays

\* It closes one of them.
LEMMA UnpairCloses ==
  ASSUME AllFormed, ContactInv, NEW r \in Reqs, UnpairClose(r)
  PROVE  ContactInv'
<1>1. UNCHANGED <<asks, links, pairRow, late, overwritten>> /\ At(r, "unpair", "close")
  BY DEF UnpairClose
<1>2. PICK m \in req[r].mem.todo :
        /\ mail' = [mail EXCEPT ![m].open = FALSE]
        /\ Writes(r, On(req[r], "close", {}, [req[r].mem EXCEPT !.todo = @ \ {m}]), {<<"mail", m>>})
  BY Zenon DEF UnpairClose
<1>3. PICK todo, mem : todo = req[r].mem.todo \ {m} /\ mem = [req[r].mem EXCEPT !.todo = todo]
  OBVIOUS
<1>4. \E held, K : Writes(r, On(req[r], "close", held, mem), K)
  BY <1>2, <1>3, Zenon
<1>5. PICK q : q = req'[r]
  OBVIOUS
<1>6. /\ q.op = "unpair" /\ q.mem = mem
      /\ \A p \in Reqs : p # r => Aside(p)
  BY <1>1, <1>4, <1>5, Moves DEF At
<1>7. PICK l \in LinkIds : /\ l = req[r].mem.link /\ links[l] # Absent
                           /\ DOMAIN req[r].mem = {"link", "pair", "todo"}
                           /\ req[r].mem.pair = links[l].pair
                           /\ \A k \in req[r].mem.todo : k \in MailIds /\ mail[k] # Absent
                           /\ OpenOver(l) \subseteq req[r].mem.todo \cup late
  BY <1>1 DEF ContactInv, HoldsContact, At
<1>8. /\ DOMAIN mem = {"link", "pair", "todo"} /\ mem.link = l /\ mem.todo = todo
      /\ mem.pair = links[l].pair
  BY <1>3, <1>7
<1>9. /\ mail' \in [MailIds -> MailRow \cup {Absent}]
      /\ \A k \in MailIds : mail[k] # Absent => mail'[k] # Absent
      /\ \A k : OpenOver(k)' \subseteq OpenOver(k) \ {m}
  <2>1. m \in MailIds /\ mail[m] # Absent
    BY <1>7
  <2>2. PICK old \in MailRow, row \in MailRow : old = mail[m] /\ row = [old EXCEPT !.open = FALSE]
    BY <2>1 DEF ContactInv, ContactTypes, MailRow
  <2>3. row.open = FALSE
    BY <2>2 DEF MailRow
  <2>4. /\ mail' \in [MailIds -> MailRow \cup {Absent}]
        /\ mail'[m] = row /\ \A k \in MailIds : k # m => mail'[k] = mail[k]
    BY <1>2, <2>1, <2>2, <2>3 DEF ContactInv, ContactTypes
  <2>5. \A k \in MailIds : mail[k] # Absent => mail'[k] # Absent
    BY <2>3, <2>4, PairingAssumption
  <2> QED
    BY <2>3, <2>4, <2>5 DEF OpenOver
<1>10. HoldsContact(q)'
  <2>1. links'[l] # Absent /\ q.mem.pair = links'[l].pair /\ OpenOver(l)' \subseteq todo \cup late'
    BY <1>1, <1>3, <1>6, <1>7, <1>8, <1>9
  <2>2. \A k \in todo : k \in MailIds /\ mail'[k] # Absent
    BY <1>3, <1>7, <1>9
  <2> QED
    BY <1>6, <1>8, <2>1, <2>2 DEF HoldsContact, MailOps
<1>11. ContactTypes' /\ HoldsContact(req[r])'
  BY <1>1, <1>5, <1>9, <1>10 DEF ContactInv, ContactTypes
<1>12. UnpairClosesMail'
  BY <1>1, <1>9 DEF ContactInv, UnpairClosesMail, Live
<1> QED
  BY <1>1, <1>6, <1>9, <1>11, <1>12, ContactKept

\* The link goes when all its threads are closed, and the pair row whatever link
\* it leads to.
LEMMA UnpairCommits ==
  ASSUME AllFormed, ContactInv, NEW r \in Reqs, UnpairCommit(r)
  PROVE  ContactInv'
<1>1. UNCHANGED <<asks, mail, late>> /\ At(r, "unpair", "close") /\ req[r].mem.todo = {}
  BY DEF UnpairCommit
<1>2. PICK l \in LinkIds, c \in Couples :
        /\ l = req[r].mem.link /\ links[l] # Absent
        /\ c = req[r].mem.pair /\ c = links[l].pair
        /\ OpenOver(l) \subseteq late
  BY <1>1 DEF ContactInv, ContactTypes, HoldsContact, At, LinkRow
<1>3. PICK old \in LinkRow, row \in LinkRow : old = links[l] /\ row = [old EXCEPT !.live = FALSE]
  BY <1>2 DEF ContactInv, ContactTypes, LinkRow
<1>4. row.pair = c /\ row.live = FALSE
  BY <1>2, <1>3 DEF LinkRow
<1>5. /\ links' = [links EXCEPT ![l] = row]
      /\ pairRow' = [pairRow EXCEPT ![c] = Absent]
      /\ Writes(r, Idle, {})
  BY <1>2, <1>3 DEF UnpairCommit, Leaves
<1>6. /\ links' \in [LinkIds -> LinkRow \cup {Absent}]
      /\ pairRow' \in [Couples -> LinkIds \cup {Absent}]
      /\ links'[l] = row /\ \A k \in LinkIds : k # l => links'[k] = links[k]
  BY <1>4, <1>5 DEF ContactInv, ContactTypes
<1>7. ContactTypes'
  BY <1>1, <1>6 DEF ContactInv, ContactTypes
<1>8. \A k : OpenOver(k)' = OpenOver(k)
  BY <1>1 DEF OpenOver
<1>9. UnpairClosesMail'
  BY <1>1, <1>2, <1>6, <1>8 DEF ContactInv, UnpairClosesMail, Live
<1>10. req'[r].op = "none" /\ \A p \in Reqs : p # r => Aside(p)
  BY <1>5, Closes
<1>11. HoldsContact(req[r])'
  BY <1>10 DEF HoldsContact, MailOps
<1>12. ASSUME NEW k \in LinkIds, links[k] # Absent
       PROVE  links'[k] # Absent /\ links'[k].pair = links[k].pair
  BY <1>2, <1>4, <1>6, <1>12, PairingAssumption
<1> QED
  BY <1>1, <1>5, <1>7, <1>8, <1>9, <1>10, <1>11, <1>12, ContactKept

-----------------------------------------------------------------------------
\* createThread and postReply over a link

\* createThread reads the link of a pair.
LEMMA MailBegins ==
  ASSUME AllFormed, ContactInv, NEW r \in Reqs, NEW c \in Couples, MailStart(r, c)
  PROVE  ContactInv'
<1>1. UNCHANGED <<asks, links, pairRow, mail, late, overwritten>>
  BY DEF MailStart, pairingRows
<1>2. PICK l \in LinkIds : l = pairRow[c]
  BY DEF MailStart, ContactInv, ContactTypes
<1>3. PICK mem : mem = [link |-> l, count |-> mailCount[l] + 1, thread |-> Absent]
  OBVIOUS
<1>4. Writes(r, Begin("mail", "count", {<<"mailCount", l>>}, mem), {})
  BY <1>2, <1>3, Zenon DEF MailStart, Reads
<1>5. /\ req'[r].op = "mail" /\ req'[r].mem = mem
      /\ \A p \in Reqs : p # r => Aside(p)
  BY <1>4, Opens
<1>6. HoldsContact(req[r])'
  BY <1>3, <1>5 DEF HoldsContact, MailOps
<1> QED
  BY <1>1, <1>5, <1>6, ContactStays

\* postReply reads a thread of a link.
LEMMA ReplyBegins ==
  ASSUME AllFormed, ContactInv, NEW r \in Reqs, NEW t \in MailIds, ReplyStart(r, t)
  PROVE  ContactInv'
<1>1. UNCHANGED <<asks, links, pairRow, mail, late, overwritten>>
  BY DEF ReplyStart, pairingRows
<1>2. PICK l \in LinkIds : l = mail[t].link
  BY DEF ReplyStart, ContactInv, ContactTypes, MailRow
<1>3. PICK mem : mem = [link |-> l, count |-> mailCount[l] + 1, thread |-> t]
  OBVIOUS
<1>4. Writes(r, Begin("reply", "count", {<<"mailCount", l>>, <<"mail", t>>}, mem), {})
  BY <1>2, <1>3, Zenon DEF ReplyStart, Reads
<1>5. /\ req'[r].op = "reply" /\ req'[r].mem = mem
      /\ \A p \in Reqs : p # r => Aside(p)
  BY <1>4, Opens
<1>6. HoldsContact(req[r])'
  BY <1>3, <1>5 DEF HoldsContact, MailOps
<1> QED
  BY <1>1, <1>5, <1>6, ContactStays

\* Both count the message before they write it.
LEMMA MailCounts ==
  ASSUME AllFormed, ContactInv, NEW r \in Reqs, MailCounted(r)
  PROVE  ContactInv'
<1>1. /\ UNCHANGED <<asks, links, pairRow, mail, late>> /\ overwritten \subseteq overwritten'
      /\ req[r].op \in MailOps
  BY DEF MailCounted, Clobbers
<1>2. \E K : Writes(r, On(req[r], "commit", {}, req[r].mem), K)
  BY Zenon DEF MailCounted
<1>3. /\ req'[r].op = req[r].op /\ req'[r].mem = req[r].mem
      /\ \A p \in Reqs : p # r => Aside(p)
  BY <1>2, Passing
<1>4. HoldsContact(req[r])'
  BY <1>1, <1>3 DEF HoldsContact, MailOps, ContactInv
<1> QED
  BY <1>1, <1>3, <1>4, ContactStays

\* A thread that is written after an unpairing of its link has its list is late.
LEMMA MailCommits ==
  ASSUME AllFormed, ContactInv, NEW r \in Reqs, MailCommit(r)
  PROVE  ContactInv'
<1>1. UNCHANGED <<asks, links, pairRow, overwritten>> /\ req[r].op \in MailOps
  BY DEF MailCommit
<1>2. PICK l \in LinkIds : l = req[r].mem.link
  BY <1>1 DEF ContactInv, HoldsContact
<1>3. PICK row : row = [link |-> l, open |-> TRUE]
  OBVIOUS
<1>4. PICK t \in MailIds : /\ mail' = [mail EXCEPT ![t] = row]
                           /\ late' = IF Unpairing(l) THEN late \cup {t} ELSE late
                           /\ Writes(r, Idle, {<<"mail", t>>})
  BY <1>2, <1>3 DEF MailCommit, Leaves
<1>5. row \in MailRow /\ row.link = l
  BY <1>3 DEF MailRow
<1>6. /\ ContactTypes'
      /\ mail'[t] = row /\ \A m \in MailIds : m # t => mail'[m] = mail[m]
      /\ \A m \in MailIds : mail[m] # Absent => mail'[m] # Absent
  BY <1>1, <1>4, <1>5, PairingAssumption DEF ContactInv, ContactTypes
<1>7. late \subseteq late' /\ (Unpairing(l) => t \in late')
  BY <1>4
<1>8. ASSUME NEW k \in LinkIds, k = l => Unpairing(l)
      PROVE  OpenOver(k)' \subseteq OpenOver(k) \cup late'
  BY <1>5, <1>6, <1>7, <1>8 DEF OpenOver
<1>9. UnpairClosesMail'
  <2> SUFFICES ASSUME NEW k \in LinkIds, links[k] # Absent, ~Live(k)
               PROVE  OpenOver(k)' \subseteq late'
    BY <1>1 DEF UnpairClosesMail, Live
  <2>1. OpenOver(k) \subseteq late
    BY DEF ContactInv, UnpairClosesMail
  <2>2. k = l => Unpairing(l)
    BY DEF Unpairing
  <2> QED
    BY <1>7, <1>8, <2>1, <2>2
<1>10. req'[r].op = "none" /\ \A p \in Reqs : p # r => Aside(p)
  BY <1>4, Closes
<1>11. HoldsContact(req[r])'
  BY <1>10 DEF HoldsContact, MailOps
<1>12. ASSUME NEW p \in Reqs, p # r, NEW k \in LinkIds, At(p, "unpair", "close"), k = req[p].mem.link
       PROVE  OpenOver(k)' \subseteq OpenOver(k) \cup late'
  <2>1. k = l => Unpairing(l)
    BY <1>12 DEF Unpairing
  <2> QED
    BY <1>8, <2>1
<1> QED
  BY <1>1, <1>6, <1>7, <1>9, <1>10, <1>11, <1>12, ContactKept

-----------------------------------------------------------------------------
\* Every step

\* Requests that are answered without a commit, and those that touch no row of
\* links, requests to pair and threads.
LEMMA ContactAnswers ==
  ASSUME AllFormed, ContactInv, NEW r \in Reqs,
         \/ \E t \in Targets : PinIssue(r, t)
         \/ SubmitWrong(r) \/ DenyRaise(r)
         \/ (SubmitFind(r) \/ ApproveLink(r) \/ DenyFlag(r)) /\ Ends(r)
  PROVE  ContactInv'
<1>1. UNCHANGED <<asks, links, pairRow, mail, late, overwritten>>
  BY DEF PinIssue, SubmitWrong, DenyRaise, SubmitFind, ApproveLink, DenyFlag, pairingRows
<1>2. Ends(r)
  BY Zenon DEF PinIssue, SubmitWrong, DenyRaise, Answer, Reads, Leaves, Ends
<1>3. Becomes(r, {})
  BY <1>2, Ending
<1> QED
  BY <1>1, <1>3, ContactAside

\* The steps of contacts keep the invariant.
LEMMA ContactsKept ==
  ASSUME AllFormed, TriesFormed, ContactInv, NEW r \in Reqs, PairingStart(r) \/ PairingStep(r)
  PROVE  ContactInv'
<1>1. CASE PairingStart(r)
  BY <1>1, ContactAnswers, SubmitBegins, ResolvingBegins, UnpairBegins, MailBegins, ReplyBegins
     DEF PairingStart
<1>2. CASE PairingStep(r)
  BY <1>2, ContactAnswers, SubmitCounts, SubmitTriesPin, SubmitClears, SubmitFinds, SubmitCommits,
     ApproveFindsNone, ApproveCommits, DenyPasses, DenyResolves, UnpairScans, UnpairCloses,
     UnpairCommits, MailCounts, MailCommits DEF PairingStep
<1> QED
  BY <1>1, <1>2

\* Every step keeps it.
LEMMA StepContacts ==
  ASSUME AllFormed, TriesFormed, ContactInv, [Next]_vars
  PROVE  ContactInv'
<1>1. ASSUME NEW r \in Reqs, Contacts(r) PROVE ContactInv'
  BY <1>1, ContactsKept DEF Contacts
<1>2. ASSUME NEW r \in Reqs, Directory(r) \/ Agency(r) \/ Keyring(r) \/ Shelf(r) \/ Dies(r)
      PROVE  ContactInv'
  <2>1. PICK Ops : Becomes(r, Ops) /\ Ops \cap ContactOps = {}
    BY <1>2, DirectoryFrame, AgencyFrame, KeyringFrame, ShelfFrame, DeathFrame
       DEF OrgOps, RegistryOps, ListingOps, AgentOps, DeviceOps, KeyOps, ContactOps, ShelfOps
  <2>2. UNCHANGED <<asks, links, pairRow, mail, late>>
    BY <1>2 DEF Directory, Agency, Keyring, Shelf, Dies, hubRows, pairingRows
  <2> QED
    BY <2>1, <2>2, ContactAside
<1>3. CASE UNCHANGED <<req, asks, links, pairRow, mail, late>>
  <2>1. ContactTypes'
    BY <1>3 DEF ContactInv, ContactTypes
  <2>2. UnpairClosesMail'
    BY <1>3 DEF ContactInv, UnpairClosesMail, Live, OpenOver
  <2>3. \A p \in Reqs : HoldsContact(req[p])'
    BY <1>3 DEF ContactInv, HoldsContact, OpenOver
  <2> QED
    BY <2>1, <2>2, <2>3 DEF ContactInv
<1>4. CASE Time
  BY <1>3, <1>4 DEF Time, PairingTime, PinExpires, LockEnds
<1> QED
  BY <1>1, <1>2, <1>3, <1>4 DEF Next, vars, hubRows, pairingRows

\* It holds at the start, whether nobody is connected, a couple is, or two requests wait.
LEMMA InitContacts == Init => TriesFormed /\ ContactInv
<1> SUFFICES ASSUME Init PROVE TriesFormed /\ ContactInv
  OBVIOUS
<1>1. TriesFormed
  BY PairingAssumption DEF Init, InitRequests, TriesFormed
<1>2. PICK first \in Couples, second \in Couples :
        /\ asks = [a \in AskIds |->
             IF "deny" \in scope.ops /\ a <= 2 THEN Asked(IF a = 1 THEN first ELSE second) ELSE Absent]
        /\ links = [l \in LinkIds |-> IF "mail" \in scope.ops /\ l = 1 THEN [pair |-> first, live |-> TRUE] ELSE Absent]
        /\ pairRow = [c \in Couples |-> IF "mail" \in scope.ops /\ c = first THEN 1 ELSE Absent]
        /\ mail = [m \in MailIds |-> IF "mail" \in scope.ops /\ m = 1 THEN [link |-> 1, open |-> TRUE] ELSE Absent]
  BY DEF Init, InitPairing
<1>3. \A c \in Couples : Asked(c) \in AskRow
  BY DEF Asked, Couples, AskRow, AskStatuses
<1>4. PICK link, thread : link = [pair |-> first, live |-> TRUE] /\ thread = [link |-> 1, open |-> TRUE]
  OBVIOUS
<1>5. link \in LinkRow /\ link.pair = first /\ link.live /\ 1 \in LinkIds /\ thread \in MailRow
  BY <1>4, PairingAssumption DEF LinkRow, MailRow, LinkIds
<1>6. /\ links = [l \in LinkIds |-> IF "mail" \in scope.ops /\ l = 1 THEN link ELSE Absent]
      /\ mail = [m \in MailIds |-> IF "mail" \in scope.ops /\ m = 1 THEN thread ELSE Absent]
  BY <1>2, <1>4
<1>7. ContactTypes
  BY <1>2, <1>3, <1>5, <1>6 DEF ContactTypes
<1>8. UnpairClosesMail
  BY <1>2, <1>5, <1>6, PairingAssumption DEF UnpairClosesMail, Live
<1>9. \A p \in Reqs : HoldsContact(req[p])
  BY DEF Init, InitRequests, Idle, HoldsContact, MailOps
<1> QED
  BY <1>1, <1>7, <1>8, <1>9 DEF ContactInv

\* The invariant of contacts, for every behaviour.
LEMMA ContactsAreKept == Spec => [](AllFormed /\ TriesFormed /\ ContactInv)
<1>1. AllFormed /\ TriesFormed /\ ContactInv /\ [Next]_vars => (AllFormed /\ TriesFormed /\ ContactInv)'
  BY FormedKept, TriesKept, StepContacts
<1> QED
  BY <1>1, InitFormed, InitContacts, PTL DEF Spec

\* When unpairExternalContact is done, every thread of the link is closed, except
\* those that createThread or postReply wrote after it had listed them.
THEOREM UnpairingClosesMail == Spec => []UnpairClosesMail
<1>1. ContactInv => UnpairClosesMail
  BY DEF ContactInv
<1> QED
  BY <1>1, ContactsAreKept, PTL

-----------------------------------------------------------------------------
(* Agents *)

\* What a request that works on an agent has: the agent's row, as it was when
\* it was read.  An agent's transport never changes.
WorksOnAgent(q) ==
  q.op \in {"handshake", "rename"} \/ (q.op = "connect" /\ q.pc \in {"refresh", "slot", "legacy"})
MakesAgent(q) == q.op = "connect" /\ q.pc \in {"load", "migrate", "commit"}

HoldsAgent(q) ==
  /\ WorksOnAgent(q) =>
       /\ q.mem.agent \in AgentIds /\ agents[q.mem.agent] # Absent
       /\ q.mem.row \in AgentRow /\ q.mem.row.transport = agents[q.mem.agent].transport
       /\ <<"agent", q.mem.agent>> \in q.held
       /\ <<"agent", q.mem.agent>> \in q.stale \/ q.mem.row = agents[q.mem.agent]
  /\ q.op = "connect" /\ ~WorksOnAgent(q) => MakesAgent(q)
  /\ q.op = "connect" /\ q.pc = "legacy" => q.mem.row.transport = "sidecar"
  /\ MakesAgent(q) => q.mem.slug \in AgentSlugs /\ q.mem.transport \in Transports
  /\ q.op = "rename" => q.mem.to \in AgentSlugs /\ q.pc \in {"load", "migrate", "commit"}
  /\ q.op = "rename" /\ q.pc \in {"migrate", "commit"} /\ q.mem.dropOld => q.mem.row.transport = "sidecar"

\* No request is about to take slot (s, "sidecar") from agent a, which is found
\* by the old pointer only.
Spares(q, a, s) ==
  /\ WorksOnAgent(q) /\ q.mem.agent # a /\ q.mem.row.transport = "sidecar" => q.mem.row.slug # s
  /\ MakesAgent(q) /\ q.mem.transport = "sidecar" => q.mem.slug # s
  /\ q.op = "rename" /\ q.mem.agent # a /\ q.mem.row.transport = "sidecar" => q.mem.to # s

\* Agent a is found by the old pointer only, and nobody else would be there.
Alone(a, s) ==
  /\ legacy[s] = a
  /\ \A b \in AgentIds : b # a /\ agents[b] # Absent => agents[b] # [slug |-> s, transport |-> "sidecar"]
  /\ \A p \in Reqs : Spares(req[p], a, s)

HasSlot(a, s, t) == slot[s][t] = a \/ (slot[s][t] = Absent /\ t = "sidecar" /\ Alone(a, s))

Present(a) ==
  /\ agents[a] # Absent /\ <<"agent", a>> \notin overwritten
  /\ <<"slot", agents[a].slug, agents[a].transport>> \notin overwritten

AgentTable ==
  /\ agents \in [AgentIds -> AgentRow \cup {Absent}]
  /\ slot \in [AgentSlugs -> [Transports -> AgentIds \cup {Absent}]]
  /\ legacy \in [AgentSlugs -> AgentIds \cup {Absent}]
  /\ \A s \in AgentSlugs, t \in Transports :
       slot[s][t] # Absent => agents[slot[s][t]] # Absent /\ agents[slot[s][t]].transport = t
  /\ \A s \in AgentSlugs :
       legacy[s] # Absent => agents[legacy[s]] # Absent /\ agents[legacy[s]].transport = "sidecar"

AgentInv ==
  /\ AgentTable
  /\ \A p \in Reqs : HoldsAgent(req[p])
  /\ \A a \in AgentIds : Present(a) => HasSlot(a, agents[a].slug, agents[a].transport)

\* A step of request r that writes no row of an agent.
LEMMA AgentsRest ==
  ASSUME AgentInv, NEW r \in Reqs, \A p \in Reqs : p # r => Aside(p),
         UNCHANGED <<agents, slot, legacy>>, overwritten \subseteq overwritten', HoldsAgent(req'[r]),
         \A a \in AgentIds : Present(a) /\ Alone(a, agents[a].slug) /\ agents[a].transport = "sidecar"
                            => Spares(req'[r], a, agents[a].slug)
  PROVE  AgentInv'
<1>1. AgentTable'
  BY DEF AgentInv, AgentTable
<1>2. ASSUME NEW p \in Reqs PROVE HoldsAgent(req[p])'
  <2>1. CASE p = r
    BY <2>1 DEF HoldsAgent, WorksOnAgent, MakesAgent
  <2>2. CASE p # r
    BY <2>2 DEF AgentInv, HoldsAgent, WorksOnAgent, MakesAgent, Aside
  <2> QED
    BY <2>1, <2>2
<1>3. ASSUME NEW a \in AgentIds, Present(a)'
      PROVE  HasSlot(a, agents[a].slug, agents[a].transport)'
  <2>1. Present(a) /\ HasSlot(a, agents[a].slug, agents[a].transport)
    BY <1>3 DEF AgentInv, Present
  <2>2. ASSUME Alone(a, agents[a].slug), agents[a].transport = "sidecar" PROVE Alone(a, agents[a].slug)'
    <3>1. ASSUME NEW p \in Reqs PROVE Spares(req'[p], a, agents[a].slug)
      BY <2>1, <2>2 DEF Alone, Spares, WorksOnAgent, MakesAgent, Aside
    <3> QED
      BY <2>2, <3>1 DEF Alone, Spares, WorksOnAgent, MakesAgent
  <2> QED
    BY <2>1, <2>2 DEF HasSlot
<1> QED
  BY <1>1, <1>2, <1>3 DEF AgentInv

\* A step that writes some: no transport changes, and who held a row knows.
LEMMA AgentsMove ==
  ASSUME AgentInv, NEW r \in Reqs, \A p \in Reqs : p # r => Aside(p), AgentTable', HoldsAgent(req[r])',
         \A b \in AgentIds : agents[b] # Absent =>
           /\ agents'[b] # Absent /\ agents'[b].transport = agents[b].transport
           /\ \A p \in Reqs : p # r /\ <<"agent", b>> \in req[p].held =>
                <<"agent", b>> \in req'[p].stale \/ agents'[b] = agents[b],
         \A a \in AgentIds : Present(a)' =>
           \/ slot'[agents'[a].slug][agents'[a].transport] = a
           \/ /\ agents'[a] = agents[a] /\ slot[agents[a].slug][agents[a].transport] = Absent
              /\ slot'[agents[a].slug][agents[a].transport] = Absent
              /\ legacy'[agents[a].slug] = legacy[agents[a].slug]
              /\ overwritten \subseteq overwritten'
              /\ agents[a].transport = "sidecar" /\ Alone(a, agents[a].slug) =>
                   /\ Spares(req'[r], a, agents[a].slug)
                   /\ \A b \in AgentIds : b # a /\ agents'[b] # Absent =>
                        agents'[b] # [slug |-> agents[a].slug, transport |-> "sidecar"]
  PROVE  AgentInv'
<1>2. ASSUME NEW p \in Reqs, p # r PROVE HoldsAgent(req[p])'
  <2>1. HoldsAgent(req[p]) /\ Aside(p)
    BY <1>2 DEF AgentInv
  <2> QED
    BY <1>2, <2>1 DEF HoldsAgent, WorksOnAgent, MakesAgent, Aside
<1>3. ASSUME NEW a \in AgentIds, Present(a)'
      PROVE  HasSlot(a, agents[a].slug, agents[a].transport)'
  <2>1. CASE slot'[agents'[a].slug][agents'[a].transport] = a
    BY <2>1 DEF HasSlot
  <2>2. CASE slot'[agents'[a].slug][agents'[a].transport] # a
    <3>1. /\ agents'[a] = agents[a] /\ slot[agents[a].slug][agents[a].transport] = Absent
          /\ slot'[agents[a].slug][agents[a].transport] = Absent
          /\ legacy'[agents[a].slug] = legacy[agents[a].slug]
          /\ overwritten \subseteq overwritten'
          /\ agents[a].transport = "sidecar" /\ Alone(a, agents[a].slug) =>
               /\ Spares(req'[r], a, agents[a].slug)
               /\ \A b \in AgentIds : b # a /\ agents'[b] # Absent =>
                    agents'[b] # [slug |-> agents[a].slug, transport |-> "sidecar"]
      BY <1>3, <2>2
    <3>2. Present(a)
      BY <1>3, <3>1 DEF Present
    <3>3. agents[a].transport = "sidecar" /\ Alone(a, agents[a].slug)
      BY <3>1, <3>2, AgentAssumption DEF AgentInv, HasSlot
    <3>4. ASSUME NEW p \in Reqs PROVE Spares(req'[p], a, agents[a].slug)
      BY <3>1, <3>3 DEF Alone, Spares, WorksOnAgent, MakesAgent, Aside
    <3>5. Alone(a, agents[a].slug)'
      BY <3>1, <3>3, <3>4 DEF Alone, Spares, WorksOnAgent, MakesAgent
    <3> QED
      BY <3>1, <3>3, <3>5 DEF HasSlot
  <2> QED
    BY <2>1, <2>2
<1> QED
  BY <1>2, <1>3 DEF AgentInv

\* Requests of other components, and those that only route, keep AgentInv.
LEMMA AgentsAside ==
  ASSUME AgentInv, NEW r \in Reqs, \A p \in Reqs : p # r => Aside(p),
         UNCHANGED <<agents, slot, legacy>>, overwritten \subseteq overwritten',
         req'[r].op \notin {"connect", "handshake", "rename"}
  PROVE  AgentInv'
<1>1. HoldsAgent(req'[r])
  BY DEF HoldsAgent, WorksOnAgent, MakesAgent
<1>2. \A a, s : Spares(req'[r], a, s)
  BY DEF Spares, WorksOnAgent, MakesAgent
<1> QED
  BY <1>1, <1>2, AgentsRest

LEMMA AgentsAsideOps ==
  ASSUME AllFormed, AgentInv, NEW r \in Reqs, NEW Ops, Becomes(r, Ops),
         Ops \cap {"connect", "handshake", "rename"} = {},
         UNCHANGED <<agents, slot, legacy>>, overwritten \subseteq overwritten'
  PROVE  AgentInv'
<1>1. req'[r].op \in Ops \cup {"none"} /\ \A p \in Reqs : p # r => Aside(p)
  BY Bystanders
<1> QED
  BY <1>1, AgentsAside

\* What a lookup finds is there, in that transport.
LEMMA Looked ==
  ASSUME AgentInv, NEW s \in AgentSlugs, NEW t \in Transports, NEW a, a = Lookup(s, t), a # Absent
  PROVE  a \in AgentIds /\ agents[a] # Absent /\ agents[a] \in AgentRow /\ agents[a].transport = t
BY DEF AgentInv, AgentTable, Lookup

\* connectAgent begins: with an agent it found, or a slot that is free.
LEMMA ConnectBegins ==
  ASSUME AllFormed, AgentInv, NEW r \in Reqs, NEW s \in AgentSlugs, NEW t \in Transports, ConnectStart(r, s, t)
  PROVE  AgentInv'
<1> DEFINE a == Lookup(s, t)
<1>1. UNCHANGED <<agents, slot, legacy>> /\ overwritten' = overwritten
  BY DEF ConnectStart, agentRows
<1>2. CASE a # Absent
  <2>1. Writes(r, Begin("connect", "refresh", {<<"agent", a>>},
                        [agent |-> a, row |-> [agents[a] EXCEPT !.transport = t]]), {})
    BY <1>2 DEF ConnectStart, Reads
  <2>2. /\ req'[r].op = "connect" /\ req'[r].pc = "refresh" /\ req'[r].held = {<<"agent", a>>}
        /\ req'[r].mem = [agent |-> a, row |-> [agents[a] EXCEPT !.transport = t]]
        /\ \A p \in Reqs : p # r => Aside(p)
    BY <2>1, Opens
  <2>3. a \in AgentIds /\ agents[a] # Absent /\ agents[a] \in AgentRow /\ agents[a].transport = t
    BY <1>2, Looked
  <2>4. [agents[a] EXCEPT !.transport = t] = agents[a]
    BY <2>3 DEF AgentRow
  <2>5. req'[r].mem.agent = a /\ req'[r].mem.row = agents[a]
    BY <2>2, <2>4
  <2> HIDE DEF a
  <2>6. HoldsAgent(req'[r])
    BY <2>2, <2>3, <2>5 DEF HoldsAgent, WorksOnAgent, MakesAgent
  <2>7. ASSUME NEW b \in AgentIds, Alone(b, agents[b].slug), agents[b].transport = "sidecar"
        PROVE  Spares(req'[r], b, agents[b].slug)
    <3>1. b # a => agents[a] # [slug |-> agents[b].slug, transport |-> "sidecar"]
      BY <2>3, <2>7 DEF Alone
    <3>2. b # a /\ agents[a].transport = "sidecar" => agents[a].slug # agents[b].slug
      BY <2>3, <3>1 DEF AgentRow
    <3> QED
      BY <2>2, <2>5, <3>2 DEF Spares, WorksOnAgent, MakesAgent
  <2> QED
    BY <1>1, <2>2, <2>6, <2>7, AgentsRest
<1>3. CASE a = Absent
  <2>1. Writes(r, Begin("connect", "load", {}, [slug |-> s, transport |-> t]), {})
    BY <1>3 DEF ConnectStart, Reads
  <2>2. /\ req'[r].op = "connect" /\ req'[r].pc = "load" /\ req'[r].mem = [slug |-> s, transport |-> t]
        /\ \A p \in Reqs : p # r => Aside(p)
    BY <2>1, Opens
  <2>3. HoldsAgent(req'[r])
    BY <2>2 DEF HoldsAgent, WorksOnAgent, MakesAgent
  <2>4. ASSUME NEW b \in AgentIds, Alone(b, agents[b].slug), agents[b].transport = "sidecar"
        PROVE  Spares(req'[r], b, agents[b].slug)
    <3>1. t = "sidecar" /\ s = agents[b].slug => a # Absent
      BY <2>4, AgentAssumption DEF Alone, Lookup
    <3> QED
      BY <1>3, <2>2, <3>1 DEF Spares, WorksOnAgent, MakesAgent
  <2> QED
    BY <1>1, <2>2, <2>3, <2>4, AgentsRest
<1> QED
  BY <1>2, <1>3

\* putAgentHandshake and renameAgent begin: with the agent's row.
LEMMA WorkBegins ==
  ASSUME AllFormed, AgentInv, NEW r \in Reqs, NEW a \in AgentIds,
         HandshakeStart(r, a) \/ \E s \in AgentSlugs : RenameStart(r, a, s)
  PROVE  AgentInv'
<1>1. UNCHANGED <<agents, slot, legacy>> /\ overwritten' = overwritten /\ agents[a] # Absent
  BY DEF HandshakeStart, RenameStart, agentRows
<1>2. agents[a] \in AgentRow
  BY <1>1 DEF AgentInv, AgentTable
<1>3. ASSUME NEW b \in AgentIds, Alone(b, agents[b].slug), b # a, agents[a].transport = "sidecar"
      PROVE  agents[a].slug # agents[b].slug
  <2>1. agents[a] # [slug |-> agents[b].slug, transport |-> "sidecar"]
    BY <1>1, <1>3 DEF Alone
  <2> QED
    BY <1>2, <1>3, <2>1 DEF AgentRow
<1>4. CASE HandshakeStart(r, a)
  <2>1. Writes(r, Begin("handshake", "commit", {<<"agent", a>>}, [agent |-> a, row |-> agents[a]]), {})
    BY <1>4 DEF HandshakeStart, Reads
  <2>2. /\ req'[r].op = "handshake" /\ req'[r].pc = "commit" /\ req'[r].held = {<<"agent", a>>}
        /\ req'[r].mem.agent = a /\ req'[r].mem.row = agents[a]
        /\ \A p \in Reqs : p # r => Aside(p)
    BY <2>1, Opens
  <2>3. HoldsAgent(req'[r])
    BY <1>1, <1>2, <2>2 DEF HoldsAgent, WorksOnAgent, MakesAgent
  <2>4. \A b \in AgentIds : Alone(b, agents[b].slug) => Spares(req'[r], b, agents[b].slug)
    BY <1>3, <2>2 DEF Spares, WorksOnAgent, MakesAgent
  <2> QED
    BY <1>1, <2>2, <2>3, <2>4, AgentsRest
<1>5. ASSUME NEW s \in AgentSlugs, RenameStart(r, a, s) PROVE AgentInv'
  <2>1. Writes(r, Begin("rename", "load", {<<"agent", a>>}, [agent |-> a, row |-> agents[a], to |-> s]), {})
    BY <1>5 DEF RenameStart, Reads
  <2>2. /\ req'[r].op = "rename" /\ req'[r].pc = "load" /\ req'[r].held = {<<"agent", a>>}
        /\ req'[r].mem.agent = a /\ req'[r].mem.row = agents[a] /\ req'[r].mem.to = s
        /\ \A p \in Reqs : p # r => Aside(p)
    BY <2>1, Opens
  <2>3. HoldsAgent(req'[r])
    BY <1>1, <1>2, <2>2 DEF HoldsAgent, WorksOnAgent, MakesAgent
  <2>4. ASSUME NEW b \in AgentIds, Alone(b, agents[b].slug), agents[b].transport = "sidecar",
               slot[agents[b].slug]["sidecar"] \in {Absent, b}
        PROVE  Spares(req'[r], b, agents[b].slug)
    <3>1. b # a /\ agents[a].transport = "sidecar" => s # agents[b].slug
      BY <1>5, <2>4, AgentAssumption DEF RenameStart, Alone, Lookup
    <3> QED
      BY <1>3, <2>2, <2>4, <3>1 DEF Spares, WorksOnAgent, MakesAgent
  <2>5. ASSUME NEW b \in AgentIds, Present(b), Alone(b, agents[b].slug), agents[b].transport = "sidecar"
        PROVE  slot[agents[b].slug]["sidecar"] \in {Absent, b}
    BY <2>5 DEF AgentInv, HasSlot
  <2> QED
    BY <1>1, <2>2, <2>3, <2>4, <2>5, AgentsRest
<1> QED
  BY <1>4, <1>5

\* The others begin with the router.
LEMMA RoutingBegins ==
  ASSUME AllFormed, AgentInv, NEW r \in Reqs,
         \/ \E s \in AgentSlugs, t \in Transports : PreferStart(r, s, t)
         \/ \E d \in AgentIds \cup {Absent}, u \in ClientRules \cup {Absent} : RouterStart(r, d, u)
         \/ LookStart(r)
  PROVE  AgentInv'
<1>1. UNCHANGED <<agents, slot, legacy>> /\ overwritten' = overwritten
  BY DEF PreferStart, RouterStart, LookStart, agentRows
<1>2. ASSUME NEW op \in {"router", "look"}, NEW m, LoadsRouter(r, Begin(op, "load", {}, Absent), m)
      PROVE  Becomes(r, {"router", "look"})
  <2> DEFINE q == Begin(op, "load", {}, Absent)
  <2>1. Formed(q) /\ q.op = op /\ op \in AgentOps
    BY DEF Formed, Begin, AgentOps
  <2> HIDE DEF q
  <2>2. PICK pc, held, mem : Reads(r, On(q, pc, held, mem))
    BY <1>2, Zenon DEF LoadsRouter, q
  <2>3. Formed(On(q, pc, held, mem)) /\ On(q, pc, held, mem).op = op
    BY <2>1, GoingOn
  <2> QED
    BY <2>2, <2>3 DEF Reads, Becomes
<1>3. CASE \E s \in AgentSlugs, t \in Transports : PreferStart(r, s, t)
  <2>1. Becomes(r, {"prefer"})
    BY <1>3, Beginning DEF PreferStart, Reads
  <2> QED
    BY <1>1, <2>1, AgentsAsideOps
<1>4. CASE \/ \E d \in AgentIds \cup {Absent}, u \in ClientRules \cup {Absent} : RouterStart(r, d, u)
           \/ LookStart(r)
  <2>1. Becomes(r, {"router", "look"})
    BY <1>2, <1>4 DEF RouterStart, LookStart
  <2> QED
    BY <1>1, <2>1, AgentsAsideOps
<1> QED
  BY <1>3, <1>4

\* A request that goes on as before still holds what it held.
LEMMA AgentsLoad ==
  ASSUME AllFormed, AgentInv, NEW r \in Reqs, ConnectLoad(r) \/ RenameLoad(r)
  PROVE  AgentInv'
<1>1. UNCHANGED <<agents, slot, legacy>> /\ overwritten' = overwritten
  BY DEF ConnectLoad, RenameLoad, agentRows
<1>2. HoldsAgent(req[r])
  BY DEF AgentInv
<1>3. ASSUME NEW mem, LoadsRouter(r, req[r], mem), req[r].op \in AgentOps
      PROVE  /\ req'[r].op = req[r].op /\ req'[r].pc \in {"migrate", "commit"}
             /\ req[r].held \subseteq req'[r].held /\ req'[r].stale = req[r].stale /\ req'[r].mem = mem
             /\ \A p \in Reqs : p # r => Aside(p)
  <2> DEFINE K == {<<"router">>}
  <2>1. \/ Writes(r, On(req[r], "migrate", K, mem), {})
        \/ Writes(r, On(req[r], "commit", K, mem), {})
    BY <1>3, Zenon DEF LoadsRouter, Reads
  <2> HIDE DEF K
  <2>2. PICK pc, q : pc \in {"migrate", "commit"} /\ q = On(req[r], pc, K, mem) /\ Writes(r, q, {})
    BY <2>1
  <2>3. Formed(q) /\ q.op = req[r].op /\ q.pc = pc /\ q.held = req[r].held \cup K
        /\ q.stale = req[r].stale /\ q.mem = mem
    BY <1>3, <2>2, GoingOn DEF AllFormed
  <2> QED
    BY <2>2, <2>3, Writing
<1>4. CASE ConnectLoad(r)
  <2>1. At(r, "connect", "load")
    BY <1>4 DEF ConnectLoad
  <2>2. PICK mem : /\ LoadsRouter(r, req[r], mem)
                   /\ mem.slug = req[r].mem.slug /\ mem.transport = req[r].mem.transport
    BY <1>4 DEF ConnectLoad
  <2>3. /\ req'[r].op = "connect" /\ req'[r].pc \in {"migrate", "commit"} /\ req'[r].mem = mem
        /\ \A p \in Reqs : p # r => Aside(p)
    BY <1>3, <2>1, <2>2 DEF At, AgentOps
  <2>4. HoldsAgent(req'[r])
    BY <1>2, <2>1, <2>2, <2>3 DEF At, HoldsAgent, WorksOnAgent, MakesAgent
  <2>5. \A b, s : Spares(req[r], b, s) => Spares(req'[r], b, s)
    BY <2>1, <2>2, <2>3 DEF At, Spares, WorksOnAgent, MakesAgent
  <2> QED
    BY <1>1, <2>3, <2>4, <2>5, AgentsRest DEF Alone
<1>5. CASE RenameLoad(r)
  <2>1. At(r, "rename", "load")
    BY <1>5 DEF RenameLoad
  <2>2. PICK mem : /\ LoadsRouter(r, req[r], mem)
                   /\ mem.agent = req[r].mem.agent /\ mem.row = req[r].mem.row /\ mem.to = req[r].mem.to
                   /\ mem.dropOld => legacy[req[r].mem.row.slug] = req[r].mem.agent
    BY <1>5 DEF RenameLoad
  <2>3. /\ req'[r].op = "rename" /\ req'[r].pc \in {"migrate", "commit"} /\ req'[r].mem = mem
        /\ req[r].held \subseteq req'[r].held /\ req'[r].stale = req[r].stale
        /\ \A p \in Reqs : p # r => Aside(p)
    BY <1>3, <2>1, <2>2 DEF At, AgentOps
  <2>4. mem.dropOld => mem.row.transport = "sidecar"
    <3>1. /\ req[r].mem.agent \in AgentIds /\ req[r].mem.row \in AgentRow
          /\ req[r].mem.row.transport = agents[req[r].mem.agent].transport
      BY <1>2, <2>1 DEF At, HoldsAgent, WorksOnAgent
    <3>2. req[r].mem.row.slug \in AgentSlugs
      BY <3>1 DEF AgentRow
    <3> QED
      BY <2>2, <3>1, <3>2, AgentAssumption DEF AgentInv, AgentTable
  <2>5. HoldsAgent(req'[r])
    BY <1>1, <1>2, <2>1, <2>2, <2>3, <2>4 DEF At, HoldsAgent, WorksOnAgent, MakesAgent
  <2>6. \A b, s : Spares(req[r], b, s) => Spares(req'[r], b, s)
    BY <2>1, <2>2, <2>3 DEF At, Spares, WorksOnAgent, MakesAgent
  <2> QED
    BY <1>1, <2>3, <2>5, <2>6, AgentsRest DEF Alone
<1> QED
  BY <1>4, <1>5

\* A router row that was missing is stored before the commit.
LEMMA AgentsMigrate ==
  ASSUME AllFormed, AgentInv, NEW r \in Reqs, Migrate(r)
  PROVE  AgentInv'
<1>1. UNCHANGED <<agents, slot, legacy>> /\ overwritten \subseteq overwritten' /\ req[r].pc = "migrate"
  BY DEF Migrate, Clobbers
<1>2. Formed(req[r])
  BY DEF AllFormed
<1> DEFINE q == [req[r] EXCEPT !.pc = "commit", !.stale = @ \ {<<"router">>}]
<1>3. /\ q.op = req[r].op /\ q.pc = "commit" /\ q.held = req[r].held /\ q.mem = req[r].mem
      /\ q.stale = req[r].stale \ {<<"router">>} /\ Formed(q)
  BY <1>2 DEF Formed
<1>4. Writes(r, q, {<<"router">>})
  BY DEF Migrate
<1> HIDE DEF q
<1>5. req'[r] = q /\ \A p \in Reqs : p # r => Aside(p)
  BY <1>3, <1>4, Writing
<1>6. \A b \in AgentIds : <<"agent", b>> # <<"router">>
  OBVIOUS
<1>7. HoldsAgent(req[r])
  BY DEF AgentInv
<1>8. HoldsAgent(q)
  BY <1>1, <1>3, <1>6, <1>7 DEF HoldsAgent, WorksOnAgent, MakesAgent
<1>9. \A b, s : Spares(req[r], b, s) => Spares(q, b, s)
  BY <1>1, <1>3 DEF Spares, WorksOnAgent, MakesAgent
<1> QED
  BY <1>1, <1>5, <1>8, <1>9, AgentsRest DEF Alone

\* An agent's row is written back as it was read.
LEMMA RowSaved ==
  ASSUME AgentInv, NEW r \in Reqs, WorksOnAgent(req[r]), NEW x, x = req[r].mem.agent,
         agents' = [agents EXCEPT ![x] = req[r].mem.row], Clobbers(r, {<<"agent", x>>}),
         UNCHANGED <<slot, legacy>>,
         \A p \in Reqs : p # r =>
           Aside(p) /\ req'[p].stale = req[p].stale \cup (req[p].held \cap {<<"agent", x>>}),
         WorksOnAgent(req'[r]) =>
           /\ req'[r].op = "connect" /\ req'[r].pc = "slot" /\ req'[r].mem = req[r].mem
           /\ req'[r].held = req[r].held,
         ~WorksOnAgent(req'[r]) => req'[r].op = "none"
  PROVE  AgentInv'
<1>1. /\ x \in AgentIds /\ agents[x] # Absent
      /\ req[r].mem.row \in AgentRow /\ req[r].mem.row.transport = agents[x].transport
      /\ <<"agent", x>> \in req[r].held
      /\ <<"agent", x>> \in req[r].stale \/ req[r].mem.row = agents[x]
  BY DEF AgentInv, HoldsAgent
<1>2. agents \in [AgentIds -> AgentRow \cup {Absent}] /\ Absent \notin AgentRow
  BY AgentAssumption DEF AgentInv, AgentTable
<1>3. /\ overwritten \subseteq overwritten'
      /\ \A a \in AgentIds : Present(a)' => agents'[a] = agents[a] /\ Present(a)
  <2> SUFFICES ASSUME NEW a \in AgentIds, Present(a)' PROVE agents'[a] = agents[a] /\ Present(a)
    BY DEF Clobbers
  <2>1. agents'[a] = agents[a]
    BY <1>1, <1>2 DEF Present, Clobbers
  <2> QED
    BY <2>1 DEF Present, Clobbers
<1>4. /\ agents'[x] = req[r].mem.row
      /\ \A b \in AgentIds : b # x => agents'[b] = agents[b]
  BY <1>1, <1>2
<1>5. AgentTable'
  BY <1>1, <1>2, <1>4 DEF AgentInv, AgentTable
<1>6. HoldsAgent(req[r])'
  BY <1>1, <1>2, <1>4 DEF HoldsAgent, WorksOnAgent, MakesAgent
<1>7. ASSUME NEW b \in AgentIds, agents[b] # Absent
      PROVE  /\ agents'[b] # Absent /\ agents'[b].transport = agents[b].transport
             /\ \A p \in Reqs : p # r /\ <<"agent", b>> \in req[p].held =>
                  <<"agent", b>> \in req'[p].stale \/ agents'[b] = agents[b]
  BY <1>1, <1>2, <1>4, <1>7
<1>8. ASSUME NEW a \in AgentIds, Alone(a, agents[a].slug), agents[a].transport = "sidecar"
      PROVE  /\ Spares(req'[r], a, agents[a].slug)
             /\ \A b \in AgentIds : b # a /\ agents'[b] # Absent =>
                  agents'[b] # [slug |-> agents[a].slug, transport |-> "sidecar"]
  <2>1. Spares(req[r], a, agents[a].slug)
    BY <1>8 DEF Alone
  <2>2. Spares(req'[r], a, agents[a].slug)
    BY <2>1 DEF Spares, WorksOnAgent, MakesAgent
  <2>3. ASSUME NEW b \in AgentIds, b # a, agents'[b] # Absent
        PROVE  agents'[b] # [slug |-> agents[a].slug, transport |-> "sidecar"]
    <3>1. CASE b = x
      BY <1>1, <1>4, <2>1, <2>3, <3>1 DEF Spares
    <3>2. CASE b # x
      BY <1>4, <1>8, <2>3, <3>2 DEF Alone
    <3> QED
      BY <3>1, <3>2
  <2> QED
    BY <2>2, <2>3
<1>9. ASSUME NEW a \in AgentIds, Present(a)'
      PROVE  \/ slot'[agents'[a].slug][agents'[a].transport] = a
             \/ slot[agents[a].slug][agents[a].transport] = Absent /\ agents'[a] = agents[a]
  BY <1>3, <1>9 DEF AgentInv, HasSlot
<1> QED
  BY <1>3, <1>5, <1>6, <1>7, <1>8, <1>9, AgentsMove

\* connectAgent for an agent that is there, and putAgentHandshake, save its row.
LEMMA AgentsSave ==
  ASSUME AllFormed, AgentInv, NEW r \in Reqs, ConnectRefresh(r) \/ HandshakeSave(r)
  PROVE  AgentInv'
<1>1. CASE ConnectRefresh(r)
  <2>1. At(r, "connect", "refresh")
    BY <1>1 DEF ConnectRefresh
  <2>2. /\ agents' = [agents EXCEPT ![req[r].mem.agent] = req[r].mem.row]
        /\ Clobbers(r, {<<"agent", req[r].mem.agent>>})
        /\ UNCHANGED <<slot, legacy>>
    BY <1>1 DEF ConnectRefresh
  <2>4. PICK q, K : /\ q = On(req[r], "slot", {}, req[r].mem) /\ Writes(r, q, K)
                    /\ K = {<<"agent", req[r].mem.agent>>}
    BY <1>1 DEF ConnectRefresh
  <2>5. Formed(q) /\ q.op = req[r].op /\ q.pc = "slot" /\ q.held = req[r].held /\ q.mem = req[r].mem
    BY <2>4 DEF AllFormed, Formed, On
  <2>3. /\ req'[r].op = "connect" /\ req'[r].pc = "slot" /\ req'[r].mem = req[r].mem
        /\ req'[r].held = req[r].held
        /\ \A p \in Reqs : p # r => Aside(p) /\ req'[p].stale =
                             req[p].stale \cup (req[p].held \cap {<<"agent", req[r].mem.agent>>})
    BY <2>1, <2>4, <2>5, Writing DEF At
  <2>6. WorksOnAgent(req[r]) /\ WorksOnAgent(req'[r])
    BY <2>1, <2>3 DEF At, WorksOnAgent
  <2> QED
    BY <2>2, <2>3, <2>6, RowSaved
<1>2. CASE HandshakeSave(r)
  <2>1. At(r, "handshake", "commit")
    BY <1>2 DEF HandshakeSave
  <2>2. /\ agents' = [agents EXCEPT ![req[r].mem.agent] = req[r].mem.row]
        /\ Clobbers(r, {<<"agent", req[r].mem.agent>>})
        /\ Writes(r, Idle, {<<"agent", req[r].mem.agent>>})
        /\ UNCHANGED <<slot, legacy>>
    BY <1>2 DEF HandshakeSave, Leaves
  <2>3. /\ req'[r].op = "none"
        /\ \A p \in Reqs : p # r => Aside(p) /\ req'[p].stale =
                             req[p].stale \cup (req[p].held \cap {<<"agent", req[r].mem.agent>>})
    BY <2>2, Closes
  <2> QED
    BY <2>1, <2>2, <2>3, RowSaved DEF At, WorksOnAgent
<1> QED
  BY <1>1, <1>2

\* ensureSlotIndex writes the slot: nobody else is there, or it is recorded.
LEMMA AgentsTakeSlot ==
  ASSUME AllFormed, AgentInv, NEW r \in Reqs, ConnectSlot(r)
  PROVE  AgentInv'
<1> DEFINE x == req[r].mem.agent
           s == req[r].mem.row.slug
           t == req[r].mem.row.transport
<1>1. At(r, "connect", "slot")
  BY DEF ConnectSlot
<1>2. /\ WorksOnAgent(req[r]) /\ ~MakesAgent(req[r]) /\ HoldsAgent(req[r])
      /\ x \in AgentIds /\ agents[x] # Absent /\ agents[x].transport = t
      /\ s \in AgentSlugs /\ t \in Transports
  BY <1>1 DEF At, AgentInv, HoldsAgent, WorksOnAgent, MakesAgent, AgentRow
<1>3. /\ slot' = [slot EXCEPT ![s][t] = x]
      /\ overwritten' = IF slot[s][t] \in {Absent, x} THEN overwritten
                        ELSE overwritten \cup {<<"slot", s, t>>}
      /\ UNCHANGED <<agents, legacy>>
  BY DEF ConnectSlot
<1>4. PICK q : /\ Writes(r, q, {})
               /\ \/ t = "sidecar" /\ q = On(req[r], "legacy", {}, req[r].mem)
                  \/ q = Idle
  BY DEF ConnectSlot, Reads, Answer
<1>5. /\ Formed(q)
      /\ \/ q.op = "none"
         \/ /\ t = "sidecar" /\ q.op = "connect" /\ q.pc = "legacy" /\ q.mem = req[r].mem
            /\ q.held = req[r].held /\ q.stale = req[r].stale
  <2>1. CASE q = Idle
    BY <2>1 DEF Formed, Idle
  <2>2. CASE t = "sidecar" /\ q = On(req[r], "legacy", {}, req[r].mem)
    BY <1>1, <2>2 DEF At, AllFormed, Formed, On
  <2> QED
    BY <1>4, <2>1, <2>2
<1>6. req'[r] = q /\ \A p \in Reqs : p # r => Aside(p)
  BY <1>4, <1>5, Writing
<1>7. HoldsAgent(q)'
  BY <1>2, <1>3, <1>5 DEF HoldsAgent, WorksOnAgent, MakesAgent
<1>8. \A b, z : Spares(req[r], b, z) => Spares(q, b, z)
  BY <1>2, <1>5 DEF Spares, WorksOnAgent, MakesAgent
<1> HIDE DEF x, s, t
<1>9. AgentTable
  BY DEF AgentInv
<1>10. /\ slot'[s][t] = x
       /\ \A z \in AgentSlugs, k \in Transports : z # s \/ k # t => slot'[z][k] = slot[z][k]
  BY <1>2, <1>3, <1>9 DEF AgentTable
<1>11. AgentTable'
  <2>1. slot' \in [AgentSlugs -> [Transports -> AgentIds \cup {Absent}]]
    BY <1>2, <1>3, <1>9 DEF AgentTable
  <2>2. ASSUME NEW z \in AgentSlugs, NEW k \in Transports, slot'[z][k] # Absent
        PROVE  agents[slot'[z][k]] # Absent /\ agents[slot'[z][k]].transport = k
    <3>1. CASE z = s /\ k = t
      BY <1>2, <1>10, <3>1
    <3>2. CASE z # s \/ k # t
      BY <1>9, <1>10, <2>2, <3>2 DEF AgentTable
    <3> QED
      BY <3>1, <3>2
  <2> QED
    BY <1>3, <1>9, <2>1, <2>2 DEF AgentTable
<1>12. ASSUME NEW a \in AgentIds, Present(a)'
       PROVE  /\ agents[a].slug \in AgentSlugs /\ agents[a].transport \in Transports
              /\ \/ slot'[agents[a].slug][agents[a].transport] = a
                 \/ /\ slot[agents[a].slug][agents[a].transport] = Absent
                    /\ slot'[agents[a].slug][agents[a].transport] = Absent
  <2>1. Present(a) /\ HasSlot(a, agents[a].slug, agents[a].transport)
    BY <1>3, <1>12 DEF AgentInv, Present
  <2>2. agents[a].slug \in AgentSlugs /\ agents[a].transport \in Transports
    BY <1>9, <2>1 DEF AgentTable, Present, AgentRow
  <2>3. CASE agents[a].slug = s /\ agents[a].transport = t
    <3>1. slot[s][t] = a /\ a # x => <<"slot", s, t>> \in overwritten'
      BY <1>3, <2>1, <1>12, AgentAssumption
    <3>2. slot[s][t] = a => a = x
      BY <1>3, <1>12, <2>3, <3>1 DEF Present
    <3>3. slot[s][t] # a => a = x
      <4>1. slot[s][t] # a => t = "sidecar" /\ Spares(req[r], a, s)
        BY <2>1, <2>3 DEF HasSlot, Alone
      <4> QED
        BY <1>2, <4>1 DEF Spares, x, s, t
    <3> QED
      BY <1>10, <2>2, <2>3, <3>2, <3>3
  <2>4. CASE agents[a].slug # s \/ agents[a].transport # t
    BY <1>10, <2>1, <2>2, <2>4 DEF HasSlot
  <2> QED
    BY <2>2, <2>3, <2>4
<1>13. ASSUME NEW a \in AgentIds, Alone(a, agents[a].slug), agents[a].transport = "sidecar"
       PROVE  /\ Spares(req'[r], a, agents[a].slug)
              /\ \A b \in AgentIds : b # a /\ agents'[b] # Absent =>
                   agents'[b] # [slug |-> agents[a].slug, transport |-> "sidecar"]
  BY <1>3, <1>6, <1>8, <1>13 DEF Alone
<1>14. HoldsAgent(req[r])'
  BY <1>6, <1>7 DEF HoldsAgent, WorksOnAgent, MakesAgent
<1>15. overwritten \subseteq overwritten'
  BY <1>3
<1> QED
  BY <1>3, <1>6, <1>11, <1>12, <1>13, <1>14, <1>15, AgentsMove

\* For a desktop agent it writes the old pointer too.
LEMMA AgentsTakePointer ==
  ASSUME AllFormed, AgentInv, NEW r \in Reqs, ConnectLegacy(r)
  PROVE  AgentInv'
<1> DEFINE x == req[r].mem.agent
           s == req[r].mem.row.slug
<1>1. At(r, "connect", "legacy")
  BY DEF ConnectLegacy
<1>2. /\ WorksOnAgent(req[r]) /\ req[r].mem.row.transport = "sidecar"
      /\ x \in AgentIds /\ agents[x] # Absent /\ agents[x].transport = "sidecar" /\ s \in AgentSlugs
  BY <1>1 DEF At, AgentInv, HoldsAgent, WorksOnAgent, AgentRow
<1>3. legacy' = [legacy EXCEPT ![s] = x] /\ UNCHANGED <<agents, slot, overwritten>>
  BY DEF ConnectLegacy
<1>4. req'[r].op = "none" /\ \A p \in Reqs : p # r => Aside(p)
  BY Closes DEF ConnectLegacy, Answer, Reads
<1>5. HoldsAgent(req[r])'
  BY <1>4 DEF HoldsAgent, WorksOnAgent, MakesAgent
<1>6. \A b, z : Spares(req'[r], b, z)
  BY <1>4 DEF Spares, WorksOnAgent, MakesAgent
<1>7. ASSUME NEW a \in AgentIds, Alone(a, agents[a].slug), agents[a].transport = "sidecar"
      PROVE  legacy'[agents[a].slug] = legacy[agents[a].slug]
  <2>1. agents[a].slug = s => a = x
    BY <1>2, <1>7 DEF Alone, Spares
  <2>2. legacy[agents[a].slug] = a
    BY <1>7 DEF Alone
  <2> HIDE DEF x, s
  <2> QED
    BY <1>2, <1>3, <2>1, <2>2 DEF AgentInv, AgentTable
<1> HIDE DEF x, s
<1>8. AgentTable'
  BY <1>2, <1>3 DEF AgentInv, AgentTable
<1>9. ASSUME NEW a \in AgentIds, Present(a)'
      PROVE  \/ slot'[agents[a].slug][agents[a].transport] = a
             \/ /\ slot[agents[a].slug][agents[a].transport] = Absent
                /\ agents[a].transport = "sidecar" /\ Alone(a, agents[a].slug)
  BY <1>3, <1>9 DEF AgentInv, HasSlot, Present
<1>10. ASSUME NEW a \in AgentIds, Alone(a, agents[a].slug)
       PROVE  \A b \in AgentIds : b # a /\ agents'[b] # Absent =>
                agents'[b] # [slug |-> agents[a].slug, transport |-> "sidecar"]
  BY <1>3, <1>10 DEF Alone
<1> QED
  BY <1>3, <1>4, <1>5, <1>6, <1>7, <1>8, <1>9, <1>10, AgentsMove

\* connectAgent creates an agent in a slot: nobody is there, or it is recorded.
LEMMA AgentsAdd ==
  ASSUME AllFormed, AgentInv, NEW r \in Reqs, ConnectCommit(r)
  PROVE  AgentInv'
<1> DEFINE s == req[r].mem.slug
           t == req[r].mem.transport
<1>1. At(r, "connect", "commit")
  BY DEF ConnectCommit
<1>2. /\ MakesAgent(req[r]) /\ s \in AgentSlugs /\ t \in Transports
      /\ \A b \in AgentIds : Spares(req[r], b, s) => t # "sidecar"
  BY <1>1 DEF At, AgentInv, HoldsAgent, WorksOnAgent, MakesAgent, Spares
<1>3. PICK n \in AgentIds :
        /\ agents[n] = Absent
        /\ agents' = [agents EXCEPT ![n] = [slug |-> s, transport |-> t]]
        /\ slot' = [slot EXCEPT ![s][t] = n]
        /\ legacy' = IF t = "sidecar" THEN [legacy EXCEPT ![s] = n] ELSE legacy
        /\ overwritten' = overwritten \cup req[r].stale \cup
             (IF slot[s][t] = Absent THEN {} ELSE {<<"slot", s, t>>})
        /\ Leaves(r, {<<"router">>})
  BY DEF ConnectCommit
<1>4. req'[r].op = "none" /\ \A p \in Reqs : p # r => Aside(p)
  BY <1>3, Closes DEF Leaves
<1>5. HoldsAgent(req[r])' /\ \A b, z : Spares(req'[r], b, z)
  BY <1>4 DEF HoldsAgent, WorksOnAgent, MakesAgent, Spares
<1> HIDE DEF s, t
<1>6. AgentTable
  BY DEF AgentInv
<1>7. PICK row : row = [slug |-> s, transport |-> t]
  OBVIOUS
<1>8. row \in AgentRow /\ row # Absent /\ row.slug = s /\ row.transport = t
  BY <1>2, <1>7, AgentAssumption DEF AgentRow
<1>9. /\ agents'[n] = row /\ \A b \in AgentIds : b # n => agents'[b] = agents[b]
      /\ agents' \in [AgentIds -> AgentRow \cup {Absent}]
  BY <1>3, <1>6, <1>7, <1>8 DEF AgentTable
<1>10. /\ slot'[s][t] = n
       /\ \A z \in AgentSlugs, k \in Transports : z # s \/ k # t => slot'[z][k] = slot[z][k]
       /\ slot' \in [AgentSlugs -> [Transports -> AgentIds \cup {Absent}]]
  BY <1>2, <1>3, <1>6 DEF AgentTable
<1>11. /\ \A z \in AgentSlugs : legacy'[z] = IF z = s /\ t = "sidecar" THEN n ELSE legacy[z]
       /\ legacy' \in [AgentSlugs -> AgentIds \cup {Absent}]
  BY <1>2, <1>3, <1>6 DEF AgentTable
<1>12. ASSUME NEW b \in AgentIds, agents[b] # Absent PROVE b # n /\ agents'[b] = agents[b]
  BY <1>3, <1>9, <1>12
<1>13. AgentTable'
  <2>1. ASSUME NEW z \in AgentSlugs, NEW k \in Transports, slot'[z][k] # Absent
        PROVE  agents'[slot'[z][k]] # Absent /\ agents'[slot'[z][k]].transport = k
    <3>1. CASE z = s /\ k = t
      BY <1>8, <1>9, <1>10, <3>1
    <3>2. CASE z # s \/ k # t
      BY <1>6, <1>10, <1>12, <2>1, <3>2 DEF AgentTable
    <3> QED
      BY <3>1, <3>2
  <2>2. ASSUME NEW z \in AgentSlugs, legacy'[z] # Absent
        PROVE  agents'[legacy'[z]] # Absent /\ agents'[legacy'[z]].transport = "sidecar"
    <3>1. CASE z = s /\ t = "sidecar"
      BY <1>8, <1>9, <1>11, <3>1
    <3>2. CASE ~(z = s /\ t = "sidecar")
      BY <1>6, <1>11, <1>12, <2>2, <3>2 DEF AgentTable
    <3> QED
      BY <3>1, <3>2
  <2> QED
    BY <1>9, <1>10, <1>11, <2>1, <2>2 DEF AgentTable
<1>14. ASSUME NEW a \in AgentIds, Present(a)'
       PROVE  \/ slot'[agents'[a].slug][agents'[a].transport] = a
              \/ /\ agents'[a] = agents[a] /\ slot[agents[a].slug][agents[a].transport] = Absent
                 /\ slot'[agents[a].slug][agents[a].transport] = Absent
                 /\ legacy'[agents[a].slug] = legacy[agents[a].slug]
                 /\ agents[a].transport = "sidecar" /\ Alone(a, agents[a].slug) =>
                      \A b \in AgentIds : b # a /\ agents'[b] # Absent =>
                        agents'[b] # [slug |-> agents[a].slug, transport |-> "sidecar"]
  <2>1. CASE a = n
    BY <1>8, <1>9, <1>10, <2>1
  <2>2. CASE a # n
    <3>1. agents'[a] = agents[a] /\ agents[a] # Absent /\ agents[a] \in AgentRow
      BY <1>6, <1>9, <1>14, <2>2 DEF AgentTable, Present
    <3>2. Present(a) /\ HasSlot(a, agents[a].slug, agents[a].transport)
      BY <1>3, <1>14, <3>1 DEF AgentInv, Present
    <3>3. agents[a].slug \in AgentSlugs /\ agents[a].transport \in Transports
      BY <3>1 DEF AgentRow
    <3>4. CASE slot[agents[a].slug][agents[a].transport] = a
      <4>1. agents[a].slug = s /\ agents[a].transport = t => <<"slot", s, t>> \in overwritten'
        BY <1>3, <3>4, AgentAssumption
      <4>2. ~(agents[a].slug = s /\ agents[a].transport = t)
        BY <1>14, <3>1, <4>1 DEF Present
      <4> QED
        BY <1>10, <3>1, <3>3, <3>4, <4>2
    <3>5. CASE slot[agents[a].slug][agents[a].transport] # a
      <4>1. /\ slot[agents[a].slug][agents[a].transport] = Absent /\ agents[a].transport = "sidecar"
            /\ Alone(a, agents[a].slug)
        BY <3>2, <3>5 DEF HasSlot
      <4>2. ~(agents[a].slug = s /\ t = "sidecar")
        BY <1>2, <4>1 DEF Alone
      <4>3. ASSUME NEW b \in AgentIds, b # a, agents'[b] # Absent
            PROVE  agents'[b] # [slug |-> agents[a].slug, transport |-> "sidecar"]
        <5>1. CASE b = n
          BY <1>8, <1>9, <4>2, <5>1
        <5>2. CASE b # n
          BY <1>9, <4>1, <4>3, <5>2 DEF Alone
        <5> QED
          BY <5>1, <5>2
      <4> QED
        BY <1>10, <1>11, <3>1, <3>3, <4>1, <4>2, <4>3
    <3> QED
      BY <3>4, <3>5
  <2> QED
    BY <2>1, <2>2
<1>15. overwritten \subseteq overwritten'
  BY <1>3
<1> QED
  BY <1>4, <1>5, <1>12, <1>13, <1>14, <1>15, AgentsMove

\* renameAgent moves an agent to another slot: so does this.
LEMMA AgentsRename ==
  ASSUME AllFormed, AgentInv, NEW r \in Reqs, RenameCommit(r)
  PROVE  AgentInv'
<1> DEFINE x   == req[r].mem.agent
           old == req[r].mem.row.slug
           new == req[r].mem.to
           t   == req[r].mem.row.transport
           drop == req[r].mem.dropOld
<1>1. At(r, "rename", "commit")
  BY DEF RenameCommit
<1>2. /\ WorksOnAgent(req[r]) /\ x \in AgentIds /\ agents[x] # Absent /\ agents[x].transport = t
      /\ old \in AgentSlugs /\ new \in AgentSlugs /\ t \in Transports /\ (drop => t = "sidecar")
      /\ req[r].mem.row \in AgentRow
  BY <1>1 DEF At, AgentInv, HoldsAgent, WorksOnAgent, AgentRow
<1>3. ASSUME NEW a \in AgentIds, NEW z, a # x, Spares(req[r], a, z), t = "sidecar"
      PROVE  old # z /\ new # z
  BY <1>1, <1>2, <1>3 DEF At, Spares
<1>4. /\ slot' = [slot EXCEPT ![old][t] = Absent, ![new][t] = x]
      /\ legacy' = [z \in AgentSlugs |-> IF z = new /\ t = "sidecar" THEN x
                                         ELSE IF z = old /\ drop THEN Absent ELSE legacy[z]]
      /\ agents' = [agents EXCEPT ![x] = [req[r].mem.row EXCEPT !.slug = new]]
      /\ overwritten' = overwritten \cup req[r].stale \cup
           (IF slot[new][t] \in {Absent, x} THEN {} ELSE {<<"slot", new, t>>}) \cup
           (IF slot[old][t] \in {Absent, x} THEN {} ELSE {<<"slot", old, t>>})
      /\ Leaves(r, {<<"router">>, <<"agent", x>>})
  BY DEF RenameCommit
<1>5. PICK row : row = [req[r].mem.row EXCEPT !.slug = new]
  OBVIOUS
<1>6. row \in AgentRow /\ row # Absent /\ row.slug = new /\ row.transport = t
  BY <1>2, <1>5, AgentAssumption DEF AgentRow
<1>7. req'[r].op = "none"
      /\ \A p \in Reqs : p # r =>
           Aside(p) /\ req'[p].stale = req[p].stale \cup (req[p].held \cap {<<"router">>, <<"agent", x>>})
  BY <1>4, Closes DEF Leaves
<1>8. HoldsAgent(req[r])' /\ \A b, z : Spares(req'[r], b, z)
  BY <1>7 DEF HoldsAgent, WorksOnAgent, MakesAgent, Spares
<1> HIDE DEF x, old, new, t, drop
<1>9. AgentTable
  BY DEF AgentInv
<1>10. /\ agents'[x] = row /\ \A b \in AgentIds : b # x => agents'[b] = agents[b]
       /\ agents' \in [AgentIds -> AgentRow \cup {Absent}]
  BY <1>2, <1>4, <1>5, <1>6, <1>9 DEF AgentTable
<1>11. /\ slot'[new][t] = x
       /\ old # new => slot'[old][t] = Absent
       /\ \A z \in AgentSlugs, k \in Transports :
            (z # old /\ z # new) \/ k # t => slot'[z][k] = slot[z][k]
       /\ slot' \in [AgentSlugs -> [Transports -> AgentIds \cup {Absent}]]
  BY <1>2, <1>4, <1>9 DEF AgentTable
<1>12. ASSUME NEW b \in AgentIds, agents[b] # Absent
       PROVE  /\ agents'[b] # Absent /\ agents'[b].transport = agents[b].transport
              /\ \A p \in Reqs : p # r /\ <<"agent", b>> \in req[p].held =>
                   <<"agent", b>> \in req'[p].stale \/ agents'[b] = agents[b]
  BY <1>2, <1>6, <1>7, <1>10, <1>12
<1>13. AgentTable'
  <2>1. ASSUME NEW z \in AgentSlugs, NEW k \in Transports, slot'[z][k] # Absent
        PROVE  agents'[slot'[z][k]] # Absent /\ agents'[slot'[z][k]].transport = k
    <3>1. CASE z = new /\ k = t
      BY <1>6, <1>10, <1>11, <3>1
    <3>2. CASE ~(z = new /\ k = t)
      <4>1. slot'[z][k] = slot[z][k]
        BY <1>11, <2>1, <3>2
      <4>2. /\ slot[z][k] \in AgentIds /\ agents[slot[z][k]] # Absent
            /\ agents[slot[z][k]].transport = k
        BY <1>9, <2>1, <4>1 DEF AgentTable
      <4> QED
        BY <1>12, <4>1, <4>2
    <3> QED
      BY <3>1, <3>2
  <2>2. ASSUME NEW z \in AgentSlugs, legacy'[z] # Absent
        PROVE  /\ legacy'[z] \in AgentIds /\ agents'[legacy'[z]] # Absent
               /\ agents'[legacy'[z]].transport = "sidecar"
    <3>1. CASE z = new /\ t = "sidecar"
      BY <1>2, <1>4, <1>6, <1>10, <3>1
    <3>2. CASE ~(z = new /\ t = "sidecar")
      <4>1. legacy'[z] = legacy[z]
        BY <1>4, <2>2, <3>2
      <4>2. /\ legacy[z] \in AgentIds /\ agents[legacy[z]] # Absent
            /\ agents[legacy[z]].transport = "sidecar"
        BY <1>9, <2>2, <4>1 DEF AgentTable
      <4> QED
        BY <1>12, <4>1, <4>2
    <3> QED
      BY <3>1, <3>2
  <2>3. legacy' \in [AgentSlugs -> AgentIds \cup {Absent}]
    BY <1>2, <1>4, <1>9 DEF AgentTable
  <2> QED
    BY <1>10, <1>11, <2>1, <2>2, <2>3 DEF AgentTable
<1>14. overwritten \subseteq overwritten'
  BY <1>4
<1>15. ASSUME NEW a \in AgentIds, Present(a)'
       PROVE  \/ slot'[agents'[a].slug][agents'[a].transport] = a
              \/ /\ agents'[a] = agents[a] /\ slot[agents[a].slug][agents[a].transport] = Absent
                 /\ slot'[agents[a].slug][agents[a].transport] = Absent
                 /\ legacy'[agents[a].slug] = legacy[agents[a].slug]
                 /\ agents[a].transport = "sidecar" /\ Alone(a, agents[a].slug) =>
                      \A b \in AgentIds : b # a /\ agents'[b] # Absent =>
                        agents'[b] # [slug |-> agents[a].slug, transport |-> "sidecar"]
  <2>1. CASE a = x
    BY <1>6, <1>10, <1>11, <2>1
  <2>2. CASE a # x
    <3>1. agents'[a] = agents[a] /\ agents[a] # Absent /\ agents[a] \in AgentRow
      BY <1>9, <1>10, <1>15, <2>2 DEF AgentTable, Present
    <3>2. Present(a) /\ HasSlot(a, agents[a].slug, agents[a].transport)
      BY <1>14, <1>15, <3>1 DEF AgentInv, Present
    <3>3. agents[a].slug \in AgentSlugs /\ agents[a].transport \in Transports
      BY <3>1 DEF AgentRow
    <3>4. CASE slot[agents[a].slug][agents[a].transport] = a
      <4>1. /\ agents[a].slug = new /\ agents[a].transport = t => <<"slot", new, t>> \in overwritten'
            /\ agents[a].slug = old /\ agents[a].transport = t => <<"slot", old, t>> \in overwritten'
        BY <1>4, <2>2, <3>4, AgentAssumption
      <4>2. agents[a].slug \notin {old, new} \/ agents[a].transport # t
        BY <1>15, <3>1, <4>1 DEF Present
      <4> QED
        BY <1>11, <3>1, <3>3, <3>4, <4>2
    <3>5. CASE slot[agents[a].slug][agents[a].transport] # a
      <4>1. /\ slot[agents[a].slug][agents[a].transport] = Absent /\ agents[a].transport = "sidecar"
            /\ Alone(a, agents[a].slug)
        BY <3>2, <3>5 DEF HasSlot
      <4>2. t = "sidecar" => old # agents[a].slug /\ new # agents[a].slug
        BY <1>3, <2>2, <4>1 DEF Alone
      <4>3. ASSUME NEW b \in AgentIds, b # a, agents'[b] # Absent
            PROVE  agents'[b] # [slug |-> agents[a].slug, transport |-> "sidecar"]
        <5>1. CASE b = x
          BY <1>6, <1>10, <4>2, <5>1
        <5>2. CASE b # x
          BY <1>10, <4>1, <4>3, <5>2 DEF Alone
        <5> QED
          BY <5>1, <5>2
      <4>4. slot'[agents[a].slug][agents[a].transport] = slot[agents[a].slug][agents[a].transport]
        BY <1>11, <3>3, <4>1, <4>2
      <4>5. legacy'[agents[a].slug] = legacy[agents[a].slug]
        BY <1>2, <1>4, <3>3, <4>2
      <4> QED
        BY <3>1, <4>1, <4>3, <4>4, <4>5
    <3> QED
      BY <3>4, <3>5
  <2> QED
    BY <2>1, <2>2
<1> QED
  BY <1>7, <1>8, <1>12, <1>13, <1>14, <1>15, AgentsMove

\* Commits that write no row of an agent.
LEMMA AgentsRoute ==
  ASSUME AllFormed, AgentInv, NEW r \in Reqs,
         PreferLoad(r) \/ PreferCommit(r) \/ RouterCommit(r) \/ LookEnd(r)
  PROVE  AgentInv'
<1>1. UNCHANGED <<agents, slot, legacy>> /\ overwritten \subseteq overwritten'
  BY DEF PreferLoad, PreferCommit, RouterCommit, LookEnd, agentRows, Clobbers
<1>2. req[r].op \in {"prefer", "router", "look"}
  BY DEF PreferLoad, PreferCommit, RouterCommit, LookEnd, At
<1>3. CASE PreferLoad(r)
  <2>1. PICK q, pc, held, mem, K : q = On(req[r], pc, held, mem) /\ Writes(r, q, K)
    BY <1>3, Zenon DEF PreferLoad, LoadsRouter, Reads
  <2>2. Formed(q) /\ q.op = req[r].op
    BY <1>2, <2>1, GoingOn DEF AllFormed, AgentOps
  <2> QED
    BY <1>1, <1>2, <2>1, <2>2, Writing, AgentsAside
<1>4. CASE PreferCommit(r) \/ RouterCommit(r) \/ LookEnd(r)
  <2>1. Ends(r)
    BY <1>4, Zenon DEF PreferCommit, RouterCommit, LookEnd, Answer, Reads, Leaves, Ends
  <2>2. Becomes(r, {})
    BY <2>1, Ending
  <2> QED
    BY <1>1, <2>2, AgentsAsideOps
<1> QED
  BY <1>3, <1>4

\* Every step keeps it.
LEMMA StepAgents ==
  ASSUME AllFormed, AgentInv, [Next]_vars
  PROVE  AgentInv'
<1>1. ASSUME NEW r \in Reqs, Agency(r) PROVE AgentInv'
  <2>1. CASE AgentStart(r)
    BY <2>1, ConnectBegins, WorkBegins, RoutingBegins DEF AgentStart
  <2>2. CASE AgentStep(r)
    BY <2>2, AgentsSave, AgentsTakeSlot, AgentsTakePointer, AgentsLoad, AgentsAdd, AgentsRoute,
       AgentsRename, AgentsMigrate DEF AgentStep
  <2> QED
    BY <1>1, <2>1, <2>2 DEF Agency
<1>2. ASSUME NEW r \in Reqs, Directory(r) \/ Keyring(r) \/ Contacts(r) \/ Shelf(r) \/ Dies(r)
      PROVE  AgentInv'
  <2>1. PICK Ops : /\ Becomes(r, Ops) /\ overwritten \subseteq overwritten'
                   /\ Ops \cap {"connect", "handshake", "rename"} = {}
    BY <1>2, DirectoryFrame, KeyringFrame, ContactsFrame, ShelfFrame, DeathFrame
       DEF OrgOps, RegistryOps, ListingOps, DeviceOps, KeyOps, ContactOps, ShelfOps
  <2>2. UNCHANGED <<agents, slot, legacy>>
    BY <1>2 DEF Directory, Keyring, Contacts, Shelf, Dies, hubRows, agentRows
  <2> QED
    BY <2>1, <2>2, AgentsAsideOps
<1>3. CASE UNCHANGED <<req, overwritten, agents, slot, legacy>>
  BY <1>3 DEF AgentInv, AgentTable, HoldsAgent, WorksOnAgent, MakesAgent, HasSlot, Present, Alone, Spares
<1>4. CASE Time
  BY <1>3, <1>4 DEF Time, PairingTime, PinExpires, LockEnds, agentRows
<1> QED
  BY <1>1, <1>2, <1>3, <1>4 DEF Next, vars, hubRows, agentRows

\* It holds at the start, for a new user and for one with desktop agents.
LEMMA InitAgentInv == Init => AgentInv
<1> SUFFICES ASSUME Init PROVE AgentInv
  OBVIOUS
<1>1. PICK old \in SUBSET OldAgents :
        /\ agents = [a \in AgentIds |->
             IF a \in old THEN [slug |-> a, transport |-> "sidecar"] ELSE Absent]
        /\ slot = [s \in AgentSlugs |-> [t \in Transports |-> Absent]]
        /\ legacy = [s \in AgentSlugs |-> IF s \in old THEN s ELSE Absent]
  <2>1. InitAgents
    BY DEF Init
  <2>2. PICK old \in {{}} \cup (IF scope.ops \cap AgentOps = {} THEN {} ELSE {OldAgents}) :
          /\ agents = [a \in AgentIds |->
               IF a \in old THEN [slug |-> a, transport |-> "sidecar"] ELSE Absent]
          /\ slot = [s \in AgentSlugs |-> [t \in Transports |-> Absent]]
          /\ legacy = [s \in AgentSlugs |-> IF s \in old THEN s ELSE Absent]
    BY <2>1, Zenon DEF InitAgents
  <2>3. old \in SUBSET OldAgents
    BY <2>2
  <2> QED
    BY <2>2, <2>3
<1>2. old \subseteq AgentSlugs \cap AgentIds
  BY AgentAssumption
<1>3. \A p \in Reqs : req[p].op = "none"
  BY DEF Init, InitRequests, Idle
<1>4. \A a \in old : [slug |-> a, transport |-> "sidecar"] \in AgentRow
  BY <1>2 DEF AgentRow, Transports
<1>5. \A a \in AgentIds : agents[a] # Absent =>
        a \in old /\ agents[a] \in AgentRow /\ agents[a].slug = a /\ agents[a].transport = "sidecar"
  BY <1>1, <1>4
<1>6. AgentTable
  BY <1>1, <1>2, <1>4, AgentAssumption DEF AgentTable
<1>7. \A p \in Reqs : HoldsAgent(req[p]) /\ \A b, z : Spares(req[p], b, z)
  BY <1>3 DEF HoldsAgent, Spares, WorksOnAgent, MakesAgent
<1>8. ASSUME NEW a \in AgentIds, agents[a] # Absent
      PROVE  HasSlot(a, agents[a].slug, agents[a].transport)
  <2>1. a \in old /\ agents[a].slug = a /\ agents[a].transport = "sidecar" /\ legacy[a] = a
    BY <1>1, <1>2, <1>5, <1>8
  <2>2. \A b \in AgentIds : b # a /\ agents[b] # Absent => agents[b] # [slug |-> a, transport |-> "sidecar"]
    BY <1>5
  <2> QED
    BY <1>1, <1>2, <1>7, <2>1, <2>2 DEF HasSlot, Alone, Transports
<1> QED
  BY <1>6, <1>7, <1>8 DEF AgentInv, Present

\* An agent is found under its own slug and transport, however connects and
\* renames interleave, unless one of them wrote its row or its slot over what
\* another request had written since it looked: ensureSlotIndex, connectAgent and
\* renameAgent write both unchecked.
THEOREM AgentsKeepTheirSlots == Spec => []OneAgentPerSlot
<1>1. AgentInv => OneAgentPerSlot
  <2> SUFFICES ASSUME AgentInv, NEW a \in AgentIds, Present(a)
               PROVE  Lookup(agents[a].slug, agents[a].transport) = a
    BY DEF OneAgentPerSlot, Present
  <2>1. HasSlot(a, agents[a].slug, agents[a].transport)
    BY DEF AgentInv
  <2>2. slot[agents[a].slug][agents[a].transport] = Absent =>
          legacy[agents[a].slug] = a /\ agents[a].transport = "sidecar" /\ agents[a] # Absent
    BY <2>1, AgentAssumption DEF HasSlot, Alone, Present
  <2> QED
    BY <2>1, <2>2, AgentAssumption DEF HasSlot, Lookup
<1>2. AllFormed /\ AgentInv /\ [Next]_vars => (AllFormed /\ AgentInv)'
  BY FormedKept, StepAgents
<1> QED
  BY <1>1, <1>2, InitFormed, InitAgentInv, PTL DEF Spec

-----------------------------------------------------------------------------
(* Storage *)

\* Of some numbers one is the least.
LEMMA Least ==
  ASSUME NEW S \in SUBSET Nat, S # {}
  PROVE  \E x \in S : \A y \in S : x <= y
<1>1. PICK x \in S : \A y \in S : ~(<<y, x>> \in OpToRel(<, Nat))
  BY NatLessThanWellFounded, WFMin
<1>2. ASSUME NEW y \in S
      PROVE  x <= y
  <2>1. <<y, x>> \in Nat \X Nat /\ ~(<<y, x>> \in OpToRel(<, Nat))
    BY <1>1
  <2> QED
    BY <2>1 DEF OpToRel
<1> QED
  BY <1>2

\* f is the sums of what comes before, and at, each number.
Sums(f, w) ==
  /\ f \in [0..MaxBlob -> Nat] /\ f[0] = 0
  /\ \A n \in BlobIds : f[n] = f[n - 1] + w[n]

\* There are such sums, and the recursive definition of them gives them.
LEMMA SumsUpTo ==
  ASSUME NEW w \in [BlobIds -> Nat], NEW n \in 0..MaxBlob
  PROVE  \E g \in [0..n -> Nat] : g[0] = 0 /\ \A k \in 1..n : g[k] = g[k - 1] + w[k]
<1> DEFINE P(i) == \E g \in [0..i -> Nat] : g[0] = 0 /\ \A k \in 1..i : g[k] = g[k - 1] + w[k]
           S    == {i \in 0..MaxBlob : ~P(i)}
<1>1. CASE S = {}
  BY <1>1
<1>2. CASE S # {}
  <2>1. PICK x \in S : \A y \in S : x <= y
    <3>1. S \in SUBSET Nat
      OBVIOUS
    <3> HIDE DEF S
    <3> QED
      BY <1>2, <3>1, Least
  <2>2. x # 0
    <3>1. [i \in 0..0 |-> 0] \in [0..0 -> Nat] /\ [i \in 0..0 |-> 0][0] = 0 /\ 1..0 = {}
      OBVIOUS
    <3>2. P(0)
      BY <3>1
    <3> QED
      BY <3>2
  <2>3. x \in Nat /\ x - 1 \in 0..MaxBlob /\ x \in BlobIds /\ x - 1 \notin S
    <3>1. x \in 0..MaxBlob
      BY <2>1
    <3>2. x - 1 \notin S
      <4> HIDE DEF S
      <4> QED
        BY <2>1, <3>1, ShelfAssumption
    <3> QED
      <4> HIDE DEF S
      <4> QED
        BY <2>2, <3>1, <3>2, ShelfAssumption DEF BlobIds
  <2>4. PICK g \in [0..(x - 1) -> Nat] : g[0] = 0 /\ \A k \in 1..(x - 1) : g[k] = g[k - 1] + w[k]
    BY <2>3
  <2> DEFINE h == [k \in 0..x |-> IF k = x THEN g[x - 1] + w[x] ELSE g[k]]
  <2>5. g[x - 1] \in Nat /\ w[x] \in Nat
    BY <2>2, <2>3, <2>4
  <2>6. h \in [0..x -> Nat] /\ h[0] = 0
    BY <2>2, <2>3, <2>4, <2>5
  <2>7. ASSUME NEW k \in 1..x PROVE h[k] = h[k - 1] + w[k]
    <3>1. CASE k = x
      BY <2>3, <3>1
    <3>2. CASE k # x
      BY <2>3, <2>4, <3>2
    <3> QED
      BY <3>1, <3>2
  <2>8. P(x)
    <3> HIDE DEF h
    <3> QED
      BY <2>6, <2>7
  <2> QED
    BY <2>1, <2>8
<1> QED
  BY <1>1, <1>2

LEMMA SumsAreThere ==
  ASSUME NEW w \in [BlobIds -> Nat], NEW f,
         f = CHOOSE g : g = [n \in 0..MaxBlob |-> IF n = 0 THEN 0 ELSE g[n - 1] + w[n]]
  PROVE  Sums(f, w)
<1> DEFINE P(g) == g = [n \in 0..MaxBlob |-> IF n = 0 THEN 0 ELSE g[n - 1] + w[n]]
<1>1. PICK g \in [0..MaxBlob -> Nat] : g[0] = 0 /\ \A k \in 1..MaxBlob : g[k] = g[k - 1] + w[k]
  <2>1. MaxBlob \in 0..MaxBlob
    BY ShelfAssumption
  <2> QED
    BY <2>1, SumsUpTo
<1>2. ASSUME NEW n \in 0..MaxBlob PROVE g[n] = IF n = 0 THEN 0 ELSE g[n - 1] + w[n]
  BY <1>1, ShelfAssumption
<1>3. P(g)
  BY <1>1, <1>2
<1>4. P(f)
  BY <1>3, Zenon
<1>5. \A n \in 0..MaxBlob : f[n] = IF n = 0 THEN 0 ELSE f[n - 1] + w[n]
  BY <1>4
<1>6. ASSUME NEW n \in 0..MaxBlob PROVE f[n] \in Nat
  <2> DEFINE S == {i \in 0..MaxBlob : f[i] \notin Nat}
  <2>1. CASE S = {}
    BY <2>1
  <2>2. CASE S # {}
    <3>1. PICK x \in S : \A y \in S : x <= y
      <4>1. S \in SUBSET Nat
        OBVIOUS
      <4> HIDE DEF S
      <4> QED
        BY <2>2, <4>1, Least
    <3>2. x # 0
      BY <1>5, <3>1
    <3>3. x - 1 \in 0..MaxBlob /\ f[x - 1] \in Nat /\ w[x] \in Nat
      BY <3>1, <3>2, ShelfAssumption DEF BlobIds
    <3> QED
      BY <1>5, <3>1, <3>2, <3>3
  <2> QED
    BY <2>1, <2>2
<1>7. f \in [0..MaxBlob -> Nat]
  BY <1>4, <1>6
<1>8. f[0] = 0
  BY <1>5, ShelfAssumption
<1>9. ASSUME NEW n \in BlobIds PROVE f[n] = f[n - 1] + w[n]
  <2>1. n \in 0..MaxBlob /\ n # 0
    BY ShelfAssumption DEF BlobIds
  <2> QED
    BY <1>5, <2>1
<1> QED
  BY <1>7, <1>8, <1>9 DEF Sums

\* One number more by d makes the whole sum more by d.
LEMMA SumGrows ==
  ASSUME NEW v \in [BlobIds -> Nat], NEW w \in [BlobIds -> Nat], NEW f, NEW g, Sums(f, v), Sums(g, w),
         NEW b \in BlobIds, NEW d \in Nat, w[b] = v[b] + d,
         \A c \in BlobIds : c # b => w[c] = v[c]
  PROVE  g[MaxBlob] = f[MaxBlob] + d
<1> DEFINE P(n) == g[n] = IF n < b THEN f[n] ELSE f[n] + d
           S    == {n \in 0..MaxBlob : ~P(n)}
<1>1. CASE S = {}
  <2>1. P(MaxBlob) /\ ~(MaxBlob < b)
    BY <1>1, ShelfAssumption DEF BlobIds
  <2> QED
    BY <2>1
<1>2. CASE S # {}
  <2>1. PICK x \in S : \A y \in S : x <= y
    <3>1. S \in SUBSET Nat
      OBVIOUS
    <3> HIDE DEF S
    <3> QED
      BY <1>2, <3>1, Least
  <2>2. x # 0
    BY <2>1 DEF Sums, BlobIds
  <2>3. x \in BlobIds /\ x - 1 \in 0..MaxBlob /\ P(x - 1)
    BY <2>1, <2>2, ShelfAssumption DEF BlobIds
  <2>4. /\ f[x] = f[x - 1] + v[x] /\ g[x] = g[x - 1] + w[x]
        /\ f[x - 1] \in Nat /\ g[x - 1] \in Nat /\ v[x] \in Nat /\ w[x] \in Nat
    BY <2>3 DEF Sums
  <2>5. w[x] = IF x = b THEN v[x] + d ELSE v[x]
    BY <2>3
  <2>6. P(x)
    BY <2>3, <2>4, <2>5 DEF BlobIds
  <2> QED
    BY <2>1, <2>6
<1> QED
  BY <1>1, <1>2

\* What an upload has in memory: the quota as it was, and room for the blob.
HoldsUpload(q) ==
  q.op = "upload" =>
    /\ q.pc = "commit" /\ q.mem.size \in BlobSizes /\ q.mem.quota \in Nat
    /\ q.mem.quota + q.mem.size <= BlobQuota /\ <<"quota">> \in q.held
    /\ q.stale = {} => q.mem.quota = quota

ShelfInv ==
  /\ blobs \in [BlobIds -> BlobSizes \cup {Absent}]
  /\ quota \in Nat /\ quota <= BlobQuota /\ quota = Stored
  /\ \A p \in Reqs : HoldsUpload(req[p])

\* Nothing that counts happens to the blobs.
LEMMA ShelfAside ==
  ASSUME ShelfInv, NEW r \in Reqs, \A p \in Reqs : p # r => Aside(p), UNCHANGED <<blobs, quota>>,
         HoldsUpload(req'[r])
  PROVE  ShelfInv'
<1>1. ASSUME NEW p \in Reqs PROVE HoldsUpload(req[p])'
  <2>1. CASE p = r
    BY <2>1 DEF HoldsUpload
  <2>2. CASE p # r
    BY <2>2 DEF ShelfInv, HoldsUpload, Aside
  <2> QED
    BY <2>1, <2>2
<1>2. Sizes' = Sizes
  BY DEF Sizes
<1>3. Stored' = Stored
  BY <1>2 DEF Stored, StoredUpTo
<1> QED
  BY <1>1, <1>3 DEF ShelfInv

LEMMA ShelfAsideOps ==
  ASSUME AllFormed, ShelfInv, NEW r \in Reqs, NEW Ops, Becomes(r, Ops), "upload" \notin Ops,
         UNCHANGED <<blobs, quota>>
  PROVE  ShelfInv'
<1>1. req'[r].op \in Ops \cup {"none"} /\ \A p \in Reqs : p # r => Aside(p)
  BY Bystanders
<1>2. HoldsUpload(req'[r])
  BY <1>1 DEF HoldsUpload
<1> QED
  BY <1>1, <1>2, ShelfAside

\* createUploadUrl finds room.
LEMMA UploadBegins ==
  ASSUME AllFormed, ShelfInv, NEW r \in Reqs, NEW size \in BlobSizes, UploadStart(r, size)
  PROVE  ShelfInv'
<1>1. /\ req'[r].op = "upload" /\ req'[r].pc = "commit" /\ req'[r].held = {<<"quota">>}
      /\ req'[r].stale = {} /\ req'[r].mem = [size |-> size, quota |-> quota]
      /\ \A p \in Reqs : p # r => Aside(p)
  BY Opens DEF UploadStart, Reads
<1>2. quota + size <= BlobQuota /\ quota \in Nat
  BY DEF UploadStart, ShelfInv
<1>3. HoldsUpload(req'[r])
  BY <1>1, <1>2 DEF HoldsUpload
<1> QED
  BY <1>1, <1>3, ShelfAside DEF UploadStart, shelfRows

\* Its commit stores the blob and the quota as it is with the blob.
LEMMA UploadIsStored ==
  ASSUME AllFormed, ShelfInv, NEW r \in Reqs, UploadCommit(r)
  PROVE  ShelfInv'
<1> DEFINE size == req[r].mem.size
<1>1. PICK b \in BlobIds : blobs[b] = Absent /\ blobs' = [blobs EXCEPT ![b] = size]
  BY DEF UploadCommit
<1>2. req[r].op = "upload" /\ req[r].stale = {} /\ quota' = req[r].mem.quota + size
  BY DEF UploadCommit, At, QuotaUnchanged
<1>3. size \in BlobSizes /\ size \in Nat /\ req[r].mem.quota = quota /\ quota + size <= BlobQuota
  BY <1>2, ShelfAssumption DEF ShelfInv, HoldsUpload
<1>4. req'[r].op = "none"
      /\ \A p \in Reqs : p # r => Aside(p) /\ req'[p].stale = req[p].stale \cup (req[p].held \cap {<<"quota">>})
  BY Closes DEF UploadCommit, Leaves
<1> HIDE DEF size
<1>5. PICK v, w : v = Sizes /\ w = Sizes'
  OBVIOUS
<1>6. PICK f, g : f = StoredUpTo /\ g = StoredUpTo'
  OBVIOUS
<1>7. blobs' \in [BlobIds -> BlobSizes \cup {Absent}]
  BY <1>1, <1>3 DEF ShelfInv
<1>8. v \in [BlobIds -> Nat] /\ w \in [BlobIds -> Nat]
  BY <1>5, <1>7, ShelfAssumption DEF ShelfInv, Sizes
<1>9. w[b] = v[b] + size /\ \A c \in BlobIds : c # b => w[c] = v[c]
  <2>1. v[b] = 0 /\ w[b] = size
    BY <1>1, <1>3, <1>5, ShelfAssumption DEF ShelfInv, Sizes
  <2>2. \A c \in BlobIds : c # b => w[c] = v[c]
    BY <1>1, <1>5 DEF ShelfInv, Sizes
  <2> QED
    BY <1>3, <1>8, <2>1, <2>2
<1>10. f = CHOOSE s : s = [n \in 0..MaxBlob |-> IF n = 0 THEN 0 ELSE s[n - 1] + v[n]]
  BY <1>5, <1>6 DEF StoredUpTo
<1>11. g = CHOOSE s : s = [n \in 0..MaxBlob |-> IF n = 0 THEN 0 ELSE s[n - 1] + w[n]]
  BY <1>5, <1>6 DEF StoredUpTo
<1>12. Sums(f, v) /\ Sums(g, w)
  BY <1>8, <1>10, <1>11, SumsAreThere
<1>13. g[MaxBlob] = f[MaxBlob] + size
  BY <1>3, <1>8, <1>9, <1>12, SumGrows
<1>14. Stored' = Stored + size
  BY <1>6, <1>13 DEF Stored
<1>15. ASSUME NEW p \in Reqs PROVE HoldsUpload(req[p])'
  <2>1. CASE p = r
    BY <1>4, <2>1 DEF HoldsUpload
  <2>2. CASE p # r
    BY <1>4, <2>2 DEF ShelfInv, HoldsUpload, Aside
  <2> QED
    BY <2>1, <2>2
<1> QED
  BY <1>2, <1>3, <1>7, <1>14, <1>15 DEF ShelfInv, size

\* Other requests for what members store keep off the blobs.
LEMMA ShelfRests ==
  ASSUME AllFormed, ShelfInv, NEW r \in Reqs,
         \/ PaperNew(r) \/ \E p \in PaperIds, what \in {"update", "delete"} : PaperStart(r, p, what)
         \/ \E a \in Voters : VoteStart(r, a) \/ ReceiptStart(r, a)
         \/ UploadConflict(r) \/ PaperUpdate(r) \/ PaperDelete(r) \/ VoteSave(r) \/ ReceiptSave(r)
  PROVE  ShelfInv'
<1>1. UNCHANGED <<blobs, quota>>
  BY DEF PaperNew, PaperStart, VoteStart, ReceiptStart, UploadConflict, PaperUpdate, PaperDelete,
     VoteSave, ReceiptSave, shelfRows
<1>2. CASE \/ \E p \in PaperIds, what \in {"update", "delete"} : PaperStart(r, p, what)
           \/ \E a \in Voters : VoteStart(r, a) \/ ReceiptStart(r, a)
  <2>1. Becomes(r, {"paper", "vote", "receipt"})
    BY <1>2, Beginning DEF PaperStart, VoteStart, ReceiptStart, Reads
  <2> QED
    BY <1>1, <2>1, ShelfAsideOps
<1>3. CASE PaperNew(r) \/ UploadConflict(r) \/ PaperUpdate(r) \/ PaperDelete(r) \/ VoteSave(r) \/ ReceiptSave(r)
  <2>1. Ends(r)
    BY <1>3, Zenon DEF PaperNew, UploadConflict, PaperUpdate, PaperDelete, VoteSave, ReceiptSave,
       Answer, Reads, Leaves, Ends
  <2>2. Becomes(r, {})
    BY <2>1, Ending
  <2> QED
    BY <1>1, <2>2, ShelfAsideOps
<1> QED
  BY <1>2, <1>3

\* Every step keeps it.
LEMMA StepShelf ==
  ASSUME AllFormed, ShelfInv, [Next]_vars
  PROVE  ShelfInv'
<1>1. ASSUME NEW r \in Reqs, Shelf(r) PROVE ShelfInv'
  BY <1>1, UploadBegins, UploadIsStored, ShelfRests DEF Shelf, ShelfStart, ShelfStep
<1>2. ASSUME NEW r \in Reqs, Directory(r) \/ Agency(r) \/ Keyring(r) \/ Contacts(r) \/ Dies(r)
      PROVE  ShelfInv'
  <2>1. PICK Ops : Becomes(r, Ops) /\ "upload" \notin Ops
    BY <1>2, DirectoryFrame, AgencyFrame, KeyringFrame, ContactsFrame, DeathFrame
       DEF OrgOps, RegistryOps, ListingOps, AgentOps, DeviceOps, KeyOps, ContactOps
  <2>2. UNCHANGED <<blobs, quota>>
    BY <1>2 DEF Directory, Agency, Keyring, Contacts, Dies, hubRows, shelfRows
  <2> QED
    BY <2>1, <2>2, ShelfAsideOps
<1>3. CASE UNCHANGED <<req, blobs, quota>>
  <2>1. Sizes' = Sizes
    BY <1>3 DEF Sizes
  <2>2. Stored' = Stored
    BY <2>1 DEF Stored, StoredUpTo
  <2> QED
    BY <1>3, <2>2 DEF ShelfInv, HoldsUpload
<1>4. CASE Time
  BY <1>3, <1>4 DEF Time, PairingTime, PinExpires, LockEnds, shelfRows
<1> QED
  BY <1>1, <1>2, <1>3, <1>4 DEF Next, vars, hubRows, shelfRows

\* It holds at the start: nothing is stored.
LEMMA InitShelfInv == Init => ShelfInv
<1> SUFFICES ASSUME Init PROVE ShelfInv
  OBVIOUS
<1>1. blobs = [b \in BlobIds |-> Absent] /\ quota = 0
  BY DEF Init, InitShelf
<1>2. PICK v, f : v = Sizes /\ f = StoredUpTo
  OBVIOUS
<1>3. v = [b \in BlobIds |-> 0]
  BY <1>1, <1>2 DEF Sizes
<1>4. v \in [BlobIds -> Nat]
  BY <1>3
<1>5. f = CHOOSE s : s = [n \in 0..MaxBlob |-> IF n = 0 THEN 0 ELSE s[n - 1] + v[n]]
  BY <1>2 DEF StoredUpTo
<1>6. Sums(f, v)
  BY <1>4, <1>5, SumsAreThere
<1>7. f[MaxBlob] = 0
  <2> DEFINE S == {n \in 0..MaxBlob : f[n] # 0}
  <2>1. CASE S = {}
    BY <2>1, ShelfAssumption
  <2>2. CASE S # {}
    <3>1. PICK x \in S : \A y \in S : x <= y
      <4>1. S \in SUBSET Nat
        OBVIOUS
      <4> HIDE DEF S
      <4> QED
        BY <2>2, <4>1, Least
    <3>2. x # 0
      BY <1>6, <3>1 DEF Sums
    <3>3. x \in BlobIds /\ x - 1 \in 0..MaxBlob /\ f[x - 1] = 0
      BY <3>1, <3>2, ShelfAssumption DEF BlobIds
    <3> QED
      BY <1>3, <1>6, <3>1, <3>3 DEF Sums
  <2> QED
    BY <2>1, <2>2
<1>8. Stored = 0
  BY <1>2, <1>7 DEF Stored
<1>9. \A p \in Reqs : HoldsUpload(req[p])
  BY DEF Init, InitRequests, Idle, HoldsUpload
<1> QED
  BY <1>1, <1>8, <1>9, ShelfAssumption DEF ShelfInv

\* The quota row is the size of what the organization stores and never more than
\* it may, however many uploads ask at once: createUploadUrl compares the row in
\* the commit that writes it.
THEOREM QuotaIsKept == Spec => []QuotaIsSum
<1>1. ShelfInv => QuotaIsSum
  BY DEF ShelfInv, QuotaIsSum
<1>2. AllFormed /\ ShelfInv /\ [Next]_vars => (AllFormed /\ ShelfInv)'
  BY FormedKept, StepShelf
<1> QED
  BY <1>1, <1>2, InitFormed, InitShelfInv, PTL DEF Spec

-----------------------------------------------------------------------------
(* Wrong PINs *)

\* Two requests in flight, as many as one requester needs to try PINs at once.
TwoInFlight == \E r, s : r # s /\ Reqs = {r, s}

\* How many wrong PINs in a row follow a count until the lock: one at least.
LeftAfter(n) == IF n < PinLimit THEN PinLimit - n ELSE 1

\* A request is on its way to record a try at pair p, from the count it has read.
Trying(q) == q.op = "submit" /\ q.pc \in {"count", "countOf", "pin", "wrong", "right"}
TriesAt(q, p) == Trying(q) /\ <<q.mem.user, q.mem.handle>> = p
FromMemory(q, p) == IF TriesAt(q, p) THEN LeftAfter(q.mem.failure.count) ELSE 0
FromRow(p) == IF failures[p].locked THEN 0 ELSE LeftAfter(failures[p].count)

\* The most that the request's next tries can have from where they would begin
Level(q, p) == IF FromMemory(q, p) > FromRow(p) THEN FromMemory(q, p) ELSE FromRow(p)

\* Twice the wrong PINs that two requests at these levels can still try: the
\* higher one waits while the other goes to the lock, then it lifts the lock, and
\* so on from one level less.
Twice(x, y) == IF x < y THEN 2 * x + y * (y + 1) ELSE 2 * y + x * (x + 1)

HoldsTry(q) == Trying(q) =>
  q.mem.failure \in Failure /\ ~q.mem.failure.locked /\ <<q.mem.user, q.mem.handle>> \in Pairs

GuessInv ==
  /\ failures \in [Pairs -> Failure] /\ guesses \in [Pairs -> Nat]
  /\ \A p \in Reqs : HoldsTry(req[p])
  /\ \A p \in Pairs, r \in Reqs, s \in Reqs : r # s =>
       2 * guesses[p] + Twice(Level(req[r], p), Level(req[s], p)) <= PinLimit * (PinLimit + 3)

\* What is left at some levels: less at lower ones, the same for both orders,
\* and one try less after a try.
LEMMA SquareGrows ==
  ASSUME NEW x \in Nat, NEW y \in Nat, x <= y
  PROVE  x * (x + 1) <= y * (y + 1) /\ x * (x + 1) \in Nat
<1>1. PICK d \in Nat : y = x + d
  <2>1. y - x \in Nat /\ y = x + (y - x)
    OBVIOUS
  <2> QED
    BY <2>1
<1>2. (x + d) * (x + d + 1) = x * (x + 1) + d * (2 * x + d + 1)
  OBVIOUS
<1>3. d * (2 * x + d + 1) \in Nat /\ x * (x + 1) \in Nat
  OBVIOUS
<1> QED
  BY <1>1, <1>2, <1>3

LEMMA TwiceIsNat ==
  ASSUME NEW x \in Nat, NEW y \in Nat
  PROVE  Twice(x, y) \in Nat /\ Twice(x, y) = Twice(y, x)
<1>1. x * (x + 1) \in Nat /\ y * (y + 1) \in Nat
  BY SquareGrows
<1>2. x = y => x * (x + 1) = y * (y + 1)
  OBVIOUS
<1> QED
  BY <1>1, <1>2 DEF Twice

LEMMA TwiceGrows ==
  ASSUME NEW a \in Nat, NEW b \in Nat, NEW x \in Nat, NEW y \in Nat, a <= x, b <= y
  PROVE  Twice(a, b) <= Twice(x, y)
<1> DEFINE m == IF a < b THEN b ELSE a
           n == IF x < y THEN y ELSE x
<1>1. m \in Nat /\ n \in Nat /\ m <= n
  OBVIOUS
<1>2. m * (m + 1) <= n * (n + 1)
  BY <1>1, SquareGrows
<1>3. Twice(a, b) = 2 * (IF a < b THEN a ELSE b) + m * (m + 1)
  BY DEF Twice
<1>4. Twice(x, y) = 2 * (IF x < y THEN x ELSE y) + n * (n + 1)
  BY DEF Twice
<1>5. m * (m + 1) \in Nat /\ n * (n + 1) \in Nat
  BY <1>1, SquareGrows
<1> HIDE DEF m, n
<1> QED
  BY <1>2, <1>3, <1>4, <1>5

LEMMA TwiceAfterTry ==
  ASSUME NEW k \in Nat \ {0}, NEW x \in Nat, NEW y \in Nat, NEW b \in Nat, k <= x, b <= y \/ b <= k - 1
  PROVE  Twice(k - 1, b) + 2 <= Twice(x, y)
<1>1. Twice(k, y) <= Twice(x, y)
  BY TwiceGrows
<1>2. k - 1 \in Nat /\ (k - 1) * k \in Nat /\ k * (k + 1) \in Nat /\ k * (k + 1) = (k - 1) * k + 2 * k
  BY SquareGrows
<1>3. (k - 1) * ((k - 1) + 1) = (k - 1) * k
  OBVIOUS
<1>4. Twice(k - 1, y) + 2 <= Twice(k, y)
  <2>1. CASE k <= y
    <3>1. y * (y + 1) \in Nat
      BY SquareGrows
    <3>2. k = y => k * (k + 1) = y * (y + 1)
      OBVIOUS
    <3> QED
      BY <1>2, <2>1, <3>1, <3>2 DEF Twice
  <2>2. CASE y <= k - 1
    BY <1>2, <1>3, <2>2 DEF Twice
  <2> QED
    BY <2>1, <2>2
<1>5. Twice(k - 1, k - 1) + 2 <= Twice(k, y)
  <2>1. Twice(k, 0) <= Twice(k, y)
    BY TwiceGrows
  <2>2. Twice(k, 0) = k * (k + 1)
    BY <1>2 DEF Twice
  <2>3. Twice(k - 1, k - 1) = 2 * (k - 1) + (k - 1) * k
    BY <1>2, <1>3 DEF Twice
  <2> QED
    BY <1>2, <2>1, <2>2, <2>3, TwiceIsNat
<1>6. b <= y => Twice(k - 1, b) <= Twice(k - 1, y)
  BY <1>2, TwiceGrows
<1>7. b <= k - 1 => Twice(k - 1, b) <= Twice(k - 1, k - 1)
  BY <1>2, TwiceGrows
<1>8. /\ Twice(k - 1, b) \in Nat /\ Twice(k - 1, y) \in Nat /\ Twice(k, y) \in Nat
      /\ Twice(x, y) \in Nat /\ Twice(k - 1, k - 1) \in Nat
  BY <1>2, TwiceIsNat
<1> QED
  BY <1>1, <1>4, <1>5, <1>6, <1>7, <1>8

LEMMA TwiceAtMost ==
  ASSUME NEW x \in 0..PinLimit, NEW y \in 0..PinLimit
  PROVE  Twice(x, y) <= PinLimit * (PinLimit + 3)
<1>1. PinLimit \in Nat
  BY PairingAssumption
<1>2. Twice(x, y) <= Twice(PinLimit, PinLimit)
  BY <1>1, TwiceGrows
<1>3. Twice(PinLimit, PinLimit) = 2 * PinLimit + PinLimit * (PinLimit + 1)
  BY <1>1 DEF Twice
<1>4. PinLimit * (PinLimit + 3) = 2 * PinLimit + PinLimit * (PinLimit + 1)
  BY <1>1
<1> QED
  BY <1>2, <1>3, <1>4

\* Levels are never above the limit.
LEMMA LeftInRange == \A n \in Nat : LeftAfter(n) \in 1..PinLimit
BY PairingAssumption DEF LeftAfter

LEMMA Levels ==
  ASSUME NEW q, HoldsTry(q), NEW p \in Pairs, failures[p] \in Failure
  PROVE  Level(q, p) \in 0..PinLimit /\ FromMemory(q, p) \in 0..PinLimit /\ FromRow(p) \in 0..PinLimit
<1>1. FromMemory(q, p) \in 0..PinLimit
  BY LeftInRange, PairingAssumption DEF FromMemory, TriesAt, HoldsTry, Failure
<1>2. FromRow(p) \in 0..PinLimit
  BY LeftInRange, PairingAssumption DEF FromRow, Failure
<1> QED
  BY <1>1, <1>2 DEF Level

\* A step after which the request that made it starts from no better a place.
LEMMA GuessAside ==
  ASSUME GuessInv, NEW r \in Reqs, \A p \in Reqs : p # r => Aside(p), UNCHANGED <<failures, guesses>>,
         HoldsTry(req'[r]),
         \A p \in Pairs : FromMemory(req'[r], p) <= FromMemory(req[r], p) \/ FromMemory(req'[r], p) <= FromRow(p)
  PROVE  GuessInv'
<1>1. ASSUME NEW p \in Reqs PROVE HoldsTry(req'[p])
  <2>1. CASE p = r
    BY <2>1
  <2>2. CASE p # r
    BY <2>2 DEF GuessInv, HoldsTry, Trying, Aside
  <2> QED
    BY <2>1, <2>2
<1>2. ASSUME NEW p \in Pairs, NEW s \in Reqs
      PROVE  /\ Level(req[s], p) \in Nat /\ Level(req'[s], p) \in Nat
             /\ Level(req'[s], p) <= Level(req[s], p)
  <2>1. HoldsTry(req[s]) /\ HoldsTry(req'[s]) /\ failures[p] \in Failure
    BY <1>1 DEF GuessInv
  <2>2. /\ FromMemory(req[s], p) \in 0..PinLimit /\ FromMemory(req'[s], p) \in 0..PinLimit
        /\ FromRow(p) \in 0..PinLimit
    BY <2>1, Levels
  <2>3. s # r => FromMemory(req'[s], p) = FromMemory(req[s], p)
    BY DEF FromMemory, TriesAt, Trying, Aside
  <2>4. FromMemory(req'[s], p) <= FromMemory(req[s], p) \/ FromMemory(req'[s], p) <= FromRow(p)
    BY <2>2, <2>3
  <2> QED
    BY <2>2, <2>4, PairingAssumption DEF Level
<1>3. ASSUME NEW p \in Pairs, NEW s \in Reqs, NEW z \in Reqs, s # z
      PROVE  2 * guesses[p] + Twice(Level(req'[s], p), Level(req'[z], p)) <= PinLimit * (PinLimit + 3)
  <2>1. /\ Twice(Level(req'[s], p), Level(req'[z], p)) <= Twice(Level(req[s], p), Level(req[z], p))
        /\ Twice(Level(req'[s], p), Level(req'[z], p)) \in Nat
        /\ Twice(Level(req[s], p), Level(req[z], p)) \in Nat
    BY <1>2, TwiceGrows, TwiceIsNat
  <2>2. 2 * guesses[p] + Twice(Level(req[s], p), Level(req[z], p)) <= PinLimit * (PinLimit + 3)
    BY <1>3 DEF GuessInv
  <2>3. guesses[p] \in Nat /\ PinLimit * (PinLimit + 3) \in Nat
    BY PairingAssumption DEF GuessInv
  <2> QED
    BY <2>1, <2>2, <2>3
<1> QED
  BY <1>1, <1>3 DEF GuessInv, HoldsTry, Trying, Level, FromMemory, FromRow, TriesAt

\* A wrong PIN is recorded: one more, and everybody who is not waiting starts
\* from the count that is written.
LEMMA WrongIsRecorded ==
  ASSUME TwoInFlight, AllFormed, GuessInv, NEW r \in Reqs, SubmitWrong(r)
  PROVE  GuessInv'
<1> DEFINE row(p) == IF failures'[p].locked THEN 0 ELSE LeftAfter(failures'[p].count)
<1>1. PICK f, at : f = req[r].mem.failure /\ at = <<req[r].mem.user, req[r].mem.handle>>
  OBVIOUS
<1>2. /\ At(r, "submit", "wrong")
      /\ failures' = [failures EXCEPT ![at] = RecordWrongPin(f)]
      /\ guesses' = [guesses EXCEPT ![at] = @ + 1]
      /\ Answer(r)
  BY <1>1 DEF SubmitWrong
<1>3. req'[r].op = "none" /\ \A p \in Reqs : p # r => Aside(p)
  BY <1>2, Closes DEF Answer, Reads
<1>4. f \in Failure /\ ~f.locked /\ at \in Pairs /\ TriesAt(req[r], at)
  BY <1>1, <1>2 DEF GuessInv, HoldsTry, Trying, TriesAt, At
<1>5. failures \in [Pairs -> Failure] /\ guesses \in [Pairs -> Nat] /\ PinLimit * (PinLimit + 3) \in Nat
  BY PairingAssumption DEF GuessInv
<1>6. PICK g : g = RecordWrongPin(f)
  OBVIOUS
<1>7. /\ g \in Failure /\ g.count = f.count + 1 /\ (g.locked <=> f.count + 1 >= PinLimit)
  <2>1. f.count \in Nat /\ f.locked \in BOOLEAN
    BY <1>4 DEF Failure
  <2>2. g.count = f.count + 1 /\ g.locked = (f.count + 1 >= PinLimit \/ f.locked)
    BY <1>6 DEF RecordWrongPin
  <2>3. (f.count + 1 >= PinLimit \/ f.locked) \in BOOLEAN
    OBVIOUS
  <2>4. g.locked <=> f.count + 1 >= PinLimit
    BY <1>4, <2>2, Zenon
  <2>5. f.count + 1 \in Nat
    BY <2>1
  <2>6. g \in Failure
    BY <1>6, <2>3, <2>5, Zenon DEF RecordWrongPin, Failure
  <2> QED
    BY <2>2, <2>4, <2>6
<1>8. /\ failures' \in [Pairs -> Failure] /\ guesses' \in [Pairs -> Nat]
      /\ failures'[at] = g /\ guesses'[at] = guesses[at] + 1
      /\ \A p \in Pairs : p # at => failures'[p] = failures[p] /\ guesses'[p] = guesses[p]
  BY <1>2, <1>4, <1>5, <1>6, <1>7
<1>9. ASSUME NEW p \in Reqs PROVE HoldsTry(req'[p])
  <2>1. CASE p = r
    BY <1>3, <2>1 DEF HoldsTry, Trying
  <2>2. CASE p # r
    BY <1>3, <2>2 DEF GuessInv, HoldsTry, Trying, Aside
  <2> QED
    BY <2>1, <2>2
<1>10. /\ \A p \in Pairs : FromMemory(req'[r], p) = 0
       /\ \A s \in Reqs, p \in Pairs : s # r => FromMemory(req'[s], p) = FromMemory(req[s], p)
  BY <1>3 DEF FromMemory, TriesAt, Trying, Aside
<1>11. PICK k : k = LeftAfter(f.count)
  OBVIOUS
<1>12. k \in 1..PinLimit /\ FromMemory(req[r], at) = k
  BY <1>1, <1>4, <1>11, LeftInRange DEF Failure, FromMemory
<1>13. row(at) = k - 1
  <2>1. f.count \in Nat
    BY <1>4 DEF Failure
  <2>2. row(at) = IF g.locked THEN 0 ELSE LeftAfter(g.count)
    BY <1>8
  <2> HIDE DEF row
  <2> QED
    BY <1>7, <1>11, <2>1, <2>2, PairingAssumption DEF LeftAfter
<1>14. \A p \in Pairs : p # at => row(p) = FromRow(p)
  BY <1>8 DEF FromRow
<1> HIDE DEF row
<1>15. PICK s \in Reqs : s # r /\ Reqs = {r, s}
  BY DEF TwoInFlight
<1>16. ASSUME NEW p \in Pairs
       PROVE  /\ FromRow(p) \in 0..PinLimit /\ row(p) \in 0..PinLimit
              /\ FromMemory(req[r], p) \in 0..PinLimit /\ FromMemory(req[s], p) \in 0..PinLimit
              /\ Level(req[r], p) \in 0..PinLimit /\ Level(req[s], p) \in 0..PinLimit
  <2>1. HoldsTry(req[r]) /\ HoldsTry(req[s]) /\ failures[p] \in Failure /\ failures'[p] \in Failure
    BY <1>8 DEF GuessInv
  <2>2. /\ FromRow(p) \in 0..PinLimit /\ FromMemory(req[r], p) \in 0..PinLimit
        /\ FromMemory(req[s], p) \in 0..PinLimit
        /\ Level(req[r], p) \in 0..PinLimit /\ Level(req[s], p) \in 0..PinLimit
    BY <2>1, Levels
  <2>3. row(p) \in 0..PinLimit
    <3>1. CASE p = at
      BY <1>12, <1>13, <3>1, PairingAssumption
    <3>2. CASE p # at
      BY <1>14, <2>2, <3>2
    <3> QED
      BY <3>1, <3>2
  <2> QED
    BY <2>2, <2>3
<1>17. ASSUME NEW p \in Pairs
       PROVE  2 * guesses'[p] + Twice(Level(req[r], p)', Level(req[s], p)') <= PinLimit * (PinLimit + 3)
  <2>1. 2 * guesses[p] + Twice(Level(req[r], p), Level(req[s], p)) <= PinLimit * (PinLimit + 3)
    BY <1>15 DEF GuessInv
  <2>2. /\ Level(req[r], p)' = row(p)
        /\ Level(req[s], p)' = IF FromMemory(req[s], p) > row(p) THEN FromMemory(req[s], p) ELSE row(p)
    <3>1. FromMemory(req[r], p)' = FromMemory(req'[r], p) /\ FromMemory(req[s], p)' = FromMemory(req'[s], p)
      BY DEF FromMemory, TriesAt, Trying
    <3> QED
      BY <1>10, <1>15, <1>16, <3>1, PairingAssumption DEF Level, FromRow, row
  <2>3. PICK x, y, a, b : /\ x = Level(req[r], p) /\ y = Level(req[s], p)
                          /\ a = Level(req[r], p)' /\ b = Level(req[s], p)'
    OBVIOUS
  <2>4. x \in Nat /\ y \in Nat /\ a \in Nat /\ b \in Nat
    BY <1>16, <2>2, <2>3, PairingAssumption
  <2>5. Twice(x, y) \in Nat /\ Twice(a, b) \in Nat /\ guesses[p] \in Nat /\ guesses'[p] \in Nat
    BY <1>5, <1>8, <2>4, TwiceIsNat
  <2>6. CASE p = at
    <3>1. k \in Nat \ {0} /\ k <= x /\ a = k - 1 /\ (b <= y \/ b <= k - 1)
      BY <1>12, <1>13, <1>16, <2>2, <2>3, <2>6, PairingAssumption DEF Level
    <3>2. Twice(a, b) + 2 <= Twice(x, y)
      BY <2>4, <3>1, TwiceAfterTry
    <3> QED
      BY <1>5, <1>8, <2>1, <2>3, <2>5, <2>6, <3>2
  <2>7. CASE p # at
    <3>1. a <= x /\ b <= y
      BY <1>14, <1>16, <2>2, <2>3, <2>7, PairingAssumption DEF Level
    <3>2. Twice(a, b) <= Twice(x, y)
      BY <2>4, <3>1, TwiceGrows
    <3> QED
      BY <1>5, <1>8, <2>1, <2>3, <2>5, <2>7, <3>2
  <2> QED
    BY <2>6, <2>7
<1>18. ASSUME NEW p \in Pairs
       PROVE  Twice(Level(req[s], p)', Level(req[r], p)') = Twice(Level(req[r], p)', Level(req[s], p)')
  <2>1. HoldsTry(req'[r]) /\ HoldsTry(req'[s]) /\ failures'[p] \in Failure
    BY <1>8, <1>9
  <2>2. Level(req[r], p)' \in Nat /\ Level(req[s], p)' \in Nat
    <3>1. FromMemory(req'[r], p) \in 0..PinLimit /\ FromMemory(req'[s], p) \in 0..PinLimit
      BY <1>10, <1>15, <1>16, PairingAssumption
    <3>2. FromMemory(req[r], p)' = FromMemory(req'[r], p) /\ FromMemory(req[s], p)' = FromMemory(req'[s], p)
      BY DEF FromMemory, TriesAt, Trying
    <3> QED
      BY <1>16, <3>1, <3>2, PairingAssumption DEF Level, FromRow, row
  <2> QED
    BY <2>2, TwiceIsNat
<1>19. ASSUME NEW p \in Pairs, NEW x \in Reqs, NEW y \in Reqs, x # y
       PROVE  2 * guesses'[p] + Twice(Level(req[x], p)', Level(req[y], p)') <= PinLimit * (PinLimit + 3)
  BY <1>15, <1>17, <1>18, <1>19
<1>20. \A p \in Reqs : HoldsTry(req[p])'
  BY <1>9 DEF HoldsTry, Trying
<1> QED
  BY <1>8, <1>19, <1>20 DEF GuessInv

\* A right PIN and the end of a lock's time begin again at one pair.
LEMMA GuessAnew ==
  ASSUME GuessInv, NEW at \in Pairs, NEW f \in Failure,
         failures' = [failures EXCEPT ![at] = f], guesses' = [guesses EXCEPT ![at] = 0],
         \A p \in Reqs : HoldsTry(req'[p]),
         \A p \in Pairs, s \in Reqs : p # at => FromMemory(req'[s], p) <= FromMemory(req[s], p)
  PROVE  GuessInv'
<1> DEFINE row(p) == IF failures'[p].locked THEN 0 ELSE LeftAfter(failures'[p].count)
           level(s, p) == IF FromMemory(req'[s], p) > row(p) THEN FromMemory(req'[s], p) ELSE row(p)
<1>1. /\ failures \in [Pairs -> Failure] /\ guesses \in [Pairs -> Nat]
      /\ failures' \in [Pairs -> Failure] /\ guesses' \in [Pairs -> Nat] /\ guesses'[at] = 0
      /\ \A p \in Pairs : p # at => failures'[p] = failures[p] /\ guesses'[p] = guesses[p]
  BY DEF GuessInv
<1>2. ASSUME NEW p \in Pairs, NEW s \in Reqs
      PROVE  /\ row(p) \in 0..PinLimit /\ FromMemory(req'[s], p) \in 0..PinLimit
             /\ level(s, p) \in 0..PinLimit /\ level(s, p) \in Nat
  <2>1. row(p) \in 0..PinLimit
    BY <1>1, LeftInRange, PairingAssumption DEF Failure
  <2>2. FromMemory(req'[s], p) \in 0..PinLimit
    BY LeftInRange, PairingAssumption DEF FromMemory, TriesAt, HoldsTry, Failure
  <2> HIDE DEF row
  <2> QED
    BY <2>1, <2>2, PairingAssumption
<1>3. ASSUME NEW p \in Pairs, NEW s \in Reqs, p # at
      PROVE  level(s, p) <= Level(req[s], p) /\ Level(req[s], p) \in Nat
  <2>1. row(p) = FromRow(p)
    BY <1>1, <1>3 DEF FromRow
  <2>2. HoldsTry(req[s]) /\ failures[p] \in Failure
    BY DEF GuessInv
  <2>3. /\ Level(req[s], p) \in 0..PinLimit /\ FromMemory(req[s], p) \in 0..PinLimit
        /\ FromRow(p) \in 0..PinLimit
    BY <2>2, Levels
  <2>4. FromMemory(req'[s], p) <= FromMemory(req[s], p) /\ FromMemory(req'[s], p) \in 0..PinLimit
    BY <1>2, <1>3
  <2> HIDE DEF row
  <2> QED
    BY <2>1, <2>3, <2>4, PairingAssumption DEF Level
<1>4. \A s \in Reqs, p \in Pairs : level(s, p) = Level(req[s], p)'
  BY DEF Level, FromMemory, FromRow, TriesAt, Trying
<1>5. PinLimit * (PinLimit + 3) \in Nat
  BY PairingAssumption
<1> HIDE DEF level, row
<1>6. ASSUME NEW p \in Pairs, NEW s \in Reqs, NEW z \in Reqs, s # z
      PROVE  2 * guesses'[p] + Twice(level(s, p), level(z, p)) <= PinLimit * (PinLimit + 3)
  <2>1. CASE p = at
    <3>1. Twice(level(s, p), level(z, p)) <= PinLimit * (PinLimit + 3)
      BY <1>2, TwiceAtMost
    <3>2. Twice(level(s, p), level(z, p)) \in Nat
      BY <1>2, TwiceIsNat
    <3> QED
      BY <1>1, <1>5, <2>1, <3>1, <3>2
  <2>2. CASE p # at
    <3>1. PICK x, y, a, b : /\ x = Level(req[s], p) /\ y = Level(req[z], p)
                            /\ a = level(s, p) /\ b = level(z, p)
      OBVIOUS
    <3>2. /\ x \in Nat /\ y \in Nat /\ a \in Nat /\ b \in Nat /\ a <= x /\ b <= y
      BY <1>2, <1>3, <2>2, <3>1
    <3>3. Twice(a, b) <= Twice(x, y) /\ Twice(a, b) \in Nat /\ Twice(x, y) \in Nat
      BY <3>2, TwiceGrows, TwiceIsNat
    <3>4. 2 * guesses[p] + Twice(x, y) <= PinLimit * (PinLimit + 3)
      BY <1>6, <3>1 DEF GuessInv
    <3> QED
      BY <1>1, <1>5, <2>2, <3>1, <3>3, <3>4
  <2> QED
    BY <2>1, <2>2
<1>7. \A p \in Reqs : HoldsTry(req[p])'
  BY DEF HoldsTry, Trying
<1> QED
  BY <1>1, <1>4, <1>6, <1>7 DEF GuessInv

LEMMA RightStartsAnew ==
  ASSUME AllFormed, GuessInv, NEW r \in Reqs, SubmitRight(r)
  PROVE  GuessInv'
<1>1. PICK at, mem : mem = req[r].mem /\ at = <<req[r].mem.user, req[r].mem.handle>>
  OBVIOUS
<1>2. /\ At(r, "submit", "right")
      /\ failures' = [failures EXCEPT ![at] = Cleared]
      /\ guesses' = [guesses EXCEPT ![at] = 0]
  BY <1>1 DEF SubmitRight
<1>3. PICK held, K : Writes(r, On(req[r], "find", held, mem), K)
  BY <1>1 DEF SubmitRight, Reads
<1>4. req'[r].op = "submit" /\ req'[r].pc = "find" /\ \A p \in Reqs : p # r => Aside(p)
  BY <1>2, <1>3, Advances DEF At
<1>5. at \in Pairs /\ Cleared \in Failure
  BY <1>1, <1>2 DEF GuessInv, HoldsTry, Trying, At, Cleared, Failure
<1>6. \A p \in Reqs : HoldsTry(req'[p])
  BY <1>4 DEF GuessInv, HoldsTry, Trying, Aside
<1>7. ASSUME NEW p \in Pairs, NEW s \in Reqs PROVE FromMemory(req'[s], p) <= FromMemory(req[s], p)
  <2>1. s = r => FromMemory(req'[s], p) = 0
    BY <1>4 DEF FromMemory, TriesAt, Trying
  <2>2. s # r => FromMemory(req'[s], p) = FromMemory(req[s], p)
    BY <1>4 DEF FromMemory, TriesAt, Trying, Aside
  <2>3. HoldsTry(req[s]) /\ failures[p] \in Failure
    BY DEF GuessInv
  <2>4. FromMemory(req[s], p) \in 0..PinLimit
    BY <2>3, Levels
  <2> QED
    BY <2>1, <2>2, <2>4, PairingAssumption
<1> QED
  BY <1>2, <1>5, <1>6, <1>7, GuessAnew

LEMMA LockEndsAnew ==
  ASSUME GuessInv, NEW at \in Pairs, LockEnds(at)
  PROVE  GuessInv'
<1>1. PICK f : f = [failures[at] EXCEPT !.locked = FALSE]
  OBVIOUS
<1>2. f \in Failure
  BY <1>1 DEF GuessInv, Failure
<1>3. failures' = [failures EXCEPT ![at] = f] /\ guesses' = [guesses EXCEPT ![at] = 0] /\ req' = req
  BY <1>1 DEF LockEnds
<1>4. \A p \in Reqs : HoldsTry(req'[p])
  BY <1>3 DEF GuessInv
<1>5. ASSUME NEW p \in Pairs, NEW s \in Reqs PROVE FromMemory(req'[s], p) <= FromMemory(req[s], p)
  <2>1. HoldsTry(req[s]) /\ failures[p] \in Failure
    BY DEF GuessInv
  <2>2. FromMemory(req[s], p) \in 0..PinLimit
    BY <2>1, Levels
  <2> QED
    BY <1>3, <2>2, PairingAssumption
<1> QED
  BY <1>2, <1>3, <1>4, <1>5, GuessAnew

\* A request that does not try, or goes on trying from the count it read.
LEMMA GuessStays ==
  ASSUME GuessInv, NEW r \in Reqs, \A p \in Reqs : p # r => Aside(p), UNCHANGED <<failures, guesses>>,
         Trying(req'[r]) => Trying(req[r]) /\ req'[r].mem = req[r].mem
  PROVE  GuessInv'
<1>1. HoldsTry(req'[r])
  BY DEF GuessInv, HoldsTry, Trying
<1>2. ASSUME NEW p \in Pairs PROVE FromMemory(req'[r], p) <= FromMemory(req[r], p)
  <2>1. HoldsTry(req[r]) /\ failures[p] \in Failure
    BY DEF GuessInv
  <2>2. FromMemory(req[r], p) \in 0..PinLimit
    BY <2>1, Levels
  <2>3. FromMemory(req'[r], p) = FromMemory(req[r], p) \/ FromMemory(req'[r], p) = 0
    BY DEF FromMemory, TriesAt, Trying
  <2> QED
    BY <2>2, <2>3, PairingAssumption
<1> QED
  BY <1>1, <1>2, GuessAside

\* A submission begins when the pair is not locked, from the count as it is.
LEMMA TryBegins ==
  ASSUME AllFormed, TriesFormed, GuessInv, NEW r \in Reqs, \E a \in scope.tries : SubmitStart(r, a[1], a[2], a[3])
  PROVE  GuessInv'
<1>1. PICK a \in scope.tries : SubmitStart(r, a[1], a[2], a[3])
  OBVIOUS
<1>2. PICK at : at = <<a[1], a[2]>>
  OBVIOUS
<1>3. at \in Pairs
  BY <1>1, <1>2 DEF TriesFormed, Pairs
<1>4. PICK mem, held, K :
        /\ Writes(r, Begin("submit", "count", held, mem), K)
        /\ mem.user = a[1] /\ mem.handle = a[2] /\ mem.failure = failures[at]
  BY <1>1, <1>2 DEF SubmitStart, Reads
<1>5. /\ req'[r].op = "submit" /\ req'[r].pc = "count" /\ req'[r].mem = mem
      /\ \A p \in Reqs : p # r => Aside(p)
  BY <1>4, Opens
<1>6. ~failures[at].locked /\ UNCHANGED <<failures, guesses>>
  BY <1>1, <1>2 DEF SubmitStart, pairingRows
<1>7. HoldsTry(req'[r])
  BY <1>2, <1>3, <1>4, <1>5, <1>6 DEF GuessInv, HoldsTry
<1>8. ASSUME NEW p \in Pairs PROVE FromMemory(req'[r], p) <= FromRow(p)
  <2>1. HoldsTry(req'[r]) /\ failures[p] \in Failure
    BY <1>7 DEF GuessInv
  <2>2. FromMemory(req'[r], p) \in 0..PinLimit /\ FromRow(p) \in 0..PinLimit
    BY <2>1, Levels
  <2>3. FromMemory(req'[r], p) = 0 \/ FromMemory(req'[r], p) = FromRow(p)
    BY <1>2, <1>4, <1>5, <1>6 DEF FromMemory, FromRow, TriesAt, Trying
  <2> QED
    BY <2>2, <2>3, PairingAssumption
<1> QED
  BY <1>5, <1>6, <1>7, <1>8, GuessAside

\* A submission goes on.
LEMMA TryGoesOn ==
  ASSUME AllFormed, GuessInv, NEW r \in Reqs, SubmitCount(r) \/ SubmitCountOf(r) \/ SubmitPin(r)
  PROVE  GuessInv'
<1>1. UNCHANGED <<failures, guesses>>
  BY DEF SubmitCount, SubmitCountOf, SubmitPin, pairingRows
<1>2. Trying(req[r])
  BY DEF SubmitCount, SubmitCountOf, SubmitPin, At, Trying
<1>3. PICK pc, held, mem, K : Writes(r, On(req[r], pc, held, mem), K) /\ mem = req[r].mem /\ pc # "migrate"
  <2>1. CASE SubmitCount(r)
    BY <2>1 DEF SubmitCount, Reads
  <2>2. CASE SubmitCountOf(r)
    BY <2>2 DEF SubmitCountOf, Reads
  <2>3. CASE SubmitPin(r)
    BY <2>3 DEF SubmitPin, Reads
  <2> QED
    BY <2>1, <2>2, <2>3
<1>4. req'[r].mem = req[r].mem /\ \A p \in Reqs : p # r => Aside(p)
  <2>1. \E h, k : Writes(r, On(req[r], pc, h, mem), k)
    BY <1>3
  <2> QED
    BY <1>3, <2>1, Moves
<1> QED
  BY <1>1, <1>2, <1>4, GuessStays

\* A request of other operations does not try.
LEMMA GuessAsideOps ==
  ASSUME AllFormed, GuessInv, NEW r \in Reqs, NEW Ops, Becomes(r, Ops), "submit" \notin Ops,
         UNCHANGED <<failures, guesses>>
  PROVE  GuessInv'
<1>1. req'[r].op \in Ops \cup {"none"} /\ \A p \in Reqs : p # r => Aside(p)
  BY Bystanders
<1> QED
  BY <1>1, GuessStays DEF Trying

\* The other steps of contacts, and those of a submission after its try
LEMMA TriedGoesOn ==
  ASSUME AllFormed, GuessInv, NEW r \in Reqs, SubmitFind(r) \/ SubmitCommit(r)
  PROVE  GuessInv'
<1>1. UNCHANGED <<failures, guesses>>
  BY DEF SubmitFind, SubmitCommit, pairingRows
<1>2. Ends(r) \/ \E held, mem, K : Writes(r, On(req[r], "commit", held, mem), K)
  BY Zenon DEF SubmitFind, SubmitCommit, Answer, Reads, Leaves, Ends
<1>3. CASE Ends(r)
  <2>1. Becomes(r, {})
    BY <1>3, Ending
  <2> QED
    BY <1>1, <2>1, GuessAsideOps
<1>4. CASE \E held, mem, K : Writes(r, On(req[r], "commit", held, mem), K)
  <2>1. PICK mem, held, K : Writes(r, On(req[r], "commit", held, mem), K)
    BY <1>4
  <2>2. req'[r].pc = "commit" /\ \A p \in Reqs : p # r => Aside(p)
    BY <2>1, Advances
  <2> QED
    BY <1>1, <2>2, GuessStays DEF Trying
<1> QED
  BY <1>2, <1>3, <1>4

LEMMA OthersDoNotTry ==
  ASSUME AllFormed, GuessInv, NEW r \in Reqs, PairingStart(r) \/ PairingStep(r),
         ~\E a \in scope.tries : SubmitStart(r, a[1], a[2], a[3]),
         ~(SubmitCount(r) \/ SubmitCountOf(r) \/ SubmitPin(r) \/ SubmitWrong(r) \/ SubmitRight(r)
           \/ SubmitFind(r) \/ SubmitCommit(r))
  PROVE  GuessInv'
<1>1. UNCHANGED <<failures, guesses>>
  BY DEF PairingStart, PairingStep, PinIssue, ApproveStart, DenyStart, UnpairStart, MailStart, ReplyStart,
     ApproveLink, ApproveCommit, DenyBlock, DenyResolve, DenyRecord, DenyFlag, DenyRaise, UnpairScan,
     UnpairClose, UnpairCommit, MailCounted, MailCommit, pairingRows
<1>2. CASE PairingStart(r)
  <2>1. CASE \E t \in Targets : PinIssue(r, t)
    <3>1. Ends(r)
      BY <2>1, Zenon DEF PinIssue, Reads, Ends
    <3>2. Becomes(r, {})
      BY <3>1, Ending
    <3> QED
      BY <1>1, <3>2, GuessAsideOps
  <2>2. CASE ~\E t \in Targets : PinIssue(r, t)
    <3>1. Becomes(r, ContactOps \ {"submit"})
      BY <1>2, <2>2, Beginning DEF PairingStart, ApproveStart, DenyStart, UnpairStart, MailStart,
         ReplyStart, Reads, ContactOps
    <3> QED
      BY <1>1, <3>1, GuessAsideOps
  <2> QED
    BY <2>1, <2>2
<1>3. CASE PairingStep(r)
  <2>1. req[r].op \in ContactOps \ {"submit"}
    BY <1>3 DEF PairingStep, ApproveLink, ApproveCommit, DenyBlock, DenyResolve, DenyRecord, DenyFlag,
       DenyRaise, UnpairScan, UnpairClose, UnpairCommit, MailCounted, MailCommit, MailOps, At, ContactOps
  <2>2. Proceeds(r) \/ Ends(r)
    BY <1>3, Zenon DEF PairingStep, ApproveLink, ApproveCommit, DenyBlock, DenyResolve, DenyRecord,
       DenyFlag, DenyRaise, UnpairScan, UnpairClose, UnpairCommit, MailCounted, MailCommit,
       Reads, Answer, Leaves, Proceeds, Ends
  <2>3. Becomes(r, ContactOps \ {"submit"})
    BY <2>1, <2>2, Proceeding
  <2> QED
    BY <1>1, <2>3, GuessAsideOps
<1> QED
  BY <1>2, <1>3

\* Every step keeps it.
LEMMA StepGuesses ==
  ASSUME TwoInFlight, AllFormed, TriesFormed, GuessInv, [Next]_vars
  PROVE  GuessInv'
<1>1. ASSUME NEW r \in Reqs, Contacts(r) PROVE GuessInv'
  BY <1>1, TryBegins, TryGoesOn, WrongIsRecorded, RightStartsAnew, TriedGoesOn, OthersDoNotTry DEF Contacts
<1>2. ASSUME NEW r \in Reqs, Directory(r) \/ Agency(r) \/ Keyring(r) \/ Shelf(r) \/ Dies(r)
      PROVE  GuessInv'
  <2>1. PICK Ops : Becomes(r, Ops) /\ "submit" \notin Ops
    BY <1>2, DirectoryFrame, AgencyFrame, KeyringFrame, ShelfFrame, DeathFrame
       DEF OrgOps, RegistryOps, ListingOps, AgentOps, DeviceOps, KeyOps, ShelfOps
  <2>2. UNCHANGED <<failures, guesses>>
    BY <1>2 DEF Directory, Agency, Keyring, Shelf, Dies, hubRows, pairingRows
  <2> QED
    BY <2>1, <2>2, GuessAsideOps
<1>3. CASE UNCHANGED <<req, failures, guesses>>
  BY <1>3 DEF GuessInv, HoldsTry, Trying, Level, FromMemory, FromRow, TriesAt
<1>4. CASE Time
  BY <1>3, <1>4, LockEndsAnew DEF Time, PairingTime, PinExpires
<1> QED
  BY <1>1, <1>2, <1>3, <1>4 DEF Next, vars, hubRows, pairingRows

\* It holds at the start: both may begin, from nothing.
LEMMA InitGuessInv == Init => GuessInv
<1> SUFFICES ASSUME Init PROVE GuessInv
  OBVIOUS
<1>1. /\ failures = [p \in Pairs |-> [count |-> 0, locked |-> FALSE]] /\ guesses = [p \in Pairs |-> 0]
  BY DEF Init, InitPairing
<1>2. failures \in [Pairs -> Failure] /\ guesses \in [Pairs -> Nat]
  BY <1>1 DEF Failure
<1>3. \A p \in Reqs : ~Trying(req[p])
  BY DEF Init, InitRequests, Idle, Trying
<1>4. ASSUME NEW p \in Pairs, NEW r \in Reqs, NEW s \in Reqs
      PROVE  2 * guesses[p] + Twice(Level(req[r], p), Level(req[s], p)) <= PinLimit * (PinLimit + 3)
  <2>1. HoldsTry(req[r]) /\ HoldsTry(req[s]) /\ failures[p] \in Failure
    BY <1>2, <1>3 DEF HoldsTry
  <2>2. Level(req[r], p) \in 0..PinLimit /\ Level(req[s], p) \in 0..PinLimit
    BY <2>1, Levels
  <2>3. Twice(Level(req[r], p), Level(req[s], p)) <= PinLimit * (PinLimit + 3)
    BY <2>2, TwiceAtMost
  <2>4. Twice(Level(req[r], p), Level(req[s], p)) \in Nat
    BY <2>2, PairingAssumption, TwiceIsNat
  <2>5. guesses[p] = 0
    BY <1>1
  <2> QED
    BY <2>3, <2>4, <2>5
<1> QED
  BY <1>2, <1>3, <1>4 DEF GuessInv, HoldsTry

\* However a requester interleaves two attempts, one of which may hold a count
\* from before the other's, at most PinLimit * (PinLimit + 3) / 2 wrong PINs in a
\* row are answered as such: submitPairRequest sets the count it read some awaits
\* before, so a late wrong attempt lifts a lock.
THEOREM GuessesAreBounded ==
  ASSUME TwoInFlight
  PROVE  Spec => []GuessesBounded
<1>1. GuessInv => GuessesBounded
  <2> SUFFICES ASSUME GuessInv, NEW p \in Pairs
               PROVE  guesses[p] <= (PinLimit * (PinLimit + 3)) \div 2
    BY DEF GuessesBounded
  <2>1. PICK r \in Reqs, s \in Reqs : r # s
    BY DEF TwoInFlight
  <2>2. HoldsTry(req[r]) /\ HoldsTry(req[s]) /\ failures[p] \in Failure /\ guesses[p] \in Nat
    BY DEF GuessInv
  <2>3. Level(req[r], p) \in 0..PinLimit /\ Level(req[s], p) \in 0..PinLimit
    BY <2>2, Levels
  <2>4. Twice(Level(req[r], p), Level(req[s], p)) \in Nat
    BY <2>3, PairingAssumption, TwiceIsNat
  <2>5. 2 * guesses[p] + Twice(Level(req[r], p), Level(req[s], p)) <= PinLimit * (PinLimit + 3)
    BY <2>1 DEF GuessInv
  <2>6. PICK n \in Nat : n = PinLimit * (PinLimit + 3)
    BY PairingAssumption
  <2>7. 2 * guesses[p] <= n
    BY <2>2, <2>4, <2>5, <2>6
  <2> QED
    BY <2>2, <2>6, <2>7
<1>2. AllFormed /\ TriesFormed /\ GuessInv /\ [Next]_vars => (AllFormed /\ TriesFormed /\ GuessInv)'
  BY FormedKept, TriesKept, StepGuesses
<1>3. Init => TriesFormed
  BY InitContacts
<1> QED
  BY <1>1, <1>2, <1>3, InitFormed, InitGuessInv, PTL DEF Spec
=============================================================================
