----------------------------- MODULE HubAccounts -----------------------------
(***************************************************************************)
(* The hub without its threads: accounts and organizations, the enterprise *)
(* registry, one user's agents, devices and connector keys, external       *)
(* contacts, and what members store, under the requests that are in flight *)
(* at the same time.                                                       *)
(***************************************************************************)
EXTENDS EnterpriseRegistry, AgentRegistry, DeviceKeys, ConnectorKeys, ExternalPairing, WorkShelf

directoryRows == <<orgRows, reserved, registryRows>>
hubRows == <<directoryRows, agentRows, deviceRows, keyRows, pairingRows, shelfRows>>
vars == <<req, scope, overwritten, hubRows>>

Init ==
  /\ InitRequests
  /\ InitOrg /\ InitRegistry /\ InitAgents /\ InitDevices /\ InitKeys /\ InitPairing /\ InitShelf

Directory(r) ==
  /\ \/ OrgStart(r) /\ Begins /\ UNCHANGED registryRows
     \/ OrgStep(r) /\ GoesOn /\ UNCHANGED registryRows
     \/ RegistryStart(r) /\ Begins
     \/ RegistryStep(r) /\ GoesOn
  /\ UNCHANGED <<agentRows, deviceRows, keyRows, pairingRows, shelfRows>>

Agency(r) ==
  /\ (AgentStart(r) /\ Begins) \/ (AgentStep(r) /\ GoesOn)
  /\ UNCHANGED <<directoryRows, deviceRows, keyRows, pairingRows, shelfRows>>

Keyring(r) ==
  /\ \/ DeviceStart(r) /\ Begins /\ UNCHANGED keyRows
     \/ DeviceStep(r) /\ GoesOn /\ UNCHANGED keyRows
     \/ KeyStart(r) /\ Begins /\ UNCHANGED deviceRows
     \/ KeyStep(r) /\ GoesOn /\ UNCHANGED deviceRows
  /\ UNCHANGED <<directoryRows, agentRows, pairingRows, shelfRows>>

Contacts(r) ==
  /\ (PairingStart(r) /\ Begins) \/ (PairingStep(r) /\ GoesOn)
  /\ UNCHANGED <<directoryRows, agentRows, deviceRows, keyRows, shelfRows>>

Shelf(r) ==
  /\ (ShelfStart(r) /\ Begins) \/ (ShelfStep(r) /\ GoesOn)
  /\ UNCHANGED <<directoryRows, agentRows, deviceRows, keyRows, pairingRows>>

Dies(r) == Crash(r) /\ UNCHANGED <<scope, hubRows>>
Time    == PairingTime /\ UNCHANGED <<scope, directoryRows, agentRows, deviceRows, keyRows, shelfRows>>

Next ==
  \/ \E r \in Reqs : Directory(r) \/ Agency(r) \/ Keyring(r) \/ Contacts(r) \/ Shelf(r) \/ Dies(r)
  \/ Time

Spec == Init /\ [][Next]_vars

-----------------------------------------------------------------------------
TypeOK ==
  /\ TypeOKRequests /\ TypeOKOrg /\ TypeOKRegistry /\ TypeOKAgents /\ TypeOKDevices
  /\ TypeOKKeys /\ TypeOKPairing /\ TypeOKShelf

\* A user's handle leads back to him, and its end is his organization's slug,
\* however renames of the organization, profile edits and new accounts
\* interleave.  This ends when a user's row is replaced by an old copy
\* (updateProfile, seedProfile, getMe): the next rename gives the handle in
\* that copy to him or to its new owner, and updateProfile deletes the row of
\* the handle it read at first, whoever has it by now.
NoLostEdit == \A u \in UserIds : <<"user", u>> \notin overwritten

\* Except for handles made from a slug that was replaced meanwhile, and users
\* who joined while a rename was between its reading of the members and its
\* commit, handles of an organization's members end in its slug.
HandlesResolve ==
  NoLostEdit => \A u \in UserIds : users[u] # Absent =>
    /\ handleRow[users[u].handle] = u
    /\ u \notin lagging => users[u].handle[2] = orgs[users[u].org]

\* An invite lets one user in.
InviteAdmitsOne == \A c \in Codes : Cardinality(joined[c]) <= 1

\* An organization is found under its slug, and no slug leads anywhere else,
\* although a rename and the founding of an organization may want the same slug
\* at once, and two renames of one organization may both have read its old one.
SlugIndexAgrees == \A s \in Slugs, o \in OrgIds : slugRow[s] = o <=> orgs[o] = s

\* Every listing is the one its address leads to: of two drafts that both found
\* an address free only one is stored, and no commit of any listing operation,
\* whatever old row it writes back, gives a listing another address.
AddressHasOneListing ==
  \A l \in ListingIds : listings[l] # Absent => addressRow[listings[l].address] = l

\* One agent per slot: an agent is found under its own slug and transport.
OneAgentPerSlot ==
  \A a \in AgentIds :
    agents[a] # Absent /\ <<"agent", a>> \notin overwritten
    /\ <<"slot", agents[a].slug, agents[a].transport>> \notin overwritten
      => Lookup(agents[a].slug, agents[a].transport) = a

\* Only devices from before the index share a key.
NewKeyHasOneDevice ==
  \A d, e \in DeviceIds :
    d # e /\ devices[d] # Absent /\ devices[e] # Absent /\ devices[d].key = devices[e].key
      => {d, e} \subseteq OldIds

\* The token of a revoked key authenticates nobody, whatever a use of it that
\* was in flight writes back.
RevokedKeyIsDead == \A k \in revoked : ~Authenticates(k)

\* When a link is gone, so is every way to write in its threads, except in
\* those a request in flight wrote after they had been listed.
UnpairClosesMail == \A l \in LinkIds : links[l] # Absent /\ ~Live(l) => OpenOver(l) \subseteq late

\* Wrong PINs are limited, although attempts in flight overwrite the count: two
\* requests in flight cost the owner of the PIN no more than this.
GuessesBounded ==
  \A p \in Pairs : guesses[p] <= (PinLimit * (PinLimit + 3)) \div 2

\* Messages over a link are limited per day, although a message in flight sets
\* the count back to one more than it was when the message began.
MailBounded == \A l \in LinkIds : mailed[l] <= (MailCap * (MailCap + 3)) \div 2

\* The quota row is the size of the organization's blobs, and within the limit,
\* however many uploads ask at once.
QuotaIsSum == quota = Stored /\ Stored <= BlobQuota
=============================================================================
