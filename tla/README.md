# Verification of mutande

mutande carries mail between AI agents. Desktop agents ("sidecar") seal their mail
end to end; web agents ("mcp") read it from the hub. This directory holds TLA+ models of
the hub, of the hosted MCP server and of the web site, the TLC runs that check them and TLAPS
proofs of every safety property but one that a passing run checks. Paths are relative to the repository root.

* [Inventory](#inventory) - [Models](#models) - [Runs](#runs) - [Findings](#findings) -
  [Proofs](#proofs) - [Not modelled](#not-modelled) - [Plan](#plan)

## Inventory

| Component | State it keeps | Operations | What is hard | What makes it correct |
|---|---|---|---|---|
| **Mail threads** `hub/store/store.ts`, `app_envelope.ts` | KV rows `threads`, `inbox`, `messages`, `app_envelopes`, `idempotency` | createThread, postReply, closeThread, deleteThread, fetchAppMessages | handlers are chains of awaits; whole rows are written back unchecked; delete is two commits; retries | closed stays closed, no message uncounted, purges complete, retries not posted twice, the right people "need" a thread |
| **Downgrade consent** `hub/store/thread_downgrade.ts` | `downgrade_proposals`, the thread's `downgrade_point` | propose, approve, deny, finalize | proposals, approvals, denials and mail overlap | unanimous consent, one-way ratchet, sealed history stays sealed |
| **Enterprise billing** `hub/store/enterprise.ts` | `billing_ledgers`, `billing_ledger_entries`, `enterprise_loop_guard` | topUpCredits, planEnterpriseDebit in createThread and postReply, POST /billing/debit | optimistic concurrency with bounded retries | never overdrawn, no lost entry, loop limit, every request answered |
| **Enterprise registry** `hub/store/enterprise.ts` | `registry_listings`, addresses, reserved slugs, stub agents | createDraft, updateDraft, verifyAndReserveSlug, publish, suspend, unpublish | stale read-modify-write; slugs shared with organizations | an address leads to its one listing, a slug to its one organization; a suspension ought to hold (it may not, see [Findings](#findings)) |
| **Organizations, onboarding** `hub/store/store.ts` | users, `auth0_sub`, orgs, slugs, members, invites | createOrgWithAdmin, joinOrg, createInvite, updateOrgSlug, updateProfile, seedProfile, getMe | slug changes race joins and edits; multi-row commits | one account per subject, an invite admits one, handles lead to their user and end in the slug |
| **Agents, router** `hub/store/store.ts` | agents, slots, aliases, router, transport preferences | connectAgent, renameAgent, setRouter, setTransportDefault, handshakes | unchecked read-modify-write; old rows migrated by reads | one agent per slot |
| **Devices** `hub/store/store.ts` | devices, public key index | registerDevice, purgeDuplicateDevices | several commits | one device per key |
| **External contacts** `hub/store/external_contacts_api.ts`, `external_pairing.ts` | PINs, pair requests, links, failure and day counters | issue PIN, submit, approve, deny, unpair, velocity | counters read then set; approve races approve; unpair closes threads one by one | one link per pair, guesses bounded, no mail over a link that is gone |
| **Collab boards** `hub/store/collab.ts` | boards, lanes, roster, pending members, cards, learnings, artifacts | membership, consent, archive, downgrade, cards, list and page of boards | whole-row writes; reads that take many awaits | consent of the board, encrypted boards internal and unread, archive frozen |
| **MCP connector keys** `hub/store/mcp_connectors.ts` | keys and two indexes | mint, use, revoke | touch writes back a stale row | a revoked key is dead |
| **Drafts, blobs, votes, receipts** `hub/store/store.ts` | drafts, blob rows and quota, upvotes, receipts | createUploadUrl, draft and vote endpoints | read-then-set; toggles in flight | the quota is the sum of the blobs |
| **Hosted MCP server** `mcp/` | sessions in KV and per isolate, event streams | POST, GET, DELETE /mcp and the tools behind them | isolates recycle; a tool is several hub calls; hosts retry | a session belongs to one user and outlives isolates; one stream; what is told as done is done |
| **Authentication** `hub/auth`, `mcp/auth` | - | which credential counts, audience, issuer, slug | several headers and audiences | a request acts as the owner of its credential |
| **Web site** `web/src/` | session cookie, what each component on a page remembers | pages, forms, server actions | redirects decided by fresh calls; pages that are not rendered again; lost answers | redirects end; what a form told is so, and what failed without a word is bounded; pages show what was told |
| **Desktop daemon** `core/src/daemon/` | poll fingerprint, event revisions, list cache, turn fold | inbox watcher, event hub, RPC | missed events, stale cache | every change is announced eventually |
| **Desktop app** `app/lib/` | mailbox, sync status | SyncCoordinator, watch service | coalescing of events | the last event is followed by a sync |
| Cryptography, feedback, waitlist, census, assets | - | - | - | outside, see [Not modelled](#not-modelled) |

How they interact: the daemon (on behalf of desktop agents and the app), the hosted MCP server
(on behalf of web agents) and the server actions of the web site call the hub over HTTP. All hub
state lives in Deno KV. A handler awaits every read; its writes are one or more commits. Isolates
share nothing but the KV store, so two handlers meet only there: between any two awaits of one
handler any step of another may happen. KV offers `check` on versionstamps. Billing, sign-up,
invites, slugs and quotas use it; mail, consent, boards, agents, listings and contacts mostly do
not. That difference is the main theme of these models.

PROJECT.json lists the hazards of this code by line and the properties that cover them.

## Models

Three groups of models of the hub (threads, accounts, boards), each with its own rows; billing
as a refinement; the MCP server and the web site with the hub as their environment.

| Module | Models | State | Actions |
|---|---|---|---|
| `ThreadStore` | KV rows and in-flight requests shared by mail and consent, small helpers (`Visible`, `CanView`, `PeerCandidates`) | one variable per key prefix, `req` with what each handler has read | `Crash` |
| `ThreadMail` | createThread, postReply, closeThread, deleteThread | | one action per await or commit: `ReplyStart` (idempotency row), `ReplyInbox`, `ReplyThread` (guards), `ReplyPeers`, `ReplyCommit`, ...; `IdemExpires` ends the day of an idempotency row |
| `ThreadDowngrade` | propose, approve, deny, finalize, and what fetchAppMessages shows | | `ProposeCheck`, `ProposePersist`, `ApproveProposal`, `ApproveSave`, `DenySave`, `FinalizeInbox`, `FinalizeCommit`, ... |
| `ThreadHub` | composes both over the same rows | | `Next`, and all properties of threads |
| `MCThreadHub`, `MCThreadMixes` | directories of two and three colleagues; the state constraint `OneMix` | | |
| `ThreadConsentProofs`, `ThreadHistoryProofs` | theorems about `ThreadHub` | | |
| `CreditAccount` | abstract: prepaid credits, billed messages per thread and day | `balance`, `sent` | `TopUp`, `SendBilled` |
| `EnterpriseLedger` | debit on store and top-up with versionstamps and retries | `ledger`, `loop`, `thread`, `listing`, `today`, `req` | `ReadListing`, `ReadLedger`, `ReadLoop`, `SendCommit`, `SendConflict`, `TopUp...`, `RegistryCommit`, `Midnight` |
| `MCEnterpriseLedger`, `EnterpriseLedgerProofs` | a customer, a vendor, one listing; theorems | | |
| `HubRequests` | requests in flight for the modules below | `req`, `scope`, `overwritten` | `Crash`, and the parts actions are made of: `Reads`, `Writes`, `Leaves`, `Clobbers` |
| `OrgDirectory` | accounts, organizations, invites | users, organizations and their index rows | `Create...`, `Join...`, `Slug...`, `Profile...`, `Seed...`, `MeStart` and so on, one per await or commit |
| `EnterpriseRegistry` | life cycle of a listing, slugs shared with organizations (EXTENDS `OrgDirectory`) | `listings`, `addressRow`, `stubPublic` | draft, edit, verify, publish, suspend, unpublish |
| `AgentRegistry` | agents, slots, router, preferences of one user, migration of old rows | `agents`, `slot`, `legacy`, `router`, `defaultRow`, `prefs` | connect, rename, prefer, router, handshake, look |
| `DeviceKeys` | devices of one user and the index of public keys | `devices`, `pubkeyRow` | `RegisterStart`, `PurgeOne`, `Reindex`, ... |
| `ConnectorKeys` | keys of hosted agents | `keyRow`, `hashRow`, `userKeys` | mint, use with its touch, revoke |
| `ExternalPairing` | PINs, submissions, approval, links, mail over a link | a variable per key prefix | pin, submit, approve, deny, unpair, mail, reply; a lock or a day ends (`PairingTime`) |
| `WorkShelf` | quota, drafts, votes, receipts | `blobs`, `quota`, `papers`, `votes`, `receipts` | upload, paper, vote, receipt |
| `HubAccounts` | composes the seven above | | `Next`, and their properties |
| `MCHubAccounts` | twenty-one mixes of operations that meet in some row | | |
| `HubAccountsProofs`, `HubDirectoryProofs` | theorems about `HubAccounts` | | |
| `CollabBoard` | one board: membership, consent, mode, archive, instructions, artifacts, learnings, cards, lanes | board, index, card, inbox and memory rows | one action per await or commit of each endpoint, and of the four that write a card without a look at its board: postReply (`ReplyStart`, `ReplyInbox`), finalizeApprovedDowngrade (`UnsealStart`, `UnsealInbox`), closeThread (and unpairExternalContact) and deleteThread; `CardSave` is the write of all but the last |
| `CollabViews` | listCollabs and getCollab, card by card, while the board changes | what a view has seen, in its request | `ViewStart`, `ViewCard`, `ViewNotes`, ... |
| `MCCollabBoard` | two members, one outsider, twenty-one mixes | | |
| `CollabProofs` | theorems about `CollabBoard` and `CollabViews` | | |
| `HostedDoor` | credentials, audiences, issuers, slugs of a request | `void` | a key is revoked, a token runs out |
| `HostedSessions` | transport sessions in KV and on isolates, event streams | `rows`, `local`, `streams`, `req` | POST, GET, DELETE up to the tools, `Recycle`, age, a client that leaves, `RuntimeCancels` |
| `HostedTools` | every tool as a list of hub calls, batches, the hub's commits | `Plan` (what a tool calls), `post`, `stored`, `done`, `fine` | one action per hub call and answer |
| `HostedMcp`, `MCHostedMcp` | clients that retry, isolates that die; two isolates, twelve mixes | `scope` | `Next`, fairness, properties |
| `HostedMcpProofs` | theorems about `HostedMcp` | | |
| `WebPages` | proxy, session, redirects and lists of each page, per tab | `account`, `hub`, `cookie`, `tab` | one action per await of a page, roles and requests that change at the hub |
| `WebForms` | forms, their server actions, what components remember of the answers | `tab[t].parts`, `tab[t].call`, `told` | submit; an action's session, its call at the hub, the answer of it or its loss, the mail after an invite; dismiss |
| `WebSite`, `MCWebSite` | the composition; two tabs, eight groups of pages | | `Next`, fairness, properties |
| `WebSiteProofs` | theorems about `WebSite` | | |

Conventions:

* **A request is a record.** In the thread models `req[r]` has the operation, a program counter
  `pc` named for the next step, and what the handler holds in local variables (`snap` is the
  thread row it read, `own` its inbox role, `peers` the rows read for turns, `prop` the
  proposal). A handler that answers or throws becomes `Idle`: nothing survives in memory.
* **`HubRequests`** does the same for accounts and boards, with `mem` for the local variables,
  `held` for the rows a handler will check or write back, and `stale` for those of them that
  someone wrote since. A check of a versionstamp is `stale = {}`; a row read as absent is
  compared with its present state.
* **Ids** stand for `crypto.randomUUID()`: they are handed out in order. No handler compares ids
  other than for equality; some properties use their order as time. A name, PIN or slug of the
  web model counts up as well, so that a value never comes back.
* **Names** (addresses, handles, slugs) are resolved in the thread models: a request names agents
  directly. Which agent a bare slug means is in `AgentRegistry`.
* **History variables** are read by no action: `overwritten`, `answered`, `consented`, `denied`;
  `credits`, `debits`, `billed`, `missed`; `revoked`, `guesses`, `mailed`, `late`, `joined`,
  `lagging`; `proposed`, `assents`; `crossed`, `lost`, `ended`; `told`, `scope.missed`, and in a tab `did`, `again`.
* **`overwritten`** holds the rows that some commit replaced although they had changed since it
  read them. That the promises of mail and boards then fail is shown by the violation runs. The
  passing properties say that nothing else breaks them: with a `check` on these rows, the hub
  would keep every promise listed below. `ConsentBehindDowngrade`, `RetryAddsNothing`,
  `InviteAdmitsOne`, `SlugIndexAgrees`, `AddressHasOneListing`, `NewKeyHasOneDevice`, `RevokedKeyIsDead`,
  `UnpairClosesMail`, `GuessesBounded`, `MailBounded`, `QuotaIsSum`, `ConsentBehindFlip` and the whole of
  billing hold without that exception.
* **Scopes.** The larger instances do not run all operations at once. Their first state picks a
  scope: the operations of this behaviour, how many requests it may have, and what else varies.
  Every scope is a set of operations that write or read common rows.
  `threads_downgrade` starts from the one initial state of `ThreadDowngrade` and bounds the mixes
  with the state constraint `OneMix`; it checks no liveness, which a constraint could falsify.

Steps merged for size, none of which hides a write: the reads of all peer inbox rows of a
reply; the guards and message lists of a proposal (`ProposeCheck`); the idempotency and
thread rows of createThread; the second inbox read of a deny; in the account and board
models, reads that follow one another with nothing decided in between when no operation of the
model changes both; the board row and the card index of a view. The first read of a request
and its arrival are one step: a request has no effect before its first read.

Constants of threads: `Users`, `Agents`, `AgentInfo`, `DefaultAgent`, `OrgOf`, `Linked` (the
directory), `Sends`, `Handoffs`, `TurnChoices`, the keys (what clients send), `Ops` (the
endpoints used). Bounds: `MaxId` (ids ever handed out), `MaxThread` (the ids threads may
take), the number of `Reqs` (requests in flight at once, any number over time). Constants of
billing: `Limit` and `Tries` (50 and 8 in the code's terms, smaller in runs and free in the
proofs), bound `MaxCredit` (cents ever credited to one organization). In the other modules
every bound is marked `BOUND` where it is declared, and limits of the code (`PinLimit`,
`MaxKeys`, `LaneGap`, ...) carry the name they have there.

### Correspondence

`map` in PROJECT.json gives the source lines of every definition. Worth knowing:

* `ThreadMail!StatusAfterReply` folds the two loops of postReply (declared turns; original
  sender to all peers or reply to the original sender) into one rule per user.
* `ThreadMail!InboxAfterReply` keeps a subtlety of the code: the role of the replier's own
  row comes from its first read, or from the peer read when turns are declared.
* `ThreadDowngrade!Approvers` is computed when a proposal is made and never again.
* `EnterpriseLedger!RegistryCommit` lets any registry operation write any listing row at any
  time. It allows more than the registry (`EnterpriseRegistry`) does, which is sound for safety
  of billing.
* `EnterpriseLedger!DebitStart` is POST /billing/debit, which takes any listing and thread id;
  the model uses ids of existing threads.
* `CollabBoard` keeps lane positions as numbers with the code's midpoint rule and renumbering
  (`LaneGap`, `LaneMinGap` scaled to whole numbers). Two cards that are placed at the same time may
  get the same position; nothing in the code says they may not.
* `ThreadMail!IdemExpires`: both writers of an idempotency row give it a day (`IDEMPOTENCY_TTL_MS`,
  `store.ts:492`). The model has no clock: the row may go at any moment, which is more than the day allows.
* `CollabBoard!CardSave`: setLane and setChecklistItem looked at the board when they began, replies,
  downgrades and closings of a card never do; all of them write the whole row of the card back, with
  its lane, position and checklist as they read it.
* `HostedTools` has the hub as an external party that commits once per accepted call, with an
  idempotency row when the call carries a key; `ThreadMail` has what the hub really does, and that the row
  is gone after a day: `RetriesAreSafe` speaks of retries within it.
* `WebForms`: a server action does not render its page again. A component asks for that in an
  effect that runs when the text of success changes, and so not when the same text comes twice.
  Actions of one page run one after the other;
  following a link or closing the page while an action is under way is left out. What the hub does with a call
  is `NewHub`, translated from `hub/store`: it decides and writes in one step and answers in another. It
  answers ok where it finds nothing to do: a second request to who has one pending
  (`external_contacts_api.ts:311`), a rename to the name that is there (`store.ts:3370`), the revocation of
  a revoked key (`mcp_connectors.ts:172`), the publication of a published listing (`enterprise.ts:460`). That Next renders a page again when an action sets
  a cookie (an access token renewed inside the action) is left out.

## Runs

All passing runs exhaust their state space. Two requests in flight are enough for every race
of a read with a write listed above, as each involves one stale reader and one writer; more
requests happen one after another. `CHECK_DEADLOCK FALSE` stands where ids, requests or visits run
out; `enterprise_ledger.cfg` checks for deadlock.

| Run | Instance | Shows |
|---|---|---|
| `mail` (`threads_mail.cfg`) | alice (desktop) and bob (web), one thread, up to 3 messages, one idempotency key, every message declares who is awaited, crashes; create, reply, close, delete; idempotency rows run out | `ClosedIsFinal`, `CountsEveryMessage`, `PurgeIsComplete` (at whichever step a process dies), `RetryAddsNothing` (a retry of the reply last answered, within the day of its row), `AwaitingIsMirrored` |
| `downgrade` (`threads_downgrade.cfg`) | two desktop agents and bob's web agent, 4 ids, `OneMix`: two proposals in competition with approvals and denials; up to three with replies, also to mail for the web agent, that meet a downgrade; the same with a close. States in which replies, closes and denials have come together are not expanded | `ConsentBehindDowngrade`, `DeniedStaysE2E`, `RatchetIsOneWay`, `DividerSplitsHistory` (sealed before the divider, readable after it, and fetched by the web agent from it on), `PayloadBehindMessage` |
| `ledger` (`enterprise_ledger.cfg`) | customer and vendor, one listing, price 2, top-ups of 1 up to 3, limit 1 per day, 2 days, 2 tries | `NeverOverdrawn`, `BalanceIsTrail`, `LoopGuardHolds`, `GivesUpOnlyWhenBusy`, `AlwaysAnswered`, `ImplementsAccount` |
| `hub` (`hub_accounts.cfg`) | three subjects, two organizations, two slugs, two addresses for listings, an old and a new set of agents, devices that share a key, two askers and one who is asked | `HandlesResolve`, `InviteAdmitsOne`, `SlugIndexAgrees` (an organization is found under its slug, no slug leads elsewhere), `AddressHasOneListing`, `OneAgentPerSlot`, `NewKeyHasOneDevice`, `RevokedKeyIsDead`, `GuessesBounded`, `MailBounded` (the daily limit of a link, at most so much exceeded by mail in flight), `UnpairClosesMail`, `QuotaIsSum`; 337,411 states |
| `collab` (`collab_board.cfg`) | a board of two members and an outsider, three lists, 3 cards, 2 proposals, 2 learnings; cards are moved, ticked, answered, downgraded, closed and deleted | `SealedIsInternal`, `ConsentBehindFlip`, `FrozenWhenArchived`, `EncryptedStaysUnread`, `ListAddsUp`; 478,452 states |
| `mcp` (`hosted_mcp.cfg`) | two isolates, one session id, two streams, four tokens, fifteen tasks of twelve tools alone and in batches | `OneStreamPerSession`, `SessionsHold`, `RetriesAreSafe`, `OkMeansDone`, `StreamReopens` |
| `web` (`web_site.cfg`) | one person in two tabs, up to 5 visits and submissions, up to 2 calls that miss or whose answer is lost | `PageSettles`, `ToldWhatHappened` (what a form told is so at the hub for good; rows made without a word are no more than the calls that failed), `ShowsWhatItDid`; 652,028 states |
| `promise_*` | as above | each finds the counterexample of one [finding](#findings) |

`TypeOK` of threads, billing and `HostedMcp` is proved, and that of `HubAccounts` but for the agents
in a rule of the router. That one, and those of `CollabBoard` and `WebSite`, hold on the instances of
these runs; add `INVARIANT TypeOK` to their cfg to see it.

Why the bounds are enough:

* Threads: three messages are a first message, a reply and one more reply that can race it; four
  ids give a thread, a proposal (or two), a reply and a divider in any order. A single thread
  leaves out reuse of an idempotency key across threads, see [Plan](#plan).
* Ledger: price 2 and credits 3 let one debit succeed and a second one be planned against the same
  balance; limit 1 makes two sends compete for the last place of the day; two tries make one
  conflict retry and the second give up.
* Hub: two organizations and two slugs are the least for a slug to change hands, and five requests
  let one do so twice; two submissions with a limit of two wrong PINs reach the lock, its end and
  the overwritten count; three keys with a cap of one let a key be revoked, replaced and revoked.
  `GuessesBounded` is `PinLimit * (PinLimit + 3) \div 2`: with two attempts in flight, a late wrong one
  may set the counter back to its own count, each time by a smaller step. `MailBounded` is the same sum of
  `MailCap`: a message in flight sets the day's count back to one more than it read.
* Boards: two steerers are the least for an assent that is missing; two proposals for one that is
  taken for another; three cards for a position between two others and for renumbering; four requests
  for a card that is moved and closed, or answered, at once while its board is archived.
* Hosted MCP: two isolates for a session seen from elsewhere, two streams for one that is opened
  again, `PostLimit` 2 for a task that is done twice.
* Web site: two tabs for a page that shows what the other one changed; two troubles for one that
  starts a redirect and one that answers it.

`Workers` and `MCSym` permute the requests: no definition tells them apart and no liveness property is
checked with them. The runs of `mcp` and `web` check liveness and use no symmetry.

Fairness:

* `FairSpec` of `EnterpriseLedger`: weak fairness of the steps of a handler that has started. The
  runtime runs an async function on unless the process dies, and no step waits for another
  request. Nothing is assumed of clients, ops, the clock or of new requests. Dying (`Crash`) ends a
  request and is never required.
* `FairSpec` of `HostedMcp`: weak fairness of `RuntimeCancels` alone, the runtime that notices a gone
  connection and calls `cancel` of its stream (`mcp/transport/sse.ts`). Requests may hang for ever.
* `Spec` of `WebSite`: weak fairness of what the server does for a tab. Nothing makes the person,
  the other tab or the hub act. `hubFetch` has no timeout, so a call that never returns is not
  covered; calls that miss are bounded by `scope.trouble`, as a hub that fails and recovers in the
  rhythm of the redirects could make them go on for ever.

Each property of a passing run has a mutant: an operator marked `MUTANT`, defined right above
the operator it replaces, which changes one guard or assignment the way a plausible bug would.
TLC finds the property violated when the original's body is replaced by it.

## Findings

Disagreements between the code and what the repository says of it, each with a run that
TLC answers with a counterexample.

| Run | The repository says | The code does |
|---|---|---|
| `promise_purge` | `hub/README.md:111` "Thread delete purges app payloads for all participants." | `store.ts:2842` lists payloads, then deletes them in a later commit; a reply in flight stores one more, and its thread row, unchecked |
| `promise_retry` | `hub/store/types.ts:701` "retries return the original message_id instead of posting a duplicate" | `store.ts:2509` looks for the row first and sets it in the commit, unchecked: overlapping retries are both posted |
| `promise_ratchet` | `hub/README.md:109` "Ratchet is one-way - never re-upgrade." | `store.ts:2678` writes the row read before the downgrade: E2E again, no divider |
| `promise_unanimous` | `directory.prd:276` "requires unanimous approval from all sidecar participants" | `thread_downgrade.ts:121` asks the two ends and those who wrote; silent recipients of a broadcast are not asked |
| `promise_point` | `collab.ts:8` and `docs/COLLAB-PRD.md:80` "downgrade_point nullable and immutable once set" | a membership proposal pending at a downgrade (`applyCollabDowngrade`, 1471) is approved after it and sets a new point (`applyDowngradeToCollab`, 1518), with one request at a time |

The first three have one cure: `tx.check` on the thread row (and on the idempotency row) with
the retry loops that are there already. The passing runs show that it is enough.

The properties of the other runs name what they except; each exception is a behaviour the model
has and the code shares, met while the properties were stated:

* `HandlesResolve` excepts users whose row was written back over a newer one, and `lagging` ones: who
  joins while `updateOrgSlug` is between its list of members and its commit keeps the old slug.
* `GuessesBounded`: wrong PINs that overlap are counted as one, so the lockout admits more than
  `PAIR_WRONG_PIN_LIMIT` guesses, but boundedly many.
* `FrozenWhenArchived` excepts requests that had read the board before it was archived; and a reply
  (`store.ts:2678`), a downgrade (`thread_downgrade.ts:543`) or a closing of a card (`store.ts:2783`) that
  had read the card before it was moved or ticked: it writes the old place back, on an archived board too.
* `RetryAddsNothing` speaks of the day of an idempotency row (`store.ts:2753`): a retry that comes later is
  stored as a new reply.
* `UnpairClosesMail` excepts mail that was checked before the link went and is stored after.
* `SessionsHold` and `OneStreamPerSession` speak of one isolate: another one may hold its own stream.
* `RetriesAreSafe`: `forward_draft` and `publish_handshake` carry no key; a host that repeats them does
  them twice.
* `ToldWhatHappened` bounds what happens without a word by the calls that failed: an answer that was lost,
  or the `getMe` after an invite, for which `createInviteAction` tells an error although the invite was made
  (`web/src/app/actions.ts:328-388`). Whoever tries again has two: a lost top-up is credited twice. An ok says
  that the thing is so, not that this call did it: a second request to who has one pending is answered as sent.
* `ShowsWhatItDid` excepts a component that gets the same text of success twice in a row and so does
  not ask for the page again: a second "Rotate" leaves the dead PIN on show
  (`pairing-pin-card.tsx:42`), a second pair request or rename does not show
  (`request-pair-form.tsx:18`, `org-slug-form.tsx:28`). It also excepts a page that says that its lists
  failed, and a key that the page minted and that no list had when it was revoked: the mint is told, the
  lists of the page asked for again fail, the key is revoked, and the list that comes then lacks the key, which
  `connectors-panel.tsx:278-297` takes for a key yet to load: it stays in the list, with its secret on show.
  Without these exceptions TLC finds each.

Three hazards of the registry and of pairing are behaviours of the code that no property is left to speak of,
once the row they overwrite is excepted. The models have them, and TLC finds each when it is stated:

* Two listings reserve one slug at once (`verifyAndReserveSlug`, `enterprise.ts:446`): the later commit has the
  row, both listings keep the slug, and the first may be published for it. The comment at `enterprise.ts:453`
  asks for verification only.
* `suspendListing` promises "Immediate suspend - new sends blocked" (`enterprise.ts:503`), but an edit,
  a publication or an unpublication that had read the listing before writes its old status back (`enterprise.ts:519`
  and the commits like it): the listing is published again, and nobody is told.
* Two approvals, of a request in each direction, both find no link (`external_contacts_api.ts:399`) and both
  commit, so that the pair has two links and finds one; unpairing the older one deletes the pair row that leads
  to the newer.

## Proofs

### Mail and consent

Two modules prove, for any directory, clients, keys, number of ids and of requests in flight,
from `DirectoryAssumption` (who owns which agent; `@all` is no agent) and `AbsentAssumption` (the mark
of a missing row is neither a row nor a value in one):

| Module | Theorem | States |
|---|---|---|
| `ThreadConsentProofs` | `TypeCorrect` | `TypeOK` |
| | `ProposalInvariant` | a proposal, stored or held by a request, stays with its thread |
| | `ConsentInvariant` | `ConsentInv`, from which the next follows |
| | `NoDowngradeWithoutConsent` | `ConsentBehindDowngrade` |
| | `DenyIsFinal` | `DeniedStaysE2E` |
| `ThreadHistoryProofs` | `RatchetInvariant` | `RatchetInv`, from which the next two follow |
| | `OneWayRatchet` | `RatchetIsOneWay` |
| | `FinalClose` | `ClosedIsFinal` |
| | `BookInvariant` | `BookInv`, from which the next three follow |
| | `MessagesAreCounted` | `CountsEveryMessage` |
| | `PayloadsAreThere` | `PayloadBehindMessage` |
| | `DividerIsWhereE2EEnds` | `DividerSplitsHistory` |
| | `RetriesAddNothing` | `RetryAddsNothing` |
| | `ReachInvariant` | `ReachInv`: who can have an inbox row of a thread |
| | `PurgeLeavesNothing` | `PurgeIsComplete` |
| | `TurnsAreMirrored` | `AwaitingIsMirrored`, if clients declare turns with every message |

A handler commits what it read long before, so no property of rows is inductive by itself:
each invariant also speaks of the copies in requests in flight.

* `TypeInv` adds to `TypeOK` what a program counter tells about a request (`Placed`: a reply at
  its commit holds a thread row, a finalize holds a proposal) and that proposals are never
  deleted (`Known`), on which approve and deny rely.
* `TieInv`: ids not yet given have no proposal, and the proposal a request names or holds is for
  the thread of the request.
* `ConsentInv`: every thread row, stored or held, has a divider only if the owners of all its
  approvers agreed to one proposal for that thread; every proposal, stored or held, has only
  approvals whose owners agreed. Overwrites then do no harm: they replace agreed by agreed.
  `ConsentBehindDowngrade` thus holds without the exception for overwritten rows.
* `VoteInv`: a denied proposal has the status that keeps every handler from going on with it, a
  handler goes on with pending ones only, and the divider of a row is that of a proposal that won.
* `RatchetInv`: ids not yet given have neither thread nor inbox rows, so a create replaces
  nothing; a reply in flight holds a row that was open, a downgrade one that was E2E. A commit
  that changes a closed or downgraded thread has therefore not seen its last row, which is what
  `overwritten` records, or continues from it.
* `BookInv`: messages and payloads are finitely many and filed under ids that were given, so a new
  message makes its thread one longer and is later than all others; and the row and the messages of
  a thread agree (`Sound`: count, divider, payloads).
* `KeyInv`: the last answer to a reply of a user with a key, as long as its row lasts, is what the row
  names, unless some createThread took the key; and answers have ids of their own, so that there is one last
  answer. Where the row runs out, so does what is remembered of its answers. A retry of that reply is then
  answered from the row, which only `CreateKeys` excepts.
* `ReachInv` and `PurgeInv`: an inbox row belongs to the sender's organization or to an end of
  an external contact, so the purge's list of members misses nobody; a purge in flight holds a row
  with at most as many replies as the present one, and while they are equally many what it has listed is
  all there is. A thread only grows, so a purge that commits on a row with equal count is
  complete, and one with a smaller count is a blind commit.
* `MirrorInv`: whoever has an inbox row of a thread is one of its people, and a reply about to commit
  has found everybody who has one now (`Reaches`) unless the thread has grown since, as every commit
  that gives somebody a row makes it longer. A reply that is not blind therefore sets everybody's
  status as it declares. The theorem assumes `TurnsDeclared`, as the property is about such clients:
  without declared turns a reply keeps the awaited of the row and wakes others. A downgrade
  makes the web agent's owner pending whom nobody declared, so the property ends there.

The proofs have one lemma per handler step and invariant, grouped as the actions are. The lemmas
`StartMoves`, `MailMoves` and `ConsentMoves` say once what a step does to the record of its
request (it answers, arrives or goes on); the later invariants about what requests hold rest on them.

### Accounts

Two modules prove, for any users, organizations, slugs, addresses, limits and (but for one theorem)
number of requests in flight, while all seven components run at once over any of the scopes:

| Module | Theorem | States |
|---|---|---|
| `HubAccountsProofs` | `RevokedKeysStayDead` | `RevokedKeyIsDead` |
| | `NewKeysHaveOneDevice` | `NewKeyHasOneDevice` |
| | `UnpairingClosesMail` | `UnpairClosesMail` |
| | `AgentsKeepTheirSlots` | `OneAgentPerSlot` |
| | `QuotaIsKept` | `QuotaIsSum` |
| | `GuessesAreBounded` | `GuessesBounded`, for two requests in flight |
| `HubDirectoryProofs` | `HandlesLeadHome` | `HandlesResolve` |
| | `InvitesAdmitOne` | `InviteAdmitsOne` |
| | `SlugsLeadHome` | `SlugIndexAgrees` |
| | `AddressesLeadHome` | `AddressHasOneListing` |
| | `RowsKeepTheirTypes` | `TypeOK`, but for which agents a rule of the router lists (`RowTypes`) |

Assumed are `OrgAssumption`, `RegistryAssumption`, `AgentAssumption`, `KeyAssumption`,
`DeviceAssumption`, `PairingAssumption` and `ShelfAssumption`: the first user, organization and device exist, bounds are numbers, the mark of
a missing row is no row, and those who ask for a pairing are not those asked.

The components share `req`, so the frame comes first: a step of any component replaces one request
by one of its own operations or by an answer (`Becomes`), and all others stay as they are but for
`stale`, which grows (`Aside`). A component's rows and requests then need attention in its own
steps only. Each invariant says of the rows what the property says, and of every request in flight what
it remembers of them:

* `KeyInv`: a revoked key was minted, so that its id and its token are not minted again, and has lost
  its index row; a use that is in flight writes the key's row but not that one.
* `DeviceInv`: a registration about to add a device with a key that some device has finds the index row
  of the key changed, and so does not commit; one that purges takes the later of the two old devices only.
* `ContactInv`: a request handles a submission and a link that exist, and once an unpairing has listed
  the threads of its link, all that are open are on its list or in `late`.
* `AgentInv`: an agent has its slot row, or it is a desktop agent from before these rows, found by the
  old pointer only (`Alone`). The property alone is not inductive: a migrating read, a rename or a connect
  in flight could give the slot of such an agent to another one. They cannot, as nobody else has that
  slug and each request `Spares` the slot: what it found at its lookup, the pointer included, is what
  it writes, and a slot that changed since is one that `overwritten` records.
* `ShelfInv`: an upload whose copy of the quota is not stale holds the present value and has room for the
  blob, and its commit checks this. That the quota row then is the sum takes a sum over the blobs,
  a recursive function on ids; the lemmas about it take the least id at which a claim fails, since
  induction with a predicate is out of reach of the provers.
* `GuessInv`: a wrong PIN is counted by a row that two attempts overwrite for each other. The level of a
  request is how many wrong PINs it still has from the count it started from, and `Twice` is what two
  requests can try from their levels: the higher one waits while the other goes to the lock, then lifts
  the lock with its old count, and so on from one level less. Guesses made plus guesses left never
  exceed L(L + 3) / 2. The theorem assumes `TwoInFlight`, as many as one requester needs and as the run
  has; with more of them more wrong PINs go uncounted, and the bound is another.
* `OrgInv`: users, members and used invites agree whatever was lost (`Settled`); a request
  writes rows of the organization that its user is in (`HoldsPlace`); and what it read is so still, or
  it holds a stale row that its commit checks (`HoldsView`). A handle it is to give away was free and is
  compared at the commit, or is that of the same user (`MayTake`). `lagging` holds those who got a
  handle from a slug already replaced, on which the second half of `HandlesResolve` says nothing.
* `SlugInv`: a rename in flight holds the row of its organization, which has the slug it read unless the row is
  stale, and then its commit fails; the commit also compares the new slug's row (`SlugChecked`), as the founding of
  an organization does. So the old slug it deletes is its own, and the new one nobody's.
* `RegistryInv`: whatever happened to a listing since a request read it, it has the address of that copy
  (`HoldsListing`), so that a stale row written back moves no listing; a new listing takes an address that
  its commit found free. This holds without the exception for overwritten rows.
* `RowsInv` puts these together with what is left of the types (`CountInv`, `StubInv`, `PaperInv`,
  `RouterInv`): a counter that is written back was below its cap when it was read, although two requests
  may have read the same one; and a router has a rule for every slug whether it is the row, the older
  rows migrated, or what a client sent.

### Billing

`EnterpriseLedgerProofs` proves, for any organizations, listings, threads, prices, number of
requests, limit and number of tries (only `LedgerAssumption` is assumed):

| Theorem | States |
|---|---|
| `TypeCorrect` | `TypeOK` |
| `InductiveInvariant` | `IInv`, from which the next four follow |
| `NoOverdraft` | `NeverOverdrawn` |
| `NoEntryLost` | `BalanceIsTrail` |
| `LoopGuard` | `LoopGuardHolds` |
| `NoVainFailure` | `GivesUpOnlyWhenBusy` |
| `Implements` | the handlers implement `CreditAccount` |

The argument: none of these is inductive, because a request carries values it read some steps
ago. `Snapshot` says of every such request that its copy is not newer than the row, that an
equal version means an equal balance, and that the plan it made was right for the copy. A commit
that passes `DebitChecks` or the top-up's check thus computes from the present row, which gives
`NeverOverdrawn`, `BalanceIsTrail` and `LoopGuardHolds`, and makes each commit one step of
`CreditAccount`. `Patient` says that a request has missed at least as many commits as it failed
tries, and one more as soon as a row it holds is outdated; it gives `NoVainFailure`. `Placed`
adds to the types what a program counter tells about a request. The proof has one lemma per
group of actions, for types and again for the invariant.

### MCP server

`HostedMcpProofs` proves, for any isolates, sessions, streams, headers, tasks, batches and number of
requests in flight:

| Theorem | States |
|---|---|
| `TypeCorrect` | `TypeOK` |
| `StreamsAreSingle` | `OneStreamPerSession` |
| `SessionsOutliveIsolates` | `SessionsHold` |
| `AnswersAreTrue` | `OkMeansDone` |
| `SafeToRetry` | `RetriesAreSafe` |

Assumed are `TokenAssumption` (a token is one of a user), `SessionAssumption` (the mark of nothing is
no session, user or stream), `ToolAssumption` (tools are known, and only `reply_to_thread` and
`create_card` take a key, as their schemas in `mcp/protocol/tools.ts` have it) and `ScopeAssumption`
(clients send what there is).

* `TypeInv` adds to the types what the place of a request tells about it (`Placed`): it has an isolate,
  unless the hub works for one that is gone; a session after `read`; a call of its batch at the tools.
* `StreamInv`: an open stream and its isolate's memory of the session name each other. A GET looks for
  a stream before it waits for the hub and again when it attaches; the second look and the entry in
  the memory are one step, and this is what keeps streams single.
* `SessionInv`: a session that somebody knows, and that is neither old nor being deleted, has its row
  (`Alive`); a request holds the id of such a session, or is the one that stores its row; what it read of
  the row is the owner or came before a deletion; and who came after the answer to DELETE finds nothing.
* `ToolInv`: what a request has behind it of its tool's plan is done at the hub (`Did`), also for
  those a recycled isolate left there; every task in `ok` or `fine` is `Finished`; an idempotency row
  means that its task was done. Tools with `ReadOnlyHint` have no plan that writes.
* `OnceInv`: a task with a key that never was at the hub twice at the same time is done at most
  once, has its row as soon as it is, and is not done yet while a request for it is there.

### Boards

`CollabProofs` proves, for any users, lists, positions, limits, starts and number of requests in flight,
while boards are listed and read:

| Theorem | States |
|---|---|
| `BoardInvariant` | `BoardInv`, from which the next two follow |
| `BoardsStaySealed` | `SealedIsInternal` |
| `FlipsHaveConsent` | `ConsentBehindFlip` |
| `NothingSealedIsShown` | `EncryptedStaysUnread` |
| `ListsAddUp` | `ListAddsUp` |
| `ArchivedStaysFrozen` | `FrozenWhenArchived` |

Assumed are `CollabAssumption` (the creator is of the organization, bounds are numbers, lists have ids
and names of their own), `ScopeAssumption` (a board starts with a set of users), `AbsentAssumption` (the
mark of a missing row is no row) and `ViewAssumption` (a view is a list or a page).

Handlers write whole rows back, so the argument is about the rows in flight:

* `BoardInv`: whatever a request is about to write is sound by itself, however old it is (`RowIsSound`):
  who works on it fits its mode, and its proposal carries only assents that were given. One lemma per
  operation shows that it makes a sound row of a sound row (`AfterIsInternal`, `AfterIsBacked`). A flip
  has the assent of all who stay (`FlipIsSound`). While what it read is not stale, a row succeeds the
  present one (`IsCurrent`); this is what keeps the list of boards true, and archived boards frozen.
* `ViewInv`: a view shows in the clear only what its own row says is so, and that row is not ahead of
  the board, as encryption that has ended does not come back unless an update is lost (`ModeStays`).
* `CardInv`: the cards that a request is about to write are there, unless it holds them stale; and
  a close, a reply or a downgrade whose card is not stale leaves it in its place.
* `CountInv`: a view has seen each card once and none that it has yet to look at, and a card that was
  gone when it began is still gone or in `overwritten`. That the numbers then add up is a matter of finite
  sets (`Parts`, `AsManyIds`).

`FrozenWhenArchived` was first stated without the writers that never look at the board: a close, a reply or a
downgrade that had read its card before a move takes the move back, on an archived board too. The proof does not
go through without them, TLC finds each, and the run has a mix of moves or ticks and archiving with each.

### Web site

`WebSiteProofs` proves, for any number of tabs and any rows that the hub may start with:

| Theorem | States |
|---|---|
| `SiteInvariant` | `SiteInv`, from which the next two follow |
| `NothingIsToldFalsely` | `ToldWhatHappened` |
| `WhatIsToldShows` | `ShowsWhatItDid` |

Assumed are `WebAssumption` (the mark of nothing is no number; what a scope has: two numbers, no call failed at
the start, and who asks for a pairing at the start is one of two) and `FormAssumption` (the mark of nothing is no
form).

Both properties come about in several steps, during which other tabs change the same rows. `SiteInv` follows
`ShowsWhatItDid`, which speaks of a page at rest:

* `HubInv`: ids are given out once, so what was made stays the newest and what is gone does not return
  (`Onward`); a contact is asked for, asking or linked, one at a time. What a person was told
  is thus still so at the hub, or the page says why not (`Known`).
* `TabInv`: a page that loads again to show what was done is still the same page, and has not read a name
  older than the one it told; a page that is up shows all that it remembers (`Visible`), but for the
  exceptions the property names; and the call of an action whose answer is under way is done.

`WordInv` rests on it and follows `ToldWhatHappened`: what was told is done, a call under way has made the one row
it is about to tell, and each call that failed leaves at most one more row without a word. That the count holds is
a matter of finite sets (`FewerUnheard`, `OneMoreUnheard`).

### Only model-checked

`AlwaysAnswered`, `StreamReopens` and `PageSettles`: liveness under fairness is out of the prover's
reach. The five documented promises of [Findings](#findings) are refuted by TLC, which no proof can add to.
`MailBounded` is a safety property without a proof: the argument is that of `GuessesBounded`. All other properties
of the runs are theorems as well, `AwaitingIsMirrored` and `GuessesBounded` under the hypotheses named above. What the lists of agents in router rules are stays with TLC too: the code filters
them, `SelectSeq` is recursive, and a claim about it for every list is an induction over data.

## Not modelled

* Mail: collab fields of a thread (the cards of `CollabBoard` are threads of their own there),
  external contact threads beyond `external` and `participants` (the branches exist in `Visible`,
  `Recipients` and `PeerCandidates`, no run of threads uses them, nor own-agent mail, `@all`, handoffs
  and keys of createThread; mail over a link, its limit and its end are in `ExternalPairing`),
  parent messages of replies, the 30 day expiry of payloads, the free replies of an
  enterprise's own agent (no debit, no ledger step), envelope sizes and encodings.
* `deleteThread` deletes more than 500 keys in several commits; the model has one.
* Boards: what is done to the memory thread as a thread (replies to it, closing, deletion, a downgrade of its
  own, a steerer who deletes it from his inbox): such a reply adds no learning; tags, due dates, watchers, audiences of cards, days of activity and the feed of recent
  cards: they decide nothing else. A removed steerer keeps the inbox rows of existing cards, as
  `docs/COLLAB-PRD.md:34` has it.
* Devices: the agent slot a registration may ask for; that is connectAgent of `AgentRegistry`.
* Registry: the rate card (in billing only), loadable capabilities, search.
* MCP server: layout of answers, OAuth metadata, rate limiting. Signatures are JOSE's.
* Web site: the cached menu of the site header, analytics, charts, the ops charts, marketing,
  documentation and prototype pages. What the person does while an action is
  under way in the same tab (following a link, closing it). `/login` goes on to the dashboard (`PageSession`): it takes a
  `returnTo`, but no page links to it with one (`site-header.tsx:208`). That a failed load of contacts shows the same "Create pairing
  PIN" as an account without one is a matter of layout, and so not in `ShowsWhatItDid`. Next and
  Auth0 are external: who signs in comes back to the place that was asked for.
* Cryptography: no protocol state of its own; the models treat envelopes as opaque.
* Feedback, waitlist, census, handshakes of the hub: single rows or read-only reports.
* The desktop daemon and the app: planned, see below. Screens, widgets, scripts, brand, design,
  video and pitch material are not state that a model could say something about.

## Plan

Done, with their proofs: mail, consent, billing; accounts, registry, agents, devices, keys, contacts
and shelf; boards; the hosted MCP server; the web site. What is left, in this order; each with
runs and mutants and, where it says so, proofs.

1. `InboxEvents` (watcher, event hub, list cache), `TurnFold`, `SyncCoordinator`: the daemon and the
   app, with liveness of notification. The one hazard without a property is of this part. Questions for
   it: does the app refetch after a daemon restart whose first tick only records a fingerprint, and
   can an older answer of `_reload` be saved over a newer list.
2. `Addressing`: which agents an address means (`agents.ts`, `@all`, contacts, listings), composed with
   `ThreadHub` in place of resolved names, and a run with two threads and keys reused.
3. `Turns`: how the MCP server tells an agent whose turn it is (`mcp/hub/turns.ts`), against
   `AwaitingIsMirrored`.
4. Refinement of consent to an abstract ballot, with its proof.
5. `GuessesBounded` for more attempts in flight: a bound in their number, and its proof; that of `MailBounded`;
   bounds for the daily caps of pair requests.

How to run, with the configuration and the module of a run:

    tlc -workers 2 -config threads_mail.cfg MCThreadHub
    tlc -workers 2 -config threads_downgrade.cfg MCThreadMixes
    tlc -workers 2 -config enterprise_ledger.cfg MCEnterpriseLedger
    tlc -workers 2 -config hub_accounts.cfg MCHubAccounts
    tlc -workers 2 -config collab_board.cfg MCCollabBoard
    tlc -workers 2 -config hosted_mcp.cfg MCHostedMcp
    tlc -workers 2 -config web_site.cfg MCWebSite
    tlc -config promise_purge.cfg MCThreadHub       (ratchet, retry, unanimous likewise)
    tlc -config promise_point.cfg MCCollabBoard
    tlapm EnterpriseLedgerProofs.tla
    tlapm ThreadConsentProofs.tla                    (the other modules ...Proofs likewise)

Each run and each proof module takes a few minutes on two cores.
