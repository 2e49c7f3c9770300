------------------------------ MODULE WorkShelf ------------------------------
(***************************************************************************)
(* What members leave at the hub besides messages (hub/store/store.ts):    *)
(* blobs under their organization's quota (createUploadUrl), a user's      *)
(* drafts (createDraft, updateDraft, deleteDraft), and the votes and       *)
(* receipts of his agents on one message (toggleMessageUpvote,             *)
(* postMessageReceipt).                                                    *)
(***************************************************************************)
EXTENDS HubRequests

CONSTANTS
  BlobQuota,         \* ORG_BLOB_QUOTA_BYTES
  BlobSizes,         \* sizes that clients ask for
  Voters,            \* the user's agents
  MaxBlob, MaxPaper  \* BOUNDS: blobs and drafts ever made

BlobIds  == 1..MaxBlob
PaperIds == 1..MaxPaper

VARIABLES
  blobs,      \* ["blobs", id]: the size
  quota,      \* ["org_quota", org]
  papers,     \* ["drafts", user, id]
  discarded,  \* history: drafts that were deleted
  votes,      \* ["message_upvotes", thread, message, agent]
  receipts    \* ["message_receipts", thread, message, agent]

shelfRows == <<blobs, quota, papers, discarded, votes, receipts>>

ASSUME ShelfAssumption ==
  /\ BlobQuota \in Nat /\ BlobSizes \subseteq Nat \ {0}
  /\ MaxBlob \in Nat /\ MaxPaper \in Nat /\ Absent \notin BlobSizes

InitShelf ==
  /\ blobs = [b \in BlobIds |-> Absent] /\ quota = 0
  /\ papers = {} /\ discarded = {}
  /\ votes = {} /\ receipts = {}

-----------------------------------------------------------------------------
\* createUploadUrl: the quota row is compared; the upload itself is elsewhere

Sizes == [b \in BlobIds |-> IF blobs[b] = Absent THEN 0 ELSE blobs[b]]
StoredUpTo[n \in 0..MaxBlob] == IF n = 0 THEN 0 ELSE StoredUpTo[n - 1] + Sizes[n]
Stored == StoredUpTo[MaxBlob]

UploadStart(r, size) ==
  /\ Free(r, "upload") /\ quota + size <= BlobQuota
  /\ Reads(r, Begin("upload", "commit", {<<"quota">>}, [size |-> size, quota |-> quota]))
  /\ UNCHANGED <<shelfRows, overwritten>>

\* MUTANT: the quota is written back unchecked
QuotaIgnored(q) == q.op = "upload"

QuotaUnchanged(q) == q.stale = {}

UploadCommit(r) ==
  /\ At(r, "upload", "commit") /\ QuotaUnchanged(req[r])
  /\ \E b \in BlobIds :
       /\ blobs[b] = Absent /\ \A c \in 1..(b - 1) : blobs[c] # Absent
       /\ blobs' = [blobs EXCEPT ![b] = req[r].mem.size]
  /\ quota' = req[r].mem.quota + req[r].mem.size
  /\ Leaves(r, {<<"quota">>})
  /\ UNCHANGED <<papers, discarded, votes, receipts, overwritten>>

UploadConflict(r) ==
  /\ At(r, "upload", "commit") /\ ~QuotaUnchanged(req[r])
  /\ Answer(r)
  /\ UNCHANGED <<shelfRows, overwritten>>

-----------------------------------------------------------------------------
\* Drafts: an update and a deletion read the draft first

PaperNew(r) ==
  /\ Free(r, "paper")
  /\ \E p \in PaperIds :
       /\ p \notin papers \cup discarded /\ 1..(p - 1) \subseteq papers \cup discarded
       /\ papers' = papers \cup {p}
  /\ Reads(r, Idle)
  /\ UNCHANGED <<blobs, quota, discarded, votes, receipts, overwritten>>

PaperStart(r, p, what) ==
  /\ Free(r, "paper") /\ p \in papers
  /\ Reads(r, Begin("paper", what, {<<"paper", p>>}, [paper |-> p]))
  /\ UNCHANGED <<shelfRows, overwritten>>

PaperUpdate(r) ==
  /\ At(r, "paper", "update")
  /\ LET p == req[r].mem.paper IN
       /\ papers' = papers \cup {p}
       /\ Clobbers(r, {<<"paper", p>>}) /\ Leaves(r, {<<"paper", p>>})
  /\ UNCHANGED <<blobs, quota, discarded, votes, receipts>>

PaperDelete(r) ==
  /\ At(r, "paper", "delete")
  /\ LET p == req[r].mem.paper IN
       /\ papers' = papers \ {p} /\ discarded' = discarded \cup {p}
       /\ Leaves(r, {<<"paper", p>>})
  /\ UNCHANGED <<blobs, quota, votes, receipts, overwritten>>

-----------------------------------------------------------------------------
\* A vote is turned over, a receipt is only ever set; each after a look.

VoteStart(r, a) ==
  /\ Free(r, "vote")
  /\ Reads(r, Begin("vote", IF a \in votes THEN "off" ELSE "on", {}, [agent |-> a]))
  /\ UNCHANGED <<shelfRows, overwritten>>

VoteSave(r) ==
  /\ req[r].op = "vote"
  /\ votes' = IF req[r].pc = "off" THEN votes \ {req[r].mem.agent} ELSE votes \cup {req[r].mem.agent}
  /\ Leaves(r, {})
  /\ UNCHANGED <<blobs, quota, papers, discarded, receipts, overwritten>>

ReceiptStart(r, a) ==
  /\ Free(r, "receipt") /\ a \notin receipts
  /\ Reads(r, Begin("receipt", "set", {}, [agent |-> a]))
  /\ UNCHANGED <<shelfRows, overwritten>>

ReceiptSave(r) ==
  /\ req[r].op = "receipt"
  /\ receipts' = receipts \cup {req[r].mem.agent}
  /\ Leaves(r, {})
  /\ UNCHANGED <<blobs, quota, papers, discarded, votes, overwritten>>

-----------------------------------------------------------------------------
ShelfStep(r) ==
  \/ UploadCommit(r) \/ UploadConflict(r) \/ PaperUpdate(r) \/ PaperDelete(r)
  \/ VoteSave(r) \/ ReceiptSave(r)

ShelfStart(r) ==
  \/ \E size \in BlobSizes : UploadStart(r, size)
  \/ PaperNew(r) \/ \E p \in PaperIds, what \in {"update", "delete"} : PaperStart(r, p, what)
  \/ \E a \in Voters : VoteStart(r, a) \/ ReceiptStart(r, a)

TypeOKShelf ==
  /\ blobs \in [BlobIds -> BlobSizes \cup {Absent}] /\ quota \in Nat
  /\ papers \subseteq PaperIds /\ discarded \subseteq PaperIds
  /\ votes \subseteq Voters /\ receipts \subseteq Voters
=============================================================================
