----------------------------- MODULE CollabBoard -----------------------------
(***************************************************************************)
(* One collab board (hub/store/collab.ts): its members and mode, the       *)
(* consent to a downgrade, its archive, and what is filed on it.  The      *)
(* board is one row; every handler reads it, checks what it read, and      *)
(* writes a whole row back without a check.  Its cards are threads, and    *)
(* replies, downgrades, closing and deletion of a thread (store.ts,        *)
(* thread_downgrade.ts) do not look at the board at all.                   *)
(***************************************************************************)
EXTENDS HubRequests, Sequences

CONSTANTS
  Insiders, Outsiders,   \* users of the organization and of another one
  Creator,
  Linked,                \* insiders who are approved contacts of the outsiders
  Lists,                 \* the lists of a new board, in their order
  NameOf, Names,         \* how they are named, DEFAULT_LIST_NAMES, and other names
  LaneGap, LaneMinGap,   \* LANE_GAP and LANE_MIN_GAP, scaled to whole numbers
  MaxFiles,              \* MAX_COLLAB_ARTIFACTS: 32
  MaxProposal, MaxCard, MaxNote   \* BOUNDS: membership proposals, cards and learnings ever made

Users   == Insiders \cup Outsiders
Kinds   == {"human", "sidecar", "mcp"}
Members == Users \X Kinds                     \* a person, or his agent of that transport
Agents  == {x \in Members : x[2] # "human"}
Modes   == {"e2e", "app_envelope"}
Lanes   == {Lists[i] : i \in DOMAIN Lists}
CardIds == 1..MaxCard
NoteIds == 1..MaxNote

ASSUME CollabAssumption ==
  /\ IsFiniteSet(Users) /\ Creator \in Insiders /\ Linked \subseteq Insiders /\ Insiders \cap Outsiders = {}
  /\ Lists # <<>> /\ NameOf \in [Lanes -> Names] /\ Lanes \cap Names = {}
  /\ LaneGap \in Nat \ {0} /\ LaneMinGap \in 1..LaneGap
  /\ MaxFiles \in Nat /\ MaxProposal \in Nat /\ MaxCard \in Nat /\ MaxNote \in Nat

VARIABLES
  board,      \* ["collabs", id]
  userBoards, \* ["user_collabs", user, id]: who has this row
  memory,     \* ["threads", memory_thread_id]: its mode and reply_count
  memoryBox,  \* ["inbox", user, memory_thread_id]: who has this row
  notes,      \* ["messages", memory_thread_id, id]: how the learning is stored
  files,      \* ["collab_artifacts", id, artifact]: how many of each form
  cards,      \* ["threads", id] of the board's cards
  index,      \* ["collab_threads", board, id]: its cards, the deleted ones as well
  boxes,      \* ["inbox", user, id] of its cards: who has this row
  needs,      \* those of them with your_status "pending"
  proposed,   \* history: membership proposals that were made
  assents     \* history: who proposed or approved which of them

cardRows  == <<cards, index, boxes, needs>>
boardRows == <<board, userBoards, memory, memoryBox, notes, files, cardRows, proposed, assents>>

Forms    == {"sealed", "plain"}
Stored   == Forms \cup {"link"}
Proposal == [what: Members, approved: SUBSET Users, no: 1..MaxProposal]
Point    == [approvers: SUBSET Users, cause: Members \cup {Absent}, no: 0..MaxProposal]
BoardRow == [mode: Modes, steerers: SUBSET Users, roster: SUBSET Agents, archived: BOOLEAN,
             pending: Proposal \cup {Absent}, point: Point \cup {Absent},
             instructions: Forms \cup {"none"}, names: [Lanes -> Names]]
CardRow  == [mode: Modes, lane: Lanes, position: Nat, open: BOOLEAN, done: BOOLEAN, from: Users]

ASSUME ScopeAssumption == \A s \in Scopes : s.tries \subseteq (SUBSET Users) \cup {Absent}
ASSUME AbsentAssumption == Absent \notin BoardRow \cup CardRow \cup Proposal \cup Forms

-----------------------------------------------------------------------------
\* What a request makes of the board it read; Absent where nothing is written

Owners(R)      == {a[1] : a \in R}
SameSide(u, v) == (u \in Outsiders) = (v \in Outsiders)

\* assertOrgOrApprovedPair
MayInvite(u, v) == SameSide(u, v) \/ {u, v} \cap Linked # {}

\* resolveRosterEntry: an agent of his own, or of somebody he may invite
MayEnlist(u, x) == x[2] # "human" /\ MayInvite(u, x[1])

\* deriveEncryptionMode, assertInstructionsXor
Derived(steerers, roster) ==
  IF steerers \cap Outsiders # {} \/ \E a \in roster : a[2] = "mcp" THEN "app_envelope" ELSE "e2e"
Fits(form, mode) == form = IF mode = "e2e" THEN "sealed" ELSE "plain"

\* createCollab
Created(steerers, roster, instructions) ==
  LET all == {Creator} \cup steerers \cup Owners(roster) IN
  [mode |-> Derived(all, roster), steerers |-> all, roster |-> roster, archived |-> FALSE,
   pending |-> Absent, point |-> Absent, instructions |-> instructions,
   names |-> NameOf]

\* MUTANT: an agent without its human
AdmittedAlone(row, x) ==
  IF x[2] = "human" THEN [row EXCEPT !.steerers = @ \cup {x[1]}, !.pending = Absent]
  ELSE [row EXCEPT !.roster = @ \cup {x}, !.pending = Absent]

\* commitAddSteerer, commitAddRoster: an agent brings its human along
Admitted(row, x) ==
  IF x[1] \in row.steerers /\ (x[2] = "human" \/ x \in row.roster) THEN Absent
  ELSE [row EXCEPT !.steerers = @ \cup {x[1]}, !.pending = Absent,
                   !.roster = IF x[2] = "human" THEN @ ELSE @ \cup {x}]

\* applyDowngradeToCollab
Flipped(row, approvers, cause, no) ==
  [row EXCEPT !.mode = "app_envelope", !.pending = Absent,
              !.point = [approvers |-> approvers, cause |-> cause, no |-> no],
              !.instructions = IF @ = "sealed" THEN "none" ELSE @]

\* queueOrApplyMembership
Queued(row, u, x, no) ==
  IF row.pending # Absent THEN Absent
  ELSE IF Cardinality(row.steerers) = 1 THEN Admitted(Flipped(row, {u}, x, no), x)
  ELSE [row EXCEPT !.pending = [what |-> x, approved |-> {u}, no |-> no]]

\* addSteerer, addRoster: outsiders and hosted agents end encryption
Opens(row, u, x) == row.mode = "e2e" /\ (x[2] = "mcp" \/ ~SameSide(u, x[1]))
Asked(row, u, x, no) ==
  IF ~(IF x[2] = "human" THEN MayInvite(u, x[1]) ELSE MayEnlist(u, x)) THEN Absent
  ELSE IF Opens(row, u, x) THEN Queued(row, u, x, no) ELSE Admitted(row, x)

\* MUTANT: any approval is enough
AnyAgrees(row, approved) == approved # {} /\ row.mode = "e2e"

\* approvePendingMembership.  The address of an agent is looked up again, on
\* behalf of the one who approves last.
Unanimous(row, approved) == approved = row.steerers
Approved(row, u) ==
  LET p == row.pending
      approved == p.approved \cup {u}
  IN IF p = Absent THEN Absent
     ELSE IF ~Unanimous(row, approved) THEN [row EXCEPT !.pending.approved = approved]
     ELSE IF p.what[2] # "human" /\ ~MayEnlist(u, p.what) THEN Absent
     ELSE Admitted(Flipped(row, approved, p.what, p.no), p.what)

Denied(row) == IF row.pending = Absent THEN Absent ELSE [row EXCEPT !.pending = Absent]

\* applyCollabDowngrade; `approvers` is what the client sends
Downgraded(row, approvers) ==
  IF row.point # Absent \/ row.mode # "e2e" \/ approvers # row.steerers THEN Absent
  ELSE [row EXCEPT !.mode = "app_envelope",
                   !.point = [approvers |-> approvers, cause |-> Absent, no |-> 0],
                   !.instructions = IF @ = "sealed" THEN "none" ELSE @]

\* removeSteerer, removeRoster
Without(row, x) ==
  IF x[2] # "human" THEN (IF x \in row.roster THEN [row EXCEPT !.roster = @ \ {x}] ELSE Absent)
  ELSE IF x[1] = Creator \/ x[1] \notin row.steerers THEN Absent
  ELSE [row EXCEPT !.steerers = @ \ {x[1]}, !.roster = {a \in @ : a[1] # x[1]}]

\* updateInstructions; without a text it only drops the other form
Instructed(row, u, form) ==
  IF u # Creator \/ ~(form = "none" \/ Fits(form, row.mode)) THEN Absent
  ELSE [row EXCEPT !.instructions =
          IF form # "none" THEN form ELSE IF Fits(@, row.mode) THEN @ ELSE "none"]

\* archiveCollab, unarchiveCollab
Archived(row)   == IF row.archived THEN Absent ELSE [row EXCEPT !.archived = TRUE, !.pending = Absent]
Unarchived(row) == IF row.archived THEN [row EXCEPT !.archived = FALSE] ELSE Absent

\* MUTANT: membership may still change on an archived board
FrozenButMembers(row, op) == ~row.archived \/ op \in {"archive", "unarchive", "add", "remove"}

\* assertNotArchived
Accepts(row, op) == ~row.archived \/ op \in {"archive", "unarchive"}

\* renameList
Renamed(row, x) == [row EXCEPT !.names[x[1]] = x[2]]

After(row, op, u, x, no) ==
  CASE op = "add" -> Asked(row, u, x, no) [] op = "remove" -> Without(row, x)
    [] op = "approve" -> Approved(row, u) [] op = "deny" -> Denied(row)
    [] op = "downgrade" -> Downgraded(row, x) [] op = "instruct" -> Instructed(row, u, x)
    [] op = "archive" -> Archived(row) [] op = "unarchive" -> Unarchived(row)
    [] op = "rename" -> Renamed(row, x)

BoardOps == {"add", "remove", "approve", "deny", "downgrade", "instruct", "archive", "unarchive",
             "rename"}

-----------------------------------------------------------------------------
\* Artifacts: a link, or a file with its content in one of two forms

Inputs == [kind: {"file", "link"}, envelope: BOOLEAN, content: BOOLEAN]

\* normalizeCollabArtifactInput
Formed(a) ==
  IF a.kind = "link" THEN "link"
  ELSE IF a.envelope = a.content THEN Absent
  ELSE IF a.envelope THEN "sealed" ELSE "plain"

\* MUTANT: the mode of the board does not matter
FilesAnyway(form, mode) == form \in Stored

\* assertFileArtifactMode
Files(form, mode) == form = "link" \/ Fits(form, mode)

-----------------------------------------------------------------------------
\* createCollab: the memory thread, then the board and its index rows

CreateStart(r, steerers, roster, form, fileForms) ==
  /\ Free(r, "create") /\ board = Absent /\ \A q \in Reqs : req[q].op # "create"
  /\ \A v \in steerers \cup Owners(roster) : MayInvite(Creator, v)
  /\ LET row == Created(steerers, roster, form) IN
       /\ form = "none" \/ Fits(form, row.mode)
       /\ \A f \in fileForms : Files(f, row.mode)
       /\ Reads(r, Begin("create", "memory", {}, [row |-> row, files |-> fileForms]))
  /\ UNCHANGED <<boardRows, overwritten>>

CreateMemory(r) ==
  /\ At(r, "create", "memory")
  /\ memory' = [mode |-> req[r].mem.row.mode, replies |-> 0]
  /\ memoryBox' = req[r].mem.row.steerers
  /\ Reads(r, On(req[r], "commit", {}, req[r].mem))
  /\ UNCHANGED <<board, userBoards, notes, files, cardRows, proposed, assents, overwritten>>

CreateCommit(r) ==
  /\ At(r, "create", "commit")
  /\ board' = req[r].mem.row
  /\ userBoards' = req[r].mem.row.steerers
  /\ files' = [f \in Stored |-> IF f \in req[r].mem.files THEN 1 ELSE 0]
  /\ Leaves(r, {<<"board">>})
  /\ UNCHANGED <<memory, memoryBox, notes, cardRows, proposed, assents, overwritten>>

-----------------------------------------------------------------------------
\* A change of the board row: read, decide, write back

EditStart(r, op, u, x) ==
  /\ Free(r, op) /\ board # Absent
  /\ u \in board.steerers /\ Accepts(board, op)
  /\ LET row == After(board, op, u, x, proposed + 1)
         no  == IF op = "approve" THEN board.pending.no
                ELSE IF op = "add" /\ Opens(board, u, x) THEN proposed + 1 ELSE 0
     IN /\ row # Absent
        /\ no <= MaxProposal
        /\ proposed' = IF no = proposed + 1 THEN no ELSE proposed
        /\ assents' = IF no = 0 THEN assents ELSE assents \cup {<<no, u>>}
        /\ Reads(r, Begin(op, "save", {<<"board">>},
                          [row |-> row, flips |-> board.mode # row.mode,
                           came |-> row.steerers \ board.steerers,
                           left |-> board.steerers \ row.steerers]))
  /\ UNCHANGED <<board, userBoards, memory, memoryBox, notes, files, cardRows, overwritten>>

EditSave(r) ==
  /\ req[r].op \in BoardOps /\ req[r].pc = "save"
  /\ LET m == req[r].mem IN
       /\ board' = m.row
       /\ userBoards' = (userBoards \cup m.came) \ m.left
       /\ memoryBox' = memoryBox \cup m.came
       /\ Clobbers(r, {<<"board">>}) /\ Leaves(r, {<<"board">>})
  /\ UNCHANGED <<memory, notes, files, cardRows, proposed, assents>>

-----------------------------------------------------------------------------
\* addCollabArtifacts; addLearning

AttachStart(r, u, a) ==
  /\ Free(r, "attach") /\ board # Absent
  /\ u \in board.steerers /\ Accepts(board, "attach")
  /\ Formed(a) # Absent /\ Files(Formed(a), board.mode)
  /\ files["sealed"] + files["plain"] + files["link"] < MaxFiles
  /\ Reads(r, Begin("attach", "save", {<<"board">>}, [row |-> board, form |-> Formed(a)]))
  /\ UNCHANGED <<boardRows, overwritten>>

AttachSave(r) ==
  /\ At(r, "attach", "save")
  /\ board' = req[r].mem.row
  /\ files' = [files EXCEPT ![req[r].mem.form] = @ + 1]
  /\ Clobbers(r, {<<"board">>}) /\ Leaves(r, {<<"board">>})
  /\ UNCHANGED <<userBoards, memory, memoryBox, notes, cardRows, proposed, assents>>

\* Only the creator's side, and no hosted agent while the board is encrypted
LearnStart(r, u, kind) ==
  /\ Free(r, "learn") /\ board # Absent
  /\ u \in board.steerers /\ Accepts(board, "learn") /\ u = Creator
  /\ ~(board.mode = "e2e" /\ kind = "mcp")
  /\ Reads(r, Begin("learn", "memory", {<<"board">>}, [form |-> IF board.mode = "e2e" THEN "sealed" ELSE "plain"]))
  /\ UNCHANGED <<boardRows, overwritten>>

LearnMemory(r) ==
  /\ At(r, "learn", "memory")
  /\ Reads(r, On(req[r], "save", {<<"memory">>}, [form |-> req[r].mem.form, memory |-> memory]))
  /\ UNCHANGED <<boardRows, overwritten>>

LearnSave(r) ==
  /\ At(r, "learn", "save")
  /\ \E n \in NoteIds :
       /\ notes[n] = Absent /\ \A k \in 1..(n - 1) : notes[k] # Absent
       /\ notes' = [notes EXCEPT ![n] = req[r].mem.form]
  /\ memory' = [req[r].mem.memory EXCEPT !.replies = @ + 1]
  /\ Clobbers(r, {<<"memory">>}) /\ Leaves(r, {<<"memory">>})
  /\ UNCHANGED <<board, userBoards, memoryBox, files, cardRows, proposed, assents>>

-----------------------------------------------------------------------------
\* Positions in a lane

InLane(lane) == {c \in CardIds : cards[c] # Absent /\ cards[c].lane = lane}
PosOf(c)     == cards[c].position

\* insertLanePosition between two positions, either of which may be missing
Insert(before, after) ==
  IF before = Absent /\ after = Absent THEN LaneGap
  ELSE IF before = Absent THEN (IF after > LaneGap THEN after - LaneGap ELSE after \div 2)
  ELSE IF after = Absent THEN before + LaneGap
  ELSE (before + after) \div 2

\* laneGapExhausted
Exhausted(before, after) == before # Absent /\ after # Absent /\ after < before + LaneMinGap

\* The order of the cards C on the board; cards in one place are in order of id.
Rank(C, c) == Cardinality({d \in C : PosOf(d) < PosOf(c) \/ (PosOf(d) = PosOf(c) /\ d < c)})
Nth(C, i)  == IF \E c \in C : Rank(C, c) = i THEN PosOf(CHOOSE c \in C : Rank(C, c) = i) ELSE Absent

\* Where setLane looks: the places of the neighbours among the siblings C.
\* `near` is a card that may by now be in another lane.
Around(C, where, near) ==
  IF where = "end" THEN <<Nth(C, Cardinality(C) - 1), Absent>>
  ELSE IF near \notin C THEN <<Absent, Absent>>
  ELSE IF where = "before" THEN <<Nth(C, Rank(C, near) - 1), PosOf(near)>>
  ELSE <<PosOf(near), Nth(C, Rank(C, near) + 1)>>

-----------------------------------------------------------------------------
\* Cards: resolveCollabCardCreate and the commit of createThread; setLane;
\* setChecklistItem; closeThread, postReply, finalizeApprovedDowngrade

\* resolveLaneId: a list by its id or name, the first one if none is asked for
LaneOf(row, text) ==
  LET fits == {i \in DOMAIN Lists : text = Absent \/ text \in {Lists[i], row.names[Lists[i]]}}
  IN IF fits = {} THEN Absent ELSE Lists[CHOOSE i \in fits : \A j \in fits : i <= j]

\* assertCardParticipant
TakesPart(row, x) == x \in row.roster \/ x[1] \in row.steerers

\* The one a card is for has it pending: resolveAssigneeTurn
CardStart(r, u, text, to) ==
  /\ Free(r, "card") /\ board # Absent
  /\ u \in board.steerers /\ Accepts(board, "card")
  /\ LaneOf(board, text) # Absent /\ TakesPart(board, to)
  /\ LET C == InLane(LaneOf(board, text)) IN
       Reads(r, Begin("card", "commit", {<<"board">>},
         [who |-> board.steerers, needs |-> {to[1]} \cap board.steerers,
          row |-> [mode |-> board.mode, lane |-> LaneOf(board, text), open |-> TRUE, done |-> FALSE,
                   from |-> u, position |-> Insert(Nth(C, Cardinality(C) - 1), Absent)]]))
  /\ UNCHANGED <<boardRows, overwritten>>

CardCommit(r) ==
  /\ At(r, "card", "commit")
  /\ \E c \in CardIds \ index :
       /\ \A d \in 1..(c - 1) : d \in index
       /\ cards' = [cards EXCEPT ![c] = req[r].mem.row]
       /\ index' = index \cup {c}
       /\ boxes' = [boxes EXCEPT ![c] = req[r].mem.who]
       /\ needs' = [needs EXCEPT ![c] = req[r].mem.needs]
  /\ Leaves(r, {})
  /\ UNCHANGED <<board, userBoards, memory, memoryBox, notes, files, proposed, assents, overwritten>>

LaneStart(r, u, c, lane, where, near) ==
  /\ Free(r, "lane") /\ board # Absent /\ cards[c] # Absent
  /\ u \in board.steerers /\ Accepts(board, "lane")
  /\ LET C == InLane(lane) \ {c}
         n == Around(C, where, near)
         p == Insert(n[1], n[2])
         tight == Exhausted(n[1], n[2]) \/ Exhausted(n[1], p) \/ Exhausted(p, n[2])
         \* the card comes after siblings in the same place
         rank == Cardinality({d \in C : PosOf(d) <= p})
     IN Reads(r, Begin("lane", IF tight THEN "siblings" ELSE "save", {<<"board">>, <<"card", c>>},
          [card |-> c, rows |-> [d \in {c} |-> [cards[c] EXCEPT !.lane = lane,
                             !.position = IF tight THEN (rank + 1) * LaneGap ELSE p]],
           places |-> [d \in C |-> (Rank(C, d) + (IF PosOf(d) <= p THEN 1 ELSE 2)) * LaneGap]]))
  /\ UNCHANGED <<boardRows, overwritten>>

\* A rebalance reads the rows of the siblings that are left and writes them all.
LaneSiblings(r) ==
  /\ At(r, "lane", "siblings")
  /\ LET m == req[r].mem
         C == {d \in DOMAIN m.places : cards[d] # Absent}
     IN Reads(r, On(req[r], "save", {<<"card", d>> : d \in C},
          [m EXCEPT !.rows = [d \in C \cup {m.card} |->
             IF d = m.card THEN @[d] ELSE [cards[d] EXCEPT !.position = m.places[d]]]]))
  /\ UNCHANGED <<boardRows, overwritten>>

CheckStart(r, u, c) ==
  /\ Free(r, "check") /\ board # Absent /\ cards[c] # Absent
  /\ u \in board.steerers /\ Accepts(board, "check")
  /\ Reads(r, Begin("check", "save", {<<"board">>, <<"card", c>>},
                    [card |-> c, rows |-> [d \in {c} |-> [cards[c] EXCEPT !.done = ~@]]]))
  /\ UNCHANGED <<boardRows, overwritten>>

\* closeThread; unpairExternalContact closes the cards between two contacts so
CloseStart(r, u, c) ==
  /\ Free(r, "close") /\ cards[c] # Absent /\ u \in boxes[c] /\ cards[c].open
  /\ Reads(r, Begin("close", "save", {<<"card", c>>},
                    [card |-> c, rows |-> [d \in {c} |-> [cards[c] EXCEPT !.open = FALSE]]]))
  /\ UNCHANGED <<boardRows, overwritten>>

\* postReply: the card, then the inbox rows of those who are to look at it: the
\* declared turns among those who have it; else all others if the sender replies,
\* and the sender if somebody else does
ReplyStart(r, u, c) ==
  /\ Free(r, "reply") /\ cards[c] # Absent /\ u \in boxes[c] /\ cards[c].open
  /\ Reads(r, Begin("reply", "inbox", {<<"card", c>>},
                    [card |-> c, rows |-> [d \in {c} |-> cards[c]], user |-> u]))
  /\ UNCHANGED <<boardRows, overwritten>>

ReplyInbox(r, turns) ==
  /\ At(r, "reply", "inbox")
  /\ LET m == req[r].mem
         here  == boxes[m.card]
         woken == IF m.rows[m.card].from = m.user THEN here \ {m.user} ELSE here \cap {m.rows[m.card].from}
     IN Reads(r, On(req[r], "save", {}, [card |-> m.card, rows |-> m.rows,
          who   |-> {m.user} \cup IF turns = Absent THEN woken ELSE here,
          needs |-> IF turns = Absent THEN woken ELSE ({m.user} \cup here) \cap turns]))
  /\ UNCHANGED <<boardRows, overwritten>>

\* finalizeApprovedDowngrade on a card: the card as the last approver read it, then
\* the inbox row of the owner of the web agent that joins, a new one if there is none
UnsealStart(r, u, c) ==
  /\ Free(r, "unseal") /\ cards[c] # Absent /\ u \in boxes[c] /\ cards[c].mode = "e2e"
  /\ Reads(r, Begin("unseal", "inbox", {<<"card", c>>},
       [card |-> c, rows |-> [d \in {c} |-> [cards[c] EXCEPT !.mode = "app_envelope"]], user |-> u]))
  /\ UNCHANGED <<boardRows, overwritten>>

UnsealInbox(r) ==
  /\ At(r, "unseal", "inbox")
  /\ LET m == req[r].mem IN
       Reads(r, On(req[r], "save", {}, [card |-> m.card, rows |-> m.rows, who |-> {m.user},
          needs |-> {m.user} \ (boxes[m.card] \ needs[m.card])]))
  /\ UNCHANGED <<boardRows, overwritten>>

\* The whole row of each card as it was read, changed or not, without a check
Filing == {"lane", "check"}             \* having looked at the board
Aloof  == {"close", "reply", "unseal"}  \* or not
CardSave(r) ==
  /\ req[r].op \in Filing \cup Aloof /\ req[r].pc = "save"
  /\ LET m == req[r].mem
         keys == {<<"card", c>> : c \in DOMAIN m.rows}
     IN /\ cards' = [c \in CardIds |-> IF c \in DOMAIN m.rows THEN m.rows[c] ELSE cards[c]]
        /\ Clobbers(r, keys) /\ Leaves(r, keys)
        /\ IF req[r].op \in {"reply", "unseal"}
           THEN /\ boxes' = [boxes EXCEPT ![m.card] = @ \cup m.who]
                /\ needs' = [needs EXCEPT ![m.card] = (@ \ m.who) \cup m.needs]
           ELSE UNCHANGED <<boxes, needs>>
  /\ UNCHANGED <<board, userBoards, memory, memoryBox, notes, files, index, proposed, assents>>

\* deleteThread: for everybody if it is the sender, inbox rows first (of the
\* sender's organization); else for himself.  The board's index row stays.
Purged(u) == {v \in Users : SameSide(u, v)}
DeleteStart(r, u, c) ==
  /\ Free(r, "delete") /\ u \in boxes[c]
  /\ Reads(r, Begin("delete", "boxes", {},
       [card |-> c, from |-> IF cards[c] # Absent /\ cards[c].from = u THEN Purged(u) ELSE {u},
        all |-> cards[c] # Absent /\ cards[c].from = u]))
  /\ UNCHANGED <<boardRows, overwritten>>

DeleteBoxes(r) ==
  /\ At(r, "delete", "boxes")
  /\ LET m == req[r].mem IN
       /\ boxes' = [boxes EXCEPT ![m.card] = @ \ m.from]
       /\ needs' = [needs EXCEPT ![m.card] = @ \ m.from]
       /\ IF m.all THEN Reads(r, On(req[r], "body", {}, m)) ELSE Leaves(r, {})
  /\ UNCHANGED <<board, userBoards, memory, memoryBox, notes, files, cards, index, proposed, assents, overwritten>>

DeleteBody(r) ==
  /\ At(r, "delete", "body")
  /\ cards' = [cards EXCEPT ![req[r].mem.card] = Absent]
  /\ Leaves(r, {<<"card", req[r].mem.card>>})
  /\ UNCHANGED <<board, userBoards, memory, memoryBox, notes, files, index, boxes, needs, proposed, assents, overwritten>>

-----------------------------------------------------------------------------
\* Who asks for what.  The operation is looked at first: most inputs are for one.
EditInputs(op) ==
  CASE op \in {"add", "remove"} -> Members [] op = "downgrade" -> SUBSET Users
    [] op = "instruct" -> Forms \cup {"none"} [] op = "rename" -> Lanes \X Names [] OTHER -> {Absent}

Start(r) ==
  \/ /\ Free(r, "create")
     /\ \E S \in SUBSET Users, R \in SUBSET Agents, f \in Forms \cup {"none"}, F \in SUBSET Stored :
          Cardinality(R) <= 1 /\ Cardinality(F) <= 1 /\ CreateStart(r, S, R, f, F)
  \/ \E op \in BoardOps \cap scope.ops, u \in Users : \E x \in EditInputs(op) : EditStart(r, op, u, x)
  \/ \E u \in Users :
       \/ \E a \in Inputs : AttachStart(r, u, a)
       \/ \E k \in Kinds : LearnStart(r, u, k)
       \/ \E text \in Lanes \cup Names \cup {Absent}, to \in Users \X {"human", "mcp"} : CardStart(r, u, text, to)
       \/ /\ Free(r, "lane")
          /\ \E c, d \in CardIds, l \in Lanes, w \in {"before", "after", "end"} :
               (w = "end" => d = c) /\ LaneStart(r, u, c, l, w, d)
       \/ \E c \in CardIds :
            \/ CheckStart(r, u, c) \/ CloseStart(r, u, c) \/ DeleteStart(r, u, c)
            \/ ReplyStart(r, u, c) \/ UnsealStart(r, u, c)

Step(r) ==
  \/ CreateMemory(r) \/ CreateCommit(r) \/ EditSave(r) \/ AttachSave(r)
  \/ LearnMemory(r) \/ LearnSave(r) \/ CardCommit(r) \/ LaneSiblings(r) \/ CardSave(r)
  \/ (\E turns \in (SUBSET Users) \cup {Absent} : ReplyInbox(r, turns)) \/ UnsealInbox(r)
  \/ DeleteBoxes(r) \/ DeleteBody(r)

vars == <<req, scope, overwritten, boardRows>>

\* No board yet; or one as createCollab leaves it.
Init ==
  /\ InitRequests
  /\ \E start \in scope.tries :
       LET row == IF start = Absent THEN Absent ELSE Created(start, {}, "none") IN
       /\ board = row
       /\ userBoards = IF row = Absent THEN {} ELSE row.steerers
       /\ memory = IF row = Absent THEN Absent ELSE [mode |-> row.mode, replies |-> 0]
       /\ memoryBox = userBoards
  /\ notes = [n \in NoteIds |-> Absent]
  /\ files = [f \in Stored |-> 0]
  /\ cards = [c \in CardIds |-> Absent] /\ index = {}
  /\ boxes = [c \in CardIds |-> {}] /\ needs = boxes
  /\ proposed = 0 /\ assents = {}

Next ==
  \E r \in Reqs :
    (Start(r) /\ Begins) \/ (Step(r) /\ GoesOn) \/ (Crash(r) /\ UNCHANGED <<scope, boardRows>>)

Spec == Init /\ [][Next]_vars

-----------------------------------------------------------------------------
TypeOK ==
  /\ TypeOKRequests
  /\ board \in BoardRow \cup {Absent}
  /\ userBoards \subseteq Users /\ memoryBox \subseteq Users
  /\ memory = Absent \/ memory \in [mode: Modes, replies: 0..MaxNote]
  /\ notes \in [NoteIds -> Forms \cup {Absent}]
  /\ files \in [Stored -> Nat]
  /\ cards \in [CardIds -> CardRow \cup {Absent}] /\ index \subseteq CardIds
  /\ boxes \in [CardIds -> SUBSET Users] /\ \A c \in CardIds : needs[c] \subseteq boxes[c]
  /\ proposed \in 0..MaxProposal /\ assents \subseteq (1..MaxProposal) \X Users

\* Who works on a board fits its mode, however membership changes, removals,
\* approvals and lost updates interleave: the human of each agent steers it, and
\* while it is encrypted nobody outside the organization and no hosted agent is
\* on it, and its instructions are sealed.  While no update of the board was
\* lost, exactly its steerers have it in their list, and each has its memory.
SealedIsInternal ==
  board # Absent =>
    /\ {Creator} \cup Owners(board.roster) \subseteq board.steerers
    /\ board.mode = "e2e" => Derived(board.steerers, board.roster) = "e2e"
    /\ board.instructions = "none" \/ Fits(board.instructions, board.mode)
    /\ <<"board">> \notin overwritten =>
         userBoards = board.steerers /\ userBoards \subseteq memoryBox

\* When a membership change ends encryption, everyone who steers the board from
\* then on, besides the new member, did propose or approve exactly this change:
\* no removal, lost update or later proposal turns one assent into another.
Flips(r) == At(r, req[r].op, "save") /\ req[r].op \in {"add", "approve"} /\ req[r].mem.flips
ConsentBehindFlip ==
  [][\A r \in Reqs : Flips(r) /\ req'[r] = Idle /\ board' = req[r].mem.row
       => /\ \A u \in board'.point.approvers : <<board'.point.no, u>> \in assents
          /\ board'.steerers \subseteq board'.point.approvers \cup {board'.point.cause[1]}]_vars

\* On an archived board nobody joins or leaves, nothing is filed, and no card is
\* moved, ticked or added; only that the board is opened again.  Two kinds of
\* requests get around it: one that had read the board before it was archived
\* writes what it was asked; and a reply, a downgrade or the closing of a card,
\* which never look at the board, put the card back where they read it, if it was
\* moved or ticked since.  (Cards may be closed, answered and deleted all the time;
\* what is said in the memory thread, which adds no learning, is left out.)
Place(x) == <<x.lane, x.position, x.done>>
Changes ==
  \/ board' # board \/ notes' # notes \/ files' # files \/ index' # index
  \/ \E c \in CardIds : cards[c] # Absent /\ cards'[c] # Absent /\ Place(cards'[c]) # Place(cards[c])
Outdated(r) ==
  \/ <<"board">> \in req[r].stale
  \/ req[r].op \in Aloof /\ <<"card", req[r].mem.card>> \in req[r].stale
FrozenWhenArchived ==
  [][board # Absent /\ board.archived /\ Changes
       => \/ board' = [board EXCEPT !.archived = FALSE]
          \/ \E r \in Reqs : req[r] # Idle /\ req'[r] = Idle /\ Outdated(r)]_vars

\* "downgrade_point nullable and immutable once set" (collab.ts:8)
PointNeverMoves ==
  [][board # Absent /\ board.point # Absent => board'.point = board.point]_vars
=============================================================================
