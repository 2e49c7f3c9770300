----------------------------- MODULE CollabViews -----------------------------
(***************************************************************************)
(* What the hub shows of a board: the list of a user's boards with its     *)
(* numbers (listCollabs) and the page of one board (getCollab).  Both read *)
(* the board row, then the index of its cards, then the cards one by one,  *)
(* then learnings and artifacts, while other requests write all of them.   *)
(* Days of activity and the feed of recent cards are left out.             *)
(***************************************************************************)
EXTENDS CollabBoard

CONSTANTS Views   \* operations of a scope that look
ASSUME ViewAssumption == Views \subseteq {"list", "page"}

-----------------------------------------------------------------------------
\* isCollabSteerer and the filter of the list; assertMember of the page

InIndex(u)           == u \in userBoards \/ SameSide(u, Creator)
Listed(u, archived)  == InIndex(u) /\ u \in board.steerers /\ board.archived = archived
Paged(u)             == u \in board.steerers

\* What a view has of a card: the thread, whether its reader has it pending, and
\* whether the hub opens a message of it (cardRootAppPayload looks at the mode of
\* the board only).  The list does not look at closed cards' inbox rows.
SeenCard(q, c) ==
  [id |-> c, lane |-> cards[c].lane, position |-> cards[c].position, open |-> cards[c].open,
   yours |-> q.mem.user \in needs[c] /\ (q.op = "page" \/ cards[c].open),
   text |-> q.op = "page" /\ q.mem.row.mode = "app_envelope"]

\* listLearnings: stubs while the board is encrypted, else what is readable
SeenNotes(row) ==
  IF row.mode = "e2e" THEN [n \in {k \in NoteIds : notes[k] # Absent} |-> "sealed"]
  ELSE [n \in {k \in NoteIds : notes[k] = "plain"} |-> "plain"]

\* artifactsForView: the list shows labels only
SeenFiles(op) == {[form |-> f, content |-> op = "page"] : f \in {g \in Stored : files[g] > 0}}

-----------------------------------------------------------------------------
\* The reads of a view; the board row and its card index are read together

ViewStart(r, op, u, archived) ==
  /\ Free(r, op) /\ board # Absent
  /\ IF op = "list" THEN Listed(u, archived) ELSE Paged(u) /\ ~archived
  /\ Reads(r, Begin(op, "scan", {},
       [user |-> u, row |-> board, todo |-> index, seen |-> {}, notes |-> <<>>, files |-> {},
        gone |-> {c \in index : cards[c] = Absent}]))
  /\ UNCHANGED <<boardRows, overwritten>>

\* A card that was deleted is passed over.
ViewCard(r, op) ==
  /\ At(r, op, "scan") /\ req[r].mem.todo # {}
  /\ LET m == req[r].mem
         c == CHOOSE x \in m.todo : \A y \in m.todo : x <= y
     IN Reads(r, On(req[r], "scan", {},
          [m EXCEPT !.todo = @ \ {c},
                    !.seen = IF cards[c] = Absent THEN @ ELSE @ \cup {SeenCard(req[r], c)}]))
  /\ UNCHANGED <<boardRows, overwritten>>

ViewNotes(r) ==
  /\ At(r, "page", "scan") /\ req[r].mem.todo = {}
  /\ Reads(r, On(req[r], "files", {}, [req[r].mem EXCEPT !.notes = SeenNotes(req[r].mem.row)]))
  /\ UNCHANGED <<boardRows, overwritten>>

ViewFiles(r, op) ==
  /\ req[r].mem # Absent /\ (At(r, "page", "files") \/ (At(r, "list", "scan") /\ req[r].mem.todo = {}))
  /\ op = req[r].op
  /\ Reads(r, On(req[r], "answer", {}, [req[r].mem EXCEPT !.files = SeenFiles(op)]))
  /\ UNCHANGED <<boardRows, overwritten>>

ViewAnswer(r, op) == At(r, op, "answer") /\ Answer(r) /\ UNCHANGED <<boardRows, overwritten>>

-----------------------------------------------------------------------------
\* The numbers of a list, from the cards it has seen

\* MUTANT: a closed card stays in its lane
BucketsOfAll(row, seen) ==
  [b \in {"backlog", "doing", "done"} |-> {x \in seen : row.names[x.lane] = b}]

\* laneBucket: by the name of the list, else by its place
Bucket(row, lane) ==
  LET name == row.names[lane] IN
  IF name \in {"backlog", "doing", "done"} THEN name
  ELSE IF lane = Lists[1] THEN "backlog" ELSE IF lane = Lists[Len(Lists)] THEN "done" ELSE "doing"

Buckets(row, seen) ==
  [b \in {"backlog", "doing", "done"} |-> {x \in seen : x.open /\ Bucket(row, x.lane) = b}]

\* summarizeCollabCards
Summary(m) ==
  LET in == Buckets(m.row, m.seen)
      Open == {x \in m.seen : x.open}
  IN [cards |-> Cardinality(m.seen), open |-> Cardinality(Open),
      closed |-> Cardinality(m.seen \ Open), needsYou |-> Cardinality({x \in Open : x.yours}),
      backlog |-> Cardinality(in["backlog"]), doing |-> Cardinality(in["doing"]),
      done |-> Cardinality(in["done"])]

-----------------------------------------------------------------------------
ViewStep(r) ==
  \E op \in Views : ViewCard(r, op) \/ ViewFiles(r, op) \/ ViewAnswer(r, op)

ViewNext ==
  \/ Next
  \/ \E r \in Reqs :
       \/ \E op \in Views, u \in Users, a \in BOOLEAN : ViewStart(r, op, u, a) /\ Begins
       \/ (ViewStep(r) \/ ViewNotes(r)) /\ GoesOn

ViewSpec == Init /\ [][ViewNext]_vars

-----------------------------------------------------------------------------
Answered(r) == req[r].op \in Views /\ req[r].pc = "answer"

\* The numbers of a list add up although cards move, close and go while they
\* are counted: each card counts once and in one lane, and one that was deleted
\* before does not count, unless a request in flight wrote it back.
ListAddsUp ==
  \A r \in Reqs : Answered(r) =>
    LET m == req[r].mem
        s == Summary(m)
    IN /\ s.cards = Cardinality({x.id : x \in m.seen}) /\ s.open + s.closed = s.cards
       /\ s.backlog + s.doing + s.done = s.open /\ s.needsYou <= s.open
       /\ \A x \in m.seen : x.id \in m.gone => <<"card", x.id>> \in overwritten

\* What the hub can read is shown only of a board whose encryption has ended:
\* no card text, learning or file of an encrypted board is shown in the clear,
\* whatever was read before or after the downgrade, unless an update of the board
\* was lost.
Readable(r) ==
  \/ \E x \in req[r].mem.seen : x.text
  \/ \E n \in DOMAIN req[r].mem.notes : req[r].mem.notes[n] = "plain"
  \/ [form |-> "plain", content |-> TRUE] \in req[r].mem.files
EncryptedStaysUnread ==
  \A r \in Reqs :
    Answered(r) /\ Readable(r) => board.mode = "app_envelope" \/ <<"board">> \in overwritten
=============================================================================
