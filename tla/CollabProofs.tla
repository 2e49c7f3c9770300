----------------------------- MODULE CollabProofs -----------------------------
(***************************************************************************)
(* What holds of a board for every number of users, requests in flight and *)
(* operations: who works on it fits its mode, a flip has the assent of all *)
(* who stay, an archived board is left alone, and nothing encrypted is     *)
(* shown.                                                                  *)
(*                                                                         *)
(* Every handler reads the board and writes a whole row back, so the       *)
(* argument is about the rows in flight: whatever a request is about to    *)
(* write is itself a sound row, however old it is, and as long as what it  *)
(* read is not stale it is a successor of the present one.                 *)
(***************************************************************************)
EXTENDS CollabViews, FiniteSetTheorems, FunctionTheorems, TLAPS

-----------------------------------------------------------------------------
(* Rows *)

\* Who works on a board fits its mode.
Internal(row) ==
  /\ row \in BoardRow
  /\ {Creator} \cup Owners(row.roster) \subseteq row.steerers
  /\ row.mode = "e2e" => Derived(row.steerers, row.roster) = "e2e"
  /\ row.instructions = "none" \/ Fits(row.instructions, row.mode)

\* Whoever a row says has approved a proposal did.
Backed(row) ==
  row.pending # Absent => \A v \in row.pending.approved : <<row.pending.no, v>> \in assents

\* Everyone who steers the board from then on, besides the new member, agreed.
FlipBacked(row) ==
  /\ \A v \in row.point.approvers : <<row.point.no, v>> \in assents
  /\ row.steerers \subseteq row.point.approvers \cup {row.point.cause[1]}

\* A row is never Absent, nor is a proposal.
LEMMA RowsAreThere ==
  ASSUME NEW row \in BoardRow
  PROVE  row # Absent
BY AbsentAssumption

\* Creating a board is sound: the mode is derived from who is on it.
LEMMA CreatedIsInternal ==
  ASSUME NEW S \in SUBSET Users, NEW R \in SUBSET Agents, NEW f \in Forms \cup {"none"},
         f = "none" \/ Fits(f, Created(S, R, f).mode)
  PROVE  Internal(Created(S, R, f)) /\ Created(S, R, f).pending = Absent
<1> DEFINE row == Created(S, R, f)
<1>1. Owners(R) \subseteq Users
  BY DEF Owners, Agents, Members
<1>2. row.steerers \subseteq Users /\ {Creator} \cup Owners(R) \subseteq row.steerers
  BY <1>1, CollabAssumption DEF Created, Users
<1>3. row.mode \in Modes /\ row.mode = Derived(row.steerers, row.roster) /\ row.roster = R
  BY DEF Created, Derived, Modes
<1>4. row \in BoardRow
  BY <1>2, <1>3, CollabAssumption DEF Created, BoardRow
<1> QED
  BY <1>2, <1>3, <1>4 DEF Created, Internal

\* A new member keeps a row sound where he does not end its encryption.
LEMMA AdmittedIsInternal ==
  ASSUME NEW row, Internal(row), NEW x \in Members, Admitted(row, x) # Absent,
         row.mode = "app_envelope" \/ (x[2] # "mcp" /\ x[1] \notin Outsiders)
  PROVE  /\ Internal(Admitted(row, x)) /\ Admitted(row, x).mode = row.mode
         /\ Admitted(row, x).steerers = row.steerers \cup {x[1]} /\ Admitted(row, x).pending = Absent
         /\ Admitted(row, x).point = row.point
<1> DEFINE R == IF x[2] = "human" THEN row.roster ELSE row.roster \cup {x}
<1>1. PICK new : new = [row EXCEPT !.steerers = row.steerers \cup {x[1]}, !.pending = Absent, !.roster = R]
  OBVIOUS
<1>2. Admitted(row, x) = new
  BY <1>1 DEF Admitted
<1>3. row \in BoardRow /\ x[1] \in Users
  BY DEF Internal, Members
<1>4. /\ new.steerers = row.steerers \cup {x[1]} /\ new.roster = R /\ new.pending = Absent
      /\ new.mode = row.mode /\ new.instructions = row.instructions /\ new.point = row.point
  BY <1>1, <1>3 DEF BoardRow
<1>5. R \subseteq Agents /\ Owners(R) \subseteq Owners(row.roster) \cup {x[1]}
  BY <1>3 DEF BoardRow, Agents, Owners
<1>6. new \in BoardRow
  BY <1>1, <1>3, <1>4, <1>5 DEF BoardRow
<1>7. new.mode = "e2e" => Derived(new.steerers, new.roster) = "e2e"
  BY <1>4 DEF Internal, Derived
<1> QED
  BY <1>2, <1>4, <1>5, <1>6, <1>7 DEF Internal

\* The end of encryption keeps a row sound.
LEMMA FlippedIsInternal ==
  ASSUME NEW row, Internal(row), NEW approvers \in SUBSET Users, NEW cause \in Members \cup {Absent},
         NEW no \in 0..MaxProposal
  PROVE  /\ Internal(Flipped(row, approvers, cause, no))
         /\ Flipped(row, approvers, cause, no).mode = "app_envelope"
         /\ Flipped(row, approvers, cause, no).steerers = row.steerers
         /\ Flipped(row, approvers, cause, no).roster = row.roster
         /\ Flipped(row, approvers, cause, no).pending = Absent
         /\ Flipped(row, approvers, cause, no).point = [approvers |-> approvers, cause |-> cause, no |-> no]
<1> DEFINE p == [approvers |-> approvers, cause |-> cause, no |-> no]
           i == IF row.instructions = "sealed" THEN "none" ELSE row.instructions
<1>1. PICK new : new = [row EXCEPT !.mode = "app_envelope", !.pending = Absent, !.point = p,
                                   !.instructions = i]
  OBVIOUS
<1>2. Flipped(row, approvers, cause, no) = new
  BY <1>1 DEF Flipped
<1>3. row \in BoardRow
  BY DEF Internal
<1>4. /\ new.steerers = row.steerers /\ new.roster = row.roster /\ new.pending = Absent
      /\ new.mode = "app_envelope" /\ new.instructions = i /\ new.point = p
  BY <1>1, <1>3 DEF BoardRow
<1>5. p \in Point
  BY DEF Point
<1>6. i \in {"none", "plain"}
  BY <1>3 DEF BoardRow, Forms
<1>7. new \in BoardRow
  <2> HIDE DEF p, i
  <2> QED BY <1>1, <1>3, <1>5, <1>6 DEF BoardRow, Modes, Forms
<1> QED
  BY <1>2, <1>4, <1>6, <1>7 DEF Internal, Fits

\* A proposal that is made, approved by one more or dropped keeps a row sound.
LEMMA PendingIsInternal ==
  ASSUME NEW row, Internal(row), NEW p \in Proposal \cup {Absent}
  PROVE  /\ Internal([row EXCEPT !.pending = p])
         /\ [row EXCEPT !.pending = p].mode = row.mode /\ [row EXCEPT !.pending = p].pending = p
         /\ [row EXCEPT !.pending = p].steerers = row.steerers
<1>1. PICK new : new = [row EXCEPT !.pending = p]
  OBVIOUS
<1>2. row \in BoardRow
  BY DEF Internal
<1>3. /\ new.steerers = row.steerers /\ new.roster = row.roster /\ new.pending = p
      /\ new.mode = row.mode /\ new.instructions = row.instructions
  BY <1>1, <1>2 DEF BoardRow
<1>4. new \in BoardRow
  BY <1>1, <1>2 DEF BoardRow
<1> QED
  BY <1>1, <1>3, <1>4 DEF Internal

\* The record of a proposal.
LEMMA Proposed ==
  ASSUME NEW x \in Members, NEW A \in SUBSET Users, NEW no \in 1..MaxProposal
  PROVE  [what |-> x, approved |-> A, no |-> no] \in Proposal
BY DEF Proposal

\* What a proposed member does to a row: the row stays sound and never goes back
\* to encryption; its proposal is the old one, none, or the new one of `u`; and
\* where it ends encryption, `u` is the only one who steers it.
LEMMA AskedIsInternal ==
  ASSUME NEW row, Internal(row), NEW u \in row.steerers, NEW x \in Members, NEW no,
         Opens(row, u, x) => no \in 1..MaxProposal, Asked(row, u, x, no) # Absent
  PROVE  LET new == Asked(row, u, x, no) IN
         /\ Internal(new)
         /\ new.mode \in {row.mode, "app_envelope"}
         /\ new.pending # Absent => Opens(row, u, x) /\ new.pending = [what |-> x, approved |-> {u}, no |-> no]
         /\ new.mode # row.mode =>
              /\ Opens(row, u, x) /\ new.point.approvers = {u} /\ new.point.no = no
              /\ new.steerers \subseteq {u} \cup {new.point.cause[1]}
<1> DEFINE new == Asked(row, u, x, no)
<1>1. row \in BoardRow /\ u \in Users /\ row.steerers \subseteq Users
  BY DEF Internal, BoardRow
<1>2. CASE ~Opens(row, u, x)
  <2>1. new = Admitted(row, x)
    BY <1>2 DEF Asked
  <2>2. row.mode = "app_envelope" \/ (x[2] # "mcp" /\ x[1] \notin Outsiders)
    <3>1. row.mode # "app_envelope" => row.mode = "e2e"
      BY <1>1 DEF BoardRow, Modes
    <3>2. row.mode = "e2e" => u \notin Outsiders
      BY DEF Internal, Derived
    <3> QED
      BY <1>2, <3>1, <3>2 DEF Opens, SameSide
  <2> QED
    BY <2>1, <2>2, AdmittedIsInternal
<1>3. CASE Opens(row, u, x)
  <2>1. new = Queued(row, u, x, no) /\ row.mode = "e2e"
    BY <1>3 DEF Asked, Opens
  <2>2. CASE Cardinality(row.steerers) = 1
    <3>1. row.steerers = {u}
      <4>1. IsFiniteSet(row.steerers)
        BY <1>1, CollabAssumption, FS_Subset
      <4>2. \A S : IsFiniteSet(S) => (Cardinality(S) = 1 <=> \E v : S = {v})
        BY FS_Singleton, Zenon
      <4>3. PICK v : row.steerers = {v}
        BY <2>2, <4>1, <4>2
      <4> QED
        BY <4>3
    <3>2. PICK mid : mid = Flipped(row, {u}, x, no)
      OBVIOUS
    <3>3. /\ Internal(mid) /\ mid.mode = "app_envelope" /\ mid.steerers = {u}
          /\ mid.point = [approvers |-> {u}, cause |-> x, no |-> no]
      <4>1. {u} \in SUBSET Users /\ x \in Members \cup {Absent} /\ no \in 0..MaxProposal
        BY <1>1, <1>3, CollabAssumption
      <4>2. Internal(mid) /\ mid.mode = "app_envelope"
        BY <3>2, <4>1, FlippedIsInternal
      <4>3. mid.steerers = {u} /\ mid.point = [approvers |-> {u}, cause |-> x, no |-> no]
        BY <3>1, <3>2, <4>1, FlippedIsInternal
      <4> QED
        BY <4>2, <4>3
    <3>4. new = Admitted(mid, x)
      BY <2>1, <2>2, <3>2 DEF Queued
    <3>5. /\ Internal(new) /\ new.mode = "app_envelope" /\ new.steerers = {u} \cup {x[1]}
          /\ new.pending = Absent /\ new.point = [approvers |-> {u}, cause |-> x, no |-> no]
      BY <3>3, <3>4, AdmittedIsInternal
    <3> HIDE DEF new
    <3>6. new.point.approvers = {u} /\ new.point.cause = x /\ new.point.no = no
      BY <3>5
    <3> QED
      BY <1>3, <3>5, <3>6 DEF new
  <2>3. CASE Cardinality(row.steerers) # 1
    <3>1. PICK p : p = [what |-> x, approved |-> {u}, no |-> no]
      OBVIOUS
    <3>2. new = [row EXCEPT !.pending = p]
      BY <2>1, <2>3, <3>1 DEF Queued
    <3>3. p \in Proposal
      BY <1>1, <1>3, <3>1, Proposed
    <3>4. Internal(new) /\ new.mode = row.mode /\ new.pending = p
      BY <3>2, <3>3, PendingIsInternal
    <3> QED
      BY <1>3, <2>1, <3>1, <3>4
  <2> QED
    BY <2>2, <2>3
<1> QED
  BY <1>2, <1>3

\* The same for an approval.
LEMMA ApprovedIsInternal ==
  ASSUME NEW row, Internal(row), NEW u \in row.steerers, Approved(row, u) # Absent
  PROVE  LET new == Approved(row, u) IN
         /\ row.pending \in Proposal
         /\ Internal(new)
         /\ new.mode \in {row.mode, "app_envelope"}
         /\ new.pending # Absent =>
              /\ new.pending.approved = row.pending.approved \cup {u}
              /\ new.pending.no = row.pending.no
         /\ new.mode # row.mode =>
              /\ new.point.approvers = row.pending.approved \cup {u} /\ new.point.no = row.pending.no
              /\ new.steerers \subseteq new.point.approvers \cup {new.point.cause[1]}
<1> DEFINE new == Approved(row, u)
           A == row.pending.approved \cup {u}
<1>1. row \in BoardRow /\ row.pending \in Proposal /\ u \in Users
  BY DEF Internal, BoardRow, Approved
<1>2. /\ row.pending.what \in Members /\ A \in SUBSET Users /\ row.pending.no \in 0..MaxProposal
      /\ row.pending # Absent
  BY <1>1, AbsentAssumption DEF Proposal
<1>3. CASE ~Unanimous(row, A)
  <2>1. PICK p : p = [row.pending EXCEPT !.approved = A]
    OBVIOUS
  <2>2. p \in Proposal /\ p.approved = A /\ p.no = row.pending.no
    BY <1>1, <1>2, <2>1 DEF Proposal
  <2>3. new = [row EXCEPT !.pending = p]
    BY <1>1, <1>2, <1>3, <2>1 DEF Approved, BoardRow
  <2>4. Internal(new) /\ new.mode = row.mode /\ new.pending = p
    BY <2>2, <2>3, PendingIsInternal
  <2> QED
    BY <1>1, <2>2, <2>4
<1>4. CASE Unanimous(row, A)
  <2>1. PICK mid : mid = Flipped(row, A, row.pending.what, row.pending.no)
    OBVIOUS
  <2> HIDE DEF A
  <2>2. /\ Internal(mid) /\ mid.mode = "app_envelope" /\ mid.steerers = row.steerers
        /\ mid.point = [approvers |-> A, cause |-> row.pending.what, no |-> row.pending.no]
    BY <1>2, <2>1, FlippedIsInternal
  <2>3. new = Admitted(mid, row.pending.what)
    BY <1>2, <1>4, <2>1 DEF Approved, A
  <2>4. /\ Internal(new) /\ new.mode = "app_envelope"
        /\ new.steerers = row.steerers \cup {row.pending.what[1]} /\ new.pending = Absent
        /\ new.point = [approvers |-> A, cause |-> row.pending.what, no |-> row.pending.no]
    BY <1>2, <2>2, <2>3, AdmittedIsInternal
  <2>5. A = row.steerers
    BY <1>4 DEF Unanimous, A
  <2> HIDE DEF new
  <2>6. new.point.approvers = A /\ new.point.cause = row.pending.what /\ new.point.no = row.pending.no
    BY <2>4
  <2> QED
    BY <1>1, <2>4, <2>5, <2>6 DEF new, A
<1> QED
  BY <1>3, <1>4

\* Who is removed leaves with his agents, and the creator never is.
LEMMA RemovedIsInternal ==
  ASSUME NEW row, Internal(row), NEW x \in Members, Without(row, x) # Absent
  PROVE  /\ Internal(Without(row, x)) /\ Without(row, x).mode = row.mode
         /\ Without(row, x).pending = row.pending
<1>1. PICK S, R : S = row.steerers \ {x[1]} /\ R = {a \in row.roster : a[1] # x[1]}
  OBVIOUS
<1>2. row \in BoardRow
  BY DEF Internal
<1>3. CASE x[2] # "human"
  <2>1. PICK new : new = [row EXCEPT !.roster = row.roster \ {x}]
    OBVIOUS
  <2>2. Without(row, x) = new
    BY <1>3, <2>1 DEF Without
  <2>3. /\ new.steerers = row.steerers /\ new.roster = row.roster \ {x} /\ new.pending = row.pending
        /\ new.mode = row.mode /\ new.instructions = row.instructions /\ new \in BoardRow
    BY <1>2, <2>1 DEF BoardRow
  <2>4. Owners(new.roster) \subseteq Owners(row.roster)
    BY <2>3 DEF Owners
  <2>5. new.mode = "e2e" => Derived(new.steerers, new.roster) = "e2e"
    BY <2>3 DEF Internal, Derived
  <2> QED
    BY <2>2, <2>3, <2>4, <2>5 DEF Internal
<1>4. CASE x[2] = "human"
  <2>1. PICK new : new = [row EXCEPT !.steerers = S, !.roster = R]
    OBVIOUS
  <2>2. Without(row, x) = new /\ x[1] # Creator
    BY <1>1, <1>4, <2>1 DEF Without
  <2>3. /\ new.steerers = S /\ new.roster = R /\ new.pending = row.pending
        /\ new.mode = row.mode /\ new.instructions = row.instructions
    BY <1>2, <2>1 DEF BoardRow
  <2>4. new \in BoardRow
    BY <1>1, <1>2, <2>1 DEF BoardRow
  <2>5. {Creator} \cup Owners(R) \subseteq S
    <3>1. x[1] \notin Owners(R) /\ Owners(R) \subseteq Owners(row.roster)
      BY <1>1 DEF Owners
    <3> QED
      BY <1>1, <2>2, <3>1 DEF Internal
  <2>6. new.mode = "e2e" => Derived(new.steerers, new.roster) = "e2e"
    BY <1>1, <2>3 DEF Internal, Derived
  <2> QED
    BY <2>2, <2>3, <2>4, <2>5, <2>6 DEF Internal
<1> QED
  BY <1>3, <1>4

\* The client's own downgrade.
LEMMA DowngradedIsInternal ==
  ASSUME NEW row, Internal(row), NEW A, Downgraded(row, A) # Absent
  PROVE  /\ Internal(Downgraded(row, A)) /\ Downgraded(row, A).mode = "app_envelope"
         /\ Downgraded(row, A).pending = row.pending
<1>1. PICK i, p : /\ i = IF row.instructions = "sealed" THEN "none" ELSE row.instructions
                  /\ p = [approvers |-> A, cause |-> Absent, no |-> 0]
  OBVIOUS
<1>2. PICK new : new = [row EXCEPT !.mode = "app_envelope", !.point = p, !.instructions = i]
  OBVIOUS
<1>3. row \in BoardRow
  BY DEF Internal
<1>4. Downgraded(row, A) = new /\ A = row.steerers
  BY <1>1, <1>2, <1>3 DEF Downgraded, BoardRow
<1>5. /\ new.steerers = row.steerers /\ new.roster = row.roster /\ new.pending = row.pending
      /\ new.mode = "app_envelope" /\ new.instructions = i
  BY <1>2, <1>3 DEF BoardRow
<1>6. i \in {"none", "plain"}
  BY <1>1, <1>3 DEF BoardRow, Forms
<1>7. p \in Point
  BY <1>1, <1>3, <1>4, CollabAssumption DEF BoardRow, Point
<1>8. new \in BoardRow
  BY <1>2, <1>3, <1>6, <1>7 DEF BoardRow, Modes, Forms
<1> QED
  BY <1>4, <1>5, <1>6, <1>8 DEF Internal, Fits

\* The operations that leave the members alone.
PlainOps == {"deny", "instruct", "archive", "unarchive", "rename"}

\* They keep a row sound, its mode, and its proposal unless they drop it.
LEMMA PlainIsInternal ==
  ASSUME NEW row, Internal(row), NEW op \in PlainOps, NEW u \in row.steerers, NEW x \in EditInputs(op),
         NEW no, After(row, op, u, x, no) # Absent
  PROVE  /\ Internal(After(row, op, u, x, no)) /\ After(row, op, u, x, no).mode = row.mode
         /\ After(row, op, u, x, no).pending \in {row.pending, Absent}
<1>1. row \in BoardRow
  BY DEF Internal
<1>2. CASE op = "deny"
  BY <1>2, PendingIsInternal DEF After, Denied
<1>3. CASE op = "instruct"
  <2>1. PICK i : i = IF x # "none" THEN x ELSE IF Fits(row.instructions, row.mode) THEN row.instructions ELSE "none"
    OBVIOUS
  <2>2. PICK new : new = [row EXCEPT !.instructions = i]
    OBVIOUS
  <2>3. x \in Forms \cup {"none"}
    BY <1>3 DEF EditInputs
  <2>4. After(row, op, u, x, no) = Instructed(row, u, x)
    BY <1>3 DEF After
  <2>5. After(row, op, u, x, no) = new /\ (i = "none" \/ Fits(i, row.mode)) /\ i \in Forms \cup {"none"}
    BY <1>1, <2>1, <2>2, <2>3, <2>4 DEF Instructed, BoardRow
  <2>6. /\ new.steerers = row.steerers /\ new.roster = row.roster /\ new.pending = row.pending
        /\ new.mode = row.mode /\ new.instructions = i /\ new \in BoardRow
    BY <1>1, <2>2, <2>5 DEF BoardRow
  <2> QED
    BY <2>5, <2>6 DEF Internal
<1>4. CASE op = "archive"
  <2>1. PICK new : new = [row EXCEPT !.archived = TRUE, !.pending = Absent]
    OBVIOUS
  <2>2. After(row, op, u, x, no) = new
    BY <1>4, <2>1 DEF After, Archived
  <2>3. /\ new.steerers = row.steerers /\ new.roster = row.roster /\ new.pending = Absent
        /\ new.mode = row.mode /\ new.instructions = row.instructions /\ new \in BoardRow
    BY <1>1, <2>1 DEF BoardRow
  <2> QED
    BY <2>2, <2>3 DEF Internal
<1>5. CASE op = "unarchive"
  <2>1. PICK new : new = [row EXCEPT !.archived = FALSE]
    OBVIOUS
  <2>2. After(row, op, u, x, no) = new
    BY <1>5, <2>1 DEF After, Unarchived
  <2>3. /\ new.steerers = row.steerers /\ new.roster = row.roster /\ new.pending = row.pending
        /\ new.mode = row.mode /\ new.instructions = row.instructions /\ new \in BoardRow
    BY <1>1, <2>1 DEF BoardRow
  <2> QED
    BY <2>2, <2>3 DEF Internal
<1>6. CASE op = "rename"
  <2>1. PICK names : names = [row.names EXCEPT ![x[1]] = x[2]]
    OBVIOUS
  <2>2. PICK new : new = [row EXCEPT !.names = names]
    OBVIOUS
  <2>3. x \in Lanes \X Names
    BY <1>6 DEF EditInputs
  <2>4. names \in [Lanes -> Names]
    BY <1>1, <2>1, <2>3 DEF BoardRow
  <2>5. After(row, op, u, x, no) = new
    BY <1>1, <1>6, <2>1, <2>2 DEF After, Renamed, BoardRow
  <2>6. /\ new.steerers = row.steerers /\ new.roster = row.roster /\ new.pending = row.pending
        /\ new.mode = row.mode /\ new.instructions = row.instructions /\ new \in BoardRow
    BY <1>1, <2>2, <2>4 DEF BoardRow
  <2> QED
    BY <2>5, <2>6 DEF Internal
<1> QED
  BY <1>2, <1>3, <1>4, <1>5, <1>6 DEF PlainOps

\* Whatever is asked of a sound row, the row that is written is sound, and a row
\* whose encryption ended stays that way.
LEMMA AfterIsInternal ==
  ASSUME NEW row, Internal(row), NEW op \in BoardOps, NEW u \in row.steerers, NEW x \in EditInputs(op),
         NEW no, (op = "add" /\ Opens(row, u, x)) => no \in 1..MaxProposal,
         After(row, op, u, x, no) # Absent
  PROVE  /\ Internal(After(row, op, u, x, no))
         /\ After(row, op, u, x, no).mode \in {row.mode, "app_envelope"}
<1>1. CASE op = "add"
  <2>1. PICK new : new = Asked(row, u, x, no)
    OBVIOUS
  <2>2. x \in Members /\ After(row, op, u, x, no) = new
    BY <1>1, <2>1 DEF EditInputs, After
  <2>3. (Opens(row, u, x) => no \in 1..MaxProposal) /\ Asked(row, u, x, no) # Absent
    BY <1>1, <2>1, <2>2
  <2>4. Internal(Asked(row, u, x, no))
    BY <2>2, <2>3, AskedIsInternal
  <2>5. Asked(row, u, x, no).mode \in {row.mode, "app_envelope"}
    BY <2>2, <2>3, AskedIsInternal
  <2> QED
    BY <2>1, <2>2, <2>4, <2>5
<1>2. CASE op = "approve"
  <2>1. PICK new : new = Approved(row, u)
    OBVIOUS
  <2>2. After(row, op, u, x, no) = new
    BY <1>2, <2>1 DEF After
  <2>3. Internal(new) /\ new.mode \in {row.mode, "app_envelope"}
    BY <2>1, <2>2, ApprovedIsInternal
  <2> QED
    BY <2>2, <2>3
<1>3. CASE op = "remove"
  <2>1. x \in Members /\ After(row, op, u, x, no) = Without(row, x)
    BY <1>3 DEF EditInputs, After
  <2> QED
    BY <2>1, RemovedIsInternal
<1>4. CASE op = "downgrade"
  <2>1. After(row, op, u, x, no) = Downgraded(row, x)
    BY <1>4 DEF After
  <2> QED
    BY <2>1, DowngradedIsInternal
<1>5. CASE op \in PlainOps
  BY <1>5, PlainIsInternal
<1> QED
  BY <1>1, <1>2, <1>3, <1>4, <1>5 DEF BoardOps, PlainOps

\* The proposal of the row that is written is the old one, or has the assent of
\* `u` besides; and where it ends encryption, everyone who stays has agreed.
LEMMA AfterIsBacked ==
  ASSUME NEW row, Internal(row), Backed(row), NEW op \in BoardOps, NEW u \in row.steerers,
         NEW x \in EditInputs(op), NEW no, (op = "add" /\ Opens(row, u, x)) => no \in 1..MaxProposal,
         After(row, op, u, x, no) # Absent, assents \subseteq assents',
         (op = "add" /\ Opens(row, u, x)) => <<no, u>> \in assents',
         (op = "approve" /\ row.pending \in Proposal) => <<row.pending.no, u>> \in assents'
  PROVE  /\ LET new == After(row, op, u, x, no) IN
              new.pending # Absent => \A v \in new.pending.approved : <<new.pending.no, v>> \in assents'
         /\ LET new == After(row, op, u, x, no) IN
              op \in {"add", "approve"} /\ new.mode # row.mode =>
                /\ \A v \in new.point.approvers : <<new.point.no, v>> \in assents'
                /\ new.steerers \subseteq new.point.approvers \cup {new.point.cause[1]}
<1> DEFINE new == After(row, op, u, x, no)
<1>1. CASE op = "add"
  <2>1. x \in Members /\ new = Asked(row, u, x, no)
    BY <1>1 DEF EditInputs, After
  <2> HIDE DEF new
  <2>2. /\ new.pending # Absent => Opens(row, u, x) /\ new.pending = [what |-> x, approved |-> {u}, no |-> no]
        /\ new.mode # row.mode =>
              /\ Opens(row, u, x) /\ new.point.approvers = {u} /\ new.point.no = no
              /\ new.steerers \subseteq {u} \cup {new.point.cause[1]}
    BY <1>1, <2>1, AskedIsInternal DEF new
  <2>3. new.pending # Absent => new.pending.approved = {u} /\ new.pending.no = no
    BY <2>2
  <2> QED
    BY <1>1, <2>2, <2>3 DEF new
<1>2. CASE op = "approve"
  <2>1. new = Approved(row, u)
    BY <1>2 DEF After
  <2>2. row.pending # Absent
    BY <2>1, ApprovedIsInternal, AbsentAssumption
  <2>3. \A v \in row.pending.approved \cup {u} : <<row.pending.no, v>> \in assents'
    BY <1>2, <2>1, <2>2, ApprovedIsInternal DEF Backed
  <2> QED
    BY <2>1, <2>3, ApprovedIsInternal
<1>3. CASE op = "remove"
  <2>1. x \in Members /\ new = Without(row, x)
    BY <1>3 DEF EditInputs, After
  <2> QED
    BY <1>3, <2>1, RemovedIsInternal DEF Backed
<1>4. CASE op = "downgrade"
  <2>1. new = Downgraded(row, x)
    BY <1>4 DEF After
  <2> QED
    BY <1>4, <2>1, DowngradedIsInternal DEF Backed
<1>5. CASE op \in PlainOps
  BY <1>5, PlainIsInternal DEF Backed, PlainOps
<1> QED
  BY <1>1, <1>2, <1>3, <1>4, <1>5 DEF BoardOps, PlainOps

\* Of an archived board only its opening is accepted, and it changes nothing else.
LEMMA AfterOpensOnly ==
  ASSUME NEW row, NEW op \in BoardOps, NEW u, NEW x, NEW no, Accepts(row, op),
         After(row, op, u, x, no) # Absent
  PROVE  row.archived => After(row, op, u, x, no) = [row EXCEPT !.archived = FALSE]
<1>1. row.archived => op = "unarchive"
  BY DEF Accepts, After, Archived
<1>2. op = "unarchive" => After(row, op, u, x, no) = Unarchived(row)
  BY DEF After
<1> QED
  BY <1>1, <1>2 DEF Unarchived

-----------------------------------------------------------------------------
(* Requests *)

Shaped(q) == DOMAIN q = {"op", "pc", "held", "stale", "mem"}
AllShaped == \A p \in Reqs : Shaped(req[p])

\* In request p nothing changes, but that more of what it holds may be stale.
Aside(p) ==
  /\ Shaped(req'[p]) /\ req'[p].op = req[p].op /\ req'[p].pc = req[p].pc
  /\ req'[p].held = req[p].held /\ req'[p].mem = req[p].mem
  /\ req[p].stale \subseteq req'[p].stale

\* So it is in all requests but r, and those that hold a row of K hold it stale.
Elsewhere(r, K) ==
  \A p \in Reqs : p # r => Aside(p) /\ req'[p].stale = req[p].stale \cup (req[p].held \cap K)

\* What a write does to requests.
LEMMA Writing ==
  ASSUME AllShaped, NEW r \in Reqs, NEW q, NEW K, Writes(r, q, K)
  PROVE  req'[r] = q /\ Elsewhere(r, K)
<1>1. req'[r] = q
  BY DEF Writes
<1>2. ASSUME NEW p \in Reqs, p # r
      PROVE  Aside(p) /\ req'[p].stale = req[p].stale \cup (req[p].held \cap K)
  <2>1. req'[p] = [req[p] EXCEPT !.stale = req[p].stale \cup (req[p].held \cap K)]
    BY <1>2 DEF Writes
  <2> QED
    BY <2>1 DEF AllShaped, Aside, Shaped
<1> QED
  BY <1>1, <1>2 DEF Elsewhere

\* A request that begins.
LEMMA Opening ==
  ASSUME AllShaped, NEW r \in Reqs, NEW op, NEW pc, NEW held, NEW mem, NEW K,
         Writes(r, Begin(op, pc, held, mem), K)
  PROVE  /\ Shaped(req'[r]) /\ req'[r].op = op /\ req'[r].pc = pc /\ req'[r].held = held
         /\ req'[r].stale = {} /\ req'[r].mem = mem /\ Elsewhere(r, K)
<1>1. /\ Shaped(Begin(op, pc, held, mem)) /\ Begin(op, pc, held, mem).op = op
      /\ Begin(op, pc, held, mem).pc = pc /\ Begin(op, pc, held, mem).held = held
      /\ Begin(op, pc, held, mem).stale = {} /\ Begin(op, pc, held, mem).mem = mem
  BY DEF Shaped, Begin
<1> QED
  BY <1>1, Writing

\* A request that goes on.
LEMMA Advancing ==
  ASSUME AllShaped, NEW r \in Reqs, NEW pc, NEW held, NEW mem, NEW K,
         Writes(r, On(req[r], pc, held, mem), K)
  PROVE  /\ Shaped(req'[r]) /\ req'[r].op = req[r].op /\ req'[r].pc = pc
         /\ req'[r].held = req[r].held \cup held
         /\ req'[r].stale = req[r].stale /\ req'[r].mem = mem /\ Elsewhere(r, K)
<1>1. PICK q : q = On(req[r], pc, held, mem)
  OBVIOUS
<1>2. /\ Shaped(q) /\ q.op = req[r].op /\ q.pc = pc /\ q.held = req[r].held \cup held
      /\ q.stale = req[r].stale /\ q.mem = mem
  BY <1>1 DEF AllShaped, Shaped, On
<1> QED
  BY <1>1, <1>2, Writing

\* A request that is answered.
LEMMA Closing ==
  ASSUME AllShaped, NEW r \in Reqs, NEW K, Writes(r, Idle, K)
  PROVE  Shaped(req'[r]) /\ req'[r].op = "none" /\ Elsewhere(r, K)
<1>1. Shaped(Idle) /\ Idle.op = "none"
  BY DEF Shaped, Idle
<1> QED
  BY <1>1, Writing

-----------------------------------------------------------------------------
(* What a request relies on *)

RowOps  == BoardOps \cup {"attach", "create"}   \* those that write the board
CardOps == {"learn", "card", "lane", "check"}   \* those that write what is filed on it
ReadOps == {"list", "page"}                     \* those that show it
FreeOps == {"close", "delete", "reply", "unseal"} \* those of its cards that do not look at it

\* There is one board, so nobody works on it while it is created.
OneBoard(r) ==
  /\ req[r].op \in RowOps \cup CardOps \cup ReadOps \cup FreeOps \cup {"none"}
  /\ req[r].op \notin {"none", "create"} \cup FreeOps => board # Absent
  /\ req[r].op = "create" => board = Absent

\* The row it writes is sound.
RowIsSound(r) == req[r].op \in RowOps => Internal(req[r].mem.row) /\ Backed(req[r].mem.row)

\* A flip it writes has the assent of all who stay.
FlipIsSound(r) ==
  req[r].op \in {"add", "approve"} /\ req[r].mem.flips => FlipBacked(req[r].mem.row)

\* A board is created with the form of files that fits it, after its memory.
CreatesWell(r) ==
  req[r].op = "create" =>
    /\ "plain" \in req[r].mem.files => req[r].mem.row.mode = "app_envelope"
    /\ req[r].pc = "commit" => memoryBox = req[r].mem.row.steerers

\* While the board it read is not stale, what it writes succeeds that board.
Succeeds(row, m) ==
  /\ m.came = m.row.steerers \ row.steerers /\ m.left = row.steerers \ m.row.steerers
  /\ m.row.mode \in {row.mode, "app_envelope"}
  /\ row.archived => m.row = [row EXCEPT !.archived = FALSE]
Attaches(row, m) ==
  m.row = row /\ m.form \in Stored /\ (m.form = "plain" => row.mode = "app_envelope")
IsCurrent(r) ==
  /\ req[r].op \in BoardOps \cup {"attach"} \cup CardOps => <<"board">> \in req[r].held
  /\ <<"board">> \notin req[r].stale =>
       /\ req[r].op \in BoardOps => Succeeds(board, req[r].mem)
       /\ req[r].op = "attach" => Attaches(board, req[r].mem)
       /\ req[r].op \in {"attach"} \cup CardOps => ~board.archived

Stands(r) ==
  OneBoard(r) /\ RowIsSound(r) /\ FlipIsSound(r) /\ CreatesWell(r) /\ IsCurrent(r)

\* The board is sound, and while no update of it was lost those who steer it have
\* it in their list and its memory, and it has files in the clear only in the clear.
BoardIsSound == board # Absent => Internal(board) /\ Backed(board)
NothingLost ==
  board # Absent /\ <<"board">> \notin overwritten =>
    /\ userBoards = board.steerers /\ userBoards \subseteq memoryBox
    /\ files["plain"] > 0 => board.mode = "app_envelope"

BoardInv ==
  /\ AllShaped /\ (\A r \in Reqs : Stands(r))
  /\ \A r, p \in Reqs : req[r].op = "create" /\ req[p].op = "create" => r = p
  /\ BoardIsSound /\ NothingLost
  /\ files \in [Stored -> Nat] /\ proposed \in Nat

-----------------------------------------------------------------------------
(* Preservation *)

\* A request that ends relies on nothing.
LEMMA IdleStands ==
  ASSUME NEW r \in Reqs, req'[r].op \in {"none"} \cup FreeOps
  PROVE  Stands(r)'
BY DEF Stands, OneBoard, RowIsSound, FlipIsSound, CreatesWell, IsCurrent, RowOps, CardOps, BoardOps, FreeOps

\* What is approved stays approved.
LEMMA BackedStays ==
  ASSUME NEW row, Backed(row), assents \subseteq assents'
  PROVE  row.pending # Absent => \A v \in row.pending.approved : <<row.pending.no, v>> \in assents'
BY DEF Backed

\* The others rely on the same, whether the board is left alone or is written and
\* marked as stale for all who hold it.
LEMMA OthersStand ==
  ASSUME NEW p \in Reqs, Stands(p), Aside(p), assents \subseteq assents',
         req[p].op = "create" => board' = board /\ memoryBox' = memoryBox,
         \/ board' = board
         \/ /\ board # Absent /\ board' # Absent
            /\ <<"board">> \in req[p].held => <<"board">> \in req'[p].stale
  PROVE  Stands(p)'
<1>1. OneBoard(p)'
  BY DEF Stands, OneBoard, Aside, RowOps, BoardOps, CardOps, ReadOps, FreeOps
<1>2. RowIsSound(p)'
  <2>1. PICK row : row = req[p].mem.row
    OBVIOUS
  <2>2. req[p].op \in RowOps => Internal(row) /\ Backed(row)
    BY <2>1 DEF Stands, RowIsSound
  <2>3. req'[p].op = req[p].op /\ req'[p].mem.row = row
    BY <2>1 DEF Aside
  <2> QED
    BY <2>2, <2>3, BackedStays DEF RowIsSound, Backed
<1>3. FlipIsSound(p)'
  BY DEF Stands, FlipIsSound, FlipBacked, Aside
<1>4. CreatesWell(p)'
  BY DEF Stands, CreatesWell, Aside
<1>5. IsCurrent(p)'
  BY DEF Stands, IsCurrent, Aside, Succeeds, Attaches
<1> QED
  BY <1>1, <1>2, <1>3, <1>4, <1>5 DEF Stands

\* A request that only looks, or is about to write what is filed on the board,
\* when the board is left alone.
Quietly(r) ==
  /\ req'[r].op \in CardOps \cup ReadOps \cup FreeOps \cup {"none"}
  /\ req'[r].op \in CardOps \cup ReadOps => board # Absent
  /\ req'[r].op \in CardOps =>
       <<"board">> \in req'[r].held /\ (<<"board">> \notin req'[r].stale => ~board.archived)

LEMMA QuietSteps ==
  ASSUME BoardInv, NEW r \in Reqs, Quietly(r), Shaped(req'[r]), NEW K, Elsewhere(r, K),
         UNCHANGED <<board, userBoards, memoryBox, files, proposed, assents>>,
         overwritten \subseteq overwritten'
  PROVE  BoardInv'
<1>1. ASSUME NEW p \in Reqs
      PROVE  Shaped(req'[p]) /\ Stands(p)'
  <2>1. CASE p # r
    <3>1. Aside(p) /\ Stands(p)
      BY <2>1 DEF Elsewhere, BoardInv
    <3> QED
      BY <3>1, OthersStand DEF Aside
  <2>2. CASE p = r
    BY <2>2 DEF Quietly, Stands, OneBoard, RowIsSound, FlipIsSound, CreatesWell, IsCurrent, RowOps,
       CardOps, ReadOps, FreeOps, BoardOps
  <2> QED
    BY <2>1, <2>2
<1>2. \A q, p \in Reqs : req'[q].op = "create" /\ req'[p].op = "create" => q = p
  BY DEF Elsewhere, Aside, BoardInv, Quietly, CardOps, ReadOps, FreeOps
<1>3. BoardIsSound'
  BY BackedStays DEF BoardInv, BoardIsSound, Backed, Internal
<1>4. NothingLost'
  BY DEF BoardInv, NothingLost
<1> QED
  BY <1>1, <1>2, <1>3, <1>4 DEF BoardInv, AllShaped

\* A request that looks at the board and begins quietly.
LEMMA QuietStarts ==
  ASSUME BoardInv, NEW r \in Reqs, NEW op \in CardOps \cup ReadOps \cup FreeOps, NEW pc, NEW held, NEW mem,
         Reads(r, Begin(op, pc, held, mem)), UNCHANGED <<boardRows, overwritten>>,
         op \in CardOps \cup ReadOps => board # Absent,
         op \in CardOps => <<"board">> \in held /\ Accepts(board, op)
  PROVE  BoardInv'
<1>1. /\ Shaped(req'[r]) /\ req'[r].op = op /\ req'[r].held = held /\ Elsewhere(r, {})
  BY Opening DEF BoardInv, Reads
<1>2. Quietly(r)
  BY <1>1 DEF Quietly, Accepts, CardOps
<1> QED
  BY <1>1, <1>2, QuietSteps DEF boardRows

\* One that goes on.
LEMMA QuietlyOn ==
  ASSUME BoardInv, NEW r \in Reqs, req[r].op \in CardOps \cup ReadOps \cup FreeOps, NEW pc, NEW held, NEW mem,
         NEW K, Writes(r, On(req[r], pc, held, mem), K),
         UNCHANGED <<board, userBoards, memoryBox, files, proposed, assents>>,
         overwritten \subseteq overwritten'
  PROVE  BoardInv'
<1>1. AllShaped /\ Stands(r)
  BY DEF BoardInv
<1>2. /\ Shaped(req'[r]) /\ req'[r].op = req[r].op /\ req'[r].held = req[r].held \cup held
      /\ req'[r].stale = req[r].stale /\ Elsewhere(r, K)
  BY <1>1, Advancing
<1>3. Quietly(r)
  BY <1>1, <1>2 DEF Quietly, Stands, OneBoard, IsCurrent, CardOps, ReadOps, FreeOps
<1> QED
  BY <1>2, <1>3, QuietSteps

\* One that ends.
LEMMA QuietEnds ==
  ASSUME BoardInv, NEW r \in Reqs, NEW K, Writes(r, Idle, K),
         UNCHANGED <<board, userBoards, memoryBox, files, proposed, assents>>,
         overwritten \subseteq overwritten'
  PROVE  BoardInv'
<1>1. Shaped(req'[r]) /\ req'[r].op = "none" /\ Elsewhere(r, K)
  BY Closing DEF BoardInv
<1>2. Quietly(r)
  BY <1>1 DEF Quietly, CardOps, ReadOps
<1> QED
  BY <1>1, <1>2, QuietSteps

\* The steps that leave the board alone: of cards, learnings and deletions,
LEMMA CardsBeginQuietly ==
  ASSUME BoardInv, NEW r \in Reqs, NEW u,
         \/ \E k : LearnStart(r, u, k)
         \/ \E text, to : CardStart(r, u, text, to)
         \/ \E c, d, l, w : LaneStart(r, u, c, l, w, d)
         \/ \E c : CheckStart(r, u, c) \/ CloseStart(r, u, c) \/ DeleteStart(r, u, c)
         \/ \E c : ReplyStart(r, u, c) \/ UnsealStart(r, u, c)
  PROVE  BoardInv'
<1>1. ASSUME NEW k, LearnStart(r, u, k)
      PROVE  BoardInv'
  BY <1>1, QuietStarts DEF LearnStart, CardOps
<1>2. ASSUME NEW text, NEW to, CardStart(r, u, text, to)
      PROVE  BoardInv'
  BY <1>2, QuietStarts DEF CardStart, CardOps
<1>3. ASSUME NEW c, NEW d, NEW l, NEW w, LaneStart(r, u, c, l, w, d)
      PROVE  BoardInv'
  <2>1. PICK pc, mem : Reads(r, Begin("lane", pc, {<<"board">>, <<"card", c>>}, mem))
    BY <1>3, Zenon DEF LaneStart
  <2>2. board # Absent /\ Accepts(board, "lane") /\ UNCHANGED <<boardRows, overwritten>>
    BY <1>3 DEF LaneStart
  <2> QED
    BY <2>1, <2>2, QuietStarts DEF CardOps
<1>4. ASSUME NEW c, CheckStart(r, u, c)
      PROVE  BoardInv'
  <2>1. PICK mem : Reads(r, Begin("check", "save", {<<"board">>, <<"card", c>>}, mem))
    BY <1>4, Zenon DEF CheckStart
  <2>2. board # Absent /\ Accepts(board, "check") /\ UNCHANGED <<boardRows, overwritten>>
    BY <1>4 DEF CheckStart
  <2> QED
    BY <2>1, <2>2, QuietStarts DEF CardOps
<1>5. ASSUME NEW c, CloseStart(r, u, c)
      PROVE  BoardInv'
  <2>1. PICK mem : Reads(r, Begin("close", "save", {<<"card", c>>}, mem))
    BY <1>5, Zenon DEF CloseStart
  <2>2. UNCHANGED <<boardRows, overwritten>>
    BY <1>5 DEF CloseStart
  <2> QED
    BY <2>1, <2>2, QuietStarts DEF CardOps, ReadOps, FreeOps
<1>6. ASSUME NEW c, DeleteStart(r, u, c)
      PROVE  BoardInv'
  BY <1>6, QuietStarts DEF DeleteStart, CardOps, ReadOps, FreeOps
<1>7. ASSUME NEW c, ReplyStart(r, u, c) \/ UnsealStart(r, u, c)
      PROVE  BoardInv'
  <2>1. PICK op, mem : op \in {"reply", "unseal"} /\ Reads(r, Begin(op, "inbox", {<<"card", c>>}, mem))
    <3>1. CASE ReplyStart(r, u, c)
      BY <3>1 DEF ReplyStart
    <3>2. CASE UnsealStart(r, u, c)
      BY <3>2 DEF UnsealStart
    <3> QED
      BY <1>7, <3>1, <3>2
  <2>2. UNCHANGED <<boardRows, overwritten>>
    BY <1>7 DEF ReplyStart, UnsealStart
  <2> QED
    BY <2>1, <2>2, QuietStarts DEF CardOps, ReadOps, FreeOps
<1> QED
  BY <1>1, <1>2, <1>3, <1>4, <1>5, <1>6, <1>7

\* their later steps,
LEMMA CardsGoOnQuietly ==
  ASSUME BoardInv, NEW r \in Reqs,
         \/ LearnMemory(r) \/ LearnSave(r) \/ CardCommit(r) \/ LaneSiblings(r) \/ CardSave(r)
         \/ (\E turns : ReplyInbox(r, turns)) \/ UnsealInbox(r) \/ DeleteBoxes(r) \/ DeleteBody(r)
  PROVE  BoardInv'
<1>1. overwritten \subseteq overwritten'
  BY DEF LearnMemory, LearnSave, CardCommit, LaneSiblings, CardSave, ReplyInbox, UnsealInbox,
     DeleteBoxes, DeleteBody, Clobbers
<1>2. UNCHANGED <<board, userBoards, memoryBox, files, proposed, assents>>
  BY DEF LearnMemory, LearnSave, CardCommit, LaneSiblings, CardSave, ReplyInbox, UnsealInbox,
     DeleteBoxes, DeleteBody, boardRows
<1>3. req[r].op \in CardOps \cup ReadOps \cup FreeOps
  BY DEF LearnMemory, LearnSave, CardCommit, LaneSiblings, CardSave, ReplyInbox, UnsealInbox,
     DeleteBoxes, DeleteBody, At, CardOps, ReadOps, FreeOps, Filing, Aloof
<1>4. \/ \E pc, held, mem : Writes(r, On(req[r], pc, held, mem), {})
      \/ \E K : Writes(r, Idle, K)
  BY Zenon DEF LearnMemory, LearnSave, CardCommit, LaneSiblings, CardSave, ReplyInbox, UnsealInbox,
     DeleteBoxes, DeleteBody, Reads, Leaves
<1> QED
  BY <1>1, <1>2, <1>3, <1>4, QuietlyOn, QuietEnds

\* and of views.
LEMMA ViewsAreQuiet ==
  ASSUME BoardInv, NEW r \in Reqs,
         \/ \E op \in Views : \E u, a : ViewStart(r, op, u, a)
         \/ ViewStep(r) \/ ViewNotes(r)
  PROVE  BoardInv'
<1>1. UNCHANGED <<boardRows, overwritten>>
  BY DEF ViewStart, ViewStep, ViewCard, ViewNotes, ViewFiles, ViewAnswer
<1>2. CASE \E op \in Views : \E u, a : ViewStart(r, op, u, a)
  <2>1. PICK op, u, a : op \in Views /\ ViewStart(r, op, u, a)
    BY <1>2
  <2>2. PICK mem : Reads(r, Begin(op, "scan", {}, mem)) /\ board # Absent
    BY <2>1, Zenon DEF ViewStart
  <2> QED
    BY <1>1, <2>1, <2>2, QuietStarts, ViewAssumption DEF CardOps, ReadOps
<1>3. CASE ViewStep(r) \/ ViewNotes(r)
  <2>1. req[r].op \in ReadOps
    BY <1>3, ViewAssumption DEF ViewStep, ViewCard, ViewNotes, ViewFiles, ViewAnswer, At, ReadOps
  <2>2. \/ \E pc, mem : Writes(r, On(req[r], pc, {}, mem), {})
        \/ Writes(r, Idle, {})
    BY <1>3, Zenon DEF ViewStep, ViewCard, ViewNotes, ViewFiles, ViewAnswer, Reads, Answer
  <2> QED
    BY <1>1, <2>1, <2>2, QuietlyOn, QuietEnds DEF boardRows
<1> QED
  BY <1>2, <1>3

\* A request of the board itself begins: nothing but the requests, the proposals
\* that were made and the assents to them change.
LEMMA BoardBegins ==
  ASSUME BoardInv, NEW r \in Reqs, Stands(r)', Shaped(req'[r]), Elsewhere(r, {}),
         UNCHANGED <<board, userBoards, memoryBox, files, overwritten>>,
         assents \subseteq assents', proposed' \in Nat,
         req'[r].op = "create" => \A p \in Reqs : req[p].op # "create" \/ p = r
  PROVE  BoardInv'
<1>1. ASSUME NEW p \in Reqs, p # r
      PROVE  Shaped(req'[p]) /\ Stands(p)' /\ req'[p].op = req[p].op
  <2>1. Aside(p) /\ Stands(p)
    BY <1>1 DEF Elsewhere, BoardInv
  <2> QED
    BY <2>1, OthersStand DEF Aside
<1>2. \A q, p \in Reqs : req'[q].op = "create" /\ req'[p].op = "create" => q = p
  BY <1>1 DEF BoardInv
<1>3. BoardIsSound'
  BY BackedStays DEF BoardInv, BoardIsSound, Backed, Internal
<1>4. NothingLost'
  BY DEF BoardInv, NothingLost
<1> QED
  BY <1>1, <1>2, <1>3, <1>4 DEF BoardInv, AllShaped

\* A board is asked for.
LEMMA CreateBegins ==
  ASSUME BoardInv, NEW r \in Reqs, NEW S \in SUBSET Users, NEW R \in SUBSET Agents,
         NEW f \in Forms \cup {"none"}, NEW F \in SUBSET Stored, CreateStart(r, S, R, f, F)
  PROVE  BoardInv'
<1>1. PICK row, mem : row = Created(S, R, f) /\ mem = [row |-> row, files |-> F]
  OBVIOUS
<1>2. mem.row = row /\ mem.files = F
  BY <1>1
<1>3. /\ Reads(r, Begin("create", "memory", {}, mem)) /\ board = Absent
      /\ f = "none" \/ Fits(f, row.mode)
      /\ \A g \in F : Files(g, row.mode)
      /\ \A q \in Reqs : req[q].op # "create"
      /\ UNCHANGED <<boardRows, overwritten>>
  BY <1>1 DEF CreateStart
<1>4. Internal(row) /\ row.pending = Absent
  BY <1>1, <1>3, CreatedIsInternal
<1>5. "plain" \in F => row.mode = "app_envelope"
  BY <1>3, <1>4 DEF Files, Fits, Internal, BoardRow, Modes
<1>6. /\ Shaped(req'[r]) /\ req'[r].op = "create" /\ req'[r].pc = "memory" /\ req'[r].mem = mem
      /\ Elsewhere(r, {})
  BY <1>3, Opening DEF BoardInv, Reads
<1>7. Stands(r)'
  <2>1. OneBoard(r)'
    BY <1>3, <1>6 DEF OneBoard, RowOps, boardRows
  <2>2. RowIsSound(r)'
    BY <1>2, <1>4, <1>6 DEF RowIsSound, Backed
  <2>3. FlipIsSound(r)' /\ CreatesWell(r)' /\ IsCurrent(r)'
    BY <1>2, <1>5, <1>6 DEF FlipIsSound, CreatesWell, IsCurrent, BoardOps, CardOps
  <2> QED
    BY <2>1, <2>2, <2>3 DEF Stands
<1>8. proposed' \in Nat /\ assents' = assents
  BY <1>3 DEF boardRows, BoardInv
<1> QED
  BY <1>3, <1>6, <1>7, <1>8, BoardBegins DEF boardRows

\* While a board is created, no other request is about a board.
LEMMA NobodyElse ==
  ASSUME BoardInv, NEW r \in Reqs, req[r].op = "create", NEW p \in Reqs, p # r
  PROVE  req[p].op \in {"none"} \cup FreeOps
BY DEF BoardInv, Stands, OneBoard

\* Its memory is there first.
LEMMA CreateGoesOn ==
  ASSUME BoardInv, NEW r \in Reqs, CreateMemory(r)
  PROVE  BoardInv'
<1>1. req[r].op = "create" /\ Stands(r) /\ board = Absent
  BY DEF CreateMemory, At, BoardInv, Stands, OneBoard
<1>2. /\ Shaped(req'[r]) /\ req'[r].op = "create" /\ req'[r].pc = "commit" /\ req'[r].mem = req[r].mem
      /\ Elsewhere(r, {})
  <2>1. PICK pc, held, m, K : pc = "commit" /\ held = {} /\ m = req[r].mem /\ K = {}
    OBVIOUS
  <2>2. AllShaped /\ Writes(r, On(req[r], pc, held, m), K)
    BY <2>1 DEF CreateMemory, BoardInv, Reads
  <2>3. AllShaped
    BY <2>2
  <2>4. Writes(r, On(req[r], pc, held, m), K)
    BY <2>2
  <2>5. Shaped(req'[r]) /\ Elsewhere(r, K)
    BY <2>3, <2>4, Advancing
  <2>6. req'[r].op = req[r].op /\ req'[r].pc = pc /\ req'[r].mem = m
    BY <2>3, <2>4, Advancing
  <2> QED
    BY <1>1, <2>1, <2>5, <2>6
<1>3. UNCHANGED <<board, userBoards, files, proposed, assents, overwritten>>
  BY DEF CreateMemory
<1>4. Stands(r)'
  <2>1. OneBoard(r)'
    BY <1>1, <1>2, <1>3 DEF Stands, OneBoard, RowOps, FreeOps
  <2>2. RowIsSound(r)'
    <3>1. PICK row : row = req[r].mem.row
      OBVIOUS
    <3>2. Internal(row) /\ Backed(row) /\ req'[r].mem.row = row
      BY <1>1, <1>2, <3>1 DEF Stands, RowIsSound, RowOps
    <3> QED
      BY <1>3, <3>2 DEF RowIsSound, Backed
  <2>3. CreatesWell(r)'
    BY <1>1, <1>2 DEF Stands, CreatesWell, CreateMemory
  <2>4. FlipIsSound(r)' /\ IsCurrent(r)'
    BY <1>2 DEF FlipIsSound, IsCurrent, BoardOps, CardOps
  <2> QED
    BY <2>1, <2>2, <2>3, <2>4 DEF Stands
<1>5. ASSUME NEW p \in Reqs, p # r
      PROVE  Shaped(req'[p]) /\ Stands(p)' /\ req'[p].op = req[p].op
  <2>1. Aside(p) /\ req[p].op \in {"none"} \cup FreeOps
    BY <1>1, <1>2, <1>5, NobodyElse DEF Elsewhere
  <2> QED
    BY <2>1, IdleStands DEF Aside
<1>6. \A q, p \in Reqs : req'[q].op = "create" /\ req'[p].op = "create" => q = p
  BY <1>1, <1>5 DEF BoardInv
<1>7. BoardIsSound' /\ NothingLost'
  BY <1>1, <1>3 DEF BoardIsSound, NothingLost
<1> QED
  BY <1>2, <1>3, <1>4, <1>5, <1>6, <1>7 DEF BoardInv, AllShaped

\* Then the board.
LEMMA CreateEnds ==
  ASSUME BoardInv, NEW r \in Reqs, CreateCommit(r)
  PROVE  BoardInv'
<1>1. PICK row, mem : mem = req[r].mem /\ row = mem.row
  OBVIOUS
<1>2. req[r].op = "create" /\ req[r].pc = "commit" /\ Stands(r)
  BY DEF CreateCommit, At, BoardInv
<1>3. /\ Internal(row) /\ Backed(row) /\ memoryBox = row.steerers
      /\ "plain" \in mem.files => row.mode = "app_envelope"
  BY <1>1, <1>2 DEF Stands, RowIsSound, CreatesWell, RowOps
<1>4. /\ board' = row /\ userBoards' = row.steerers
      /\ files' = [f \in Stored |-> IF f \in mem.files THEN 1 ELSE 0]
      /\ UNCHANGED <<memoryBox, proposed, assents, overwritten>>
  BY <1>1 DEF CreateCommit
<1>5. Shaped(req'[r]) /\ req'[r].op = "none" /\ Elsewhere(r, {<<"board">>})
  BY Closing DEF CreateCommit, Leaves, BoardInv
<1>6. ASSUME NEW p \in Reqs
      PROVE  Shaped(req'[p]) /\ Stands(p)' /\ req'[p].op # "create"
  <2>1. CASE p # r
    <3>1. Aside(p) /\ req[p].op \in {"none"} \cup FreeOps
      BY <1>2, <1>5, <2>1, NobodyElse DEF Elsewhere
    <3> QED
      BY <3>1, IdleStands DEF Aside, FreeOps
  <2>2. CASE p = r
    BY <1>5, <2>2, IdleStands
  <2> QED
    BY <2>1, <2>2
<1>7. BoardIsSound'
  BY <1>3, <1>4 DEF BoardIsSound, Backed
<1>8. files' \in [Stored -> Nat] /\ (files'["plain"] > 0 => row.mode = "app_envelope")
  BY <1>3, <1>4 DEF Stored, Forms
<1>9. NothingLost'
  BY <1>3, <1>4, <1>8 DEF NothingLost
<1> QED
  BY <1>4, <1>6, <1>7, <1>8, <1>9 DEF BoardInv, AllShaped

\* A change of the board is decided on the row as it is read.
LEMMA EditBegins ==
  ASSUME BoardInv, NEW r \in Reqs, NEW op \in BoardOps, NEW u \in Users, NEW x \in EditInputs(op),
         EditStart(r, op, u, x)
  PROVE  BoardInv'
<1>1. PICK row, no, mem :
        /\ row = After(board, op, u, x, proposed + 1)
        /\ no = IF op = "approve" THEN board.pending.no
                ELSE IF op = "add" /\ Opens(board, u, x) THEN proposed + 1 ELSE 0
        /\ mem = [row |-> row, flips |-> board.mode # row.mode,
                  came |-> row.steerers \ board.steerers, left |-> board.steerers \ row.steerers]
  OBVIOUS
<1>2. /\ mem.row = row /\ mem.flips = (board.mode # row.mode)
      /\ mem.came = row.steerers \ board.steerers /\ mem.left = board.steerers \ row.steerers
  BY <1>1
<1>3. /\ board # Absent /\ u \in board.steerers /\ Accepts(board, op) /\ row # Absent /\ no <= MaxProposal
      /\ proposed' = IF no = proposed + 1 THEN no ELSE proposed
      /\ assents' = IF no = 0 THEN assents ELSE assents \cup {<<no, u>>}
      /\ Reads(r, Begin(op, "save", {<<"board">>}, mem))
      /\ UNCHANGED <<board, userBoards, memoryBox, files, overwritten>>
  BY <1>1, Zenon DEF EditStart
<1>4. Internal(board) /\ Backed(board) /\ board \in BoardRow /\ proposed \in Nat /\ AllShaped
  BY <1>3 DEF BoardInv, BoardIsSound, Internal
<1>5. assents \subseteq assents' /\ proposed' \in Nat
  BY <1>3, <1>4
<1>6. (op = "add" /\ Opens(board, u, x)) =>
        proposed + 1 \in 1..MaxProposal /\ <<proposed + 1, u>> \in assents'
  BY <1>1, <1>3, <1>4, CollabAssumption
<1>7. (op = "approve" /\ board.pending \in Proposal) => <<board.pending.no, u>> \in assents'
  BY <1>1, <1>3 DEF Proposal
<1>8. Internal(row) /\ row.mode \in {board.mode, "app_envelope"}
  BY <1>1, <1>3, <1>4, <1>6, AfterIsInternal
<1>9. /\ row.pending # Absent => \A v \in row.pending.approved : <<row.pending.no, v>> \in assents'
      /\ op \in {"add", "approve"} /\ row.mode # board.mode =>
           /\ \A v \in row.point.approvers : <<row.point.no, v>> \in assents'
           /\ row.steerers \subseteq row.point.approvers \cup {row.point.cause[1]}
  <2>1. After(board, op, u, x, proposed + 1) # Absent
    BY <1>1, <1>3
  <2>2. (op = "add" /\ Opens(board, u, x)) => proposed + 1 \in 1..MaxProposal
    BY <1>6
  <2>3. (op = "add" /\ Opens(board, u, x)) => <<proposed + 1, u>> \in assents'
    BY <1>6
  <2> HIDE <1>6
  <2> QED
    BY <1>1, <1>3, <1>4, <1>5, <1>7, <2>1, <2>2, <2>3, AfterIsBacked
<1>10. board.archived => row = [board EXCEPT !.archived = FALSE]
  <2>1. PICK no1 : no1 = proposed + 1
    OBVIOUS
  <2>2. Accepts(board, op)
    BY <1>3
  <2>3. row = After(board, op, u, x, no1)
    BY <1>1, <2>1
  <2>4. After(board, op, u, x, no1) # Absent
    BY <1>3, <2>3
  <2>5. board.archived => After(board, op, u, x, no1) = [board EXCEPT !.archived = FALSE]
    BY <2>2, <2>4, AfterOpensOnly
  <2> QED
    BY <2>3, <2>5
<1>11. /\ Shaped(req'[r]) /\ req'[r].op = op /\ req'[r].pc = "save" /\ req'[r].held = {<<"board">>}
       /\ req'[r].mem = mem /\ Elsewhere(r, {})
  BY <1>3, <1>4, Opening DEF Reads
<1>12. Stands(r)'
  <2>1. OneBoard(r)'
    BY <1>3, <1>11 DEF OneBoard, RowOps, BoardOps
  <2>2. RowIsSound(r)'
    BY <1>2, <1>8, <1>9, <1>11 DEF RowIsSound, Backed
  <2>3. FlipIsSound(r)'
    BY <1>2, <1>9, <1>11 DEF FlipIsSound, FlipBacked
  <2>4. CreatesWell(r)'
    BY <1>11 DEF CreatesWell, BoardOps
  <2>5. IsCurrent(r)'
    BY <1>2, <1>3, <1>8, <1>10, <1>11 DEF IsCurrent, Succeeds, BoardOps, CardOps
  <2> QED
    BY <2>1, <2>2, <2>3, <2>4, <2>5 DEF Stands
<1> QED
  BY <1>3, <1>5, <1>11, <1>12, BoardBegins DEF BoardOps

\* Artifacts come with the board as it was read.
LEMMA AttachBegins ==
  ASSUME BoardInv, NEW r \in Reqs, NEW u \in Users, NEW a \in Inputs, AttachStart(r, u, a)
  PROVE  BoardInv'
<1>1. PICK mem : mem = [row |-> board, form |-> Formed(a)]
  OBVIOUS
<1>2. mem.row = board /\ mem.form = Formed(a)
  BY <1>1
<1>3. /\ board # Absent /\ ~board.archived /\ Files(Formed(a), board.mode) /\ Formed(a) # Absent
      /\ Reads(r, Begin("attach", "save", {<<"board">>}, mem))
      /\ UNCHANGED <<boardRows, overwritten>>
  BY <1>1 DEF AttachStart, Accepts
<1>4. Internal(board) /\ Backed(board) /\ board \in BoardRow
  BY <1>3 DEF BoardInv, BoardIsSound, Internal
<1>5. Formed(a) \in Stored /\ (Formed(a) = "plain" => board.mode = "app_envelope")
  BY <1>3, <1>4 DEF Formed, Stored, Forms, Files, Fits, BoardRow, Modes
<1>6. /\ Shaped(req'[r]) /\ req'[r].op = "attach" /\ req'[r].held = {<<"board">>}
      /\ req'[r].mem = mem /\ Elsewhere(r, {})
  BY <1>3, Opening DEF BoardInv, Reads
<1>7. Stands(r)'
  <2>1. OneBoard(r)'
    BY <1>3, <1>6 DEF OneBoard, RowOps, boardRows
  <2>2. RowIsSound(r)'
    BY <1>2, <1>3, <1>4, <1>6 DEF RowIsSound, Backed, boardRows
  <2>3. FlipIsSound(r)' /\ CreatesWell(r)'
    BY <1>6 DEF FlipIsSound, CreatesWell
  <2>4. IsCurrent(r)'
    BY <1>2, <1>3, <1>5, <1>6 DEF IsCurrent, Attaches, BoardOps, boardRows
  <2> QED
    BY <2>1, <2>2, <2>3, <2>4 DEF Stands
<1>8. proposed' \in Nat /\ assents' = assents
  BY <1>3 DEF boardRows, BoardInv
<1> QED
  BY <1>3, <1>6, <1>7, <1>8, BoardBegins DEF boardRows

\* The board is written: whoever else holds it holds it stale from then on, and it
\* is an update lost unless the writer's own row was not.
LEMMA BoardIsWritten ==
  ASSUME BoardInv, NEW r \in Reqs, req[r].op \in BoardOps \cup {"attach"},
         board' = req[r].mem.row, Leaves(r, {<<"board">>}), UNCHANGED <<proposed, assents>>,
         NothingLost', files' \in [Stored -> Nat]
  PROVE  BoardInv'
<1>1. PICK row : row = req[r].mem.row
  OBVIOUS
<1>2. Stands(r) /\ Internal(row) /\ Backed(row) /\ board # Absent
  BY <1>1 DEF BoardInv, Stands, RowIsSound, RowOps, OneBoard, BoardOps, FreeOps
<1>3. row # Absent
  BY <1>2, RowsAreThere DEF Internal
<1>4. Shaped(req'[r]) /\ req'[r].op = "none" /\ Elsewhere(r, {<<"board">>})
  BY Closing DEF Leaves, BoardInv
<1>5. ASSUME NEW p \in Reqs
      PROVE  Shaped(req'[p]) /\ Stands(p)' /\ req'[p].op # "create"
  <2>1. CASE p # r
    <3>1. /\ Aside(p) /\ Stands(p) /\ req[p].op # "create"
          /\ <<"board">> \in req[p].held => <<"board">> \in req'[p].stale
      BY <1>2, <1>4, <2>1 DEF Elsewhere, BoardInv, Stands, OneBoard
    <3>2. Stands(p)'
      BY <1>1, <1>2, <1>3, <3>1, OthersStand
    <3> QED
      BY <3>1, <3>2 DEF Aside
  <2>2. CASE p = r
    BY <1>4, <2>2, IdleStands
  <2> QED
    BY <2>1, <2>2
<1>6. BoardIsSound'
  BY <1>1, <1>2 DEF BoardIsSound, Backed
<1> QED
  BY <1>5, <1>6 DEF BoardInv, AllShaped

\* By a change of the board,
LEMMA EditEnds ==
  ASSUME BoardInv, NEW r \in Reqs, EditSave(r)
  PROVE  BoardInv'
<1>1. PICK m : m = req[r].mem
  OBVIOUS
<1>2. /\ req[r].op \in BoardOps /\ board' = m.row /\ userBoards' = (userBoards \cup m.came) \ m.left
      /\ memoryBox' = memoryBox \cup m.came /\ Leaves(r, {<<"board">>})
      /\ overwritten' = overwritten \cup (req[r].stale \cap {<<"board">>})
      /\ UNCHANGED <<files, proposed, assents>>
  BY <1>1 DEF EditSave, Clobbers
<1>3. board # Absent /\ (<<"board">> \notin req[r].stale => Succeeds(board, m))
  BY <1>1, <1>2 DEF BoardInv, Stands, OneBoard, IsCurrent, BoardOps, FreeOps
<1>4. NothingLost'
  <2>1. SUFFICES ASSUME <<"board">> \notin overwritten'
                 PROVE  /\ userBoards' = m.row.steerers /\ userBoards' \subseteq memoryBox'
                        /\ files'["plain"] > 0 => m.row.mode = "app_envelope"
    BY <1>2 DEF NothingLost
  <2>2. Succeeds(board, m) /\ <<"board">> \notin overwritten
    BY <1>2, <1>3, <2>1
  <2>3. /\ userBoards = board.steerers /\ userBoards \subseteq memoryBox
        /\ files["plain"] > 0 => board.mode = "app_envelope"
    BY <1>3, <2>2 DEF BoardInv, NothingLost
  <2> QED
    BY <1>2, <2>2, <2>3 DEF Succeeds
<1> QED
  BY <1>1, <1>2, <1>4, BoardIsWritten DEF BoardInv

\* and with an artifact.
LEMMA AttachEnds ==
  ASSUME BoardInv, NEW r \in Reqs, AttachSave(r)
  PROVE  BoardInv'
<1>1. PICK m : m = req[r].mem
  OBVIOUS
<1>2. /\ req[r].op = "attach" /\ board' = m.row /\ files' = [files EXCEPT ![m.form] = @ + 1]
      /\ Leaves(r, {<<"board">>}) /\ overwritten' = overwritten \cup (req[r].stale \cap {<<"board">>})
      /\ UNCHANGED <<userBoards, memoryBox, proposed, assents>>
  BY <1>1 DEF AttachSave, Clobbers, At
<1>3. board # Absent /\ (<<"board">> \notin req[r].stale => Attaches(board, m))
  BY <1>1, <1>2 DEF BoardInv, Stands, OneBoard, IsCurrent, FreeOps
<1>4. files' \in [Stored -> Nat] /\ (m.form # "plain" => files'["plain"] = files["plain"])
  <2>1. files \in [Stored -> Nat] /\ "plain" \in Stored
    BY DEF BoardInv, Stored, Forms
  <2>2. PICK f : f = m.form
    OBVIOUS
  <2>3. files' = [files EXCEPT ![f] = files[f] + 1]
    BY <1>2, <2>2
  <2>4. files' \in [Stored -> Nat]
    <3>1. CASE f \in Stored
      <4>1. files[f] + 1 \in Nat
        BY <2>1, <3>1
      <4> QED
        BY <2>1, <2>3, <4>1
    <3>2. CASE f \notin Stored
      BY <2>1, <2>3, <3>2
    <3> QED
      BY <3>1, <3>2
  <2>5. f # "plain" => files'["plain"] = files["plain"]
    BY <2>1, <2>3
  <2> QED
    BY <2>2, <2>4, <2>5
<1>5. NothingLost'
  BY <1>2, <1>3, <1>4 DEF BoardInv, NothingLost, Attaches
<1> QED
  BY <1>1, <1>2, <1>4, <1>5, BoardIsWritten

\* At first there is no board, or one as it is created, and nobody asks.
LEMMA BoardInit ==
  ASSUME Init
  PROVE  BoardInv
<1>1. AllShaped /\ \A r \in Reqs : req[r].op = "none"
  BY DEF Init, InitRequests, Idle, AllShaped, Shaped
<1>2. \A r \in Reqs : Stands(r)
  BY <1>1 DEF Stands, OneBoard, RowIsSound, FlipIsSound, CreatesWell, IsCurrent, RowOps, CardOps,
     BoardOps
<1>3. PICK start \in scope.tries :
        /\ board = IF start = Absent THEN Absent ELSE Created(start, {}, "none")
        /\ userBoards = IF board = Absent THEN {} ELSE board.steerers
        /\ memoryBox = userBoards
  BY Zenon DEF Init
<1>4. start \in (SUBSET Users) \cup {Absent}
  BY ScopeAssumption DEF Init, InitRequests
<1>5. files \in [Stored -> Nat] /\ files["plain"] = 0 /\ proposed \in Nat
  BY DEF Init, Stored, Forms
<1>6. BoardIsSound /\ NothingLost
  <2>1. CASE board = Absent
    BY <2>1 DEF BoardIsSound, NothingLost
  <2>2. CASE board # Absent
    <3>1. board = Created(start, {}, "none") /\ start \in SUBSET Users
      BY <1>3, <1>4, <2>2
    <3>2. Internal(board) /\ board.pending = Absent
      BY <3>1, CreatedIsInternal
    <3> QED
      BY <1>3, <1>5, <2>2, <3>2 DEF BoardIsSound, NothingLost, Backed
  <2> QED
    BY <2>1, <2>2
<1> QED
  BY <1>1, <1>2, <1>5, <1>6 DEF BoardInv

\* Every step keeps it.
LEMMA BoardNext ==
  ASSUME BoardInv, [ViewNext]_vars
  PROVE  BoardInv'
<1>1. CASE UNCHANGED vars
  <2>1. /\ req' = req /\ scope' = scope /\ overwritten' = overwritten /\ board' = board
        /\ userBoards' = userBoards /\ memoryBox' = memoryBox /\ files' = files
        /\ proposed' = proposed /\ assents' = assents
    BY <1>1 DEF vars, boardRows
  <2>2. (\A r \in Reqs : Stands(r))'
    <3>1. SUFFICES ASSUME NEW r \in Reqs PROVE Stands(r)'
      OBVIOUS
    <3>2. Stands(r)
      BY DEF BoardInv
    <3>3. OneBoard(r)' /\ RowIsSound(r)' /\ CreatesWell(r)'
      BY <2>1, <3>2 DEF Stands, OneBoard, RowIsSound, CreatesWell, Backed, Internal
    <3>4. FlipIsSound(r)' /\ IsCurrent(r)'
      BY <2>1, <3>2 DEF Stands, FlipIsSound, FlipBacked, IsCurrent, Succeeds, Attaches
    <3> QED
      BY <2>1, <3>2, <3>3, <3>4 DEF Stands
  <2>3. AllShaped' /\ (\A r, p \in Reqs : req'[r].op = "create" /\ req'[p].op = "create" => r = p)
    BY <2>1 DEF BoardInv, AllShaped, Shaped
  <2>4. BoardIsSound' /\ NothingLost'
    BY <2>1 DEF BoardInv, BoardIsSound, NothingLost, Backed, Internal
  <2> QED
    BY <2>1, <2>2, <2>3, <2>4 DEF BoardInv
<1>2. ASSUME NEW r \in Reqs, Start(r)
      PROVE  BoardInv'
  <2>1. CASE \E S \in SUBSET Users, R \in SUBSET Agents, f \in Forms \cup {"none"}, F \in SUBSET Stored :
               CreateStart(r, S, R, f, F)
    BY <2>1, CreateBegins
  <2>2. CASE \E op \in BoardOps, u \in Users : \E x \in EditInputs(op) : EditStart(r, op, u, x)
    BY <2>2, EditBegins
  <2>3. CASE \E u \in Users, a \in Inputs : AttachStart(r, u, a)
    BY <2>3, AttachBegins
  <2>4. CASE \E u : \/ \E k : LearnStart(r, u, k)
                    \/ \E text, to : CardStart(r, u, text, to)
                    \/ \E c, d, l, w : LaneStart(r, u, c, l, w, d)
                    \/ \E c : CheckStart(r, u, c) \/ CloseStart(r, u, c) \/ DeleteStart(r, u, c)
                    \/ \E c : ReplyStart(r, u, c) \/ UnsealStart(r, u, c)
    BY <2>4, CardsBeginQuietly
  <2> QED
    BY <1>2, <2>1, <2>2, <2>3, <2>4, ZenonT(60) DEF Start
<1>3. ASSUME NEW r \in Reqs, Step(r)
      PROVE  BoardInv'
  BY <1>3, CreateGoesOn, CreateEnds, EditEnds, AttachEnds, CardsGoOnQuietly DEF Step
<1>4. ASSUME NEW r \in Reqs, Crash(r), UNCHANGED <<scope, boardRows>>
      PROVE  BoardInv'
  BY <1>4, QuietEnds DEF Crash, Answer, Reads, boardRows
<1>5. ASSUME NEW r \in Reqs, (\E op \in Views : \E u, a : ViewStart(r, op, u, a)) \/ ViewStep(r) \/ ViewNotes(r)
      PROVE  BoardInv'
  BY <1>5, ViewsAreQuiet
<1>6. CASE Next
  BY <1>2, <1>3, <1>4, <1>6 DEF Next
<1>7. CASE ViewNext /\ ~Next
  BY <1>5, <1>7, Zenon DEF ViewNext
<1> QED
  BY <1>1, <1>6, <1>7

\* What every request relies on holds in every behaviour.
THEOREM BoardInvariant == ViewSpec => []BoardInv
BY BoardInit, BoardNext, PTL DEF ViewSpec

-----------------------------------------------------------------------------
(* Who works on a board, and who agreed *)

\* Who works on a board fits its mode however edits, approvals and lost updates
\* interleave, and while none was lost it is listed for exactly its steerers.
THEOREM BoardsStaySealed == ViewSpec => []SealedIsInternal
<1>1. BoardInv => SealedIsInternal
  BY DEF BoardInv, BoardIsSound, NothingLost, Internal, SealedIsInternal
<1> QED
  BY <1>1, BoardInvariant, PTL

\* The flip that a proposal ends in has the assent of everyone who stays.
THEOREM FlipsHaveConsent == ViewSpec => ConsentBehindFlip
<1>1. ASSUME BoardInv
      PROVE  \A r \in Reqs : Flips(r) /\ req'[r] = Idle /\ board' = req[r].mem.row
               => /\ \A u \in board'.point.approvers : <<board'.point.no, u>> \in assents
                  /\ board'.steerers \subseteq board'.point.approvers \cup {board'.point.cause[1]}
  BY <1>1 DEF BoardInv, Stands, FlipIsSound, FlipBacked, Flips
<1> QED
  BY <1>1, BoardInvariant, PTL DEF ConsentBehindFlip

-----------------------------------------------------------------------------
(* Requests that begin, go on and end *)

\* A request of one of these operations begins, goes on or ends; whatever it holds.
Acts(r, Ops) ==
  \E K : Shaped(req'[r]) /\ Elsewhere(r, K) /\ req'[r].op \in Ops \cup {"none"}

LEMMA ActsByBeginning ==
  ASSUME AllShaped, NEW r \in Reqs, NEW Ops, NEW op \in Ops, NEW pc, NEW held, NEW mem,
         Reads(r, Begin(op, pc, held, mem))
  PROVE  Acts(r, Ops)
BY Opening DEF Reads, Acts

LEMMA ActsByGoingOn ==
  ASSUME AllShaped, NEW r \in Reqs, NEW Ops, req[r].op \in Ops, NEW pc, NEW held, NEW mem, NEW K,
         Writes(r, On(req[r], pc, held, mem), K)
  PROVE  Acts(r, Ops)
BY Advancing DEF Acts

LEMMA ActsByEnding ==
  ASSUME AllShaped, NEW r \in Reqs, NEW Ops, NEW K, Writes(r, Idle, K)
  PROVE  Acts(r, Ops)
BY Closing DEF Acts

\* The kinds of steps.
RowStep(r) ==
  \/ \E S, R, f, F : CreateStart(r, S, R, f, F)
  \/ \E op \in BoardOps : \E u, x : EditStart(r, op, u, x)
  \/ \E u, a : AttachStart(r, u, a)
  \/ CreateMemory(r) \/ CreateCommit(r) \/ EditSave(r) \/ AttachSave(r)
CardStep(r) ==
  \/ \E u, k : LearnStart(r, u, k)
  \/ \E u, text, to : CardStart(r, u, text, to)
  \/ \E u \in Users, c, d \in CardIds : \E l, w : LaneStart(r, u, c, l, w, d)
  \/ \E u \in Users, c \in CardIds :
       \/ CheckStart(r, u, c) \/ CloseStart(r, u, c) \/ DeleteStart(r, u, c)
       \/ ReplyStart(r, u, c) \/ UnsealStart(r, u, c)
  \/ LearnMemory(r) \/ LearnSave(r) \/ CardCommit(r) \/ LaneSiblings(r) \/ CardSave(r)
  \/ (\E turns : ReplyInbox(r, turns)) \/ UnsealInbox(r) \/ DeleteBoxes(r) \/ DeleteBody(r)
LookStep(r) ==
  \/ \E op \in Views : \E u, a : ViewStart(r, op, u, a)
  \/ ViewStep(r) \/ ViewNotes(r)

\* Requests that concern the board's row, and those that file something on it,
\* stay among themselves.
LEMMA RowsAct ==
  ASSUME AllShaped, NEW r \in Reqs, RowStep(r)
  PROVE  Acts(r, RowOps)
<1>1. CASE \E S, R, f, F : CreateStart(r, S, R, f, F)
  <2>1. PICK mem : Reads(r, Begin("create", "memory", {}, mem))
    BY <1>1, Zenon DEF CreateStart
  <2> QED
    BY <2>1, ActsByBeginning DEF RowOps
<1>2. ASSUME NEW op \in BoardOps, NEW u, NEW x, EditStart(r, op, u, x)
      PROVE  Acts(r, RowOps)
  <2>1. PICK mem : Reads(r, Begin(op, "save", {<<"board">>}, mem))
    BY <1>2, Zenon DEF EditStart
  <2> QED
    BY <2>1, ActsByBeginning DEF RowOps
<1>3. CASE \E u, a : AttachStart(r, u, a)
  BY <1>3, ActsByBeginning DEF AttachStart, RowOps
<1>4. CASE CreateMemory(r)
  BY <1>4, ActsByGoingOn DEF CreateMemory, At, Reads, RowOps
<1>5. CASE CreateCommit(r) \/ EditSave(r) \/ AttachSave(r)
  BY <1>5, ActsByEnding DEF CreateCommit, EditSave, AttachSave, Leaves
<1> QED
  BY <1>1, <1>2, <1>3, <1>4, <1>5 DEF RowStep

LEMMA CardsAct ==
  ASSUME AllShaped, NEW r \in Reqs, CardStep(r)
  PROVE  Acts(r, CardOps \cup FreeOps)
<1>1. ASSUME \/ \E u, k : LearnStart(r, u, k)
             \/ \E u, text, to : CardStart(r, u, text, to)
      PROVE  Acts(r, CardOps \cup FreeOps)
  BY <1>1, ActsByBeginning DEF LearnStart, CardStart, CardOps
<1>2. ASSUME NEW u, NEW c, NEW d, NEW l, NEW w, LaneStart(r, u, c, l, w, d)
      PROVE  Acts(r, CardOps \cup FreeOps)
  <2>1. PICK pc, mem : Reads(r, Begin("lane", pc, {<<"board">>, <<"card", c>>}, mem))
    BY <1>2, Zenon DEF LaneStart
  <2> QED
    BY <2>1, ActsByBeginning DEF CardOps
<1>3. ASSUME NEW u, NEW c,
             \/ CheckStart(r, u, c) \/ CloseStart(r, u, c) \/ DeleteStart(r, u, c)
             \/ ReplyStart(r, u, c) \/ UnsealStart(r, u, c)
      PROVE  Acts(r, CardOps \cup FreeOps)
  <2>1. \E op : op \in {"check", "close", "delete", "reply", "unseal"} /\ \E pc, held, mem : Reads(r, Begin(op, pc, held, mem))
    <3>1. CASE CheckStart(r, u, c)
      BY <3>1 DEF CheckStart
    <3>2. CASE CloseStart(r, u, c)
      BY <3>2 DEF CloseStart
    <3>3. CASE DeleteStart(r, u, c)
      BY <3>3 DEF DeleteStart
    <3>4. CASE ReplyStart(r, u, c)
      BY <3>4 DEF ReplyStart
    <3>5. CASE UnsealStart(r, u, c)
      BY <3>5 DEF UnsealStart
    <3> QED
      BY <1>3, <3>1, <3>2, <3>3, <3>4, <3>5
  <2>2. \A op \in {"check", "close", "delete", "reply", "unseal"} : op \in CardOps \cup FreeOps
    BY DEF CardOps, FreeOps
  <2> QED
    BY <2>1, <2>2, ActsByBeginning
<1>4. CASE \/ LearnMemory(r) \/ LearnSave(r) \/ CardCommit(r) \/ LaneSiblings(r) \/ CardSave(r)
           \/ (\E turns : ReplyInbox(r, turns)) \/ UnsealInbox(r) \/ DeleteBoxes(r) \/ DeleteBody(r)
  <2>1. req[r].op \in CardOps \cup FreeOps
    BY <1>4 DEF LearnMemory, LearnSave, CardCommit, LaneSiblings, CardSave, ReplyInbox, UnsealInbox,
       DeleteBoxes, DeleteBody, At, CardOps, FreeOps, Filing, Aloof
  <2>2. \/ \E pc, held, mem : Writes(r, On(req[r], pc, held, mem), {})
        \/ \E K : Writes(r, Idle, K)
    BY <1>4, Zenon DEF LearnMemory, LearnSave, CardCommit, LaneSiblings, CardSave, ReplyInbox,
       UnsealInbox, DeleteBoxes, DeleteBody, Reads, Leaves
  <2> QED
    BY <2>1, <2>2, ActsByGoingOn, ActsByEnding
<1> QED
  BY <1>1, <1>2, <1>3, <1>4 DEF CardStep

LEMMA LooksAct ==
  ASSUME AllShaped, NEW r \in Reqs, LookStep(r)
  PROVE  Acts(r, ReadOps)
<1>1. CASE \E op \in Views : \E u, a : ViewStart(r, op, u, a)
  <2>1. PICK op, mem : op \in Views /\ Reads(r, Begin(op, "scan", {}, mem))
    BY <1>1, Zenon DEF ViewStart
  <2> QED
    BY <2>1, ActsByBeginning, ViewAssumption DEF ReadOps
<1>2. CASE ViewStep(r) \/ ViewNotes(r)
  <2>1. req[r].op \in ReadOps
    BY <1>2, ViewAssumption DEF ViewStep, ViewCard, ViewNotes, ViewFiles, ViewAnswer, At, ReadOps
  <2>2. \/ \E pc, mem : Writes(r, On(req[r], pc, {}, mem), {})
        \/ Writes(r, Idle, {})
    BY <1>2, Zenon DEF ViewStep, ViewCard, ViewNotes, ViewFiles, ViewAnswer, Reads, Answer
  <2> QED
    BY <2>1, <2>2, ActsByGoingOn, ActsByEnding
<1> QED
  BY <1>1, <1>2 DEF LookStep

\* Every step is one of them.
LEMMA StepKinds ==
  ASSUME [ViewNext]_vars
  PROVE  \/ UNCHANGED vars
         \/ \E r \in Reqs : RowStep(r) \/ CardStep(r) \/ LookStep(r) \/ (Crash(r) /\ UNCHANGED boardRows)
<1>1. ASSUME NEW r \in Reqs, Start(r)
      PROVE  RowStep(r) \/ CardStep(r)
  BY <1>1, ZenonT(60) DEF Start, RowStep, CardStep
<1>2. ASSUME NEW r \in Reqs, Step(r)
      PROVE  RowStep(r) \/ CardStep(r)
  BY <1>2, Zenon DEF Step, RowStep, CardStep
<1>3. CASE Next
  BY <1>1, <1>2, <1>3 DEF Next
<1>4. CASE ViewNext /\ ~Next
  BY <1>4, Zenon DEF ViewNext, LookStep
<1> QED
  BY <1>3, <1>4

-----------------------------------------------------------------------------
(* What is shown of a board *)

\* A view shows in the clear only what its own row says is in the clear, and
\* while no update of the board was lost that row is not ahead of the board.
Discreet(q) ==
  /\ DOMAIN q.mem = {"user", "row", "todo", "seen", "notes", "files", "gone"} /\ q.mem.row.mode \in Modes
  /\ \A x \in q.mem.seen : x.text => q.mem.row.mode = "app_envelope"
  /\ \A n \in DOMAIN q.mem.notes : q.mem.notes[n] = "plain" => q.mem.row.mode = "app_envelope"
PlainFile == [form |-> "plain", content |-> TRUE]
NotAhead(m, row) ==
  m.row.mode = "app_envelope" \/ PlainFile \in m.files => row.mode = "app_envelope"
ViewInv ==
  \A r \in Reqs : req[r].op \in ReadOps =>
    Discreet(req[r]) /\ (<<"board">> \notin overwritten => NotAhead(req[r].mem, board))

\* Of the steps about the board's row, three write it.
LEMMA RowsLeaveBoards ==
  ASSUME NEW r, RowStep(r), ~(CreateCommit(r) \/ EditSave(r) \/ AttachSave(r))
  PROVE  UNCHANGED <<board, overwritten, files>>
<1>1. ASSUME NEW S, NEW R, NEW f, NEW F, CreateStart(r, S, R, f, F)
      PROVE  UNCHANGED <<board, overwritten, files>>
  BY <1>1 DEF CreateStart, boardRows
<1>2. ASSUME NEW op, NEW u, NEW x, EditStart(r, op, u, x)
      PROVE  UNCHANGED <<board, overwritten, files>>
  BY <1>2 DEF EditStart
<1>3. ASSUME NEW u, NEW a, AttachStart(r, u, a)
      PROVE  UNCHANGED <<board, overwritten, files>>
  BY <1>3 DEF AttachStart, boardRows
<1>4. ASSUME CreateMemory(r)
      PROVE  UNCHANGED <<board, overwritten, files>>
  BY <1>4 DEF CreateMemory
<1> QED
  BY <1>1, <1>2, <1>3, <1>4 DEF RowStep

\* What is filed on the board does not write it.
LEMMA CardsLeaveBoards ==
  ASSUME NEW r, CardStep(r)
  PROVE  /\ UNCHANGED <<board, userBoards, memoryBox, files, proposed, assents>>
         /\ overwritten \subseteq overwritten'
<1> DEFINE Goal == UNCHANGED <<boardRows, overwritten>>
<1>1. ASSUME NEW u, NEW k, LearnStart(r, u, k) PROVE Goal
  BY <1>1 DEF LearnStart
<1>2. ASSUME NEW u, NEW text, NEW to, CardStart(r, u, text, to) PROVE Goal
  BY <1>2 DEF CardStart
<1>3. ASSUME NEW u, NEW c, NEW d, NEW l, NEW w, LaneStart(r, u, c, l, w, d) PROVE Goal
  BY <1>3 DEF LaneStart
<1>4. ASSUME NEW u, NEW c,
             \/ CheckStart(r, u, c) \/ CloseStart(r, u, c) \/ DeleteStart(r, u, c)
             \/ ReplyStart(r, u, c) \/ UnsealStart(r, u, c)
      PROVE  Goal
  BY <1>4 DEF CheckStart, CloseStart, DeleteStart, ReplyStart, UnsealStart
<1>5. ASSUME LearnMemory(r) \/ LaneSiblings(r) \/ (\E turns : ReplyInbox(r, turns)) \/ UnsealInbox(r) PROVE Goal
  BY <1>5 DEF LearnMemory, LaneSiblings, ReplyInbox, UnsealInbox
<1>6. ASSUME LearnSave(r) \/ CardCommit(r) \/ CardSave(r) \/ DeleteBoxes(r) \/ DeleteBody(r)
      PROVE  /\ UNCHANGED <<board, userBoards, memoryBox, files, proposed, assents>>
             /\ overwritten \subseteq overwritten'
  BY <1>6 DEF LearnSave, CardCommit, CardSave, DeleteBoxes, DeleteBody, Clobbers
<1>7. Goal => UNCHANGED <<board, userBoards, memoryBox, files, proposed, assents, overwritten>>
  BY DEF boardRows
<1> HIDE DEF Goal
<1> QED
  BY <1>1, <1>2, <1>3, <1>4, <1>5, <1>6, <1>7 DEF CardStep

\* Of these steps, three write notes and cards, besides the deletion of a card.
LEMMA CardsLeftAlone ==
  ASSUME NEW r, DOMAIN cards = CardIds, CardStep(r), ~(LearnSave(r) \/ CardCommit(r) \/ CardSave(r))
  PROVE  UNCHANGED <<board, notes, index>> /\ \A c \in CardIds : cards'[c] \in {cards[c], Absent}
<1> DEFINE Goal == UNCHANGED <<board, notes, index, cards>>
<1>1. ASSUME NEW u, NEW k, LearnStart(r, u, k) PROVE Goal
  BY <1>1 DEF LearnStart, boardRows, cardRows
<1>2. ASSUME NEW u, NEW text, NEW to, CardStart(r, u, text, to) PROVE Goal
  BY <1>2 DEF CardStart, boardRows, cardRows
<1>3. ASSUME NEW u, NEW c, NEW d, NEW l, NEW w, LaneStart(r, u, c, l, w, d) PROVE Goal
  BY <1>3 DEF LaneStart, boardRows, cardRows
<1>4. ASSUME NEW u, NEW c,
             \/ CheckStart(r, u, c) \/ CloseStart(r, u, c) \/ DeleteStart(r, u, c)
             \/ ReplyStart(r, u, c) \/ UnsealStart(r, u, c)
      PROVE  Goal
  BY <1>4 DEF CheckStart, CloseStart, DeleteStart, ReplyStart, UnsealStart, boardRows, cardRows
<1>5. ASSUME \/ LearnMemory(r) \/ LaneSiblings(r) \/ DeleteBoxes(r)
             \/ (\E turns : ReplyInbox(r, turns)) \/ UnsealInbox(r)
      PROVE  Goal
  BY <1>5 DEF LearnMemory, LaneSiblings, DeleteBoxes, ReplyInbox, UnsealInbox, boardRows, cardRows
<1>6. ASSUME DeleteBody(r)
      PROVE  UNCHANGED <<board, notes, index>> /\ \A c \in CardIds : cards'[c] \in {cards[c], Absent}
  BY <1>6 DEF DeleteBody
<1>7. Goal => UNCHANGED <<board, notes, index>> /\ cards' = cards
  OBVIOUS
<1> HIDE DEF Goal
<1> QED
  BY <1>1, <1>2, <1>3, <1>4, <1>5, <1>6, <1>7 DEF CardStep

\* Encryption that has ended does not come back, unless an update is lost.
LEMMA ModeStays ==
  ASSUME BoardInv, [ViewNext]_vars, board # Absent, <<"board">> \notin overwritten'
  PROVE  /\ <<"board">> \notin overwritten
         /\ board.mode = "app_envelope" => board'.mode = "app_envelope"
<1>1. CASE board' = board /\ overwritten \subseteq overwritten'
  BY <1>1
<1>2. CASE UNCHANGED vars
  BY <1>1, <1>2 DEF vars, boardRows
<1>3. ASSUME NEW r \in Reqs, RowStep(r)
      PROVE  /\ <<"board">> \notin overwritten
             /\ board.mode = "app_envelope" => board'.mode = "app_envelope"
  <2>1. CASE EditSave(r)
    <3>1. PICK m : m = req[r].mem
      OBVIOUS
    <3>2. req[r].op \in BoardOps /\ board' = m.row /\ overwritten' = overwritten \cup (req[r].stale \cap {<<"board">>})
      BY <2>1, <3>1 DEF EditSave, Clobbers
    <3>3. <<"board">> \notin req[r].stale => Succeeds(board, m)
      BY <3>1, <3>2 DEF BoardInv, Stands, IsCurrent
    <3> QED
      BY <3>2, <3>3 DEF Succeeds
  <2>2. CASE AttachSave(r)
    <3>1. PICK m : m = req[r].mem
      OBVIOUS
    <3>2. req[r].op = "attach" /\ board' = m.row /\ overwritten' = overwritten \cup (req[r].stale \cap {<<"board">>})
      BY <2>2, <3>1 DEF AttachSave, Clobbers, At
    <3>3. <<"board">> \notin req[r].stale => Attaches(board, m)
      BY <3>1, <3>2 DEF BoardInv, Stands, IsCurrent
    <3> QED
      BY <3>2, <3>3 DEF Attaches
  <2>3. CASE CreateCommit(r)
    BY <2>3 DEF CreateCommit, At, BoardInv, Stands, OneBoard
  <2>4. CASE ~(EditSave(r) \/ AttachSave(r) \/ CreateCommit(r))
    BY <1>1, <1>3, <2>4, RowsLeaveBoards
  <2> QED
    BY <2>1, <2>2, <2>3, <2>4
<1>4. ASSUME NEW r \in Reqs, CardStep(r)
      PROVE  board' = board /\ overwritten \subseteq overwritten'
  BY <1>4, CardsLeaveBoards
<1>5. ASSUME NEW r \in Reqs, LookStep(r)
      PROVE  board' = board /\ overwritten \subseteq overwritten'
  BY <1>5 DEF LookStep, ViewStart, ViewStep, ViewCard, ViewNotes, ViewFiles, ViewAnswer, boardRows
<1>6. ASSUME NEW r \in Reqs, Crash(r), UNCHANGED boardRows
      PROVE  board' = board /\ overwritten \subseteq overwritten'
  BY <1>6 DEF Crash, boardRows
<1> QED
  BY <1>1, <1>2, <1>3, <1>4, <1>5, <1>6, StepKinds

\* The others' views stay discreet.
LEMMA OthersStayDiscreet ==
  ASSUME BoardInv, ViewInv, [ViewNext]_vars, NEW p \in Reqs, Aside(p), req'[p].op \in ReadOps
  PROVE  Discreet(req'[p]) /\ (<<"board">> \notin overwritten' => NotAhead(req'[p].mem, board'))
<1>1. board # Absent
  BY DEF Aside, BoardInv, Stands, OneBoard, ReadOps, FreeOps
<1>2. PICK m : m = req[p].mem
  OBVIOUS
<1>3. req'[p].mem = m /\ req[p].op \in ReadOps
  BY <1>2 DEF Aside
<1>4. Discreet(req[p]) /\ (<<"board">> \notin overwritten => NotAhead(m, board))
  BY <1>2, <1>3 DEF ViewInv
<1>5. Discreet(req'[p])
  BY <1>2, <1>3, <1>4 DEF Discreet
<1>6. <<"board">> \notin overwritten' => NotAhead(m, board')
  BY <1>1, <1>4, ModeStays DEF NotAhead
<1> QED
  BY <1>3, <1>5, <1>6

\* Each read of a view keeps it discreet.
LEMMA LookingIsDiscreet ==
  ASSUME BoardInv, ViewInv, NEW r \in Reqs, LookStep(r), req'[r].op \in ReadOps
  PROVE  Discreet(req'[r]) /\ (<<"board">> \notin overwritten' => NotAhead(req'[r].mem, board'))
<1> DEFINE Goal == Discreet(req'[r]) /\ (<<"board">> \notin overwritten' => NotAhead(req'[r].mem, board'))
<1>1. UNCHANGED <<boardRows, overwritten>>
  BY DEF LookStep, ViewStart, ViewStep, ViewCard, ViewNotes, ViewFiles, ViewAnswer
<1>2. AllShaped /\ board' = board /\ overwritten' = overwritten
  BY <1>1 DEF BoardInv, boardRows
<1>3. ASSUME NEW op, NEW u, NEW a, ViewStart(r, op, u, a)
      PROVE  Goal
  <2>1. PICK mem : mem = [user |-> u, row |-> board, todo |-> index, seen |-> {}, notes |-> <<>>,
                          files |-> {}, gone |-> {c \in index : cards[c] = Absent}]
    OBVIOUS
  <2>2. Reads(r, Begin(op, "scan", {}, mem))
    BY <1>3, <2>1 DEF ViewStart
  <2>3. req'[r].mem = mem
    BY <1>2, <2>2, Opening DEF Reads
  <2>4. mem.row = board /\ mem.seen = {} /\ mem.notes = <<>> /\ mem.files = {}
        /\ DOMAIN mem = {"user", "row", "todo", "seen", "notes", "files", "gone"}
    BY <2>1
  <2>5. board.mode \in Modes
    BY <1>3 DEF ViewStart, BoardInv, BoardIsSound, Internal, BoardRow
  <2>6. DOMAIN <<>> = {}
    OBVIOUS
  <2>7. Discreet(req'[r])
    BY <2>3, <2>4, <2>5, <2>6 DEF Discreet
  <2> QED
    BY <1>2, <2>3, <2>4, <2>7 DEF NotAhead
<1>4. ASSUME NEW op \in Views, ViewCard(r, op)
      PROVE  Goal
  <2>1. PICK m, c, seen :
          /\ m = req[r].mem
          /\ seen = IF cards[c] = Absent THEN m.seen ELSE m.seen \cup {SeenCard(req[r], c)}
          /\ Reads(r, On(req[r], "scan", {}, [m EXCEPT !.todo = m.todo \ {c}, !.seen = seen]))
    BY <1>4, Zenon DEF ViewCard
  <2>2. PICK new : new = [m EXCEPT !.todo = m.todo \ {c}, !.seen = seen]
    OBVIOUS
  <2>3. Writes(r, On(req[r], "scan", {}, new), {})
    BY <2>1, <2>2 DEF Reads
  <2>4. req'[r].mem = new /\ req[r].op \in ReadOps
    BY <1>2, <1>4, <2>3, Advancing, ViewAssumption DEF ViewCard, At, ReadOps
  <2>5. Discreet(req[r]) /\ (<<"board">> \notin overwritten => NotAhead(m, board))
    BY <2>1, <2>4 DEF ViewInv
  <2>6. /\ new.row = m.row /\ new.seen = seen /\ new.notes = m.notes /\ new.files = m.files
        /\ DOMAIN new = DOMAIN m
    BY <2>1, <2>2, <2>5 DEF Discreet
  <2>7. SeenCard(req[r], c).text => m.row.mode = "app_envelope"
    BY <2>1 DEF SeenCard
  <2> QED
    BY <1>2, <2>1, <2>4, <2>5, <2>6, <2>7 DEF Discreet, NotAhead
<1>5. CASE ViewNotes(r)
  <2>1. PICK m, notes1 : m = req[r].mem /\ notes1 = SeenNotes(m.row)
    OBVIOUS
  <2>2. PICK new : new = [m EXCEPT !.notes = notes1]
    OBVIOUS
  <2>3. Writes(r, On(req[r], "files", {}, new), {})
    BY <1>5, <2>1, <2>2 DEF ViewNotes, Reads
  <2>4. req'[r].mem = new /\ req[r].op \in ReadOps
    <3>1. req[r].op \in ReadOps
      BY <1>5 DEF ViewNotes, At, ReadOps
    <3>2. req'[r].mem = new
      BY <1>2, <2>3, Advancing
    <3> QED
      BY <3>1, <3>2
  <2>5. Discreet(req[r]) /\ (<<"board">> \notin overwritten => NotAhead(m, board))
    BY <2>1, <2>4 DEF ViewInv
  <2>6. /\ new.row = m.row /\ new.seen = m.seen /\ new.notes = notes1 /\ new.files = m.files
        /\ DOMAIN new = DOMAIN m
    BY <2>1, <2>2, <2>5 DEF Discreet
  <2>7. \A n \in DOMAIN notes1 : notes1[n] = "plain" => m.row.mode = "app_envelope"
    <3>1. m.row.mode # "e2e" => m.row.mode = "app_envelope"
      BY <2>1, <2>5 DEF Discreet, Modes
    <3>2. m.row.mode = "e2e" => \A n \in DOMAIN notes1 : notes1[n] = "sealed"
      BY <2>1 DEF SeenNotes
    <3> QED
      BY <3>1, <3>2
  <2> QED
    BY <1>2, <2>1, <2>4, <2>5, <2>6, <2>7 DEF Discreet, NotAhead
<1>6. ASSUME NEW op \in Views, ViewFiles(r, op)
      PROVE  Goal
  <2>1. PICK m, files1 : m = req[r].mem /\ files1 = SeenFiles(op)
    OBVIOUS
  <2>2. PICK new : new = [m EXCEPT !.files = files1]
    OBVIOUS
  <2>3. Writes(r, On(req[r], "answer", {}, new), {})
    BY <1>6, <2>1, <2>2 DEF ViewFiles, Reads
  <2>4. req'[r].mem = new /\ req[r].op \in ReadOps
    <3>1. req[r].op \in ReadOps
      BY <1>6 DEF ViewFiles, At, ReadOps
    <3>2. req'[r].mem = new
      BY <1>2, <2>3, Advancing
    <3> QED
      BY <3>1, <3>2
  <2>5. Discreet(req[r]) /\ (<<"board">> \notin overwritten => NotAhead(m, board))
    BY <2>1, <2>4 DEF ViewInv
  <2>6. /\ new.row = m.row /\ new.seen = m.seen /\ new.notes = m.notes /\ new.files = files1
        /\ DOMAIN new = DOMAIN m
    BY <2>1, <2>2, <2>5 DEF Discreet
  <2>7. PlainFile \in files1 => files["plain"] > 0
    <3>1. ASSUME NEW f \in Stored, files[f] > 0, PlainFile = [form |-> f, content |-> op = "page"]
          PROVE  files["plain"] > 0
      <4>1. PlainFile.form = "plain" /\ PlainFile.form = f
        BY <3>1 DEF PlainFile
      <4> QED
        BY <3>1, <4>1
    <3> QED
      BY <2>1, <3>1 DEF SeenFiles
  <2>8. board # Absent
    BY <2>4 DEF BoardInv, Stands, OneBoard, ReadOps, FreeOps
  <2>9. <<"board">> \notin overwritten => NotAhead(new, board)
    BY <2>5, <2>6, <2>7, <2>8 DEF NotAhead, BoardInv, NothingLost
  <2> QED
    BY <1>2, <2>1, <2>4, <2>5, <2>6, <2>9 DEF Discreet
<1>7. ASSUME NEW op \in Views, ViewAnswer(r, op)
      PROVE  FALSE
  BY <1>2, <1>7, Closing DEF ViewAnswer, Answer, Reads, ReadOps
<1> HIDE DEF Goal
<1> QED
  BY <1>3, <1>4, <1>5, <1>6, <1>7, Zenon DEF LookStep, ViewStep, Goal

\* So views are discreet in every behaviour.
LEMMA ViewInit ==
  ASSUME Init
  PROVE  ViewInv
BY DEF Init, InitRequests, Idle, ViewInv, ReadOps

LEMMA ViewKept ==
  ASSUME BoardInv, ViewInv, [ViewNext]_vars
  PROVE  ViewInv'
<1>1. SUFFICES ASSUME NEW p \in Reqs, req'[p].op \in ReadOps
               PROVE  Discreet(req'[p]) /\ (<<"board">> \notin overwritten' => NotAhead(req'[p].mem, board'))
  BY DEF ViewInv, NotAhead
<1>2. CASE Aside(p)
  BY <1>1, <1>2, OthersStayDiscreet
<1>3. CASE UNCHANGED vars
  BY <1>1, <1>3 DEF vars, boardRows, ViewInv
<1>4. ASSUME NEW r \in Reqs, Acts(r, RowOps \cup CardOps \cup FreeOps)
      PROVE  Aside(p)
  BY <1>1, <1>4 DEF Acts, Elsewhere, RowOps, CardOps, FreeOps, ReadOps, BoardOps
<1>5. ASSUME NEW r \in Reqs, RowStep(r) \/ CardStep(r) \/ Crash(r)
      PROVE  Acts(r, RowOps \cup CardOps \cup FreeOps)
  <2>1. AllShaped
    BY DEF BoardInv
  <2>2. CASE RowStep(r)
    BY <2>1, <2>2, RowsAct DEF Acts
  <2>3. CASE CardStep(r)
    BY <2>1, <2>3, CardsAct DEF Acts
  <2>4. CASE Crash(r)
    BY <2>1, <2>4, ActsByEnding DEF Crash, Answer, Reads
  <2> QED
    BY <1>5, <2>2, <2>3, <2>4
<1>6. ASSUME NEW r \in Reqs, LookStep(r), p # r
      PROVE  Aside(p)
  <2>1. Acts(r, ReadOps)
    BY <1>6, LooksAct DEF BoardInv
  <2> QED
    BY <1>6, <2>1 DEF Acts, Elsewhere
<1>7. ASSUME NEW r \in Reqs, LookStep(r), p = r
      PROVE  Discreet(req'[p]) /\ (<<"board">> \notin overwritten' => NotAhead(req'[p].mem, board'))
  BY <1>1, <1>7, LookingIsDiscreet
<1> QED
  BY <1>2, <1>3, <1>4, <1>5, <1>6, <1>7, StepKinds

\* What the hub can read is shown only of a board whose encryption has ended.
THEOREM NothingSealedIsShown == ViewSpec => []EncryptedStaysUnread
<1>1. ViewInv => EncryptedStaysUnread
  BY ViewAssumption DEF ViewInv, Discreet, NotAhead, PlainFile, EncryptedStaysUnread, Answered, Readable,
     ReadOps
<1> QED
  BY <1>1, ViewInit, ViewKept, BoardInvariant, PTL DEF ViewSpec

-----------------------------------------------------------------------------
(* What an archived board keeps *)

CardShape(x) == DOMAIN x = {"mode", "lane", "position", "open", "done", "from"}

\* Whatever a request is about to write of cards are cards that are still there,
\* unless they are stale; and while the card it read is not, one that does not look
\* at the board leaves it where it is.
Leaving(m) ==
  cards[m.card] # Absent /\ Place(m.rows[m.card]) = Place(cards[m.card])
HasCards(r) ==
  /\ req[r].op = "card" => CardShape(req[r].mem.row)
  /\ req[r].op \in Filing \cup Aloof =>
       \A c \in DOMAIN req[r].mem.rows :
          /\ CardShape(req[r].mem.rows[c]) /\ c \in index /\ <<"card", c>> \in req[r].held
          /\ <<"card", c>> \notin req[r].stale => cards[c] # Absent
  /\ req[r].op = "lane" /\ req[r].pc = "siblings" =>
       /\ DOMAIN req[r].mem = {"card", "rows", "places"} /\ DOMAIN req[r].mem.places \subseteq CardIds
       /\ req[r].mem.card \in DOMAIN req[r].mem.rows
  /\ req[r].op \in Aloof =>
       /\ DOMAIN req[r].mem.rows = {req[r].mem.card}
       /\ <<"card", req[r].mem.card>> \notin req[r].stale => Leaving(req[r].mem)

\* Cards are in the index of their board, which only grows.
Indexed ==
  /\ DOMAIN cards = CardIds /\ index \subseteq CardIds
  /\ \A c \in CardIds : cards[c] # Absent => CardShape(cards[c]) /\ c \in index
CardInv == (\A r \in Reqs : HasCards(r)) /\ Indexed

\* A request that is not about cards has none.
LEMMA NoCards ==
  ASSUME NEW r, req'[r].op \notin {"card", "lane", "check", "close", "reply", "unseal"}
  PROVE  HasCards(r)'
BY DEF HasCards, Filing, Aloof

\* Cards of the others are as they were, or stale where they held them.
LEMMA OthersHaveCards ==
  ASSUME NEW r \in Reqs, NEW K, Elsewhere(r, K), NEW p \in Reqs, p # r, HasCards(p), index \subseteq index',
         \A c \in index : cards'[c] = cards[c] \/ <<"card", c>> \in K
  PROVE  HasCards(p)'
<1>1. Aside(p) /\ req'[p].stale = req[p].stale \cup (req[p].held \cap K)
  BY DEF Elsewhere
<1>2. PICK q, m : q = req[p] /\ m = q.mem
  OBVIOUS
<1>3. req'[p].op = q.op /\ req'[p].pc = q.pc /\ req'[p].held = q.held /\ req'[p].mem = m
  BY <1>1, <1>2 DEF Aside
<1>4. /\ q.op = "card" => CardShape(m.row)
      /\ q.op \in Filing \cup Aloof =>
           \A c \in DOMAIN m.rows : CardShape(m.rows[c]) /\ c \in index' /\ <<"card", c>> \in q.held
      /\ q.op = "lane" /\ q.pc = "siblings" =>
           /\ DOMAIN m = {"card", "rows", "places"} /\ DOMAIN m.places \subseteq CardIds
           /\ m.card \in DOMAIN m.rows
  BY <1>2 DEF HasCards, Filing, Aloof
<1>5. ASSUME q.op \in Aloof
      PROVE  /\ DOMAIN m.rows = {m.card}
             /\ <<"card", m.card>> \notin req'[p].stale => cards'[m.card] # Absent /\ Place(m.rows[m.card]) = Place(cards'[m.card])
  <2>1. /\ <<"card", m.card>> \in q.held /\ DOMAIN m.rows = {m.card} /\ m.card \in index
        /\ <<"card", m.card>> \notin q.stale => Leaving(m)
    BY <1>2, <1>5 DEF HasCards, Filing, Aloof
  <2>2. SUFFICES ASSUME <<"card", m.card>> \notin req'[p].stale
                 PROVE  cards'[m.card] # Absent /\ Place(m.rows[m.card]) = Place(cards'[m.card])
    BY <2>1
  <2>3. cards'[m.card] = cards[m.card] /\ <<"card", m.card>> \notin q.stale
    BY <1>1, <1>2, <2>1, <2>2
  <2> QED
    BY <2>1, <2>3 DEF Leaving
<1>6. ASSUME q.op \in Filing \cup Aloof, NEW c \in DOMAIN m.rows, <<"card", c>> \notin req'[p].stale
      PROVE  cards'[c] # Absent
  <2>1. c \in index /\ <<"card", c>> \in q.held /\ (<<"card", c>> \notin q.stale => cards[c] # Absent)
    BY <1>2, <1>6 DEF HasCards, Filing, Aloof
  <2> QED
    BY <1>1, <1>2, <1>6, <2>1
<1> QED
  BY <1>3, <1>4, <1>5, <1>6 DEF HasCards, Leaving, Aloof, Filing

\* A step of r that leaves the cards of others alone, or says whose it writes.
LEMMA CardsKept ==
  ASSUME CardInv, NEW r \in Reqs, NEW K, Elsewhere(r, K), HasCards(r)', index \subseteq index', Indexed',
         \A c \in index : cards'[c] = cards[c] \/ <<"card", c>> \in K
  PROVE  CardInv'
BY OthersHaveCards DEF CardInv

\* The cards stay as they are.
LEMMA CardsUntouched ==
  ASSUME CardInv, NEW r \in Reqs, NEW K, Elsewhere(r, K), HasCards(r)', UNCHANGED <<cards, index>>
  PROVE  CardInv'
<1>1. Indexed'
  BY DEF CardInv, Indexed
<1> QED
  BY <1>1, CardsKept

\* A new card is read from the board.
LEMMA CardBegins ==
  ASSUME AllShaped, CardInv, NEW r \in Reqs, NEW u, NEW text, NEW to, CardStart(r, u, text, to)
  PROVE  CardInv'
<1>1. PICK row, who, wants :
        /\ CardShape(row)
        /\ Reads(r, Begin("card", "commit", {<<"board">>}, [who |-> who, needs |-> wants, row |-> row]))
        /\ UNCHANGED <<boardRows, overwritten>>
  <2>1. PICK p :
          /\ Reads(r, Begin("card", "commit", {<<"board">>},
               [who |-> board.steerers, needs |-> {to[1]} \cap board.steerers,
                row |-> [mode |-> board.mode, lane |-> LaneOf(board, text), open |-> TRUE, done |-> FALSE,
                         from |-> u, position |-> p]]))
          /\ UNCHANGED <<boardRows, overwritten>>
    BY Zenon DEF CardStart
  <2>2. PICK row : row = [mode |-> board.mode, lane |-> LaneOf(board, text), open |-> TRUE, done |-> FALSE,
                          from |-> u, position |-> p]
    OBVIOUS
  <2>3. CardShape(row)
    BY <2>2 DEF CardShape
  <2> QED
    BY <2>1, <2>2, <2>3, Zenon
<1>2. PICK mem : mem = [who |-> who, needs |-> wants, row |-> row]
  OBVIOUS
<1>3. Reads(r, Begin("card", "commit", {<<"board">>}, mem)) /\ mem.row = row
  BY <1>1, <1>2
<1>4. req'[r].op = "card" /\ req'[r].mem = mem /\ Elsewhere(r, {})
  BY <1>3, Opening DEF Reads
<1>5. HasCards(r)'
  BY <1>1, <1>3, <1>4 DEF HasCards, Filing, Aloof
<1> QED
  BY <1>1, <1>4, <1>5, CardsUntouched DEF boardRows, cardRows

\* One card is read to be written back.
LEMMA OneRow ==
  ASSUME CardInv, NEW r \in Reqs, NEW c \in CardIds, req'[r].op \in {"check"} \cup Aloof,
         req'[r].mem.card = c, DOMAIN req'[r].mem.rows = {c}, CardShape(req'[r].mem.rows[c]),
         req'[r].op \in Aloof => Place(req'[r].mem.rows[c]) = Place(cards[c]),
         cards[c] # Absent, <<"card", c>> \in req'[r].held, Elsewhere(r, {}), UNCHANGED <<cards, index>>
  PROVE  CardInv'
<1>1. PICK q, m : q = req'[r] /\ m = q.mem
  OBVIOUS
<1>2. c \in index' /\ cards'[c] # Absent
  BY DEF CardInv, Indexed
<1>3. q.op \notin {"card", "lane"}
  BY <1>1 DEF Aloof
<1>4. \A d \in DOMAIN m.rows : d = c
  BY <1>1
<1>5. q.op \in Aloof => DOMAIN m.rows = {m.card} /\ Leaving(m)'
  BY <1>1 DEF Leaving, Place
<1>6. HasCards(r)'
  BY <1>1, <1>2, <1>3, <1>4, <1>5 DEF HasCards, Leaving
<1> QED
  BY <1>6, CardsUntouched, Zenon DEF CardInv

\* What is in hand when it is.
LEMMA InHand ==
  ASSUME AllShaped, NEW r \in Reqs, NEW op, NEW pc, NEW held, NEW mem, Reads(r, Begin(op, pc, held, mem))
  PROVE  req'[r].op = op /\ req'[r].held = held /\ req'[r].mem = mem /\ Elsewhere(r, {})
BY Opening DEF Reads

LEMMA CheckBegins ==
  ASSUME AllShaped, CardInv, NEW r \in Reqs, NEW u, NEW c \in CardIds, CheckStart(r, u, c)
  PROVE  CardInv'
<1>1. PICK row, held, mem :
        /\ row = [cards[c] EXCEPT !.done = ~cards[c].done] /\ held = {<<"board">>, <<"card", c>>}
        /\ mem = [card |-> c, rows |-> [d \in {c} |-> row]]
  OBVIOUS
<1>2. Reads(r, Begin("check", "save", held, mem))
  BY <1>1 DEF CheckStart
<1>3. cards[c] # Absent /\ UNCHANGED <<cards, index>>
  BY DEF CheckStart, boardRows, cardRows
<1>4. CardShape(row)
  BY <1>1, <1>3 DEF CardInv, Indexed, CardShape
<1>5. <<"card", c>> \in held /\ mem.card = c /\ mem.rows = [d \in {c} |-> row]
  BY <1>1
<1>6. req'[r].op = "check" /\ req'[r].held = held /\ req'[r].mem = mem /\ Elsewhere(r, {})
  BY <1>2, InHand
<1>7. "check" \notin Aloof
  BY DEF Aloof
<1> QED
  BY <1>3, <1>4, <1>5, <1>6, <1>7, OneRow

\* A close, a reply and a downgrade read the card alone and leave it where it is.
LEMMA AloofBegins ==
  ASSUME AllShaped, CardInv, NEW r \in Reqs, NEW u, NEW c \in CardIds,
         CloseStart(r, u, c) \/ ReplyStart(r, u, c) \/ UnsealStart(r, u, c)
  PROVE  CardInv'
<1>1. cards[c] # Absent /\ UNCHANGED <<cards, index>>
  BY DEF CloseStart, ReplyStart, UnsealStart, boardRows, cardRows
<1>2. CardShape(cards[c])
  BY <1>1 DEF CardInv, Indexed
<1>3. PICK held : held = {<<"card", c>>}
  OBVIOUS
<1>4. ASSUME CloseStart(r, u, c)
      PROVE  CardInv'
  <2>1. PICK row, mem :
          row = [cards[c] EXCEPT !.open = FALSE] /\ mem = [card |-> c, rows |-> [d \in {c} |-> row]]
    OBVIOUS
  <2>2. Reads(r, Begin("close", "save", held, mem))
    BY <1>3, <1>4, <2>1 DEF CloseStart
  <2>3. CardShape(row) /\ Place(row) = Place(cards[c])
    BY <1>2, <2>1 DEF CardShape, Place
  <2>4. mem.card = c /\ mem.rows = [d \in {c} |-> row] /\ "close" \in Aloof
    BY <2>1 DEF Aloof
  <2> QED
    <3>1. req'[r].op = "close" /\ req'[r].held = held /\ req'[r].mem = mem /\ Elsewhere(r, {})
      BY <2>2, InHand
    <3> QED
      BY <1>1, <1>3, <2>3, <2>4, <3>1, OneRow
<1>5. ASSUME ReplyStart(r, u, c)
      PROVE  CardInv'
  <2>1. PICK row, mem :
          row = cards[c] /\ mem = [card |-> c, rows |-> [d \in {c} |-> row], user |-> u]
    OBVIOUS
  <2>2. Reads(r, Begin("reply", "inbox", held, mem))
    BY <1>3, <1>5, <2>1 DEF ReplyStart
  <2>3. mem.card = c /\ mem.rows = [d \in {c} |-> row] /\ "reply" \in Aloof
    BY <2>1 DEF Aloof
  <2> QED
    <3>1. req'[r].op = "reply" /\ req'[r].held = held /\ req'[r].mem = mem /\ Elsewhere(r, {})
      BY <2>2, InHand
    <3> QED
      BY <1>1, <1>2, <1>3, <2>1, <2>3, <3>1, OneRow
<1>6. ASSUME UnsealStart(r, u, c)
      PROVE  CardInv'
  <2>1. PICK row, mem :
          /\ row = [cards[c] EXCEPT !.mode = "app_envelope"]
          /\ mem = [card |-> c, rows |-> [d \in {c} |-> row], user |-> u]
    OBVIOUS
  <2>2. Reads(r, Begin("unseal", "inbox", held, mem))
    BY <1>3, <1>6, <2>1 DEF UnsealStart
  <2>3. CardShape(row) /\ Place(row) = Place(cards[c])
    BY <1>2, <2>1 DEF CardShape, Place
  <2>4. mem.card = c /\ mem.rows = [d \in {c} |-> row] /\ "unseal" \in Aloof
    BY <2>1 DEF Aloof
  <2> QED
    <3>1. req'[r].op = "unseal" /\ req'[r].held = held /\ req'[r].mem = mem /\ Elsewhere(r, {})
      BY <2>2, InHand
    <3> QED
      BY <1>1, <1>3, <2>3, <2>4, <3>1, OneRow
<1> QED
  BY <1>4, <1>5, <1>6

\* Reading inbox rows does not change what is in hand.
LEMMA AloofGoesOn ==
  ASSUME AllShaped, CardInv, NEW r \in Reqs, (\E turns : ReplyInbox(r, turns)) \/ UnsealInbox(r)
  PROVE  CardInv'
<1>1. UNCHANGED <<cards, index>> /\ req[r].op \in Aloof
  BY DEF ReplyInbox, UnsealInbox, At, Aloof, boardRows, cardRows
<1>2. PICK m : m = req[r].mem
  OBVIOUS
<1>3. PICK who, wants :
        Reads(r, On(req[r], "save", {}, [card |-> m.card, rows |-> m.rows, who |-> who, needs |-> wants]))
  <2>1. ASSUME NEW turns, ReplyInbox(r, turns)
        PROVE  \E who, wants :
                 Reads(r, On(req[r], "save", {}, [card |-> m.card, rows |-> m.rows, who |-> who, needs |-> wants]))
    BY <1>2, <2>1 DEF ReplyInbox
  <2>2. ASSUME UnsealInbox(r)
        PROVE  \E who, wants :
                 Reads(r, On(req[r], "save", {}, [card |-> m.card, rows |-> m.rows, who |-> who, needs |-> wants]))
    BY <1>2, <2>2 DEF UnsealInbox
  <2> QED
    BY <2>1, <2>2
<1>4. PICK mem : mem = [card |-> m.card, rows |-> m.rows, who |-> who, needs |-> wants]
  OBVIOUS
<1>5. mem.card = m.card /\ mem.rows = m.rows
  BY <1>4
<1>6. PICK held : held = {}
  OBVIOUS
<1>7. Writes(r, On(req[r], "save", held, mem), {})
  BY <1>3, <1>4, <1>6 DEF Reads
<1>8. /\ req'[r].op = req[r].op /\ req'[r].mem = mem /\ req'[r].held = req[r].held \cup held
      /\ req'[r].stale = req[r].stale /\ Elsewhere(r, {})
  <2>1. req'[r].op = req[r].op /\ req'[r].mem = mem
    BY <1>7, Advancing, ZenonT(30)
  <2>2. req'[r].held = req[r].held \cup held /\ req'[r].stale = req[r].stale
    BY <1>7, Advancing, ZenonT(30)
  <2>3. Elsewhere(r, {})
    BY <1>7, Advancing, ZenonT(30)
  <2> QED
    BY <2>1, <2>2, <2>3
<1>9. HasCards(r)
  BY DEF CardInv
<1>10. req[r].op \notin {"card", "lane"}
  BY <1>1 DEF Aloof
<1>11. PICK q : q = req'[r] /\ q.op \in Aloof /\ q.op \notin {"card", "lane"}
  BY <1>1, <1>8, <1>10
<1>12. /\ \A c \in DOMAIN mem.rows :
            /\ CardShape(mem.rows[c]) /\ c \in index' /\ <<"card", c>> \in q.held
            /\ <<"card", c>> \notin q.stale => cards'[c] # Absent
       /\ DOMAIN mem.rows = {mem.card} /\ (<<"card", mem.card>> \notin q.stale => Leaving(m))
  BY <1>1, <1>2, <1>5, <1>6, <1>8, <1>9, <1>11 DEF HasCards
<1>13. Leaving(m) => Leaving(mem)'
  BY <1>1, <1>5 DEF Leaving, Place
<1>14. HasCards(r)'
  BY <1>8, <1>11, <1>12, <1>13 DEF HasCards
<1> QED
  BY <1>1, <1>8, <1>14, CardsUntouched

\* A move reads its card, and the rows of the siblings it puts in new places.
LEMMA LaneBegins ==
  ASSUME AllShaped, CardInv, NEW r \in Reqs, NEW u, NEW c \in CardIds, NEW d, NEW lane, NEW where,
         LaneStart(r, u, c, lane, where, d)
  PROVE  CardInv'
<1>0. cards[c] # Absent /\ UNCHANGED <<cards, index>>
  BY DEF LaneStart, boardRows, cardRows
<1>1. PICK pc, row, places :
        /\ CardShape(row) /\ DOMAIN places \subseteq CardIds
        /\ Reads(r, Begin("lane", pc, {<<"board">>, <<"card", c>>},
             [card |-> c, rows |-> [e \in {c} |-> row], places |-> places]))
  <2>1. PICK pc, position, p :
        Reads(r, Begin("lane", pc, {<<"board">>, <<"card", c>>},
          [card |-> c, rows |-> [e \in {c} |-> [cards[c] EXCEPT !.lane = lane, !.position = position]],
           places |-> [e \in InLane(lane) \ {c} |->
                         (Rank(InLane(lane) \ {c}, e) + (IF PosOf(e) <= p THEN 1 ELSE 2)) * LaneGap]]))
    BY Zenon DEF LaneStart
  <2>2. PICK places : places = [e \in InLane(lane) \ {c} |->
                         (Rank(InLane(lane) \ {c}, e) + (IF PosOf(e) <= p THEN 1 ELSE 2)) * LaneGap]
    OBVIOUS
  <2>3. PICK row : row = [cards[c] EXCEPT !.lane = lane, !.position = position]
    OBVIOUS
  <2>4. CardShape(row)
    BY <1>0, <2>3 DEF CardInv, Indexed, CardShape
  <2>5. DOMAIN places \subseteq CardIds
    BY <2>2 DEF InLane
  <2>6. Reads(r, Begin("lane", pc, {<<"board">>, <<"card", c>>},
             [card |-> c, rows |-> [e \in {c} |-> row], places |-> places]))
    BY <2>1, <2>2, <2>3, Zenon
  <2> QED
    BY <2>4, <2>5, <2>6, Zenon
<1>3. PICK mem : mem = [card |-> c, rows |-> [e \in {c} |-> row], places |-> places]
  OBVIOUS
<1>4. /\ mem.card = c /\ mem.rows = [e \in {c} |-> row] /\ mem.places = places
      /\ DOMAIN mem = {"card", "rows", "places"}
  BY <1>3
<1>5. PICK held : held = {<<"board">>, <<"card", c>>} /\ Reads(r, Begin("lane", pc, held, mem))
  BY <1>1, <1>3
<1>6. c \in index
  BY <1>0 DEF CardInv, Indexed
<1>7. req'[r].op = "lane" /\ req'[r].mem = mem /\ req'[r].held = held /\ Elsewhere(r, {})
  BY <1>5, Opening DEF Reads
<1>8. <<"card", c>> \in held
  BY <1>5
<1>9. HasCards(r)'
  BY <1>0, <1>1, <1>4, <1>6, <1>7, <1>8 DEF HasCards, Filing, Aloof
<1> QED
  BY <1>0, <1>7, <1>9, CardsUntouched

LEMMA LaneGoesOn ==
  ASSUME AllShaped, CardInv, NEW r \in Reqs, LaneSiblings(r)
  PROVE  CardInv'
<1>1. PICK m, C, rows :
        /\ m = req[r].mem /\ C = {d \in DOMAIN m.places : cards[d] # Absent}
        /\ rows = [d \in C \cup {m.card} |->
                     IF d = m.card THEN m.rows[d] ELSE [cards[d] EXCEPT !.position = m.places[d]]]
  OBVIOUS
<1>2. PICK new, held : new = [m EXCEPT !.rows = rows] /\ held = {<<"card", d>> : d \in C}
  OBVIOUS
<1>3. Writes(r, On(req[r], "save", held, new), {}) /\ UNCHANGED <<cards, index>>
  BY <1>1, <1>2 DEF LaneSiblings, Reads, boardRows, cardRows
<1>4. req[r].op = "lane" /\ req[r].pc = "siblings" /\ HasCards(r)
  BY DEF LaneSiblings, At, CardInv
<1>5. /\ DOMAIN m = {"card", "rows", "places"} /\ DOMAIN m.places \subseteq CardIds
      /\ m.card \in DOMAIN m.rows /\ \A c \in DOMAIN m.rows : CardShape(m.rows[c]) /\ c \in index
      /\ <<"card", m.card>> \in req[r].held
      /\ <<"card", m.card>> \notin req[r].stale => cards[m.card] # Absent
  BY <1>1, <1>4 DEF HasCards, Filing, Aloof
<1>6. new.rows = rows
  BY <1>2, <1>5
<1>7. ASSUME NEW c \in C \cup {m.card}
      PROVE  CardShape(rows[c]) /\ c \in index
  <2>1. CASE c = m.card
    BY <1>1, <1>5, <2>1
  <2>2. CASE c # m.card
    <3>1. rows[c] = [cards[c] EXCEPT !.position = m.places[c]] /\ cards[c] # Absent /\ c \in CardIds
      BY <1>1, <1>5, <1>7, <2>2
    <3>2. CardShape(cards[c]) /\ c \in index
      BY <3>1 DEF CardInv, Indexed
    <3> QED
      BY <3>1, <3>2 DEF CardShape
  <2> QED
    BY <2>1, <2>2
<1>8. /\ req'[r].op = req[r].op /\ req'[r].pc = "save" /\ req'[r].mem = new
      /\ req'[r].held = req[r].held \cup held /\ req'[r].stale = req[r].stale /\ Elsewhere(r, {})
  <2>1. Writes(r, On(req[r], "save", held, new), {})
    BY <1>3
  <2>2. req'[r].op = req[r].op /\ req'[r].pc = "save" /\ req'[r].mem = new
    BY <2>1, Advancing, ZenonT(30)
  <2>3. req'[r].held = req[r].held \cup held /\ req'[r].stale = req[r].stale
    BY <2>1, Advancing, ZenonT(30)
  <2>4. Elsewhere(r, {})
    BY <2>1, Advancing, ZenonT(30)
  <2> QED
    BY <2>2, <2>3, <2>4
<1>9. Elsewhere(r, {})
  BY <1>8
<1>10. DOMAIN rows = C \cup {m.card}
  BY <1>1
<1>11. ASSUME NEW c \in C \cup {m.card}
       PROVE  <<"card", c>> \in req'[r].held /\ (<<"card", c>> \notin req'[r].stale => cards'[c] # Absent)
  BY <1>1, <1>2, <1>3, <1>5, <1>8, <1>11
<1>12. HasCards(r)'
  BY <1>3, <1>4, <1>6, <1>7, <1>8, <1>10, <1>11 DEF HasCards, Filing, Aloof
<1> QED
  BY <1>3, <1>9, <1>12, CardsUntouched

\* Cards are written by these three.
LEMMA CardEnds ==
  ASSUME AllShaped, CardInv, NEW r \in Reqs, CardCommit(r)
  PROVE  CardInv'
<1>1. PICK row : row = req[r].mem.row
  OBVIOUS
<1>2. PICK c \in CardIds \ index : cards' = [cards EXCEPT ![c] = row] /\ index' = index \cup {c}
  BY <1>1 DEF CardCommit
<1>3. Writes(r, Idle, {}) /\ req[r].op = "card"
  BY DEF CardCommit, Leaves, At
<1>4. CardShape(row)
  BY <1>1, <1>3 DEF CardInv, HasCards, Filing, Aloof
<1>5. Elsewhere(r, {})
  BY <1>3, Closing
<1>6. HasCards(r)'
  BY <1>3, Closing, NoCards
<1>7. Indexed'
  BY <1>2, <1>4 DEF CardInv, Indexed
<1>8. \A e \in index : cards'[e] = cards[e]
  BY <1>2 DEF CardInv, Indexed
<1> QED
  BY <1>2, <1>5, <1>6, <1>7, <1>8, CardsKept

LEMMA CardSaved ==
  ASSUME AllShaped, CardInv, NEW r \in Reqs, CardSave(r)
  PROVE  CardInv'
<1>1. PICK rows, K : rows = req[r].mem.rows /\ K = {<<"card", c>> : c \in DOMAIN rows}
  OBVIOUS
<1>2. /\ req[r].op \in Filing \cup Aloof /\ index' = index
      /\ cards' = [c \in CardIds |-> IF c \in DOMAIN rows THEN rows[c] ELSE cards[c]]
  BY <1>1 DEF CardSave
<1>3. Writes(r, Idle, K)
  BY <1>1 DEF CardSave, Leaves
<1>4. \A c \in DOMAIN rows : CardShape(rows[c]) /\ c \in index
  BY <1>1, <1>2 DEF CardInv, HasCards, Filing, Aloof
<1>5. Elsewhere(r, K)
  BY <1>3, Closing
<1>6. HasCards(r)'
  BY <1>3, Closing, NoCards
<1>7. Indexed'
  BY <1>2, <1>4 DEF CardInv, Indexed
<1>8. \A c \in index : cards'[c] = cards[c] \/ <<"card", c>> \in K
  BY <1>1, <1>2 DEF CardInv, Indexed
<1> QED
  BY <1>2, <1>5, <1>6, <1>7, <1>8, CardsKept

LEMMA CardDeleted ==
  ASSUME AllShaped, CardInv, NEW r \in Reqs, DeleteBody(r)
  PROVE  CardInv'
<1>1. PICK c, K : c = req[r].mem.card /\ K = {<<"card", c>>}
  OBVIOUS
<1>2. cards' = [cards EXCEPT ![c] = Absent] /\ index' = index
  BY <1>1 DEF DeleteBody
<1>3. Writes(r, Idle, K)
  BY <1>1 DEF DeleteBody, Leaves
<1>4. Elsewhere(r, K)
  BY <1>3, Closing
<1>5. HasCards(r)'
  BY <1>3, Closing, NoCards
<1>6. Indexed'
  BY <1>2 DEF CardInv, Indexed
<1>7. \A e \in index : cards'[e] = cards[e] \/ <<"card", e>> \in K
  BY <1>1, <1>2 DEF CardInv, Indexed
<1> QED
  BY <1>2, <1>4, <1>5, <1>6, <1>7, CardsKept

\* Learnings and deletions have no cards in hand.
LEMMA LearningsHaveNoCards ==
  ASSUME AllShaped, CardInv, NEW r \in Reqs,
         \/ \E u, k : LearnStart(r, u, k)
         \/ \E u, c : DeleteStart(r, u, c)
         \/ LearnMemory(r) \/ LearnSave(r) \/ DeleteBoxes(r)
  PROVE  CardInv'
<1>1. UNCHANGED <<cards, index>>
  <2>1. ASSUME NEW u, NEW k, LearnStart(r, u, k)
        PROVE  UNCHANGED <<cards, index>>
    BY <2>1 DEF LearnStart, boardRows, cardRows
  <2>2. ASSUME NEW u, NEW c, DeleteStart(r, u, c)
        PROVE  UNCHANGED <<cards, index>>
    BY <2>2 DEF DeleteStart, boardRows, cardRows
  <2>3. ASSUME LearnMemory(r) \/ LearnSave(r) \/ DeleteBoxes(r)
        PROVE  UNCHANGED <<cards, index>>
    BY <2>3 DEF LearnMemory, LearnSave, DeleteBoxes, boardRows, cardRows
  <2> QED
    BY <2>1, <2>2, <2>3
<1>2. Acts(r, {"learn", "delete"})
  <2>1. ASSUME NEW u, NEW k, LearnStart(r, u, k)
        PROVE  Acts(r, {"learn", "delete"})
    BY <2>1, ActsByBeginning DEF LearnStart
  <2>2. ASSUME NEW u, NEW c, DeleteStart(r, u, c)
        PROVE  Acts(r, {"learn", "delete"})
    BY <2>2, ActsByBeginning DEF DeleteStart
  <2>3. ASSUME LearnMemory(r) \/ LearnSave(r) \/ DeleteBoxes(r)
        PROVE  Acts(r, {"learn", "delete"})
    <3>1. req[r].op \in {"learn", "delete"}
      BY <2>3 DEF LearnMemory, LearnSave, DeleteBoxes, At
    <3>2. \/ \E pc, held, mem : Writes(r, On(req[r], pc, held, mem), {})
          \/ \E K : Writes(r, Idle, K)
      BY <2>3, Zenon DEF LearnMemory, LearnSave, DeleteBoxes, Reads, Leaves
    <3> QED
      BY <3>1, <3>2, ActsByGoingOn, ActsByEnding
  <2> QED
    BY <2>1, <2>2, <2>3
<1>3. HasCards(r)'
  BY <1>2, NoCards DEF Acts
<1> QED
  BY <1>1, <1>2, <1>3, CardsUntouched DEF Acts

\* Rows of the board and views leave the cards alone.
LEMMA RowsLeaveCards ==
  ASSUME NEW r, RowStep(r) \/ LookStep(r)
  PROVE  UNCHANGED <<cards, index, notes>>
<1>1. ASSUME NEW S, NEW R, NEW f, NEW F, CreateStart(r, S, R, f, F)
      PROVE  UNCHANGED <<cards, index, notes>>
  BY <1>1 DEF CreateStart, boardRows, cardRows
<1>2. ASSUME NEW op, NEW u, NEW x, EditStart(r, op, u, x)
      PROVE  UNCHANGED <<cards, index, notes>>
  BY <1>2 DEF EditStart, cardRows
<1>3. ASSUME NEW u, NEW a, AttachStart(r, u, a)
      PROVE  UNCHANGED <<cards, index, notes>>
  BY <1>3 DEF AttachStart, boardRows, cardRows
<1>4. ASSUME CreateMemory(r) \/ CreateCommit(r) \/ EditSave(r) \/ AttachSave(r)
      PROVE  UNCHANGED <<cards, index, notes>>
  BY <1>4 DEF CreateMemory, CreateCommit, EditSave, AttachSave, cardRows
<1>5. ASSUME LookStep(r)
      PROVE  UNCHANGED <<cards, index, notes>>
  BY <1>5 DEF LookStep, ViewStart, ViewStep, ViewCard, ViewNotes, ViewFiles, ViewAnswer, boardRows, cardRows
<1> QED
  BY <1>1, <1>2, <1>3, <1>4, <1>5 DEF RowStep

LEMMA CardInit ==
  ASSUME Init
  PROVE  CardInv
BY DEF Init, InitRequests, Idle, CardInv, HasCards, Indexed, Filing, Aloof

LEMMA CardNext ==
  ASSUME AllShaped, CardInv, [ViewNext]_vars
  PROVE  CardInv'
<1>1. CASE UNCHANGED vars
  BY <1>1 DEF vars, boardRows, cardRows, CardInv, HasCards, Leaving, Indexed, Filing, Aloof
<1>2. ASSUME NEW r \in Reqs, RowStep(r)
      PROVE  CardInv'
  <2>1. Acts(r, RowOps)
    BY <1>2, RowsAct
  <2>2. HasCards(r)'
    BY <2>1, NoCards DEF Acts, RowOps, BoardOps
  <2>3. UNCHANGED <<cards, index>>
    BY <1>2, RowsLeaveCards
  <2> QED
    BY <2>1, <2>2, <2>3, CardsUntouched DEF Acts
<1>3. ASSUME NEW r \in Reqs, LookStep(r)
      PROVE  CardInv'
  <2>1. Acts(r, ReadOps)
    BY <1>3, LooksAct
  <2>2. HasCards(r)'
    BY <2>1, NoCards DEF Acts, ReadOps
  <2>3. UNCHANGED <<cards, index>>
    BY <1>3, RowsLeaveCards
  <2> QED
    BY <2>1, <2>2, <2>3, CardsUntouched DEF Acts
<1>4. ASSUME NEW r \in Reqs, CardStep(r)
      PROVE  CardInv'
  <2>1. CASE \E u, text, to : CardStart(r, u, text, to)
    BY <2>1, CardBegins
  <2>2. CASE \E u \in Users, c, d \in CardIds : \E l, w : LaneStart(r, u, c, l, w, d)
    BY <2>2, LaneBegins
  <2>3. CASE \E u \in Users, c \in CardIds :
               CheckStart(r, u, c) \/ CloseStart(r, u, c) \/ ReplyStart(r, u, c) \/ UnsealStart(r, u, c)
    BY <2>3, CheckBegins, AloofBegins
  <2>4. CASE \/ CardCommit(r) \/ CardSave(r) \/ DeleteBody(r) \/ LaneSiblings(r)
             \/ (\E turns : ReplyInbox(r, turns)) \/ UnsealInbox(r)
    BY <2>4, CardEnds, CardSaved, CardDeleted, LaneGoesOn, AloofGoesOn
  <2>5. CASE \/ \E u, k : LearnStart(r, u, k)
             \/ \E u, c : DeleteStart(r, u, c)
             \/ LearnMemory(r) \/ LearnSave(r) \/ DeleteBoxes(r)
    BY <2>5, LearningsHaveNoCards
  <2> QED
    BY <1>4, <2>1, <2>2, <2>3, <2>4, <2>5, Zenon DEF CardStep
<1>5. ASSUME NEW r \in Reqs, Crash(r), UNCHANGED boardRows
      PROVE  CardInv'
  <2>1. Writes(r, Idle, {}) /\ UNCHANGED <<cards, index>>
    BY <1>5 DEF Crash, Answer, Reads, boardRows, cardRows
  <2>2. HasCards(r)' /\ Elsewhere(r, {})
    BY <2>1, Closing, NoCards
  <2> QED
    BY <2>1, <2>2, CardsUntouched
<1> QED
  BY <1>1, <1>2, <1>3, <1>4, <1>5, StepKinds

\* A request whose row of the board is current does not change an archived board
\* but to open it.
LEMMA Thawing ==
  ASSUME BoardInv, NEW r \in Reqs, board # Absent, board.archived, EditSave(r) \/ AttachSave(r)
  PROVE  board' = [board EXCEPT !.archived = FALSE] \/ Outdated(r)
<1>1. PICK m : m = req[r].mem
  OBVIOUS
<1>2. board' = m.row /\ req[r].op \in BoardOps \cup {"attach"} /\ (EditSave(r) => req[r].op \in BoardOps)
  BY <1>1 DEF EditSave, AttachSave, At
<1>3. CASE req[r].op \in BoardOps
  BY <1>1, <1>2, <1>3 DEF BoardInv, Stands, IsCurrent, Succeeds, Outdated
<1>4. CASE req[r].op = "attach"
  BY <1>4 DEF BoardInv, Stands, IsCurrent, Outdated
<1> QED
  BY <1>2, <1>3, <1>4

\* A request that writes what is filed on an archived board had read it before.
LEMMA FiledLate ==
  ASSUME BoardInv, CardInv, NEW r \in Reqs, board # Absent, board.archived,
         LearnSave(r) \/ CardCommit(r) \/ CardSave(r),
         notes' # notes \/ index' # index
           \/ \E c \in CardIds : cards[c] # Absent /\ cards'[c] # Absent /\ Place(cards'[c]) # Place(cards[c])
  PROVE  Outdated(r)
<1>1. CASE req[r].op \in CardOps
  BY <1>1 DEF BoardInv, Stands, IsCurrent, Outdated
<1>2. CASE CardSave(r) /\ req[r].op \in Aloof
  <2>1. PICK m : m = req[r].mem
    OBVIOUS
  <2>2. cards' = [c \in CardIds |-> IF c \in DOMAIN m.rows THEN m.rows[c] ELSE cards[c]]
        /\ UNCHANGED <<notes, index>>
    BY <1>2, <2>1 DEF CardSave
  <2>3. DOMAIN m.rows = {m.card} /\ (<<"card", m.card>> \notin req[r].stale => Leaving(m))
    BY <1>2, <2>1 DEF CardInv, HasCards, Filing, Aloof
  <2> QED
    BY <1>2, <2>1, <2>2, <2>3 DEF Leaving, Outdated
<1> QED
  BY <1>1, <1>2 DEF LearnSave, CardCommit, CardSave, At, CardOps, Filing

\* On an archived board nothing changes, but by requests that are out of date.
THEOREM ArchivedStaysFrozen == ViewSpec => FrozenWhenArchived
<1>1. ASSUME BoardInv, CardInv, [ViewNext]_vars, board # Absent, board.archived, Changes
      PROVE  \/ board' = [board EXCEPT !.archived = FALSE]
             \/ \E r \in Reqs : req[r] # Idle /\ req'[r] = Idle /\ Outdated(r)
  <2>0. \/ board' # board \/ notes' # notes \/ files' # files \/ index' # index
        \/ \E c \in CardIds : cards[c] # Absent /\ cards'[c] # Absent /\ Place(cards'[c]) # Place(cards[c])
    BY <1>1, Zenon DEF Changes
  <2>1. ASSUME UNCHANGED <<board, notes, files, index>>, \A c \in CardIds : cards'[c] \in {cards[c], Absent}
        PROVE  FALSE
    BY <2>0, <2>1
  <2>2. ASSUME NEW r \in Reqs, EditSave(r) \/ AttachSave(r) \/ LearnSave(r) \/ CardCommit(r) \/ CardSave(r)
        PROVE  req[r] # Idle /\ req'[r] = Idle
    <3>1. AllShaped /\ \E K : Writes(r, Idle, K)
      BY <1>1, <2>2 DEF BoardInv, EditSave, AttachSave, LearnSave, CardCommit, CardSave, Leaves
    <3>2. req[r].op # "none"
      BY <2>2 DEF EditSave, AttachSave, LearnSave, CardCommit, CardSave, At, BoardOps, Filing, Aloof
    <3> QED
      BY <3>1, <3>2, Writing DEF Idle
  <2>3. ASSUME NEW r \in Reqs, EditSave(r) \/ AttachSave(r)
        PROVE  board' = [board EXCEPT !.archived = FALSE] \/ Outdated(r)
    BY <1>1, <2>3, Thawing
  <2>4. ASSUME NEW r \in Reqs, LearnSave(r) \/ CardCommit(r) \/ CardSave(r)
        PROVE  Outdated(r)
    <3>1. UNCHANGED <<board, files>>
      BY <2>4, CardsLeaveBoards DEF CardStep
    <3> QED
      BY <1>1, <2>0, <2>4, <3>1, FiledLate
  <2>5. CASE UNCHANGED vars
    BY <2>1, <2>5 DEF vars, boardRows, cardRows
  <2>6. ASSUME NEW r \in Reqs, RowStep(r), ~(EditSave(r) \/ AttachSave(r))
        PROVE  FALSE
    <3>1. ~CreateCommit(r)
      BY <1>1 DEF CreateCommit, At, BoardInv, Stands, OneBoard
    <3>2. UNCHANGED <<board, files>>
      BY <2>6, <3>1, RowsLeaveBoards
    <3> QED
      BY <2>1, <2>6, <3>2, RowsLeaveCards
  <2>7. ASSUME NEW r \in Reqs, LookStep(r) \/ (Crash(r) /\ UNCHANGED boardRows)
        PROVE  FALSE
    <3>1. UNCHANGED <<board, files>>
      BY <2>7 DEF LookStep, ViewStart, ViewStep, ViewCard, ViewNotes, ViewFiles, ViewAnswer, boardRows
    <3>2. UNCHANGED <<cards, index, notes>>
      BY <2>7, RowsLeaveCards DEF boardRows, cardRows
    <3> QED
      BY <2>1, <3>1, <3>2
  <2>8. ASSUME NEW r \in Reqs, CardStep(r), ~(LearnSave(r) \/ CardCommit(r) \/ CardSave(r))
        PROVE  FALSE
    <3>1. UNCHANGED <<board, notes, index>> /\ \A c \in CardIds : cards'[c] \in {cards[c], Absent}
      BY <1>1, <2>8, CardsLeftAlone DEF CardInv, Indexed
    <3>2. files' = files
      BY <2>8, CardsLeaveBoards
    <3> QED
      BY <2>1, <3>1, <3>2
  <2> QED
    BY <1>1, <2>2, <2>3, <2>4, <2>5, <2>6, <2>7, <2>8, StepKinds
<1>2. BoardInv => AllShaped
  BY DEF BoardInv
<1> QED
  BY <1>1, <1>2, BoardInvariant, CardInit, CardNext, PTL DEF ViewSpec, FrozenWhenArchived

-----------------------------------------------------------------------------
(* What a list counts *)

\* A view has seen each card once and has yet to look at others; and what was
\* deleted before it began is still so, unless a write of an old row undid that.
Counted(m) ==
  /\ m.todo \subseteq CardIds
  /\ \A x \in m.seen : x.id \in CardIds \ m.todo
  /\ \A x, y \in m.seen : x.id = y.id => x = y
Undone(c) == <<"card", c>> \in overwritten
Gone(m) ==
  /\ \A c \in m.gone : c \in index /\ (cards[c] = Absent \/ Undone(c))
  /\ \A x \in m.seen : x.id \in m.gone => Undone(x.id)
CountInv == \A r \in Reqs : req[r].op \in ReadOps => Counted(req[r].mem) /\ Gone(req[r].mem)

\* Of some numbers one is the least.
LEMMA Least ==
  ASSUME NEW S \in SUBSET Nat, S # {}
  PROVE  \E x \in S : \A y \in S : x <= y
<1>1. PICK x \in S : \A y \in S : ~(<<y, x>> \in OpToRel(<, Nat))
  BY NatLessThanWellFounded, WFMin
<1>2. ASSUME NEW y \in S
      PROVE  x <= y
  <2>1. <<y, x>> \in Nat \X Nat /\ ~(<<y, x>> \in OpToRel(<, Nat))
    BY <1>1
  <2> QED
    BY <2>1 DEF OpToRel
<1> QED
  BY <1>2

\* A card that was deleted comes back by a write of an old row only.
LEMMA GoneStays ==
  ASSUME BoardInv, CardInv, [ViewNext]_vars
  PROVE  /\ overwritten \subseteq overwritten' /\ index \subseteq index'
         /\ \A c \in index : cards[c] = Absent => cards'[c] = Absent \/ Undone(c)'
<1>1. CASE UNCHANGED <<cards, index>> /\ overwritten \subseteq overwritten'
  BY <1>1
<1>2. CASE UNCHANGED vars
  BY <1>1, <1>2 DEF vars, boardRows, cardRows
<1>3. ASSUME NEW r \in Reqs, RowStep(r)
      PROVE  UNCHANGED <<cards, index>> /\ overwritten \subseteq overwritten'
  <2>1. CASE CreateCommit(r) \/ EditSave(r) \/ AttachSave(r)
    BY <1>3, <2>1, RowsLeaveCards DEF CreateCommit, EditSave, AttachSave, Clobbers
  <2> QED
    BY <1>3, <2>1, RowsLeaveCards, RowsLeaveBoards
<1>4. ASSUME NEW r \in Reqs, LookStep(r) \/ (Crash(r) /\ UNCHANGED boardRows)
      PROVE  UNCHANGED <<cards, index>> /\ overwritten \subseteq overwritten'
  <2>1. overwritten' = overwritten
    BY <1>4 DEF Crash, LookStep, ViewStart, ViewStep, ViewCard, ViewNotes, ViewFiles, ViewAnswer
  <2> QED
    BY <1>4, <2>1, RowsLeaveCards DEF boardRows, cardRows
<1>5. ASSUME NEW r \in Reqs, CardStep(r)
      PROVE  /\ overwritten \subseteq overwritten' /\ index \subseteq index'
             /\ \A c \in index : cards[c] = Absent => cards'[c] = Absent \/ Undone(c)'
  <2>1. overwritten \subseteq overwritten' /\ DOMAIN cards = CardIds /\ index \subseteq CardIds
    BY <1>5, CardsLeaveBoards DEF CardInv, Indexed
  <2>2. CASE LearnSave(r)
    BY <2>1, <2>2 DEF LearnSave, cardRows
  <2>3. CASE CardCommit(r)
    BY <2>1, <2>3 DEF CardCommit
  <2>4. CASE CardSave(r)
    <3>1. PICK rows : rows = req[r].mem.rows
      OBVIOUS
    <3>2. /\ req[r].op \in Filing \cup Aloof /\ index' = index
          /\ cards' = [c \in CardIds |-> IF c \in DOMAIN rows THEN rows[c] ELSE cards[c]]
          /\ overwritten' = overwritten \cup (req[r].stale \cap {<<"card", c>> : c \in DOMAIN rows})
      BY <2>4, <3>1 DEF CardSave, Clobbers
    <3>3. ASSUME NEW c \in index, cards[c] = Absent, c \in DOMAIN rows
          PROVE  Undone(c)'
      <4>1. <<"card", c>> \in req[r].stale
        BY <3>1, <3>2, <3>3 DEF CardInv, HasCards
      <4> QED
        BY <3>2, <3>3, <4>1 DEF Undone
    <3> QED
      BY <2>1, <3>2, <3>3
  <2>5. CASE ~(LearnSave(r) \/ CardCommit(r) \/ CardSave(r))
    BY <1>5, <2>1, <2>5, CardsLeftAlone
  <2> QED
    BY <2>2, <2>3, <2>4, <2>5
<1> QED
  BY <1>1, <1>2, <1>3, <1>4, <1>5, StepKinds

\* What was gone stays so for whoever does not look just now.
LEMMA GoneKept ==
  ASSUME BoardInv, CardInv, [ViewNext]_vars, NEW m, Gone(m)
  PROVE  Gone(m)'
<1>1. ASSUME NEW c, Undone(c) PROVE Undone(c)'
  BY <1>1, GoneStays DEF Undone
<1>2. ASSUME NEW c \in m.gone PROVE c \in index' /\ (cards'[c] = Absent \/ Undone(c)')
  BY <1>1, <1>2, GoneStays DEF Gone
<1> QED
  BY <1>1, <1>2 DEF Gone

\* A view that begins has seen nothing.
LEMMA CountBegins ==
  ASSUME AllShaped, CardInv, NEW r \in Reqs, NEW op, NEW u, NEW a, ViewStart(r, op, u, a)
  PROVE  (Counted(req[r].mem) /\ Gone(req[r].mem))'
<1>1. PICK mem : mem = [user |-> u, row |-> board, todo |-> index, seen |-> {}, notes |-> <<>>,
                        files |-> {}, gone |-> {c \in index : cards[c] = Absent}]
  OBVIOUS
<1>2. Reads(r, Begin(op, "scan", {}, mem)) /\ UNCHANGED <<cards, index>>
  BY <1>1 DEF ViewStart, boardRows, cardRows
<1>3. req'[r].mem = mem
  BY <1>2, Opening DEF Reads
<1>4. mem.todo = index /\ mem.seen = {} /\ mem.gone = {c \in index : cards[c] = Absent}
  BY <1>1
<1>5. index \subseteq CardIds
  BY DEF CardInv, Indexed
<1> QED
  BY <1>2, <1>3, <1>4, <1>5 DEF Counted, Gone

\* It looks at one card that it has not seen.
LEMMA CountGoesOn ==
  ASSUME BoardInv, ViewInv, CountInv, NEW r \in Reqs, NEW op \in Views, ViewCard(r, op)
  PROVE  (Counted(req[r].mem) /\ Gone(req[r].mem))'
<1>1. PICK m, c, seen :
        /\ m = req[r].mem /\ m.todo # {} /\ c = CHOOSE x \in m.todo : \A y \in m.todo : x <= y
        /\ seen = IF cards[c] = Absent THEN m.seen ELSE m.seen \cup {SeenCard(req[r], c)}
        /\ Reads(r, On(req[r], "scan", {}, [m EXCEPT !.todo = m.todo \ {c}, !.seen = seen]))
  BY Zenon DEF ViewCard
<1>2. PICK new : new = [m EXCEPT !.todo = m.todo \ {c}, !.seen = seen]
  OBVIOUS
<1>3. Writes(r, On(req[r], "scan", {}, new), {}) /\ UNCHANGED <<cards, index, overwritten>>
  BY <1>1, <1>2 DEF ViewCard, Reads, boardRows, cardRows
<1>4. AllShaped /\ req[r].op \in ReadOps
  BY ViewAssumption DEF BoardInv, ViewCard, At, ReadOps
<1>5. req'[r].mem = new
  BY <1>3, <1>4, Advancing
<1>6. Discreet(req[r]) /\ Counted(m) /\ Gone(m)
  BY <1>1, <1>4 DEF ViewInv, CountInv
<1>7. new.todo = m.todo \ {c} /\ new.seen = seen /\ new.gone = m.gone
  BY <1>1, <1>2, <1>6 DEF Discreet
<1>8. c \in m.todo /\ c \in CardIds
  <2>1. m.todo \subseteq CardIds /\ m.todo \in SUBSET Nat
    BY <1>6, CollabAssumption DEF Counted, CardIds
  <2> QED
    BY <1>1, <2>1, Least
<1>9. PICK x : x = SeenCard(req[r], c)
  OBVIOUS
<1>10. x.id = c /\ \A y \in seen : y \in m.seen \/ (y = x /\ cards[c] # Absent)
  BY <1>1, <1>9 DEF SeenCard
<1>11. Counted(new)
  BY <1>6, <1>7, <1>8, <1>10 DEF Counted
<1>12. Gone(new)
  BY <1>6, <1>7, <1>10 DEF Gone
<1> QED
  BY <1>3, <1>5, <1>11, <1>12 DEF Counted, Gone, Undone

\* The rest of the page does not count.
LEMMA CountRests ==
  ASSUME BoardInv, ViewInv, CountInv, NEW r \in Reqs,
         ViewNotes(r) \/ \E op \in Views : ViewFiles(r, op)
  PROVE  (Counted(req[r].mem) /\ Gone(req[r].mem))'
<1>1. PICK m, pc, new :
        /\ m = req[r].mem /\ Reads(r, On(req[r], pc, {}, new))
        /\ \/ \E v : new = [m EXCEPT !.notes = v]
           \/ \E v : new = [m EXCEPT !.files = v]
  <2>1. CASE ViewNotes(r)
    BY <2>1 DEF ViewNotes
  <2>2. CASE \E op \in Views : ViewFiles(r, op)
    BY <2>2 DEF ViewFiles
  <2> QED
    BY <2>1, <2>2
<1>2. UNCHANGED <<cards, index, overwritten>>
  BY DEF ViewNotes, ViewFiles, boardRows, cardRows
<1>3. AllShaped /\ req[r].op \in ReadOps
  BY ViewAssumption DEF BoardInv, ViewNotes, ViewFiles, At, ReadOps
<1>4. req'[r].mem = new
  <2>1. Writes(r, On(req[r], pc, {}, new), {})
    BY <1>1 DEF Reads
  <2> QED
    BY <1>3, <2>1, Advancing
<1>5. Discreet(req[r]) /\ Counted(m) /\ Gone(m)
  BY <1>1, <1>3 DEF ViewInv, CountInv
<1>6. new.todo = m.todo /\ new.seen = m.seen /\ new.gone = m.gone
  BY <1>1, <1>5 DEF Discreet
<1> QED
  BY <1>2, <1>4, <1>5, <1>6 DEF Counted, Gone, Undone

LEMMA CountKept ==
  ASSUME BoardInv, ViewInv, CardInv, CountInv, [ViewNext]_vars
  PROVE  CountInv'
<1>1. SUFFICES ASSUME NEW p \in Reqs, req'[p].op \in ReadOps
               PROVE  (Counted(req[p].mem) /\ Gone(req[p].mem))'
  BY DEF CountInv
<1>2. AllShaped
  BY DEF BoardInv
<1>3. ASSUME req'[p].op = req[p].op, req'[p].mem = req[p].mem
      PROVE  (Counted(req[p].mem) /\ Gone(req[p].mem))'
  <2>1. PICK m : m = req[p].mem
    OBVIOUS
  <2>2. Counted(m) /\ Gone(m)
    BY <1>1, <1>3, <2>1 DEF CountInv
  <2>3. Gone(m)'
    BY <2>2, GoneKept
  <2> QED
    BY <1>3, <2>1, <2>2, <2>3 DEF Counted, Gone
<1>4. CASE Aside(p)
  BY <1>3, <1>4 DEF Aside
<1>5. CASE UNCHANGED vars
  BY <1>3, <1>5 DEF vars
<1>6. ASSUME NEW r \in Reqs, RowStep(r) \/ CardStep(r) \/ Crash(r)
      PROVE  Aside(p)
  <2>1. Acts(r, RowOps \cup CardOps \cup FreeOps)
    BY <1>2, <1>6, RowsAct, CardsAct, ActsByEnding DEF Crash, Answer, Reads, Acts
  <2> QED
    BY <1>1, <2>1 DEF Acts, Elsewhere, RowOps, CardOps, FreeOps, ReadOps, BoardOps
<1>7. ASSUME NEW r \in Reqs, LookStep(r), p # r
      PROVE  Aside(p)
  <2>1. Acts(r, ReadOps)
    BY <1>2, <1>7, LooksAct
  <2> QED
    BY <1>7, <2>1 DEF Acts, Elsewhere
<1>8. ASSUME LookStep(p)
      PROVE  (Counted(req[p].mem) /\ Gone(req[p].mem))'
  <2>1. ASSUME NEW op \in Views, ViewAnswer(p, op)
        PROVE  FALSE
    BY <1>1, <1>2, <2>1, Closing DEF ViewAnswer, Answer, Reads, ReadOps
  <2>2. ASSUME NEW op, NEW u, NEW a, ViewStart(p, op, u, a)
        PROVE  (Counted(req[p].mem) /\ Gone(req[p].mem))'
    BY <1>2, <2>2, CountBegins
  <2>3. ASSUME NEW op \in Views, ViewCard(p, op)
        PROVE  (Counted(req[p].mem) /\ Gone(req[p].mem))'
    BY <2>3, CountGoesOn
  <2>4. ASSUME ViewNotes(p) \/ \E op \in Views : ViewFiles(p, op)
        PROVE  (Counted(req[p].mem) /\ Gone(req[p].mem))'
    BY <2>4, CountRests
  <2> QED
    BY <1>8, <2>1, <2>2, <2>3, <2>4, Zenon DEF LookStep, ViewStep
<1> QED
  BY <1>4, <1>5, <1>6, <1>7, <1>8, StepKinds

LEMMA CountInit ==
  ASSUME Init
  PROVE  CountInv
BY DEF Init, InitRequests, Idle, CountInv, ReadOps

\* Two parts of a finite set have together as many elements as it has.
LEMMA Parts ==
  ASSUME NEW S, IsFiniteSet(S), NEW T \in SUBSET S
  PROVE  /\ Cardinality(T) \in Nat /\ Cardinality(S \ T) \in Nat
         /\ Cardinality(T) + Cardinality(S \ T) = Cardinality(S)
<1>1. IsFiniteSet(T) /\ IsFiniteSet(S \ T)
  BY FS_Subset
<1>2. T \cup (S \ T) = S /\ T \cap (S \ T) = {}
  OBVIOUS
<1>3. Cardinality(T \cup (S \ T)) = Cardinality(T) + Cardinality(S \ T) - Cardinality(T \cap (S \ T))
  BY <1>1, FS_Union
<1>4. Cardinality(T) \in Nat /\ Cardinality(S \ T) \in Nat
  BY <1>1, FS_CardinalityType
<1>5. Cardinality(T \cap (S \ T)) = 0 /\ Cardinality(T \cup (S \ T)) = Cardinality(S)
  BY <1>2, FS_EmptySet
<1> QED
  BY <1>3, <1>4, <1>5

\* Cards seen once each are as many as their ids.
LEMMA AsManyIds ==
  ASSUME NEW m, Counted(m)
  PROVE  IsFiniteSet(m.seen) /\ Cardinality(m.seen) = Cardinality({x.id : x \in m.seen})
<1>1. PICK ids : ids = {x.id : x \in m.seen}
  OBVIOUS
<1>2. ids \in SUBSET CardIds
  BY <1>1 DEF Counted
<1>3. IsFiniteSet(ids)
  <2>1. 1 \in Int /\ MaxCard \in Int
    BY CollabAssumption
  <2>2. IsFiniteSet(CardIds)
    BY <2>1, FS_Interval DEF CardIds
  <2> QED
    BY <1>2, <2>2, FS_Subset
<1>4. PICK f : f = [x \in m.seen |-> x.id]
  OBVIOUS
<1>5. f \in [m.seen -> ids]
  BY <1>1, <1>4
<1>6. \A x, y \in m.seen : f[x] = f[y] => x = y
  BY <1>4 DEF Counted
<1>7. \A i \in ids : \E x \in m.seen : f[x] = i
  BY <1>1, <1>4
<1>8. f \in Injection(m.seen, ids) /\ f \in Surjection(m.seen, ids)
  BY <1>5, <1>6, <1>7, Fun_IsInj, Fun_IsSurj
<1> QED
  BY <1>1, <1>3, <1>8, FS_Injection

\* The numbers of a list add up although cards move, close and go meanwhile.
THEOREM ListsAddUp == ViewSpec => []ListAddsUp
<1>1. ASSUME CountInv, NEW r \in Reqs, Answered(r)
      PROVE  LET m == req[r].mem
                 s == Summary(m)
             IN /\ s.cards = Cardinality({x.id : x \in m.seen}) /\ s.open + s.closed = s.cards
                /\ s.backlog + s.doing + s.done = s.open /\ s.needsYou <= s.open
                /\ \A x \in m.seen : x.id \in m.gone => <<"card", x.id>> \in overwritten
  <2>1. PICK m, seen, Open, Yours, in, s :
          /\ m = req[r].mem /\ seen = m.seen /\ Open = {x \in seen : x.open}
          /\ Yours = {x \in Open : x.yours} /\ in = Buckets(m.row, seen) /\ s = Summary(m)
    OBVIOUS
  <2>2. Counted(m) /\ Gone(m)
    BY <1>1, <2>1, ViewAssumption DEF CountInv, Answered, ReadOps
  <2>3. IsFiniteSet(seen) /\ Cardinality(seen) = Cardinality({x.id : x \in seen})
    BY <2>1, <2>2, AsManyIds
  <2>4. /\ s.cards = Cardinality(seen) /\ s.open = Cardinality(Open) /\ s.closed = Cardinality(seen \ Open)
        /\ s.needsYou = Cardinality(Yours)
        /\ s.backlog = Cardinality(in["backlog"]) /\ s.doing = Cardinality(in["doing"])
        /\ s.done = Cardinality(in["done"])
    BY <2>1 DEF Summary
  <2>5. IsFiniteSet(Open) /\ Cardinality(Open) + Cardinality(seen \ Open) = Cardinality(seen)
    <3>1. Open \in SUBSET seen
      BY <2>1
    <3> QED
      BY <2>3, <3>1, Parts, FS_Subset
  <2>6. Cardinality(Yours) <= Cardinality(Open)
    <3>1. Yours \in SUBSET Open
      BY <2>1
    <3> QED
      BY <2>5, <3>1, FS_Subset
  <2>7. /\ in["backlog"] \subseteq Open /\ in["doing"] = (Open \ in["backlog"]) \ in["done"]
        /\ in["done"] \subseteq Open \ in["backlog"]
    <3>1. \A x : Bucket(m.row, x.lane) \in {"backlog", "doing", "done"}
      BY DEF Bucket
    <3>2. \A b \in {"backlog", "doing", "done"} : in[b] = {x \in Open : Bucket(m.row, x.lane) = b}
      BY <2>1 DEF Buckets
    <3> QED
      BY <3>1, <3>2
  <2>8. Cardinality(in["backlog"]) + Cardinality(in["doing"]) + Cardinality(in["done"]) = Cardinality(Open)
    <3>1. PICK B, D, E, Rest :
            B = in["backlog"] /\ D = in["doing"] /\ E = in["done"] /\ Rest = Open \ in["backlog"]
      OBVIOUS
    <3>2. /\ B \in SUBSET Open /\ Rest = Open \ B /\ E \in SUBSET Rest /\ D = Rest \ E
          /\ Rest \in SUBSET Open
      BY <2>7, <3>1
    <3>3. IsFiniteSet(Rest)
      BY <2>5, <3>2, FS_Subset
    <3>4. Cardinality(B) + Cardinality(Rest) = Cardinality(Open)
          /\ Cardinality(B) \in Nat /\ Cardinality(Rest) \in Nat
      BY <2>5, <3>2, Parts
    <3>5. Cardinality(E) + Cardinality(D) = Cardinality(Rest)
          /\ Cardinality(E) \in Nat /\ Cardinality(D) \in Nat
      BY <3>2, <3>3, Parts
    <3> QED
      BY <3>1, <3>4, <3>5
  <2> QED
    BY <2>1, <2>2, <2>3, <2>4, <2>5, <2>6, <2>8 DEF Gone, Undone
<1>2. CountInv => ListAddsUp
  BY <1>1 DEF ListAddsUp
<1>3. BoardInv => AllShaped
  BY DEF BoardInv
<1> QED
  BY <1>2, <1>3, BoardInvariant, ViewInit, ViewKept, CardInit, CardNext, CountInit, CountKept, PTL DEF ViewSpec
=============================================================================
