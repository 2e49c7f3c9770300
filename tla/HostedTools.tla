----------------------------- MODULE HostedTools -----------------------------
(***************************************************************************)
(* The tools of the hosted MCP server (mcp/protocol, mcp/hub): what a POST *)
(* does once its agent is bound.  The calls of a batch are worked off in   *)
(* order and answered together.  A tool is a short list of requests to the *)
(* hub, one after the other: most look at the board or thread first and    *)
(* then write.                                                             *)
(*                                                                         *)
(* The hub is external here: a request that writes looks for an            *)
(* idempotency row, if a key came with it, and commits the message and the *)
(* row in a later step (ThreadMail has the whole of it), or refuses.  It   *)
(* does so even when the isolate that sent it has gone.                    *)
(***************************************************************************)
EXTENDS HostedSessions, TLC

CONSTANTS
  Tasks,      \* what clients want done, each once
  TaskInfo,   \* its tool, board, thread, the names of its other arguments, whether it
              \* carries an idempotency key, what it sends: flat arguments and a bundle
  Boards,     \* boards the tasks are about
  Mail,       \* threads the tasks are about
  MailInfo    \* agents a thread is from or for, slugs its audience and assignee end
              \* with, and whether it is for all agents of a user

VARIABLES
  sealed,    \* external: boards and threads that are end-to-end encrypted
  archived,  \* external: archived boards
  post,      \* external: how often the hub did each task
  keyRow,    \* external: tasks with an idempotency row
  stored,    \* external: tasks whose handshake card is on the agent
  done,      \* tasks a client has an answer for
  fine,      \* those whose answer is no error
  crossed    \* history: tasks with two requests at the hub at the same time

hubSide  == <<sealed, archived, post, keyRow, stored>>
toolVars == <<hubSide, done, fine, crossed>>

Task(q) == q.batch[q.at]
Info(n) == TaskInfo[n]
Tool(n) == TaskInfo[n].tool

-----------------------------------------------------------------------------
\* Tools that read: their requests to the hub.
ReadPlans == [
  health        |-> <<>>,
  ping          |-> <<>>,
  list_threads  |-> <<"listThreads", "peek">>,
  get_thread    |-> <<"fetchAppMessages">>]

ListPlans == [
  list_agents   |-> <<"listAgents">>,
  list_contacts |-> <<"listContacts", "listExternalContacts">>,
  list_collabs  |-> <<"listCollabs">>,
  get_collab    |-> <<"getCollab">>]

\* Hub mail has no processed mark: the tool only says so.
MarkProcessed == [mark_processed |-> <<>>]

\* Tools about a board, which is looked at first.
BoardPlans == [
  create_card        |-> <<"getCollab", "createThread">>,
  set_lane           |-> <<"getCollab", "setLane">>,
  set_checklist_item |-> <<"getCollab", "setChecklistItem">>,
  add_learning       |-> <<"getCollab", "addLearning">>]

ReplyPlan == [reply_to_thread |-> <<"fetchAppMessages", "replyToThread">>]

MailPlans == [
  close_thread   |-> <<"closeThread">>,
  delete_thread  |-> <<"deleteThread">>,
  upvote_message |-> <<"upvoteMessage">>]

\* A draft may be filed on a board.
ForwardPlan(n) == (IF Info(n).board = Absent THEN <<>> ELSE <<"getCollab">>) \o <<"createThread">>

\* publish_handshake stores the card, then mails it: on a thread, to a recipient, or not.
HandshakePlan(n) ==
  <<"putAgentHandshake">> \o
    (IF Info(n).thread # Absent THEN ReplyPlan.reply_to_thread
     ELSE IF "recipient" \in Info(n).args THEN <<"createThread">> ELSE <<>>)

\* What hosts are told: these tools change nothing.
ReadOnlyHint == DOMAIN ReadPlans \cup DOMAIN ListPlans \cup DOMAIN MarkProcessed
FixedTools   == ReadOnlyHint \cup DOMAIN BoardPlans \cup DOMAIN ReplyPlan \cup DOMAIN MailPlans

Plan == [n \in Tasks |->
  CASE Tool(n) \in DOMAIN ReadPlans     -> ReadPlans[Tool(n)]
    [] Tool(n) \in DOMAIN ListPlans     -> ListPlans[Tool(n)]
    [] Tool(n) \in DOMAIN MarkProcessed -> MarkProcessed[Tool(n)]
    [] Tool(n) \in DOMAIN BoardPlans    -> BoardPlans[Tool(n)]
    [] Tool(n) \in DOMAIN ReplyPlan     -> ReplyPlan[Tool(n)]
    [] Tool(n) \in DOMAIN MailPlans     -> MailPlans[Tool(n)]
    [] Tool(n) = "forward_draft"        -> ForwardPlan(n)
    [] Tool(n) = "publish_handshake"    -> HandshakePlan(n)]

Call(q) == Plan[Task(q)][q.step]

\* The requests that change something at the hub, among all of HubClient.
MailWrites  == {"createThread", "replyToThread", "closeThread", "deleteThread", "upvoteMessage"}
BoardWrites == {"setLane", "setChecklistItem", "addLearning"}
Writes      == MailWrites \cup BoardWrites \cup {"putAgentHandshake"}

\* Failures that a tool swallows: details of a list, and contacts abroad.
Soft == {"peek", "listExternalContacts"}

-----------------------------------------------------------------------------
\* Arguments a tool insists on before it asks the hub anything.
OfThread == {"get_thread", "close_thread", "delete_thread", "mark_processed", "reply_to_thread",
             "upvote_message", "set_lane", "set_checklist_item"}
OfBoard  == {"get_collab"} \cup DOMAIN BoardPlans
Further  == [reply_to_thread |-> "bundle", upvote_message |-> "message_id", create_card |-> "title",
             set_lane |-> "lane_id", set_checklist_item |-> "item_id", add_learning |-> "notes",
             forward_draft |-> "recipient"]

Complete(n) ==
  /\ Tool(n) \in OfThread => Info(n).thread # Absent
  /\ Tool(n) \in OfBoard  => Info(n).board # Absent
  /\ Tool(n) \in DOMAIN Further => Further[Tool(n)] \in Info(n).args

\* Tools there are; only two of them have an argument for a key in their schema.
ASSUME ToolAssumption == \A n \in Tasks :
  /\ Tool(n) \in FixedTools \cup {"forward_draft", "publish_handshake"}
  /\ Info(n).key \in BOOLEAN
  /\ Info(n).key => Tool(n) \in {"reply_to_thread", "create_card"}

\* What is sent: a draft's flat arguments win over the bundle they come with.
Bundle(n) ==
  (IF Tool(n) = "forward_draft" THEN Info(n).flat @@ Info(n).bundle ELSE Info(n).bundle)
    @@ [text |-> FALSE, files |-> {}, envelope |-> FALSE]

\* A file has its content inline, or is only a label, or a path on the client's host.
HasContent(b) == b.text \/ "inline" \in b.files
Accepts(n)    == Complete(n) /\ (Tool(n) = "forward_draft" => HasContent(Bundle(n)))

\* No paths of the client's host, which nobody else can read, and no sealed mail.
Prepares(n) ==
  Tool(n) \in {"reply_to_thread", "forward_draft"} =>
    "path" \notin Bundle(n).files /\ (Tool(n) = "forward_draft" => ~Bundle(n).envelope)

\* Whether an agent may work on a thread.
ForWebAgent(t, sub, slug) ==
  /\ t \notin sealed
  /\ <<sub, slug>> \in MailInfo[t].agents \/ MailInfo[t].all \/ slug \in MailInfo[t].slugs

\* What a tool sees of its board or thread, and stops at.
BoardRefused(n) ==
  /\ Tool(n) \in DOMAIN BoardPlans \cup {"forward_draft"}
  /\ Info(n).board \in sealed \/ (Tool(n) # "forward_draft" /\ Info(n).board \in archived)

Stops(q) ==
  LET n == Task(q) IN
  \/ Call(q) = "getCollab" /\ BoardRefused(n)
  \/ Call(q) = "fetchAppMessages" /\ ~ForWebAgent(Info(n).thread, q.sub, q.slug)

-----------------------------------------------------------------------------
\* MUTANT: a reply goes out without the key of the client.
KeyOfCards(n) == Info(n).key /\ Tool(n) = "create_card"

\* Only replies and cards hand the client's key on.
Key(n) == Info(n).key /\ Tool(n) \in {"reply_to_thread", "create_card"}

\* A call of the batch is worked off: the next one, or the answer to all of them.
Advance(r, ok) ==
  LET good == IF ok THEN req[r].ok \cup {Task(req[r])} ELSE req[r].ok IN
  IF req[r].at < Len(req[r].batch)
  THEN /\ req' = [req EXCEPT ![r].at = @ + 1, ![r].step = 1, ![r].pc = "tool", ![r].ok = good]
       /\ UNCHANGED <<done, fine, told>>
  ELSE /\ Answer(r) /\ Tells(r)
       /\ done' = done \cup {req[r].batch[k] : k \in 1..req[r].at}
       /\ fine' = fine \cup good

\* The hub answered: the next request of the tool, or its result.
NextCall(r) ==
  IF req[r].step < Len(Plan[Task(req[r])])
  THEN /\ req' = [req EXCEPT ![r].step = @ + 1, ![r].pc = "tool"]
       /\ UNCHANGED <<done, fine, told>>
  ELSE Advance(r, TRUE)

Fails(r) == Advance(r, FALSE)

\* Wrong arguments, or a tool that needs no hub.
Direct(r) ==
  /\ At(r, "tool") /\ req[r].step = 1
  /\ \/ ~Accepts(Task(req[r])) /\ Fails(r)
     \/ Accepts(Task(req[r])) /\ Plan[Task(req[r])] = <<>> /\ Advance(r, TRUE)
  /\ UNCHANGED <<hubSide, crossed>>

Asks(r) == At(r, "tool") /\ Accepts(Task(req[r])) /\ req[r].step <= Len(Plan[Task(req[r])])

\* The hub answers a request that reads, or refuses it.
Read(r) ==
  /\ Asks(r) /\ Call(req[r]) \notin Writes
  /\ \/ ~Stops(req[r]) /\ NextCall(r)
     \/ Call(req[r]) \notin Soft /\ Fails(r)
  /\ UNCHANGED <<hubSide, crossed>>

Unprepared(r) ==
  /\ Asks(r) /\ Call(req[r]) \in Writes /\ ~Prepares(Task(req[r]))
  /\ Fails(r)
  /\ UNCHANGED <<hubSide, crossed>>

\* The hub has a request that writes: a key it has seen is answered at once.
AtHub(n) == {p \in Reqs : req[p].pc = "hub" /\ Task(req[p]) = n}

Send(r) ==
  /\ Asks(r) /\ Call(req[r]) \in Writes /\ Prepares(Task(req[r]))
  /\ IF Key(Task(req[r])) /\ Task(req[r]) \in keyRow
     THEN NextCall(r) /\ UNCHANGED crossed
     ELSE /\ Goes(r, "hub") /\ UNCHANGED <<done, fine, told>>
          /\ crossed' = IF AtHub(Task(req[r])) = {} THEN crossed ELSE crossed \cup {Task(req[r])}
  /\ UNCHANGED hubSide

\* Nobody waits for the hub when the isolate has gone.
Orphaned(r) == req[r].iso = Absent /\ Answer(r) /\ UNCHANGED <<done, fine, told>>

HubCommits(r) ==
  /\ At(r, "hub")
  /\ IF Call(req[r]) = "putAgentHandshake"
     THEN stored' = stored \cup {Task(req[r])} /\ UNCHANGED post
     ELSE post' = [post EXCEPT ![Task(req[r])] = @ + 1] /\ UNCHANGED stored
  /\ keyRow' = IF Key(Task(req[r])) THEN keyRow \cup {Task(req[r])} ELSE keyRow
  /\ Orphaned(r) \/ (req[r].iso # Absent /\ NextCall(r))
  /\ UNCHANGED <<sealed, archived, crossed>>

\* MUTANT: a tool that swallows the hub's refusal.
HubRefusesSoftly(r) ==
  /\ At(r, "hub")
  /\ Orphaned(r) \/ (req[r].iso # Absent /\ NextCall(r))
  /\ UNCHANGED <<hubSide, crossed>>

\* The tool's answer is an error, the batch goes on.
HubRefuses(r) ==
  /\ At(r, "hub")
  /\ Orphaned(r) \/ (req[r].iso # Absent /\ Fails(r))
  /\ UNCHANGED <<hubSide, crossed>>

ToolStep(r) ==
  /\ Direct(r) \/ Read(r) \/ Unprepared(r) \/ Send(r) \/ HubCommits(r) \/ HubRefuses(r)
  /\ UNCHANGED <<rows, old, owner, local, streams, ending, ended, lost>>

\* Somebody archives or reopens a board, or turns sealed mail to hub-readable mail.
HubChanges ==
  /\ \/ \E b \in Boards : archived' = (archived \cup {b}) \ (archived \cap {b}) /\ UNCHANGED sealed
     \/ \E x \in sealed : sealed' = sealed \ {x} /\ UNCHANGED archived
  /\ UNCHANGED <<sessionVars, req, post, keyRow, stored, done, fine, crossed>>

InitTools ==
  /\ archived = {}
  /\ post = [n \in Tasks |-> 0]
  /\ keyRow = {} /\ stored = {} /\ done = {} /\ fine = {} /\ crossed = {}
=============================================================================
