---------------------------- MODULE TicketIntake ----------------------------
(***************************************************************************)
(* How the tickets of one astrologer come into being: chat turns whose     *)
(* model calls create_support_ticket, each in a session of its own. The    *)
(* turn is one transaction in intent; in fact it is committed whenever a   *)
(* lazy check on the way commits (an admin back from leave, a stale ticket *)
(* closed), and what a failed tool left in the session is committed with   *)
(* the turn, since the executor turns every exception into a tool result.  *)
(***************************************************************************)
EXTENDS TicketRow, Sequences, FiniteSets

CONSTANTS
  Visits,        \* webview visits (ChatSession rows); each runs a turn at a time
  Faults,        \* what may go wrong, a subset of FaultNames
  MaxTickets,    \* bound on the ids handed out
  MaxToolCalls,  \* bound on the tool calls of a turn
  MaxHistory,    \* bound on the history rows of a ticket
  AutoCall       \* settings.VOICE_AUTO_CALL_ON_TICKET_CREATE

\* The model provider or the process fails; Slack refuses the message; Slack
\* takes it and its answer is lost; Zoho takes no ticket; Twilio no call.
FaultNames == {"turn_dies", "slack_fails", "slack_answer_lost", "zoho_fails", "call_fails"}

ASSUME IntakeAssumption ==
  /\ Faults \subseteq FaultNames
  /\ MaxTickets \in Nat /\ MaxToolCalls \in Nat /\ MaxHistory \in Nat
  /\ AutoCall \in BOOLEAN
ASSUME NoRowAssumption == None \notin TicketRows

VARIABLES
  tickets,   \* the committed tickets rows, by id
  hist,      \* their committed history rows
  nextId,    \* the next id of the sequence
  draft,     \* draft[v]: what the session of v's turn has not committed
  turn,      \* turn[v]: where v's turn is
  visit,     \* visit[v]: the committed chat_sessions row
  leave,     \* the leave of the KAMs and of the CSs
  slack,     \* slack[i]: messages in the support channel about ticket i
  told       \* the tickets the astrologer was told were created

vars == <<tickets, hist, nextId, draft, turn, visit, leave, slack, told>>

-----------------------------------------------------------------------------
Ids == 1..MaxTickets

(* A ticket in a session: as loaded (None: inserted by it), as changed,    *)
(* the history rows added, and whether the changes were flushed.           *)
Drafts ==
  [ base : TicketRows \cup {None}, mine : TicketRows,
    rows : Seq(HistoryRows), flushed : BOOLEAN ]

Links == [resolved_by : {None, "bot", "escalated"}, ticket_id : Nat \cup {None}]
NoLink == [resolved_by |-> None, ticket_id |-> None]

(* pc: "idle"; "model", the model is thinking; the others are the steps of *)
(* create_ticket still to do. id is the ticket under creation, calls the   *)
(* tool calls made, link the chat_sessions row in memory, created the      *)
(* tickets create_support_ticket reported.                                 *)
Turns ==
  [ pc      : {"idle", "model", "kam", "cs", "slack", "zoho", "commit", "call", "link"},
    id      : Nat,
    calls   : Nat,
    link    : Links,
    created : SUBSET Ids ]

(* An admin pool: somebody is there; somebody's leave has expired and the  *)
(* next read ends it; everybody is away.                                   *)
Leaves == {"here", "returning", "away"}

NoDraft == [i \in {} |-> None]

TypeOK ==
  /\ DOMAIN tickets \subseteq Ids /\ DOMAIN hist = DOMAIN tickets
  /\ \A i \in DOMAIN tickets : tickets[i] \in TicketRows /\ hist[i] \in Seq(HistoryRows)
  /\ nextId \in Nat
  /\ \A v \in Visits : \A i \in DOMAIN draft[v] : i \in Ids /\ draft[v][i] \in Drafts
  /\ turn \in [Visits -> Turns]
  /\ visit \in [Visits -> Links]
  /\ leave \in [{"kam", "cs"} -> Leaves]
  /\ slack \in [Ids -> Nat]
  /\ told \subseteq Ids

Idle(v) == [pc |-> "idle", id |-> 0, calls |-> 0, link |-> visit[v], created |-> {}]

Init ==
  /\ tickets = NoDraft
  /\ hist = NoDraft
  /\ nextId = 1
  /\ draft = [v \in Visits |-> NoDraft]
  /\ visit = [v \in Visits |-> NoLink]
  /\ turn = [v \in Visits |-> Idle(v)]
  /\ leave \in [{"kam", "cs"} -> Leaves]
  /\ slack = [i \in Ids |-> 0]
  /\ told = {}

-----------------------------------------------------------------------------
(* The session.                                                            *)

Drafted(v) == DOMAIN draft[v]

(* The ticket as an attribute access sees it, and as a query does, which   *)
(* runs on the database and sees the session's own flushes only.           *)
Seen(v, i) == IF i \in Drafted(v) THEN draft[v][i].mine ELSE tickets[i]
Queried(v, i) ==
  IF i \in Drafted(v) /\ (draft[v][i].flushed \/ i \notin DOMAIN tickets)
  THEN draft[v][i].mine ELSE tickets[i]

(* Change ticket i, adding history rows; the first access loads the row.   *)
Change(v, i, t, rows) ==
  LET d == IF i \in Drafted(v) THEN draft[v][i]
           ELSE [base |-> tickets[i], mine |-> tickets[i], rows |-> << >>, flushed |-> FALSE]
  IN  draft' = [draft EXCEPT ![v] = [j \in Drafted(v) \cup {i} |->
        IF j = i THEN [d EXCEPT !.mine = t, !.rows = @ \o rows] ELSE draft[v][j]]]

Flush(v) ==
  draft' = [draft EXCEPT ![v] = [i \in Drafted(v) |-> [@[i] EXCEPT !.flushed = TRUE]]]

(* A flushed row is locked: whoever else wants to update it waits.         *)
Locked(i) == \E v \in Visits : i \in Drafted(v) /\ draft[v][i].flushed

CommitDrafts(v) ==
  /\ tickets' = [i \in DOMAIN tickets \cup Drafted(v) |->
       IF i \notin Drafted(v) THEN tickets[i]
       ELSE IF i \notin DOMAIN tickets THEN draft[v][i].mine
       ELSE Merge(draft[v][i].base, draft[v][i].mine, tickets[i], FALSE)]
  /\ hist' = [i \in DOMAIN tickets \cup Drafted(v) |->
       (IF i \in DOMAIN tickets THEN hist[i] ELSE << >>)
         \o (IF i \in Drafted(v) THEN draft[v][i].rows ELSE << >>)]
  /\ draft' = [draft EXCEPT ![v] = NoDraft]
  /\ visit' = [visit EXCEPT ![v] = turn[v].link]

-----------------------------------------------------------------------------
(* The turn and the model's tool calls.                                    *)

Goes(v, pc) == turn' = [turn EXCEPT ![v].pc = pc]

(* A tool has returned, with a result or with an error the executor made   *)
(* of an exception: the model goes on, with what is in the session.        *)
ToolEnds(v) == turn' = [turn EXCEPT ![v].pc = "model", ![v].calls = @ + 1]

Thinks(v) == turn[v].pc = "model" /\ turn[v].calls < MaxToolCalls

StartTurn(v) ==
  /\ turn[v].pc = "idle"
  /\ turn' = [turn EXCEPT ![v] = [Idle(v) EXCEPT !.pc = "model"]]
  /\ UNCHANGED <<tickets, hist, nextId, draft, visit, leave, slack, told>>

Slip_ActiveIgnoresUnassigned(v, c) ==
  \E i \in DOMAIN tickets \cup Drafted(v) :
    Queried(v, i).category = c /\ Queried(v, i).status = "assigned_to_kam"

(* get_active_ticket_for_category                                          *)
Active(v, c) ==
  \E i \in DOMAIN tickets \cup Drafted(v) :
    Queried(v, i).category = c /\ Queried(v, i).status \notin TERMINAL_STATUSES

(* create_support_ticket up to the flush that gives the ticket its id. The *)
(* tool refuses when the category has an active ticket.                    *)
ModelCreates(v, c) ==
  /\ Thinks(v)
  /\ nextId <= MaxTickets
  /\ ~Active(v, c)
  /\ draft' = [draft EXCEPT ![v] = [i \in Drafted(v) \cup {nextId} |->
       IF i \in Drafted(v) THEN draft[v][i]
       ELSE [ base |-> None, mine |-> HalfBuiltRow(c), flushed |-> FALSE,
              rows |-> << StatusEntry("submitted", "system") >> ]]]
  /\ turn' = [turn EXCEPT ![v].pc = "kam", ![v].id = nextId]
  /\ nextId' = nextId + 1
  /\ UNCHANGED <<tickets, hist, visit, leave, slack, told>>

(* A refusal (an active ticket, no evidence yet, self-help advice first)   *)
(* or a tool that only reads.                                              *)
ModelReads(v) ==
  /\ Thinks(v)
  /\ ToolEnds(v)
  /\ UNCHANGED <<tickets, hist, nextId, draft, visit, leave, slack, told>>

(* get_tickets finds ticket i stale and closes it: the commit takes the    *)
(* whole session along.                                                    *)
ModelListsTickets(v, i) ==
  /\ Thinks(v)
  /\ i \in DOMAIN tickets \ Drafted(v) /\ ~Locked(i)
  /\ tickets[i].status = "resolved" /\ tickets[i].satisfaction = None
  /\ LET closed == RecordStatus(tickets[i], "closed", 0)
         entry == StatusEntry("closed", "system")
     IN  /\ tickets' = [j \in DOMAIN tickets \cup Drafted(v) |->
              IF j = i THEN closed
              ELSE IF j \notin Drafted(v) THEN tickets[j]
              ELSE IF j \notin DOMAIN tickets THEN draft[v][j].mine
              ELSE Merge(draft[v][j].base, draft[v][j].mine, tickets[j], FALSE)]
         /\ hist' = [j \in DOMAIN tickets \cup Drafted(v) |->
              (IF j \in DOMAIN tickets THEN hist[j] ELSE << >>)
                \o (IF j = i THEN << entry >>
                    ELSE IF j \in Drafted(v) THEN draft[v][j].rows ELSE << >>)]
  /\ draft' = [draft EXCEPT ![v] = NoDraft]
  /\ visit' = [visit EXCEPT ![v] = turn[v].link]
  /\ ToolEnds(v)
  /\ UNCHANGED <<nextId, leave, slack, told>>

Slip_StoresOutcome(v) ==
  /\ Thinks(v)
  /\ turn' = [turn EXCEPT ![v].calls = @ + 1, ![v].link.resolved_by = "resolved"]
  /\ Flush(v)
  /\ UNCHANGED <<tickets, hist, nextId, visit, leave, slack, told>>

(* mark_issue_resolved                                                     *)
ModelResolves(v) ==
  /\ Thinks(v)
  /\ turn' = [turn EXCEPT ![v].calls = @ + 1, ![v].link.resolved_by = "bot"]
  /\ Flush(v)
  /\ UNCHANGED <<tickets, hist, nextId, visit, leave, slack, told>>

(* The final commit of handle_chat_turn, and the response.                 *)
EndTurn(v) ==
  /\ turn[v].pc = "model"
  /\ CommitDrafts(v)
  /\ told' = told \cup turn[v].created
  /\ turn' = [turn EXCEPT ![v] = [Idle(v) EXCEPT !.link = turn[v].link]]
  /\ UNCHANGED <<nextId, leave, slack>>

(* The model provider raises or the process dies: the session is lost.     *)
TurnDies(v) ==
  /\ "turn_dies" \in Faults
  /\ turn[v].pc # "idle"
  /\ draft' = [draft EXCEPT ![v] = NoDraft]
  /\ turn' = [turn EXCEPT ![v] = Idle(v)]
  /\ UNCHANGED <<tickets, hist, nextId, visit, leave, slack, told>>

-----------------------------------------------------------------------------
(* create_ticket, from the flush on.                                       *)

(* Ticket t replaces the one under creation; entry is a new history row.   *)
Builds(v, t, rows) == Change(v, turn[v].id, t, rows)
UnderCreation(v) == Seen(v, turn[v].id)

(* maybe_end_scheduled_leave, called on every candidate of the pool, ends  *)
(* an expired leave and commits: create_ticket's rows go along.            *)
EndLeave(v, pool) ==
  /\ turn[v].pc = pool
  /\ leave[pool] = "returning"
  /\ leave' = [leave EXCEPT ![pool] = "here"]
  /\ CommitDrafts(v)
  /\ UNCHANGED <<nextId, turn, slack, told>>

(* admin_mapping_client: no KAM to assign is an exception.                 *)
NoKam(v) ==
  /\ turn[v].pc = "kam" /\ leave["kam"] = "away"
  /\ ToolEnds(v)
  /\ UNCHANGED <<tickets, hist, nextId, draft, visit, leave, slack, told>>

Slip_AssignsWithoutStatus(v, k) ==
  /\ turn[v].pc = "kam" /\ leave["kam"] = "here"
  /\ Builds(v, [UnderCreation(v) EXCEPT !.assigned_admin_id = k],
            << StatusEntry("assigned_to_kam", "system") >>)
  /\ Goes(v, "cs")
  /\ UNCHANGED <<tickets, hist, nextId, visit, leave, slack, told>>

AssignKam(v, k) ==
  /\ turn[v].pc = "kam" /\ leave["kam"] = "here"
  /\ Builds(v, RecordStatus([UnderCreation(v) EXCEPT !.assigned_admin_id = k],
                            "assigned_to_kam", 0),
            << StatusEntry("assigned_to_kam", "system") >>)
  /\ Goes(v, "cs")
  /\ UNCHANGED <<tickets, hist, nextId, visit, leave, slack, told>>

(* A CS if there is one, and the routing the astrologer's priority asks.   *)
AssignCs(v, s, p) ==
  /\ turn[v].pc = "cs"
  /\ \/ leave["cs"] = "here" /\ s \in CSs
     \/ leave["cs"] = "away" /\ s = None
  /\ LET t == UnderCreation(v)
         route == routing_for_ticket(t.category, p)
     IN  Builds(v, [t EXCEPT !.assigned_cs_id = IF s = None THEN @ ELSE s,
                             !.kam_notified = route.kam,
                             !.cs_notified = route.cs], << >>)
  /\ Goes(v, "slack")
  /\ UNCHANGED <<tickets, hist, nextId, visit, leave, slack, told>>

Announced(v) == slack' = [slack EXCEPT ![turn[v].id] = @ + 1]

Slip_SlackIsBestEffort(v) ==
  /\ turn[v].pc = "slack"
  /\ \/ Announced(v)
     \/ "slack_fails" \in Faults /\ UNCHANGED slack
  /\ Flush(v)
  /\ Goes(v, "zoho")
  /\ UNCHANGED <<tickets, hist, nextId, visit, leave, told>>

(* slack_client.post_message raises unless Slack answers that it posted;   *)
(* its log entry is flushed, and the ticket's changes with it. The upload  *)
(* of the attachment that follows is logged in the same way, never raises. *)
PostSlack(v) ==
  /\ turn[v].pc = "slack"
  /\ Announced(v)
  /\ Flush(v)
  /\ Goes(v, "zoho")
  /\ UNCHANGED <<tickets, hist, nextId, visit, leave, told>>

SlackRaises(v) ==
  /\ turn[v].pc = "slack"
  /\ \/ "slack_fails" \in Faults /\ UNCHANGED slack
     \/ "slack_answer_lost" \in Faults /\ Announced(v)
  /\ ToolEnds(v)
  /\ UNCHANGED <<tickets, hist, nextId, draft, visit, leave, told>>

(* _maybe_push_to_zoho; the model's Zoho gives a ticket the id it has here. *)
PushZoho(v) ==
  /\ turn[v].pc = "zoho"
  /\ \/ /\ NeedsPush(UnderCreation(v))
        /\ Builds(v, [UnderCreation(v) EXCEPT !.zoho_ticket_id = turn[v].id], << >>)
     \/ /\ NeedsPush(UnderCreation(v)) => "zoho_fails" \in Faults
        /\ UNCHANGED draft
  /\ Goes(v, "commit")
  /\ UNCHANGED <<tickets, hist, nextId, visit, leave, slack, told>>

CommitTicket(v) ==
  /\ turn[v].pc = "commit"
  /\ CommitDrafts(v)
  /\ Goes(v, IF AutoCall THEN "call" ELSE "link")
  /\ UNCHANGED <<nextId, leave, slack, told>>

(* request_ticket_followup_call commits its call; a refusal is the tool's. *)
PlaceCall(v) ==
  /\ turn[v].pc = "call"
  /\ \/ Goes(v, "link")
     \/ "call_fails" \in Faults /\ ToolEnds(v)
  /\ UNCHANGED <<tickets, hist, nextId, draft, visit, leave, slack, told>>

(* mark_escalated, and the tool's answer.                                  *)
LinkChat(v) ==
  /\ turn[v].pc = "link"
  /\ turn' = [turn EXCEPT
       ![v].pc = "model", ![v].calls = @ + 1, ![v].created = @ \cup {turn[v].id},
       ![v].link = [resolved_by |-> "escalated", ticket_id |-> turn[v].id]]
  /\ Flush(v)
  /\ UNCHANGED <<tickets, hist, nextId, visit, leave, slack, told>>

-----------------------------------------------------------------------------
(* An admin works on a ticket meanwhile (TicketDesk has this in detail).   *)
DeskMoves(i, status) ==
  /\ i \in DOMAIN tickets /\ ~Locked(i)
  /\ Len(hist[i]) < MaxHistory
  /\ tickets' = [tickets EXCEPT ![i] = RecordStatus(@, status, 0)]
  /\ hist' = [hist EXCEPT ![i] = Append(@, StatusEntry(status, "admin"))]
  /\ UNCHANGED <<nextId, draft, turn, visit, leave, slack, told>>

Turn(v) ==
  \/ StartTurn(v) \/ EndTurn(v) \/ TurnDies(v)
  \/ \E c \in Categories : ModelCreates(v, c)
  \/ ModelReads(v) \/ ModelResolves(v)
  \/ \E i \in Ids : ModelListsTickets(v, i)

Creation(v) ==
  \/ \E pool \in {"kam", "cs"} : EndLeave(v, pool)
  \/ NoKam(v) \/ \E k \in Kams : AssignKam(v, k)
  \/ \E s \in CSs \cup {None}, p \in Priorities : AssignCs(v, s, p)
  \/ PostSlack(v) \/ SlackRaises(v)
  \/ PushZoho(v) \/ CommitTicket(v) \/ PlaceCall(v) \/ LinkChat(v)

Next ==
  \/ \E v \in Visits : Turn(v) \/ Creation(v)
  \/ \E i \in Ids, s \in ADMIN_SETTABLE_STATUSES : DeskMoves(i, s)

Spec == Init /\ [][Next]_vars

-----------------------------------------------------------------------------
(* What survives failures and overlapping turns.                           *)

Committed(i) == i \in DOMAIN tickets

(* A ticket the astrologer was told of, or that the analytics row of a     *)
(* visit points at, is in the database, has its KAM and was announced in   *)
(* the support channel, wherever a turn failed or died: no step of         *)
(* create_ticket is skipped before its tool reports success.               *)
KnownTicketsAreComplete ==
  \A i \in (told \cup {visit[v].ticket_id : v \in Visits}) \ {None} :
    Committed(i) /\ tickets[i].assigned_admin_id # None /\ slack[i] >= 1

(* A committed ticket no admin has touched is one of the rows TicketDesk   *)
(* starts from, with the history that goes with it: the mid-way commits    *)
(* and failures of create_ticket leave no other kind of ticket behind.     *)
DeskRows ==
  {HalfBuiltRow(c) : c \in Categories} \cup
  {AssignedRow(c, k) : c \in Categories, k \in Kams} \cup
  {CreatedRow(c, p, k, s, z) : c \in Categories, p \in Priorities, k \in Kams,
                               s \in CSs \cup {None}, z \in Ids \cup {None}}

UntouchedRowsAreKnown ==
  \A i \in DOMAIN tickets :
    (\A n \in 1..Len(hist[i]) : hist[i][n].by = "system") =>
      tickets[i] \in DeskRows /\ hist[i] = CreationHistory(tickets[i])

(* While the astrologer's turns do not overlap, no ticket is raised while  *)
(* an earlier one of its category is open, retries after a failed or       *)
(* killed creation included. (A resolved ticket does not count, and may be *)
(* reopened later.) tool_registry.py:188-190 says so without the proviso.  *)
OpenSinceRaised(i) ==
  \A n \in 1..Len(hist[i]) : hist[i][n].status \notin TERMINAL_STATUSES

NoSecondWhileOpen ==
  \A c \in Categories :
    Cardinality({i \in DOMAIN tickets :
                   tickets[i].category = c /\ OpenSinceRaised(i)}) <= 1
=============================================================================
