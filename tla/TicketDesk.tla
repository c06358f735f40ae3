------------------------------ MODULE TicketDesk ------------------------------
(***************************************************************************)
(* One ticket, the requests that work on it, Zoho Desk and the webhooks it *)
(* sends. A request is a worker of the thread pool with a SQLAlchemy       *)
(* session: it loads the row, changes its copy, calls Zoho while the       *)
(* transaction is open and commits. No row is locked and no version is     *)
(* checked, so a commit merges the columns it changed into whatever the    *)
(* row has become (TicketRow's Merge). A crash, or an exception nobody     *)
(* catches, loses the session and keeps what Zoho was told.                *)
(***************************************************************************)
EXTENDS TicketRow, Sequences, FiniteSets

CONSTANTS
  Workers,        \* requests that may run at the same time
  Operations,     \* the entry points in use, a subset of OperationNames
  Faults,         \* what may go wrong, a subset of FaultNames
  MaxZohoTickets, \* bound on the tickets created in Zoho Desk
  MaxEdits,       \* bound on the edits made in Zoho Desk
  MaxHistory,     \* bound on the history rows other than auto-closes
  MaxTime         \* bound on the clock

OperationNames ==
  {"transition", "rate", "auto_close", "reassign", "escalate", "webhook",
   "backfill_zoho", "backfill_notified"}

\* A request dies before its commit; Zoho refuses a call; Zoho creates the
\* ticket and its answer is lost.
FaultNames == {"crash", "zoho_fails", "zoho_answer_lost"}

ASSUME OperationsAssumption == Operations \subseteq OperationNames
ASSUME FaultsAssumption == Faults \subseteq FaultNames
ASSUME DeskBoundsAssumption ==
  /\ MaxZohoTickets \in Nat \ {0}
  /\ MaxEdits \in Nat
  /\ MaxHistory \in Nat
  /\ MaxTime \in Nat

VARIABLES
  row,          \* the committed tickets row
  history,      \* the committed ticket_status_history rows
  now,          \* the clock, in ticks
  sess,         \* sess[w]: the session of worker w
  zoho,         \* zoho[z]: status of the z-th ticket created in Zoho Desk
  edits         \* the webhooks sent so far: edits made in Zoho Desk

desk == <<row, history>>
vars == <<row, history, now, sess, zoho, edits>>

-----------------------------------------------------------------------------
(* pc: "idle"; "push" and "sync", about to call Zoho; "commit", about to   *)
(* commit; "reloaded", after the commit of a lazy auto-close, when the     *)
(* handler proper has the refreshed ticket; "selected", when the backfill  *)
(* script has the ticket on its list. base is the row as loaded,           *)
(* mine the object in memory, entry the history row to insert (None: no    *)
(* row), sync whether a status update to Zoho follows a push, stamped      *)
(* whether resolved_at was assigned, closing whether this is the lazy      *)
(* auto-close that precedes a handler.                                     *)
Sessions ==
  [ pc      : {"idle", "push", "sync", "commit", "reloaded", "selected"},
    base    : TicketRows \cup {None},
    mine    : TicketRows \cup {None},
    entry   : HistoryRows \cup {None},
    sync    : BOOLEAN,
    stamped : BOOLEAN,
    closing : BOOLEAN ]

NoSession(pc) ==
  [ pc |-> pc, base |-> None, mine |-> None, entry |-> None,
    sync |-> FALSE, stamped |-> FALSE, closing |-> FALSE ]

Pending == {w \in Workers : sess[w].pc \in {"push", "sync", "commit"}}

TypeOK ==
  /\ row \in TicketRows
  /\ history \in Seq(HistoryRows)
  /\ now \in Nat
  /\ sess \in [Workers -> Sessions]
  /\ \A w \in Pending : sess[w].base \in TicketRows /\ sess[w].mine \in TicketRows
  /\ zoho \in Seq(ZohoStatus)
  /\ edits \in Seq([zoho : Nat, status : ZohoStatus])

InitialRows ==
  {HalfBuiltRow(c) : c \in Categories} \cup
  {AssignedRow(c, k) : c \in Categories, k \in Kams} \cup
  {CreatedRow(c, p, k, s, z) : c \in Categories, p \in Priorities, k \in Kams,
                               s \in CSs \cup {None}, z \in {1, None}}

Init ==
  /\ row \in InitialRows
  /\ history = CreationHistory(row)
  /\ now = 0
  /\ sess = [w \in Workers |-> NoSession("idle")]
  /\ zoho = IF row.zoho_ticket_id = 1 THEN <<"Open">> ELSE << >>
  /\ edits = << >>

-----------------------------------------------------------------------------
(* Loading the ticket and running a handler in memory.                     *)

(* get_ticket closes a stale ticket before the handler sees it, so a       *)
(* handler starts on a ticket that is not stale or one just reloaded.      *)
Loads(w) ==
  \/ sess[w].pc = "idle" /\ ~IsStale(row, now)
  \/ sess[w].pc = "reloaded"

(* The bound on history rows counts those about to be inserted.            *)
Room ==
  Len(history) + Cardinality({w \in Workers : sess[w].entry # None}) < MaxHistory

(* The bound on the clock leaves every resolution the time to go stale.    *)
InTime(status) == status = "resolved" => now + AutoCloseAfter < MaxTime

(* What follows the handler: a push if it asks for one and the ticket      *)
(* needs it, a status update if it asks for one and the ticket is linked.  *)
NextStep(t, push, sync) ==
  IF push /\ NeedsPush(t) THEN "push"
  ELSE IF sync /\ t.zoho_ticket_id # None THEN "sync" ELSE "commit"

Resolves(entry) == entry # None /\ entry.change /\ entry.status = "resolved"

Handle(w, t, entry, push, sync, closing) ==
  /\ sess' = [sess EXCEPT ![w] =
       [ pc |-> NextStep(t, push, sync), base |-> row, mine |-> t,
         entry |-> entry, sync |-> sync, closing |-> closing,
         stamped |-> Resolves(entry) ]]
  /\ UNCHANGED <<row, history, now, zoho, edits>>

(* _record_status keeps a linked Zoho ticket in step unless the change     *)
(* came from Zoho.                                                         *)
HandleStatus(w, t, entry) ==
  Handle(w, t, entry, FALSE, entry.by # "zoho", FALSE)

Slip_ClosesSilently(w) ==
  /\ sess[w].pc = "idle"
  /\ IsStale(row, now)
  /\ Handle(w, RecordStatus(row, "closed", now), None, FALSE, TRUE, TRUE)

LazyAutoClose(w) ==
  /\ sess[w].pc = "idle"
  /\ IsStale(row, now)
  /\ Handle(w, RecordStatus(row, "closed", now),
            StatusEntry("closed", "system"), FALSE, TRUE, TRUE)

(* auto_close_stale_resolved_tickets, as this ticket sees it: selected     *)
(* with the others, committed with the others.                             *)
BatchAutoClose(w) ==
  /\ "auto_close" \in Operations
  /\ sess[w].pc = "idle"
  /\ IsStale(row, now)
  /\ Handle(w, RecordStatus(row, "closed", now),
            StatusEntry("closed", "system"), FALSE, TRUE, FALSE)

(* A request that only reads the ticket, or that its handler refuses.      *)
ReadOnly(w) ==
  /\ Loads(w)
  /\ sess' = [sess EXCEPT ![w] = NoSession("idle")]
  /\ UNCHANGED <<row, history, now, zoho, edits>>

transition_status(w, status) ==
  /\ "transition" \in Operations
  /\ Loads(w) /\ Room /\ InTime(status)
  /\ status \in ADMIN_SETTABLE_STATUSES
  /\ HandleStatus(w, RecordStatus(row, status, now), StatusEntry(status, "admin"))

Slip_RatesAnyStatus(w, rating) ==
  /\ "rate" \in Operations
  /\ Loads(w) /\ Room
  /\ HandleStatus(w, record_ticket_rating(row, rating),
                  StatusEntry(StatusAfterRating(rating), "astrologer"))

RateTicket(w, rating) ==
  /\ "rate" \in Operations
  /\ Loads(w) /\ Room
  /\ row.status = "resolved"
  /\ HandleStatus(w, record_ticket_rating(row, rating),
                  StatusEntry(StatusAfterRating(rating), "astrologer"))

ReassignKam(w, admin) ==
  /\ "reassign" \in Operations
  /\ Loads(w) /\ Room
  /\ Handle(w, reassign_kam(row, admin), NoteEntry(row, "admin"),
            FALSE, FALSE, FALSE)

ReassignCs(w, admin) ==
  /\ "reassign" \in Operations
  /\ Loads(w) /\ Room
  /\ Handle(w, reassign_cs(row, admin), NoteEntry(row, "admin"),
            TRUE, FALSE, FALSE)

Slip_EscalatesToNobody(w) ==
  /\ "escalate" \in Operations
  /\ Loads(w) /\ Room
  /\ Handle(w, escalate_to_kam(row), NoteEntry(row, "admin"), TRUE, TRUE, FALSE)

AdminEscalates(w) ==
  /\ "escalate" \in Operations
  /\ Loads(w) /\ Room
  /\ row.assigned_admin_id # None
  /\ Handle(w, escalate_to_kam(row), NoteEntry(row, "admin"), TRUE, TRUE, FALSE)

(* handle_zoho_webhook on the e-th edit. Deliveries may be lost, repeated  *)
(* and out of order, so any edit made may arrive at any time. The row is   *)
(* found by its Zoho id and not auto-closed.                               *)
Delivered(w, e) ==
  /\ "webhook" \in Operations
  /\ sess[w].pc = "idle"
  /\ row.zoho_ticket_id = edits[e].zoho
  /\ Room

ZohoMoves(w, e, status) ==
  /\ Delivered(w, e) /\ InTime(status)
  /\ \/ edits[e].status = "Closed" /\ status = "resolved"
     \/ edits[e].status = "On Hold" /\ status = "in_progress"
  /\ row.status \notin TERMINAL_STATUSES
  /\ HandleStatus(w, RecordStatus(row, status, now),
                  [StatusEntry(status, "zoho") EXCEPT !.edit = e])

ZohoEscalates(w, e) ==
  /\ Delivered(w, e)
  /\ edits[e].status = "Escalated"
  /\ ~row.escalated_to_kam
  /\ row.assigned_admin_id # None
  /\ Handle(w, escalate_to_kam(row), [NoteEntry(row, "zoho") EXCEPT !.edit = e],
            TRUE, TRUE, FALSE)

(* scripts/backfill_zoho_tickets.py --execute, as this ticket sees it: the *)
(* script lists the open tickets to push, then takes them one by one. The  *)
(* commit for the ticket before expires this one, so it is read again; the *)
(* guard of the push is evaluated anew, the status is not.                 *)
BackfillSelects(w) ==
  /\ "backfill_zoho" \in Operations
  /\ sess[w].pc = "idle"
  /\ NeedsPush(row)
  /\ row.status \notin TERMINAL_STATUSES
  /\ sess' = [sess EXCEPT ![w] = NoSession("selected")]
  /\ UNCHANGED <<row, history, now, zoho, edits>>

BackfillZoho(w) ==
  /\ sess[w].pc = "selected"
  /\ NeedsPush(row)
  /\ Handle(w, row, None, TRUE, FALSE, FALSE)

BackfillSkips(w) ==
  /\ sess[w].pc = "selected"
  /\ ~NeedsPush(row)
  /\ sess' = [sess EXCEPT ![w] = NoSession("idle")]
  /\ UNCHANGED <<row, history, now, zoho, edits>>

(* scripts/backfill_ticket_notified.py, for this ticket.                   *)
BackfillNotified(w, priority) ==
  /\ "backfill_notified" \in Operations
  /\ sess[w].pc = "idle"
  /\ backfill_notified(row, priority) # row
  /\ Handle(w, backfill_notified(row, priority), None, FALSE, FALSE, FALSE)

-----------------------------------------------------------------------------
(* The calls to Zoho, while the transaction is open.                       *)

Proceed(w, t) ==
  sess' = [sess EXCEPT ![w].mine = t,
                       ![w].pc = NextStep(t, FALSE, sess[w].sync)]

(* _maybe_push_to_zoho: the created ticket has the next id.                *)
Push(w) ==
  /\ sess[w].pc = "push"
  /\ Len(zoho) < MaxZohoTickets
  /\ zoho' = Append(zoho, zoho_status_for(sess[w].mine))
  /\ \/ Proceed(w, [sess[w].mine EXCEPT !.zoho_ticket_id = Len(zoho) + 1])
     \/ "zoho_answer_lost" \in Faults /\ Proceed(w, sess[w].mine)
  /\ UNCHANGED <<row, history, now, edits>>

(* zoho_client.create_ticket: the token or the ticket cannot be had, which  *)
(* is logged; a lookup of the agent that fails only leaves it unassigned.  *)
PushFails(w) ==
  /\ sess[w].pc = "push"
  /\ "zoho_fails" \in Faults
  /\ Proceed(w, sess[w].mine)
  /\ UNCHANGED <<row, history, now, zoho, edits>>

(* zoho_client.update_status with the status of the ticket in memory; a    *)
(* failed call is logged and forgotten.                                    *)
Sync(w) ==
  /\ sess[w].pc = "sync"
  /\ sess' = [sess EXCEPT ![w].pc = "commit"]
  /\ \/ zoho' = [zoho EXCEPT ![sess[w].mine.zoho_ticket_id] =
                    zoho_status_for(sess[w].mine)]
     \/ "zoho_fails" \in Faults /\ UNCHANGED zoho
  /\ UNCHANGED <<row, history, now, edits>>

Commit(w) ==
  /\ sess[w].pc = "commit"
  /\ row' = Merge(sess[w].base, sess[w].mine, row, sess[w].stamped)
  /\ history' = IF sess[w].entry = None THEN history
                ELSE Append(history, sess[w].entry)
  /\ sess' = [sess EXCEPT ![w] =
                NoSession(IF sess[w].closing THEN "reloaded" ELSE "idle")]
  /\ UNCHANGED <<now, zoho, edits>>

(* The process dies, or something raises, before the commit.               *)
Crash(w) ==
  /\ "crash" \in Faults
  /\ w \in Pending
  /\ sess' = [sess EXCEPT ![w] = NoSession("idle")]
  /\ UNCHANGED <<row, history, now, zoho, edits>>

-----------------------------------------------------------------------------
(* The world outside: a CS edits the ticket in Zoho Desk, time passes.     *)

AgentEdits(z, status) ==
  /\ "webhook" \in Operations
  /\ Len(edits) < MaxEdits
  /\ zoho[z] # status
  /\ zoho' = [zoho EXCEPT ![z] = status]
  /\ edits' = Append(edits, [zoho |-> z, status |-> status])
  /\ UNCHANGED <<row, history, now, sess>>

Tick ==
  /\ now < MaxTime
  /\ now' = now + 1
  /\ UNCHANGED <<row, history, sess, zoho, edits>>

Request(w) ==
  \/ LazyAutoClose(w)
  \/ BatchAutoClose(w)
  \/ ReadOnly(w)
  \/ \E s \in TicketStatus : transition_status(w, s)
  \/ \E r \in Ratings : RateTicket(w, r)
  \/ \E a \in Kams : ReassignKam(w, a)
  \/ \E a \in CSs : ReassignCs(w, a)
  \/ AdminEscalates(w)
  \/ \E e \in 1..Len(edits), s \in TicketStatus : ZohoMoves(w, e, s)
  \/ \E e \in 1..Len(edits) : ZohoEscalates(w, e)
  \/ BackfillSelects(w) \/ BackfillZoho(w) \/ BackfillSkips(w)
  \/ \E p \in Priorities : BackfillNotified(w, p)

Next ==
  \/ \E w \in Workers :
       Request(w) \/ Push(w) \/ PushFails(w) \/ Sync(w) \/ Commit(w) \/ Crash(w)
  \/ \E z \in 1..Len(zoho), s \in ZohoStatus : AgentEdits(z, s)
  \/ Tick

Spec == Init /\ [][Next]_vars

-----------------------------------------------------------------------------
(* Safety that survives overlapping requests, crashes and Zoho outages.    *)

(* Whatever requests overlap, a ticket is only closed after a resolution:  *)
(* a close is decided on a committed RESOLVED, and history keeps it.       *)
ClosedWasResolved ==
  \A i \in 1..Len(history) :
    history[i].status = "closed" /\ history[i].change =>
      \E j \in 1..(i - 1) : history[j].status = "resolved" /\ history[j].change

(* An escalated ticket has a KAM and stands in that KAM's queue, which     *)
(* lists tickets by assigned_admin_id and kam_notified. No commit of an    *)
(* overlapping request takes either back.                                  *)
EscalatedReachesKam ==
  row.escalated_to_kam => row.kam_notified /\ row.assigned_admin_id # None

(* A ticket linked to Zoho Desk is in a CS queue: it is pushed because a   *)
(* CS was notified, and no overlapping commit clears the flag.             *)
LinkedIsCsTicket == row.zoho_ticket_id # None => row.cs_notified

(* The stored answer was given by the astrologer: history shows the close  *)
(* or the reopening their rating caused.                                   *)
AnswerIsRecorded ==
  row.satisfaction # None =>
    \E i \in 1..Len(history) :
      /\ history[i].by = "astrologer"
      /\ history[i].status = IF row.satisfaction = "satisfied"
                             THEN "closed" ELSE "under_review"

(* A resolved ticket has a clock, or the auto-close would never find it.   *)
ResolvedHasClock == row.status = "resolved" => row.resolved_at # None

(* The status column only moves together with a status-change row of that  *)
(* status: no commit changes it silently.                                  *)
StatusChangeIsRecorded ==
  [][row'.status # row.status =>
       /\ Len(history') = Len(history) + 1
       /\ history'[Len(history')].change
       /\ history'[Len(history')].status = row'.status]_vars

-----------------------------------------------------------------------------
(* What holds while requests do not overlap.                               *)

(* One request at a time implements the atomic lifecycle, crashes and Zoho *)
(* outages included.                                                       *)
Lifecycle == INSTANCE TicketLifecycle WITH ZohoIds <- 1..MaxZohoTickets
LifecycleSpec == Lifecycle!Spec

-----------------------------------------------------------------------------
(* What the documentation says and crashes, repeated webhooks and          *)
(* overlapping requests break: TLC refutes each when it is named as an     *)
(* INVARIANT in DeskStatus.cfg or DeskQueues.cfg (the second one with a    *)
(* MaxHistory of 6).                                                       *)

(* scripts/backfill_zoho_tickets.py:6-9: an interrupted or repeated run    *)
(* "never double-pushes anything".                                         *)
PushedOnce == Len(zoho) <= 1

(* zoho_webhook.py:64-66: redelivery of a "Closed" edit adds no duplicate  *)
(* history row.                                                            *)
ClosedEditAppliedOnce ==
  \A i, j \in 1..Len(history) :
    /\ history[i].edit # 0 /\ history[i].edit = history[j].edit
    /\ history[i].status = "resolved" /\ history[i].change
    => i = j

(* record_ticket_rating: a rating of 3 or less reopens the ticket; it is   *)
(* not closed over the astrologer's complaint.                             *)
UnsatisfiedNeverClosed ==
  row.status = "closed" => row.satisfaction # "unsatisfied"
=============================================================================
