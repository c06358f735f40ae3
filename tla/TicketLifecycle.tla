--------------------------- MODULE TicketLifecycle ---------------------------
(***************************************************************************)
(* What ticket_service promises about one ticket: every operation is       *)
(* atomic, so tickets.status and ticket_status_history move together.      *)
(* TicketDesk is the detailed system (requests that load, call Zoho and    *)
(* commit); with one request at a time it implements this specification,   *)
(* and its violation runs show what is lost when requests overlap.         *)
(***************************************************************************)
EXTENDS TicketRow, Sequences

CONSTANTS
  Operations,   \* the entry points in use, a subset of OperationNames
  ZohoIds,      \* ids Zoho Desk may hand out
  MaxEdits,     \* bound on the edits made in Zoho Desk
  MaxHistory,   \* bound on the history rows other than auto-closes
  MaxTime       \* bound on the clock

OperationNames ==
  {"transition", "rate", "auto_close", "reassign", "escalate", "webhook",
   "backfill_zoho", "backfill_notified"}

ASSUME OperationsAssumption == Operations \subseteq OperationNames
ASSUME BoundsAssumption ==
  /\ ZohoIds \subseteq Nat
  /\ MaxEdits \in Nat
  /\ MaxHistory \in Nat
  /\ MaxTime \in Nat

VARIABLES
  row,          \* the tickets row
  history,      \* its ticket_status_history rows in changed_at order
  now           \* the clock, in ticks

vars == <<row, history, now>>

TypeOK ==
  /\ row \in TicketRows
  /\ history \in Seq(HistoryRows)
  /\ now \in Nat

InitialRows ==
  {HalfBuiltRow(c) : c \in Categories} \cup
  {AssignedRow(c, k) : c \in Categories, k \in Kams} \cup
  {CreatedRow(c, p, k, s, z) : c \in Categories, p \in Priorities, k \in Kams,
                               s \in CSs \cup {None}, z \in ZohoIds \cup {None}}

Init ==
  /\ row \in InitialRows
  /\ history = CreationHistory(row)
  /\ now = 0

-----------------------------------------------------------------------------
Room == Len(history) < MaxHistory

(* The bound on the clock leaves every resolution the time to go stale.    *)
InTime(status, at) == status = "resolved" => at + AutoCloseAfter < MaxTime

(* The instants at which the handler may have read the clock: utcnow() is  *)
(* called while it runs, the effect is seen when it commits.               *)
Moments == 0 .. now

Record(t, entry) ==
  /\ row' = t
  /\ history' = Append(history, entry)
  /\ UNCHANGED now

(* What pushing a ticket to Zoho may leave in the row: the id Zoho answers *)
(* with, or nothing when the call fails; nothing at all when it is linked. *)
Pushed(t) ==
  {t} \cup {[t EXCEPT !.zoho_ticket_id = z] : z \in {i \in ZohoIds : NeedsPush(t)}}

transition_status(status, at) ==
  /\ "transition" \in Operations
  /\ status \in ADMIN_SETTABLE_STATUSES
  /\ Room /\ InTime(status, at)
  /\ Record(RecordStatus(row, status, at), StatusEntry(status, "admin"))

RateTicket(rating) ==
  /\ "rate" \in Operations
  /\ row.status = "resolved"
  /\ Room
  /\ Record(record_ticket_rating(row, rating),
            StatusEntry(StatusAfterRating(rating), "astrologer"))

AutoClose ==
  /\ IsStale(row, now)
  /\ Record(RecordStatus(row, "closed", now), StatusEntry("closed", "system"))

ReassignKam(admin) ==
  /\ "reassign" \in Operations
  /\ Room
  /\ Record(reassign_kam(row, admin), NoteEntry(row, "admin"))

ReassignCs(admin) ==
  /\ "reassign" \in Operations
  /\ Room
  /\ \E t \in Pushed(reassign_cs(row, admin)) :
       Record(t, NoteEntry(row, "admin"))

EscalateToKam(by, edit) ==
  /\ row.assigned_admin_id # None
  /\ Room
  /\ \E t \in Pushed(escalate_to_kam(row)) :
       Record(t, [NoteEntry(row, by) EXCEPT !.edit = edit])

AdminEscalates ==
  /\ "escalate" \in Operations
  /\ EscalateToKam("admin", 0)

(* handle_zoho_webhook: "Closed" and "On Hold" act on an open ticket,      *)
(* "Escalated" on one not yet escalated, anything else on nothing.         *)
ZohoMoves(status, at, edit) ==
  /\ "webhook" \in Operations
  /\ row.zoho_ticket_id # None
  /\ row.status \notin TERMINAL_STATUSES
  /\ status \in {"resolved", "in_progress"}
  /\ Room /\ InTime(status, at)
  /\ Record(RecordStatus(row, status, at),
            [StatusEntry(status, "zoho") EXCEPT !.edit = edit])

ZohoEscalates(edit) ==
  /\ "webhook" \in Operations
  /\ row.zoho_ticket_id # None
  /\ ~row.escalated_to_kam
  /\ EscalateToKam("zoho", edit)

BackfillZoho ==
  /\ "backfill_zoho" \in Operations
  /\ row.status \notin TERMINAL_STATUSES
  /\ row' \in Pushed(row)
  /\ UNCHANGED <<history, now>>

BackfillNotified(priority) ==
  /\ "backfill_notified" \in Operations
  /\ row' = backfill_notified(row, priority)
  /\ UNCHANGED <<history, now>>

Tick ==
  /\ now < MaxTime
  /\ now' = now + 1
  /\ UNCHANGED <<row, history>>

Next ==
  \/ \E s \in TicketStatus, at \in Moments : transition_status(s, at)
  \/ \E r \in Ratings : RateTicket(r)
  \/ AutoClose
  \/ \E a \in Kams : ReassignKam(a)
  \/ \E a \in CSs : ReassignCs(a)
  \/ AdminEscalates
  \/ \E s \in TicketStatus, at \in Moments, e \in 1..MaxEdits : ZohoMoves(s, at, e)
  \/ \E e \in 1..MaxEdits : ZohoEscalates(e)
  \/ BackfillZoho
  \/ \E p \in Priorities : BackfillNotified(p)
  \/ Tick

Spec == Init /\ [][Next]_vars

(* Time passes, and an overdue ticket is sooner or later loaded by someone *)
(* (chat and dashboard poll) or reached by the auto-close script.          *)
FairSpec == Spec /\ WF_vars(Tick) /\ WF_vars(AutoClose)

-----------------------------------------------------------------------------
(* The status column is the status of the latest history row: what the     *)
(* docstring of ticket_service calls "the two can never diverge". A note   *)
(* repeats the current status, so it counts too.                           *)
StatusMirrorsHistory == history[Len(history)].status = row.status

(* A resolved ticket has its clock running and carries no answer: the      *)
(* answer to an earlier resolution was cleared when it was resolved again. *)
ResolvedAwaitsAnswer ==
  row.status = "resolved" =>
    row.resolved_at # None /\ row.satisfaction = None /\ row.rating = None

(* A ticket whose astrologer said it is not fixed is never closed before   *)
(* somebody resolves it again: record_ticket_rating reopens it.            *)
UnsatisfiedNeverClosed ==
  row.status = "closed" => row.satisfaction # "unsatisfied"

(* satisfaction is always the verdict of the stored rating.                *)
AnswerMatchesRating ==
  row.satisfaction = IF row.rating = None THEN None ELSE SatisfactionOf(row.rating)

(* Nothing is ever closed that was not resolved first, whoever closed it:  *)
(* "closed" is reserved for the astrologer's answer and the auto-close.    *)
ClosedWasResolved ==
  \A i \in 1..Len(history) :
    history[i].status = "closed" =>
      \E j \in 1..(i - 1) : history[j].status = "resolved"

(* A resolution nobody answers does not stay open: it is closed after      *)
(* AutoCloseAfter, unless the ticket moves on or is answered before.       *)
Unanswered == row.status = "resolved" /\ row.satisfaction = None
UnansweredIsClosed == Unanswered ~> ~Unanswered
=============================================================================
