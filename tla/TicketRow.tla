------------------------------ MODULE TicketRow ------------------------------
(***************************************************************************)
(* One row of the tickets table and what ticket_service does to it in      *)
(* memory: the statuses, the routing of a new ticket, the changes each     *)
(* operation makes, the three-way merge a SQLAlchemy commit amounts to.    *)
(* No state here: TicketLifecycle and TicketDesk put these functions to    *)
(* work.                                                                   *)
(***************************************************************************)
EXTENDS Integers

CONSTANTS
  Kams,             \* ids of the admins whose role is KAM
  CSs,              \* ids of the admins whose role is CS
  Categories,       \* the ticket categories in use
  Ratings,          \* the star ratings in use, a subset of 1..5
  AutoCloseAfter,   \* _AUTO_CLOSE_AFTER, in ticks of the clock
  None              \* Python's None / SQL NULL

ASSUME RatingsAssumption == Ratings \subseteq 1..5
ASSUME AutoCloseAfterAssumption == AutoCloseAfter \in Nat
ASSUME NoneAssumption ==
  /\ None \notin Kams
  /\ None \notin CSs
  /\ None \notin Nat
  /\ None \notin {"satisfied", "unsatisfied"}

-----------------------------------------------------------------------------
(* Statuses.                                                               *)

TicketStatus ==
  {"submitted", "assigned_to_kam", "under_review", "in_progress",
   "resolved", "closed"}

(* Names starting with Slip_ are defective variants of the definition that  *)
(* follows: what a wrong edit of that code would do. No specification uses *)
(* them; README.md says which property notices which.                      *)
Slip_SettableClosed == {"under_review", "in_progress", "resolved", "closed"}

ADMIN_SETTABLE_STATUSES == {"under_review", "in_progress", "resolved"}

TERMINAL_STATUSES == {"resolved", "closed"}

ZohoStatus == {"Open", "On Hold", "Escalated", "Closed"}

(* The columns the operations read or write. `rating' stands for the four  *)
(* rating columns, which are only written together.                        *)
TicketRows ==
  [ category          : Categories,
    status            : TicketStatus,
    assigned_admin_id : Kams \cup {None},
    assigned_cs_id    : CSs \cup {None},
    kam_notified      : BOOLEAN,
    cs_notified       : BOOLEAN,
    resolved_at       : Nat \cup {None},
    satisfaction      : {None, "satisfied", "unsatisfied"},
    rating            : Ratings \cup {None},
    escalated_to_kam  : BOOLEAN,
    zoho_ticket_id    : Nat \cup {None} ]

-----------------------------------------------------------------------------
(* Routing of a ticket: who counts as notified.                            *)

Priorities == 1..5 \cup {None}

CS_ONLY_CATEGORIES ==
  {"technical", "no_visibility", "profile", "phone_change", "payout", "kyc",
   "user_bad_behaviour", "language_change", "mock_test_status",
   "interview_status"}

ALWAYS_KAM_ONLY_CATEGORIES ==
  {"referral_amount", "pooja_payment_link", "price_change"}

VIP_PRIORITY_MAX == 2
RESIGNATION_KAM_PRIORITY_MAX == 3

AtMost(priority, limit) == priority # None /\ priority <= limit

(* The pair (kam_notified, cs_notified).                                   *)
routing_for_ticket(category, priority) ==
  LET kamOwns == \/ category \in ALWAYS_KAM_ONLY_CATEGORIES
                 \/ /\ category = "resignation"
                    /\ AtMost(priority, RESIGNATION_KAM_PRIORITY_MAX)
      vipCopy == /\ category \notin CS_ONLY_CATEGORIES \cup {"resignation"}
                 /\ AtMost(priority, VIP_PRIORITY_MAX)
  IN  [kam |-> kamOwns \/ vipCopy, cs |-> ~kamOwns]

-----------------------------------------------------------------------------
(* What the operations do to a ticket in memory.                           *)

Slip_AnswerKept(t, status, at) ==
  IF status = "resolved"
  THEN [t EXCEPT !.status = status, !.resolved_at = at]
  ELSE [t EXCEPT !.status = status]

Slip_NoClock(t, status, at) ==
  IF status = "resolved"
  THEN [t EXCEPT !.status = status, !.satisfaction = None, !.rating = None]
  ELSE [t EXCEPT !.status = status]

RecordStatus(t, status, at) ==
  IF status = "resolved"
  THEN [t EXCEPT !.status = status, !.resolved_at = at,
                 !.satisfaction = None, !.rating = None]
  ELSE [t EXCEPT !.status = status]

SatisfactionOf(rating) == IF rating >= 4 THEN "satisfied" ELSE "unsatisfied"

Slip_ClosesAtThree(rating) == IF rating >= 3 THEN "closed" ELSE "under_review"

StatusAfterRating(rating) == IF rating >= 4 THEN "closed" ELSE "under_review"

Slip_VerdictIsStatus(t, rating) ==
  [t EXCEPT !.rating = rating, !.satisfaction = StatusAfterRating(rating),
            !.status = StatusAfterRating(rating)]

record_ticket_rating(t, rating) ==
  [t EXCEPT !.rating = rating, !.satisfaction = SatisfactionOf(rating),
            !.status = StatusAfterRating(rating)]

(* The condition of _maybe_auto_close_stale and of the batch's SELECT.     *)
IsStale(t, now) ==
  /\ t.status = "resolved"
  /\ t.satisfaction = None
  /\ t.resolved_at # None
  /\ now - t.resolved_at > AutoCloseAfter

reassign_kam(t, admin) ==
  [t EXCEPT !.assigned_admin_id = admin, !.kam_notified = TRUE]

Slip_WrongColumn(t, admin) ==
  [t EXCEPT !.assigned_admin_id = admin, !.cs_notified = TRUE]

reassign_cs(t, admin) ==
  [t EXCEPT !.assigned_cs_id = admin, !.cs_notified = TRUE]

escalate_to_kam(t) ==
  [t EXCEPT !.kam_notified = TRUE, !.escalated_to_kam = TRUE]

Slip_PushesAnything(t) == t.zoho_ticket_id = None

(* The guard of _maybe_push_to_zoho.                                       *)
NeedsPush(t) == t.zoho_ticket_id = None /\ t.cs_notified

(* scripts/backfill_ticket_notified.py, for one ticket.                    *)
backfill_notified(t, priority) ==
  LET route == routing_for_ticket(t.category, priority)
  IN  [t EXCEPT !.kam_notified = route.kam, !.cs_notified = route.cs]

zoho_status_for(t) ==
  IF t.status \in TERMINAL_STATUSES THEN "Closed"
  ELSE IF t.escalated_to_kam THEN "Escalated" ELSE "Open"

-----------------------------------------------------------------------------
(* A commit writes the columns whose value differs from the one loaded and *)
(* leaves the others as the database has them: a three-way merge of what   *)
(* the session loaded (base), what it holds (mine) and the row (theirs).   *)
(* A fresh resolved_at always differs: utcnow() never repeats, the model's *)
(* clock does, hence `stamped'.                                            *)
Pick(base, mine, theirs) == IF mine # base THEN mine ELSE theirs

Merge(base, mine, theirs, stamped) ==
  [ category          |-> theirs.category,
    status            |-> Pick(base.status, mine.status, theirs.status),
    assigned_admin_id |-> Pick(base.assigned_admin_id, mine.assigned_admin_id,
                               theirs.assigned_admin_id),
    assigned_cs_id    |-> Pick(base.assigned_cs_id, mine.assigned_cs_id,
                               theirs.assigned_cs_id),
    kam_notified      |-> Pick(base.kam_notified, mine.kam_notified,
                               theirs.kam_notified),
    cs_notified       |-> Pick(base.cs_notified, mine.cs_notified,
                               theirs.cs_notified),
    resolved_at       |-> IF stamped THEN mine.resolved_at
                          ELSE Pick(base.resolved_at, mine.resolved_at,
                                    theirs.resolved_at),
    satisfaction      |-> Pick(base.satisfaction, mine.satisfaction,
                               theirs.satisfaction),
    rating            |-> Pick(base.rating, mine.rating, theirs.rating),
    escalated_to_kam  |-> Pick(base.escalated_to_kam, mine.escalated_to_kam,
                               theirs.escalated_to_kam),
    zoho_ticket_id    |-> Pick(base.zoho_ticket_id, mine.zoho_ticket_id,
                               theirs.zoho_ticket_id) ]

-----------------------------------------------------------------------------
(* Rows create_ticket leaves behind. A complete one is assigned, routed and *)
(* perhaps linked to Zoho; a half-built one was made durable by the commit *)
(* of maybe_end_scheduled_leave while create_ticket looked for a KAM, or   *)
(* by the end of the chat turn after it found none: it has the column      *)
(* defaults. An assigned one had its KAM when that commit came.            *)
CreatedRow(category, priority, kam, cs, zohoId) ==
  LET route == routing_for_ticket(category, priority)
  IN  [ category          |-> category,
        status            |-> "assigned_to_kam",
        assigned_admin_id |-> kam,
        assigned_cs_id    |-> cs,
        kam_notified      |-> route.kam,
        cs_notified       |-> route.cs,
        resolved_at       |-> None,
        satisfaction      |-> None,
        rating            |-> None,
        escalated_to_kam  |-> FALSE,
        zoho_ticket_id    |-> IF route.cs THEN zohoId ELSE None ]

UnroutedRow(category, status, kam) ==
  [ category          |-> category,
    status            |-> status,
    assigned_admin_id |-> kam,
    assigned_cs_id    |-> None,
    kam_notified      |-> TRUE,
    cs_notified       |-> TRUE,
    resolved_at       |-> None,
    satisfaction      |-> None,
    rating            |-> None,
    escalated_to_kam  |-> FALSE,
    zoho_ticket_id    |-> None ]

HalfBuiltRow(category) == UnroutedRow(category, "submitted", None)
AssignedRow(category, kam) == UnroutedRow(category, "assigned_to_kam", kam)

(* History rows: the status they carry, who wrote them, whether they are a *)
(* status change (_record_status) or a note (_log_note), and the Zoho edit *)
(* they answer to (0: none).                                               *)
Authors == {"system", "admin", "astrologer", "zoho"}

HistoryRows ==
  [status : TicketStatus, by : Authors, change : BOOLEAN, edit : Nat]

ASSUME NoEntryAssumption == None \notin HistoryRows

StatusEntry(status, by) ==
  [status |-> status, by |-> by, change |-> TRUE, edit |-> 0]

NoteEntry(t, by) ==
  [status |-> t.status, by |-> by, change |-> FALSE, edit |-> 0]

CreationHistory(t) ==
  IF t.status = "submitted"
  THEN << StatusEntry("submitted", "system") >>
  ELSE << StatusEntry("submitted", "system"),
          StatusEntry("assigned_to_kam", "system") >>
=============================================================================
