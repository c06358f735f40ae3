--------------------------- MODULE TicketDeskProofs ---------------------------
(***************************************************************************)
(* Proofs about TicketDesk for any number of overlapping requests, any     *)
(* set of operations and faults and every bound.                           *)
(*                                                                         *)
(* The argument is the same for every invariant. A handler changes its     *)
(* copy of the ticket in a way that is right for the row it loaded         *)
(* (Facts); other commits change the row, but only in one direction as far *)
(* as the invariant is concerned (a clock once started is not removed, a   *)
(* flag once set is not cleared), so merging the copy into the row they    *)
(* left is right too.                                                      *)
(***************************************************************************)
EXTENDS TicketDesk, SequenceTheorems, FiniteSetTheorems, TLAPS

-----------------------------------------------------------------------------
(* The operators of TicketRow map ticket rows to ticket rows.              *)

(* _record_status yields a well-formed ticket with the status it is given, *)
(* and a resolution starts the clock and clears the answer.                *)
LEMMA RecordStatusType ==
  ASSUME NEW t \in TicketRows, NEW s \in TicketStatus, NEW at \in Nat
  PROVE  /\ RecordStatus(t, s, at) \in TicketRows
         /\ RecordStatus(t, s, at).status = s
BY DEF RecordStatus, TicketRows, TicketStatus

(* A rating leaves a well-formed ticket, closed or under review.           *)
LEMMA RatingType ==
  ASSUME NEW t \in TicketRows, NEW r \in Ratings
  PROVE  /\ record_ticket_rating(t, r) \in TicketRows
         /\ StatusAfterRating(r) \in {"closed", "under_review"}
BY ZenonT(60), RatingsAssumption
   DEF record_ticket_rating, SatisfactionOf, StatusAfterRating, TicketRows, TicketStatus

(* Routing yields two flags.                                               *)
LEMMA RoutingType ==
  ASSUME NEW c, NEW p
  PROVE  /\ routing_for_ticket(c, p).kam \in BOOLEAN
         /\ routing_for_ticket(c, p).cs \in BOOLEAN
BY DEF routing_for_ticket

(* Reassignment, escalation and the notified-flags script leave the ticket *)
(* well-formed.                                                            *)
LEMMA QueueTypes ==
  ASSUME NEW t \in TicketRows
  PROVE  /\ \A a \in Kams : reassign_kam(t, a) \in TicketRows
         /\ \A a \in CSs : reassign_cs(t, a) \in TicketRows
         /\ escalate_to_kam(t) \in TicketRows
         /\ \A p \in Priorities : backfill_notified(t, p) \in TicketRows
<1>1. \A a \in Kams : reassign_kam(t, a) \in TicketRows
  BY DEF reassign_kam, TicketRows
<1>2. \A a \in CSs : reassign_cs(t, a) \in TicketRows
  BY DEF reassign_cs, TicketRows
<1>3. escalate_to_kam(t) \in TicketRows
  BY DEF escalate_to_kam, TicketRows
<1>4. ASSUME NEW p \in Priorities PROVE backfill_notified(t, p) \in TicketRows
  BY RoutingType DEF backfill_notified, TicketRows
<1> QED
  BY <1>1, <1>2, <1>3, <1>4

(* A commit merges well-formed tickets into a well-formed ticket.          *)
LEMMA MergeType ==
  ASSUME NEW b \in TicketRows, NEW m \in TicketRows, NEW r \in TicketRows,
         NEW s \in BOOLEAN
  PROVE  Merge(b, m, r, s) \in TicketRows
BY DEF Merge, Pick, TicketRows

(* create_ticket leaves well-formed tickets.                               *)
LEMMA CreatedType ==
  /\ \A c \in Categories : HalfBuiltRow(c) \in TicketRows
  /\ \A c \in Categories, k \in Kams : AssignedRow(c, k) \in TicketRows
  /\ \A c \in Categories, p \in Priorities, k \in Kams, s \in CSs \cup {None},
        z \in Nat \cup {None} : CreatedRow(c, p, k, s, z) \in TicketRows
<1>1. ASSUME NEW c \in Categories PROVE HalfBuiltRow(c) \in TicketRows
  BY DEF HalfBuiltRow, UnroutedRow, TicketRows, TicketStatus
<1>2. ASSUME NEW c \in Categories, NEW p \in Priorities, NEW k \in Kams,
             NEW s \in CSs \cup {None}, NEW z \in Nat \cup {None}
      PROVE  CreatedRow(c, p, k, s, z) \in TicketRows
  BY RoutingType DEF CreatedRow, TicketRows, TicketStatus
<1>3. ASSUME NEW c \in Categories, NEW k \in Kams
      PROVE  AssignedRow(c, k) \in TicketRows
  BY DEF AssignedRow, UnroutedRow, TicketRows, TicketStatus
<1> QED
  BY <1>1, <1>2, <1>3

(* History rows are well-formed, and so are the rows of a new ticket.      *)
LEMMA EntryTypes ==
  /\ \A s \in TicketStatus, a \in Authors, e \in Nat :
       /\ StatusEntry(s, a) \in HistoryRows
       /\ [StatusEntry(s, a) EXCEPT !.edit = e] \in HistoryRows
  /\ \A t \in TicketRows, a \in Authors, e \in Nat :
       /\ NoteEntry(t, a) \in HistoryRows
       /\ [NoteEntry(t, a) EXCEPT !.edit = e] \in HistoryRows
BY DEF StatusEntry, NoteEntry, HistoryRows, Authors, TicketRows

LEMMA CreationHistoryType ==
  ASSUME NEW t
  PROVE  CreationHistory(t) \in Seq(HistoryRows)
<1> DEFINE e1 == StatusEntry("submitted", "system")
           e2 == StatusEntry("assigned_to_kam", "system")
<1>1. e1 \in HistoryRows /\ e2 \in HistoryRows
  BY DEF StatusEntry, HistoryRows, TicketStatus, Authors
<1> HIDE DEF e1, e2
<1>2. << e1 >> \in Seq(HistoryRows) /\ << e1, e2 >> \in Seq(HistoryRows)
  BY <1>1
<1>3. CreationHistory(t) \in {<< e1 >>, << e1, e2 >>}
  BY DEF CreationHistory, e1, e2
<1> QED
  BY <1>2, <1>3
-----------------------------------------------------------------------------

-----------------------------------------------------------------------------
(* What every handler's change from b to m, with history row e, satisfies. *)

Closes(e) == e # None /\ e.change /\ e.status = "closed"

AnswerEntry(sat, e) ==
  /\ e.by = "astrologer"
  /\ e.status = IF sat = "satisfied" THEN "closed" ELSE "under_review"

Facts(b, m, e) ==
  /\ b.resolved_at # None => m.resolved_at # None
  /\ m.status # b.status => e # None /\ e.change /\ e.status = m.status
  /\ Resolves(e) => m.resolved_at # None
  /\ m.satisfaction # b.satisfaction /\ m.satisfaction # None =>
       e # None /\ AnswerEntry(m.satisfaction, e)
  /\ Closes(e) => b.status = "resolved"

(* What it satisfies when the notified-flags script is not in use.         *)
Kept(b, r) ==
  /\ b.kam_notified => r.kam_notified
  /\ b.cs_notified => r.cs_notified
  /\ b.assigned_admin_id # None => r.assigned_admin_id # None

QueueFacts(b, m) ==
  /\ Kept(b, m)
  /\ m.escalated_to_kam # b.escalated_to_kam =>
       m.kam_notified /\ m.assigned_admin_id # None
  /\ m.zoho_ticket_id # b.zoho_ticket_id => m.cs_notified

NoNotifiedBackfill == "backfill_notified" \notin Operations

(* A handler running on worker w: what it holds afterwards.                *)
Handles(w, t, e, push, sync, closing) ==
  /\ Handle(w, t, e, push, sync, closing)
  /\ t.zoho_ticket_id = row.zoho_ticket_id
  /\ Facts(row, t, e)
  /\ NoNotifiedBackfill => QueueFacts(row, t)

(* Moving the status from a row to a settable status.                      *)
LEMMA MoveFacts ==
  ASSUME NEW r \in TicketRows, NEW s \in ADMIN_SETTABLE_STATUSES, NEW at \in Nat,
         NEW e \in HistoryRows, e.change, e.status = s
  PROVE  /\ RecordStatus(r, s, at) \in TicketRows
         /\ RecordStatus(r, s, at).zoho_ticket_id = r.zoho_ticket_id
         /\ Facts(r, RecordStatus(r, s, at), e)
         /\ QueueFacts(r, RecordStatus(r, s, at))
<1>1. s \in TicketStatus /\ s # "closed"
  BY DEF ADMIN_SETTABLE_STATUSES, TicketStatus
<1>2. RecordStatus(r, s, at) \in TicketRows
  BY <1>1, RecordStatusType
<1>3. Facts(r, RecordStatus(r, s, at), e)
  BY <1>1, NoneAssumption, NoEntryAssumption DEF Facts, RecordStatus, Resolves, Closes, TicketRows
<1>4. /\ QueueFacts(r, RecordStatus(r, s, at))
      /\ RecordStatus(r, s, at).zoho_ticket_id = r.zoho_ticket_id
  BY DEF QueueFacts, Kept, RecordStatus, TicketRows
<1> QED
  BY <1>2, <1>3, <1>4

(* Auto-closing a resolved row.                                            *)
LEMMA CloseFacts ==
  ASSUME NEW r \in TicketRows, NEW at \in Nat, r.status = "resolved"
  PROVE  /\ RecordStatus(r, "closed", at) \in TicketRows
         /\ StatusEntry("closed", "system") \in HistoryRows
         /\ RecordStatus(r, "closed", at).zoho_ticket_id = r.zoho_ticket_id
         /\ Facts(r, RecordStatus(r, "closed", at), StatusEntry("closed", "system"))
         /\ QueueFacts(r, RecordStatus(r, "closed", at))
<1>1. /\ RecordStatus(r, "closed", at) \in TicketRows
      /\ StatusEntry("closed", "system") \in HistoryRows
  BY RecordStatusType, EntryTypes DEF TicketStatus, Authors, StatusEntry, HistoryRows
<1>2. Facts(r, RecordStatus(r, "closed", at), StatusEntry("closed", "system"))
  BY <1>1, NoEntryAssumption
  DEF Facts, RecordStatus, Resolves, Closes, TicketRows, StatusEntry
<1>3. /\ QueueFacts(r, RecordStatus(r, "closed", at))
      /\ RecordStatus(r, "closed", at).zoho_ticket_id = r.zoho_ticket_id
  BY DEF QueueFacts, Kept, RecordStatus, TicketRows
<1> QED
  BY <1>1, <1>2, <1>3

(* Rating a resolved row.                                                  *)
LEMMA RateFacts ==
  ASSUME NEW r \in TicketRows, NEW n \in Ratings, r.status = "resolved"
  PROVE  LET t == record_ticket_rating(r, n)
             e == StatusEntry(StatusAfterRating(n), "astrologer")
         IN  /\ t \in TicketRows /\ e \in HistoryRows
             /\ t.zoho_ticket_id = r.zoho_ticket_id
             /\ Facts(r, t, e) /\ QueueFacts(r, t)
<1> DEFINE t == record_ticket_rating(r, n)
           e == StatusEntry(StatusAfterRating(n), "astrologer")
<1>1. t \in TicketRows /\ StatusAfterRating(n) \in {"closed", "under_review"}
  BY RatingType
<1>2. e \in HistoryRows /\ e.by = "astrologer" /\ e.change
      /\ e.status = StatusAfterRating(n)
  BY <1>1 DEF StatusEntry, HistoryRows, TicketStatus, Authors
<1>3. /\ t.status = StatusAfterRating(n) /\ t.satisfaction = SatisfactionOf(n)
      /\ t.resolved_at = r.resolved_at
      /\ t.zoho_ticket_id = r.zoho_ticket_id
  BY DEF record_ticket_rating, TicketRows
<1>4. StatusAfterRating(n) = IF SatisfactionOf(n) = "satisfied"
                             THEN "closed" ELSE "under_review"
  BY DEF StatusAfterRating, SatisfactionOf
<1>5. e # None
  BY <1>2, NoEntryAssumption
<1> HIDE DEF t, e
<1>6. Facts(r, t, e)
  BY <1>1, <1>2, <1>3, <1>4, <1>5 DEF Facts, Resolves, Closes, AnswerEntry
<1>7. QueueFacts(r, t)
  BY DEF QueueFacts, Kept, record_ticket_rating, TicketRows, t
<1> QED
  BY <1>1, <1>2, <1>3, <1>6, <1>7 DEF t, e

(* Reassigning or escalating a row, with a note in its status.             *)
LEMMA NoteFacts ==
  ASSUME NEW r \in TicketRows, NEW e \in HistoryRows, ~e.change
  PROVE  /\ \A a \in Kams : Facts(r, reassign_kam(r, a), e) /\ QueueFacts(r, reassign_kam(r, a))
         /\ \A a \in CSs : Facts(r, reassign_cs(r, a), e) /\ QueueFacts(r, reassign_cs(r, a))
         /\ Facts(r, escalate_to_kam(r), e)
         /\ r.assigned_admin_id # None => QueueFacts(r, escalate_to_kam(r))
<1>1. ASSUME NEW a \in Kams
      PROVE  Facts(r, reassign_kam(r, a), e) /\ QueueFacts(r, reassign_kam(r, a))
  BY NoneAssumption
  DEF Facts, QueueFacts, Kept, Resolves, Closes, reassign_kam, TicketRows
<1>2. ASSUME NEW a \in CSs
      PROVE  Facts(r, reassign_cs(r, a), e) /\ QueueFacts(r, reassign_cs(r, a))
  BY DEF Facts, QueueFacts, Kept, Resolves, Closes, reassign_cs, TicketRows
<1>3. /\ Facts(r, escalate_to_kam(r), e)
      /\ r.assigned_admin_id # None => QueueFacts(r, escalate_to_kam(r))
  BY DEF Facts, QueueFacts, Kept, Resolves, Closes, escalate_to_kam, TicketRows
<1> QED
  BY <1>1, <1>2, <1>3

(* A change without a history row that leaves status, clock and answer.    *)
LEMMA SilentFacts ==
  ASSUME NEW r \in TicketRows
  PROVE  /\ Facts(r, r, None) /\ QueueFacts(r, r)
         /\ \A p \in Priorities : Facts(r, backfill_notified(r, p), None)
<1>1. Facts(r, r, None) /\ QueueFacts(r, r)
  BY DEF Facts, QueueFacts, Kept, Resolves, Closes
<1>2. ASSUME NEW p \in Priorities PROVE Facts(r, backfill_notified(r, p), None)
  BY DEF Facts, Resolves, Closes, backfill_notified, TicketRows
<1> QED
  BY <1>1, <1>2

(* Every request either reads, or runs a handler that keeps the facts.     *)
LEMMA RequestHandles ==
  ASSUME TypeOK, NEW w \in Workers, Request(w)
  PROVE  \/ ReadOnly(w) \/ BackfillSelects(w) \/ BackfillSkips(w)
         \/ \E t \in TicketRows, e \in HistoryRows \cup {None},
               push \in BOOLEAN, sync \in BOOLEAN, closing \in BOOLEAN :
              Handles(w, t, e, push, sync, closing)
<1> DEFINE Goal == \E t \in TicketRows, e \in HistoryRows \cup {None},
                      push \in BOOLEAN, sync \in BOOLEAN, closing \in BOOLEAN :
                     Handles(w, t, e, push, sync, closing)
<1>0. row \in TicketRows /\ now \in Nat /\ edits \in Seq([zoho : Nat, status : ZohoStatus])
  BY DEF TypeOK
<1>a. ASSUME NEW t \in TicketRows, NEW e \in HistoryRows \cup {None},
             NEW push \in BOOLEAN, NEW sync \in BOOLEAN, NEW closing \in BOOLEAN,
             Handle(w, t, e, push, sync, closing),
             t.zoho_ticket_id = row.zoho_ticket_id,
             Facts(row, t, e), QueueFacts(row, t)
      PROVE  Goal
  BY <1>a DEF Handles
<1>b. ASSUME NEW s \in ADMIN_SETTABLE_STATUSES, NEW by \in Authors, NEW n \in Nat,
             \/ HandleStatus(w, RecordStatus(row, s, now), StatusEntry(s, by))
             \/ HandleStatus(w, RecordStatus(row, s, now),
                             [StatusEntry(s, by) EXCEPT !.edit = n])
      PROVE  Goal
  <2>1. PICK e \in HistoryRows : /\ HandleStatus(w, RecordStatus(row, s, now), e)
                                 /\ e.change /\ e.status = s
    BY <1>b, EntryTypes DEF StatusEntry, ADMIN_SETTABLE_STATUSES, TicketStatus
  <2> QED
    BY <1>0, <2>1, <1>a, MoveFacts DEF HandleStatus
<1>c. ASSUME NEW t \in TicketRows, NEW by \in Authors, NEW n \in Nat,
             NEW push \in BOOLEAN, NEW sync \in BOOLEAN,
             \/ Handle(w, t, NoteEntry(row, by), push, sync, FALSE)
             \/ Handle(w, t, [NoteEntry(row, by) EXCEPT !.edit = n], push, sync, FALSE),
             \/ \E a \in Kams : t = reassign_kam(row, a)
             \/ \E a \in CSs : t = reassign_cs(row, a)
             \/ t = escalate_to_kam(row) /\ row.assigned_admin_id # None
      PROVE  Goal
  <2>0. /\ NoteEntry(row, by) \in HistoryRows
        /\ ~NoteEntry(row, by).change
        /\ [NoteEntry(row, by) EXCEPT !.edit = n] \in HistoryRows
        /\ ~[NoteEntry(row, by) EXCEPT !.edit = n].change
    BY <1>0 DEF NoteEntry, HistoryRows, TicketRows
  <2>1. PICK e \in HistoryRows : Handle(w, t, e, push, sync, FALSE) /\ ~e.change
    BY <1>c, <2>0
  <2>2. Facts(row, t, e) /\ QueueFacts(row, t)
    BY <1>0, <1>c, <2>1, NoteFacts
  <2>3. t.zoho_ticket_id = row.zoho_ticket_id
    BY <1>0, <1>c DEF reassign_kam, reassign_cs, escalate_to_kam, TicketRows
  <2> QED
    BY <2>1, <2>2, <2>3, <1>a
<1>1. CASE LazyAutoClose(w)
  BY <1>0, <1>1, <1>a, CloseFacts DEF LazyAutoClose, IsStale
<1>2. CASE BatchAutoClose(w)
  BY <1>0, <1>2, <1>a, CloseFacts DEF BatchAutoClose, IsStale
<1>3. CASE \E s \in TicketStatus : transition_status(w, s)
  BY <1>3, <1>b DEF transition_status, Authors
<1>4. CASE \E r \in Ratings : RateTicket(w, r)
  BY <1>0, <1>4, <1>a, RateFacts DEF RateTicket, HandleStatus
<1>5. CASE \E a \in Kams : ReassignKam(w, a)
  BY <1>0, <1>5, <1>c, QueueTypes DEF ReassignKam, Authors
<1>6. CASE \E a \in CSs : ReassignCs(w, a)
  BY <1>0, <1>6, <1>c, QueueTypes DEF ReassignCs, Authors
<1>7. CASE AdminEscalates(w)
  BY <1>0, <1>7, <1>c, QueueTypes DEF AdminEscalates, Authors
<1>8. CASE \E e \in 1..Len(edits), s \in TicketStatus : ZohoMoves(w, e, s)
  <2>1. PICK e \in 1..Len(edits) : \E s \in TicketStatus : ZohoMoves(w, e, s)
    BY <1>8
  <2>2. PICK s \in TicketStatus : ZohoMoves(w, e, s)
    BY <2>1
  <2>3. e \in Nat
    BY <1>0
  <2>4. s = "resolved" \/ s = "in_progress"
    BY <2>2 DEF ZohoMoves
  <2>5. s \in ADMIN_SETTABLE_STATUSES
    BY <2>4 DEF ADMIN_SETTABLE_STATUSES
  <2>6. HandleStatus(w, RecordStatus(row, s, now),
                     [StatusEntry(s, "zoho") EXCEPT !.edit = e])
    BY <2>2 DEF ZohoMoves
  <2> QED
    BY <2>3, <2>5, <2>6, <1>b DEF Authors
<1>9. CASE \E e \in 1..Len(edits) : ZohoEscalates(w, e)
  <2>1. PICK e \in 1..Len(edits) : ZohoEscalates(w, e)
    BY <1>9
  <2>2. e \in Nat /\ escalate_to_kam(row) \in TicketRows
    BY <1>0, QueueTypes
  <2>3. Handle(w, escalate_to_kam(row), [NoteEntry(row, "zoho") EXCEPT !.edit = e],
               TRUE, TRUE, FALSE)
        /\ row.assigned_admin_id # None
    BY <2>1 DEF ZohoEscalates
  <2> QED
    BY <2>2, <2>3, <1>c DEF Authors
<1>10. CASE BackfillZoho(w)
  BY <1>0, <1>10, <1>a, SilentFacts DEF BackfillZoho
<1>11. CASE \E p \in Priorities : BackfillNotified(w, p)
  <2>1. PICK p \in Priorities : BackfillNotified(w, p)
    BY <1>11
  <2>2. /\ backfill_notified(row, p) \in TicketRows
        /\ backfill_notified(row, p).zoho_ticket_id = row.zoho_ticket_id
        /\ Facts(row, backfill_notified(row, p), None)
    BY <1>0, QueueTypes, SilentFacts DEF backfill_notified, TicketRows
  <2> QED
    BY <2>1, <2>2 DEF BackfillNotified, Handles, NoNotifiedBackfill
<1> QED
  BY <1>1, <1>2, <1>3, <1>4, <1>5, <1>6, <1>7, <1>8, <1>9, <1>10, <1>11 DEF Request

-----------------------------------------------------------------------------
(* Types.                                                                  *)

LEMMA ExceptKeepsSeq ==
  ASSUME NEW S, NEW q \in Seq(S), NEW i, NEW v \in S
  PROVE  [q EXCEPT ![i] = v] \in Seq(S)
<1>1. CASE i \in 1..Len(q)
  BY <1>1, ExceptSeq
<1>2. CASE i \notin 1..Len(q)
  <2>1. q \in [1..Len(q) -> S]
    BY ElementOfSeq
  <2>2. [q EXCEPT ![i] = v] = q
    BY <1>2, <2>1
  <2> QED
    BY <2>2
<1> QED
  BY <1>1, <1>2

(* A new session for w, the others untouched.                              *)
Replaces(w, s) ==
  /\ sess' \in [Workers -> Sessions]
  /\ sess'[w] = s
  /\ \A u \in Workers \ {w} : sess'[u] = sess[u]

LEMMA EndSession ==
  ASSUME TypeOK, NEW w \in Workers, NEW pc \in {"idle", "reloaded", "selected"},
         sess' = [sess EXCEPT ![w] = NoSession(pc)]
  PROVE  Replaces(w, NoSession(pc)) /\ w \notin Pending'
<1>1. NoSession(pc) \in Sessions /\ NoSession(pc).pc = pc
  BY DEF NoSession, Sessions
<1>2. Replaces(w, NoSession(pc))
  BY <1>1 DEF Replaces, TypeOK
<1> QED
  BY <1>1, <1>2 DEF Replaces, Pending

(* What a handler leaves in the session.                                   *)
LEMMA HandleSession ==
  ASSUME TypeOK, NEW w \in Workers, NEW t \in TicketRows,
         NEW e \in HistoryRows \cup {None}, NEW push \in BOOLEAN,
         NEW sync \in BOOLEAN, NEW closing \in BOOLEAN,
         Handle(w, t, e, push, sync, closing)
  PROVE  /\ Replaces(w, sess'[w])
         /\ sess'[w].base = row /\ sess'[w].mine = t /\ sess'[w].entry = e
         /\ sess'[w].stamped = Resolves(e)
         /\ sess'[w].pc = NextStep(t, push, sync)
         /\ UNCHANGED <<row, history, now, zoho, edits>>
<1> DEFINE s == [ pc |-> NextStep(t, push, sync), base |-> row, mine |-> t,
                  entry |-> e, sync |-> sync, closing |-> closing,
                  stamped |-> Resolves(e) ]
<1>1. NextStep(t, push, sync) \in {"push", "sync", "commit"}
  BY DEF NextStep
<1>2. Resolves(e) \in BOOLEAN
  BY DEF Resolves
<1>3. s \in Sessions
  BY <1>1, <1>2 DEF Sessions, TypeOK
<1>4. sess' = [sess EXCEPT ![w] = s] /\ UNCHANGED <<row, history, now, zoho, edits>>
  BY DEF Handle
<1> QED
  BY <1>3, <1>4 DEF Replaces, TypeOK

(* What a call to Zoho leaves in the session: the ticket in memory, and    *)
(* what is left to do.                                                     *)
LEMMA ProceedSession ==
  ASSUME TypeOK, NEW w \in Pending, NEW t \in TicketRows, Proceed(w, t)
  PROVE  /\ Replaces(w, sess'[w])
         /\ sess'[w].base = sess[w].base /\ sess'[w].mine = t
         /\ sess'[w].entry = sess[w].entry /\ sess'[w].stamped = sess[w].stamped
         /\ sess'[w].pc \in {"sync", "commit"}
<1>1. w \in Workers /\ sess[w] \in Sessions
  BY DEF Pending, TypeOK
<1>2. NextStep(t, FALSE, sess[w].sync) \in {"sync", "commit"}
  BY DEF NextStep
<1> DEFINE s == [sess[w] EXCEPT !.mine = t, !.pc = NextStep(t, FALSE, sess[w].sync)]
<1>3. s \in Sessions
  BY <1>1, <1>2 DEF Sessions
<1>4. sess' = [sess EXCEPT ![w] = s]
  BY <1>1 DEF Proceed, TypeOK
<1>5. Replaces(w, s)
  BY <1>1, <1>3, <1>4 DEF Replaces, TypeOK
<1>6. sess'[w] = s
  BY <1>5 DEF Replaces
<1> QED
  BY <1>1, <1>2, <1>5, <1>6 DEF Sessions

(* The pending part of the type invariant after a step of w.               *)
LEMMA PendingTyped ==
  ASSUME TypeOK, NEW w \in Workers, NEW s, Replaces(w, s),
         w \in Pending' => s.base \in TicketRows /\ s.mine \in TicketRows
  PROVE  \A u \in Pending' : sess'[u].base \in TicketRows /\ sess'[u].mine \in TicketRows
BY DEF TypeOK, Replaces, Pending

(* A call to Zoho touches the Zoho id of the ticket in memory at most, and *)
(* only a push does.                                                       *)
LEMMA ZohoCall ==
  ASSUME TypeOK, NEW w \in Workers, Push(w) \/ PushFails(w) \/ Sync(w)
  PROVE  /\ w \in Pending
         /\ Replaces(w, sess'[w])
         /\ sess'[w].base = sess[w].base /\ sess'[w].entry = sess[w].entry
         /\ sess'[w].stamped = sess[w].stamped
         /\ sess'[w].pc \in {"sync", "commit"}
         /\ \E z \in Nat \cup {None} :
              /\ sess'[w].mine = [sess[w].mine EXCEPT !.zoho_ticket_id = z]
              /\ z # sess[w].mine.zoho_ticket_id => sess[w].pc = "push"
         /\ zoho' \in Seq(ZohoStatus)
         /\ UNCHANGED <<row, history, now, edits>>
<1>1. w \in Pending
  BY DEF Push, PushFails, Sync, Pending
<1> DEFINE m == sess[w].mine
<1>2. m \in TicketRows /\ sess[w] \in Sessions /\ zoho \in Seq(ZohoStatus)
  BY <1>1 DEF TypeOK
<1>3. zoho_status_for(m) \in ZohoStatus
  BY DEF zoho_status_for, ZohoStatus
<1>4. m = [m EXCEPT !.zoho_ticket_id = m.zoho_ticket_id]
      /\ m.zoho_ticket_id \in Nat \cup {None}
  BY <1>2 DEF TicketRows
<1>5. CASE Push(w)
  <2> DEFINE linked == [m EXCEPT !.zoho_ticket_id = Len(zoho) + 1]
  <2>1. Len(zoho) + 1 \in Nat
    BY <1>2
  <2>2. linked \in TicketRows
    BY <1>2, <2>1 DEF TicketRows
  <2>3. zoho' \in Seq(ZohoStatus) /\ UNCHANGED <<row, history, now, edits>>
    BY <1>2, <1>3, <1>5 DEF Push
  <2>4. sess[w].pc = "push"
    BY <1>5 DEF Push
  <2>5. CASE Proceed(w, linked)
    BY <1>1, <1>2, <2>1, <2>2, <2>3, <2>4, <2>5, ProceedSession
  <2>6. CASE Proceed(w, m)
    BY <1>1, <1>2, <1>4, <2>3, <2>4, <2>6, ProceedSession
  <2> QED
    BY <1>5, <2>5, <2>6 DEF Push
<1>6. CASE PushFails(w)
  BY <1>1, <1>2, <1>4, <1>6, ProceedSession DEF PushFails
<1>7. CASE Sync(w)
  <2> DEFINE s == [sess[w] EXCEPT !.pc = "commit"]
  <2>1. s \in Sessions
    BY <1>2 DEF Sessions
  <2>2. sess' = [sess EXCEPT ![w] = s]
    BY <1>7 DEF Sync
  <2>3. Replaces(w, s) /\ sess'[w] = s
    BY <2>1, <2>2 DEF Replaces, TypeOK
  <2>4. /\ s.base = sess[w].base /\ s.mine = m /\ s.entry = sess[w].entry
        /\ s.stamped = sess[w].stamped /\ s.pc = "commit"
    BY <1>2 DEF Sessions
  <2>5. zoho' \in Seq(ZohoStatus) /\ UNCHANGED <<row, history, now, edits>>
    BY <1>2, <1>3, <1>7, ExceptKeepsSeq DEF Sync
  <2> HIDE DEF s
  <2> QED
    BY <1>1, <1>4, <2>3, <2>4, <2>5
<1> QED
  BY <1>5, <1>6, <1>7

(* What a commit writes.                                                   *)
LEMMA CommitWrites ==
  ASSUME TypeOK, NEW w \in Workers, Commit(w)
  PROVE  /\ w \in Pending
         /\ sess[w].base \in TicketRows /\ sess[w].mine \in TicketRows
         /\ sess[w].entry \in HistoryRows \cup {None}
         /\ row' = Merge(sess[w].base, sess[w].mine, row, sess[w].stamped)
         /\ row' \in TicketRows
         /\ IF sess[w].entry = None THEN history' = history
            ELSE /\ history' = Append(history, sess[w].entry)
                 /\ history' \in Seq(HistoryRows)
                 /\ Len(history') = Len(history) + 1
                 /\ \A i \in 1..Len(history) : history'[i] = history[i]
                 /\ history'[Len(history) + 1] = sess[w].entry
         /\ w \notin Pending'
         /\ Replaces(w, sess'[w])
         /\ UNCHANGED <<now, zoho, edits>>
<1>1. w \in Pending /\ sess[w] \in Sessions
  BY DEF Commit, Pending, TypeOK
<1>2. /\ sess[w].base \in TicketRows /\ sess[w].mine \in TicketRows
      /\ sess[w].entry \in HistoryRows \cup {None} /\ sess[w].stamped \in BOOLEAN
      /\ row \in TicketRows /\ history \in Seq(HistoryRows)
  BY <1>1 DEF TypeOK, Sessions
<1>3. row' = Merge(sess[w].base, sess[w].mine, row, sess[w].stamped)
      /\ row' \in TicketRows
  BY <1>2, MergeType DEF Commit
<1>4. sess[w].entry = None => history' = history
  BY DEF Commit
<1>5. sess[w].entry # None =>
        /\ history' = Append(history, sess[w].entry)
        /\ history' \in Seq(HistoryRows)
        /\ Len(history') = Len(history) + 1
        /\ \A i \in 1..Len(history) : history'[i] = history[i]
        /\ history'[Len(history) + 1] = sess[w].entry
  BY <1>2, AppendProperties DEF Commit
<1>6. \E pc \in {"idle", "reloaded"} : sess' = [sess EXCEPT ![w] = NoSession(pc)]
  BY DEF Commit
<1>7. w \notin Pending' /\ Replaces(w, sess'[w])
  BY <1>6, EndSession DEF Replaces
<1>8. UNCHANGED <<now, zoho, edits>>
  BY DEF Commit
<1> QED
  BY <1>1, <1>2, <1>3, <1>4, <1>5, <1>7, <1>8

(* The steps of the system, by what they do to the row and the sessions.   *)
StartsHandler(w) ==
  \E t \in TicketRows, e \in HistoryRows \cup {None}, push \in BOOLEAN,
     sync \in BOOLEAN, closing \in BOOLEAN : Handles(w, t, e, push, sync, closing)

CallsZoho(w) == Push(w) \/ PushFails(w) \/ Sync(w)

GivesUp(w) == ReadOnly(w) \/ BackfillSelects(w) \/ BackfillSkips(w) \/ Crash(w)

Environment ==
  (\E z \in 1..Len(zoho), s \in ZohoStatus : AgentEdits(z, s)) \/ Tick

LEMMA StepCases ==
  ASSUME TypeOK, Next
  PROVE  \/ \E w \in Workers : StartsHandler(w) \/ CallsZoho(w) \/ Commit(w) \/ GivesUp(w)
         \/ Environment
<1>1. ASSUME NEW w \in Workers, Request(w)
      PROVE  StartsHandler(w) \/ GivesUp(w)
  BY <1>1, RequestHandles DEF StartsHandler, GivesUp
<1> QED
  BY <1>1 DEF Next, CallsZoho, GivesUp, Environment

LEMMA GivesUpEnds ==
  ASSUME TypeOK, NEW w \in Workers, GivesUp(w)
  PROVE  /\ Replaces(w, sess'[w])
         /\ w \notin Pending'
         /\ UNCHANGED <<row, history, now, zoho, edits>>
<1>1. /\ \E pc \in {"idle", "selected"} : sess' = [sess EXCEPT ![w] = NoSession(pc)]
      /\ UNCHANGED <<row, history, now, zoho, edits>>
  BY DEF GivesUp, ReadOnly, BackfillSelects, BackfillSkips, Crash
<1> QED
  BY <1>1, EndSession DEF Replaces

LEMMA EnvironmentFrame ==
  ASSUME TypeOK, Environment
  PROVE  /\ UNCHANGED <<row, history, sess>> /\ Pending' = Pending
         /\ now' \in Nat
         /\ zoho' \in Seq(ZohoStatus)
         /\ edits' \in Seq([zoho : Nat, status : ZohoStatus])
<1>1. CASE Tick
  BY <1>1 DEF Tick, TypeOK, Pending
<1>2. CASE \E z \in 1..Len(zoho), s \in ZohoStatus : AgentEdits(z, s)
  <2>1. PICK z \in 1..Len(zoho), s \in ZohoStatus : AgentEdits(z, s)
    BY <1>2
  <2>2. zoho \in Seq(ZohoStatus) /\ z \in Nat
    BY DEF TypeOK
  <2>3. zoho' \in Seq(ZohoStatus)
    BY <2>1, <2>2, ExceptKeepsSeq DEF AgentEdits
  <2>4. edits' \in Seq([zoho : Nat, status : ZohoStatus])
    BY <2>1, <2>2 DEF AgentEdits, TypeOK
  <2> QED
    BY <2>1, <2>3, <2>4 DEF AgentEdits, TypeOK, Pending
<1> QED
  BY <1>1, <1>2 DEF Environment

LEMMA InitTyped == Init => TypeOK
<1> SUFFICES ASSUME Init PROVE TypeOK
  OBVIOUS
<1>1. row \in TicketRows
  <2>1. CASE \E c \in Categories : row = HalfBuiltRow(c)
    BY <2>1, CreatedType
  <2>4. CASE \E c \in Categories, k \in Kams : row = AssignedRow(c, k)
    BY <2>4, CreatedType
  <2>2. CASE \E c \in Categories, p \in Priorities, k \in Kams,
                s \in CSs \cup {None}, z \in {1, None} :
                  row = CreatedRow(c, p, k, s, z)
    BY <2>2, CreatedType
  <2> QED
    BY <2>1, <2>2, <2>4 DEF Init, InitialRows
<1>2. history \in Seq(HistoryRows)
  BY CreationHistoryType DEF Init
<1>3. sess \in [Workers -> Sessions] /\ Pending = {}
  BY DEF Init, NoSession, Sessions, Pending
<1>4. zoho \in Seq(ZohoStatus)
  <2>1. << "Open" >> \in Seq(ZohoStatus) /\ << >> \in Seq(ZohoStatus)
    BY DEF ZohoStatus
  <2> QED
    BY <2>1 DEF Init
<1> QED
  BY <1>1, <1>2, <1>3, <1>4 DEF Init, TypeOK

LEMMA StepTyped ==
  ASSUME TypeOK, Next
  PROVE  TypeOK'
<1>1. CASE \E w \in Workers : StartsHandler(w)
  <2>1. PICK w \in Workers : StartsHandler(w)
    BY <1>1
  <2>2. PICK t \in TicketRows, e \in HistoryRows \cup {None}, push \in BOOLEAN,
             sync \in BOOLEAN, closing \in BOOLEAN :
               Handle(w, t, e, push, sync, closing)
    BY <2>1 DEF StartsHandler, Handles
  <2>3. /\ Replaces(w, sess'[w])
        /\ sess'[w].base \in TicketRows /\ sess'[w].mine \in TicketRows
        /\ UNCHANGED <<row, history, now, zoho, edits>>
    <3>1. row \in TicketRows
      BY DEF TypeOK
    <3> QED
      BY <2>2, <3>1, HandleSession
  <2>4. \A u \in Pending' : sess'[u].base \in TicketRows /\ sess'[u].mine \in TicketRows
    BY <2>3, PendingTyped
  <2> QED
    BY <2>3, <2>4 DEF TypeOK, Replaces
<1>2. CASE \E w \in Workers : CallsZoho(w)
  <2>1. PICK w \in Workers : CallsZoho(w)
    BY <1>2
  <2>2. /\ w \in Pending
        /\ Replaces(w, sess'[w])
        /\ sess'[w].base = sess[w].base
        /\ \E z \in Nat \cup {None} :
             sess'[w].mine = [sess[w].mine EXCEPT !.zoho_ticket_id = z]
        /\ zoho' \in Seq(ZohoStatus)
        /\ UNCHANGED <<row, history, now, edits>>
    BY <2>1, ZohoCall DEF CallsZoho
  <2>3. sess[w].base \in TicketRows /\ sess[w].mine \in TicketRows
    BY <2>2 DEF TypeOK
  <2>4. sess'[w].base \in TicketRows /\ sess'[w].mine \in TicketRows
    BY <2>2, <2>3 DEF TicketRows
  <2>5. \A u \in Pending' : sess'[u].base \in TicketRows /\ sess'[u].mine \in TicketRows
    BY <2>2, <2>4, PendingTyped
  <2> QED
    BY <2>2, <2>5 DEF TypeOK, Replaces
<1>3. CASE \E w \in Workers : Commit(w)
  <2>1. PICK w \in Workers : Commit(w)
    BY <1>3
  <2>2. /\ row' \in TicketRows /\ history' \in Seq(HistoryRows)
        /\ w \notin Pending'
        /\ Replaces(w, sess'[w])
        /\ UNCHANGED <<now, zoho, edits>>
    BY <2>1, CommitWrites DEF TypeOK
  <2>3. \A u \in Pending' : sess'[u].base \in TicketRows /\ sess'[u].mine \in TicketRows
    BY <2>2, PendingTyped
  <2> QED
    BY <2>2, <2>3 DEF TypeOK, Replaces
<1>4. CASE \E w \in Workers : GivesUp(w)
  <2>1. PICK w \in Workers : GivesUp(w)
    BY <1>4
  <2>2. \A u \in Pending' : sess'[u].base \in TicketRows /\ sess'[u].mine \in TicketRows
    BY <2>1, GivesUpEnds, PendingTyped
  <2> QED
    BY <2>1, <2>2, GivesUpEnds DEF TypeOK, Replaces
<1>5. CASE Environment
  BY <1>5, EnvironmentFrame DEF TypeOK
<1> QED
  BY <1>1, <1>2, <1>3, <1>4, <1>5, StepCases

(* Whatever requests overlap and whatever fails, every variable keeps its  *)
(* type: in particular every session about to commit holds two well-formed *)
(* tickets to merge.                                                       *)
THEOREM DeskTypeCorrect == Spec => []TypeOK
<1>1. TypeOK /\ [Next]_vars => TypeOK'
  <2>1. CASE UNCHANGED vars
    BY <2>1 DEF vars, TypeOK, Pending
  <2> QED
    BY <2>1, StepTyped
<1> QED
  BY <1>1, InitTyped, PTL DEF Spec

-----------------------------------------------------------------------------
(* Statuses, clock, answer and closes.                                     *)

WasResolved ==
  \E j \in 1..Len(history) : history[j].status = "resolved" /\ history[j].change

(* A pending session fits the row and the history: its change is right for *)
(* the row it loaded, whose clock, if it ran, still runs; and if it        *)
(* closes, the resolution it rests on is committed.                        *)
Fits(w) ==
  /\ Facts(sess[w].base, sess[w].mine, sess[w].entry)
  /\ sess[w].base.resolved_at # None => row.resolved_at # None
  /\ sess[w].stamped = Resolves(sess[w].entry)
  /\ Closes(sess[w].entry) => WasResolved

StatusInv ==
  /\ ResolvedHasClock
  /\ AnswerIsRecorded
  /\ ClosedWasResolved
  /\ row.status = "resolved" => WasResolved
  /\ \A w \in Pending : Fits(w)

LEMMA FactsIgnoreZohoId ==
  ASSUME NEW b \in TicketRows, NEW m \in TicketRows, NEW e, NEW z, Facts(b, m, e)
  PROVE  Facts(b, [m EXCEPT !.zoho_ticket_id = z], e)
<1> DEFINE n == [m EXCEPT !.zoho_ticket_id = z]
<1>1. n.status = m.status /\ n.resolved_at = m.resolved_at /\ n.satisfaction = m.satisfaction
  BY DEF TicketRows
<1> HIDE DEF n
<1>2. Facts(b, n, e)
  BY <1>1 DEF Facts
<1> QED
  BY <1>2 DEF n

(* Sessions that fit keep fitting while the row and the history stay.      *)
LEMMA FitsFrame ==
  ASSUME TypeOK, StatusInv, NEW w \in Workers, Replaces(w, sess'[w]),
         UNCHANGED <<row, history>>, w \in Pending' => Fits(w)'
  PROVE  StatusInv'
<1>1. /\ ResolvedHasClock' /\ AnswerIsRecorded' /\ ClosedWasResolved'
      /\ (row.status = "resolved" => WasResolved)'
  BY DEF StatusInv, ResolvedHasClock, AnswerIsRecorded, ClosedWasResolved, WasResolved
<1>2. ASSUME NEW u \in Pending' PROVE Fits(u)'
  <2>1. CASE u = w
    BY <1>2, <2>1
  <2>2. CASE u # w
    <3>1. u \in Pending /\ sess'[u] = sess[u]
      BY <1>2, <2>2 DEF Pending, Replaces
    <3>2. Fits(u)
      BY <3>1 DEF StatusInv
    <3> QED
      BY <3>1, <3>2 DEF Fits, WasResolved
  <2> QED
    BY <2>1, <2>2
<1> QED
  BY <1>1, <1>2 DEF StatusInv

LEMMA HandlerFits ==
  ASSUME TypeOK, StatusInv, NEW w \in Workers, StartsHandler(w)
  PROVE  StatusInv'
<1>1. PICK t \in TicketRows, e \in HistoryRows \cup {None}, push \in BOOLEAN,
           sync \in BOOLEAN, closing \in BOOLEAN :
             Handles(w, t, e, push, sync, closing)
  BY DEF StartsHandler
<1>2. /\ Replaces(w, sess'[w])
      /\ sess'[w].base = row /\ sess'[w].mine = t /\ sess'[w].entry = e
      /\ sess'[w].stamped = Resolves(e)
      /\ UNCHANGED <<row, history>>
  BY <1>1, HandleSession DEF Handles
<1>3. Facts(row, t, e)
  BY <1>1 DEF Handles
<1>4. Closes(e) => WasResolved
  BY <1>3 DEF Facts, StatusInv
<1>5. Facts(sess[w].base, sess[w].mine, sess[w].entry)'
  BY <1>2, <1>3 DEF Facts, Resolves, Closes, AnswerEntry
<1>6. Fits(w)'
  BY <1>2, <1>4, <1>5 DEF Fits, WasResolved, Closes, Resolves
<1> QED
  BY <1>2, <1>6, FitsFrame

LEMMA ZohoCallFits ==
  ASSUME TypeOK, StatusInv, NEW w \in Workers, CallsZoho(w)
  PROVE  StatusInv'
<1>1. /\ w \in Pending
      /\ Replaces(w, sess'[w])
      /\ sess'[w].base = sess[w].base /\ sess'[w].entry = sess[w].entry
      /\ sess'[w].stamped = sess[w].stamped
      /\ \E z \in Nat \cup {None} :
           sess'[w].mine = [sess[w].mine EXCEPT !.zoho_ticket_id = z]
      /\ UNCHANGED <<row, history>>
  BY ZohoCall DEF CallsZoho
<1>2. Fits(w)
  BY <1>1 DEF StatusInv
<1>3. sess[w].base \in TicketRows /\ sess[w].mine \in TicketRows
  BY <1>1 DEF TypeOK
<1>4. Facts(sess'[w].base, sess'[w].mine, sess'[w].entry)
  <2>1. PICK z \in Nat \cup {None} :
          sess'[w].mine = [sess[w].mine EXCEPT !.zoho_ticket_id = z]
    BY <1>1
  <2>2. Facts(sess[w].base, sess[w].mine, sess[w].entry)
    BY <1>2 DEF Fits
  <2>3. Facts(sess[w].base, [sess[w].mine EXCEPT !.zoho_ticket_id = z], sess[w].entry)
    BY <1>3, <2>2, FactsIgnoreZohoId
  <2>4. Facts(sess[w].base, sess'[w].mine, sess[w].entry)
    BY <2>1, <2>3
  <2> QED
    BY <1>1, <2>4
<1>5. Fits(w)'
  BY <1>1, <1>2, <1>4 DEF Fits, Facts, WasResolved, Closes, Resolves, AnswerEntry
<1> QED
  BY <1>1, <1>5, FitsFrame

(* A commit of a session that fits: the history grows at its end and the   *)
(* clock of the row, once running, keeps running.                          *)
LEMMA CommitFits ==
  ASSUME TypeOK, StatusInv, NEW w \in Workers, Commit(w)
  PROVE  StatusInv'
<1> DEFINE b == sess[w].base  m == sess[w].mine  e == sess[w].entry
<1>1. /\ w \in Pending /\ w \notin Pending'
      /\ b \in TicketRows /\ m \in TicketRows /\ e \in HistoryRows \cup {None}
      /\ row' = Merge(b, m, row, sess[w].stamped)
      /\ Replaces(w, sess'[w])
  BY CommitWrites
<1>2. /\ e = None => history' = history
      /\ e # None => /\ Len(history') = Len(history) + 1
                     /\ \A i \in 1..Len(history) : history'[i] = history[i]
                     /\ history'[Len(history) + 1] = e
  BY CommitWrites
<1>3. Len(history) \in Nat /\ history \in Seq(HistoryRows) /\ row \in TicketRows
  BY DEF TypeOK
<1>4. /\ Len(history) <= Len(history')
      /\ \A i \in 1..Len(history) : i \in 1..Len(history') /\ history'[i] = history[i]
  BY <1>2, <1>3
<1>5. /\ Facts(b, m, e)
      /\ b.resolved_at # None => row.resolved_at # None
      /\ sess[w].stamped = Resolves(e)
      /\ Closes(e) => WasResolved
  BY <1>1 DEF StatusInv, Fits
<1>6. /\ row'.status = Pick(b.status, m.status, row.status)
      /\ row'.resolved_at = IF Resolves(e) THEN m.resolved_at
                            ELSE Pick(b.resolved_at, m.resolved_at, row.resolved_at)
      /\ row'.satisfaction = Pick(b.satisfaction, m.satisfaction, row.satisfaction)
  BY <1>1, <1>5 DEF Merge
<1>7. WasResolved => WasResolved'
  BY <1>4 DEF WasResolved
<1>8. row.resolved_at # None => row'.resolved_at # None
  <2>1. Resolves(e) => m.resolved_at # None
    BY <1>5 DEF Facts
  <2>2. m.resolved_at # b.resolved_at => m.resolved_at # None
    BY <1>5 DEF Facts
  <2> QED
    BY <1>6, <2>1, <2>2 DEF Pick
<1> HIDE DEF b, m, e
<1>9. ResolvedHasClock'
  <2>1. CASE m.status # b.status
    BY <1>5, <1>6, <2>1 DEF Facts, Pick, Resolves, ResolvedHasClock
  <2>2. CASE m.status = b.status
    BY <1>6, <1>8, <2>2 DEF Pick, ResolvedHasClock, StatusInv
  <2> QED
    BY <2>1, <2>2
<1>10. (row.status = "resolved" => WasResolved)'
  <2>1. CASE m.status # b.status
    <3>1. e # None /\ e.change /\ e.status = row'.status
      BY <1>5, <1>6, <2>1 DEF Facts, Pick
    <3>2. Len(history) + 1 \in 1..Len(history') /\ history'[Len(history) + 1] = e
      BY <1>2, <1>3, <3>1
    <3> QED
      BY <3>1, <3>2 DEF WasResolved
  <2>2. CASE m.status = b.status
    BY <1>6, <1>7, <2>2 DEF Pick, StatusInv
  <2> QED
    BY <2>1, <2>2
<1>11. AnswerIsRecorded'
  <2> SUFFICES ASSUME row'.satisfaction # None
               PROVE  \E i \in 1..Len(history') : AnswerEntry(row'.satisfaction, history'[i])
    BY DEF AnswerIsRecorded, AnswerEntry
  <2>1. CASE m.satisfaction # b.satisfaction
    <3>1. e # None /\ AnswerEntry(row'.satisfaction, e)
      BY <1>5, <1>6, <2>1 DEF Facts, Pick
    <3>2. Len(history) + 1 \in 1..Len(history') /\ history'[Len(history) + 1] = e
      BY <1>2, <1>3, <3>1
    <3> QED
      BY <3>1, <3>2
  <2>2. CASE m.satisfaction = b.satisfaction
    <3>1. row'.satisfaction = row.satisfaction
      BY <1>6, <2>2 DEF Pick
    <3>2. PICK i \in 1..Len(history) : AnswerEntry(row.satisfaction, history[i])
      BY <3>1 DEF StatusInv, AnswerIsRecorded, AnswerEntry
    <3> QED
      BY <1>4, <3>1, <3>2
  <2> QED
    BY <2>1, <2>2
<1>12. ClosedWasResolved'
  <2> SUFFICES ASSUME NEW i \in 1..Len(history'), history'[i].status = "closed",
                      history'[i].change
               PROVE  \E j \in 1..(i - 1) : history'[j].status = "resolved" /\ history'[j].change
    BY DEF ClosedWasResolved
  <2>1. CASE i \in 1..Len(history)
    <3>1. PICK j \in 1..(i - 1) : history[j].status = "resolved" /\ history[j].change
      BY <1>4, <2>1 DEF StatusInv, ClosedWasResolved
    <3>2. j \in 1..Len(history)
      BY <1>3, <2>1
    <3> QED
      BY <1>4, <3>1, <3>2
  <2>2. CASE i \notin 1..Len(history)
    <3>1. e # None /\ i = Len(history) + 1 /\ history'[i] = e
      BY <1>2, <1>3, <2>2
    <3>2. Closes(e)
      BY <3>1 DEF Closes
    <3>3. PICK j \in 1..Len(history) : history[j].status = "resolved" /\ history[j].change
      BY <1>5, <3>2 DEF WasResolved
    <3>4. j \in 1..(i - 1)
      BY <1>3, <3>1, <3>3
    <3> QED
      BY <1>4, <3>3, <3>4
  <2> QED
    BY <2>1, <2>2
<1>13. ASSUME NEW u \in Pending' PROVE Fits(u)'
  <2>1. u \in Pending /\ sess'[u] = sess[u]
    BY <1>1, <1>13 DEF Pending, Replaces
  <2>2. Fits(u)
    BY <2>1 DEF StatusInv
  <2> QED
    BY <1>7, <1>8, <2>1, <2>2 DEF Fits
<1> QED
  BY <1>9, <1>10, <1>11, <1>12, <1>13 DEF StatusInv

LEMMA StepFits ==
  ASSUME TypeOK, StatusInv, Next
  PROVE  StatusInv'
<1>1. ASSUME NEW w \in Workers, GivesUp(w) PROVE StatusInv'
  BY <1>1, GivesUpEnds, FitsFrame
<1>2. CASE Environment
  BY <1>2, EnvironmentFrame
  DEF StatusInv, ResolvedHasClock, AnswerIsRecorded, ClosedWasResolved, WasResolved, Fits
<1> QED
  BY <1>1, <1>2, StepCases, HandlerFits, ZohoCallFits, CommitFits

LEMMA InitFits == Init => StatusInv
<1> SUFFICES ASSUME Init PROVE StatusInv
  OBVIOUS
<1>1. row.status \in {"submitted", "assigned_to_kam"} /\ row.satisfaction = None
  BY DEF Init, InitialRows, HalfBuiltRow, AssignedRow, UnroutedRow, CreatedRow
<1>2. Pending = {}
  BY DEF Init, NoSession, Pending
<1>3. ClosedWasResolved
  BY DEF Init, CreationHistory, StatusEntry, ClosedWasResolved
<1> QED
  BY <1>1, <1>2, <1>3 DEF StatusInv, ResolvedHasClock, AnswerIsRecorded

THEOREM DeskStatusInv == Spec => [](TypeOK /\ StatusInv)
<1>1. TypeOK /\ StatusInv /\ [Next]_vars => TypeOK' /\ StatusInv'
  <2>1. CASE UNCHANGED vars
    BY <2>1
    DEF vars, TypeOK, Pending, StatusInv, ResolvedHasClock, AnswerIsRecorded,
        ClosedWasResolved, WasResolved, Fits
  <2> QED
    BY <2>1, StepTyped, StepFits
<1> QED
  BY <1>1, InitTyped, InitFits, PTL DEF Spec

(* Overlapping requests never close a ticket nobody resolved.              *)
THEOREM DeskClosedWasResolved == Spec => []ClosedWasResolved
<1>1. StatusInv => ClosedWasResolved
  BY DEF StatusInv
<1> QED
  BY <1>1, DeskStatusInv, PTL

(* A resolved ticket always has the clock the auto-close needs.            *)
THEOREM DeskResolvedHasClock == Spec => []ResolvedHasClock
<1>1. StatusInv => ResolvedHasClock
  BY DEF StatusInv
<1> QED
  BY <1>1, DeskStatusInv, PTL

(* A stored answer was given by the astrologer.                            *)
THEOREM DeskAnswerIsRecorded == Spec => []AnswerIsRecorded
<1>1. StatusInv => AnswerIsRecorded
  BY DEF StatusInv
<1> QED
  BY <1>1, DeskStatusInv, PTL

(* No commit moves the status without a status-change row: the row and the *)
(* status come from the same session, whatever it overwrites.              *)
THEOREM DeskStatusChangeIsRecorded == Spec => StatusChangeIsRecorded
<1> DEFINE Recorded == row'.status # row.status =>
                         /\ Len(history') = Len(history) + 1
                         /\ history'[Len(history')].change
                         /\ history'[Len(history')].status = row'.status
<1>1. ASSUME TypeOK, StatusInv, Next PROVE Recorded
  <2>1. ASSUME NEW w \in Workers, Commit(w) PROVE Recorded
    <3> DEFINE b == sess[w].base  m == sess[w].mine  e == sess[w].entry
    <3>1. /\ w \in Pending
          /\ row'.status = Pick(b.status, m.status, row.status)
          /\ e # None => /\ Len(history') = Len(history) + 1
                         /\ history'[Len(history) + 1] = e
      BY <1>1, <2>1, CommitWrites DEF Merge
    <3>2. Facts(b, m, e)
      BY <1>1, <3>1 DEF StatusInv, Fits
    <3> HIDE DEF b, m, e
    <3>3. CASE m.status = b.status
      BY <3>1, <3>3 DEF Pick
    <3>4. CASE m.status # b.status
      BY <3>1, <3>2, <3>4 DEF Pick, Facts
    <3> QED
      BY <3>3, <3>4
  <2>2. ASSUME NEW w \in Workers, StartsHandler(w) PROVE Recorded
    BY <1>1, <2>2 DEF StartsHandler, Handles, Handle
  <2>3. ASSUME NEW w \in Workers, CallsZoho(w) PROVE Recorded
    BY <2>3 DEF CallsZoho, Push, PushFails, Sync
  <2>4. ASSUME NEW w \in Workers, GivesUp(w) PROVE Recorded
    BY <2>4 DEF GivesUp, ReadOnly, BackfillSelects, BackfillSkips, Crash
  <2>5. CASE Environment
    BY <1>1, <2>5, EnvironmentFrame
  <2> QED
    BY <1>1, <2>1, <2>2, <2>3, <2>4, <2>5, StepCases
<1>2. TypeOK /\ StatusInv /\ [Next]_vars => [Recorded]_vars
  BY <1>1
<1> QED
  BY <1>2, DeskStatusInv, PTL DEF Spec, StatusChangeIsRecorded

-----------------------------------------------------------------------------
(* Queues. The notified-flags script recomputes the flags from the         *)
(* astrologer's priority and may clear what an escalation or a             *)
(* reassignment set; everything here assumes it is not run.                *)

QueueFits(w) ==
  /\ Kept(sess[w].base, row)
  /\ QueueFacts(sess[w].base, sess[w].mine)
  /\ sess[w].pc = "push" => sess[w].mine.cs_notified

QueueInv ==
  /\ EscalatedReachesKam
  /\ LinkedIsCsTicket
  /\ \A w \in Pending : QueueFits(w)

LEMMA QueueFrame ==
  ASSUME TypeOK, QueueInv, NEW w \in Workers, Replaces(w, sess'[w]),
         UNCHANGED row, w \in Pending' => QueueFits(w)'
  PROVE  QueueInv'
<1>1. EscalatedReachesKam' /\ LinkedIsCsTicket'
  BY DEF QueueInv, EscalatedReachesKam, LinkedIsCsTicket
<1>2. ASSUME NEW u \in Pending' PROVE QueueFits(u)'
  <2>1. CASE u = w
    BY <1>2, <2>1
  <2>2. CASE u # w
    <3>1. u \in Pending /\ sess'[u] = sess[u]
      BY <1>2, <2>2 DEF Pending, Replaces
    <3>2. QueueFits(u)
      BY <3>1 DEF QueueInv
    <3> QED
      BY <3>1, <3>2 DEF QueueFits
  <2> QED
    BY <2>1, <2>2
<1> QED
  BY <1>1, <1>2 DEF QueueInv

LEMMA HandlerQueues ==
  ASSUME TypeOK, QueueInv, NoNotifiedBackfill, NEW w \in Workers, StartsHandler(w)
  PROVE  QueueInv'
<1>1. PICK t \in TicketRows, e \in HistoryRows \cup {None}, push \in BOOLEAN,
           sync \in BOOLEAN, closing \in BOOLEAN :
             Handles(w, t, e, push, sync, closing)
  BY DEF StartsHandler
<1>2. /\ Replaces(w, sess'[w])
      /\ sess'[w].base = row /\ sess'[w].mine = t
      /\ sess'[w].pc = NextStep(t, push, sync)
      /\ UNCHANGED row
  BY <1>1, HandleSession DEF Handles
<1>3. QueueFacts(row, t)
  BY <1>1 DEF Handles
<1>4. sess'[w].pc = "push" => t.cs_notified
  BY <1>2 DEF NextStep, NeedsPush
<1>5. QueueFits(w)'
  BY <1>2, <1>3, <1>4 DEF QueueFits, Kept, QueueFacts
<1> QED
  BY <1>2, <1>5, QueueFrame

LEMMA ZohoCallQueues ==
  ASSUME TypeOK, QueueInv, NEW w \in Workers, CallsZoho(w)
  PROVE  QueueInv'
<1>1. /\ w \in Pending
      /\ Replaces(w, sess'[w])
      /\ sess'[w].base = sess[w].base
      /\ sess'[w].pc \in {"sync", "commit"}
      /\ UNCHANGED row
      /\ \E z \in Nat \cup {None} :
           /\ sess'[w].mine = [sess[w].mine EXCEPT !.zoho_ticket_id = z]
           /\ z # sess[w].mine.zoho_ticket_id => sess[w].pc = "push"
  BY ZohoCall DEF CallsZoho
<1>2. PICK z \in Nat \cup {None} :
        /\ sess'[w].mine = [sess[w].mine EXCEPT !.zoho_ticket_id = z]
        /\ z # sess[w].mine.zoho_ticket_id => sess[w].pc = "push"
  BY <1>1
<1>3. QueueFits(w)
  BY <1>1 DEF QueueInv
<1>4. sess[w].base \in TicketRows /\ sess[w].mine \in TicketRows
  BY <1>1 DEF TypeOK
<1>5. QueueFacts(sess[w].base, sess'[w].mine)
  BY <1>2, <1>3, <1>4 DEF QueueFits, QueueFacts, Kept, TicketRows
<1>6. QueueFits(w)'
  BY <1>1, <1>3, <1>5 DEF QueueFits, QueueFacts, Kept
<1> QED
  BY <1>1, <1>6, QueueFrame

(* A commit sets flags and never clears one, so merging keeps both what    *)
(* the session decided and what others decided meanwhile.                  *)
LEMMA CommitQueues ==
  ASSUME TypeOK, QueueInv, NEW w \in Workers, Commit(w)
  PROVE  QueueInv'
<1> DEFINE b == sess[w].base  m == sess[w].mine
<1>1. /\ w \in Pending /\ w \notin Pending'
      /\ b \in TicketRows /\ m \in TicketRows
      /\ row' = Merge(b, m, row, sess[w].stamped)
      /\ Replaces(w, sess'[w])
  BY CommitWrites
<1>2. Kept(b, row) /\ QueueFacts(b, m)
  BY <1>1 DEF QueueInv, QueueFits
<1>3. row \in TicketRows
  BY DEF TypeOK
<1>4. /\ row'.kam_notified = Pick(b.kam_notified, m.kam_notified, row.kam_notified)
      /\ row'.cs_notified = Pick(b.cs_notified, m.cs_notified, row.cs_notified)
      /\ row'.assigned_admin_id =
           Pick(b.assigned_admin_id, m.assigned_admin_id, row.assigned_admin_id)
      /\ row'.escalated_to_kam =
           Pick(b.escalated_to_kam, m.escalated_to_kam, row.escalated_to_kam)
      /\ row'.zoho_ticket_id = Pick(b.zoho_ticket_id, m.zoho_ticket_id, row.zoho_ticket_id)
  BY <1>1 DEF Merge
<1>5. /\ b.kam_notified \in BOOLEAN /\ m.kam_notified \in BOOLEAN
      /\ b.cs_notified \in BOOLEAN /\ m.cs_notified \in BOOLEAN
      /\ row.kam_notified \in BOOLEAN /\ row.cs_notified \in BOOLEAN
      /\ b.escalated_to_kam \in BOOLEAN /\ m.escalated_to_kam \in BOOLEAN
  BY <1>1, <1>3 DEF TicketRows
<1> HIDE DEF b, m
<1>6. Kept(row, row') /\ Kept(m, row')
  BY <1>2, <1>4, <1>5 DEF Kept, QueueFacts, Pick
<1>7. EscalatedReachesKam'
  BY <1>2, <1>4, <1>5, <1>6 DEF Kept, QueueFacts, Pick, QueueInv, EscalatedReachesKam
<1>8. LinkedIsCsTicket'
  BY <1>2, <1>4, <1>6 DEF Kept, QueueFacts, Pick, QueueInv, LinkedIsCsTicket
<1>9. ASSUME NEW u \in Pending' PROVE QueueFits(u)'
  <2>1. u \in Pending /\ sess'[u] = sess[u]
    BY <1>1, <1>9 DEF Pending, Replaces
  <2>2. QueueFits(u)
    BY <2>1 DEF QueueInv
  <2> QED
    BY <1>6, <2>1, <2>2 DEF QueueFits, Kept
<1> QED
  BY <1>7, <1>8, <1>9 DEF QueueInv

LEMMA StepQueues ==
  ASSUME TypeOK, QueueInv, NoNotifiedBackfill, Next
  PROVE  QueueInv'
<1>1. ASSUME NEW w \in Workers, GivesUp(w) PROVE QueueInv'
  BY <1>1, GivesUpEnds, QueueFrame
<1>2. CASE Environment
  BY <1>2, EnvironmentFrame
  DEF QueueInv, EscalatedReachesKam, LinkedIsCsTicket, QueueFits
<1> QED
  BY <1>1, <1>2, StepCases, HandlerQueues, ZohoCallQueues, CommitQueues

LEMMA InitQueues == Init => QueueInv
<1> SUFFICES ASSUME Init PROVE QueueInv
  OBVIOUS
<1>1. ~row.escalated_to_kam /\ (row.zoho_ticket_id # None => row.cs_notified)
  BY DEF Init, InitialRows, HalfBuiltRow, AssignedRow, UnroutedRow, CreatedRow
<1>2. Pending = {}
  BY DEF Init, NoSession, Pending
<1> QED
  BY <1>1, <1>2 DEF QueueInv, EscalatedReachesKam, LinkedIsCsTicket

THEOREM DeskQueueInv ==
  ASSUME NoNotifiedBackfill PROVE Spec => [](TypeOK /\ QueueInv)
<1>1. TypeOK /\ QueueInv /\ [Next]_vars => TypeOK' /\ QueueInv'
  <2>1. CASE UNCHANGED vars
    BY <2>1
    DEF vars, TypeOK, Pending, QueueInv, EscalatedReachesKam, LinkedIsCsTicket, QueueFits
  <2> QED
    BY <2>1, StepTyped, StepQueues
<1> QED
  BY <1>1, InitTyped, InitQueues, PTL DEF Spec

(* An escalated ticket stays in its KAM's queue, whatever overlaps.        *)
THEOREM DeskEscalatedReachesKam ==
  ASSUME NoNotifiedBackfill PROVE Spec => []EscalatedReachesKam
<1>1. QueueInv => EscalatedReachesKam
  BY DEF QueueInv
<1> QED
  BY <1>1, DeskQueueInv, PTL

(* A ticket linked to Zoho Desk stays in a CS queue, whatever overlaps.    *)
THEOREM DeskLinkedIsCsTicket ==
  ASSUME NoNotifiedBackfill PROVE Spec => []LinkedIsCsTicket
<1>1. QueueInv => LinkedIsCsTicket
  BY DEF QueueInv
<1> QED
  BY <1>1, DeskQueueInv, PTL

-----------------------------------------------------------------------------
(* Pushes.  "Never double-pushes" is refuted by a crash, by an answer of   *)
(* Zoho that is lost, and by two requests that push at the same time; here *)
(* it is proved that nothing else refutes it.                              *)

AnswersAreKept == Faults \cap {"crash", "zoho_answer_lost"} = {}

(* A session is linking the ticket from its check of zoho_ticket_id to its *)
(* commit of the id, or until the push has failed.                         *)
HoldsId(w) ==
  w \in Pending /\ sess[w].mine.zoho_ticket_id # sess[w].base.zoho_ticket_id

Linking(w) == sess[w].pc = "push" \/ HoldsId(w)

OneLinking == \A u, v \in Workers : Linking(u) /\ Linking(v) => u = v

(* A session that is about to push finds nothing pushed, and one that has  *)
(* loaded an id keeps it.                                                  *)
LinkFits(w) ==
  /\ sess[w].pc = "push" =>
       /\ zoho = << >>
       /\ sess[w].mine.zoho_ticket_id = None /\ sess[w].base.zoho_ticket_id = None
  /\ sess[w].base.zoho_ticket_id # None =>
       sess[w].mine.zoho_ticket_id = sess[w].base.zoho_ticket_id

(* What was pushed is linked, or about to be.                              *)
PushInv ==
  /\ PushedOnce
  /\ zoho # << >> => row.zoho_ticket_id # None \/ \E w \in Workers : HoldsId(w)
  /\ \A w \in Pending : LinkFits(w)

(* A step of w that pushes nothing.                                        *)
LEMMA PushFrame ==
  ASSUME TypeOK, PushInv, NEW w \in Workers, Replaces(w, sess'[w]), UNCHANGED zoho,
         row.zoho_ticket_id # None => row'.zoho_ticket_id # None,
         HoldsId(w) => HoldsId(w)' \/ row'.zoho_ticket_id # None,
         w \in Pending' => LinkFits(w)'
  PROVE  PushInv'
<1>1. ASSUME NEW u \in Workers \ {w}
      PROVE  /\ sess'[u] = sess[u] /\ (u \in Pending' <=> u \in Pending)
             /\ HoldsId(u)' <=> HoldsId(u)
  BY DEF Replaces, Pending, HoldsId
<1>2. ASSUME NEW u \in Pending' PROVE LinkFits(u)'
  <2>1. CASE u = w
    BY <1>2, <2>1
  <2>2. CASE u # w
    BY <1>1, <1>2, <2>2 DEF PushInv, LinkFits, Pending
  <2> QED
    BY <2>1, <2>2
<1>3. zoho' # << >> => row'.zoho_ticket_id # None \/ \E u \in Workers : HoldsId(u)'
  BY <1>1 DEF PushInv
<1> QED
  BY <1>2, <1>3 DEF PushInv, PushedOnce

(* A request starts on a worker that is free.                              *)
LEMMA RequestIsFree ==
  ASSUME NEW w \in Workers, Request(w)
  PROVE  w \notin Pending
BY DEF Request, Pending, LazyAutoClose, BatchAutoClose, ReadOnly, transition_status,
       RateTicket, ReassignKam, ReassignCs, AdminEscalates, ZohoMoves, ZohoEscalates,
       Delivered, Loads, BackfillSelects, BackfillZoho, BackfillSkips, BackfillNotified

(* The check of zoho_ticket_id comes out right because nobody else is      *)
(* linking the ticket.                                                     *)
LEMMA RequestPushes ==
  ASSUME TypeOK, PushInv, OneLinking', NEW w \in Workers, Request(w)
  PROVE  PushInv'
<1>0. w \notin Pending
  BY RequestIsFree
<1>1. ASSUME ReadOnly(w) \/ BackfillSelects(w) \/ BackfillSkips(w) PROVE PushInv'
  <2>1. /\ Replaces(w, sess'[w]) /\ w \notin Pending'
        /\ UNCHANGED <<row, history, now, zoho, edits>>
    BY <1>1, GivesUpEnds DEF GivesUp
  <2> QED
    BY <1>0, <2>1, PushFrame DEF HoldsId
<1>2. ASSUME NEW t \in TicketRows, NEW e \in HistoryRows \cup {None}, NEW push \in BOOLEAN,
             NEW sync \in BOOLEAN, NEW closing \in BOOLEAN,
             Handles(w, t, e, push, sync, closing)
      PROVE  PushInv'
  <2>1. /\ Replaces(w, sess'[w]) /\ sess'[w].base = row /\ sess'[w].mine = t
        /\ sess'[w].pc = NextStep(t, push, sync)
        /\ t.zoho_ticket_id = row.zoho_ticket_id
        /\ UNCHANGED <<row, history, now, zoho, edits>>
    BY <1>2, HandleSession DEF Handles
  <2>2. ASSUME sess'[w].pc = "push" PROVE zoho = << >> /\ row.zoho_ticket_id = None
    <3>1. row.zoho_ticket_id = None
      BY <2>1, <2>2 DEF NextStep, NeedsPush
    <3>2. ASSUME NEW u \in Workers, HoldsId(u) PROVE FALSE
      <4>1. u # w
        BY <1>0, <3>2 DEF HoldsId
      <4>2. Linking(u)' /\ Linking(w)'
        BY <2>1, <2>2, <3>2, <4>1 DEF Linking, HoldsId, Pending, Replaces
      <4> QED
        BY <4>1, <4>2 DEF OneLinking
    <3> QED
      BY <3>1, <3>2 DEF PushInv
  <2>3. LinkFits(w)'
    BY <2>1, <2>2 DEF LinkFits
  <2> QED
    BY <1>0, <2>1, <2>3, PushFrame DEF HoldsId
<1> QED
  BY <1>1, <1>2, RequestHandles

(* A push is the first one, and its session holds the id.                  *)
LEMMA PushLinks ==
  ASSUME TypeOK, PushInv, OneLinking, AnswersAreKept, NEW w \in Workers, Push(w)
  PROVE  PushInv'
<1> DEFINE b == sess[w].base  m == sess[w].mine
<1>1. w \in Pending /\ sess[w].pc = "push" /\ b \in TicketRows /\ m \in TicketRows
  BY DEF Push, Pending, TypeOK
<1>2. zoho = << >> /\ b.zoho_ticket_id = None
  BY <1>1 DEF PushInv, LinkFits
<1>3. /\ zoho' = Append(zoho, zoho_status_for(m))
      /\ Proceed(w, [m EXCEPT !.zoho_ticket_id = Len(zoho) + 1])
      /\ UNCHANGED row
  BY DEF Push, AnswersAreKept
<1>4. Len(zoho) + 1 = 1 /\ Len(zoho') = 1
  BY <1>2, <1>3
<1>5. [m EXCEPT !.zoho_ticket_id = 1] \in TicketRows
  BY <1>1 DEF TicketRows
<1>6. /\ Replaces(w, sess'[w]) /\ sess'[w].base = b
      /\ sess'[w].mine = [m EXCEPT !.zoho_ticket_id = 1]
      /\ sess'[w].pc \in {"sync", "commit"}
  BY <1>1, <1>3, <1>4, <1>5, ProceedSession
<1>7. sess'[w].mine.zoho_ticket_id = 1 /\ sess'[w].mine.zoho_ticket_id # None
  BY <1>1, <1>6, NoneAssumption DEF TicketRows
<1>8. HoldsId(w)' /\ LinkFits(w)'
  BY <1>2, <1>6, <1>7 DEF HoldsId, LinkFits, Pending
<1>9. ASSUME NEW u \in Pending', u # w PROVE LinkFits(u)'
  <2>1. sess'[u] = sess[u] /\ u \in Pending
    BY <1>6, <1>9 DEF Replaces, Pending
  <2>2. sess[u].pc # "push"
    BY <1>1, <1>9, <2>1 DEF OneLinking, Linking, Pending
  <2> QED
    BY <2>1, <2>2 DEF PushInv, LinkFits
<1> QED
  BY <1>4, <1>8, <1>9 DEF PushInv, PushedOnce

(* The other calls to Zoho push nothing.                                   *)
LEMMA CallPushes ==
  ASSUME TypeOK, PushInv, NEW w \in Workers, PushFails(w) \/ Sync(w)
  PROVE  PushInv'
<1>1. /\ w \in Pending /\ Replaces(w, sess'[w])
      /\ sess'[w].base = sess[w].base /\ sess'[w].pc \in {"sync", "commit"}
      /\ UNCHANGED row
  BY ZohoCall
<1>2. sess'[w].mine = sess[w].mine
  <2>1. CASE PushFails(w)
    BY <1>1, <2>1, ProceedSession DEF PushFails, TypeOK
  <2>2. CASE Sync(w)
    BY <1>1, <2>2 DEF Sync, TypeOK, Sessions
  <2> QED
    BY <2>1, <2>2
<1>3. LinkFits(w)
  BY <1>1 DEF PushInv
<1>4. LinkFits(w)' /\ (HoldsId(w)' <=> HoldsId(w))
  BY <1>1, <1>2, <1>3 DEF LinkFits, HoldsId, Pending
<1>5. CASE UNCHANGED zoho
  BY <1>1, <1>4, <1>5, PushFrame
<1>6. ASSUME NEW i, NEW x, zoho' = [zoho EXCEPT ![i] = x] PROVE PushInv'
  <2>1. zoho \in Seq(ZohoStatus) /\ zoho' \in Seq(ZohoStatus)
    BY ZohoCall DEF TypeOK
  <2>2. Len(zoho') = Len(zoho) /\ (zoho = << >> <=> zoho' = << >>)
    BY <1>6, <2>1
  <2>3. ASSUME NEW u \in Workers \ {w}
        PROVE  /\ sess'[u] = sess[u] /\ (u \in Pending' <=> u \in Pending)
               /\ HoldsId(u)' <=> HoldsId(u)
    BY <1>1 DEF Replaces, Pending, HoldsId
  <2>4. \A u \in Pending' : LinkFits(u)'
    BY <1>4, <2>2, <2>3 DEF PushInv, LinkFits, Pending
  <2> QED
    BY <1>1, <1>4, <2>2, <2>3, <2>4 DEF PushInv, PushedOnce
<1> QED
  BY <1>5, <1>6 DEF PushFails, Sync

(* A commit links the ticket if its session holds the id, and never        *)
(* unlinks it.                                                             *)
LEMMA CommitPushes ==
  ASSUME TypeOK, PushInv, NEW w \in Workers, Commit(w)
  PROVE  PushInv'
<1> DEFINE b == sess[w].base  m == sess[w].mine
<1>1. /\ w \in Pending /\ w \notin Pending' /\ Replaces(w, sess'[w]) /\ UNCHANGED zoho
      /\ row' = Merge(b, m, row, sess[w].stamped)
  BY CommitWrites
<1>2. row'.zoho_ticket_id = Pick(b.zoho_ticket_id, m.zoho_ticket_id, row.zoho_ticket_id)
  BY <1>1 DEF Merge
<1>3. b.zoho_ticket_id # None => m.zoho_ticket_id = b.zoho_ticket_id
  BY <1>1 DEF PushInv, LinkFits
<1> QED
  BY <1>1, <1>2, <1>3, PushFrame DEF Pick, HoldsId

(* Edits in Zoho Desk create no ticket there.                              *)
LEMMA EnvironmentPushes ==
  ASSUME TypeOK, PushInv, Environment
  PROVE  PushInv'
<1>1. UNCHANGED <<row, sess>> /\ Pending' = Pending /\ zoho' \in Seq(ZohoStatus)
  BY EnvironmentFrame
<1>2. zoho \in Seq(ZohoStatus)
  BY DEF TypeOK
<1>3. Len(zoho') = Len(zoho) /\ (zoho = << >> <=> zoho' = << >>)
  <2>1. CASE UNCHANGED zoho
    BY <2>1
  <2>2. ASSUME NEW z, NEW s, zoho' = [zoho EXCEPT ![z] = s] PROVE <1>3
    BY <1>1, <1>2, <2>2
  <2> QED
    BY <2>1, <2>2 DEF Environment, AgentEdits, Tick
<1> QED
  BY <1>1, <1>3 DEF PushInv, PushedOnce, LinkFits, HoldsId

(* With no crash and no lost answer of Zoho, and no two sessions linking   *)
(* the ticket at once, a ticket is pushed to Zoho Desk once, whatever else *)
(* overlaps and however often a push has to be tried again                 *)
(* (ticket_service.py:281-326, backfill_zoho_tickets.py:6-9).              *)
THEOREM DeskPushedOnce ==
  ASSUME AnswersAreKept PROVE Spec /\ []OneLinking => []PushedOnce
<1>1. Init => TypeOK /\ PushInv
  <2> SUFFICES ASSUME Init PROVE PushInv
    BY InitTyped
  <2>1. Pending = {}
    BY DEF Init, NoSession, Pending
  <2>2. CASE row.zoho_ticket_id = 1
    BY <2>1, <2>2, NoneAssumption DEF Init, PushInv, PushedOnce
  <2>3. CASE row.zoho_ticket_id # 1
    BY <2>1, <2>3 DEF Init, PushInv, PushedOnce
  <2> QED
    BY <2>2, <2>3
<1>2. ASSUME TypeOK, PushInv, OneLinking, OneLinking', Next PROVE PushInv'
  <2>1. ASSUME NEW w \in Workers, Crash(w) PROVE FALSE
    BY <2>1 DEF Crash, AnswersAreKept
  <2> QED
    BY <1>2, <2>1, RequestPushes, PushLinks, CallPushes, CommitPushes, EnvironmentPushes
    DEF Next, Environment
<1>3. TypeOK /\ PushInv /\ OneLinking /\ OneLinking' /\ [Next]_vars => TypeOK' /\ PushInv'
  <2>1. TypeOK /\ PushInv /\ UNCHANGED vars => TypeOK' /\ PushInv'
    BY DEF vars, TypeOK, Pending, PushInv, PushedOnce, LinkFits, HoldsId
  <2> QED
    BY <1>2, <2>1, StepTyped
<1>4. PushInv => PushedOnce
  BY DEF PushInv
<1> QED
  BY <1>1, <1>3, <1>4, PTL DEF Spec

-----------------------------------------------------------------------------
(* Requests one at a time: the system implements the atomic lifecycle. The *)
(* lifecycle takes its step when the request commits; until then the       *)
(* session holds a decision the lifecycle could take, and nothing changes  *)
(* the row it was taken on. Loading, calling Zoho, crashing and edits made *)
(* in Zoho Desk are stutters.                                              *)

OneAtATime == \A u, v \in Workers : u = v

(* The decisions of the lifecycle on row r at time n: the ticket t and the *)
(* history row e they leave.                                               *)
Transitions(r, n, t, e) ==
  /\ "transition" \in Operations
  /\ \E s \in ADMIN_SETTABLE_STATUSES, at \in 0..n :
       /\ Lifecycle!InTime(s, at)
       /\ t = RecordStatus(r, s, at)
       /\ e = StatusEntry(s, "admin")

Rates(r, t, e) ==
  /\ "rate" \in Operations
  /\ r.status = "resolved"
  /\ \E k \in Ratings :
       /\ t = record_ticket_rating(r, k)
       /\ e = StatusEntry(StatusAfterRating(k), "astrologer")

Reassigns(r, t, e) ==
  /\ "reassign" \in Operations
  /\ e = NoteEntry(r, "admin")
  /\ \/ \E a \in Kams : t = reassign_kam(r, a)
     \/ \E a \in CSs : t \in Lifecycle!Pushed(reassign_cs(r, a))

Escalates(r, t, e) ==
  /\ r.assigned_admin_id # None
  /\ t \in Lifecycle!Pushed(escalate_to_kam(r))
  /\ \/ "escalate" \in Operations /\ e = NoteEntry(r, "admin")
     \/ /\ "webhook" \in Operations
        /\ r.zoho_ticket_id # None
        /\ ~r.escalated_to_kam
        /\ \E i \in 1..MaxEdits : e = [NoteEntry(r, "zoho") EXCEPT !.edit = i]

MovesForZoho(r, n, t, e) ==
  /\ "webhook" \in Operations
  /\ r.zoho_ticket_id # None
  /\ r.status \notin TERMINAL_STATUSES
  /\ \E s \in {"resolved", "in_progress"}, at \in 0..n, i \in 1..MaxEdits :
       /\ Lifecycle!InTime(s, at)
       /\ t = RecordStatus(r, s, at)
       /\ e = [StatusEntry(s, "zoho") EXCEPT !.edit = i]

ClosesStale(r, n, t, e) ==
  /\ IsStale(r, n)
  /\ t = RecordStatus(r, "closed", n)
  /\ e = StatusEntry("closed", "system")

Backfills(r, t) ==
  \/ /\ "backfill_zoho" \in Operations
     /\ r.status \notin TERMINAL_STATUSES
     /\ t \in Lifecycle!Pushed(r)
  \/ /\ "backfill_notified" \in Operations
     /\ \E p \in Priorities : t = backfill_notified(r, p)

Decision(r, h, n, t, e) ==
  \/ /\ e \in HistoryRows
     /\ Len(h) < MaxHistory
     /\ \/ Transitions(r, n, t, e) \/ Rates(r, t, e) \/ Reassigns(r, t, e)
        \/ Escalates(r, t, e) \/ MovesForZoho(r, n, t, e)
  \/ e \in HistoryRows /\ ClosesStale(r, n, t, e)
  \/ e = None /\ Backfills(r, t)

(* The lifecycle's instance speaks of the same tickets and operations.     *)
LEMMA SameOperators ==
  /\ \A t, s, at : Lifecycle!RecordStatus(t, s, at) = RecordStatus(t, s, at)
  /\ \A t, k : Lifecycle!record_ticket_rating(t, k) = record_ticket_rating(t, k)
  /\ \A k : Lifecycle!StatusAfterRating(k) = StatusAfterRating(k)
  /\ \A t, n : Lifecycle!IsStale(t, n) = IsStale(t, n)
  /\ \A t, a : Lifecycle!reassign_kam(t, a) = reassign_kam(t, a)
  /\ \A t, a : Lifecycle!reassign_cs(t, a) = reassign_cs(t, a)
  /\ \A t : Lifecycle!escalate_to_kam(t) = escalate_to_kam(t)
  /\ \A t : Lifecycle!NeedsPush(t) = NeedsPush(t)
  /\ \A t, p : Lifecycle!backfill_notified(t, p) = backfill_notified(t, p)
  /\ \A s, by : Lifecycle!StatusEntry(s, by) = StatusEntry(s, by)
  /\ \A t, by : Lifecycle!NoteEntry(t, by) = NoteEntry(t, by)
  /\ Lifecycle!ADMIN_SETTABLE_STATUSES = ADMIN_SETTABLE_STATUSES
  /\ Lifecycle!TERMINAL_STATUSES = TERMINAL_STATUSES
  /\ Lifecycle!TicketStatus = TicketStatus
  /\ Lifecycle!Priorities = Priorities
<1>1. \A t, s, at : Lifecycle!RecordStatus(t, s, at) = RecordStatus(t, s, at)
  BY DEF RecordStatus, Lifecycle!RecordStatus
<1>2. \A k : Lifecycle!StatusAfterRating(k) = StatusAfterRating(k)
  BY DEF StatusAfterRating, Lifecycle!StatusAfterRating
<1>3. \A t, k : Lifecycle!record_ticket_rating(t, k) = record_ticket_rating(t, k)
  BY DEF record_ticket_rating, Lifecycle!record_ticket_rating, SatisfactionOf,
         Lifecycle!SatisfactionOf, StatusAfterRating, Lifecycle!StatusAfterRating
<1>4. \A t, n : Lifecycle!IsStale(t, n) = IsStale(t, n)
  BY DEF IsStale, Lifecycle!IsStale
<1>5. \A t, a : /\ Lifecycle!reassign_kam(t, a) = reassign_kam(t, a)
                /\ Lifecycle!reassign_cs(t, a) = reassign_cs(t, a)
  BY DEF reassign_kam, Lifecycle!reassign_kam, reassign_cs, Lifecycle!reassign_cs
<1>6. \A t : /\ Lifecycle!escalate_to_kam(t) = escalate_to_kam(t)
             /\ Lifecycle!NeedsPush(t) = NeedsPush(t)
  BY DEF escalate_to_kam, Lifecycle!escalate_to_kam, NeedsPush, Lifecycle!NeedsPush
<1>7. \A t, p : Lifecycle!backfill_notified(t, p) = backfill_notified(t, p)
  BY DEF backfill_notified, Lifecycle!backfill_notified, routing_for_ticket,
         Lifecycle!routing_for_ticket, AtMost, Lifecycle!AtMost, CS_ONLY_CATEGORIES,
         Lifecycle!CS_ONLY_CATEGORIES, ALWAYS_KAM_ONLY_CATEGORIES,
         Lifecycle!ALWAYS_KAM_ONLY_CATEGORIES, VIP_PRIORITY_MAX,
         Lifecycle!VIP_PRIORITY_MAX, RESIGNATION_KAM_PRIORITY_MAX,
         Lifecycle!RESIGNATION_KAM_PRIORITY_MAX
<1>8. \A s, by : Lifecycle!StatusEntry(s, by) = StatusEntry(s, by)
  BY DEF StatusEntry, Lifecycle!StatusEntry
<1>9. \A t, by : Lifecycle!NoteEntry(t, by) = NoteEntry(t, by)
  BY DEF NoteEntry, Lifecycle!NoteEntry
<1>10. /\ Lifecycle!ADMIN_SETTABLE_STATUSES = ADMIN_SETTABLE_STATUSES
       /\ Lifecycle!TERMINAL_STATUSES = TERMINAL_STATUSES
       /\ Lifecycle!TicketStatus = TicketStatus
       /\ Lifecycle!Priorities = Priorities
  BY DEF ADMIN_SETTABLE_STATUSES, Lifecycle!ADMIN_SETTABLE_STATUSES,
         TERMINAL_STATUSES, Lifecycle!TERMINAL_STATUSES, TicketStatus,
         Lifecycle!TicketStatus, Priorities, Lifecycle!Priorities
<1> QED
  BY <1>1, <1>2, <1>3, <1>4, <1>5, <1>6, <1>7, <1>8, <1>9, <1>10

(* What pushing may leave: the ticket as it is, or linked if it needed it. *)
LEMMA PushedRows ==
  ASSUME NEW t
  PROVE  /\ t \in Lifecycle!Pushed(t)
         /\ \A z \in 1..MaxZohoTickets :
              NeedsPush(t) => [t EXCEPT !.zoho_ticket_id = z] \in Lifecycle!Pushed(t)
BY SameOperators DEF Lifecycle!Pushed

(* A decision holds on to the clock of its handler, which time only leaves *)
(* further behind.                                                         *)
LEMMA DecisionLasts ==
  ASSUME NEW r \in TicketRows, NEW h, NEW n \in Nat, NEW m \in Nat, n <= m,
         NEW t, NEW e, Decision(r, h, n, t, e)
  PROVE  Decision(r, h, m, t, e)
<1>1. 0..n \subseteq 0..m
  OBVIOUS
<1>2. Transitions(r, n, t, e) => Transitions(r, m, t, e)
  BY <1>1 DEF Transitions
<1>3. MovesForZoho(r, n, t, e) => MovesForZoho(r, m, t, e)
  BY <1>1 DEF MovesForZoho
<1>4. ClosesStale(r, n, t, e) => ClosesStale(r, m, t, e)
  <2>1. IsStale(r, n) => IsStale(r, m)
    <3>1. r.resolved_at \in Nat \cup {None}
      BY DEF TicketRows
    <3> QED
      BY <3>1, AutoCloseAfterAssumption DEF IsStale
  <2>2. RecordStatus(r, "closed", n) = RecordStatus(r, "closed", m)
    BY DEF RecordStatus
  <2> QED
    BY <2>1, <2>2 DEF ClosesStale
<1> QED
  BY <1>2, <1>3, <1>4 DEF Decision

(* Committing a decision is a step of the lifecycle.                       *)
LEMMA DecisionIsStep ==
  ASSUME row \in TicketRows, now \in Nat, NEW e,
         Decision(row, history, now, row', e),
         history' = IF e = None THEN history ELSE Append(history, e),
         UNCHANGED now
  PROVE  Lifecycle!Next
<1>1. e \in HistoryRows => history' = Append(history, e)
  BY NoEntryAssumption
<1>a. ASSUME e \in HistoryRows PROVE Lifecycle!Record(row', e)
  BY <1>1, <1>a DEF Lifecycle!Record
<1>b. now \in Lifecycle!Moments /\ Lifecycle!Moments = 0..now
  BY DEF Lifecycle!Moments
<1>2. CASE e \in HistoryRows /\ Len(history) < MaxHistory /\ Transitions(row, now, row', e)
  <2>1. PICK s \in ADMIN_SETTABLE_STATUSES, at \in 0..now :
          /\ Lifecycle!InTime(s, at)
          /\ row' = RecordStatus(row, s, at)
          /\ e = StatusEntry(s, "admin")
    BY <1>2 DEF Transitions
  <2>2. Lifecycle!transition_status(s, at)
    BY <1>2, <1>a, <2>1, SameOperators
    DEF Lifecycle!transition_status, Lifecycle!Room, Transitions
  <2>3. s \in Lifecycle!TicketStatus
    BY <2>1 DEF ADMIN_SETTABLE_STATUSES, Lifecycle!TicketStatus
  <2> QED
    BY <1>b, <2>1, <2>2, <2>3 DEF Lifecycle!Next
<1>3. CASE e \in HistoryRows /\ Len(history) < MaxHistory /\ Rates(row, row', e)
  <2>1. PICK k \in Ratings : /\ row' = record_ticket_rating(row, k)
                             /\ e = StatusEntry(StatusAfterRating(k), "astrologer")
    BY <1>3 DEF Rates
  <2>2. Lifecycle!RateTicket(k)
    BY <1>3, <1>a, <2>1, SameOperators DEF Lifecycle!RateTicket, Lifecycle!Room, Rates
  <2> QED
    BY <2>2 DEF Lifecycle!Next
<1>4. CASE e \in HistoryRows /\ Len(history) < MaxHistory /\ Reassigns(row, row', e)
  <2>1. CASE \E a \in Kams : row' = reassign_kam(row, a)
    <3>1. PICK a \in Kams : row' = reassign_kam(row, a)
      BY <2>1
    <3>2. Lifecycle!ReassignKam(a)
      BY <1>4, <1>a, <3>1, SameOperators
      DEF Lifecycle!ReassignKam, Lifecycle!Room, Reassigns
    <3> QED
      BY <3>2 DEF Lifecycle!Next
  <2>2. CASE \E a \in CSs : row' \in Lifecycle!Pushed(reassign_cs(row, a))
    <3>1. PICK a \in CSs : row' \in Lifecycle!Pushed(reassign_cs(row, a))
      BY <2>2
    <3>2. Lifecycle!ReassignCs(a)
      BY <1>4, <1>a, <3>1, SameOperators
      DEF Lifecycle!ReassignCs, Lifecycle!Room, Reassigns
    <3> QED
      BY <3>2 DEF Lifecycle!Next
  <2> QED
    BY <1>4, <2>1, <2>2 DEF Reassigns
<1>5. CASE e \in HistoryRows /\ Len(history) < MaxHistory /\ Escalates(row, row', e)
  <2>1. ASSUME NEW by, NEW i, e = [NoteEntry(row, by) EXCEPT !.edit = i]
        PROVE  Lifecycle!EscalateToKam(by, i)
    BY <1>5, <1>a, <2>1, SameOperators
    DEF Lifecycle!EscalateToKam, Lifecycle!Room, Escalates
  <2>2. CASE "escalate" \in Operations /\ e = NoteEntry(row, "admin")
    <3>1. e.edit = 0
      BY <2>2 DEF NoteEntry
    <3>2. e = [e EXCEPT !.edit = 0]
      BY <1>5, <3>1 DEF HistoryRows
    <3>3. e = [NoteEntry(row, "admin") EXCEPT !.edit = 0]
      BY <2>2, <3>2
    <3> QED
      BY <2>1, <2>2, <3>3 DEF Lifecycle!Next, Lifecycle!AdminEscalates
  <2>3. CASE /\ "webhook" \in Operations /\ row.zoho_ticket_id # None
             /\ ~row.escalated_to_kam
             /\ \E i \in 1..MaxEdits : e = [NoteEntry(row, "zoho") EXCEPT !.edit = i]
    <3>1. PICK i \in 1..MaxEdits : e = [NoteEntry(row, "zoho") EXCEPT !.edit = i]
      BY <2>3
    <3>2. Lifecycle!ZohoEscalates(i)
      BY <2>1, <2>3, <3>1 DEF Lifecycle!ZohoEscalates
    <3> QED
      BY <3>2 DEF Lifecycle!Next
  <2> QED
    BY <1>5, <2>2, <2>3 DEF Escalates
<1>6. CASE e \in HistoryRows /\ Len(history) < MaxHistory /\ MovesForZoho(row, now, row', e)
  <2>1. PICK s \in {"resolved", "in_progress"}, at \in 0..now, i \in 1..MaxEdits :
          /\ Lifecycle!InTime(s, at)
          /\ row' = RecordStatus(row, s, at)
          /\ e = [StatusEntry(s, "zoho") EXCEPT !.edit = i]
    BY <1>6 DEF MovesForZoho
  <2>2. Lifecycle!ZohoMoves(s, at, i)
    BY <1>6, <1>a, <2>1, SameOperators
    DEF Lifecycle!ZohoMoves, Lifecycle!Room, MovesForZoho
  <2>3. s \in Lifecycle!TicketStatus
    BY <2>1 DEF Lifecycle!TicketStatus
  <2> QED
    BY <1>b, <2>1, <2>2, <2>3 DEF Lifecycle!Next
<1>7. CASE e \in HistoryRows /\ ClosesStale(row, now, row', e)
  BY <1>7, <1>a, SameOperators DEF Lifecycle!Next, Lifecycle!AutoClose, ClosesStale
<1>8. CASE e = None /\ Backfills(row, row')
  <2>1. UNCHANGED <<history, now>>
    BY <1>8
  <2>2. CASE /\ "backfill_zoho" \in Operations
             /\ row.status \notin TERMINAL_STATUSES
             /\ row' \in Lifecycle!Pushed(row)
    BY <2>1, <2>2, SameOperators DEF Lifecycle!Next, Lifecycle!BackfillZoho
  <2>3. CASE /\ "backfill_notified" \in Operations
             /\ \E p \in Priorities : row' = backfill_notified(row, p)
    BY <2>1, <2>3, SameOperators DEF Lifecycle!Next, Lifecycle!BackfillNotified
  <2> QED
    BY <1>8, <2>2, <2>3 DEF Backfills
<1> QED
  BY <1>2, <1>3, <1>4, <1>5, <1>6, <1>7, <1>8 DEF Decision

(* With nobody else at work a commit writes the ticket in memory.          *)
LEMMA MergeAlone ==
  ASSUME NEW r \in TicketRows, NEW m \in TicketRows, m.category = r.category,
         NEW s \in BOOLEAN
  PROVE  Merge(r, m, r, s) = m
<1>1. \A b, x : Pick(b, x, b) = x
  BY DEF Pick
<1>2. Merge(r, m, r, s) =
        [ category          |-> m.category,
          status            |-> m.status,
          assigned_admin_id |-> m.assigned_admin_id,
          assigned_cs_id    |-> m.assigned_cs_id,
          kam_notified      |-> m.kam_notified,
          cs_notified       |-> m.cs_notified,
          resolved_at       |-> m.resolved_at,
          satisfaction      |-> m.satisfaction,
          rating            |-> m.rating,
          escalated_to_kam  |-> m.escalated_to_kam,
          zoho_ticket_id    |-> m.zoho_ticket_id ]
  BY <1>1 DEF Merge
<1> QED
  BY <1>2 DEF TicketRows

(* What a handler decided, with or without the push to come.               *)
Decides(t, e, push) ==
  \A u \in IF push THEN Lifecycle!Pushed(t) ELSE {t} :
    Decision(row, history, now, u, e)

(* A session of the only request at work: what it holds was decided on the *)
(* row as it is.                                                           *)
SerialSession(w) ==
  /\ w \notin Pending => sess[w].entry = None
  /\ sess[w].pc = "selected" =>
       "backfill_zoho" \in Operations /\ row.status \notin TERMINAL_STATUSES
  /\ w \in Pending =>
       /\ sess[w].base = row
       /\ sess[w].mine.category = row.category
       /\ sess[w].pc = "push" => NeedsPush(sess[w].mine)
       /\ Decides(sess[w].mine, sess[w].entry, sess[w].pc = "push")

SerialInv ==
  /\ Len(edits) <= MaxEdits
  /\ \A w \in Workers : SerialSession(w)

(* The bound on history rows leaves room in the lifecycle too.             *)
LEMMA RoomAlone ==
  ASSUME TypeOK, SerialInv, OneAtATime, NEW w \in Workers, w \notin Pending, Room
  PROVE  Len(history) < MaxHistory
<1> DEFINE recording == {u \in Workers : sess[u].entry # None}
<1>1. recording = {}
  BY DEF OneAtATime, SerialInv, SerialSession
<1>2. Len(history) + Cardinality(recording) < MaxHistory
  BY DEF Room
<1>3. Len(history) \in Nat
  BY DEF TypeOK
<1> HIDE DEF recording
<1>4. Cardinality(recording) = 0
  BY <1>1, FS_EmptySet
<1> QED
  BY <1>2, <1>3, <1>4

(* A note about a well-formed ticket is a well-formed history row.         *)
LEMMA NoteOfRow ==
  ASSUME NEW r \in TicketRows
  PROVE  /\ NoteEntry(r, "admin") \in HistoryRows
         /\ \A i \in Nat : [NoteEntry(r, "zoho") EXCEPT !.edit = i] \in HistoryRows
BY EntryTypes DEF Authors

(* A handler that decides as the lifecycle does.                           *)
HandlesAlone(w, t, e, push, sync, closing) ==
  /\ Handle(w, t, e, push, sync, closing)
  /\ t.category = row.category
  /\ Decides(t, e, push)

(* Each request reads, or decides what the lifecycle could decide.         *)
LEMMA RequestDecides ==
  ASSUME TypeOK, SerialInv, OneAtATime, NEW w \in Workers, Request(w)
  PROVE  \/ ReadOnly(w) \/ BackfillSelects(w) \/ BackfillSkips(w)
         \/ \E t \in TicketRows, e \in HistoryRows \cup {None},
               push \in BOOLEAN, sync \in BOOLEAN, closing \in BOOLEAN :
              HandlesAlone(w, t, e, push, sync, closing)
<1> DEFINE Goal == \E t \in TicketRows, e \in HistoryRows \cup {None},
                      push \in BOOLEAN, sync \in BOOLEAN, closing \in BOOLEAN :
                     HandlesAlone(w, t, e, push, sync, closing)
<1>0. row \in TicketRows /\ now \in Nat /\ edits \in Seq([zoho : Nat, status : ZohoStatus])
  BY DEF TypeOK
<1>a. ASSUME NEW t \in TicketRows, NEW e \in HistoryRows \cup {None},
             NEW push \in BOOLEAN, NEW sync \in BOOLEAN, NEW closing \in BOOLEAN,
             Handle(w, t, e, push, sync, closing),
             t.category = row.category, Decides(t, e, push)
      PROVE  Goal
  BY <1>a DEF HandlesAlone
<1>b. ASSUME Loads(w) \/ sess[w].pc = "idle", Room PROVE Len(history) < MaxHistory
  BY <1>b, RoomAlone DEF Loads, Pending
<1>c. \A s \in TicketStatus :
        /\ RecordStatus(row, s, now) \in TicketRows
        /\ RecordStatus(row, s, now).category = row.category
  BY ZenonT(60), <1>0, RecordStatusType DEF RecordStatus, TicketRows
<1>d. now \in 0..now
  BY <1>0
<1>e. \A e \in 1..Len(edits) :
        /\ e \in Nat /\ e \in 1..MaxEdits
        /\ row.zoho_ticket_id = edits[e].zoho => row.zoho_ticket_id # None
  <2> DEFINE Edits == [zoho : Nat, status : ZohoStatus]
  <2>a. edits \in Seq(Edits)
    BY <1>0
  <2>b. \A x \in Edits : x.zoho \in Nat
    OBVIOUS
  <2> HIDE DEF Edits
  <2>1. Len(edits) \in Nat /\ \A e \in 1..Len(edits) : edits[e].zoho \in Nat
    BY <2>a, <2>b
  <2>2. Len(edits) <= MaxEdits /\ MaxEdits \in Nat
    BY DeskBoundsAssumption DEF SerialInv
  <2> QED
    BY <2>1, <2>2, NoneAssumption
<1>1. CASE LazyAutoClose(w) \/ BatchAutoClose(w)
  <2> DEFINE t == RecordStatus(row, "closed", now)
             e == StatusEntry("closed", "system")
  <2>1. IsStale(row, now) /\ \E closing \in BOOLEAN : Handle(w, t, e, FALSE, TRUE, closing)
    BY <1>1 DEF LazyAutoClose, BatchAutoClose
  <2>2. e \in HistoryRows /\ t \in TicketRows /\ t.category = row.category
    BY <1>c, EntryTypes DEF TicketStatus, Authors, StatusEntry, HistoryRows
  <2>3. Decides(t, e, FALSE)
    BY <2>1, <2>2 DEF Decides, Decision, ClosesStale
  <2> HIDE DEF t, e
  <2> QED
    BY <2>1, <2>2, <2>3, <1>a
<1>2. CASE \E s \in TicketStatus : transition_status(w, s)
  <2>1. PICK s \in TicketStatus : transition_status(w, s)
    BY <1>2
  <2> DEFINE t == RecordStatus(row, s, now)
             e == StatusEntry(s, "admin")
  <2>2. e \in HistoryRows /\ t \in TicketRows /\ t.category = row.category
    BY <1>c, EntryTypes DEF Authors
  <2>3. Len(history) < MaxHistory
    BY <2>1, <1>b DEF transition_status
  <2>4. Transitions(row, now, t, e)
    BY <2>1, <1>d DEF transition_status, Transitions, InTime, Lifecycle!InTime
  <2>5. Decides(t, e, FALSE)
    BY <2>2, <2>3, <2>4 DEF Decides, Decision
  <2>6. Handle(w, t, e, FALSE, e.by # "zoho", FALSE)
    BY <2>1 DEF transition_status, HandleStatus
  <2>7. (e.by # "zoho") \in BOOLEAN
    OBVIOUS
  <2> HIDE DEF t, e
  <2> QED
    BY <2>2, <2>5, <2>6, <2>7, <1>a
<1>3. CASE \E k \in Ratings : RateTicket(w, k)
  <2>1. PICK k \in Ratings : RateTicket(w, k)
    BY <1>3
  <2> DEFINE t == record_ticket_rating(row, k)
             e == StatusEntry(StatusAfterRating(k), "astrologer")
  <2>2. e \in HistoryRows /\ t \in TicketRows
    BY <1>0, RatingType, EntryTypes DEF Authors, TicketStatus
  <2>3. t.category = row.category
    BY <1>0 DEF record_ticket_rating, TicketRows
  <2>4. Len(history) < MaxHistory
    BY <2>1, <1>b DEF RateTicket
  <2>5. Rates(row, t, e)
    BY <2>1 DEF RateTicket, Rates
  <2>6. Decides(t, e, FALSE)
    BY <2>2, <2>4, <2>5 DEF Decides, Decision
  <2>7. Handle(w, t, e, FALSE, e.by # "zoho", FALSE)
    BY <2>1 DEF RateTicket, HandleStatus
  <2>8. (e.by # "zoho") \in BOOLEAN
    OBVIOUS
  <2> HIDE DEF t, e
  <2> QED
    BY <2>2, <2>3, <2>6, <2>7, <2>8, <1>a
<1>4. CASE \E a \in Kams : ReassignKam(w, a)
  <2>1. PICK a \in Kams : ReassignKam(w, a)
    BY <1>4
  <2> DEFINE t == reassign_kam(row, a)
             e == NoteEntry(row, "admin")
  <2>2. e \in HistoryRows /\ t \in TicketRows
    BY <1>0, QueueTypes, EntryTypes, NoteOfRow
  <2>3. t.category = row.category
    BY <1>0 DEF reassign_kam, TicketRows
  <2>4. Len(history) < MaxHistory
    BY <2>1, <1>b DEF ReassignKam
  <2>5. Reassigns(row, t, e)
    BY <2>1 DEF ReassignKam, Reassigns
  <2>6. Decides(t, e, FALSE)
    BY <2>2, <2>4, <2>5 DEF Decides, Decision
  <2>7. Handle(w, t, e, FALSE, FALSE, FALSE)
    BY <2>1 DEF ReassignKam
  <2> HIDE DEF t, e
  <2> QED
    BY <2>2, <2>3, <2>6, <2>7, <1>a
<1>5. CASE \E a \in CSs : ReassignCs(w, a)
  <2>1. PICK a \in CSs : ReassignCs(w, a)
    BY <1>5
  <2> DEFINE t == reassign_cs(row, a)
             e == NoteEntry(row, "admin")
  <2>2. e \in HistoryRows /\ t \in TicketRows
    BY <1>0, QueueTypes, NoteOfRow
  <2>3. t.category = row.category
    BY <1>0 DEF reassign_cs, TicketRows
  <2>4. Len(history) < MaxHistory
    BY <2>1, <1>b DEF ReassignCs
  <2>5. \A u \in Lifecycle!Pushed(t) : Reassigns(row, u, e)
    BY <2>1 DEF ReassignCs, Reassigns
  <2>6. Decides(t, e, TRUE)
    BY <2>2, <2>4, <2>5 DEF Decides, Decision
  <2>7. Handle(w, t, e, TRUE, FALSE, FALSE)
    BY <2>1 DEF ReassignCs
  <2> HIDE DEF t, e
  <2> QED
    BY <2>2, <2>3, <2>6, <2>7, <1>a
<1>6. CASE AdminEscalates(w) \/ \E i \in 1..Len(edits) : ZohoEscalates(w, i)
  <2> DEFINE t == escalate_to_kam(row)
  <2>1. \E e \in HistoryRows :
          /\ Handle(w, t, e, TRUE, TRUE, FALSE)
          /\ Len(history) < MaxHistory
          /\ \A u \in Lifecycle!Pushed(t) : Escalates(row, u, e)
    <3>1. CASE AdminEscalates(w)
      <4>1. NoteEntry(row, "admin") \in HistoryRows
        BY <1>0, NoteOfRow
      <4>2. Len(history) < MaxHistory
        BY <3>1, <1>b DEF AdminEscalates
      <4> QED
        BY <3>1, <4>1, <4>2 DEF AdminEscalates, Escalates
    <3>2. CASE \E i \in 1..Len(edits) : ZohoEscalates(w, i)
      <4>1. PICK i \in 1..Len(edits) : ZohoEscalates(w, i)
        BY <3>2
      <4> DEFINE e == [NoteEntry(row, "zoho") EXCEPT !.edit = i]
      <4>2. e \in HistoryRows
        BY <1>0, <1>e, NoteOfRow
      <4>3. Len(history) < MaxHistory
        BY <4>1, <1>b DEF ZohoEscalates, Delivered
      <4>4. \A u \in Lifecycle!Pushed(t) : Escalates(row, u, e)
        BY <4>1, <1>e DEF ZohoEscalates, Delivered, Escalates
      <4>5. Handle(w, t, e, TRUE, TRUE, FALSE)
        BY <4>1 DEF ZohoEscalates
      <4> HIDE DEF e
      <4> QED
        BY <4>2, <4>3, <4>4, <4>5
    <3> QED
      BY <1>6, <3>1, <3>2
  <2>2. PICK e \in HistoryRows :
          /\ Handle(w, t, e, TRUE, TRUE, FALSE)
          /\ Len(history) < MaxHistory
          /\ \A u \in Lifecycle!Pushed(t) : Escalates(row, u, e)
    BY <2>1
  <2>3. t \in TicketRows /\ t.category = row.category
    BY <1>0, QueueTypes DEF escalate_to_kam, TicketRows
  <2>4. Decides(t, e, TRUE)
    BY <2>2 DEF Decides, Decision
  <2> HIDE DEF t
  <2> QED
    BY <2>2, <2>3, <2>4, <1>a
<1>7. CASE \E i \in 1..Len(edits), s \in TicketStatus : ZohoMoves(w, i, s)
  <2>1. PICK i \in 1..Len(edits) : \E s \in TicketStatus : ZohoMoves(w, i, s)
    BY <1>7
  <2>2. PICK s \in TicketStatus : ZohoMoves(w, i, s)
    BY <2>1
  <2> DEFINE t == RecordStatus(row, s, now)
             e == [StatusEntry(s, "zoho") EXCEPT !.edit = i]
  <2>3. e \in HistoryRows /\ t \in TicketRows /\ t.category = row.category
    BY <1>c, <1>e, EntryTypes DEF Authors
  <2>4. Len(history) < MaxHistory
    BY <2>2, <1>b DEF ZohoMoves, Delivered
  <2>5. s \in {"resolved", "in_progress"} /\ row.zoho_ticket_id # None
    BY <2>2, <1>e DEF ZohoMoves, Delivered
  <2>6. MovesForZoho(row, now, t, e)
    BY <2>2, <2>5, <1>d, <1>e
    DEF ZohoMoves, Delivered, MovesForZoho, InTime, Lifecycle!InTime
  <2>7. Decides(t, e, FALSE)
    BY <2>3, <2>4, <2>6 DEF Decides, Decision
  <2>8. Handle(w, t, e, FALSE, e.by # "zoho", FALSE)
    BY <2>2 DEF ZohoMoves, HandleStatus
  <2>9. (e.by # "zoho") \in BOOLEAN
    OBVIOUS
  <2> HIDE DEF t, e
  <2> QED
    BY <2>3, <2>7, <2>8, <2>9, <1>a
<1>8. CASE BackfillZoho(w)
  <2>1. "backfill_zoho" \in Operations /\ row.status \notin TERMINAL_STATUSES
    BY <1>8 DEF BackfillZoho, SerialInv, SerialSession
  <2>2. Decides(row, None, TRUE)
    BY <2>1 DEF Decides, Decision, Backfills
  <2> QED
    BY <1>0, <1>8, <2>2, <1>a DEF BackfillZoho
<1>9. CASE \E p \in Priorities : BackfillNotified(w, p)
  <2>1. PICK p \in Priorities : BackfillNotified(w, p)
    BY <1>9
  <2> DEFINE t == backfill_notified(row, p)
  <2>2. t \in TicketRows /\ t.category = row.category
    BY <1>0, QueueTypes DEF backfill_notified, TicketRows
  <2>3. Decides(t, None, FALSE)
    BY <2>1 DEF BackfillNotified, Decides, Decision, Backfills
  <2>4. Handle(w, t, None, FALSE, FALSE, FALSE)
    BY <2>1 DEF BackfillNotified
  <2> HIDE DEF t
  <2> QED
    BY <2>2, <2>3, <2>4, <1>a
<1> QED
  BY <1>1, <1>2, <1>3, <1>4, <1>5, <1>6, <1>7, <1>8, <1>9 DEF Request

(* A step of the only worker.                                              *)
LEMMA SerialFrame ==
  ASSUME SerialInv, OneAtATime, NEW w \in Workers, UNCHANGED edits, SerialSession(w)'
  PROVE  SerialInv'
<1>1. \A u \in Workers : u = w
  BY DEF OneAtATime
<1> QED
  BY <1>1 DEF SerialInv

LEMMA HandlerSerial ==
  ASSUME TypeOK, SerialInv, OneAtATime, NEW w \in Workers,
         NEW t \in TicketRows, NEW e \in HistoryRows \cup {None}, NEW push \in BOOLEAN,
         NEW sync \in BOOLEAN, NEW closing \in BOOLEAN,
         HandlesAlone(w, t, e, push, sync, closing)
  PROVE  SerialInv' /\ UNCHANGED <<row, history, now>>
<1>1. /\ sess'[w].base = row /\ sess'[w].mine = t /\ sess'[w].entry = e
      /\ sess'[w].pc = NextStep(t, push, sync)
      /\ UNCHANGED <<row, history, now, zoho, edits>>
  BY HandleSession DEF HandlesAlone
<1>2. NextStep(t, push, sync) \in {"push", "sync", "commit"}
      /\ (NextStep(t, push, sync) = "push" => push /\ NeedsPush(t))
  BY DEF NextStep
<1>3. Decides(t, e, NextStep(t, push, sync) = "push")
  <2>1. \A u \in IF push THEN Lifecycle!Pushed(t) ELSE {t} : Decision(row, history, now, u, e)
    BY DEF HandlesAlone, Decides
  <2>2. t \in Lifecycle!Pushed(t)
    BY PushedRows
  <2> QED
    BY <1>2, <2>1, <2>2 DEF Decides
<1>4. Decides(sess[w].mine, sess[w].entry, sess[w].pc = "push")'
  BY <1>1, <1>3 DEF Decides
<1>5. SerialSession(w)'
  BY <1>1, <1>2, <1>4 DEF SerialSession, Pending, HandlesAlone
<1> QED
  BY <1>1, <1>5, SerialFrame

(* A push leaves one of the tickets the decision allows.                   *)
LEMMA CallSerial ==
  ASSUME TypeOK, SerialInv, OneAtATime, NEW w \in Workers, CallsZoho(w)
  PROVE  SerialInv' /\ UNCHANGED <<row, history, now>>
<1> DEFINE m == sess[w].mine  e == sess[w].entry
<1>1. /\ w \in Pending
      /\ sess'[w].base = sess[w].base /\ sess'[w].entry = e
      /\ sess'[w].pc \in {"sync", "commit"}
      /\ UNCHANGED <<row, history, now, edits>>
  BY ZohoCall DEF CallsZoho
<1>2. /\ sess[w].base = row /\ m.category = row.category
      /\ sess[w].pc = "push" => NeedsPush(m)
      /\ Decides(m, e, sess[w].pc = "push")
      /\ m \in TicketRows
  BY <1>1 DEF SerialInv, SerialSession, TypeOK
<1>3. \E u \in TicketRows : /\ sess'[w].mine = u
                            /\ u.category = m.category
                            /\ Decision(row, history, now, u, e)
  <2>1. CASE Push(w)
    <3> DEFINE linked == [m EXCEPT !.zoho_ticket_id = Len(zoho) + 1]
    <3>1. /\ sess[w].pc = "push"
          /\ Len(zoho) < MaxZohoTickets
          /\ Proceed(w, linked) \/ Proceed(w, m)
      BY <2>1 DEF Push
    <3>2. Len(zoho) \in Nat /\ MaxZohoTickets \in Nat
      BY DeskBoundsAssumption DEF TypeOK
    <3>3. linked \in TicketRows /\ linked.category = m.category
      BY <1>2, <3>2 DEF TicketRows
    <3>4. linked \in Lifecycle!Pushed(m) /\ m \in Lifecycle!Pushed(m)
      BY SMTT(20), <1>2, <3>1, <3>2, PushedRows
    <3>5. Decision(row, history, now, linked, e) /\ Decision(row, history, now, m, e)
      BY <1>2, <3>1, <3>4 DEF Decides
    <3> HIDE DEF linked, m, e
    <3>6. sess'[w].mine = linked \/ sess'[w].mine = m
      BY <1>1, <1>2, <3>1, <3>3, ProceedSession
    <3> QED
      BY <1>2, <3>3, <3>5, <3>6
  <2>2. CASE PushFails(w) \/ Sync(w)
    <3>1. sess'[w].mine = m
      <4>1. CASE PushFails(w)
        BY <1>1, <1>2, <4>1, ProceedSession DEF PushFails
      <4>2. CASE Sync(w)
        BY <1>1, <4>2 DEF Sync, TypeOK, Sessions
      <4> QED
        BY <2>2, <4>1, <4>2
    <3>2. Decision(row, history, now, m, e)
      BY <1>2, PushedRows DEF Decides
    <3> QED
      BY <1>2, <3>1, <3>2
  <2> QED
    BY <2>1, <2>2 DEF CallsZoho
<1>4. PICK u \in TicketRows : /\ sess'[w].mine = u
                              /\ u.category = m.category
                              /\ Decision(row, history, now, u, e)
  BY <1>3
<1>5. Decides(sess[w].mine, sess[w].entry, sess[w].pc = "push")'
  BY <1>1, <1>4 DEF Decides
<1>6. SerialSession(w)'
  BY <1>1, <1>2, <1>4, <1>5 DEF SerialSession, Pending
<1> QED
  BY <1>1, <1>6, SerialFrame

(* The commit is the step of the lifecycle.                                *)
LEMMA CommitSerial ==
  ASSUME TypeOK, SerialInv, OneAtATime, NEW w \in Workers, Commit(w)
  PROVE  SerialInv' /\ Lifecycle!Next
<1> DEFINE m == sess[w].mine  e == sess[w].entry
<1>1. /\ w \in Pending /\ sess[w].pc = "commit" /\ sess[w].stamped \in BOOLEAN
      /\ row \in TicketRows /\ m \in TicketRows /\ now \in Nat
      /\ row' = Merge(sess[w].base, m, row, sess[w].stamped)
      /\ history' = IF e = None THEN history ELSE Append(history, e)
      /\ UNCHANGED <<now, edits>>
  BY CommitWrites DEF Commit, TypeOK, Sessions
<1>2. /\ sess[w].base = row /\ m.category = row.category
      /\ Decision(row, history, now, m, e)
  BY <1>1, PushedRows DEF SerialInv, SerialSession, Decides
<1> HIDE DEF m, e
<1>3. row' = m
  BY <1>1, <1>2, MergeAlone
<1>4. Lifecycle!Next
  BY <1>1, <1>2, <1>3, DecisionIsStep
<1>5. \E pc \in {"idle", "reloaded"} : sess' = [sess EXCEPT ![w] = NoSession(pc)]
  BY DEF Commit
<1>6. SerialSession(w)'
  <2>1. PICK pc \in {"idle", "reloaded"} : sess' = [sess EXCEPT ![w] = NoSession(pc)]
    BY <1>5
  <2>2. sess'[w] = NoSession(pc) /\ w \notin Pending'
    BY <2>1, EndSession DEF Replaces
  <2> QED
    BY <2>2 DEF SerialSession, NoSession
<1> QED
  BY <1>1, <1>4, <1>6, SerialFrame

LEMMA GivesUpSerial ==
  ASSUME TypeOK, SerialInv, OneAtATime, NEW w \in Workers, GivesUp(w)
  PROVE  SerialInv' /\ UNCHANGED <<row, history, now>>
<1>1. UNCHANGED <<row, history, now, zoho, edits>>
  BY GivesUpEnds
<1>2. PICK pc \in {"idle", "selected"} :
        /\ sess' = [sess EXCEPT ![w] = NoSession(pc)]
        /\ pc = "selected" =>
             "backfill_zoho" \in Operations /\ row.status \notin TERMINAL_STATUSES
  BY DEF GivesUp, ReadOnly, BackfillSelects, BackfillSkips, Crash
<1>3. sess'[w] = NoSession(pc) /\ w \notin Pending'
  BY <1>2, EndSession DEF Replaces
<1>4. SerialSession(w)'
  BY <1>1, <1>2, <1>3 DEF SerialSession, NoSession
<1> QED
  BY <1>1, <1>4, SerialFrame

(* Time passing is a step of the lifecycle, an edit in Zoho Desk is none.  *)
LEMMA EnvironmentSerial ==
  ASSUME TypeOK, SerialInv, Environment
  PROVE  SerialInv' /\ (Lifecycle!Next \/ UNCHANGED <<row, history, now>>)
<1>1. /\ UNCHANGED <<row, history, sess>> /\ Pending' = Pending
  BY EnvironmentFrame
<1>2. now \in Nat /\ now' \in Nat /\ now <= now' /\ Len(edits') <= MaxEdits
  <2>1. now \in Nat /\ edits \in Seq([zoho : Nat, status : ZohoStatus])
        /\ Len(edits) <= MaxEdits /\ MaxEdits \in Nat
    BY DeskBoundsAssumption DEF TypeOK, SerialInv
  <2>2. CASE Tick
    BY <2>1, <2>2 DEF Tick
  <2>3. CASE \E z \in 1..Len(zoho), s \in ZohoStatus : AgentEdits(z, s)
    <3>1. PICK x : edits' = Append(edits, x) /\ Len(edits) < MaxEdits /\ now' = now
      BY <2>3 DEF AgentEdits
    <3>2. Len(edits') = Len(edits) + 1 /\ Len(edits) \in Nat
      BY <2>1, <3>1
    <3> QED
      BY <2>1, <3>1, <3>2
  <2> QED
    BY <2>2, <2>3 DEF Environment
<1>4. ASSUME NEW w \in Workers PROVE SerialSession(w)'
  <2>1. SerialSession(w)
    BY DEF SerialInv
  <2>2. row \in TicketRows
    BY DEF TypeOK
  <2>3. Decides(sess[w].mine, sess[w].entry, sess[w].pc = "push") =>
          Decides(sess[w].mine, sess[w].entry, sess[w].pc = "push")'
    BY <1>1, <1>2, <2>2, DecisionLasts DEF Decides
  <2> QED
    BY <1>1, <2>1, <2>3 DEF SerialSession
<1>5. Lifecycle!Next \/ UNCHANGED <<row, history, now>>
  BY DEF Environment, Tick, AgentEdits, Lifecycle!Next, Lifecycle!Tick
<1> QED
  BY <1>2, <1>4, <1>5 DEF SerialInv

LEMMA StepSerial ==
  ASSUME TypeOK, SerialInv, OneAtATime, Next
  PROVE  SerialInv' /\ (Lifecycle!Next \/ UNCHANGED <<row, history, now>>)
<1>1. ASSUME NEW w \in Workers, Request(w)
      PROVE  SerialInv' /\ UNCHANGED <<row, history, now>>
  <2>1. CASE ReadOnly(w) \/ BackfillSelects(w) \/ BackfillSkips(w)
    BY <2>1, GivesUpSerial DEF GivesUp
  <2>2. CASE \E t \in TicketRows, e \in HistoryRows \cup {None},
                push \in BOOLEAN, sync \in BOOLEAN, closing \in BOOLEAN :
               HandlesAlone(w, t, e, push, sync, closing)
    BY <2>2, HandlerSerial
  <2> QED
    BY <1>1, <2>1, <2>2, RequestDecides
<1> QED
  BY <1>1, CallSerial, CommitSerial, GivesUpSerial, EnvironmentSerial
  DEF Next, CallsZoho, GivesUp, Environment

LEMMA InitSerial == Init => SerialInv /\ Lifecycle!Init
<1> SUFFICES ASSUME Init PROVE SerialInv /\ Lifecycle!Init
  OBVIOUS
<1>1. SerialInv
  <2>1. Pending = {} /\ \A w \in Workers : sess[w] = NoSession("idle")
    BY DEF Init, NoSession, Pending
  <2>2. Len(edits) = 0 /\ MaxEdits \in Nat
    BY DeskBoundsAssumption DEF Init
  <2> QED
    BY <2>1, <2>2 DEF SerialInv, SerialSession, NoSession
<1>2. \A t : Lifecycle!CreationHistory(t) = CreationHistory(t)
  BY DEF CreationHistory, Lifecycle!CreationHistory, StatusEntry, Lifecycle!StatusEntry
<1>3. \A c : Lifecycle!HalfBuiltRow(c) = HalfBuiltRow(c)
  BY DEF HalfBuiltRow, Lifecycle!HalfBuiltRow, UnroutedRow, Lifecycle!UnroutedRow
<1>4. \A c, k : Lifecycle!AssignedRow(c, k) = AssignedRow(c, k)
  BY DEF AssignedRow, Lifecycle!AssignedRow, UnroutedRow, Lifecycle!UnroutedRow
<1>5. \A c, p : Lifecycle!routing_for_ticket(c, p) = routing_for_ticket(c, p)
  BY DEF routing_for_ticket, Lifecycle!routing_for_ticket, AtMost, Lifecycle!AtMost,
         CS_ONLY_CATEGORIES, Lifecycle!CS_ONLY_CATEGORIES, ALWAYS_KAM_ONLY_CATEGORIES,
         Lifecycle!ALWAYS_KAM_ONLY_CATEGORIES, VIP_PRIORITY_MAX,
         Lifecycle!VIP_PRIORITY_MAX, RESIGNATION_KAM_PRIORITY_MAX,
         Lifecycle!RESIGNATION_KAM_PRIORITY_MAX
<1>6. \A c, p, k, s, z : Lifecycle!CreatedRow(c, p, k, s, z) = CreatedRow(c, p, k, s, z)
  BY ZenonT(60), <1>5 DEF CreatedRow, Lifecycle!CreatedRow
<1>7. 1 \in 1..MaxZohoTickets
  BY DeskBoundsAssumption
<1>8. row \in Lifecycle!InitialRows
  <2>1. CASE \E c \in Categories : row = HalfBuiltRow(c)
    BY <2>1, <1>3 DEF Lifecycle!InitialRows
  <2>2. CASE \E c \in Categories, k \in Kams : row = AssignedRow(c, k)
    BY <2>2, <1>4 DEF Lifecycle!InitialRows
  <2>3. CASE \E c \in Categories, p \in Priorities, k \in Kams,
                s \in CSs \cup {None}, z \in {1, None} :
                  row = CreatedRow(c, p, k, s, z)
    <3>1. PICK c \in Categories, p \in Priorities, k \in Kams,
               s \in CSs \cup {None}, z \in {1, None} :
                 row = CreatedRow(c, p, k, s, z)
      BY <2>3
    <3>2. z \in (1..MaxZohoTickets) \cup {None} /\ p \in Lifecycle!Priorities
      BY <1>7, SameOperators
    <3>3. row = Lifecycle!CreatedRow(c, p, k, s, z)
      BY <3>1, <1>6
    <3> QED
      BY <3>2, <3>3 DEF Lifecycle!InitialRows
  <2> QED
    BY <2>1, <2>2, <2>3 DEF Init, InitialRows
<1> QED
  BY <1>1, <1>2, <1>8 DEF Init, Lifecycle!Init

(* With one request at a time, what ticket_service does to a ticket is     *)
(* what its docstring promises, one atomic operation after another: a      *)
(* crash or an outage of Zoho Desk at any point leaves the ticket as an    *)
(* operation that happened or as one that did not.                         *)
THEOREM DeskImplementsLifecycle ==
  ASSUME OneAtATime PROVE Spec => LifecycleSpec
<1>1. Init => TypeOK /\ SerialInv /\ Lifecycle!Init
  BY InitTyped, InitSerial
<1>2. TypeOK /\ SerialInv /\ [Next]_vars =>
        TypeOK' /\ SerialInv' /\ [Lifecycle!Next]_(Lifecycle!vars)
  <2>1. CASE UNCHANGED vars
    <3>1. UNCHANGED Lifecycle!vars
      BY <2>1 DEF vars, Lifecycle!vars
    <3>2. TypeOK /\ SerialInv => TypeOK' /\ SerialInv'
      BY <2>1 DEF vars, TypeOK, Pending, SerialInv, SerialSession, Decides
    <3> QED
      BY <3>1, <3>2
  <2>2. ASSUME TypeOK, SerialInv, Next
        PROVE  TypeOK' /\ SerialInv' /\ [Lifecycle!Next]_(Lifecycle!vars)
    BY <2>2, StepTyped, StepSerial DEF Lifecycle!vars
  <2> QED
    BY <2>1, <2>2
<1> QED
  BY <1>1, <1>2, PTL DEF Spec, LifecycleSpec, Lifecycle!Spec

(* A decision comes with a history row of the status it leaves, or leaves  *)
(* the status.                                                             *)
LEMMA DecisionMirrors ==
  ASSUME NEW r \in TicketRows, NEW h, NEW n \in Nat, NEW t, NEW e,
         Decision(r, h, n, t, e)
  PROVE  IF e = None THEN t.status = r.status ELSE e.status = t.status
<1>1. \A u \in TicketRows : \A x \in Lifecycle!Pushed(u) : x.status = u.status
  BY DEF Lifecycle!Pushed, TicketRows
<1>2. \A s, at : RecordStatus(r, s, at).status = s
  BY DEF RecordStatus, TicketRows
<1>3. /\ \A a : reassign_kam(r, a).status = r.status /\ reassign_cs(r, a).status = r.status
      /\ \A p : backfill_notified(r, p).status = r.status
      /\ escalate_to_kam(r).status = r.status
  BY DEF reassign_kam, reassign_cs, backfill_notified, escalate_to_kam, TicketRows
<1>4. /\ \A s, by, i : /\ StatusEntry(s, by).status = s
                       /\ [StatusEntry(s, by) EXCEPT !.edit = i].status = s
      /\ \A by, i : /\ NoteEntry(r, by).status = r.status
                    /\ [NoteEntry(r, by) EXCEPT !.edit = i].status = r.status
  BY DEF StatusEntry, NoteEntry
<1>5. CASE e \in HistoryRows /\ \/ Transitions(r, n, t, e)
                                \/ MovesForZoho(r, n, t, e)
                                \/ ClosesStale(r, n, t, e)
  <2>1. PICK s, at : t = RecordStatus(r, s, at) /\ e.status = s
    <3>1. CASE Transitions(r, n, t, e)
      BY <1>4, <3>1 DEF Transitions
    <3>2. CASE MovesForZoho(r, n, t, e)
      <4>1. PICK s, at, i : /\ t = RecordStatus(r, s, at)
                            /\ e = [StatusEntry(s, "zoho") EXCEPT !.edit = i]
        BY <3>2 DEF MovesForZoho
      <4>2. e.status = s
        BY <1>4, <4>1
      <4> QED
        BY <4>1, <4>2
    <3>3. CASE ClosesStale(r, n, t, e)
      BY <1>4, <3>3 DEF ClosesStale
    <3> QED
      BY <1>5, <3>1, <3>2, <3>3
  <2> QED
    BY <1>2, <1>5, <2>1, NoEntryAssumption
<1>6. CASE e \in HistoryRows /\ Rates(r, t, e)
  <2>1. \A k : record_ticket_rating(r, k).status = StatusAfterRating(k)
    BY DEF record_ticket_rating, TicketRows
  <2> QED
    BY <1>4, <1>6, <2>1, NoEntryAssumption DEF Rates
<1>7. CASE e \in HistoryRows /\ (Reassigns(r, t, e) \/ Escalates(r, t, e))
  <2>1. e # None /\ e.status = r.status
    <3>1. PICK by, i : \/ e = NoteEntry(r, by)
                       \/ e = [NoteEntry(r, by) EXCEPT !.edit = i]
      <4>1. CASE Reassigns(r, t, e) \/ e = NoteEntry(r, "admin")
        BY <4>1 DEF Reassigns
      <4>2. CASE \E i \in 1..MaxEdits : e = [NoteEntry(r, "zoho") EXCEPT !.edit = i]
        BY <4>2
      <4> QED
        BY <1>7, <4>1, <4>2 DEF Escalates
    <3>2. e.status = r.status
      <4>1. CASE e = NoteEntry(r, by)
        BY <1>4, <4>1
      <4>2. CASE e = [NoteEntry(r, by) EXCEPT !.edit = i]
        BY <1>4, <4>2
      <4> QED
        BY <3>1, <4>1, <4>2
    <3> QED
      BY <1>7, <3>2, NoEntryAssumption
  <2>2. t.status = r.status
    BY <1>1, <1>3, <1>7, QueueTypes DEF Reassigns, Escalates
  <2> QED
    BY <2>1, <2>2
<1>8. CASE e = None /\ Backfills(r, t)
  BY <1>1, <1>3, <1>8 DEF Backfills
<1> QED
  BY <1>5, <1>6, <1>7, <1>8 DEF Decision

(* With one request at a time a step leaves the ticket alone or commits a  *)
(* decision of the lifecycle.                                              *)
LEMMA SerialStep ==
  ASSUME TypeOK, SerialInv, Next
  PROVE  \/ UNCHANGED <<row, history>>
         \/ \E e \in HistoryRows \cup {None} :
              /\ row' \in TicketRows
              /\ history' = IF e = None THEN history ELSE Append(history, e)
              /\ Decision(row, history, now, row', e)
<1> DEFINE Decided == \E e \in HistoryRows \cup {None} :
                        /\ row' \in TicketRows
                        /\ history' = IF e = None THEN history ELSE Append(history, e)
                        /\ Decision(row, history, now, row', e)
<1>1. ASSUME NEW w \in Workers, Commit(w) PROVE Decided
  <2> DEFINE m == sess[w].mine  e == sess[w].entry
  <2>1. /\ w \in Pending /\ sess[w].pc = "commit" /\ sess[w].stamped \in BOOLEAN
        /\ row \in TicketRows /\ m \in TicketRows
        /\ e \in HistoryRows \cup {None}
        /\ row' = Merge(sess[w].base, m, row, sess[w].stamped)
        /\ history' = IF e = None THEN history ELSE Append(history, e)
    BY <1>1, CommitWrites DEF Commit, TypeOK, Sessions
  <2>2. /\ sess[w].base = row /\ m.category = row.category
        /\ Decision(row, history, now, m, e)
    BY <2>1 DEF SerialInv, SerialSession, Decides
  <2> HIDE DEF m, e
  <2>3. row' = m
    BY <2>1, <2>2, MergeAlone
  <2> QED
    BY <2>1, <2>2, <2>3
<1>2. CASE ~(\E w \in Workers : Commit(w))
  BY <1>2, StepCases, GivesUpEnds, EnvironmentFrame, ZohoCall
  DEF StartsHandler, Handles, Handle, CallsZoho
<1> QED
  BY <1>1, <1>2

(* With one request at a time the status column and the history never      *)
(* diverge, as the docstring of ticket_service has it, crashes and Zoho    *)
(* outages included.                                                       *)
THEOREM DeskMirror ==
  ASSUME OneAtATime PROVE Spec => []Lifecycle!StatusMirrorsHistory
<1> DEFINE Mirror == /\ Len(history) > 0
                     /\ Lifecycle!StatusMirrorsHistory
<1>1. Init => TypeOK /\ SerialInv /\ Mirror
  <2> SUFFICES ASSUME Init PROVE Mirror
    BY InitTyped, InitSerial
  <2>1. row.status \in {"submitted", "assigned_to_kam"}
    BY DEF Init, InitialRows, HalfBuiltRow, AssignedRow, UnroutedRow, CreatedRow
  <2> QED
    BY <2>1 DEF Init, CreationHistory, StatusEntry, Lifecycle!StatusMirrorsHistory
<1>2. ASSUME TypeOK, SerialInv, Mirror, UNCHANGED <<row, history>> PROVE Mirror'
  BY <1>2 DEF Lifecycle!StatusMirrorsHistory
<1>3. ASSUME TypeOK, SerialInv, Mirror, Next PROVE Mirror'
  <2>1. ASSUME NEW e \in HistoryRows \cup {None},
               history' = IF e = None THEN history ELSE Append(history, e),
               Decision(row, history, now, row', e)
        PROVE  Mirror'
    <3>1. row \in TicketRows /\ now \in Nat /\ history \in Seq(HistoryRows)
      BY <1>3 DEF TypeOK
    <3>2. IF e = None THEN row'.status = row.status ELSE e.status = row'.status
      BY <2>1, <3>1, DecisionMirrors
    <3> QED
      BY <1>3, <2>1, <3>1, <3>2 DEF Lifecycle!StatusMirrorsHistory
  <2> QED
    BY <1>2, <1>3, <2>1, SerialStep
<1>5. TypeOK /\ SerialInv /\ Mirror /\ [Next]_vars => TypeOK' /\ SerialInv' /\ Mirror'
  <2>1. TypeOK /\ SerialInv /\ UNCHANGED vars => TypeOK' /\ SerialInv'
    BY DEF vars, TypeOK, Pending, SerialInv, SerialSession, Decides
  <2> QED
    BY <1>2, <1>3, <2>1, StepTyped, StepSerial DEF vars
<1>6. Mirror => Lifecycle!StatusMirrorsHistory
  OBVIOUS
<1> QED
  BY <1>1, <1>5, <1>6, PTL DEF Spec

(* Status, clock and answer of a ticket go together.                       *)
AnswerFits(t) ==
  /\ t.status = "resolved" =>
       t.resolved_at # None /\ t.satisfaction = None /\ t.rating = None
  /\ t.status = "closed" => t.satisfaction # "unsatisfied"
  /\ t.satisfaction = IF t.rating = None THEN None ELSE SatisfactionOf(t.rating)

(* No decision tears them apart.                                           *)
LEMMA DecisionFits ==
  ASSUME NEW r \in TicketRows, NEW h, NEW n \in Nat, NEW t, NEW e,
         AnswerFits(r), Decision(r, h, n, t, e)
  PROVE  AnswerFits(t)
<1>1. ASSUME NEW s \in TicketStatus, NEW at \in Nat, s = "closed" => r.satisfaction = None
      PROVE  AnswerFits(RecordStatus(r, s, at))
  BY <1>1, NoneAssumption DEF AnswerFits, RecordStatus, TicketRows
<1>2. ASSUME NEW k \in Ratings PROVE AnswerFits(record_ticket_rating(r, k))
  <2>1. k # None
    BY RatingsAssumption, NoneAssumption
  <2> QED
    BY <2>1, RatingsAssumption
    DEF AnswerFits, record_ticket_rating, SatisfactionOf, StatusAfterRating, TicketRows
<1>3. ASSUME NEW u, u.status = r.status, u.resolved_at = r.resolved_at,
             u.satisfaction = r.satisfaction, u.rating = r.rating
      PROVE  AnswerFits(u)
  BY <1>3 DEF AnswerFits
<1>4. \A u \in TicketRows : \A x \in Lifecycle!Pushed(u) :
        /\ x.status = u.status /\ x.resolved_at = u.resolved_at
        /\ x.satisfaction = u.satisfaction /\ x.rating = u.rating
  BY DEF Lifecycle!Pushed, TicketRows
<1>5. ASSUME NEW u,
             \/ u = escalate_to_kam(r)
             \/ \E a \in Kams : u = reassign_kam(r, a)
             \/ \E a \in CSs : u = reassign_cs(r, a)
             \/ \E p \in Priorities : u = backfill_notified(r, p)
      PROVE  /\ u \in TicketRows
             /\ u.status = r.status /\ u.resolved_at = r.resolved_at
             /\ u.satisfaction = r.satisfaction /\ u.rating = r.rating
  <2> DEFINE Same == /\ u \in TicketRows
                     /\ u.status = r.status /\ u.resolved_at = r.resolved_at
                     /\ u.satisfaction = r.satisfaction /\ u.rating = r.rating
  <2>1. CASE u = escalate_to_kam(r)
    BY <2>1, QueueTypes DEF escalate_to_kam, TicketRows
  <2>2. ASSUME NEW a \in Kams, u = reassign_kam(r, a) PROVE Same
    BY <2>2, QueueTypes DEF reassign_kam, TicketRows
  <2>3. ASSUME NEW a \in CSs, u = reassign_cs(r, a) PROVE Same
    BY <2>3, QueueTypes DEF reassign_cs, TicketRows
  <2>4. ASSUME NEW p \in Priorities, u = backfill_notified(r, p) PROVE Same
    BY <2>4, QueueTypes DEF backfill_notified, TicketRows
  <2> QED
    BY <1>5, <2>1, <2>2, <2>3, <2>4
<1>6. ADMIN_SETTABLE_STATUSES \subseteq TicketStatus \ {"closed"}
  BY DEF ADMIN_SETTABLE_STATUSES, TicketStatus
<1>7. CASE Transitions(r, n, t, e)
  BY <1>1, <1>6, <1>7 DEF Transitions
<1>8. CASE Rates(r, t, e)
  BY <1>2, <1>8 DEF Rates
<1>9. CASE Reassigns(r, t, e)
  BY <1>3, <1>4, <1>5, <1>9 DEF Reassigns
<1>10. CASE Escalates(r, t, e)
  BY <1>3, <1>4, <1>5, <1>10 DEF Escalates
<1>11. CASE MovesForZoho(r, n, t, e)
  BY <1>1, <1>11 DEF MovesForZoho, TicketStatus
<1>12. CASE ClosesStale(r, n, t, e)
  BY <1>1, <1>12 DEF ClosesStale, IsStale, TicketStatus
<1>13. CASE Backfills(r, t)
  BY <1>3, <1>4, <1>5, <1>13 DEF Backfills
<1> QED
  BY <1>7, <1>8, <1>9, <1>10, <1>11, <1>12, <1>13 DEF Decision

(* With one request at a time status, clock and answer of the row go       *)
(* together, whatever crashes and whatever Zoho Desk does.                 *)
LEMMA DeskAnswerFits ==
  ASSUME OneAtATime PROVE Spec => []AnswerFits(row)
<1>1. Init => TypeOK /\ SerialInv /\ AnswerFits(row)
  <2>1. Init => AnswerFits(row)
    BY NoneAssumption
    DEF Init, InitialRows, HalfBuiltRow, AssignedRow, UnroutedRow, CreatedRow, AnswerFits
  <2> QED
    BY <2>1, InitTyped, InitSerial
<1>2. ASSUME TypeOK, SerialInv, AnswerFits(row), Next PROVE AnswerFits(row')
  BY <1>2, SerialStep, DecisionFits DEF TypeOK
<1>3. TypeOK /\ SerialInv /\ AnswerFits(row) /\ [Next]_vars =>
        TypeOK' /\ SerialInv' /\ AnswerFits(row)'
  <2>1. TypeOK /\ SerialInv /\ UNCHANGED vars => TypeOK' /\ SerialInv'
    BY DEF vars, TypeOK, Pending, SerialInv, SerialSession, Decides
  <2> QED
    BY <1>2, <2>1, StepTyped, StepSerial DEF vars
<1> QED
  BY <1>1, <1>3, PTL DEF Spec

(* With one request at a time a ticket is never closed over a complaint:   *)
(* the overlap of a rating with an auto-close is the only way to get there *)
(* (ticket_service.py:620-625).                                            *)
THEOREM DeskUnsatisfiedNeverClosed ==
  ASSUME OneAtATime PROVE Spec => []UnsatisfiedNeverClosed
<1>1. AnswerFits(row) => UnsatisfiedNeverClosed
  BY DEF AnswerFits, UnsatisfiedNeverClosed
<1> QED
  BY <1>1, DeskAnswerFits, PTL

(* With one request at a time a resolved ticket has its clock running and  *)
(* carries no answer, and an answer is the verdict of the stored rating,   *)
(* although the two are columns of their own (ticket_service.py:205-235,   *)
(* 632-651).                                                               *)
THEOREM DeskAnswersFit ==
  ASSUME OneAtATime
  PROVE  Spec => [](Lifecycle!ResolvedAwaitsAnswer /\ Lifecycle!AnswerMatchesRating)
<1>1. AnswerFits(row) => Lifecycle!ResolvedAwaitsAnswer /\ Lifecycle!AnswerMatchesRating
  BY DEF AnswerFits, Lifecycle!ResolvedAwaitsAnswer, Lifecycle!AnswerMatchesRating,
         SatisfactionOf, Lifecycle!SatisfactionOf
<1> QED
  BY <1>1, DeskAnswerFits, PTL

-----------------------------------------------------------------------------
(* Webhooks, one request at a time.  That a redelivered "Closed" edit adds *)
(* no row (ClosedEditAppliedOnce) is refuted by a reopening in between;    *)
(* here it is proved that nothing else refutes it.                         *)

Resolution(entry) == entry.change /\ entry.status = "resolved"
Reopening(entry) == entry.change /\ entry.status \notin TERMINAL_STATUSES
ZohoNote(entry) == ~entry.change /\ entry.by = "zoho"

(* An edit in Zoho Desk resolves a ticket only if it is the first          *)
(* resolution or the ticket was reopened since the one before, and         *)
(* escalates it once.                                                      *)
EditsAreIdempotent ==
  /\ \A j \in 1..Len(history) :
       Resolution(history[j]) /\ history[j].edit # 0 =>
         \A i \in 1..(j - 1) : Resolution(history[i]) =>
           \E k \in (i + 1)..(j - 1) : Reopening(history[k])
  /\ \A i, j \in 1..Len(history) : ZohoNote(history[i]) /\ ZohoNote(history[j]) => i = j

(* An open ticket that was resolved before was reopened, and one that Zoho *)
(* has escalated is escalated.                                             *)
EditInv ==
  /\ EditsAreIdempotent
  /\ row.status \notin TERMINAL_STATUSES =>
       \A i \in 1..Len(history) : Resolution(history[i]) =>
         \E k \in (i + 1)..Len(history) : Reopening(history[k])
  /\ \A i \in 1..Len(history) : ZohoNote(history[i]) => row.escalated_to_kam

(* What a decision's history row says of the status and the escalation.    *)
RowTells(r, t, e) ==
  /\ r.escalated_to_kam => t.escalated_to_kam
  /\ IF e # None /\ e.change THEN t.status = e.status ELSE t.status = r.status
  /\ e # None =>
       /\ Resolution(e) /\ e.edit # 0 => r.status \notin TERMINAL_STATUSES
       /\ ZohoNote(e) => ~r.escalated_to_kam /\ t.escalated_to_kam

LEMMA DecisionTells ==
  ASSUME NEW r \in TicketRows, NEW h, NEW n \in Nat, NEW t, NEW e,
         Decision(r, h, n, t, e)
  PROVE  RowTells(r, t, e)
<1>1. \A u \in TicketRows : \A x \in Lifecycle!Pushed(u) :
        x.status = u.status /\ x.escalated_to_kam = u.escalated_to_kam
  BY DEF Lifecycle!Pushed, TicketRows
<1>2. \A s, at : LET t1 == RecordStatus(r, s, at) IN
        t1.status = s /\ t1.escalated_to_kam = r.escalated_to_kam
  BY DEF RecordStatus, TicketRows
<1>3. /\ \A a \in Kams : LET u == reassign_kam(r, a) IN
           u.status = r.status /\ u.escalated_to_kam = r.escalated_to_kam
      /\ \A a \in CSs : LET u == reassign_cs(r, a) IN
           u.status = r.status /\ u.escalated_to_kam = r.escalated_to_kam
      /\ \A p : LET u == backfill_notified(r, p) IN
           u.status = r.status /\ u.escalated_to_kam = r.escalated_to_kam
      /\ escalate_to_kam(r).status = r.status /\ escalate_to_kam(r).escalated_to_kam
  BY DEF reassign_kam, reassign_cs, backfill_notified, escalate_to_kam, TicketRows
<1>4. CASE e \in HistoryRows /\ Transitions(r, n, t, e)
  <2>1. PICK s, at : t = RecordStatus(r, s, at) /\ e = StatusEntry(s, "admin")
    BY <1>4 DEF Transitions
  <2> QED
    BY <1>2, <1>4, <2>1, NoEntryAssumption DEF RowTells, StatusEntry, ZohoNote
<1>5. CASE e \in HistoryRows /\ Rates(r, t, e)
  <2>1. PICK k \in Ratings : /\ t = record_ticket_rating(r, k)
                            /\ e = StatusEntry(StatusAfterRating(k), "astrologer")
    BY <1>5 DEF Rates
  <2>2. t.status = StatusAfterRating(k) /\ t.escalated_to_kam = r.escalated_to_kam
    BY <2>1 DEF record_ticket_rating, TicketRows
  <2> QED
    BY <1>5, <2>1, <2>2, NoEntryAssumption DEF RowTells, StatusEntry, ZohoNote
<1>6. CASE e \in HistoryRows /\ Reassigns(r, t, e)
  <2>1. e = NoteEntry(r, "admin")
    BY <1>6 DEF Reassigns
  <2>2. t.status = r.status /\ t.escalated_to_kam = r.escalated_to_kam
    BY <1>1, <1>3, <1>6, QueueTypes DEF Reassigns
  <2> QED
    BY <2>1, <2>2 DEF RowTells, NoteEntry, Resolution, ZohoNote
<1>7. CASE e \in HistoryRows /\ Escalates(r, t, e)
  <2>1. t.status = r.status /\ t.escalated_to_kam
    BY <1>1, <1>3, <1>7, QueueTypes DEF Escalates
  <2>2. ~e.change /\ (e.by = "zoho" => ~r.escalated_to_kam)
    <3>1. CASE e = NoteEntry(r, "admin")
      BY <3>1 DEF NoteEntry
    <3>2. CASE /\ ~r.escalated_to_kam
               /\ \E i \in 1..MaxEdits : e = [NoteEntry(r, "zoho") EXCEPT !.edit = i]
      BY <3>2 DEF NoteEntry
    <3> QED
      BY <1>7, <3>1, <3>2 DEF Escalates
  <2> QED
    BY <2>1, <2>2 DEF RowTells, Resolution, ZohoNote
<1>8. CASE e \in HistoryRows /\ MovesForZoho(r, n, t, e)
  <2>1. PICK s, at, i : /\ t = RecordStatus(r, s, at)
                        /\ e = [StatusEntry(s, "zoho") EXCEPT !.edit = i]
                        /\ r.status \notin TERMINAL_STATUSES
    BY <1>8 DEF MovesForZoho
  <2>2. e.change /\ e.status = s
    BY <2>1 DEF StatusEntry
  <2> QED
    BY <1>2, <1>8, <2>1, <2>2, NoEntryAssumption DEF RowTells, ZohoNote
<1>9. CASE e \in HistoryRows /\ ClosesStale(r, n, t, e)
  BY <1>2, <1>9, NoEntryAssumption
  DEF ClosesStale, RowTells, StatusEntry, ZohoNote, Resolution
<1>10. CASE e = None /\ Backfills(r, t)
  <2>1. t.status = r.status /\ t.escalated_to_kam = r.escalated_to_kam
    BY <1>1, <1>3, <1>10 DEF Backfills
  <2> QED
    BY <1>10, <2>1 DEF RowTells
<1> QED
  BY <1>4, <1>5, <1>6, <1>7, <1>8, <1>9, <1>10 DEF Decision

(* A decision keeps what is known of the edits.                            *)
LEMMA DecisionEdits ==
  ASSUME TypeOK, EditInv, NEW e \in HistoryRows \cup {None},
         history' = IF e = None THEN history ELSE Append(history, e),
         RowTells(row, row', e)
  PROVE  EditInv'
<1>0. history \in Seq(HistoryRows) /\ Len(history) \in Nat
  BY DEF TypeOK
<1>1. CASE e = None
  BY <1>1 DEF EditInv, EditsAreIdempotent, RowTells
<1>2. CASE e # None
  <2>1. /\ Len(history') = Len(history) + 1
        /\ \A i \in 1..Len(history) : history'[i] = history[i]
        /\ history'[Len(history) + 1] = e
    BY <1>0, <1>2
  <2>2. ASSUME NEW i \in 1..Len(history'), i \notin 1..Len(history) PROVE i = Len(history) + 1
    BY <1>0, <2>1, <2>2
  <2>3. ASSUME NEW j \in 1..Len(history'), Resolution(history'[j]), history'[j].edit # 0,
               NEW i \in 1..(j - 1), Resolution(history'[i])
        PROVE  \E k \in (i + 1)..(j - 1) : Reopening(history'[k])
    <3>1. i \in 1..Len(history) /\ Resolution(history[i])
      BY <1>0, <2>1, <2>3
    <3>2. CASE j \in 1..Len(history)
      <4>1. PICK k \in (i + 1)..(j - 1) : Reopening(history[k])
        BY <2>1, <2>3, <3>1, <3>2 DEF EditInv, EditsAreIdempotent
      <4>2. k \in 1..Len(history)
        BY <1>0, <3>1, <3>2
      <4> QED
        BY <2>1, <4>1, <4>2
    <3>3. CASE j = Len(history) + 1
      <4>1. row.status \notin TERMINAL_STATUSES
        BY <1>2, <2>1, <2>3, <3>3 DEF RowTells
      <4>2. PICK k \in (i + 1)..Len(history) : Reopening(history[k])
        BY <3>1, <4>1 DEF EditInv
      <4>3. k \in 1..Len(history) /\ k \in (i + 1)..(j - 1)
        BY <1>0, <3>1, <3>3
      <4> QED
        BY <2>1, <4>2, <4>3
    <3> QED
      BY <2>2, <2>3, <3>2, <3>3
  <2>4. ASSUME NEW i \in 1..Len(history'), ZohoNote(history'[i])
        PROVE  /\ row'.escalated_to_kam
               /\ i = Len(history) + 1 => ~row.escalated_to_kam
               /\ i \in 1..Len(history) => ZohoNote(history[i]) /\ row.escalated_to_kam
    BY <1>0, <1>2, <2>1, <2>2, <2>4 DEF EditInv, RowTells
  <2>5. ASSUME NEW i \in 1..Len(history'), NEW j \in 1..Len(history'),
               ZohoNote(history'[i]), ZohoNote(history'[j])
        PROVE  i = j
    BY <2>2, <2>4, <2>5 DEF EditInv, EditsAreIdempotent
  <2>6. ASSUME row'.status \notin TERMINAL_STATUSES,
               NEW i \in 1..Len(history'), Resolution(history'[i])
        PROVE  \E k \in (i + 1)..Len(history') : Reopening(history'[k])
    <3>1. CASE e.change
      <4>1. Reopening(e)
        BY <1>2, <2>6, <3>1 DEF RowTells, Reopening
      <4>2. i # Len(history) + 1
        BY <2>1, <2>6, <4>1 DEF Resolution, Reopening, TERMINAL_STATUSES
      <4>3. Len(history) + 1 \in (i + 1)..Len(history')
        BY <1>0, <2>1, <2>2, <4>2
      <4> QED
        BY <2>1, <4>1, <4>3
    <3>2. CASE ~e.change
      <4>1. row.status \notin TERMINAL_STATUSES
        BY <2>6, <3>2 DEF RowTells
      <4>2. i \in 1..Len(history) /\ Resolution(history[i])
        BY <2>1, <2>2, <2>6, <3>2 DEF Resolution
      <4>3. PICK k \in (i + 1)..Len(history) : Reopening(history[k])
        BY <4>1, <4>2 DEF EditInv
      <4>4. k \in 1..Len(history) /\ k \in (i + 1)..Len(history')
        BY <1>0, <2>1, <4>2
      <4> QED
        BY <2>1, <4>3, <4>4
    <3> QED
      BY <3>1, <3>2
  <2> QED
    BY <2>3, <2>4, <2>5, <2>6 DEF EditInv, EditsAreIdempotent
<1> QED
  BY <1>1, <1>2

(* With one request at a time, webhooks may come as often and as late as   *)
(* they like: an edit made in Zoho Desk resolves a ticket again only after *)
(* a reopening, and escalates it once (zoho_webhook.py:64-85).             *)
THEOREM DeskEditsAreIdempotent ==
  ASSUME OneAtATime PROVE Spec => []EditsAreIdempotent
<1>1. Init => TypeOK /\ SerialInv /\ EditInv
  <2> SUFFICES ASSUME Init PROVE EditInv
    BY InitTyped, InitSerial
  <2>1. /\ history \in {<< StatusEntry("submitted", "system") >>,
                        << StatusEntry("submitted", "system"),
                           StatusEntry("assigned_to_kam", "system") >>}
    BY DEF Init, CreationHistory
  <2>2. \A i \in 1..Len(history) : ~Resolution(history[i]) /\ ~ZohoNote(history[i])
    BY <2>1 DEF StatusEntry, Resolution, ZohoNote
  <2> QED
    BY <2>2 DEF EditInv, EditsAreIdempotent
<1>2. ASSUME TypeOK, SerialInv, EditInv, UNCHANGED <<row, history>> PROVE EditInv'
  BY <1>2 DEF EditInv, EditsAreIdempotent
<1>3. ASSUME TypeOK, SerialInv, EditInv, Next PROVE EditInv'
  BY <1>2, <1>3, SerialStep, DecisionTells, DecisionEdits DEF TypeOK
<1>4. TypeOK /\ SerialInv /\ EditInv /\ [Next]_vars => TypeOK' /\ SerialInv' /\ EditInv'
  <2>1. TypeOK /\ SerialInv /\ UNCHANGED vars => TypeOK' /\ SerialInv'
    BY DEF vars, TypeOK, Pending, SerialInv, SerialSession, Decides
  <2> QED
    BY <1>2, <1>3, <2>1, StepTyped, StepSerial DEF vars
<1>5. EditInv => EditsAreIdempotent
  BY DEF EditInv
<1> QED
  BY <1>1, <1>4, <1>5, PTL DEF Spec
=============================================================================
