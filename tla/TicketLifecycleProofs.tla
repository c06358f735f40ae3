------------------------ MODULE TicketLifecycleProofs ------------------------
(***************************************************************************)
(* Proofs about the atomic lifecycle of a ticket, for every set of admins, *)
(* categories, ratings and operations and for every bound. Four of the     *)
(* five invariants speak of the row alone and are inductive together; the  *)
(* fifth, ClosedWasResolved, needs StatusMirrorsHistory: the close is      *)
(* decided on the row, the resolution it rests on is found in history.     *)
(***************************************************************************)
EXTENDS TicketLifecycle, TLAPS

-----------------------------------------------------------------------------
(* The operators of TicketRow map ticket rows to ticket rows.              *)

(* _record_status yields a well-formed ticket with the status it is given, *)
(* and a resolution starts the clock and clears the answer.                *)
LEMMA RecordStatusType ==
  ASSUME NEW t \in TicketRows, NEW s \in TicketStatus, NEW at \in Nat
  PROVE  /\ RecordStatus(t, s, at) \in TicketRows
         /\ RecordStatus(t, s, at).status = s
BY DEF RecordStatus, TicketRows, TicketStatus

(* A rating leaves a well-formed ticket, closed or under review.           *)
LEMMA RatingType ==
  ASSUME NEW t \in TicketRows, NEW r \in Ratings
  PROVE  /\ record_ticket_rating(t, r) \in TicketRows
         /\ StatusAfterRating(r) \in {"closed", "under_review"}
BY ZenonT(60), RatingsAssumption
   DEF record_ticket_rating, SatisfactionOf, StatusAfterRating, TicketRows, TicketStatus

(* Routing yields two flags.                                               *)
LEMMA RoutingType ==
  ASSUME NEW c, NEW p
  PROVE  /\ routing_for_ticket(c, p).kam \in BOOLEAN
         /\ routing_for_ticket(c, p).cs \in BOOLEAN
BY DEF routing_for_ticket

(* Reassignment, escalation and the notified-flags script leave the ticket *)
(* well-formed.                                                            *)
LEMMA QueueTypes ==
  ASSUME NEW t \in TicketRows
  PROVE  /\ \A a \in Kams : reassign_kam(t, a) \in TicketRows
         /\ \A a \in CSs : reassign_cs(t, a) \in TicketRows
         /\ escalate_to_kam(t) \in TicketRows
         /\ \A p \in Priorities : backfill_notified(t, p) \in TicketRows
<1>1. \A a \in Kams : reassign_kam(t, a) \in TicketRows
  BY DEF reassign_kam, TicketRows
<1>2. \A a \in CSs : reassign_cs(t, a) \in TicketRows
  BY DEF reassign_cs, TicketRows
<1>3. escalate_to_kam(t) \in TicketRows
  BY DEF escalate_to_kam, TicketRows
<1>4. ASSUME NEW p \in Priorities PROVE backfill_notified(t, p) \in TicketRows
  BY RoutingType DEF backfill_notified, TicketRows
<1> QED
  BY <1>1, <1>2, <1>3, <1>4

(* create_ticket leaves well-formed tickets.                               *)
LEMMA CreatedType ==
  /\ \A c \in Categories : HalfBuiltRow(c) \in TicketRows
  /\ \A c \in Categories, k \in Kams : AssignedRow(c, k) \in TicketRows
  /\ \A c \in Categories, p \in Priorities, k \in Kams, s \in CSs \cup {None},
        z \in Nat \cup {None} : CreatedRow(c, p, k, s, z) \in TicketRows
<1>1. ASSUME NEW c \in Categories PROVE HalfBuiltRow(c) \in TicketRows
  BY DEF HalfBuiltRow, UnroutedRow, TicketRows, TicketStatus
<1>2. ASSUME NEW c \in Categories, NEW p \in Priorities, NEW k \in Kams,
             NEW s \in CSs \cup {None}, NEW z \in Nat \cup {None}
      PROVE  CreatedRow(c, p, k, s, z) \in TicketRows
  BY RoutingType DEF CreatedRow, TicketRows, TicketStatus
<1>3. ASSUME NEW c \in Categories, NEW k \in Kams
      PROVE  AssignedRow(c, k) \in TicketRows
  BY DEF AssignedRow, UnroutedRow, TicketRows, TicketStatus
<1> QED
  BY <1>1, <1>2, <1>3

(* History rows are well-formed, and so are the rows of a new ticket.      *)
LEMMA EntryTypes ==
  /\ \A s \in TicketStatus, a \in Authors, e \in Nat :
       /\ StatusEntry(s, a) \in HistoryRows
       /\ [StatusEntry(s, a) EXCEPT !.edit = e] \in HistoryRows
  /\ \A t \in TicketRows, a \in Authors, e \in Nat :
       /\ NoteEntry(t, a) \in HistoryRows
       /\ [NoteEntry(t, a) EXCEPT !.edit = e] \in HistoryRows
BY DEF StatusEntry, NoteEntry, HistoryRows, Authors, TicketRows

LEMMA CreationHistoryType ==
  ASSUME NEW t
  PROVE  CreationHistory(t) \in Seq(HistoryRows)
<1> DEFINE e1 == StatusEntry("submitted", "system")
           e2 == StatusEntry("assigned_to_kam", "system")
<1>1. e1 \in HistoryRows /\ e2 \in HistoryRows
  BY DEF StatusEntry, HistoryRows, TicketStatus, Authors
<1> HIDE DEF e1, e2
<1>2. << e1 >> \in Seq(HistoryRows) /\ << e1, e2 >> \in Seq(HistoryRows)
  BY <1>1
<1>3. CreationHistory(t) \in {<< e1 >>, << e1, e2 >>}
  BY DEF CreationHistory, e1, e2
<1> QED
  BY <1>2, <1>3
-----------------------------------------------------------------------------

RowOK(t) ==
  /\ t.status = "resolved" =>
       t.resolved_at # None /\ t.satisfaction = None /\ t.rating = None
  /\ t.status = "closed" => t.satisfaction # "unsatisfied"
  /\ t.satisfaction = IF t.rating = None THEN None ELSE SatisfactionOf(t.rating)

LInv ==
  /\ TypeOK
  /\ RowOK(row)
  /\ Len(history) > 0
  /\ StatusMirrorsHistory
  /\ ClosedWasResolved

(* A rated, moved, reassigned, escalated or pushed ticket keeps RowOK.     *)
LEMMA RecordStatusOK ==
  ASSUME NEW t \in TicketRows, RowOK(t), NEW s \in TicketStatus, NEW at \in Nat,
         s = "closed" => t.satisfaction # "unsatisfied"
  PROVE  RowOK(RecordStatus(t, s, at))
BY NoneAssumption DEF RowOK, RecordStatus, TicketRows

LEMMA RatingOK ==
  ASSUME NEW t \in TicketRows, NEW r \in Ratings
  PROVE  RowOK(record_ticket_rating(t, r))
<1>1. r # None
  BY RatingsAssumption, NoneAssumption
<1> QED
  BY <1>1, RatingsAssumption
  DEF RowOK, record_ticket_rating, SatisfactionOf, StatusAfterRating, TicketRows

(* Two tickets with the same status, clock and answer are both fine.       *)
SameAnswer(t, u) ==
  /\ t.status = u.status
  /\ t.resolved_at = u.resolved_at
  /\ t.satisfaction = u.satisfaction
  /\ t.rating = u.rating

LEMMA SameAnswerOK ==
  ASSUME NEW t, NEW u, SameAnswer(t, u), RowOK(t)
  PROVE  RowOK(u)
BY DEF SameAnswer, RowOK

LEMMA QueuesKeepAnswer ==
  ASSUME NEW t \in TicketRows
  PROVE  /\ \A a : SameAnswer(t, reassign_kam(t, a)) /\ SameAnswer(t, reassign_cs(t, a))
         /\ SameAnswer(t, escalate_to_kam(t))
         /\ \A p : SameAnswer(t, backfill_notified(t, p))
BY DEF SameAnswer, reassign_kam, reassign_cs, escalate_to_kam, backfill_notified,
       TicketRows

LEMMA PushedKeepsAnswer ==
  ASSUME NEW t \in TicketRows, NEW u \in Pushed(t)
  PROVE  u \in TicketRows /\ SameAnswer(t, u)
BY BoundsAssumption DEF Pushed, SameAnswer, TicketRows

(* Recording a fine ticket with a history row of its status keeps the      *)
(* invariant, provided a close follows a resolution or an earlier close.   *)
LEMMA RecordKeeps ==
  ASSUME LInv, NEW t \in TicketRows, NEW e \in HistoryRows, Record(t, e),
         RowOK(t), e.status = t.status,
         t.status = "closed" => row.status \in TERMINAL_STATUSES
  PROVE  LInv'
<1> USE DEF LInv
<1>1. /\ row' = t /\ history' = Append(history, e) /\ now' = now
      /\ history \in Seq(HistoryRows)
  BY DEF Record, TypeOK
<1>2. /\ Len(history') = Len(history) + 1
      /\ \A i \in 1..Len(history) : history'[i] = history[i]
      /\ history'[Len(history')] = e
  BY <1>1
<1>3. TypeOK'
  BY <1>1 DEF TypeOK
<1>4. RowOK(row)' /\ (Len(history) > 0)' /\ StatusMirrorsHistory'
  BY <1>1, <1>2 DEF StatusMirrorsHistory, RowOK, SatisfactionOf
<1>5. ClosedWasResolved'
  <2> SUFFICES ASSUME NEW i \in 1..Len(history'), history'[i].status = "closed"
               PROVE  \E j \in 1..(i - 1) : history'[j].status = "resolved"
    BY DEF ClosedWasResolved
  <2>1. CASE i \in 1..Len(history)
    <3>1. PICK j \in 1..(i - 1) : history[j].status = "resolved"
      BY <1>2, <2>1 DEF ClosedWasResolved
    <3> QED
      BY <1>1, <1>2, <2>1, <3>1
  <2>2. CASE i = Len(history) + 1
    <3>1. row.status \in TERMINAL_STATUSES
      BY <1>2, <2>2
    <3>2. CASE row.status = "resolved"
      BY <1>1, <1>2, <2>2, <3>2 DEF StatusMirrorsHistory
    <3>3. CASE row.status = "closed"
      <4>1. PICK j \in 1..(Len(history) - 1) : history[j].status = "resolved"
        BY <1>1, <3>3 DEF ClosedWasResolved, StatusMirrorsHistory
      <4> QED
        BY <1>1, <1>2, <2>2, <4>1
    <3> QED
      BY <3>1, <3>2, <3>3 DEF TERMINAL_STATUSES
  <2> QED
    BY <1>1, <1>2, <2>1, <2>2
<1> QED
  BY <1>3, <1>4, <1>5

(* A new ticket, half-built or complete, satisfies the invariant.          *)
LEMMA InitLInv == Init => LInv
<1> SUFFICES ASSUME Init PROVE LInv
  OBVIOUS
<1>1. /\ row \in TicketRows
      /\ row.status \in {"submitted", "assigned_to_kam"}
      /\ row.satisfaction = None /\ row.rating = None
  <2>1. CASE \E c \in Categories : row = HalfBuiltRow(c)
    BY <2>1, CreatedType DEF HalfBuiltRow, UnroutedRow
  <2>3. CASE \E c \in Categories, k \in Kams : row = AssignedRow(c, k)
    BY <2>3, CreatedType DEF AssignedRow, UnroutedRow
  <2>2. CASE \E c \in Categories, p \in Priorities, k \in Kams,
                s \in CSs \cup {None}, z \in ZohoIds \cup {None} :
                  row = CreatedRow(c, p, k, s, z)
    <3>1. PICK c \in Categories, p \in Priorities, k \in Kams,
                s \in CSs \cup {None}, z \in ZohoIds \cup {None} :
                  row = CreatedRow(c, p, k, s, z)
      BY <2>2
    <3>2. z \in Nat \cup {None}
      BY BoundsAssumption
    <3> QED
      BY <3>1, <3>2, CreatedType DEF CreatedRow
  <2> QED
    BY <2>1, <2>2, <2>3 DEF Init, InitialRows
<1>2. TypeOK
  BY <1>1, CreationHistoryType DEF Init, TypeOK
<1>3. RowOK(row)
  BY <1>1, NoneAssumption DEF RowOK
<1>4. Len(history) > 0 /\ StatusMirrorsHistory /\ ClosedWasResolved
  BY <1>1 DEF Init, CreationHistory, StatusEntry, StatusMirrorsHistory, ClosedWasResolved
<1> QED
  BY <1>2, <1>3, <1>4 DEF LInv

(* Every step keeps the invariant.                                         *)
LEMMA NextLInv == LInv /\ [Next]_vars => LInv'
<1> SUFFICES ASSUME LInv, [Next]_vars PROVE LInv'
  OBVIOUS
<1>0. /\ row \in TicketRows /\ RowOK(row) /\ now \in Nat /\ Moments \subseteq Nat
      /\ history \in Seq(HistoryRows)
  BY DEF LInv, TypeOK, Moments
<1>a. ASSUME NEW s \in {"under_review", "in_progress", "resolved"}, NEW by \in Authors,
             NEW e \in Nat, NEW at \in Nat,
             \/ Record(RecordStatus(row, s, at), StatusEntry(s, by))
             \/ Record(RecordStatus(row, s, at), [StatusEntry(s, by) EXCEPT !.edit = e])
      PROVE  LInv'
  <2>0. s \in TicketStatus /\ s # "closed"
    BY DEF TicketStatus
  <2>1. /\ RecordStatus(row, s, at) \in TicketRows /\ RecordStatus(row, s, at).status = s
        /\ RowOK(RecordStatus(row, s, at))
    BY <1>0, <2>0, RecordStatusType, RecordStatusOK
  <2>2. /\ StatusEntry(s, by) \in HistoryRows /\ StatusEntry(s, by).status = s
        /\ [StatusEntry(s, by) EXCEPT !.edit = e] \in HistoryRows
        /\ [StatusEntry(s, by) EXCEPT !.edit = e].status = s
    BY EntryTypes DEF StatusEntry, TicketStatus
  <2> QED
    BY <1>a, <2>1, <2>2, RecordKeeps
<1>b. ASSUME NEW t \in TicketRows, SameAnswer(row, t), NEW by \in Authors, NEW e \in Nat,
             \/ Record(t, NoteEntry(row, by))
             \/ Record(t, [NoteEntry(row, by) EXCEPT !.edit = e])
      PROVE  LInv'
  <2>1. RowOK(t) /\ t.status = row.status
    BY <1>0, <1>b, SameAnswerOK DEF SameAnswer
  <2>2. /\ NoteEntry(row, by) \in HistoryRows /\ NoteEntry(row, by).status = row.status
        /\ [NoteEntry(row, by) EXCEPT !.edit = e] \in HistoryRows
        /\ [NoteEntry(row, by) EXCEPT !.edit = e].status = row.status
    BY <1>0, EntryTypes DEF NoteEntry
  <2> QED
    BY <1>b, <2>1, <2>2, RecordKeeps DEF TERMINAL_STATUSES
<1>c. ASSUME NEW t \in TicketRows, SameAnswer(row, t), row' = t,
             UNCHANGED <<history, now>>
      PROVE  LInv'
  <2>1. RowOK(t) /\ t.status = row.status
    BY <1>0, <1>c, SameAnswerOK DEF SameAnswer
  <2> QED
    BY <1>c, <2>1
    DEF LInv, TypeOK, RowOK, StatusMirrorsHistory, ClosedWasResolved, SatisfactionOf
<1>1. CASE \E s \in TicketStatus, at \in Moments : transition_status(s, at)
  BY <1>0, <1>1, <1>a DEF transition_status, ADMIN_SETTABLE_STATUSES, Authors
<1>2. CASE \E r \in Ratings : RateTicket(r)
  <2>1. PICK r \in Ratings : RateTicket(r)
    BY <1>2
  <2>2. /\ record_ticket_rating(row, r) \in TicketRows
        /\ record_ticket_rating(row, r).status = StatusAfterRating(r)
        /\ StatusAfterRating(r) \in TicketStatus
        /\ RowOK(record_ticket_rating(row, r))
    BY <1>0, RatingType, RatingOK DEF record_ticket_rating, TicketRows, TicketStatus
  <2>3. /\ StatusEntry(StatusAfterRating(r), "astrologer") \in HistoryRows
        /\ StatusEntry(StatusAfterRating(r), "astrologer").status = StatusAfterRating(r)
    BY <2>2, EntryTypes DEF StatusEntry, HistoryRows, Authors
  <2> QED
    BY <2>1, <2>2, <2>3, RecordKeeps DEF RateTicket, TERMINAL_STATUSES
<1>3. CASE AutoClose
  <2>1. /\ RecordStatus(row, "closed", now) \in TicketRows
        /\ RecordStatus(row, "closed", now).status = "closed"
        /\ RowOK(RecordStatus(row, "closed", now))
    BY <1>0, <1>3, RecordStatusType, RecordStatusOK, NoneAssumption
    DEF TicketStatus, AutoClose, IsStale
  <2>2. /\ StatusEntry("closed", "system") \in HistoryRows
        /\ StatusEntry("closed", "system").status = "closed"
    BY DEF StatusEntry, HistoryRows, TicketStatus, Authors
  <2> QED
    BY <1>3, <2>1, <2>2, RecordKeeps DEF AutoClose, IsStale, TERMINAL_STATUSES
<1>4. CASE \E a \in Kams : ReassignKam(a)
  BY <1>0, <1>4, <1>b, QueueTypes, QueuesKeepAnswer DEF ReassignKam, Authors
<1>5. CASE \E a \in CSs : ReassignCs(a)
  <2>0. PICK a \in CSs : ReassignCs(a)
    BY <1>5
  <2>1. PICK t \in Pushed(reassign_cs(row, a)) : Record(t, NoteEntry(row, "admin"))
    BY <2>0 DEF ReassignCs
  <2>2. t \in TicketRows /\ SameAnswer(row, t)
    BY <1>0, <2>1, QueueTypes, QueuesKeepAnswer, PushedKeepsAnswer DEF SameAnswer
  <2> QED
    BY <2>1, <2>2, <1>b DEF Authors
<1>d. ASSUME NEW by \in Authors, NEW e \in Nat, EscalateToKam(by, e)
      PROVE  LInv'
  <2>1. PICK t \in Pushed(escalate_to_kam(row)) :
          Record(t, [NoteEntry(row, by) EXCEPT !.edit = e])
    BY <1>d DEF EscalateToKam
  <2>2. t \in TicketRows /\ SameAnswer(row, t)
    BY <1>0, <2>1, QueueTypes, QueuesKeepAnswer, PushedKeepsAnswer DEF SameAnswer
  <2> QED
    BY <2>1, <2>2, <1>b
<1>6. CASE AdminEscalates
  BY <1>6, <1>d DEF AdminEscalates, Authors
<1>7. CASE \E s \in TicketStatus, at \in Moments, e \in 1..MaxEdits : ZohoMoves(s, at, e)
  <2>1. PICK s \in TicketStatus, at \in Moments, e \in 1..MaxEdits : ZohoMoves(s, at, e)
    BY <1>7
  <2>2. /\ s \in {"under_review", "in_progress", "resolved"}
        /\ at \in Nat /\ e \in Nat
        /\ Record(RecordStatus(row, s, at), [StatusEntry(s, "zoho") EXCEPT !.edit = e])
    BY <1>0, <2>1, BoundsAssumption DEF ZohoMoves
  <2> QED
    BY <2>2, <1>a DEF Authors
<1>8. CASE \E e \in 1..MaxEdits : ZohoEscalates(e)
  BY <1>8, <1>d, BoundsAssumption DEF ZohoEscalates, Authors
<1>9. CASE BackfillZoho
  <2>1. row' \in TicketRows /\ SameAnswer(row, row')
    BY <1>0, <1>9, PushedKeepsAnswer DEF BackfillZoho
  <2> QED
    BY <1>9, <2>1, <1>c DEF BackfillZoho
<1>10. CASE \E p \in Priorities : BackfillNotified(p)
  BY <1>0, <1>10, <1>c, QueueTypes, QueuesKeepAnswer DEF BackfillNotified
<1>11. CASE Tick
  BY <1>11 DEF Tick, LInv, TypeOK, RowOK, StatusMirrorsHistory, ClosedWasResolved,
               SatisfactionOf
<1>12. CASE UNCHANGED vars
  BY <1>12 DEF vars, LInv, TypeOK, RowOK, StatusMirrorsHistory, ClosedWasResolved,
               SatisfactionOf
<1> QED
  BY <1>1, <1>2, <1>3, <1>4, <1>5, <1>6, <1>7, <1>8, <1>9, <1>10, <1>11, <1>12
  DEF Next

LEMMA LifecycleInvariant == Spec => []LInv
BY InitLInv, NextLInv, PTL DEF Spec

-----------------------------------------------------------------------------
(* The row, its history and the clock are always well-formed.              *)
THEOREM LifecycleTypeCorrect == Spec => []TypeOK
<1>1. LInv => TypeOK
  BY DEF LInv
<1> QED
  BY <1>1, LifecycleInvariant, PTL

(* In the atomic lifecycle the status column and the history never         *)
(* diverge, whatever the operations and however long the history.          *)
THEOREM LifecycleMirror == Spec => []StatusMirrorsHistory
<1>1. LInv => StatusMirrorsHistory
  BY DEF LInv
<1> QED
  BY <1>1, LifecycleInvariant, PTL

(* A resolved ticket never carries the answer to an earlier resolution.    *)
THEOREM LifecycleResolvedAwaitsAnswer == Spec => []ResolvedAwaitsAnswer
<1>1. LInv => ResolvedAwaitsAnswer
  BY DEF LInv, RowOK, ResolvedAwaitsAnswer
<1> QED
  BY <1>1, LifecycleInvariant, PTL

(* A ticket the astrologer called unsolved is never closed as it stands.   *)
THEOREM LifecycleUnsatisfiedNeverClosed == Spec => []UnsatisfiedNeverClosed
<1>1. LInv => UnsatisfiedNeverClosed
  BY DEF LInv, RowOK, UnsatisfiedNeverClosed
<1> QED
  BY <1>1, LifecycleInvariant, PTL

(* The stored satisfaction is the verdict of the stored rating.            *)
THEOREM LifecycleAnswerMatchesRating == Spec => []AnswerMatchesRating
<1>1. LInv => AnswerMatchesRating
  BY DEF LInv, RowOK, AnswerMatchesRating
<1> QED
  BY <1>1, LifecycleInvariant, PTL

(* Every close in history has a resolution before it.                      *)
THEOREM LifecycleClosedWasResolved == Spec => []ClosedWasResolved
<1>1. LInv => ClosedWasResolved
  BY DEF LInv
<1> QED
  BY <1>1, LifecycleInvariant, PTL
=============================================================================
