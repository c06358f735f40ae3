----------------------------- MODULE CallsProofs -----------------------------
(***************************************************************************)
(* The calls row for any number of callbacks and turns: what callbacks,    *)
(* relay and summary threads may store in whatever order.                  *)
(***************************************************************************)
EXTENDS Calls, TLAPS

Ended == row # None /\ row.ended # None

(* The tool outcomes kept for atEnd are those of a row that was ended, and *)
(* the row's own still begin the same way.                                 *)
SameStart(s, t) == s # << >> => t # << >> /\ t[1] = s[1]

EndIsKnown ==
  /\ Ended <=> atEnd # None
  /\ Ended => SameStart(atEnd, row.actions)

(* A summary is under way only for a call whose end is committed, and its  *)
(* thread has seen the turns stored before it.                             *)
SummaryFollowsEnd ==
  \A i \in Deliveries :
    /\ job[i].pc \in {"check", "spawned", "summarises"} => Ended
    /\ job[i].pc = "summarises" =>
         SameStart(atEnd, job[i].seen.actions)
         /\ (job[i].seen.actions # << >> => job[i].seen.transcript # << >>)

OutcomeNeedsEnd == row # None /\ row.outcome # None => Ended

(* Actions are stored with a turn.                                         *)
ActionsHaveTurns == row # None /\ row.actions # << >> => row.transcript # << >>

(* Only a call with a row is relayed.                                      *)
RelayHasRow == relay.pc # "none" => row # None
TurnHasRelay == turn # NoTurn => relay.pc # "none"
TurnIsNumbered == turn = NoTurn \/ turn.n \in Nat
RowIsPlaced == row # None => request \in {"done", "failed"}

CallInv ==
  /\ TypeOK /\ EndIsKnown /\ SummaryFollowsEnd /\ OutcomeNeedsEnd
  /\ ActionsHaveTurns /\ RelayHasRow /\ TurnHasRelay /\ TurnIsNumbered
  /\ RowIsPlaced /\ FailedHasReason /\ FirstOutcomeStands

(* What each handler makes of the row.                                     *)

LEMMA CommittedRow ==
  ASSUME NEW b \in BOOLEAN
  PROVE  /\ NewCall(b) \in CallRows /\ NewCall(b) # None
         /\ NewCall(b).ended = None /\ NewCall(b).outcome = None
         /\ NewCall(b).status = "queued" /\ NewCall(b).actions = << >>
<1>1. NewCall(b) \in CallRows
  BY DEF NewCall, CallRows, CallStatus
<1>. QED
  BY <1>1, NoneAssumption DEF NewCall

(* handle_status_callback: an end stamp stays, a failed call has its reason.*)
LEMMA ReportedRow ==
  ASSUME NEW r \in CallRows, NEW s \in TwilioStatuses, handled \in Nat
  PROVE  LET q == StatusReported(r, s) IN
         /\ q \in CallRows /\ q # None
         /\ q.actions = r.actions /\ q.transcript = r.transcript
         /\ q.outcome = r.outcome
         /\ q.created_ticket = r.created_ticket
         /\ r.ended # None => q.ended = r.ended
         /\ s \in TERMINAL_TWILIO_STATUSES => q.ended # None
         /\ q.status = "failed" => q.reason # None /\ q.ended # None
<1>. DEFINE q == StatusReported(r, s)
<1>1. STATUS_FROM_TWILIO(s) \in CallStatus
  BY DEF STATUS_FROM_TWILIO, CallStatus, TwilioStatuses, TERMINAL_TWILIO_STATUSES, NotConnected
<1>2. STATUS_FROM_TWILIO(s) = "failed" => s \in NotConnected
  BY DEF STATUS_FROM_TWILIO, TwilioStatuses, TERMINAL_TWILIO_STATUSES, NotConnected
<1>3. s # None
  BY NoneAssumption
<1>4. handled + 1 \in Nat /\ handled + 1 # None
  BY NoneAssumption
<1>5. q \in CallRows
  BY <1>1, <1>4 DEF CallRows, StatusReported
<1>. QED
  BY <1>2, <1>3, <1>4, <1>5, NoneAssumption DEF CallRows, StatusReported, TERMINAL_TWILIO_STATUSES

(* A job moves on and keeps what its thread has seen.                      *)
LEMMA JobStep ==
  ASSUME TypeOK, NEW i \in Deliveries,
         NEW p \in {"none", "check", "spawned", "summarises", "wrote", "done"}
  PROVE  [job EXCEPT ![i].pc = p] \in [Deliveries ->
            [pc : {"none", "check", "spawned", "summarises", "wrote", "done"}, seen : Stored]]
<1>. DEFINE Jobs == [pc : {"none", "check", "spawned", "summarises", "wrote", "done"},
                     seen : Stored]
<1>1. job \in [Deliveries -> Jobs]
  BY DEF TypeOK
<1>2. job[i] \in Jobs
  BY <1>1
<1>3. [job[i] EXCEPT !.pc = p] \in Jobs
  BY <1>2
<1>. HIDE DEF Jobs
<1>4. [job EXCEPT ![i] = [job[i] EXCEPT !.pc = p]] \in [Deliveries -> Jobs]
  BY <1>1, <1>3
<1>. QED
  BY <1>4 DEF Jobs

(* The summary thread writes the outcome only.                             *)
LEMMA SummarisedRow ==
  ASSUME NEW r \in CallRows, NEW o \in OUTCOME_STATUSES
  PROVE  LET q == [r EXCEPT !.outcome = o] IN
         /\ q \in CallRows /\ q # None
         /\ q.actions = r.actions /\ q.transcript = r.transcript
         /\ q.created_ticket = r.created_ticket
         /\ q.ended = r.ended /\ q.reason = r.reason /\ q.status = r.status
         /\ q.outcome = o /\ q.outcome # None
<1>1. [r EXCEPT !.outcome = o] \in CallRows
  BY DEF CallRows
<1>. QED
  BY <1>1, NoneAssumption DEF CallRows

(* start_conversation writes the status only.                              *)
LEMMA StartedRow ==
  ASSUME NEW r \in CallRows
  PROVE  LET q == [r EXCEPT !.status = "in_progress"] IN
         /\ q \in CallRows /\ q # None
         /\ q.actions = r.actions /\ q.transcript = r.transcript
         /\ q.created_ticket = r.created_ticket
         /\ q.ended = r.ended /\ q.reason = r.reason /\ q.outcome = r.outcome
         /\ q.status = "in_progress"
<1>1. [r EXCEPT !.status = "in_progress"] \in CallRows
  BY DEF CallRows, CallStatus
<1>. QED
  BY <1>1, NoneAssumption DEF CallRows

WithTurn(r, n, a) ==
  [r EXCEPT !.transcript = Append(@, n), !.actions = @ \o a,
            !.created_ticket = IF a = <<"escalated">> THEN n ELSE @]

(* A stored turn makes transcript and actions grow.                        *)
LEMMA StoredRow ==
  ASSUME NEW r \in CallRows, NEW n \in Nat, NEW a \in Seq(ToolOutcomes)
  PROVE  LET q == WithTurn(r, n, a) IN
         /\ q \in CallRows /\ q # None
         /\ q.transcript # << >> /\ SameStart(r.actions, q.actions)
         /\ GrowsTo(r.transcript, q.transcript) /\ GrowsTo(r.actions, q.actions)
         /\ r.created_ticket # None => q.created_ticket # None
         /\ q.ended = r.ended /\ q.reason = r.reason
         /\ q.status = r.status /\ q.outcome = r.outcome
<1>. DEFINE q == WithTurn(r, n, a)
<1>1. r.transcript \in Seq(Nat) /\ r.actions \in Seq(ToolOutcomes)
  BY DEF CallRows
<1>2. Append(r.transcript, n) \in Seq(Nat) /\ r.actions \o a \in Seq(ToolOutcomes)
  BY <1>1
<1>3. q \in CallRows
  BY <1>2 DEF CallRows, WithTurn
<1>4. q.transcript = Append(r.transcript, n) /\ q.actions = r.actions \o a
  BY DEF CallRows, WithTurn
<1>5. /\ Len(Append(r.transcript, n)) = Len(r.transcript) + 1
      /\ \A k \in 1..Len(r.transcript) : Append(r.transcript, n)[k] = r.transcript[k]
      /\ Len(r.transcript) \in Nat
  BY <1>1
<1>6. q.transcript # << >>
  <2>1. \A t \in Seq(Nat), m \in Nat : Append(t, m) # << >>
    OBVIOUS
  <2>. QED
    BY <1>1, <1>4, <2>1
<1>7. GrowsTo(r.transcript, q.transcript)
  BY <1>4, <1>5 DEF GrowsTo
<1>8. GrowsTo(r.actions, q.actions)
  BY <1>1, <1>4 DEF GrowsTo
<1>9. SameStart(r.actions, q.actions)
  BY <1>1, <1>4 DEF SameStart
<1>. QED
  BY <1>3, <1>6, <1>7, <1>8, <1>9, NoneAssumption DEF CallRows, WithTurn

(* A summary says what the first tool outcome it has seen says, or that    *)
(* there is none.                                                          *)
LEMMA ResolutionStatusesType ==
  ASSUME NEW seen \in Stored, NEW o \in ResolutionStatuses(seen)
  PROVE  /\ o \in OUTCOME_STATUSES
         /\ seen.actions # << >> /\ seen.transcript # << >>
              => o \in {seen.actions[1], "unknown"}
<1>1. seen.actions \in Seq(ToolOutcomes)
  BY DEF Stored
<1>2. seen.actions # << >> => Head(seen.actions) = seen.actions[1]
                              /\ seen.actions[1] \in ToolOutcomes
  BY <1>1
<1>. QED
  BY <1>2 DEF ResolutionStatuses, OUTCOME_STATUSES, ToolOutcomes

(* CallInv holds before the call is placed.                                *)
LEMMA CallInvInit == Init => CallInv
<1>. SUFFICES ASSUME Init PROVE CallInv
  OBVIOUS
<1>1. << >> \in Seq(Nat) /\ << >> \in Seq(ToolOutcomes)
  OBVIOUS
<1>2. Nothing \in Stored
  BY <1>1 DEF Nothing, Stored
<1>3. job \in [Deliveries ->
        [pc : {"none", "check", "spawned", "summarises", "wrote", "done"}, seen : Stored]]
  <2>1. [pc |-> "none", seen |-> Nothing] \in
          [pc : {"none", "check", "spawned", "summarises", "wrote", "done"}, seen : Stored]
    BY <1>2
  <2>. QED
    BY <2>1 DEF Init
<1>4. handled \in 0..MaxDeliveries
  BY CallsAssumption DEF Init
<1>5. turn \in [n : Nat \cup {None}, actions : Seq(ToolOutcomes)]
  BY <1>1 DEF Init, NoTurn
<1>6. relay \in [pc : {"none", "accepted", "open", "closed"}, status : CallStatus \cup {None}]
  BY DEF Init
<1>7. TypeOK
  BY <1>3, <1>4, <1>5, <1>6 DEF Init, TypeOK
<1>. QED
  BY <1>7, NoneAssumption
  DEF Init, CallInv, EndIsKnown, Ended, SummaryFollowsEnd, OutcomeNeedsEnd,
      ActionsHaveTurns, RelayHasRow, TurnHasRelay, TurnIsNumbered, RowIsPlaced,
      FailedHasReason, FirstOutcomeStands, NoTurn, Deliveries

(* Every step keeps CallInv.                                               *)
LEMMA CallInvNext == CallInv /\ [Next]_vars => CallInv'
<1>. SUFFICES ASSUME CallInv, [Next]_vars PROVE CallInv'
  OBVIOUS
<1>. USE CallsAssumption, NoneAssumption DEF CallInv
<1>1. CASE Insert
  <2>1. TypeOK'
    BY <1>1 DEF Insert, TypeOK, TwilioStatuses
  <2>2. EndIsKnown'
    BY <1>1 DEF Insert, TypeOK, EndIsKnown, Ended, SameStart
  <2>3. SummaryFollowsEnd'
    BY <1>1 DEF Insert, TypeOK, SummaryFollowsEnd, Ended, SameStart, EndIsKnown, ActionsHaveTurns, Deliveries
  <2>4. OutcomeNeedsEnd'
    BY <1>1 DEF Insert, TypeOK, OutcomeNeedsEnd, Ended, SummaryFollowsEnd
  <2>5. ActionsHaveTurns'
    BY <1>1 DEF Insert, TypeOK, ActionsHaveTurns
  <2>6. RelayHasRow'
    BY <1>1 DEF Insert, TypeOK, RelayHasRow, TurnHasRelay
  <2>7. TurnHasRelay'
    BY <1>1 DEF Insert, TypeOK, TurnHasRelay
  <2>8. TurnIsNumbered'
    BY <1>1 DEF Insert, TypeOK, TurnIsNumbered, NoTurn
  <2>9. RowIsPlaced'
    BY <1>1 DEF Insert, TypeOK, RowIsPlaced, RelayHasRow, TurnHasRelay, SummaryFollowsEnd, Ended
  <2>10. FailedHasReason'
    BY <1>1 DEF Insert, TypeOK, FailedHasReason
  <2>11. FirstOutcomeStands'
    BY <1>1 DEF Insert, TypeOK, FirstOutcomeStands, EndIsKnown, Ended, SameStart, SummaryFollowsEnd, OutcomeNeedsEnd
  <2>. QED
    BY <2>1, <2>2, <2>3, <2>4, <2>5, <2>6, <2>7, <2>8, <2>9, <2>10, <2>11
<1>2. CASE Dial
  <2>1. TypeOK'
    BY <1>2 DEF Dial, TypeOK, TwilioStatuses
  <2>2. EndIsKnown'
    BY <1>2 DEF Dial, TypeOK, EndIsKnown, Ended, SameStart
  <2>3. SummaryFollowsEnd'
    BY <1>2 DEF Dial, TypeOK, SummaryFollowsEnd, Ended, SameStart, EndIsKnown, ActionsHaveTurns, Deliveries
  <2>4. OutcomeNeedsEnd'
    BY <1>2 DEF Dial, TypeOK, OutcomeNeedsEnd, Ended, SummaryFollowsEnd
  <2>5. ActionsHaveTurns'
    BY <1>2 DEF Dial, TypeOK, ActionsHaveTurns
  <2>6. RelayHasRow'
    BY <1>2 DEF Dial, TypeOK, RelayHasRow, TurnHasRelay
  <2>7. TurnHasRelay'
    BY <1>2 DEF Dial, TypeOK, TurnHasRelay
  <2>8. TurnIsNumbered'
    BY <1>2 DEF Dial, TypeOK, TurnIsNumbered, NoTurn
  <2>9. RowIsPlaced'
    BY <1>2 DEF Dial, TypeOK, RowIsPlaced, RelayHasRow, TurnHasRelay, SummaryFollowsEnd, Ended
  <2>10. FailedHasReason'
    BY <1>2 DEF Dial, TypeOK, FailedHasReason
  <2>11. FirstOutcomeStands'
    BY <1>2 DEF Dial, TypeOK, FirstOutcomeStands, EndIsKnown, Ended, SameStart, SummaryFollowsEnd, OutcomeNeedsEnd
  <2>. QED
    BY <2>1, <2>2, <2>3, <2>4, <2>5, <2>6, <2>7, <2>8, <2>9, <2>10, <2>11
<1>3. CASE DialRaises
  <2>1. TypeOK'
    BY <1>3 DEF DialRaises, TypeOK, TwilioStatuses
  <2>2. EndIsKnown'
    BY <1>3 DEF DialRaises, TypeOK, EndIsKnown, Ended, SameStart
  <2>3. SummaryFollowsEnd'
    BY <1>3 DEF DialRaises, TypeOK, SummaryFollowsEnd, Ended, SameStart, EndIsKnown, ActionsHaveTurns, Deliveries
  <2>4. OutcomeNeedsEnd'
    BY <1>3 DEF DialRaises, TypeOK, OutcomeNeedsEnd, Ended, SummaryFollowsEnd
  <2>5. ActionsHaveTurns'
    BY <1>3 DEF DialRaises, TypeOK, ActionsHaveTurns
  <2>6. RelayHasRow'
    BY <1>3 DEF DialRaises, TypeOK, RelayHasRow, TurnHasRelay
  <2>7. TurnHasRelay'
    BY <1>3 DEF DialRaises, TypeOK, TurnHasRelay
  <2>8. TurnIsNumbered'
    BY <1>3 DEF DialRaises, TypeOK, TurnIsNumbered, NoTurn
  <2>9. RowIsPlaced'
    BY <1>3 DEF DialRaises, TypeOK, RowIsPlaced, RelayHasRow, TurnHasRelay, SummaryFollowsEnd, Ended
  <2>10. FailedHasReason'
    BY <1>3 DEF DialRaises, TypeOK, FailedHasReason
  <2>11. FirstOutcomeStands'
    BY <1>3 DEF DialRaises, TypeOK, FirstOutcomeStands, EndIsKnown, Ended, SameStart, SummaryFollowsEnd, OutcomeNeedsEnd
  <2>. QED
    BY <2>1, <2>2, <2>3, <2>4, <2>5, <2>6, <2>7, <2>8, <2>9, <2>10, <2>11
<1>4. CASE CommitCall
  <2>r. row = None /\ row' = NewCall(request = "commit") /\ request' = "done"
    BY <1>4 DEF CommitCall, RowIsPlaced
  <2>f. /\ row' \in CallRows /\ row' # None
        /\ row'.ended = None /\ row'.outcome = None
        /\ row'.status = "queued" /\ row'.actions = << >>
    BY <2>r, CommittedRow
  <2>1. TypeOK'
    BY <1>4, <2>r, <2>f DEF CommitCall, TypeOK, TwilioStatuses
  <2>2. EndIsKnown'
    BY <1>4, <2>r, <2>f DEF CommitCall, TypeOK, EndIsKnown, Ended, SameStart
  <2>3. SummaryFollowsEnd'
    BY <1>4, <2>r, <2>f DEF CommitCall, TypeOK, SummaryFollowsEnd, Ended, SameStart, EndIsKnown, ActionsHaveTurns, Deliveries
  <2>4. OutcomeNeedsEnd'
    BY <1>4, <2>r, <2>f DEF CommitCall, TypeOK, OutcomeNeedsEnd, Ended, SummaryFollowsEnd
  <2>5. ActionsHaveTurns'
    BY <1>4, <2>r, <2>f DEF CommitCall, TypeOK, ActionsHaveTurns
  <2>6. RelayHasRow'
    BY <1>4, <2>r, <2>f DEF CommitCall, TypeOK, RelayHasRow, TurnHasRelay
  <2>7. TurnHasRelay'
    BY <1>4, <2>r, <2>f DEF CommitCall, TypeOK, TurnHasRelay
  <2>8. TurnIsNumbered'
    BY <1>4, <2>r, <2>f DEF CommitCall, TypeOK, TurnIsNumbered, NoTurn
  <2>9. RowIsPlaced'
    BY <1>4, <2>r, <2>f DEF CommitCall, TypeOK, RowIsPlaced, RelayHasRow, TurnHasRelay, SummaryFollowsEnd, Ended
  <2>10. FailedHasReason'
    BY <1>4, <2>r, <2>f DEF CommitCall, TypeOK, FailedHasReason
  <2>11. FirstOutcomeStands'
    BY <1>4, <2>r, <2>f DEF CommitCall, TypeOK, FirstOutcomeStands, EndIsKnown, Ended, SameStart, SummaryFollowsEnd, OutcomeNeedsEnd
  <2>. QED
    BY <2>1, <2>2, <2>3, <2>4, <2>5, <2>6, <2>7, <2>8, <2>9, <2>10, <2>11
<1>5. ASSUME NEW s \in TwilioStatuses, Proceeds(s) PROVE CallInv'
  <2>1. TypeOK'
    BY <1>5 DEF Proceeds, TypeOK, TwilioStatuses
  <2>2. EndIsKnown'
    BY <1>5 DEF Proceeds, TypeOK, EndIsKnown, Ended, SameStart
  <2>3. SummaryFollowsEnd'
    BY <1>5 DEF Proceeds, TypeOK, SummaryFollowsEnd, Ended, SameStart, EndIsKnown, ActionsHaveTurns, Deliveries
  <2>4. OutcomeNeedsEnd'
    BY <1>5 DEF Proceeds, TypeOK, OutcomeNeedsEnd, Ended, SummaryFollowsEnd
  <2>5. ActionsHaveTurns'
    BY <1>5 DEF Proceeds, TypeOK, ActionsHaveTurns
  <2>6. RelayHasRow'
    BY <1>5 DEF Proceeds, TypeOK, RelayHasRow, TurnHasRelay
  <2>7. TurnHasRelay'
    BY <1>5 DEF Proceeds, TypeOK, TurnHasRelay
  <2>8. TurnIsNumbered'
    BY <1>5 DEF Proceeds, TypeOK, TurnIsNumbered, NoTurn
  <2>9. RowIsPlaced'
    BY <1>5 DEF Proceeds, TypeOK, RowIsPlaced, RelayHasRow, TurnHasRelay, SummaryFollowsEnd, Ended
  <2>10. FailedHasReason'
    BY <1>5 DEF Proceeds, TypeOK, FailedHasReason
  <2>11. FirstOutcomeStands'
    BY <1>5 DEF Proceeds, TypeOK, FirstOutcomeStands, EndIsKnown, Ended, SameStart, SummaryFollowsEnd, OutcomeNeedsEnd
  <2>. QED
    BY <2>1, <2>2, <2>3, <2>4, <2>5, <2>6, <2>7, <2>8, <2>9, <2>10, <2>11
<1>6. ASSUME NEW s \in TwilioStatuses, HandleCallback(s) PROVE CallInv'
  <2>r. row \in CallRows /\ row # None /\ handled \in Nat /\ row' = StatusReported(row, s)
    BY <1>6 DEF HandleCallback, KnownCall, TypeOK
  <2>f. /\ row' \in CallRows /\ row' # None
        /\ row'.actions = row.actions /\ row'.transcript = row.transcript
        /\ row'.outcome = row.outcome
        /\ row.ended # None => row'.ended = row.ended
        /\ s \in TERMINAL_TWILIO_STATUSES => row'.ended # None
        /\ row'.status = "failed" => row'.reason # None /\ row'.ended # None
    BY <2>r, ReportedRow
  <2>s. row.actions \in Seq(ToolOutcomes)
    BY <2>r DEF CallRows
  <2>1. TypeOK'
    <3>1. handled + 1 \in Deliveries /\ handled + 1 \in 0..MaxDeliveries
      BY <1>6 DEF HandleCallback, Deliveries, TypeOK
    <3>2. PICK p \in {"check", "done"} : job' = [job EXCEPT ![handled + 1].pc = p]
      BY <1>6 DEF HandleCallback
    <3>3. job' \in [Deliveries ->
            [pc : {"none", "check", "spawned", "summarises", "wrote", "done"}, seen : Stored]]
      BY <3>1, <3>2, JobStep
    <3>4. atEnd' \in Seq(ToolOutcomes) \cup {None}
      BY <1>6, <2>s DEF HandleCallback, TypeOK
    <3>. QED
      BY <1>6, <2>f, <3>1, <3>3, <3>4 DEF HandleCallback, TypeOK
  <2>2. EndIsKnown'
    BY <1>6, <2>r, <2>f, <2>s DEF HandleCallback, TypeOK, EndIsKnown, Ended, SameStart
  <2>3. SummaryFollowsEnd'
    BY <1>6, <2>r, <2>f, <2>s DEF HandleCallback, TypeOK, SummaryFollowsEnd, Ended, SameStart, EndIsKnown, ActionsHaveTurns, Deliveries
  <2>4. OutcomeNeedsEnd'
    BY <1>6, <2>r, <2>f, <2>s DEF HandleCallback, TypeOK, OutcomeNeedsEnd, Ended, SummaryFollowsEnd
  <2>5. ActionsHaveTurns'
    BY <1>6, <2>r, <2>f, <2>s DEF HandleCallback, TypeOK, ActionsHaveTurns
  <2>6. RelayHasRow'
    BY <1>6, <2>r, <2>f, <2>s DEF HandleCallback, TypeOK, RelayHasRow, TurnHasRelay
  <2>7. TurnHasRelay'
    BY <1>6, <2>r, <2>f, <2>s DEF HandleCallback, TypeOK, TurnHasRelay
  <2>8. TurnIsNumbered'
    BY <1>6, <2>r, <2>f, <2>s DEF HandleCallback, TypeOK, TurnIsNumbered, NoTurn
  <2>9. RowIsPlaced'
    BY <1>6, <2>r, <2>f, <2>s DEF HandleCallback, TypeOK, RowIsPlaced, RelayHasRow, TurnHasRelay, SummaryFollowsEnd, Ended
  <2>10. FailedHasReason'
    BY <1>6, <2>r, <2>f, <2>s DEF HandleCallback, TypeOK, FailedHasReason
  <2>11. FirstOutcomeStands'
    BY <1>6, <2>r, <2>f, <2>s DEF HandleCallback, TypeOK, FirstOutcomeStands, EndIsKnown, Ended, SameStart, SummaryFollowsEnd, OutcomeNeedsEnd
  <2>. QED
    BY <2>1, <2>2, <2>3, <2>4, <2>5, <2>6, <2>7, <2>8, <2>9, <2>10, <2>11
<1>7. ASSUME NEW s \in TwilioStatuses, RejectCallback(s) PROVE CallInv'
  <2>1. TypeOK'
    BY <1>7 DEF RejectCallback, TypeOK, TwilioStatuses
  <2>2. EndIsKnown'
    BY <1>7 DEF RejectCallback, TypeOK, EndIsKnown, Ended, SameStart
  <2>3. SummaryFollowsEnd'
    BY <1>7 DEF RejectCallback, TypeOK, SummaryFollowsEnd, Ended, SameStart, EndIsKnown, ActionsHaveTurns, Deliveries
  <2>4. OutcomeNeedsEnd'
    BY <1>7 DEF RejectCallback, TypeOK, OutcomeNeedsEnd, Ended, SummaryFollowsEnd
  <2>5. ActionsHaveTurns'
    BY <1>7 DEF RejectCallback, TypeOK, ActionsHaveTurns
  <2>6. RelayHasRow'
    BY <1>7 DEF RejectCallback, TypeOK, RelayHasRow, TurnHasRelay
  <2>7. TurnHasRelay'
    BY <1>7 DEF RejectCallback, TypeOK, TurnHasRelay
  <2>8. TurnIsNumbered'
    BY <1>7 DEF RejectCallback, TypeOK, TurnIsNumbered, NoTurn
  <2>9. RowIsPlaced'
    BY <1>7 DEF RejectCallback, TypeOK, RowIsPlaced, RelayHasRow, TurnHasRelay, SummaryFollowsEnd, Ended
  <2>10. FailedHasReason'
    BY <1>7 DEF RejectCallback, TypeOK, FailedHasReason
  <2>11. FirstOutcomeStands'
    BY <1>7 DEF RejectCallback, TypeOK, FirstOutcomeStands, EndIsKnown, Ended, SameStart, SummaryFollowsEnd, OutcomeNeedsEnd
  <2>. QED
    BY <2>1, <2>2, <2>3, <2>4, <2>5, <2>6, <2>7, <2>8, <2>9, <2>10, <2>11
<1>8. ASSUME NEW i \in Deliveries, Spawn(i) PROVE CallInv'
  <2>1. TypeOK'
    <3>1. PICK p \in {"spawned", "done"} : job' = [job EXCEPT ![i].pc = p]
      BY <1>8 DEF Spawn, Step
    <3>2. job' \in [Deliveries ->
            [pc : {"none", "check", "spawned", "summarises", "wrote", "done"}, seen : Stored]]
      BY <3>1, JobStep
    <3>. QED
      BY <1>8, <3>2 DEF Spawn, TypeOK
  <2>2. EndIsKnown'
    BY <1>8 DEF Spawn, Step, TypeOK, EndIsKnown, Ended, SameStart
  <2>3. SummaryFollowsEnd'
    BY <1>8 DEF Spawn, Step, TypeOK, SummaryFollowsEnd, Ended, SameStart, EndIsKnown, ActionsHaveTurns, Deliveries
  <2>4. OutcomeNeedsEnd'
    BY <1>8 DEF Spawn, Step, TypeOK, OutcomeNeedsEnd, Ended, SummaryFollowsEnd
  <2>5. ActionsHaveTurns'
    BY <1>8 DEF Spawn, Step, TypeOK, ActionsHaveTurns
  <2>6. RelayHasRow'
    BY <1>8 DEF Spawn, Step, TypeOK, RelayHasRow, TurnHasRelay
  <2>7. TurnHasRelay'
    BY <1>8 DEF Spawn, Step, TypeOK, TurnHasRelay
  <2>8. TurnIsNumbered'
    BY <1>8 DEF Spawn, Step, TypeOK, TurnIsNumbered, NoTurn
  <2>9. RowIsPlaced'
    BY <1>8 DEF Spawn, Step, TypeOK, RowIsPlaced, RelayHasRow, TurnHasRelay, SummaryFollowsEnd, Ended
  <2>10. FailedHasReason'
    BY <1>8 DEF Spawn, Step, TypeOK, FailedHasReason
  <2>11. FirstOutcomeStands'
    BY <1>8 DEF Spawn, Step, TypeOK, FirstOutcomeStands, EndIsKnown, Ended, SameStart, SummaryFollowsEnd, OutcomeNeedsEnd
  <2>. QED
    BY <2>1, <2>2, <2>3, <2>4, <2>5, <2>6, <2>7, <2>8, <2>9, <2>10, <2>11
<1>9. ASSUME NEW i \in Deliveries, ThreadReads(i) PROVE CallInv'
  <2>1. TypeOK'
    <3>1. row \in CallRows
      BY <1>9 DEF ThreadReads, Asked, TypeOK, SummaryFollowsEnd, Ended
    <3>2. [transcript |-> row.transcript, actions |-> row.actions] \in Stored
      BY <3>1 DEF CallRows, Stored
    <3>3. job[i] \in [pc : {"none", "check", "spawned", "summarises", "wrote", "done"}, seen : Stored]
      BY DEF TypeOK
    <3>. QED
      BY <1>9, <3>2, <3>3 DEF ThreadReads, Asked, TypeOK
  <2>2. EndIsKnown'
    BY <1>9 DEF ThreadReads, Asked, TypeOK, EndIsKnown, Ended, SameStart
  <2>3. SummaryFollowsEnd'
    BY <1>9 DEF ThreadReads, Asked, TypeOK, SummaryFollowsEnd, Ended, SameStart, EndIsKnown, ActionsHaveTurns, Deliveries
  <2>4. OutcomeNeedsEnd'
    BY <1>9 DEF ThreadReads, Asked, TypeOK, OutcomeNeedsEnd, Ended, SummaryFollowsEnd
  <2>5. ActionsHaveTurns'
    BY <1>9 DEF ThreadReads, Asked, TypeOK, ActionsHaveTurns
  <2>6. RelayHasRow'
    BY <1>9 DEF ThreadReads, Asked, TypeOK, RelayHasRow, TurnHasRelay
  <2>7. TurnHasRelay'
    BY <1>9 DEF ThreadReads, Asked, TypeOK, TurnHasRelay
  <2>8. TurnIsNumbered'
    BY <1>9 DEF ThreadReads, Asked, TypeOK, TurnIsNumbered, NoTurn
  <2>9. RowIsPlaced'
    BY <1>9 DEF ThreadReads, Asked, TypeOK, RowIsPlaced, RelayHasRow, TurnHasRelay, SummaryFollowsEnd, Ended
  <2>10. FailedHasReason'
    BY <1>9 DEF ThreadReads, Asked, TypeOK, FailedHasReason
  <2>11. FirstOutcomeStands'
    BY <1>9 DEF ThreadReads, Asked, TypeOK, FirstOutcomeStands, EndIsKnown, Ended, SameStart, SummaryFollowsEnd, OutcomeNeedsEnd
  <2>. QED
    BY <2>1, <2>2, <2>3, <2>4, <2>5, <2>6, <2>7, <2>8, <2>9, <2>10, <2>11
<1>10. ASSUME NEW i \in Deliveries, ThreadWrites(i) PROVE CallInv'
  <2>r. row \in CallRows /\ row # None /\ job[i].pc = "summarises"
    BY <1>10 DEF ThreadWrites, Step, SummaryFollowsEnd, Ended, TypeOK
  <2>o. PICK o \in ResolutionStatuses(job[i].seen) : row' = [row EXCEPT !.outcome = o]
    BY <1>10 DEF ThreadWrites
  <2>s. job[i].seen \in Stored
    BY DEF TypeOK
  <2>p. o \in OUTCOME_STATUSES /\ (job[i].seen.actions # << >> /\ job[i].seen.transcript # << >>
                                    => o \in {job[i].seen.actions[1], "unknown"})
    BY <2>o, <2>s, ResolutionStatusesType
  <2>f. /\ row' \in CallRows /\ row' # None
        /\ row'.actions = row.actions /\ row'.transcript = row.transcript
        /\ row'.ended = row.ended /\ row'.reason = row.reason /\ row'.status = row.status
        /\ row'.outcome = o
    BY <2>r, <2>o, <2>p, SummarisedRow
  <2>1. TypeOK'
    <3>1. job' \in [Deliveries ->
            [pc : {"none", "check", "spawned", "summarises", "wrote", "done"}, seen : Stored]]
      BY <1>10, JobStep DEF ThreadWrites, Step
    <3>. QED
      BY <1>10, <2>f, <3>1 DEF ThreadWrites, TypeOK
  <2>2. EndIsKnown'
    BY <1>10, <2>r, <2>f, <2>o, <2>p DEF ThreadWrites, Step, TypeOK, EndIsKnown, Ended, SameStart
  <2>3. SummaryFollowsEnd'
    BY <1>10, <2>r, <2>f, <2>o, <2>p DEF ThreadWrites, Step, TypeOK, SummaryFollowsEnd, Ended, SameStart, EndIsKnown, ActionsHaveTurns, Deliveries
  <2>4. OutcomeNeedsEnd'
    BY <1>10, <2>r, <2>f, <2>o, <2>p DEF ThreadWrites, Step, TypeOK, OutcomeNeedsEnd, Ended, SummaryFollowsEnd
  <2>5. ActionsHaveTurns'
    BY <1>10, <2>r, <2>f, <2>o, <2>p DEF ThreadWrites, Step, TypeOK, ActionsHaveTurns
  <2>6. RelayHasRow'
    BY <1>10, <2>r, <2>f, <2>o, <2>p DEF ThreadWrites, Step, TypeOK, RelayHasRow, TurnHasRelay
  <2>7. TurnHasRelay'
    BY <1>10, <2>r, <2>f, <2>o, <2>p DEF ThreadWrites, Step, TypeOK, TurnHasRelay
  <2>8. TurnIsNumbered'
    BY <1>10, <2>r, <2>f, <2>o, <2>p DEF ThreadWrites, Step, TypeOK, TurnIsNumbered, NoTurn
  <2>9. RowIsPlaced'
    BY <1>10, <2>r, <2>f, <2>o, <2>p DEF ThreadWrites, Step, TypeOK, RowIsPlaced, RelayHasRow, TurnHasRelay, SummaryFollowsEnd, Ended
  <2>10. FailedHasReason'
    BY <1>10, <2>r, <2>f, <2>o, <2>p DEF ThreadWrites, Step, TypeOK, FailedHasReason
  <2>11. FirstOutcomeStands'
    BY <1>10, <2>r, <2>f, <2>o, <2>p DEF ThreadWrites, Step, TypeOK, FirstOutcomeStands, EndIsKnown, Ended, SameStart, SummaryFollowsEnd, OutcomeNeedsEnd
  <2>. QED
    BY <2>1, <2>2, <2>3, <2>4, <2>5, <2>6, <2>7, <2>8, <2>9, <2>10, <2>11
<1>11. CASE RelayAccepts
  <2>1. TypeOK'
    <3>1. row.status \in CallStatus
      BY <1>11 DEF RelayAccepts, KnownCall, TypeOK, CallRows
    <3>. QED
      BY <1>11, <3>1 DEF RelayAccepts, TypeOK
  <2>2. EndIsKnown'
    BY <1>11 DEF RelayAccepts, KnownCall, TypeOK, EndIsKnown, Ended, SameStart
  <2>3. SummaryFollowsEnd'
    BY <1>11 DEF RelayAccepts, KnownCall, TypeOK, SummaryFollowsEnd, Ended, SameStart, EndIsKnown, ActionsHaveTurns, Deliveries
  <2>4. OutcomeNeedsEnd'
    BY <1>11 DEF RelayAccepts, KnownCall, TypeOK, OutcomeNeedsEnd, Ended, SummaryFollowsEnd
  <2>5. ActionsHaveTurns'
    BY <1>11 DEF RelayAccepts, KnownCall, TypeOK, ActionsHaveTurns
  <2>6. RelayHasRow'
    BY <1>11 DEF RelayAccepts, KnownCall, TypeOK, RelayHasRow, TurnHasRelay
  <2>7. TurnHasRelay'
    BY <1>11 DEF RelayAccepts, KnownCall, TypeOK, TurnHasRelay
  <2>8. TurnIsNumbered'
    BY <1>11 DEF RelayAccepts, KnownCall, TypeOK, TurnIsNumbered, NoTurn
  <2>9. RowIsPlaced'
    BY <1>11 DEF RelayAccepts, KnownCall, TypeOK, RowIsPlaced, RelayHasRow, TurnHasRelay, SummaryFollowsEnd, Ended
  <2>10. FailedHasReason'
    BY <1>11 DEF RelayAccepts, KnownCall, TypeOK, FailedHasReason
  <2>11. FirstOutcomeStands'
    BY <1>11 DEF RelayAccepts, KnownCall, TypeOK, FirstOutcomeStands, EndIsKnown, Ended, SameStart, SummaryFollowsEnd, OutcomeNeedsEnd
  <2>. QED
    BY <2>1, <2>2, <2>3, <2>4, <2>5, <2>6, <2>7, <2>8, <2>9, <2>10, <2>11
<1>12. CASE StartConversation
  <2>r. row \in CallRows /\ row # None
    BY <1>12 DEF StartConversation, RelayHasRow, TypeOK
  <2>f. /\ row' \in CallRows /\ row' # None
        /\ row'.actions = row.actions /\ row'.transcript = row.transcript
        /\ row'.ended = row.ended /\ row'.reason = row.reason /\ row'.outcome = row.outcome
        /\ row'.status = "failed" => row.status = "failed"
    BY <1>12, <2>r, StartedRow DEF StartConversation
  <2>1. TypeOK'
    BY <1>12, <2>r, <2>f DEF StartConversation, TypeOK, TwilioStatuses
  <2>2. EndIsKnown'
    BY <1>12, <2>r, <2>f DEF StartConversation, TypeOK, EndIsKnown, Ended, SameStart
  <2>3. SummaryFollowsEnd'
    BY <1>12, <2>r, <2>f DEF StartConversation, TypeOK, SummaryFollowsEnd, Ended, SameStart, EndIsKnown, ActionsHaveTurns, Deliveries
  <2>4. OutcomeNeedsEnd'
    BY <1>12, <2>r, <2>f DEF StartConversation, TypeOK, OutcomeNeedsEnd, Ended, SummaryFollowsEnd
  <2>5. ActionsHaveTurns'
    BY <1>12, <2>r, <2>f DEF StartConversation, TypeOK, ActionsHaveTurns
  <2>6. RelayHasRow'
    BY <1>12, <2>r, <2>f DEF StartConversation, TypeOK, RelayHasRow, TurnHasRelay
  <2>7. TurnHasRelay'
    BY <1>12, <2>r, <2>f DEF StartConversation, TypeOK, TurnHasRelay
  <2>8. TurnIsNumbered'
    BY <1>12, <2>r, <2>f DEF StartConversation, TypeOK, TurnIsNumbered, NoTurn
  <2>9. RowIsPlaced'
    BY <1>12, <2>r, <2>f DEF StartConversation, TypeOK, RowIsPlaced, RelayHasRow, TurnHasRelay, SummaryFollowsEnd, Ended
  <2>10. FailedHasReason'
    BY <1>12, <2>r, <2>f DEF StartConversation, TypeOK, FailedHasReason
  <2>11. FirstOutcomeStands'
    BY <1>12, <2>r, <2>f DEF StartConversation, TypeOK, FirstOutcomeStands, EndIsKnown, Ended, SameStart, SummaryFollowsEnd, OutcomeNeedsEnd
  <2>. QED
    BY <2>1, <2>2, <2>3, <2>4, <2>5, <2>6, <2>7, <2>8, <2>9, <2>10, <2>11
<1>13. CASE RelayCloses
  <2>1. TypeOK'
    BY <1>13 DEF RelayCloses, TypeOK, TwilioStatuses
  <2>2. EndIsKnown'
    BY <1>13 DEF RelayCloses, TypeOK, EndIsKnown, Ended, SameStart
  <2>3. SummaryFollowsEnd'
    BY <1>13 DEF RelayCloses, TypeOK, SummaryFollowsEnd, Ended, SameStart, EndIsKnown, ActionsHaveTurns, Deliveries
  <2>4. OutcomeNeedsEnd'
    BY <1>13 DEF RelayCloses, TypeOK, OutcomeNeedsEnd, Ended, SummaryFollowsEnd
  <2>5. ActionsHaveTurns'
    BY <1>13 DEF RelayCloses, TypeOK, ActionsHaveTurns
  <2>6. RelayHasRow'
    BY <1>13 DEF RelayCloses, TypeOK, RelayHasRow, TurnHasRelay
  <2>7. TurnHasRelay'
    BY <1>13 DEF RelayCloses, TypeOK, TurnHasRelay
  <2>8. TurnIsNumbered'
    BY <1>13 DEF RelayCloses, TypeOK, TurnIsNumbered, NoTurn
  <2>9. RowIsPlaced'
    BY <1>13 DEF RelayCloses, TypeOK, RowIsPlaced, RelayHasRow, TurnHasRelay, SummaryFollowsEnd, Ended
  <2>10. FailedHasReason'
    BY <1>13 DEF RelayCloses, TypeOK, FailedHasReason
  <2>11. FirstOutcomeStands'
    BY <1>13 DEF RelayCloses, TypeOK, FirstOutcomeStands, EndIsKnown, Ended, SameStart, SummaryFollowsEnd, OutcomeNeedsEnd
  <2>. QED
    BY <2>1, <2>2, <2>3, <2>4, <2>5, <2>6, <2>7, <2>8, <2>9, <2>10, <2>11
<1>14. ASSUME NEW n \in 1..MaxTurns, StartTurn(n) PROVE CallInv'
  <2>1. TypeOK'
    BY <1>14 DEF StartTurn, NoTurn, TypeOK, TwilioStatuses
  <2>2. EndIsKnown'
    BY <1>14 DEF StartTurn, NoTurn, TypeOK, EndIsKnown, Ended, SameStart
  <2>3. SummaryFollowsEnd'
    BY <1>14 DEF StartTurn, NoTurn, TypeOK, SummaryFollowsEnd, Ended, SameStart, EndIsKnown, ActionsHaveTurns, Deliveries
  <2>4. OutcomeNeedsEnd'
    BY <1>14 DEF StartTurn, NoTurn, TypeOK, OutcomeNeedsEnd, Ended, SummaryFollowsEnd
  <2>5. ActionsHaveTurns'
    BY <1>14 DEF StartTurn, NoTurn, TypeOK, ActionsHaveTurns
  <2>6. RelayHasRow'
    BY <1>14 DEF StartTurn, NoTurn, TypeOK, RelayHasRow, TurnHasRelay
  <2>7. TurnHasRelay'
    BY <1>14 DEF StartTurn, NoTurn, TypeOK, TurnHasRelay
  <2>8. TurnIsNumbered'
    BY <1>14 DEF StartTurn, NoTurn, TypeOK, TurnIsNumbered
  <2>9. RowIsPlaced'
    BY <1>14 DEF StartTurn, NoTurn, TypeOK, RowIsPlaced, RelayHasRow, TurnHasRelay, SummaryFollowsEnd, Ended
  <2>10. FailedHasReason'
    BY <1>14 DEF StartTurn, NoTurn, TypeOK, FailedHasReason
  <2>11. FirstOutcomeStands'
    BY <1>14 DEF StartTurn, NoTurn, TypeOK, FirstOutcomeStands, EndIsKnown, Ended, SameStart, SummaryFollowsEnd, OutcomeNeedsEnd
  <2>. QED
    BY <2>1, <2>2, <2>3, <2>4, <2>5, <2>6, <2>7, <2>8, <2>9, <2>10, <2>11
<1>15. ASSUME NEW o \in ToolOutcomes, ToolSucceeds(o) PROVE CallInv'
  <2>1. TypeOK'
    <3>1. << o >> \in Seq(ToolOutcomes)
      OBVIOUS
    <3>. QED
      BY <1>15, <3>1 DEF ToolSucceeds, TypeOK
  <2>2. EndIsKnown'
    BY <1>15 DEF ToolSucceeds, NoTurn, TypeOK, EndIsKnown, Ended, SameStart
  <2>3. SummaryFollowsEnd'
    BY <1>15 DEF ToolSucceeds, NoTurn, TypeOK, SummaryFollowsEnd, Ended, SameStart, EndIsKnown, ActionsHaveTurns, Deliveries
  <2>4. OutcomeNeedsEnd'
    BY <1>15 DEF ToolSucceeds, NoTurn, TypeOK, OutcomeNeedsEnd, Ended, SummaryFollowsEnd
  <2>5. ActionsHaveTurns'
    BY <1>15 DEF ToolSucceeds, NoTurn, TypeOK, ActionsHaveTurns
  <2>6. RelayHasRow'
    BY <1>15 DEF ToolSucceeds, NoTurn, TypeOK, RelayHasRow, TurnHasRelay
  <2>7. TurnHasRelay'
    BY <1>15 DEF ToolSucceeds, NoTurn, TypeOK, TurnHasRelay
  <2>8. TurnIsNumbered'
    BY <1>15 DEF ToolSucceeds, NoTurn, TypeOK, TurnIsNumbered
  <2>9. RowIsPlaced'
    BY <1>15 DEF ToolSucceeds, NoTurn, TypeOK, RowIsPlaced, RelayHasRow, TurnHasRelay, SummaryFollowsEnd, Ended
  <2>10. FailedHasReason'
    BY <1>15 DEF ToolSucceeds, NoTurn, TypeOK, FailedHasReason
  <2>11. FirstOutcomeStands'
    BY <1>15 DEF ToolSucceeds, NoTurn, TypeOK, FirstOutcomeStands, EndIsKnown, Ended, SameStart, SummaryFollowsEnd, OutcomeNeedsEnd
  <2>. QED
    BY <2>1, <2>2, <2>3, <2>4, <2>5, <2>6, <2>7, <2>8, <2>9, <2>10, <2>11
<1>16. CASE StoreTurn
  <2>r. row \in CallRows /\ row # None
    BY <1>16 DEF StoreTurn, RelayHasRow, TypeOK
  <2>n. turn.n \in Nat \cup {None} /\ turn.actions \in Seq(ToolOutcomes)
    BY DEF TypeOK
  <2>m. turn.n \in Nat
    BY <1>16, <2>n DEF StoreTurn, TurnIsNumbered
  <2>f. /\ row' \in CallRows /\ row' # None /\ row'.transcript # << >>
        /\ SameStart(row.actions, row'.actions)
        /\ row'.ended = row.ended /\ row'.reason = row.reason
        /\ row'.status = row.status /\ row'.outcome = row.outcome
    <3>1. row' = WithTurn(row, turn.n, turn.actions)
      BY <1>16 DEF StoreTurn, WithTurn
    <3>. QED
      BY <2>r, <2>n, <2>m, <3>1, StoredRow
  <2>1. TypeOK'
    BY <1>16, <2>r, <2>f DEF StoreTurn, NoTurn, TypeOK, TwilioStatuses
  <2>2. EndIsKnown'
    BY <1>16, <2>r, <2>f DEF StoreTurn, NoTurn, TypeOK, EndIsKnown, Ended, SameStart
  <2>3. SummaryFollowsEnd'
    BY <1>16, <2>r, <2>f DEF StoreTurn, NoTurn, TypeOK, SummaryFollowsEnd, Ended, SameStart, EndIsKnown, ActionsHaveTurns, Deliveries
  <2>4. OutcomeNeedsEnd'
    BY <1>16, <2>r, <2>f DEF StoreTurn, NoTurn, TypeOK, OutcomeNeedsEnd, Ended, SummaryFollowsEnd
  <2>5. ActionsHaveTurns'
    BY <1>16, <2>r, <2>f DEF StoreTurn, NoTurn, TypeOK, ActionsHaveTurns
  <2>6. RelayHasRow'
    BY <1>16, <2>r, <2>f DEF StoreTurn, NoTurn, TypeOK, RelayHasRow, TurnHasRelay
  <2>7. TurnHasRelay'
    BY <1>16, <2>r, <2>f DEF StoreTurn, NoTurn, TypeOK, TurnHasRelay
  <2>8. TurnIsNumbered'
    BY <1>16, <2>r, <2>f DEF StoreTurn, NoTurn, TypeOK, TurnIsNumbered
  <2>9. RowIsPlaced'
    BY <1>16, <2>r, <2>f DEF StoreTurn, NoTurn, TypeOK, RowIsPlaced, RelayHasRow, TurnHasRelay, SummaryFollowsEnd, Ended
  <2>10. FailedHasReason'
    BY <1>16, <2>r, <2>f DEF StoreTurn, NoTurn, TypeOK, FailedHasReason
  <2>11. FirstOutcomeStands'
    BY <1>16, <2>r, <2>f DEF StoreTurn, NoTurn, TypeOK, FirstOutcomeStands, EndIsKnown, Ended, SameStart, SummaryFollowsEnd, OutcomeNeedsEnd
  <2>. QED
    BY <2>1, <2>2, <2>3, <2>4, <2>5, <2>6, <2>7, <2>8, <2>9, <2>10, <2>11
<1>17. CASE LoseTurn
  <2>1. TypeOK'
    BY <1>17 DEF LoseTurn, NoTurn, TypeOK, TwilioStatuses
  <2>2. EndIsKnown'
    BY <1>17 DEF LoseTurn, NoTurn, TypeOK, EndIsKnown, Ended, SameStart
  <2>3. SummaryFollowsEnd'
    BY <1>17 DEF LoseTurn, NoTurn, TypeOK, SummaryFollowsEnd, Ended, SameStart, EndIsKnown, ActionsHaveTurns, Deliveries
  <2>4. OutcomeNeedsEnd'
    BY <1>17 DEF LoseTurn, NoTurn, TypeOK, OutcomeNeedsEnd, Ended, SummaryFollowsEnd
  <2>5. ActionsHaveTurns'
    BY <1>17 DEF LoseTurn, NoTurn, TypeOK, ActionsHaveTurns
  <2>6. RelayHasRow'
    BY <1>17 DEF LoseTurn, NoTurn, TypeOK, RelayHasRow, TurnHasRelay
  <2>7. TurnHasRelay'
    BY <1>17 DEF LoseTurn, NoTurn, TypeOK, TurnHasRelay
  <2>8. TurnIsNumbered'
    BY <1>17 DEF LoseTurn, NoTurn, TypeOK, TurnIsNumbered
  <2>9. RowIsPlaced'
    BY <1>17 DEF LoseTurn, NoTurn, TypeOK, RowIsPlaced, RelayHasRow, TurnHasRelay, SummaryFollowsEnd, Ended
  <2>10. FailedHasReason'
    BY <1>17 DEF LoseTurn, NoTurn, TypeOK, FailedHasReason
  <2>11. FirstOutcomeStands'
    BY <1>17 DEF LoseTurn, NoTurn, TypeOK, FirstOutcomeStands, EndIsKnown, Ended, SameStart, SummaryFollowsEnd, OutcomeNeedsEnd
  <2>. QED
    BY <2>1, <2>2, <2>3, <2>4, <2>5, <2>6, <2>7, <2>8, <2>9, <2>10, <2>11
<1>18. CASE ServerDies
  <2>1. TypeOK'
    <3>1. \A i \in Deliveries : job[i] \in
            [pc : {"none", "check", "spawned", "summarises", "wrote", "done"}, seen : Stored]
      BY DEF TypeOK
    <3>2. \A i \in Deliveries : [job[i] EXCEPT !.pc = "done"] \in
            [pc : {"none", "check", "spawned", "summarises", "wrote", "done"}, seen : Stored]
      BY <3>1
    <3>3. job' \in [Deliveries ->
            [pc : {"none", "check", "spawned", "summarises", "wrote", "done"}, seen : Stored]]
      BY <1>18, <3>1, <3>2 DEF ServerDies
    <3>4. << >> \in Seq(ToolOutcomes)
      OBVIOUS
    <3>. QED
      BY <1>18, <3>3, <3>4 DEF ServerDies, NoTurn, TypeOK
  <2>2. EndIsKnown'
    BY <1>18 DEF ServerDies, NoTurn, TypeOK, EndIsKnown, Ended, SameStart
  <2>3. SummaryFollowsEnd'
    BY <1>18 DEF ServerDies, NoTurn, TypeOK, SummaryFollowsEnd, Ended, SameStart, EndIsKnown, ActionsHaveTurns, Deliveries
  <2>4. OutcomeNeedsEnd'
    BY <1>18 DEF ServerDies, NoTurn, TypeOK, OutcomeNeedsEnd, Ended, SummaryFollowsEnd
  <2>5. ActionsHaveTurns'
    BY <1>18 DEF ServerDies, NoTurn, TypeOK, ActionsHaveTurns
  <2>6. RelayHasRow'
    BY <1>18 DEF ServerDies, NoTurn, TypeOK, RelayHasRow, TurnHasRelay
  <2>7. TurnHasRelay'
    BY <1>18 DEF ServerDies, NoTurn, TypeOK, TurnHasRelay
  <2>8. TurnIsNumbered'
    BY <1>18 DEF ServerDies, NoTurn, TypeOK, TurnIsNumbered
  <2>9. RowIsPlaced'
    BY <1>18 DEF ServerDies, NoTurn, TypeOK, RowIsPlaced, RelayHasRow, TurnHasRelay, SummaryFollowsEnd, Ended
  <2>10. FailedHasReason'
    BY <1>18 DEF ServerDies, NoTurn, TypeOK, FailedHasReason
  <2>11. FirstOutcomeStands'
    BY <1>18 DEF ServerDies, NoTurn, TypeOK, FirstOutcomeStands, EndIsKnown, Ended, SameStart, SummaryFollowsEnd, OutcomeNeedsEnd
  <2>. QED
    BY <2>1, <2>2, <2>3, <2>4, <2>5, <2>6, <2>7, <2>8, <2>9, <2>10, <2>11
<1>19. CASE UNCHANGED vars
  BY <1>19 DEF vars, Ended, TypeOK, EndIsKnown, SummaryFollowsEnd, OutcomeNeedsEnd, ActionsHaveTurns, RelayHasRow, TurnHasRelay, TurnIsNumbered, RowIsPlaced, FailedHasReason, FirstOutcomeStands
<1>. QED
  BY <1>1, <1>2, <1>3, <1>4, <1>5, <1>6, <1>7, <1>8, <1>9, <1>10, <1>11, <1>12, <1>13, <1>14, <1>15, <1>16, <1>17, <1>18, <1>19 DEF Next, Thread

(* A summary thread that had found no outcome.                             *)
Summarising == \E i \in Deliveries : job[i].pc = "summarises"

(* The handlers' rows are all that a step may make of the row.             *)
LEMMA EndAndTurnsStayNext ==
  ASSUME CallInv, [Next]_vars, row # None
  PROVE  /\ row.ended # None => row'.ended = row.ended
         /\ GrowsTo(row.transcript, row'.transcript)
         /\ GrowsTo(row.actions, row'.actions)
         /\ row.created_ticket # None => row'.created_ticket # None
         /\ row.outcome # None => row'.outcome # None
         /\ row.outcome # row'.outcome => Summarising
<1>. DEFINE Kept == /\ row.ended # None => row'.ended = row.ended
                    /\ GrowsTo(row.transcript, row'.transcript)
                    /\ GrowsTo(row.actions, row'.actions)
                    /\ row.created_ticket # None => row'.created_ticket # None
                    /\ row.outcome # None => row'.outcome # None
                    /\ row.outcome # row'.outcome => Summarising
<1>. SUFFICES Kept
  OBVIOUS
<1>r. row \in CallRows
  BY DEF CallInv, TypeOK
<1>t. row.transcript \in Seq(Nat) /\ row.actions \in Seq(ToolOutcomes)
  BY <1>r DEF CallRows
<1>g. GrowsTo(row.transcript, row.transcript) /\ GrowsTo(row.actions, row.actions)
  BY <1>t DEF GrowsTo
<1>1. CASE UNCHANGED row
  BY <1>1, <1>g
<1>2. CASE CommitCall
  BY <1>2 DEF CommitCall, CallInv, RowIsPlaced
<1>3. ASSUME NEW s \in TwilioStatuses, HandleCallback(s) PROVE Kept
  <2>1. handled \in Nat /\ row' = StatusReported(row, s)
    BY <1>3 DEF HandleCallback, CallInv, TypeOK
  <2>2. /\ row'.actions = row.actions /\ row'.transcript = row.transcript
        /\ row'.outcome = row.outcome /\ row'.created_ticket = row.created_ticket
        /\ row.ended # None => row'.ended = row.ended
    BY <2>1, <1>r, ReportedRow
  <2>. QED
    BY <2>2, <1>g
<1>4. ASSUME NEW i \in Deliveries, ThreadWrites(i) PROVE Kept
  <2>1. PICK o \in ResolutionStatuses(job[i].seen) : row' = [row EXCEPT !.outcome = o]
    BY <1>4 DEF ThreadWrites
  <2>2. job[i].seen \in Stored
    BY DEF CallInv, TypeOK
  <2>3. o \in OUTCOME_STATUSES
    BY <2>1, <2>2, ResolutionStatusesType
  <2>4. /\ row'.actions = row.actions /\ row'.transcript = row.transcript
        /\ row'.created_ticket = row.created_ticket /\ row'.ended = row.ended
        /\ row'.outcome # None
    BY <2>1, <2>3, <1>r, SummarisedRow
  <2>5. Summarising
    BY <1>4 DEF ThreadWrites, Step, Summarising
  <2>. QED
    BY <2>4, <2>5, <1>g
<1>5. CASE StartConversation
  <2>1. CASE row' = row
    BY <2>1, <1>1
  <2>2. CASE row' = [row EXCEPT !.status = "in_progress"]
    BY <2>2, <1>r, <1>g, StartedRow
  <2>. QED
    BY <1>5, <2>1, <2>2 DEF StartConversation
<1>6. CASE StoreTurn
  <2>1. turn.n \in Nat /\ turn.actions \in Seq(ToolOutcomes)
    BY <1>6 DEF StoreTurn, CallInv, TurnIsNumbered, TypeOK
  <2>2. row' = WithTurn(row, turn.n, turn.actions)
    BY <1>6 DEF StoreTurn, WithTurn
  <2>. QED
    BY <2>1, <2>2, <1>r, StoredRow
<1>7. CASE UNCHANGED vars
  BY <1>7, <1>1 DEF vars
<1>8. CASE Insert \/ Dial \/ DialRaises \/ RelayAccepts \/ RelayCloses \/ LoseTurn \/ ServerDies
  BY <1>8, <1>1 DEF Insert, Dial, DialRaises, RelayAccepts, RelayCloses, LoseTurn, ServerDies
<1>9. ASSUME NEW s \in TwilioStatuses, Proceeds(s) \/ RejectCallback(s) PROVE Kept
  BY <1>9, <1>1 DEF Proceeds, RejectCallback
<1>10. ASSUME NEW i \in Deliveries, Spawn(i) \/ ThreadReads(i) PROVE Kept
  BY <1>10, <1>1 DEF Spawn, ThreadReads, Asked
<1>11. ASSUME NEW n \in 1..MaxTurns, StartTurn(n) PROVE Kept
  BY <1>11, <1>1 DEF StartTurn
<1>12. ASSUME NEW o \in ToolOutcomes, ToolSucceeds(o) PROVE Kept
  BY <1>12, <1>1 DEF ToolSucceeds
<1>. HIDE DEF Kept
<1>. QED
  BY <1>2, <1>3, <1>4, <1>5, <1>6, <1>7, <1>8, <1>9, <1>10, <1>11, <1>12 DEF Next, Thread

(* CallInv holds of every reachable state.                                 *)
THEOREM CallInvariant == Spec => []CallInv
<1>. QED
  BY CallInvInit, CallInvNext, PTL DEF Spec

(* Every variable of a call has its type, and the status is one the        *)
(* dashboard knows whatever Twilio reports.                                *)
THEOREM CallTypeCorrect == Spec => []TypeOK
<1>1. CallInv => TypeOK
  BY DEF CallInv
<1>. QED
  BY <1>1, CallInvariant, PTL

(* A failed call has its reason and its end, in whatever order and however *)
(* often the callbacks come.                                               *)
THEOREM CallFailedHasReason == Spec => []FailedHasReason
<1>1. CallInv => FailedHasReason
  BY DEF CallInv
<1>. QED
  BY <1>1, CallInvariant, PTL

(* Whichever summary thread writes last, the outcome is the first one a    *)
(* tool stored before the call was ended, or unknown.                      *)
THEOREM CallFirstOutcomeStands == Spec => []FirstOutcomeStands
<1>1. CallInv => FirstOutcomeStands
  BY DEF CallInv
<1>. QED
  BY <1>1, CallInvariant, PTL

(* The end stamp, the turns and their actions stay, the mention of a       *)
(* ticket and an outcome are never emptied, and only a summary thread that *)
(* had found no outcome replaces one.                                      *)
THEOREM CallEndAndTurnsStay == Spec => EndAndTurnsStay
<1>1. CallInv /\ [Next]_vars =>
        [row # None =>
           /\ row.ended # None => row'.ended = row.ended
           /\ GrowsTo(row.transcript, row'.transcript)
           /\ GrowsTo(row.actions, row'.actions)
           /\ row.created_ticket # None => row'.created_ticket # None
           /\ row.outcome # None => row'.outcome # None
           /\ row.outcome # row'.outcome => \E i \in Deliveries : job[i].pc = "summarises"]_vars
  BY EndAndTurnsStayNext DEF Summarising
<1>. QED
  BY <1>1, CallInvariant, PTL DEF Spec, EndAndTurnsStay
-----------------------------------------------------------------------------
(* What SummarisedOnce needs: of the threads that have found no outcome    *)
(* and have still to write one, there is one at a time.                    *)
OneSummary ==
  \A i, j \in Deliveries : job[i].pc = "summarises" /\ job[j].pc = "summarises" => i = j

(* A summary under way is the first, and one that was written shows.       *)
SummaryInv ==
  /\ SummarisedOnce
  /\ \A i \in Deliveries :
       /\ job[i].pc = "summarises" => row # None /\ row.outcome = None
       /\ job[i].pc = "wrote" => row # None /\ row.outcome # None

(* A step that leaves the outcome alone starts no summary where there is   *)
(* one.                                                                    *)
LEMMA SummaryKept ==
  ASSUME SummaryInv, row # None => row' # None /\ row'.outcome = row.outcome,
         \A i \in Deliveries :
           /\ job'[i].pc = "summarises" =>
                job[i].pc = "summarises" \/ (row # None /\ row.outcome = None)
           /\ job'[i].pc = "wrote" => job[i].pc = "wrote"
  PROVE  SummaryInv'
BY DEF SummaryInv, SummarisedOnce

(* Every step keeps it, as long as two summaries do not overlap.           *)
LEMMA SummaryInvNext == CallInv /\ SummaryInv /\ OneSummary /\ [Next]_vars => SummaryInv'
<1>. SUFFICES ASSUME CallInv, SummaryInv, OneSummary, [Next]_vars PROVE SummaryInv'
  OBVIOUS
<1>r. row # None => row \in CallRows
  BY DEF CallInv, TypeOK
<1>j. job \in [Deliveries -> [pc : {"none", "check", "spawned", "summarises", "wrote", "done"},
                             seen : Stored]]
  BY DEF CallInv, TypeOK
<1>1. CASE UNCHANGED row /\ UNCHANGED job
  BY <1>1, SummaryKept
<1>2. CASE CommitCall
  BY <1>2, SummaryKept DEF CommitCall, CallInv, RowIsPlaced, SummaryInv
<1>3. ASSUME NEW s \in TwilioStatuses, HandleCallback(s) PROVE SummaryInv'
  <2>1. row \in CallRows /\ handled \in Nat /\ row' = StatusReported(row, s)
    BY <1>3, <1>r DEF HandleCallback, KnownCall, CallInv, TypeOK
  <2>2. row' # None /\ row'.outcome = row.outcome
    BY <2>1, ReportedRow
  <2>3. \A i \in Deliveries : job'[i].pc \in {job[i].pc, "check", "done"}
    BY <1>3, <1>j DEF HandleCallback
  <2>. QED
    BY <2>2, <2>3, SummaryKept
<1>4. ASSUME NEW i \in Deliveries, Spawn(i) PROVE SummaryInv'
  <2>1. \A k \in Deliveries : job'[k].pc \in {job[k].pc, "spawned", "done"}
    BY <1>4, <1>j DEF Spawn, Step
  <2>. QED
    BY <1>4, <2>1, SummaryKept DEF Spawn
<1>5. ASSUME NEW i \in Deliveries, ThreadReads(i) PROVE SummaryInv'
  <2>1. row # None
    BY <1>5 DEF ThreadReads, CallInv, SummaryFollowsEnd, Ended
  <2>2. \A k \in Deliveries :
          /\ job'[k].pc = "summarises" => job[k].pc = "summarises" \/ row.outcome = None
          /\ job'[k].pc = "wrote" => job[k].pc = "wrote"
    BY <1>5, <1>j DEF ThreadReads
  <2>. QED
    BY <1>5, <2>1, <2>2, SummaryKept DEF ThreadReads
<1>6. ASSUME NEW i \in Deliveries, ThreadWrites(i) PROVE SummaryInv'
  <2>1. row # None /\ row.outcome = None /\ row \in CallRows
    BY <1>6, <1>r DEF ThreadWrites, Step, SummaryInv
  <2>2. PICK o \in ResolutionStatuses(job[i].seen) : row' = [row EXCEPT !.outcome = o]
    BY <1>6 DEF ThreadWrites
  <2>3. row' # None /\ row'.outcome # None
    <3>1. o \in OUTCOME_STATUSES
      BY <2>2, <1>j, ResolutionStatusesType
    <3>. QED
      BY <2>1, <2>2, <3>1, SummarisedRow
  <2>4. \A k \in Deliveries : job[k].pc # "wrote" /\ (job[k].pc = "summarises" => k = i)
    BY <1>6, <2>1 DEF ThreadWrites, Step, SummaryInv, OneSummary
  <2>5. \A k \in Deliveries : job'[k].pc = IF k = i THEN "wrote" ELSE job[k].pc
    BY <1>6, <1>j DEF ThreadWrites, Step
  <2>. QED
    BY <2>3, <2>4, <2>5 DEF SummaryInv, SummarisedOnce
<1>7. CASE StartConversation
  <2>1. row \in CallRows
    BY <1>7, <1>r DEF StartConversation, CallInv, RelayHasRow
  <2>2. row' # None /\ row'.outcome = row.outcome
    BY <1>7, <1>r, <2>1, StartedRow, NoneAssumption DEF StartConversation
  <2>. QED
    BY <1>7, <2>2, SummaryKept DEF StartConversation
<1>8. CASE StoreTurn
  <2>1. row \in CallRows
    BY <1>8, <1>r DEF StoreTurn, CallInv, RelayHasRow
  <2>2. turn.n \in Nat /\ turn.actions \in Seq(ToolOutcomes)
    BY <1>8 DEF StoreTurn, CallInv, TurnIsNumbered, TypeOK
  <2>3. row' = WithTurn(row, turn.n, turn.actions)
    BY <1>8 DEF StoreTurn, WithTurn
  <2>4. row' # None /\ row'.outcome = row.outcome
    BY <2>1, <2>2, <2>3, StoredRow
  <2>. QED
    BY <1>8, <2>4, SummaryKept DEF StoreTurn
<1>9. CASE ServerDies
  <2>1. \A k \in Deliveries : job'[k].pc \in {job[k].pc, "done"}
    BY <1>9, <1>j DEF ServerDies
  <2>. QED
    BY <1>9, <2>1, SummaryKept DEF ServerDies
<1>10. CASE Insert \/ Dial \/ DialRaises \/ RelayAccepts \/ RelayCloses \/ LoseTurn \/ UNCHANGED vars
  BY <1>10, <1>1 DEF Insert, Dial, DialRaises, RelayAccepts, RelayCloses, LoseTurn, vars
<1>11. ASSUME NEW s \in TwilioStatuses, Proceeds(s) \/ RejectCallback(s) PROVE SummaryInv'
  BY <1>11, <1>1 DEF Proceeds, RejectCallback
<1>12. ASSUME NEW n \in 1..MaxTurns, StartTurn(n) PROVE SummaryInv'
  BY <1>12, <1>1 DEF StartTurn
<1>13. ASSUME NEW o \in ToolOutcomes, ToolSucceeds(o) PROVE SummaryInv'
  BY <1>13, <1>1 DEF ToolSucceeds
<1>. QED
  BY <1>2, <1>3, <1>4, <1>5, <1>6, <1>7, <1>8, <1>9, <1>10, <1>11, <1>12, <1>13 DEF Next, Thread

(* The summary is written once per call, as long as no two threads are     *)
(* between their check of the outcome and their write: the check that each *)
(* thread makes for itself covers every other repetition of a terminal     *)
(* callback (call_service.py:527, 561).                                     *)
THEOREM CallSummarisedOnce == Spec /\ []OneSummary => []SummarisedOnce
<1>1. Init => SummaryInv
  BY DEF Init, SummaryInv, SummarisedOnce
<1>2. SummaryInv => SummarisedOnce
  BY DEF SummaryInv
<1>. QED
  BY <1>1, <1>2, SummaryInvNext, CallInvariant, PTL DEF Spec
=============================================================================
