-------------------------------- MODULE Calls --------------------------------
(***************************************************************************)
(* One phone call and its calls row: the request that places it, Twilio's  *)
(* status callbacks (lost, repeated and in any order), the relay of the    *)
(* conversation with its turns, and the threads that summarise it. Each    *)
(* has a session of its own, and each writes its own columns only. The     *)
(* callback route and start_conversation run on the event loop of the one  *)
(* server process, without an await from load to commit; the relay loads   *)
(* the row before it awaits the setup message, and starts on that copy.    *)
(***************************************************************************)
EXTENDS Naturals, Sequences

CONSTANTS
  None,
  MaxDeliveries,  \* bound on the callbacks delivered
  MaxTurns,       \* bound on the turns of the conversation
  InTool          \* placed by create_ticket in a chat turn, not by request_call

ASSUME CallsAssumption ==
  /\ MaxDeliveries \in Nat /\ MaxTurns \in Nat /\ InTool \in BOOLEAN

VARIABLES
  request,   \* the request that places the call
  row,       \* the committed calls row, or None
  twilio,    \* the state of the call at Twilio
  sent,      \* the callbacks Twilio has sent so far
  handled,   \* the number of deliveries
  job,       \* job[i]: what the i-th delivery has still to do
  relay,     \* the websocket, with the status it loaded
  turn,      \* the turn under way: its number and its tool outcomes
  atEnd,     \* the tool outcomes stored when the call was first ended
  died       \* whether the server process was restarted

vars == <<request, row, twilio, sent, handled, job, relay, turn, atEnd, died>>

-----------------------------------------------------------------------------
CallStatus == {"queued", "ringing", "in_progress", "ended", "failed"}
NotConnected == {"busy", "failed", "no-answer", "canceled"}
TERMINAL_TWILIO_STATUSES == {"completed"} \cup NotConnected
TwilioStatuses == {"initiated", "ringing", "in-progress"} \cup TERMINAL_TWILIO_STATUSES
OUTCOME_STATUSES == {"resolved", "follow_up_required", "escalated", "unknown", "not_connected"}

Slip_Unmapped(s) == s

STATUS_FROM_TWILIO(s) ==
  CASE s = "initiated"    -> "queued"
    [] s = "ringing"      -> "ringing"
    [] s = "in-progress"  -> "in_progress"
    [] s = "completed"    -> "ended"
    [] s \in NotConnected -> "failed"

(* actions: the successful create_support_ticket ("escalated") and         *)
(* mark_issue_resolved ("resolved") calls of the turns stored.             *)
ToolOutcomes == {"escalated", "resolved"}
Stored == [ transcript : Seq(Nat), actions : Seq(ToolOutcomes) ]

CallRows ==
  [ sid : BOOLEAN, status : CallStatus, ended : Nat \cup {None},
    reason : NotConnected \cup {None}, transcript : Seq(Nat),
    actions : Seq(ToolOutcomes), created_ticket : Nat \cup {None},
    outcome : OUTCOME_STATUSES \cup {None} ]

(* None is no number, status, list or row.                                 *)
ASSUME NoneAssumption ==
  /\ None \notin Nat /\ None \notin TwilioStatuses /\ None \notin OUTCOME_STATUSES
  /\ None \notin Seq(ToolOutcomes) /\ None \notin CallRows

NewCall(sid) ==
  [ sid |-> sid, status |-> "queued", ended |-> None, reason |-> None,
    transcript |-> << >>, actions |-> << >>, created_ticket |-> None, outcome |-> None ]

Deliveries == 1..MaxDeliveries
NoTurn == [n |-> None, actions |-> << >>]
Nothing == [transcript |-> << >>, actions |-> << >>]

TypeOK ==
  /\ request \in {"start", "asking", "commit", "held", "done", "failed"}
  /\ row \in CallRows \cup {None}
  /\ twilio \in TwilioStatuses \cup {None}
  /\ sent \subseteq TwilioStatuses
  /\ handled \in 0..MaxDeliveries
  /\ job \in [Deliveries -> [pc : {"none", "check", "spawned", "summarises", "wrote", "done"},
                             seen : Stored]]
  /\ relay \in [pc : {"none", "accepted", "open", "closed"}, status : CallStatus \cup {None}]
  /\ turn \in [n : Nat \cup {None}, actions : Seq(ToolOutcomes)]
  /\ atEnd \in Seq(ToolOutcomes) \cup {None}
  /\ died \in BOOLEAN

Init ==
  /\ request = "start"
  /\ row = None
  /\ twilio = None
  /\ sent = {}
  /\ handled = 0
  /\ job = [i \in Deliveries |-> [pc |-> "none", seen |-> Nothing]]
  /\ relay = [pc |-> "none", status |-> None]
  /\ turn = NoTurn
  /\ atEnd = None
  /\ died = FALSE

-----------------------------------------------------------------------------
(* _create_call                                                            *)

(* The flush: nobody else sees the row yet.                                *)
Insert ==
  /\ request = "start"
  /\ request' = "asking"
  /\ UNCHANGED <<row, twilio, sent, handled, job, relay, turn, atEnd, died>>

Dial ==
  /\ request = "asking"
  /\ twilio' = "initiated" /\ sent' = {"initiated"}
  /\ request' = "commit"
  /\ UNCHANGED <<row, handled, job, relay, turn, atEnd, died>>

(* Twilio refuses, or takes the call and its answer is lost. A request of  *)
(* its own is rolled back; a chat turn keeps the session, row and all.     *)
DialRaises ==
  /\ request = "asking"
  /\ \/ UNCHANGED <<twilio, sent>>
     \/ twilio' = "initiated" /\ sent' = {"initiated"}
  /\ request' = IF InTool THEN "held" ELSE "failed"
  /\ UNCHANGED <<row, handled, job, relay, turn, atEnd, died>>

CommitCall ==
  /\ request \in {"commit", "held"}
  /\ row' = NewCall(request = "commit")
  /\ request' = "done"
  /\ UNCHANGED <<twilio, sent, handled, job, relay, turn, atEnd, died>>

-----------------------------------------------------------------------------
(* Twilio. A call that was not answered ends with a status of its own.     *)

Proceeds(s) ==
  /\ \/ twilio = "initiated" /\ s \in {"ringing"} \cup NotConnected
     \/ twilio = "ringing" /\ s \in {"in-progress"} \cup NotConnected
     \/ twilio = "in-progress" /\ s = "completed"
  /\ twilio' = s /\ sent' = sent \cup {s}
  /\ UNCHANGED <<request, row, handled, job, relay, turn, atEnd, died>>

(* get_call_by_relay_token and verify_twilio_call_sid                      *)
KnownCall == row # None /\ row.sid

(* A callback answered but for its summary thread still has the event loop.*)
LoopFree == \A i \in Deliveries : job[i].pc # "check"

-----------------------------------------------------------------------------
(* The status callback.                                                    *)

Slip_StampsEveryEnd(r, s) ==
  [r EXCEPT !.status = STATUS_FROM_TWILIO(s),
            !.ended = IF s \in TERMINAL_TWILIO_STATUSES THEN handled + 1 ELSE @,
            !.reason = IF s \in NotConnected THEN s ELSE @]

(* handle_status_callback on the row; the clock is the delivery's number.  *)
StatusReported(r, s) ==
  [r EXCEPT !.status = STATUS_FROM_TWILIO(s),
            !.ended = IF s \in TERMINAL_TWILIO_STATUSES /\ @ = None THEN handled + 1 ELSE @,
            !.reason = IF s \in NotConnected THEN s ELSE @]

HandleCallback(s) ==
  /\ s \in sent /\ handled < MaxDeliveries /\ LoopFree
  /\ KnownCall
  /\ handled' = handled + 1
  /\ row' = StatusReported(row, s)
  /\ atEnd' = IF row'.ended # None /\ atEnd = None THEN row.actions ELSE atEnd
  /\ job' = [job EXCEPT ![handled + 1].pc =
       IF s \in TERMINAL_TWILIO_STATUSES THEN "check" ELSE "done"]
  /\ UNCHANGED <<request, twilio, sent, relay, turn, died>>

(* The call is not committed yet, or has no SID: 404 or 403.               *)
RejectCallback(s) ==
  /\ s \in sent /\ handled < MaxDeliveries /\ LoopFree
  /\ ~KnownCall
  /\ handled' = handled + 1
  /\ UNCHANGED <<request, row, twilio, sent, job, relay, turn, atEnd, died>>

Step(i, from, to) == job[i].pc = from /\ job' = [job EXCEPT ![i].pc = to]

(* generate_call_outcome_summary                                           *)
Spawn(i) ==
  /\ Step(i, "check", IF row.outcome = None THEN "spawned" ELSE "done")
  /\ UNCHANGED <<request, row, twilio, sent, handled, relay, turn, atEnd, died>>

Slip_SkipsSilentCalls(i) ==
  /\ job[i].pc = "spawned"
  /\ job' = [job EXCEPT ![i] =
       IF row.outcome # None \/ row.transcript = << >> THEN [@ EXCEPT !.pc = "done"]
       ELSE [pc |-> "summarises", seen |-> [transcript |-> row.transcript,
                                            actions |-> row.actions]]]
  /\ UNCHANGED <<request, row, twilio, sent, handled, relay, turn, atEnd, died>>

(* _build_summary_prompt: the actions, as a list and as hints to the model,*)
(* and the transcript go into the prompt; nothing is read again later.     *)
Asked(r) == [transcript |-> r.transcript, actions |-> r.actions]

(* The thread loads the row, and the model is asked with what it holds.    *)
ThreadReads(i) ==
  /\ job[i].pc = "spawned"
  /\ job' = [job EXCEPT ![i] =
       IF row.outcome # None THEN [@ EXCEPT !.pc = "done"]
       ELSE [pc |-> "summarises", seen |-> Asked(row)]]
  /\ UNCHANGED <<request, row, twilio, sent, handled, relay, turn, atEnd, died>>

Slip_LastActionCounts(seen) ==
  IF seen.transcript = << >> THEN {"not_connected"}
  ELSE {"unknown"} \cup
       (IF seen.actions = << >> THEN OUTCOME_STATUSES ELSE {seen.actions[Len(seen.actions)]})

(* Without a conversation there is nothing to ask the model; if it fails   *)
(* the status is "unknown", and a tool outcome overrides what it says: the *)
(* first one, if there are several (_infer_deterministic_status).          *)
ResolutionStatuses(seen) ==
  IF seen.transcript = << >> THEN {"not_connected"}
  ELSE {"unknown"} \cup
       (IF seen.actions = << >> THEN OUTCOME_STATUSES ELSE {Head(seen.actions)})

ThreadWrites(i) ==
  /\ Step(i, "summarises", "wrote")
  /\ \E o \in ResolutionStatuses(job[i].seen) : row' = [row EXCEPT !.outcome = o]
  /\ UNCHANGED <<request, twilio, sent, handled, relay, turn, atEnd, died>>

-----------------------------------------------------------------------------
(* The relay (VoiceRelay has its inside).                                  *)

RelayAccepts ==
  /\ relay.pc = "none" /\ twilio = "in-progress" /\ KnownCall /\ LoopFree
  /\ relay' = [pc |-> "accepted", status |-> row.status]
  /\ UNCHANGED <<request, row, twilio, sent, handled, job, turn, atEnd, died>>

(* start_conversation: db.get finds the row in the session, as loaded.     *)
StartConversation ==
  /\ relay.pc = "accepted" /\ LoopFree
  /\ row' = IF relay.status = "queued" THEN [row EXCEPT !.status = "in_progress"] ELSE row
  /\ relay' = [relay EXCEPT !.pc = "open"]
  /\ UNCHANGED <<request, twilio, sent, handled, job, turn, atEnd, died>>

RelayCloses ==
  /\ relay.pc \in {"accepted", "open"}
  /\ relay' = [relay EXCEPT !.pc = "closed"]
  /\ UNCHANGED <<request, row, twilio, sent, handled, job, turn, atEnd, died>>

StartTurn(n) ==
  /\ relay.pc = "open" /\ turn = NoTurn
  /\ \A m \in 1..Len(row.transcript) : row.transcript[m] < n
  /\ turn' = [n |-> n, actions |-> << >>]
  /\ UNCHANGED <<request, row, twilio, sent, handled, job, relay, atEnd, died>>

(* One of the two tools succeeds (the first in the turn is what counts). A *)
(* ticket is durable at once, its mention on the call is not.              *)
ToolSucceeds(o) ==
  /\ turn # NoTurn /\ turn.actions = << >>
  /\ turn' = [turn EXCEPT !.actions = << o >>]
  /\ UNCHANGED <<request, row, twilio, sent, handled, job, relay, atEnd, died>>

(* _persist_conversation_turn; a ticket raised in turn n is called n.      *)
StoreTurn ==
  /\ turn # NoTurn /\ relay.pc = "open"
  /\ row' = [row EXCEPT !.transcript = Append(@, turn.n),
                        !.actions = @ \o turn.actions,
                        !.created_ticket = IF turn.actions = <<"escalated">> THEN turn.n ELSE @]
  /\ turn' = NoTurn
  /\ UNCHANGED <<request, twilio, sent, handled, job, relay, atEnd, died>>

(* The model raises; or the websocket is closed, and the row with it gone  *)
(* from the session that the turn's commit commits.                        *)
LoseTurn ==
  /\ turn # NoTurn
  /\ turn' = NoTurn
  /\ UNCHANGED <<request, row, twilio, sent, handled, job, relay, atEnd, died>>

-----------------------------------------------------------------------------
(* The server is restarted once: sessions, threads and websockets are lost *)
(* and nothing takes them up again but the next callback.                  *)
ServerDies ==
  /\ ~died /\ died' = TRUE
  /\ request' = IF request = "done" THEN "done" ELSE "failed"
  /\ job' = [i \in Deliveries |->
       IF job[i].pc \in {"none", "wrote"} THEN job[i] ELSE [job[i] EXCEPT !.pc = "done"]]
  /\ relay' = IF relay.pc = "none" THEN relay ELSE [relay EXCEPT !.pc = "closed"]
  /\ turn' = NoTurn
  /\ UNCHANGED <<row, twilio, sent, handled, atEnd>>

Thread(i) == Spawn(i) \/ ThreadReads(i) \/ ThreadWrites(i)

Next ==
  \/ Insert \/ Dial \/ DialRaises \/ CommitCall
  \/ \E s \in TwilioStatuses : Proceeds(s) \/ HandleCallback(s) \/ RejectCallback(s)
  \/ \E i \in Deliveries : Thread(i)
  \/ RelayAccepts \/ StartConversation \/ RelayCloses
  \/ \E n \in 1..MaxTurns : StartTurn(n)
  \/ \E o \in ToolOutcomes : ToolSucceeds(o)
  \/ StoreTurn \/ LoseTurn \/ ServerDies

Spec == Init /\ [][Next]_vars

(* A started thread runs; the model's client has a timeout.                *)
FairSpec == Spec /\ \A i \in Deliveries : WF_vars(Thread(i))

-----------------------------------------------------------------------------
(* A call shown as failed has a reason and an end, in whatever order and   *)
(* however often the callbacks come (call_service.py:587-591).             *)
FailedHasReason ==
  row # None /\ row.status = "failed" => row.reason # None /\ row.ended # None

(* The dashboard shows the first tool outcome that was stored before the   *)
(* call ended, or that it could not be summarised: the thread is started   *)
(* after the end is committed, and reads every turn stored before it       *)
(* (call_service.py:472-483, 532-539).                                     *)
FirstOutcomeStands ==
  row # None /\ row.outcome # None /\ atEnd \notin {None, << >>} =>
    row.outcome \in {atEnd[1], "unknown"}

(* The sessions of callbacks, relay and threads hold old copies of one     *)
(* row, and still the end stamp stays, no turn is lost from the transcript *)
(* or the actions, and the mention of a ticket is never emptied, nor an    *)
(* outcome, which only a summary thread that had found none replaces       *)
(* (call_service.py:341-349, 543-548, 589).  The status is not among them: *)
(* start_conversation and late callbacks overwrite it.                     *)
GrowsTo(s, t) == Len(s) <= Len(t) /\ \A k \in 1..Len(s) : t[k] = s[k]

EndAndTurnsStay ==
  [][row # None =>
       /\ row.ended # None => row'.ended = row.ended
       /\ GrowsTo(row.transcript, row'.transcript)
       /\ GrowsTo(row.actions, row'.actions)
       /\ row.created_ticket # None => row'.created_ticket # None
       /\ row.outcome # None => row'.outcome # None
       /\ row.outcome # row'.outcome => \E i \in Deliveries : job[i].pc = "summarises"]_vars

(* A call whose end was reported gets its outcome for the dashboard, also  *)
(* when nobody spoke, unless the server is restarted                       *)
(* (call_service.py:561-568).                                              *)
OutcomeArrives ==
  (row # None /\ row.ended # None) ~> ((row # None /\ row.outcome # None) \/ died)

(* generate_call_outcome_summary's "exactly once per call"                 *)
(* (call_service.py:556); named as an INVARIANT in Calls.cfg, TLC refutes  *)
(* it.                                                                     *)
SummarisedOnce ==
  \A i, j \in Deliveries : job[i].pc = "wrote" /\ job[j].pc = "wrote" => i = j
=============================================================================
