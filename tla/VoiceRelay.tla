------------------------------ MODULE VoiceRelay ------------------------------
(***************************************************************************)
(* conversation_relay: one websocket of a call. The receive loop bumps     *)
(* turn_id and starts a task per prompt; the task that holds the lock runs *)
(* the model in a thread, takes its chunks from a queue and sends those    *)
(* that are still wanted. Between two awaits a task runs undisturbed, so a *)
(* step is what happens from one await to the next: a send starts in the   *)
(* step that compared turn_id. Threads and the loop interleave freely.     *)
(***************************************************************************)
EXTENDS Naturals

CONSTANTS
  MaxTurnId,   \* bound on the prompts and interrupts of a call
  MaxChunks    \* bound on the chunks of an answer

ASSUME RelayAssumption == MaxTurnId \in Nat /\ MaxChunks \in Nat

VARIABLES
  turn_id,   \* the counter the receive loop bumps
  conn,      \* the websocket, see Connections
  pc,        \* pc[t]: where the task of prompt t is
  answer,    \* answer[t]: what the model's thread has put into t's queue
  taken,     \* taken[t]: chunks taken out of t's queue
  said,      \* said[t]: the number of the last chunk sent of turn t
  mark       \* mark[t]: the apology or the last message sent of turn t

relayVars == <<turn_id, conn, pc, answer, taken, said, mark>>

-----------------------------------------------------------------------------
TurnIds == 1..MaxTurnId

(* "dropped": the peer is gone, the loop may still read what it had sent;  *)
(* "broken": a send has raised, so the receive under way is the last one;  *)
(* "closed": the handler has returned and get_db has closed the session.   *)
Connections == {"open", "dropped", "broken", "closed"}

(* "none": t is an interrupt, or not yet given out. "waiting" for the      *)
(* lock; "loop" and "get", the loop over the queue while the model works;  *)
(* "drain", what is left in it; "except", the handler of an exception.     *)
Holding == {"loop", "get", "drain", "except", "finish"}
TaskStates == {"none", "waiting", "done"} \cup Holding

Answers == [chunks : 0..MaxChunks, state : {"none", "coming", "whole", "failed"}]
Marks == {"none", "sorry", "ended"}

TypeOK ==
  /\ turn_id \in 0..MaxTurnId
  /\ conn \in Connections
  /\ pc \in [TurnIds -> TaskStates]
  /\ answer \in [TurnIds -> Answers]
  /\ taken \in [TurnIds -> 0..MaxChunks]
  /\ said \in [TurnIds -> 0..MaxChunks]
  /\ mark \in [TurnIds -> Marks]

Init ==
  /\ turn_id = 0
  /\ conn = "open"
  /\ pc = [t \in TurnIds |-> "none"]
  /\ answer = [t \in TurnIds |-> [chunks |-> 0, state |-> "none"]]
  /\ taken = [t \in TurnIds |-> 0]
  /\ said = [t \in TurnIds |-> 0]
  /\ mark = [t \in TurnIds |-> "none"]

-----------------------------------------------------------------------------
(* The receive loop.                                                       *)

Receives ==
  /\ conn # "closed"
  /\ conn' = IF conn = "broken" THEN "closed" ELSE conn
  /\ turn_id < MaxTurnId
  /\ turn_id' = turn_id + 1
  /\ UNCHANGED <<answer, taken, said, mark>>

Interrupt == Receives /\ UNCHANGED pc

(* A final, non-empty prompt. The others change nothing.                   *)
Prompt == Receives /\ pc' = [pc EXCEPT ![turn_id + 1] = "waiting"]

Drop ==
  /\ conn = "open"
  /\ conn' = "dropped"
  /\ UNCHANGED <<turn_id, pc, answer, taken, said, mark>>

HandlerReturns ==
  /\ conn \in {"dropped", "broken"}
  /\ conn' = "closed"
  /\ UNCHANGED <<turn_id, pc, answer, taken, said, mark>>

-----------------------------------------------------------------------------
(* The model's thread: stream_conversation_turn.                           *)

Emits(t) ==
  /\ answer[t].state = "coming"
  /\ answer[t].chunks < MaxChunks
  /\ answer' = [answer EXCEPT ![t].chunks = @ + 1]
  /\ UNCHANGED <<turn_id, conn, pc, taken, said, mark>>

(* Returned, after every chunk it gave was queued, or raised.              *)
Returns(t) ==
  /\ answer[t].state = "coming"
  /\ \E s \in {"whole", "failed"} : answer' = [answer EXCEPT ![t].state = s]
  /\ UNCHANGED <<turn_id, conn, pc, taken, said, mark>>

-----------------------------------------------------------------------------
(* process_turn.                                                           *)

Goes(t, s) == pc' = [pc EXCEPT ![t] = s]

(* asyncio.Lock hands itself out in the order of the requests.             *)
LockIsFor(t) ==
  /\ \A u \in TurnIds : pc[u] \notin Holding
  /\ \A u \in TurnIds : u < t => pc[u] # "waiting"

Slip_AcquireWithoutLock(t) ==
  /\ pc[t] = "waiting"
  /\ \/ t = turn_id /\ Goes(t, "loop") /\ answer' = [answer EXCEPT ![t].state = "coming"]
     \/ t # turn_id /\ Goes(t, "done") /\ UNCHANGED answer
  /\ UNCHANGED <<turn_id, conn, taken, said, mark>>

Acquire(t) ==
  /\ pc[t] = "waiting" /\ LockIsFor(t)
  /\ \/ t = turn_id /\ Goes(t, "loop") /\ answer' = [answer EXCEPT ![t].state = "coming"]
     \/ t # turn_id /\ Goes(t, "done") /\ UNCHANGED answer
  /\ UNCHANGED <<turn_id, conn, taken, said, mark>>

Slip_FailureUncaught(t) ==
  /\ pc[t] = "loop"
  /\ Goes(t, CASE answer[t].state = "coming" -> "get"
               [] answer[t].state = "whole"  -> "drain"
               [] OTHER                      -> "done")
  /\ UNCHANGED <<turn_id, conn, answer, taken, said, mark>>

(* while not generation_task.done(), and await generation_task after it    *)
LoopHead(t) ==
  /\ pc[t] = "loop"
  /\ Goes(t, CASE answer[t].state = "coming" -> "get"
               [] answer[t].state = "whole"  -> "drain"
               [] OTHER                      -> "except")
  /\ UNCHANGED <<turn_id, conn, answer, taken, said, mark>>

Queued(t) == taken[t] < answer[t].chunks

Slip_SpeaksSuperseded(t, next) ==
  /\ Queued(t)
  /\ taken' = [taken EXCEPT ![t] = @ + 1]
  /\ \/ conn = "open" /\ said' = [said EXCEPT ![t] = taken[t] + 1]
        /\ Goes(t, next) /\ UNCHANGED conn
     \/ conn # "open" /\ conn' = (IF conn = "closed" THEN "closed" ELSE "broken")
        /\ Goes(t, "except") /\ UNCHANGED said
  /\ UNCHANGED <<turn_id, answer, mark>>

Slip_CountsFromOne(t, next) ==
  /\ Queued(t)
  /\ taken' = [taken EXCEPT ![t] = @ + 1]
  /\ said' = [said EXCEPT ![t] = taken[t] + 2]
  /\ Goes(t, next)
  /\ UNCHANGED <<turn_id, conn, answer, mark>>

(* Take a chunk and send it if the turn is still the latest. A send raises *)
(* when the peer is gone, and from then on the websocket is unusable.      *)
Relays(t, next) ==
  /\ Queued(t)
  /\ taken' = [taken EXCEPT ![t] = @ + 1]
  /\ \/ /\ t # turn_id
        /\ Goes(t, next)
        /\ UNCHANGED <<conn, said>>
     \/ /\ t = turn_id /\ conn = "open"
        /\ said' = [said EXCEPT ![t] = taken[t] + 1]
        /\ Goes(t, next)
        /\ UNCHANGED conn
     \/ /\ t = turn_id /\ conn # "open"
        /\ conn' = IF conn = "closed" THEN "closed" ELSE "broken"
        /\ Goes(t, "except")
        /\ UNCHANGED said
  /\ UNCHANGED <<turn_id, answer, mark>>

Get(t) == pc[t] = "get" /\ Relays(t, "loop")

(* wait_for gives up after 50 ms and the loop looks again.                 *)
GetTimesOut(t) ==
  /\ pc[t] = "get" /\ ~Queued(t)
  /\ Goes(t, "loop")
  /\ UNCHANGED <<turn_id, conn, answer, taken, said, mark>>

Drain(t) == pc[t] = "drain" /\ Relays(t, "drain")

Drained(t) ==
  /\ pc[t] = "drain" /\ ~Queued(t)
  /\ Goes(t, "finish")
  /\ UNCHANGED <<turn_id, conn, answer, taken, said, mark>>

(* A message other than a chunk: nothing if the turn is superseded, and if *)
(* the send raises the task ends there, with its lock.                     *)
Sends(t, m, next) ==
  /\ \/ /\ t # turn_id
        /\ Goes(t, next)
        /\ UNCHANGED <<conn, mark>>
     \/ /\ t = turn_id /\ conn = "open"
        /\ mark' = [mark EXCEPT ![t] = m]
        /\ Goes(t, next)
        /\ UNCHANGED conn
     \/ /\ t = turn_id /\ conn # "open"
        /\ conn' = IF conn = "closed" THEN "closed" ELSE "broken"
        /\ Goes(t, "done")
        /\ UNCHANGED mark
  /\ UNCHANGED <<turn_id, answer, taken, said>>

ApologiseFor(t) == pc[t] = "except" /\ Sends(t, "sorry", "finish")
Finish(t) == pc[t] = "finish" /\ Sends(t, "ended", "done")

Task(t) ==
  \/ Acquire(t) \/ LoopHead(t) \/ Get(t) \/ GetTimesOut(t)
  \/ Drain(t) \/ Drained(t) \/ ApologiseFor(t) \/ Finish(t)

(* The call is over and every task has ended.                              *)
Over ==
  /\ conn = "closed"
  /\ \A t \in TurnIds : pc[t] \in {"none", "done"} /\ answer[t].state # "coming"
  /\ UNCHANGED relayVars

Next ==
  \/ Interrupt \/ Prompt \/ Drop \/ HandlerReturns \/ Over
  \/ \E t \in TurnIds : Emits(t) \/ Returns(t) \/ Task(t)

Spec == Init /\ [][Next]_relayVars

(* The event loop runs every task that can run, and the provider's client  *)
(* has a timeout, so a generation returns or raises.                       *)
FairSpec ==
  /\ Spec
  /\ \A t \in TurnIds : WF_relayVars(Task(t)) /\ WF_relayVars(Returns(t))

-----------------------------------------------------------------------------
(* The relay speaks as promised: only the latest turn, its chunks in order *)
(* and whole, and declared over once (voice.py:129-133).                   *)
Promise == INSTANCE Speech
SpeaksAsPromised == Promise!SpeechSpec

(* As long as no send has failed and the handler runs, one thread at most  *)
(* uses the session, which cannot be shared (voice.py:133-134). After a    *)
(* failed send the lock is released with the thread still running, and     *)
(* when the handler returns the session is closed under it.                *)
SessionHasOneUser ==
  conn \in {"open", "dropped"} =>
    \A t, u \in TurnIds :
      answer[t].state = "coming" /\ answer[u].state = "coming" => t = u

(* A prompt is answered to its end, with an apology if the model fails,    *)
(* unless the caller speaks again or hangs up: however many superseded     *)
(* turns hold the lock before it.                                          *)
PromptAnswered ==
  \A t \in TurnIds :
    pc[t] = "waiting" ~> (mark[t] = "ended" \/ turn_id # t \/ conn # "open")
=============================================================================
