--------------------------- MODULE VoiceRelayProofs ---------------------------
(***************************************************************************)
(* The voice relay keeps its promise (Speech), for calls of any length:    *)
(* every step of the relay is a step of the promise or leaves what the     *)
(* caller hears alone.                                                     *)
(***************************************************************************)
EXTENDS VoiceRelay, TLAPS

(* The lock: one task holds it.                                            *)
OneHolder ==
  \A t, u \in TurnIds : pc[t] \in Holding /\ pc[u] \in Holding => t = u

(* A turn whose task has not got the lock has no answer and was not heard. *)
NotBegun ==
  \A t \in TurnIds : pc[t] \in {"none", "waiting"} =>
    answer[t].state = "none" /\ taken[t] = 0 /\ said[t] = 0 /\ mark[t] = "none"

(* A task with the lock has begun its answer, unless it was superseded.    *)
Begun == \A t \in TurnIds : pc[t] \in Holding => answer[t].state # "none"

TakenWasQueued == \A t \in TurnIds : taken[t] <= answer[t].chunks

(* Ids not given out yet have no task.                                     *)
FutureUnused == \A t \in TurnIds : t > turn_id => pc[t] = "none"

(* While a task relays the latest turn, what it took is what was spoken.   *)
Relaying ==
  \A t \in TurnIds : pc[t] \in {"loop", "get", "drain"} /\ t = turn_id =>
    mark[t] = "none" /\ said[t] = taken[t]

DrainsWhole == \A t \in TurnIds : pc[t] = "drain" => answer[t].state = "whole"

(* On an open websocket only the model's failure leads to an apology.      *)
ExceptIsFailure ==
  \A t \in TurnIds : pc[t] = "except" /\ t = turn_id /\ conn = "open" =>
    mark[t] = "none" /\ answer[t].state = "failed"

FinishIsDue ==
  \A t \in TurnIds : pc[t] = "finish" /\ t = turn_id /\ conn = "open" =>
    \/ mark[t] = "sorry"
    \/ mark[t] = "none" /\ answer[t].state = "whole" /\ said[t] = answer[t].chunks

(* Before a send fails, the model works only for the task with the lock.   *)
ModelWorksForHolder ==
  conn \in {"open", "dropped"} =>
    \A t \in TurnIds : answer[t].state = "coming" => pc[t] \in {"loop", "get"}

RelayInv ==
  /\ TypeOK /\ OneHolder /\ NotBegun /\ Begun /\ TakenWasQueued /\ FutureUnused
  /\ Relaying /\ DrainsWhole /\ ExceptIsFailure /\ FinishIsDue /\ ModelWorksForHolder

(* RelayInv holds when the websocket is accepted.                          *)
LEMMA RelayInvInit == Init => RelayInv
  BY RelayAssumption
  DEF Init, RelayInv, TypeOK, OneHolder, NotBegun, Begun, TakenWasQueued, FutureUnused, Relaying, DrainsWhole,
      ExceptIsFailure, FinishIsDue, ModelWorksForHolder, TurnIds, Answers, Marks,
      Connections, TaskStates, Holding

(* Every step keeps RelayInv.                                              *)
LEMMA RelayInvNext == RelayInv /\ [Next]_relayVars => RelayInv'
<1>. SUFFICES ASSUME RelayInv, [Next]_relayVars PROVE RelayInv'
  OBVIOUS
<1>. USE RelayAssumption DEF RelayInv, TurnIds, Answers, Marks, Connections, TaskStates, Holding
<1>1. CASE Interrupt
  <2>1. TypeOK'
    BY <1>1 DEF Interrupt, Receives, TypeOK
  <2>2. OneHolder'
    BY <1>1 DEF Interrupt, Receives, TypeOK, OneHolder
  <2>3. NotBegun'
    BY <1>1 DEF Interrupt, Receives, TypeOK, NotBegun, FutureUnused
  <2>4. Begun'
    BY <1>1 DEF Interrupt, Receives, TypeOK, Begun
  <2>5. TakenWasQueued'
    BY <1>1 DEF Interrupt, Receives, TypeOK, TakenWasQueued
  <2>6. FutureUnused'
    BY <1>1 DEF Interrupt, Receives, TypeOK, FutureUnused
  <2>7. Relaying'
    BY <1>1 DEF Interrupt, Receives, TypeOK, Relaying, NotBegun, FutureUnused
  <2>8. DrainsWhole'
    BY <1>1 DEF Interrupt, Receives, TypeOK, DrainsWhole
  <2>9. ExceptIsFailure'
    BY <1>1 DEF Interrupt, Receives, TypeOK, ExceptIsFailure, Relaying, FutureUnused, Begun
  <2>10. FinishIsDue'
    BY <1>1 DEF Interrupt, Receives, TypeOK, FinishIsDue, Relaying, DrainsWhole, ExceptIsFailure, FutureUnused, TakenWasQueued
  <2>11. ModelWorksForHolder'
    BY <1>1 DEF Interrupt, Receives, TypeOK, ModelWorksForHolder, DrainsWhole, NotBegun, FutureUnused
  <2>. QED
    BY <2>1, <2>2, <2>3, <2>4, <2>5, <2>6, <2>7, <2>8, <2>9, <2>10, <2>11
<1>2. CASE Prompt
  <2>1. TypeOK'
    BY <1>2 DEF Prompt, Receives, TypeOK
  <2>2. OneHolder'
    BY <1>2 DEF Prompt, Receives, TypeOK, OneHolder
  <2>3. NotBegun'
    BY <1>2 DEF Prompt, Receives, TypeOK, NotBegun, FutureUnused
  <2>4. Begun'
    BY <1>2 DEF Prompt, Receives, TypeOK, Begun
  <2>5. TakenWasQueued'
    BY <1>2 DEF Prompt, Receives, TypeOK, TakenWasQueued
  <2>6. FutureUnused'
    BY <1>2 DEF Prompt, Receives, TypeOK, FutureUnused
  <2>7. Relaying'
    BY <1>2 DEF Prompt, Receives, TypeOK, Relaying, NotBegun, FutureUnused
  <2>8. DrainsWhole'
    BY <1>2 DEF Prompt, Receives, TypeOK, DrainsWhole
  <2>9. ExceptIsFailure'
    BY <1>2 DEF Prompt, Receives, TypeOK, ExceptIsFailure, Relaying, FutureUnused, Begun
  <2>10. FinishIsDue'
    BY <1>2 DEF Prompt, Receives, TypeOK, FinishIsDue, Relaying, DrainsWhole, ExceptIsFailure, FutureUnused, TakenWasQueued
  <2>11. ModelWorksForHolder'
    BY <1>2 DEF Prompt, Receives, TypeOK, ModelWorksForHolder, DrainsWhole, NotBegun, FutureUnused
  <2>. QED
    BY <2>1, <2>2, <2>3, <2>4, <2>5, <2>6, <2>7, <2>8, <2>9, <2>10, <2>11
<1>3. CASE Drop
  <2>1. TypeOK'
    BY <1>3 DEF Drop, TypeOK
  <2>2. OneHolder'
    BY <1>3 DEF Drop, TypeOK, OneHolder
  <2>3. NotBegun'
    BY <1>3 DEF Drop, TypeOK, NotBegun, FutureUnused
  <2>4. Begun'
    BY <1>3 DEF Drop, TypeOK, Begun
  <2>5. TakenWasQueued'
    BY <1>3 DEF Drop, TypeOK, TakenWasQueued
  <2>6. FutureUnused'
    BY <1>3 DEF Drop, TypeOK, FutureUnused
  <2>7. Relaying'
    BY <1>3 DEF Drop, TypeOK, Relaying, NotBegun, FutureUnused
  <2>8. DrainsWhole'
    BY <1>3 DEF Drop, TypeOK, DrainsWhole
  <2>9. ExceptIsFailure'
    BY <1>3 DEF Drop, TypeOK, ExceptIsFailure, Relaying, FutureUnused, Begun
  <2>10. FinishIsDue'
    BY <1>3 DEF Drop, TypeOK, FinishIsDue, Relaying, DrainsWhole, ExceptIsFailure, FutureUnused, TakenWasQueued
  <2>11. ModelWorksForHolder'
    BY <1>3 DEF Drop, TypeOK, ModelWorksForHolder, DrainsWhole, NotBegun, FutureUnused
  <2>. QED
    BY <2>1, <2>2, <2>3, <2>4, <2>5, <2>6, <2>7, <2>8, <2>9, <2>10, <2>11
<1>4. CASE HandlerReturns
  <2>1. TypeOK'
    BY <1>4 DEF HandlerReturns, TypeOK
  <2>2. OneHolder'
    BY <1>4 DEF HandlerReturns, TypeOK, OneHolder
  <2>3. NotBegun'
    BY <1>4 DEF HandlerReturns, TypeOK, NotBegun, FutureUnused
  <2>4. Begun'
    BY <1>4 DEF HandlerReturns, TypeOK, Begun
  <2>5. TakenWasQueued'
    BY <1>4 DEF HandlerReturns, TypeOK, TakenWasQueued
  <2>6. FutureUnused'
    BY <1>4 DEF HandlerReturns, TypeOK, FutureUnused
  <2>7. Relaying'
    BY <1>4 DEF HandlerReturns, TypeOK, Relaying, NotBegun, FutureUnused
  <2>8. DrainsWhole'
    BY <1>4 DEF HandlerReturns, TypeOK, DrainsWhole
  <2>9. ExceptIsFailure'
    BY <1>4 DEF HandlerReturns, TypeOK, ExceptIsFailure, Relaying, FutureUnused, Begun
  <2>10. FinishIsDue'
    BY <1>4 DEF HandlerReturns, TypeOK, FinishIsDue, Relaying, DrainsWhole, ExceptIsFailure, FutureUnused, TakenWasQueued
  <2>11. ModelWorksForHolder'
    BY <1>4 DEF HandlerReturns, TypeOK, ModelWorksForHolder, DrainsWhole, NotBegun, FutureUnused
  <2>. QED
    BY <2>1, <2>2, <2>3, <2>4, <2>5, <2>6, <2>7, <2>8, <2>9, <2>10, <2>11
<1>5. ASSUME NEW t \in TurnIds, Emits(t) PROVE RelayInv'
  <2>1. TypeOK'
    BY <1>5 DEF Emits, TypeOK
  <2>2. OneHolder'
    BY <1>5 DEF Emits, TypeOK, OneHolder
  <2>3. NotBegun'
    BY <1>5 DEF Emits, TypeOK, NotBegun, FutureUnused
  <2>4. Begun'
    BY <1>5 DEF Emits, TypeOK, Begun
  <2>5. TakenWasQueued'
    BY <1>5 DEF Emits, TypeOK, TakenWasQueued
  <2>6. FutureUnused'
    BY <1>5 DEF Emits, TypeOK, FutureUnused
  <2>7. Relaying'
    BY <1>5 DEF Emits, TypeOK, Relaying, NotBegun, FutureUnused
  <2>8. DrainsWhole'
    BY <1>5 DEF Emits, TypeOK, DrainsWhole
  <2>9. ExceptIsFailure'
    BY <1>5 DEF Emits, TypeOK, ExceptIsFailure, Relaying, FutureUnused, Begun
  <2>10. FinishIsDue'
    BY <1>5 DEF Emits, TypeOK, FinishIsDue, Relaying, DrainsWhole, ExceptIsFailure, FutureUnused, TakenWasQueued
  <2>11. ModelWorksForHolder'
    BY <1>5 DEF Emits, TypeOK, ModelWorksForHolder, DrainsWhole, NotBegun, FutureUnused
  <2>. QED
    BY <2>1, <2>2, <2>3, <2>4, <2>5, <2>6, <2>7, <2>8, <2>9, <2>10, <2>11
<1>6. ASSUME NEW t \in TurnIds, Returns(t) PROVE RelayInv'
  <2>1. TypeOK'
    <3>1. PICK s \in {"whole", "failed"} : answer' = [answer EXCEPT ![t].state = s]
      BY <1>6 DEF Returns
    <3>2. [answer[t] EXCEPT !.state = s] \in Answers
      BY DEF TypeOK
    <3>3. answer' \in [TurnIds -> Answers]
      BY <3>1, <3>2 DEF TypeOK
    <3>. QED
      BY <1>6, <3>3 DEF Returns, TypeOK
  <2>2. OneHolder'
    BY <1>6 DEF Returns, TypeOK, OneHolder
  <2>3. NotBegun'
    BY <1>6 DEF Returns, TypeOK, NotBegun, FutureUnused
  <2>4. Begun'
    BY <1>6 DEF Returns, TypeOK, Begun
  <2>5. TakenWasQueued'
    BY <1>6 DEF Returns, TypeOK, TakenWasQueued
  <2>6. FutureUnused'
    BY <1>6 DEF Returns, TypeOK, FutureUnused
  <2>7. Relaying'
    BY <1>6 DEF Returns, TypeOK, Relaying, NotBegun, FutureUnused
  <2>8. DrainsWhole'
    BY <1>6 DEF Returns, TypeOK, DrainsWhole
  <2>9. ExceptIsFailure'
    BY <1>6 DEF Returns, TypeOK, ExceptIsFailure, Relaying, FutureUnused, Begun
  <2>10. FinishIsDue'
    BY <1>6 DEF Returns, TypeOK, FinishIsDue, Relaying, DrainsWhole, ExceptIsFailure, FutureUnused, TakenWasQueued
  <2>11. ModelWorksForHolder'
    BY <1>6 DEF Returns, TypeOK, ModelWorksForHolder, DrainsWhole, NotBegun, FutureUnused
  <2>. QED
    BY <2>1, <2>2, <2>3, <2>4, <2>5, <2>6, <2>7, <2>8, <2>9, <2>10, <2>11
<1>7. ASSUME NEW t \in TurnIds, Acquire(t) PROVE RelayInv'
  <2>1. TypeOK'
    <3>1. [answer[t] EXCEPT !.state = "coming"] \in Answers
      BY DEF TypeOK
    <3>2. answer' \in [TurnIds -> Answers]
      BY <1>7, <3>1 DEF Acquire, TypeOK
    <3>. QED
      BY <1>7, <3>2 DEF Acquire, Goes, TypeOK
  <2>2. OneHolder'
    BY SMTT(20), <1>7 DEF Acquire, LockIsFor, Goes, TypeOK, OneHolder
  <2>3. NotBegun'
    BY <1>7 DEF Acquire, LockIsFor, Goes, TypeOK, NotBegun, FutureUnused
  <2>4. Begun'
    BY <1>7 DEF Acquire, LockIsFor, Goes, TypeOK, Begun
  <2>5. TakenWasQueued'
    <3>1. \A u \in TurnIds : answer'[u].chunks = answer[u].chunks
      <4>1. answer' = answer \/ answer' = [answer EXCEPT ![t].state = "coming"]
        BY <1>7 DEF Acquire
      <4>2. [answer[t] EXCEPT !.state = "coming"].chunks = answer[t].chunks
        BY DEF TypeOK
      <4>. QED
        BY <4>1, <4>2 DEF TypeOK
    <3>. QED
      BY <1>7, <3>1 DEF Acquire, TakenWasQueued
  <2>6. FutureUnused'
    BY <1>7 DEF Acquire, LockIsFor, Goes, TypeOK, FutureUnused
  <2>7. Relaying'
    BY <1>7 DEF Acquire, LockIsFor, Goes, TypeOK, Relaying, NotBegun, FutureUnused
  <2>8. DrainsWhole'
    BY <1>7 DEF Acquire, LockIsFor, Goes, TypeOK, DrainsWhole
  <2>9. ExceptIsFailure'
    BY <1>7 DEF Acquire, LockIsFor, Goes, TypeOK, ExceptIsFailure, Relaying, FutureUnused, Begun
  <2>10. FinishIsDue'
    BY <1>7 DEF Acquire, LockIsFor, Goes, TypeOK, FinishIsDue, Relaying, DrainsWhole, ExceptIsFailure, FutureUnused, TakenWasQueued
  <2>11. ModelWorksForHolder'
    BY <1>7 DEF Acquire, LockIsFor, Goes, TypeOK, ModelWorksForHolder, DrainsWhole, NotBegun, FutureUnused
  <2>. QED
    BY <2>1, <2>2, <2>3, <2>4, <2>5, <2>6, <2>7, <2>8, <2>9, <2>10, <2>11
<1>8. ASSUME NEW t \in TurnIds, LoopHead(t) PROVE RelayInv'
  <2>1. TypeOK'
    BY <1>8 DEF LoopHead, Goes, TypeOK
  <2>2. OneHolder'
    BY <1>8 DEF LoopHead, Goes, TypeOK, OneHolder
  <2>3. NotBegun'
    BY <1>8 DEF LoopHead, Goes, TypeOK, NotBegun, FutureUnused
  <2>4. Begun'
    BY <1>8 DEF LoopHead, Goes, TypeOK, Begun
  <2>5. TakenWasQueued'
    BY <1>8 DEF LoopHead, Goes, TypeOK, TakenWasQueued
  <2>6. FutureUnused'
    BY <1>8 DEF LoopHead, Goes, TypeOK, FutureUnused
  <2>7. Relaying'
    BY <1>8 DEF LoopHead, Goes, TypeOK, Relaying, NotBegun, FutureUnused
  <2>8. DrainsWhole'
    BY <1>8 DEF LoopHead, Goes, TypeOK, DrainsWhole
  <2>9. ExceptIsFailure'
    BY <1>8 DEF LoopHead, Goes, TypeOK, ExceptIsFailure, Relaying, FutureUnused, Begun
  <2>10. FinishIsDue'
    BY <1>8 DEF LoopHead, Goes, TypeOK, FinishIsDue, Relaying, DrainsWhole, ExceptIsFailure, FutureUnused, TakenWasQueued
  <2>11. ModelWorksForHolder'
    BY <1>8 DEF LoopHead, Goes, TypeOK, ModelWorksForHolder, DrainsWhole, NotBegun, FutureUnused
  <2>. QED
    BY <2>1, <2>2, <2>3, <2>4, <2>5, <2>6, <2>7, <2>8, <2>9, <2>10, <2>11
<1>9. ASSUME NEW t \in TurnIds, Get(t) PROVE RelayInv'
  <2>1. TypeOK'
    <3>1. taken[t] + 1 \in 0..MaxChunks
      BY SMTT(20), <1>9 DEF Get, Relays, Queued, TypeOK
    <3>2. taken' \in [TurnIds -> 0..MaxChunks] /\ said' \in [TurnIds -> 0..MaxChunks]
      BY ZenonT(60), <1>9, <3>1 DEF Get, Relays, TypeOK
    <3>. QED
      BY <1>9, <3>2 DEF Get, Relays, Goes, TypeOK
  <2>2. OneHolder'
    BY <1>9 DEF Get, Relays, Queued, Goes, TypeOK, OneHolder
  <2>3. NotBegun'
    BY ZenonT(60), <1>9 DEF Get, Relays, Queued, Goes, TypeOK, NotBegun, FutureUnused
  <2>4. Begun'
    BY <1>9 DEF Get, Relays, Queued, Goes, TypeOK, Begun
  <2>5. TakenWasQueued'
    BY SMTT(20), <1>9 DEF Get, Relays, Queued, Goes, TypeOK, TakenWasQueued
  <2>6. FutureUnused'
    BY <1>9 DEF Get, Relays, Queued, Goes, TypeOK, FutureUnused
  <2>7. Relaying'
    BY <1>9 DEF Get, Relays, Queued, Goes, TypeOK, Relaying, NotBegun, FutureUnused
  <2>8. DrainsWhole'
    BY <1>9 DEF Get, Relays, Queued, Goes, TypeOK, DrainsWhole
  <2>9. ExceptIsFailure'
    BY <1>9 DEF Get, Relays, Queued, Goes, TypeOK, ExceptIsFailure, Relaying, FutureUnused, Begun
  <2>10. FinishIsDue'
    BY SMTT(20), <1>9 DEF Get, Relays, Queued, Goes, TypeOK, FinishIsDue, Relaying, DrainsWhole, ExceptIsFailure, FutureUnused, TakenWasQueued
  <2>11. ModelWorksForHolder'
    BY <1>9 DEF Get, Relays, Queued, Goes, TypeOK, ModelWorksForHolder, DrainsWhole, NotBegun, FutureUnused
  <2>. QED
    BY <2>1, <2>2, <2>3, <2>4, <2>5, <2>6, <2>7, <2>8, <2>9, <2>10, <2>11
<1>10. ASSUME NEW t \in TurnIds, GetTimesOut(t) PROVE RelayInv'
  <2>1. TypeOK'
    BY <1>10 DEF GetTimesOut, Goes, TypeOK
  <2>2. OneHolder'
    BY <1>10 DEF GetTimesOut, Goes, TypeOK, OneHolder
  <2>3. NotBegun'
    BY <1>10 DEF GetTimesOut, Goes, TypeOK, NotBegun, FutureUnused
  <2>4. Begun'
    BY <1>10 DEF GetTimesOut, Goes, TypeOK, Begun
  <2>5. TakenWasQueued'
    BY <1>10 DEF GetTimesOut, Goes, TypeOK, TakenWasQueued
  <2>6. FutureUnused'
    BY <1>10 DEF GetTimesOut, Goes, TypeOK, FutureUnused
  <2>7. Relaying'
    BY <1>10 DEF GetTimesOut, Goes, TypeOK, Relaying, NotBegun, FutureUnused
  <2>8. DrainsWhole'
    BY <1>10 DEF GetTimesOut, Goes, TypeOK, DrainsWhole
  <2>9. ExceptIsFailure'
    BY <1>10 DEF GetTimesOut, Goes, TypeOK, ExceptIsFailure, Relaying, FutureUnused, Begun
  <2>10. FinishIsDue'
    BY <1>10 DEF GetTimesOut, Goes, TypeOK, FinishIsDue, Relaying, DrainsWhole, ExceptIsFailure, FutureUnused, TakenWasQueued
  <2>11. ModelWorksForHolder'
    BY <1>10 DEF GetTimesOut, Goes, TypeOK, ModelWorksForHolder, DrainsWhole, NotBegun, FutureUnused
  <2>. QED
    BY <2>1, <2>2, <2>3, <2>4, <2>5, <2>6, <2>7, <2>8, <2>9, <2>10, <2>11
<1>11. ASSUME NEW t \in TurnIds, Drain(t) PROVE RelayInv'
  <2>1. TypeOK'
    <3>1. taken[t] + 1 \in 0..MaxChunks
      BY SMTT(20), <1>11 DEF Drain, Relays, Queued, TypeOK
    <3>2. taken' \in [TurnIds -> 0..MaxChunks] /\ said' \in [TurnIds -> 0..MaxChunks]
      BY ZenonT(60), <1>11, <3>1 DEF Drain, Relays, TypeOK
    <3>. QED
      BY <1>11, <3>2 DEF Drain, Relays, Goes, TypeOK
  <2>2. OneHolder'
    BY <1>11 DEF Drain, Relays, Queued, Goes, TypeOK, OneHolder
  <2>3. NotBegun'
    BY <1>11 DEF Drain, Relays, Queued, Goes, TypeOK, NotBegun, FutureUnused
  <2>4. Begun'
    BY <1>11 DEF Drain, Relays, Queued, Goes, TypeOK, Begun
  <2>5. TakenWasQueued'
    BY SMTT(20), <1>11 DEF Drain, Relays, Queued, Goes, TypeOK, TakenWasQueued
  <2>6. FutureUnused'
    BY <1>11 DEF Drain, Relays, Queued, Goes, TypeOK, FutureUnused
  <2>7. Relaying'
    BY SMTT(20), <1>11 DEF Drain, Relays, Queued, Goes, TypeOK, Relaying, NotBegun, FutureUnused
  <2>8. DrainsWhole'
    BY <1>11 DEF Drain, Relays, Queued, Goes, TypeOK, DrainsWhole
  <2>9. ExceptIsFailure'
    BY <1>11 DEF Drain, Relays, Queued, Goes, TypeOK, ExceptIsFailure, Relaying, FutureUnused, Begun
  <2>10. FinishIsDue'
    BY SMTT(20), <1>11 DEF Drain, Relays, Queued, Goes, TypeOK, FinishIsDue, Relaying, DrainsWhole, ExceptIsFailure, FutureUnused, TakenWasQueued
  <2>11. ModelWorksForHolder'
    BY <1>11 DEF Drain, Relays, Queued, Goes, TypeOK, ModelWorksForHolder, DrainsWhole, NotBegun, FutureUnused
  <2>. QED
    BY <2>1, <2>2, <2>3, <2>4, <2>5, <2>6, <2>7, <2>8, <2>9, <2>10, <2>11
<1>12. ASSUME NEW t \in TurnIds, Drained(t) PROVE RelayInv'
  <2>1. TypeOK'
    BY <1>12 DEF Drained, Queued, Goes, TypeOK
  <2>2. OneHolder'
    BY <1>12 DEF Drained, Queued, Goes, TypeOK, OneHolder
  <2>3. NotBegun'
    BY <1>12 DEF Drained, Queued, Goes, TypeOK, NotBegun, FutureUnused
  <2>4. Begun'
    BY <1>12 DEF Drained, Queued, Goes, TypeOK, Begun
  <2>5. TakenWasQueued'
    BY <1>12 DEF Drained, Queued, Goes, TypeOK, TakenWasQueued
  <2>6. FutureUnused'
    BY <1>12 DEF Drained, Queued, Goes, TypeOK, FutureUnused
  <2>7. Relaying'
    BY <1>12 DEF Drained, Queued, Goes, TypeOK, Relaying, NotBegun, FutureUnused
  <2>8. DrainsWhole'
    BY <1>12 DEF Drained, Queued, Goes, TypeOK, DrainsWhole
  <2>9. ExceptIsFailure'
    BY <1>12 DEF Drained, Queued, Goes, TypeOK, ExceptIsFailure, Relaying, FutureUnused, Begun
  <2>10. FinishIsDue'
    BY <1>12 DEF Drained, Queued, Goes, TypeOK, FinishIsDue, Relaying, DrainsWhole, ExceptIsFailure, FutureUnused, TakenWasQueued
  <2>11. ModelWorksForHolder'
    BY <1>12 DEF Drained, Queued, Goes, TypeOK, ModelWorksForHolder, DrainsWhole, NotBegun, FutureUnused
  <2>. QED
    BY <2>1, <2>2, <2>3, <2>4, <2>5, <2>6, <2>7, <2>8, <2>9, <2>10, <2>11
<1>13. ASSUME NEW t \in TurnIds, ApologiseFor(t) PROVE RelayInv'
  <2>1. TypeOK'
    BY <1>13 DEF ApologiseFor, Sends, Goes, TypeOK
  <2>2. OneHolder'
    BY <1>13 DEF ApologiseFor, Sends, Goes, TypeOK, OneHolder
  <2>3. NotBegun'
    BY <1>13 DEF ApologiseFor, Sends, Goes, TypeOK, NotBegun, FutureUnused
  <2>4. Begun'
    BY <1>13 DEF ApologiseFor, Sends, Goes, TypeOK, Begun
  <2>5. TakenWasQueued'
    BY <1>13 DEF ApologiseFor, Sends, Goes, TypeOK, TakenWasQueued
  <2>6. FutureUnused'
    BY <1>13 DEF ApologiseFor, Sends, Goes, TypeOK, FutureUnused
  <2>7. Relaying'
    BY SMTT(20), <1>13 DEF ApologiseFor, Sends, Goes, TypeOK, Relaying, NotBegun, FutureUnused
  <2>8. DrainsWhole'
    BY <1>13 DEF ApologiseFor, Sends, Goes, TypeOK, DrainsWhole
  <2>9. ExceptIsFailure'
    BY <1>13 DEF ApologiseFor, Sends, Goes, TypeOK, ExceptIsFailure, Relaying, FutureUnused, Begun
  <2>10. FinishIsDue'
    BY SMTT(20), <1>13 DEF ApologiseFor, Sends, Goes, TypeOK, FinishIsDue, Relaying, DrainsWhole, ExceptIsFailure, FutureUnused, TakenWasQueued
  <2>11. ModelWorksForHolder'
    BY <1>13 DEF ApologiseFor, Sends, Goes, TypeOK, ModelWorksForHolder, DrainsWhole, NotBegun, FutureUnused
  <2>. QED
    BY <2>1, <2>2, <2>3, <2>4, <2>5, <2>6, <2>7, <2>8, <2>9, <2>10, <2>11
<1>14. ASSUME NEW t \in TurnIds, Finish(t) PROVE RelayInv'
  <2>1. TypeOK'
    BY <1>14 DEF Finish, Sends, Goes, TypeOK
  <2>2. OneHolder'
    BY <1>14 DEF Finish, Sends, Goes, TypeOK, OneHolder
  <2>3. NotBegun'
    BY SMTT(20), <1>14 DEF Finish, Sends, Goes, TypeOK, NotBegun, FutureUnused
  <2>4. Begun'
    BY <1>14 DEF Finish, Sends, Goes, TypeOK, Begun
  <2>5. TakenWasQueued'
    BY <1>14 DEF Finish, Sends, Goes, TypeOK, TakenWasQueued
  <2>6. FutureUnused'
    BY <1>14 DEF Finish, Sends, Goes, TypeOK, FutureUnused
  <2>7. Relaying'
    BY <1>14 DEF Finish, Sends, Goes, TypeOK, Relaying, NotBegun, FutureUnused
  <2>8. DrainsWhole'
    BY <1>14 DEF Finish, Sends, Goes, TypeOK, DrainsWhole
  <2>9. ExceptIsFailure'
    BY <1>14 DEF Finish, Sends, Goes, TypeOK, ExceptIsFailure, Relaying, FutureUnused, Begun
  <2>10. FinishIsDue'
    BY SMTT(20), <1>14 DEF Finish, Sends, Goes, TypeOK, FinishIsDue, Relaying, DrainsWhole, ExceptIsFailure, FutureUnused, TakenWasQueued
  <2>11. ModelWorksForHolder'
    BY <1>14 DEF Finish, Sends, Goes, TypeOK, ModelWorksForHolder, DrainsWhole, NotBegun, FutureUnused
  <2>. QED
    BY <2>1, <2>2, <2>3, <2>4, <2>5, <2>6, <2>7, <2>8, <2>9, <2>10, <2>11
<1>15. CASE UNCHANGED relayVars
  BY <1>15 DEF relayVars, TypeOK, OneHolder, NotBegun, Begun, TakenWasQueued, FutureUnused, Relaying, DrainsWhole, ExceptIsFailure, FinishIsDue, ModelWorksForHolder
<1>. QED
  BY <1>1, <1>2, <1>3, <1>4, <1>5, <1>6, <1>7, <1>8, <1>9, <1>10, <1>11, <1>12, <1>13, <1>14, <1>15 DEF Next, Task, Over

(* Every reachable state of the relay satisfies RelayInv.                  *)
THEOREM RelayInvariant == Spec => []RelayInv
<1>1. Init => RelayInv
  BY RelayInvInit
<1>2. RelayInv /\ [Next]_relayVars => RelayInv'
  BY RelayInvNext
<1>. QED
  BY <1>1, <1>2, PTL DEF Spec

(* The relay's state is well typed, whatever the caller, the model and the *)
(* connection do.                                                          *)
THEOREM RelayTypeCorrect == Spec => []TypeOK
<1>1. RelayInv => TypeOK
  BY DEF RelayInv
<1>. QED
  BY <1>1, RelayInvariant, PTL

(* The lock of process_turn keeps the session to one thread (voice.py:127) *)
(* as long as no send has failed and the handler runs.                     *)
THEOREM RelaySessionHasOneUser == Spec => []SessionHasOneUser
<1>1. RelayInv => SessionHasOneUser
  <2>. SUFFICES ASSUME RelayInv, conn \in {"open", "dropped"},
                       NEW t \in TurnIds, NEW u \in TurnIds,
                       answer[t].state = "coming", answer[u].state = "coming"
                PROVE  t = u
    BY DEF SessionHasOneUser
  <2>1. pc[t] \in Holding /\ pc[u] \in Holding
    BY DEF RelayInv, ModelWorksForHolder, Holding
  <2>. QED
    BY <2>1 DEF RelayInv, OneHolder
<1>. QED
  BY <1>1, RelayInvariant, PTL

(* A step of the relay is a step of the promise, or the caller hears and   *)
(* says nothing in it.                                                     *)
LEMMA RelayStepIsPromised ==
  RelayInv /\ [Next]_relayVars => [Promise!SpeechNext]_(Promise!speechVars)
<1>. SUFFICES ASSUME RelayInv, [Next]_relayVars
              PROVE  Promise!SpeechNext \/ UNCHANGED Promise!speechVars
  OBVIOUS
<1>. USE RelayAssumption DEF Promise!speechVars, Promise!TurnIds, TurnIds, RelayInv
<1>1. CASE Interrupt \/ Prompt
  BY <1>1 DEF Interrupt, Prompt, Receives, Promise!SpeechNext, Promise!CallerSpeaks
<1>2. CASE Drop \/ HandlerReturns \/ Over
  BY <1>2 DEF Drop, HandlerReturns, Over, relayVars
<1>3. ASSUME NEW t \in TurnIds, Emits(t) \/ Returns(t)
      PROVE  Promise!SpeechNext
  BY <1>3 DEF Emits, Returns, Promise!SpeechNext, Promise!Arrives
<1>4. ASSUME NEW t \in TurnIds, Acquire(t)
      PROVE  Promise!SpeechNext \/ UNCHANGED Promise!speechVars
  BY <1>4 DEF Acquire, NotBegun, Promise!SpeechNext, Promise!Begin
<1>5. ASSUME NEW t \in TurnIds, LoopHead(t) \/ GetTimesOut(t) \/ Drained(t)
      PROVE  UNCHANGED Promise!speechVars
  BY <1>5 DEF LoopHead, GetTimesOut, Drained
<1>6. ASSUME NEW t \in TurnIds, Get(t) \/ Drain(t)
      PROVE  Promise!SpeechNext \/ UNCHANGED Promise!speechVars
  <2>1. CASE said' = said
    BY <1>6, <2>1 DEF Get, Drain, Relays
  <2>2. CASE said' = [said EXCEPT ![t] = taken[t] + 1] /\ t = turn_id
    <3>1. mark[t] = "none" /\ said[t] = taken[t]
      BY <1>6, <2>2 DEF Get, Drain, Relaying
    <3>2. said[t] < answer[t].chunks
      BY <1>6, <3>1 DEF Get, Drain, Relays, Queued
    <3>. QED
      BY <1>6, <2>2, <3>1, <3>2 DEF Get, Drain, Relays, Promise!SpeechNext, Promise!Say
  <2>. QED
    BY <1>6, <2>1, <2>2 DEF Get, Drain, Relays
<1>7. ASSUME NEW t \in TurnIds, ApologiseFor(t)
      PROVE  Promise!SpeechNext \/ UNCHANGED Promise!speechVars
  BY <1>7 DEF ApologiseFor, Sends, ExceptIsFailure, Promise!SpeechNext, Promise!Apologise
<1>8. ASSUME NEW t \in TurnIds, Finish(t)
      PROVE  Promise!SpeechNext \/ UNCHANGED Promise!speechVars
  BY <1>8 DEF Finish, Sends, FinishIsDue, Promise!SpeechNext, Promise!DeclareOver
<1>9. CASE UNCHANGED relayVars
  BY <1>9 DEF relayVars
<1>. QED
  BY <1>1, <1>2, <1>3, <1>4, <1>5, <1>6, <1>7, <1>8, <1>9 DEF Next, Task

(* Refinement: whatever the interleaving of the receive loop, the tasks,   *)
(* the model's threads and a failing connection, the caller hears the      *)
(* answers to the latest prompt only, in order, whole, and ended once      *)
(* (voice.py:123-126).                                                     *)
THEOREM RelaySpeaksAsPromised == Spec => SpeaksAsPromised
<1>1. Init => Promise!SpeechInit
  BY DEF Init, Promise!SpeechInit, TurnIds, Promise!TurnIds
<1>2. RelayInv /\ [Next]_relayVars => [Promise!SpeechNext]_(Promise!speechVars)
  BY RelayStepIsPromised
<1>. QED
  BY <1>1, <1>2, RelayInvariant, PTL DEF Spec, SpeaksAsPromised, Promise!SpeechSpec
=============================================================================
