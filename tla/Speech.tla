-------------------------------- MODULE Speech --------------------------------
(***************************************************************************)
(* What the voice relay promises the caller, in the words of               *)
(* conversation_relay: only the answer to the latest thing the caller said *)
(* is spoken. An answer arrives in chunks; chunks are spoken in order,     *)
(* none twice and none left out, an answer is declared complete when all   *)
(* of it was spoken, or after an apology if the model failed; and nothing  *)
(* more is spoken of a turn once the caller has spoken again.              *)
(***************************************************************************)
EXTENDS Naturals

CONSTANTS
  MaxTurnId,   \* bound on the prompts and interrupts of a call
  MaxChunks    \* bound on the chunks of an answer

VARIABLES
  turn_id,   \* the latest prompt or interrupt
  answer,    \* answer[t]: what the model has given to prompt t
  said,      \* said[t]: the number of the last chunk spoken of turn t
  mark       \* mark[t]: whether turn t got an apology, and was declared over

speechVars == <<turn_id, answer, said, mark>>

TurnIds == 1..MaxTurnId
Answers == [chunks : 0..MaxChunks, state : {"none", "coming", "whole", "failed"}]
Marks == {"none", "sorry", "ended"}

SpeechInit ==
  /\ turn_id = 0
  /\ answer = [t \in TurnIds |-> [chunks |-> 0, state |-> "none"]]
  /\ said = [t \in TurnIds |-> 0]
  /\ mark = [t \in TurnIds |-> "none"]

CallerSpeaks ==
  /\ turn_id < MaxTurnId
  /\ turn_id' = turn_id + 1
  /\ UNCHANGED <<answer, said, mark>>

(* The model works on prompt t; only the latest prompt is begun.           *)
Begin ==
  /\ turn_id \in TurnIds /\ answer[turn_id].state = "none"
  /\ answer' = [answer EXCEPT ![turn_id].state = "coming"]
  /\ UNCHANGED <<turn_id, said, mark>>

Arrives(t) ==
  /\ answer[t].state = "coming"
  /\ \/ /\ answer[t].chunks < MaxChunks
        /\ answer' = [answer EXCEPT ![t].chunks = @ + 1]
     \/ \E s \in {"whole", "failed"} : answer' = [answer EXCEPT ![t].state = s]
  /\ UNCHANGED <<turn_id, said, mark>>

Say ==
  /\ turn_id \in TurnIds
  /\ mark[turn_id] = "none" /\ said[turn_id] < answer[turn_id].chunks
  /\ said' = [said EXCEPT ![turn_id] = @ + 1]
  /\ UNCHANGED <<turn_id, answer, mark>>

Apologise ==
  /\ turn_id \in TurnIds
  /\ mark[turn_id] = "none" /\ answer[turn_id].state = "failed"
  /\ mark' = [mark EXCEPT ![turn_id] = "sorry"]
  /\ UNCHANGED <<turn_id, answer, said>>

DeclareOver ==
  /\ turn_id \in TurnIds
  /\ \/ mark[turn_id] = "sorry"
     \/ /\ mark[turn_id] = "none" /\ answer[turn_id].state = "whole"
        /\ said[turn_id] = answer[turn_id].chunks
  /\ mark' = [mark EXCEPT ![turn_id] = "ended"]
  /\ UNCHANGED <<turn_id, answer, said>>

SpeechNext ==
  \/ CallerSpeaks \/ Begin \/ \E t \in TurnIds : Arrives(t)
  \/ Say \/ Apologise \/ DeclareOver

SpeechSpec == SpeechInit /\ [][SpeechNext]_speechVars
=============================================================================
