--------------------------- MODULE AgentLoopProofs ---------------------------
(***************************************************************************)
(* The tool-calling loop keeps its promises whatever its limits: LoopInv   *)
(* is inductive, and what the loop promises in every state follows from    *)
(* it.  How an action leaves the fields of the turn comes first, then one  *)
(* lemma per part of the invariant.                                        *)
(***************************************************************************)
EXTENDS AgentLoop, SequenceTheorems, TLAPS

Content == [role : {"user", "model"}, calls : Nat, answers : Nat]
Contents == Seq(Content)
CallNames == ModelCalls \cup {Nameless}

(* A turn that goes on has a round left.                                   *)
RoundLeft == turn.pc \in {"generate", "execute"} => turn.iteration < MAX_ITERATIONS

(* Whatever the turn is at, its result so far tells what the tools did.    *)
EffectsKept ==
  /\ turn.created \in turn.effects \cup {None}
  /\ turn.created = None => turn.effects \cap Categories \subseteq turn.lost
  /\ turn.show_feedback => turn.effects # {}
  /\ turn.effects \subseteq turn.lost \/ turn.show_feedback

(* The context knows of a prior reply only in a chat that has had one.     *)
PriorWasHeard == turn.prior => mode = "chat" /\ heard

(* Of what was spoken in a turn, the text of the stream under way is the   *)
(* end, nothing was spoken twice, and all of it came from the model.       *)
EndsWith(s, t) ==
  Len(t) <= Len(s) /\ \A k \in 1..Len(t) : s[Len(s) - Len(t) + k] = t[k]

Distinct(s) == \A i, j \in 1..Len(s) : s[i] = s[j] => i = j

SaidBy(s, iteration, n) ==
  \A i \in 1..Len(s) :
    /\ s[i][1] = "model"
    /\ s[i][2] < iteration \/ (s[i][2] = iteration /\ s[i][3] <= n)

SpokenSoFar ==
  mode = "voice" /\ turn.pc \in {"generate", "execute"} =>
    /\ EndsWith(turn.spoken, turn.text)
    /\ Distinct(turn.spoken)
    /\ SaidBy(turn.spoken, turn.iteration, Len(turn.text))

SpokenInTheEnd ==
  mode = "voice" /\ turn.pc = "done" =>
    /\ turn.reply # <<>>
    /\ EndsWith(turn.spoken, turn.reply)
    /\ Distinct(turn.spoken)

(* Calls and answers stand in pairs, except for those that the chat turn   *)
(* is working on: it owes as many answers as it has calls left.            *)
Pairs(c) ==
  \A i \in 1..Len(c) :
    /\ c[i].calls # 0 => c[i].answers = 0
    /\ c[i].calls # 0 /\ i + 1 \in 1..Len(c) => c[i + 1].answers = c[i].calls
    /\ c[i].answers # 0 => i > 1 /\ c[i - 1].calls = c[i].answers

Owed ==
  contents[Len(contents)].calls =
    IF mode = "chat" /\ turn.pc = "execute" THEN turn.answers + Len(turn.calls) ELSE 0

Paired ==
  turn.pc \in {"generate", "execute"} =>
    /\ Pairs(contents) /\ contents # <<>> /\ Owed
    /\ turn.made = turn.answers
    /\ turn.pc = "generate" => turn.answers = 0
    /\ mode = "chat" => turn.calls \in Seq(ModelCalls)

LoopInv ==
  /\ TypeOK /\ RoundLeft /\ EffectsKept /\ PriorWasHeard
  /\ SpokenSoFar /\ SpokenInTheEnd /\ Paired

-----------------------------------------------------------------------------
(* The fields of the turn.                                                  *)

LEMMA ShortSeqs ==
  ASSUME NEW S, NEW x \in S
  PROVE  <<>> \in Seq(S) /\ <<x>> \in Seq(S)
  OBVIOUS

LEMMA PieceTypes ==
  /\ Apology \in Seq(Pieces) /\ Pause \in Seq(Pieces)
  /\ \A n \in 1..MaxPieces, i \in 0..MAX_ITERATIONS : Said(i, n) \in Pieces
  BY LoopBounds DEF LoopBounds, Apology, Pause, Said, Pieces

LEMMA CallSeqType == \A c \in CallSeqs : c \in Seq(ModelCalls) /\ c \in Seq(CallNames) /\ c # <<>>
<1>. SUFFICES ASSUME NEW n \in 1..MaxCalls, NEW c \in [1..n -> ModelCalls]
              PROVE  c \in Seq(ModelCalls) /\ c \in Seq(CallNames) /\ c # <<>>
  BY LoopBounds DEF CallSeqs, LoopBounds
<1>. QED
  BY SeqDef, LoopBounds DEF CallNames, LoopBounds

LEMMA TakeType ==
  ASSUME turn \in TurnRecords, turn.calls # <<>>
  PROVE  Head(turn.calls) \in CallNames /\ Tail(turn.calls) \in Seq(CallNames)
  BY HeadTailProperties DEF TurnRecords, CallNames

(* Says ends the turn and leaves what its tools did.                       *)
LEMMA SaysType ==
  ASSUME NEW t \in TurnRecords, NEW p \in Seq(Pieces)
  PROVE  Says(t, p) \in TurnRecords
<1>1. t.spoken \in Seq(Pieces)
  BY DEF TurnRecords
<1>2. t.spoken \o p \in Seq(Pieces)
  BY <1>1
<1>3. ASSUME NEW s \in Seq(Pieces)
      PROVE  [t EXCEPT !.pc = "done", !.reply = p, !.spoken = s] \in TurnRecords
  BY DEF TurnRecords
<1>. QED
  BY <1>1, <1>2, <1>3 DEF Says

LEMMA SaysFields ==
  ASSUME NEW t \in TurnRecords, NEW p \in Seq(Pieces)
  PROVE  /\ Says(t, p).pc = "done" /\ Says(t, p).reply = p
         /\ Says(t, p).spoken = IF mode = "voice" THEN t.spoken \o p ELSE t.spoken
         /\ Says(t, p).attempt = t.attempt /\ Says(t, p).iteration = t.iteration
         /\ Says(t, p).created = t.created /\ Says(t, p).effects = t.effects
         /\ Says(t, p).show_feedback = t.show_feedback /\ Says(t, p).lost = t.lost
         /\ Says(t, p).prior = t.prior
  BY DEF Says, TurnRecords

(* The three ways in which the answers of a round go on.                   *)
NextRound ==
  [turn EXCEPT !.pc = "generate", !.iteration = @ + 1, !.attempt = 0,
               !.text = <<>>, !.made = 0, !.answers = 0]

LEMMA AnswersCases ==
  ASSUME Answers
  PROVE  /\ turn.pc = "execute" /\ turn.calls = <<>>
         /\ \/ turn.answers = 0 /\ turn' = Apologises(turn)
            \/ /\ turn.answers # 0
               /\ contents' = contents
                     \o (IF mode = "voice" THEN <<ModelAsks(turn.made)>> ELSE <<>>)
                     \o <<ToolsAnswer(turn.answers)>>
               /\ \/ turn' = NextRound /\ NextRound.iteration < MAX_ITERATIONS
                  \/ turn' = Says(NextRound, Pause)
  BY DEF Answers, NextRound

LEMMA NextRoundType ==
  ASSUME turn \in TurnRecords, RoundLeft, turn.pc = "execute"
  PROVE  NextRound \in TurnRecords
<1>1. turn.iteration + 1 \in 0..MAX_ITERATIONS
  BY LoopBounds DEF RoundLeft, LoopBounds, TurnRecords
<1>2. ASSUME NEW i \in 0..MAX_ITERATIONS, NEW s \in Seq(Pieces), NEW n \in Nat
      PROVE  [turn EXCEPT !.pc = "generate", !.iteration = i, !.attempt = n,
                          !.text = s, !.made = n, !.answers = n] \in TurnRecords
  BY DEF TurnRecords
<1>3. <<>> \in Seq(Pieces) /\ 0 \in Nat
  OBVIOUS
<1>. QED
  BY <1>1, <1>2, <1>3, Zenon DEF NextRound

LEMMA NextRoundFields ==
  ASSUME turn \in TurnRecords
  PROVE  /\ NextRound.pc = "generate" /\ NextRound.iteration = turn.iteration + 1
         /\ NextRound.attempt = 0 /\ NextRound.text = <<>>
         /\ NextRound.made = 0 /\ NextRound.answers = 0
         /\ NextRound.spoken = turn.spoken /\ NextRound.calls = turn.calls
         /\ NextRound.created = turn.created /\ NextRound.effects = turn.effects
         /\ NextRound.show_feedback = turn.show_feedback
         /\ NextRound.lost = turn.lost /\ NextRound.prior = turn.prior
  BY DEF NextRound, TurnRecords

(* What the executor makes of the turn.                                    *)
Taken == [turn EXCEPT !.calls = Tail(@), !.made = @ + 1, !.answers = @ + 1]

LEMMA TakenType ==
  ASSUME turn \in TurnRecords, turn.calls # <<>>
  PROVE  Taken \in TurnRecords
<1>1. turn.made + 1 \in Nat /\ turn.answers + 1 \in Nat
  BY DEF TurnRecords
<1>2. ASSUME NEW s \in Seq(CallNames), NEW m \in Nat, NEW n \in Nat
      PROVE  [turn EXCEPT !.calls = s, !.made = m, !.answers = n] \in TurnRecords
  BY DEF TurnRecords, CallNames
<1>. QED
  BY <1>1, <1>2, TakeType DEF Taken

LEMMA TakenFields ==
  ASSUME turn \in TurnRecords
  PROVE  /\ Taken.pc = turn.pc /\ Taken.prior = turn.prior
         /\ Taken.iteration = turn.iteration /\ Taken.attempt = turn.attempt
         /\ Taken.text = turn.text /\ Taken.spoken = turn.spoken /\ Taken.reply = turn.reply
         /\ Taken.calls = Tail(turn.calls)
         /\ Taken.made = turn.made + 1 /\ Taken.answers = turn.answers + 1
         /\ Taken.created = turn.created /\ Taken.effects = turn.effects
         /\ Taken.show_feedback = turn.show_feedback /\ Taken.lost = turn.lost
  BY DEF Taken, TurnRecords

(* What the tools have stored is recorded beside it.                       *)
Stored(t, stored, gone) == [t EXCEPT !.effects = @ \cup stored, !.lost = gone]

(* A lookup, a failure or a refusal, which may have stored a ticket; a     *)
(* resolution; a ticket that is reported.                                  *)
LEMMA ExecutesCases ==
  ASSUME turn \in TurnRecords, Executes
  PROVE  /\ turn.pc = "execute" /\ turn.calls # <<>> /\ Head(turn.calls) \in ModelCalls
         /\ \/ \E stored \in SUBSET Categories :
                 turn' = Stored(Taken, stored, turn.lost \cup (stored \ turn.effects))
            \/ turn' = Stored(Resolved(Taken), {"resolved"}, turn.lost \ {"resolved"})
            \/ \E c \in Categories : turn' = Stored(Raised(Taken, c), {c}, turn.lost \ {c})
<1> DEFINE call == Head(turn.calls)
           Reports(ok) == IF ~ok \/ call = Lookup THEN Taken
                          ELSE IF call = Resolve THEN Resolved(Taken)
                          ELSE Raised(Taken, call.category)
<1>1. turn.calls # <<>> /\ call \in ModelCalls /\ turn.pc = "execute"
  BY TakeType DEF Executes, CallNames
<1>2. PICK ok \in BOOLEAN, stored \in SUBSET Effects :
        MayEnd(call, ok, stored) /\ turn' = Executed(call, ok, stored)
  BY DEF Executes
<1>3. Taken \in TurnRecords /\ Taken.lost = turn.lost
  BY <1>1, TakenType, TakenFields
<1>4. Resolve # Lookup /\ {} \in SUBSET Categories
  BY DEF Resolve, Lookup, Call
<1>5. ASSUME NEW t, Reports(ok) = t, t.lost = turn.lost
      PROVE  turn' = Stored(t, stored, IF ok THEN turn.lost \ stored
                                       ELSE turn.lost \cup (stored \ turn.effects))
  <2>1. turn' = [t EXCEPT !.effects = @ \cup stored,
                          !.lost = IF ok THEN @ \ stored ELSE @ \cup (stored \ turn.effects)]
    BY <1>2, <1>5, Zenon DEF Executed, Reported, Taken
  <2>. QED
    BY <1>5, <2>1, Zenon DEF Stored
<1>6. CASE stored = {} /\ (~ok \/ call = Lookup)
  <2>1. turn' = Stored(Taken, {}, IF ok THEN turn.lost \ {}
                                  ELSE turn.lost \cup ({} \ turn.effects))
    BY <1>3, <1>5, <1>6, Zenon
  <2>2. turn.lost \ {} = turn.lost \cup ({} \ turn.effects)
    OBVIOUS
  <2>3. turn' = Stored(Taken, {}, turn.lost \cup ({} \ turn.effects))
    BY <2>1, <2>2, Zenon
  <2>. QED
    BY <1>1, <1>4, <2>3, Zenon
<1>7. CASE ok /\ call = Resolve /\ stored = {"resolved"}
  <2>1. Resolved(Taken).lost = turn.lost
    BY <1>3 DEF Resolved, TurnRecords
  <2>2. turn' = Stored(Resolved(Taken), {"resolved"}, turn.lost \ {"resolved"})
    BY <1>4, <1>5, <1>7, <2>1, Zenon
  <2>. QED
    BY <1>1, <2>2, Zenon
<1>8. CASE call # Lookup /\ call # Resolve /\ stored = {call.category}
  <2>1. call.category \in Categories
    BY <1>1, <1>8 DEF ModelCalls, Call
  <2>2. {call.category} \in SUBSET Categories
    BY <2>1
  <2>3. CASE ok
    <3>1. Raised(Taken, call.category).lost = turn.lost
      BY <1>3 DEF Raised, TurnRecords
    <3>2. turn' = Stored(Raised(Taken, call.category), {call.category},
                         turn.lost \ {call.category})
      BY <1>5, <1>8, <2>3, <3>1, Zenon
    <3>. QED
      BY <1>1, <2>1, <3>2, Zenon
  <2>4. CASE ~ok
    <3>1. turn' = Stored(Taken, {call.category},
                         turn.lost \cup ({call.category} \ turn.effects))
      BY <1>3, <1>5, <1>8, <2>4, Zenon
    <3>. QED
      BY <1>1, <2>2, <3>1, Zenon
  <2>. QED
    BY <2>3, <2>4
<1>. QED
  BY <1>2, <1>6, <1>7, <1>8, Zenon DEF MayEnd

LEMMA ToolTypes ==
  ASSUME NEW t \in TurnRecords
  PROVE  Resolved(t) \in TurnRecords /\ \A c \in Categories : Raised(t, c) \in TurnRecords
  BY DEF Resolved, Raised, TurnRecords

(* Neither the metadata nor the record changes anything else.              *)
LEMMA ToolFields ==
  ASSUME NEW t \in TurnRecords, NEW u \in TurnRecords,
         u = t \/ u = Resolved(t) \/ \E c \in Categories : u = Raised(t, c)
  PROVE  /\ u.pc = t.pc /\ u.prior = t.prior
         /\ u.iteration = t.iteration /\ u.attempt = t.attempt
         /\ u.text = t.text /\ u.spoken = t.spoken /\ u.reply = t.reply
         /\ u.calls = t.calls /\ u.made = t.made /\ u.answers = t.answers
         /\ u.effects = t.effects /\ u.lost = t.lost
  BY ZenonT(60) DEF Resolved, Raised, TurnRecords

LEMMA StoredType ==
  ASSUME NEW t \in TurnRecords, NEW stored \in SUBSET Effects, NEW gone \in SUBSET Effects
  PROVE  Stored(t, stored, gone) \in TurnRecords
<1>1. t.effects \cup stored \in SUBSET Effects
  BY DEF TurnRecords
<1>. QED
  BY <1>1 DEF Stored, TurnRecords

(* Whatever the executor does, but for what the tools report.              *)
LEMMA ExecutesFields ==
  ASSUME turn \in TurnRecords, Executes
  PROVE  /\ turn' \in TurnRecords
         /\ turn'.pc = "execute" /\ turn'.prior = turn.prior
         /\ turn'.iteration = turn.iteration /\ turn'.attempt = turn.attempt
         /\ turn'.text = turn.text /\ turn'.spoken = turn.spoken
         /\ turn'.calls = Tail(turn.calls)
         /\ turn'.made = turn.made + 1 /\ turn'.answers = turn.answers + 1
<1>1. turn.pc = "execute" /\ Taken \in TurnRecords
  BY ExecutesCases, TakenType
<1>2. PICK t \in TurnRecords, stored \in SUBSET Effects, gone \in SUBSET Effects :
        /\ t = Taken \/ t = Resolved(Taken) \/ \E c \in Categories : t = Raised(Taken, c)
        /\ turn' = Stored(t, stored, gone)
  <2>1. turn.lost \in SUBSET Effects /\ {"resolved"} \in SUBSET Effects
    BY DEF Effects, TurnRecords
  <2>2. CASE \E stored \in SUBSET Categories :
               turn' = Stored(Taken, stored, turn.lost \cup (stored \ turn.effects))
    <3>1. PICK stored \in SUBSET Categories :
            turn' = Stored(Taken, stored, turn.lost \cup (stored \ turn.effects))
      BY <2>2
    <3>2. /\ stored \in SUBSET Effects
          /\ turn.lost \cup (stored \ turn.effects) \in SUBSET Effects
      BY <2>1 DEF Effects
    <3>. QED
      BY <1>1, <3>1, <3>2, Zenon
  <2>3. CASE turn' = Stored(Resolved(Taken), {"resolved"}, turn.lost \ {"resolved"})
    <3>1. turn.lost \ {"resolved"} \in SUBSET Effects
      BY <2>1
    <3>. QED
      BY <1>1, <2>1, <2>3, <3>1, ToolTypes, Zenon
  <2>4. CASE \E c \in Categories : turn' = Stored(Raised(Taken, c), {c}, turn.lost \ {c})
    <3>1. PICK c \in Categories : turn' = Stored(Raised(Taken, c), {c}, turn.lost \ {c})
      BY <2>4
    <3>2. {c} \in SUBSET Effects /\ turn.lost \ {c} \in SUBSET Effects
      BY <2>1 DEF Effects
    <3>. QED
      BY <1>1, <3>1, <3>2, ToolTypes, Zenon
  <2>. QED
    BY <2>2, <2>3, <2>4, ExecutesCases
<1>3. turn' \in TurnRecords
  BY <1>2, StoredType, Zenon
<1>4. /\ turn'.pc = t.pc /\ turn'.prior = t.prior
      /\ turn'.iteration = t.iteration /\ turn'.attempt = t.attempt
      /\ turn'.text = t.text /\ turn'.spoken = t.spoken
      /\ turn'.calls = t.calls /\ turn'.made = t.made /\ turn'.answers = t.answers
  BY <1>2 DEF Stored, TurnRecords
<1>5. /\ t.pc = Taken.pc /\ t.prior = Taken.prior
      /\ t.iteration = Taken.iteration /\ t.attempt = Taken.attempt
      /\ t.text = Taken.text /\ t.spoken = Taken.spoken
      /\ t.calls = Taken.calls /\ t.made = Taken.made /\ t.answers = Taken.answers
  BY <1>1, <1>2, ToolFields, Zenon
<1>. QED
  BY <1>1, <1>3, <1>4, <1>5, TakenFields

-----------------------------------------------------------------------------
(* Types.                                                                   *)

(* The caller's side: who calls does not change, what was heard stays.     *)
LEMMA CallerStep ==
  ASSUME mode \in {"chat", "voice"}, vip \in BOOLEAN, heard \in BOOLEAN, [Next]_vars
  PROVE  mode' = mode /\ vip' = vip /\ heard' \in BOOLEAN /\ (heard => heard')
  BY Zenon
  DEF Next, TurnStep, vars, Ask, Announce, TicketSettles, Deliver, TurnFails,
      Unusable, TextCompletes, CallsComplete, TextDelta, ToolDelta, StreamEnds,
      Executes, SkipsNameless, Answers

(* A turn begins with nothing done.                                        *)
LEMMA AskTurn ==
  ASSUME Ask
  PROVE  /\ turn' \in TurnRecords /\ turn'.pc = "generate"
         /\ turn'.attempt = 0 /\ turn'.iteration = 0
         /\ turn'.text = <<>> /\ turn'.spoken = <<>> /\ turn'.calls = <<>>
         /\ turn'.made = 0 /\ turn'.answers = 0
         /\ turn'.created = None /\ turn'.effects = {}
         /\ turn'.show_feedback = FALSE /\ turn'.lost = {}
         /\ turn'.prior = (mode = "chat" /\ heard)
<1> DEFINE T(b) == [NoTurn EXCEPT !.pc = "generate", !.prior = b]
<1>1. (mode = "chat" /\ heard) \in BOOLEAN
  OBVIOUS
<1>2. NoTurn \in TurnRecords
  BY LoopBounds DEF LoopBounds, TurnRecords, NoTurn
<1>3. ASSUME NEW t \in TurnRecords, NEW b \in BOOLEAN
      PROVE  [t EXCEPT !.pc = "generate", !.prior = b] \in TurnRecords
  BY DEF TurnRecords
<1>4. ASSUME NEW b \in BOOLEAN
      PROVE  /\ T(b).pc = "generate" /\ T(b).attempt = 0 /\ T(b).iteration = 0
             /\ T(b).text = <<>> /\ T(b).spoken = <<>> /\ T(b).calls = <<>>
             /\ T(b).made = 0 /\ T(b).answers = 0 /\ T(b).created = None /\ T(b).effects = {}
             /\ T(b).show_feedback = FALSE /\ T(b).lost = {} /\ T(b).prior = b
  BY DEF NoTurn
<1>. QED
  BY <1>1, <1>2, <1>3, <1>4, Zenon DEF Ask

LEMMA IdleTurn ==
  ASSUME Deliver \/ TurnFails
  PROVE  turn' = NoTurn /\ contents' = <<>> /\ NoTurn \in TurnRecords
  BY LoopBounds DEF LoopBounds, Deliver, TurnFails, Idles, TurnRecords, NoTurn

(* Every action keeps the type of the turn.                                *)
LEMMA TurnType ==
  ASSUME turn \in TurnRecords, RoundLeft, [Next]_vars
  PROVE  turn' \in TurnRecords
<1>0. Apologises(turn) \in TurnRecords
  BY PieceTypes, SaysType DEF Apologises
<1>1. CASE Ask
  BY <1>1, AskTurn
<1>2. CASE Announce \/ TicketSettles \/ UNCHANGED vars
  BY <1>2 DEF Announce, TicketSettles, vars
<1>3. CASE Deliver \/ TurnFails
  BY <1>3, IdleTurn
<1>4. CASE Unusable
  <2>1. turn.attempt \in Nat
    BY DEF TurnRecords
  <2>2. ASSUME NEW n \in Nat PROVE [turn EXCEPT !.attempt = n] \in TurnRecords
    BY DEF TurnRecords
  <2>3. [turn EXCEPT !.attempt = @ + 1] \in TurnRecords
    BY <2>1, <2>2
  <2>. QED
    BY <1>0, <1>4, <2>3 DEF Unusable, AsksAgain
<1>5. CASE TextCompletes
  <2>1. Said(turn.iteration, 1) \in Pieces
    BY PieceTypes, LoopBounds DEF TurnRecords, LoopBounds
  <2>2. <<Said(turn.iteration, 1)>> \in Seq(Pieces) /\ <<>> \in Seq(Pieces)
    BY <2>1
  <2>. QED
    BY <1>5, <2>2, SaysType DEF TextCompletes
<1>6. CASE CallsComplete
  <2>1. ASSUME NEW c \in CallSeqs
        PROVE  [turn EXCEPT !.pc = "execute", !.calls = c] \in TurnRecords
    BY CallSeqType DEF TurnRecords, CallNames
  <2>. QED
    BY <1>6, <2>1 DEF CallsComplete
<1>7. CASE TextDelta
  <2>1. turn.text \in Seq(Pieces) /\ Len(turn.text) \in Nat
    BY DEF TurnRecords
  <2>2. Len(turn.text) + 1 \in 1..MaxPieces /\ turn.iteration \in 0..MAX_ITERATIONS
    BY <1>7, <2>1, LoopBounds DEF TextDelta, TurnRecords, LoopBounds
  <2>3. PICK p \in Pieces :
          turn' = [turn EXCEPT !.text = Append(@, p), !.spoken = Append(@, p)]
    BY <1>7, <2>2, PieceTypes DEF TextDelta
  <2>4. Append(turn.text, p) \in Seq(Pieces) /\ Append(turn.spoken, p) \in Seq(Pieces)
    BY DEF TurnRecords
  <2>5. ASSUME NEW s \in Seq(Pieces), NEW u \in Seq(Pieces)
        PROVE  [turn EXCEPT !.text = s, !.spoken = u] \in TurnRecords
    BY DEF TurnRecords
  <2>. QED
    BY <2>3, <2>4, <2>5
<1>8. CASE ToolDelta
  <2>1. turn.calls \in Seq(CallNames)
    BY DEF TurnRecords, CallNames
  <2>2. ASSUME NEW s \in Seq(CallNames) PROVE [turn EXCEPT !.calls = s] \in TurnRecords
    BY DEF TurnRecords, CallNames
  <2>3. Append(turn.calls, Nameless) \in Seq(CallNames)
    BY <2>1 DEF CallNames
  <2>4. ASSUME NEW i \in DOMAIN turn.calls, NEW c \in ModelCalls
        PROVE  [turn.calls EXCEPT ![i] = c] \in Seq(CallNames)
    BY <2>1 DEF CallNames
  <2>5. \/ turn' = [turn EXCEPT !.calls = Append(turn.calls, Nameless)]
        \/ \E i \in DOMAIN turn.calls, c \in ModelCalls :
             turn' = [turn EXCEPT !.calls = [turn.calls EXCEPT ![i] = c]]
    BY <1>8 DEF ToolDelta, TurnRecords
  <2>. QED
    BY <2>2, <2>3, <2>4, <2>5
<1>9. CASE StreamEnds
  <2>1. turn.text \in Seq(Pieces) /\ turn.attempt + 1 \in Nat
    BY DEF TurnRecords
  <2>2. ASSUME NEW n \in Nat, NEW s \in Seq(Pieces)
        PROVE  /\ [turn EXCEPT !.attempt = n] \in TurnRecords
               /\ [turn EXCEPT !.pc = "execute"] \in TurnRecords
               /\ [turn EXCEPT !.pc = "done", !.reply = s] \in TurnRecords
    BY DEF TurnRecords
  <2>. QED
    BY <1>0, <1>9, <2>1, <2>2 DEF StreamEnds
<1>10. CASE Executes
  BY <1>10, ExecutesFields
<1>11. CASE SkipsNameless
  <2>1. ASSUME NEW s \in Seq(CallNames) PROVE [turn EXCEPT !.calls = s] \in TurnRecords
    BY DEF TurnRecords, CallNames
  <2>. QED
    BY <1>11, <2>1, TakeType DEF SkipsNameless, Dropped
<1>12. CASE Answers
  BY <1>0, <1>12, AnswersCases, NextRoundType, PieceTypes, SaysType
<1>. QED
  BY <1>1, <1>2, <1>3, <1>4, <1>5, <1>6, <1>7, <1>8, <1>9, <1>10, <1>11, <1>12 DEF Next, TurnStep

(* Budgets and rounds.                                                     *)
LEMMA BudgetStep ==
  ASSUME turn \in TurnRecords, WithinBudget, RoundLeft, [Next]_vars
  PROVE  WithinBudget' /\ RoundLeft'
<1>0. /\ turn.iteration \in Nat /\ turn.attempt \in Nat /\ MAX_ITERATIONS \in Nat \ {0}
      /\ MAX_GENERATE_ATTEMPTS \in Nat \ {0} /\ MAX_STREAM_EMPTY_RETRIES \in Nat
  BY LoopBounds DEF LoopBounds, TurnRecords
<1>. USE <1>0 DEF WithinBudget, RoundLeft
<1>1. CASE Ask
  BY <1>1, AskTurn
<1>2. CASE Announce \/ TicketSettles \/ UNCHANGED vars
  BY <1>2 DEF Announce, TicketSettles, vars
<1>3. CASE Deliver \/ TurnFails
  BY <1>3, IdleTurn DEF NoTurn
<1>4. CASE Unusable
  BY <1>4 DEF Unusable, AsksAgain, Apologises, Says, TurnRecords
<1>5. CASE TextCompletes
  BY <1>5 DEF TextCompletes, Says, TurnRecords
<1>6. CASE CallsComplete
  BY <1>6 DEF CallsComplete, TurnRecords
<1>7. CASE TextDelta \/ ToolDelta
  BY <1>7 DEF TextDelta, ToolDelta, StreamOpen, TurnRecords
<1>8. CASE StreamEnds
  BY <1>8 DEF StreamEnds, StreamOpen, Apologises, Says, TurnRecords
<1>9. CASE Executes
  BY <1>9, ExecutesFields, ExecutesCases
<1>10. CASE SkipsNameless
  BY <1>10 DEF SkipsNameless, Dropped, TurnRecords
<1>11. CASE Answers
  <2>1. NextRound \in TurnRecords
    BY <1>11, AnswersCases, NextRoundType
  <2>. QED
    BY <1>11, <2>1, AnswersCases, NextRoundFields, SaysFields, PieceTypes DEF Apologises
<1>. QED
  BY <1>1, <1>2, <1>3, <1>4, <1>5, <1>6, <1>7, <1>8, <1>9, <1>10, <1>11 DEF Next, TurnStep

(* What the model is sent.                                                 *)
LEMMA ContentsStep ==
  ASSUME turn \in TurnRecords, contents \in Contents, active \subseteq Categories, [Next]_vars
  PROVE  contents' \in Contents /\ active' \subseteq Categories
<1>1. \A n \in Nat : ModelAsks(n) \in Content /\ ToolsAnswer(n) \in Content
  BY DEF ModelAsks, ToolsAnswer, Content
<1>2. Text("user") \in Content /\ Text("model") \in Content
  BY DEF Text, Content
<1>3. turn.made \in Nat /\ turn.answers \in Nat /\ turn.calls \in Seq(CallNames)
  BY DEF TurnRecords, CallNames
<1>4. CASE Ask
  BY <1>2, <1>4 DEF Ask, Contents
<1>5. CASE Deliver \/ TurnFails
  <2>1. contents' = <<>> /\ active' = active
    BY <1>5 DEF Deliver, TurnFails, Idles
  <2>. QED
    BY <2>1 DEF Contents
<1>6. CASE TextCompletes
  BY <1>2, <1>6 DEF TextCompletes, Contents
<1>7. CASE CallsComplete
  <2>1. PICK c \in CallSeqs : contents' = Append(contents, ModelAsks(Len(c)))
    BY <1>7 DEF CallsComplete
  <2>2. Len(c) \in Nat
    BY CallSeqType
  <2>. QED
    BY <1>1, <1>7, <2>1, <2>2 DEF CallsComplete, Contents
<1>8. CASE Executes
  <2>. QED
    BY <1>8 DEF Executes
<1>9. CASE Answers
  <2>1. UNCHANGED contents \/ turn.answers # 0
    BY <1>9 DEF Answers
  <2>2. <<ToolsAnswer(turn.answers)>> \in Contents
        /\ <<ModelAsks(turn.made)>> \in Contents /\ <<>> \in Contents
    BY <1>1, <1>3, ShortSeqs DEF Contents
  <2>3. (IF mode = "voice" THEN <<ModelAsks(turn.made)>> ELSE <<>>) \in Contents
    BY <2>2
  <2>4. ASSUME NEW s \in Contents, NEW t \in Contents PROVE contents \o s \o t \in Contents
    BY DEF Contents
  <2>5. active' = active
    BY <1>9 DEF Answers
  <2>6. turn.answers # 0 => contents' = contents
                     \o (IF mode = "voice" THEN <<ModelAsks(turn.made)>> ELSE <<>>)
                     \o <<ToolsAnswer(turn.answers)>>
    BY <1>9, AnswersCases
  <2>. QED
    BY <2>1, <2>2, <2>3, <2>4, <2>5, <2>6, Zenon
<1>10. CASE Unusable \/ TextDelta \/ ToolDelta \/ StreamEnds \/ SkipsNameless
  BY <1>10 DEF Unusable, TextDelta, ToolDelta, StreamEnds, SkipsNameless
<1>11. CASE Announce \/ TicketSettles \/ UNCHANGED vars
  BY <1>11 DEF Announce, TicketSettles, vars
<1>. QED
  BY <1>4, <1>5, <1>6, <1>7, <1>8, <1>9, <1>10, <1>11, Zenon DEF Next, TurnStep

-----------------------------------------------------------------------------
(* What the tools did, and what the context knows.                          *)

LEMMA EffectsStep ==
  ASSUME turn \in TurnRecords, EffectsKept, [Next]_vars
  PROVE  EffectsKept'
<1>. USE DEF EffectsKept
<1>1. CASE Ask
  BY <1>1, AskTurn
<1>2. CASE Announce \/ TicketSettles \/ UNCHANGED vars
  BY <1>2 DEF Announce, TicketSettles, vars
<1>3. CASE Deliver \/ TurnFails
  <2>1. /\ turn'.created = None /\ turn'.effects = {}
        /\ turn'.show_feedback = FALSE /\ turn'.lost = {}
    BY <1>3, IdleTurn DEF NoTurn
  <2>. QED
    BY <2>1
<1>4. CASE Unusable
  BY <1>4 DEF Unusable, AsksAgain, Apologises, Says, TurnRecords
<1>5. CASE TextCompletes
  BY <1>5 DEF TextCompletes, Says, TurnRecords
<1>6. CASE CallsComplete
  BY <1>6 DEF CallsComplete, TurnRecords
<1>7. CASE TextDelta \/ ToolDelta
  BY <1>7 DEF TextDelta, ToolDelta, StreamOpen, TurnRecords
<1>8. CASE StreamEnds
  BY <1>8 DEF StreamEnds, StreamOpen, Apologises, Says, TurnRecords
<1>9. CASE Executes
  <2>1. Taken \in TurnRecords
    BY <1>9, ExecutesCases, TakenType
  <2>2. /\ Taken.created = turn.created /\ Taken.effects = turn.effects
        /\ Taken.show_feedback = turn.show_feedback /\ Taken.lost = turn.lost
    BY TakenFields
  <2>3. CASE \E stored \in SUBSET Categories :
               turn' = Stored(Taken, stored, turn.lost \cup (stored \ turn.effects))
    <3>1. PICK stored \in SUBSET Categories :
            turn' = Stored(Taken, stored, turn.lost \cup (stored \ turn.effects))
      BY <2>3
    <3>2. /\ turn'.created = turn.created /\ turn'.show_feedback = turn.show_feedback
          /\ turn'.effects = turn.effects \cup stored
          /\ turn'.lost = turn.lost \cup (stored \ turn.effects)
      BY <2>1, <2>2, <3>1 DEF Stored, TurnRecords
    <3>. QED
      BY <3>1, <3>2
  <2>4. CASE turn' = Stored(Resolved(Taken), {"resolved"}, turn.lost \ {"resolved"})
    <3>1. /\ Resolved(Taken) \in TurnRecords
          /\ Resolved(Taken).created = turn.created /\ Resolved(Taken).effects = turn.effects
          /\ Resolved(Taken).show_feedback = TRUE /\ Resolved(Taken).lost = turn.lost
      BY <2>1, <2>2 DEF Resolved, TurnRecords
    <3>2. "resolved" \notin Categories
      BY DEF Categories
    <3>3. /\ turn'.created = turn.created /\ turn'.show_feedback = TRUE
          /\ turn'.effects = turn.effects \cup {"resolved"}
          /\ turn'.lost = turn.lost \ {"resolved"}
      BY <2>4, <3>1 DEF Stored, TurnRecords
    <3>. QED
      BY <3>2, <3>3
  <2>5. CASE \E c \in Categories : turn' = Stored(Raised(Taken, c), {c}, turn.lost \ {c})
    <3>1. PICK c \in Categories : turn' = Stored(Raised(Taken, c), {c}, turn.lost \ {c})
      BY <2>5
    <3>2. /\ Raised(Taken, c) \in TurnRecords
          /\ Raised(Taken, c).created = c /\ Raised(Taken, c).show_feedback = TRUE
          /\ Raised(Taken, c).effects = turn.effects /\ Raised(Taken, c).lost = turn.lost
      BY <2>1, <2>2 DEF Raised, TurnRecords
    <3>3. /\ turn'.created = c /\ turn'.show_feedback = TRUE
          /\ turn'.effects = turn.effects \cup {c} /\ turn'.lost = turn.lost \ {c}
      BY <3>1, <3>2 DEF Stored, TurnRecords
    <3>. QED
      BY <3>3, NoneIsNoCategory
  <2>. QED
    BY <1>9, <2>3, <2>4, <2>5, ExecutesCases
<1>10. CASE SkipsNameless
  BY <1>10 DEF SkipsNameless, Dropped, TurnRecords
<1>11. CASE Answers
  <2>1. NextRound.created = turn.created /\ NextRound.effects = turn.effects
        /\ NextRound.show_feedback = turn.show_feedback /\ NextRound.lost = turn.lost
    BY NextRoundFields
  <2>2. \A p : /\ Says(turn, p).created = turn.created
               /\ Says(turn, p).effects = turn.effects
               /\ Says(turn, p).show_feedback = turn.show_feedback
               /\ Says(turn, p).lost = turn.lost
    BY DEF Says, TurnRecords
  <2>3. \A p : /\ Says(NextRound, p).created = turn.created
               /\ Says(NextRound, p).effects = turn.effects
               /\ Says(NextRound, p).show_feedback = turn.show_feedback
               /\ Says(NextRound, p).lost = turn.lost
    BY <2>1 DEF Says, NextRound, TurnRecords
  <2>4. \/ turn' = Says(turn, Apology) \/ turn' = NextRound \/ turn' = Says(NextRound, Pause)
    BY <1>11, AnswersCases DEF Apologises
  <2>. QED
    BY <2>1, <2>2, <2>3, <2>4
<1>. QED
  BY <1>1, <1>2, <1>3, <1>4, <1>5, <1>6, <1>7, <1>8, <1>9, <1>10, <1>11 DEF Next, TurnStep

LEMMA PriorStep ==
  ASSUME turn \in TurnRecords, PriorWasHeard, [Next]_vars, heard => heard', mode' = mode
  PROVE  PriorWasHeard'
<1>1. CASE Ask
  <2>1. turn'.prior = (mode = "chat" /\ heard)
    BY <1>1, AskTurn
  <2>. QED
    BY <2>1, Zenon DEF PriorWasHeard
<1>2. CASE Deliver \/ TurnFails
  <2>1. turn'.prior = FALSE
    BY <1>2, IdleTurn DEF NoTurn
  <2>. QED
    BY <2>1, Zenon DEF PriorWasHeard
<1>3. CASE ~(Ask \/ Deliver \/ TurnFails)
  <2>. SUFFICES turn'.prior = turn.prior
    BY Zenon DEF PriorWasHeard
  <2>1. CASE Unusable \/ TextCompletes \/ CallsComplete \/ TextDelta \/ ToolDelta \/ StreamEnds
    BY <2>1 DEF Unusable, AsksAgain, Apologises, Says, TextCompletes, CallsComplete,
                TextDelta, ToolDelta, StreamEnds, StreamOpen, TurnRecords
  <2>2. CASE Executes
    BY <2>2, ExecutesFields
  <2>3. CASE SkipsNameless \/ Answers
    BY <2>3 DEF SkipsNameless, Dropped, Answers, Apologises, Says, TurnRecords
  <2>4. CASE Announce \/ TicketSettles \/ UNCHANGED vars
    BY <2>4 DEF Announce, TicketSettles, vars
  <2>. QED
    BY <1>3, <2>1, <2>2, <2>3, <2>4 DEF Next, TurnStep
<1>. QED
  BY <1>1, <1>2, <1>3

-----------------------------------------------------------------------------
(* What was spoken.                                                         *)

LEMMA EndsThere ==
  ASSUME NEW s, NEW t, NEW m, NEW n, Len(s) = m, Len(t) = n, n <= m,
         \A k \in 1..n : s[m - n + k] = t[k]
  PROVE  EndsWith(s, t)
  BY Zenon DEF EndsWith

(* A piece of the stream is new, and goes to the end of both.              *)
LEMMA SayNext ==
  ASSUME NEW s \in Seq(Pieces), NEW t \in Seq(Pieces), NEW n \in Nat,
         EndsWith(s, t), Distinct(s), SaidBy(s, n, Len(t)), NEW p, p = Said(n, Len(t) + 1)
  PROVE  /\ EndsWith(Append(s, p), Append(t, p)) /\ Distinct(Append(s, p))
         /\ SaidBy(Append(s, p), n, Len(t) + 1)
<1>1. /\ Len(s) \in Nat /\ Len(t) \in Nat
      /\ Len(Append(s, p)) = Len(s) + 1 /\ Len(Append(t, p)) = Len(t) + 1
      /\ Append(s, p)[Len(s) + 1] = p /\ Append(t, p)[Len(t) + 1] = p
      /\ \A i \in 1..Len(s) : Append(s, p)[i] = s[i]
      /\ \A i \in 1..Len(t) : Append(t, p)[i] = t[i]
  OBVIOUS
<1>2. p[1] = "model" /\ p[2] = n /\ p[3] = Len(t) + 1
  BY DEF Said
<1>3. \A i \in 1..Len(s) : s[i] \in Pieces
  OBVIOUS
<1>4. \A i \in 1..Len(s) : s[i] # p
  <2>. SUFFICES ASSUME NEW i \in 1..Len(s), s[i] = p PROVE FALSE
    OBVIOUS
  <2>1. s[i][2] < n \/ s[i][3] <= Len(t)
    BY DEF SaidBy
  <2>. QED
    BY <1>1, <1>2, <2>1
<1>5. EndsWith(Append(s, p), Append(t, p))
  <2>1. Len(t) + 1 <= Len(s) + 1
    BY <1>1 DEF EndsWith
  <2>2. ASSUME NEW k \in 1..(Len(t) + 1)
        PROVE  Append(s, p)[(Len(s) + 1) - (Len(t) + 1) + k] = Append(t, p)[k]
    <3>1. CASE k = Len(t) + 1
      BY <1>1, <3>1
    <3>2. CASE k \in 1..Len(t)
      <4>1. Len(s) - Len(t) + k \in 1..Len(s) /\ s[Len(s) - Len(t) + k] = t[k]
        BY <1>1, <3>2 DEF EndsWith
      <4>2. (Len(s) + 1) - (Len(t) + 1) + k = Len(s) - Len(t) + k
        BY <1>1
      <4>. QED
        BY <1>1, <3>2, <4>1, <4>2
    <3>3. k = Len(t) + 1 \/ k \in 1..Len(t)
      BY <1>1
    <3>. QED
      BY <3>1, <3>2, <3>3, Zenon
  <2>. DEFINE u == Append(s, p)
              v == Append(t, p)
              m == Len(s) + 1
              l == Len(t) + 1
  <2>3. Len(u) = m /\ Len(v) = l
    BY <1>1
  <2>4. l <= m
    BY <2>1
  <2>5. \A k \in 1..l : u[m - l + k] = v[k]
    BY <2>2
  <2>. HIDE DEF u, v, m, l
  <2>6. EndsWith(u, v)
    BY <2>3, <2>4, <2>5, EndsThere
  <2>. QED
    BY <2>6 DEF u, v
<1>6. Distinct(Append(s, p))
  <2>. SUFFICES ASSUME NEW i \in 1..(Len(s) + 1), NEW j \in 1..(Len(s) + 1),
                       Append(s, p)[i] = Append(s, p)[j]
                PROVE  i = j
    BY <1>1 DEF Distinct
  <2>1. (i \in 1..Len(s) \/ i = Len(s) + 1) /\ (j \in 1..Len(s) \/ j = Len(s) + 1)
    BY <1>1
  <2>. QED
    BY <1>1, <1>4, <2>1 DEF Distinct
<1>7. SaidBy(Append(s, p), n, Len(t) + 1)
  <2>. SUFFICES ASSUME NEW i \in 1..(Len(s) + 1)
                PROVE  /\ Append(s, p)[i][1] = "model"
                       /\ \/ Append(s, p)[i][2] < n
                          \/ (Append(s, p)[i][2] = n /\ Append(s, p)[i][3] <= Len(t) + 1)
    BY <1>1, Zenon DEF SaidBy
  <2>1. CASE i = Len(s) + 1
    <3>1. Append(s, p)[i] = p /\ Len(t) + 1 <= Len(t) + 1
      BY <1>1, <2>1
    <3>. QED
      BY <1>2, <3>1
  <2>2. CASE i \in 1..Len(s)
    <3>1. s[i][3] \in Int
      BY <1>3, <2>2 DEF Pieces
    <3>. QED
      BY <1>1, <2>2, <3>1 DEF SaidBy
  <2>. QED
    BY <1>1, <2>1, <2>2
<1>. QED
  BY <1>5, <1>6, <1>7

(* What the loop says itself is no piece of the model's.                   *)
LEMMA SayLast ==
  ASSUME NEW s \in Seq(Pieces), NEW n, NEW m, Distinct(s), SaidBy(s, n, m),
         NEW x, x[1] # "model"
  PROVE  <<x>> # <<>> /\ EndsWith(s \o <<x>>, <<x>>) /\ Distinct(s \o <<x>>)
<1>1. /\ Len(s) \in Nat /\ Len(s \o <<x>>) = Len(s) + 1 /\ Len(<<x>>) = 1 /\ <<x>>[1] = x
      /\ (s \o <<x>>)[Len(s) + 1] = x
      /\ \A i \in 1..Len(s) : (s \o <<x>>)[i] = s[i]
  OBVIOUS
<1>2. EndsWith(s \o <<x>>, <<x>>)
  BY <1>1 DEF EndsWith
<1>3. Distinct(s \o <<x>>)
  <2>. SUFFICES ASSUME NEW i \in 1..(Len(s) + 1), NEW j \in 1..(Len(s) + 1),
                       (s \o <<x>>)[i] = (s \o <<x>>)[j]
                PROVE  i = j
    BY <1>1 DEF Distinct
  <2>1. (i \in 1..Len(s) \/ i = Len(s) + 1) /\ (j \in 1..Len(s) \/ j = Len(s) + 1)
    BY <1>1
  <2>2. \A k \in 1..Len(s) : s[k] # x
    BY DEF SaidBy
  <2>. QED
    BY <1>1, <2>1, <2>2 DEF Distinct
<1>. QED
  BY <1>1, <1>2, <1>3

(* Whatever the loop says last, in a turn that goes on, is heard last.     *)
LEMMA SaysWhatIsHeard ==
  ASSUME NEW t \in TurnRecords, mode = "voice", NEW n, NEW m,
         Distinct(t.spoken), SaidBy(t.spoken, n, m)
  PROVE  \A u : u = Says(t, Apology) \/ u = Says(t, Pause) =>
           /\ u.pc = "done" /\ u.reply # <<>>
           /\ EndsWith(u.spoken, u.reply) /\ Distinct(u.spoken)
<1>1. t.spoken \in Seq(Pieces)
  BY DEF TurnRecords
<1>2. \A x : x[1] # "model" =>
        <<x>> # <<>> /\ EndsWith(t.spoken \o <<x>>, <<x>>) /\ Distinct(t.spoken \o <<x>>)
  BY <1>1, SayLast
<1>3. \A p \in {Apology, Pause} :
        p # <<>> /\ EndsWith(t.spoken \o p, p) /\ Distinct(t.spoken \o p)
  <2>1. <<"apology", 0, 0>>[1] # "model" /\ <<"pause", 0, 0>>[1] # "model"
    OBVIOUS
  <2>. QED
    BY <1>2, <2>1, Zenon DEF Apology, Pause
<1>4. \A p \in {Apology, Pause} :
        Says(t, p).pc = "done" /\ Says(t, p).reply = p /\ Says(t, p).spoken = t.spoken \o p
  BY ZenonT(60), PieceTypes, SaysFields
<1>. QED
  BY <1>3, <1>4, Zenon

LEMMA SpokenStep ==
  ASSUME turn \in TurnRecords, mode \in {"chat", "voice"}, RoundLeft,
         SpokenSoFar, SpokenInTheEnd, [Next]_vars, mode' = mode
  PROVE  SpokenSoFar' /\ SpokenInTheEnd'
<1>. SUFFICES ASSUME mode = "voice"
              PROVE  SpokenSoFar' /\ SpokenInTheEnd'
  BY DEF SpokenSoFar, SpokenInTheEnd
<1>1. CASE Ask
  <2>1. turn'.pc = "generate" /\ turn'.spoken = <<>> /\ turn'.text = <<>>
    BY <1>1, AskTurn
  <2>2. EndsWith(<<>>, <<>>) /\ Distinct(<<>>) /\ \A n, m : SaidBy(<<>>, n, m)
    BY DEF EndsWith, Distinct, SaidBy
  <2>. QED
    BY <2>1, <2>2, Zenon DEF SpokenSoFar, SpokenInTheEnd
<1>2. CASE Announce \/ TicketSettles \/ UNCHANGED vars
  BY <1>2 DEF Announce, TicketSettles, vars, SpokenSoFar, SpokenInTheEnd
<1>3. CASE Deliver \/ TurnFails
  <2>1. turn'.pc = "idle"
    BY <1>3, IdleTurn DEF NoTurn
  <2>. QED
    BY <2>1 DEF SpokenSoFar, SpokenInTheEnd
<1>4. CASE Unusable \/ TextCompletes \/ CallsComplete
  BY <1>4 DEF Unusable, TextCompletes, CallsComplete
<1>5. CASE TextDelta
  <2>1. turn.pc = "generate" /\ turn'.pc = "generate" /\ turn'.iteration = turn.iteration
    BY <1>5 DEF TextDelta, StreamOpen, TurnRecords
  <2>2. /\ turn.spoken \in Seq(Pieces) /\ turn.text \in Seq(Pieces) /\ turn.iteration \in Nat
    BY LoopBounds DEF LoopBounds, TurnRecords
  <2>. DEFINE p == Said(turn.iteration, Len(turn.text) + 1)
  <2>3. turn'.text = Append(turn.text, p) /\ turn'.spoken = Append(turn.spoken, p)
    BY <1>5 DEF TextDelta, TurnRecords
  <2>4. /\ EndsWith(turn.spoken, turn.text) /\ Distinct(turn.spoken)
        /\ SaidBy(turn.spoken, turn.iteration, Len(turn.text))
    BY <2>1 DEF SpokenSoFar
  <2>5. Len(Append(turn.text, p)) = Len(turn.text) + 1
    BY <2>2
  <2>. HIDE DEF p
  <2>6. /\ EndsWith(turn'.spoken, turn'.text) /\ Distinct(turn'.spoken)
        /\ SaidBy(turn'.spoken, turn'.iteration, Len(turn'.text))
    BY <2>1, <2>2, <2>3, <2>4, <2>5, SayNext DEF p
  <2>. QED
    BY <2>1, <2>6 DEF SpokenSoFar, SpokenInTheEnd
<1>6. CASE ToolDelta
  <2>1. /\ turn.pc = "generate" /\ turn'.pc = "generate" /\ turn'.iteration = turn.iteration
        /\ turn'.text = turn.text /\ turn'.spoken = turn.spoken
    BY <1>6 DEF ToolDelta, StreamOpen, TurnRecords
  <2>. QED
    BY <2>1 DEF SpokenSoFar, SpokenInTheEnd
<1>7. CASE StreamEnds
  <2>1. turn.pc = "generate"
    BY <1>7 DEF StreamEnds, StreamOpen
  <2>2. /\ EndsWith(turn.spoken, turn.text) /\ Distinct(turn.spoken)
        /\ SaidBy(turn.spoken, turn.iteration, Len(turn.text))
    BY <2>1 DEF SpokenSoFar
  <2>3. CASE turn' = Says(turn, Apology)
    BY <2>2, <2>3, SaysWhatIsHeard DEF SpokenSoFar, SpokenInTheEnd
  <2>4. CASE turn' \in {[turn EXCEPT !.pc = "execute"], [turn EXCEPT !.attempt = @ + 1]}
    <3>1. /\ turn'.iteration = turn.iteration /\ turn'.text = turn.text
          /\ turn'.spoken = turn.spoken /\ turn'.pc \in {"generate", "execute"}
      BY <2>1, <2>4 DEF TurnRecords
    <3>. QED
      BY <2>2, <3>1 DEF SpokenSoFar, SpokenInTheEnd
  <2>5. CASE turn.text # <<>> /\ turn' = [turn EXCEPT !.pc = "done", !.reply = turn.text]
    <3>1. turn'.spoken = turn.spoken /\ turn'.reply = turn.text /\ turn'.pc = "done"
      BY <2>5 DEF TurnRecords
    <3>. QED
      BY <2>2, <2>5, <3>1 DEF SpokenSoFar, SpokenInTheEnd
  <2>. QED
    BY <1>7, <2>3, <2>4, <2>5 DEF StreamEnds, Apologises
<1>8. CASE Executes
  <2>1. turn.pc = "execute"
    BY <1>8, ExecutesCases
  <2>2. /\ turn'.pc = "execute" /\ turn'.iteration = turn.iteration
        /\ turn'.text = turn.text /\ turn'.spoken = turn.spoken
    BY <1>8, ExecutesFields
  <2>. QED
    BY <2>1, <2>2 DEF SpokenSoFar, SpokenInTheEnd
<1>9. CASE SkipsNameless
  <2>1. /\ turn.pc = "execute" /\ turn'.pc = "execute" /\ turn'.iteration = turn.iteration
        /\ turn'.text = turn.text /\ turn'.spoken = turn.spoken
    BY <1>9 DEF SkipsNameless, Dropped, TurnRecords
  <2>. QED
    BY <2>1 DEF SpokenSoFar, SpokenInTheEnd
<1>10. CASE Answers
  <2>1. turn.pc = "execute"
    BY <1>10, AnswersCases
  <2>2. /\ Distinct(turn.spoken) /\ SaidBy(turn.spoken, turn.iteration, Len(turn.text))
    BY <2>1 DEF SpokenSoFar
  <2>3. /\ NextRound \in TurnRecords /\ NextRound.pc = "generate"
        /\ NextRound.iteration = turn.iteration + 1
        /\ NextRound.text = <<>> /\ NextRound.spoken = turn.spoken
    BY <2>1, NextRoundType, NextRoundFields
  <2>4. EndsWith(turn.spoken, <<>>)
    <3>1. turn.spoken \in Seq(Pieces)
      BY DEF TurnRecords
    <3>. QED
      BY <3>1 DEF EndsWith
  <2>5. SaidBy(turn.spoken, turn.iteration + 1, Len(<<>>))
    <3>1. turn.iteration \in Nat
      BY LoopBounds DEF LoopBounds, TurnRecords
    <3>2. \A i \in 1..Len(turn.spoken) : turn.spoken[i] \in Pieces
      BY DEF TurnRecords
    <3>3. \A p \in Pieces :
            p[2] < turn.iteration \/ p[2] = turn.iteration => p[2] < turn.iteration + 1
      BY <3>1, LoopBounds DEF Pieces, LoopBounds
    <3>4. ASSUME NEW i \in 1..Len(turn.spoken)
          PROVE  turn.spoken[i][1] = "model" /\ turn.spoken[i][2] < turn.iteration + 1
      BY <2>2, <3>2, <3>3, Zenon DEF SaidBy
    <3>. QED
      BY <3>4, Zenon DEF SaidBy
  <2>6. CASE turn' = NextRound
    BY <2>2, <2>3, <2>4, <2>5, <2>6, Zenon DEF SpokenSoFar, SpokenInTheEnd
  <2>7. CASE turn' = Says(turn, Apology) \/ turn' = Says(NextRound, Pause)
    BY <2>2, <2>3, <2>7, SaysWhatIsHeard DEF SpokenSoFar, SpokenInTheEnd
  <2>. QED
    BY <1>10, <2>6, <2>7, AnswersCases DEF Apologises
<1>. QED
  BY <1>1, <1>2, <1>3, <1>4, <1>5, <1>6, <1>7, <1>8, <1>9, <1>10 DEF Next, TurnStep

-----------------------------------------------------------------------------
(* Calls and answers.                                                       *)

(* Answers to the calls at the end, or anything else after no calls, keep  *)
(* the pairs.                                                              *)
LEMMA PairAppend ==
  ASSUME NEW c \in Contents, c # <<>>, NEW x \in Content, Pairs(c),
         c[Len(c)].calls = x.answers, x.calls = 0 \/ x.answers = 0
  PROVE  /\ Pairs(Append(c, x)) /\ Append(c, x) \in Contents /\ Append(c, x) # <<>>
         /\ Append(c, x)[Len(Append(c, x))] = x
<1>. DEFINE d == Append(c, x)
<1>1. /\ Len(c) \in Nat /\ Len(c) > 0 /\ Len(d) = Len(c) + 1 /\ d[Len(c) + 1] = x
      /\ \A i \in 1..Len(c) : d[i] = c[i]
  BY DEF Contents
<1>2. d \in Contents /\ d # <<>>
  BY DEF Contents
<1>. HIDE DEF d
<1>3. \A i \in 1..Len(d) : i \in 1..Len(c) \/ i = Len(c) + 1
  BY <1>1
<1>4. Pairs(d)
  <2>. SUFFICES ASSUME NEW i \in 1..Len(d)
                PROVE  /\ d[i].calls # 0 => d[i].answers = 0
                       /\ d[i].calls # 0 /\ i + 1 \in 1..Len(d) => d[i + 1].answers = d[i].calls
                       /\ d[i].answers # 0 => i > 1 /\ d[i - 1].calls = d[i].answers
    BY Zenon DEF Pairs
  <2>1. CASE i = Len(c) + 1
    <3>1. d[i] = x /\ d[i - 1] = c[Len(c)] /\ i > 1 /\ i + 1 \notin 1..Len(d)
      BY <1>1, <2>1
    <3>. QED
      BY <3>1, Zenon
  <2>2. CASE i \in 1..Len(c) /\ i # Len(c)
    <3>1. i \in 1..Len(c) /\ d[i] = c[i] /\ i + 1 \in 1..Len(c) /\ d[i + 1] = c[i + 1]
      BY <1>1, <2>2
    <3>2. i > 1 => d[i - 1] = c[i - 1]
      BY <1>1, <2>2
    <3>. QED
      BY <3>1, <3>2, Zenon DEF Pairs
  <2>3. CASE i = Len(c)
    <3>1. i \in 1..Len(c) /\ d[i] = c[i] /\ d[i + 1] = x /\ c[i] = c[Len(c)]
      BY <1>1, <2>3
    <3>2. i > 1 => d[i - 1] = c[i - 1]
      BY <1>1, <2>3
    <3>. QED
      BY <3>1, <3>2, Zenon DEF Pairs
  <2>. QED
    BY <1>3, <2>1, <2>2, <2>3
<1>. QED
  BY <1>1, <1>2, <1>4 DEF d

(* Contents before and after an action that adds none.                     *)
LEMMA PairedKept ==
  ASSUME Paired, contents' = contents, mode' = mode,
         turn.pc \in {"generate", "execute"}, turn'.made = turn'.answers,
         turn'.pc = "generate" => turn'.answers = 0,
         mode = "chat" => turn'.calls \in Seq(ModelCalls),
         mode = "chat" => turn'.pc = turn.pc
           /\ (turn.pc = "execute" =>
                 turn'.answers + Len(turn'.calls) = turn.answers + Len(turn.calls))
  PROVE  Paired'
  BY DEF Paired, Owed

LEMMA PairedStep ==
  ASSUME turn \in TurnRecords, mode \in {"chat", "voice"}, contents \in Contents,
         Paired, [Next]_vars, mode' = mode
  PROVE  Paired'
<1>0. /\ turn.made \in Nat /\ turn.answers \in Nat /\ turn.calls \in Seq(CallNames)
  BY DEF TurnRecords, CallNames
<1>1. CASE Ask
  <2>1. /\ contents' = <<Text("user")>> /\ turn'.pc = "generate" /\ turn'.calls = <<>>
        /\ turn'.made = 0 /\ turn'.answers = 0
    BY <1>1, AskTurn DEF Ask
  <2>2. Text("user").calls = 0 /\ Text("user").answers = 0
    BY DEF Text
  <2>3. Pairs(<<Text("user")>>)
    BY <2>2 DEF Pairs
  <2>. QED
    BY <2>1, <2>2, <2>3 DEF Paired, Owed
<1>2. CASE Announce \/ TicketSettles \/ UNCHANGED vars
  BY <1>2 DEF Announce, TicketSettles, vars, Paired, Owed
<1>3. CASE turn'.pc \in {"idle", "done"}
  BY <1>3 DEF Paired
<1>4. CASE Deliver \/ TurnFails
  BY <1>3, <1>4, IdleTurn DEF NoTurn
<1>5. CASE Unusable
  <2>1. CASE turn' = Says(turn, Apology)
    BY <1>3, <2>1, SaysFields, PieceTypes
  <2>2. CASE turn' = [turn EXCEPT !.attempt = @ + 1]
    <3>1. /\ turn'.pc = turn.pc /\ turn'.made = turn.made /\ turn'.answers = turn.answers
          /\ turn'.calls = turn.calls /\ turn.pc = "generate" /\ contents' = contents
      BY <1>5, <2>2 DEF Unusable, TurnRecords
    <3>. QED
      BY <3>1, PairedKept DEF Paired
  <2>. QED
    BY <1>5, <2>1, <2>2 DEF Unusable, AsksAgain, Apologises
<1>6. CASE TextCompletes
  BY <1>3, <1>6 DEF TextCompletes, Says, TurnRecords
<1>7. CASE CallsComplete
  <2>1. PICK c \in CallSeqs : /\ contents' = Append(contents, ModelAsks(Len(c)))
                              /\ turn' = [turn EXCEPT !.pc = "execute", !.calls = c]
    BY <1>7 DEF CallsComplete
  <2>2. /\ turn.pc = "generate" /\ mode = "chat"
        /\ turn'.pc = "execute" /\ turn'.calls = c
        /\ turn'.made = turn.made /\ turn'.answers = turn.answers
    BY <1>7, <2>1 DEF CallsComplete, TurnRecords
  <2>3. c \in Seq(ModelCalls) /\ Len(c) \in Nat
    BY CallSeqType
  <2>4. /\ ModelAsks(Len(c)) \in Content
        /\ ModelAsks(Len(c)).calls = Len(c) /\ ModelAsks(Len(c)).answers = 0
    BY <2>3 DEF ModelAsks, Content
  <2>5. /\ Pairs(contents) /\ contents # <<>> /\ contents[Len(contents)].calls = 0
        /\ turn.made = turn.answers /\ turn.answers = 0
    BY <2>2 DEF Paired, Owed
  <2>6. /\ Pairs(contents') /\ contents' # <<>>
        /\ contents'[Len(contents')] = ModelAsks(Len(c))
    BY <2>1, <2>4, <2>5, PairAppend
  <2>7. turn'.answers + Len(turn'.calls) = Len(c)
    BY <2>2, <2>3, <2>5
  <2>. QED
    BY <2>2, <2>3, <2>4, <2>5, <2>6, <2>7 DEF Paired, Owed
<1>8. CASE TextDelta \/ ToolDelta
  <2>1. /\ mode = "voice" /\ turn.pc = "generate" /\ turn'.pc = "generate"
        /\ turn'.made = turn.made /\ turn'.answers = turn.answers /\ contents' = contents
    BY <1>8 DEF TextDelta, ToolDelta, StreamOpen, TurnRecords
  <2>. QED
    BY <2>1, PairedKept DEF Paired
<1>9. CASE StreamEnds
  <2>1. \/ turn'.pc = "done"
        \/ /\ mode = "voice" /\ turn.pc = "generate" /\ turn'.pc \in {"generate", "execute"}
           /\ turn'.made = turn.made /\ turn'.answers = turn.answers /\ contents' = contents
    BY <1>9 DEF StreamEnds, StreamOpen, Apologises, Says, TurnRecords
  <2>. QED
    BY <1>3, <2>1, PairedKept DEF Paired
<1>10. CASE Executes
  <2>1. /\ turn.pc = "execute" /\ turn'.pc = "execute" /\ turn.calls # <<>>
        /\ turn'.calls = Tail(turn.calls)
        /\ turn'.made = turn.made + 1 /\ turn'.answers = turn.answers + 1
        /\ contents' = contents
    BY <1>10, ExecutesCases, ExecutesFields DEF Executes
  <2>2. Len(Tail(turn.calls)) = Len(turn.calls) - 1 /\ Len(turn.calls) \in Nat
    BY <1>0, <2>1
  <2>3. ASSUME turn.calls \in Seq(ModelCalls) PROVE Tail(turn.calls) \in Seq(ModelCalls)
    BY <2>1, <2>3
  <2>4. turn'.answers + Len(turn'.calls) = turn.answers + Len(turn.calls)
    BY <1>0, <2>1, <2>2
  <2>5. turn.made = turn.answers /\ (mode = "chat" => turn'.calls \in Seq(ModelCalls))
    BY <2>1, <2>3 DEF Paired
  <2>. QED
    BY <2>1, <2>4, <2>5, PairedKept
<1>11. CASE SkipsNameless
  <2>1. /\ turn.pc = "execute" /\ turn'.pc = "execute" /\ contents' = contents
        /\ turn'.made = turn.made /\ turn'.answers = turn.answers
        /\ turn.calls # <<>> /\ Head(turn.calls) = Nameless
    BY <1>11 DEF SkipsNameless, Dropped, TurnRecords
  <2>2. mode # "chat"
    <3>1. Nameless \notin ModelCalls
      BY DEF Nameless, ModelCalls, Lookup, Resolve, Call
    <3>2. ASSUME turn.calls \in Seq(ModelCalls) PROVE Head(turn.calls) \in ModelCalls
      BY <2>1, <3>2
    <3>. QED
      BY <2>1, <3>1, <3>2 DEF Paired
  <2>. QED
    BY <2>1, <2>2, PairedKept DEF Paired
<1>12. CASE Answers
  <2>1. /\ Pairs(contents) /\ contents # <<>> /\ Owed /\ turn.made = turn.answers
        /\ turn.pc = "execute" /\ turn.calls = <<>>
    BY <1>12, AnswersCases DEF Paired
  <2>2. CASE turn' = Apologises(turn)
    BY <1>3, <2>2, SaysFields, PieceTypes DEF Apologises
  <2>3. CASE turn' = Says(NextRound, Pause)
    <3>1. turn'.pc = "done"
      BY <2>3 DEF Says, NextRound, TurnRecords
    <3>. QED
      BY <1>3, <3>1
  <2>4. CASE turn' = NextRound /\ turn.answers # 0
    <3>. DEFINE m == ModelAsks(turn.made)
                a == ToolsAnswer(turn.answers)
    <3>1. /\ m \in Content /\ m.calls = turn.made /\ m.answers = 0
          /\ a \in Content /\ a.calls = 0 /\ a.answers = turn.answers
      BY <1>0 DEF ModelAsks, ToolsAnswer, Content
    <3>. HIDE DEF m, a
    <3>2. /\ turn'.pc = "generate" /\ turn'.made = 0 /\ turn'.answers = 0
          /\ turn'.calls = <<>>
      BY <2>1, <2>4, NextRoundFields
    <3>3. contents' = contents \o (IF mode = "voice" THEN <<m>> ELSE <<>>) \o <<a>>
      BY <1>12, <2>2, <2>4, AnswersCases DEF m, a
    <3>4. Pairs(contents') /\ contents' # <<>> /\ contents'[Len(contents')] = a
      <4>1. CASE mode = "chat"
        <5>1. contents' = Append(contents, a)
          BY <3>3, <4>1 DEF Contents
        <5>2. contents[Len(contents)].calls = turn.answers
          BY <1>0, <2>1, <4>1 DEF Owed
        <5>. QED
          BY <2>1, <3>1, <5>1, <5>2, PairAppend
      <4>2. CASE mode = "voice"
        <5>1. contents' = Append(Append(contents, m), a)
          <6>1. contents \o <<m>> = Append(contents, m)
                /\ Append(contents, m) \o <<a>> = Append(Append(contents, m), a)
            BY <3>1, AppendProperties, AppendIsConcat DEF Contents
          <6>. QED
            BY <3>3, <4>2, <6>1
        <5>2. contents[Len(contents)].calls = 0
          BY <2>1, <4>2 DEF Owed
        <5>3. /\ Pairs(Append(contents, m)) /\ Append(contents, m) \in Contents
              /\ Append(contents, m) # <<>>
              /\ Append(contents, m)[Len(Append(contents, m))] = m
          BY <2>1, <3>1, <5>2, PairAppend
        <5>4. Append(contents, m)[Len(Append(contents, m))].calls = a.answers
          BY <2>1, <3>1, <5>3
        <5>. QED
          BY <3>1, <5>1, <5>3, <5>4, PairAppend
      <4>. QED
        BY <4>1, <4>2
    <3>5. <<>> \in Seq(ModelCalls)
      OBVIOUS
    <3>. QED
      BY <3>1, <3>2, <3>4, <3>5 DEF Paired, Owed
  <2>. QED
    BY <1>12, <2>2, <2>3, <2>4, AnswersCases
<1>. QED
  BY <1>1, <1>2, <1>4, <1>5, <1>6, <1>7, <1>8, <1>9, <1>10, <1>11, <1>12 DEF Next, TurnStep

-----------------------------------------------------------------------------
(* The invariant, and what follows from it.                                 *)

LEMMA LoopInvInit == Init => LoopInv
<1>. SUFFICES ASSUME Init PROVE LoopInv
  OBVIOUS
<1>1. mode \in {"chat", "voice"} /\ vip \in BOOLEAN /\ heard \in BOOLEAN
  BY Zenon DEF Init
<1>2. turn \in TurnRecords /\ turn.pc = "idle" /\ turn.attempt = 0 /\ turn.prior = FALSE
  BY LoopBounds DEF LoopBounds, Init, NoTurn, TurnRecords
<1>3. WithinBudget
  BY <1>2, LoopBounds DEF LoopBounds, WithinBudget
<1>4. contents \in Contents /\ active \subseteq Categories
  BY DEF Init, Contents
<1>5. /\ turn.created = None /\ turn.effects = {}
      /\ turn.show_feedback = FALSE /\ turn.lost = {}
  BY DEF Init, NoTurn
<1>6. EffectsKept
  BY <1>5 DEF EffectsKept
<1>7. PriorWasHeard
  BY <1>2, Zenon DEF PriorWasHeard
<1>8. RoundLeft /\ SpokenSoFar /\ SpokenInTheEnd /\ Paired
  BY <1>2 DEF RoundLeft, SpokenSoFar, SpokenInTheEnd, Paired
<1>9. TypeOK
  BY <1>1, <1>2, <1>3, <1>4, Zenon DEF TypeOK, Contents, Content
<1>. QED
  BY <1>6, <1>7, <1>8, <1>9, Zenon DEF LoopInv

LEMMA LoopInvNext == LoopInv /\ [Next]_vars => LoopInv'
<1>. SUFFICES ASSUME LoopInv, [Next]_vars PROVE LoopInv'
  OBVIOUS
<1>1. /\ mode \in {"chat", "voice"} /\ vip \in BOOLEAN /\ heard \in BOOLEAN
      /\ turn \in TurnRecords /\ WithinBudget
      /\ contents \in Contents /\ active \subseteq Categories
  BY Zenon DEF LoopInv, TypeOK, Contents, Content
<1>2. RoundLeft /\ EffectsKept /\ PriorWasHeard /\ SpokenSoFar /\ SpokenInTheEnd /\ Paired
  BY Zenon DEF LoopInv
<1>3. mode' = mode /\ vip' = vip /\ heard' \in BOOLEAN /\ (heard => heard')
  BY <1>1, CallerStep, Zenon
<1>4. turn' \in TurnRecords
  BY <1>1, <1>2, TurnType, Zenon
<1>5. WithinBudget' /\ RoundLeft'
  BY <1>1, <1>2, BudgetStep, Zenon
<1>6. contents' \in Contents /\ active' \subseteq Categories
  BY <1>1, ContentsStep, Zenon
<1>7. EffectsKept'
  BY <1>1, <1>2, EffectsStep, Zenon
<1>8. PriorWasHeard'
  BY <1>1, <1>2, <1>3, PriorStep, Zenon
<1>9. SpokenSoFar' /\ SpokenInTheEnd'
  BY <1>1, <1>2, <1>3, SpokenStep, Zenon
<1>10. Paired'
  BY <1>1, <1>2, <1>3, PairedStep, Zenon
<1>11. mode' \in {"chat", "voice"} /\ vip' \in BOOLEAN
  BY <1>1, <1>3, Zenon
<1>12. TypeOK'
  BY <1>3, <1>4, <1>5, <1>6, <1>11, Zenon DEF TypeOK, Contents, Content
<1>. QED
  BY <1>5, <1>7, <1>8, <1>9, <1>10, <1>12, Zenon DEF LoopInv

LEMMA LoopInvariant == Spec => []LoopInv
  BY LoopInvInit, LoopInvNext, PTL DEF Spec

(* Types hold, and the requests for a completion, or for a stream, and the *)
(* rounds of a turn stay within their budgets, whatever the provider sends *)
(* (orchestrator.py:45, 58, 222, 244).                                     *)
THEOREM LoopTypeCorrect == Spec => []TypeOK
<1>1. LoopInv => TypeOK
  BY Zenon DEF LoopInv
<1>. QED
  BY <1>1, LoopInvariant, PTL

(* However a turn ends that returns, its result names and closes nothing   *)
(* but what its tools have stored, and all of that, but for a ticket whose *)
(* tool failed after storing it (orchestrator.py:75-78, 156, 172, 183-188; *)
(* executor.py:36).                                                        *)
THEOREM LoopResultTellsEffects == Spec => []ResultTellsEffects
<1>1. LoopInv => ResultTellsEffects
  BY Zenon DEF LoopInv, EffectsKept, ResultTellsEffects
<1>. QED
  BY <1>1, LoopInvariant, PTL

(* A low-visibility ticket of an astrologer who is no VIP is raised only in *)
(* a chat, in a turn that began when the astrologer had had an assistant    *)
(* message (tool_registry.py:216-230).                                      *)
THEOREM LoopAdviceFirst == Spec => AdviceFirst
<1>1. ASSUME LoopInv, [Next]_vars
      PROVE  [~vip /\ "no_visibility" \in active' \ active => mode = "chat" /\ heard]_vars
  <2>. SUFFICES ASSUME ~vip, "no_visibility" \in active' \ active
                PROVE  mode = "chat" /\ heard
    BY Zenon
  <2>1. Executes
    <3>1. CASE \/ Ask \/ Announce \/ Deliver \/ TurnFails \/ Unusable \/ TextCompletes
              \/ CallsComplete \/ TextDelta \/ ToolDelta \/ StreamEnds \/ SkipsNameless
              \/ Answers \/ UNCHANGED vars
      BY <3>1, Zenon
      DEF Ask, Announce, Deliver, TurnFails, Unusable, TextCompletes, CallsComplete,
          TextDelta, ToolDelta, StreamEnds, SkipsNameless, Answers, vars
    <3>2. CASE TicketSettles
      BY <3>2 DEF TicketSettles
    <3>. QED
      BY <1>1, <3>1, <3>2, Zenon DEF Next, TurnStep
  <2>2. MayRaise("no_visibility")
    <3>1. PICK ok, stored : /\ MayEnd(Head(turn.calls), ok, stored)
                            /\ active' = active \cup (stored \cap Categories)
      BY <2>1 DEF Executes
    <3>2. "no_visibility" \in stored
      BY <3>1
    <3>3. stored # {} /\ stored # {"resolved"}
      BY <3>2
    <3>4. stored = {Head(turn.calls).category} /\ MayRaise(Head(turn.calls).category)
      BY <3>1, <3>3, Zenon DEF MayEnd
    <3>. QED
      BY <3>2, <3>4
  <2>3. turn.prior
    BY <2>2, Zenon DEF MayRaise
  <2>4. PriorWasHeard
    BY <1>1, Zenon DEF LoopInv
  <2>. QED
    BY <2>3, <2>4, Zenon DEF PriorWasHeard
<1>. QED
  BY <1>1, LoopInvariant, PTL DEF Spec, AdviceFirst

(* A voice turn that ends has a reply, the caller has heard it last, and   *)
(* has heard nothing twice (orchestrator.py:222-298).                      *)
THEOREM LoopReplyIsSpoken == Spec => []ReplyIsSpoken
<1>1. ASSUME LoopInv PROVE ReplyIsSpoken
  <2>1. turn \in TurnRecords /\ SpokenInTheEnd
    BY <1>1, Zenon DEF LoopInv, TypeOK
  <2>. SUFFICES ASSUME mode = "voice", turn.pc = "done"
                PROVE  /\ turn.reply # <<>> /\ Len(turn.reply) <= Len(turn.spoken)
                       /\ SubSeq(turn.spoken, Len(turn.spoken) - Len(turn.reply) + 1,
                                 Len(turn.spoken)) = turn.reply
                       /\ \A i, j \in DOMAIN turn.spoken :
                            turn.spoken[i] = turn.spoken[j] => i = j
    BY Zenon DEF ReplyIsSpoken
  <2>2. turn.spoken \in Seq(Pieces) /\ turn.reply \in Seq(Pieces)
    BY <2>1 DEF TurnRecords
  <2>3. /\ turn.reply # <<>> /\ EndsWith(turn.spoken, turn.reply) /\ Distinct(turn.spoken)
    BY <2>1 DEF SpokenInTheEnd
  <2>4. ASSUME NEW s \in Seq(Pieces), NEW t \in Seq(Pieces), EndsWith(s, t)
        PROVE  SubSeq(s, Len(s) - Len(t) + 1, Len(s)) = t
    <3>. DEFINE u == SubSeq(s, Len(s) - Len(t) + 1, Len(s))
    <3>1. Len(s) \in Nat /\ Len(t) \in Nat /\ Len(t) <= Len(s)
      BY <2>4 DEF EndsWith
    <3>2. /\ u \in Seq(Pieces) /\ Len(u) = Len(t)
          /\ \A k \in 1..Len(t) : u[k] = s[Len(s) - Len(t) + k]
      BY <3>1, SubSeqProperties
    <3>. HIDE DEF u
    <3>3. \A k \in 1..Len(t) : u[k] = t[k]
      BY <2>4, <3>2, Zenon DEF EndsWith
    <3>4. u = t
      BY <3>2, <3>3, SeqEqual
    <3>. QED
      BY <3>4 DEF u
  <2>5. Len(turn.reply) <= Len(turn.spoken)
    BY <2>3 DEF EndsWith
  <2>6. DOMAIN turn.spoken = 1..Len(turn.spoken)
    BY <2>2
  <2>. QED
    BY <2>2, <2>3, <2>4, <2>5, <2>6, Zenon DEF Distinct
<1>. QED
  BY <1>1, LoopInvariant, PTL

(* Whenever the model is asked, each of its earlier calls is answered right *)
(* after it, under the id it had, and nothing else is, however many rounds  *)
(* the turn has had (openrouter_client.py:92-130).                          *)
THEOREM LoopCallsAnswered == Spec => []CallsAnswered
<1>1. ASSUME LoopInv PROVE CallsAnswered
  <2>1. /\ contents \in Contents /\ Paired /\ turn \in TurnRecords
    BY <1>1, Zenon DEF LoopInv, TypeOK, Contents, Content
  <2>. SUFFICES ASSUME turn.pc = "generate", NEW i \in DOMAIN contents
                PROVE  /\ Message(i).role = "assistant" =>
                            /\ i + 1 \in DOMAIN contents /\ Message(i + 1).role = "tool"
                            /\ Message(i + 1).ids = Message(i).ids
                       /\ Message(i).role = "tool" =>
                            i > 1 /\ Message(i - 1).role = "assistant"
    BY Zenon DEF CallsAnswered
  <2>2. DOMAIN contents = 1..Len(contents) /\ Len(contents) \in Nat
        /\ \A k \in 1..Len(contents) : contents[k] \in Content
    BY <2>1 DEF Contents
  <2>3. Pairs(contents) /\ contents # <<>> /\ contents[Len(contents)].calls = 0
    BY <2>1 DEF Paired, Owed
  <2>4. ASSUME NEW k \in 1..Len(contents), contents[k].answers # 0
        PROVE  PairedWith(k) = k - 1 /\ k - 1 \in 1..Len(contents)
    <3>1. k > 1 /\ contents[k - 1].calls = contents[k].answers
      BY <2>3, <2>4 DEF Pairs
    <3>. DEFINE open == {n \in 1..(k - 1) : /\ contents[n].calls # 0
                              /\ \A m \in (n + 1)..(k - 1) : contents[m].answers = 0}
    <3>2. k - 1 \in open
      BY <2>4, <3>1
    <3>3. \A n \in open : n <= k - 1
      OBVIOUS
    <3>4. ASSUME NEW n \in open, \A m \in open : m <= n PROVE n = k - 1
      BY <3>2, <3>3, <3>4
    <3>5. open # {} /\ PairedWith(k) = CHOOSE n \in open : \A m \in open : m <= n
      BY <3>2 DEF PairedWith
    <3>. HIDE DEF open
    <3>6. PairedWith(k) = k - 1
      BY <3>2, <3>3, <3>4, <3>5
    <3>. QED
      BY <2>2, <2>4, <3>1, <3>6
  <2>5. ASSUME NEW k \in 1..Len(contents)
        PROVE  /\ Message(k).role = "assistant" <=> contents[k].calls # 0
               /\ Message(k).role = "tool" <=> contents[k].calls = 0 /\ contents[k].answers # 0
               /\ contents[k].calls # 0 =>
                    Message(k).ids = [j \in 1..contents[k].calls |-> <<k, j>>]
               /\ contents[k].calls = 0 /\ contents[k].answers # 0 =>
                    Message(k).ids = [j \in 1..contents[k].answers |-> <<PairedWith(k), j>>]
    <3>1. contents[k].role # "assistant" /\ contents[k].role # "tool"
      BY <2>2 DEF Content
    <3>. QED
      BY <3>1 DEF Message
  <2>6. CASE contents[i].calls # 0
    <3>1. i + 1 \in 1..Len(contents)
      BY <2>2, <2>3, <2>6
    <3>2. contents[i + 1].answers = contents[i].calls /\ contents[i].answers = 0
      BY <2>2, <2>3, <2>6, <3>1 DEF Pairs
    <3>3. contents[i + 1].calls = 0
      BY <2>3, <2>6, <3>1, <3>2 DEF Pairs
    <3>4. PairedWith(i + 1) = i
      BY <2>2, <2>4, <2>6, <3>1, <3>2
    <3>5. Message(i + 1).role = "tool" /\ Message(i + 1).ids = Message(i).ids
      <4>1. /\ Message(i + 1).role = "tool"
            /\ Message(i + 1).ids =
                 [j \in 1..contents[i + 1].answers |-> <<PairedWith(i + 1), j>>]
        BY <2>5, <2>6, <3>1, <3>2, <3>3
      <4>2. Message(i).ids = [j \in 1..contents[i].calls |-> <<i, j>>]
        BY <2>2, <2>5, <2>6
      <4>3. Message(i + 1).ids = [j \in 1..contents[i].calls |-> <<i, j>>]
        BY <3>2, <3>4, <4>1, Zenon
      <4>. QED
        BY <4>1, <4>2, <4>3, Zenon
    <3>6. Message(i).role # "tool"
      BY <2>2, <2>5, <2>6
    <3>. QED
      BY <2>2, <3>1, <3>5, <3>6
  <2>7. CASE contents[i].calls = 0
    <3>1. Message(i).role # "assistant"
      BY <2>2, <2>5, <2>7
    <3>2. ASSUME Message(i).role = "tool" PROVE i > 1 /\ Message(i - 1).role = "assistant"
      <4>1. contents[i].answers # 0
        BY <2>2, <2>5, <3>2
      <4>2. i > 1 /\ contents[i - 1].calls = contents[i].answers /\ i - 1 \in 1..Len(contents)
        BY <2>2, <2>3, <4>1 DEF Pairs
      <4>. QED
        BY <2>5, <4>1, <4>2
    <3>. QED
      BY <3>1, <3>2
  <2>. QED
    BY <2>6, <2>7
<1>. QED
  BY <1>1, LoopInvariant, PTL
=============================================================================
