----------------------------- MODULE AgentLoop -----------------------------
(***************************************************************************)
(* The tool-calling loop of one conversation, in its two forms: a chat     *)
(* turn asks the model for whole completions (run_chat_turn), a voice turn *)
(* streams them and speaks the text as it comes (run_streaming_chat_turn). *)
(* Between its turns a conversation is what the caller remembers of it.    *)
(*                                                                         *)
(* Text is a sequence of pieces; a piece is known by the completion it is  *)
(* of and its place there.  What create_ticket does inside is              *)
(* TicketIntake's; here it ends well, or with an exception before or after *)
(* its commit.                                                             *)
(***************************************************************************)
EXTENDS Integers, Sequences

CONSTANTS
  MAX_ITERATIONS,            \* completions with tool calls per turn
  MAX_GENERATE_ATTEMPTS,     \* requests for one completion, in a chat turn
  MAX_STREAM_EMPTY_RETRIES,  \* empty streams that are tried again
  MaxCalls, MaxPieces,       \* per completion
  None

ASSUME LoopBounds ==
  /\ MAX_ITERATIONS \in Nat \ {0} /\ MAX_GENERATE_ATTEMPTS \in Nat \ {0}
  /\ MAX_STREAM_EMPTY_RETRIES \in Nat
  /\ MaxCalls \in Nat /\ MaxPieces \in Nat \ {0}

VARIABLES
  mode,      \* "chat" or "voice"
  vip,       \* is_vip_priority(astrologer)
  heard,     \* the history of the next turn holds an assistant message
  turn,      \* the turn under way
  contents,  \* what the model is sent after the system prompt and the history
  active     \* the categories with an active ticket

vars == <<mode, vip, heard, turn, contents, active>>

\* "other" stands for the categories without a rule of their own.
Categories == {"no_visibility", "other"}

ASSUME NoneIsNoCategory == None \notin Categories

\* What the tools store: a ticket, and that the bot has resolved the chat.
Effects == Categories \cup {"resolved"}

\* get_payout_status stands for every tool that leaves no metadata: the lookups, which answer
\* or raise, the picture tools, which may also report an error, and names that are in no
\* registry.  Arguments that do not parse are {}, and the category is the default one; arguments
\* that parse to something else than an object fail a voice turn.
Call(tool, category) == [tool |-> tool, category |-> category]
Lookup == Call("get_payout_status", None)
Resolve == Call("mark_issue_resolved", None)
ModelCalls == {Lookup, Resolve} \cup {Call("create_support_ticket", c) : c \in Categories}
Nameless == Call("", None)

CallSeqs == UNION {[1..n -> ModelCalls] : n \in 1..MaxCalls}

\* A content holds text, or a number of calls, or the answers to them.
Text(role) == [role |-> role, calls |-> 0, answers |-> 0]
ModelAsks(n) == [role |-> "model", calls |-> n, answers |-> 0]
ToolsAnswer(n) == [role |-> "user", calls |-> 0, answers |-> n]

\* Pieces of text, by their source.
Apology == << <<"apology", 0, 0>> >>
Pause == << <<"pause", 0, 0>> >>
Said(iteration, n) == <<"model", iteration, n>>

\* A turn before it starts.  Two fields are no variables of the code: `effects', what its tools
\* have stored, and `lost', what of it was stored only by tools that ended with an exception.
NoTurn ==
  [pc |-> "idle", prior |-> FALSE, iteration |-> 0, attempt |-> 0,
   text |-> <<>>, calls |-> <<>>, made |-> 0, answers |-> 0, spoken |-> <<>>,
   reply |-> <<>>, created |-> None, show_feedback |-> FALSE,
   effects |-> {}, lost |-> {}]

Init ==
  /\ mode \in {"chat", "voice"}
  /\ vip \in BOOLEAN
  /\ heard = FALSE
  /\ turn = NoTurn
  /\ contents = <<>>
  /\ active = {}
-----------------------------------------------------------------------------
(* A turn starts and ends.  Names starting with Slip_ are defective         *)
(* variants of the definition that follows.                                 *)

\* chat_service builds the context from the history the client sends.  A call has one context
\* for all its turns, without has_prior_reply.
Ask ==
  /\ turn.pc = "idle"
  /\ contents' = <<Text("user")>>
  /\ turn' = [NoTurn EXCEPT !.pc = "generate", !.prior = mode = "chat" /\ heard]
  /\ UNCHANGED <<mode, vip, heard, active>>

Slip_Silently(tn, pieces) == [tn EXCEPT !.pc = "done", !.reply = pieces]

\* The result is returned; a voice turn speaks what the model did not say.
Says(tn, pieces) ==
  [tn EXCEPT !.pc = "done", !.reply = pieces,
             !.spoken = IF mode = "voice" THEN @ \o pieces ELSE @]

Slip_Apologises(tn) == Says([tn EXCEPT !.created = None, !.show_feedback = FALSE], Apology)

Apologises(tn) == Says(tn, Apology)

Idles == turn' = NoTurn /\ contents' = <<>>

\* The astrologer has the reply, and the history of the next turn has both.
Deliver ==
  /\ turn.pc = "done"
  /\ Idles
  /\ heard' = TRUE
  /\ UNCHANGED <<mode, vip, active>>

\* The response is lost, the provider fails, or a streamed call has arguments that are no
\* object, which nobody catches: what tools have done stays.
TurnFails ==
  /\ \/ turn.pc = "done" /\ mode = "chat"
     \/ turn.pc = "generate"
     \/ /\ turn.pc = "execute" /\ mode = "voice"
        /\ turn.calls # <<>> /\ Head(turn.calls) # Nameless
  /\ Idles
  /\ UNCHANGED <<mode, vip, heard, active>>

\* The chat page announces a status change or a resolution: another assistant message.
Announce ==
  /\ mode = "chat" /\ turn.pc = "idle"
  /\ heard' = TRUE
  /\ UNCHANGED <<mode, vip, turn, contents, active>>

\* A ticket is resolved or closed.
TicketSettles ==
  /\ \E c \in active : active' = active \ {c}
  /\ UNCHANGED <<mode, vip, heard, turn, contents>>
-----------------------------------------------------------------------------
(* Chat: completions.                                                       *)

Slip_OneTooMany ==
  turn' = IF turn.attempt < MAX_GENERATE_ATTEMPTS
          THEN [turn EXCEPT !.attempt = @ + 1] ELSE Apologises(turn)

Slip_NeverGivesUp == turn' = [turn EXCEPT !.attempt = 1 - @]

\* A completion that is no use is asked for again, and the turn gives up after the last.
AsksAgain ==
  turn' = IF turn.attempt + 1 < MAX_GENERATE_ATTEMPTS
          THEN [turn EXCEPT !.attempt = @ + 1] ELSE Apologises(turn)

Unusable ==
  /\ mode = "chat" /\ turn.pc = "generate"
  /\ AsksAgain
  /\ UNCHANGED <<mode, vip, heard, contents, active>>

\* Text, perhaps none, is the reply.
TextCompletes ==
  /\ mode = "chat" /\ turn.pc = "generate"
  /\ \E reply \in {<<>>, <<Said(turn.iteration, 1)>>} : turn' = Says(turn, reply)
  /\ contents' = Append(contents, Text("model"))
  /\ UNCHANGED <<mode, vip, heard, active>>

CallsComplete ==
  /\ mode = "chat" /\ turn.pc = "generate"
  /\ \E calls \in CallSeqs :
       /\ contents' = Append(contents, ModelAsks(Len(calls)))
       /\ turn' = [turn EXCEPT !.pc = "execute", !.calls = calls]
  /\ UNCHANGED <<mode, vip, heard, active>>
-----------------------------------------------------------------------------
(* Voice: streams.                                                          *)

StreamOpen == mode = "voice" /\ turn.pc = "generate"

TextDelta ==
  /\ StreamOpen /\ Len(turn.text) < MaxPieces
  /\ LET piece == Said(turn.iteration, Len(turn.text) + 1)
     IN turn' = [turn EXCEPT !.text = Append(@, piece), !.spoken = Append(@, piece)]
  /\ UNCHANGED <<mode, vip, heard, contents, active>>

\* A buffer is opened for the index, and gets its name and its arguments in one delta or later.
ToolDelta ==
  /\ StreamOpen
  /\ \/ /\ Len(turn.calls) < MaxCalls
        /\ turn' = [turn EXCEPT !.calls = Append(@, Nameless)]
     \/ \E i \in DOMAIN turn.calls, c \in ModelCalls :
          /\ turn.calls[i] = Nameless
          /\ turn' = [turn EXCEPT !.calls[i] = c]
  /\ UNCHANGED <<mode, vip, heard, contents, active>>

StreamEnds ==
  /\ StreamOpen
  /\ turn' = IF turn.calls # <<>> THEN [turn EXCEPT !.pc = "execute"]
             ELSE IF turn.text # <<>> THEN [turn EXCEPT !.pc = "done", !.reply = turn.text]
             ELSE IF turn.attempt < MAX_STREAM_EMPTY_RETRIES THEN [turn EXCEPT !.attempt = @ + 1]
             ELSE Apologises(turn)
  /\ UNCHANGED <<mode, vip, heard, contents, active>>
-----------------------------------------------------------------------------
(* The tools.                                                               *)

Slip_PriorInTurn(category) ==
  /\ category \notin active
  /\ category = "no_visibility" => turn.prior \/ vip \/ Len(contents) > 2

\* What create_support_ticket refuses, but for the attachment some categories need: its address
\* is among the arguments, or in the chat, or it is not.
MayRaise(category) ==
  /\ category \notin active
  /\ category = "no_visibility" => turn.prior \/ vip

\* What the metadata of a handler adds to the turn's.
Raised(tn, category) == [tn EXCEPT !.created = category, !.show_feedback = TRUE]

Resolved(tn) == [tn EXCEPT !.show_feedback = TRUE]

\* How a handler can end, and what it has stored by then: a ticket is stored in the middle of
\* its handler, which may fail after it, the mark of a resolved chat at the end.
MayEnd(call, ok, stored) ==
  \/ ~ok /\ stored = {}
  \/ ok /\ call = Lookup /\ stored = {}
  \/ ok /\ call = Resolve /\ stored = {"resolved"}
  \/ call \notin {Lookup, Resolve} /\ MayRaise(call.category) /\ stored = {call.category}

\* The executor makes of an exception an error like any other, without metadata.
Reported(tn, call, ok) ==
  IF ~ok \/ call = Lookup THEN tn
  ELSE IF call = Resolve THEN Resolved(tn) ELSE Raised(tn, call.category)

Executed(call, ok, stored) ==
  [Reported([turn EXCEPT !.calls = Tail(@), !.made = @ + 1, !.answers = @ + 1], call, ok)
     EXCEPT !.effects = @ \cup stored,
            !.lost = IF ok THEN @ \ stored ELSE @ \cup (stored \ turn.effects)]

Executes ==
  /\ turn.pc = "execute" /\ turn.calls # <<>>
  /\ Head(turn.calls) # Nameless
  /\ \E ok \in BOOLEAN, stored \in SUBSET Effects :
       /\ MayEnd(Head(turn.calls), ok, stored)
       /\ turn' = Executed(Head(turn.calls), ok, stored)
       /\ active' = active \cup (stored \cap Categories)
  /\ UNCHANGED <<mode, vip, heard, contents>>

Slip_KeepsNameless == turn' = [turn EXCEPT !.calls = Tail(@), !.made = @ + 1]

Dropped == turn' = [turn EXCEPT !.calls = Tail(@)]

SkipsNameless ==
  /\ turn.pc = "execute" /\ turn.calls # <<>>
  /\ Head(turn.calls) = Nameless
  /\ Dropped
  /\ UNCHANGED <<mode, vip, heard, contents, active>>

\* The results go back to the model, unless there are none or this was the last round.
Answers ==
  /\ turn.pc = "execute" /\ turn.calls = <<>>
  /\ IF turn.answers = 0
     THEN turn' = Apologises(turn) /\ UNCHANGED contents
     ELSE /\ contents' = contents
               \o (IF mode = "voice" THEN <<ModelAsks(turn.made)>> ELSE <<>>)
               \o <<ToolsAnswer(turn.answers)>>
          /\ LET next == [turn EXCEPT !.pc = "generate", !.iteration = @ + 1, !.attempt = 0,
                                      !.text = <<>>, !.made = 0, !.answers = 0]
             IN turn' = IF next.iteration < MAX_ITERATIONS THEN next ELSE Says(next, Pause)
  /\ UNCHANGED <<mode, vip, heard, active>>
-----------------------------------------------------------------------------
TurnStep ==
  \/ Deliver
  \/ TurnFails
  \/ Unusable
  \/ TextCompletes
  \/ CallsComplete
  \/ TextDelta
  \/ ToolDelta
  \/ StreamEnds
  \/ Executes
  \/ SkipsNameless
  \/ Answers

Next ==
  \/ Ask
  \/ Announce
  \/ TicketSettles
  \/ TurnStep

Spec == Init /\ [][Next]_vars

\* Providers answer, fail or time out, and handlers return.
FairSpec == Spec /\ WF_vars(TurnStep)
-----------------------------------------------------------------------------
(* The messages that _contents_to_messages makes of the contents, and what  *)
(* the loop promises.                                                       *)

\* The content whose call ids the answers at i get: the latest one with calls, unless answers
\* have come in between, and then their own position.
PairedWith(i) ==
  LET open == {k \in 1..(i - 1) : /\ contents[k].calls # 0
                                 /\ \A m \in (k + 1)..(i - 1) : contents[m].answers = 0}
  IN IF open = {} THEN i ELSE CHOOSE k \in open : \A m \in open : m <= k

Message(i) ==
  IF contents[i].calls # 0
  THEN [role |-> "assistant", ids |-> [j \in 1..contents[i].calls |-> <<i, j>>]]
  ELSE IF contents[i].answers # 0
  THEN [role |-> "tool", ids |-> [j \in 1..contents[i].answers |-> <<PairedWith(i), j>>]]
  ELSE [role |-> contents[i].role, ids |-> <<>>]

Pieces == {"apology", "pause", "model"} \X (0..MAX_ITERATIONS) \X (0..MaxPieces)

TurnRecords ==
  [pc : {"idle", "generate", "execute", "done"}, prior : BOOLEAN,
   iteration : 0..MAX_ITERATIONS, attempt : Nat,
   text : Seq(Pieces), calls : Seq(ModelCalls \cup {Nameless}), made : Nat, answers : Nat,
   spoken : Seq(Pieces), reply : Seq(Pieces), created : Categories \cup {None},
   show_feedback : BOOLEAN, effects : SUBSET Effects, lost : SUBSET Effects]

WithinBudget == turn.attempt < MAX_GENERATE_ATTEMPTS \/ turn.attempt <= MAX_STREAM_EMPTY_RETRIES

\* Every variable has the type its use in the code implies; requests and retries stay within
\* their budgets (orchestrator.py:30-31, 45, 58, 222, 244).
TypeOK ==
  /\ mode \in {"chat", "voice"} /\ vip \in BOOLEAN /\ heard \in BOOLEAN
  /\ turn \in TurnRecords /\ WithinBudget
  /\ contents \in Seq([role : {"user", "model"}, calls : Nat, answers : Nat])
  /\ active \subseteq Categories

\* Whenever the model is asked, each of its earlier calls is answered, under the id it had,
\* right after it, and nothing else is (openrouter_client.py:92-130): otherwise the provider
\* refuses the whole request.
CallsAnswered ==
  turn.pc = "generate" =>
    \A i \in DOMAIN contents :
      /\ Message(i).role = "assistant" =>
           /\ i + 1 \in DOMAIN contents /\ Message(i + 1).role = "tool"
           /\ Message(i + 1).ids = Message(i).ids
      /\ Message(i).role = "tool" => i > 1 /\ Message(i - 1).role = "assistant"

\* A voice turn that ends has a reply, the caller has heard it last, and heard nothing twice,
\* after retried streams, mixed completions, apologies and pauses (orchestrator.py:222-298).
ReplyIsSpoken ==
  mode = "voice" /\ turn.pc = "done" =>
    /\ turn.reply # <<>>
    /\ Len(turn.reply) <= Len(turn.spoken)
    /\ SubSeq(turn.spoken, Len(turn.spoken) - Len(turn.reply) + 1, Len(turn.spoken)) = turn.reply
    /\ \A i, j \in DOMAIN turn.spoken : turn.spoken[i] = turn.spoken[j] => i = j

\* However a turn ends that returns, by an answer, an apology or the limit on rounds, its
\* result names a ticket only if its tools have stored that ticket, and closes the chat only if
\* they have stored something; and what they have stored is named and closes the chat, but for
\* a ticket whose tool failed after storing it, which is in no result (orchestrator.py:75-78,
\* 156, 172, 183-188; executor.py:36).
ResultTellsEffects ==
  turn.pc = "done" =>
    /\ turn.created \in turn.effects \cup {None}
    /\ turn.created = None => turn.effects \cap Categories \subseteq turn.lost
    /\ turn.show_feedback => turn.effects # {}
    /\ turn.effects \subseteq turn.lost \/ turn.show_feedback

\* A low-visibility ticket of an astrologer who is no VIP is raised only in a chat, in a turn
\* that began when the astrologer had an assistant message: asking the tool again within the
\* turn does not help (tool_registry.py:216-230).
AdviceFirst ==
  [][~vip /\ "no_visibility" \in active' \ active => mode = "chat" /\ heard]_vars

\* Every turn ends, whatever the provider and the tools do.
TurnEnds == turn.pc # "idle" ~> turn.pc = "idle"
=============================================================================
