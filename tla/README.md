# AstroHelp in TLA+

A model of AstroHelp (`src/`): the support tickets of astrologers, from the chat
turn that raises one to the rating that closes it; the agent's tool-calling loop
and the chat page around that turn; the support calls, from the request to dial to
the outcome on the dashboard; and the sync of the ops team's sheets. TLC checks
small instances; TLAPS proves every safety property of the passing runs and two
refinements for every value of the constants, so that only liveness rests on the instances alone.

Contents: [the system](#the-system), [modules](#modules-and-the-code),
[runs](#runs), [fairness](#fairness), [proofs](#proofs),
[what the code does not keep](#what-the-code-does-not-keep),
[left out](#left-out), [plan](#plan).

## The system

A FastAPI backend (`backend/app`) over PostgreSQL, two web apps (`chat-app` for
astrologers, `admin-app` for staff) and a thin Android client. Synchronous
routes run in a thread pool, so requests really overlap; several replicas may
run. A request has one SQLAlchemy session (`db/session.py`, autoflush off),
PostgreSQL runs at READ COMMITTED, no query takes a row lock and no table has a
version column. Outside services (Zoho Desk, Slack, MoEngage, Twilio, the model
provider) are called while the transaction is open.

| component | state it keeps | operations | what makes it correct |
|---|---|---|---|
| `ticket_service` | `tickets`, `ticket_status_history` | create, transition, rate, reassign, escalate, lazy and batch auto-close, backfills | status, answer (rating) and clock consistent; closing needs a resolution; every resolution is answered or closed; a ticket stays in the queues it was routed to |
| `zoho_client`, `zoho_webhook` | `zoho_ticket_id`, Zoho's own ticket, token caches | push, status update, webhook | one Zoho ticket per ticket; webhooks applied once |
| `chat_service`, `agent/*` | the turn: model loop, tool calls, one session | chat turn, tools | a failed tool or turn leaves nothing inconsistent; one open ticket per problem |
| `chat_session_service` | `chat_sessions`, messages | log, resolved by bot, escalated | the link points at a real ticket |
| `admin_mapping_client`, `cs_assignment_client`, `admin_service` | `admins` (role, leave, languages) | pick a KAM, a CS; end a leave on read | somebody active and matching is picked |
| `slack_client`, `moengage_client` | logs | notify | a created ticket is announced |
| `call_service`, `routes/voice.py` | `calls` | place, status callback, relay turns, summary | status follows the call; a superseded turn is not spoken; one summary |
| `sheets_sync_service`, `sheets_client` | synced rows, astrologers, payout cycle | six steps, each its own commit | a failing step undoes itself only; new experts get a row and a KAM; tables and sheets come to agree |
| `agent/orchestrator`, `openrouter_client`, `tool_registry` | a turn: contents, metadata | completions, streams, tool calls, retries | calls and results paired; the reply spoken once; the result tells what the tools did |
| `auth_service` | `admins` | login, grant | an active admin of the right level |
| `analytics_service`, log services, admin pages | none | reads | counts agree with the rows |
| lookups (`payout`, `kyc`, `queue_performance`, ...) | none | reads | no invented figures |
| `chat-app` chat page | transcript, announcements, session storage | poll, announce, prompt, rate, send, reset, reload | each resolution prompts once; nothing is told twice |
| scripts | none | auto-close, Zoho backfill, flag backfill, sync, seed | safe to interrupt and rerun |

Components interact through shared rows (the ticket row is written by chat,
dashboard, webhook and scripts), synchronous calls within one session, and
callbacks from Zoho and Twilio. The hard behaviours: overlapping sessions that
merge column by column; commits in the middle of somebody else's transaction
(the lazy auto-close and the lazy end of a leave commit the caller's session);
outside calls before the commit that records them; tool exceptions swallowed
with the session kept; callbacks that repeat or come late. `PROJECT.json` lists
each hazard at its line, with the properties that watch it.

## Modules and the code

**TicketRow** (no state): the row as a record; what `_record_status`,
`record_ticket_rating`, `reassign_ticket`, `escalate_to_kam`,
`_maybe_push_to_zoho` and the backfill do to it; `routing_for_ticket`;
`zoho_status_for`; the rows `create_ticket` may leave; and `Merge`, what a commit
amounts to: a column is written when the session changed it, else it stays what
the database has. The four rating columns are one field, free text is left out.

**TicketLifecycle**: the promise. One ticket (`row`, `history`), a clock, and
each operation as one atomic step. The clock is there for the 48 hours of
`_AUTO_CLOSE_AFTER`; a status change may carry any earlier instant, since
`utcnow()` is read before the commit that shows it.

**TicketDesk**: the system. Each worker is a request with its session
(`pc`, `base` as loaded, `mine` as changed, the history row to insert). A request
loads and runs its handler in one step (`Handle`; the load and the in-memory
change have nothing observable between them), then calls Zoho (`Push`, `Sync`) and
commits (`Commit`), each a step others may come between. `get_ticket`'s lazy
auto-close is a request of its own that commits and then goes on to the handler
(`LazyAutoClose`, pc `reloaded`). Zoho tickets are a sequence of statuses; an edit made
there is a webhook that may arrive never, late, or again and again. `Crash` loses
a session and keeps what Zoho was told; a Zoho call may fail, or create the
ticket and lose the answer.

**TicketIntake**: how tickets come to be. The turns of one astrologer's visits,
each with a session (`draft`), the model's tool calls chosen freely, and
`create_ticket` step by step: insert, pick a KAM (an exception if all are away), a
CS, the routing, Slack, Zoho, the commit, the automatic call, the link to the
chat. `EndLeave` and `ModelListsTickets` commit in the middle. A tool that raises ends
as a tool result (`executor.execute`), its half-made changes stay in the session and
are committed with the turn. `DeskMoves` is the dashboard meanwhile. A flushed row
is locked by the database until its session ends (`Locked`).
`UntouchedRowsAreKnown` ties this module to TicketDesk: the tickets it leaves, before anybody
works on them, are exactly of the kinds TicketDesk's `InitialRows` starts from.

**Speech** is the promise of `conversation_relay`'s docstring as a specification:
what may be spoken to a caller who keeps talking. **VoiceRelay** is the code: the
receive loop that bumps `turn_id`, one task per prompt (`pc[t]`, from the lock to the
last message), the model's thread that feeds the task's queue (`answer[t].chunks` put
in, `taken[t]` taken out), and the websocket (`conn`). A step is what the event loop
does from one await to the next, so the comparison with `turn_id` and the start of
the send belong together; the 50 ms timeout of the queue read is `GetTimesOut`. A
send to a caller who has hung up raises: in the middle of the answer the apology is tried
(and raises as well), later the task ends. The interim prompts, empty prompts and other messages
change nothing and are left out.

**Calls**: one `calls` row and everybody who writes it. `_create_call` dials between the
insert and the commit, so callbacks can come before the row is there
(`RejectCallback`); `Dial` may raise after Twilio has taken the call. A chat turn that placed the call
keeps its session and commits the row without a SID (`InTool`). Callbacks are drawn
from what Twilio has sent, any number of times and in any order. Each delivery may
start a summary thread (`job[i]`: the check, the read, the write). The relay's
session holds the row as loaded before the setup message, and
`start_conversation` decides on that copy. `StoreTurn` is
`_persist_conversation_turn`; a turn is lost when the model raises, or when the
websocket closes under it. `ServerDies` is one restart. The inside of the relay is
VoiceRelay's; here a turn is a number and the tool outcomes it brought.
Two assumptions: one server process, as the Dockerfile starts it, so that the callback route and
`start_conversation`, which do not await between load and commit, do
not overlap one another; and one websocket per call. With several processes two first
terminal callbacks could both stamp the end.

**SheetSync**: `sync_all` and what it reads. Two calls (the cron job, the button) run
the steps of a plan, a part of `_SYNC_STEPS` in its order; a step reads its source, then
the table, and commits (`FetchMirror`, `FetchPayout`, `Upsert`, `SyncProfiles`, `Commit`), the
provisioning goes expert by expert (`SelectCandidates`, `InsertCandidate`) over the rows it loaded
beforehand, except that the commit which ends a leave makes the session read the priority rows again. A row is the
edition of the sheet's row it copies, a payout row the tab it came from. `Blank` says in which editions a
row's phone, language or user cell is empty, `Frozen` whose language is in the retired sheet; `Fresh` is what the code
then takes. The unique keys of an astrologer, expert and (when there is one) user,
make an insert wait for another session's, fail once that is committed, or
deadlock (`DeadlockBroken`). Ops edits sheets and adds tabs, KAMs come and go, days pass,
sources fail and the process dies. Days are numbers, years have 365 of them: the year
of a tab's title is found by the code's rule. `get_payout_status` is the
read that answers from what the sync left.

**AgentLoop**: one conversation's turns in both forms. A chat turn gets whole completions
(`Unusable`, `TextCompletes`, `CallsComplete`), a voice turn a stream of pieces of text and of buffered
calls (`TextDelta`, `ToolDelta`, `StreamEnds`); both then work through the calls
(`Executes`, `SkipsNameless`) and send the results back (`Answers`). `TurnFails` is a provider's
exception, a lost response, or a streamed call whose arguments are no object. Text is known by the completion it is from. `Message`
is `_contents_to_messages`. `create_support_ticket` is abstracted to what the
loop can tell (`MayEnd`): raised, refused, failed before or after storing a ticket (the inside is TicketIntake's);
a refusal for want of an attachment is one of the failures. Two fields of the turn are no variables of the code:
`effects` records what the tools have stored, beside the change of `active`, and `lost` what of it only failed
tools have stored; `ResultTellsEffects` compares the result, which is made of the tools' metadata, with them.

**ChatPage**: the mounted page, session storage, the list react-query holds, and the
requests on their way, against a server whose tickets change as TicketRow says. `Watched` is
the effect that compares the list with what was announced; it runs on `Poll` and on
`Mount`. A page may be left by a route change, a reload or a closed tab (`Leave`), reset by the astrologer or
for idleness. `asked` counts the prompts of the transcript and `told` has the history rows
announced, those of one look at the list together; `quoted` remembers whose note a prompt shows.

**MC...** modules instantiate these for TLC; **...Proofs** modules hold the theorems.

Definitions named `Slip_...` are deliberately wrong variants (a dropped guard, a
missing reset, a wrong column). No specification uses them. `PROJECT.json`
"mutants" says which definition each replaces and which property then fails:
that is the evidence that the properties can fail.

## Runs

| run | question | bounds |
|---|---|---|
| TicketLifecycle | does the promise hold together: `ResolvedAwaitsAnswer`, `UnsatisfiedNeverClosed`, and `UnansweredIsClosed` (liveness)? | a category of every routing shape, ratings 1, 3, 4, 5 history rows, clock to 3 |
| DeskStatus | two overlapping requests on the status, with crashes: `ClosedWasResolved`, `StatusChangeIsRecorded` | ratings 3 and 4 (the boundary), 6 history rows, clock to 3 |
| DeskQueues | two overlapping requests on queues and Zoho, all faults: `EscalatedReachesKam`, `LinkedIsCsTicket` | one edit in Zoho, two Zoho tickets, 4 history rows |
| DeskSerial | one request at a time, all operations and faults: the desk implements TicketLifecycle (`LifecycleSpec`) | 4 history rows, one edit, clock to 2 |
| IntakeOneVisit | turns that fail or die anywhere and are retried: `KnownTicketsAreComplete`, `NoSecondWhileOpen`, `UntouchedRowsAreKnown` | two tickets, two categories, three tool calls a turn, all faults |
| VoiceRelay | every interleaving of loop, tasks and model threads, with hang-ups and failing models: does the relay implement Speech (`SpeaksAsPromised`), `SessionHasOneUser`, `PromptAnswered` (liveness)? | three prompts or interrupts, two chunks an answer |
| Calls | callbacks, relay, turns and summary threads on one row, with a restart: `FirstOutcomeStands`, `EndAndTurnsStay`, `OutcomeArrives` (liveness) | three deliveries, two turns, the call placed in a chat turn |
| SheetSync | overlapping syncs with failing sources, collisions, deadlocks and a crash: `NoCascade`, `FailedStepWritesNothing`, `OkMeansLinked`, `PayoutCycleIsReal`, `EveryExpertIsProvisioned` and `SyncConverges` (liveness) | two calls, two experts, two cycles half a year apart, one edit, one fault; a blank cell of each kind; the plans "payout" and "roster, priority, provisioning, profiles" |
| ChatPage | polls, reloads, resets, ratings and messages against a changing ticket: `NoDeadWidget`, `AskedOnce`, `ToldOnce`, `ResolvedIsAsked` (liveness) | one ticket, 5 history rows, ratings 2 and 5, one rating and one message on their way |
| AgentLoop | unusable, empty, mixed and nameless completions, failing tools and providers: `CallsAnswered`, `ReplyIsSpoken`, `ResultTellsEffects`, `AdviceFirst`, `TurnEnds` (liveness) | three rounds of two calls, two attempts, one piece of text per stream |
| InternalNoteShown, MissingFromCycle | violations, see below | as in ChatPage and SheetSync |

Each run checks its `TypeOK` as well, except DeskQueues and DeskSerial, which share
TicketDesk's with DeskStatus.

Why the bounds are enough: a lost update needs two sessions, and every operation
touches one ticket, so one ticket and two workers meet every pair of operations;
a third session adds no new merge, since a merge compares one session with the
row. A full cycle (resolve, answer, reopen, resolve, close) fits in the history
bounds with creation's two rows. One admin of each role is enough because admins
are only compared with `None`; the categories cover the routing shapes. In DeskQueues two categories
(CS-only, and `resignation` with either owner) give tickets with and without a CS.
Bounds are the constants `MaxHistory`, `MaxTime`, `MaxEdits`, `MaxZohoTickets`,
`MaxTickets`, `MaxToolCalls`, `MaxTurnId`, `MaxChunks`, `MaxDeliveries`, `MaxTurns`. In VoiceRelay three prompts are one
that holds the lock, one that waits superseded and one that is new, and two chunks
are one spoken before and one after another step. In Calls three deliveries are a
terminal callback, its repetition and a late one, so that two summaries can
overlap, and two turns are one stored before the end and one after. In SheetSync every
interference is between two calls, or a call and ops; one expert is known at the start and one
appears, one of them leaves the payouts; a plan keeps the steps that write one another's inputs
together (the KYC step is `Upsert` like the roster's, and nothing here reads KYC). The first edition of one expert has no
user, the second no phone and no language, so that each is given and then blanked, or blank and then given, within one edit; the
users are different, as two of the properties assume (`OneUserEach`). January and August are
on both sides of the change of the year; the clock has a day before the newest cycle and one after the payout that
follows the older, so that two calls may compute different payouts. In ChatPage tickets do not interact (each has its
own counts and widget), and five rows are creation, resolution, answer or reassignment and another
resolution. In AgentLoop three rounds have a first, a middle and a last; two calls are one
before and one after a failure or a nameless one; the code's own limits are 8 rounds, 7 attempts and 2 retries of an empty stream
(`orchestrator.py:30-31`, `45`). `InTime` keeps a resolution from being made so late that the clock
bound would stop it from going stale; without it liveness would fail for the
bound's sake. Only Calls switches the deadlock check off: a call is over when its callbacks are
handled and its relay is closed, and nothing more happens to it. VoiceRelay's
`Over` is the one state in which it may stop, so its deadlock check is on and finds a
task that waits for ever; elsewhere the clock and reads keep every state live.

## Fairness

TicketLifecycle's `FairSpec` assumes `WF(Tick)`, time passes, and
`WF(AutoClose)`, a stale ticket is sooner or later loaded. The code justifies the
second: `get_ticket`, `list_tickets_for_astrologer` and `list_all_tickets` all run
`_maybe_auto_close_stale`, the chat app and the dashboard poll them, and
`scripts/auto_close_resolved_tickets.py` is there for tickets nobody looks at.

VoiceRelay's assumes that the event loop runs every task that can run, and that a
generation returns or raises: `openrouter_client` gives its HTTP client and its streams
timeouts (lines 43-44), and the agent loop has an iteration limit. Calls' assumes
that a started summary thread runs on (the same timeouts); a restart, which loses it, is allowed for in
the property.

SheetSync's assumes that the cron job runs every day (`scripts/sync_sheets.py`) and that a started call goes
on (`WF(Start \/ Runs)`: the sources have timeouts and retries, the database breaks deadlocks). ChatPage's assumes
`WF(Poll)`: `useTickets` refetches every 15 s while the page is in the
foreground; nothing is assumed of the astrologer. AgentLoop's assumes `WF(TurnStep)`: a started turn goes on, as
the providers' clients have timeouts and the handlers return.

No request is assumed to be made, no callback to arrive, and no fairness is assumed
of admins, astrologers, callers, Zoho or Twilio. The other specifications have
no fairness and no liveness.

## Proofs

Proved by TLAPS for all values of the constants (under the named ASSUMEs: bounds
are naturals, ratings are within 1..5, `None` is not an id, a number or an answer):

* `TicketLifecycleProofs`: `TypeOK` and the four safety invariants. The inductive
  invariant `LInv` adds that history is never empty and its last row carries the
  row's status (`StatusMirrorsHistory`, needed so that a close, whose guard looks
  at the row, finds its resolution in the history). One step per action; the
  lemmas about the row operators come first.
* `TicketDeskProofs`: type correctness of the desk, then two inductive invariants.
  `StatusInv` says that what each open session has decided still *fits*: a session
  that will close or answer did so on a resolution that is in the committed
  history (which only grows), so its commit is justified whatever was committed
  in between. The merge lemma (`CommitWrites`) says which of the committed values
  come from the session and which from the row. From it:
  `ClosedWasResolved`, `ResolvedHasClock`, `AnswerIsRecorded`, and the action property
  `StatusChangeIsRecorded`. `QueueInv` says that no session takes `kam_notified`,
  `cs_notified` or the KAM away, and that one that escalates or links brings the
  flag along; from it `EscalatedReachesKam` and `LinkedIsCsTicket`, both assuming
  that `backfill_ticket_notified.py` is not in use (`NoNotifiedBackfill`): the script
  overwrites the flags, and with it both properties are false. Last comes the refinement:
  while at most one request is at work (`OneAtATime`), every step of the desk is a step of
  TicketLifecycle or a stutter, with any operations, crashes and Zoho faults. The lifecycle
  takes its step at the commit, so the invariant `SerialInv` has to carry the decision from the
  handler to there: `Decision` says in terms of the row as it is what the lifecycle could leave,
  a session about to push holds one for every id Zoho may answer with, and a decision
  lasts while time passes (`DecisionLasts`). A merge with nobody else at work writes the
  ticket in memory (`MergeAlone`). From the same invariant `DeskMirror`: without overlap the status column is
  that of the latest history row, which with overlap it need not be. So the theorems of TicketLifecycle
  hold of the desk too, one request at a time; `AnswerFits`, carried along the decisions, states two of them on the
  desk's row (`DeskUnsatisfiedNeverClosed`, `DeskAnswersFit`). Two statements that TLC refutes are proved
  without their cause. `PushInv` says that what was pushed is linked or held by the one session that links: when no process
  dies, no answer of Zoho's is lost (`AnswersAreKept`) and no two sessions link at once (`OneLinking`), a
  ticket is pushed once (`DeskPushedOnce`). `EditInv` says that an open ticket which was resolved before was reopened
  since: an edit made in Zoho resolves again only after a reopening (`DeskEditsAreIdempotent`).
* `VoiceRelayProofs`: the inductive invariant `RelayInv` says who may hold the lock,
  that a thread is at work only under its task's lock while the session can still be used, and what the
  caller has heard of the latest turn in terms of what its task has taken from the queue. The comparison with
  `turn_id` alone does not give the order of what is spoken: that needs the second part. From
  it `TypeOK`, `SessionHasOneUser` and the refinement: every step of the relay is a
  step of Speech or a stutter.
* `CallsProofs`: lemmas say what each handler makes of the row; `CallInv` adds to the
  properties that a summary is under way only after the end was committed, that what its
  thread has seen starts as the stored actions did at the end, and that actions
  come with a turn. From it `TypeOK`, `FailedHasReason`, `FirstOutcomeStands` and
  the action property `EndAndTurnsStay`, for any number of callbacks and turns (the status column is not part of it:
  it can be revived, see below). Beside it `SummaryInv`: when no two threads are
  between their check and their write (`OneSummary`), the call is summarised once, since a later thread finds the outcome
  (`CallSummarisedOnce`).
* `AgentLoopProofs`: lemmas say what each action makes of the fields of the turn; `LoopInv`
  adds to the types what has to hold in the middle of a turn. A turn that goes on has a round left;
  its result so far names and closes what the tools have stored, and nothing else, but for what only a failed tool
  has stored; the context knows of a prior reply only if there
  was one. In a voice turn, what was spoken ends in the text of the stream under way and all of
  it has a round and a place of its own, so that the next piece, or the last words of the
  loop, are new (`SpokenSoFar`). Calls and answers stand in pairs, except that in a
  chat turn the last content owes as many answers as the turn has given and still has to
  give (`Owed`); a voice turn adds both at once. From it `TypeOK`, `CallsAnswered`,
  `ReplyIsSpoken`, `ResultTellsEffects` and the action property `AdviceFirst`, for any
  limits on rounds, attempts, calls and pieces.
* `TicketIntakeProofs`: a step of a turn does one of six things to its session (keeps it, changes a ticket
  in it, creates one, rolls it back, commits it, commits it with the auto-close of a stale ticket), and the
  dashboard's move is the seventh kind, so the invariants are proved kind by kind. `IdsInv` adds to the types
  whose a ticket is: one session at most holds it or is creating it, and ids are not reused; from
  it `TypeOK`. `KnownInv` says how far a creation has come at each of its steps (a KAM from `kam` on,
  announced from `zoho` on, committed from `call` on), so that what is told is done; from it
  `KnownTicketsAreComplete`. `RowsInv` says the same of the kind of row, for tickets no admin
  has touched: each draft is half-built, assigned or complete with the history that goes with it, whoever's commit
  makes it durable; from it `UntouchedRowsAreKnown`. `OpenInv`, for visits that do not
  overlap (`OneVisit`), says that no two tickets of a category, committed or in the session, are open;
  from it `NoSecondWhileOpen`, which two visits break. Any number of turns, tools, tickets, failures and deaths.
* `SheetSyncProofs`: any number of overlapping calls, experts, tabs and steps. `SyncInv` says what a
  call has read, found and pending (`CallGood`: its place in the plan, its data, its candidates).
  It looks at the tables only to see who is linked, and nobody is ever unlinked, so what one
  call commits cannot take away what another has found. From it `TypeOK`, `NoCascade`, `OkMeansLinked`,
  `ProvisionedHasKam` and the action property `FailedStepWritesNothing`. `CycleInv` says of the payout
  cycle that what is shown, read or pending is a tab's date and a payout that follows a
  tab; from it `PayoutCycleIsReal`. That theorem assumes that no tab is as old as a year (`WithinAYear`):
  a title has no year, and the code takes the nearest earlier one. The next payout follows *a* tab and
  not always the one shown, since two overlapping calls each write the columns in which they saw a
  difference; when cycles are a whole number of fortnights apart (`Fortnightly`) the two agree all the same
  (`SyncNextPayoutOnGrid`). `NatMin` gives CHOOSE a least number to choose, from the library's
  theorem on well-founded orders.
* `ChatPageProofs`: any number of tickets and history rows. `PageInv` says that a transcript, mounted or stored, never
  runs ahead of the list it is compared with, nor that list of the server (`Fits`, `Grows`): histories only get
  longer, so neither a reload with an old list nor a lost answer makes the page tell what it cannot have seen. What it has
  asked is remembered in `announced` wherever the transcript goes, and while the page is mounted all it has told
  lies under the count, unless a complaint has set the count by hand. Answers reach only the page that asked. From it `TypeOK`,
  `NoDeadWidget`, `AskedOnce` and `ToldOnce`. `QuoteInv` says that a fetched list is an earlier state of the server's, row by row; from it
  `PageInternalNotesStayInternal`: as long as no reassignment or escalation follows a resolution before its rating
  (`ResolutionIsLast`), no internal note is quoted.

The three ticket modules open with the lemmas on TicketRow's operators that they use.

Seven theorems are about properties that hold for every value of the constants and have no run
of their own: `AnswerMatchesRating` and `ClosedWasResolved` of the atomic lifecycle,
`AnswerIsRecorded`, `ResolvedHasClock` and `DeskMirror` of the desk, `FailedHasReason` of the calls,
`ProvisionedHasKam` of the sync. Seven more stand under a hypothesis: `SyncNextPayoutOnGrid`, and those that
say what is left of a refuted statement once its cause is excluded (`DeskPushedOnce`,
`DeskUnsatisfiedNeverClosed`, `DeskAnswersFit`, `DeskEditsAreIdempotent`, `CallSummarisedOnce`, `PageInternalNotesStayInternal`).

The named ASSUMEs say no more than the code or the bounds do (nothing is assumed of `UserOf`: experts may share a user or have none). In TicketDesk `MaxZohoTickets` is at
least 1 because a ticket may start out linked. In SheetSync a plan has no step twice (`_SYNC_STEPS` has
none), there is a tab from the start, and a tab is at most three days ahead of its day
(what `_parse_cycle_tab_date` allows). In ChatPage `MaxRows` is at least 2: a new ticket has two
rows. `NoEntryAssumption`, `NoRowAssumption` and `NoTicketAssumption` say that
`None` is not a record. The hypotheses of theorems (`NoNotifiedBackfill`, `OneAtATime`, `AnswersAreKept`, `OneVisit`, `WithinAYear`,
`Fortnightly` on the constants; `OneLinking`, `OneSummary`, `ResolutionIsLast` on the states of the behaviour) stand in their statements.

Only model-checked: the liveness properties (`UnansweredIsClosed`, `PromptAnswered`, `OutcomeArrives`,
`EveryExpertIsProvisioned`, `SyncConverges`, `ResolvedIsAsked`, `TurnEnds`), which the prover does not
reach. Every invariant, action property and refinement of a passing run is a theorem, some under the
hypotheses above.

## What the code does not keep

Two runs end in a counterexample to something the repository says of itself.

* **InternalNoteShown**: a reassignment or an escalation follows a resolution before the page
  has fetched the list; the rating prompt quotes the note of the last history row, which is
  the internal one. `ChatPage.tsx:210-213` says such a note must never surface there. There is no other way:
  `PageInternalNotesStayInternal`.
* **MissingFromCycle**: an expert is in an old cycle's tab and not in the newest one. The sync
  never deletes a row and nobody compares its `cycle_tab`, so `get_payout_status` reports the old
  amounts with the next cycle's date. `payout_client.py:22` and `:59` say it reports no record.

Five more are found by TLC when the property is named as an INVARIANT in the cfg of a
run (the definitions are there, at the end of TicketDesk and of Calls), or with two visits:

* `UnsatisfiedNeverClosed` in DeskStatus: a rating of 1 to 3 has loaded the resolved ticket, a lazy
  auto-close loads it too, the rating commits its reopening, then the auto-close
  commits over it; the ticket ends closed with the complaint on it. `ticket_service.py:620-625` says a rating of 3 or less reopens.
  It takes an overlap: `DeskUnsatisfiedNeverClosed`.
* `PushedOnce` in DeskQueues: the Zoho backfill dies between a push and its commit and pushes
  again. `backfill_zoho_tickets.py:6-9` says an interrupted run never double-pushes.
  Besides a death it takes a lost answer of Zoho's or two sessions linking at once: `DeskPushedOnce`.
* `ClosedEditAppliedOnce` in DeskQueues with a MaxHistory of 6: a "Closed" webhook delivered again after the astrologer has
  reopened the ticket resolves it again. `zoho_webhook.py:64-66` says idempotent.
  Without a reopening in between a repetition does nothing, one request at a time: `DeskEditsAreIdempotent`.
* `SummarisedOnce` in Calls: a terminal callback is repeated before the first summary
  thread has written; a second thread asks the model again and overwrites the
  outcome. `call_service.py:556` says exactly once per call. It takes two threads
  between check and write: `CallSummarisedOnce`. (`FirstOutcomeStands`
  shows that what a tool has settled survives this, unless the second attempt fails and says "unknown".)
* `NoSecondWhileOpen` in IntakeOneVisit with `Visits <- MCTwoVisits`: two overlapping turns both
  find no active ticket and raise one each. `tool_registry.py:188-190` says never.

The refinement `LifecycleSpec` therefore holds for one worker and not for two.
Two consequences to know of: with overlap the status column need not be that of
the latest history row, and a creation is not one transaction (the end of a
leave, or the turn's commit after a failed tool, makes a half-built ticket
durable; `UntouchedRowsAreKnown` says exactly which kinds).

The models of the calls show more that no text of the repository contradicts, so no run
claims it: a late callback, or `start_conversation` on its old copy, shows a finished call as
in progress again; a hang-up releases the lock with the model's thread still running, and
the session is closed under it, so the turn (and the call's mention of a ticket raised
in it) is lost; of several tool outcomes in a call the first decides; a restart loses a
summary for good unless another terminal callback comes.

The newer models show, likewise without a run that claims it:

* Sheet sync: `begin_nested()` flushes the pending row before it sets the savepoint, so a unique
  collision takes the whole provisioning step with it, where the docstring (`sheets_sync_service.py:326-335`) wants to skip
  one expert. When two calls collided, the rerun makes it good (`EveryExpertIsProvisioned`). When two experts have one
  user id, which `expert_priority` allows and `astrologers.user_id` does not, no rerun does. That is why
  `EveryExpertIsProvisioned` and `SyncConverges` assume `OneUserEach`; without it, and with `MCUserOf` giving
  both experts one user, TLC refutes both (the first when no user cell is blank, the second with two edits). In the first, the two are candidates together, or the second
  appears when the first is linked: the step fails on every run, and no candidate of those runs gets a row. In the
  second, a user id that is filled in later is another astrologer's: the profiles step fails on every run, and phones and
  languages are copied for nobody.
* Sheet sync, languages and dates: a language cell that was given and becomes blank brings the frozen
  language of the retired sheet back, where the docstring (`405-415`) has it only for experts the new column has not
  covered yet. When two calls
  see different tabs, their columns of `payout_cycle_info` are merged; the next payout date shown can
  then be the latest cycle's own date, which the docstring at 165 excludes. With cycles a whole number of fortnights apart
  it stays on their grid (`SyncNextPayoutOnGrid`).
* Agent loop: prose of a completion that also calls tools is spoken but neither kept in the contents nor
  in the reply (`orchestrator.py:260-264` says retained). A completion that stops with
  empty text gives a blank chat reply. An announcement of the chat page counts as a prior
  reply, so the advice gate of `tool_registry.py:216-230` can be passed before any advice;
  on the phone `has_prior_reply` is never set, so there a non-VIP cannot get a no_visibility
  ticket at all. Streamed arguments that do not parse are `{}`, and the category becomes "other". A
  provider that fails after tools have worked loses their trace and metadata, and so does a streamed call whose
  arguments are valid JSON but no object. A ticket that is stored before its tool
  fails is in no result: the chat is not closed and the page not told of it, and when the model asks again it
  is refused for the ticket that is there. `ResultTellsEffects` excepts exactly these (`lost`).
* Chat page: the baseline set after a complaint (`ChatPage.tsx:249-258`) is not exact when rows were added meanwhile: a
  row is then told twice or never, which is why `ToldOnce` excludes it. A rating that fails
  takes its widget with it until a new chat begins. A second resolution within one transcript gets no
  prompt. A new chat is asked again only when the list changes. A reply that comes late lands
  in the new chat and may close it. Changes that arrive together with a resolution are
  not told apart from it.

## Left out

Wording, translation, prompts and provider formats; comments, attachments,
assignees and token caches in Zoho; MoEngage events (fire and forget); sorting and
filtering of lists (reads); KYC, salary and other lookups; migrations; the dashboard, the
Android client and the tickets pages (forms and lists over the routes modelled here);
admin accounts and login, analytics, chat feedback, uploads (single writes or reads). In SheetSync: the
parsing of cells, an expert whose user changes to another, astrologers that the seed script made, the order
in which the flush of the profiles meets the unique key (it is one step), the retries inside `read_tab` (one failing source stands for all of them) and the cache of tab ids. In
AgentLoop: the trace, prompts, pictures, and Vertex's own format. The guards on free text (an escalation needs a note) and on
the caller's role are inputs the model takes as given. Two visits sharing one
`session_id` are not modelled. Bulk reassignment is a sequence of reassignments.

## Plan

1. Done: TicketRow, TicketLifecycle, TicketDesk and their proofs; TicketIntake; Speech,
   VoiceRelay, Calls, AgentLoop and their proofs; SheetSync, ChatPage.
2. Done: the proofs of TicketIntake and of SheetSync, and the refinement of TicketLifecycle by a
   desk with one request at a time.
3. Done: the proofs of ChatPage, and of what is left of the refuted statements.
4. Not planned: the round robin of the CS pick and the admin edits, login, analytics: little
   state and no interplay.
