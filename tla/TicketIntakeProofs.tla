-------------------------- MODULE TicketIntakeProofs --------------------------
(***************************************************************************)
(* Proofs about TicketIntake, for any number of visits, tickets and tool   *)
(* calls.  First what a step does to the sessions, in seven kinds; then the *)
(* inductive invariants, each on top of the one before: whose a ticket is  *)
(* (IdsInv), what is known of it (KnownInv), what kind of row it is         *)
(* (RowsInv), and, for visits that do not overlap, which tickets are open   *)
(* (OpenInv).                                                              *)
(***************************************************************************)
EXTENDS TicketIntake, SequenceTheorems, FiniteSetTheorems, TLAPS

-----------------------------------------------------------------------------
(* The operators of TicketRow map ticket rows to ticket rows.              *)

(* _record_status yields a well-formed ticket with the status it is given, *)
(* and a resolution starts the clock and clears the answer.                *)
LEMMA RecordStatusType ==
  ASSUME NEW t \in TicketRows, NEW s \in TicketStatus, NEW at \in Nat
  PROVE  /\ RecordStatus(t, s, at) \in TicketRows
         /\ RecordStatus(t, s, at).status = s
BY DEF RecordStatus, TicketRows, TicketStatus

(* Routing yields two flags.                                               *)
LEMMA RoutingType ==
  ASSUME NEW c, NEW p
  PROVE  /\ routing_for_ticket(c, p).kam \in BOOLEAN
         /\ routing_for_ticket(c, p).cs \in BOOLEAN
BY DEF routing_for_ticket

(* A commit merges well-formed tickets into a well-formed ticket.          *)
LEMMA MergeType ==
  ASSUME NEW b \in TicketRows, NEW m \in TicketRows, NEW r \in TicketRows,
         NEW s \in BOOLEAN
  PROVE  Merge(b, m, r, s) \in TicketRows
BY DEF Merge, Pick, TicketRows

(* create_ticket leaves well-formed tickets.                               *)
LEMMA CreatedType ==
  /\ \A c \in Categories : HalfBuiltRow(c) \in TicketRows
  /\ \A c \in Categories, k \in Kams : AssignedRow(c, k) \in TicketRows
  /\ \A c \in Categories, p \in Priorities, k \in Kams, s \in CSs \cup {None},
        z \in Nat \cup {None} : CreatedRow(c, p, k, s, z) \in TicketRows
<1>1. ASSUME NEW c \in Categories PROVE HalfBuiltRow(c) \in TicketRows
  BY DEF HalfBuiltRow, UnroutedRow, TicketRows, TicketStatus
<1>2. ASSUME NEW c \in Categories, NEW p \in Priorities, NEW k \in Kams,
             NEW s \in CSs \cup {None}, NEW z \in Nat \cup {None}
      PROVE  CreatedRow(c, p, k, s, z) \in TicketRows
  BY RoutingType DEF CreatedRow, TicketRows, TicketStatus
<1>3. ASSUME NEW c \in Categories, NEW k \in Kams
      PROVE  AssignedRow(c, k) \in TicketRows
  BY DEF AssignedRow, UnroutedRow, TicketRows, TicketStatus
<1> QED
  BY <1>1, <1>2, <1>3

(* History rows are well-formed, and so are the rows of a new ticket.      *)
LEMMA EntryTypes ==
  /\ \A s \in TicketStatus, a \in Authors, e \in Nat :
       /\ StatusEntry(s, a) \in HistoryRows
       /\ [StatusEntry(s, a) EXCEPT !.edit = e] \in HistoryRows
  /\ \A t \in TicketRows, a \in Authors, e \in Nat :
       /\ NoteEntry(t, a) \in HistoryRows
       /\ [NoteEntry(t, a) EXCEPT !.edit = e] \in HistoryRows
BY DEF StatusEntry, NoteEntry, HistoryRows, Authors, TicketRows

LEMMA CreationHistoryType ==
  ASSUME NEW t
  PROVE  CreationHistory(t) \in Seq(HistoryRows)
<1> DEFINE e1 == StatusEntry("submitted", "system")
           e2 == StatusEntry("assigned_to_kam", "system")
<1>1. e1 \in HistoryRows /\ e2 \in HistoryRows
  BY DEF StatusEntry, HistoryRows, TicketStatus, Authors
<1> HIDE DEF e1, e2
<1>2. << e1 >> \in Seq(HistoryRows) /\ << e1, e2 >> \in Seq(HistoryRows)
  BY <1>1
<1>3. CreationHistory(t) \in {<< e1 >>, << e1, e2 >>}
  BY DEF CreationHistory, e1, e2
<1> QED
  BY <1>2, <1>3
-----------------------------------------------------------------------------

(* create_ticket is at work on ticket turn[v].id.                          *)
Building == {"kam", "cs", "slack", "zoho", "commit", "call", "link"}
Busy(v) == turn[v].pc \in Building

(* v's session holds ticket i, or will change it.                          *)
Owns(v, i) == i \in Drafted(v) \/ (Busy(v) /\ turn[v].id = i)

IdsInv ==
  /\ TypeOK
  /\ DOMAIN draft = Visits
  /\ nextId # 0
  /\ \A i \in DOMAIN tickets : i < nextId
  /\ \A v \in Visits : \A i \in Drafted(v) :
       i < nextId /\ (draft[v][i].base = None <=> i \notin DOMAIN tickets)
  /\ \A v \in Visits : Busy(v) =>
       /\ turn[v].id \in Ids /\ turn[v].id < nextId
       /\ turn[v].id \in Drafted(v) \cup DOMAIN tickets
  /\ \A v, w \in Visits : \A i \in Ids : Owns(v, i) /\ Owns(w, i) => v = w

-----------------------------------------------------------------------------
(* The kinds of steps.                                                     *)

(* A turn of v goes on; a creation is the one that was under way.          *)
Continues(v) ==
  /\ turn' \in [Visits -> Turns]
  /\ \A w \in Visits \ {v} : turn'[w] = turn[w]
  /\ Busy(v)' => Busy(v) /\ turn'[v].id = turn[v].id

OthersKept(v) ==
  /\ DOMAIN draft' = Visits
  /\ \A w \in Visits \ {v} : draft'[w] = draft[w]

SameDraft(d, e) == e \in Drafts /\ e.base = d.base /\ e.mine = d.mine /\ e.rows = d.rows

(* Nothing changes in the session, but for what was flushed.               *)
Keeps(v) ==
  /\ UNCHANGED <<tickets, hist, nextId>>
  /\ OthersKept(v)
  /\ Drafted(v)' = Drafted(v)
  /\ \A i \in Drafted(v) : SameDraft(draft[v][i], draft'[v][i])

(* Ticket i becomes t, and rows are added to its history.                  *)
Writes(v, i, t, rows) ==
  /\ UNCHANGED <<tickets, hist, nextId>>
  /\ OthersKept(v)
  /\ Drafted(v)' = Drafted(v) \cup {i}
  /\ \A j \in Drafted(v) \ {i} : draft'[v][j] = draft[v][j]
  /\ draft'[v][i] \in Drafts
  /\ draft'[v][i].mine = t
  /\ draft'[v][i].base = IF i \in Drafted(v) THEN draft[v][i].base ELSE tickets[i]
  /\ draft'[v][i].rows = IF i \in Drafted(v) THEN draft[v][i].rows \o rows ELSE rows

(* The session is rolled back.                                             *)
Drops(v) ==
  /\ UNCHANGED <<tickets, hist, nextId>>
  /\ OthersKept(v)
  /\ Drafted(v)' = {}

(* What a commit makes of ticket i.                                        *)
Written(v, i) ==
  IF i \notin Drafted(v) THEN tickets[i]
  ELSE IF i \notin DOMAIN tickets THEN draft[v][i].mine
  ELSE Merge(draft[v][i].base, draft[v][i].mine, tickets[i], FALSE)

Recorded(v, i) ==
  IF i \notin Drafted(v) THEN hist[i]
  ELSE IF i \notin DOMAIN tickets THEN draft[v][i].rows
  ELSE hist[i] \o draft[v][i].rows

(* The session is committed.                                               *)
Commits(v) ==
  /\ nextId' = nextId
  /\ OthersKept(v)
  /\ Drafted(v)' = {}
  /\ DOMAIN tickets' = DOMAIN tickets \cup Drafted(v) /\ DOMAIN hist' = DOMAIN tickets'
  /\ \A i \in DOMAIN tickets' : tickets'[i] = Written(v, i) /\ hist'[i] = Recorded(v, i)

Moved(i, s, by) ==
  /\ tickets'[i] = RecordStatus(tickets[i], s, 0)
  /\ hist'[i] = Append(hist[i], StatusEntry(s, by))

(* The session is committed, with the closing of a stale ticket.           *)
CommitsClosing(v, i) ==
  /\ i \in DOMAIN tickets \ Drafted(v)
  /\ tickets[i].status = "resolved"
  /\ nextId' = nextId
  /\ OthersKept(v)
  /\ Drafted(v)' = {}
  /\ DOMAIN tickets' = DOMAIN tickets \cup Drafted(v) /\ DOMAIN hist' = DOMAIN tickets'
  /\ \A j \in DOMAIN tickets' \ {i} : tickets'[j] = Written(v, j) /\ hist'[j] = Recorded(v, j)
  /\ Moved(i, "closed", "system")

(* A new ticket.                                                           *)
Creates(v, c) ==
  /\ UNCHANGED <<tickets, hist>>
  /\ OthersKept(v)
  /\ nextId \in Ids /\ nextId' = nextId + 1
  /\ Drafted(v)' = Drafted(v) \cup {nextId}
  /\ \A j \in Drafted(v) : draft'[v][j] = draft[v][j]
  /\ draft'[v][nextId] \in Drafts
  /\ draft'[v][nextId].base = None
  /\ draft'[v][nextId].mine = HalfBuiltRow(c)
  /\ draft'[v][nextId].rows = << StatusEntry("submitted", "system") >>
  /\ turn' \in [Visits -> Turns]
  /\ \A w \in Visits \ {v} : turn'[w] = turn[w]
  /\ turn'[v].id = nextId

(* The desk moves a ticket.                                                *)
Desk(i, s) ==
  /\ UNCHANGED <<nextId, draft, turn, visit, leave, slack, told>>
  /\ i \in DOMAIN tickets /\ s \in ADMIN_SETTABLE_STATUSES
  /\ DOMAIN tickets' = DOMAIN tickets /\ DOMAIN hist' = DOMAIN hist
  /\ \A j \in DOMAIN tickets \ {i} : tickets'[j] = tickets[j] /\ hist'[j] = hist[j]
  /\ Moved(i, s, "admin")

-----------------------------------------------------------------------------
(* What each action does, as one of these kinds.                           *)

LEMMA DraftFields ==
  ASSUME NEW d \in Drafts
  PROVE  /\ d.base \in TicketRows \cup {None} /\ d.mine \in TicketRows
         /\ d.rows \in Seq(HistoryRows) /\ d.flushed \in BOOLEAN
BY DEF Drafts

LEMMA DraftType ==
  ASSUME NEW b \in TicketRows \cup {None}, NEW m \in TicketRows,
         NEW r \in Seq(HistoryRows), NEW f \in BOOLEAN
  PROVE  [base |-> b, mine |-> m, rows |-> r, flushed |-> f] \in Drafts
BY DEF Drafts

LEMMA FlushedDraft ==
  ASSUME NEW d \in Drafts
  PROVE  SameDraft(d, [d EXCEPT !.flushed = TRUE])
BY DEF SameDraft, Drafts

(* What the operations on a session make of it.                            *)
LEMMA FlushKeeps ==
  ASSUME IdsInv, NEW v \in Visits, Flush(v), UNCHANGED <<tickets, hist, nextId>>
  PROVE  Keeps(v)
<1>1. draft' = [draft EXCEPT ![v] = [i \in Drafted(v) |-> [draft[v][i] EXCEPT !.flushed = TRUE]]]
  BY DEF Flush
<1>2. OthersKept(v) /\ draft'[v] = [i \in Drafted(v) |-> [draft[v][i] EXCEPT !.flushed = TRUE]]
  BY <1>1 DEF OthersKept, IdsInv
<1>3. \A i \in Drafted(v) : draft[v][i] \in Drafts
  BY DEF IdsInv, TypeOK, Drafted
<1>4. \A i \in Drafted(v) : SameDraft(draft[v][i], draft'[v][i])
  BY <1>2, <1>3, FlushedDraft
<1>. QED
  BY <1>2, <1>4 DEF Keeps, Drafted

LEMMA NothingKeeps ==
  ASSUME IdsInv, NEW v \in Visits, UNCHANGED <<tickets, hist, nextId, draft>>
  PROVE  Keeps(v)
<1>1. \A i \in Drafted(v) : draft[v][i] \in Drafts
  BY DEF IdsInv, TypeOK, Drafted
<1>. QED
  BY <1>1 DEF Keeps, SameDraft, OthersKept, Drafted, IdsInv

LEMMA ChangeWrites ==
  ASSUME IdsInv, NEW v \in Visits, NEW i \in Drafted(v) \cup DOMAIN tickets,
         NEW t \in TicketRows, NEW rows \in Seq(HistoryRows),
         Change(v, i, t, rows), UNCHANGED <<tickets, hist, nextId>>
  PROVE  Writes(v, i, t, rows)
<1> DEFINE d == IF i \in Drafted(v) THEN draft[v][i]
                ELSE [base |-> tickets[i], mine |-> tickets[i], rows |-> << >>, flushed |-> FALSE]
           e == [d EXCEPT !.mine = t, !.rows = d.rows \o rows]
<1>1. draft' = [draft EXCEPT ![v] = [j \in Drafted(v) \cup {i} |-> IF j = i THEN e ELSE draft[v][j]]]
  BY DEF Change
<1>2. d \in Drafts
  <2>1. i \in Drafted(v) => draft[v][i] \in Drafts
    BY DEF IdsInv, TypeOK, Drafted
  <2>2. i \notin Drafted(v) => tickets[i] \in TicketRows
    BY DEF IdsInv, TypeOK
  <2>3. << >> \in Seq(HistoryRows)
    OBVIOUS
  <2>. QED
    BY <2>1, <2>2, <2>3, DraftType
<1>3. /\ d.base = IF i \in Drafted(v) THEN draft[v][i].base ELSE tickets[i]
      /\ d.rows = IF i \in Drafted(v) THEN draft[v][i].rows ELSE << >>
  OBVIOUS
<1> HIDE DEF d
<1>4. d.rows \o rows \in Seq(HistoryRows) /\ << >> \o rows = rows
  BY <1>2, DraftFields
<1>5. e \in Drafts /\ e.mine = t /\ e.base = d.base /\ e.rows = d.rows \o rows
  <2>1. ASSUME NEW r \in Seq(HistoryRows)
        PROVE  LET f == [d EXCEPT !.mine = t, !.rows = r]
               IN  f \in Drafts /\ f.mine = t /\ f.base = d.base /\ f.rows = r
    BY <1>2 DEF Drafts
  <2>. QED
    BY <1>4, <2>1
<1> HIDE DEF e
<1>6. /\ OthersKept(v)
      /\ draft'[v] = [j \in Drafted(v) \cup {i} |-> IF j = i THEN e ELSE draft[v][j]]
  BY <1>1 DEF OthersKept, IdsInv
<1>7. e.rows = IF i \in Drafted(v) THEN draft[v][i].rows \o rows ELSE rows
  BY <1>3, <1>4, <1>5
<1>. QED
  BY <1>3, <1>5, <1>6, <1>7 DEF Writes, Drafted

LEMMA CommitCommits ==
  ASSUME IdsInv, NEW v \in Visits, CommitDrafts(v), nextId' = nextId
  PROVE  Commits(v) /\ visit' \in [Visits -> Links] /\ visit'[v] = turn[v].link
         /\ \A w \in Visits \ {v} : visit'[w] = visit[w]
<1>1. OthersKept(v) /\ Drafted(v)' = {}
  BY DEF CommitDrafts, OthersKept, IdsInv, Drafted, NoDraft
<1>2. DOMAIN hist = DOMAIN tickets
  BY DEF IdsInv, TypeOK
<1>3. DOMAIN tickets' = DOMAIN tickets \cup Drafted(v) /\ DOMAIN hist' = DOMAIN tickets'
  BY DEF CommitDrafts
<1>4. ASSUME NEW i \in DOMAIN tickets' PROVE tickets'[i] = Written(v, i)
  BY <1>3 DEF CommitDrafts, Written
<1>5. ASSUME NEW i \in DOMAIN tickets' PROVE hist'[i] = Recorded(v, i)
  <2>1. hist'[i] = (IF i \in DOMAIN tickets THEN hist[i] ELSE << >>)
                      \o (IF i \in Drafted(v) THEN draft[v][i].rows ELSE << >>)
    BY <1>3 DEF CommitDrafts
  <2>2. i \in DOMAIN tickets => hist[i] \in Seq(HistoryRows)
    BY DEF IdsInv, TypeOK
  <2>3. i \in Drafted(v) => draft[v][i].rows \in Seq(HistoryRows)
    BY DraftFields DEF IdsInv, TypeOK, Drafted
  <2>4. \A s \in Seq(HistoryRows) : s \o << >> = s /\ << >> \o s = s
    OBVIOUS
  <2>. QED
    BY <1>3, <2>1, <2>2, <2>3, <2>4 DEF Recorded
<1>6. visit' = [visit EXCEPT ![v] = turn[v].link] /\ turn[v].link \in Links
  BY DEF CommitDrafts, IdsInv, TypeOK, Turns
<1>. QED
  BY <1>1, <1>3, <1>4, <1>5, <1>6 DEF Commits, IdsInv, TypeOK

-----------------------------------------------------------------------------
(* Where the turn goes.                                                    *)

(* turn[v] becomes u.                                                      *)
TurnIs(v, u) ==
  /\ turn' \in [Visits -> Turns]
  /\ turn'[v] = u
  /\ \A w \in Visits \ {v} : turn'[w] = turn[w]

LEMMA TurnFields ==
  ASSUME NEW u \in Turns
  PROVE  /\ u.pc \in Building \cup {"idle", "model"}
         /\ u.id \in Nat /\ u.calls \in Nat /\ u.link \in Links /\ u.created \in SUBSET Ids
BY DEF Turns, Building

LEMMA TurnTypes ==
  ASSUME NEW u \in Turns, NEW pc \in Building \cup {"model"}, NEW n \in Nat,
         NEW l \in Links, NEW s \in SUBSET Ids
  PROVE  /\ [u EXCEPT !.pc = pc] \in Turns
         /\ [u EXCEPT !.pc = pc, !.calls = n] \in Turns
         /\ [u EXCEPT !.pc = pc, !.id = n] \in Turns
         /\ [u EXCEPT !.calls = n, !.link = l] \in Turns
         /\ [u EXCEPT !.pc = pc, !.calls = n, !.created = s, !.link = l] \in Turns
BY DEF Turns, Building

LEMMA TurnTakes ==
  ASSUME IdsInv, NEW v \in Visits, NEW u \in Turns, turn' = [turn EXCEPT ![v] = u]
  PROVE  TurnIs(v, u)
BY DEF TurnIs, IdsInv, TypeOK

LEMMA TurnGoes ==
  ASSUME IdsInv, NEW v \in Visits, NEW pc \in Building, Goes(v, pc)
  PROVE  TurnIs(v, [turn[v] EXCEPT !.pc = pc])
<1>1. turn[v] \in Turns
  BY DEF IdsInv, TypeOK
<1>2. [turn[v] EXCEPT !.pc = pc] \in Turns
  BY <1>1 DEF Turns, Building
<1>. QED
  BY <1>2, TurnTakes DEF Goes

LEMMA TurnToolEnds ==
  ASSUME IdsInv, NEW v \in Visits, ToolEnds(v)
  PROVE  TurnIs(v, [turn[v] EXCEPT !.pc = "model", !.calls = @ + 1])
<1>1. turn[v] \in Turns
  BY DEF IdsInv, TypeOK
<1>2. turn[v].calls + 1 \in Nat
  BY <1>1, TurnFields
<1>3. [turn[v] EXCEPT !.pc = "model", !.calls = turn[v].calls + 1] \in Turns
  BY <1>1, <1>2, TurnTypes, TurnFields
<1>. QED
  BY <1>3, TurnTakes DEF ToolEnds

LEMMA TurnFieldsKept ==
  ASSUME NEW u \in Turns, NEW pc, NEW n
  PROVE  LET w == [u EXCEPT !.pc = pc, !.calls = n]
             x == [u EXCEPT !.pc = pc]
         IN  /\ w.pc = pc /\ w.id = u.id /\ w.link = u.link /\ w.created = u.created
             /\ x.pc = pc /\ x.id = u.id /\ x.link = u.link /\ x.created = u.created
BY DEF Turns

LEMMA IdleType ==
  ASSUME IdsInv, NEW v \in Visits
  PROVE  /\ Idle(v) \in Turns /\ Idle(v).pc = "idle" /\ Idle(v).created = {}
         /\ Idle(v).link = visit[v]
         /\ [Idle(v) EXCEPT !.pc = "model"] \in Turns
         /\ [Idle(v) EXCEPT !.link = turn[v].link] \in Turns
<1>1. visit[v] \in Links /\ turn[v].link \in Links
  BY TurnFields DEF IdsInv, TypeOK
<1>. QED
  BY <1>1 DEF Idle, Turns

(* Which of the kinds each action of a turn is, and where the turn goes.   *)
LEMMA StartTurnIs ==
  ASSUME IdsInv, NEW v \in Visits, StartTurn(v)
  PROVE  Keeps(v) /\ TurnIs(v, [Idle(v) EXCEPT !.pc = "model"])
<1>1. turn' = [turn EXCEPT ![v] = [Idle(v) EXCEPT !.pc = "model"]]
  BY DEF StartTurn
<1>. QED
  BY <1>1, IdleType, TurnTakes, NothingKeeps DEF StartTurn

LEMMA EndTurnIs ==
  ASSUME IdsInv, NEW v \in Visits, EndTurn(v)
  PROVE  Commits(v) /\ TurnIs(v, [Idle(v) EXCEPT !.link = turn[v].link])
<1>1. turn' = [turn EXCEPT ![v] = [Idle(v) EXCEPT !.link = turn[v].link]]
  BY DEF EndTurn
<1>. QED
  BY <1>1, IdleType, TurnTakes, CommitCommits DEF EndTurn

LEMMA TurnDiesIs ==
  ASSUME IdsInv, NEW v \in Visits, TurnDies(v)
  PROVE  Drops(v) /\ TurnIs(v, Idle(v))
<1>1. turn' = [turn EXCEPT ![v] = Idle(v)]
  BY DEF TurnDies
<1>2. Drops(v)
  BY DEF TurnDies, Drops, OthersKept, IdsInv, Drafted, NoDraft
<1>. QED
  BY <1>1, <1>2, IdleType, TurnTakes

LEMMA ModelReadsIs ==
  ASSUME IdsInv, NEW v \in Visits, ModelReads(v)
  PROVE  Keeps(v) /\ TurnIs(v, [turn[v] EXCEPT !.pc = "model", !.calls = @ + 1])
BY TurnToolEnds, NothingKeeps DEF ModelReads

LEMMA ModelResolvesIs ==
  ASSUME IdsInv, NEW v \in Visits, ModelResolves(v)
  PROVE  /\ Keeps(v)
         /\ \E u \in Turns : TurnIs(v, u) /\ u.pc = "model" /\ u.created = turn[v].created
                             /\ u.link.ticket_id = turn[v].link.ticket_id
<1> DEFINE l == [turn[v].link EXCEPT !.resolved_by = "bot"]
           u == [turn[v] EXCEPT !.calls = @ + 1, !.link = l]
<1>1. turn[v] \in Turns /\ turn[v].pc = "model"
  BY DEF ModelResolves, Thinks, IdsInv, TypeOK
<1>2. l \in Links /\ l.ticket_id = turn[v].link.ticket_id
  BY <1>1, TurnFields DEF Links
<1>3. turn' = [turn EXCEPT ![v] = u]
  BY <1>1 DEF ModelResolves, IdsInv, TypeOK, Turns
<1> HIDE DEF l
<1>4. u \in Turns
  <2>1. turn[v].calls + 1 \in Nat
    BY <1>1, TurnFields
  <2>. QED
    BY <1>1, <1>2, <2>1, TurnTypes, TurnFields
<1>7. u.pc = "model" /\ u.created = turn[v].created /\ u.link = l
  BY <1>1 DEF Turns
<1> HIDE DEF u
<1>5. TurnIs(v, u)
  BY <1>3, <1>4, TurnTakes
<1>6. Keeps(v)
  BY FlushKeeps DEF ModelResolves
<1>. QED
  BY <1>2, <1>4, <1>5, <1>6, <1>7

LEMMA FirstRow ==
  ASSUME NEW s \in TicketStatus
  PROVE  << StatusEntry(s, "system") >> \in Seq(HistoryRows)
<1> DEFINE e == StatusEntry(s, "system")
<1>1. e \in HistoryRows
  BY DEF StatusEntry, HistoryRows, Authors
<1> HIDE DEF e
<1>2. << e >> \in Seq(HistoryRows)
  BY <1>1
<1>. QED
  BY <1>2 DEF e

LEMMA ModelCreatesIs ==
  ASSUME IdsInv, NEW v \in Visits, NEW c \in Categories, ModelCreates(v, c)
  PROVE  /\ Creates(v, c)
         /\ TurnIs(v, [turn[v] EXCEPT !.pc = "kam", !.id = nextId])
<1> DEFINE u == [turn[v] EXCEPT !.pc = "kam", !.id = nextId]
           d == [ base |-> None, mine |-> HalfBuiltRow(c), flushed |-> FALSE,
                  rows |-> << StatusEntry("submitted", "system") >> ]
<1>1. turn[v] \in Turns /\ nextId \in Nat /\ nextId \in Ids
  BY IntakeAssumption DEF ModelCreates, IdsInv, TypeOK, Ids
<1>2. turn' = [turn EXCEPT ![v] = u]
  BY <1>1 DEF ModelCreates, IdsInv, TypeOK, Turns
<1>3. u \in Turns /\ u.id = nextId
  BY <1>1 DEF Turns
<1>4. << StatusEntry("submitted", "system") >> \in Seq(HistoryRows)
  BY FirstRow DEF TicketStatus
<1>5. d = [ base |-> None, mine |-> HalfBuiltRow(c),
            rows |-> << StatusEntry("submitted", "system") >>, flushed |-> FALSE ]
  OBVIOUS
<1>6. d \in Drafts
  BY <1>4, <1>5, CreatedType, DraftType
<1>7. nextId \notin Drafted(v)
  BY <1>1 DEF IdsInv
<1>8. draft' = [draft EXCEPT ![v] = [i \in Drafted(v) \cup {nextId} |->
                  IF i \in Drafted(v) THEN draft[v][i] ELSE d]]
  BY DEF ModelCreates
<1>9. d.base = None /\ d.mine = HalfBuiltRow(c) /\ d.rows = << StatusEntry("submitted", "system") >>
  OBVIOUS
<1> HIDE DEF d, u
<1>10. OthersKept(v) /\ draft'[v] = [i \in Drafted(v) \cup {nextId} |->
                                      IF i \in Drafted(v) THEN draft[v][i] ELSE d]
  BY <1>8 DEF OthersKept, IdsInv
<1>11. TurnIs(v, u)
  BY <1>2, <1>3, TurnTakes
<1>12. Creates(v, c)
  <2>1. Drafted(v)' = Drafted(v) \cup {nextId} /\ draft'[v][nextId] = d
        /\ \A j \in Drafted(v) : draft'[v][j] = draft[v][j]
    BY <1>7, <1>10 DEF Drafted
  <2>2. UNCHANGED <<tickets, hist>> /\ nextId' = nextId + 1
    BY DEF ModelCreates
  <2>. QED
    BY <1>1, <1>3, <1>6, <1>9, <1>10, <1>11, <2>1, <2>2 DEF Creates, TurnIs
<1>. QED
  BY <1>11, <1>12 DEF u

(* The same of the steps of a creation.                                    *)
LEMMA UnderCreationType ==
  ASSUME IdsInv, NEW v \in Visits, Busy(v)
  PROVE  /\ turn[v] \in Turns
         /\ turn[v].id \in Ids /\ turn[v].id \in Nat
         /\ turn[v].id \in Drafted(v) \cup DOMAIN tickets
         /\ UnderCreation(v) \in TicketRows
<1>1. turn[v] \in Turns /\ turn[v].id \in Ids /\ turn[v].id \in Drafted(v) \cup DOMAIN tickets
  BY DEF IdsInv, TypeOK
<1>2. turn[v].id \in Nat
  BY <1>1, TurnFields
<1>3. \A i \in Drafted(v) : draft[v][i].mine \in TicketRows
  BY DraftFields DEF IdsInv, TypeOK, Drafted
<1>4. \A i \in DOMAIN tickets : tickets[i] \in TicketRows
  BY DEF IdsInv, TypeOK
<1>. QED
  BY <1>1, <1>2, <1>3, <1>4 DEF UnderCreation, Seen

LEMMA EndLeaveIs ==
  ASSUME IdsInv, NEW v \in Visits, NEW pool \in {"kam", "cs"}, EndLeave(v, pool)
  PROVE  Commits(v) /\ turn' = turn
BY CommitCommits DEF EndLeave

LEMMA NoKamIs ==
  ASSUME IdsInv, NEW v \in Visits, NoKam(v)
  PROVE  Keeps(v) /\ TurnIs(v, [turn[v] EXCEPT !.pc = "model", !.calls = @ + 1])
BY TurnToolEnds, NothingKeeps DEF NoKam

KamAssigned(v, k) ==
  RecordStatus([UnderCreation(v) EXCEPT !.assigned_admin_id = k], "assigned_to_kam", 0)

LEMMA AssignKamIs ==
  ASSUME IdsInv, NEW v \in Visits, NEW k \in Kams, AssignKam(v, k)
  PROVE  /\ KamAssigned(v, k) \in TicketRows
         /\ KamAssigned(v, k).status = "assigned_to_kam"
         /\ KamAssigned(v, k).assigned_admin_id = k
         /\ KamAssigned(v, k).category = UnderCreation(v).category
         /\ Writes(v, turn[v].id, KamAssigned(v, k), << StatusEntry("assigned_to_kam", "system") >>)
         /\ TurnIs(v, [turn[v] EXCEPT !.pc = "cs"])
<1>1. Busy(v)
  BY DEF AssignKam, Busy, Building
<1>2. UnderCreation(v) \in TicketRows
  BY <1>1, UnderCreationType
<1>3. ASSUME NEW t \in TicketRows
      PROVE  LET u == RecordStatus([t EXCEPT !.assigned_admin_id = k], "assigned_to_kam", 0)
             IN  /\ u \in TicketRows /\ u.status = "assigned_to_kam"
                 /\ u.assigned_admin_id = k /\ u.category = t.category
  BY DEF RecordStatus, TicketRows, TicketStatus
<1>4. /\ KamAssigned(v, k) \in TicketRows
      /\ KamAssigned(v, k).status = "assigned_to_kam"
      /\ KamAssigned(v, k).assigned_admin_id = k
      /\ KamAssigned(v, k).category = UnderCreation(v).category
  BY <1>2, <1>3 DEF KamAssigned
<1>5. << StatusEntry("assigned_to_kam", "system") >> \in Seq(HistoryRows)
  BY FirstRow DEF TicketStatus
<1>6. /\ Change(v, turn[v].id, KamAssigned(v, k), << StatusEntry("assigned_to_kam", "system") >>)
      /\ UNCHANGED <<tickets, hist, nextId>> /\ Goes(v, "cs")
  BY DEF AssignKam, Builds, KamAssigned
<1>7. Writes(v, turn[v].id, KamAssigned(v, k), << StatusEntry("assigned_to_kam", "system") >>)
  BY <1>1, <1>4, <1>5, <1>6, UnderCreationType, ChangeWrites
<1>. QED
  BY <1>4, <1>6, <1>7, TurnGoes DEF Building

Routed(t, s, p) ==
  LET route == routing_for_ticket(t.category, p)
  IN  [t EXCEPT !.assigned_cs_id = IF s = None THEN @ ELSE s,
                !.kam_notified = route.kam, !.cs_notified = route.cs]
Linked(t, i) == [t EXCEPT !.zoho_ticket_id = i]

CsAssigned(v, s, p) == Routed(UnderCreation(v), s, p)
ZohoLinked(v) == Linked(UnderCreation(v), turn[v].id)

(* A ticket that is the same but for its CS, its routing, its Zoho id.     *)
SameTicket(t, u) ==
  /\ u \in TicketRows
  /\ u.category = t.category /\ u.status = t.status
  /\ u.assigned_admin_id = t.assigned_admin_id

LEMMA AssignCsIs ==
  ASSUME IdsInv, NEW v \in Visits, NEW s \in CSs \cup {None}, NEW p \in Priorities,
         AssignCs(v, s, p)
  PROVE  /\ SameTicket(UnderCreation(v), CsAssigned(v, s, p))
         /\ Writes(v, turn[v].id, CsAssigned(v, s, p), << >>)
         /\ TurnIs(v, [turn[v] EXCEPT !.pc = "slack"])
<1>1. Busy(v)
  BY DEF AssignCs, Busy, Building
<1>2. UnderCreation(v) \in TicketRows
  BY <1>1, UnderCreationType
<1>3. ASSUME NEW t \in TicketRows, NEW a \in BOOLEAN, NEW b \in BOOLEAN,
             NEW cs \in CSs \cup {None}
      PROVE  SameTicket(t, [t EXCEPT !.assigned_cs_id = cs, !.kam_notified = a, !.cs_notified = b])
  BY DEF TicketRows, SameTicket
<1>4. SameTicket(UnderCreation(v), CsAssigned(v, s, p))
  <2> DEFINE t == UnderCreation(v)
             route == routing_for_ticket(t.category, p)
             a == route.kam
             b == route.cs
             cs == IF s = None THEN t.assigned_cs_id ELSE s
  <2>1. a \in BOOLEAN /\ b \in BOOLEAN
    BY RoutingType
  <2>2. cs \in CSs \cup {None}
    BY <1>2 DEF TicketRows
  <2>3. CsAssigned(v, s, p) =
          [t EXCEPT !.assigned_cs_id = cs, !.kam_notified = a, !.cs_notified = b]
    BY <1>2 DEF CsAssigned, Routed, TicketRows
  <2> HIDE DEF cs, a, b, route
  <2>4. SameTicket(t, [t EXCEPT !.assigned_cs_id = cs, !.kam_notified = a, !.cs_notified = b])
    BY <1>2, <1>3, <2>1, <2>2
  <2>. QED
    BY <2>3, <2>4
<1>5. << >> \in Seq(HistoryRows)
  OBVIOUS
<1>6. /\ Change(v, turn[v].id, CsAssigned(v, s, p), << >>)
      /\ UNCHANGED <<tickets, hist, nextId>> /\ Goes(v, "slack")
  BY DEF AssignCs, Builds, CsAssigned, Routed
<1>7. CsAssigned(v, s, p) \in TicketRows
  BY <1>4 DEF SameTicket
<1>8. Writes(v, turn[v].id, CsAssigned(v, s, p), << >>)
  BY <1>1, <1>5, <1>6, <1>7, UnderCreationType, ChangeWrites
<1>. QED
  BY <1>4, <1>6, <1>8, TurnGoes DEF Building

LEMMA PostSlackIs ==
  ASSUME IdsInv, NEW v \in Visits, PostSlack(v)
  PROVE  Keeps(v) /\ TurnIs(v, [turn[v] EXCEPT !.pc = "zoho"])
BY FlushKeeps, TurnGoes DEF PostSlack, Building

LEMMA SlackRaisesIs ==
  ASSUME IdsInv, NEW v \in Visits, SlackRaises(v)
  PROVE  Keeps(v) /\ TurnIs(v, [turn[v] EXCEPT !.pc = "model", !.calls = @ + 1])
BY TurnToolEnds, NothingKeeps DEF SlackRaises

LEMMA PushZohoIs ==
  ASSUME IdsInv, NEW v \in Visits, PushZoho(v)
  PROVE  /\ \/ Keeps(v)
            \/ /\ NeedsPush(UnderCreation(v))
               /\ SameTicket(UnderCreation(v), ZohoLinked(v))
               /\ Writes(v, turn[v].id, ZohoLinked(v), << >>)
         /\ TurnIs(v, [turn[v] EXCEPT !.pc = "commit"])
<1>1. Busy(v)
  BY DEF PushZoho, Busy, Building
<1>2. UnderCreation(v) \in TicketRows /\ turn[v].id \in Nat
  BY <1>1, UnderCreationType
<1>3. ASSUME NEW t \in TicketRows, NEW i \in Nat
      PROVE  SameTicket(t, [t EXCEPT !.zoho_ticket_id = i])
  BY DEF TicketRows, SameTicket
<1>4. SameTicket(UnderCreation(v), ZohoLinked(v)) /\ ZohoLinked(v) \in TicketRows
  BY <1>2, <1>3 DEF ZohoLinked, Linked, SameTicket
<1>5. << >> \in Seq(HistoryRows)
  OBVIOUS
<1>6. TurnIs(v, [turn[v] EXCEPT !.pc = "commit"])
  BY TurnGoes DEF PushZoho, Building
<1>7. CASE UNCHANGED draft
  BY <1>6, <1>7, NothingKeeps DEF PushZoho
<1>8. CASE NeedsPush(UnderCreation(v)) /\ Change(v, turn[v].id, ZohoLinked(v), << >>)
  <2>1. UNCHANGED <<tickets, hist, nextId>>
    BY DEF PushZoho
  <2>2. Writes(v, turn[v].id, ZohoLinked(v), << >>)
    BY <1>1, <1>4, <1>5, <1>8, <2>1, UnderCreationType, ChangeWrites
  <2>. QED
    BY <1>4, <1>6, <1>8, <2>2
<1>. QED
  BY <1>7, <1>8 DEF PushZoho, Builds, ZohoLinked, Linked

LEMMA CommitTicketIs ==
  ASSUME IdsInv, NEW v \in Visits, CommitTicket(v)
  PROVE  /\ Commits(v)
         /\ \E pc \in {"call", "link"} : TurnIs(v, [turn[v] EXCEPT !.pc = pc])
<1>1. CASE Goes(v, "call")
  BY <1>1, TurnGoes, CommitCommits DEF CommitTicket, Building
<1>2. CASE Goes(v, "link")
  BY <1>2, TurnGoes, CommitCommits DEF CommitTicket, Building
<1>. QED
  BY <1>1, <1>2 DEF CommitTicket

LEMMA PlaceCallIs ==
  ASSUME IdsInv, NEW v \in Visits, PlaceCall(v)
  PROVE  /\ Keeps(v)
         /\ \/ TurnIs(v, [turn[v] EXCEPT !.pc = "link"])
            \/ TurnIs(v, [turn[v] EXCEPT !.pc = "model", !.calls = @ + 1])
BY TurnGoes, TurnToolEnds, NothingKeeps DEF PlaceCall, Building

LEMMA LinkChatIs ==
  ASSUME IdsInv, NEW v \in Visits, LinkChat(v)
  PROVE  /\ Keeps(v)
         /\ \E u \in Turns : TurnIs(v, u) /\ u.pc = "model"
                             /\ u.created = turn[v].created \cup {turn[v].id}
                             /\ u.link.ticket_id = turn[v].id
<1> DEFINE l == [resolved_by |-> "escalated", ticket_id |-> turn[v].id]
           n == turn[v].calls + 1
           s == turn[v].created \cup {turn[v].id}
           u == [turn[v] EXCEPT !.pc = "model", !.calls = n, !.created = s, !.link = l]
<1>1. Busy(v)
  BY DEF LinkChat, Busy, Building
<1>2. turn[v] \in Turns /\ turn[v].id \in Ids /\ turn[v].id \in Nat
  BY <1>1, UnderCreationType
<1>3. l \in Links /\ l.ticket_id = turn[v].id
  BY <1>2 DEF Links
<1>4. n \in Nat /\ s \in SUBSET Ids
  <2>1. turn[v].calls \in Nat /\ turn[v].created \in SUBSET Ids
    BY <1>2, TurnFields
  <2>. QED
    BY <1>2, <2>1
<1>5. turn' = [turn EXCEPT ![v] = u]
  BY <1>2 DEF LinkChat, IdsInv, TypeOK, Turns
<1> HIDE DEF l, n, s
<1>6. u \in Turns
  BY <1>2, <1>3, <1>4, TurnTypes
<1>7. u.pc = "model" /\ u.created = s /\ u.link = l
  BY <1>2 DEF Turns
<1> HIDE DEF u
<1>8. TurnIs(v, u)
  BY <1>5, <1>6, TurnTakes
<1>9. Keeps(v)
  BY FlushKeeps DEF LinkChat
<1>. QED
  BY <1>3, <1>6, <1>7, <1>8, <1>9 DEF s

LEMMA ModelListsTicketsIs ==
  ASSUME IdsInv, NEW v \in Visits, NEW i \in Ids, ModelListsTickets(v, i)
  PROVE  /\ CommitsClosing(v, i)
         /\ visit' \in [Visits -> Links] /\ visit'[v] = turn[v].link
         /\ \A w \in Visits \ {v} : visit'[w] = visit[w]
         /\ TurnIs(v, [turn[v] EXCEPT !.pc = "model", !.calls = @ + 1])
<1> DEFINE closed == RecordStatus(tickets[i], "closed", 0)
           entry == StatusEntry("closed", "system")
<1>1. OthersKept(v) /\ Drafted(v)' = {}
  BY DEF ModelListsTickets, OthersKept, IdsInv, Drafted, NoDraft
<1>2. /\ i \in DOMAIN tickets \ Drafted(v) /\ tickets[i].status = "resolved"
      /\ nextId' = nextId
      /\ tickets' = [j \in DOMAIN tickets \cup Drafted(v) |->
              IF j = i THEN closed
              ELSE IF j \notin Drafted(v) THEN tickets[j]
              ELSE IF j \notin DOMAIN tickets THEN draft[v][j].mine
              ELSE Merge(draft[v][j].base, draft[v][j].mine, tickets[j], FALSE)]
      /\ hist' = [j \in DOMAIN tickets \cup Drafted(v) |->
              (IF j \in DOMAIN tickets THEN hist[j] ELSE << >>)
                \o (IF j = i THEN << entry >>
                    ELSE IF j \in Drafted(v) THEN draft[v][j].rows ELSE << >>)]
  BY DEF ModelListsTickets
<1>3. DOMAIN tickets' = DOMAIN tickets \cup Drafted(v) /\ DOMAIN hist' = DOMAIN tickets'
  BY <1>2
<1>4. ASSUME NEW j \in DOMAIN tickets' \ {i} PROVE tickets'[j] = Written(v, j)
  BY <1>2, <1>3 DEF Written
<1>5. /\ \A j \in DOMAIN tickets : hist[j] \in Seq(HistoryRows)
      /\ \A j \in Drafted(v) : draft[v][j].rows \in Seq(HistoryRows)
      /\ \A s \in Seq(HistoryRows) : s \o << >> = s /\ << >> \o s = s
  BY DraftFields DEF IdsInv, TypeOK, Drafted
<1>6. ASSUME NEW j \in DOMAIN tickets' \ {i} PROVE hist'[j] = Recorded(v, j)
  <2>1. hist'[j] = (IF j \in DOMAIN tickets THEN hist[j] ELSE << >>)
                      \o (IF j \in Drafted(v) THEN draft[v][j].rows ELSE << >>)
    BY <1>2, <1>3
  <2>. QED
    BY <1>3, <1>5, <2>1 DEF Recorded
<1>7. tickets'[i] = closed
  BY <1>2, <1>3
<1>8. hist'[i] = hist[i] \o << entry >>
  BY <1>2, <1>3
<1> HIDE DEF closed, entry
<1>9. entry \in HistoryRows
  BY EntryTypes DEF entry, TicketStatus, Authors
<1>10. hist[i] \o << entry >> = Append(hist[i], entry)
  BY <1>2, <1>5, <1>9
<1>11. Moved(i, "closed", "system")
  BY <1>7, <1>8, <1>10 DEF Moved, closed, entry
<1>12. visit' = [visit EXCEPT ![v] = turn[v].link] /\ turn[v].link \in Links
  BY TurnFields DEF ModelListsTickets, IdsInv, TypeOK
<1>13. visit' \in [Visits -> Links] /\ visit'[v] = turn[v].link
       /\ \A w \in Visits \ {v} : visit'[w] = visit[w]
  BY <1>12 DEF IdsInv, TypeOK
<1>14. CommitsClosing(v, i)
  BY <1>1, <1>2, <1>3, <1>4, <1>6, <1>11 DEF CommitsClosing
<1>15. TurnIs(v, [turn[v] EXCEPT !.pc = "model", !.calls = @ + 1])
  BY TurnToolEnds DEF ModelListsTickets
<1>. QED
  BY <1>13, <1>14, <1>15

LEMMA DeskMovesIs ==
  ASSUME IdsInv, NEW i \in Ids, NEW s \in ADMIN_SETTABLE_STATUSES, DeskMoves(i, s)
  PROVE  Desk(i, s)
BY DEF DeskMoves, Desk, Moved, IdsInv, TypeOK

-----------------------------------------------------------------------------
(* Whose a ticket is: the inductive invariant IdsInv.                      *)

Typed ==
  /\ visit' \in [Visits -> Links]
  /\ leave' \in [{"kam", "cs"} -> Leaves]
  /\ slack' \in [Ids -> Nat]
  /\ told' \subseteq Ids

LEMMA DraftedTypes ==
  ASSUME IdsInv, NEW v \in Visits, NEW i \in Drafted(v)
  PROVE  /\ i \in Ids /\ draft[v][i] \in Drafts
         /\ draft[v][i].mine \in TicketRows /\ draft[v][i].rows \in Seq(HistoryRows)
         /\ i \notin DOMAIN tickets => draft[v][i].base = None
         /\ i \in DOMAIN tickets => draft[v][i].base \in TicketRows /\ draft[v][i].base # None
<1>1. i \in Ids /\ draft[v][i] \in Drafts /\ (draft[v][i].base = None <=> i \notin DOMAIN tickets)
  BY DEF IdsInv, TypeOK, Drafted
<1>. QED
  BY <1>1, DraftFields

LEMMA CommittedTypes ==
  ASSUME IdsInv, NEW i \in DOMAIN tickets
  PROVE  i \in Ids /\ i \in DOMAIN hist /\ tickets[i] \in TicketRows /\ hist[i] \in Seq(HistoryRows)
BY DEF IdsInv, TypeOK

LEMMA WrittenTypes ==
  ASSUME IdsInv, NEW v \in Visits, NEW i \in DOMAIN tickets \cup Drafted(v)
  PROVE  Written(v, i) \in TicketRows /\ Recorded(v, i) \in Seq(HistoryRows)
<1>1. CASE i \notin Drafted(v)
  BY <1>1, CommittedTypes DEF Written, Recorded
<1>2. CASE i \in Drafted(v) /\ i \notin DOMAIN tickets
  BY <1>2, DraftedTypes DEF Written, Recorded
<1>3. CASE i \in Drafted(v) /\ i \in DOMAIN tickets
  <2>1. Written(v, i) \in TicketRows
    BY <1>3, DraftedTypes, CommittedTypes, MergeType DEF Written
  <2>2. hist[i] \in Seq(HistoryRows) /\ draft[v][i].rows \in Seq(HistoryRows)
    BY <1>3, DraftedTypes, CommittedTypes
  <2>. QED
    BY <1>3, <2>1, <2>2 DEF Recorded
<1>. QED
  BY <1>1, <1>2, <1>3

(* A step of v's turn that gives it no other ticket keeps IdsInv.          *)
LEMMA SessionIds ==
  ASSUME IdsInv, NEW v \in Visits, Continues(v), OthersKept(v), Typed, nextId' = nextId,
         DOMAIN tickets \subseteq DOMAIN tickets',
         DOMAIN tickets' \subseteq DOMAIN tickets \cup Drafted(v),
         DOMAIN hist' = DOMAIN tickets',
         \A i \in DOMAIN tickets' : tickets'[i] \in TicketRows /\ hist'[i] \in Seq(HistoryRows),
         \A i \in Drafted(v)' : Owns(v, i) /\ draft'[v][i] \in Drafts
                                /\ (draft'[v][i].base = None <=> i \notin DOMAIN tickets'),
         Busy(v)' => turn[v].id \in Drafted(v)' \cup DOMAIN tickets'
  PROVE  IdsInv'
<1>1. \A i \in Drafted(v) : i \in Ids /\ i < nextId
  BY DEF IdsInv, TypeOK, Drafted
<1>2. Busy(v) => turn[v].id \in Ids /\ turn[v].id < nextId
  BY DEF IdsInv
<1>3. \A i \in Drafted(v)' : i \in Ids /\ i < nextId
  BY <1>1, <1>2 DEF Owns
<1>4. \A w \in Visits \ {v} : Drafted(w)' = Drafted(w) /\ (Busy(w)' <=> Busy(w))
  BY DEF OthersKept, Continues, Drafted, Busy
<1>5. TypeOK'
  <2>1. DOMAIN tickets' \subseteq Ids
    BY <1>1 DEF IdsInv, TypeOK
  <2>2. \A w \in Visits : \A i \in DOMAIN draft'[w] : i \in Ids /\ draft'[w][i] \in Drafts
    <3>1. \A i \in DOMAIN draft'[v] : i \in Ids /\ draft'[v][i] \in Drafts
      BY <1>3 DEF Drafted
    <3>2. \A w \in Visits \ {v} : \A i \in DOMAIN draft'[w] : i \in Ids /\ draft'[w][i] \in Drafts
      BY DEF OthersKept, IdsInv, TypeOK
    <3>. QED
      BY <3>1, <3>2
  <2>3. nextId' \in Nat
    BY DEF IdsInv, TypeOK
  <2>. QED
    BY <2>1, <2>2, <2>3 DEF TypeOK, Typed, Continues
<1>6. \A i \in DOMAIN tickets' : i < nextId'
  BY <1>1 DEF IdsInv
<1>7. ASSUME NEW w \in Visits, NEW i \in Drafted(w)'
      PROVE  i < nextId' /\ (draft'[w][i].base = None <=> i \notin DOMAIN tickets')
  <2>1. CASE w = v
    BY <1>3, <2>1
  <2>2. CASE w # v
    <3>1. i \in Drafted(w) /\ draft'[w] = draft[w]
      BY <1>4, <2>2 DEF OthersKept
    <3>2. i \in Ids /\ i < nextId /\ (draft[w][i].base = None <=> i \notin DOMAIN tickets)
      BY <3>1 DEF IdsInv, TypeOK, Drafted
    <3>3. i \notin Drafted(v)
      BY <2>2, <3>1, <3>2 DEF IdsInv, Owns
    <3>. QED
      BY <3>1, <3>2, <3>3
  <2>. QED
    BY <2>1, <2>2
<1>8. ASSUME NEW w \in Visits, Busy(w)'
      PROVE  /\ turn'[w].id \in Ids /\ turn'[w].id < nextId'
             /\ turn'[w].id \in Drafted(w)' \cup DOMAIN tickets'
  <2>1. CASE w = v
    BY <1>2, <1>8, <2>1 DEF Continues
  <2>2. CASE w # v
    BY <1>4, <1>8, <2>2 DEF IdsInv, Continues
  <2>. QED
    BY <2>1, <2>2
<1>9. \A w \in Visits, i \in Ids : Owns(w, i)' => Owns(w, i)
  <2>1. \A i \in Ids : Owns(v, i)' => Owns(v, i)
    BY DEF Owns, Continues
  <2>2. \A w \in Visits \ {v}, i \in Ids : Owns(w, i)' => Owns(w, i)
    BY <1>4 DEF Owns, Continues
  <2>. QED
    BY <2>1, <2>2
<1>10. DOMAIN draft' = Visits /\ nextId' # 0
  BY DEF OthersKept, IdsInv
<1>11. \A w, x \in Visits : \A i \in Ids : Owns(w, i)' /\ Owns(x, i)' => w = x
  BY <1>9 DEF IdsInv
<1>. QED
  BY <1>5, <1>6, <1>7, <1>8, <1>10, <1>11 DEF IdsInv

LEMMA KeepsIds ==
  ASSUME IdsInv, NEW v \in Visits, Continues(v), Keeps(v), Typed
  PROVE  IdsInv'
<1>1. \A i \in Drafted(v)' : /\ Owns(v, i) /\ draft'[v][i] \in Drafts
                             /\ (draft'[v][i].base = None <=> i \notin DOMAIN tickets')
  BY DEF Keeps, SameDraft, Owns, IdsInv
<1>2. Busy(v)' => turn[v].id \in Drafted(v)' \cup DOMAIN tickets'
  BY DEF Keeps, Continues, IdsInv
<1>3. /\ DOMAIN tickets \subseteq DOMAIN tickets'
      /\ DOMAIN tickets' \subseteq DOMAIN tickets \cup Drafted(v)
      /\ DOMAIN hist' = DOMAIN tickets' /\ nextId' = nextId
      /\ \A i \in DOMAIN tickets' : tickets'[i] \in TicketRows /\ hist'[i] \in Seq(HistoryRows)
  BY CommittedTypes DEF Keeps, IdsInv, TypeOK
<1>. QED
  BY <1>1, <1>2, <1>3, SessionIds DEF Keeps

LEMMA WritesIds ==
  ASSUME IdsInv, NEW v \in Visits, Continues(v), Busy(v), NEW t, NEW rows,
         Writes(v, turn[v].id, t, rows), Typed
  PROVE  IdsInv'
<1> DEFINE n == turn[v].id
<1>1. n \in Drafted(v) \cup DOMAIN tickets /\ Drafted(v)' = Drafted(v) \cup {n}
  BY UnderCreationType DEF Writes
<1>2. ASSUME NEW i \in Drafted(v)'
      PROVE  /\ Owns(v, i) /\ draft'[v][i] \in Drafts
             /\ (draft'[v][i].base = None <=> i \notin DOMAIN tickets')
  <2>1. Owns(v, i) /\ tickets' = tickets
    BY <1>1 DEF Owns, Writes
  <2>2. CASE i = n
    <3>1. CASE i \in Drafted(v)
      <4>1. draft'[v][i].base = draft[v][i].base /\ draft'[v][i] \in Drafts
        BY <2>2, <3>1 DEF Writes
      <4>2. draft[v][i].base = None <=> i \notin DOMAIN tickets
        BY <3>1 DEF IdsInv
      <4>. QED
        BY <2>1, <4>1, <4>2
    <3>2. CASE i \notin Drafted(v)
      <4>1. tickets[i] \in TicketRows /\ i \in DOMAIN tickets
        BY <1>1, <2>2, <3>2, CommittedTypes
      <4>. QED
        BY <2>1, <2>2, <3>2, <4>1, NoRowAssumption DEF Writes
    <3>. QED
      BY <3>1, <3>2
  <2>3. CASE i # n
    BY <1>1, <2>1, <2>3, DraftedTypes DEF Writes, IdsInv
  <2>. QED
    BY <2>2, <2>3
<1>3. /\ DOMAIN tickets \subseteq DOMAIN tickets'
      /\ DOMAIN tickets' \subseteq DOMAIN tickets \cup Drafted(v)
      /\ DOMAIN hist' = DOMAIN tickets' /\ nextId' = nextId
      /\ \A i \in DOMAIN tickets' : tickets'[i] \in TicketRows /\ hist'[i] \in Seq(HistoryRows)
  BY CommittedTypes DEF Writes, IdsInv, TypeOK
<1>. QED
  BY <1>1, <1>2, <1>3, SessionIds DEF Writes

LEMMA DropsIds ==
  ASSUME IdsInv, NEW v \in Visits, Continues(v), Drops(v), ~Busy(v)', Typed
  PROVE  IdsInv'
<1>1. /\ DOMAIN tickets \subseteq DOMAIN tickets'
      /\ DOMAIN tickets' \subseteq DOMAIN tickets \cup Drafted(v)
      /\ DOMAIN hist' = DOMAIN tickets' /\ nextId' = nextId
      /\ \A i \in DOMAIN tickets' : tickets'[i] \in TicketRows /\ hist'[i] \in Seq(HistoryRows)
  BY CommittedTypes DEF Drops, IdsInv, TypeOK
<1>. QED
  BY <1>1, SessionIds DEF Drops

LEMMA CommitsIds ==
  ASSUME IdsInv, NEW v \in Visits, Continues(v), Commits(v), Typed
  PROVE  IdsInv'
<1>1. \A i \in DOMAIN tickets' : tickets'[i] \in TicketRows /\ hist'[i] \in Seq(HistoryRows)
  BY WrittenTypes DEF Commits
<1>2. Busy(v)' => turn[v].id \in Drafted(v)' \cup DOMAIN tickets'
  BY DEF Commits, Continues, IdsInv
<1>. QED
  BY <1>1, <1>2, SessionIds DEF Commits

LEMMA ClosingIds ==
  ASSUME IdsInv, NEW v \in Visits, NEW i \in Ids, Continues(v), CommitsClosing(v, i), Typed
  PROVE  IdsInv'
<1>1. tickets'[i] \in TicketRows /\ hist'[i] \in Seq(HistoryRows)
  <2>1. tickets[i] \in TicketRows /\ hist[i] \in Seq(HistoryRows)
    BY CommittedTypes DEF CommitsClosing
  <2>2. RecordStatus(tickets[i], "closed", 0) \in TicketRows
    BY <2>1, RecordStatusType DEF TicketStatus
  <2>3. StatusEntry("closed", "system") \in HistoryRows
    BY EntryTypes DEF TicketStatus, Authors
  <2>. QED
    BY <2>1, <2>2, <2>3 DEF CommitsClosing, Moved
<1>2. \A j \in DOMAIN tickets' : tickets'[j] \in TicketRows /\ hist'[j] \in Seq(HistoryRows)
  BY <1>1, WrittenTypes DEF CommitsClosing
<1>3. Busy(v)' => turn[v].id \in Drafted(v)' \cup DOMAIN tickets'
  BY DEF CommitsClosing, Continues, IdsInv
<1>. QED
  BY <1>2, <1>3, SessionIds DEF CommitsClosing

LEMMA CreatesIds ==
  ASSUME IdsInv, NEW v \in Visits, NEW c \in Categories, ~Busy(v), Creates(v, c), Typed
  PROVE  IdsInv'
<1>1. nextId \in Nat /\ nextId \in Ids /\ nextId' = nextId + 1
  BY DEF Creates, IdsInv, TypeOK
<1>2. /\ \A w \in Visits : \A i \in Drafted(w) : i \in Ids /\ i \in Nat /\ i < nextId
      /\ \A i \in DOMAIN tickets : i \in Nat /\ i < nextId
  BY DEF IdsInv, TypeOK, Drafted, Ids
<1>3. \A w \in Visits : Busy(w) => turn[w].id \in Ids /\ turn[w].id \in Nat /\ turn[w].id < nextId
  BY DEF IdsInv, Ids
<1>4. \A w \in Visits \ {v} : Drafted(w)' = Drafted(w) /\ draft'[w] = draft[w]
                              /\ turn'[w] = turn[w] /\ (Busy(w)' <=> Busy(w))
  BY DEF Creates, OthersKept, Drafted, Busy
<1>5. \A i \in Nat : i < nextId => i < nextId' /\ i # nextId
  BY <1>1
<1>6. nextId < nextId' /\ nextId' # 0 /\ nextId' \in Nat
  BY <1>1
<1>7. TypeOK'
  <2>1. \A i \in DOMAIN draft'[v] : i \in Ids /\ draft'[v][i] \in Drafts
    BY <1>1, DraftedTypes DEF Creates, Drafted
  <2>2. \A w \in Visits \ {v} : \A i \in DOMAIN draft'[w] : i \in Ids /\ draft'[w][i] \in Drafts
    BY DEF Creates, OthersKept, IdsInv, TypeOK
  <2>3. \A w \in Visits : \A i \in DOMAIN draft'[w] : i \in Ids /\ draft'[w][i] \in Drafts
    BY <2>1, <2>2
  <2>4. UNCHANGED <<tickets, hist>> /\ turn' \in [Visits -> Turns]
    BY DEF Creates
  <2>. QED
    BY <1>6, <2>3, <2>4 DEF TypeOK, Typed, IdsInv
<1>8. \A i \in DOMAIN tickets' : i < nextId'
  BY <1>2, <1>5 DEF Creates
<1>9. ASSUME NEW w \in Visits, NEW i \in Drafted(w)'
      PROVE  i < nextId' /\ (draft'[w][i].base = None <=> i \notin DOMAIN tickets')
  <2>1. CASE w # v \/ i # nextId
    <3>1. i \in Drafted(w) /\ draft'[w][i] = draft[w][i]
      BY <1>4, <2>1 DEF Creates
    <3>2. tickets' = tickets /\ (draft[w][i].base = None <=> i \notin DOMAIN tickets)
      BY <3>1 DEF Creates, IdsInv
    <3>. QED
      BY <1>2, <1>5, <3>1, <3>2
  <2>2. CASE w = v /\ i = nextId
    BY <1>2, <1>5, <1>6, <2>2 DEF Creates
  <2>. QED
    BY <2>1, <2>2
<1>10. ASSUME NEW w \in Visits, Busy(w)'
       PROVE  /\ turn'[w].id \in Ids /\ turn'[w].id < nextId'
              /\ turn'[w].id \in Drafted(w)' \cup DOMAIN tickets'
  <2>1. CASE w = v
    BY <1>1, <1>6, <2>1 DEF Creates
  <2>2. CASE w # v
    BY <1>3, <1>4, <1>5, <1>10, <2>2 DEF IdsInv, Creates
  <2>. QED
    BY <2>1, <2>2
<1>11. \A w \in Visits, i \in Ids : Owns(w, i)' => Owns(w, i) \/ (w = v /\ i = nextId)
  <2>1. \A i \in Ids : Owns(v, i)' => Owns(v, i) \/ i = nextId
    BY DEF Owns, Creates
  <2>2. \A w \in Visits \ {v}, i \in Ids : Owns(w, i)' => Owns(w, i)
    BY <1>4 DEF Owns
  <2>. QED
    BY <2>1, <2>2
<1>12. \A w \in Visits : ~Owns(w, nextId)
  BY <1>2, <1>3, <1>1, <1>5 DEF Owns
<1>13. \A w, x \in Visits : \A i \in Ids : Owns(w, i)' /\ Owns(x, i)' => w = x
  BY <1>11, <1>12 DEF IdsInv
<1>14. DOMAIN draft' = Visits
  BY DEF Creates, OthersKept
<1>. QED
  BY <1>6, <1>7, <1>8, <1>9, <1>10, <1>13, <1>14 DEF IdsInv

LEMMA DeskIds ==
  ASSUME IdsInv, NEW i \in Ids, NEW s \in ADMIN_SETTABLE_STATUSES, Desk(i, s)
  PROVE  IdsInv'
<1>1. tickets'[i] \in TicketRows /\ hist'[i] \in Seq(HistoryRows)
  <2>1. tickets[i] \in TicketRows /\ hist[i] \in Seq(HistoryRows)
    BY CommittedTypes DEF Desk
  <2>2. s \in TicketStatus
    BY DEF ADMIN_SETTABLE_STATUSES, TicketStatus
  <2>3. RecordStatus(tickets[i], s, 0) \in TicketRows /\ StatusEntry(s, "admin") \in HistoryRows
    BY <2>1, <2>2, RecordStatusType, EntryTypes DEF Authors
  <2>. QED
    BY <2>1, <2>3 DEF Desk, Moved
<1>2. /\ DOMAIN tickets' = DOMAIN tickets /\ DOMAIN hist' = DOMAIN tickets'
      /\ UNCHANGED <<nextId, draft, turn, visit, leave, slack, told>>
  BY DEF Desk, IdsInv, TypeOK
<1>3. \A j \in DOMAIN tickets' : tickets'[j] \in TicketRows /\ hist'[j] \in Seq(HistoryRows)
  BY <1>1, <1>2, CommittedTypes DEF Desk
<1>4. TypeOK'
  BY <1>2, <1>3 DEF TypeOK, IdsInv
<1>5. \A w \in Visits : Drafted(w)' = Drafted(w) /\ (Busy(w)' <=> Busy(w))
  BY <1>2 DEF Drafted, Busy
<1>6. \A w \in Visits, j \in Ids : Owns(w, j)' <=> Owns(w, j)
  BY <1>2, <1>5 DEF Owns
<1>. QED
  BY <1>2, <1>4, <1>5, <1>6 DEF IdsInv

LEMMA ContinuesIf ==
  ASSUME IdsInv, NEW v \in Visits
  PROVE  /\ turn' = turn => Continues(v)
         /\ \A u : TurnIs(v, u) /\ u.pc \notin Building => Continues(v) /\ ~Busy(v)'
         /\ \A pc : Busy(v) /\ TurnIs(v, [turn[v] EXCEPT !.pc = pc]) => Continues(v)
<1>1. turn' = turn => Continues(v)
  BY DEF Continues, Busy, IdsInv, TypeOK
<1>2. ASSUME NEW u, TurnIs(v, u), u.pc \notin Building PROVE Continues(v) /\ ~Busy(v)'
  BY <1>2 DEF Continues, Busy, TurnIs
<1>3. ASSUME NEW pc, Busy(v), TurnIs(v, [turn[v] EXCEPT !.pc = pc]) PROVE Continues(v)
  <2>1. turn'[v].id = turn[v].id
    BY <1>3, UnderCreationType, TurnFieldsKept DEF TurnIs
  <2>. QED
    BY <1>3, <2>1 DEF Continues, Busy, TurnIs
<1>. QED
  BY <1>1, <1>2, <1>3

(* Where a tool call that is over leaves the turn.                         *)
LEMMA ToolOver ==
  ASSUME IdsInv, NEW v \in Visits,
         TurnIs(v, [turn[v] EXCEPT !.pc = "model", !.calls = @ + 1])
  PROVE  Continues(v) /\ ~Busy(v)' /\ turn'[v].pc = "model"
         /\ turn'[v].created = turn[v].created /\ turn'[v].link = turn[v].link
<1>1. turn[v] \in Turns
  BY DEF IdsInv, TypeOK
<1>2. turn'[v] = [turn[v] EXCEPT !.pc = "model", !.calls = turn[v].calls + 1]
  BY DEF TurnIs
<1>3. turn'[v].pc = "model" /\ turn'[v].created = turn[v].created /\ turn'[v].link = turn[v].link
  BY <1>1, <1>2, TurnFieldsKept
<1>. QED
  BY <1>3, ContinuesIf DEF TurnIs, Building

LEMMA StepOn ==
  ASSUME IdsInv, NEW v \in Visits, NEW pc, Busy(v), TurnIs(v, [turn[v] EXCEPT !.pc = pc])
  PROVE  Continues(v) /\ turn'[v].pc = pc /\ turn'[v].id = turn[v].id
         /\ turn'[v].created = turn[v].created /\ turn'[v].link = turn[v].link
<1>1. turn[v] \in Turns
  BY DEF IdsInv, TypeOK
<1>. QED
  BY <1>1, TurnFieldsKept, ContinuesIf DEF TurnIs

LEMMA NotTyped ==
  ASSUME IdsInv, NEW v \in Visits, UNCHANGED <<visit, leave, slack, told>>
  PROVE  Typed
BY DEF Typed, IdsInv, TypeOK

LEMMA AnnouncedTyped ==
  ASSUME IdsInv, NEW v \in Visits, Busy(v), Announced(v)
  PROVE  /\ slack' \in [Ids -> Nat] /\ slack'[turn[v].id] >= 1
         /\ \A i \in Ids : slack[i] >= 1 => slack'[i] >= 1
<1>1. slack \in [Ids -> Nat] /\ turn[v].id \in Ids
  BY DEF IdsInv, TypeOK
<1>2. slack' = [slack EXCEPT ![turn[v].id] = slack[turn[v].id] + 1]
  BY DEF Announced
<1>. QED
  BY <1>1, <1>2

LEMMA IdsInit == Init => IdsInv
<1> SUFFICES ASSUME Init PROVE IdsInv
  OBVIOUS
<1>1. /\ DOMAIN tickets = {} /\ DOMAIN hist = {} /\ nextId = 1
      /\ DOMAIN draft = Visits /\ \A v \in Visits : DOMAIN draft[v] = {}
  BY DEF Init, NoDraft
<1>2. visit \in [Visits -> Links] /\ \A v \in Visits : visit[v] = NoLink
  BY DEF Init, NoLink, Links
<1>3. \A v \in Visits : turn[v] = Idle(v) /\ Idle(v) \in Turns /\ Idle(v).pc = "idle"
  BY <1>2 DEF Init, Idle, Turns
<1>4. turn \in [Visits -> Turns] /\ \A v \in Visits : ~Busy(v)
  BY <1>3 DEF Init, Busy, Building
<1>5. leave \in [{"kam", "cs"} -> Leaves] /\ slack \in [Ids -> Nat] /\ told = {}
  BY DEF Init
<1>6. TypeOK
  BY <1>1, <1>2, <1>4, <1>5 DEF TypeOK
<1>. QED
  BY <1>1, <1>4, <1>6 DEF IdsInv, Owns, Drafted

LEMMA IdsTurn ==
  ASSUME IdsInv, NEW v \in Visits, Turn(v)
  PROVE  IdsInv'
<1>1. CASE StartTurn(v)
  <2>1. [Idle(v) EXCEPT !.pc = "model"].pc = "model"
    BY DEF Idle
  <2>2. Continues(v) /\ Keeps(v)
    BY <1>1, <2>1, StartTurnIs, ContinuesIf DEF Building
  <2>. QED
    BY <1>1, <2>2, KeepsIds, NotTyped DEF StartTurn
<1>2. CASE EndTurn(v)
  <2>1. [Idle(v) EXCEPT !.link = turn[v].link].pc = "idle"
    BY DEF Idle
  <2>2. Continues(v) /\ Commits(v)
    BY <1>2, <2>1, EndTurnIs, ContinuesIf DEF Building
  <2>3. turn[v].created \subseteq Ids
    BY TurnFields DEF IdsInv, TypeOK
  <2>4. Typed
    BY <1>2, <2>2, <2>3, CommitCommits DEF EndTurn, Typed, IdsInv, TypeOK
  <2>. QED
    BY <2>2, <2>4, CommitsIds
<1>3. CASE TurnDies(v)
  <2>1. Continues(v) /\ Drops(v) /\ ~Busy(v)'
    BY <1>3, TurnDiesIs, IdleType, ContinuesIf DEF Building
  <2>. QED
    BY <1>3, <2>1, DropsIds, NotTyped DEF TurnDies
<1>4. ASSUME NEW c \in Categories, ModelCreates(v, c) PROVE IdsInv'
  <2>1. ~Busy(v)
    BY <1>4 DEF ModelCreates, Thinks, Busy, Building
  <2>. QED
    BY <1>4, <2>1, ModelCreatesIs, CreatesIds, NotTyped DEF ModelCreates
<1>5. CASE ModelReads(v)
  BY <1>5, ModelReadsIs, ToolOver, KeepsIds, NotTyped DEF ModelReads
<1>6. CASE ModelResolves(v)
  <2>1. Continues(v) /\ Keeps(v)
    BY <1>6, ModelResolvesIs, ContinuesIf DEF Building
  <2>. QED
    BY <1>6, <2>1, KeepsIds, NotTyped DEF ModelResolves
<1>7. ASSUME NEW i \in Ids, ModelListsTickets(v, i) PROVE IdsInv'
  <2>1. CommitsClosing(v, i) /\ visit' \in [Visits -> Links] /\ Continues(v)
    BY <1>7, ModelListsTicketsIs, ToolOver
  <2>2. Typed
    BY <1>7, <2>1 DEF ModelListsTickets, Typed, IdsInv, TypeOK
  <2>. QED
    BY <2>1, <2>2, ClosingIds
<1>. QED
  BY <1>1, <1>2, <1>3, <1>4, <1>5, <1>6, <1>7 DEF Turn

LEMMA IdsCreation ==
  ASSUME IdsInv, NEW v \in Visits, Creation(v)
  PROVE  IdsInv'
<1>1. ASSUME NEW pool \in {"kam", "cs"}, EndLeave(v, pool) PROVE IdsInv'
  <2>1. Commits(v) /\ Continues(v)
    BY <1>1, EndLeaveIs, ContinuesIf
  <2>2. leave' \in [{"kam", "cs"} -> Leaves]
    BY <1>1 DEF EndLeave, IdsInv, TypeOK, Leaves
  <2>3. Typed
    BY <1>1, <2>2, CommitCommits DEF EndLeave, Typed, IdsInv, TypeOK
  <2>. QED
    BY <2>1, <2>3, CommitsIds
<1>2. CASE NoKam(v)
  BY <1>2, NoKamIs, ToolOver, KeepsIds, NotTyped DEF NoKam
<1>3. ASSUME NEW k \in Kams, AssignKam(v, k) PROVE IdsInv'
  <2>1. Busy(v)
    BY <1>3 DEF AssignKam, Busy, Building
  <2>. QED
    BY <1>3, <2>1, AssignKamIs, StepOn, WritesIds, NotTyped DEF AssignKam
<1>4. ASSUME NEW s \in CSs \cup {None}, NEW p \in Priorities, AssignCs(v, s, p) PROVE IdsInv'
  <2>1. Busy(v)
    BY <1>4 DEF AssignCs, Busy, Building
  <2>. QED
    BY <1>4, <2>1, AssignCsIs, StepOn, WritesIds, NotTyped DEF AssignCs
<1>5. CASE PostSlack(v)
  <2>1. Busy(v)
    BY <1>5 DEF PostSlack, Busy, Building
  <2>2. Typed
    BY <1>5, <2>1, AnnouncedTyped DEF PostSlack, Typed, IdsInv, TypeOK
  <2>. QED
    BY <1>5, <2>1, <2>2, PostSlackIs, StepOn, KeepsIds
<1>6. CASE SlackRaises(v)
  <2>1. Busy(v)
    BY <1>6 DEF SlackRaises, Busy, Building
  <2>2. slack' \in [Ids -> Nat]
    BY <1>6, <2>1, AnnouncedTyped DEF SlackRaises, IdsInv, TypeOK
  <2>3. Typed
    BY <1>6, <2>2 DEF SlackRaises, Typed, IdsInv, TypeOK
  <2>. QED
    BY <1>6, <2>3, SlackRaisesIs, ToolOver, KeepsIds
<1>7. CASE PushZoho(v)
  <2>1. Busy(v)
    BY <1>7 DEF PushZoho, Busy, Building
  <2>2. Continues(v) /\ Typed
    BY <1>7, <2>1, PushZohoIs, StepOn, NotTyped DEF PushZoho
  <2>. QED
    BY <1>7, <2>1, <2>2, PushZohoIs, KeepsIds, WritesIds
<1>8. CASE CommitTicket(v)
  <2>1. Busy(v)
    BY <1>8 DEF CommitTicket, Busy, Building
  <2>2. Continues(v) /\ Commits(v)
    BY <1>8, <2>1, CommitTicketIs, StepOn
  <2>3. Typed
    BY <1>8, CommitCommits DEF CommitTicket, Typed, IdsInv, TypeOK
  <2>. QED
    BY <2>2, <2>3, CommitsIds
<1>9. CASE PlaceCall(v)
  <2>1. Busy(v)
    BY <1>9 DEF PlaceCall, Busy, Building
  <2>. QED
    BY <1>9, <2>1, PlaceCallIs, StepOn, ToolOver, KeepsIds, NotTyped DEF PlaceCall
<1>10. CASE LinkChat(v)
  <2>1. Continues(v) /\ Keeps(v)
    BY <1>10, LinkChatIs, ContinuesIf DEF Building
  <2>. QED
    BY <1>10, <2>1, KeepsIds, NotTyped DEF LinkChat
<1>. QED
  BY <1>1, <1>2, <1>3, <1>4, <1>5, <1>6, <1>7, <1>8, <1>9, <1>10 DEF Creation

LEMMA IdsStutter ==
  ASSUME IdsInv, UNCHANGED vars
  PROVE  IdsInv'
<1>1. TypeOK'
  BY DEF vars, IdsInv, TypeOK
<1>2. \A w \in Visits : Drafted(w)' = Drafted(w) /\ (Busy(w)' <=> Busy(w))
  BY DEF vars, Drafted, Busy
<1>3. \A w \in Visits, j \in Ids : Owns(w, j)' <=> Owns(w, j)
  BY <1>2 DEF vars, Owns
<1>. QED
  BY <1>1, <1>2, <1>3 DEF vars, IdsInv

LEMMA IdsNext == IdsInv /\ [Next]_vars => IdsInv'
BY IdsTurn, IdsCreation, DeskMovesIs, DeskIds, IdsStutter DEF Next

(* A ticket under creation is in the hands of one session, whatever admins *)
(* are back, tools fail and turns die around it; and ids are never reused. *)
THEOREM TicketsHaveOneSession == Spec => []IdsInv
BY IdsInit, IdsNext, PTL DEF Spec

(* The state stays well-formed.                                            *)
THEOREM IntakeTypeCorrect == Spec => []TypeOK
<1>1. IdsInv => TypeOK
  BY DEF IdsInv
<1>. QED
  BY <1>1, TicketsHaveOneSession, PTL

-----------------------------------------------------------------------------
(* What is known is complete: the inductive invariant KnownInv.            *)

KamOf(t) == t.assigned_admin_id

Done(i) == Committed(i) /\ KamOf(tickets[i]) # None /\ slack[i] >= 1

(* The tickets v's turn or its chat_sessions row will tell of, or have.    *)
KnownBy(v) ==
  (turn[v].created \cup {turn[v].link.ticket_id, visit[v].ticket_id}) \ {None}

(* A session never loses sight of the KAM of a ticket.                     *)
DraftKams(v) ==
  \A i \in Drafted(v) \cap DOMAIN tickets :
    /\ KamOf(draft[v][i].base) = KamOf(tickets[i])
    /\ KamOf(tickets[i]) # None => KamOf(draft[v][i].mine) # None

(* How far the creation under way has come.                                *)
Advanced(v) ==
  /\ turn[v].pc \in Building \ {"kam"} => KamOf(UnderCreation(v)) # None
  /\ turn[v].pc \in {"zoho", "commit", "call", "link"} => slack[turn[v].id] >= 1
  /\ turn[v].pc \in {"call", "link"} => turn[v].id \notin Drafted(v)

KnownInv ==
  /\ \A v \in Visits : DraftKams(v) /\ Advanced(v) /\ \A i \in KnownBy(v) : Done(i)
  /\ \A i \in told : Done(i)

(* What a step of v does to the tickets not in its session ...             *)
KamStays(v) ==
  /\ DOMAIN tickets \subseteq DOMAIN tickets'
  /\ DOMAIN tickets' \subseteq DOMAIN tickets \cup Drafted(v)
  /\ \A i \in DOMAIN tickets \ Drafted(v) : KamOf(tickets'[i]) = KamOf(tickets[i])

(* ... and to those in it.                                                 *)
KamKept(v) ==
  /\ KamStays(v)
  /\ \A i \in DOMAIN tickets : KamOf(tickets[i]) # None => KamOf(tickets'[i]) # None
  /\ DraftKams(v)'
  /\ \A i \in Drafted(v) \cup DOMAIN tickets :
       Busy(v)' /\ KamOf(Seen(v, i)) # None => KamOf(Seen(v, i))' # None

LEMMA OthersKams ==
  ASSUME IdsInv, NEW v \in Visits, OthersKept(v), KamStays(v),
         NEW w \in Visits \ {v}, DraftKams(w)
  PROVE  /\ DraftKams(w)' /\ Drafted(w)' = Drafted(w)
         /\ \A i \in Ids : Owns(w, i) /\ i \in Drafted(w) \cup DOMAIN tickets =>
              KamOf(Seen(w, i))' = KamOf(Seen(w, i))
<1>1. draft'[w] = draft[w] /\ Drafted(w)' = Drafted(w)
  BY DEF OthersKept, Drafted
<1>2. \A i \in Ids : Owns(w, i) => i \notin Drafted(v)
  BY DEF IdsInv, Owns
<1>3. \A i \in Drafted(w) : i \in Ids /\ i \notin Drafted(v)
  BY <1>2, DraftedTypes DEF Owns
<1>4. DraftKams(w)'
  BY <1>1, <1>3 DEF DraftKams, KamStays
<1>5. ASSUME NEW i \in Ids, Owns(w, i), i \in Drafted(w) \cup DOMAIN tickets
      PROVE  KamOf(Seen(w, i))' = KamOf(Seen(w, i))
  BY <1>1, <1>2, <1>5 DEF Seen, KamStays, KamOf
<1>. QED
  BY <1>1, <1>4, <1>5

(* What is left to show of a step of v.                                    *)
LEMMA KnownStep ==
  ASSUME IdsInv, KnownInv, NEW v \in Visits, OthersKept(v), KamKept(v),
         \A w \in Visits \ {v} : turn'[w] = turn[w] /\ visit'[w] = visit[w],
         \A i \in Ids : slack[i] >= 1 => slack'[i] >= 1,
         Advanced(v)',
         \A i \in KnownBy(v)' : i \in KnownBy(v) \/ Done(i),
         told' \subseteq told \cup KnownBy(v)
  PROVE  KnownInv'
<1>1. \A i : Done(i) => Done(i)'
  BY DEF Done, Committed, KamKept, KamStays, IdsInv, TypeOK
<1>2. \A i \in KnownBy(v)' : Done(i)'
  BY <1>1 DEF KnownInv
<1>3. \A i \in told' : Done(i)'
  BY <1>1 DEF KnownInv
<1>4. ASSUME NEW w \in Visits \ {v}
      PROVE  DraftKams(w)' /\ Advanced(w)' /\ \A i \in KnownBy(w)' : Done(i)'
  <2>1. DraftKams(w) /\ Advanced(w)
    BY DEF KnownInv
  <2>2. /\ DraftKams(w)' /\ Drafted(w)' = Drafted(w)
        /\ \A i \in Ids : Owns(w, i) /\ i \in Drafted(w) \cup DOMAIN tickets =>
             KamOf(Seen(w, i))' = KamOf(Seen(w, i))
    BY <2>1, OthersKams DEF KamKept
  <2>3. KnownBy(w)' = KnownBy(w)
    BY DEF KnownBy
  <2>4. Advanced(w)'
    <3>1. CASE ~Busy(w)
      BY <3>1 DEF Advanced, Busy, Building
    <3>2. CASE Busy(w)
      <4>1. turn[w].id \in Ids /\ turn[w].id \in Drafted(w) \cup DOMAIN tickets /\ Owns(w, turn[w].id)
        BY <3>2, UnderCreationType DEF Owns
      <4>2. KamOf(UnderCreation(w))' = KamOf(UnderCreation(w))
        BY <2>2, <4>1 DEF UnderCreation
      <4>. QED
        BY <2>1, <2>2, <4>1, <4>2 DEF Advanced
    <3>. QED
      BY <3>1, <3>2
  <2>. QED
    BY <1>1, <2>2, <2>3, <2>4 DEF KnownInv
<1>. QED
  BY <1>2, <1>3, <1>4 DEF KnownInv, KamKept

(* Of the kinds of steps.                                                  *)
LEMMA KeepsKams ==
  ASSUME IdsInv, NEW v \in Visits, DraftKams(v), Keeps(v)
  PROVE  KamKept(v)
<1>1. \A i \in Drafted(v) : /\ draft'[v][i].base = draft[v][i].base
                            /\ draft'[v][i].mine = draft[v][i].mine
  BY DEF Keeps, SameDraft
<1>2. \A i \in Drafted(v) \cup DOMAIN tickets : Seen(v, i)' = Seen(v, i)
  BY <1>1 DEF Keeps, Seen
<1>3. DraftKams(v)'
  BY <1>1 DEF DraftKams, Keeps
<1>. QED
  BY <1>2, <1>3 DEF KamKept, KamStays, Keeps, KamOf

LEMMA WritesKams ==
  ASSUME IdsInv, NEW v \in Visits, DraftKams(v), Busy(v),
         NEW n, n = turn[v].id, NEW t, NEW rows, Writes(v, n, t, rows),
         KamOf(UnderCreation(v)) # None => KamOf(t) # None
  PROVE  KamKept(v) /\ (turn'[v].id = n => UnderCreation(v)' = t)
<1>1. n \in Drafted(v) \cup DOMAIN tickets
  BY UnderCreationType
<1>2. Seen(v, n)' = t
  BY DEF Writes, Seen
<1>3. \A i \in (Drafted(v) \cup DOMAIN tickets) \ {n} : Seen(v, i)' = Seen(v, i)
  BY DEF Writes, Seen
<1>4. DraftKams(v)'
  <2>1. ASSUME NEW i \in Drafted(v)' \cap DOMAIN tickets, i # n
        PROVE  /\ KamOf(draft'[v][i].base) = KamOf(tickets[i])
               /\ KamOf(tickets[i]) # None => KamOf(draft'[v][i].mine) # None
    BY <2>1 DEF DraftKams, Writes
  <2>2. ASSUME n \in DOMAIN tickets
        PROVE  /\ KamOf(draft'[v][n].base) = KamOf(tickets[n])
               /\ KamOf(tickets[n]) # None => KamOf(t) # None
    BY <2>2 DEF DraftKams, Writes, UnderCreation, Seen
  <2>3. draft'[v][n].mine = t
    BY DEF Writes
  <2>. QED
    BY <2>1, <2>2, <2>3 DEF DraftKams, Writes
<1>5. KamStays(v)
  BY DEF KamStays, Writes
<1>6. \A i \in Drafted(v) \cup DOMAIN tickets : KamOf(Seen(v, i)) # None => KamOf(Seen(v, i))' # None
  BY <1>2, <1>3 DEF UnderCreation, KamOf
<1>7. turn'[v].id = n => UnderCreation(v)' = t
  BY <1>2 DEF UnderCreation
<1>8. \A i \in DOMAIN tickets : KamOf(tickets[i]) # None => KamOf(tickets'[i]) # None
  BY DEF Writes
<1>. QED
  BY <1>4, <1>5, <1>6, <1>7, <1>8 DEF KamKept

LEMMA DropsKams ==
  ASSUME IdsInv, NEW v \in Visits, Drops(v), ~Busy(v)'
  PROVE  KamKept(v)
BY DEF KamKept, KamStays, Drops, DraftKams

LEMMA WrittenKam ==
  ASSUME IdsInv, NEW v \in Visits, DraftKams(v), NEW i \in Drafted(v) \cup DOMAIN tickets,
         KamOf(Seen(v, i)) # None
  PROVE  KamOf(Written(v, i)) # None
<1>1. CASE i \notin Drafted(v) \/ i \notin DOMAIN tickets
  BY <1>1 DEF Written, Seen
<1>2. CASE i \in Drafted(v) /\ i \in DOMAIN tickets
  BY <1>2 DEF Written, Seen, DraftKams, Merge, Pick, KamOf
<1>. QED
  BY <1>1, <1>2

LEMMA SeenKam ==
  ASSUME NEW v \in Visits, DraftKams(v), NEW i \in DOMAIN tickets, KamOf(tickets[i]) # None
  PROVE  KamOf(Seen(v, i)) # None
BY DEF Seen, DraftKams

LEMMA CommitsKams ==
  ASSUME IdsInv, NEW v \in Visits, DraftKams(v), Commits(v)
  PROVE  KamKept(v)
<1>1. KamStays(v)
  BY DEF KamStays, Commits, Written
<1>2. \A i \in DOMAIN tickets : KamOf(tickets[i]) # None => KamOf(tickets'[i]) # None
  BY WrittenKam, SeenKam DEF Commits
<1>3. \A i \in Drafted(v) \cup DOMAIN tickets : KamOf(Seen(v, i)) # None => KamOf(Seen(v, i))' # None
  <2>1. \A i \in Drafted(v) \cup DOMAIN tickets : Seen(v, i)' = Written(v, i)
    BY DEF Commits, Seen
  <2>. QED
    BY <2>1, WrittenKam DEF KamOf
<1>. QED
  BY <1>1, <1>2, <1>3 DEF KamKept, DraftKams, Commits

LEMMA MovedKam ==
  ASSUME IdsInv, NEW i \in DOMAIN tickets, NEW s, NEW by, Moved(i, s, by)
  PROVE  KamOf(tickets'[i]) = KamOf(tickets[i])
BY CommittedTypes DEF Moved, RecordStatus, KamOf, TicketRows

LEMMA ClosingKams ==
  ASSUME IdsInv, NEW v \in Visits, NEW i \in Ids, DraftKams(v), CommitsClosing(v, i), ~Busy(v)'
  PROVE  KamKept(v)
<1>1. KamOf(tickets'[i]) = KamOf(tickets[i])
  BY MovedKam DEF CommitsClosing
<1>2. KamStays(v)
  BY <1>1 DEF KamStays, CommitsClosing, Written
<1>3. \A j \in DOMAIN tickets : KamOf(tickets[j]) # None => KamOf(tickets'[j]) # None
  BY <1>1, WrittenKam, SeenKam DEF CommitsClosing
<1>. QED
  BY <1>2, <1>3 DEF KamKept, DraftKams, CommitsClosing

LEMMA CreatesKams ==
  ASSUME IdsInv, NEW v \in Visits, NEW c \in Categories, DraftKams(v), Creates(v, c)
  PROVE  KamKept(v)
<1>1. nextId \notin DOMAIN tickets /\ nextId \notin Drafted(v)
  BY DEF IdsInv, TypeOK
<1>2. DraftKams(v)'
  BY <1>1 DEF DraftKams, Creates
<1>3. \A i \in Drafted(v) \cup DOMAIN tickets : Seen(v, i)' = Seen(v, i)
  BY <1>1 DEF Creates, Seen
<1>. QED
  BY <1>1, <1>2, <1>3 DEF KamKept, KamStays, Creates, KamOf

LEMMA LinkTicket ==
  ASSUME IdsInv, NEW v \in Visits
  PROVE  [Idle(v) EXCEPT !.link = turn[v].link].link = turn[v].link
BY DEF Idle

(* Where a step leaves a creation that was under way.                      *)
LEMMA AdvancedIf ==
  ASSUME IdsInv, NEW v \in Visits, Advanced(v), KamKept(v),
         Busy(v), turn'[v].pc \in Building, turn'[v].id = turn[v].id,
         \A i \in Ids : slack[i] >= 1 => slack'[i] >= 1,
         turn'[v].pc # "kam" => turn[v].pc # "kam" \/ KamOf(UnderCreation(v))' # None,
         turn'[v].pc \in {"zoho", "commit", "call", "link"} =>
           \/ turn[v].pc \in {"zoho", "commit", "call", "link"}
           \/ slack'[turn[v].id] >= 1,
         turn'[v].pc \in {"call", "link"} => turn[v].id \notin Drafted(v)'
  PROVE  Advanced(v)'
<1>1. turn[v].id \in Ids /\ turn[v].id \in Drafted(v) \cup DOMAIN tickets /\ Busy(v)'
  BY UnderCreationType DEF Busy
<1>2. \A i \in Drafted(v) \cup DOMAIN tickets : KamOf(Seen(v, i)) # None => KamOf(Seen(v, i))' # None
  BY <1>1 DEF KamKept
<1>3. KamOf(UnderCreation(v)) # None => KamOf(UnderCreation(v))' # None
  BY <1>1, <1>2 DEF UnderCreation
<1>. QED
  BY <1>1, <1>3 DEF Advanced, Busy

LEMMA NotBusyAdvanced ==
  ASSUME NEW v \in Visits, ~Busy(v)' PROVE Advanced(v)'
BY DEF Busy, Advanced, Building

(* A turn that is over, or a tool that is.                                 *)
LEMMA KnownTurn ==
  ASSUME IdsInv, KnownInv, NEW v \in Visits, Turn(v)
  PROVE  KnownInv'
<1>0. DraftKams(v) /\ Advanced(v)
  BY DEF KnownInv
<1>1. CASE StartTurn(v)
  <2>1. /\ Keeps(v) /\ turn'[v] = [Idle(v) EXCEPT !.pc = "model"]
        /\ \A w \in Visits \ {v} : turn'[w] = turn[w]
    BY <1>1, StartTurnIs DEF TurnIs
  <2>2. turn'[v].pc = "model" /\ turn'[v].created = {} /\ turn'[v].link = visit[v]
    BY <2>1 DEF Idle
  <2>3. ~Busy(v)' /\ visit' = visit /\ slack' = slack /\ told' = told
    BY <1>1, <2>2 DEF Busy, Building, StartTurn
  <2>4. KnownBy(v)' \subseteq KnownBy(v)
    BY <2>2, <2>3 DEF KnownBy
  <2>. QED
    BY <1>0, <2>1, <2>3, <2>4, KeepsKams, NotBusyAdvanced, KnownStep DEF Keeps
<1>2. CASE EndTurn(v)
  <2>1. /\ Commits(v) /\ turn'[v] = [Idle(v) EXCEPT !.link = turn[v].link]
        /\ \A w \in Visits \ {v} : turn'[w] = turn[w]
    BY <1>2, EndTurnIs DEF TurnIs
  <2>2. turn'[v].pc = "idle" /\ turn'[v].created = {} /\ turn'[v].link = turn[v].link
    BY <2>1 DEF Idle
  <2>3. visit'[v] = turn[v].link /\ \A w \in Visits \ {v} : visit'[w] = visit[w]
    BY <1>2, CommitCommits DEF EndTurn
  <2>4. ~Busy(v)' /\ slack' = slack /\ told' = told \cup turn[v].created
    BY <1>2, <2>2 DEF Busy, Building, EndTurn
  <2>5. KnownBy(v)' \subseteq KnownBy(v)
    BY <2>2, <2>3 DEF KnownBy
  <2>6. told' \subseteq told \cup KnownBy(v)
    <3>1. turn[v].created \subseteq Ids
      BY TurnFields DEF IdsInv, TypeOK
    <3>2. None \notin Ids
      BY NoneAssumption DEF Ids
    <3>. QED
      BY <2>4, <3>1, <3>2 DEF KnownBy
  <2>. QED
    BY <1>0, <2>1, <2>3, <2>4, <2>5, <2>6, CommitsKams, NotBusyAdvanced, KnownStep DEF Commits
<1>3. CASE TurnDies(v)
  <2>1. /\ Drops(v) /\ turn'[v] = Idle(v) /\ \A w \in Visits \ {v} : turn'[w] = turn[w]
    BY <1>3, TurnDiesIs DEF TurnIs
  <2>2. turn'[v].pc = "idle" /\ turn'[v].created = {} /\ turn'[v].link = visit[v]
    BY <2>1 DEF Idle
  <2>3. ~Busy(v)' /\ visit' = visit /\ slack' = slack /\ told' = told
    BY <1>3, <2>2 DEF Busy, Building, TurnDies
  <2>4. KnownBy(v)' \subseteq KnownBy(v)
    BY <2>2, <2>3 DEF KnownBy
  <2>. QED
    BY <2>1, <2>3, <2>4, DropsKams, NotBusyAdvanced, KnownStep DEF Drops
<1>4. ASSUME NEW c \in Categories, ModelCreates(v, c) PROVE KnownInv'
  <2>1. /\ Creates(v, c) /\ turn'[v] = [turn[v] EXCEPT !.pc = "kam", !.id = nextId]
        /\ \A w \in Visits \ {v} : turn'[w] = turn[w]
    BY <1>4, ModelCreatesIs DEF TurnIs
  <2>2. turn[v] \in Turns
    BY DEF IdsInv, TypeOK
  <2>3. /\ turn'[v].pc = "kam" /\ turn'[v].created = turn[v].created
        /\ turn'[v].link = turn[v].link
    BY <2>1, <2>2 DEF Turns
  <2>4. visit' = visit /\ slack' = slack /\ told' = told
    BY <1>4 DEF ModelCreates
  <2>5. KnownBy(v)' \subseteq KnownBy(v) /\ Advanced(v)'
    BY <2>3, <2>4 DEF KnownBy, Advanced
  <2>. QED
    BY <1>0, <2>1, <2>4, <2>5, CreatesKams, KnownStep DEF Creates
<1>5. CASE ModelReads(v)
  <2>1. /\ Keeps(v) /\ ~Busy(v)' /\ \A w \in Visits \ {v} : turn'[w] = turn[w]
        /\ turn'[v].created = turn[v].created /\ turn'[v].link = turn[v].link
    BY <1>5, ModelReadsIs, ToolOver DEF TurnIs
  <2>2. visit' = visit /\ slack' = slack /\ told' = told
    BY <1>5 DEF ModelReads
  <2>3. KnownBy(v)' \subseteq KnownBy(v)
    BY <2>1, <2>2 DEF KnownBy
  <2>. QED
    BY <1>0, <2>1, <2>2, <2>3, KeepsKams, NotBusyAdvanced, KnownStep DEF Keeps
<1>6. CASE ModelResolves(v)
  <2>1. /\ Keeps(v) /\ turn'[v].pc = "model" /\ \A w \in Visits \ {v} : turn'[w] = turn[w]
        /\ turn'[v].created = turn[v].created
        /\ turn'[v].link.ticket_id = turn[v].link.ticket_id
    BY <1>6, ModelResolvesIs DEF TurnIs
  <2>2. ~Busy(v)' /\ visit' = visit /\ slack' = slack /\ told' = told
    BY <1>6, <2>1 DEF ModelResolves, Busy, Building
  <2>3. KnownBy(v)' \subseteq KnownBy(v)
    BY <2>1, <2>2 DEF KnownBy
  <2>. QED
    BY <1>0, <2>1, <2>2, <2>3, KeepsKams, NotBusyAdvanced, KnownStep DEF Keeps
<1>7. ASSUME NEW i \in Ids, ModelListsTickets(v, i) PROVE KnownInv'
  <2>1. /\ CommitsClosing(v, i) /\ ~Busy(v)' /\ \A w \in Visits \ {v} : turn'[w] = turn[w]
        /\ turn'[v].created = turn[v].created /\ turn'[v].link = turn[v].link
        /\ visit'[v] = turn[v].link /\ \A w \in Visits \ {v} : visit'[w] = visit[w]
    BY <1>7, ModelListsTicketsIs, ToolOver DEF TurnIs
  <2>2. slack' = slack /\ told' = told
    BY <1>7 DEF ModelListsTickets
  <2>3. KnownBy(v)' \subseteq KnownBy(v)
    BY <2>1 DEF KnownBy
  <2>. QED
    BY <1>0, <2>1, <2>2, <2>3, ClosingKams, NotBusyAdvanced, KnownStep DEF CommitsClosing
<1>. QED
  BY <1>1, <1>2, <1>3, <1>4, <1>5, <1>6, <1>7 DEF Turn

(* A step of a creation that leaves the chat_sessions row alone.           *)
LEMMA KnownOn ==
  ASSUME IdsInv, KnownInv, NEW v \in Visits, OthersKept(v), KamKept(v),
         NEW pc, Busy(v), TurnIs(v, [turn[v] EXCEPT !.pc = pc]), visit' = visit, told' = told,
         \A i \in Ids : slack[i] >= 1 => slack'[i] >= 1,
         Advanced(v)'
  PROVE  KnownInv'
<1>1. /\ turn'[v].created = turn[v].created /\ turn'[v].link = turn[v].link
      /\ \A w \in Visits \ {v} : turn'[w] = turn[w]
  BY StepOn DEF TurnIs
<1>2. KnownBy(v)' \subseteq KnownBy(v)
  BY <1>1 DEF KnownBy
<1>. QED
  BY <1>1, <1>2, KnownStep

LEMMA KnownOver ==
  ASSUME IdsInv, KnownInv, NEW v \in Visits, Keeps(v),
         TurnIs(v, [turn[v] EXCEPT !.pc = "model", !.calls = @ + 1]),
         visit' = visit, told' = told,
         \A i \in Ids : slack[i] >= 1 => slack'[i] >= 1
  PROVE  KnownInv'
<1>1. /\ ~Busy(v)' /\ \A w \in Visits \ {v} : turn'[w] = turn[w]
      /\ turn'[v].created = turn[v].created /\ turn'[v].link = turn[v].link
  BY ToolOver DEF TurnIs
<1>2. KnownBy(v)' \subseteq KnownBy(v)
  BY <1>1 DEF KnownBy
<1>3. DraftKams(v)
  BY DEF KnownInv
<1>. QED
  BY <1>1, <1>2, <1>3, KeepsKams, NotBusyAdvanced, KnownStep DEF Keeps

LEMMA KnownCreation ==
  ASSUME IdsInv, KnownInv, NEW v \in Visits, Creation(v)
  PROVE  KnownInv'
<1>0. DraftKams(v) /\ Advanced(v)
  BY DEF KnownInv
<1>1. ASSUME NEW pool \in {"kam", "cs"}, EndLeave(v, pool) PROVE KnownInv'
  <2>1. Commits(v) /\ turn' = turn /\ slack' = slack /\ told' = told /\ turn[v].pc = pool
    BY <1>1, EndLeaveIs DEF EndLeave
  <2>2. visit'[v] = turn[v].link /\ \A w \in Visits \ {v} : visit'[w] = visit[w]
    BY <1>1, CommitCommits DEF EndLeave
  <2>3. KnownBy(v)' \subseteq KnownBy(v)
    BY <2>1, <2>2 DEF KnownBy
  <2>4. Busy(v) /\ KamKept(v)
    BY <1>0, <2>1, CommitsKams DEF Busy, Building
  <2>5. Advanced(v)'
    BY <1>0, <2>1, <2>4, AdvancedIf DEF Busy
  <2>. QED
    BY <2>1, <2>2, <2>3, <2>4, <2>5, KnownStep DEF Commits
<1>2. CASE NoKam(v)
  BY <1>2, NoKamIs, KnownOver DEF NoKam
<1>3. ASSUME NEW k \in Kams, AssignKam(v, k) PROVE KnownInv'
  <2>1. /\ Busy(v) /\ turn[v].pc = "kam"
        /\ UNCHANGED <<visit, slack, told>>
    BY <1>3 DEF AssignKam, Busy, Building
  <2>2. /\ KamOf(KamAssigned(v, k)) # None
        /\ Writes(v, turn[v].id, KamAssigned(v, k), << StatusEntry("assigned_to_kam", "system") >>)
        /\ TurnIs(v, [turn[v] EXCEPT !.pc = "cs"])
    BY <1>3, AssignKamIs, NoneAssumption DEF KamOf
  <2>3. turn'[v].pc = "cs" /\ turn'[v].id = turn[v].id
    BY <2>1, <2>2, StepOn
  <2>4. KamKept(v) /\ UnderCreation(v)' = KamAssigned(v, k)
    BY <1>0, <2>1, <2>2, <2>3, WritesKams
  <2>5. KamOf(UnderCreation(v))' # None
    BY <2>2, <2>4 DEF KamOf
  <2>6. Advanced(v)'
    BY <1>0, <2>1, <2>3, <2>4, <2>5, AdvancedIf DEF Building
  <2>. QED
    BY <2>1, <2>2, <2>4, <2>6, KnownOn DEF Writes
<1>4. ASSUME NEW s \in CSs \cup {None}, NEW p \in Priorities, AssignCs(v, s, p) PROVE KnownInv'
  <2>1. /\ Busy(v) /\ turn[v].pc = "cs" /\ UNCHANGED <<visit, slack, told>>
    BY <1>4 DEF AssignCs, Busy, Building
  <2>2. /\ KamOf(CsAssigned(v, s, p)) = KamOf(UnderCreation(v))
        /\ Writes(v, turn[v].id, CsAssigned(v, s, p), << >>)
        /\ TurnIs(v, [turn[v] EXCEPT !.pc = "slack"])
    BY <1>4, AssignCsIs DEF KamOf, SameTicket
  <2>3. turn'[v].pc = "slack" /\ turn'[v].id = turn[v].id
    BY <2>1, <2>2, StepOn
  <2>4. KamKept(v)
    BY <1>0, <2>1, <2>2, WritesKams
  <2>5. Advanced(v)'
    BY <1>0, <2>1, <2>3, <2>4, AdvancedIf DEF Building
  <2>. QED
    BY <2>1, <2>2, <2>4, <2>5, KnownOn DEF Writes
<1>5. CASE PostSlack(v)
  <2>1. /\ Busy(v) /\ turn[v].pc = "slack" /\ UNCHANGED <<visit, told>>
        /\ slack'[turn[v].id] >= 1 /\ \A i \in Ids : slack[i] >= 1 => slack'[i] >= 1
    <3>1. Busy(v) /\ turn[v].pc = "slack" /\ UNCHANGED <<visit, told>> /\ Announced(v)
      BY <1>5 DEF PostSlack, Busy, Building
    <3>. QED
      BY <3>1, AnnouncedTyped
  <2>2. Keeps(v) /\ TurnIs(v, [turn[v] EXCEPT !.pc = "zoho"])
    BY <1>5, PostSlackIs
  <2>3. turn'[v].pc = "zoho" /\ turn'[v].id = turn[v].id /\ KamKept(v)
    BY <1>0, <2>1, <2>2, StepOn, KeepsKams
  <2>4. Advanced(v)'
    BY <1>0, <2>1, <2>3, AdvancedIf DEF Building
  <2>. QED
    BY <2>1, <2>2, <2>3, <2>4, KnownOn DEF Keeps
<1>6. CASE SlackRaises(v)
  <2>1. Busy(v) /\ UNCHANGED <<visit, told>> /\ (slack' = slack \/ Announced(v))
    BY <1>6 DEF SlackRaises, Busy, Building
  <2>2. \A i \in Ids : slack[i] >= 1 => slack'[i] >= 1
    BY <2>1, AnnouncedTyped
  <2>. QED
    BY <1>6, <2>1, <2>2, SlackRaisesIs, KnownOver
<1>7. CASE PushZoho(v)
  <2>1. /\ Busy(v) /\ turn[v].pc = "zoho" /\ UNCHANGED <<visit, slack, told>>
    BY <1>7 DEF PushZoho, Busy, Building
  <2>2. TurnIs(v, [turn[v] EXCEPT !.pc = "commit"])
    BY <1>7, PushZohoIs
  <2>3. turn'[v].pc = "commit" /\ turn'[v].id = turn[v].id
    BY <2>1, <2>2, StepOn
  <2>4. KamKept(v) /\ OthersKept(v)
    <3>1. CASE Keeps(v)
      BY <1>0, <3>1, KeepsKams DEF Keeps
    <3>2. CASE /\ SameTicket(UnderCreation(v), ZohoLinked(v))
               /\ Writes(v, turn[v].id, ZohoLinked(v), << >>)
      <4>1. KamOf(ZohoLinked(v)) = KamOf(UnderCreation(v))
        BY <3>2 DEF KamOf, SameTicket
      <4>2. KamKept(v)
        BY <1>0, <2>1, <3>2, <4>1, WritesKams
      <4>. QED
        BY <3>2, <4>2 DEF Writes
    <3>. QED
      BY <1>7, <3>1, <3>2, PushZohoIs
  <2>5. Advanced(v)'
    BY <1>0, <2>1, <2>3, <2>4, AdvancedIf DEF Building
  <2>. QED
    BY <2>1, <2>2, <2>4, <2>5, KnownOn
<1>8. CASE CommitTicket(v)
  <2>1. Busy(v) /\ turn[v].pc = "commit" /\ UNCHANGED <<slack, told>> /\ Commits(v)
    BY <1>8, CommitTicketIs DEF CommitTicket, Busy, Building
  <2>2. PICK pc \in {"call", "link"} : TurnIs(v, [turn[v] EXCEPT !.pc = pc])
    BY <1>8, CommitTicketIs
  <2>3. /\ turn'[v].pc = pc /\ turn'[v].id = turn[v].id
        /\ turn'[v].created = turn[v].created /\ turn'[v].link = turn[v].link
        /\ \A w \in Visits \ {v} : turn'[w] = turn[w]
    BY <2>1, <2>2, StepOn DEF TurnIs
  <2>4. visit'[v] = turn[v].link /\ \A w \in Visits \ {v} : visit'[w] = visit[w]
    BY <1>8, CommitCommits DEF CommitTicket
  <2>5. KnownBy(v)' \subseteq KnownBy(v)
    BY <2>3, <2>4 DEF KnownBy
  <2>6. KamKept(v) /\ turn[v].id \notin Drafted(v)'
    BY <1>0, <2>1, CommitsKams DEF Commits
  <2>7. Advanced(v)'
    BY <1>0, <2>1, <2>3, <2>6, AdvancedIf DEF Building
  <2>. QED
    BY <2>1, <2>3, <2>4, <2>5, <2>6, <2>7, KnownStep DEF Commits
<1>9. CASE PlaceCall(v)
  <2>1. Busy(v) /\ turn[v].pc = "call" /\ UNCHANGED <<visit, slack, told>> /\ Keeps(v)
    BY <1>9, PlaceCallIs DEF PlaceCall, Busy, Building
  <2>2. CASE TurnIs(v, [turn[v] EXCEPT !.pc = "link"])
    <3>1. turn'[v].pc = "link" /\ turn'[v].id = turn[v].id /\ KamKept(v)
      BY <1>0, <2>1, <2>2, StepOn, KeepsKams
    <3>2. turn[v].id \notin Drafted(v)'
      BY <1>0, <2>1 DEF Advanced, Keeps
    <3>3. Advanced(v)'
      BY <1>0, <2>1, <3>1, <3>2, AdvancedIf DEF Building
    <3>. QED
      BY <2>1, <2>2, <3>1, <3>3, KnownOn DEF Keeps
  <2>3. CASE TurnIs(v, [turn[v] EXCEPT !.pc = "model", !.calls = @ + 1])
    BY <2>1, <2>3, KnownOver
  <2>. QED
    BY <1>9, <2>2, <2>3, PlaceCallIs
<1>10. CASE LinkChat(v)
  <2>1. Busy(v) /\ turn[v].pc = "link" /\ UNCHANGED <<visit, slack, told>>
    BY <1>10 DEF LinkChat, Busy, Building
  <2>2. /\ Keeps(v) /\ turn'[v].pc = "model" /\ \A w \in Visits \ {v} : turn'[w] = turn[w]
        /\ turn'[v].created = turn[v].created \cup {turn[v].id}
        /\ turn'[v].link.ticket_id = turn[v].id
    BY <1>10, LinkChatIs DEF TurnIs
  <2>3. Done(turn[v].id)
    BY <1>0, <2>1, UnderCreationType
       DEF Advanced, Building, UnderCreation, Seen, Done, Committed
  <2>4. \A i \in KnownBy(v)' : i \in KnownBy(v) \/ Done(i)
    BY <2>1, <2>2, <2>3 DEF KnownBy
  <2>5. ~Busy(v)'
    BY <2>2 DEF Busy, Building
  <2>. QED
    BY <1>0, <2>1, <2>2, <2>4, <2>5, KeepsKams, NotBusyAdvanced, KnownStep DEF Keeps
<1>. QED
  BY <1>1, <1>2, <1>3, <1>4, <1>5, <1>6, <1>7, <1>8, <1>9, <1>10 DEF Creation

LEMMA KnownDesk ==
  ASSUME IdsInv, KnownInv, NEW i \in Ids, NEW s \in ADMIN_SETTABLE_STATUSES, Desk(i, s)
  PROVE  KnownInv'
<1>1. /\ UNCHANGED <<draft, turn, visit, slack, told>> /\ DOMAIN tickets' = DOMAIN tickets
      /\ \A j \in DOMAIN tickets : KamOf(tickets'[j]) = KamOf(tickets[j])
  BY MovedKam DEF Desk
<1>2. \A j : Done(j) => Done(j)'
  BY <1>1 DEF Done, Committed
<1>3. \A v \in Visits : DraftKams(v)'
  BY <1>1 DEF KnownInv, DraftKams, Drafted
<1>4. ASSUME NEW v \in Visits PROVE Advanced(v)'
  <2>1. Advanced(v)
    BY DEF KnownInv
  <2>2. CASE Busy(v)
    <3>1. turn[v].id \in Drafted(v) \cup DOMAIN tickets /\ Drafted(v)' = Drafted(v)
      BY <1>1, <2>2, UnderCreationType DEF Drafted
    <3>2. KamOf(UnderCreation(v))' = KamOf(UnderCreation(v))
      BY <1>1, <3>1 DEF UnderCreation, Seen, KamOf
    <3>. QED
      BY <1>1, <2>1, <3>1, <3>2 DEF Advanced
  <2>3. CASE ~Busy(v)
    BY <1>1, <2>3, NotBusyAdvanced DEF Busy
  <2>. QED
    BY <2>2, <2>3
<1>5. \A v \in Visits : KnownBy(v)' = KnownBy(v)
  BY <1>1 DEF KnownBy
<1>. QED
  BY <1>1, <1>2, <1>3, <1>4, <1>5 DEF KnownInv

LEMMA KnownInit == Init => KnownInv
<1> SUFFICES ASSUME Init PROVE KnownInv
  OBVIOUS
<1>1. told = {} /\ \A v \in Visits : Drafted(v) = {}
  BY DEF Init, Drafted, NoDraft
<1>2. \A v \in Visits : visit[v] = NoLink /\ turn[v] = Idle(v)
  BY DEF Init
<1>3. ASSUME NEW v \in Visits PROVE KnownBy(v) = {} /\ turn[v].pc = "idle"
  <2>1. Idle(v).pc = "idle" /\ Idle(v).created = {} /\ Idle(v).link = visit[v]
    BY IdsInit, IdleType
  <2>2. NoLink.ticket_id = None
    BY DEF NoLink
  <2>. QED
    BY <1>2, <2>1, <2>2 DEF KnownBy
<1>. QED
  BY <1>1, <1>3 DEF KnownInv, DraftKams, Advanced, Building

LEMMA KnownStutter ==
  ASSUME KnownInv, UNCHANGED vars
  PROVE  KnownInv'
BY DEF vars, KnownInv, DraftKams, Advanced, KnownBy, Done, Committed, UnderCreation, Seen,
       Drafted

LEMMA KnownNext == IdsInv /\ KnownInv /\ [Next]_vars => KnownInv'
BY KnownTurn, KnownCreation, DeskMovesIs, KnownDesk, KnownStutter DEF Next

LEMMA KnownAlways == Spec => []KnownInv
BY IdsInit, IdsNext, KnownInit, KnownNext, PTL DEF Spec

(* A ticket the astrologer was told of, or that a visit's analytics row    *)
(* points at, is in the database, has its KAM and was announced.           *)
THEOREM IntakeKnownTicketsAreComplete == Spec => []KnownTicketsAreComplete
<1>1. KnownInv => KnownTicketsAreComplete
  BY DEF KnownInv, KnownTicketsAreComplete, KnownBy, Done, KamOf
<1>. QED
  BY <1>1, KnownAlways, PTL

-----------------------------------------------------------------------------
(* Rows nobody has worked on: the inductive invariant RowsInv.             *)

Untouched(i) == \A n \in 1..Len(hist[i]) : hist[i][n].by = "system"

(* No admin has worked on ticket i, as far as the database knows.          *)
Fresh(i) == i \in DOMAIN tickets => Untouched(i)

DraftIsKnown(v, i) ==
  /\ i \in DOMAIN tickets => draft[v][i].base = tickets[i]
  /\ draft[v][i].mine \in DeskRows
  /\ Recorded(v, i) = CreationHistory(draft[v][i].mine)

StageIsKnown(v) ==
  /\ turn[v].pc = "kam" => \E c \in Categories : UnderCreation(v) = HalfBuiltRow(c)
  /\ turn[v].pc = "cs" =>
       \E c \in Categories, k \in Kams : UnderCreation(v) = AssignedRow(c, k)
  /\ turn[v].pc \in {"slack", "zoho"} =>
       \E c \in Categories, p \in Priorities, k \in Kams, s \in CSs \cup {None} :
         UnderCreation(v) = CreatedRow(c, p, k, s, None)

KnownDrafts(v) == \A i \in Drafted(v) : Fresh(i) => DraftIsKnown(v, i)
KnownStage(v) == Busy(v) /\ Fresh(turn[v].id) => StageIsKnown(v)
SameCategory(v) ==
  \A i \in Drafted(v) \cap DOMAIN tickets : draft[v][i].mine.category = tickets[i].category

RowsInv ==
  /\ UntouchedRowsAreKnown
  /\ \A v \in Visits : KnownDrafts(v) /\ SameCategory(v) /\ KnownStage(v)

(* Facts about histories and rows.                                         *)
LEMMA EntryIs ==
  ASSUME NEW s, NEW a
  PROVE  StatusEntry(s, a).by = a /\ StatusEntry(s, a).status = s
BY DEF StatusEntry

LEMMA PrefixUntouched ==
  ASSUME NEW s \in Seq(HistoryRows), NEW r \in Seq(HistoryRows),
         \A n \in 1..Len(s \o r) : (s \o r)[n].by = "system"
  PROVE  \A n \in 1..Len(s) : s[n].by = "system"
<1>1. ASSUME NEW n \in 1..Len(s) PROVE n \in 1..Len(s \o r) /\ (s \o r)[n] = s[n]
  OBVIOUS
<1>. QED
  BY <1>1

LEMMA AppendUntouched ==
  ASSUME NEW s \in Seq(HistoryRows), NEW e \in HistoryRows,
         \A n \in 1..Len(Append(s, e)) : Append(s, e)[n].by = "system"
  PROVE  e.by = "system" /\ \A n \in 1..Len(s) : s[n].by = "system"
<1>1. Len(s) + 1 \in 1..Len(Append(s, e)) /\ Append(s, e)[Len(s) + 1] = e
  OBVIOUS
<1>2. ASSUME NEW n \in 1..Len(s) PROVE n \in 1..Len(Append(s, e)) /\ Append(s, e)[n] = s[n]
  OBVIOUS
<1>. QED
  BY <1>1, <1>2

LEMMA HistoriesAdd ==
  ASSUME NEW s \in Seq(HistoryRows), NEW r \in Seq(HistoryRows), NEW q \in Seq(HistoryRows)
  PROVE  s \o (r \o q) = (s \o r) \o q
BY ConcatAssociative

LEMMA DeskRowStatus ==
  ASSUME NEW t \in DeskRows
  PROVE  t.status \in {"submitted", "assigned_to_kam"}
BY DEF DeskRows, HalfBuiltRow, AssignedRow, UnroutedRow, CreatedRow

LEMMA MergeAlone ==
  ASSUME NEW b \in TicketRows, NEW m \in TicketRows, m.category = b.category
  PROVE  Merge(b, m, b, FALSE) = m
BY DEF Merge, Pick, TicketRows

(* What a step of v does to the tickets not in its session ...             *)
RowStays(v) ==
  /\ DOMAIN tickets \subseteq DOMAIN tickets'
  /\ DOMAIN tickets' \subseteq DOMAIN tickets \cup Drafted(v)
  /\ \A i \in DOMAIN tickets : tickets'[i].category = tickets[i].category
  /\ \A i \in DOMAIN tickets \ Drafted(v) :
       Untouched(i)' => tickets'[i] = tickets[i] /\ hist'[i] = hist[i]

(* ... and to those in it.                                                 *)
RowKept(v) ==
  /\ RowStays(v)
  /\ \A i \in Drafted(v) \cap DOMAIN tickets' : Untouched(i)' =>
       tickets'[i] \in DeskRows /\ hist'[i] = CreationHistory(tickets'[i])
  /\ KnownDrafts(v)' /\ SameCategory(v)'

LEMMA OthersRows ==
  ASSUME IdsInv, NEW v \in Visits, OthersKept(v), RowStays(v),
         NEW w \in Visits \ {v}, turn'[w] = turn[w],
         KnownDrafts(w), SameCategory(w), KnownStage(w)
  PROVE  KnownDrafts(w)' /\ SameCategory(w)' /\ KnownStage(w)'
<1>1. draft'[w] = draft[w] /\ Drafted(w)' = Drafted(w)
  BY DEF OthersKept, Drafted
<1>2. \A i \in Ids : Owns(w, i) => i \notin Drafted(v)
  BY DEF IdsInv, Owns
<1>3. ASSUME NEW i \in Ids, Owns(w, i), Fresh(i)'
      PROVE  /\ i \in DOMAIN tickets' <=> i \in DOMAIN tickets
             /\ i \in DOMAIN tickets => tickets'[i] = tickets[i] /\ hist'[i] = hist[i]
             /\ Fresh(i)
  <2>1. i \in DOMAIN tickets' <=> i \in DOMAIN tickets
    BY <1>2, <1>3 DEF RowStays
  <2>2. i \in DOMAIN tickets => tickets'[i] = tickets[i] /\ hist'[i] = hist[i]
    BY <1>2, <1>3, <2>1 DEF RowStays, Fresh
  <2>. QED
    BY <1>3, <2>1, <2>2 DEF Fresh, Untouched
<1>4. \A i \in Drafted(w) : i \in Ids /\ Owns(w, i)
  BY DraftedTypes DEF Owns
<1>5. KnownDrafts(w)'
  <2> SUFFICES ASSUME NEW i \in Drafted(w), Fresh(i)' PROVE DraftIsKnown(w, i)'
    BY <1>1 DEF KnownDrafts
  <2>. QED
    BY <1>1, <1>3, <1>4 DEF KnownDrafts, DraftIsKnown, Recorded
<1>6. SameCategory(w)'
  BY <1>1, <1>2, <1>4 DEF SameCategory, RowStays
<1>7. KnownStage(w)'
  <2> SUFFICES ASSUME Busy(w), Fresh(turn[w].id)' PROVE StageIsKnown(w)'
    BY DEF KnownStage, Busy
  <2>1. turn[w].id \in Ids /\ Owns(w, turn[w].id) /\ turn[w].id \in Drafted(w) \cup DOMAIN tickets
    BY UnderCreationType DEF Owns
  <2>2. ASSUME NEW i, i = turn[w].id PROVE Fresh(i) /\ Seen(w, i)' = Seen(w, i)
    BY <1>1, <1>3, <2>1, <2>2 DEF Seen, Fresh
  <2>3. Fresh(turn[w].id) /\ UnderCreation(w)' = UnderCreation(w)
    BY <2>2 DEF UnderCreation
  <2>. QED
    BY <2>3 DEF KnownStage, StageIsKnown
<1>. QED
  BY <1>5, <1>6, <1>7

(* What is left to show of a step of v.                                    *)
LEMMA RowsStep ==
  ASSUME IdsInv, RowsInv, NEW v \in Visits, OthersKept(v), RowKept(v),
         \A w \in Visits \ {v} : turn'[w] = turn[w], KnownStage(v)'
  PROVE  RowsInv'
<1>1. UntouchedRowsAreKnown'
  <2> SUFFICES ASSUME NEW i \in DOMAIN tickets', Untouched(i)'
               PROVE  tickets'[i] \in DeskRows /\ hist'[i] = CreationHistory(tickets'[i])
    BY DEF UntouchedRowsAreKnown, Untouched, DeskRows
  <2>1. CASE i \in Drafted(v)
    BY <2>1 DEF RowKept
  <2>2. CASE i \notin Drafted(v)
    <3>1. i \in DOMAIN tickets /\ tickets'[i] = tickets[i] /\ hist'[i] = hist[i]
      BY <2>2 DEF RowKept, RowStays
    <3>2. Untouched(i)
      BY <3>1 DEF Untouched
    <3>. QED
      BY <3>1, <3>2 DEF RowsInv, UntouchedRowsAreKnown, Untouched
  <2>. QED
    BY <2>1, <2>2
<1>2. \A w \in Visits \ {v} : KnownDrafts(w)' /\ SameCategory(w)' /\ KnownStage(w)'
  BY OthersRows DEF RowsInv, RowKept
<1>. QED
  BY <1>1, <1>2 DEF RowsInv, RowKept

(* What a session holds of a fresh ticket.                                 *)
LEMMA FreshSeen ==
  ASSUME IdsInv, RowsInv, NEW v \in Visits, NEW i \in Drafted(v) \cup DOMAIN tickets, Fresh(i)
  PROVE  /\ Seen(v, i) \in DeskRows /\ Recorded(v, i) = CreationHistory(Seen(v, i))
         /\ Written(v, i) = Seen(v, i)
<1>1. CASE i \notin Drafted(v)
  BY <1>1 DEF RowsInv, UntouchedRowsAreKnown, Untouched, Fresh, Seen, Recorded, Written
<1>2. CASE i \in Drafted(v)
  <2>1. DraftIsKnown(v, i) /\ SameCategory(v)
    BY <1>2 DEF RowsInv, KnownDrafts
  <2>2. Seen(v, i) = draft[v][i].mine
    BY <1>2 DEF Seen
  <2>3. CASE i \in DOMAIN tickets
    <3>1. /\ draft[v][i].base = tickets[i] /\ draft[v][i].mine.category = tickets[i].category
          /\ tickets[i] \in TicketRows /\ draft[v][i].mine \in TicketRows
      BY <1>2, <2>1, <2>3, DraftedTypes, CommittedTypes DEF DraftIsKnown, SameCategory
    <3>2. Written(v, i) = draft[v][i].mine
      BY <1>2, <2>3, <3>1, MergeAlone DEF Written
    <3>. QED
      BY <2>1, <2>2, <3>2 DEF DraftIsKnown
  <2>4. CASE i \notin DOMAIN tickets
    BY <1>2, <2>1, <2>2, <2>4 DEF DraftIsKnown, Written
  <2>. QED
    BY <2>3, <2>4
<1>. QED
  BY <1>1, <1>2

(* Of the kinds of steps.                                                  *)
LEMMA SameRows ==
  ASSUME IdsInv, RowsInv, NEW v \in Visits, UNCHANGED <<tickets, hist>>
  PROVE  /\ RowStays(v)
         /\ \A i \in Drafted(v) \cap DOMAIN tickets' : Untouched(i)' =>
              tickets'[i] \in DeskRows /\ hist'[i] = CreationHistory(tickets'[i])
         /\ \A i : Fresh(i)' <=> Fresh(i)
BY DEF RowStays, RowsInv, UntouchedRowsAreKnown, Untouched, Fresh

LEMMA KeepsRows ==
  ASSUME IdsInv, RowsInv, NEW v \in Visits, Keeps(v)
  PROVE  RowKept(v) /\ \A i \in Drafted(v) \cup DOMAIN tickets : Seen(v, i)' = Seen(v, i)
<1>1. /\ UNCHANGED <<tickets, hist>> /\ Drafted(v)' = Drafted(v)
      /\ \A i \in Drafted(v) : /\ draft'[v][i].base = draft[v][i].base
                               /\ draft'[v][i].mine = draft[v][i].mine
                               /\ draft'[v][i].rows = draft[v][i].rows
  BY DEF Keeps, SameDraft
<1>2. KnownDrafts(v) /\ SameCategory(v)
  BY DEF RowsInv
<1>3. KnownDrafts(v)'
  <2> SUFFICES ASSUME NEW i \in Drafted(v), Fresh(i)' PROVE DraftIsKnown(v, i)'
    BY <1>1 DEF KnownDrafts
  <2>1. DraftIsKnown(v, i)
    BY <1>1, <1>2, SameRows DEF KnownDrafts
  <2>2. Recorded(v, i)' = Recorded(v, i)
    BY <1>1 DEF Recorded
  <2>. QED
    BY <1>1, <2>1, <2>2 DEF DraftIsKnown
<1>4. SameCategory(v)'
  BY <1>1, <1>2 DEF SameCategory
<1>5. \A i \in Drafted(v) \cup DOMAIN tickets : Seen(v, i)' = Seen(v, i)
  BY <1>1 DEF Seen
<1>. QED
  BY <1>1, <1>3, <1>4, <1>5, SameRows DEF RowKept

LEMMA WritesRows ==
  ASSUME IdsInv, RowsInv, NEW v \in Visits, Busy(v), NEW n, n = turn[v].id,
         NEW t, NEW rows \in Seq(HistoryRows), Writes(v, n, t, rows),
         t.category = UnderCreation(v).category,
         Fresh(n) => t \in DeskRows /\ Recorded(v, n) \o rows = CreationHistory(t)
  PROVE  RowKept(v) /\ (turn'[v].id = n => UnderCreation(v)' = t) /\ (Fresh(n)' <=> Fresh(n))
<1>1. n \in Drafted(v) \cup DOMAIN tickets /\ UNCHANGED <<tickets, hist>>
  BY UnderCreationType DEF Writes
<1>2. KnownDrafts(v) /\ SameCategory(v)
  BY DEF RowsInv
<1>3. Recorded(v, n)' = Recorded(v, n) \o rows
  <2>1. CASE n \in Drafted(v) /\ n \in DOMAIN tickets
    <3>1. hist[n] \in Seq(HistoryRows) /\ draft[v][n].rows \in Seq(HistoryRows)
      BY <2>1, CommittedTypes, DraftedTypes
    <3>2. hist[n] \o (draft[v][n].rows \o rows) = (hist[n] \o draft[v][n].rows) \o rows
      BY <3>1, HistoriesAdd
    <3>. QED
      BY <1>1, <2>1, <3>2 DEF Recorded, Writes
  <2>2. CASE n \in Drafted(v) /\ n \notin DOMAIN tickets
    BY <1>1, <2>2 DEF Recorded, Writes
  <2>3. CASE n \notin Drafted(v)
    BY <1>1, <2>3 DEF Recorded, Writes
  <2>. QED
    BY <2>1, <2>2, <2>3
<1>4. KnownDrafts(v)'
  <2> SUFFICES ASSUME NEW i \in Drafted(v)', Fresh(i)' PROVE DraftIsKnown(v, i)'
    BY DEF KnownDrafts
  <2>1. Fresh(i)
    BY <1>1, SameRows
  <2>2. CASE i # n
    <3>1. i \in Drafted(v) /\ draft'[v][i] = draft[v][i]
      BY <2>2 DEF Writes
    <3>2. DraftIsKnown(v, i)
      BY <1>2, <2>1, <3>1 DEF KnownDrafts
    <3>3. Recorded(v, i)' = Recorded(v, i)
      BY <1>1, <2>2, <3>1 DEF Recorded, Writes
    <3>. QED
      BY <1>1, <3>1, <3>2, <3>3 DEF DraftIsKnown
  <2>3. CASE i = n
    <3>1. draft'[v][n].mine = t /\ t \in DeskRows
      BY <2>1, <2>3 DEF Writes
    <3>2. n \in DOMAIN tickets => draft'[v][n].base = tickets[n]
      BY <1>2, <2>1, <2>3 DEF Writes, KnownDrafts, DraftIsKnown
    <3>3. Recorded(v, n)' = CreationHistory(t)
      BY <1>3, <2>1, <2>3
    <3>. QED
      BY <1>1, <2>3, <3>1, <3>2, <3>3 DEF DraftIsKnown
  <2>. QED
    BY <2>2, <2>3
<1>5. SameCategory(v)'
  <2>1. n \in DOMAIN tickets => t.category = tickets[n].category
    BY <1>2 DEF SameCategory, UnderCreation, Seen
  <2>. QED
    BY <1>1, <1>2, <2>1 DEF SameCategory, Writes
<1>6. Seen(v, n)' = t
  BY DEF Writes, Seen
<1>7. turn'[v].id = n => UnderCreation(v)' = t
  BY <1>6 DEF UnderCreation
<1>. QED
  BY <1>1, <1>4, <1>5, <1>7, SameRows DEF RowKept

LEMMA DropsRows ==
  ASSUME IdsInv, RowsInv, NEW v \in Visits, Drops(v)
  PROVE  RowKept(v)
BY SameRows DEF Drops, RowKept, KnownDrafts, SameCategory

LEMMA CommittedRow ==
  ASSUME IdsInv, RowsInv, NEW v \in Visits, NEW i \in Drafted(v),
         i \in DOMAIN tickets', tickets'[i] = Written(v, i), hist'[i] = Recorded(v, i)
  PROVE  /\ Untouched(i)' => /\ Fresh(i) /\ tickets'[i] = Seen(v, i)
                             /\ tickets'[i] \in DeskRows /\ hist'[i] = CreationHistory(tickets'[i])
         /\ i \in DOMAIN tickets => tickets'[i].category = tickets[i].category
<1>1. ASSUME Untouched(i)' PROVE Fresh(i)
  <2> SUFFICES ASSUME i \in DOMAIN tickets PROVE Untouched(i)
    BY DEF Fresh
  <2>1. hist[i] \in Seq(HistoryRows) /\ draft[v][i].rows \in Seq(HistoryRows)
    BY CommittedTypes, DraftedTypes
  <2>2. hist'[i] = hist[i] \o draft[v][i].rows
    BY DEF Recorded
  <2>3. \A n \in 1..Len(hist[i] \o draft[v][i].rows) : (hist[i] \o draft[v][i].rows)[n].by = "system"
    BY <1>1, <2>2 DEF Untouched
  <2>. QED
    BY <2>1, <2>3, PrefixUntouched DEF Untouched
<1>2. i \in DOMAIN tickets => tickets'[i].category = tickets[i].category
  BY DEF Written, Merge
<1>. QED
  BY <1>1, <1>2, FreshSeen

LEMMA CommitsRows ==
  ASSUME IdsInv, RowsInv, NEW v \in Visits, Commits(v)
  PROVE  /\ RowKept(v)
         /\ \A i \in Drafted(v) \cup DOMAIN tickets :
              Fresh(i)' => Fresh(i) /\ Seen(v, i)' = Seen(v, i)
<1>1. \A i \in DOMAIN tickets \ Drafted(v) : tickets'[i] = tickets[i] /\ hist'[i] = hist[i]
  BY DEF Commits, Written, Recorded
<1>2. \A i \in Drafted(v) :
        /\ Untouched(i)' => /\ Fresh(i) /\ tickets'[i] = Seen(v, i)
                            /\ tickets'[i] \in DeskRows /\ hist'[i] = CreationHistory(tickets'[i])
        /\ i \in DOMAIN tickets => tickets'[i].category = tickets[i].category
  BY CommittedRow DEF Commits
<1>3. RowStays(v)
  BY <1>1, <1>2 DEF RowStays, Commits
<1>4. KnownDrafts(v)' /\ SameCategory(v)'
  BY DEF Commits, KnownDrafts, SameCategory
<1>5. ASSUME NEW i \in Drafted(v) \cup DOMAIN tickets, Fresh(i)'
      PROVE  Fresh(i) /\ Seen(v, i)' = Seen(v, i)
  <2>1. i \in DOMAIN tickets' /\ Untouched(i)' /\ Seen(v, i)' = tickets'[i]
    BY <1>5 DEF Commits, Fresh, Seen
  <2>2. CASE i \in Drafted(v)
    BY <1>2, <2>1, <2>2
  <2>3. CASE i \notin Drafted(v)
    BY <1>1, <2>1, <2>3 DEF Fresh, Untouched, Seen
  <2>. QED
    BY <2>2, <2>3
<1>. QED
  BY <1>2, <1>3, <1>4, <1>5 DEF RowKept

LEMMA MovedRow ==
  ASSUME IdsInv, NEW i \in DOMAIN tickets, NEW s \in TicketStatus, NEW by \in Authors,
         Moved(i, s, by)
  PROVE  /\ tickets'[i].category = tickets[i].category
         /\ Untouched(i)' => by = "system" /\ Untouched(i)
<1>1. tickets'[i].category = tickets[i].category
  BY CommittedTypes DEF Moved, RecordStatus, TicketRows
<1>2. hist[i] \in Seq(HistoryRows) /\ StatusEntry(s, by) \in HistoryRows
  BY CommittedTypes, EntryTypes
<1>. QED
  BY <1>1, <1>2, AppendUntouched, EntryIs DEF Moved, Untouched

LEMMA ClosingRows ==
  ASSUME IdsInv, RowsInv, NEW v \in Visits, NEW i \in Ids, CommitsClosing(v, i)
  PROVE  RowKept(v)
<1>1. ~Untouched(i)
  BY DeskRowStatus DEF CommitsClosing, RowsInv, UntouchedRowsAreKnown, Untouched
<1>2. tickets'[i].category = tickets[i].category /\ ~Untouched(i)'
  BY <1>1, MovedRow DEF CommitsClosing, TicketStatus, Authors
<1>3. \A j \in DOMAIN tickets \ (Drafted(v) \cup {i}) : tickets'[j] = tickets[j] /\ hist'[j] = hist[j]
  BY DEF CommitsClosing, Written, Recorded
<1>4. \A j \in Drafted(v) :
        /\ Untouched(j)' => tickets'[j] \in DeskRows /\ hist'[j] = CreationHistory(tickets'[j])
        /\ j \in DOMAIN tickets => tickets'[j].category = tickets[j].category
  BY CommittedRow DEF CommitsClosing
<1>5. RowStays(v)
  BY <1>2, <1>3, <1>4 DEF RowStays, CommitsClosing
<1>6. KnownDrafts(v)' /\ SameCategory(v)'
  BY DEF CommitsClosing, KnownDrafts, SameCategory
<1>. QED
  BY <1>4, <1>5, <1>6 DEF RowKept

LEMMA CreatesRows ==
  ASSUME IdsInv, RowsInv, NEW v \in Visits, NEW c \in Categories, Creates(v, c)
  PROVE  RowKept(v) /\ UnderCreation(v)' = HalfBuiltRow(c)
<1>1. nextId \notin DOMAIN tickets /\ nextId \notin Drafted(v) /\ UNCHANGED <<tickets, hist>>
  BY DEF IdsInv, TypeOK, Creates
<1>2. KnownDrafts(v) /\ SameCategory(v)
  BY DEF RowsInv
<1>3. KnownDrafts(v)'
  <2> SUFFICES ASSUME NEW i \in Drafted(v)', Fresh(i)' PROVE DraftIsKnown(v, i)'
    BY DEF KnownDrafts
  <2>1. CASE i \in Drafted(v)
    <3>1. DraftIsKnown(v, i) /\ draft'[v][i] = draft[v][i]
      BY <1>1, <1>2, <2>1, SameRows DEF KnownDrafts, Creates
    <3>2. Recorded(v, i)' = Recorded(v, i)
      BY <1>1, <2>1, <3>1 DEF Recorded
    <3>. QED
      BY <1>1, <3>1, <3>2 DEF DraftIsKnown
  <2>2. CASE i = nextId
    <3>1. /\ draft'[v][i].mine = HalfBuiltRow(c)
          /\ draft'[v][i].rows = << StatusEntry("submitted", "system") >>
      BY <2>2 DEF Creates
    <3>2. HalfBuiltRow(c) \in DeskRows
      BY DEF DeskRows
    <3>3. CreationHistory(HalfBuiltRow(c)) = << StatusEntry("submitted", "system") >>
      BY DEF CreationHistory, HalfBuiltRow, UnroutedRow
    <3>4. Recorded(v, i)' = draft'[v][i].rows
      BY <1>1, <2>2 DEF Recorded
    <3>. QED
      BY <1>1, <2>2, <3>1, <3>2, <3>3, <3>4 DEF DraftIsKnown
  <2>. QED
    BY <2>1, <2>2 DEF Creates
<1>4. SameCategory(v)'
  BY <1>1, <1>2 DEF SameCategory, Creates
<1>5. UnderCreation(v)' = HalfBuiltRow(c)
  BY DEF Creates, UnderCreation, Seen
<1>. QED
  BY <1>1, <1>3, <1>4, <1>5, SameRows DEF RowKept

LEMMA TwoEntries ==
  ASSUME NEW a \in HistoryRows, NEW b \in HistoryRows
  PROVE  << a >> \o << b >> = << a, b >>
<1>1. /\ << a >> \in Seq(HistoryRows) /\ << b >> \in Seq(HistoryRows)
      /\ << a, b >> \in Seq(HistoryRows)
  OBVIOUS
<1>2. Len(<< a >> \o << b >>) = 2 /\ Len(<< a, b >>) = 2
  BY <1>1
<1>3. \A i \in 1..2 : (<< a >> \o << b >>)[i] = << a, b >>[i]
  BY <1>1
<1>4. << a >> \o << b >> \in Seq(HistoryRows)
  BY <1>1
<1>. QED
  BY <1>1, <1>2, <1>3, <1>4, SeqEqual

(* create_ticket makes the rows TicketDesk starts from.                    *)
LEMMA AssignedIs ==
  ASSUME NEW c \in Categories, NEW k \in Kams
  PROVE  /\ RecordStatus([HalfBuiltRow(c) EXCEPT !.assigned_admin_id = k], "assigned_to_kam", 0)
              = AssignedRow(c, k)
         /\ AssignedRow(c, k) \in DeskRows
         /\ CreationHistory(HalfBuiltRow(c)) \o << StatusEntry("assigned_to_kam", "system") >>
              = CreationHistory(AssignedRow(c, k))
<1>1. RecordStatus([HalfBuiltRow(c) EXCEPT !.assigned_admin_id = k], "assigned_to_kam", 0)
        = AssignedRow(c, k)
  BY DEF RecordStatus, HalfBuiltRow, AssignedRow, UnroutedRow
<1>2. HalfBuiltRow(c).status = "submitted" /\ AssignedRow(c, k).status = "assigned_to_kam"
  BY DEF HalfBuiltRow, AssignedRow, UnroutedRow
<1> DEFINE a == StatusEntry("submitted", "system")
           b == StatusEntry("assigned_to_kam", "system")
<1>3. CreationHistory(HalfBuiltRow(c)) = << a >> /\ CreationHistory(AssignedRow(c, k)) = << a, b >>
  BY <1>2 DEF CreationHistory
<1>4. << a >> \o << b >> = << a, b >>
  <2>1. a \in HistoryRows /\ b \in HistoryRows
    BY EntryTypes DEF TicketStatus, Authors
  <2> HIDE DEF a, b
  <2>. QED
    BY <2>1, TwoEntries
<1>. QED
  BY <1>1, <1>3, <1>4 DEF DeskRows

(* A row is its columns.                                                   *)
LEMMA RowsEqual ==
  ASSUME NEW t \in TicketRows, NEW u \in TicketRows,
         t.category = u.category, t.status = u.status,
         t.assigned_admin_id = u.assigned_admin_id, t.assigned_cs_id = u.assigned_cs_id,
         t.kam_notified = u.kam_notified, t.cs_notified = u.cs_notified,
         t.resolved_at = u.resolved_at, t.satisfaction = u.satisfaction, t.rating = u.rating,
         t.escalated_to_kam = u.escalated_to_kam, t.zoho_ticket_id = u.zoho_ticket_id
  PROVE  t = u
BY DEF TicketRows

LEMMA RoutedIs ==
  ASSUME NEW c \in Categories, NEW k \in Kams, NEW p \in Priorities, NEW s \in CSs \cup {None}
  PROVE  Routed(AssignedRow(c, k), s, p) = CreatedRow(c, p, k, s, None)
<1> DEFINE r == routing_for_ticket(c, p)
           t == AssignedRow(c, k)
           w == CreatedRow(c, p, k, s, None)
<1>1. t.category = c
  BY DEF AssignedRow, UnroutedRow
<1>2. r.kam \in BOOLEAN /\ r.cs \in BOOLEAN
  BY RoutingType
<1>3. t \in TicketRows /\ w \in TicketRows
  BY CreatedType
<1>4. /\ t.status = "assigned_to_kam" /\ t.assigned_admin_id = k /\ t.assigned_cs_id = None
      /\ t.resolved_at = None /\ t.satisfaction = None /\ t.rating = None
      /\ t.escalated_to_kam = FALSE /\ t.zoho_ticket_id = None
  BY DEF AssignedRow, UnroutedRow
<1>5. /\ w.category = c /\ w.status = "assigned_to_kam" /\ w.assigned_admin_id = k
      /\ w.assigned_cs_id = s /\ w.kam_notified = r.kam /\ w.cs_notified = r.cs
      /\ w.resolved_at = None /\ w.satisfaction = None /\ w.rating = None
      /\ w.escalated_to_kam = FALSE /\ w.zoho_ticket_id = None
  BY DEF CreatedRow
<1> HIDE DEF r, t, w
<1>6. ASSUME NEW a \in BOOLEAN, NEW b \in BOOLEAN, a = r.kam, b = r.cs
      PROVE  [t EXCEPT !.assigned_cs_id = s, !.kam_notified = a, !.cs_notified = b] = w
  <2> DEFINE u == [t EXCEPT !.assigned_cs_id = s, !.kam_notified = a, !.cs_notified = b]
  <2>1. /\ u \in TicketRows /\ u.category = t.category /\ u.status = t.status
        /\ u.assigned_admin_id = t.assigned_admin_id /\ u.assigned_cs_id = s
        /\ u.kam_notified = a /\ u.cs_notified = b
        /\ u.resolved_at = t.resolved_at /\ u.satisfaction = t.satisfaction
        /\ u.rating = t.rating /\ u.escalated_to_kam = t.escalated_to_kam
        /\ u.zoho_ticket_id = t.zoho_ticket_id
    BY <1>3 DEF TicketRows
  <2> HIDE DEF u
  <2>2. u = w
    <3>1. u.kam_notified = w.kam_notified /\ u.cs_notified = w.cs_notified
      BY Zenon, <1>5, <1>6, <2>1
    <3>2. /\ u.category = w.category /\ u.status = w.status
          /\ u.assigned_admin_id = w.assigned_admin_id /\ u.assigned_cs_id = w.assigned_cs_id
          /\ u.resolved_at = w.resolved_at /\ u.satisfaction = w.satisfaction
          /\ u.rating = w.rating /\ u.escalated_to_kam = w.escalated_to_kam
          /\ u.zoho_ticket_id = w.zoho_ticket_id
      BY <1>1, <1>4, <1>5, <2>1
    <3>. QED
      BY <1>3, <2>1, <3>1, <3>2, RowsEqual
  <2>. QED
    BY <2>2 DEF u
<1>7. (IF s = None THEN t.assigned_cs_id ELSE s) = s
  BY <1>4
<1>8. Routed(t, s, p) = [t EXCEPT !.assigned_cs_id = IF s = None THEN t.assigned_cs_id ELSE s,
                                   !.kam_notified = r.kam, !.cs_notified = r.cs]
  BY Zenon, <1>1 DEF r, Routed
<1>9. [t EXCEPT !.assigned_cs_id = s, !.kam_notified = r.kam, !.cs_notified = r.cs] = w
  BY <1>2, <1>6
<1>10. Routed(t, s, p) = w
  BY Zenon, <1>7, <1>8, <1>9
<1>. QED
  BY <1>10 DEF t, w

LEMMA LinkedIs ==
  ASSUME NEW c \in Categories, NEW k \in Kams, NEW p \in Priorities, NEW s \in CSs \cup {None},
         NEW i \in Ids, NeedsPush(CreatedRow(c, p, k, s, None))
  PROVE  Linked(CreatedRow(c, p, k, s, None), i) = CreatedRow(c, p, k, s, i)
<1> DEFINE t == CreatedRow(c, p, k, s, None)
           w == CreatedRow(c, p, k, s, i)
           u == Linked(t, i)
<1>0. i \in Nat
  BY DEF Ids
<1>1. t \in TicketRows /\ w \in TicketRows
  BY <1>0, CreatedType
<1>2. /\ w.category = t.category /\ w.status = t.status
      /\ w.assigned_admin_id = t.assigned_admin_id /\ w.assigned_cs_id = t.assigned_cs_id
      /\ w.kam_notified = t.kam_notified /\ w.cs_notified = t.cs_notified
      /\ w.resolved_at = t.resolved_at /\ w.satisfaction = t.satisfaction
      /\ w.rating = t.rating /\ w.escalated_to_kam = t.escalated_to_kam
  BY DEF CreatedRow
<1>3. w.zoho_ticket_id = i
  <2>1. t.cs_notified = routing_for_ticket(c, p).cs
    BY DEF CreatedRow
  <2>2. routing_for_ticket(c, p).cs
    BY <2>1 DEF NeedsPush
  <2>. QED
    BY <2>2 DEF CreatedRow
<1>4. /\ u \in TicketRows /\ u.category = t.category /\ u.status = t.status
      /\ u.assigned_admin_id = t.assigned_admin_id /\ u.assigned_cs_id = t.assigned_cs_id
      /\ u.kam_notified = t.kam_notified /\ u.cs_notified = t.cs_notified
      /\ u.resolved_at = t.resolved_at /\ u.satisfaction = t.satisfaction
      /\ u.rating = t.rating /\ u.escalated_to_kam = t.escalated_to_kam
      /\ u.zoho_ticket_id = i
  <2> HIDE DEF t, w
  <2>. QED
    BY <1>0, <1>1 DEF TicketRows, Linked
<1> HIDE DEF t, w, u
<1>5. u = w
  BY <1>1, <1>2, <1>3, <1>4, RowsEqual
<1>. QED
  BY <1>5 DEF t, u, w

LEMMA CreatedIs ==
  ASSUME NEW c \in Categories, NEW k \in Kams, NEW p \in Priorities, NEW s \in CSs \cup {None},
         NEW z \in Ids \cup {None}
  PROVE  /\ CreatedRow(c, p, k, s, z) \in DeskRows
         /\ CreationHistory(CreatedRow(c, p, k, s, z)) = CreationHistory(AssignedRow(c, k))
<1>1. CreatedRow(c, p, k, s, z).status = AssignedRow(c, k).status
  BY DEF CreatedRow, AssignedRow, UnroutedRow
<1>. QED
  BY <1>1 DEF DeskRows, CreationHistory

LEMMA NotBusyStage ==
  ASSUME NEW v \in Visits, ~Busy(v)' PROVE KnownStage(v)'
BY DEF KnownStage, Busy

LEMMA RowsTurn ==
  ASSUME IdsInv, RowsInv, NEW v \in Visits, Turn(v)
  PROVE  RowsInv'
<1>1. CASE StartTurn(v)
  <2>1. [Idle(v) EXCEPT !.pc = "model"].pc = "model"
    BY DEF Idle
  <2>2. Keeps(v) /\ ~Busy(v)' /\ \A w \in Visits \ {v} : turn'[w] = turn[w]
    BY <1>1, <2>1, StartTurnIs, ContinuesIf DEF Building, TurnIs
  <2>. QED
    BY <2>2, KeepsRows, NotBusyStage, RowsStep DEF Keeps
<1>2. CASE EndTurn(v)
  <2>1. [Idle(v) EXCEPT !.link = turn[v].link].pc = "idle"
    BY DEF Idle
  <2>2. Commits(v) /\ ~Busy(v)' /\ \A w \in Visits \ {v} : turn'[w] = turn[w]
    BY <1>2, <2>1, EndTurnIs, ContinuesIf DEF Building, TurnIs
  <2>. QED
    BY <2>2, CommitsRows, NotBusyStage, RowsStep DEF Commits
<1>3. CASE TurnDies(v)
  <2>1. Drops(v) /\ ~Busy(v)' /\ \A w \in Visits \ {v} : turn'[w] = turn[w]
    BY <1>3, TurnDiesIs, IdleType, ContinuesIf DEF Building, TurnIs
  <2>. QED
    BY <2>1, DropsRows, NotBusyStage, RowsStep DEF Drops
<1>4. ASSUME NEW c \in Categories, ModelCreates(v, c) PROVE RowsInv'
  <2>1. /\ Creates(v, c) /\ turn'[v] = [turn[v] EXCEPT !.pc = "kam", !.id = nextId]
        /\ \A w \in Visits \ {v} : turn'[w] = turn[w]
    BY <1>4, ModelCreatesIs DEF TurnIs
  <2>2. turn[v] \in Turns
    BY DEF IdsInv, TypeOK
  <2>3. turn'[v].pc = "kam"
    BY <2>1, <2>2 DEF Turns
  <2>4. RowKept(v) /\ UnderCreation(v)' = HalfBuiltRow(c)
    BY <2>1, CreatesRows
  <2>5. KnownStage(v)'
    BY <2>3, <2>4 DEF KnownStage, StageIsKnown
  <2>. QED
    BY <2>1, <2>4, <2>5, RowsStep DEF Creates
<1>5. CASE ModelReads(v)
  BY <1>5, ModelReadsIs, ToolOver, KeepsRows, NotBusyStage, RowsStep DEF Keeps, TurnIs
<1>6. CASE ModelResolves(v)
  <2>1. Keeps(v) /\ ~Busy(v)' /\ \A w \in Visits \ {v} : turn'[w] = turn[w]
    BY <1>6, ModelResolvesIs, ContinuesIf DEF Building, TurnIs
  <2>. QED
    BY <2>1, KeepsRows, NotBusyStage, RowsStep DEF Keeps
<1>7. ASSUME NEW i \in Ids, ModelListsTickets(v, i) PROVE RowsInv'
  <2>1. CommitsClosing(v, i) /\ ~Busy(v)' /\ \A w \in Visits \ {v} : turn'[w] = turn[w]
    BY <1>7, ModelListsTicketsIs, ToolOver DEF TurnIs
  <2>. QED
    BY <2>1, ClosingRows, NotBusyStage, RowsStep DEF CommitsClosing
<1>. QED
  BY <1>1, <1>2, <1>3, <1>4, <1>5, <1>6, <1>7 DEF Turn

LEMMA RowsOver ==
  ASSUME IdsInv, RowsInv, NEW v \in Visits, Keeps(v),
         TurnIs(v, [turn[v] EXCEPT !.pc = "model", !.calls = @ + 1])
  PROVE  RowsInv'
BY ToolOver, KeepsRows, NotBusyStage, RowsStep DEF Keeps, TurnIs

LEMMA RowsCreation ==
  ASSUME IdsInv, RowsInv, NEW v \in Visits, Creation(v)
  PROVE  RowsInv'
<1>0. KnownStage(v) /\ (Busy(v) => turn[v].id \in Drafted(v) \cup DOMAIN tickets)
  BY UnderCreationType DEF RowsInv
<1>1. ASSUME NEW pool \in {"kam", "cs"}, EndLeave(v, pool) PROVE RowsInv'
  <2>1. Commits(v) /\ turn' = turn /\ Busy(v)
    BY <1>1, EndLeaveIs DEF EndLeave, Busy, Building
  <2>2. /\ RowKept(v)
        /\ \A i \in Drafted(v) \cup DOMAIN tickets :
             Fresh(i)' => Fresh(i) /\ Seen(v, i)' = Seen(v, i)
    BY <2>1, CommitsRows
  <2>3. ASSUME Fresh(turn[v].id)' PROVE Fresh(turn[v].id) /\ UnderCreation(v)' = UnderCreation(v)
    <3>1. ASSUME NEW n, n = turn[v].id PROVE Fresh(n) /\ Seen(v, n)' = Seen(v, n)
      BY <1>0, <2>1, <2>2, <2>3, <3>1
    <3>. QED
      BY <2>1, <3>1 DEF UnderCreation
  <2>4. KnownStage(v)'
    BY <1>0, <2>1, <2>3 DEF KnownStage, StageIsKnown, Busy
  <2>. QED
    BY <2>1, <2>2, <2>4, RowsStep DEF Commits
<1>2. CASE NoKam(v)
  BY <1>2, NoKamIs, RowsOver
<1>3. ASSUME NEW k \in Kams, AssignKam(v, k) PROVE RowsInv'
  <2> DEFINE rows == << StatusEntry("assigned_to_kam", "system") >>
             t == KamAssigned(v, k)
  <2>1. Busy(v) /\ turn[v].pc = "kam" /\ rows \in Seq(HistoryRows)
    BY <1>3, FirstRow DEF AssignKam, Busy, Building, TicketStatus
  <2>2. /\ t.category = UnderCreation(v).category /\ Writes(v, turn[v].id, t, rows)
        /\ TurnIs(v, [turn[v] EXCEPT !.pc = "cs"])
    BY <1>3, AssignKamIs
  <2>3. ASSUME Fresh(turn[v].id)
        PROVE  /\ \E c \in Categories : t = AssignedRow(c, k)
               /\ t \in DeskRows /\ Recorded(v, turn[v].id) \o rows = CreationHistory(t)
    <3>1. PICK c \in Categories : UnderCreation(v) = HalfBuiltRow(c)
      BY <1>0, <2>1, <2>3 DEF KnownStage, StageIsKnown
    <3>2. Recorded(v, turn[v].id) = CreationHistory(HalfBuiltRow(c))
      BY <1>0, <2>1, <2>3, <3>1, FreshSeen DEF UnderCreation
    <3>. QED
      BY <3>1, <3>2, AssignedIs DEF KamAssigned
  <2> HIDE DEF t, rows
  <2>4. turn'[v].pc = "cs" /\ turn'[v].id = turn[v].id
    BY <2>1, <2>2, StepOn
  <2>5. RowKept(v) /\ UnderCreation(v)' = t /\ (Fresh(turn[v].id)' => Fresh(turn[v].id))
    <3>1. ASSUME NEW n, n = turn[v].id
          PROVE  RowKept(v) /\ UnderCreation(v)' = t /\ (Fresh(n)' => Fresh(n))
      BY <2>1, <2>2, <2>3, <2>4, <3>1, WritesRows
    <3>. QED
      BY <2>4, <3>1 DEF Fresh, Untouched
  <2>6. KnownStage(v)'
    BY <2>3, <2>4, <2>5 DEF KnownStage, StageIsKnown
  <2>. QED
    BY <2>2, <2>5, <2>6, RowsStep DEF Writes, TurnIs
<1>4. ASSUME NEW s \in CSs \cup {None}, NEW p \in Priorities, AssignCs(v, s, p) PROVE RowsInv'
  <2> DEFINE t == CsAssigned(v, s, p)
  <2>1. Busy(v) /\ turn[v].pc = "cs" /\ << >> \in Seq(HistoryRows)
    BY <1>4 DEF AssignCs, Busy, Building
  <2>2. /\ t.category = UnderCreation(v).category /\ Writes(v, turn[v].id, t, << >>)
        /\ TurnIs(v, [turn[v] EXCEPT !.pc = "slack"])
    BY <1>4, AssignCsIs DEF SameTicket
  <2>3. ASSUME Fresh(turn[v].id)
        PROVE  /\ \E c \in Categories, k \in Kams : t = CreatedRow(c, p, k, s, None)
               /\ t \in DeskRows /\ Recorded(v, turn[v].id) \o << >> = CreationHistory(t)
    <3>1. PICK c \in Categories, k \in Kams : UnderCreation(v) = AssignedRow(c, k)
      BY <1>0, <2>1, <2>3 DEF KnownStage, StageIsKnown
    <3>2. Recorded(v, turn[v].id) = CreationHistory(AssignedRow(c, k))
      BY <1>0, <2>1, <2>3, <3>1, FreshSeen DEF UnderCreation
    <3>3. t = CreatedRow(c, p, k, s, None)
      BY <3>1, RoutedIs DEF CsAssigned
    <3>4. CreationHistory(AssignedRow(c, k)) \o << >> = CreationHistory(AssignedRow(c, k))
      BY CreationHistoryType
    <3>. QED
      BY <3>2, <3>3, <3>4, CreatedIs
  <2> HIDE DEF t
  <2>4. turn'[v].pc = "slack" /\ turn'[v].id = turn[v].id
    BY <2>1, <2>2, StepOn
  <2>5. RowKept(v) /\ UnderCreation(v)' = t /\ (Fresh(turn[v].id)' => Fresh(turn[v].id))
    <3>1. ASSUME NEW n, n = turn[v].id
          PROVE  RowKept(v) /\ UnderCreation(v)' = t /\ (Fresh(n)' => Fresh(n))
      BY <2>1, <2>2, <2>3, <2>4, <3>1, WritesRows
    <3>. QED
      BY <2>4, <3>1 DEF Fresh, Untouched
  <2>6. KnownStage(v)'
    BY <2>3, <2>4, <2>5 DEF KnownStage, StageIsKnown
  <2>. QED
    BY <2>2, <2>5, <2>6, RowsStep DEF Writes, TurnIs
<1>5. CASE PostSlack(v)
  <2>1. /\ Busy(v) /\ turn[v].pc = "slack" /\ Keeps(v)
        /\ TurnIs(v, [turn[v] EXCEPT !.pc = "zoho"])
    BY <1>5, PostSlackIs DEF PostSlack, Busy, Building
  <2>2. turn'[v].pc = "zoho" /\ turn'[v].id = turn[v].id
    BY <2>1, StepOn
  <2>3. ASSUME NEW n, n = turn[v].id PROVE (Fresh(n)' => Fresh(n)) /\ Seen(v, n)' = Seen(v, n)
    BY <1>0, <2>1, <2>3, KeepsRows, SameRows DEF Keeps
  <2>4. UnderCreation(v)' = UnderCreation(v) /\ (Fresh(turn[v].id)' => Fresh(turn[v].id))
    BY <2>2, <2>3 DEF UnderCreation, Fresh, Untouched
  <2>5. KnownStage(v)'
    BY <1>0, <2>1, <2>2, <2>4 DEF KnownStage, StageIsKnown
  <2>. QED
    BY <2>1, <2>5, KeepsRows, RowsStep DEF Keeps, TurnIs
<1>6. CASE SlackRaises(v)
  BY <1>6, SlackRaisesIs, RowsOver
<1>7. CASE PushZoho(v)
  <2>1. /\ Busy(v) /\ turn[v].pc = "zoho" /\ << >> \in Seq(HistoryRows)
        /\ TurnIs(v, [turn[v] EXCEPT !.pc = "commit"])
    BY <1>7, PushZohoIs DEF PushZoho, Busy, Building
  <2>2. KnownStage(v)'
    BY <2>1, StepOn DEF KnownStage, StageIsKnown
  <2>3. CASE Keeps(v)
    BY <2>1, <2>2, <2>3, KeepsRows, RowsStep DEF Keeps, TurnIs
  <2>4. CASE /\ NeedsPush(UnderCreation(v))
             /\ SameTicket(UnderCreation(v), ZohoLinked(v))
             /\ Writes(v, turn[v].id, ZohoLinked(v), << >>)
    <3> DEFINE t == ZohoLinked(v)
    <3>1. ASSUME Fresh(turn[v].id)
          PROVE  t \in DeskRows /\ Recorded(v, turn[v].id) \o << >> = CreationHistory(t)
      <4>1. PICK c \in Categories, p \in Priorities, k \in Kams, s \in CSs \cup {None} :
              UnderCreation(v) = CreatedRow(c, p, k, s, None)
        BY <1>0, <2>1, <3>1 DEF KnownStage, StageIsKnown
      <4>2. Recorded(v, turn[v].id) = CreationHistory(CreatedRow(c, p, k, s, None))
        BY <1>0, <2>1, <3>1, <4>1, FreshSeen DEF UnderCreation
      <4>3. turn[v].id \in Ids
        BY <2>1, UnderCreationType
      <4>4. t = CreatedRow(c, p, k, s, turn[v].id)
        BY <2>4, <4>1, <4>3, LinkedIs DEF ZohoLinked
      <4>5. CreationHistory(AssignedRow(c, k)) \o << >> = CreationHistory(AssignedRow(c, k))
        BY CreationHistoryType
      <4>. QED
        BY <4>2, <4>3, <4>4, <4>5, CreatedIs
    <3>2. t.category = UnderCreation(v).category
      BY <2>4 DEF SameTicket
    <3> HIDE DEF t
    <3>3. RowKept(v)
      BY <2>1, <2>4, <3>1, <3>2, WritesRows DEF t
    <3>. QED
      BY <2>1, <2>2, <2>4, <3>3, RowsStep DEF Writes, TurnIs
  <2>. QED
    BY <1>7, <2>3, <2>4, PushZohoIs
<1>8. CASE CommitTicket(v)
  <2>1. Busy(v) /\ Commits(v)
    BY <1>8, CommitTicketIs DEF CommitTicket, Busy, Building
  <2>2. PICK pc \in {"call", "link"} : TurnIs(v, [turn[v] EXCEPT !.pc = pc])
    BY <1>8, CommitTicketIs
  <2>3. KnownStage(v)'
    BY <2>1, <2>2, StepOn DEF KnownStage, StageIsKnown
  <2>. QED
    BY <2>1, <2>2, <2>3, CommitsRows, RowsStep DEF Commits, TurnIs
<1>9. CASE PlaceCall(v)
  <2>1. Busy(v) /\ Keeps(v)
    BY <1>9, PlaceCallIs DEF PlaceCall, Busy, Building
  <2>2. CASE TurnIs(v, [turn[v] EXCEPT !.pc = "link"])
    <3>1. KnownStage(v)'
      BY <2>1, <2>2, StepOn DEF KnownStage, StageIsKnown
    <3>. QED
      BY <2>1, <2>2, <3>1, KeepsRows, RowsStep DEF Keeps, TurnIs
  <2>. QED
    BY <1>9, <2>1, <2>2, PlaceCallIs, RowsOver
<1>10. CASE LinkChat(v)
  <2>1. Keeps(v) /\ ~Busy(v)' /\ \A w \in Visits \ {v} : turn'[w] = turn[w]
    BY <1>10, LinkChatIs, ContinuesIf DEF Building, TurnIs
  <2>. QED
    BY <2>1, KeepsRows, NotBusyStage, RowsStep DEF Keeps
<1>. QED
  BY <1>1, <1>2, <1>3, <1>4, <1>5, <1>6, <1>7, <1>8, <1>9, <1>10 DEF Creation

LEMMA RowsDesk ==
  ASSUME IdsInv, RowsInv, NEW i \in Ids, NEW s \in ADMIN_SETTABLE_STATUSES, Desk(i, s)
  PROVE  RowsInv'
<1>1. /\ UNCHANGED <<draft, turn>> /\ DOMAIN tickets' = DOMAIN tickets
      /\ \A j \in DOMAIN tickets \ {i} : tickets'[j] = tickets[j] /\ hist'[j] = hist[j]
      /\ tickets'[i].category = tickets[i].category /\ ~Untouched(i)'
  BY MovedRow DEF Desk, ADMIN_SETTABLE_STATUSES, TicketStatus, Authors
<1>2. ASSUME NEW j, Fresh(j)'
      PROVE  /\ Fresh(j)
             /\ j \in DOMAIN tickets => j # i /\ tickets'[j] = tickets[j] /\ hist'[j] = hist[j]
  BY <1>1, <1>2 DEF Fresh, Untouched
<1>3. UntouchedRowsAreKnown'
  <2> SUFFICES ASSUME NEW j \in DOMAIN tickets', Untouched(j)'
               PROVE  tickets'[j] \in DeskRows /\ hist'[j] = CreationHistory(tickets'[j])
    BY DEF UntouchedRowsAreKnown, Untouched, DeskRows
  <2>1. Untouched(j) /\ tickets'[j] = tickets[j] /\ hist'[j] = hist[j]
    BY <1>1, <1>2 DEF Fresh
  <2>. QED
    BY <1>1, <2>1 DEF RowsInv, UntouchedRowsAreKnown, Untouched
<1>4. ASSUME NEW v \in Visits PROVE KnownDrafts(v)' /\ SameCategory(v)' /\ KnownStage(v)'
  <2>1. KnownDrafts(v) /\ SameCategory(v) /\ KnownStage(v) /\ Drafted(v)' = Drafted(v)
    BY <1>1 DEF RowsInv, Drafted
  <2>2. KnownDrafts(v)'
    <3> SUFFICES ASSUME NEW j \in Drafted(v), Fresh(j)' PROVE DraftIsKnown(v, j)'
      BY <2>1 DEF KnownDrafts
    <3>. QED
      BY <1>1, <1>2, <2>1 DEF KnownDrafts, DraftIsKnown, Recorded
  <2>3. SameCategory(v)'
    BY <1>1, <2>1 DEF SameCategory
  <2>4. KnownStage(v)'
    <3> SUFFICES ASSUME Busy(v), Fresh(turn[v].id)' PROVE StageIsKnown(v)'
      BY <1>1 DEF KnownStage, Busy
    <3>1. ASSUME NEW n, n = turn[v].id PROVE Fresh(n) /\ Seen(v, n)' = Seen(v, n)
      <4>1. Fresh(n)'
        BY <1>1, <3>1 DEF Fresh, Untouched
      <4>2. n \in Drafted(v) \cup DOMAIN tickets
        BY <3>1, UnderCreationType
      <4>. QED
        BY <1>1, <1>2, <2>1, <4>1, <4>2 DEF Seen
    <3>2. Fresh(turn[v].id) /\ UnderCreation(v)' = UnderCreation(v)
      BY <1>1, <3>1 DEF UnderCreation
    <3>. QED
      BY <1>1, <2>1, <3>2 DEF KnownStage, StageIsKnown
  <2>. QED
    BY <2>2, <2>3, <2>4
<1>. QED
  BY <1>3, <1>4 DEF RowsInv

LEMMA RowsInit == Init => RowsInv
<1> SUFFICES ASSUME Init PROVE RowsInv
  OBVIOUS
<1>1. DOMAIN tickets = {} /\ \A v \in Visits : Drafted(v) = {}
  BY DEF Init, Drafted, NoDraft
<1>2. \A v \in Visits : turn[v].pc = "idle"
  BY IdsInit, IdleType DEF Init
<1>. QED
  BY <1>1, <1>2 DEF RowsInv, UntouchedRowsAreKnown, KnownDrafts, SameCategory, KnownStage, Busy,
                    Building

LEMMA RowsStutter ==
  ASSUME RowsInv, UNCHANGED vars
  PROVE  RowsInv'
<1>1. UntouchedRowsAreKnown'
  BY DEF vars, RowsInv, UntouchedRowsAreKnown
<1>2. ASSUME NEW v \in Visits PROVE KnownDrafts(v)' /\ SameCategory(v)' /\ KnownStage(v)'
  <2>1. KnownDrafts(v) /\ SameCategory(v) /\ KnownStage(v)
    BY DEF RowsInv
  <2>. QED
    BY <2>1 DEF vars, KnownDrafts, SameCategory, KnownStage, DraftIsKnown, StageIsKnown, Fresh,
                Untouched, Recorded, UnderCreation, Seen, Busy, Drafted
<1>. QED
  BY <1>1, <1>2 DEF RowsInv

LEMMA RowsNext == IdsInv /\ RowsInv /\ [Next]_vars => RowsInv'
BY RowsTurn, RowsCreation, DeskMovesIs, RowsDesk, RowsStutter DEF Next

LEMMA RowsAlways == Spec => []RowsInv
BY IdsInit, IdsNext, RowsInit, RowsNext, PTL DEF Spec

(* A committed ticket no admin has touched is half-built, assigned or      *)
(* complete, with the history that goes with it: the mid-way commits and   *)
(* failures of create_ticket leave no other kind of ticket behind.         *)
THEOREM IntakeUntouchedRowsAreKnown == Spec => []UntouchedRowsAreKnown
<1>1. RowsInv => UntouchedRowsAreKnown
  BY DEF RowsInv
<1>. QED
  BY <1>1, RowsAlways, PTL

-----------------------------------------------------------------------------
(* Which tickets are open, when visits do not overlap: OpenInv.            *)

OneVisit == \E v : Visits = {v}

(* Ticket i has never been resolved or closed, as far as the database knows. *)
Open(i) == i \in DOMAIN tickets => OpenSinceRaised(i)

ClosedIsRecorded ==
  \A i \in DOMAIN tickets : tickets[i].status \in TERMINAL_STATUSES => ~Open(i)
DraftIsRecorded(v) ==
  \A i \in Drafted(v) : draft[v][i].mine.status \in TERMINAL_STATUSES => ~Open(i)
OneOpen(v) ==
  \A i, j \in Drafted(v) \cup DOMAIN tickets :
    Open(i) /\ Open(j) /\ Seen(v, i).category = Seen(v, j).category => i = j

OpenInv ==
  /\ ClosedIsRecorded
  /\ \A v \in Visits : DraftIsRecorded(v) /\ OneOpen(v)

LEMMA PrefixOpen ==
  ASSUME NEW s \in Seq(HistoryRows), NEW r \in Seq(HistoryRows),
         \A n \in 1..Len(s \o r) : (s \o r)[n].status \notin TERMINAL_STATUSES
  PROVE  \A n \in 1..Len(s) : s[n].status \notin TERMINAL_STATUSES
<1>1. ASSUME NEW n \in 1..Len(s) PROVE n \in 1..Len(s \o r) /\ (s \o r)[n] = s[n]
  OBVIOUS
<1>. QED
  BY <1>1

LEMMA AppendOpen ==
  ASSUME NEW s \in Seq(HistoryRows), NEW e \in HistoryRows,
         \A n \in 1..Len(Append(s, e)) : Append(s, e)[n].status \notin TERMINAL_STATUSES
  PROVE  /\ e.status \notin TERMINAL_STATUSES
         /\ \A n \in 1..Len(s) : s[n].status \notin TERMINAL_STATUSES
<1>1. Len(s) + 1 \in 1..Len(Append(s, e)) /\ Append(s, e)[Len(s) + 1] = e
  OBVIOUS
<1>2. ASSUME NEW n \in 1..Len(s) PROVE n \in 1..Len(Append(s, e)) /\ Append(s, e)[n] = s[n]
  OBVIOUS
<1>. QED
  BY <1>1, <1>2

(* What is left to show of a step of the one visit that makes no ticket.   *)
LEMMA OpenStep ==
  ASSUME IdsInv, OpenInv, NEW v, Visits = {v},
         Drafted(v)' \cup DOMAIN tickets' \subseteq Drafted(v) \cup DOMAIN tickets,
         \A i \in Drafted(v)' \cup DOMAIN tickets' :
           (Open(i)' => Open(i)) /\ Seen(v, i)'.category = Seen(v, i).category,
         ClosedIsRecorded', DraftIsRecorded(v)'
  PROVE  OpenInv'
<1>1. OneOpen(v)
  BY DEF OpenInv
<1>2. OneOpen(v)'
  <2> SUFFICES ASSUME NEW i \in Drafted(v)' \cup DOMAIN tickets',
                      NEW j \in Drafted(v)' \cup DOMAIN tickets',
                      Open(i)', Open(j)', Seen(v, i)'.category = Seen(v, j)'.category
               PROVE  i = j
    BY DEF OneOpen
  <2>. QED
    BY <1>1 DEF OneOpen
<1>. QED
  BY <1>2 DEF OpenInv

LEMMA SameOpen ==
  ASSUME OpenInv, UNCHANGED <<tickets, hist>>
  PROVE  ClosedIsRecorded' /\ \A i : Open(i)' <=> Open(i)
BY DEF OpenInv, ClosedIsRecorded, Open, OpenSinceRaised

LEMMA SeenRecorded ==
  ASSUME OpenInv, NEW v \in Visits, NEW i \in Drafted(v) \cup DOMAIN tickets,
         Seen(v, i).status \in TERMINAL_STATUSES
  PROVE  ~Open(i)
BY DEF OpenInv, ClosedIsRecorded, DraftIsRecorded, Seen

(* Of the kinds of steps.                                                  *)
LEMMA KeepsOpen ==
  ASSUME IdsInv, RowsInv, OpenInv, NEW v, Visits = {v}, Keeps(v)
  PROVE  OpenInv'
<1>1. /\ \A i \in Drafted(v) : draft'[v][i].mine = draft[v][i].mine
      /\ Drafted(v)' = Drafted(v) /\ UNCHANGED <<tickets, hist>>
  BY DEF Keeps, SameDraft
<1>2. \A i \in Drafted(v) \cup DOMAIN tickets : Seen(v, i)' = Seen(v, i)
  BY KeepsRows
<1>3. DraftIsRecorded(v)'
  BY <1>1, SameOpen DEF OpenInv, DraftIsRecorded
<1>. QED
  BY <1>1, <1>2, <1>3, SameOpen, OpenStep

LEMMA WritesOpen ==
  ASSUME IdsInv, RowsInv, OpenInv, NEW v, Visits = {v}, Busy(v), NEW n, n = turn[v].id,
         NEW t, NEW rows, Writes(v, n, t, rows),
         t.category = UnderCreation(v).category,
         t.status \in TERMINAL_STATUSES => t.status = UnderCreation(v).status
  PROVE  OpenInv'
<1>1. /\ n \in Drafted(v) \cup DOMAIN tickets
      /\ Drafted(v)' = Drafted(v) \cup {n} /\ UNCHANGED <<tickets, hist>>
  BY UnderCreationType DEF Writes
<1>2. Seen(v, n)' = t /\ draft'[v][n].mine = t
  BY DEF Writes, Seen
<1>3. \A i \in (Drafted(v) \cup DOMAIN tickets) \ {n} : Seen(v, i)' = Seen(v, i)
  BY DEF Writes, Seen
<1>4. \A i \in Drafted(v) \cup DOMAIN tickets : Seen(v, i)'.category = Seen(v, i).category
  BY <1>2, <1>3 DEF UnderCreation
<1>5. DraftIsRecorded(v)'
  <2> SUFFICES ASSUME NEW i \in Drafted(v)', draft'[v][i].mine.status \in TERMINAL_STATUSES
               PROVE  ~Open(i)
    BY <1>1, SameOpen DEF DraftIsRecorded
  <2>1. CASE i = n
    BY <1>1, <1>2, <2>1, SeenRecorded DEF UnderCreation
  <2>2. CASE i # n
    BY <1>1, <2>2 DEF OpenInv, DraftIsRecorded, Writes
  <2>. QED
    BY <2>1, <2>2
<1>. QED
  BY <1>1, <1>4, <1>5, SameOpen, OpenStep

LEMMA DropsOpen ==
  ASSUME IdsInv, RowsInv, OpenInv, NEW v, Visits = {v}, Drops(v)
  PROVE  OpenInv'
<1>1. Drafted(v)' = {} /\ UNCHANGED <<tickets, hist>>
  BY DEF Drops
<1>2. ASSUME NEW i \in DOMAIN tickets PROVE Seen(v, i)'.category = Seen(v, i).category
  BY <1>1 DEF Seen, RowsInv, SameCategory
<1>3. DraftIsRecorded(v)'
  BY <1>1 DEF DraftIsRecorded
<1>. QED
  BY <1>1, <1>2, <1>3, SameOpen, OpenStep

LEMMA WrittenOpen ==
  ASSUME IdsInv, RowsInv, OpenInv, NEW v, Visits = {v},
         NEW i \in Drafted(v) \cup DOMAIN tickets, i \in DOMAIN tickets',
         tickets'[i] = Written(v, i), hist'[i] = Recorded(v, i)
  PROVE  /\ Open(i)' => Open(i)
         /\ tickets'[i].category = Seen(v, i).category
         /\ tickets'[i].status \in TERMINAL_STATUSES => ~Open(i)'
<1>1. Open(i)' => Open(i)
  <2> SUFFICES ASSUME i \in DOMAIN tickets, OpenSinceRaised(i)' PROVE OpenSinceRaised(i)
    BY DEF Open
  <2>1. CASE i \notin Drafted(v)
    BY <2>1 DEF Recorded, OpenSinceRaised
  <2>2. CASE i \in Drafted(v)
    <3>1. hist[i] \in Seq(HistoryRows) /\ draft[v][i].rows \in Seq(HistoryRows)
      BY <2>2, CommittedTypes, DraftedTypes
    <3>2. hist'[i] = hist[i] \o draft[v][i].rows
      BY <2>2 DEF Recorded
    <3>3. \A n \in 1..Len(hist[i] \o draft[v][i].rows) :
            (hist[i] \o draft[v][i].rows)[n].status \notin TERMINAL_STATUSES
      BY <3>2 DEF OpenSinceRaised
    <3>. QED
      BY <3>1, <3>3, PrefixOpen DEF OpenSinceRaised
  <2>. QED
    BY <2>1, <2>2
<1>2. tickets'[i].category = Seen(v, i).category
  BY DEF Written, Seen, Merge, RowsInv, SameCategory
<1>3. tickets'[i].status \in TERMINAL_STATUSES => ~Open(i)
  BY DEF Written, Merge, Pick, OpenInv, ClosedIsRecorded, DraftIsRecorded
<1>. QED
  BY <1>1, <1>2, <1>3

LEMMA CommitsOpen ==
  ASSUME IdsInv, RowsInv, OpenInv, NEW v, Visits = {v}, Commits(v)
  PROVE  OpenInv'
<1>1. Drafted(v)' = {} /\ DOMAIN tickets' = DOMAIN tickets \cup Drafted(v)
  BY DEF Commits
<1>2. \A i \in DOMAIN tickets' :
        /\ Open(i)' => Open(i)
        /\ tickets'[i].category = Seen(v, i).category
        /\ tickets'[i].status \in TERMINAL_STATUSES => ~Open(i)'
  BY <1>1, WrittenOpen DEF Commits
<1>3. \A i \in DOMAIN tickets' : Seen(v, i)' = tickets'[i]
  BY <1>1 DEF Seen
<1>4. ClosedIsRecorded' /\ DraftIsRecorded(v)'
  BY <1>1, <1>2 DEF ClosedIsRecorded, DraftIsRecorded, TERMINAL_STATUSES
<1>. QED
  BY <1>1, <1>2, <1>3, <1>4, OpenStep

LEMMA MovedOpen ==
  ASSUME IdsInv, NEW i \in DOMAIN tickets, NEW s \in TicketStatus, NEW by \in Authors,
         Moved(i, s, by), DOMAIN tickets \subseteq DOMAIN tickets'
  PROVE  /\ Open(i)' => Open(i)
         /\ tickets'[i].category = tickets[i].category
         /\ tickets'[i].status \in TERMINAL_STATUSES => ~Open(i)'
<1>1. tickets'[i].status = s /\ tickets'[i].category = tickets[i].category
  BY CommittedTypes, RecordStatusType, MovedRow DEF Moved
<1>2. hist[i] \in Seq(HistoryRows) /\ StatusEntry(s, by) \in HistoryRows
  BY CommittedTypes, EntryTypes
<1>3. OpenSinceRaised(i)' => s \notin TERMINAL_STATUSES /\ OpenSinceRaised(i)
  BY <1>2, AppendOpen, EntryIs DEF Moved, OpenSinceRaised
<1>. QED
  BY <1>1, <1>3 DEF Open

LEMMA ClosingOpen ==
  ASSUME IdsInv, RowsInv, OpenInv, NEW v, Visits = {v}, NEW i \in Ids, CommitsClosing(v, i)
  PROVE  OpenInv'
<1>1. /\ Drafted(v)' = {} /\ DOMAIN tickets' = DOMAIN tickets \cup Drafted(v)
      /\ i \in DOMAIN tickets \ Drafted(v)
  BY DEF CommitsClosing
<1>2. \A j \in DOMAIN tickets' \ {i} :
        /\ Open(j)' => Open(j)
        /\ tickets'[j].category = Seen(v, j).category
        /\ tickets'[j].status \in TERMINAL_STATUSES => ~Open(j)'
  BY <1>1, WrittenOpen DEF CommitsClosing
<1>3. /\ Open(i)' => Open(i)
      /\ tickets'[i].category = Seen(v, i).category
      /\ tickets'[i].status \in TERMINAL_STATUSES => ~Open(i)'
  BY <1>1, MovedOpen DEF CommitsClosing, TicketStatus, Authors, Seen
<1>4. \A j \in DOMAIN tickets' : Seen(v, j)' = tickets'[j]
  BY <1>1 DEF Seen
<1>5. ClosedIsRecorded' /\ DraftIsRecorded(v)'
  BY <1>1, <1>2, <1>3 DEF ClosedIsRecorded, DraftIsRecorded, TERMINAL_STATUSES
<1>. QED
  BY <1>1, <1>2, <1>3, <1>4, <1>5, OpenStep

LEMMA CreatesOpen ==
  ASSUME IdsInv, RowsInv, OpenInv, NEW v, Visits = {v}, NEW c \in Categories,
         Creates(v, c), ~Active(v, c)
  PROVE  OpenInv'
<1>1. /\ nextId \notin DOMAIN tickets /\ nextId \notin Drafted(v)
      /\ UNCHANGED <<tickets, hist>> /\ Drafted(v)' = Drafted(v) \cup {nextId}
  BY DEF IdsInv, TypeOK, Creates
<1>2. \A i \in Drafted(v) \cup DOMAIN tickets : Seen(v, i)' = Seen(v, i)
  BY <1>1 DEF Creates, Seen
<1>3. ASSUME NEW i, i = nextId PROVE Seen(v, i)' = HalfBuiltRow(c)
  BY <1>1, <1>3 DEF Creates, Seen
<1>4. HalfBuiltRow(c).category = c /\ HalfBuiltRow(c).status \notin TERMINAL_STATUSES
  BY DEF HalfBuiltRow, UnroutedRow, TERMINAL_STATUSES
<1>5. ASSUME NEW i \in Drafted(v) \cup DOMAIN tickets, Seen(v, i).category = c PROVE ~Open(i)
  <2>1. Queried(v, i).category = c
    BY <1>5 DEF Queried, Seen, RowsInv, SameCategory
  <2>2. Queried(v, i).status \in TERMINAL_STATUSES
    BY <2>1 DEF Active
  <2>. QED
    BY <2>2 DEF Queried, OpenInv, ClosedIsRecorded, DraftIsRecorded
<1>6. OneOpen(v)'
  <2> SUFFICES ASSUME NEW i \in Drafted(v)' \cup DOMAIN tickets',
                      NEW j \in Drafted(v)' \cup DOMAIN tickets',
                      Open(i), Open(j), Seen(v, i)'.category = Seen(v, j)'.category
               PROVE  i = j
    BY <1>1, SameOpen DEF OneOpen
  <2>1. CASE i # nextId /\ j # nextId
    BY <1>1, <1>2, <2>1 DEF OpenInv, OneOpen
  <2>2. CASE i = nextId /\ j # nextId
    BY <1>1, <1>2, <1>3, <1>4, <1>5, <2>2
  <2>3. CASE i # nextId /\ j = nextId
    BY <1>1, <1>2, <1>3, <1>4, <1>5, <2>3
  <2>. QED
    BY <2>1, <2>2, <2>3
<1>7. DraftIsRecorded(v)'
  BY <1>1, <1>4, SameOpen DEF OpenInv, DraftIsRecorded, Creates
<1>. QED
  BY <1>1, <1>6, <1>7, SameOpen DEF OpenInv

LEMMA OpenTurn ==
  ASSUME IdsInv, RowsInv, OpenInv, NEW v, Visits = {v}, Turn(v)
  PROVE  OpenInv'
<1>1. CASE StartTurn(v)
  BY <1>1, StartTurnIs, KeepsOpen
<1>2. CASE EndTurn(v)
  BY <1>2, EndTurnIs, CommitsOpen
<1>3. CASE TurnDies(v)
  BY <1>3, TurnDiesIs, DropsOpen
<1>4. ASSUME NEW c \in Categories, ModelCreates(v, c) PROVE OpenInv'
  BY <1>4, ModelCreatesIs, CreatesOpen DEF ModelCreates
<1>5. CASE ModelReads(v)
  BY <1>5, ModelReadsIs, KeepsOpen
<1>6. CASE ModelResolves(v)
  BY <1>6, ModelResolvesIs, KeepsOpen
<1>7. ASSUME NEW i \in Ids, ModelListsTickets(v, i) PROVE OpenInv'
  BY <1>7, ModelListsTicketsIs, ClosingOpen
<1>. QED
  BY <1>1, <1>2, <1>3, <1>4, <1>5, <1>6, <1>7 DEF Turn

LEMMA OpenCreation ==
  ASSUME IdsInv, RowsInv, OpenInv, NEW v, Visits = {v}, Creation(v)
  PROVE  OpenInv'
<1>1. ASSUME NEW pool \in {"kam", "cs"}, EndLeave(v, pool) PROVE OpenInv'
  BY <1>1, EndLeaveIs, CommitsOpen
<1>2. CASE NoKam(v)
  BY <1>2, NoKamIs, KeepsOpen
<1>3. ASSUME NEW k \in Kams, AssignKam(v, k) PROVE OpenInv'
  <2>1. Busy(v)
    BY <1>3 DEF AssignKam, Busy, Building
  <2>2. /\ KamAssigned(v, k).category = UnderCreation(v).category
        /\ KamAssigned(v, k).status \notin TERMINAL_STATUSES
        /\ Writes(v, turn[v].id, KamAssigned(v, k), << StatusEntry("assigned_to_kam", "system") >>)
    BY <1>3, AssignKamIs DEF TERMINAL_STATUSES
  <2>. QED
    BY <2>1, <2>2, WritesOpen
<1>4. ASSUME NEW s \in CSs \cup {None}, NEW p \in Priorities, AssignCs(v, s, p) PROVE OpenInv'
  <2>1. Busy(v)
    BY <1>4 DEF AssignCs, Busy, Building
  <2>2. /\ CsAssigned(v, s, p).category = UnderCreation(v).category
        /\ CsAssigned(v, s, p).status = UnderCreation(v).status
        /\ Writes(v, turn[v].id, CsAssigned(v, s, p), << >>)
    BY <1>4, AssignCsIs DEF SameTicket
  <2>. QED
    BY <2>1, <2>2, WritesOpen
<1>5. CASE PostSlack(v)
  BY <1>5, PostSlackIs, KeepsOpen
<1>6. CASE SlackRaises(v)
  BY <1>6, SlackRaisesIs, KeepsOpen
<1>7. CASE PushZoho(v)
  <2>1. Busy(v)
    BY <1>7 DEF PushZoho, Busy, Building
  <2>2. CASE Keeps(v)
    BY <2>2, KeepsOpen
  <2>3. CASE /\ SameTicket(UnderCreation(v), ZohoLinked(v))
             /\ Writes(v, turn[v].id, ZohoLinked(v), << >>)
    <3>1. /\ ZohoLinked(v).category = UnderCreation(v).category
          /\ ZohoLinked(v).status = UnderCreation(v).status
      BY <2>3 DEF SameTicket
    <3>. QED
      BY <2>1, <2>3, <3>1, WritesOpen
  <2>. QED
    BY <1>7, <2>2, <2>3, PushZohoIs
<1>8. CASE CommitTicket(v)
  BY <1>8, CommitTicketIs, CommitsOpen
<1>9. CASE PlaceCall(v)
  BY <1>9, PlaceCallIs, KeepsOpen
<1>10. CASE LinkChat(v)
  BY <1>10, LinkChatIs, KeepsOpen
<1>. QED
  BY <1>1, <1>2, <1>3, <1>4, <1>5, <1>6, <1>7, <1>8, <1>9, <1>10 DEF Creation

LEMMA OpenDesk ==
  ASSUME IdsInv, RowsInv, OpenInv, NEW v, Visits = {v},
         NEW i \in Ids, NEW s \in ADMIN_SETTABLE_STATUSES, Desk(i, s)
  PROVE  OpenInv'
<1>1. /\ UNCHANGED draft /\ DOMAIN tickets' = DOMAIN tickets /\ i \in DOMAIN tickets
      /\ Drafted(v)' = Drafted(v)
      /\ \A j \in DOMAIN tickets \ {i} : tickets'[j] = tickets[j] /\ hist'[j] = hist[j]
  BY DEF Desk, Drafted
<1>2. /\ Open(i)' => Open(i)
      /\ tickets'[i].category = tickets[i].category
      /\ tickets'[i].status \in TERMINAL_STATUSES => ~Open(i)'
  BY <1>1, MovedOpen DEF Desk, ADMIN_SETTABLE_STATUSES, TicketStatus, Authors
<1>3. \A j : Open(j)' => Open(j)
  BY <1>1, <1>2 DEF Open, OpenSinceRaised
<1>4. \A j \in Drafted(v) \cup DOMAIN tickets : Seen(v, j)'.category = Seen(v, j).category
  BY <1>1, <1>2 DEF Seen
<1>5. ClosedIsRecorded'
  <2> SUFFICES ASSUME NEW j \in DOMAIN tickets, tickets'[j].status \in TERMINAL_STATUSES
               PROVE  ~Open(j)'
    BY <1>1 DEF ClosedIsRecorded
  <2>. QED
    BY <1>1, <1>2, <1>3 DEF OpenInv, ClosedIsRecorded
<1>6. DraftIsRecorded(v)'
  BY <1>1, <1>3 DEF OpenInv, DraftIsRecorded
<1>. QED
  BY <1>1, <1>3, <1>4, <1>5, <1>6, OpenStep

LEMMA OpenInit == Init => OpenInv
<1> SUFFICES ASSUME Init PROVE OpenInv
  OBVIOUS
<1>1. DOMAIN tickets = {} /\ \A v \in Visits : Drafted(v) = {}
  BY DEF Init, Drafted, NoDraft
<1>. QED
  BY <1>1 DEF OpenInv, ClosedIsRecorded, DraftIsRecorded, OneOpen

LEMMA OpenStutter ==
  ASSUME OpenInv, UNCHANGED vars
  PROVE  OpenInv'
BY DEF vars, OpenInv, ClosedIsRecorded, DraftIsRecorded, OneOpen, Open, OpenSinceRaised, Seen,
       Drafted

LEMMA OpenNext == OneVisit /\ IdsInv /\ RowsInv /\ OpenInv /\ [Next]_vars => OpenInv'
BY OpenTurn, OpenCreation, DeskMovesIs, OpenDesk, OpenStutter DEF Next, OneVisit

LEMMA AtMostOne ==
  ASSUME NEW S, \A i, j \in S : i = j
  PROVE  Cardinality(S) <= 1
<1>1. CASE S = {}
  BY <1>1, FS_EmptySet
<1>2. CASE S # {}
  <2>1. PICK i \in S : TRUE
    BY <1>2
  <2>2. S = {i}
    BY <2>1
  <2>3. Cardinality({i}) = 1
    BY FS_Singleton
  <2>. QED
    BY <2>2, <2>3
<1>. QED
  BY <1>1, <1>2

(* While the astrologer's turns do not overlap, no ticket is raised while  *)
(* an earlier one of its category has never been resolved or closed, failed *)
(* and killed creations included.                                          *)
THEOREM IntakeNoSecondWhileOpen ==
  ASSUME OneVisit
  PROVE  Spec => []NoSecondWhileOpen
<1>1. IdsInv /\ RowsInv /\ OpenInv => NoSecondWhileOpen
  <2> SUFFICES ASSUME RowsInv, OpenInv, NEW c \in Categories
               PROVE  Cardinality({i \in DOMAIN tickets :
                         tickets[i].category = c /\ OpenSinceRaised(i)}) <= 1
    BY DEF NoSecondWhileOpen
  <2>1. PICK v : Visits = {v}
    BY DEF OneVisit
  <2>2. \A i \in DOMAIN tickets : Seen(v, i).category = tickets[i].category
    BY <2>1 DEF RowsInv, SameCategory, Seen
  <2> DEFINE S == {i \in DOMAIN tickets : tickets[i].category = c /\ OpenSinceRaised(i)}
  <2>3. \A i, j \in S : i = j
    BY <2>1, <2>2 DEF OpenInv, OneOpen, Open
  <2> HIDE DEF S
  <2>4. Cardinality(S) <= 1
    BY <2>3, AtMostOne
  <2>. QED
    BY <2>4 DEF S
<1>2. IdsInv /\ RowsInv /\ OpenInv /\ [Next]_vars => OpenInv'
  BY OpenNext
<1>. QED
  BY <1>1, <1>2, IdsInit, IdsNext, RowsInit, RowsNext, OpenInit, PTL DEF Spec
=============================================================================
