----------------------------- MODULE SheetSync -----------------------------
(***************************************************************************)
(* sheets_sync_service: what the ops team keeps in Google Sheets and in an *)
(* analytics query is copied into the database, step by step, each step a  *)
(* transaction of its own; experts who appear for the first time get an    *)
(* astrologer row and a KAM.  The daily cron and the "sync now" button may *)
(* overlap.  The payout step also finds the newest cycle's tab, and        *)
(* payout_client answers from what the step left.                          *)
(*                                                                         *)
(* The content of a row is abstracted to its edition, the number of times  *)
(* ops has written it; a payout row is abstracted to the tab it came from  *)
(* (its column cycle_tab).  A day is a number, a year has YearDays of them.*)
(***************************************************************************)
EXTENDS Integers, FiniteSets, Sequences

CONSTANTS Syncs,          \* calls of sync_all, which may overlap
          Experts,        \* expert ids
          ListedAtStart,  \* the experts in the sheets in the beginning
          UserOf,         \* the platform user of each expert, in the analytics query
          Blank,          \* for each of Cells, the editions of rows in which it is empty
          Frozen,         \* the experts with a language in the retired queue_performance sheet
          Kams,           \* the KAMs that ops has
          SpeakersFor,    \* the KAMs who serve the language of each expert
          RowsOf,         \* the experts in each payout cycle's tab, by the cycle's date
          Cycles,         \* the dates of payout cycles
          Copies,         \* the numbers behind the dates
          OldCycles,      \* those whose tabs are there in the beginning
          PAYOUT_CYCLE_TAB,  \* the tab named in the settings
          Days, FirstDay, \* the days on which somebody looks
          Plans,          \* the parts of _SYNC_STEPS that an instance looks at, in its order
          MaxEdits, MaxFaults,
          None

YearDays == 365
PAYOUT_CYCLE_DAYS == 14
CANONICAL_CYCLE_NUMBER == 1

\* A payout tab: the date in its title and the number behind it ("Aug 14 - 2"), 0 for none.
Tabs == [date : Cycles, copy : Copies]

\* The sheets that are copied row by row, and the columns of the astrologer row.
Mirrors == {"roster", "kyc", "expert_priority"}
Columns == Mirrors \cup {"payout_status", "expert_id", "user_id", "phone", "language", "assigned_admin_id"}
SYNC_STEPS == <<"roster", "kyc", "payout_status", "expert_priority",
                "provisioned_astrologers", "astrologer_profiles">>
Steps == {SYNC_STEPS[i] : i \in DOMAIN SYNC_STEPS}

\* The cells that reach the astrologer row, and the sheet of each.
Cells == {"phone", "language", "user_id"}
SheetOf == [phone |-> "roster", language |-> "expert_priority", user_id |-> "expert_priority"]
FrozenLanguage == 0

ASSUME CycleAssumption == /\ Cycles \subseteq Nat
                          /\ Copies \subseteq Nat /\ CANONICAL_CYCLE_NUMBER \in Copies
                          /\ OldCycles \subseteq Cycles /\ OldCycles # {}
                          /\ PAYOUT_CYCLE_TAB \in Tabs
                          /\ RowsOf \in [Cycles -> SUBSET Experts]
ASSUME DayAssumption == /\ Days \subseteq Nat /\ FirstDay \in Days
                        /\ \A d \in Days : d >= YearDays
                        /\ \A c \in OldCycles : c <= FirstDay + 3
ASSUME ExpertAssumption == /\ ListedAtStart \subseteq Experts
                           /\ Blank \in [Cells -> SUBSET (Experts \X Nat)]
                           /\ Frozen \subseteq Experts
                           /\ SpeakersFor \in [Experts -> SUBSET Kams]
ASSUME PlanAssumption == /\ Plans \subseteq Seq(Steps)
                         /\ <<>> \notin Plans
                         /\ \A p \in Plans : \A i, j \in DOMAIN p : p[i] = p[j] => i = j
ASSUME NoneAssumption == None \notin Kams \cup Experts \cup Tabs /\ None \notin Nat
ASSUME SyncBounds == MaxEdits \in Nat /\ MaxFaults \in Nat

VARIABLES sheet,   \* the edition of each expert's row in each sheet, 0 if there is none
          tabs,    \* the tabs of the payout spreadsheet
          kams,    \* the KAMs who are active and not on leave
          today,
          edits, faults,
          db,      \* the committed columns of each expert, None where there is no row or value
          info,    \* the committed columns of payout_cycle_info, None in all if there is no row
          steps,   \* the plan of this instance
          call     \* the calls of sync_all, each with its session
ops == <<sheet, tabs, kams, today, edits>>
vars == <<ops, faults, db, info, steps, call>>

InfoColumns == {"latest_cycle_tab", "latest_cycle_date", "next_payout_date"}
NoInfo == [k \in InfoColumns |-> None]

\* What a session has changed and not committed; no column is ever emptied.
NoRows == [e \in Experts |-> None]
NoWrites == [c \in Columns |-> NoRows]
NoStep == [step |-> "none", ok |-> TRUE, cause |-> "none"]

\* A call that does not run.  The local variables of a step: read, what the source said; cycle,
\* the payout cycle found; todo and seen, the candidates left and found; pool, the KAMs found;
\* rows, the copied rows that were loaded with them; fresh and newInfo, the rows that the flush
\* inserts.  Of the session: pend, pendInfo and broken.
Resting == [pc |-> "idle", at |-> 1, read |-> NoRows, cycle |-> NoInfo, todo |-> {}, seen |-> {},
            pool |-> {}, rows |-> NoWrites, fresh |-> {}, newInfo |-> FALSE, pend |-> NoWrites,
            pendInfo |-> NoInfo, broken |-> FALSE, last |-> NoStep]

Init ==
  /\ sheet = [m \in Mirrors |-> [e \in Experts |-> IF e \in ListedAtStart THEN 1 ELSE 0]]
  /\ tabs = [date : OldCycles, copy : {CANONICAL_CYCLE_NUMBER}]
  /\ kams = Kams
  /\ today = FirstDay
  /\ edits = 0
  /\ faults = 0
  /\ db = NoWrites
  /\ info = NoInfo
  /\ steps \in Plans
  /\ call = [w \in Syncs |-> Resting]
-----------------------------------------------------------------------------
(* The payout cycle.  A title has no year; _parse_cycle_tab_date finds it.  *)

Abs(n) == IF n < 0 THEN -n ELSE n
MonthDay(d) == d % YearDays

\* The same day of last year, this year and the next.
Candidates(monthDay, now) ==
  {y * YearDays + monthDay : y \in (now \div YearDays - 1)..(now \div YearDays + 1)}

Nearest(pool, now) == CHOOSE d \in pool : \A x \in pool : Abs(d - now) <= Abs(x - now)

Slip_NearestYear(monthDay, now) == Nearest(Candidates(monthDay, now), now)
parse_cycle_tab_date(monthDay, now) ==
  LET notFuture == {d \in Candidates(monthDay, now) : d <= now + 3}
  IN Nearest(IF notFuture # {} THEN notFuture ELSE Candidates(monthDay, now), now)

\* The newest cycle's tab: AstroLokal's own copy ("- 1"), else the lowest number.
Dated(now) == {[tab |-> t, date |-> parse_cycle_tab_date(MonthDay(t.date), now)] : t \in tabs}

latest_payout_cycle(now) ==
  CHOOSE c \in Dated(now) : \A d \in Dated(now) :
    \/ c.date > d.date
    \/ /\ c.date = d.date
       /\ \/ c.tab.copy = CANONICAL_CYCLE_NUMBER
          \/ d.tab.copy # CANONICAL_CYCLE_NUMBER /\ c.tab.copy <= d.tab.copy

\* The first day of the fortnightly grid after the newest cycle that is still to come.
next_payout_date(latest, now) ==
  IF latest + PAYOUT_CYCLE_DAYS > now THEN latest + PAYOUT_CYCLE_DAYS
  ELSE latest + PAYOUT_CYCLE_DAYS * ((now - latest) \div PAYOUT_CYCLE_DAYS + 1)
-----------------------------------------------------------------------------
(* sync_all: each step commits on its own, a failing one is rolled back.    *)

Step(w) == steps[call[w].at]
Planned(step) == \E i \in DOMAIN steps : steps[i] = step

\* A flush that fails rolls the transaction back, and the session refuses any
\* further use until db.rollback().
FlushFailed(c) == [c EXCEPT !.pend = NoWrites, !.pendInfo = NoInfo, !.broken = TRUE]
Slip_KeepsSession(c) == [c EXCEPT !.pend = NoWrites, !.pendInfo = NoInfo]
RolledBack(c) == [c EXCEPT !.pend = NoWrites, !.pendInfo = NoInfo, !.broken = FALSE]

Slip_CountsOn(w, c, ok, cause) ==
  [Resting EXCEPT !.pc = IF c.at = Len(steps) THEN "idle" ELSE "begin", !.at = c.at + 1, !.seen = c.seen,
                  !.last = [step |-> Step(w), ok |-> ok, cause |-> cause]]

\* The end of a step, with the next one or the end of the call to come.
Onward(w, c, ok, cause) ==
  LET over == c.at = Len(steps)
  IN [c EXCEPT !.pc = IF over THEN "idle" ELSE "begin", !.at = IF over THEN 1 ELSE c.at + 1,
               !.read = NoRows, !.cycle = NoInfo, !.todo = {}, !.pool = {}, !.rows = NoWrites, !.fresh = {},
               !.newInfo = FALSE, !.last = [step |-> Step(w), ok |-> ok, cause |-> cause]]

\* The step raises: the rollback, and "error" as its result.
Fail(w, c, cause) ==
  /\ call' = [call EXCEPT ![w] = Onward(w, RolledBack(c), FALSE, cause)]
  /\ UNCHANGED <<db, info>>

\* db.commit(): the changed columns are written, the others keep what the database has.
Succeed(w, c) ==
  /\ db' = [k \in Columns |-> [e \in Experts |->
              IF c.pend[k][e] = None THEN db[k][e] ELSE c.pend[k][e]]]
  /\ info' = [k \in InfoColumns |-> IF c.pendInfo[k] = None THEN info[k] ELSE c.pendInfo[k]]
  /\ call' = [call EXCEPT ![w] =
       Onward(w, [c EXCEPT !.pend = NoWrites, !.pendInfo = NoInfo], TRUE, "none")]

\* The next step of the session: it works only on a session that is not broken.
Goes(w, c) ==
  IF call[w].broken THEN Fail(w, call[w], "session")
  ELSE call' = [call EXCEPT ![w] = c] /\ UNCHANGED <<db, info>>

\* The cron job or the button: a new session.
Start(w) ==
  /\ call[w].pc = "idle"
  /\ call' = [call EXCEPT ![w] = [Resting EXCEPT !.pc = "begin"]]
  /\ UNCHANGED <<ops, faults, db, info, steps>>
-----------------------------------------------------------------------------
(* The steps that copy a sheet.                                             *)

\* read_tab, fetch_csv: the source is read before the table.
FetchMirror(w) ==
  /\ call[w].pc = "begin" /\ Step(w) \in Mirrors
  /\ call' = [call EXCEPT ![w].pc = "fetched", 
       ![w].read = [e \in Experts |-> IF sheet[Step(w)][e] = 0 THEN None ELSE sheet[Step(w)][e]]]
  /\ UNCHANGED <<ops, faults, db, info, steps>>

\* The newest tab, or the one in the settings when the titles cannot be listed.
FetchPayout(w) ==
  /\ call[w].pc = "begin" /\ Step(w) = "payout_status"
  /\ \E listed \in BOOLEAN :
       /\ listed \/ faults < MaxFaults
       /\ faults' = IF listed THEN faults ELSE faults + 1
       /\ \E latest \in {latest_payout_cycle(today)} :
            LET tab == IF listed THEN latest.tab ELSE PAYOUT_CYCLE_TAB
                found == [latest_cycle_tab |-> tab, latest_cycle_date |-> latest.date,
                          next_payout_date |-> next_payout_date(latest.date, today)]
            IN call' = [call EXCEPT ![w].pc = "fetched",
                 ![w].read = [e \in Experts |-> IF e \in RowsOf[tab.date] THEN tab ELSE None],
                 ![w].cycle = IF listed THEN found ELSE NoInfo]
  /\ UNCHANGED <<ops, db, info, steps>>

\* The sheet cannot be read, for all the retries of read_tab; or the query fails.
SourceFails(w) ==
  /\ call[w].pc = "begin" /\ Step(w) \in Mirrors \cup {"payout_status"}
  /\ faults < MaxFaults
  /\ faults' = faults + 1
  /\ Fail(w, call[w], "source")
  /\ UNCHANGED <<ops, steps>>

Absent(column, e) == db[column][e] = None

Slip_InsertsOnly(w) ==
  /\ call[w].pc = "fetched"
  /\ Goes(w, [call[w] EXCEPT !.pc = "commit", !.pend[Step(w)] =
       [e \in Experts |-> IF Absent(Step(w), e) THEN call[w].read[e] ELSE None]])
  /\ UNCHANGED <<ops, faults, steps>>

\* _upsert_many against a snapshot of the table: a row that is not there will be
\* inserted, one that differs updated; a row that is not in the sheet stays.
Upsert(w) ==
  /\ call[w].pc = "fetched"
  /\ LET c == call[w]
         listed == {e \in Experts : c.read[e] # None}
     IN Goes(w, [c EXCEPT !.pc = "commit",
          !.fresh = {e \in listed : Absent(Step(w), e)}, !.newInfo = info = NoInfo,
          !.pend[Step(w)] = [e \in Experts |->
             IF e \in listed /\ c.read[e] # db[Step(w)][e] THEN c.read[e] ELSE None],
          !.pendInfo = [k \in InfoColumns |->
             IF c.cycle # NoInfo /\ c.cycle[k] # info[k] THEN c.cycle[k] ELSE None]])
  /\ UNCHANGED <<ops, faults, steps>>
-----------------------------------------------------------------------------
(* _provision_new_astrologers.                                              *)

Linked(e) == db["expert_id"][e] = e

\* What a cell of the expert's row says, None if there is no row or it is blank.  The language
\* falls back to the one frozen in queue_performance.
Cell(rows, k, e) ==
  LET edition == rows[SheetOf[k]][e]
  IN IF edition = None \/ <<e, edition>> \in Blank[k] THEN None
     ELSE IF k = "user_id" THEN UserOf[e] ELSE edition
Fresh(rows, k, e) ==
  IF k = "language" /\ e \in Frozen /\ Cell(rows, k, e) = None THEN FrozenLanguage ELSE Cell(rows, k, e)

Slip_RosteredOnly(w) ==
  /\ call[w].pc = "begin" /\ Step(w) = "provisioned_astrologers"
  /\ LET found == {e \in Experts : ~Absent("expert_priority", e) /\ ~Absent("roster", e) /\ ~Linked(e)}
     IN Goes(w, [call[w] EXCEPT !.seen = found, !.todo = found, !.pool = kams,
                                !.rows = [NoWrites EXCEPT !["roster"] = db["roster"]],
                                !.pc = IF found = {} THEN "commit" ELSE "insert"])
  /\ UNCHANGED <<ops, faults, steps>>

\* Whoever is in the priority table and is linked to no astrologer, in the roster or not; without
\* a KAM the whole step raises before it has written anything.  fetch_active_kams ends the leaves
\* that are over and commits: nothing is pending yet, but the priority rows that are loaded then
\* expire (expire_on_commit); the roster is loaded afterwards.
SelectCandidates(w) ==
  /\ call[w].pc = "begin" /\ Step(w) = "provisioned_astrologers"
  /\ LET found == {e \in Experts : ~Absent("expert_priority", e) /\ ~Linked(e)}
         c == [call[w] EXCEPT !.seen = found, !.todo = found]
     IN IF found = {} THEN Goes(w, [c EXCEPT !.pc = "commit"])
        ELSE IF kams = {} THEN Fail(w, c, "kams")
        ELSE \E kept \in {{"roster"}, {"roster", "expert_priority"}} :
               Goes(w, [c EXCEPT !.pc = "insert", !.pool = kams,
                          !.rows = [k \in Columns |-> IF k \in kept THEN db[k] ELSE NoRows]])
  /\ UNCHANGED <<ops, faults, steps>>

\* admin_mapping_client.pick_kam: among those who speak the language, else among all.
pick_kam(pool, e) == IF pool \cap SpeakersFor[e] # {} THEN pool \cap SpeakersFor[e] ELSE pool

\* The copied rows as the session has them: those that have expired are read when they are used.
Seen(c) == [k \in Columns |-> IF k = "expert_priority" /\ c.rows[k] = NoRows THEN db[k] ELSE c.rows[k]]

\* The new row of an expert; a phone or language of None stands for the code's default.
NewRow(c, e, kam) == [expert_id |-> e, user_id |-> Fresh(Seen(c), "user_id", e),
                      phone |-> Fresh(Seen(c), "phone", e),
                      language |-> Fresh(Seen(c), "language", e), assigned_admin_id |-> kam]
Inserted(c, e, kam) ==
  LET row == NewRow(c, e, kam)
  IN [c EXCEPT !.pc = IF c.todo = {e} THEN "commit" ELSE "insert", !.todo = @ \ {e},
               !.pend = [k \in Columns |-> IF k \in DOMAIN row THEN [c.pend[k] EXCEPT ![e] = row[k]]
                                          ELSE c.pend[k]]]

\* The unique keys expert_id and user_id, against committed rows or those of a session; rows
\* without a user do not clash.
TakenUser(columns, e, user) ==
  user # None /\ \E f \in Experts \ {e} : columns["user_id"][f] = user
Clashes(columns, e, user) == columns["expert_id"][e] = e \/ TakenUser(columns, e, user)

\* A key that another session has inserted and not committed makes a flush wait.
Inserts(v) == call[v].pc \in {"insert", "commit"} /\ Step(v) = "provisioned_astrologers"
Waits(w, e, user) == \E v \in Syncs \ {w} : Inserts(v) /\ Clashes(call[v].pend, e, user)
UserFor(w, e) == Fresh(Seen(call[w]), "user_id", e)

Slip_CommitsEach(w) ==
  /\ call[w].pc = "insert"
  /\ \E e \in call[w].todo : \E kam \in pick_kam(call[w].pool, e) :
       LET c == Inserted(call[w], e, kam)
       IN /\ ~Waits(w, e, UserFor(w, e)) /\ ~Clashes(db, e, UserFor(w, e))
          /\ db' = [k \in Columns |-> [db[k] EXCEPT ![e] = IF c.pend[k][e] = None THEN @ ELSE c.pend[k][e]]]
          /\ call' = [call EXCEPT ![w] = [c EXCEPT !.pend = NoWrites]]
  /\ UNCHANGED <<ops, faults, info, steps>>

Slip_RollsBackAndGoesOn(w) ==
  /\ call[w].pc = "insert"
  /\ \E e \in call[w].todo, kam \in Kams :
       LET c == Inserted(call[w], e, kam)
       IN /\ ~Waits(w, e, UserFor(w, e))
          /\ Goes(w, IF Clashes(db, e, UserFor(w, e)) THEN RolledBack(c) ELSE c)
  /\ UNCHANGED <<ops, faults, steps>>

\* The pending row is flushed by begin_nested() itself, before there is a savepoint: when it
\* clashes, the transaction of the whole step is gone, and the handler, which
\* expunges an object that the session no longer has, raises.
InsertCandidate(w) ==
  /\ call[w].pc = "insert"
  /\ \E e \in call[w].todo :
       /\ ~Waits(w, e, UserFor(w, e))
       /\ LET c == call[w]
          IN IF Clashes(db, e, UserFor(w, e)) \/ Clashes(c.pend, e, UserFor(w, e))
             THEN Fail(w, FlushFailed(c), "collision")
             ELSE \E kam \in pick_kam(c.pool, e) : Goes(w, Inserted(c, e, kam))
  /\ UNCHANGED <<ops, faults, steps>>

\* Two sessions that wait for each other: the database makes one of them fail, with an
\* error that the handler does not catch, and the insert that waited for it goes on.
DeadlockBroken(w) ==
  /\ call[w].pc = "insert"
  /\ \A e \in call[w].todo : Waits(w, e, UserFor(w, e))
  /\ \E v \in Syncs \ {w} : \E e \in call[v].todo : \E kam \in pick_kam(call[v].pool, e) :
       /\ \A f \in call[v].todo : Waits(v, f, UserFor(v, f))
       /\ call' = [call EXCEPT
            ![w] = Onward(w, RolledBack(FlushFailed(call[w])), FALSE, "deadlock"),
            ![v] = Inserted(call[v], e, kam)]
  /\ UNCHANGED <<ops, faults, db, info, steps>>
-----------------------------------------------------------------------------
(* _sync_astrologer_profiles, the commits, and what happens around them.    *)

\* Phone, language and user follow the copied sheets, where those say something.
SyncProfiles(w) ==
  /\ call[w].pc = "begin" /\ Step(w) = "astrologer_profiles"
  /\ LET Changed(k, e) == Linked(e) /\ Fresh(db, k, e) \notin {None, db[k][e]}
     IN Goes(w, [call[w] EXCEPT !.pc = "commit",
          !.pend = [k \in Columns |-> [e \in Experts |->
             IF k \in Cells /\ Changed(k, e) THEN Fresh(db, k, e) ELSE None]]])
  /\ UNCHANGED <<ops, faults, steps>>

\* The flush of a copied sheet fails when somebody has inserted one of its rows meanwhile, that
\* of the profiles when a user that it fills in is another expert's.
Collides(w) ==
  LET pend == call[w].pend
  IN \/ \E e \in call[w].fresh : ~Absent(Step(w), e)
     \/ call[w].cycle # NoInfo /\ call[w].newInfo /\ info # NoInfo
     \/ /\ Step(w) = "astrologer_profiles"
        /\ \E e \in Experts : \/ TakenUser(db, e, pend["user_id"][e])
                              \/ TakenUser(pend, e, pend["user_id"][e])

Commit(w) ==
  /\ call[w].pc = "commit"
  /\ Step(w) = "astrologer_profiles" =>
       ~ \E v \in Syncs \ {w}, e \in Experts :
            Inserts(v) /\ TakenUser(call[v].pend, e, call[w].pend["user_id"][e])
  /\ IF Collides(w) THEN Fail(w, FlushFailed(call[w]), "collision") ELSE Succeed(w, call[w])
  /\ UNCHANGED <<ops, faults, steps>>

\* The process dies, and with it the call.
Dies(w) ==
  /\ call[w].pc # "idle"
  /\ faults < MaxFaults
  /\ faults' = faults + 1
  /\ call' = [call EXCEPT ![w] = Resting]
  /\ UNCHANGED <<ops, db, info, steps>>

\* Ops edits a row of a sheet, or adds one.  (The world changes where the plan looks.)
OpsEdits ==
  /\ edits < MaxEdits
  /\ edits' = edits + 1
  /\ \E m \in Mirrors, e \in Experts : Planned(m) /\ sheet' = [sheet EXCEPT ![m][e] = @ + 1]
  /\ UNCHANGED <<tabs, kams, today, faults, db, info, steps, call>>

\* Ops adds a cycle's tab, up to a few days ahead of its date, or the payment processor's copy.
OpsAddsTab ==
  /\ Planned("payout_status")
  /\ \E t \in Tabs \ tabs : t.date <= today + 3 /\ tabs' = tabs \cup {t}
  /\ UNCHANGED <<sheet, kams, today, edits, faults, db, info, steps, call>>

KamsChange ==
  /\ Planned("provisioned_astrologers")
  /\ \E k \in SUBSET Kams : k # kams /\ kams' = k
  /\ UNCHANGED <<sheet, tabs, today, edits, faults, db, info, steps, call>>

Tick ==
  /\ Planned("payout_status")
  /\ \E d \in Days : d > today /\ today' = d
  /\ UNCHANGED <<sheet, tabs, kams, edits, faults, db, info, steps, call>>

\* What the call itself does next.
Runs(w) ==
  \/ FetchMirror(w)
  \/ FetchPayout(w)
  \/ Upsert(w)
  \/ SelectCandidates(w)
  \/ InsertCandidate(w)
  \/ DeadlockBroken(w)
  \/ SyncProfiles(w)
  \/ Commit(w)

Next ==
  \/ \E w \in Syncs : Start(w) \/ Runs(w) \/ SourceFails(w) \/ Dies(w)
  \/ OpsEdits
  \/ OpsAddsTab
  \/ KamsChange
  \/ Tick

Spec == Init /\ [][Next]_vars

\* The cron runs every day, and a started call goes on.
FairSpec == Spec /\ \A w \in Syncs : WF_vars(Start(w) \/ Runs(w))
-----------------------------------------------------------------------------
Content(column) ==
  CASE column \in Mirrors \cup {"phone"} -> Nat \ {0}
    [] column = "language" -> Nat
    [] column = "payout_status" -> Tabs
    [] column = "expert_id" -> Experts
    [] column = "user_id" -> {UserOf[e] : e \in Experts}
    [] column = "assigned_admin_id" -> Kams
Readings(column) == [Experts -> Content(column) \cup {None}]
TableTypeOK(table) == DOMAIN table = Columns /\ \A k \in Columns : table[k] \in Readings(k)
InfoTypeOK(i) ==
  /\ DOMAIN i = InfoColumns
  /\ i["latest_cycle_tab"] \in Tabs \cup {None}
  /\ \A k \in InfoColumns \ {"latest_cycle_tab"} : i[k] \in Nat \cup {None}
CallTypeOK(c) ==
  /\ c.pc \in {"idle", "begin", "fetched", "insert", "commit"}
  /\ c.at \in DOMAIN steps
  /\ c.read = NoRows \/ c.read \in Readings(steps[c.at])
  /\ c.pc = "idle" => c.read = NoRows /\ c.pend = NoWrites
  /\ c.todo \subseteq c.seen /\ c.seen \subseteq Experts /\ c.fresh \subseteq Experts
  /\ c.pool \subseteq Kams
  /\ c.newInfo \in BOOLEAN /\ c.broken \in BOOLEAN
  /\ TableTypeOK(c.pend) /\ TableTypeOK(c.rows)
  /\ InfoTypeOK(c.cycle) /\ InfoTypeOK(c.pendInfo)
  /\ c.last \in [step : Steps \cup {"none"}, ok : BOOLEAN,
                  cause : {"none", "source", "session", "collision", "deadlock", "kams"}]

TypeOK ==
  /\ sheet \in [Mirrors -> [Experts -> Nat]]
  /\ tabs \subseteq Tabs
  /\ kams \subseteq Kams
  /\ today \in Days
  /\ edits \in 0..MaxEdits /\ faults \in 0..MaxFaults
  /\ TableTypeOK(db) /\ InfoTypeOK(info)
  /\ steps \in Plans
  /\ \A w \in Syncs : CallTypeOK(call[w])

\* A failing step undoes itself and nothing else, and leaves nothing behind: what is committed
\* changes only by a step that reports success (sync_all's docstring, 466-469).
FailedStepWritesNothing ==
  [][<<db, info>>' # <<db, info>> =>
       \E w \in Syncs : call'[w] # call[w] /\ call'[w].last.ok /\ call'[w].last.step = Step(w)]_vars

\* A step does not fail because the one before it did (466).
NoCascade == \A w \in Syncs : call[w].last.cause # "session"

\* A provisioning step that reports success has linked every candidate it found,
\* whichever call inserted the row (306-345).
OkMeansLinked ==
  \A w \in Syncs : call[w].last.step = "provisioned_astrologers" /\ call[w].last.ok =>
    \A e \in call[w].seen : Linked(e)

\* Nobody sees an astrologer without a KAM: row and assignment are one
\* transaction, in spite of the commit inside fetch_active_kams (359, 399-400).
ProvisionedHasKam == \A e \in Experts : Linked(e) => ~Absent("assigned_admin_id", e)

\* The cycle shown to astrologers is one that ops has a tab for, in the right year, and the next
\* payout is a whole number of fortnights after such a cycle, although each call writes only the
\* columns in which it saw a difference, and so two calls may fill one row (85-116, 160-169, 296-301).
PayoutCycleIsReal ==
  info # NoInfo =>
    /\ info["latest_cycle_date"] \in {t.date : t \in tabs}
    /\ \E t \in tabs : /\ info["next_payout_date"] > t.date
                       /\ (info["next_payout_date"] - t.date) % PAYOUT_CYCLE_DAYS = 0

\* No two experts have the same user, which the unique key of astrologers would not allow.
OneUserEach == \A e, f \in Experts : UserOf[e] = UserOf[f] => e = f \/ UserOf[e] = None

\* If no two experts have the same user, every expert in the priority table gets an astrologer
\* row, provided that KAMs stay available: calls that collide make one another fail, but not for
\* ever (306-345).
EveryExpertIsProvisioned ==
  OneUserEach /\ <>[](kams # {}) => <>[](\A e \in Experts : ~Absent("expert_priority", e) => Linked(e))

\* When ops stops editing and no two experts have the same user, the tables and the astrologers'
\* columns come to agree with what the sheets say and stay so, however calls overlap; a blank
\* phone or user changes nothing, a blank language falls back to the frozen one (7-9, 405-422).
SyncConverges ==
  OneUserEach /\ Planned("astrologer_profiles") => <>[](\A e \in Experts :
    /\ \A m \in Mirrors : Planned(m) /\ sheet[m][e] # 0 => db[m][e] = sheet[m][e]
    /\ Linked(e) => \A k \in Cells : Fresh(db, k, e) \in {None, db[k][e]})

\* payout_client.get_payout_status for an astrologer linked to an expert.
get_payout_status(e) ==
  [status |-> IF Absent("payout_status", e) THEN "no_record_this_cycle" ELSE "record",
   scheduled_date |-> info["next_payout_date"]]

\* An expert who is not in the most recently synced cycle's tab is told so.
MissingIsSaidPlainly ==
  info # NoInfo =>
    \A e \in Experts \ RowsOf[info["latest_cycle_tab"].date] :
      get_payout_status(e).status = "no_record_this_cycle"
=============================================================================
