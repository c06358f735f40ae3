-------------------------- MODULE SheetSyncProofs --------------------------
(***************************************************************************)
(* Theorems about SheetSync for any number of overlapping calls, experts,  *)
(* KAMs and tabs, any plan of steps and any bounds.                        *)
(*                                                                         *)
(* One inductive invariant, SyncInv, says what each call holds that has    *)
(* not been committed and what it still owes: CallGood(c, db, p), for a    *)
(* call c with the plan p.  It depends on the database only through the    *)
(* experts who are linked, and nobody is ever unlinked, so what one call   *)
(* commits cannot take away what another has found (CallGoodKept).  A      *)
(* second one, CycleInv, says the same of the payout cycle: CycleGood.     *)
(* The cycle needs CHOOSE to have something to choose: NatMin.             *)
(***************************************************************************)
EXTENDS SheetSync, WellFoundedInduction, TLAPS

\* What a column of some table may hold, and what a column of payout_cycle_info may.
AnyOf == Nat \cup Tabs \cup Experts \cup {UserOf[e] : e \in Experts} \cup Kams \cup {None}
InfoOf == Tabs \cup Nat \cup {None}

PCs == {"idle", "begin", "fetched", "insert", "commit"}
Causes == {"none", "source", "session", "collision", "deadlock", "kams"}
Tables == {d \in [Columns -> [Experts -> AnyOf]] : \A k \in Columns : d[k] \in Readings(k)}
Ends == [step : Steps \cup {"none"}, ok : BOOLEAN, cause : Causes]

CallRecords ==
  [pc : PCs, at : Nat, read : [Experts -> AnyOf], cycle : [InfoColumns -> InfoOf],
   todo : SUBSET Experts, seen : SUBSET Experts, pool : SUBSET Kams, rows : Tables,
   fresh : SUBSET Experts,
   newInfo : BOOLEAN, pend : [Columns -> [Experts -> AnyOf]], pendInfo : [InfoColumns -> InfoOf],
   broken : BOOLEAN, last : Ends]

Provision == "provisioned_astrologers"

\* The rows of an astrologer in a table or in what a session has pending.
RowsWhole(table) ==
  \A e \in Experts :
    /\ table["expert_id"][e] \in {None, e}
    /\ table["expert_id"][e] = e => table["assigned_admin_id"][e] # None

\* Where a call is in its plan p.
PlaceGood(c, p) ==
  /\ c.at \in DOMAIN p
  /\ c.pc = "idle" => c.at = 1
  /\ c.pc # "idle" => c.last.step = IF c.at = 1 THEN "none" ELSE p[c.at - 1]
  /\ c.pc = "fetched" => p[c.at] \in Mirrors \cup {"payout_status"}
  /\ c.pc = "insert" => p[c.at] = Provision

\* What it has in hand.
DataGood(c, p) ==
  /\ c.read = NoRows \/ c.read \in Readings(p[c.at])
  /\ c.pc = "idle" => c.read = NoRows /\ c.pend = NoWrites
  /\ \A k \in Columns : c.pend[k] \in Readings(k)
  /\ InfoTypeOK(c.cycle) /\ InfoTypeOK(c.pendInfo)
  /\ RowsWhole(c.pend)
  /\ c.broken = FALSE /\ c.last.cause # "session"

\* The candidates of a provisioning step: each is still to do, inserted or linked.
LinkGood(c, d, p) ==
  /\ c.todo \subseteq c.seen
  /\ c.todo # {} => c.pc = "insert"
  /\ c.pc \in {"insert", "commit"} /\ p[c.at] = Provision =>
       \A e \in c.seen : e \in c.todo \/ d["expert_id"][e] = e \/ c.pend["expert_id"][e] = e
  /\ c.last.step = Provision /\ c.last.ok = TRUE => \A e \in c.seen : d["expert_id"][e] = e

CallGood(c, d, p) == c \in CallRecords /\ PlaceGood(c, p) /\ DataGood(c, p) /\ LinkGood(c, d, p)

TableGood(d) == /\ d \in [Columns -> [Experts -> AnyOf]]
                /\ \A k \in Columns : d[k] \in Readings(k)
                /\ RowsWhole(d)

WorldGood ==
  /\ sheet \in [Mirrors -> [Experts -> Nat]]
  /\ tabs \subseteq Tabs /\ tabs # {}
  /\ kams \subseteq Kams
  /\ today \in Days
  /\ edits \in 0..MaxEdits /\ faults \in 0..MaxFaults
  /\ info \in [InfoColumns -> InfoOf] /\ InfoTypeOK(info)
  /\ steps \in Plans

SyncInv ==
  /\ WorldGood
  /\ TableGood(db)
  /\ DOMAIN call = Syncs /\ call = [w \in Syncs |-> call[w]]
  /\ \A w \in Syncs : CallGood(call[w], db, steps)
-----------------------------------------------------------------------------
(* The payout cycle.                                                        *)

\* The title of a tab has no year: every tab is of the last twelve months, up to the days that
\* the nearest earlier date and the few days ahead leave.
WithinAYear == \A d \in Days, c \in Cycles : d < c + YearDays - 3

\* A payout date that follows a cycle with a tab among T.
Follows(n, T) == \E t \in T : n > t.date /\ (n - t.date) % PAYOUT_CYCLE_DAYS = 0

\* A row of payout_cycle_info, or what is pending for it.
RowReal(i, T) ==
  /\ i["latest_cycle_date"] \in {t.date : t \in T} \cup {None}
  /\ i["next_payout_date"] # None => Follows(i["next_payout_date"], T)

Filled(i) == \A k \in InfoColumns : i[k] # None

\* A call that has none of it.
CycleEmpty(c) == c.pc \in {"idle", "begin"} /\ c.cycle = NoInfo /\ c.pendInfo = NoInfo

CycleGood(c, i, T) ==
  /\ RowReal(c.cycle, T) /\ RowReal(c.pendInfo, T)
  /\ c.cycle = NoInfo \/ Filled(c.cycle)
  /\ c.pc \notin {"fetched", "commit"} => c.cycle = NoInfo
  /\ c.pc # "commit" \/ c.cycle = NoInfo => c.pendInfo = NoInfo
  /\ c.pc = "commit" /\ c.cycle # NoInfo =>
       IF c.newInfo = TRUE THEN Filled(c.pendInfo) ELSE Filled(i)

CycleInv ==
  /\ \A t \in tabs : t.date <= today + 3
  /\ RowReal(info, tabs) /\ (info = NoInfo \/ Filled(info))
  /\ \A w \in Syncs : CycleGood(call[w], info, tabs)
-----------------------------------------------------------------------------
(* Numbers.                                                                 *)

\* A set of natural numbers that is not empty has a least one.
LEMMA NatMin ==
  ASSUME NEW T, T \subseteq Nat, T # {}
  PROVE  \E x \in T : \A y \in T : x <= y
<1>1. PICK x \in T : \A y \in T : ~ (<<y, x>> \in OpToRel(<, Nat))
  BY NatLessThanWellFounded, WFMin
<1>2. \A y \in T : ~(y < x)
  BY <1>1 DEF OpToRel
<1> QED BY <1>2

\* Nearest chooses one of the days, and none of them is nearer.
LEMMA NearestIsNearest ==
  ASSUME NEW pool, pool \subseteq Int, pool # {}, NEW now \in Int
  PROVE  /\ Nearest(pool, now) \in pool
         /\ \A x \in pool : Abs(Nearest(pool, now) - now) <= Abs(x - now)
<1> DEFINE Far == {Abs(x - now) : x \in pool}
<1>1. \A x \in pool : Abs(x - now) \in Nat
  BY DEF Abs
<1>2. Far \subseteq Nat /\ Far # {}
  BY <1>1
<1> HIDE DEF Far
<1>3. PICK n \in Far : \A m \in Far : n <= m
  BY <1>2, NatMin
<1>4. PICK d \in pool : n = Abs(d - now)
  BY DEF Far
<1>5. \A x \in pool : Abs(d - now) <= Abs(x - now)
  BY <1>3, <1>4 DEF Far
<1> QED BY <1>5 DEF Nearest

\* The parsed date of a title is a day of that month and day, and not after the few days ahead.
LEMMA ParsedIsNotFuture ==
  ASSUME NEW now \in Nat, now >= YearDays, NEW md \in 0..(YearDays - 1)
  PROVE  /\ parse_cycle_tab_date(md, now) \in Nat
         /\ parse_cycle_tab_date(md, now) \in Candidates(md, now)
         /\ parse_cycle_tab_date(md, now) <= now + 3
         /\ \A x \in Candidates(md, now) : x <= now + 3 =>
              Abs(parse_cycle_tab_date(md, now) - now) <= Abs(x - now)
<1> DEFINE past == {d \in Candidates(md, now) : d <= now + 3}
<1> DEFINE y == now \div YearDays - 1
<1>1. y \in Nat /\ y * YearDays + md <= now /\ y \in y..(y + 2)
  BY DEF YearDays
<1>2. Candidates(md, now) \subseteq Nat
  BY <1>1 DEF Candidates, YearDays
<1>3. y * YearDays + md \in past
  BY <1>1 DEF Candidates, YearDays
<1>4. past # {} /\ past \subseteq Int
  BY <1>2, <1>3
<1>5. parse_cycle_tab_date(md, now) = Nearest(past, now)
  BY <1>4 DEF parse_cycle_tab_date
<1> HIDE DEF past
<1>6. now \in Int
  OBVIOUS
<1>7. /\ Nearest(past, now) \in past
      /\ \A x \in past : Abs(Nearest(past, now) - now) <= Abs(x - now)
  BY <1>4, <1>6, NearestIsNearest
<1> QED BY <1>2, <1>5, <1>7 DEF past

\* A tab of the last twelve months is read in the right year.
LEMMA ParsedIsRight ==
  ASSUME NEW now \in Nat, now >= YearDays, NEW d \in Nat, d <= now + 3, now < d + YearDays - 3
  PROVE  parse_cycle_tab_date(MonthDay(d), now) = d
<1> DEFINE md == MonthDay(d)
<1> DEFINE z == parse_cycle_tab_date(md, now)
<1> DEFINE q == now \div YearDays
<1>1. md \in 0..(YearDays - 1) /\ d \div YearDays \in Nat /\ d = (d \div YearDays) * YearDays + md
  BY DEF MonthDay, YearDays
<1>2. q \in Nat /\ q * YearDays <= now /\ now < q * YearDays + YearDays
  BY DEF YearDays
<1>3. d \div YearDays \in (q - 1)..(q + 1)
  BY <1>1, <1>2 DEF YearDays
<1>4. d \in Candidates(md, now)
  BY <1>1, <1>3 DEF Candidates
<1>5. z \in Nat /\ z \in Candidates(md, now) /\ z <= now + 3 /\ Abs(z - now) <= Abs(d - now)
  BY <1>1, <1>4, ParsedIsNotFuture
<1>6. PICK y \in (q - 1)..(q + 1) : z = y * YearDays + md
  BY <1>5 DEF Candidates
<1> DEFINE k == y - d \div YearDays
<1>7. k \in Int /\ z = d + k * YearDays
  BY <1>1, <1>2, <1>6 DEF YearDays
<1> HIDE DEF z, k, md, q
<1>8. ~(k >= 1)
  BY <1>5, <1>7 DEF YearDays
<1>9. ~(k <= -1)
  BY <1>5, <1>7 DEF YearDays, Abs
<1>10. k = 0
  BY <1>7, <1>8, <1>9
<1>11. z = d
  BY <1>7, <1>10 DEF YearDays
<1> QED BY <1>11 DEF z, md

\* The next payout is a whole number of fortnights after the cycle.
LEMMA NextFollows ==
  ASSUME NEW T, NEW t \in T, t.date \in Nat, NEW now \in Nat
  PROVE  /\ next_payout_date(t.date, now) \in Nat
         /\ Follows(next_payout_date(t.date, now), T)
<1> DEFINE d == t.date
<1> DEFINE n == next_payout_date(d, now)
<1>1. n \in Nat /\ n > d /\ (n - d) % PAYOUT_CYCLE_DAYS = 0
  <2>1. CASE d + PAYOUT_CYCLE_DAYS > now
    BY <2>1 DEF next_payout_date, PAYOUT_CYCLE_DAYS
  <2>2. CASE ~(d + PAYOUT_CYCLE_DAYS > now)
    <3> DEFINE q == (now - d) \div PAYOUT_CYCLE_DAYS + 1
    <3>1. q \in Nat /\ q >= 1
      BY <2>2 DEF PAYOUT_CYCLE_DAYS
    <3>2. n = d + PAYOUT_CYCLE_DAYS * q
      BY <2>2 DEF next_payout_date
    <3> HIDE DEF q
    <3>3. n \in Nat /\ n > d /\ n - d = 14 * q
      BY <3>1, <3>2 DEF PAYOUT_CYCLE_DAYS
    <3>4. (14 * q) % 14 = 0
      BY <3>1
    <3> QED BY <3>3, <3>4 DEF PAYOUT_CYCLE_DAYS
  <2> QED BY <2>1, <2>2
<1> QED BY <1>1 DEF Follows

\* There is a newest cycle, and it is one of those in the spreadsheet.
LEMMA LatestIsDated ==
  ASSUME tabs \subseteq Tabs, tabs # {}, NEW now \in Nat, now >= YearDays
  PROVE  \E t \in tabs :
           /\ latest_payout_cycle(now).tab = t
           /\ latest_payout_cycle(now).date = parse_cycle_tab_date(MonthDay(t.date), now)
           /\ latest_payout_cycle(now).date \in Nat
<1> DEFINE Parsed(t) == parse_cycle_tab_date(MonthDay(t.date), now)
<1> DEFINE best(c) == \A d \in Dated(now) :
               \/ c.date > d.date
               \/ /\ c.date = d.date
                  /\ \/ c.tab.copy = CANONICAL_CYCLE_NUMBER
                     \/ d.tab.copy # CANONICAL_CYCLE_NUMBER /\ c.tab.copy <= d.tab.copy
<1>1. \A t \in tabs : t.date \in Nat /\ t.copy \in Nat
  BY CycleAssumption DEF Tabs
<1>2. \A t \in tabs : MonthDay(t.date) \in 0..(YearDays - 1)
  BY <1>1 DEF MonthDay, YearDays
<1>3. \A t \in tabs : Parsed(t) \in Nat /\ Parsed(t) <= now + 3
  BY <1>2, ParsedIsNotFuture
<1> HIDE DEF Parsed
<1>4. Dated(now) = {[tab |-> t, date |-> Parsed(t)] : t \in tabs}
  BY DEF Dated, Parsed
<1>5. \A c \in Dated(now) : c.tab \in tabs /\ c.date = Parsed(c.tab)
  BY <1>4
<1>6. \E c \in Dated(now) : best(c)
  <2> DEFINE Before == {now + 3 - Parsed(t) : t \in tabs}
  <2>1. Before \subseteq Nat /\ Before # {}
    BY <1>3
  <2> HIDE DEF Before
  <2>2. PICK n \in Before : \A m \in Before : n <= m
    BY <2>1, NatMin
  <2>3. PICK t0 \in tabs : n = now + 3 - Parsed(t0)
    BY DEF Before
  <2>4. \A t \in tabs : Parsed(t) <= Parsed(t0)
    <3> SUFFICES ASSUME NEW t \in tabs PROVE Parsed(t) <= Parsed(t0)
      OBVIOUS
    <3>1. now + 3 - Parsed(t) \in Before
      BY DEF Before
    <3>2. now + 3 - Parsed(t0) <= now + 3 - Parsed(t)
      BY <2>2, <2>3, <3>1
    <3> QED BY <1>3, <3>2
  <2> DEFINE Newest == {t \in tabs : Parsed(t) = Parsed(t0)}
  <2>5. CASE \E t \in Newest : t.copy = CANONICAL_CYCLE_NUMBER
    <3>1. PICK t \in Newest : t.copy = CANONICAL_CYCLE_NUMBER
      BY <2>5
    <3>2. [tab |-> t, date |-> Parsed(t)] \in Dated(now)
      BY <1>4
    <3>3. best([tab |-> t, date |-> Parsed(t)])
      BY <1>3, <1>5, <2>4, <3>1
    <3> QED BY <3>2, <3>3
  <2>6. CASE \A t \in Newest : t.copy # CANONICAL_CYCLE_NUMBER
    <3> DEFINE Numbers == {t.copy : t \in Newest}
    <3>1. Numbers \subseteq Nat /\ Numbers # {}
      BY <1>1
    <3> HIDE DEF Numbers
    <3>2. PICK m \in Numbers : \A l \in Numbers : m <= l
      BY <3>1, NatMin
    <3>3. PICK t \in Newest : m = t.copy
      BY DEF Numbers
    <3>4. \A s \in Newest : t.copy <= s.copy
      BY <3>2, <3>3 DEF Numbers
    <3>5. [tab |-> t, date |-> Parsed(t)] \in Dated(now)
      BY <1>4
    <3>6. best([tab |-> t, date |-> Parsed(t)])
      BY <1>3, <1>5, <2>4, <2>6, <3>4
    <3> QED BY <3>5, <3>6
  <2> QED BY <2>5, <2>6
<1>7. latest_payout_cycle(now) \in Dated(now)
  BY <1>6 DEF latest_payout_cycle
<1> QED BY <1>3, <1>5, <1>7 DEF Parsed
-----------------------------------------------------------------------------
(* Columns, rows and calls.                                                 *)

\* What each column holds.
LEMMA Contents ==
  /\ \A m \in Mirrors \cup {"phone"} : Content(m) = Nat \ {0}
  /\ Content("language") = Nat
  /\ Content("payout_status") = Tabs
  /\ Content("expert_id") = Experts
  /\ Content("user_id") = {UserOf[e] : e \in Experts}
  /\ Content("assigned_admin_id") = Kams
BY DEF Content, Mirrors

LEMMA ReadingsAreAny ==
  \A k \in Columns : Readings(k) \subseteq [Experts -> AnyOf]
<1>1. \A k \in Columns : Content(k) \cup {None} \subseteq AnyOf
  BY Contents DEF AnyOf, Columns
<1> QED BY <1>1 DEF Readings

LEMMA NothingIsGood ==
  /\ NoRows \in [Experts -> AnyOf] /\ \A e \in Experts : NoRows[e] = None
  /\ NoWrites \in [Columns -> [Experts -> AnyOf]]
  /\ \A k \in Columns : NoWrites[k] = NoRows /\ NoWrites[k] \in Readings(k)
  /\ RowsWhole(NoWrites) /\ NoWrites \in Tables
  /\ NoInfo \in [InfoColumns -> InfoOf] /\ InfoTypeOK(NoInfo)
  /\ \A k \in InfoColumns : NoInfo[k] = None
<1>1. NoRows \in [Experts -> AnyOf] /\ \A e \in Experts : NoRows[e] = None
  BY DEF NoRows, AnyOf
<1>2. \A k \in Columns : NoWrites[k] = NoRows
  BY DEF NoWrites
<1>3. NoWrites \in [Columns -> [Experts -> AnyOf]]
  BY <1>1 DEF NoWrites
<1>4. \A k \in Columns : NoWrites[k] \in Readings(k)
  BY <1>2 DEF Readings, NoRows
<1>5. RowsWhole(NoWrites)
  <2>1. "expert_id" \in Columns
    BY DEF Columns
  <2>2. \A e \in Experts : NoWrites["expert_id"][e] = None
    BY <1>1, <1>2, <2>1
  <2> QED BY <2>2, NoneAssumption DEF RowsWhole
<1>6. NoInfo \in [InfoColumns -> InfoOf] /\ InfoTypeOK(NoInfo) /\ \A k \in InfoColumns : NoInfo[k] = None
  BY DEF NoInfo, InfoOf, InfoTypeOK, InfoColumns
<1> QED BY <1>1, <1>2, <1>3, <1>4, <1>5, <1>6 DEF Tables

\* What a cell says is what its column may hold.
LEMMA CellContent ==
  ASSUME NEW rows \in Tables, NEW k \in Cells, NEW e \in Experts
  PROVE  Fresh(rows, k, e) \in Content(k) \cup {None}
<1>1. /\ rows["roster"][e] \in (Nat \ {0}) \cup {None}
      /\ rows["expert_priority"][e] \in (Nat \ {0}) \cup {None}
  <2>1. rows["roster"] \in Readings("roster") /\ rows["expert_priority"] \in Readings("expert_priority")
    BY DEF Tables, Columns, Mirrors
  <2> QED BY <2>1, Contents DEF Readings, Mirrors
<1>2. CASE k = "phone"
  BY <1>1, <1>2, Contents DEF Fresh, Cell, SheetOf
<1>3. CASE k = "language"
  BY <1>1, <1>3, Contents DEF Fresh, Cell, SheetOf, FrozenLanguage
<1>4. CASE k = "user_id"
  BY <1>1, <1>4, Contents DEF Fresh, Cell, SheetOf
<1> QED BY <1>2, <1>3, <1>4 DEF Cells

\* A plan is not empty and its entries are steps; no step is there twice.
LEMMA PlanFacts ==
  ASSUME NEW p \in Plans
  PROVE  /\ p \in Seq(Steps) /\ Len(p) \in Nat \ {0} /\ 1 \in DOMAIN p /\ DOMAIN p = 1..Len(p)
         /\ \A i \in DOMAIN p : p[i] \in Steps
         /\ \A i, j \in DOMAIN p : p[i] = p[j] => i = j
<1>1. p \in Seq(Steps) /\ p # <<>>
  BY PlanAssumption
<1>2. Len(p) \in Nat /\ DOMAIN p = 1..Len(p) /\ \A i \in 1..Len(p) : p[i] \in Steps
  BY <1>1
<1>3. Len(p) # 0
  BY <1>1
<1> QED BY <1>1, <1>2, <1>3, PlanAssumption

\* A call that rests or begins.
LEMMA RestingIsGood ==
  ASSUME NEW p \in Plans, NEW d, NEW c, c = Resting \/ c = [Resting EXCEPT !.pc = "begin"]
  PROVE  CallGood(c, d, p) /\ CycleEmpty(c)
<1>1. NoStep \in Ends /\ NoStep.step = "none" /\ NoStep.cause = "none"
  BY DEF NoStep, Ends, Causes
<1>2. Resting \in CallRecords
  BY <1>1, NothingIsGood DEF Resting, CallRecords, PCs
<1> DEFINE Empty(b) ==
      /\ b.at = 1 /\ b.read = NoRows /\ b.cycle = NoInfo /\ b.todo = {} /\ b.seen = {}
      /\ b.pend = NoWrites /\ b.pendInfo = NoInfo /\ b.broken = FALSE /\ b.last = NoStep
<1>3. Empty(Resting) /\ Resting.pc = "idle"
  BY DEF Resting
<1>4. [Resting EXCEPT !.pc = "begin"] \in CallRecords
  BY <1>2 DEF CallRecords, PCs
<1>5. Empty([Resting EXCEPT !.pc = "begin"]) /\ [Resting EXCEPT !.pc = "begin"].pc = "begin"
  BY <1>2, <1>3 DEF CallRecords
<1>6. c \in CallRecords /\ c.pc \in {"idle", "begin"} /\ Empty(c)
  BY <1>2, <1>3, <1>4, <1>5
<1>7. PlaceGood(c, p)
  BY <1>1, <1>6, PlanFacts DEF PlaceGood
<1>8. DataGood(c, p)
  BY <1>1, <1>6, NothingIsGood DEF DataGood
<1>9. LinkGood(c, d, p)
  BY <1>1, <1>6 DEF LinkGood, Provision
<1> QED BY <1>6, <1>7, <1>8, <1>9 DEF CallGood, CycleEmpty

\* What others commit takes nothing from a call, as nobody is unlinked.
LEMMA CallGoodKept ==
  ASSUME NEW c, NEW d, NEW e, NEW p, CallGood(c, d, p),
         \A x \in Experts : d["expert_id"][x] = x => e["expert_id"][x] = x
  PROVE  CallGood(c, e, p)
<1>1. c.seen \subseteq Experts
  BY DEF CallGood, CallRecords
<1>2. LinkGood(c, e, p)
  BY <1>1 DEF CallGood, LinkGood
<1> QED BY <1>2 DEF CallGood

\* A session after a rollback, or after a flush that failed and the rollback.
LEMMA RolledBackIsClean ==
  ASSUME NEW b \in CallRecords, NEW c, c = RolledBack(b) \/ c = RolledBack(FlushFailed(b))
  PROVE  /\ c \in CallRecords /\ c.at = b.at /\ c.seen = b.seen
         /\ c.pend = NoWrites /\ c.pendInfo = NoInfo /\ c.broken = FALSE
<1>1. /\ FlushFailed(b) \in CallRecords /\ FlushFailed(b).at = b.at /\ FlushFailed(b).seen = b.seen
  BY NothingIsGood DEF FlushFailed, CallRecords
<1>2. ASSUME NEW a \in CallRecords
      PROVE  /\ RolledBack(a) \in CallRecords /\ RolledBack(a).at = a.at /\ RolledBack(a).seen = a.seen
             /\ RolledBack(a).pend = NoWrites /\ RolledBack(a).pendInfo = NoInfo
             /\ RolledBack(a).broken = FALSE
  BY NothingIsGood DEF RolledBack, CallRecords
<1> QED BY <1>1, <1>2

\* A step that ends leaves a call at the next one, or at rest: nothing pending, and the result said.
LEMMA OnwardRecord ==
  ASSUME steps \in Plans, NEW w \in Syncs, call[w].at \in DOMAIN steps,
         NEW c \in CallRecords, c.at = call[w].at, NEW ok \in BOOLEAN, NEW cause \in Causes,
         NEW o, o = Onward(w, c, ok, cause)
  PROVE  /\ o \in CallRecords
         /\ o.pc = IF c.at = Len(steps) THEN "idle" ELSE "begin"
         /\ o.at = IF c.at = Len(steps) THEN 1 ELSE c.at + 1
         /\ o.read = NoRows /\ o.cycle = NoInfo /\ o.todo = {} /\ o.seen = c.seen
         /\ o.pend = c.pend /\ o.pendInfo = c.pendInfo /\ o.broken = c.broken
         /\ o.last \in Ends /\ o.last.step = Step(w) /\ o.last.ok = ok /\ o.last.cause = cause
<1> DEFINE result == [step |-> Step(w), ok |-> ok, cause |-> cause]
<1>1. result \in Ends /\ result.step = Step(w) /\ result.ok = ok /\ result.cause = cause
  <2>1. Step(w) \in Steps
    BY PlanFacts DEF Step
  <2> QED BY <2>1 DEF Ends
<1> HIDE DEF result
<1>2. c.at \in Nat /\ c.at + 1 \in Nat
  BY DEF CallRecords
<1>3. /\ o \in CallRecords
      /\ o.pc = IF c.at = Len(steps) THEN "idle" ELSE "begin"
      /\ o.at = IF c.at = Len(steps) THEN 1 ELSE c.at + 1
      /\ o.read = NoRows /\ o.cycle = NoInfo /\ o.todo = {} /\ o.seen = c.seen
      /\ o.pend = c.pend /\ o.pendInfo = c.pendInfo /\ o.broken = c.broken /\ o.last = result
  BY <1>1, <1>2, NothingIsGood DEF Onward, CallRecords, PCs, result
<1> QED BY <1>1, <1>3

LEMMA OnwardIsGood ==
  ASSUME steps \in Plans, NEW w \in Syncs, call[w].at \in DOMAIN steps,
         NEW c \in CallRecords, c.at = call[w].at,
         c.pend = NoWrites, c.pendInfo = NoInfo, c.broken = FALSE,
         NEW ok \in BOOLEAN, NEW cause \in Causes, cause # "session", NEW d,
         Step(w) = Provision /\ ok = TRUE => \A e \in c.seen : d["expert_id"][e] = e
  PROVE  CallGood(Onward(w, c, ok, cause), d, steps) /\ CycleEmpty(Onward(w, c, ok, cause))
<1> DEFINE o == Onward(w, c, ok, cause)
<1>1. /\ o \in CallRecords
      /\ o.pc = IF c.at = Len(steps) THEN "idle" ELSE "begin"
      /\ o.at = IF c.at = Len(steps) THEN 1 ELSE c.at + 1
      /\ o.read = NoRows /\ o.cycle = NoInfo /\ o.todo = {} /\ o.seen = c.seen
      /\ o.pend = NoWrites /\ o.pendInfo = NoInfo /\ o.broken = FALSE
      /\ o.last.step = Step(w) /\ o.last.ok = ok /\ o.last.cause = cause
  BY OnwardRecord
<1> HIDE DEF o
<1>2. c.at \in Nat /\ c.at + 1 \in Nat
  BY DEF CallRecords
<1>3. PlaceGood(o, steps)
  BY <1>1, <1>2, PlanFacts DEF PlaceGood, Step
<1>4. DataGood(o, steps)
  BY <1>1, NothingIsGood DEF DataGood
<1>5. LinkGood(o, d, steps)
  BY <1>1 DEF LinkGood
<1> QED BY <1>1, <1>3, <1>4, <1>5 DEF CallGood, CycleEmpty, o

\* A session that is not broken does its next step.
LEMMA GoesOn ==
  ASSUME NEW w \in Syncs, call[w].broken = FALSE, NEW c, Goes(w, c)
  PROVE  call' = [call EXCEPT ![w] = c] /\ UNCHANGED <<db, info>>
BY Zenon DEF Goes

\* When one call has changed and what was committed keeps everybody linked, the others are as good.
LEMMA OneCallChanges ==
  ASSUME SyncInv, NEW w \in Syncs, NEW c, call' = [call EXCEPT ![w] = c], steps' = steps,
         CallGood(c, db', steps), WorldGood', TableGood(db'),
         \A x \in Experts : db["expert_id"][x] = x => db'["expert_id"][x] = x
  PROVE  SyncInv'
<1>1. DOMAIN call' = Syncs /\ call' = [v \in Syncs |-> call'[v]]
  BY DEF SyncInv
<1>2. ASSUME NEW v \in Syncs PROVE CallGood(call'[v], db', steps')
  <2>1. CASE v = w
    BY <2>1 DEF SyncInv
  <2>2. CASE v # w
    <3>1. call'[v] = call[v] /\ CallGood(call[v], db, steps)
      BY <2>2 DEF SyncInv
    <3> QED BY <3>1, CallGoodKept
  <2> QED BY <2>1, <2>2
<1> QED BY <1>1, <1>2 DEF SyncInv

\* A step that fails changes nothing but its own call, which has nothing left of it.
LEMMA FailLeaves ==
  ASSUME SyncInv, NEW w \in Syncs, NEW b \in CallRecords, b.at = call[w].at,
         NEW c, c = b \/ c = FlushFailed(b), NEW cause \in Causes, cause # "session",
         Fail(w, c, cause)
  PROVE  /\ db' = db /\ info' = info
         /\ \E o : call' = [call EXCEPT ![w] = o] /\ CallGood(o, db, steps) /\ CycleEmpty(o)
<1> DEFINE r == RolledBack(c)
<1>1. r \in CallRecords /\ r.at = call[w].at /\ r.pend = NoWrites /\ r.pendInfo = NoInfo /\ r.broken = FALSE
  BY RolledBackIsClean
<1> DEFINE o == Onward(w, r, FALSE, cause)
<1>2. call' = [call EXCEPT ![w] = o] /\ db' = db /\ info' = info
  BY DEF Fail
<1>3. CallGood(o, db, steps) /\ CycleEmpty(o)
  BY ZenonT(60), <1>1, OnwardIsGood DEF SyncInv, WorldGood, CallGood, PlaceGood
<1> HIDE DEF o
<1> QED BY <1>2, <1>3

LEMMA FailIsGood ==
  ASSUME SyncInv, NEW w \in Syncs, NEW b \in CallRecords, b.at = call[w].at,
         NEW c, c = b \/ c = FlushFailed(b), NEW cause \in Causes, cause # "session",
         Fail(w, c, cause), steps' = steps, WorldGood'
  PROVE  SyncInv'
<1>1. PICK o : call' = [call EXCEPT ![w] = o] /\ CallGood(o, db, steps)
  BY FailLeaves
<1>2. db' = db
  BY FailLeaves
<1> QED BY <1>1, <1>2, OneCallChanges DEF SyncInv
-----------------------------------------------------------------------------
(* The actions: each leaves SyncInv true.                                   *)

\* What SyncInv says of one call.
LEMMA CallFacts ==
  ASSUME SyncInv, NEW w \in Syncs
  PROVE  /\ call[w] \in CallRecords /\ CallGood(call[w], db, steps)
         /\ PlaceGood(call[w], steps) /\ DataGood(call[w], steps) /\ LinkGood(call[w], db, steps)
         /\ steps \in Plans /\ call[w].at \in DOMAIN steps /\ call[w].broken = FALSE
         /\ call = [v \in Syncs |-> call[v]] /\ Step(w) = steps[call[w].at]
BY DEF SyncInv, WorldGood, CallGood, PlaceGood, DataGood, Step

LEMMA StartStep ==
  ASSUME SyncInv, NEW w \in Syncs, Start(w)
  PROVE  SyncInv'
<1> DEFINE c == [Resting EXCEPT !.pc = "begin"]
<1>1. call' = [call EXCEPT ![w] = c] /\ UNCHANGED <<ops, faults, db, info, steps>>
  BY DEF Start
<1>2. CallGood(c, db', steps)
  BY CallFacts, RestingIsGood
<1> HIDE DEF c
<1> QED BY <1>1, <1>2, OneCallChanges DEF SyncInv, WorldGood, ops

LEMMA DiesStep ==
  ASSUME SyncInv, NEW w \in Syncs, Dies(w)
  PROVE  SyncInv'
<1>1. /\ call' = [call EXCEPT ![w] = Resting] /\ UNCHANGED <<ops, db, info, steps>>
      /\ faults < MaxFaults /\ faults' = faults + 1
  BY DEF Dies
<1>2. CallGood(Resting, db', steps)
  BY CallFacts, RestingIsGood
<1>3. WorldGood'
  BY <1>1, SyncBounds DEF SyncInv, WorldGood, ops
<1> QED BY <1>1, <1>2, <1>3, OneCallChanges DEF SyncInv

LEMMA FetchMirrorStep ==
  ASSUME SyncInv, NEW w \in Syncs, FetchMirror(w)
  PROVE  SyncInv'
<1> DEFINE read == [e \in Experts |-> IF sheet[Step(w)][e] = 0 THEN None ELSE sheet[Step(w)][e]]
<1> DEFINE c == [call[w] EXCEPT !.pc = "fetched", !.read = read]
<1>1. call[w].pc = "begin" /\ Step(w) \in Mirrors
  BY DEF FetchMirror
<1>2. call' = [call EXCEPT ![w] = c] /\ UNCHANGED <<ops, faults, db, info, steps>>
  BY CallFacts DEF FetchMirror
<1>3. read \in Readings(Step(w)) /\ read \in [Experts -> AnyOf]
  <2>1. \A e \in Experts : read[e] \in (Nat \ {0}) \cup {None}
    BY <1>1 DEF SyncInv, WorldGood
  <2> QED BY <1>1, <2>1, Contents DEF Readings, AnyOf
<1> HIDE DEF read
<1>4. /\ c \in CallRecords /\ c.pc = "fetched" /\ c.read = read /\ c.at = call[w].at
      /\ c.last = call[w].last /\ c.pend = call[w].pend /\ c.cycle = call[w].cycle
      /\ c.pendInfo = call[w].pendInfo /\ c.broken = call[w].broken
      /\ c.todo = call[w].todo /\ c.seen = call[w].seen
  BY ZenonT(60), <1>3, CallFacts DEF CallRecords, PCs
<1> HIDE DEF c
<1>5. PlaceGood(c, steps)
  BY ZenonT(60), <1>1, <1>4, CallFacts DEF PlaceGood
<1>6. DataGood(c, steps)
  BY <1>1, <1>3, <1>4, CallFacts DEF DataGood
<1>7. LinkGood(c, db, steps)
  BY ZenonT(60), <1>1, <1>4, CallFacts DEF LinkGood
<1>8. CallGood(c, db', steps)
  BY <1>2, <1>4, <1>5, <1>6, <1>7 DEF CallGood
<1> QED BY <1>2, <1>8, OneCallChanges DEF SyncInv, WorldGood, ops

\* What the search for the newest cycle's tab returns.
LEMMA LatestIsGood ==
  ASSUME SyncInv
  PROVE  \E t \in tabs :
           /\ t \in Tabs /\ t.date \in Nat
           /\ latest_payout_cycle(today).tab = t
           /\ latest_payout_cycle(today).date = parse_cycle_tab_date(MonthDay(t.date), today)
           /\ latest_payout_cycle(today).date \in Nat
           /\ next_payout_date(latest_payout_cycle(today).date, today) \in Nat
<1>1. today \in Nat /\ today >= YearDays /\ tabs \subseteq Tabs /\ tabs # {}
  BY DayAssumption DEF SyncInv, WorldGood
<1>2. PICK t \in tabs :
           /\ latest_payout_cycle(today).tab = t
           /\ latest_payout_cycle(today).date = parse_cycle_tab_date(MonthDay(t.date), today)
           /\ latest_payout_cycle(today).date \in Nat
  BY <1>1, LatestIsDated
<1>3. t \in Tabs /\ t.date \in Nat
  BY <1>1, CycleAssumption DEF Tabs
<1> DEFINE u == [date |-> latest_payout_cycle(today).date, copy |-> 1]
<1>4. next_payout_date(u.date, today) \in Nat
  <2>1. u \in {u} /\ u.date \in Nat
    BY <1>2
  <2> QED BY <1>1, <2>1, NextFollows
<1> QED BY <1>2, <1>3, <1>4

LEMMA FetchPayoutStep ==
  ASSUME SyncInv, NEW w \in Syncs, FetchPayout(w)
  PROVE  SyncInv'
<1>1. call[w].pc = "begin" /\ Step(w) = "payout_status"
  BY DEF FetchPayout
<1> DEFINE latest == latest_payout_cycle(today)
<1> DEFINE tab(listed) == IF listed THEN latest.tab ELSE PAYOUT_CYCLE_TAB
<1> DEFINE found(listed) == [latest_cycle_tab |-> tab(listed), latest_cycle_date |-> latest.date,
                             next_payout_date |-> next_payout_date(latest.date, today)]
<1> DEFINE read(listed) == [e \in Experts |-> IF e \in RowsOf[tab(listed).date] THEN tab(listed) ELSE None]
<1> DEFINE cycle(listed) == IF listed THEN found(listed) ELSE NoInfo
<1>2. PICK listed \in BOOLEAN :
        /\ listed \/ faults < MaxFaults
        /\ faults' = IF listed THEN faults ELSE faults + 1
        /\ call' = [call EXCEPT ![w].pc = "fetched", ![w].read = read(listed), ![w].cycle = cycle(listed)]
  BY DEF FetchPayout
<1>3. UNCHANGED <<ops, db, info, steps>>
  BY DEF FetchPayout
<1>4. tab(listed) \in Tabs
  BY LatestIsGood, CycleAssumption
<1>5. read(listed) \in Readings(Step(w)) /\ read(listed) \in [Experts -> AnyOf]
  <2> HIDE DEF tab
  <2>1. \A e \in Experts : read(listed)[e] \in Tabs \cup {None}
    BY <1>4
  <2> QED BY <1>1, <2>1, Contents DEF Readings, AnyOf
<1>6. cycle(listed) \in [InfoColumns -> InfoOf] /\ InfoTypeOK(cycle(listed))
  <2>1. latest.date \in Nat /\ next_payout_date(latest.date, today) \in Nat
    BY LatestIsGood
  <2> HIDE DEF tab, latest
  <2>2. found(listed) \in [InfoColumns -> InfoOf] /\ InfoTypeOK(found(listed))
    BY <1>4, <2>1 DEF InfoTypeOK, InfoColumns, InfoOf
  <2> QED BY <2>2, NothingIsGood
<1> HIDE DEF read, cycle
<1> DEFINE c == [call[w] EXCEPT !.pc = "fetched", !.read = read(listed), !.cycle = cycle(listed)]
<1>7. call' = [call EXCEPT ![w] = c]
  BY <1>2, CallFacts
<1>8. /\ c \in CallRecords /\ c.pc = "fetched" /\ c.read = read(listed) /\ c.at = call[w].at
      /\ c.last = call[w].last /\ c.pend = call[w].pend /\ c.cycle = cycle(listed)
      /\ c.pendInfo = call[w].pendInfo /\ c.broken = call[w].broken
      /\ c.todo = call[w].todo /\ c.seen = call[w].seen
  BY ZenonT(60), <1>5, <1>6, CallFacts DEF CallRecords, PCs
<1> HIDE DEF c
<1>9. PlaceGood(c, steps)
  BY <1>1, <1>8, CallFacts DEF PlaceGood
<1>10. DataGood(c, steps)
  BY <1>1, <1>5, <1>6, <1>8, CallFacts DEF DataGood
<1>11. LinkGood(c, db, steps)
  BY <1>1, <1>8, CallFacts DEF LinkGood
<1>12. CallGood(c, db', steps)
  BY <1>3, <1>8, <1>9, <1>10, <1>11 DEF CallGood
<1>13. WorldGood'
  <2>1. faults' \in 0..MaxFaults
    BY <1>2, SyncBounds DEF SyncInv, WorldGood
  <2> QED BY <1>3, <2>1 DEF SyncInv, WorldGood, ops
<1> QED BY <1>3, <1>7, <1>12, <1>13, OneCallChanges DEF SyncInv

LEMMA SourceFailsStep ==
  ASSUME SyncInv, NEW w \in Syncs, SourceFails(w)
  PROVE  SyncInv'
<1>1. /\ Fail(w, call[w], "source") /\ UNCHANGED <<ops, steps>>
      /\ faults < MaxFaults /\ faults' = faults + 1
  BY DEF SourceFails
<1>2. WorldGood'
  BY <1>1, SyncBounds DEF SyncInv, WorldGood, ops, Fail
<1> QED BY <1>1, <1>2, CallFacts, FailIsGood DEF Causes

\* A column of what a session has pending that copies a sheet is none of the astrologer's keys.
LEMMA OtherColumnKeepsRows ==
  ASSUME NEW old, RowsWhole(old), NEW table,
         \A j \in {"expert_id", "assigned_admin_id"} : table[j] = old[j]
  PROVE  RowsWhole(table)
BY DEF RowsWhole

\* The record of a call that has compared what it read with the table.
Upserted(b, k, values, new, flag, row) ==
  [b EXCEPT !.pc = "commit", !.fresh = new, !.newInfo = flag, !.pend[k] = values, !.pendInfo = row]

LEMMA UpsertedRecord ==
  ASSUME NEW b \in CallRecords, NEW k \in Columns, NEW values \in [Experts -> AnyOf],
         NEW new \in SUBSET Experts, NEW flag \in BOOLEAN, NEW row \in [InfoColumns -> InfoOf], NEW c,
         c = Upserted(b, k, values, new, flag, row)
  PROVE  /\ c \in CallRecords /\ c.pc = "commit" /\ c.read = b.read /\ c.at = b.at
         /\ c.last = b.last /\ c.pend = [b.pend EXCEPT ![k] = values] /\ c.cycle = b.cycle
         /\ c.pendInfo = row /\ c.broken = b.broken /\ c.todo = b.todo /\ c.seen = b.seen
<1>1. [b.pend EXCEPT ![k] = values] \in [Columns -> [Experts -> AnyOf]]
  BY DEF CallRecords
<1>2. c = [b EXCEPT !.pc = "commit", !.fresh = new, !.newInfo = flag,
                    !.pend = [b.pend EXCEPT ![k] = values], !.pendInfo = row]
  BY DEF CallRecords, Upserted
<1> DEFINE pend == [b.pend EXCEPT ![k] = values]
<1> HIDE DEF pend
<1>3. c = [b EXCEPT !.pc = "commit", !.fresh = new, !.newInfo = flag, !.pend = pend, !.pendInfo = row]
  BY <1>2 DEF pend
<1>4. pend \in [Columns -> [Experts -> AnyOf]]
  BY <1>1 DEF pend
<1>5. c \in CallRecords
  BY ZenonT(60), <1>3, <1>4 DEF CallRecords, PCs
<1>6. /\ c.pc = "commit" /\ c.read = b.read /\ c.at = b.at /\ c.last = b.last /\ c.pend = pend
      /\ c.cycle = b.cycle /\ c.pendInfo = row /\ c.todo = b.todo /\ c.seen = b.seen
  BY <1>3 DEF CallRecords
<1>7. c.broken = b.broken
  BY <1>3, Zenon DEF CallRecords
<1> QED BY <1>5, <1>6, <1>7 DEF pend

LEMMA UpsertedCycle ==
  ASSUME NEW b \in CallRecords, NEW k, NEW values, NEW new, NEW flag, NEW row
  PROVE  /\ Upserted(b, k, values, new, flag, row).pc = "commit"
         /\ Upserted(b, k, values, new, flag, row).cycle = b.cycle
         /\ Upserted(b, k, values, new, flag, row).pendInfo = row
         /\ Upserted(b, k, values, new, flag, row).newInfo = flag
BY DEF CallRecords, Upserted

LEMMA UpsertStep ==
  ASSUME SyncInv, NEW w \in Syncs, Upsert(w)
  PROVE  SyncInv'
<1> DEFINE b == call[w]
<1> DEFINE k == Step(w)
<1> DEFINE listed == {e \in Experts : b.read[e] # None}
<1> DEFINE new == {e \in listed : Absent(k, e)}
<1> DEFINE values == [e \in Experts |-> IF e \in listed /\ b.read[e] # db[k][e] THEN b.read[e] ELSE None]
<1> DEFINE row == [j \in InfoColumns |-> IF b.cycle # NoInfo /\ b.cycle[j] # info[j] THEN b.cycle[j] ELSE None]
<1> DEFINE flag == (info = NoInfo)
<1> DEFINE c == Upserted(b, k, values, new, flag, row)
<1>1. b.pc = "fetched" /\ k \in Mirrors \cup {"payout_status"}
  BY CallFacts DEF Upsert, PlaceGood
<1>2. Goes(w, c) /\ UNCHANGED <<ops, faults, steps>>
  BY DEF Upsert, Upserted
<1>3. call' = [call EXCEPT ![w] = c] /\ UNCHANGED <<db, info>>
  <2> HIDE DEF c
  <2> QED BY <1>2, CallFacts, GoesOn
<1>4. k \in Columns /\ k \notin {"expert_id", "assigned_admin_id"} /\ k # Provision
  BY <1>1 DEF Columns, Mirrors, Provision
<1>5. values \in Readings(k) /\ values \in [Experts -> AnyOf]
  <2>1. b.read \in Readings(k)
    BY <1>4, CallFacts, NothingIsGood DEF DataGood
  <2>2. \A e \in Experts : values[e] \in Content(k) \cup {None}
    BY <2>1 DEF Readings
  <2>3. values \in Readings(k)
    BY <2>2 DEF Readings
  <2> QED BY <1>4, <2>3, ReadingsAreAny
<1>6. row \in [InfoColumns -> InfoOf] /\ InfoTypeOK(row)
  <2>1. b.cycle \in [InfoColumns -> InfoOf] /\ InfoTypeOK(b.cycle)
    BY CallFacts DEF CallRecords, DataGood
  <2> QED BY <2>1 DEF InfoTypeOK, InfoOf, InfoColumns
<1> HIDE DEF values, row
<1>7. b \in CallRecords /\ flag \in BOOLEAN /\ k \in Columns
  BY <1>4, CallFacts
<1>8. new \in SUBSET Experts /\ c = Upserted(b, k, values, new, flag, row)
  OBVIOUS
<1> HIDE DEF new, listed, flag, c, b, k
<1>9. /\ c \in CallRecords /\ c.pc = "commit" /\ c.read = b.read /\ c.at = b.at
      /\ c.last = b.last /\ c.pend = [b.pend EXCEPT ![k] = values] /\ c.cycle = b.cycle
      /\ c.pendInfo = row /\ c.broken = b.broken /\ c.todo = b.todo /\ c.seen = b.seen
  BY <1>5, <1>6, <1>7, <1>8, UpsertedRecord
<1> USE DEF b, k
<1>10. PlaceGood(c, steps)
  BY <1>1, <1>9, CallFacts DEF PlaceGood
<1>11. DataGood(c, steps)
  <2>1. RowsWhole(c.pend)
    <3>1. b.pend \in [Columns -> [Experts -> AnyOf]] /\ RowsWhole(b.pend)
      BY CallFacts DEF CallRecords, DataGood
    <3>2. \A j \in {"expert_id", "assigned_admin_id"} : c.pend[j] = b.pend[j]
      BY <1>4, <1>9, <3>1 DEF Columns
    <3> HIDE DEF b, k
    <3> QED BY <3>1, <3>2, OtherColumnKeepsRows
  <2>2. \A j \in Columns : c.pend[j] \in Readings(j)
    BY ZenonT(60), <1>4, <1>5, <1>9, CallFacts DEF CallRecords, DataGood
  <2> QED BY <1>6, <1>9, <2>1, <2>2, CallFacts DEF DataGood
<1>12. LinkGood(c, db, steps)
  BY ZenonT(60), <1>1, <1>4, <1>9, CallFacts DEF LinkGood
<1>13. CallGood(c, db', steps)
  BY <1>3, <1>9, <1>10, <1>11, <1>12 DEF CallGood
<1> QED BY <1>2, <1>3, <1>13, OneCallChanges DEF SyncInv, WorldGood, ops

\* A call that looks for candidates fails for want of a KAM, or has found them all.
LEMMA SelectCandidatesCases ==
  ASSUME SyncInv, NEW w \in Syncs, SelectCandidates(w)
  PROVE  \/ \E c \in CallRecords : Fail(w, c, "kams") /\ c.at = call[w].at
         \/ \E c \in CallRecords :
              /\ call' = [call EXCEPT ![w] = c] /\ UNCHANGED <<db, info>>
              /\ c.pc \in {"commit", "insert"} /\ (c.todo # {} => c.pc = "insert") /\ c.todo = c.seen
              /\ c.read = call[w].read /\ c.at = call[w].at /\ c.last = call[w].last
              /\ c.pend = call[w].pend /\ c.cycle = call[w].cycle /\ c.pendInfo = call[w].pendInfo
              /\ c.broken = call[w].broken
<1> DEFINE b == call[w]
<1> DEFINE found == {e \in Experts : ~Absent("expert_priority", e) /\ ~Linked(e)}
<1> DEFINE c == [b EXCEPT !.seen = found, !.todo = found]
<1> DEFINE rows(kept) == [k \in Columns |-> IF k \in kept THEN db[k] ELSE NoRows]
<1>1. IF found = {} THEN Goes(w, [c EXCEPT !.pc = "commit"])
      ELSE IF kams = {} THEN Fail(w, c, "kams")
      ELSE \E kept \in {{"roster"}, {"roster", "expert_priority"}} :
             Goes(w, [c EXCEPT !.pc = "insert", !.pool = kams, !.rows = rows(kept)])
  BY DEF SelectCandidates
<1>2. found \in SUBSET Experts /\ kams \in SUBSET Kams
  BY DEF SyncInv, WorldGood
<1>3. ASSUME NEW kept PROVE rows(kept) \in Tables
  BY NothingIsGood DEF SyncInv, TableGood, Tables
<1> HIDE DEF found, rows
<1>4. b \in CallRecords
  BY CallFacts
<1> HIDE DEF b
<1>5. c \in CallRecords
  BY ZenonT(60), <1>2, <1>4 DEF CallRecords
<1>6. /\ c.todo = found /\ c.seen = found /\ c.read = b.read /\ c.at = b.at
      /\ c.last = b.last /\ c.pend = b.pend /\ c.cycle = b.cycle /\ c.pendInfo = b.pendInfo
      /\ c.broken = b.broken
  BY ZenonT(60), <1>4 DEF CallRecords
<1> HIDE DEF c
<1>7. CASE found = {}
  <2> DEFINE d == [c EXCEPT !.pc = "commit"]
  <2>1. /\ d \in CallRecords /\ d.pc = "commit" /\ d.todo = c.todo /\ d.seen = c.seen
        /\ d.read = c.read /\ d.at = c.at /\ d.last = c.last /\ d.pend = c.pend
        /\ d.cycle = c.cycle /\ d.pendInfo = c.pendInfo /\ d.broken = c.broken
    BY ZenonT(60), <1>5, <1>6 DEF CallRecords, PCs
  <2>2. Goes(w, d)
    BY <1>1, <1>7
  <2> HIDE DEF d
  <2>3. call' = [call EXCEPT ![w] = d] /\ UNCHANGED <<db, info>>
    BY <2>2, CallFacts, GoesOn
  <2> QED BY <1>5, <1>6, <1>7, <2>1, <2>3 DEF b
<1>8. CASE found # {} /\ kams = {}
  BY <1>1, <1>5, <1>6, <1>8 DEF b
<1>9. CASE found # {} /\ kams # {}
  <2>1. PICK kept : Goes(w, [c EXCEPT !.pc = "insert", !.pool = kams, !.rows = rows(kept)])
    BY <1>1, <1>9
  <2> DEFINE d == [c EXCEPT !.pc = "insert", !.pool = kams, !.rows = rows(kept)]
  <2>2. /\ d \in CallRecords /\ d.pc = "insert" /\ d.todo = c.todo /\ d.seen = c.seen
        /\ d.read = c.read /\ d.at = c.at /\ d.last = c.last /\ d.pend = c.pend
        /\ d.cycle = c.cycle /\ d.pendInfo = c.pendInfo /\ d.broken = c.broken
    BY ZenonT(60), <1>2, <1>3, <1>5, <1>6 DEF CallRecords, PCs
  <2>3. Goes(w, d)
    BY <2>1
  <2> HIDE DEF d
  <2>4. call' = [call EXCEPT ![w] = d] /\ UNCHANGED <<db, info>>
    BY <2>3, CallFacts, GoesOn
  <2> QED BY <1>5, <1>6, <2>2, <2>4 DEF b
<1> QED BY <1>7, <1>8, <1>9

LEMMA SelectCandidatesStep ==
  ASSUME SyncInv, NEW w \in Syncs, SelectCandidates(w)
  PROVE  SyncInv'
<1> DEFINE b == call[w]
<1>1. b.pc = "begin" /\ Step(w) = Provision /\ UNCHANGED <<ops, faults, steps>>
  BY DEF SelectCandidates, Provision
<1>2. ASSUME NEW c \in CallRecords, Fail(w, c, "kams"), c.at = b.at PROVE SyncInv'
  <2>1. db' = db /\ info' = info
    BY <1>2 DEF Fail
  <2>2. WorldGood'
    BY <1>1, <2>1 DEF SyncInv, WorldGood, ops
  <2> QED BY <1>1, <1>2, <2>2, FailIsGood DEF Causes
<1>3. ASSUME NEW c \in CallRecords, call' = [call EXCEPT ![w] = c], UNCHANGED <<db, info>>,
             c.pc \in {"commit", "insert"}, c.todo # {} => c.pc = "insert", c.todo = c.seen,
             c.read = b.read, c.at = b.at, c.last = b.last, c.pend = b.pend, c.cycle = b.cycle,
             c.pendInfo = b.pendInfo, c.broken = b.broken
      PROVE  SyncInv'
  <2>1. PlaceGood(c, steps)
    BY <1>1, <1>3, CallFacts DEF PlaceGood
  <2>2. DataGood(c, steps)
    BY <1>1, <1>3, CallFacts DEF DataGood
  <2>3. c.last.step # Provision
    <3>1. c.last.step = IF b.at = 1 THEN "none" ELSE steps[b.at - 1]
      BY <1>1, <1>3, CallFacts DEF PlaceGood
    <3>2. /\ Len(steps) \in Nat /\ DOMAIN steps = 1..Len(steps) /\ b.at \in DOMAIN steps
          /\ \A i, j \in DOMAIN steps : steps[i] = steps[j] => i = j
      BY CallFacts, PlanFacts
    <3>3. b.at # 1 => b.at - 1 \in DOMAIN steps /\ b.at - 1 # b.at
      BY <3>2
    <3>4. b.at # 1 => steps[b.at - 1] # Provision
      BY <1>1, <3>2, <3>3 DEF Step
    <3> QED BY <3>1, <3>4 DEF Provision
  <2>4. LinkGood(c, db, steps)
    BY <1>3, <2>3 DEF LinkGood
  <2>5. CallGood(c, db', steps)
    BY <1>3, <2>1, <2>2, <2>4 DEF CallGood
  <2> QED BY <1>1, <1>3, <2>5, OneCallChanges DEF SyncInv, WorldGood, ops
<1> QED BY <1>2, <1>3, SelectCandidatesCases

\* The copied rows that a session works on are rows.
LEMMA SeenIsTable ==
  ASSUME TableGood(db), NEW c \in CallRecords
  PROVE  Seen(c) \in Tables
<1>1. c.rows \in Tables /\ db \in Tables
  BY DEF CallRecords, TableGood, Tables
<1> QED BY <1>1 DEF Seen, Tables

\* What is pending after a row for the expert e has been added.
RowAdded(c, e, kam) ==
  [k \in Columns |-> IF k \in DOMAIN NewRow(c, e, kam) THEN [c.pend[k] EXCEPT ![e] = NewRow(c, e, kam)[k]]
                     ELSE c.pend[k]]

LEMMA RowAddedIsGood ==
  ASSUME TableGood(db), NEW c \in CallRecords, RowsWhole(c.pend),
         \A k \in Columns : c.pend[k] \in Readings(k),
         NEW e \in Experts, NEW kam \in Kams
  PROVE  /\ RowAdded(c, e, kam) \in [Columns -> [Experts -> AnyOf]]
         /\ \A k \in Columns : RowAdded(c, e, kam)[k] \in Readings(k)
         /\ RowsWhole(RowAdded(c, e, kam))
         /\ RowAdded(c, e, kam)["expert_id"][e] = e
         /\ \A f \in Experts \ {e} : RowAdded(c, e, kam)["expert_id"][f] = c.pend["expert_id"][f]
<1> DEFINE row == NewRow(c, e, kam)
<1> DEFINE new == RowAdded(c, e, kam)
<1> DEFINE pend == c.pend
<1> DEFINE five == {"expert_id", "user_id", "phone", "language", "assigned_admin_id"}
<1>1. /\ DOMAIN row = five /\ row["expert_id"] = e /\ row["assigned_admin_id"] = kam
      /\ \A k \in Cells : row[k] = Fresh(Seen(c), k, e)
  BY DEF NewRow, Cells
<1>2. new = [k \in Columns |-> new[k]]
  BY DEF RowAdded
<1>3. \A k \in Columns : new[k] = IF k \in five THEN [pend[k] EXCEPT ![e] = row[k]] ELSE pend[k]
  BY <1>1 DEF RowAdded
<1> HIDE DEF new, row
<1>4. \A k \in Columns : pend[k] \in [Experts -> AnyOf]
  BY DEF CallRecords
<1>5. \A k \in Columns : /\ new[k] = [f \in Experts |-> new[k][f]]
                         /\ \A f \in Experts : f # e => new[k][f] = pend[k][f]
                         /\ k \in five => new[k][e] = row[k]
                         /\ k \notin five => new[k][e] = pend[k][e]
  BY <1>3, <1>4
<1>6. new["expert_id"][e] = e /\ new["assigned_admin_id"][e] = kam
  BY <1>1, <1>5 DEF Columns
<1>7. \A k \in Columns : new[k][e] \in Content(k) \cup {None}
  <2>1. \A k \in Cells : row[k] \in Content(k) \cup {None}
    BY <1>1, SeenIsTable, CellContent
  <2>2. \A k \in Cells : new[k][e] \in Content(k) \cup {None}
    BY <1>5, <2>1 DEF Cells, Columns
  <2>3. /\ new["expert_id"][e] \in Content("expert_id")
        /\ new["assigned_admin_id"][e] \in Content("assigned_admin_id")
    BY <1>6, Contents
  <2>4. \A k \in Columns \ five : new[k][e] \in Content(k) \cup {None}
    BY <1>5 DEF Readings
  <2> QED BY <2>2, <2>3, <2>4 DEF Cells
<1>8. \A k \in Columns, f \in Experts : new[k][f] \in Content(k) \cup {None}
  BY <1>5, <1>7 DEF Readings
<1>9. \A k \in Columns : new[k] \in Readings(k)
  BY <1>5, <1>8 DEF Readings
<1>10. new \in [Columns -> [Experts -> AnyOf]]
  BY <1>2, <1>9, ReadingsAreAny
<1>11. RowsWhole(new)
  <2>1. {"expert_id", "assigned_admin_id"} \subseteq Columns /\ kam # None
    BY NoneAssumption DEF Columns
  <2> QED BY ZenonT(60), <1>5, <1>6, <2>1 DEF RowsWhole
<1>12. "expert_id" \in Columns
  BY DEF Columns
<1> QED BY <1>5, <1>6, <1>9, <1>10, <1>11, <1>12 DEF new

\* The record of a call that has inserted a candidate.
LEMMA InsertedRecord ==
  ASSUME TableGood(db), NEW b \in CallRecords, NEW e \in b.todo, NEW kam \in Kams,
         RowsWhole(b.pend), \A k \in Columns : b.pend[k] \in Readings(k)
  PROVE  /\ Inserted(b, e, kam) \in CallRecords
         /\ Inserted(b, e, kam).pc = IF b.todo = {e} THEN "commit" ELSE "insert"
         /\ Inserted(b, e, kam).todo = b.todo \ {e}
         /\ Inserted(b, e, kam).pend = RowAdded(b, e, kam)
         /\ Inserted(b, e, kam).read = b.read /\ Inserted(b, e, kam).at = b.at
         /\ Inserted(b, e, kam).last = b.last /\ Inserted(b, e, kam).cycle = b.cycle
         /\ Inserted(b, e, kam).pendInfo = b.pendInfo /\ Inserted(b, e, kam).seen = b.seen
         /\ Inserted(b, e, kam).broken = b.broken
<1> DEFINE pend == RowAdded(b, e, kam)
<1> DEFINE c == [b EXCEPT !.pc = IF b.todo = {e} THEN "commit" ELSE "insert", !.todo = b.todo \ {e},
                          !.pend = pend]
<1>1. b.pend \in [Columns -> [Experts -> AnyOf]] /\ e \in Experts
  BY DEF CallRecords
<1>2. Inserted(b, e, kam) = c
  BY DEF Inserted, RowAdded, CallRecords
<1> HIDE DEF pend
<1>3. pend \in [Columns -> [Experts -> AnyOf]]
  BY <1>1, RowAddedIsGood DEF pend
<1>4. /\ c \in CallRecords /\ c.pc = (IF b.todo = {e} THEN "commit" ELSE "insert")
      /\ c.todo = b.todo \ {e} /\ c.pend = pend /\ c.read = b.read /\ c.at = b.at /\ c.last = b.last
      /\ c.cycle = b.cycle /\ c.pendInfo = b.pendInfo /\ c.seen = b.seen /\ c.broken = b.broken
  BY <1>3 DEF CallRecords, PCs
<1> QED BY <1>2, <1>4 DEF pend

\* A call that has inserted a candidate is as good as before.
LEMMA InsertedIsGood ==
  ASSUME SyncInv, NEW w \in Syncs, NEW e \in call[w].todo, NEW kam \in pick_kam(call[w].pool, e)
  PROVE  CallGood(Inserted(call[w], e, kam), db, steps)
<1> DEFINE b == call[w]
<1> DEFINE c == Inserted(b, e, kam)
<1>1. b \in CallRecords /\ e \in Experts /\ b.pend \in [Columns -> [Experts -> AnyOf]]
  BY CallFacts DEF CallRecords
<1>2. kam \in Kams
  BY <1>1 DEF pick_kam, CallRecords
<1>3. TableGood(db) /\ RowsWhole(b.pend) /\ \A k \in Columns : b.pend[k] \in Readings(k)
  BY CallFacts DEF SyncInv, DataGood
<1>4. /\ c \in CallRecords /\ c.pc = (IF b.todo = {e} THEN "commit" ELSE "insert")
      /\ c.todo = b.todo \ {e} /\ c.pend = RowAdded(b, e, kam) /\ c.read = b.read /\ c.at = b.at
      /\ c.last = b.last /\ c.cycle = b.cycle /\ c.pendInfo = b.pendInfo /\ c.seen = b.seen
      /\ c.broken = b.broken
  BY <1>1, <1>2, <1>3, InsertedRecord
<1>5. /\ \A k \in Columns : c.pend[k] \in Readings(k)
      /\ RowsWhole(c.pend)
      /\ c.pend["expert_id"][e] = e
      /\ \A f \in Experts \ {e} : c.pend["expert_id"][f] = b.pend["expert_id"][f]
  BY <1>1, <1>2, <1>3, <1>4, RowAddedIsGood
<1>6. b.pc = "insert" /\ steps[b.at] = Provision
  BY CallFacts DEF LinkGood, PlaceGood
<1> HIDE DEF c
<1>7. PlaceGood(c, steps)
  BY <1>4, <1>6, CallFacts DEF PlaceGood, Provision
<1>8. DataGood(c, steps)
  BY <1>4, <1>5, <1>6, CallFacts DEF DataGood
<1>9. LinkGood(c, db, steps)
  <2>1. c.todo \subseteq c.seen /\ (c.todo # {} => c.pc = "insert")
    BY <1>4, CallFacts DEF LinkGood
  <2>2. \A x \in c.seen : x \in c.todo \/ db["expert_id"][x] = x \/ c.pend["expert_id"][x] = x
    <3> SUFFICES ASSUME NEW x \in c.seen
                 PROVE  x \in c.todo \/ db["expert_id"][x] = x \/ c.pend["expert_id"][x] = x
      OBVIOUS
    <3>1. x \in Experts
      BY <1>4 DEF CallRecords
    <3>2. x \in b.todo \/ db["expert_id"][x] = x \/ b.pend["expert_id"][x] = x
      BY <1>4, <1>6, CallFacts DEF LinkGood
    <3> QED BY <1>4, <1>5, <3>1, <3>2
  <2>3. c.last.step = Provision /\ c.last.ok = TRUE => \A x \in c.seen : db["expert_id"][x] = x
    BY ZenonT(60), <1>4, CallFacts DEF LinkGood
  <2> QED BY <2>1, <2>2, <2>3 DEF LinkGood
<1> QED BY <1>4, <1>7, <1>8, <1>9 DEF CallGood, c

LEMMA InsertCandidateStep ==
  ASSUME SyncInv, NEW w \in Syncs, InsertCandidate(w)
  PROVE  SyncInv'
<1>1. PICK e \in call[w].todo :
        IF Clashes(db, e, UserFor(w, e)) \/ Clashes(call[w].pend, e, UserFor(w, e))
        THEN Fail(w, FlushFailed(call[w]), "collision")
        ELSE \E kam \in pick_kam(call[w].pool, e) : Goes(w, Inserted(call[w], e, kam))
  BY DEF InsertCandidate
<1>2. UNCHANGED <<ops, faults, steps>>
  BY DEF InsertCandidate
<1>3. CASE Fail(w, FlushFailed(call[w]), "collision")
  <2>1. WorldGood'
    BY <1>2, <1>3 DEF SyncInv, WorldGood, ops, Fail
  <2> QED BY <1>2, <1>3, <2>1, CallFacts, FailIsGood DEF Causes
<1>4. CASE \E kam \in pick_kam(call[w].pool, e) : Goes(w, Inserted(call[w], e, kam))
  <2>1. PICK kam \in pick_kam(call[w].pool, e) : Goes(w, Inserted(call[w], e, kam))
    BY <1>4
  <2> DEFINE c == Inserted(call[w], e, kam)
  <2>2. CallGood(c, db, steps)
    BY InsertedIsGood
  <2>3. Goes(w, c)
    BY <2>1
  <2> HIDE DEF c
  <2>4. call' = [call EXCEPT ![w] = c] /\ UNCHANGED <<db, info>>
    BY <2>3, CallFacts, GoesOn
  <2> QED BY <1>2, <2>2, <2>4, OneCallChanges DEF SyncInv, WorldGood, ops
<1> QED BY <1>1, <1>3, <1>4

LEMMA DeadlockBrokenStep ==
  ASSUME SyncInv, NEW w \in Syncs, DeadlockBroken(w)
  PROVE  SyncInv'
<1> DEFINE o == Onward(w, RolledBack(FlushFailed(call[w])), FALSE, "deadlock")
<1>1. PICK v \in Syncs \ {w} : \E e \in call[v].todo : \E kam \in pick_kam(call[v].pool, e) :
        call' = [call EXCEPT ![w] = o, ![v] = Inserted(call[v], e, kam)]
  BY DEF DeadlockBroken
<1>2. PICK e \in call[v].todo : \E kam \in pick_kam(call[v].pool, e) :
        call' = [call EXCEPT ![w] = o, ![v] = Inserted(call[v], e, kam)]
  BY <1>1
<1>3. PICK kam \in pick_kam(call[v].pool, e) :
        call' = [call EXCEPT ![w] = o, ![v] = Inserted(call[v], e, kam)]
  BY <1>2
<1> DEFINE c == Inserted(call[v], e, kam)
<1>4. UNCHANGED <<ops, faults, db, info, steps>>
  BY DEF DeadlockBroken
<1>5. CallGood(c, db, steps)
  BY InsertedIsGood
<1>6. CallGood(o, db, steps)
  <2> DEFINE r == RolledBack(FlushFailed(call[w]))
  <2>1. /\ r \in CallRecords /\ r.at = call[w].at
        /\ r.pend = NoWrites /\ r.pendInfo = NoInfo /\ r.broken = FALSE
    BY CallFacts, RolledBackIsClean
  <2> HIDE DEF r
  <2>2. CallGood(Onward(w, r, FALSE, "deadlock"), db, steps)
    BY <2>1, CallFacts, OnwardIsGood DEF Causes
  <2> QED BY <2>2 DEF r
<1>7. call' = [call EXCEPT ![w] = o, ![v] = c]
  BY <1>3
<1> HIDE DEF o, c
<1>8. DOMAIN call' = Syncs /\ call' = [u \in Syncs |-> call'[u]]
  BY <1>7 DEF SyncInv
<1>9. \A u \in Syncs : CallGood(call'[u], db, steps)
  BY <1>5, <1>6, <1>7 DEF SyncInv
<1> QED BY <1>4, <1>8, <1>9 DEF SyncInv, WorldGood, ops

LEMMA SyncProfilesStep ==
  ASSUME SyncInv, NEW w \in Syncs, SyncProfiles(w)
  PROVE  SyncInv'
<1> DEFINE b == call[w]
<1> DEFINE Changed(k, e) == Linked(e) /\ Fresh(db, k, e) \notin {None, db[k][e]}
<1> DEFINE pend == [k \in Columns |-> [e \in Experts |->
                      IF k \in Cells /\ Changed(k, e) THEN Fresh(db, k, e) ELSE None]]
<1> DEFINE c == [b EXCEPT !.pc = "commit", !.pend = pend]
<1>1. b.pc = "begin" /\ Step(w) = "astrologer_profiles"
  BY DEF SyncProfiles
<1>2. Goes(w, c) /\ UNCHANGED <<ops, faults, steps>>
  BY DEF SyncProfiles
<1>3. call' = [call EXCEPT ![w] = c] /\ UNCHANGED <<db, info>>
  <2> HIDE DEF c
  <2> QED BY <1>2, CallFacts, GoesOn
<1>4. db \in Tables
  BY DEF SyncInv, TableGood, Tables
<1>5. \A k \in Cells, e \in Experts : Fresh(db, k, e) \in Content(k) \cup {None}
  BY <1>4, CellContent
<1>6. \A k \in Columns, e \in Experts : pend[k][e] \in Content(k) \cup {None}
  BY <1>5
<1>7. \A e \in Experts : pend["expert_id"][e] = None
  BY DEF Columns, Cells
<1>8. pend = [k \in Columns |-> pend[k]] /\ \A k \in Columns : pend[k] = [e \in Experts |-> pend[k][e]]
  OBVIOUS
<1> HIDE DEF pend
<1>9. \A k \in Columns : pend[k] \in Readings(k)
  BY <1>6, <1>8 DEF Readings
<1>10. pend \in [Columns -> [Experts -> AnyOf]]
  BY <1>8, <1>9, ReadingsAreAny
<1>11. RowsWhole(pend)
  BY <1>7, NoneAssumption DEF RowsWhole
<1>12. /\ c \in CallRecords /\ c.pc = "commit" /\ c.read = b.read /\ c.at = b.at /\ c.last = b.last
       /\ c.pend = pend /\ c.cycle = b.cycle /\ c.pendInfo = b.pendInfo /\ c.broken = b.broken
       /\ c.todo = b.todo /\ c.seen = b.seen
  BY ZenonT(60), <1>10, CallFacts DEF CallRecords, PCs
<1> HIDE DEF c
<1>13. PlaceGood(c, steps)
  BY <1>1, <1>12, CallFacts DEF PlaceGood
<1>14. DataGood(c, steps)
  BY <1>1, <1>9, <1>11, <1>12, CallFacts DEF DataGood
<1>15. LinkGood(c, db, steps)
  BY ZenonT(60), <1>1, <1>12, CallFacts DEF LinkGood, Provision
<1>16. CallGood(c, db', steps)
  BY <1>3, <1>12, <1>13, <1>14, <1>15 DEF CallGood
<1> QED BY <1>2, <1>3, <1>16, OneCallChanges DEF SyncInv, WorldGood, ops

\* A commit: what was pending is in the table, the rest is what it was.
LEMMA CommittedIsGood ==
  ASSUME SyncInv, NEW pend \in [Columns -> [Experts -> AnyOf]],
         \A k \in Columns : pend[k] \in Readings(k), RowsWhole(pend),
         db' = [k \in Columns |-> [e \in Experts |-> IF pend[k][e] = None THEN db[k][e] ELSE pend[k][e]]]
  PROVE  /\ TableGood(db')
         /\ \A e \in Experts : db["expert_id"][e] = e \/ pend["expert_id"][e] = e => db'["expert_id"][e] = e
<1>1. /\ db' = [k \in Columns |-> db'[k]]
      /\ \A k \in Columns : db'[k] = [e \in Experts |-> db'[k][e]]
      /\ \A k \in Columns, e \in Experts : db'[k][e] = IF pend[k][e] = None THEN db[k][e] ELSE pend[k][e]
  OBVIOUS
<1>2. \A k \in Columns, e \in Experts : db'[k][e] \in Content(k) \cup {None}
  BY <1>1 DEF SyncInv, TableGood, Readings
<1>3. \A k \in Columns : db'[k] \in Readings(k)
  BY <1>1, <1>2 DEF Readings
<1>4. db' \in [Columns -> [Experts -> AnyOf]]
  BY <1>1, <1>3, ReadingsAreAny
<1>5. RowsWhole(db) /\ {"expert_id", "assigned_admin_id"} \subseteq Columns
  BY DEF SyncInv, TableGood, Columns
<1>6. RowsWhole(db')
  BY <1>1, <1>5, NoneAssumption DEF RowsWhole
<1>7. \A e \in Experts : db["expert_id"][e] = e \/ pend["expert_id"][e] = e => db'["expert_id"][e] = e
  BY <1>1, <1>5, NoneAssumption DEF RowsWhole
<1> QED BY <1>3, <1>4, <1>6, <1>7 DEF TableGood

LEMMA CommitStep ==
  ASSUME SyncInv, NEW w \in Syncs, Commit(w)
  PROVE  SyncInv'
<1> DEFINE b == call[w]
<1> DEFINE c == [b EXCEPT !.pend = NoWrites, !.pendInfo = NoInfo]
<1> DEFINE o == Onward(w, c, TRUE, "none")
<1>1. b.pc = "commit" /\ UNCHANGED <<ops, faults, steps>>
  BY DEF Commit
<1>2. CASE Collides(w)
  <2>1. Fail(w, FlushFailed(b), "collision")
    BY <1>2 DEF Commit
  <2>2. WorldGood'
    BY <1>1, <2>1 DEF SyncInv, WorldGood, ops, Fail
  <2> QED BY <1>1, <2>1, <2>2, CallFacts, FailIsGood DEF Causes
<1>3. CASE ~Collides(w)
  <2>1. /\ db' = [k \in Columns |-> [e \in Experts |->
                    IF b.pend[k][e] = None THEN db[k][e] ELSE b.pend[k][e]]]
        /\ info' = [k \in InfoColumns |-> IF b.pendInfo[k] = None THEN info[k] ELSE b.pendInfo[k]]
        /\ call' = [call EXCEPT ![w] = o]
    BY <1>3 DEF Commit, Succeed
  <2>2. /\ TableGood(db')
        /\ \A e \in Experts : db["expert_id"][e] = e \/ b.pend["expert_id"][e] = e => db'["expert_id"][e] = e
    <3>1. /\ b.pend \in [Columns -> [Experts -> AnyOf]] /\ RowsWhole(b.pend)
          /\ \A k \in Columns : b.pend[k] \in Readings(k)
      BY CallFacts DEF CallRecords, DataGood
    <3> QED BY <2>1, <3>1, CommittedIsGood
  <2>3. WorldGood'
    <3>1. b.pendInfo \in [InfoColumns -> InfoOf] /\ InfoTypeOK(b.pendInfo)
      BY CallFacts DEF CallRecords, DataGood
    <3>2. info' \in [InfoColumns -> InfoOf] /\ InfoTypeOK(info')
      BY <2>1, <3>1 DEF SyncInv, WorldGood, InfoTypeOK, InfoColumns
    <3> QED BY <1>1, <3>2 DEF SyncInv, WorldGood, ops
  <2>4. /\ c \in CallRecords /\ c.at = b.at /\ c.seen = b.seen /\ c.pend = NoWrites
        /\ c.pendInfo = NoInfo /\ c.broken = FALSE
    <3>1. b \in CallRecords /\ b.broken = FALSE
      BY CallFacts
    <3> HIDE DEF b
    <3> QED BY <3>1, NothingIsGood DEF CallRecords
  <2> HIDE DEF c
  <2>5. Step(w) = Provision => \A e \in c.seen : db'["expert_id"][e] = e
    <3>1. b.seen \subseteq Experts /\ b.todo = {}
      BY <1>1, CallFacts DEF CallRecords, LinkGood
    <3>2. Step(w) = Provision => \A e \in b.seen : db["expert_id"][e] = e \/ b.pend["expert_id"][e] = e
      BY <1>1, <3>1, CallFacts DEF LinkGood
    <3> QED BY <2>2, <2>4, <3>1, <3>2
  <2>6. CallGood(o, db', steps)
    BY <2>4, <2>5, CallFacts, OnwardIsGood DEF Causes
  <2> HIDE DEF o
  <2> QED BY <1>1, <2>1, <2>2, <2>3, <2>6, OneCallChanges
<1> QED BY <1>2, <1>3

\* What ops and the calendar do leaves the database and the calls alone.
LEMMA WorldStep ==
  ASSUME SyncInv, OpsEdits \/ OpsAddsTab \/ KamsChange \/ Tick
  PROVE  SyncInv'
<1>1. UNCHANGED <<faults, db, info, steps, call>>
  BY DEF OpsEdits, OpsAddsTab, KamsChange, Tick
<1>2. WorldGood'
  <2>1. CASE OpsEdits
    <3>1. PICK m \in Mirrors, e \in Experts : sheet' = [sheet EXCEPT ![m][e] = @ + 1]
      BY <2>1 DEF OpsEdits
    <3>2. sheet' \in [Mirrors -> [Experts -> Nat]]
      BY <3>1 DEF SyncInv, WorldGood
    <3> QED BY <1>1, <2>1, <3>2, SyncBounds DEF OpsEdits, SyncInv, WorldGood
  <2>2. CASE OpsAddsTab
    BY <1>1, <2>2 DEF OpsAddsTab, SyncInv, WorldGood
  <2>3. CASE KamsChange
    BY <1>1, <2>3 DEF KamsChange, SyncInv, WorldGood
  <2>4. CASE Tick
    BY <1>1, <2>4 DEF Tick, SyncInv, WorldGood
  <2> QED BY <2>1, <2>2, <2>3, <2>4
<1> QED BY <1>1, <1>2 DEF SyncInv

LEMMA SyncInvInit == Init => SyncInv
<1> SUFFICES ASSUME Init PROVE SyncInv
  OBVIOUS
<1>1. WorldGood
  <2>1. CANONICAL_CYCLE_NUMBER \in Copies /\ OldCycles \subseteq Cycles /\ OldCycles # {}
    BY CycleAssumption
  <2>2. tabs \subseteq Tabs /\ tabs # {}
    <3>1. PICK d \in OldCycles : TRUE
      BY <2>1
    <3>2. [date |-> d, copy |-> CANONICAL_CYCLE_NUMBER] \in tabs
      BY DEF Init
    <3>3. tabs \subseteq Tabs
      BY <2>1 DEF Init, Tabs
    <3> QED BY <3>2, <3>3
  <2>3. sheet \in [Mirrors -> [Experts -> Nat]]
    BY DEF Init
  <2>4. kams \subseteq Kams /\ today \in Days /\ edits \in 0..MaxEdits /\ faults \in 0..MaxFaults
    BY DayAssumption, SyncBounds DEF Init
  <2>5. info \in [InfoColumns -> InfoOf] /\ InfoTypeOK(info)
    BY NothingIsGood DEF Init
  <2> QED BY <2>2, <2>3, <2>4, <2>5 DEF Init, WorldGood
<1>2. TableGood(db)
  BY NothingIsGood DEF Init, TableGood
<1>3. DOMAIN call = Syncs /\ call = [w \in Syncs |-> call[w]] /\ \A w \in Syncs : call[w] = Resting
  BY DEF Init
<1>4. CallGood(Resting, db, steps)
  BY <1>1, RestingIsGood DEF WorldGood
<1> QED BY <1>1, <1>2, <1>3, <1>4 DEF SyncInv

LEMMA SyncInvStep == SyncInv /\ [Next]_vars => SyncInv'
<1> SUFFICES ASSUME SyncInv, [Next]_vars PROVE SyncInv'
  OBVIOUS
<1>1. CASE UNCHANGED vars
  BY <1>1 DEF SyncInv, WorldGood, vars, ops
<1>2. ASSUME NEW w \in Syncs, Start(w) \/ Runs(w) \/ SourceFails(w) \/ Dies(w)
      PROVE  SyncInv'
  <2>1. CASE Runs(w)
    BY <2>1, FetchMirrorStep, FetchPayoutStep, UpsertStep, SelectCandidatesStep, InsertCandidateStep,
       DeadlockBrokenStep, SyncProfilesStep, CommitStep DEF Runs
  <2> QED BY <1>2, <2>1, StartStep, SourceFailsStep, DiesStep
<1> QED BY <1>1, <1>2, WorldStep DEF Next

\* The inductive invariant of the sync, for any number of calls that overlap and any plan of steps
\* (sync_all, 462-509): what each call has read, found and pending fits the step it is in.
THEOREM SyncInvariant == Spec => []SyncInv
BY SyncInvInit, SyncInvStep, PTL DEF Spec

\* Type correctness: whatever calls overlap, fail and die, the tables, the sessions and
\* the results of the steps keep their types.
THEOREM SyncTypeCorrect == Spec => []TypeOK
<1>1. SyncInv => TypeOK
  <2> SUFFICES ASSUME SyncInv PROVE TypeOK
    OBVIOUS
  <2>1. TableTypeOK(db)
    BY DEF SyncInv, TableGood, TableTypeOK
  <2>2. ASSUME NEW w \in Syncs PROVE CallTypeOK(call[w])
    <3>1. TableTypeOK(call[w].pend) /\ TableTypeOK(call[w].rows)
      BY CallFacts DEF CallRecords, DataGood, TableTypeOK, Tables
    <3>2. call[w].last \in [step : Steps \cup {"none"}, ok : BOOLEAN,
                            cause : {"none", "source", "session", "collision", "deadlock", "kams"}]
      BY CallFacts DEF CallRecords, Ends, Causes
    <3>3. /\ call[w].pc \in {"idle", "begin", "fetched", "insert", "commit"}
          /\ call[w].seen \subseteq Experts /\ call[w].fresh \subseteq Experts
          /\ call[w].pool \subseteq Kams
      BY CallFacts DEF CallRecords, PCs
    <3>4. call[w].newInfo \in BOOLEAN /\ call[w].broken \in BOOLEAN
      BY CallFacts DEF CallRecords
    <3>5. /\ call[w].at \in DOMAIN steps
          /\ call[w].read = NoRows \/ call[w].read \in Readings(steps[call[w].at])
          /\ call[w].pc = "idle" => call[w].read = NoRows /\ call[w].pend = NoWrites
          /\ InfoTypeOK(call[w].cycle) /\ InfoTypeOK(call[w].pendInfo)
          /\ call[w].todo \subseteq call[w].seen
      BY CallFacts DEF DataGood, PlaceGood, LinkGood
    <3> QED BY <3>1, <3>2, <3>3, <3>4, <3>5 DEF CallTypeOK
  <2> QED BY <2>1, <2>2 DEF SyncInv, WorldGood, TypeOK
<1> QED BY <1>1, SyncInvariant, PTL

\* No step fails because the one before it did: the session that a failed flush leaves unusable
\* is rolled back before the next step uses it (466-509).
THEOREM SyncNoCascade == Spec => []NoCascade
<1>1. SyncInv => NoCascade
  BY CallFacts DEF NoCascade, DataGood
<1> QED BY <1>1, SyncInvariant, PTL

\* A provisioning step that reports success has linked every candidate it found, whichever of the
\* calls inserted the row, and what others commit later unlinks nobody (306-402).
THEOREM SyncOkMeansLinked == Spec => []OkMeansLinked
<1>1. SyncInv => OkMeansLinked
  BY CallFacts DEF OkMeansLinked, LinkGood, Linked, Provision
<1> QED BY <1>1, SyncInvariant, PTL

\* Nobody sees an astrologer without a KAM: the row and the assignment are committed
\* together, whatever fails and whoever else inserts (359-402).
THEOREM SyncProvisionedHasKam == Spec => []ProvisionedHasKam
<1>1. SyncInv => ProvisionedHasKam
  BY DEF SyncInv, TableGood, RowsWhole, ProvisionedHasKam, Linked, Absent
<1> QED BY <1>1, SyncInvariant, PTL
-----------------------------------------------------------------------------
(* What is committed.                                                       *)

\* Only a step that succeeds writes.
LEMMA OnlySuccessWrites ==
  ASSUME SyncInv, [Next]_vars, <<db, info>>' # <<db, info>>
  PROVE  \E w \in Syncs : call[w].pc = "commit" /\ Succeed(w, call[w])
<1>1. ~(UNCHANGED vars)
  BY DEF vars
<1>2. ~(OpsEdits \/ OpsAddsTab \/ KamsChange \/ Tick)
  BY DEF OpsEdits, OpsAddsTab, KamsChange, Tick
<1>3. PICK w \in Syncs : Start(w) \/ Runs(w) \/ SourceFails(w) \/ Dies(w)
  BY <1>1, <1>2 DEF Next
<1>4. ASSUME NEW c, NEW cause, Fail(w, c, cause) PROVE FALSE
  BY <1>4 DEF Fail
<1>5. ASSUME NEW c, Goes(w, c) PROVE FALSE
  BY <1>4, <1>5 DEF Goes
<1>6. ~Start(w) /\ ~FetchMirror(w) /\ ~FetchPayout(w) /\ ~DeadlockBroken(w) /\ ~Dies(w)
  BY DEF Start, FetchMirror, FetchPayout, DeadlockBroken, Dies
<1>7. ~SourceFails(w)
  BY <1>4 DEF SourceFails
<1>8. ~Upsert(w)
  BY <1>5 DEF Upsert
<1>9. ~SelectCandidates(w)
  BY <1>4, <1>5 DEF SelectCandidates
<1>10. ~InsertCandidate(w)
  BY <1>4, <1>5 DEF InsertCandidate
<1>11. ~SyncProfiles(w)
  BY <1>5 DEF SyncProfiles
<1>12. Commit(w)
  BY <1>3, <1>6, <1>7, <1>8, <1>9, <1>10, <1>11 DEF Runs
<1> QED BY <1>4, <1>12 DEF Commit

\* A failing step undoes itself and nothing else: the tables change only in a step that reports
\* success, and that step is the one the call was at (sync_all's docstring, 462-509).
THEOREM SyncFailedStepWritesNothing == Spec => FailedStepWritesNothing
<1> DEFINE Said == <<db, info>>' # <<db, info>> =>
       \E w \in Syncs : call'[w] # call[w] /\ call'[w].last.ok /\ call'[w].last.step = Step(w)
<1>1. SyncInv /\ [Next]_vars => Said
  <2> SUFFICES ASSUME SyncInv, [Next]_vars, <<db, info>>' # <<db, info>>
               PROVE  \E w \in Syncs : call'[w] # call[w] /\ call'[w].last.ok /\ call'[w].last.step = Step(w)
    OBVIOUS
  <2>1. PICK w \in Syncs : call[w].pc = "commit" /\ Succeed(w, call[w])
    BY OnlySuccessWrites
  <2> DEFINE b == call[w]
  <2> DEFINE c == [b EXCEPT !.pend = NoWrites, !.pendInfo = NoInfo]
  <2> DEFINE o == Onward(w, c, TRUE, "none")
  <2>2. call' = [call EXCEPT ![w] = o]
    BY <2>1 DEF Succeed
  <2>3. c \in CallRecords /\ c.at = b.at
    <3>1. b \in CallRecords
      BY CallFacts
    <3> HIDE DEF b
    <3> QED BY <3>1, NothingIsGood DEF CallRecords
  <2> HIDE DEF c
  <2>4. call'[w].pc \in {"idle", "begin"} /\ call'[w].last.ok = TRUE /\ call'[w].last.step = Step(w)
    <3>1. steps \in Plans /\ b.at \in DOMAIN steps /\ call'[w] = o
      BY <2>2, CallFacts
    <3>2. ASSUME NEW ok \in BOOLEAN, NEW p, p = Onward(w, c, ok, "none")
          PROVE  p.pc \in {"idle", "begin"} /\ p.last.step = Step(w) /\ p.last.ok = ok
      <4>1. p.pc = (IF c.at = Len(steps) THEN "idle" ELSE "begin") /\ p.last.step = Step(w) /\ p.last.ok = ok
        BY <2>3, <3>1, <3>2, OnwardRecord DEF Causes
      <4> QED BY <4>1
    <3> QED BY <3>1, <3>2, Zenon
  <2>5. call'[w] # call[w]
    BY <2>1, <2>4
  <2> QED BY <2>4, <2>5
<1> QED BY <1>1, SyncInvariant, PTL DEF Spec, FailedStepWritesNothing
-----------------------------------------------------------------------------
(* The payout cycle that is shown.                                          *)

\* A tab that is there stays there, and a row that has been filled stays so.
LEMMA CycleGoodKept ==
  ASSUME NEW c, NEW i, NEW j, NEW T, NEW U, CycleGood(c, i, T), T \subseteq U, j = i \/ Filled(j)
  PROVE  CycleGood(c, j, U)
<1>1. ASSUME NEW r, RowReal(r, T) PROVE RowReal(r, U)
  BY <1>1 DEF RowReal, Follows
<1> QED BY <1>1 DEF CycleGood

LEMMA CycleEmptyIsGood ==
  ASSUME NEW c, CycleEmpty(c), NEW i, NEW T
  PROVE  CycleGood(c, i, T)
<1>1. RowReal(NoInfo, T)
  BY NothingIsGood DEF RowReal, InfoColumns
<1> QED BY <1>1 DEF CycleGood, CycleEmpty

\* When one call has changed and the row of the cycle is real, the others are as good.
LEMMA OneCycleChanges ==
  ASSUME SyncInv, CycleInv, NEW w \in Syncs, NEW c, call' = [call EXCEPT ![w] = c],
         CycleGood(c, info', tabs), tabs' = tabs, today' = today,
         info' = info \/ (Filled(info') /\ RowReal(info', tabs))
  PROVE  CycleInv'
<1>1. ASSUME NEW v \in Syncs PROVE CycleGood(call'[v], info', tabs')
  <2>1. CASE v = w
    BY <2>1 DEF SyncInv
  <2>2. CASE v # w
    <3>1. call'[v] = call[v] /\ CycleGood(call[v], info, tabs)
      BY <2>2 DEF SyncInv, CycleInv
    <3> QED BY <3>1, CycleGoodKept
  <2> QED BY <2>1, <2>2
<1> QED BY <1>1 DEF CycleInv

LEMMA FailKeepsCycle ==
  ASSUME SyncInv, CycleInv, NEW w \in Syncs, NEW b \in CallRecords, b.at = call[w].at,
         NEW c, c = b \/ c = FlushFailed(b), NEW cause \in Causes, cause # "session",
         Fail(w, c, cause), tabs' = tabs, today' = today
  PROVE  CycleInv'
<1>1. PICK o : call' = [call EXCEPT ![w] = o] /\ CycleEmpty(o)
  BY FailLeaves
<1>2. info' = info
  BY FailLeaves
<1> QED BY <1>1, <1>2, CycleEmptyIsGood, OneCycleChanges

\* A call that has changed, but for its cycle.
LEMMA SameCycleIsGood ==
  ASSUME NEW b, NEW c, NEW i, NEW T, CycleGood(b, i, T), b.pc \notin {"fetched", "commit"},
         c.cycle = b.cycle, c.pendInfo = b.pendInfo
  PROVE  CycleGood(c, i, T)
BY DEF CycleGood

LEMMA FetchPayoutCycle ==
  ASSUME WithinAYear, SyncInv, CycleInv, NEW w \in Syncs, FetchPayout(w)
  PROVE  CycleInv'
<1>1. call[w].pc = "begin" /\ UNCHANGED <<ops, info>>
  BY DEF FetchPayout
<1> DEFINE latest == latest_payout_cycle(today)
<1> DEFINE found(listed) ==
      [latest_cycle_tab |-> IF listed THEN latest.tab ELSE PAYOUT_CYCLE_TAB,
       latest_cycle_date |-> latest.date, next_payout_date |-> next_payout_date(latest.date, today)]
<1>2. PICK listed \in BOOLEAN : \E read :
        call' = [call EXCEPT ![w].pc = "fetched", ![w].read = read,
                             ![w].cycle = IF listed THEN found(listed) ELSE NoInfo]
  BY DEF FetchPayout
<1>3. PICK read : call' = [call EXCEPT ![w].pc = "fetched", ![w].read = read,
                                       ![w].cycle = IF listed THEN found(listed) ELSE NoInfo]
  BY <1>2
<1>4. PICK t \in tabs :
        /\ t \in Tabs /\ t.date \in Nat /\ latest.tab = t
        /\ latest.date = parse_cycle_tab_date(MonthDay(t.date), today)
  BY LatestIsGood
<1>5. today \in Nat /\ today >= YearDays /\ t.date <= today + 3 /\ today < t.date + YearDays - 3
  BY <1>4, DayAssumption DEF SyncInv, WorldGood, CycleInv, WithinAYear, Tabs
<1>6. latest.date = t.date
  BY <1>4, <1>5, ParsedIsRight
<1>7. next_payout_date(t.date, today) \in Nat /\ Follows(next_payout_date(t.date, today), tabs)
  BY <1>4, <1>5, NextFollows
<1> HIDE DEF latest
<1>8. listed => RowReal(found(listed), tabs) /\ Filled(found(listed))
  BY <1>4, <1>6, <1>7, NoneAssumption DEF RowReal, Filled, InfoColumns
<1> DEFINE cycle == IF listed THEN found(listed) ELSE NoInfo
<1>9. RowReal(cycle, tabs) /\ (cycle = NoInfo \/ Filled(cycle))
  <2>1. RowReal(NoInfo, tabs)
    BY NothingIsGood DEF RowReal, InfoColumns
  <2> QED BY <1>8, <2>1
<1> DEFINE c == [call[w] EXCEPT !.pc = "fetched", !.read = read, !.cycle = cycle]
<1>10. call' = [call EXCEPT ![w] = c]
  BY <1>3, CallFacts
<1> HIDE DEF cycle
<1>11. c.pc = "fetched" /\ c.cycle = cycle /\ c.pendInfo = call[w].pendInfo
  BY CallFacts DEF CallRecords
<1> HIDE DEF c
<1>12. CycleGood(c, info, tabs)
  BY <1>1, <1>9, <1>11 DEF CycleGood, CycleInv
<1> QED BY <1>1, <1>10, <1>12, OneCycleChanges DEF ops

\* A step that does not look at the payout cycle.
LEMMA OtherStepKeepsCycle ==
  ASSUME SyncInv, CycleInv, NEW w \in Syncs, call[w].pc \notin {"fetched", "commit"},
         NEW c, c.cycle = call[w].cycle, c.pendInfo = call[w].pendInfo,
         call' = [call EXCEPT ![w] = c], tabs' = tabs, today' = today, info' = info
  PROVE  CycleInv'
<1>1. CycleGood(call[w], info, tabs)
  BY DEF CycleInv
<1>2. CycleGood(c, info', tabs)
  BY <1>1, SameCycleIsGood
<1> QED BY <1>2, OneCycleChanges

LEMMA StartCycle ==
  ASSUME SyncInv, CycleInv, NEW w \in Syncs, Start(w) \/ Dies(w)
  PROVE  CycleInv'
<1>1. PICK c : call' = [call EXCEPT ![w] = c] /\ CycleEmpty(c)
  <2>1. CASE Start(w)
    <3> DEFINE c == [Resting EXCEPT !.pc = "begin"]
    <3>1. call' = [call EXCEPT ![w] = c]
      BY <2>1 DEF Start
    <3>2. CycleEmpty(c)
      BY DEF CycleEmpty, Resting
    <3> HIDE DEF c
    <3> QED BY <3>1, <3>2
  <2>2. CASE Dies(w)
    <3>1. call' = [call EXCEPT ![w] = Resting]
      BY <2>2 DEF Dies
    <3>2. CycleEmpty(Resting)
      BY DEF CycleEmpty, Resting
    <3> QED BY <3>1, <3>2
  <2> QED BY <2>1, <2>2
<1>2. UNCHANGED <<ops, info>>
  BY DEF Start, Dies
<1> QED BY <1>1, <1>2, CycleEmptyIsGood, OneCycleChanges DEF ops

LEMMA FetchMirrorCycle ==
  ASSUME SyncInv, CycleInv, NEW w \in Syncs, FetchMirror(w)
  PROVE  CycleInv'
<1> DEFINE read == [e \in Experts |-> IF sheet[Step(w)][e] = 0 THEN None ELSE sheet[Step(w)][e]]
<1> DEFINE c == [call[w] EXCEPT !.pc = "fetched", !.read = read]
<1>1. call[w].pc = "begin" /\ UNCHANGED <<ops, info>>
  BY DEF FetchMirror
<1>2. call' = [call EXCEPT ![w] = c]
  BY CallFacts DEF FetchMirror
<1> HIDE DEF read
<1>3. c.pc = "fetched" /\ c.cycle = call[w].cycle /\ c.pendInfo = call[w].pendInfo
  BY CallFacts DEF CallRecords
<1> HIDE DEF c
<1> QED BY <1>1, <1>2, <1>3, OtherStepKeepsCycle DEF ops

LEMMA UpsertCycle ==
  ASSUME SyncInv, CycleInv, NEW w \in Syncs, Upsert(w)
  PROVE  CycleInv'
<1> DEFINE b == call[w]
<1> DEFINE k == Step(w)
<1> DEFINE listed == {e \in Experts : b.read[e] # None}
<1> DEFINE new == {e \in listed : Absent(k, e)}
<1> DEFINE values == [e \in Experts |-> IF e \in listed /\ b.read[e] # db[k][e] THEN b.read[e] ELSE None]
<1> DEFINE row == [j \in InfoColumns |-> IF b.cycle # NoInfo /\ b.cycle[j] # info[j] THEN b.cycle[j] ELSE None]
<1> DEFINE flag == (info = NoInfo)
<1> DEFINE c == Upserted(b, k, values, new, flag, row)
<1>1. b.pc = "fetched" /\ k \in Mirrors \cup {"payout_status"}
  BY CallFacts DEF Upsert, PlaceGood
<1>2. Goes(w, c) /\ UNCHANGED ops
  BY DEF Upsert, Upserted
<1>3. call' = [call EXCEPT ![w] = c] /\ info' = info
  <2> HIDE DEF c
  <2> QED BY <1>2, CallFacts, GoesOn
<1>4. k \in Columns
  BY <1>1 DEF Columns
<1>5. values \in [Experts -> AnyOf]
  <2>1. b.read \in [Experts -> AnyOf]
    BY CallFacts DEF CallRecords
  <2> QED BY <2>1 DEF AnyOf
<1>6. b.cycle \in [InfoColumns -> InfoOf] /\ row \in [InfoColumns -> InfoOf]
  <2>1. b.cycle \in [InfoColumns -> InfoOf]
    BY CallFacts DEF CallRecords
  <2> QED BY <2>1 DEF InfoOf
<1>7. \A j \in InfoColumns : row[j] = IF b.cycle # NoInfo /\ b.cycle[j] # info[j] THEN b.cycle[j] ELSE None
  OBVIOUS
<1> HIDE DEF values, row
<1>7a. b \in CallRecords /\ flag \in BOOLEAN /\ k \in Columns
  BY <1>4, CallFacts
<1>8. new \in SUBSET Experts /\ c = Upserted(b, k, values, new, flag, row)
  OBVIOUS
<1> HIDE DEF new, listed, flag, c, b, k
<1>9. c.pc = "commit" /\ c.cycle = b.cycle /\ c.pendInfo = row /\ c.newInfo = flag
  <2> DEFINE u == Upserted(b, k, values, new, flag, row)
  <2>1. u.pc = "commit" /\ u.cycle = b.cycle /\ u.pendInfo = row /\ u.newInfo = flag
    BY <1>7a, UpsertedCycle
  <2>2. c = u
    BY <1>8
  <2> HIDE DEF u
  <2> QED BY <2>1, <2>2
<1>10. /\ RowReal(b.cycle, tabs) /\ (b.cycle = NoInfo \/ Filled(b.cycle))
       /\ info = NoInfo \/ Filled(info)
  BY DEF CycleInv, CycleGood, b
<1>11. RowReal(row, tabs)
  BY <1>7, <1>10 DEF RowReal, InfoColumns
<1>12. b.cycle = NoInfo => row = NoInfo
  BY <1>6, <1>7 DEF NoInfo
<1>13. b.cycle # NoInfo => IF flag THEN Filled(row) ELSE Filled(info)
  <2>1. ASSUME b.cycle # NoInfo, info = NoInfo PROVE Filled(row)
    BY <1>7, <1>10, <2>1, NothingIsGood DEF Filled
  <2> QED BY <1>10, <2>1 DEF flag
<1>14. CycleGood(c, info', tabs)
  <2>1. /\ RowReal(c.cycle, tabs) /\ RowReal(c.pendInfo, tabs)
        /\ c.cycle = NoInfo \/ Filled(c.cycle)
        /\ c.pc \notin {"fetched", "commit"} => c.cycle = NoInfo
        /\ c.pc # "commit" \/ c.cycle = NoInfo => c.pendInfo = NoInfo
    BY <1>9, <1>10, <1>11, <1>12
  <2>2. c.pc = "commit" /\ c.cycle # NoInfo => IF c.newInfo = TRUE THEN Filled(c.pendInfo) ELSE Filled(info')
    BY <1>3, <1>9, <1>13, Zenon
  <2> QED BY <2>1, <2>2, Zenon DEF CycleGood
<1> QED BY <1>2, <1>3, <1>14, OneCycleChanges DEF ops

LEMMA SelectCandidatesCycle ==
  ASSUME SyncInv, CycleInv, NEW w \in Syncs, SelectCandidates(w)
  PROVE  CycleInv'
<1>1. call[w].pc = "begin" /\ UNCHANGED ops
  BY DEF SelectCandidates
<1>2. ASSUME NEW c \in CallRecords, Fail(w, c, "kams"), c.at = call[w].at PROVE CycleInv'
  BY <1>1, <1>2, FailKeepsCycle DEF Causes, ops
<1>3. ASSUME NEW c, c.cycle = call[w].cycle, c.pendInfo = call[w].pendInfo,
             call' = [call EXCEPT ![w] = c], info' = info
      PROVE  CycleInv'
  BY <1>1, <1>3, OtherStepKeepsCycle DEF ops
<1> QED BY <1>2, <1>3, SelectCandidatesCases

\* A candidate that is inserted has nothing to do with the cycle.
LEMMA InsertedCycle ==
  ASSUME SyncInv, CycleInv, NEW w \in Syncs, call[w].pc = "insert",
         NEW e \in call[w].todo, NEW kam \in pick_kam(call[w].pool, e)
  PROVE  /\ Inserted(call[w], e, kam).cycle = call[w].cycle
         /\ Inserted(call[w], e, kam).pendInfo = call[w].pendInfo
         /\ CycleGood(Inserted(call[w], e, kam), info, tabs)
<1>1. call[w] \in CallRecords
  BY CallFacts
<1>2. kam \in Kams
  BY <1>1 DEF pick_kam, CallRecords
<1>3. TableGood(db) /\ RowsWhole(call[w].pend) /\ \A k \in Columns : call[w].pend[k] \in Readings(k)
  BY CallFacts DEF SyncInv, DataGood
<1>4. /\ Inserted(call[w], e, kam).cycle = call[w].cycle
      /\ Inserted(call[w], e, kam).pendInfo = call[w].pendInfo
  BY <1>1, <1>2, <1>3, InsertedRecord
<1>5. CycleGood(call[w], info, tabs)
  BY DEF CycleInv
<1> QED BY <1>4, <1>5, SameCycleIsGood

LEMMA InsertCandidateCycle ==
  ASSUME SyncInv, CycleInv, NEW w \in Syncs, InsertCandidate(w)
  PROVE  CycleInv'
<1>1. PICK e \in call[w].todo :
        IF Clashes(db, e, UserFor(w, e)) \/ Clashes(call[w].pend, e, UserFor(w, e))
        THEN Fail(w, FlushFailed(call[w]), "collision")
        ELSE \E kam \in pick_kam(call[w].pool, e) : Goes(w, Inserted(call[w], e, kam))
  BY DEF InsertCandidate
<1>2. call[w].pc = "insert" /\ UNCHANGED ops
  BY DEF InsertCandidate
<1>3. CASE Fail(w, FlushFailed(call[w]), "collision")
  BY <1>2, <1>3, CallFacts, FailKeepsCycle DEF Causes, ops
<1>4. CASE \E kam \in pick_kam(call[w].pool, e) : Goes(w, Inserted(call[w], e, kam))
  <2>1. PICK kam \in pick_kam(call[w].pool, e) : Goes(w, Inserted(call[w], e, kam))
    BY <1>4
  <2> DEFINE c == Inserted(call[w], e, kam)
  <2>2. c.cycle = call[w].cycle /\ c.pendInfo = call[w].pendInfo
    BY <1>2, InsertedCycle
  <2>3. Goes(w, c)
    BY <2>1
  <2> HIDE DEF c
  <2>4. call' = [call EXCEPT ![w] = c] /\ info' = info
    BY <2>3, CallFacts, GoesOn
  <2> QED BY <1>2, <2>2, <2>4, OtherStepKeepsCycle DEF ops
<1> QED BY <1>1, <1>3, <1>4

\* The call that loses its candidates to a deadlock has no cycle, nor has the one that goes on.
LEMMA DeadlockBrokenCycle ==
  ASSUME SyncInv, CycleInv, NEW w \in Syncs, DeadlockBroken(w)
  PROVE  CycleInv'
<1> DEFINE r == RolledBack(FlushFailed(call[w]))
<1> DEFINE o == Onward(w, r, FALSE, "deadlock")
<1>1. PICK v \in Syncs \ {w} : \E e \in call[v].todo : \E kam \in pick_kam(call[v].pool, e) :
        call' = [call EXCEPT ![w] = o, ![v] = Inserted(call[v], e, kam)]
  BY DEF DeadlockBroken
<1>2. PICK e \in call[v].todo : \E kam \in pick_kam(call[v].pool, e) :
        call' = [call EXCEPT ![w] = o, ![v] = Inserted(call[v], e, kam)]
  BY <1>1
<1>3. PICK kam \in pick_kam(call[v].pool, e) :
        call' = [call EXCEPT ![w] = o, ![v] = Inserted(call[v], e, kam)]
  BY <1>2
<1> DEFINE c == Inserted(call[v], e, kam)
<1>4. UNCHANGED <<ops, info>>
  BY DEF DeadlockBroken
<1>5. CycleGood(c, info, tabs)
  <2>1. call[v].pc = "insert"
    BY CallFacts DEF LinkGood
  <2> QED BY <2>1, InsertedCycle
<1>6. CycleGood(o, info, tabs)
  <2>1. /\ r \in CallRecords /\ r.at = call[w].at
        /\ r.pend = NoWrites /\ r.pendInfo = NoInfo /\ r.broken = FALSE
    BY CallFacts, RolledBackIsClean
  <2> HIDE DEF r
  <2>2. CycleEmpty(o)
    BY <2>1, CallFacts, OnwardIsGood DEF Causes
  <2> HIDE DEF o
  <2> QED BY <2>2, CycleEmptyIsGood
<1>7. call' = [call EXCEPT ![w] = o, ![v] = c]
  BY <1>3
<1> HIDE DEF o, c
<1>8. \A u \in Syncs : CycleGood(call'[u], info, tabs)
  BY <1>5, <1>6, <1>7 DEF SyncInv, CycleInv
<1> QED BY <1>4, <1>8 DEF CycleInv, ops

LEMMA SyncProfilesCycle ==
  ASSUME SyncInv, CycleInv, NEW w \in Syncs, SyncProfiles(w)
  PROVE  CycleInv'
<1>1. PICK pend : Goes(w, [call[w] EXCEPT !.pc = "commit", !.pend = pend])
  BY DEF SyncProfiles
<1> DEFINE c == [call[w] EXCEPT !.pc = "commit", !.pend = pend]
<1>2. call[w].pc = "begin" /\ UNCHANGED ops
  BY DEF SyncProfiles
<1>3. c.cycle = call[w].cycle /\ c.pendInfo = call[w].pendInfo
  BY CallFacts DEF CallRecords
<1>4. Goes(w, c)
  BY <1>1
<1> HIDE DEF c
<1>5. call' = [call EXCEPT ![w] = c] /\ info' = info
  BY <1>4, CallFacts, GoesOn
<1> QED BY <1>2, <1>3, <1>5, OtherStepKeepsCycle DEF ops

LEMMA SourceFailsCycle ==
  ASSUME SyncInv, CycleInv, NEW w \in Syncs, SourceFails(w)
  PROVE  CycleInv'
<1>1. Fail(w, call[w], "source") /\ UNCHANGED ops
  BY DEF SourceFails
<1> QED BY <1>1, CallFacts, FailKeepsCycle DEF Causes, ops

\* Some columns of one real row over those of another.
LEMMA MixedRow ==
  ASSUME NEW T, NEW i, NEW j, RowReal(i, T), RowReal(j, T), NEW r,
         r = [k \in InfoColumns |-> IF j[k] = None THEN i[k] ELSE j[k]]
  PROVE  RowReal(r, T) /\ (Filled(i) \/ Filled(j) => Filled(r))
BY DEF RowReal, Filled, InfoColumns

LEMMA CommitCycle ==
  ASSUME SyncInv, CycleInv, NEW w \in Syncs, Commit(w)
  PROVE  CycleInv'
<1> DEFINE b == call[w]
<1> DEFINE c == [b EXCEPT !.pend = NoWrites, !.pendInfo = NoInfo]
<1> DEFINE o == Onward(w, c, TRUE, "none")
<1>1. b.pc = "commit" /\ UNCHANGED ops
  BY DEF Commit
<1>2. CASE Collides(w)
  <2>1. Fail(w, FlushFailed(b), "collision")
    BY <1>2 DEF Commit
  <2> QED BY <1>1, <2>1, CallFacts, FailKeepsCycle DEF Causes, ops
<1>3. CASE ~Collides(w)
  <2>1. /\ info' = [k \in InfoColumns |-> IF b.pendInfo[k] = None THEN info[k] ELSE b.pendInfo[k]]
        /\ call' = [call EXCEPT ![w] = o] /\ Succeed(w, b)
    BY <1>3 DEF Commit, Succeed
  <2>2. CycleEmpty(o)
    <3>1. /\ c \in CallRecords /\ c.at = b.at /\ c.seen = b.seen /\ c.pend = NoWrites
          /\ c.pendInfo = NoInfo /\ c.broken = FALSE
      <4>1. b \in CallRecords /\ b.broken = FALSE
        BY CallFacts
      <4> HIDE DEF b
      <4> QED BY <4>1, NothingIsGood DEF CallRecords
    <3>2. steps \in Plans /\ b.at \in DOMAIN steps
      BY CallFacts
    <3> HIDE DEF c, b
    <3>3. ASSUME NEW ok \in BOOLEAN, NEW p, p = Onward(w, c, ok, "none")
          PROVE  CycleEmpty(p)
      BY <3>1, <3>2, <3>3, OnwardRecord DEF Causes, CycleEmpty, b
    <3> QED BY <3>3, Zenon
  <2>3. /\ RowReal(info, tabs) /\ RowReal(b.pendInfo, tabs)
        /\ b.cycle = NoInfo => b.pendInfo = NoInfo
        /\ b.cycle # NoInfo => IF b.newInfo = TRUE THEN Filled(b.pendInfo) ELSE Filled(info)
    BY <1>1 DEF CycleInv, CycleGood
  <2>4. RowReal(info', tabs) /\ (Filled(info) \/ Filled(b.pendInfo) => Filled(info'))
    BY <2>1, <2>3, MixedRow
  <2>5. info' = info \/ Filled(info')
    <3>1. CASE b.cycle = NoInfo
      <4>1. info' = [k \in InfoColumns |-> info[k]]
        BY <2>1, <2>3, <3>1, NothingIsGood
      <4>2. info = [k \in InfoColumns |-> info[k]]
        BY DEF SyncInv, WorldGood
      <4> QED BY <4>1, <4>2
    <3>2. CASE b.cycle # NoInfo
      BY <2>3, <2>4, <3>2
    <3> QED BY <3>1, <3>2
  <2> HIDE DEF o
  <2>6. CycleGood(o, info', tabs)
    BY <2>2, CycleEmptyIsGood
  <2> QED BY <1>1, <2>1, <2>4, <2>5, <2>6, OneCycleChanges DEF ops
<1> QED BY <1>2, <1>3

\* Tabs are only added, and none from further ahead than a title can be told from last year's.
LEMMA WorldCycle ==
  ASSUME SyncInv, CycleInv, OpsEdits \/ OpsAddsTab \/ KamsChange \/ Tick
  PROVE  CycleInv'
<1>1. UNCHANGED <<info, call>>
  BY DEF OpsEdits, OpsAddsTab, KamsChange, Tick
<1>2. tabs \subseteq tabs' /\ \A t \in tabs' : t.date <= today' + 3
  <2>1. CASE OpsEdits \/ KamsChange
    BY <2>1 DEF OpsEdits, KamsChange, CycleInv
  <2>2. CASE OpsAddsTab
    BY <2>2 DEF OpsAddsTab, CycleInv
  <2>3. CASE Tick
    <3>1. PICK d \in Days : d > today /\ today' = d
      BY <2>3 DEF Tick
    <3>2. tabs' = tabs /\ today \in Nat /\ d \in Nat /\ \A t \in tabs : t.date \in Nat
      BY <2>3, DayAssumption, CycleAssumption DEF Tick, SyncInv, WorldGood, Tabs
    <3> QED BY <3>1, <3>2 DEF CycleInv
  <2> QED BY <2>1, <2>2, <2>3
<1>3. RowReal(info', tabs')
  BY <1>1, <1>2 DEF CycleInv, RowReal, Follows
<1>4. \A w \in Syncs : CycleGood(call'[w], info', tabs')
  BY <1>1, <1>2, CycleGoodKept DEF CycleInv
<1> QED BY <1>1, <1>2, <1>3, <1>4 DEF CycleInv

LEMMA CycleInvInit == Init => CycleInv
<1> SUFFICES ASSUME Init PROVE CycleInv
  OBVIOUS
<1>1. \A t \in tabs : t.date <= today + 3
  BY DayAssumption DEF Init
<1>2. RowReal(info, tabs)
  BY NothingIsGood DEF Init, RowReal, InfoColumns
<1>3. CycleEmpty(Resting)
  BY DEF CycleEmpty, Resting
<1> QED BY <1>1, <1>2, <1>3, CycleEmptyIsGood DEF Init, CycleInv

LEMMA CycleInvStep ==
  ASSUME WithinAYear, SyncInv, CycleInv, [Next]_vars
  PROVE  CycleInv'
<1>1. CASE UNCHANGED vars
  BY <1>1 DEF CycleInv, vars, ops
<1>2. ASSUME NEW w \in Syncs, Start(w) \/ Runs(w) \/ SourceFails(w) \/ Dies(w)
      PROVE  CycleInv'
  <2>1. CASE Runs(w)
    BY <2>1, FetchMirrorCycle, FetchPayoutCycle, UpsertCycle, SelectCandidatesCycle,
       InsertCandidateCycle, DeadlockBrokenCycle, SyncProfilesCycle, CommitCycle DEF Runs
  <2> QED BY <1>2, <2>1, StartCycle, SourceFailsCycle
<1> QED BY <1>1, <1>2, WorldCycle DEF Next

LEMMA CycleInvariant == ASSUME WithinAYear PROVE Spec => []CycleInv
<1>1. SyncInv /\ CycleInv /\ [Next]_vars => CycleInv'
  BY CycleInvStep
<1> QED BY <1>1, CycleInvInit, SyncInvariant, PTL DEF Spec

\* The cycle shown to astrologers is one that ops has a tab for, in the right year, and the next
\* payout is a whole number of fortnights after such a cycle, however calls overlap and however
\* they fail, when no tab is as old as a year (_parse_cycle_tab_date and its callers, 85-169; 296-301).
THEOREM SyncPayoutCycleIsReal ==
  ASSUME WithinAYear
  PROVE  Spec => []PayoutCycleIsReal
<1>1. CycleInv => PayoutCycleIsReal
  <2> SUFFICES ASSUME CycleInv, info # NoInfo PROVE PayoutCycleIsReal
    BY DEF PayoutCycleIsReal
  <2>1. RowReal(info, tabs) /\ info["latest_cycle_date"] # None /\ info["next_payout_date"] # None
    BY DEF CycleInv, Filled, InfoColumns
  <2> QED BY <2>1 DEF PayoutCycleIsReal, RowReal, Follows
<1> QED BY <1>1, CycleInvariant, PTL

\* Cycles are a fortnight apart, as ops makes them (160-164).
Fortnightly == \A c, d \in Cycles : (c - d) % PAYOUT_CYCLE_DAYS = 0

\* When the cycles of ops lie on one fortnightly grid, the next payout shown lies on it too, after
\* the cycle shown or before it, whichever two calls have filled the row (160-169, 296-301).
THEOREM SyncNextPayoutOnGrid ==
  ASSUME WithinAYear, Fortnightly
  PROVE  Spec => [](info # NoInfo =>
           (info["next_payout_date"] - info["latest_cycle_date"]) % PAYOUT_CYCLE_DAYS = 0)
<1> DEFINE n == info["next_payout_date"]
<1> DEFINE m == info["latest_cycle_date"]
<1>1. SyncInv /\ CycleInv => (info # NoInfo => (n - m) % PAYOUT_CYCLE_DAYS = 0)
  <2> SUFFICES ASSUME SyncInv, CycleInv, info # NoInfo PROVE (n - m) % PAYOUT_CYCLE_DAYS = 0
    OBVIOUS
  <2>1. n \in Nat /\ m \in {t.date : t \in tabs} /\ Follows(n, tabs)
    BY DEF SyncInv, WorldGood, InfoTypeOK, CycleInv, RowReal, Filled, InfoColumns
  <2>2. PICK s \in tabs : m = s.date
    BY <2>1
  <2>3. PICK t \in tabs : (n - t.date) % PAYOUT_CYCLE_DAYS = 0
    BY <2>1 DEF Follows
  <2>4. s.date \in Cycles /\ t.date \in Cycles /\ Cycles \subseteq Nat
    BY CycleAssumption DEF SyncInv, WorldGood, Tabs
  <2>4a. s.date \in Nat /\ t.date \in Nat
    BY CycleAssumption DEF SyncInv, WorldGood, Tabs
  <2>5. (t.date - s.date) % PAYOUT_CYCLE_DAYS = 0
    BY <2>4 DEF Fortnightly
  <2>6. \A x, y \in Int : x % 14 = 0 /\ y % 14 = 0 => (x + y) % 14 = 0
    <3>1. \A z \in Int : z % 14 = 0 => z = 14 * (z \div 14) /\ z \div 14 \in Int
      OBVIOUS
    <3>2. \A p, q \in Int : (14 * p + 14 * q) % 14 = 0
      OBVIOUS
    <3> QED BY <3>1, <3>2
  <2>7. n - t.date \in Int /\ t.date - s.date \in Int /\ n - m = (n - t.date) + (t.date - s.date)
    <3> HIDE DEF n, m
    <3>1. s.date \in Int /\ t.date \in Int
      BY <2>4a
    <3>2. n \in Int
      BY <2>1
    <3>3. \A x, y, z \in Int : x - y \in Int /\ x - z = (x - y) + (y - z)
      OBVIOUS
    <3> QED BY <2>2, <3>1, <3>2, <3>3
  <2> HIDE DEF n, m
  <2> QED BY <2>3, <2>5, <2>6, <2>7 DEF PAYOUT_CYCLE_DAYS
<1> QED BY <1>1, SyncInvariant, CycleInvariant, PTL
=============================================================================
