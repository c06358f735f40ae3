---------------------------- MODULE ChatPageProofs ----------------------------
(***************************************************************************)
(* Proofs about the chat page, for any number of tickets and any history.  *)
(*                                                                         *)
(* The page compares a list it fetched earlier with what it has said, and  *)
(* forgets part of what it has said when it is left.  The inductive        *)
(* invariant PageInv says why that is safe: a transcript never runs ahead  *)
(* of the list it is compared with, nor a list of the server (Grows,       *)
(* Fits); what is asked is remembered in `announced' wherever the          *)
(* transcript goes; and while the page is mounted, what was told lies      *)
(* under the count, unless a complaint has set the count by hand.          *)
(***************************************************************************)
EXTENDS ChatPage, SequenceTheorems, TLAPS

\* Every ticket of a list has a history, within the bound.
HistoriesGood(list) == \A t \in Tickets : list[t] # None => Len(list[t].history) \in 1..MaxRows

\* Tickets stay and their histories get longer.
Grows(old, new) ==
  \A t \in Tickets : old[t] # None =>
    new[t] # None /\ Len(old[t].history) <= Len(new[t].history)

\* A transcript asks about a ticket at most once, and remembers that it has.
AskedGood(chat, announced) ==
  \A t \in Tickets : chat.asked[t] <= 1 /\ (chat.asked[t] = 1 => t \in announced)

\* Widgets and announcements are about tickets and rows that the list has.
ToldFits(told, list, t) ==
  \A i \in DOMAIN told : \A r \in told[i] : list[t] # None /\ r <= Len(list[t].history)
Fits(chat, list) ==
  \A t \in Tickets : (t \in chat.live => list[t] # None) /\ ToldFits(chat.told[t], list, t)

\* Every row that is told is later than those told before.
InOrder(told) ==
  \A i, j \in DOMAIN told : i < j => \A r \in told[i], q \in told[j] : r < q

\* The rows told are among those the page counts as announced.
Under(told, n) == \A i \in DOMAIN told : \A r \in told[i] : r <= n
UnderCount(p) == \A t \in Tickets : p.count[t] # None => Under(p.chat.told[t], p.count[t])

ChatGood(chat, announced) ==
  /\ AskedGood(chat, announced)
  /\ Fits(chat, server)
  /\ cache # None => Fits(chat, cache)
  /\ ~chat.sorry => \A t \in Tickets : InOrder(chat.told[t])

PageGood ==
  IF page.mounted
  THEN /\ cache # None => \A t \in page.chat.live : cache[t] # None /\ cache[t].status = "resolved"
       /\ ~page.chat.sorry => UnderCount(page)
  ELSE page = Unmounted

\* Answers reach only the page that asked.
HeardGood == /\ rating # None /\ rating.heard => page.mounted
             /\ message.heard => page.mounted

PageInv ==
  /\ TypeOK
  /\ HistoriesGood(server)
  /\ cache # None => HistoriesGood(cache) /\ Grows(cache, server)
  /\ ChatGood(page.chat, page.announced)
  /\ stored # None => ChatGood(stored.chat, stored.announced)
  /\ PageGood
  /\ HeardGood
-----------------------------------------------------------------------------
(* The server.                                                             *)

LEMMA NewTicketGood ==
  NewTicket \in ServerTickets /\ Len(NewTicket.history) = 2 /\ NewTicket # None
<1> DEFINE e1 == StatusEntry("submitted", "system")
           e2 == StatusEntry("assigned_to_kam", "system")
<1>1. e1 \in HistoryRows /\ e2 \in HistoryRows
  BY DEF StatusEntry, HistoryRows, TicketStatus, Authors
<1> HIDE DEF e1, e2
<1>2. << e1, e2 >> \in Rows /\ Len(<< e1, e2 >>) = 2
  BY <1>1 DEF Rows
<1>3. NewTicket = [status |-> "assigned_to_kam", resolved_at |-> None, satisfaction |-> None,
                   rating |-> None, history |-> << e1, e2 >>]
  BY DEF NewTicket, e1, e2
<1>4. NewTicket \in ServerTickets /\ NewTicket.history = << e1, e2 >>
  BY <1>2, <1>3 DEF ServerTickets, TicketStatus
<1> QED BY <1>2, <1>4, NoTicketAssumption

LEMMA RecordedGood ==
  ASSUME NEW k \in ServerTickets, NEW e \in HistoryRows
  PROVE  /\ Recorded(k, e) \in ServerTickets /\ Recorded(k, e) # None
         /\ Len(Recorded(k, e).history) = Len(k.history) + 1
<1>1. k.history \in Seq(HistoryRows)
  BY DEF ServerTickets, Rows
<1> DEFINE h == Append(k.history, e)
<1>2. h \in Rows /\ Len(h) = Len(k.history) + 1
  BY <1>1 DEF Rows
<1>3. Recorded(k, e) = [k EXCEPT !.history = h]
  BY DEF Recorded
<1> HIDE DEF h
<1>4. Recorded(k, e) \in ServerTickets /\ Recorded(k, e).history = h
  BY <1>2, <1>3 DEF ServerTickets
<1> QED BY <1>2, <1>4, NoTicketAssumption

\* The columns of the ticket that a status change, or a rating, writes.
LEMMA ColumnsGood ==
  ASSUME NEW k \in ServerTickets
  PROVE  /\ \A s \in TicketStatus : /\ RecordStatus(k, s, 0) \in ServerTickets
                                    /\ RecordStatus(k, s, 0).history = k.history
         /\ \A r \in Ratings : /\ record_ticket_rating(k, r) \in ServerTickets
                               /\ record_ticket_rating(k, r).history = k.history
<1>1. ASSUME NEW s \in TicketStatus
      PROVE  RecordStatus(k, s, 0) \in ServerTickets /\ RecordStatus(k, s, 0).history = k.history
  BY DEF RecordStatus, ServerTickets
<1>2. ASSUME NEW r \in Ratings
      PROVE  record_ticket_rating(k, r) \in ServerTickets /\ record_ticket_rating(k, r).history = k.history
  <2> DEFINE s == SatisfactionOf(r)
             st == StatusAfterRating(r)
  <2>1. s \in {"satisfied", "unsatisfied"} /\ st \in TicketStatus
    BY DEF SatisfactionOf, StatusAfterRating, TicketStatus
  <2>2. record_ticket_rating(k, r) = [k EXCEPT !.rating = r, !.satisfaction = s, !.status = st]
    BY DEF record_ticket_rating
  <2> HIDE DEF s, st
  <2> QED BY <2>1, <2>2 DEF ServerTickets
<1> QED BY <1>1, <1>2

LEMMA EntriesGood ==
  /\ \A s \in TicketStatus, a \in Authors : StatusEntry(s, a) \in HistoryRows
  /\ \A k \in ServerTickets, a \in Authors : NoteEntry(k, a) \in HistoryRows
BY DEF StatusEntry, NoteEntry, HistoryRows, ServerTickets

LEMMA FitsGrows ==
  ASSUME NEW chat \in Transcripts, NEW old \in Lists, NEW new \in Lists,
         Fits(chat, old), Grows(old, new)
  PROVE  Fits(chat, new)
<1> SUFFICES ASSUME NEW t \in Tickets
             PROVE  (t \in chat.live => new[t] # None) /\ ToldFits(chat.told[t], new, t)
  BY DEF Fits
<1>1. t \in chat.live => new[t] # None
  BY DEF Fits, Grows
<1>2. ASSUME NEW i \in DOMAIN chat.told[t], NEW r \in chat.told[t][i]
      PROVE  new[t] # None /\ r <= Len(new[t].history)
  <2>1. old[t] # None /\ r <= Len(old[t].history)
    BY DEF Fits, ToldFits
  <2>2. new[t] # None /\ Len(old[t].history) <= Len(new[t].history)
    BY <2>1 DEF Grows
  <2>3. Len(old[t].history) \in Nat /\ Len(new[t].history) \in Nat
    BY <2>1, <2>2 DEF Lists, ServerTickets, Rows
  <2>4. r \in 1..MaxRows
    BY DEF Transcripts
  <2> QED BY <2>1, <2>2, <2>3, <2>4, MaxRowsAssumption
<1> QED BY <1>1, <1>2 DEF ToldFits

LEMMA GrowsOn ==
  ASSUME NEW old \in Lists, NEW mid \in Lists, NEW new \in Lists, Grows(old, mid), Grows(mid, new)
  PROVE  Grows(old, new)
<1> SUFFICES ASSUME NEW t \in Tickets, old[t] # None
             PROVE  new[t] # None /\ Len(old[t].history) <= Len(new[t].history)
  BY DEF Grows
<1>1. /\ mid[t] # None /\ Len(old[t].history) <= Len(mid[t].history)
      /\ new[t] # None /\ Len(mid[t].history) <= Len(new[t].history)
  BY DEF Grows
<1>2. /\ Len(old[t].history) \in Nat /\ Len(mid[t].history) \in Nat /\ Len(new[t].history) \in Nat
  BY <1>1 DEF Lists, ServerTickets, Rows
<1> QED BY SMTT(20), <1>1, <1>2

\* What changes a ticket, or raises one, leaves the page as good as it was.
LEMMA ServerStep ==
  ASSUME PageInv, server' \in Lists, HistoriesGood(server'), Grows(server, server'),
         UNCHANGED <<cache, page, stored>>
  PROVE  /\ HistoriesGood(server)'
         /\ (cache # None => HistoriesGood(cache) /\ Grows(cache, server))'
         /\ ChatGood(page.chat, page.announced)'
         /\ (stored # None => ChatGood(stored.chat, stored.announced))'
         /\ PageGood'
<1>1. server \in Lists /\ page.chat \in Transcripts /\ (cache # None => cache \in Lists)
      /\ (stored # None => stored.chat \in Transcripts)
  BY DEF PageInv, TypeOK, Pages, Stores
<1>2. cache # None => Grows(cache, server')
  BY <1>1, GrowsOn DEF PageInv
<1>3. Fits(page.chat, server')
  BY <1>1, FitsGrows DEF PageInv, ChatGood
<1>4. stored # None => Fits(stored.chat, server')
  BY <1>1, FitsGrows DEF PageInv, ChatGood
<1>5. HistoriesGood(server)' /\ (cache # None => HistoriesGood(cache) /\ Grows(cache, server))'
  BY <1>2 DEF PageInv, HistoriesGood, Grows
<1>6. ChatGood(page.chat, page.announced)'
  BY <1>3 DEF PageInv, ChatGood, AskedGood, Fits, ToldFits, InOrder
<1>7. (stored # None => ChatGood(stored.chat, stored.announced))'
  BY <1>4 DEF PageInv, ChatGood, AskedGood, Fits, ToldFits, InOrder
<1>8. PageGood'
  BY DEF PageInv, PageGood, UnderCount, Under
<1> QED BY <1>5, <1>6, <1>7, <1>8

\* One ticket changed.
LEMMA TicketStep ==
  ASSUME PageInv, NEW t \in Tickets, NEW k \in ServerTickets,
         Len(k.history) \in 1..MaxRows,
         server[t] # None => Len(server[t].history) <= Len(k.history),
         server' = [server EXCEPT ![t] = k]
  PROVE  server' \in Lists /\ HistoriesGood(server') /\ Grows(server, server')
<1>1. server \in Lists /\ HistoriesGood(server)
  BY DEF PageInv, TypeOK
<1>2. server' \in Lists
  BY <1>1 DEF Lists
<1>3. \A x \in Tickets : server'[x] = IF x = t THEN k ELSE server[x]
  BY <1>1 DEF Lists
<1>4. HistoriesGood(server')
  BY <1>1, <1>3 DEF HistoriesGood
<1>5. Grows(server, server')
  <2> SUFFICES ASSUME NEW x \in Tickets, server[x] # None
               PROVE  server'[x] # None /\ Len(server[x].history) <= Len(server'[x].history)
    BY DEF Grows
  <2>1. CASE x = t
    BY <1>3, <2>1, NoTicketAssumption
  <2>2. CASE x # t
    <3>1. Len(server[x].history) \in Nat
      BY <1>1 DEF HistoriesGood
    <3> QED BY <1>3, <2>2, <3>1
  <2> QED BY <2>1, <2>2
<1> QED BY <1>2, <1>4, <1>5

\* A step of the server alone, with the rating or the message that is on its way.
LEMMA ServerMoves ==
  ASSUME PageInv, server' \in Lists, HistoriesGood(server'), Grows(server, server'),
         UNCHANGED <<cache, page, stored, idle>>,
         rating' \in RatingsSent \cup {None}, message' \in Messages,
         rating' # None /\ rating'.heard => rating # None /\ rating.heard,
         message'.heard => message.heard
  PROVE  PageInv'
<1>1. TypeOK'
  BY DEF PageInv, TypeOK
<1>2. HeardGood'
  BY DEF PageInv, HeardGood
<1> QED BY <1>1, <1>2, ServerStep DEF PageInv

LEMMA SameServer ==
  ASSUME PageInv, UNCHANGED server
  PROVE  server' \in Lists /\ HistoriesGood(server') /\ Grows(server, server')
<1>1. server \in Lists /\ HistoriesGood(server)
  BY DEF PageInv, TypeOK
<1>2. Grows(server, server)
  BY <1>1 DEF Grows, HistoriesGood
<1> QED BY <1>1, <1>2 DEF HistoriesGood, Grows

LEMMA ServerAlone ==
  ASSUME PageInv, server' \in Lists, HistoriesGood(server'), Grows(server, server'),
         UNCHANGED <<cache, page, stored, network, idle>>
  PROVE  PageInv'
<1>1. UNCHANGED <<rating, message>> /\ UNCHANGED <<cache, page, stored, idle>>
  BY DEF network
<1>2. rating' \in RatingsSent \cup {None} /\ message' \in Messages
  BY <1>1 DEF PageInv, TypeOK
<1> QED BY <1>1, <1>2, ServerMoves

LEMMA StatusMovesKeeps ==
  ASSUME PageInv, NEW t \in Tickets, StatusMoves(t)
  PROVE  PageInv'
<1> DEFINE b == server[t]
<1>1. PICK s \in ADMIN_SETTABLE_STATUSES :
        server' = [server EXCEPT ![t] = Recorded(RecordStatus(b, s, 0), StatusEntry(s, "admin"))]
  BY DEF StatusMoves
<1>2. b \in ServerTickets /\ Len(b.history) \in 1..MaxRows /\ Len(b.history) < MaxRows
  BY DEF StatusMoves, HasRoom, PageInv, TypeOK, Lists, HistoriesGood
<1> DEFINE c == RecordStatus(b, s, 0)
           e == StatusEntry(s, "admin")
           k == Recorded(c, e)
<1>3. c \in ServerTickets /\ c.history = b.history /\ e \in HistoryRows
  BY <1>2, ColumnsGood, EntriesGood DEF ADMIN_SETTABLE_STATUSES, TicketStatus, Authors
<1>4. server' = [server EXCEPT ![t] = k]
  BY <1>1
<1> HIDE DEF b, c, e
<1>5. k \in ServerTickets /\ Len(k.history) = Len(b.history) + 1
  BY <1>3, RecordedGood
<1> HIDE DEF k
<1>5a. Len(k.history) \in 1..MaxRows /\ Len(b.history) <= Len(k.history)
  BY <1>2, <1>5, MaxRowsAssumption
<1>6. server' \in Lists /\ HistoriesGood(server') /\ Grows(server, server')
  BY <1>4, <1>5, <1>5a, TicketStep DEF b
<1> QED BY <1>6, ServerAlone DEF StatusMoves, network

LEMMA OwnerChangesKeeps ==
  ASSUME PageInv, NEW t \in Tickets, OwnerChanges(t)
  PROVE  PageInv'
<1> DEFINE b == server[t]
           e == NoteEntry(b, "admin")
           k == Recorded(b, e)
<1>1. server' = [server EXCEPT ![t] = k]
  BY DEF OwnerChanges
<1>2. b \in ServerTickets /\ Len(b.history) \in 1..MaxRows /\ Len(b.history) < MaxRows
  BY DEF OwnerChanges, HasRoom, PageInv, TypeOK, Lists, HistoriesGood
<1>3. e \in HistoryRows
  BY <1>2, EntriesGood DEF Authors
<1> HIDE DEF b, e
<1>4. k \in ServerTickets /\ Len(k.history) = Len(b.history) + 1
  BY <1>2, <1>3, RecordedGood
<1> HIDE DEF k
<1>4a. Len(k.history) \in 1..MaxRows /\ Len(b.history) <= Len(k.history)
  BY <1>2, <1>4, MaxRowsAssumption
<1>5. server' \in Lists /\ HistoriesGood(server') /\ Grows(server, server')
  BY <1>1, <1>4, <1>4a, TicketStep DEF b
<1> QED BY <1>5, ServerAlone DEF OwnerChanges, network

LEMMA AutoClosesKeeps ==
  ASSUME PageInv, NEW t \in Tickets, AutoCloses(t)
  PROVE  PageInv'
<1> DEFINE b == server[t]
           c == RecordStatus(b, "closed", 0)
           e == StatusEntry("closed", "system")
           k == Recorded(c, e)
<1>1. server' = [server EXCEPT ![t] = k]
  BY DEF AutoCloses
<1>2. b \in ServerTickets /\ Len(b.history) \in 1..MaxRows /\ Len(b.history) < MaxRows
  BY DEF AutoCloses, HasRoom, PageInv, TypeOK, Lists, HistoriesGood
<1>3. c \in ServerTickets /\ c.history = b.history /\ e \in HistoryRows
  BY <1>2, ColumnsGood, EntriesGood DEF TicketStatus, Authors
<1> HIDE DEF b, c, e
<1>4. k \in ServerTickets /\ Len(k.history) = Len(b.history) + 1
  BY <1>3, RecordedGood
<1> HIDE DEF k
<1>4a. Len(k.history) \in 1..MaxRows /\ Len(b.history) <= Len(k.history)
  BY <1>2, <1>4, MaxRowsAssumption
<1>5. server' \in Lists /\ HistoriesGood(server') /\ Grows(server, server')
  BY <1>1, <1>4, <1>4a, TicketStep DEF b
<1> QED BY <1>5, ServerAlone DEF AutoCloses, network

LEMMA ServerRatesKeeps ==
  ASSUME PageInv, ServerRates
  PROVE  PageInv'
<1> DEFINE t == rating.ticket
           r == rating.stars
           b == server[t]
<1>1. rating # None /\ rating \in RatingsSent /\ message \in Messages
      /\ UNCHANGED <<cache, page, stored, message, idle>>
  BY DEF ServerRates, PageInv, TypeOK
<1>2. t \in Tickets /\ r \in Ratings
  BY <1>1 DEF RatingsSent
<1>3. CASE b.status = "resolved"
  <2> DEFINE c == record_ticket_rating(b, r)
             e == StatusEntry(StatusAfterRating(r), "astrologer")
             k == Recorded(c, e)
  <2>1. /\ server' = [server EXCEPT ![t] = k]
        /\ rating' = [rating EXCEPT !.state = "accepted"]
        /\ HasRoom(t)
    BY <1>3 DEF ServerRates
  <2>2. b \in ServerTickets /\ Len(b.history) \in 1..MaxRows /\ Len(b.history) < MaxRows
    BY <1>2, <2>1 DEF HasRoom, PageInv, TypeOK, Lists, HistoriesGood
  <2>3. c \in ServerTickets /\ c.history = b.history
    BY <1>2, <2>2, ColumnsGood
  <2>4. e \in HistoryRows
    BY EntriesGood DEF StatusAfterRating, TicketStatus, Authors
  <2>5. rating' \in RatingsSent /\ rating'.heard = rating.heard
    BY <1>1, <2>1 DEF RatingsSent
  <2> HIDE DEF c, e, b, t
  <2>6. k \in ServerTickets /\ Len(k.history) = Len(b.history) + 1
    BY <2>3, <2>4, RecordedGood
  <2> HIDE DEF k
  <2>6a. Len(k.history) \in 1..MaxRows /\ Len(b.history) <= Len(k.history)
    BY <2>2, <2>6, MaxRowsAssumption
  <2>7. server' \in Lists /\ HistoriesGood(server') /\ Grows(server, server')
    BY <1>2, <2>1, <2>6, <2>6a, TicketStep DEF b
  <2> QED BY <1>1, <2>5, <2>7, ServerMoves
<1>4. CASE b.status # "resolved"
  <2>1. rating' = [rating EXCEPT !.state = "refused"] /\ UNCHANGED server
    BY <1>4 DEF ServerRates
  <2>2. rating' \in RatingsSent /\ rating'.heard = rating.heard
    BY <1>1, <2>1 DEF RatingsSent
  <2>3. server' \in Lists /\ HistoriesGood(server') /\ Grows(server, server')
    BY <2>1, SameServer
  <2> QED BY <1>1, <2>2, <2>3, ServerMoves
<1> QED BY <1>3, <1>4

LEMMA ServerAnswersKeeps ==
  ASSUME PageInv, ServerAnswers
  PROVE  PageInv'
<1>1. UNCHANGED <<cache, page, stored, rating, idle>> /\ message \in Messages
      /\ rating \in RatingsSent \cup {None}
  BY DEF ServerAnswers, PageInv, TypeOK
<1>2. message' \in Messages /\ message'.heard = message.heard
  BY <1>1 DEF ServerAnswers, Messages
<1>3. server' \in Lists /\ HistoriesGood(server') /\ Grows(server, server')
  <2>1. CASE UNCHANGED server
    BY <2>1, SameServer
  <2>2. ASSUME NEW t \in Tickets, server[t] = None, server' = [server EXCEPT ![t] = NewTicket]
        PROVE  server' \in Lists /\ HistoriesGood(server') /\ Grows(server, server')
    <3>1. NewTicket \in ServerTickets /\ Len(NewTicket.history) \in 1..MaxRows
      BY NewTicketGood, MaxRowsAssumption
    <3> QED BY <2>2, <3>1, TicketStep
  <2> QED BY <2>1, <2>2 DEF ServerAnswers
<1> QED BY <1>1, <1>2, <1>3, ServerMoves
-----------------------------------------------------------------------------
(* The ticket watcher.                                                     *)

\* The rows of News come after what was counted, and the list has them.
LEMMA NewsGood ==
  ASSUME NEW p \in Pages, NEW list \in Lists, HistoriesGood(list), NEW t \in Tickets, list[t] # None
  PROVE  /\ News(p, list[t], t) \in SUBSET (1..MaxRows)
         /\ p.count[t] = None => News(p, list[t], t) = {}
         /\ \A r \in News(p, list[t], t) :
              p.count[t] \in Nat /\ p.count[t] < r /\ r <= Len(list[t].history)
<1> DEFINE n == Len(list[t].history)
<1>1. n \in 1..MaxRows
  BY DEF HistoriesGood
<1>2. p.count[t] \in Nat \cup {None}
  BY DEF Pages
<1> HIDE DEF n
<1>3. News(p, list[t], t) \subseteq IF p.count[t] = None THEN {} ELSE p.count[t] + 1..n
  BY DEF News, n
<1>4. CASE p.count[t] = None
  BY <1>3, <1>4
<1>5. CASE p.count[t] # None
  <2>1. ASSUME NEW r \in News(p, list[t], t)
        PROVE  r \in 1..MaxRows /\ p.count[t] < r /\ r <= n
    BY <1>1, <1>2, <1>3, <1>5, MaxRowsAssumption
  <2> QED BY <1>2, <1>5, <2>1 DEF n
<1> QED BY <1>4, <1>5

LEMMA ToldTypes ==
  ASSUME NEW p \in Pages, NEW list \in Lists, HistoriesGood(list), NEW t \in Tickets
  PROVE  Told(p, list, t) \in Seq(SUBSET (1..MaxRows))
<1>1. p.chat.told[t] \in Seq(SUBSET (1..MaxRows))
  BY DEF Pages, Transcripts
<1>2. CASE t \in Listed(list)
  <2>1. News(p, list[t], t) \in SUBSET (1..MaxRows)
    BY <1>2, NewsGood DEF Listed
  <2> QED BY <1>1, <2>1 DEF Told
<1>3. CASE t \notin Listed(list)
  BY <1>1, <1>3 DEF Told
<1> QED BY <1>2, <1>3

\* What Watched makes of each field of the page.
LEMMA WatchedFields ==
  ASSUME NEW p \in Pages, NEW list \in Lists, HistoriesGood(list)
  PROVE  LET asks == {t \in Listed(list) : Asks(p, list[t], t)}
             w == Watched(p, list)
         IN /\ w \in Pages /\ w.mounted = p.mounted /\ w.chat.sorry = p.chat.sorry
            /\ w.announced = p.announced \cup asks
            /\ w.count = Counted(p, list)
            /\ w.chat.asked = [t \in Tickets |-> p.chat.asked[t] + IF t \in asks THEN 1 ELSE 0]
            /\ w.chat.live = (p.chat.live \cap Ratable(list)) \cup asks
            /\ w.chat.told = [t \in Tickets |-> Told(p, list, t)]
            /\ w.chat.quoted = p.chat.quoted \cup {<<t, Len(list[t].history)>> : t \in asks}
<1> DEFINE asks == {t \in Listed(list) : Asks(p, list[t], t)}
           w == Watched(p, list)
           announced == p.announced \cup asks
           count == Counted(p, list)
           asked == [t \in Tickets |-> p.chat.asked[t] + IF t \in asks THEN 1 ELSE 0]
           live == (p.chat.live \cap Ratable(list)) \cup asks
           quoted == p.chat.quoted \cup {<<t, Len(list[t].history)>> : t \in asks}
           told == [t \in Tickets |-> Told(p, list, t)]
           chat == [p.chat EXCEPT !.asked = asked, !.live = live, !.quoted = quoted, !.told = told]
<1>1. p.chat \in Transcripts /\ p.announced \in SUBSET Tickets
      /\ p.count \in [Tickets -> (0..MaxRows + 1) \cup {None}]
  BY DEF Pages
<1>2. asks \in SUBSET Tickets /\ \A t \in asks : list[t] # None /\ Len(list[t].history) \in 1..MaxRows
  BY DEF Listed, HistoriesGood
<1>3. w = [p EXCEPT !.announced = announced, !.count = count, !.chat = chat]
  BY <1>1 DEF Watched, Pages, Transcripts
<1> HIDE DEF asks
<1>4. announced \in SUBSET Tickets /\ live \in SUBSET Tickets
  BY <1>1, <1>2 DEF Transcripts, Ratable
<1>5. count \in [Tickets -> (0..MaxRows + 1) \cup {None}]
  <2>1. ASSUME NEW t \in Tickets, t \in Listed(list)
        PROVE  Len(list[t].history) \in 0..MaxRows + 1
    BY <2>1, MaxRowsAssumption DEF Listed, HistoriesGood
  <2> QED BY <1>1, <2>1 DEF Counted
<1>6. asked \in [Tickets -> Nat]
  BY <1>1 DEF Transcripts
<1>7. quoted \in SUBSET (Tickets \X (1..MaxRows))
  BY <1>1, <1>2 DEF Transcripts
<1>8. told \in [Tickets -> Seq(SUBSET (1..MaxRows))]
  BY ToldTypes
<1> HIDE DEF announced, count, asked, live, quoted, told
<1>9. /\ chat \in Transcripts /\ chat.sorry = p.chat.sorry /\ chat.asked = asked
      /\ chat.live = live /\ chat.told = told /\ chat.quoted = quoted
  BY <1>1, <1>4, <1>6, <1>7, <1>8 DEF Transcripts
<1> HIDE DEF chat, w
<1>10. /\ w \in Pages /\ w.mounted = p.mounted /\ w.announced = announced /\ w.count = count
       /\ w.chat = chat
  BY <1>3, <1>4, <1>5, <1>9 DEF Pages
<1> QED BY <1>9, <1>10 DEF announced, count, asked, live, quoted, told, asks, w

\* A page that looks at a list that has all it told comes out as good, and with live widgets only.
LEMMA WatchedGood ==
  ASSUME NEW p \in Pages, NEW list \in Lists, HistoriesGood(list),
         AskedGood(p.chat, p.announced), Fits(p.chat, list),
         ~p.chat.sorry => UnderCount(p) /\ \A t \in Tickets : InOrder(p.chat.told[t])
  PROVE  LET w == Watched(p, list)
         IN /\ w \in Pages /\ w.mounted = p.mounted
            /\ AskedGood(w.chat, w.announced) /\ Fits(w.chat, list)
            /\ \A t \in w.chat.live : list[t] # None /\ list[t].status = "resolved"
            /\ ~w.chat.sorry => UnderCount(w) /\ \A t \in Tickets : InOrder(w.chat.told[t])
<1> DEFINE asks == {t \in Listed(list) : Asks(p, list[t], t)}
           w == Watched(p, list)
<1>1. /\ w \in Pages /\ w.mounted = p.mounted /\ w.chat.sorry = p.chat.sorry
      /\ w.announced = p.announced \cup asks
      /\ w.count = Counted(p, list)
      /\ w.chat.asked = [t \in Tickets |-> p.chat.asked[t] + IF t \in asks THEN 1 ELSE 0]
      /\ w.chat.live = (p.chat.live \cap Ratable(list)) \cup asks
      /\ w.chat.told = [t \in Tickets |-> Told(p, list, t)]
  BY WatchedFields
<1>2. \A t \in asks : t \in Tickets /\ list[t] # None /\ list[t].status = "resolved" /\ t \notin p.announced
  BY DEF Listed, Asks
<1>3. p.chat \in Transcripts
  BY DEF Pages
<1> HIDE DEF asks, w
<1>4. AskedGood(w.chat, w.announced)
  <2> SUFFICES ASSUME NEW t \in Tickets
               PROVE  w.chat.asked[t] <= 1 /\ (w.chat.asked[t] = 1 => t \in w.announced)
    BY DEF AskedGood
  <2>1. /\ p.chat.asked[t] \in Nat /\ p.chat.asked[t] <= 1
        /\ p.chat.asked[t] = 1 => t \in p.announced
    BY <1>3 DEF AskedGood, Transcripts
  <2>2. w.chat.asked[t] = p.chat.asked[t] + IF t \in asks THEN 1 ELSE 0
    BY <1>1
  <2>3. t \in asks => p.chat.asked[t] = 0
    BY <1>2, <2>1
  <2> QED BY <1>1, <2>1, <2>2, <2>3
<1>5. \A t \in w.chat.live : list[t] # None /\ list[t].status = "resolved"
  <2>1. ASSUME NEW t \in p.chat.live \cap Ratable(list) PROVE list[t] # None /\ list[t].status = "resolved"
    BY <1>3 DEF Ratable, Listed, Fits, Transcripts
  <2> QED BY <1>1, <1>2, <2>1
<1>6. ASSUME NEW t \in Tickets, t \in Listed(list)
      PROVE  /\ ToldFits(w.chat.told[t], list, t)
             /\ ~p.chat.sorry => Under(w.chat.told[t], w.count[t]) /\ InOrder(w.chat.told[t])
  <2> DEFINE old == p.chat.told[t]
             news == News(p, list[t], t)
             n == Len(list[t].history)
  <2>1. w.chat.told[t] = (IF news # {} THEN Append(old, news) ELSE old) /\ w.count[t] = n
    BY <1>1, <1>6 DEF Told, Counted
  <2>2. old \in Seq(SUBSET (1..MaxRows)) /\ n \in 1..MaxRows /\ list[t] # None
    BY <1>3, <1>6 DEF Transcripts, HistoriesGood, Listed
  <2>3. ToldFits(old, list, t)
    BY DEF Fits
  <2>4. ~p.chat.sorry => InOrder(old) /\ (p.count[t] # None => Under(old, p.count[t]))
    BY DEF UnderCount
  <2>5. /\ news \in SUBSET (1..MaxRows)
        /\ \A r \in news : p.count[t] \in Nat /\ p.count[t] < r /\ r <= n
    BY <2>2, NewsGood
  <2>6. p.count[t] \in Nat => p.count[t] # None
    BY NoneAssumption
  <2> HIDE DEF old, news, n
  <2>7. ASSUME NEW i \in DOMAIN old, NEW r \in old[i] PROVE r <= n /\ r \in 1..MaxRows
    BY <2>2, <2>3 DEF ToldFits, n
  <2>8. CASE news = {}
    <3>1. w.chat.told[t] = old
      BY <2>1, <2>8
    <3>2. Under(old, n)
      BY <2>7 DEF Under
    <3> QED BY <2>1, <2>3, <2>4, <3>1, <3>2
  <2>9. CASE news # {}
    <3> DEFINE s == Append(old, news)
    <3>1. w.chat.told[t] = s
      BY <2>1, <2>9
    <3>2. /\ DOMAIN old = 1..Len(old) /\ Len(old) \in Nat /\ DOMAIN s = 1..Len(old) + 1
          /\ \A i \in 1..Len(old) : s[i] = old[i]
          /\ s[Len(old) + 1] = news
      BY <2>2, <2>5
    <3> HIDE DEF s
    <3>3. ASSUME NEW i \in DOMAIN s, NEW r \in s[i] PROVE r <= n
      <4>1. CASE i = Len(old) + 1
        BY <2>5, <3>2, <3>3, <4>1
      <4>2. CASE i # Len(old) + 1
        <5>1. i \in DOMAIN old /\ r \in old[i]
          BY <3>2, <3>3, <4>2
        <5> QED BY <2>7, <5>1
      <4> QED BY <4>1, <4>2
    <3>4. ToldFits(s, list, t) /\ Under(s, n)
      BY <2>2, <3>3 DEF ToldFits, Under, n
    <3>5. ASSUME ~p.chat.sorry PROVE InOrder(s)
      <4> SUFFICES ASSUME NEW i \in DOMAIN s, NEW j \in DOMAIN s, i < j, NEW r \in s[i], NEW q \in s[j]
                   PROVE  r < q
        BY DEF InOrder
      <4>1. i \in DOMAIN old /\ r \in old[i]
        BY <3>2
      <4>2. CASE j = Len(old) + 1
        <5>1. q \in news
          BY <3>2, <4>2
        <5>2. p.count[t] \in Nat /\ p.count[t] < q
          BY <2>5, <5>1
        <5>3. r <= p.count[t]
          BY <2>4, <2>6, <3>5, <4>1, <5>2 DEF Under
        <5>4. r \in Nat /\ q \in Nat
          BY <2>5, <2>7, <4>1, <5>1
        <5> QED BY <5>2, <5>3, <5>4
      <4>3. CASE j # Len(old) + 1
        <5>1. j \in DOMAIN old /\ q \in old[j]
          BY <3>2, <4>3
        <5> QED BY <2>4, <3>5, <4>1, <5>1 DEF InOrder
      <4> QED BY <4>2, <4>3
    <3> QED BY <2>1, <3>1, <3>4, <3>5
  <2> QED BY <2>8, <2>9
<1>7. ASSUME NEW t \in Tickets, t \notin Listed(list)
      PROVE  w.chat.told[t] = p.chat.told[t] /\ w.count[t] = p.count[t]
  BY <1>1, <1>7 DEF Told, Counted
<1>8. Fits(w.chat, list)
  <2> SUFFICES ASSUME NEW t \in Tickets
               PROVE  (t \in w.chat.live => list[t] # None) /\ ToldFits(w.chat.told[t], list, t)
    BY DEF Fits
  <2>1. CASE t \in Listed(list)
    BY <1>5, <1>6, <2>1
  <2>2. CASE t \notin Listed(list)
    BY <1>5, <1>7, <2>2 DEF Fits
  <2> QED BY <2>1, <2>2
<1>9. ASSUME ~w.chat.sorry PROVE UnderCount(w) /\ \A t \in Tickets : InOrder(w.chat.told[t])
  <2>1. ~p.chat.sorry
    BY <1>1, <1>9
  <2>2. ASSUME NEW t \in Tickets
        PROVE  InOrder(w.chat.told[t]) /\ (w.count[t] # None => Under(w.chat.told[t], w.count[t]))
    <3>1. CASE t \in Listed(list)
      BY <1>6, <2>1, <3>1
    <3>2. CASE t \notin Listed(list)
      BY <1>7, <2>1, <3>2 DEF UnderCount
    <3> QED BY <3>1, <3>2
  <2> QED BY <2>2 DEF UnderCount
<1> QED BY <1>1, <1>4, <1>5, <1>8, <1>9 DEF w
-----------------------------------------------------------------------------
(* The page.                                                               *)

LEMMA NewChatGood ==
  /\ NewChat \in Transcripts /\ NewChat.sorry = FALSE /\ NewChat.live = {}
  /\ \A a : AskedGood(NewChat, a)
  /\ \A list : Fits(NewChat, list)
  /\ \A t \in Tickets : InOrder(NewChat.told[t]) /\ \A n : Under(NewChat.told[t], n)
<1>1. << >> \in Seq(SUBSET (1..MaxRows)) /\ DOMAIN << >> = {}
  OBVIOUS
<1>2. NewChat \in Transcripts /\ NewChat.sorry = FALSE /\ NewChat.live = {}
  BY <1>1 DEF NewChat, Transcripts
<1>3. \A t \in Tickets : NewChat.asked[t] = 0 /\ NewChat.told[t] = << >>
  BY DEF NewChat
<1> QED BY <1>1, <1>2, <1>3 DEF AskedGood, Fits, ToldFits, InOrder, Under

\* A mounted page shows p, good in itself and for the list it has.
LEMMA ShowsKeeps ==
  ASSUME PageInv, NEW p \in Pages, p.mounted = TRUE, Shows(p), UNCHANGED server,
         cache' \in Lists \cup {None},
         cache' # None => /\ HistoriesGood(cache') /\ Grows(cache', server)
                          /\ Fits(p.chat, cache')
                          /\ \A t \in p.chat.live : cache'[t] # None /\ cache'[t].status = "resolved",
         AskedGood(p.chat, p.announced), Fits(p.chat, server),
         ~p.chat.sorry => UnderCount(p) /\ \A t \in Tickets : InOrder(p.chat.told[t]),
         rating' \in RatingsSent \cup {None}, message' \in Messages, idle' \in BOOLEAN
  PROVE  PageInv'
<1>1. page' = p /\ stored' = [chat |-> p.chat, announced |-> p.announced]
  BY DEF Shows
<1>2. stored' \in Stores /\ stored'.chat = p.chat /\ stored'.announced = p.announced
  BY <1>1 DEF Pages, Stores
<1>3. TypeOK'
  BY <1>1, <1>2 DEF PageInv, TypeOK
<1>4. HistoriesGood(server)' /\ (cache # None => HistoriesGood(cache) /\ Grows(cache, server))'
  BY DEF PageInv, HistoriesGood, Grows
<1>5. ChatGood(page.chat, page.announced)'
  BY <1>1 DEF ChatGood, AskedGood, Fits, ToldFits, InOrder
<1>6. (stored # None => ChatGood(stored.chat, stored.announced))'
  BY <1>2 DEF ChatGood, AskedGood, Fits, ToldFits, InOrder
<1>7. PageGood' /\ HeardGood'
  BY <1>1 DEF PageGood, HeardGood, UnderCount, Under
<1> QED BY <1>3, <1>4, <1>5, <1>6, <1>7 DEF PageInv

\* The page shows the same announcements, with no new widget; the list is the same.
LEMMA SameNewsKeeps ==
  ASSUME PageInv, page.mounted, NEW p \in Pages, p.mounted = TRUE, Shows(p), UNCHANGED <<server, cache>>,
         p.announced = page.announced, p.chat.asked = page.chat.asked, p.chat.told = page.chat.told,
         p.chat.live \subseteq page.chat.live,
         p.chat.sorry = TRUE \/ (p.chat.sorry = page.chat.sorry /\ p.count = page.count),
         rating' \in RatingsSent \cup {None}, message' \in Messages, idle' \in BOOLEAN
  PROVE  PageInv'
<1>1. ChatGood(page.chat, page.announced) /\ PageGood
  BY DEF PageInv
<1>2. AskedGood(p.chat, p.announced)
  BY <1>1 DEF ChatGood, AskedGood
<1>3. Fits(p.chat, server) /\ (cache # None => Fits(p.chat, cache))
  BY <1>1 DEF ChatGood, Fits
<1>4. cache # None => \A t \in p.chat.live : cache[t] # None /\ cache[t].status = "resolved"
  BY <1>1 DEF PageGood
<1>5. ASSUME ~p.chat.sorry PROVE UnderCount(p) /\ \A t \in Tickets : InOrder(p.chat.told[t])
  BY <1>1, <1>5 DEF ChatGood, PageGood, UnderCount
<1>6. /\ cache \in Lists \cup {None} /\ cache' = cache
      /\ cache # None => HistoriesGood(cache) /\ Grows(cache, server)
  BY DEF PageInv, TypeOK
<1> QED BY <1>2, <1>3, <1>4, <1>5, <1>6, ShowsKeeps

LEMMA PollKeeps ==
  ASSUME PageInv, Poll
  PROVE  PageInv'
<1>1. /\ cache' = server /\ UNCHANGED <<server, rating, message, idle>>
      /\ server \in Lists /\ HistoriesGood(server) /\ Grows(server, server)
      /\ rating \in RatingsSent \cup {None} /\ message \in Messages /\ idle \in BOOLEAN
  BY SameServer DEF Poll, network, PageInv, TypeOK, Grows, HistoriesGood
<1>2. CASE page.mounted
  <2> DEFINE w == Watched(page, server)
  <2>1. page \in Pages /\ page.mounted = TRUE
    BY <1>2 DEF PageInv, TypeOK, Pages
  <2>2. Shows(w)
    BY <1>2 DEF Poll
  <2>3. /\ AskedGood(page.chat, page.announced) /\ Fits(page.chat, server)
        /\ ~page.chat.sorry => UnderCount(page) /\ \A t \in Tickets : InOrder(page.chat.told[t])
    BY <1>2 DEF PageInv, ChatGood, PageGood
  <2>4. /\ w \in Pages /\ w.mounted = TRUE
        /\ AskedGood(w.chat, w.announced) /\ Fits(w.chat, server)
        /\ \A t \in w.chat.live : server[t] # None /\ server[t].status = "resolved"
        /\ ~w.chat.sorry => UnderCount(w) /\ \A t \in Tickets : InOrder(w.chat.told[t])
    BY <1>1, <2>1, <2>3, WatchedGood
  <2> HIDE DEF w
  <2> QED BY <1>1, <2>2, <2>4, ShowsKeeps
<1>3. CASE ~page.mounted
  <2>1. UNCHANGED <<page, stored>>
    BY <1>3 DEF Poll
  <2>2. TypeOK'
    BY <1>1, <2>1 DEF PageInv, TypeOK
  <2>3. HistoriesGood(server)' /\ (cache # None => HistoriesGood(cache) /\ Grows(cache, server))'
    BY <1>1 DEF HistoriesGood, Grows
  <2>4. ChatGood(page.chat, page.announced)'
    BY <1>1, <2>1 DEF PageInv, ChatGood, AskedGood, Fits, ToldFits, InOrder
  <2>5. (stored # None => ChatGood(stored.chat, stored.announced))'
    BY <1>1, <2>1 DEF PageInv, ChatGood, AskedGood, Fits, ToldFits, InOrder
  <2>6. PageGood' /\ HeardGood'
    BY <1>1, <1>3, <2>1 DEF PageInv, PageGood, HeardGood, Unmounted
  <2> QED BY <2>2, <2>3, <2>4, <2>5, <2>6 DEF PageInv
<1> QED BY <1>2, <1>3

LEMMA MountKeeps ==
  ASSUME PageInv, Mount
  PROVE  PageInv'
<1> DEFINE p == [mounted |-> TRUE, chat |-> Persisted.chat, announced |-> Persisted.announced,
                 count |-> NoCounts]
           w == Watched(p, cache)
<1>1. /\ UNCHANGED <<server, cache, rating, message>> /\ idle' = FALSE
      /\ Shows(IF cache = None THEN p ELSE w)
  BY DEF Mount, network
<1>2. /\ server \in Lists /\ HistoriesGood(server) /\ cache \in Lists \cup {None}
      /\ rating \in RatingsSent \cup {None} /\ message \in Messages
      /\ cache # None => HistoriesGood(cache) /\ Grows(cache, server)
  BY DEF PageInv, TypeOK
<1>3. Persisted \in Stores /\ ChatGood(Persisted.chat, Persisted.announced)
  <2>1. Blank \in Stores /\ Blank.chat = NewChat /\ Blank.announced = {}
    BY NewChatGood DEF Blank, Stores
  <2>2. ChatGood(Blank.chat, Blank.announced)
    BY <2>1, NewChatGood DEF ChatGood
  <2>3. stored # None => stored \in Stores /\ ChatGood(stored.chat, stored.announced)
    BY DEF PageInv, TypeOK
  <2> HIDE DEF p, w
  <2> QED BY <2>1, <2>2, <2>3 DEF Persisted
<1>4. /\ p \in Pages /\ p.mounted = TRUE /\ p.chat = Persisted.chat /\ p.announced = Persisted.announced
      /\ p.count = NoCounts
  BY <1>3 DEF Pages, Stores, NoCounts
<1> HIDE DEF p
<1>5. /\ AskedGood(p.chat, p.announced) /\ Fits(p.chat, server)
      /\ cache # None => Fits(p.chat, cache)
      /\ ~p.chat.sorry => \A t \in Tickets : InOrder(p.chat.told[t])
  BY <1>3, <1>4 DEF ChatGood
<1>6. UnderCount(p)
  BY <1>4 DEF UnderCount, NoCounts
<1>7. CASE cache = None
  BY <1>1, <1>2, <1>4, <1>5, <1>6, <1>7, ShowsKeeps
<1>8. CASE cache # None
  <2>1. cache \in Lists
    BY <1>2, <1>8
  <2>2. /\ w \in Pages /\ w.mounted = TRUE
        /\ AskedGood(w.chat, w.announced) /\ Fits(w.chat, cache)
        /\ \A t \in w.chat.live : cache[t] # None /\ cache[t].status = "resolved"
        /\ ~w.chat.sorry => UnderCount(w) /\ \A t \in Tickets : InOrder(w.chat.told[t])
    BY <1>2, <1>4, <1>5, <1>6, <1>8, <2>1, WatchedGood
  <2>3. Shows(w)
    BY <1>1, <1>8
  <2> HIDE DEF w
  <2>4. w.chat \in Transcripts
    BY <2>2 DEF Pages
  <2>5. Fits(w.chat, server)
    BY <1>2, <1>8, <2>1, <2>2, <2>4, FitsGrows
  <2> QED BY <1>1, <1>2, <1>8, <2>2, <2>3, <2>5, ShowsKeeps
<1> QED BY <1>7, <1>8

LEMMA LeaveKeeps ==
  ASSUME PageInv, Leave
  PROVE  PageInv'
<1>1. /\ cache' = cache \/ cache' = None
      /\ stored' = stored \/ stored' = None
      /\ page' = Unmounted /\ UNCHANGED <<server, idle>>
  BY DEF Leave
<1>2. rating' \in RatingsSent \cup {None} /\ (rating' # None => rating'.heard = FALSE)
  <2>1. rating \in RatingsSent \cup {None}
    BY DEF PageInv, TypeOK
  <2>2. rating' = IF rating = None \/ rating.state # "sent" THEN None ELSE [rating EXCEPT !.heard = FALSE]
    BY DEF Leave
  <2> QED BY <2>1, <2>2 DEF RatingsSent
<1>3. message' \in Messages /\ message'.heard = FALSE
  <2>1. message \in Messages
    BY DEF PageInv, TypeOK
  <2>2. message' = IF message.state # "sent" THEN NoMessage ELSE [message EXCEPT !.heard = FALSE]
    BY DEF Leave
  <2> QED BY <2>1, <2>2 DEF Messages, NoMessage
<1>4. /\ page' \in Pages /\ page'.mounted = FALSE /\ page'.chat = NewChat /\ page'.announced = {}
  BY <1>1, NewChatGood DEF Unmounted, Pages, NoCounts
<1>5. TypeOK'
  BY <1>1, <1>2, <1>3, <1>4 DEF PageInv, TypeOK
<1>6. HistoriesGood(server)' /\ (cache # None => HistoriesGood(cache) /\ Grows(cache, server))'
  BY <1>1 DEF PageInv, HistoriesGood, Grows
<1>7. ChatGood(page.chat, page.announced)'
  <2>1. AskedGood(page'.chat, page'.announced) /\ Fits(page'.chat, server') /\ Fits(page'.chat, cache')
        /\ \A t \in Tickets : InOrder(page'.chat.told[t])
    BY <1>4, NewChatGood
  <2> QED BY <2>1 DEF ChatGood, AskedGood, Fits, ToldFits, InOrder
<1>8. (stored # None => ChatGood(stored.chat, stored.announced))'
  <2>1. ASSUME stored' # None PROVE stored' = stored /\ ChatGood(stored.chat, stored.announced)
    BY <1>1, <2>1 DEF PageInv
  <2>2. cache' # None => cache' = cache
    BY <1>1
  <2> QED BY <1>1, <2>1, <2>2 DEF ChatGood, AskedGood, Fits, ToldFits, InOrder
<1>9. PageGood' /\ HeardGood'
  BY <1>1, <1>2, <1>3, <1>4 DEF PageGood, HeardGood, Unmounted
<1> QED BY <1>5, <1>6, <1>7, <1>8, <1>9 DEF PageInv

\* A new chat, asked for or after a long absence.
LEMMA FreshKeeps ==
  ASSUME PageInv, page.mounted, Shows(Fresh(page)), idle' = FALSE, UNCHANGED <<server, cache, network>>
  PROVE  PageInv'
<1> DEFINE p == Fresh(page)
<1>1. page \in Pages /\ page.mounted = TRUE
  BY DEF PageInv, TypeOK, Pages
<1>2. p \in Pages /\ p.mounted = TRUE /\ p.chat = NewChat /\ p.announced = {}
  BY <1>1, NewChatGood DEF Fresh, Pages
<1>3. Shows(p)
  OBVIOUS
<1> HIDE DEF p
<1>4. /\ AskedGood(p.chat, p.announced) /\ Fits(p.chat, server) /\ Fits(p.chat, cache) /\ p.chat.live = {}
      /\ UnderCount(p) /\ \A t \in Tickets : InOrder(p.chat.told[t])
  BY <1>2, NewChatGood DEF UnderCount
<1>5. /\ cache \in Lists \cup {None} /\ cache' = cache /\ server' = server
      /\ rating' \in RatingsSent \cup {None} /\ message' \in Messages /\ idle' \in BOOLEAN
      /\ cache # None => HistoriesGood(cache) /\ Grows(cache, server)
  BY DEF PageInv, TypeOK, network
<1> QED BY <1>2, <1>3, <1>4, <1>5, ShowsKeeps

\* What the page shows stays; something on its way ends, or time passes.
LEMMA NothingShownKeeps ==
  ASSUME PageInv, UNCHANGED <<server, cache, page, stored>>,
         rating' \in RatingsSent \cup {None}, rating' = rating \/ rating' = None,
         message' \in Messages, message' = message \/ message'.heard = FALSE, idle' \in BOOLEAN
  PROVE  PageInv'
<1>1. TypeOK'
  BY DEF PageInv, TypeOK
<1>2. HistoriesGood(server)' /\ (cache # None => HistoriesGood(cache) /\ Grows(cache, server))'
  BY DEF PageInv, HistoriesGood, Grows
<1>3. ChatGood(page.chat, page.announced)' /\ (stored # None => ChatGood(stored.chat, stored.announced))'
  BY DEF PageInv, ChatGood, AskedGood, Fits, ToldFits, InOrder
<1>4. PageGood' /\ HeardGood'
  BY DEF PageInv, PageGood, HeardGood, UnderCount, Under, Unmounted
<1> QED BY <1>1, <1>2, <1>3, <1>4 DEF PageInv

LEMMA SubmitRatingKeeps ==
  ASSUME PageInv, NEW t \in Tickets, SubmitRating(t)
  PROVE  PageInv'
<1> DEFINE p == [page EXCEPT !.chat.live = @ \ {t}]
<1>1. /\ page.mounted /\ page \in Pages /\ rating' \in Submitted(t)
      /\ Shows(p) /\ UNCHANGED <<server, cache, message, idle>>
      /\ message \in Messages /\ idle \in BOOLEAN /\ cache \in Lists \cup {None}
  BY DEF SubmitRating, PageInv, TypeOK
<1>2. rating' \in RatingsSent
  <2> DEFINE seen == IF cache = None \/ cache[t] = None THEN None ELSE Len(cache[t].history)
  <2>1. seen \in (0..MaxRows) \cup {None}
    BY <1>1, MaxRowsAssumption DEF PageInv, HistoriesGood
  <2>2. rating' \in [ticket : {t}, stars : Ratings, state : {"sent"}, heard : {TRUE}, seen : {seen}]
    BY <1>1 DEF Submitted
  <2> HIDE DEF seen
  <2> QED BY <2>1, <2>2 DEF RatingsSent
<1>3. /\ p \in Pages /\ p.mounted = TRUE /\ p.announced = page.announced /\ p.count = page.count
      /\ p.chat.asked = page.chat.asked /\ p.chat.told = page.chat.told
      /\ p.chat.sorry = page.chat.sorry /\ p.chat.live \subseteq page.chat.live
  BY <1>1 DEF Pages, Transcripts
<1> HIDE DEF p
<1> QED BY <1>1, <1>2, <1>3, SameNewsKeeps

LEMMA RatingAnsweredKeeps ==
  ASSUME PageInv, RatingAnswered
  PROVE  PageInv'
<1>1. /\ rating # None /\ rating \in RatingsSent /\ rating' = None /\ page \in Pages
      /\ UNCHANGED <<server, cache, message, idle>>
      /\ message \in Messages /\ idle \in BOOLEAN
  BY DEF RatingAnswered, PageInv, TypeOK
<1>2. CASE UNCHANGED <<page, stored>>
  BY <1>1, <1>2, NothingShownKeeps
<1>3. CASE ~UNCHANGED <<page, stored>>
  <2> DEFINE q == [page EXCEPT !.count[rating.ticket] = IF rating.seen = None THEN @ ELSE rating.seen + 1]
             p == Unsatisfied(q)
  <2>1. Shows(p) /\ page.mounted
    BY <1>1, <1>3 DEF RatingAnswered, PageInv, HeardGood
  <2>2. rating.ticket \in Tickets /\ rating.seen \in (0..MaxRows) \cup {None}
    BY <1>1 DEF RatingsSent
  <2>3. /\ q \in Pages /\ q.mounted = page.mounted /\ q.announced = page.announced /\ q.chat = page.chat
    <3> DEFINE n == IF rating.seen = None THEN page.count[rating.ticket] ELSE rating.seen + 1
    <3>1. page.count \in [Tickets -> (0..MaxRows + 1) \cup {None}]
      BY <1>1 DEF Pages
    <3>2. n \in (0..MaxRows + 1) \cup {None}
      BY <2>2, <3>1, MaxRowsAssumption
    <3> DEFINE count == [page.count EXCEPT ![rating.ticket] = n]
    <3>3. q = [page EXCEPT !.count = count]
      BY <1>1, <3>1 DEF Pages
    <3>4. count \in [Tickets -> (0..MaxRows + 1) \cup {None}]
      BY <3>1, <3>2
    <3> HIDE DEF n, count, q
    <3> QED BY <1>1, <3>3, <3>4 DEF Pages
  <2> HIDE DEF q
  <2>4. /\ p \in Pages /\ p.mounted = q.mounted /\ p.announced = q.announced
        /\ p.chat.asked = q.chat.asked /\ p.chat.told = q.chat.told
        /\ p.chat.live = q.chat.live /\ p.chat.sorry = TRUE
    BY <2>3 DEF Unsatisfied, Pages, Transcripts
  <2> HIDE DEF p
  <2> QED BY <1>1, <2>1, <2>3, <2>4, SameNewsKeeps DEF Pages
<1> QED BY <1>2, <1>3

LEMMA RatingLostKeeps ==
  ASSUME PageInv, RatingLost
  PROVE  PageInv'
<1>1. rating' = None /\ UNCHANGED <<server, cache, page, stored, message, idle>>
      /\ message \in Messages /\ idle \in BOOLEAN
  BY DEF RatingLost, PageInv, TypeOK
<1> QED BY <1>1, NothingShownKeeps

LEMMA TimePassesKeeps ==
  ASSUME PageInv, TimePasses
  PROVE  PageInv'
<1>1. /\ idle' = TRUE /\ UNCHANGED <<server, cache, page, stored, rating, message>>
      /\ message \in Messages /\ rating \in RatingsSent \cup {None}
  BY DEF TimePasses, network, PageInv, TypeOK
<1> QED BY <1>1, NothingShownKeeps

LEMMA SendKeeps ==
  ASSUME PageInv, Send
  PROVE  PageInv'
<1> DEFINE p == [page EXCEPT !.chat.talk = TRUE]
<1>1. /\ page.mounted /\ page \in Pages /\ Shows(p) /\ idle' = FALSE
      /\ UNCHANGED <<server, cache, rating>> /\ rating \in RatingsSent \cup {None}
      /\ message' = [state |-> "sent", settles |-> FALSE, heard |-> TRUE]
  BY DEF Send, ComposerOpen, PageInv, TypeOK
<1>2. message' \in Messages
  BY <1>1 DEF Messages
<1>3. /\ p \in Pages /\ p.mounted = TRUE /\ p.announced = page.announced /\ p.count = page.count
      /\ p.chat.asked = page.chat.asked /\ p.chat.told = page.chat.told
      /\ p.chat.sorry = page.chat.sorry /\ p.chat.live = page.chat.live
  BY <1>1 DEF Pages, Transcripts
<1> HIDE DEF p
<1> QED BY <1>1, <1>2, <1>3, SameNewsKeeps

LEMMA ReplyArrivesKeeps ==
  ASSUME PageInv, ReplyArrives
  PROVE  PageInv'
<1>1. /\ message' = NoMessage /\ UNCHANGED <<server, cache, rating, idle>> /\ page \in Pages
      /\ rating \in RatingsSent \cup {None} /\ message \in Messages /\ idle \in BOOLEAN
  BY DEF ReplyArrives, PageInv, TypeOK
<1>2. message' \in Messages /\ message'.heard = FALSE
  BY <1>1 DEF Messages, NoMessage
<1>3. CASE message.heard
  <2> DEFINE p == [page EXCEPT !.chat.talk = TRUE, !.chat.closed = @ \/ message.settles]
  <2>1. page.mounted /\ Shows(p)
    BY <1>3 DEF ReplyArrives, PageInv, HeardGood
  <2>2. message.settles \in BOOLEAN
    BY <1>1 DEF Messages
  <2>3. /\ p \in Pages /\ p.mounted = page.mounted /\ p.announced = page.announced /\ p.count = page.count
        /\ p.chat.asked = page.chat.asked /\ p.chat.told = page.chat.told
        /\ p.chat.sorry = page.chat.sorry /\ p.chat.live = page.chat.live
    <3> DEFINE closed == page.chat.closed \/ message.settles
               chat == [page.chat EXCEPT !.talk = TRUE, !.closed = closed]
    <3>1. page.chat \in Transcripts /\ closed \in BOOLEAN
      BY <1>1, <2>2 DEF Pages, Transcripts
    <3>2. p = [page EXCEPT !.chat = chat]
      BY <1>1, <3>1 DEF Pages, Transcripts
    <3> HIDE DEF p, closed
    <3>3. /\ chat \in Transcripts /\ chat.asked = page.chat.asked /\ chat.told = page.chat.told
          /\ chat.sorry = page.chat.sorry /\ chat.live = page.chat.live
      BY <3>1 DEF Transcripts
    <3> HIDE DEF chat
    <3> QED BY <1>1, <3>2, <3>3 DEF Pages
  <2> HIDE DEF p
  <2>4. p.mounted = TRUE
    BY <1>1, <2>1, <2>3 DEF Pages
  <2> QED BY <1>1, <1>2, <2>1, <2>3, <2>4, SameNewsKeeps
<1>4. CASE ~message.heard
  <2>1. UNCHANGED <<page, stored>>
    BY <1>4 DEF ReplyArrives
  <2> QED BY <1>1, <1>2, <2>1, NothingShownKeeps
<1> QED BY <1>3, <1>4

LEMMA SendFailsKeeps ==
  ASSUME PageInv, SendFails
  PROVE  PageInv'
<1>1. /\ message' = NoMessage /\ UNCHANGED <<server, cache, page, stored, rating, idle>>
      /\ rating \in RatingsSent \cup {None} /\ idle \in BOOLEAN
  BY DEF SendFails, PageInv, TypeOK
<1>2. message' \in Messages /\ message'.heard = FALSE
  BY <1>1 DEF Messages, NoMessage
<1> QED BY <1>1, <1>2, NothingShownKeeps
-----------------------------------------------------------------------------
(* The theorems.                                                           *)

LEMMA PageInit == Init => PageInv
<1> SUFFICES ASSUME Init PROVE PageInv
  OBVIOUS
<1>1. /\ server \in [Tickets -> {None, NewTicket}] /\ cache = None /\ page = Unmounted
      /\ stored = None /\ rating = None /\ message = NoMessage /\ idle = FALSE
  BY DEF Init
<1>2. server \in Lists /\ HistoriesGood(server)
  <2>1. server \in Lists
    BY <1>1, NewTicketGood DEF Lists
  <2>2. \A t \in Tickets : server[t] # None => Len(server[t].history) = 2
    BY <1>1, NewTicketGood
  <2>3. 2 \in 1..MaxRows
    BY MaxRowsAssumption
  <2> QED BY <2>1, <2>2, <2>3 DEF HistoriesGood
<1>3. page \in Pages /\ page.mounted = FALSE /\ page.chat = NewChat /\ page.announced = {}
  BY <1>1, NewChatGood DEF Unmounted, Pages, NoCounts
<1>4. message \in Messages /\ message.heard = FALSE
  BY <1>1 DEF NoMessage, Messages
<1>5. TypeOK
  BY <1>1, <1>2, <1>3, <1>4 DEF TypeOK
<1>6. ChatGood(page.chat, page.announced)
  BY <1>3, NewChatGood DEF ChatGood
<1> QED BY <1>1, <1>2, <1>3, <1>4, <1>5, <1>6 DEF PageInv, PageGood, HeardGood

LEMMA PageNext == PageInv /\ [Next]_vars => PageInv'
<1> SUFFICES ASSUME PageInv, [Next]_vars PROVE PageInv'
  OBVIOUS
<1>1. ASSUME NEW t \in Tickets, StatusMoves(t) PROVE PageInv'
  BY <1>1, StatusMovesKeeps
<1>2. ASSUME NEW t \in Tickets, OwnerChanges(t) PROVE PageInv'
  BY <1>2, OwnerChangesKeeps
<1>3. ASSUME NEW t \in Tickets, AutoCloses(t) PROVE PageInv'
  BY <1>3, AutoClosesKeeps
<1>4. ASSUME NEW t \in Tickets, SubmitRating(t) PROVE PageInv'
  BY <1>4, SubmitRatingKeeps
<1>5. CASE Poll
  BY <1>5, PollKeeps
<1>6. CASE Mount
  BY <1>6, MountKeeps
<1>7. CASE Leave
  BY <1>7, LeaveKeeps
<1>8. CASE StartNewChat
  BY <1>8, FreshKeeps DEF StartNewChat
<1>9. CASE IdleReset
  BY <1>9, FreshKeeps DEF IdleReset
<1>10. CASE TimePasses
  BY <1>10, TimePassesKeeps
<1>11. CASE ServerRates
  BY <1>11, ServerRatesKeeps
<1>12. CASE RatingAnswered
  BY <1>12, RatingAnsweredKeeps
<1>13. CASE RatingLost
  BY <1>13, RatingLostKeeps
<1>14. CASE Send
  BY <1>14, SendKeeps
<1>15. CASE ServerAnswers
  BY <1>15, ServerAnswersKeeps
<1>16. CASE ReplyArrives
  BY <1>16, ReplyArrivesKeeps
<1>17. CASE SendFails
  BY <1>17, SendFailsKeeps
<1>18. CASE UNCHANGED vars
  <2>1. UNCHANGED <<server, cache, page, stored, rating, message, idle>>
    BY <1>18 DEF vars, network
  <2>2. message \in Messages /\ rating \in RatingsSent \cup {None} /\ idle \in BOOLEAN
    BY DEF PageInv, TypeOK
  <2> QED BY <2>1, <2>2, NothingShownKeeps
<1> QED
  BY <1>1, <1>2, <1>3, <1>4, <1>5, <1>6, <1>7, <1>8, <1>9, <1>10, <1>11, <1>12, <1>13, <1>14,
     <1>15, <1>16, <1>17, <1>18 DEF Next

(* The inductive invariant: no transcript runs ahead of a list it will be  *)
(* compared with, wherever reloads, lost answers and resets leave it.      *)
THEOREM PageInvariant == Spec => []PageInv
<1> QED BY PageInit, PageNext, PTL DEF Spec

(* Every variable keeps the type its use in the code implies, and session  *)
(* storage holds what the mounted page shows.                              *)
THEOREM PageTypeCorrect == Spec => []TypeOK
<1>1. PageInv => TypeOK
  BY DEF PageInv
<1> QED BY <1>1, PageInvariant, PTL

(* A widget that is shown belongs to a ticket the page's list has as       *)
(* resolved, for any number of tickets, reloads and replies.               *)
THEOREM PageNoDeadWidget == Spec => []NoDeadWidget
<1>1. PageInv => NoDeadWidget
  BY DEF PageInv, PageGood, NoDeadWidget
<1> QED BY <1>1, PageInvariant, PTL

(* A transcript asks for the rating of a ticket once.                      *)
THEOREM PageAskedOnce == Spec => []AskedOnce
<1>1. PageInv => AskedOnce
  BY DEF PageInv, ChatGood, AskedGood, AskedOnce
<1> QED BY <1>1, PageInvariant, PTL

(* Without a complaint, a history row is told once and in its order.       *)
THEOREM PageToldOnce == Spec => []ToldOnce
<1>1. PageInv => ToldOnce
  BY DEF PageInv, ChatGood, InOrder, ToldOnce
<1> QED BY <1>1, PageInvariant, PTL
-----------------------------------------------------------------------------
(* The notes that the page quotes.                                         *)

\* A list that comes later has the tickets and the history rows of the one before.
RowsKept(old, new) ==
  \A t \in Tickets : old[t] # None =>
    /\ new[t] # None /\ Len(old[t].history) <= Len(new[t].history)
    /\ \A i \in 1..Len(old[t].history) : new[t].history[i] = old[t].history[i]

\* The latest history row of a resolution that waits for its rating is a status change, the
\* resolution itself: no reassignment or escalation has come between.
ResolutionIsLast(list) ==
  \A t \in Tickets :
    list[t] # None /\ list[t].status = "resolved" /\ list[t].satisfaction = None =>
      list[t].history[Len(list[t].history)].change

QuotesChanges(chat, list) ==
  \A q \in chat.quoted :
    /\ list[q[1]] # None /\ q[2] \in 1..Len(list[q[1]].history)
    /\ list[q[1]].history[q[2]].change

\* A list that was fetched is an earlier state of the server's, so that a row quoted from it,
\* by the page or by what is stored, is that row of the server's.
QuoteInv ==
  /\ cache # None => RowsKept(cache, server) /\ ResolutionIsLast(cache)
  /\ QuotesChanges(page.chat, server)
  /\ stored # None => QuotesChanges(stored.chat, server)

LEMMA LengthsAreNat ==
  ASSUME NEW list \in Lists, NEW t \in Tickets, list[t] # None
  PROVE  Len(list[t].history) \in Nat
BY DEF Lists, ServerTickets, Rows

LEMMA RowsKeptOn ==
  ASSUME NEW old \in Lists, NEW mid \in Lists, NEW new \in Lists, RowsKept(old, mid), RowsKept(mid, new)
  PROVE  RowsKept(old, new)
<1> SUFFICES ASSUME NEW t \in Tickets, old[t] # None
             PROVE  /\ new[t] # None /\ Len(old[t].history) <= Len(new[t].history)
                    /\ \A i \in 1..Len(old[t].history) : new[t].history[i] = old[t].history[i]
  BY DEF RowsKept
<1>1. /\ mid[t] # None /\ Len(old[t].history) <= Len(mid[t].history)
      /\ \A i \in 1..Len(old[t].history) : mid[t].history[i] = old[t].history[i]
  BY DEF RowsKept
<1>2. /\ new[t] # None /\ Len(mid[t].history) <= Len(new[t].history)
      /\ \A i \in 1..Len(mid[t].history) : new[t].history[i] = mid[t].history[i]
  BY <1>1 DEF RowsKept
<1>3. Len(old[t].history) \in Nat /\ Len(mid[t].history) \in Nat /\ Len(new[t].history) \in Nat
  BY <1>1, <1>2, LengthsAreNat
<1>4. \A i \in 1..Len(old[t].history) : i \in 1..Len(mid[t].history)
  BY <1>1, <1>3
<1>5. Len(old[t].history) <= Len(new[t].history)
  BY <1>1, <1>2, <1>3
<1>6. ASSUME NEW i \in 1..Len(old[t].history) PROVE new[t].history[i] = old[t].history[i]
  BY <1>1, <1>2, <1>4
<1> QED BY <1>2, <1>5, <1>6

LEMMA QuotesStay ==
  ASSUME NEW chat \in Transcripts, NEW old \in Lists, NEW new \in Lists,
         QuotesChanges(chat, old), RowsKept(old, new)
  PROVE  QuotesChanges(chat, new)
<1> SUFFICES ASSUME NEW q \in chat.quoted
             PROVE  /\ new[q[1]] # None /\ q[2] \in 1..Len(new[q[1]].history)
                    /\ new[q[1]].history[q[2]].change
  BY DEF QuotesChanges
<1>1. q[1] \in Tickets
  BY DEF Transcripts
<1>2. /\ old[q[1]] # None /\ q[2] \in 1..Len(old[q[1]].history)
      /\ old[q[1]].history[q[2]].change
  BY DEF QuotesChanges
<1>3. /\ new[q[1]] # None /\ Len(old[q[1]].history) <= Len(new[q[1]].history)
      /\ new[q[1]].history[q[2]] = old[q[1]].history[q[2]]
  BY <1>1, <1>2 DEF RowsKept
<1>4. Len(old[q[1]].history) \in Nat /\ Len(new[q[1]].history) \in Nat
  BY <1>1, <1>2, <1>3, LengthsAreNat
<1> QED BY <1>2, <1>3, <1>4

\* A row is only ever added, at the end.
LEMMA RecordedKeepsRows ==
  ASSUME NEW t \in Tickets, server \in Lists, server[t] # None, NEW c \in ServerTickets,
         c.history = server[t].history, NEW e \in HistoryRows,
         server' = [server EXCEPT ![t] = Recorded(c, e)]
  PROVE  RowsKept(server, server')
<1> SUFFICES ASSUME NEW x \in Tickets, server[x] # None
             PROVE  /\ server'[x] # None /\ Len(server[x].history) <= Len(server'[x].history)
                    /\ \A i \in 1..Len(server[x].history) : server'[x].history[i] = server[x].history[i]
  BY DEF RowsKept
<1>1. Len(server[x].history) \in Nat
  BY LengthsAreNat
<1>2. CASE x = t
  <2>1. server'[x] = Recorded(c, e) /\ Recorded(c, e) # None
    BY <1>2, RecordedGood DEF Lists
  <2>2. c.history \in Seq(HistoryRows)
    BY DEF ServerTickets, Rows
  <2>3. Recorded(c, e).history = Append(c.history, e)
    BY DEF Recorded, ServerTickets
  <2>4. /\ Len(Append(c.history, e)) = Len(c.history) + 1
        /\ \A i \in 1..Len(c.history) : Append(c.history, e)[i] = c.history[i]
    BY <2>2
  <2> QED BY <1>1, <1>2, <2>1, <2>3, <2>4
<1>3. CASE x # t
  <2>1. server'[x] = server[x]
    BY <1>3 DEF Lists
  <2> QED BY <1>1, <2>1
<1> QED BY <1>2, <1>3

LEMMA SameRowsKept ==
  ASSUME NEW list \in Lists
  PROVE  RowsKept(list, list)
BY LengthsAreNat DEF RowsKept

LEMMA ServerKeepsRows == PageInv /\ [Next]_vars => RowsKept(server, server')
<1> SUFFICES ASSUME PageInv, [Next]_vars PROVE RowsKept(server, server')
  OBVIOUS
<1>1. server \in Lists
  BY DEF PageInv, TypeOK
<1>2. CASE UNCHANGED server
  BY <1>1, <1>2, SameRowsKept
<1>3. ASSUME NEW t \in Tickets, StatusMoves(t) PROVE RowsKept(server, server')
  <2>1. server[t] # None /\ server[t] \in ServerTickets
    BY <1>1, <1>3 DEF StatusMoves, HasRoom, Lists
  <2>2. PICK s \in ADMIN_SETTABLE_STATUSES :
          server' = [server EXCEPT ![t] =
            Recorded(RecordStatus(server[t], s, 0), StatusEntry(s, "admin"))]
    BY <1>3 DEF StatusMoves
  <2>3. s \in TicketStatus /\ "admin" \in Authors
    BY DEF ADMIN_SETTABLE_STATUSES, TicketStatus, Authors
  <2> QED BY <1>1, <2>1, <2>2, <2>3, ColumnsGood, EntriesGood, RecordedKeepsRows
<1>4. ASSUME NEW t \in Tickets, OwnerChanges(t) PROVE RowsKept(server, server')
  <2>1. server[t] # None /\ server[t] \in ServerTickets
    BY <1>1, <1>4 DEF OwnerChanges, HasRoom, Lists
  <2>2. server' = [server EXCEPT ![t] = Recorded(server[t], NoteEntry(server[t], "admin"))]
    BY <1>4 DEF OwnerChanges
  <2>3. NoteEntry(server[t], "admin") \in HistoryRows
    BY <2>1, EntriesGood DEF Authors
  <2> QED BY <1>1, <2>1, <2>2, <2>3, RecordedKeepsRows
<1>5. ASSUME NEW t \in Tickets, AutoCloses(t) PROVE RowsKept(server, server')
  <2>1. server[t] # None /\ server[t] \in ServerTickets
    BY <1>1, <1>5 DEF AutoCloses, HasRoom, Lists
  <2>2. server' = [server EXCEPT ![t] =
          Recorded(RecordStatus(server[t], "closed", 0), StatusEntry("closed", "system"))]
    BY <1>5 DEF AutoCloses
  <2>3. "closed" \in TicketStatus /\ "system" \in Authors
    BY DEF TicketStatus, Authors
  <2> QED BY <1>1, <2>1, <2>2, <2>3, ColumnsGood, EntriesGood, RecordedKeepsRows
<1>6. CASE ServerRates /\ ~UNCHANGED server
  <2> DEFINE t == rating.ticket
             r == rating.stars
  <2>1. /\ HasRoom(t)
        /\ server' = [server EXCEPT ![t] =
             Recorded(record_ticket_rating(server[t], r),
                      StatusEntry(StatusAfterRating(r), "astrologer"))]
    BY <1>6 DEF ServerRates
  <2>2. t \in Tickets /\ r \in Ratings
    BY <1>6 DEF ServerRates, PageInv, TypeOK, RatingsSent
  <2>3. server[t] # None /\ server[t] \in ServerTickets
    BY <1>1, <2>1, <2>2 DEF HasRoom, Lists
  <2>4. StatusAfterRating(r) \in TicketStatus /\ "astrologer" \in Authors
    BY DEF StatusAfterRating, TicketStatus, Authors
  <2> HIDE DEF t, r
  <2> QED BY <1>1, <2>1, <2>2, <2>3, <2>4, ColumnsGood, EntriesGood, RecordedKeepsRows
<1>7. CASE ServerAnswers /\ ~UNCHANGED server
  <2>1. PICK t \in Tickets : server[t] = None /\ server' = [server EXCEPT ![t] = NewTicket]
    BY <1>7 DEF ServerAnswers
  <2>2. \A x \in Tickets : server[x] # None => server'[x] = server[x]
    BY <1>1, <2>1 DEF Lists
  <2> QED BY <1>1, <2>2, LengthsAreNat DEF RowsKept
<1>8. CASE Poll \/ Mount \/ Leave \/ StartNewChat \/ IdleReset \/ TimePasses \/ RatingAnswered
           \/ RatingLost \/ Send \/ ReplyArrives \/ SendFails \/ UNCHANGED vars
  BY <1>2, <1>8 DEF Poll, Mount, Leave, StartNewChat, IdleReset, TimePasses, RatingAnswered,
     RatingLost, Send, ReplyArrives, SendFails, vars
<1>9. ASSUME NEW t \in Tickets, SubmitRating(t) PROVE RowsKept(server, server')
  BY <1>2, <1>9 DEF SubmitRating
<1> QED BY <1>2, <1>3, <1>4, <1>5, <1>6, <1>7, <1>8, <1>9 DEF Next

\* What shows nothing new.
LEMMA NothingQuoted ==
  ASSUME PageInv, QuoteInv, RowsKept(server, server'), server' \in Lists,
         UNCHANGED <<cache, page, stored>>
  PROVE  QuoteInv'
<1>1. /\ server \in Lists /\ page.chat \in Transcripts /\ (cache # None => cache \in Lists)
      /\ stored # None => stored.chat \in Transcripts
  BY DEF PageInv, TypeOK, Pages, Stores
<1>2. cache # None => RowsKept(cache, server') /\ ResolutionIsLast(cache)
  BY <1>1, RowsKeptOn DEF QuoteInv
<1>3. QuotesChanges(page.chat, server') /\ (stored # None => QuotesChanges(stored.chat, server'))
  BY <1>1, QuotesStay DEF QuoteInv
<1> QED BY <1>2, <1>3 DEF QuoteInv, RowsKept, ResolutionIsLast, QuotesChanges

\* The page shows a transcript whose quotes are good, of the list it has.
LEMMA QuotesShown ==
  ASSUME QuoteInv, NEW p, Shows(p), UNCHANGED server, QuotesChanges(p.chat, server),
         cache' = cache \/ (RowsKept(cache', server) /\ ResolutionIsLast(cache'))
  PROVE  QuoteInv'
<1>1. page' = p /\ stored'.chat = p.chat
  BY DEF Shows
<1>2. cache' # None => RowsKept(cache', server) /\ ResolutionIsLast(cache')
  BY DEF QuoteInv
<1> QED BY <1>1, <1>2 DEF QuoteInv, RowsKept, ResolutionIsLast, QuotesChanges

\* A look at a list, all of whose resolutions are the latest row, quotes no other row.
LEMMA WatchedQuotes ==
  ASSUME server \in Lists, NEW p \in Pages, NEW list \in Lists, HistoriesGood(list),
         QuotesChanges(p.chat, server), RowsKept(list, server), ResolutionIsLast(list)
  PROVE  QuotesChanges(Watched(p, list).chat, server)
<1> DEFINE asks == {t \in Listed(list) : Asks(p, list[t], t)}
           w == Watched(p, list)
<1>1. w.chat.quoted = p.chat.quoted \cup {<<t, Len(list[t].history)>> : t \in asks}
  BY WatchedFields
<1>2. ASSUME NEW t \in asks
      PROVE  LET n == Len(list[t].history)
             IN /\ server[t] # None /\ n \in 1..Len(server[t].history)
                /\ server[t].history[n].change
  <2>1. /\ t \in Tickets /\ list[t] # None /\ list[t].status = "resolved"
        /\ list[t].satisfaction = None
    BY DEF Listed, Asks
  <2>2. Len(list[t].history) \in 1..MaxRows /\ list[t].history[Len(list[t].history)].change
    BY <2>1 DEF HistoriesGood, ResolutionIsLast
  <2>3. /\ server[t] # None /\ Len(list[t].history) <= Len(server[t].history)
        /\ \A i \in 1..Len(list[t].history) : server[t].history[i] = list[t].history[i]
    BY <2>1 DEF RowsKept
  <2>4. Len(server[t].history) \in Nat
    BY <2>1, <2>3, LengthsAreNat
  <2>5. Len(list[t].history) \in 1..Len(list[t].history)
    BY <2>2, MaxRowsAssumption
  <2> QED BY <2>2, <2>3, <2>4, <2>5
<1> HIDE DEF asks, w
<1>3. ASSUME NEW q \in w.chat.quoted
      PROVE  /\ server[q[1]] # None /\ q[2] \in 1..Len(server[q[1]].history)
             /\ server[q[1]].history[q[2]].change
  <2>1. CASE q \in p.chat.quoted
    BY <2>1 DEF QuotesChanges
  <2>2. CASE q \notin p.chat.quoted
    <3>1. PICK t \in asks : q = <<t, Len(list[t].history)>>
      BY <1>1, <1>3, <2>2
    <3> QED BY <1>2, <3>1
  <2> QED BY <2>1, <2>2
<1> QED BY <1>3 DEF QuotesChanges, w

LEMMA QuoteNext == PageInv /\ PageInv' /\ QuoteInv /\ ResolutionIsLast(server) /\ [Next]_vars => QuoteInv'
<1> SUFFICES ASSUME PageInv, PageInv', QuoteInv, ResolutionIsLast(server), [Next]_vars PROVE QuoteInv'
  OBVIOUS
<1>1. /\ RowsKept(server, server') /\ server \in Lists /\ server' \in Lists
      /\ page \in Pages /\ HistoriesGood(server)
      /\ cache # None => cache \in Lists /\ HistoriesGood(cache)
  BY ServerKeepsRows DEF PageInv, TypeOK
<1>2. CASE UNCHANGED <<cache, page, stored>>
  BY <1>1, <1>2, NothingQuoted
<1>3. ASSUME NEW p, Shows(p), UNCHANGED <<server, cache>>, p.chat.quoted \subseteq page.chat.quoted
      PROVE  QuoteInv'
  <2>1. QuotesChanges(p.chat, server)
    BY <1>3 DEF QuoteInv, QuotesChanges
  <2> QED BY <1>3, <2>1, QuotesShown
<1>4. CASE Poll
  <2>1. cache' = server /\ UNCHANGED server
    BY <1>4 DEF Poll
  <2>2. RowsKept(server, server)
    BY <1>1, SameRowsKept
  <2>3. CASE page.mounted
    <3>1. Shows(Watched(page, server))
      BY <1>4, <2>3 DEF Poll
    <3>2. QuotesChanges(Watched(page, server).chat, server)
      BY <1>1, <2>2, WatchedQuotes DEF QuoteInv
    <3> QED BY <2>1, <2>2, <3>1, <3>2, QuotesShown
  <2>4. CASE ~page.mounted
    <3>1. UNCHANGED <<page, stored>>
      BY <1>4, <2>4 DEF Poll
    <3> QED BY <2>1, <2>2, <3>1 DEF QuoteInv, RowsKept, ResolutionIsLast, QuotesChanges
  <2> QED BY <2>3, <2>4
<1>5. CASE Mount
  <2> DEFINE p == [mounted |-> TRUE, chat |-> Persisted.chat, announced |-> Persisted.announced,
                   count |-> NoCounts]
  <2>1. Shows(IF cache = None THEN p ELSE Watched(p, cache)) /\ UNCHANGED <<server, cache>>
    BY <1>5 DEF Mount
  <2>2. Persisted \in Stores /\ QuotesChanges(Persisted.chat, server)
    <3>1. Blank \in Stores /\ Blank.chat.quoted = {}
      BY NewChatGood DEF Blank, Stores, NewChat
    <3>2. stored # None => stored \in Stores /\ QuotesChanges(stored.chat, server)
      BY DEF PageInv, TypeOK, QuoteInv
    <3> QED BY <3>1, <3>2 DEF Persisted, QuotesChanges
  <2>3. p \in Pages /\ p.chat = Persisted.chat
    BY <2>2 DEF Stores, Pages, NoCounts
  <2> HIDE DEF p
  <2>4. CASE cache = None
    BY <2>1, <2>2, <2>3, <2>4, QuotesShown
  <2>5. CASE cache # None
    <3>1. QuotesChanges(Watched(p, cache).chat, server)
      BY <1>1, <2>2, <2>3, <2>5, WatchedQuotes DEF QuoteInv
    <3> QED BY <2>1, <2>5, <3>1, QuotesShown
  <2> QED BY <2>4, <2>5
<1>6. CASE Leave
  <2>1. /\ cache' = cache \/ cache' = None
        /\ stored' = stored \/ stored' = None
        /\ page' = Unmounted /\ UNCHANGED server
    BY <1>6 DEF Leave
  <2>2. page'.chat.quoted = {}
    BY <2>1 DEF Unmounted, NewChat
  <2> QED BY <2>1, <2>2 DEF QuoteInv, RowsKept, ResolutionIsLast, QuotesChanges
<1>7. CASE StartNewChat \/ IdleReset
  <2>1. Shows(Fresh(page)) /\ UNCHANGED <<server, cache>>
    BY <1>7 DEF StartNewChat, IdleReset
  <2>2. Fresh(page).chat.quoted = {}
    BY <1>1 DEF Fresh, Pages, NewChat
  <2> QED BY <1>3, <2>1, <2>2
<1>8. ASSUME NEW t \in Tickets, SubmitRating(t) PROVE QuoteInv'
  <2> DEFINE p == [page EXCEPT !.chat.live = @ \ {t}]
  <2>1. Shows(p) /\ UNCHANGED <<server, cache>>
    BY <1>8 DEF SubmitRating
  <2>2. p.chat.quoted = page.chat.quoted
    BY <1>1 DEF Pages, Transcripts
  <2> QED BY <1>3, <2>1, <2>2
<1>9. CASE RatingAnswered
  <2> DEFINE q == [page EXCEPT !.count[rating.ticket] = IF rating.seen = None THEN @ ELSE rating.seen + 1]
  <2>1. (Shows(Unsatisfied(q)) \/ UNCHANGED <<page, stored>>) /\ UNCHANGED <<server, cache>>
    BY <1>9 DEF RatingAnswered
  <2>2. Unsatisfied(q).chat.quoted = page.chat.quoted
    BY <1>1 DEF Unsatisfied, Pages, Transcripts
  <2> QED BY <1>2, <1>3, <2>1, <2>2
<1>10. CASE Send
  <2> DEFINE p == [page EXCEPT !.chat.talk = TRUE]
  <2>1. Shows(p) /\ UNCHANGED <<server, cache>>
    BY <1>10 DEF Send
  <2>2. p.chat.quoted = page.chat.quoted
    BY <1>1 DEF Pages, Transcripts
  <2> QED BY <1>3, <2>1, <2>2
<1>11. CASE ReplyArrives
  <2> DEFINE p == [page EXCEPT !.chat.talk = TRUE, !.chat.closed = @ \/ message.settles]
  <2>1. (Shows(p) \/ UNCHANGED <<page, stored>>) /\ UNCHANGED <<server, cache>>
    BY <1>11 DEF ReplyArrives
  <2>2. p.chat.quoted = page.chat.quoted
    BY <1>1 DEF Pages, Transcripts
  <2> QED BY <1>2, <1>3, <2>1, <2>2
<1>12. ASSUME NEW t \in Tickets, StatusMoves(t) \/ OwnerChanges(t) \/ AutoCloses(t) PROVE QuoteInv'
  BY <1>2, <1>12 DEF StatusMoves, OwnerChanges, AutoCloses
<1>13. CASE TimePasses \/ ServerRates \/ RatingLost \/ ServerAnswers \/ SendFails \/ UNCHANGED vars
  BY <1>2, <1>13 DEF TimePasses, ServerRates, RatingLost, ServerAnswers, SendFails, vars
<1> QED BY <1>4, <1>5, <1>6, <1>7, <1>8, <1>9, <1>10, <1>11, <1>12, <1>13 DEF Next

(* No internal note is ever quoted in the chat, by any transcript, mounted *)
(* or restored, as long as nobody reassigns or escalates a ticket between  *)
(* its resolution and its rating (ChatPage.tsx:210-213): a list that is    *)
(* fetched late, kept over a change of page or looked at twice does no     *)
(* harm.                                                                   *)
THEOREM PageInternalNotesStayInternal ==
  Spec /\ []ResolutionIsLast(server) => []InternalNotesStayInternal
<1>1. Init => QuoteInv
  BY DEF Init, QuoteInv, QuotesChanges, Unmounted, NewChat
<1>2. QuoteInv => InternalNotesStayInternal
  BY DEF QuoteInv, QuotesChanges, InternalNotesStayInternal
<1> QED BY <1>1, <1>2, QuoteNext, PageInvariant, PTL DEF Spec
=============================================================================
