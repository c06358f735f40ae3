------------------------------ MODULE ChatPage ------------------------------
(***************************************************************************)
(* The chat page of the web app: it polls the astrologer's tickets,        *)
(* announces what has happened to them in the chat, asks for a rating of a *)
(* resolution, sends chat messages, and survives reloads by what it keeps  *)
(* in the browser's session storage.  The server's side of a ticket is     *)
(* TicketRow's; who changes it does not matter here.                       *)
(*                                                                         *)
(* A transcript is abstracted to what it holds of each kind of message:    *)
(* asked and told, the announcements, those of one look at the list        *)
(* together; live, the rating widgets; quoted, the history rows whose note *)
(* is shown.                                                               *)
(***************************************************************************)
EXTENDS TicketRow, Sequences

CONSTANTS Tickets, MaxRows

ASSUME MaxRowsAssumption == MaxRows \in Nat /\ MaxRows >= 2   \* a new ticket has two rows

VARIABLES
  server,    \* the tickets, None before they are raised
  cache,     \* the list as the page fetched it last, None before (react-query)
  page,      \* the mounted page, or what is left of it
  stored,    \* what session storage has
  rating,    \* the rating on its way to the server and back, None if there is none
  message,   \* the chat message on its way
  idle       \* IDLE_RESET_MS have passed since the last message was sent

network == <<rating, message>>
vars == <<server, cache, page, stored, network, idle>>

NoMessage == [state |-> "none", settles |-> FALSE, heard |-> FALSE]

\* A chat with nothing but the welcome message.
NewChat == [asked |-> [t \in Tickets |-> 0], live |-> {}, quoted |-> {},
            told |-> [t \in Tickets |-> <<>>], talk |-> FALSE, sorry |-> FALSE,
            closed |-> FALSE]

NoCounts == [t \in Tickets |-> None]
Blank == [chat |-> NewChat, announced |-> {}]
Unmounted == [mounted |-> FALSE, chat |-> NewChat, announced |-> {}, count |-> NoCounts]

\* A ticket as create_ticket leaves it.
NewTicket ==
  [status |-> "assigned_to_kam", resolved_at |-> None, satisfaction |-> None, rating |-> None,
   history |-> << StatusEntry("submitted", "system"), StatusEntry("assigned_to_kam", "system") >>]

Init ==
  /\ server \in [Tickets -> {None, NewTicket}]
  /\ cache = None
  /\ page = Unmounted
  /\ stored = None
  /\ rating = None
  /\ message = NoMessage
  /\ idle = FALSE
-----------------------------------------------------------------------------
(* The tickets, as far as the astrologer's list shows them.                 *)

HasRoom(t) == server[t] # None /\ Len(server[t].history) < MaxRows

Recorded(ticket, entry) == [ticket EXCEPT !.history = Append(@, entry)]

\* transition_status, by an admin or by Zoho's webhook.
StatusMoves(t) ==
  /\ HasRoom(t)
  /\ \E status \in ADMIN_SETTABLE_STATUSES :
       server' = [server EXCEPT ![t] =
         Recorded(RecordStatus(@, status, 0), StatusEntry(status, "admin"))]
  /\ UNCHANGED <<cache, page, stored, network, idle>>

\* reassign_ticket and escalate_to_kam leave a note that is not a status change.
OwnerChanges(t) ==
  /\ HasRoom(t)
  /\ server' = [server EXCEPT ![t] = Recorded(@, NoteEntry(@, "admin"))]
  /\ UNCHANGED <<cache, page, stored, network, idle>>

\* The auto-close: here a resolution may become stale at any time.
AutoCloses(t) ==
  /\ HasRoom(t)
  /\ server[t].status = "resolved" /\ server[t].satisfaction = None
  /\ server' = [server EXCEPT ![t] =
       Recorded(RecordStatus(@, "closed", 0), StatusEntry("closed", "system"))]
  /\ UNCHANGED <<cache, page, stored, network, idle>>
-----------------------------------------------------------------------------
(* The ticket watcher.  Names starting with Slip_ are defective variants of *)
(* the definition that follows, as in TicketRow.                            *)

Asks(p, ticket, t) ==
  /\ ticket.status = "resolved"
  /\ ticket.satisfaction = None
  /\ t \notin p.announced

Listed(list) == {t \in Tickets : list[t] # None}

\* The new history rows that get a message of their own.
News(p, ticket, t) ==
  LET from == p.count[t]
      Tellable(i) ==
        /\ ticket.history[i].change
        /\ ~(ticket.history[i].status = "closed" /\ ticket.satisfaction = "satisfied")
  IN IF from = None \/ Asks(p, ticket, t) THEN {}
     ELSE {i \in from + 1..Len(ticket.history) : Tellable(i)}

\* They are told together, in the order of the history.
Told(p, list, t) ==
  IF t \in Listed(list) /\ News(p, list[t], t) # {}
  THEN Append(p.chat.told[t], News(p, list[t], t)) ELSE p.chat.told[t]

Slip_SeedsOnly(p, list) ==
  [t \in Tickets |-> IF t \in Listed(list) /\ p.count[t] = None THEN Len(list[t].history) ELSE p.count[t]]

\* How much of every history has been announced, once the list has been looked at.
Counted(p, list) ==
  [t \in Tickets |-> IF t \in Listed(list) THEN Len(list[t].history) ELSE p.count[t]]

Slip_WidgetsStay(list) == Tickets

\* The tickets whose widget is not cleared.
Ratable(list) == {t \in Tickets : t \in Listed(list) => list[t].status = "resolved"}

\* The effect that runs when the list has changed, and when the page mounts.
Watched(p, list) ==
  LET listed == Listed(list)
      asks == {t \in listed : Asks(p, list[t], t)}
  IN [p EXCEPT
       !.announced = @ \cup asks,
       !.count = Counted(p, list),
       !.chat.asked = [t \in Tickets |-> @[t] + IF t \in asks THEN 1 ELSE 0],
       !.chat.live = (@ \cap Ratable(list)) \cup asks,
       !.chat.quoted = @ \cup {<<t, Len(list[t].history)>> : t \in asks},
       !.chat.told = [t \in Tickets |-> Told(p, list, t)]]

Slip_SavesTooEarly(p) ==
  /\ page' = p
  /\ stored' = [chat |-> page.chat, announced |-> page.announced]

\* The page renders, and the save effect stores what has to survive a reload.
Shows(p) ==
  /\ page' = p
  /\ stored' = [chat |-> p.chat, announced |-> p.announced]

\* Every 15 s, and when the list is invalidated; on the tickets page too.  A list that is
\* equal to the one before is the same object, and the effect does not run.
Poll ==
  /\ server # cache
  /\ cache' = server
  /\ IF page.mounted THEN Shows(Watched(page, server)) ELSE UNCHANGED <<page, stored>>
  /\ UNCHANGED <<server, network, idle>>
-----------------------------------------------------------------------------
(* Opening, leaving and resetting the page.                                 *)

Slip_ForgetsAnnounced == IF stored = None \/ idle THEN Blank ELSE [stored EXCEPT !.announced = {}]

\* What loadPersistedChat returns, unless it is too old.
Persisted == IF stored = None \/ idle THEN Blank ELSE stored

Mount ==
  /\ ~page.mounted
  /\ LET p == [mounted |-> TRUE, chat |-> Persisted.chat, announced |-> Persisted.announced,
               count |-> NoCounts]
     IN Shows(IF cache = None THEN p ELSE Watched(p, cache))
  /\ idle' = FALSE
  /\ UNCHANGED <<server, cache, network>>

\* A change of route keeps the list, a reload drops it, and closing the tab empties session
\* storage.  Answers to what is on its way find nobody.
Leave ==
  /\ page.mounted
  /\ \E keepsList, closesTab \in BOOLEAN :
       /\ closesTab => ~keepsList
       /\ cache' = IF keepsList THEN cache ELSE None
       /\ stored' = IF closesTab THEN None ELSE stored
  /\ page' = Unmounted
  /\ rating' = IF rating = None \/ rating.state # "sent" THEN None ELSE [rating EXCEPT !.heard = FALSE]
  /\ message' = IF message.state # "sent" THEN NoMessage ELSE [message EXCEPT !.heard = FALSE]
  /\ UNCHANGED <<server, idle>>

Slip_KeepsAnnounced(p) == [p EXCEPT !.chat = NewChat]

Fresh(p) == [p EXCEPT !.announced = {}, !.chat = NewChat]

HasContent(chat) == chat # NewChat

\* The astrologer asks for a new chat, or has been away for too long.
StartNewChat ==
  /\ page.mounted
  /\ Shows(Fresh(page))
  /\ idle' = FALSE
  /\ UNCHANGED <<server, cache, network>>

IdleReset ==
  /\ page.mounted /\ idle
  /\ HasContent(page.chat)
  /\ Shows(Fresh(page))
  /\ idle' = FALSE
  /\ UNCHANGED <<server, cache, network>>

TimePasses ==
  /\ ~idle
  /\ idle' = TRUE
  /\ UNCHANGED <<server, cache, page, stored, network>>
-----------------------------------------------------------------------------
(* Rating a resolution.                                                     *)

\* What a widget submits: any number of stars, with a reason.
Submitted(t) ==
  [ticket : {t}, stars : Ratings, state : {"sent"}, heard : {TRUE},
   seen : {IF cache = None \/ cache[t] = None THEN None ELSE Len(cache[t].history)}]

\* The widget goes at once; the list of this moment is what the callback will look at.  One
\* rating at a time is on its way.
SubmitRating(t) ==
  /\ page.mounted /\ t \in page.chat.live
  /\ rating = None
  /\ rating' \in Submitted(t)
  /\ Shows([page EXCEPT !.chat.live = @ \ {t}])
  /\ UNCHANGED <<server, cache, message, idle>>

\* The route and record_ticket_rating.
ServerRates ==
  /\ rating # None /\ rating.state = "sent"
  /\ LET t == rating.ticket
     IN IF server[t].status = "resolved"
        THEN /\ HasRoom(t)
             /\ server' = [server EXCEPT ![t] =
                  Recorded(record_ticket_rating(@, rating.stars),
                           StatusEntry(StatusAfterRating(rating.stars), "astrologer"))]
             /\ rating' = [rating EXCEPT !.state = "accepted"]
        ELSE /\ rating' = [rating EXCEPT !.state = "refused"]
             /\ UNCHANGED server
  /\ UNCHANGED <<cache, page, stored, message, idle>>

Unsatisfied(p) == [p EXCEPT !.chat.sorry = TRUE, !.chat.closed = FALSE]

\* onSuccess: an unsatisfied astrologer is asked what is wrong, and the row that the rating has
\* added counts as announced.  Nothing happens on an error.
RatingAnswered ==
  /\ rating # None /\ rating.state # "sent"
  /\ rating' = None
  /\ IF rating.state = "accepted" /\ rating.heard /\ SatisfactionOf(rating.stars) = "unsatisfied"
     THEN Shows(Unsatisfied([page EXCEPT
            !.count[rating.ticket] = IF rating.seen = None THEN @ ELSE rating.seen + 1]))
     ELSE UNCHANGED <<page, stored>>
  /\ UNCHANGED <<server, cache, message, idle>>

RatingLost ==
  /\ rating # None
  /\ rating' = None
  /\ UNCHANGED <<server, cache, page, stored, message, idle>>
-----------------------------------------------------------------------------
(* Talking to the bot.                                                      *)

ComposerOpen == page.mounted /\ ~page.chat.closed

\* One message at a time is on its way.
Send ==
  /\ ComposerOpen /\ message.state = "none"
  /\ message' = [state |-> "sent", settles |-> FALSE, heard |-> TRUE]
  /\ idle' = FALSE
  /\ Shows([page EXCEPT !.chat.talk = TRUE])
  /\ UNCHANGED <<server, cache, rating>>

\* The turn may raise a ticket; that ends the conversation, as a resolution without one does.
ServerAnswers ==
  /\ message.state = "sent"
  /\ \/ /\ \E t \in Tickets : server[t] = None /\ server' = [server EXCEPT ![t] = NewTicket]
        /\ message' = [message EXCEPT !.state = "answered", !.settles = TRUE]
     \/ /\ UNCHANGED server
        /\ \E settled \in BOOLEAN : message' = [message EXCEPT !.state = "answered", !.settles = settled]
  /\ UNCHANGED <<cache, page, stored, rating, idle>>

\* The reply goes into the chat that is shown now.
ReplyArrives ==
  /\ message.state = "answered"
  /\ message' = NoMessage
  /\ IF message.heard
     THEN Shows([page EXCEPT !.chat.talk = TRUE,
                             !.chat.closed = @ \/ message.settles])
     ELSE UNCHANGED <<page, stored>>
  /\ UNCHANGED <<server, cache, rating, idle>>

\* The message stays in the chat with an error, whether or not the server has worked on it.
SendFails ==
  /\ message.state # "none"
  /\ message' = NoMessage
  /\ UNCHANGED <<server, cache, page, stored, rating, idle>>
-----------------------------------------------------------------------------
Next ==
  \/ \E t \in Tickets : \/ StatusMoves(t)
                         \/ OwnerChanges(t)
                         \/ AutoCloses(t)
                         \/ SubmitRating(t)
  \/ Poll
  \/ Mount
  \/ Leave
  \/ StartNewChat
  \/ IdleReset
  \/ TimePasses
  \/ ServerRates
  \/ RatingAnswered
  \/ RatingLost
  \/ Send
  \/ ServerAnswers
  \/ ReplyArrives
  \/ SendFails

Spec == Init /\ [][Next]_vars

\* The list is polled for ever.
FairSpec == Spec /\ WF_vars(Poll)
-----------------------------------------------------------------------------
(* What the page promises.                                                  *)

Rows == Seq(HistoryRows)

ServerTickets ==
  [status : TicketStatus, resolved_at : {None, 0}, satisfaction : {None, "satisfied", "unsatisfied"},
   rating : Ratings \cup {None}, history : Rows]

Transcripts ==
  [asked : [Tickets -> Nat], live : SUBSET Tickets, quoted : SUBSET (Tickets \X (1..MaxRows)),
   told : [Tickets -> Seq(SUBSET (1..MaxRows))], talk : BOOLEAN, sorry : BOOLEAN, closed : BOOLEAN]

ASSUME NoTicketAssumption == None \notin ServerTickets

Lists == [Tickets -> ServerTickets \cup {None}]

Pages ==
  [mounted : BOOLEAN, chat : Transcripts, announced : SUBSET Tickets,
   count : [Tickets -> (0..MaxRows + 1) \cup {None}]]

Stores == [chat : Transcripts, announced : SUBSET Tickets]

RatingsSent ==
  [ticket : Tickets, stars : Ratings, state : {"sent", "accepted", "refused"}, heard : BOOLEAN,
   seen : (0..MaxRows) \cup {None}]

Messages == [state : {"none", "sent", "answered"}, settles : BOOLEAN, heard : BOOLEAN]

\* Every variable has the type its use in the code implies, and the browser's storage holds
\* what the mounted page shows (the save effect, ChatPage.tsx:124-133).
TypeOK ==
  /\ server \in Lists
  /\ cache \in Lists \cup {None}
  /\ page \in Pages
  /\ stored \in Stores \cup {None}
  /\ rating \in RatingsSent \cup {None}
  /\ message \in Messages
  /\ idle \in BOOLEAN
  /\ page.mounted => stored = [chat |-> page.chat, announced |-> page.announced]

\* A rating widget that the page shows belongs to a ticket that is resolved in the list it
\* shows: no "dead widget" is left whose rating the server would refuse (ChatPage.tsx:193-201),
\* not by a reload, not by a reply, not by a second resolution.
NoDeadWidget ==
  page.mounted /\ cache # None =>
    \A t \in page.chat.live : cache[t] # None /\ cache[t].status = "resolved"

\* A transcript asks for the rating of a ticket once, however often the list is polled and
\* the page left and opened again (ChatPage.tsx:90-95 and 124-133).
AskedOnce == \A t \in Tickets : page.chat.asked[t] <= 1

\* As long as no complaint has set the baseline by hand (ChatPage.tsx:249-258), a history row
\* is told once and in its order, across polls and reloads (ChatPage.tsx:96-106).
ToldOnce ==
  ~page.chat.sorry =>
    \A t \in Tickets : \A i, j \in DOMAIN page.chat.told[t] :
      i < j => \A r \in page.chat.told[t][i], q \in page.chat.told[t][j] : r < q

\* A resolution that nobody has answered, and that the page has not fetched yet, is asked
\* about in the end, unless it is overtaken or the page is left first (ChatPage.tsx:165-189).
Unasked(t) ==
  /\ page.mounted
  /\ server[t] # None /\ server[t].status = "resolved" /\ server[t].satisfaction = None
  /\ page.chat.asked[t] = 0

ResolvedIsAsked == \A t \in Tickets : (Unasked(t) /\ server # cache) ~> ~Unasked(t)

\* A note that a reassignment or an escalation leaves "must never surface here"
\* (ChatPage.tsx:210-213): the row whose note the chat quotes is a status change.
InternalNotesStayInternal ==
  \A q \in page.chat.quoted : server[q[1]].history[q[2]].change
=============================================================================
