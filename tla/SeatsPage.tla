------------------------------- MODULE SeatsPage -------------------------------
(***************************************************************************)
(* The seats page in one tab of a browser: what it shows, its payment      *)
(* dialogue, its requests and its connection to the hub, and the           *)
(* localStorage it shares with the other tabs: the client id and the       *)
(* entries for the reservations it has made.  A step is what the event     *)
(* loop runs at once: from an event or an answer to the next await.        *)
(*                                                                         *)
(* The server is SeatLedger, which ReservationService implements.  The     *)
(* notices that are not lost reach a connected page in the order of the    *)
(* commits; the answers to requests travel apart from them.                *)
(***************************************************************************)
EXTENDS BookingDomain, Sequences

CONSTANTS Starts,           \* the starts the page can have in progress
          Payments,         \* the payments the page can have in progress
          MaxNotices,       \* bound: the notices on their way; 0 for a page that is not connected
          Resets,           \* bound: whether the visitor ever presses the reset button
          Losses,           \* bound: whether the notifier ever fails
          Tabs              \* bound: whether the page is reloaded and the browser has other tabs

ASSUME PageAssumption ==
  /\ MaxNotices \in Nat
  /\ ReservationIds \intersect {"None", "sent", "refused"} = {}
  /\ "None" \notin Clients
  /\ {Resets, Losses, Tabs} \subseteq BOOLEAN

VARIABLES status, reservation,  \* the server's tables
          shown,                \* state.seatsById, and so the grid
          offered,              \* the Pending cards drawn as waiting for payment
          clientId, storedId,   \* state.clientId, and the client id in localStorage
          entry,                \* SeatBookingReservationsStore
          dialog,               \* state.currentReservation
          paymentBusy,          \* state.paymentBusy
          start,                \* the start requests in progress
          pay,                  \* the payments in progress
          get,                  \* the GET of refreshSeats, if isLoading
          reset,                \* the reset request
          conn,                 \* the connection to the hub
          notices               \* the notices on their way

serverVars == <<status, reservation>>

gridVars == <<shown, offered>>

hubVars == <<conn, notices>>

idVars == <<clientId, storedId>>

vars == <<status, reservation, shown, offered, clientId, storedId, entry, dialog, paymentBusy,
          start, pay, get, reset, conn, notices>>

Server == INSTANCE SeatLedger

-------------------------------------------------------------------------------
Unknown == "Unknown"        \* not in state.seatsById

None == "None"              \* no entry, no dialogue, no request

NoEntry == [reservation |-> None, client |-> None]

\* A stored entry, as JSON; its createdAtUtc is never read.
Entry == [reservation : ReservationIds, client : Clients]

NoDialog == [reservation |-> None, seat |-> None]

NoStart == [seat |-> None, answer |-> None]

NoPayment == [at |-> None, reservation |-> None]

NoGet == [at |-> None, seats |-> [s \in Seats |-> Unknown]]

Notice == UNION {[ss -> SeatStatus] : ss \in SUBSET Seats}

ServerOK ==
  /\ status \in [Seats -> SeatStatus]
  /\ reservation \in [ReservationIds -> Reservation]
  /\ \A r \in ReservationIds : reservation[r].status # "None" =>
       reservation[r].seat \in Seats /\ reservation[r].client \in Clients

GridOK ==
  /\ shown \in [Seats -> SeatStatus \union {Unknown}]
  /\ offered \in SUBSET Seats

DialogOK ==
  /\ entry \in [Seats -> Entry \union {NoEntry}]
  /\ dialog \in [reservation : ReservationIds, seat : Seats] \union {NoDialog}
  /\ paymentBusy \in BOOLEAN

RequestsOK ==
  /\ start \in [Starts -> [seat : Seats, answer : ReservationIds \union {"sent", "refused"}]
                            \union {NoStart}]
  /\ pay \in [Payments ->
                [at : {None, "sent", "Succeeded", "Failed", "refreshing", "closing"},
                 reservation : ReservationIds \union {None}]]
  /\ get \in [at : {None, "sent", "answered"}, seats : [Seats -> SeatStatus \union {Unknown}]]
  /\ reset \in {None, "sent", "done", "error", "refreshing"}

HubOK ==
  /\ conn \in {"off", "connecting", "up"}
  /\ notices \in Seq(Notice) /\ Len(notices) <= MaxNotices

IdsOK == clientId \in Clients /\ storedId \in Clients \union {None}

TypeOK == IdsOK /\ ServerOK /\ GridOK /\ DialogOK /\ RequestsOK /\ HubOK

\* The page starts with a fetch, and will connect to the hub afterwards.
Init ==
  /\ Server!Init
  /\ clientId \in Clients /\ storedId = clientId
  /\ shown = [s \in Seats |-> Unknown] /\ offered = {}
  /\ entry = [s \in Seats |-> NoEntry]
  /\ dialog = NoDialog /\ paymentBusy = FALSE
  /\ start = [q \in Starts |-> NoStart]
  /\ pay = [p \in Payments |-> NoPayment]
  /\ get = [NoGet EXCEPT !.at = "sent"]
  /\ reset = None
  /\ conn = "off" /\ notices = <<>>

-------------------------------------------------------------------------------
(* localStorage.                                                           *)

\* generateGuid: an id nobody has used before.
Fresh(c) == c # clientId /\ \A r \in ReservationIds : reservation[r].client # c

\* getOrCreateClientId, in any tab.
IdAtLoad(c) == IF storedId = None THEN Fresh(c) ELSE c = storedId

Set(s, r) == [entry EXCEPT ![s] = [reservation |-> r, client |-> clientId]]

Remove(ss) == [s \in Seats |-> IF s \in ss THEN NoEntry ELSE entry[s]]

Clear == Remove(Seats)

\* An entry alone, whoever has made it.
AnyEntryMutant(s) == entry[s] # NoEntry

\* get, and whether the entry is under the id this page has.
OwnEntry(s) == entry[s] # NoEntry /\ entry[s].client = clientId

-------------------------------------------------------------------------------
(* The server: its commits and their notices.                              *)

\* The seats a commit has written, with their new status, to every page in the group.
\* When the notifier fails, its exception is swallowed.
Publish(ss) ==
  \/ /\ conn = "up"
     /\ Len(notices) < MaxNotices
     /\ notices' = Append(notices, [s \in ss |-> status'[s]])
  \/ (conn = "up" => Losses) /\ UNCHANGED notices

ServerHold(r, s, c) == Server!Hold(r, s, c) /\ Publish({s})

ServerConfirm(r) == Server!Confirm(r) /\ Publish({reservation[r].seat})

ServerExpire(rs) == Server!Expire(rs) /\ Publish({reservation[r].seat : r \in rs})

ServerWipe(rs) == Server!Wipe(rs) /\ Publish(Seats)

\* Requests that are not this page's: its own id may be that of another tab, or that of the
\* page before a reload.
Elsewhere == IF Tabs THEN Clients ELSE Clients \ {clientId}

\* The job, the clock, and the other pages.
ServerMoves ==
  /\ \/ \E r \in ReservationIds, s \in Seats, c \in Elsewhere : ServerHold(r, s, c)
     \/ \E r \in ReservationIds : reservation[r].client \in Elsewhere /\ ServerConfirm(r)
     \/ \E rs \in SUBSET ReservationIds \ {{}} : ServerExpire(rs)
     \/ \E rs \in SUBSET ReservationIds : ServerWipe(rs)
     \/ Server!Tick /\ UNCHANGED notices
  /\ UNCHANGED <<gridVars, idVars, entry, dialog, paymentBusy, start, pay, get, reset, conn>>

\* ajaxJson: any request may fail without an effect, and any answer be lost.
AnswerOrError(answer, error) == {answer, error}

ServerStart(q) ==
  /\ start[q].answer = "sent"
  /\ \/ \E r \in ReservationIds :
          /\ ServerHold(r, start[q].seat, clientId)
          /\ \E a \in AnswerOrError(r, "refused") : start' = [start EXCEPT ![q].answer = a]
     \/ start' = [start EXCEPT ![q].answer = "refused"] /\ UNCHANGED <<serverVars, notices>>
  /\ UNCHANGED <<gridVars, idVars, entry, dialog, paymentBusy, pay, get, reset, conn>>

ServerPay(p) ==
  /\ pay[p].at = "sent"
  /\ LET r == pay[p].reservation
     IN \/ /\ reservation[r].client = clientId /\ ServerConfirm(r)
           /\ \E a \in AnswerOrError("Succeeded", "Failed") : pay' = [pay EXCEPT ![p].at = a]
        \/ /\ reservation[r].client = clientId /\ ServerExpire({r})
           /\ pay' = [pay EXCEPT ![p].at = "Failed"]
        \/ pay' = [pay EXCEPT ![p].at = "Failed"] /\ UNCHANGED <<serverVars, notices>>
  /\ UNCHANGED <<gridVars, idVars, entry, dialog, paymentBusy, start, get, reset, conn>>

ServerGet ==
  /\ get.at = "sent"
  /\ get' = [at |-> "answered", seats |-> status]
  /\ UNCHANGED <<serverVars, idVars, gridVars, entry, dialog, paymentBusy, start, pay, reset, hubVars>>

ServerReset ==
  /\ reset = "sent"
  /\ \/ \E rs \in SUBSET ReservationIds : ServerWipe(rs) /\ reset' \in AnswerOrError("done", "error")
     \/ reset' = "error" /\ UNCHANGED <<serverVars, notices>>
  /\ UNCHANGED <<gridVars, idVars, entry, dialog, paymentBusy, start, pay, get, conn>>

-------------------------------------------------------------------------------
(* refreshSeats.                                                           *)

\* canCurrentClientPayForSeat, at the time the card is drawn.
MyPending(seats) == {s \in DOMAIN seats : seats[s] = "Pending" /\ OwnEntry(s)}

\* It returns at once if a fetch is under way.
Refresh == get' = IF get.at = None THEN [NoGet EXCEPT !.at = "sent"] ELSE get

\* renderSeats removes entries as upsertSeatCard does, by an answer that may be old.
ForgetfulGetEndsMutant ==
  /\ get.at = "answered" /\ shown' = get.seats /\ offered' = MyPending(get.seats)
  /\ entry' = Remove({s \in Seats : get.seats[s] \in {"Available", "Reserved"}})
  /\ get' = NoGet
  /\ conn' = IF conn = "off" THEN "connecting" ELSE conn
  /\ UNCHANGED <<serverVars, idVars, pay, paymentBusy, reset, dialog, start, notices>>

\* The answer or an error.  init goes on to connect; a payment and a reset that have waited
\* for this fetch end, the payment with a timer for the dialogue.
GetEnds ==
  /\ \/ get.at = "answered" /\ shown' = get.seats /\ offered' = MyPending(get.seats)
     \/ get.at # None /\ UNCHANGED gridVars
  /\ get' = NoGet
  /\ conn' = IF conn = "off" THEN "connecting" ELSE conn
  /\ LET waiting == {p \in Payments : pay[p].at = "refreshing"}
     IN /\ pay' = [p \in Payments |-> IF p \in waiting THEN [pay[p] EXCEPT !.at = "closing"]
                                                       ELSE pay[p]]
        /\ paymentBusy' = (paymentBusy /\ waiting = {})
  /\ reset' = IF reset = "refreshing" THEN None ELSE reset
  /\ UNCHANGED <<serverVars, idVars, entry, dialog, start, notices>>

-------------------------------------------------------------------------------
(* onSeatClicked.  An open dialogue covers the grid and the reset button.  *)

\* Nothing stops a second click on a seat whose start is under way.
ClickAvailable(q, s) ==
  /\ dialog = NoDialog
  /\ shown[s] = "Available"
  /\ start[q] = NoStart
  /\ start' = [start EXCEPT ![q] = [seat |-> s, answer |-> "sent"]]
  /\ UNCHANGED <<serverVars, idVars, gridVars, entry, dialog, paymentBusy, pay, get, reset, hubVars>>

ClickPending(s) ==
  /\ dialog = NoDialog
  /\ shown[s] = "Pending" /\ s \in offered
  /\ OwnEntry(s)
  /\ dialog' = [reservation |-> entry[s].reservation, seat |-> s]
  /\ UNCHANGED <<serverVars, idVars, gridVars, entry, paymentBusy, start, pay, get, reset, hubVars>>

\* Without looking at whether the answer is an error.
UncheckedStartEndsMutant(q) ==
  /\ start[q].answer \notin {None, "sent"}
  /\ start' = [start EXCEPT ![q] = NoStart]
  /\ entry' = Set(start[q].seat, start[q].answer)
  /\ dialog' = [reservation |-> start[q].answer, seat |-> start[q].seat]
  /\ Refresh
  /\ UNCHANGED <<serverVars, idVars, gridVars, paymentBusy, pay, reset, hubVars>>

StartEnds(q) ==
  /\ start[q].answer \notin {None, "sent"}
  /\ start' = [start EXCEPT ![q] = NoStart]
  /\ IF start[q].answer = "refused"
       THEN UNCHANGED <<entry, dialog>>
       ELSE /\ entry' = Set(start[q].seat, start[q].answer)
            /\ dialog' = [reservation |-> start[q].answer, seat |-> start[q].seat]
  /\ Refresh
  /\ UNCHANGED <<serverVars, idVars, gridVars, paymentBusy, pay, reset, hubVars>>

-------------------------------------------------------------------------------
(* onPayClicked and the payment dialogue.                                  *)

ClickPay(p) ==
  /\ dialog # NoDialog
  /\ ~paymentBusy
  /\ pay[p] = NoPayment
  /\ paymentBusy' = TRUE
  /\ pay' = [pay EXCEPT ![p] = [at |-> "sent", reservation |-> dialog.reservation]]
  /\ UNCHANGED <<serverVars, idVars, gridVars, entry, dialog, start, get, reset, hubVars>>

\* Without the finally.
NoFinallyPayFailedMutant(p) ==
  /\ pay[p].at = "Failed"
  /\ pay' = [pay EXCEPT ![p] = NoPayment]
  /\ UNCHANGED <<serverVars, idVars, gridVars, entry, dialog, paymentBusy, start, get, reset, hubVars>>

\* Declined, or refused by the server.
PayFailed(p) ==
  /\ pay[p].at = "Failed"
  /\ pay' = [pay EXCEPT ![p] = NoPayment]
  /\ paymentBusy' = FALSE
  /\ UNCHANGED <<serverVars, idVars, gridVars, entry, dialog, start, get, reset, hubVars>>

\* The entry that goes is that of the dialogue open now.
PaySucceeded(p) ==
  /\ pay[p].at = "Succeeded"
  /\ dialog # NoDialog
  /\ entry' = Remove({dialog.seat})
  /\ pay' = [pay EXCEPT ![p].at = IF get.at = None THEN "refreshing" ELSE "closing"]
  /\ paymentBusy' = (paymentBusy /\ get.at = None)
  /\ Refresh
  /\ UNCHANGED <<serverVars, idVars, gridVars, dialog, start, reset, hubVars>>

\* Without a dialogue reading its seatId throws, and the success is reported as an error.
PaySucceededUnseen(p) ==
  /\ pay[p].at = "Succeeded"
  /\ dialog = NoDialog
  /\ pay' = [pay EXCEPT ![p] = NoPayment]
  /\ paymentBusy' = FALSE
  /\ UNCHANGED <<serverVars, idVars, gridVars, entry, dialog, start, get, reset, hubVars>>

\* hidden.bs.modal, if there is a dialogue to be hidden.
Hide ==
  /\ dialog' = NoDialog
  /\ paymentBusy' = (paymentBusy /\ dialog = NoDialog)

\* The timer set after a successful payment.
CloseTimer(p) ==
  /\ pay[p].at = "closing"
  /\ pay' = [pay EXCEPT ![p] = NoPayment]
  /\ Hide
  /\ UNCHANGED <<serverVars, idVars, gridVars, entry, start, get, reset, hubVars>>

\* A dismissed dialogue gives its reservation up.
ForgetfulDismissMutant ==
  /\ dialog # NoDialog
  /\ Hide
  /\ entry' = Remove({dialog.seat})
  /\ UNCHANGED <<serverVars, idVars, gridVars, start, pay, get, reset, hubVars>>

\* Escape and a click beside the dialogue close it, during a payment too.
Dismiss ==
  /\ dialog # NoDialog
  /\ Hide
  /\ UNCHANGED <<serverVars, idVars, gridVars, entry, start, pay, get, reset, hubVars>>

-------------------------------------------------------------------------------
(* onResetReservationsClicked: the button is disabled until it is through. *)

ClickReset ==
  /\ Resets
  /\ dialog = NoDialog
  /\ reset = None
  /\ reset' = "sent"
  /\ UNCHANGED <<serverVars, idVars, gridVars, entry, dialog, paymentBusy, start, pay, get, hubVars>>

ResetEnds ==
  /\ \/ /\ reset = "done"
        /\ entry' = Clear
        /\ reset' = IF get.at = None THEN "refreshing" ELSE None
        /\ Refresh
     \/ reset = "error" /\ reset' = None /\ UNCHANGED <<entry, get>>
  /\ UNCHANGED <<serverVars, idVars, gridVars, dialog, paymentBusy, start, pay, hubVars>>

-------------------------------------------------------------------------------
(* The connection to the hub.                                              *)

\* Notices are ignored while a fetch is under way.
BusyDeliverMutant ==
  /\ notices # <<>>
  /\ LET n == IF get.at = None THEN Head(notices) ELSE <<>>
     IN /\ shown' = [s \in Seats |-> IF s \in DOMAIN n THEN n[s] ELSE shown[s]]
        /\ offered' = (offered \ DOMAIN n) \union MyPending(n)
        /\ entry' = Remove({s \in DOMAIN n : n[s] \in {"Available", "Reserved"}})
  /\ notices' = Tail(notices)
  /\ UNCHANGED <<serverVars, idVars, dialog, paymentBusy, start, pay, get, reset, conn>>

\* SeatUpdated and SeatsUpdated: upsertSeatCard for every seat of the notice.
Deliver ==
  /\ notices # <<>>
  /\ LET n == Head(notices)
     IN /\ shown' = [s \in Seats |-> IF s \in DOMAIN n THEN n[s] ELSE shown[s]]
        /\ offered' = (offered \ DOMAIN n) \union MyPending(n)
        /\ entry' = Remove({s \in DOMAIN n : n[s] \in {"Available", "Reserved"}})
  /\ notices' = Tail(notices)
  /\ UNCHANGED <<serverVars, idVars, dialog, paymentBusy, start, pay, get, reset, conn>>

\* The first connection is tried until it succeeds, a reconnect four times; neither fetches
\* the seats.
Connect ==
  /\ MaxNotices > 0
  /\ conn = "connecting"
  /\ conn' = "up"
  /\ UNCHANGED <<serverVars, idVars, gridVars, entry, dialog, paymentBusy, start, pay, get, reset,
                 notices>>

\* A client that gives up is one that stays as it is from here on.
Disconnect ==
  /\ conn = "up"
  /\ conn' = "connecting"
  /\ notices' = <<>>
  /\ UNCHANGED <<serverVars, idVars, gridVars, entry, dialog, paymentBusy, start, pay, get, reset>>

-------------------------------------------------------------------------------
(* The rest of the browser.                                                *)

\* Requests under way go on without the page, which has forgotten them.
Reload ==
  /\ Tabs
  /\ \E c \in Clients : IdAtLoad(c) /\ clientId' = c /\ storedId' = c
  /\ shown' = [s \in Seats |-> Unknown] /\ offered' = {}
  /\ dialog' = NoDialog /\ paymentBusy' = FALSE
  /\ start' = [q \in Starts |-> NoStart]
  /\ pay' = [p \in Payments |-> NoPayment]
  /\ get' = [NoGet EXCEPT !.at = "sent"]
  /\ reset' = None
  /\ conn' = "off" /\ notices' = <<>>
  /\ UNCHANGED <<serverVars, entry>>

\* The other tabs enter what they have reserved, perhaps under an id they have kept since the
\* site's data were cleared; they remove entries, they are loaded, and the data may be cleared.
OtherTab ==
  /\ Tabs
  /\ \/ \E r \in ReservationIds :
          /\ reservation[r].status # "None"
          /\ entry' = [entry EXCEPT ![reservation[r].seat] =
                         [reservation |-> r, client |-> reservation[r].client]]
          /\ UNCHANGED storedId
     \/ \E ss \in SUBSET Seats \ {{}} : entry' = Remove(ss) /\ UNCHANGED storedId
     \/ entry' = Clear /\ storedId' = None
     \/ \E c \in Clients : IdAtLoad(c) /\ storedId' = c /\ UNCHANGED entry
  /\ UNCHANGED <<serverVars, gridVars, clientId, dialog, paymentBusy, start, pay, get, reset,
                 hubVars>>

-------------------------------------------------------------------------------
\* What the visitor may do.
Visitor ==
  \/ \E s \in Seats : ClickPending(s) \/ \E q \in Starts : ClickAvailable(q, s)
  \/ \E p \in Payments : ClickPay(p)
  \/ Dismiss
  \/ ClickReset

\* How the handlers of the page go on.
PaymentGoesOn(p) ==
  ServerPay(p) \/ PayFailed(p) \/ PaySucceeded(p) \/ PaySucceededUnseen(p) \/ CloseTimer(p)

StartGoesOn(q) == ServerStart(q) \/ StartEnds(q)

GetGoesOn == ServerGet \/ GetEnds

ResetGoesOn == ServerReset \/ ResetEnds

Next ==
  \/ ServerMoves
  \/ Visitor
  \/ \E q \in Starts : StartGoesOn(q)
  \/ \E p \in Payments : PaymentGoesOn(p)
  \/ GetGoesOn
  \/ ResetGoesOn
  \/ Deliver
  \/ Connect
  \/ Disconnect
  \/ Reload
  \/ OtherTab

Spec == Init /\ [][Next]_vars

(***************************************************************************)
(* The requests of a payment and of a fetch are answered, and the event    *)
(* loop turns.                                                             *)
(***************************************************************************)
Fairness ==
  /\ \A p \in Payments : WF_vars(PaymentGoesOn(p))
  /\ WF_vars(GetGoesOn)

FairSpec == Spec /\ Fairness

-------------------------------------------------------------------------------
(* Properties.                                                             *)

\* Those of the notices ns that are about a seat.
About(ns, s) == {i \in 1..Len(ns) : s \in DOMAIN ns[i]}

\* Seats that are what they are now, once the notices have been delivered.
InStep(seats, now, ns) ==
  \A s \in Seats :
    IF About(ns, s) = {} THEN seats[s] = now[s]
    ELSE \E i \in About(ns, s) : (\A j \in About(ns, s) : j <= i) /\ ns[i][s] = now[s]

PageInStep ==
  /\ InStep(shown, status, notices)
  /\ get.at = "answered" => InStep(get.seats, status, notices)

\* A page that is in step with the server stays so as long as it is connected, unless a
\* notice is lost or overtakes the answer to a fetch (seats-page.js:104, :120, :294-302).
StaysInStep ==
  [][conn = "up" /\ conn' = "up" /\ PageInStep =>
       \/ PageInStep'
       \/ status' # status /\ notices' = notices
       \/ get.at = "answered" /\ Len(notices') < Len(notices)]_vars

Mine(r, c, s) == reservation[r].client = c /\ reservation[r].seat = s

\* A page pays only for reservations made with the id it has now, each under its own seat:
\* whichever dialogue was open when the answer to a start came, whatever the server has done
\* with the reservation meanwhile, and whatever the other tabs, a reload or a new client id
\* have left in the storage (seats-page.js:70, :181, :192-198, :216-219).
OwnReservations ==
  /\ \A s \in Seats : entry[s] # NoEntry => Mine(entry[s].reservation, entry[s].client, s)
  /\ \A q \in Starts : start[q].answer \in ReservationIds =>
       Mine(start[q].answer, clientId, start[q].seat)
  /\ dialog # NoDialog => Mine(dialog.reservation, clientId, dialog.seat)
  /\ \A p \in Payments : pay[p] # NoPayment =>
       \E s \in Seats : /\ pay[p].reservation \in ReservationIds
                        /\ Mine(pay[p].reservation, clientId, s)

\* A reservation of this client that still holds its seat, as far as the tables go.
Stands(r) ==
  /\ reservation[r].status = "Pending" /\ reservation[r].client = clientId
  /\ status[reservation[r].seat] = "Pending"

\* What can take the entry of r from the page: a notice about its seat while the page is
\* behind or another one is to follow; the success of another payment, while the dialogue of
\* this seat is open; the answer to another start on the seat; the page's own reset; another tab.
LateNotice(s) ==
  /\ notices # <<>> /\ notices' = Tail(notices) /\ conn' = conn
  /\ s \in DOMAIN Head(notices)
  /\ ~PageInStep \/ About(notices', s) # {}

ForeignSuccess(r, s) ==
  \E p \in Payments : /\ pay[p].at = "Succeeded" /\ pay'[p].at # "Succeeded"
                      /\ pay[p].reservation # r /\ dialog.seat = s

AnotherStart(r, s) ==
  \E q \in Starts : /\ start[q].seat = s /\ start[q].answer \in ReservationIds \ {r}
                    /\ start'[q] = NoStart /\ entry' = Set(s, start[q].answer)

OwnReset == reset = "done" /\ reset' # "done" /\ entry' = Clear

\* As long as a hold stands, the page forgets how to pay for it in these ways only: not when a
\* payment for it fails, a start is refused, the dialogue is dismissed, a fetch ends, the page
\* is reloaded or a notice says what is true
\* (seats-page.js:107-109, :135-149, :195, :225, :253-255, :284-288).
EntryIsKept ==
  [][\A s \in Seats, r \in ReservationIds :
       entry[s].reservation = r /\ reservation[r].seat = s /\ Stands(r)' =>
         \/ entry'[s] = entry[s]
         \/ LateNotice(s)
         \/ ForeignSuccess(r, s)
         \/ AnotherStart(r, s)
         \/ OwnReset
         \/ OtherTab]_vars

\* Nobody waits in vain: while the buttons of the dialogue are disabled there is a payment
\* that will enable them, whatever dialogues were dismissed and opened meanwhile, and whoever
\* waits for a fetch - init to connect, a payment or a reset to end - has one under way that
\* will end (seats-page.js:136-147, :209-236, :259, :311).
NobodyWaitsInVain ==
  /\ paymentBusy =>
       \E p \in Payments : pay[p].at \in {"sent", "Succeeded", "Failed", "refreshing"}
  /\ conn = "off" \/ reset = "refreshing" \/ (\E p \in Payments : pay[p].at = "refreshing") =>
       get.at # None

\* Two payments in progress, dialogues dismissed and opened while they are: the buttons of
\* the dialogue do not stay disabled for ever (seats-page.js:168-173, :236, :287).
BusyEnds == paymentBusy ~> ~paymentBusy

-------------------------------------------------------------------------------
(* What the README promises.                                               *)

Quiet ==
  /\ conn = "up" /\ notices = <<>>
  /\ get.at = None /\ reset = None
  /\ \A q \in Starts : start[q] = NoStart
  /\ \A p \in Payments : pay[p] = NoPayment

\* README.md:21: a page that is connected, and has nothing more to come, shows the seats it
\* has fetched as they are.
PageIsCurrent == Quiet => \A s \in Seats : shown[s] \in {Unknown, status[s]}

\* The hold of r is in force, and nobody else has a claim on its seat.
InForce(r) ==
  /\ reservation[r].status = "Pending" /\ reservation[r].client = clientId
  /\ ~TimedOut(reservation[r])
  /\ status[reservation[r].seat] = "Pending"
  /\ \A q \in ReservationIds \ {r} :
       reservation[q].seat = reservation[r].seat =>
         reservation[q].status \notin {"Pending", "Completed"}

\* The page has what it takes to pay for r.
Knows(r) == entry[reservation[r].seat].reservation = r \/ dialog.reservation = r

\* README.md:15: until its time has run out, a hold the page knows of can be paid.
HoldIsPayable ==
  [][\A r \in ReservationIds : InForce(r) /\ Knows(r) /\ InForce(r)' => Knows(r)']_vars

================================================================================
