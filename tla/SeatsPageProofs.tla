---------------------------- MODULE SeatsPageProofs ----------------------------
(***************************************************************************)
(* The seats page for any number of seats, reservations, clients, starts   *)
(* and payments in progress and notices on their way: its types, and that it keeps no   *)
(* reservation but its own.                                                *)
(***************************************************************************)
EXTENDS SeatsPage, TLAPS

PageInv == TypeOK /\ OwnReservations

\* Mine, after a step.
StillMine(r, c, s) == reservation'[r].client = c /\ reservation'[r].seat = s

\* A step in which no reservation changes hands.
OwnersKept ==
  \A r \in ReservationIds, c \in Clients, s \in Seats : Mine(r, c, s) => StillMine(r, c, s)

-------------------------------------------------------------------------------
(* The server.                                                             *)

\* The ledger's steps keep its types, and who made a reservation and for which seat.
LEMMA LedgerKeeps ==
  ASSUME ServerOK, Server!Next \/ UNCHANGED serverVars
  PROVE  /\ ServerOK'
         /\ OwnersKept
<1> USE DomainAssumption, PageAssumption DEF ServerOK, Mine, StillMine, OwnersKept
<1>1. ASSUME NEW r \in ReservationIds, NEW s \in Seats, NEW c \in Clients, Server!Hold(r, s, c)
      PROVE  /\ ServerOK'
             /\ OwnersKept
  BY <1>1 DEF Server!Hold, Server!NoReservation, Server!NewReservation, Reservation, RowStatus,
              ReservationStatus, SeatStatus
<1>2. ASSUME NEW r \in ReservationIds, Server!Confirm(r)
      PROVE  /\ ServerOK'
             /\ OwnersKept
  BY <1>2 DEF Server!Confirm, Reservation, RowStatus, ReservationStatus, SeatStatus
<1>3. ASSUME NEW rs \in SUBSET ReservationIds, Server!Expire(rs)
      PROVE  /\ ServerOK'
             /\ OwnersKept
  BY <1>3 DEF Server!Expire, Server!ReservationStatus, Reservation, RowStatus,
              ReservationStatus, SeatStatus
<1>4. ASSUME NEW rs \in SUBSET ReservationIds, Server!Wipe(rs)
      PROVE  /\ ServerOK'
             /\ OwnersKept
  BY <1>4 DEF Server!Wipe, Server!ReservationStatus, Reservation, RowStatus,
              ReservationStatus, SeatStatus
<1>5. CASE Server!Tick
  BY <1>5 DEF Server!Tick, Reservation
<1>6. CASE UNCHANGED serverVars
  BY <1>6 DEF serverVars
<1> QED
  BY <1>1, <1>2, <1>3, <1>4, <1>5, <1>6 DEF Server!Next

\* A start that succeeds is the page's own.
LEMMA HoldIsMine ==
  ASSUME ServerOK, NEW r \in ReservationIds, NEW s \in Seats, NEW c \in Clients,
         Server!Hold(r, s, c)
  PROVE  StillMine(r, c, s)
BY DEF ServerOK, StillMine, Server!Hold, Server!NewReservation

\* The notice of a commit fits into what is on its way.
LEMMA PublishTyped ==
  ASSUME HubOK, NEW ss \in SUBSET Seats, status' \in [Seats -> SeatStatus], Publish(ss),
         UNCHANGED conn
  PROVE  HubOK'
<1>1. [s \in ss |-> status'[s]] \in [ss -> SeatStatus]
  OBVIOUS
<1>2. [s \in ss |-> status'[s]] \in Notice
  BY <1>1 DEF Notice
<1>3. CASE /\ Len(notices) < MaxNotices
           /\ notices' = Append(notices, [s \in ss |-> status'[s]])
  <2>1. notices' \in Seq(Notice) /\ Len(notices') = Len(notices) + 1
    BY <1>2, <1>3 DEF HubOK
  <2> QED
    BY <2>1, <1>3, PageAssumption DEF HubOK
<1>4. CASE UNCHANGED notices
  BY <1>4 DEF HubOK
<1> QED
  BY <1>3, <1>4 DEF Publish

\* A commit with its notice keeps the types of the server and the hub, and the page's own
\* reservations its own.
LEMMA CommitKeeps ==
  ASSUME ServerOK, HubOK, UNCHANGED conn,
         \/ \E r \in ReservationIds, s \in Seats, c \in Clients : ServerHold(r, s, c)
         \/ \E r \in ReservationIds : ServerConfirm(r)
         \/ \E rs \in SUBSET ReservationIds : ServerExpire(rs) \/ ServerWipe(rs)
         \/ Server!Tick /\ UNCHANGED notices
         \/ UNCHANGED <<serverVars, notices>>
  PROVE  /\ ServerOK' /\ HubOK'
         /\ OwnersKept
<1>1. Server!Next \/ UNCHANGED serverVars
  BY DEF Server!Next, ServerHold, ServerConfirm, ServerExpire, ServerWipe
<1>2. /\ ServerOK'
      /\ OwnersKept
  BY <1>1, LedgerKeeps
<1>3. status' \in [Seats -> SeatStatus]
  BY <1>2 DEF ServerOK
<1>4. HubOK'
  <2>1. CASE UNCHANGED notices
    BY <2>1 DEF HubOK
  <2>2. ASSUME NEW r \in ReservationIds, NEW s \in Seats, NEW c \in Clients,
               ServerHold(r, s, c)
        PROVE  HubOK'
    BY <1>3, <2>2, PublishTyped DEF ServerHold
  <2>3. ASSUME NEW r \in ReservationIds, ServerConfirm(r)
        PROVE  HubOK'
    <3>1. reservation[r].seat \in Seats
      BY <2>3 DEF ServerConfirm, Server!Confirm, ServerOK
    <3> QED
      BY <1>3, <2>3, <3>1, PublishTyped DEF ServerConfirm
  <2>4. ASSUME NEW rs \in SUBSET ReservationIds, ServerExpire(rs)
        PROVE  HubOK'
    <3>1. {reservation[r].seat : r \in rs} \in SUBSET Seats
      BY <2>4 DEF ServerExpire, Server!Expire, Server!ReservationStatus, ServerOK
    <3> QED
      BY <1>3, <2>4, <3>1, PublishTyped DEF ServerExpire
  <2>5. ASSUME NEW rs \in SUBSET ReservationIds, ServerWipe(rs)
        PROVE  HubOK'
    BY <1>3, <2>5, PublishTyped DEF ServerWipe
  <2> QED
    BY <2>1, <2>2, <2>3, <2>4, <2>5
<1> QED
  BY <1>2, <1>4

-------------------------------------------------------------------------------
(* The page.                                                               *)

\* A start in progress is for a seat.
LEMMA StartsOf ==
  ASSUME RequestsOK, NEW q \in Starts, start[q].answer # None
  PROVE  /\ start[q] \in [seat : Seats, answer : ReservationIds \union {"sent", "refused"}]
         /\ start[q].seat \in Seats
         /\ start[q].answer \in ReservationIds \union {"sent", "refused"}
BY DEF RequestsOK, NoStart

\* What OwnReservations says stays true of the requests and entries that a step leaves alone.
LEMMA OwnStays ==
  ASSUME PageInv, OwnersKept,
         UNCHANGED <<clientId, entry, dialog>>,
         \A q \in Starts : start'[q].answer \in ReservationIds =>
           start'[q] = start[q] \/ StillMine(start'[q].answer, clientId, start'[q].seat),
         \A p \in Payments : pay'[p] # NoPayment =>
           pay[p] # NoPayment /\ pay'[p].reservation = pay[p].reservation
  PROVE  OwnReservations'
<1>1. \A s \in Seats : entry[s] # NoEntry =>
        entry[s].reservation \in ReservationIds /\ entry[s].client \in Clients
  BY DEF PageInv, TypeOK, DialogOK, Entry
<1>2. dialog # NoDialog => dialog.reservation \in ReservationIds /\ dialog.seat \in Seats
  BY DEF PageInv, TypeOK, DialogOK
<1>0. clientId \in Clients
  BY DEF PageInv, TypeOK, IdsOK
<1>3. \A s \in Seats : entry'[s] # NoEntry => StillMine(entry'[s].reservation, entry'[s].client, s)
  BY <1>1 DEF PageInv, OwnReservations, OwnersKept
<1>4. \A q \in Starts : start'[q].answer \in ReservationIds =>
        StillMine(start'[q].answer, clientId, start'[q].seat)
  <2>1. \A q \in Starts : start[q].answer \in ReservationIds => start[q].seat \in Seats
    BY PageAssumption, StartsOf DEF PageInv, TypeOK, None
  <2> QED
    BY <1>0, <2>1 DEF PageInv, OwnReservations, OwnersKept
<1>5. dialog' # NoDialog => StillMine(dialog'.reservation, clientId, dialog'.seat)
  BY <1>0, <1>2 DEF PageInv, OwnReservations, OwnersKept
<1>6. \A p \in Payments : pay'[p] # NoPayment =>
        \E s \in Seats : /\ pay'[p].reservation \in ReservationIds
                         /\ StillMine(pay'[p].reservation, clientId, s)
  BY <1>0 DEF PageInv, OwnReservations, OwnersKept
<1> QED
  BY <1>3, <1>4, <1>5, <1>6 DEF OwnReservations, Mine, StillMine

\* The others, the job and the clock.
LEMMA ServerMovesInv == PageInv /\ ServerMoves => PageInv'
<1> SUFFICES ASSUME PageInv, ServerMoves PROVE PageInv'
  OBVIOUS
<1>0. Elsewhere \subseteq Clients
  BY DEF Elsewhere
<1>1. /\ ServerOK' /\ HubOK'
      /\ OwnersKept
  BY <1>0, CommitKeeps DEF PageInv, TypeOK, ServerMoves
<1>2. UNCHANGED <<gridVars, idVars, entry, dialog, paymentBusy, start, pay, get, reset>>
  BY DEF ServerMoves
<1>3. TypeOK'
  BY <1>1, <1>2 DEF PageInv, TypeOK, gridVars, idVars, IdsOK, GridOK, DialogOK, RequestsOK
<1>4. OwnReservations'
  BY <1>1, <1>2, OwnStays DEF idVars
<1> QED
  BY <1>3, <1>4 DEF PageInv

\* The server's end of a start.
LEMMA ServerStartInv == ASSUME PageInv, NEW q \in Starts, ServerStart(q) PROVE PageInv'
<1>0. start[q].seat \in Seats /\ start[q].answer = "sent"
  BY StartsOf DEF PageInv, TypeOK, ServerStart, None
<1>1. /\ ServerOK' /\ HubOK'
      /\ OwnersKept
  BY <1>0, CommitKeeps DEF PageInv, TypeOK, IdsOK, ServerStart
<1>2. UNCHANGED <<gridVars, idVars, entry, dialog, paymentBusy, pay, get, reset, conn>>
  BY DEF ServerStart
<1>3. PICK a \in ReservationIds \union {"refused"} :
        /\ start' = [start EXCEPT ![q].answer = a]
        /\ a \in ReservationIds => StillMine(a, clientId, start[q].seat)
  <2>1. "refused" \notin ReservationIds
    BY PageAssumption
  <2> QED
    BY <1>0, <2>1, HoldIsMine DEF PageInv, TypeOK, IdsOK, ServerStart, ServerHold, AnswerOrError
<1>4. /\ start'[q].seat = start[q].seat /\ start'[q].answer = a
      /\ \A t \in Starts \ {q} : start'[t] = start[t]
      /\ start' \in [Starts ->
                      [seat : Seats, answer : ReservationIds \union {"sent", "refused"}]
                        \union {NoStart}]
  <2>1. start[q] \in [seat : Seats, answer : ReservationIds \union {"sent", "refused"}]
    BY <1>0, StartsOf DEF PageInv, TypeOK, None
  <2>2. [start[q] EXCEPT !.answer = a]
          \in [seat : Seats, answer : ReservationIds \union {"sent", "refused"}]
    BY <2>1
  <2> QED
    BY <1>3, <2>1, <2>2 DEF PageInv, TypeOK, RequestsOK
<1>5. TypeOK'
  BY <1>1, <1>2, <1>4 DEF PageInv, TypeOK, gridVars, idVars, IdsOK, GridOK, DialogOK, RequestsOK
<1>6. OwnReservations'
  BY <1>1, <1>2, <1>3, <1>4, OwnStays DEF idVars
<1> QED
  BY <1>5, <1>6 DEF PageInv

\* The server's end of a payment.
LEMMA ServerPayInv == ASSUME PageInv, NEW p \in Payments, ServerPay(p) PROVE PageInv'
<1>1. pay[p].reservation \in ReservationIds
  BY DEF PageInv, OwnReservations, ServerPay, NoPayment, None
<1>2. /\ ServerOK' /\ HubOK'
      /\ OwnersKept
  BY <1>1, CommitKeeps DEF PageInv, TypeOK, ServerPay
<1>3. UNCHANGED <<gridVars, idVars, entry, dialog, paymentBusy, start, get, reset, conn>>
  BY DEF ServerPay
<1>4. /\ pay[p] # NoPayment
      /\ \/ pay' = [pay EXCEPT ![p].at = "Succeeded"]
         \/ pay' = [pay EXCEPT ![p].at = "Failed"]
  BY DEF ServerPay, NoPayment, None, AnswerOrError
<1>5. TypeOK'
  BY <1>2, <1>3, <1>4 DEF PageInv, TypeOK, gridVars, idVars, IdsOK, GridOK, DialogOK, RequestsOK
<1>6. \A q \in Payments : pay'[q] # NoPayment =>
        pay[q] # NoPayment /\ pay'[q].reservation = pay[q].reservation
  BY <1>4 DEF PageInv, TypeOK, RequestsOK
<1>7. OwnReservations'
  BY <1>2, <1>3, <1>6, OwnStays DEF idVars
<1> QED
  BY <1>5, <1>7 DEF PageInv

\* Fetches and resets: the server's ends, and the handlers of the page.
LEMMA FetchAndResetInv ==
  ASSUME PageInv, GetGoesOn \/ ResetGoesOn \/ ClickReset
  PROVE  PageInv'
<1> USE DEF PageInv
<1>1. CASE ServerGet
  <2>1. TypeOK'
    BY <1>1 DEF ServerGet, TypeOK, IdsOK, ServerOK, GridOK, DialogOK, RequestsOK, HubOK,
                serverVars, gridVars, idVars, hubVars
  <2> QED
    BY <1>1, <2>1 DEF ServerGet, OwnReservations, Mine, serverVars, idVars
<1>2. CASE ServerReset
  <2>1. /\ ServerOK' /\ HubOK'
        /\ OwnersKept
    BY <1>2, CommitKeeps DEF TypeOK, ServerReset
  <2>2. TypeOK'
    BY <1>2, <2>1 DEF ServerReset, TypeOK, IdsOK, GridOK, DialogOK, RequestsOK, gridVars,
                      idVars, AnswerOrError
  <2>3. OwnReservations'
    BY <1>2, <2>1, OwnStays DEF ServerReset, idVars
  <2> QED
    BY <2>2, <2>3
<1>3. CASE GetEnds
  <2>1. IdsOK' /\ ServerOK' /\ DialogOK'
    BY <1>3 DEF GetEnds, TypeOK, IdsOK, ServerOK, DialogOK, serverVars, idVars
  <2>2. HubOK'
    BY <1>3 DEF GetEnds, TypeOK, HubOK
  <2>3. GridOK'
    BY <1>3 DEF GetEnds, TypeOK, GridOK, RequestsOK, MyPending, gridVars
  <2>4. RequestsOK'
    BY <1>3 DEF GetEnds, TypeOK, RequestsOK, NoGet, None, Unknown
  <2>5. \A p \in Payments : pay'[p] # NoPayment =>
          pay[p] # NoPayment /\ pay'[p].reservation = pay[p].reservation
    BY <1>3 DEF GetEnds, TypeOK, RequestsOK, NoPayment, None
  <2>6. OwnReservations'
    BY <1>3, <2>5, OwnStays DEF GetEnds, serverVars, idVars, Mine, StillMine, OwnersKept
  <2> QED
    BY <2>1, <2>2, <2>3, <2>4, <2>6 DEF TypeOK
<1>4. CASE ClickReset
  <2>1. TypeOK'
    BY <1>4 DEF ClickReset, TypeOK, IdsOK, ServerOK, GridOK, DialogOK, RequestsOK, HubOK,
                serverVars, gridVars, idVars, hubVars
  <2> QED
    BY <1>4, <2>1 DEF ClickReset, OwnReservations, Mine, serverVars, idVars
<1>5. CASE ResetEnds
  <2>1. TypeOK'
    BY <1>5 DEF ResetEnds, Clear, Remove, Refresh, NoGet, None, Unknown, TypeOK, IdsOK, ServerOK,
                GridOK, DialogOK, RequestsOK, HubOK, serverVars, gridVars, idVars, hubVars
  <2> QED
    BY <1>5, <2>1 DEF ResetEnds, Clear, Remove, OwnReservations, Mine, serverVars, idVars
<1> QED
  BY <1>1, <1>2, <1>3, <1>4, <1>5 DEF GetGoesOn, ResetGoesOn

\* Clicks on seats, and the end of a start.
LEMMA SeatClicksInv ==
  ASSUME PageInv,
         \/ \E s \in Seats : ClickPending(s)
         \/ \E q \in Starts : StartEnds(q) \/ \E s \in Seats : ClickAvailable(q, s)
  PROVE  PageInv'
<1> USE DEF PageInv
<1>1. ASSUME NEW q \in Starts, NEW s \in Seats, ClickAvailable(q, s) PROVE PageInv'
  <2>1. TypeOK'
    BY <1>1 DEF ClickAvailable, TypeOK, IdsOK, ServerOK, GridOK, DialogOK, RequestsOK, HubOK,
                serverVars, gridVars, idVars, hubVars
  <2>2. \A t \in Starts : start'[t].answer \in ReservationIds => start'[t] = start[t]
    BY <1>1, PageAssumption DEF ClickAvailable, TypeOK, RequestsOK
  <2> QED
    BY <1>1, <2>1, <2>2 DEF ClickAvailable, OwnReservations, Mine, serverVars, idVars
<1>2. ASSUME NEW s \in Seats, ClickPending(s) PROVE PageInv'
  <2>1. entry[s].reservation \in ReservationIds
    BY <1>2 DEF ClickPending, OwnEntry, TypeOK, DialogOK, Entry
  <2>2. TypeOK'
    BY <1>2, <2>1 DEF ClickPending, TypeOK, IdsOK, ServerOK, GridOK, DialogOK, RequestsOK, HubOK,
                      serverVars, gridVars, idVars, hubVars
  <2> QED
    BY <1>2, <2>2 DEF ClickPending, OwnEntry, OwnReservations, Mine, serverVars, idVars
<1>3. ASSUME NEW q \in Starts, StartEnds(q) PROVE PageInv'
  <2>1. /\ start[q].answer = "refused" \/ start[q].answer \in ReservationIds
        /\ start[q].seat \in Seats
    BY <1>3, StartsOf DEF StartEnds, TypeOK, None
  <2>2. UNCHANGED <<reservation, clientId, storedId, pay>>
    BY <1>3 DEF StartEnds, serverVars, idVars
  <2>3. "None" \notin ReservationIds /\ "refused" \notin ReservationIds
    BY PageAssumption
  <2>4. DialogOK'
    BY <1>3, <2>1 DEF StartEnds, Set, TypeOK, IdsOK, DialogOK, Entry
  <2>5. TypeOK'
    BY <1>3, <2>2, <2>4 DEF StartEnds, Refresh, NoGet, None, Unknown, TypeOK, IdsOK, ServerOK,
                            GridOK, RequestsOK, HubOK, serverVars, gridVars, hubVars
  <2>6. \A t \in Starts : start'[t].answer \in ReservationIds => start'[t] = start[t]
    BY <1>3, <2>3 DEF StartEnds, TypeOK, RequestsOK, NoStart, None
  <2>7. \A t \in Seats : entry'[t] # NoEntry => Mine(entry'[t].reservation, entry'[t].client, t)
    BY <1>3, <2>1 DEF StartEnds, Set, TypeOK, DialogOK, OwnReservations
  <2>8. dialog' # NoDialog => Mine(dialog'.reservation, clientId, dialog'.seat)
    BY <1>3, <2>1 DEF StartEnds, OwnReservations
  <2> QED
    BY <2>2, <2>5, <2>6, <2>7, <2>8 DEF OwnReservations, Mine
<1> QED
  BY <1>1, <1>2, <1>3

\* The handlers of the payment dialogue.
LEMMA PaymentInv ==
  ASSUME PageInv, NEW p \in Payments,
         \/ ClickPay(p) \/ PayFailed(p) \/ PaySucceeded(p) \/ PaySucceededUnseen(p)
         \/ CloseTimer(p)
  PROVE  PageInv'
<1> USE DEF PageInv
<1>1. /\ UNCHANGED <<serverVars, gridVars, idVars, start, reset, hubVars>>
      /\ get' = get \/ get' = [NoGet EXCEPT !.at = "sent"]
  BY DEF ClickPay, PayFailed, PaySucceeded, PaySucceededUnseen, CloseTimer, Refresh
<1>2. \A s \in Seats : entry'[s] = entry[s] \/ entry'[s] = NoEntry
  BY DEF ClickPay, PayFailed, PaySucceeded, PaySucceededUnseen, CloseTimer, Remove, TypeOK,
         DialogOK
<1>3. dialog' = dialog \/ dialog' = NoDialog
  BY DEF ClickPay, PayFailed, PaySucceeded, PaySucceededUnseen, CloseTimer, Hide
<1>4. DialogOK'
  BY DEF ClickPay, PayFailed, PaySucceeded, PaySucceededUnseen, CloseTimer, Hide, Remove,
         TypeOK, DialogOK
<1>5. \A q \in Payments : \/ pay'[q] = NoPayment
                          \/ /\ pay[q] # NoPayment
                             /\ pay'[q].reservation = pay[q].reservation
                          \/ /\ dialog # NoDialog
                             /\ pay'[q].reservation = dialog.reservation
  BY DEF ClickPay, PayFailed, PaySucceeded, PaySucceededUnseen, CloseTimer, TypeOK,
         RequestsOK, NoPayment, None
<1>6. pay' \in [Payments ->
                  [at : {None, "sent", "Succeeded", "Failed", "refreshing", "closing"},
                   reservation : ReservationIds \union {None}]]
  BY DEF ClickPay, PayFailed, PaySucceeded, PaySucceededUnseen, CloseTimer, TypeOK,
         RequestsOK, DialogOK, NoPayment, None
<1>7. TypeOK'
  <2>1. RequestsOK'
    BY <1>1, <1>6 DEF TypeOK, RequestsOK, NoGet, None, Unknown
  <2>2. IdsOK' /\ ServerOK' /\ GridOK' /\ HubOK'
    BY <1>1 DEF TypeOK, IdsOK, ServerOK, GridOK, HubOK, serverVars, gridVars, idVars, hubVars
  <2> QED
    BY <1>4, <2>1, <2>2 DEF TypeOK
<1>8. OwnReservations'
  <2>1. reservation' = reservation /\ clientId' = clientId
    BY <1>1 DEF serverVars, idVars
  <2>2. \A s \in Seats : entry'[s] # NoEntry => Mine(entry'[s].reservation, entry'[s].client, s)
    BY <1>2 DEF OwnReservations
  <2>3. dialog' # NoDialog => Mine(dialog'.reservation, clientId, dialog'.seat)
    BY <1>3 DEF OwnReservations
  <2>4. dialog # NoDialog =>
          dialog.reservation \in ReservationIds /\ dialog.seat \in Seats
    BY DEF TypeOK, DialogOK
  <2>5. \A q \in Payments : pay'[q] # NoPayment =>
          \E s \in Seats : /\ pay'[q].reservation \in ReservationIds
                           /\ Mine(pay'[q].reservation, clientId, s)
    BY <1>5, <2>4 DEF OwnReservations
  <2> QED
    BY <1>1, <2>1, <2>2, <2>3, <2>5 DEF OwnReservations, Mine
<1> QED
  BY <1>7, <1>8

\* The dialogue dismissed.
LEMMA DismissInv == PageInv /\ Dismiss => PageInv'
<1> SUFFICES ASSUME PageInv, Dismiss PROVE PageInv'
  OBVIOUS
<1>1. TypeOK'
  BY DEF PageInv, Dismiss, Hide, TypeOK, IdsOK, ServerOK, GridOK, DialogOK, RequestsOK, HubOK,
         serverVars, gridVars, idVars, hubVars
<1>2. OwnReservations'
  BY DEF PageInv, Dismiss, Hide, OwnReservations, Mine, serverVars, idVars
<1> QED
  BY <1>1, <1>2 DEF PageInv

\* Nothing on its way is within any bound.
LEMMA EmptyIsTyped == <<>> \in Seq(Notice) /\ Len(<<>>) <= MaxNotices
<1>1. 0 <= MaxNotices
  BY PageAssumption
<1> QED
  BY <1>1

\* What comes from the hub.
LEMMA HubInv == ASSUME PageInv, Deliver \/ Connect \/ Disconnect PROVE PageInv'
<1> USE DEF PageInv
<1>1. UNCHANGED <<serverVars, idVars, dialog, paymentBusy, start, pay, get, reset>>
  BY DEF Deliver, Connect, Disconnect
<1>2. \A s \in Seats : entry'[s] = entry[s] \/ entry'[s] = NoEntry
  BY DEF Deliver, Connect, Disconnect, Remove, TypeOK, DialogOK
<1>3. HubOK'
  <2>1. CASE Deliver
    <3>1. notices \in Seq(Notice) /\ notices # <<>> /\ Len(notices) <= MaxNotices
      BY <2>1 DEF Deliver, TypeOK, HubOK
    <3>2. Tail(notices) \in Seq(Notice) /\ Len(Tail(notices)) <= MaxNotices
      BY <3>1, PageAssumption
    <3> QED
      BY <2>1, <3>2 DEF Deliver, TypeOK, HubOK
  <2>2. CASE Connect
    BY <2>2 DEF Connect, TypeOK, HubOK
  <2>3. CASE Disconnect
    BY <2>3, EmptyIsTyped DEF Disconnect, HubOK
  <2> QED
    BY <2>1, <2>2, <2>3
<1>4. GridOK'
  <2>1. CASE Deliver
    <3>1. PICK ss \in SUBSET Seats : Head(notices) \in [ss -> SeatStatus]
      <4>1. Head(notices) \in Notice
        BY <2>1 DEF Deliver, TypeOK, HubOK
      <4> QED
        BY <4>1 DEF Notice
    <3> QED
      BY <2>1, <3>1 DEF Deliver, TypeOK, GridOK, MyPending
  <2>2. CASE Connect \/ Disconnect
    BY <2>2 DEF Connect, Disconnect, TypeOK, GridOK, gridVars
  <2> QED
    BY <2>1, <2>2
<1>5. DialogOK'
  BY <1>1 DEF Deliver, Connect, Disconnect, Remove, TypeOK, DialogOK
<1>6. TypeOK'
  BY <1>1, <1>3, <1>4, <1>5 DEF TypeOK, IdsOK, ServerOK, RequestsOK, serverVars, idVars
<1>7. OwnReservations'
  BY <1>1, <1>2 DEF OwnReservations, Mine, serverVars, idVars
<1> QED
  BY <1>6, <1>7

\* A page loaded, here or in another tab.
LEMMA TabsInv == ASSUME PageInv, Reload \/ OtherTab PROVE PageInv'
<1> USE DEF PageInv
<1>1. CASE Reload
  <2>1. IdsOK'
    BY <1>1 DEF Reload, IdsOK
  <2>2. GridOK' /\ DialogOK' /\ HubOK'
    BY <1>1, EmptyIsTyped DEF Reload, TypeOK, GridOK, DialogOK, HubOK, Unknown
  <2>3. RequestsOK'
    BY <1>1 DEF Reload, RequestsOK, NoGet, NoPayment, None, Unknown
  <2>4. ServerOK'
    BY <1>1 DEF Reload, TypeOK, ServerOK, serverVars
  <2>5. OwnReservations'
    BY <1>1, PageAssumption DEF Reload, OwnReservations, Mine, NoStart, None, serverVars
  <2> QED
    BY <2>1, <2>2, <2>3, <2>4, <2>5 DEF TypeOK
<1>2. CASE OtherTab
  <2>1. UNCHANGED <<serverVars, gridVars, clientId, dialog, paymentBusy, start, pay, get, reset,
                    hubVars>>
    BY <1>2 DEF OtherTab
  <2>2. storedId' \in Clients \union {None}
    BY <1>2 DEF OtherTab, TypeOK, IdsOK
  <2>3. \/ \A s \in Seats : entry'[s] = entry[s] \/ entry'[s] = NoEntry
        \/ \E r \in ReservationIds :
             /\ reservation[r].status # "None"
             /\ entry' = [entry EXCEPT ![reservation[r].seat] =
                            [reservation |-> r, client |-> reservation[r].client]]
    BY <1>2 DEF OtherTab, Clear, Remove
  <2>4. entry' \in [Seats -> Entry \union {NoEntry}]
    <3>1. ASSUME NEW r \in ReservationIds, reservation[r].status # "None",
                 entry' = [entry EXCEPT ![reservation[r].seat] =
                             [reservation |-> r, client |-> reservation[r].client]]
          PROVE  entry' \in [Seats -> Entry \union {NoEntry}]
      BY <3>1 DEF TypeOK, DialogOK, ServerOK, Entry
    <3>2. CASE UNCHANGED entry \/ \E ss \in SUBSET Seats : entry' = Remove(ss)
      BY <3>2 DEF Remove, TypeOK, DialogOK
    <3> QED
      BY <1>2, <3>1, <3>2 DEF OtherTab, Clear
  <2>5. TypeOK'
    BY <2>1, <2>2, <2>4 DEF TypeOK, IdsOK, ServerOK, GridOK, DialogOK, RequestsOK, HubOK,
                            serverVars, gridVars, hubVars
  <2>6. \A s \in Seats : entry'[s] # NoEntry => Mine(entry'[s].reservation, entry'[s].client, s)
    <3>1. CASE \A s \in Seats : entry'[s] = entry[s] \/ entry'[s] = NoEntry
      BY <3>1 DEF OwnReservations
    <3>2. ASSUME NEW r \in ReservationIds, reservation[r].status # "None",
                 entry' = [entry EXCEPT ![reservation[r].seat] =
                             [reservation |-> r, client |-> reservation[r].client]],
                 NEW s \in Seats, entry'[s] # NoEntry
          PROVE  Mine(entry'[s].reservation, entry'[s].client, s)
      BY <3>2 DEF OwnReservations, Mine, TypeOK, DialogOK
    <3> QED
      BY <2>3, <3>1, <3>2
  <2>7. OwnReservations'
    BY <2>1, <2>6 DEF OwnReservations, Mine, serverVars
  <2> QED
    BY <2>5, <2>7
<1> QED
  BY <1>1, <1>2

-------------------------------------------------------------------------------
(* The theorems.                                                           *)

\* The page that is being loaded.
LEMMA InitInv == Init => PageInv
<1> SUFFICES ASSUME Init PROVE PageInv
  OBVIOUS
<1>0. IdsOK
  BY DEF Init, IdsOK
<1>1. ServerOK
  BY DomainAssumption DEF Init, Server!Init, ServerOK, Server!NoReservation, Reservation,
                          RowStatus, SeatStatus
<1>2. GridOK /\ DialogOK /\ HubOK
  BY EmptyIsTyped DEF Init, GridOK, DialogOK, HubOK, Unknown
<1>3. RequestsOK
  BY DEF Init, RequestsOK, NoGet, NoPayment, None, Unknown
<1>4. OwnReservations
  BY PageAssumption DEF Init, OwnReservations, NoStart, None
<1> QED
  BY <1>0, <1>1, <1>2, <1>3, <1>4 DEF PageInv, TypeOK

\* Every step keeps the types and the page's own reservations.
LEMMA StepInv == PageInv /\ [Next]_vars => PageInv'
<1> SUFFICES ASSUME PageInv, [Next]_vars PROVE PageInv'
  OBVIOUS
<1>1. CASE UNCHANGED vars
  BY <1>1 DEF vars, PageInv, TypeOK, IdsOK, ServerOK, GridOK, DialogOK, RequestsOK, HubOK,
              OwnReservations, Mine
<1>2. CASE ServerMoves
  BY <1>2, ServerMovesInv
<1>3. CASE Visitor
  BY <1>3, SeatClicksInv, PaymentInv, DismissInv, FetchAndResetInv DEF Visitor
<1>4. ASSUME NEW q \in Starts, StartGoesOn(q) PROVE PageInv'
  BY <1>4, ServerStartInv, SeatClicksInv DEF StartGoesOn
<1>5. ASSUME NEW p \in Payments, PaymentGoesOn(p) PROVE PageInv'
  BY <1>5, ServerPayInv, PaymentInv DEF PaymentGoesOn
<1>6. CASE GetGoesOn \/ ResetGoesOn
  BY <1>6, FetchAndResetInv
<1>7. CASE Deliver \/ Connect \/ Disconnect
  BY <1>7, HubInv
<1>8. CASE Reload \/ OtherTab
  BY <1>8, TabsInv
<1> QED
  BY <1>1, <1>2, <1>3, <1>4, <1>5, <1>6, <1>7, <1>8 DEF Next

\* The types of the page hold in every state (the whole of seats-page.js).
THEOREM PageTypeCorrect == Spec => []TypeOK
<1> QED
  BY InitInv, StepInv, PTL DEF Spec, PageInv

\* However many starts, payments and dialogues overlap, whatever the server does with a
\* reservation meanwhile and whatever other tabs leave in the storage, the page pays only for
\* what was made with its client id, each under the right seat (seats-page.js:70, :192-198,
\* :216-219).
THEOREM KeepsItsOwn == Spec => []OwnReservations
<1> QED
  BY InitInv, StepInv, PTL DEF Spec, PageInv

================================================================================
