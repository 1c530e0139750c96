-------------------------- MODULE SeatsPageStepProofs --------------------------
(***************************************************************************)
(* What a connected page shows, with any number of seats, other visitors   *)
(* and notices on their way: it falls behind the server in the two ways    *)
(* StaysInStep names, and in no other.  And what the page waits for, with  *)
(* any number of payments, is under way.                                   *)
(***************************************************************************)
EXTENDS SeatsPageProofs

\* The notice of a commit joins those on their way.
LEMMA AppendInStep ==
  ASSUME NEW seats, NEW now, NEW later, NEW ns \in Seq(Notice), NEW ss \in SUBSET Seats,
         \A s \in Seats \ ss : later[s] = now[s],
         InStep(seats, now, ns)
  PROVE  InStep(seats, later, Append(ns, [s \in ss |-> later[s]]))
<1> DEFINE more == Append(ns, [s \in ss |-> later[s]])
<1>1. /\ Len(ns) \in Nat /\ Len(more) = Len(ns) + 1
      /\ \A i \in 1..Len(ns) : more[i] = ns[i]
      /\ more[Len(ns) + 1] = [s \in ss |-> later[s]]
  OBVIOUS
<1> HIDE DEF more
<1> SUFFICES ASSUME NEW s \in Seats
             PROVE  IF About(more, s) = {} THEN seats[s] = later[s]
                    ELSE \E i \in About(more, s) :
                           (\A j \in About(more, s) : j <= i) /\ more[i][s] = later[s]
  BY DEF InStep, more
<1>2. CASE s \in ss
  <2>1. Len(ns) + 1 \in About(more, s)
    BY <1>1, <1>2 DEF About
  <2>2. \A j \in About(more, s) : j <= Len(ns) + 1
    BY <1>1 DEF About
  <2>3. more[Len(ns) + 1][s] = later[s]
    BY <1>1, <1>2
  <2> QED
    BY <2>1, <2>2, <2>3
<1>3. CASE s \notin ss
  <2>1. About(more, s) = About(ns, s)
    BY <1>1, <1>3 DEF About
  <2>2. \A i \in About(ns, s) : more[i] = ns[i]
    BY <1>1 DEF About
  <2>3. later[s] = now[s]
    BY <1>3
  <2> QED
    BY <2>1, <2>2, <2>3 DEF InStep
<1> QED
  BY <1>2, <1>3

\* The first of the notices is delivered.
LEMMA TailInStep ==
  ASSUME NEW seats, NEW now, NEW ns \in Seq(Notice), ns # <<>>, InStep(seats, now, ns)
  PROVE  InStep([s \in Seats |-> IF s \in DOMAIN Head(ns) THEN Head(ns)[s] ELSE seats[s]],
                now, Tail(ns))
<1> DEFINE after == [s \in Seats |-> IF s \in DOMAIN Head(ns) THEN Head(ns)[s] ELSE seats[s]]
           rest == Tail(ns)
<1>1. /\ Len(ns) \in Nat \ {0} /\ Len(rest) = Len(ns) - 1
      /\ \A i \in 1..Len(rest) : rest[i] = ns[i + 1]
      /\ Head(ns) = ns[1]
  OBVIOUS
<1> SUFFICES ASSUME NEW s \in Seats
             PROVE  IF About(rest, s) = {} THEN after[s] = now[s]
                    ELSE \E i \in About(rest, s) :
                           (\A j \in About(rest, s) : j <= i) /\ rest[i][s] = now[s]
  BY DEF InStep
<1>2. after[s] = IF s \in DOMAIN ns[1] THEN ns[1][s] ELSE seats[s]
  BY <1>1
<1> HIDE DEF after, rest
<1>3. \A i \in Nat : i \in About(rest, s) <=> i >= 1 /\ i + 1 \in About(ns, s)
  BY <1>1 DEF About
<1>4. 1 \in About(ns, s) <=> s \in DOMAIN ns[1]
  BY <1>1 DEF About
<1>5. About(ns, s) \subseteq Nat \ {0} /\ About(rest, s) \subseteq Nat \ {0}
  BY <1>1 DEF About
<1>6. CASE About(ns, s) = {}
  <2>1. About(rest, s) = {}
    BY <1>3, <1>5, <1>6
  <2> QED
    BY <1>2, <1>4, <1>6, <2>1 DEF InStep
<1>7. CASE About(ns, s) # {}
  <2>1. PICK i \in About(ns, s) : (\A j \in About(ns, s) : j <= i) /\ ns[i][s] = now[s]
    BY <1>7 DEF InStep
  <2>2. CASE i = 1
    <3>1. About(rest, s) = {}
      BY <1>3, <1>5, <2>1, <2>2
    <3> QED
      BY <1>2, <1>4, <2>1, <2>2, <3>1
  <2>3. CASE i # 1
    <3>1. i - 1 \in About(rest, s) /\ \A j \in About(rest, s) : j <= i - 1
      BY <1>3, <1>5, <2>1, <2>3
    <3>2. rest[i - 1] = ns[i]
      BY <1>1, <1>5, <2>1, <2>3, <3>1 DEF About
    <3> QED
      BY <2>1, <3>1, <3>2
  <2> QED
    BY <2>2, <2>3
<1> QED
  BY <1>6, <1>7

\* A fetch answered now is in step if anything is.
LEMMA FetchInStep ==
  ASSUME NEW seats, NEW now, NEW ns, InStep(seats, now, ns)
  PROVE  InStep(now, now, ns)
BY DEF InStep

-------------------------------------------------------------------------------
\* The steps of the server that touch its tables.
Commits ==
  \/ \E r \in ReservationIds, s \in Seats, c \in Clients : ServerHold(r, s, c)
  \/ \E r \in ReservationIds : ServerConfirm(r)
  \/ \E rs \in SUBSET ReservationIds : ServerExpire(rs) \/ ServerWipe(rs)

\* A commit changes no seat but those its notice is about.
LEMMA CommitPublishes ==
  ASSUME ServerOK, Commits
  PROVE  \E ss \in SUBSET Seats : Publish(ss) /\ \A s \in Seats \ ss : status'[s] = status[s]
<1>1. ASSUME NEW r \in ReservationIds, NEW s \in Seats, NEW c \in Clients, ServerHold(r, s, c)
      PROVE  Publish({s}) /\ \A t \in Seats \ {s} : status'[t] = status[t]
  BY <1>1 DEF ServerHold, Server!Hold, ServerOK
<1>2. ASSUME NEW r \in ReservationIds, ServerConfirm(r)
      PROVE  /\ Publish({reservation[r].seat}) /\ reservation[r].seat \in Seats
             /\ \A t \in Seats \ {reservation[r].seat} : status'[t] = status[t]
  BY <1>2 DEF ServerConfirm, Server!Confirm, ServerOK
<1>3. ASSUME NEW rs \in SUBSET ReservationIds, ServerExpire(rs)
      PROVE  \E ss \in SUBSET Seats : Publish(ss) /\ \A t \in Seats \ ss : status'[t] = status[t]
  <2> DEFINE ss == {reservation[r].seat : r \in rs}
  <2>1. ss \in SUBSET Seats
    BY <1>3 DEF ServerExpire, Server!Expire, Server!ReservationStatus, ServerOK
  <2>2. Publish(ss) /\ \A t \in Seats \ ss : status'[t] = status[t]
    BY <1>3 DEF ServerExpire, Server!Expire
  <2> QED
    BY <2>1, <2>2
<1>4. ASSUME NEW rs \in SUBSET ReservationIds, ServerWipe(rs)
      PROVE  Publish(Seats) /\ \A t \in Seats \ Seats : status'[t] = status[t]
  BY <1>4 DEF ServerWipe
<1> QED
  BY <1>1, <1>2, <1>3, <1>4 DEF Commits

\* The two ways of falling behind, or none.
InStepOrExcused ==
  \/ PageInStep'
  \/ status' # status /\ notices' = notices
  \/ get.at = "answered" /\ Len(notices') < Len(notices)

\* A commit, whoever has asked for it.
LEMMA CommitStays ==
  ASSUME TypeOK, PageInStep, Commits, UNCHANGED <<shown, get>>
  PROVE  InStepOrExcused
<1>1. PICK ss \in SUBSET Seats : Publish(ss) /\ \A s \in Seats \ ss : status'[s] = status[s]
  BY CommitPublishes DEF TypeOK
<1>2. CASE notices' = Append(notices, [s \in ss |-> status'[s]])
  <2>1. notices \in Seq(Notice)
    BY DEF TypeOK, HubOK
  <2>2. \A seats : InStep(seats, status, notices) => InStep(seats, status', notices')
    BY <1>1, <1>2, <2>1, AppendInStep
  <2> QED
    BY <2>2 DEF InStepOrExcused, PageInStep
<1>3. CASE UNCHANGED notices
  BY <1>3 DEF InStepOrExcused, PageInStep
<1> QED
  BY <1>1, <1>2, <1>3 DEF Publish

\* A step that changes nothing the property looks at, but perhaps begins or ends a fetch.
LEMMA RestStays ==
  ASSUME PageInStep, UNCHANGED <<status, shown, notices>>, get' = get \/ get'.at # "answered"
  PROVE  InStepOrExcused
BY DEF InStepOrExcused, PageInStep

LEMMA StepStays ==
  ASSUME PageInv, PageInStep, [Next]_vars, conn = "up", conn' = "up"
  PROVE  InStepOrExcused
<1> TypeOK
  BY DEF PageInv
<1>1. CASE UNCHANGED vars
  BY <1>1, RestStays DEF vars
<1>2. CASE ServerMoves
  <2>1. Commits \/ UNCHANGED <<status, notices>>
    BY <1>2 DEF ServerMoves, Commits, Elsewhere, Server!Tick
  <2>2. UNCHANGED <<shown, get>>
    BY <1>2 DEF ServerMoves, gridVars
  <2> QED
    BY <2>1, <2>2, CommitStays, RestStays
<1>3. CASE Visitor
  <2>1. UNCHANGED <<status, shown, notices, get>>
    BY <1>3 DEF Visitor, ClickAvailable, ClickPending, ClickPay, Dismiss, ClickReset, serverVars,
                gridVars, hubVars
  <2> QED
    BY <2>1, RestStays
<1>4. ASSUME NEW q \in Starts, StartGoesOn(q) PROVE InStepOrExcused
  <2>1. CASE ServerStart(q)
    <3>0. start[q].seat \in Seats
      BY <2>1, StartsOf DEF ServerStart, TypeOK, None
    <3>1. Commits \/ UNCHANGED <<status, notices>>
      BY <2>1, <3>0 DEF ServerStart, Commits, TypeOK, IdsOK, serverVars
    <3> QED
      BY <2>1, <3>1, CommitStays, RestStays DEF ServerStart, gridVars
  <2>2. CASE StartEnds(q)
    <3>1. UNCHANGED <<status, shown, notices>> /\ (get' = get \/ get'.at # "answered")
      BY <2>2 DEF StartEnds, Refresh, NoGet, serverVars, gridVars, hubVars
    <3> QED
      BY <3>1, RestStays
  <2> QED
    BY <1>4, <2>1, <2>2 DEF StartGoesOn
<1>5. ASSUME NEW p \in Payments, PaymentGoesOn(p) PROVE InStepOrExcused
  <2>1. CASE ServerPay(p)
    <3>1. pay[p].reservation \in ReservationIds
      BY <1>5, <2>1 DEF PageInv, OwnReservations, ServerPay, NoPayment, None
    <3>2. Commits \/ UNCHANGED <<status, notices>>
      BY <2>1, <3>1 DEF ServerPay, Commits, serverVars
    <3> QED
      BY <2>1, <3>2, CommitStays, RestStays DEF ServerPay, gridVars
  <2>2. CASE PayFailed(p) \/ PaySucceeded(p) \/ PaySucceededUnseen(p) \/ CloseTimer(p)
    <3>1. UNCHANGED <<status, shown, notices>> /\ (get' = get \/ get'.at # "answered")
      BY <2>2 DEF PayFailed, PaySucceeded, PaySucceededUnseen, CloseTimer, Refresh, NoGet,
                  serverVars, gridVars, hubVars
    <3> QED
      BY <3>1, RestStays
  <2> QED
    BY <1>5, <2>1, <2>2 DEF PaymentGoesOn
<1>6. CASE ServerGet
  <2>1. get' = [at |-> "answered", seats |-> status] /\ UNCHANGED <<status, shown, notices>>
    BY <1>6 DEF ServerGet, serverVars, gridVars, hubVars
  <2>2. InStep(status, status, notices)
    BY FetchInStep DEF PageInStep
  <2> QED
    BY <2>1, <2>2 DEF InStepOrExcused, PageInStep
<1>7. CASE GetEnds
  <2>1. UNCHANGED <<status, notices>> /\ get'.at # "answered"
    BY <1>7 DEF GetEnds, NoGet, None, serverVars
  <2>2. shown' = shown \/ (get.at = "answered" /\ shown' = get.seats)
    BY <1>7 DEF GetEnds, gridVars
  <2> QED
    BY <2>1, <2>2 DEF InStepOrExcused, PageInStep
<1>8. CASE ServerReset
  <2>1. Commits \/ UNCHANGED <<status, notices>>
    BY <1>8 DEF ServerReset, Commits, serverVars
  <2> QED
    BY <1>8, <2>1, CommitStays, RestStays DEF ServerReset, gridVars
<1>9. CASE ResetEnds
  <2>1. UNCHANGED <<status, shown, notices>> /\ (get' = get \/ get'.at # "answered")
    BY <1>9 DEF ResetEnds, Refresh, NoGet, serverVars, gridVars, hubVars
  <2> QED
    BY <2>1, RestStays
<1>10. CASE Deliver
  <2>1. notices \in Seq(Notice) /\ notices # <<>>
    BY <1>10 DEF Deliver, TypeOK, HubOK
  <2>2. InStep(shown', status, Tail(notices))
    BY <1>10, <2>1, TailInStep DEF Deliver, PageInStep
  <2>3. Len(Tail(notices)) < Len(notices)
    BY <2>1
  <2>4. notices' = Tail(notices) /\ UNCHANGED <<status, get>>
    BY <1>10 DEF Deliver, serverVars
  <2> QED
    BY <2>2, <2>3, <2>4 DEF InStepOrExcused, PageInStep
<1>11. CASE Connect \/ Disconnect \/ Reload
  BY <1>11 DEF Connect, Disconnect, Reload
<1>12. CASE OtherTab
  <2>1. UNCHANGED <<status, shown, notices, get>>
    BY <1>12 DEF OtherTab, serverVars, gridVars, hubVars
  <2> QED
    BY <2>1, RestStays
<1> QED
  BY <1>1, <1>2, <1>3, <1>4, <1>5, <1>6, <1>7, <1>8, <1>9, <1>10, <1>11, <1>12
     DEF Next, GetGoesOn, ResetGoesOn

\* Whatever the server commits, for this page or for others, a connected page falls behind
\* only when a notice is lost or overtakes the answer to a fetch (seats-page.js:104, :120,
\* :294-302).
THEOREM PageStaysInStep == Spec => StaysInStep
<1>1. PageInv /\ [Next]_vars =>
        [conn = "up" /\ conn' = "up" /\ PageInStep =>
           \/ PageInStep'
           \/ status' # status /\ notices' = notices
           \/ get.at = "answered" /\ Len(notices') < Len(notices)]_vars
  BY StepStays DEF InStepOrExcused
<1> QED
  BY <1>1, InitInv, StepInv, PTL DEF Spec, StaysInStep

-------------------------------------------------------------------------------
(* What the page waits for.                                                *)

Ending == {"sent", "Succeeded", "Failed", "refreshing"}

\* A fetch that is asked for is under way afterwards, whoever has asked for it first.
LEMMA RefreshFetches ==
  ASSUME Refresh
  PROVE  get'.at # None
BY DEF Refresh, NoGet, None

\* A payment goes on, or ends and enables the buttons.
LEMMA PaymentWaits ==
  ASSUME TypeOK, NobodyWaitsInVain, NEW p \in Payments, PaymentGoesOn(p)
  PROVE  NobodyWaitsInVain'
<1>0. pay \in [Payments -> [at : {None, "sent", "Succeeded", "Failed", "refreshing", "closing"},
                            reservation : ReservationIds \union {None}]]
  BY DEF TypeOK, RequestsOK
<1>1. CASE ServerPay(p)
  <2>1. /\ \A q \in Payments \ {p} : pay'[q] = pay[q]
        /\ pay'[p].at \in {"sent", "Succeeded", "Failed"}
        /\ UNCHANGED <<paymentBusy, get, reset, conn>>
    BY <1>0, <1>1 DEF ServerPay, AnswerOrError
  <2> QED
    BY <2>1 DEF NobodyWaitsInVain
<1>2. CASE PayFailed(p) \/ PaySucceededUnseen(p)
  <2>1. /\ \A q \in Payments \ {p} : pay'[q] = pay[q]
        /\ pay'[p].at = None
        /\ paymentBusy' = FALSE
        /\ UNCHANGED <<get, reset, conn>>
    BY <1>0, <1>2 DEF PayFailed, PaySucceededUnseen, NoPayment, hubVars
  <2> QED
    BY <2>1 DEF NobodyWaitsInVain, None
<1>3. CASE PaySucceeded(p)
  <2>1. /\ \A q \in Payments \ {p} : pay'[q] = pay[q]
        /\ pay'[p].at = IF get.at = None THEN "refreshing" ELSE "closing"
        /\ paymentBusy' = (paymentBusy /\ get.at = None)
        /\ get'.at # None
    BY <1>0, <1>3, RefreshFetches DEF PaySucceeded
  <2> QED
    BY <2>1 DEF NobodyWaitsInVain
<1>4. CASE CloseTimer(p)
  <2>1. /\ \A q \in Payments \ {p} : pay'[q] = pay[q]
        /\ pay[p].at = "closing" /\ pay'[p].at = None
        /\ paymentBusy' => paymentBusy
        /\ UNCHANGED <<get, reset, conn>>
    BY <1>0, <1>4 DEF CloseTimer, Hide, NoPayment, hubVars
  <2> QED
    BY <2>1 DEF NobodyWaitsInVain, None
<1> QED
  BY <1>1, <1>2, <1>3, <1>4 DEF PaymentGoesOn

\* The end of a fetch wakes all who wait for it.
LEMMA FetchWakes ==
  ASSUME TypeOK, NobodyWaitsInVain, GetEnds
  PROVE  NobodyWaitsInVain'
<1>1. pay \in [Payments -> [at : {None, "sent", "Succeeded", "Failed", "refreshing", "closing"},
                            reservation : ReservationIds \union {None}]]
  BY DEF TypeOK, RequestsOK
<1>2. ASSUME NEW p \in Payments
      PROVE  pay'[p].at = IF pay[p].at = "refreshing" THEN "closing" ELSE pay[p].at
  BY <1>1 DEF GetEnds
<1>3. conn' # "off" /\ reset' # "refreshing"
  BY DEF GetEnds, None
<1>4. ASSUME paymentBusy'
      PROVE  \E p \in Payments : pay'[p].at \in Ending
  <2>1. paymentBusy /\ \A p \in Payments : pay[p].at # "refreshing"
    BY <1>4 DEF GetEnds
  <2>2. PICK p \in Payments : pay[p].at \in Ending
    BY <2>1 DEF NobodyWaitsInVain, Ending
  <2> QED
    BY <1>2, <2>1, <2>2
<1> QED
  BY <1>2, <1>3, <1>4 DEF NobodyWaitsInVain, Ending

\* Every step.
LEMMA StepWaits == PageInv /\ NobodyWaitsInVain /\ [Next]_vars => NobodyWaitsInVain'
<1> SUFFICES ASSUME TypeOK, NobodyWaitsInVain, [Next]_vars PROVE NobodyWaitsInVain'
  BY DEF PageInv
<1>1. ASSUME UNCHANGED <<pay, get, reset, conn>>, paymentBusy' => paymentBusy
      PROVE  NobodyWaitsInVain'
  BY <1>1 DEF NobodyWaitsInVain
<1>2. CASE ServerMoves \/ Deliver \/ OtherTab \/ UNCHANGED vars
  BY <1>1, <1>2 DEF ServerMoves, Deliver, OtherTab, vars, hubVars
<1>3. CASE \/ \E q \in Starts : ServerStart(q) \/ \E s \in Seats : ClickAvailable(q, s)
           \/ \E s \in Seats : ClickPending(s)
  BY <1>1, <1>3 DEF ServerStart, ClickAvailable, ClickPending, hubVars
<1>4. CASE Dismiss
  BY <1>1, <1>4 DEF Dismiss, Hide, hubVars
<1>5. ASSUME NEW p \in Payments, ClickPay(p) PROVE NobodyWaitsInVain'
  <2>1. /\ \A q \in Payments \ {p} : pay'[q] = pay[q]
        /\ pay'[p].at = "sent"
        /\ UNCHANGED <<get, reset, conn>>
    BY <1>5 DEF ClickPay, hubVars, TypeOK, RequestsOK
  <2> QED
    BY <2>1 DEF NobodyWaitsInVain
<1>6. CASE ClickReset \/ ServerReset
  <2>1. UNCHANGED <<paymentBusy, pay, get, conn>> /\ reset' # "refreshing"
    BY <1>6 DEF ClickReset, ServerReset, AnswerOrError, hubVars
  <2> QED
    BY <2>1 DEF NobodyWaitsInVain
<1>7. CASE (\E q \in Starts : StartEnds(q)) \/ ResetEnds
  <2>1. UNCHANGED <<paymentBusy, pay, conn>>
    BY <1>7 DEF StartEnds, ResetEnds, hubVars
  <2>2. \/ get'.at # None
        \/ get' = get /\ reset' # "refreshing"
    BY <1>7, RefreshFetches DEF StartEnds, ResetEnds, None
  <2> QED
    BY <2>1, <2>2 DEF NobodyWaitsInVain
<1>8. CASE ServerGet
  <2>1. UNCHANGED <<paymentBusy, pay, reset, conn>> /\ get'.at # None
    BY <1>8 DEF ServerGet, hubVars, None
  <2> QED
    BY <2>1 DEF NobodyWaitsInVain
<1>9. CASE GetEnds
  BY <1>9, FetchWakes
<1>10. ASSUME NEW p \in Payments, PaymentGoesOn(p) PROVE NobodyWaitsInVain'
  BY <1>10, PaymentWaits
<1>11. CASE Connect \/ Disconnect
  BY <1>11 DEF Connect, Disconnect, NobodyWaitsInVain
<1>12. CASE Reload
  <2>1. paymentBusy' = FALSE /\ get'.at # None
    BY <1>12 DEF Reload, NoGet, None
  <2> QED
    BY <2>1 DEF NobodyWaitsInVain
<1> QED
  BY <1>2, <1>3, <1>4, <1>5, <1>6, <1>7, <1>8, <1>9, <1>10, <1>11, <1>12
  DEF Next, Visitor, StartGoesOn, GetGoesOn, ResetGoesOn

\* The buttons of the dialogue are disabled only while a payment is under way that will
\* enable them, and a wait for a fetch only lasts as long as one is under way, for any number
\* of payments, seats and reloads (seats-page.js:136-147, :209-236, :259, :311).
THEOREM WaitsAreBounded == Spec => []NobodyWaitsInVain
<1>1. Init => NobodyWaitsInVain
  BY DEF Init, NobodyWaitsInVain, NoGet, None
<1>2. PageInv /\ NobodyWaitsInVain /\ [Next]_vars => NobodyWaitsInVain'
  BY StepWaits
<1> QED
  BY <1>1, <1>2, InitInv, StepInv, PTL DEF Spec

-------------------------------------------------------------------------------
(* The entries of the page.                                                *)

\* Every step is one of the ledger or leaves the server alone.
LEMMA StepOfServer ==
  ASSUME PageInv, [Next]_vars
  PROVE  Server!Next \/ UNCHANGED serverVars
<1>1. ASSUME Commits PROVE Server!Next
  BY <1>1 DEF Commits, ServerHold, ServerConfirm, ServerExpire, ServerWipe, Server!Next
<1>2. CASE ServerMoves
  BY <1>1, <1>2 DEF ServerMoves, Commits, Elsewhere, Server!Next
<1>3. ASSUME NEW q \in Starts, ServerStart(q) PROVE Server!Next \/ UNCHANGED serverVars
  <2>0. start[q].seat \in Seats
    BY <1>3, StartsOf DEF ServerStart, PageInv, TypeOK, None
  <2>1. Commits \/ UNCHANGED serverVars
    BY <1>3, <2>0 DEF ServerStart, Commits, PageInv, TypeOK, IdsOK
  <2> QED
    BY <1>1, <2>1
<1>4. ASSUME NEW p \in Payments, ServerPay(p) PROVE Server!Next \/ UNCHANGED serverVars
  <2>1. pay[p].reservation \in ReservationIds
    BY <1>4 DEF PageInv, OwnReservations, ServerPay, NoPayment, None
  <2>2. Commits \/ UNCHANGED serverVars
    BY <1>4, <2>1 DEF ServerPay, Commits
  <2> QED
    BY <1>1, <2>2
<1>5. CASE ServerReset
  <2>1. Commits \/ UNCHANGED serverVars
    BY <1>5 DEF ServerReset, Commits
  <2> QED
    BY <1>1, <2>1
<1>6. CASE Visitor \/ GetGoesOn \/ ResetEnds
  <2>1. ServerGet \/ GetEnds \/ ResetEnds => UNCHANGED serverVars
    BY DEF ServerGet, GetEnds, ResetEnds
  <2>2. Visitor => UNCHANGED serverVars
    BY DEF Visitor, ClickAvailable, ClickPending, ClickPay, Dismiss, ClickReset
  <2> QED
    BY <1>6, <2>1, <2>2 DEF GetGoesOn
<1>7. ASSUME NEW p \in Payments, PayFailed(p) \/ PaySucceeded(p) \/ PaySucceededUnseen(p)
                                              \/ CloseTimer(p)
      PROVE  UNCHANGED serverVars
  BY <1>7 DEF PayFailed, PaySucceeded, PaySucceededUnseen, CloseTimer
<1>8. ASSUME NEW q \in Starts, StartEnds(q) PROVE UNCHANGED serverVars
  BY <1>8 DEF StartEnds
<1>9. CASE Deliver \/ Connect \/ Disconnect \/ Reload \/ OtherTab \/ UNCHANGED vars
  BY <1>9 DEF Deliver, Connect, Disconnect, Reload, OtherTab, vars, serverVars
<1> QED
  BY <1>2, <1>3, <1>4, <1>5, <1>6, <1>7, <1>8, <1>9
  DEF Next, StartGoesOn, PaymentGoesOn, ResetGoesOn

\* A reservation that has been decided on is never Pending again.
LEMMA DecidedStays ==
  ASSUME ServerOK, Server!Next \/ UNCHANGED serverVars, NEW r \in ReservationIds,
         reservation[r].status \notin {"None", "Pending"}
  PROVE  reservation'[r].status \notin {"None", "Pending"}
<1> USE DEF ServerOK, Reservation
<1>1. ASSUME NEW q \in ReservationIds, NEW s \in Seats, NEW c \in Clients, Server!Hold(q, s, c)
      PROVE  reservation'[r] = reservation[r]
  BY <1>1 DEF Server!Hold, Server!NoReservation
<1>2. ASSUME NEW q \in ReservationIds, Server!Confirm(q)
      PROVE  reservation'[r].status \notin {"None", "Pending"}
  BY <1>2 DEF Server!Confirm
<1>3. ASSUME NEW rs \in SUBSET ReservationIds, Server!Expire(rs) \/ Server!Wipe(rs)
      PROVE  reservation'[r].status \notin {"None", "Pending"}
  BY <1>3 DEF Server!Expire, Server!Wipe
<1>4. CASE Server!Tick
  BY <1>4 DEF Server!Tick
<1>5. CASE UNCHANGED serverVars
  BY <1>5 DEF serverVars
<1> QED
  BY <1>1, <1>2, <1>3, <1>4, <1>5 DEF Server!Next

\* Success is reported only of a payment that the server has booked.
SuccessIsReal ==
  \A p \in Payments : pay[p].at = "Succeeded" =>
    reservation[pay[p].reservation].status \notin {"None", "Pending"}

\* A success comes from a Confirm of the payment's reservation.
LEMMA SuccessComes ==
  ASSUME PageInv, [Next]_vars, NEW p \in Payments, pay'[p].at = "Succeeded"
  PROVE  \/ pay'[p] = pay[p]
         \/ /\ pay[p].at = "sent" /\ pay'[p].reservation = pay[p].reservation
            /\ Server!Confirm(pay[p].reservation)
<1>0. pay \in [Payments -> [at : {None, "sent", "Succeeded", "Failed", "refreshing", "closing"},
                            reservation : ReservationIds \union {None}]]
  BY DEF PageInv, TypeOK, RequestsOK
<1>1. CASE UNCHANGED pay
  BY <1>1
<1>2. ASSUME NEW q \in Payments, ClickPay(q) PROVE pay'[p] = pay[p]
  BY <1>0, <1>2 DEF ClickPay
<1>3. ASSUME NEW q \in Payments, ServerPay(q)
      PROVE  \/ pay'[p] = pay[p]
             \/ /\ pay[p].at = "sent" /\ pay'[p].reservation = pay[p].reservation
                /\ Server!Confirm(pay[p].reservation)
  BY <1>0, <1>3 DEF ServerPay, ServerConfirm, AnswerOrError
<1>4. ASSUME NEW q \in Payments, PayFailed(q) \/ PaySucceededUnseen(q) \/ CloseTimer(q)
      PROVE  pay'[p] = pay[p]
  BY <1>0, <1>4 DEF PayFailed, PaySucceededUnseen, CloseTimer, NoPayment, None
<1>5. ASSUME NEW q \in Payments, PaySucceeded(q) PROVE pay'[p] = pay[p]
  BY <1>0, <1>5 DEF PaySucceeded
<1>6. CASE GetEnds
  BY <1>0, <1>6 DEF GetEnds
<1>7. CASE Reload
  BY <1>7 DEF Reload, NoPayment, None
<1>8. ServerMoves \/ ServerGet \/ ServerReset \/ ResetEnds \/ Deliver \/ Connect \/ Disconnect
        \/ OtherTab \/ Dismiss \/ ClickReset \/ UNCHANGED vars => UNCHANGED pay
  BY DEF ServerMoves, ServerGet, ServerReset, ResetEnds, Deliver, Connect, Disconnect, OtherTab,
         Dismiss, ClickReset, vars
<1>9. (\E s \in Seats : ClickPending(s) \/ \E q \in Starts : ClickAvailable(q, s))
        \/ (\E q \in Starts : ServerStart(q) \/ StartEnds(q)) => UNCHANGED pay
  BY DEF ClickAvailable, ClickPending, ServerStart, StartEnds
<1> QED
  BY <1>1, <1>2, <1>3, <1>4, <1>5, <1>6, <1>7, <1>8, <1>9
  DEF Next, Visitor, StartGoesOn, PaymentGoesOn, GetGoesOn, ResetGoesOn

LEMMA SuccessStays == PageInv /\ SuccessIsReal /\ [Next]_vars => SuccessIsReal'
<1>1. SUFFICES ASSUME PageInv, SuccessIsReal, [Next]_vars,
                      NEW p \in Payments, pay'[p].at = "Succeeded"
               PROVE  reservation'[pay'[p].reservation].status \notin {"None", "Pending"}
  BY DEF SuccessIsReal
<1>2. CASE pay'[p] = pay[p]
  <2>1. pay[p].reservation \in ReservationIds
    BY <1>1, <1>2 DEF PageInv, OwnReservations, NoPayment, None
  <2> QED
    BY <1>1, <1>2, <2>1, StepOfServer, DecidedStays DEF SuccessIsReal, PageInv, TypeOK
<1>3. CASE /\ pay[p].at = "sent" /\ pay'[p].reservation = pay[p].reservation
           /\ Server!Confirm(pay[p].reservation)
  <2>1. reservation[pay[p].reservation].status \in {"Pending", "Completed"}
    BY <1>3 DEF Server!Confirm
  <2>2. pay[p] # NoPayment
    BY <1>3 DEF NoPayment, None
  <2>3. pay[p].reservation \in ReservationIds
    BY <1>1, <2>2 DEF PageInv, OwnReservations
  <2> QED
    BY <1>1, <1>3, <2>3 DEF Server!Confirm, PageInv, TypeOK, ServerOK, Reservation
<1> QED
  BY <1>1, <1>2, <1>3, SuccessComes

\* A notice that follows all that is on its way says what is true when the page is in step.
LEMMA LastNoticeIsTrue ==
  ASSUME NEW seats, NEW now, NEW ns \in Seq(Notice), ns # <<>>, InStep(seats, now, ns),
         NEW s \in Seats, s \in DOMAIN Head(ns), About(Tail(ns), s) = {}
  PROVE  Head(ns)[s] = now[s]
<1>1. /\ Len(ns) \in Nat \ {0} /\ Len(Tail(ns)) = Len(ns) - 1
      /\ \A i \in 1..Len(Tail(ns)) : Tail(ns)[i] = ns[i + 1]
      /\ Head(ns) = ns[1]
  OBVIOUS
<1>2. 1 \in About(ns, s)
  BY <1>1 DEF About
<1>3. PICK i \in About(ns, s) : (\A j \in About(ns, s) : j <= i) /\ ns[i][s] = now[s]
  BY <1>2 DEF InStep
<1>4. i \in 1..Len(ns) /\ s \in DOMAIN ns[i]
  BY DEF About
<1>5. CASE i = 1
  BY <1>1, <1>3, <1>5
<1>6. CASE i # 1
  <2>1. i - 1 \in 1..Len(Tail(ns)) /\ Tail(ns)[i - 1] = ns[i]
    BY <1>1, <1>4, <1>6
  <2>2. i - 1 \in About(Tail(ns), s)
    BY <1>4, <2>1 DEF About
  <2> QED
    BY <2>2
<1> QED
  BY <1>5, <1>6

\* What EntryIsKept says of a step, of one seat and one reservation.
EntryMove(s, r) ==
  entry[s].reservation = r /\ reservation[r].seat = s /\ Stands(r)' =>
    \/ entry'[s] = entry[s]
    \/ LateNotice(s)
    \/ ForeignSuccess(r, s)
    \/ AnotherStart(r, s)
    \/ OwnReset
    \/ OtherTab

\* A notice that is not late leaves the entry of a hold that stands.
LEMMA DeliverKeeps ==
  ASSUME TypeOK, Deliver, NEW s \in Seats, NEW r \in ReservationIds
  PROVE  EntryMove(s, r)
<1>0. CASE s \notin DOMAIN Head(notices)
  BY <1>0 DEF Deliver, Remove, EntryMove
<1>1. SUFFICES ASSUME s \in DOMAIN Head(notices), reservation[r].seat = s, Stands(r)',
                      ~LateNotice(s)
               PROVE  entry'[s] = entry[s]
  BY <1>0 DEF EntryMove
<1>2. notices \in Seq(Notice) /\ notices # <<>> /\ notices' = Tail(notices)
  BY DEF TypeOK, HubOK, Deliver
<1>3. PageInStep /\ About(Tail(notices), s) = {}
  BY <1>1, <1>2 DEF LateNotice, Deliver
<1>4. status[s] = "Pending"
  BY <1>1 DEF Stands, Deliver, serverVars
<1>5. s \in DOMAIN Head(notices) => Head(notices)[s] = "Pending"
  BY <1>2, <1>3, <1>4, LastNoticeIsTrue DEF PageInStep
<1>6. s \notin {t \in DOMAIN Head(notices) : Head(notices)[t] \in {"Available", "Reserved"}}
  BY <1>5
<1> QED
  BY <1>6 DEF Deliver, Remove

\* Every step.
LEMMA StepKeepsEntries ==
  ASSUME PageInv, SuccessIsReal, Next, NEW s \in Seats, NEW r \in ReservationIds
  PROVE  EntryMove(s, r)
<1> TypeOK
  BY DEF PageInv
<1>1. ASSUME UNCHANGED entry PROVE EntryMove(s, r)
  BY <1>1 DEF EntryMove
<1>2. ServerMoves \/ Dismiss \/ ClickReset \/ GetGoesOn \/ ServerReset \/ Connect \/ Disconnect
        \/ Reload => UNCHANGED entry
  BY DEF ServerMoves, Dismiss, ClickReset, GetGoesOn, ServerGet, GetEnds, ServerReset, Connect,
         Disconnect, Reload
<1>3. (\E t \in Seats : ClickPending(t) \/ \E q \in Starts : ClickAvailable(q, t))
        \/ (\E q \in Starts : ServerStart(q)) => UNCHANGED entry
  BY DEF ClickAvailable, ClickPending, ServerStart
<1>4. ASSUME NEW p \in Payments, ClickPay(p) \/ ServerPay(p) \/ PayFailed(p)
                                  \/ PaySucceededUnseen(p) \/ CloseTimer(p)
      PROVE  UNCHANGED entry
  BY <1>4 DEF ClickPay, ServerPay, PayFailed, PaySucceededUnseen, CloseTimer
<1>5. ASSUME NEW q \in Starts, StartEnds(q) PROVE EntryMove(s, r)
  <2> DEFINE a == start[q].answer
  <2>1. /\ start'[q] = NoStart
        /\ start[q].seat \in Seats
        /\ \/ entry' = entry
           \/ a \in ReservationIds /\ entry' = Set(start[q].seat, a)
    <3>1. /\ a \in ReservationIds \union {"sent", "refused"} /\ a # "sent"
          /\ start[q].seat \in Seats
      BY <1>5, StartsOf DEF StartEnds, TypeOK, None
    <3>2. start'[q] = NoStart
      BY <1>5 DEF StartEnds, TypeOK, RequestsOK
    <3>3. entry' = IF a = "refused" THEN entry ELSE Set(start[q].seat, a)
      BY <1>5 DEF StartEnds
    <3> QED
      BY <3>1, <3>2, <3>3
  <2>2. CASE entry' = entry \/ start[q].seat # s
    BY <2>1, <2>2 DEF EntryMove, Set, TypeOK, DialogOK
  <2>3. CASE a \in ReservationIds \ {r} /\ entry' = Set(s, a) /\ start[q].seat = s
    BY <2>1, <2>3 DEF EntryMove, AnotherStart
  <2>4. CASE a = r /\ entry' = Set(s, r) /\ start[q].seat = s
    <3>1. SUFFICES ASSUME entry[s].reservation = r PROVE entry'[s] = entry[s]
      BY DEF EntryMove
    <3>2. entry[s] \in Entry
      BY <3>1, PageAssumption DEF TypeOK, DialogOK, NoEntry, None
    <3>3. entry[s].client = clientId
      <4>1. reservation[r].client = clientId
        BY <2>4 DEF PageInv, OwnReservations, Mine
      <4>2. entry[s] # NoEntry
        BY <3>1, PageAssumption DEF NoEntry, None
      <4> QED
        BY <3>1, <4>1, <4>2 DEF PageInv, OwnReservations, Mine
    <3>4. entry'[s] = [reservation |-> r, client |-> clientId]
      BY <2>4 DEF Set, TypeOK, DialogOK
    <3> QED
      BY <3>1, <3>2, <3>3, <3>4 DEF Entry
  <2> QED
    BY <2>1, <2>2, <2>3, <2>4
<1>6. ASSUME NEW p \in Payments, PaySucceeded(p) PROVE EntryMove(s, r)
  <2>1. SUFFICES ASSUME Stands(r)' PROVE entry'[s] = entry[s] \/ ForeignSuccess(r, s)
    BY DEF EntryMove
  <2>2. reservation[r].status = "Pending"
    BY <1>6, <2>1 DEF Stands, PaySucceeded, serverVars
  <2>3. pay[p].at = "Succeeded" /\ pay[p].reservation # r
    BY <1>6, <2>2 DEF PaySucceeded, SuccessIsReal
  <2>4. pay'[p].at # "Succeeded"
    BY <1>6 DEF PaySucceeded, TypeOK, RequestsOK
  <2>5. CASE dialog.seat = s
    BY <2>3, <2>4, <2>5 DEF ForeignSuccess
  <2>6. CASE dialog.seat # s
    BY <1>6, <2>6 DEF PaySucceeded, Remove
  <2> QED
    BY <2>5, <2>6
<1>7. CASE ResetEnds
  <2>1. entry' = entry \/ OwnReset
    BY <1>7, PageAssumption DEF ResetEnds, OwnReset, None
  <2> QED
    BY <2>1 DEF EntryMove
<1>8. CASE Deliver
  BY <1>8, DeliverKeeps
<1>9. CASE OtherTab
  BY <1>9 DEF EntryMove
<1> QED
  BY <1>1, <1>2, <1>3, <1>4, <1>5, <1>6, <1>7, <1>8, <1>9
  DEF Next, Visitor, StartGoesOn, PaymentGoesOn, ResetGoesOn

\* However many starts, payments, dialogues and notices overlap, the page forgets how to pay for
\* a hold that stands in the named ways only: never at the end of a fetch, at a dismissal, a
\* reload, a refusal or a failed payment
\* (seats-page.js:107-109, :135-149, :195, :225, :253-255, :284-288).
THEOREM EntriesAreKept == Spec => EntryIsKept
<1> DEFINE A == \A s \in Seats, r \in ReservationIds :
                  entry[s].reservation = r /\ reservation[r].seat = s /\ Stands(r)' =>
                    \/ entry'[s] = entry[s]
                    \/ LateNotice(s)
                    \/ ForeignSuccess(r, s)
                    \/ AnotherStart(r, s)
                    \/ OwnReset
                    \/ OtherTab
<1>1. Init => SuccessIsReal
  BY DEF Init, SuccessIsReal, NoPayment, None
<1>2. PageInv /\ SuccessIsReal /\ [Next]_vars => SuccessIsReal'
  BY SuccessStays
<1>3. PageInv /\ SuccessIsReal /\ [Next]_vars => [A]_vars
  BY StepKeepsEntries DEF EntryMove
<1> QED
  BY <1>1, <1>2, <1>3, InitInv, StepInv, PTL DEF Spec, EntryIsKept

-------------------------------------------------------------------------------
(* The page and the seats as they are.                                     *)

\* The page is in step when it is connected, and then misses nothing: no notice is lost, none
\* overtakes the answer to a fetch.
NothingMissed ==
  /\ conn # "up" /\ conn' = "up" => PageInStep'
  /\ conn = "up" /\ conn' = "up" =>
       /\ status' = status \/ notices' # notices
       /\ get.at # "answered" \/ Len(notices') >= Len(notices)

\* A page that has nothing more to come shows the seats as they are, as README.md:21 has it, in
\* every behaviour in which it is in step when it is connected, no notice is lost and none
\* overtakes the answer to a fetch: what the code lacks is only a fetch after connecting and
\* an order between answers and notices (seats-page.js:141, :311, seat-booking-realtime.js:11).
THEOREM WrongPageNeedsGap == Spec /\ [][NothingMissed]_vars => []PageIsCurrent
<1> DEFINE UpInStep == conn = "up" => PageInStep
           A == conn = "up" /\ conn' = "up" /\ PageInStep =>
                  \/ PageInStep'
                  \/ status' # status /\ notices' = notices
                  \/ get.at = "answered" /\ Len(notices') < Len(notices)
<1>1. Init => UpInStep
  BY DEF Init
<1>2. PageInv /\ PageInv' /\ UpInStep /\ [A]_vars /\ [NothingMissed]_vars => UpInStep'
  <2>1. SUFFICES ASSUME PageInv, PageInv', UpInStep, [A]_vars, [NothingMissed]_vars
                 PROVE  UpInStep'
    OBVIOUS
  <2>2. CASE UNCHANGED vars
    BY <2>1, <2>2 DEF vars, PageInStep
  <2>3. CASE A /\ NothingMissed
    <3>1. Len(notices) \in Nat /\ Len(notices') \in Nat
      BY <2>1 DEF PageInv, TypeOK, HubOK
    <3> QED
      BY <2>1, <2>3, <3>1 DEF NothingMissed
  <2> QED
    BY <2>1, <2>2, <2>3
<1>3. UpInStep => PageIsCurrent
  <2>1. SUFFICES ASSUME UpInStep, Quiet, NEW s \in Seats PROVE shown[s] = status[s]
    BY DEF PageIsCurrent
  <2>2. InStep(shown, status, <<>>)
    BY <2>1 DEF Quiet, PageInStep
  <2>3. About(<<>>, s) = {}
    BY DEF About
  <2> QED
    BY <2>2, <2>3 DEF InStep
<1>4. Spec => [][A]_vars
  BY PageStaysInStep DEF StaysInStep
<1> QED
  BY <1>1, <1>2, <1>3, <1>4, InitInv, StepInv, PTL DEF Spec

================================================================================
