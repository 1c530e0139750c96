------------------------- MODULE ReservationStepProofs -------------------------
(***************************************************************************)
(* What the steps of ReservationService may do to a booking, to the board  *)
(* the pages show, and to a hall in which every seat agrees with the       *)
(* reservations that claim it.                                             *)
(***************************************************************************)
EXTENDS ReservationSafetyProofs

-------------------------------------------------------------------------------
(* Bookings.                                                               *)

\* A payment that can save has found its seat Pending, so no booking is on that seat.
LEMMA BookedOutOfReach ==
  ASSUME IInv, NEW p \in Procs, CanSave(p), pc[p] \in {"payExpireSave", "payCommit"},
         NEW r \in ReservationIds, Booked(r)
  PROVE  r \notin tracked[p] /\ reservation[r].seat \notin Loaded(p)
<1>1. PICK x \in ReservationIds : tracked[p] = {x}
  BY DEF IInv, HandlerOK, LoadedSoFar, PayLabels
<1>2. Loaded(p) = {reservation[x].seat}
  BY <1>1 DEF IInv, HandlerOK, LoadedSoFar, SeatSaveLabels, SeatsOf
<1>3. seat[reservation[x].seat].status = "Pending"
  BY <1>1 DEF CanSave, IInv, HandlerOK, PayFresh
<1> QED
  BY <1>1, <1>2, <1>3 DEF Booked

\* A save changes nothing of the bookings it does not reach.
LEMMA SaveKeepsBooked ==
  ASSUME IInv, NEW p \in Procs, NEW st, NEW sst, SaveChanges(p, st, sst),
         NEW r \in ReservationIds, Booked(r),
         r \notin tracked[p], reservation[r].seat \notin Loaded(p)
  PROVE  Booked(r)'
<1>1. reservation'[r] = reservation[r]
  BY DEF SaveChanges, SetReservations
<1>2. reservation[r].seat \in Seats
  BY DEF Booked, IInv, TablesOK, RowsHaveSeats
<1>3. seat'[reservation[r].seat] = seat[reservation[r].seat]
  BY <1>2 DEF SaveChanges, SetSeats
<1> QED
  BY <1>1, <1>3 DEF Booked

\* A start does not touch the bookings either: its seat was Available and its row new.
LEMMA StartKeepsBooked ==
  ASSUME IInv, NEW p \in Procs, NEW q \in ReservationIds, NEW c \in Clients,
         StartSave(p, q, c), NEW r \in ReservationIds, Booked(r)
  PROVE  Booked(r)'
<1>1. /\ reservation[q].status = "None"
      /\ \A x \in ReservationIds \ {q} : reservation'[x] = reservation[x]
  BY StartWrites
<1>2. PICK s \in Seats : /\ seat[s].status = "Available"
                         /\ \A x \in Seats \ {s} : seat'[x] = seat[x]
  BY StartWrites
<1>3. reservation[r].seat \in Seats
  BY DEF Booked, IInv, TablesOK, RowsHaveSeats
<1> QED
  BY <1>1, <1>2, <1>3 DEF Booked

\* No start and no payment, whatever it has read before, takes a booking away, for any
\* number of them at the same time: only the job and a reset do
\* (ReservationService.cs:71, :168, :194).
THEOREM BookingsAreKept == Spec => BookingIsKept
<1> DEFINE A == \A r \in ReservationIds : Booked(r) => Booked(r)' \/ JobExpires \/ ResetWipes
<1>1. IInv /\ [Next]_vars => [A]_vars
  <2>1. SUFFICES ASSUME IInv, Next, NEW r \in ReservationIds, Booked(r)
                 PROVE  Booked(r)' \/ JobExpires \/ ResetWipes
    OBVIOUS
  <2>2. CASE UNCHANGED <<seat, reservation>>
    BY <2>1, <2>2 DEF Booked
  <2>3. ASSUME NEW p \in Slots, NEW q \in ReservationIds, NEW c \in Clients, StartSave(p, q, c)
        PROVE  Booked(r)'
    BY <2>1, <2>3, StartKeepsBooked, ServiceAssumption
  <2>4. ASSUME NEW p \in Slots, PayExpireSave(p) \/ PayCommit(p)
        PROVE  Booked(r)'
    <3>1. /\ p \in Procs
          /\ pc[p] \in {"payExpireSave", "payCommit"}
          /\ SaveChanges(p, "Expired", "Available") \/ SaveChanges(p, "Completed", "Reserved")
      BY <2>4, ServiceAssumption DEF PayExpireSave, PayCommit
    <3>2. CanSave(p)
      BY <3>1 DEF SaveChanges
    <3> QED
      BY <2>1, <3>1, <3>2, BookedOutOfReach, SaveKeepsBooked
  <2>5. ASSUME NEW p \in Slots, ResetCommit(p)
        PROVE  ResetWipes
    BY <2>1, <2>5, ServiceAssumption
    DEF ResetCommit, ResetWipes, Committed, Goto, IInv, TypeOK
  <2>6. CASE JobSave1
    BY <2>1, <2>6, ServiceAssumption DEF JobSave1, JobExpires, Goto, IInv, TypeOK
  <2>7. CASE Tick
    BY <2>1, <2>7 DEF Tick, Booked, IInv, TypeOK, StoreTypeOK, Reservation
  <2> QED
    BY <2>1, <2>2, <2>3, <2>4, <2>5, <2>6, <2>7, WritingSteps
<1> QED
  BY <1>1, InvariantHolds, PTL DEF Spec, BookingIsKept

-------------------------------------------------------------------------------
(* The board.                                                              *)

\* What BoardStaysInStep excuses.
Excused(s) ==
  \/ \E p, q \in NoticesOf(s)' : p # q
  \/ faults' > faults
  \/ pc[Job] = "jobSave2" /\ pc'[Job] = "idle"

Keeps(s) == BoardInStep(s) => BoardInStep(s)' \/ Excused(s)

\* A step of p that leaves the notices of the others alone.
OthersPublish(p) == OthersStay(p) /\ \A q \in Procs \ {p} : notice'[q] = notice[q]

\* The notices of the others about a seat are on their way as before.
LEMMA OthersNotices ==
  ASSUME NEW p \in Procs, OthersPublish(p), NEW s \in Seats
  PROVE  /\ NoticesOf(s)' \ {p} = NoticesOf(s) \ {p}
         /\ \A q \in Procs \ {p} : WillPublish(q)' = WillPublish(q)
<1>1. ASSUME NEW q \in Procs \ {p}
      PROVE  /\ q \in NoticesOf(s)' <=> q \in NoticesOf(s)
             /\ WillPublish(q)' = WillPublish(q)
  BY DEF OthersPublish, OthersStay, NoticesOf, Loaded, WillPublish
<1> QED
  BY <1>1 DEF NoticesOf

\* A step of p that has nothing to do with a seat.
LEMMA ElsewhereKeeps ==
  ASSUME NEW p \in Procs, OthersPublish(p), NEW s \in Seats,
         p \notin NoticesOf(s), p \notin NoticesOf(s)',
         seat'[s].status = seat[s].status, board'[s] = board[s]
  PROVE  Keeps(s)
<1>1. NoticesOf(s)' = NoticesOf(s)
  BY OthersNotices
<1>2. \A q \in NoticesOf(s) : WillPublish(q)' = WillPublish(q)
  BY OthersNotices DEF NoticesOf
<1> QED
  BY <1>1, <1>2 DEF Keeps, BoardInStep

\* A step of p that writes a seat and will send a notice with what it has written.
LEMMA WriteKeeps ==
  ASSUME NEW p \in Procs, OthersPublish(p), NEW s \in Seats,
         p \notin NoticesOf(s), p \in NoticesOf(s)',
         WillPublish(p)' = seat'[s].status
  PROVE  Keeps(s)
<1>1. NoticesOf(s)' = NoticesOf(s) \union {p}
  BY OthersNotices
<1>2. CASE NoticesOf(s) = {}
  BY <1>1, <1>2 DEF Keeps, BoardInStep
<1>3. CASE NoticesOf(s) # {}
  <2>1. PICK q \in NoticesOf(s) : TRUE
    BY <1>3
  <2> QED
    BY <1>1, <2>1 DEF Keeps, Excused
<1> QED
  BY <1>2, <1>3

\* A step of p that delivers its notice.
LEMMA DeliveryKeeps ==
  ASSUME NEW p \in Procs, OthersPublish(p), NEW s \in Seats,
         p \in NoticesOf(s), p \notin NoticesOf(s)',
         seat'[s].status = seat[s].status, board'[s] = WillPublish(p)
  PROVE  Keeps(s)
<1>1. SUFFICES ASSUME BoardInStep(s) PROVE BoardInStep(s)'
  BY DEF Keeps
<1>2. NoticesOf(s) = {p} /\ WillPublish(p) = seat[s].status
  BY <1>1 DEF BoardInStep
<1>3. NoticesOf(s)' = {}
  BY <1>2, OthersNotices
<1> QED
  BY <1>2, <1>3 DEF BoardInStep

\* A handler that only reads, refuses or ends has no notice on its way before or after.
LEMMA SilentKeeps ==
  ASSUME NEW p \in Procs, OthersPublish(p), NEW s \in Seats,
         pc[p] \notin {"jobSave2", "notify"}, pc'[p] \notin {"jobSave2", "notify"},
         UNCHANGED <<seat, board>>
  PROVE  Keeps(s)
BY ElsewhereKeeps DEF NoticesOf

\* A request that commits: of every seat it has written it will publish the status.
LEMMA CommitKeeps ==
  ASSUME TypeOK, NEW p \in Procs, OthersStay(p), NEW s \in Seats, NEW st, NEW a,
         pc[p] \notin {"jobSave2", "notify"}, Committed(p, st, a),
         SetSeats(Loaded(p), st), UNCHANGED seen
  PROVE  Keeps(s)
<1>1. /\ pc'[p] = "notify" /\ notice'[p] = st
      /\ OthersPublish(p)
      /\ board' = board
  BY DEF Committed, Goto, OthersPublish, TypeOK
<1>2. Loaded(p)' = Loaded(p) /\ p \notin NoticesOf(s)
  BY DEF Loaded, NoticesOf
<1>3. CASE s \in Loaded(p)
  BY <1>1, <1>2, <1>3, WriteKeeps DEF SetSeats, NoticesOf, WillPublish
<1>4. CASE s \notin Loaded(p)
  <2>1. seat'[s] = seat[s] /\ p \notin NoticesOf(s)'
    BY <1>2, <1>4 DEF SetSeats, NoticesOf
  <2> QED
    BY <1>1, <1>2, <2>1, ElsewhereKeeps
<1> QED
  BY <1>3, <1>4

\* The notifier shows every seat the handler has written.
LEMMA NotifyKeeps ==
  ASSUME TypeOK, NEW p \in Procs, OthersStay(p), NEW s \in Seats, Notify(p)
  PROVE  Keeps(s)
<1>1. /\ pc[p] = "notify"
      /\ pc'[p] \in {"idle", "answer"}
      /\ OthersPublish(p)
      /\ seat' = seat
      /\ board'[s] = IF s \in Loaded(p) THEN notice[p] ELSE board[s]
  BY DEF Notify, AfterNotify, JobSleeps, Goto, OthersPublish, TypeOK
<1>2. p \notin NoticesOf(s)'
  BY <1>1 DEF NoticesOf
<1>3. CASE s \in Loaded(p)
  BY <1>1, <1>2, <1>3, DeliveryKeeps DEF NoticesOf, WillPublish
<1>4. CASE s \notin Loaded(p)
  BY <1>1, <1>2, <1>4, ElsewhereKeeps DEF NoticesOf
<1> QED
  BY <1>3, <1>4

\* Every step of a request.
LEMMA RequestKeepsBoard ==
  ASSUME IInv, TypeOK', NEW p \in Slots, NEW s \in Seats,
         StartRequest(p) \/ PayRequest(p) \/ ResetReadReservations(p) \/ Request(p)
  PROVE  Keeps(s)
<1>0. p \in Procs /\ TypeOK /\ OthersStay(p)
  BY ServiceAssumption, RequestGood DEF GoodStep, IInv
<1>1. ASSUME NEW a, Reject(p, a), pc[p] \notin {"jobSave2", "notify"} PROVE Keeps(s)
  <2>1. pc'[p] = "answer" /\ OthersPublish(p) /\ UNCHANGED <<seat, board>>
    BY <1>0, <1>1 DEF Reject, Goto, OthersPublish, TypeOK
  <2> QED
    BY <1>0, <1>1, <2>1, SilentKeeps
<1>2. ASSUME NEW l \in Labels \ {"jobSave2", "notify"}, ReadStep(p, l),
             pc[p] \notin {"jobSave2", "notify"}
      PROVE  Keeps(s)
  <2>1. pc'[p] = l /\ OthersPublish(p) /\ UNCHANGED <<seat, board>>
    BY <1>0, <1>2 DEF ReadStep, Goto, OthersPublish, TypeOK
  <2> QED
    BY <1>0, <1>2, <2>1, SilentKeeps
<1>3. ASSUME NEW l \in Labels \ {"jobSave2", "notify"}, Goto(p, l),
             pc[p] \notin {"jobSave2", "notify"}, UNCHANGED <<seat, board, notice>>
      PROVE  Keeps(s)
  <2>1. pc'[p] = l /\ OthersPublish(p)
    BY <1>0, <1>3 DEF Goto, OthersPublish, TypeOK
  <2> QED
    BY <1>0, <1>3, <2>1, SilentKeeps
<1>4. CASE StartRequest(p)
  BY <1>1, <1>2, <1>4
  DEF StartRequest, StartNotFound, StartUnavailable, StartLoad, Labels
<1>5. CASE PayRequest(p)
  BY <1>1, <1>2, <1>5 DEF PayRequest, PayRejected, PayReadReservation, Labels
<1>6. CASE ResetReadReservations(p)
  BY <1>3, <1>6 DEF ResetReadReservations, Labels
<1>7. ASSUME NEW r \in ReservationIds, NEW c \in Clients, StartSave(p, r, c)
      PROVE  Keeps(s)
  BY <1>0, <1>7, CommitKeeps DEF StartSave
<1>8. CASE PayExpireSave(p) \/ PayCommit(p) \/ ResetCommit(p)
  BY <1>0, <1>8, CommitKeeps DEF PayExpireSave, PayCommit, ResetCommit, SaveChanges
<1>9. CASE StartConflict(p) \/ PaySeatUnavailable(p) \/ PayDeclined(p)
             \/ PayConflict(p) \/ ResetConflict(p)
  BY <1>1, <1>9
  DEF StartConflict, PaySeatUnavailable, PayDeclined, PayConflict, ResetConflict
<1>10. CASE PayReadSeat(p) \/ ResetDelete(p) \/ ResetReadSeats(p)
  BY <1>2, <1>10 DEF PayReadSeat, ResetDelete, ResetReadSeats, Labels
<1>11. CASE PaySucceeded(p)
  BY <1>3, <1>11 DEF PaySucceeded, Labels
<1>12. CASE Notify(p)
  BY <1>0, <1>12, NotifyKeeps
<1>13. CASE Return(p)
  BY <1>3, <1>13 DEF Return, Labels
<1> QED
  BY <1>4, <1>5, <1>6, <1>7, <1>8, <1>9, <1>10, <1>11, <1>12, <1>13, RequestGood DEF Request

\* Every step of the job.  Its second save changes nothing, and the notice it owes since
\* its first save stays the same.
LEMMA BackgroundKeepsBoard ==
  ASSUME IInv, TypeOK', NEW s \in Seats, Background
  PROVE  Keeps(s)
<1>0. Job \in Procs /\ TypeOK /\ OthersStay(Job)
  BY ServiceAssumption, BackgroundGood DEF GoodStep, IInv
<1>1. ASSUME NEW l \in Labels \ {"jobSave2", "notify"}, ReadStep(Job, l),
             pc[Job] \notin {"jobSave2", "notify"}
      PROVE  Keeps(s)
  <2>1. pc'[Job] = l /\ OthersPublish(Job) /\ UNCHANGED <<seat, board>>
    BY <1>0, <1>1 DEF ReadStep, Goto, OthersPublish, TypeOK
  <2> QED
    BY <1>0, <1>1, <2>1, SilentKeeps
<1>2. CASE JobBegin \/ JobReadReservations \/ JobReadSeats
  BY <1>1, <1>2 DEF JobBegin, JobReadReservations, JobReadSeats, Labels
<1>3. CASE JobSave1
  <2>1. /\ pc[Job] = "jobSave1" /\ pc'[Job] = "jobSave2"
        /\ SetSeats(Loaded(Job), "Available")
        /\ OthersPublish(Job)
        /\ UNCHANGED <<seen, board>>
    BY <1>0, <1>3 DEF JobSave1, SaveChanges, Goto, OthersPublish, TypeOK
  <2>2. Loaded(Job)' = Loaded(Job) /\ Job \notin NoticesOf(s)
    BY <2>1 DEF Loaded, NoticesOf
  <2>3. CASE s \in Loaded(Job)
    BY <1>0, <2>1, <2>2, <2>3, WriteKeeps DEF SetSeats, NoticesOf, WillPublish
  <2>4. CASE s \notin Loaded(Job)
    <3>1. seat'[s] = seat[s] /\ Job \notin NoticesOf(s)'
      BY <2>1, <2>2, <2>4 DEF SetSeats, NoticesOf
    <3> QED
      BY <1>0, <2>1, <2>2, <3>1, ElsewhereKeeps
  <2> QED
    BY <2>3, <2>4
<1>4. CASE JobSave2
  <2>1. /\ pc[Job] = "jobSave2" /\ pc'[Job] = "notify"
        /\ notice'[Job] = "Available"
        /\ OthersPublish(Job)
        /\ UNCHANGED <<seat, seen, board>>
    BY <1>0, <1>4 DEF JobSave2, Goto, OthersPublish, TypeOK
  <2>2. Job \in NoticesOf(s)' <=> Job \in NoticesOf(s)
    BY <2>1 DEF NoticesOf, Loaded
  <2>3. WillPublish(Job)' = WillPublish(Job)
    BY <2>1 DEF WillPublish
  <2>4. /\ NoticesOf(s)' = NoticesOf(s)
        /\ \A q \in Procs : WillPublish(q)' = WillPublish(q)
    BY <1>0, <2>1, <2>2, <2>3, OthersNotices
  <2> QED
    BY <2>1, <2>4 DEF Keeps, BoardInStep
<1>5. CASE JobConflict
  <2>1. /\ pc'[Job] = "idle"
        /\ OthersPublish(Job)
        /\ UNCHANGED <<seat, board>>
        /\ pc[Job] \in {"jobSave1", "jobSave2"}
    BY <1>0, <1>5 DEF JobConflict, JobSleeps, Goto, OthersPublish, TypeOK
  <2> QED
    BY <1>0, <2>1, SilentKeeps DEF Keeps, Excused
<1>6. CASE Notify(Job)
  BY <1>0, <1>6, NotifyKeeps
<1> QED
  BY <1>2, <1>3, <1>4, <1>5, <1>6 DEF Background

\* What the pages show of a seat is wrong only after two notices about it were under way
\* together, a failure, or a second save of the job that did not find its rows, for any
\* number of requests (ReservationService.cs:83-90, :176, :206, :273, :314).
THEOREM BoardKeepsInStep == Spec => BoardStaysInStep
<1> DEFINE A == \A s \in Seats : BoardInStep(s) =>
                  \/ BoardInStep(s)'
                  \/ \E p, q \in NoticesOf(s)' : p # q
                  \/ faults' > faults
                  \/ pc[Job] = "jobSave2" /\ pc'[Job] = "idle"
<1>1. IInv /\ [Next]_vars => [A]_vars
  <2>1. SUFFICES ASSUME IInv, Next, NEW s \in Seats PROVE Keeps(s)
    BY DEF Keeps, Excused
  <2>2. TypeOK'
    BY <2>1, NextInv DEF IInv
  <2>3. ASSUME NEW p \in Slots,
               StartRequest(p) \/ PayRequest(p) \/ ResetReadReservations(p) \/ Request(p)
        PROVE  Keeps(s)
    BY <2>1, <2>2, <2>3, RequestKeepsBoard
  <2>4. CASE Background
    BY <2>1, <2>2, <2>4, BackgroundKeepsBoard
  <2>5. CASE Crash \/ \E p \in Procs : NotifyFails(p) \/ Abort(p)
    <3>1. faults' = faults + 1 /\ faults \in Nat
      BY <2>1, <2>5, ServiceAssumption DEF Crash, NotifyFails, Abort, IInv, TypeOK
    <3> QED
      BY <3>1 DEF Keeps, Excused
  <2>6. CASE Tick
    BY <2>6 DEF Tick, Keeps, BoardInStep, NoticesOf, Loaded, WillPublish
  <2> QED
    BY <2>1, <2>3, <2>4, <2>5, <2>6 DEF Next
<1> QED
  BY <1>1, InvariantHolds, PTL DEF Spec, BoardStaysInStep

\* When nothing is going on the pages show the seats as they are, as README.md:21 has it, in
\* every behaviour in which no two notices about a seat are under way together, nothing
\* fails and the job's second save finds its rows.
THEOREM WrongBoardNeedsRace == Spec /\ [][\A s \in Seats : ~Excused(s)]_vars => []BoardIsCurrent
<1> DEFINE AllInStep == \A s \in Seats : BoardInStep(s)
           N == \A s \in Seats : ~Excused(s)
           A == \A s \in Seats : BoardInStep(s) =>
                  \/ BoardInStep(s)'
                  \/ \E p, q \in NoticesOf(s)' : p # q
                  \/ faults' > faults
                  \/ pc[Job] = "jobSave2" /\ pc'[Job] = "idle"
<1>1. Init => AllInStep
  <2>1. SUFFICES ASSUME Init, NEW s \in Seats PROVE BoardInStep(s)
    OBVIOUS
  <2>2. NoticesOf(s) = {}
    BY <2>1 DEF Init, NoticesOf
  <2>3. board[s] = "Available" /\ seat[s].status = "Available"
    BY <2>1 DEF Init, StoreInit, FreshSeat
  <2> QED
    BY <2>2, <2>3 DEF BoardInStep
<1>2. AllInStep /\ [A]_vars /\ [N]_vars => AllInStep'
  <2>1. CASE UNCHANGED vars
    BY <2>1 DEF vars, BoardInStep, NoticesOf, Loaded, WillPublish
  <2>2. CASE A /\ N
    BY <2>2 DEF Excused
  <2> QED
    BY <2>1, <2>2
<1>3. AllInStep => BoardIsCurrent
  BY DEF BoardIsCurrent, BoardInStep, NoticesOf
<1>4. Spec => [][A]_vars
  BY BoardKeepsInStep DEF BoardStaysInStep
<1> QED
  BY <1>1, <1>2, <1>3, <1>4, PTL DEF Spec

-------------------------------------------------------------------------------
(* Double bookings.                                                        *)

\* Every release ends all the claims on the seats it frees.
ReleasesClean ==
  \A s \in Seats : Paired(s) /\ seat'[s].status = "Available" => Paired(s)'

AllPaired == \A s \in Seats : Paired(s)

\* A hall in which every seat agrees with its reservations has no double booking.
LEMMA PairedIsSingle ==
  ASSUME TypeOK, RowsHaveSeats, AllPaired
  PROVE  NoDoubleBooking
<1>1. SUFFICES ASSUME NEW r1 \in ReservationIds, NEW r2 \in ReservationIds,
                      reservation[r1].status = "Completed", reservation[r2].status = "Completed",
                      reservation[r1].seat = reservation[r2].seat
               PROVE  r1 = r2
  BY DEF NoDoubleBooking
<1>2. PICK s \in Seats : reservation[r1].seat = s /\ reservation[r2].seat = s
  BY <1>1 DEF RowsHaveSeats
<1>3. r1 \in Claims(s) /\ r2 \in Claims(s)
  BY <1>1, <1>2 DEF Claims, On, Stored, ReservationStatus
<1> QED
  BY <1>3 DEF Paired, AllPaired

\* Where every release is clean, starts and payments keep the whole hall in agreement.
LEMMA CleanReleasesPair == Spec /\ [][ReleasesClean]_vars => []AllPaired
<1> DEFINE A == \A s \in Seats : Paired(s) => Paired(s)' \/ seat'[s].status = "Available"
<1>1. Init => AllPaired
  <2>1. SUFFICES ASSUME Init, NEW s \in Seats PROVE Paired(s)
    BY DEF AllPaired
  <2>2. \A r \in ReservationIds : ~Stored(r)
    BY <2>1 DEF Init, StoreInit, NoReservation, Stored, ReservationStatus
  <2>3. seat[s].status = "Available"
    BY <2>1 DEF Init, StoreInit, FreshSeat
  <2> QED
    BY <2>2, <2>3 DEF Paired, Claims, On
<1>2. AllPaired /\ [A]_vars /\ [ReleasesClean]_vars => AllPaired'
  <2>1. SUFFICES ASSUME AllPaired, [A]_vars, [ReleasesClean]_vars PROVE AllPaired'
    OBVIOUS
  <2>2. CASE UNCHANGED vars
    BY <2>1, <2>2 DEF vars, AllPaired, Paired, Claims, On, Stored
  <2>3. CASE A /\ ReleasesClean
    BY <2>1, <2>3 DEF ReleasesClean, AllPaired
  <2> QED
    BY <2>1, <2>2, <2>3
<1>3. Spec => [][A]_vars
  BY OnlyReleasesUnpair DEF OnlyReleaseUnpairs
<1> QED
  BY <1>1, <1>2, <1>3, PTL DEF Spec

\* The row versions do prevent double bookings among starts and payments, as README.md:89
\* has it: there is none in a behaviour in which the job and the resets leave no claim on a
\* seat they free, whatever else overlaps.
THEOREM DoubleBookingNeedsRelease == Spec /\ [][ReleasesClean]_vars => []NoDoubleBooking
<1>1. IInv /\ AllPaired => NoDoubleBooking
  BY PairedIsSingle DEF IInv, TablesOK
<1>2. Spec => []IInv
  BY InvariantHolds
<1> QED
  BY <1>1, <1>2, CleanReleasesPair, PTL

-------------------------------------------------------------------------------
(* Paid holds.                                                             *)

\* Nothing makes a reservation Pending but its start.
LEMMA PendingSinceStart ==
  ASSUME IInv, Next, NEW r \in ReservationIds,
         reservation[r].status # "None", reservation'[r].status = "Pending"
  PROVE  reservation[r].status = "Pending"
<1>1. CASE UNCHANGED <<seat, reservation>>
  BY <1>1
<1>2. ASSUME NEW p \in Procs, NEW q \in ReservationIds, NEW c \in Clients, StartSave(p, q, c)
      PROVE  reservation'[r] = reservation[r]
  BY <1>2, StartWrites
<1>3. ASSUME NEW p \in Procs, NEW st \in {"Completed", "Expired", "Deleted"}, NEW sst,
             SaveChanges(p, st, sst)
      PROVE  reservation'[r] = reservation[r]
  <2>1. CASE r \in tracked[p]
    BY <1>3, <2>1 DEF SaveChanges, SetReservations, IInv, TypeOK, StoreTypeOK, Reservation
  <2>2. CASE r \notin tracked[p]
    BY <1>3, <2>2 DEF SaveChanges, SetReservations
  <2> QED
    BY <2>1, <2>2
<1>4. ASSUME NEW p \in Procs, PayExpireSave(p) \/ PayCommit(p) \/ ResetCommit(p)
      PROVE  reservation'[r] = reservation[r]
  BY <1>3, <1>4 DEF PayExpireSave, PayCommit, ResetCommit
<1>5. CASE JobSave1
  BY <1>3, <1>5, ServiceAssumption DEF JobSave1
<1>6. CASE Tick
  BY <1>6 DEF Tick, IInv, TypeOK, StoreTypeOK, Reservation
<1> QED
  BY <1>1, <1>2, <1>4, <1>5, <1>6, WritingSteps, ServiceAssumption

\* Where seats and reservations agree, before a step and after it, the version of a seat does
\* not move under a reservation that stays Pending.
LEMMA HeldVersionStays ==
  ASSUME IInv, Next, NEW r \in ReservationIds, NEW s \in Seats,
         Paired(s), Paired(s)',
         reservation[r].status = "Pending", reservation[r].seat = s,
         reservation'[r].status = "Pending", reservation'[r].seat = s
  PROVE  seat'[s] = seat[s]
<1>1. seat[s].status = "Pending" /\ seat'[s].status = "Pending"
  <2>1. r \in Claims(s) /\ r \in Claims(s)'
    BY DEF Claims, On, Stored, ReservationStatus
  <2> QED
    BY <2>1 DEF Paired
<1>2. ASSUME NEW p \in Procs, NEW st, NEW sst \in {"Available", "Reserved"},
             SaveChanges(p, st, sst)
      PROVE  seat'[s] = seat[s]
  BY <1>1, <1>2 DEF SaveChanges, SetSeats
<1>3. ASSUME NEW p \in Procs, NEW q \in ReservationIds, NEW c \in Clients, StartSave(p, q, c)
      PROVE  seat'[s] = seat[s]
  <2>1. PICK x \in Seats : /\ seat[x].status = "Available"
                           /\ \A y \in Seats \ {x} : seat'[y] = seat[y]
    BY <1>3, StartWrites
  <2> QED
    BY <1>1, <2>1
<1>4. ASSUME NEW p \in Procs, PayExpireSave(p) \/ PayCommit(p) \/ ResetCommit(p)
      PROVE  seat'[s] = seat[s]
  BY <1>2, <1>4 DEF PayExpireSave, PayCommit, ResetCommit
<1>5. CASE JobSave1
  BY <1>2, <1>5, ServiceAssumption DEF JobSave1
<1>6. CASE Tick
  BY <1>6 DEF Tick
<1> QED
  BY <1>3, <1>4, <1>5, <1>6, WritingSteps, ServiceAssumption

\* How a payment comes to wait for PayAsync, and from there to its commit.
LEMMA PayProgress ==
  ASSUME TypeOK, NEW p \in Slots, pc'[p] \in {"payAwait", "payCommit"},
         StartRequest(p) \/ PayRequest(p) \/ ResetReadReservations(p) \/ Request(p)
  PROVE  \/ PayReadSeat(p)
         \/ pc[p] = "payAwait" /\ UNCHANGED <<seat, reservation, tracked, seen>>
<1>0. p \in Procs /\ p # Job
  BY ServiceAssumption
<1>1. ASSUME NEW l, Goto(p, l) PROVE l \in {"payAwait", "payCommit"}
  BY <1>0, <1>1 DEF Goto, TypeOK
<1>2. ASSUME NEW a, Reject(p, a) PROVE FALSE
  BY <1>1, <1>2 DEF Reject
<1>3. ~StartRequest(p)
  <2>1. ~StartNotFound(p) /\ \A s \in Seats : ~StartUnavailable(p, s)
    BY <1>2 DEF StartNotFound, StartUnavailable
  <2>2. \A s \in Seats : ~StartLoad(p, s)
    BY <1>1 DEF StartLoad, ReadStep
  <2> QED
    BY <2>1, <2>2 DEF StartRequest
<1>4. ~PayRequest(p)
  <2>1. \A r \in ReservationIds, c \in Clients : ~PayRejected(p, r, c)
    BY <1>2 DEF PayRejected
  <2>2. \A r \in ReservationIds, c \in Clients : ~PayReadReservation(p, r, c)
    BY <1>1 DEF PayReadReservation, ReadStep
  <2> QED
    BY <2>1, <2>2 DEF PayRequest
<1>5. ~ResetReadReservations(p)
  BY <1>1 DEF ResetReadReservations
<1>6. \A r \in ReservationIds, c \in Clients : ~StartSave(p, r, c)
  BY <1>1 DEF StartSave, Committed
<1>7. ~PayExpireSave(p) /\ ~PayCommit(p) /\ ~ResetCommit(p)
  BY <1>1 DEF PayExpireSave, PayCommit, ResetCommit, Committed
<1>8. /\ ~StartConflict(p) /\ ~PaySeatUnavailable(p) /\ ~PayDeclined(p)
      /\ ~PayConflict(p) /\ ~ResetConflict(p)
  BY <1>2
  DEF StartConflict, PaySeatUnavailable, PayDeclined, PayConflict, ResetConflict
<1>9. ~ResetDelete(p) /\ ~ResetReadSeats(p)
  BY <1>1 DEF ResetDelete, ResetReadSeats, ReadStep
<1>10. ~Notify(p) /\ ~Return(p)
  BY <1>0, <1>1 DEF Notify, AfterNotify, Return
<1>11. CASE PaySucceeded(p)
  BY <1>11 DEF PaySucceeded
<1> QED
  BY <1>3, <1>4, <1>5, <1>6, <1>7, <1>8, <1>9, <1>10, <1>11 DEF Request

\* A payment that waits for PayAsync, or has its answer, has the version of the seat that
\* its reservation still holds.
HoldFits(p) ==
  pc[p] \in {"payAwait", "payCommit"} =>
    \A r \in tracked[p] : reservation[r].status = "Pending" =>
      seen[p][reservation[r].seat] = seat[reservation[r].seat].rowVersion

\* A payment that does not move loses no fit to what the others do.
LEMMA FitSurvives ==
  ASSUME IInv, Next, AllPaired, AllPaired', NEW p \in Procs, HoldFits(p),
         pc'[p] \in {"payAwait", "payCommit"} => pc[p] \in {"payAwait", "payCommit"},
         tracked'[p] = tracked[p], seen'[p] = seen[p]
  PROVE  HoldFits(p)'
<1>1. SUFFICES ASSUME pc[p] \in {"payAwait", "payCommit"},
                      NEW r \in tracked[p], reservation'[r].status = "Pending"
               PROVE  seen[p][reservation'[r].seat] = seat'[reservation'[r].seat].rowVersion
  BY DEF HoldFits
<1>2. r \in ReservationIds /\ reservation[r].status # "None"
  BY DEF IInv, TypeOK, StoreTypeOK, HandlerOK, TracksRows
<1>3. reservation[r].status = "Pending"
  BY <1>1, <1>2, PendingSinceStart
<1>4. PICK s \in Seats : reservation[r].seat = s
  BY <1>2 DEF IInv, TablesOK, RowsHaveSeats
<1>5. reservation'[r].seat = s
  BY <1>2, <1>4, NextInv DEF Evolves, RowEvolves
<1>6. seat'[s] = seat[s]
  BY <1>1, <1>2, <1>3, <1>4, <1>5, HeldVersionStays DEF AllPaired
<1> QED
  BY <1>1, <1>3, <1>4, <1>5, <1>6 DEF HoldFits

\* PayReadSeat reads the version, the steps after it keep it.
LEMMA OwnFit ==
  ASSUME IInv, Next, AllPaired, AllPaired', NEW p \in Slots, HoldFits(p),
         StartRequest(p) \/ PayRequest(p) \/ ResetReadReservations(p) \/ Request(p)
  PROVE  HoldFits(p)'
<1>0. p \in Procs /\ TypeOK
  BY ServiceAssumption DEF IInv
<1>1. CASE pc'[p] \notin {"payAwait", "payCommit"}
  BY <1>1 DEF HoldFits
<1>2. CASE PayReadSeat(p)
  <2>1. /\ UNCHANGED <<seat, reservation, tracked>>
        /\ \A s \in SeatsOf(tracked[p]) \intersect Seats : seen'[p][s] = seat[s].rowVersion
    BY <1>0, <1>2 DEF PayReadSeat, ReadStep, LoadSeats, TypeOK, StoreTypeOK
  <2>2. \A r \in tracked[p] : reservation[r].seat \in SeatsOf(tracked[p]) \intersect Seats
    BY <1>0 DEF SeatsOf, IInv, TypeOK, StoreTypeOK, HandlerOK, TracksRows, TablesOK, RowsHaveSeats
  <2> QED
    BY <2>1, <2>2 DEF HoldFits
<1>3. CASE pc[p] = "payAwait" /\ UNCHANGED <<seat, reservation, tracked, seen>>
  BY <1>0, <1>3, FitSurvives
<1> QED
  BY <1>0, <1>1, <1>2, <1>3, PayProgress

\* While seats and reservations agree, every payment keeps its fit.
LEMMA FitKept ==
  ASSUME IInv, [Next]_vars, AllPaired, AllPaired', \A p \in Slots : HoldFits(p)
  PROVE  \A p \in Slots : HoldFits(p)'
<1>0. IInv' /\ TypeOK' /\ \A p \in Slots : p \in Procs /\ p # Job
  BY NextInv, ServiceAssumption DEF IInv
<1>1. SUFFICES ASSUME NEW p \in Slots PROVE HoldFits(p)'
  OBVIOUS
<1>2. ASSUME Next, NEW q \in Procs \ {p}, OthersStay(q) PROVE HoldFits(p)'
  BY <1>0, <1>2, FitSurvives DEF OthersStay
<1>3. ASSUME Next, NEW q \in Slots,
             StartRequest(q) \/ PayRequest(q) \/ ResetReadReservations(q) \/ Request(q)
      PROVE  HoldFits(p)'
  <2>1. CASE q = p
    BY <1>3, <2>1, OwnFit
  <2>2. CASE q # p
    BY <1>0, <1>2, <1>3, <2>2, RequestGood DEF GoodStep
  <2> QED
    BY <2>1, <2>2
<1>4. CASE Next /\ Background
  BY <1>0, <1>2, <1>4, BackgroundGood, ServiceAssumption DEF GoodStep
<1>5. ASSUME Next, NEW q \in Procs, NotifyFails(q) \/ Abort(q) PROVE HoldFits(p)'
  <2>1. CASE q = p
    BY <1>0, <1>5, <2>1 DEF NotifyFails, AfterNotify, Abort, Goto, HoldFits, IInv, TypeOK
  <2>2. CASE q # p
    <3>1. GoodStep(q)
      BY <1>0, <1>5, AfterNotifyGood, AbortGood DEF NotifyFails
    <3> QED
      BY <1>2, <1>5, <2>2, <3>1 DEF GoodStep
  <2> QED
    BY <2>1, <2>2
<1>6. CASE Crash
  BY <1>0, <1>6 DEF Crash, HoldFits
<1>7. CASE Next /\ Tick
  BY <1>0, <1>7, FitSurvives DEF Tick
<1>8. CASE UNCHANGED vars
  BY <1>8 DEF vars, HoldFits
<1> QED
  BY <1>3, <1>4, <1>5, <1>6, <1>7, <1>8 DEF Next

\* A payment that took the client's money while his reservation stood will book the seat.
PaidHoldIsBookable ==
  \A p \in Slots :
    pc[p] = "payCommit" /\ (\A r \in tracked[p] : reservation[r].status = "Pending") =>
      CanSave(p)

\* Of a payment whose money PayAsync has taken the save cannot fail as long as its reservation
\* is Pending, in every behaviour in which the job and the resets leave no claim on a seat
\* they free: it is the stale release, not the start or the payment of somebody else, that
\* turns a paid hold into README.md:89's conflict (ReservationService.cs:186-199).
THEOREM PaidHoldsAreBookable == Spec /\ [][ReleasesClean]_vars => []PaidHoldIsBookable
<1> DEFINE AllFit == \A p \in Slots : HoldFits(p)
<1>1. Init => AllFit
  BY ServiceAssumption DEF Init, HoldFits
<1>2. IInv /\ AllPaired /\ AllPaired' /\ AllFit /\ [Next]_vars => AllFit'
  BY FitKept
<1>3. IInv /\ AllFit => PaidHoldIsBookable
  <2>1. SUFFICES ASSUME IInv, AllFit, NEW p \in Slots, pc[p] = "payCommit",
                        \A r \in tracked[p] : reservation[r].status = "Pending"
                 PROVE  CanSave(p)
    BY DEF PaidHoldIsBookable
  <2>2. RowsExist(p)
    BY <2>1 DEF RowsExist, Stored, ReservationStatus
  <2>3. Loaded(p) = SeatsOf(tracked[p])
    BY <2>1, ServiceAssumption DEF IInv, HandlerOK, LoadedSoFar, SeatSaveLabels
  <2>4. RowVersionsMatch(p)
    BY <2>1, <2>3 DEF RowVersionsMatch, SeatsOf, HoldFits
  <2> QED
    BY <2>2, <2>4 DEF CanSave
<1>4. Spec /\ [][ReleasesClean]_vars => []AllPaired
  BY CleanReleasesPair
<1>5. Spec => []IInv
  BY InvariantHolds
<1> QED
  BY <1>1, <1>2, <1>3, <1>4, <1>5, PTL DEF Spec

================================================================================
