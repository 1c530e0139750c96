----------------------- MODULE ReservationSafetyProofs -----------------------
(***************************************************************************)
(* IInv is inductive.  Every step is a step of one handler p, a crash or a *)
(* tick.  A step of p is GoodStep(p): the tables evolve and stay sound, p  *)
(* goes from one state of knowledge to the next, and the others, whose own *)
(* variables it leaves alone, still know what they knew.                   *)
(***************************************************************************)
EXTENDS ReservationTableProofs

OthersStay(p) ==
  \A q \in Procs \ {p} : /\ pc'[q] = pc[q]
                         /\ tracked'[q] = tracked[q]
                         /\ seen'[q] = seen[q]

GoodStep(p) ==
  /\ Evolves
  /\ TablesOK'
  /\ HandlerOK(p)'
  /\ OthersStay(p)

-------------------------------------------------------------------------------
(* Ways to show that a step is good.                                       *)

\* A good step preserves the invariant.
LEMMA GoodStepKeeps ==
  ASSUME IInv, TypeOK', NEW p \in Procs, GoodStep(p)
  PROVE  IInv'
<1>1. ASSUME NEW q \in Procs PROVE HandlerOK(q)'
  <2>1. CASE q = p
    BY <2>1 DEF GoodStep
  <2>2. CASE q # p
    BY <2>2, KnowledgeSurvives DEF GoodStep, OthersStay, IInv
  <2> QED
    BY <2>1, <2>2
<1> QED
  BY <1>1 DEF IInv, GoodStep

\* A step that writes neither table is good if the handler that takes it ends well.
LEMMA QuietStep ==
  ASSUME IInv, NEW p \in Procs, UNCHANGED <<seat, reservation>>, charged \subseteq charged',
         OthersStay(p), HandlerOK(p)'
  PROVE  GoodStep(p)
BY NoChangeEvolves, NoChangeTables DEF GoodStep, IInv

\* Where a handler needs nothing but the rows it tracks.
LEMMA NothingLeft ==
  ASSUME IInv, TypeOK', Evolves, NEW p \in Procs,
         pc'[p] \in {"answer", "notify", "resetDelete", "resetReadSeats"},
         tracked'[p] = tracked[p], seen'[p] = seen[p]
  PROVE  HandlerOK(p)'
<1>1. SeenNotAhead(p)' /\ TracksRows(p)'
  BY ReadsSurvive DEF IInv
<1>2. LoadedSoFar(p)'
  BY DEF LoadedSoFar, SeatSaveLabels, PayLabels, JobLabels
<1>3. StartFresh(p)' /\ PayFresh(p)' /\ OnlyOverdue(p)' /\ PaidFirst(p)' /\ SavedOnce(p)'
  BY DEF StartFresh, PayFresh, OnlyOverdue, JobLabels, PaidFirst, SavedOnce
<1> QED
  BY <1>1, <1>2, <1>3 DEF HandlerOK

\* A handler that has ended, with a new DbContext for the next one.
LEMMA Ended ==
  ASSUME TypeOK', NEW p \in Procs, pc'[p] = "idle", tracked'[p] = {}, seen'[p] = NothingSeen
  PROVE  HandlerOK(p)'
<1>1. SeenNotAhead(p)'
  BY DEF SeenNotAhead, NothingSeen, NotLoaded, TypeOK, StoreTypeOK, Seat
<1>2. TracksRows(p)'
  BY DEF TracksRows
<1>3. LoadedSoFar(p)'
  BY DEF LoadedSoFar, Loaded, NothingSeen, SeatSaveLabels, PayLabels, JobLabels
<1>4. StartFresh(p)' /\ PayFresh(p)' /\ OnlyOverdue(p)' /\ PaidFirst(p)' /\ SavedOnce(p)'
  BY DEF StartFresh, PayFresh, OnlyOverdue, JobLabels, PaidFirst, SavedOnce
<1> QED
  BY <1>1, <1>2, <1>3, <1>4 DEF HandlerOK

\* What a DbContext knows of the seats after a query.
LEMMA SeatsLoaded ==
  ASSUME IInv, NEW p \in Procs, NEW ss \in SUBSET Seats, LoadSeats(p, ss), seat' = seat
  PROVE  /\ SeenNotAhead(p)'
         /\ Loaded(p)' = Loaded(p) \union ss
         /\ \A s \in ss : seen'[p][s] = seat[s].rowVersion
<1>1. ASSUME NEW s \in Seats
      PROVE  seen'[p][s] = IF s \in ss THEN seat[s].rowVersion ELSE seen[p][s]
  BY DEF LoadSeats, IInv, TypeOK, StoreTypeOK
<1>2. ASSUME NEW s \in Seats
      PROVE  seat[s].rowVersion \in Nat /\ seat[s].rowVersion >= 1
  BY DEF IInv, TypeOK, StoreTypeOK, Seat, TablesOK, VersionsStarted
<1>3. SeenNotAhead(p)'
  BY <1>1, <1>2 DEF IInv, HandlerOK, SeenNotAhead
<1>4. Loaded(p)' = Loaded(p) \union ss
  BY <1>1, <1>2 DEF Loaded, NotLoaded
<1> QED
  BY <1>1, <1>3, <1>4

\* The seats of the rows a handler tracks are seats.
LEMMA TrackedSeats ==
  ASSUME IInv, NEW p \in Procs
  PROVE  /\ SeatsOf(tracked[p]) \in SUBSET Seats
         /\ \A r \in tracked[p] : r \in ReservationIds /\ reservation[r].seat \in Seats
BY DEF IInv, TypeOK, StoreTypeOK, TablesOK, RowsHaveSeats, HandlerOK, TracksRows, SeatsOf

-------------------------------------------------------------------------------
(* The steps that refuse or only read.                                     *)

\* A request that is refused.
LEMMA RejectGood ==
  ASSUME IInv, TypeOK', NEW p \in Procs, NEW a, Reject(p, a)
  PROVE  GoodStep(p)
<1>1. /\ pc'[p] = "answer"
      /\ tracked'[p] = tracked[p] /\ seen'[p] = seen[p]
      /\ OthersStay(p)
  BY DEF Reject, Goto, OthersStay, IInv, TypeOK, StoreTypeOK
<1>2. UNCHANGED <<seat, reservation>> /\ charged \subseteq charged'
  BY DEF Reject
<1>3. HandlerOK(p)'
  BY <1>1, <1>2, NoChangeEvolves, NothingLeft DEF IInv
<1> QED
  BY <1>1, <1>2, <1>3, QuietStep

\* StartReservationAsync loads the seat.
LEMMA StartLoadGood ==
  ASSUME IInv, TypeOK', NEW p \in Procs, NEW s \in Seats, StartLoad(p, s)
  PROVE  GoodStep(p)
<1>1. /\ pc[p] = "idle" /\ pc'[p] = "startSave"
      /\ tracked' = tracked
      /\ OthersStay(p)
  BY DEF StartLoad, ReadStep, Goto, LoadSeats, OthersStay, IInv, TypeOK, StoreTypeOK
<1>2. /\ UNCHANGED <<seat, reservation>> /\ charged \subseteq charged'
      /\ seat[s].status = "Available"
      /\ LoadSeats(p, {s})
  BY DEF StartLoad, ReadStep, CanMarkAsPending
<1>3. Loaded(p) = {}
  BY <1>1 DEF IInv, HandlerOK, LoadedSoFar
<1>4. SeenNotAhead(p)' /\ Loaded(p)' = {s}
  BY <1>2, <1>3, SeatsLoaded
<1>5. TracksRows(p)'
  BY <1>1, <1>2 DEF IInv, HandlerOK, TracksRows
<1>6. StartFresh(p)'
  BY <1>2, <1>4 DEF StartFresh
<1>7. /\ LoadedSoFar(p)' /\ PayFresh(p)' /\ OnlyOverdue(p)' /\ PaidFirst(p)' /\ SavedOnce(p)'
  BY <1>1
  DEF LoadedSoFar, SeatSaveLabels, PayLabels, JobLabels, PayFresh, OnlyOverdue, PaidFirst,
      SavedOnce
<1>8. HandlerOK(p)'
  BY <1>4, <1>5, <1>6, <1>7 DEF HandlerOK
<1> QED
  BY <1>1, <1>2, <1>8, QuietStep

\* ProcessPaymentAsync loads the reservation.
LEMMA PayReadReservationGood ==
  ASSUME IInv, TypeOK', NEW p \in Procs, NEW r \in ReservationIds, NEW c \in Clients,
         PayReadReservation(p, r, c)
  PROVE  GoodStep(p)
<1>1. /\ pc[p] = "idle" /\ pc'[p] = "payReadSeat"
      /\ tracked'[p] = {r}
      /\ seen' = seen
      /\ OthersStay(p)
  BY DEF PayReadReservation, ReadStep, Goto, LoadReservations, OthersStay,
         IInv, TypeOK, StoreTypeOK
<1>2. /\ UNCHANGED <<seat, reservation>> /\ charged \subseteq charged'
      /\ reservation[r].status = "Pending"
  BY DEF PayReadReservation, ReadStep
<1>3. Loaded(p)' = {}
  BY <1>1 DEF IInv, HandlerOK, LoadedSoFar, Loaded
<1>4. SeenNotAhead(p)'
  BY <1>1, <1>2 DEF IInv, HandlerOK, SeenNotAhead
<1>5. TracksRows(p)'
  BY <1>1, <1>2 DEF TracksRows
<1>6. LoadedSoFar(p)'
  BY <1>1, <1>3 DEF LoadedSoFar, SeatSaveLabels, JobLabels
<1>7. StartFresh(p)' /\ PayFresh(p)' /\ OnlyOverdue(p)' /\ PaidFirst(p)' /\ SavedOnce(p)'
  BY <1>1 DEF StartFresh, PayFresh, OnlyOverdue, JobLabels, PaidFirst, SavedOnce
<1>8. HandlerOK(p)'
  BY <1>4, <1>5, <1>6, <1>7 DEF HandlerOK
<1> QED
  BY <1>1, <1>2, <1>8, QuietStep

\* ProcessPaymentAsync loads the seat.  The reservation has not expired if its window is
\* still open: nothing else is known of its row, which may have changed since it was read.
LEMMA PayReadSeatGood ==
  ASSUME IInv, TypeOK', NEW p \in Procs, PayReadSeat(p)
  PROVE  GoodStep(p)
<1> DEFINE late == \E r \in tracked[p] : TimedOut(reservation[r])
<1>1. /\ pc[p] = "payReadSeat"
      /\ pc'[p] = IF late THEN "payExpireSave" ELSE "payAwait"
      /\ tracked' = tracked
      /\ OthersStay(p)
  BY DEF PayReadSeat, ReadStep, Goto, LoadSeats, OthersStay, IInv, TypeOK, StoreTypeOK
<1>2. /\ UNCHANGED <<seat, reservation>> /\ charged \subseteq charged'
      /\ LoadSeats(p, SeatsOf(tracked[p]))
      /\ \A s \in SeatsOf(tracked[p]) : seat[s].status = "Pending"
  BY DEF PayReadSeat, ReadStep, CanReserve
<1>3. PICK r \in ReservationIds : tracked[p] = {r}
  BY <1>1 DEF IInv, HandlerOK, LoadedSoFar, PayLabels
<1>4. SeenNotAhead(p)' /\ Loaded(p)' = SeatsOf(tracked[p])
  <2>1. Loaded(p) = {}
    BY <1>1 DEF IInv, HandlerOK, LoadedSoFar
  <2> QED
    BY <1>2, <2>1, SeatsLoaded, TrackedSeats
<1>5. TracksRows(p)'
  BY <1>1, <1>2 DEF IInv, HandlerOK, TracksRows
<1>6. LoadedSoFar(p)'
  BY <1>1, <1>2, <1>3, <1>4 DEF LoadedSoFar, SeatSaveLabels, JobLabels, SeatsOf
<1>7. PayFresh(p)'
  <2>1. ASSUME ~late PROVE reservation[r].status # "Expired"
    BY <1>3, <2>1 DEF IInv, TablesOK, ExpiredInTime, TimedOut
  <2> QED
    BY <1>1, <1>2, <1>3, <2>1 DEF PayFresh, SeatsOf
<1>8. OnlyOverdue(p)'
  BY <1>1, <1>2, <1>3 DEF OnlyOverdue, JobLabels, TimedOut
<1>9. StartFresh(p)' /\ PaidFirst(p)' /\ SavedOnce(p)'
  BY <1>1 DEF StartFresh, PaidFirst, SavedOnce
<1>10. HandlerOK(p)'
  BY <1>4, <1>5, <1>6, <1>7, <1>8, <1>9 DEF HandlerOK
<1> QED
  BY <1>1, <1>2, <1>10, QuietStep

\* PayAsync succeeds.
LEMMA PaySucceededGood ==
  ASSUME IInv, TypeOK', NEW p \in Procs, PaySucceeded(p)
  PROVE  GoodStep(p)
<1>1. /\ pc[p] = "payAwait" /\ pc'[p] = "payCommit"
      /\ OthersStay(p)
  BY DEF PaySucceeded, Goto, OthersStay, IInv, TypeOK, StoreTypeOK
<1>2. /\ UNCHANGED <<seat, reservation, tracked, seen>>
      /\ charged' = charged \union tracked[p]
  BY DEF PaySucceeded
<1>3. HandlerOK(p)
  BY DEF IInv
<1>4. SeenNotAhead(p)' /\ TracksRows(p)'
  BY <1>2, <1>3 DEF HandlerOK, SeenNotAhead, TracksRows
<1>5. LoadedSoFar(p)'
  BY <1>1, <1>2, <1>3
  DEF HandlerOK, LoadedSoFar, SeatSaveLabels, PayLabels, JobLabels, Loaded, SeatsOf
<1>6. PayFresh(p)'
  BY <1>1, <1>2, <1>3 DEF HandlerOK, PayFresh, RowVersionsMatch, Loaded
<1>7. PaidFirst(p)'
  BY <1>2 DEF PaidFirst
<1>8. StartFresh(p)' /\ OnlyOverdue(p)' /\ SavedOnce(p)'
  BY <1>1 DEF StartFresh, OnlyOverdue, JobLabels, SavedOnce
<1>9. HandlerOK(p)'
  BY <1>4, <1>5, <1>6, <1>7, <1>8 DEF HandlerOK
<1> QED
  BY <1>1, <1>2, <1>9, QuietStep

\* ResetReservationsAsync loads every reservation.
LEMMA ResetReadReservationsGood ==
  ASSUME IInv, TypeOK', NEW p \in Procs, ResetReadReservations(p)
  PROVE  GoodStep(p)
<1>1. /\ pc'[p] = "resetDelete"
      /\ tracked'[p] = {r \in ReservationIds : Stored(r)}
      /\ seen' = seen
      /\ OthersStay(p)
  BY DEF ResetReadReservations, Goto, LoadReservations, OthersStay, IInv, TypeOK, StoreTypeOK
<1>2. UNCHANGED <<seat, reservation>> /\ charged \subseteq charged'
  BY DEF ResetReadReservations
<1>3. SeenNotAhead(p)'
  BY <1>1, <1>2 DEF IInv, HandlerOK, SeenNotAhead
<1>4. TracksRows(p)'
  BY <1>1, <1>2 DEF TracksRows, Stored, ReservationStatus
<1>5. LoadedSoFar(p)'
  BY <1>1 DEF LoadedSoFar, SeatSaveLabels, PayLabels, JobLabels
<1>6. StartFresh(p)' /\ PayFresh(p)' /\ OnlyOverdue(p)' /\ PaidFirst(p)' /\ SavedOnce(p)'
  BY <1>1 DEF StartFresh, PayFresh, OnlyOverdue, JobLabels, PaidFirst, SavedOnce
<1>7. HandlerOK(p)'
  BY <1>3, <1>4, <1>5, <1>6 DEF HandlerOK
<1> QED
  BY <1>1, <1>2, <1>7, QuietStep

\* ResetReservationsAsync deletes the rows, to be seen by the others at its COMMIT.
LEMMA ResetDeleteGood ==
  ASSUME IInv, TypeOK', NEW p \in Procs, ResetDelete(p)
  PROVE  GoodStep(p)
<1>1. /\ pc'[p] = "resetReadSeats"
      /\ tracked'[p] = tracked[p] /\ seen'[p] = seen[p]
      /\ OthersStay(p)
  BY DEF ResetDelete, ReadStep, Goto, OthersStay, IInv, TypeOK, StoreTypeOK
<1>2. UNCHANGED <<seat, reservation>> /\ charged \subseteq charged'
  BY DEF ResetDelete, ReadStep
<1>3. HandlerOK(p)'
  BY <1>1, <1>2, NoChangeEvolves, NothingLeft DEF IInv
<1> QED
  BY <1>1, <1>2, <1>3, QuietStep

\* ResetReservationsAsync loads every seat.
LEMMA ResetReadSeatsGood ==
  ASSUME IInv, TypeOK', NEW p \in Procs, ResetReadSeats(p)
  PROVE  GoodStep(p)
<1>1. /\ pc'[p] = "resetCommit"
      /\ tracked' = tracked
      /\ OthersStay(p)
  BY DEF ResetReadSeats, ReadStep, Goto, LoadSeats, OthersStay, IInv, TypeOK, StoreTypeOK
<1>2. /\ UNCHANGED <<seat, reservation>> /\ charged \subseteq charged'
      /\ LoadSeats(p, Seats)
  BY DEF ResetReadSeats, ReadStep
<1>3. SeenNotAhead(p)' /\ Loaded(p)' = Seats
  BY <1>2, SeatsLoaded DEF Loaded
<1>4. TracksRows(p)'
  BY <1>1, <1>2 DEF IInv, HandlerOK, TracksRows
<1>5. LoadedSoFar(p)'
  BY <1>1, <1>3 DEF LoadedSoFar, SeatSaveLabels, PayLabels, JobLabels
<1>6. StartFresh(p)' /\ PayFresh(p)' /\ OnlyOverdue(p)' /\ PaidFirst(p)' /\ SavedOnce(p)'
  BY <1>1 DEF StartFresh, PayFresh, OnlyOverdue, JobLabels, PaidFirst, SavedOnce
<1>7. HandlerOK(p)'
  BY <1>3, <1>4, <1>5, <1>6 DEF HandlerOK
<1> QED
  BY <1>1, <1>2, <1>7, QuietStep

-------------------------------------------------------------------------------
(* The steps that write.                                                   *)

\* A handler that has committed.
LEMMA CommittedGood ==
  ASSUME IInv, TypeOK', NEW p \in Procs, NEW st, NEW a, Committed(p, st, a),
         UNCHANGED <<tracked, seen>>, Evolves, TablesOK'
  PROVE  GoodStep(p)
<1>1. pc'[p] = "notify" /\ OthersStay(p)
  BY DEF Committed, Goto, OthersStay, IInv, TypeOK, StoreTypeOK
<1>2. HandlerOK(p)'
  BY <1>1, NothingLeft
<1> QED
  BY <1>1, <1>2 DEF GoodStep

\* StartReservationAsync saves.
LEMMA StartSaveGood ==
  ASSUME IInv, TypeOK', NEW p \in Procs, NEW r \in ReservationIds, NEW c \in Clients,
         StartSave(p, r, c)
  PROVE  GoodStep(p)
<1>1. Evolves /\ TablesOK'
  BY StartTables
<1>2. /\ pc'[p] = "notify"
      /\ tracked'[p] = {r}
      /\ seen' = seen
      /\ OthersStay(p)
  BY DEF StartSave, Committed, Goto, LoadReservations, OthersStay, IInv, TypeOK, StoreTypeOK
<1>3. reservation'[r].status = "Pending"
  <2>1. PICK s \in Loaded(p) : reservation' = [reservation EXCEPT ![r] = NewReservation(s, c)]
    BY DEF StartSave
  <2> QED
    BY <2>1 DEF NewReservation, IInv, TypeOK, StoreTypeOK
<1>4. SeenNotAhead(p)'
  <2>1. SUFFICES ASSUME NEW s \in Seats PROVE seen[p][s] <= seat'[s].rowVersion
    BY <1>2 DEF SeenNotAhead
  <2>2. seen[p][s] <= seat[s].rowVersion
    BY DEF IInv, HandlerOK, SeenNotAhead
  <2>3. seat'[s] = seat[s] \/ seat'[s].rowVersion > seat[s].rowVersion
    BY <1>1 DEF Evolves, SeatsEvolve
  <2>4. seen[p][s] \in Nat /\ seat[s].rowVersion \in Nat /\ seat'[s].rowVersion \in Nat
    BY DEF IInv, TypeOK, StoreTypeOK, Seat
  <2> QED
    BY <2>2, <2>3, <2>4
<1>5. TracksRows(p)'
  BY <1>2, <1>3 DEF TracksRows
<1>6. LoadedSoFar(p)'
  BY <1>2 DEF LoadedSoFar, SeatSaveLabels, PayLabels, JobLabels
<1>7. StartFresh(p)' /\ PayFresh(p)' /\ OnlyOverdue(p)' /\ PaidFirst(p)' /\ SavedOnce(p)'
  BY <1>2 DEF StartFresh, PayFresh, OnlyOverdue, JobLabels, PaidFirst, SavedOnce
<1>8. HandlerOK(p)'
  BY <1>4, <1>5, <1>6, <1>7 DEF HandlerOK
<1> QED
  BY <1>1, <1>2, <1>8 DEF GoodStep

\* A handler about to save has loaded the seat of every row it tracks.
LEMMA SeatsAtHand ==
  ASSUME IInv, NEW p \in Procs, pc[p] \in SeatSaveLabels \union {"resetCommit"}
  PROVE  \A r \in tracked[p] : reservation[r].seat \in Loaded(p)
<1>1. CASE pc[p] \in SeatSaveLabels
  BY <1>1 DEF IInv, HandlerOK, LoadedSoFar, SeatsOf
<1>2. CASE pc[p] = "resetCommit"
  BY <1>2, TrackedSeats DEF IInv, HandlerOK, LoadedSoFar
<1> QED
  BY <1>1, <1>2

\* ProcessPaymentAsync releases the seat of a reservation that has run out.
LEMMA PayExpireSaveGood ==
  ASSUME IInv, TypeOK', NEW p \in Procs, PayExpireSave(p)
  PROVE  GoodStep(p)
<1>1. /\ SaveChanges(p, "Expired", "Available")
      /\ charged' = charged
      /\ pc[p] = "payExpireSave"
  BY DEF PayExpireSave, Committed
<1>2. /\ \A r \in tracked[p] : reservation[r].seat \in Loaded(p)
      /\ \A r \in tracked[p] : reservation[r].age >= Timeout
  BY <1>1, SeatsAtHand DEF SeatSaveLabels, IInv, HandlerOK, OnlyOverdue
<1>3. Evolves
  BY <1>1, <1>2, SaveEvolves DEF IInv, SeatStatus
<1>4. TablesOK'
  BY <1>1, <1>2, <1>3, SaveTables DEF IInv
<1> QED
  BY <1>3, <1>4, CommittedGood DEF PayExpireSave

\* ProcessPaymentAsync completes the reservation.
LEMMA PayCommitGood ==
  ASSUME IInv, TypeOK', NEW p \in Procs, PayCommit(p)
  PROVE  GoodStep(p)
<1>1. /\ SaveChanges(p, "Completed", "Reserved")
      /\ charged' = charged
      /\ pc[p] = "payCommit"
  BY DEF PayCommit, Committed
<1>2. /\ \A r \in tracked[p] : reservation[r].seat \in Loaded(p)
      /\ Loaded(p) = SeatsOf(tracked[p])
      /\ tracked[p] \subseteq charged
  BY <1>1, SeatsAtHand DEF SeatSaveLabels, IInv, HandlerOK, LoadedSoFar, PaidFirst
<1>3. \A r \in tracked[p] : reservation[r].status # "Expired"
  BY <1>1 DEF SaveChanges, CanSave, IInv, HandlerOK, PayFresh
<1>4. Evolves
  BY <1>1, <1>3, SaveEvolves DEF IInv, SeatStatus
<1>5. TablesOK'
  BY <1>1, <1>2, <1>4, SaveTables DEF IInv
<1> QED
  BY <1>4, <1>5, CommittedGood DEF PayCommit

\* ResetReservationsAsync commits.
LEMMA ResetCommitGood ==
  ASSUME IInv, TypeOK', NEW p \in Procs, ResetCommit(p)
  PROVE  GoodStep(p)
<1>1. /\ SaveChanges(p, "Deleted", "Available")
      /\ charged' = charged
      /\ pc[p] = "resetCommit"
  BY DEF ResetCommit, Committed
<1>2. \A r \in tracked[p] : reservation[r].seat \in Loaded(p)
  BY <1>1, SeatsAtHand
<1>3. Evolves
  BY <1>1, SaveEvolves DEF IInv, SeatStatus
<1>4. TablesOK'
  BY <1>1, <1>2, <1>3, SaveTables DEF IInv
<1> QED
  BY <1>3, <1>4, CommittedGood DEF ResetCommit

-------------------------------------------------------------------------------
(* The job.                                                                *)

\* The job goes back to sleep.
LEMMA JobSleepsGood ==
  ASSUME IInv, TypeOK', JobSleeps, UNCHANGED <<seat, reservation, charged>>
  PROVE  GoodStep(Job)
<1>1. Job \in Procs
  BY ServiceAssumption
<1>2. /\ pc'[Job] = "idle" /\ tracked'[Job] = {} /\ seen'[Job] = NothingSeen
      /\ OthersStay(Job)
  BY <1>1 DEF JobSleeps, Goto, DisposeContext, OthersStay, IInv, TypeOK, StoreTypeOK
<1>3. HandlerOK(Job)'
  BY <1>1, <1>2, Ended
<1> QED
  BY <1>1, <1>2, <1>3, QuietStep

\* The job reads the clock.
LEMMA JobBeginGood ==
  ASSUME IInv, TypeOK', JobBegin
  PROVE  GoodStep(Job)
<1>0. Job \in Procs
  BY ServiceAssumption
<1>1. /\ pc[Job] = "idle" /\ pc'[Job] = "jobReadReservations"
      /\ tracked'[Job] = {r \in ReservationIds : Stored(r) /\ TimedOut(reservation[r])}
      /\ seen' = seen
      /\ OthersStay(Job)
  BY <1>0 DEF JobBegin, ReadStep, Goto, LoadReservations, OthersStay, IInv, TypeOK, StoreTypeOK
<1>2. UNCHANGED <<seat, reservation>> /\ charged \subseteq charged'
  BY DEF JobBegin, ReadStep
<1>3. Loaded(Job)' = {}
  BY <1>0, <1>1 DEF IInv, HandlerOK, LoadedSoFar, Loaded
<1>4. SeenNotAhead(Job)'
  BY <1>0, <1>1, <1>2 DEF IInv, HandlerOK, SeenNotAhead
<1>5. TracksRows(Job)'
  BY <1>1, <1>2 DEF TracksRows, Stored, ReservationStatus
<1>6. LoadedSoFar(Job)'
  BY <1>1, <1>3 DEF LoadedSoFar, SeatSaveLabels, PayLabels
<1>7. OnlyOverdue(Job)'
  BY <1>1, <1>2 DEF OnlyOverdue, TimedOut
<1>8. StartFresh(Job)' /\ PayFresh(Job)' /\ PaidFirst(Job)' /\ SavedOnce(Job)'
  BY <1>1 DEF StartFresh, PayFresh, PaidFirst, SavedOnce
<1>9. HandlerOK(Job)'
  BY <1>4, <1>5, <1>6, <1>7, <1>8 DEF HandlerOK
<1> QED
  BY <1>0, <1>1, <1>2, <1>9, QuietStep

\* The job reads the overdue rows that are still Pending.
LEMMA JobReadReservationsGood ==
  ASSUME IInv, TypeOK', JobReadReservations
  PROVE  GoodStep(Job)
<1> DEFINE batch == {r \in tracked[Job] : reservation[r].status = "Pending"}
<1>0. Job \in Procs
  BY ServiceAssumption
<1>1. /\ pc[Job] = "jobReadReservations"
      /\ pc'[Job] \in {"idle", "jobReadSeats"}
      /\ tracked'[Job] = batch
      /\ seen' = seen
      /\ OthersStay(Job)
  BY <1>0
  DEF JobReadReservations, ReadStep, Goto, LoadReservations, OthersStay,
      IInv, TypeOK, StoreTypeOK
<1>2. UNCHANGED <<seat, reservation>> /\ charged \subseteq charged'
  BY DEF JobReadReservations, ReadStep
<1>3. Loaded(Job)' = {}
  BY <1>0, <1>1 DEF IInv, HandlerOK, LoadedSoFar, Loaded
<1>4. SeenNotAhead(Job)'
  BY <1>0, <1>1, <1>2 DEF IInv, HandlerOK, SeenNotAhead
<1>5. TracksRows(Job)'
  BY <1>1, <1>2 DEF TracksRows
<1>6. LoadedSoFar(Job)'
  BY <1>1, <1>3 DEF LoadedSoFar, SeatSaveLabels, PayLabels
<1>7. OnlyOverdue(Job)'
  BY <1>0, <1>1, <1>2 DEF IInv, HandlerOK, OnlyOverdue, JobLabels
<1>8. StartFresh(Job)' /\ PayFresh(Job)' /\ PaidFirst(Job)' /\ SavedOnce(Job)'
  BY <1>1 DEF StartFresh, PayFresh, PaidFirst, SavedOnce
<1>9. HandlerOK(Job)'
  BY <1>4, <1>5, <1>6, <1>7, <1>8 DEF HandlerOK
<1> QED
  BY <1>0, <1>1, <1>2, <1>9, QuietStep

\* The job loads the seats of its batch.
LEMMA JobReadSeatsGood ==
  ASSUME IInv, TypeOK', JobReadSeats
  PROVE  GoodStep(Job)
<1>0. Job \in Procs
  BY ServiceAssumption
<1>1. /\ pc[Job] = "jobReadSeats" /\ pc'[Job] = "jobSave1"
      /\ tracked' = tracked
      /\ OthersStay(Job)
  BY <1>0
  DEF JobReadSeats, ReadStep, Goto, LoadSeats, OthersStay, IInv, TypeOK, StoreTypeOK
<1>2. /\ UNCHANGED <<seat, reservation>> /\ charged \subseteq charged'
      /\ LoadSeats(Job, SeatsOf(tracked[Job]))
  BY DEF JobReadSeats, ReadStep
<1>3. SeenNotAhead(Job)' /\ Loaded(Job)' = SeatsOf(tracked[Job])
  <2>1. Loaded(Job) = {}
    BY <1>0, <1>1 DEF IInv, HandlerOK, LoadedSoFar
  <2> QED
    BY <1>0, <1>2, <2>1, SeatsLoaded, TrackedSeats
<1>4. TracksRows(Job)'
  BY <1>0, <1>1, <1>2 DEF IInv, HandlerOK, TracksRows
<1>5. LoadedSoFar(Job)'
  BY <1>1, <1>2, <1>3 DEF LoadedSoFar, PayLabels, SeatsOf
<1>6. OnlyOverdue(Job)'
  BY <1>0, <1>1, <1>2 DEF IInv, HandlerOK, OnlyOverdue, JobLabels
<1>7. StartFresh(Job)' /\ PayFresh(Job)' /\ PaidFirst(Job)' /\ SavedOnce(Job)'
  BY <1>1 DEF StartFresh, PayFresh, PaidFirst, SavedOnce
<1>8. HandlerOK(Job)'
  BY <1>3, <1>4, <1>5, <1>6, <1>7 DEF HandlerOK
<1> QED
  BY <1>0, <1>1, <1>2, <1>8, QuietStep

\* The job's first save.
LEMMA JobSave1Good ==
  ASSUME IInv, TypeOK', JobSave1
  PROVE  GoodStep(Job)
<1>0. Job \in Procs
  BY ServiceAssumption
<1>1. /\ SaveChanges(Job, "Expired", "Available")
      /\ UNCHANGED <<tracked, seen, charged>>
      /\ pc[Job] = "jobSave1" /\ pc'[Job] = "jobSave2"
      /\ OthersStay(Job)
  BY <1>0 DEF JobSave1, Goto, OthersStay, IInv, TypeOK, StoreTypeOK
<1>2. /\ \A r \in tracked[Job] : reservation[r].seat \in Loaded(Job)
      /\ \A r \in tracked[Job] : reservation[r].age >= Timeout
  BY <1>0, <1>1, SeatsAtHand DEF SeatSaveLabels, JobLabels, IInv, HandlerOK, OnlyOverdue
<1>3. Evolves
  BY <1>0, <1>1, <1>2, SaveEvolves DEF IInv, SeatStatus
<1>4. TablesOK'
  BY <1>0, <1>1, <1>2, <1>3, SaveTables DEF IInv
<1>5. SeenNotAhead(Job)' /\ TracksRows(Job)'
  BY <1>0, <1>1, <1>3, ReadsSurvive DEF IInv
<1>6. ASSUME NEW r \in tracked[Job]
      PROVE  reservation'[r].status = "Expired" /\ reservation'[r].age = reservation[r].age
  BY <1>0, <1>1, <1>6 DEF SaveChanges, SetReservations, IInv, TypeOK, StoreTypeOK, Reservation
<1>7. LoadedSoFar(Job)'
  BY <1>1 DEF LoadedSoFar, SeatSaveLabels, PayLabels
<1>8. OnlyOverdue(Job)' /\ SavedOnce(Job)'
  BY <1>1, <1>2, <1>6 DEF OnlyOverdue, SavedOnce
<1>9. StartFresh(Job)' /\ PayFresh(Job)' /\ PaidFirst(Job)'
  BY <1>1 DEF StartFresh, PayFresh, PaidFirst
<1>10. HandlerOK(Job)'
  BY <1>5, <1>7, <1>8, <1>9 DEF HandlerOK
<1> QED
  BY <1>1, <1>3, <1>4, <1>10 DEF GoodStep

\* The job's second save.
LEMMA JobSave2Good ==
  ASSUME IInv, TypeOK', JobSave2
  PROVE  GoodStep(Job)
<1>0. Job \in Procs
  BY ServiceAssumption
<1>1. /\ pc'[Job] = "notify"
      /\ UNCHANGED <<tracked, seen, charged>>
      /\ OthersStay(Job)
  BY <1>0 DEF JobSave2, Goto, OthersStay, IInv, TypeOK, StoreTypeOK
<1>2. UNCHANGED <<seat, reservation>>
  BY Save2Idle
<1>3. HandlerOK(Job)'
  BY <1>0, <1>1, <1>2, NoChangeEvolves, NothingLeft DEF IInv
<1> QED
  BY <1>0, <1>1, <1>2, <1>3, QuietStep

-------------------------------------------------------------------------------
(* The notifier, the answer and failures.                                  *)

\* After the notice has been sent or lost.
LEMMA AfterNotifyGood ==
  ASSUME IInv, TypeOK', NEW p \in Procs, AfterNotify(p), UNCHANGED <<seat, reservation, charged>>
  PROVE  GoodStep(p)
<1>1. CASE p = Job
  BY <1>1, JobSleepsGood DEF AfterNotify
<1>2. CASE p # Job
  <2>1. /\ pc'[p] = "answer"
        /\ UNCHANGED <<tracked, seen>>
        /\ OthersStay(p)
    BY <1>2 DEF AfterNotify, Goto, OthersStay, IInv, TypeOK, StoreTypeOK
  <2>2. HandlerOK(p)'
    BY <2>1, NoChangeEvolves, NothingLeft DEF IInv
  <2> QED
    BY <2>1, <2>2, QuietStep
<1> QED
  BY <1>1, <1>2

\* The request is answered and its DbContext disposed of.
LEMMA ReturnGood ==
  ASSUME IInv, TypeOK', NEW p \in Procs, Return(p)
  PROVE  GoodStep(p)
<1>1. /\ pc'[p] = "idle" /\ tracked'[p] = {} /\ seen'[p] = NothingSeen
      /\ OthersStay(p)
  BY DEF Return, Goto, DisposeContext, OthersStay, IInv, TypeOK, StoreTypeOK
<1>2. UNCHANGED <<seat, reservation>> /\ charged \subseteq charged'
  BY DEF Return
<1> QED
  BY <1>1, <1>2, Ended, QuietStep

\* An exception before the COMMIT.
LEMMA AbortGood ==
  ASSUME IInv, TypeOK', NEW p \in Procs, Abort(p)
  PROVE  GoodStep(p)
<1>1. CASE p = Job
  BY <1>1, JobSleepsGood DEF Abort
<1>2. CASE p # Job
  <2>1. /\ pc'[p] = "answer"
        /\ UNCHANGED <<seat, reservation, charged, tracked, seen>>
        /\ OthersStay(p)
    BY <1>2 DEF Abort, Goto, OthersStay, IInv, TypeOK, StoreTypeOK
  <2>2. HandlerOK(p)'
    BY <2>1, NoChangeEvolves, NothingLeft DEF IInv
  <2> QED
    BY <2>1, <2>2, QuietStep
<1> QED
  BY <1>1, <1>2

\* A crash: the tables stay, the handlers begin anew.
LEMMA CrashKeeps ==
  ASSUME IInv, TypeOK', Crash
  PROVE  Evolves /\ IInv'
<1>1. UNCHANGED <<seat, reservation, charged>>
  BY DEF Crash
<1>2. Evolves /\ TablesOK'
  BY <1>1, NoChangeEvolves, NoChangeTables DEF IInv
<1>3. ASSUME NEW p \in Procs PROVE HandlerOK(p)'
  BY Ended DEF Crash
<1> QED
  BY <1>2, <1>3 DEF IInv

\* Time passes.
LEMMA TickKeeps ==
  ASSUME IInv, TypeOK', Tick
  PROVE  Evolves /\ IInv'
<1>1. Evolves /\ TablesOK'
  BY TickTables
<1>2. ASSUME NEW p \in Procs PROVE HandlerOK(p)'
  BY <1>1, KnowledgeSurvives DEF Tick, IInv
<1> QED
  BY <1>1, <1>2 DEF IInv

-------------------------------------------------------------------------------
(* The invariant.                                                          *)

\* Every step of a request is good.
LEMMA RequestGood ==
  ASSUME IInv, TypeOK', NEW p \in Slots,
         StartRequest(p) \/ PayRequest(p) \/ ResetReadReservations(p) \/ Request(p)
  PROVE  GoodStep(p)
<1>0. p \in Procs
  BY ServiceAssumption
<1>1. CASE StartNotFound(p)
  BY <1>0, <1>1, RejectGood DEF StartNotFound
<1>2. ASSUME NEW s \in Seats, StartUnavailable(p, s) PROVE GoodStep(p)
  BY <1>0, <1>2, RejectGood DEF StartUnavailable
<1>3. ASSUME NEW s \in Seats, StartLoad(p, s) PROVE GoodStep(p)
  BY <1>0, <1>3, StartLoadGood
<1>4. ASSUME NEW r \in ReservationIds, NEW c \in Clients,
             PayRejected(p, r, c) \/ PayReadReservation(p, r, c) \/ StartSave(p, r, c)
      PROVE  GoodStep(p)
  BY <1>0, <1>4, RejectGood, PayReadReservationGood, StartSaveGood DEF PayRejected
<1>5. CASE StartConflict(p) \/ PaySeatUnavailable(p) \/ PayDeclined(p)
             \/ PayConflict(p) \/ ResetConflict(p)
  BY <1>0, <1>5, RejectGood
  DEF StartConflict, PaySeatUnavailable, PayDeclined, PayConflict, ResetConflict
<1>6. CASE PayReadSeat(p) \/ PayExpireSave(p) \/ PaySucceeded(p) \/ PayCommit(p)
  BY <1>0, <1>6, PayReadSeatGood, PayExpireSaveGood, PaySucceededGood, PayCommitGood
<1>7. CASE ResetReadReservations(p) \/ ResetDelete(p) \/ ResetReadSeats(p) \/ ResetCommit(p)
  BY <1>0, <1>7, ResetReadReservationsGood, ResetDeleteGood, ResetReadSeatsGood,
     ResetCommitGood
<1>8. CASE Notify(p)
  BY <1>0, <1>8, AfterNotifyGood DEF Notify
<1>9. CASE Return(p)
  BY <1>0, <1>9, ReturnGood
<1> QED
  BY <1>1, <1>2, <1>3, <1>4, <1>5, <1>6, <1>7, <1>8, <1>9
  DEF StartRequest, PayRequest, Request

\* Every step of the job is good.
LEMMA BackgroundGood ==
  ASSUME IInv, TypeOK', Background
  PROVE  GoodStep(Job)
<1>1. Job \in Procs
  BY ServiceAssumption
<1>2. CASE JobConflict
  BY <1>2, JobSleepsGood DEF JobConflict
<1>3. CASE Notify(Job)
  BY <1>1, <1>3, AfterNotifyGood DEF Notify
<1> QED
  BY <1>2, <1>3, JobBeginGood, JobReadReservationsGood, JobReadSeatsGood, JobSave1Good,
     JobSave2Good
  DEF Background

\* Before the first request everything is as it should be.
LEMMA InitInv == Init => IInv
<1> SUFFICES ASSUME Init PROVE IInv
  OBVIOUS
<1>1. TypeOK
  BY InitType
<1>2. TablesOK
  BY DEF Init, StoreInit, TablesOK, VersionsStarted, RowsHaveSeats, ExpiredInTime,
         PendingSeatHeld, ReservedSeatPaid, FreshSeat, NoReservation
<1>3. ASSUME NEW p \in Procs PROVE HandlerOK(p)
  <2>1. pc[p] = "idle" /\ tracked[p] = {} /\ seen[p] = NothingSeen
    BY DEF Init, StoreInit
  <2>2. SeenNotAhead(p)
    <3>1. SUFFICES ASSUME NEW s \in Seats PROVE seen[p][s] <= seat[s].rowVersion
      BY DEF SeenNotAhead
    <3>2. seat[s].rowVersion \in Nat
      BY <1>1 DEF TypeOK, StoreTypeOK, Seat
    <3>3. seen[p][s] = 0
      BY <2>1 DEF NothingSeen, NotLoaded
    <3> QED
      BY <3>2, <3>3
  <2>3. TracksRows(p) /\ LoadedSoFar(p)
    BY <2>1
    DEF TracksRows, LoadedSoFar, Loaded, NothingSeen, SeatSaveLabels, PayLabels, JobLabels
  <2>4. StartFresh(p) /\ PayFresh(p) /\ OnlyOverdue(p) /\ PaidFirst(p) /\ SavedOnce(p)
    BY <2>1 DEF StartFresh, PayFresh, OnlyOverdue, JobLabels, PaidFirst, SavedOnce
  <2> QED
    BY <2>2, <2>3, <2>4 DEF HandlerOK
<1> QED
  BY <1>1, <1>2, <1>3 DEF IInv

\* The next-state relation only moves the tables forward and preserves the invariant.
LEMMA NextInv == IInv /\ [Next]_vars => Evolves /\ IInv'
<1> SUFFICES ASSUME IInv, [Next]_vars PROVE Evolves /\ IInv'
  OBVIOUS
<1>1. TypeOK'
  BY NextType DEF IInv
<1>2. ASSUME NEW p \in Procs, GoodStep(p) PROVE Evolves /\ IInv'
  BY <1>1, <1>2, GoodStepKeeps DEF GoodStep
<1>3. ASSUME NEW p \in Slots,
             StartRequest(p) \/ PayRequest(p) \/ ResetReadReservations(p) \/ Request(p)
      PROVE  Evolves /\ IInv'
  BY <1>1, <1>2, <1>3, RequestGood, ServiceAssumption
<1>4. CASE Background
  BY <1>1, <1>2, <1>4, BackgroundGood, ServiceAssumption
<1>5. ASSUME NEW p \in Procs, NotifyFails(p) \/ Abort(p) PROVE Evolves /\ IInv'
  BY <1>1, <1>2, <1>5, AfterNotifyGood, AbortGood DEF NotifyFails
<1>6. CASE Crash \/ Tick
  BY <1>1, <1>6, CrashKeeps, TickKeeps
<1>7. CASE UNCHANGED vars
  <2>1. Evolves /\ TablesOK'
    BY <1>7, NoChangeEvolves, NoChangeTables DEF vars, IInv
  <2>2. ASSUME NEW p \in Procs PROVE HandlerOK(p)'
    BY <1>1, <1>7, <2>1, KnowledgeSurvives DEF vars, IInv
  <2> QED
    BY <1>1, <2>1, <2>2 DEF IInv
<1> QED
  BY <1>3, <1>4, <1>5, <1>6, <1>7 DEF Next

\* What the tables satisfy, and what each handler may rely on from its earlier reads when it
\* saves, holds in every state (ReservationService.cs:71, :168, :194, :268, :307).
THEOREM InvariantHolds == Spec => []IInv
<1>1. Init => IInv
  BY InitInv
<1>2. IInv /\ [Next]_vars => IInv'
  BY NextInv
<1> QED
  BY <1>1, <1>2, PTL DEF Spec

\* No seat is stuck: whatever a release, a payment or a reset has read, a Pending seat has
\* a Pending reservation (ReservationService.cs:149, :253, :300).
THEOREM NoSeatStuck == Spec => []PendingSeatHeld
<1>1. IInv => PendingSeatHeld
  BY DEF IInv, TablesOK
<1> QED
  BY <1>1, InvariantHolds, PTL

\* A Reserved seat has a Completed reservation for which PayAsync took money
\* (ReservationService.cs:186-197).
THEOREM NoSeatUnpaid == Spec => []ReservedSeatPaid
<1>1. IInv => ReservedSeatPaid
  BY DEF IInv, TablesOK
<1> QED
  BY <1>1, InvariantHolds, PTL

\* No reservation expires before its window has closed (ReservationService.cs:163, :239).
THEOREM NoEarlyExpiry == Spec => []ExpiredInTime
<1>1. IInv => ExpiredInTime
  BY DEF IInv, TablesOK
<1> QED
  BY <1>1, InvariantHolds, PTL

\* The steps that write to a table.
LEMMA WritingSteps ==
  ASSUME IInv, Next
  PROVE  \/ UNCHANGED <<seat, reservation>>
         \/ \E p \in Slots, r \in ReservationIds, c \in Clients : StartSave(p, r, c)
         \/ \E p \in Slots : PayExpireSave(p) \/ PayCommit(p) \/ ResetCommit(p)
         \/ JobSave1
         \/ Tick
<1>1. ASSUME NEW p \in Slots, StartRequest(p) \/ PayRequest(p) \/ ResetReadReservations(p)
      PROVE  UNCHANGED <<seat, reservation>>
  BY <1>1
  DEF StartRequest, StartNotFound, StartUnavailable, StartLoad, PayRequest, PayRejected,
      PayReadReservation, ResetReadReservations, Reject, ReadStep
<1>2. ASSUME NEW p \in Slots, Request(p)
      PROVE  \/ UNCHANGED <<seat, reservation>>
             \/ \E r \in ReservationIds, c \in Clients : StartSave(p, r, c)
             \/ PayExpireSave(p) \/ PayCommit(p) \/ ResetCommit(p)
  BY <1>2
  DEF Request, StartConflict, PaySeatUnavailable, PayReadSeat, PayDeclined, PaySucceeded,
      PayConflict, ResetDelete, ResetReadSeats, ResetConflict, Notify, Return, Reject,
      ReadStep
<1>3. ASSUME Background PROVE UNCHANGED <<seat, reservation>> \/ JobSave1
  BY <1>3, Save2Idle
  DEF Background, JobBegin, JobReadReservations, JobReadSeats, JobConflict, Notify, ReadStep
<1>4. ASSUME Crash \/ \E p \in Procs : NotifyFails(p) \/ Abort(p)
      PROVE  UNCHANGED <<seat, reservation>>
  BY <1>4 DEF Crash, NotifyFails, Abort
<1> QED
  BY <1>1, <1>2, <1>3, <1>4 DEF Next

\* Only a start gives an id to a reservation.
LEMMA OnlyStartCreates ==
  ASSUME IInv, Next, NEW r \in ReservationIds,
         reservation[r].status = "None", reservation'[r].status # "None"
  PROVE  \E p \in Procs, c \in Clients : StartSave(p, r, c)
<1>1. ASSUME NEW p \in Procs, NEW st, NEW sst, SaveChanges(p, st, sst) PROVE FALSE
  BY <1>1, SaveCreatesNone
<1>2. ~JobSave1 /\ \A p \in Slots : ~PayExpireSave(p) /\ ~PayCommit(p) /\ ~ResetCommit(p)
  BY <1>1, ServiceAssumption DEF JobSave1, PayExpireSave, PayCommit, ResetCommit
<1>3. ~Tick
  BY DEF Tick, Ages, IInv, TypeOK, StoreTypeOK, Reservation
<1>4. PICK p \in Procs, q \in ReservationIds, c \in Clients : StartSave(p, q, c)
  BY <1>2, <1>3, WritingSteps, ServiceAssumption
<1>5. q = r
  BY <1>4, StartWrites
<1> QED
  BY <1>4, <1>5

\* A reservation is created only on a seat that is Available in the table at that moment,
\* however many starts have read it (ReservationService.cs:71).
THEOREM HoldsAreExclusive == Spec => HoldIsExclusive
<1> DEFINE A == \A r \in ReservationIds :
                  reservation[r].status = "None" /\ reservation'[r].status # "None" =>
                    LET s == reservation'[r].seat
                    IN seat[s].status = "Available" /\ seat'[s].status = "Pending"
<1>1. IInv /\ [Next]_vars => [A]_vars
  <2>1. SUFFICES ASSUME IInv, Next, NEW r \in ReservationIds,
                        reservation[r].status = "None", reservation'[r].status # "None"
                 PROVE  LET s == reservation'[r].seat
                        IN seat[s].status = "Available" /\ seat'[s].status = "Pending"
    OBVIOUS
  <2>2. PICK p \in Procs, c \in Clients : StartSave(p, r, c)
    BY <2>1, OnlyStartCreates
  <2> QED
    BY <2>1, <2>2, StartWrites
<1> QED
  BY <1>1, InvariantHolds, PTL DEF Spec, HoldIsExclusive

\* A payment that has read a reservation while it was Pending cannot revive it once it has
\* expired: though the row is not compared, its seat is (ReservationService.cs:194-197).
THEOREM ExpiryIsFinal == Spec => ExpiredIsFinal
<1> DEFINE A == \A r \in ReservationIds : reservation[r].status = "Expired" =>
                  reservation'[r].status \in {"Expired", "Deleted"}
<1>1. IInv /\ [Next]_vars => [A]_vars
  <2>1. Evolves => A
    BY DEF Evolves, RowEvolves
  <2> QED
    BY <2>1, NextInv
<1> QED
  BY <1>1, InvariantHolds, PTL DEF Spec, ExpiredIsFinal

-------------------------------------------------------------------------------
(* Seats and the reservations that claim them.                             *)

\* A step that touches neither a seat's status nor the rows on it leaves it paired.
LEMMA PairedKept ==
  ASSUME NEW s \in Seats, Paired(s), seat'[s].status = seat[s].status,
         \A r \in ReservationIds :
           reservation[r].seat = s \/ reservation'[r].seat = s =>
             /\ reservation'[r].seat = reservation[r].seat
             /\ reservation'[r].status = reservation[r].status
  PROVE  Paired(s)'
<1>1. On(s)' = On(s) /\ \A r \in On(s) : reservation'[r].status = reservation[r].status
  BY DEF On, Stored
<1>2. Claims(s)' = Claims(s)
  BY <1>1 DEF Claims
<1> QED
  BY <1>1, <1>2 DEF Paired

\* A save, seen from a seat it does not write.
LEMMA PairedElsewhere ==
  ASSUME IInv, NEW p \in Procs, NEW st, NEW sst, SaveChanges(p, st, sst),
         \A r \in tracked[p] : reservation[r].seat \in Loaded(p),
         NEW s \in Seats \ Loaded(p), Paired(s)
  PROVE  Paired(s)'
<1>1. seat'[s] = seat[s]
  BY DEF SaveChanges, SetSeats
<1>2. ASSUME NEW r \in ReservationIds
      PROVE  /\ reservation'[r].seat = reservation[r].seat
             /\ r \notin tracked[p] => reservation'[r] = reservation[r]
  BY DEF SaveChanges, SetReservations, IInv, TypeOK, StoreTypeOK, Reservation
<1> QED
  BY <1>1, <1>2, PairedKept

\* A start pairs its seat with the new reservation.
LEMMA StartPairs ==
  ASSUME IInv, NEW p \in Procs, NEW r \in ReservationIds, NEW c \in Clients,
         StartSave(p, r, c), NEW s \in Seats, Paired(s)
  PROVE  Paired(s)'
<1>1. /\ reservation'[r].status = "Pending"
      /\ \A q \in ReservationIds \ {r} : reservation'[q] = reservation[q]
  BY StartWrites
<1>2. PICK x \in Seats : /\ reservation'[r].seat = x
                         /\ seat[x].status = "Available"
                         /\ seat'[x].status = "Pending"
                         /\ \A y \in Seats \ {x} : seat'[y] = seat[y]
  BY StartWrites
<1>3. CASE s = x
  <2>1. Claims(s) = {}
    BY <1>2, <1>3 DEF Paired
  <2>2. Claims(s)' = {r} /\ r \in On(s)'
    BY <1>1, <1>2, <1>3, <2>1 DEF Claims, On, Stored, ReservationStatus
  <2> QED
    BY <1>1, <1>2, <1>3, <2>2 DEF Paired
<1>4. CASE s # x
  <2>1. reservation[r].seat # s
    BY DomainAssumption DEF StartSave, NoReservation
  <2> QED
    BY <1>1, <1>2, <1>4, <2>1, PairedKept
<1> QED
  BY <1>3, <1>4

\* A payment that finds its row version completes the one reservation that claims the seat.
LEMMA PayPairs ==
  ASSUME IInv, NEW p \in Procs, PayCommit(p), NEW s \in Seats, Paired(s)
  PROVE  Paired(s)'
<1>1. /\ SaveChanges(p, "Completed", "Reserved")
      /\ pc[p] = "payCommit"
  BY DEF PayCommit
<1>2. CASE s \notin Loaded(p)
  BY <1>1, <1>2, SeatsAtHand, PairedElsewhere DEF SeatSaveLabels
<1>3. CASE s \in Loaded(p)
  <2>1. PICK r \in ReservationIds : tracked[p] = {r}
    BY <1>1 DEF IInv, HandlerOK, LoadedSoFar, PayLabels
  <2>2. reservation[r].seat = s
    BY <1>1, <1>3, <2>1 DEF IInv, HandlerOK, LoadedSoFar, SeatSaveLabels, SeatsOf
  <2>3. /\ seat[s].status = "Pending"
        /\ reservation[r].status \in ReservationStatus
        /\ reservation[r].status # "Expired"
    BY <1>1, <2>1, <2>2 DEF SaveChanges, CanSave, RowsExist, Stored, IInv, HandlerOK, PayFresh
  <2>4. Claims(s) = {r}
    BY <2>2, <2>3 DEF Paired, Claims, On, Stored
  <2>5. /\ seat'[s].status = "Reserved"
        /\ reservation'[r].status = "Completed"
        /\ reservation'[r].seat = s
        /\ \A q \in ReservationIds \ {r} : reservation'[q] = reservation[q]
    BY <1>1, <1>3, <2>1, <2>2
    DEF SaveChanges, SetReservations, SetSeats, IInv, TypeOK, StoreTypeOK, Reservation
  <2>6. Claims(s)' = {r} /\ r \in On(s)'
    BY <2>2, <2>4, <2>5 DEF Claims, On, Stored, ReservationStatus
  <2> QED
    BY <2>5, <2>6 DEF Paired
<1> QED
  BY <1>2, <1>3

\* A release frees every seat it writes.
LEMMA ReleasePairs ==
  ASSUME IInv, NEW p \in Procs, NEW st, SaveChanges(p, st, "Available"),
         \A r \in tracked[p] : reservation[r].seat \in Loaded(p),
         NEW s \in Seats, Paired(s)
  PROVE  Paired(s)' \/ seat'[s].status = "Available"
<1>1. CASE s \in Loaded(p)
  BY <1>1 DEF SaveChanges, SetSeats
<1>2. CASE s \notin Loaded(p)
  BY <1>2, PairedElsewhere
<1> QED
  BY <1>1, <1>2

\* Starts and payments keep a seat and the reservation that claims it in agreement, for any
\* number of concurrent ones; only a release on stale reads can part them
\* (ReservationService.cs:71-77, :194-197, :268, :307).
THEOREM OnlyReleasesUnpair == Spec => OnlyReleaseUnpairs
<1> DEFINE A == \A s \in Seats : Paired(s) => Paired(s)' \/ seat'[s].status = "Available"
<1>1. IInv /\ [Next]_vars => [A]_vars
  <2>1. SUFFICES ASSUME IInv, Next, NEW s \in Seats, Paired(s)
                 PROVE  Paired(s)' \/ seat'[s].status = "Available"
    OBVIOUS
  <2>2. CASE UNCHANGED <<seat, reservation>>
    BY <2>1, <2>2, PairedKept
  <2>3. ASSUME NEW p \in Procs, NEW r \in ReservationIds, NEW c \in Clients, StartSave(p, r, c)
        PROVE  Paired(s)'
    BY <2>1, <2>3, StartPairs
  <2>4. ASSUME NEW p \in Procs, PayExpireSave(p) \/ ResetCommit(p)
        PROVE  Paired(s)' \/ seat'[s].status = "Available"
    <3>1. \A r \in tracked[p] : reservation[r].seat \in Loaded(p)
      BY <2>1, <2>4, SeatsAtHand DEF PayExpireSave, ResetCommit, SeatSaveLabels
    <3> QED
      BY <2>1, <2>4, <3>1, ReleasePairs DEF PayExpireSave, ResetCommit
  <2>5. ASSUME NEW p \in Procs, PayCommit(p) PROVE Paired(s)'
    BY <2>1, <2>5, PayPairs
  <2>6. CASE JobSave1
    <3>1. \A r \in tracked[Job] : reservation[r].seat \in Loaded(Job)
      BY <2>1, <2>6, SeatsAtHand, ServiceAssumption DEF JobSave1, SeatSaveLabels
    <3> QED
      BY <2>1, <2>6, <3>1, ReleasePairs, ServiceAssumption DEF JobSave1
  <2>7. CASE Tick
    <3>1. /\ seat' = seat
          /\ \A r \in ReservationIds : /\ reservation'[r].seat = reservation[r].seat
                                       /\ reservation'[r].status = reservation[r].status
      BY <2>1, <2>7 DEF Tick, IInv, TypeOK, StoreTypeOK, Reservation
    <3> QED
      BY <2>1, <3>1, PairedKept
  <2> QED
    BY <2>1, <2>2, <2>3, <2>4, <2>5, <2>6, <2>7, WritingSteps, ServiceAssumption
<1> QED
  BY <1>1, InvariantHolds, PTL DEF Spec, OnlyReleaseUnpairs

==============================================================================
