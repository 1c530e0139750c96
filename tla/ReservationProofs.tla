-------------------------- MODULE ReservationProofs --------------------------
(***************************************************************************)
(* The safety of ReservationService for any number of seats, clients,      *)
(* reservations and concurrent requests, any timeout, and any number of    *)
(* resets and failures.                                                    *)
(***************************************************************************)
EXTENDS ReservationInvariant, TLAPS

-------------------------------------------------------------------------------
(* Type correctness.                                                       *)

\* Whatever set of seats a save writes, table Seats keeps its type.
LEMMA SetSeatsType ==
  ASSUME StoreTypeOK, NEW ss, NEW st \in SeatStatus, SetSeats(ss, st)
  PROVE  seat' \in [Seats -> Seat]
BY DEF StoreTypeOK, SetSeats, Seat

\* Whatever set of reservations a save writes, table Reservations keeps its type.
LEMMA SetReservationsType ==
  ASSUME StoreTypeOK, NEW rs, NEW st \in RowStatus, SetReservations(rs, st)
  PROVE  reservation' \in [ReservationIds -> Reservation]
BY DEF StoreTypeOK, SetReservations, Reservation

\* What a DbContext notes when it loads seats, or when it is disposed of, are versions.
LEMMA SeenType ==
  ASSUME StoreTypeOK, NEW p \in Procs,
         (\E ss \in SUBSET Seats : LoadSeats(p, ss)) \/ seen' = [seen EXCEPT ![p] = NothingSeen]
  PROVE  seen' \in [Procs -> [Seats -> Nat]]
BY DEF StoreTypeOK, LoadSeats, NothingSeen, NotLoaded, Seat

\* What a DbContext tracks are reservations.
LEMMA TrackedType ==
  ASSUME StoreTypeOK, NEW p \in Procs, NEW rs \in SUBSET ReservationIds,
         LoadReservations(p, rs)
  PROVE  tracked' \in [Procs -> SUBSET ReservationIds]
BY DEF StoreTypeOK, LoadReservations

\* The initial state is well typed.
LEMMA InitType == Init => TypeOK
<1> SUFFICES ASSUME Init PROVE TypeOK
  OBVIOUS
<1>1. NoReservation \in Reservation /\ FreshSeat \in Seat
  BY DomainAssumption
  DEF NoReservation, FreshSeat, Reservation, Seat, RowStatus, SeatStatus
<1>2. StoreTypeOK
  BY <1>1 DEF Init, StoreInit, StoreTypeOK, NothingSeen, NotLoaded
<1>3. pc \in [Procs -> Labels] /\ \A p \in Procs : pc[p] # "notify"
  BY DEF Init, Labels
<1> QED
  BY <1>2, <1>3, ServiceAssumption DEF Init, TypeOK, SeatStatus

\* The handlers' own variables keep their types when a handler goes on without writing.
LEMMA ReadStepType ==
  ASSUME TypeOK, NEW p \in Procs, NEW l \in Labels \ {"notify"}, ReadStep(p, l),
         tracked' \in [Procs -> SUBSET ReservationIds],
         seen' \in [Procs -> [Seats -> Nat]]
  PROVE  TypeOK'
BY DEF TypeOK, StoreTypeOK, ReadStep, Goto

\* The same for a request that is refused.
LEMMA RejectType ==
  ASSUME TypeOK, NEW p \in Procs, NEW a \in Answers, Reject(p, a)
  PROVE  TypeOK'
BY DEF TypeOK, StoreTypeOK, Reject, Goto, Labels

\* The same for a request that has committed.
LEMMA CommittedType ==
  ASSUME TypeOK, NEW p \in Procs, NEW st \in SeatStatus, NEW a \in Answers,
         Committed(p, st, a), StoreTypeOK'
  PROVE  TypeOK'
BY DEF TypeOK, StoreTypeOK, Committed, Goto, Labels, SeatStatus

\* A save followed by its commit.
LEMMA SaveType ==
  ASSUME TypeOK, NEW p \in Procs, NEW rst \in RowStatus, NEW st \in SeatStatus,
         SaveChanges(p, rst, st), UNCHANGED <<tracked, seen>>
  PROVE  StoreTypeOK'
<1>1. seat' \in [Seats -> Seat]
  BY SetSeatsType DEF SaveChanges, TypeOK
<1>2. reservation' \in [ReservationIds -> Reservation]
  BY SetReservationsType DEF SaveChanges, TypeOK
<1> QED
  BY <1>1, <1>2 DEF StoreTypeOK, TypeOK

\* The job goes back to sleep.
LEMMA JobSleepsType ==
  ASSUME TypeOK, JobSleeps
  PROVE  /\ tracked' \in [Procs -> SUBSET ReservationIds]
         /\ seen' \in [Procs -> [Seats -> Nat]]
         /\ pc' \in [Procs -> Labels]
         /\ notice' \in [Procs -> SeatStatus \union {"Nothing"}]
         /\ \A p \in Procs : pc'[p] = "notify" => notice'[p] # "Nothing"
<1>1. Job \in Procs /\ StoreTypeOK
  BY ServiceAssumption DEF TypeOK
<1>2. seen' \in [Procs -> [Seats -> Nat]]
  BY <1>1, SeenType DEF JobSleeps, DisposeContext
<1> QED
  BY <1>1, <1>2 DEF JobSleeps, DisposeContext, TypeOK, StoreTypeOK, Goto, Labels

\* Every step of a request keeps the state well typed.
LEMMA RequestType ==
  ASSUME TypeOK, NEW p \in Slots,
         StartRequest(p) \/ PayRequest(p) \/ ResetReadReservations(p) \/ Request(p)
  PROVE  TypeOK'
<1> USE ServiceAssumption
<1>0. /\ p \in Procs
      /\ p # Job
      /\ StoreTypeOK
  BY DEF TypeOK
<1>1. CASE StartNotFound(p)
  BY <1>0, <1>1, RejectType DEF StartNotFound, Answers
<1>2. ASSUME NEW s \in Seats, StartUnavailable(p, s) PROVE TypeOK'
  BY <1>0, <1>2, RejectType DEF StartUnavailable, Answers
<1>3. ASSUME NEW s \in Seats, StartLoad(p, s) PROVE TypeOK'
  <2>1. seen' \in [Procs -> [Seats -> Nat]]
    BY <1>0, <1>3, SeenType DEF StartLoad
  <2> QED
    BY <1>0, <1>3, <2>1, ReadStepType DEF StartLoad, Labels, TypeOK, StoreTypeOK
<1>4. ASSUME NEW r \in ReservationIds, NEW c \in Clients, StartSave(p, r, c) PROVE TypeOK'
  <2>1. seat' \in [Seats -> Seat]
    BY <1>0, <1>4, SetSeatsType DEF StartSave, SeatStatus
  <2>2. PICK s \in Loaded(p) : reservation' = [reservation EXCEPT ![r] = NewReservation(s, c)]
    BY <1>4 DEF StartSave
  <2>3. NewReservation(s, c) \in Reservation
    BY DomainAssumption DEF NewReservation, Reservation, RowStatus, ReservationStatus, Loaded
  <2>4. reservation' \in [ReservationIds -> Reservation]
    BY <1>0, <2>2, <2>3 DEF StoreTypeOK
  <2>5. tracked' \in [Procs -> SUBSET ReservationIds]
    BY <1>0, <1>4, TrackedType DEF StartSave
  <2>6. StoreTypeOK'
    BY <1>0, <1>4, <2>1, <2>4, <2>5 DEF StoreTypeOK, StartSave
  <2> QED
    BY <1>0, <1>4, <2>6, CommittedType DEF StartSave, Answers, SeatStatus
<1>5. CASE StartConflict(p) \/ PaySeatUnavailable(p) \/ PayDeclined(p)
             \/ PayConflict(p) \/ ResetConflict(p)
  BY <1>0, <1>5, RejectType
  DEF StartConflict, PaySeatUnavailable, PayDeclined, PayConflict, ResetConflict, Answers
<1>6. ASSUME NEW r \in ReservationIds, NEW c \in Clients, PayRejected(p, r, c) PROVE TypeOK'
  BY <1>0, <1>6, RejectType DEF PayRejected, Answers
<1>7. ASSUME NEW r \in ReservationIds, NEW c \in Clients, PayReadReservation(p, r, c)
      PROVE TypeOK'
  <2>1. tracked' \in [Procs -> SUBSET ReservationIds]
    BY <1>0, <1>7, TrackedType DEF PayReadReservation
  <2> QED
    BY <1>0, <1>7, <2>1, ReadStepType DEF PayReadReservation, Labels, TypeOK, StoreTypeOK
<1>8. CASE PayReadSeat(p)
  <2>1. seen' \in [Procs -> [Seats -> Nat]]
    BY <1>0, <1>8 DEF PayReadSeat, LoadSeats, StoreTypeOK, Seat
  <2>2. PICK l \in Labels \ {"notify"} : ReadStep(p, l)
    BY <1>8 DEF PayReadSeat, Labels
  <2> QED
    BY <1>0, <1>8, <2>1, <2>2, ReadStepType DEF PayReadSeat, TypeOK, StoreTypeOK
<1>9. CASE PayExpireSave(p)
  BY <1>0, <1>9, SaveType, CommittedType
  DEF PayExpireSave, Answers, SeatStatus, RowStatus, ReservationStatus
<1>10. CASE PaySucceeded(p)
  BY <1>0, <1>10 DEF PaySucceeded, TypeOK, StoreTypeOK, Goto, Labels
<1>11. CASE PayCommit(p)
  BY <1>0, <1>11, SaveType, CommittedType
  DEF PayCommit, Answers, SeatStatus, RowStatus, ReservationStatus
<1>12. CASE ResetReadReservations(p)
  <2>1. tracked' \in [Procs -> SUBSET ReservationIds]
    BY <1>0, <1>12, TrackedType DEF ResetReadReservations
  <2> QED
    BY <1>0, <1>12, <2>1 DEF ResetReadReservations, TypeOK, StoreTypeOK, Goto, Labels
<1>13. CASE ResetDelete(p)
  BY <1>0, <1>13, ReadStepType DEF ResetDelete, Labels, TypeOK, StoreTypeOK
<1>14. CASE ResetReadSeats(p)
  <2>1. seen' \in [Procs -> [Seats -> Nat]]
    BY <1>0, <1>14, SeenType DEF ResetReadSeats
  <2> QED
    BY <1>0, <1>14, <2>1, ReadStepType DEF ResetReadSeats, Labels, TypeOK, StoreTypeOK
<1>15. CASE ResetCommit(p)
  BY <1>0, <1>15, SaveType, CommittedType
  DEF ResetCommit, Answers, SeatStatus, RowStatus, ReservationStatus
<1>16. CASE Notify(p)
  BY <1>0, <1>16 DEF Notify, AfterNotify, TypeOK, StoreTypeOK, Goto, Labels, Loaded
<1>17. CASE Return(p)
  <2>1. seen' \in [Procs -> [Seats -> Nat]]
    BY <1>0, <1>17, SeenType DEF Return, DisposeContext
  <2> QED
    BY <1>0, <1>17, <2>1 DEF Return, DisposeContext, TypeOK, StoreTypeOK, Goto, Labels
<1> QED
  BY <1>1, <1>2, <1>3, <1>4, <1>5, <1>6, <1>7, <1>8, <1>9, <1>10, <1>11, <1>12,
     <1>13, <1>14, <1>15, <1>16, <1>17
  DEF StartRequest, PayRequest, Request

\* Every step of the job keeps the state well typed.
LEMMA BackgroundType ==
  ASSUME TypeOK, Background
  PROVE  TypeOK'
<1> USE ServiceAssumption
<1>0. Job \in Procs /\ StoreTypeOK
  BY DEF TypeOK
<1>1. CASE JobBegin
  <2>1. tracked' \in [Procs -> SUBSET ReservationIds]
    BY <1>0, <1>1, TrackedType DEF JobBegin
  <2> QED
    BY <1>0, <1>1, <2>1, ReadStepType DEF JobBegin, Labels, TypeOK, StoreTypeOK
<1>2. CASE JobReadReservations
  <2> DEFINE batch == {r \in tracked[Job] : reservation[r].status = "Pending"}
  <2>1. tracked' \in [Procs -> SUBSET ReservationIds]
    <3>1. batch \in SUBSET ReservationIds
      BY <1>0 DEF StoreTypeOK
    <3>2. LoadReservations(Job, batch)
      BY <1>2 DEF JobReadReservations
    <3> QED
      BY <1>0, <3>1, <3>2, TrackedType
  <2>2. PICK l \in Labels \ {"notify"} : ReadStep(Job, l)
    BY <1>2 DEF JobReadReservations, Labels
  <2> QED
    BY <1>0, <1>2, <2>1, <2>2, ReadStepType DEF JobReadReservations, TypeOK, StoreTypeOK
<1>3. CASE JobReadSeats
  <2>1. seen' \in [Procs -> [Seats -> Nat]]
    BY <1>0, <1>3 DEF JobReadSeats, LoadSeats, StoreTypeOK, Seat
  <2> QED
    BY <1>0, <1>3, <2>1, ReadStepType DEF JobReadSeats, Labels, TypeOK, StoreTypeOK
<1>4. CASE JobSave1
  <2>1. StoreTypeOK'
    BY <1>0, <1>4, SaveType DEF JobSave1, SeatStatus, RowStatus, ReservationStatus
  <2> QED
    BY <1>0, <1>4, <2>1 DEF JobSave1, TypeOK, Goto, Labels
<1>5. CASE JobSave2
  <2>1. reservation' \in [ReservationIds -> Reservation]
    BY <1>0, <1>5, SetReservationsType DEF JobSave2, RowStatus, ReservationStatus
  <2> QED
    BY <1>0, <1>5, <2>1 DEF JobSave2, TypeOK, StoreTypeOK, Goto, Labels, SeatStatus
<1>6. CASE JobConflict
  BY <1>0, <1>6, JobSleepsType DEF JobConflict, TypeOK, StoreTypeOK
<1>7. CASE Notify(Job)
  <2>1. board' \in [Seats -> SeatStatus]
    BY <1>0, <1>7 DEF Notify, TypeOK
  <2> QED
    BY <1>0, <1>7, <2>1, JobSleepsType
    DEF Notify, AfterNotify, TypeOK, StoreTypeOK
<1> QED
  BY <1>1, <1>2, <1>3, <1>4, <1>5, <1>6, <1>7 DEF Background

\* A handler that fails, a crash and the clock keep the state well typed.
LEMMA FailureType ==
  ASSUME TypeOK,
         (\E p \in Procs : NotifyFails(p) \/ Abort(p)) \/ Crash \/ Tick
  PROVE  TypeOK'
<1> USE ServiceAssumption
<1>0. Job \in Procs /\ StoreTypeOK
  BY DEF TypeOK
<1>1. ASSUME faults < MaxFaults, faults' = faults + 1 PROVE faults' \in 0..MaxFaults
  BY <1>1 DEF TypeOK
<1>2. ASSUME NEW p \in Procs, NotifyFails(p) PROVE TypeOK'
  <2>1. CASE p = Job
    BY <1>0, <1>1, <1>2, <2>1, JobSleepsType
    DEF NotifyFails, AfterNotify, TypeOK, StoreTypeOK
  <2>2. CASE p # Job
    BY <1>0, <1>1, <1>2, <2>2
    DEF NotifyFails, AfterNotify, TypeOK, StoreTypeOK, Goto, Labels
  <2> QED
    BY <2>1, <2>2
<1>3. ASSUME NEW p \in Procs, Abort(p) PROVE TypeOK'
  <2>1. CASE p = Job
    BY <1>0, <1>1, <1>3, <2>1, JobSleepsType DEF Abort, TypeOK, StoreTypeOK
  <2>2. CASE p # Job
    BY <1>0, <1>1, <1>3, <2>2 DEF Abort, TypeOK, StoreTypeOK, Goto, Labels, Answers
  <2> QED
    BY <2>1, <2>2
<1>4. CASE Crash
  <2>1. NothingSeen \in [Seats -> Nat]
    BY DEF NothingSeen, NotLoaded
  <2> QED
    BY <1>0, <1>1, <1>4, <2>1 DEF Crash, TypeOK, StoreTypeOK, Labels
<1>5. CASE Tick
  <2>1. reservation' \in [ReservationIds -> Reservation]
    <3>1. ASSUME NEW r \in ReservationIds, Ages(r) PROVE reservation[r].age + 1 \in 0..Timeout
      BY <1>0, <3>1, DomainAssumption DEF Ages, StoreTypeOK, Reservation
    <3>2. ASSUME NEW r \in ReservationIds, Ages(r)
          PROVE  [reservation[r] EXCEPT !.age = @ + 1] \in Reservation
      BY <1>0, <3>1, <3>2 DEF StoreTypeOK, Reservation
    <3> QED
      BY <1>0, <1>5, <3>2 DEF Tick, StoreTypeOK
  <2> QED
    BY <1>0, <1>5, <2>1 DEF Tick, TypeOK, StoreTypeOK
<1> QED
  BY <1>2, <1>3, <1>4, <1>5

\* The next-state relation preserves the type invariant.
LEMMA NextType == TypeOK /\ [Next]_vars => TypeOK'
<1> SUFFICES ASSUME TypeOK, [Next]_vars PROVE TypeOK'
  OBVIOUS
<1>1. CASE UNCHANGED vars
  BY <1>1 DEF vars, TypeOK, StoreTypeOK
<1>2. CASE Next
  BY <1>2, RequestType, BackgroundType, FailureType DEF Next
<1> QED
  BY <1>1, <1>2

\* Seats, reservations, DbContexts and handlers always hold values of their types: no
\* step of the service, the job or a failure leaves an undefined status behind.
THEOREM TypeCorrect == Spec => []TypeOK
<1>1. Init => TypeOK
  BY InitType
<1>2. TypeOK /\ [Next]_vars => TypeOK'
  BY NextType
<1> QED
  BY <1>1, <1>2, PTL DEF Spec

==============================================================================
