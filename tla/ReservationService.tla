-------------------------- MODULE ReservationService --------------------------
(***************************************************************************)
(* ReservationService and the loop of the expiration background service:   *)
(* requests to start a reservation, to pay for one and to reset the hall,  *)
(* running concurrently with each other and with the job that expires      *)
(* reservations.                                                           *)
(*                                                                         *)
(* A step is what runs between two awaits on the database, the payment     *)
(* service or the notifier.  The statements from the first UPDATE of a     *)
(* transaction to its COMMIT are one step: the rows they write stay locked *)
(* and, under READ COMMITTED, unseen until the COMMIT.  The one            *)
(* transaction that awaits something else while it holds locks is Reset,   *)
(* and its locks are modelled (HeldBy).                                    *)
(***************************************************************************)
EXTENDS BookingStore, FiniteSets

CONSTANTS Slots,            \* the requests in progress at the same time
          Job,              \* the background service
          MaxResets,        \* bound: the resets of a behaviour
          MaxFaults         \* bound: the crashes, aborts and lost notices

ASSUME ServiceAssumption ==
  /\ Procs = Slots \union {Job}
  /\ Job \notin Slots
  /\ MaxResets \in Nat
  /\ MaxFaults \in Nat

VARIABLES pc,               \* where each handler is
          notice,           \* the seat status a handler is about to publish
          answer,           \* what a request is about to be answered
          board,            \* the seats as a page shows that has seen every notice
          charged,          \* history: reservations PayAsync took money for
          resets, faults    \* the counters of the two bounds

vars == <<seat, reservation, tracked, seen, pc, notice, answer, board,
          charged, resets, faults>>

Labels == {"idle", "startSave",
           "payReadSeat", "payExpireSave", "payAwait", "payCommit",
           "resetDelete", "resetReadSeats", "resetCommit",
           "jobReadReservations", "jobReadSeats", "jobSave1", "jobSave2",
           "notify", "answer"}

Answers == {"Ok", "Declined", "NotFound", "Forbidden", "Conflict", "Error"}

TypeOK ==
  /\ StoreTypeOK
  /\ pc \in [Procs -> Labels]
  /\ notice \in [Procs -> SeatStatus \union {"Nothing"}]
  /\ \A p \in Procs : pc[p] = "notify" => notice[p] # "Nothing"
  /\ answer \in [Procs -> Answers \union {"NoAnswer"}]
  /\ board \in [Seats -> SeatStatus]
  /\ charged \in SUBSET ReservationIds
  /\ resets \in 0..MaxResets
  /\ faults \in 0..MaxFaults

Init ==
  /\ StoreInit
  /\ pc = [p \in Procs |-> "idle"]
  /\ notice = [p \in Procs |-> "Nothing"]
  /\ answer = [p \in Procs |-> "NoAnswer"]
  /\ board = [s \in Seats |-> "Available"]
  /\ charged = {}
  /\ resets = 0
  /\ faults = 0

-------------------------------------------------------------------------------
(* How a handler goes on.                                                  *)

Goto(p, label) == pc' = [pc EXCEPT ![p] = label]

\* A read, or the decision after it: nothing is written.
ReadStep(p, label) ==
  /\ Goto(p, label)
  /\ UNCHANGED <<seat, reservation, notice, answer, board, charged, resets, faults>>

\* A return before anything is written, or after the transaction is rolled back.
Reject(p, a) ==
  /\ Goto(p, "answer")
  /\ answer' = [answer EXCEPT ![p] = a]
  /\ UNCHANGED <<seat, reservation, tracked, seen, notice, board, charged, resets, faults>>

\* Without a notice after the COMMIT.
UnannouncedMutant(p, status, a) ==
  /\ Goto(p, "answer")
  /\ answer' = [answer EXCEPT ![p] = a]
  /\ UNCHANGED <<notice, board, charged, resets, faults>>

\* After the COMMIT: the notice is sent next, whatever happens to it the answer is a.
Committed(p, status, a) ==
  /\ Goto(p, "notify")
  /\ notice' = [notice EXCEPT ![p] = status]
  /\ answer' = [answer EXCEPT ![p] = a]
  /\ UNCHANGED <<board, charged, resets, faults>>

\* The job returns to its polling loop.
JobSleeps ==
  /\ Goto(Job, "idle")
  /\ notice' = [notice EXCEPT ![Job] = "Nothing"]
  /\ DisposeContext(Job)

\* Rows deleted in a transaction stay locked until it commits or rolls back.
HeldBy(p) == IF pc[p] \in {"resetReadSeats", "resetCommit"} THEN tracked[p] ELSE {}

\* Repositories with a DbContext, and so a transaction, each: a handler waits for itself.
OwnLocksMutant(p, rs) == \E q \in Procs : HeldBy(q) \intersect rs # {}

Locked(p, rs) == \E q \in Procs \ {p} : HeldBy(q) \intersect rs # {}

-------------------------------------------------------------------------------
(* StartReservationAsync.                                                  *)

StartNotFound(p) ==
  /\ pc[p] = "idle"
  /\ Reject(p, "NotFound")

StartUnavailable(p, s) ==
  /\ pc[p] = "idle"
  /\ ~CanMarkAsPending(seat[s].status)
  /\ Reject(p, "Conflict")

\* Bound: a request that gets as far as the INSERT will find an id for its reservation.
IdsLeft ==
  Cardinality({q \in Procs : pc[q] = "startSave"})
    < Cardinality({r \in ReservationIds : reservation[r] = NoReservation})

StartLoad(p, s) ==
  /\ pc[p] = "idle"
  /\ IdsLeft
  /\ CanMarkAsPending(seat[s].status)
  /\ LoadSeats(p, {s})
  /\ ReadStep(p, "startSave")
  /\ UNCHANGED tracked

StartSave(p, r, c) ==
  /\ pc[p] = "startSave"
  /\ RowVersionsMatch(p)
  /\ reservation[r] = NoReservation
  /\ SetSeats(Loaded(p), "Pending")
  /\ \E s \in Loaded(p) :
       reservation' = [reservation EXCEPT ![r] = NewReservation(s, c)]
  /\ LoadReservations(p, {r})
  /\ Committed(p, "Pending", "Ok")
  /\ UNCHANGED seen

StartConflict(p) ==
  /\ pc[p] = "startSave"
  /\ ~RowVersionsMatch(p)
  /\ Reject(p, "Conflict")

-------------------------------------------------------------------------------
(* ProcessPaymentAsync.                                                    *)

\* The client gets the id with the answer to its start, which comes after the notice.
Disclosed(r) ==
  ~ \E q \in Procs : pc[q] = "notify" /\ notice[q] = "Pending" /\ r \in tracked[q]

\* No row: NotFound; another client's: ReserveForbidden; AlreadyPaid or Expired: Conflict.
PayRejected(p, r, c) ==
  /\ pc[p] = "idle"
  /\ Disclosed(r)
  /\ ~Locked(p, {r})
  /\ \/ ~Stored(r) /\ Reject(p, "NotFound")
     \/ Stored(r) /\ reservation[r].client # c /\ Reject(p, "Forbidden")
     \/ /\ reservation[r].client = c
        /\ reservation[r].status \in {"Completed", "Expired"}
        /\ Reject(p, "Conflict")

PayReadReservation(p, r, c) ==
  /\ pc[p] = "idle"
  /\ Disclosed(r)
  /\ ~Locked(p, {r})
  /\ reservation[r].status = "Pending"
  /\ reservation[r].client = c
  /\ LoadReservations(p, {r})
  /\ ReadStep(p, "payReadSeat")
  /\ UNCHANGED seen

PaySeatUnavailable(p) ==
  /\ pc[p] = "payReadSeat"
  /\ \E s \in SeatsOf(tracked[p]) : ~CanReserve(seat[s].status)
  /\ Reject(p, "Conflict")

\* The clock is read, and the window checked, right after the seat.
PayReadSeat(p) ==
  /\ pc[p] = "payReadSeat"
  /\ \A s \in SeatsOf(tracked[p]) : CanReserve(seat[s].status)
  /\ LoadSeats(p, SeatsOf(tracked[p]))
  /\ IF \E r \in tracked[p] : TimedOut(reservation[r])
       THEN ReadStep(p, "payExpireSave")
       ELSE ReadStep(p, "payAwait")
  /\ UNCHANGED tracked

PayExpireSave(p) ==
  /\ pc[p] = "payExpireSave"
  /\ ~Locked(p, tracked[p])
  /\ SaveChanges(p, "Expired", "Available")
  /\ Committed(p, "Available", "Conflict")
  /\ UNCHANGED <<tracked, seen>>

\* A declined payment that is taken for a successful one.
PayDeclinedMutant(p) ==
  /\ pc[p] = "payAwait"
  /\ ReadStep(p, "payCommit")
  /\ UNCHANGED <<tracked, seen>>

PayDeclined(p) ==
  /\ pc[p] = "payAwait"
  /\ Reject(p, "Declined")

PaySucceeded(p) ==
  /\ pc[p] = "payAwait"
  /\ charged' = charged \union tracked[p]
  /\ Goto(p, "payCommit")
  /\ UNCHANGED <<seat, reservation, tracked, seen, notice, answer, board, resets, faults>>

PayCommit(p) ==
  /\ pc[p] = "payCommit"
  /\ ~Locked(p, tracked[p])
  /\ SaveChanges(p, "Completed", "Reserved")
  /\ Committed(p, "Reserved", "Ok")
  /\ UNCHANGED <<tracked, seen>>

\* DbUpdateConcurrencyException: PaymentFailed.
PayConflict(p) ==
  /\ pc[p] \in {"payExpireSave", "payCommit"}
  /\ ~Locked(p, tracked[p])
  /\ ~CanSave(p)
  /\ Reject(p, "Conflict")

-------------------------------------------------------------------------------
(* ResetReservationsAsync.                                                 *)

ResetReadReservations(p) ==
  /\ pc[p] = "idle"
  /\ resets < MaxResets
  /\ ~Locked(p, ReservationIds)
  /\ LoadReservations(p, {r \in ReservationIds : Stored(r)})
  /\ Goto(p, "resetDelete")
  /\ resets' = resets + 1
  /\ UNCHANGED <<seat, reservation, seen, notice, answer, board, charged, faults>>

\* DELETE: the rows are locked from here on, others see them gone at the COMMIT.
ResetDelete(p) ==
  /\ pc[p] = "resetDelete"
  /\ ~Locked(p, tracked[p])
  /\ RowsExist(p)
  /\ ReadStep(p, "resetReadSeats")
  /\ UNCHANGED <<tracked, seen>>

ResetReadSeats(p) ==
  /\ pc[p] = "resetReadSeats"
  /\ LoadSeats(p, Seats)
  /\ ReadStep(p, "resetCommit")
  /\ UNCHANGED tracked

ResetCommit(p) ==
  /\ pc[p] = "resetCommit"
  /\ ~Locked(p, tracked[p])
  /\ SaveChanges(p, "Deleted", "Available")
  /\ Committed(p, "Available", "Ok")
  /\ UNCHANGED <<tracked, seen>>

\* Rolled back and thrown on: the request ends in an internal error.
ResetConflict(p) ==
  /\ \/ pc[p] = "resetDelete" /\ ~Locked(p, tracked[p]) /\ ~RowsExist(p)
     \/ pc[p] = "resetCommit" /\ ~CanSave(p)
  /\ Reject(p, "Error")

-------------------------------------------------------------------------------
(* ExecuteAsync of the background service and                              *)
(* ExpirePendingReservationsAsync, which opens no transaction.             *)

\* nowUtc is read here: the rows on the far side of the cut-off are fixed from now on.
JobBegin ==
  /\ pc[Job] = "idle"
  /\ LoadReservations(Job, {r \in ReservationIds : Stored(r) /\ TimedOut(reservation[r])})
  /\ ReadStep(Job, "jobReadReservations")
  /\ UNCHANGED seen

JobReadReservations ==
  /\ pc[Job] = "jobReadReservations"
  /\ ~Locked(Job, ReservationIds)
  /\ LET batch == {r \in tracked[Job] : reservation[r].status = "Pending"}
     IN /\ LoadReservations(Job, batch)
        /\ ReadStep(Job, IF batch = {} THEN "idle" ELSE "jobReadSeats")
  /\ UNCHANGED seen

\* The seats are left out: the reservations expire and their seats stay as they are.
JobReadSeatsMutant ==
  /\ pc[Job] = "jobReadSeats"
  /\ ReadStep(Job, "jobSave1")
  /\ UNCHANGED <<tracked, seen>>

JobReadSeats ==
  /\ pc[Job] = "jobReadSeats"
  /\ LoadSeats(Job, SeatsOf(tracked[Job]))
  /\ ReadStep(Job, "jobSave1")
  /\ UNCHANGED tracked

\* seatRepository.UpdateRangeAsync: the context holds the expired reservations too.
JobSave1 ==
  /\ pc[Job] = "jobSave1"
  /\ ~Locked(Job, tracked[Job])
  /\ SaveChanges(Job, "Expired", "Available")
  /\ Goto(Job, "jobSave2")
  /\ UNCHANGED <<tracked, seen, notice, answer, board, charged, resets, faults>>

\* reservationRepository.UpdateRangeAsync: writes the reservations once more.
JobSave2 ==
  /\ pc[Job] = "jobSave2"
  /\ ~Locked(Job, tracked[Job])
  /\ RowsExist(Job)
  /\ SetReservations(tracked[Job], "Expired")
  /\ Goto(Job, "notify")
  /\ notice' = [notice EXCEPT ![Job] = "Available"]
  /\ UNCHANGED <<seat, tracked, seen, answer, board, charged, resets, faults>>

\* The exception is logged by the loop, the notice of this round is never sent.
JobConflict ==
  /\ ~Locked(Job, tracked[Job])
  /\ \/ pc[Job] = "jobSave1" /\ ~CanSave(Job)
     \/ pc[Job] = "jobSave2" /\ ~RowsExist(Job)
  /\ JobSleeps
  /\ UNCHANGED <<seat, reservation, answer, board, charged, resets, faults>>

-------------------------------------------------------------------------------
(* The notifier, the answer, failures and the clock.                       *)

AfterNotify(p) ==
  IF p = Job THEN JobSleeps
             ELSE /\ Goto(p, "answer")
                  /\ notice' = [notice EXCEPT ![p] = "Nothing"]
                  /\ UNCHANGED <<tracked, seen>>

Notify(p) ==
  /\ pc[p] = "notify"
  /\ board' = [s \in Seats |-> IF s \in Loaded(p) THEN notice[p] ELSE board[s]]
  /\ AfterNotify(p)
  /\ UNCHANGED <<seat, reservation, answer, charged, resets, faults>>

\* The exception of the notifier is logged and swallowed.
NotifyFails(p) ==
  /\ pc[p] = "notify"
  /\ faults < MaxFaults
  /\ faults' = faults + 1
  /\ AfterNotify(p)
  /\ UNCHANGED <<seat, reservation, answer, board, charged, resets>>

Return(p) ==
  /\ pc[p] = "answer"
  /\ Goto(p, "idle")
  /\ answer' = [answer EXCEPT ![p] = "NoAnswer"]
  /\ DisposeContext(p)
  /\ UNCHANGED <<seat, reservation, notice, board, charged, resets, faults>>

\* Any other exception before the COMMIT: a lost connection, a deadlock victim, a
\* cancelled request.  The transaction is rolled back.
Abort(p) ==
  /\ pc[p] \notin {"idle", "notify", "answer"}
  /\ faults < MaxFaults
  /\ faults' = faults + 1
  /\ IF p = Job
       THEN JobSleeps /\ UNCHANGED answer
       ELSE /\ Goto(p, "answer")
            /\ answer' = [answer EXCEPT ![p] = "Error"]
            /\ UNCHANGED <<tracked, seen, notice>>
  /\ UNCHANGED <<seat, reservation, board, charged, resets>>

\* The process dies and is started again: the database is all that is left.
Crash ==
  /\ \E p \in Procs : pc[p] # "idle"
  /\ faults < MaxFaults
  /\ faults' = faults + 1
  /\ pc' = [p \in Procs |-> "idle"]
  /\ notice' = [p \in Procs |-> "Nothing"]
  /\ answer' = [p \in Procs |-> "NoAnswer"]
  /\ tracked' = [p \in Procs |-> {}]
  /\ seen' = [p \in Procs |-> NothingSeen]
  /\ UNCHANGED <<seat, reservation, board, charged, resets>>

\* A row keeps its CreatedAtUtc in the memory of a handler when it is deleted.
Ages(r) == reservation[r].status # "None" /\ reservation[r].age < Timeout

Tick ==
  /\ \E r \in ReservationIds : Ages(r)
  /\ reservation' = [r \in ReservationIds |->
                       IF Ages(r) THEN [reservation[r] EXCEPT !.age = @ + 1]
                                  ELSE reservation[r]]
  /\ UNCHANGED <<seat, tracked, seen, pc, notice, answer, board, charged, resets, faults>>

-------------------------------------------------------------------------------
StartRequest(p) ==
  \/ StartNotFound(p)
  \/ \E s \in Seats : StartUnavailable(p, s) \/ StartLoad(p, s)

PayRequest(p) ==
  \E r \in ReservationIds, c \in Clients : PayRejected(p, r, c) \/ PayReadReservation(p, r, c)

\* The rest of a request that has been accepted.
Request(p) ==
  \/ \E r \in ReservationIds, c \in Clients : StartSave(p, r, c)
  \/ StartConflict(p)
  \/ PaySeatUnavailable(p) \/ PayReadSeat(p) \/ PayExpireSave(p)
  \/ PayDeclined(p) \/ PaySucceeded(p) \/ PayCommit(p) \/ PayConflict(p)
  \/ ResetDelete(p) \/ ResetReadSeats(p) \/ ResetCommit(p) \/ ResetConflict(p)
  \/ Notify(p)
  \/ Return(p)

Background ==
  \/ JobBegin \/ JobReadReservations \/ JobReadSeats
  \/ JobSave1 \/ JobSave2 \/ JobConflict
  \/ Notify(Job)

Next ==
  \/ \E p \in Slots : StartRequest(p) \/ PayRequest(p) \/ ResetReadReservations(p) \/ Request(p)
  \/ Background
  \/ \E p \in Procs : NotifyFails(p) \/ Abort(p)
  \/ Crash
  \/ Tick

Spec == Init /\ [][Next]_vars

(***************************************************************************)
(* What has begun goes on, the loop of the job keeps turning and time      *)
(* passes; nobody has to send a request, and nothing has to fail.          *)
(***************************************************************************)
Fairness ==
  /\ \A p \in Slots : WF_vars(Request(p))
  /\ WF_vars(Background)
  /\ WF_vars(Tick)

FairSpec == Spec /\ Fairness

===============================================================================
