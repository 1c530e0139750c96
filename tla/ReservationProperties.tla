------------------------ MODULE ReservationProperties ------------------------
(***************************************************************************)
(* What ReservationService is meant to keep true, and what its README says *)
(* of it.  Of the second group the runs refute some: see README.md.        *)
(***************************************************************************)
EXTENDS ReservationService

On(s) == {r \in ReservationIds : Stored(r) /\ reservation[r].seat = s}

\* The reservations that claim a seat.
Claims(s) == {r \in On(s) : reservation[r].status # "Expired"}

-------------------------------------------------------------------------------
(* Invariants.                                                             *)

\* No seat is stuck: a Pending seat has a Pending reservation, which can be paid or
\* will be found by the job, however stale the reads of a release, a payment or a
\* reset were (ReservationService.cs:149, :253, :300).
PendingSeatHeld ==
  \A s \in Seats : seat[s].status = "Pending" =>
    \E r \in On(s) : reservation[r].status = "Pending"

\* A seat is shown as sold only if somebody paid for it: a Reserved seat has a
\* Completed reservation for which PayAsync succeeded (ReservationService.cs:186-197).
ReservedSeatPaid ==
  \A s \in Seats : seat[s].status = "Reserved" =>
    \E r \in On(s) : reservation[r].status = "Completed" /\ r \in charged

\* Nobody loses a reservation before the window closes: neither the job nor a payment
\* expires a row on another clock reading than its own (ReservationService.cs:163, :239).
ExpiredInTime ==
  \A r \in ReservationIds : reservation[r].status = "Expired" => reservation[r].age >= Timeout

-------------------------------------------------------------------------------
(* Action properties.                                                      *)

\* An expired reservation is not paid or revived by a handler that read it while it was
\* Pending, although the UPDATE of its row compares nothing (ReservationService.cs:194).
ExpiredIsFinal ==
  [][\A r \in ReservationIds : reservation[r].status = "Expired" =>
       reservation'[r].status \in {"Expired", "Deleted"}]_vars

\* Of several starts on a seat one succeeds: a reservation is only created together with
\* its seat turning from Available, in the table and not in a stale copy, to Pending
\* (ReservationService.cs:71).
HoldIsExclusive ==
  [][\A r \in ReservationIds :
       reservation[r].status = "None" /\ reservation'[r].status # "None" =>
         LET s == reservation'[r].seat
         IN seat[s].status = "Available" /\ seat'[s].status = "Pending"]_vars

\* A seat and the reservations that claim it agree.
Paired(s) ==
  \/ seat[s].status = "Available" /\ Claims(s) = {}
  \/ seat[s].status = "Pending" /\ \E r \in On(s) : /\ Claims(s) = {r}
                                                    /\ reservation[r].status = "Pending"
  \/ seat[s].status = "Reserved" /\ \E r \in On(s) : /\ Claims(s) = {r}
                                                     /\ reservation[r].status = "Completed"

\* Starts and payments keep a seat and its reservation in agreement; only a release on
\* stale reads (expiry or reset) takes a seat away from a reservation that claims it.
OnlyReleaseUnpairs ==
  [][\A s \in Seats : Paired(s) => Paired(s)' \/ seat'[s].status = "Available"]_vars

\* A reservation that has been paid, on a seat shown as sold.
Booked(r) == /\ reservation[r].status = "Completed"
             /\ seat[reservation[r].seat].status = "Reserved"

JobExpires == pc[Job] = "jobSave1" /\ pc'[Job] = "jobSave2"

ResetWipes == \E p \in Slots : pc[p] = "resetCommit" /\ pc'[p] = "notify"

\* No start, no payment and no expiry found by a payment, however old its reads are, takes
\* a booking away: only the job can (it does, README.md section 4) and a reset
\* (ReservationService.cs:71, :168, :194).
BookingIsKept ==
  [][\A r \in ReservationIds : Booked(r) => Booked(r)' \/ JobExpires \/ ResetWipes]_vars

\* The handlers that have written a seat and not yet sent the notice about it.
NoticesOf(s) ==
  {p \in Procs : pc[p] \in {"jobSave2", "notify"} /\ s \in Loaded(p)}

\* The job publishes after its second save.
WillPublish(p) == IF pc[p] = "jobSave2" THEN "Available" ELSE notice[p]

\* What the pages show of a seat is right, or the one notice on its way puts it right.
BoardInStep(s) ==
  \/ NoticesOf(s) = {} /\ board[s] = seat[s].status
  \/ \E p \in Procs : NoticesOf(s) = {p} /\ WillPublish(p) = seat[s].status

\* A seat is shown wrongly only after two notices about it were under way together, a
\* failure, or a second save of the job that did not find its rows
\* (ReservationService.cs:83-90, :176, :206, :273, :314).
BoardStaysInStep ==
  [][\A s \in Seats : BoardInStep(s) =>
       \/ BoardInStep(s)'
       \/ \E p, q \in NoticesOf(s)' : p # q
       \/ faults' > faults
       \/ pc[Job] = "jobSave2" /\ pc'[Job] = "idle"]_vars

-------------------------------------------------------------------------------
(* Refinement.                                                             *)

Ledger == INSTANCE SeatLedger WITH status <- [s \in Seats |-> seat[s].status]

\* Every interleaving of handlers, with all their stale reads, lost saves and crashes,
\* changes the tables only by the atomic steps of SeatLedger
\* (ReservationService.cs:71-77, :168-171, :194-197, :268-269, :298-309).
ImplementsLedger == Ledger!Spec

-------------------------------------------------------------------------------
(* Liveness.                                                               *)

\* A hold that is not paid runs out: the job gets it in spite of the saves it loses to
\* payments, starts and resets (ReservationExpirationBackgroundService.cs:28-55).
HoldRunsOut ==
  \A r \in ReservationIds :
    (reservation[r].status = "Pending" /\ reservation[r].age = Timeout)
      ~> reservation[r].status # "Pending"

\* No seat stays Pending for ever (ReservationService.cs:265-269).
PendingSeatFreed ==
  \A s \in Seats : seat[s].status = "Pending" ~> seat[s].status # "Pending"

\* Every request gets its answer, also the ones that wait for the locks of a reset.
RequestAnswered == \A p \in Slots : pc[p] # "idle" ~> pc[p] = "idle"

-------------------------------------------------------------------------------
(* What the README promises.                                               *)

\* README.md:15-16, Reservation.cs:43: a paid reservation is not expired afterwards.
CompletedIsNotExpired ==
  [][\A r \in ReservationIds : reservation[r].status = "Completed" =>
       reservation'[r].status # "Expired"]_vars

\* README.md:89: RowVersion prevents double booking.
NoDoubleBooking ==
  \A r1, r2 \in ReservationIds :
    /\ reservation[r1].status = "Completed"
    /\ reservation[r2].status = "Completed"
    /\ reservation[r1].seat = reservation[r2].seat
    => r1 = r2

\* README.md:16: a payment that succeeded is not answered by an error.
PaymentTakenIsBooked ==
  \A p \in Slots : answer[p] \in {"Conflict", "Error"} /\ pc[p] = "answer" =>
    tracked[p] \intersect charged = {}

\* README.md:21: when nothing is going on, the pages show the seats as they are.
BoardIsCurrent ==
  (\A p \in Procs : pc[p] = "idle") => \A s \in Seats : board[s] = seat[s].status

===============================================================================
