---------------------------- MODULE BookingDomain ----------------------------
(***************************************************************************)
(* The domain layer: the Seat and Reservation aggregates, their statuses   *)
(* and the rule that decides when a temporary hold has run out.            *)
(*                                                                         *)
(* Guids (seat, reservation and client ids) are members of constant sets.  *)
(* Time is kept as the AGE of a reservation: the code only ever compares   *)
(* utcNow - CreatedAtUtc with the booking timeout, so the age is counted   *)
(* up to Timeout and stays there.                                          *)
(***************************************************************************)
EXTENDS Naturals

CONSTANTS Seats,            \* the seats of the hall (SeatId)
          ReservationIds,   \* the ids Guid.NewGuid() may draw (ReservationId)
          Clients,          \* the browsers' ids (ClientId)
          Timeout,          \* BookingTimeoutMinutes, in ticks of the clock
          NoSeat,           \* any Guid that names no seat
          NoClient          \* the client of a reservation never created

ASSUME DomainAssumption ==
  /\ Timeout \in Nat
  /\ NoSeat \notin Seats
  /\ NoClient \notin Clients

SeatStatus == {"Available", "Pending", "Reserved"}

ReservationStatus == {"Pending", "Completed", "Expired"}

(***************************************************************************)
(* "None" is an id not drawn yet, "Deleted" one whose row has been         *)
(* removed: an id is never drawn twice.                                    *)
(***************************************************************************)
RowStatus == ReservationStatus \union {"None", "Deleted"}

\* The SQL Server rowversion is only ever compared for equality: a counter will do.
Seat == [status : SeatStatus, rowVersion : Nat]

Reservation == [status : RowStatus,
                seat   : Seats \union {NoSeat},
                client : Clients \union {NoClient},
                age    : 0..Timeout]

\* Seat.Create
FreshSeat == [status |-> "Available", rowVersion |-> 1]

NoReservation == [status |-> "None", seat |-> NoSeat, client |-> NoClient, age |-> 0]

\* Reservation.Start with the Guid of the seat for that of the client: new ClientId(request.SeatId)
SeatForClientMutant(s, c) == [status |-> "Pending", seat |-> s, client |-> s, age |-> 0]

\* Reservation.Start
NewReservation(s, c) == [status |-> "Pending", seat |-> s, client |-> c, age |-> 0]

\* Seat.MarkAsPending without its check.
NoStatusCheckMutant(status) == TRUE

\* Seat.MarkAsPending throws unless
CanMarkAsPending(status) == status = "Available"

\* Seat.Reserve throws unless, and ProcessPayment returns early unless
CanReserve(status) == status = "Pending"

\* A window one tick short, and one that never closes.
EarlyTimeoutMutant(row) == row.age + 1 >= Timeout
NeverTimeoutMutant(row) == FALSE

\* utcNow - CreatedAtUtc >= expirationWindow
TimedOut(row) == row.age >= Timeout

==============================================================================
