------------------------------ MODULE SeatLedger ------------------------------
(***************************************************************************)
(* What the reservation service promises of the two tables, without        *)
(* handlers, DbContexts, row versions, locks or crashes: every handler,    *)
(* whatever it has read before and whoever has run in between, has at once *)
(* the effect of one of the four steps below, or none.                     *)
(*                                                                         *)
(* Two of the steps are weaker than the README has them, because the code  *)
(* is: Expire may take a reservation that is already Completed, and the    *)
(* seats it frees may be claimed by other reservations (README.md, section *)
(* 4); Wipe may leave behind a reservation that was started between the    *)
(* two reads of a reset.                                                   *)
(***************************************************************************)
EXTENDS BookingDomain

VARIABLES status,           \* the status of every seat
          reservation       \* the reservations, with their ages

vars == <<status, reservation>>

Init ==
  /\ status = [s \in Seats |-> "Available"]
  /\ reservation = [r \in ReservationIds |-> NoReservation]

\* A reservation is created and takes its seat in the same instant.
Hold(r, s, c) ==
  /\ status[s] = "Available"
  /\ reservation[r] = NoReservation
  /\ status' = [status EXCEPT ![s] = "Pending"]
  /\ reservation' = [reservation EXCEPT ![r] = NewReservation(s, c)]

\* Completed and seat Reserved together, from a Pending seat, never once it is Expired.
Confirm(r) ==
  /\ reservation[r].status \in {"Pending", "Completed"}
  /\ status[reservation[r].seat] = "Pending"
  /\ status' = [status EXCEPT ![reservation[r].seat] = "Reserved"]
  /\ reservation' = [reservation EXCEPT ![r].status = "Completed"]

\* Reservations whose window has closed expire, and all their seats are released.
Expire(rs) ==
  /\ \A r \in rs : reservation[r].status \in ReservationStatus /\ TimedOut(reservation[r])
  /\ status' = [s \in Seats |-> IF \E r \in rs : reservation[r].seat = s THEN "Available"
                                                                        ELSE status[s]]
  /\ reservation' = [r \in ReservationIds |->
                       IF r \in rs THEN [reservation[r] EXCEPT !.status = "Expired"]
                                   ELSE reservation[r]]

\* Reservations are deleted and every seat is released.
Wipe(rs) ==
  /\ \A r \in rs : reservation[r].status \in ReservationStatus
  /\ status' = [s \in Seats |-> "Available"]
  /\ reservation' = [r \in ReservationIds |->
                       IF r \in rs THEN [reservation[r] EXCEPT !.status = "Deleted"]
                                   ELSE reservation[r]]

Tick ==
  /\ reservation' = [r \in ReservationIds |->
                       IF reservation[r].status # "None" /\ reservation[r].age < Timeout
                         THEN [reservation[r] EXCEPT !.age = @ + 1]
                         ELSE reservation[r]]
  /\ UNCHANGED status

Next ==
  \/ \E r \in ReservationIds, s \in Seats, c \in Clients : Hold(r, s, c)
  \/ \E r \in ReservationIds : Confirm(r)
  \/ \E rs \in SUBSET ReservationIds : Expire(rs) \/ Wipe(rs)
  \/ Tick

Spec == Init /\ [][Next]_vars

===============================================================================
