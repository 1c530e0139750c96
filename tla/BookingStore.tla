----------------------------- MODULE BookingStore -----------------------------
(***************************************************************************)
(* The database as the handlers see it: the tables Seats and Reservations, *)
(* and one EF Core DbContext for every handler (it is a scoped service).   *)
(*                                                                         *)
(* A DbContext tracks the rows it has loaded.  SaveChanges writes all of   *)
(* them in one transaction, whichever repository it is called through:     *)
(*   - an UPDATE of Seats carries WHERE RowVersion = <the version loaded>, *)
(*     because SeatConfiguration makes RowVersion a concurrency token;     *)
(*   - an UPDATE or DELETE of Reservations carries only the key: the       *)
(*     statuses read before are not compared with those in the table.      *)
(* A statement that finds no row raises DbUpdateConcurrencyException.      *)
(***************************************************************************)
EXTENDS BookingDomain

CONSTANT Procs              \* the units of work, each with a DbContext

VARIABLES seat,             \* table Seats
          reservation,      \* table Reservations
          tracked,          \* the Reservations rows each DbContext tracks
          seen              \* the RowVersion with which it loaded each seat

storeVars == <<seat, reservation, tracked, seen>>

\* The version of a seat the DbContext has not loaded; stored versions start at 1.
NotLoaded == 0

NothingSeen == [s \in Seats |-> NotLoaded]

StoreTypeOK ==
  /\ seat \in [Seats -> Seat]
  /\ reservation \in [ReservationIds -> Reservation]
  /\ tracked \in [Procs -> SUBSET ReservationIds]
  /\ seen \in [Procs -> [Seats -> Nat]]

\* SeatSeeder has run: it creates the seats when the table is empty.
StoreInit ==
  /\ seat = [s \in Seats |-> FreshSeat]
  /\ reservation = [r \in ReservationIds |-> NoReservation]
  /\ tracked = [p \in Procs |-> {}]
  /\ seen = [p \in Procs |-> NothingSeen]

Stored(r) == reservation[r].status \in ReservationStatus

Loaded(p) == {s \in Seats : seen[p][s] # NotLoaded}

SeatsOf(rs) == {reservation[r].seat : r \in rs}

(***************************************************************************)
(* Queries.                                                                *)
(***************************************************************************)
LoadReservations(p, rs) == tracked' = [tracked EXCEPT ![p] = rs]

LoadSeats(p, ss) ==
  seen' = [seen EXCEPT ![p] = [s \in Seats |-> IF s \in ss THEN seat[s].rowVersion
                                                            ELSE seen[p][s]]]

\* The scope ends and its DbContext with it.
DisposeContext(p) ==
  /\ tracked' = [tracked EXCEPT ![p] = {}]
  /\ seen' = [seen EXCEPT ![p] = NothingSeen]

(***************************************************************************)
(* SaveChanges.                                                            *)
(***************************************************************************)
\* RowVersion without IsConcurrencyToken: every UPDATE finds its row.
UncheckedMutant(p) == TRUE

RowVersionsMatch(p) == \A s \in Loaded(p) : seat[s].rowVersion = seen[p][s]

RowsExist(p) == \A r \in tracked[p] : Stored(r)

CanSave(p) == RowVersionsMatch(p) /\ RowsExist(p)

SetReservations(rs, status) ==
  reservation' = [r \in ReservationIds |->
                    IF r \in rs THEN [reservation[r] EXCEPT !.status = status]
                                ELSE reservation[r]]

SetSeats(ss, status) ==
  seat' = [s \in Seats |->
             IF s \in ss THEN [status |-> status, rowVersion |-> seat[s].rowVersion + 1]
                         ELSE seat[s]]

SaveChanges(p, reservationStatus, seatStatus) ==
  /\ CanSave(p)
  /\ SetReservations(tracked[p], reservationStatus)
  /\ SetSeats(Loaded(p), seatStatus)

===============================================================================
