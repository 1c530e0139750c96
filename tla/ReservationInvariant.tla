------------------------- MODULE ReservationInvariant -------------------------
(***************************************************************************)
(* The inductive invariant of ReservationService: what the two tables      *)
(* satisfy by themselves, and what each handler may still rely on from its *)
(* earlier reads when it comes to save.                                    *)
(***************************************************************************)
EXTENDS ReservationProperties

PayLabels == {"payReadSeat", "payExpireSave", "payAwait", "payCommit"}

JobLabels == {"jobReadReservations", "jobReadSeats", "jobSave1", "jobSave2"}

\* The handlers about to write the seats of the reservations they track.
SeatSaveLabels == {"payExpireSave", "payAwait", "payCommit", "jobSave1"}

-------------------------------------------------------------------------------
(* The tables.                                                             *)

VersionsStarted == \A s \in Seats : seat[s].rowVersion >= 1

RowsHaveSeats ==
  \A r \in ReservationIds : reservation[r].status # "None" => reservation[r].seat \in Seats

TablesOK ==
  /\ VersionsStarted
  /\ RowsHaveSeats
  /\ ExpiredInTime
  /\ PendingSeatHeld
  /\ ReservedSeatPaid

-------------------------------------------------------------------------------
(* One handler.                                                            *)

\* A version once overtaken is never met again.
SeenNotAhead(p) == \A s \in Seats : seen[p][s] <= seat[s].rowVersion

TracksRows(p) == \A r \in tracked[p] : reservation[r].status # "None"

LoadedSoFar(p) ==
  /\ pc[p] \in {"idle", "payReadSeat", "jobReadReservations", "jobReadSeats"} => Loaded(p) = {}
  /\ pc[p] \in SeatSaveLabels => Loaded(p) = SeatsOf(tracked[p])
  /\ pc[p] = "resetCommit" => Loaded(p) = Seats
  /\ pc[p] \in PayLabels => \E r \in ReservationIds : tracked[p] = {r}
  /\ pc[p] \in JobLabels => p = Job

\* As long as the seat's version is the one it has read, the seat is still Available.
StartFresh(p) ==
  pc[p] = "startSave" =>
    \E s \in Seats : /\ Loaded(p) = {s}
                     /\ seat[s].rowVersion = seen[p][s] => seat[s].status = "Available"

\* As long as the seat's version is the one a payment has read, the seat is still Pending
\* and a reservation it found in time, though its row is not compared, has not expired.
PayFresh(p) ==
  pc[p] \in {"payExpireSave", "payAwait", "payCommit"} /\ RowVersionsMatch(p) =>
    \A r \in tracked[p] : /\ seat[reservation[r].seat].status = "Pending"
                          /\ pc[p] # "payExpireSave" => reservation[r].status # "Expired"

OnlyOverdue(p) ==
  pc[p] \in JobLabels \union {"payExpireSave"} =>
    \A r \in tracked[p] : reservation[r].age >= Timeout

PaidFirst(p) == pc[p] = "payCommit" => tracked[p] \subseteq charged

\* The job's second save has nothing left to do.
SavedOnce(p) ==
  pc[p] = "jobSave2" => \A r \in tracked[p] : reservation[r].status \in {"Expired", "Deleted"}

HandlerOK(p) ==
  /\ SeenNotAhead(p)
  /\ TracksRows(p)
  /\ LoadedSoFar(p)
  /\ StartFresh(p)
  /\ PayFresh(p)
  /\ OnlyOverdue(p)
  /\ PaidFirst(p)
  /\ SavedOnce(p)

\* What no interleaving may break for a handler to be able to trust its row versions when
\* it saves (ReservationService.cs:71, :168, :194, :268, :307).
IInv ==
  /\ TypeOK
  /\ TablesOK
  /\ \A p \in Procs : HandlerOK(p)

-------------------------------------------------------------------------------
(* How the tables may change in any step, as seen by those who have read   *)
(* them before.                                                            *)

SeatsEvolve ==
  \A s \in Seats : seat'[s] = seat[s] \/ seat'[s].rowVersion > seat[s].rowVersion

RowEvolves(r) ==
  reservation[r].status # "None" =>
    /\ reservation'[r].status # "None"
    /\ reservation'[r].seat = reservation[r].seat
    /\ reservation'[r].age >= reservation[r].age
    /\ reservation[r].status = "Expired" => reservation'[r].status \in {"Expired", "Deleted"}
    /\ reservation[r].status = "Deleted" => reservation'[r].status = "Deleted"
    /\ reservation'[r].status = "Expired" =>
         \/ reservation[r].status = "Expired"
         \/ seat'[reservation[r].seat].rowVersion > seat[reservation[r].seat].rowVersion

Evolves ==
  /\ SeatsEvolve
  /\ \A r \in ReservationIds : RowEvolves(r)
  /\ charged \subseteq charged'

===============================================================================
