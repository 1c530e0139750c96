------------------------ MODULE ReservationTableProofs ------------------------
(***************************************************************************)
(* Lemmas about the two tables: every step changes them only in the way    *)
(* Evolves says, what a handler knows of them survives such a change       *)
(* (KnowledgeSurvives), and every save leaves them sound (SaveTables and   *)
(* the lemmas after it).                                                   *)
(***************************************************************************)
EXTENDS ReservationProofs

-------------------------------------------------------------------------------
(* How the tables change.                                                  *)

\* SaveChanges only moves the tables forward, if the rows it expires lie on seats it
\* writes and it completes none that has expired.
LEMMA SaveEvolves ==
  ASSUME TypeOK, NEW p \in Procs, NEW st \in {"Completed", "Expired", "Deleted"},
         NEW sst \in SeatStatus, SaveChanges(p, st, sst), charged' = charged,
         st = "Completed" => \A r \in tracked[p] : reservation[r].status # "Expired",
         st = "Expired" => \A r \in tracked[p] : reservation[r].seat \in Loaded(p)
  PROVE  Evolves
<1>1. SeatsEvolve
  BY DEF SeatsEvolve, SaveChanges, SetSeats, TypeOK, StoreTypeOK, Seat
<1>2. ASSUME NEW r \in ReservationIds PROVE RowEvolves(r)
  <2>1. CASE r \notin tracked[p]
    BY <2>1 DEF RowEvolves, SaveChanges, SetReservations, TypeOK, StoreTypeOK, Reservation
  <2>2. CASE r \in tracked[p]
    <3>1. /\ reservation'[r].status = st
          /\ reservation'[r].seat = reservation[r].seat
          /\ reservation'[r].age = reservation[r].age
      BY <2>2 DEF SaveChanges, SetReservations, TypeOK, StoreTypeOK, Reservation
    <3>2. reservation[r].status \in ReservationStatus
      BY <2>2 DEF SaveChanges, CanSave, RowsExist, Stored
    <3>3. ASSUME st = "Expired"
          PROVE  seat'[reservation[r].seat].rowVersion > seat[reservation[r].seat].rowVersion
      BY <2>2, <3>3
      DEF SaveChanges, SetSeats, Loaded, TypeOK, StoreTypeOK, Seat
    <3> QED
      BY <2>2, <3>1, <3>2, <3>3
      DEF RowEvolves, ReservationStatus, TypeOK, StoreTypeOK, Reservation
  <2> QED
    BY <2>1, <2>2
<1> QED
  BY <1>1, <1>2 DEF Evolves

\* A step that leaves the tables alone.
LEMMA NoChangeEvolves ==
  ASSUME TypeOK, UNCHANGED <<seat, reservation>>, charged \subseteq charged'
  PROVE  Evolves
BY DEF Evolves, SeatsEvolve, RowEvolves, TypeOK, StoreTypeOK, Reservation

\* The version of a seat that is still what a handler has read: so is its row.
LEMMA MatchUnchanged ==
  ASSUME TypeOK, TypeOK', Evolves, NEW p \in Procs, SeenNotAhead(p), NEW s \in Seats,
         seen'[p] = seen[p], seat'[s].rowVersion = seen'[p][s]
  PROVE  seat'[s] = seat[s]
BY DEF Evolves, SeatsEvolve, SeenNotAhead, TypeOK, StoreTypeOK, Seat

\* Versions never go back to 0, which stands for a seat that is not loaded.
LEMMA VersionsKept ==
  ASSUME TypeOK, TypeOK', VersionsStarted, Evolves
  PROVE  VersionsStarted'
<1>1. SUFFICES ASSUME NEW s \in Seats PROVE seat'[s].rowVersion >= 1
  BY DEF VersionsStarted
<1>2. seat'[s] = seat[s] \/ seat'[s].rowVersion > seat[s].rowVersion
  BY DEF Evolves, SeatsEvolve
<1>3. seat[s].rowVersion >= 1
  BY DEF VersionsStarted
<1>4. seat[s].rowVersion \in Nat /\ seat'[s].rowVersion \in Nat
  BY DEF TypeOK, StoreTypeOK, Seat
<1> QED
  BY <1>2, <1>3, <1>4

\* What a handler has read stays behind the tables, and the rows it tracks were there.
LEMMA ReadsSurvive ==
  ASSUME TypeOK, TypeOK', Evolves, NEW p \in Procs, HandlerOK(p),
         tracked'[p] = tracked[p], seen'[p] = seen[p]
  PROVE  SeenNotAhead(p)' /\ TracksRows(p)'
<1>1. SeenNotAhead(p)'
  <2>1. SUFFICES ASSUME NEW s \in Seats PROVE seen'[p][s] <= seat'[s].rowVersion
    BY DEF SeenNotAhead
  <2>2. seen[p][s] <= seat[s].rowVersion
    BY DEF HandlerOK, SeenNotAhead
  <2>3. seat'[s] = seat[s] \/ seat'[s].rowVersion > seat[s].rowVersion
    BY DEF Evolves, SeatsEvolve
  <2>4. seen[p][s] \in Nat /\ seat[s].rowVersion \in Nat /\ seat'[s].rowVersion \in Nat
    BY DEF TypeOK, StoreTypeOK, Seat
  <2>5. seen'[p][s] = seen[p][s]
    OBVIOUS
  <2> QED
    BY <2>2, <2>3, <2>4, <2>5
<1>2. TracksRows(p)'
  BY DEF HandlerOK, TracksRows, Evolves, RowEvolves, TypeOK, StoreTypeOK
<1> QED
  BY <1>1, <1>2

\* What a handler knows survives the steps of the others.
LEMMA KnowledgeSurvives ==
  ASSUME TypeOK, TypeOK', TablesOK, Evolves, NEW p \in Procs, HandlerOK(p),
         pc'[p] = pc[p], tracked'[p] = tracked[p], seen'[p] = seen[p]
  PROVE  HandlerOK(p)'
<1>1. SeenNotAhead(p)' /\ TracksRows(p)'
  BY ReadsSurvive
<1>2. ASSUME NEW r \in tracked[p]
      PROVE  /\ r \in ReservationIds
             /\ reservation[r].status # "None"
             /\ RowEvolves(r)
  BY DEF HandlerOK, TracksRows, Evolves, TypeOK, StoreTypeOK
<1>3. Loaded(p)' = Loaded(p)
  BY DEF Loaded
<1>4. SeatsOf(tracked[p])' = SeatsOf(tracked[p])
  BY <1>2 DEF SeatsOf, RowEvolves
<1>5. LoadedSoFar(p)'
  BY <1>3, <1>4 DEF HandlerOK, LoadedSoFar
<1>6. StartFresh(p)'
  <2>1. SUFFICES ASSUME pc[p] = "startSave" PROVE StartFresh(p)'
    BY DEF StartFresh
  <2>2. PICK s \in Seats : /\ Loaded(p) = {s}
                           /\ seat[s].rowVersion = seen[p][s] => seat[s].status = "Available"
    BY <2>1 DEF HandlerOK, StartFresh
  <2>3. ASSUME seat'[s].rowVersion = seen'[p][s] PROVE seat'[s].status = "Available"
    BY <2>2, <2>3, MatchUnchanged DEF HandlerOK
  <2> QED
    BY <1>3, <2>2, <2>3 DEF StartFresh
<1>7. PayFresh(p)'
  <2>1. SUFFICES ASSUME pc[p] \in {"payExpireSave", "payAwait", "payCommit"},
                        RowVersionsMatch(p)', NEW r \in tracked[p]
                 PROVE  /\ seat'[reservation'[r].seat].status = "Pending"
                        /\ pc[p] # "payExpireSave" => reservation'[r].status # "Expired"
    BY DEF PayFresh
  <2>2. ASSUME NEW s \in Loaded(p) PROVE s \in Seats /\ seat'[s] = seat[s]
    BY <1>3, <2>1, MatchUnchanged DEF RowVersionsMatch, HandlerOK, Loaded
  <2>3. RowVersionsMatch(p)
    BY <1>3, <2>1, <2>2 DEF RowVersionsMatch
  <2>4. /\ seat[reservation[r].seat].status = "Pending"
        /\ pc[p] # "payExpireSave" => reservation[r].status # "Expired"
    BY <2>1, <2>3 DEF HandlerOK, PayFresh
  <2>5. reservation[r].seat \in Loaded(p)
    BY <2>1 DEF HandlerOK, LoadedSoFar, SeatSaveLabels, SeatsOf
  <2>6. seat'[reservation[r].seat] = seat[reservation[r].seat]
    BY <2>2, <2>5
  <2>7. ~(seat'[reservation[r].seat].rowVersion > seat[reservation[r].seat].rowVersion)
    BY <2>2, <2>5, <2>6 DEF TypeOK, StoreTypeOK, Seat
  <2> QED
    BY <1>2, <2>4, <2>6, <2>7 DEF RowEvolves
<1>8. OnlyOverdue(p)'
  <2>1. SUFFICES ASSUME pc[p] \in JobLabels \union {"payExpireSave"}, NEW r \in tracked[p]
                 PROVE  reservation'[r].age >= Timeout
    BY DEF OnlyOverdue, JobLabels
  <2>2. reservation[r].age >= Timeout
    BY <2>1 DEF HandlerOK, OnlyOverdue
  <2>3. reservation'[r].age >= reservation[r].age
    BY <1>2 DEF RowEvolves
  <2>4. reservation[r].age \in Nat /\ reservation'[r].age \in Nat /\ Timeout \in Nat
    BY <1>2, DomainAssumption DEF TypeOK, StoreTypeOK, Reservation
  <2> QED
    BY <2>2, <2>3, <2>4
<1>9. PaidFirst(p)'
  BY DEF HandlerOK, PaidFirst, Evolves
<1>10. SavedOnce(p)'
  BY <1>2 DEF HandlerOK, SavedOnce, RowEvolves
<1> QED
  BY <1>1, <1>5, <1>6, <1>7, <1>8, <1>9, <1>10 DEF HandlerOK

-------------------------------------------------------------------------------
(* What the saves leave in the tables.                                     *)

\* A save that releases or reserves the seats of the rows it writes keeps the tables
\* sound: nothing else can have been what made one of those seats Pending or Reserved.
LEMMA SaveTables ==
  ASSUME TypeOK, TypeOK', TablesOK, Evolves,
         NEW p \in Procs, NEW st \in {"Completed", "Expired", "Deleted"},
         NEW sst \in {"Available", "Reserved"}, SaveChanges(p, st, sst), charged' = charged,
         \A r \in tracked[p] : reservation[r].seat \in Loaded(p),
         st = "Expired" => \A r \in tracked[p] : reservation[r].age >= Timeout,
         sst = "Reserved" => /\ st = "Completed"
                             /\ tracked[p] \subseteq charged
                             /\ Loaded(p) = SeatsOf(tracked[p])
  PROVE  TablesOK'
<1>1. ASSUME NEW r \in ReservationIds, r \notin tracked[p]
      PROVE  reservation'[r] = reservation[r]
  BY <1>1 DEF SaveChanges, SetReservations
<1>2. ASSUME NEW r \in tracked[p]
      PROVE  /\ r \in ReservationIds
             /\ reservation'[r].status = st
             /\ reservation'[r].seat = reservation[r].seat
             /\ reservation'[r].age = reservation[r].age
             /\ reservation[r].seat \in Loaded(p)
  BY DEF SaveChanges, SetReservations, TypeOK, StoreTypeOK, Reservation
<1>3. ASSUME NEW s \in Seats
      PROVE  /\ s \in Loaded(p) => seat'[s].status = sst
             /\ s \notin Loaded(p) => seat'[s] = seat[s]
  BY DEF SaveChanges, SetSeats
<1>4. VersionsStarted'
  BY VersionsKept DEF TablesOK
<1>5. RowsHaveSeats'
  BY <1>1, <1>2 DEF TablesOK, RowsHaveSeats, Loaded
<1>6. ExpiredInTime'
  BY <1>1, <1>2 DEF TablesOK, ExpiredInTime
<1>7. PendingSeatHeld'
  <2>1. SUFFICES ASSUME NEW s \in Seats, seat'[s].status = "Pending"
                 PROVE  \E r \in On(s)' : reservation'[r].status = "Pending"
    BY DEF PendingSeatHeld
  <2>2. s \notin Loaded(p) /\ seat'[s] = seat[s]
    BY <1>3, <2>1
  <2>3. PICK r \in On(s) : reservation[r].status = "Pending"
    BY <2>1, <2>2 DEF TablesOK, PendingSeatHeld
  <2>4. r \in ReservationIds /\ r \notin tracked[p]
    BY <1>2, <2>2 DEF On
  <2> QED
    BY <1>1, <2>3, <2>4 DEF On, Stored
<1>8. ReservedSeatPaid'
  <2>1. SUFFICES ASSUME NEW s \in Seats, seat'[s].status = "Reserved"
                 PROVE  \E r \in On(s)' : reservation'[r].status = "Completed" /\ r \in charged'
    BY DEF ReservedSeatPaid
  <2>2. CASE s \in Loaded(p)
    <3>1. sst = "Reserved"
      BY <1>3, <2>1, <2>2
    <3>2. PICK r \in tracked[p] : reservation[r].seat = s
      BY <2>2, <3>1 DEF SeatsOf
    <3> QED
      BY <1>2, <3>1, <3>2 DEF On, Stored, ReservationStatus
  <2>3. CASE s \notin Loaded(p)
    <3>1. PICK r \in On(s) : reservation[r].status = "Completed" /\ r \in charged
      BY <1>3, <2>1, <2>3 DEF TablesOK, ReservedSeatPaid
    <3>2. r \in ReservationIds /\ r \notin tracked[p]
      BY <1>2, <2>3, <3>1 DEF On
    <3> QED
      BY <1>1, <3>1, <3>2 DEF On, Stored
  <2> QED
    BY <2>2, <2>3
<1> QED
  BY <1>4, <1>5, <1>6, <1>7, <1>8 DEF TablesOK

\* A step that leaves the tables alone.
LEMMA NoChangeTables ==
  ASSUME TablesOK, UNCHANGED <<seat, reservation>>, charged \subseteq charged'
  PROVE  TablesOK'
BY DEF TablesOK, VersionsStarted, RowsHaveSeats, ExpiredInTime, PendingSeatHeld,
       ReservedSeatPaid, On, Stored

\* A start that finds its row version puts a Pending row on a seat that was Available, and
\* no other row is touched.
LEMMA StartWrites ==
  ASSUME IInv, NEW p \in Procs, NEW r \in ReservationIds, NEW c \in Clients,
         StartSave(p, r, c)
  PROVE  /\ charged' = charged
         /\ reservation[r].status = "None"
         /\ reservation'[r].status = "Pending"
         /\ \A q \in ReservationIds \ {r} : reservation'[q] = reservation[q]
         /\ \E s \in Seats : /\ reservation'[r].seat = s
                             /\ seat[s].status = "Available"
                             /\ seat'[s].status = "Pending"
                             /\ seat'[s].rowVersion > seat[s].rowVersion
                             /\ \A x \in Seats \ {s} : seat'[x] = seat[x]
<1>1. PICK s \in Seats : Loaded(p) = {s} /\ seat[s].status = "Available"
  <2>1. PICK s \in Seats : /\ Loaded(p) = {s}
                           /\ seat[s].rowVersion = seen[p][s] => seat[s].status = "Available"
    BY DEF IInv, HandlerOK, StartFresh, StartSave
  <2>2. seat[s].rowVersion = seen[p][s]
    BY <2>1 DEF StartSave, RowVersionsMatch
  <2> QED
    BY <2>1, <2>2
<1>2. /\ reservation' = [reservation EXCEPT ![r] = NewReservation(s, c)]
      /\ reservation[r].status = "None"
      /\ charged' = charged
      /\ reservation \in [ReservationIds -> Reservation]
  BY <1>1 DEF StartSave, NoReservation, Committed, IInv, TypeOK, StoreTypeOK
<1>3. /\ reservation'[r].status = "Pending"
      /\ reservation'[r].seat = s
      /\ \A q \in ReservationIds \ {r} : reservation'[q] = reservation[q]
  BY <1>2 DEF NewReservation
<1>4. /\ seat'[s].status = "Pending"
      /\ seat'[s].rowVersion > seat[s].rowVersion
      /\ \A x \in Seats \ {s} : seat'[x] = seat[x]
  BY <1>1 DEF StartSave, SetSeats, IInv, TypeOK, StoreTypeOK, Seat
<1> QED
  BY <1>1, <1>2, <1>3, <1>4

\* So a start keeps the tables sound.
LEMMA StartTables ==
  ASSUME IInv, TypeOK', NEW p \in Procs, NEW r \in ReservationIds, NEW c \in Clients,
         StartSave(p, r, c)
  PROVE  Evolves /\ TablesOK'
<1>1. /\ charged' = charged
      /\ reservation[r].status = "None"
      /\ reservation'[r].status = "Pending"
      /\ \A q \in ReservationIds \ {r} : reservation'[q] = reservation[q]
  BY StartWrites
<1>2. PICK s \in Seats : /\ reservation'[r].seat = s
                         /\ seat'[s].status = "Pending"
                         /\ seat'[s].rowVersion > seat[s].rowVersion
                         /\ \A x \in Seats \ {s} : seat'[x] = seat[x]
  BY StartWrites
<1>3. Evolves
  <2>1. SeatsEvolve
    BY <1>2 DEF SeatsEvolve
  <2>2. ASSUME NEW q \in ReservationIds PROVE RowEvolves(q)
    <3>1. reservation[q].age \in Nat
      BY DEF IInv, TypeOK, StoreTypeOK, Reservation
    <3> QED
      BY <1>1, <3>1 DEF RowEvolves
  <2> QED
    BY <1>1, <2>1, <2>2 DEF Evolves
<1>4. VersionsStarted'
  BY <1>3, VersionsKept DEF IInv, TablesOK
<1>5. RowsHaveSeats' /\ ExpiredInTime'
  BY <1>1, <1>2 DEF IInv, TablesOK, RowsHaveSeats, ExpiredInTime
<1>6. PendingSeatHeld'
  <2>1. SUFFICES ASSUME NEW x \in Seats, seat'[x].status = "Pending"
                 PROVE  \E q \in On(x)' : reservation'[q].status = "Pending"
    BY DEF PendingSeatHeld
  <2>2. CASE x = s
    BY <1>1, <1>2, <2>2 DEF On, Stored, ReservationStatus
  <2>3. CASE x # s
    <3>1. PICK q \in On(x) : reservation[q].status = "Pending"
      BY <1>2, <2>1, <2>3 DEF IInv, TablesOK, PendingSeatHeld
    <3> QED
      BY <1>1, <3>1 DEF On, Stored
  <2> QED
    BY <2>2, <2>3
<1>7. ReservedSeatPaid'
  <2>1. SUFFICES ASSUME NEW x \in Seats, seat'[x].status = "Reserved"
                 PROVE  \E q \in On(x)' : reservation'[q].status = "Completed" /\ q \in charged'
    BY DEF ReservedSeatPaid
  <2>2. PICK q \in On(x) : reservation[q].status = "Completed" /\ q \in charged
    BY <1>2, <2>1 DEF IInv, TablesOK, ReservedSeatPaid
  <2> QED
    BY <1>1, <2>2 DEF On, Stored
<1> QED
  BY <1>3, <1>4, <1>5, <1>6, <1>7 DEF TablesOK

\* A save writes only rows that exist: it gives no id to a reservation.
LEMMA SaveCreatesNone ==
  ASSUME NEW p \in Procs, NEW st, NEW sst, SaveChanges(p, st, sst),
         NEW r \in ReservationIds, reservation[r].status = "None"
  PROVE  reservation'[r] = reservation[r]
<1>1. r \notin tracked[p]
  BY DEF SaveChanges, CanSave, RowsExist, Stored, ReservationStatus
<1> QED
  BY <1>1 DEF SaveChanges, SetReservations

\* The job's second save writes what is there already.
LEMMA Save2Idle ==
  ASSUME IInv, JobSave2
  PROVE  UNCHANGED <<seat, reservation>>
<1>1. Job \in Procs
  BY ServiceAssumption
<1>2. ASSUME NEW r \in tracked[Job] PROVE reservation[r].status = "Expired"
  BY <1>1 DEF IInv, HandlerOK, SavedOnce, JobSave2, RowsExist, Stored, ReservationStatus
<1>3. ASSUME NEW r \in ReservationIds PROVE reservation'[r] = reservation[r]
  <2>1. CASE r \in tracked[Job]
    <3>1. reservation'[r] = [reservation[r] EXCEPT !.status = "Expired"]
      BY <2>1 DEF JobSave2, SetReservations
    <3>2. reservation[r] \in Reservation /\ reservation[r].status = "Expired"
      BY <1>2, <2>1 DEF IInv, TypeOK, StoreTypeOK
    <3> QED
      BY <3>1, <3>2 DEF Reservation
  <2>2. CASE r \notin tracked[Job]
    BY <2>2 DEF JobSave2, SetReservations
  <2> QED
    BY <2>1, <2>2
<1>4. /\ reservation = [r \in ReservationIds |-> reservation[r]]
      /\ reservation' = [r \in ReservationIds |-> reservation'[r]]
  BY DEF IInv, TypeOK, StoreTypeOK, JobSave2, SetReservations
<1>5. reservation' = reservation
  BY <1>3, <1>4
<1> QED
  BY <1>5 DEF JobSave2

\* Time only makes rows older.
LEMMA TickTables ==
  ASSUME IInv, TypeOK', Tick
  PROVE  Evolves /\ TablesOK'
<1>1. ASSUME NEW r \in ReservationIds
      PROVE  /\ reservation'[r].status = reservation[r].status
             /\ reservation'[r].seat = reservation[r].seat
             /\ reservation'[r].age >= reservation[r].age
             /\ reservation[r].age \in Nat /\ reservation'[r].age \in Nat
  BY DEF Tick, IInv, TypeOK, StoreTypeOK, Reservation
<1>2. seat' = seat /\ charged' = charged
  BY DEF Tick
<1>3. Evolves
  BY <1>1, <1>2 DEF Evolves, SeatsEvolve, RowEvolves
<1>4. VersionsStarted' /\ RowsHaveSeats'
  BY <1>1, <1>2 DEF IInv, TablesOK, VersionsStarted, RowsHaveSeats
<1>5. ExpiredInTime'
  BY <1>1, DomainAssumption DEF IInv, TablesOK, ExpiredInTime
<1>6. PendingSeatHeld' /\ ReservedSeatPaid'
  BY <1>1, <1>2 DEF IInv, TablesOK, PendingSeatHeld, ReservedSeatPaid, On, Stored
<1> QED
  BY <1>3, <1>4, <1>5, <1>6 DEF TablesOK

==============================================================================
