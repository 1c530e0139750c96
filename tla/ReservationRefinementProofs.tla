---------------------- MODULE ReservationRefinementProofs ----------------------
(***************************************************************************)
(* ReservationService implements SeatLedger: seen through the two tables,  *)
(* the commit of a handler is one of the ledger's steps, and every other   *)
(* step of a handler is a stutter.                                         *)
(***************************************************************************)
EXTENDS ReservationSafetyProofs

-------------------------------------------------------------------------------
(* The tables after a save, as the ledger sees them.                       *)

\* A save that releases the seats of the rows it expires, and no others, is an Expire.
LEMMA ExpireIsLedger ==
  ASSUME IInv, NEW p \in Procs, SaveChanges(p, "Expired", "Available"),
         pc[p] \in {"payExpireSave", "jobSave1"}
  PROVE  Ledger!Next
<1>1. PICK rs \in SUBSET ReservationIds : rs = tracked[p]
  BY DEF IInv, TypeOK, StoreTypeOK
<1>2. ASSUME NEW r \in rs
      PROVE  reservation[r].status \in ReservationStatus /\ TimedOut(reservation[r])
  BY <1>1
  DEF SaveChanges, CanSave, RowsExist, Stored, IInv, HandlerOK, OnlyOverdue, JobLabels,
      TimedOut
<1>3. Loaded(p) = {s \in Seats : \E r \in rs : reservation[r].seat = s}
  <2>1. Loaded(p) = SeatsOf(tracked[p])
    BY DEF IInv, HandlerOK, LoadedSoFar, SeatSaveLabels
  <2> QED
    BY <1>1, <2>1, TrackedSeats DEF SeatsOf
<1>4. [s \in Seats |-> seat'[s].status]
        = [s \in Seats |-> IF \E r \in rs : reservation[r].seat = s
                             THEN "Available" ELSE [x \in Seats |-> seat[x].status][s]]
  BY <1>3 DEF SaveChanges, SetSeats
<1>5. Ledger!Expire(rs)
  BY <1>1, <1>2, <1>4
  DEF Ledger!Expire, SaveChanges, SetReservations, TimedOut, Ledger!TimedOut,
      ReservationStatus, Ledger!ReservationStatus
<1> QED
  BY <1>5 DEF Ledger!Next

\* A save that deletes rows and releases every seat is a Wipe.
LEMMA WipeIsLedger ==
  ASSUME IInv, NEW p \in Procs, ResetCommit(p)
  PROVE  Ledger!Next
<1>1. PICK rs \in SUBSET ReservationIds : rs = tracked[p]
  BY DEF IInv, TypeOK, StoreTypeOK
<1>2. /\ SaveChanges(p, "Deleted", "Available")
      /\ Loaded(p) = Seats
  BY DEF ResetCommit, IInv, HandlerOK, LoadedSoFar
<1>3. \A r \in rs : reservation[r].status \in ReservationStatus
  BY <1>1, <1>2 DEF SaveChanges, CanSave, RowsExist, Stored
<1>4. [s \in Seats |-> seat'[s].status] = [s \in Seats |-> "Available"]
  BY <1>2 DEF SaveChanges, SetSeats
<1>5. Ledger!Wipe(rs)
  BY <1>1, <1>2, <1>3, <1>4
  DEF Ledger!Wipe, SaveChanges, SetReservations, ReservationStatus, Ledger!ReservationStatus
<1> QED
  BY <1>5 DEF Ledger!Next

\* The commit of a payment is a Confirm.
LEMMA ConfirmIsLedger ==
  ASSUME IInv, NEW p \in Procs, PayCommit(p)
  PROVE  Ledger!Next
<1>1. /\ SaveChanges(p, "Completed", "Reserved")
      /\ pc[p] = "payCommit"
  BY DEF PayCommit
<1>2. PICK r \in ReservationIds : tracked[p] = {r}
  BY <1>1 DEF IInv, HandlerOK, LoadedSoFar, PayLabels
<1>3. /\ Loaded(p) = {reservation[r].seat}
      /\ reservation[r].seat \in Seats
  BY <1>1, <1>2, TrackedSeats DEF IInv, HandlerOK, LoadedSoFar, SeatSaveLabels, SeatsOf
<1>4. /\ reservation[r].status \in {"Pending", "Completed"}
      /\ seat[reservation[r].seat].status = "Pending"
  BY <1>1, <1>2
  DEF SaveChanges, CanSave, RowsExist, Stored, ReservationStatus, IInv, HandlerOK, PayFresh
<1>5. [s \in Seats |-> seat'[s].status]
        = [[s \in Seats |-> seat[s].status] EXCEPT ![reservation[r].seat] = "Reserved"]
  BY <1>1, <1>3 DEF SaveChanges, SetSeats
<1>6. reservation' = [reservation EXCEPT ![r].status = "Completed"]
  BY <1>1, <1>2 DEF SaveChanges, SetReservations, IInv, TypeOK, StoreTypeOK
<1>7. Ledger!Confirm(r)
  BY <1>3, <1>4, <1>5, <1>6 DEF Ledger!Confirm
<1> QED
  BY <1>7 DEF Ledger!Next

\* The commit of a start is a Hold.
LEMMA HoldIsLedger ==
  ASSUME IInv, NEW p \in Procs, NEW r \in ReservationIds, NEW c \in Clients,
         StartSave(p, r, c)
  PROVE  Ledger!Next
<1>1. PICK s \in Seats : /\ reservation'[r].seat = s
                         /\ seat[s].status = "Available"
                         /\ seat'[s].status = "Pending"
                         /\ \A x \in Seats \ {s} : seat'[x] = seat[x]
  BY StartWrites
<1>2. /\ reservation[r] = NoReservation
      /\ reservation' = [reservation EXCEPT ![r] = NewReservation(s, c)]
  BY <1>1 DEF StartSave, NewReservation, IInv, TypeOK, StoreTypeOK
<1>3. [x \in Seats |-> seat'[x].status]
        = [[x \in Seats |-> seat[x].status] EXCEPT ![s] = "Pending"]
  BY <1>1
<1>4. Ledger!Hold(r, s, c)
  BY <1>1, <1>2, <1>3
  DEF Ledger!Hold, NoReservation, Ledger!NoReservation, NewReservation, Ledger!NewReservation
<1> QED
  BY <1>4 DEF Ledger!Next

-------------------------------------------------------------------------------
(* The refinement.                                                         *)

\* The empty tables are the empty ledger.
LEMMA InitIsLedger == Init => Ledger!Init
BY DEF Init, StoreInit, Ledger!Init, FreshSeat, NoReservation, Ledger!NoReservation

\* Every step is a step of the ledger or leaves it as it is.
LEMMA NextIsLedger == IInv /\ [Next]_vars => [Ledger!Next]_(Ledger!vars)
<1> SUFFICES ASSUME IInv, [Next]_vars PROVE [Ledger!Next]_(Ledger!vars)
  OBVIOUS
<1>1. CASE UNCHANGED <<seat, reservation>>
  BY <1>1 DEF Ledger!vars
<1>2. ASSUME NEW p \in Procs, NEW r \in ReservationIds, NEW c \in Clients, StartSave(p, r, c)
      PROVE  Ledger!Next
  BY <1>2, HoldIsLedger
<1>3. ASSUME NEW p \in Procs, PayExpireSave(p) \/ PayCommit(p) \/ ResetCommit(p)
      PROVE  Ledger!Next
  BY <1>3, ExpireIsLedger, ConfirmIsLedger, WipeIsLedger DEF PayExpireSave
<1>4. CASE JobSave1
  BY <1>4, ExpireIsLedger, ServiceAssumption DEF JobSave1
<1>5. CASE Tick
  <2>1. Ledger!Tick
    BY <1>5 DEF Tick, Ages, Ledger!Tick
  <2> QED
    BY <2>1 DEF Ledger!Next
<1>6. CASE UNCHANGED vars
  BY <1>1, <1>6 DEF vars
<1> QED
  BY <1>1, <1>2, <1>3, <1>4, <1>5, <1>6, WritingSteps, ServiceAssumption

\* Whatever the handlers have read and whoever has run in between, the tables change only by
\* the atomic steps of SeatLedger (ReservationService.cs:71-77, :168-171, :194-197, :268-269,
\* :298-309).
THEOREM ServiceImplementsLedger == Spec => ImplementsLedger
<1>1. Init => Ledger!Init
  BY InitIsLedger
<1>2. IInv /\ [Next]_vars => [Ledger!Next]_(Ledger!vars)
  BY NextIsLedger
<1> QED
  BY <1>1, <1>2, InvariantHolds, PTL DEF Spec, ImplementsLedger, Ledger!Spec

==============================================================================
