\* Two seats, so that the job and a reset write batches; two requests at a time, one reset.
SPECIFICATION Spec
CONSTANTS
  Seats = {s1, s2}
  ReservationIds = {r1, r2}
  Clients = {c1}
  Timeout = 1
  NoSeat = NoSeat
  NoClient = NoClient
  Slots = {p1, p2}
  Job = job
  Procs = {p1, p2, job}
  MaxResets = 1
  MaxFaults = 0
SYMMETRY Symmetry
INVARIANTS TypeOK PendingSeatHeld ReservedSeatPaid ExpiredInTime
PROPERTIES ImplementsLedger HoldIsExclusive OnlyReleaseUnpairs ExpiredIsFinal BookingIsKept
