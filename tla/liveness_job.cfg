\* Two seats, so that the job writes batches, one request at a time next to it, a reset and a
\* failure.
SPECIFICATION FairSpec
CONSTANTS
  Seats = {s1, s2}
  ReservationIds = {r1, r2}
  Clients = {c1}
  Timeout = 1
  NoSeat = NoSeat
  NoClient = NoClient
  Slots = {p1}
  Job = job
  Procs = {p1, job}
  MaxResets = 1
  MaxFaults = 1
INVARIANTS IInv
PROPERTIES HoldRunsOut PendingSeatFreed
