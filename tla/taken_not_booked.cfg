\* One payment that outlasts its window.
SPECIFICATION FairSpec
CONSTANTS
  Seats = {s1}
  ReservationIds = {r1}
  Clients = {c1}
  Timeout = 1
  NoSeat = NoSeat
  NoClient = NoClient
  Slots = {p1}
  Job = job
  Procs = {p1, job}
  MaxResets = 0
  MaxFaults = 0
INVARIANT PaymentTakenIsBooked
