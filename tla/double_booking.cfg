\* The job against two requests and three reservations for one seat.
SPECIFICATION FairSpec
CONSTANTS
  Seats = {s1}
  ReservationIds = {r1, r2, r3}
  Clients = {c1}
  Timeout = 1
  NoSeat = NoSeat
  NoClient = NoClient
  Slots = {p1, p2}
  Job = job
  Procs = {p1, p2, job}
  MaxResets = 0
  MaxFaults = 0
INVARIANT NoDoubleBooking
