\* Two requests for one seat, no notice is lost.
SPECIFICATION FairSpec
CONSTANTS
  Seats = {s1}
  ReservationIds = {r1, r2}
  Clients = {c1}
  Timeout = 1
  NoSeat = NoSeat
  NoClient = NoClient
  Slots = {p1, p2}
  Job = job
  Procs = {p1, p2, job}
  MaxResets = 0
  MaxFaults = 0
INVARIANT BoardIsCurrent
