\* One seat, one reservation, two requests at a time, which may both be resets.
SPECIFICATION FairSpec
CONSTANTS
  Seats = {s1}
  ReservationIds = {r1}
  Clients = {c1}
  Timeout = 1
  NoSeat = NoSeat
  NoClient = NoClient
  Slots = {p1, p2}
  Job = job
  Procs = {p1, p2, job}
  MaxResets = 2
  MaxFaults = 0
INVARIANTS IInv
PROPERTIES RequestAnswered HoldRunsOut BoardStaysInStep
