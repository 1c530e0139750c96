\* A change between the first fetch and the connection is lost.
SPECIFICATION FairSpec
CONSTANTS
  Seats = {s1}
  ReservationIds = {r1, r2}
  Clients = {me, c1}
  Timeout = 1
  Starts = {q1}
  Payments = {p1}
  MaxNotices = 2
  Resets = FALSE
  Losses = FALSE
  Tabs = FALSE
  NoSeat = NoSeat
  NoClient = NoClient
INVARIANT PageIsCurrent
