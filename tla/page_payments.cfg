\* One seat, two payments in progress at the same time, resets, notices, lost ones too, and a
\* connection that breaks.
SPECIFICATION FairSpec
CONSTANTS
  Seats = {s1}
  ReservationIds = {r1}
  Clients = {me}
  Timeout = 0
  Starts = {q1}
  Payments = {p1, p2}
  MaxNotices = 1
  Resets = TRUE
  Losses = TRUE
  Tabs = FALSE
  NoSeat = NoSeat
  NoClient = NoClient
INVARIANTS TypeOK NobodyWaitsInVain
PROPERTIES BusyEnds StaysInStep EntryIsKept
