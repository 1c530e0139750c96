\* One seat, two reservations of two clients, two starts and a payment in progress, other tabs,
\* reloads and cleared storage; the hub is not reached: whose reservations the page pays for,
\* and what makes it forget them.
SPECIFICATION Spec
CONSTANTS
  Seats = {s1}
  ReservationIds = {r1, r2}
  Clients = {me, c1}
  Timeout = 0
  Starts = {q1, q2}
  Payments = {p1}
  MaxNotices = 0
  Resets = FALSE
  Losses = FALSE
  Tabs = TRUE
  NoSeat = NoSeat
  NoClient = NoClient
SYMMETRY Symmetry
INVARIANTS OwnReservations
PROPERTIES EntryIsKept
