# SeatBooking in TLA+

A TLA+ model of the seat booking service of this repository, checked with TLC
and proved about with TLAPS. Paths below start at the root of the repository;
`S` stands for `src/SeatBooking.Application/Services/ReservationService.cs`.

## 1. The system

| Component | State | Operations | Interacts with |
|---|---|---|---|
| Domain (`Seat.cs`, `Reservation.cs`) | status of a seat, status and `CreatedAtUtc` of a reservation | `MarkAsPending`, `Reserve`, `Release`; `Start`, `CompletePayment`, `Expire` | called by the service on tracked entities |
| Storage (`RepositoryBase.cs`, `*Configuration.cs`, SQL Server) | tables `Seats` (with `RowVersion`) and `Reservations`; one `DbContext` per scope | queries, `SaveChanges`, transactions | shared by all handlers |
| `ReservationService` | none of its own: what a handler has read | `StartReservationAsync`, `ProcessPaymentAsync`, `ExpirePendingReservationsAsync`, `ResetReservationsAsync` | storage, payment, notifier |
| `ReservationExpirationBackgroundService` | its loop | calls `ExpirePendingReservationsAsync` every 10 s in a scope of its own | runs next to the requests |
| `PaymentService` | none | `PayAsync`: two seconds, then Succeeded or Failed | awaited inside the transaction of a payment |
| `SeatBookingNotifier`, `SeatBookingHub` | the group of connected pages | `SeatUpdated`, `SeatsUpdated` | called after each COMMIT |
| Seats page (`wwwroot/js`) | seats shown, a payment in progress; client id and open reservations in `localStorage` | fetch, hub events, click, pay, reset, reload | API and hub; other tabs, through `localStorage` |
| Start-up: `Program.cs`, migrations, `SeatSeeder` | the migrations applied, the hall | migrate, then seed, then serve | storage, and other instances that start at the same time |
| API layer, validators | none | routes, error mapping | between page and service |
| Service discovery | the registrations | attribute scan at start-up | composition root |
| Specifications | a query under construction | criteria, ordering, paging | storage |

What is hard here: requests and the job run concurrently, each on a `DbContext`
with its own copies of the rows; only `Seats` has a concurrency token, so a
reservation's row is overwritten whatever has become of it; a payment waits two
seconds between reading and saving; the job reads reservations and seats in two
queries without a transaction, and then saves twice; a reset reads its two
tables at different times and holds row locks in between; notices are sent after
the COMMIT, in whatever order the handlers get there; any handler may be
cancelled or die between two of its steps. In the browser all tabs share one client id and
one store of entries, which each page reads at different times. Several instances may start
at once, each acting on a check of the database that is out of date when it writes.

What makes each component correct:

* service and storage: a seat and the reservations that claim it agree; a seat is
  held once; holds run out, not early and not never; paid means Completed and
  Reserved; an expired reservation is never revived; failures leave sound tables;
* job: every overdue hold is released, whatever saves it loses;
* notifier and page: what is shown when nothing is going on is what is stored;
* page: it falls behind the server only in ways that can be named, and pays only for
  reservations made with its own client id;
* start-up: one whole hall, whoever wins, and nobody serves before it is there.

## 2. Modules

| Module | What it is |
|---|---|
| `BookingDomain` | statuses, rows, the guards of the transitions, the booking window |
| `BookingStore` | the two tables and the `DbContext` of every handler; `SaveChanges` with its optimistic check |
| `ReservationService` | all handlers of the service, the loop of the job, notices, failures, the clock; extends `BookingStore` |
| `ReservationProperties` | the properties, and the refinement mapping to `SeatLedger` |
| `SeatLedger` | abstract: the four atomic steps the tables can take |
| `ReservationInvariant` | the inductive invariant |
| `ReservationProofs` | type correctness, proved |
| `ReservationTableProofs` | lemmas: how the two tables change, and what a handler still knows afterwards |
| `ReservationSafetyProofs` | the invariant and the safety properties, proved |
| `ReservationRefinementProofs` | the refinement to `SeatLedger`, proved |
| `ReservationStepProofs` | bookings and the board of the pages, and what needs a race or a stale release to go wrong, proved |
| `SeatsPage` | the page in one tab on top of the server, which is `SeatLedger`, and the storage it shares with other tabs; its properties |
| `SeatsPageProofs` | its types, and whose reservations it pays for, proved |
| `SeatsPageStepProofs` | when it falls behind the server, what it waits for, and when it forgets a hold, proved |
| `ServiceDiscovery` | pure: what a decorated class is registered as |
| `Startup` | several instances that migrate and seed one database, and serve; its properties, inductive invariant and the mapping to `HallOpening` |
| `HallOpening` | abstract: a hall that gets its seats at once, and who may open it |
| `StartupProofs` | the safety properties of `Startup` and its refinement to `HallOpening`, proved |
| `MCReservationService`, `MCSeatsPage`, `MCStartup` | symmetry for TLC; the constants are given in the `.cfg` files |

`SeatsPage` is composed with the abstract server and not with the handlers: by
`ServiceImplementsLedger` whatever the handlers do to the tables is a behaviour of
`SeatLedger`, so a page on top of the ledger meets everything the service can do to it. `Startup` ends where
`ReservationService` begins: its `serving` instances find the hall of `BookingStore!StoreInit`.

### State

| Variable | In the code |
|---|---|
| `seat`, `reservation` | the committed tables `Seats` and `Reservations` |
| `tracked[p]`, `seen[p]` | the change tracker of handler `p`'s `DbContext`: the reservations loaded, and the `RowVersion` each seat had when it was loaded (0: not loaded) |
| `pc[p]` | which `await` handler `p` is at |
| `notice[p]` | the status in the DTO that will be published for the loaded seats |
| `answer[p]` | the result the request is going to return |
| `board` | the seats on a page that has received every notice so far |
| `charged` | history: the reservations for which `PayAsync` returned Succeeded |
| `resets`, `faults` | counters of the two bounds |

Ids, seats and clients are members of constant sets. An id that has not been drawn
has status `"None"`, one whose row was removed `"Deleted"`. A payment request names
a reservation only after its start has published its notice (`Disclosed`): the client
learns the id from the answer, which comes later still.

`CreatedAtUtc` appears as the *age* of a reservation, counted up to `Timeout`: the code
only compares `utcNow - CreatedAtUtc` with the window. All ages advance together in
`Tick`, at any moment, so a handler may be arbitrarily slow.

### Steps

A step is the code between two awaits on the database, the payment service or the
notifier. `Slots` are the requests in progress at the same time, `Job` is the
background service.

| Handler | Steps |
|---|---|
| start (`S`:38-110) | `StartNotFound`, `StartUnavailable` or `StartLoad`; `StartSave` or `StartConflict`; `Notify`; `Return` |
| pay (`S`:112-231) | `PayRejected` or `PayReadReservation`; `PaySeatUnavailable` or `PayReadSeat`; then `PayExpireSave`, or `PayDeclined`, or `PaySucceeded` and `PayCommit`; `PayConflict` when a save fails |
| job (`S`:233-286) | `JobBegin` (reads the clock), `JobReadReservations`, `JobReadSeats`, `JobSave1`, `JobSave2`, `Notify`; `JobConflict` when a save fails |
| reset (`S`:288-329) | `ResetReadReservations`, `ResetDelete`, `ResetReadSeats`, `ResetCommit`; `ResetConflict` |
| anyone | `NotifyFails` (swallowed), `Abort` (any other exception or a cancellation: rollback), `Crash` (process restart) |

`JobSave1` is `seatRepository.UpdateRangeAsync`. It writes the reservations as well: both
repositories of a scope share the `DbContext`, and `SaveChanges` writes all that is
modified. `JobSave2` then writes the reservations again.

### The page

| Variable of `SeatsPage` | In the code |
|---|---|
| `status`, `reservation` | the server's tables, as `SeatLedger` has them |
| `shown`, `offered` | `state.seatsById` and the grid; the Pending cards that were drawn as waiting for payment |
| `clientId`, `storedId` | `state.clientId`, read when the page is loaded; the id in `localStorage` |
| `entry` | `SeatBookingReservationsStore`: for each seat a reservation and the client id it was made with |
| `dialog`, `paymentBusy` | `state.currentReservation`, `state.paymentBusy` |
| `start[q]` | an `onSeatClicked` that waits for its start: the seat, and whether it is sent, refused, or the id in its answer; nothing stops a second one on the same seat (`seats-page.js:175-206`) |
| `pay[p]` | an `onPayClicked` in progress: sent, answered, waiting for the fetch after a success, or over but for its timer (`closing`) |
| `get`, `reset` | the fetch (`state.isLoading`) with its answer on the way; the reset request |
| `conn`, `notices` | the connection to the hub, and the notices sent but not yet delivered |

A step runs to the next `await`, as the event loop does: `ClickAvailable`, `ClickPending`,
`ClickPay`, `Dismiss`, `ClickReset` are what the visitor can do; `StartEnds`, `PayFailed`,
`PaySucceeded`, `PaySucceededUnseen`, `GetEnds`, `ResetEnds`, `CloseTimer` are how the handlers
go on; `Deliver` is a notice; `Connect`, `Disconnect` are SignalR's. The server's end of a
request (`ServerStart`, ...) happens at any moment between; the request may fail before it has
had an effect, or its answer be lost after. `ServerMoves` is everyone else: other
visitors, the job, resets, the clock.

`Reload` is the page loaded again: it keeps what is in `localStorage` and forgets the rest, its
requests included, which go on at the server without it (`Elsewhere`). `OtherTab` is what other
tabs of the browser do to the storage: they enter what they have reserved, possibly under an id
they have kept since the site's data were cleared (each page reads the id only once,
`seat-booking-client-id.js:15-22`), they remove entries, they are loaded, and the data may be
cleared. One page is modelled with all it does, the others by what this one can see of them.

An open dialogue covers the grid and the reset button, so there are no clicks on them; Escape
or a click beside the dialogue closes it, also during a payment, because the dialogue has no
static backdrop (`Pages/Seats/Index.cshtml:45`) and only its buttons are disabled
(`seats-page.js:168-173`). Whether a Pending seat can be clicked was decided when its card was
drawn (`offered`); whether the click does anything depends on the entry there is now.

### Assumptions on the browser and SignalR

* The notices of one page arrive in the order in which the server sends them. Here they are sent
  in the order of the commits: that this is not so is item 4 of section 4, and is kept out of
  the page's model. A notice may be missing altogether, because `ReservationService` swallows
  an exception of the notifier (`Losses`).
* Answers to requests and notices travel independently of each other.
* A disconnected page loses what is on its way. The first connection is tried until it succeeds
  (`seat-booking-realtime.js:16-24`), an automatic reconnect four times; either is `Connect` at
  some moment, or never.
* `localStorage` is read and written at once, so `set` and `remove`, which read the whole store
  and write it back, do not interleave with those of another tab.
* `crypto.randomUUID` gives an id nobody has used (`Fresh`).
* A fetch reads all the seats at one moment.

### Assumptions on EF Core and SQL Server

They are not part of this repository and are modelled from how it uses them.

* READ COMMITTED with locks (the default of LocalDB; no snapshot): a query sees
  committed rows only and waits for a row that is locked.
* From the first UPDATE of a transaction to its COMMIT is one step. Start and payment
  await nothing but the database in between, and what they have written is locked.
  Reset goes on to read and update the seats after its DELETE: there the locks of
  the deleted rows are modelled (`HeldBy`), and payments, the job and other resets that
  need those rows wait.
* A lock cycle is broken by SQL Server with an exception in one of the handlers, and
  that is an `Abort`. Which one is chosen is left open.
* `Update(entity)` on a tracked entity marks it modified, so an UPDATE is sent and the row
  version grows even when no value has changed (`Release` of an Available seat).
* An UPDATE or DELETE that finds no row raises `DbUpdateConcurrencyException`.
* A request that fails validation (400) touches nothing and is left out.
* `Database.Migrate` holds a lock on the database while it looks at what is pending and applies
  it, and each migration and each `SaveChanges` is a transaction. EF Core may put
  both migrations in one transaction; then the database between them is not seen by others,
  which `Startup` allows as well. A process that dies leaves no lock and nothing uncommitted.

### The start-up

| Variable of `Startup` | In the code |
|---|---|
| `applied` | the rows of `__EFMigrationsHistory`: `Intial`, `AddSeatNumber` |
| `numberless` | the seats an earlier version has made, before `AddSeatNumber` |
| `hall` | the rows of `Seats` that have a number, and (history) who has inserted each |
| `phase[i]` | where instance i is in `Program.cs` |
| `maxSeats[i]` | the `MaxSeats` it was started with |

`CheckPending` is `GetPendingMigrations`, without the lock; `Lock`, `Intial`, `AddSeatNumber` or
`AddSeatNumberFails`, and `Migrated` are `Migrate`; `SeedCheck` is the seeder's `ExistsAsync`;
`Seed` or `SeedFails` its `CreateRangeAsync`, which the unique index on `Number` refuses if
another instance has been faster. An exception ends the program (`Program.cs:19-29`); whoever
runs it may start it again, with another `MaxSeats`, but nothing in the repository does. `Fault` is a process that dies, is
stopped or loses its connection. `SeedCheck` asks `ServiceDiscovery` whether the seeder is found.

## 3. Properties and runs

All passing runs check for deadlock too, apart from `startup`, which may stop when everybody serves.

| Run | Instance | Checks |
|---|---|---|
| `two_seats_reset` | 2 seats, 2 reservations, 2 requests, job, 1 reset | `TypeOK`, `PendingSeatHeld`, `ReservedSeatPaid`, `ExpiredInTime`, `ImplementsLedger`, `HoldIsExclusive`, `OnlyReleaseUnpairs`, `ExpiredIsFinal`, `BookingIsKept` |
| `liveness_job` | 2 seats, 2 reservations, 1 request at a time, job, 1 reset, 1 failure | `IInv`, `HoldRunsOut`, `PendingSeatFreed` |
| `liveness_locks` | 1 seat, 1 reservation, 2 requests, job, 2 resets | `IInv`, `RequestAnswered`, `HoldRunsOut`, `BoardStaysInStep` |

* `HoldIsExclusive`: a reservation is only created together with its seat turning from
  Available to Pending in the table, however many starts have read it as Available.
* `OnlyReleaseUnpairs`: a seat and the one reservation that claims it stay in agreement
  under starts and payments. Only a release can separate them; that this does happen
  is what items 1 and 2 of section 4 are about.
* `ExpiredIsFinal`: a payment that read a reservation before it expired never completes it,
  although its UPDATE compares nothing: the seat's row version is what prevents it.
* `PendingSeatHeld`: no Pending seat without a Pending reservation, so no seat is stuck.
* `ReservedSeatPaid`: no Reserved seat without a Completed and charged reservation.
* `ExpiredInTime`: nothing is expired before its window has closed.
* `ImplementsLedger`: the whole service refines `SeatLedger`: each step of each handler
  is one of `Hold`, `Confirm`, `Expire`, `Wipe`, the clock, or invisible in the tables. `Wipe` is
  weaker than a reset should be: a reservation that starts between its two reads (`S`:294,
  `S`:300) survives it, Pending on a seat that is Available.
* `HoldRunsOut`, `PendingSeatFreed`: overdue holds and Pending seats do go away, also from a batch in
  which the stale row version of one seat fails the save of the other (`liveness_job`). The hold that
  has survived a reset runs out as every other: in `liveness_locks` two requests may be such a start
  and such a reset.
* `RequestAnswered`: every request ends, the ones waiting for a reset's locks too.
* `BookingIsKept`: a Completed reservation on a Reserved seat stays so, whatever starts and
  payments have read before; only the job (item 1 of section 4) and a reset take it away.
* `BoardStaysInStep`: what the pages show of a seat is right, or the one notice about it that is on
  its way will put it right. It goes wrong only when two notices about the seat are
  under way together, when something fails, or when the job's second save does not find
  its rows, so that its notice is never sent. That it does go wrong then is item 4 of section 4.

| Run of the page | Instance | Checks |
|---|---|---|
| `page_tabs` | 1 seat, 2 reservations, 2 clients, 2 starts and 1 payment in progress, other tabs, reloads, cleared storage; not connected | `OwnReservations`, `EntryIsKept` |
| `page_payments` | 1 seat, 1 reservation, 1 start and 2 payments in progress, 1 notice on its way or lost, disconnections, resets | `TypeOK`, `NobodyWaitsInVain`, `BusyEnds`, `StaysInStep`, `EntryIsKept` |

* `StaysInStep`: if delivering what is on its way would make a page right, so will every later
  step while it is connected, with two exceptions: a commit whose notice is lost, and a
  notice that is delivered while the answer to a fetch is on its way. In both the page
  really does fall behind; in the second `refreshSeats` draws the older status over the newer one.
* `OwnReservations`: the page pays only for reservations that were made with the client id it has
  now, each under its own seat, though the storage is shared with pages that have other ids,
  though the data may have been cleared, and though a dialogue may have been open when the
  answer to a start came. Every entry, also one of another tab, is under the seat it was made for.
* `EntryIsKept`: as long as a hold stands, its entry, without which it cannot be paid once its dialogue
  is closed, is taken from the page in five ways only: by a notice about the seat that comes when
  another is to follow or the page is behind (item 6 of section 4); by the success of the
  payment of another reservation, which removes the entry of the dialogue open then (`seats-page.js:225`);
  by the answer to another start on the seat, whose entry takes its place; by the page's own reset, whose
  `clear` also takes what was reserved after it; by a step of another tab. Each is stated as the step it
  is, so a page that forgot the entry when a payment fails, a start is refused, the dialogue is
  dismissed, a fetch ends, the page is reloaded or a true notice comes would violate the property.
  `page_tabs` has the second, third and fifth way, `page_payments` the first and the fourth.
* `NobodyWaitsInVain`: the buttons are disabled only while there is a payment that will enable them,
  and whoever waits for a fetch - `init` to connect, a payment or a reset to end - has one under way.
* `BusyEnds`: the payment buttons come back, though a payment that ended may have enabled them
  while another one is running.

| Run of the start-up | Instance | Checks |
|---|---|---|
| `startup` | 3 instances, sizes 0 to 2, 0 to 2 earlier seats, 1 crash | `StartupInv`, `HallIsWhole`, `HallSettles`, `ServesReady`, `ImplementsHall`, `SomebodyServes` |

* `HallIsWhole`: instances that have all found the hall empty insert their seats at the same time,
  and what is left is never a mixture of two sizes.
* `HallSettles`: seats that are there are not touched by a seeder whose check is out of date.
* `ServesReady`: no instance serves before the database is migrated and has seats (unless the
  instance is to have none).
* `ImplementsHall`: the start-up implements `HallOpening`, in which a hall is furnished in one step, by
  an instance that opens with it, and everybody else opens with the seats there are.
* `SomebodyServes`: the instances do not all fail one another. Once one has been started that has
  not yet checked for seats, one comes to serve, unless something dies meanwhile. An instance that
  has already found the hall empty promises nothing by itself: the one that wins its race may be
  gone when it loses. The other case without a server is a database with several seats from before
  `AddSeatNumber`: they would all get the number 0 under a unique index, so the migration
  fails at every start (`20260106180443_AddSeatNumber.cs:13-24`); the condition
  `numberless <= 1` in the property is that case.
* `StartupInv` is the inductive invariant of section 5.

Bounds of the page. Two reservations give a hold that follows a released one on the same seat, and the
success of a payment for one under the dialogue of the other; two clients a page that has got a
new id and meets the entries of its old one; two starts a second click while the first is under way;
two payments a dialogue that was dismissed and opened again. All of these at once, with notices, or on
two seats, are more than TLC gets through in a few minutes, so the two passing runs divide
them. In `page_tabs` `MaxNotices = 0`: the hub is never reached, which is one of the things that happen
to a page (`Connect` has no fairness), and what notices do to entries is in `page_payments`.
That run has neither other tabs nor reloads: a tab does not touch `paymentBusy`, and a reload
clears it. A stale notice in front of a fresh one takes two notices, which `page_gap` and
`page_lost_hold` have. `KeepsItsOwn`, `PageStaysInStep`, `WaitsAreBounded` and `EntriesAreKept` (section
5) are proved for any number of seats, reservations, clients, starts, payments and notices.
`MaxNotices` holds the server back when the queue is full. `Resets` says whether the visitor ever resets
(others always may). In the passing runs `Timeout = 0`: any hold may run out at any moment, which allows
more than every other value; `Losses` and `Tabs` switch those parts of the model on. The runs of
the scenarios have `Timeout = 1`, so that a hold does not count as over when it has just begun.

Bounds of the service. Two reservations on one seat give a hold that follows a released one; the
run `double_booking` needs a third (section 5 has the safety properties for any number). Two requests and the job give every pair of handlers and
the triples with the job. Two seats give batches in which one
stale seat fails the save of the other. `liveness_job` has one reset and one failure, each at
any point of any behaviour of a request next to the job, over two seats. Two requests, the job, a
reset and a failure together are left to the proofs, which are for any number of each. `Timeout = 1` distinguishes
open and closed windows, which is all the guards see. `MaxResets` and `MaxFaults` bound
the counters; `IdsLeft` keeps a start from reaching its INSERT when the finite set of ids
is used up, where `Guid.NewGuid` has no such limit. Seats, reservations, clients and
slots are symmetric; no symmetry is used in the liveness runs.

Fairness (`FairSpec`). A request that has begun goes on: the server's threads, the
database and the payment delay all come back, and a handler blocked by a lock is not
obliged to move (weak fairness on its enabled steps only). The job's loop never ends
(`ReservationExpirationBackgroundService.cs:28-55` catches everything and polls again),
and time passes. New requests, resets, crashes, aborts and lost notices are not fair:
they may never happen. The liveness results are for finitely many starts and resets; with
requests arriving for ever, a batch of the job could in principle lose its save each time.

The start-up: an instance that has been started goes on, because `Program.cs:12-17` does one thing
after the other and Migrate's lock is given back. Nobody has to be started, or started again: the
repository has nothing that does it. Crashes are not fair, and finitely many (`MaxFaults`). Three instances give one
that wins, one that is overtaken between its check and its insert, and one that comes late;
the sizes 0, 1 and 2 an empty hall, one that collides in a row and one that
collides in some rows; 0 to 2 earlier seats a migration with nothing to number, one that
succeeds and one that fails.

On the page, the requests of a payment and of a fetch are answered or fail (a browser reports a lost
connection as an error), the handler that waited for one goes on, and its timer fires. `BusyEnds` needs
no more, so nothing is assumed of starts, resets and notices, and what the visitor, the other
clients and the connection do is not fair.

## 4. What the code does not keep

Each is a run with `expect: violation`; TLC's counterexample is the scenario.

1. `paid_then_expired`: the job lists r as Pending and overdue; a payment of r that began in
   time commits; the job now reads the seat (fresh row version, Reserved), and writes r to
   Expired and the seat to Available. A paid reservation is lost (`S`:238-269,
   `README.md:16`).
2. `double_booking`: the job lists r1; a payment request of r1 expires it first; r2 takes
   the seat and is paid; the job reads the seat and releases it; r3 takes it and is
   paid. Two Completed reservations for one seat (`README.md:89`).
3. `taken_not_booked`: the window closes during `PayAsync`; the job expires the hold; the
   payment has succeeded, its save fails, the client is told PaymentFailed
   (`S`:186-222, `README.md:16`).
4. `stale_board`: a release commits, a start commits after it, and their notices are sent in
   the opposite order. Every page shows the older status and nothing corrects it
   (`README.md:21`).
5. `page_gap`: the first fetch is answered, the seat changes, the page connects. It shows
   the old status, for good (`seats-page.js:311-312`, `README.md:21`). A reconnect has the
   same gap (`seat-booking-realtime.js:11`).
6. `page_lost_hold`: somebody's reset, or the job, releases the seat and its notice is on its
   way; the page starts a reservation and has the answer, closes the dialogue, and now the
   notice removes the entry. The next notice shows the seat as Pending, nobody can pay for
   it, and it stays so until the hold runs out (`seats-page.js:107`, `README.md:15`).

## 5. What is proved

For every set of seats, clients, reservation ids and concurrent requests, every window and
every bound on resets and failures, under `DomainAssumption` and `ServiceAssumption` only
(the constants are what their names say, `Job` is not one of the requests, and `NoSeat` and
`NoClient` are no seat and no client):

| Theorem | States |
|---|---|
| `TypeCorrect` | `Spec => []TypeOK` |
| `InvariantHolds` | `Spec => []IInv` |
| `NoSeatStuck`, `NoSeatUnpaid`, `NoEarlyExpiry` | `PendingSeatHeld`, `ReservedSeatPaid`, `ExpiredInTime` in every state |
| `HoldsAreExclusive`, `ExpiryIsFinal`, `OnlyReleasesUnpair` | `HoldIsExclusive`, `ExpiredIsFinal`, `OnlyReleaseUnpairs` of every step |
| `ServiceImplementsLedger` | `Spec => Ledger!Spec` |
| `BookingsAreKept`, `BoardKeepsInStep` | `BookingIsKept`, `BoardStaysInStep` of every step |
| `DoubleBookingNeedsRelease` | `Spec /\ [][ReleasesClean]_vars => []NoDoubleBooking` |
| `PaidHoldsAreBookable` | `Spec /\ [][ReleasesClean]_vars => []PaidHoldIsBookable` |
| `WrongBoardNeedsRace` | `Spec /\ [][\A s \in Seats : ~Excused(s)]_vars => []BoardIsCurrent` |
| `PageTypeCorrect`, `KeepsItsOwn` | `TypeOK` and `OwnReservations` in every state of `SeatsPage` |
| `PageStaysInStep` | `StaysInStep` of every step of `SeatsPage` |
| `WaitsAreBounded` | `NobodyWaitsInVain` in every state of `SeatsPage` |
| `EntriesAreKept` | `EntryIsKept` of every step of `SeatsPage` |
| `WrongPageNeedsGap` | `Spec /\ [][NothingMissed]_vars => []PageIsCurrent` of `SeatsPage` |
| `StartupSound`, `OneWholeHall`, `NobodyServesEarly` | `StartupInv`, `HallIsWhole`, `ServesReady` in every state of `Startup` |
| `SeatsStay` | `HallSettles` of every step of `Startup` |
| `StartupOpensHall` | `Spec => Hall!Spec` of `Startup` |

Why an invariant is needed. None of the safety properties is inductive. A payment about to
commit may complete its reservation only because the seat's row version it has read is still
the stored one *and* that implies something about another table: that the reservation,
whose own row is not compared, has not expired. `IInv` says what each handler may rely on at
each of its awaits:

* the tables are sound by themselves (`TablesOK`: the three invariants, and that every row has
  a seat and every stored version is at least 1, so that 0 can mean "not loaded");
* no handler holds a row version from the future (`SeenNotAhead`), and the rows it tracks were
  created (`TracksRows`);
* it has loaded the seats of exactly the rows it tracks by the time it saves (`LoadedSoFar`);
* if the row versions still match, a start's seat is still Available (`StartFresh`), and
  a payment's seat is still Pending, and the reservation it found in time has not expired
  (`PayFresh`);
* what the job or a late payment is going to expire is overdue (`OnlyOverdue`), what is about to
  be completed has been charged (`PaidFirst`), and the job's second save finds only rows that
  are expired or deleted already (`SavedOnce`), so it writes nothing new.

The argument has three parts. Every step changes the tables only as `Evolves` allows: a seat
stays as it is or gets a greater version, a row never goes back from Expired, and a row
expires only together with a new version of its seat (`SaveEvolves`, `StartTables`,
`TickTables`). `KnowledgeSurvives`: under such a change every handler that does not move
keeps what it knows, so interference is dealt with once and not for every pair of
handlers. And the handler that moves gets to its next state of knowledge, one lemma per step
(`...Good`). `TypeOK` alone is not inductive without its conjunct on `notice`: a handler that
has committed has a status to publish, which is what gives `board` its type.

The refinement needs the invariant again: that a commit of a payment is a `Confirm` is
`PayFresh`, and that a release is an `Expire` of exactly the seats of its rows is
`LoadedSoFar` and `OnlyOverdue`.

`BookingsAreKept` uses `PayFresh` once more: a payment that can save, also one that found its
window closed and is about to release the seat, has found the seat Pending, so a booking is never
on it (`BookedOutOfReach`). `BoardKeepsInStep` follows each notice from the COMMIT, where it takes
over the new status of every seat written (`CommitKeeps`), to its delivery (`NotifyKeeps`); the
job announces its seats already with its first save, which is why `NoticesOf` counts `jobSave2`.

Three theorems of the service have a condition on behaviours, because without it section 4 shows the contrary;
they say that nothing else is needed for the counterexample. `ReleasesClean` is that whoever sets a
seat to Available leaves no claim on it, which the job and a reset violate when they act on an old
list. The behaviours in which no release overlaps with anything else satisfy it, however many starts
and payments overlap with each other. TLC has no run for them: a condition on steps is
not an invariant, and their hypotheses are stated in `ReservationStepProofs` only.

* `DoubleBookingNeedsRelease`: with clean releases every seat agrees with its reservations
  (`CleanReleasesPair`, from `OnlyReleasesUnpair`), and no seat is sold twice. Row versions do
  what `README.md:89` says of them, among starts and payments; items 1 and 2 need the release.
* `PaidHoldsAreBookable`: with clean releases the version a payment has read stays that of its seat
  as long as the reservation is Pending (`HoldFits`, `HeldVersionStays`), so once the money is
  taken its save fails only if its reservation has gone from Pending, as in item 3; no start
  and no other seat's payment can make it fail.
* `WrongBoardNeedsRace`: when no two notices about a seat are ever under way together, nothing fails
  and the job's second save finds its rows, the pages show every seat as it is whenever
  nothing is going on. These are the only causes of item 4.

For the page (under `DomainAssumption` and `PageAssumption`: `MaxNotices` is a number, and neither a
client nor a reservation is one of the words that stand for an absence or an error) `TypeOK` and
`OwnReservations` together are inductive. The server's part is
that the ledger never changes who made a reservation and for which seat (`LedgerKeeps`), which
rests on a conjunct of `TypeOK`, that every row that was created has a seat. The page's part
is that an id only ever moves from an answered start to the entry and the dialogue of its own
seat, and from there to a payment, and that each of these moves compares or uses the client id
of the page (`OwnEntry`, `Set`). The part of the storage is that an entry names the client its
reservation was made by, whoever has written it, so it may outlive the id of its page.

`PageStaysInStep` rests on two lemmas about a queue of notices. A table that differs from the
seats on the page only where the last notice about a seat says so keeps that relation when a
commit and its notice are added at one end (`AppendInStep`), and when the page takes the first
notice from the other (`TailInStep`). A fetch that is answered is in step at that moment
(`FetchInStep`), and every later notice keeps it so (`AppendInStep` again) until one is
delivered ahead of it. What remains is that every commit of the ledger changes only the seats its
notice is about (`CommitPublishes`).

`NobodyWaitsInVain` is inductive together with the types: the flag is set in the step that sends a
payment, a payment that ends clears it whoever has set it (`PaymentWaits`), and every state of
waiting for a fetch is entered in a step that sends one, or finds one sent (`RefreshFetches`), and
left when it ends (`FetchWakes`).

`EntriesAreKept` needs three facts. The page reports the success of a payment only when the server has
confirmed it, and what has been confirmed is never Pending again (`SuccessIsReal`,
`DecidedStays`), so the payment that removes the entry of a hold that stands is that of another
reservation. The answer to a start names a reservation of this page under the seat of the start
(`OwnReservations`), so the answer to the start of the hold itself, when its entry is there already,
leaves the entry as it is. And for a page that is in step the last notice about a seat on its way
says what is stored (`LastNoticeIsTrue`), so if it says Available or Reserved no hold stands.

`WrongPageNeedsGap` is the page's counterpart of `WrongBoardNeedsRace`: a page that is in step
when its connection comes up (`NothingMissed`) stays so by `PageStaysInStep`, and with nothing more to
come that is `PageIsCurrent`. Item 5 of section 4 violates the first part of the condition, which
a fetch after every connection would meet.

For the start-up (under `StartupAssumption`: sizes are numbers, and an earlier version is not
an instance) `HallIsWhole` alone is not inductive. A seeder inserts after a check that may be
out of date, and that this does no harm rests on three facts: nobody gets to the check before both
migrations are applied (`MigratedFirst`), so the seat of an earlier version, the only one
whose number 0 no seeder collides with, was there before any check and cannot turn up after
it (`SeedsAfterCheck`); and every hall of an instance that has seats has a number 1, which
collides with every other hall that has seats (`UniqueMeansFirst`).

The refinement to `HallOpening` rests on the same facts: an insert that the index lets through
meets an empty hall, unless it inserts nothing, so it is `Furnish` or `Open` (`SeedIsFurnish`);
and `AddSeatNumber` comes before anybody serves, so it is `Inherit` (`MigrationIsInherit`). All
other steps are `Configure`, `Open`, `Close` or stutter (`MoveServing`).

`OnlySingletonsVanish` (a lemma of `StartupProofs`) is about `ServiceDiscovery`: a decorated class
is registered for something unless it is a plain singleton that has interfaces and none of its
own. The scoped and transient branches register such a class as itself; the singleton
branch asks a different question (`DependencyExtensions.cs:64`, `:105`, `:146`). No class of the
repository is affected today.

Only model-checked: the liveness properties (`HoldRunsOut`, `PendingSeatFreed`,
`RequestAnswered`, `BusyEnds`, `SomebodyServes`: fairness and `ENABLED` are out of the prover's
reach), and the counterexamples of section 4.

## 6. Not modelled

Modelled: domain, storage as the service uses it, service, job, payment, notices, the seats page
with the storage of its browser, start-up and service discovery.

Modelled in part, and why it stays so:

* Specifications and the query pipeline of `RepositoryBase.Get`. The criteria in use are in the
  steps that query (`JobReadReservations`, `SeatsOf`, `SeedCheck`). Ordering, includes and
  paging are never asked for by a specification of the repository, and what EF Core makes of a
  combined expression tree is its own.
* Controllers and error mapping. Each handler's answer is in `Answers`; the mapping of an error
  to an HTTP status and a problem document is a table without state. Which problem details
  factory MVC resolves (`AppProblemDetailsFactory.cs:12` registers itself only as its own class)
  is the framework's.

Not modelled:

* Validators: they refuse empty ids before anything is read, and touch nothing.
* The handlers of `ReservationService` composed with `SeatsPage`. The ledger stands between them;
  a page that gets notices out of the order of the commits is `board` in `ReservationService`
  only (`stale_board`).
* Deadlock victims, isolation levels other than READ COMMITTED, several instances of the service
  and of the job at the same time (each instance has its own job; the rows are protected in
  the same way as between two handlers, but the hubs are not connected to each other).
* Vendored libraries, styles and markup, the generated designer files, logging, and the wording of
  messages.
