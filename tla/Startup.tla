-------------------------------- MODULE Startup --------------------------------
(***************************************************************************)
(* The start of the program: several instances of it, started at any time  *)
(* and any number of times, migrate the same database and seed its hall.   *)
(* What they leave behind is the hall ReservationService begins with.      *)
(*                                                                         *)
(* An instance that fails ends, and nothing in the program starts it       *)
(* again; whoever runs it may, with another MaxSeats.  Every migration is  *)
(* applied in a transaction, and Migrate holds a lock on the database; so  *)
(* is the one SaveChanges of the seeder a transaction.                     *)
(***************************************************************************)
EXTENDS Naturals, FiniteSets, ServiceDiscovery

CONSTANTS Instances,        \* the instances of the program
          Sizes,            \* the values MaxSeats may have
          Old,              \* who has made the seats of an earlier version
          MaxOld,           \* bound: how many seats it has made
          MaxFaults         \* bound: the crashes, stops and lost connections

ASSUME StartupAssumption ==
  /\ Sizes \subseteq Nat
  /\ Old \notin Instances
  /\ MaxOld \in Nat
  /\ MaxFaults \in Nat

VARIABLES applied,          \* how many of the two migrations have been applied
          numberless,       \* the seats from before AddSeatNumber
          hall,             \* the rows of Seats that have a number
          phase,            \* where each instance is
          maxSeats,         \* SeatBookingSettings.MaxSeats of each instance
          faults            \* the counter of the bound

database == <<applied, numberless, hall>>

vars == <<applied, numberless, hall, phase, maxSeats, faults>>

Migrations == 2             \* Intial and AddSeatNumber

Phases == {"down", "checking", "waiting", "migrating", "seedCheck", "seeding", "serving"}

\* A row, and who has inserted it.
Row == [number : Nat, by : Instances \union {Old}]

TypeOK ==
  /\ applied \in 0..Migrations
  /\ numberless \in 0..MaxOld
  /\ hall \in SUBSET Row
  /\ phase \in [Instances -> Phases]
  /\ maxSeats \in [Instances -> Nat]
  /\ faults \in 0..MaxFaults

\* An empty database, or one an earlier version has left behind.
Init ==
  /\ applied \in 0..1
  /\ numberless \in (IF applied = 0 THEN {0} ELSE 0..MaxOld)
  /\ hall = {}
  /\ phase = [i \in Instances |-> "down"]
  /\ maxSeats = [i \in Instances |-> 0]
  /\ faults = 0

Goto(i, p) == phase' = [phase EXCEPT ![i] = p]

-------------------------------------------------------------------------------
(* ApplyDatabaseMigrations.                                                *)

Start(i) ==
  /\ phase[i] = "down"
  /\ Goto(i, "checking")
  /\ \E n \in Sizes : maxSeats' = [maxSeats EXCEPT ![i] = n]
  /\ UNCHANGED <<database, faults>>

\* One pending migration is not enough: Count > 1.
OnePendingMutant(i) ==
  /\ phase[i] = "checking"
  /\ Goto(i, IF Migrations - applied > 1 THEN "waiting" ELSE "seedCheck")
  /\ UNCHANGED <<database, maxSeats, faults>>

\* GetPendingMigrations, without the lock.
CheckPending(i) ==
  /\ phase[i] = "checking"
  /\ Goto(i, IF applied < Migrations THEN "waiting" ELSE "seedCheck")
  /\ UNCHANGED <<database, maxSeats, faults>>

\* Migrate takes its lock and looks again at what is pending.
Lock(i) ==
  /\ phase[i] = "waiting"
  /\ \A j \in Instances : phase[j] # "migrating"
  /\ Goto(i, "migrating")
  /\ UNCHANGED <<database, maxSeats, faults>>

Intial(i) ==
  /\ phase[i] = "migrating"
  /\ applied = 0
  /\ applied' = 1
  /\ UNCHANGED <<numberless, hall, phase, maxSeats, faults>>

\* Every seat there is gets the number 0.
AddSeatNumber(i) ==
  /\ phase[i] = "migrating"
  /\ applied = 1
  /\ numberless <= 1
  /\ applied' = 2
  /\ hall' = IF numberless = 1 THEN {[number |-> 0, by |-> Old]} ELSE {}
  /\ numberless' = 0
  /\ UNCHANGED <<phase, maxSeats, faults>>

\* The index on the numbers is unique: the transaction is rolled back, the program ends.
AddSeatNumberFails(i) ==
  /\ phase[i] = "migrating"
  /\ applied = 1
  /\ numberless > 1
  /\ Goto(i, "down")
  /\ UNCHANGED <<database, maxSeats, faults>>

Migrated(i) ==
  /\ phase[i] = "migrating"
  /\ applied = Migrations
  /\ Goto(i, "seedCheck")
  /\ UNCHANGED <<database, maxSeats, faults>>

-------------------------------------------------------------------------------
(* SeedDatabaseAsync and SeatSeeder.                                       *)

\* [ScopedService] class SeatSeeder : IDbSeeder
SeatSeeder ==
  [name       |-> "SeatSeeder",
   interfaces |-> {"IDbSeeder"},
   inherited  |-> {},
   ofBase     |-> {},
   attributes |-> {[lifetime |-> "Scoped", service |-> NotNamed]}]

Seeders == Implementations({SeatSeeder}, "IDbSeeder")

\* ExistsAsync asks for seats, with a number or without.
SeatsPopulated == hall # {} \/ numberless > 0

\* The seeder does not ask whether there are seats.
AlwaysSeedCheckMutant(i) ==
  /\ phase[i] = "seedCheck"
  /\ Goto(i, "seeding")
  /\ UNCHANGED <<database, maxSeats, faults>>

SeedCheck(i) ==
  /\ phase[i] = "seedCheck"
  /\ Goto(i, IF Seeders = {} \/ SeatsPopulated THEN "serving" ELSE "seeding")
  /\ UNCHANGED <<database, maxSeats, faults>>

Rows(i, n) == [number : 1..n, by : {i}]

\* Without the unique index.
UniqueMutant(i) == TRUE

\* IX_Seats_Number lets the new rows in.
Unique(i) == \A row \in hall : row.number \notin 1..maxSeats[i]

Seed(i) ==
  /\ phase[i] = "seeding"
  /\ Unique(i)
  /\ hall' = hall \union Rows(i, maxSeats[i])
  /\ Goto(i, "serving")
  /\ UNCHANGED <<applied, numberless, maxSeats, faults>>

\* Another instance has been faster.
SeedFails(i) ==
  /\ phase[i] = "seeding"
  /\ ~Unique(i)
  /\ Goto(i, "down")
  /\ UNCHANGED <<database, maxSeats, faults>>

-------------------------------------------------------------------------------
\* The process dies or is stopped, or loses its connection: what it has not committed is
\* rolled back, and its lock is free.
Fault(i) ==
  /\ phase[i] # "down"
  /\ faults < MaxFaults
  /\ faults' = faults + 1
  /\ Goto(i, "down")
  /\ UNCHANGED <<database, maxSeats>>

\* Program.cs goes on.
GoesOn(i) ==
  \/ CheckPending(i) \/ Lock(i)
  \/ Intial(i) \/ AddSeatNumber(i) \/ AddSeatNumberFails(i) \/ Migrated(i)
  \/ SeedCheck(i) \/ Seed(i) \/ SeedFails(i)

Next == \E i \in Instances : Start(i) \/ GoesOn(i) \/ Fault(i)

Spec == Init /\ [][Next]_vars

(***************************************************************************)
(* An instance that has been started goes on; none has to be started.      *)
(***************************************************************************)
Fairness == \A i \in Instances : WF_vars(GoesOn(i))

FairSpec == Spec /\ Fairness

-------------------------------------------------------------------------------
(* Properties.                                                             *)

\* However many instances find the hall empty at the same time, with whatever MaxSeats, and
\* wherever they die, the hall is empty, or the one seat of an earlier version, or it has the
\* seats 1 to n of a single instance (SeatSeeder.cs:19-32).
HallIsWhole ==
  \/ hall = {}
  \/ hall = {[number |-> 0, by |-> Old]}
  \/ \E i \in Instances, n \in Sizes \ {0} : hall = Rows(i, n)

\* Seats that are there stay as they are, also when an instance whose check has found none
\* comes to insert its own (SeatSeeder.cs:19-32).
HallSettles == [][hall # {} => hall' = hall]_vars

\* Requests and the job meet a migrated database with seats, unless the instance is to have
\* none (Program.cs:12-17, README.md:148-150).
ServesReady ==
  \A i \in Instances : phase[i] = "serving" =>
    /\ applied = Migrations /\ numberless = 0
    /\ hall = {} => maxSeats[i] = 0

Hall == INSTANCE HallOpening WITH open <- {i \in Instances : phase[i] = "serving"}

\* However the instances overlap and fail, the hall is opened as HallOpening has it: its seats
\* are made once and together, and who serves requests has them
\* (Program.cs:12-17, WebApplicationExtensions.cs:37-58, SeatSeeder.cs:17-35).
ImplementsHall == Hall!Spec

\* The instances do not all fail one another: of those that have been started and have not
\* yet checked for seats one comes to serve, unless something dies meanwhile, or the database
\* has several seats from before AddSeatNumber.  A check made earlier may be one whose race is
\* lost to an instance that is gone
\* (Program.cs:12-17, SeatSeeder.cs:19-32, 20260106180443_AddSeatNumber.cs:14-24).
SomebodyServes ==
  \A n \in 0..MaxFaults :
    (/\ \E i \in Instances : phase[i] \notin {"down", "seeding"}
     /\ numberless <= 1 /\ faults = n)
    ~> (faults > n \/ \E i \in Instances : phase[i] = "serving")

-------------------------------------------------------------------------------
(* What every step relies on.                                              *)

\* Everything after the migrations meets a migrated database; until then nobody has a number,
\* afterwards everybody.
MigratedFirst ==
  /\ applied < Migrations => hall = {}
  /\ applied = Migrations => numberless = 0
  /\ \A i \in Instances :
       phase[i] \in {"seedCheck", "seeding", "serving"} => applied = Migrations

\* An instance that has found no seat may have been overtaken by other instances, never by the
\* seat of an earlier version.
SeedsAfterCheck ==
  \A i \in Instances : phase[i] = "seeding" => \A row \in hall : row.by # Old

\* The start-up as a whole, at every step and wherever instances die: the inductive invariant
\* of the theorems (WebApplicationExtensions.cs:37-58, SeatSeeder.cs:17-35).
StartupInv ==
  /\ TypeOK
  /\ \A i \in Instances : phase[i] # "down" => maxSeats[i] \in Sizes
  /\ MigratedFirst /\ SeedsAfterCheck
  /\ HallIsWhole /\ ServesReady

================================================================================
