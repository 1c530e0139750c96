----------------------------- MODULE StartupProofs -----------------------------
(***************************************************************************)
(* Any number of instances, of any size, on a database with any number of  *)
(* earlier seats: what the start-up leaves behind is one whole hall.       *)
(***************************************************************************)
EXTENDS Startup, TLAPS

\* A decorated class is registered for something, unless it is a plain singleton that has
\* interfaces and none of its own (DependencyExtensions.cs:64).
LEMMA OnlySingletonsVanish ==
  ASSUME NEW types, NEW class \in Class(types), NEW a \in class.attributes
  PROVE  Services(class, a) = {} <=>
           /\ a.lifetime = "Singleton" /\ a.service = NotNamed
           /\ class.interfaces # {} /\ Direct(class) = {}
<1>1. CASE a.service # NotNamed
  BY <1>1 DEF Services
<1>2. CASE a.service = NotNamed /\ a.lifetime = "Singleton"
  BY <1>2 DEF Services, HasInterfaces
<1>3. CASE a.service = NotNamed /\ a.lifetime # "Singleton"
  BY <1>3 DEF Services, HasInterfaces
<1> QED
  BY <1>1, <1>2, <1>3

\* SeedDatabaseAsync finds the seeder (WebApplicationExtensions.cs:55).
LEMMA SeederIsRegistered == Seeders # {}
<1> DEFINE a == [lifetime |-> "Scoped", service |-> NotNamed]
<1>1. SeatSeeder.attributes = {a} /\ a.service = NotNamed /\ a.lifetime = "Scoped"
  BY DEF SeatSeeder
<1>2. Direct(SeatSeeder) = {"IDbSeeder"}
  BY DEF SeatSeeder, Direct
<1>3. HasInterfaces(SeatSeeder, a.lifetime)
  BY <1>1, <1>2 DEF HasInterfaces
<1>4. Services(SeatSeeder, a) = {"IDbSeeder"}
  BY <1>1, <1>2, <1>3 DEF Services
<1> QED
  BY <1>1, <1>4 DEF Seeders, Implementations

\* The rows an instance inserts are rows; there are none if it is to have none, and otherwise
\* number 1 is among them.
LEMMA RowsAre ==
  ASSUME NEW i \in Instances, NEW n \in Nat
  PROVE  /\ Rows(i, n) \in SUBSET Row
         /\ n = 0 => Rows(i, n) = {}
         /\ n # 0 => [number |-> 1, by |-> i] \in Rows(i, n)
BY DEF Rows, Row

\* What the unique index lets a seeder add: all of its rows to an empty hall, and nothing to
\* the hall of another instance (SeatConfiguration.cs:25-26).
LEMMA UniqueMeansFirst ==
  ASSUME StartupInv, StartupAssumption, NEW i \in Instances, phase[i] = "seeding", Unique(i),
         hall # {}
  PROVE  maxSeats[i] = 0 /\ Rows(i, maxSeats[i]) = {}
<1>1. maxSeats[i] \in Nat
  BY DEF StartupInv, TypeOK
<1>2. hall # {[number |-> 0, by |-> Old]}
  BY DEF StartupInv, SeedsAfterCheck
<1>3. PICK j \in Instances, n \in Sizes \ {0} : hall = Rows(j, n)
  BY <1>2 DEF StartupInv, HallIsWhole
<1>4. [number |-> 1, by |-> j] \in hall
  BY <1>3, RowsAre DEF StartupAssumption
<1>5. 1 \notin 1..maxSeats[i]
  BY <1>4 DEF Unique
<1>6. maxSeats[i] = 0
  BY <1>1, <1>5
<1> QED
  BY <1>1, <1>6, RowsAre

-------------------------------------------------------------------------------
LEMMA StartupInvInit == Init /\ StartupAssumption => StartupInv
<1> SUFFICES ASSUME Init, StartupAssumption PROVE StartupInv
  OBVIOUS
<1>1. TypeOK
  BY DEF Init, TypeOK, StartupAssumption, Migrations, Phases
<1> QED
  BY <1>1 DEF Init, StartupInv, MigratedFirst, SeedsAfterCheck, HallIsWhole, ServesReady, Migrations

\* A step that leaves the database alone and moves one instance.
LEMMA MoveKeepsInv ==
  ASSUME StartupInv, StartupAssumption, NEW i \in Instances, NEW p \in Phases,
         Goto(i, p), UNCHANGED <<database, maxSeats>>, faults' \in 0..MaxFaults,
         p = "down" \/ phase[i] # "down",
         p \in {"seedCheck", "seeding", "serving"} => applied = Migrations,
         p = "seeding" => hall = {},
         p = "serving" => hall # {}
  PROVE  StartupInv'
<1>1. TypeOK'
  BY DEF StartupInv, TypeOK, Goto, database
<1>2. phase' = [phase EXCEPT ![i] = p] /\ phase \in [Instances -> Phases]
  BY DEF StartupInv, TypeOK, Goto
<1>3. \A j \in Instances : phase'[j] # "down" => maxSeats'[j] \in Sizes
  BY <1>2 DEF StartupInv
<1>4. MigratedFirst'
  BY <1>2 DEF StartupInv, MigratedFirst, database
<1>5. SeedsAfterCheck'
  BY <1>2 DEF StartupInv, SeedsAfterCheck, database
<1>6. HallIsWhole'
  BY DEF StartupInv, HallIsWhole, database
<1>7. ServesReady'
  BY <1>2 DEF StartupInv, MigratedFirst, ServesReady, database
<1> QED
  BY <1>1, <1>3, <1>4, <1>5, <1>6, <1>7 DEF StartupInv

LEMMA StartKeepsInv ==
  ASSUME StartupInv, StartupAssumption, NEW i \in Instances, Start(i)
  PROVE  StartupInv'
<1>1. PICK n \in Sizes : maxSeats' = [maxSeats EXCEPT ![i] = n]
  BY DEF Start
<1>2. phase' = [phase EXCEPT ![i] = "checking"] /\ UNCHANGED <<applied, numberless, hall, faults>>
  BY DEF Start, Goto, database
<1>3. phase \in [Instances -> Phases] /\ maxSeats \in [Instances -> Nat] /\ n \in Nat
  BY DEF StartupInv, TypeOK, StartupAssumption
<1>4. TypeOK'
  BY <1>1, <1>2, <1>3 DEF StartupInv, TypeOK, Phases
<1>5. \A j \in Instances : phase'[j] # "down" => maxSeats'[j] \in Sizes
  BY <1>1, <1>2, <1>3 DEF StartupInv
<1>6. MigratedFirst' /\ SeedsAfterCheck'
  BY <1>2, <1>3 DEF StartupInv, MigratedFirst, SeedsAfterCheck
<1>7. HallIsWhole'
  BY <1>2 DEF StartupInv, HallIsWhole
<1>8. ServesReady'
  BY <1>1, <1>2, <1>3 DEF StartupInv, ServesReady
<1> QED
  BY <1>4, <1>5, <1>6, <1>7, <1>8 DEF StartupInv

LEMMA MigrationKeepsInv ==
  ASSUME StartupInv, StartupAssumption, NEW i \in Instances, Intial(i) \/ AddSeatNumber(i)
  PROVE  StartupInv'
<1> DEFINE old == {[number |-> 0, by |-> Old]}
<1>1. applied < Migrations /\ hall = {} /\ UNCHANGED <<phase, maxSeats, faults>>
  BY DEF Intial, AddSeatNumber, StartupInv, MigratedFirst, Migrations
<1>2. \A j \in Instances : phase[j] \notin {"seedCheck", "seeding", "serving"}
  BY <1>1 DEF StartupInv, MigratedFirst, Migrations
<1>3. \/ applied' = 1 /\ hall' = {} /\ numberless' = numberless
      \/ applied' = 2 /\ hall' \in {old, {}} /\ numberless' = 0
  BY <1>1 DEF Intial, AddSeatNumber
<1>4. old \in SUBSET Row
  BY DEF Row
<1>5. TypeOK'
  BY <1>1, <1>3, <1>4 DEF StartupInv, TypeOK, StartupAssumption, Migrations
<1>6. MigratedFirst' /\ SeedsAfterCheck' /\ ServesReady'
  BY <1>1, <1>2, <1>3 DEF MigratedFirst, SeedsAfterCheck, ServesReady, Migrations
<1>7. HallIsWhole'
  BY <1>3 DEF HallIsWhole
<1> QED
  BY <1>1, <1>5, <1>6, <1>7 DEF StartupInv

LEMMA SeedKeepsInv ==
  ASSUME StartupInv, StartupAssumption, NEW i \in Instances, Seed(i)
  PROVE  StartupInv'
<1> DEFINE n == maxSeats[i]
<1>1. /\ phase[i] = "seeding" /\ Unique(i) /\ hall' = hall \union Rows(i, n)
      /\ phase' = [phase EXCEPT ![i] = "serving"]
      /\ UNCHANGED <<applied, numberless, maxSeats, faults>>
  BY DEF Seed, Goto
<1>2. phase \in [Instances -> Phases] /\ n \in Sizes /\ n \in Nat
  BY <1>1 DEF StartupInv, TypeOK, StartupAssumption
<1>3. \/ hall # {} /\ n = 0 /\ hall' = hall
      \/ hall = {} /\ hall' = Rows(i, n)
  BY <1>1, UniqueMeansFirst
<1>4. TypeOK'
  BY <1>1, <1>2, <1>3, RowsAre DEF StartupInv, TypeOK, Phases
<1>5. \A j \in Instances : phase'[j] # "down" => maxSeats'[j] \in Sizes
  BY <1>1, <1>2 DEF StartupInv
<1>6. applied = Migrations /\ MigratedFirst'
  BY <1>1, <1>2 DEF StartupInv, MigratedFirst, TypeOK, Migrations
<1>7. SeedsAfterCheck'
  <2>1. \A row \in Rows(i, n) : row.by # Old
    BY DEF Rows, StartupAssumption
  <2> QED
    BY <1>1, <1>2, <2>1 DEF StartupInv, SeedsAfterCheck
<1>8. HallIsWhole'
  <2>1. CASE hall # {}
    BY <1>3, <2>1 DEF StartupInv, HallIsWhole
  <2>2. CASE hall = {} /\ n = 0
    BY <1>2, <1>3, <2>2, RowsAre DEF HallIsWhole
  <2>3. CASE hall = {} /\ n # 0
    BY <1>2, <1>3, <2>3 DEF HallIsWhole
  <2> QED
    BY <2>1, <2>2, <2>3
<1>9. ServesReady'
  <2>1. hall' = {} => n = 0
    BY <1>2, <1>3, RowsAre
  <2>2. hall' = {} => hall = {}
    BY <1>3
  <2>3. numberless = 0
    BY <1>6 DEF StartupInv, MigratedFirst
  <2> QED
    BY <1>1, <1>2, <1>6, <2>1, <2>2, <2>3 DEF StartupInv, ServesReady
<1> QED
  BY <1>4, <1>5, <1>6, <1>7, <1>8, <1>9 DEF StartupInv

LEMMA StartupInvNext == StartupInv /\ StartupAssumption /\ [Next]_vars => StartupInv'
<1> SUFFICES ASSUME StartupInv, StartupAssumption, [Next]_vars PROVE StartupInv'
  OBVIOUS
<1> faults \in 0..MaxFaults /\ MaxFaults \in Nat /\ applied \in 0..2
  BY DEF StartupInv, TypeOK, StartupAssumption, Migrations
<1>1. CASE UNCHANGED vars
  BY <1>1 DEF vars, StartupInv, TypeOK, MigratedFirst, SeedsAfterCheck, HallIsWhole, ServesReady
<1>2. ASSUME NEW i \in Instances, Start(i) PROVE StartupInv'
  BY <1>2, StartKeepsInv
<1>3. ASSUME NEW i \in Instances, CheckPending(i) PROVE StartupInv'
  <2>1. \E p \in {"waiting", "seedCheck"} :
          Goto(i, p) /\ (p = "seedCheck" => applied = Migrations)
    BY <1>3 DEF CheckPending, Migrations
  <2> QED
    BY <1>3, <2>1, MoveKeepsInv DEF CheckPending, Phases
<1>4. ASSUME NEW i \in Instances, Lock(i) PROVE StartupInv'
  BY <1>4, MoveKeepsInv DEF Lock, Phases
<1>5. ASSUME NEW i \in Instances, Intial(i) \/ AddSeatNumber(i) PROVE StartupInv'
  BY <1>5, MigrationKeepsInv
<1>6. ASSUME NEW i \in Instances, AddSeatNumberFails(i) \/ SeedFails(i) PROVE StartupInv'
  BY <1>6, MoveKeepsInv DEF AddSeatNumberFails, SeedFails, Phases
<1>7. ASSUME NEW i \in Instances, Migrated(i) PROVE StartupInv'
  BY <1>7, MoveKeepsInv DEF Migrated, Phases
<1>8. ASSUME NEW i \in Instances, SeedCheck(i) PROVE StartupInv'
  <2>1. applied = Migrations /\ numberless = 0
    BY <1>8 DEF SeedCheck, StartupInv, MigratedFirst
  <2>2. \E p \in {"serving", "seeding"} :
          /\ Goto(i, p) /\ (p = "serving" => hall # {}) /\ (p = "seeding" => hall = {})
    BY <1>8, <2>1, SeederIsRegistered DEF SeedCheck, SeatsPopulated
  <2> QED
    BY <1>8, <2>1, <2>2, MoveKeepsInv DEF SeedCheck, Phases
<1>9. ASSUME NEW i \in Instances, Seed(i) PROVE StartupInv'
  BY <1>9, SeedKeepsInv
<1>10. ASSUME NEW i \in Instances, Fault(i) PROVE StartupInv'
  <2>1. faults' \in 0..MaxFaults
    BY <1>10 DEF Fault
  <2> QED
    BY <1>10, <2>1, MoveKeepsInv DEF Fault, Phases
<1> QED
  BY <1>1, <1>2, <1>3, <1>4, <1>5, <1>6, <1>7, <1>8, <1>9, <1>10 DEF Next, GoesOn

-------------------------------------------------------------------------------
\* The inductive invariant holds at every step of a start-up.
THEOREM StartupSound == Spec => []StartupInv
BY StartupAssumption, StartupInvInit, StartupInvNext, PTL DEF Spec

\* The hall is never a mixture: however many instances race, with whatever sizes, and wherever
\* they die, it has all the seats of one of them (SeatSeeder.cs:19-32).
THEOREM OneWholeHall == Spec => []HallIsWhole
<1>1. StartupInv => HallIsWhole
  BY DEF StartupInv
<1> QED
  BY <1>1, StartupSound, PTL

\* No instance serves requests before the database has its migrations and its seats
\* (Program.cs:12-17).
THEOREM NobodyServesEarly == Spec => []ServesReady
<1>1. StartupInv => ServesReady
  BY DEF StartupInv
<1> QED
  BY <1>1, StartupSound, PTL

\* A seeder never touches a hall that has seats, though its check is long past
\* (SeatSeeder.cs:19-32).
THEOREM SeatsStay == Spec => HallSettles
<1>1. StartupInv /\ StartupAssumption /\ [Next]_vars => [hall # {} => hall' = hall]_vars
  <2> SUFFICES ASSUME StartupInv, StartupAssumption, Next, hall # {} PROVE hall' = hall
    BY DEF vars
  <2>1. ASSUME NEW i \in Instances, Seed(i) PROVE hall' = hall
    <3>1. Rows(i, maxSeats[i]) = {}
      BY <2>1, UniqueMeansFirst DEF Seed
    <3> QED
      BY <2>1, <3>1 DEF Seed
  <2>2. ASSUME NEW i \in Instances, AddSeatNumber(i) PROVE hall' = hall
    BY <2>2 DEF AddSeatNumber, StartupInv, MigratedFirst, Migrations
  <2> QED
    BY <2>1, <2>2 DEF Next, GoesOn, Start, CheckPending, Lock, Intial, AddSeatNumberFails,
       Migrated, SeedCheck, SeedFails, Fault, database
<1> QED
  BY <1>1, StartupAssumption, StartupSound, PTL DEF Spec, HallSettles

-------------------------------------------------------------------------------
(* The start-up implements HallOpening.                                    *)

\* The instances that serve.
Serving == {i \in Instances : phase[i] = "serving"}

\* What moving one instance means for who serves.
LEMMA MoveServing ==
  ASSUME TypeOK, NEW i \in Instances, NEW p, Goto(i, p)
  PROVE  Serving' = IF p = "serving" THEN Serving \union {i} ELSE Serving \ {i}
BY DEF TypeOK, Goto, Serving

\* A step that changes neither the hall nor the sizes nor who serves.
LEMMA UnseenInHall ==
  ASSUME UNCHANGED <<hall, maxSeats>>, Serving' = Serving
  PROVE  UNCHANGED Hall!vars
BY DEF Hall!vars, Serving

\* AddSeatNumber takes over the seat of an earlier version, if there is one.
LEMMA MigrationIsInherit ==
  ASSUME StartupInv, NEW i \in Instances, AddSeatNumber(i)
  PROVE  Hall!Next \/ UNCHANGED Hall!vars
<1>1. hall = {} /\ UNCHANGED <<phase, maxSeats>>
  BY DEF AddSeatNumber, StartupInv, MigratedFirst, Migrations
<1>2. Serving = {} /\ Serving' = Serving
  BY <1>1 DEF AddSeatNumber, StartupInv, MigratedFirst, Migrations, Serving
<1>3. CASE hall' = {}
  BY <1>1, <1>2, <1>3, UnseenInHall
<1>4. CASE hall' = {[number |-> 0, by |-> Old]}
  BY <1>1, <1>2, <1>4 DEF Hall!Next, Hall!Inherit, Serving
<1> QED
  BY <1>3, <1>4 DEF AddSeatNumber

\* A seeder that gets its rows in makes the whole hall, or makes nothing and opens.
LEMMA SeedIsFurnish ==
  ASSUME StartupInv, StartupAssumption, NEW i \in Instances, Seed(i)
  PROVE  Hall!Next
<1>1. /\ phase[i] = "seeding" /\ Unique(i)
      /\ hall' = hall \union Rows(i, maxSeats[i])
      /\ maxSeats' = maxSeats /\ maxSeats[i] \in Nat
  BY DEF Seed, StartupInv, TypeOK
<1>2. i \notin Serving /\ Serving' = Serving \union {i}
  BY <1>1, MoveServing DEF Seed, Serving, StartupInv
<1>3. CASE hall = {} /\ maxSeats[i] # 0
  BY <1>1, <1>2, <1>3 DEF Rows, Hall!Next, Hall!Furnish, Serving
<1>4. CASE hall = {} /\ maxSeats[i] = 0
  <2>1. hall' = hall
    BY <1>1, <1>4, RowsAre
  <2> QED
    BY <1>1, <1>2, <1>4, <2>1 DEF Hall!Next, Hall!Open, Serving
<1>5. CASE hall # {}
  <2>1. hall' = hall
    BY <1>1, <1>5, UniqueMeansFirst
  <2> QED
    BY <1>1, <1>2, <1>5, <2>1 DEF Hall!Next, Hall!Open, Serving
<1> QED
  BY <1>3, <1>4, <1>5

\* Every step is a step of HallOpening or leaves it as it is.
LEMMA NextIsHall == StartupInv /\ StartupAssumption /\ [Next]_vars => [Hall!Next]_(Hall!vars)
<1> SUFFICES ASSUME StartupInv, StartupAssumption, [Next]_vars
             PROVE  Hall!Next \/ UNCHANGED Hall!vars
  OBVIOUS
<1>0. TypeOK
  BY DEF StartupInv
<1>1. CASE UNCHANGED vars
  BY <1>1, UnseenInHall DEF vars, Serving
<1>2. ASSUME NEW i \in Instances, Start(i) PROVE Hall!Next
  <2>1. i \notin Serving /\ Serving' = Serving
    BY <1>0, <1>2, MoveServing DEF Start, Serving
  <2> QED
    BY <1>2, <2>1 DEF Start, database, Hall!Next, Hall!Configure, Serving
<1>3. ASSUME NEW i \in Instances, NEW p, Goto(i, p), p # "serving", phase[i] # "serving",
             UNCHANGED <<hall, maxSeats>>
      PROVE  UNCHANGED Hall!vars
  <2>1. Serving' = Serving
    BY <1>0, <1>3, MoveServing DEF Serving
  <2> QED
    BY <1>3, <2>1, UnseenInHall
<1>4. ASSUME NEW i \in Instances,
             CheckPending(i) \/ Lock(i) \/ AddSeatNumberFails(i) \/ Migrated(i) \/ SeedFails(i)
      PROVE  UNCHANGED Hall!vars
  BY <1>3, <1>4 DEF CheckPending, Lock, AddSeatNumberFails, Migrated, SeedFails, database
<1>5. ASSUME NEW i \in Instances, Intial(i) PROVE UNCHANGED Hall!vars
  BY <1>5, UnseenInHall DEF Intial, Serving
<1>6. ASSUME NEW i \in Instances, SeedCheck(i) PROVE Hall!Next \/ UNCHANGED Hall!vars
  <2>0. numberless = 0
    BY <1>6 DEF SeedCheck, StartupInv, MigratedFirst
  <2>1. CASE hall = {}
    BY <1>3, <1>6, <2>0, <2>1, SeederIsRegistered DEF SeedCheck, SeatsPopulated, database
  <2>2. CASE hall # {}
    <3>1. i \notin Serving /\ Serving' = Serving \union {i}
      BY <1>0, <1>6, <2>2, MoveServing DEF SeedCheck, SeatsPopulated, Serving
    <3> QED
      BY <1>6, <2>2, <3>1 DEF SeedCheck, SeatsPopulated, database, Hall!Next, Hall!Open, Serving
  <2> QED
    BY <2>1, <2>2
<1>7. ASSUME NEW i \in Instances, Fault(i) PROVE Hall!Next
  <2>1. Serving' = Serving \ {i}
    BY <1>0, <1>7, MoveServing DEF Fault
  <2> QED
    BY <1>7, <2>1 DEF Fault, database, Hall!Next, Hall!Close, Serving
<1> QED
  BY <1>1, <1>2, <1>4, <1>5, <1>6, <1>7, MigrationIsInherit, SeedIsFurnish DEF Next, GoesOn

\* However many instances overlap and fail, the hall is opened as HallOpening has it: its seats
\* are made once and together, and whoever serves requests has them (Program.cs:12-17,
\* WebApplicationExtensions.cs:37-58, SeatSeeder.cs:17-35).
THEOREM StartupOpensHall == Spec => ImplementsHall
<1>1. Init => Hall!Init
  BY DEF Init, Hall!Init
<1> QED
  BY <1>1, NextIsHall, StartupAssumption, StartupSound, PTL DEF Spec, ImplementsHall, Hall!Spec

================================================================================
