------------------------------ MODULE HallOpening ------------------------------
(***************************************************************************)
(* What the start of the program promises, without migrations, locks,      *)
(* checks that are out of date and races: the hall gets its seats once,    *)
(* all of them together, and an instance is open to requests only when it  *)
(* has the seats it is to have.                                            *)
(***************************************************************************)
EXTENDS Naturals

CONSTANTS Instances,        \* the instances of the program
          Sizes,            \* the values MaxSeats may have
          Old               \* who has made the seat of an earlier version

VARIABLES hall,             \* the seats, each with who has made it
          open,             \* the instances that serve requests
          maxSeats          \* the size each instance is started with

vars == <<hall, open, maxSeats>>

Init ==
  /\ hall = {}
  /\ open = {}
  /\ maxSeats = [i \in Instances |-> 0]

\* The one seat of an earlier version is taken over, before anybody serves.
Inherit ==
  /\ hall = {} /\ open = {}
  /\ hall' = {[number |-> 0, by |-> Old]}
  /\ UNCHANGED <<open, maxSeats>>

Configure(i) ==
  /\ i \notin open
  /\ \E n \in Sizes : maxSeats' = [maxSeats EXCEPT ![i] = n]
  /\ UNCHANGED <<hall, open>>

\* An instance makes all the seats and opens.
Furnish(i) ==
  /\ i \notin open
  /\ hall = {} /\ maxSeats[i] # 0
  /\ hall' = [number : 1..maxSeats[i], by : {i}]
  /\ open' = open \union {i}
  /\ UNCHANGED maxSeats

\* An instance opens with the seats it finds, or with none if it is to have none.
Open(i) ==
  /\ i \notin open
  /\ hall = {} => maxSeats[i] = 0
  /\ open' = open \union {i}
  /\ UNCHANGED <<hall, maxSeats>>

Close(i) ==
  /\ open' = open \ {i}
  /\ UNCHANGED <<hall, maxSeats>>

Next ==
  \/ Inherit
  \/ \E i \in Instances : Configure(i) \/ Furnish(i) \/ Open(i) \/ Close(i)

Spec == Init /\ [][Next]_vars

================================================================================
