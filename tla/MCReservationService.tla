------------------------- MODULE MCReservationService -------------------------
(* Small instances of ReservationService for TLC.                          *)
EXTENDS ReservationInvariant, TLC

\* Requests, seats, clients and ids are interchangeable.
Symmetry == Permutations(Slots) \union Permutations(Seats)
              \union Permutations(ReservationIds) \union Permutations(Clients)

===============================================================================
