----------------------------- MODULE MCSeatsPage -----------------------------
(* The seats page for TLC; the constants are given in the .cfg files.      *)
EXTENDS SeatsPage, TLC

Symmetry == Permutations(ReservationIds) \union Permutations(Seats) \union Permutations(Clients)
              \union Permutations(Starts) \union Permutations(Payments)

==============================================================================
