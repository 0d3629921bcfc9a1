--------------------------- MODULE MCUserSession ---------------------------
(* Model checking of UserSession: the symmetry of its model values.        *)
EXTENDS UserSession, TLC

Symmetry == Permutations(Users) \union Permutations(Calls)
              \union Permutations(Sockets)
=============================================================================
