-------------------------- MODULE MCPasswordReset --------------------------
(***************************************************************************)
(* Model checking of PasswordReset: the symmetry of its model values.      *)
(***************************************************************************)
EXTENDS PasswordReset, TLC

Symmetry == Permutations(Users) \union Permutations(Requests)
              \union Permutations(Codes) \union Permutations(Keys)
=============================================================================
