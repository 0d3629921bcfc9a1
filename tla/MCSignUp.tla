------------------------------ MODULE MCSignUp ------------------------------
(* Model checking of SignUp: the symmetry of its model values.             *)
EXTENDS SignUp, TLC

Symmetry == Permutations(Emails) \union Permutations(Names)
              \union Permutations(Requests) \union Permutations(Codes)
=============================================================================
