------------------------ MODULE MCPasswordResetMail ------------------------
(* Model checking of PasswordResetMail: symmetry of its model values.      *)
EXTENDS PasswordResetMail, TLC

Symmetry == Permutations(Users) \union Permutations(Requests)
              \union Permutations(Codes) \union Permutations(Keys)
=============================================================================
