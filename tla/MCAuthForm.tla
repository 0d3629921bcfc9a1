----------------------------- MODULE MCAuthForm -----------------------------
(* Model checking of AuthForm: symmetry of its model values.               *)
EXTENDS AuthForm, TLC

Symmetry == Permutations(Emails) \union Permutations(Calls)
=============================================================================
