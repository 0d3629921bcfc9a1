------------------------ MODULE MCResetPasswordPage ------------------------
(* Model checking of ResetPasswordPage.  No symmetry: liveness is checked. *)
EXTENDS ResetPasswordPage
=============================================================================
