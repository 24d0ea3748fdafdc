--------------------------- MODULE MCAuthSession ----------------------------
(* Model values for the calls. *)
EXTENDS AuthSession

CONSTANTS a, b
=============================================================================
