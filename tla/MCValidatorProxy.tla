-------------------------- MODULE MCValidatorProxy --------------------------
(***************************************************************************)
(* The proxy with two addresses, the most that Configure accepts.          *)
(***************************************************************************)
EXTENDS ValidatorProxy

CONSTANTS a1, a2
=============================================================================
