----------------------------- MODULE MCVerify -----------------------------
(* Values for the constants of Verify: three checks that may be in flight  *)
(* together, more than the limit of two attempts.                          *)
EXTENDS Verify

CONSTANTS k1, k2, k3

ThreeChecks == {k1, k2, k3}
=============================================================================
