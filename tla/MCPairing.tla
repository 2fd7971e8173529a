----------------------------- MODULE MCPairing -----------------------------
(* Values for the constants of Pairing: two phones, two devices, and one   *)
(* code that both may send.                                                *)
EXTENDS Pairing, TLC

CONSTANTS d1, d2, p1, p2, k1

TwoDevices == {d1, d2}
TwoPhones  == {p1, p2}
OneCode    == {k1}
=============================================================================
