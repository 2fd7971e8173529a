----------------------------- MODULE MCDevices -----------------------------
(* Values for the constants of Devices: two devices and two callers, enough *)
(* for two heartbeats of one device and for devices that differ.            *)
EXTENDS Devices, TLC

CONSTANTS d1, d2, c1, c2

TwoDevices == {d1, d2}
TwoClients == {c1, c2}
=============================================================================
