------------------------------ MODULE Delivery ------------------------------
(***************************************************************************)
(* What the gateway promises for the messages it accepts, with no devices, *)
(* calls or loops: a message is sent at most once for each grant, a grant  *)
(* is given when the message is accepted and again whenever its fate stays *)
(* open too long, and nothing is declared SENT that was not sent.          *)
(***************************************************************************)
EXTENDS Naturals

CONSTANT Message

VARIABLES
    outcome,    \* "none" before acceptance, "open", then "SENT" or "FAILED"
    grants,     \* permissions to send given so far
    sends       \* times the message was sent

vars == <<outcome, grants, sends>>

Init ==
    /\ outcome = [m \in Message |-> "none"]
    /\ grants = [m \in Message |-> 0]
    /\ sends = [m \in Message |-> 0]

Accept(m) ==
    /\ outcome[m] = "none"
    /\ outcome' = [outcome EXCEPT ![m] = "open"]
    /\ grants' = [grants EXCEPT ![m] = 1]
    /\ UNCHANGED sends

(* Several messages may be granted again in one step. *)
Regrant(S) ==
    /\ \A m \in S : outcome[m] = "open"
    /\ grants' = [m \in Message |-> IF m \in S THEN grants[m] + 1 ELSE grants[m]]
    /\ UNCHANGED <<outcome, sends>>

(* A message may still be sent after it was decided, by a sender that held *)
(* an older grant.                                                         *)
Transmit(m) ==
    /\ sends[m] < grants[m]
    /\ sends' = [sends EXCEPT ![m] = @ + 1]
    /\ UNCHANGED <<outcome, grants>>

(* A second report may replace the first. *)
Decide(m, o) ==
    /\ outcome[m] # "none"
    /\ o = "SENT" => sends[m] > 0
    /\ outcome' = [outcome EXCEPT ![m] = o]
    /\ UNCHANGED <<grants, sends>>

Next ==
    \/ \E m \in Message : Accept(m) \/ Transmit(m)
    \/ \E S \in SUBSET Message : Regrant(S)
    \/ \E m \in Message, o \in {"SENT", "FAILED"} : Decide(m, o)

Spec == Init /\ [][Next]_vars
=============================================================================
