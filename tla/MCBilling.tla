----------------------------- MODULE MCBilling -----------------------------
(* Values for the constants of Billing: a wallet with 2, two LIVE messages  *)
(* and one TEST message of cost 2, 1 and 3, and a recharge of 1.            *)
EXTENDS Billing

CONSTANTS live1, live2, test1, r1

Messages  == {live1, live2, test1}
Recharges == {r1}
Costs     == [m \in Messages |-> IF m = live1 THEN 2
                                 ELSE IF m = live2 THEN 1 ELSE 3]
Amounts   == [r \in Recharges |-> 1]
Lives     == [m \in Messages |-> m # test1]
=============================================================================
