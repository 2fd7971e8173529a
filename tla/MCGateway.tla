----------------------------- MODULE MCGateway -----------------------------
(* Values for the constants of Gateway: one project with one phone. *)
EXTENDS Gateway, TLC

CONSTANTS d1, d2, c1, c2, m1, m2, k1, k2

OneDevice   == {d1}
TwoDevices  == {d1, d2}
OneLoop     == {c1}
TwoLoops    == {c1, c2}
OneMessage  == {m1}
TwoMessages == {m1, m2}
TwoCalls    == {k1, k2}
Phone1      == [c \in {c1} |-> d1]
Phone2      == [c \in {c1, c2} |-> d1]
Phones      == (c1 :> d1) @@ (c2 :> d2)

Interchangeable == Permutations(TwoMessages) \cup Permutations(TwoCalls)
=============================================================================
