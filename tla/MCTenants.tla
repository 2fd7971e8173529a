----------------------------- MODULE MCTenants -----------------------------
(* Values for the constants of Tenants: two persons that register, one     *)
(* invitation two requests accept, one project made later, three keys and  *)
(* two requests for them; and two runs of the seed.                        *)
EXTENDS Tenants

CONSTANTS ann, bob, i1, r1, r2, a1, a2, k1, k2, k3, q1, q2, s1, g1, g2

Both       == {ann, bob}
OneInvite  == {i1}
TwoForms   == {r1, r2}
TwoAccepts == {a1, a2}
OneSlug    == {s1}
ThreeKeys  == {k1, k2, k3}
TwoRequests == {q1, q2}
TwoRuns    == {g1, g2}
=============================================================================
