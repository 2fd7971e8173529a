----------------------------- MODULE MCSessions -----------------------------
(* Values for the constants of Sessions: the shell and one page of a       *)
(* browser, two logins, one reset.                                         *)
EXTENDS Sessions, TLC

CONSTANTS f1, f2, shell, page, l1, k1, s1

TwoFamilies == {f1, f2}
Calls       == {shell, page}
Shells      == {shell}
OneSignIn   == {l1}
OneLink     == {k1}
OneSetter   == {s1}

Interchangeable == Permutations(TwoFamilies)
=============================================================================
