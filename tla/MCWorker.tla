------------------------------ MODULE MCWorker ------------------------------
(* Values for the constants of Worker: a job of any kind and three hooks,  *)
(* so that one may come before the hook that fails and one after it.       *)
EXTENDS Worker

CONSTANTS j1, h1, h2, h3

OneJob     == {j1}
ThreeHooks == {h1, h2, h3}
=============================================================================
