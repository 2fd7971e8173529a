------------------------------ MODULE Tenants ------------------------------
(***************************************************************************)
(* Accounts and the API keys of one of their projects, the first project   *)
(* of a founder: keys come after registration has got that far.  The two   *)
(* share no row beyond that, so their steps commute, and the keys are      *)
(* looked at with the accounts at rest.  The rows of the seed belong to    *)
(* users of its own: it is looked at before anybody registers.             *)
(***************************************************************************)
EXTENDS Accounts, ApiKeys, Seed

CONSTANT Founder    \* whose first project the keys are for

ASSUME FounderAssumption == Founder \in Person

tenantVars == <<accountVars, keyVars, seedVars>>

TenantsTypeOK == AccountsTypeOK /\ KeysTypeOK /\ SeedTypeOK

TenantsInit == AccountsInit /\ KeysInit /\ SeedInit

Resting ==
    /\ user = {Founder}
    /\ DEFAULT \in projects[Founder]
    /\ \A r \in Form : form[r] = Blank
    /\ \A i \in Invite : invite[i] = NoRow

TenantsNext ==
    \/ SeedInit /\ KeysInit /\ AccountsNext /\ UNCHANGED <<keyVars, seedVars>>
    \/ SeedInit /\ Resting /\ KeysNext /\ UNCHANGED <<accountVars, seedVars>>
    \/ AccountsInit /\ KeysInit /\ SeedNext /\ UNCHANGED <<accountVars, keyVars>>

TenantsSpec == TenantsInit /\ [][TenantsNext]_tenantVars
=============================================================================
