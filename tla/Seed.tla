-------------------------------- MODULE Seed --------------------------------
(***************************************************************************)
(* seed.ts, which fills an empty database and is run again on one that is  *)
(* in use (bootstrap.ps1 always runs it).  A row with a unique key is      *)
(* upserted.  A route and the test key have none: they are looked for, and *)
(* created when they are not there.  The secret of the test key is kept    *)
(* nowhere but in the run that made it, which prints it last.              *)
(***************************************************************************)
EXTENDS Naturals, FiniteSets

CONSTANTS
    Run,        \* the times the script is started
    MaxInUse    \* bound: rows that are changed in use

(* The rows in the order the script writes them.  Of many rows of a kind,  *)
(* it is the last that counts: a run that is ended before leaves some, and *)
(* the next run adds the others.                                           *)
Permissions == 1        \* one row for each code
OwnerRole   == 2
Grants      == 3        \* one row for each permission there is by then
Admin       == 4
Developer   == 5
Org         == 6
Ownership   == 7        \* the Membership of the developer
Adminship   == 8        \* the Membership of the admin
Wallet      == 9
Project     == 10
Providers   == 11       \* one row for each provider
Routes      == 12..15   \* android gateway, msg91, springedge, twilio
Template    == 16
Plan        == 17
TestKey     == 18

Row == 1..18

(* Looked for before they are created.                                     *)
FindFirst == Routes \cup {TestKey}

(* What the upsert sets back when it finds the row, and the API changes:   *)
(* passwordHash, the role, balanceMinor.                                   *)
SetBack == {Admin, Developer, Ownership, Wallet}

VARIABLES
    at,         \* at[r]: the row r is at; 0 before it starts, 19 when it is
                \* to print, 20 when it has
    missing,    \* runs that have looked for their row and not found it
    made,       \* made[x]: the runs that created an x of FindFirst
    rows,       \* the rows that are there
    used,       \* rows of SetBack that the API has changed since
    dead,       \* runs that were ended by an error or a signal
    reset,      \* history: rows of used that a run has set back
    met         \* history: the pairs of runs that were under way at once

seedVars == <<at, missing, made, rows, used, dead, reset, met>>

SeedTypeOK ==
    /\ at \in [Run -> 0..20]
    /\ missing \subseteq Run
    /\ made \in [FindFirst -> SUBSET Run]
    /\ rows \subseteq Row
    /\ used \subseteq SetBack
    /\ dead \subseteq Run
    /\ reset \subseteq SetBack
    /\ met \subseteq SUBSET Run

SeedInit ==
    /\ at = [r \in Run |-> 0]
    /\ missing = {}
    /\ made = [x \in FindFirst |-> {}]
    /\ rows = {}
    /\ used = {}
    /\ dead = {}
    /\ reset = {}
    /\ met = {}

UnderWay(r) == at[r] \in 1..19 /\ r \notin dead

Done(r) == at[r] = 20

-----------------------------------------------------------------------------
SeedStarts(r) ==
    /\ at[r] = 0
    /\ at' = [at EXCEPT ![r] = 1]
    /\ met' = met \cup {{r, s} : s \in {s \in Run : UnderWay(s)}}
    /\ UNCHANGED <<missing, made, rows, used, dead, reset>>

(* A row that is there stays, but for what is set back.                    *)
Upsert(r) ==
    LET x == at[r]
    IN  /\ UnderWay(r)
        /\ x \in Row \ FindFirst
        /\ rows' = rows \cup {x}
        /\ reset' = reset \cup (used \cap {x})
        /\ used' = used \ {x}
        /\ at' = [at EXCEPT ![r] = x + 1]
        /\ UNCHANGED <<missing, made, dead, met>>

(* A variant with a bug: what is looked for is never found, as with a      *)
(* country that is not null.                                               *)
FindNothing(r) ==
    /\ UnderWay(r)
    /\ at[r] \in FindFirst
    /\ r \notin missing
    /\ missing' = missing \cup {r}
    /\ UNCHANGED <<at, made, rows, used, dead, reset, met>>

Find(r) ==
    LET x == at[r]
    IN  /\ UnderWay(r)
        /\ x \in FindFirst
        /\ r \notin missing
        /\ IF x \in rows THEN at' = [at EXCEPT ![r] = x + 1] /\ UNCHANGED missing
                          ELSE missing' = missing \cup {r} /\ UNCHANGED at
        /\ UNCHANGED <<made, rows, used, dead, reset, met>>

Create(r) ==
    LET x == at[r]
    IN  /\ UnderWay(r)
        /\ r \in missing
        /\ made' = [made EXCEPT ![x] = @ \cup {r}]
        /\ rows' = rows \cup {x}
        /\ missing' = missing \ {r}
        /\ at' = [at EXCEPT ![r] = x + 1]
        /\ UNCHANGED <<used, dead, reset, met>>

(* "Seed complete", and the secret of the test key if this run made it.    *)
Prints(r) ==
    /\ UnderWay(r)
    /\ at[r] = 19
    /\ at' = [at EXCEPT ![r] = 20]
    /\ UNCHANGED <<missing, made, rows, used, dead, reset, met>>

(* main's catch, also for the upsert that loses a race for a unique key.   *)
SeedDies(r) ==
    /\ UnderWay(r)
    /\ dead' = dead \cup {r}
    /\ UNCHANGED <<at, missing, made, rows, used, reset, met>>

(* The API is in use: a password, a role or the balance is changed.        *)
InUse(x) ==
    /\ x \in rows \ used
    /\ Cardinality(used \cup reset) < MaxInUse
    /\ used' = used \cup {x}
    /\ UNCHANGED <<at, missing, made, rows, dead, reset, met>>

SeedNext ==
    \/ \E r \in Run : \/ SeedStarts(r) \/ Upsert(r)
                      \/ Find(r) \/ Create(r) \/ Prints(r) \/ SeedDies(r)
    \/ \E x \in SetBack : InUse(x)

SeedSpec == SeedInit /\ [][SeedNext]_seedVars

-----------------------------------------------------------------------------
(* However often the script is ended and started: a row is there only      *)
(* after all it refers to, so that no lookup of seed.ts throws; a run that *)
(* ends well leaves every row; there is one of each, but for routes and    *)
(* test keys that two runs made while both were under way.                 *)
RowsAreInOrder == \A x \in rows : 1..x \subseteq rows

DoneIsAll == \A r \in Run : Done(r) => rows = Row

DoublesAreExplained ==
    \A x \in FindFirst : \A r, s \in made[x] : r = s \/ {r, s} \in met

(* A database whose test key nobody knows the secret of, and for which no  *)
(* run makes another: the run that made it was ended before it printed.    *)
SecretLost == TestKey \in rows /\ ~ \E r \in made[TestKey] : Done(r) \/ UnderWay(r)

LostIsExplained ==
    SecretLost => \E r \in dead : r \in made[TestKey] /\ at[r] = 19

(* What was changed in use is set back by a second run only.  The wallet   *)
(* then holds what no entry of its ledger says.                            *)
ResetIsExplained ==
    \A x \in reset : \E r, s \in Run : r # s /\ at[r] > x /\ at[s] > x

SeedIsExplained ==
    /\ RowsAreInOrder /\ DoneIsAll /\ DoublesAreExplained
    /\ LostIsExplained /\ ResetIsExplained
=============================================================================
