------------------------------ MODULE ApiKeys ------------------------------
(***************************************************************************)
(* The API keys of a project: api-keys.service.ts.  A rotation is three    *)
(* statements: find the key, whatever its status, set it REVOKED, create   *)
(* its heir.  Disabling is two.                                            *)
(***************************************************************************)
EXTENDS Naturals, FiniteSets

CONSTANTS
    Key,        \* the rows that may come to exist
    Request     \* requests of the dashboard under way

VARIABLES
    key,        \* ApiKey.status, "none" before the row is created
    revoked,    \* keys with a revokedAt
    heirOf,     \* history: the key a key was made to replace
    request,    \* request[r]: what r does and how far it is
    broken,     \* history: keys whose rotation died before the heir
    again       \* history: keys rotated when they were out already, or by
                \* two requests at a time

keyVars == <<key, revoked, heirOf, request, broken, again>>

NoKey == "no key"

ASSUME NoKeyAssumption == NoKey \notin Key

Requests == [at : {"idle", "rotate", "revoked", "disable"},
             key : Key \cup {NoKey}]

KeysTypeOK ==
    /\ key \in [Key -> {"none", "ACTIVE", "DISABLED", "REVOKED"}]
    /\ revoked \subseteq Key
    /\ heirOf \in [Key -> Key \cup {NoKey}]
    /\ request \in [Request -> Requests]
    /\ broken \subseteq Key
    /\ again \subseteq Key

Idle == [at |-> "idle", key |-> NoKey]

KeysInit ==
    /\ key = [k \in Key |-> "none"]
    /\ revoked = {}
    /\ heirOf = [k \in Key |-> NoKey]
    /\ request = [r \in Request |-> Idle]
    /\ broken = {}
    /\ again = {}

New(k) == key[k] = "none" /\ k = CHOOSE j \in Key : key[j] = "none"

(* create, for a project that exists.                                      *)
CreateKey(r, k) ==
    /\ request[r].at = "idle"
    /\ New(k)
    /\ key' = [key EXCEPT ![k] = "ACTIVE"]
    /\ UNCHANGED <<revoked, heirOf, request, broken, again>>

(* rotate, and disable, find the key.                                      *)
FindKey(r, k, does) ==
    /\ request[r].at = "idle"
    /\ key[k] # "none"
    /\ request' = [request EXCEPT ![r] = [at |-> does, key |-> k]]
    /\ UNCHANGED <<key, revoked, heirOf, broken, again>>

RevokeKey(r) ==
    LET k == request[r].key
    IN  /\ request[r].at = "rotate"
        /\ key' = [key EXCEPT ![k] = "REVOKED"]
        /\ again' = IF key[k] = "ACTIVE" THEN again ELSE again \cup {k}
        /\ revoked' = revoked \cup {k}
        /\ request' = [request EXCEPT ![r].at = "revoked"]
        /\ UNCHANGED <<heirOf, broken>>

(* A variant with a bug: only a key that is REVOKED by now gets an heir.   *)
CreateHeirIfRevoked(r, k) ==
    LET old == request[r].key
    IN  /\ request[r].at = "revoked"
        /\ New(k)
        /\ IF key[old] = "REVOKED"
           THEN /\ key' = [key EXCEPT ![k] = "ACTIVE"]
                /\ heirOf' = [heirOf EXCEPT ![k] = old]
           ELSE UNCHANGED <<key, heirOf>>
        /\ request' = [request EXCEPT ![r] = Idle]
        /\ UNCHANGED <<revoked, broken, again>>

CreateHeir(r, k) ==
    LET old == request[r].key
    IN  /\ request[r].at = "revoked"
        /\ New(k)
        /\ key' = [key EXCEPT ![k] = "ACTIVE"]
        /\ heirOf' = [heirOf EXCEPT ![k] = old]
        /\ request' = [request EXCEPT ![r] = Idle]
        /\ UNCHANGED <<revoked, broken, again>>

(* A variant with a bug: a status the guard does not know.                 *)
DisableAsInactive(r) ==
    /\ request[r].at = "disable"
    /\ key' = [key EXCEPT ![request[r].key] = "INACTIVE"]
    /\ request' = [request EXCEPT ![r] = Idle]
    /\ UNCHANGED <<revoked, heirOf, broken, again>>

(* The status is overwritten, also that of a REVOKED key.                  *)
DisableKey(r) ==
    /\ request[r].at = "disable"
    /\ key' = [key EXCEPT ![request[r].key] = "DISABLED"]
    /\ request' = [request EXCEPT ![r] = Idle]
    /\ UNCHANGED <<revoked, heirOf, broken, again>>

(* The replica dies; after the revocation, the project has lost its key.   *)
KeyRequestDies(r) ==
    /\ request[r].at \in {"rotate", "revoked", "disable"}
    /\ broken' = IF request[r].at = "revoked" THEN broken \cup {request[r].key}
                                              ELSE broken
    /\ request' = [request EXCEPT ![r] = Idle]
    /\ UNCHANGED <<key, revoked, heirOf, again>>

KeysNext ==
    \E r \in Request :
        \/ \E k \in Key : CreateKey(r, k) \/ CreateHeir(r, k)
        \/ \E k \in Key, does \in {"rotate", "disable"} : FindKey(r, k, does)
        \/ RevokeKey(r) \/ DisableKey(r) \/ KeyRequestDies(r)

KeysSpec == KeysInit /\ [][KeysNext]_keyVars

(* The guard, for a request with the key.  No code sets expiresAt.         *)
LetsIn(k) == key[k] = "ACTIVE"

-----------------------------------------------------------------------------
Heirs(k) == {h \in Key : heirOf[h] = k}

(* A rotation never just takes a key away: what was revoked has an heir,   *)
(* or its rotation is under way or has died.  It has one heir, unless it   *)
(* was rotated again when it was out, which nothing keeps it from; and a   *)
(* key that was revoked is never let in again.                             *)
KeysExplained ==
    \A k \in revoked :
        /\ ~ LetsIn(k)
        /\ \/ Heirs(k) # {}
           \/ k \in broken
           \/ \E r \in Request : request[r].at = "revoked" /\ request[r].key = k
        /\ Cardinality(Heirs(k)) > 1 => k \in again
=============================================================================
