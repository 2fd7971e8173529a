------------------------------ MODULE Verify ------------------------------
(***************************************************************************)
(* One verification of VerifyService: the request that creates it and      *)
(* sends the code, and the checks of codes against it.  Verifications      *)
(* share no state, so one is enough.                                       *)
(*                                                                         *)
(* A check reads the verification, decides what to do and writes it in a   *)
(* second statement with no condition on what was read; any number of      *)
(* checks may be between the two.  A check that finds the verification     *)
(* closed answers without a write and is left out.  The attempts counter   *)
(* is incremented in the database; whether it has reached its limit is     *)
(* decided on the value that was read.                                     *)
(***************************************************************************)
EXTENDS Naturals, FiniteSets

CONSTANTS
    Check,      \* slots for checks in flight at the same time
    MaxAttempts \* Verification.maxAttempts, 5 unless send is told otherwise

ASSUME CheckAssumption == IsFiniteSet(Check)
ASSUME LimitAssumption == MaxAttempts \in Nat \ {0}

VARIABLES
    request,    \* how far the send request is
    status,     \* Verification.status; "NONE" before the row is created
    attempts,   \* Verification.attempts
    expired,    \* expiresAt has passed
    check,      \* the checks between their read and their write
    overlapped, \* history: two checks were in flight at the same time
    granted     \* history: a check was answered "approved" for its code

vars == <<request, status, attempts, expired, check, overlapped, granted>>

Closed == {"APPROVED", "EXPIRED", "MAX_ATTEMPTS"}

(* does: the write a check is going to make. *)
Checks == [does : {"nothing", "expire", "limit", "count"}, right : BOOLEAN,
           seen : Nat]

TypeOK ==
    /\ request \in {"new", "created", "hashed", "delivered", "answered",
                    "failed"}
    /\ status \in Closed \cup {"NONE", "PENDING"}
    /\ attempts \in Nat
    /\ expired \in BOOLEAN
    /\ check \in [Check -> Checks]
    /\ overlapped \in BOOLEAN
    /\ granted \in BOOLEAN

NoCheck == [does |-> "nothing", right |-> FALSE, seen |-> 0]

Init ==
    /\ request = "new"
    /\ status = "NONE"
    /\ attempts = 0
    /\ expired = FALSE
    /\ check = [k \in Check |-> NoCheck]
    /\ overlapped = FALSE
    /\ granted = FALSE

InFlight == {k \in Check : check[k].does # "nothing"}

-----------------------------------------------------------------------------
(* VerifyService.send.  The caller learns the id in its answer, so checks  *)
(* begin after it, when otpHash no longer is "pending".                    *)
Create ==
    /\ request = "new"
    /\ request' = "created"
    /\ status' = "PENDING"
    /\ UNCHANGED <<attempts, expired, check, overlapped, granted>>

RequestStep(from, to) ==
    /\ request = from
    /\ request' = to
    /\ UNCHANGED <<status, attempts, expired, check, overlapped, granted>>

SetHash     == RequestStep("created", "hashed")
DeliverCode == RequestStep("hashed", "delivered")
Answer      == RequestStep("delivered", "answered")

(* The message service throws, or the API replica dies. *)
RequestFails ==
    /\ request \in {"created", "hashed", "delivered"}
    /\ RequestStep(request, "failed")

(* ttlSeconds pass from the creation on. *)
Expire ==
    /\ request # "new" /\ ~ expired
    /\ expired' = TRUE
    /\ UNCHANGED <<request, status, attempts, check, overlapped, granted>>

-----------------------------------------------------------------------------
(* VerifyService.check up to the write it decides on.                      *)
(* Variants with a bug: the time or the limit is not looked at.            *)
DecisionTimeless == IF attempts >= MaxAttempts THEN "limit" ELSE "count"

DecisionLimitless == IF expired THEN "expire" ELSE "count"

Decision ==
    IF expired THEN "expire"
    ELSE IF attempts >= MaxAttempts THEN "limit" ELSE "count"

(* A variant with a bug: closed verifications are checked again.           *)
BeginCheckAlways(k, right) ==
    /\ request = "answered"
    /\ check[k].does = "nothing"
    /\ check' = [check EXCEPT ![k] = [does |-> Decision, right |-> right,
                                      seen |-> attempts]]
    /\ overlapped' = (overlapped \/ InFlight # {})
    /\ UNCHANGED <<request, status, attempts, expired, granted>>

BeginCheck(k, right) ==
    /\ request = "answered"
    /\ check[k].does = "nothing"
    /\ status = "PENDING"
    /\ check' = [check EXCEPT ![k] = [does |-> Decision, right |-> right,
                                      seen |-> attempts]]
    /\ overlapped' = (overlapped \/ InFlight # {})
    /\ UNCHANGED <<request, status, attempts, expired, granted>>

EndCheck(k) ==
    /\ check' = [check EXCEPT ![k] = NoCheck]
    /\ UNCHANGED <<request, expired, overlapped>>

WriteExpired(k) ==
    /\ check[k].does = "expire"
    /\ status' = "EXPIRED"
    /\ EndCheck(k)
    /\ UNCHANGED <<attempts, granted>>

WriteLimit(k) ==
    /\ check[k].does = "limit"
    /\ status' = "MAX_ATTEMPTS"
    /\ EndCheck(k)
    /\ UNCHANGED <<attempts, granted>>

(* Variants with a bug: the limit is off by one, or the status of a used   *)
(* up verification is one that does not exist.                             *)
CountAttemptLate(k) ==
    /\ check[k].does = "count"
    /\ attempts' = attempts + 1
    /\ status' = IF check[k].right THEN "APPROVED"
                 ELSE IF check[k].seen >= MaxAttempts THEN "MAX_ATTEMPTS"
                 ELSE status
    /\ granted' = (granted \/ check[k].right)
    /\ EndCheck(k)

CountAttemptFailed(k) ==
    /\ check[k].does = "count"
    /\ attempts' = attempts + 1
    /\ status' = IF check[k].right THEN "APPROVED"
                 ELSE IF check[k].seen + 1 >= MaxAttempts THEN "FAILED"
                 ELSE status
    /\ granted' = (granted \/ check[k].right)
    /\ EndCheck(k)

CountAttempt(k) ==
    /\ check[k].does = "count"
    /\ attempts' = attempts + 1
    /\ status' = IF check[k].right THEN "APPROVED"
                 ELSE IF check[k].seen + 1 >= MaxAttempts THEN "MAX_ATTEMPTS"
                 ELSE status
    /\ granted' = (granted \/ check[k].right)
    /\ EndCheck(k)

(* The API replica dies between the read and the write. *)
CheckDies(k) ==
    /\ check[k].does # "nothing"
    /\ EndCheck(k)
    /\ UNCHANGED <<status, attempts, granted>>

-----------------------------------------------------------------------------
SendNext == Create \/ SetHash \/ DeliverCode \/ Answer \/ RequestFails

CheckNext(k) ==
    \/ \E right \in BOOLEAN : BeginCheck(k, right)
    \/ WriteExpired(k) \/ WriteLimit(k) \/ CountAttempt(k) \/ CheckDies(k)

Next == SendNext \/ Expire \/ \E k \in Check : CheckNext(k)

Spec == Init /\ [][Next]_vars

-----------------------------------------------------------------------------
(* However checks overlap, the codes compared exceed maxAttempts by less   *)
(* than the number of checks that can be in flight together.               *)
AttemptsBounded == attempts < MaxAttempts + Cardinality(Check)

(* Checks one after the other are exact: the limit holds to the attempt, a *)
(* code closes the verification as soon as it is used up, so the branch    *)
(* that finds the limit already reached is never taken, and an approval is *)
(* never taken back.                                                       *)
ExactWithoutOverlap ==
    ~ overlapped =>
        /\ attempts <= MaxAttempts
        /\ status = "PENDING" => attempts < MaxAttempts
        /\ status = "MAX_ATTEMPTS" => attempts = MaxAttempts
        /\ \A k \in Check : check[k].does # "limit"
        /\ granted => status = "APPROVED"

(* A verification that is closed, with no check left in flight, keeps its  *)
(* outcome for good, whatever checks come later.                           *)
SettledStays ==
    \A s \in Closed :
        []((status = s /\ InFlight = {}) => [](status = s))

(* Once the code has expired and the checks in flight at that moment are   *)
(* gone, a verification not approved by then never will be.                *)
NoLateApproval ==
    []((expired /\ InFlight = {} /\ status # "APPROVED")
         => [](status # "APPROVED"))
=============================================================================
