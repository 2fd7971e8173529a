---------------------------- MODULE VerifyProofs ----------------------------
(***************************************************************************)
(* How far overlapping checks can carry a verification, for every limit    *)
(* and every number of checks in flight.                                   *)
(***************************************************************************)
EXTENDS Verify, FiniteSetTheorems, TLAPS

LEMMA TypeInit == Init => TypeOK
<1> SUFFICES ASSUME Init PROVE TypeOK
  OBVIOUS
<1>1. expired \in BOOLEAN /\ overlapped \in BOOLEAN /\ granted \in BOOLEAN
  BY DEF Init
<1>2. check \in [Check -> Checks]
  BY DEF Init, NoCheck, Checks
<1> QED
  BY <1>1, <1>2 DEF Init, TypeOK

LEMMA TypeStep == TypeOK /\ [Next]_vars => TypeOK'
<1> SUFFICES ASSUME TypeOK, [Next]_vars PROVE TypeOK'
  OBVIOUS
<1>1. CASE UNCHANGED vars
  BY <1>1 DEF vars, TypeOK
<1>2. CASE SendNext
  BY <1>2 DEF SendNext, Create, SetHash, DeliverCode, Answer, RequestFails,
              RequestStep, TypeOK
<1>3. CASE Expire
  BY <1>3 DEF Expire, TypeOK
<1>4. ASSUME NEW k \in Check, CheckNext(k)
      PROVE  TypeOK'
  <2>1. ASSUME NEW right \in BOOLEAN, BeginCheck(k, right)
        PROVE  TypeOK'
    <3>1. [does |-> Decision, right |-> right, seen |-> attempts] \in Checks
      BY DEF Decision, Checks, TypeOK
    <3>2. check' \in [Check -> Checks]
      BY <2>1, <3>1 DEF BeginCheck, TypeOK
    <3>3. overlapped' \in BOOLEAN
      BY <2>1 DEF BeginCheck, TypeOK
    <3> QED
      BY <2>1, <3>2, <3>3 DEF BeginCheck, TypeOK
  <2>2. NoCheck \in Checks
    BY DEF NoCheck, Checks
  <2>3. CASE WriteExpired(k) \/ WriteLimit(k) \/ CheckDies(k)
    BY <2>2, <2>3 DEF WriteExpired, WriteLimit, CheckDies, EndCheck, TypeOK,
                      Closed
  <2>4. CASE CountAttempt(k)
    <3>1. granted' \in BOOLEAN
      BY <2>4 DEF CountAttempt
    <3>2. attempts' \in Nat /\ check' \in [Check -> Checks]
      BY <2>2, <2>4 DEF CountAttempt, EndCheck, TypeOK
    <3>3. status' \in Closed \cup {"NONE", "PENDING"}
      BY <2>4 DEF CountAttempt, TypeOK, Closed
    <3> QED
      BY <2>4, <3>1, <3>2, <3>3 DEF CountAttempt, EndCheck, TypeOK
  <2> QED
    BY <1>4, <2>1, <2>3, <2>4 DEF CheckNext
<1> QED
  BY <1>1, <1>2, <1>3, <1>4 DEF Next

(* The state of a verification keeps its type.                             *)
THEOREM VerifyTypeCorrect == Spec => []TypeOK
  BY TypeInit, TypeStep, PTL DEF Spec

(* What a step does to the checks: it begins one, ends one, or leaves them *)
(* and the rest of the verification alone.                                 *)
LEMMA Steps ==
  ASSUME [Next]_vars
  PROVE  \/ UNCHANGED <<status, attempts, check, overlapped, granted>>
         \/ Create
         \/ \E k \in Check : \/ \E right \in BOOLEAN : BeginCheck(k, right)
                             \/ WriteExpired(k) \/ WriteLimit(k)
                             \/ CountAttempt(k) \/ CheckDies(k)
  BY DEF Next, vars, SendNext, SetHash, DeliverCode, Answer, RequestFails,
         RequestStep, Expire, CheckNext

-----------------------------------------------------------------------------
Counting == {k \in Check : check[k].does = "count"}

BoundInv == attempts + Cardinality(Counting) < MaxAttempts + Cardinality(Check)

LEMMA CountingFinite ==
  /\ IsFiniteSet(Check) /\ Cardinality(Check) \in Nat
  /\ IsFiniteSet(Counting) /\ Cardinality(Counting) \in Nat
  /\ Cardinality(Counting) <= Cardinality(Check)
<1>1. IsFiniteSet(Check) /\ Counting \subseteq Check
  BY CheckAssumption DEF Counting
<1> QED
  BY <1>1, FS_Subset, FS_CardinalityType

LEMMA BoundInit == Init => BoundInv
<1> SUFFICES ASSUME Init PROVE BoundInv
  OBVIOUS
<1>1. attempts = 0 /\ Counting = {}
  BY DEF Init, Counting, NoCheck
<1>2. Cardinality(Counting) = 0
  BY <1>1, FS_EmptySet
<1> QED
  BY <1>1, <1>2, CountingFinite, LimitAssumption DEF BoundInv

LEMMA BoundStep ==
  ASSUME TypeOK, BoundInv, [Next]_vars
  PROVE  BoundInv'
<1>a. attempts \in Nat /\ MaxAttempts \in Nat
  BY LimitAssumption DEF TypeOK
<1>b. Cardinality(Check) \in Nat /\ Cardinality(Counting) \in Nat
  BY CountingFinite
<1>c. /\ IsFiniteSet(Counting') /\ Cardinality(Counting') \in Nat
      /\ Cardinality(Counting') <= Cardinality(Check)
  <2>1. IsFiniteSet(Check) /\ Counting' \subseteq Check
    BY CheckAssumption DEF Counting
  <2> QED
    BY <2>1, FS_Subset, FS_CardinalityType
(* A step that counts nothing and begins no comparison. *)
<1>d. ASSUME attempts' = attempts, Counting' \subseteq Counting
      PROVE  BoundInv'
  <2>1. Cardinality(Counting') <= Cardinality(Counting)
    BY <1>d, CountingFinite, FS_Subset
  <2> QED
    BY <1>a, <1>b, <1>c, <1>d, <2>1 DEF BoundInv
<1>1. CASE UNCHANGED <<status, attempts, check, overlapped, granted>> \/ Create
  BY <1>1, <1>d DEF Create, Counting
<1>2. ASSUME NEW k \in Check, NEW right \in BOOLEAN, BeginCheck(k, right)
      PROVE  BoundInv'
  <2>1. CASE attempts < MaxAttempts
    <3>1. attempts' = attempts
      BY <1>2 DEF BeginCheck
    <3> QED
      BY <2>1, <3>1, <1>a, <1>b, <1>c DEF BoundInv
  <2>2. CASE attempts >= MaxAttempts
    <3>1. Counting' \subseteq Counting
      BY <1>2, <2>2 DEF BeginCheck, Counting, Decision, TypeOK
    <3> QED
      BY <1>2, <1>d, <3>1 DEF BeginCheck
  <2> QED
    BY <2>1, <2>2, <1>a
<1>3. ASSUME NEW k \in Check,
             WriteExpired(k) \/ WriteLimit(k) \/ CheckDies(k)
      PROVE  BoundInv'
  <2>1. Counting' \subseteq Counting
    BY <1>3 DEF WriteExpired, WriteLimit, CheckDies, EndCheck, NoCheck,
                Counting, TypeOK
  <2>2. attempts' = attempts
    BY <1>3 DEF WriteExpired, WriteLimit, CheckDies
  <2> QED
    BY <1>d, <2>1, <2>2
<1>4. ASSUME NEW k \in Check, CountAttempt(k)
      PROVE  BoundInv'
  <2>1. k \in Counting /\ Counting' = Counting \ {k}
    BY <1>4 DEF CountAttempt, EndCheck, NoCheck, Counting, TypeOK
  <2>2. Cardinality(Counting') = Cardinality(Counting) - 1
    BY <2>1, CountingFinite, FS_RemoveElement
  <2>3. attempts' = attempts + 1
    BY <1>4 DEF CountAttempt
  <2> QED
    BY <2>2, <2>3, <1>a, <1>b, <1>c DEF BoundInv
<1> QED
  BY <1>1, <1>2, <1>3, <1>4, Steps

(* However checks overlap, fewer codes are compared than the limit and the *)
(* checks that fit in flight add up to.                                    *)
THEOREM BoundedAttempts == Spec => []AttemptsBounded
<1>1. Spec => []BoundInv
  BY BoundInit, BoundStep, VerifyTypeCorrect, PTL DEF Spec
<1>2. TypeOK /\ BoundInv => AttemptsBounded
  BY CountingFinite, LimitAssumption DEF BoundInv, AttemptsBounded, TypeOK
<1> QED
  BY <1>1, <1>2, VerifyTypeCorrect, PTL

-----------------------------------------------------------------------------
(* Without overlap at most one check is in flight, and what it read still  *)
(* holds when it writes.                                                   *)
SoloInv ==
    ~ overlapped =>
        /\ attempts <= MaxAttempts
        /\ status \in {"NONE", "PENDING"} => attempts < MaxAttempts
        /\ status = "MAX_ATTEMPTS" => attempts = MaxAttempts
        /\ granted => status = "APPROVED"
        /\ \A k \in InFlight : /\ check[k].does # "limit"
                               /\ check[k].seen = attempts
                               /\ status = "PENDING"
        /\ \A j, k \in InFlight : j = k

NewIsNone == request = "new" => status = "NONE" /\ InFlight = {}

LEMMA NewIsNoneAlways == Spec => []NewIsNone
<1>1. Init => NewIsNone
  BY DEF Init, NewIsNone, InFlight, NoCheck
<1>2. NewIsNone /\ [Next]_vars => NewIsNone'
  <2> SUFFICES ASSUME NewIsNone, [Next]_vars, request' = "new"
               PROVE  status' = "NONE" /\ InFlight' = {}
    BY DEF NewIsNone
  <2>1. request = "new" /\ UNCHANGED <<status, check>>
    BY DEF NewIsNone, Next, vars, SendNext, Create, SetHash, DeliverCode,
           Answer, RequestFails, RequestStep, Expire, CheckNext, BeginCheck,
           WriteExpired, WriteLimit, CountAttempt, CheckDies, EndCheck, InFlight
  <2> QED
    BY <2>1 DEF NewIsNone, InFlight
<1> QED
  BY <1>1, <1>2, PTL DEF Spec

(* A check that ends is no longer in flight, the others still are.         *)
LEMMA EndOfCheck ==
  ASSUME TypeOK, NEW k \in Check, EndCheck(k)
  PROVE  /\ InFlight' = InFlight \ {k}
         /\ \A j \in InFlight' : check'[j] = check[j]
  BY DEF EndCheck, InFlight, NoCheck, TypeOK

LEMMA SoloStep ==
  ASSUME TypeOK, NewIsNone, SoloInv, [Next]_vars
  PROVE  SoloInv'
<1> SUFFICES ASSUME ~ overlapped'
             PROVE  /\ attempts' <= MaxAttempts
                    /\ status' \in {"NONE", "PENDING"}
                         => attempts' < MaxAttempts
                    /\ status' = "MAX_ATTEMPTS" => attempts' = MaxAttempts
                    /\ granted' => status' = "APPROVED"
                    /\ \A k \in InFlight' : /\ check'[k].does # "limit"
                                            /\ check'[k].seen = attempts'
                                            /\ status' = "PENDING"
                    /\ \A j, k \in InFlight' : j = k
  BY DEF SoloInv
<1>a. attempts \in Nat /\ MaxAttempts \in Nat
  BY LimitAssumption DEF TypeOK
<1>1. CASE UNCHANGED <<status, attempts, check, overlapped, granted>>
  BY <1>1 DEF SoloInv, InFlight
<1>2. CASE Create
  <2>1. status = "NONE" /\ status' = "PENDING" /\ InFlight' = {}
        /\ UNCHANGED <<attempts, overlapped, granted>>
    BY <1>2 DEF Create, NewIsNone, InFlight
  <2> QED
    BY <2>1 DEF SoloInv
<1>3. ASSUME NEW k \in Check, NEW right \in BOOLEAN, BeginCheck(k, right)
      PROVE  /\ UNCHANGED <<status, attempts, granted>>
             /\ ~ overlapped /\ status = "PENDING" /\ InFlight' = {k}
             /\ check'[k].does # "limit" /\ check'[k].seen = attempts
  <2>1. /\ UNCHANGED <<status, attempts, granted>>
        /\ ~ overlapped /\ InFlight = {} /\ status = "PENDING"
    BY <1>3 DEF BeginCheck
  <2>2. attempts < MaxAttempts
    BY <2>1 DEF SoloInv
  <2>3. check'[k] = [does |-> Decision, right |-> right, seen |-> attempts]
        /\ \A j \in Check : j # k => check'[j] = check[j]
    BY <1>3 DEF BeginCheck, TypeOK
  <2>4. Decision \in {"expire", "count"}
    BY <2>2, <1>a DEF Decision
  <2>5. InFlight' = {k}
    BY <2>1, <2>3, <2>4 DEF InFlight
  <2> QED
    BY <2>1, <2>3, <2>4, <2>5
<1>4. ASSUME NEW k \in Check, EndCheck(k), k \in InFlight
      PROVE  InFlight' = {} /\ ~ overlapped
  BY <1>4, EndOfCheck DEF SoloInv, EndCheck
<1>5. ASSUME NEW k \in Check, WriteExpired(k)
      PROVE  /\ InFlight' = {} /\ ~ overlapped /\ status = "PENDING"
             /\ status' = "EXPIRED" /\ UNCHANGED <<attempts, granted>>
  <2>1. k \in InFlight /\ EndCheck(k)
    BY <1>5 DEF WriteExpired, InFlight
  <2> QED
    BY <1>4, <1>5, <2>1 DEF WriteExpired, SoloInv
<1>6. ASSUME NEW k \in Check, WriteLimit(k)
      PROVE  FALSE
  <2>1. k \in InFlight /\ EndCheck(k) /\ check[k].does = "limit"
    BY <1>6 DEF WriteLimit, InFlight
  <2> QED
    BY <1>4, <2>1 DEF SoloInv
<1>7. ASSUME NEW k \in Check, CountAttempt(k)
      PROVE  /\ InFlight' = {} /\ ~ overlapped /\ status = "PENDING"
             /\ attempts < MaxAttempts /\ attempts' = attempts + 1
             /\ check[k].seen = attempts /\ ~ granted
             /\ granted' => check[k].right
             /\ status' = IF check[k].right THEN "APPROVED"
                          ELSE IF check[k].seen + 1 >= MaxAttempts
                               THEN "MAX_ATTEMPTS" ELSE status
  <2>1. k \in InFlight /\ EndCheck(k)
    BY <1>7 DEF CountAttempt, InFlight
  <2>2. InFlight' = {} /\ ~ overlapped
    BY <1>4, <2>1
  <2>3. /\ status = "PENDING" /\ check[k].seen = attempts
        /\ attempts < MaxAttempts /\ ~ granted
    BY <2>1, <2>2 DEF SoloInv
  <2> QED
    BY <1>7, <2>2, <2>3 DEF CountAttempt
<1>8. ASSUME NEW k \in Check, CheckDies(k)
      PROVE  /\ InFlight' = {} /\ ~ overlapped
             /\ UNCHANGED <<status, attempts, granted>>
  <2>1. k \in InFlight /\ EndCheck(k)
    BY <1>8 DEF CheckDies, InFlight
  <2> QED
    BY <1>4, <1>8, <2>1 DEF CheckDies
<1>9. ASSUME NEW k \in Check, NEW right \in BOOLEAN, BeginCheck(k, right)
      PROVE  /\ attempts' <= MaxAttempts
             /\ status' \in {"NONE", "PENDING"} => attempts' < MaxAttempts
             /\ status' = "MAX_ATTEMPTS" => attempts' = MaxAttempts
             /\ granted' => status' = "APPROVED"
             /\ \A j \in InFlight' : /\ check'[j].does # "limit"
                                     /\ check'[j].seen = attempts'
                                     /\ status' = "PENDING"
             /\ \A i, j \in InFlight' : i = j
  BY <1>3, <1>9 DEF SoloInv
<1> QED
  BY <1>1, <1>2, <1>5, <1>6, <1>7, <1>8, <1>9, <1>a, Steps DEF SoloInv

(* Checks one after the other are exact.                                   *)
THEOREM ExactInSequence == Spec => []ExactWithoutOverlap
<1>1. Init => SoloInv
  BY LimitAssumption DEF Init, SoloInv, InFlight, NoCheck
<1>2. Spec => []SoloInv
  BY <1>1, SoloStep, VerifyTypeCorrect, NewIsNoneAlways, PTL DEF Spec
<1>3. SoloInv => ExactWithoutOverlap
  BY DEF SoloInv, ExactWithoutOverlap, InFlight
<1> QED
  BY <1>2, <1>3, PTL

-----------------------------------------------------------------------------
(* With no check in flight, a closed verification stays what it is.        *)
THEOREM ClosedIsFinal == Spec => SettledStays
<1>1. ASSUME NEW CONSTANT s \in Closed
      PROVE  Spec => []((status = s /\ InFlight = {}) => [](status = s))
  <2>1. NewIsNone /\ status = s /\ InFlight = {} /\ [Next]_vars
          => (status = s /\ InFlight = {})'
    <3> SUFFICES ASSUME NewIsNone, [Next]_vars, status = s, InFlight = {}
                 PROVE  status' = s /\ InFlight' = {}
      OBVIOUS
    <3> QED
      BY Steps DEF NewIsNone, Create, BeginCheck, WriteExpired, WriteLimit,
                   CountAttempt, CheckDies, InFlight, Closed
  <2> QED
    BY <2>1, NewIsNoneAlways, PTL DEF Spec
<1> QED
  BY <1>1 DEF SettledStays

(* A code that expired without approval, and with no check still in        *)
(* flight, never approves.                                                 *)
LateInv ==
    /\ expired /\ status # "APPROVED"
    /\ \A k \in InFlight : check[k].does = "expire"

THEOREM LateNeverApproves == Spec => NoLateApproval
<1>1. expired /\ InFlight = {} /\ status # "APPROVED" => LateInv
  BY DEF LateInv
<1>2. TypeOK /\ LateInv /\ [Next]_vars => LateInv'
  <2> SUFFICES ASSUME TypeOK, LateInv, [Next]_vars PROVE LateInv'
    OBVIOUS
  <2>1. expired'
    BY DEF LateInv, Next, vars, SendNext, Create, SetHash, DeliverCode, Answer,
           RequestFails, RequestStep, Expire, CheckNext, BeginCheck,
           WriteExpired, WriteLimit, CountAttempt, CheckDies, EndCheck
  <2>2. CASE UNCHANGED <<status, attempts, check, overlapped, granted>>
    BY <2>1, <2>2 DEF LateInv, InFlight
  <2>3. CASE Create
    BY <2>1, <2>3 DEF Create, LateInv, InFlight
  <2>4. ASSUME NEW k \in Check, NEW right \in BOOLEAN, BeginCheck(k, right)
        PROVE  LateInv'
    <3>1. check'[k].does = "expire" /\ UNCHANGED status
          /\ \A j \in Check : j # k => check'[j] = check[j]
      BY <2>4 DEF BeginCheck, Decision, TypeOK, LateInv
    <3> QED
      BY <2>1, <3>1 DEF LateInv, InFlight
  <2>5. ASSUME NEW k \in Check, EndCheck(k), status' # "APPROVED"
        PROVE  LateInv'
    BY <2>1, <2>5, EndOfCheck DEF LateInv
  <2>6. ASSUME NEW k \in Check,
               \/ WriteExpired(k) \/ WriteLimit(k) \/ CountAttempt(k)
               \/ CheckDies(k)
        PROVE  LateInv'
    <3>1. EndCheck(k)
      BY <2>6 DEF WriteExpired, WriteLimit, CountAttempt, CheckDies
    <3>2. status' # "APPROVED"
      BY <2>6 DEF WriteExpired, WriteLimit, CountAttempt, CheckDies, LateInv,
                  InFlight
    <3> QED
      BY <2>5, <3>1, <3>2
  <2> QED
    BY <2>2, <2>3, <2>4, <2>6, Steps
<1>3. LateInv => status # "APPROVED"
  BY DEF LateInv
<1> QED
  BY <1>1, <1>2, <1>3, VerifyTypeCorrect, PTL DEF Spec, NoLateApproval
=============================================================================
