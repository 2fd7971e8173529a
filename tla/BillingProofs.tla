--------------------------- MODULE BillingProofs ---------------------------
(***************************************************************************)
(* What the wallet keeps however requests overlap: its type, the agreement *)
(* of balance and statement, and that LIVE traffic alone never runs into   *)
(* debt.                                                                   *)
(***************************************************************************)
EXTENDS Billing, TLAPS


LEMMA TypeInit == Init => TypeOK
<1> SUFFICES ASSUME Init PROVE TypeOK
  OBVIOUS
<1>a. crossed \in BOOLEAN
  BY DEF Init
<1>1. balance \in Int
  BY OpeningAssumption DEF Init
<1>2. ledger \in Seq(Entries) /\ usage \subseteq Message /\ events \subseteq Events
  BY DEF Init
<1>3. charge \in [Message -> Charges] /\ topup \in [Recharge -> Topups]
  BY DEF Init, Charges, Topups
<1> QED
  BY <1>a, <1>1, <1>2, <1>3 DEF TypeOK

(* A commit appends one entry and makes its balanceAfter the balance.      *)
LEMMA CommitType ==
  ASSUME TypeOK, NEW type, NEW amount \in Int, NEW after \in Int, NEW ref,
         \/ type = "DEBIT" /\ ref \in Message
         \/ type = "CREDIT" /\ ref \in Recharge,
         Commit(type, amount, after, ref)
  PROVE  /\ balance' = after /\ ledger' \in Seq(Entries)
         /\ Len(ledger') = Len(ledger) + 1
         /\ ledger'[Len(ledger) + 1].type = type
         /\ ledger'[Len(ledger) + 1].ref = ref
         /\ ledger'[Len(ledger) + 1].after = after
         /\ \A i \in 1 .. Len(ledger) : ledger'[i] = ledger[i]
         /\ crossed' \in BOOLEAN
<1> DEFINE e == [type |-> type, amount |-> amount, after |-> after, ref |-> ref]
<1>1. e \in Entries /\ ledger \in Seq(Entries)
  BY DEF Entries, TypeOK
<1>2. ledger' = Append(ledger, e) /\ balance' = after
  BY DEF Commit
<1>3. crossed' \in BOOLEAN
  BY DEF Commit, TypeOK
<1> QED
  BY <1>1, <1>2, <1>3

LEMMA ChargeType ==
  ASSUME TypeOK, NEW m \in Message, ChargeNext(m)
  PROVE  TypeOK'
<1>a. charge[m] \in Charges /\ Cost[m] \in Nat /\ charge[m].seen \in Int
  BY CostAssumption DEF TypeOK, Charges
<1>1. CASE Answered(m)
  <2>1. PICK result \in {"none", "failed", "queued"} :
          charge' = [charge EXCEPT ![m] =
                       [charge[m] EXCEPT !.at = IF result = "none" THEN "webhook"
                                                ELSE "usage",
                                         !.result = result]]
    BY <1>1 DEF Answered, ChargeStep
  <2>2. charge'[m] = [at |-> IF result = "none" THEN "webhook" ELSE "usage",
                      result |-> result, seen |-> charge[m].seen]
    BY <2>1, <1>a DEF TypeOK, Charges
  <2>3. charge' = [charge EXCEPT ![m] = charge'[m]] /\ charge'[m] \in Charges
    BY <2>1, <2>2, <1>a DEF TypeOK, Charges
  <2>4. charge' \in [Message -> Charges]
    BY <2>3 DEF TypeOK
  <2> QED
    BY <1>1, <2>4 DEF Answered, ChargeStep, TypeOK
<1>2. CASE RecordUsage(m)
  BY <1>2, <1>a DEF RecordUsage, ChargeStep, TypeOK, Charges
<1>3. CASE ReadWallet(m)
  BY <1>3, <1>a DEF ReadWallet, ChargeStep, TypeOK, Charges
<1>4. CASE Debit(m)
  <2>1. Commit("DEBIT", Cost[m], charge[m].seen - Cost[m], m)
    BY <1>4 DEF Debit
  <2>2. /\ balance' \in Int /\ ledger' \in Seq(Entries)
        /\ crossed' \in BOOLEAN
    BY <2>1, <1>a, CommitType
  <2> QED
    BY <1>4, <1>a, <2>2 DEF Debit, ChargeStep, TypeOK, Charges
<1>5. CASE EnqueueWebhook(m)
  <2>1. charge' \in [Message -> Charges]
    BY <1>5, <1>a DEF EnqueueWebhook, ChargeStep, TypeOK, Charges
  <2>2. events' \subseteq Events
    BY <1>5 DEF EnqueueWebhook, TypeOK, Events
  <2> QED
    BY <1>5, <2>1, <2>2 DEF EnqueueWebhook, ChargeStep, TypeOK
<1>6. CASE ChargeDies(m)
  BY <1>6, <1>a DEF ChargeDies, TypeOK, Charges
<1> QED
  BY <1>1, <1>2, <1>3, <1>4, <1>5, <1>6 DEF ChargeNext

LEMMA RechargeType ==
  ASSUME TypeOK, NEW r \in Recharge, RechargeNext(r)
  PROVE  TypeOK'
<1>a. topup[r] \in Topups /\ Amount[r] \in Int /\ topup[r].seen \in Int
  BY AmountAssumption DEF TypeOK, Topups
<1>1. CASE RechargeRead(r)
  BY <1>1, <1>a DEF RechargeRead, TypeOK, Topups
<1>2. CASE RechargeWrite(r)
  <2>1. Commit("CREDIT", Amount[r], topup[r].seen + Amount[r], r)
    BY <1>2 DEF RechargeWrite
  <2>2. /\ balance' \in Int /\ ledger' \in Seq(Entries)
        /\ crossed' \in BOOLEAN
    BY <2>1, <1>a, CommitType
  <2> QED
    BY <1>2, <1>a, <2>2 DEF RechargeWrite, TypeOK, Topups
<1>3. CASE RechargeDies(r)
  BY <1>3, <1>a DEF RechargeDies, TypeOK, Topups
<1> QED
  BY <1>1, <1>2, <1>3 DEF RechargeNext

(* The state of the wallet and of the requests keeps its type.             *)
THEOREM WalletTypeCorrect == Spec => []TypeOK
<1>1. TypeOK /\ [Next]_vars => TypeOK'
  <2>1. TypeOK /\ UNCHANGED vars => TypeOK'
    BY DEF TypeOK, vars
  <2> QED
    BY <2>1, ChargeType, RechargeType DEF Next
<1> QED
  BY TypeInit, <1>1, PTL DEF Spec

-----------------------------------------------------------------------------
(* A commit is the only step that touches balance and statement.           *)
LEMMA OnlyCommits ==
  ASSUME TypeOK, [Next]_vars
  PROVE  \/ UNCHANGED <<balance, ledger>>
         \/ \E m \in Message :
              /\ Debit(m)
              /\ Commit("DEBIT", Cost[m], charge[m].seen - Cost[m], m)
         \/ \E r \in Recharge :
              /\ RechargeWrite(r)
              /\ Commit("CREDIT", Amount[r], topup[r].seen + Amount[r], r)
<1>1. CASE UNCHANGED vars
  BY <1>1 DEF vars
<1>2. ASSUME NEW m \in Message, ChargeNext(m)
      PROVE  UNCHANGED <<balance, ledger>> \/ Debit(m)
  BY <1>2 DEF ChargeNext, Answered, RecordUsage, ReadWallet, EnqueueWebhook,
              ChargeDies
<1>3. ASSUME NEW r \in Recharge, RechargeNext(r)
      PROVE  UNCHANGED <<balance, ledger>> \/ RechargeWrite(r)
  BY <1>3 DEF RechargeNext, RechargeRead, RechargeDies
<1>4. /\ \A m \in Message : Debit(m)
             => Commit("DEBIT", Cost[m], charge[m].seen - Cost[m], m)
      /\ \A r \in Recharge : RechargeWrite(r)
             => Commit("CREDIT", Amount[r], topup[r].seen + Amount[r], r)
  BY DEF Debit, RechargeWrite
<1> QED
  BY <1>1, <1>2, <1>3, <1>4 DEF Next

(* Any step but a commit leaves the money alone; only reading brings a     *)
(* request to the point where it writes.                                   *)
ReadsOnly ==
    /\ UNCHANGED <<balance, ledger, crossed>>
    /\ \A m \in Message : charge'[m].at = "write"
         => \/ charge'[m] = charge[m]
            \/ /\ charge'[m].seen = balance
               /\ Live[m] => balance >= Cost[m]
    /\ \A r \in Recharge : topup'[r].at = "write"
         => \/ topup'[r] = topup[r]
            \/ topup'[r].seen = balance /\ Amount[r] > 0

LEMMA CommitsOrReads ==
  ASSUME TypeOK, [Next]_vars
  PROVE  \/ ReadsOnly
         \/ \E m \in Message : Debit(m)
         \/ \E r \in Recharge : RechargeWrite(r)
<1>1. CASE UNCHANGED vars
  BY <1>1 DEF vars, ReadsOnly
<1>2. ASSUME NEW m \in Message,
             \/ Answered(m) \/ RecordUsage(m) \/ ReadWallet(m)
             \/ EnqueueWebhook(m) \/ ChargeDies(m)
      PROVE  ReadsOnly
  <2>1. UNCHANGED <<balance, ledger, crossed, topup>>
    BY <1>2 DEF Answered, RecordUsage, ReadWallet, EnqueueWebhook, ChargeDies,
                ChargeStep
  <2>2. \A l \in Message : l # m => charge'[l] = charge[l]
    BY <1>2 DEF Answered, RecordUsage, ReadWallet, EnqueueWebhook, ChargeDies,
                ChargeStep, TypeOK
  <2>a. charge[m] \in Charges /\ Cost[m] \in Nat /\ balance \in Int
    BY CostAssumption DEF TypeOK
  <2>3. CASE ReadWallet(m)
    <3>1. /\ Refused(m) => charge'[m].at = "refused"
          /\ ~ Refused(m) => charge'[m].seen = balance
      BY <2>3, <2>a DEF ReadWallet, ChargeStep, TypeOK, Charges
    <3>2. ~ Refused(m) => (Live[m] => balance >= Cost[m])
      BY <2>a DEF Refused
    <3> QED
      BY <2>1, <2>2, <3>1, <3>2 DEF ReadsOnly
  <2>4. CASE RecordUsage(m) \/ EnqueueWebhook(m) \/ ChargeDies(m)
    <3>1. charge'[m].at # "write"
      BY <2>4, <2>a DEF RecordUsage, EnqueueWebhook, ChargeDies, ChargeStep,
                        TypeOK, Charges
    <3> QED
      BY <2>1, <2>2, <3>1 DEF ReadsOnly
  <2>5. CASE Answered(m)
    <3>1. PICK result \in {"none", "failed", "queued"} :
            charge' = [charge EXCEPT ![m] =
                         [charge[m] EXCEPT !.at = IF result = "none"
                                                  THEN "webhook" ELSE "usage",
                                           !.result = result]]
      BY <2>5 DEF Answered, ChargeStep
    <3>2. charge'[m].at # "write"
      BY <3>1, <2>a DEF TypeOK, Charges
    <3> QED
      BY <2>1, <2>2, <3>2 DEF ReadsOnly
  <2> QED
    BY <1>2, <2>3, <2>4, <2>5
<1>3. ASSUME NEW r \in Recharge, RechargeRead(r) \/ RechargeDies(r)
      PROVE  ReadsOnly
  <2>1. UNCHANGED <<balance, ledger, crossed, charge>>
    BY <1>3 DEF RechargeRead, RechargeDies
  <2>2. \A q \in Recharge : q # r => topup'[q] = topup[q]
    BY <1>3 DEF RechargeRead, RechargeDies, TypeOK
  <2>3. topup'[r].at = "write" => topup'[r].seen = balance /\ Amount[r] > 0
    BY <1>3 DEF RechargeRead, RechargeDies, TypeOK, Topups
  <2> QED
    BY <2>1, <2>2, <2>3 DEF ReadsOnly
<1> QED
  BY <1>1, <1>2, <1>3 DEF Next, ChargeNext, RechargeNext

(* The balance is always the balanceAfter of the newest entry.             *)
THEOREM BalanceOnStatement == Spec => []HeadIsBalance
<1>1. Init => HeadIsBalance
  BY DEF Init, HeadIsBalance
<1>2. TypeOK /\ HeadIsBalance /\ [Next]_vars => HeadIsBalance'
  <2> SUFFICES ASSUME TypeOK, HeadIsBalance, [Next]_vars
               PROVE  HeadIsBalance'
    OBVIOUS
  <2>a. ASSUME NEW type, NEW amount \in Int, NEW after \in Int, NEW ref,
               \/ type = "DEBIT" /\ ref \in Message
               \/ type = "CREDIT" /\ ref \in Recharge,
               Commit(type, amount, after, ref)
        PROVE  HeadIsBalance'
    <3>1. /\ balance' = after /\ ledger' \in Seq(Entries)
          /\ Len(ledger') = Len(ledger) + 1
          /\ ledger'[Len(ledger) + 1].after = after
      BY <2>a, CommitType
    <3>2. ledger' # <<>> /\ Last(ledger') = ledger'[Len(ledger) + 1]
      BY <3>1 DEF Last, TypeOK
    <3> QED
      BY <3>1, <3>2 DEF HeadIsBalance
  <2>1. CASE UNCHANGED <<balance, ledger>>
    BY <2>1 DEF HeadIsBalance
  <2>2. ASSUME NEW m \in Message,
               Commit("DEBIT", Cost[m], charge[m].seen - Cost[m], m)
        PROVE  HeadIsBalance'
    <3>1. Cost[m] \in Int /\ charge[m].seen - Cost[m] \in Int
      BY CostAssumption DEF TypeOK, Charges
    <3> QED
      BY <2>2, <2>a, <3>1
  <2>3. ASSUME NEW r \in Recharge,
               Commit("CREDIT", Amount[r], topup[r].seen + Amount[r], r)
        PROVE  HeadIsBalance'
    <3>1. Amount[r] \in Int /\ topup[r].seen + Amount[r] \in Int
      BY AmountAssumption DEF TypeOK, Topups
    <3> QED
      BY <2>3, <2>a, <3>1
  <2> QED
    BY <2>1, <2>2, <2>3, OnlyCommits
<1> QED
  BY <1>1, <1>2, WalletTypeCorrect, PTL DEF Spec

-----------------------------------------------------------------------------
(* What a request will write was covered when it read the balance, and a   *)
(* debt needs a TEST charge on the statement.                              *)
WillBeCovered ==
    \A m \in Message :
        charge[m].at = "write" /\ Live[m] => charge[m].seen >= Cost[m]

DebtSeen ==
    /\ \A m \in Message : charge[m].at = "write" /\ charge[m].seen < 0
                            => \E i \in DOMAIN ledger : TestCharge(i)
    /\ \A r \in Recharge : topup[r].at = "write"
                            => /\ Amount[r] > 0
                               /\ topup[r].seen < 0
                                    => \E i \in DOMAIN ledger : TestCharge(i)

MoneyInv == WillBeCovered /\ LiveChargesCovered /\ DebtSeen /\ DebtIsFromTest

LEMMA MoneyInit == Init => MoneyInv
<1> SUFFICES ASSUME Init PROVE MoneyInv
  OBVIOUS
<1>1. DOMAIN ledger = {}
  BY DEF Init
<1>2. /\ \A m \in Message : charge[m].at = "new"
      /\ \A r \in Recharge : topup[r].at = "new"
  BY DEF Init
<1> QED
  <2>1. WillBeCovered /\ DebtSeen
    BY <1>2 DEF WillBeCovered, DebtSeen
  <2>2. LiveChargesCovered
    BY <1>1 DEF LiveChargesCovered
  <2>3. DebtIsFromTest
    BY OpeningAssumption DEF DebtIsFromTest, Init
  <2> QED
    BY <2>1, <2>2, <2>3 DEF MoneyInv

(* A commit keeps the old entries, so it can only break the claim with its *)
(* own entry, and never undoes a TEST charge.                              *)
LEMMA CommitMoney ==
  ASSUME TypeOK, MoneyInv,
         NEW type, NEW amount \in Int, NEW after \in Int, NEW ref,
         \/ type = "DEBIT" /\ ref \in Message
         \/ type = "CREDIT" /\ ref \in Recharge,
         Commit(type, amount, after, ref),
         type = "DEBIT" /\ Live[ref] => after >= 0,
         after < 0 => \/ type = "DEBIT" /\ ~ Live[ref]
                      \/ \E i \in DOMAIN ledger : TestCharge(i)
  PROVE  /\ LiveChargesCovered' /\ DebtIsFromTest'
         /\ (\E i \in DOMAIN ledger : TestCharge(i))
              => (\E i \in DOMAIN ledger : TestCharge(i))'
<1> DEFINE n == Len(ledger) + 1
<1>1. /\ balance' = after /\ ledger' \in Seq(Entries)
      /\ Len(ledger') = n
      /\ ledger'[n].type = type /\ ledger'[n].ref = ref
      /\ ledger'[n].after = after
      /\ \A i \in 1 .. Len(ledger) : ledger'[i] = ledger[i]
  BY CommitType
<1>2. /\ DOMAIN ledger = 1 .. Len(ledger) /\ DOMAIN ledger' = 1 .. n
      /\ Len(ledger) \in Nat
  BY <1>1 DEF TypeOK
<1>3. DOMAIN ledger' = DOMAIN ledger \cup {n}
  BY <1>2
<1>4. \A i \in DOMAIN ledger : ledger'[i] = ledger[i]
  BY <1>1, <1>2
<1>5. LiveChargesCovered'
  BY <1>1, <1>3, <1>4 DEF MoneyInv, LiveChargesCovered
<1>6. ASSUME NEW i \in DOMAIN ledger, TestCharge(i)
      PROVE  i \in DOMAIN ledger' /\ TestCharge(i)'
  BY <1>3, <1>4, <1>6 DEF TestCharge
<1>7. ASSUME type = "DEBIT", ~ Live[ref]
      PROVE  (\E i \in DOMAIN ledger : TestCharge(i))'
  <2>1. /\ n \in DOMAIN ledger'
        /\ ledger'[n].type = "DEBIT" /\ ~ Live[ledger'[n].ref]
    BY <1>1, <1>3, <1>7
  <2> QED
    BY <2>1 DEF TestCharge
<1> QED
  BY <1>1, <1>5, <1>6, <1>7 DEF DebtIsFromTest

LEMMA MoneyStep ==
  ASSUME TypeOK, MoneyInv, [Next]_vars
  PROVE  MoneyInv'
<1> DEFINE Debt == \E i \in DOMAIN ledger : TestCharge(i)
<1>2. ASSUME NEW m \in Message, Debit(m)
      PROVE  MoneyInv'
  <2>1. /\ charge[m].at = "write" /\ UNCHANGED topup
        /\ charge' = [charge EXCEPT ![m] = [charge[m] EXCEPT !.at = "webhook"]]
        /\ Commit("DEBIT", Cost[m], charge[m].seen - Cost[m], m)
    BY <1>2 DEF Debit, ChargeStep
  <2>2. /\ Cost[m] \in Nat /\ charge[m].seen \in Int
        /\ charge[m].seen - Cost[m] \in Int
    BY CostAssumption DEF TypeOK, Charges
  <2>3. /\ Live[m] => charge[m].seen - Cost[m] >= 0
        /\ charge[m].seen - Cost[m] < 0 => ~ Live[m]
    BY <2>1, <2>2 DEF MoneyInv, WillBeCovered
  <2>4. LiveChargesCovered' /\ DebtIsFromTest' /\ (Debt => Debt')
    BY <2>1, <2>2, <2>3, CommitMoney
  <2>5. /\ \A l \in Message : l # m => charge'[l] = charge[l]
        /\ charge'[m].at = "webhook"
    BY <2>1 DEF TypeOK, Charges
  <2>6. WillBeCovered'
    BY <2>5 DEF MoneyInv, WillBeCovered
  <2>7. DebtSeen'
    BY <2>1, <2>4, <2>5 DEF MoneyInv, DebtSeen
  <2> QED
    BY <2>4, <2>6, <2>7 DEF MoneyInv
<1>3. ASSUME NEW r \in Recharge, RechargeWrite(r)
      PROVE  MoneyInv'
  <2>1. /\ topup[r].at = "write" /\ UNCHANGED charge
        /\ topup' = [topup EXCEPT ![r].at = "done"]
        /\ Commit("CREDIT", Amount[r], topup[r].seen + Amount[r], r)
    BY <1>3 DEF RechargeWrite
  <2>2. /\ Amount[r] \in Int /\ topup[r].seen \in Int
        /\ topup[r].seen + Amount[r] \in Int
    BY AmountAssumption DEF TypeOK, Topups
  <2>3. Amount[r] > 0 /\ (topup[r].seen < 0 => Debt)
    BY <2>1 DEF MoneyInv, DebtSeen
  <2>4. LiveChargesCovered' /\ DebtIsFromTest' /\ (Debt => Debt')
    BY <2>1, <2>2, <2>3, CommitMoney
  <2>5. /\ \A q \in Recharge : q # r => topup'[q] = topup[q]
        /\ topup'[r].at = "done"
    BY <2>1 DEF TypeOK, Topups
  <2>6. WillBeCovered'
    BY <2>1 DEF MoneyInv, WillBeCovered
  <2>7. DebtSeen'
    BY <2>1, <2>4, <2>5 DEF MoneyInv, DebtSeen
  <2> QED
    BY <2>4, <2>6, <2>7 DEF MoneyInv
<1>4. ASSUME ReadsOnly
      PROVE  MoneyInv'
  <2>1. Debt' <=> Debt
    BY <1>4 DEF ReadsOnly, TestCharge
  <2>2. WillBeCovered'
    BY <1>4 DEF ReadsOnly, MoneyInv, WillBeCovered
  <2>3. LiveChargesCovered'
    BY <1>4 DEF ReadsOnly, MoneyInv, LiveChargesCovered
  <2>4. DebtIsFromTest'
    BY <1>4, <2>1 DEF ReadsOnly, MoneyInv, DebtIsFromTest
  <2>5. DebtSeen'
    BY <1>4, <2>1 DEF ReadsOnly, MoneyInv, DebtSeen, DebtIsFromTest
  <2> QED
    BY <2>2, <2>3, <2>4, <2>5 DEF MoneyInv
<1> QED
  BY <1>2, <1>3, <1>4, CommitsOrReads

(* The balance check of debitWallet survives the race with other requests: *)
(* no charge of a LIVE project ends below zero, and a debt is always the   *)
(* work of TEST projects.                                                  *)
THEOREM LiveChargesAreCovered == Spec => []LiveChargesCovered
<1>1. Spec => []MoneyInv
  BY MoneyInit, MoneyStep, WalletTypeCorrect, PTL DEF Spec
<1>2. MoneyInv => LiveChargesCovered
  BY DEF MoneyInv
<1> QED
  BY <1>1, <1>2, PTL

(* A wallet is in debt only after a charge of a TEST project.              *)
THEOREM DebtComesFromTest == Spec => []DebtIsFromTest
<1>1. Spec => []MoneyInv
  BY MoneyInit, MoneyStep, WalletTypeCorrect, PTL DEF Spec
<1>2. MoneyInv => DebtIsFromTest
  BY DEF MoneyInv
<1> QED
  BY <1>1, <1>2, PTL

(* A wallet only LIVE projects draw on never goes below zero.              *)
THEOREM LiveOnlyNeverInDebt ==
  ASSUME \A m \in Message : Live[m]
  PROVE  Spec => [](balance >= 0)
<1>1. TypeOK /\ DebtIsFromTest => balance >= 0
  <2> SUFFICES ASSUME TypeOK, DebtIsFromTest, balance < 0
               PROVE  FALSE
    BY DEF TypeOK
  <2>1. PICK i \in DOMAIN ledger : TestCharge(i)
    BY DEF DebtIsFromTest
  <2>2. ledger[i] \in Entries
    BY DEF TypeOK
  <2> QED
    BY <2>1, <2>2 DEF TestCharge, Entries
<1> QED
  BY <1>1, DebtComesFromTest, WalletTypeCorrect, PTL

-----------------------------------------------------------------------------
(* Until a transaction commits in between, a request that is about to      *)
(* write holds the balance of the moment.                                  *)
Current ==
    ~ crossed =>
        /\ \A m \in Message : charge[m].at = "write" => charge[m].seen = balance
        /\ \A r \in Recharge : topup[r].at = "write" => topup[r].seen = balance

AddsInv == Current /\ AddsUpUnlessCrossed

LEMMA CommitAdds ==
  ASSUME TypeOK, HeadIsBalance, AddsUpUnlessCrossed,
         NEW type, NEW amount \in Int, NEW after \in Int, NEW ref,
         \/ type = "DEBIT" /\ ref \in Message
         \/ type = "CREDIT" /\ ref \in Recharge,
         Commit(type, amount, after, ref),
         ~ crossed => after = balance + (IF type = "CREDIT" THEN amount
                                                            ELSE - amount)
  PROVE  AddsUpUnlessCrossed'
<1> DEFINE n == Len(ledger) + 1
<1>1. /\ balance' = after /\ ledger' \in Seq(Entries)
      /\ Len(ledger') = n
      /\ ledger'[n].type = type /\ ledger'[n].after = after
      /\ \A i \in 1 .. Len(ledger) : ledger'[i] = ledger[i]
  BY CommitType
<1>a. ledger'[n].amount = amount
  BY DEF Commit, TypeOK
<1>2. /\ DOMAIN ledger = 1 .. Len(ledger) /\ DOMAIN ledger' = 1 .. n
      /\ Len(ledger) \in Nat
  BY <1>1 DEF TypeOK
<1>3. SUFFICES ASSUME ~ crossed', NEW i \in DOMAIN ledger'
               PROVE  ledger'[i].after = BalanceBefore(i)' + Signed(ledger'[i])
  BY DEF AddsUpUnlessCrossed, Signed
<1>4. ~ crossed
  BY <1>3 DEF Commit
<1>5. CASE i \in DOMAIN ledger
  <2>1. ledger'[i] = ledger[i] /\ BalanceBefore(i)' = BalanceBefore(i)
    BY <1>1, <1>2, <1>5 DEF BalanceBefore
  <2> QED
    BY <1>4, <1>5, <2>1 DEF AddsUpUnlessCrossed
<1>6. CASE i = n
  <2>1. BalanceBefore(i)' = balance
    <3>1. CASE ledger = <<>>
      BY <1>2, <1>6, <3>1 DEF BalanceBefore, HeadIsBalance
    <3>2. CASE ledger # <<>>
      <4>1. /\ Len(ledger) \in 1 .. Len(ledger)
            /\ i # 1 /\ i - 1 = Len(ledger)
        BY <1>2, <1>6, <3>2 DEF TypeOK
      <4>2. BalanceBefore(i)' = ledger[Len(ledger)].after
        BY <1>1, <4>1 DEF BalanceBefore
      <4> QED
        BY <3>2, <4>2 DEF HeadIsBalance, Last
    <3> QED
      BY <3>1, <3>2
  <2>2. Signed(ledger'[i]) = IF type = "CREDIT" THEN amount ELSE - amount
    BY <1>1, <1>a, <1>6 DEF Signed
  <2>3. after = balance + Signed(ledger'[i])
    BY <1>4, <2>2
  <2> QED
    BY <1>1, <1>6, <2>1, <2>3
<1> QED
  BY <1>2, <1>5, <1>6

LEMMA AddsStep ==
  ASSUME TypeOK, HeadIsBalance, AddsInv, [Next]_vars
  PROVE  AddsInv'
<1>1. ASSUME NEW m \in Message, Debit(m)
      PROVE  AddsInv'
  <2>1. /\ charge[m].at = "write" /\ UNCHANGED topup
        /\ charge' = [charge EXCEPT ![m] = [charge[m] EXCEPT !.at = "webhook"]]
        /\ Commit("DEBIT", Cost[m], charge[m].seen - Cost[m], m)
    BY <1>1 DEF Debit, ChargeStep
  <2>2. /\ Cost[m] \in Int /\ charge[m].seen \in Int
        /\ charge[m].seen - Cost[m] \in Int
    BY CostAssumption DEF TypeOK, Charges
  <2>3. ~ crossed => charge[m].seen = balance
    BY <2>1 DEF AddsInv, Current
  <2>4. AddsUpUnlessCrossed'
    BY <2>1, <2>2, <2>3, CommitAdds DEF AddsInv
  <2>5. ~ crossed' => /\ \A l \in Message \ {m} : charge[l].at # "write"
                      /\ \A r \in Recharge \ {m} : topup[r].at # "write"
    BY <2>1 DEF Commit
  <2>6. /\ \A l \in Message : l # m => charge'[l] = charge[l]
        /\ charge'[m].at = "webhook" /\ m \notin Recharge
    BY <2>1, ApartAssumption DEF TypeOK, Charges
  <2> QED
    BY <2>1, <2>4, <2>5, <2>6 DEF AddsInv, Current
<1>2. ASSUME NEW r \in Recharge, RechargeWrite(r)
      PROVE  AddsInv'
  <2>1. /\ topup[r].at = "write" /\ UNCHANGED charge
        /\ topup' = [topup EXCEPT ![r].at = "done"]
        /\ Commit("CREDIT", Amount[r], topup[r].seen + Amount[r], r)
    BY <1>2 DEF RechargeWrite
  <2>2. /\ Amount[r] \in Int /\ topup[r].seen \in Int
        /\ topup[r].seen + Amount[r] \in Int
    BY AmountAssumption DEF TypeOK, Topups
  <2>3. ~ crossed => topup[r].seen = balance
    BY <2>1 DEF AddsInv, Current
  <2>4. AddsUpUnlessCrossed'
    BY <2>1, <2>2, <2>3, CommitAdds DEF AddsInv
  <2>5. ~ crossed' => /\ \A m \in Message \ {r} : charge[m].at # "write"
                      /\ \A q \in Recharge \ {r} : topup[q].at # "write"
    BY <2>1 DEF Commit
  <2>6. /\ \A q \in Recharge : q # r => topup'[q] = topup[q]
        /\ topup'[r].at = "done" /\ r \notin Message
    BY <2>1, ApartAssumption DEF TypeOK, Topups
  <2> QED
    BY <2>1, <2>4, <2>5, <2>6 DEF AddsInv, Current
<1>3. CASE ReadsOnly
  <2>1. AddsUpUnlessCrossed'
    BY <1>3 DEF ReadsOnly, AddsInv, AddsUpUnlessCrossed, BalanceBefore
  <2>2. Current'
    BY <1>3 DEF ReadsOnly, AddsInv, Current
  <2> QED
    BY <2>1, <2>2 DEF AddsInv
<1> QED
  BY <1>1, <1>2, <1>3, CommitsOrReads

(* Each line of the statement follows from the one before, as long as no   *)
(* transaction has committed between another request's read and write.     *)
THEOREM AddsUp == Spec => []AddsUpUnlessCrossed
<1>1. Init => AddsInv
  BY DEF Init, AddsInv, Current, AddsUpUnlessCrossed
<1>2. Spec => []AddsInv
  BY <1>1, AddsStep, BalanceOnStatement, WalletTypeCorrect, PTL DEF Spec
<1>3. AddsInv => AddsUpUnlessCrossed
  BY DEF AddsInv
<1> QED
  BY <1>2, <1>3, PTL

-----------------------------------------------------------------------------
(* Why what is announced is charged: a send request passes its stations in *)
(* one order, and neither usage records nor statement lines are taken back. *)
Booked(m) == m \in usage /\ \E i \in DOMAIN ledger : ledger[i].ref = m

Stations(m) ==
  /\ charge[m].at \in {"wallet", "write"} => m \in usage
  /\ charge[m].at = "webhook" => charge[m].result = "none" \/ Booked(m)

Announced(m) ==
  \A kind \in {"message.failed", "message.queued"} :
     <<m, kind>> \in events =>
        /\ charge[m].at # "new"
        /\ (charge[m].result = "none" /\ kind = "message.failed") \/ Booked(m)

LEMMA StaysBooked ==
  ASSUME TypeOK, [Next]_vars, NEW m \in Message, Booked(m)
  PROVE  Booked(m)'
<1>1. m \in usage'
  BY DEF Booked, Next, ChargeNext, RechargeNext, Answered, RecordUsage, ReadWallet,
         Debit, EnqueueWebhook, ChargeDies, RechargeRead, RechargeWrite,
         RechargeDies, vars
<1>2. PICK i \in DOMAIN ledger : ledger[i].ref = m
  BY DEF Booked
<1>3. CASE UNCHANGED <<balance, ledger>>
  BY <1>1, <1>2, <1>3 DEF Booked
<1>4. ASSUME NEW type, NEW amount \in Int, NEW after \in Int, NEW ref,
             \/ type = "DEBIT" /\ ref \in Message
             \/ type = "CREDIT" /\ ref \in Recharge,
             Commit(type, amount, after, ref)
      PROVE  Booked(m)'
  <2>1. /\ ledger' \in Seq(Entries) /\ Len(ledger') = Len(ledger) + 1
        /\ \A j \in 1 .. Len(ledger) : ledger'[j] = ledger[j]
    BY <1>4, CommitType
  <2>2. i \in 1 .. Len(ledger) /\ i \in DOMAIN ledger'
    BY <1>2, <2>1 DEF TypeOK
  <2> QED
    BY <1>1, <1>2, <2>1, <2>2 DEF Booked
<1>5. /\ \A k \in Message : Cost[k] \in Int /\ charge[k].seen - Cost[k] \in Int
      /\ \A r \in Recharge : Amount[r] \in Int /\ topup[r].seen + Amount[r] \in Int
  BY CostAssumption, AmountAssumption DEF TypeOK, Charges, Topups
<1> QED
  BY <1>3, <1>4, <1>5, OnlyCommits

LEMMA StationsStep ==
  ASSUME TypeOK, [Next]_vars, NEW m \in Message, Stations(m), Announced(m)
  PROVE  Stations(m)' /\ Announced(m)'
<1>0. charge \in [Message -> Charges] /\ charge[m] \in Charges
  BY DEF TypeOK
<1>1. Booked(m) => Booked(m)'
  BY StaysBooked
<1>2. m \in usage => m \in usage'
  BY DEF Next, ChargeNext, RechargeNext, Answered, RecordUsage, ReadWallet,
         Debit, EnqueueWebhook, ChargeDies, RechargeRead, RechargeWrite,
         RechargeDies, vars
<1>3. ASSUME charge'[m] = charge[m],
             \A e \in events' : e[1] = m => e \in events
      PROVE  Stations(m)' /\ Announced(m)'
  BY <1>1, <1>2, <1>3 DEF Stations, Announced
<1>4. ASSUME NEW k \in Message, k # m, ChargeNext(k)
      PROVE  Stations(m)' /\ Announced(m)'
  <2>1. charge'[m] = charge[m]
    BY <1>0, <1>4 DEF ChargeNext, Answered, RecordUsage, ReadWallet, Debit,
                      EnqueueWebhook, ChargeDies, ChargeStep
  <2>2. \A e \in events' : e[1] = m => e \in events
    BY <1>4 DEF ChargeNext, Answered, RecordUsage, ReadWallet, Debit,
                EnqueueWebhook, ChargeDies
  <2> QED
    BY <1>3, <2>1, <2>2
<1>5. CASE UNCHANGED vars \/ \E r \in Recharge : RechargeNext(r)
  BY <1>3, <1>5 DEF vars, RechargeNext, RechargeRead, RechargeWrite, RechargeDies
<1>6. CASE Answered(m)
  <2>1. PICK result \in {"none", "failed", "queued"} :
          charge' = [charge EXCEPT ![m] =
                       [charge[m] EXCEPT !.at = IF result = "none" THEN "webhook"
                                                ELSE "usage",
                                         !.result = result]]
    BY <1>6 DEF Answered, ChargeStep
  <2>2. charge'[m] = [at |-> IF result = "none" THEN "webhook" ELSE "usage",
                      result |-> result, seen |-> charge[m].seen]
    BY <1>0, <2>1 DEF Charges
  <2>3. charge[m].at = "new" /\ events' = events
    BY <1>6 DEF Answered, ChargeStep
  <2> QED
    BY <2>2, <2>3 DEF Stations, Announced
<1>7. ASSUME events' = events, charge[m].at # "new",
             charge'[m].at \notin {"new", "webhook"},
             charge'[m].result = charge[m].result,
             charge'[m].at \in {"wallet", "write"} => m \in usage'
      PROVE  Stations(m)' /\ Announced(m)'
  BY <1>1, <1>7 DEF Stations, Announced
<1>8. CASE RecordUsage(m) \/ ReadWallet(m) \/ ChargeDies(m)
  <2>1. CASE RecordUsage(m)
    BY <1>0, <1>7, <2>1 DEF RecordUsage, ChargeStep, Charges
  <2>2. CASE ReadWallet(m)
    <3>1. charge[m].at = "wallet" /\ events' = events /\ m \in usage'
      BY <1>2, <2>2 DEF ReadWallet, ChargeStep, Stations
    <3>2. charge'[m].at \in {"refused", "write"} /\ charge'[m].result = charge[m].result
      BY <1>0, <2>2 DEF ReadWallet, ChargeStep, Charges
    <3> QED
      BY <1>7, <3>1, <3>2
  <2>3. CASE ChargeDies(m)
    BY <1>0, <1>7, <2>3 DEF ChargeDies, Charges
  <2> QED
    BY <1>8, <2>1, <2>2, <2>3
<1>9. CASE Debit(m)
  <2>1. Commit("DEBIT", Cost[m], charge[m].seen - Cost[m], m)
    BY <1>9 DEF Debit
  <2>2. Cost[m] \in Int /\ charge[m].seen - Cost[m] \in Int
    BY <1>0, CostAssumption DEF Charges
  <2>3. /\ ledger' \in Seq(Entries) /\ Len(ledger') = Len(ledger) + 1
        /\ ledger'[Len(ledger) + 1].ref = m
    BY <2>1, <2>2, CommitType
  <2>4. m \in usage'
    BY <1>2, <1>9 DEF Debit, ChargeStep, Stations
  <2>5. Booked(m)'
    <3>1. Len(ledger) + 1 \in DOMAIN ledger'
      BY <2>3 DEF TypeOK
    <3> QED
      BY <2>3, <2>4, <3>1 DEF Booked
  <2>6. charge'[m].at = "webhook" /\ events' = events
    BY <1>0, <1>9 DEF Debit, ChargeStep, Charges
  <2> QED
    BY <2>5, <2>6 DEF Stations, Announced
<1>10. CASE EnqueueWebhook(m)
  <2>1. /\ charge[m].at = "webhook"
        /\ charge'[m].at = "done" /\ charge'[m].result = charge[m].result
    BY <1>0, <1>10 DEF EnqueueWebhook, ChargeStep, Charges
  <2>2. \A kind : <<m, kind>> \in events'
          => <<m, kind>> \in events \/ kind = IF charge[m].result = "queued"
                                             THEN "message.queued"
                                             ELSE "message.failed"
    BY <1>10 DEF EnqueueWebhook
  <2> QED
    BY <1>1, <2>1, <2>2 DEF Stations, Announced
<1> QED
  BY <1>4, <1>5, <1>6, <1>8, <1>9, <1>10 DEF Next, ChargeNext

(* Projects are told of a queued or refused message only after its usage   *)
(* record and its line of the statement are written, however many requests *)
(* share the wallet and wherever a replica dies.                           *)
THEOREM AnnouncedAreCharged == Spec => []AnnouncedIsCharged
<1> DEFINE Books == \A m \in Message : Stations(m) /\ Announced(m)
<1>1. Init => Books
  BY DEF Init, Stations, Announced
<1>2. TypeOK /\ Books /\ [Next]_vars => Books'
  <2> SUFFICES ASSUME TypeOK, Books, [Next]_vars, NEW m \in Message
               PROVE  Stations(m)' /\ Announced(m)'
    OBVIOUS
  <2> QED
    BY StationsStep
<1>3. TypeOK /\ Books => AnnouncedIsCharged
  <2> SUFFICES ASSUME TypeOK, Books, NEW e \in events
               PROVE  \/ charge[e[1]].result = "none" /\ e[2] = "message.failed"
                      \/ Booked(e[1])
    BY DEF AnnouncedIsCharged, Booked
  <2>1. /\ e = <<e[1], e[2]>> /\ e[1] \in Message
        /\ e[2] \in {"message.failed", "message.queued"}
    BY DEF TypeOK, Events
  <2> QED
    BY <2>1 DEF Announced
<1>4. Spec => []Books
  <2> HIDE DEF Books
  <2> QED
    BY <1>1, <1>2, WalletTypeCorrect, PTL DEF Spec
<1> QED
  BY <1>3, <1>4, WalletTypeCorrect, PTL
=============================================================================
