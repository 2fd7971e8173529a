------------------------------ MODULE Billing ------------------------------
(***************************************************************************)
(* The wallet of an organisation: the charge at the end of every send      *)
(* request of its projects and the recharges of its members.               *)
(*                                                                         *)
(* A charge and a recharge each read the balance in one query and write a  *)
(* balance computed from it in a later transaction, which also appends the *)
(* entry to the wallet's transactions.  Between the two any other request  *)
(* may run, so one write can undo another; the model keeps that race.      *)
(*                                                                         *)
(* A send request enters here where module Gateway leaves it: the result   *)
(* of the provider is saved and the outbox row is linked.  Registration    *)
(* creates the wallet together with the organisation, so it exists.        *)
(***************************************************************************)
EXTENDS Integers, SequencesExt

CONSTANTS
    Message,    \* send requests, of all the projects of the organisation
    Recharge,   \* recharge requests
    Cost,       \* Cost[m]: costMinor of the route the router chose
    Amount,     \* Amount[r]: amountMinor of a recharge, as the caller wrote it
    Live,       \* Live[m]: the environment of m's project is LIVE
    Opening     \* the balance the wallet starts with

ASSUME CostAssumption    == Cost \in [Message -> Nat]
ASSUME AmountAssumption  == Amount \in [Recharge -> Int]
ASSUME LiveAssumption    == Live \in [Message -> BOOLEAN]
ASSUME OpeningAssumption == Opening \in Nat
ASSUME ApartAssumption   == Message \cap Recharge = {}

VARIABLES
    balance,    \* Wallet.balanceMinor
    ledger,     \* the WalletTransaction rows, oldest first
    charge,     \* the tail of each send request
    topup,      \* the recharge requests
    usage,      \* messages with a UsageRecord
    events,     \* webhook jobs enqueued by send requests
    crossed     \* history: a transaction committed while another request
                \* held a balance it had read before

vars == <<balance, ledger, charge, topup, usage, events, crossed>>

Entries ==
    [type : {"DEBIT"}, ref : Message, amount : Int, after : Int]
      \cup [type : {"CREDIT"}, ref : Recharge, amount : Int, after : Int]

Charges == [at : {"new", "usage", "wallet", "write", "webhook", "done",
                  "refused", "dead"},
            result : {"none", "failed", "queued"}, seen : Int]

Topups == [at : {"new", "write", "done", "dead"}, seen : Int]

Events == Message \X {"message.failed", "message.queued"}

TypeOK ==
    /\ balance \in Int
    /\ ledger \in Seq(Entries)
    /\ charge \in [Message -> Charges]
    /\ topup \in [Recharge -> Topups]
    /\ usage \subseteq Message
    /\ events \subseteq Events
    /\ crossed \in BOOLEAN

Init ==
    /\ balance = Opening
    /\ ledger = <<>>
    /\ charge = [m \in Message |->
                   [at |-> "new", result |-> "none", seen |-> 0]]
    /\ topup = [r \in Recharge |-> [at |-> "new", seen |-> 0]]
    /\ usage = {}
    /\ events = {}
    /\ crossed = FALSE

-----------------------------------------------------------------------------
ChargeStep(m, from, to) ==
    /\ charge[m].at = from
    /\ charge' = [charge EXCEPT ![m] = to]
    /\ UNCHANGED topup

(* The provider has answered.  Without any provider the message is FAILED  *)
(* and announced, and costs nothing; a refusal by a provider costs as much *)
(* as an acceptance.                                                       *)
Answered(m) ==
    /\ \E result \in {"none", "failed", "queued"} :
         ChargeStep(m, "new",
                    [charge[m] EXCEPT !.at = IF result = "none" THEN "webhook"
                                             ELSE "usage",
                                      !.result = result])
    /\ UNCHANGED <<balance, ledger, usage, events, crossed>>

RecordUsage(m) ==
    /\ ChargeStep(m, "usage", [charge[m] EXCEPT !.at = "wallet"])
    /\ usage' = usage \cup {m}
    /\ UNCHANGED <<balance, ledger, events, crossed>>

(* Variants with a bug: only debt is refused, or the wrong environment is.  *)
RefusedInDebt(m) == Live[m] /\ balance < 0

RefusedTest(m) == ~ Live[m] /\ balance < Cost[m]

(* A LIVE project needs the money; TEST projects may go into debt.         *)
Refused(m) == Live[m] /\ balance < Cost[m]

(* A variant with a bug: a refused charge is announced all the same.       *)
ReadWalletAnnounce(m) ==
    /\ ChargeStep(m, "wallet",
                  IF Refused(m) THEN [charge[m] EXCEPT !.at = "webhook"]
                  ELSE [charge[m] EXCEPT !.at = "write", !.seen = balance])
    /\ UNCHANGED <<balance, ledger, usage, events, crossed>>

ReadWallet(m) ==
    /\ ChargeStep(m, "wallet",
                  IF Refused(m) THEN [charge[m] EXCEPT !.at = "refused"]
                  ELSE [charge[m] EXCEPT !.at = "write", !.seen = balance])
    /\ UNCHANGED <<balance, ledger, usage, events, crossed>>

(* A variant with a bug: the entry repeats the balance of the moment.      *)
CommitFresh(type, amount, after, ref) ==
    /\ balance' = after
    /\ ledger' = Append(ledger,
                        [type |-> type, amount |-> amount, ref |-> ref,
                         after |-> IF type = "CREDIT" THEN balance + amount
                                                      ELSE balance - amount])
    /\ crossed' = (\/ crossed
                   \/ \E m \in Message \ {ref} : charge[m].at = "write"
                   \/ \E r \in Recharge \ {ref} : topup[r].at = "write")

(* The transaction: the balance and its entry are written together.        *)
Commit(type, amount, after, ref) ==
    /\ balance' = after
    /\ ledger' = Append(ledger, [type |-> type, amount |-> amount,
                                 after |-> after, ref |-> ref])
    /\ crossed' = (\/ crossed
                   \/ \E m \in Message \ {ref} : charge[m].at = "write"
                   \/ \E r \in Recharge \ {ref} : topup[r].at = "write")

(* A variant with a bug: the entry has the unit price of the fallback.     *)
DebitUnitPrice(m) ==
    /\ ChargeStep(m, "write", [charge[m] EXCEPT !.at = "webhook"])
    /\ Commit("DEBIT", 1, charge[m].seen - Cost[m], m)
    /\ UNCHANGED <<usage, events>>

Debit(m) ==
    /\ ChargeStep(m, "write", [charge[m] EXCEPT !.at = "webhook"])
    /\ Commit("DEBIT", Cost[m], charge[m].seen - Cost[m], m)
    /\ UNCHANGED <<usage, events>>

(* A variant with a bug: an accepted message is announced as sent.         *)
EnqueueSent(m) ==
    /\ ChargeStep(m, "webhook", [charge[m] EXCEPT !.at = "done"])
    /\ events' = events \cup
                   {<<m, IF charge[m].result = "queued" THEN "message.sent"
                         ELSE "message.failed">>}
    /\ UNCHANGED <<balance, ledger, usage, crossed>>

EnqueueWebhook(m) ==
    /\ ChargeStep(m, "webhook", [charge[m] EXCEPT !.at = "done"])
    /\ events' = events \cup
                   {<<m, IF charge[m].result = "queued" THEN "message.queued"
                         ELSE "message.failed">>}
    /\ UNCHANGED <<balance, ledger, usage, crossed>>

(* The API replica dies, or a statement throws. *)
ChargeDies(m) ==
    /\ charge[m].at \notin {"new", "done", "refused", "dead"}
    /\ charge' = [charge EXCEPT ![m].at = "dead"]
    /\ UNCHANGED <<balance, ledger, topup, usage, events, crossed>>

-----------------------------------------------------------------------------
(* BillingService.recharge; an amount that is not positive is refused.     *)
RechargeRead(r) ==
    /\ topup[r].at = "new"
    /\ Amount[r] > 0
    /\ topup' = [topup EXCEPT ![r] = [at |-> "write", seen |-> balance]]
    /\ UNCHANGED <<balance, ledger, charge, usage, events, crossed>>

RechargeWrite(r) ==
    /\ topup[r].at = "write"
    /\ topup' = [topup EXCEPT ![r].at = "done"]
    /\ Commit("CREDIT", Amount[r], topup[r].seen + Amount[r], r)
    /\ UNCHANGED <<charge, usage, events>>

RechargeDies(r) ==
    /\ topup[r].at = "write"
    /\ topup' = [topup EXCEPT ![r].at = "dead"]
    /\ UNCHANGED <<balance, ledger, charge, usage, events, crossed>>

-----------------------------------------------------------------------------
ChargeNext(m) ==
    \/ Answered(m) \/ RecordUsage(m) \/ ReadWallet(m) \/ Debit(m)
    \/ EnqueueWebhook(m) \/ ChargeDies(m)

RechargeNext(r) == RechargeRead(r) \/ RechargeWrite(r) \/ RechargeDies(r)

Next ==
    \/ \E m \in Message : ChargeNext(m)
    \/ \E r \in Recharge : RechargeNext(r)

Spec == Init /\ [][Next]_vars

-----------------------------------------------------------------------------
(* The balance shown is the balanceAfter of the newest entry: however      *)
(* charges and recharges overlap, the wallet never disagrees with the last *)
(* line of its statement.                                                  *)
HeadIsBalance ==
    balance = IF ledger = <<>> THEN Opening ELSE Last(ledger).after

(* The soft balance check of debitWallet is made on a balance that may be  *)
(* out of date when the debit is written, yet no charge of a LIVE project  *)
(* ever leaves a negative balance.                                         *)
LiveChargesCovered ==
    \A i \in DOMAIN ledger :
        (ledger[i].type = "DEBIT" /\ Live[ledger[i].ref])
            => ledger[i].after >= 0

(* LIVE and TEST projects share the wallet: a debt always goes back to the *)
(* charge of a TEST project.                                               *)
TestCharge(i) == ledger[i].type = "DEBIT" /\ ~ Live[ledger[i].ref]

DebtIsFromTest == balance < 0 => \E i \in DOMAIN ledger : TestCharge(i)

(* Each line of the statement follows from the one before it, the first    *)
(* from the opening balance, unless a transaction committed while another  *)
(* request already held a balance: then money is lost or made.             *)
Signed(e) == IF e.type = "CREDIT" THEN e.amount ELSE - e.amount

BalanceBefore(i) == IF i = 1 THEN Opening ELSE ledger[i - 1].after

AddsUpUnlessCrossed ==
    ~ crossed => \A i \in DOMAIN ledger :
                     ledger[i].after = BalanceBefore(i) + Signed(ledger[i])

(* message.queued and message.failed tell the project of a message that    *)
(* was recorded as used and charged, or that no provider took.             *)
AnnouncedIsCharged ==
    \A e \in events :
        LET m == e[1]
        IN  \/ charge[m].result = "none" /\ e[2] = "message.failed"
            \/ /\ m \in usage
               /\ \E i \in DOMAIN ledger : ledger[i].ref = m
=============================================================================
