------------------------------ MODULE Pairing ------------------------------
(***************************************************************************)
(* How a phone becomes a gateway device and stays one: the pairing codes   *)
(* and the registration of devices.service.ts, the buttons and the token   *)
(* store of the Android app, and the loop that sends its heartbeats.       *)
(* Extends Devices: its clients are the phones, and a device stands for    *)
(* its token as well, which only the row's hash and the phone that was     *)
(* told it know.                                                           *)
(*                                                                         *)
(* Pairing looks the code up, and then claims it, creates the device and   *)
(* links the two in one transaction.  The answer is the only place where   *)
(* the token is told.                                                      *)
(***************************************************************************)
EXTENDS Devices

CONSTANT
    Code        \* the pairing codes

VARIABLES
    code,       \* the DevicePairing rows
    usedBy,     \* DevicePairing.usedByDeviceId
    origin,     \* history: the code a device was made with, or ByKey
    call,       \* call[p]: the pair or register call of phone p
    token,      \* token[p]: the device whose token p's TokenStore holds
    running,    \* the gateway service of p is started
    lost,       \* history: devices whose token was in an answer that was lost
    replaced    \* history: devices whose token its phone has overwritten

phoneVars == <<call, token, running>>
codeVars == <<code, usedBy, origin>>
historyVars == <<lost, replaced>>
pairingVars == <<deviceVars, codeVars, phoneVars, historyVars>>

NoCode == "none"
ByKey == "key"

ASSUME NoCodeAssumption == {NoCode, ByKey} \cap Code = {}

AnyDevice == Device \cup {NoDevice}

Calls == [at : {"idle", "sent", "found", "answered"},
          code : Code \cup {NoCode, ByKey}, dev : AnyDevice]

PairingTypeOK ==
    /\ DevicesTypeOK
    /\ code \in [Code -> {"none", "open", "used", "expired"}]
    /\ usedBy \in [Code -> AnyDevice]
    /\ origin \in [Device -> Code \cup {NoCode, ByKey}]
    /\ call \in [Client -> Calls]
    /\ token \in [Client -> AnyDevice]
    /\ running \in [Client -> BOOLEAN]
    /\ lost \subseteq Device
    /\ replaced \subseteq Device

NoCall == [at |-> "idle", code |-> NoCode, dev |-> NoDevice]

PairingInit ==
    /\ DevicesInit
    /\ code = [k \in Code |-> "none"]
    /\ usedBy = [k \in Code |-> NoDevice]
    /\ origin = [d \in Device |-> NoCode]
    /\ call = [p \in Client |-> NoCall]
    /\ token = [p \in Client |-> NoDevice]
    /\ running = [p \in Client |-> FALSE]
    /\ lost = {}
    /\ replaced = {}

-----------------------------------------------------------------------------
(* createPairing, and the ten minutes a code is good for.                  *)
CreateCode(k) ==
    /\ code[k] = "none"
    /\ code' = [code EXCEPT ![k] = "open"]
    /\ UNCHANGED <<deviceVars, usedBy, origin, phoneVars, historyVars>>

CodeExpires(k) ==
    /\ code[k] = "open"
    /\ code' = [code EXCEPT ![k] = "expired"]
    /\ UNCHANGED <<deviceVars, usedBy, origin, phoneVars, historyVars>>

(* The Pair button, with a code the dashboard has shown, and the Register  *)
(* button, with a project's API key, on a phone paired already or not.    *)
(* Each is disabled until its call is over.  Bound: of the two, a phone    *)
(* uses one at a time.                                                     *)
Press(p, k) ==
    /\ call[p].at = "idle"
    /\ k # ByKey => code[k] # "none"
    /\ call' = [call EXCEPT ![p] = [at |-> "sent", code |-> k, dev |-> NoDevice]]
    /\ UNCHANGED <<deviceVars, codeVars, token, running, historyVars>>

(* The call is refused, its replica dies, or it never arrives.             *)
CallFails(p) ==
    /\ call[p].at \in {"sent", "found"}
    /\ call' = [call EXCEPT ![p] = NoCall]
    /\ UNCHANGED <<deviceVars, codeVars, token, running, historyVars>>

(* pairWithCode: the code is read and must be open ...                     *)
LookUpCode(p) ==
    /\ call[p].at = "sent"
    /\ call[p].code \in Code
    /\ code[call[p].code] = "open"
    /\ call' = [call EXCEPT ![p].at = "found"]
    /\ UNCHANGED <<deviceVars, codeVars, token, running, historyVars>>

(* A new row has an id of its own; which one it is makes no difference.    *)
Create(d) ==
    /\ Register(d)
    /\ d = CHOOSE e \in Device : status[e] = "ABSENT"

(* A variant with a bug: the claim does not repeat the conditions.         *)
ClaimAnyway(p, d) ==
    LET k == call[p].code
    IN  /\ call[p].at = "found"
        /\ Create(d)
        /\ code' = [code EXCEPT ![k] = "used"]
        /\ usedBy' = [usedBy EXCEPT ![k] = d]
        /\ origin' = [origin EXCEPT ![d] = k]
        /\ call' = [call EXCEPT ![p].at = "answered", ![p].dev = d]
        /\ UNCHANGED <<token, running, historyVars>>

(* ... and is claimed by a conditional update, in one transaction with the *)
(* new device and the link to it.  If it is not open any more the          *)
(* transaction is rolled back and the call fails.                          *)
ClaimCode(p, d) ==
    LET k == call[p].code
    IN  /\ call[p].at = "found"
        /\ code[k] = "open"
        /\ Create(d)
        /\ code' = [code EXCEPT ![k] = "used"]
        /\ usedBy' = [usedBy EXCEPT ![k] = d]
        /\ origin' = [origin EXCEPT ![d] = k]
        /\ call' = [call EXCEPT ![p].at = "answered", ![p].dev = d]
        /\ UNCHANGED <<token, running, historyVars>>

(* register: one statement.                                                *)
RegisterByKey(p, d) ==
    /\ call[p].at = "sent"
    /\ call[p].code = ByKey
    /\ Create(d)
    /\ origin' = [origin EXCEPT ![d] = ByKey]
    /\ call' = [call EXCEPT ![p].at = "answered", ![p].dev = d]
    /\ UNCHANGED <<code, usedBy, token, running, historyVars>>

(* A variant with a bug: a token that is there already is kept.            *)
KeepOldToken(p) ==
    /\ call[p].at = "answered"
    /\ token' = IF token[p] = NoDevice
                THEN [token EXCEPT ![p] = call[p].dev] ELSE token
    /\ call' = [call EXCEPT ![p] = NoCall]
    /\ UNCHANGED <<deviceVars, codeVars, running, historyVars>>

(* persistRegistration overwrites the token the phone had.                 *)
AnswerArrives(p) ==
    /\ call[p].at = "answered"
    /\ token' = [token EXCEPT ![p] = call[p].dev]
    /\ replaced' = replaced \cup ({token[p]} \ {NoDevice})
    /\ call' = [call EXCEPT ![p] = NoCall]
    /\ UNCHANGED <<deviceVars, codeVars, running, lost>>

(* The answer is lost, or comes after the activity was destroyed; or the   *)
(* connection breaks and the HTTP client sends the request once more.      *)
AnswerLost(p, again) ==
    /\ call[p].at = "answered"
    /\ lost' = lost \cup {call[p].dev}
    /\ call' = [call EXCEPT ![p] = IF again
                                   THEN [@ EXCEPT !.at = "sent", !.dev = NoDevice]
                                   ELSE NoCall]
    /\ UNCHANGED <<deviceVars, codeVars, token, running, replaced>>

-----------------------------------------------------------------------------
(* The Start button, the start of the app or of the phone: all three want  *)
(* a token.  The Stop button, or the end of the process, ends the service. *)
StartService(p) ==
    /\ token[p] # NoDevice
    /\ ~ running[p]
    /\ running' = [running EXCEPT ![p] = TRUE]
    /\ UNCHANGED <<deviceVars, codeVars, call, token, historyVars>>

StopService(p) ==
    /\ running[p]
    /\ running' = [running EXCEPT ![p] = FALSE]
    /\ UNCHANGED <<deviceVars, codeVars, call, token, historyVars>>

(* Every five seconds the loop reads the token anew and sends a heartbeat: *)
(* the server reads the device ...                                         *)
PhoneHeartbeat(p) ==
    /\ running[p]
    /\ token[p] # NoDevice
    /\ HeartbeatRead(p, token[p])
    /\ UNCHANGED <<codeVars, phoneVars, historyVars>>

(* ... and writes it, or dies; Devices has both.                           *)
HeartbeatServed(p) ==
    /\ HeartbeatWrite(p)
    /\ UNCHANGED <<codeVars, phoneVars, historyVars>>

HeartbeatCut(p) ==
    /\ HeartbeatDies(p)
    /\ UNCHANGED <<codeVars, phoneVars, historyVars>>

Ages(d) ==
    /\ HeartbeatAges(d)
    /\ UNCHANGED <<codeVars, phoneVars, historyVars>>

StaleMarked ==
    /\ MarkStale
    /\ UNCHANGED <<codeVars, phoneVars, historyVars>>

Disable(d, disabled) ==
    /\ SetDisabled(d, disabled)
    /\ UNCHANGED <<codeVars, phoneVars, historyVars>>

-----------------------------------------------------------------------------
CodeNext(k) == CreateCode(k) \/ CodeExpires(k)

CallNext(p) ==
    \/ \E k \in Code \cup {ByKey} : Press(p, k)
    \/ CallFails(p) \/ LookUpCode(p) \/ AnswerArrives(p)
    \/ \E d \in Device : ClaimCode(p, d) \/ RegisterByKey(p, d)
    \/ \E again \in BOOLEAN : AnswerLost(p, again)

ServiceNext(p) ==
    \/ StartService(p) \/ StopService(p)
    \/ PhoneHeartbeat(p) \/ HeartbeatServed(p) \/ HeartbeatCut(p)

RowNext(d) ==
    \/ Ages(d)
    \/ \E disabled \in BOOLEAN : Disable(d, disabled)

PairingNext ==
    \/ \E k \in Code : CodeNext(k)
    \/ \E p \in Client : CallNext(p) \/ ServiceNext(p)
    \/ \E d \in Device : RowNext(d)
    \/ StaleMarked

(* The worker's timer goes on, a started service goes on looping, and a    *)
(* phone is not cut off for ever: of the heartbeats it sends again and     *)
(* again, some are served to their end.                                    *)
PairingFairness ==
    /\ WF_pairingVars(StaleMarked)
    /\ \A p \in Client : /\ WF_pairingVars(PhoneHeartbeat(p))
                         /\ SF_pairingVars(HeartbeatServed(p))

PairingSpec == PairingInit /\ [][PairingNext]_pairingVars /\ PairingFairness

-----------------------------------------------------------------------------
Held(d) == \E p \in Client : token[p] = d

(* "Pairing codes ... can be used once": a code is used when and only when *)
(* one device was made with it, whichever phones send it at the same time. *)
CodeMakesOneDevice ==
    /\ \A k \in Code : code[k] = "used" <=> \E d \in Device : origin[d] = k
    /\ \A d \in Device : origin[d] \in Code => usedBy[origin[d]] = d

(* A device nobody speaks for: if no phone holds the token of a device,    *)
(* its answer is on the way, was lost, or the phone was paired again since.*)
(* The row stays, and the dashboard goes on listing it.                    *)
UnheldIsExplained ==
    \A d \in Device :
        status[d] = "ABSENT" \/ Held(d) \/ d \in lost \cup replaced
            \/ \E p \in Client : call[p].at = "answered" /\ call[p].dev = d

(* A device that is or was heard of has its token on one phone, or had it: *)
(* pairing and enabling put no device ONLINE, and a lost token is never    *)
(* heard of.  No two phones speak for one device.                          *)
OnlineWasDelivered ==
    /\ \A d \in Device : (status[d] = "ONLINE" \/ beat[d] # "never")
                            => (Held(d) \/ d \in replaced) /\ d \notin lost
    /\ \A p, q \in Client : token[p] = token[q] => p = q \/ token[p] = NoDevice

(* A device whose phone has the gateway service started comes ONLINE,      *)
(* unless the service is stopped, the phone is paired anew, or the device  *)
(* is disabled.                                                            *)
Served(d) == \E p \in Client : token[p] = d /\ running[p]

StartedComesOnline ==
    \A d \in Device :
        Served(d) ~> (Online(d) \/ ~ Served(d) \/ status[d] = "DISABLED")
=============================================================================
