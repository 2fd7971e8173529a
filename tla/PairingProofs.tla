--------------------------- MODULE PairingProofs ---------------------------
(***************************************************************************)
(* What holds of pairing codes, device rows and device tokens for any      *)
(* number of phones, devices and codes.                                    *)
(***************************************************************************)
EXTENDS Pairing, TLAPS

(* The code a call has found is a pairing code, its answer names a device. *)
Carries ==
  \A p \in Client :
     /\ call[p].at = "found" => call[p].code \in Code
     /\ call[p].at = "answered" => call[p].dev \in Device

LEMMA PairingTypeInit == PairingInit => PairingTypeOK /\ Carries
<1> SUFFICES ASSUME PairingInit PROVE PairingTypeOK /\ Carries
  OBVIOUS
<1>1. DevicesTypeOK
  BY DEF PairingInit, DevicesInit, DevicesTypeOK, DeviceStatus
<1>2. call \in [Client -> Calls] /\ Carries
  BY DEF PairingInit, NoCall, Calls, AnyDevice, Carries
<1> QED
  BY <1>1, <1>2 DEF PairingInit, PairingTypeOK, AnyDevice

(* The steps of Devices keep the types of its variables.                   *)
LEMMA DevicesTypes ==
  ASSUME DevicesTypeOK,
         \/ UNCHANGED deviceVars
         \/ \E d \in Device : Register(d) \/ HeartbeatAges(d)
         \/ \E c \in Client, d \in Device : HeartbeatRead(c, d)
         \/ \E c \in Client : HeartbeatWrite(c) \/ HeartbeatDies(c)
         \/ MarkStale
         \/ \E d \in Device, disabled \in BOOLEAN : SetDisabled(d, disabled)
  PROVE  DevicesTypeOK'
<1>1. CASE \E d \in Device : Register(d) \/ HeartbeatAges(d)
  BY <1>1 DEF Register, HeartbeatAges, DevicesTypeOK, DeviceStatus
<1>2. CASE \E c \in Client, d \in Device : HeartbeatRead(c, d)
  BY <1>2 DEF HeartbeatRead, DevicesTypeOK
<1>3. CASE \E c \in Client : HeartbeatWrite(c) \/ HeartbeatDies(c)
  BY <1>3 DEF HeartbeatWrite, HeartbeatDies, DevicesTypeOK, DeviceStatus
<1>4. CASE MarkStale
  BY <1>4 DEF MarkStale, DevicesTypeOK, DeviceStatus
<1>5. CASE \E d \in Device, disabled \in BOOLEAN : SetDisabled(d, disabled)
  BY <1>5 DEF SetDisabled, DevicesTypeOK, DeviceStatus
<1>6. CASE UNCHANGED deviceVars
  BY <1>6 DEF deviceVars, DevicesTypeOK
<1> QED
  BY <1>1, <1>2, <1>3, <1>4, <1>5, <1>6

LEMMA CallTypes ==
  ASSUME PairingTypeOK, Carries, NEW p \in Client, CallNext(p)
  PROVE  PairingTypeOK' /\ Carries'
<1>0. /\ call \in [Client -> Calls] /\ call[p] \in Calls
      /\ NoCall \in Calls /\ NoCall.at = "idle"
      /\ DevicesTypeOK
  BY DEF PairingTypeOK, NoCall, Calls, AnyDevice
<1> DEFINE Fits(c) == /\ c \in Calls
                      /\ c.at = "found" => c.code \in Code
                      /\ c.at = "answered" => c.dev \in Device
<1>1. ASSUME NEW c, Fits(c), call' = [call EXCEPT ![p] = c]
      PROVE  call' \in [Client -> Calls] /\ Carries'
  <2>1. call' \in [Client -> Calls]
    BY <1>0, <1>1
  <2>2. \A q \in Client : call'[q] = IF q = p THEN c ELSE call[q]
    BY <1>0, <1>1
  <2> QED
    BY <1>1, <2>1, <2>2 DEF Carries
<1>2. ASSUME NEW k \in Code \cup {ByKey}, Press(p, k)
      PROVE  PairingTypeOK' /\ Carries'
  <2>1. Fits([at |-> "sent", code |-> k, dev |-> NoDevice])
    BY DEF Calls, AnyDevice
  <2>2. call' \in [Client -> Calls] /\ Carries'
    BY <1>1, <1>2, <2>1 DEF Press
  <2>3. DevicesTypeOK'
    BY <1>0, <1>2, DevicesTypes DEF Press
  <2> QED
    BY <1>2, <2>2, <2>3 DEF Press, PairingTypeOK, codeVars, historyVars
<1>3. CASE CallFails(p)
  <2>1. call' \in [Client -> Calls] /\ Carries'
    BY <1>0, <1>1, <1>3 DEF CallFails
  <2>2. DevicesTypeOK'
    BY <1>0, <1>3, DevicesTypes DEF CallFails
  <2> QED
    BY <1>3, <2>1, <2>2 DEF CallFails, PairingTypeOK, codeVars, historyVars
<1>4. CASE LookUpCode(p)
  <2>1. call' \in [Client -> Calls] /\ Carries'
    BY <1>0, <1>4 DEF LookUpCode, Calls, Carries
  <2>2. DevicesTypeOK'
    BY <1>0, <1>4, DevicesTypes DEF LookUpCode
  <2> QED
    BY <1>4, <2>1, <2>2 DEF LookUpCode, PairingTypeOK, codeVars, historyVars
<1>5. ASSUME NEW d \in Device, ClaimCode(p, d) \/ RegisterByKey(p, d)
      PROVE  PairingTypeOK' /\ Carries'
  <2>1. call' \in [Client -> Calls] /\ Carries'
    BY <1>0, <1>5 DEF ClaimCode, RegisterByKey, Calls, Carries, AnyDevice
  <2>2. DevicesTypeOK'
    BY <1>0, <1>5, DevicesTypes DEF ClaimCode, RegisterByKey, Create
  <2>3. ClaimCode(p, d) => call[p].code \in Code
    <3>1. ClaimCode(p, d) => call[p].at = "found"
      BY DEF ClaimCode
    <3> QED
      BY <3>1 DEF Carries
  <2> QED
    BY <1>5, <2>1, <2>2, <2>3 DEF ClaimCode, RegisterByKey, PairingTypeOK,
                                  AnyDevice, historyVars
<1>6. CASE AnswerArrives(p)
  <2>1. call' \in [Client -> Calls] /\ Carries'
    BY <1>0, <1>1, <1>6 DEF AnswerArrives
  <2>2. DevicesTypeOK'
    BY <1>0, <1>6, DevicesTypes DEF AnswerArrives
  <2>3. token' \in [Client -> AnyDevice] /\ replaced' \subseteq Device
    BY <1>0, <1>6 DEF AnswerArrives, PairingTypeOK, Calls, AnyDevice
  <2> QED
    BY <1>6, <2>1, <2>2, <2>3 DEF AnswerArrives, PairingTypeOK, codeVars
<1>7. ASSUME NEW again \in BOOLEAN, AnswerLost(p, again)
      PROVE  PairingTypeOK' /\ Carries'
  <2>1. call' \in [Client -> Calls] /\ Carries'
    BY <1>0, <1>7 DEF AnswerLost, Calls, Carries, AnyDevice
  <2>2. DevicesTypeOK'
    BY <1>0, <1>7, DevicesTypes DEF AnswerLost
  <2> QED
    BY <1>7, <2>1, <2>2 DEF AnswerLost, PairingTypeOK, codeVars, Carries
<1> QED
  BY <1>2, <1>3, <1>4, <1>5, <1>6, <1>7 DEF CallNext

LEMMA PairingTypeStep ==
  PairingTypeOK /\ Carries /\ [PairingNext]_pairingVars => PairingTypeOK' /\ Carries'
<1> SUFFICES ASSUME PairingTypeOK, Carries, [PairingNext]_pairingVars
             PROVE  PairingTypeOK' /\ Carries'
  OBVIOUS
<1>0. DevicesTypeOK
  BY DEF PairingTypeOK
<1>1. CASE UNCHANGED pairingVars
  <2>1. DevicesTypeOK'
    BY <1>0, <1>1, DevicesTypes DEF pairingVars
  <2> QED
    BY <1>1, <2>1 DEF pairingVars, codeVars, phoneVars, historyVars,
                      PairingTypeOK, Carries
<1>2. ASSUME NEW k \in Code, CodeNext(k)
      PROVE  PairingTypeOK' /\ Carries'
  <2>1. DevicesTypeOK'
    BY <1>0, <1>2, DevicesTypes DEF CodeNext, CreateCode, CodeExpires
  <2> QED
    BY <1>2, <2>1 DEF CodeNext, CreateCode, CodeExpires, phoneVars, historyVars,
                      PairingTypeOK, Carries
<1>3. ASSUME NEW p \in Client, ServiceNext(p)
      PROVE  PairingTypeOK' /\ Carries'
  <2>1. CASE StartService(p) \/ StopService(p)
    <3>1. DevicesTypeOK'
      BY <1>0, <2>1, DevicesTypes DEF StartService, StopService
    <3> QED
      BY <2>1, <3>1 DEF StartService, StopService, codeVars, historyVars,
                        PairingTypeOK, Carries
  <2>2. CASE PhoneHeartbeat(p) \/ HeartbeatServed(p) \/ HeartbeatCut(p)
    <3>1. token[p] \in Device \/ token[p] = NoDevice
      BY DEF PairingTypeOK, AnyDevice
    <3>2. DevicesTypeOK'
      BY <1>0, <2>2, <3>1, DevicesTypes DEF PhoneHeartbeat, HeartbeatServed,
                                            HeartbeatCut
    <3> QED
      BY <2>2, <3>2 DEF PhoneHeartbeat, HeartbeatServed, HeartbeatCut, codeVars,
                        phoneVars, historyVars, PairingTypeOK, Carries
  <2> QED
    BY <1>3, <2>1, <2>2 DEF ServiceNext
<1>4. ASSUME StaleMarked \/ \E d \in Device : RowNext(d)
      PROVE  PairingTypeOK' /\ Carries'
  <2>1. DevicesTypeOK'
    BY <1>0, <1>4, DevicesTypes DEF StaleMarked, RowNext, Ages, Disable
  <2> QED
    BY <1>4, <2>1 DEF StaleMarked, RowNext, Ages, Disable, codeVars, phoneVars,
                      historyVars, PairingTypeOK, Carries
<1> QED
  BY <1>1, <1>2, <1>3, <1>4, CallTypes DEF PairingNext

(* Devices, codes and phones keep their types under every interleaving of  *)
(* pairing, registration, heartbeats and the dashboard.                    *)
THEOREM PairingTypeCorrect == PairingSpec => []PairingTypeOK
<1> QED
  BY PairingTypeInit, PairingTypeStep, PTL DEF PairingSpec

-----------------------------------------------------------------------------
(* Where the token of a device is.  Until its answer has arrived or is     *)
(* lost it is nowhere else; a phone holds it or held it before anything is *)
(* heard of the device; what is lost is never heard of.                    *)
Told(d) == Held(d) \/ d \in lost \cup replaced

Heard(d) == status[d] = "ONLINE" \/ beat[d] # "never" \/ \E c \in Client : hb[c] = d

Answered(p, d) == call[p].at = "answered" /\ call[p].dev = d

AbsentIsBare(d) ==
  status[d] = "ABSENT" =>
     /\ ~ Told(d) /\ ~ Heard(d)
     /\ origin[d] = NoCode
     /\ \A p \in Client : ~ Answered(p, d)

AnswerIsFirst(d) ==
  /\ \A p \in Client : Answered(p, d) => ~ Told(d)
  /\ \A p, q \in Client : Answered(p, d) /\ Answered(q, d) => p = q

OnePhone(d) ==
  /\ \A p, q \in Client : token[p] = d /\ token[q] = d => p = q
  /\ Held(d) => d \notin lost

HeardIsHeld(d) == Heard(d) => (Held(d) \/ d \in replaced) /\ d \notin lost

Whereabouts(d) ==
  /\ AbsentIsBare(d) /\ AnswerIsFirst(d) /\ OnePhone(d) /\ HeardIsHeld(d)
  /\ \/ status[d] = "ABSENT"
     \/ Told(d)
     \/ \E p \in Client : Answered(p, d)

PairingInv ==
  /\ PairingTypeOK
  /\ Carries
  /\ \A d \in Device : Whereabouts(d)
  /\ CodeMakesOneDevice

(* Steps that move neither the token nor the row of a device.              *)
Still(d) ==
  /\ \A p \in Client : token'[p] = d <=> token[p] = d
  /\ d \in lost' <=> d \in lost
  /\ d \in replaced' <=> d \in replaced
  /\ origin'[d] = origin[d]
  /\ status'[d] = "ABSENT" <=> status[d] = "ABSENT"
  /\ Heard(d)' => Heard(d) \/ Held(d)
  /\ \A p \in Client : Answered(p, d)' <=> Answered(p, d)

LEMMA StillKeeps ==
  ASSUME NEW d \in Device, Whereabouts(d), Still(d)
  PROVE  Whereabouts(d)'
<1>1. /\ Held(d)' <=> Held(d)
      /\ Told(d)' <=> Told(d)
      /\ Heard(d)' => Heard(d) \/ Held(d)
      /\ origin'[d] = origin[d]
      /\ status'[d] = "ABSENT" <=> status[d] = "ABSENT"
      /\ \A p \in Client : Answered(p, d)' <=> Answered(p, d)
  BY DEF Still, Held, Told
<1>2. AbsentIsBare(d)'
  BY <1>1 DEF Whereabouts, AbsentIsBare, Told
<1>3. AnswerIsFirst(d)'
  BY <1>1 DEF Whereabouts, AnswerIsFirst
<1>4. OnePhone(d)'
  BY <1>1 DEF Whereabouts, OnePhone, Still
<1>5. HeardIsHeld(d)'
  BY <1>1 DEF Whereabouts, HeardIsHeld, OnePhone, Still
<1> QED
  BY <1>1, <1>2, <1>3, <1>4, <1>5 DEF Whereabouts

(* All but the making of a device and what becomes of its answer is still. *)
LEMMA QuietCalls ==
  ASSUME PairingTypeOK, NEW p \in Client,
         CallFails(p) \/ LookUpCode(p) \/ \E k \in Code \cup {ByKey} : Press(p, k)
  PROVE  \A d \in Device : Still(d)
<1>0. call \in [Client -> Calls] /\ call[p] \in Calls
  BY DEF PairingTypeOK
<1>1. UNCHANGED <<token, lost, replaced, origin, status, beat, hb>>
  BY DEF CallFails, LookUpCode, Press, deviceVars, codeVars, historyVars
<1>2. /\ call[p].at # "answered" /\ call'[p].at # "answered"
      /\ \A q \in Client : q # p => call'[q] = call[q]
  BY <1>0 DEF CallFails, LookUpCode, Press, NoCall, Calls
<1>3. \A d \in Device, q \in Client : Answered(q, d)' <=> Answered(q, d)
  BY <1>2 DEF Answered
<1>4. \A d \in Device : Heard(d)' => Heard(d)
  BY <1>1 DEF Heard
<1> QED
  BY <1>1, <1>3, <1>4 DEF Still

LEMMA QuietRows ==
  ASSUME PairingTypeOK,
         \A d \in Device : status[d] = "ABSENT" => ~ Held(d) /\ ~ Heard(d),
         \/ UNCHANGED pairingVars
         \/ \E k \in Code : CodeNext(k)
         \/ \E p \in Client : ServiceNext(p)
         \/ \E d \in Device : RowNext(d)
         \/ StaleMarked
  PROVE  \A d \in Device : Still(d)
<1>1. UNCHANGED <<token, lost, replaced, origin, call, usedBy>>
  BY DEF pairingVars, codeVars, phoneVars, historyVars, CodeNext, CreateCode,
         CodeExpires, ServiceNext, StartService, StopService, PhoneHeartbeat,
         HeartbeatServed, HeartbeatCut, RowNext, Ages, Disable, StaleMarked
<1>2. \A d \in Device, q \in Client : Answered(q, d)' <=> Answered(q, d)
  BY <1>1 DEF Answered
<1>3. DevicesTypeOK
  BY DEF PairingTypeOK
<1> SUFFICES ASSUME NEW d \in Device
             PROVE  /\ status'[d] = "ABSENT" <=> status[d] = "ABSENT"
                    /\ Heard(d)' => Heard(d) \/ Held(d)
  BY <1>1, <1>2 DEF Still
<1>4. CASE \/ UNCHANGED pairingVars
           \/ \E k \in Code : CodeNext(k)
           \/ \E p \in Client : StartService(p) \/ StopService(p)
  <2>1. UNCHANGED <<status, beat, hb>>
    BY <1>4 DEF pairingVars, deviceVars, CodeNext, CreateCode, CodeExpires,
                StartService, StopService
  <2> QED
    BY <2>1 DEF Heard
<1>5. ASSUME NEW p \in Client, PhoneHeartbeat(p)
      PROVE  /\ status'[d] = "ABSENT" <=> status[d] = "ABSENT"
             /\ Heard(d)' => Heard(d) \/ Held(d)
  <2>1. UNCHANGED <<status, beat>> /\ hb' = [hb EXCEPT ![p] = token[p]]
    BY <1>5 DEF PhoneHeartbeat, HeartbeatRead
  <2> QED
    BY <1>3, <2>1 DEF Heard, Held, DevicesTypeOK
<1>6. ASSUME NEW p \in Client, HeartbeatServed(p)
      PROVE  /\ status'[d] = "ABSENT" <=> status[d] = "ABSENT"
             /\ Heard(d)' => Heard(d) \/ Held(d)
  <2>1. hb[p] \in Device /\ Heard(hb[p])
    BY <1>3, <1>6 DEF HeartbeatServed, HeartbeatWrite, DevicesTypeOK, Heard
  <2>2. status[hb[p]] # "ABSENT"
    BY <2>1
  <2>3. CASE d = hb[p]
    BY <1>3, <1>6, <2>1, <2>2, <2>3 DEF HeartbeatServed, HeartbeatWrite,
                                        DevicesTypeOK
  <2>4. CASE d # hb[p]
    BY <1>3, <1>6, <2>4, NoDeviceAssumption DEF HeartbeatServed, HeartbeatWrite,
                                                DevicesTypeOK, Heard
  <2> QED
    BY <2>3, <2>4
<1>7. ASSUME NEW p \in Client, HeartbeatCut(p)
      PROVE  /\ status'[d] = "ABSENT" <=> status[d] = "ABSENT"
             /\ Heard(d)' => Heard(d) \/ Held(d)
  BY <1>3, <1>7, NoDeviceAssumption DEF HeartbeatCut, HeartbeatDies, DevicesTypeOK, Heard
<1>8. ASSUME NEW e \in Device, RowNext(e)
      PROVE  /\ status'[d] = "ABSENT" <=> status[d] = "ABSENT"
             /\ Heard(d)' => Heard(d) \/ Held(d)
  BY <1>3, <1>8 DEF RowNext, Ages, HeartbeatAges, Disable, SetDisabled,
                    DevicesTypeOK, Heard
<1>9. CASE StaleMarked
  BY <1>3, <1>9 DEF StaleMarked, MarkStale, DevicesTypeOK, Heard
<1> QED
  BY <1>4, <1>5, <1>6, <1>7, <1>8, <1>9 DEF ServiceNext

LEMMA Creates ==
  ASSUME PairingTypeOK, Carries, NEW p \in Client, NEW d \in Device,
         ClaimCode(p, d) \/ RegisterByKey(p, d),
         \A e \in Device : Whereabouts(e)
  PROVE  \A e \in Device : Whereabouts(e)'
<1>0. /\ call \in [Client -> Calls] /\ call[p] \in Calls
      /\ status \in [Device -> DeviceStatus]
      /\ origin \in [Device -> Code \cup {NoCode, ByKey}]
  BY DEF PairingTypeOK, DevicesTypeOK
<1>1. /\ status[d] = "ABSENT"
      /\ status' = [status EXCEPT ![d] = "PENDING"]
      /\ UNCHANGED <<beat, hb, token, lost, replaced>>
      /\ \A e \in Device : e # d => origin'[e] = origin[e]
  BY <1>0 DEF ClaimCode, RegisterByKey, Create, Register, historyVars
<1>2. /\ call[p].at # "answered"
      /\ call'[p].at = "answered" /\ call'[p].dev = d
      /\ \A q \in Client : q # p => call'[q] = call[q]
  BY <1>0 DEF ClaimCode, RegisterByKey, Calls
<1>3. ASSUME NEW e \in Device, e # d
      PROVE  Still(e)
  <2>1. \A q \in Client : Answered(q, e)' <=> Answered(q, e)
    BY <1>2, <1>3 DEF Answered
  <2>2. Heard(e)' <=> Heard(e)
    BY <1>0, <1>1, <1>3 DEF Heard
  <2> QED
    BY <1>0, <1>1, <1>3, <2>1, <2>2 DEF Still
<1>4. Whereabouts(d)'
  <2>1. ~ Told(d) /\ ~ Heard(d) /\ \A q \in Client : ~ Answered(q, d)
    BY <1>1 DEF Whereabouts, AbsentIsBare
  <2>2. ~ Told(d)' /\ ~ Held(d)'
    BY <1>1, <2>1 DEF Told, Held
  <2>3. ~ Heard(d)'
    BY <1>0, <1>1, <2>1 DEF Heard
  <2>4. \A q \in Client : Answered(q, d)' <=> q = p
    BY <1>2, <2>1 DEF Answered
  <2>5. status'[d] = "PENDING"
    BY <1>0, <1>1
  <2>6. \A q \in Client : token'[q] # d
    BY <2>2 DEF Held
  <2> QED
    BY <2>2, <2>3, <2>4, <2>5, <2>6 DEF Whereabouts, AbsentIsBare, AnswerIsFirst,
                                        OnePhone, HeardIsHeld
<1> QED
  BY <1>3, <1>4, StillKeeps

LEMMA Arrives ==
  ASSUME PairingTypeOK, Carries, NEW p \in Client, AnswerArrives(p),
         \A e \in Device : Whereabouts(e)
  PROVE  \A e \in Device : Whereabouts(e)'
<1>d. PICK d \in Device : d = call[p].dev
  BY DEF Carries, AnswerArrives
<1>0. /\ call \in [Client -> Calls] /\ token \in [Client -> AnyDevice]
      /\ Answered(p, d)
  BY <1>d DEF PairingTypeOK, AnswerArrives, Answered
<1>1. /\ token' = [token EXCEPT ![p] = d]
      /\ replaced' = replaced \cup ({token[p]} \ {NoDevice})
      /\ call' = [call EXCEPT ![p] = NoCall]
      /\ UNCHANGED <<status, beat, hb, lost, origin>>
  BY <1>d DEF AnswerArrives, deviceVars, codeVars
<1>2. ~ Told(d) /\ ~ Held(d) /\ status[d] # "ABSENT"
  BY <1>0 DEF Whereabouts, AnswerIsFirst, AbsentIsBare, Told
<1>3. \A e \in Device, q \in Client : Answered(q, e)' <=> Answered(q, e) /\ q # p
  BY <1>0, <1>1 DEF Answered, NoCall
<1>4. \A e \in Device : Heard(e)' <=> Heard(e)
  BY <1>1 DEF Heard
<1>5. \A e \in Device : Answered(p, e) <=> e = d
  BY <1>0 DEF Answered
<1>6. ASSUME NEW e \in Device, e # d, e # token[p]
      PROVE  Still(e)
  <2>1. \A q \in Client : token'[q] = e <=> token[q] = e
    BY <1>0, <1>1, <1>6
  <2>2. \A q \in Client : Answered(q, e)' <=> Answered(q, e)
    BY <1>3, <1>5, <1>6
  <2> QED
    BY <1>1, <1>4, <1>6, <2>1, <2>2 DEF Still
<1>7. Whereabouts(d)'
  <2>1. \A q \in Client : token'[q] = d <=> q = p
    BY <1>0, <1>1, <1>2 DEF Held
  <2>2. Held(d)' /\ Told(d)'
    BY <2>1 DEF Held, Told
  <2>3. d \notin lost'
    BY <1>1, <1>2 DEF Told
  <2>4. \A q \in Client : ~ Answered(q, d)'
    BY <1>0, <1>3 DEF Whereabouts, AnswerIsFirst
  <2>5. status'[d] # "ABSENT"
    BY <1>1, <1>2
  <2> QED
    BY <2>1, <2>2, <2>3, <2>4, <2>5 DEF Whereabouts, AbsentIsBare, AnswerIsFirst,
                                        OnePhone, HeardIsHeld
<1>8. ASSUME NEW e \in Device, e # d, e = token[p]
      PROVE  Whereabouts(e)'
  <2>1. /\ Held(e) /\ e \notin lost /\ status[e] # "ABSENT"
        /\ \A q \in Client : token[q] = e => q = p
        /\ \A q \in Client : ~ Answered(q, e)
    BY <1>8 DEF Held, Told, Whereabouts, OnePhone, AbsentIsBare, AnswerIsFirst
  <2>2. e \in replaced' /\ e \notin lost' /\ status'[e] # "ABSENT"
    BY <1>1, <1>8, <2>1, NoDeviceAssumption
  <2>3. \A q \in Client : token'[q] # e
    BY <1>0, <1>1, <1>8, <2>1
  <2>4. Told(e)' /\ ~ Held(e)'
    BY <2>2, <2>3 DEF Told, Held
  <2> QED
    BY <1>3, <2>1, <2>2, <2>3, <2>4 DEF Whereabouts, AbsentIsBare, AnswerIsFirst,
                                        OnePhone, HeardIsHeld
<1> QED
  BY <1>6, <1>7, <1>8, StillKeeps

LEMMA Loses ==
  ASSUME PairingTypeOK, Carries, NEW p \in Client, NEW again \in BOOLEAN,
         AnswerLost(p, again),
         \A e \in Device : Whereabouts(e)
  PROVE  \A e \in Device : Whereabouts(e)'
<1>d. PICK d \in Device : d = call[p].dev
  BY DEF Carries, AnswerLost
<1>0. /\ call \in [Client -> Calls] /\ call[p] \in Calls
      /\ Answered(p, d)
  BY <1>d DEF PairingTypeOK, AnswerLost, Answered
<1>1. /\ lost' = lost \cup {d}
      /\ UNCHANGED <<status, beat, hb, token, replaced, origin>>
  BY <1>d DEF AnswerLost, deviceVars, codeVars
<1>2. /\ call'[p].at # "answered"
      /\ \A q \in Client : q # p => call'[q] = call[q]
  BY <1>0 DEF AnswerLost, Calls, NoCall
<1>3. ~ Told(d) /\ ~ Held(d) /\ status[d] # "ABSENT"
  BY <1>0 DEF Whereabouts, AnswerIsFirst, AbsentIsBare, Told
<1>4. \A e \in Device, q \in Client : Answered(q, e)' <=> Answered(q, e) /\ q # p
  BY <1>2 DEF Answered
<1>5. \A e \in Device : (Heard(e)' <=> Heard(e)) /\ (Held(e)' <=> Held(e))
  BY <1>1 DEF Heard, Held
<1>6. \A e \in Device : Answered(p, e) <=> e = d
  BY <1>0 DEF Answered
<1>7. ASSUME NEW e \in Device, e # d
      PROVE  Still(e)
  BY <1>1, <1>4, <1>5, <1>6, <1>7 DEF Still
<1>8. Whereabouts(d)'
  <2>1. ~ Heard(d)' /\ ~ Held(d)'
    BY <1>3, <1>5 DEF Whereabouts, HeardIsHeld, Told
  <2>2. \A q \in Client : ~ Answered(q, d)'
    BY <1>0, <1>4 DEF Whereabouts, AnswerIsFirst
  <2>3. \A q \in Client : token'[q] # d
    BY <2>1 DEF Held
  <2>4. Told(d)'
    BY <1>1 DEF Told
  <2> QED
    BY <1>1, <1>3, <2>1, <2>2, <2>3, <2>4 DEF Whereabouts, AbsentIsBare,
       AnswerIsFirst, OnePhone, HeardIsHeld
<1> QED
  BY <1>7, <1>8, StillKeeps

(* Codes.  A device made by another code, or by none, leaves a code alone. *)
LEMMA CodesStep ==
  ASSUME PairingInv, [PairingNext]_pairingVars
  PROVE  CodeMakesOneDevice'
<1>0. /\ PairingTypeOK /\ Carries /\ CodeMakesOneDevice
      /\ code \in [Code -> {"none", "open", "used", "expired"}]
      /\ origin \in [Device -> Code \cup {NoCode, ByKey}]
      /\ usedBy \in [Code -> AnyDevice]
  BY DEF PairingInv, PairingTypeOK
<1>1. ASSUME UNCHANGED <<origin, usedBy>>,
             \A k \in Code : code'[k] = "used" <=> code[k] = "used"
      PROVE  CodeMakesOneDevice'
  BY <1>0, <1>1 DEF CodeMakesOneDevice
<1>2. ASSUME NEW k \in Code, CodeNext(k)
      PROVE  CodeMakesOneDevice'
  BY <1>0, <1>1, <1>2 DEF CodeNext, CreateCode, CodeExpires
<1>3. ASSUME NEW p \in Client, NEW d \in Device, ClaimCode(p, d)
      PROVE  CodeMakesOneDevice'
  <2>1. PICK k \in Code : k = call[p].code
    BY <1>0, <1>3 DEF ClaimCode, Carries
  <2>2. /\ code[k] = "open" /\ code' = [code EXCEPT ![k] = "used"]
        /\ usedBy' = [usedBy EXCEPT ![k] = d]
        /\ origin' = [origin EXCEPT ![d] = k]
    BY <1>3, <2>1 DEF ClaimCode
  <2>3. origin[d] = NoCode
    <3>1. status[d] = "ABSENT"
      BY <1>3 DEF ClaimCode, Create, Register
    <3> QED
      BY <3>1 DEF PairingInv, Whereabouts, AbsentIsBare
  <2>4. \A e \in Device : origin[e] # k
    BY <1>0, <2>2 DEF CodeMakesOneDevice
  <2>5. origin[d] \notin Code
    BY <2>3, NoCodeAssumption
  <2>6. ASSUME NEW j \in Code
        PROVE  code'[j] = "used" <=> \E e \in Device : origin'[e] = j
    <3>1. CASE j = k
      BY <1>0, <2>2, <3>1
    <3>2. CASE j # k
      <4>1. \A e \in Device : origin'[e] = j <=> origin[e] = j
        BY <1>0, <2>2, <2>5, <3>2
      <4> QED
        BY <1>0, <2>2, <3>2, <4>1 DEF CodeMakesOneDevice
    <3> QED
      BY <3>1, <3>2
  <2>7. ASSUME NEW e \in Device, origin'[e] \in Code
        PROVE  usedBy'[origin'[e]] = e
    <3>1. CASE e = d
      BY <1>0, <2>2, <3>1
    <3>2. CASE e # d
      <4>1. origin'[e] = origin[e] /\ origin[e] # k
        BY <1>0, <2>2, <2>4, <3>2
      <4> QED
        BY <1>0, <2>2, <2>7, <4>1 DEF CodeMakesOneDevice
    <3> QED
      BY <3>1, <3>2
  <2> QED
    BY <2>6, <2>7 DEF CodeMakesOneDevice
<1>4. ASSUME NEW p \in Client, NEW d \in Device, RegisterByKey(p, d)
      PROVE  CodeMakesOneDevice'
  <2>1. UNCHANGED <<code, usedBy>> /\ origin' = [origin EXCEPT ![d] = ByKey]
    BY <1>4 DEF RegisterByKey
  <2>2. origin[d] = NoCode
    <3>1. status[d] = "ABSENT"
      BY <1>4 DEF RegisterByKey, Create, Register
    <3> QED
      BY <3>1 DEF PairingInv, Whereabouts, AbsentIsBare
  <2>3. origin[d] \notin Code /\ ByKey \notin Code
    BY <2>2, NoCodeAssumption
  <2>4. \A k \in Code, e \in Device : origin'[e] = k <=> origin[e] = k
    BY <1>0, <2>1, <2>3
  <2> QED
    BY <1>0, <2>1, <2>4 DEF CodeMakesOneDevice
<1>5. ASSUME UNCHANGED codeVars
      PROVE  CodeMakesOneDevice'
  BY <1>1, <1>5 DEF codeVars
<1>6. ASSUME NEW p \in Client, CallNext(p)
      PROVE  CodeMakesOneDevice'
  BY <1>3, <1>4, <1>5, <1>6 DEF CallNext, Press, CallFails, LookUpCode,
                                AnswerArrives, AnswerLost
<1>7. ASSUME \/ UNCHANGED pairingVars
             \/ \E p \in Client : ServiceNext(p)
             \/ \E d \in Device : RowNext(d)
             \/ StaleMarked
      PROVE  UNCHANGED codeVars
  BY <1>7 DEF pairingVars, ServiceNext, StartService, StopService, PhoneHeartbeat,
              HeartbeatServed, HeartbeatCut, RowNext, Ages, Disable, StaleMarked
<1> QED
  BY <1>2, <1>5, <1>6, <1>7 DEF PairingNext

LEMMA PairingInvInit == PairingInit => PairingInv
<1> SUFFICES ASSUME PairingInit PROVE PairingInv
  OBVIOUS
<1>1. /\ \A d \in Device : status[d] = "ABSENT" /\ beat[d] = "never"
      /\ \A d \in Device : origin[d] = NoCode
      /\ \A p \in Client : token[p] = NoDevice /\ hb[p] = NoDevice
      /\ \A p \in Client : call[p].at = "idle"
      /\ lost = {} /\ replaced = {}
      /\ \A k \in Code : code[k] = "none"
  BY DEF PairingInit, DevicesInit, NoCall
<1>2. ASSUME NEW d \in Device
      PROVE  Whereabouts(d)
  <2>1. ~ Told(d) /\ ~ Held(d) /\ ~ Heard(d)
    BY <1>1, NoDeviceAssumption DEF Told, Held, Heard
  <2>2. \A p \in Client : ~ Answered(p, d)
    BY <1>1 DEF Answered
  <2>3. \A p \in Client : token[p] # d
    BY <1>1, NoDeviceAssumption
  <2> QED
    BY <1>1, <2>1, <2>2, <2>3 DEF Whereabouts, AbsentIsBare, AnswerIsFirst,
                                  OnePhone, HeardIsHeld
<1>3. CodeMakesOneDevice
  BY <1>1, NoCodeAssumption DEF CodeMakesOneDevice
<1> QED
  BY <1>2, <1>3, PairingTypeInit DEF PairingInv

LEMMA PairingInvStep == PairingInv /\ [PairingNext]_pairingVars => PairingInv'
<1> SUFFICES ASSUME PairingInv, [PairingNext]_pairingVars PROVE PairingInv'
  OBVIOUS
<1>0. /\ PairingTypeOK /\ Carries /\ \A d \in Device : Whereabouts(d)
      /\ \A d \in Device : status[d] = "ABSENT" => ~ Held(d) /\ ~ Heard(d)
  BY DEF PairingInv, Whereabouts, AbsentIsBare, Told
<1>1. PairingTypeOK' /\ Carries'
  BY <1>0, PairingTypeStep
<1>2. CodeMakesOneDevice'
  BY CodesStep
<1>3. ASSUME NEW p \in Client, CallNext(p)
      PROVE  \A d \in Device : Whereabouts(d)'
  <2>1. CASE CallFails(p) \/ LookUpCode(p) \/ \E k \in Code \cup {ByKey} : Press(p, k)
    BY <1>0, <2>1, QuietCalls, StillKeeps
  <2>2. ASSUME NEW d \in Device, ClaimCode(p, d) \/ RegisterByKey(p, d)
        PROVE  \A e \in Device : Whereabouts(e)'
    BY <1>0, <2>2, Creates
  <2>3. CASE AnswerArrives(p)
    BY <1>0, <2>3, Arrives
  <2>4. ASSUME NEW again \in BOOLEAN, AnswerLost(p, again)
        PROVE  \A e \in Device : Whereabouts(e)'
    BY <1>0, <2>4, Loses
  <2> QED
    BY <1>3, <2>1, <2>2, <2>3, <2>4 DEF CallNext
<1>4. ASSUME \/ UNCHANGED pairingVars
             \/ \E k \in Code : CodeNext(k)
             \/ \E p \in Client : ServiceNext(p)
             \/ \E d \in Device : RowNext(d)
             \/ StaleMarked
      PROVE  \A d \in Device : Whereabouts(d)'
  <2>1. \A d \in Device : Still(d)
    BY <1>0, <1>4, QuietRows
  <2> QED
    BY <1>0, <2>1, StillKeeps
<1>5. \A d \in Device : Whereabouts(d)'
  BY <1>3, <1>4 DEF PairingNext
<1> QED
  BY <1>1, <1>2, <1>5 DEF PairingInv

LEMMA PairingInvHolds == PairingSpec => []PairingInv
  BY PairingInvInit, PairingInvStep, PTL DEF PairingSpec

(* "Pairing codes ... can be used once": however many phones send one code *)
(* at the same time, and whatever answers are lost, it makes one device.   *)
THEOREM CodeUsedOnce == PairingSpec => []CodeMakesOneDevice
<1>1. PairingInv => CodeMakesOneDevice
  BY DEF PairingInv
<1> QED
  BY <1>1, PairingInvHolds, PTL

(* Every device row nobody can speak for is accounted for by an answer     *)
(* under way or lost, or by a phone that was paired again.                 *)
THEOREM UnheldExplained == PairingSpec => []UnheldIsExplained
<1>1. PairingInv => UnheldIsExplained
  BY DEF PairingInv, Whereabouts, Told, Answered, UnheldIsExplained
<1> QED
  BY <1>1, PairingInvHolds, PTL

(* No device is ever heard of before its token is on a phone, none whose   *)
(* token was lost, and no two phones speak for one device.                 *)
THEOREM OnlineDelivered == PairingSpec => []OnlineWasDelivered
<1>1. PairingInv => OnlineWasDelivered
  <2> SUFFICES ASSUME PairingInv PROVE OnlineWasDelivered
    OBVIOUS
  <2>1. \A p \in Client : token[p] \in Device \/ token[p] = NoDevice
    BY DEF PairingInv, PairingTypeOK, AnyDevice
  <2>2. \A d \in Device : OnePhone(d) /\ HeardIsHeld(d)
    BY DEF PairingInv, Whereabouts
  <2>3. ASSUME NEW d \in Device, status[d] = "ONLINE" \/ beat[d] # "never"
        PROVE  (Held(d) \/ d \in replaced) /\ d \notin lost
    BY <2>2, <2>3 DEF HeardIsHeld, Heard
  <2>4. ASSUME NEW p \in Client, NEW q \in Client, token[p] = token[q]
        PROVE  p = q \/ token[p] = NoDevice
    BY <2>1, <2>2, <2>4 DEF OnePhone
  <2> QED
    BY <2>3, <2>4 DEF OnlineWasDelivered
<1> QED
  BY <1>1, PairingInvHolds, PTL
=============================================================================
