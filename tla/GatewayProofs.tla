--------------------------- MODULE GatewayProofs ---------------------------
(***************************************************************************)
(* What a project can rely on for its messages, for every number of        *)
(* devices, loops, messages and call slots and every bound: the types, the *)
(* inductive invariant, and on top of it no early SENT, decisions that     *)
(* stay, one send per claim, and the promise of Delivery.                  *)
(***************************************************************************)
EXTENDS Gateway, TLAPS

(* Every step keeps the variables within their types. *)
LEMMA TypeInit == Init => TypeOK
  BY NoDeviceAssumption, BoundAssumption
  DEF Init, TypeOK, DevicesInit, DevicesTypeOK, DeviceStatus, MessageStatus,
      Sends, Rows, Calls, Loops, NoRow, FreeCall, IdleLoop

LEMMA SendStepType ==
  ASSUME TypeOK, NEW m \in Message, NEW from, NEW to \in Sends,
         SendStep(m, from, to)
  PROVE  /\ DevicesTypeOK'
         /\ send' \in [Message -> Sends]
         /\ call' \in [Call -> Calls]
         /\ loop' \in [Client -> Loops]
         /\ faults' \in 0 .. MaxFaults
         /\ sms' \in [Message -> Nat]
         /\ reclaims' \in [Message -> Nat]
         /\ missed' \in [Message -> BOOLEAN]
  BY DEF TypeOK, SendStep, DevicesTypeOK, callVars, history, deviceVars

LEMMA SendType ==
  ASSUME TypeOK, NEW m \in Message, SendNext(m)
  PROVE  TypeOK'
<1>a. send[m] \in Sends /\ row[m] \in Rows
  BY DEF TypeOK
<1>b. ASSUME NEW at \in {"route", "device", "save", "link", "done"}
      PROVE  [send[m] EXCEPT !.at = at] \in Sends
  BY <1>a DEF Sends
<1>c. ASSUME NEW at \in {"row", "save"}, NEW d \in Device \cup {NoDevice},
             NEW r \in {"queued", "failed"}
      PROVE  /\ [send[m] EXCEPT !.at = at, !.device = d] \in Sends
             /\ [send[m] EXCEPT !.at = at, !.result = r] \in Sends
  BY <1>a DEF Sends
<1>1. CASE CreateMessage(m)
  BY <1>1, <1>b, SendStepType DEF CreateMessage, TypeOK, MessageStatus
<1>2. CASE RouteToGateway(m)
  BY <1>2, <1>b, SendStepType DEF RouteToGateway, TypeOK
<1>3. CASE RouteElsewhere(m)
  BY <1>3, <1>c, SendStepType DEF RouteElsewhere, TypeOK
<1>4. CASE PickDevice(m)
  BY <1>4, <1>c, SendStepType DEF PickDevice, TypeOK
<1>5. CASE NoOnlineDevice(m)
  BY <1>5, <1>c, SendStepType DEF NoOnlineDevice, TypeOK
<1>6. CASE CreateRow(m)
  <2>1. [NoRow EXCEPT !.status = "QUEUED", !.device = send[m].device] \in Rows
    BY <1>a DEF NoRow, Rows, Sends, MessageStatus
  <2> QED
    BY <1>6, <1>c, <2>1, SendStepType DEF CreateRow, TypeOK
<1>7. CASE SaveResult(m)
  BY <1>7, <1>b, SendStepType DEF SaveResult, TypeOK, MessageStatus
<1>8. CASE LinkRow(m)
  <2>1. row' \in [Message -> Rows]
    BY <1>8 DEF LinkRow, TypeOK, Rows
  <2> QED
    BY <1>8, <1>b, <2>1, SendStepType DEF LinkRow, TypeOK
<1> QED
  BY <1>1, <1>2, <1>3, <1>4, <1>5, <1>6, <1>7, <1>8 DEF SendNext

LEMMA CallType ==
  ASSUME TypeOK, NEW k \in Call, CallNext(k)
  PROVE  TypeOK'
<1>a. call[k] \in Calls
  BY DEF TypeOK
<1>b. FreeCall \in Calls /\ IdleLoop \in Loops
  BY DEF FreeCall, IdleLoop, Calls, Loops
<1>u. ASSUME UNCHANGED deviceVars
      PROVE  DevicesTypeOK'
  BY <1>u DEF TypeOK, DevicesTypeOK, deviceVars
<1>1. CASE Reclaim(k)
  <2>1. \A m \in Message :
          [row[m] EXCEPT !.status = "QUEUED", !.old = FALSE] \in Rows
    BY DEF TypeOK, Rows, MessageStatus
  <2>2. row' \in [Message -> Rows]
    BY <1>1, <2>1 DEF Reclaim, TypeOK
  <2>3. call' \in [Call -> Calls]
    BY <1>1, <1>a DEF Reclaim, TypeOK, Calls
  <2>4. reclaims' \in [Message -> Nat]
    <3>1. reclaims' = [m \in Message |-> IF m \in Expired(k)
                                          THEN reclaims[m] + 1
                                          ELSE reclaims[m]]
      BY <1>1 DEF Reclaim
    <3>2. reclaims \in [Message -> Nat]
      BY DEF TypeOK
    <3> HIDE DEF Expired
    <3> QED
      BY <3>1, <3>2
  <2>5. UNCHANGED <<deviceVars, sendVars, loop, faults, sms, missed>>
    BY <1>1 DEF Reclaim
  <2> QED
    BY <1>u, <2>2, <2>3, <2>4, <2>5 DEF TypeOK, sendVars
<1>2. CASE ReadQueued(k)
  <2>1. call' \in [Call -> Calls]
    <3>1. PICK S \in SUBSET Queued(k) :
            call' = [call EXCEPT ![k].at = "claim", ![k].rows = S]
      BY <1>2 DEF ReadQueued
    <3>2. S \in SUBSET Message
      BY DEF Queued
    <3> QED
      BY <1>a, <3>1, <3>2 DEF TypeOK, Calls
  <2> QED
    BY <1>2, <1>u, <2>1 DEF ReadQueued, TypeOK, sendVars, history
<1>3. CASE ClaimAndAnswer(k)
  <2>1. \A m \in Message :
          [row[m] EXCEPT !.status = "SENDING", !.old = FALSE] \in Rows
    BY DEF TypeOK, Rows, MessageStatus
  <2>2. row' \in [Message -> Rows]
    BY <1>3, <2>1 DEF ClaimAndAnswer, TypeOK
  <2>3. [IdleLoop EXCEPT !.at = "sending", !.hand = call[k].rows] \in Loops
    BY <1>a DEF IdleLoop, Loops, Calls
  <2>4. loop' \in [Client -> Loops]
    BY <1>3, <1>b, <2>3 DEF ClaimAndAnswer, TypeOK
  <2> QED
    BY <1>3, <1>b, <1>u, <2>2, <2>4
    DEF ClaimAndAnswer, TypeOK, sendVars, history
<1>4. CASE FindRow(k)
  <2>1. call' \in [Call -> Calls]
    <3>1. PICK m \in call[k].rows :
            call' = [call EXCEPT ![k].at = "row", ![k].item = m,
                                 ![k].rows = @ \ {m},
                                 ![k].linked = row[m].linked]
      BY <1>4 DEF FindRow
    <3>2. m \in Message /\ row[m].linked \in BOOLEAN
      BY <1>a DEF TypeOK, Calls, Rows
    <3> QED
      BY <1>a, <3>1, <3>2 DEF TypeOK, Calls
  <2> QED
    BY <1>4, <1>u, <2>1 DEF FindRow, TypeOK, sendVars, history
<1>5. CASE UpdateRow(k)
  <2>1. row' \in [Message -> Rows]
    <3>1. Outcome(k) \in MessageStatus
      BY DEF Outcome, MessageStatus
    <3>2. ASSUME NEW r \in Rows, NEW o \in MessageStatus, NEW n \in Nat
          PROVE  [r EXCEPT !.status = o, !.old = FALSE, !.attempts = n] \in Rows
      BY DEF Rows
    <3>3. CASE call[k].item \in Message
      <4> DEFINE r == row[call[k].item]
      <4>1. r \in Rows /\ r.attempts + 1 \in Nat
        BY <3>3 DEF TypeOK, Rows
      <4>2. [r EXCEPT !.status = Outcome(k), !.old = FALSE,
                      !.attempts = r.attempts + 1] \in Rows
        BY <3>1, <3>2, <4>1
      <4>3. row' = [row EXCEPT ![call[k].item] =
                      [r EXCEPT !.status = Outcome(k), !.old = FALSE,
                                !.attempts = r.attempts + 1]]
        BY <1>5 DEF UpdateRow
      <4> HIDE DEF r
      <4> QED
        BY <4>2, <4>3 DEF TypeOK
    <3>4. CASE call[k].item \notin Message
      BY <1>5, <3>4 DEF UpdateRow, TypeOK
    <3> QED
      BY <3>3, <3>4
  <2>2. call' \in [Call -> Calls]
    BY <1>5, <1>a DEF UpdateRow, TypeOK, Calls
  <2>3. missed' \in [Message -> BOOLEAN]
    BY <1>5, <1>a DEF UpdateRow, TypeOK, Calls
  <2> QED
    BY <1>5, <1>u, <2>1, <2>2, <2>3 DEF UpdateRow, TypeOK, sendVars
<1>6. CASE UpdateMessage(k)
  <2>1. call' \in [Call -> Calls]
    BY <1>6, <1>a DEF UpdateMessage, TypeOK, Calls
  <2>2. message' \in [Message -> MessageStatus]
    BY <1>6 DEF UpdateMessage, TypeOK, Outcome, MessageStatus
  <2> QED
    BY <1>6, <1>u, <2>1, <2>2 DEF UpdateMessage, TypeOK, history
<1>7. CASE ReportAnswer(k)
  BY <1>7, <1>b, <1>u DEF ReportAnswer, TypeOK, sendVars, history
<1> QED
  BY <1>1, <1>2, <1>3, <1>4, <1>5, <1>6, <1>7 DEF CallNext

LEMMA LoopType ==
  ASSUME TypeOK, NEW c \in Client, LoopNext(c) \/ BeatWritten(c)
  PROVE  TypeOK'
<1>a. loop[c] \in Loops /\ PhoneOf[c] \in Device
  BY PhoneAssumption DEF TypeOK
<1>b. FreeCall \in Calls /\ IdleLoop \in Loops
  BY DEF FreeCall, IdleLoop, Calls, Loops
<1>u. ASSUME UNCHANGED deviceVars
      PROVE  DevicesTypeOK'
  BY <1>u DEF TypeOK, DevicesTypeOK, deviceVars
<1>1. CASE Beat(c)
  <2>1. DevicesTypeOK'
    BY <1>1, <1>a DEF Beat, HeartbeatRead, TypeOK, DevicesTypeOK
  <2>2. loop' \in [Client -> Loops]
    BY <1>1, <1>a DEF Beat, TypeOK, Loops
  <2> QED
    BY <1>1, <2>1, <2>2 DEF Beat, TypeOK, sendVars, history
<1>2. CASE BeatWritten(c)
  <2>1. DevicesTypeOK'
    BY <1>2 DEF BeatWritten, HeartbeatWrite, TypeOK, DevicesTypeOK,
                DeviceStatus
  <2>2. loop' \in [Client -> Loops]
    BY <1>2, <1>a DEF BeatWritten, TypeOK, Loops
  <2> QED
    BY <1>2, <2>1, <2>2 DEF BeatWritten, TypeOK, sendVars, history
<1>3. CASE Refused(c)
  BY <1>3, <1>b, <1>u DEF Refused, TypeOK, sendVars, history
<1>4. ASSUME NEW k \in Call, Pull(c, k)
      PROVE  TypeOK'
  <2>1. [FreeCall EXCEPT !.at = "reclaim", !.client = c, !.live = TRUE] \in Calls
    BY DEF FreeCall, Calls
  <2>2. call' \in [Call -> Calls] /\ loop' \in [Client -> Loops]
    BY <1>4, <1>a, <2>1 DEF Pull, TypeOK, Loops
  <2> QED
    BY <1>4, <1>u, <2>2 DEF Pull, TypeOK, sendVars, history
<1>5. ASSUME NEW k \in Call, Report(c, k)
      PROVE  TypeOK'
  <2>1. [FreeCall EXCEPT !.at = "find", !.client = c, !.live = TRUE,
                         !.rows = loop[c].done, !.ok = loop[c].ok] \in Calls
    BY <1>a DEF FreeCall, Calls, Loops
  <2>2. call' \in [Call -> Calls]
    BY <1>5, <2>1 DEF Report, TypeOK
  <2>3. loop' \in [Client -> Loops]
    BY <1>5, <1>a DEF Report, TypeOK, Loops
  <2> QED
    BY <1>5, <1>u, <2>2, <2>3 DEF Report, TypeOK, sendVars, history
<1>6. ASSUME NEW m \in Message, SendSms(c, m)
      PROVE  TypeOK'
  <2>1. PICK sent \in SUBSET {m} :
          /\ loop' = [loop EXCEPT ![c] =
                        [at   |-> IF loop[c].hand = {m} THEN "report"
                                                        ELSE "sending",
                         hand |-> loop[c].hand \ {m},
                         done |-> loop[c].done \cup {m},
                         ok   |-> loop[c].ok \cup sent]]
          /\ sms' = [sms EXCEPT ![m] = IF m \in sent THEN @ + 1 ELSE @]
    BY <1>6 DEF SendSms
  <2>2. loop' \in [Client -> Loops]
    BY <1>a, <2>1 DEF TypeOK, Loops
  <2>3. sms' \in [Message -> Nat]
    <3>1. sms \in [Message -> Nat]
      BY DEF TypeOK
    <3> QED
      BY <2>1, <3>1
  <2>4. UNCHANGED <<deviceVars, sendVars, row, call, faults, reclaims, missed>>
    BY <1>6 DEF SendSms
  <2> QED
    BY <1>u, <2>2, <2>3, <2>4 DEF TypeOK, sendVars
<1> QED
  BY <1>1, <1>2, <1>3, <1>4, <1>5, <1>6 DEF LoopNext

LEMMA OtherType ==
  ASSUME TypeOK, FaultNext \/ DeviceNext \/ \E m \in Message : RowAges(m)
  PROVE  TypeOK'
<1>b. FreeCall \in Calls /\ IdleLoop \in Loops
  BY DEF FreeCall, IdleLoop, Calls, Loops
<1>f. ASSUME Fault
      PROVE  faults' \in 0 .. MaxFaults
  BY <1>f, BoundAssumption DEF Fault, TypeOK
<1>u. ASSUME UNCHANGED deviceVars
      PROVE  DevicesTypeOK'
  BY <1>u DEF TypeOK, DevicesTypeOK, deviceVars
<1>g. ASSUME NEW c \in Client, Abandon(c)
      PROVE  call' \in [Call -> Calls]
  <2>1. \A k \in Call : [call[k] EXCEPT !.live = FALSE] \in Calls
    BY DEF TypeOK, Calls
  <2> QED
    BY <1>g, <2>1 DEF Abandon, TypeOK
<1>1. ASSUME NEW m \in Message, SendDies(m)
      PROVE  TypeOK'
  <2>1. send' \in [Message -> Sends]
    BY <1>1 DEF SendDies, TypeOK, Sends
  <2> QED
    BY <1>1, <1>f, <1>u, <2>1 DEF SendDies, TypeOK, callVars, history
<1>2. ASSUME NEW k \in Call, CallDies(k)
      PROVE  TypeOK'
  BY <1>2, <1>b, <1>f, <1>u DEF CallDies, TypeOK, sendVars
<1>3. ASSUME NEW c \in Client, BeatDies(c)
      PROVE  TypeOK'
  <2>1. DevicesTypeOK'
    BY <1>3 DEF BeatDies, HeartbeatDies, TypeOK, DevicesTypeOK
  <2> QED
    BY <1>3, <1>b, <1>f, <2>1 DEF BeatDies, TypeOK, sendVars, history
<1>4. ASSUME NEW c \in Client, LoopResets(c)
      PROVE  TypeOK'
  BY <1>4, <1>b, <1>f, <1>g, <1>u DEF LoopResets, TypeOK, sendVars, history
<1>5. ASSUME NEW c \in Client, Retransmits(c)
      PROVE  TypeOK'
  <2>1. loop' \in [Client -> Loops]
    BY <1>5 DEF Retransmits, TypeOK, Loops
  <2> QED
    BY <1>5, <1>f, <1>g, <1>u, <2>1 DEF Retransmits, TypeOK, sendVars, history
<1>6. CASE DeviceNext
  <2>1. faults' \in 0 .. MaxFaults
    BY <1>6, <1>f DEF DeviceNext, TypeOK
  <2>2. DevicesTypeOK'
    BY <1>6 DEF DeviceNext, Register, HeartbeatAges, MarkStale, SetDisabled,
                TypeOK, DevicesTypeOK, DeviceStatus
  <2> QED
    BY <1>6, <2>1, <2>2 DEF DeviceNext, TypeOK, sendVars, callVars, history
<1>7. ASSUME NEW m \in Message, RowAges(m)
      PROVE  TypeOK'
  <2>1. row' \in [Message -> Rows]
    <3>1. [row[m] EXCEPT !.old = TRUE] \in Rows
      BY DEF TypeOK, Rows
    <3>2. row' = [row EXCEPT ![m] = [row[m] EXCEPT !.old = TRUE]]
      BY <1>7 DEF RowAges
    <3> QED
      BY <3>1, <3>2 DEF TypeOK
  <2>2. UNCHANGED <<deviceVars, sendVars, callVars, faults, history>>
    BY <1>7 DEF RowAges
  <2> QED
    BY <1>u, <2>1, <2>2 DEF TypeOK, sendVars, callVars, history
<1> QED
  BY <1>1, <1>2, <1>3, <1>4, <1>5, <1>6, <1>7 DEF FaultNext

(* Type correctness: no request, call or loop ever leaves its states, and  *)
(* no row or message takes a value the schema does not have.               *)
THEOREM TypeCorrect == Spec => []TypeOK
<1>1. TypeOK /\ [Next]_vars => TypeOK'
  <2> SUFFICES ASSUME TypeOK, [Next]_vars
               PROVE  TypeOK'
    OBVIOUS
  <2>1. CASE UNCHANGED vars
    BY <2>1 DEF TypeOK, DevicesTypeOK, vars, deviceVars, history
  <2> QED
    BY <2>1, SendType, CallType, LoopType, OtherType DEF Next
<1> QED
  BY TypeInit, <1>1, PTL DEF Spec

-----------------------------------------------------------------------------

Inv == TypeOK /\ CallsOK /\ LoopsOK /\ RowsKnown /\ SendOK /\ SuccessOK

LEMMA InvInit == Init => Inv
  BY TypeInit
  DEF Init, Inv, CallsOK, LoopsOK, RowsKnown, SendOK, SuccessOK, NoRow,
      FreeCall, IdleLoop

(* A row keeps its device and stays linked, and none is taken away. *)
RowsKept ==
    \A m \in Message : /\ row[m].linked => row'[m].linked
                       /\ row[m].status # "NONE"
                            => /\ row'[m].status # "NONE"
                               /\ row'[m].device = row[m].device

LEMMA RowsKeptCalls ==
  ASSUME Inv, RowsKept, UNCHANGED <<call, loop>>
  PROVE  CallsOK' /\ LoopsOK' /\ RowsKnown'
<1>1. CallsOK'
  BY DEF Inv, CallsOK, RowsKept
<1>2. LoopsOK'
  BY DEF Inv, LoopsOK
<1>3. RowsKnown'
  <2>a. \A m \in Message, d \in Device : RowOf(m, d) => RowOf(m, d)'
    BY DEF RowsKept, RowOf
  <2>b. \A k \in Call : call[k].at # "free" => DeviceOf(k) \in Device
    BY PhoneAssumption DEF Inv, CallsOK, DeviceOf
  <2> QED
    BY <2>a, <2>b, PhoneAssumption
    DEF Inv, TypeOK, Calls, Loops, CallsOK, RowsKnown, DeviceOf, RowOf, RowsKept
<1> QED
  BY <1>1, <1>2, <1>3

LEMMA SendInv ==
  ASSUME Inv, NEW m \in Message, SendNext(m) \/ SendDies(m)
  PROVE  Inv'
<1>t. TypeOK'
  BY SendType, OtherType DEF Inv, FaultNext
<1>a. UNCHANGED <<call, loop, sms>>
  BY DEF SendNext, SendDies, CreateMessage, RouteToGateway, RouteElsewhere,
         PickDevice, NoOnlineDevice, CreateRow, SaveResult, LinkRow,
         SendStep, callVars, history
<1>b. SuccessOK'
  BY <1>a DEF Inv, SuccessOK
<1>c. ASSUME UNCHANGED row
      PROVE  RowsKept
  BY <1>c DEF RowsKept
<1>1. CASE CreateMessage(m)
  <2>1. RowsKept
    BY <1>1, <1>c DEF CreateMessage
  <2>2. SendOK'
    BY <1>1 DEF CreateMessage, SendStep, Inv, TypeOK, Sends, SendOK
  <2> QED
    BY <1>t, <1>a, <1>b, <2>1, <2>2, RowsKeptCalls DEF Inv
<1>2. CASE RouteToGateway(m)
  <2>1. RowsKept
    BY <1>2, <1>c DEF RouteToGateway
  <2>2. SendOK'
    BY <1>2 DEF RouteToGateway, SendStep, Inv, TypeOK, Sends, SendOK
  <2> QED
    BY <1>t, <1>a, <1>b, <2>1, <2>2, RowsKeptCalls DEF Inv
<1>3. CASE RouteElsewhere(m)
  <2>1. RowsKept
    BY <1>3, <1>c DEF RouteElsewhere
  <2>2. SendOK'
    BY <1>3 DEF RouteElsewhere, SendStep, Inv, TypeOK, Sends, SendOK
  <2> QED
    BY <1>t, <1>a, <1>b, <2>1, <2>2, RowsKeptCalls DEF Inv
<1>4. CASE PickDevice(m)
  <2>1. RowsKept
    BY <1>4, <1>c DEF PickDevice
  <2>2. SendOK'
    BY <1>4 DEF PickDevice, SendStep, Inv, TypeOK, Sends, SendOK
  <2> QED
    BY <1>t, <1>a, <1>b, <2>1, <2>2, RowsKeptCalls DEF Inv
<1>5. CASE NoOnlineDevice(m)
  <2>1. RowsKept
    BY <1>5, <1>c DEF NoOnlineDevice
  <2>2. SendOK'
    BY <1>5 DEF NoOnlineDevice, SendStep, Inv, TypeOK, Sends, SendOK
  <2> QED
    BY <1>t, <1>a, <1>b, <2>1, <2>2, RowsKeptCalls DEF Inv
<1>6. CASE CreateRow(m)
  <2>1. row[m].status = "NONE" /\ ~ row[m].linked
    BY <1>6 DEF CreateRow, SendStep, Inv, SendOK
  <2>2. RowsKept
    BY <1>6, <2>1 DEF CreateRow, RowsKept, Inv, TypeOK
  <2>3. SendOK'
    BY <1>6, <2>1 DEF CreateRow, SendStep, NoRow, Inv, TypeOK, Sends, Rows,
                      SendOK
  <2> QED
    BY <1>t, <1>a, <1>b, <2>2, <2>3, RowsKeptCalls DEF Inv
<1>7. CASE SaveResult(m)
  <2>1. RowsKept
    BY <1>7, <1>c DEF SaveResult
  <2>2. SendOK'
    BY <1>7 DEF SaveResult, SendStep, Inv, TypeOK, Sends, SendOK
  <2> QED
    BY <1>t, <1>a, <1>b, <2>1, <2>2, RowsKeptCalls DEF Inv
<1>8. CASE LinkRow(m)
  <2>1. RowsKept
    BY <1>8 DEF LinkRow, RowsKept, Inv, TypeOK, Rows
  <2>2. SendOK'
    BY <1>8 DEF LinkRow, SendStep, Inv, TypeOK, Sends, Rows, SendOK
  <2> QED
    BY <1>t, <1>a, <1>b, <2>1, <2>2, RowsKeptCalls DEF Inv
<1>9. CASE SendDies(m)
  <2>1. RowsKept
    BY <1>9, <1>c DEF SendDies
  <2>2. SendOK'
    BY <1>9 DEF SendDies, Inv, TypeOK, Sends, SendOK
  <2> QED
    BY <1>t, <1>a, <1>b, <2>1, <2>2, RowsKeptCalls DEF Inv
<1> QED
  BY <1>1, <1>2, <1>3, <1>4, <1>5, <1>6, <1>7, <1>8, <1>9 DEF SendNext

(* A step that takes rows over only from what was known keeps RowsKnown. *)
LEMMA RowsKnownKept ==
  ASSUME Inv, TypeOK',
         \A m \in Message : /\ row'[m].device = row[m].device
                            /\ row[m].status # "NONE" => row'[m].status # "NONE",
         \A j \in Call :
           /\ call'[j].rows \subseteq call[j].rows
           /\ call'[j].rows # {} => call'[j].client = call[j].client
           /\ call'[j].at \in {"row", "message"}
                => /\ call[j].at \in {"row", "message"}
                   /\ call'[j].item = call[j].item
                   /\ call'[j].client = call[j].client,
         \A c \in Client : \A m \in loop'[c].hand \cup loop'[c].done :
           RowOf(m, PhoneOf[c])
  PROVE  RowsKnown'
<1>1. ASSUME NEW j \in Call, NEW m \in call'[j].rows
      PROVE  RowOf(m, DeviceOf(j))'
  <2>1. /\ RowOf(m, DeviceOf(j)) /\ call'[j].client = call[j].client
        /\ m \in Message
    BY <1>1 DEF Inv, RowsKnown, TypeOK, Calls
  <2> QED
    BY <2>1 DEF RowOf, DeviceOf
<1>2. ASSUME NEW j \in Call, call'[j].at \in {"row", "message"}
      PROVE  RowOf(call[j].item, DeviceOf(j))'
  <2>1. /\ RowOf(call[j].item, DeviceOf(j)) /\ call'[j].client = call[j].client
        /\ call'[j].item = call[j].item /\ call[j].item \in Message
    BY <1>2 DEF Inv, RowsKnown, CallsOK
  <2> QED
    BY <2>1 DEF RowOf, DeviceOf
<1>3. ASSUME NEW c \in Client, NEW m \in loop'[c].hand \cup loop'[c].done
      PROVE  RowOf(m, PhoneOf[c])'
  <2>1. RowOf(m, PhoneOf[c]) /\ m \in Message
    BY <1>3 DEF TypeOK, Loops
  <2> QED
    BY <2>1 DEF RowOf
<1> QED
  BY <1>1, <1>2, <1>3 DEF RowsKnown

LEMMA CallInv ==
  ASSUME Inv, NEW k \in Call, CallNext(k)
  PROVE  Inv'
<1>t. TypeOK'
  BY CallType DEF Inv
<1>a. call[k] \in Calls /\ TypeOK /\ CallsOK /\ LoopsOK /\ RowsKnown /\ SendOK
      /\ SuccessOK
  BY DEF Inv, TypeOK
<1>1. CASE Reclaim(k)
  <2>1. \A m \in Message : /\ row'[m].linked = row[m].linked
                           /\ row'[m].device = row[m].device
                           /\ row'[m].status = "NONE" <=> row[m].status = "NONE"
    BY <1>1, <1>a DEF Reclaim, Expired, TypeOK, Rows
  <2>2. call' = [call EXCEPT ![k].at = "read"] /\ call[k].at = "reclaim"
        /\ UNCHANGED <<send, message, loop, sms>>
    BY <1>1 DEF Reclaim, sendVars
  <2>3. CallsOK'
    BY <2>1, <2>2, <1>a DEF CallsOK, TypeOK, Calls, PullStates
  <2>4. LoopsOK' /\ SuccessOK' /\ SendOK'
    BY <2>1, <2>2, <1>a DEF LoopsOK, SuccessOK, SendOK, TypeOK, Calls
  <2>5. RowsKnown'
    BY <2>1, <2>2, <1>a, <1>t, RowsKnownKept
    DEF Inv, RowsKnown, TypeOK, Calls
  <2> QED
    BY <1>t, <2>3, <2>4, <2>5 DEF Inv
<1>2. CASE ReadQueued(k)
  <2>1. PICK S \in SUBSET Queued(k) :
          call' = [call EXCEPT ![k].at = "claim", ![k].rows = S]
    BY <1>2 DEF ReadQueued
  <2>2. call[k].at = "read" /\ UNCHANGED <<send, message, row, loop, sms>>
    BY <1>2 DEF ReadQueued, sendVars, history
  <2>3. CallsOK'
    BY <2>1, <2>2, <1>a DEF CallsOK, TypeOK, Calls, PullStates
  <2>4. LoopsOK' /\ SuccessOK' /\ SendOK'
    BY <2>1, <2>2, <1>a DEF LoopsOK, SuccessOK, SendOK, TypeOK, Calls
  <2>5. RowsKnown'
    BY <2>1, <2>2, <1>a
    DEF RowsKnown, RowOf, DeviceOf, Queued, TypeOK, Calls, Loops
  <2> QED
    BY <1>t, <2>3, <2>4, <2>5 DEF Inv
<1>3. CASE ClaimAndAnswer(k)
  <2>1. \A m \in Message : /\ row'[m].linked = row[m].linked
                           /\ row'[m].device = row[m].device
                           /\ row'[m].status = "NONE" <=> row[m].status = "NONE"
    BY <1>3, <1>a DEF ClaimAndAnswer, TypeOK, Rows
  <2>2. /\ call' = [call EXCEPT ![k] = FreeCall] /\ call[k].at = "claim"
        /\ UNCHANGED <<send, message, sms>>
        /\ loop' = IF ~ call[k].live THEN loop
                   ELSE [loop EXCEPT ![call[k].client] =
                           IF call[k].rows = {} THEN IdleLoop
                           ELSE [IdleLoop EXCEPT !.at = "sending",
                                                 !.hand = call[k].rows]]
    BY <1>3 DEF ClaimAndAnswer, sendVars, history
  <2>3. CallsOK'
    BY <2>1, <2>2, <1>a DEF CallsOK, TypeOK, Calls, FreeCall, PullStates
  <2>4. LoopsOK'
    BY <2>2, <1>a DEF LoopsOK, CallsOK, TypeOK, IdleLoop, Loops
  <2>5. SuccessOK'
    BY <2>2, <1>a DEF SuccessOK, TypeOK, FreeCall, IdleLoop, Loops, Calls
  <2>6. SendOK'
    BY <2>1, <2>2, <1>a DEF SendOK
  <2>7. RowsKnown'
    <3>1. \A c \in Client : \A m \in loop'[c].hand \cup loop'[c].done :
            RowOf(m, PhoneOf[c])
      BY <2>2, <1>a DEF RowsKnown, DeviceOf, TypeOK, IdleLoop
    <3>2. \A j \in Call : j # k => call'[j] = call[j]
      BY <2>2, <1>a DEF TypeOK
    <3>3. call'[k] = FreeCall
      BY <2>2, <1>a DEF TypeOK
    <3> QED
      BY <2>1, <3>1, <3>2, <3>3, <1>t, RowsKnownKept DEF Inv, FreeCall
  <2> QED
    BY <1>t, <2>3, <2>4, <2>5, <2>6, <2>7 DEF Inv
<1>4. CASE FindRow(k)
  <2>1. PICK m \in call[k].rows :
          call' = [call EXCEPT ![k].at = "row", ![k].item = m,
                               ![k].rows = @ \ {m},
                               ![k].linked = row[m].linked]
    BY <1>4 DEF FindRow
  <2>2. /\ call[k].at = "find" /\ UNCHANGED <<send, message, row, loop, sms>>
        /\ m \in Message
    BY <1>4, <1>a DEF FindRow, sendVars, history, Calls
  <2>3. CallsOK'
    BY <2>1, <2>2, <1>a DEF CallsOK, TypeOK, Calls, PullStates
  <2>4. LoopsOK' /\ SuccessOK' /\ SendOK'
    BY <2>1, <2>2, <1>a DEF LoopsOK, SuccessOK, SendOK, TypeOK, Calls
  <2>5. RowsKnown'
    BY <2>1, <2>2, <1>a DEF RowsKnown, RowOf, DeviceOf, TypeOK, Calls, Loops
  <2> QED
    BY <1>t, <2>3, <2>4, <2>5 DEF Inv
<1>5. CASE UpdateRow(k)
  <2> DEFINE i == call[k].item
  <2>1. i \in Message /\ call[k].at = "row" /\ row[i].status # "NONE"
    BY <1>5, <1>a DEF UpdateRow, CallsOK, RowsKnown, RowOf
  <2>2. \A m \in Message : /\ row'[m].linked = row[m].linked
                           /\ row'[m].device = row[m].device
                           /\ row'[m].status = "NONE" <=> row[m].status = "NONE"
    BY <1>5, <1>a, <2>1 DEF UpdateRow, TypeOK, Rows, Outcome
  <2>3. call' = [call EXCEPT ![k].at = IF call[k].linked THEN "message"
                                       ELSE "find"]
        /\ UNCHANGED <<send, message, loop, sms>>
    BY <1>5 DEF UpdateRow, sendVars
  <2>4. CallsOK'
    BY <2>1, <2>2, <2>3, <1>a DEF CallsOK, TypeOK, Calls, PullStates
  <2>5. LoopsOK' /\ SuccessOK' /\ SendOK'
    BY <2>2, <2>3, <1>a DEF LoopsOK, SuccessOK, SendOK, TypeOK, Calls
  <2>6. RowsKnown'
    BY <2>1, <2>2, <2>3, <1>a, <1>t, RowsKnownKept
    DEF Inv, RowsKnown, TypeOK, Calls
  <2> QED
    BY <1>t, <2>4, <2>5, <2>6 DEF Inv
<1>6. CASE UpdateMessage(k)
  <2>1. /\ call[k].at = "message" /\ UNCHANGED <<send, row, loop, sms>>
        /\ call' = [call EXCEPT ![k].at = "find"]
        /\ message' = [message EXCEPT ![call[k].item] = Outcome(k)]
    BY <1>6 DEF UpdateMessage, history
  <2>2. /\ call[k].item \in Message
        /\ send[call[k].item].at = "done"
    BY <2>1, <1>a DEF CallsOK, SendOK
  <2>3. CallsOK'
    BY <2>1, <2>2, <1>a DEF CallsOK, TypeOK, Calls, PullStates
  <2>4. LoopsOK' /\ SuccessOK'
    BY <2>1, <1>a DEF LoopsOK, SuccessOK, TypeOK, Calls
  <2>5. SendOK'
    BY <2>1, <2>2, <1>a DEF SendOK, TypeOK
  <2>6. RowsKnown'
    BY <2>1, <1>a DEF RowsKnown, RowOf, DeviceOf, TypeOK, Calls, Loops
  <2> QED
    BY <1>t, <2>3, <2>4, <2>5, <2>6 DEF Inv
<1>7. CASE ReportAnswer(k)
  <2>1. /\ call[k].at = "find" /\ UNCHANGED <<send, message, row, sms>>
        /\ call' = [call EXCEPT ![k] = FreeCall]
        /\ loop' = IF call[k].live
                   THEN [loop EXCEPT ![call[k].client] = IdleLoop] ELSE loop
    BY <1>7 DEF ReportAnswer, sendVars, history
  <2>2. CallsOK'
    BY <2>1, <1>a DEF CallsOK, TypeOK, Calls, FreeCall, PullStates
  <2>3. LoopsOK' /\ SuccessOK' /\ SendOK'
    BY <2>1, <1>a DEF LoopsOK, SuccessOK, SendOK, TypeOK, FreeCall, IdleLoop
  <2>4. RowsKnown'
    BY <2>1, <1>a
    DEF RowsKnown, RowOf, DeviceOf, TypeOK, Calls, Loops, FreeCall, IdleLoop
  <2> QED
    BY <1>t, <2>2, <2>3, <2>4 DEF Inv
<1> QED
  BY <1>1, <1>2, <1>3, <1>4, <1>5, <1>6, <1>7 DEF CallNext

LEMMA LoopInv ==
  ASSUME Inv, NEW c \in Client, LoopNext(c) \/ BeatWritten(c)
  PROVE  Inv'
<1>t. TypeOK'
  BY LoopType DEF Inv
<1>a. loop[c] \in Loops /\ TypeOK /\ CallsOK /\ LoopsOK /\ RowsKnown /\ SendOK
      /\ SuccessOK
  BY DEF Inv, TypeOK
(* Only the place of the loop changes, and it waits for no call. *)
<1>m. ASSUME NEW place, loop' = [loop EXCEPT ![c].at = place],
             UNCHANGED <<send, message, row, call, sms>>,
             loop[c].at \notin {"pulling", "reporting", "sending"}
      PROVE  Inv'
  <2>1. CallsOK'
    BY <1>m, <1>a DEF CallsOK, TypeOK, Loops, PullStates
  <2>2. LoopsOK' /\ SuccessOK' /\ SendOK'
    BY <1>m, <1>a DEF LoopsOK, SuccessOK, SendOK, TypeOK, Loops
  <2>3. RowsKnown'
    BY <1>m, <1>a DEF RowsKnown, RowOf, DeviceOf, TypeOK, Loops
  <2> QED
    BY <1>t, <2>1, <2>2, <2>3 DEF Inv
<1>1. CASE Beat(c)
  BY <1>1, <1>m DEF Beat, sendVars, history
<1>2. CASE BeatWritten(c)
  <2>1. UNCHANGED <<send, message, row, call, sms>>
    BY <1>2 DEF BeatWritten, sendVars, history
  <2>2. CASE loop[c].at = "beating"
    BY <1>2, <1>m, <2>1, <2>2 DEF BeatWritten
  <2>3. CASE loop[c].at # "beating"
    <3>1. UNCHANGED loop
      BY <1>2, <2>3 DEF BeatWritten
    <3> QED
      BY <1>t, <1>a, <2>1, <3>1
      DEF Inv, CallsOK, LoopsOK, RowsKnown, RowOf, DeviceOf, SendOK, SuccessOK
  <2> QED
    BY <2>2, <2>3
<1>3. CASE Refused(c)
  <2>1. /\ loop[c].at \in {"pull", "report"}
        /\ loop' = [loop EXCEPT ![c] = IdleLoop]
        /\ UNCHANGED <<send, message, row, call, sms>>
    BY <1>3 DEF Refused, sendVars, history
  <2>2. CallsOK'
    BY <2>1, <1>a DEF CallsOK, TypeOK, PullStates
  <2>3. LoopsOK' /\ SuccessOK' /\ SendOK'
    BY <2>1, <1>a DEF LoopsOK, SuccessOK, SendOK, TypeOK, IdleLoop
  <2>4. RowsKnown'
    BY <2>1, <1>a DEF RowsKnown, RowOf, DeviceOf, TypeOK, IdleLoop
  <2> QED
    BY <1>t, <2>2, <2>3, <2>4 DEF Inv
<1>4. ASSUME NEW k \in Call, Pull(c, k)
      PROVE  Inv'
  <2>1. /\ loop[c].at = "pull" /\ call[k].at = "free"
        /\ call' = [call EXCEPT ![k] = [FreeCall EXCEPT !.at = "reclaim",
                                          !.client = c, !.live = TRUE]]
        /\ loop' = [loop EXCEPT ![c].at = "pulling"]
        /\ UNCHANGED <<send, message, row, sms>>
    BY <1>4 DEF Pull, sendVars, history
  <2>2. \A j \in Call : call[j].live => call[j].client # c
    BY <2>1, <1>a DEF CallsOK
  <2>3. CallsOK'
    BY <2>1, <2>2, <1>a DEF CallsOK, TypeOK, Calls, Loops, FreeCall, PullStates
  <2>4. LoopsOK' /\ SuccessOK' /\ SendOK'
    BY <2>1, <1>a DEF LoopsOK, SuccessOK, SendOK, TypeOK, Loops, FreeCall
  <2>5. RowsKnown'
    <3>1. \A b \in Client : /\ loop'[b].hand = loop[b].hand
                            /\ loop'[b].done = loop[b].done
      BY <2>1, <1>a DEF TypeOK, Loops
    <3>2. /\ \A j \in Call : j # k => call'[j] = call[j]
          /\ call'[k].rows = {} /\ call'[k].at = "reclaim"
      BY <2>1, <1>a DEF TypeOK, FreeCall
    <3> QED
      BY <2>1, <3>1, <3>2, <1>t, <1>a, RowsKnownKept DEF Inv, RowsKnown
  <2> QED
    BY <1>t, <2>3, <2>4, <2>5 DEF Inv
<1>5. ASSUME NEW k \in Call, Report(c, k)
      PROVE  Inv'
  <2>1. /\ loop[c].at = "report" /\ call[k].at = "free"
        /\ call' = [call EXCEPT ![k] = [FreeCall EXCEPT !.at = "find",
                                          !.client = c, !.live = TRUE,
                                          !.rows = loop[c].done,
                                          !.ok = loop[c].ok]]
        /\ loop' = [loop EXCEPT ![c].at = "reporting"]
        /\ UNCHANGED <<send, message, row, sms>>
    BY <1>5 DEF Report, sendVars, history
  <2>2. \A j \in Call : call[j].live => call[j].client # c
    BY <2>1, <1>a DEF CallsOK
  <2>3. CallsOK'
    BY <2>1, <2>2, <1>a DEF CallsOK, TypeOK, Calls, Loops, FreeCall, PullStates
  <2>4. LoopsOK' /\ SuccessOK' /\ SendOK'
    BY <2>1, <1>a DEF LoopsOK, SuccessOK, SendOK, TypeOK, Loops, FreeCall
  <2>5. RowsKnown'
    <3>1. \A b \in Client : /\ loop'[b].hand = loop[b].hand
                            /\ loop'[b].done = loop[b].done
      BY <2>1, <1>a DEF TypeOK, Loops
    <3>2. /\ \A j \in Call : j # k => call'[j] = call[j]
          /\ call'[k].rows = loop[c].done /\ call'[k].at = "find"
          /\ call'[k].client = c
      BY <2>1, <1>a DEF TypeOK, FreeCall
    <3> QED
      BY <2>1, <3>1, <3>2, <1>t, <1>a DEF RowsKnown, RowOf, DeviceOf
  <2> QED
    BY <1>t, <2>3, <2>4, <2>5 DEF Inv
<1>6. ASSUME NEW m \in Message, SendSms(c, m)
      PROVE  Inv'
  <2>1. PICK sent \in SUBSET {m} :
          /\ loop' = [loop EXCEPT ![c] =
                        [at   |-> IF loop[c].hand = {m} THEN "report"
                                                        ELSE "sending",
                         hand |-> loop[c].hand \ {m},
                         done |-> loop[c].done \cup {m},
                         ok   |-> loop[c].ok \cup sent]]
          /\ sms' = [sms EXCEPT ![m] = IF m \in sent THEN @ + 1 ELSE @]
    BY <1>6 DEF SendSms
  <2>2. /\ loop[c].at = "sending" /\ m \in loop[c].hand
        /\ UNCHANGED <<send, message, row, call>>
    BY <1>6 DEF SendSms, sendVars
  <2>3. CallsOK'
    BY <2>1, <2>2, <1>a DEF CallsOK, TypeOK, PullStates
  <2>4. LoopsOK' /\ SendOK'
    BY <2>1, <2>2, <1>a DEF LoopsOK, SendOK, TypeOK
  <2>5. SuccessOK'
    <3>1. sms \in [Message -> Nat]
      BY <1>a DEF TypeOK
    <3>2. \A n \in Message : sms[n] > 0 => sms'[n] > 0
      BY <2>1, <3>1
    <3>3. m \in sent => sms'[m] > 0
      BY <2>1, <3>1
    <3>4. \A b \in Client : loop'[b].ok \subseteq loop[b].ok \cup sent
      BY <2>1, <1>a DEF TypeOK
    <3> QED
      BY <2>1, <2>2, <3>2, <3>3, <3>4, <1>a
      DEF SuccessOK, TypeOK, Calls, Loops
  <2>6. RowsKnown'
    <3>1. \A b \in Client : loop'[b].hand \cup loop'[b].done
                              \subseteq loop[b].hand \cup loop[b].done
      BY <2>1, <2>2, <1>a DEF TypeOK
    <3> QED
      BY <2>2, <3>1, <1>a DEF RowsKnown, RowOf, DeviceOf
  <2> QED
    BY <1>t, <2>3, <2>4, <2>5, <2>6 DEF Inv
<1> QED
  BY <1>1, <1>2, <1>3, <1>4, <1>5, <1>6 DEF LoopNext

LEMMA OtherInv ==
  ASSUME Inv, FaultNext \/ DeviceNext \/ \E m \in Message : RowAges(m)
  PROVE  Inv'
<1>t. TypeOK'
  BY OtherType DEF Inv
<1>a. TypeOK /\ CallsOK /\ LoopsOK /\ RowsKnown /\ SendOK /\ SuccessOK
  BY DEF Inv
<1>2. ASSUME NEW k \in Call, CallDies(k)
      PROVE  Inv'
  <2>1. /\ UNCHANGED <<send, message, row, sms>>
        /\ call' = [call EXCEPT ![k] = FreeCall]
        /\ loop' = IF call[k].live
                   THEN [loop EXCEPT ![call[k].client] = IdleLoop] ELSE loop
    BY <1>2 DEF CallDies, sendVars
  <2>2. CallsOK'
    BY <2>1, <1>a DEF CallsOK, TypeOK, Calls, FreeCall, PullStates
  <2>3. LoopsOK' /\ SuccessOK' /\ SendOK'
    BY <2>1, <1>a DEF LoopsOK, SuccessOK, SendOK, TypeOK, FreeCall, IdleLoop
  <2>4. RowsKnown'
    BY <2>1, <1>a
    DEF RowsKnown, RowOf, DeviceOf, TypeOK, Calls, Loops, FreeCall, IdleLoop
  <2> QED
    BY <1>t, <2>2, <2>3, <2>4 DEF Inv
<1>3. ASSUME NEW c \in Client, BeatDies(c)
      PROVE  Inv'
  <2>1. /\ UNCHANGED <<send, message, row, call, sms>>
        /\ loop' = IF loop[c].at = "beating"
                   THEN [loop EXCEPT ![c] = IdleLoop] ELSE loop
    BY <1>3 DEF BeatDies, sendVars, history
  <2>2. CallsOK'
    BY <2>1, <1>a DEF CallsOK, TypeOK, PullStates
  <2>3. LoopsOK' /\ SuccessOK' /\ SendOK'
    BY <2>1, <1>a DEF LoopsOK, SuccessOK, SendOK, TypeOK, IdleLoop
  <2>4. RowsKnown'
    BY <2>1, <1>a DEF RowsKnown, RowOf, DeviceOf, TypeOK, IdleLoop
  <2> QED
    BY <1>t, <2>2, <2>3, <2>4 DEF Inv
(* A loop gives up its call: none of its calls is live any more. *)
<1>g. ASSUME NEW c \in Client, Abandon(c), UNCHANGED <<send, message, row, sms>>,
             NEW r \in Loops, loop' = [loop EXCEPT ![c] = r],
             r.at \notin {"sending", "pulling", "reporting"}, r.hand = {},
             r.done \subseteq loop[c].done, r.ok \subseteq loop[c].ok
      PROVE  Inv'
  <2>1. \A k \in Call :
          /\ call'[k].at = call[k].at /\ call'[k].client = call[k].client
          /\ call'[k].rows = call[k].rows /\ call'[k].ok = call[k].ok
          /\ call'[k].item = call[k].item /\ call'[k].linked = call[k].linked
          /\ call'[k].live <=> (call[k].live /\ call[k].client # c)
    BY <1>g, <1>a DEF Abandon, TypeOK, Calls
  <2>2. CallsOK'
    BY <2>1, <1>g, <1>a DEF CallsOK, TypeOK, PullStates
  <2>3. LoopsOK' /\ SuccessOK' /\ SendOK'
    BY <2>1, <1>g, <1>a DEF LoopsOK, SuccessOK, SendOK, TypeOK
  <2>4. RowsKnown'
    BY <2>1, <1>g, <1>a DEF RowsKnown, RowOf, DeviceOf, TypeOK
  <2> QED
    BY <1>t, <2>2, <2>3, <2>4 DEF Inv
<1>4. ASSUME NEW c \in Client, LoopResets(c)
      PROVE  Inv'
  <2>1. loop' = [loop EXCEPT ![c] = IdleLoop] /\ Abandon(c)
        /\ UNCHANGED <<send, message, row, sms>>
    BY <1>4 DEF LoopResets, sendVars, history
  <2>2. /\ IdleLoop \in Loops /\ IdleLoop.at = "idle" /\ IdleLoop.hand = {}
        /\ IdleLoop.done = {} /\ IdleLoop.ok = {}
    BY DEF IdleLoop, Loops
  <2> QED
    BY <1>g, <2>1, <2>2
<1>5. ASSUME NEW c \in Client, Retransmits(c)
      PROVE  Inv'
  <2> DEFINE r == [loop[c] EXCEPT !.at = IF @ = "pulling" THEN "pull"
                                         ELSE "report"]
  <2>1. loop' = [loop EXCEPT ![c] = r] /\ Abandon(c)
        /\ UNCHANGED <<send, message, row, sms>>
    BY <1>5 DEF Retransmits, sendVars, history
  <2>2. /\ r \in Loops /\ r.at \in {"pull", "report"} /\ r.hand = loop[c].hand
        /\ r.done = loop[c].done /\ r.ok = loop[c].ok
    BY <1>a DEF TypeOK, Loops
  <2>3. loop[c].hand = {}
    BY <1>5, <1>a DEF Retransmits, LoopsOK
  <2> HIDE DEF r
  <2> QED
    BY <1>g, <2>1, <2>2, <2>3
<1>6. CASE DeviceNext
  <2>1. UNCHANGED <<send, message, row, call, loop, sms>>
    BY <1>6 DEF DeviceNext, sendVars, callVars, history
  <2> QED
    BY <1>t, <1>a, <2>1
    DEF Inv, CallsOK, LoopsOK, RowsKnown, RowOf, DeviceOf, SendOK, SuccessOK
<1>7. ASSUME NEW m \in Message, RowAges(m)
      PROVE  Inv'
  <2>1. /\ UNCHANGED <<send, message, call, loop, sms>>
        /\ \A n \in Message : /\ row'[n].linked = row[n].linked
                              /\ row'[n].device = row[n].device
                              /\ row'[n].status = row[n].status
    BY <1>7, <1>a DEF RowAges, TypeOK, Rows, sendVars, callVars, history
  <2>2. RowsKept
    BY <2>1 DEF RowsKept
  <2>3. SendOK' /\ SuccessOK'
    BY <2>1, <1>a DEF SendOK, SuccessOK
  <2> QED
    BY <1>t, <2>1, <2>2, <2>3, RowsKeptCalls DEF Inv
<1>8. ASSUME NEW m \in Message, SendDies(m)
      PROVE  Inv'
  BY <1>8, SendInv
<1> QED
  BY <1>2, <1>3, <1>4, <1>5, <1>6, <1>7, <1>8 DEF FaultNext

LEMMA StutterInv ==
  ASSUME Inv, UNCHANGED vars
  PROVE  Inv'
<1>1. TypeOK'
  BY DEF Inv, TypeOK, DevicesTypeOK, vars, deviceVars, history
<1> QED
  BY <1>1 DEF Inv, vars, history, CallsOK, LoopsOK, RowsKnown, RowOf, DeviceOf,
              SendOK, SuccessOK

(* The invariant the other theorems rest on: calls, loops, rows and send   *)
(* requests agree about who waits for whom and who owns a message.         *)
THEOREM Consistent == Spec => []Inv
<1>1. Inv /\ [Next]_vars => Inv'
  BY SendInv, CallInv, LoopInv, OtherInv, StutterInv DEF Next
<1> QED
  BY InvInit, <1>1, PTL DEF Spec

-----------------------------------------------------------------------------

(* Most steps write no message and no row, send nothing, and open no new   *)
(* way to a send; a report about to write a message stays so, or is noted  *)
(* as lost.                                                                *)
Quiet ==
    /\ UNCHANGED <<message, row, sms, reclaims>>
    /\ \A m \in Message : missed[m] => missed'[m]
    /\ \A k \in Call : call[k].at = "message"
         => \/ call'[k].at = "message" /\ call'[k].item = call[k].item
            \/ missed'[call[k].item]
    /\ \A m \in Message : \A k \in Call :
         (call'[k].live /\ call'[k].at = "claim" /\ m \in call'[k].rows)
           => Pending(m)
    /\ \A m \in Message : \A c \in Client :
         m \in loop'[c].hand => Held(m)

LEMMA QuietLoop ==
  ASSUME Inv, UNCHANGED <<message, row, call, sms, reclaims, missed>>,
         \A c \in Client : loop'[c].hand \subseteq loop[c].hand
  PROVE  Quiet
  BY DEF Quiet, Pending, Held

LEMMA QuietSend ==
  ASSUME Inv, NEW m \in Message,
         \/ RouteToGateway(m) \/ RouteElsewhere(m) \/ PickDevice(m)
         \/ NoOnlineDevice(m) \/ SendDies(m)
  PROVE  Quiet
<1>1. UNCHANGED <<message, row, call, loop, sms, reclaims, missed>>
  BY DEF RouteToGateway, RouteElsewhere, PickDevice, NoOnlineDevice, SendDies,
         SendStep, callVars, history
<1> QED
  BY <1>1, QuietLoop

LEMMA QuietCall ==
  ASSUME Inv, NEW k \in Call,
         ReadQueued(k) \/ FindRow(k) \/ ReportAnswer(k) \/ CallDies(k)
  PROVE  Quiet
<1>a. call[k] \in Calls /\ TypeOK /\ TypeOK'
  BY CallType, OtherType DEF Inv, TypeOK, CallNext, FaultNext
<1>b. UNCHANGED <<message, row, sms, reclaims>>
  BY DEF ReadQueued, FindRow, ReportAnswer, CallDies, sendVars, history
<1>1. CASE ReadQueued(k)
  <2>1. PICK S \in SUBSET Queued(k) :
          call' = [call EXCEPT ![k].at = "claim", ![k].rows = S]
    BY <1>1 DEF ReadQueued
  <2>2. call[k].at = "read" /\ UNCHANGED <<loop, missed>>
    BY <1>1 DEF ReadQueued, history
  <2>3. \A j \in Call : /\ j # k => call'[j] = call[j]
                        /\ j = k => call'[j].rows = S
    BY <2>1, <1>a DEF TypeOK, Calls
  <2> QED
    BY <2>2, <2>3, <1>b DEF Quiet, Pending, Held, Queued
<1>2. CASE FindRow(k)
  <2>1. /\ \A j \in Call : j # k => call'[j] = call[j]
        /\ call[k].at = "find" /\ call'[k].at = "row"
        /\ UNCHANGED <<loop, missed>>
    <3>1. PICK m \in call[k].rows :
            call' = [call EXCEPT ![k].at = "row", ![k].item = m,
                                 ![k].rows = @ \ {m},
                                 ![k].linked = row[m].linked]
      BY <1>2 DEF FindRow
    <3>2. call[k].at = "find" /\ UNCHANGED <<loop, missed>>
      BY <1>2 DEF FindRow, history
    <3> QED
      BY <3>1, <3>2, <1>a DEF TypeOK, Calls
  <2> QED
    BY <2>1, <1>b DEF Quiet, Pending, Held
<1>3. CASE ReportAnswer(k)
  <2>1. /\ \A j \in Call : j # k => call'[j] = call[j]
        /\ call[k].at = "find" /\ call'[k].at = "free"
        /\ UNCHANGED missed
        /\ \A c \in Client : loop'[c].hand \subseteq loop[c].hand
    BY <1>3, <1>a DEF ReportAnswer, TypeOK, FreeCall, IdleLoop, history
  <2> QED
    BY <2>1, <1>b DEF Quiet, Pending, Held
<1>4. CASE CallDies(k)
  <2>1. /\ \A j \in Call : j # k => call'[j] = call[j]
        /\ call'[k].at = "free"
        /\ \A c \in Client : loop'[c].hand \subseteq loop[c].hand
    BY <1>4, <1>a DEF CallDies, TypeOK, FreeCall, IdleLoop
  <2>2. /\ \A m \in Message : missed[m] => missed'[m]
        /\ call[k].at = "message" => missed'[call[k].item]
    BY <1>4 DEF CallDies, Inv, CallsOK
  <2> QED
    BY <2>1, <2>2, <1>b DEF Quiet, Pending, Held
<1> QED
  BY <1>1, <1>2, <1>3, <1>4

LEMMA QuietClient ==
  ASSUME Inv, NEW c \in Client,
         \/ Beat(c) \/ BeatWritten(c) \/ BeatDies(c) \/ Refused(c)
         \/ LoopResets(c) \/ Retransmits(c)
         \/ \E k \in Call : Pull(c, k) \/ Report(c, k)
  PROVE  Quiet
<1>a. loop[c] \in Loops /\ TypeOK
  BY DEF Inv, TypeOK
<1>1. CASE Beat(c) \/ BeatWritten(c) \/ BeatDies(c) \/ Refused(c)
  <2>1. UNCHANGED <<message, row, call, sms, reclaims, missed>>
    BY <1>1 DEF Beat, BeatWritten, BeatDies, Refused, sendVars, history
  <2>2. \A b \in Client : loop'[b].hand \subseteq loop[b].hand
    <3>1. CASE Beat(c) \/ BeatWritten(c)
      <4>1. UNCHANGED loop \/ \E at : loop' = [loop EXCEPT ![c].at = at]
        BY <3>1 DEF Beat, BeatWritten
      <4> QED
        BY <4>1, <1>a DEF TypeOK, Loops
    <3>2. CASE BeatDies(c) \/ Refused(c)
      <4>1. UNCHANGED loop \/ loop' = [loop EXCEPT ![c] = IdleLoop]
        BY <3>2 DEF BeatDies, Refused
      <4> QED
        BY <4>1, <1>a DEF TypeOK, IdleLoop
    <3> QED
      BY <1>1, <3>1, <3>2
  <2> QED
    BY <2>1, <2>2, QuietLoop
<1>2. CASE LoopResets(c) \/ Retransmits(c)
  <2>1. UNCHANGED <<message, row, sms, reclaims, missed>> /\ Abandon(c)
    BY <1>2 DEF LoopResets, Retransmits, sendVars, history
  <2>2. \A b \in Client : loop'[b].hand \subseteq loop[b].hand
    BY <1>2, <1>a DEF LoopResets, Retransmits, TypeOK, Loops, IdleLoop
  <2>3. \A k \in Call : /\ call'[k].at = call[k].at
                        /\ call'[k].rows = call[k].rows
                        /\ call'[k].item = call[k].item
                        /\ call'[k].live => call[k].live
    BY <2>1, <1>a DEF Abandon, TypeOK, Calls
  <2> QED
    BY <2>1, <2>2, <2>3 DEF Quiet, Pending, Held
<1>3. ASSUME NEW k \in Call, Pull(c, k) \/ Report(c, k)
      PROVE  Quiet
  <2>1. UNCHANGED <<message, row, sms, reclaims, missed>>
    BY <1>3 DEF Pull, Report, sendVars, history
  <2>2. \A b \in Client : loop'[b].hand = loop[b].hand
    BY <1>3, <1>a DEF Pull, Report, TypeOK, Loops
  <2>3. /\ \A j \in Call : j # k => call'[j] = call[j]
        /\ call[k].at = "free" /\ call'[k].at \in {"reclaim", "find"}
    <3>1. CASE Pull(c, k)
      BY <1>a, <3>1 DEF Pull, TypeOK, FreeCall
    <3>2. CASE Report(c, k)
      BY <1>a, <3>2 DEF Report, TypeOK, FreeCall
    <3> QED
      BY <1>3, <3>1, <3>2
  <2> QED
    BY <2>1, <2>2, <2>3 DEF Quiet, Pending, Held
<1> QED
  BY <1>1, <1>2, <1>3

(* The steps that are not quiet. *)
Loud ==
    \/ \E m \in Message : \/ CreateMessage(m) \/ CreateRow(m) \/ SaveResult(m)
                          \/ LinkRow(m) \/ RowAges(m)
    \/ \E k \in Call : \/ Reclaim(k) \/ ClaimAndAnswer(k) \/ UpdateRow(k)
                       \/ UpdateMessage(k)
    \/ \E c \in Client, m \in Message : SendSms(c, m)

LEMMA QuietOrLoud ==
  ASSUME Inv, [Next]_vars
  PROVE  Quiet \/ Loud
<1>1. CASE DeviceNext \/ UNCHANGED vars
  <2>1. UNCHANGED <<message, row, call, loop, sms, reclaims, missed>>
    BY <1>1 DEF DeviceNext, vars, sendVars, callVars, history
  <2> QED
    BY <2>1, QuietLoop
<1>2. ASSUME NEW m \in Message, SendNext(m)
      PROVE  Quiet \/ Loud
  BY <1>2, QuietSend DEF SendNext, Loud
<1>3. ASSUME NEW k \in Call, CallNext(k)
      PROVE  Quiet \/ Loud
  BY <1>3, QuietCall DEF CallNext, Loud
<1>4. ASSUME NEW c \in Client, LoopNext(c) \/ BeatWritten(c)
      PROVE  Quiet \/ Loud
  BY <1>4, QuietClient DEF LoopNext, Loud
<1>5. CASE FaultNext
  BY <1>5, QuietSend, QuietCall, QuietClient DEF FaultNext
<1>6. CASE \E m \in Message : RowAges(m)
  BY <1>6 DEF Loud
<1> QED
  BY <1>1, <1>2, <1>3, <1>4, <1>5, <1>6 DEF Next

-----------------------------------------------------------------------------
(* The loud steps, each as what it does to the message m it concerns. *)

LEMMA SmsNeverFewer ==
  ASSUME Inv, [Next]_vars, NEW m \in Message
  PROVE  sms[m] \in Nat /\ sms'[m] \in Nat /\ sms'[m] >= sms[m]
<1>1. sms \in [Message -> Nat]
  BY DEF Inv, TypeOK
<1>2. UNCHANGED sms \/ \E c \in Client, n \in Message : SendSms(c, n)
  BY QuietOrLoud
  DEF Quiet, Loud, CreateMessage, CreateRow, SaveResult, LinkRow, RowAges,
      Reclaim, ClaimAndAnswer, UpdateRow, UpdateMessage, SendStep, history
<1>3. ASSUME NEW c \in Client, NEW n \in Message, SendSms(c, n)
      PROVE  sms'[m] \in Nat /\ sms'[m] >= sms[m]
  <2>1. PICK sent \in SUBSET {n} :
          sms' = [sms EXCEPT ![n] = IF n \in sent THEN @ + 1 ELSE @]
    BY <1>3 DEF SendSms
  <2> QED
    BY <1>1, <2>1
<1> QED
  BY <1>1, <1>2, <1>3

(* How the statuses of the row and the message may change. *)
LEMMA StatusSteps ==
  ASSUME Inv, [Next]_vars, NEW m \in Message
  PROVE  /\ \/ row'[m].status = row[m].status
            \/ row[m].status = "NONE" /\ row'[m].status = "QUEUED"
            \/ row[m].status = "SENDING" /\ row'[m].status = "QUEUED"
            \/ row[m].status = "QUEUED" /\ row'[m].status = "SENDING"
            \/ /\ row[m].status # "NONE"
               /\ row'[m].status \in Final
               /\ row'[m].status = "SENT" => sms[m] > 0
         /\ \/ message'[m] = message[m]
            \/ message[m] \notin Final /\ message'[m] # "SENT"
            \/ /\ message'[m] \in Final
               /\ message'[m] = "SENT" => sms[m] > 0
<1>a. TypeOK /\ CallsOK /\ RowsKnown /\ SendOK /\ SuccessOK
  BY DEF Inv
<1>0. CASE Quiet
  BY <1>0 DEF Quiet
<1>1. ASSUME NEW n \in Message, CreateMessage(n)
      PROVE  /\ UNCHANGED row
             /\ \/ message'[m] = message[m]
                \/ message[m] \notin Final /\ message'[m] # "SENT"
  BY <1>1, <1>a DEF CreateMessage, SendStep, SendOK, TypeOK, Final
<1>2. ASSUME NEW n \in Message, SaveResult(n)
      PROVE  /\ UNCHANGED row
             /\ \/ message'[m] = message[m]
                \/ message[m] \notin Final /\ message'[m] # "SENT"
  BY <1>2, <1>a DEF SaveResult, SendStep, SendOK, TypeOK, Final
<1>3. ASSUME NEW n \in Message, CreateRow(n)
      PROVE  /\ UNCHANGED message
             /\ \/ row'[m].status = row[m].status
                \/ row[m].status = "NONE" /\ row'[m].status = "QUEUED"
  BY <1>3, <1>a DEF CreateRow, SendStep, SendOK, TypeOK, NoRow
<1>4. ASSUME NEW n \in Message, LinkRow(n) \/ RowAges(n)
      PROVE  UNCHANGED message /\ row'[m].status = row[m].status
  <2>1. CASE LinkRow(n)
    BY <2>1, <1>a DEF LinkRow, TypeOK, Rows
  <2>2. CASE RowAges(n)
    BY <2>2, <1>a DEF RowAges, TypeOK, Rows, sendVars
  <2> QED
    BY <1>4, <2>1, <2>2
<1>5. ASSUME NEW k \in Call, Reclaim(k)
      PROVE  /\ UNCHANGED message
             /\ \/ row'[m].status = row[m].status
                \/ row[m].status = "SENDING" /\ row'[m].status = "QUEUED"
  BY <1>5, <1>a DEF Reclaim, Expired, TypeOK, Rows, sendVars
<1>6. ASSUME NEW k \in Call, ClaimAndAnswer(k)
      PROVE  /\ UNCHANGED message
             /\ \/ row'[m].status = row[m].status
                \/ row[m].status = "QUEUED" /\ row'[m].status = "SENDING"
  BY <1>6, <1>a DEF ClaimAndAnswer, TypeOK, Rows, sendVars
<1>7. ASSUME NEW k \in Call
      PROVE  Outcome(k) \in Final
             /\ (call[k].item \in Message /\ Outcome(k) = "SENT"
                   => sms[call[k].item] > 0)
  BY <1>a DEF Outcome, Final, SuccessOK
<1>8. ASSUME NEW k \in Call, UpdateRow(k)
      PROVE  /\ UNCHANGED message
             /\ \/ row'[m].status = row[m].status
                \/ /\ row[m].status # "NONE"
                   /\ row'[m].status \in Final
                   /\ row'[m].status = "SENT" => sms[m] > 0
  <2>1. /\ call[k].item \in Message /\ row[call[k].item].status # "NONE"
        /\ UNCHANGED message
    BY <1>8, <1>a DEF UpdateRow, CallsOK, RowsKnown, RowOf, sendVars
  <2>2. m # call[k].item => row'[m] = row[m]
    BY <1>8, <1>a DEF UpdateRow, TypeOK
  <2>3. row'[call[k].item].status = Outcome(k)
    BY <1>8, <1>a, <2>1 DEF UpdateRow, TypeOK, Rows
  <2> QED
    BY <1>7, <2>1, <2>2, <2>3
<1>9. ASSUME NEW k \in Call, UpdateMessage(k)
      PROVE  /\ UNCHANGED row
             /\ \/ message'[m] = message[m]
                \/ /\ message'[m] \in Final
                   /\ message'[m] = "SENT" => sms[m] > 0
  <2>1. call[k].item \in Message /\ UNCHANGED row
    BY <1>9, <1>a DEF UpdateMessage, CallsOK
  <2>2. /\ m # call[k].item => message'[m] = message[m]
        /\ message'[call[k].item] = Outcome(k)
    BY <1>9, <1>a, <2>1 DEF UpdateMessage, TypeOK
  <2> QED
    BY <1>7, <2>1, <2>2
<1>10. ASSUME NEW c \in Client, NEW n \in Message, SendSms(c, n)
       PROVE  UNCHANGED <<row, message>>
  BY <1>10 DEF SendSms, sendVars
<1> QED
  BY <1>0, <1>1, <1>2, <1>3, <1>4, <1>5, <1>6, <1>8, <1>9, <1>10, QuietOrLoud
  DEF Loud

(* No row and no message says SENT before the phone sent it.               *)
THEOREM SentIsSent == Spec => []NotSentEarly
<1>1. Init => NotSentEarly
  BY DEF Init, NotSentEarly, NoRow
<1>2. Inv /\ NotSentEarly /\ [Next]_vars => NotSentEarly'
  <2> SUFFICES ASSUME Inv, NotSentEarly, [Next]_vars, NEW m \in Message,
                      row'[m].status = "SENT" \/ message'[m] = "SENT"
               PROVE  sms'[m] > 0
    BY DEF NotSentEarly
  <2>1. sms[m] > 0
    BY StatusSteps DEF NotSentEarly, Final
  <2> QED
    BY <2>1, SmsNeverFewer
<1> QED
  BY <1>1, <1>2, Consistent, PTL DEF Spec

(* What was decided stays decided: a SENT or FAILED row or message is only *)
(* ever rewritten by another report.                                       *)
THEOREM DecisionsStay == Spec => DecidedStaysDecided
<1>1. Inv /\ [Next]_vars =>
        [\A m \in Message :
           /\ row[m].status \in Final => row[m].status' \in Final
           /\ message[m] \in Final => message[m]' \in Final]_vars
  <2> SUFFICES ASSUME Inv, [Next]_vars, NEW m \in Message
               PROVE  /\ row[m].status \in Final => row[m].status' \in Final
                      /\ message[m] \in Final => message[m]' \in Final
    OBVIOUS
  <2> QED
    BY StatusSteps DEF Final
<1> QED
  BY <1>1, Consistent, PTL DEF Spec, DecidedStaysDecided

(* The attempts limit of pullOutbox never holds a row back: a row still    *)
(* open has no counted attempt, so a row whose reports keep getting lost   *)
(* is handed out without end.                                              *)
THEOREM OpenUncounted == Spec => []OpenRowsUncounted
<1>1. Init => OpenRowsUncounted
  BY DEF Init, OpenRowsUncounted, NoRow
<1>2. Inv /\ OpenRowsUncounted /\ [Next]_vars => OpenRowsUncounted'
  <2> SUFFICES ASSUME Inv, OpenRowsUncounted, [Next]_vars
               PROVE  OpenRowsUncounted'
    OBVIOUS
  <2>a. TypeOK /\ CallsOK
    BY DEF Inv
  <2>1. CASE UNCHANGED row
    BY <2>1 DEF OpenRowsUncounted
  <2>2. ASSUME NEW n \in Message, CreateRow(n) \/ LinkRow(n) \/ RowAges(n)
        PROVE  OpenRowsUncounted'
    <3>1. CASE CreateRow(n)
      BY <3>1, <2>a DEF CreateRow, NoRow, TypeOK, OpenRowsUncounted
    <3>2. CASE LinkRow(n)
      BY <3>2, <2>a DEF LinkRow, TypeOK, Rows, OpenRowsUncounted
    <3>3. CASE RowAges(n)
      BY <3>3, <2>a DEF RowAges, TypeOK, Rows, OpenRowsUncounted
    <3> QED
      BY <2>2, <3>1, <3>2, <3>3
  <2>3. ASSUME NEW k \in Call, Reclaim(k) \/ ClaimAndAnswer(k)
        PROVE  OpenRowsUncounted'
    <3> SUFFICES ASSUME NEW m \in Message
                 PROVE  /\ row'[m].attempts = row[m].attempts
                        /\ \/ row'[m].status = row[m].status
                           \/ row[m].status \in {"QUEUED", "SENDING"}
      BY DEF OpenRowsUncounted
    <3>a. row[m] \in Rows
      BY <2>a DEF TypeOK
    <3>1. CASE Reclaim(k)
      <4>1. /\ row'[m] = IF m \in Expired(k)
                         THEN [row[m] EXCEPT !.status = "QUEUED",
                                             !.old = FALSE]
                         ELSE row[m]
            /\ m \in Expired(k) => row[m].status = "SENDING"
        BY <3>1 DEF Reclaim, Expired
      <4> QED
        BY <3>a, <4>1 DEF Rows
    <3>2. CASE ClaimAndAnswer(k)
      <4>1. row'[m] = IF m \in call[k].rows /\ row[m].status = "QUEUED"
                      THEN [row[m] EXCEPT !.status = "SENDING", !.old = FALSE]
                      ELSE row[m]
        BY <3>2 DEF ClaimAndAnswer
      <4> QED
        BY <3>a, <4>1 DEF Rows
    <3> QED
      BY <2>3, <3>1, <3>2
  <2>4. ASSUME NEW k \in Call, UpdateRow(k)
        PROVE  OpenRowsUncounted'
    <3>1. call[k].item \in Message
      BY <2>4, <2>a DEF UpdateRow, CallsOK
    <3>2. \A m \in Message : m # call[k].item => row'[m] = row[m]
      BY <2>4, <2>a DEF UpdateRow, TypeOK
    <3>3. row'[call[k].item].status \in Final
      BY <2>4, <2>a, <3>1 DEF UpdateRow, Outcome, TypeOK, Rows, Final
    <3> QED
      BY <3>2, <3>3 DEF OpenRowsUncounted, Final
  <2> QED
    BY <2>1, <2>2, <2>3, <2>4, QuietOrLoud
    DEF Quiet, Loud, CreateMessage, SaveResult, UpdateMessage, SendSms
<1> QED
  BY <1>1, <1>2, Consistent, PTL DEF Spec

(* A message left undecided by the report on its row has one of the three  *)
(* reasons UndecidedIsExplained lists, and no other.                       *)
THEOREM UndecidedExplained == Spec => []UndecidedIsExplained
<1>1. Init => UndecidedIsExplained
  BY DEF Init, UndecidedIsExplained, NoRow, Final
<1>2. Inv /\ UndecidedIsExplained /\ [Next]_vars => UndecidedIsExplained'
  <2> SUFFICES ASSUME Inv, UndecidedIsExplained, [Next]_vars, NEW m \in Message,
                      row'[m].status \in Final, message'[m] \notin Final
               PROVE  \/ missed'[m]
                      \/ \E k \in Call : call'[k].at = "message"
                                         /\ call'[k].item = m
    BY DEF UndecidedIsExplained
  <2>a. TypeOK /\ CallsOK
    BY DEF Inv
  <2>b. message[m] \notin Final
    BY StatusSteps DEF Final
  <2>c. ASSUME row[m].status \in Final
        PROVE  missed[m] \/ \E k \in Call : call[k].at = "message"
                                            /\ call[k].item = m
    BY <2>b, <2>c DEF UndecidedIsExplained
  <2>1. CASE Quiet
    <3>1. row[m].status \in Final
      BY <2>1 DEF Quiet
    <3> QED
      BY <2>1, <2>c, <3>1 DEF Quiet
  <2>2. ASSUME NEW k \in Call, UpdateRow(k)
        PROVE  missed'[m] \/ \E j \in Call : call'[j].at = "message"
                                             /\ call'[j].item = m
    <3>1. /\ call[k].item \in Message /\ call[k].at = "row"
          /\ call[k] \in Calls
      BY <2>2, <2>a DEF UpdateRow, CallsOK, TypeOK
    <3>2. /\ \A j \in Call : j # k => call'[j] = call[j]
          /\ call'[k].item = call[k].item
          /\ call[k].linked => call'[k].at = "message"
      BY <2>2, <2>a, <3>1 DEF UpdateRow, TypeOK, Calls
    <3>3. /\ \A n \in Message : missed[n] => missed'[n]
          /\ ~ call[k].linked => missed'[call[k].item]
      BY <2>2, <2>a, <3>1 DEF UpdateRow, TypeOK
    <3>4. CASE m = call[k].item
      BY <3>2, <3>3, <3>4
    <3>5. CASE m # call[k].item
      <4>1. row'[m] = row[m]
        BY <2>2, <2>a, <3>5 DEF UpdateRow, TypeOK
      <4> QED
        BY <2>c, <3>1, <3>2, <3>3, <4>1
    <3> QED
      BY <3>4, <3>5
  <2>3. ASSUME NEW k \in Call, UpdateMessage(k)
        PROVE  missed'[m] \/ \E j \in Call : call'[j].at = "message"
                                             /\ call'[j].item = m
    <3>1. /\ call[k].item \in Message
          /\ message' = [message EXCEPT ![call[k].item] = Outcome(k)]
          /\ call' = [call EXCEPT ![k].at = "find"]
          /\ UNCHANGED <<row, missed>>
      BY <2>3, <2>a DEF UpdateMessage, CallsOK, history
    <3>2. Outcome(k) \in Final
      BY DEF Outcome, Final
    <3>3. m # call[k].item
      BY <3>1, <3>2, <2>a DEF TypeOK
    <3>4. \A j \in Call : j # k => call'[j] = call[j]
      BY <3>1, <2>a DEF TypeOK
    <3> QED
      BY <2>c, <3>1, <3>3, <3>4
  <2>4. ASSUME NEW k \in Call, Reclaim(k) \/ ClaimAndAnswer(k)
        PROVE  missed'[m] \/ \E j \in Call : call'[j].at = "message"
                                             /\ call'[j].item = m
    <3>a. row[m] \in Rows
      BY <2>a DEF TypeOK
    <3>b. ASSUME Reclaim(k) PROVE row'[m].status = row[m].status
      <4>1. row'[m] = IF m \in Expired(k)
                      THEN [row[m] EXCEPT !.status = "QUEUED", !.old = FALSE]
                      ELSE row[m]
        BY <3>b DEF Reclaim
      <4> QED
        BY <3>a, <4>1 DEF Rows, Final
    <3>c. ASSUME ClaimAndAnswer(k) PROVE row'[m].status = row[m].status
      <4>1. row'[m] = IF m \in call[k].rows /\ row[m].status = "QUEUED"
                      THEN [row[m] EXCEPT !.status = "SENDING", !.old = FALSE]
                      ELSE row[m]
        BY <3>c DEF ClaimAndAnswer
      <4> QED
        BY <3>a, <4>1 DEF Rows, Final
    <3>1. row'[m].status = row[m].status
      BY <2>4, <3>b, <3>c
    <3>2. /\ UNCHANGED missed
          /\ call[k].at # "message"
          /\ \A j \in Call : j # k => call'[j] = call[j]
      BY <2>4, <2>a DEF Reclaim, ClaimAndAnswer, TypeOK, history
    <3> QED
      BY <2>c, <3>1, <3>2
  <2>5. ASSUME UNCHANGED <<call, missed>>, row'[m].status = row[m].status
        PROVE  missed'[m] \/ \E j \in Call : call'[j].at = "message"
                                             /\ call'[j].item = m
    BY <2>c, <2>5
  <2>6. ASSUME NEW n \in Message,
               CreateMessage(n) \/ CreateRow(n) \/ SaveResult(n) \/ LinkRow(n)
                 \/ RowAges(n)
        PROVE  UNCHANGED <<call, missed>> /\ row'[m].status = row[m].status
    <3>1. UNCHANGED <<call, missed>>
      BY <2>6 DEF CreateMessage, CreateRow, SaveResult, LinkRow, RowAges,
                  SendStep, callVars, history
    <3>2. CASE CreateRow(n)
      BY <3>1, <3>2, <2>a DEF CreateRow, NoRow, TypeOK, Final
    <3>3. CASE LinkRow(n)
      BY <3>1, <3>3, <2>a DEF LinkRow, TypeOK, Rows
    <3>4. CASE RowAges(n)
      BY <3>1, <3>4, <2>a DEF RowAges, TypeOK, Rows
    <3>5. CASE CreateMessage(n) \/ SaveResult(n)
      BY <3>1, <3>5 DEF CreateMessage, SaveResult
    <3> QED
      BY <2>6, <3>1, <3>2, <3>3, <3>4, <3>5
  <2>7. ASSUME NEW c \in Client, NEW n \in Message, SendSms(c, n)
        PROVE  UNCHANGED <<call, missed>> /\ row'[m].status = row[m].status
    BY <2>7 DEF SendSms
  <2> QED
    BY <2>1, <2>2, <2>3, <2>4, <2>5, <2>6, <2>7, QuietOrLoud DEF Loud
<1> QED
  BY <1>1, <1>2, Consistent, PTL DEF Spec

-----------------------------------------------------------------------------
(* One send per claim, for phones that run one polling loop.               *)

LEMMA WithinInit == Init => WithinGrants
  BY DEF Init, WithinGrants, Pending, Held, Grants, NoRow, FreeCall, IdleLoop

LEMMA WithinStep ==
  ASSUME OneLoopPerPhone, Inv, WithinGrants, [Next]_vars
  PROVE  WithinGrants'
<1> SUFFICES ASSUME NEW m \in Message
             PROVE  (sms[m] + (IF Pending(m) THEN 1 ELSE 0)
                            + (IF Held(m) THEN 1 ELSE 0) <= Grants(m))'
  BY DEF WithinGrants
<1>a. TypeOK /\ CallsOK /\ LoopsOK /\ RowsKnown /\ SendOK
  BY DEF Inv
<1>b. sms[m] + (IF Pending(m) THEN 1 ELSE 0)
             + (IF Held(m) THEN 1 ELSE 0) <= Grants(m)
  BY DEF WithinGrants
<1>c. /\ sms[m] \in Nat /\ reclaims[m] \in Nat
      /\ sms \in [Message -> Nat] /\ reclaims \in [Message -> Nat]
  BY <1>a DEF TypeOK
(* A step that sends nothing, grants no less and opens nothing. *)
<1>d. ASSUME sms'[m] = sms[m], reclaims'[m] = reclaims[m],
             row'[m].status = "NONE" <=> row[m].status = "NONE",
             Pending(m)' => Pending(m), Held(m)' => Held(m)
      PROVE  (sms[m] + (IF Pending(m) THEN 1 ELSE 0)
                     + (IF Held(m) THEN 1 ELSE 0) <= Grants(m))'
  BY <1>b, <1>c, <1>d DEF Grants
<1>1. CASE Quiet
  BY <1>1, <1>d DEF Quiet, Pending, Held
<1>2. ASSUME NEW n \in Message,
             CreateMessage(n) \/ SaveResult(n) \/ LinkRow(n) \/ RowAges(n)
      PROVE  (sms[m] + (IF Pending(m) THEN 1 ELSE 0)
                     + (IF Held(m) THEN 1 ELSE 0) <= Grants(m))'
  <2>1. UNCHANGED <<call, loop, sms, reclaims>>
    BY <1>2 DEF CreateMessage, SaveResult, LinkRow, RowAges, SendStep,
                callVars, history
  <2>2. row'[m].status = row[m].status
    BY <1>2, <1>a DEF CreateMessage, SaveResult, LinkRow, RowAges, TypeOK, Rows
  <2> QED
    BY <1>d, <2>1, <2>2 DEF Pending, Held
<1>3. ASSUME NEW n \in Message, CreateRow(n)
      PROVE  (sms[m] + (IF Pending(m) THEN 1 ELSE 0)
                     + (IF Held(m) THEN 1 ELSE 0) <= Grants(m))'
  <2>1. /\ UNCHANGED <<call, loop, sms, reclaims>>
        /\ row[n].status = "NONE"
        /\ \A l \in Message : l # n => row'[l] = row[l]
        /\ row'[n].status = "QUEUED"
    BY <1>3, <1>a DEF CreateRow, SendStep, SendOK, NoRow, TypeOK, callVars,
                      history
  <2>2. CASE m = n
    <3>1. ~ Held(m)'
      BY <2>1, <2>2, <1>a DEF Held, RowsKnown, RowOf
    <3>2. Grants(m)' = 1 + reclaims[m] /\ sms'[m] = 0
      BY <2>1, <2>2, <1>b, <1>c DEF Grants
    <3> QED
      BY <3>1, <3>2, <1>c
  <2>3. CASE m # n
    BY <1>d, <2>1, <2>3 DEF Pending, Held
  <2> QED
    BY <2>2, <2>3
<1>4. ASSUME NEW k \in Call, Reclaim(k)
      PROVE  (sms[m] + (IF Pending(m) THEN 1 ELSE 0)
                     + (IF Held(m) THEN 1 ELSE 0) <= Grants(m))'
  <2>1. /\ UNCHANGED <<loop, sms>>
        /\ call[k].at = "reclaim" /\ call' = [call EXCEPT ![k].at = "read"]
        /\ reclaims' = [l \in Message |-> IF l \in Expired(k)
                                          THEN reclaims[l] + 1
                                          ELSE reclaims[l]]
        /\ row' = [l \in Message |->
                     IF l \in Expired(k)
                     THEN [row[l] EXCEPT !.status = "QUEUED", !.old = FALSE]
                     ELSE row[l]]
    BY <1>4 DEF Reclaim
  <2>2. Held(m)' <=> Held(m)
    BY <2>1 DEF Held
  <2>3. CASE m \in Expired(k)
    <3>1. row[m].status = "SENDING" /\ row'[m].status = "QUEUED"
          /\ reclaims'[m] = reclaims[m] + 1
      BY <2>1, <2>3, <1>a DEF Expired, TypeOK, Rows
    <3>2. Grants(m)' = Grants(m) + 1 /\ Grants(m) \in Nat
      BY <3>1, <1>c DEF Grants
    <3>4. sms'[m] = sms[m]
      BY <2>1
    <3>5. sms[m] + (IF Held(m) THEN 1 ELSE 0) <= Grants(m)
      BY <1>b, <1>c, <3>2
    <3>6. CASE Held(m)
      BY <2>2, <3>2, <3>4, <3>5, <3>6, <1>c
    <3>7. CASE ~ Held(m)
      BY <2>2, <3>2, <3>4, <3>5, <3>7, <1>c
    <3> QED
      BY <3>6, <3>7
  <2>4. CASE m \notin Expired(k)
    <3>1. row'[m] = row[m] /\ reclaims'[m] = reclaims[m]
      BY <2>1, <2>4
    <3>2. Pending(m)' => Pending(m)
      BY <2>1, <3>1, <1>a DEF Pending, TypeOK, Calls
    <3> QED
      BY <1>d, <2>1, <2>2, <3>1, <3>2
  <2> QED
    BY <2>3, <2>4
<1>5. ASSUME NEW k \in Call, ClaimAndAnswer(k)
      PROVE  (sms[m] + (IF Pending(m) THEN 1 ELSE 0)
                     + (IF Held(m) THEN 1 ELSE 0) <= Grants(m))'
  <2> DEFINE c == call[k].client
  <2>1. /\ UNCHANGED <<sms, reclaims>>
        /\ call[k].at = "claim" /\ call' = [call EXCEPT ![k] = FreeCall]
        /\ loop' = IF ~ call[k].live THEN loop
                   ELSE [loop EXCEPT ![call[k].client] =
                           IF call[k].rows = {} THEN IdleLoop
                           ELSE [IdleLoop EXCEPT !.at = "sending",
                                                 !.hand = call[k].rows]]
    BY <1>5 DEF ClaimAndAnswer, history
  <2>2. /\ row'[m].status = "NONE" <=> row[m].status = "NONE"
        /\ row'[m].status = "QUEUED" => row[m].status = "QUEUED"
        /\ m \in call[k].rows => row'[m].status # "QUEUED"
    BY <1>5, <1>a DEF ClaimAndAnswer, TypeOK, Rows
  <2>3. \A j \in Call : j # k => call'[j] = call[j]
    BY <2>1, <1>a DEF TypeOK
  <2>4. call'[k] = FreeCall
    BY <2>1, <1>a DEF TypeOK
  <2>5. Pending(m)' => Pending(m)
    BY <2>2, <2>3, <2>4 DEF Pending, FreeCall
  <2>6. CASE call[k].live /\ m \in call[k].rows
    <3>1. Pending(m)
      BY <2>1, <2>6 DEF Pending
    <3>2. c \in Client /\ RowOf(m, PhoneOf[c]) /\ loop[c].at = "pulling"
      BY <2>1, <2>6, <1>a DEF CallsOK, RowsKnown, DeviceOf, PullStates
    <3>3. ~ Held(m)
      BY <3>2, <1>a DEF Held, OneLoopPerPhone, RowsKnown, RowOf, LoopsOK
    <3>4. ~ Pending(m)'
      <4>1. row'[m].status # "QUEUED"
        BY <2>2, <2>6
      <4>2. ASSUME NEW j \in Call, call'[j].live, call'[j].at = "claim",
                   m \in call'[j].rows
            PROVE  FALSE
        <5>1. j # k
          BY <4>2, <2>4 DEF FreeCall
        <5>2. /\ call[j].live /\ call[j].at = "claim" /\ m \in call[j].rows
          BY <4>2, <5>1, <2>3
        <5>3. RowOf(m, PhoneOf[call[j].client]) /\ call[j].client \in Client
          BY <5>2, <1>a DEF RowsKnown, DeviceOf, CallsOK
        <5>4. call[j].client = c
          BY <5>3, <3>2 DEF RowOf, OneLoopPerPhone
        <5> QED
          BY <5>1, <5>2, <5>4, <2>6, <1>a DEF CallsOK
      <4> QED
        BY <4>1, <4>2 DEF Pending
    <3>5. Grants(m)' = Grants(m) /\ Grants(m) \in Nat /\ sms'[m] = sms[m]
      BY <2>1, <2>2, <1>c DEF Grants
    <3> QED
      BY <3>1, <3>3, <3>4, <3>5, <1>b, <1>c
  <2>7. CASE ~ (call[k].live /\ m \in call[k].rows)
    <3>1. Held(m)' => Held(m)
      BY <2>1, <2>7, <1>a DEF Held, TypeOK, IdleLoop
    <3> QED
      BY <1>d, <2>1, <2>2, <2>5, <3>1
  <2> QED
    BY <2>6, <2>7
<1>6. ASSUME NEW k \in Call, UpdateRow(k)
      PROVE  (sms[m] + (IF Pending(m) THEN 1 ELSE 0)
                     + (IF Held(m) THEN 1 ELSE 0) <= Grants(m))'
  <2>1. /\ UNCHANGED <<loop, sms, reclaims>>
        /\ call[k].item \in Message /\ call[k].at = "row"
        /\ row[call[k].item].status # "NONE"
    BY <1>6, <1>a DEF UpdateRow, CallsOK, RowsKnown, RowOf
  <2>2. /\ row'[m].status = "NONE" <=> row[m].status = "NONE"
        /\ row'[m].status = "QUEUED" => row[m].status = "QUEUED"
    BY <1>6, <1>a, <2>1 DEF UpdateRow, Outcome, TypeOK, Rows
  <2>3. /\ \A j \in Call : j # k => call'[j] = call[j]
        /\ call'[k].at \in {"message", "find"}
    BY <1>6, <1>a DEF UpdateRow, TypeOK, Calls
  <2>4. (Pending(m)' => Pending(m)) /\ (Held(m)' => Held(m))
    BY <2>1, <2>2, <2>3 DEF Pending, Held
  <2> QED
    BY <1>d, <2>1, <2>2, <2>4
<1>7. ASSUME NEW k \in Call, UpdateMessage(k)
      PROVE  (sms[m] + (IF Pending(m) THEN 1 ELSE 0)
                     + (IF Held(m) THEN 1 ELSE 0) <= Grants(m))'
  <2>1. /\ UNCHANGED <<row, loop, sms, reclaims>>
        /\ call' = [call EXCEPT ![k].at = "find"]
    BY <1>7 DEF UpdateMessage, history
  <2>2. /\ \A j \in Call : j # k => call'[j] = call[j]
        /\ call'[k].at = "find"
    BY <2>1, <1>a DEF TypeOK, Calls
  <2>3. (Pending(m)' => Pending(m)) /\ (Held(m)' => Held(m))
    BY <2>1, <2>2 DEF Pending, Held
  <2> QED
    BY <1>d, <2>1, <2>3
<1>8. ASSUME NEW c \in Client, NEW n \in Message, SendSms(c, n)
      PROVE  (sms[m] + (IF Pending(m) THEN 1 ELSE 0)
                     + (IF Held(m) THEN 1 ELSE 0) <= Grants(m))'
  <2>1. PICK sent \in SUBSET {n} :
          /\ loop' = [loop EXCEPT ![c] =
                        [at   |-> IF loop[c].hand = {n} THEN "report"
                                                        ELSE "sending",
                         hand |-> loop[c].hand \ {n},
                         done |-> loop[c].done \cup {n},
                         ok   |-> loop[c].ok \cup sent]]
          /\ sms' = [sms EXCEPT ![n] = IF n \in sent THEN @ + 1 ELSE @]
    BY <1>8 DEF SendSms
  <2>2. n \in loop[c].hand /\ UNCHANGED <<row, call, reclaims>>
    BY <1>8 DEF SendSms
  <2>3. \A b \in Client : loop'[b].hand = loop[b].hand \ (IF b = c THEN {n} ELSE {})
    BY <2>1, <1>a DEF TypeOK
  <2>4. (Pending(m)' <=> Pending(m)) /\ (Held(m)' => Held(m))
    BY <2>2, <2>3 DEF Pending, Held
  <2>5. CASE m = n
    <3>1. Held(m)
      BY <2>2, <2>5 DEF Held
    <3>2. ~ Held(m)'
      BY <2>2, <2>3, <2>5, <1>a DEF Held, RowsKnown, RowOf, OneLoopPerPhone
    <3>3. sms'[m] <= sms[m] + 1 /\ sms'[m] \in Nat
      BY <2>1, <2>5, <1>c
    <3>4. Grants(m)' = Grants(m) /\ Grants(m) \in Nat
      BY <2>2, <1>c DEF Grants
    <3> QED
      BY <2>4, <3>1, <3>2, <3>3, <3>4, <1>b, <1>c
  <2>6. CASE m # n
    <3>1. sms'[m] = sms[m]
      BY <2>1, <2>6, <1>c
    <3> QED
      BY <1>d, <2>2, <2>4, <3>1
  <2> QED
    BY <2>5, <2>6
<1> QED
  BY <1>1, <1>2, <1>3, <1>4, <1>5, <1>6, <1>7, <1>8, QuietOrLoud DEF Loud

LEMMA WithinGrantsAlways ==
  ASSUME OneLoopPerPhone
  PROVE  Spec => []WithinGrants
<1>1. Inv /\ WithinGrants /\ [Next]_vars => WithinGrants'
  BY WithinStep
<1> QED
  BY WithinInit, <1>1, Consistent, PTL DEF Spec

(* A phone with one polling loop sends a message at most once more than    *)
(* its row was reclaimed, whatever is lost, repeated or late.              *)
THEOREM OneSend ==
  ASSUME OneLoopPerPhone
  PROVE  Spec => []OneSendPerClaim
<1>1. TypeOK /\ WithinGrants => OneSendPerClaim
  <2> SUFFICES ASSUME TypeOK, WithinGrants, NEW m \in Message
               PROVE  sms[m] <= 1 + reclaims[m]
    BY DEF OneSendPerClaim
  <2>1. sms[m] \in Nat /\ reclaims[m] \in Nat
    BY DEF TypeOK
  <2> QED
    BY <2>1 DEF WithinGrants, Grants
<1> QED
  BY <1>1, TypeCorrect, WithinGrantsAlways, PTL

-----------------------------------------------------------------------------
(* The gateway implements Delivery.                                        *)

NotYetReclaimed ==
    \A m \in Message : row[m].status = "NONE" => reclaims[m] = 0

LEMMA NotYetReclaimedAlways == Spec => []NotYetReclaimed
<1>1. Init => NotYetReclaimed
  BY DEF Init, NotYetReclaimed
<1>2. Inv /\ NotYetReclaimed /\ [Next]_vars => NotYetReclaimed'
  <2> SUFFICES ASSUME Inv, NotYetReclaimed, [Next]_vars, NEW m \in Message,
                      row'[m].status = "NONE"
               PROVE  reclaims'[m] = 0
    BY DEF NotYetReclaimed
  <2>a. TypeOK /\ CallsOK
    BY DEF Inv
  <2>1. ASSUME row[m].status = "NONE", reclaims'[m] = reclaims[m]
        PROVE  reclaims'[m] = 0
    BY <2>1 DEF NotYetReclaimed
  <2>2. CASE UNCHANGED <<row, reclaims>>
    BY <2>1, <2>2
  <2>3. ASSUME NEW n \in Message, CreateRow(n) \/ LinkRow(n) \/ RowAges(n)
        PROVE  reclaims'[m] = 0
    <3>1. UNCHANGED reclaims
      BY <2>3 DEF CreateRow, LinkRow, RowAges, SendStep, history
    <3>2. ASSUME CreateRow(n) PROVE row[m].status = "NONE"
      BY <3>2, <2>a DEF CreateRow, NoRow, TypeOK
    <3>3. ASSUME LinkRow(n) PROVE row[m].status = "NONE"
      BY <3>3, <2>a DEF LinkRow, TypeOK, Rows
    <3>4. ASSUME RowAges(n) PROVE row[m].status = "NONE"
      BY <3>4, <2>a DEF RowAges, TypeOK, Rows
    <3> QED
      BY <2>1, <2>3, <3>1, <3>2, <3>3, <3>4
  <2>4. ASSUME NEW k \in Call, Reclaim(k)
        PROVE  reclaims'[m] = 0
    <3>1. /\ row'[m] = IF m \in Expired(k)
                       THEN [row[m] EXCEPT !.status = "QUEUED", !.old = FALSE]
                       ELSE row[m]
          /\ reclaims'[m] = IF m \in Expired(k) THEN reclaims[m] + 1
                                                ELSE reclaims[m]
      BY <2>4 DEF Reclaim
    <3>2. m \notin Expired(k)
      BY <3>1, <2>a DEF TypeOK, Rows
    <3> QED
      BY <2>1, <3>1, <3>2
  <2>5. ASSUME NEW k \in Call, ClaimAndAnswer(k)
        PROVE  reclaims'[m] = 0
    <3>1. /\ row'[m] = IF m \in call[k].rows /\ row[m].status = "QUEUED"
                       THEN [row[m] EXCEPT !.status = "SENDING", !.old = FALSE]
                       ELSE row[m]
          /\ UNCHANGED reclaims
      BY <2>5 DEF ClaimAndAnswer, history
    <3> QED
      BY <2>1, <2>a, <3>1 DEF TypeOK, Rows
  <2>6. ASSUME NEW k \in Call, UpdateRow(k)
        PROVE  reclaims'[m] = 0
    <3>1. row'[m].status = "NONE" => row[m].status = "NONE"
      BY <2>6, <2>a DEF UpdateRow, CallsOK, Outcome, TypeOK, Rows
    <3> QED
      BY <2>1, <2>6, <3>1 DEF UpdateRow
  <2> QED
    BY <2>2, <2>3, <2>4, <2>5, <2>6, QuietOrLoud
    DEF Quiet, Loud, CreateMessage, SaveResult, UpdateMessage, SendSms,
        SendStep, history
<1> QED
  BY <1>1, <1>2, Consistent, PTL DEF Spec

LEMMA PromiseInit == Init => Promise!Init
  BY DEF Init, Promise!Init, Fate, Final, Grants, NoRow

(* A step of the gateway is no step of Delivery when it leaves every fate, *)
(* grant and send as it was.                                               *)
LEMMA PromiseStutter ==
  ASSUME \A m \in Message :
           /\ \/ row'[m].status = row[m].status
              \/ /\ row[m].status \in {"QUEUED", "SENDING"}
                 /\ row'[m].status \in {"QUEUED", "SENDING"}
           /\ reclaims'[m] = reclaims[m],
         UNCHANGED sms
  PROVE  UNCHANGED Promise!vars
<1>1. \A m \in Message : Fate(m)' = Fate(m) /\ Grants(m)' = Grants(m)
  BY DEF Fate, Final, Grants
<1> QED
  BY <1>1 DEF Promise!vars

LEMMA PromiseStep ==
  ASSUME OneLoopPerPhone, Inv, WithinGrants, NotYetReclaimed, [Next]_vars
  PROVE  [Promise!Next]_(Promise!vars)
<1>a. TypeOK /\ CallsOK /\ LoopsOK /\ RowsKnown /\ SendOK /\ SuccessOK
  BY DEF Inv
<1>1. CASE UNCHANGED <<row, sms, reclaims>>
  BY <1>1, PromiseStutter
<1>2. ASSUME NEW n \in Message, CreateRow(n)
      PROVE  Promise!Next
  <2>1. /\ UNCHANGED <<sms, reclaims>>
        /\ row[n].status = "NONE"
        /\ \A l \in Message : l # n => row'[l] = row[l]
        /\ row'[n].status = "QUEUED"
    BY <1>2, <1>a DEF CreateRow, SendStep, SendOK, NoRow, TypeOK, history
  <2>2. Fate(n) = "none" /\ Fate(n)' = "open" /\ Grants(n)' = 1
    BY <2>1, <1>a DEF Fate, Final, Grants, NotYetReclaimed, TypeOK
  <2>3. \A l \in Message : l # n => Fate(l)' = Fate(l) /\ Grants(l)' = Grants(l)
    BY <2>1 DEF Fate, Final, Grants
  <2>4. Promise!Accept(n)
    BY <2>1, <2>2, <2>3 DEF Promise!Accept
  <2> QED
    BY <2>4 DEF Promise!Next
<1>3. ASSUME NEW n \in Message, LinkRow(n) \/ RowAges(n)
      PROVE  UNCHANGED Promise!vars
  <2>1. UNCHANGED <<sms, reclaims>>
    BY <1>3 DEF LinkRow, RowAges, SendStep, history
  <2>2. \A m \in Message : row'[m].status = row[m].status
    BY <1>3, <1>a DEF LinkRow, RowAges, TypeOK, Rows
  <2> QED
    BY <2>1, <2>2, PromiseStutter
<1>4. ASSUME NEW k \in Call, Reclaim(k)
      PROVE  Promise!Next
  <2>1. /\ UNCHANGED sms
        /\ reclaims' = [l \in Message |-> IF l \in Expired(k)
                                          THEN reclaims[l] + 1
                                          ELSE reclaims[l]]
        /\ row' = [l \in Message |->
                     IF l \in Expired(k)
                     THEN [row[l] EXCEPT !.status = "QUEUED", !.old = FALSE]
                     ELSE row[l]]
    BY <1>4 DEF Reclaim
  <2>2. ASSUME NEW m \in Expired(k)
        PROVE  /\ Fate(m) = "open" /\ Fate(m)' = "open"
               /\ Grants(m)' = Grants(m) + 1
    <3>1. /\ m \in Message /\ row[m].status = "SENDING"
          /\ row'[m].status = "QUEUED" /\ reclaims'[m] = reclaims[m] + 1
      BY <2>1, <1>a DEF Expired, TypeOK, Rows
    <3> QED
      BY <3>1, <1>a DEF Fate, Final, Grants, TypeOK
  <2>3. ASSUME NEW m \in Message, m \notin Expired(k)
        PROVE  Fate(m)' = Fate(m) /\ Grants(m)' = Grants(m)
    BY <2>1, <2>3 DEF Fate, Final, Grants
  <2>4. Expired(k) \in SUBSET Message
    BY DEF Expired
  <2>5. Promise!Regrant(Expired(k))
    BY <2>1, <2>2, <2>3, <2>4 DEF Promise!Regrant
  <2> QED
    BY <2>4, <2>5 DEF Promise!Next
<1>5. ASSUME NEW k \in Call, ClaimAndAnswer(k)
      PROVE  UNCHANGED Promise!vars
  <2>1. UNCHANGED <<sms, reclaims>>
    BY <1>5 DEF ClaimAndAnswer, history
  <2>2. \A m \in Message :
          row'[m] = IF m \in call[k].rows /\ row[m].status = "QUEUED"
                    THEN [row[m] EXCEPT !.status = "SENDING", !.old = FALSE]
                    ELSE row[m]
    BY <1>5 DEF ClaimAndAnswer
  <2>3. \A m \in Message :
          \/ row'[m].status = row[m].status
          \/ row[m].status = "QUEUED" /\ row'[m].status = "SENDING"
    BY <2>2, <1>a DEF TypeOK, Rows
  <2> QED
    BY <2>1, <2>3, PromiseStutter
<1>6. ASSUME NEW k \in Call, UpdateRow(k)
      PROVE  Promise!Next
  <2>0. PICK n \in Message : n = call[k].item
    BY <1>6, <1>a DEF UpdateRow, CallsOK
  <2>1. /\ UNCHANGED <<sms, reclaims>>
        /\ row[n].status # "NONE"
    BY <1>6, <1>a, <2>0 DEF UpdateRow, RowsKnown, RowOf
  <2>2. /\ row'[n].status = Outcome(k)
        /\ \A l \in Message : l # n => row'[l] = row[l]
    BY <1>6, <1>a, <2>0 DEF UpdateRow, TypeOK, Rows
  <2>3. Outcome(k) \in {"SENT", "FAILED"}
        /\ (Outcome(k) = "SENT" => sms[n] > 0)
    BY <1>a, <2>0 DEF Outcome, SuccessOK
  <2>4. Fate(n) # "none" /\ Fate(n)' = Outcome(k) /\ Grants(n)' = Grants(n)
    BY <2>1, <2>2, <2>3, <1>a DEF Fate, Grants, Final, TypeOK, Rows,
                                  MessageStatus
  <2>5. \A l \in Message : l # n => Fate(l)' = Fate(l) /\ Grants(l)' = Grants(l)
    BY <2>1, <2>2 DEF Fate, Final, Grants
  <2>6. Promise!Decide(n, Outcome(k))
    <3>1. [m \in Message |-> Fate(m)]'
            = [[m \in Message |-> Fate(m)] EXCEPT ![n] = Outcome(k)]
      BY <2>1, <2>4, <2>5
    <3>2. [m \in Message |-> Grants(m)]' = [m \in Message |-> Grants(m)]
      BY <2>4, <2>5
    <3> QED
      BY <2>1, <2>3, <2>4, <3>1, <3>2 DEF Promise!Decide
  <2> QED
    BY <2>1, <2>3, <2>6 DEF Promise!Next
<1>7. ASSUME NEW c \in Client, NEW n \in Message, SendSms(c, n)
      PROVE  [Promise!Next]_(Promise!vars)
  <2>1. PICK sent \in SUBSET {n} :
          sms' = [sms EXCEPT ![n] = IF n \in sent THEN @ + 1 ELSE @]
    BY <1>7 DEF SendSms
  <2>2. n \in loop[c].hand /\ UNCHANGED <<row, reclaims>>
    BY <1>7 DEF SendSms
  <2>3. \A m \in Message : Fate(m)' = Fate(m) /\ Grants(m)' = Grants(m)
    BY <2>2 DEF Fate, Final, Grants
  <2>4. CASE n \in sent
    <3>1. sms[n] < Grants(n)
      <4>1. Held(n)
        BY <2>2 DEF Held
      <4>2. sms[n] \in Nat /\ Grants(n) \in Nat
        BY <1>a DEF Grants, TypeOK
      <4> QED
        BY <4>1, <4>2 DEF WithinGrants
    <3>2. Promise!Transmit(n)
      BY <2>1, <2>3, <2>4, <3>1 DEF Promise!Transmit
    <3> QED
      BY <3>2 DEF Promise!Next
  <2>5. CASE n \notin sent
    <3>1. sms' = sms
      BY <2>1, <2>5, <1>a DEF TypeOK
    <3> QED
      BY <2>2, <3>1, PromiseStutter
  <2> QED
    BY <2>4, <2>5
<1> QED
  BY <1>1, <1>2, <1>3, <1>4, <1>5, <1>6, <1>7, QuietOrLoud
  DEF Quiet, Loud, CreateMessage, SaveResult, UpdateMessage, SendStep, history

(* With one polling loop per phone the gateway implements Delivery.        *)
THEOREM Implements ==
  ASSUME OneLoopPerPhone
  PROVE  Spec => KeepsPromise
<1>1. Inv /\ WithinGrants /\ NotYetReclaimed /\ [Next]_vars
        => [Promise!Next]_(Promise!vars)
  BY PromiseStep
<1> QED
  BY <1>1, PromiseInit, Consistent, WithinGrantsAlways, NotYetReclaimedAlways,
     PTL DEF Spec, KeepsPromise, Promise!Spec
=============================================================================
