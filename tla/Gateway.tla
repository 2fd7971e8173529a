------------------------------ MODULE Gateway ------------------------------
(***************************************************************************)
(* Delivery of an SMS through an Android gateway phone: the send request   *)
(* of the messaging service, the outbox table between it and the phone,    *)
(* the outbox and report endpoints of the devices service, and the polling *)
(* loop of the phone app.  Extends Devices, whose device rows decide       *)
(* whether routing may pick a phone and whether its calls are accepted.    *)
(*                                                                         *)
(* Three kinds of process interleave between any two database statements:  *)
(* the send request of each message, the server side of each call from a   *)
(* phone, and each polling loop.  A loop that gives up on a call leaves    *)
(* the server side of it running, with nobody to take the answer.          *)
(*                                                                         *)
(* A message creates at most one outbox row, so rows are named by their    *)
(* message; messageId is set when row[m].linked.  Row order, phone numbers *)
(* and bodies are left out.  Wallet, usage and webhook work that follows   *)
(* the link does not touch this state.                                     *)
(***************************************************************************)
EXTENDS Devices, FiniteSets

CONSTANTS
    Message,    \* the messages a project sends
    Call,       \* slots for the server side of outbox and report requests
    PhoneOf,    \* PhoneOf[c]: the device whose token polling loop c uses
    Batch,      \* rows handed out by one outbox call: min(limit, 50)
    MaxAttempts,\* bound on attempts of a row that reclaiming tests
    MaxFaults   \* bound on lost calls, dead processes and operator commands

NoClient  == "none"
NoMessage == "none"

ASSUME PhoneAssumption == PhoneOf \in [Client -> Device]
ASSUME NoneAssumption  == NoClient \notin Client /\ NoMessage \notin Message
ASSUME BoundAssumption ==
    /\ Batch \in Nat \ {0} /\ MaxAttempts \in Nat \ {0} /\ MaxFaults \in Nat

VARIABLES
    message,    \* Message.status; "NONE" before the row is created
    send,       \* the send request of each message
    row,        \* the DeviceOutbox row of each message
    call,       \* the server side of outbox and report calls
    loop,       \* the polling loops of the phone app
    faults,     \* lost calls, dead processes and operator commands so far
    sms,        \* history: times the phone gave the message to the radio
    reclaims,   \* history: times the row went back from SENDING to QUEUED
    missed      \* history: a report on the row could not reach the message

sendVars == <<message, send>>
callVars == <<call, loop>>
history  == <<sms, reclaims, missed>>
vars == <<deviceVars, message, send, row, call, loop, faults, history>>

MessageStatus == {"NONE", "QUEUED", "SENDING", "SENT", "FAILED"}
Final == {"SENT", "FAILED"}

Sends == [at : {"new", "route", "device", "row", "save", "link", "done",
                "dead"},
          device : Device \cup {NoDevice},
          result : {"none", "queued", "failed"}]

Rows == [status : MessageStatus, device : Device \cup {NoDevice},
         linked : BOOLEAN, old : BOOLEAN, attempts : Nat]

Calls == [at : {"free", "reclaim", "read", "claim", "find", "row", "message"},
          client : Client \cup {NoClient}, live : BOOLEAN,
          rows : SUBSET Message, ok : SUBSET Message,
          item : Message \cup {NoMessage}, linked : BOOLEAN]

Loops == [at : {"idle", "beating", "pull", "pulling", "sending", "report",
                "reporting"},
          hand : SUBSET Message, done : SUBSET Message, ok : SUBSET Message]

TypeOK ==
    /\ DevicesTypeOK
    /\ message \in [Message -> MessageStatus]
    /\ send \in [Message -> Sends]
    /\ row \in [Message -> Rows]
    /\ call \in [Call -> Calls]
    /\ loop \in [Client -> Loops]
    /\ faults \in 0 .. MaxFaults
    /\ sms \in [Message -> Nat]
    /\ reclaims \in [Message -> Nat]
    /\ missed \in [Message -> BOOLEAN]

NoRow == [status |-> "NONE", device |-> NoDevice, linked |-> FALSE,
          old |-> FALSE, attempts |-> 0]
FreeCall == [at |-> "free", client |-> NoClient, live |-> FALSE, rows |-> {},
             ok |-> {}, item |-> NoMessage, linked |-> FALSE]
IdleLoop == [at |-> "idle", hand |-> {}, done |-> {}, ok |-> {}]

Init ==
    /\ DevicesInit
    /\ message = [m \in Message |-> "NONE"]
    /\ send = [m \in Message |->
                 [at |-> "new", device |-> NoDevice, result |-> "none"]]
    /\ row = [m \in Message |-> NoRow]
    /\ call = [k \in Call |-> FreeCall]
    /\ loop = [c \in Client |-> IdleLoop]
    /\ faults = 0
    /\ sms = [m \in Message |-> 0]
    /\ reclaims = [m \in Message |-> 0]
    /\ missed = [m \in Message |-> FALSE]

Fault == faults < MaxFaults /\ faults' = faults + 1

-----------------------------------------------------------------------------
(* The send request of message m: MessagingService.send.                   *)

SendStep(m, from, to) ==
    /\ send[m].at = from
    /\ send' = [send EXCEPT ![m] = to]
    /\ UNCHANGED <<deviceVars, callVars, faults, history>>

CreateMessage(m) ==
    /\ SendStep(m, "new", [send[m] EXCEPT !.at = "route"])
    /\ message' = [message EXCEPT ![m] = "QUEUED"]
    /\ UNCHANGED row

(* selectSmsRoute: the gateway is chosen only when its health check sees a *)
(* device online; a carrier accepts or refuses at once; no provider at all *)
(* is answered like a refusal.                                             *)
RouteToGateway(m) ==
    /\ \E d \in Device : Online(d)
    /\ SendStep(m, "route", [send[m] EXCEPT !.at = "device"])
    /\ UNCHANGED <<message, row>>

RouteElsewhere(m) ==
    /\ \E result \in {"queued", "failed"} :
         SendStep(m, "route", [send[m] EXCEPT !.at = "save",
                                              !.result = result])
    /\ UNCHANGED <<message, row>>

(* The adapter looks for the device again.  If it went away since the      *)
(* health check the send fails; no other provider is tried.                *)
PickDevice(m) ==
    /\ \E d \in Device :
         /\ Online(d)
         /\ SendStep(m, "device", [send[m] EXCEPT !.at = "row", !.device = d])
    /\ UNCHANGED <<message, row>>

NoOnlineDevice(m) ==
    /\ \A d \in Device : ~ Online(d)
    /\ SendStep(m, "device", [send[m] EXCEPT !.at = "save",
                                             !.result = "failed"])
    /\ UNCHANGED <<message, row>>

(* A variant with a bug: the row is linked to its message from the start.  *)
CreateLinkedRow(m) ==
    /\ SendStep(m, "row", [send[m] EXCEPT !.at = "save", !.result = "queued"])
    /\ row' = [row EXCEPT ![m] = [NoRow EXCEPT !.status = "QUEUED",
                                               !.linked = TRUE,
                                               !.device = send[m].device]]
    /\ UNCHANGED message

CreateRow(m) ==
    /\ SendStep(m, "row", [send[m] EXCEPT !.at = "save", !.result = "queued"])
    /\ row' = [row EXCEPT ![m] = [NoRow EXCEPT !.status = "QUEUED",
                                               !.device = send[m].device]]
    /\ UNCHANGED message

(* A variant with a bug: an accepted message is saved as SENT.             *)
SaveAsSent(m) ==
    /\ SendStep(m, "save",
                [send[m] EXCEPT !.at = IF row[m].status = "NONE"
                                       THEN "done" ELSE "link"])
    /\ message' = [message EXCEPT ![m] = IF send[m].result = "failed"
                                         THEN "FAILED" ELSE "SENT"]
    /\ UNCHANGED row

SaveResult(m) ==
    /\ SendStep(m, "save",
                [send[m] EXCEPT !.at = IF row[m].status = "NONE"
                                       THEN "done" ELSE "link"])
    /\ message' = [message EXCEPT ![m] = IF send[m].result = "failed"
                                         THEN "FAILED" ELSE "SENDING"]
    /\ UNCHANGED row

(* Any write of the row renews its updatedAt. *)
LinkRow(m) ==
    /\ SendStep(m, "link", [send[m] EXCEPT !.at = "done"])
    /\ row' = [row EXCEPT ![m].linked = TRUE, ![m].old = FALSE]
    /\ UNCHANGED message

(* The API replica dies, or a statement or the carrier's answer throws.    *)
SendDies(m) ==
    /\ send[m].at \notin {"new", "done", "dead"}
    /\ Fault
    /\ send' = [send EXCEPT ![m].at = "dead"]
    /\ UNCHANGED <<deviceVars, message, row, callVars, history>>

-----------------------------------------------------------------------------
(* The server side of an outbox call: DevicesService.pullOutbox.           *)

DeviceOf(k) == PhoneOf[call[k].client]

(* Variants with a bug: failed rows are handed out again, or only rows with *)
(* a counted attempt are.                                                  *)
ExpiredOrFailed(k) == {m \in Message : /\ row[m].device = DeviceOf(k)
                                       /\ row[m].status \in {"SENDING", "FAILED"}
                                       /\ row[m].old \/ row[m].status = "FAILED"
                                       /\ row[m].attempts < MaxAttempts}

ExpiredAttempts(k) == {m \in Message : /\ row[m].device = DeviceOf(k)
                                       /\ row[m].status = "SENDING"
                                       /\ row[m].old
                                       /\ row[m].attempts \in 1 .. MaxAttempts - 1}

Expired(k) == {m \in Message : /\ row[m].device = DeviceOf(k)
                               /\ row[m].status = "SENDING"
                               /\ row[m].old
                               /\ row[m].attempts < MaxAttempts}

Reclaim(k) ==
    /\ call[k].at = "reclaim"
    /\ row' = [m \in Message |->
                 IF m \in Expired(k)
                 THEN [row[m] EXCEPT !.status = "QUEUED", !.old = FALSE]
                 ELSE row[m]]
    /\ reclaims' = [m \in Message |->
                      IF m \in Expired(k) THEN reclaims[m] + 1 ELSE reclaims[m]]
    /\ call' = [call EXCEPT ![k].at = "read"]
    /\ UNCHANGED <<deviceVars, sendVars, loop, faults, sms, missed>>

Queued(k) == {m \in Message : /\ row[m].device = DeviceOf(k)
                              /\ row[m].status = "QUEUED"}

ReadQueued(k) ==
    /\ call[k].at = "read"
    /\ \E S \in SUBSET Queued(k) :
         /\ Cardinality(S) <= Batch
         /\ S # Queued(k) => Cardinality(S) = Batch
         /\ call' = [call EXCEPT ![k].at = "claim", ![k].rows = S]
    /\ UNCHANGED <<deviceVars, sendVars, row, loop, faults, history>>

(* Variants with a bug: the rows are handed out without claiming them, or  *)
(* the claim counts an attempt.                                            *)
AnswerWithoutClaim(k) ==
    /\ call[k].at = "claim"
    /\ loop' = IF ~ call[k].live THEN loop
               ELSE [loop EXCEPT ![call[k].client] =
                       IF call[k].rows = {} THEN IdleLoop
                       ELSE [IdleLoop EXCEPT !.at = "sending",
                                             !.hand = call[k].rows]]
    /\ call' = [call EXCEPT ![k] = FreeCall]
    /\ UNCHANGED <<deviceVars, sendVars, row, faults, history>>

ClaimCountsAttempt(k) ==
    /\ call[k].at = "claim"
    /\ row' = [m \in Message |->
                 IF m \in call[k].rows /\ row[m].status = "QUEUED"
                 THEN [row[m] EXCEPT !.status = "SENDING", !.old = FALSE,
                                     !.attempts = @ + 1]
                 ELSE row[m]]
    /\ loop' = IF ~ call[k].live THEN loop
               ELSE [loop EXCEPT ![call[k].client] =
                       IF call[k].rows = {} THEN IdleLoop
                       ELSE [IdleLoop EXCEPT !.at = "sending",
                                             !.hand = call[k].rows]]
    /\ call' = [call EXCEPT ![k] = FreeCall]
    /\ UNCHANGED <<deviceVars, sendVars, faults, history>>

(* The claim updates those of the rows read that are still QUEUED; the     *)
(* answer holds all the rows read.  A loop still waiting goes on with it.  *)
ClaimAndAnswer(k) ==
    /\ call[k].at = "claim"
    /\ row' = [m \in Message |->
                 IF m \in call[k].rows /\ row[m].status = "QUEUED"
                 THEN [row[m] EXCEPT !.status = "SENDING", !.old = FALSE]
                 ELSE row[m]]
    /\ loop' = IF ~ call[k].live THEN loop
               ELSE [loop EXCEPT ![call[k].client] =
                       IF call[k].rows = {} THEN IdleLoop
                       ELSE [IdleLoop EXCEPT !.at = "sending",
                                             !.hand = call[k].rows]]
    /\ call' = [call EXCEPT ![k] = FreeCall]
    /\ UNCHANGED <<deviceVars, sendVars, faults, history>>

-----------------------------------------------------------------------------
(* The server side of a report call: DevicesService.reportSend, one item   *)
(* after the other, three statements each.                                 *)

FindRow(k) ==
    /\ call[k].at = "find"
    /\ \E m \in call[k].rows :
         /\ call' = [call EXCEPT ![k].at = "row", ![k].item = m,
                                 ![k].rows = @ \ {m},
                                 ![k].linked = row[m].linked]
    /\ UNCHANGED <<deviceVars, sendVars, row, loop, faults, history>>

(* A variant with a bug: a success is recorded as a delivery.              *)
OutcomeDelivered(k) == IF call[k].item \in call[k].ok THEN "DELIVERED"
                       ELSE "FAILED"

Outcome(k) == IF call[k].item \in call[k].ok THEN "SENT" ELSE "FAILED"

(* A variant with a bug: only successes are passed on to the message.      *)
UpdateRowPassSuccess(k) ==
    /\ call[k].at = "row"
    /\ LET r == row[call[k].item]
       IN  row' = [row EXCEPT ![call[k].item] =
                     [r EXCEPT !.status = Outcome(k), !.old = FALSE,
                               !.attempts = r.attempts + 1]]
    /\ call' = [call EXCEPT ![k].at =
                   IF call[k].linked /\ Outcome(k) = "SENT" THEN "message"
                                                            ELSE "find"]
    /\ missed' = [missed EXCEPT ![call[k].item] = @ \/ ~ call[k].linked]
    /\ UNCHANGED <<deviceVars, sendVars, loop, faults, sms, reclaims>>

UpdateRow(k) ==
    /\ call[k].at = "row"
    /\ LET r == row[call[k].item]
       IN  row' = [row EXCEPT ![call[k].item] =
                     [r EXCEPT !.status = Outcome(k), !.old = FALSE,
                               !.attempts = r.attempts + 1]]
    /\ call' = [call EXCEPT ![k].at = IF call[k].linked THEN "message"
                                      ELSE "find"]
    /\ missed' = [missed EXCEPT ![call[k].item] = @ \/ ~ call[k].linked]
    /\ UNCHANGED <<deviceVars, sendVars, loop, faults, sms, reclaims>>

UpdateMessage(k) ==
    /\ call[k].at = "message"
    /\ message' = [message EXCEPT ![call[k].item] = Outcome(k)]
    /\ call' = [call EXCEPT ![k].at = "find"]
    /\ UNCHANGED <<deviceVars, send, row, loop, faults, history>>

ReportAnswer(k) ==
    /\ call[k].at = "find" /\ call[k].rows = {}
    /\ loop' = IF call[k].live
               THEN [loop EXCEPT ![call[k].client] = IdleLoop] ELSE loop
    /\ call' = [call EXCEPT ![k] = FreeCall]
    /\ UNCHANGED <<deviceVars, sendVars, row, faults, history>>

(* The API replica dies; a loop waiting for the answer gets an error.      *)
CallDies(k) ==
    /\ call[k].at # "free"
    /\ Fault
    /\ missed' = [m \in Message |->
                    missed[m] \/ (call[k].at = "message" /\ m = call[k].item)]
    /\ loop' = IF call[k].live
               THEN [loop EXCEPT ![call[k].client] = IdleLoop] ELSE loop
    /\ call' = [call EXCEPT ![k] = FreeCall]
    /\ UNCHANGED <<deviceVars, sendVars, row, sms, reclaims>>

-----------------------------------------------------------------------------
(* The polling loop of the app: GatewayForegroundService.loop.             *)

Beat(c) ==
    /\ loop[c].at = "idle"
    /\ HeartbeatRead(c, PhoneOf[c])
    /\ loop' = [loop EXCEPT ![c].at = "beating"]
    /\ UNCHANGED <<sendVars, row, call, faults, history>>

BeatWritten(c) ==
    /\ HeartbeatWrite(c)
    /\ loop' = IF loop[c].at = "beating"
               THEN [loop EXCEPT ![c].at = "pull"] ELSE loop
    /\ UNCHANGED <<sendVars, row, call, faults, history>>

BeatDies(c) ==
    /\ HeartbeatDies(c)
    /\ Fault
    /\ loop' = IF loop[c].at = "beating"
               THEN [loop EXCEPT ![c] = IdleLoop] ELSE loop
    /\ UNCHANGED <<sendVars, row, call, history>>

Pull(c, k) ==
    /\ loop[c].at = "pull" /\ call[k].at = "free"
    /\ Authenticated(PhoneOf[c])
    /\ call' = [call EXCEPT ![k] = [FreeCall EXCEPT !.at = "reclaim",
                                      !.client = c, !.live = TRUE]]
    /\ loop' = [loop EXCEPT ![c].at = "pulling"]
    /\ UNCHANGED <<deviceVars, sendVars, row, faults, history>>

(* SmsManager takes the message or throws; it reports nothing later.       *)
SendSms(c, m) ==
    /\ loop[c].at = "sending" /\ m \in loop[c].hand
    /\ \E sent \in SUBSET {m} :
         /\ loop' = [loop EXCEPT ![c] =
                       [at   |-> IF loop[c].hand = {m} THEN "report"
                                                       ELSE "sending",
                        hand |-> loop[c].hand \ {m},
                        done |-> loop[c].done \cup {m},
                        ok   |-> loop[c].ok \cup sent]]
         /\ sms' = [sms EXCEPT ![m] = IF m \in sent THEN @ + 1 ELSE @]
    /\ UNCHANGED <<deviceVars, sendVars, row, call, faults, reclaims, missed>>

Report(c, k) ==
    /\ loop[c].at = "report" /\ call[k].at = "free"
    /\ Authenticated(PhoneOf[c])
    /\ call' = [call EXCEPT ![k] = [FreeCall EXCEPT !.at = "find",
                                      !.client = c, !.live = TRUE,
                                      !.rows = loop[c].done,
                                      !.ok = loop[c].ok]]
    /\ loop' = [loop EXCEPT ![c].at = "reporting"]
    /\ UNCHANGED <<deviceVars, sendVars, row, faults, history>>

(* The auth guard refuses the call of a DISABLED device; the iteration is  *)
(* over and a report that was due is dropped.                              *)
Refused(c) ==
    /\ loop[c].at \in {"pull", "report"}
    /\ ~ Authenticated(PhoneOf[c])
    /\ loop' = [loop EXCEPT ![c] = IdleLoop]
    /\ UNCHANGED <<deviceVars, sendVars, row, call, faults, history>>

Abandon(c) ==
    call' = [k \in Call |-> IF call[k].client = c
                            THEN [call[k] EXCEPT !.live = FALSE] ELSE call[k]]

(* A call times out or the connection breaks, or the app is killed: the    *)
(* iteration is over and what it had in hand is forgotten.                 *)
LoopResets(c) ==
    /\ loop[c].at # "idle"
    /\ Fault
    /\ loop' = [loop EXCEPT ![c] = IdleLoop]
    /\ Abandon(c)
    /\ UNCHANGED <<deviceVars, sendVars, row, history>>

(* The HTTP client repeats a call on a new connection when the one it used *)
(* breaks.                                                                 *)
Retransmits(c) ==
    /\ loop[c].at \in {"pulling", "reporting"}
    /\ Fault
    /\ loop' = [loop EXCEPT ![c].at = IF @ = "pulling" THEN "pull"
                                      ELSE "report"]
    /\ Abandon(c)
    /\ UNCHANGED <<deviceVars, sendVars, row, history>>

(* Two minutes pass with no write to a SENDING row.                        *)
RowAges(m) ==
    /\ row[m].status = "SENDING" /\ ~ row[m].old
    /\ row' = [row EXCEPT ![m].old = TRUE]
    /\ UNCHANGED <<deviceVars, sendVars, callVars, faults, history>>

-----------------------------------------------------------------------------
SendNext(m) ==
    \/ CreateMessage(m)
    \/ RouteToGateway(m) \/ RouteElsewhere(m)
    \/ PickDevice(m) \/ NoOnlineDevice(m)
    \/ CreateRow(m) \/ SaveResult(m) \/ LinkRow(m)

CallNext(k) ==
    \/ Reclaim(k) \/ ReadQueued(k) \/ ClaimAndAnswer(k)
    \/ FindRow(k) \/ UpdateRow(k) \/ UpdateMessage(k) \/ ReportAnswer(k)

LoopNext(c) ==
    \/ Beat(c) \/ Refused(c)
    \/ \E k \in Call : Pull(c, k) \/ Report(c, k)
    \/ \E m \in Message : SendSms(c, m)

FaultNext ==
    \/ \E m \in Message : SendDies(m)
    \/ \E k \in Call : CallDies(k)
    \/ \E c \in Client : BeatDies(c) \/ LoopResets(c) \/ Retransmits(c)

DeviceNext ==
    /\ \/ /\ \/ \E d \in Device : Register(d) \/ HeartbeatAges(d)
             \/ MarkStale
          /\ UNCHANGED faults
       \/ /\ \E d \in Device, disabled \in BOOLEAN : SetDisabled(d, disabled)
          /\ Fault
    /\ UNCHANGED <<sendVars, row, callVars, history>>

Next ==
    \/ \E m \in Message : SendNext(m)
    \/ \E k \in Call : CallNext(k)
    \/ \E c \in Client : LoopNext(c)
    \/ \E c \in Client : BeatWritten(c)
    \/ \E m \in Message : RowAges(m)
    \/ FaultNext
    \/ DeviceNext

Spec == Init /\ [][Next]_vars

(* The app runs as a sticky foreground service and polls for ever; requests *)
(* that are being served are served to their end; time passes.              *)
Fairness ==
    /\ \A m \in Message : WF_vars(SendNext(m) /\ send[m].at # "new")
    /\ \A k \in Call : WF_vars(CallNext(k))
    /\ \A c \in Client : WF_vars(LoopNext(c)) /\ WF_vars(BeatWritten(c))
    /\ \A m \in Message : WF_vars(RowAges(m))

FairSpec == Spec /\ Fairness

-----------------------------------------------------------------------------
(* "Gateway queued SMS stay SENDING until the device reports success (not  *)
(* marked sent early)": neither the row nor the message says SENT before   *)
(* a phone has given the message to the radio.                             *)
NotSentEarly ==
    \A m \in Message :
        (row[m].status = "SENT" \/ message[m] = "SENT") => sms[m] > 0

(* Outbox rows are claimed to avoid sending twice: when a phone runs one   *)
(* polling loop, every send after the first follows a reclaim of the row,  *)
(* whatever calls were given up and still run on the server.               *)
OneSendPerClaim == \A m \in Message : sms[m] <= 1 + reclaims[m]

(* A row that may still be handed out has no counted attempt: attempts     *)
(* grows only in the report that closes the row, so the attempts limit of  *)
(* pullOutbox never keeps a row from being reclaimed.                      *)
OpenRowsUncounted ==
    \A m \in Message : row[m].status \in {"QUEUED", "SENDING"}
                          => row[m].attempts = 0

(* A message still undecided although the phone's report closed its row is *)
(* one whose report is being recorded, or ran ahead of the link from row   *)
(* to message, or died between the row and the message.                    *)
UndecidedIsExplained ==
    \A m \in Message :
        (row[m].status \in Final /\ message[m] \notin Final)
            => \/ missed[m]
               \/ \E k \in Call : call[k].at = "message" /\ call[k].item = m

(* The answer of send can never overwrite what a phone reported, and no    *)
(* late claim or reclaim reopens a row: SENT and FAILED are left only for  *)
(* each other, by a second report.                                         *)
DecidedStaysDecided ==
    [][\A m \in Message :
         /\ row[m].status \in Final => row[m].status' \in Final
         /\ message[m] \in Final => message[m]' \in Final]_vars

(* What holds between the processes at every step, and makes the safety    *)
(* properties above inductive.                                             *)

PullStates == {"reclaim", "read", "claim"}

(* At most one call of a loop has somebody waiting for it, and the loop is *)
(* at the place where it waits; a report only writes messages of rows it   *)
(* found linked.                                                           *)
CallsOK ==
    \A k \in Call :
        /\ call[k].at # "free" => call[k].client \in Client
        /\ call[k].at \in {"row", "message"} => call[k].item \in Message
        /\ call[k].at = "message" => call[k].linked
        /\ call[k].at \in {"row", "message"} /\ call[k].linked
             => row[call[k].item].linked
        /\ call[k].live
             => /\ call[k].at # "free"
                /\ loop[call[k].client].at =
                     IF call[k].at \in PullStates THEN "pulling"
                                                  ELSE "reporting"
        /\ \A j \in Call : (/\ call[j].live /\ call[k].live
                            /\ call[j].client = call[k].client) => j = k

LoopsOK == \A c \in Client : loop[c].at # "sending" => loop[c].hand = {}

(* What a phone or its calls handle are rows of that phone. *)
RowOf(m, d) == row[m].status # "NONE" /\ row[m].device = d

RowsKnown ==
    /\ \A k \in Call : \A m \in call[k].rows : RowOf(m, DeviceOf(k))
    /\ \A k \in Call : call[k].at \in {"row", "message"}
                         => RowOf(call[k].item, DeviceOf(k))
    /\ \A c \in Client : \A m \in loop[c].hand \cup loop[c].done :
                           RowOf(m, PhoneOf[c])

(* The send request owns the message until it has linked the row. *)
SendOK ==
    \A m \in Message :
        /\ send[m].at \in {"new", "route", "device", "row"}
             => row[m].status = "NONE"
        /\ send[m].at = "new" => message[m] = "NONE"
        /\ send[m].at \in {"route", "device", "row", "save"}
             => message[m] = "QUEUED"
        /\ row[m].linked => send[m].at = "done"

(* A success is recorded anywhere only after the send. *)
SuccessOK ==
    /\ \A k \in Call : \A m \in call[k].ok : sms[m] > 0
    /\ \A c \in Client : \A m \in loop[c].ok : sms[m] > 0

(* One send may still come from a row that waits, or was read for a loop   *)
(* still waiting, and one from a row in hand; with the sends made they     *)
(* stay within the grants.                                                 *)
Pending(m) ==
    \/ row[m].status = "QUEUED"
    \/ \E k \in Call : /\ call[k].live /\ call[k].at = "claim"
                       /\ m \in call[k].rows

Held(m) == \E c \in Client : m \in loop[c].hand

Grants(m) == IF row[m].status = "NONE" THEN 0 ELSE 1 + reclaims[m]

WithinGrants ==
    \A m \in Message :
        sms[m] + (IF Pending(m) THEN 1 ELSE 0) + (IF Held(m) THEN 1 ELSE 0)
            <= Grants(m)

(* The gateway keeps the promise of Delivery: the outbox row decides, each *)
(* row and each reclaim of it grants one send.  Like OneSendPerClaim, this *)
(* is claimed for phones that run one polling loop.                        *)
OneLoopPerPhone ==
    \A b, c \in Client : PhoneOf[b] = PhoneOf[c] => b = c

Fate(m) == IF row[m].status = "NONE" THEN "none"
           ELSE IF row[m].status \in Final THEN row[m].status ELSE "open"

Promise == INSTANCE Delivery WITH
    outcome <- [m \in Message |-> Fate(m)],
    grants <- [m \in Message |-> Grants(m)],
    sends <- sms

KeepsPromise == Promise!Spec

(* As long as its device is not disabled for good, every row that waits    *)
(* for a phone or is claimed by one is reported in the end, however calls  *)
(* were lost: reclaiming hands it out again.                               *)
EveryRowSettles ==
    (<>[](\A d \in Device : status[d] # "DISABLED"))
        => \A m \in Message : row[m].status \in {"QUEUED", "SENDING"}
                                ~> row[m].status \in Final

(* "Message status updates when the device reports success": once the      *)
(* report has been answered, a message whose row says SENT says so too.    *)
ReportReachesMessage ==
    \A m \in Message :
        (/\ row[m].status = "SENT"
         /\ send[m].at = "done"
         /\ \A k \in Call : call[k].item # m)
            => message[m] \in Final
=============================================================================
