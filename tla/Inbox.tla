------------------------------- MODULE Inbox -------------------------------
(***************************************************************************)
(* The SMS that gateway phones receive: the broadcast receiver of the app, *)
(* which uploads each in the background, once, whatever comes of it, and   *)
(* pushInbox of devices.service.ts.  Extends Devices: a device that has    *)
(* been disabled is refused by the guard.                                  *)
(***************************************************************************)
EXTENDS Devices

CONSTANTS
    Sms,        \* the SMS that arrive
    MaxAgain    \* bound: times the HTTP client repeats the call for an SMS

ASSUME MaxAgainAssumption == MaxAgain \in Nat

VARIABLES
    upload,     \* upload[s]: the call that uploads s
    inbox,      \* inbox[s]: how many DeviceInbox rows s has, each with the
                \* INBOUND Message of the same transaction
    barred      \* history: devices that were ever disabled

inboxVars == <<upload, inbox, barred>>

Uploads == [at : {"none", "sent", "stored", "over"}, by : Device \cup {NoDevice},
            cut : BOOLEAN, again : 0..MaxAgain]

InboxTypeOK ==
    /\ upload \in [Sms -> Uploads]
    /\ inbox \in [Sms -> 0..(MaxAgain + 1)]
    /\ barred \subseteq Device

NoUpload == [at |-> "none", by |-> NoDevice, cut |-> FALSE, again |-> 0]

InboxInit ==
    /\ upload = [s \in Sms |-> NoUpload]
    /\ inbox = [s \in Sms |-> 0]
    /\ barred = {}

(* SmsReceiver.onReceive.  A phone that holds no token drops the SMS.      *)
Receive(s, d) ==
    /\ upload[s].at = "none"
    /\ d # NoDevice => status[d] # "ABSENT"
    /\ upload' = [upload EXCEPT ![s].at = IF d = NoDevice THEN "over" ELSE "sent",
                                ![s].by = d]
    /\ UNCHANGED <<deviceVars, inbox, barred>>

(* A variant with a bug: a device that is not ONLINE is refused as well.   *)
StoreIfOnline(s) ==
    LET served == status[upload[s].by] = "ONLINE"
    IN  /\ upload[s].at = "sent"
        /\ inbox' = IF served THEN [inbox EXCEPT ![s] = @ + 1] ELSE inbox
        /\ upload' = [upload EXCEPT ![s].at = IF served THEN "stored" ELSE "over"]
        /\ UNCHANGED <<deviceVars, barred>>

(* The guard lets the token of a device through that is not disabled, and  *)
(* pushInbox stores what it is sent: a repeated call stores it again.      *)
Store(s) ==
    LET served == Authenticated(upload[s].by)
    IN  /\ upload[s].at = "sent"
        /\ inbox' = IF served THEN [inbox EXCEPT ![s] = @ + 1] ELSE inbox
        /\ upload' = [upload EXCEPT ![s].at = IF served THEN "stored" ELSE "over"]
        /\ UNCHANGED <<deviceVars, barred>>

(* The answer arrives; or is lost, which makes no difference to the app.   *)
UploadEnds(s) ==
    /\ upload[s].at = "stored"
    /\ upload' = [upload EXCEPT ![s].at = "over"]
    /\ UNCHANGED <<deviceVars, inbox, barred>>

(* The call never arrives, the replica dies before the commit, or the app  *)
(* is ended: runCatching drops the error, and with it the SMS.             *)
UploadLost(s) ==
    /\ upload[s].at = "sent"
    /\ upload' = [upload EXCEPT ![s].at = "over", ![s].cut = TRUE]
    /\ UNCHANGED <<deviceVars, inbox, barred>>

(* The connection breaks after the commit, and the client sends again.     *)
UploadAgain(s) ==
    /\ upload[s].at = "stored"
    /\ upload[s].again < MaxAgain
    /\ upload' = [upload EXCEPT ![s].at = "sent", ![s].again = @ + 1]
    /\ UNCHANGED <<deviceVars, inbox, barred>>

InboxNext ==
    \E s \in Sms :
        \/ \E d \in Device \cup {NoDevice} : Receive(s, d)
        \/ Store(s) \/ UploadEnds(s) \/ UploadLost(s) \/ UploadAgain(s)

-----------------------------------------------------------------------------
(* What became of an SMS whose upload is over: a row for each time it was  *)
(* sent, unless the phone held no token, a call was cut, or the device had *)
(* been disabled.  One SMS can have two rows, and nobody can tell.         *)
InboxIsExplained ==
    \A s \in Sms :
        LET u == upload[s]
        IN  /\ inbox[s] <= u.again + 1
            /\ (u.at = "over" /\ inbox[s] <= u.again)
                 => u.by = NoDevice \/ u.cut \/ u.by \in barred
=============================================================================
