------------------------------ MODULE Devices ------------------------------
(***************************************************************************)
(* The life of an SMS gateway device as apps/api/.../devices.service.ts    *)
(* keeps it in the Device table: registration, heartbeats, staleness and   *)
(* the dashboard's disable and enable.                                     *)
(*                                                                         *)
(* A heartbeat request reads the device, decides, and writes it in a       *)
(* second database call; the API runs in several replicas and other        *)
(* requests may run between the two.  Every other operation is one         *)
(* statement that decides and writes at once.                              *)
(*                                                                         *)
(* Time is abstract: lastHeartbeatAt is "never" (null), "fresh" (younger   *)
(* than HEARTBEAT_STALE_MS) or "stale", and HeartbeatAges may turn a fresh *)
(* heartbeat stale at any moment.                                          *)
(***************************************************************************)
EXTENDS Naturals

CONSTANTS
    Device,     \* the devices of one project
    Client      \* callers of the heartbeat endpoint, at most one heartbeat
                \* request of each in flight

VARIABLES
    status,     \* Device.status; "ABSENT" before the row is created
    beat,       \* age class of Device.lastHeartbeatAt
    hb          \* hb[c]: the device whose heartbeat c's request is about to
                \* write (it has passed the DISABLED check), or NoDevice

NoDevice == "none"

ASSUME NoDeviceAssumption == NoDevice \notin Device

deviceVars == <<status, beat, hb>>

DeviceStatus == {"ABSENT", "PENDING", "ONLINE", "OFFLINE", "DISABLED"}

DevicesTypeOK ==
    /\ status \in [Device -> DeviceStatus]
    /\ beat \in [Device -> {"never", "fresh", "stale"}]
    /\ hb \in [Client -> Device \cup {NoDevice}]

DevicesInit ==
    /\ status = [d \in Device |-> "ABSENT"]
    /\ beat = [d \in Device |-> "never"]
    /\ hb = [c \in Client |-> NoDevice]

-----------------------------------------------------------------------------
(* Both ways a device comes to exist, register and the tail of             *)
(* pairWithCode, create it PENDING with no heartbeat.                      *)
Register(d) ==
    /\ status[d] = "ABSENT"
    /\ status' = [status EXCEPT ![d] = "PENDING"]
    /\ UNCHANGED <<beat, hb>>

(* A device token is accepted by the auth guard: the device exists and is  *)
(* not DISABLED.                                                           *)
Authenticated(d) == status[d] \notin {"ABSENT", "DISABLED"}

(* The guard's read and the handler's own read of the device; the second   *)
(* decides, and it is the one modelled.  A DISABLED device is answered     *)
(* 401 or 403 and nothing changes.                                         *)
HeartbeatRead(c, d) ==
    /\ hb[c] = NoDevice
    /\ Authenticated(d)
    /\ hb' = [hb EXCEPT ![c] = d]
    /\ UNCHANGED <<status, beat>>

(* A variant with a bug: only the first heartbeat changes the status.      *)
FirstBeatOnly(c) ==
    /\ hb[c] # NoDevice
    /\ status' = [status EXCEPT ![hb[c]] = IF @ = "PENDING" THEN "ONLINE" ELSE @]
    /\ beat' = [beat EXCEPT ![hb[c]] = "fresh"]
    /\ hb' = [hb EXCEPT ![c] = NoDevice]

(* The write has no condition on the status read before.                   *)
HeartbeatWrite(c) ==
    /\ hb[c] # NoDevice
    /\ status' = [status EXCEPT ![hb[c]] = "ONLINE"]
    /\ beat' = [beat EXCEPT ![hb[c]] = "fresh"]
    /\ hb' = [hb EXCEPT ![c] = NoDevice]

(* The API replica dies between the read and the write.                    *)
HeartbeatDies(c) ==
    /\ hb[c] # NoDevice
    /\ hb' = [hb EXCEPT ![c] = NoDevice]
    /\ UNCHANGED <<status, beat>>

(* Two minutes pass with no heartbeat from d.                              *)
HeartbeatAges(d) ==
    /\ beat[d] = "fresh"
    /\ beat' = [beat EXCEPT ![d] = "stale"]
    /\ UNCHANGED <<status, hb>>

(* A variant with a bug: only devices without any heartbeat are marked.    *)
MarkSilentOnly ==
    /\ status' = [d \in Device |->
                    IF status[d] = "ONLINE" /\ beat[d] = "never"
                    THEN "OFFLINE" ELSE status[d]]
    /\ UNCHANGED <<beat, hb>>

(* One updateMany over all devices, run by the worker every 30 seconds and *)
(* by the status, list and admin endpoints before they answer.             *)
MarkStale ==
    /\ status' = [d \in Device |->
                    IF status[d] = "ONLINE" /\ beat[d] # "fresh"
                    THEN "OFFLINE" ELSE status[d]]
    /\ UNCHANGED <<beat, hb>>

(* Variants with a bug: enabling goes to ONLINE, or to a status that does   *)
(* not exist.                                                              *)
EnableGoesOnline(d, disabled) ==
    /\ status[d] # "ABSENT"
    /\ status' = [status EXCEPT ![d] = IF disabled THEN "DISABLED"
                                                   ELSE "ONLINE"]
    /\ UNCHANGED <<beat, hb>>

EnableMeansEnabled(d, disabled) ==
    /\ status[d] # "ABSENT"
    /\ status' = [status EXCEPT ![d] = IF disabled THEN "DISABLED"
                                                   ELSE "ENABLED"]
    /\ UNCHANGED <<beat, hb>>

SetDisabled(d, disabled) ==
    /\ status[d] # "ABSENT"
    /\ status' = [status EXCEPT ![d] = IF disabled THEN "DISABLED"
                                                   ELSE "OFFLINE"]
    /\ UNCHANGED <<beat, hb>>

DevicesNext ==
    \/ \E d \in Device : Register(d)
    \/ \E c \in Client, d \in Device : HeartbeatRead(c, d)
    \/ \E c \in Client : HeartbeatWrite(c)
    \/ \E c \in Client : HeartbeatDies(c)
    \/ \E d \in Device : HeartbeatAges(d)
    \/ MarkStale
    \/ \E d \in Device, disabled \in BOOLEAN : SetDisabled(d, disabled)

(* The interval timer of the worker keeps marking stale devices, and a     *)
(* request that is being served is served to its end.                      *)
DevicesSpec ==
    /\ DevicesInit
    /\ [][DevicesNext]_deviceVars
    /\ WF_deviceVars(MarkStale)
    /\ \A c \in Client : WF_deviceVars(HeartbeatWrite(c))

(* The device routing may pick: findFirst of the android gateway adapter.  *)
Online(d) == status[d] = "ONLINE" /\ beat[d] = "fresh"

-----------------------------------------------------------------------------
(* "Disable / enable a device from the dashboard": a DISABLED device comes  *)
(* back by being enabled, never straight to ONLINE.                         *)
DisableHolds ==
    [][\A d \in Device : status[d] = "DISABLED" => status'[d] # "ONLINE"]_status

(* A device whose heartbeat has gone stale does not stay ONLINE: it is     *)
(* marked OFFLINE, heartbeats again, or is disabled.                       *)
StaleGoesOffline ==
    \A d \in Device :
        (status[d] = "ONLINE" /\ beat[d] = "stale")
            ~> (status[d] # "ONLINE" \/ beat[d] = "fresh")
=============================================================================
