------------------------------ MODULE Traffic ------------------------------
(***************************************************************************)
(* SMS in both directions over the same devices: the router sends through  *)
(* those that are ONLINE, the inbox takes what those that are not DISABLED *)
(* receive, and the devices change under both.                             *)
(***************************************************************************)
EXTENDS Router, Inbox

trafficVars == <<deviceVars, routerVars, inboxVars>>

TrafficTypeOK == DevicesTypeOK /\ RouterTypeOK /\ InboxTypeOK

TrafficInit == DevicesInit /\ RouterInit /\ InboxInit

(* A device step, with what both histories note of it.                     *)
DeviceStep ==
    /\ DevicesMove
    /\ barred' = barred \cup {d \in Device : status'[d] = "DISABLED"}
    /\ UNCHANGED <<upload, inbox>>

TrafficNext ==
    \/ DeviceStep
    \/ RouterNext /\ UNCHANGED inboxVars
    \/ InboxNext /\ UNCHANGED routerVars

TrafficSpec == TrafficInit /\ [][TrafficNext]_trafficVars
=============================================================================
