--------------------------- MODULE TrafficProofs ---------------------------
(***************************************************************************)
(* SMS in both directions, for any devices, tables of routes, providers    *)
(* and SMS: the types, that the choice of a provider can be explained by   *)
(* what was usable when, and what became of every SMS a phone received.    *)
(***************************************************************************)
EXTENDS Traffic, TLAPS

(* A device step keeps the types, and a device that exists stays.          *)
LEMMA DeviceSteps ==
  ASSUME DevicesTypeOK, [DevicesNext]_deviceVars
  PROVE  /\ DevicesTypeOK'
         /\ \A d \in Device : status[d] # "ABSENT" => status'[d] # "ABSENT"
<1> USE DEF DevicesTypeOK, DeviceStatus
<1>1. ASSUME NEW d \in Device, Register(d)
      PROVE  /\ DevicesTypeOK'
             /\ \A e \in Device : status[e] # "ABSENT" => status'[e] # "ABSENT"
  BY <1>1 DEF Register
<1>2. ASSUME NEW c \in Client, NEW d \in Device, HeartbeatRead(c, d)
      PROVE  DevicesTypeOK' /\ UNCHANGED status
  BY <1>2 DEF HeartbeatRead
<1>3. ASSUME NEW c \in Client, HeartbeatWrite(c)
      PROVE  /\ DevicesTypeOK'
             /\ \A e \in Device : status[e] # "ABSENT" => status'[e] # "ABSENT"
  BY <1>3 DEF HeartbeatWrite
<1>4. ASSUME NEW c \in Client, HeartbeatDies(c)
      PROVE  DevicesTypeOK' /\ UNCHANGED status
  BY <1>4 DEF HeartbeatDies
<1>5. ASSUME NEW d \in Device, HeartbeatAges(d)
      PROVE  DevicesTypeOK' /\ UNCHANGED status
  BY <1>5 DEF HeartbeatAges
<1>6. CASE MarkStale
  BY <1>6 DEF MarkStale
<1>7. ASSUME NEW d \in Device, NEW disabled \in BOOLEAN, SetDisabled(d, disabled)
      PROVE  /\ DevicesTypeOK'
             /\ \A e \in Device : status[e] # "ABSENT" => status'[e] # "ABSENT"
  BY <1>7 DEF SetDisabled
<1>8. CASE UNCHANGED deviceVars
  BY <1>8 DEF deviceVars
<1> QED
  BY <1>1, <1>2, <1>3, <1>4, <1>5, <1>6, <1>7, <1>8 DEF DevicesNext

-----------------------------------------------------------------------------
(* The chain names seven providers.                                        *)
LEMMA ChainIs ==
  Len(Chain) = 7 /\ \A i \in 1..7 : Chain[i] \in Provider /\ Chain[i] \in Adapter
BY DEF Chain, Provider, Adapter, GATEWAY

(* What a request knows at each point of it: the routes it has not tried   *)
(* are among those that match, and those it has are excused; it holds no   *)
(* provider and no result until it has picked one.                         *)
Trying ==
    /\ sending.at \in {"idle", "table", "chain", "none"}
         => sending.by = Nobody /\ sending.via = "none"
    /\ sending.at \in {"idle", "table", "chain"} => sending.result = "none"
    /\ sending.at = "table" =>
         /\ sending.next = 1
         /\ sending.left \subseteq Matching(sending.to)
         /\ \A r \in Matching(sending.to) \ sending.left : Excused(r.provider)
    /\ sending.at = "chain" =>
         /\ \A r \in Matching(sending.to) : Excused(r.provider)
         /\ \A i \in 1..(sending.next - 1) :
                 Chain[i] \in active => Excused(Chain[i])

(* What the two histories say of the moment.                               *)
Watching ==
    /\ steady => GatewayUp
    /\ GatewayUp /\ sending.at # "idle" => seen

RouterInv == RouterTypeOK /\ Trying /\ Watching /\ RouteIsExplained

LEMMA MatchingAre ==
  ASSUME RouterTypeOK, NEW c
  PROVE  /\ Matching(c) \subseteq AllRoutes
         /\ \A r \in Matching(c) : r \in routes /\ r.provider \in Provider
                                   /\ r.provider \in active /\ Score(r) \in Nat
BY TablesAssumption, PenaltyAssumption
DEF RouterTypeOK, Matching, AllRoutes, RouteRows, Score

LEMMA RouterInitInv == RouterInit => RouterInv
<1> SUFFICES ASSUME RouterInit PROVE RouterInv
  OBVIOUS
<1> USE DEF RouterInit, NoSending
<1>1. RouterTypeOK
  <2>1. NoSending \in Sendings
    BY ChainIs DEF Sendings
  <2> QED
    BY <2>1 DEF RouterTypeOK
<1>2. Trying /\ Watching
  BY DEF Trying, Watching
<1>3. RouteIsExplained
  BY DEF RouteIsExplained, ChoiceIsExplained, GatewayIsExplained, Nobody, GATEWAY
<1> QED
  BY <1>1, <1>2, <1>3 DEF RouterInv

(* Devices come and go: what was excused stays excused.                    *)
LEMMA DevicesMoveInv ==
  ASSUME RouterInv, DevicesMove
  PROVE  RouterInv'
<1>1. /\ steady' = (steady /\ GatewayUp') /\ seen' = (seen \/ GatewayUp')
      /\ UNCHANGED <<active, routes, sending>>
  BY DEF DevicesMove
<1>2. /\ \A c : Matching(c)' = Matching(c)
      /\ \A p : Excused(p) => Excused(p)'
  BY <1>1 DEF Matching, Excused
<1>3. RouterTypeOK'
  BY <1>1 DEF RouterInv, RouterTypeOK
<1>4. Trying'
  BY <1>1, <1>2 DEF RouterInv, Trying
<1>5. Watching'
  BY <1>1 DEF Watching
<1>6. RouteIsExplained'
  BY <1>1, <1>2
  DEF RouterInv, RouterTypeOK, RouteIsExplained, ChoiceIsExplained, GatewayIsExplained
<1> QED
  BY <1>3, <1>4, <1>5, <1>6 DEF RouterInv

(* A step of the request leaves devices, routes and providers alone.       *)
LEMMA SelectRouteInv ==
  ASSUME RouterInv, NEW c \in Country \cup {Elsewhere}, SelectRoute(c)
  PROVE  RouterInv'
<1>1. /\ sending' = [NoSending EXCEPT !.at = "table", !.to = c,
                                      !.left = Matching(c)]
      /\ steady' = GatewayUp /\ seen' = GatewayUp
      /\ UNCHANGED <<deviceVars, active, routes>>
  BY DEF SelectRoute
<1>2. sending' = [at |-> "table", to |-> c, left |-> Matching(c), next |-> 1,
                  via |-> "none", by |-> Nobody, score |-> 0, result |-> "none"]
  BY <1>1 DEF NoSending
<1>3. GatewayUp' = GatewayUp /\ Matching(c)' = Matching(c)
  BY <1>1 DEF GatewayUp, Online, deviceVars, Matching
<1>4. RouterTypeOK'
  <2>1. Matching(c) \in SUBSET AllRoutes
    BY MatchingAre DEF RouterInv
  <2>2. sending' \in Sendings
    BY <1>2, <2>1, ChainIs DEF Sendings
  <2> QED
    BY <1>1, <2>2 DEF RouterInv, RouterTypeOK, GatewayUp
<1>5. Trying'
  BY <1>2, <1>3 DEF Trying
<1>6. Watching'
  BY <1>1, <1>3 DEF Watching
<1>7. RouteIsExplained'
  BY <1>2
  DEF RouteIsExplained, ChoiceIsExplained, GatewayIsExplained, Nobody, GATEWAY
<1> QED
  BY <1>4, <1>5, <1>6, <1>7 DEF RouterInv

(* What a step keeps that changes nothing but the request.                 *)
Serves == UNCHANGED <<deviceVars, active, routes, steady, seen>>

LEMMA ServesKeeps ==
  ASSUME Serves
  PROVE  /\ GatewayUp' = GatewayUp
         /\ \A c : Matching(c)' = Matching(c)
         /\ \A p : Excused(p)' = Excused(p)
         /\ \A r : Score(r)' = Score(r)
         /\ UNCHANGED <<active, routes, steady, seen>>
BY DEF Serves, GatewayUp, Online, deviceVars, Matching, Excused, Score

(* A provider that cannot be used now is excused.                          *)
LEMMA UnusableIsExcused ==
  ASSUME RouterInv, NEW p, ~ Usable(p)
  PROVE  Excused(p)
BY DEF RouterInv, Watching, Usable, Excused

LEMMA TryRouteInv ==
  ASSUME RouterInv, NEW r \in routes, TryRoute(r)
  PROVE  RouterInv'
<1>a. RouterTypeOK /\ Trying /\ Watching
  BY DEF RouterInv
<1>b. Serves
  BY DEF TryRoute, Serves
<1>1. /\ sending.at = "table" /\ r \in sending.left
      /\ \A s \in sending.left : Before(r, s)
      /\ sending.next = 1 /\ sending.by = Nobody /\ sending.via = "none"
      /\ sending.result = "none"
      /\ sending.left \subseteq Matching(sending.to)
      /\ \A s \in Matching(sending.to) \ sending.left : Excused(s.provider)
  BY <1>a DEF TryRoute, Trying
<1>2. r.provider \in Provider /\ Score(r) \in Nat
  BY <1>a, <1>1, MatchingAre
<1>3. sending \in Sendings
  BY <1>a DEF RouterTypeOK
<1>4. CASE Usable(r.provider)
  <2>1. sending' = [sending EXCEPT !.at = "picked", !.via = "table",
                                   !.by = r.provider, !.score = Score(r)]
    BY <1>4 DEF TryRoute
  <2>2. /\ sending'.at = "picked" /\ sending'.via = "table"
        /\ sending'.by = r.provider /\ sending'.score = Score(r)
        /\ sending'.to = sending.to /\ sending'.result = "none"
        /\ sending' \in Sendings
    BY <1>1, <1>2, <1>3, <2>1 DEF Sendings
  <2>3. RouterTypeOK'
    BY <1>a, <1>b, <2>2, ServesKeeps DEF RouterTypeOK
  <2>4. Trying' /\ Watching'
    BY <1>a, <1>b, <1>1, <2>2, ServesKeeps DEF Trying, Watching
  <2>5. ChoiceIsExplained'
    <3>1. ASSUME NEW s \in Matching(sending.to), Score(s) < Score(r)
          PROVE  Excused(s.provider)
      <4>1. Score(s) \in Nat
        BY <1>a, MatchingAre
      <4>2. ~ Before(r, s)
        BY <1>2, <3>1, <4>1 DEF Before
      <4> QED
        BY <1>1, <4>2
    <3> QED
      BY <1>b, <2>2, <3>1, ServesKeeps DEF ChoiceIsExplained
  <2>6. GatewayIsExplained'
    BY <1>a, <1>b, <1>1, <1>4, <2>2, ServesKeeps
    DEF GatewayIsExplained, Watching, Usable
  <2> QED
    BY <2>3, <2>4, <2>5, <2>6 DEF RouterInv, RouteIsExplained
<1>5. CASE ~ Usable(r.provider)
  <2>1. sending' = [sending EXCEPT !.left = sending.left \ {r}]
    BY <1>5 DEF TryRoute
  <2>2. /\ sending'.at = "table" /\ sending'.left = sending.left \ {r}
        /\ sending'.next = 1 /\ sending'.by = Nobody /\ sending'.via = "none"
        /\ sending'.to = sending.to /\ sending'.result = "none"
        /\ sending' \in Sendings
    BY <1>1, <1>3, <2>1 DEF Sendings
  <2>3. RouterTypeOK'
    BY <1>a, <1>b, <2>2, ServesKeeps DEF RouterTypeOK
  <2>4. Excused(r.provider)
    BY <1>5, UnusableIsExcused
  <2>5. Trying'
    BY <1>b, <1>1, <2>2, <2>4, ServesKeeps DEF Trying
  <2>6. Watching'
    BY <1>a, <1>b, <1>1, <2>2, ServesKeeps DEF Watching
  <2>7. RouteIsExplained'
    BY <2>2
    DEF RouteIsExplained, ChoiceIsExplained, GatewayIsExplained, Nobody, GATEWAY
  <2> QED
    BY <2>3, <2>5, <2>6, <2>7 DEF RouterInv
<1> QED
  BY <1>4, <1>5

LEMMA TableEndsInv ==
  ASSUME RouterInv, TableEnds
  PROVE  RouterInv'
<1>a. RouterTypeOK /\ Trying /\ Watching /\ sending \in Sendings
  BY DEF RouterInv, RouterTypeOK
<1>b. Serves
  BY DEF TableEnds, Serves
<1>1. /\ sending.at = "table" /\ sending.left = {}
      /\ sending' = [sending EXCEPT !.at = "chain"]
      /\ sending.next = 1 /\ sending.by = Nobody /\ sending.via = "none"
      /\ sending.result = "none"
      /\ \A r \in Matching(sending.to) : Excused(r.provider)
  BY <1>a DEF TableEnds, Trying
<1>2. /\ sending'.at = "chain" /\ sending'.next = 1
      /\ sending'.by = Nobody /\ sending'.via = "none"
      /\ sending'.to = sending.to /\ sending'.result = "none"
      /\ sending' \in Sendings
  BY <1>a, <1>1 DEF Sendings
<1>3. RouterTypeOK'
  BY <1>a, <1>b, <1>2, ServesKeeps DEF RouterTypeOK
<1>4. Trying' /\ Watching'
  BY <1>a, <1>b, <1>1, <1>2, ServesKeeps DEF Trying, Watching
<1>5. RouteIsExplained'
  BY <1>2
  DEF RouteIsExplained, ChoiceIsExplained, GatewayIsExplained, Nobody, GATEWAY
<1> QED
  BY <1>3, <1>4, <1>5 DEF RouterInv

LEMMA TryChainInv ==
  ASSUME RouterInv, TryChain
  PROVE  RouterInv'
<1>a. RouterTypeOK /\ Trying /\ Watching /\ sending \in Sendings
  BY DEF RouterInv, RouterTypeOK
<1>b. Serves
  BY DEF TryChain, Serves
<1>1. PICK i \in 1..7, p \in Provider : i = sending.next /\ p = Chain[i]
  BY <1>a, ChainIs DEF TryChain, Sendings
<1>2. /\ sending.at = "chain"
      /\ sending.by = Nobody /\ sending.via = "none" /\ sending.result = "none"
      /\ \A r \in Matching(sending.to) : Excused(r.provider)
      /\ \A j \in 1..(i - 1) : Chain[j] \in active => Excused(Chain[j])
  BY <1>a, <1>1 DEF TryChain, Trying
<1>3. CASE p \in active /\ Usable(p)
  <2>1. sending' = [sending EXCEPT !.at = "picked", !.via = "chain", !.by = p]
    BY <1>1, <1>3 DEF TryChain
  <2>2. /\ sending'.at = "picked" /\ sending'.via = "chain" /\ sending'.by = p
        /\ sending'.to = sending.to /\ sending'.next = i
        /\ sending'.result = "none" /\ sending' \in Sendings
    BY <1>a, <1>1, <1>2, <2>1 DEF Sendings
  <2>3. RouterTypeOK'
    BY <1>a, <1>b, <2>2, ServesKeeps DEF RouterTypeOK
  <2>4. Trying' /\ Watching'
    BY <1>a, <1>b, <1>2, <2>2, ServesKeeps DEF Trying, Watching
  <2>5. ChoiceIsExplained'
    BY <1>b, <1>2, <2>2, ServesKeeps DEF ChoiceIsExplained
  <2>6. GatewayIsExplained'
    BY <1>a, <1>b, <1>2, <1>3, <2>2, ServesKeeps
    DEF GatewayIsExplained, Watching, Usable
  <2> QED
    BY <2>3, <2>4, <2>5, <2>6 DEF RouterInv, RouteIsExplained
<1>4. CASE ~ (p \in active /\ Usable(p))
  <2>1. sending' = [sending EXCEPT !.next = i + 1]
    BY <1>1, <1>4 DEF TryChain
  <2>2. /\ sending'.at = "chain" /\ sending'.next = i + 1
        /\ sending'.by = Nobody /\ sending'.via = "none"
        /\ sending'.to = sending.to /\ sending'.result = "none"
        /\ sending' \in Sendings
    BY <1>a, <1>1, <1>2, <2>1, ChainIs DEF Sendings
  <2>3. RouterTypeOK'
    BY <1>a, <1>b, <2>2, ServesKeeps DEF RouterTypeOK
  <2>4. p \in active => Excused(p)
    BY <1>4, UnusableIsExcused
  <2>5. \A j \in 1..i : Chain[j] \in active => Excused(Chain[j])
    BY <1>1, <1>2, <2>4
  <2>6. Trying'
    BY <1>b, <1>1, <1>2, <2>2, <2>5, ServesKeeps DEF Trying
  <2>7. Watching'
    BY <1>a, <1>b, <1>2, <2>2, ServesKeeps DEF Watching
  <2>8. RouteIsExplained'
    BY <2>2
    DEF RouteIsExplained, ChoiceIsExplained, GatewayIsExplained, Nobody, GATEWAY
  <2> QED
    BY <2>3, <2>6, <2>7, <2>8 DEF RouterInv
<1> QED
  BY <1>3, <1>4

LEMMA NoProviderInv ==
  ASSUME RouterInv, NoProvider
  PROVE  RouterInv'
<1>a. RouterTypeOK /\ Trying /\ Watching /\ sending \in Sendings
  BY DEF RouterInv, RouterTypeOK
<1>b. Serves
  BY DEF NoProvider, Serves
<1>1. /\ sending.at = "chain" /\ sending.next = 8
      /\ sending' = [sending EXCEPT !.at = "none", !.result = "failed"]
      /\ sending.by = Nobody /\ sending.via = "none"
      /\ \A r \in Matching(sending.to) : Excused(r.provider)
      /\ \A i \in 1..(sending.next - 1) :
              Chain[i] \in active => Excused(Chain[i])
  BY <1>a, ChainIs DEF NoProvider, Trying, Sendings
<1>2. /\ sending'.at = "none" /\ sending'.next = 8
      /\ sending'.by = Nobody /\ sending'.via = "none"
      /\ sending'.to = sending.to /\ sending' \in Sendings
  BY <1>a, <1>1 DEF Sendings
<1>3. RouterTypeOK'
  BY <1>a, <1>b, <1>2, ServesKeeps DEF RouterTypeOK
<1>4. Trying' /\ Watching'
  BY <1>a, <1>b, <1>1, <1>2, ServesKeeps DEF Trying, Watching
<1>5. ChoiceIsExplained'
  BY <1>b, <1>1, <1>2, ServesKeeps, ChainIs DEF ChoiceIsExplained
<1>6. GatewayIsExplained'
  BY <1>2 DEF GatewayIsExplained, Nobody, GATEWAY
<1> QED
  BY <1>3, <1>4, <1>5, <1>6 DEF RouterInv, RouteIsExplained

(* The message is sent through the provider picked: the choice stays, and  *)
(* the gateway fails only if its device went.                              *)
LEMMA SendingInv ==
  ASSUME RouterInv,
         FindDevice \/ QueueRow \/ \E answer \in Answers : AskCarrier(answer)
  PROVE  RouterInv'
<1>a. RouterTypeOK /\ Trying /\ Watching /\ sending \in Sendings
  BY DEF RouterInv, RouterTypeOK
<1>b. Serves
  BY DEF FindDevice, QueueRow, AskCarrier, Serves
<1>1. /\ sending.at \in {"picked", "found"}
      /\ sending'.at \in {"found", "over"}
      /\ sending'.by = sending.by /\ sending'.via = sending.via
      /\ sending'.to = sending.to /\ sending'.next = sending.next
      /\ sending'.score = sending.score
      /\ sending' \in Sendings
  BY <1>a DEF FindDevice, QueueRow, AskCarrier, Sendings
<1>2. sending'.result = "failed" /\ sending.by = GATEWAY
        => sending.result = "failed" \/ ~ GatewayUp
  BY <1>a DEF FindDevice, QueueRow, AskCarrier, Sendings
<1>3. RouterTypeOK'
  BY <1>a, <1>b, <1>1, ServesKeeps DEF RouterTypeOK
<1>4. Trying' /\ Watching'
  BY <1>a, <1>b, <1>1, ServesKeeps DEF Trying, Watching
<1>5. ChoiceIsExplained'
  BY <1>b, <1>1, ServesKeeps DEF RouterInv, RouteIsExplained, ChoiceIsExplained
<1>6. GatewayIsExplained'
  BY <1>a, <1>b, <1>1, <1>2, ServesKeeps
  DEF RouterInv, RouteIsExplained, GatewayIsExplained, Watching
<1> QED
  BY <1>3, <1>4, <1>5, <1>6 DEF RouterInv, RouteIsExplained

LEMMA AnsweredInv ==
  ASSUME RouterInv, Answered
  PROVE  RouterInv'
<1>1. /\ sending' = NoSending /\ steady' = FALSE /\ seen' = FALSE
      /\ UNCHANGED <<active, routes>>
  BY DEF Answered
<1>2. RouterTypeOK'
  <2>1. NoSending \in Sendings
    BY ChainIs DEF NoSending, Sendings
  <2> QED
    BY <1>1, <2>1 DEF RouterInv, RouterTypeOK
<1>3. Trying' /\ Watching'
  BY <1>1 DEF NoSending, Trying, Watching
<1>4. RouteIsExplained'
  BY <1>1
  DEF NoSending, RouteIsExplained, ChoiceIsExplained, GatewayIsExplained,
      Nobody, GATEWAY
<1> QED
  BY <1>2, <1>3, <1>4 DEF RouterInv

LEMMA RouterStep ==
  ASSUME RouterInv, RouterNext
  PROVE  RouterInv'
BY SelectRouteInv, TryRouteInv, TableEndsInv, TryChainInv, NoProviderInv,
   SendingInv, AnsweredInv DEF RouterNext

-----------------------------------------------------------------------------
(* Who was ever disabled is remembered; a call under way is of a device    *)
(* that exists; every call that was answered stored one row.               *)
Barring == \A d \in Device : status[d] = "DISABLED" => d \in barred

Uploading ==
    \A s \in Sms :
        LET u == upload[s]
        IN  /\ u.at \in {"sent", "stored"}
                 => u.by \in Device /\ status[u.by] # "ABSENT"
            /\ u.at = "none" => inbox[s] = 0 /\ u.again = 0
            /\ u.at = "sent" => inbox[s] = u.again
            /\ u.at = "stored" => inbox[s] = u.again + 1

InboxInv == InboxTypeOK /\ Barring /\ Uploading /\ InboxIsExplained

LEMMA InboxInitInv == DevicesInit /\ InboxInit => InboxInv
<1> SUFFICES ASSUME DevicesInit, InboxInit PROVE InboxInv
  OBVIOUS
<1> USE MaxAgainAssumption DEF DevicesInit, InboxInit, NoUpload
<1>1. InboxTypeOK
  BY DEF InboxTypeOK, Uploads
<1>2. Barring /\ Uploading /\ InboxIsExplained
  BY DEF Barring, Uploading, InboxIsExplained
<1> QED
  BY <1>1, <1>2 DEF InboxInv

LEMMA DeviceStepInbox ==
  ASSUME DevicesTypeOK, InboxInv, DeviceStep
  PROVE  InboxInv'
<1>1. /\ DevicesTypeOK'
      /\ \A d \in Device : status[d] # "ABSENT" => status'[d] # "ABSENT"
  BY DeviceSteps DEF DeviceStep, DevicesMove
<1>2. /\ barred' = barred \cup {d \in Device : status'[d] = "DISABLED"}
      /\ UNCHANGED <<upload, inbox>>
  BY DEF DeviceStep
<1>3. InboxTypeOK' /\ Barring'
  BY <1>2 DEF InboxInv, InboxTypeOK, Barring
<1>4. Uploading' /\ InboxIsExplained'
  BY <1>1, <1>2 DEF InboxInv, Uploading, InboxIsExplained
<1> QED
  BY <1>3, <1>4 DEF InboxInv

(* What a step makes of one SMS, and what has to be shown of it.           *)
Becomes(s, u, n) ==
    /\ upload' = [upload EXCEPT ![s] = u]
    /\ inbox' = [inbox EXCEPT ![s] = n]
    /\ UNCHANGED <<deviceVars, barred>>

LEMMA BecomesInv ==
  ASSUME InboxInv, NEW s \in Sms, NEW u \in Uploads,
         NEW n \in 0..(MaxAgain + 1), Becomes(s, u, n),
         u.at \in {"sent", "stored"} => u.by \in Device /\ status[u.by] # "ABSENT",
         u.at = "none" => n = 0 /\ u.again = 0,
         u.at = "sent" => n = u.again,
         u.at = "stored" => n = u.again + 1,
         n <= u.again + 1,
         u.at = "over" /\ n <= u.again => u.by = NoDevice \/ u.cut \/ u.by \in barred
  PROVE  InboxInv'
<1>1. /\ upload'[s] = u /\ inbox'[s] = n
      /\ \A t \in Sms : t # s => upload'[t] = upload[t] /\ inbox'[t] = inbox[t]
      /\ status' = status /\ barred' = barred
  BY DEF InboxInv, InboxTypeOK, Becomes, deviceVars
<1>2. InboxTypeOK'
  BY DEF InboxInv, InboxTypeOK, Becomes
<1>3. Barring'
  BY <1>1 DEF InboxInv, Barring
<1>4. Uploading'
  BY <1>1 DEF InboxInv, Uploading
<1>5. InboxIsExplained'
  BY <1>1 DEF InboxInv, InboxIsExplained
<1> QED
  BY <1>2, <1>3, <1>4, <1>5 DEF InboxInv

LEMMA InboxStep ==
  ASSUME DevicesTypeOK, InboxInv, InboxNext
  PROVE  InboxInv'
<1> USE MaxAgainAssumption
<1>1. PICK s \in Sms :
        \/ \E d \in Device \cup {NoDevice} : Receive(s, d)
        \/ Store(s) \/ UploadEnds(s) \/ UploadLost(s) \/ UploadAgain(s)
  BY DEF InboxNext
<1>2. PICK u \in Uploads, n \in 0..(MaxAgain + 1) :
        u = upload[s] /\ n = inbox[s]
  BY DEF InboxInv, InboxTypeOK
<1>a. /\ u.at \in {"sent", "stored"} => u.by \in Device /\ status[u.by] # "ABSENT"
      /\ u.at = "none" => n = 0 /\ u.again = 0
      /\ u.at = "sent" => n = u.again
      /\ u.at = "stored" => n = u.again + 1
  BY <1>2 DEF InboxInv, Uploading
<1>b. n <= u.again + 1 /\ u.again \in 0..MaxAgain
  BY <1>2 DEF InboxInv, InboxIsExplained, Uploads
<1>3. inbox = [inbox EXCEPT ![s] = n]
  BY <1>2 DEF InboxInv, InboxTypeOK
<1>4. ASSUME NEW d \in Device \cup {NoDevice}, Receive(s, d)
      PROVE  InboxInv'
  <2> DEFINE v == [u EXCEPT !.at = IF d = NoDevice THEN "over" ELSE "sent", !.by = d]
  <2>1. /\ upload' = [upload EXCEPT ![s] = v] /\ u.at = "none"
        /\ d # NoDevice => status[d] # "ABSENT"
    BY <1>2, <1>4 DEF Receive, InboxInv, InboxTypeOK
  <2>2. Becomes(s, v, n)
    BY <1>3, <1>4, <2>1 DEF Receive, Becomes
  <2>3. /\ v \in Uploads /\ v.by = d /\ v.again = u.again
        /\ v.at = IF d = NoDevice THEN "over" ELSE "sent"
    BY <1>2 DEF Uploads
  <2> HIDE DEF v
  <2> QED
    BY <1>2, <1>a, <1>b, <2>1, <2>2, <2>3, BecomesInv
<1>5. CASE Store(s)
  <2> DEFINE served == Authenticated(u.by)
             v == [u EXCEPT !.at = IF served THEN "stored" ELSE "over"]
  <2>1. /\ upload' = [upload EXCEPT ![s] = v] /\ u.at = "sent"
        /\ inbox' = IF served THEN [inbox EXCEPT ![s] = n + 1] ELSE inbox
        /\ UNCHANGED <<deviceVars, barred>>
    BY <1>2, <1>5 DEF Store, InboxInv, InboxTypeOK
  <2>2. /\ v \in Uploads /\ v.by = u.by /\ v.again = u.again
        /\ v.at = IF served THEN "stored" ELSE "over"
    BY <1>2 DEF Uploads
  <2>3. CASE served
    <3>1. Becomes(s, v, n + 1)
      BY <2>1, <2>3 DEF Becomes
    <3>2. n + 1 \in 0..(MaxAgain + 1) /\ n = u.again
      BY <1>2, <1>a, <1>b, <2>1
    <3> HIDE DEF v, served
    <3> QED
      BY <1>2, <1>a, <1>b, <2>1, <2>2, <2>3, <3>1, <3>2, BecomesInv
  <2>4. CASE ~ served
    <3>1. Becomes(s, v, n)
      BY <1>3, <2>1, <2>4 DEF Becomes
    <3>2. u.by \in barred
      BY <1>2, <1>a, <1>b, <2>1, <2>4 DEF Authenticated, DevicesTypeOK, InboxInv, Barring
    <3> HIDE DEF v, served
    <3> QED
      BY <1>2, <1>a, <1>b, <2>1, <2>2, <2>4, <3>1, <3>2, BecomesInv
  <2> QED
    BY <2>3, <2>4
<1>6. CASE UploadEnds(s)
  <2> DEFINE v == [u EXCEPT !.at = "over"]
  <2>1. /\ upload' = [upload EXCEPT ![s] = v] /\ u.at = "stored"
    BY <1>2, <1>6 DEF UploadEnds
  <2>2. Becomes(s, v, n)
    BY <1>3, <1>6, <2>1 DEF UploadEnds, Becomes
  <2>3. v \in Uploads /\ v.at = "over" /\ v.by = u.by /\ v.again = u.again
    BY <1>2 DEF Uploads
  <2> HIDE DEF v
  <2> QED
    BY <1>2, <1>a, <1>b, <2>1, <2>2, <2>3, BecomesInv
<1>7. CASE UploadLost(s)
  <2> DEFINE v == [u EXCEPT !.at = "over", !.cut = TRUE]
  <2>1. /\ upload' = [upload EXCEPT ![s] = v] /\ u.at = "sent"
    BY <1>2, <1>7 DEF UploadLost, InboxInv, InboxTypeOK
  <2>2. Becomes(s, v, n)
    BY <1>3, <1>7, <2>1 DEF UploadLost, Becomes
  <2>3. v \in Uploads /\ v.at = "over" /\ v.cut /\ v.again = u.again
    BY <1>2 DEF Uploads
  <2> HIDE DEF v
  <2> QED
    BY <1>2, <1>a, <1>b, <2>1, <2>2, <2>3, BecomesInv
<1>8. CASE UploadAgain(s)
  <2> DEFINE v == [u EXCEPT !.at = "sent", !.again = u.again + 1]
  <2>1. /\ upload' = [upload EXCEPT ![s] = v] /\ u.at = "stored"
        /\ u.again < MaxAgain
    BY <1>2, <1>8 DEF UploadAgain, InboxInv, InboxTypeOK
  <2>2. Becomes(s, v, n)
    BY <1>3, <1>8, <2>1 DEF UploadAgain, Becomes
  <2>3. /\ v \in Uploads /\ v.at = "sent" /\ v.by = u.by
        /\ v.again = u.again + 1
    <3>1. u.again + 1 \in 0..MaxAgain
      BY <1>b, <2>1
    <3>2. u.again \in Nat
      BY <1>b
    <3> QED
      BY <3>1, <3>2 DEF Uploads
  <2> HIDE DEF v
  <2> QED
    BY <1>2, <1>a, <1>b, <2>1, <2>2, <2>3, BecomesInv
<1> QED
  BY <1>1, <1>4, <1>5, <1>6, <1>7, <1>8

-----------------------------------------------------------------------------
(* The three parts together.  The router needs to know of the devices only *)
(* whether one is ONLINE, the inbox only which are DISABLED.               *)
TrafficInv == DevicesTypeOK /\ RouterInv /\ InboxInv

LEMMA TrafficInvariant == TrafficSpec => []TrafficInv
<1>1. TrafficInit => TrafficInv
  <2>1. DevicesInit => DevicesTypeOK
    BY DEF DevicesInit, DevicesTypeOK, DeviceStatus
  <2> QED
    BY <2>1, RouterInitInv, InboxInitInv DEF TrafficInit, TrafficInv
<1>2. TrafficInv /\ [TrafficNext]_trafficVars => TrafficInv'
  <2> SUFFICES ASSUME TrafficInv, [TrafficNext]_trafficVars PROVE TrafficInv'
    OBVIOUS
  <2> USE DEF TrafficInv
  <2>1. CASE DeviceStep
    <3>1. DevicesTypeOK'
      BY <2>1, DeviceSteps DEF DeviceStep, DevicesMove
    <3> QED
      BY <2>1, <3>1, DevicesMoveInv, DeviceStepInbox DEF DeviceStep
  <2>2. CASE RouterNext /\ UNCHANGED inboxVars
    <3>1. UNCHANGED deviceVars
      BY <2>2
      DEF RouterNext, SelectRoute, TryRoute, TableEnds, TryChain, NoProvider,
          FindDevice, QueueRow, AskCarrier, Answered
    <3>2. DevicesTypeOK'
      BY <3>1 DEF deviceVars, DevicesTypeOK
    <3>3. InboxInv'
      BY <2>2, <3>1
      DEF deviceVars, inboxVars, InboxInv, InboxTypeOK, Barring, Uploading,
          InboxIsExplained
    <3> QED
      BY <2>2, <3>2, <3>3, RouterStep
  <2>3. ASSUME UNCHANGED deviceVars, UNCHANGED routerVars
        PROVE  DevicesTypeOK' /\ RouterInv'
    <3>1. Serves /\ UNCHANGED sending
      BY <2>3 DEF routerVars, Serves
    <3>2. RouterTypeOK' /\ Trying' /\ Watching'
      BY <3>1, ServesKeeps DEF RouterInv, RouterTypeOK, Trying, Watching
    <3>3. RouteIsExplained'
      BY <3>1, ServesKeeps
      DEF RouterInv, RouteIsExplained, ChoiceIsExplained, GatewayIsExplained
    <3> QED
      BY <2>3, <3>2, <3>3 DEF deviceVars, DevicesTypeOK, RouterInv
  <2>4. CASE InboxNext /\ UNCHANGED routerVars
    <3>1. UNCHANGED deviceVars
      BY <2>4
      DEF InboxNext, Receive, Store, UploadEnds, UploadLost, UploadAgain
    <3> QED
      BY <2>3, <2>4, <3>1, InboxStep
  <2>5. CASE UNCHANGED trafficVars
    <3>1. UNCHANGED deviceVars /\ UNCHANGED routerVars /\ UNCHANGED inboxVars
      BY <2>5 DEF trafficVars
    <3>2. InboxInv'
      BY <3>1
      DEF deviceVars, inboxVars, InboxInv, InboxTypeOK, Barring, Uploading,
          InboxIsExplained
    <3> QED
      BY <2>3, <3>1, <3>2
  <2> QED
    BY <2>1, <2>2, <2>4, <2>5 DEF TrafficNext
<1> QED
  BY <1>1, <1>2, PTL DEF TrafficSpec

(* DevicesService, RouterService with its adapters, and pushInbox keep the *)
(* types of all they write while they run against each other.              *)
THEOREM TrafficTypeCorrect == TrafficSpec => []TrafficTypeOK
<1>1. TrafficInv => TrafficTypeOK
  BY DEF TrafficInv, RouterInv, InboxInv, TrafficTypeOK
<1> QED
  BY <1>1, TrafficInvariant, PTL

(* RouterService takes a provider only when every better one was out of    *)
(* reach: it has no adapter, or is the gateway and no device was ONLINE    *)
(* for a moment of the request; and the gateway fails a message only then. *)
THEOREM Routes == TrafficSpec => []RouteIsExplained
<1>1. TrafficInv => RouteIsExplained
  BY DEF TrafficInv, RouterInv
<1> QED
  BY <1>1, TrafficInvariant, PTL

(* pushInbox stores an SMS once for each call of the app; one without its  *)
(* row was dropped by a phone without a token, cut, or sent by a device    *)
(* that had been disabled.                                                 *)
THEOREM Received == TrafficSpec => []InboxIsExplained
<1>1. TrafficInv => InboxIsExplained
  BY DEF TrafficInv, InboxInv
<1> QED
  BY <1>1, TrafficInvariant, PTL
=============================================================================
