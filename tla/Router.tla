------------------------------- MODULE Router -------------------------------
(***************************************************************************)
(* Which provider carries an SMS: router.service.ts, with the adapters it  *)
(* sends through.  A request reads the project's routes once, tries them   *)
(* in the order of their scores, then falls back to a fixed chain, and     *)
(* sends through the first provider it can use, and only that one.  The    *)
(* Android gateway is usable while a device is ONLINE; that is looked up   *)
(* at every try, and once more when the message is sent, and devices come  *)
(* and go in between.  Extends Devices, which says when they do.           *)
(*                                                                         *)
(* Routes and providers are set up by hand: they do not change here.       *)
(***************************************************************************)
EXTENDS Devices, Sequences

CONSTANTS
    Actives,    \* the sets of providers that may be active
    Country,    \* the countries of the numbers
    Tables,     \* the sets of routes a project may have
    Penalty,    \* (1 - healthScore) * 50 + (1 - successRate) * 50
    Configured  \* the carriers whose credentials are in the environment

(* The providers a row may be for, those the router has an adapter for,    *)
(* and the order of fallbackOrder.                                         *)
Provider == {"TWILIO", "MSG91", "VONAGE", "PLIVO", "SPRINGEDGE", "EXOTEL",
             "TEXTBEE", "ANDROID_GATEWAY", "SMTP", "SES", "MAILGUN", "SENDGRID",
             "CUSTOM"}

GATEWAY == "ANDROID_GATEWAY"

Adapter == {GATEWAY, "TWILIO", "MSG91", "VONAGE", "PLIVO", "SPRINGEDGE",
            "EXOTEL", "TEXTBEE"}

Chain == <<GATEWAY, "MSG91", "SPRINGEDGE", "TWILIO", "VONAGE", "PLIVO",
           "TEXTBEE">>

(* The answers a carrier's adapter knows for a failure when the status is  *)
(* 2xx: two look for a refusal, one takes all but a clear yes for one, the *)
(* others take anything for a yes.                                         *)
Reads(p) == CASE p \in {"TWILIO", "MSG91"} -> {"refused"}
              [] p = "VONAGE" -> {"refused", "unreadable"}
              [] OTHER -> {}

(* The countries detectCountryFromE164 can tell.                           *)
Detected == {"US", "IN", "GB", "AU", "AE", "SG", "JP", "DE", "FR"}

ASSUME ActivesAssumption == Actives \subseteq SUBSET Provider
ASSUME CountryAssumption == Country \subseteq Detected

VARIABLES
    active,     \* providers with isActive
    routes,     \* the active SMS routes of the project
    sending,    \* the request being served
    steady,     \* history: a device was ONLINE all through the request
    seen        \* history: a device was ONLINE at some time of the request

routerVars == <<active, routes, sending, steady, seen>>

Nobody == "nobody"
AnyCountry == "any"     \* the country of a route for all numbers
Elsewhere == "unknown"  \* what detectCountryFromE164 cannot tell

AllRoutes == UNION Tables

(* priority and costMinor are whole and positive or 0, as the seed and the *)
(* defaults of the schema have them; healthScore and successRate are at    *)
(* most 1.                                                                 *)
RouteRows == [provider : Provider, country : Detected \cup {AnyCountry},
              priority : Nat, cost : Nat]

ASSUME TablesAssumption == Tables \subseteq SUBSET RouteRows
ASSUME PenaltyAssumption == Penalty \in [Provider -> Nat]

Sendings == [at : {"idle", "table", "chain", "picked", "found", "none", "over"},
             to : Country \cup {Elsewhere}, left : SUBSET AllRoutes,
             next : 1..(Len(Chain) + 1), via : {"none", "table", "chain"},
             by : Provider \cup {Nobody}, score : Nat,
             result : {"none", "queued", "failed", "thrown"}]

RouterTypeOK ==
    /\ active \in Actives
    /\ routes \in Tables
    /\ sending \in Sendings
    /\ steady \in BOOLEAN
    /\ seen \in BOOLEAN

NoSending == [at |-> "idle", to |-> Elsewhere, left |-> {}, next |-> 1,
              via |-> "none", by |-> Nobody, score |-> 0, result |-> "none"]

RouterInit ==
    /\ active \in Actives
    /\ routes \in Tables
    /\ sending = NoSending
    /\ steady = FALSE
    /\ seen = FALSE

(* healthCheck of the android gateway adapter.                             *)
GatewayUp == \E d \in Device : Online(d)

Usable(p) == IF p = GATEWAY THEN GatewayUp ELSE p \in Adapter

Matching(c) ==
    {r \in routes : /\ r.provider \in active
                    /\ r.country = AnyCountry \/ r.country = c}

Score(r) == r.priority * 10 + r.cost * 5 + Penalty[r.provider]

(* The database sorts by priority and cost; the sort by score is stable.   *)
Listed(r, s) ==
    r.priority < s.priority \/ (r.priority = s.priority /\ r.cost <= s.cost)

(* A variant with a bug: the order of the database is left as it is.       *)
ListedOnly(r, s) == Listed(r, s)

Before(r, s) == Score(r) < Score(s) \/ (Score(r) = Score(s) /\ Listed(r, s))

-----------------------------------------------------------------------------
SelectRoute(c) ==
    /\ sending.at = "idle"
    /\ sending' = [NoSending EXCEPT !.at = "table", !.to = c,
                                    !.left = Matching(c)]
    /\ steady' = GatewayUp
    /\ seen' = GatewayUp
    /\ UNCHANGED <<deviceVars, active, routes>>

TryRoute(r) ==
    /\ sending.at = "table"
    /\ r \in sending.left
    /\ \A s \in sending.left : Before(r, s)
    /\ sending' = IF Usable(r.provider)
                  THEN [sending EXCEPT !.at = "picked", !.via = "table",
                                       !.by = r.provider, !.score = Score(r)]
                  ELSE [sending EXCEPT !.left = @ \ {r}]
    /\ UNCHANGED <<deviceVars, active, routes, steady, seen>>

TableEnds ==
    /\ sending.at = "table"
    /\ sending.left = {}
    /\ sending' = [sending EXCEPT !.at = "chain"]
    /\ UNCHANGED <<deviceVars, active, routes, steady, seen>>

TryChain ==
    /\ sending.at = "chain"
    /\ sending.next <= Len(Chain)
    /\ LET p == Chain[sending.next]
       IN  sending' = IF p \in active /\ Usable(p)
                      THEN [sending EXCEPT !.at = "picked", !.via = "chain",
                                           !.by = p]
                      ELSE [sending EXCEPT !.next = @ + 1]
    /\ UNCHANGED <<deviceVars, active, routes, steady, seen>>

NoProvider ==
    /\ sending.at = "chain"
    /\ sending.next > Len(Chain)
    /\ sending' = [sending EXCEPT !.at = "none", !.result = "failed"]
    /\ UNCHANGED <<deviceVars, active, routes, steady, seen>>

(* sendSMS of the android gateway: the latest device ONLINE by now gets    *)
(* the row, whatever becomes of it meanwhile; without one, the message has *)
(* failed, and no other provider is tried.                                 *)
FindDevice ==
    /\ sending.at = "picked"
    /\ sending.by = GATEWAY
    /\ sending' = IF GatewayUp THEN [sending EXCEPT !.at = "found"]
                  ELSE [sending EXCEPT !.at = "over", !.result = "failed"]
    /\ UNCHANGED <<deviceVars, active, routes, steady, seen>>

QueueRow ==
    /\ sending.at = "found"
    /\ sending' = [sending EXCEPT !.at = "over", !.result = "queued"]
    /\ UNCHANGED <<deviceVars, active, routes, steady, seen>>

(* sendSMS of a carrier.  One without credentials is simulated; one that   *)
(* cannot be reached throws; an answer of another status than 2xx is a     *)
(* failure, and for the rest the adapter reads the body.                   *)
Answers == {"accepted", "refused", "unreadable", "not ok", "no answer"}

AskCarrier(answer) ==
    LET p == sending.by
    IN  /\ sending.at = "picked"
        /\ p # GATEWAY
        /\ sending' = [sending EXCEPT !.at = "over",
              !.result = IF p \notin Configured THEN "queued"
                         ELSE IF answer = "no answer" THEN "thrown"
                         ELSE IF answer = "not ok" \/ answer \in Reads(p)
                              THEN "failed" ELSE "queued"]
        /\ UNCHANGED <<deviceVars, active, routes, steady, seen>>

Answered ==
    /\ sending.at \in {"none", "over"}
    /\ sending' = NoSending
    /\ steady' = FALSE
    /\ seen' = FALSE
    /\ UNCHANGED <<deviceVars, active, routes>>

(* Devices come and go.                                                    *)
DevicesMove ==
    /\ DevicesNext
    /\ steady' = (steady /\ GatewayUp')
    /\ seen' = (seen \/ GatewayUp')
    /\ UNCHANGED <<active, routes, sending>>

RouterNext ==
    \/ \E c \in Country \cup {Elsewhere} : SelectRoute(c)
    \/ \E r \in routes : TryRoute(r)
    \/ TableEnds \/ TryChain \/ NoProvider
    \/ FindDevice \/ QueueRow
    \/ \E answer \in Answers : AskCarrier(answer)
    \/ Answered

-----------------------------------------------------------------------------
(* What was passed over could not be used: the gateway, which had no       *)
(* device for a moment at least, or a provider without an adapter.         *)
Excused(p) == p \notin Adapter \/ (p = GATEWAY /\ ~ steady)

(* A provider is taken from the table only if each matching route with a   *)
(* better score is excused, from the chain only if all matching routes and *)
(* all active providers before it in the chain are.  "No provider" says    *)
(* that of the whole chain, which leaves one adapter out: a project whose  *)
(* only active provider is that one, without a route to it, sends nothing. *)
ChoiceIsExplained ==
    LET m == Matching(sending.to)
    IN  /\ sending.via = "table"
             => \A r \in m : Score(r) < sending.score => Excused(r.provider)
        /\ sending.via = "chain" \/ sending.at = "none"
             => /\ \A r \in m : Excused(r.provider)
                /\ \A i \in 1..(sending.next - 1) :
                        Chain[i] \in active => Excused(Chain[i])
        /\ sending.at = "none" => sending.next = Len(Chain) + 1

(* The gateway is taken only if a device was ONLINE while the request was  *)
(* served, and fails a message only if that changed.                       *)
GatewayIsExplained ==
    sending.by = GATEWAY =>
        /\ seen
        /\ sending.result = "failed" => ~ steady

RouteIsExplained == ChoiceIsExplained /\ GatewayIsExplained
=============================================================================
