----------------------------- MODULE MCTraffic -----------------------------
(* Values for the constants of Traffic: one device, one country, sets of   *)
(* active providers with and without the gateway, a carrier, the one the   *)
(* fallback chain leaves out, and one that sends no SMS; and three sets of *)
(* routes: none; one where the score turns the order of the database       *)
(* round; one with routes of all kinds.                                    *)
EXTENDS Traffic

CONSTANTS d1, c1, s1

OneDevice  == {d1}
OneClient  == {c1}
OneSms     == {s1}
OneCountry == {"US"}

SomeActives == {{}, {"EXOTEL"}, {GATEWAY}, {GATEWAY, "TEXTBEE"},
                {"MSG91", "VONAGE"}, {GATEWAY, "MSG91", "EXOTEL"},
                {"SES", "VONAGE"}, Provider}

R(p, c, prio, cost) ==
    [provider |-> p, country |-> c, priority |-> prio, cost |-> cost]

Cheap == {R("MSG91", AnyCountry, 1, 9), R(GATEWAY, AnyCountry, 2, 0)}
Four  == {R(GATEWAY, "US", 1, 0), R("MSG91", "US", 2, 2),
          R("EXOTEL", AnyCountry, 3, 2), R("SES", AnyCountry, 1, 1)}

ThreeTables == {{}, Cheap, Four}

(* MSG91 has delivered four messages out of five.                          *)
Penalties == [p \in Provider |-> IF p = "MSG91" THEN 10 ELSE 0]

Carriers == {"MSG91", "VONAGE", "EXOTEL"}
=============================================================================
