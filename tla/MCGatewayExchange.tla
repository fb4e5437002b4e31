------------------------- MODULE MCGatewayExchange --------------------------
(* Instances of GatewayExchange for TLC.                                   *)
EXTENDS GatewayExchange

CONSTANTS r1, c1, c2, c3, c4, nokey, badkey

Limit(n, m) == [enabled |-> TRUE, requests |-> n, window |-> 1, concurrent |-> m]
Off == [enabled |-> FALSE, requests |-> 1, window |-> 1, concurrent |-> 1]

\* "chat" is protected, "open" is not, "dark" runs its verdicts in shadow,
\* "bare" is protected without a default limit, "lost" has no provider, and
\* "none" is no route.
MCConfig == [rev \in Revisions |->
    [routes |-> Routes \ {"none"}, auth |-> Routes \cap {"bare"},
     upstream |-> Routes \ {"lost"}, shadow |-> Routes \cap {"dark"},
     status |-> [c \in Clients |->
         CASE c = c1 -> "enabled" [] c = c2 -> "disabled"
           [] c = c3 -> "revoked" [] OTHER -> "unknown"],
     default |-> [x \in Routes |-> IF x = "chat" THEN Limit(1, 1) ELSE Off],
     override |-> [k \in Keys |-> IF k = <<c1, "chat">> THEN Limit(3, 1) ELSE Off]]]

Outcome(a) == [action |-> a, failed |-> FALSE]
AllDecisions == {Outcome(a) : a \in PolicyActions} \cup {[action |-> "allow", failed |-> TRUE]}

=============================================================================
