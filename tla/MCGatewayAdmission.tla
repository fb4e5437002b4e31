------------------------- MODULE MCGatewayAdmission -------------------------
(* Instances of GatewayAdmission for TLC.                                  *)
EXTENDS GatewayAdmission, TLC

CONSTANTS r1, r2, r3, c1, nokey, badkey, MCLimit, MCRate

Limit(n, m) == [enabled |-> TRUE, requests |-> n, window |-> 1, concurrent |-> m]

\* One protected route; revision 2 changes nothing about the limits.
MCConfig == [rev \in Revisions |->
    [routes |-> IF rev = 0 THEN {} ELSE Routes, auth |-> Routes,
     upstream |-> Routes, shadow |-> {},
     status |-> [c \in Clients |-> "enabled"],
     default |-> [x \in Routes |-> Limit(MCRate, 1)],
     override |-> [k \in Keys |-> Limit(MCRate, MCLimit)]]]

Symmetric == Permutations(Requests)
=============================================================================
