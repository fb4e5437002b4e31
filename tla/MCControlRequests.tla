-------------------------- MODULE MCControlRequests --------------------------
(* Instances of ControlRequests for TLC: two creates of one client, a patch *)
(* and a revocation of it.                                                  *)
EXTENDS ControlRequests

CONSTANTS e1, e2, a1, a2

MCOperation ==
    [r \in Calls |-> CASE r \in {"c1", "c2"} -> "create"
                       [] r = "p" -> "patch"
                       [] r = "v" -> "revoke"]
MCClient ==
    [r \in Calls |-> [id |-> "id", name |-> IF r = "c1" THEN "n1" ELSE "n2",
                      status |-> IF r = "p" THEN "disabled" ELSE "enabled"]]
=============================================================================
