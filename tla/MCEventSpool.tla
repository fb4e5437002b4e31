---------------------------- MODULE MCEventSpool ----------------------------
(* Instances of EventSpool for TLC.                                        *)
EXTENDS EventSpool, TLC

CONSTANTS s1, s2

\* Two containers, both running as pid 1 on a shared volume.
SharedPid == [p \in Spools |-> 1]

\* Two processes of one host.
OwnPid == [p \in Spools |-> IF p = s1 THEN 1 ELSE 2]

SpoolSymmetry == Permutations(Spools)
=============================================================================
