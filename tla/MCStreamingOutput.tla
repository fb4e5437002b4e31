------------------------- MODULE MCStreamingOutput --------------------------
(* Instances of StreamingOutput for TLC: runes "s", "n" and "x".           *)
EXTENDS StreamingOutput

Runes == {"s", "n", "x"}

TwoS == <<"s", "s">>
OneN == <<"n">>

\* Deltas that fit the window of three next to the tail of a Secret of two, and
\* one so long that the window drops the Secret at its head.
SomeDeltas == {<<>>, <<"x">>, <<"s">>, <<"n">>, <<"s", "x">>, <<"x", "s">>, <<"n", "s">>,
               <<"s", "s", "x", "x">>}
=============================================================================
