------------------------- MODULE MCCardinalityLimiter -------------------------
\* Two concurrent calls, two keys at most.  With the default thresholds
\* (0.75 and 0.90) tagged is aggregated down to plain, both orders of the
\* same two labels are low, storm is critical and other is of a metric type
\* the processor does not look at.
EXTENDS CardinalityLimiter, TLC

CONSTANTS w1, w2, svc, host, tag, rnd, plain, tagged, ab, ba, storm, other

MCAttributes ==
    (plain :> <<svc>>) @@ (tagged :> <<svc, tag>>) @@ (ab :> <<svc, host>>)
    @@ (ba :> <<host, svc>>) @@ (storm :> <<rnd>>) @@ (other :> <<tag, rnd>>)
MCChars == (svc :> 20) @@ (host :> 20) @@ (tag :> 65) @@ (rnd :> 100)
MCPoints == {plain, tagged, ab, ba, storm, other}
MCBatches == {<<plain, tagged>>, <<ab>>, <<ba, storm>>, <<other>>}
=============================================================================
