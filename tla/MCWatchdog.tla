----------------------------- MODULE MCWatchdog -----------------------------
(* Values of the Watchdog's constants for the model-checking runs.         *)
EXTENDS WatchdogInvariant

Live      == [live |-> TRUE, enabled |-> TRUE]
Rehearsal == [live |-> FALSE, enabled |-> TRUE]

LiveOnly        == {Live}
LiveOrRehearsal == {Live, Rehearsal}

Reading(s, w) == [state |-> s, working |-> w, window |-> FALSE]

\* One reading of each class the funnel tells apart: a miner in maintenance
\* resets the clock and declines as one off hours does.
AnyReading == {Reading("mining", TRUE), Reading("stopped", TRUE), Reading("stopped", FALSE)}
DeadMiner  == {Reading("unreachable", TRUE)}

\* A bound: somebody clears a miner that the service has acted upon, really or
\* in rehearsal.  An earlier clear has nothing to forgive.
ClearsFollowActs ==
    Cleared => Rows(events, AttemptActions \cup {"would_restart"}) # {}
=============================================================================
