-------------------------- MODULE SleeperInvariant --------------------------
(***************************************************************************)
(* Why the promises hold: what the memory of a running service owes to the *)
(* log.  The conjunction is inductive.                                     *)
(***************************************************************************)
EXTENDS Sleeper

Running  == pc # "down"
Sending  == pc \in {"sleeping", "waking"}
Awaiting == pc \in {"sleeping", "waking", "latching"}

\* The rows are in time order: the newest row is the last one.
LogInOrder == /\ Ordered(events)
              /\ Awaiting => \A i \in DOMAIN events : events[i].ts <= pollTime

\* A live service believes what the log would tell the next one, also while a
\* command is under way.
BeliefsAgree ==
    Running /\ mode = "live" =>
        /\ mem.asleep = Hydrated(events).asleep
        /\ mem.failures = Hydrated(events).failures
        /\ mem.attention = Hydrated(events).attention
        /\ mem.uncertain => Hydrated(events).uncertain
        /\ mem.waking \in {NoTime, Hydrated(events).waking}
        /\ ~mem.simulated
        /\ ~Sending => mem.lastAttempt = Hydrated(events).lastAttempt

\* Every recorded attempt starts the cooldown in memory, or a later one does:
\* a rehearsed one counts as well.
CooldownIsKept ==
    Running => \A i \in Rows(events, ActuationActions) :
                  events[i].ts <= mem.lastAttempt

\* What the funnel established before the await still holds after it.
FunnelStillHolds ==
    /\ Awaiting => mode = "live" /\ handed = "none" /\ mem.waking = NoTime
    /\ Sending => /\ ~mem.attention /\ mem.lastAttempt = pollTime
                  /\ \A i \in Rows(events, ActuationActions) :
                        pollTime - events[i].ts >= Cooldown
    /\ pc = "sleeping" => mem.asleep = NoTime
    /\ pc = "waking" => mem.asleep # NoTime \/ mem.uncertain
    /\ pc = "latching" => RecentFailures(events) >= MaxFailures

\* Only a latch that is set, or about to be, or was torn, lets the failures
\* reach the limit.
FailuresAreLatched ==
    LatchSet \/ pc = "latching" \/ RecentFailures(events) < MaxFailures + torn

IneffectiveIsCounted ==
    Running => mem.ineffective <= Cardinality(Rows(events, RefutedActions))

IInv == /\ TypeOK /\ LogInOrder /\ BeliefsAgree /\ CooldownIsKept
        /\ FunnelStillHolds /\ FailuresAreLatched /\ IneffectiveIsCounted
        /\ SleptIsNotHandedOver /\ WakesOnlyWhatItSlept /\ ActuationsSpaced
        /\ GivesUp /\ AttentionEarned
=============================================================================
