------------------------- MODULE WatchdogInvariant --------------------------
(***************************************************************************)
(* Why the promises hold: what the memory of a running service owes to the *)
(* log.  The conjunction is inductive.  And what they come to: the         *)
(* watchdog implements RestartBudget.                                      *)
(***************************************************************************)
EXTENDS Watchdog

Running  == pc # "down"
InFlight == pc \in {"asking", "recovering"}
Cleared  == Rows(events, {"attention_cleared"}) # {}

\* A live deque holds recorded attempts only: rehearsed ones died with the
\* process that rehearsed them.
DequeIsBacked == Running /\ mode.live => attempts \subseteq Attempts

\* An attempt that could still be cooling down is in the deque, or a later
\* one is: eviction, trimming and hydration keep the newest.
NewestIsKept ==
    Running => \A t \in Attempts :
                  clock - t >= Cooldown \/ \E a \in attempts : t <= a

\* Unless a clear trimmed it, the deque holds every attempt of the window.
WindowIsKept ==
    Running /\ ~Cleared =>
        \A t \in Attempts : clock - t <= RateWindow => t \in attempts

\* A durable latch is held in memory by every process that runs.
LatchIsKept == Running /\ IsNeedsAttention(events) => latched

\* What the funnel established before its first await still holds after it.
FunnelStillHolds ==
    /\ pc = "recovering" => mode.live
    /\ InFlight => ~latched
    /\ InFlight => \A t \in Attempts : pollTime - t >= Cooldown
    /\ InFlight /\ mode.live /\ ~Cleared =>
          Cardinality({t \in Attempts : pollTime - t <= RateWindow}) < MaxRestarts

IInv == /\ TypeOK
        /\ DequeIsBacked /\ NewestIsKept /\ WindowIsKept /\ LatchIsKept
        /\ FunnelStillHolds
        /\ AttemptsSpaced /\ RateLimited /\ LatchEarned

-----------------------------------------------------------------------------
(***************************************************************************)
(* Why the failure clock can be believed: what the log says of the polls.  *)
(* With TypeOK this conjunction is inductive too.                          *)
(***************************************************************************)

\* When a poll recorded a reading, or a decision upon it.
PollTimes == Times(events, LogActions \ {"attention_cleared"})

Failed == Times(events, FailureActions)
Off    == Times(events, ResetActions)
Mined  == Times(events, {"none"})

\* A tick has one poll, and one poll records evidence of one kind, also when
\* its decision is written after an await.
OnePollATick ==
    /\ clock \in PollTimes => polled
    /\ Failed \cap Off = {} /\ Failed \cap Mined = {}
    /\ InFlight => /\ \A t \in PollTimes : t <= pollTime
                   /\ pollTime \notin Failed \cup Off \cup Mined
                   /\ pollTime = clock => polled

\* The failure an attempt at t would be for was confirmed.
Confirmed(t) == /\ FailAfter > 0 => \E s \in Failed : s <= t - FailAfter
                /\ \A s \in Off : s < t - FailAfter \/ s > t

AttemptIsConfirmed == InFlight => Confirmed(pollTime)

NobodyWaitsForNothing == Times(events, {"waiting_to_restart"}) # {} => FailAfter > 0

ClockInv == /\ OnePollATick /\ AttemptIsConfirmed /\ NobodyWaitsForNothing
            /\ ConfirmedBeforeAttempt /\ WaitIsBounded

-----------------------------------------------------------------------------
(***************************************************************************)
(* What the promises come to: the watchdog implements RestartBudget.       *)
(***************************************************************************)

UnderWay  == IF pc = "recovering" THEN pollTime ELSE NoTime
Charge    == IF IsNeedsAttention(events) THEN "human" ELSE "service"
ClearedAt == Times(events, {"attention_cleared"})

Budget == INSTANCE RestartBudget WITH
            now <- clock, restarts <- Attempts, underWay <- UnderWay,
            charge <- Charge, clears <- ClearedAt

\* Restarts begin one at a time, after the cooldown and within the budget; the
\* miner goes to a human only when that is used up, and nothing but a clear
\* gives it back: no restart of the service, no rehearsal, no await that
\* outlasts the clear.
KeepsBudget == Budget!Spec
=============================================================================
