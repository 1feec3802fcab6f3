------------------------------ MODULE Watchdog ------------------------------
(***************************************************************************)
(* The restart controller of minerwatch/watchdog.py for one miner without  *)
(* a sleep schedule, together with the poll that drives it, the process it *)
(* lives in and the command line that clears its latch from another one.   *)
(*                                                                         *)
(* At most one poll falls into a tick of the clock.  The poll and the      *)
(* funnel of `consider` run without a suspension up to two awaits, which   *)
(* are states of pc: the power-mode read ("asking") and the recovery       *)
(* command ("recovering").  Between them other processes, crashes and time *)
(* interleave.  A reading is recorded and acted upon under the time its    *)
(* poll took it (pollTime), whenever the await ends.                       *)
(***************************************************************************)
EXTENDS FailureClock

CONSTANTS
    FailAfter,      \* fail_after_seconds
    Cooldown,       \* cooldown_seconds
    RateWindow,     \* rate_window_seconds
    MaxRestarts,    \* max_restarts
    Recovery,       \* recovery_seconds
    MaxGap,         \* poll_interval * GAP_TOLERANCE_POLLS
    MaxRows,        \* rows the failure clock reads back
    AsleepRecheck,  \* asleep_recheck_seconds
    Modes,          \* what a start of the service may find: [live, enabled]
    Readings,       \* what a poll may read: [state, working, window]
    PowerAnswers,   \* what the power-mode read may answer
    Outcomes,       \* how a recovery command may end
    PromptPolls,    \* no interval passes without its poll
    MaxClock,       \* bound: last tick
    MaxCrashes,     \* bound: times the service stops
    MaxClears       \* bound: clear-attention commands

ASSUME WatchdogConstants ==
    /\ FailAfter \in Nat /\ Cooldown \in Nat /\ AsleepRecheck \in Nat
    /\ RateWindow \in Nat \ {0} /\ MaxRestarts \in Nat \ {0}
    /\ Recovery \in Nat /\ MaxGap \in Nat /\ MaxRows \in Nat \ {0}
    /\ Modes \subseteq [live : BOOLEAN, enabled : BOOLEAN]
    /\ Readings \subseteq [state   : {"mining", "stopped", "unreachable"},
                           working : BOOLEAN, window : BOOLEAN]
    /\ PowerAnswers \subseteq {"asleep", "awake", "unreadable"}
    /\ Outcomes \subseteq {"restart", "restart_failed"}
    /\ PromptPolls \in BOOLEAN
    /\ MaxClock \in Nat /\ MaxCrashes \in Nat /\ MaxClears \in Nat

\* _parse_watchdog refuses a policy whose attempts cannot share the window.
ASSUME PolicyAccepted == Cooldown * (MaxRestarts - 1) < RateWindow

FailureActions ==
    {"waiting_to_restart", "skipped_needs_attention",
     "skipped_would_need_attention", "skipped_cooldown", "skipped_asleep",
     "would_restart", "restart", "restart_failed", "needs_attention",
     "would_need_attention"}

ResetActions ==
    {"skipped_outside_hours", "skipped_watchdog_disabled", "expected_off",
     "maintenance"}

AttemptActions == {"restart", "restart_failed"}

PollActions == {"none", "alert", "expected_off", "maintenance"}

LogActions == FailureActions \cup ResetActions \cup PollActions
                \cup {"attention_cleared"}

ClockRules ==
    [failure |-> FailureActions, reset |-> ResetActions, mining |-> {"none"},
     notMining |-> {"alert"}, recovery |-> Recovery, maxGap |-> MaxGap,
     maxRows |-> MaxRows]

VARIABLES
    clock,      \* the wall clock, in poll intervals
    polled,     \* whether this interval's poll has begun
    events,     \* the miner's rows of the events table, the only durable state
    mode,       \* how the running service was started
    pc,         \* "down", "idle", "asking" or "recovering"
    pollTime,   \* `now` of the poll whose await is under way
    attempts,   \* _attempts: the times in the miner's deque
    latched,    \* _needs_attention
    rehearsed,  \* _rehearsed_attention
    probe,      \* _asleep_probe: when the power mode was read, and the answer
    lost,       \* history: times of commands sent whose row was never written
    crashes, clears  \* how often each bounded event has happened

volatile == <<attempts, latched, rehearsed, probe>>
bounded  == <<crashes, clears>>
vars == <<clock, polled, events, mode, pc, pollTime, volatile, lost, bounded>>

NoProbe == [at |-> NoTime, answer |-> "unreadable"]

TypeOK ==
    /\ clock \in 0..MaxClock
    /\ polled \in BOOLEAN
    /\ events \in Seq([ts : 0..clock, action : LogActions])
    /\ mode \in Modes
    /\ pc \in {"down", "idle", "asking", "recovering"}
    /\ pollTime \in 0..clock
    /\ attempts \subseteq 0..clock
    /\ latched \in BOOLEAN /\ rehearsed \in BOOLEAN
    /\ probe \in [at : 0..clock \cup {NoTime},
                  answer : {"asleep", "awake", "unreadable"}]
    /\ lost \subseteq 0..clock
    /\ crashes \in 0..MaxCrashes /\ clears \in 0..MaxClears

-----------------------------------------------------------------------------
(***************************************************************************)
(* The deque of attempts.  The clock only moves forward and a poll appends *)
(* its own time, so the deque is sorted and its times are distinct: it is  *)
(* the set of its times, dq[-1] is the largest and popleft takes the       *)
(* smallest.                                                               *)
(***************************************************************************)

\* _evict_expired
Unexpired(dq, now) == {t \in dq : now - t <= RateWindow}

\* Mutant: the oldest attempts are kept instead of the newest.
TrimmedNewest(dq) ==
    LET limit == IF MaxRestarts = 1 THEN 1 ELSE MaxRestarts - 1
    IN  {t \in dq : Cardinality({u \in dq : u < t}) < limit}

\* _trim_after_clear: at most MaxRestarts - 1 entries, but never none.
Trimmed(dq) ==
    LET limit == IF MaxRestarts = 1 THEN 1 ELSE MaxRestarts - 1
    IN  {t \in dq : Cardinality({u \in dq : u > t}) < limit}

\* Mutant: rehearsed attempts are hydrated as well.
HydratedRehearsals(log) == Times(log, AttemptActions \cup {"would_restart"})

\* _hydrate_attempts
HydratedAttempts(log) ==
    LET dq == Times(log, AttemptActions)
    IN  IF Rows(log, {"attention_cleared"}) = {} \/ IsNeedsAttention(log)
        THEN dq
        ELSE Trimmed(dq)

-----------------------------------------------------------------------------
(***************************************************************************)
(* The decision funnel: the conditions of `consider`, each under the name  *)
(* of the branch it takes.                                                 *)
(***************************************************************************)

\* _poll_one: the action of the row that records the reading.
PollAction(r) ==
    CASE r.state = "mining"  -> "none"
      [] r.state # "mining" /\ r.window -> "maintenance"
      [] r.state = "stopped" /\ ~r.window /\ ~r.working -> "expected_off"
      [] OTHER -> "alert"

\* Mutant: the row is stamped with the time the next poll is due.
PolledAhead(r) == Record(events, clock + 1, PollAction(r))

Polled(r) == Record(events, clock, PollAction(r))

\* The reading reaches the controllers and the watchdog has a failure to judge.
Failing(r) == r.state # "mining" /\ ~r.window

FailingFor(log, now) ==
    LET start == FailureClockStart(log, now, ClockRules)
    IN  IF start = NoTime THEN 0 ELSE now - start

Waiting(log, now) == FailAfter > 0 /\ FailingFor(log, now) < FailAfter

CoolingDown(now) ==
    \E last \in attempts : /\ \A t \in attempts : t <= last
                           /\ now - last < Cooldown

\* Mutant: the limit is reached one attempt late.
AboveLimit(now) == Cardinality(Unexpired(attempts, now)) > MaxRestarts

AtLimit(now) == Cardinality(Unexpired(attempts, now)) >= MaxRestarts

\* Branches 2 to 6: the decision that ends the funnel before the limit.
Decline(r) ==
    IF ~mode.enabled THEN "skipped_watchdog_disabled"
    ELSE IF ~r.working THEN "skipped_outside_hours"
    ELSE IF latched THEN "skipped_needs_attention"
    ELSE IF rehearsed THEN "skipped_would_need_attention"
    ELSE IF Waiting(Polled(r), clock) THEN "waiting_to_restart"
    ELSE IF CoolingDown(clock) THEN "skipped_cooldown"
    ELSE "proceed"

\* Mutant: the answer is used once more when it is due to be read again.
FreshUntilDue(now) == probe.at # NoTime /\ now - probe.at <= AsleepRecheck

\* asleep_check answers from its cache.
FreshProbe(now) == probe.at # NoTime /\ now - probe.at < AsleepRecheck

\* Branch 8: only a miner confirmed asleep is held back.
HoldsBack(answer) == answer = "asleep"

-----------------------------------------------------------------------------
(* The service starts, and stops at any moment: a crash, a reboot, an      *)
(* operator.                                                               *)

Forget == /\ attempts' = {} /\ latched' = FALSE /\ rehearsed' = FALSE
          /\ probe' = NoProbe

\* Mutant: the latch is not read back.
HydrateAttemptsOnly == /\ attempts' = HydratedAttempts(events)
                       /\ latched' = FALSE
                       /\ rehearsed' = FALSE /\ probe' = NoProbe

\* __init__: what the log says is believed again.
Hydrate == /\ attempts' = HydratedAttempts(events)
           /\ latched' = IsNeedsAttention(events)
           /\ rehearsed' = FALSE /\ probe' = NoProbe

Init == /\ clock = 0 /\ polled = FALSE /\ events = <<>>
        /\ mode \in Modes /\ pc = "idle" /\ pollTime = 0
        /\ attempts = {} /\ latched = FALSE /\ rehearsed = FALSE
        /\ probe = NoProbe
        /\ lost = {} /\ crashes = 0 /\ clears = 0

Start == /\ pc = "down" /\ pc' = "idle"
         /\ mode' \in Modes
         /\ Hydrate
         /\ UNCHANGED <<clock, polled, events, pollTime, lost, bounded>>

Crash == /\ pc # "down" /\ crashes < MaxCrashes
         /\ crashes' = crashes + 1
         /\ pc' = "down"
         /\ Forget
         /\ lost' = IF pc = "recovering" THEN lost \cup {pollTime} ELSE lost
         /\ UNCHANGED <<clock, polled, events, mode, pollTime, clears>>

\* cmd_clear_attention: another process, with a Watchdog of its own that dies
\* with it.  The running service keeps what it holds.
ClearAttention == /\ clears < MaxClears
                  /\ clears' = clears + 1
                  /\ events' = Record(events, clock, "attention_cleared")
                  /\ UNCHANGED <<clock, polled, mode, pc, pollTime, volatile,
                                 lost, crashes>>

Tick == /\ clock < MaxClock
        /\ PromptPolls => pc = "idle" /\ polled
        /\ clock' = clock + 1
        /\ polled' = FALSE
        /\ UNCHANGED <<events, mode, pc, pollTime, volatile, lost, bounded>>

-----------------------------------------------------------------------------
(* One poll: _poll_one and the synchronous part of `consider`.             *)

Poll == /\ pc = "idle" /\ ~polled
        /\ polled' = TRUE
        /\ UNCHANGED <<clock, mode, lost, bounded>>

\* The reading is recorded and neither controller has anything to judge:
\* mining, or inside a maintenance window.
Observe(r) == /\ Poll
              /\ ~Failing(r)
              /\ events' = Polled(r)
              /\ UNCHANGED <<pc, pollTime, volatile>>

\* Branches 2 to 6.
DeclineRestart(r) == /\ Poll
                     /\ Failing(r) /\ Decline(r) # "proceed"
                     /\ events' = Record(Polled(r), clock, Decline(r))
                     /\ UNCHANGED <<pc, pollTime, volatile>>

Proceeds(r) == Poll /\ Failing(r) /\ Decline(r) = "proceed"

\* Branch 7, live: hand the miner to a human.
Latch(r) == /\ mode.live /\ AtLimit(clock) /\ Proceeds(r)
            /\ attempts' = Unexpired(attempts, clock)
            /\ latched' = TRUE
            /\ events' = Record(Polled(r), clock, "needs_attention")
            /\ UNCHANGED <<pc, pollTime, rehearsed, probe>>

\* Branch 7, rehearsing: a latch that dies with the process.
RehearseLatch(r) ==
    /\ ~mode.live /\ AtLimit(clock) /\ Proceeds(r)
    /\ attempts' = Unexpired(attempts, clock)
    /\ rehearsed' = TRUE
    /\ events' = Record(Polled(r), clock, "would_need_attention")
    /\ UNCHANGED <<pc, pollTime, latched, probe>>

\* Branches 9 and 10: rehearse the restart, or begin the recovery command.
Actuate(log, dq, now) ==
    /\ pollTime' = now
    /\ UNCHANGED <<latched, rehearsed>>
    /\ IF mode.live
       THEN pc' = "recovering" /\ attempts' = dq /\ events' = log
       ELSE /\ pc' = "idle"
            /\ attempts' = dq \cup {now}
            /\ events' = Record(log, now, "would_restart")

UnderLimit(r) == ~AtLimit(clock) /\ Proceeds(r)

\* The power guard does not apply, or its cached answer lets the restart go.
GoAhead(r) == /\ r.state = "stopped" => FreshProbe(clock) /\ ~HoldsBack(probe.answer)
              /\ UnderLimit(r)
              /\ Actuate(Polled(r), Unexpired(attempts, clock), clock)
              /\ UNCHANGED probe

\* Branch 8 from the cache.
HoldAsleep(r) == /\ r.state = "stopped" /\ FreshProbe(clock) /\ HoldsBack(probe.answer)
                 /\ UnderLimit(r)
                 /\ attempts' = Unexpired(attempts, clock)
                 /\ events' = Record(Polled(r), clock, "skipped_asleep")
                 /\ UNCHANGED <<pc, pollTime, latched, rehearsed, probe>>

AskPowerMode(r) == /\ r.state = "stopped" /\ ~FreshProbe(clock)
                   /\ UnderLimit(r)
                   /\ pc' = "asking" /\ pollTime' = clock
                   /\ attempts' = Unexpired(attempts, clock)
                   /\ events' = Polled(r)
                   /\ UNCHANGED <<latched, rehearsed, probe>>

\* asleep_check returns: branch 8, or on to 9 and 10.  An answer that could
\* not be read does not hold the restart back.
PowerAnswered(a) ==
    /\ pc = "asking"
    /\ probe' = [at |-> pollTime, answer |-> a]
    /\ IF HoldsBack(a)
       THEN /\ pc' = "idle"
            /\ events' = Record(events, pollTime, "skipped_asleep")
            /\ UNCHANGED <<pollTime, attempts, latched, rehearsed>>
       ELSE Actuate(events, attempts, pollTime)
    /\ UNCHANGED <<clock, polled, mode, lost, bounded>>

\* recover returns: the attempt enters the deque and the log together.
Recovered(outcome) ==
    /\ pc = "recovering" /\ pc' = "idle"
    /\ attempts' = attempts \cup {pollTime}
    /\ events' = Record(events, pollTime, outcome)
    /\ UNCHANGED <<clock, polled, mode, pollTime, latched, rehearsed, probe,
                   lost, bounded>>

\* The bounded clock has run out; nothing is left to check.
HorizonReached == clock = MaxClock /\ UNCHANGED vars

PollStep == \E r \in Readings :
                \/ Observe(r) \/ DeclineRestart(r)
                \/ Latch(r) \/ RehearseLatch(r)
                \/ GoAhead(r) \/ HoldAsleep(r) \/ AskPowerMode(r)

AwaitStep == \/ \E a \in PowerAnswers : PowerAnswered(a)
             \/ \E o \in Outcomes : Recovered(o)

Next == PollStep \/ AwaitStep \/ Tick \/ Start \/ Crash \/ ClearAttention
            \/ HorizonReached

Spec == Init /\ [][Next]_vars

-----------------------------------------------------------------------------
(***************************************************************************)
(* Safety.                                                                 *)
(***************************************************************************)

Attempts == Times(events, AttemptActions)

\* cooldown_seconds: any two recorded attempts on a miner are at least
\* Cooldown apart, whatever restarts of the service, rehearsals, clears and
\* trimmed deques lie between them.
AttemptsSpaced ==
    \A i, j \in Rows(events, AttemptActions) :
        i < j => events[j].ts - events[i].ts >= Cooldown

\* rate_window_seconds: as long as nobody clears the miner, no span of
\* RateWindow holds more than MaxRestarts recorded attempts, across restarts
\* of the service.
RateLimited ==
    Rows(events, {"attention_cleared"}) = {} =>
        \A t \in Attempts :
            Cardinality({u \in Attempts : t <= u /\ u <= t + RateWindow})
                <= MaxRestarts

\* A durable latch was earned: MaxRestarts real attempts were recorded inside
\* the window before it.  Rehearsed attempts and attempts a clear forgave
\* do not hand a miner to a human.
LatchEarned ==
    \A i \in Rows(events, {"needs_attention"}) :
        Cardinality({u \in Attempts : /\ events[i].ts - RateWindow <= u
                                      /\ u <= events[i].ts})
            >= MaxRestarts

\* While the log says a miner waits for a human, no command is on its way to
\* it: not from the process that latched it and not from one started later,
\* live or rehearsing.
QuietWhileLatched ==
    pc = "recovering" => ~IsNeedsAttention(events)

\* fail_after_seconds: an attempt at t was preceded by a failure observed at
\* least FailAfter earlier, and within FailAfter of it the miner was not once
\* seen legitimately off (out of hours, in maintenance, unwatched).
ConfirmedBeforeAttempt ==
    LET failed == Times(events, FailureActions)
        off    == Times(events, ResetActions)
    IN  \A t \in Attempts :
            /\ FailAfter > 0 => \E s \in failed : s <= t - FailAfter
            /\ \A s \in off : s < t - FailAfter \/ s > t

\* What a wait that was recorded as row i went by: the newest MaxRows rows there
\* were when its poll was judged.
ReadFor(i) == History(SubSeq(events, 1, i - 1), events[i].ts, MaxRows)

\* A poll that still waits at t has seen, after every failure recorded FailAfter
\* or more before t, the miner legitimately off or mining over at least
\* Recovery, whatever restarts and gaps lie between; or MaxRows rows were written
\* since and that failure was no longer among those the clock read back.
WaitIsBounded ==
    LET failed == Times(events, FailureActions)
        off    == Times(events, ResetActions)
        mined  == Times(events, {"none"})
    IN  \A i \in Rows(events, {"waiting_to_restart"}), s \in failed :
            LET t == events[i].ts
            IN  s <= t - FailAfter =>
                    \/ \E u \in off : s < u /\ u < t
                    \/ \E u, v \in mined : s < u /\ u + Recovery <= v /\ v < t
                    \/ /\ Len(ReadFor(i)) = MaxRows
                       /\ s \notin Times(ReadFor(i), FailureActions)

\* max_restarts: a miner that never mines and is never cleared is restarted
\* at most MaxRestarts times before a human takes over.
HandedToHuman ==
    Rows(events, {"none", "attention_cleared"}) = {} =>
        Cardinality(Attempts) <= MaxRestarts

\* Since the last clear, the attempts inside one window stay within the
\* budget, whether or not the service has restarted.
RateLimitedSinceClear ==
    LET clearedAt == Times(events, {"attention_cleared"})
        since     == {t \in Attempts : \A c \in clearedAt : c < t}
    IN  \A t \in since :
            Cardinality({u \in since : t <= u /\ u <= t + RateWindow})
                <= MaxRestarts
=============================================================================
