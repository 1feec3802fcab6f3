------------------------------- MODULE Sleeper -------------------------------
(***************************************************************************)
(* The power controller of minerwatch/sleeper.py for one miner with a      *)
(* schedule and software power control enabled: the poll that drives it,   *)
(* the miner it drives and the process it lives in.  What other processes  *)
(* do to the miner and the log is in the module Supervisor.                *)
(*                                                                         *)
(* At most one poll falls into a tick of the clock.  `consider` runs       *)
(* without a suspension up to the await of the driver's command            *)
(* ("sleeping", "waking").  When the command fails for the last allowed    *)
(* time the code commits two rows; the state between the two commits is    *)
(* "latching".  Only the rows this controller writes are kept: it reads no *)
(* others.                                                                 *)
(***************************************************************************)
EXTENDS EventLog

CONSTANTS
    Grace,       \* grace_seconds
    Cooldown,    \* cooldown_seconds
    MaxFailures, \* max_failures; at most the 100 rows the hydration reads back
    WorkTicks,   \* when the schedule says the miner works
    Settle,      \* how long the hashrate lags behind the power mode
    Answers,     \* how a command may end: [took, ok]
    Faults,      \* what a broken miner or a broken link may read as
    Modes,       \* whether a start of the service drives hardware
    PromptPolls, \* no interval passes without its poll
    MaxClock,    \* bound: last tick
    MaxCrashes,  \* bound: times the service stops
    MaxByHand    \* bound: wakes through the miner's own web page

ASSUME SleeperConstants ==
    /\ Grace \in Nat /\ Cooldown \in Nat /\ Settle \in Nat
    /\ MaxFailures \in 1..100
    /\ WorkTicks \subseteq Nat
    /\ Answers \subseteq [took : BOOLEAN, ok : BOOLEAN]
    /\ Faults \subseteq {"mining", "stopped", "unreachable"}
    /\ Modes \subseteq {"live", "rehearsal"}
    /\ PromptPolls \in BOOLEAN
    /\ MaxClock \in Nat /\ MaxCrashes \in Nat
    /\ MaxByHand \in Nat

FailureActions   == {"sleep_failed", "wake_failed"}
ActuationActions == {"sleep", "wake"} \cup FailureActions
AttentionActions == {"sleep_needs_attention", "sleep_attention_cleared"}

\* POWER_ACTIONS + UNCERTAIN_ACTIONS
PowerActions == {"sleep", "wake", "awake", "sleep_failed"}

\* A reading that refutes an acknowledged sleep.
RefutedActions == {"awake"}

LogActions == ActuationActions \cup AttentionActions \cup PowerActions \cup
                {"would_sleep", "would_wake",
                 "skipped_sleep_cooldown", "skipped_wake_cooldown"}

States == {"mining", "stopped", "unreachable"}

VARIABLES
    clock,   \* the wall clock, in poll intervals
    polled,  \* whether this interval's poll has begun
    events,  \* the rows of the events table the controller writes
    miner,   \* the machine: in sleep mode or not, and since when
    mode,    \* how the running service was started
    pc,      \* "down", "idle", "sleeping", "waking" or "latching"
    pollTime,\* `now` of the poll whose await is under way
    mem,     \* the controller's dictionaries and sets
    handed,  \* history: the reading this interval's poll left to the watchdog
    torn,    \* history: latches lost between two commits
    lost,    \* history: whether a sleep took when the service stopped
    crashes, byHand  \* how often each bounded event has happened

bounded == <<crashes, byHand>>
vars == <<clock, polled, events, miner, mode, pc, pollTime, mem, handed, torn,
          lost, bounded>>

Moment(now) == 0..now \cup {NoTime}

Memory(now) ==
    [asleep : Moment(now), waking : Moment(now), lastAttempt : Moment(now),
     skipLogged : Moment(now), failures : Nat, ineffective : Nat,
     simulated : BOOLEAN, uncertain : BOOLEAN, attention : BOOLEAN]

TypeOK ==
    /\ clock \in 0..MaxClock
    /\ polled \in BOOLEAN
    /\ events \in Seq([ts : 0..clock, action : LogActions])
    /\ miner \in [asleep : BOOLEAN, since : Moment(clock)]
    /\ mode \in Modes
    /\ pc \in {"down", "idle", "sleeping", "waking", "latching"}
    /\ pollTime \in 0..clock
    /\ mem \in Memory(clock)
    /\ handed \in States \cup {"none"}
    /\ torn \in 0..crashes /\ lost \in BOOLEAN
    /\ crashes \in 0..MaxCrashes /\ byHand \in 0..MaxByHand

-----------------------------------------------------------------------------
(* The machine.  Its mode changes when a command takes; what a poll reads  *)
(* may lag behind by Settle, and a fault may read as anything.             *)

Switched(asleep) == IF miner.asleep = asleep THEN miner
                    ELSE [asleep |-> asleep, since |-> clock]

Settling == miner.since # NoTime /\ clock - miner.since < Settle

Shows(s) == \/ s \in Faults
            \/ s = "stopped" /\ (miner.asleep \/ Settling)
            \/ s = "mining" /\ (~miner.asleep \/ Settling)

Working == clock \in WorkTicks

-----------------------------------------------------------------------------
(* Startup: what the log says is believed again.                           *)

\* Mutant: the newest command settles it, whether it succeeded or not.
LastCommand(log) == LastActionIn(log, ActuationActions)

\* Mutant: a rehearsed sleep is believed.
LastPowerRehearsed(log) ==
    LET row == LastActionIn(log, PowerActions \cup {"would_sleep"})
    IN  IF row.action = "would_sleep" THEN Row(row.ts, "sleep") ELSE row

\* The newest row that says where the miner is, or that nobody knows.
LastPower(log) == LastActionIn(log, PowerActions)

\* Mutant: failed commands start no cooldown.
LastSuccess(log) == LastActionIn(log, {"sleep", "wake"})

LastAttempt(log) == LastActionIn(log, ActuationActions)

\* Mutant: the latch dies with the process.
NotLatched(log) == FALSE

IsLatched(log) ==
    LastActionIn(log, AttentionActions).action = "sleep_needs_attention"

\* Mutant: the count starts again with every process.
NoFailures(log) == 0

\* _count_recent_failures: back from the newest row to the last success or
\* clear.
RecentFailures(log) ==
    Cardinality({i \in Rows(log, FailureActions) :
                    \A j \in Rows(log, {"sleep", "wake", "sleep_attention_cleared"}) :
                        Older(log, j, i)})

HydratedFailures(log) == RecentFailures(log)

Blank == [asleep |-> NoTime, simulated |-> FALSE, waking |-> NoTime,
          lastAttempt |-> NoTime, skipLogged |-> NoTime, failures |-> 0,
          ineffective |-> 0, uncertain |-> FALSE, attention |-> FALSE]

\* _hydrate
Hydrated(log) ==
    LET power    == LastPower(log)
        Since(a) == IF power.action = a THEN power.ts ELSE NoTime
    IN  [Blank EXCEPT
            !.asleep      = Since("sleep"),
            !.waking      = Since("wake"),
            !.uncertain   = power.action = "sleep_failed",
            !.lastAttempt = LastAttempt(log).ts,
            !.failures    = HydratedFailures(log),
            !.attention   = IsLatched(log)]

-----------------------------------------------------------------------------
(***************************************************************************)
(* The decision funnel of `consider` for a reading s.                      *)
(***************************************************************************)

\* Mutant: a miner that still hashes at the next poll did not sleep.
StaleAtOnce(s) == s = "mining" /\ mem.asleep # NoTime /\ ~mem.simulated

\* Step 2: beyond the grace a miner that hashes is not asleep.
Stale(s) == /\ s = "mining" /\ mem.asleep # NoTime /\ ~mem.simulated
            /\ clock - mem.asleep >= Grace

\* The sleep did not take: the latch is dropped and the cycle counted.
Ineffective(m) ==
    [m EXCEPT !.asleep = NoTime,
              !.ineffective = @ + 1,
              !.attention = @ \/ m.ineffective + 1 >= MaxFailures]

\* The memory steps 3 to 9 judge by, and the rows written on the way.
Seen(s) ==
    LET m == IF s = "mining" THEN [mem EXCEPT !.uncertain = FALSE] ELSE mem
    IN  IF Stale(s) THEN Ineffective(m) ELSE m

\* Mutant: the row is stamped with the time the next poll is due.
SeenLogAhead(s) ==
    IF Stale(s) THEN Record(events, clock + 1, "awake") ELSE events

SeenLog(s) ==
    IF ~Stale(s) THEN events
    ELSE LET log == Record(events, clock, "awake")
         IN  IF mem.ineffective + 1 < MaxFailures THEN log
             ELSE Record(log, clock, "sleep_needs_attention")

\* Mutant: a wake is waited for without end.
SpinningUpForever(m, s) == s # "mining" /\ m.waking # NoTime

SpinningUp(m, s) ==
    s # "mining" /\ m.waking # NoTime /\ clock - m.waking < Grace

\* First match wins.
Verdict(m, s) ==
    LET asleep == m.asleep # NoTime IN
    IF s = "mining" /\ asleep
        THEN IF m.simulated /\ Working THEN "wake" ELSE "owned"
    ELSE IF m.attention THEN IF asleep THEN "owned" ELSE "released"
    ELSE IF SpinningUp(m, s) THEN "owned"
    ELSE IF s = "unreachable" THEN "released"
    ELSE IF ~Working
        THEN IF s = "mining" THEN "sleep" ELSE IF asleep THEN "owned" ELSE "released"
    ELSE IF s = "stopped" /\ (asleep \/ m.uncertain) THEN "wake"
    ELSE "released"

\* What the steps passed through forget: the spin-up of step 4 is over, and
\* at step 7 a miner found asleep proves that its sleep worked.
Judged(m, s) ==
    LET passed3 == ~m.attention /\ ~(s = "mining" /\ m.asleep # NoTime)
        passed4 == passed3 /\ ~SpinningUp(m, s)
        proved  == passed4 /\ ~Working /\ s = "stopped" /\ m.asleep # NoTime
    IN  [m EXCEPT !.waking = IF passed4 THEN NoTime ELSE @,
                  !.ineffective = IF proved THEN 0 ELSE @]

CoolingDown(m) ==
    m.lastAttempt # NoTime /\ clock - m.lastAttempt < Cooldown

\* Mutant: a success does not reset the failure count.
LatchedStillFailing(m, to, now, simulated) ==
    [m EXCEPT !.uncertain = FALSE,
              !.asleep = IF to = "sleep" THEN now ELSE NoTime,
              !.waking = IF to = "sleep" THEN NoTime ELSE now,
              !.simulated = simulated]

\* _apply_latch, and the failures a success forgets.
Latched(m, to, now, simulated) ==
    [m EXCEPT !.uncertain = FALSE,
              !.asleep = IF to = "sleep" THEN now ELSE NoTime,
              !.waking = IF to = "sleep" THEN NoTime ELSE now,
              !.simulated = simulated,
              !.failures = 0]

-----------------------------------------------------------------------------
(* The service starts, and stops at any moment.                            *)

Init == /\ clock = 0 /\ polled = FALSE /\ events = <<>>
        /\ miner = [asleep |-> FALSE, since |-> NoTime]
        /\ mode \in Modes /\ pc = "idle" /\ pollTime = 0
        /\ mem = Blank
        /\ handed = "none" /\ torn = 0 /\ lost = FALSE
        /\ crashes = 0 /\ byHand = 0

Start == /\ pc = "down" /\ pc' = "idle"
         /\ mode' \in Modes
         /\ mem' = Hydrated(events)
         /\ handed' = "none"
         /\ UNCHANGED <<clock, polled, events, miner, pollTime, torn, lost, bounded>>

\* A command under way takes or not; nobody is left to record it.
Crash == /\ pc # "down" /\ crashes < MaxCrashes
         /\ crashes' = crashes + 1
         /\ pc' = "down" /\ mem' = Blank
         /\ torn' = IF pc = "latching" THEN torn + 1 ELSE torn
         /\ \/ UNCHANGED <<miner, lost>>
            \/ /\ pc \in {"sleeping", "waking"} /\ \E a \in Answers : a.took
               /\ miner' = Switched(pc = "sleeping")
               /\ lost' = (lost \/ pc = "sleeping")
         /\ UNCHANGED <<clock, polled, events, mode, pollTime, handed, byHand>>

Tick == /\ clock < MaxClock
        /\ PromptPolls => pc = "idle" /\ polled
        /\ clock' = clock + 1
        /\ polled' = FALSE /\ handed' = "none"
        /\ UNCHANGED <<events, miner, mode, pc, pollTime, mem, torn, lost, bounded>>

-----------------------------------------------------------------------------
(* One poll: the reading, and `consider` up to its await.                  *)

Poll(s) == /\ pc = "idle" /\ ~polled /\ Shows(s)
           /\ polled' = TRUE
           /\ UNCHANGED <<clock, miner, mode, torn, lost, bounded>>

\* The state is the controller's business; there is nothing to do.
Own(s) == /\ Poll(s) /\ Verdict(Seen(s), s) = "owned"
          /\ mem' = Judged(Seen(s), s)
          /\ events' = SeenLog(s)
          /\ handed' = "none"
          /\ UNCHANGED <<pc, pollTime>>

Release(s) == /\ Poll(s) /\ Verdict(Seen(s), s) = "released"
              /\ mem' = Judged(Seen(s), s)
              /\ events' = SeenLog(s)
              /\ handed' = s
              /\ UNCHANGED <<pc, pollTime>>

Transition(s, to) == /\ Poll(s) /\ Verdict(Seen(s), s) = to
                     /\ handed' = "none"

\* _transition: one row for each cooldown.
SkipForCooldown(s, to) ==
    LET m == Judged(Seen(s), s) IN
    /\ Transition(s, to) /\ CoolingDown(m)
    /\ mem' = [m EXCEPT !.skipLogged = m.lastAttempt]
    /\ events' = IF m.skipLogged = m.lastAttempt THEN SeenLog(s)
                 ELSE Record(SeenLog(s), clock,
                             IF to = "sleep" THEN "skipped_sleep_cooldown"
                                             ELSE "skipped_wake_cooldown")
    /\ UNCHANGED <<pc, pollTime>>

\* _actuate, rehearsing: the latch moves, no hardware does.
Rehearse(s, to) ==
    LET m == [Judged(Seen(s), s) EXCEPT !.lastAttempt = clock] IN
    /\ Transition(s, to) /\ ~CoolingDown(Judged(Seen(s), s)) /\ mode = "rehearsal"
    /\ mem' = Latched(m, to, clock, TRUE)
    /\ events' = Record(SeenLog(s), clock,
                        IF to = "sleep" THEN "would_sleep" ELSE "would_wake")
    /\ UNCHANGED <<pc, pollTime>>

\* _actuate, live: the driver's command is awaited.
Send(s, to) ==
    LET m == Judged(Seen(s), s) IN
    /\ Transition(s, to) /\ ~CoolingDown(m) /\ mode = "live"
    /\ mem' = [m EXCEPT !.lastAttempt = clock]
    /\ events' = SeenLog(s)
    /\ pc' = IF to = "sleep" THEN "sleeping" ELSE "waking"
    /\ pollTime' = clock

-----------------------------------------------------------------------------
(* The driver returns.                                                     *)

Returns(a) == /\ pc \in {"sleeping", "waking"}
              /\ miner' = IF a.took THEN Switched(pc = "sleeping") ELSE miner
              /\ UNCHANGED <<clock, polled, mode, pollTime, handed, torn, lost, bounded>>

Acknowledged(a) ==
    LET to == IF pc = "sleeping" THEN "sleep" ELSE "wake" IN
    /\ Returns(a) /\ a.ok
    /\ mem' = Latched(mem, to, pollTime, FALSE)
    /\ events' = Record(events, pollTime, to)
    /\ pc' = "idle"

\* Mutant: a failed sleep is taken for a miner that is awake.
FailedForSure(a) ==
    /\ Returns(a) /\ ~a.ok
    /\ mem' = [mem EXCEPT !.failures = @ + 1]
    /\ events' = Record(events, pollTime,
                        IF pc = "sleeping" THEN "sleep_failed" ELSE "wake_failed")
    /\ pc' = IF mem.failures + 1 >= MaxFailures THEN "latching" ELSE "idle"

\* A failed sleep leaves a doubt: it may have taken.
Failed(a) ==
    /\ Returns(a) /\ ~a.ok
    /\ mem' = [mem EXCEPT !.failures = @ + 1,
                          !.uncertain = @ \/ pc = "sleeping"]
    /\ events' = Record(events, pollTime,
                        IF pc = "sleeping" THEN "sleep_failed" ELSE "wake_failed")
    /\ pc' = IF mem.failures + 1 >= MaxFailures THEN "latching" ELSE "idle"

\* The second commit of the last failure.
LatchAttention == /\ pc = "latching" /\ pc' = "idle"
                  /\ mem' = [mem EXCEPT !.attention = TRUE]
                  /\ events' = Record(events, pollTime, "sleep_needs_attention")
                  /\ UNCHANGED <<clock, polled, miner, mode, pollTime, handed, torn,
                                 lost, bounded>>

\* Somebody sets the mode back on the miner's own web page.
WokenByHand == /\ byHand < MaxByHand /\ miner.asleep
               /\ miner' = Switched(FALSE)
               /\ byHand' = byHand + 1
               /\ UNCHANGED <<clock, polled, events, mode, pc, pollTime, mem,
                              handed, torn, lost, crashes>>

\* The bounded clock has run out; nothing is left to check.
HorizonReached == clock = MaxClock /\ UNCHANGED vars

Polls(s) == \/ Own(s) \/ Release(s)
            \/ \E to \in {"sleep", "wake"} :
                  SkipForCooldown(s, to) \/ Rehearse(s, to) \/ Send(s, to)

PollStep == \E s \in States : Polls(s)

AwaitStep == LatchAttention \/ \E a \in Answers : Acknowledged(a) \/ Failed(a)

Next == PollStep \/ AwaitStep \/ Tick \/ Start \/ Crash \/ WokenByHand
            \/ HorizonReached

Spec == Init /\ [][Next]_vars

-----------------------------------------------------------------------------
(***************************************************************************)
(* Safety.                                                                 *)
(***************************************************************************)

Power     == LastActionIn(events, PowerActions).action
LatchSet  == LastActionIn(events, AttentionActions).action = "sleep_needs_attention"

\* The watchdog must not fight the scheduler: a live service never leaves a
\* stopped miner to the watchdog while the log says that it slept it, in or
\* out of hours, latched or not, before or after a restart.
SleptIsNotHandedOver ==
    mode = "live" /\ handed = "stopped" => Power # "sleep"

\* 15 September: a miner that took a sleep nobody could confirm is woken when
\* its window opens, and not left to the watchdog, unless a human was called.
DoubtfulIsWoken ==
    mode = "live" /\ handed = "stopped" /\ Working
        /\ miner.asleep /\ Power = "sleep_failed" => LatchSet

\* Only a miner that was slept, or may have been, is woken: just before a
\* wake the log says so, whatever was rehearsed in between.
WakesOnlyWhatItSlept ==
    \A i \in Rows(events, {"wake", "wake_failed"}) :
        LastActionIn(SubSeq(events, 1, i - 1), PowerActions).action
            \in {"sleep", "sleep_failed"}

\* cooldown_seconds: any two recorded attempts are at least Cooldown apart,
\* across restarts and rehearsals.
ActuationsSpaced ==
    \A i, j \in Rows(events, ActuationActions) :
        i < j => events[j].ts - events[i].ts >= Cooldown

\* Every latch is rebuilt from the events: between two polls a live service
\* that restarts would believe what it believes.  Only doubts and spin-ups
\* that a hashing miner has settled may come back.
RestartChangesNothing ==
    pc = "idle" /\ mode = "live" =>
        LET h == Hydrated(events) IN
        /\ mem.asleep = h.asleep /\ mem.lastAttempt = h.lastAttempt
        /\ mem.failures = h.failures /\ mem.attention = h.attention
        /\ mem.uncertain => h.uncertain
        /\ mem.waking \in {NoTime, h.waking}

\* max_failures: consecutive failures end after MaxFailures, but for latches
\* lost between their two commits, whatever restarts lie between them.
GivesUp == RecentFailures(events) <= MaxFailures + torn

\* A human is called for MaxFailures consecutive failures or for as many
\* sleeps without effect, and for nothing less.
AttentionEarned ==
    \A i \in Rows(events, {"sleep_needs_attention"}) :
        LET before == SubSeq(events, 1, i - 1) IN
        \/ RecentFailures(before) >= MaxFailures
        \/ Cardinality(Rows(before, RefutedActions)) >= MaxFailures

\* A firmware that acknowledges sleeps it does not perform is surfaced after
\* MaxFailures of them (for runs whose commands never take).
IneffectiveIsSurfaced ==
    Cardinality(Rows(events, RefutedActions)) >= MaxFailures =>
        Rows(events, {"sleep_needs_attention"}) # {}

-----------------------------------------------------------------------------
(***************************************************************************)
(* Liveness.                                                               *)
(***************************************************************************)

\* A miner that MinerWatch put to sleep ends awake or with a human once its
\* window has opened, unless its sleep was lost with the service (for live
\* runs whose last ticks are working ones, whose hashrate settles within the
\* grace, and whose commands end as they say).
WokenOrReported == <>[](miner.asleep /\ ~lost => LatchSet)
=============================================================================
