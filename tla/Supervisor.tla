----------------------------- MODULE Supervisor -----------------------------
(***************************************************************************)
(* The service: one miner, one clock and one poll that first asks the      *)
(* sleep controller and, when that does not own the reading, the watchdog. *)
(* Sleeper is this module's own state; Watchdog is instantiated over rows  *)
(* of its own, since neither controller reads the other's, and over the    *)
(* clock and the bounds of the sleeper.  Each action conjoins an action of *)
(* the one with an action of the other.  The power mode that the watchdog  *)
(* reads is what the machine answers, at a moment of the await: what       *)
(* another process does to the machine before the answer is used, or       *)
(* before the restart begins, falls between.                               *)
(***************************************************************************)
EXTENDS Sleeper

CONSTANTS
    MaxCommands, \* bound: commands given on the command line
    FailAfter, RestartCooldown, RateWindow, MaxRestarts, \* the watchdog policy
    AsleepRecheck, \* asleep_recheck_seconds
    Recovery,      \* recovery_seconds
    MaxGap,        \* poll_interval * GAP_TOLERANCE_POLLS
    MaxRows,       \* rows the failure clock reads back
    Outcomes,      \* how a recovery command may end
    Illegible,     \* whether the power mode may be unreadable
    WatchdogModes  \* whether a start of the service lets the watchdog restart

ASSUME SupervisorConstants ==
    /\ MaxCommands \in Nat
    /\ FailAfter \in Nat /\ RestartCooldown \in Nat /\ AsleepRecheck \in Nat
    /\ RateWindow \in Nat \ {0} /\ MaxRestarts \in Nat \ {0}
    /\ Recovery \in Nat /\ MaxGap \in Nat /\ MaxRows \in Nat \ {0}
    /\ Outcomes \subseteq {"restart", "restart_failed"}
    /\ Illegible \in BOOLEAN /\ WatchdogModes \subseteq BOOLEAN

\* _parse_watchdog refuses a policy whose attempts cannot share the window.
ASSUME RestartPolicyAccepted == RestartCooldown * (MaxRestarts - 1) < RateWindow

VARIABLES
    wmode,     \* how the running watchdog was started: a flag of its own
    rows,      \* what the poller and the watchdog write to the events table
    wpc,       \* "down", "idle", "asking" or "recovering"
    wpollTime, \* `now` of the poll whose await is under way
    attempts, latched, rehearsed, probe, \* the members of the Watchdog
    unrecorded, \* history: restarts sent whose row was never written
    answered,   \* the power mode a worker brings back to the poll, or "none"
    overtaken,  \* history: the miner was slept since it gave that answer
    command,    \* the sleep or wake under way on the command line
    commands    \* how often the command line was used

PowerModes == {"asleep", "awake", "unreadable"}

W == INSTANCE Watchdog WITH
        Cooldown     <- RestartCooldown,
        Modes        <- [live : WatchdogModes, enabled : {TRUE}],
        Readings     <- [state : States, working : BOOLEAN, window : {FALSE}],
        PowerAnswers <- PowerModes,
        MaxClears    <- MaxCommands,
        events       <- rows,
        mode         <- wmode,
        pc           <- wpc,
        pollTime     <- wpollTime,
        lost         <- unrecorded,
        clears       <- commands

watchdog == <<wmode, rows, wpc, wpollTime, attempts, latched, rehearsed, probe, unrecorded>>
sleeper  == <<events, miner, mode, pc, pollTime, mem, handed, torn, lost, byHand>>
query    == <<answered, overtaken>>
cli      == <<command, commands>>
allVars  == <<vars, watchdog, query, cli>>

NoCommand == [to |-> "none", at |-> 0]

ServiceInit == /\ Init /\ W!Init
               /\ answered = "none" /\ overtaken = FALSE
               /\ command = NoCommand /\ commands = 0

-----------------------------------------------------------------------------
(* A poll of the running service.                                          *)

Reading(s) == [state |-> s, working |-> Working, window |-> FALSE]

\* The sleeper owns the reading: the watchdog only sees its row written.
StandsDown(s) == /\ rows' = W!Polled(Reading(s))
                 /\ UNCHANGED <<wmode, wpc, wpollTime, attempts, latched,
                                rehearsed, probe, unrecorded>>

SleeperActs(s) == \/ Own(s)
                  \/ \E to \in {"sleep", "wake"} :
                        SkipForCooldown(s, to) \/ Rehearse(s, to) \/ Send(s, to)

WatchdogActs(r) == \/ W!Observe(r) \/ W!DeclineRestart(r)
                   \/ W!Latch(r) \/ W!RehearseLatch(r)
                   \/ W!GoAhead(r) \/ W!HoldAsleep(r) \/ W!AskPowerMode(r)

\* _poll_one
PollOne(s) == /\ wpc = "idle" /\ UNCHANGED <<query, cli>>
              /\ \/ SleeperActs(s) /\ StandsDown(s)
                 \/ Release(s) /\ WatchdogActs(Reading(s))

-----------------------------------------------------------------------------
(* The awaits return.                                                      *)

DriverReturns == AwaitStep /\ UNCHANGED <<watchdog, query, cli>>

\* is_asleep reads the work mode the machine keeps, if it can.
PowerMode == {IF miner.asleep THEN "asleep" ELSE "awake"}
                \cup (IF Illegible THEN {"unreadable"} ELSE {})

\* The worker thread of the read has its answer, or its time is up.
PowerModeAnswers == /\ wpc = "asking" /\ answered = "none"
                    /\ answered' \in PowerMode
                    /\ UNCHANGED <<vars, watchdog, overtaken, cli>>

\* The poll goes on with the answer, whatever became of the miner since.
PowerModeRead == /\ answered \in PowerModes /\ answered' = "none"
                 /\ overtaken' = FALSE
                 /\ W!PowerAnswered(answered)
                 /\ UNCHANGED <<sleeper, command>>

\* A restart or a reboot leaves the power mode as it is.
RestartReturns == /\ UNCHANGED <<sleeper, query, command>>
                  /\ \E o \in Outcomes : W!Recovered(o)

-----------------------------------------------------------------------------
(* The process, the clock and the world.                                   *)

ServiceStart == Start /\ W!Start /\ UNCHANGED <<query, command>>
ServiceStops == /\ Crash /\ W!Crash /\ UNCHANGED command
                /\ answered' = "none" /\ overtaken' = FALSE
ServiceTick  == Tick /\ W!Tick /\ UNCHANGED <<query, command>>

\* An operator at the miner's own web page.
ByHand == WokenByHand /\ UNCHANGED <<watchdog, query, cli>>

Horizon == HorizonReached /\ UNCHANGED <<watchdog, query, cli>>

-----------------------------------------------------------------------------
(* The command line, with controllers of its own that die with it: the     *)
(* running service keeps what it holds.                                    *)

\* What a command of another process leaves alone.
service == <<clock, polled, mode, pc, pollTime, mem, handed, torn, lost, bounded,
             answered>>

\* cmd_power: sleep_now and wake_now ignore schedule, cooldown and latch.
CommandBegins(to) ==
    /\ command.to = "none" /\ commands < MaxCommands
    /\ command' = [to |-> to, at |-> clock]
    /\ commands' = commands + 1
    /\ UNCHANGED <<service, events, miner, watchdog, overtaken>>

CommandEnds(a) ==
    /\ command.to # "none" /\ command' = NoCommand
    /\ miner' = IF a.took THEN Switched(command.to = "sleep") ELSE miner
    /\ overtaken' = (overtaken \/ (answered # "none" /\ a.took /\ command.to = "sleep"))
    /\ events' = Record(events, command.at,
                        IF a.ok THEN command.to
                        ELSE IF command.to = "sleep" THEN "sleep_failed"
                        ELSE "wake_failed")
    /\ UNCHANGED <<service, commands, watchdog>>

\* cmd_clear_attention clears both latches, in the log.
ClearAttention ==
    /\ W!ClearAttention
    /\ events' = Record(events, clock, "sleep_attention_cleared")
    /\ UNCHANGED <<service, miner, overtaken, command>>

ServiceNext == \/ \E s \in States : PollOne(s)
               \/ DriverReturns \/ PowerModeAnswers \/ PowerModeRead
               \/ RestartReturns
               \/ ServiceStart \/ ServiceStops \/ ServiceTick
               \/ (\E to \in {"sleep", "wake"} : CommandBegins(to))
               \/ (\E a \in Answers : CommandEnds(a))
               \/ ClearAttention \/ ByHand \/ Horizon

ServiceSpec == ServiceInit /\ [][ServiceNext]_allVars

(***************************************************************************)
(* The loop of `run` polls again and again, every await has a timeout, and *)
(* the service manager starts the service again.                           *)
(***************************************************************************)
FairService == /\ ServiceSpec
               /\ WF_allVars(\E s \in States : PollOne(s))
               /\ WF_allVars(DriverReturns \/ PowerModeAnswers \/ PowerModeRead
                                \/ RestartReturns)
               /\ WF_allVars(ServiceTick) /\ WF_allVars(ServiceStart)

-----------------------------------------------------------------------------
(***************************************************************************)
(* Safety.                                                                 *)
(***************************************************************************)

\* A restart begins for a miner that reads as stopped, and that sleeps.
RestartsSleeper == /\ wpc # "recovering" /\ wpc' = "recovering" /\ miner.asleep
                   /\ wpc = "asking" \/ handed' = "stopped"

\* Nobody could tell: the power mode could not be read; or somebody slept the
\* miner after it had answered this very poll; or the answer is a cached one as
\* old as the cooldown, which no recheck interval within the cooldown allows.
NobodyCouldTell == \/ probe'.answer = "unreadable"
                   \/ wpc = "asking" /\ overtaken
                   \/ /\ wpc = "idle"
                      /\ clock - probe.at >= RestartCooldown
                      /\ clock - probe.at < AsleepRecheck

\* A restart cannot wake a sleeping miner: none begins for one, whoever put it
\* to sleep, where the watchdog could have told.
RestartSparesSleepers == [][RestartsSleeper => NobodyCouldTell]_allVars

\* max_restarts: a miner that never mines and is never cleared is restarted at
\* most MaxRestarts times before a human takes over, whoever owned it before and
\* between the restarts.  (For a schedule whose window, once open, stays open: a
\* pause as long as RateWindow gives attempts back.)
HandedToHuman == W!HandedToHuman

-----------------------------------------------------------------------------
(***************************************************************************)
(* Liveness.                                                               *)
(***************************************************************************)

\* The two controllers never both stand down: a miner that is never seen mining
\* while its window is open ends with a human, whichever of them owned it when
\* it stopped, unless its sleep was lost with the service (for live runs whose
\* last ticks are working ones).
DeadIsReported ==
    <>[]((\A t \in W!Times(rows, {"none"}) : t \notin WorkTicks) /\ ~lost =>
            LatchSet \/ W!IsNeedsAttention(rows))
=============================================================================
