-------------------------- MODULE SupervisorProofs --------------------------
(***************************************************************************)
(* The service with both controllers, beside commands of other processes,  *)
(* for every value of its constants.  The watchdog keeps its promises      *)
(* beside a sleep controller that takes polls away from it: each step of   *)
(* the service is a step of the watchdog or leaves its invariant alone.    *)
(* It implements RestartBudget here too, and its failure clock, which      *)
(* reads the rows of those polls, can be believed.                         *)
(* And a restart spares the sleepers, for what the watchdog knows of the   *)
(* power mode is younger than the last restart or older than its cooldown, *)
(* and what it is told was so when the miner answered.                     *)
(***************************************************************************)
EXTENDS Supervisor, EventLogProofs

\* The watchdog's theorems, over the variables of the service.
P == INSTANCE WatchdogProofs WITH
        Cooldown     <- RestartCooldown,
        Modes        <- [live : WatchdogModes, enabled : {TRUE}],
        Readings     <- [state : States, working : BOOLEAN, window : {FALSE}],
        PowerAnswers <- PowerModes,
        MaxClears    <- MaxCommands,
        events       <- rows,
        mode         <- wmode,
        pc           <- wpc,
        pollTime     <- wpollTime,
        lost         <- unrecorded,
        clears       <- commands

-----------------------------------------------------------------------------
(***************************************************************************)
(* The service's watchdog W and the one of the theorems, P, are instances  *)
(* of the same module with the same values: they do the same.              *)
(***************************************************************************)

\* What the queries answer.
LEMMA SameQueries ==
    /\ P!NoTime = W!NoTime
    /\ P!NoProbe = W!NoProbe
    /\ \A log, t, a : P!Record(log, t, a) = W!Record(log, t, a)
    /\ \A log, A : P!Rows(log, A) = W!Rows(log, A)
    /\ \A log, A : P!Times(log, A) = W!Times(log, A)
    /\ \A log : P!IsNeedsAttention(log) <=> W!IsNeedsAttention(log)
    /\ \A S : P!Cardinality(S) = W!Cardinality(S)
    /\ \A log : P!HydratedAttempts(log) = W!HydratedAttempts(log)
<1>1. P!NoTime = W!NoTime /\ P!NoProbe = W!NoProbe
  BY DEF P!NoTime, W!NoTime, P!NoProbe, W!NoProbe
<1>2. \A log, t, a : P!Record(log, t, a) = W!Record(log, t, a)
  BY DEF P!Record, W!Record, P!Row, W!Row
<1>3. \A log, A : P!Rows(log, A) = W!Rows(log, A)
  BY DEF P!Rows, W!Rows
<1>4. \A log, A : P!Times(log, A) = W!Times(log, A)
  BY DEF P!Rows, W!Rows, P!Times, W!Times
<1>5. \A log : P!IsNeedsAttention(log) <=> W!IsNeedsAttention(log)
  BY <1>3, Zenon DEF P!IsNeedsAttention, W!IsNeedsAttention, P!Older, W!Older
<1>0. \A S : P!Cardinality(S) = W!Cardinality(S)
  BY DEF P!Cardinality, W!Cardinality
<1>6. \A dq : P!Trimmed(dq) = W!Trimmed(dq)
  BY <1>0 DEF P!Trimmed, W!Trimmed
<1>7. \A log : P!HydratedAttempts(log) = W!HydratedAttempts(log)
  BY <1>3, <1>4, <1>5, <1>6
     DEF P!HydratedAttempts, W!HydratedAttempts, P!AttemptActions, W!AttemptActions
<1> QED
  BY <1>0, <1>1, <1>2, <1>3, <1>4, <1>5, <1>7

LEMMA SameHistory ==
    \A log, now, max : P!History(log, now, max) = W!History(log, now, max)
<1>1. \A S : P!Cardinality(S) = W!Cardinality(S)
  BY DEF P!Cardinality, W!Cardinality
<1>2. \A placed, row : P!Placed(placed, row) = W!Placed(placed, row)
  BY <1>1 DEF P!Placed, W!Placed
<1>3. \A log, now : P!Until(log, now) = W!Until(log, now)
  BY <1>2 DEF P!Until, W!Until
<1> QED
  BY <1>3 DEF P!History, W!History

LEMMA SameClock ==
    \A log, now : P!FailureClockStart(log, now, P!ClockRules)
                    = W!FailureClockStart(log, now, W!ClockRules)
<1>1. P!ClockRules = W!ClockRules
  BY DEF P!ClockRules, W!ClockRules, P!ResetActions, W!ResetActions,
         P!FailureActions, W!FailureActions
<1>2. \A w, row, rules : P!WalkRow(w, row, rules) = W!WalkRow(w, row, rules)
  BY DEF P!WalkRow, W!WalkRow, P!Reset, W!Reset, P!NoRun, W!NoRun, P!Broken, W!Broken,
         P!Completed, W!Completed, P!Continues, W!Continues, P!NoTime, W!NoTime
<1>3. P!NoRun = W!NoRun
  BY DEF P!NoRun, W!NoRun, P!NoTime, W!NoTime
<1> QED
  BY <1>1, <1>2, <1>3, SameHistory DEF P!FailureClockStart, W!FailureClockStart

\* What the funnel decides.
LEMMA SameFunnel ==
    ASSUME NEW r
    PROVE  /\ P!Polled(r) = W!Polled(r)
           /\ P!Decline(r) = W!Decline(r)
           /\ \A now : P!AtLimit(now) <=> W!AtLimit(now)
           /\ \A now : P!Unexpired(attempts, now) = W!Unexpired(attempts, now)
           /\ \A now : P!FreshProbe(now) <=> W!FreshProbe(now)
           /\ P!Poll <=> W!Poll
           /\ P!Failing(r) <=> W!Failing(r)
           /\ P!Proceeds(r) <=> W!Proceeds(r)
<1>1. P!Polled(r) = W!Polled(r)
  BY SameQueries DEF P!Polled, W!Polled, P!PollAction, W!PollAction
<1>2. \A log, now : P!Waiting(log, now) <=> W!Waiting(log, now)
  BY SameClock, SameQueries DEF P!Waiting, W!Waiting, P!FailingFor, W!FailingFor
<1>3. P!Decline(r) = W!Decline(r)
  BY <1>1, <1>2 DEF P!Decline, W!Decline, P!CoolingDown, W!CoolingDown
<1>4. \A now : P!Unexpired(attempts, now) = W!Unexpired(attempts, now)
  BY DEF P!Unexpired, W!Unexpired
<1>6. \A now : P!AtLimit(now) <=> W!AtLimit(now)
  BY <1>4, SameQueries DEF P!AtLimit, W!AtLimit
<1>7. \A now : P!FreshProbe(now) <=> W!FreshProbe(now)
  BY DEF P!FreshProbe, W!FreshProbe, P!NoTime, W!NoTime
<1>5. (P!Poll <=> W!Poll) /\ (P!Failing(r) <=> W!Failing(r))
  BY DEF P!Poll, W!Poll, P!Failing, W!Failing, P!bounded, W!bounded
<1> QED
  BY <1>1, <1>3, <1>4, <1>5, <1>6, <1>7 DEF P!Proceeds, W!Proceeds

\* What a poll does.
LEMMA SameActs ==
    ASSUME NEW r, WatchdogActs(r)
    PROVE  \/ P!Observe(r) \/ P!DeclineRestart(r)
           \/ P!Latch(r) \/ P!RehearseLatch(r)
           \/ P!GoAhead(r) \/ P!HoldAsleep(r) \/ P!AskPowerMode(r)
<1>1. P!UnderLimit(r) <=> W!UnderLimit(r)
  BY SameFunnel DEF P!UnderLimit, W!UnderLimit
<1>2. \A log, dq, now : P!Actuate(log, dq, now) <=> W!Actuate(log, dq, now)
  BY SameQueries DEF P!Actuate, W!Actuate
<1>3. \A a : P!HoldsBack(a) <=> W!HoldsBack(a)
  BY DEF P!HoldsBack, W!HoldsBack
<1>4. /\ W!Observe(r) => P!Observe(r)
      /\ W!DeclineRestart(r) => P!DeclineRestart(r)
  BY SameFunnel, SameQueries
     DEF P!Observe, W!Observe, P!DeclineRestart, W!DeclineRestart,
         P!volatile, W!volatile
<1>5. /\ W!Latch(r) => P!Latch(r)
      /\ W!RehearseLatch(r) => P!RehearseLatch(r)
  BY SameFunnel, SameQueries DEF P!Latch, W!Latch, P!RehearseLatch, W!RehearseLatch
<1>6. W!GoAhead(r) => P!GoAhead(r)
  BY <1>1, <1>2, <1>3, SameFunnel DEF P!GoAhead, W!GoAhead
<1>7. /\ W!HoldAsleep(r) => P!HoldAsleep(r)
      /\ W!AskPowerMode(r) => P!AskPowerMode(r)
  BY <1>1, <1>3, SameFunnel, SameQueries
     DEF P!HoldAsleep, W!HoldAsleep, P!AskPowerMode, W!AskPowerMode
<1> QED
  BY <1>4, <1>5, <1>6, <1>7 DEF WatchdogActs

\* What the awaits, the process and the command line do.
LEMMA SameAwaits ==
    /\ \A a : W!PowerAnswered(a) => P!PowerAnswered(a)
    /\ \A o : W!Recovered(o) => P!Recovered(o)
<1>1. \A log, dq, now : P!Actuate(log, dq, now) <=> W!Actuate(log, dq, now)
  BY SameQueries DEF P!Actuate, W!Actuate
<1>2. \A a : W!PowerAnswered(a) => P!PowerAnswered(a)
  BY <1>1, SameQueries
     DEF P!PowerAnswered, W!PowerAnswered, P!HoldsBack, W!HoldsBack, P!bounded, W!bounded
<1>3. \A o : W!Recovered(o) => P!Recovered(o)
  BY SameQueries DEF P!Recovered, W!Recovered, P!bounded, W!bounded
<1> QED
  BY <1>2, <1>3

LEMMA SameProcess ==
    /\ W!Start => P!Start
    /\ W!Crash => P!Crash
    /\ W!Tick => P!Tick
    /\ W!ClearAttention => P!ClearAttention
<1>1. W!Start => P!Start
  BY SameQueries DEF P!Start, W!Start, P!Hydrate, W!Hydrate, P!bounded, W!bounded
<1>2. W!Crash => P!Crash
  BY SameQueries DEF P!Crash, W!Crash, P!Forget, W!Forget
<1>3. W!Tick => P!Tick
  BY DEF P!Tick, W!Tick, P!volatile, W!volatile, P!bounded, W!bounded
<1>4. W!ClearAttention => P!ClearAttention
  BY SameQueries DEF P!ClearAttention, W!ClearAttention, P!volatile, W!volatile
<1> QED
  BY <1>1, <1>2, <1>3, <1>4

-----------------------------------------------------------------------------
(***************************************************************************)
(* The watchdog's invariant.                                               *)
(***************************************************************************)

\* The service runs a watchdog whose constants are as its module assumes.
LEMMA WatchdogAccepted == P!WatchdogConstants /\ P!PolicyAccepted
BY SupervisorConstants, SleeperConstants, RestartPolicyAccepted
   DEF SupervisorConstants, SleeperConstants, RestartPolicyAccepted,
       P!WatchdogConstants, P!PolicyAccepted, PowerModes, States

LEMMA WatchdogInit == ServiceInit => P!IInv
<1>1. ServiceInit => P!Init
  BY DEF ServiceInit, W!Init, P!Init, W!NoProbe, P!NoProbe, W!NoTime, P!NoTime
<1>2. P!Init => P!IInv
  BY WatchdogAccepted, P!InitEstablishes
<1> QED
  BY <1>1, <1>2

\* A step of the watchdog, its invariant being its own business.
LEMMA WatchdogStep ==
    ASSUME P!IInv, P!Next
    PROVE  P!IInv'
BY WatchdogAccepted, P!StepKeeps

\* A poll that the sleep controller keeps for itself leaves a row that the
\* watchdog never judges, and other steps leave it nothing at all.
LEMMA BesideTheWatchdog ==
    ASSUME P!IInv, P!TypeOK', NEW r, P!Unjudged(r)
    PROVE  P!IInv'
<1>1. P!WatchdogConstants /\ P!PolicyAccepted
  BY WatchdogAccepted
<1> QED
  BY <1>1, P!UnjudgedKeeps, Zenon

\* The steps of the service that are steps of its watchdog.
LEMMA WatchdogActsStep ==
    ASSUME NEW s \in States, WatchdogActs(Reading(s))
    PROVE  P!Next
<1> DEFINE r == Reading(s)
<1>1. r \in [state : States, working : BOOLEAN, window : {FALSE}]
  BY DEF Reading, Working
<1>2. \/ P!Observe(r) \/ P!DeclineRestart(r)
      \/ P!Latch(r) \/ P!RehearseLatch(r)
      \/ P!GoAhead(r) \/ P!HoldAsleep(r) \/ P!AskPowerMode(r)
  BY SameActs
<1> QED
  BY <1>1, <1>2 DEF P!Next, P!PollStep

LEMMA AwaitReturnsStep ==
    ASSUME PowerModeRead \/ RestartReturns
    PROVE  P!Next
<1>1. CASE PowerModeRead
  BY <1>1, SameAwaits DEF PowerModeRead, P!Next, P!AwaitStep
<1>2. CASE RestartReturns
  BY <1>2, SameAwaits DEF RestartReturns, P!Next, P!AwaitStep
<1> QED
  BY <1>1, <1>2

LEMMA ProcessStep ==
    ASSUME ServiceStart \/ ServiceStops \/ ServiceTick \/ ClearAttention
    PROVE  P!Next
BY SameProcess DEF ServiceStart, ServiceStops, ServiceTick, ClearAttention, P!Next

\* The sleep controller keeps the poll.
LEMMA StandsDownKeeps ==
    ASSUME P!IInv, NEW s \in States, SleeperActs(s), StandsDown(s), UNCHANGED cli
    PROVE  P!IInv'
<1>1. polled' = TRUE /\ UNCHANGED <<clock, crashes, commands>>
  BY DEF SleeperActs, Own, SkipForCooldown, Transition, Rehearse, Send, Poll, bounded, cli
<1>2. P!TypeOK
  BY DEF P!IInv
<1>3. \A r : W!Polled(r) = P!Polled(r)
  BY SameFunnel
<1>4. rows' \in Seq([ts : 0..clock, action : P!LogActions])
  BY <1>2, <1>3, WatchdogAccepted, P!PolledTyped DEF StandsDown
<1>5. P!TypeOK'
  BY <1>1, <1>2, <1>4 DEF P!TypeOK, StandsDown
<1>6. P!Unjudged(Reading(s))
  BY <1>1, <1>3 DEF P!Unjudged, StandsDown
<1> QED
  BY <1>5, <1>6, BesideTheWatchdog

\* Neither the driver, nor a command, nor an operator touches the watchdog.
LEMMA BystandersKeep ==
    ASSUME P!IInv, UNCHANGED <<watchdog, clock, polled, crashes>>,
           commands' \in 0..MaxCommands
    PROVE  P!IInv'
<1>1. P!TypeOK'
  BY DEF P!IInv, P!TypeOK, watchdog
<1>2. P!Unjudged(0)
  BY DEF P!Unjudged, watchdog
<1> QED
  BY <1>1, <1>2, BesideTheWatchdog

LEMMA WatchdogKeeps ==
    ASSUME P!IInv, [ServiceNext]_allVars
    PROVE  P!IInv'
<1>0. commands \in 0..MaxCommands /\ MaxCommands \in Nat
  BY SupervisorConstants DEF SupervisorConstants, P!IInv, P!TypeOK
<1>1. ASSUME NEW s \in States, PollOne(s) PROVE P!IInv'
  BY <1>1, StandsDownKeeps, WatchdogActsStep, WatchdogStep DEF PollOne
<1>2. CASE PowerModeRead \/ RestartReturns
  BY <1>2, AwaitReturnsStep, WatchdogStep
<1>3. CASE ServiceStart \/ ServiceStops \/ ServiceTick \/ ClearAttention
  BY <1>3, ProcessStep, WatchdogStep
<1>4. CASE DriverReturns
  <2>1. UNCHANGED <<watchdog, clock, polled, crashes, commands>>
    BY <1>4 DEF DriverReturns, AwaitStep, LatchAttention, Acknowledged, Failed, Returns, bounded, cli
  <2> QED
    BY <1>0, <2>1, BystandersKeep
<1>5. CASE PowerModeAnswers \/ ByHand \/ Horizon \/ UNCHANGED allVars
  <2>1. UNCHANGED <<watchdog, clock, polled, crashes, commands>>
    BY <1>5 DEF PowerModeAnswers, ByHand, WokenByHand, Horizon, HorizonReached,
                allVars, vars, bounded, cli
  <2> QED
    BY <1>0, <2>1, BystandersKeep
<1>6. ASSUME NEW to, CommandBegins(to) PROVE P!IInv'
  <2>1. UNCHANGED <<watchdog, clock, polled, crashes>> /\ commands' = commands + 1
    BY <1>6 DEF CommandBegins, service, bounded
  <2>2. commands' \in 0..MaxCommands
    BY <1>0, <1>6, <2>1 DEF CommandBegins
  <2> QED
    BY <2>1, <2>2, BystandersKeep
<1>7. ASSUME NEW a, CommandEnds(a) PROVE P!IInv'
  <2>1. UNCHANGED <<watchdog, clock, polled, crashes, commands>>
    BY <1>7 DEF CommandEnds, service, bounded
  <2> QED
    BY <1>0, <2>1, BystandersKeep
<1> QED
  BY <1>1, <1>2, <1>3, <1>4, <1>5, <1>6, <1>7 DEF ServiceNext

-----------------------------------------------------------------------------
(***************************************************************************)
(* The budget of restarts, beside a sleep controller.                      *)
(***************************************************************************)

LEMMA BudgetInit == ServiceInit => P!Budget!Init
<1>1. ServiceInit => P!Init
  BY DEF ServiceInit, W!Init, P!Init, W!NoProbe, P!NoProbe, W!NoTime, P!NoTime
<1>2. P!Init => P!Budget!Init
  BY WatchdogAccepted, P!InitBudget
<1> QED
  BY <1>1, <1>2

\* A step of the watchdog.
LEMMA BudgetStep ==
    ASSUME P!IInv, P!Next
    PROVE  [P!Budget!Next]_(P!Budget!vars)
<1>1. P!IInv'
  BY WatchdogStep
<1> QED
  BY <1>1, WatchdogAccepted, P!BudgetStep

\* A step that the watchdog only sees a reading written of, or nothing.
LEMMA BesideTheBudget ==
    ASSUME P!IInv, NEW r, P!Unjudged(r)
    PROVE  [P!Budget!Next]_(P!Budget!vars)
<1>1. P!TypeOK /\ P!WatchdogConstants /\ P!PolicyAccepted
  BY WatchdogAccepted DEF P!IInv
<1>2. UNCHANGED P!Budget!vars
  BY <1>1, P!UnjudgedIsNothing, Zenon
<1> QED
  BY <1>2

LEMMA BudgetKeeps ==
    ASSUME P!IInv, [ServiceNext]_allVars
    PROVE  [P!Budget!Next]_(P!Budget!vars)
<1>1. ASSUME NEW s \in States, PollOne(s) PROVE [P!Budget!Next]_(P!Budget!vars)
  <2>1. CASE SleeperActs(s) /\ StandsDown(s)
    <3>1. UNCHANGED clock
      BY <2>1 DEF SleeperActs, Own, SkipForCooldown, Transition, Rehearse, Send, Poll
    <3>2. \A r : W!Polled(r) = P!Polled(r)
      BY SameFunnel
    <3>3. P!Unjudged(Reading(s))
      BY <2>1, <3>1, <3>2 DEF P!Unjudged, StandsDown
    <3> QED
      BY <3>3, BesideTheBudget
  <2>2. CASE WatchdogActs(Reading(s))
    BY <2>2, WatchdogActsStep, BudgetStep
  <2> QED
    BY <1>1, <2>1, <2>2 DEF PollOne
<1>2. CASE PowerModeRead \/ RestartReturns
  BY <1>2, AwaitReturnsStep, BudgetStep
<1>3. CASE ServiceStart \/ ServiceStops \/ ServiceTick \/ ClearAttention
  BY <1>3, ProcessStep, BudgetStep
<1>4. CASE \/ DriverReturns \/ PowerModeAnswers \/ ByHand \/ Horizon
           \/ UNCHANGED allVars
           \/ (\E to \in {"sleep", "wake"} : CommandBegins(to))
           \/ (\E a \in Answers : CommandEnds(a))
  <2>1. UNCHANGED <<watchdog, clock, polled>>
    BY <1>4
       DEF DriverReturns, AwaitStep, LatchAttention, Acknowledged, Failed, Returns,
           PowerModeAnswers, ByHand, WokenByHand, Horizon, HorizonReached,
           CommandBegins, CommandEnds, service, allVars, vars
  <2>2. P!Unjudged(0)
    BY <2>1 DEF P!Unjudged, watchdog
  <2> QED
    BY <2>2, BesideTheBudget
<1> QED
  BY <1>1, <1>2, <1>3, <1>4 DEF ServiceNext

-----------------------------------------------------------------------------
(***************************************************************************)
(* The watchdog's failure clock, beside a sleep controller that takes      *)
(* polls away from it: their readings are in the log it reads.             *)
(***************************************************************************)

LEMMA ClockInit == ServiceInit => P!ClockInv
<1>1. ServiceInit => P!Init
  BY DEF ServiceInit, W!Init, P!Init, W!NoProbe, P!NoProbe, W!NoTime, P!NoTime
<1>2. P!Init => P!ClockInv
  BY WatchdogAccepted, P!InitClock
<1> QED
  BY <1>1, <1>2

\* A step of the watchdog.
LEMMA ClockStep ==
    ASSUME P!IInv, P!ClockInv, P!Next
    PROVE  P!ClockInv'
<1>1. P!TypeOK
  BY DEF P!IInv
<1>2. P!WatchdogConstants /\ P!PolicyAccepted
  BY WatchdogAccepted
<1> QED
  BY <1>1, <1>2, P!StepKeepsClock, Zenon

\* A poll that the sleep controller keeps for itself.
LEMMA StandsDownKeepsClock ==
    ASSUME P!IInv, P!IInv', P!ClockInv, wpc = "idle",
           NEW s \in States, SleeperActs(s), StandsDown(s)
    PROVE  P!ClockInv'
<1>1. /\ ~polled /\ polled' /\ UNCHANGED clock
  BY DEF SleeperActs, Own, SkipForCooldown, Transition, Rehearse, Send, Poll
<1>2. rows' = P!Polled(Reading(s))
  BY SameFunnel DEF StandsDown
<1>3. P!Unjudged(Reading(s))
  BY <1>1, <1>2 DEF P!Unjudged, StandsDown
<1>4. P!TypeOK /\ P!TypeOK' /\ P!WatchdogConstants /\ P!PolicyAccepted
  BY WatchdogAccepted DEF P!IInv
<1> QED
  BY <1>1, <1>2, <1>3, <1>4, P!UnjudgedKeepsClock, Zenon

LEMMA BystandersKeepClock ==
    ASSUME P!IInv, P!IInv', P!ClockInv, UNCHANGED <<watchdog, clock, polled>>
    PROVE  P!ClockInv'
<1>1. P!Unjudged(0) /\ UNCHANGED <<rows, polled>>
  BY DEF P!Unjudged, watchdog
<1>2. P!TypeOK /\ P!TypeOK' /\ P!WatchdogConstants /\ P!PolicyAccepted
  BY WatchdogAccepted DEF P!IInv
<1> QED
  BY <1>1, <1>2, P!UnjudgedKeepsClock, Zenon

LEMMA ClockKeeps ==
    ASSUME P!IInv, P!ClockInv, [ServiceNext]_allVars
    PROVE  P!ClockInv'
<1>0. P!IInv'
  BY WatchdogKeeps
<1>1. ASSUME NEW s \in States, PollOne(s) PROVE P!ClockInv'
  <2>1. CASE SleeperActs(s) /\ StandsDown(s)
    BY <1>0, <1>1, <2>1, StandsDownKeepsClock DEF PollOne
  <2>2. CASE WatchdogActs(Reading(s))
    BY <2>2, WatchdogActsStep, ClockStep
  <2> QED
    BY <1>1, <2>1, <2>2 DEF PollOne
<1>2. CASE PowerModeRead \/ RestartReturns
  BY <1>2, AwaitReturnsStep, ClockStep
<1>3. CASE ServiceStart \/ ServiceStops \/ ServiceTick \/ ClearAttention
  BY <1>3, ProcessStep, ClockStep
<1>4. CASE \/ DriverReturns \/ PowerModeAnswers \/ ByHand \/ Horizon
           \/ UNCHANGED allVars
           \/ (\E to \in {"sleep", "wake"} : CommandBegins(to))
           \/ (\E a \in Answers : CommandEnds(a))
  <2>1. UNCHANGED <<watchdog, clock, polled>>
    BY <1>4
       DEF DriverReturns, AwaitStep, LatchAttention, Acknowledged, Failed, Returns,
           PowerModeAnswers, ByHand, WokenByHand, Horizon, HorizonReached,
           CommandBegins, CommandEnds, service, allVars, vars
  <2> QED
    BY <1>0, <2>1, BystandersKeepClock
<1> QED
  BY <1>1, <1>2, <1>3, <1>4 DEF ServiceNext

-----------------------------------------------------------------------------
(***************************************************************************)
(* What the watchdog knows of the power mode.                              *)
(***************************************************************************)

\* The times the watchdog holds are no younger than the clock.
TimesTyped ==
    /\ clock \in Nat /\ wpollTime \in 0..clock
    /\ attempts \subseteq 0..clock
    /\ probe \in [at : 0..clock \cup {W!NoTime}, answer : {"asleep", "awake", "unreadable"}]

\* An answer "awake" that is in the cache let a restart go: its attempt is under
\* way, or is in the deque or followed by one that is, or has cooled down.
AwakeIsSpent ==
    probe.answer = "awake" =>
        \/ wpc = "recovering" /\ wpollTime = probe.at
        \/ \E t \in attempts : probe.at <= t
        \/ clock - probe.at >= RestartCooldown

ProbeInv == TimesTyped /\ AwakeIsSpent

\* While the watchdog asks or restarts, the sleep controller waits for the next
\* poll; and a miner that sleeps though it answered "awake" was slept since.
QueryInv ==
    /\ wpc \in {"asking", "recovering"} => pc = "idle"
    /\ answered # "none" => wpc = "asking"
    /\ answered = "awake" /\ miner.asleep => overtaken

-----------------------------------------------------------------------------
\* A poll that gets past the cooldown finds every answer "awake" cooled down.
LEMMA ProceedsIsCool ==
    ASSUME ProbeInv, NEW r, W!Proceeds(r), wpc = "idle", probe.answer = "awake"
    PROVE  clock - probe.at >= RestartCooldown
<1>1. ~W!CoolingDown(clock)
  BY DEF W!Proceeds, W!Decline
<1>2. CASE \E t \in attempts : probe.at <= t
  <2>1. PICK t \in attempts : probe.at <= t
    BY <1>2
  <2>2. PICK last \in attempts : \A x \in attempts : x <= last
    <3>1. attempts \in SUBSET (0..clock) /\ attempts # {} /\ clock \in Nat
      BY <2>1 DEF ProbeInv, TimesTyped
    <3> QED
      BY <3>1, LastEntry
  <2>3. ~(clock - last < RestartCooldown)
    BY <1>1, <2>2 DEF W!CoolingDown
  <2>4. t <= last /\ last \in Int /\ t \in Int /\ clock \in Int /\ probe.at \in Int
    BY <2>1, <2>2 DEF ProbeInv, TimesTyped, W!NoTime
  <2> QED
    BY <2>1, <2>3, <2>4, SupervisorConstants DEF SupervisorConstants
<1> QED
  BY <1>2 DEF ProbeInv, AwakeIsSpent

-----------------------------------------------------------------------------
LEMMA ProbeInit == ServiceInit => ProbeInv
BY DEF ServiceInit, Init, W!Init, W!NoProbe, ProbeInv, TimesTyped, AwakeIsSpent

\* A poll.
LEMMA ProbePoll ==
    ASSUME ProbeInv, NEW s \in States, PollOne(s)
    PROVE  ProbeInv'
<1>0. UNCHANGED clock /\ wpc = "idle"
  BY DEF PollOne, SleeperActs, Own, Release, SkipForCooldown, Transition, Rehearse, Send, Poll
<1>1. CASE UNCHANGED <<wpc, wpollTime, attempts, probe>>
  BY <1>0, <1>1 DEF ProbeInv, TimesTyped, AwakeIsSpent
<1> DEFINE r == Reading(s)
<1>2. CASE /\ W!Proceeds(r) /\ UNCHANGED probe
           /\ wpollTime' \in {wpollTime, clock}
           /\ attempts' \subseteq W!Unexpired(attempts, clock) \cup {clock}
  <2>1. TimesTyped'
    BY <1>0, <1>2 DEF ProbeInv, TimesTyped, W!Unexpired
  <2>2. ASSUME probe.answer = "awake" PROVE (clock - probe.at >= RestartCooldown)'
    <3>1. clock - probe.at >= RestartCooldown
      BY <1>0, <1>2, <2>2, ProceedsIsCool
    <3> QED
      BY <3>1, <1>0, <1>2
  <2> QED
    BY <2>1, <2>2, <1>2 DEF ProbeInv, AwakeIsSpent
<1>3. CASE SleeperActs(s) /\ StandsDown(s)
  BY <1>1, <1>3 DEF StandsDown
<1>4. CASE W!Observe(r) \/ W!DeclineRestart(r)
  BY <1>1, <1>4 DEF W!Observe, W!DeclineRestart, W!volatile
<1>5. CASE W!Latch(r) \/ W!RehearseLatch(r) \/ W!HoldAsleep(r) \/ W!AskPowerMode(r)
  BY <1>2, <1>5
     DEF W!Latch, W!RehearseLatch, W!HoldAsleep, W!AskPowerMode, W!UnderLimit
<1>6. CASE W!GoAhead(r)
  BY <1>2, <1>6 DEF W!GoAhead, W!UnderLimit, W!Actuate
<1> QED
  BY <1>3, <1>4, <1>5, <1>6 DEF PollOne, WatchdogActs

\* The power mode is read.
LEMMA ProbeAnswered ==
    ASSUME ProbeInv, NEW a \in PowerModes, W!PowerAnswered(a)
    PROVE  ProbeInv'
<1>1. /\ UNCHANGED clock /\ probe' = [at |-> wpollTime, answer |-> a]
      /\ a \in {"asleep", "awake", "unreadable"}
  BY DEF W!PowerAnswered, PowerModes
<1>2. /\ wpollTime' = wpollTime /\ attempts' \subseteq attempts \cup {wpollTime}
  BY DEF W!PowerAnswered, W!Actuate
<1>3. TimesTyped'
  BY <1>1, <1>2 DEF ProbeInv, TimesTyped
<1>4. ASSUME a = "awake"
      PROVE  wpc' = "recovering" \/ wpollTime \in attempts'
  BY <1>4 DEF W!PowerAnswered, W!HoldsBack, W!Actuate
<1>5. wpollTime \in Int
  BY DEF ProbeInv, TimesTyped
<1> QED
  BY <1>1, <1>2, <1>3, <1>4, <1>5 DEF ProbeInv, AwakeIsSpent

\* The recovery command returns.
LEMMA ProbeRecovered ==
    ASSUME ProbeInv, NEW o, W!Recovered(o)
    PROVE  ProbeInv'
BY DEF W!Recovered, ProbeInv, TimesTyped, AwakeIsSpent

\* Time passes.
LEMMA ProbeTick ==
    ASSUME ProbeInv, W!Tick
    PROVE  ProbeInv'
<1>1. clock' = clock + 1 /\ UNCHANGED <<wpc, wpollTime, attempts, probe>>
  BY DEF W!Tick, W!volatile
<1>2. clock \in Nat /\ probe.at \in Int
  BY DEF ProbeInv, TimesTyped, W!NoTime
<1> QED
  BY <1>1, <1>2, SupervisorConstants DEF ProbeInv, TimesTyped, AwakeIsSpent, SupervisorConstants

\* The service starts: the attempts come from the log.
LEMMA ProbeStart ==
    ASSUME ProbeInv, P!IInv, W!Start
    PROVE  ProbeInv'
<1>1. P!HydratedAttempts(rows) \subseteq 0..clock
  BY WatchdogAccepted, P!HydratedType DEF P!IInv
<1> QED
  BY <1>1, SameQueries
     DEF W!Start, W!Hydrate, W!NoProbe, ProbeInv, TimesTyped, AwakeIsSpent

\* Nothing is held by a service that is down.
LEMMA ProbeCrash ==
    ASSUME ProbeInv, W!Crash
    PROVE  ProbeInv'
BY DEF W!Crash, W!Forget, W!NoProbe, ProbeInv, TimesTyped, AwakeIsSpent

LEMMA ProbeBeside ==
    ASSUME ProbeInv, UNCHANGED <<clock, wpc, wpollTime, attempts, probe>>
    PROVE  ProbeInv'
BY DEF ProbeInv, TimesTyped, AwakeIsSpent

-----------------------------------------------------------------------------
(***************************************************************************)
(* Both invariants together are inductive.                                 *)
(***************************************************************************)

ServiceInv == P!IInv /\ ProbeInv /\ QueryInv

LEMMA ServiceInitEstablishes == ServiceInit => ServiceInv
<1>1. ServiceInit => QueryInv
  BY DEF ServiceInit, Init, W!Init, QueryInv
<1> QED
  BY <1>1, WatchdogInit, ProbeInit DEF ServiceInv

LEMMA ProbeKeeps ==
    ASSUME ServiceInv, [ServiceNext]_allVars
    PROVE  ProbeInv'
<1>0. ProbeInv /\ P!IInv
  BY DEF ServiceInv
<1>1. ASSUME NEW s \in States, PollOne(s) PROVE ProbeInv'
  BY <1>0, <1>1, ProbePoll
<1>2. CASE PowerModeRead \/ RestartReturns
  BY <1>0, <1>2, ProbeAnswered, ProbeRecovered DEF PowerModeRead, RestartReturns
<1>3. CASE ServiceStart \/ ServiceStops \/ ServiceTick
  BY <1>0, <1>3, ProbeStart, ProbeCrash, ProbeTick
     DEF ServiceStart, ServiceStops, ServiceTick
<1>4. CASE \/ DriverReturns \/ PowerModeAnswers \/ ClearAttention \/ ByHand
           \/ Horizon \/ UNCHANGED allVars
           \/ (\E to \in {"sleep", "wake"} : CommandBegins(to))
           \/ (\E a \in Answers : CommandEnds(a))
  <2>1. UNCHANGED <<clock, wpc, wpollTime, attempts, probe>>
    BY <1>4
       DEF DriverReturns, AwaitStep, LatchAttention, Acknowledged, Failed, Returns,
           PowerModeAnswers, ClearAttention, W!ClearAttention, W!volatile, ByHand,
           WokenByHand, Horizon, HorizonReached, CommandBegins, CommandEnds,
           service, watchdog, allVars, vars
  <2> QED
    BY <1>0, <2>1, ProbeBeside
<1> QED
  BY <1>1, <1>2, <1>3, <1>4 DEF ServiceNext

\* Only what another process does comes between the answer and its use.
LEMMA QueryKeeps ==
    ASSUME QueryInv, [ServiceNext]_allVars
    PROVE  QueryInv'
<1>1. ASSUME NEW s \in States, PollOne(s) PROVE QueryInv'
  <2>1. wpc = "idle" /\ answered = "none" /\ UNCHANGED query
    BY <1>1 DEF PollOne, QueryInv
  <2>2. CASE SleeperActs(s) /\ StandsDown(s)
    BY <2>1, <2>2 DEF StandsDown, QueryInv, query
  <2>3. CASE Release(s)
    <3>1. pc = "idle" /\ UNCHANGED pc
      BY <2>3 DEF Release, Poll
    <3> QED
      BY <2>1, <3>1 DEF QueryInv, query
  <2> QED
    BY <1>1, <2>2, <2>3 DEF PollOne
<1>2. CASE DriverReturns
  <2>1. pc # "idle" /\ UNCHANGED <<wpc, query>>
    BY <1>2 DEF DriverReturns, AwaitStep, LatchAttention, Acknowledged, Failed, Returns,
                watchdog
  <2> QED
    BY <2>1 DEF QueryInv, query
<1>3. CASE PowerModeAnswers
  BY <1>3 DEF PowerModeAnswers, PowerMode, vars, watchdog, QueryInv
<1>4. CASE PowerModeRead \/ RestartReturns
  <2>1. UNCHANGED <<pc, miner>> /\ wpc \in {"asking", "recovering"} /\ answered' = "none"
    BY <1>4 DEF PowerModeRead, RestartReturns, sleeper, query, QueryInv, PowerModes,
                W!PowerAnswered, W!Recovered
  <2> QED
    BY <2>1 DEF QueryInv
<1>5. CASE ServiceStart \/ ServiceStops
  BY <1>5 DEF ServiceStart, ServiceStops, Start, Crash, W!Start, W!Crash, query, QueryInv
<1>6. CASE ServiceTick \/ ClearAttention \/ Horizon \/ UNCHANGED allVars
  <2>1. UNCHANGED <<pc, wpc, miner, query>>
    BY <1>6 DEF ServiceTick, Tick, W!Tick, ClearAttention, W!ClearAttention, Horizon,
                HorizonReached, service, watchdog, query, allVars, vars
  <2> QED
    BY <2>1 DEF QueryInv, query
<1>7. CASE ByHand
  BY <1>7 DEF ByHand, WokenByHand, Switched, watchdog, query, QueryInv
<1>8. ASSUME NEW to, CommandBegins(to) PROVE QueryInv'
  BY <1>8 DEF CommandBegins, service, watchdog, QueryInv
<1>9. ASSUME NEW a, CommandEnds(a) PROVE QueryInv'
  BY <1>9 DEF CommandEnds, Switched, service, watchdog, QueryInv
<1> QED
  BY <1>1, <1>2, <1>3, <1>4, <1>5, <1>6, <1>7, <1>8, <1>9 DEF ServiceNext

LEMMA ServiceStepKeeps == ServiceInv /\ [ServiceNext]_allVars => ServiceInv'
BY WatchdogKeeps, ProbeKeeps, QueryKeeps DEF ServiceInv

\* Every step of the service keeps the watchdog's invariant, whatever the sleep
\* controller does, and what is known of when the cached power mode was read.
THEOREM ServiceInvariant == ServiceSpec => []ServiceInv
BY ServiceInitEstablishes, ServiceStepKeeps, PTL DEF ServiceSpec

-----------------------------------------------------------------------------
(***************************************************************************)
(* The theorems.                                                           *)
(***************************************************************************)

\* A poll that starts a restart at once for a miner that reads as stopped has
\* an answer in the cache, and it is not "asleep"; if it is "awake", the last
\* restart has cooled down since.
LEMMA PollSpares ==
    ASSUME ServiceInv, NEW s \in States, PollOne(s), wpc' = "recovering", handed' = "stopped"
    PROVE  \/ probe'.answer = "unreadable"
           \/ /\ wpc = "idle"
              /\ clock - probe.at >= RestartCooldown
              /\ clock - probe.at < AsleepRecheck
<1> DEFINE r == Reading(s)
<1>1. wpc = "idle" /\ ProbeInv
  BY DEF PollOne, ServiceInv
<1>2. CASE SleeperActs(s) /\ StandsDown(s)
  BY <1>1, <1>2 DEF StandsDown
<1>3. CASE Release(s) /\ WatchdogActs(r)
  <2>1. r.state = "stopped"
    BY <1>3 DEF Release, Reading
  <2>2. W!GoAhead(r)
    BY <1>1, <1>3
       DEF WatchdogActs, W!Observe, W!DeclineRestart, W!Latch, W!RehearseLatch,
           W!HoldAsleep, W!AskPowerMode
  <2>3. /\ W!FreshProbe(clock) /\ probe.answer # "asleep" /\ W!Proceeds(r)
        /\ probe' = probe
    BY <2>1, <2>2 DEF W!GoAhead, W!HoldsBack, W!UnderLimit
  <2>4. CASE probe.answer = "awake"
    BY <1>1, <2>3, <2>4, ProceedsIsCool DEF W!FreshProbe
  <2>5. CASE probe.answer # "awake"
    BY <1>1, <2>3, <2>5 DEF ProbeInv, TimesTyped
  <2> QED
    BY <2>4, <2>5
<1> QED
  BY <1>2, <1>3 DEF PollOne

\* A restart that waited for the power mode to be read knows what it was when
\* the miner answered.
LEMMA AnswerSpares ==
    ASSUME QueryInv, PowerModeRead, wpc' = "recovering", miner.asleep
    PROVE  probe'.answer = "unreadable" \/ (wpc = "asking" /\ overtaken)
<1>1. /\ wpc = "asking" /\ probe'.answer = answered /\ answered # "asleep"
      /\ answered \in PowerModes
  BY DEF PowerModeRead, W!PowerAnswered, W!HoldsBack
<1> QED
  BY <1>1 DEF QueryInv, PowerModes

\* A restart begins for a sleeping miner only if its power mode could not be read,
\* if it was slept after it had answered, or on a cached answer as old as the
\* cooldown.
THEOREM SleepersAreSpared == ServiceSpec => RestartSparesSleepers
<1>1. ASSUME ServiceInv, ServiceNext, RestartsSleeper
      PROVE  NobodyCouldTell
  <2>1. CASE \E s \in States : PollOne(s)
    <3>1. PICK s \in States : PollOne(s)
      BY <2>1
    <3>2. handed' = "stopped"
      BY <1>1, <3>1 DEF PollOne, RestartsSleeper
    <3> QED
      BY <1>1, <3>1, <3>2, PollSpares DEF RestartsSleeper, NobodyCouldTell
  <2>2. CASE PowerModeRead
    BY <1>1, <2>2, AnswerSpares DEF ServiceInv, RestartsSleeper, NobodyCouldTell
  <2>3. CASE \/ DriverReturns \/ PowerModeAnswers \/ RestartReturns
             \/ ServiceStart \/ ServiceStops \/ ServiceTick
             \/ ClearAttention \/ ByHand \/ Horizon
             \/ (\E to \in {"sleep", "wake"} : CommandBegins(to))
             \/ (\E a \in Answers : CommandEnds(a))
    BY <1>1, <2>3
       DEF RestartsSleeper, DriverReturns, PowerModeAnswers, RestartReturns,
           W!Recovered, ServiceStart, W!Start, ServiceStops, W!Crash, ServiceTick, W!Tick,
           ClearAttention,
           W!ClearAttention, ByHand, Horizon, CommandBegins, CommandEnds, watchdog
  <2> QED
    BY <1>1, <2>1, <2>2, <2>3 DEF ServiceNext
<1>2. ServiceInv /\ [ServiceNext]_allVars => [RestartsSleeper => NobodyCouldTell]_allVars
  BY <1>1
<1> QED
  BY <1>2, ServiceInvariant, PTL DEF ServiceSpec, RestartSparesSleepers

\* The watchdog of the service keeps its cooldown, earns its latches and sends
\* nothing to a miner that waits for a human, whatever polls the sleep
\* controller takes away from it and whatever rows other processes write.
THEOREM WatchdogKeepsItsWord ==
    ServiceSpec => [](/\ W!AttemptsSpaced /\ W!RateLimited
                      /\ W!LatchEarned /\ W!QuietWhileLatched)
<1>1. ServiceInv => P!AttemptsSpaced /\ P!RateLimited /\ P!LatchEarned /\ P!QuietWhileLatched
  BY DEF ServiceInv, P!IInv, P!QuietWhileLatched, P!LatchIsKept, P!FunnelStillHolds,
         P!Running, P!InFlight
<1>2. P!Attempts = W!Attempts /\ P!AttemptActions = W!AttemptActions
  BY SameQueries DEF P!Attempts, W!Attempts, P!AttemptActions, W!AttemptActions
<1>3. P!AttemptsSpaced => W!AttemptsSpaced
  BY <1>2, SameQueries DEF P!AttemptsSpaced, W!AttemptsSpaced
<1>4. P!RateLimited => W!RateLimited
  BY <1>2, SameQueries DEF P!RateLimited, W!RateLimited
<1>5. P!LatchEarned => W!LatchEarned
  BY <1>2, SameQueries DEF P!LatchEarned, W!LatchEarned
<1>6. P!QuietWhileLatched => W!QuietWhileLatched
  BY SameQueries DEF P!QuietWhileLatched, W!QuietWhileLatched
<1>7. ServiceInv => W!AttemptsSpaced /\ W!RateLimited /\ W!LatchEarned /\ W!QuietWhileLatched
  BY <1>1, <1>3, <1>4, <1>5, <1>6
<1> QED
  BY <1>7, ServiceInvariant, PTL

\* No restart of the service is for a failure that was not confirmed over
\* FailAfter, and none waits longer than the log gives reason to: the readings of
\* the polls that the sleep controller owns count as the watchdog's own.
THEOREM ClockKeepsItsWord ==
    ServiceSpec => [](W!ConfirmedBeforeAttempt /\ W!WaitIsBounded)
<1> DEFINE SClock == ServiceInv /\ P!ClockInv
<1>1. ServiceInit => SClock
  BY ServiceInitEstablishes, ClockInit
<1>2. SClock /\ [ServiceNext]_allVars => SClock'
  BY ServiceStepKeeps, ClockKeeps DEF ServiceInv
<1>3. P!Attempts = W!Attempts /\ P!FailureActions = W!FailureActions
      /\ P!ResetActions = W!ResetActions
  BY SameQueries
     DEF P!Attempts, W!Attempts, P!AttemptActions, W!AttemptActions,
         P!FailureActions, W!FailureActions, P!ResetActions, W!ResetActions
<1>4. P!ConfirmedBeforeAttempt => W!ConfirmedBeforeAttempt
  BY <1>3, SameQueries DEF P!ConfirmedBeforeAttempt, W!ConfirmedBeforeAttempt
<1>5. P!WaitIsBounded => W!WaitIsBounded
  <2>1. \A i : P!ReadFor(i) = W!ReadFor(i)
    BY SameHistory DEF P!ReadFor, W!ReadFor
  <2> QED
    BY <1>3, <2>1, SameQueries DEF P!WaitIsBounded, W!WaitIsBounded
<1>6. SClock => W!ConfirmedBeforeAttempt /\ W!WaitIsBounded
  BY <1>4, <1>5 DEF P!ClockInv
<1> QED
  BY <1>1, <1>2, <1>6, PTL DEF ServiceSpec

\* The service implements RestartBudget: polls that the sleep controller owns,
\* its own awaits, commands of other processes and hands at the miner begin no
\* restart, record none, and give no miner back but by a clear.
THEOREM BudgetIsKept == ServiceSpec => P!KeepsBudget
<1>1. ServiceInv => P!IInv
  BY DEF ServiceInv
<1> QED
  BY <1>1, BudgetInit, BudgetKeeps, ServiceInvariant, PTL
     DEF ServiceSpec, P!KeepsBudget, P!Budget!Spec
=============================================================================
