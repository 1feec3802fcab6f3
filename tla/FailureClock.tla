---------------------------- MODULE FailureClock ----------------------------
(***************************************************************************)
(* failure_clock_start of minerwatch/store.py: since when a miner has been *)
(* failing inside its working hours, read back out of its event log.       *)
(*                                                                         *)
(* rules is the ClockRules record: the action sets failure, reset, mining  *)
(* and notMining, the durations recovery and maxGap, and the row limit     *)
(* maxRows.                                                                *)
(***************************************************************************)
EXTENDS EventLog

NoRun == [clock |-> NoTime, runStart |-> NoTime, runLast |-> NoTime]

\* Mutant: the run under way survives any gap.
ContinuesAcrossGaps(w, row, rules) == w.runStart # NoTime

\* A mining row prolongs the run under way, unless a gap broke it.
Continues(w, row, rules) ==
    w.runStart # NoTime /\ row.ts - w.runLast <= rules.maxGap

\* Mutant: one mining row is a recovery.
CompletedAtOnce(start, row, rules) == TRUE

Completed(start, row, rules) == row.ts - start >= rules.recovery

Broken(w) == [w EXCEPT !.runStart = NoTime, !.runLast = NoTime]

\* Mutant: a reset breaks the run but leaves the clock running.
RunResetOnly(w) == Broken(w)

Reset(w) == NoRun

\* One iteration of the loop over the rows.  clock is clock_start; runStart
\* and runLast delimit the recovery run under way.
WalkRow(w, row, rules) ==
    LET start == IF Continues(w, row, rules) THEN w.runStart ELSE row.ts
    IN  CASE row.action \in rules.reset -> Reset(w)
          [] row.action \in rules.mining ->
               [clock    |-> IF Completed(start, row, rules) THEN NoTime
                             ELSE w.clock,
                runStart |-> start,
                runLast  |-> row.ts]
          [] row.action \in rules.failure ->
               IF w.clock = NoTime THEN [Broken(w) EXCEPT !.clock = row.ts]
                                   ELSE Broken(w)
          [] row.action \in rules.notMining -> Broken(w)
          [] OTHER -> w

FailureClockStart(log, now, rules) ==
    LET rows == History(log, now, rules.maxRows)
        walk[n \in 0..Len(rows)] ==
            IF n = 0 THEN NoRun ELSE WalkRow(walk[n - 1], rows[n], rules)
    IN  walk[Len(rows)].clock

-----------------------------------------------------------------------------
(***************************************************************************)
(* What the docstring of failure_clock_start promises, without the walk:   *)
(* the clock starts at the first in-window failure after the last reset,   *)
(* and a reset is a row of a reset action or a mining row that completes   *)
(* `recovery` of mining uninterrupted by any other evidence and by any gap *)
(* longer than maxGap.                                                     *)
(***************************************************************************)
Evidence(rules) ==
    rules.reset \cup rules.mining \cup rules.failure \cup rules.notMining

\* Rows a..b hold only mining evidence, with no gap above maxGap.
MiningThroughout(rows, a, b, rules) ==
    LET ev == {k \in a..b : rows[k].action \in Evidence(rules)}
    IN  /\ \A k \in ev : rows[k].action \in rules.mining
        /\ \A k \in ev : \A m \in ev :
              (k < m /\ \A n \in ev : ~(k < n /\ n < m))
                  => rows[m].ts - rows[k].ts <= rules.maxGap

CompletesRecovery(rows, b, rules) ==
    /\ rows[b].action \in rules.mining
    /\ \E a \in 1..b :
          /\ rows[a].action \in rules.mining
          /\ rows[b].ts - rows[a].ts >= rules.recovery
          /\ MiningThroughout(rows, a, b, rules)

ClearsClock(rows, k, rules) ==
    rows[k].action \in rules.reset \/ CompletesRecovery(rows, k, rules)

PromisedClockStart(log, now, rules) ==
    LET rows == History(log, now, rules.maxRows)
        failures == {k \in DOMAIN rows :
                        /\ rows[k].action \in rules.failure
                        /\ \A c \in k..Len(rows) : ~ClearsClock(rows, c, rules)}
    IN  IF failures = {} THEN NoTime
        ELSE rows[CHOOSE k \in failures : \A m \in failures : k <= m].ts
=============================================================================
