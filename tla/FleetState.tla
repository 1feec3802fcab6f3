----------------------------- MODULE FleetState -----------------------------
(***************************************************************************)
(* What the dashboard knows of the fleet: a copy of the newest rows of the *)
(* events table, refreshed by row id under a lock, by the requests of any  *)
(* number of pages and by the alert monitor.  Another process writes the   *)
(* table; its file may be replaced; the list of miners may be switched.    *)
(***************************************************************************)
EXTENDS Integers, FiniteSets, SequencesExt

CONSTANTS
    Miners,        \* every miner a configuration may name
    RowActions,    \* the actions rows are recorded with
    MaxClock,      \* bound: last tick
    MaxRows,       \* bound: rows in the table
    MaxReplaced    \* bound: times the table's file or the miners are replaced

ASSUME FleetConstants == MaxClock \in Nat /\ MaxRows \in Nat /\ MaxReplaced \in Nat

VARIABLES
    clock,
    rows,       \* the events table in id order, all miners
    configured, \* the shared dict of miners
    cache,      \* the fields of FleetState that rows are applied to
    lastId,     \* last_id, or NoId
    looking,    \* who holds the lock, and the MAX(id) it has read
    replacedN,  \* how much of MaxReplaced is used
    swapped     \* history: another file, and no full load since

fleetVars == <<clock, rows, configured, cache, lastId, looking, replacedN, swapped>>

NoTime == -1
NoId   == -1
Row(t, m, a) == [ts |-> t, miner |-> m, action |-> a]
NoRow(m)     == Row(NoTime, m, "no row")

PollActions == {"none", "alert", "expected_off", "maintenance"}
Powers ==
    [a \in {"sleep", "sleep_failed", "wake", "awake"} |->
        IF a = "sleep" THEN "asleep" ELSE IF a = "sleep_failed" THEN "unsure" ELSE "awake"]
Latches == [watchdog |-> [set |-> "needs_attention", cleared |-> "attention_cleared"],
            sleep    |-> [set |-> "sleep_needs_attention",
                          cleared |-> "sleep_attention_cleared"]]

NothingKnown ==
    [poll |-> [m \in Miners |-> NoRow(m)], latest |-> [m \in Miners |-> NoRow(m)],
     decision |-> [m \in Miners |-> NoRow(m)], power |-> [m \in Miners |-> "awake"],
     latch |-> [k \in DOMAIN Latches |-> [m \in Miners |-> NoTime]]]

Nobody == [by |-> "nobody", top |-> 0]

FleetInit ==
    /\ clock = 0 /\ rows = <<>> /\ configured = Miners
    /\ cache = NothingKnown /\ lastId = NoId /\ looking = Nobody
    /\ replacedN = 0 /\ swapped = FALSE

-----------------------------------------------------------------------------
(* The copy.                                                               *)

\* A later row takes the place of one that is not newer.
Newer(row, known) == IF row.ts >= known.ts THEN row ELSE known

\* The ts a latch was set at, or none.
LatchedSince(row, kind, since) ==
    IF row.action = Latches[kind].set THEN row.ts
    ELSE IF row.action = Latches[kind].cleared THEN NoTime ELSE since

\* _apply
Apply(known, row) ==
    LET m == row.miner
        k == [known EXCEPT !.latest[m] = Newer(row, @)]
    IN  IF row.action \in PollActions
        THEN [k EXCEPT !.poll[m] = Newer(row, @)]
        ELSE [k EXCEPT
                !.decision[m] = row,
                !.power[m] = IF row.action \in DOMAIN Powers THEN Powers[row.action] ELSE @,
                !.latch = [kind \in DOMAIN Latches |->
                             [known.latch[kind] EXCEPT
                                ![m] = LatchedSince(row, kind, known.latch[kind][m])]]]

\* ORDER BY ts DESC, id DESC LIMIT 1 over some rows, given by their ids.
NewestOf(ids) ==
    rows[CHOOSE i \in ids :
            \A j \in ids : rows[j].ts < rows[i].ts \/ (rows[j].ts = rows[i].ts /\ j <= i)]

PollsOf(m, top) == {i \in 1..top : rows[i].miner = m /\ rows[i].action \in PollActions}

\* _apply to one row after the other: the ids from + 1 to `to` with some actions.
Applied(known, from, to, actions) ==
    LET after[n \in 0..(to - from)] ==
            IF n = 0 THEN known
            ELSE IF rows[from + n].action \in actions
                 THEN Apply(after[n - 1], rows[from + n]) ELSE after[n - 1]
    IN  after[to - from]

\* The newest poll of each configured miner.  Each row is another miner's, so
\* they are applied at once.
WithPolls(known, top) ==
    LET with(kept) ==
            [m \in Miners |-> IF m \in configured /\ PollsOf(m, top) # {}
                              THEN Newer(NewestOf(PollsOf(m, top)), kept[m]) ELSE kept[m]]
    IN  [known EXCEPT !.poll = with(@), !.latest = with(@)]

\* _load: every decision in id order, then the newest polls.
Load(top) == WithPolls(Applied(NothingKnown, 0, top, RowActions \ PollActions), top)

\* refresh, from the MAX(id) it has read
Refreshed(top) ==
    IF lastId = NoId \/ top < lastId THEN Load(top)
    ELSE Applied(cache, lastId, top, RowActions)

\* refresh takes the lock and reads MAX(id) ...
Look(who) ==
    /\ looking = Nobody /\ looking' = [by |-> who, top |-> Len(rows)]
    /\ UNCHANGED <<clock, rows, configured, cache, lastId, replacedN, swapped>>

\* Mutant: last_id is the newest id by now.
ReadOn(who) ==
    /\ looking.by = who /\ looking' = Nobody
    /\ cache' = Refreshed(looking.top) /\ lastId' = Len(rows)
    /\ swapped' = (swapped /\ lastId # NoId /\ looking.top >= lastId)
    /\ UNCHANGED <<clock, rows, configured, replacedN>>

\* ... and then the rows up to it; the snapshot is built under the same lock.
Read(who) ==
    /\ looking.by = who /\ looking' = Nobody
    /\ cache' = Refreshed(looking.top) /\ lastId' = looking.top
    /\ swapped' = (swapped /\ lastId # NoId /\ looking.top >= lastId)
    /\ UNCHANGED <<clock, rows, configured, replacedN>>

\* replace_miners
ReplaceMiners(ms) ==
    /\ looking = Nobody /\ replacedN < MaxReplaced /\ replacedN' = replacedN + 1
    /\ configured' = ms /\ lastId' = NoId
    /\ UNCHANGED <<clock, rows, cache, looking, swapped>>

-----------------------------------------------------------------------------
(* The table.  A controller stamps the start of its poll and inserts after *)
(* its awaits, so a row may be one tick older than the clock.              *)

Insert(m, a, t) ==
    /\ Len(rows) < MaxRows /\ rows' = Append(rows, Row(t, m, a))
    /\ UNCHANGED <<clock, configured, cache, lastId, looking, replacedN, swapped>>

\* Somebody moves the database file away while nobody has it open.
ReplaceTable ==
    /\ looking = Nobody /\ replacedN < MaxReplaced /\ replacedN' = replacedN + 1
    /\ rows # <<>> /\ rows' = <<>> /\ swapped' = TRUE
    /\ UNCHANGED <<clock, configured, cache, lastId, looking>>

Passes == /\ clock < MaxClock /\ clock' = clock + 1
          /\ UNCHANGED <<rows, configured, cache, lastId, looking, replacedN, swapped>>

TableStep == \/ \E m \in configured, a \in RowActions, t \in {clock, clock - 1} \cap Nat :
                    Insert(m, a, t)
             \/ ReplaceTable
             \/ \E ms \in SUBSET Miners \ {{}} : ReplaceMiners(ms)

-----------------------------------------------------------------------------
(***************************************************************************)
(* Properties.                                                             *)
(***************************************************************************)

\* The newest id up to `top` of a miner's rows with some actions, or 0.
LastIdOf(m, actions, top) ==
    LET ids == {i \in 1..top : rows[i].miner = m /\ rows[i].action \in actions}
    IN  IF ids = {} THEN 0 ELSE CHOOSE i \in ids : \A j \in ids : j <= i

\* What a scan of the rows up to `top` shows of a miner: the newest poll by
\* (ts, id), and of each other family of rows the last by id.
ShowsPoll(known, m, top) ==
    known.poll[m] = IF PollsOf(m, top) = {} THEN NoRow(m) ELSE NewestOf(PollsOf(m, top))

ShowsDecisions(known, m, top) ==
    /\ LET i == LastIdOf(m, RowActions \ PollActions, top)
       IN  known.decision[m] = IF i = 0 THEN NoRow(m) ELSE rows[i]
    /\ LET i == LastIdOf(m, DOMAIN Powers, top)
       IN  known.power[m] = IF i = 0 THEN "awake" ELSE Powers[rows[i].action]
    /\ \A kind \in DOMAIN Latches :
          LET i == LastIdOf(m, {Latches[kind].set, Latches[kind].cleared}, top)
          IN  known.latch[kind][m] =
                IF i # 0 /\ rows[i].action = Latches[kind].set THEN rows[i].ts ELSE NoTime

\* However the copy was brought up to date, in which steps and with rows
\* inserted between its two queries, it is what a scan of the table up to
\* last_id shows of every miner.  Not so when a new file outgrew the old one
\* before anybody looked.
IncrementalIsScan ==
    lastId # NoId /\ ~swapped =>
        \A m \in configured : ShowsPoll(cache, m, lastId) /\ ShowsDecisions(cache, m, lastId)
=============================================================================
