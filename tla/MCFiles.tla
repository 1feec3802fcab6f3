------------------------------ MODULE MCFiles ------------------------------
(***************************************************************************)
(* What people and processes write down and the service goes by: the file  *)
(* of maintenance windows and miners.yaml while both are being changed,    *)
(* and how what they hold is read: the settings of a configuration, its    *)
(* hours, and the event log.  The parts share no state, so a behaviour     *)
(* exercises one of them, chosen at the start, while the others rest.      *)
(***************************************************************************)
EXTENDS ManualMaintenance, ConfigEditor, FailureClock, Hours, FleetConfig

CONSTANTS
    MaxLen,                     \* rows in the longest log
    MaxStep,                    \* ticks between a row and the one before it
    Recovery, MaxGap, MaxRows   \* of the rules of the failure clock

ASSUME ClockBounds ==
    /\ MaxLen \in Nat /\ MaxStep \in Nat
    /\ Recovery \in Nat /\ MaxGap \in Nat /\ MaxRows \in Nat \ {0}

VARIABLES
    exercised,  \* the part that is exercised
    subject     \* a log, the windows of a schedule, or a configuration

fileVars == <<vars, editorVars, exercised, subject>>

Rest == UNCHANGED <<vars, editorVars>>

-----------------------------------------------------------------------------
(* The log: every log of at most MaxLen rows, each stamped up to MaxStep   *)
(* ticks after its predecessor or one tick before it (a controller records *)
(* after its awaits under the time its poll began).                        *)

\* One action of each class the walk tells apart, and one it ignores.
Actions == {"restart", "maintenance", "none", "alert", "attention_cleared"}

Rules == [failure |-> {"restart"}, reset |-> {"maintenance"},
          mining |-> {"none"}, notMining |-> {"alert"},
          recovery |-> Recovery, maxGap |-> MaxGap, maxRows |-> MaxRows]

LastTs(log) == IF log = <<>> THEN MaxLen ELSE log[Len(log)].ts

Logging == /\ exercised = "log" /\ Rest /\ UNCHANGED exercised
           /\ Len(subject) < MaxLen
           /\ \E a \in Actions, d \in -1..MaxStep :
                 subject' = Record(subject, LastTs(subject) + d, a)

\* The walk computes the clock its docstring promises, for a reading at the
\* last row and for one an earlier poll would have made (rows stamped after
\* it are in the future and must not count).
WalkKeepsItsPromise ==
    exercised = "log" =>
        \A now \in {LastTs(subject), LastTs(subject) - 1} :
            FailureClockStart(subject, now, Rules) = PromisedClockStart(subject, now, Rules)

-----------------------------------------------------------------------------
(* The hours: a window of at most two days and two ranges.                 *)

Ranges == {r \in [start : Minutes, end : 0..DayLength] : IsRange(r)}

FewDays   == {days \in SUBSET Weekdays : Cardinality(days) <= 2}
FewRanges == {{r, s} : r, s \in Ranges}

Schedules == {{w} : w \in {v \in [days : FewDays, ranges : FewRanges] : IsWindow(v)}}

\* A weekly maintenance window of the same days and ranges, for the whole fleet
\* or for one group.
Weekly(w, groups) == [weekly |-> TRUE, groups |-> groups, miners |-> {},
                      days |-> w.days, ranges |-> w.ranges]

Fleetmates == {[id |-> "a", group |-> "group"], [id |-> "b", group |-> "none"]}

\* Of every instant of the week a schedule says what it says: each range lasts
\* from its start to its end on every day that is listed, over midnight, over
\* the end of the week and where ranges of two days meet.  A maintenance window
\* says the same of the same hours, to those it names, and one that is accepted
\* is in force some time.
HoursAreAsWritten ==
    exercised = "hours" =>
        \A w \in subject :
            /\ \A day \in Weekdays, minute \in Minutes :
                  LET meant == IsCovered({w}, day, minute)
                      now   == [day |-> day, minute |-> minute]
                  IN  /\ InWindows({w}, day, minute) <=> meant
                      /\ \A m \in Fleetmates, groups \in {{}, {"group"}} :
                            ActiveFor({Weekly(w, groups)}, m, now)
                               <=> meant /\ (groups = {} \/ m.group = "group")
            /\ IsMaintenance(Weekly(w, {}), {}, {}) =>
                  \E day \in Weekdays, minute \in Minutes :
                      InForce(Weekly(w, {}), [day |-> day, minute |-> minute])

-----------------------------------------------------------------------------
(* The settings: one or two miners, with or without a group, and blocks    *)
(* that say some of the fields.                                            *)

Nothing == [f \in {} |-> 0]

WatchdogBlocks ==
    {Nothing, [cooldown |-> 1], [cooldown |-> 3], [cooldown |-> -1], [window |-> 4],
     [window |-> 0], [max |-> 1], [max |-> 5], [with |-> "auto"],
     [enabled |-> FALSE], [cooldown |-> 3, max |-> 2, with |-> "auto"]}

SleepBlocks ==
    {Nothing, [enabled |-> TRUE], [backend |-> "none"], [backend |-> "bitmain_http"],
     [commands |-> FALSE], [enabled |-> FALSE]}

Entry(id, group, watchdog, sleep, schedule) ==
    [id |-> id, group |-> group, watchdog |-> watchdog, sleep |-> sleep, schedule |-> schedule]

File(w1, w2, s1, s2, miners) ==
    [watchdog |-> w1, sleep |-> s1, miners |-> miners,
     groups |-> [g \in {"group"} |-> [watchdog |-> w2, sleep |-> s2, schedule |-> "group's"]]]

Groups == {NoGroup, "group", "unknown group"}

\* What is said of the watchdog and what is said of the sleep are varied in turn.
WatchdogFiles ==
    {File(w1, w2, Nothing, Nothing, <<Entry("a", g, w3, Nothing, s)>>) :
        w1, w2, w3 \in WatchdogBlocks, g \in Groups, s \in {"none", "own"}}

SleepFiles ==
    {File(Nothing, Nothing, s1, s2, <<Entry("a", g, Nothing, s3, "none"),
                                      Entry(id, NoGroup, Nothing, Nothing, "none")>>) :
        s1, s2, s3 \in SleepBlocks, g \in Groups, id \in {"a", "b"}}

Configurations == WatchdogFiles \cup SleepFiles

\* A configuration that is accepted says of each miner what IsWhatWasSaid
\* states: of each setting, the nearest that is said of it.
SettingsAreWhatWasSaid == exercised = "settings" => IsWhatWasSaid(subject)

-----------------------------------------------------------------------------
\* The subjects that are looked at as they are.
Consulted == exercised \in {"log", "hours", "settings"} /\ UNCHANGED fileVars

FilesInit ==
    /\ Init /\ EditorInit
    /\ \/ exercised \in {"maintenance.json", "miners.yaml", "log"} /\ subject = <<>>
       \/ exercised = "hours" /\ subject \in Schedules
       \/ exercised = "settings" /\ subject \in Configurations

Maintenance == /\ exercised = "maintenance.json" /\ Next
               /\ UNCHANGED <<editorVars, exercised, subject>>

Editing == /\ exercised = "miners.yaml" /\ EditorNext
           /\ UNCHANGED <<vars, exercised, subject>>

Polling(r) == /\ exercised = "maintenance.json" /\ Get(r)
              /\ UNCHANGED <<editorVars, exercised, subject>>

FilesSpec == /\ FilesInit
             /\ [][Maintenance \/ Editing \/ Logging \/ Consulted]_fileVars
             /\ \A r \in Readers : WF_fileVars(Polling(r))
=============================================================================
