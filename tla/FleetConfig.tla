---------------------------- MODULE FleetConfig ----------------------------
(***************************************************************************)
(* load_config: the settings of the whole fleet, of a group and of a miner *)
(* are merged one onto the other, and every level that is merged is        *)
(* checked, the ones no miner uses included.  A setting is a member of the *)
(* domain of its block or is left out; a file that is refused is NotLoaded.*)
(***************************************************************************)
EXTENDS Integers, FiniteSets, SequencesExt

CONSTANTS
    NotLoaded,  \* what load_config raises instead
    MinReboot   \* the least cooldown of a reboot, 900 seconds

ASSUME ConfigAssumption == MinReboot \in Nat

\* WatchdogConfig and SleepConfig: what holds where no level says anything, the
\* shipped values in units of 300 seconds (so MinReboot is 3).
DefaultWatchdog ==
    [enabled |-> TRUE, cooldown |-> 2, window |-> 12, max |-> 3, with |-> "cgminer"]
DefaultSleep == [enabled |-> FALSE, backend |-> "cgminer", commands |-> TRUE]

-----------------------------------------------------------------------------
(* One level.                                                              *)

\* replace(base, **changes)
Merged(base, block) ==
    [f \in DOMAIN base |-> IF f \in DOMAIN block THEN block[f] ELSE base[f]]

\* What one block may not say, whatever it is merged onto.
BadWatchdogBlock(b) ==
    \/ "cooldown" \in DOMAIN b /\ b.cooldown < 0
    \/ "window" \in DOMAIN b /\ b.window < 1
    \/ "max" \in DOMAIN b /\ b.max < 1

\* What the merged policy may not be: reboots are at least MinReboot apart, and
\* max_restarts attempts a cooldown apart span less than the rate window.
BadPolicy(c) ==
    \/ c.with # "cgminer" /\ c.cooldown < MinReboot
    \/ c.cooldown * (c.max - 1) >= c.window

BadSleep(c) == c.enabled /\ (c.backend = "none" \/ (c.backend = "cgminer" /\ ~c.commands))

\* _parse_watchdog and _parse_sleep; a level without the block is not checked
\* again.
ParseWatchdog(block, base) ==
    IF base = NotLoaded THEN NotLoaded
    ELSE IF DOMAIN block = {} THEN base
    ELSE LET merged == Merged(base, block)
         IN  IF BadWatchdogBlock(block) \/ BadPolicy(merged) THEN NotLoaded ELSE merged

ParseSleep(block, base) ==
    IF base = NotLoaded THEN NotLoaded
    ELSE IF DOMAIN block = {} THEN base
    ELSE LET merged == Merged(base, block) IN IF BadSleep(merged) THEN NotLoaded ELSE merged

\* _resolve_schedule: a miner that says `schedule:` and no more keeps its
\* group's.
ResolveSchedule(base, override) == IF override = "none" THEN base ELSE override

-----------------------------------------------------------------------------
(* The file: [watchdog, sleep] of the fleet; a function from groups to     *)
(* [watchdog, sleep, schedule]; the miners, a sequence of                  *)
(* [id, group, watchdog, sleep, schedule], where NoGroup is no group.      *)

NoGroup == "no group"

\* The fleet as a whole has no schedule.
Fleet(file) == [watchdog |-> ParseWatchdog(file.watchdog, DefaultWatchdog),
                sleep    |-> ParseSleep(file.sleep, DefaultSleep),
                schedule |-> "none"]

Group(file, g) == [watchdog |-> ParseWatchdog(file.groups[g].watchdog, Fleet(file).watchdog),
                   sleep    |-> ParseSleep(file.groups[g].sleep, Fleet(file).sleep),
                   schedule |-> file.groups[g].schedule]

\* Mutant: a miner's settings are merged onto those of the fleet.
BaseOfFleet(file, m) == Fleet(file)

\* The level a miner's own settings are merged onto.
Base(file, m) == IF m.group = NoGroup THEN Fleet(file) ELSE Group(file, m.group)

\* One entry of the miners list.
Resolved(file, m) ==
    [watchdog |-> ParseWatchdog(m.watchdog, Base(file, m).watchdog),
     sleep    |-> ParseSleep(m.sleep, Base(file, m).sleep),
     schedule |-> ResolveSchedule(Base(file, m).schedule, m.schedule)]

Ids(file) == {file.miners[i].id : i \in DOMAIN file.miners}

\* What load_config raises for.
IsRefused(file) ==
    \/ NotLoaded \in {Fleet(file).watchdog, Fleet(file).sleep}
    \/ \E g \in DOMAIN file.groups :
          NotLoaded \in {Group(file, g).watchdog, Group(file, g).sleep}
    \/ Cardinality(Ids(file)) # Len(file.miners)
    \/ \E m \in Range(file.miners) :
          \/ m.group \notin DOMAIN file.groups \cup {NoGroup}
          \/ NotLoaded \in {Resolved(file, m).watchdog, Resolved(file, m).sleep}

\* The miners of an accepted file, by id.
Loaded(file) ==
    IF IsRefused(file) THEN NotLoaded
    ELSE [id \in Ids(file) |->
            Resolved(file, CHOOSE m \in Range(file.miners) : m.id = id)]

-----------------------------------------------------------------------------
(* The same, as an operator would say it.                                  *)

\* What is said of a setting, from the miner outwards.
Said(file, m, kind) ==
    IF m.group = NoGroup THEN <<m[kind], file[kind]>>
    ELSE <<m[kind], file.groups[m.group][kind], file[kind]>>

Nearest(file, m, kind, f, default) ==
    LET said  == Said(file, m, kind)
        heard == {i \in DOMAIN said : f \in DOMAIN said[i]}
    IN  IF heard = {} THEN default
        ELSE said[CHOOSE i \in heard : \A j \in heard : i <= j][f]

\* In a file that is accepted every setting of a miner is the nearest that is
\* said of it, field by field, through the fleet, its group and its own entry.
IsWhatWasSaid(file) ==
    Loaded(file) # NotLoaded =>
        \A m \in Range(file.miners) :
            LET c == Loaded(file)[m.id]
            IN  /\ \A f \in DOMAIN DefaultWatchdog :
                      c.watchdog[f] = Nearest(file, m, "watchdog", f, DefaultWatchdog[f])
                /\ \A f \in DOMAIN DefaultSleep :
                      c.sleep[f] = Nearest(file, m, "sleep", f, DefaultSleep[f])
                /\ c.schedule = IF m.schedule # "none" \/ m.group = NoGroup THEN m.schedule
                                ELSE file.groups[m.group].schedule
=============================================================================
