------------------------------- MODULE Alerts -------------------------------
(***************************************************************************)
(* The alert monitor: a thread of the dashboard that evaluates conditions  *)
(* on the fleet and mails what is new, what is due again and what is over. *)
(* What was mailed is kept in memory and in a state file.                  *)
(***************************************************************************)
EXTENDS FleetState

CONSTANTS
    SleepEnabled,  \* miners with software power control
    WorkTicks,     \* ticks inside the working hours
    StaleAfter,    \* max(3 * poll_interval, 60)
    NotMining,     \* not_mining_minutes
    Slack,         \* 2 * max(poll_interval, 15)
    Repeat,        \* repeat_hours; 0 never
    Settings,      \* what the settings file may say: [enabled, watch, resolved]
    MaxTrouble,    \* bound: failed mails and saves, dashboards that stop
    MaxChanges     \* bound: maintenance windows and settings changed

ASSUME AlertConstants ==
    /\ SleepEnabled \subseteq Miners
    /\ StaleAfter \in Nat /\ NotMining \in Nat \ {0} /\ Slack \in Nat
    /\ Repeat \in Nat /\ MaxTrouble \in Nat /\ MaxChanges \in Nat

VARIABLES
    settings,  \* alerts.json
    inMaintenance, \* the miners a maintenance window covers
    sent,      \* _sent: per key last_sent, or NoTime
    saved,     \* the state file
    monitor,   \* the check under way
    trouble, changes, \* how much of each bound is used
    told,      \* history: per key what the last mail said, and when
    amnesia,   \* history: a mail went out that was not booked in the state file
    falseClear \* history: how the monitor stood to what was mailed as over while in force

alertVars == <<settings, inMaintenance, sent, saved, monitor, trouble, changes,
               told, amnesia, falseClear>>
allVars   == <<fleetVars, alertVars>>

Stale      == <<"stale">>
MinerKeys  == {"latched", "unsure", "down"} \X Miners
Keys       == {Stale} \cup MinerKeys
NothingSent == [key \in Keys |-> NoTime]

NoMail    == [new |-> {}, reminders |-> {}, resolved |-> {}]
AtRest    == [pc |-> "idle", now |-> 0, use |-> CHOOSE s \in Settings : TRUE, mail |-> NoMail]

AlertsInit ==
    /\ FleetInit /\ settings \in Settings /\ inMaintenance = {}
    /\ sent = NothingSent /\ saved = NothingSent /\ monitor = AtRest
    /\ trouble = 0 /\ changes = 0
    /\ told = [key \in Keys |-> [alarmed |-> FALSE, at |-> NoTime]]
    /\ amnesia = FALSE /\ falseClear = {}

-----------------------------------------------------------------------------
(* The conditions, on a copy `known` that was just refreshed.              *)

NewestPoll(known) == {known.poll[m].ts : m \in configured} \ {NoTime}

IsStale(known, now) == \A t \in NewestPoll(known) : now - t > StaleAfter

FleetMaintenance == configured # {} /\ configured \subseteq inMaintenance

Power(known, m) == IF m \in SleepEnabled THEN known.power[m] ELSE "manual"

Latched(known, m) == \E kind \in DOMAIN Latches : known.latch[kind][m] # NoTime

\* _not_mining_for: a query of its own, so it may see rows the copy has not.
NotMiningFor(known, m, now) ==
    LET since  == now - NotMining
        recent == {i \in DOMAIN rows : /\ rows[i].miner = m /\ rows[i].ts >= since
                                       /\ rows[i].action \in {"none", "alert", "expected_off"}}
    IN  /\ known.poll[m].action # "none" /\ now \in WorkTicks
        /\ Power(known, m) # "asleep"
        /\ recent # {} /\ \A i \in recent : rows[i].action = "alert"
        /\ \E i \in recent : rows[i].ts <= since + Slack

Holds(key, known, now) ==
    LET m == key[2]
    IN  CASE key[1] = "latched" -> Latched(known, m)
          [] key[1] = "unsure"  -> Power(known, m) = "unsure"
          [] key[1] = "down"    -> NotMiningFor(known, m, now)

\* evaluate: while the rows are stale they say nothing about the miners.
Evaluated(known, use, now) ==
    IF "stale" \in use.watch /\ IsStale(known, now) /\ ~FleetMaintenance
    THEN {Stale}
    ELSE {key \in {"latched", "unsure", "down"} \X (configured \ inMaintenance) :
             key[1] \in use.watch /\ Holds(key, known, now)}

\* Mutant: maintenance hides the conditions and so ends them.
NothingPaused == {}

\* _paused_keys
Paused == (IF FleetMaintenance THEN {Stale} ELSE {})
             \cup {key \in MinerKeys : key[2] \in configured \cap inMaintenance}

\* Mutant: whatever is active is mailed again.
DueAtOnce(key, now) == TRUE

\* The reminder of a condition that was mailed before.
Due(key, now) == Repeat # 0 /\ now - sent[key] >= Repeat

\* What check_once sorts the conditions into.
Mail(active, now) ==
    [new       |-> {key \in active : sent[key] = NoTime},
     reminders |-> {key \in active : sent[key] # NoTime /\ Due(key, now)},
     resolved  |-> {key \in Keys \ (active \cup Paused) :
                       sent[key] # NoTime /\ Stale \notin active}]

-----------------------------------------------------------------------------
(* The monitor.                                                            *)

TableStays == UNCHANGED <<settings, inMaintenance>>
History    == <<told, amnesia, falseClear>>

\* check_once reads the settings and begins its snapshot.
BeginCheck ==
    /\ monitor.pc = "idle" /\ Look("monitor")
    /\ monitor' = [pc |-> "looking", now |-> clock, use |-> settings, mail |-> NoMail]
    /\ UNCHANGED <<sent, saved, trouble, changes, History>> /\ TableStays

Forgotten(keys) == [key \in Keys |-> IF key \in keys THEN NoTime ELSE sent[key]]

\* The state file is written, or cannot be, which is only logged.
SaveState(state) ==
    \/ saved' = state /\ UNCHANGED <<trouble, amnesia>>
    \/ /\ trouble < MaxTrouble /\ trouble' = trouble + 1
       /\ amnesia' = TRUE /\ UNCHANGED saved

\* A condition of the miners that is in force, whatever the monitor looks at.
InForce(key, known) ==
    /\ key \in MinerKeys
    /\ \/ key[1] = "latched" /\ Latched(known, key[2])
       \/ key[1] = "unsure" /\ Power(known, key[2]) = "unsure"

\* Whether the monitor looks at it at all: the operator may have switched its
\* kind off in the settings, or taken the miner out of the fleet.
Standing(key) == IF key[1] \in monitor.use.watch /\ key[2] \in configured
                 THEN "in sight" ELSE "out of sight"

FalseClears(mail, known) ==
    {Standing(key) : key \in {k \in mail.resolved : monitor.use.resolved /\ InForce(k, known)}}

\* The snapshot, evaluate and what follows from it.
Evaluate ==
    LET mail == Mail(Evaluated(cache', monitor.use, monitor.now), monitor.now)
        due  == \/ mail.new # {} \/ mail.reminders # {}
                \/ (mail.resolved # {} /\ monitor.use.resolved)
    IN  /\ monitor.pc = "looking" /\ Read("monitor") /\ TableStays
        /\ UNCHANGED <<changes, told>>
        /\ IF ~monitor.use.enabled \/ (~due /\ mail.resolved = {})
           THEN /\ monitor' = AtRest
                /\ UNCHANGED <<sent, saved, trouble, amnesia, falseClear>>
           ELSE IF ~due
           THEN /\ monitor' = AtRest /\ sent' = Forgotten(mail.resolved)
                /\ SaveState(sent') /\ UNCHANGED falseClear
           ELSE /\ monitor' = [monitor EXCEPT !.pc = "sending", !.mail = mail]
                /\ falseClear' = falseClear \cup FalseClears(mail, cache')
                /\ UNCHANGED <<sent, saved, trouble, amnesia>>

\* What the operator reads.
Delivered ==
    told' = [key \in Keys |->
               IF key \in monitor.mail.new \cup monitor.mail.reminders
               THEN [alarmed |-> TRUE, at |-> monitor.now]
               ELSE IF key \in monitor.mail.resolved
               THEN [told[key] EXCEPT !.alarmed = FALSE] ELSE told[key]]

\* The mail was taken.
MailSent ==
    /\ monitor.pc = "sending" /\ Delivered
    /\ monitor' = [monitor EXCEPT !.pc = "booking"]
    /\ UNCHANGED <<fleetVars, sent, saved, trouble, changes, amnesia, falseClear>>
    /\ TableStays

\* What the books say once the mail is out.
Booked ==
    [key \in Keys |->
        IF key \in monitor.mail.new \cup monitor.mail.reminders THEN monitor.now
        ELSE IF key \in monitor.mail.resolved THEN NoTime ELSE sent[key]]

\* Mutant: a failed mail is booked as one that was sent.
MailFailsBooked ==
    /\ monitor.pc = "sending" /\ trouble < MaxTrouble /\ trouble' = trouble + 1
    /\ UNCHANGED told /\ amnesia' = amnesia
    /\ sent' = Booked /\ saved' = Booked /\ monitor' = AtRest
    /\ UNCHANGED <<fleetVars, changes, falseClear>> /\ TableStays

\* An exception of the mail server, before or after it took the mail: the
\* books stay and the next check tries again.
MailFails ==
    /\ monitor.pc = "sending" /\ trouble < MaxTrouble /\ trouble' = trouble + 1
    /\ \/ UNCHANGED told /\ amnesia' = amnesia
       \/ Delivered /\ amnesia' = TRUE
    /\ monitor' = AtRest
    /\ UNCHANGED <<fleetVars, sent, saved, changes, falseClear>> /\ TableStays

\* The books and the state file.
Book ==
    /\ monitor.pc = "booking" /\ monitor' = AtRest
    /\ sent' = Booked /\ SaveState(Booked)
    /\ UNCHANGED <<fleetVars, changes, told, falseClear>> /\ TableStays

-----------------------------------------------------------------------------
(* The rest of the dashboard and the world.                                *)

\* A page asks for the status.
Request == (Look("page") \/ Read("page")) /\ UNCHANGED alertVars

\* The dashboard stops and is started again: it reads the state file, or
\* begins with empty books when it cannot.
Restart ==
    /\ trouble < MaxTrouble /\ trouble' = trouble + 1
    /\ sent' \in {saved, NothingSent}
    /\ amnesia' = (amnesia \/ monitor.pc = "booking" \/ sent' # saved)
    /\ monitor' = AtRest /\ looking' = Nobody
    /\ cache' = NothingKnown /\ lastId' = NoId /\ swapped' = FALSE
    /\ UNCHANGED <<clock, rows, configured, replacedN, saved, changes, told, falseClear>>
    /\ TableStays

\* POST /api/alerts, and maintenance that begins or ends.
Configure ==
    /\ changes < MaxChanges /\ changes' = changes + 1
    /\ \/ settings' \in Settings \ {settings} /\ UNCHANGED inMaintenance
       \/ inMaintenance' \in SUBSET Miners \ {inMaintenance} /\ UNCHANGED settings
    /\ UNCHANGED <<fleetVars, sent, saved, monitor, trouble, History>>

World == (TableStep \/ Passes) /\ UNCHANGED alertVars

Check == BeginCheck \/ Evaluate \/ MailSent \/ MailFails \/ Book

AlertsNext == Check \/ Request \/ Restart \/ Configure \/ World

AlertsSpec == AlertsInit /\ [][AlertsNext]_allVars

\* The loop of `run` checks again and again, a mail fails or is taken within
\* its timeout, and a request does not hold the lock for ever.  Pages ask once
\* in a while and leave the lock free in between: the monitor gets it.
Fairness ==
    /\ SF_allVars(BeginCheck)
    /\ WF_allVars(Evaluate \/ MailSent \/ MailFails \/ Book)
    /\ WF_allVars(Read("page") /\ UNCHANGED alertVars)

FairAlerts == AlertsSpec /\ Fairness

-----------------------------------------------------------------------------
(***************************************************************************)
(* Properties.                                                             *)
(***************************************************************************)

\* A latch or an uncertain sleep in force that the monitor looks at is never
\* mailed as over: not because the supervisor is silent, not because maintenance
\* hides the miner, not because somebody reloaded or replaced the fleet.  Only
\* what the operator has put out of its sight is: a kind that was switched off
\* in the settings and a miner that left the fleet get a false all-clear.
SightIsNotCleared == "in sight" \notin falseClear

\* A condition is not mailed again before repeat_hours have passed, unless an
\* all-clear came between (where these are mailed) or the books were lost.
AlarmsSpaced ==
    [][\A key \in Keys :
          (/\ told[key].alarmed /\ told'[key].at # told[key].at
           /\ ~amnesia' /\ \A s \in Settings : s.resolved)
          => Repeat # 0 /\ told'[key].at - told[key].at >= Repeat]_allVars

\* When a latch stays, both it and a silent supervisor are watched and no
\* maintenance covers the miner, the last news of the operator is, in the end,
\* that it is latched or that the supervisor is silent, whatever mails failed.
LatchIsTold ==
    \A m \in Miners :
        <>[](/\ m \in configured \ inMaintenance /\ settings.enabled
             /\ {"latched", "stale"} \subseteq settings.watch
             /\ LET ids == {i \in DOMAIN rows : /\ rows[i].miner = m
                                /\ rows[i].action \in {"needs_attention", "attention_cleared"}}
                IN  ids # {} /\ rows[CHOOSE i \in ids : \A j \in ids : j <= i].action
                                    = "needs_attention"
             /\ ~swapped /\ ~amnesia)
        => []<>(told[<<"latched", m>>].alarmed \/ told[Stale].alarmed)
=============================================================================
