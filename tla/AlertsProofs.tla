---------------------------- MODULE AlertsProofs ----------------------------
(***************************************************************************)
(* The alert monitor for any fleet, any settings and any number of faults: *)
(* no all-clear is false, and no condition is mailed again too soon.  The  *)
(* second rests on the books: until they are lost, the state file agrees   *)
(* with the memory, and the memory with what the operator was told last.   *)
(* And the copy of the events table that the conditions are read from is   *)
(* what a scan of the table shows, however it was brought up to date.      *)
(***************************************************************************)
EXTENDS Alerts, SequenceTheorems, TLAPS

E == INSTANCE EventLogProofs

Times == Nat \cup {NoTime}

AlertsTypeOK ==
    /\ clock \in Nat /\ configured \subseteq Miners
    /\ settings \in Settings
    /\ sent \in [Keys -> Times] /\ saved \in [Keys -> Times]
    /\ monitor \in [pc : {"idle", "looking", "sending", "booking"}, now : Nat,
                    use : Settings,
                    mail : [new : SUBSET Keys, reminders : SUBSET Keys,
                            resolved : SUBSET Keys]]
    /\ told \in [Keys -> [alarmed : BOOLEAN, at : Times]]
    /\ amnesia \in BOOLEAN

\* All-clears are mailed whatever the settings file says.
ClearsMailed == \A s \in Settings : s.resolved

\* Until the books are lost, the state file is up to date.
FileAgrees == ~amnesia => saved = sent

\* Until the books are lost, an alarm the operator was not told the end of is
\* booked at the time of its last mail; while a mail is out, it is about to be.
BooksAgree ==
    ClearsMailed /\ ~amnesia =>
        \A key \in Keys :
            told[key].alarmed =>
                /\ told[key].at # NoTime
                /\ told[key].at = IF monitor.pc = "booking" THEN Booked[key] ELSE sent[key]

\* What is new in a mail is not booked, and a reminder in it is due.
MailAgrees ==
    monitor.pc = "sending" =>
        \A key \in Keys :
            /\ key \in monitor.mail.new => sent[key] = NoTime
            /\ key \in monitor.mail.reminders =>
                    Repeat # 0 /\ monitor.now - sent[key] >= Repeat

AlertsInv == AlertsTypeOK /\ FileAgrees /\ BooksAgree /\ MailAgrees

-----------------------------------------------------------------------------
(***************************************************************************)
(* The types.                                                              *)
(***************************************************************************)

LEMMA KeysOfMail ==
    ASSUME AlertsTypeOK, NEW known, NEW use, NEW now
    PROVE  LET mail == Mail(Evaluated(known, use, now), now)
           IN  mail \in [new : SUBSET Keys, reminders : SUBSET Keys, resolved : SUBSET Keys]
<1>1. Evaluated(known, use, now) \subseteq Keys
  BY DEF Evaluated, AlertsTypeOK, Keys, MinerKeys
<1> QED
  BY <1>1 DEF Mail

LEMMA AtRestTyped ==
    ASSUME Settings # {}
    PROVE  /\ AtRest \in [pc : {"idle", "looking", "sending", "booking"}, now : Nat,
                          use : Settings,
                          mail : [new : SUBSET Keys, reminders : SUBSET Keys,
                                  resolved : SUBSET Keys]]
           /\ AtRest.pc = "idle"
BY DEF AtRest, NoMail

LEMMA BookedTyped ==
    ASSUME AlertsTypeOK
    PROVE  Booked \in [Keys -> Times]
BY DEF AlertsTypeOK, Booked, Times

LEMMA DeliveredTyped ==
    ASSUME AlertsTypeOK, Delivered
    PROVE  told' \in [Keys -> [alarmed : BOOLEAN, at : Times]]
<1>1. monitor.now \in Times /\ told \in [Keys -> [alarmed : BOOLEAN, at : Times]]
  BY DEF AlertsTypeOK, Times
<1>2. \A key \in Keys : [told[key] EXCEPT !.alarmed = FALSE] \in [alarmed : BOOLEAN, at : Times]
  BY <1>1
<1> QED
  BY <1>1, <1>2 DEF Delivered

LEMMA AlertsInitTyped == AlertsInit => AlertsInv
<1> SUFFICES ASSUME AlertsInit PROVE AlertsInv
  OBVIOUS
<1>1. Settings # {} /\ settings \in Settings
  BY DEF AlertsInit
<1>2. AlertsTypeOK
  BY <1>1, AtRestTyped DEF AlertsInit, FleetInit, AlertsTypeOK, NothingSent, Times
<1>3. monitor.pc = "idle" /\ saved = sent /\ \A key \in Keys : ~told[key].alarmed
  BY <1>1, AtRestTyped DEF AlertsInit
<1> QED
  BY <1>2, <1>3 DEF AlertsInv, FileAgrees, BooksAgree, MailAgrees

-----------------------------------------------------------------------------
(***************************************************************************)
(* Steps that leave the books alone.                                       *)
(***************************************************************************)

LEMMA BeginCheckKeeps ==
    ASSUME AlertsInv, BeginCheck
    PROVE  AlertsInv'
<1>1. monitor' = [pc |-> "looking", now |-> clock, use |-> settings, mail |-> NoMail]
  BY DEF BeginCheck
<1>2. UNCHANGED <<clock, configured, settings, sent, saved, told, amnesia>> /\ monitor.pc = "idle"
  BY DEF BeginCheck, Look, TableStays, History
<1>3. AlertsTypeOK'
  BY <1>1, <1>2 DEF AlertsInv, AlertsTypeOK, NoMail
<1> QED
  BY <1>1, <1>2, <1>3 DEF AlertsInv, FileAgrees, BooksAgree, MailAgrees

LEMMA RequestKeeps ==
    ASSUME AlertsInv, Request
    PROVE  AlertsInv'
<1>1. UNCHANGED <<clock, configured, settings, monitor, sent, saved, told, amnesia>>
  BY DEF Request, Look, Read, alertVars
<1> QED
  BY <1>1 DEF AlertsInv, AlertsTypeOK, FileAgrees, BooksAgree, MailAgrees, Booked

LEMMA WorldKeeps ==
    ASSUME AlertsInv, World
    PROVE  AlertsInv'
<1>1. UNCHANGED <<settings, monitor, sent, saved, told, amnesia>>
  BY DEF World, alertVars
<1>2. clock' \in Nat /\ configured' \subseteq Miners
  BY DEF World, TableStep, Insert, ReplaceTable, ReplaceMiners, Passes, AlertsInv, AlertsTypeOK
<1> QED
  BY <1>1, <1>2 DEF AlertsInv, AlertsTypeOK, FileAgrees, BooksAgree, MailAgrees, Booked

LEMMA ConfigureKeeps ==
    ASSUME AlertsInv, Configure
    PROVE  AlertsInv'
<1>1. /\ UNCHANGED <<clock, configured, monitor, sent, saved, told, amnesia>>
      /\ settings' \in Settings
  BY DEF Configure, fleetVars, History, AlertsInv, AlertsTypeOK
<1> QED
  BY <1>1 DEF AlertsInv, AlertsTypeOK, FileAgrees, BooksAgree, MailAgrees, Booked

LEMMA StandstillKeeps ==
    ASSUME AlertsInv, UNCHANGED allVars
    PROVE  AlertsInv'
BY DEF AlertsInv, AlertsTypeOK, FileAgrees, BooksAgree, MailAgrees, Booked,
       allVars, alertVars, fleetVars

-----------------------------------------------------------------------------
(***************************************************************************)
(* A check.                                                                *)
(***************************************************************************)

\* What a mail would say agrees with the books it is read off.
LEMMA MailIsDue ==
    ASSUME AlertsTypeOK, NEW active, NEW now
    PROVE  \A key \in Keys :
              /\ key \in Mail(active, now).new => sent[key] = NoTime
              /\ key \in Mail(active, now).reminders => Repeat # 0 /\ now - sent[key] >= Repeat
BY DEF Mail, Due

LEMMA EvaluateKeeps ==
    ASSUME AlertsInv, Evaluate
    PROVE  AlertsInv'
<1> DEFINE active == Evaluated(cache', monitor.use, monitor.now)
           mail   == Mail(active, monitor.now)
           due    == \/ mail.new # {} \/ mail.reminders # {}
                     \/ (mail.resolved # {} /\ monitor.use.resolved)
<1>0. AlertsTypeOK
  BY DEF AlertsInv
<1>1. /\ UNCHANGED <<clock, configured, settings, told>> /\ monitor.pc = "looking"
  BY DEF Evaluate, Read, TableStays
<1>2. AtRest.pc = "idle" /\ AtRest' = AtRest
  BY <1>0, AtRestTyped DEF AlertsTypeOK, AtRest, NoMail
<1>3. CASE monitor' = AtRest /\ UNCHANGED <<sent, saved, amnesia>>
  <2>1. AlertsTypeOK'
    BY <1>0, <1>1, <1>3, AtRestTyped DEF AlertsTypeOK
  <2> QED
    BY <1>1, <1>2, <1>3, <2>1 DEF AlertsInv, FileAgrees, BooksAgree, MailAgrees
<1>4. CASE /\ ~due /\ mail.resolved # {}
           /\ monitor' = AtRest /\ sent' = Forgotten(mail.resolved) /\ SaveState(sent')
  <2>1. ~ClearsMailed
    BY <1>0, <1>4 DEF ClearsMailed, AlertsTypeOK
  <2>2. sent' \in [Keys -> Times]
    BY <1>0, <1>4 DEF AlertsTypeOK, Forgotten, Times
  <2>3. saved' \in [Keys -> Times] /\ amnesia' \in BOOLEAN /\ FileAgrees'
    BY <1>0, <1>4, <2>2 DEF AlertsTypeOK, SaveState, FileAgrees
  <2>4. AlertsTypeOK'
    BY <1>0, <1>1, <1>4, <2>2, <2>3, AtRestTyped DEF AlertsTypeOK
  <2> QED
    BY <1>2, <1>4, <2>1, <2>3, <2>4 DEF AlertsInv, BooksAgree, MailAgrees, ClearsMailed
<1>5. CASE /\ monitor' = [monitor EXCEPT !.pc = "sending", !.mail = mail]
           /\ UNCHANGED <<sent, saved, amnesia>>
  <2>1. mail \in [new : SUBSET Keys, reminders : SUBSET Keys, resolved : SUBSET Keys]
    BY <1>0, KeysOfMail
  <2> HIDE DEF mail
  <2>2. /\ monitor'.pc = "sending" /\ monitor'.now = monitor.now /\ monitor'.mail = mail
    BY <1>0, <1>5 DEF AlertsTypeOK
  <2>3. AlertsTypeOK'
    BY <1>0, <1>1, <1>5, <2>1 DEF AlertsTypeOK
  <2>4. MailAgrees'
    BY <1>0, <1>5, <2>2, MailIsDue DEF MailAgrees, mail
  <2> QED
    BY <1>1, <1>5, <2>2, <2>3, <2>4 DEF AlertsInv, FileAgrees, BooksAgree
<1> QED
  BY <1>3, <1>4, <1>5 DEF Evaluate

LEMMA MailSentKeeps ==
    ASSUME AlertsInv, MailSent
    PROVE  AlertsInv'
<1>1. /\ monitor' = [monitor EXCEPT !.pc = "booking"] /\ monitor.pc = "sending" /\ Delivered
      /\ UNCHANGED <<clock, configured, settings, sent, saved, amnesia>>
  BY DEF MailSent, TableStays, fleetVars
<1>2. AlertsTypeOK
  BY DEF AlertsInv
<1>3. monitor'.pc = "booking" /\ monitor'.now = monitor.now /\ monitor'.mail = monitor.mail
  BY <1>1, <1>2 DEF AlertsTypeOK
<1>4. monitor.now \in Nat /\ monitor.now # NoTime
  BY <1>2 DEF AlertsTypeOK, NoTime
<1>5. AlertsTypeOK'
  BY <1>1, <1>2, DeliveredTyped DEF AlertsTypeOK
<1>6. Booked' = Booked
  BY <1>1, <1>3 DEF Booked
<1>7. BooksAgree'
  <2> SUFFICES ASSUME ClearsMailed, ~amnesia, NEW key \in Keys, told'[key].alarmed
               PROVE  told'[key].at # NoTime /\ told'[key].at = Booked[key]
    BY <1>1, <1>3, <1>6 DEF BooksAgree, ClearsMailed
  <2>1. CASE key \in monitor.mail.new \cup monitor.mail.reminders
    BY <1>1, <1>4, <2>1 DEF Delivered, Booked
  <2>2. CASE key \in monitor.mail.resolved /\ key \notin monitor.mail.new \cup monitor.mail.reminders
    <3>1. told'[key] = [told[key] EXCEPT !.alarmed = FALSE]
      BY <1>1, <2>2 DEF Delivered
    <3>2. told[key] \in [alarmed : BOOLEAN, at : Times]
      BY <1>2 DEF AlertsTypeOK
    <3>3. ~told'[key].alarmed
      BY <3>1, <3>2
    <3> QED
      BY <3>3
  <2>3. CASE key \notin monitor.mail.resolved \cup monitor.mail.new \cup monitor.mail.reminders
    <3>1. told'[key] = told[key] /\ Booked[key] = sent[key]
      BY <1>1, <2>3 DEF Delivered, Booked
    <3> QED
      BY <1>1, <3>1 DEF AlertsInv, BooksAgree
  <2> QED
    BY <2>1, <2>2, <2>3
<1> QED
  BY <1>1, <1>3, <1>5, <1>7 DEF AlertsInv, FileAgrees, MailAgrees

LEMMA MailFailsKeeps ==
    ASSUME AlertsInv, MailFails
    PROVE  AlertsInv'
<1>1. /\ monitor' = AtRest /\ monitor.pc = "sending"
      /\ UNCHANGED <<clock, configured, settings, sent, saved>>
      /\ \/ UNCHANGED <<told, amnesia>>
         \/ Delivered /\ amnesia'
  BY DEF MailFails, TableStays, fleetVars
<1>2. AlertsTypeOK /\ Settings # {}
  BY DEF AlertsInv, AlertsTypeOK
<1>3. Delivered => told' \in [Keys -> [alarmed : BOOLEAN, at : Times]]
  BY <1>2, DeliveredTyped
<1>4. amnesia' \in BOOLEAN
  BY <1>2 DEF AlertsTypeOK, MailFails
<1>5. AlertsTypeOK' /\ monitor'.pc = "idle"
  BY <1>1, <1>2, <1>3, <1>4, AtRestTyped DEF AlertsTypeOK
<1> QED
  BY <1>1, <1>5 DEF AlertsInv, FileAgrees, BooksAgree, MailAgrees

LEMMA BookKeeps ==
    ASSUME AlertsInv, Book
    PROVE  AlertsInv'
<1>1. /\ monitor' = AtRest /\ monitor.pc = "booking" /\ sent' = Booked /\ SaveState(Booked)
      /\ UNCHANGED <<clock, configured, settings, told>>
  BY DEF Book, TableStays, fleetVars
<1>2. AlertsTypeOK /\ Settings # {}
  BY DEF AlertsInv, AlertsTypeOK
<1>3. /\ saved' \in [Keys -> Times] /\ amnesia' \in BOOLEAN /\ FileAgrees'
      /\ ~amnesia' => ~amnesia
  BY <1>1, <1>2, BookedTyped DEF AlertsTypeOK, SaveState, FileAgrees
<1>4. AlertsTypeOK' /\ monitor'.pc = "idle"
  BY <1>1, <1>2, <1>3, BookedTyped, AtRestTyped DEF AlertsTypeOK
<1> QED
  BY <1>1, <1>3, <1>4 DEF AlertsInv, BooksAgree, MailAgrees, ClearsMailed

LEMMA RestartKeeps ==
    ASSUME AlertsInv, Restart
    PROVE  AlertsInv'
<1>1. /\ monitor' = AtRest /\ sent' \in {saved, NothingSent}
      /\ amnesia' = (amnesia \/ monitor.pc = "booking" \/ sent' # saved)
      /\ UNCHANGED <<clock, configured, settings, told, saved>>
  BY DEF Restart, TableStays
<1>2. AlertsTypeOK /\ Settings # {}
  BY DEF AlertsInv, AlertsTypeOK
<1>3. AlertsTypeOK' /\ monitor'.pc = "idle"
  BY <1>1, <1>2, AtRestTyped DEF AlertsTypeOK, NothingSent, Times
<1>4. ~amnesia' => ~amnesia /\ monitor.pc # "booking" /\ sent' = sent
  BY <1>1 DEF AlertsInv, FileAgrees
<1> QED
  BY <1>1, <1>3, <1>4 DEF AlertsInv, FileAgrees, BooksAgree, MailAgrees

LEMMA AlertsKeeps == AlertsInv /\ [AlertsNext]_allVars => AlertsInv'
BY BeginCheckKeeps, EvaluateKeeps, MailSentKeeps, MailFailsKeeps, BookKeeps,
   RequestKeeps, RestartKeeps, ConfigureKeeps, WorldKeeps, StandstillKeeps
   DEF AlertsNext, Check

\* The books agree with what the operator was told.
THEOREM BooksAreKept == AlertsSpec => []AlertsInv
BY AlertsInitTyped, AlertsKeeps, PTL DEF AlertsSpec

-----------------------------------------------------------------------------
(***************************************************************************)
(* The theorems.                                                           *)
(***************************************************************************)

\* What the monitor looks at is mailed as over when it was evaluated and found
\* to be: not for what the supervisor's silence or maintenance hides.
LEMMA ResolvedIsOver ==
    ASSUME NEW known, NEW now, NEW key, Standing(key) = "in sight",
           key \in Mail(Evaluated(known, monitor.use, now), now).resolved
    PROVE  ~InForce(key, known)
<1> DEFINE active == Evaluated(known, monitor.use, now)
<1>1. key \notin active /\ key \notin Paused /\ Stale \notin active
  BY DEF Mail
<1> SUFFICES ASSUME InForce(key, known) PROVE FALSE
  OBVIOUS
<1>2. /\ key \in {"latched", "unsure", "down"} \X Miners /\ key[2] \in configured
      /\ key[1] \in monitor.use.watch
  BY DEF InForce, MinerKeys, Standing
<1>3. key[2] \notin inMaintenance
  BY <1>1, <1>2 DEF Paused, MinerKeys
<1>4. key \in {"latched", "unsure", "down"} \X (configured \ inMaintenance)
  BY <1>2, <1>3
<1>5. Holds(key, known, now)
  BY DEF Holds, InForce
<1> QED
  BY <1>1, <1>2, <1>4, <1>5 DEF Evaluated

\* SightIsNotCleared, for any fleet, any settings and any order of the readers of
\* its rows.  What is out of sight has no such promise.
THEOREM FalseClearsAreUnseen == AlertsSpec => []SightIsNotCleared
<1>1. AlertsInit => SightIsNotCleared
  BY DEF AlertsInit, SightIsNotCleared
<1>2. SightIsNotCleared /\ [AlertsNext]_allVars => SightIsNotCleared'
  <2> SUFFICES ASSUME SightIsNotCleared, [AlertsNext]_allVars PROVE SightIsNotCleared'
    OBVIOUS
  <2>1. CASE Evaluate
    <3> DEFINE mail == Mail(Evaluated(cache', monitor.use, monitor.now), monitor.now)
    <3>1. "in sight" \notin FalseClears(mail, cache')
      BY ResolvedIsOver DEF FalseClears
    <3>2. falseClear' = falseClear \/ falseClear' = falseClear \cup FalseClears(mail, cache')
      BY <2>1 DEF Evaluate
    <3> HIDE DEF mail
    <3> QED
      BY <3>1, <3>2 DEF SightIsNotCleared
  <2>2. CASE ~Evaluate
    BY <2>2
       DEF AlertsNext, Check, BeginCheck, MailSent, MailFails, Book, Request, Restart,
           Configure, World, History, allVars, alertVars, SightIsNotCleared
  <2> QED
    BY <2>1, <2>2
<1> QED
  BY <1>1, <1>2, PTL DEF AlertsSpec

\* AlarmsSpaced, for any number of failed mails, saves and restarts.
THEOREM AlarmsAreSpaced == AlertsSpec => AlarmsSpaced
<1> DEFINE Spaced(key) ==
             (/\ told[key].alarmed /\ told'[key].at # told[key].at
              /\ ~amnesia' /\ \A s \in Settings : s.resolved)
             => Repeat # 0 /\ told'[key].at - told[key].at >= Repeat
<1>1. ASSUME AlertsInv, MailSent, NEW key \in Keys PROVE Spaced(key)
  <2> SUFFICES ASSUME told[key].alarmed, told'[key].at # told[key].at, ~amnesia', ClearsMailed
               PROVE  Repeat # 0 /\ told'[key].at - told[key].at >= Repeat
    BY DEF ClearsMailed
  <2>1. told[key] \in [alarmed : BOOLEAN, at : Times] /\ monitor.pc = "sending" /\ ~amnesia
    BY <1>1 DEF AlertsInv, AlertsTypeOK, MailSent
  <2>2. sent[key] = told[key].at /\ sent[key] # NoTime
    BY <1>1, <2>1 DEF AlertsInv, BooksAgree
  <2>3. key \in monitor.mail.new \cup monitor.mail.reminders /\ told'[key].at = monitor.now
    BY <1>1, <2>1 DEF MailSent, Delivered
  <2> QED
    BY <1>1, <2>1, <2>2, <2>3 DEF AlertsInv, MailAgrees
<1>2. ASSUME AlertsInv, AlertsNext, ~MailSent, NEW key \in Keys PROVE Spaced(key)
  <2>1. UNCHANGED told \/ amnesia'
    BY <1>2
       DEF AlertsNext, Check, BeginCheck, Evaluate, MailFails, Book, Request, Restart,
           Configure, World, History, alertVars
  <2> QED
    BY <2>1
<1>3. AlertsInv /\ [AlertsNext]_allVars => [\A key \in Keys : Spaced(key)]_allVars
  BY <1>1, <1>2
<1> QED
  BY <1>3, BooksAreKept, PTL DEF AlertsSpec, AlarmsSpaced

-----------------------------------------------------------------------------
(***************************************************************************)
(* The copy of the table: what one row does to it, what a scan of one row  *)
(* more shows, and so what the rows of a refresh or of a load do.          *)
(***************************************************************************)

RowsType == [ts : Nat, miner : Miners, action : RowActions]
Entries  == [ts : Int, miner : Miners, action : RowActions \cup {"no row"}]
Known    == [poll : [Miners -> Entries], latest : [Miners -> Entries],
             decision : [Miners -> Entries], power : [Miners -> {"asleep", "unsure", "awake"}],
             latch : [{"watchdog", "sleep"} -> [Miners -> Int]]]

LEMMA Families ==
    /\ DOMAIN Powers = {"sleep", "sleep_failed", "wake", "awake"}
    /\ \A a \in DOMAIN Powers : Powers[a] \in {"asleep", "unsure", "awake"} /\ a \notin PollActions
    /\ DOMAIN Latches = {"watchdog", "sleep"}
    /\ \A kind \in DOMAIN Latches : /\ Latches[kind].set # Latches[kind].cleared
                                    /\ Latches[kind].set \notin PollActions
                                    /\ Latches[kind].cleared \notin PollActions
BY DEF Powers, Latches, PollActions

LEMMA RowIsEntry ==
    ASSUME NEW row \in RowsType
    PROVE  /\ row \in Entries /\ row.miner \in Miners /\ row.ts \in Nat /\ row.ts \in Int
           /\ row.action \in RowActions
<1>1. row.miner \in Miners /\ row.ts \in Nat /\ row.action \in RowActions
  BY DEF RowsType
<1>2. row.ts \in Int
  BY <1>1
<1>3. row = [ts |-> row.ts, miner |-> row.miner, action |-> row.action]
  BY DEF RowsType
<1>4. \A t \in Int, m \in Miners, a \in RowActions \cup {"no row"} :
         [ts |-> t, miner |-> m, action |-> a] \in Entries
  BY DEF Entries
<1>5. [ts |-> row.ts, miner |-> row.miner, action |-> row.action] \in Entries
  BY <1>1, <1>2, <1>4
<1>6. row \in Entries
  BY <1>3, <1>5, Zenon
<1> QED
  BY <1>1, <1>2, <1>6

LEMMA NothingIsKnown == NothingKnown \in Known
<1>1. \A m \in Miners : NoRow(m) \in Entries
  BY DEF NoRow, Row, NoTime, Entries
<1> QED
  BY <1>1, Families DEF NothingKnown, Known, NoTime

\* What _apply does, family by family.
LEMMA ApplyIs ==
    ASSUME NEW known \in Known, NEW row \in RowsType
    PROVE  /\ Apply(known, row) \in Known
           /\ \A m \in Miners :
                /\ Apply(known, row).poll[m]
                     = IF m = row.miner /\ row.action \in PollActions
                       THEN Newer(row, known.poll[m]) ELSE known.poll[m]
                /\ Apply(known, row).decision[m]
                     = IF m = row.miner /\ row.action \notin PollActions
                       THEN row ELSE known.decision[m]
                /\ Apply(known, row).power[m]
                     = IF m = row.miner /\ row.action \in DOMAIN Powers
                       THEN Powers[row.action] ELSE known.power[m]
                /\ \A kind \in DOMAIN Latches :
                     Apply(known, row).latch[kind][m]
                       = IF m = row.miner /\ row.action \notin PollActions
                         THEN LatchedSince(row, kind, known.latch[kind][m])
                         ELSE known.latch[kind][m]
<1> DEFINE new == Apply(known, row)
           k == [known EXCEPT !.latest[row.miner] = Newer(row, @)]
<1>1. row \in Entries /\ row.miner \in Miners /\ row.ts \in Int
  BY RowIsEntry
<1>2. \A e \in Entries : Newer(row, e) \in Entries
  BY <1>1 DEF Newer
<1>3. k \in Known
  BY <1>1, <1>2 DEF Known
<1>4. k.poll = known.poll /\ k.decision = known.decision /\ k.power = known.power /\ k.latch = known.latch
  BY DEF Known
<1>5. \A kind \in DOMAIN Latches, since \in Int : LatchedSince(row, kind, since) \in Int
  BY <1>1 DEF LatchedSince, NoTime
<1>6. CASE row.action \in PollActions
  <2>1. new = [k EXCEPT !.poll[row.miner] = Newer(row, @)]
    BY <1>6 DEF Apply
  <2> HIDE DEF new, k
  <2>2. new \in Known
    BY <1>1, <1>2, <1>3, <2>1 DEF Known
  <2>3. /\ new.poll = [known.poll EXCEPT ![row.miner] = Newer(row, @)]
        /\ new.decision = known.decision /\ new.power = known.power /\ new.latch = known.latch
    BY <1>3, <1>4, <2>1 DEF Known
  <2>4. known.poll \in [Miners -> Entries]
    BY DEF Known
  <2>5. \A m \in Miners : new.poll[m] = IF m = row.miner THEN Newer(row, known.poll[m]) ELSE known.poll[m]
    BY <1>1, <2>3, <2>4
  <2> QED
    BY <1>6, <2>2, <2>3, <2>5, Families DEF new
<1>7. CASE row.action \notin PollActions
  <2> DEFINE power == IF row.action \in DOMAIN Powers THEN Powers[row.action] ELSE known.power[row.miner]
             latch == [kind \in DOMAIN Latches |->
                        [known.latch[kind] EXCEPT
                           ![row.miner] = LatchedSince(row, kind, known.latch[kind][row.miner])]]
  <2>1. new = [k EXCEPT !.decision[row.miner] = row, !.power[row.miner] = power, !.latch = latch]
    BY <1>4, <1>7 DEF Apply
  <2>2. power \in {"asleep", "unsure", "awake"}
    BY <1>1, Families DEF Known
  <2>3. latch \in [{"watchdog", "sleep"} -> [Miners -> Int]]
    BY <1>1, <1>5, Families DEF Known
  <2>4. \A kind \in DOMAIN Latches, m \in Miners :
           latch[kind][m] = IF m = row.miner THEN LatchedSince(row, kind, known.latch[kind][m])
                            ELSE known.latch[kind][m]
    BY <1>1, Families DEF Known
  <2> HIDE DEF new, k, power, latch
  <2>5. new \in Known
    BY <1>1, <1>3, <2>1, <2>2, <2>3 DEF Known
  <2>6. /\ new.poll = known.poll /\ new.decision = [known.decision EXCEPT ![row.miner] = row]
        /\ new.power = [known.power EXCEPT ![row.miner] = power] /\ new.latch = latch
    BY <1>3, <1>4, <2>1 DEF Known
  <2>7. known.decision \in [Miners -> Entries] /\ known.power \in [Miners -> {"asleep", "unsure", "awake"}]
    BY DEF Known
  <2>8. \A m \in Miners :
           /\ new.decision[m] = IF m = row.miner THEN row ELSE known.decision[m]
           /\ new.power[m] = IF m = row.miner THEN power ELSE known.power[m]
    BY <1>1, <2>6, <2>7
  <2>9. \A m \in Miners :
           new.power[m] = IF m = row.miner /\ row.action \in DOMAIN Powers
                          THEN Powers[row.action] ELSE known.power[m]
    BY <2>8 DEF power
  <2> QED
    BY <1>7, <2>4, <2>5, <2>6, <2>8, <2>9 DEF new
<1> QED
  BY <1>6, <1>7

LEMMA TableRows ==
    ASSUME rows \in Seq(RowsType)
    PROVE  /\ Len(rows) \in Nat /\ DOMAIN rows = 1..Len(rows)
           /\ \A i \in 1..Len(rows) : /\ rows[i] \in RowsType /\ rows[i].ts \in Nat
                                      /\ rows[i].miner \in Miners /\ rows[i].action \in RowActions
<1>1. /\ Len(rows) \in Nat /\ DOMAIN rows = 1..Len(rows)
  BY LenProperties
<1>2. \A i \in 1..Len(rows) : rows[i] \in RowsType
  BY ElementOfSeq
<1>3. \A row \in RowsType : row.ts \in Nat /\ row.miner \in Miners /\ row.action \in RowActions
  BY DEF RowsType
<1> QED
  BY <1>1, <1>2, <1>3

IsNewest(i, ids) ==
    /\ i \in ids
    /\ \A j \in ids : rows[j].ts < rows[i].ts \/ (rows[j].ts = rows[i].ts /\ j <= i)

LEMMA NewestExists ==
    ASSUME rows \in Seq(RowsType), NEW n \in 0..Len(rows), NEW ids \in SUBSET (1..n), ids # {}
    PROVE  \E i \in ids : IsNewest(i, ids)
<1> DEFINE T == {k \in Nat : k <= Len(rows) =>
                     \A some \in SUBSET (1..k) : some # {} => \E i \in some : IsNewest(i, some)}
<1>0. /\ Len(rows) \in Nat /\ \A i \in 1..Len(rows) : rows[i].ts \in Nat
  BY TableRows
<1>1. 0 \in T
  <2>1. \A some \in SUBSET (1..0) : some = {}
    OBVIOUS
  <2> QED
    BY <2>1
<1>2. ASSUME NEW k \in Nat, k \in T PROVE k + 1 \in T
  <2> SUFFICES ASSUME k + 1 <= Len(rows), NEW some \in SUBSET (1..(k + 1)), some # {}
               PROVE  \E i \in some : IsNewest(i, some)
    OBVIOUS
  <2>0. \A s \in SUBSET (1..k) : s # {} => \E i \in s : IsNewest(i, s)
    BY <1>0, <1>2
  <2> DEFINE rest == some \ {k + 1}
  <2>1. rest \in SUBSET (1..k)
    OBVIOUS
  <2>2. CASE k + 1 \notin some
    <3>1. some \in SUBSET (1..k)
      BY <2>2
    <3> QED
      BY <2>0, <3>1
  <2>3. CASE rest = {}
    <3>0. \A i \in some : i = k + 1
      BY <2>3
    <3>1. k + 1 \in some
      BY <3>0
    <3>2. k + 1 \in 1..Len(rows)
      BY <1>0
    <3>3. rows[k + 1].ts \in Nat /\ k + 1 <= k + 1
      BY <1>0, <3>2
    <3> QED
      BY <3>0, <3>1, <3>3 DEF IsNewest
  <2>4. CASE k + 1 \in some /\ rest # {}
    <3>1. PICK i \in rest : IsNewest(i, rest)
      BY <2>0, <2>1, <2>4
    <3>2. /\ i \in 1..k /\ rows[i].ts \in Nat /\ rows[k + 1].ts \in Nat
          /\ \A j \in rest : j \in 1..k /\ rows[j].ts \in Nat
      BY <1>0, <2>1
    <3>3. CASE rows[i].ts <= rows[k + 1].ts
      <4>1. \A j \in some : rows[j].ts < rows[k + 1].ts \/ (rows[j].ts = rows[k + 1].ts /\ j <= k + 1)
        BY <3>1, <3>2, <3>3 DEF IsNewest
      <4> QED
        BY <2>4, <4>1 DEF IsNewest
    <3>4. CASE rows[k + 1].ts < rows[i].ts
      <4>1. \A j \in some : rows[j].ts < rows[i].ts \/ (rows[j].ts = rows[i].ts /\ j <= i)
        BY <3>1, <3>4 DEF IsNewest
      <4> QED
        BY <3>1, <4>1 DEF IsNewest
    <3> QED
      BY <3>2, <3>3, <3>4
  <2> QED
    BY <2>2, <2>3, <2>4
<1>3. Nat \subseteq T
  <2> HIDE DEF T
  <2> QED
    BY <1>1, <1>2, E!SetInduction
<1> QED
  BY <1>0, <1>3

LEMMA NewestOfIs ==
    ASSUME rows \in Seq(RowsType), NEW n \in 0..Len(rows), NEW ids \in SUBSET (1..n),
           NEW i \in ids, IsNewest(i, ids)
    PROVE  NewestOf(ids) = rows[i]
<1>1. \A j \in ids : j \in Nat /\ rows[j].ts \in Nat
  BY TableRows
<1>2. \A j \in ids : IsNewest(j, ids) => j = i
  BY <1>1 DEF IsNewest
<1>3. (CHOOSE j \in ids : IsNewest(j, ids)) = i
  BY <1>2
<1> QED
  BY <1>3 DEF NewestOf, IsNewest

LEMMA NewestPollIs ==
    ASSUME rows \in Seq(RowsType), NEW n \in 0..Len(rows), NEW m, PollsOf(m, n) # {}
    PROVE  /\ NewestOf(PollsOf(m, n)) \in RowsType
           /\ \E i \in PollsOf(m, n) : IsNewest(i, PollsOf(m, n)) /\ NewestOf(PollsOf(m, n)) = rows[i]
<1>1. PollsOf(m, n) \in SUBSET (1..n)
  BY DEF PollsOf
<1>2. PICK i \in PollsOf(m, n) : IsNewest(i, PollsOf(m, n))
  BY <1>1, NewestExists
<1>3. NewestOf(PollsOf(m, n)) = rows[i]
  BY <1>1, <1>2, NewestOfIs
<1>4. i \in 1..Len(rows)
  BY <1>1, TableRows
<1> QED
  BY <1>2, <1>3, <1>4, TableRows

\* One more row: the newest poll.
LEMMA PollNext ==
    ASSUME rows \in Seq(RowsType), NEW n \in Nat, n + 1 \in 1..Len(rows),
           NEW known \in Known, NEW m \in Miners, ShowsPoll(known, m, n)
    PROVE  ShowsPoll(Apply(known, rows[n + 1]), m, n + 1)
<1> DEFINE row == rows[n + 1]
           isPoll == row.miner = m /\ row.action \in PollActions
<1>1. /\ Len(rows) \in Nat /\ row \in RowsType /\ row.ts \in Nat
      /\ \A i \in 1..n : rows[i].ts \in Nat
      /\ n \in 0..Len(rows) /\ n + 1 \in 0..Len(rows)
  BY TableRows
<1>2. PollsOf(m, n + 1) = IF isPoll THEN PollsOf(m, n) \cup {n + 1} ELSE PollsOf(m, n)
  BY DEF PollsOf
<1>3. Apply(known, row).poll[m] = IF isPoll THEN Newer(row, known.poll[m]) ELSE known.poll[m]
  <2> HIDE DEF row
  <2>1. \A x \in Miners : Apply(known, row).poll[x] = IF x = row.miner /\ row.action \in PollActions
                                                     THEN Newer(row, known.poll[x]) ELSE known.poll[x]
    BY <1>1, ApplyIs
  <2> QED
    BY <2>1
<1>4. PollsOf(m, n) \in SUBSET (1..n) /\ PollsOf(m, n + 1) \in SUBSET (1..(n + 1))
  BY DEF PollsOf
<1> HIDE DEF row
<1>5. CASE ~isPoll
  BY <1>2, <1>3, <1>5 DEF ShowsPoll, row
<1>6. CASE isPoll /\ PollsOf(m, n) = {}
  <2>1. known.poll[m] = NoRow(m)
    BY <1>6 DEF ShowsPoll
  <2>2. Newer(row, known.poll[m]) = row
    <3>1. NoRow(m).ts = -1
      BY DEF NoRow, Row, NoTime
    <3> QED
      BY <1>1, <2>1, <3>1 DEF Newer
  <2>3. PollsOf(m, n + 1) = {n + 1}
    BY <1>2, <1>6
  <2>4. IsNewest(n + 1, PollsOf(m, n + 1))
    BY <1>1, <2>3 DEF IsNewest, row
  <2>5. NewestOf(PollsOf(m, n + 1)) = row
    BY <1>1, <1>4, <2>3, <2>4, NewestOfIs DEF row
  <2> QED
    BY <1>3, <1>6, <2>2, <2>3, <2>5 DEF ShowsPoll, row
<1>7. CASE isPoll /\ PollsOf(m, n) # {}
  <2>1. PICK i \in PollsOf(m, n) : /\ IsNewest(i, PollsOf(m, n))
                                   /\ known.poll[m] = rows[i]
    BY <1>1, <1>7, NewestPollIs DEF ShowsPoll
  <2>2. i \in 1..n /\ rows[i].ts \in Nat /\ \A j \in PollsOf(m, n) : j \in 1..n /\ rows[j].ts \in Nat
    BY <1>1, <1>4
  <2>3. PollsOf(m, n + 1) = PollsOf(m, n) \cup {n + 1}
    BY <1>2, <1>7
  <2>4. CASE row.ts >= rows[i].ts
    <3>1. IsNewest(n + 1, PollsOf(m, n + 1))
      BY <1>1, <2>1, <2>2, <2>3, <2>4 DEF IsNewest, row
    <3>2. NewestOf(PollsOf(m, n + 1)) = row
      BY <1>1, <1>4, <2>3, <3>1, NewestOfIs DEF row
    <3>3. Newer(row, known.poll[m]) = row
      BY <2>1, <2>4 DEF Newer
    <3> QED
      BY <1>3, <1>7, <2>3, <3>2, <3>3 DEF ShowsPoll, row
  <2>5. CASE ~(row.ts >= rows[i].ts)
    <3>1. IsNewest(i, PollsOf(m, n + 1))
      BY <1>1, <2>1, <2>2, <2>3, <2>5 DEF IsNewest, row
    <3>2. NewestOf(PollsOf(m, n + 1)) = rows[i]
      BY <1>1, <1>4, <2>3, <3>1, NewestOfIs
    <3>3. Newer(row, known.poll[m]) = rows[i]
      BY <2>1, <2>5 DEF Newer
    <3> QED
      BY <1>3, <1>7, <2>3, <3>2, <3>3 DEF ShowsPoll, row
  <2> QED
    BY <2>4, <2>5
<1> QED
  BY <1>5, <1>6, <1>7

LEMMA LastIdIn ==
    ASSUME rows \in Seq(RowsType), NEW n \in 0..Len(rows), NEW m, NEW actions
    PROVE  LastIdOf(m, actions, n) \in 0..n
<1> DEFINE some == {i \in 1..n : rows[i].miner = m /\ rows[i].action \in actions}
           last == CHOOSE i \in some : \A j \in some : j <= i
<1>1. LastIdOf(m, actions, n) = IF some = {} THEN 0 ELSE last
  BY DEF LastIdOf
<1>2. some # {} => last \in some
  <2>1. n \in Nat /\ some \in SUBSET (0..n)
    BY TableRows
  <2> HIDE DEF some
  <2> QED
    BY <2>1, E!LastEntry
<1> QED
  BY <1>1, <1>2, TableRows

\* One more row: the last id of a family.
LEMMA LastIdNext ==
    ASSUME rows \in Seq(RowsType), NEW n \in Nat, n + 1 \in 1..Len(rows), NEW m, NEW actions
    PROVE  LastIdOf(m, actions, n + 1)
             = IF rows[n + 1].miner = m /\ rows[n + 1].action \in actions THEN n + 1
               ELSE LastIdOf(m, actions, n)
<1> DEFINE Ids(k) == {i \in 1..k : rows[i].miner = m /\ rows[i].action \in actions}
<1>1. CASE rows[n + 1].miner = m /\ rows[n + 1].action \in actions
  <2>1. n + 1 \in Ids(n + 1) /\ \A j \in Ids(n + 1) : j \in Nat /\ j <= n + 1
    BY <1>1
  <2>2. Ids(n + 1) # {}
    BY <2>1
  <2> HIDE DEF Ids
  <2>3. \A i \in Ids(n + 1) : (\A j \in Ids(n + 1) : j <= i) => i = n + 1
    BY <2>1
  <2>4. (CHOOSE i \in Ids(n + 1) : \A j \in Ids(n + 1) : j <= i) = n + 1
    BY <2>1, <2>3
  <2> QED
    BY <1>1, <2>2, <2>4 DEF LastIdOf, Ids
<1>2. CASE ~(rows[n + 1].miner = m /\ rows[n + 1].action \in actions)
  <2>1. \A i \in 1..(n + 1) : i \in 1..n \/ i = n + 1
    OBVIOUS
  <2>2. Ids(n + 1) = Ids(n)
    BY <1>2, <2>1
  <2>3. \A k : LastIdOf(m, actions, k)
                = IF Ids(k) = {} THEN 0 ELSE CHOOSE i \in Ids(k) : \A j \in Ids(k) : j <= i
    BY DEF LastIdOf
  <2> HIDE DEF Ids
  <2> QED
    BY <1>2, <2>2, <2>3
<1> QED
  BY <1>1, <1>2

\* A row that is not of a family leaves its last id where it was.
LEMMA DecisionsSkip ==
    ASSUME rows \in Seq(RowsType), NEW n \in Nat, n + 1 \in 1..Len(rows),
           NEW known, NEW m, ShowsDecisions(known, m, n),
           rows[n + 1].miner # m \/ rows[n + 1].action \in PollActions
    PROVE  ShowsDecisions(known, m, n + 1)
<1>1. ASSUME NEW actions, \A a \in actions : a \notin PollActions
      PROVE  LastIdOf(m, actions, n + 1) = LastIdOf(m, actions, n)
  BY <1>1, LastIdNext
<1>2. /\ LastIdOf(m, RowActions \ PollActions, n + 1) = LastIdOf(m, RowActions \ PollActions, n)
      /\ LastIdOf(m, DOMAIN Powers, n + 1) = LastIdOf(m, DOMAIN Powers, n)
      /\ \A kind \in DOMAIN Latches :
            LastIdOf(m, {Latches[kind].set, Latches[kind].cleared}, n + 1)
              = LastIdOf(m, {Latches[kind].set, Latches[kind].cleared}, n)
  BY <1>1, Families
<1> QED
  BY <1>2 DEF ShowsDecisions

LEMMA DecisionsNext ==
    ASSUME rows \in Seq(RowsType), NEW n \in Nat, n + 1 \in 1..Len(rows),
           NEW known \in Known, NEW m \in Miners, ShowsDecisions(known, m, n)
    PROVE  ShowsDecisions(Apply(known, rows[n + 1]), m, n + 1)
<1> DEFINE row == rows[n + 1]
           new == Apply(known, row)
<1>0. row \in RowsType /\ row.miner \in Miners /\ row.action \in RowActions
  BY TableRows
<1>1. /\ new.decision[m] = IF m = row.miner /\ row.action \notin PollActions
                           THEN row ELSE known.decision[m]
      /\ new.power[m] = IF m = row.miner /\ row.action \in DOMAIN Powers
                        THEN Powers[row.action] ELSE known.power[m]
      /\ \A kind \in DOMAIN Latches :
            new.latch[kind][m] = IF m = row.miner /\ row.action \notin PollActions
                                 THEN LatchedSince(row, kind, known.latch[kind][m])
                                 ELSE known.latch[kind][m]
  <2> HIDE DEF row
  <2> QED
    BY <1>0, ApplyIs
<1> HIDE DEF new
<1>2. CASE row.miner # m \/ row.action \in PollActions
  <2>1. /\ new.decision[m] = known.decision[m] /\ new.power[m] = known.power[m]
        /\ \A kind \in DOMAIN Latches : new.latch[kind][m] = known.latch[kind][m]
    BY <1>1, <1>2, Families
  <2>2. ShowsDecisions(known, m, n + 1)
    BY <1>2, DecisionsSkip
  <2> QED
    BY <2>1, <2>2 DEF ShowsDecisions, new
<1>3. CASE row.miner = m /\ row.action \notin PollActions
  <2> DEFINE D == RowActions \ PollActions
  <2>0. rows[n + 1].miner = m /\ rows[n + 1].action \in D /\ n + 1 # 0
    BY <1>0, <1>3
  <2>1. n + 1 # 0 /\ LastIdOf(m, D, n + 1) = n + 1
    <3> HIDE DEF D
    <3> QED
      BY <2>0, LastIdNext
  <2>2. LET i == LastIdOf(m, D, n + 1) IN new.decision[m] = IF i = 0 THEN NoRow(m) ELSE rows[i]
    BY <1>1, <1>3, <2>1
  <2>3. LET i == LastIdOf(m, DOMAIN Powers, n + 1)
        IN  new.power[m] = IF i = 0 THEN "awake" ELSE Powers[rows[i].action]
    <3>1. LastIdOf(m, DOMAIN Powers, n + 1)
            = IF row.action \in DOMAIN Powers THEN n + 1 ELSE LastIdOf(m, DOMAIN Powers, n)
      BY <1>3, LastIdNext
    <3>2. LET i == LastIdOf(m, DOMAIN Powers, n)
          IN  known.power[m] = IF i = 0 THEN "awake" ELSE Powers[rows[i].action]
      BY DEF ShowsDecisions
    <3> QED
      BY <1>1, <1>3, <2>1, <3>1, <3>2
  <2>4. ASSUME NEW kind \in DOMAIN Latches
        PROVE  LET i == LastIdOf(m, {Latches[kind].set, Latches[kind].cleared}, n + 1)
               IN  new.latch[kind][m] = IF i # 0 /\ rows[i].action = Latches[kind].set
                                        THEN rows[i].ts ELSE NoTime
    <3> DEFINE F == {Latches[kind].set, Latches[kind].cleared}
    <3>1. LastIdOf(m, F, n + 1) = IF row.action \in F THEN n + 1 ELSE LastIdOf(m, F, n)
      BY <1>3, LastIdNext
    <3>2. LET i == LastIdOf(m, F, n)
          IN  known.latch[kind][m] = IF i # 0 /\ rows[i].action = Latches[kind].set
                                     THEN rows[i].ts ELSE NoTime
      BY DEF ShowsDecisions
    <3>3. new.latch[kind][m] = LatchedSince(row, kind, known.latch[kind][m])
      BY <1>1, <1>3
    <3>4. CASE row.action \in F
      BY <2>1, <3>1, <3>3, <3>4, Families DEF LatchedSince
    <3>5. CASE row.action \notin F
      BY <3>1, <3>2, <3>3, <3>5 DEF LatchedSince
    <3> QED
      BY <3>4, <3>5
  <2> QED
    BY <2>2, <2>3, <2>4 DEF ShowsDecisions, new
<1> QED
  BY <1>2, <1>3

\* The copy after each of the rows that are applied.
IsAfter(f, known, from, to, actions) ==
    /\ f \in [0..(to - from) -> Known] /\ f[0] = known
    /\ \A n \in 1..(to - from) :
          f[n] = IF rows[from + n].action \in actions
                 THEN Apply(f[n - 1], rows[from + n]) ELSE f[n - 1]

LEMMA AppliedIs ==
    ASSUME rows \in Seq(RowsType), NEW from \in Nat, NEW to \in from..Len(rows),
           NEW known \in Known, NEW actions
    PROVE  \E f : /\ IsAfter(f, known, from, to, actions)
                 /\ Applied(known, from, to, actions) = f[to - from]
<1> DEFINE N == to - from
           next(k, n) == IF rows[from + n].action \in actions THEN Apply(k, rows[from + n]) ELSE k
           after[n \in 0..N] == IF n = 0 THEN known
                                ELSE IF rows[from + n].action \in actions
                                     THEN Apply(after[n - 1], rows[from + n]) ELSE after[n - 1]
           Pass(f) == [n \in 0..N |-> IF n = 0 THEN known
                                     ELSE IF rows[from + n].action \in actions
                                          THEN Apply(f[n - 1], rows[from + n]) ELSE f[n - 1]]
           step == [n \in 1..N |-> [k \in Known |-> next(k, n)]]
<1> HIDE DEF after, Pass
<1>1. /\ N \in Nat /\ to \in Nat
      /\ \A n \in 1..N : rows[from + n] \in RowsType
  <2>1. Len(rows) \in Nat
    BY TableRows
  <2>2. \A n \in 1..N : from + n \in 1..Len(rows)
    BY <2>1
  <2> QED
    BY <2>1, <2>2, TableRows
<1>2. \A k \in Known, n \in 1..N : next(k, n) \in Known
  BY <1>1, ApplyIs
<1> HIDE DEF next
<1>3. step \in [1..N -> [Known -> Known]]
  BY <1>2
<1>4. PICK f : E!Steps(f, N, Known, known, step)
  <2> HIDE DEF step, N
  <2> QED
    BY <1>1, <1>3, E!Recursion
<1>5. f \in [0..N -> Known] /\ f[0] = known /\ \A n \in 1..N : f[n] = step[n][f[n - 1]]
  BY <1>4 DEF E!Steps
<1>6. \A n \in 1..N : f[n] = next(f[n - 1], n)
  <2> TAKE n \in 1..N
  <2>1. n - 1 \in 0..N /\ f[n - 1] \in Known
    BY <1>1, <1>5
  <2> QED
    BY <1>5, <2>1
<1> HIDE DEF step
<1>7. f = Pass(f)
  <2>1. \A n \in 0..N : n = 0 \/ n \in 1..N
    BY <1>1
  <2>2. f = [n \in 0..N |-> f[n]]
    BY <1>5
  <2>3. \A n \in 0..N : f[n] = Pass(f)[n]
    BY <1>5, <1>6, <2>1 DEF Pass, next
  <2>4. Pass(f) = [n \in 0..N |-> Pass(f)[n]]
    BY DEF Pass
  <2> HIDE DEF N
  <2> QED
    BY <2>2, <2>3, <2>4
<1>8. after = Pass(after)
  BY <1>7 DEF after, Pass
<1>9. \A n \in 0..N : after[n] = IF n = 0 THEN known
                                ELSE IF rows[from + n].action \in actions
                                     THEN Apply(after[n - 1], rows[from + n]) ELSE after[n - 1]
  BY <1>8 DEF Pass
<1>10. after[0] = known /\ \A n \in 1..N : after[n] = next(after[n - 1], n)
  <2>1. 0 \in 0..N /\ \A n \in 1..N : n \in 0..N /\ n # 0
    BY <1>1
  <2> HIDE DEF N
  <2> QED
    BY <1>9, <2>1 DEF next
<1> DEFINE T == {n \in Nat : n <= N => after[n] \in Known}
<1>11. 0 \in T
  BY <1>10
<1>12. ASSUME NEW n \in Nat, n \in T PROVE n + 1 \in T
  <2> SUFFICES ASSUME n + 1 <= N PROVE after[n + 1] \in Known
    OBVIOUS
  <2>1. after[n] \in Known /\ n + 1 \in 1..N /\ (n + 1) - 1 = n
    BY <1>1, <1>12
  <2>2. after[n + 1] = next(after[n], n + 1)
    BY <1>10, <2>1
  <2> QED
    BY <1>2, <2>1, <2>2
<1>13. Nat \subseteq T
  <2> HIDE DEF T
  <2> QED
    BY <1>11, <1>12, E!SetInduction
<1>14. after \in [0..N -> Known]
  <2>1. \A n \in 0..N : after[n] \in Known
    BY <1>1, <1>13
  <2>2. after = [n \in 0..N |-> after[n]]
    BY <1>8 DEF Pass
  <2> QED
    BY <2>1, <2>2
<1>15. IsAfter(after, known, from, to, actions)
  BY <1>10, <1>14 DEF IsAfter, next
<1>16. Applied(known, from, to, actions) = after[N]
  BY DEF Applied, after
<1> QED
  BY <1>15, <1>16

\* All rows applied to a copy that shows the rows before them.
LEMMA AppliedShows ==
    ASSUME rows \in Seq(RowsType), NEW from \in Nat, NEW to \in from..Len(rows),
           NEW known \in Known
    PROVE  LET new == Applied(known, from, to, RowActions)
           IN  /\ new \in Known
               /\ \A m \in Miners :
                     /\ ShowsPoll(known, m, from) => ShowsPoll(new, m, to)
                     /\ ShowsDecisions(known, m, from) => ShowsDecisions(new, m, to)
<1>1. PICK f : /\ IsAfter(f, known, from, to, RowActions)
               /\ Applied(known, from, to, RowActions) = f[to - from]
  BY AppliedIs
<1>2. /\ to - from \in Nat /\ from + (to - from) = to
      /\ \A n \in 1..(to - from) : from + n \in 1..Len(rows) /\ rows[from + n].action \in RowActions
  BY TableRows
<1>3. f[to - from] \in Known /\ f[0] = known
  BY <1>1, <1>2 DEF IsAfter
<1>4. ASSUME NEW m \in Miners
      PROVE  /\ ShowsPoll(known, m, from) => ShowsPoll(f[to - from], m, to)
             /\ ShowsDecisions(known, m, from) => ShowsDecisions(f[to - from], m, to)
  <2> DEFINE Kept(n) == /\ ShowsPoll(known, m, from) => ShowsPoll(f[n], m, from + n)
                        /\ ShowsDecisions(known, m, from) => ShowsDecisions(f[n], m, from + n)
             T == {n \in Nat : n <= to - from => Kept(n)}
  <2>1. 0 \in T
    BY <1>3
  <2>2. ASSUME NEW n \in Nat, n \in T PROVE n + 1 \in T
    <3> SUFFICES ASSUME n + 1 <= to - from PROVE Kept(n + 1)
      OBVIOUS
    <3>1. /\ Kept(n) /\ n \in 0..(to - from) /\ n + 1 \in 1..(to - from)
          /\ (n + 1) - 1 = n /\ from + n \in Nat /\ from + (n + 1) = (from + n) + 1
      BY <1>2, <2>2
    <3>2. f[n] \in Known /\ f[n + 1] = Apply(f[n], rows[(from + n) + 1])
      BY <1>1, <1>2, <3>1 DEF IsAfter
    <3>3. (from + n) + 1 \in 1..Len(rows)
      BY <1>2, <3>1
    <3> QED
      BY <3>1, <3>2, <3>3, PollNext, DecisionsNext
  <2>3. Nat \subseteq T
    <3> HIDE DEF T
    <3> QED
      BY <2>1, <2>2, E!SetInduction
  <2>4. Kept(to - from)
    <3> HIDE DEF Kept
    <3> QED
      BY <1>2, <2>3
  <2> QED
    BY <1>2, <2>4
<1> QED
  BY <1>1, <1>3, <1>4

LEMMA DecisionsKeepPolls ==
    ASSUME NEW known \in Known, NEW row \in RowsType, row.action \notin PollActions,
           NEW m \in Miners
    PROVE  Apply(known, row).poll[m] = known.poll[m]
<1>1. Apply(known, row).poll[m] = IF m = row.miner /\ row.action \in PollActions
                                  THEN Newer(row, known.poll[m]) ELSE known.poll[m]
  BY ApplyIs
<1> QED
  BY <1>1

\* The decisions alone.
LEMMA DecisionsShow ==
    ASSUME rows \in Seq(RowsType), NEW to \in 0..Len(rows)
    PROVE  LET new == Applied(NothingKnown, 0, to, RowActions \ PollActions)
           IN  /\ new \in Known
               /\ \A m \in Miners : new.poll[m] = NoRow(m) /\ ShowsDecisions(new, m, to)
<1>1. NothingKnown \in Known
  BY NothingIsKnown
<1>2. PICK f : /\ IsAfter(f, NothingKnown, 0, to, RowActions \ PollActions)
               /\ Applied(NothingKnown, 0, to, RowActions \ PollActions) = f[to - 0]
  BY <1>1, AppliedIs
<1>3. /\ to \in Nat /\ to - 0 = to
      /\ \A n \in 1..to : 0 + n = n /\ n \in 1..Len(rows) /\ rows[n] \in RowsType
                         /\ rows[n].action \in RowActions
  BY TableRows
<1>4. /\ f \in [0..to -> Known] /\ f[0] = NothingKnown
      /\ \A n \in 1..to : f[n] = IF rows[n].action \in PollActions THEN f[n - 1]
                                 ELSE Apply(f[n - 1], rows[n])
  BY <1>2, <1>3 DEF IsAfter
<1>5. ASSUME NEW m \in Miners
      PROVE  f[to].poll[m] = NoRow(m) /\ ShowsDecisions(f[to], m, to)
  <2> DEFINE Kept(n) == f[n].poll[m] = NoRow(m) /\ ShowsDecisions(f[n], m, n)
             T == {n \in Nat : n <= to => Kept(n)}
  <2>1. 0 \in T
    <3>1. \A actions : LastIdOf(m, actions, 0) = 0
      BY DEF LastIdOf
    <3>2. /\ NothingKnown.poll[m] = NoRow(m) /\ NothingKnown.decision[m] = NoRow(m)
          /\ NothingKnown.power[m] = "awake"
          /\ \A kind \in DOMAIN Latches : NothingKnown.latch[kind][m] = NoTime
      BY DEF NothingKnown
    <3>3. Kept(0)
      BY <1>4, <3>1, <3>2 DEF ShowsDecisions
    <3> QED
      BY <3>3
  <2>2. ASSUME NEW n \in Nat, n \in T PROVE n + 1 \in T
    <3> SUFFICES ASSUME n + 1 <= to PROVE Kept(n + 1)
      OBVIOUS
    <3>1. Kept(n) /\ n \in 0..to /\ n + 1 \in 1..to /\ (n + 1) - 1 = n /\ f[n] \in Known
      BY <1>3, <1>4, <2>2
    <3>0. f[n] \in Known
      BY <3>1
    <3>2. n + 1 \in 1..Len(rows) /\ rows[n + 1] \in RowsType
      BY <1>3, <3>1
    <3>3. CASE rows[n + 1].action \in PollActions
      <4>1. f[n + 1] = f[n]
        BY <1>4, <3>1, <3>3
      <4>2. ShowsDecisions(f[n], m, n + 1)
        BY <3>1, <3>2, <3>3, DecisionsSkip
      <4>3. f[n].poll[m] = NoRow(m)
        BY <3>1, Zenon
      <4> QED
        BY <4>1, <4>2, <4>3, Zenon
    <3>4. CASE rows[n + 1].action \notin PollActions
      <4>1. f[n + 1] = Apply(f[n], rows[n + 1])
        BY <1>4, <3>1, <3>4
      <4>2. ShowsDecisions(f[n + 1], m, n + 1)
        BY <3>1, <3>2, <4>1, DecisionsNext
      <4>3. f[n + 1].poll[m] = f[n].poll[m]
        BY <3>0, <3>2, <3>4, <4>1, DecisionsKeepPolls, Zenon
      <4>4. f[n].poll[m] = NoRow(m)
        BY <3>1, Zenon
      <4>5. f[n + 1].poll[m] = NoRow(m)
        BY <4>3, <4>4, Zenon
      <4> QED
        BY <4>2, <4>5, Zenon
    <3> QED
      BY <3>3, <3>4
  <2>3. Nat \subseteq T
    <3> HIDE DEF T
    <3> QED
      BY <2>1, <2>2, E!SetInduction
  <2>4. Kept(to)
    <3> HIDE DEF Kept
    <3> QED
      BY <1>3, <2>3
  <2> QED
    BY <2>4
<1>6. /\ Applied(NothingKnown, 0, to, RowActions \ PollActions) = f[to]
      /\ to \in 0..to
  BY <1>2, <1>3
<1>7. f[to] \in Known
  BY <1>4, <1>6
<1> QED
  BY <1>5, <1>6, <1>7, Zenon

LEMMA LoadShows ==
    ASSUME rows \in Seq(RowsType), configured \subseteq Miners, NEW top \in 0..Len(rows)
    PROVE  /\ Load(top) \in Known
           /\ \A m \in configured : ShowsPoll(Load(top), m, top) /\ ShowsDecisions(Load(top), m, top)
<1> DEFINE base == Applied(NothingKnown, 0, top, RowActions \ PollActions)
           with(kept) == [m \in Miners |-> IF m \in configured /\ PollsOf(m, top) # {}
                                           THEN Newer(NewestOf(PollsOf(m, top)), kept[m]) ELSE kept[m]]
<1>1. /\ base \in Known
      /\ \A m \in Miners : base.poll[m] = NoRow(m) /\ ShowsDecisions(base, m, top)
  BY DecisionsShow
<1>2. Load(top) = [base EXCEPT !.poll = with(base.poll), !.latest = with(base.latest)]
  BY DEF Load, WithPolls
<1> HIDE DEF base
<1>3. \A m \in Miners : PollsOf(m, top) # {} =>
          /\ NewestOf(PollsOf(m, top)) \in Entries /\ NewestOf(PollsOf(m, top)).ts \in Nat
  <2>1. \A row \in RowsType : row \in Entries /\ row.ts \in Nat
    BY RowIsEntry
  <2> QED
    BY <2>1, NewestPollIs
<1>4. \A kept \in [Miners -> Entries] : with(kept) \in [Miners -> Entries]
  BY <1>3 DEF Newer
<1>5. base.poll \in [Miners -> Entries] /\ base.latest \in [Miners -> Entries]
  BY <1>1 DEF Known
<1>6. with(base.poll) \in [Miners -> Entries] /\ with(base.latest) \in [Miners -> Entries]
  BY <1>4, <1>5
<1>7. \A m \in configured :
         with(base.poll)[m] = IF PollsOf(m, top) = {} THEN NoRow(m) ELSE NewestOf(PollsOf(m, top))
  <2> SUFFICES ASSUME NEW m \in configured
               PROVE  with(base.poll)[m] = IF PollsOf(m, top) = {} THEN NoRow(m)
                                           ELSE NewestOf(PollsOf(m, top))
    OBVIOUS
  <2>1. m \in Miners /\ base.poll[m] = NoRow(m) /\ NoRow(m).ts = -1
    BY <1>1 DEF NoRow, Row, NoTime
  <2>2. PollsOf(m, top) # {} => Newer(NewestOf(PollsOf(m, top)), NoRow(m)) = NewestOf(PollsOf(m, top))
    BY <1>3, <2>1 DEF Newer
  <2> QED
    BY <2>1, <2>2
<1> HIDE DEF with
<1>8. /\ Load(top) \in Known /\ Load(top).poll = with(base.poll)
      /\ Load(top).decision = base.decision /\ Load(top).power = base.power
      /\ Load(top).latch = base.latch
  BY <1>1, <1>2, <1>6 DEF Known
<1> QED
  BY <1>1, <1>7, <1>8 DEF ShowsPoll, ShowsDecisions

-----------------------------------------------------------------------------
(***************************************************************************)
(* The copy is a scan of the table up to last_id, whatever happens between *)
(* two refreshes.                                                          *)
(***************************************************************************)

\* The copy shows what it should up to last_id, and the reader that holds the
\* lock has read an id of the table.
FleetInv ==
    /\ rows \in Seq(RowsType) /\ clock \in Nat /\ configured \subseteq Miners
    /\ cache \in Known /\ lastId \in Nat \cup {NoId} /\ swapped \in BOOLEAN
    /\ looking # Nobody => looking.top \in 0..Len(rows)
    /\ lastId # NoId /\ ~swapped => lastId <= Len(rows)
    /\ IncrementalIsScan

\* What the table shows up to an id depends on the rows up to it.
LEMMA SameRowsShowTheSame ==
    ASSUME rows \in Seq(RowsType), NEW known, NEW n \in 0..Len(rows), NEW m,
           known = cache', n = lastId', \A i \in 1..n : rows'[i] = rows[i]
    PROVE  /\ ShowsPoll(known, m, n) => ShowsPoll(cache, m, lastId)'
           /\ ShowsDecisions(known, m, n) => ShowsDecisions(cache, m, lastId)'
<1> DEFINE ids == PollsOf(m, n)
<1>1. PollsOf(m, lastId)' = ids /\ ids \in SUBSET (1..n)
  BY DEF PollsOf
<1>2. \A i \in 1..n : i \in Nat /\ rows[i].ts \in Nat
  BY TableRows
<1>3. ASSUME ids # {}
      PROVE  NewestOf(PollsOf(m, lastId))' = NewestOf(ids)
  <2>1. PICK i \in ids : IsNewest(i, ids) /\ NewestOf(ids) = rows[i]
    BY <1>3, NewestPollIs
  <2> HIDE DEF ids
  <2>2. \A j \in ids : rows'[j] = rows[j] /\ j \in Nat /\ rows[j].ts \in Nat
    BY <1>1, <1>2
  <2> DEFINE Best(j) == \A k \in ids : rows'[k].ts < rows'[j].ts
                                      \/ (rows'[k].ts = rows'[j].ts /\ k <= j)
  <2>3. Best(i)
    BY <2>1, <2>2 DEF IsNewest
  <2>4. \A j \in ids : Best(j) => j = i
    BY <2>2, <2>3
  <2> HIDE DEF Best
  <2>5. (CHOOSE j \in ids : Best(j)) = i
    BY <2>3, <2>4
  <2>6. NewestOf(PollsOf(m, lastId))' = rows'[CHOOSE j \in ids : Best(j)]
    BY <1>1 DEF NewestOf, Best
  <2> QED
    BY <2>1, <2>2, <2>5, <2>6
<1>4. ASSUME NEW actions
      PROVE  /\ LastIdOf(m, actions, lastId)' = LastIdOf(m, actions, n)
             /\ LastIdOf(m, actions, n) \in 0..n
  <2> DEFINE some == {i \in 1..n : rows[i].miner = m /\ rows[i].action \in actions}
             last == CHOOSE i \in some : \A j \in some : j <= i
  <2>1. {i \in 1..lastId : rows[i].miner = m /\ rows[i].action \in actions}' = some
    OBVIOUS
  <2>2. LastIdOf(m, actions, n) = IF some = {} THEN 0 ELSE last
    BY DEF LastIdOf
  <2>3. LastIdOf(m, actions, lastId)' = IF some = {} THEN 0 ELSE last
    <3> DEFINE later == {i \in 1..lastId' : rows'[i].miner = m /\ rows'[i].action \in actions}
    <3>1. LastIdOf(m, actions, lastId)'
            = IF later = {} THEN 0 ELSE CHOOSE i \in later : \A j \in later : j <= i
      BY DEF LastIdOf
    <3>2. later = some
      BY <2>1
    <3> HIDE DEF later, some
    <3> QED
      BY <3>1, <3>2, Zenon
  <2>5. LastIdOf(m, actions, n) \in 0..n
    BY LastIdIn
  <2> QED
    BY <2>2, <2>3, <2>5
<1>5. ShowsPoll(known, m, n) => ShowsPoll(cache, m, lastId)'
  BY <1>1, <1>3 DEF ShowsPoll
<1>6. ShowsDecisions(known, m, n) => ShowsDecisions(cache, m, lastId)'
  <2> SUFFICES ASSUME ShowsDecisions(known, m, n) PROVE ShowsDecisions(cache, m, lastId)'
    OBVIOUS
  <2>1. \A i \in 0..n : i # 0 => rows'[i] = rows[i]
    BY TableRows
  <2>2. LET i == LastIdOf(m, RowActions \ PollActions, lastId)'
        IN  cache'.decision[m] = IF i = 0 THEN NoRow(m) ELSE rows'[i]
    BY <1>4, <2>1 DEF ShowsDecisions
  <2>3. LET i == LastIdOf(m, DOMAIN Powers, lastId)'
        IN  cache'.power[m] = IF i = 0 THEN "awake" ELSE Powers[rows'[i].action]
    BY <1>4, <2>1 DEF ShowsDecisions
  <2>4. ASSUME NEW kind \in DOMAIN Latches
        PROVE  LET i == LastIdOf(m, {Latches[kind].set, Latches[kind].cleared}, lastId)'
               IN  cache'.latch[kind][m] = IF i # 0 /\ rows'[i].action = Latches[kind].set
                                           THEN rows'[i].ts ELSE NoTime
    BY <1>4, <2>1 DEF ShowsDecisions
  <2> QED
    BY <2>2, <2>3, <2>4 DEF ShowsDecisions
<1> QED
  BY <1>5, <1>6

\* refresh
LEMMA ReadKeeps ==
    ASSUME FleetInv, NEW who \in {"page", "monitor"}, Read(who)
    PROVE  FleetInv'
<1> DEFINE top == looking.top
<1>0. /\ looking # Nobody /\ Len(rows) \in Nat
  BY TableRows DEF FleetInv, Read, Nobody
<1>1. /\ top \in 0..Len(rows) /\ top \in Nat /\ top # NoId
  BY <1>0 DEF FleetInv, NoId
<1>2. /\ looking' = Nobody /\ cache' = Refreshed(top) /\ lastId' = top
      /\ swapped' = (swapped /\ lastId # NoId /\ top >= lastId)
      /\ UNCHANGED <<clock, rows, configured>>
  BY DEF Read
<1> HIDE DEF top
<1>3. CASE lastId = NoId \/ top < lastId
  <2>1. cache' = Load(top)
    BY <1>2, <1>3 DEF Refreshed
  <2>2. /\ Load(top) \in Known
        /\ \A m \in configured : ShowsPoll(Load(top), m, top) /\ ShowsDecisions(Load(top), m, top)
    BY <1>1, LoadShows DEF FleetInv
  <2>3. IncrementalIsScan'
    <3> HIDE DEF FleetInv
    <3>1. rows \in Seq(RowsType) /\ \A i \in 1..top : rows'[i] = rows[i]
      BY <1>2 DEF FleetInv
    <3> QED
      BY <1>1, <1>2, <2>1, <2>2, <3>1, SameRowsShowTheSame DEF IncrementalIsScan
  <2> QED
    BY <1>1, <1>2, <2>1, <2>2, <2>3 DEF FleetInv
<1>4. CASE ~(lastId = NoId \/ top < lastId)
  <2>1. lastId \in Nat /\ top \in lastId..Len(rows)
    BY <1>0, <1>1, <1>4 DEF FleetInv
  <2> DEFINE new == Applied(cache, lastId, top, RowActions)
  <2>2. cache' = new
    BY <1>2, <1>4 DEF Refreshed
  <2>3. /\ new \in Known
        /\ \A m \in Miners :
              /\ ShowsPoll(cache, m, lastId) => ShowsPoll(new, m, top)
              /\ ShowsDecisions(cache, m, lastId) => ShowsDecisions(new, m, top)
    BY <2>1, AppliedShows DEF FleetInv
  <2> HIDE DEF new
  <2>4. swapped' = swapped
    BY <1>2, <1>4, <2>1 DEF FleetInv
  <2>5. ~swapped => \A m \in configured : ShowsPoll(new, m, top) /\ ShowsDecisions(new, m, top)
    BY <1>4, <2>3 DEF FleetInv, IncrementalIsScan
  <2>6. IncrementalIsScan'
    <3>1. rows \in Seq(RowsType) /\ \A i \in 1..top : rows'[i] = rows[i]
      BY <1>2 DEF FleetInv
    <3> QED
      BY <1>1, <1>2, <2>2, <2>4, <2>5, <3>1, SameRowsShowTheSame DEF IncrementalIsScan
  <2> QED
    BY <1>1, <1>2, <2>2, <2>3, <2>4, <2>6 DEF FleetInv
<1> QED
  BY <1>3, <1>4

\* record_event: the rows that were there stay what they were.
LEMMA InsertKeeps ==
    ASSUME FleetInv, NEW m \in configured, NEW a \in RowActions, NEW t \in Nat, Insert(m, a, t)
    PROVE  FleetInv'
<1>1. /\ rows' = Append(rows, Row(t, m, a))
      /\ UNCHANGED <<clock, configured, cache, lastId, looking, swapped>>
  BY DEF Insert
<1>2. Row(t, m, a) \in RowsType
  BY DEF FleetInv, Row, RowsType
<1>3. /\ rows \in Seq(RowsType) /\ rows' \in Seq(RowsType) /\ Len(rows') = Len(rows) + 1
      /\ Len(rows) \in Nat /\ \A i \in 1..Len(rows) : rows'[i] = rows[i]
  BY <1>1, <1>2, AppendProperties, TableRows DEF FleetInv
<1>4. IncrementalIsScan'
  <2> SUFFICES ASSUME lastId # NoId, ~swapped, NEW x \in configured
               PROVE  ShowsPoll(cache, x, lastId)' /\ ShowsDecisions(cache, x, lastId)'
    BY <1>1 DEF IncrementalIsScan
  <2>1. lastId \in 0..Len(rows) /\ \A i \in 1..lastId : i \in 1..Len(rows)
    BY <1>3 DEF FleetInv
  <2>2. ShowsPoll(cache, x, lastId) /\ ShowsDecisions(cache, x, lastId)
    BY DEF FleetInv, IncrementalIsScan
  <2> QED
    BY <1>1, <1>3, <2>1, <2>2, SameRowsShowTheSame
<1> QED
  BY <1>1, <1>3, <1>4 DEF FleetInv

\* Steps that leave the rows, the copy and last_id alone.
LEMMA NothingReadKeeps ==
    ASSUME FleetInv, UNCHANGED <<rows, configured, cache, lastId, swapped>>, clock' \in Nat,
           looking' # Nobody => looking'.top \in 0..Len(rows)
    PROVE  FleetInv'
<1>1. IncrementalIsScan'
  <2> SUFFICES ASSUME lastId # NoId, ~swapped, NEW m \in configured
               PROVE  ShowsPoll(cache, m, lastId)' /\ ShowsDecisions(cache, m, lastId)'
    BY DEF IncrementalIsScan
  <2>1. /\ lastId \in 0..Len(rows) /\ rows \in Seq(RowsType)
        /\ ShowsPoll(cache, m, lastId) /\ ShowsDecisions(cache, m, lastId)
    BY TableRows DEF FleetInv, IncrementalIsScan
  <2> QED
    BY <2>1, SameRowsShowTheSame
<1> QED
  BY <1>1 DEF FleetInv

\* refresh takes the lock.
LEMMA LookKeeps ==
    ASSUME FleetInv, NEW who, Look(who)
    PROVE  FleetInv'
<1>1. /\ UNCHANGED <<rows, configured, cache, lastId, swapped>> /\ clock' \in Nat
      /\ looking'.top = Len(rows) /\ Len(rows) \in Nat
  BY TableRows DEF FleetInv, Look
<1> QED
  BY <1>1, NothingReadKeeps

\* A row, another file, other miners.
LEMMA TableKeeps ==
    ASSUME FleetInv, TableStep
    PROVE  FleetInv'
<1>1. CASE \E m \in configured, a \in RowActions, t \in {clock, clock - 1} \cap Nat : Insert(m, a, t)
  BY <1>1, InsertKeeps
<1>2. CASE ReplaceTable
  <2>1. /\ rows' = <<>> /\ swapped' = TRUE /\ looking = Nobody
        /\ UNCHANGED <<clock, configured, cache, lastId, looking>>
    BY <1>2 DEF ReplaceTable
  <2>2. rows' \in Seq(RowsType)
    BY <2>1, EmptySeq
  <2> QED
    BY <2>1, <2>2 DEF FleetInv, IncrementalIsScan
<1>3. CASE \E ms \in SUBSET Miners \ {{}} : ReplaceMiners(ms)
  <2>1. /\ configured' \subseteq Miners /\ lastId' = NoId /\ looking = Nobody
        /\ UNCHANGED <<clock, rows, cache, looking, swapped>>
    BY <1>3 DEF ReplaceMiners
  <2> QED
    BY <2>1 DEF FleetInv, IncrementalIsScan
<1> QED
  BY <1>1, <1>2, <1>3 DEF TableStep

LEMMA FleetInvStep ==
    ASSUME FleetInv, [AlertsNext]_allVars
    PROVE  FleetInv'
<1>1. CASE BeginCheck
  BY <1>1, LookKeeps DEF BeginCheck
<1>2. CASE Evaluate
  BY <1>2, ReadKeeps DEF Evaluate
<1>3. CASE Request
  BY <1>3, LookKeeps, ReadKeeps DEF Request
<1>4. CASE Restart
  <2>1. /\ looking' = Nobody /\ cache' = NothingKnown /\ lastId' = NoId /\ swapped' = FALSE
        /\ UNCHANGED <<clock, rows, configured>>
    BY <1>4 DEF Restart
  <2> QED
    BY <2>1, NothingIsKnown DEF FleetInv, IncrementalIsScan
<1>5. CASE TableStep
  BY <1>5, TableKeeps
<1>6. CASE Passes
  <2>1. /\ UNCHANGED <<rows, configured, cache, lastId, looking, swapped>> /\ clock' = clock + 1
    BY <1>6 DEF Passes
  <2> QED
    BY <2>1, NothingReadKeeps DEF FleetInv
<1>7. CASE UNCHANGED fleetVars
  BY <1>7, NothingReadKeeps DEF FleetInv, fleetVars
<1>8. \/ BeginCheck \/ Evaluate \/ Request \/ Restart \/ TableStep \/ Passes
      \/ UNCHANGED fleetVars
  BY DEF AlertsNext, Check, World, MailSent, MailFails, Book, Configure, allVars
<1> QED
  BY <1>1, <1>2, <1>3, <1>4, <1>5, <1>6, <1>7, <1>8

\* Every step keeps what the dashboard's copy is to be.
THEOREM FleetInvariant == AlertsSpec => []FleetInv
<1>1. AlertsInit => FleetInv
  <2> SUFFICES ASSUME FleetInit PROVE FleetInv
    BY DEF AlertsInit
  <2>1. rows \in Seq(RowsType)
    BY EmptySeq DEF FleetInit
  <2> QED
    BY <2>1, NothingIsKnown DEF FleetInit, FleetInv, IncrementalIsScan
<1> QED
  BY <1>1, FleetInvStep, PTL DEF AlertsSpec

\* However many rows each refresh reads and whatever is inserted, replaced,
\* switched or restarted in between, the copy the pages and the alerts look at
\* shows what a scan of the table up to last_id shows.
THEOREM CopyIsAScan == AlertsSpec => []IncrementalIsScan
<1>1. FleetInv => IncrementalIsScan
  BY DEF FleetInv
<1> QED
  BY <1>1, FleetInvariant, PTL

\* What the rows say of a miner: no latch, and no sleep that may not have taken.
TableSaysClear(m) ==
    \A kind \in DOMAIN Latches :
        LET i == LastIdOf(m, {Latches[kind].set, Latches[kind].cleared}, lastId)
        IN  i = 0 \/ rows[i].action # Latches[kind].set

TableSaysSure(m) ==
    LET i == LastIdOf(m, DOMAIN Powers, lastId)
    IN  i = 0 \/ Powers[rows[i].action] # "unsure"

TroubleIsInTable ==
    lastId # NoId /\ ~swapped =>
        \A m \in configured : /\ Latched(cache, m) \/ TableSaysClear(m)
                              /\ cache.power[m] = "unsure" \/ TableSaysSure(m)

\* The mail that is about to be sent says that a condition is over that the
\* monitor looks at: its kind is watched.
Cleared(kind, m) == <<kind, m>> \in monitor'.mail.resolved /\ kind \in monitor.use.watch

\* Of the miners of the fleet and the kinds that are watched, the mail that is
\* about to be sent gives the all-clear for a latch or for an uncertain sleep only
\* when the table, read up to last_id, shows none.
ClearIsInTable ==
    Evaluate /\ ~swapped' =>
        \A m \in configured :
            /\ Cleared("latched", m) => TableSaysClear(m)'
            /\ Cleared("unsure", m) /\ m \in SleepEnabled => TableSaysSure(m)'

\* An all-clear for what the monitor looks at agrees with the events table and not
\* only with the dashboard's copy of it, whatever was inserted or read in between.
THEOREM ClearsAgreeWithTable == AlertsSpec => [][ClearIsInTable]_allVars
<1>1. FleetInv => TroubleIsInTable
  <2> SUFFICES ASSUME FleetInv, lastId # NoId, ~swapped, NEW m \in configured
               PROVE  /\ Latched(cache, m) \/ TableSaysClear(m)
                      /\ cache.power[m] = "unsure" \/ TableSaysSure(m)
    BY DEF TroubleIsInTable
  <2>1. /\ rows \in Seq(RowsType) /\ lastId \in Nat /\ lastId <= Len(rows)
        /\ ShowsDecisions(cache, m, lastId)
    BY DEF FleetInv, IncrementalIsScan
  <2>2. ASSUME ~Latched(cache, m), NEW kind \in DOMAIN Latches
        PROVE  LET i == LastIdOf(m, {Latches[kind].set, Latches[kind].cleared}, lastId)
               IN  i = 0 \/ rows[i].action # Latches[kind].set
    <3> DEFINE i == LastIdOf(m, {Latches[kind].set, Latches[kind].cleared}, lastId)
    <3>1. /\ cache.latch[kind][m] = NoTime
          /\ cache.latch[kind][m] = IF i # 0 /\ rows[i].action = Latches[kind].set
                                    THEN rows[i].ts ELSE NoTime
      BY <2>1, <2>2 DEF ShowsDecisions, Latched
    <3>2. i \in 0..lastId
      BY <2>1, LastIdIn
    <3>3. i # 0 => rows[i].ts \in Nat
      BY <2>1, <3>2, TableRows
    <3> QED
      BY <3>1, <3>3 DEF NoTime
  <2>3. cache.power[m] = "unsure" \/ TableSaysSure(m)
    BY <2>1 DEF ShowsDecisions, TableSaysSure
  <2> QED
    BY <2>2, <2>3 DEF TableSaysClear
<1>2. ASSUME AlertsInv, FleetInv, TroubleIsInTable', Evaluate, ~swapped',
             NEW m \in configured, NEW kind \in {"latched", "unsure"},
             <<kind, m>> \in monitor'.mail.resolved, kind \in monitor.use.watch,
             kind = "unsure" => m \in SleepEnabled
      PROVE  IF kind = "latched" THEN TableSaysClear(m)' ELSE TableSaysSure(m)'
  <2> DEFINE key == <<kind, m>>
             mail == Mail(Evaluated(cache', monitor.use, monitor.now), monitor.now)
  <2>1. key \in mail.resolved
    <3>1. CASE monitor' = AtRest
      BY <1>2, <3>1 DEF AtRest, NoMail
    <3>2. CASE monitor' = [monitor EXCEPT !.pc = "sending", !.mail = mail]
      BY <1>2, <3>2 DEF AlertsInv, AlertsTypeOK
    <3> QED
      BY <1>2, <3>1, <3>2 DEF Evaluate
  <2>2. ~InForce(key, cache')
    <3>1. Standing(key) = "in sight"
      BY <1>2 DEF Standing
    <3> HIDE DEF key
    <3> QED
      BY <2>1, <3>1, ResolvedIsOver
  <2>3. lastId' # NoId /\ configured' = configured /\ m \in Miners
    <3>1. looking # Nobody /\ lastId' = looking.top /\ configured' = configured
      BY <1>2 DEF Evaluate, Read, Nobody
    <3> QED
      BY <1>2, <3>1, TableRows DEF FleetInv, NoId
  <2>4. /\ kind = "latched" => ~Latched(cache', m)
        /\ kind = "unsure" => cache'.power[m] # "unsure"
    BY <1>2, <2>2, <2>3 DEF InForce, MinerKeys, Power
  <2> QED
    BY <1>2, <2>3, <2>4 DEF TroubleIsInTable
<1>3. AlertsInv /\ FleetInv /\ TroubleIsInTable' /\ [AlertsNext]_allVars => [ClearIsInTable]_allVars
  <2> SUFFICES ASSUME AlertsInv, FleetInv, TroubleIsInTable', Evaluate, ~swapped', NEW m \in configured
               PROVE  /\ Cleared("latched", m) => TableSaysClear(m)'
                      /\ Cleared("unsure", m) /\ m \in SleepEnabled => TableSaysSure(m)'
    BY DEF ClearIsInTable
  <2>1. /\ "latched" \in {"latched", "unsure"} /\ "unsure" \in {"latched", "unsure"}
        /\ "latched" # "unsure"
    OBVIOUS
  <2> QED
    BY <1>2, <2>1 DEF Cleared
<1> QED
  BY <1>1, <1>3, BooksAreKept, FleetInvariant, PTL DEF AlertsSpec
=============================================================================
