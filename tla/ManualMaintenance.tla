------------------------- MODULE ManualMaintenance -------------------------
(***************************************************************************)
(* The maintenance windows an operator starts and stops by hand.  They     *)
(* live in one JSON file that the command line and the threads of the      *)
(* dashboard rewrite, each reading it, changing what it read and replacing *)
(* it, without a lock; the service and the dashboard keep copies of it,    *)
(* reloaded when the stamp of the file changes.  The stamp is the time of  *)
(* modification and the size; two texts of one size that are written       *)
(* within the resolution of the file system have the same.                 *)
(*                                                                         *)
(* The targets of a window are left out: every window is one that covers   *)
(* the miner.  A text is the set of its records.                           *)
(***************************************************************************)
EXTENDS Integers, FiniteSets

CONSTANTS
    Writers,    \* processes and threads that start and stop windows
    Readers,    \* the service and the dashboard: who holds a ManualWindows
    Durations,  \* how long a window may be asked for; a long one has no end
    KeepEnded,  \* KEEP_ENDED: ticks an ended window is kept
    Attempts,   \* REPLACE_ATTEMPTS
    MaxClock,   \* bound: last tick
    MaxOps,     \* bound: windows started
    MaxStops,   \* bound: stops asked for
    MaxFaults,  \* bound: refused renames, failed reads, processes that die,
                \* stamps that another text has had
    MaxByHand   \* bound: times somebody edits or removes the file

ASSUME MaintenanceConstants ==
    /\ Durations \subseteq Nat \ {0} /\ KeepEnded \in Nat
    /\ Attempts \in Nat \ {0} /\ MaxClock \in Nat /\ MaxOps \in Nat
    /\ MaxStops \in Nat /\ MaxFaults \in Nat /\ MaxByHand \in Nat

VARIABLES
    clock,
    file,      \* what is on disk: its stamp (0: no file), whether it parses, its windows
    stamps,    \* different stamps given to texts so far
    shared,    \* history: those that more than one text was given
    writer,    \* per writer: the call it is in
    reader,    \* per reader: its ManualWindows
    ops, stops, faults, byHand, \* how much of each bound is used
    promised   \* history: the windows as acknowledged last, see PromiseKept

given == <<stamps, shared>>
vars  == <<clock, file, given, writer, reader, ops, stops, faults, byHand, promised>>

-----------------------------------------------------------------------------
(* What a text says.                                                       *)

\* MaintenanceWindow.active
Active(w, t) == w.start <= t /\ t < w.end

\* _write_records: what is kept of the records
Kept(ws, t) == {w \in ws : t - w.end <= KeepEnded}

\* stop_manual: the records it ends
Stopped(ws, ids, t) == {w \in ws : w.id \in ids /\ Active(w, t)}
Ended(ws, t) == {[w EXCEPT !.end = t] : w \in ws}

Text(stamp, ws) == [stamp |-> stamp, damaged |-> FALSE, windows |-> ws]
Rubbish(stamp)  == [stamp |-> stamp, damaged |-> TRUE, windows |-> {}]
NoFile          == Text(0, {})

Idle == [pc |-> "idle", now |-> 0, new |-> {}, ends |-> {}, seen |-> {},
         overtaken |-> FALSE, windows |-> {}, stamp |-> 0, tries |-> 0]

NothingRead == [pc |-> "idle", stamp |-> 0, windows |-> {}, error |-> FALSE]

Init ==
    /\ clock = 0 /\ file = NoFile /\ stamps = 0 /\ shared = {}
    /\ writer = [w \in Writers |-> Idle]
    /\ reader = [r \in Readers |-> NothingRead]
    /\ ops = 0 /\ stops = 0 /\ faults = 0 /\ byHand = 0 /\ promised = {}

-----------------------------------------------------------------------------
(* Writers.                                                                *)

Enter(w, change) == writer' = [writer EXCEPT ![w] = change]

\* start_manual, up to its read; `now` is taken first.
BeginStart(w, d) ==
    /\ writer[w].pc = "idle" /\ ops < MaxOps /\ ops' = ops + 1
    /\ Enter(w, [Idle EXCEPT !.pc = "reading", !.now = clock,
                    !.new = {[id |-> ops + 1, start |-> clock, end |-> clock + d]}])
    /\ UNCHANGED <<clock, file, given, reader, stops, faults, byHand, promised>>

\* stop_manual of one window, or of every active one.
BeginStop(w, ids) ==
    /\ writer[w].pc = "idle" /\ stops < MaxStops /\ stops' = stops + 1
    /\ Enter(w, [Idle EXCEPT !.pc = "reading", !.now = clock, !.ends = ids])
    /\ UNCHANGED <<clock, file, given, reader, ops, faults, byHand, promised>>

\* What the call makes of the windows it read.
Changed(call, ws) ==
    LET hit == Stopped(ws, call.ends, call.now)
    IN  Kept((ws \ hit) \cup Ended(hit, call.now) \cup call.new, call.now)

\* _read_records and the change.  A damaged file fails the call, and a stop
\* that finds nothing to end writes nothing.
ReadRecords(w) ==
    LET call == writer[w]
        ws   == file.windows
    IN  /\ call.pc = "reading"
        /\ Enter(w, IF \/ file.damaged
                       \/ call.new = {} /\ Stopped(ws, call.ends, call.now) = {}
                    THEN Idle
                    ELSE [call EXCEPT !.pc = "staging", !.seen = ws,
                                      !.windows = Changed(call, ws)])
        /\ UNCHANGED <<clock, file, given, reader, ops, stops, faults, byHand, promised>>

\* A text is written: it gets a stamp of its own, or one another text has had.
Given(s) == \/ /\ s = stamps + 1 /\ stamps' = s
               /\ UNCHANGED <<shared, faults>>
            \/ /\ s \in 1..stamps /\ shared' = shared \cup {s}
               /\ faults < MaxFaults /\ faults' = faults + 1
               /\ UNCHANGED stamps

\* Mutant: the text is written into the file itself.
WriteInPlace(w) ==
    /\ writer[w].pc = "staging"
    /\ \E s \in 1..stamps + 1 :
          /\ Given(s) /\ file' = Rubbish(s)
          /\ Enter(w, [writer[w] EXCEPT !.pc = "replacing", !.stamp = s])
    /\ UNCHANGED <<clock, reader, ops, stops, byHand, promised>>

\* write_text_atomic: the whole text goes to a temporary file, which gets its
\* modification time here and keeps it when it is renamed.
Stage(w) ==
    /\ writer[w].pc = "staging"
    /\ \E s \in 1..stamps + 1 :
          Given(s) /\ Enter(w, [writer[w] EXCEPT !.pc = "replacing", !.stamp = s])
    /\ UNCHANGED <<clock, file, reader, ops, stops, byHand, promised>>

\* History: the file changes under the calls that have read it.
ChangedUnder == [w \in Writers |->
                IF writer[w].pc \in {"staging", "replacing"}
                THEN [writer[w] EXCEPT !.overtaken = TRUE] ELSE writer[w]]

\* What the call answers to its caller: the windows it added or ended.
Acknowledged(call) ==
    call.new \cup Ended(Stopped(call.seen, call.ends, call.now), call.now)

\* os.replace succeeds and the call returns.  An earlier promise about a window
\* is superseded by this one; one that was written after this call had read the
\* file is lost, and no longer counted (see PromiseKept).
Replace(w) ==
    LET call == writer[w]
        said == Acknowledged(call)
    IN  /\ call.pc = "replacing"
        /\ file' = Text(call.stamp, call.windows)
        /\ promised' = said \cup {p \in promised :
                            /\ \A q \in said : q.id # p.id
                            /\ ~call.overtaken \/ p \in call.seen}
        /\ writer' = [ChangedUnder EXCEPT ![w] = Idle]
        /\ UNCHANGED <<clock, given, reader, ops, stops, faults, byHand>>

\* PermissionError: retried, and given up after Attempts.
Refused(w) ==
    /\ writer[w].pc = "replacing" /\ faults < MaxFaults /\ faults' = faults + 1
    /\ Enter(w, IF writer[w].tries + 1 >= Attempts THEN Idle
                ELSE [writer[w] EXCEPT !.tries = @ + 1])
    /\ UNCHANGED <<clock, file, given, reader, ops, stops, byHand, promised>>

\* The process dies; a temporary file it leaves behind is read by nobody.
Dies(w) ==
    /\ writer[w].pc # "idle" /\ faults < MaxFaults /\ faults' = faults + 1
    /\ Enter(w, Idle)
    /\ UNCHANGED <<clock, file, given, reader, ops, stops, byHand, promised>>

-----------------------------------------------------------------------------
(* Readers: ManualWindows.get.                                             *)

Keep(r, copy) == reader' = [reader EXCEPT ![r] = copy]

\* Mutant: the file counts as changed only when its stamp is a later one.
NoticeNewer(r) ==
    /\ reader[r].pc = "idle" /\ file.stamp > reader[r].stamp
    /\ Keep(r, [reader[r] EXCEPT !.pc = "loading", !.stamp = file.stamp])
    /\ UNCHANGED <<clock, file, given, writer, ops, stops, faults, byHand, promised>>

\* os.stat finds another stamp, which is kept before the file is read; with
\* the old stamp the copy is returned as it is.
Notice(r) ==
    /\ reader[r].pc = "idle" /\ file.stamp # reader[r].stamp
    /\ Keep(r, IF file = NoFile THEN NothingRead
               ELSE [reader[r] EXCEPT !.pc = "loading", !.stamp = file.stamp])
    /\ UNCHANGED <<clock, file, given, writer, ops, stops, faults, byHand, promised>>

\* load_manual: the last good copy outlives a file that does not parse.
Load(r) ==
    /\ reader[r].pc = "loading"
    /\ Keep(r, [reader[r] EXCEPT !.pc = "idle", !.error = file.damaged,
                   !.windows = IF file.damaged THEN @ ELSE file.windows])
    /\ UNCHANGED <<clock, file, given, writer, ops, stops, faults, byHand, promised>>

\* Mutant: a failed read is swallowed.
ReadFailsSilently(r) ==
    /\ faults < MaxFaults /\ faults' = faults + 1
    /\ Keep(r, [reader[r] EXCEPT !.pc = "idle"])
    /\ UNCHANGED <<clock, file, given, writer, ops, stops, byHand, promised>>

\* An OSError of os.stat or of the read: the copy stays, and so does a stamp
\* that was already taken.
ReadFails(r) ==
    /\ faults < MaxFaults /\ faults' = faults + 1
    /\ Keep(r, [reader[r] EXCEPT !.pc = "idle", !.error = TRUE])
    /\ UNCHANGED <<clock, file, given, writer, ops, stops, byHand, promised>>

\* The process stops and is started again, with an empty copy.
Restarts(r) ==
    /\ faults < MaxFaults /\ faults' = faults + 1
    /\ Keep(r, NothingRead)
    /\ UNCHANGED <<clock, file, given, writer, ops, stops, byHand, promised>>

-----------------------------------------------------------------------------
(* The world.                                                              *)

\* Somebody edits the file and leaves it damaged, or removes it.
ByHand(damage) ==
    /\ byHand < MaxByHand /\ byHand' = byHand + 1
    /\ promised' = {} /\ writer' = ChangedUnder
    /\ \/ damage /\ \E s \in 1..stamps + 1 : Given(s) /\ file' = Rubbish(s)
       \/ ~damage /\ file' = NoFile /\ UNCHANGED <<given, faults>>
    /\ UNCHANGED <<clock, reader, ops, stops>>

Tick == /\ clock < MaxClock /\ clock' = clock + 1
        /\ UNCHANGED <<file, given, writer, reader, ops, stops, faults, byHand, promised>>

\* The bounded clock has run out; nothing is left to check.
HorizonReached == clock = MaxClock /\ UNCHANGED vars

Get(r) == Notice(r) \/ Load(r)

Next == \/ \E w \in Writers :
              \/ \E d \in Durations : BeginStart(w, d)
              \/ \E ids \in {1..ops} \cup {{i} : i \in 1..ops} : BeginStop(w, ids)
              \/ ReadRecords(w) \/ Stage(w) \/ Replace(w) \/ Refused(w) \/ Dies(w)
        \/ \E r \in Readers : Get(r) \/ ReadFails(r) \/ Restarts(r)
        \/ \E damage \in BOOLEAN : ByHand(damage)
        \/ Tick \/ HorizonReached

Spec == Init /\ [][Next]_vars

-----------------------------------------------------------------------------
(***************************************************************************)
(* Properties.                                                             *)
(***************************************************************************)

\* A reader that trusts its copy because the stamp is the file's, and was told
\* of no error, holds what the file says: a load that overlaps a rename, or
\* that comes after several, never pins an old copy under a new stamp.  Where
\* two texts have had that stamp, it may be a copy of the other.
CacheFresh ==
    \A r \in Readers :
        /\ reader[r].pc = "idle" /\ ~reader[r].error
        /\ reader[r].stamp = file.stamp /\ file.stamp \notin shared
        => reader[r].windows = file.windows

\* A window stays as the last call about it was answered: one that was started
\* is there and has its end, one that was stopped stays stopped, until it is
\* old enough to drop.  The file is rewritten without a lock, so a call that
\* read the file before that answer and replaced it after may undo it; nothing
\* else but a hand does.
PromiseKept ==
    \A p \in promised : clock - p.end <= KeepEnded => p \in file.windows

\* A change of the file reaches every reader that keeps polling, unless it
\* reports that it cannot read the file, or the file ends with a stamp that
\* another text has had: then the reader may take it for that text for ever.
EventuallyNoticed ==
    \A r \in Readers :
        <>[](\/ reader[r].error \/ reader[r].windows = file.windows
             \/ file.stamp \in shared)
=============================================================================
