---------------------- MODULE ManualMaintenanceProofs ----------------------
(***************************************************************************)
(* Proofs about the file of maintenance windows: a copy that is trusted is *)
(* the file, and a call that was answered stays answered, for any number   *)
(* of writers, readers, faults and edits by hand.                          *)
(***************************************************************************)
EXTENDS ManualMaintenance, TLAPS

Windows == [id : Nat, start : Nat, end : Nat]

Files == [stamp : Nat, damaged : BOOLEAN, windows : SUBSET Windows]

Calls == [pc : {"idle", "reading", "staging", "replacing"}, now : Nat,
          new : SUBSET Windows, ends : SUBSET Nat, seen : SUBSET Windows,
          overtaken : BOOLEAN, windows : SUBSET Windows, stamp : Nat, tries : Nat]

Copies == [pc : {"idle", "loading"}, stamp : Nat, windows : SUBSET Windows,
           error : BOOLEAN]

Types ==
    /\ clock \in Nat /\ stamps \in Nat /\ ops \in Nat
    /\ file \in Files
    /\ writer \in [Writers -> Calls]
    /\ reader \in [Readers -> Copies]
    /\ promised \subseteq Windows

-----------------------------------------------------------------------------
(* The inductive invariant.                                                *)

\* Every stamp is one that was given; without a file there is nothing to read.
FileIsKnown == file.stamp <= stamps /\ (file.stamp = 0 => file = NoFile)

HasRead(call) == call.pc \in {"staging", "replacing"}

\* What a call read is what the file says, unless the file has changed under
\* it, and what it writes is made of what it read.
CallIsSound(call) ==
    /\ call.now <= clock
    /\ HasRead(call) => /\ ~call.overtaken => call.seen = file.windows
                        /\ call.windows = Changed(call, call.seen)
    /\ call.pc = "replacing" => call.stamp \in 1..stamps

\* The copy of a reader is of the file under the stamp it took, if that is the
\* stamp of one text only.
CopyIsSound(copy) ==
    /\ copy.stamp <= stamps
    /\ copy.stamp = 0 => copy.pc = "idle" /\ copy.windows = {}
    /\ copy.pc = "idle" /\ ~copy.error /\ copy.stamp = file.stamp /\ file.stamp \notin shared
          => copy.windows = file.windows

\* The stamp of a temporary file is nobody else's, if only one text has it.
StampIsOwn(w) ==
    writer[w].pc = "replacing" /\ writer[w].stamp \notin shared =>
        /\ writer[w].stamp # file.stamp
        /\ \A r \in Readers : reader[r].stamp # writer[w].stamp
        /\ \A v \in Writers \ {w} :
              writer[v].pc = "replacing" => writer[v].stamp # writer[w].stamp

IInv ==
    /\ Types
    /\ FileIsKnown
    /\ \A w \in Writers : CallIsSound(writer[w])
    /\ \A r \in Readers : CopyIsSound(reader[r])
    /\ \A w \in Writers : StampIsOwn(w)
    /\ PromiseKept
-----------------------------------------------------------------------------
(* What a call makes of the windows it read.                               *)

\* Ending a window leaves a window, of the same id.
LEMMA EndedAreWindows ==
    ASSUME NEW ws \in SUBSET Windows, NEW t \in Nat
    PROVE  /\ Ended(ws, t) \subseteq Windows
           /\ \A p \in ws : \E q \in Ended(ws, t) : q.id = p.id
  <1>1. ASSUME NEW w \in ws PROVE [w EXCEPT !.end = t] \in Windows /\ [w EXCEPT !.end = t].id = w.id
    BY DEF Windows
  <1>2. QED BY <1>1 DEF Ended

\* What is written consists of windows again.
LEMMA ChangedAreWindows ==
    ASSUME NEW call \in Calls, NEW ws \in SUBSET Windows
    PROVE  Changed(call, ws) \subseteq Windows
  <1>1. Stopped(ws, call.ends, call.now) \subseteq ws BY DEF Stopped
  <1>2. call.now \in Nat /\ call.new \subseteq Windows BY DEF Calls
  <1>3. Ended(Stopped(ws, call.ends, call.now), call.now) \subseteq Windows
    BY <1>1, <1>2, EndedAreWindows
  <1>4. QED BY <1>1, <1>2, <1>3 DEF Changed, Kept

-----------------------------------------------------------------------------
(* Steps that change one call or one copy only.                            *)

\* A writer that goes on: what it has read is what it had read, or what the
\* file says now, and it gets no stamp it had not.
LEMMA CallGoesOn ==
    ASSUME IInv, NEW w \in Writers, NEW call \in Calls,
           writer' = [writer EXCEPT ![w] = call],
           UNCHANGED <<clock, file, given, reader, promised>>, ops' \in Nat,
           CallIsSound(call),
           call.pc = "replacing" => /\ writer[w].pc = "replacing"
                                    /\ call.stamp = writer[w].stamp
    PROVE  IInv'
  <1>1. \A v \in Writers : writer'[v] = IF v = w THEN call ELSE writer[v]
    BY DEF IInv, Types
  <1>2. Types' BY DEF IInv, Types, given
  <1>3. FileIsKnown' BY DEF IInv, FileIsKnown, NoFile, Text, given
  <1>4. \A v \in Writers : CallIsSound(writer[v])'
    BY <1>1 DEF IInv, CallIsSound, HasRead, Changed, Kept, Stopped, Ended, Active, given
  <1>5. \A r \in Readers : CopyIsSound(reader[r])' BY DEF IInv, CopyIsSound, given
  <1>6. \A v \in Writers : StampIsOwn(v)'
    BY <1>1 DEF IInv, StampIsOwn, given
  <1>7. PromiseKept' BY DEF IInv, PromiseKept
  <1>8. QED BY <1>2, <1>3, <1>4, <1>5, <1>6, <1>7 DEF IInv

\* A reader that goes on: its stamp is the one it had, the file's or none.
LEMMA CopyGoesOn ==
    ASSUME IInv, NEW r \in Readers, NEW copy \in Copies,
           reader' = [reader EXCEPT ![r] = copy],
           UNCHANGED <<clock, file, given, writer, promised, ops>>,
           CopyIsSound(copy), copy.stamp \in {reader[r].stamp, file.stamp, 0}
    PROVE  IInv'
  <1>1. \A q \in Readers : reader'[q] = IF q = r THEN copy ELSE reader[q]
    BY DEF IInv, Types
  <1>2. Types' BY DEF IInv, Types, given
  <1>3. FileIsKnown' BY DEF IInv, FileIsKnown, NoFile, Text, given
  <1>4. \A v \in Writers : CallIsSound(writer[v])'
    BY DEF IInv, CallIsSound, HasRead, Changed, Kept, Stopped, Ended, Active, given
  <1>5. \A q \in Readers : CopyIsSound(reader[q])' BY <1>1 DEF IInv, CopyIsSound, given
  <1>6. ASSUME NEW v \in Writers PROVE StampIsOwn(v)'
    <2>1. CASE writer[v].pc = "replacing" /\ writer[v].stamp \notin shared
      <3>1. writer[v].stamp # 0 /\ writer[v].stamp # file.stamp
        BY <2>1 DEF IInv, CallIsSound, StampIsOwn
      <3>2. \A q \in Readers : reader'[q].stamp # writer[v].stamp
        BY <1>1, <2>1, <3>1 DEF IInv, StampIsOwn
      <3>3. QED BY <2>1, <3>2 DEF IInv, StampIsOwn, given
    <2>2. CASE ~(writer[v].pc = "replacing" /\ writer[v].stamp \notin shared)
      BY <2>2 DEF StampIsOwn, given
    <2>3. QED BY <2>1, <2>2
  <1>7. PromiseKept' BY DEF IInv, PromiseKept
  <1>8. QED BY <1>2, <1>3, <1>4, <1>5, <1>6, <1>7 DEF IInv
-----------------------------------------------------------------------------
(* The actions.                                                            *)

LEMMA InitHolds == Init => IInv
  <1> SUFFICES ASSUME Init PROVE IInv OBVIOUS
  <1>1. Idle \in Calls /\ NothingRead \in Copies /\ NoFile \in Files
    BY DEF Idle, NothingRead, NoFile, Text, Calls, Copies, Files
  <1>2. Types BY <1>1 DEF Init, Types
  <1>3. \A w \in Writers : writer[w] = Idle BY DEF Init
  <1>4. \A r \in Readers : reader[r] = NothingRead BY DEF Init
  <1>5. FileIsKnown BY DEF Init, FileIsKnown, NoFile, Text
  <1>6. \A w \in Writers : CallIsSound(writer[w]) /\ StampIsOwn(w)
    BY <1>3 DEF Init, Idle, CallIsSound, StampIsOwn, HasRead
  <1>7. \A r \in Readers : CopyIsSound(reader[r])
    BY <1>4 DEF Init, NothingRead, NoFile, Text, CopyIsSound
  <1>8. PromiseKept BY DEF Init, PromiseKept
  <1>9. QED BY <1>2, <1>5, <1>6, <1>7, <1>8 DEF IInv

\* A call that is not under way has nothing to be sound about.
LEMMA IdleIsSound ==
    ASSUME IInv
    PROVE  Idle \in Calls /\ CallIsSound(Idle) /\ Idle.pc = "idle" /\ ~HasRead(Idle)
  <1>1. Idle \in Calls BY DEF Idle, Calls
  <1>2. Idle.pc = "idle" /\ Idle.now = 0 BY DEF Idle
  <1>3. clock \in Nat BY DEF IInv, Types
  <1>4. QED BY <1>1, <1>2, <1>3 DEF CallIsSound, HasRead

LEMMA BeginStartKeeps ==
    ASSUME IInv, NEW w \in Writers, NEW d \in Durations, BeginStart(w, d)
    PROVE  IInv'
  <1> DEFINE window == [id |-> ops + 1, start |-> clock, end |-> clock + d]
             call   == [Idle EXCEPT !.pc = "reading", !.now = clock, !.new = {window}]
  <1>1. clock \in Nat /\ ops \in Nat /\ d \in Nat
    BY MaintenanceConstants DEF IInv, Types, MaintenanceConstants
  <1>2. window \in Windows BY <1>1 DEF Windows
  <1>3. call \in Calls BY <1>1, <1>2 DEF Calls, Idle
  <1>4. call.pc = "reading" /\ call.now = clock BY DEF Idle
  <1>5. CallIsSound(call) BY <1>1, <1>4 DEF CallIsSound, HasRead
  <1>6. writer' = [writer EXCEPT ![w] = call] BY DEF BeginStart, Enter
  <1>7. ops' \in Nat BY <1>1 DEF BeginStart
  <1>8. UNCHANGED <<clock, file, given, reader, promised>> BY DEF BeginStart
  <1> HIDE DEF call
  <1>9. QED BY <1>3, <1>4, <1>5, <1>6, <1>7, <1>8, CallGoesOn DEF HasRead

LEMMA BeginStopKeeps ==
    ASSUME IInv, NEW w \in Writers, NEW ids \in SUBSET Nat, BeginStop(w, ids)
    PROVE  IInv'
  <1> DEFINE call == [Idle EXCEPT !.pc = "reading", !.now = clock, !.ends = ids]
  <1>1. clock \in Nat /\ ops \in Nat BY DEF IInv, Types
  <1>3. call \in Calls BY <1>1 DEF Calls, Idle
  <1>4. call.pc = "reading" /\ call.now = clock BY DEF Idle
  <1>5. CallIsSound(call) BY <1>1, <1>4 DEF CallIsSound, HasRead
  <1>6. writer' = [writer EXCEPT ![w] = call] BY DEF BeginStop, Enter
  <1>7. ops' \in Nat BY <1>1 DEF BeginStop
  <1>8. UNCHANGED <<clock, file, given, reader, promised>> BY DEF BeginStop
  <1> HIDE DEF call
  <1>9. QED BY <1>3, <1>4, <1>5, <1>6, <1>7, <1>8, CallGoesOn DEF HasRead

LEMMA ReadRecordsKeeps ==
    ASSUME IInv, NEW w \in Writers, ReadRecords(w)
    PROVE  IInv'
  <1> DEFINE call == writer[w]
             next == [call EXCEPT !.pc = "staging", !.seen = file.windows,
                                  !.windows = Changed(call, file.windows)]
  <1>1. call \in Calls /\ file \in Files /\ ops \in Nat /\ stamps \in Nat
    BY DEF IInv, Types
  <1>2. UNCHANGED <<clock, file, given, reader, promised, ops>> BY DEF ReadRecords
  <1>3. CASE writer' = [writer EXCEPT ![w] = Idle]
    BY <1>1, <1>2, <1>3, IdleIsSound, CallGoesOn
  <1>4. CASE writer' = [writer EXCEPT ![w] = next]
    <2>1. file.windows \in SUBSET Windows BY <1>1 DEF Files
    <2>2. next \in Calls BY <1>1, <2>1, ChangedAreWindows DEF Calls, Files
    <2>3. /\ next.pc = "staging" /\ next.seen = file.windows
          /\ next.now = call.now /\ next.new = call.new /\ next.ends = call.ends
          /\ next.windows = Changed(call, file.windows)
      BY <1>1 DEF Calls
    <2>4. next.windows = Changed(next, next.seen) BY <2>3 DEF Changed
    <2>5. CallIsSound(next) BY <2>3, <2>4 DEF IInv, CallIsSound, HasRead
    <2> HIDE DEF next
    <2>6. QED BY <1>1, <1>2, <1>4, <2>2, <2>3, <2>5, CallGoesOn
  <1>5. QED BY <1>3, <1>4 DEF ReadRecords, Enter

LEMMA RefusedKeeps ==
    ASSUME IInv, NEW w \in Writers, Refused(w)
    PROVE  IInv'
  <1> DEFINE call == writer[w]
             next == [call EXCEPT !.tries = @ + 1]
  <1>1. call \in Calls /\ ops \in Nat BY DEF IInv, Types
  <1>2. UNCHANGED <<clock, file, given, reader, promised, ops>> BY DEF Refused
  <1>3. CASE writer' = [writer EXCEPT ![w] = Idle]
    BY <1>1, <1>2, <1>3, IdleIsSound, CallGoesOn
  <1>4. CASE writer' = [writer EXCEPT ![w] = next]
    <2>1. next \in Calls BY <1>1 DEF Calls
    <2>2. /\ next.pc = call.pc /\ next.overtaken = call.overtaken /\ next.seen = call.seen
          /\ next.now = call.now /\ next.new = call.new /\ next.ends = call.ends
          /\ next.windows = call.windows /\ next.stamp = call.stamp
      BY <1>1 DEF Calls
    <2>3. Changed(next, next.seen) = Changed(call, call.seen) BY <2>2 DEF Changed
    <2>4. CallIsSound(next) BY <2>2, <2>3 DEF IInv, CallIsSound, HasRead
    <2>5. call.pc = "replacing" BY DEF Refused
    <2> HIDE DEF next
    <2>6. QED BY <1>1, <1>2, <1>4, <2>1, <2>2, <2>4, <2>5, CallGoesOn DEF HasRead
  <1>5. QED BY <1>3, <1>4 DEF Refused, Enter

LEMMA DiesKeeps ==
    ASSUME IInv, NEW w \in Writers, Dies(w)
    PROVE  IInv'
  BY IdleIsSound, CallGoesOn DEF Dies, Enter, IInv, Types

\* What giving a stamp leaves true: a new one is nobody's, and one that another
\* text has had counts as shared from then on.
LEMMA GivenIsKnown ==
    ASSUME IInv, NEW s \in 1..stamps + 1, Given(s)
    PROVE  /\ stamps' \in Nat /\ stamps <= stamps' /\ s \in 1..stamps'
           /\ shared \subseteq shared'
           /\ s \notin shared' => s = stamps + 1
  <1>1. stamps \in Nat BY DEF IInv, Types
  <1>2. QED BY <1>1 DEF Given

\* Every stamp that is about was given.
LEMMA StampsAreGiven ==
    ASSUME IInv
    PROVE  /\ stamps \in Nat /\ file.stamp \in 0..stamps
           /\ \A r \in Readers : reader[r].stamp \in 0..stamps
           /\ \A v \in Writers : writer[v].pc = "replacing" => writer[v].stamp \in 1..stamps
  BY DEF IInv, Types, FileIsKnown, CopyIsSound, CallIsSound, Files, Copies, Calls

\* The temporary file gets a stamp nobody has seen, or one that counts as shared.
LEMMA StageKeeps ==
    ASSUME IInv, NEW w \in Writers, Stage(w)
    PROVE  IInv'
  <1>1. PICK s \in 1..stamps + 1 :
           Given(s) /\ writer' = [writer EXCEPT ![w] =
                                     [writer[w] EXCEPT !.pc = "replacing", !.stamp = s]]
    BY DEF Stage, Enter
  <1> DEFINE next == [writer[w] EXCEPT !.pc = "replacing", !.stamp = s]
  <1>2. /\ stamps' \in Nat /\ stamps <= stamps' /\ s \in 1..stamps' /\ s \in Nat
        /\ shared \subseteq shared' /\ (s \notin shared' => s = stamps + 1)
        /\ stamps \in Nat /\ file.stamp \in 0..stamps
        /\ \A r \in Readers : reader[r].stamp \in 0..stamps
        /\ \A v \in Writers : writer[v].pc = "replacing" => writer[v].stamp \in 1..stamps
    BY <1>1, GivenIsKnown, StampsAreGiven
  <1>3. UNCHANGED <<clock, file, reader, promised, ops>> BY DEF Stage
  <1>4. writer[w] \in Calls /\ writer[w].pc = "staging" BY DEF IInv, Types, Stage
  <1>5. next \in Calls BY <1>2, <1>4 DEF Calls
  <1>6. /\ next.pc = "replacing" /\ next.stamp = s /\ next.overtaken = writer[w].overtaken
        /\ next.seen = writer[w].seen /\ next.now = writer[w].now
        /\ next.new = writer[w].new /\ next.ends = writer[w].ends
        /\ next.windows = writer[w].windows
    BY <1>4 DEF Calls
  <1>7. Changed(next, next.seen) = Changed(writer[w], writer[w].seen)
    BY <1>6 DEF Changed
  <1> HIDE DEF next
  <1>8. \A v \in Writers : writer'[v] = IF v = w THEN next ELSE writer[v]
    BY <1>1 DEF IInv, Types, next
  <1>9. Types' BY <1>1, <1>2, <1>3, <1>5 DEF IInv, Types, next
  <1>10. FileIsKnown' BY <1>2, <1>3 DEF IInv, FileIsKnown, NoFile, Text
  <1>11. ASSUME NEW v \in Writers PROVE CallIsSound(writer[v])'
    <2>1. CallIsSound(writer[v]) BY DEF IInv
    <2>2. CASE v = w
      <3>1. HasRead(writer[w]) BY <1>4 DEF HasRead
      <3>2. QED BY <2>1, <2>2, <3>1, <1>2, <1>3, <1>6, <1>7, <1>8
              DEF CallIsSound, HasRead, Changed, Kept, Stopped, Ended, Active
    <2>3. CASE v # w
      <3>1. writer[v].pc = "replacing" => writer[v].stamp \in 1..stamps' BY <1>2
      <3>2. QED BY <2>1, <2>3, <3>1, <1>3, <1>8
              DEF CallIsSound, HasRead, Changed, Kept, Stopped, Ended, Active
    <2>4. QED BY <2>2, <2>3
  <1>12. \A r \in Readers : CopyIsSound(reader[r])'
    BY <1>2, <1>3 DEF IInv, CopyIsSound
  <1>13. ASSUME NEW v \in Writers PROVE StampIsOwn(v)'
    <2>1. CASE v = w BY <2>1, <1>2, <1>3, <1>6, <1>8 DEF StampIsOwn
    <2>2. CASE v # w
      <3>1. StampIsOwn(v) BY DEF IInv
      <3>2. ASSUME writer[v].pc = "replacing", writer[v].stamp \notin shared'
            PROVE  writer[v].stamp # s
        <4>1. CASE s \notin shared' BY <4>1, <3>2, <1>2
        <4>2. CASE s \in shared' BY <4>2, <3>2
        <4>3. QED BY <4>1, <4>2
      <3>3. QED BY <2>2, <3>1, <3>2, <1>2, <1>3, <1>4, <1>6, <1>8 DEF StampIsOwn
    <2>3. QED BY <2>1, <2>2
  <1>14. PromiseKept' BY <1>3 DEF IInv, PromiseKept
  <1>15. QED BY <1>9, <1>10, <1>11, <1>12, <1>13, <1>14 DEF IInv

\* A change of the file leaves every call what it was, but overtaken.
LEMMA UnderIsSound ==
    ASSUME IInv, NEW v \in Writers
    PROVE  /\ ChangedUnder \in [Writers -> Calls]
           /\ ChangedUnder[v].pc = writer[v].pc /\ ChangedUnder[v].stamp = writer[v].stamp
           /\ ChangedUnder[v].now = writer[v].now
           /\ HasRead(writer[v]) =>
                 /\ ChangedUnder[v].overtaken
                 /\ ChangedUnder[v].windows = Changed(ChangedUnder[v], ChangedUnder[v].seen)
  <1>1. \A u \in Writers : writer[u] \in Calls BY DEF IInv, Types
  <1>2. \A u \in Writers : [writer[u] EXCEPT !.overtaken = TRUE] \in Calls
    BY <1>1 DEF Calls
  <1>3. CallIsSound(writer[v]) /\ ChangedUnder \in [Writers -> Calls]
    BY <1>1, <1>2 DEF IInv, ChangedUnder
  <1>4. CASE HasRead(writer[v])
    <2>1. ChangedUnder[v] = [writer[v] EXCEPT !.overtaken = TRUE]
      BY <1>4 DEF ChangedUnder, HasRead
    <2>2. /\ ChangedUnder[v].pc = writer[v].pc /\ ChangedUnder[v].stamp = writer[v].stamp
          /\ ChangedUnder[v].now = writer[v].now /\ ChangedUnder[v].new = writer[v].new
          /\ ChangedUnder[v].ends = writer[v].ends /\ ChangedUnder[v].seen = writer[v].seen
          /\ ChangedUnder[v].windows = writer[v].windows /\ ChangedUnder[v].overtaken
      BY <1>1, <2>1 DEF Calls
    <2>3. Changed(ChangedUnder[v], writer[v].seen) = Changed(writer[v], writer[v].seen)
      BY <2>2 DEF Changed
    <2>4. QED BY <1>3, <1>4, <2>2, <2>3 DEF CallIsSound
  <1>5. CASE ~HasRead(writer[v])
    <2>1. ChangedUnder[v] = writer[v] BY <1>5 DEF ChangedUnder, HasRead
    <2>2. QED BY <1>3, <1>5, <2>1
  <1>6. QED BY <1>4, <1>5

\* What a call answers is in what it writes, while it is worth keeping.
LEMMA AnswerIsWritten ==
    ASSUME NEW call \in Calls, NEW p \in Windows,
           p \in Acknowledged(call), call.now - p.end <= KeepEnded
    PROVE  p \in Changed(call, call.seen)
  BY DEF Acknowledged, Changed, Kept

\* A window the call read and says nothing about stays in what it writes.
LEMMA OthersAreWritten ==
    ASSUME NEW call \in Calls, NEW p \in Windows, p \in call.seen,
           \A q \in Acknowledged(call) : q.id # p.id, call.now - p.end <= KeepEnded
    PROVE  p \in Changed(call, call.seen)
  <1> DEFINE hit == Stopped(call.seen, call.ends, call.now)
  <1>1. hit \in SUBSET Windows /\ call.now \in Nat BY DEF Stopped, Calls
  <1>2. p \notin hit BY <1>1, EndedAreWindows DEF Acknowledged
  <1>3. QED BY <1>2 DEF Changed, Kept

LEMMA ReplaceKeeps ==
    ASSUME IInv, NEW w \in Writers, Replace(w)
    PROVE  IInv'
  <1> DEFINE call == writer[w]
  <1>1. /\ call \in Calls /\ stamps \in Nat /\ file \in Files /\ clock \in Nat
        /\ \A r \in Readers : reader[r] \in Copies
        /\ \A v \in Writers : writer[v] \in Calls
        /\ promised \subseteq Windows
    BY DEF IInv, Types
  <1>2. UNCHANGED <<clock, given, reader, ops>> BY DEF Replace
  <1>3. /\ call.pc = "replacing" /\ HasRead(call) /\ call.now <= clock
        /\ call.stamp \in 1..stamps /\ call.windows = Changed(call, call.seen)
        /\ ~call.overtaken => call.seen = file.windows
        /\ call.now \in Nat /\ call.seen \subseteq Windows /\ call.new \subseteq Windows
        /\ call.windows \subseteq Windows
    BY <1>1 DEF Replace, IInv, CallIsSound, HasRead, Calls
  <1>4. file' = Text(call.stamp, call.windows) BY DEF Replace
  <1>5. /\ file'.stamp = call.stamp /\ file'.windows = call.windows /\ file' \in Files
    BY <1>1, <1>3, <1>4 DEF Text, Files
  <1>6. writer' = [ChangedUnder EXCEPT ![w] = Idle] /\ writer' \in [Writers -> Calls]
    BY UnderIsSound, IdleIsSound DEF Replace
  <1>7. \A v \in Writers : writer'[v] = IF v = w THEN Idle ELSE ChangedUnder[v]
    BY <1>6, UnderIsSound
  <1>8. promised' = Acknowledged(call) \cup {p \in promised :
                        /\ \A q \in Acknowledged(call) : q.id # p.id
                        /\ ~call.overtaken \/ p \in call.seen}
    BY DEF Replace
  <1>9. Acknowledged(call) \subseteq Windows
    <2>1. Stopped(call.seen, call.ends, call.now) \in SUBSET Windows
      BY <1>3 DEF Stopped
    <2>2. QED BY <1>3, <2>1, EndedAreWindows DEF Acknowledged
  <1>10. StampIsOwn(w) /\ Idle \in Calls /\ Idle.pc = "idle" /\ ~HasRead(Idle)
    BY IdleIsSound DEF IInv
  <1> HIDE DEF call
  <1>11. Types' BY <1>1, <1>2, <1>5, <1>6, <1>8, <1>9 DEF IInv, Types, given
  <1>12. FileIsKnown' BY <1>1, <1>2, <1>3, <1>5 DEF FileIsKnown, given
  <1>13. ASSUME NEW v \in Writers PROVE CallIsSound(writer[v])'
    <2>1. CASE v = w
      BY <2>1, <1>1, <1>2, <1>7, IdleIsSound DEF CallIsSound, HasRead
    <2>2. CASE v # w
      <3>1. CallIsSound(writer[v]) BY DEF IInv
      <3>2. writer'[v] = ChangedUnder[v] BY <2>2, <1>7
      <3>3. HasRead(writer[v]) <=> HasRead(writer'[v]) BY <3>2, UnderIsSound DEF HasRead
      <3>4. QED BY <3>1, <3>2, <3>3, <1>2, UnderIsSound
              DEF CallIsSound, given, Changed, Kept, Stopped, Ended, Active
    <2>3. QED BY <2>1, <2>2
  <1>14. \A r \in Readers : CopyIsSound(reader[r])'
    BY <1>2, <1>3, <1>5, <1>10 DEF IInv, CopyIsSound, StampIsOwn, call, given
  <1>15. ASSUME NEW v \in Writers PROVE StampIsOwn(v)'
    <2>1. CASE v = w BY <2>1, <1>7, <1>10 DEF StampIsOwn
    <2>2. CASE v # w
      <3>1. StampIsOwn(v) BY DEF IInv
      <3>2. \A u \in Writers : writer'[u].pc = "replacing" =>
               writer[u].pc = "replacing" /\ writer'[u].stamp = writer[u].stamp
        BY <1>7, <1>10, UnderIsSound
      <3>3. QED BY <2>2, <3>1, <3>2, <1>2, <1>3, <1>5 DEF StampIsOwn, given, call
    <2>3. QED BY <2>1, <2>2
  <1>16. ASSUME NEW p \in promised', clock - p.end <= KeepEnded PROVE p \in call.windows
    <2>1. p \in Windows /\ p.end \in Nat BY <1>1, <1>8, <1>9 DEF Windows
    <2>2. call.now - p.end <= KeepEnded
      BY <1>1, <1>3, <1>16, <2>1, MaintenanceConstants DEF MaintenanceConstants
    <2>3. CASE p \in Acknowledged(call) BY <1>1, <1>3, <2>1, <2>2, <2>3, AnswerIsWritten DEF call
    <2>4. CASE p \notin Acknowledged(call)
      <3>1. p \in promised /\ \A q \in Acknowledged(call) : q.id # p.id
        BY <2>4, <1>8
      <3>2. p \in file.windows BY <1>16, <3>1 DEF IInv, PromiseKept
      <3>3. p \in call.seen BY <2>4, <1>3, <1>8, <3>2
      <3>4. QED BY <1>1, <1>3, <2>1, <2>2, <3>1, <3>3, OthersAreWritten DEF call
    <2>5. QED BY <2>3, <2>4
  <1>17. PromiseKept' BY <1>2, <1>5, <1>16 DEF PromiseKept
  <1>18. QED BY <1>11, <1>12, <1>13, <1>14, <1>15, <1>17 DEF IInv
LEMMA NoticeKeeps ==
    ASSUME IInv, NEW r \in Readers, Notice(r)
    PROVE  IInv'
  <1> DEFINE next == [reader[r] EXCEPT !.pc = "loading", !.stamp = file.stamp]
  <1>1. reader[r] \in Copies /\ file \in Files /\ stamps \in Nat BY DEF IInv, Types
  <1>2. UNCHANGED <<clock, file, given, writer, promised, ops>> BY DEF Notice
  <1>3. CASE file = NoFile
    <2>1. reader' = [reader EXCEPT ![r] = NothingRead] BY <1>3 DEF Notice, Keep
    <2>2. NothingRead \in Copies /\ CopyIsSound(NothingRead) /\ NothingRead.stamp = 0
      BY <1>1, <1>3 DEF NothingRead, Copies, CopyIsSound, NoFile, Text
    <2>3. QED BY <1>2, <2>1, <2>2, CopyGoesOn
  <1>4. CASE file # NoFile
    <2>1. reader' = [reader EXCEPT ![r] = next] BY <1>4 DEF Notice, Keep
    <2>2. next \in Copies /\ next.pc = "loading" /\ next.stamp = file.stamp
      BY <1>1 DEF Copies, Files
    <2>3. file.stamp # 0 /\ file.stamp <= stamps BY <1>4 DEF IInv, FileIsKnown
    <2>4. CopyIsSound(next) BY <2>2, <2>3 DEF CopyIsSound
    <2> HIDE DEF next
    <2>5. QED BY <1>2, <2>1, <2>2, <2>4, CopyGoesOn
  <1>5. QED BY <1>3, <1>4

LEMMA LoadKeeps ==
    ASSUME IInv, NEW r \in Readers, Load(r)
    PROVE  IInv'
  <1> DEFINE copy == reader[r]
             next == [copy EXCEPT !.pc = "idle", !.error = file.damaged,
                         !.windows = IF file.damaged THEN @ ELSE file.windows]
  <1>1. copy \in Copies /\ file \in Files BY DEF IInv, Types
  <1>2. UNCHANGED <<clock, file, given, writer, promised, ops>> BY DEF Load
  <1>3. reader' = [reader EXCEPT ![r] = next] BY DEF Load, Keep
  <1>4. /\ next \in Copies /\ next.pc = "idle" /\ next.stamp = copy.stamp
        /\ next.error = file.damaged
        /\ ~file.damaged => next.windows = file.windows
    BY <1>1 DEF Copies, Files
  <1>5. copy.pc = "loading" /\ CopyIsSound(copy) BY DEF Load, IInv
  <1>6. CopyIsSound(next) BY <1>4, <1>5 DEF CopyIsSound
  <1> HIDE DEF next
  <1>7. QED BY <1>2, <1>3, <1>4, <1>6, CopyGoesOn

LEMMA ReadFailsKeeps ==
    ASSUME IInv, NEW r \in Readers, ReadFails(r)
    PROVE  IInv'
  <1> DEFINE next == [reader[r] EXCEPT !.pc = "idle", !.error = TRUE]
  <1>1. reader[r] \in Copies BY DEF IInv, Types
  <1>2. UNCHANGED <<clock, file, given, writer, promised, ops>> BY DEF ReadFails
  <1>3. reader' = [reader EXCEPT ![r] = next] BY DEF ReadFails, Keep
  <1>4. /\ next \in Copies /\ next.pc = "idle" /\ next.stamp = reader[r].stamp
        /\ next.error = TRUE /\ next.windows = reader[r].windows
    BY <1>1 DEF Copies
  <1>5. CopyIsSound(next) BY <1>4 DEF IInv, CopyIsSound
  <1> HIDE DEF next
  <1>6. QED BY <1>2, <1>3, <1>4, <1>5, CopyGoesOn

LEMMA RestartsKeeps ==
    ASSUME IInv, NEW r \in Readers, Restarts(r)
    PROVE  IInv'
  <1>1. stamps \in Nat BY DEF IInv, Types
  <1>2. UNCHANGED <<clock, file, given, writer, promised, ops>> BY DEF Restarts
  <1>3. reader' = [reader EXCEPT ![r] = NothingRead] BY DEF Restarts, Keep
  <1>4. NothingRead \in Copies /\ NothingRead.stamp = 0
    BY DEF NothingRead, Copies
  <1>5. CopyIsSound(NothingRead)
    BY <1>1 DEF NothingRead, CopyIsSound, IInv, FileIsKnown, NoFile, Text
  <1>6. QED BY <1>2, <1>3, <1>4, <1>5, CopyGoesOn

\* A hand leaves no file, or one whose stamp nobody has or that counts as shared.
LEMMA ByHandKeeps ==
    ASSUME IInv, NEW damage \in BOOLEAN, ByHand(damage)
    PROVE  IInv'
  <1>1. UNCHANGED <<clock, reader, ops>> /\ promised' = {} /\ writer' = ChangedUnder
    BY DEF ByHand
  <1>2. /\ file' \in Files /\ file'.stamp \in 0..stamps' /\ stamps' \in Nat
        /\ stamps <= stamps' /\ shared \subseteq shared'
        /\ file'.stamp = 0 => file' = NoFile
        /\ file'.stamp \notin shared' => file'.stamp \in {0, stamps + 1}
    <2>1. stamps \in Nat BY StampsAreGiven
    <2>2. ASSUME NEW s \in 1..stamps + 1, Given(s), file' = Rubbish(s)
          PROVE  /\ file' \in Files /\ file'.stamp = s /\ s \in 1..stamps'
                 /\ stamps' \in Nat /\ stamps <= stamps' /\ shared \subseteq shared'
                 /\ s \notin shared' => s = stamps + 1
      BY <2>1, <2>2, GivenIsKnown DEF Rubbish, Files
    <2>3. CASE file' = NoFile /\ UNCHANGED given
      BY <2>1, <2>3 DEF NoFile, Text, Files, given
    <2>4. QED BY <2>1, <2>2, <2>3 DEF ByHand
  <1>3. Types' BY <1>1, <1>2, UnderIsSound DEF IInv, Types, ChangedUnder
  <1>4. FileIsKnown' BY <1>2 DEF FileIsKnown, NoFile, Text
  <1>5. \A v \in Writers : /\ HasRead(writer[v]) <=> HasRead(writer'[v])
                           /\ writer'[v].pc = writer[v].pc
                           /\ writer'[v].stamp = writer[v].stamp
    BY <1>1, UnderIsSound DEF HasRead
  <1>6. ASSUME NEW v \in Writers PROVE CallIsSound(writer[v])'
    <2>1. CallIsSound(writer[v]) BY DEF IInv
    <2>2. writer[v].pc = "replacing" => writer[v].stamp \in 1..stamps'
      BY <1>2, StampsAreGiven
    <2>3. QED BY <2>1, <2>2, <1>1, <1>5, UnderIsSound
            DEF CallIsSound, Changed, Kept, Stopped, Ended, Active
  <1>7. \A r \in Readers : CopyIsSound(reader[r])'
    <2>1. file'.stamp = 0 => file'.windows = {} BY <1>2 DEF NoFile, Text
    <2>2. ASSUME NEW r \in Readers PROVE CopyIsSound(reader[r])'
      <3>1. CopyIsSound(reader[r]) /\ reader'[r] = reader[r] BY <1>1 DEF IInv
      <3>2. reader[r].stamp \in 0..stamps /\ stamps \in Nat BY StampsAreGiven
      <3>3. reader[r].stamp <= stamps' BY <3>2, <1>2
      <3>4. reader[r].stamp = file'.stamp /\ file'.stamp \notin shared' => reader[r].stamp = 0
        BY <3>2, <1>2
      <3>5. QED BY <2>1, <3>1, <3>3, <3>4 DEF CopyIsSound
    <2>3. QED BY <2>2
  <1>8. ASSUME NEW v \in Writers PROVE StampIsOwn(v)'
    <2>1. StampIsOwn(v) BY DEF IInv
    <2>2. ASSUME writer[v].pc = "replacing", writer[v].stamp \notin shared'
          PROVE  writer[v].stamp # file'.stamp
      BY <2>2, <1>2, StampsAreGiven
    <2>3. QED BY <2>1, <2>2, <1>1, <1>2, <1>5 DEF StampIsOwn
  <1>9. PromiseKept' BY <1>1 DEF PromiseKept
  <1>10. QED BY <1>3, <1>4, <1>6, <1>7, <1>8, <1>9 DEF IInv

\* Time that passes only makes windows too old to keep.
LEMMA TickKeeps ==
    ASSUME IInv, Tick
    PROVE  IInv'
  <1>1. clock \in Nat /\ clock' = clock + 1
        /\ UNCHANGED <<file, given, writer, reader, ops, promised>>
    BY DEF IInv, Types, Tick
  <1>2. Types' BY <1>1 DEF IInv, Types, given
  <1>3. FileIsKnown' BY <1>1 DEF IInv, FileIsKnown, NoFile, Text, given
  <1>4. ASSUME NEW v \in Writers PROVE CallIsSound(writer[v])'
    <2>1. CallIsSound(writer[v]) /\ writer[v].now \in Nat BY DEF IInv, Types, Calls
    <2>2. writer[v].now <= clock' BY <1>1, <2>1 DEF CallIsSound
    <2>3. QED BY <1>1, <2>1, <2>2
            DEF CallIsSound, HasRead, given, Changed, Kept, Stopped, Ended, Active
  <1>5. \A r \in Readers : CopyIsSound(reader[r])' BY <1>1 DEF IInv, CopyIsSound, given
  <1>6. \A v \in Writers : StampIsOwn(v)' BY <1>1 DEF IInv, StampIsOwn, given
  <1>7. ASSUME NEW p \in promised, clock' - p.end <= KeepEnded PROVE p \in file.windows
    <2>1. p.end \in Nat BY DEF IInv, Types, Windows
    <2>2. clock - p.end <= KeepEnded
      BY <1>1, <1>7, <2>1, MaintenanceConstants DEF MaintenanceConstants
    <2>3. QED BY <2>2 DEF IInv, PromiseKept
  <1>8. PromiseKept' BY <1>1, <1>7 DEF PromiseKept
  <1>9. QED BY <1>2, <1>3, <1>4, <1>5, <1>6, <1>8 DEF IInv

\* Nothing happens, or only what no part of the invariant looks at.
LEMMA StutterKeeps ==
    ASSUME IInv, UNCHANGED vars
    PROVE  IInv'
  <1>1. UNCHANGED <<clock, file, given, writer, reader, ops, promised>> BY DEF vars
  <1>2. Types' BY <1>1 DEF IInv, Types, given
  <1>3. FileIsKnown' /\ PromiseKept'
    BY <1>1 DEF IInv, FileIsKnown, NoFile, Text, PromiseKept, given
  <1>4. \A w \in Writers : CallIsSound(writer[w])' /\ StampIsOwn(w)'
    BY <1>1 DEF IInv, CallIsSound, StampIsOwn, HasRead, given, Changed, Kept, Stopped, Ended, Active
  <1>5. \A r \in Readers : CopyIsSound(reader[r])' BY <1>1 DEF IInv, CopyIsSound, given
  <1>6. QED BY <1>2, <1>3, <1>4, <1>5 DEF IInv

-----------------------------------------------------------------------------
(* The theorems.                                                           *)

LEMMA NextKeeps == ASSUME IInv, [Next]_vars PROVE IInv'
  <1>1. CASE UNCHANGED vars BY <1>1, StutterKeeps
  <1>2. CASE Next
    <2>1. ASSUME NEW w \in Writers, NEW d \in Durations, BeginStart(w, d) PROVE IInv'
      BY <2>1, BeginStartKeeps
    <2>2. ASSUME NEW w \in Writers, NEW ids \in {1..ops} \cup {{i} : i \in 1..ops},
                 BeginStop(w, ids)
          PROVE  IInv'
      <3>1. ops \in Nat /\ 1..ops \subseteq Nat BY DEF IInv, Types
      <3>2. ids \subseteq 1..ops OBVIOUS
      <3>3. ids \in SUBSET Nat BY <3>1, <3>2
      <3>4. QED BY <2>2, <3>3, BeginStopKeeps
    <2>3. ASSUME NEW w \in Writers,
                 ReadRecords(w) \/ Stage(w) \/ Replace(w) \/ Refused(w) \/ Dies(w)
          PROVE  IInv'
      BY <2>3, ReadRecordsKeeps, StageKeeps, ReplaceKeeps, RefusedKeeps, DiesKeeps
    <2>4. ASSUME NEW r \in Readers, Get(r) \/ ReadFails(r) \/ Restarts(r) PROVE IInv'
      BY <2>4, NoticeKeeps, LoadKeeps, ReadFailsKeeps, RestartsKeeps DEF Get
    <2>5. ASSUME NEW damage \in BOOLEAN, ByHand(damage) PROVE IInv'
      BY <2>5, ByHandKeeps
    <2>6. CASE Tick BY <2>6, TickKeeps
    <2>7. CASE HorizonReached BY <2>7, StutterKeeps DEF HorizonReached
    <2>8. QED BY <1>2, <2>1, <2>2, <2>3, <2>4, <2>5, <2>6, <2>7 DEF Next
  <1>3. QED BY <1>1, <1>2

\* What calls and copies owe to the file under its stamp (maintenance.py:
\* 306-424, compat.py:248-268) holds after any number of steps.
THEOREM InvariantHolds == Spec => []IInv
  <1>1. Init => IInv BY InitHolds
  <1>2. IInv /\ [Next]_vars => IInv' BY NextKeeps
  <1>3. QED BY <1>1, <1>2, PTL DEF Spec

\* A copy whose stamp is the file's is the file, unless another text has had
\* that stamp: ManualWindows.get never pins old windows under a new stamp.
THEOREM TrustedIsFresh == Spec => []CacheFresh
  <1>1. IInv => CacheFresh BY DEF IInv, CopyIsSound, CacheFresh
  <1>2. QED BY <1>1, InvariantHolds, PTL

\* What start_manual and stop_manual answered is in the file until it is old or
\* a call that overlapped, or a hand, undid it.
THEOREM AnswersStand == Spec => []PromiseKept
  <1>1. IInv => PromiseKept BY DEF IInv
  <1>2. QED BY <1>1, InvariantHolds, PTL
=============================================================================
