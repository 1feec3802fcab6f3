--------------------------- MODULE WatchdogProofs ---------------------------
(***************************************************************************)
(* The watchdog for every policy the configuration accepts, every bound,   *)
(* and any interleaving of polls, awaits, crashes, starts and clears:      *)
(* first its types, then its promises about attempts and latches, which    *)
(* follow from IInv, and that IInv is inductive; then that it implements   *)
(* RestartBudget; last its promises about the failure clock, from ClockInv *)
(* in the same way.                                                        *)
(***************************************************************************)
EXTENDS WatchdogInvariant, EventLogProofs

\* The row that records a reading is none of a latch, a clear or an attempt.
LEMMA PollActionType ==
    ASSUME NEW r
    PROVE  PollAction(r) \in PollActions
  BY DEF PollAction, PollActions

LEMMA DeclineType ==
    ASSUME NEW r
    PROVE  Decline(r) \in ({"skipped_watchdog_disabled", "skipped_outside_hours",
             "skipped_needs_attention", "skipped_would_need_attention",
             "waiting_to_restart", "skipped_cooldown", "proceed"})
  BY DEF Decline

-----------------------------------------------------------------------------
(***************************************************************************)
(* Type correctness.                                                       *)
(***************************************************************************)

LEMMA LogTyped ==
    ASSUME TypeOK
    PROVE  events \in Seq(RowType(LogActions))
<1>1. [ts : 0..clock, action : LogActions] \subseteq RowType(LogActions)
  BY WatchdogConstants DEF WatchdogConstants, TypeOK, RowType
<1> QED
  BY <1>1, SeqMonotonic DEF TypeOK

\* Appending a row stamped no later than c keeps a log of such rows.
LEMMA RecordTyped ==
    ASSUME NEW c \in Nat, NEW log \in Seq([ts : 0..c, action : LogActions]),
           NEW t \in 0..c, NEW a \in LogActions
    PROVE  Record(log, t, a) \in Seq([ts : 0..c, action : LogActions])
<1>1. Row(t, a) \in [ts : 0..c, action : LogActions]
  BY DEF Row
<1> QED
  BY <1>1 DEF Record

LEMMA PolledTyped ==
    ASSUME TypeOK, NEW r
    PROVE  Polled(r) \in Seq([ts : 0..clock, action : LogActions])
<1>1. clock \in Nat /\ clock \in 0..clock
  BY WatchdogConstants DEF WatchdogConstants, TypeOK
<1>2. PollAction(r) \in LogActions
  BY PollActionType DEF LogActions
<1> QED
  BY <1>1, <1>2, RecordTyped DEF TypeOK, Polled

LEMMA HydratedType ==
    ASSUME TypeOK
    PROVE  HydratedAttempts(events) \subseteq 0..clock
<1> DEFINE T == [ts : 0..clock, action : LogActions]
<1>0. events \in Seq(T)
  BY DEF TypeOK
<1>1. \A i \in DOMAIN events : events[i] \in T
  <2> HIDE DEF T
  <2> QED
    BY <1>0, ElementOfSeq, LenProperties
<1>2. Times(events, AttemptActions) \subseteq 0..clock
  BY <1>1 DEF Times, Rows
<1> QED
  BY <1>2 DEF HydratedAttempts, Trimmed

LEMMA InitTyped == Init => TypeOK
<1> SUFFICES ASSUME Init PROVE TypeOK
  OBVIOUS
<1>1. events \in Seq([ts : 0..clock, action : LogActions])
  BY EmptySeq DEF Init
<1>2. probe \in [at : 0..clock \cup {NoTime},
                 answer : {"asleep", "awake", "unreadable"}]
  BY DEF Init, NoProbe
<1>3. attempts \subseteq 0..clock /\ lost \subseteq 0..clock
  BY DEF Init
<1>4. /\ clock \in 0..MaxClock /\ pollTime \in 0..clock
      /\ crashes \in 0..MaxCrashes /\ clears \in 0..MaxClears
  BY WatchdogConstants DEF WatchdogConstants, Init
<1>5. /\ polled \in BOOLEAN /\ mode \in Modes /\ latched \in BOOLEAN
      /\ rehearsed \in BOOLEAN /\ pc = "idle"
  BY DEF Init
<1> QED
  BY <1>1, <1>2, <1>3, <1>4, <1>5 DEF TypeOK

LEMMA StepTyped == TypeOK /\ [Next]_vars => TypeOK'
<1> SUFFICES ASSUME TypeOK, [Next]_vars PROVE TypeOK'
  OBVIOUS
<1> USE WatchdogConstants DEF WatchdogConstants
<1>0. clock \in Nat /\ clock \in 0..clock /\ pollTime \in 0..clock
  BY DEF TypeOK
<1>1. ASSUME NEW r \in Readings, Observe(r) PROVE TypeOK'
  BY <1>0, <1>1, PolledTyped DEF Observe, Poll, TypeOK, volatile, bounded
<1>2. ASSUME NEW r \in Readings, DeclineRestart(r) PROVE TypeOK'
  <2>1. Decline(r) \in LogActions
    BY <1>2, DeclineType DEF DeclineRestart, LogActions, FailureActions, ResetActions
  <2>2. events' \in Seq([ts : 0..clock, action : LogActions])
    BY <1>0, <1>2, <2>1, PolledTyped, RecordTyped DEF DeclineRestart
  <2> QED
    BY <1>2, <2>2 DEF DeclineRestart, Poll, TypeOK, volatile, bounded
<1>3. ASSUME NEW r \in Readings, Latch(r) PROVE TypeOK'
  <2>1. events' \in Seq([ts : 0..clock, action : LogActions])
    BY <1>0, <1>3, PolledTyped, RecordTyped DEF Latch, LogActions, FailureActions
  <2> QED
    BY <1>3, <2>1 DEF Latch, Proceeds, Poll, Unexpired, TypeOK, bounded
<1>4. ASSUME NEW r \in Readings, RehearseLatch(r) PROVE TypeOK'
  <2>1. events' \in Seq([ts : 0..clock, action : LogActions])
    BY <1>0, <1>4, PolledTyped, RecordTyped
       DEF RehearseLatch, LogActions, FailureActions
  <2> QED
    BY <1>4, <2>1 DEF RehearseLatch, Proceeds, Poll, Unexpired, TypeOK, bounded
<1>5. ASSUME NEW log \in Seq([ts : 0..clock, action : LogActions]),
             NEW dq \in SUBSET (0..clock), NEW now \in 0..clock,
             Actuate(log, dq, now),
             UNCHANGED <<clock, mode, lost, bounded>>, polled' \in BOOLEAN,
             probe' \in [at : 0..clock \cup {NoTime},
                         answer : {"asleep", "awake", "unreadable"}]
      PROVE  TypeOK'
  <2>1. Record(log, now, "would_restart")
          \in Seq([ts : 0..clock, action : LogActions])
    BY <1>0, RecordTyped DEF LogActions, FailureActions
  <2>2. /\ events' \in Seq([ts : 0..clock, action : LogActions])
        /\ attempts' \subseteq 0..clock
        /\ pc' \in {"idle", "recovering"}
    BY <1>5, <2>1 DEF Actuate
  <2> QED
    BY <1>5, <2>2 DEF Actuate, TypeOK, bounded
<1>6. ASSUME NEW r \in Readings, GoAhead(r) PROVE TypeOK'
  <2>1. Unexpired(attempts, clock) \in SUBSET (0..clock)
    BY DEF Unexpired, TypeOK
  <2> QED
    BY <1>0, <1>5, <1>6, <2>1, PolledTyped
       DEF GoAhead, UnderLimit, Proceeds, Poll, TypeOK
<1>7. ASSUME NEW r \in Readings, HoldAsleep(r) PROVE TypeOK'
  <2>1. events' \in Seq([ts : 0..clock, action : LogActions])
    BY <1>0, <1>7, PolledTyped, RecordTyped DEF HoldAsleep, LogActions, FailureActions
  <2> QED
    BY <1>7, <2>1 DEF HoldAsleep, UnderLimit, Proceeds, Poll, Unexpired, TypeOK, bounded
<1>8. ASSUME NEW r \in Readings, AskPowerMode(r) PROVE TypeOK'
  BY <1>0, <1>8, PolledTyped
     DEF AskPowerMode, UnderLimit, Proceeds, Poll, Unexpired, TypeOK, bounded
<1>9. ASSUME NEW a \in PowerAnswers, PowerAnswered(a) PROVE TypeOK'
  <2>1. probe' \in [at : 0..clock \cup {NoTime},
                    answer : {"asleep", "awake", "unreadable"}]
    BY <1>0, <1>9 DEF PowerAnswered
  <2>2. CASE HoldsBack(a)
    <3>1. Record(events, pollTime, "skipped_asleep")
            \in Seq([ts : 0..clock, action : LogActions])
      BY <1>0, RecordTyped DEF TypeOK, LogActions, FailureActions
    <3> QED
      BY <1>9, <2>1, <2>2, <3>1 DEF PowerAnswered, TypeOK, bounded
  <2>3. CASE ~HoldsBack(a)
    BY <1>0, <1>5, <1>9, <2>1, <2>3 DEF PowerAnswered, TypeOK
  <2> QED
    BY <2>2, <2>3
<1>10. ASSUME NEW o \in Outcomes, Recovered(o) PROVE TypeOK'
  <2>1. events' \in Seq([ts : 0..clock, action : LogActions])
    BY <1>0, <1>10, RecordTyped
       DEF Recovered, TypeOK, LogActions, FailureActions
  <2> QED
    BY <1>0, <1>10, <2>1 DEF Recovered, TypeOK, bounded
<1>11. CASE Tick
  <2>1. [ts : 0..clock, action : LogActions]
          \subseteq [ts : 0..(clock + 1), action : LogActions]
    BY <1>0
  <2>2. events \in Seq([ts : 0..(clock + 1), action : LogActions])
    BY <2>1, SeqMonotonic DEF TypeOK
  <2>3. probe \in [at : 0..(clock + 1) \cup {NoTime},
                   answer : {"asleep", "awake", "unreadable"}]
    BY <1>0 DEF TypeOK
  <2>4. /\ attempts \subseteq 0..(clock + 1) /\ lost \subseteq 0..(clock + 1)
        /\ pollTime \in 0..(clock + 1) /\ clock + 1 \in 0..MaxClock
    BY <1>0, <1>11 DEF TypeOK, Tick
  <2> QED
    BY <1>11, <2>2, <2>3, <2>4 DEF Tick, TypeOK, volatile, bounded
<1>12. CASE Start
  <2>1. attempts' \subseteq 0..clock
    BY <1>12, HydratedType DEF Start, Hydrate
  <2>2. latched' \in BOOLEAN
    BY <1>12 DEF Start, Hydrate, IsNeedsAttention
  <2>3. probe' \in [at : 0..clock \cup {NoTime},
                    answer : {"asleep", "awake", "unreadable"}]
    BY <1>12 DEF Start, Hydrate, NoProbe
  <2> QED
    BY <1>12, <2>1, <2>2, <2>3 DEF Start, Hydrate, TypeOK, bounded
<1>13. CASE Crash
  <2>1. probe' \in [at : 0..clock \cup {NoTime},
                    answer : {"asleep", "awake", "unreadable"}]
    BY <1>13 DEF Crash, Forget, NoProbe
  <2>2. lost' \subseteq 0..clock
    BY <1>13 DEF Crash, TypeOK
  <2>3. crashes' \in 0..MaxCrashes
    BY <1>13 DEF Crash, TypeOK
  <2>4. /\ attempts' \subseteq 0..clock
        /\ latched' \in BOOLEAN /\ rehearsed' \in BOOLEAN
    BY <1>13 DEF Crash, Forget
  <2> QED
    BY <1>13, <2>1, <2>2, <2>3, <2>4 DEF Crash, TypeOK
<1>14. CASE ClearAttention
  <2>1. events' \in Seq([ts : 0..clock, action : LogActions])
    BY <1>0, <1>14, RecordTyped DEF ClearAttention, TypeOK, LogActions
  <2> QED
    BY <1>14, <2>1 DEF ClearAttention, TypeOK, volatile
<1>15. CASE HorizonReached \/ UNCHANGED vars
  BY <1>15 DEF HorizonReached, vars, volatile, bounded, TypeOK
<1> QED
  BY <1>1, <1>2, <1>3, <1>4, <1>6, <1>7, <1>8, <1>9, <1>10, <1>11, <1>12,
     <1>13, <1>14, <1>15
     DEF Next, PollStep, AwaitStep

\* The values every variable takes: no row, attempt or probe is younger than
\* the clock, and only actions the code writes are in the log.
THEOREM TypeCorrect == Spec => []TypeOK
BY InitTyped, StepTyped, PTL DEF Spec

-----------------------------------------------------------------------------
(***************************************************************************)
(* The deque.                                                              *)
(***************************************************************************)

\* Sets of times are finite, and so is every part of them.
LEMMA FiniteTimes ==
    ASSUME NEW n \in Nat, NEW S \in SUBSET (0..n), NEW T \in SUBSET S
    PROVE  /\ IsFiniteSet(S) /\ IsFiniteSet(T)
           /\ Cardinality(S) \in Nat /\ Cardinality(T) \in Nat
           /\ Cardinality(T) <= Cardinality(S)
<1>1. IsFiniteSet(0..n)
  BY FS_Interval
<1>2. IsFiniteSet(S)
  BY <1>1, FS_Subset
<1> QED
  BY <1>2, FS_Subset, FS_CardinalityType

\* _trim_after_clear never drops the newest attempt.
LEMMA TrimmedKeeps ==
    ASSUME NEW n \in Nat, NEW S \in SUBSET (0..n), NEW t \in S
    PROVE  \E a \in Trimmed(S) : t <= a
<1>1. PICK m \in S : \A x \in S : x <= m
  BY LastEntry
<1>2. {u \in S : u > m} = {}
  <2>1. \A u \in S : u \in Nat
    OBVIOUS
  <2>2. \A u \in S : ~(u > m)
    BY <1>1, <2>1
  <2> QED
    BY <2>2
<1>3. Cardinality({u \in S : u > m}) = 0
  BY <1>2, FS_EmptySet
<1>4. m \in Trimmed(S)
  <2>1. 0 < (IF MaxRestarts = 1 THEN 1 ELSE MaxRestarts - 1)
    BY WatchdogConstants DEF WatchdogConstants
  <2> QED
    BY <1>3, <2>1 DEF Trimmed
<1> QED
  BY <1>1, <1>4

\* Outside a cooldown, every attempt in the deque is Cooldown old.
LEMMA CooledDown ==
    ASSUME TypeOK, ~CoolingDown(clock), NEW a \in attempts
    PROVE  clock - a >= Cooldown
<1>1. clock \in Nat /\ attempts \in SUBSET (0..clock) /\ Cooldown \in Nat
  BY WatchdogConstants DEF WatchdogConstants, TypeOK
<1>2. PICK m \in attempts : \A x \in attempts : x <= m
  BY <1>1, LastEntry
<1>3. ~(clock - m < Cooldown)
  BY <1>2 DEF CoolingDown
<1> QED
  BY <1>1, <1>2, <1>3

-----------------------------------------------------------------------------
(***************************************************************************)
(* Rows that decide nothing: readings, refusals, waits and rehearsals.     *)
(***************************************************************************)

Decisive == AttemptActions \cup {"needs_attention", "attention_cleared"}

SameDecisions(log1, log2) ==
    /\ \A A \in SUBSET Decisive : Rows(log2, A) = Rows(log1, A)
    /\ \A i \in Rows(log1, Decisive) : log2[i] = log1[i]

LEMMA PlainRecord ==
    ASSUME NEW log \in Seq(RowType(LogActions)), NEW t \in Nat,
           NEW a \in LogActions \ Decisive
    PROVE  SameDecisions(log, Record(log, t, a))
<1>1. ASSUME NEW A \in SUBSET Decisive
      PROVE  Rows(Record(log, t, a), A) = Rows(log, A)
  <2>1. a \notin A
    OBVIOUS
  <2> QED
    BY <2>1, RecordRows
<1>2. \A i \in DOMAIN log : Record(log, t, a)[i] = log[i]
  BY RecordRows
<1>3. Rows(log, Decisive) \subseteq DOMAIN log
  BY DEF Rows
<1> QED
  BY <1>1, <1>2, <1>3 DEF SameDecisions

LEMMA SameDecisionsTransitive ==
    ASSUME NEW l1, NEW l2, NEW l3, SameDecisions(l1, l2), SameDecisions(l2, l3)
    PROVE  SameDecisions(l1, l3)
<1>1. Decisive \in SUBSET Decisive
  OBVIOUS
<1> QED
  BY <1>1 DEF SameDecisions

LEMMA SameAnswers ==
    ASSUME NEW l1, NEW l2, SameDecisions(l1, l2)
    PROVE  /\ Times(l2, AttemptActions) = Times(l1, AttemptActions)
           /\ IsNeedsAttention(l2) <=> IsNeedsAttention(l1)
           /\ \A A \in SUBSET Decisive : Rows(l2, A) = Rows(l1, A)
           /\ \A A \in SUBSET Decisive : \A i \in Rows(l1, A) : l2[i] = l1[i]
<1>1. /\ AttemptActions \in SUBSET Decisive
      /\ {"needs_attention"} \in SUBSET Decisive
      /\ {"attention_cleared"} \in SUBSET Decisive
  BY DEF Decisive
<1>2. \A A \in SUBSET Decisive : Rows(l2, A) = Rows(l1, A)
  BY DEF SameDecisions
<1>3. ASSUME NEW A \in SUBSET Decisive, NEW i \in Rows(l1, A)
      PROVE  l2[i] = l1[i]
  <2>1. i \in Rows(l1, Decisive)
    BY <1>3 DEF Rows
  <2> QED
    BY <2>1 DEF SameDecisions
<1>4. Times(l2, AttemptActions) = Times(l1, AttemptActions)
  BY <1>1, <1>2, <1>3 DEF Times
<1>5. IsNeedsAttention(l2) <=> IsNeedsAttention(l1)
  BY <1>1, <1>2, <1>3 DEF IsNeedsAttention, Older
<1> QED
  BY <1>2, <1>3, <1>4, <1>5

\* Rows grow by the new row's id exactly for the action sets it belongs to.
LEMMA DecisiveRecord ==
    ASSUME NEW log \in Seq(RowType(LogActions)), NEW t \in Nat, NEW a \in LogActions
    PROVE  LET log2 == Record(log, t, a)
               i0   == Len(log) + 1
           IN  /\ \A A : a \in A => Rows(log2, A) = Rows(log, A) \cup {i0}
               /\ \A A : a \notin A => Rows(log2, A) = Rows(log, A)
               /\ \A i \in DOMAIN log : log2[i] = log[i]
               /\ log2[i0] = Row(t, a)
               /\ DOMAIN log = 1..Len(log) /\ Len(log) \in Nat
<1>1. DOMAIN log = 1..Len(log) /\ Len(log) \in Nat
  OBVIOUS
<1>2. \A A : Rows(Record(log, t, a), A) =
                IF a \in A THEN Rows(log, A) \cup {Len(log) + 1}
                          ELSE Rows(log, A)
  BY RecordRows
<1>3. /\ \A i \in DOMAIN log : Record(log, t, a)[i] = log[i]
      /\ Record(log, t, a)[Len(log) + 1] = Row(t, a)
  BY RecordRows
<1> QED
  BY <1>1, <1>2, <1>3

\* The three kinds of decisive rows are told apart by their action.
LEMMA DisjointActions ==
    /\ "needs_attention" \notin AttemptActions
    /\ "attention_cleared" \notin AttemptActions
    /\ \A o \in AttemptActions : /\ o \notin {"needs_attention"}
                                /\ o \notin {"attention_cleared"}
    /\ "needs_attention" \notin {"attention_cleared"}
    /\ "attention_cleared" \notin {"needs_attention"}
BY DEF AttemptActions

\* A step that records nothing decisive leaves every promise about the log
\* where it was.
LEMMA PlainStep ==
    ASSUME SameDecisions(events, events')
    PROVE  /\ Attempts' = Attempts
           /\ Cleared' <=> Cleared
           /\ IsNeedsAttention(events)' <=> IsNeedsAttention(events)
           /\ AttemptsSpaced => AttemptsSpaced'
           /\ RateLimited => RateLimited'
           /\ LatchEarned => LatchEarned'
<1>1. /\ AttemptActions \in SUBSET Decisive
      /\ {"needs_attention"} \in SUBSET Decisive
      /\ {"attention_cleared"} \in SUBSET Decisive
  BY DEF Decisive
<1>2. /\ Attempts' = Attempts
      /\ IsNeedsAttention(events)' <=> IsNeedsAttention(events)
  BY SameAnswers DEF Attempts
<1>3. /\ \A A \in SUBSET Decisive : Rows(events', A) = Rows(events, A)
      /\ \A A \in SUBSET Decisive : \A i \in Rows(events, A) :
            events'[i] = events[i]
  BY SameAnswers
<1>4. Cleared' <=> Cleared
  BY <1>1, <1>3 DEF Cleared
<1>5. AttemptsSpaced => AttemptsSpaced'
  BY <1>1, <1>3 DEF AttemptsSpaced
<1>6. RateLimited => RateLimited'
  BY <1>1, <1>2, <1>3 DEF RateLimited
<1>7. LatchEarned => LatchEarned'
  BY <1>1, <1>2, <1>3 DEF LatchEarned
<1> QED
  BY <1>2, <1>4, <1>5, <1>6, <1>7

-----------------------------------------------------------------------------
(***************************************************************************)
(* What a reader of the invariant may assume about its numbers.            *)
(***************************************************************************)

LEMMA Numbers ==
    ASSUME TypeOK
    PROVE  /\ clock \in Nat /\ pollTime \in Nat /\ pollTime <= clock
           /\ Cooldown \in Nat /\ RateWindow \in Nat /\ MaxRestarts \in Nat
           /\ MaxRestarts >= 1
           /\ attempts \in SUBSET (0..clock) /\ Attempts \in SUBSET (0..clock)
           /\ \A i \in DOMAIN events : events[i].ts \in 0..clock
           /\ events \in Seq(RowType(LogActions))
<1>1. /\ clock \in Nat /\ pollTime \in Nat /\ pollTime <= clock
      /\ Cooldown \in Nat /\ RateWindow \in Nat /\ MaxRestarts \in Nat
      /\ MaxRestarts >= 1
      /\ attempts \in SUBSET (0..clock)
  BY WatchdogConstants DEF WatchdogConstants, TypeOK
<1> DEFINE T == [ts : 0..clock, action : LogActions]
<1>2. events \in Seq(T)
  BY DEF TypeOK
<1>3. \A i \in DOMAIN events : events[i] \in T
  <2> HIDE DEF T
  <2> QED
    BY <1>2, ElementOfSeq, LenProperties
<1>4. Attempts \in SUBSET (0..clock)
  BY <1>3 DEF Attempts, Times, Rows
<1> QED
  BY <1>1, <1>3, <1>4, LogTyped

\* A poll that reaches the limit check holds no latch, and every attempt ever
\* recorded has cooled down.
LEMMA Proceeded ==
    ASSUME IInv, NEW r, Proceeds(r)
    PROVE  /\ pc = "idle" /\ ~latched
           /\ \A t \in Attempts : clock - t >= Cooldown
<1>1. TypeOK /\ NewestIsKept
  BY DEF IInv
<1>2. /\ pc = "idle" /\ ~latched /\ ~CoolingDown(clock)
  BY DEF Proceeds, Poll, Decline
<1>3. \A a \in attempts : clock - a >= Cooldown
  BY <1>1, <1>2, CooledDown
<1>4. ASSUME NEW t \in Attempts, NEW a \in attempts, t <= a
      PROVE  clock - t >= Cooldown
  <2>1. clock - a >= Cooldown
    BY <1>3
  <2>2. clock \in Nat /\ Cooldown \in Nat /\ t \in Nat /\ a \in Nat
    BY <1>1, Numbers
  <2> QED
    BY <1>4, <2>1, <2>2
<1> QED
  BY <1>1, <1>2, <1>4 DEF NewestIsKept, Running

-----------------------------------------------------------------------------
(***************************************************************************)
(* Polls that record nothing decisive.                                     *)
(***************************************************************************)

LEMMA PolledPlain ==
    ASSUME TypeOK, NEW r
    PROVE  /\ SameDecisions(events, Polled(r))
           /\ Polled(r) \in Seq(RowType(LogActions))
<1>1. PollAction(r) \in LogActions \ Decisive
  BY PollActionType DEF PollActions, LogActions, Decisive, AttemptActions
<1>2. events \in Seq(RowType(LogActions)) /\ clock \in Nat
  BY Numbers
<1> QED
  BY <1>1, <1>2, PlainRecord, RecordRows DEF Polled

\* A step that the watchdog only sees a reading written of, or nothing.
Unjudged(r) == /\ events' \in {events, Polled(r)}
               /\ UNCHANGED <<clock, mode, pc, pollTime, attempts, latched>>

\* It leaves the invariant as it was.
LEMMA UnjudgedKeeps ==
    ASSUME IInv, TypeOK', NEW r, Unjudged(r)
    PROVE  IInv'
<1>1. SameDecisions(events, events')
  BY PolledPlain DEF IInv, SameDecisions, Unjudged
<1> QED
  BY <1>1, PlainStep
     DEF Unjudged, IInv, DequeIsBacked, NewestIsKept, WindowIsKept, LatchIsKept,
         FunnelStillHolds, Running, InFlight

LEMMA ObserveKeeps ==
    ASSUME IInv, TypeOK', NEW r \in Readings, Observe(r)
    PROVE  IInv'
BY UnjudgedKeeps DEF Unjudged, Observe, Poll, volatile

LEMMA DeclineKeeps ==
    ASSUME IInv, TypeOK', NEW r \in Readings, DeclineRestart(r)
    PROVE  IInv'
<1>1. Decline(r) \in LogActions \ Decisive
  BY DeclineType
     DEF DeclineRestart, LogActions, FailureActions, ResetActions, Decisive,
         AttemptActions
<1>2. SameDecisions(events, events')
  BY <1>1, PolledPlain, PlainRecord, SameDecisionsTransitive, Numbers
     DEF IInv, DeclineRestart
<1>3. UNCHANGED <<clock, mode, pc, pollTime, attempts, latched>>
  BY DEF DeclineRestart, Poll, volatile
<1> QED
  BY <1>2, <1>3, PlainStep
     DEF IInv, DequeIsBacked, NewestIsKept, WindowIsKept, LatchIsKept,
         FunnelStillHolds, Running, InFlight

\* Eviction drops attempts the window has left and no cooldown still needs.
LEMMA EvictionKeeps ==
    ASSUME IInv, NEW r, Proceeds(r)
    PROVE  /\ mode.live => Unexpired(attempts, clock) \subseteq Attempts
           /\ \A t \in Attempts : clock - t >= Cooldown
           /\ ~Cleared => \A t \in Attempts :
                 clock - t <= RateWindow => t \in Unexpired(attempts, clock)
<1>1. pc = "idle" /\ \A t \in Attempts : clock - t >= Cooldown
  BY Proceeded
<1> QED
  BY <1>1 DEF IInv, Unexpired, DequeIsBacked, WindowIsKept, Running

LEMMA HoldAsleepKeeps ==
    ASSUME IInv, TypeOK', NEW r \in Readings, HoldAsleep(r)
    PROVE  IInv'
<1>0. Proceeds(r) /\ TypeOK
  BY DEF HoldAsleep, UnderLimit, IInv
<1>1. SameDecisions(events, events')
  <2>1. "skipped_asleep" \in LogActions \ Decisive
    BY DEF LogActions, FailureActions, Decisive, AttemptActions
  <2> QED
    BY <1>0, <2>1, PolledPlain, PlainRecord, SameDecisionsTransitive, Numbers
       DEF HoldAsleep
<1>2. /\ UNCHANGED <<clock, mode, pc, pollTime, latched>>
      /\ attempts' = Unexpired(attempts, clock)
  BY DEF HoldAsleep, UnderLimit, Proceeds, Poll
<1> QED
  BY <1>0, <1>1, <1>2, PlainStep, Proceeded, EvictionKeeps
     DEF IInv, DequeIsBacked, NewestIsKept, WindowIsKept, LatchIsKept,
         FunnelStillHolds, Running, InFlight

LEMMA RehearseLatchKeeps ==
    ASSUME IInv, TypeOK', NEW r \in Readings, RehearseLatch(r)
    PROVE  IInv'
<1>0. Proceeds(r) /\ TypeOK
  BY DEF RehearseLatch, IInv
<1>1. SameDecisions(events, events')
  <2>1. "would_need_attention" \in LogActions \ Decisive
    BY DEF LogActions, FailureActions, Decisive, AttemptActions
  <2> QED
    BY <1>0, <2>1, PolledPlain, PlainRecord, SameDecisionsTransitive, Numbers
       DEF RehearseLatch
<1>2. /\ UNCHANGED <<clock, mode, pc, pollTime, latched>>
      /\ attempts' = Unexpired(attempts, clock)
  BY DEF RehearseLatch, Proceeds, Poll
<1> QED
  BY <1>0, <1>1, <1>2, PlainStep, Proceeded, EvictionKeeps
     DEF IInv, DequeIsBacked, NewestIsKept, WindowIsKept, LatchIsKept,
         FunnelStillHolds, Running, InFlight

-----------------------------------------------------------------------------
(***************************************************************************)
(* The two awaits: what the funnel established is carried across them.     *)
(***************************************************************************)

\* The attempts of the window ending at now.
Recent(now) == {t \in Attempts : now - t <= RateWindow}

\* Below the limit, fewer than MaxRestarts attempts fall in the window.
LEMMA RecentUnderLimit ==
    ASSUME IInv, NEW r, Proceeds(r), ~AtLimit(clock), ~Cleared
    PROVE  Cardinality(Recent(clock)) < MaxRestarts
<1>0. TypeOK
  BY DEF IInv
<1>1. Recent(clock) \subseteq Unexpired(attempts, clock)
  BY EvictionKeeps DEF Recent
<1>2. /\ Unexpired(attempts, clock) \in SUBSET (0..clock)
      /\ clock \in Nat /\ MaxRestarts \in Nat
  BY <1>0, Numbers DEF Unexpired
<1>3. /\ Cardinality(Recent(clock)) <= Cardinality(Unexpired(attempts, clock))
      /\ Cardinality(Recent(clock)) \in Nat
      /\ Cardinality(Unexpired(attempts, clock)) \in Nat
  BY <1>1, <1>2, FiniteTimes
<1> QED
  BY <1>2, <1>3 DEF AtLimit

LEMMA ActuateKeeps ==
    ASSUME IInv, TypeOK', NEW log \in Seq(RowType(LogActions)), NEW dq,
           NEW now \in 0..clock,
           Actuate(log, dq, now), SameDecisions(events, log),
           UNCHANGED <<clock, mode>>, Running, ~latched,
           mode.live => dq \subseteq Attempts,
           \A t \in Attempts : now - t >= Cooldown,
           \A t \in Attempts : clock - t >= Cooldown \/ \E a \in dq : t <= a,
           ~Cleared => \A t \in Attempts : clock - t <= RateWindow => t \in dq,
           mode.live /\ ~Cleared => Cardinality(Recent(now)) < MaxRestarts
    PROVE  IInv'
<1>1. SameDecisions(events, events')
  <2>1. CASE mode.live
    BY <2>1 DEF Actuate
  <2>2. CASE ~mode.live
    <3>1. "would_restart" \in LogActions \ Decisive
      BY DEF LogActions, FailureActions, Decisive, AttemptActions
    <3>2. now \in Nat
      BY Numbers DEF IInv
    <3> QED
      BY <2>2, <3>1, <3>2, PlainRecord, SameDecisionsTransitive DEF Actuate
  <2> QED
    BY <2>1, <2>2
<1>2. /\ UNCHANGED <<clock, mode, latched>> /\ pollTime' = now
      /\ dq \subseteq attempts'
      /\ pc' \in {"idle", "recovering"}
      /\ mode.live => attempts' = dq
      /\ ~mode.live => pc' = "idle"
  BY DEF Actuate
<1>3. /\ Attempts' = Attempts /\ (Cleared' <=> Cleared)
      /\ IsNeedsAttention(events)' <=> IsNeedsAttention(events)
      /\ AttemptsSpaced' /\ RateLimited' /\ LatchEarned'
  BY <1>1, PlainStep DEF IInv
<1>4. DequeIsBacked' /\ NewestIsKept' /\ WindowIsKept'
  BY <1>2, <1>3 DEF DequeIsBacked, NewestIsKept, WindowIsKept, Running
<1>5. LatchIsKept'
  BY <1>3 DEF IInv, LatchIsKept, Running
<1>6. Recent(now) = {t \in Attempts' : pollTime' - t <= RateWindow}
  BY <1>2, <1>3 DEF Recent
<1>7. FunnelStillHolds'
  BY <1>2, <1>3, <1>6 DEF FunnelStillHolds, InFlight
<1> QED
  BY <1>3, <1>4, <1>5, <1>7 DEF IInv

LEMMA GoAheadKeeps ==
    ASSUME IInv, TypeOK', NEW r \in Readings, GoAhead(r)
    PROVE  IInv'
<1>0. Proceeds(r) /\ TypeOK /\ ~AtLimit(clock)
  BY DEF GoAhead, UnderLimit, IInv
<1> DEFINE dq == Unexpired(attempts, clock)
<1>1. SameDecisions(events, Polled(r)) /\ Polled(r) \in Seq(RowType(LogActions))
  BY <1>0, PolledPlain
<1>2. /\ Actuate(Polled(r), dq, clock) /\ clock \in 0..clock
      /\ UNCHANGED <<clock, mode>> /\ Running /\ ~latched
  BY <1>0, Proceeded, Numbers DEF GoAhead, Proceeds, Poll, Running
<1>3. /\ mode.live => dq \subseteq Attempts
      /\ \A t \in Attempts : clock - t >= Cooldown
      /\ ~Cleared => \A t \in Attempts : clock - t <= RateWindow => t \in dq
  BY <1>0, EvictionKeeps
<1>4. ~Cleared => Cardinality(Recent(clock)) < MaxRestarts
  BY <1>0, RecentUnderLimit
<1> QED
  BY <1>1, <1>2, <1>3, <1>4, ActuateKeeps

LEMMA AskPowerModeKeeps ==
    ASSUME IInv, TypeOK', NEW r \in Readings, AskPowerMode(r)
    PROVE  IInv'
<1>0. Proceeds(r) /\ TypeOK /\ ~AtLimit(clock)
  BY DEF AskPowerMode, UnderLimit, IInv
<1>1. SameDecisions(events, events')
  BY <1>0, PolledPlain DEF AskPowerMode
<1>2. /\ UNCHANGED <<clock, mode, latched>>
      /\ pc' = "asking" /\ pollTime' = clock
      /\ attempts' = Unexpired(attempts, clock)
  BY DEF AskPowerMode, UnderLimit, Proceeds, Poll
<1>3. /\ pc = "idle" /\ ~latched
      /\ \A t \in Attempts : clock - t >= Cooldown
  BY <1>0, Proceeded
<1>4. /\ Attempts' = Attempts /\ (Cleared' <=> Cleared)
      /\ IsNeedsAttention(events)' <=> IsNeedsAttention(events)
      /\ AttemptsSpaced' /\ RateLimited' /\ LatchEarned'
  BY <1>1, PlainStep DEF IInv
<1>5. DequeIsBacked' /\ NewestIsKept' /\ WindowIsKept' /\ LatchIsKept'
  BY <1>0, <1>2, <1>3, <1>4, EvictionKeeps
     DEF IInv, DequeIsBacked, NewestIsKept, WindowIsKept, LatchIsKept, Running
<1>6. ~Cleared => Cardinality(Recent(clock)) < MaxRestarts
  BY <1>0, RecentUnderLimit
<1>7. Recent(clock) = {t \in Attempts' : pollTime' - t <= RateWindow}
  BY <1>2, <1>4 DEF Recent
<1>8. FunnelStillHolds'
  BY <1>2, <1>3, <1>4, <1>6, <1>7 DEF FunnelStillHolds, InFlight
<1> QED
  BY <1>4, <1>5, <1>8 DEF IInv

LEMMA PowerAnsweredKeeps ==
    ASSUME IInv, TypeOK', NEW a \in PowerAnswers, PowerAnswered(a)
    PROVE  IInv'
<1>0. /\ TypeOK /\ Running /\ ~latched
      /\ UNCHANGED <<clock, mode>> /\ pollTime \in 0..clock
  BY Numbers DEF IInv, TypeOK, PowerAnswered, FunnelStillHolds, InFlight, Running
<1>1. CASE HoldsBack(a)
  <2>1. SameDecisions(events, events')
    <3>1. "skipped_asleep" \in LogActions \ Decisive
      BY DEF LogActions, FailureActions, Decisive, AttemptActions
    <3> QED
      BY <1>0, <1>1, <3>1, PlainRecord, Numbers DEF PowerAnswered
  <2>2. /\ UNCHANGED <<clock, mode, pollTime, attempts, latched>>
        /\ pc = "asking" /\ pc' = "idle"
    BY <1>1 DEF PowerAnswered
  <2> QED
    BY <2>1, <2>2, PlainStep
       DEF IInv, DequeIsBacked, NewestIsKept, WindowIsKept, LatchIsKept,
           FunnelStillHolds, Running, InFlight
<1>2. CASE ~HoldsBack(a)
  <2>1. Actuate(events, attempts, pollTime) /\ pc = "asking"
    BY <1>2 DEF PowerAnswered
  <2>2. SameDecisions(events, events) /\ events \in Seq(RowType(LogActions))
    BY <1>0, Numbers DEF SameDecisions
  <2>3. /\ mode.live => attempts \subseteq Attempts
        /\ \A t \in Attempts : pollTime - t >= Cooldown
        /\ \A t \in Attempts :
              clock - t >= Cooldown \/ \E x \in attempts : t <= x
        /\ ~Cleared => \A t \in Attempts :
              clock - t <= RateWindow => t \in attempts
        /\ mode.live /\ ~Cleared => Cardinality(Recent(pollTime)) < MaxRestarts
    BY <1>0, <2>1
       DEF IInv, DequeIsBacked, NewestIsKept, WindowIsKept, FunnelStillHolds,
           InFlight, Recent
  <2> QED
    BY <1>0, <2>1, <2>2, <2>3, ActuateKeeps
<1> QED
  BY <1>1, <1>2

-----------------------------------------------------------------------------
(***************************************************************************)
(* Rows that decide: the latch, the attempt and the clear.                 *)
(***************************************************************************)

LEMMA LatchKeeps ==
    ASSUME IInv, TypeOK', NEW r \in Readings, Latch(r)
    PROVE  IInv'
<1>0. Proceeds(r) /\ TypeOK /\ AtLimit(clock) /\ mode.live
  BY DEF Latch, IInv
<1> DEFINE log == Polled(r)
           i0 == Len(log) + 1
<1>1. SameDecisions(events, log) /\ log \in Seq(RowType(LogActions))
  BY <1>0, PolledPlain
<1>2. events' = Record(log, clock, "needs_attention")
  BY DEF Latch
<1>3. "needs_attention" \in LogActions /\ clock \in Nat
  BY <1>0, Numbers DEF LogActions, FailureActions
<1>4. /\ Rows(events', AttemptActions) = Rows(events, AttemptActions)
      /\ Rows(events', {"attention_cleared"}) = Rows(events, {"attention_cleared"})
      /\ Rows(events', {"needs_attention"}) =
            Rows(events, {"needs_attention"}) \cup {i0}
      /\ \A i \in Rows(events, Decisive) : events'[i] = events[i]
      /\ events'[i0] = Row(clock, "needs_attention")
  <2>1. /\ Rows(events', AttemptActions) = Rows(log, AttemptActions)
        /\ Rows(events', {"attention_cleared"}) = Rows(log, {"attention_cleared"})
        /\ Rows(events', {"needs_attention"}) =
              Rows(log, {"needs_attention"}) \cup {i0}
        /\ \A i \in DOMAIN log : events'[i] = log[i]
        /\ events'[i0] = Row(clock, "needs_attention")
    BY <1>1, <1>2, <1>3, DecisiveRecord, DisjointActions
  <2>2. Rows(log, Decisive) \subseteq DOMAIN log
    BY DEF Rows
  <2>3. /\ AttemptActions \in SUBSET Decisive /\ Decisive \in SUBSET Decisive
        /\ {"needs_attention"} \in SUBSET Decisive
        /\ {"attention_cleared"} \in SUBSET Decisive
    BY DEF Decisive
  <2> HIDE DEF log
  <2> QED
    BY <1>1, <2>1, <2>2, <2>3 DEF SameDecisions
<1>5. /\ Rows(events, AttemptActions) \subseteq Rows(events, Decisive)
      /\ Rows(events, {"needs_attention"}) \subseteq Rows(events, Decisive)
  BY DEF Rows, Decisive
<1> HIDE DEF log, i0
<1>6. Attempts' = Attempts /\ (Cleared' <=> Cleared)
  BY <1>4, <1>5 DEF Attempts, Times, Cleared
<1>7. AttemptsSpaced' /\ RateLimited'
  BY <1>4, <1>5, <1>6 DEF IInv, AttemptsSpaced, RateLimited
<1>8. LatchEarned'
  <2> DEFINE Before(t) == {u \in Attempts : t - RateWindow <= u /\ u <= t}
  <2>1. Unexpired(attempts, clock) \subseteq Before(clock)
    <3>1. Unexpired(attempts, clock) \subseteq Attempts
      BY <1>0, EvictionKeeps
    <3>2. /\ Attempts \in SUBSET (0..clock) /\ clock \in Nat /\ RateWindow \in Nat
      BY <1>0, Numbers
    <3>3. ASSUME NEW u \in Unexpired(attempts, clock) PROVE u \in Before(clock)
      <4>1. u \in Attempts /\ u \in 0..clock /\ clock - u <= RateWindow
        BY <3>1, <3>2 DEF Unexpired
      <4> QED
        BY <3>2, <4>1
    <3> QED
      BY <3>3
  <2>2. /\ Before(clock) \in SUBSET (0..clock)
        /\ clock \in Nat /\ MaxRestarts \in Nat
    BY <1>0, Numbers
  <2>3. Cardinality(Before(clock)) >= MaxRestarts
    <3> HIDE DEF Before
    <3>1. /\ Cardinality(Unexpired(attempts, clock)) <= Cardinality(Before(clock))
          /\ Cardinality(Before(clock)) \in Nat
          /\ Cardinality(Unexpired(attempts, clock)) \in Nat
      BY <2>1, <2>2, FiniteTimes
    <3> QED
      BY <1>0, <2>2, <3>1 DEF AtLimit
  <2>4. \A i \in Rows(events, {"needs_attention"}) :
          Cardinality(Before(events[i].ts)) >= MaxRestarts
    BY DEF IInv, LatchEarned
  <2>5. \A i \in Rows(events', {"needs_attention"}) :
          Cardinality(Before(events'[i].ts)) >= MaxRestarts
    <3>1. events'[i0].ts = clock
      BY <1>4 DEF Row
    <3>2. \A i \in Rows(events, {"needs_attention"}) : events'[i] = events[i]
      BY <1>4, <1>5
    <3> HIDE DEF Before
    <3> QED
      BY <1>4, <2>3, <2>4, <3>1, <3>2
  <2> QED
    BY <1>6, <2>5 DEF LatchEarned
<1>9. /\ UNCHANGED <<clock, mode, pc>> /\ pc = "idle" /\ latched'
      /\ attempts' = Unexpired(attempts, clock)
  BY <1>0, Proceeded DEF Latch, Proceeds, Poll
<1>10. /\ DequeIsBacked' /\ NewestIsKept' /\ WindowIsKept' /\ LatchIsKept'
       /\ FunnelStillHolds'
  BY <1>0, <1>6, <1>9, EvictionKeeps
     DEF DequeIsBacked, NewestIsKept, WindowIsKept, LatchIsKept,
         FunnelStillHolds, Running, InFlight
<1> QED
  BY <1>7, <1>8, <1>10 DEF IInv

LEMMA RecoveredKeeps ==
    ASSUME IInv, TypeOK', NEW o \in Outcomes, Recovered(o)
    PROVE  IInv'
<1>0. /\ TypeOK /\ pc = "recovering" /\ pc' = "idle"
      /\ UNCHANGED <<clock, mode, pollTime, latched>>
      /\ attempts' = attempts \cup {pollTime}
      /\ events' = Record(events, pollTime, o)
  BY DEF IInv, Recovered
<1>1. o \in AttemptActions /\ o \in LogActions
  BY WatchdogConstants
     DEF WatchdogConstants, AttemptActions, LogActions, FailureActions
<1> DEFINE i0 == Len(events) + 1
<1>2. /\ Rows(events', AttemptActions) = Rows(events, AttemptActions) \cup {i0}
      /\ Rows(events', {"attention_cleared"}) = Rows(events, {"attention_cleared"})
      /\ Rows(events', {"needs_attention"}) = Rows(events, {"needs_attention"})
      /\ \A i \in DOMAIN events : events'[i] = events[i]
      /\ events'[i0] = Row(pollTime, o)
      /\ DOMAIN events = 1..Len(events) /\ Len(events) \in Nat
  BY <1>0, <1>1, DecisiveRecord, DisjointActions, Numbers
<1>3. \A A : Rows(events, A) \subseteq DOMAIN events
  BY DEF Rows
<1>4. /\ Attempts' = Attempts \cup {pollTime}
      /\ Cleared' <=> Cleared
      /\ IsNeedsAttention(events)' <=> IsNeedsAttention(events)
  <2>1. Attempts' = Attempts \cup {pollTime}
    BY <1>0, <1>1, RecordTimes, Numbers DEF Attempts
  <2>2. Cleared' <=> Cleared
    BY <1>2 DEF Cleared
  <2>3. IsNeedsAttention(events)' <=> IsNeedsAttention(events)
    BY <1>2, <1>3 DEF IsNeedsAttention, Older
  <2> QED
    BY <2>1, <2>2, <2>3
<1>5. /\ \A t \in Attempts : pollTime - t >= Cooldown
      /\ ~latched /\ mode.live
      /\ ~Cleared => Cardinality(Recent(pollTime)) < MaxRestarts
  BY <1>0 DEF IInv, FunnelStillHolds, InFlight, Recent
<1>6. AttemptsSpaced'
  <2> SUFFICES ASSUME NEW i \in Rows(events', AttemptActions),
                      NEW j \in Rows(events', AttemptActions), i < j
               PROVE  events'[j].ts - events'[i].ts >= Cooldown
    BY DEF AttemptsSpaced
  <2>1. i \in Rows(events, AttemptActions)
    BY <1>2, <1>3
  <2>2. CASE j = i0
    <3>1. events'[j].ts = pollTime /\ events'[i] = events[i]
      BY <1>2, <1>3, <2>1, <2>2 DEF Row
    <3>2. events[i].ts \in Attempts
      BY <2>1 DEF Attempts, Times
    <3> QED
      BY <1>5, <3>1, <3>2
  <2>3. CASE j # i0
    <3>1. j \in Rows(events, AttemptActions)
      BY <1>2, <2>3
    <3> QED
      BY <1>2, <1>3, <2>1, <3>1 DEF IInv, AttemptsSpaced
  <2> QED
    BY <2>2, <2>3
<1>7. RateLimited'
  <2> DEFINE Span(S, t) == {u \in S : t <= u /\ u <= t + RateWindow}
  <2>0. /\ clock \in Nat /\ pollTime \in Nat /\ pollTime \in 0..clock
        /\ Attempts \in SUBSET (0..clock) /\ RateWindow \in Nat
        /\ MaxRestarts \in Nat /\ MaxRestarts >= 1 /\ Cooldown \in Nat
    BY <1>0, Numbers
  <2>1. SUFFICES ASSUME ~Cleared, NEW t \in Attempts \cup {pollTime}
                 PROVE  Cardinality(Span(Attempts \cup {pollTime}, t)) <= MaxRestarts
    BY <1>4 DEF RateLimited, Cleared
  <2>2. CASE t + RateWindow < pollTime
    <3>1. Span(Attempts \cup {pollTime}, t) = Span(Attempts, t)
      BY <2>0, <2>2
    <3>2. t \in Attempts
      BY <2>0, <2>2
    <3>3. Cardinality(Span(Attempts, t)) <= MaxRestarts
      BY <2>1, <3>2 DEF IInv, RateLimited, Cleared
    <3> QED
      BY <3>1, <3>3
  <2>3. CASE pollTime <= t + RateWindow
    <3>1. Span(Attempts \cup {pollTime}, t) \subseteq Recent(pollTime) \cup {pollTime}
      <4>1. ASSUME NEW u \in Span(Attempts \cup {pollTime}, t), u # pollTime
            PROVE  u \in Recent(pollTime)
        <5>1. u \in Attempts /\ t <= u
          BY <4>1
        <5>2. u \in Nat /\ t \in Nat
          BY <2>0, <5>1
        <5>3. pollTime - u <= RateWindow
          BY <2>0, <2>3, <5>1, <5>2
        <5> QED
          BY <5>1, <5>3 DEF Recent
      <4> QED
        BY <4>1
    <3>2. Recent(pollTime) \in SUBSET (0..clock)
      BY <2>0 DEF Recent
    <3>3. /\ IsFiniteSet(Recent(pollTime))
          /\ Cardinality(Recent(pollTime)) \in Nat
      BY <2>0, <3>2, FiniteTimes
    <3>4. Cardinality(Recent(pollTime) \cup {pollTime}) <= MaxRestarts
      <4>1. Cardinality(Recent(pollTime)) < MaxRestarts
        BY <1>5, <2>1
      <4>2. Cardinality(Recent(pollTime) \cup {pollTime})
              = IF pollTime \in Recent(pollTime) THEN Cardinality(Recent(pollTime))
                                                 ELSE Cardinality(Recent(pollTime)) + 1
        BY <3>3, FS_AddElement
      <4> QED
        BY <2>0, <3>3, <4>1, <4>2
    <3>5. /\ Recent(pollTime) \cup {pollTime} \in SUBSET (0..clock)
      BY <2>0, <3>2
    <3> HIDE DEF Span
    <3>6. /\ Cardinality(Span(Attempts \cup {pollTime}, t))
               <= Cardinality(Recent(pollTime) \cup {pollTime})
          /\ Cardinality(Span(Attempts \cup {pollTime}, t)) \in Nat
          /\ Cardinality(Recent(pollTime) \cup {pollTime}) \in Nat
      BY <2>0, <3>1, <3>5, FiniteTimes
    <3> QED
      BY <2>0, <3>4, <3>6
  <2> QED
    BY <2>0, <2>2, <2>3
<1>8. LatchEarned'
  <2> SUFFICES ASSUME NEW i \in Rows(events, {"needs_attention"})
               PROVE  Cardinality({u \in Attempts' : /\ events[i].ts - RateWindow <= u
                                                     /\ u <= events[i].ts})
                        >= MaxRestarts
    BY <1>2, <1>3 DEF LatchEarned
  <2> DEFINE Before(S) == {u \in S : /\ events[i].ts - RateWindow <= u
                                     /\ u <= events[i].ts}
  <2>1. Cardinality(Before(Attempts)) >= MaxRestarts
    BY DEF IInv, LatchEarned
  <2>2. /\ Before(Attempts) \subseteq Before(Attempts')
        /\ Before(Attempts') \in SUBSET (0..clock)
        /\ clock \in Nat /\ MaxRestarts \in Nat
    BY <1>0, <1>4, Numbers
  <2> HIDE DEF Before
  <2>3. /\ Cardinality(Before(Attempts)) <= Cardinality(Before(Attempts'))
        /\ Cardinality(Before(Attempts')) \in Nat
        /\ Cardinality(Before(Attempts)) \in Nat
    BY <2>2, FiniteTimes
  <2>4. Cardinality(Before(Attempts')) >= MaxRestarts
    BY <2>1, <2>2, <2>3
  <2> QED
    BY <2>4 DEF Before
<1>9. DequeIsBacked' /\ NewestIsKept' /\ WindowIsKept' /\ LatchIsKept'
  <2>1. pollTime \in Nat
    BY <1>0, Numbers
  <2> QED
    BY <1>0, <1>4, <1>5, <2>1
       DEF IInv, DequeIsBacked, NewestIsKept, WindowIsKept, LatchIsKept, Running
<1>10. FunnelStillHolds'
  BY <1>0 DEF FunnelStillHolds, InFlight
<1> QED
  BY <1>6, <1>7, <1>8, <1>9, <1>10 DEF IInv

LEMMA ClearAttentionKeeps ==
    ASSUME IInv, TypeOK', ClearAttention
    PROVE  IInv'
<1>0. /\ TypeOK /\ events' = Record(events, clock, "attention_cleared")
      /\ UNCHANGED <<clock, mode, pc, pollTime, attempts, latched>>
  BY DEF IInv, ClearAttention, volatile
<1> DEFINE i0 == Len(events) + 1
<1>1. /\ Rows(events', AttemptActions) = Rows(events, AttemptActions)
      /\ Rows(events', {"needs_attention"}) = Rows(events, {"needs_attention"})
      /\ i0 \in Rows(events', {"attention_cleared"})
      /\ \A i \in DOMAIN events : events'[i] = events[i]
      /\ events'[i0] = Row(clock, "attention_cleared")
      /\ DOMAIN events = 1..Len(events) /\ Len(events) \in Nat
  <2>1. "attention_cleared" \in LogActions
    BY DEF LogActions
  <2> QED
    BY <1>0, <2>1, DecisiveRecord, DisjointActions, Numbers
<1>2. \A A : Rows(events, A) \subseteq DOMAIN events
  BY DEF Rows
<1>3. Attempts' = Attempts /\ Cleared'
  BY <1>1, <1>2 DEF Attempts, Times, Cleared
<1>4. ~IsNeedsAttention(events)'
  <2>1. ASSUME NEW i \in Rows(events', {"needs_attention"})
        PROVE  ~Older(events', i0, i)
    <3>1. /\ events'[i0].ts = clock /\ events'[i] = events[i]
          /\ i \in 1..Len(events)
      BY <1>1, <1>2, <2>1 DEF Row
    <3>2. events[i].ts \in 0..clock /\ clock \in Nat
      BY <1>0, <1>1, <3>1, Numbers
    <3> QED
      BY <1>1, <3>1, <3>2 DEF Older
  <2> QED
    BY <1>1, <2>1 DEF IsNeedsAttention
<1>5. AttemptsSpaced' /\ LatchEarned'
  BY <1>1, <1>2, <1>3 DEF IInv, AttemptsSpaced, LatchEarned
<1>6. RateLimited'
  BY <1>1 DEF RateLimited
<1>7. /\ DequeIsBacked' /\ NewestIsKept' /\ WindowIsKept' /\ LatchIsKept'
      /\ FunnelStillHolds'
  BY <1>0, <1>3, <1>4
     DEF IInv, DequeIsBacked, NewestIsKept, WindowIsKept, LatchIsKept,
         FunnelStillHolds, Running, InFlight
<1> QED
  BY <1>5, <1>6, <1>7 DEF IInv

-----------------------------------------------------------------------------
(***************************************************************************)
(* Steps that record nothing at all.                                       *)
(***************************************************************************)

LEMMA TickKeeps ==
    ASSUME IInv, TypeOK', Tick
    PROVE  IInv'
<1>1. /\ clock' = clock + 1
      /\ UNCHANGED <<events, mode, pc, pollTime, attempts, latched>>
  BY DEF Tick, volatile
<1>2. /\ Attempts \in SUBSET (0..clock) /\ clock \in Nat
      /\ Cooldown \in Nat /\ RateWindow \in Nat
  BY Numbers DEF IInv
<1>3. /\ Attempts' = Attempts /\ (Cleared' <=> Cleared)
      /\ AttemptsSpaced' /\ RateLimited' /\ LatchEarned'
  BY <1>1
     DEF IInv, Attempts, Cleared, AttemptsSpaced, RateLimited, LatchEarned
<1>4. /\ \A t \in Attempts : clock - t >= Cooldown => clock + 1 - t >= Cooldown
      /\ \A t \in Attempts : clock + 1 - t <= RateWindow => clock - t <= RateWindow
  BY <1>2
<1>5. NewestIsKept'
  <2> SUFFICES ASSUME Running, NEW t \in Attempts
               PROVE  clock + 1 - t >= Cooldown \/ \E a \in attempts : t <= a
    BY <1>1, <1>2, <1>3 DEF NewestIsKept, Running
  <2>1. clock - t >= Cooldown \/ \E a \in attempts : t <= a
    BY DEF IInv, NewestIsKept
  <2> QED
    BY <1>4, <2>1
<1>6. WindowIsKept'
  <2> SUFFICES ASSUME Running, ~Cleared, NEW t \in Attempts,
                      clock + 1 - t <= RateWindow
               PROVE  t \in attempts
    BY <1>1, <1>2, <1>3 DEF WindowIsKept, Running
  <2>1. clock - t <= RateWindow
    BY <1>4
  <2> QED
    BY <2>1 DEF IInv, WindowIsKept
<1>7. DequeIsBacked' /\ LatchIsKept' /\ FunnelStillHolds'
  BY <1>1, <1>3
     DEF IInv, DequeIsBacked, LatchIsKept, FunnelStillHolds, Running, InFlight
<1> QED
  BY <1>3, <1>5, <1>6, <1>7 DEF IInv

LEMMA StartKeeps ==
    ASSUME IInv, TypeOK', Start
    PROVE  IInv'
<1>1. /\ UNCHANGED <<clock, events, pollTime>> /\ pc' = "idle"
      /\ attempts' = HydratedAttempts(events)
      /\ latched' = IsNeedsAttention(events)
  BY DEF Start, Hydrate
<1>2. /\ Attempts' = Attempts /\ (Cleared' <=> Cleared)
      /\ AttemptsSpaced' /\ RateLimited' /\ LatchEarned'
  BY <1>1
     DEF IInv, Attempts, Cleared, AttemptsSpaced, RateLimited, LatchEarned
<1>3. /\ attempts' \in {Attempts, Trimmed(Attempts)}
      /\ ~Cleared => attempts' = Attempts
  BY <1>1 DEF HydratedAttempts, Attempts, Cleared
<1>4. Trimmed(Attempts) \subseteq Attempts
  BY DEF Trimmed
<1>5. \A t \in Attempts : \E a \in attempts' : t <= a
  <2>1. clock \in Nat /\ Attempts \in SUBSET (0..clock)
    BY Numbers DEF IInv
  <2>2. \A t \in Attempts : t <= t
    BY <2>1
  <2>3. \A t \in Attempts : \E a \in Trimmed(Attempts) : t <= a
    BY <2>1, TrimmedKeeps
  <2> QED
    BY <1>3, <2>2, <2>3
<1>6. DequeIsBacked' /\ NewestIsKept' /\ WindowIsKept'
  BY <1>1, <1>2, <1>3, <1>4, <1>5
     DEF DequeIsBacked, NewestIsKept, WindowIsKept
<1>7. LatchIsKept' /\ FunnelStillHolds'
  BY <1>1 DEF LatchIsKept, FunnelStillHolds, InFlight
<1> QED
  BY <1>2, <1>6, <1>7 DEF IInv

LEMMA CrashKeeps ==
    ASSUME IInv, TypeOK', Crash
    PROVE  IInv'
<1>1. UNCHANGED events /\ pc' = "down"
  BY DEF Crash
<1>2. AttemptsSpaced' /\ RateLimited' /\ LatchEarned'
  BY <1>1 DEF IInv, Attempts, AttemptsSpaced, RateLimited, LatchEarned
<1>3. /\ DequeIsBacked' /\ NewestIsKept' /\ WindowIsKept' /\ LatchIsKept'
      /\ FunnelStillHolds'
  BY <1>1
     DEF DequeIsBacked, NewestIsKept, WindowIsKept, LatchIsKept,
         FunnelStillHolds, Running, InFlight
<1> QED
  BY <1>2, <1>3 DEF IInv

LEMMA StutterKeeps ==
    ASSUME IInv, TypeOK', UNCHANGED vars
    PROVE  IInv'
BY UnjudgedKeeps DEF Unjudged, vars, volatile

-----------------------------------------------------------------------------
(***************************************************************************)
(* The theorems.                                                           *)
(***************************************************************************)

LEMMA InitEstablishes == Init => IInv
<1> SUFFICES ASSUME Init PROVE IInv
  OBVIOUS
<1>1. TypeOK
  <2>1. Init => TypeOK
    BY InitTyped
  <2> QED
    BY <2>1
<1>2. /\ events = <<>> /\ pc = "idle" /\ attempts = {}
  BY DEF Init
<1>3. \A A : Rows(events, A) = {}
  BY <1>2 DEF Rows
<1>4. Attempts = {} /\ ~Cleared /\ ~IsNeedsAttention(events)
  BY <1>3 DEF Attempts, Times, Cleared, IsNeedsAttention
<1> QED
  BY <1>1, <1>2, <1>3, <1>4
     DEF IInv, DequeIsBacked, NewestIsKept, WindowIsKept, LatchIsKept,
         FunnelStillHolds, InFlight, AttemptsSpaced, RateLimited, LatchEarned

\* IInv is inductive.
LEMMA StepKeeps == IInv /\ [Next]_vars => IInv'
<1> SUFFICES ASSUME IInv, [Next]_vars PROVE IInv'
  OBVIOUS
<1>0. TypeOK'
  BY StepTyped DEF IInv
<1>1. CASE PollStep
  BY <1>0, <1>1, ObserveKeeps, DeclineKeeps, LatchKeeps, RehearseLatchKeeps,
     GoAheadKeeps, HoldAsleepKeeps, AskPowerModeKeeps
     DEF PollStep
<1>2. CASE AwaitStep
  BY <1>0, <1>2, PowerAnsweredKeeps, RecoveredKeeps DEF AwaitStep
<1>3. CASE Tick \/ Start \/ Crash \/ ClearAttention
  BY <1>0, <1>3, TickKeeps, StartKeeps, CrashKeeps, ClearAttentionKeeps
<1>4. CASE HorizonReached \/ UNCHANGED vars
  BY <1>0, <1>4, StutterKeeps DEF HorizonReached
<1> QED
  BY <1>1, <1>2, <1>3, <1>4 DEF Next

\* IInv holds in every reachable state of every accepted policy.
THEOREM InvariantHolds == Spec => []IInv
BY StepKeeps, InitEstablishes, PTL DEF Spec

\* cooldown_seconds holds between any two recorded attempts.
THEOREM Spacing == Spec => []AttemptsSpaced
<1>1. IInv => AttemptsSpaced
  BY DEF IInv
<1> QED
  BY <1>1, InvariantHolds, PTL

\* max_restarts in any rate_window_seconds holds until somebody clears.
THEOREM RateLimit == Spec => []RateLimited
<1>1. IInv => RateLimited
  BY DEF IInv
<1> QED
  BY <1>1, InvariantHolds, PTL

\* A durable latch always has MaxRestarts recorded attempts behind it.
THEOREM EarnedLatch == Spec => []LatchEarned
<1>1. IInv => LatchEarned
  BY DEF IInv
<1> QED
  BY <1>1, InvariantHolds, PTL

\* No command is ever on its way to a miner that waits for a human.
THEOREM Quiet == Spec => []QuietWhileLatched
<1>1. IInv => QuietWhileLatched
  BY DEF IInv, QuietWhileLatched, LatchIsKept, FunnelStillHolds, Running, InFlight
<1> QED
  BY <1>1, InvariantHolds, PTL

-----------------------------------------------------------------------------
(***************************************************************************)
(* The refinement: every step is one of RestartBudget, or none.            *)
(***************************************************************************)

LEMMA ChargeIs ==
    /\ (Charge = "service") <=> ~IsNeedsAttention(events)
    /\ (Charge = "human") <=> IsNeedsAttention(events)
    /\ (Charge' = "service") <=> ~IsNeedsAttention(events)'
    /\ (Charge' = "human") <=> IsNeedsAttention(events)'
BY DEF Charge

LEMMA PlainBudget ==
    ASSUME SameDecisions(events, events')
    PROVE  Attempts' = Attempts /\ Charge' = Charge /\ ClearedAt' = ClearedAt
<1>1. Attempts' = Attempts
  BY PlainStep
<1>2. IsNeedsAttention(events)' <=> IsNeedsAttention(events)
  BY PlainStep
<1>3. Charge' = Charge
  BY <1>2 DEF Charge
<1>4. /\ Rows(events', {"attention_cleared"}) = Rows(events, {"attention_cleared"})
      /\ \A i \in Rows(events, {"attention_cleared"}) : events'[i] = events[i]
  BY SameAnswers DEF Decisive
<1>5. ClearedAt' = ClearedAt
  BY <1>4 DEF ClearedAt, Times
<1> QED
  BY <1>1, <1>3, <1>5

\* Polls that begin nothing and decide nothing.
LEMMA PlainPoll ==
    ASSUME TypeOK, NEW r,
           \/ Observe(r) \/ DeclineRestart(r) \/ HoldAsleep(r)
           \/ RehearseLatch(r) \/ AskPowerMode(r)
    PROVE  /\ SameDecisions(events, events') /\ UNCHANGED clock
           /\ pc = "idle" /\ pc' # "recovering"
<1>1. /\ SameDecisions(events, Polled(r))
      /\ Polled(r) \in Seq(RowType(LogActions))
      /\ clock \in Nat
  BY PolledPlain, Numbers
<1>2. \A a \in LogActions \ Decisive :
         SameDecisions(events, Record(Polled(r), clock, a))
  BY <1>1, PlainRecord, SameDecisionsTransitive
<1>3. CASE Observe(r)
  BY <1>1, <1>3 DEF Observe, Poll
<1>4. CASE DeclineRestart(r)
  <2>1. Decline(r) \in LogActions \ Decisive
    BY <1>4, DeclineType
       DEF DeclineRestart, LogActions, FailureActions, ResetActions, Decisive,
           AttemptActions
  <2> QED
    BY <1>2, <1>4, <2>1 DEF DeclineRestart, Poll
<1>5. CASE HoldAsleep(r) \/ RehearseLatch(r)
  <2>1. /\ "skipped_asleep" \in LogActions \ Decisive
        /\ "would_need_attention" \in LogActions \ Decisive
    BY DEF LogActions, FailureActions, Decisive, AttemptActions
  <2> QED
    BY <1>2, <1>5, <2>1 DEF HoldAsleep, RehearseLatch, UnderLimit, Proceeds, Poll
<1>6. CASE AskPowerMode(r)
  BY <1>1, <1>6 DEF AskPowerMode, UnderLimit, Proceeds, Poll
<1> QED
  BY <1>3, <1>4, <1>5, <1>6

\* A plain step while nothing is under way is none of the budget's.
LEMMA PlainIsNothing ==
    ASSUME SameDecisions(events, events'), UNCHANGED clock,
           pc # "recovering", pc' # "recovering"
    PROVE  UNCHANGED Budget!vars
<1>1. UnderWay' = UnderWay
  BY DEF UnderWay
<1> QED
  BY <1>1, PlainBudget DEF Budget!vars

\* Nor is a step that the watchdog only sees a reading written of.
LEMMA UnjudgedIsNothing ==
    ASSUME TypeOK, NEW r, Unjudged(r)
    PROVE  UNCHANGED Budget!vars
<1>1. SameDecisions(events, events')
  BY PolledPlain DEF SameDecisions, Unjudged
<1>2. UnderWay' = UnderWay /\ UNCHANGED clock
  BY DEF UnderWay, Unjudged
<1> QED
  BY <1>1, <1>2, PlainBudget DEF Budget!vars

\* The two specifications count the same restarts.
LEMMA RecentAgree ==
    \A t : Cardinality(Recent(t)) = Budget!Cardinality(Budget!Recent(t))
<1>1. \A S : Cardinality(S) = Budget!Cardinality(S)
  BY DEF Cardinality, Budget!Cardinality
<1>2. \A t : Recent(t) = Budget!Recent(t)
  BY DEF Recent, Budget!Recent
<1> QED
  BY <1>1, <1>2

\* The command that leaves the funnel keeps to the budget.
LEMMA ActuateBegins ==
    ASSUME IInv, IInv', NEW log \in Seq(RowType(LogActions)), NEW dq,
           NEW now \in 0..clock,
           Actuate(log, dq, now), SameDecisions(events, log),
           UNCHANGED clock, pc # "recovering"
    PROVE  Budget!Begin(now) \/ UNCHANGED Budget!vars
<1>1. CASE ~mode.live
  <2>1. "would_restart" \in LogActions \ Decisive /\ now \in Nat
    BY Numbers DEF IInv, LogActions, FailureActions, Decisive, AttemptActions
  <2>2. pc' = "idle" /\ SameDecisions(events, events')
    BY <1>1, <2>1, PlainRecord, SameDecisionsTransitive DEF Actuate
  <2> QED
    BY <2>2, PlainIsNothing
<1>2. CASE mode.live
  <2>1. pc' = "recovering" /\ pollTime' = now /\ SameDecisions(events, events')
    BY <1>2 DEF Actuate
  <2>2. Attempts' = Attempts /\ Charge' = Charge /\ ClearedAt' = ClearedAt
    BY <2>1, PlainBudget
  <2>3. /\ UnderWay = NoTime /\ UnderWay' = now
    BY <2>1 DEF UnderWay
  <2>4. Charge = "service"
    <3>1. ~latched' /\ Running'
      BY <2>1 DEF IInv, FunnelStillHolds, InFlight, Running
    <3>2. ~IsNeedsAttention(events)'
      BY <3>1 DEF IInv, LatchIsKept
    <3> QED
      BY <2>2, <3>2, ChargeIs
  <2>5. \A u \in Attempts : now - u >= Cooldown
    BY <2>1, <2>2 DEF IInv, FunnelStillHolds, InFlight
  <2>6. ClearedAt = {} => Cardinality(Recent(now)) < MaxRestarts
    <3>1. ClearedAt' = {} => ~Cleared'
      BY DEF ClearedAt, Times, Cleared
    <3>2. Recent(now) = {t \in Attempts' : pollTime' - t <= RateWindow}
      BY <2>1, <2>2 DEF Recent
    <3>3. mode.live'
      BY <2>1 DEF IInv, FunnelStillHolds
    <3> QED
      BY <2>1, <2>2, <3>1, <3>2, <3>3 DEF IInv, FunnelStillHolds, InFlight
  <2> QED
    BY <2>2, <2>3, <2>4, <2>5, <2>6, RecentAgree
       DEF Budget!Begin, Budget!Nothing, NoTime
<1> QED
  BY <1>1, <1>2

LEMMA LatchHandsOver ==
    ASSUME IInv, NEW r, Latch(r)
    PROVE  Budget!HandOver
<1>0. Proceeds(r) /\ TypeOK /\ AtLimit(clock) /\ mode.live
  BY DEF Latch, IInv
<1> DEFINE log == Polled(r)
           i0 == Len(log) + 1
<1>1. SameDecisions(events, log) /\ log \in Seq(RowType(LogActions))
  BY <1>0, PolledPlain
<1>2. events' = Record(log, clock, "needs_attention")
  BY DEF Latch
<1>3. "needs_attention" \in LogActions /\ clock \in Nat
  BY <1>0, Numbers DEF LogActions, FailureActions
<1>4. /\ AttemptActions \in SUBSET Decisive
      /\ {"attention_cleared"} \in SUBSET Decisive
      /\ Decisive \in SUBSET Decisive
  BY DEF Decisive
<1>5. /\ Rows(events', AttemptActions) = Rows(log, AttemptActions)
      /\ Rows(events', {"attention_cleared"}) = Rows(log, {"attention_cleared"})
      /\ Rows(events', {"needs_attention"}) =
            Rows(log, {"needs_attention"}) \cup {i0}
      /\ \A i \in DOMAIN log : events'[i] = log[i]
      /\ events'[i0] = Row(clock, "needs_attention")
      /\ DOMAIN log = 1..Len(log) /\ Len(log) \in Nat
  BY <1>1, <1>2, <1>3, DecisiveRecord, DisjointActions
<1>6. /\ Rows(events', AttemptActions) = Rows(events, AttemptActions)
      /\ Rows(events', {"attention_cleared"}) = Rows(events, {"attention_cleared"})
  BY <1>1, <1>4, <1>5 DEF SameDecisions
<1>7. \A i \in Rows(events, Decisive) : i \in DOMAIN log /\ events'[i] = events[i]
  BY <1>1, <1>4, <1>5 DEF SameDecisions, Rows
<1>8. /\ Rows(events, AttemptActions) \subseteq Rows(events, Decisive)
      /\ Rows(events, {"attention_cleared"}) \subseteq Rows(events, Decisive)
  BY DEF Rows, Decisive
<1>9. \A j \in Rows(events, {"attention_cleared"}) :
         j \in DOMAIN events /\ j \in 1..Len(log) /\ events'[j] = events[j]
  BY <1>5, <1>7, <1>8 DEF Rows
<1> HIDE DEF log
<1>10. Attempts' = Attempts /\ ClearedAt' = ClearedAt
  BY <1>6, <1>7, <1>8 DEF Attempts, ClearedAt, Times
<1>11. /\ UNCHANGED <<clock, pc>> /\ pc = "idle" /\ ~latched
  BY <1>0, Proceeded DEF Latch, Proceeds, Poll
<1>12. Charge = "service"
  BY <1>11, ChargeIs DEF IInv, LatchIsKept, Running
<1>13. Charge' = "human"
  <2>1. ASSUME NEW j \in Rows(events', {"attention_cleared"})
        PROVE  Older(events', j, i0)
    <3>1. /\ j \in DOMAIN events /\ j \in 1..Len(log)
          /\ events'[j].ts = events[j].ts /\ events'[i0].ts = clock
      BY <1>5, <1>6, <1>9, <2>1 DEF Row
    <3>2. events[j].ts \in 0..clock /\ clock \in Nat
      BY <1>0, <3>1, Numbers
    <3>3. j < i0
      BY <1>5, <3>1
    <3> QED
      BY <3>1, <3>2, <3>3 DEF Older
  <2>2. i0 \in Rows(events', {"needs_attention"})
    BY <1>5
  <2>3. IsNeedsAttention(events)'
    BY <2>1, <2>2 DEF IsNeedsAttention
  <2> QED
    BY <2>3, ChargeIs
<1>14. UnderWay = NoTime /\ UnderWay' = UnderWay
  BY <1>11 DEF UnderWay
<1>15. Cardinality(Recent(clock)) >= MaxRestarts
  <2>1. Unexpired(attempts, clock) \subseteq Recent(clock)
    BY <1>0, EvictionKeeps DEF Recent, Unexpired
  <2>2. /\ Recent(clock) \in SUBSET (0..clock)
        /\ clock \in Nat /\ MaxRestarts \in Nat
    BY <1>0, Numbers DEF Recent
  <2>3. /\ Cardinality(Unexpired(attempts, clock)) <= Cardinality(Recent(clock))
        /\ Cardinality(Recent(clock)) \in Nat
        /\ Cardinality(Unexpired(attempts, clock)) \in Nat
    BY <2>1, <2>2, FiniteTimes
  <2> QED
    BY <1>0, <2>2, <2>3 DEF AtLimit
<1> QED
  BY <1>10, <1>11, <1>12, <1>13, <1>14, <1>15, RecentAgree
     DEF Budget!HandOver, Budget!Nothing, NoTime

\* An attempt ends with its row, and takes no latch back.
LEMMA RecoveredEnds ==
    ASSUME TypeOK, NEW o \in Outcomes, Recovered(o)
    PROVE  Budget!Ends
<1>0. /\ pc = "recovering" /\ pc' = "idle" /\ UNCHANGED clock
      /\ events' = Record(events, pollTime, o)
  BY DEF Recovered
<1>1. o \in AttemptActions /\ o \in LogActions
  BY WatchdogConstants
     DEF WatchdogConstants, AttemptActions, LogActions, FailureActions
<1>2. /\ Rows(events', {"attention_cleared"}) = Rows(events, {"attention_cleared"})
      /\ Rows(events', {"needs_attention"}) = Rows(events, {"needs_attention"})
      /\ \A i \in DOMAIN events : events'[i] = events[i]
  BY <1>0, <1>1, DecisiveRecord, DisjointActions, Numbers
<1>3. \A A : Rows(events, A) \subseteq DOMAIN events
  BY DEF Rows
<1>4. Attempts' = Attempts \cup {pollTime}
  BY <1>0, <1>1, RecordTimes, Numbers DEF Attempts
<1>5. ClearedAt' = ClearedAt
  BY <1>2, <1>3 DEF ClearedAt, Times
<1>6. IsNeedsAttention(events)' <=> IsNeedsAttention(events)
  BY <1>2, <1>3 DEF IsNeedsAttention, Older
<1>7. Charge' = Charge
  BY <1>6 DEF Charge
<1>8. UnderWay = pollTime /\ UnderWay' = NoTime /\ pollTime \in Nat
  BY <1>0, Numbers DEF UnderWay
<1> QED
  BY <1>0, <1>4, <1>5, <1>7, <1>8 DEF Budget!Ends, Budget!Nothing, NoTime

\* A crash loses the attempt under way, if there is one.
LEMMA CrashLoses ==
    ASSUME TypeOK, Crash
    PROVE  Budget!Lost \/ UNCHANGED Budget!vars
<1>1. pc' = "down" /\ UNCHANGED <<clock, events>>
  BY DEF Crash
<1>2. UnderWay' = NoTime
  BY <1>1 DEF UnderWay
<1>3. Attempts' = Attempts /\ Charge' = Charge /\ ClearedAt' = ClearedAt
  BY <1>1 DEF Attempts, Charge, ClearedAt
<1>4. UnderWay = NoTime \/ UnderWay \in Nat
  BY Numbers DEF UnderWay
<1> QED
  BY <1>1, <1>2, <1>3, <1>4
     DEF Budget!Lost, Budget!Nothing, Budget!vars, NoTime

\* A clear gives the miner back, whatever is under way.
LEMMA ClearAttentionClears ==
    ASSUME TypeOK, ClearAttention
    PROVE  Budget!Clear
<1>0. /\ events' = Record(events, clock, "attention_cleared")
      /\ UNCHANGED <<clock, pc, pollTime>>
  BY DEF ClearAttention
<1> DEFINE i0 == Len(events) + 1
<1>1. "attention_cleared" \in LogActions /\ clock \in Nat
  BY Numbers DEF LogActions
<1>2. /\ Rows(events', AttemptActions) = Rows(events, AttemptActions)
      /\ Rows(events', {"needs_attention"}) = Rows(events, {"needs_attention"})
      /\ i0 \in Rows(events', {"attention_cleared"})
      /\ \A i \in DOMAIN events : events'[i] = events[i]
      /\ events'[i0] = Row(clock, "attention_cleared")
      /\ DOMAIN events = 1..Len(events) /\ Len(events) \in Nat
  BY <1>0, <1>1, DecisiveRecord, DisjointActions, Numbers
<1>3. \A A : Rows(events, A) \subseteq DOMAIN events
  BY DEF Rows
<1>4. Attempts' = Attempts
  BY <1>2, <1>3 DEF Attempts, Times
<1>5. ClearedAt' = ClearedAt \cup {clock}
  BY <1>0, <1>1, RecordTimes, Numbers DEF ClearedAt
<1>6. Charge' = "service"
  <2>1. ASSUME NEW i \in Rows(events', {"needs_attention"})
        PROVE  ~Older(events', i0, i)
    <3>1. /\ events'[i0].ts = clock /\ events'[i] = events[i]
          /\ i \in 1..Len(events)
      BY <1>2, <1>3, <2>1 DEF Row
    <3>2. events[i].ts \in 0..clock
      BY <1>2, <3>1, Numbers
    <3> QED
      BY <1>1, <1>2, <3>1, <3>2 DEF Older
  <2>2. ~IsNeedsAttention(events)'
    BY <1>2, <2>1 DEF IsNeedsAttention
  <2> QED
    BY <2>2, ChargeIs
<1>7. UnderWay' = UnderWay
  BY <1>0 DEF UnderWay
<1> QED
  BY <1>0, <1>4, <1>5, <1>6, <1>7 DEF Budget!Clear

\* Every poll is at most a beginning or a hand-over.
LEMMA PollKeepsBudget ==
    ASSUME IInv, IInv', PollStep
    PROVE  [Budget!Next]_(Budget!vars)
<1>0. TypeOK /\ clock \in Nat
  BY Numbers DEF IInv
<1>1. PICK r \in Readings :
         \/ Observe(r) \/ DeclineRestart(r)
         \/ Latch(r) \/ RehearseLatch(r)
         \/ GoAhead(r) \/ HoldAsleep(r) \/ AskPowerMode(r)
  BY DEF PollStep
<1>2. CASE \/ Observe(r) \/ DeclineRestart(r) \/ HoldAsleep(r)
           \/ RehearseLatch(r) \/ AskPowerMode(r)
  <2>1. UNCHANGED Budget!vars
    BY <1>0, <1>2, PlainPoll, PlainIsNothing
  <2> QED
    BY <2>1
<1>3. CASE Latch(r)
  BY <1>3, LatchHandsOver DEF Budget!Next
<1>4. CASE GoAhead(r)
  <2>1. /\ SameDecisions(events, Polled(r))
        /\ Polled(r) \in Seq(RowType(LogActions))
    BY <1>0, PolledPlain
  <2>2. /\ Actuate(Polled(r), Unexpired(attempts, clock), clock)
        /\ clock \in 0..clock /\ UNCHANGED clock /\ pc # "recovering"
    BY <1>0, <1>4 DEF GoAhead, UnderLimit, Proceeds, Poll
  <2>3. Budget!Begin(clock) \/ UNCHANGED Budget!vars
    BY <2>1, <2>2, ActuateBegins
  <2> QED
    BY <2>2, <2>3 DEF Budget!Next
<1> QED
  BY <1>1, <1>2, <1>3, <1>4

LEMMA BudgetStep == IInv /\ IInv' /\ [Next]_vars => [Budget!Next]_(Budget!vars)
<1> SUFFICES ASSUME IInv, IInv', [Next]_vars PROVE [Budget!Next]_(Budget!vars)
  OBVIOUS
<1>0. TypeOK
  BY DEF IInv
<1>1. CASE PollStep
  BY <1>1, PollKeepsBudget
<1>2. ASSUME NEW a \in PowerAnswers, PowerAnswered(a)
      PROVE  [Budget!Next]_(Budget!vars)
  <2>1. CASE HoldsBack(a)
    <3>1. "skipped_asleep" \in LogActions \ Decisive
      BY DEF LogActions, FailureActions, Decisive, AttemptActions
    <3>2. /\ SameDecisions(events, events') /\ UNCHANGED clock
          /\ pc # "recovering" /\ pc' # "recovering"
      BY <1>0, <1>2, <2>1, <3>1, PlainRecord, Numbers DEF PowerAnswered
    <3> QED
      BY <3>2, PlainIsNothing
  <2>2. CASE ~HoldsBack(a)
    <3>1. /\ Actuate(events, attempts, pollTime)
          /\ UNCHANGED clock /\ pc # "recovering"
      BY <1>2, <2>2 DEF PowerAnswered
    <3>2. /\ SameDecisions(events, events) /\ events \in Seq(RowType(LogActions))
          /\ pollTime \in 0..clock
      BY <1>0, Numbers DEF SameDecisions
    <3>3. Budget!Begin(pollTime) \/ UNCHANGED Budget!vars
      BY <3>1, <3>2, ActuateBegins
    <3> QED
      BY <3>2, <3>3 DEF Budget!Next
  <2> QED
    BY <2>1, <2>2
<1>3. ASSUME NEW o \in Outcomes, Recovered(o)
      PROVE  [Budget!Next]_(Budget!vars)
  BY <1>0, <1>3, RecoveredEnds DEF Budget!Next
<1>4. CASE Tick
  BY <1>4
     DEF Tick, volatile, Attempts, Charge, ClearedAt, UnderWay, Budget!Next,
         Budget!Tick
<1>5. CASE Start
  BY <1>5
     DEF Start, Attempts, Charge, ClearedAt, UnderWay, Budget!vars
<1>6. CASE Crash
  BY <1>0, <1>6, CrashLoses DEF Budget!Next
<1>7. CASE ClearAttention
  BY <1>0, <1>7, ClearAttentionClears DEF Budget!Next
<1>8. CASE HorizonReached \/ UNCHANGED vars
  BY <1>8
     DEF HorizonReached, vars, Attempts, Charge, ClearedAt, UnderWay, Budget!vars
<1> QED
  BY <1>1, <1>2, <1>3, <1>4, <1>5, <1>6, <1>7, <1>8 DEF Next, AwaitStep

LEMMA InitBudget == Init => Budget!Init
<1> SUFFICES ASSUME Init PROVE Budget!Init
  OBVIOUS
<1>1. events = <<>> /\ pc = "idle" /\ clock = 0
  BY DEF Init
<1>2. \A A : Rows(events, A) = {}
  BY <1>1 DEF Rows
<1> QED
  BY <1>1, <1>2
     DEF Budget!Init, Budget!Nothing, NoTime, UnderWay, Charge, ClearedAt,
         Attempts, Times, IsNeedsAttention

\* The watchdog implements RestartBudget.
THEOREM BudgetIsKept == Spec => KeepsBudget
BY InitBudget, BudgetStep, InvariantHolds, PTL DEF Spec, KeepsBudget, Budget!Spec

-----------------------------------------------------------------------------
(***************************************************************************)
(* The failure clock: ClockInv.                                            *)
(***************************************************************************)

Waits  == Rows(events, {"waiting_to_restart"})
Waited == Times(events, {"waiting_to_restart"})

\* One poll, one kind of evidence: a poll's rows up to its await, and the row
\* of the decision after it.
LEMMA Kinds ==
    /\ FailureActions \cap ResetActions = {} /\ "alert" \notin FailureActions
    /\ "none" \notin FailureActions /\ "none" \notin ResetActions
    /\ "alert" \notin ResetActions /\ "alert" # "none" /\ "alert" \notin AttemptActions
    /\ AttemptActions \subseteq FailureActions
    /\ "waiting_to_restart" \in FailureActions \ AttemptActions
    /\ "attention_cleared" \notin FailureActions \cup ResetActions \cup PollActions
BY DEF FailureActions, ResetActions, AttemptActions, PollActions

LEMMA ClockRulesApart ==
    /\ RulesApart(ClockRules) /\ ClockRules.maxRows \in Nat
    /\ ClockRules.maxRows = MaxRows /\ ClockRules.recovery = Recovery
    /\ ClockRules.failure = FailureActions /\ ClockRules.reset = ResetActions
    /\ ClockRules.mining = {"none"}
<1>1. /\ MaxGap \in Int /\ Recovery \in Int /\ MaxRows \in Nat
  BY WatchdogConstants DEF WatchdogConstants
<1> QED
  BY <1>1, Kinds DEF ClockRules, RulesApart

LEMMA TimesOf ==
    ASSUME TypeOK
    PROVE  /\ PollTimes \in SUBSET (0..clock) /\ Failed \in SUBSET PollTimes
           /\ Off \in SUBSET PollTimes /\ Mined \in SUBSET PollTimes
           /\ Waited \in SUBSET Failed /\ Attempts \in SUBSET Failed
           /\ clock \in Nat /\ pollTime \in 0..clock /\ FailAfter \in Nat /\ Recovery \in Nat
           /\ MaxRows \in Nat /\ Len(events) \in Nat
<1>1. /\ \A i \in DOMAIN events : events[i].ts \in 0..clock
      /\ events \in Seq(RowType(LogActions)) /\ pollTime \in 0..clock /\ clock \in Nat
  BY Numbers DEF TypeOK
<1>2. /\ FailAfter \in Nat /\ Recovery \in Nat /\ MaxRows \in Nat
  BY WatchdogConstants DEF WatchdogConstants
<1>3. /\ \A A : Times(events, A) \in SUBSET (0..clock)
      /\ \A A, B : A \subseteq B => Times(events, A) \subseteq Times(events, B)
  BY <1>1 DEF Times, Rows
<1>4. /\ FailureActions \subseteq LogActions \ {"attention_cleared"}
      /\ ResetActions \subseteq LogActions \ {"attention_cleared"}
      /\ {"none"} \subseteq LogActions \ {"attention_cleared"}
      /\ {"waiting_to_restart"} \subseteq FailureActions /\ AttemptActions \subseteq FailureActions
  BY Kinds DEF LogActions, PollActions
<1> QED
  BY <1>1, <1>2, <1>3, <1>4 DEF PollTimes, Failed, Off, Mined, Waited, Attempts

\* What one row adds to the times.
Adds(log, t, a) ==
    LET log2 == Record(log, t, a)
        Now(A) == IF a \in A THEN Times(log, A) \cup {t} ELSE Times(log, A)
        waits == {"waiting_to_restart"}
    IN  /\ log2 \in Seq(RowType(LogActions)) /\ Len(log2) = Len(log) + 1 /\ Len(log) \in Nat
        /\ GrownFrom(log2, log)
        /\ Rows(log2, waits) = IF a \in waits THEN Rows(log, waits) \cup {Len(log) + 1}
                               ELSE Rows(log, waits)
        /\ Times(log2, LogActions \ {"attention_cleared"}) = Now(LogActions \ {"attention_cleared"})
        /\ Times(log2, FailureActions) = Now(FailureActions)
        /\ Times(log2, ResetActions) = Now(ResetActions)
        /\ Times(log2, {"none"}) = Now({"none"})
        /\ Times(log2, {"waiting_to_restart"}) = Now({"waiting_to_restart"})
        /\ Times(log2, AttemptActions) = Now(AttemptActions)

LEMMA RecordAdds ==
    ASSUME NEW log \in Seq(RowType(LogActions)), NEW t \in Nat, NEW a \in LogActions
    PROVE  Adds(log, t, a)
<1>1. \A A : Times(Record(log, t, a), A)
                = IF a \in A THEN Times(log, A) \cup {t} ELSE Times(log, A)
  BY RecordTimes
<1>2. /\ Record(log, t, a) \in Seq(RowType(LogActions))
      /\ Len(Record(log, t, a)) = Len(log) + 1 /\ Len(log) \in Nat
  BY RecordRows
<1>3. \A A : Rows(Record(log, t, a), A)
                = IF a \in A THEN Rows(log, A) \cup {Len(log) + 1} ELSE Rows(log, A)
  BY RecordRows
<1>4. GrownFrom(Record(log, t, a), log)
  BY RecordGrows
<1> QED
  BY <1>1, <1>2, <1>3, <1>4 DEF Adds

\* The row of the reading, in a state where this interval's poll is due.
LEMMA PolledAdds ==
    ASSUME TypeOK, NEW r
    PROVE  /\ Adds(events, clock, PollAction(r)) /\ Polled(r) \in Seq(RowType(LogActions))
           /\ PollAction(r) \in PollActions
           /\ Failing(r) => PollAction(r) \in {"alert", "expected_off"}
           /\ Failing(r) /\ r.working => PollAction(r) = "alert"
           /\ ~Failing(r) => PollAction(r) \in {"none", "maintenance"}
<1>1. PollAction(r) \in PollActions /\ PollAction(r) \in LogActions
  BY PollActionType DEF LogActions
<1>2. Adds(events, clock, PollAction(r))
  BY <1>1, Numbers, RecordAdds
<1>3. Polled(r) \in Seq(RowType(LogActions))
  BY <1>2 DEF Adds, Polled
<1>4. /\ Failing(r) => PollAction(r) \in {"alert", "expected_off"}
      /\ Failing(r) /\ r.working => PollAction(r) = "alert"
      /\ ~Failing(r) => PollAction(r) \in {"none", "maintenance"}
  BY DEF Failing, PollAction
<1> QED
  BY <1>1, <1>2, <1>3, <1>4

\* Between a failure at s and a wait at t the miner was off, or had recovered.
Interrupted(s, t) == \/ \E u \in Off : s < u /\ u < t
                     \/ \E u, v \in Mined : s < u /\ u + Recovery <= v /\ v < t

\* The wait of row i went by rows among which no failure at s is left.
PushedOut(s, i) == Len(ReadFor(i)) = MaxRows /\ s \notin Times(ReadFor(i), FailureActions)

\* The wait of row i was for nothing that lasted FailAfter.
Sure(i) ==
    \A s \in Failed :
        s <= events[i].ts - FailAfter => Interrupted(s, events[i].ts) \/ PushedOut(s, i)

LEMMA PromisesAre ==
    /\ WaitIsBounded <=> \A i \in Waits : Sure(i)
    /\ WaitIsBounded' <=> \A i \in Waits' : Sure(i)'
    /\ ConfirmedBeforeAttempt <=> \A t \in Attempts : Confirmed(t)
    /\ ConfirmedBeforeAttempt' <=> \A t \in Attempts' : Confirmed(t)'
<1>1. /\ WaitIsBounded <=> \A i \in Waits : Sure(i)
      /\ WaitIsBounded' <=> \A i \in Waits' : Sure(i)'
  BY DEF WaitIsBounded, Waits, Sure, Interrupted, PushedOut, Failed, Off, Mined
<1>2. /\ ConfirmedBeforeAttempt <=> \A t \in Attempts : Confirmed(t)
      /\ ConfirmedBeforeAttempt' <=> \A t \in Attempts' : Confirmed(t)'
  BY DEF ConfirmedBeforeAttempt, Confirmed, Failed, Off
<1> QED
  BY <1>1, <1>2

\* What was promised of an attempt at t and of the wait of row i stays promised
\* when later failures, readings and resets are recorded.
LEMMA PromisesStay ==
    ASSUME TypeOK, NEW now \in Nat,
           Failed \subseteq Failed', Failed' \subseteq Failed \cup {now},
           Off \subseteq Off', Off' \subseteq Off \cup {now}, Mined \subseteq Mined'
    PROVE  /\ \A t \in 0..clock : Confirmed(t) /\ (now \notin Off' \/ t < now) => Confirmed(t)'
           /\ GrownFrom(events', events) =>
                 \A i \in DOMAIN events :
                    Sure(i) /\ events[i].ts <= now /\ (now \notin Failed' \/ FailAfter > 0)
                       => Sure(i)'
<1>1. /\ FailAfter \in Nat /\ FailAfter' = FailAfter /\ Recovery' = Recovery
      /\ now' = now /\ MaxRows' = MaxRows
  BY TimesOf
<1>2. ASSUME NEW t \in 0..clock, Confirmed(t), now \notin Off' \/ t < now
      PROVE  Confirmed(t)'
  <2>1. t \in Nat /\ t' = t
    BY TimesOf
  <2> QED
    BY <1>1, <1>2, <2>1 DEF Confirmed
<1>3. ASSUME GrownFrom(events', events), NEW i \in DOMAIN events, Sure(i),
             events[i].ts <= now, now \notin Failed' \/ FailAfter > 0
      PROVE  Sure(i)'
  <2>1. events'[i] = events[i] /\ SubSeq(events', 1, i - 1) = SubSeq(events, 1, i - 1)
    BY <1>3 DEF GrownFrom
  <2>2. ReadFor(i)' = ReadFor(i) /\ events[i].ts \in Nat
    <3>1. events[i].ts \in Nat
      BY <1>3, Numbers
    <3> QED
      BY <2>1, <3>1 DEF ReadFor
  <2> SUFFICES ASSUME NEW s \in Failed', s <= events[i].ts - FailAfter
               PROVE  Interrupted(s, events[i].ts)' \/ PushedOut(s, i)'
    BY <1>1, <2>1 DEF Sure
  <2>3. s \in Failed
    BY <1>1, <1>3, <2>2
  <2>4. Interrupted(s, events[i].ts) \/ PushedOut(s, i)
    BY <1>3, <2>3 DEF Sure
  <2>5. Interrupted(s, events[i].ts) => Interrupted(s, events[i].ts)'
    BY <1>1, <2>1 DEF Interrupted
  <2>6. PushedOut(s, i) => PushedOut(s, i)'
    BY <2>2 DEF PushedOut
  <2> QED
    BY <2>4, <2>5, <2>6
<1> QED
  BY <1>2, <1>3

\* A poll tells of one kind of evidence, at a time nothing was told of before.
Told == /\ polled' /\ clock' = clock /\ PollTimes' = PollTimes \cup {clock}
        /\ Failed' \in {Failed, Failed \cup {clock}}
        /\ Off' \in {Off, Off \cup {clock}}
        /\ Mined' \in {Mined, Mined \cup {clock}}
        /\ clock \in Failed' => clock \notin Off' /\ clock \notin Mined'
        /\ Attempts' = Attempts /\ GrownFrom(events', events)

\* The log keeps its rows, and has no waits beyond them.
NoNewWait == GrownFrom(events', events) /\ Waits' \subseteq DOMAIN events

\* The waits that stood in the log still do, of nothing later than `now`.
LEMMA WaitsStay ==
    ASSUME TypeOK, ClockInv, NEW now \in Nat, PollTimes \subseteq 0..now,
           Failed \subseteq Failed', Failed' \subseteq Failed \cup {now},
           Off \subseteq Off', Off' \subseteq Off \cup {now}, Mined \subseteq Mined',
           GrownFrom(events', events), NEW i \in Waits', i \in DOMAIN events
    PROVE  Sure(i)'
<1>1. events'[i] = events[i]
  BY DEF GrownFrom
<1>2. i \in Waits
  BY <1>1 DEF Waits, Rows
<1>3. events[i].ts \in Waited
  BY <1>2 DEF Waits, Waited, Times
<1>4. FailAfter > 0
  BY <1>3 DEF ClockInv, NobodyWaitsForNothing, Waited
<1>5. events[i].ts <= now
  <2>1. Waited \subseteq Failed /\ Failed \subseteq PollTimes
    BY TimesOf
  <2>2. events[i].ts \in 0..now
    BY <1>3, <2>1
  <2> QED
    BY <2>2
<1>6. Sure(i)
  BY <1>2, PromisesAre DEF ClockInv
<1> QED
  BY <1>4, <1>5, <1>6, PromisesStay

LEMMA PollKeepsClock ==
    ASSUME TypeOK, TypeOK', ClockInv, pc = "idle", ~polled, Told,
           InFlight' => /\ pollTime' = clock /\ Confirmed(clock)
                        /\ clock \notin Failed' \cup Off' \cup Mined',
           Waited' # Waited => FailAfter > 0,
           \A i \in Waits' : i \in DOMAIN events \/ Sure(i)'
    PROVE  ClockInv'
<1>0. /\ PollTimes \in SUBSET (0..clock) /\ Failed \in SUBSET PollTimes
      /\ Off \in SUBSET PollTimes /\ Mined \in SUBSET PollTimes
      /\ Waited \in SUBSET Failed /\ Attempts \in SUBSET Failed
      /\ clock \in Nat /\ FailAfter \in Nat
  BY TimesOf
<1>1. clock \notin PollTimes
  BY DEF ClockInv, OnePollATick
<1>2. OnePollATick'
  <2>1. Failed' \cap Off' = {} /\ Failed' \cap Mined' = {}
    BY <1>0, <1>1 DEF Told, ClockInv, OnePollATick
  <2>2. InFlight' => /\ \A t \in PollTimes' : t <= pollTime'
                     /\ pollTime' \notin Failed' \cup Off' \cup Mined'
                     /\ pollTime' = clock' => polled'
    BY <1>0 DEF Told
  <2> QED
    BY <2>1, <2>2 DEF OnePollATick, Told
<1>3. /\ Failed \subseteq Failed' /\ Failed' \subseteq Failed \cup {clock}
      /\ Off \subseteq Off' /\ Off' \subseteq Off \cup {clock} /\ Mined \subseteq Mined'
  BY DEF Told
<1>4. \A t \in 0..clock : Confirmed(t) /\ (clock \notin Off' \/ t < clock) => Confirmed(t)'
  BY <1>0, <1>3, PromisesStay
<1>5. AttemptIsConfirmed'
  BY <1>0, <1>4 DEF AttemptIsConfirmed
<1>6. NobodyWaitsForNothing'
  BY DEF ClockInv, NobodyWaitsForNothing, Waited
<1>7. ConfirmedBeforeAttempt'
  <2>1. \A t \in Attempts : t \in 0..clock /\ t < clock
    BY <1>0, <1>1
  <2>2. \A t \in Attempts : Confirmed(t)
    BY PromisesAre DEF ClockInv
  <2> QED
    BY <1>4, <2>1, <2>2, PromisesAre DEF Told
<1>8. WaitIsBounded'
  <2>1. \A i \in Waits' : i \in DOMAIN events => Sure(i)'
    BY <1>0, <1>3, WaitsStay DEF Told
  <2> QED
    BY <2>1, PromisesAre
<1> QED
  BY <1>2, <1>5, <1>6, <1>7, <1>8 DEF ClockInv

\* A reading alone, and a reading followed by its decision, tell of one kind of
\* evidence.
LEMMA ReadingTells ==
    ASSUME TypeOK, ClockInv, pc = "idle", ~polled, polled', clock' = clock,
           NEW r, events' = Polled(r)
    PROVE  /\ Told /\ NoNewWait /\ Waited' = Waited
           /\ PollAction(r) = "alert" => clock \notin Failed' \cup Off' \cup Mined'
<1>0. /\ Failed \in SUBSET PollTimes /\ Off \in SUBSET PollTimes /\ Mined \in SUBSET PollTimes
      /\ clock \notin PollTimes
  BY TimesOf DEF ClockInv, OnePollATick
<1>1. /\ Adds(events, clock, PollAction(r)) /\ PollAction(r) \in PollActions
  BY PolledAdds
<1> DEFINE a == PollAction(r)
<1> HIDE DEF a
<1>2. /\ PollTimes' = PollTimes \cup {clock}
      /\ Failed' = Failed /\ Waited' = Waited /\ Attempts' = Attempts
      /\ Off' = IF a \in ResetActions THEN Off \cup {clock} ELSE Off
      /\ Mined' = IF a \in {"none"} THEN Mined \cup {clock} ELSE Mined
      /\ GrownFrom(events', events) /\ Waits' = Waits
  <2>1. /\ a \in LogActions \ {"attention_cleared"} /\ a \notin FailureActions
        /\ a \notin AttemptActions /\ a \notin {"waiting_to_restart"}
    BY <1>1 DEF a, PollActions, LogActions, FailureActions, AttemptActions
  <2> QED
    BY <1>1, <2>1 DEF a, Adds, Polled, PollTimes, Failed, Off, Mined, Waits, Waited, Attempts
<1>3. a = "alert" => a \notin ResetActions /\ a \notin {"none"}
  BY Kinds
<1>4. NoNewWait
  BY <1>2 DEF NoNewWait, Waits, Rows
<1> QED
  BY <1>0, <1>2, <1>3, <1>4 DEF Told, a

LEMMA DecisionTells ==
    ASSUME TypeOK, ClockInv, pc = "idle", ~polled, polled', clock' = clock,
           NEW r, Failing(r),
           NEW d \in (FailureActions \cup ResetActions) \ AttemptActions,
           d \in FailureActions => r.working,
           events' = Record(Polled(r), clock, d)
    PROVE  /\ Told
           /\ Waited' = IF d = "waiting_to_restart" THEN Waited \cup {clock} ELSE Waited
           /\ \A i \in Waits' : i \in DOMAIN events \/ (d = "waiting_to_restart" /\ i = Len(events'))
<1>0. /\ Failed \in SUBSET PollTimes /\ Off \in SUBSET PollTimes /\ Mined \in SUBSET PollTimes
      /\ clock \notin PollTimes /\ clock \in Nat
  BY TimesOf DEF ClockInv, OnePollATick
<1>1. /\ Adds(events, clock, PollAction(r)) /\ Polled(r) \in Seq(RowType(LogActions))
      /\ PollAction(r) \in {"alert", "expected_off"}
      /\ r.working => PollAction(r) = "alert"
  BY PolledAdds
<1>2. d \in LogActions \ {"attention_cleared"} /\ d \in LogActions /\ d # "none"
  BY Kinds DEF LogActions, PollActions
<1>3. Adds(Polled(r), clock, d)
  BY <1>0, <1>1, <1>2, RecordAdds
<1>4. /\ PollAction(r) \in LogActions \ {"attention_cleared"}
      /\ PollAction(r) \notin FailureActions \cup AttemptActions
      /\ PollAction(r) \notin {"waiting_to_restart"} /\ PollAction(r) \notin {"none"}
  BY <1>1 DEF PollActions, LogActions, FailureActions, AttemptActions
<1>5. /\ PollTimes' = PollTimes \cup {clock}
      /\ Failed' = IF d \in FailureActions THEN Failed \cup {clock} ELSE Failed
      /\ Off' = IF PollAction(r) \in ResetActions \/ d \in ResetActions
                THEN Off \cup {clock} ELSE Off
      /\ Mined' = Mined /\ Attempts' = Attempts
      /\ Waited' = IF d \in {"waiting_to_restart"} THEN Waited \cup {clock} ELSE Waited
  <2>1. /\ Times(Polled(r), LogActions \ {"attention_cleared"}) = PollTimes \cup {clock}
        /\ Times(Polled(r), FailureActions) = Failed
        /\ Times(Polled(r), ResetActions) = IF PollAction(r) \in ResetActions
                                            THEN Off \cup {clock} ELSE Off
        /\ Times(Polled(r), {"none"}) = Mined /\ Times(Polled(r), AttemptActions) = Attempts
        /\ Times(Polled(r), {"waiting_to_restart"}) = Waited
    BY <1>1, <1>4 DEF Adds, Polled, PollTimes, Failed, Off, Mined, Waited, Attempts
  <2>2. /\ PollTimes' = PollTimes \cup {clock}
        /\ Failed' = IF d \in FailureActions THEN Failed \cup {clock} ELSE Failed
        /\ Off' = IF d \in ResetActions THEN Times(Polled(r), ResetActions) \cup {clock}
                  ELSE Times(Polled(r), ResetActions)
        /\ Mined' = Mined /\ Attempts' = Attempts
        /\ Waited' = IF d \in {"waiting_to_restart"} THEN Waited \cup {clock} ELSE Waited
    <3>1. d \notin AttemptActions /\ d \notin {"none"}
      BY <1>2
    <3> DEFINE log == Polled(r)
    <3>2. Adds(log, clock, d) /\ events' = Record(log, clock, d)
      BY <1>3
    <3>3. /\ Times(log, LogActions \ {"attention_cleared"}) = PollTimes \cup {clock}
          /\ Times(log, FailureActions) = Failed
          /\ Times(log, {"none"}) = Mined /\ Times(log, AttemptActions) = Attempts
          /\ Times(log, {"waiting_to_restart"}) = Waited
      BY <2>1
    <3> HIDE DEF log
    <3> DEFINE log2 == Record(log, clock, d)
               Now(A) == IF d \in A THEN Times(log, A) \cup {clock} ELSE Times(log, A)
    <3>4. /\ Times(log2, LogActions \ {"attention_cleared"}) = Now(LogActions \ {"attention_cleared"})
          /\ Times(log2, FailureActions) = Now(FailureActions)
          /\ Times(log2, ResetActions) = Now(ResetActions)
          /\ Times(log2, {"none"}) = Now({"none"})
          /\ Times(log2, {"waiting_to_restart"}) = Now({"waiting_to_restart"})
          /\ Times(log2, AttemptActions) = Now(AttemptActions)
      BY <3>2 DEF Adds
    <3> HIDE DEF log2
    <3>5. events' = log2
      BY <3>2 DEF log2
    <3>6. PollTimes' = PollTimes \cup {clock}
      BY <1>2, <3>3, <3>4, <3>5 DEF PollTimes
    <3>7. /\ Failed' = IF d \in FailureActions THEN Failed \cup {clock} ELSE Failed
          /\ Off' = IF d \in ResetActions THEN Times(log, ResetActions) \cup {clock}
                    ELSE Times(log, ResetActions)
      BY <3>3, <3>4, <3>5 DEF Failed, Off
    <3>8. Mined' = Mined /\ Attempts' = Attempts
      BY <3>1, <3>3, <3>4, <3>5 DEF Mined, Attempts
    <3>9. Waited' = IF d \in {"waiting_to_restart"} THEN Waited \cup {clock} ELSE Waited
      BY <3>3, <3>4, <3>5 DEF Waited
    <3> QED
      BY <3>6, <3>7, <3>8, <3>9 DEF log
  <2> QED
    BY <2>1, <2>2
<1>6. d \in FailureActions => PollAction(r) \notin ResetActions /\ d \notin ResetActions
  BY <1>1, Kinds
<1>7. /\ GrownFrom(Polled(r), events) /\ Rows(Polled(r), {"waiting_to_restart"}) = Waits
  BY <1>1, <1>4 DEF Adds, Polled, Waits
<1>8. /\ GrownFrom(events', Polled(r))
      /\ Waits' = IF d \in {"waiting_to_restart"} THEN Waits \cup {Len(events')} ELSE Waits
  BY <1>3, <1>7 DEF Adds, Waits
<1>9. GrownFrom(events', events) /\ Waits \subseteq DOMAIN events
  BY <1>7, <1>8 DEF GrownFrom, Waits, Rows
<1>10. Told
  BY <1>0, <1>5, <1>6, <1>9 DEF Told
<1>11. \A i \in Waits' : i \in DOMAIN events \/ (d = "waiting_to_restart" /\ i = Len(events'))
  BY <1>8, <1>9
<1>12. Waited' = IF d = "waiting_to_restart" THEN Waited \cup {clock} ELSE Waited
  BY <1>5
<1> QED
  BY <1>10, <1>11, <1>12

\* fail_after_seconds: a poll that goes on past the wait has its failure confirmed.
LEMMA ProceedsIsConfirmed ==
    ASSUME TypeOK, ClockInv, NEW r, Proceeds(r)
    PROVE  Confirmed(clock) /\ r.working /\ Failing(r) /\ PollAction(r) = "alert"
<1>0. /\ Failed \in SUBSET PollTimes /\ Off \in SUBSET PollTimes
      /\ PollTimes \in SUBSET (0..clock) /\ clock \in Nat /\ FailAfter \in Nat
      /\ clock \notin PollTimes /\ Failed \cap Off = {}
  BY TimesOf DEF ClockInv, OnePollATick, Proceeds, Poll
<1>1. Failing(r) /\ r.working /\ ~Waiting(Polled(r), clock)
  BY DEF Proceeds, Decline
<1>2. /\ Adds(events, clock, "alert") /\ Polled(r) \in Seq(RowType(LogActions))
      /\ PollAction(r) = "alert"
  BY <1>1, PolledAdds
<1>3. Times(Polled(r), FailureActions) = Failed /\ Times(Polled(r), ResetActions) = Off
  BY <1>2, Kinds DEF Adds, Polled, Failed, Off
<1>4. CASE FailAfter = 0
  BY <1>0, <1>1, <1>2, <1>4 DEF Confirmed
<1>5. CASE FailAfter > 0
  <2> DEFINE start == FailureClockStart(Polled(r), clock, ClockRules)
  <2>1. start # NoTime /\ ~(clock - start < FailAfter)
    BY <1>0, <1>1, <1>5 DEF Waiting, FailingFor
  <2>2. /\ start \in Nat /\ start \in Failed
        /\ \A t \in Off : t <= clock => t <= start
    BY <1>0, <1>2, <1>3, <2>1, ClockSays, ClockRulesApart
  <2> HIDE DEF start
  <2>3. start <= clock - FailAfter
    BY <1>0, <2>1, <2>2
  <2>4. \A t \in Off : t < clock - FailAfter
    BY <1>0, <2>2, <2>3
  <2> QED
    BY <1>1, <1>2, <2>2, <2>3, <2>4 DEF Confirmed
<1> QED
  BY <1>0, <1>4, <1>5

\* A poll that waits waits for nothing that lasted FailAfter.
LEMMA WaitingIsSure ==
    ASSUME TypeOK, ClockInv, pc = "idle", ~polled, NEW r, Failing(r), r.working,
           Waiting(Polled(r), clock), clock' = clock,
           events' = Record(Polled(r), clock, "waiting_to_restart"), NEW n, n = Len(events')
    PROVE  Sure(n)' /\ FailAfter > 0
<1>0. /\ Failed \in SUBSET PollTimes /\ Off \in SUBSET PollTimes /\ Mined \in SUBSET PollTimes
      /\ PollTimes \in SUBSET (0..clock) /\ clock \in Nat /\ FailAfter \in Nat
      /\ clock \notin PollTimes /\ Failed \cap Off = {} /\ Failed \cap Mined = {}
      /\ Recovery \in Nat /\ MaxRows \in Nat
  BY TimesOf DEF ClockInv, OnePollATick
<1>1. /\ Adds(events, clock, "alert") /\ Polled(r) \in Seq(RowType(LogActions))
      /\ PollAction(r) = "alert"
  BY PolledAdds
<1>2. /\ Times(Polled(r), FailureActions) = Failed /\ Times(Polled(r), ResetActions) = Off
      /\ Times(Polled(r), {"none"}) = Mined
  BY <1>1, Kinds DEF Adds, Polled, Failed, Off, Mined
<1>3. "waiting_to_restart" \in LogActions /\ "waiting_to_restart" \notin ResetActions
      /\ "waiting_to_restart" \notin {"none"} /\ "waiting_to_restart" \in FailureActions
  BY DEF LogActions, FailureActions, ResetActions
<1>4. Adds(Polled(r), clock, "waiting_to_restart")
  BY <1>0, <1>1, <1>3, RecordAdds
<1>5. /\ Failed' = Failed \cup {clock} /\ Off' = Off /\ Mined' = Mined
  BY <1>0, <1>2, <1>3, <1>4 DEF Adds, Failed, Off, Mined
<1>6. FailAfter > 0 /\ FailingFor(Polled(r), clock) < FailAfter
  BY DEF Waiting
<1> DEFINE start == FailureClockStart(Polled(r), clock, ClockRules)
           read == History(Polled(r), clock, MaxRows)
<1>7. ASSUME NEW s \in Failed, s <= clock - FailAfter, s \in Times(read, FailureActions)
      PROVE  Interrupted(s, clock)
  <2>1. s \in Nat /\ s <= clock
    BY <1>0, <1>7
  <2>2. \/ start # NoTime /\ start \in Nat /\ start <= s
        \/ \E u \in Off : s <= u /\ u <= clock
        \/ \E u, v \in Mined : s <= u /\ v - u >= Recovery /\ v <= clock
    BY <1>0, <1>1, <1>2, <1>7, ClockWaits, ClockRulesApart
  <2>3. CASE start # NoTime /\ start \in Nat /\ start <= s
    <3>1. FailingFor(Polled(r), clock) = clock - start
      BY <2>3 DEF FailingFor
    <3> HIDE DEF start
    <3> QED
      BY <1>0, <1>6, <1>7, <2>1, <2>3, <3>1
  <2>4. CASE \E u \in Off : s <= u /\ u <= clock
    <3>1. PICK u \in Off : s <= u /\ u <= clock
      BY <2>4
    <3>2. u # s /\ u # clock /\ u \in Nat
      BY <1>0, <1>7
    <3>3. s < u /\ u < clock
      BY <1>0, <2>1, <3>1, <3>2
    <3> QED
      BY <3>3 DEF Interrupted
  <2>5. CASE \E u, v \in Mined : s <= u /\ v - u >= Recovery /\ v <= clock
    <3>1. PICK u \in Mined, v \in Mined : s <= u /\ v - u >= Recovery /\ v <= clock
      BY <2>5
    <3>2. u # s /\ v # clock /\ u \in Nat /\ v \in Nat
      BY <1>0, <1>7
    <3>3. s < u /\ u + Recovery <= v /\ v < clock
      BY <1>0, <2>1, <3>1, <3>2
    <3> QED
      BY <3>3 DEF Interrupted
  <2> QED
    BY <2>2, <2>3, <2>4, <2>5
<1>8. ASSUME NEW s \in Failed, s \notin Times(read, FailureActions)
      PROVE  Len(read) = MaxRows
  <2>1. Len(read) = MaxRows \/ ReadWhole(read, Polled(r), clock)
    BY <1>0, <1>1, HistoryReadsBack
  <2>2. PICK j \in DOMAIN Polled(r) : Polled(r)[j].ts = s /\ Polled(r)[j].action \in FailureActions
    BY <1>2 DEF Times, Rows
  <2>3. s <= clock
    BY <1>0
  <2> HIDE DEF read
  <2>4. ReadWhole(read, Polled(r), clock) => s \in Times(read, FailureActions)
    BY <2>2, <2>3 DEF ReadWhole, Times, Rows
  <2> QED
    BY <1>8, <2>1, <2>4
<1>9. events'[n].ts = clock /\ ReadFor(n)' = read
  <2> DEFINE log == Polled(r)
  <2>1. log \in Seq(RowType(LogActions)) /\ Len(log) \in Nat /\ n = Len(log) + 1
    BY <1>1, <1>4 DEF Adds
  <2> HIDE DEF log
  <2>2. /\ Record(log, clock, "waiting_to_restart")[Len(log) + 1] = Row(clock, "waiting_to_restart")
        /\ SubSeq(Record(log, clock, "waiting_to_restart"), 1, Len(log)) = log
    <3>1. clock \in Nat /\ "waiting_to_restart" \in LogActions
      BY <1>0, <1>3
    <3> QED
      BY <2>1, <3>1, RecordGrows
  <2>3. events' = Record(log, clock, "waiting_to_restart")
    BY DEF log
  <2>4. events'[n] = Row(clock, "waiting_to_restart") /\ SubSeq(events', 1, n - 1) = log
    <3>1. n - 1 = Len(log)
      BY <2>1
    <3> QED
      BY <2>1, <2>2, <2>3, <3>1
  <2>5. events'[n].ts = clock
    BY <2>4 DEF Row
  <2>6. ReadFor(n)' = History(log, clock, MaxRows)
    BY <2>4, <2>5 DEF ReadFor
  <2> QED
    BY <2>5, <2>6 DEF log
<1> HIDE DEF read
<1> SUFFICES ASSUME NEW s \in Failed', s <= clock - FailAfter
             PROVE  Interrupted(s, clock)' \/ PushedOut(s, n)'
  BY <1>6, <1>9 DEF Sure
<1>10. s \in Failed
  BY <1>0, <1>5, <1>6
<1>11. Interrupted(s, clock) => Interrupted(s, clock)'
  BY <1>5 DEF Interrupted
<1> QED
  BY <1>7, <1>8, <1>9, <1>10, <1>11 DEF PushedOut

\* The steps of a poll.
LEMMA PollStepKeepsClock ==
    ASSUME TypeOK, TypeOK', ClockInv, PollStep
    PROVE  ClockInv'
<1>0. PICK r \in Readings : \/ Observe(r) \/ DeclineRestart(r) \/ Latch(r) \/ RehearseLatch(r)
                            \/ GoAhead(r) \/ HoldAsleep(r) \/ AskPowerMode(r)
  BY DEF PollStep
<1>1. pc = "idle" /\ ~polled /\ polled' /\ clock' = clock
  BY <1>0 DEF Observe, DeclineRestart, Latch, RehearseLatch, GoAhead, HoldAsleep, AskPowerMode,
              UnderLimit, Proceeds, Poll
<1>2. CASE Observe(r)
  <2>1. events' = Polled(r) /\ ~InFlight'
    BY <1>1, <1>2 DEF Observe, InFlight
  <2> QED
    BY <1>1, <2>1, ReadingTells, PollKeepsClock DEF NoNewWait
<1>3. CASE DeclineRestart(r)
  <2>1. /\ events' = Record(Polled(r), clock, Decline(r)) /\ ~InFlight' /\ Failing(r)
    BY <1>1, <1>3 DEF DeclineRestart, InFlight
  <2>2. /\ Decline(r) \in (FailureActions \cup ResetActions) \ AttemptActions
        /\ Decline(r) \in FailureActions => r.working
        /\ Decline(r) = "waiting_to_restart" => r.working /\ Waiting(Polled(r), clock)
    BY <1>3 DEF DeclineRestart, Decline, FailureActions, ResetActions, AttemptActions
  <2>3. /\ Told
        /\ Waited' = IF Decline(r) = "waiting_to_restart" THEN Waited \cup {clock} ELSE Waited
        /\ \A i \in Waits' : \/ i \in DOMAIN events
                             \/ Decline(r) = "waiting_to_restart" /\ i = Len(events')
    <3>1. /\ Decline(r) \in (FailureActions \cup ResetActions) \ AttemptActions
          /\ Decline(r) \in FailureActions => r.working
      BY <2>2
    <3> QED
      BY <1>1, <2>1, <3>1, DecisionTells
  <2>4. CASE Decline(r) = "waiting_to_restart"
    <3>1. \A i \in Waits' : i \in DOMAIN events \/ Sure(i)'
      BY <1>1, <2>1, <2>2, <2>3, <2>4, WaitingIsSure
    <3>2. FailAfter > 0
      BY <2>2, <2>4 DEF Waiting
    <3> QED
      BY <1>1, <2>1, <2>3, <2>4, <3>1, <3>2, PollKeepsClock
  <2>5. CASE Decline(r) # "waiting_to_restart"
    BY <1>1, <2>1, <2>3, <2>5, PollKeepsClock
  <2> QED
    BY <2>4, <2>5
<1>4. ASSUME NEW d \in FailureActions \ (AttemptActions \cup {"waiting_to_restart"}),
             Proceeds(r), events' = Record(Polled(r), clock, d), ~InFlight'
      PROVE  ClockInv'
  <2>1. r.working /\ Failing(r)
    BY <1>4, ProceedsIsConfirmed
  <2>2. Told /\ Waited' = Waited /\ \A i \in Waits' : i \in DOMAIN events
    BY <1>1, <1>4, <2>1, DecisionTells
  <2> QED
    BY <1>1, <1>4, <2>2, PollKeepsClock
<1>5. ASSUME Proceeds(r), events' = Polled(r), pollTime' = clock
      PROVE  ClockInv'
  <2>1. Confirmed(clock) /\ PollAction(r) = "alert"
    BY <1>5, ProceedsIsConfirmed
  <2>2. Told /\ NoNewWait /\ Waited' = Waited /\ clock \notin Failed' \cup Off' \cup Mined'
    BY <1>1, <1>5, <2>1, ReadingTells
  <2> QED
    BY <1>1, <1>5, <2>1, <2>2, PollKeepsClock DEF NoNewWait
<1>6. {"needs_attention", "would_need_attention", "skipped_asleep", "would_restart"}
        \subseteq FailureActions \ (AttemptActions \cup {"waiting_to_restart"})
  BY DEF FailureActions, AttemptActions
<1>7. CASE Latch(r)
  BY <1>1, <1>4, <1>6, <1>7 DEF Latch, InFlight
<1>8. CASE RehearseLatch(r)
  BY <1>1, <1>4, <1>6, <1>8 DEF RehearseLatch, InFlight
<1>9. CASE HoldAsleep(r)
  BY <1>1, <1>4, <1>6, <1>9 DEF HoldAsleep, UnderLimit, InFlight
<1>10. CASE AskPowerMode(r)
  BY <1>5, <1>10 DEF AskPowerMode, UnderLimit
<1>11. CASE GoAhead(r)
  <2>1. Proceeds(r) /\ Actuate(Polled(r), Unexpired(attempts, clock), clock)
    BY <1>11 DEF GoAhead, UnderLimit
  <2>2. CASE mode.live
    BY <1>5, <2>1, <2>2 DEF Actuate
  <2>3. CASE ~mode.live
    BY <1>4, <1>6, <2>1, <2>3 DEF Actuate, InFlight
  <2> QED
    BY <2>2, <2>3
<1> QED
  BY <1>0, <1>2, <1>3, <1>7, <1>8, <1>9, <1>10, <1>11

\* The row of a decision whose await has ended is a failure of its poll.
LEMMA DecidedKeepsClock ==
    ASSUME TypeOK, TypeOK', ClockInv, InFlight, ~InFlight', UNCHANGED <<clock, polled>>,
           NEW a \in FailureActions \ {"waiting_to_restart"},
           events' = Record(events, pollTime, a)
    PROVE  ClockInv'
<1>0. /\ PollTimes \in SUBSET (0..clock) /\ Failed \in SUBSET PollTimes
      /\ Off \in SUBSET PollTimes /\ Mined \in SUBSET PollTimes
      /\ Waited \in SUBSET Failed /\ Attempts \in SUBSET Failed
      /\ clock \in Nat /\ pollTime \in 0..clock /\ pollTime \in Nat
      /\ FailAfter \in Nat
  BY TimesOf
<1>1. /\ \A t \in PollTimes : t <= pollTime
      /\ pollTime \notin Failed \cup Off \cup Mined
      /\ pollTime = clock => polled
      /\ clock \in PollTimes => polled
      /\ Failed \cap Off = {} /\ Failed \cap Mined = {}
  BY DEF ClockInv, OnePollATick
<1>2. /\ a \in LogActions /\ a \in LogActions \ {"attention_cleared"}
      /\ a \notin ResetActions /\ a \notin {"none"} /\ a \notin {"waiting_to_restart"}
  BY Kinds DEF LogActions
<1>3. Adds(events, pollTime, a)
  BY <1>0, <1>2, Numbers, RecordAdds
<1>4. /\ PollTimes' = PollTimes \cup {pollTime} /\ Failed' = Failed \cup {pollTime}
      /\ Off' = Off /\ Mined' = Mined
  BY <1>2, <1>3 DEF Adds, PollTimes, Failed, Off, Mined
<1>5. /\ Waited' = Waited /\ Attempts' \subseteq Attempts \cup {pollTime}
      /\ GrownFrom(events', events) /\ Waits' \subseteq DOMAIN events
  BY <1>2, <1>3 DEF Adds, Waits, Waited, Attempts, Rows
<1>6. OnePollATick'
  BY <1>1, <1>4 DEF OnePollATick
<1>7. \A t \in 0..clock : Confirmed(t) => Confirmed(t)'
  BY <1>0, <1>1, <1>4, PromisesStay
<1>8. AttemptIsConfirmed' /\ NobodyWaitsForNothing'
  BY <1>5 DEF ClockInv, AttemptIsConfirmed, NobodyWaitsForNothing, Waited
<1>9. ConfirmedBeforeAttempt'
  <2>1. \A t \in Attempts : t \in 0..clock /\ Confirmed(t)
    BY <1>0, PromisesAre DEF ClockInv
  <2>2. Confirmed(pollTime)
    BY DEF ClockInv, AttemptIsConfirmed
  <2>3. \A t \in Attempts \cup {pollTime} : t \in 0..clock /\ Confirmed(t)
    BY <1>0, <2>1, <2>2
  <2> QED
    BY <1>5, <1>7, <2>3, PromisesAre
<1>10. WaitIsBounded'
  <2>1. PollTimes \subseteq 0..pollTime
    BY <1>0, <1>1
  <2>2. \A i \in Waits' : i \in DOMAIN events => Sure(i)'
    BY <1>0, <1>4, <1>5, <2>1, WaitsStay
  <2> QED
    BY <1>5, <2>2, PromisesAre
<1> QED
  BY <1>6, <1>8, <1>9, <1>10 DEF ClockInv

\* Steps that tell of no poll: time passes, and rows are nobody's reading.
LEMMA NothingToldKeepsClock ==
    ASSUME TypeOK, TypeOK', ClockInv,
           \A A \in {LogActions \ {"attention_cleared"}, FailureActions, ResetActions, {"none"},
                     {"waiting_to_restart"}, AttemptActions} : Times(events', A) = Times(events, A),
           events' = events \/ NoNewWait,
           clock' >= clock, clock' = clock => polled' = polled,
           InFlight' => InFlight /\ pollTime' = pollTime
    PROVE  ClockInv'
<1>0. /\ PollTimes \in SUBSET (0..clock) /\ clock \in Nat /\ clock' \in Nat
      /\ pollTime \in 0..clock
  <2>1. clock' \in Nat
    BY WatchdogConstants DEF WatchdogConstants, TypeOK
  <2> QED
    BY <2>1, TimesOf
<1>1. /\ PollTimes' = PollTimes /\ Failed' = Failed /\ Off' = Off /\ Mined' = Mined
      /\ Waited' = Waited /\ Attempts' = Attempts
  BY DEF PollTimes, Failed, Off, Mined, Waited, Attempts
<1>2. OnePollATick'
  <2>1. clock' \in PollTimes => clock' = clock /\ polled
    BY <1>0 DEF ClockInv, OnePollATick
  <2>2. InFlight => (pollTime = clock' => clock' = clock /\ polled)
    BY <1>0 DEF ClockInv, OnePollATick
  <2> QED
    BY <1>1, <2>1, <2>2 DEF ClockInv, OnePollATick
<1>3. \A t : Confirmed(t) => Confirmed(t)'
  BY <1>1 DEF Confirmed
<1>4. AttemptIsConfirmed' /\ NobodyWaitsForNothing'
  BY <1>1, <1>3 DEF ClockInv, AttemptIsConfirmed, NobodyWaitsForNothing, Waited
<1>5. ConfirmedBeforeAttempt'
  BY <1>1, <1>3, PromisesAre DEF ClockInv
<1>6. NoNewWait
  BY DEF NoNewWait, GrownFrom, Waits, Rows
<1>7. WaitIsBounded'
  <2>1. \A i \in Waits' : i \in DOMAIN events /\ Sure(i)'
    BY <1>0, <1>1, <1>6, WaitsStay DEF NoNewWait
  <2> QED
    BY <2>1, PromisesAre
<1> QED
  BY <1>2, <1>4, <1>5, <1>7 DEF ClockInv

\* A poll that the watchdog only sees written keeps the clock, and so does what
\* never touches it.
LEMMA UnjudgedKeepsClock ==
    ASSUME TypeOK, TypeOK', ClockInv, NEW r, Unjudged(r),
           \/ pc = "idle" /\ ~polled /\ polled' /\ events' = Polled(r)
           \/ UNCHANGED <<events, polled>>
    PROVE  ClockInv'
<1>1. clock' = clock /\ (InFlight' => InFlight /\ pollTime' = pollTime)
  BY DEF Unjudged, InFlight
<1>2. CASE pc = "idle" /\ ~polled /\ polled' /\ events' = Polled(r)
  <2>1. ~InFlight'
    BY <1>1, <1>2 DEF InFlight
  <2> QED
    BY <1>1, <1>2, <2>1, ReadingTells, PollKeepsClock DEF NoNewWait
<1>3. CASE UNCHANGED <<events, polled>>
  <2>1. clock \in Nat
    BY TimesOf
  <2> QED
    BY <1>1, <1>3, <2>1, NothingToldKeepsClock
<1> QED
  BY <1>2, <1>3

LEMMA InitClock == Init => ClockInv
<1> SUFFICES ASSUME Init PROVE ClockInv
  OBVIOUS
<1>1. events = <<>> /\ ~InFlight
  BY DEF Init, InFlight
<1>2. \A A : Times(events, A) = {}
  BY <1>1 DEF Times, Rows
<1>3. /\ PollTimes = {} /\ Failed = {} /\ Off = {} /\ Mined = {} /\ Waited = {} /\ Attempts = {}
      /\ Waits = {}
  BY <1>1, <1>2 DEF PollTimes, Failed, Off, Mined, Waits, Waited, Attempts, Rows
<1>4. ConfirmedBeforeAttempt /\ WaitIsBounded
  BY <1>3, PromisesAre
<1> QED
  BY <1>1, <1>3, <1>4
     DEF ClockInv, OnePollATick, AttemptIsConfirmed, NobodyWaitsForNothing, Waited

\* With the types, ClockInv is inductive.
LEMMA StepKeepsClock == TypeOK /\ ClockInv /\ [Next]_vars => ClockInv'
<1> SUFFICES ASSUME TypeOK, ClockInv, [Next]_vars PROVE ClockInv'
  OBVIOUS
<1>0. /\ TypeOK' /\ clock \in Nat /\ events \in Seq(RowType(LogActions))
  BY StepTyped, TimesOf, Numbers
<1>1. CASE PollStep
  BY <1>0, <1>1, PollStepKeepsClock
<1>2. ASSUME UNCHANGED <<clock, polled, events>>, InFlight' => InFlight /\ pollTime' = pollTime
      PROVE  ClockInv'
  BY <1>0, <1>2, NothingToldKeepsClock
<1>3. ASSUME NEW a \in PowerAnswers, PowerAnswered(a)
      PROVE  ClockInv'
  <2>1. pc = "asking" /\ InFlight /\ UNCHANGED <<clock, polled>>
    BY <1>3 DEF PowerAnswered, InFlight
  <2>2. {"skipped_asleep", "would_restart"} \subseteq FailureActions \ {"waiting_to_restart"}
    BY DEF FailureActions
  <2>3. CASE HoldsBack(a)
    BY <1>0, <1>3, <2>1, <2>2, <2>3, DecidedKeepsClock DEF PowerAnswered, InFlight
  <2>4. CASE ~HoldsBack(a)
    <3>1. Actuate(events, attempts, pollTime)
      BY <1>3, <2>4 DEF PowerAnswered
    <3>2. CASE mode.live
      BY <1>2, <2>1, <3>1, <3>2 DEF Actuate
    <3>3. CASE ~mode.live
      BY <1>0, <2>1, <2>2, <3>1, <3>3, DecidedKeepsClock DEF Actuate, InFlight
    <3> QED
      BY <3>2, <3>3
  <2> QED
    BY <2>3, <2>4
<1>4. ASSUME NEW o \in Outcomes, Recovered(o)
      PROVE  ClockInv'
  <2>1. o \in FailureActions \ {"waiting_to_restart"}
    BY WatchdogConstants DEF WatchdogConstants, FailureActions
  <2> QED
    BY <1>0, <1>4, <2>1, DecidedKeepsClock DEF Recovered, InFlight
<1>5. CASE Tick
  BY <1>0, <1>5, NothingToldKeepsClock DEF Tick, InFlight
<1>6. CASE Start
  BY <1>2, <1>6 DEF Start, InFlight
<1>7. CASE Crash
  BY <1>2, <1>7 DEF Crash, InFlight
<1>8. CASE ClearAttention
  <2>1. "attention_cleared" \in LogActions /\ "attention_cleared" \notin AttemptActions
    BY DEF LogActions, AttemptActions
  <2>2. Adds(events, clock, "attention_cleared") /\ events' = Record(events, clock, "attention_cleared")
    BY <1>0, <1>8, <2>1, RecordAdds DEF ClearAttention
  <2>3. /\ \A A \in {LogActions \ {"attention_cleared"}, FailureActions, ResetActions, {"none"},
                     {"waiting_to_restart"}, AttemptActions} : Times(events', A) = Times(events, A)
        /\ NoNewWait
    BY <2>1, <2>2, Kinds DEF Adds, NoNewWait, Waits, Rows
  <2> QED
    BY <1>0, <1>8, <2>3, NothingToldKeepsClock DEF ClearAttention, InFlight
<1>9. CASE HorizonReached \/ UNCHANGED vars
  BY <1>2, <1>9 DEF HorizonReached, vars, InFlight
<1> QED
  BY <1>1, <1>3, <1>4, <1>5, <1>6, <1>7, <1>8, <1>9 DEF Next, AwaitStep

\* ClockInv holds in every reachable state of every accepted policy.
THEOREM ClockInvariantHolds == Spec => []ClockInv
BY InitClock, StepKeepsClock, TypeCorrect, PTL DEF Spec

\* fail_after_seconds: no attempt is recorded on a failure that had not lasted,
\* nor through a time the miner was seen legitimately off.
THEOREM AttemptsAreConfirmed == Spec => []ConfirmedBeforeAttempt
<1>1. ClockInv => ConfirmedBeforeAttempt
  BY DEF ClockInv
<1> QED
  BY <1>1, ClockInvariantHolds, PTL

\* Nobody waits longer than fail_after_seconds for a failure that nothing
\* interrupted and that the failure clock still read back.
THEOREM WaitsAreBounded == Spec => []WaitIsBounded
<1>1. ClockInv => WaitIsBounded
  BY DEF ClockInv
<1> QED
  BY <1>1, ClockInvariantHolds, PTL
=============================================================================
