---------------------------- MODULE SleeperProofs ----------------------------
(***************************************************************************)
(* The sleep controller for every value of its constants: first its types, *)
(* then its promises, which follow from IInv, and that IInv is inductive.  *)
(***************************************************************************)
EXTENDS SleeperInvariant, EventLogProofs

RowsUpTo(now) == [ts : 0..now, action : LogActions]

LEMMA LogTyped ==
    ASSUME TypeOK
    PROVE  /\ events \in Seq(RowsUpTo(clock)) /\ events \in Seq(RowType(LogActions))
           /\ clock \in Nat /\ clock \in 0..clock
<1>1. clock \in Nat /\ clock \in 0..clock
  BY SleeperConstants DEF SleeperConstants, TypeOK
<1>2. RowsUpTo(clock) \subseteq RowType(LogActions)
  BY <1>1 DEF RowsUpTo, RowType
<1>3. events \in Seq(RowsUpTo(clock))
  BY DEF TypeOK, RowsUpTo
<1> QED
  BY <1>1, <1>2, <1>3, SeqMonotonic

\* Appending a row stamped no later than c keeps a log of such rows.
LEMMA RecordTyped ==
    ASSUME NEW c \in Nat, NEW log \in Seq(RowsUpTo(c)),
           NEW t \in 0..c, NEW a \in LogActions
    PROVE  Record(log, t, a) \in Seq(RowsUpTo(c))
<1>1. Row(t, a) \in RowsUpTo(c)
  BY DEF Row, RowsUpTo
<1> QED
  BY <1>1 DEF Record

-----------------------------------------------------------------------------
(***************************************************************************)
(* The memory.                                                             *)
(***************************************************************************)

LEMMA BlankTyped ==
    ASSUME NEW c \in Nat
    PROVE  Blank \in Memory(c)
  BY DEF Blank, Memory, Moment

LEMMA HydratedTyped ==
    ASSUME TypeOK
    PROVE  Hydrated(events) \in Memory(clock)
<1> DEFINE Newest(A) == LastActionIn(events, A)
<1>1. \A A : Newest(A).ts \in Moment(clock)
  <2> SUFFICES ASSUME NEW A PROVE Newest(A).ts \in Moment(clock)
    OBVIOUS
  <2>1. CASE Rows(events, A) = {}
    BY <2>1 DEF LastActionIn, Row, Moment
  <2>2. CASE Rows(events, A) # {}
    <3>1. PICK k \in Rows(events, A) : Newest(A) = events[k]
      BY <2>2, LogTyped, NewestIsSelected DEF RowsUpTo
    <3>2. k \in DOMAIN events
      BY DEF Rows
    <3>3. events[k] \in RowsUpTo(clock)
      BY <3>2, LogTyped, ElementOfSeq, LenProperties
    <3> QED
      BY <3>1, <3>3 DEF RowsUpTo, Moment
  <2> QED
    BY <2>1, <2>2
<1>2. HydratedFailures(events) \in Nat
  <2>1. RecentFailures(events) = Cardinality({i \in Rows(events, FailureActions) :
            \A j \in Rows(events, {"sleep", "wake", "sleep_attention_cleared"}) :
               Older(events, j, i)})
    BY DEF RecentFailures
  <2>2. IsFiniteSet(Rows(events, FailureActions))
    BY LogTyped, FiniteRows
  <2> QED
    BY <2>1, <2>2, FS_Subset, FS_CardinalityType DEF HydratedFailures
<1>3. IsLatched(events) \in BOOLEAN
  BY DEF IsLatched
<1>4. NoTime \in Moment(clock)
  BY DEF Moment
<1>5. /\ LastPower(events).ts \in Moment(clock)
      /\ LastAttempt(events).ts \in Moment(clock)
  BY <1>1 DEF LastPower, LastAttempt
<1> HIDE DEF Newest
<1>6. Blank \in Memory(clock)
  BY BlankTyped, LogTyped
<1> QED
  BY <1>2, <1>3, <1>4, <1>5, <1>6 DEF Hydrated, Memory

LEMMA SeenTyped ==
    ASSUME TypeOK, NEW s
    PROVE  Seen(s) \in Memory(clock) /\ SeenLog(s) \in Seq(RowsUpTo(clock))
<1>1. mem \in Memory(clock) /\ NoTime \in Moment(clock)
  BY DEF TypeOK, Moment
<1>2. ASSUME NEW m \in Memory(clock) PROVE Ineffective(m) \in Memory(clock)
  <2>1. \A n \in Nat, b \in BOOLEAN :
           [m EXCEPT !.asleep = NoTime, !.ineffective = n, !.attention = b]
              \in Memory(clock)
    BY <1>1 DEF Memory
  <2>2. m.ineffective + 1 \in Nat
    BY DEF Memory
  <2>3. (m.attention \/ m.ineffective + 1 >= MaxFailures) \in BOOLEAN
    OBVIOUS
  <2> QED
    BY <2>1, <2>2, <2>3 DEF Ineffective
<1>7. [mem EXCEPT !.uncertain = FALSE] \in Memory(clock)
  BY <1>1 DEF Memory
<1>3. Seen(s) \in Memory(clock)
  BY <1>1, <1>2, <1>7 DEF Seen
<1>4. {"awake", "sleep_needs_attention"} \subseteq LogActions
  BY DEF LogActions, PowerActions, AttentionActions
<1>5. Record(events, clock, "awake") \in Seq(RowsUpTo(clock))
  BY <1>4, LogTyped, RecordTyped
<1>6. Record(Record(events, clock, "awake"), clock, "sleep_needs_attention")
        \in Seq(RowsUpTo(clock))
  BY <1>4, <1>5, LogTyped, RecordTyped
<1> QED
  BY <1>3, <1>5, <1>6, LogTyped DEF SeenLog

LEMMA JudgedTyped ==
    ASSUME TypeOK, NEW m \in Memory(clock), NEW s
    PROVE  Judged(m, s) \in Memory(clock)
<1>1. NoTime \in Moment(clock)
  BY DEF Moment
<1> QED
  BY <1>1 DEF Judged, Memory

LEMMA LatchedTyped ==
    ASSUME TypeOK, NEW m \in Memory(clock), NEW to, NEW now \in 0..clock,
           NEW simulated \in BOOLEAN
    PROVE  Latched(m, to, now, simulated) \in Memory(clock)
<1>1. NoTime \in Moment(clock) /\ now \in Moment(clock)
  BY DEF Moment
<1> QED
  BY <1>1 DEF Latched, Memory

LEMMA SwitchedTyped ==
    ASSUME TypeOK, NEW asleep \in BOOLEAN
    PROVE  Switched(asleep) \in [asleep : BOOLEAN, since : Moment(clock)]
  BY LogTyped DEF Switched, TypeOK, Moment

-----------------------------------------------------------------------------
(***************************************************************************)
(* Type correctness.                                                       *)
(***************************************************************************)

LEMMA InitTyped == Init => TypeOK
<1> SUFFICES ASSUME Init PROVE TypeOK
  OBVIOUS
<1>1. events \in Seq([ts : 0..clock, action : LogActions])
  BY EmptySeq DEF Init
<1>2. clock = 0 /\ clock \in 0..MaxClock /\ crashes \in 0..MaxCrashes
      /\ byHand \in 0..MaxByHand
  BY SleeperConstants DEF SleeperConstants, Init
<1>3. mem \in Memory(clock)
  BY <1>2, BlankTyped DEF Init
<1>4. miner \in [asleep : BOOLEAN, since : Moment(clock)]
  BY DEF Init, Moment
<1>5. pollTime \in 0..clock /\ torn \in 0..crashes
  BY DEF Init
<1> QED
  BY <1>1, <1>2, <1>3, <1>4, <1>5 DEF Init, TypeOK

\* A step of the service that leaves the counters alone keeps the types.
LEMMA ServiceStepTyped ==
    ASSUME TypeOK, UNCHANGED <<clock, mode, torn, lost, bounded>>,
           polled' \in BOOLEAN, events' \in Seq(RowsUpTo(clock)),
           miner' \in [asleep : BOOLEAN, since : Moment(clock)],
           pc' \in {"idle", "sleeping", "waking", "latching"},
           pollTime' \in 0..clock, mem' \in Memory(clock),
           handed' \in States \cup {"none"}
    PROVE  TypeOK'
  BY DEF TypeOK, bounded, RowsUpTo

LEMMA PollTyped ==
    ASSUME TypeOK, PollStep
    PROVE  TypeOK'
<1>0. PICK s \in States :
         \/ Own(s) \/ Release(s)
         \/ \E to \in {"sleep", "wake"} :
               SkipForCooldown(s, to) \/ Rehearse(s, to) \/ Send(s, to)
  BY DEF PollStep, Polls
<1>1. /\ Seen(s) \in Memory(clock) /\ SeenLog(s) \in Seq(RowsUpTo(clock))
      /\ Judged(Seen(s), s) \in Memory(clock)
  BY SeenTyped, JudgedTyped
<1>2. /\ clock \in Nat /\ clock \in 0..clock /\ clock \in Moment(clock)
      /\ pollTime \in 0..clock /\ polled \in BOOLEAN
      /\ miner \in [asleep : BOOLEAN, since : Moment(clock)]
  BY LogTyped DEF TypeOK, Moment
<1>3. \A a \in LogActions : Record(SeenLog(s), clock, a) \in Seq(RowsUpTo(clock))
  BY <1>1, <1>2, RecordTyped
<1>4. CASE Own(s)
  BY <1>1, <1>2, <1>4, ServiceStepTyped DEF Own, Poll
<1>5. CASE Release(s)
  BY <1>1, <1>2, <1>5, ServiceStepTyped DEF Release, Poll
<1>6. ASSUME NEW to \in {"sleep", "wake"}, SkipForCooldown(s, to)
      PROVE  TypeOK'
  <2>1. mem' \in Memory(clock)
    BY <1>1, <1>6 DEF SkipForCooldown, Memory
  <2>2. {"skipped_sleep_cooldown", "skipped_wake_cooldown"} \subseteq LogActions
    BY DEF LogActions
  <2>3. events' \in Seq(RowsUpTo(clock))
    BY <1>1, <1>3, <1>6, <2>2 DEF SkipForCooldown
  <2> QED
    BY <1>2, <1>6, <2>1, <2>3, ServiceStepTyped DEF SkipForCooldown, Transition, Poll
<1>7. ASSUME NEW to \in {"sleep", "wake"}, Rehearse(s, to)
      PROVE  TypeOK'
  <2>1. [Judged(Seen(s), s) EXCEPT !.lastAttempt = clock] \in Memory(clock)
    BY <1>1, <1>2 DEF Memory
  <2>2. mem' \in Memory(clock)
    BY <1>2, <1>7, <2>1, LatchedTyped DEF Rehearse
  <2>3. {"would_sleep", "would_wake"} \subseteq LogActions
    BY DEF LogActions
  <2>4. events' \in Seq(RowsUpTo(clock))
    BY <1>3, <1>7, <2>3 DEF Rehearse
  <2> QED
    BY <1>2, <1>7, <2>2, <2>4, ServiceStepTyped DEF Rehearse, Transition, Poll
<1>8. ASSUME NEW to \in {"sleep", "wake"}, Send(s, to)
      PROVE  TypeOK'
  <2>1. mem' \in Memory(clock)
    BY <1>1, <1>2, <1>8 DEF Send, Memory
  <2> QED
    BY <1>1, <1>2, <1>8, <2>1, ServiceStepTyped DEF Send, Transition, Poll
<1> QED
  BY <1>0, <1>4, <1>5, <1>6, <1>7, <1>8

LEMMA AwaitTyped ==
    ASSUME TypeOK, AwaitStep
    PROVE  TypeOK'
<1>1. /\ clock \in Nat /\ pollTime \in 0..clock /\ mem \in Memory(clock)
      /\ polled \in BOOLEAN /\ handed \in States \cup {"none"}
      /\ miner \in [asleep : BOOLEAN, since : Moment(clock)]
      /\ events \in Seq(RowsUpTo(clock))
  BY LogTyped DEF TypeOK
<1>2. \A a \in LogActions : Record(events, pollTime, a) \in Seq(RowsUpTo(clock))
  BY <1>1, RecordTyped
<1>3. \A a \in {"sleep", "wake", "sleep_failed", "wake_failed",
               "sleep_needs_attention"} : a \in LogActions
  BY DEF LogActions, ActuationActions, FailureActions, AttentionActions
<1>4. CASE LatchAttention
  <2>1. mem' \in Memory(clock)
    BY <1>1, <1>4 DEF LatchAttention, Memory
  <2> QED
    BY <1>1, <1>2, <1>3, <1>4, <2>1, ServiceStepTyped DEF LatchAttention
<1>5. ASSUME NEW a \in Answers, Returns(a)
      PROVE  /\ miner' \in [asleep : BOOLEAN, since : Moment(clock)]
             /\ UNCHANGED <<clock, mode, torn, lost, bounded>>
             /\ UNCHANGED <<polled, pollTime, handed>>
  <2>1. Switched(pc = "sleeping") \in [asleep : BOOLEAN, since : Moment(clock)]
    BY SwitchedTyped
  <2> QED
    BY <1>1, <1>5, <2>1 DEF Returns
<1>6. ASSUME NEW a \in Answers, Acknowledged(a) PROVE TypeOK'
  <2>1. mem' \in Memory(clock)
    BY <1>1, <1>6, LatchedTyped DEF Acknowledged
  <2>2. events' \in Seq(RowsUpTo(clock)) /\ pc' = "idle"
    BY <1>2, <1>3, <1>6 DEF Acknowledged
  <2>3. Returns(a)
    BY <1>6 DEF Acknowledged
  <2> QED
    BY <1>1, <1>5, <2>1, <2>2, <2>3, ServiceStepTyped
<1>7. ASSUME NEW a \in Answers, Failed(a) PROVE TypeOK'
  <2>1. \A n \in Nat, b \in BOOLEAN :
           [mem EXCEPT !.failures = n, !.uncertain = b] \in Memory(clock)
    BY <1>1 DEF Memory
  <2>2. mem.failures + 1 \in Nat
    BY <1>1 DEF Memory
  <2>3. (mem.uncertain \/ pc = "sleeping") \in BOOLEAN
    OBVIOUS
  <2>4. mem' \in Memory(clock)
    BY <1>7, <2>1, <2>2, <2>3 DEF Failed
  <2>5. events' \in Seq(RowsUpTo(clock)) /\ pc' \in {"idle", "latching"}
    BY <1>2, <1>3, <1>7 DEF Failed
  <2>6. Returns(a)
    BY <1>7 DEF Failed
  <2> QED
    BY <1>1, <1>5, <2>4, <2>5, <2>6, ServiceStepTyped
<1> QED
  BY <1>4, <1>6, <1>7 DEF AwaitStep

LEMMA StepTyped == TypeOK /\ [Next]_vars => TypeOK'
<1> SUFFICES ASSUME TypeOK, [Next]_vars PROVE TypeOK'
  OBVIOUS
<1>0. clock \in Nat /\ clock \in 0..clock /\ events \in Seq(RowsUpTo(clock))
  BY LogTyped
<1>1. CASE PollStep
  BY <1>1, PollTyped
<1>2. CASE AwaitStep
  BY <1>2, AwaitTyped
<1>3. CASE Tick
  <2>1. RowsUpTo(clock) \subseteq RowsUpTo(clock + 1)
    BY <1>0 DEF RowsUpTo
  <2>2. events \in Seq(RowsUpTo(clock + 1))
    BY <1>0, <2>1, SeqMonotonic
  <2>3. Moment(clock) \subseteq Moment(clock + 1)
    BY <1>0 DEF Moment
  <2>4. /\ mem \in Memory(clock + 1)
        /\ miner \in [asleep : BOOLEAN, since : Moment(clock + 1)]
    BY <2>3 DEF TypeOK, Memory
  <2>5. /\ clock + 1 \in 0..MaxClock /\ pollTime \in 0..(clock + 1)
    BY <1>0, <1>3, SleeperConstants DEF Tick, TypeOK, SleeperConstants
  <2> QED
    BY <1>3, <2>2, <2>4, <2>5 DEF Tick, TypeOK, bounded, RowsUpTo
<1>4. CASE Start
  <2>1. mem' \in Memory(clock)
    BY <1>4, HydratedTyped DEF Start
  <2> QED
    BY <1>4, <2>1 DEF Start, TypeOK, bounded
<1>5. CASE Crash
  <2>1. mem' \in Memory(clock)
    BY <1>0, <1>5, BlankTyped DEF Crash
  <2>2. /\ miner' \in [asleep : BOOLEAN, since : Moment(clock)]
        /\ lost' \in BOOLEAN
    <3>1. Switched(pc = "sleeping") \in [asleep : BOOLEAN, since : Moment(clock)]
      BY SwitchedTyped
    <3>2. (lost \/ pc = "sleeping") \in BOOLEAN
      OBVIOUS
    <3> QED
      BY <1>5, <3>1, <3>2 DEF Crash, TypeOK
  <2>3. crashes' \in 0..MaxCrashes /\ torn' \in 0..crashes'
    BY <1>5, SleeperConstants DEF Crash, TypeOK, SleeperConstants
  <2> QED
    BY <1>5, <2>1, <2>2, <2>3 DEF Crash, TypeOK
<1>6. CASE WokenByHand
  <2>1. miner' \in [asleep : BOOLEAN, since : Moment(clock)]
    BY <1>6, SwitchedTyped DEF WokenByHand
  <2>2. byHand' \in 0..MaxByHand
    BY <1>6, SleeperConstants DEF WokenByHand, TypeOK, SleeperConstants
  <2> QED
    BY <1>6, <2>1, <2>2 DEF WokenByHand, TypeOK
<1>7. CASE HorizonReached \/ UNCHANGED vars
  BY <1>7 DEF HorizonReached, vars, bounded, TypeOK
<1> QED
  BY <1>1, <1>2, <1>3, <1>4, <1>5, <1>6, <1>7 DEF Next

\* The values every variable takes: no row and no belief is younger than
\* the clock, and only actions the code writes are in the log.
THEOREM TypeCorrect == Spec => []TypeOK
BY InitTyped, StepTyped, PTL DEF Spec

-----------------------------------------------------------------------------
(***************************************************************************)
(* What the controller reads back out of a log, and how a row changes it.  *)
(***************************************************************************)

LastOf(log, t) == \A i \in DOMAIN log : log[i].ts <= t

\* The failures counted are those after the last success.
LEMMA FailuresAfter ==
    ASSUME NEW log \in Seq(RowType(LogActions)), Ordered(log), NEW t \in Nat,
           LastOf(log, t), NEW a \in LogActions
    PROVE  /\ RecentFailures(log) \in Nat
           /\ RecentFailures(Record(log, t, a)) =
                 IF a \in FailureActions THEN RecentFailures(log) + 1
                 ELSE IF a \in {"sleep", "wake", "sleep_attention_cleared"} THEN 0
                 ELSE RecentFailures(log)
<1> DEFINE new == Record(log, t, a)
           Forgets == {"sleep", "wake", "sleep_attention_cleared"}
           Counted(l) == {i \in Rows(l, FailureActions) :
                             \A j \in Rows(l, Forgets) : Older(l, j, i)}
           last == Len(log) + 1
<1>1. /\ new \in Seq(RowType(LogActions)) /\ Len(new) = last
      /\ \A i \in DOMAIN log : new[i] = log[i]
      /\ new[last] = Row(t, a)
  <2> HIDE DEF last
  <2> QED
    BY RecordRows DEF last
<1>2. \A A : Rows(new, A) = IF a \in A THEN Rows(log, A) \cup {last} ELSE Rows(log, A)
  BY RecordRows
<1>3. \A A : Rows(log, A) \subseteq 1..Len(log) /\ Len(log) \in Nat
  BY FiniteRows
<1>4. DOMAIN log = 1..Len(log)
  BY LenProperties
<1>5. \A i \in 1..Len(log) : log[i].ts \in Nat /\ log[i].ts <= t
  <2>1. \A i \in 1..Len(log) : log[i] \in RowType(LogActions)
    BY ElementOfSeq
  <2> QED
    BY <1>4, <2>1 DEF RowType, LastOf
<1>6. new[last].ts = t
  BY <1>1 DEF Row
<1> HIDE DEF new
<1>7. \A i, j \in 1..Len(log) : Older(new, j, i) <=> Older(log, j, i)
  BY <1>1, <1>4 DEF Older
<1>8. \A j \in 1..Len(log) : Older(new, j, last) /\ ~Older(new, last, j)
  <2> TAKE j \in 1..Len(log)
  <2>1. new[j].ts \in Nat /\ new[j].ts <= t /\ j < last /\ j \in Int /\ last \in Int
    BY <1>1, <1>3, <1>4, <1>5
  <2> HIDE DEF last
  <2> QED
    BY <1>6, <2>1 DEF Older
<1>9. IsFiniteSet(Counted(log)) /\ Cardinality(Counted(log)) \in Nat
  BY FiniteRows, FS_Subset, FS_CardinalityType
<1>10. RecentFailures(log) = Cardinality(Counted(log))
       /\ RecentFailures(new) = Cardinality(Counted(new))
  BY DEF RecentFailures
<1>11. CASE a \in FailureActions
  <2>1. a \notin Forgets
    BY <1>11 DEF FailureActions
  <2>2. Counted(new) = Counted(log) \cup {last}
    BY <1>2, <1>3, <1>7, <1>8, <1>11, <2>1
  <2>3. last \notin Counted(log)
    BY <1>3
  <2>4. Cardinality(Counted(log) \cup {last}) = Cardinality(Counted(log)) + 1
    BY <1>9, <2>3, FS_AddElement
  <2> QED
    BY <1>9, <1>10, <1>11, <2>2, <2>4 DEF new
<1>12. CASE a \in Forgets
  <2>1. a \notin FailureActions
    BY <1>12 DEF FailureActions
  <2>2. Counted(new) = {}
    BY <1>2, <1>3, <1>8, <1>12, <2>1
  <2>3. Cardinality(Counted(new)) = 0
    BY <2>2, FS_EmptySet
  <2> QED
    BY <1>9, <1>10, <1>12, <2>1, <2>3 DEF new
<1>13. CASE a \notin FailureActions \cup Forgets
  <2>1. Counted(new) = Counted(log)
    BY <1>2, <1>3, <1>7, <1>13
  <2> QED
    BY <1>9, <1>10, <1>13, <2>1 DEF new
<1> QED
  BY <1>11, <1>12, <1>13

\* A row no older than the log settles the queries that select it.
LEMMA QueriesAfter ==
    ASSUME NEW log \in Seq(RowType(LogActions)), Ordered(log), NEW t \in Nat,
           LastOf(log, t), NEW a \in LogActions
    PROVE  /\ Ordered(Record(log, t, a)) /\ LastOf(Record(log, t, a), t)
           /\ LastPower(Record(log, t, a)) =
                 IF a \in PowerActions THEN Row(t, a) ELSE LastPower(log)
           /\ LastAttempt(Record(log, t, a)) =
                 IF a \in ActuationActions THEN Row(t, a) ELSE LastAttempt(log)
           /\ IsLatched(Record(log, t, a)) =
                 IF a \in AttentionActions THEN a = "sleep_needs_attention"
                 ELSE IsLatched(log)
<1>1. /\ Ordered(Record(log, t, a))
      /\ \A i \in DOMAIN Record(log, t, a) : Record(log, t, a)[i].ts <= t
      /\ \A A : LastActionIn(Record(log, t, a), A) =
                   IF a \in A THEN Row(t, a) ELSE LastActionIn(log, A)
  BY RecordNewest DEF LastOf
<1>2. Row(t, a).action = a
  BY DEF Row
<1> QED
  BY <1>1, <1>2 DEF LastOf, LastPower, LastAttempt, IsLatched

\* A row that is no command leaves the recorded commands alone; refuted
\* sleeps are counted by their rows.
LEMMA CountsAfter ==
    ASSUME NEW log \in Seq(RowType(LogActions)), NEW t \in Nat, NEW a \in LogActions
    PROVE  /\ a \notin ActuationActions =>
                 /\ Rows(Record(log, t, a), ActuationActions) = Rows(log, ActuationActions)
                 /\ \A i \in Rows(log, ActuationActions) : Record(log, t, a)[i] = log[i]
           /\ Cardinality(Rows(log, RefutedActions)) \in Nat
           /\ Cardinality(Rows(Record(log, t, a), RefutedActions)) =
                 IF a \in RefutedActions THEN Cardinality(Rows(log, RefutedActions)) + 1
                 ELSE Cardinality(Rows(log, RefutedActions))
<1>1. /\ Rows(Record(log, t, a), ActuationActions) =
            IF a \in ActuationActions THEN Rows(log, ActuationActions) \cup {Len(log) + 1}
                                      ELSE Rows(log, ActuationActions)
      /\ \A i \in DOMAIN log : Record(log, t, a)[i] = log[i]
  BY RecordRows
<1>2. Rows(Record(log, t, a), RefutedActions) =
         IF a \in RefutedActions THEN Rows(log, RefutedActions) \cup {Len(log) + 1}
                            ELSE Rows(log, RefutedActions)
  BY RecordRows
<1>3. /\ Rows(log, RefutedActions) \subseteq 1..Len(log) /\ Len(log) \in Nat
      /\ IsFiniteSet(Rows(log, RefutedActions))
      /\ Cardinality(Rows(log, RefutedActions)) \in Nat
  BY FiniteRows
<1>4. Cardinality(Rows(log, RefutedActions) \cup {Len(log) + 1})
         = Cardinality(Rows(log, RefutedActions)) + 1
  <2>1. Len(log) + 1 \notin Rows(log, RefutedActions)
    BY <1>3
  <2> QED
    BY <1>3, <2>1, FS_AddElement
<1>5. Rows(log, ActuationActions) \subseteq DOMAIN log
  BY DEF Rows
<1> QED
  BY <1>1, <1>2, <1>3, <1>4, <1>5

\* What the memory of a live process owes to a log between its commands.
Agrees(m, log) ==
    /\ m.asleep = IF LastPower(log).action = "sleep" THEN LastPower(log).ts
                  ELSE NoTime
    /\ m.failures = RecentFailures(log)
    /\ m.attention = IsLatched(log)
    /\ m.uncertain => LastPower(log).action = "sleep_failed"
    /\ m.waking # NoTime => LastPower(log).action = "wake" /\ m.waking = LastPower(log).ts
    /\ ~m.simulated

LEMMA AgreesWithHydrated ==
    ASSUME NEW m, NEW log
    PROVE  /\ Agrees(m, log) =>
                 /\ m.asleep = Hydrated(log).asleep
                 /\ m.failures = Hydrated(log).failures
                 /\ m.attention = Hydrated(log).attention
                 /\ m.uncertain => Hydrated(log).uncertain
                 /\ m.waking \in {NoTime, Hydrated(log).waking}
                 /\ ~m.simulated
           /\ /\ m.asleep = Hydrated(log).asleep
              /\ m.failures = Hydrated(log).failures
              /\ m.attention = Hydrated(log).attention
              /\ m.uncertain => Hydrated(log).uncertain
              /\ m.waking \in {NoTime, Hydrated(log).waking}
              /\ ~m.simulated
              => Agrees(m, log)
           /\ Agrees(Hydrated(log), log)
           /\ Hydrated(log).lastAttempt = LastAttempt(log).ts
<1>1. /\ Hydrated(log).asleep = IF LastPower(log).action = "sleep"
                                THEN LastPower(log).ts ELSE NoTime
      /\ Hydrated(log).waking = IF LastPower(log).action = "wake"
                                THEN LastPower(log).ts ELSE NoTime
      /\ Hydrated(log).failures = RecentFailures(log)
      /\ Hydrated(log).attention = IsLatched(log)
      /\ Hydrated(log).uncertain = (LastPower(log).action = "sleep_failed")
      /\ Hydrated(log).lastAttempt = LastAttempt(log).ts
      /\ Hydrated(log).simulated = FALSE
  BY DEF Hydrated, Blank, HydratedFailures
<1>2. IsLatched(log) \in BOOLEAN
  BY DEF IsLatched
<1> QED
  BY <1>1, <1>2 DEF Agrees

\* The newest power row, if there is one, has a time.
LEMMA PowerRow ==
    ASSUME NEW n \in Nat, NEW log \in Seq(RowsUpTo(n))
    PROVE  LastPower(log).action \in PowerActions => LastPower(log).ts \in 0..n
<1>1. CASE Rows(log, PowerActions) = {}
  BY <1>1 DEF LastPower, LastActionIn, Row, PowerActions
<1>2. CASE Rows(log, PowerActions) # {}
  <2>1. PICK k \in Rows(log, PowerActions) : LastPower(log) = log[k]
    BY <1>2, NewestIsSelected DEF LastPower, RowsUpTo
  <2>2. k \in DOMAIN log
    BY DEF Rows
  <2>3. log[k] \in RowsUpTo(n)
    BY <2>2, ElementOfSeq, LenProperties
  <2> QED
    BY <2>1, <2>3 DEF RowsUpTo
<1> QED
  BY <1>1, <1>2

-----------------------------------------------------------------------------
(***************************************************************************)
(* What the log itself shows.                                              *)
(***************************************************************************)

Spaced(log) ==
    \A i, j \in Rows(log, ActuationActions) :
        i < j => log[j].ts - log[i].ts >= Cooldown

Wakes(log) ==
    \A i \in Rows(log, {"wake", "wake_failed"}) :
        LastActionIn(SubSeq(log, 1, i - 1), PowerActions).action
            \in {"sleep", "sleep_failed"}

Earns(log) ==
    RecentFailures(log) >= MaxFailures
        \/ Cardinality(Rows(log, RefutedActions)) >= MaxFailures

Earned(log) ==
    \A i \in Rows(log, {"sleep_needs_attention"}) : Earns(SubSeq(log, 1, i - 1))

SoundLog(log) == Ordered(log) /\ Spaced(log) /\ Wakes(log) /\ Earned(log)

LEMMA SoundEvents ==
    SoundLog(events) <=> /\ Ordered(events) /\ ActuationsSpaced
                         /\ WakesOnlyWhatItSlept /\ AttentionEarned
  BY DEF SoundLog, Spaced, Wakes, Earned, Earns, ActuationsSpaced,
         WakesOnlyWhatItSlept, AttentionEarned

\* A row changes no prefix of the log that was there before it.
LEMMA PrefixOfRecord ==
    ASSUME NEW log \in Seq(RowType(LogActions)), NEW t \in Nat, NEW a \in LogActions,
           NEW k \in 1..(Len(log) + 1)
    PROVE  /\ SubSeq(Record(log, t, a), 1, k - 1) = SubSeq(log, 1, k - 1)
           /\ SubSeq(log, 1, Len(log)) = log
<1>1. Row(t, a) \in RowType(LogActions)
  BY DEF Row, RowType
<1> QED
  BY <1>1 DEF Record

\* A row the controller may write keeps the history sound.
LEMMA SoundRecord ==
    ASSUME NEW log \in Seq(RowType(LogActions)), SoundLog(log), NEW t \in Nat,
           LastOf(log, t), NEW a \in LogActions,
           a \in ActuationActions =>
              \A i \in Rows(log, ActuationActions) : t - log[i].ts >= Cooldown,
           a \in {"wake", "wake_failed"} =>
              LastPower(log).action \in {"sleep", "sleep_failed"},
           a = "sleep_needs_attention" => Earns(log)
    PROVE  SoundLog(Record(log, t, a)) /\ LastOf(Record(log, t, a), t)
<1> DEFINE new == Record(log, t, a)
           last == Len(log) + 1
<1>1. /\ new \in Seq(RowType(LogActions)) /\ Len(new) = last
      /\ \A i \in DOMAIN log : new[i] = log[i]
      /\ new[last] = Row(t, a)
  <2> HIDE DEF last
  <2> QED
    BY RecordRows DEF last
<1>2. \A A : Rows(new, A) = IF a \in A THEN Rows(log, A) \cup {last} ELSE Rows(log, A)
  BY RecordRows
<1>3. \A A : Rows(log, A) \subseteq 1..Len(log) /\ Len(log) \in Nat
  BY FiniteRows
<1>4. DOMAIN log = 1..Len(log)
  BY LenProperties
<1>5. Ordered(new) /\ LastOf(new, t)
  BY QueriesAfter DEF SoundLog
<1>6. \A k \in 1..last : SubSeq(new, 1, k - 1) = SubSeq(log, 1, k - 1)
  BY PrefixOfRecord
<1>7. SubSeq(new, 1, last - 1) = log
  <2>1. last - 1 = Len(log) /\ last \in 1..last
    BY <1>3
  <2>2. SubSeq(log, 1, Len(log)) = log
    BY <1>3, PrefixOfRecord
  <2> QED
    BY <1>6, <2>1, <2>2
<1>8. new[last].ts = t
  BY <1>1 DEF Row
<1> HIDE DEF new
<1>9. Spaced(new)
  <2> SUFFICES ASSUME NEW i \in Rows(new, ActuationActions),
                      NEW j \in Rows(new, ActuationActions), i < j
               PROVE  new[j].ts - new[i].ts >= Cooldown
    BY DEF Spaced
  <2>1. CASE j \in Rows(log, ActuationActions)
    <3>1. i \in Rows(log, ActuationActions)
      BY <1>2, <1>3, <2>1
    <3> QED
      BY <1>1, <1>3, <1>4, <2>1, <3>1 DEF SoundLog, Spaced
  <2>2. CASE j = last /\ a \in ActuationActions
    <3>1. i \in Rows(log, ActuationActions)
      BY <1>2, <1>3, <2>2
    <3>2. t - log[i].ts >= Cooldown
      BY <2>2, <3>1
    <3>3. new[i] = log[i]
      BY <1>1, <1>3, <1>4, <3>1
    <3> QED
      BY <1>8, <2>2, <3>2, <3>3
  <2> QED
    BY <1>2, <2>1, <2>2
<1>10. Wakes(new)
  <2> SUFFICES ASSUME NEW i \in Rows(new, {"wake", "wake_failed"})
               PROVE  LastActionIn(SubSeq(new, 1, i - 1), PowerActions).action
                         \in {"sleep", "sleep_failed"}
    BY DEF Wakes
  <2>1. CASE i \in Rows(log, {"wake", "wake_failed"})
    <3>1. SubSeq(new, 1, i - 1) = SubSeq(log, 1, i - 1)
      BY <1>3, <1>6, <2>1
    <3> QED
      BY <2>1, <3>1 DEF SoundLog, Wakes
  <2>2. CASE i = last /\ a \in {"wake", "wake_failed"}
    BY <1>7, <2>2 DEF LastPower
  <2> QED
    BY <1>2, <2>1, <2>2
<1>11. Earned(new)
  <2> SUFFICES ASSUME NEW i \in Rows(new, {"sleep_needs_attention"})
               PROVE  Earns(SubSeq(new, 1, i - 1))
    BY DEF Earned
  <2>1. CASE i \in Rows(log, {"sleep_needs_attention"})
    <3>1. SubSeq(new, 1, i - 1) = SubSeq(log, 1, i - 1)
      BY <1>3, <1>6, <2>1
    <3> QED
      BY <2>1, <3>1 DEF SoundLog, Earned
  <2>2. CASE i = last /\ a = "sleep_needs_attention"
    BY <1>7, <2>2
  <2> QED
    BY <1>2, <2>1, <2>2
<1> QED
  BY <1>5, <1>9, <1>10, <1>11 DEF SoundLog, new

-----------------------------------------------------------------------------
(***************************************************************************)
(* Memory and log between two polls.                                       *)
(***************************************************************************)

Plain == {"would_sleep", "would_wake",
          "skipped_sleep_cooldown", "skipped_wake_cooldown"}

\* What IInv says of a memory and a log between two polls, but for the
\* reading handed over.
Sound(m, log) ==
    /\ SoundLog(log) /\ LastOf(log, clock)
    /\ mode = "live" => Agrees(m, log) /\ m.lastAttempt = LastAttempt(log).ts
    /\ \A i \in Rows(log, ActuationActions) : log[i].ts <= m.lastAttempt
    /\ m.ineffective <= Cardinality(Rows(log, RefutedActions))
    /\ IsLatched(log) \/ RecentFailures(log) < MaxFailures + torn
    /\ RecentFailures(log) <= MaxFailures + torn

LEMMA SoundBetweenPolls ==
    ASSUME TypeOK, IInv
    PROVE  /\ SoundLog(events) /\ LastOf(events, clock)
           /\ pc = "idle" => Sound(mem, events)
<1>1. SoundLog(events)
  BY SoundEvents DEF IInv, LogInOrder
<1>2. LastOf(events, clock)
  <2>1. \A i \in DOMAIN events : events[i] \in RowsUpTo(clock)
    BY LogTyped, ElementOfSeq, LenProperties
  <2> QED
    BY <2>1 DEF LastOf, RowsUpTo
<1>3. ASSUME pc = "idle" PROVE Sound(mem, events)
  <2>1. LatchSet <=> IsLatched(events)
    BY DEF LatchSet, IsLatched
  <2>2. mode = "live" => Agrees(mem, events) /\ mem.lastAttempt = LastAttempt(events).ts
    BY <1>3, AgreesWithHydrated DEF IInv, BeliefsAgree, Running, Sending
  <2> QED
    BY <1>1, <1>2, <1>3, <2>1, <2>2
       DEF Sound, IInv, CooldownIsKept, IneffectiveIsCounted, FailuresAreLatched,
           GivesUp, Running
<1> QED
  BY <1>1, <1>2, <1>3

LEMMA SoundAfterPoll ==
    ASSUME TypeOK, IInv, TypeOK', Sound(mem', events'), pc' = "idle",
           UNCHANGED <<clock, mode, torn>>,
           mode = "live" /\ handed' = "stopped" =>
              LastPower(events').action # "sleep"
    PROVE  IInv'
<1>1. SoundLog(events') <=> (Ordered(events) /\ ActuationsSpaced
                             /\ WakesOnlyWhatItSlept /\ AttentionEarned)'
  BY DEF SoundLog, Spaced, Wakes, Earned, Earns, ActuationsSpaced,
         WakesOnlyWhatItSlept, AttentionEarned
<1>2. LogInOrder' /\ (ActuationsSpaced /\ WakesOnlyWhatItSlept /\ AttentionEarned)'
  BY <1>1 DEF Sound, LogInOrder, Awaiting
<1>3. BeliefsAgree'
  BY AgreesWithHydrated DEF Sound, BeliefsAgree, Sending
<1>4. CooldownIsKept' /\ IneffectiveIsCounted'
  BY DEF Sound, CooldownIsKept, IneffectiveIsCounted
<1>5. FunnelStillHolds'
  BY DEF FunnelStillHolds, Awaiting, Sending
<1>6. FailuresAreLatched' /\ GivesUp'
  BY DEF Sound, FailuresAreLatched, GivesUp, LatchSet, IsLatched
<1>7. SleptIsNotHandedOver'
  BY DEF SleptIsNotHandedOver, Power, LastPower
<1> QED
  BY <1>2, <1>3, <1>4, <1>5, <1>6, <1>7 DEF IInv

\* A row no query selects, and what a memory does not owe to the log.
LEMMA SoundPlain ==
    ASSUME TypeOK, NEW m, NEW log \in Seq(RowType(LogActions)), Sound(m, log),
           NEW a \in Plain
    PROVE  Sound(m, Record(log, clock, a))
<1>1. a \in LogActions /\ clock \in Nat /\ LastOf(log, clock) /\ Ordered(log)
  BY LogTyped DEF Plain, LogActions, Sound, SoundLog
<1>2. /\ a \notin ActuationActions /\ a \notin PowerActions /\ a \notin FailureActions
      /\ a \notin AttentionActions /\ a \notin RefutedActions
      /\ a \notin {"sleep", "wake", "sleep_attention_cleared"}
      /\ a \notin {"wake", "wake_failed"}
  BY DEF Plain, ActuationActions, PowerActions, FailureActions, AttentionActions,
         RefutedActions
<1>3. SoundLog(Record(log, clock, a)) /\ LastOf(Record(log, clock, a), clock)
  BY <1>1, <1>2, SoundRecord DEF Sound, AttentionActions
<1>4. /\ LastPower(Record(log, clock, a)) = LastPower(log)
      /\ LastAttempt(Record(log, clock, a)) = LastAttempt(log)
      /\ IsLatched(Record(log, clock, a)) = IsLatched(log)
  BY <1>1, <1>2, QueriesAfter
<1>5. RecentFailures(Record(log, clock, a)) = RecentFailures(log)
  BY <1>1, <1>2, FailuresAfter
<1>6. /\ Rows(Record(log, clock, a), ActuationActions) = Rows(log, ActuationActions)
      /\ \A i \in Rows(log, ActuationActions) : Record(log, clock, a)[i] = log[i]
      /\ Cardinality(Rows(Record(log, clock, a), RefutedActions))
            = Cardinality(Rows(log, RefutedActions))
  BY <1>1, <1>2, CountsAfter
<1> QED
  BY <1>3, <1>4, <1>5, <1>6 DEF Sound, Agrees

LEMMA LessInMind ==
    ASSUME NEW m \in Memory(clock), NEW m2 \in Memory(clock), NEW log, Sound(m, log),
           m2.asleep = m.asleep, m2.failures = m.failures,
           m2.attention = m.attention, m2.simulated = m.simulated,
           m2.lastAttempt = m.lastAttempt,
           m2.uncertain => m.uncertain, m2.waking \in {NoTime, m.waking},
           m2.ineffective \in {0, m.ineffective},
           Cardinality(Rows(log, RefutedActions)) \in Nat
    PROVE  Sound(m2, log)
<1>1. m2.ineffective <= Cardinality(Rows(log, RefutedActions))
  BY DEF Sound, Memory
<1>2. Agrees(m, log) => Agrees(m2, log)
  BY DEF Agrees
<1> QED
  BY <1>1, <1>2 DEF Sound

\* Steps 1 and 2 of the funnel keep memory and log in step.
LEMMA SeenSound ==
    ASSUME TypeOK, IInv, pc = "idle", NEW s \in States
    PROVE  /\ Sound(Seen(s), SeenLog(s))
           /\ SeenLog(s) \in Seq(RowType(LogActions))
           /\ Seen(s) \in Memory(clock)
           /\ Seen(s).lastAttempt = mem.lastAttempt
           /\ s # "mining" => Seen(s) = mem /\ SeenLog(s) = events
<1> DEFINE N(log) == Cardinality(Rows(log, RefutedActions))
<1>1. Sound(mem, events) /\ mem \in Memory(clock) /\ clock \in Nat
      /\ events \in Seq(RowType(LogActions)) /\ N(events) \in Nat
      /\ Ordered(events)
  BY SoundBetweenPolls, LogTyped, FiniteRows DEF TypeOK, IInv, LogInOrder
<1>2. Seen(s) \in Memory(clock)
  BY SeenTyped
<1>3. s # "mining" => Seen(s) = mem /\ SeenLog(s) = events
  BY DEF Seen, SeenLog, Stale
<1>4. CASE ~Stale(s)
  <2>1. SeenLog(s) = events
    BY <1>4 DEF SeenLog
  <2>2. /\ Seen(s).asleep = mem.asleep /\ Seen(s).failures = mem.failures
        /\ Seen(s).attention = mem.attention /\ Seen(s).simulated = mem.simulated
        /\ Seen(s).lastAttempt = mem.lastAttempt
        /\ Seen(s).uncertain => mem.uncertain
        /\ Seen(s).waking = mem.waking /\ Seen(s).ineffective = mem.ineffective
    BY <1>1, <1>4 DEF Seen, Memory
  <2>3. Sound(Seen(s), events)
    <3> HIDE DEF N
    <3> QED
      BY <1>1, <1>2, <2>2, LessInMind DEF N
  <2> QED
    BY <1>1, <1>2, <1>3, <2>1, <2>2, <2>3
<1>5. CASE Stale(s)
  <2> DEFINE full == mem.ineffective + 1 >= MaxFailures
             log1 == Record(events, clock, "awake")
             log2 == Record(log1, clock, "sleep_needs_attention")
             seen == Seen(s)
  <2>1. s = "mining" /\ mem.asleep # NoTime
    BY <1>5 DEF Stale
  <2>2. MaxFailures \in Nat /\ mem.ineffective \in Nat
    BY <1>1, SleeperConstants DEF SleeperConstants, Memory
  <2>3. /\ seen.asleep = NoTime /\ seen.failures = mem.failures
        /\ seen.attention = (mem.attention \/ full)
        /\ seen.simulated = mem.simulated /\ seen.lastAttempt = mem.lastAttempt
        /\ seen.uncertain = FALSE /\ seen.waking = mem.waking
        /\ seen.ineffective = mem.ineffective + 1
    BY <1>1, <1>5, <2>1 DEF Seen, Ineffective, Memory
  <2>4. SeenLog(s) = IF full THEN log2 ELSE log1
    BY <1>5, <2>2 DEF SeenLog
  <2>5. "awake" \in LogActions /\ "sleep_needs_attention" \in LogActions
    BY DEF LogActions, PowerActions, AttentionActions
  <2>6. /\ log1 \in Seq(RowType(LogActions)) /\ log2 \in Seq(RowType(LogActions))
    BY <1>1, <2>5, RecordRows
  <2>7. /\ "awake" \notin ActuationActions /\ "awake" \in PowerActions
        /\ "awake" \notin FailureActions /\ "awake" \notin AttentionActions
        /\ "awake" \in RefutedActions /\ "sleep_needs_attention" \notin RefutedActions
        /\ "sleep_needs_attention" \notin ActuationActions
        /\ "sleep_needs_attention" \notin PowerActions
        /\ "sleep_needs_attention" \notin FailureActions
        /\ "sleep_needs_attention" \in AttentionActions
    BY DEF ActuationActions, PowerActions, FailureActions, AttentionActions,
           RefutedActions
  <2>8. LastOf(events, clock) /\ SoundLog(events)
    BY <1>1 DEF Sound
  <2>9. /\ Ordered(log1) /\ LastOf(log1, clock)
        /\ LastPower(log1) = Row(clock, "awake")
        /\ LastAttempt(log1) = LastAttempt(events)
        /\ IsLatched(log1) = IsLatched(events)
        /\ RecentFailures(log1) = RecentFailures(events)
    BY <1>1, <2>5, <2>7, <2>8, QueriesAfter, FailuresAfter
  <2>10. /\ LastPower(log2) = LastPower(log1)
         /\ LastAttempt(log2) = LastAttempt(log1)
         /\ IsLatched(log2) = TRUE
         /\ RecentFailures(log2) = RecentFailures(log1)
    BY <1>1, <2>5, <2>6, <2>7, <2>9, QueriesAfter, FailuresAfter
  <2>11. /\ Rows(log1, ActuationActions) = Rows(events, ActuationActions)
         /\ \A i \in Rows(events, ActuationActions) : log1[i] = events[i]
         /\ Rows(log2, ActuationActions) = Rows(log1, ActuationActions)
         /\ \A i \in Rows(log1, ActuationActions) : log2[i] = log1[i]
    BY <1>1, <2>5, <2>6, <2>7, CountsAfter
  <2>12. N(log1) = N(events) + 1 /\ N(log2) = N(log1)
    BY <1>1, <2>5, <2>6, <2>7, CountsAfter
  <2>13. SoundLog(log1)
    BY <1>1, <2>5, <2>7, <2>8, SoundRecord
  <2>14. full => SoundLog(log2) /\ LastOf(log2, clock)
    <3>1. full => Earns(log1)
      BY <1>1, <2>2, <2>12 DEF Earns, Sound
    <3> QED
      BY <1>1, <2>5, <2>6, <2>7, <2>9, <2>13, <3>1, SoundRecord
  <2>15. \A i \in Rows(events, ActuationActions) :
            log1[i] = events[i] /\ log2[i] = events[i]
    BY <2>11
  <2>16. mode = "live" => mem.waking = NoTime /\ mem.attention = IsLatched(events)
    <3> SUFFICES ASSUME mode = "live"
                 PROVE  mem.waking = NoTime /\ mem.attention = IsLatched(events)
      OBVIOUS
    <3>1. Agrees(mem, events)
      BY <1>1 DEF Sound
    <3>2. LastPower(events).action = "sleep"
      BY <2>1, <3>1 DEF Agrees
    <3> QED
      BY <3>1, <3>2 DEF Agrees
  <2>17. LastPower(log1).action = "awake"
    BY <2>9 DEF Row
  <2>18. Sound(mem, events) /\ mem.attention \in BOOLEAN
    BY <1>1 DEF Memory
  <2> HIDE DEF full, log1, log2, seen, N
  <2>19. CASE full
    <3>1. mode = "live" => Agrees(seen, log2) /\ seen.lastAttempt = LastAttempt(log2).ts
      BY <2>3, <2>9, <2>10, <2>16, <2>17, <2>18, <2>19 DEF Sound, Agrees
    <3>2. seen.ineffective <= N(log2)
      BY <1>1, <2>2, <2>3, <2>12, <2>18 DEF Sound, N
    <3>3. Sound(seen, log2)
      BY <2>3, <2>9, <2>10, <2>11, <2>14, <2>15, <2>18, <2>19, <3>1, <3>2
         DEF Sound, N
    <3> QED
      BY <1>2, <2>1, <2>3, <2>4, <2>6, <2>19, <3>3 DEF seen
  <2>20. CASE ~full
    <3>1. mode = "live" => Agrees(seen, log1) /\ seen.lastAttempt = LastAttempt(log1).ts
      BY <2>3, <2>9, <2>16, <2>17, <2>18, <2>20 DEF Sound, Agrees
    <3>2. seen.ineffective <= N(log1)
      BY <1>1, <2>2, <2>3, <2>12, <2>18 DEF Sound, N
    <3>3. Sound(seen, log1)
      BY <2>3, <2>9, <2>11, <2>13, <2>15, <2>18, <2>20, <3>1, <3>2
         DEF Sound, N
    <3> QED
      BY <1>2, <2>1, <2>3, <2>4, <2>6, <2>20, <3>3 DEF seen
  <2> QED
    BY <2>19, <2>20
<1> QED
  BY <1>4, <1>5

\* Steps 3 to 9 only forget.
LEMMA JudgedSound ==
    ASSUME TypeOK, IInv, pc = "idle", NEW s \in States
    PROVE  /\ Sound(Judged(Seen(s), s), SeenLog(s))
           /\ Judged(Seen(s), s) \in Memory(clock)
<1> DEFINE m == Seen(s)
<1>1. /\ Sound(m, SeenLog(s)) /\ m \in Memory(clock)
      /\ SeenLog(s) \in Seq(RowType(LogActions))
  BY SeenSound
<1>2. Judged(m, s) \in Memory(clock)
  BY <1>1, JudgedTyped
<1> HIDE DEF m
<1>3. /\ Judged(m, s).asleep = m.asleep /\ Judged(m, s).failures = m.failures
      /\ Judged(m, s).attention = m.attention
      /\ Judged(m, s).simulated = m.simulated
      /\ Judged(m, s).lastAttempt = m.lastAttempt
      /\ Judged(m, s).uncertain = m.uncertain
      /\ Judged(m, s).waking \in {NoTime, m.waking}
      /\ Judged(m, s).ineffective \in {0, m.ineffective}
  BY <1>1 DEF Judged, Memory
<1>4. Cardinality(Rows(SeenLog(s), RefutedActions)) \in Nat
  BY <1>1, FiniteRows
<1>5. Sound(Judged(m, s), SeenLog(s))
  BY <1>1, <1>2, <1>3, <1>4, LessInMind
<1> QED
  BY <1>2, <1>5 DEF m

-----------------------------------------------------------------------------
(***************************************************************************)
(* The polls.                                                              *)
(***************************************************************************)

\* What the funnel has established when it asks for a command.
LEMMA VerdictFacts ==
    ASSUME NEW m \in Memory(clock), NEW s \in States, ~m.simulated,
           NEW to \in {"sleep", "wake"}, Verdict(m, s) = to
    PROVE  /\ ~m.attention /\ Judged(m, s).waking = NoTime
           /\ to = "sleep" => m.asleep = NoTime
           /\ to = "wake" => m.asleep # NoTime \/ m.uncertain
<1>1. ~(s = "mining" /\ m.asleep # NoTime)
  BY DEF Verdict
<1>2. ~m.attention
  BY <1>1 DEF Verdict
<1>3. ~SpinningUp(m, s)
  BY <1>1, <1>2 DEF Verdict
<1>4. Judged(m, s).waking = NoTime
  BY <1>1, <1>2, <1>3 DEF Judged, Memory
<1>5. /\ to = "sleep" => s = "mining"
      /\ to = "wake" => m.asleep # NoTime \/ m.uncertain
  BY <1>1, <1>2, <1>3 DEF Verdict
<1> QED
  BY <1>1, <1>2, <1>4, <1>5

LEMMA OwnKeeps ==
    ASSUME TypeOK, IInv, TypeOK', NEW s \in States, Own(s)
    PROVE  IInv'
<1>1. pc = "idle" /\ pc' = "idle" /\ handed' = "none"
      /\ UNCHANGED <<clock, mode, torn>>
      /\ mem' = Judged(Seen(s), s) /\ events' = SeenLog(s)
  BY DEF Own, Poll, bounded
<1>2. Sound(mem', events')
  BY <1>1, JudgedSound
<1> QED
  BY <1>1, <1>2, SoundAfterPoll

\* A stopped miner is released only if the log does not say it was slept.
LEMMA ReleaseKeeps ==
    ASSUME TypeOK, IInv, TypeOK', NEW s \in States, Release(s)
    PROVE  IInv'
<1>1. pc = "idle" /\ pc' = "idle" /\ handed' = s
      /\ UNCHANGED <<clock, mode, torn>>
      /\ mem' = Judged(Seen(s), s) /\ events' = SeenLog(s)
      /\ Verdict(Seen(s), s) = "released"
  BY DEF Release, Poll, bounded
<1>2. Sound(mem', events')
  BY <1>1, JudgedSound
<1>3. ASSUME mode = "live", s = "stopped"
      PROVE  LastPower(events).action # "sleep" /\ events' = events
  <2>1. Seen(s) = mem /\ events' = events
    BY <1>1, <1>3, SeenSound
  <2>2. mem.asleep = NoTime
    BY <1>1, <1>3, <2>1 DEF Verdict
  <2>3. Agrees(mem, events)
    BY <1>1, <1>3, SoundBetweenPolls DEF Sound
  <2>4. LastPower(events).action = "sleep" => LastPower(events).ts \in 0..clock
    BY LogTyped, PowerRow DEF PowerActions
  <2> QED
    BY <2>1, <2>2, <2>3, <2>4 DEF Agrees, NoTime
<1> QED
  BY <1>1, <1>2, <1>3, SoundAfterPoll

LEMMA SkipKeeps ==
    ASSUME TypeOK, IInv, TypeOK', NEW s \in States, NEW to \in {"sleep", "wake"},
           SkipForCooldown(s, to)
    PROVE  IInv'
<1> DEFINE m == Judged(Seen(s), s)
<1>1. pc = "idle" /\ pc' = "idle" /\ handed' = "none"
      /\ UNCHANGED <<clock, mode, torn>>
      /\ mem' = [m EXCEPT !.skipLogged = m.lastAttempt]
      /\ \/ events' = SeenLog(s)
         \/ \E a \in {"skipped_sleep_cooldown", "skipped_wake_cooldown"} :
               events' = Record(SeenLog(s), clock, a)
  BY DEF SkipForCooldown, Transition, Poll, bounded
<1>2. Sound(m, SeenLog(s)) /\ m \in Memory(clock)
  BY <1>1, JudgedSound
<1>3. SeenLog(s) \in Seq(RowType(LogActions))
  BY <1>1, SeenSound
<1>4. mem' \in Memory(clock)
  BY <1>1 DEF TypeOK
<1>5. Cardinality(Rows(SeenLog(s), RefutedActions)) \in Nat
  BY <1>3, FiniteRows
<1> HIDE DEF m
<1>6. Sound(mem', SeenLog(s))
  <2>1. /\ mem'.asleep = m.asleep /\ mem'.failures = m.failures
        /\ mem'.attention = m.attention /\ mem'.simulated = m.simulated
        /\ mem'.lastAttempt = m.lastAttempt /\ mem'.uncertain = m.uncertain
        /\ mem'.waking = m.waking /\ mem'.ineffective = m.ineffective
    BY <1>1, <1>2 DEF Memory
  <2> QED
    BY <1>2, <1>4, <1>5, <2>1, LessInMind
<1>7. Sound(mem', events')
  <2>1. \A a \in Plain : Sound(mem', Record(SeenLog(s), clock, a))
    BY <1>3, <1>6, SoundPlain
  <2> QED
    BY <1>1, <1>6, <2>1 DEF Plain
<1> QED
  BY <1>1, <1>7, SoundAfterPoll

LEMMA RehearseKeeps ==
    ASSUME TypeOK, IInv, TypeOK', NEW s \in States, NEW to \in {"sleep", "wake"},
           Rehearse(s, to)
    PROVE  IInv'
<1> DEFINE m == Judged(Seen(s), s)
<1>1. pc = "idle" /\ pc' = "idle" /\ handed' = "none" /\ mode = "rehearsal"
      /\ UNCHANGED <<clock, mode, torn>>
      /\ mem' = Latched([m EXCEPT !.lastAttempt = clock], to, clock, TRUE)
      /\ \E a \in {"would_sleep", "would_wake"} :
            events' = Record(SeenLog(s), clock, a)
  BY DEF Rehearse, Transition, Poll, bounded
<1>2. Sound(m, SeenLog(s)) /\ m \in Memory(clock)
  BY <1>1, JudgedSound
<1>3. SeenLog(s) \in Seq(RowType(LogActions))
  BY <1>1, SeenSound
<1> HIDE DEF m
<1>4. Sound(m, events')
  <2>1. \A a \in Plain : Sound(m, Record(SeenLog(s), clock, a))
    BY <1>2, <1>3, SoundPlain
  <2> QED
    BY <1>1, <2>1 DEF Plain
<1>5. mem'.lastAttempt = clock /\ mem'.ineffective = m.ineffective
  BY <1>1, <1>2 DEF Latched, Memory
<1>6. Sound(mem', events')
  <2>1. Rows(events', ActuationActions) \subseteq DOMAIN events'
    BY DEF Rows
  <2> QED
    BY <1>1, <1>4, <1>5, <2>1 DEF Sound, LastOf
<1> QED
  BY <1>1, <1>6, SoundAfterPoll

\* While a command or its second commit is under way the same is owed, with
\* the promises of the funnel in place of the newest attempt.
LEMMA SoundWhileAwaiting ==
    ASSUME TypeOK, IInv, TypeOK', pc' \in {"sleeping", "waking", "latching"},
           UNCHANGED <<clock, torn>>,
           mode' = "live", handed' = "none",
           SoundLog(events'), LastOf(events', pollTime'), Agrees(mem', events'),
           pc' = "latching" => mem'.lastAttempt = LastAttempt(events').ts,
           \A i \in Rows(events', ActuationActions) :
              events'[i].ts <= mem'.lastAttempt,
           mem'.ineffective <= Cardinality(Rows(events', RefutedActions)),
           FunnelStillHolds', FailuresAreLatched', GivesUp'
    PROVE  IInv'
<1>1. SoundLog(events') <=> (Ordered(events) /\ ActuationsSpaced
                             /\ WakesOnlyWhatItSlept /\ AttentionEarned)'
  BY DEF SoundLog, Spaced, Wakes, Earned, Earns, ActuationsSpaced,
         WakesOnlyWhatItSlept, AttentionEarned
<1>2. LogInOrder' /\ (ActuationsSpaced /\ WakesOnlyWhatItSlept /\ AttentionEarned)'
  BY <1>1 DEF LogInOrder, LastOf
<1>3. BeliefsAgree'
  BY AgreesWithHydrated DEF BeliefsAgree, Sending
<1>4. CooldownIsKept' /\ IneffectiveIsCounted'
  BY DEF CooldownIsKept, IneffectiveIsCounted
<1>5. SleptIsNotHandedOver'
  BY DEF SleptIsNotHandedOver, IInv
<1> QED
  BY <1>2, <1>3, <1>4, <1>5 DEF IInv

LEMMA SendKeeps ==
    ASSUME TypeOK, IInv, TypeOK', NEW s \in States, NEW to \in {"sleep", "wake"},
           Send(s, to)
    PROVE  IInv'
<1> DEFINE m == Judged(Seen(s), s)
<1>1. pc = "idle" /\ handed' = "none" /\ mode = "live" /\ mode' = mode
      /\ UNCHANGED <<clock, torn>>
      /\ mem' = [m EXCEPT !.lastAttempt = clock] /\ events' = SeenLog(s)
      /\ pc' = (IF to = "sleep" THEN "sleeping" ELSE "waking")
      /\ pollTime' = clock /\ Verdict(Seen(s), s) = to /\ ~CoolingDown(m)
  BY DEF Send, Transition, Poll, bounded
<1>2. /\ Sound(m, SeenLog(s)) /\ m \in Memory(clock)
      /\ Sound(Seen(s), SeenLog(s)) /\ Seen(s) \in Memory(clock)
      /\ SeenLog(s) \in Seq(RowType(LogActions))
  BY <1>1, JudgedSound, SeenSound
<1>3. ~Seen(s).simulated
  BY <1>1, <1>2 DEF Sound, Agrees
<1>4. /\ ~Seen(s).attention /\ m.waking = NoTime
      /\ to = "sleep" => Seen(s).asleep = NoTime
      /\ to = "wake" => Seen(s).asleep # NoTime \/ Seen(s).uncertain
  BY <1>1, <1>2, <1>3, VerdictFacts
<1>5. /\ m.asleep = Seen(s).asleep /\ m.uncertain = Seen(s).uncertain
      /\ m.attention = Seen(s).attention
  BY <1>2 DEF Judged, Memory
<1> HIDE DEF m
<1>6. /\ mem'.asleep = m.asleep /\ mem'.failures = m.failures
      /\ mem'.attention = m.attention /\ mem'.simulated = m.simulated
      /\ mem'.lastAttempt = clock /\ mem'.uncertain = m.uncertain
      /\ mem'.waking = m.waking /\ mem'.ineffective = m.ineffective
  BY <1>1, <1>2 DEF Memory
<1>7. /\ SoundLog(events') /\ LastOf(events', pollTime')
      /\ mem'.ineffective <= Cardinality(Rows(events', RefutedActions))
      /\ IsLatched(events') \/ RecentFailures(events') < MaxFailures + torn
      /\ RecentFailures(events') <= MaxFailures + torn
  BY <1>1, <1>2, <1>6 DEF Sound
<1>8. Agrees(mem', events')
  BY <1>1, <1>2, <1>6 DEF Sound, Agrees
<1>9. \A i \in Rows(events', ActuationActions) :
         events'[i].ts <= mem'.lastAttempt
  BY <1>1, <1>6, <1>7 DEF LastOf, Rows
<1>10. \A i \in Rows(events', ActuationActions) : clock - events'[i].ts >= Cooldown
  <2> SUFFICES ASSUME NEW i \in Rows(events', ActuationActions)
               PROVE  clock - events'[i].ts >= Cooldown
    OBVIOUS
  <2>1. events'[i].ts <= m.lastAttempt
    BY <1>1, <1>2 DEF Sound
  <2>2. events'[i].ts \in Nat
    <3>1. events'[i] \in RowType(LogActions)
      BY <1>1, <1>2, ElementOfSeq, LenProperties DEF Rows
    <3> QED
      BY <3>1 DEF RowType
  <2>3. m.lastAttempt # NoTime => m.lastAttempt \in 0..clock
    BY <1>2 DEF Memory, Moment
  <2>4. m.lastAttempt # NoTime
    BY <2>1, <2>2 DEF NoTime
  <2>5. clock - m.lastAttempt >= Cooldown
    BY <1>1, <2>3, <2>4, LogTyped, SleeperConstants DEF CoolingDown, SleeperConstants
  <2>6. clock \in Nat /\ Cooldown \in Nat
    BY LogTyped, SleeperConstants DEF SleeperConstants
  <2> QED
    BY <2>1, <2>2, <2>3, <2>4, <2>5, <2>6
<1>11. FunnelStillHolds'
  BY <1>1, <1>4, <1>5, <1>6, <1>10 DEF FunnelStillHolds, Awaiting, Sending
<1>12. FailuresAreLatched' /\ GivesUp'
  BY <1>1, <1>7 DEF FailuresAreLatched, GivesUp, LatchSet, IsLatched
<1> QED
  BY <1>1, <1>7, <1>8, <1>9, <1>11, <1>12, SoundWhileAwaiting

-----------------------------------------------------------------------------
(***************************************************************************)
(* The driver returns.                                                     *)
(***************************************************************************)

\* What a command under way may rely on.
LEMMA AwaitFacts ==
    ASSUME TypeOK, IInv, pc \in {"sleeping", "waking", "latching"}
    PROVE  /\ mode = "live" /\ handed = "none" /\ mem.waking = NoTime
           /\ SoundLog(events) /\ LastOf(events, pollTime) /\ Agrees(mem, events)
           /\ events \in Seq(RowType(LogActions)) /\ Ordered(events)
           /\ pollTime \in Nat /\ pollTime <= clock /\ clock \in Nat
           /\ MaxFailures \in Nat /\ MaxFailures > 0 /\ torn \in Nat
           /\ mem \in Memory(clock)
           /\ RecentFailures(events) \in Nat
           /\ RecentFailures(events) <= MaxFailures + torn
           /\ mem.ineffective <= Cardinality(Rows(events, RefutedActions))
           /\ pc = "latching" =>
                 /\ mem.lastAttempt = LastAttempt(events).ts
                 /\ RecentFailures(events) >= MaxFailures
           /\ pc # "latching" =>
                 /\ ~mem.attention /\ mem.lastAttempt = pollTime
                 /\ RecentFailures(events) < MaxFailures + torn
                 /\ \A i \in Rows(events, ActuationActions) :
                       pollTime - events[i].ts >= Cooldown
           /\ pc = "sleeping" => mem.asleep = NoTime
           /\ pc = "waking" =>
                 LastPower(events).action \in {"sleep", "sleep_failed"}
<1>1. mode = "live" /\ handed = "none" /\ mem.waking = NoTime
  BY DEF IInv, FunnelStillHolds, Awaiting
<1>2. /\ SoundLog(events) /\ LastOf(events, pollTime) /\ Ordered(events)
  BY SoundEvents DEF IInv, LogInOrder, Awaiting, LastOf
<1>3. Agrees(mem, events)
  BY <1>1, AgreesWithHydrated DEF IInv, BeliefsAgree, Running
<1>4. /\ events \in Seq(RowType(LogActions))
      /\ pollTime \in Nat /\ pollTime <= clock /\ clock \in Nat
      /\ MaxFailures \in Nat /\ MaxFailures > 0 /\ torn \in Nat
      /\ mem \in Memory(clock)
  BY LogTyped, SleeperConstants DEF TypeOK, SleeperConstants
<1>5. RecentFailures(events) \in Nat
  BY <1>2, <1>4, FailuresAfter DEF LogActions
<1>6. /\ RecentFailures(events) <= MaxFailures + torn
      /\ mem.ineffective <= Cardinality(Rows(events, RefutedActions))
  BY DEF IInv, GivesUp, IneffectiveIsCounted, Running
<1>7. pc = "latching" => /\ mem.lastAttempt = LastAttempt(events).ts
                         /\ RecentFailures(events) >= MaxFailures
  BY <1>1, AgreesWithHydrated
     DEF IInv, BeliefsAgree, Running, Sending, FunnelStillHolds
<1>8. pc # "latching" =>
         /\ ~mem.attention /\ mem.lastAttempt = pollTime
         /\ \A i \in Rows(events, ActuationActions) :
               pollTime - events[i].ts >= Cooldown
  BY DEF IInv, FunnelStillHolds, Sending
<1>9. pc # "latching" => RecentFailures(events) < MaxFailures + torn
  <2>1. mem.attention = LatchSet
    BY <1>3 DEF Agrees, IsLatched, LatchSet
  <2> QED
    BY <1>8, <2>1 DEF IInv, FailuresAreLatched
<1>10. /\ pc = "sleeping" => mem.asleep = NoTime
       /\ pc = "waking" => mem.asleep # NoTime \/ mem.uncertain
  BY DEF IInv, FunnelStillHolds
<1>11. pc = "waking" => LastPower(events).action \in {"sleep", "sleep_failed"}
  BY <1>3, <1>10 DEF Agrees
<1> QED
  BY <1>1, <1>2, <1>3, <1>4, <1>5, <1>6, <1>7, <1>8, <1>9, <1>10, <1>11

LEMMA AcknowledgedKeeps ==
    ASSUME TypeOK, IInv, TypeOK', NEW a \in Answers, Acknowledged(a)
    PROVE  IInv'
<1> DEFINE to == IF pc = "sleeping" THEN "sleep" ELSE "wake"
<1>1. /\ pc \in {"sleeping", "waking"} /\ pc' = "idle"
      /\ UNCHANGED <<clock, mode, torn, handed>>
      /\ mem' = Latched(mem, to, pollTime, FALSE)
      /\ events' = Record(events, pollTime, to)
  BY DEF Acknowledged, Returns, bounded
<1>2. /\ to \in LogActions /\ to \in ActuationActions /\ to \in PowerActions
      /\ to \notin AttentionActions /\ to \notin FailureActions
      /\ to \notin RefutedActions /\ to \in {"sleep", "wake"}
      /\ to \in {"sleep", "wake", "sleep_attention_cleared"}
      /\ to # "sleep_needs_attention"
      /\ to \in {"wake", "wake_failed"} => pc = "waking"
  BY <1>1 DEF LogActions, ActuationActions, PowerActions, AttentionActions,
              FailureActions, RefutedActions
<1> HIDE DEF to
<1>3. SoundLog(events') /\ LastOf(events', pollTime)
  BY <1>1, <1>2, AwaitFacts, SoundRecord
<1>4. /\ LastPower(events') = Row(pollTime, to)
      /\ LastAttempt(events') = Row(pollTime, to)
      /\ IsLatched(events') = IsLatched(events)
      /\ RecentFailures(events') = 0
  BY <1>1, <1>2, AwaitFacts, QueriesAfter, FailuresAfter
<1>5. Cardinality(Rows(events', RefutedActions))
         = Cardinality(Rows(events, RefutedActions))
  BY <1>1, <1>2, AwaitFacts, CountsAfter
<1>6. /\ mem'.asleep = (IF to = "sleep" THEN pollTime ELSE NoTime)
      /\ mem'.waking = (IF to = "sleep" THEN NoTime ELSE pollTime)
      /\ mem'.uncertain = FALSE /\ mem'.simulated = FALSE /\ mem'.failures = 0
      /\ mem'.attention = mem.attention /\ mem'.ineffective = mem.ineffective
      /\ mem'.lastAttempt = mem.lastAttempt
  BY <1>1, AwaitFacts DEF Latched, Memory
<1>7. Row(pollTime, to).ts = pollTime /\ Row(pollTime, to).action = to
  BY DEF Row
<1>8. mem.attention = IsLatched(events) /\ mem.lastAttempt = pollTime
  BY <1>1, AwaitFacts DEF Agrees
<1>9. Agrees(mem', events') /\ mem'.lastAttempt = LastAttempt(events').ts
  BY <1>2, <1>4, <1>6, <1>7, <1>8 DEF Agrees
<1>10. \A i \in Rows(events', ActuationActions) : events'[i].ts <= mem'.lastAttempt
  BY <1>3, <1>6, <1>8 DEF LastOf, Rows
<1>11. LastOf(events', clock)
  <2>1. \A i \in DOMAIN events' : events'[i].ts \in Nat
    <3>1. \A i \in DOMAIN events' : events'[i] \in RowType(LogActions)
      BY <1>1, <1>2, AwaitFacts, RecordRows, ElementOfSeq, LenProperties
    <3> QED
      BY <3>1 DEF RowType
  <2> QED
    BY <1>3, <2>1, AwaitFacts, <1>1 DEF LastOf
<1>12. /\ RecentFailures(events') < MaxFailures + torn
       /\ RecentFailures(events') <= MaxFailures + torn
  BY <1>1, <1>4, AwaitFacts
<1>13. mem'.ineffective <= Cardinality(Rows(events', RefutedActions))
  BY <1>1, <1>5, <1>6, AwaitFacts
<1>14. Sound(mem', events')
  BY <1>3, <1>9, <1>10, <1>11, <1>12, <1>13 DEF Sound
<1>15. handed' = "none"
  BY <1>1, AwaitFacts
<1> QED
  BY <1>1, <1>14, <1>15, SoundAfterPoll

LEMMA FailedKeeps ==
    ASSUME TypeOK, IInv, TypeOK', NEW a \in Answers, Failed(a)
    PROVE  IInv'
<1> DEFINE act == IF pc = "sleeping" THEN "sleep_failed" ELSE "wake_failed"
<1>1. /\ pc \in {"sleeping", "waking"}
      /\ pc' = (IF mem.failures + 1 >= MaxFailures THEN "latching" ELSE "idle")
      /\ UNCHANGED <<clock, mode, torn, handed, pollTime>>
      /\ mem' = [mem EXCEPT !.failures = @ + 1,
                            !.uncertain = @ \/ pc = "sleeping"]
      /\ events' = Record(events, pollTime, act)
  BY DEF Failed, Returns, bounded
<1>2. /\ act \in LogActions /\ act \in ActuationActions
      /\ (act \in PowerActions <=> pc = "sleeping")
      /\ act \notin AttentionActions /\ act \in FailureActions
      /\ act \notin RefutedActions /\ act # "sleep_needs_attention"
      /\ act \in {"wake", "wake_failed"} => pc = "waking"
      /\ pc = "sleeping" => act = "sleep_failed"
  BY <1>1 DEF LogActions, ActuationActions, PowerActions, AttentionActions,
              FailureActions, RefutedActions
<1> HIDE DEF act
<1>3. SoundLog(events') /\ LastOf(events', pollTime)
  BY <1>1, <1>2, AwaitFacts, SoundRecord
<1>4. /\ LastPower(events') = (IF pc = "sleeping" THEN Row(pollTime, act)
                               ELSE LastPower(events))
      /\ LastAttempt(events') = Row(pollTime, act)
      /\ IsLatched(events') = IsLatched(events)
      /\ RecentFailures(events') = RecentFailures(events) + 1
  BY <1>1, <1>2, AwaitFacts, QueriesAfter, FailuresAfter
<1>5. Cardinality(Rows(events', RefutedActions))
         = Cardinality(Rows(events, RefutedActions))
  BY <1>1, <1>2, AwaitFacts, CountsAfter
<1>6. /\ mem'.asleep = mem.asleep /\ mem'.waking = mem.waking
      /\ mem'.simulated = mem.simulated /\ mem'.attention = mem.attention
      /\ mem'.ineffective = mem.ineffective /\ mem'.lastAttempt = mem.lastAttempt
      /\ mem'.failures = mem.failures + 1
      /\ mem'.uncertain => mem.uncertain \/ pc = "sleeping"
  BY <1>1, AwaitFacts DEF Memory
<1>7. Row(pollTime, act).ts = pollTime /\ Row(pollTime, act).action = act
  BY DEF Row
<1>8. /\ mem.attention = IsLatched(events) /\ mem.lastAttempt = pollTime
      /\ mem.failures = RecentFailures(events) /\ mem.waking = NoTime
      /\ pc = "sleeping" => mem.asleep = NoTime
  BY <1>1, AwaitFacts DEF Agrees
<1>9. Agrees(mem', events') /\ mem'.lastAttempt = LastAttempt(events').ts
  <2>1. Agrees(mem, events)
    BY <1>1, AwaitFacts
  <2> QED
    BY <1>1, <1>2, <1>4, <1>6, <1>7, <1>8, <2>1 DEF Agrees
<1>10. \A i \in Rows(events', ActuationActions) : events'[i].ts <= mem'.lastAttempt
  BY <1>3, <1>6, <1>8 DEF LastOf, Rows
<1>11. LastOf(events', clock)
  <2>1. \A i \in DOMAIN events' : events'[i].ts \in Nat
    <3>1. \A i \in DOMAIN events' : events'[i] \in RowType(LogActions)
      BY <1>1, <1>2, AwaitFacts, RecordRows, ElementOfSeq, LenProperties
    <3> QED
      BY <3>1 DEF RowType
  <2> QED
    BY <1>3, <2>1, AwaitFacts, <1>1 DEF LastOf
<1>12. RecentFailures(events') <= MaxFailures + torn
  BY <1>1, <1>4, AwaitFacts
<1>13. mem'.ineffective <= Cardinality(Rows(events', RefutedActions))
  BY <1>1, <1>5, <1>6, AwaitFacts
<1>14. CASE pc' = "idle"
  <2>1. mem.failures + 1 < MaxFailures
    BY <1>1, <1>8, <1>14, AwaitFacts
  <2>2. RecentFailures(events') < MaxFailures + torn
    BY <1>1, <1>4, <1>8, <2>1, AwaitFacts
  <2>3. Sound(mem', events')
    BY <1>3, <1>9, <1>10, <1>11, <1>12, <1>13, <2>2 DEF Sound
  <2> QED
    BY <1>1, <1>14, <2>3, AwaitFacts, SoundAfterPoll
<1>15. CASE pc' = "latching"
  <2>1. RecentFailures(events') >= MaxFailures
    <3>1. mem.failures + 1 >= MaxFailures
      BY <1>1, <1>15
    <3> QED
      BY <1>4, <1>8, <3>1
  <2>2. mode' = "live" /\ handed' = "none" /\ mem'.waking = NoTime
    BY <1>1, <1>6, <1>8, AwaitFacts
  <2>3. FunnelStillHolds'
    BY <1>15, <2>1, <2>2 DEF FunnelStillHolds, Awaiting, Sending
  <2>4. FailuresAreLatched' /\ GivesUp'
    BY <1>1, <1>12, <1>15 DEF FailuresAreLatched, GivesUp
  <2>5. LastOf(events', pollTime') /\ SoundLog(events')
    BY <1>1, <1>3
  <2> QED
    BY <1>1, <1>9, <1>10, <1>13, <1>15, <2>2, <2>3, <2>4, <2>5, SoundWhileAwaiting
<1> QED
  BY <1>1, <1>14, <1>15

\* The second commit of the last failure is earned by the failures recorded.
LEMMA LatchAttentionKeeps ==
    ASSUME TypeOK, IInv, TypeOK', LatchAttention
    PROVE  IInv'
<1> DEFINE act == "sleep_needs_attention"
<1>1. /\ pc = "latching" /\ pc' = "idle"
      /\ UNCHANGED <<clock, mode, torn, handed>>
      /\ mem' = [mem EXCEPT !.attention = TRUE]
      /\ events' = Record(events, pollTime, act)
  BY DEF LatchAttention, bounded
<1>2. /\ act \in LogActions /\ act \notin ActuationActions
      /\ act \notin PowerActions /\ act \in AttentionActions
      /\ act \notin FailureActions /\ act \notin RefutedActions
      /\ act \notin {"sleep", "wake", "sleep_attention_cleared"}
      /\ act \notin {"wake", "wake_failed"} /\ act = "sleep_needs_attention"
  BY DEF LogActions, ActuationActions, PowerActions, AttentionActions,
         FailureActions, RefutedActions
<1> HIDE DEF act
<1>3. SoundLog(events') /\ LastOf(events', pollTime)
  BY <1>1, <1>2, AwaitFacts, SoundRecord DEF Earns
<1>4. /\ LastPower(events') = LastPower(events)
      /\ LastAttempt(events') = LastAttempt(events)
      /\ IsLatched(events') = TRUE
      /\ RecentFailures(events') = RecentFailures(events)
  <2>1. /\ events \in Seq(RowType(LogActions)) /\ Ordered(events)
        /\ LastOf(events, pollTime) /\ pollTime \in Nat
    BY <1>1, AwaitFacts
  <2>2. /\ LastPower(events') = LastPower(events)
        /\ LastAttempt(events') = LastAttempt(events)
    BY <1>1, <1>2, <2>1, QueriesAfter
  <2>3. IsLatched(events') = TRUE
    <3>1. LastActionIn(events', AttentionActions) = Row(pollTime, act)
      BY <1>1, <1>2, <2>1, RecordNewest DEF LastOf
    <3> QED
      BY <1>2, <3>1 DEF IsLatched, Row
  <2>4. RecentFailures(events') = RecentFailures(events)
    BY <1>1, <1>2, <2>1, FailuresAfter
  <2> QED
    BY <2>2, <2>3, <2>4
<1>5. /\ Cardinality(Rows(events', RefutedActions))
            = Cardinality(Rows(events, RefutedActions))
      /\ Rows(events', ActuationActions) = Rows(events, ActuationActions)
      /\ \A i \in Rows(events, ActuationActions) : events'[i] = events[i]
  BY <1>1, <1>2, AwaitFacts, CountsAfter
<1>6. /\ mem'.asleep = mem.asleep /\ mem'.waking = mem.waking
      /\ mem'.simulated = mem.simulated /\ mem'.attention = TRUE
      /\ mem'.ineffective = mem.ineffective /\ mem'.lastAttempt = mem.lastAttempt
      /\ mem'.failures = mem.failures /\ mem'.uncertain = mem.uncertain
  BY <1>1, AwaitFacts DEF Memory
<1>7. Agrees(mem', events') /\ mem'.lastAttempt = LastAttempt(events').ts
  <2>1. Agrees(mem, events) /\ mem.lastAttempt = LastAttempt(events).ts
    BY <1>1, AwaitFacts
  <2> QED
    BY <1>4, <1>6, <2>1 DEF Agrees
<1>8. \A i \in Rows(events', ActuationActions) : events'[i].ts <= mem'.lastAttempt
  BY <1>1, <1>5, <1>6 DEF IInv, CooldownIsKept, Running
<1>9. LastOf(events', clock)
  <2>1. \A i \in DOMAIN events' : events'[i].ts \in Nat
    <3>1. \A i \in DOMAIN events' : events'[i] \in RowType(LogActions)
      BY <1>1, <1>2, AwaitFacts, RecordRows, ElementOfSeq, LenProperties
    <3> QED
      BY <3>1 DEF RowType
  <2> QED
    BY <1>1, <1>3, <2>1, AwaitFacts DEF LastOf
<1>10. /\ RecentFailures(events') <= MaxFailures + torn
       /\ mem'.ineffective <= Cardinality(Rows(events', RefutedActions))
  BY <1>1, <1>4, <1>5, <1>6, AwaitFacts
<1>11. Sound(mem', events')
  BY <1>3, <1>4, <1>7, <1>8, <1>9, <1>10 DEF Sound
<1>12. handed' = "none"
  BY <1>1, AwaitFacts
<1> QED
  BY <1>1, <1>11, <1>12, SoundAfterPoll

-----------------------------------------------------------------------------
(***************************************************************************)
(* Restarts, and the world.                                                *)
(***************************************************************************)

LEMMA StartKeeps ==
    ASSUME TypeOK, IInv, TypeOK', Start
    PROVE  IInv'
<1>1. /\ pc = "down" /\ pc' = "idle" /\ handed' = "none"
      /\ UNCHANGED <<clock, events, torn>>
      /\ mem' = Hydrated(events)
  BY DEF Start, bounded
<1>2. LogInOrder'
  BY <1>1 DEF IInv, LogInOrder, Awaiting
<1>3. BeliefsAgree'
  <2>1. Agrees(Hydrated(events), events)
    BY AgreesWithHydrated
  <2>2. mem'.asleep = Hydrated(events').asleep
        /\ mem'.failures = Hydrated(events').failures
        /\ mem'.attention = Hydrated(events').attention
        /\ mem'.uncertain = Hydrated(events').uncertain
        /\ mem'.waking = Hydrated(events').waking
        /\ mem'.lastAttempt = Hydrated(events').lastAttempt
    BY <1>1
  <2> QED
    BY <1>1, <2>1, <2>2 DEF BeliefsAgree, Agrees
<1>4. CooldownIsKept'
  <2>1. \A i \in Rows(events, ActuationActions) :
           events[i].ts <= LastAttempt(events).ts
    <3> SUFFICES ASSUME NEW i \in Rows(events, ActuationActions)
                 PROVE  events[i].ts <= LastAttempt(events).ts
      OBVIOUS
    <3>1. events \in Seq(RowType(LogActions)) /\ Ordered(events)
      BY LogTyped DEF IInv, LogInOrder
    <3>2. PICK k \in Rows(events, ActuationActions) :
             \A j \in Rows(events, ActuationActions) : j <= k
      BY <3>1, NewestIsLast
    <3>3. LastAttempt(events) = events[k]
      BY <3>1, <3>2, NewestIsLast DEF LastAttempt
    <3>4. /\ i \in 1..Len(events) /\ k \in 1..Len(events) /\ Len(events) \in Nat
          /\ i \in DOMAIN events /\ k \in DOMAIN events
      BY <3>1, LenProperties DEF Rows
    <3>5. events[i].ts \in Nat
      <4>1. events[i] \in RowType(LogActions)
        BY <3>1, <3>4, ElementOfSeq
      <4> QED
        BY <4>1 DEF RowType
    <3>6. CASE i = k
      BY <3>3, <3>5, <3>6
    <3>7. CASE i < k
      BY <3>1, <3>3, <3>4, <3>7 DEF Ordered
    <3> QED
      BY <3>2, <3>4, <3>6, <3>7
  <2> QED
    BY <1>1, <2>1, AgreesWithHydrated DEF CooldownIsKept
<1>5. FunnelStillHolds'
  BY <1>1 DEF FunnelStillHolds, Awaiting, Sending
<1>6. IneffectiveIsCounted'
  <2>1. mem'.ineffective = 0
    BY <1>1 DEF Hydrated, Blank
  <2>2. Cardinality(Rows(events, RefutedActions)) \in Nat
    BY LogTyped, FiniteRows
  <2> QED
    BY <1>1, <2>1, <2>2 DEF IneffectiveIsCounted
<1>7. FailuresAreLatched' /\ GivesUp' /\ SleptIsNotHandedOver'
  BY <1>1 DEF IInv, FailuresAreLatched, GivesUp, SleptIsNotHandedOver, LatchSet
<1>8. (ActuationsSpaced /\ WakesOnlyWhatItSlept /\ AttentionEarned)'
  BY <1>1 DEF IInv, ActuationsSpaced, WakesOnlyWhatItSlept, AttentionEarned
<1> QED
  BY <1>2, <1>3, <1>4, <1>5, <1>6, <1>7, <1>8 DEF IInv

\* A latch torn off between its two commits is a failure more to come.
LEMMA CrashKeeps ==
    ASSUME TypeOK, IInv, TypeOK', Crash
    PROVE  IInv'
<1>1. /\ pc' = "down" /\ torn' = (IF pc = "latching" THEN torn + 1 ELSE torn)
      /\ UNCHANGED <<clock, events, mode, handed>>
  BY DEF Crash
<1>2. LogInOrder' /\ BeliefsAgree' /\ CooldownIsKept' /\ FunnelStillHolds'
      /\ IneffectiveIsCounted'
  BY <1>1 DEF IInv, LogInOrder, Awaiting, BeliefsAgree, Running, CooldownIsKept,
              FunnelStillHolds, Sending, IneffectiveIsCounted
<1>3. FailuresAreLatched' /\ GivesUp'
  <2>1. /\ torn \in Nat /\ MaxFailures \in Nat
        /\ events \in Seq(RowType(LogActions)) /\ Ordered(events)
    BY LogTyped, SleeperConstants DEF TypeOK, SleeperConstants, IInv, LogInOrder
  <2>2. RecentFailures(events) \in Nat
    <3>1. LastOf(events, clock) /\ clock \in Nat /\ "awake" \in LogActions
      BY SoundBetweenPolls, LogTyped DEF LogActions, PowerActions
    <3> QED
      BY <2>1, <3>1, FailuresAfter
  <2>3. RecentFailures(events) <= MaxFailures + torn
    BY DEF IInv, GivesUp
  <2>4. LatchSet \/ pc = "latching" \/ RecentFailures(events) < MaxFailures + torn
    BY DEF IInv, FailuresAreLatched
  <2>5. LatchSet' = LatchSet
    BY <1>1 DEF LatchSet
  <2> QED
    BY <1>1, <2>1, <2>2, <2>3, <2>4, <2>5 DEF FailuresAreLatched, GivesUp
<1>4. SleptIsNotHandedOver'
  BY <1>1 DEF IInv, SleptIsNotHandedOver, Power
<1>5. (ActuationsSpaced /\ WakesOnlyWhatItSlept /\ AttentionEarned)'
  BY <1>1 DEF IInv, ActuationsSpaced, WakesOnlyWhatItSlept, AttentionEarned
<1> QED
  BY <1>2, <1>3, <1>4, <1>5 DEF IInv

\* The invariant speaks of neither the clock nor the machine.
LEMMA WorldKeeps ==
    ASSUME TypeOK, IInv, TypeOK',
           UNCHANGED <<events, mode, pc, pollTime, mem, torn>>,
           handed' \in {handed, "none"}
    PROVE  IInv'
<1>1. LogInOrder' /\ BeliefsAgree' /\ CooldownIsKept'
      /\ IneffectiveIsCounted' /\ FailuresAreLatched' /\ GivesUp'
  BY DEF IInv, LogInOrder, Awaiting, BeliefsAgree, Running, CooldownIsKept,
         Sending, IneffectiveIsCounted, FailuresAreLatched, GivesUp, LatchSet
<1>2. FunnelStillHolds'
  BY DEF IInv, FunnelStillHolds, Awaiting, Sending
<1>3. SleptIsNotHandedOver'
  BY DEF IInv, SleptIsNotHandedOver, Power
<1>4. (ActuationsSpaced /\ WakesOnlyWhatItSlept /\ AttentionEarned)'
  BY DEF IInv, ActuationsSpaced, WakesOnlyWhatItSlept, AttentionEarned
<1> QED
  BY <1>1, <1>2, <1>3, <1>4 DEF IInv

-----------------------------------------------------------------------------
(***************************************************************************)
(* The invariant, and the promises that follow.                            *)
(***************************************************************************)

LEMMA InitSound == Init => IInv
<1> SUFFICES ASSUME Init PROVE IInv
  OBVIOUS
<1>1. TypeOK
  BY InitTyped
<1>2. /\ events = <<>> /\ mem = Blank /\ pc = "idle" /\ handed = "none"
      /\ torn = 0
  BY DEF Init
<1>3. \A A : Rows(events, A) = {}
  BY <1>2 DEF Rows
<1>4. \A A : LastActionIn(events, A) = Row(NoTime, "no row")
  BY <1>3 DEF LastActionIn
<1>5. Row(NoTime, "no row").ts = NoTime /\ Row(NoTime, "no row").action = "no row"
  BY DEF Row
<1>6. /\ LastPower(events) = Row(NoTime, "no row")
      /\ LastAttempt(events) = Row(NoTime, "no row")
      /\ IsLatched(events) = FALSE
  BY <1>4, <1>5 DEF LastPower, LastAttempt, IsLatched
<1>7. RecentFailures(events) = 0
  <2>1. {i \in Rows(events, FailureActions) :
            \A j \in Rows(events, {"sleep", "wake", "sleep_attention_cleared"}) :
               Older(events, j, i)} = {}
    BY <1>3
  <2> QED
    BY <2>1, FS_EmptySet DEF RecentFailures
<1>8. Agrees(mem, events)
  BY <1>2, <1>5, <1>6, <1>7 DEF Agrees, Blank
<1>9. BeliefsAgree
  <2>1. mem.lastAttempt = Hydrated(events).lastAttempt
    BY <1>2, <1>5, <1>6, AgreesWithHydrated DEF Blank
  <2> QED
    BY <1>8, <2>1, AgreesWithHydrated DEF BeliefsAgree
<1>10. LogInOrder /\ CooldownIsKept /\ FunnelStillHolds
  BY <1>2, <1>3 DEF LogInOrder, Ordered, Awaiting, CooldownIsKept,
                    FunnelStillHolds, Sending
<1>11. IneffectiveIsCounted
  <2>1. mem.ineffective = 0 /\ Cardinality(Rows(events, RefutedActions)) = 0
    BY <1>2, <1>3, FS_EmptySet DEF Blank
  <2> QED
    BY <2>1 DEF IneffectiveIsCounted
<1>12. FailuresAreLatched /\ GivesUp
  BY <1>2, <1>7, SleeperConstants DEF FailuresAreLatched, GivesUp, SleeperConstants
<1>13. SleptIsNotHandedOver
  BY <1>2 DEF SleptIsNotHandedOver
<1>14. ActuationsSpaced /\ WakesOnlyWhatItSlept /\ AttentionEarned
  BY <1>3 DEF ActuationsSpaced, WakesOnlyWhatItSlept, AttentionEarned
<1> QED
  BY <1>1, <1>9, <1>10, <1>11, <1>12, <1>13, <1>14 DEF IInv

LEMMA StepKeeps ==
    ASSUME IInv, [Next]_vars
    PROVE  IInv'
<1>0. TypeOK /\ TypeOK'
  BY StepTyped DEF IInv
<1>1. CASE PollStep
  <2>1. PICK s \in States :
           \/ Own(s) \/ Release(s)
           \/ \E to \in {"sleep", "wake"} :
                 SkipForCooldown(s, to) \/ Rehearse(s, to) \/ Send(s, to)
    BY <1>1 DEF PollStep, Polls
  <2> QED
    BY <1>0, <2>1, OwnKeeps, ReleaseKeeps, SkipKeeps, RehearseKeeps, SendKeeps
<1>2. CASE AwaitStep
  BY <1>0, <1>2, AcknowledgedKeeps, FailedKeeps, LatchAttentionKeeps DEF AwaitStep
<1>3. CASE Tick
  BY <1>0, <1>3, WorldKeeps DEF Tick, bounded
<1>4. CASE Start
  BY <1>0, <1>4, StartKeeps
<1>5. CASE Crash
  BY <1>0, <1>5, CrashKeeps
<1>6. CASE WokenByHand
  BY <1>0, <1>6, WorldKeeps DEF WokenByHand
<1>7. CASE HorizonReached \/ UNCHANGED vars
  BY <1>0, <1>7, WorldKeeps DEF HorizonReached, vars, bounded
<1> QED
  BY <1>1, <1>2, <1>3, <1>4, <1>5, <1>6, <1>7 DEF Next

\* What the memory of a running service owes to the log, at every step.
THEOREM InvariantHolds == Spec => []IInv
BY InitSound, StepKeeps, PTL DEF Spec

\* The watchdog never receives a miner that the log says is slept.
THEOREM SleptStaysOwned == Spec => []SleptIsNotHandedOver
<1>1. IInv => SleptIsNotHandedOver
  BY DEF IInv
<1> QED
  BY <1>1, InvariantHolds, PTL

\* A service that restarts between two polls believes what it believed.
THEOREM RestartIsHarmless == Spec => []RestartChangesNothing
<1>1. IInv => RestartChangesNothing
  BY DEF IInv, BeliefsAgree, Running, Sending, RestartChangesNothing
<1> QED
  BY <1>1, InvariantHolds, PTL

\* Any two recorded attempts are a cooldown apart, across restarts.
THEOREM CooldownSeparates == Spec => []ActuationsSpaced
<1>1. IInv => ActuationsSpaced
  BY DEF IInv
<1> QED
  BY <1>1, InvariantHolds, PTL

\* Only a miner that was slept, or may have been, is woken.
THEOREM WakesAreJustified == Spec => []WakesOnlyWhatItSlept
<1>1. IInv => WakesOnlyWhatItSlept
  BY DEF IInv
<1> QED
  BY <1>1, InvariantHolds, PTL

\* Consecutive failures end at the limit, but for torn latches.
THEOREM FailuresEnd == Spec => []GivesUp
<1>1. IInv => GivesUp
  BY DEF IInv
<1> QED
  BY <1>1, InvariantHolds, PTL

\* A human is called for nothing less than the limit.
THEOREM HumanIsCalledForCause == Spec => []AttentionEarned
<1>1. IInv => AttentionEarned
  BY DEF IInv
<1> QED
  BY <1>1, InvariantHolds, PTL

-----------------------------------------------------------------------------
(***************************************************************************)
(* A miner in doubt is woken, unless a reading settled the doubt wrongly:  *)
(* a hashrate that decays after the sleep, or one the miner reports        *)
(* falsely, is taken for a miner that is awake (step 1 of `consider`).     *)
(* `misread` records that, and changes nothing: the doubt about the miner, *)
(* which sleeps, was dropped on such a reading and has not come back.      *)
(***************************************************************************)

VARIABLE misread

Watch(s) == misread' = /\ miner'.asleep /\ ~mem'.uncertain
                       /\ misread \/ (s = "mining" /\ mem.uncertain)

WatchedNext ==
    \/ \E s \in States : Polls(s) /\ Watch(s)
    \/ /\ AwaitStep \/ Tick \/ Start \/ Crash \/ WokenByHand \/ HorizonReached
       /\ Watch("none")

WatchedSpec == Init /\ misread = FALSE /\ [][WatchedNext]_<<vars, misread>>

\* A live service has dropped no doubt about a miner that sleeps, but for one
\* it dropped on a misleading reading.
DoubtIsFounded ==
    Running /\ mode = "live" /\ Power = "sleep_failed" /\ ~mem.uncertain =>
        ~miner.asleep \/ misread

MisreadSettles == misread => ~mem.uncertain

DoubtInv == IInv /\ DoubtIsFounded /\ MisreadSettles /\ (DoubtfulIsWoken \/ misread)

\* A row the power queries do not select leaves the answer.
LEMMA PowerAfter ==
    ASSUME NEW log \in Seq(RowType(LogActions)), Ordered(log), NEW t \in Nat,
           LastOf(log, t), NEW a \in LogActions
    PROVE  LastPower(Record(log, t, a)).action =
              IF a \in PowerActions THEN a ELSE LastPower(log).action
<1>1. Row(t, a).action = a
  BY DEF Row
<1> QED
  BY <1>1, QueriesAfter

\* The last row about the miner's power, and the doubt, after steps 1 to 9.
LEMMA DoubtAfterReading ==
    ASSUME TypeOK, IInv, DoubtIsFounded, mode = "live",
           NEW s \in States, Poll(s),
           LastPower(SeenLog(s)).action = "sleep_failed",
           ~Judged(Seen(s), s).uncertain
    PROVE  ~miner.asleep \/ misread \/ (s = "mining" /\ mem.uncertain)
<1>1. pc = "idle" /\ Shows(s) /\ mem \in Memory(clock)
  BY DEF Poll, TypeOK
<1>2. CASE Stale(s)
  <2>1. /\ events \in Seq(RowType(LogActions)) /\ Ordered(events)
        /\ LastOf(events, clock) /\ clock \in Nat
    BY <1>1, SoundBetweenPolls, LogTyped DEF Sound, SoundLog
  <2>2. /\ {"awake", "sleep_needs_attention"} \subseteq LogActions
        /\ "awake" \in PowerActions /\ "sleep_needs_attention" \notin PowerActions
    BY DEF LogActions, PowerActions, AttentionActions
  <2> DEFINE log == Record(events, clock, "awake")
  <2>3. LastPower(log).action = "awake"
    BY <2>1, <2>2, PowerAfter
  <2>4. /\ log \in Seq(RowType(LogActions)) /\ Ordered(log) /\ LastOf(log, clock)
    BY <2>1, <2>2, RecordRows, QueriesAfter
  <2>5. LastPower(Record(log, clock, "sleep_needs_attention")).action = "awake"
    <3> HIDE DEF log
    <3> QED
      BY <2>1, <2>2, <2>3, <2>4, PowerAfter
  <2> QED
    BY <1>2, <2>3, <2>5 DEF SeenLog
<1>3. CASE ~Stale(s)
  <2>1. SeenLog(s) = events
    BY <1>3 DEF SeenLog
  <2>2. Power = "sleep_failed"
    BY <2>1 DEF Power, LastPower
  <2>3. CASE s = "mining"
    BY <1>1, <2>2, <2>3 DEF DoubtIsFounded, Running
  <2>4. CASE s # "mining"
    <3>1. Judged(Seen(s), s).uncertain = mem.uncertain
      BY <1>1, <1>3, <2>4 DEF Judged, Seen, Memory
    <3> QED
      BY <1>1, <2>2, <3>1 DEF DoubtIsFounded, Running
  <2> QED
    BY <2>3, <2>4
<1> QED
  BY <1>2, <1>3

LEMMA PollFounded ==
    ASSUME TypeOK, IInv, DoubtIsFounded, NEW s \in States, Polls(s), Watch(s)
    PROVE  DoubtIsFounded' /\ (DoubtfulIsWoken' \/ misread')
<1>1. \/ Own(s) \/ Release(s)
      \/ \E to \in {"sleep", "wake"} :
            SkipForCooldown(s, to) \/ Rehearse(s, to) \/ Send(s, to)
  BY DEF Polls
<1>2. /\ Poll(s) /\ pc = "idle" /\ UNCHANGED <<miner, mode, clock>>
      /\ handed' \in {"none", s} /\ (Release(s) \/ handed' = "none")
      /\ mode = "live" => mem'.uncertain = Judged(Seen(s), s).uncertain
  <2>1. Judged(Seen(s), s) \in Memory(clock)
    BY SeenTyped, JudgedTyped
  <2> QED
    BY <1>1, <2>1 DEF Own, Release, SkipForCooldown, Rehearse, Send, Transition,
                      Poll, Memory
<1>3. LastPower(events').action = LastPower(SeenLog(s)).action
  <2>1. /\ SeenLog(s) \in Seq(RowType(LogActions)) /\ Ordered(SeenLog(s))
        /\ LastOf(SeenLog(s), clock) /\ clock \in Nat
    BY <1>2, SeenSound, LogTyped DEF Sound, SoundLog
  <2>2. \A a \in Plain : LastPower(Record(SeenLog(s), clock, a)).action
                            = LastPower(SeenLog(s)).action
    <3> TAKE a \in Plain
    <3>1. a \in LogActions /\ a \notin PowerActions
      BY DEF Plain, LogActions, PowerActions
    <3> QED
      BY <2>1, <3>1, PowerAfter
  <2>3. \/ events' = SeenLog(s)
        \/ \E a \in Plain : events' = Record(SeenLog(s), clock, a)
    BY <1>1 DEF Own, Release, SkipForCooldown, Rehearse, Send, Plain
  <2> QED
    BY <2>2, <2>3
<1>4. Power' = LastPower(SeenLog(s)).action
  BY <1>3 DEF Power, LastPower
<1>5. DoubtIsFounded'
  BY <1>2, <1>4, DoubtAfterReading DEF DoubtIsFounded, Watch
<1>6. DoubtfulIsWoken' \/ misread'
  <2> SUFFICES ASSUME mode' = "live", handed' = "stopped", Working',
                      miner'.asleep, Power' = "sleep_failed", ~LatchSet',
                      ~misread'
               PROVE  FALSE
    BY DEF DoubtfulIsWoken
  <2>1. s = "stopped" /\ Release(s)
    BY <1>2
  <2>2. Seen(s) = mem /\ SeenLog(s) = events
    BY <1>2, <2>1, SeenSound
  <2>3. events' = events /\ Verdict(mem, s) = "released" /\ Working
    BY <1>2, <2>1, <2>2 DEF Release, Working
  <2>4. ~mem.attention
    <3>1. Agrees(mem, events)
      BY <1>2, SoundBetweenPolls DEF Sound
    <3>2. ~LatchSet
      BY <2>3 DEF LatchSet
    <3> QED
      BY <3>1, <3>2 DEF Agrees, IsLatched, LatchSet
  <2>5. ~mem.uncertain
    BY <2>1, <2>3, <2>4 DEF Verdict
  <2>6. Power = "sleep_failed"
    BY <1>4, <2>2 DEF Power, LastPower
  <2>7. miner.asleep /\ misread
    BY <1>2, <2>5, <2>6 DEF DoubtIsFounded, Running
  <2>8. ~mem'.uncertain
    <3>1. mem \in Memory(clock)
      BY DEF TypeOK
    <3>2. Judged(mem, s).uncertain = mem.uncertain
      BY <3>1 DEF Judged, Memory
    <3> QED
      BY <1>2, <2>2, <2>5, <3>2
  <2> QED
    BY <1>2, <2>7, <2>8 DEF Watch
<1> QED
  BY <1>5, <1>6

\* A command that fails leaves its doubt, one that is acknowledged none.
LEMMA AwaitFounded ==
    ASSUME TypeOK, IInv, DoubtIsFounded, AwaitStep, Watch("none")
    PROVE  DoubtIsFounded' /\ DoubtfulIsWoken'
<1>1. pc \in {"sleeping", "waking", "latching"} /\ handed' = handed
  BY DEF AwaitStep, LatchAttention, Acknowledged, Failed, Returns
<1>2. /\ handed' = "none" /\ mem \in Memory(clock)
      /\ events \in Seq(RowType(LogActions)) /\ Ordered(events)
      /\ LastOf(events, pollTime) /\ pollTime \in Nat
  BY <1>1, AwaitFacts
<1>3. \A a \in LogActions :
         LastPower(Record(events, pollTime, a)).action =
            IF a \in PowerActions THEN a ELSE LastPower(events).action
  BY <1>2, PowerAfter
<1>4. /\ {"sleep", "wake", "sleep_failed"} \subseteq LogActions \cap PowerActions
      /\ {"wake_failed", "sleep_needs_attention"} \subseteq LogActions
      /\ "wake_failed" \notin PowerActions
      /\ "sleep_needs_attention" \notin PowerActions
  BY DEF LogActions, PowerActions, ActuationActions, FailureActions, AttentionActions
<1>5. Power' = LastPower(events').action /\ Power = LastPower(events).action
  BY DEF Power, LastPower
<1>6. CASE LatchAttention
  <2>1. Power' = Power
    BY <1>3, <1>4, <1>5, <1>6 DEF LatchAttention
  <2>2. mem'.uncertain = mem.uncertain /\ UNCHANGED <<miner, mode>>
    BY <1>2, <1>6 DEF LatchAttention, Memory
  <2> QED
    BY <1>1, <1>2, <2>1, <2>2 DEF DoubtIsFounded, Running, DoubtfulIsWoken, Watch
<1>7. ASSUME NEW a \in Answers, Acknowledged(a)
      PROVE  DoubtIsFounded' /\ DoubtfulIsWoken'
  <2>1. Power' \in {"sleep", "wake"}
    BY <1>3, <1>4, <1>5, <1>7 DEF Acknowledged
  <2> QED
    BY <1>2, <2>1 DEF DoubtIsFounded, DoubtfulIsWoken
<1>8. ASSUME NEW a \in Answers, Failed(a)
      PROVE  DoubtIsFounded' /\ DoubtfulIsWoken'
  <2>1. /\ pc \in {"sleeping", "waking"} /\ mode' = mode
        /\ miner' = IF a.took THEN Switched(pc = "sleeping") ELSE miner
        /\ mem' = [mem EXCEPT !.failures = @ + 1,
                              !.uncertain = @ \/ pc = "sleeping"]
    BY <1>8 DEF Failed, Returns
  <2>2. CASE pc = "sleeping"
    <3>1. mem'.uncertain
      BY <1>2, <2>1, <2>2 DEF Memory
    <3> QED
      BY <1>2, <3>1 DEF DoubtIsFounded, DoubtfulIsWoken
  <2>3. CASE pc = "waking"
    <3>1. mem'.uncertain = (mem.uncertain \/ FALSE) /\ mem.uncertain \in BOOLEAN
      BY <1>2, <2>1, <2>3 DEF Memory
    <3>2. Power' = Power
      BY <1>3, <1>4, <1>5, <1>8, <2>3 DEF Failed
    <3>3. miner'.asleep => miner.asleep
      BY <2>1, <2>3 DEF Switched
    <3> QED
      BY <1>2, <2>1, <2>3, <3>1, <3>2, <3>3
         DEF DoubtIsFounded, Running, DoubtfulIsWoken, Watch
  <2> QED
    BY <2>1, <2>2, <2>3
<1> QED
  BY <1>6, <1>7, <1>8 DEF AwaitStep

LEMMA OthersFounded ==
    ASSUME TypeOK, IInv, DoubtIsFounded, MisreadSettles, DoubtfulIsWoken \/ misread,
           Watch("none"),
           Tick \/ Start \/ Crash \/ WokenByHand \/ HorizonReached
    PROVE  DoubtIsFounded' /\ (DoubtfulIsWoken' \/ misread')
<1>1. CASE Tick
  BY <1>1 DEF Tick, DoubtIsFounded, DoubtfulIsWoken, Running, Power, Watch
<1>2. CASE Start
  <2>1. mem' = Hydrated(events) /\ events' = events /\ handed' = "none"
    BY <1>2 DEF Start
  <2>2. Power' = LastPower(events).action
    BY <2>1 DEF Power, LastPower
  <2>3. mem'.uncertain = (LastPower(events).action = "sleep_failed")
    BY <2>1 DEF Hydrated, Blank
  <2> QED
    BY <2>1, <2>2, <2>3 DEF DoubtIsFounded, DoubtfulIsWoken
<1>3. CASE Crash
  <2>1. DoubtIsFounded'
    BY <1>3 DEF Crash, DoubtIsFounded, Running
  <2>2. pc \in {"sleeping", "waking"} => handed = "none"
    BY AwaitFacts
  <2>3. DoubtfulIsWoken' \/ misread'
    BY <1>3, <2>2 DEF Crash, DoubtfulIsWoken, Working, Power, LatchSet, Watch, Blank
  <2> QED
    BY <2>1, <2>3
<1>4. CASE WokenByHand
  BY <1>4 DEF WokenByHand, Switched, DoubtIsFounded, DoubtfulIsWoken
<1>5. CASE HorizonReached
  BY <1>5 DEF HorizonReached, vars, DoubtIsFounded, DoubtfulIsWoken, Running, Power,
              Working, LatchSet, Watch, MisreadSettles
<1> QED
  BY <1>1, <1>2, <1>3, <1>4, <1>5

\* 15 September, for every lag and every fault: a miner whose sleep nobody
\* could confirm is not left asleep when its window opens, unless a human was
\* called, or the doubt was dropped on a reading that showed the sleeping
\* miner as hashing.
THEOREM DoubtIsResolved == WatchedSpec => [](DoubtfulIsWoken \/ misread)
<1>1. Init /\ misread = FALSE => DoubtInv
  <2>1. Init /\ misread = FALSE => DoubtIsFounded /\ DoubtfulIsWoken /\ MisreadSettles
    BY DEF Init, DoubtIsFounded, DoubtfulIsWoken, MisreadSettles
  <2> QED
    BY <2>1, InitSound DEF DoubtInv
<1>2. DoubtInv /\ [WatchedNext]_<<vars, misread>> => DoubtInv'
  <2> SUFFICES ASSUME DoubtInv, [WatchedNext]_<<vars, misread>> PROVE DoubtInv'
    OBVIOUS
  <2>1. IInv'
    BY StepKeeps DEF DoubtInv, WatchedNext, Next, PollStep
  <2>2. TypeOK /\ IInv /\ DoubtIsFounded /\ MisreadSettles /\ (DoubtfulIsWoken \/ misread)
    BY DEF DoubtInv, IInv
  <2>3. CASE \E s \in States : Polls(s) /\ Watch(s)
    BY <2>1, <2>2, <2>3, PollFounded DEF DoubtInv, Watch, MisreadSettles
  <2>4. CASE AwaitStep /\ Watch("none")
    BY <2>1, <2>2, <2>4, AwaitFounded DEF DoubtInv, Watch, MisreadSettles
  <2>5. CASE /\ Tick \/ Start \/ Crash \/ WokenByHand \/ HorizonReached
             /\ Watch("none")
    BY <2>1, <2>2, <2>5, OthersFounded DEF DoubtInv, Watch, MisreadSettles
  <2>6. CASE UNCHANGED <<vars, misread>>
    BY <2>1, <2>2, <2>6 DEF vars, DoubtInv, DoubtIsFounded, DoubtfulIsWoken, Running,
                           Power, Working, LatchSet, MisreadSettles
  <2> QED
    BY <2>3, <2>4, <2>5, <2>6 DEF WatchedNext
<1>3. DoubtInv => DoubtfulIsWoken \/ misread
  BY DEF DoubtInv
<1> QED
  BY <1>1, <1>2, <1>3, PTL DEF WatchedSpec
=============================================================================
