------------------------------ MODULE EventLog ------------------------------
(***************************************************************************)
(* The `events` table of one miner and the queries of minerwatch/store.py. *)
(*                                                                         *)
(* A log is the sequence of a miner's rows in id order.  A row keeps its   *)
(* timestamp and its action; of the state column the queries only look at  *)
(* 'mining', which the poller writes exactly on its 'none' rows, so the    *)
(* action says it.  Rows are not always appended in timestamp order: a     *)
(* controller stamps the start of its poll and records after its awaits,   *)
(* and the command line stamps its own wall clock.  Every query therefore  *)
(* orders by (ts, id), as the SQL does.                                    *)
(***************************************************************************)
EXTENDS Integers, Sequences, FiniteSets

\* None in the code: no time is recorded.
NoTime == -1

Row(t, a) == [ts |-> t, action |-> a]

\* record_event: one INSERT, committed at once.
Record(log, t, a) == Append(log, Row(t, a))

\* ORDER BY ts, id: row i comes before row j.
Older(log, i, j) ==
    \/ log[i].ts < log[j].ts
    \/ log[i].ts = log[j].ts /\ i < j

\* The rows were inserted in time order: a log nobody else writes.
Ordered(log) == \A i, j \in DOMAIN log : i < j => log[i].ts <= log[j].ts

\* WHERE action IN (...): the ids of the rows selected.
Rows(log, actions) == {i \in DOMAIN log : log[i].action \in actions}

Times(log, actions) == {log[i].ts : i \in Rows(log, actions)}

\* last_action_in: ORDER BY ts DESC, id DESC LIMIT 1.
LastActionIn(log, actions) ==
    IF Rows(log, actions) = {} THEN Row(NoTime, "no row")
    ELSE log[CHOOSE i \in Rows(log, actions) :
                \A j \in Rows(log, actions) : j = i \/ Older(log, j, i)]

\* is_needs_attention: the newest row of the two kinds is the latch.
IsNeedsAttention(log) ==
    \E i \in Rows(log, {"needs_attention"}) :
        \A j \in Rows(log, {"attention_cleared"}) : Older(log, j, i)

\* ORDER BY ts, id: a row goes after the rows of lower ids that are no younger.
Placed(rows, row) ==
    LET older == Cardinality({i \in DOMAIN rows : rows[i].ts <= row.ts})
    IN  SubSeq(rows, 1, older) \o <<row>> \o SubSeq(rows, older + 1, Len(rows))

\* WHERE ts <= now ORDER BY ts, id.
Until(log, now) ==
    LET placed[n \in 0..Len(log)] ==
            IF n = 0 THEN <<>>
            ELSE IF log[n].ts > now THEN placed[n - 1] ELSE Placed(placed[n - 1], log[n])
    IN  placed[Len(log)]

\* ... DESC LIMIT maxRows, then rows.reverse(): the newest maxRows of them.
History(log, now, maxRows) ==
    LET rows == Until(log, now)
        skip == IF Len(rows) > maxRows THEN Len(rows) - maxRows ELSE 0
    IN  [k \in 1..(Len(rows) - skip) |-> rows[skip + k]]
=============================================================================
