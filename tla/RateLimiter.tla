---------------------------- MODULE RateLimiter ----------------------------
(***************************************************************************)
(* The sliding windows of SafetyChecker (src/bilibot/services/safety.py):  *)
(* what a publication reserves before it is attempted, what a refusal      *)
(* gives back, and the table a restart reads the windows from.             *)
(*                                                                         *)
(* A window is the queue of the times of its reservations.  The hour's     *)
(* window is one more between the minute's and the day's and is left out.  *)
(***************************************************************************)
EXTENDS Integers, FiniteSets, Sequences, SequencesExt

CONSTANTS
    Minute, Day,        \* the windows' lengths
    PerMinute, PerDay,  \* rate_limits
    GlobalQuota         \* global_quota: all keys together, by day

\* Assumed by the modules that instantiate this one.
LimiterAssumption ==
    {Minute, Day, PerMinute, PerDay, GlobalQuota} \subseteq Nat

\* Account and scene: one set of windows each.
Keys == {"dynamic", "reply"}
Both(f) == f["dynamic"] + f["reply"]

\* minute and day: _rate_buckets; total: _global_bucket;
\* rows: rate_limit_events, durable, by key in the order of their ids.
Empty == [minute |-> [k \in Keys |-> <<>>], day |-> [k \in Keys |-> <<>>],
          total |-> <<>>, rows |-> [k \in Keys |-> <<>>]]

\* What is too old goes from the left, up to the first that is not.
Live(queue, length, now) ==
    LET old == CHOOSE n \in 0..Len(queue) :
                 /\ \A i \in 1..n : queue[i] < now - length
                 /\ n < Len(queue) => queue[n + 1] >= now - length
    IN  SubSeq(queue, old + 1, Len(queue))

\* The last entry of that time, or the last of all if there is none.
LastAt(queue, t) ==
    LET same == {i \in DOMAIN queue : queue[i] = t}
    IN  IF same = {} THEN Len(queue) ELSE Max(same)

Drop(queue, t) == IF queue = <<>> THEN queue ELSE RemoveAt(queue, LastAt(queue, t))

-----------------------------------------------------------------------------
\* check_and_record_rate_limit: the windows are trimmed one after the other up
\* to the first that is full.
Trimmed(lim, k, now) ==
    LET minute == Live(lim.minute[k], Minute, now)
        day    == Live(lim.day[k], Day, now)
    IN  IF Len(minute) >= PerMinute THEN [lim EXCEPT !.minute[k] = minute]
        ELSE IF Len(day) >= PerDay
             THEN [lim EXCEPT !.minute[k] = minute, !.day[k] = day]
             ELSE [lim EXCEPT !.minute[k] = minute, !.day[k] = day,
                              !.total = Live(@, Day, now)]

HasRoom(lim, k, now) ==
    /\ Len(Live(lim.minute[k], Minute, now)) < PerMinute
    /\ Len(Live(lim.day[k], Day, now)) < PerDay
    /\ Len(Live(lim.total, Day, now)) < GlobalQuota

\* The row is inserted last, and an insertion that fails is only logged.
Reserved(lim, k, now, written) ==
    [Trimmed(lim, k, now) EXCEPT
        !.minute[k] = Append(@, now),
        !.day[k]    = Append(@, now),
        !.total     = Append(@, now),
        !.rows[k]   = IF written THEN Append(@, now) ELSE @]

\* refund_publish: the key's last reservation of the day, whosever it is; with
\* none, the last of any key goes from the total, and the key's last row.  A
\* row that cannot be deleted, neither by its time nor as the last one, is only
\* logged, and stays.  (Where only the first of the two deletions raises, the
\* key's last row goes for the one of that time: one row all the same.)
Refunded(lim, k, deleted) ==
    IF lim.day[k] = <<>>
    THEN [lim EXCEPT !.total   = IF @ = <<>> THEN @ ELSE Front(@),
                     !.rows[k] = IF deleted /\ @ # <<>> THEN Front(@) ELSE @]
    ELSE LET t == Last(lim.day[k])
         IN  [lim EXCEPT !.day[k]    = Front(@),
                         !.minute[k] = Drop(@, t),
                         !.total     = Drop(@, t),
                         !.rows[k]   = IF deleted THEN Drop(@, t) ELSE @]

\* Faulty variant of the loading: the total starts from nothing.
LoadedByKey(lim, now) ==
    LET rows == [k \in Keys |-> Live(lim.rows[k], Day, now)]
    IN  [minute |-> [k \in Keys |-> Live(rows[k], Minute, now)],
         day    |-> rows,
         total  |-> <<>>,
         rows   |-> rows]

\* In order: the i-th is the least that at least i of them do not exceed.
Ordered(queue) ==
    [i \in DOMAIN queue |->
        Min({t \in Range(queue) : Cardinality({j \in DOMAIN queue : queue[j] <= t}) >= i})]

\* _load_rate_buckets_from_db: rows older than a day are deleted first.
\* The rows of all keys are read in the order of their times.
Loaded(lim, now) ==
    LET rows == [k \in Keys |-> Live(lim.rows[k], Day, now)]
    IN  [minute |-> [k \in Keys |-> Live(rows[k], Minute, now)],
         day    |-> rows,
         total  |-> Ordered(rows["dynamic"] \o rows["reply"]),
         rows   |-> rows]

\* A load that raises is only logged: the windows start empty, and the rows
\* stay, if it raised after the deletion without those that are too old.
Unloaded(lim, now, swept) ==
    [Empty EXCEPT !.rows = IF swept THEN [k \in Keys |-> Live(lim.rows[k], Day, now)]
                                    ELSE lim.rows]
=============================================================================
