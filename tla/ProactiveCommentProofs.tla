----------------------- MODULE ProactiveCommentProofs -----------------------
(***************************************************************************)
(* Theorems about ProactiveComment, for any videos, rows, leases and       *)
(* bounds: a video gets one comment, and a settled row is not queued again *)
(* behind the operator's back.                                             *)
(***************************************************************************)
EXTENDS ProactiveComment, TLAPS

ActionStatus == {"absent", "claimed", "publishing", "published", "retry_wait",
                 "result_unknown", "failed"}
ActionRow == [status : ActionStatus, video : Video \cup {NoVideo}, written : BOOLEAN,
              attempt : Nat, maxAttempts : Nat, leaseUntil : Int, nextRetryAt : Int,
              updatedAt : Int]
Places == {"idle", "writing", "resolving", "vetting", "refused", "allowed", "posting",
           "declined", "posted", "recording"}

TypeOK ==
    /\ now \in Nat /\ forced \in Nat
    /\ action \in [Id -> ActionRow]
    /\ at \in [Worker -> Places] /\ on \in [Worker -> Nat]
    /\ pending \in SUBSET Id
    /\ accepted \in [Video -> Nat]

\* Whoever is at work, or listed, has a row, and a row has a video.
Known ==
    /\ \A w \in Worker : at[w] # "idle" => on[w] \in Id /\ action[on[w]].status # "absent"
    /\ \A a \in pending : action[a].status # "absent"
    /\ \A a \in Id : action[a].status # "absent" => action[a].video \in Video

-----------------------------------------------------------------------------
(* The statements of the store.                                            *)

\* A row stays that of its video, and a settled one stays settled.
Turns(r, q) ==
    /\ q \in ActionRow
    /\ q.video = r.video
    /\ r.status # "absent" => q.status # "absent"
    /\ r.status \in TerminalStatuses => q.status \in TerminalStatuses

LEMMA ClaimedRow ==
    ASSUME NEW v \in Video, NEW n \in Nat
    PROVE  /\ Claimed(v, n) \in ActionRow /\ Claimed(v, n).status = "claimed"
           /\ Claimed(v, n).video = v /\ n <= Claimed(v, n).leaseUntil
<1>1. ClaimLease \in Nat /\ MaxAttempts \in Nat
  BY ActionAssumption
<1> DEFINE l == n + ClaimLease
<1>2. l \in Int /\ n <= l /\ n \in Int /\ NoTime \in Int
  BY <1>1 DEF NoTime
<1>3. NoAction \in ActionRow
  BY <1>1, <1>2 DEF NoAction, ActionRow, ActionStatus
<1>4. Claimed(v, n) = [NoAction EXCEPT !.status = "claimed", !.video = v, !.updatedAt = n,
                                       !.leaseUntil = l]
  BY DEF Claimed
<1>5. "claimed" \in ActionStatus
  BY DEF ActionStatus
<1> HIDE DEF l
<1> QED BY <1>2, <1>3, <1>4, <1>5 DEF ActionRow

LEMMA SettledRow ==
    ASSUME NEW r \in ActionRow, NEW s \in TerminalStatuses, NEW n \in Nat
    PROVE  /\ Settled(r, s, n) \in ActionRow /\ Settled(r, s, n).status = s
           /\ Settled(r, s, n).video = r.video
<1>1. n \in Int /\ NoTime \in Int /\ s \in ActionStatus
  BY DEF NoTime, ActionStatus, TerminalStatuses
<1> QED BY <1>1 DEF Settled, ActionRow

LEMMA QueuedRow ==
    ASSUME NEW r \in ActionRow, NEW m \in Int, NEW n \in Nat
    PROVE  /\ Queued(r, m, n) \in ActionRow /\ Queued(r, m, n).status = "retry_wait"
           /\ Queued(r, m, n).video = r.video
<1>1. n \in Int /\ NoTime \in Int /\ "retry_wait" \in ActionStatus
  BY DEF NoTime, ActionStatus
<1> QED BY <1>1 DEF Queued, ActionRow

LEMMA SaveTextRow ==
    ASSUME NEW r \in ActionRow, NEW n \in Nat
    PROVE  /\ Turns(r, SaveText(r, n)) /\ SaveText(r, n).status = r.status
           /\ SaveText(r, n).leaseUntil = r.leaseUntil
<1>1. n \in Int
  OBVIOUS
<1> QED BY <1>1 DEF SaveText, Turns, ActionRow

LEMMA MarkFailedRow ==
    ASSUME NEW r \in ActionRow, NEW n \in Nat
    PROVE  Turns(r, MarkFailed(r, n)) /\ MarkFailed(r, n).status = "failed"
<1>1. "failed" \in TerminalStatuses
  BY DEF TerminalStatuses
<1> QED BY <1>1, SettledRow DEF MarkFailed, Turns

LEMMA MarkPublishingRow ==
    ASSUME NEW r \in ActionRow, NEW n \in Nat, CanMarkPublishing(r)
    PROVE  Turns(r, MarkPublishing(r, n)) /\ MarkPublishing(r, n).status = "publishing"
<1> DEFINE l == n + PublishLease
<1>1. l \in Int /\ n \in Int /\ NoTime \in Int /\ "publishing" \in ActionStatus
  BY ActionAssumption DEF NoTime, ActionStatus
<1>2. MarkPublishing(r, n) = [r EXCEPT !.status = "publishing", !.updatedAt = n,
                                       !.nextRetryAt = NoTime, !.leaseUntil = l]
  BY DEF MarkPublishing
<1> HIDE DEF l
<1> QED
  BY <1>1, <1>2 DEF CanMarkPublishing, Turns, ActionRow, TerminalStatuses

LEMMA FromPublishingRow ==
    ASSUME NEW r \in ActionRow, NEW s \in TerminalStatuses, NEW n \in Nat
    PROVE  /\ Turns(r, FromPublishing(r, s, n))
           /\ FromPublishing(r, s, n).status = IF r.status = "publishing" THEN s ELSE r.status
<1>1. Turns(r, r)
  BY DEF Turns
<1>2. Turns(r, Settled(r, s, n)) /\ Settled(r, s, n).status = s
  BY SettledRow DEF Turns, TerminalStatuses
<1> QED BY <1>1, <1>2 DEF FromPublishing

LEMMA MarkRetryWaitRow ==
    ASSUME NEW r \in ActionRow, NEW burn \in BOOLEAN, NEW wait \in Backoff, NEW n \in Nat
    PROVE  LET q == MarkRetryWait(r, burn, wait, n)
           IN  /\ Turns(r, q)
               /\ IF r.status \in {"claimed", "publishing", "retry_wait"}
                  THEN q.status \in {"retry_wait", "failed"} ELSE q = r
<1> DEFINE spent == IF burn THEN r.attempt + 1 ELSE r.attempt
           f == MarkFailed(r, n)
           g == Queued(r, n + wait, n)
<1>1. n + wait \in Int
  BY CommentAssumption
<1>2. spent \in Nat
  BY DEF ActionRow
<1>3. /\ f \in ActionRow /\ f.status = "failed" /\ f.video = r.video
  BY MarkFailedRow DEF Turns
<1>4. /\ g \in ActionRow /\ g.status = "retry_wait" /\ g.video = r.video
  BY <1>1, QueuedRow
<1>5. \/ /\ r.status \notin {"claimed", "publishing", "retry_wait"}
         /\ MarkRetryWait(r, burn, wait, n) = r
      \/ /\ r.status \in {"claimed", "publishing", "retry_wait"}
         /\ MarkRetryWait(r, burn, wait, n) \in
              {[f EXCEPT !.attempt = spent], [g EXCEPT !.attempt = spent]}
  BY DEF MarkRetryWait
<1> HIDE DEF spent, f, g
<1>6. /\ [f EXCEPT !.attempt = spent] \in ActionRow
      /\ [f EXCEPT !.attempt = spent].status = "failed"
      /\ [f EXCEPT !.attempt = spent].video = r.video
  BY <1>2, <1>3 DEF ActionRow
<1>7. /\ [g EXCEPT !.attempt = spent] \in ActionRow
      /\ [g EXCEPT !.attempt = spent].status = "retry_wait"
      /\ [g EXCEPT !.attempt = spent].video = r.video
  BY <1>2, <1>4 DEF ActionRow
<1> QED BY <1>5, <1>6, <1>7 DEF Turns, TerminalStatuses

LEMMA RetryByHandRow ==
    ASSUME NEW r \in ActionRow, NEW n \in Nat
    PROVE  /\ RetryByHand(r, n) \in ActionRow /\ RetryByHand(r, n).status = "retry_wait"
           /\ RetryByHand(r, n).video = r.video
<1> DEFINE g == Queued(r, 0, n)
           m == IF r.status = "failed" /\ r.attempt >= g.maxAttempts
                THEN r.attempt + 1 ELSE g.maxAttempts
<1>1. g \in ActionRow /\ g.status = "retry_wait" /\ g.video = r.video
  BY QueuedRow
<1>2. RetryByHand(r, n) = [g EXCEPT !.written = TRUE, !.maxAttempts = m]
  BY DEF RetryByHand
<1> HIDE DEF g
<1>3. m \in Nat
  BY <1>1 DEF ActionRow
<1> HIDE DEF m
<1> QED BY <1>1, <1>2, <1>3 DEF ActionRow

LEMMA RecoveredRow ==
    ASSUME NEW r \in ActionRow, NEW n \in Nat
    PROVE  /\ Turns(r, Recovered(r, n))
           /\ \/ Recovered(r, n) = r
              \/ r.status = "publishing" /\ Recovered(r, n).status = "result_unknown"
              \/ /\ r.status = "claimed" /\ r.leaseUntil < n
                 /\ Recovered(r, n).status \in {"retry_wait", "failed"}
<1>0. n \in Int /\ r.leaseUntil \in Int /\ r.written \in BOOLEAN
  BY DEF ActionRow
<1>1. \/ Recovered(r, n) = r
      \/ r.status = "publishing" /\ Recovered(r, n) = Settled(r, "result_unknown", n)
      \/ /\ r.status = "claimed" /\ r.leaseUntil < n
         /\ Recovered(r, n) \in {Queued(r, n, n), MarkFailed(r, n)}
  BY <1>0 DEF Recovered
<1>2. /\ Settled(r, "result_unknown", n) \in ActionRow
      /\ Settled(r, "result_unknown", n).status = "result_unknown"
      /\ Settled(r, "result_unknown", n).video = r.video
  <2>1. "result_unknown" \in TerminalStatuses
    BY DEF TerminalStatuses
  <2> QED BY <2>1, SettledRow
<1>3. /\ Queued(r, n, n) \in ActionRow /\ Queued(r, n, n).status = "retry_wait"
      /\ Queued(r, n, n).video = r.video
  BY <1>0, QueuedRow
<1>4. /\ MarkFailed(r, n) \in ActionRow /\ MarkFailed(r, n).status = "failed"
      /\ MarkFailed(r, n).video = r.video
  BY MarkFailedRow DEF Turns
<1> QED BY <1>1, <1>2, <1>3, <1>4 DEF Turns, TerminalStatuses

-----------------------------------------------------------------------------
(* What a worker can do to its row, told by the row's status and by where  *)
(* the worker goes.                                                        *)

\* Before mark_publishing
Early == {"writing", "resolving", "vetting", "refused", "allowed"}

Acts(w, place, q) ==
    /\ at[w] # "idle"
    /\ at' = [at EXCEPT ![w] = place]
    /\ on' = IF place = "idle" THEN [on EXCEPT ![w] = 0] ELSE on
    /\ pending' \in {pending, {}}
    /\ action' = [action EXCEPT ![on[w]] = q]
    /\ UNCHANGED <<now, alive, accepted, env>>

\* It goes on or leaves,
Stays(w, place, q) ==
    /\ q.status = Mine(w).status /\ q.leaseUntil = Mine(w).leaseUntil
    /\ \/ place = "idle"
       \/ at[w] \in Early /\ place \in Early \ {"resolving"}
       \/ at[w] = "posting" /\ place = "declined"

\* gives up or puts the row off,
Drops(w, place, q) ==
    /\ \/ at[w] \in Early
       \/ /\ at[w] \in {"posting", "declined"}
          /\ Mine(w).status \in {"claimed", "publishing", "retry_wait"}
    /\ q.status \in {"failed", "retry_wait"}
    /\ place = "idle"

\* takes the lock of the publication,
Locks(w, place, q) ==
    /\ at[w] = "allowed" /\ Mine(w).status \in {"claimed", "retry_wait"}
    /\ q.status = "publishing" /\ place = "posting"

\* or files the answer.
Files(w, place, q) ==
    /\ at[w] \in {"posting", "posted"}
    /\ \E s \in {"published", "result_unknown"} :
         q.status = IF Mine(w).status = "publishing" THEN s ELSE Mine(w).status
    /\ place = "idle" \/ (place = "recording" /\ at[w] = "posted")

Proceeds(w, place, q) ==
    /\ Acts(w, place, q) /\ Turns(Mine(w), q)
    /\ Stays(w, place, q) \/ Drops(w, place, q) \/ Locks(w, place, q) \/ Files(w, place, q)

LEMMA RowOfWorker ==
    ASSUME TypeOK, Known, NEW w \in Worker, at[w] # "idle"
    PROVE  /\ Mine(w) \in ActionRow /\ Turns(Mine(w), Mine(w)) /\ on[w] \in Id
           /\ action = [action EXCEPT ![on[w]] = Mine(w)]
  BY DEF TypeOK, Known, Mine, Turns

LEMMA WorkerProceeds ==
    ASSUME TypeOK, Known, NEW w \in Worker,
           \/ w = "watcher" /\ (Write \/ Requeue)
           \/ w = "retrier" /\ Resolve
           \/ Vet(w) \/ Refuse(w) \/ Enter(w) \/ Accept(w) \/ Record(w)
           \/ Decline(w) \/ Lose(w) \/ Raise(w)
    PROVE  \E place \in Places, q \in ActionRow : Proceeds(w, place, q)
<1> DEFINE r == Mine(w)
<1>1. at[w] # "idle" /\ now \in Nat
  BY DEF Write, Requeue, Resolve, Vet, Refuse, Enter, Accept, Record, Decline, Lose, Raise,
         On, TypeOK
<1>2. /\ r \in ActionRow /\ Turns(r, r)
      /\ action = [action EXCEPT ![on[w]] = r]
  BY <1>1, RowOfWorker
<1>3. ASSUME NEW place \in Places, NEW q \in ActionRow, Turns(r, q),
             at' = [at EXCEPT ![w] = place],
             on' = IF place = "idle" THEN [on EXCEPT ![w] = 0] ELSE on,
             pending' \in {pending, {}},
             action' = [action EXCEPT ![on[w]] = q], UNCHANGED <<now, alive, accepted, env>>,
             \/ Stays(w, place, q) \/ Drops(w, place, q)
             \/ Locks(w, place, q) \/ Files(w, place, q)
      PROVE  \E p \in Places, s \in ActionRow : Proceeds(w, p, s)
  BY <1>1, <1>3 DEF Proceeds, Acts
<1> DEFINE failed == MarkFailed(r, now)
<1>4. failed \in ActionRow /\ Turns(r, failed) /\ failed.status = "failed"
  BY <1>1, <1>2, MarkFailedRow DEF Turns
<1>5. ASSUME NEW burn \in BOOLEAN, NEW wait \in Backoff
      PROVE  LET q == MarkRetryWait(r, burn, wait, now)
             IN  /\ q \in ActionRow /\ Turns(r, q)
                 /\ \/ q = r
                    \/ /\ q.status \in {"retry_wait", "failed"}
                       /\ r.status \in {"claimed", "publishing", "retry_wait"}
  BY <1>1, <1>2, MarkRetryWaitRow DEF Turns
<1>6. ASSUME NEW s \in {"published", "result_unknown"}
      PROVE  LET q == FromPublishing(r, s, now)
             IN  /\ q \in ActionRow /\ Turns(r, q)
                 /\ q.status = IF r.status = "publishing" THEN s ELSE r.status
  <2>1. s \in TerminalStatuses
    BY DEF TerminalStatuses
  <2> QED BY <1>1, <1>2, <2>1, FromPublishingRow DEF Turns
<1> HIDE DEF failed
<1>7. Leave(w) => /\ at' = [at EXCEPT ![w] = "idle"]
                  /\ on' = [on EXCEPT ![w] = 0] /\ pending' = pending
  BY DEF Leave
<1>8. \A place : Go(w, place) =>
        at' = [at EXCEPT ![w] = place] /\ on' = on /\ pending' = pending
  BY DEF Go
<1>9. ASSUME Leave(w), action' = [action EXCEPT ![on[w]] = failed], Still, at[w] \in Early
      PROVE  \E p \in Places, s \in ActionRow : Proceeds(w, p, s)
  <2>1. Drops(w, "idle", failed)
    BY <1>4, <1>9 DEF Drops
  <2> QED BY <1>3, <1>4, <1>7, <1>9, <2>1 DEF Still, Places
<1>10. ASSUME NEW place \in Places, place # "idle", Go(w, place), UNCHANGED action,
              UNCHANGED <<now, alive, accepted, env>>, Stays(w, place, r)
       PROVE  \E p \in Places, s \in ActionRow : Proceeds(w, p, s)
  BY <1>2, <1>3, <1>8, <1>10
<1>11. ASSUME Leave(w), UNCHANGED action, UNCHANGED <<now, alive, accepted, env>>
       PROVE  \E p \in Places, s \in ActionRow : Proceeds(w, p, s)
  <2>1. Stays(w, "idle", r)
    BY DEF Stays
  <2> QED BY <1>2, <1>3, <1>7, <1>11, <2>1 DEF Places
<1>12. ASSUME NEW burn \in BOOLEAN, NEW wait \in Backoff, Leave(w), Still,
              at[w] \in Early \cup {"posting", "declined"},
              action' = [action EXCEPT ![on[w]] = MarkRetryWait(r, burn, wait, now)]
       PROVE  \E p \in Places, s \in ActionRow : Proceeds(w, p, s)
  <2> DEFINE q == MarkRetryWait(r, burn, wait, now)
  <2>1. /\ q \in ActionRow /\ Turns(r, q)
        /\ \/ q = r
           \/ /\ q.status \in {"retry_wait", "failed"}
              /\ r.status \in {"claimed", "publishing", "retry_wait"}
    BY <1>5
  <2> HIDE DEF q
  <2>2. Stays(w, "idle", q) \/ Drops(w, "idle", q)
    BY <1>12, <2>1 DEF Stays, Drops
  <2> QED BY <1>3, <1>7, <1>12, <2>1, <2>2 DEF Still, Places, q
<1>13. ASSUME NEW s \in {"published", "result_unknown"}, Still,
              action' = [action EXCEPT ![on[w]] = FromPublishing(r, s, now)],
              \/ Leave(w) /\ at[w] \in {"posting", "posted"}
              \/ Go(w, "recording") /\ at[w] = "posted"
       PROVE  \E p \in Places, q \in ActionRow : Proceeds(w, p, q)
  <2> DEFINE q == FromPublishing(r, s, now)
  <2>1. /\ q \in ActionRow /\ Turns(r, q)
        /\ q.status = IF r.status = "publishing" THEN s ELSE r.status
    BY <1>6
  <2> HIDE DEF q
  <2>2. CASE Leave(w) /\ at[w] \in {"posting", "posted"}
    <3>1. Files(w, "idle", q)
      BY <2>1, <2>2 DEF Files
    <3> QED BY <1>3, <1>7, <1>13, <2>1, <2>2, <3>1 DEF Still, Places, q
  <2>3. CASE Go(w, "recording") /\ at[w] = "posted"
    <3>1. Files(w, "recording", q)
      BY <2>1, <2>3 DEF Files
    <3> QED BY <1>3, <1>8, <1>13, <2>1, <2>3, <3>1 DEF Still, Places, q
  <2> QED BY <1>13, <2>2, <2>3
<1>14. CASE w = "watcher" /\ Write
  <2> DEFINE q == SaveText(r, now)
  <2>1. /\ q \in ActionRow /\ Turns(r, q) /\ q.status = r.status
        /\ q.leaseUntil = r.leaseUntil
    BY <1>1, <1>2, SaveTextRow DEF Turns
  <2> HIDE DEF q
  <2>2. Stays(w, "vetting", q)
    BY <1>14, <2>1 DEF Stays, Early, Write, On
  <2>3. CASE Leave(w) /\ Put(w, MarkFailed(r, now))
    BY <1>9, <1>14, <2>3 DEF Write, On, Early, Put, failed
  <2>4. CASE Go(w, "vetting") /\ Put(w, q)
    BY <1>3, <1>8, <1>14, <2>1, <2>2, <2>4 DEF Write, Still, Put, Places
  <2> QED BY <1>14, <2>3, <2>4 DEF Write, q
<1>15. CASE w = "watcher" /\ Requeue
  BY <1>12, <1>15 DEF Requeue, On, Put
<1>16. CASE w = "retrier" /\ Resolve
  <2>1. Stays(w, "vetting", r)
    BY <1>16 DEF Stays, Early, Resolve, On
  <2> QED BY <1>9, <1>10, <1>16, <2>1 DEF Resolve, Still, Put, On, Early, Places, failed
<1>17. CASE Vet(w)
  <2>1. Stays(w, "allowed", r) /\ Stays(w, "refused", r)
    BY <1>17 DEF Stays, Early, Vet, On
  <2> QED BY <1>10, <1>17, <2>1 DEF Vet, Still, Places
<1>18. CASE Refuse(w)
  BY <1>9, <1>18 DEF Refuse, On, Early, Put, failed
<1>19. CASE Enter(w)
  <2>1. at[w] = "allowed" /\ at[w] \in Early /\ Still
    BY <1>19 DEF Enter, On, Early
  <2>2. CASE Put(w, MarkFailed(r, now)) /\ Leave(w)
    BY <1>9, <2>1, <2>2 DEF Put, failed
  <2>3. CASE \E wait \in Backoff :
               Put(w, MarkRetryWait(Mine(w), FALSE, wait, now)) /\ Leave(w)
    BY <1>12, <2>1, <2>3 DEF Put
  <2>4. CASE /\ CanMarkPublishing(r) /\ Put(w, MarkPublishing(r, now))
             /\ Go(w, "posting")
    <3> DEFINE q == MarkPublishing(r, now)
    <3>1. q \in ActionRow /\ Turns(r, q) /\ q.status = "publishing"
      BY <1>1, <1>2, <2>4, MarkPublishingRow DEF Turns
    <3> HIDE DEF q
    <3>2. Locks(w, "posting", q)
      BY <2>1, <2>4, <3>1 DEF Locks, CanMarkPublishing
    <3> QED BY <1>3, <1>8, <2>1, <2>4, <3>1, <3>2 DEF Put, Still, Places, q
  <2>5. CASE UNCHANGED action /\ Leave(w)
    BY <1>11, <2>1, <2>5 DEF Still
  <2> QED BY <1>19, <2>2, <2>3, <2>4, <2>5 DEF Enter
<1>20. CASE Accept(w)
  BY <1>13, <1>20 DEF Accept, On, Put
<1>21. CASE Record(w)
  BY <1>11, <1>21 DEF Record
<1>22. CASE Decline(w)
  <2>1. at[w] = "posting" /\ Still
    BY <1>22 DEF Decline, On
  <2>2. CASE UNCHANGED action /\ Go(w, "declined")
    <3>1. Stays(w, "declined", r)
      BY <2>1 DEF Stays
    <3> QED BY <1>10, <2>1, <2>2, <3>1 DEF Still, Places
  <2>3. CASE \E wait \in Backoff :
               Put(w, MarkRetryWait(Mine(w), TRUE, wait, now)) /\ Leave(w)
    BY <1>12, <2>1, <2>3 DEF Put
  <2> QED BY <1>22, <2>2, <2>3 DEF Decline
<1>23. CASE Lose(w)
  BY <1>13, <1>23 DEF Lose, On, Put
<1>24. CASE Raise(w)
  <2>1. Stays(w, "idle", r)
    BY DEF Stays
  <2> QED BY <1>2, <1>3, <1>24, <2>1 DEF Raise, Still, Places
<1> QED BY <1>14, <1>15, <1>16, <1>17, <1>18, <1>19, <1>20, <1>21, <1>22, <1>23, <1>24

-----------------------------------------------------------------------------
(* Types, and the action property.                                         *)

NoRequeue ==
    \A a \in Id :
      action[a].status \in TerminalStatuses /\ action'[a].status = "retry_wait"
        => manual' = manual + 1

\* One row changes, or every row is recovered; a row that exists has a video.
LEMMA ProceedTypes ==
    ASSUME TypeOK, Known, NEW w \in Worker, NEW place \in Places, NEW q \in ActionRow,
           Proceeds(w, place, q)
    PROVE  TypeOK' /\ Known' /\ NoRequeue
<1>1. /\ at' = [at EXCEPT ![w] = place] /\ at[w] # "idle"
      /\ on' = IF place = "idle" THEN [on EXCEPT ![w] = 0] ELSE on
      /\ pending' \in {pending, {}}
      /\ action' = [action EXCEPT ![on[w]] = q]
      /\ UNCHANGED <<now, alive, accepted, env>>
      /\ Turns(Mine(w), q)
  BY DEF Proceeds, Acts
<1>2. on[w] \in Id
  BY <1>1, RowOfWorker
<1>3. /\ at' \in [Worker -> Places] /\ on' \in [Worker -> Nat]
      /\ pending' \in SUBSET Id /\ action' \in [Id -> ActionRow]
  BY <1>1, <1>2 DEF TypeOK
<1>4. TypeOK'
  BY <1>1, <1>3 DEF TypeOK, env
<1>5. \A a \in Id : /\ action[a].status # "absent" => action'[a].status # "absent"
                    /\ action'[a].video = action[a].video
                    /\ a # on[w] => action'[a] = action[a]
  BY <1>1, <1>2 DEF TypeOK, Turns, Mine
<1>6. \A a \in Id : action'[a].status # "absent" => action'[a].video \in Video
  BY <1>1, <1>2, <1>5 DEF Known
<1>7. \A v \in Worker : at'[v] # "idle" => at[v] # "idle" /\ on'[v] = on[v]
  BY <1>1 DEF TypeOK
<1>8. Known'
  BY <1>1, <1>5, <1>6, <1>7 DEF Known, TypeOK
<1>9. NoRequeue
  BY <1>1, <1>2 DEF NoRequeue, TypeOK, Turns, Mine, TerminalStatuses
<1> QED BY <1>4, <1>8, <1>9

\* The steps of another kind
Inner ==
    \/ \E v \in Video : Claim(v)
    \/ List \/ (\E a \in Id : PickUp(a)) \/ (\E w \in Worker : Post(w))
    \/ RecoverStuck \/ Boot \/ Tick \/ Crash
    \/ \E v \in Video, force \in BOOLEAN : RetryManually(v, force)

LEMMA OtherTypes ==
    ASSUME TypeOK, Known, Inner
    PROVE  TypeOK' /\ Known' /\ NoRequeue
<1> USE DEF Still, env, workers
<1>0. /\ now \in Nat /\ forced \in Nat /\ action \in [Id -> ActionRow]
      /\ at \in [Worker -> Places] /\ on \in [Worker -> Nat] /\ pending \in SUBSET Id
      /\ accepted \in [Video -> Nat]
      /\ {"idle", "writing", "resolving", "posted"} \subseteq Places
      /\ \A a \in Id : action[a] \in ActionRow
  BY DEF TypeOK, Places
<1>1. UNCHANGED action => NoRequeue
  BY DEF NoRequeue, TerminalStatuses
<1>2. ASSUME NEW v \in Video, Claim(v)
      PROVE  TypeOK' /\ Known' /\ NoRequeue
  <2>1. PICK a \in Id :
          /\ action[a].status = "absent"
          /\ action' = [action EXCEPT ![a] = Claimed(v, now)]
          /\ on' = [on EXCEPT !["watcher"] = a]
    BY <1>2 DEF Claim
  <2>2. Claimed(v, now) \in ActionRow /\ Claimed(v, now).status = "claimed"
        /\ Claimed(v, now).video = v
    BY <1>0, ClaimedRow
  <2>3. a \in Nat
    BY DEF Id
  <2>4. TypeOK'
    BY <1>0, <1>2, <2>1, <2>2, <2>3 DEF Claim, TypeOK
  <2>5. /\ at' = [at EXCEPT !["watcher"] = "writing"] /\ pending' = pending
        /\ action' = [action EXCEPT ![a] = Claimed(v, now)]
    BY <1>2, <2>1 DEF Claim
  <2>6. Known'
    <3>1. \A b \in Id : action'[b].status # "absent" => action'[b].video \in Video
      BY <1>0, <2>2, <2>5 DEF Known
    <3>2. \A b \in Id : action[b].status # "absent" => action'[b].status # "absent"
      BY <1>0, <2>1, <2>2
    <3>3. ASSUME NEW w \in Worker, at'[w] # "idle"
          PROVE  on'[w] \in Id /\ action'[on'[w]].status # "absent"
      BY <1>0, <2>1, <2>2, <2>5, <3>2, <3>3 DEF Known, Worker
    <3> QED BY <1>0, <2>5, <3>1, <3>2, <3>3 DEF Known
  <2>7. NoRequeue
    BY <1>0, <2>2, <2>5 DEF NoRequeue, TerminalStatuses
  <2> QED BY <2>4, <2>6, <2>7
<1>3. CASE List
  <2>1. TypeOK'
    BY <1>0, <1>3 DEF List, TypeOK
  <2>2. \A a \in pending' : action[a].status # "absent"
    BY <1>3 DEF List, Due
  <2> QED BY <1>1, <1>3, <2>1, <2>2 DEF List, Known
<1>4. ASSUME NEW a \in Id, PickUp(a)
      PROVE  TypeOK' /\ Known' /\ NoRequeue
  <2> DEFINE q == MarkFailed(action[a], now)
  <2>1. /\ q \in ActionRow /\ q.status = "failed" /\ q.video = action[a].video
    BY <1>0, MarkFailedRow DEF Turns
  <2>2. action[a].status # "absent" /\ pending' = pending \ {a} /\ a \in Nat
    BY <1>4 DEF PickUp, Known, Id
  <2>3. CASE action' = [action EXCEPT ![a] = q] /\ UNCHANGED <<at, on>>
    <3> HIDE DEF q
    <3>1. TypeOK'
      BY <1>0, <1>4, <2>1, <2>2, <2>3 DEF PickUp, TypeOK
    <3>2. \A b \in Id : /\ action[b].status # "absent" => action'[b].status # "absent"
                        /\ action'[b].video = action[b].video
                        /\ action'[b] = action[b] \/ action'[b].status = "failed"
      BY <1>0, <2>1, <2>3
    <3>3. Known'
      BY <1>0, <2>2, <2>3, <3>2 DEF Known
    <3> QED BY <3>1, <3>2, <3>3 DEF NoRequeue, TerminalStatuses
  <2>4. CASE /\ UNCHANGED action
             /\ \/ UNCHANGED <<at, on>>
                \/ /\ at' = [at EXCEPT !["retrier"] = "resolving"]
                   /\ on' = [on EXCEPT !["retrier"] = a]
    <3>1. TypeOK'
      BY <1>0, <1>4, <2>2, <2>4 DEF PickUp, TypeOK
    <3>2. \A w \in Worker : at'[w] # "idle" =>
             \/ at[w] # "idle" /\ on'[w] = on[w]
             \/ on'[w] = a
      BY <1>0, <2>4
    <3>3. Known'
      BY <1>0, <2>2, <2>4, <3>2 DEF Known
    <3> QED BY <1>1, <2>4, <3>1, <3>3
  <2> QED BY <1>4, <2>3, <2>4 DEF PickUp
<1>5. ASSUME NEW w \in Worker, Post(w)
      PROVE  TypeOK' /\ Known' /\ NoRequeue
  <2>1. at' = [at EXCEPT ![w] = "posted"] /\ at[w] # "idle" /\ UNCHANGED <<on, pending, action>>
    BY <1>5 DEF Post, On, Go
  <2>2. accepted' \in [Video -> Nat]
    <3>1. Mine(w).video \in Video
      BY <2>1 DEF Known, Mine
    <3> QED BY <1>0, <1>5, <3>1 DEF Post
  <2>3. TypeOK'
    BY <1>0, <1>5, <2>1, <2>2 DEF Post, TypeOK
  <2>4. Known'
    BY <1>0, <2>1 DEF Known
  <2> QED BY <1>1, <2>1, <2>3, <2>4
<1>6. ASSUME action' = Recovery, UNCHANGED <<now, logged, workers, accepted, env>>
      PROVE  TypeOK' /\ Known' /\ NoRequeue
  <2>1. ASSUME NEW a \in Id
        PROVE  Turns(action[a], Recovered(action[a], now))
    BY <1>0, RecoveredRow
  <2>2. TypeOK'
    BY <1>0, <1>6, <2>1 DEF TypeOK, Turns, Recovery
  <2>3. \A a \in Id : Turns(action[a], action'[a])
    BY <1>6, <2>1 DEF Recovery
  <2>4. Known'
    <3>1. \A a \in Id : action'[a].status # "absent" => action'[a].video \in Video
      <4>1. ASSUME NEW a \in Id, action[a].status = "absent"
            PROVE  action'[a].status = "absent"
        <5>1. Recovered(action[a], now) = action[a]
          BY <1>0, <4>1, RecoveredRow
        <5> QED BY <1>6, <4>1, <5>1 DEF Recovery
      <4> QED BY <2>3, <4>1 DEF Turns, Known
    <3> QED BY <1>0, <1>6, <2>3, <3>1 DEF Turns, Known
  <2> QED BY <2>2, <2>3, <2>4 DEF Turns, NoRequeue, TerminalStatuses
<1>7. CASE RecoverStuck
  BY <1>6, <1>7 DEF RecoverStuck
<1>8. CASE Boot
  BY <1>6, <1>8 DEF Boot
<1>9. CASE Tick
  BY <1>0, <1>1, <1>9 DEF Tick, TypeOK, Known
<1>10. CASE Crash
  <2>1. at' = [w \in Worker |-> "idle"] /\ on' = [w \in Worker |-> 0] /\ pending' = {}
    BY <1>10 DEF Crash, Rest
  <2>2. TypeOK'
    BY <1>0, <1>10, <2>1 DEF Crash, TypeOK
  <2>3. Known'
    BY <1>10, <2>1 DEF Crash, Known
  <2> QED BY <1>1, <1>10, <2>2, <2>3 DEF Crash
<1>11. ASSUME NEW v \in Video, NEW force \in BOOLEAN, RetryManually(v, force)
       PROVE  TypeOK' /\ Known' /\ NoRequeue
  <2>1. PICK a \in Latest(v) :
          /\ action' = [action EXCEPT ![a] = RetryByHand(@, now)]
          /\ forced' = IF action[a].status = "result_unknown" THEN forced + 1 ELSE forced
    BY <1>11 DEF RetryManually
  <2>2. a \in Id /\ action[a].video = v
    BY DEF Latest
  <2> DEFINE q == RetryByHand(action[a], now)
  <2>3. q \in ActionRow /\ q.status = "retry_wait" /\ q.video = v
    BY <1>0, <2>2, RetryByHandRow
  <2>4. action' = [action EXCEPT ![a] = q]
    BY <2>1
  <2> HIDE DEF q
  <2>5. TypeOK'
    <3>1. forced' \in Nat
      BY <1>0, <2>1
    <3>2. action' \in [Id -> ActionRow]
      BY <1>0, <2>2, <2>3, <2>4
    <3> QED BY <1>0, <1>11, <3>1, <3>2 DEF RetryManually, TypeOK
  <2>6. \A b \in Id : /\ action[b].status # "absent" => action'[b].status # "absent"
                      /\ action'[b].video = action[b].video
    BY <1>0, <2>2, <2>3, <2>4
  <2>7. \A b \in Id : action'[b].status # "absent" => action'[b].video \in Video
    BY <1>0, <2>2, <2>3, <2>4 DEF Known
  <2>8. Known'
    BY <1>0, <1>11, <2>6, <2>7 DEF Known, RetryManually
  <2> QED BY <1>11, <2>5, <2>8 DEF RetryManually, NoRequeue
<1> QED BY <1>2, <1>3, <1>4, <1>5, <1>7, <1>8, <1>9, <1>10, <1>11 DEF Inner

LEMMA NextParts ==
    ASSUME TypeOK, Known, Next
    PROVE  \/ Inner
           \/ \E w \in Worker, place \in Places, q \in ActionRow : Proceeds(w, place, q)
<1>1. "watcher" \in Worker /\ "retrier" \in Worker
  BY DEF Worker
<1>2. ASSUME NEW w \in Worker, Work(w)
      PROVE  Post(w) \/ \E place \in Places, q \in ActionRow : Proceeds(w, place, q)
  BY <1>2, WorkerProceeds DEF Work
<1> QED BY <1>1, <1>2, WorkerProceeds DEF Next, Inner, Watch, Retry

LEMMA TypesKept ==
    ASSUME TypeOK, Known, Next
    PROVE  TypeOK' /\ Known' /\ NoRequeue
  BY NextParts, ProceedTypes, OtherTypes

-----------------------------------------------------------------------------
(* The inductive invariant, while no watcher outlives its claim and nobody *)
(* has forced a row.                                                       *)

Reached == {"publishing", "published", "result_unknown"}

\* ux_pca_active, and a comment that is out keeps its row in that index.
RowsInv ==
    /\ \A a, b \in Id :
         a # b /\ action[a].status \in BlockingStatuses /\ action[b].status \in BlockingStatuses
           => action[a].video # action[b].video
    /\ \A v \in Video : accepted[v] <= 1
    /\ \A v \in Video : accepted[v] # 0 =>
         \E a \in Id : action[a].video = v /\ action[a].status \in Reached

\* The row of a worker is where the worker believes it to be, or was given up
\* by the recovery while the worker waited for the platform.
Fits(w) ==
    /\ at[w] \in Early =>
         IF w = "watcher"
         THEN /\ at[w] # "resolving"
              /\ Mine(w).status = "claimed" /\ now <= Mine(w).leaseUntil
         ELSE Mine(w).status = "retry_wait"
    /\ at[w] \in {"posting", "declined", "posted"} =>
         Mine(w).status \in {"publishing", "result_unknown"}
    /\ at[w] \in {"posting", "declined"} => accepted[Mine(w).video] = 0
    /\ at[w] = "recording" => Mine(w).status \in {"published", "result_unknown"}

Core ==
    /\ RowsInv
    /\ \A w \in Worker : Fits(w)
    /\ at["watcher"] # "idle" /\ at["retrier"] # "idle" => on["watcher"] # on["retrier"]
    /\ \A a \in pending : /\ action[a].status = "retry_wait"
                          /\ at["retrier"] # "idle" => a # on["retrier"]
    /\ ~alive => at = Rest /\ pending = {}

IInv == TypeOK /\ Known /\ (prompt /\ forced = 0 => Core)

-----------------------------------------------------------------------------
(* The rows.                                                               *)

\* A row moves on, and is given up while it is publishing only if nothing is out.
Onward(a) ==
    LET s == action[a].status
        q == action'[a].status
    IN  \/ q = s
        \/ s \in {"claimed", "retry_wait"} /\ q \in {"retry_wait", "publishing", "failed"}
        \/ s = "publishing" /\ q \in {"published", "result_unknown"}
        \/ /\ s = "publishing" /\ q \in {"retry_wait", "failed"}
           /\ accepted[action[a].video] = 0

LEMMA RowsMoveOn ==
    ASSUME TypeOK, Known, RowsInv, UNCHANGED accepted,
           \A a \in Id : action'[a].video = action[a].video /\ Onward(a)
    PROVE  RowsInv'
<1>1. \A a \in Id : action'[a].status \in BlockingStatuses => action[a].status \in BlockingStatuses
  BY DEF Onward, BlockingStatuses
<1>2. ASSUME NEW v \in Video, accepted'[v] # 0
      PROVE  \E a \in Id : action'[a].video = v /\ action'[a].status \in Reached
  <2>1. PICK a \in Id : action[a].video = v /\ action[a].status \in Reached
    BY <1>2 DEF RowsInv
  <2>2. action'[a].video = v /\ action'[a].status \in Reached
    BY <1>2, <2>1 DEF Onward, Reached
  <2> QED BY <2>2
<1>3. \A a, b \in Id :
         a # b /\ action'[a].status \in BlockingStatuses /\ action'[b].status \in BlockingStatuses
           => action'[a].video # action'[b].video
  BY <1>1 DEF RowsInv
<1>4. \A v \in Video : accepted'[v] <= 1
  BY DEF RowsInv
<1> QED BY <1>2, <1>3, <1>4 DEF RowsInv

LEMMA RowOpens ==
    ASSUME TypeOK, Known, RowsInv, UNCHANGED accepted,
           NEW a \in Id, action[a].status \in {"absent", "failed"},
           \A b \in Id \ {a} : action'[b] = action[b],
           \A b \in Id \ {a} :
             action[b].video = action'[a].video => action[b].status \notin BlockingStatuses
    PROVE  RowsInv'
<1>1. ASSUME NEW v \in Video, accepted'[v] # 0
      PROVE  \E b \in Id : action'[b].video = v /\ action'[b].status \in Reached
  <2>1. PICK b \in Id : action[b].video = v /\ action[b].status \in Reached
    BY <1>1 DEF RowsInv
  <2>2. b # a
    BY <2>1 DEF Reached
  <2> QED BY <2>1, <2>2
<1>2. \A c, b \in Id :
         c # b /\ action'[c].status \in BlockingStatuses /\ action'[b].status \in BlockingStatuses
           => action'[c].video # action'[b].video
  BY DEF RowsInv
<1>3. \A v \in Video : accepted'[v] <= 1
  BY DEF RowsInv
<1> QED BY <1>1, <1>2, <1>3 DEF RowsInv

\* Nothing is out for a video whose row waits.
LEMMA WaitingIsFresh ==
    ASSUME TypeOK, Known, RowsInv, NEW a \in Id,
           action[a].status \in {"claimed", "retry_wait"}
    PROVE  accepted[action[a].video] = 0
  BY DEF RowsInv, Known, Reached, BlockingStatuses

-----------------------------------------------------------------------------
(* Every step keeps the core.                                              *)

LEMMA ProceedKeepsCore ==
    ASSUME TypeOK, Known, Core, NEW w \in Worker, NEW place \in Places, NEW q \in ActionRow,
           Proceeds(w, place, q)
    PROVE  Core'
<1> DEFINE a == on[w]
<1>1. /\ at' = [at EXCEPT ![w] = place] /\ at[w] # "idle" /\ at[w] \in Places
      /\ on' = IF place = "idle" THEN [on EXCEPT ![w] = 0] ELSE on
      /\ pending' \in {pending, {}}
      /\ action' = [action EXCEPT ![a] = q]
      /\ now' = now /\ alive' = alive /\ accepted' = accepted
      /\ q.video = action[a].video
  BY DEF Proceeds, Acts, Turns, Mine, TypeOK
<1>2. /\ a \in Id /\ action[a] \in ActionRow /\ a = on[w] /\ action'[a] = q
      /\ \A b \in Id \ {a} : action'[b] = action[b]
  BY <1>1, RowOfWorker DEF TypeOK
<1> HIDE DEF a
<1>3. Fits(w) /\ Mine(w) = action[a]
  BY <1>2 DEF Core, Mine
<1>4. Onward(a) /\ Fits(w)'
  <2>1. at'[w] = place /\ (place # "idle" => on'[w] = a)
    BY <1>1, <1>2 DEF TypeOK
  <2>2. Mine(w)' = IF place = "idle" THEN action'[on'[w]] ELSE q
    BY <1>2, <2>1 DEF Mine
  <2>3. CASE Stays(w, place, q)
    <3>1. Onward(a)
      BY <1>2, <1>3, <2>3 DEF Stays, Onward
    <3>2. Fits(w)'
      BY <1>1, <1>2, <1>3, <2>1, <2>2, <2>3 DEF Stays, Fits, Early
    <3> QED BY <3>1, <3>2
  <2>4. CASE Drops(w, place, q)
    <3>1. Onward(a)
      BY <1>2, <1>3, <2>4 DEF Drops, Onward, Fits
    <3>2. Fits(w)'
      BY <2>1, <2>4 DEF Drops, Fits, Early
    <3> QED BY <3>1, <3>2
  <2>5. CASE Locks(w, place, q)
    <3>1. Onward(a)
      BY <1>2, <1>3, <2>5 DEF Locks, Onward
    <3>2. accepted[q.video] = 0
      BY <1>1, <1>2, <1>3, <2>5, WaitingIsFresh DEF Locks, Core
    <3>3. Fits(w)'
      BY <1>1, <2>1, <2>2, <2>5, <3>2 DEF Locks, Fits, Early
    <3> QED BY <3>1, <3>3
  <2>6. CASE Files(w, place, q)
    <3>1. action[a].status \in {"publishing", "result_unknown"}
      BY <1>3, <2>6 DEF Files, Fits
    <3>2. /\ q.status \in {"published", "result_unknown"}
          /\ action[a].status = "publishing" \/ q.status = action[a].status
      BY <1>3, <2>6, <3>1 DEF Files
    <3>3. Onward(a)
      BY <1>2, <3>1, <3>2 DEF Onward
    <3>4. Fits(w)'
      BY <2>1, <2>2, <2>6, <3>2 DEF Files, Fits, Early
    <3> QED BY <3>3, <3>4
  <2> QED BY <2>3, <2>4, <2>5, <2>6 DEF Proceeds
<1>5. RowsInv'
  <2>1. \A b \in Id : action'[b].video = action[b].video /\ Onward(b)
    BY <1>1, <1>2, <1>4 DEF Onward
  <2> QED BY <1>1, <2>1, RowsMoveOn DEF Core
<1>6. ASSUME NEW v \in Worker, v # w
      PROVE  Fits(v)'
  <2>1. at'[v] = at[v] /\ on'[v] = on[v]
    BY <1>1, <1>6 DEF TypeOK
  <2>2. CASE at[v] = "idle"
    BY <2>1, <2>2 DEF Fits, Early
  <2>3. CASE at[v] # "idle"
    <3>1. on[v] # a /\ on[v] \in Id
      BY <1>1, <1>2, <1>6, <2>3 DEF Core, Worker, Known
    <3>2. Mine(v)' = Mine(v)
      BY <1>2, <2>1, <3>1 DEF Mine
    <3>3. Fits(v)
      BY DEF Core
    <3> QED BY <1>1, <2>1, <3>2, <3>3 DEF Fits
  <2> QED BY <2>2, <2>3
<1>7. \A v \in Worker : at'[v] # "idle" => at[v] # "idle" /\ on'[v] = on[v]
  BY <1>1 DEF TypeOK
<1>8. at'["watcher"] # "idle" /\ at'["retrier"] # "idle" => on'["watcher"] # on'["retrier"]
  BY <1>7 DEF Core, Worker
<1>9. ASSUME NEW b \in pending'
      PROVE  action'[b].status = "retry_wait" /\ (at'["retrier"] # "idle" => b # on'["retrier"])
  <2>1. /\ b \in pending /\ b \in Id /\ action[b].status = "retry_wait"
        /\ at["retrier"] # "idle" => b # on["retrier"]
    BY <1>1, <1>9 DEF Core, TypeOK
  <2>2. b # a
    <3>1. CASE w = "retrier"
      BY <1>1, <1>2, <2>1, <3>1
    <3>2. CASE w = "watcher"
      BY <1>1, <1>3, <2>1, <3>2 DEF Fits, Early, Places
    <3> QED BY <3>1, <3>2 DEF Worker
  <2> QED BY <1>2, <1>7, <2>1, <2>2 DEF Worker
<1>10. ~alive' => at' = Rest /\ pending' = {}
  BY <1>1 DEF Core, Rest
<1> QED BY <1>4, <1>5, <1>6, <1>8, <1>9, <1>10 DEF Core

LEMMA InnerKeepsCore ==
    ASSUME TypeOK, Known, Core, prompt, forced = 0, forced' = 0, Inner
    PROVE  Core'
<1> USE DEF Still, env, workers
<1>0. /\ now \in Nat /\ action \in [Id -> ActionRow]
      /\ at \in [Worker -> Places] /\ on \in [Worker -> Nat] /\ pending \in SUBSET Id
      /\ accepted \in [Video -> Nat]
      /\ \A a \in Id : action[a] \in ActionRow
      /\ "watcher" \in Worker /\ "retrier" \in Worker
  BY DEF TypeOK, Worker
<1>1. /\ RowsInv /\ \A w \in Worker : Fits(w)
      /\ at["watcher"] # "idle" /\ at["retrier"] # "idle" => on["watcher"] # on["retrier"]
      /\ \A a \in pending : /\ action[a].status = "retry_wait"
                            /\ at["retrier"] # "idle" => a # on["retrier"]
      /\ ~alive => at = Rest /\ pending = {}
  BY DEF Core
\* A worker keeps its place if its row keeps its status and its lease.
<1>2. ASSUME NEW w \in Worker, at'[w] = at[w], on'[w] = on[w], UNCHANGED <<now, accepted>>,
             at[w] # "idle" => /\ action'[on[w]].status = action[on[w]].status
                               /\ action'[on[w]].video = action[on[w]].video
                               /\ action'[on[w]].leaseUntil = action[on[w]].leaseUntil
      PROVE  Fits(w)'
  <2>1. CASE at[w] = "idle"
    BY <1>2, <2>1 DEF Fits, Early
  <2>2. CASE at[w] # "idle"
    BY <1>1, <1>2, <2>2 DEF Fits, Mine
  <2> QED BY <2>1, <2>2
<1>3. ASSUME NEW v \in Video, Claim(v)
      PROVE  Core'
  <2>1. PICK a \in Id :
          /\ action[a].status = "absent"
          /\ action' = [action EXCEPT ![a] = Claimed(v, now)]
          /\ on' = [on EXCEPT !["watcher"] = a]
    BY <1>3 DEF Claim
  <2>2. /\ Claimed(v, now).status = "claimed"
        /\ Claimed(v, now).video = v /\ now <= Claimed(v, now).leaseUntil
    BY <1>0, ClaimedRow
  <2>3. /\ at' = [at EXCEPT !["watcher"] = "writing"] /\ pending' = pending /\ Free(v)
        /\ UNCHANGED <<now, alive, accepted>> /\ alive /\ at["watcher"] = "idle"
    BY <1>3 DEF Claim, On
  <2>4. /\ action'[a].status = "claimed" /\ action'[a].video = v
        /\ now <= action'[a].leaseUntil
        /\ \A b \in Id \ {a} : action'[b] = action[b]
    BY <1>0, <2>1, <2>2
  <2>5. RowsInv'
    BY <1>1, <2>1, <2>3, <2>4, RowOpens DEF Free
  <2>6. Fits("watcher")'
    BY <1>0, <2>1, <2>3, <2>4 DEF Fits, Mine, Early
  <2>7. at["retrier"] # "idle" => on["retrier"] # a /\ on["retrier"] \in Id
    BY <1>0, <2>1 DEF Known
  <2>8. at'["retrier"] = at["retrier"] /\ on'["retrier"] = on["retrier"]
    BY <1>0, <2>1, <2>3
  <2>9. Fits("retrier")'
    BY <1>0, <1>2, <2>3, <2>4, <2>7, <2>8
  <2>10. on'["watcher"] = a
    BY <1>0, <2>1
  <2>11. \A b \in pending' : b \in Id /\ b # a
    BY <1>0, <1>1, <2>1, <2>3
  <2> QED BY <1>1, <2>3, <2>4, <2>5, <2>6, <2>7, <2>8, <2>9, <2>10, <2>11 DEF Core, Worker
<1>4. CASE List
  <2>1. /\ pending' = {a \in Id : Due(action[a], now)} /\ at["retrier"] = "idle" /\ alive
        /\ UNCHANGED <<action, at, on, now, alive, accepted>>
    BY <1>4 DEF List, On
  <2>2. \A w \in Worker : Fits(w)'
    BY <1>2, <2>1
  <2>3. RowsInv'
    BY <1>1, <2>1 DEF RowsInv
  <2>4. \A a \in pending' : action[a].status = "retry_wait"
    BY <2>1 DEF Due
  <2> QED BY <1>1, <2>1, <2>2, <2>3, <2>4 DEF Core
<1>5. ASSUME NEW a \in Id, PickUp(a)
      PROVE  Core'
  <2>1. /\ a \in pending /\ pending' = pending \ {a} /\ action[a].status = "retry_wait"
        /\ at["retrier"] = "idle" /\ alive /\ UNCHANGED <<now, alive, accepted>>
    BY <1>1, <1>5 DEF PickUp, On
  <2>2. at["watcher"] # "idle" => on["watcher"] # a /\ on["watcher"] \in Id
    BY <1>0, <1>1, <2>1 DEF Fits, Mine, Early, Places, Known
  <2>3. CASE UNCHANGED <<action, at, on>>
    <3>1. \A w \in Worker : Fits(w)'
      BY <1>2, <2>1, <2>3
    <3>2. RowsInv'
      BY <1>1, <2>1, <2>3 DEF RowsInv
    <3> QED BY <1>1, <2>1, <2>3, <3>1, <3>2 DEF Core
  <2>4. CASE action' = [action EXCEPT ![a] = MarkFailed(@, now)] /\ UNCHANGED <<at, on>>
    <3>1. /\ MarkFailed(action[a], now).status = "failed"
          /\ MarkFailed(action[a], now).video = action[a].video
      BY <1>0, MarkFailedRow DEF Turns
    <3>2. /\ action'[a].status = "failed" /\ action'[a].video = action[a].video
          /\ \A b \in Id \ {a} : action'[b] = action[b]
      BY <1>0, <2>4, <3>1
    <3>3. \A b \in Id : action'[b].video = action[b].video /\ Onward(b)
      BY <2>1, <3>2 DEF Onward
    <3>4. RowsInv'
      BY <1>1, <2>1, <3>3, RowsMoveOn
    <3>5. Fits("watcher")'
      BY <1>0, <1>2, <2>1, <2>2, <2>4, <3>2
    <3>6. Fits("retrier")'
      BY <1>0, <1>2, <2>1, <2>4
    <3>7. \A b \in pending' : b \in Id /\ b # a /\ b \in pending
      BY <1>0, <2>1
    <3> QED BY <1>1, <2>1, <2>4, <3>2, <3>4, <3>5, <3>6, <3>7 DEF Core, Worker
  <2>5. CASE /\ at' = [at EXCEPT !["retrier"] = "resolving"]
             /\ on' = [on EXCEPT !["retrier"] = a] /\ UNCHANGED action
    <3>1. RowsInv'
      BY <1>1, <2>1, <2>5 DEF RowsInv
    <3>2. /\ at'["watcher"] = at["watcher"] /\ on'["watcher"] = on["watcher"]
          /\ at'["retrier"] = "resolving" /\ on'["retrier"] = a
      BY <1>0, <2>5
    <3>3. Fits("watcher")'
      BY <1>0, <1>2, <2>1, <2>5, <3>2
    <3>4. Fits("retrier")'
      BY <2>1, <2>5, <3>2 DEF Fits, Mine, Early
    <3>5. \A b \in pending' : b # a /\ b \in pending
      BY <2>1
    <3> QED BY <1>1, <2>1, <2>2, <2>5, <3>1, <3>2, <3>3, <3>4, <3>5 DEF Core, Worker
  <2> QED BY <1>5, <2>3, <2>4, <2>5 DEF PickUp
<1>6. ASSUME NEW w \in Worker, Post(w)
      PROVE  Core'
  <2> DEFINE v == Mine(w).video
  <2>1. /\ at' = [at EXCEPT ![w] = "posted"] /\ at[w] = "posting" /\ alive
        /\ UNCHANGED <<on, pending, action, now, alive>>
        /\ accepted' = [accepted EXCEPT ![v] = @ + 1]
    BY <1>6 DEF Post, On, Go
  <2>2. /\ on[w] \in Id /\ v \in Video /\ accepted[v] = 0
        /\ Mine(w).status \in {"publishing", "result_unknown"}
        /\ action[on[w]] = Mine(w)
    BY <1>1, <2>1 DEF Known, Fits, Mine
  <2> HIDE DEF v
  <2>3. accepted'[v] = 1 /\ \A u \in Video \ {v} : accepted'[u] = accepted[u]
    BY <1>0, <2>1, <2>2
  <2>4. RowsInv'
    <3>1. ASSUME NEW u \in Video, accepted'[u] # 0
          PROVE  \E a \in Id : action[a].video = u /\ action[a].status \in Reached
      BY <1>1, <2>2, <2>3, <3>1 DEF RowsInv, Reached, v
    <3>2. \A u \in Video : accepted'[u] <= 1
      BY <1>1, <2>3 DEF RowsInv
    <3> QED BY <1>1, <2>1, <3>1, <3>2 DEF RowsInv
  <2>5. Fits(w)'
    <3>1. at'[w] = "posted" /\ Mine(w)' = Mine(w)
      BY <1>0, <2>1 DEF Mine
    <3> QED BY <2>2, <3>1 DEF Fits, Early
  <2>6. ASSUME NEW u \in Worker, u # w
        PROVE  Fits(u)'
    <3>1. at'[u] = at[u] /\ Mine(u)' = Mine(u) /\ Fits(u) /\ now' = now
      BY <1>0, <1>1, <2>1, <2>6 DEF Mine
    <3>2. CASE at[u] \notin {"posting", "declined"}
      BY <3>1, <3>2 DEF Fits
    <3>3. CASE at[u] \in {"posting", "declined"}
      <4>1. Mine(u).status \in {"publishing", "result_unknown"}
        BY <3>1, <3>3 DEF Fits
      <4>2. on[u] \in Id /\ on[u] # on[w] /\ Mine(u).video \in Video
        BY <1>1, <2>1, <2>6, <3>3 DEF Known, Worker, Mine
      <4>3. Mine(u).video # v
        BY <1>1, <2>2, <4>1, <4>2 DEF RowsInv, BlockingStatuses, Mine, v
      <4> QED BY <2>3, <3>1, <3>3, <4>2, <4>3 DEF Fits
    <3> QED BY <3>2, <3>3
  <2>7. at'["watcher"] # "idle" /\ at'["retrier"] # "idle" =>
           at["watcher"] # "idle" /\ at["retrier"] # "idle"
    BY <1>0, <2>1
  <2>8. at'["retrier"] # "idle" => at["retrier"] # "idle"
    BY <1>0, <2>1
  <2> QED BY <1>1, <2>1, <2>4, <2>5, <2>6, <2>7, <2>8 DEF Core
<1>7. ASSUME action' = Recovery, UNCHANGED <<now, accepted, workers>>,
             at["retrier"] = "idle", pending = {}, alive'
      PROVE  Core'
  <2>1. \A a \in Id : action'[a] = Recovered(action[a], now)
    BY <1>7 DEF Recovery
  <2>2. ASSUME NEW a \in Id
        PROVE  /\ action'[a].video = action[a].video
               /\ \/ action'[a] = action[a]
                  \/ action[a].status = "publishing" /\ action'[a].status = "result_unknown"
                  \/ /\ action[a].status = "claimed" /\ action[a].leaseUntil < now
                     /\ action'[a].status \in {"retry_wait", "failed"}
    <3> DEFINE q == Recovered(action[a], now)
    <3>1. /\ Turns(action[a], q)
          /\ \/ q = action[a]
             \/ action[a].status = "publishing" /\ q.status = "result_unknown"
             \/ /\ action[a].status = "claimed" /\ action[a].leaseUntil < now
                /\ q.status \in {"retry_wait", "failed"}
      BY <1>0, RecoveredRow
    <3>2. action'[a] = q
      BY <2>1
    <3> HIDE DEF q
    <3> QED BY <3>1, <3>2 DEF Turns
  <2>3. \A a \in Id : action'[a].video = action[a].video /\ Onward(a)
    BY <2>2 DEF Onward
  <2>4. RowsInv'
    BY <1>1, <1>7, <2>3, RowsMoveOn
  <2>5. Fits("retrier")'
    BY <1>0, <1>2, <1>7
  <2>6. Fits("watcher")'
    <3>1. CASE at["watcher"] = "idle"
      BY <1>0, <1>2, <1>7, <3>1
    <3>2. CASE at["watcher"] # "idle"
      <4> DEFINE a == on["watcher"]
      <4>1. a \in Id /\ Fits("watcher") /\ action[a].leaseUntil \in Int
        BY <1>0, <1>1, <3>2 DEF Known, ActionRow
      <4>2. \/ action'[a] = action[a]
            \/ action[a].status = "publishing" /\ action'[a].status = "result_unknown"
            \/ action[a].status = "claimed" /\ action[a].leaseUntil < now
        BY <2>2, <4>1
      <4>3. action'[a].video = action[a].video
        BY <2>2, <4>1
      <4>4. ~(action[a].status = "claimed" /\ action[a].leaseUntil < now)
        BY <1>0, <3>2, <4>1 DEF Fits, Mine, Early, Places
      <4>5. Mine("watcher") = action[a] /\ Mine("watcher")' = action'[a]
        BY <1>7 DEF Mine
      <4> HIDE DEF a
      <4> QED BY <1>7, <4>1, <4>2, <4>3, <4>4, <4>5 DEF Fits, Early
    <3> QED BY <3>1, <3>2
  <2> QED BY <1>1, <1>7, <2>4, <2>5, <2>6 DEF Core, Worker
<1>8. CASE RecoverStuck
  BY <1>7, <1>8 DEF RecoverStuck, On
<1>9. CASE Boot
  <2>1. at["retrier"] = "idle" /\ pending = {}
    BY <1>0, <1>1, <1>9 DEF Boot, Rest
  <2> QED BY <1>7, <1>9, <2>1 DEF Boot
<1>10. CASE Tick
  <2>1. now' = now + 1 /\ ~Late /\ UNCHANGED <<alive, action, workers, accepted>>
    BY <1>10 DEF Tick
  <2>2. ASSUME NEW w \in Worker
        PROVE  Fits(w)'
    <3>1. Mine(w)' = Mine(w) /\ at' = at /\ accepted' = accepted /\ Fits(w)
      BY <1>1, <2>1 DEF Mine
    <3>2. CASE w = "watcher" /\ at[w] \in Early
      <4>1. Mine(w).status = "claimed" /\ at[w] # "resolving" /\ now <= Mine(w).leaseUntil
        BY <3>1, <3>2 DEF Fits
      <4>2. ~(Mine(w).leaseUntil <= now)
        BY <2>1, <3>2, <4>1 DEF Late, Early
      <4>3. Mine(w).leaseUntil \in Int
        BY <1>0, <3>2, RowOfWorker DEF ActionRow, Early
      <4>4. now' <= Mine(w).leaseUntil
        BY <1>0, <2>1, <4>2, <4>3
      <4> QED BY <3>1, <4>4 DEF Fits
    <3>3. CASE ~(w = "watcher" /\ at[w] \in Early)
      BY <3>1, <3>3 DEF Fits
    <3> QED BY <3>2, <3>3
  <2>3. RowsInv'
    BY <1>1, <2>1 DEF RowsInv
  <2> QED BY <1>1, <2>1, <2>2, <2>3 DEF Core
<1>11. CASE Crash
  <2>1. /\ at' = Rest /\ on' = [w \in Worker |-> 0] /\ pending' = {}
        /\ UNCHANGED <<action, accepted>>
    BY <1>11 DEF Crash
  <2>2. RowsInv'
    BY <1>1, <2>1 DEF RowsInv
  <2>3. \A w \in Worker : at'[w] = "idle"
    BY <2>1 DEF Rest
  <2>4. \A w \in Worker : Fits(w)'
    BY <2>3 DEF Fits, Early
  <2> QED BY <1>0, <2>1, <2>2, <2>3, <2>4 DEF Core
<1>12. ASSUME NEW v \in Video, NEW force \in BOOLEAN, RetryManually(v, force)
       PROVE  Core'
  <2>1. PICK a \in Latest(v) :
          /\ CanRetryByHand(action[a], force)
          /\ \A b \in Id \ {a} :
               action[b].video = v => action[b].status \notin BlockingStatuses
          /\ action' = [action EXCEPT ![a] = RetryByHand(@, now)]
          /\ forced' = IF action[a].status = "result_unknown" THEN forced + 1 ELSE forced
    BY <1>12 DEF RetryManually
  <2>2. a \in Id /\ action[a].video = v
    BY DEF Latest
  <2>3. action[a].status \in {"retry_wait", "failed"}
    BY <2>1 DEF CanRetryByHand
  <2>4. RetryByHand(action[a], now).status = "retry_wait"
        /\ RetryByHand(action[a], now).video = v
    BY <1>0, <2>2, RetryByHandRow
  <2>5. /\ action'[a].status = "retry_wait" /\ action'[a].video = v
        /\ \A b \in Id \ {a} : action'[b] = action[b]
    BY <1>0, <2>1, <2>2, <2>4
  <2>6. UNCHANGED <<now, alive, workers, accepted>>
    BY <1>12 DEF RetryManually
  <2>7. RowsInv'
    <3>1. CASE action[a].status = "failed"
      BY <1>1, <2>1, <2>2, <2>5, <2>6, <3>1, RowOpens
    <3>2. CASE action[a].status = "retry_wait"
      <4>1. \A b \in Id : action'[b].video = action[b].video /\ Onward(b)
        BY <2>2, <2>5, <3>2 DEF Onward
      <4> QED BY <1>1, <2>6, <4>1, RowsMoveOn
    <3> QED BY <2>3, <3>1, <3>2
  <2>8. Fits("watcher")'
    <3>1. at["watcher"] # "idle" => on["watcher"] # a /\ on["watcher"] \in Id
      BY <1>0, <1>1, <2>3 DEF Fits, Mine, Early, Places, Known
    <3> QED BY <1>0, <1>2, <2>5, <2>6, <3>1
  <2>9. Fits("retrier")'
    <3>1. CASE at["retrier"] = "idle"
      BY <1>0, <1>2, <2>6, <3>1
    <3>2. CASE at["retrier"] # "idle"
      <4>1. on["retrier"] \in Id
        BY <1>0, <3>2 DEF Known
      <4>2. CASE on["retrier"] # a
        BY <1>0, <1>2, <2>5, <2>6, <4>1, <4>2
      <4>3. CASE on["retrier"] = a
        <5>1. at["retrier"] \in Early /\ Mine("retrier").status = "retry_wait"
          BY <1>0, <1>1, <2>3, <3>2, <4>3 DEF Fits, Mine, Early, Places
        <5> QED BY <2>5, <2>6, <4>3, <5>1 DEF Fits, Mine, Early
      <4> QED BY <4>2, <4>3
    <3> QED BY <3>1, <3>2
  <2>10. \A b \in pending : action'[b].status = "retry_wait"
    BY <1>0, <1>1, <2>5
  <2> QED BY <1>1, <2>6, <2>7, <2>8, <2>9, <2>10 DEF Core, Worker
<1> QED BY <1>3, <1>4, <1>5, <1>6, <1>8, <1>9, <1>10, <1>11, <1>12 DEF Inner

-----------------------------------------------------------------------------
(* The theorems.                                                           *)

LEMMA InitIInv == Init => IInv
<1> SUFFICES ASSUME Init PROVE IInv
  OBVIOUS
<1>1. NoAction \in ActionRow
  <2>1. MaxAttempts \in Nat /\ NoTime \in Int /\ "absent" \in ActionStatus
    BY ActionAssumption DEF NoTime, ActionStatus
  <2> QED BY <2>1 DEF NoAction, ActionRow
<1>2. /\ \A a \in Id : action[a] = NoAction
      /\ \A w \in Worker : at[w] = "idle"
      /\ \A v \in Video : accepted[v] = 0
      /\ pending = {} /\ at = Rest
  BY DEF Init, Rest
<1>3. TypeOK
  BY <1>1 DEF Init, TypeOK, Rest, Places
<1>4. Known
  BY <1>2 DEF Known, NoAction
<1>5. RowsInv
  BY <1>2 DEF RowsInv, NoAction, BlockingStatuses
<1>6. \A w \in Worker : Fits(w)
  BY <1>2 DEF Fits, Early
<1>7. "watcher" \in Worker
  BY DEF Worker
<1>8. Core
  BY <1>2, <1>5, <1>6, <1>7 DEF Core
<1> QED BY <1>3, <1>4, <1>8 DEF IInv

\* Nobody takes a force back, and whether the watcher is prompt is settled.
LEMMA ForceStays ==
    ASSUME TypeOK, Known, Next
    PROVE  prompt' = prompt /\ forced' \in {forced, forced + 1}
<1>1. ASSUME Inner
      PROVE  prompt' = prompt /\ forced' \in {forced, forced + 1}
  BY <1>1 DEF Inner, Claim, List, PickUp, Post, RecoverStuck, Boot, Tick, Crash, RetryManually,
              Still, env
<1>2. ASSUME NEW w \in Worker, NEW place \in Places, NEW q \in ActionRow,
             Proceeds(w, place, q)
      PROVE  prompt' = prompt /\ forced' \in {forced, forced + 1}
  BY <1>2 DEF Proceeds, Acts, env
<1> QED BY <1>1, <1>2, NextParts

LEMMA NextIInv ==
    ASSUME IInv, Next
    PROVE  IInv'
<1>1. TypeOK' /\ Known'
  BY TypesKept DEF IInv
<1>2. ASSUME prompt', forced' = 0
      PROVE  Core'
  <2>1. prompt /\ forced = 0
    <3>1. TypeOK /\ Known
      BY DEF IInv
    <3>2. prompt' = prompt /\ forced' \in {forced, forced + 1}
      BY <3>1, ForceStays
    <3>3. forced = 0
      BY <1>2, <3>1, <3>2 DEF TypeOK
    <3> QED BY <1>2, <3>2, <3>3
  <2> QED BY <1>2, <2>1, NextParts, ProceedKeepsCore, InnerKeepsCore DEF IInv
<1> QED BY <1>1, <1>2 DEF IInv

LEMMA StutterIInv ==
    ASSUME IInv, UNCHANGED vars
    PROVE  IInv'
<1>1. UNCHANGED <<now, alive, action, at, on, pending, accepted, prompt, forced>>
  BY DEF vars, workers, env
<1>2. TypeOK' /\ Known'
  BY <1>1 DEF IInv, TypeOK, Known
<1>3. \A w \in Worker : Fits(w)' <=> Fits(w)
  BY <1>1 DEF Fits, Mine
<1>4. RowsInv' <=> RowsInv
  BY <1>1 DEF RowsInv
<1>5. Core' <=> Core
  BY <1>1, <1>3, <1>4 DEF Core
<1> QED BY <1>1, <1>2, <1>5 DEF IInv

LEMMA Invariance == Spec => []IInv
  BY InitIInv, NextIInv, StutterIInv, PTL DEF Spec

\* The rows, the two workers and the list keep their shape, and whoever works
\* has a row of the table.
THEOREM CommentsTyped == Spec => [](TypeOK /\ Known)
  BY Invariance, PTL DEF IInv

\* However the watcher, the retrier, the recovery of stuck rows, operators,
\* crashes and lost answers follow one another, a video gets one comment: the
\* index over the blocking statuses admits one row of the video at a time, and
\* none of them gives a row whose comment may be out back to a worker.
THEOREM CommentedOnceAlways == Spec => []CommentedOnce
<1>1. IInv => CommentedOnce
  BY DEF IInv, Core, RowsInv, CommentedOnce
<1> QED BY <1>1, Invariance, PTL

\* A row that is settled is queued again by nobody but an operator: the answer
\* of a post whose lease ran out finds a settled row, and mark_retry_wait
\* (proactive_comment_store.py) leaves it as it is.
THEOREM LateCallsRequeueNothingEver == Spec => LateCallsRequeueNothing
<1>1. ASSUME IInv, [Next]_vars
      PROVE  [\A a \in Id :
                action[a].status \in TerminalStatuses /\ action'[a].status = "retry_wait"
                  => manual' = manual + 1]_vars
  BY <1>1, TypesKept DEF IInv, NoRequeue
<1> QED BY <1>1, Invariance, PTL DEF Spec, LateCallsRequeueNothing
=============================================================================
