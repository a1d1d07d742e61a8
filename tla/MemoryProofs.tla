---------------------------- MODULE MemoryProofs ----------------------------
(***************************************************************************)
(* What holds of the memory brain and of the backups for every number of   *)
(* job types, events, searches, files and nights, and without the bounds   *)
(* of the run.  Each part keeps an invariant of its own; the steps of the  *)
(* others leave it alone.                                                  *)
(***************************************************************************)
EXTENDS MCMemory, FiniteSetTheorems, TLAPS

-----------------------------------------------------------------------------
(* The jobs of an event.                                                   *)

JobFields == {"status", "attempts", "availableAt", "owner", "leasedUntil", "blockedAt", "mark"}
TaskFields == {"at", "fresh", "todo", "note"}
AJob(j) == j = [f \in JobFields |-> j[f]]
ATask(c) ==
    /\ c = [f \in TaskFields |-> c[f]]
    /\ c.at = "stamping" => c.note # "gone"

JobsTyped ==
    /\ jobs = [t \in Types |-> jobs[t]] /\ \A t \in Types : AJob(jobs[t])
    /\ rows = [t \in Types |-> rows[t]]
    /\ kept = [t \in Types |-> kept[t]]
    /\ task = [l \in Jobs!Loops |-> task[l]]
    /\ \A l \in Jobs!Loops : task[l] = [t \in Types |-> task[l][t]]
    /\ \A l \in Jobs!Loops, t \in Types : ATask(task[l][t])

\* The count of the last completion is in the job's row, or, once the row was
\* pruned, in the event's metadata.
Counted(t) ==
    IF jobs[t].status # "absent" /\ jobs[t].mark # "none"
    THEN jobs[t].mark = "some" ELSE kept[t] = "some"

JobsInv ==
    /\ JobsTyped
    /\ Jobs!DeletedLeavesNothing
    /\ \A t \in Types : jobs[t].status = "absent" => jobs[t].mark = "none"
    /\ \A t \in Types \cap derived : Counted(t)

LEMMA CoroutineType ==
    /\ ATask(Jobs!NoTask)
    /\ ATask([Jobs!NoTask EXCEPT !.at = "reading"])
<1> DEFINE c == Jobs!NoTask
           d == [c EXCEPT !.at = "reading"]
<1>1. c = [f \in TaskFields |-> c[f]] /\ c.at = "none"
  BY DEF Jobs!NoTask, TaskFields
<1> HIDE DEF c
<1>2. d = [f \in TaskFields |-> d[f]] /\ d.at = "reading"
  BY <1>1 DEF TaskFields
<1> HIDE DEF d
<1>3. ATask(c) /\ ATask(d)
  BY <1>1, <1>2 DEF ATask
<1> QED BY <1>3 DEF c, d

\* What the transactions make of a job's row.
LEMMA JobRows ==
    ASSUME NEW j, AJob(j), NEW n, NEW o
    PROVE  /\ AJob(Jobs!Reopened(j)) /\ Jobs!Reopened(j).status = "pending"
           /\ Jobs!Reopened(j).mark = j.mark
           /\ AJob(Jobs!Renewed(j, n)) /\ Jobs!Renewed(j, n).status = j.status
           /\ Jobs!Renewed(j, n).mark = j.mark
           /\ AJob(Jobs!Completed(j, o)) /\ Jobs!Completed(j, o).status = "completed"
           /\ Jobs!Completed(j, o).mark = o
           /\ AJob(Jobs!Blocked(j, n)) /\ Jobs!Blocked(j, n).status = "blocked"
           /\ Jobs!Blocked(j, n).mark = j.mark
           /\ AJob(Jobs!Failed(j, n)) /\ Jobs!Failed(j, n).status \in {"dead", "retry"}
           /\ Jobs!Failed(j, n).mark = j.mark
<1>1. /\ AJob(Jobs!Reopened(j)) /\ Jobs!Reopened(j).status = "pending"
      /\ Jobs!Reopened(j).mark = j.mark
  BY DEF AJob, JobFields, Jobs!Reopened
<1>2. /\ AJob(Jobs!Renewed(j, n)) /\ Jobs!Renewed(j, n).status = j.status
      /\ Jobs!Renewed(j, n).mark = j.mark
  BY DEF AJob, JobFields, Jobs!Renewed
<1>3. /\ AJob(Jobs!Completed(j, o)) /\ Jobs!Completed(j, o).status = "completed"
      /\ Jobs!Completed(j, o).mark = o
  BY DEF AJob, JobFields, Jobs!Completed
<1>4. /\ AJob(Jobs!Blocked(j, n)) /\ Jobs!Blocked(j, n).status = "blocked"
      /\ Jobs!Blocked(j, n).mark = j.mark
  BY DEF AJob, JobFields, Jobs!Blocked
<1>5. /\ AJob(Jobs!Failed(j, n)) /\ Jobs!Failed(j, n).status \in {"dead", "retry"}
      /\ Jobs!Failed(j, n).mark = j.mark
  BY DEF AJob, JobFields, Jobs!Failed
<1> QED BY <1>1, <1>2, <1>3, <1>4, <1>5

LEMMA ClaimedRow ==
    ASSUME NEW j, AJob(j), NEW o, NEW n
    PROVE  /\ AJob(Jobs!Claimed(j, o, n))
           /\ Jobs!Claimed(j, o, n).status \in {"dead", "processing"}
           /\ Jobs!Claimed(j, o, n).mark = j.mark
BY DEF AJob, JobFields, Jobs!Claimed

LEMMA NoJobRow ==
    AJob(Jobs!NoJob) /\ Jobs!NoJob.status = "absent" /\ Jobs!NoJob.mark = "none"
BY DEF AJob, JobFields, Jobs!NoJob

\* A job's count stays where it is.
KeepsMark(t) ==
    /\ jobs'[t].mark = jobs[t].mark
    /\ jobs[t].status # "absent" => jobs'[t].status # "absent"

\* Nothing of a deleted event comes back.
StaysGone ==
    /\ Jobs!Live => Jobs!Live'
    /\ ~Jobs!Live => /\ UNCHANGED rows
                     /\ \A t \in Types : jobs[t].status = "absent" => jobs'[t].status = "absent"

LEMMA StepKeeps ==
    ASSUME JobsInv, JobsTyped', StaysGone, \A t \in Types : KeepsMark(t),
           UNCHANGED <<kept, derived>>
    PROVE  JobsInv'
<1>1. Jobs!DeletedLeavesNothing'
  BY DEF JobsInv, StaysGone, Jobs!DeletedLeavesNothing
<1>2. \A t \in Types : jobs'[t].status = "absent" => jobs'[t].mark = "none"
  BY DEF JobsInv, KeepsMark
<1>3. \A t \in Types \cap derived' : Counted(t)'
  BY DEF JobsInv, KeepsMark, Counted
<1> QED BY <1>1, <1>2, <1>3 DEF JobsInv

LEMMA RowsStay ==
    ASSUME JobsInv, UNCHANGED <<jobs, kept, derived>>, JobsTyped', StaysGone
    PROVE  JobsInv'
<1>1. \A t \in Types : KeepsMark(t)
  BY DEF KeepsMark
<1> QED BY <1>1, StepKeeps

LEMMA TasksOnly ==
    ASSUME JobsInv, UNCHANGED <<index, jobs, rows, kept, derived>>, JobsTyped'
    PROVE  JobsInv'
<1>1. StaysGone
  BY DEF StaysGone, Jobs!Live
<1> QED BY <1>1, RowsStay

\* One coroutine goes on.
LEMMA TaskTyped ==
    ASSUME JobsTyped, NEW l \in Jobs!Loops, NEW t \in Types, NEW c, ATask(c),
           task' = [task EXCEPT ![l][t] = c]
    PROVE  /\ task' = [k \in Jobs!Loops |-> task'[k]]
           /\ \A k \in Jobs!Loops : task'[k] = [u \in Types |-> task'[k][u]]
           /\ \A k \in Jobs!Loops, u \in Types : ATask(task'[k][u])
<1>1. /\ task = [k \in Jobs!Loops |-> task[k]]
      /\ \A k \in Jobs!Loops : task[k] = [u \in Types |-> task[k][u]]
      /\ \A k \in Jobs!Loops, u \in Types : ATask(task[k][u])
  BY DEF JobsTyped
<1>2. /\ task' = [k \in Jobs!Loops |-> task'[k]]
      /\ task'[l] = [task[l] EXCEPT ![t] = c]
      /\ \A k \in Jobs!Loops \ {l} : task'[k] = task[k]
  BY <1>1
<1>3. /\ task'[l] = [u \in Types |-> task'[l][u]] /\ task'[l][t] = c
      /\ \A u \in Types \ {t} : task'[l][u] = task[l][u]
  BY <1>1, <1>2
<1> QED BY <1>1, <1>2, <1>3

LEMMA GoesTyped ==
    ASSUME JobsTyped, NEW l \in Jobs!Loops, NEW t \in Types, NEW place, place # "stamping",
           Jobs!Goes(l, t, place)
    PROVE  /\ task' = [k \in Jobs!Loops |-> task'[k]]
           /\ \A k \in Jobs!Loops : task'[k] = [u \in Types |-> task'[k][u]]
           /\ \A k \in Jobs!Loops, u \in Types : ATask(task'[k][u])
<1> DEFINE b == task[l][t]
           c == [b EXCEPT !.at = place]
<1>1. ATask(b)
  BY DEF JobsTyped
<1>2. task' = [task EXCEPT ![l][t] = c]
  BY DEF Jobs!Goes
<1> HIDE DEF b
<1>3. c = [f \in TaskFields |-> c[f]] /\ c.at = place
  BY <1>1 DEF ATask, TaskFields
<1> HIDE DEF c
<1>4. ATask(c)
  BY <1>3 DEF ATask
<1> QED BY <1>2, <1>4, TaskTyped

\* One job's row changes.
LEMMA JobTyped ==
    ASSUME JobsTyped, NEW t \in Types, NEW j, AJob(j), jobs' = [jobs EXCEPT ![t] = j]
    PROVE  /\ jobs' = [u \in Types |-> jobs'[u]] /\ \A u \in Types : AJob(jobs'[u])
           /\ jobs'[t] = j /\ \A u \in Types \ {t} : jobs'[u] = jobs[u]
<1>1. jobs = [u \in Types |-> jobs[u]] /\ \A u \in Types : AJob(jobs[u])
  BY DEF JobsTyped
<1>2. /\ jobs' = [u \in Types |-> jobs'[u]]
      /\ jobs'[t] = j /\ \A u \in Types \ {t} : jobs'[u] = jobs[u]
  BY <1>1
<1> QED BY <1>1, <1>2

LEMMA ReadsSafe ==
    ASSUME JobsInv, NEW l \in Jobs!Loops, NEW t \in Types,
           \/ Jobs!Read(l, t) \/ Jobs!NotConfigured(l, t) \/ Jobs!NoAnswer(l, t)
           \/ Jobs!Answer(l, t) \/ Jobs!WriteNothing(l, t)
    PROVE  JobsInv'
<1>1. UNCHANGED <<index, jobs, rows, kept, derived>>
  BY DEF Jobs!Read, Jobs!NotConfigured, Jobs!NoAnswer, Jobs!Answer, Jobs!WriteNothing,
     Jobs!Store
<1>2. PICK place : place # "stamping" /\ Jobs!Goes(l, t, place)
  BY DEF Jobs!Read, Jobs!NotConfigured, Jobs!NoAnswer, Jobs!Answer, Jobs!WriteNothing
<1>3. JobsTyped'
  BY <1>1, <1>2, GoesTyped DEF JobsInv, JobsTyped
<1> QED BY <1>1, <1>3, TasksOnly

\* Renew, Block and Fail: the row of a job whose lease is held, which nobody
\* has of a deleted event.
LEMMA HeldSafe ==
    ASSUME JobsInv, NEW l \in Jobs!Loops, NEW t \in Types, NEW place, place # "stamping",
           Jobs!Goes(l, t, place), UNCHANGED <<index, rows, kept, derived>>,
           \/ UNCHANGED jobs
           \/ /\ Jobs!Mine(t)
              /\ \E j : /\ jobs' = [jobs EXCEPT ![t] = j] /\ AJob(j)
                        /\ j.mark = jobs[t].mark /\ j.status # "absent"
    PROVE  JobsInv'
<1>1. JobsTyped
  BY DEF JobsInv
<1>2. /\ task' = [k \in Jobs!Loops |-> task'[k]]
      /\ \A k \in Jobs!Loops : task'[k] = [u \in Types |-> task'[k][u]]
      /\ \A k \in Jobs!Loops, u \in Types : ATask(task'[k][u])
  BY <1>1, GoesTyped
<1>3. CASE UNCHANGED jobs
  <2>1. JobsTyped'
    BY <1>1, <1>2, <1>3 DEF JobsTyped
  <2> QED BY <1>3, <2>1, TasksOnly
<1>4. CASE ~UNCHANGED jobs
  <2>1. PICK j : /\ jobs' = [jobs EXCEPT ![t] = j] /\ AJob(j)
                 /\ j.mark = jobs[t].mark /\ j.status # "absent"
    BY <1>4
  <2>2. /\ jobs' = [u \in Types |-> jobs'[u]] /\ \A u \in Types : AJob(jobs'[u])
        /\ jobs'[t] = j /\ \A u \in Types \ {t} : jobs'[u] = jobs[u]
    BY <1>1, <2>1, JobTyped
  <2>3. JobsTyped'
    BY <1>1, <1>2, <2>2 DEF JobsTyped
  <2>4. StaysGone
    BY <1>4 DEF StaysGone, Jobs!Live, Jobs!Mine
  <2>5. \A u \in Types : KeepsMark(u)
    BY <2>1, <2>2 DEF KeepsMark
  <2> QED BY <2>3, <2>4, <2>5, StepKeeps
<1> QED BY <1>3, <1>4

LEMMA RenewSafe ==
    ASSUME JobsInv, NEW l \in Jobs!Loops, NEW t \in Types, NEW place,
           NEW next \in {"asking", "writing"}, Jobs!Renew(l, t, place, next)
    PROVE  JobsInv'
<1> DEFINE j == Jobs!Renewed(jobs[t], now + LeaseTime)
<1>1. AJob(jobs[t]) /\ jobs = [u \in Types |-> jobs[u]]
  BY DEF JobsInv, JobsTyped
<1>2. CASE ~Jobs!Mine(t)
  <2>1. Jobs!Goes(l, t, "failing") /\ UNCHANGED <<jobs, index, rows, kept, derived>>
    BY <1>2 DEF Jobs!Renew
  <2> QED BY <2>1, HeldSafe
<1>3. CASE Jobs!Mine(t)
  <2>1. /\ Jobs!Goes(l, t, next) /\ UNCHANGED <<index, rows, kept, derived>>
        /\ jobs' = [jobs EXCEPT ![t] = j]
    BY <1>1, <1>3 DEF Jobs!Renew
  <2>2. AJob(j) /\ j.mark = jobs[t].mark /\ j.status = jobs[t].status
    BY <1>1, JobRows
  <2>3. jobs[t].status # "absent"
    BY <1>3 DEF Jobs!Mine, Jobs!Holds
  <2> HIDE DEF j
  <2> QED BY <1>3, <2>1, <2>2, <2>3, HeldSafe
<1> QED BY <1>2, <1>3

LEMMA BlockSafe ==
    ASSUME JobsInv, NEW l \in Jobs!Loops, NEW t \in Types, Jobs!Block(l, t) \/ Jobs!Fail(l, t)
    PROVE  JobsInv'
<1> DEFINE b == Jobs!Blocked(jobs[t], now)
           f == Jobs!Failed(jobs[t], now)
<1>1. AJob(jobs[t]) /\ jobs = [u \in Types |-> jobs[u]]
  BY DEF JobsInv, JobsTyped
<1>2. Jobs!Goes(l, t, "refreshing") /\ UNCHANGED <<index, rows, kept, derived>>
  BY DEF Jobs!Block, Jobs!Fail
<1>3. CASE ~Jobs!Mine(t)
  <2>1. UNCHANGED jobs
    BY <1>3 DEF Jobs!Block, Jobs!Fail
  <2> QED BY <1>2, <2>1, HeldSafe
<1>4. CASE Jobs!Mine(t)
  <2>1. jobs' = [jobs EXCEPT ![t] = b] \/ jobs' = [jobs EXCEPT ![t] = f]
    BY <1>1, <1>4 DEF Jobs!Block, Jobs!Fail
  <2>2. /\ AJob(b) /\ b.mark = jobs[t].mark /\ b.status # "absent"
        /\ AJob(f) /\ f.mark = jobs[t].mark /\ f.status # "absent"
    BY <1>1, JobRows
  <2> HIDE DEF b, f
  <2> QED BY <1>2, <1>4, <2>1, <2>2, HeldSafe
<1> QED BY <1>3, <1>4

\* The completion moves the count into the job's row.
LEMMA CompleteSafe ==
    ASSUME JobsInv, NEW l \in Jobs!Loops, NEW t \in Types, Jobs!Complete(l, t)
    PROVE  JobsInv'
<1> DEFINE note == task[l][t].note
           j == Jobs!Completed(jobs[t], note)
<1>1. JobsTyped /\ AJob(jobs[t]) /\ jobs = [u \in Types |-> jobs[u]]
  BY DEF JobsInv, JobsTyped
<1>2. Jobs!Goes(l, t, "refreshing") /\ UNCHANGED <<index, rows, kept>>
  BY DEF Jobs!Complete
<1>3. CASE ~Jobs!Mine(t)
  <2>1. UNCHANGED <<jobs, derived>>
    BY <1>3 DEF Jobs!Complete
  <2> QED BY <1>2, <2>1, HeldSafe
<1>4. CASE Jobs!Mine(t)
  <2>1. /\ jobs' = [jobs EXCEPT ![t] = j]
        /\ derived' = IF note = "some" THEN derived \cup {t} ELSE derived \ {t}
    BY <1>1, <1>4 DEF Jobs!Complete
  <2>2. AJob(j) /\ j.status = "completed" /\ j.mark = note
    BY <1>1, JobRows
  <2> HIDE DEF j, note
  <2>3. /\ jobs' = [u \in Types |-> jobs'[u]] /\ \A u \in Types : AJob(jobs'[u])
        /\ jobs'[t] = j /\ \A u \in Types \ {t} : jobs'[u] = jobs[u]
    BY <1>1, <2>1, <2>2, JobTyped
  <2>4. /\ task' = [k \in Jobs!Loops |-> task'[k]]
        /\ \A k \in Jobs!Loops : task'[k] = [u \in Types |-> task'[k][u]]
        /\ \A k \in Jobs!Loops, u \in Types : ATask(task'[k][u])
    BY <1>1, <1>2, GoesTyped
  <2>5. JobsTyped'
    BY <1>1, <1>2, <2>3, <2>4 DEF JobsTyped
  <2>6. Jobs!DeletedLeavesNothing'
    BY <1>2, <1>4 DEF Jobs!DeletedLeavesNothing, Jobs!Live, Jobs!Mine
  <2>7. \A u \in Types : jobs'[u].status = "absent" => jobs'[u].mark = "none"
    BY <2>2, <2>3 DEF JobsInv
  <2>8. ASSUME NEW u \in Types \cap derived'
        PROVE  Counted(u)'
    <3>1. CASE u = t
      BY <2>1, <2>2, <2>3, <2>8, <3>1 DEF Counted
    <3>2. CASE u # t
      BY <1>2, <2>1, <2>3, <2>8, <3>2 DEF Counted, JobsInv
    <3> QED BY <3>1, <3>2
  <2> QED BY <2>5, <2>6, <2>7, <2>8 DEF JobsInv
<1> QED BY <1>3, <1>4

LEMMA ReopenSafe ==
    ASSUME JobsInv, NEW l \in Jobs!Loops, NEW t \in Types, Jobs!Reopen(l, t)
    PROVE  JobsInv'
<1>1. UNCHANGED <<index, rows, kept, derived>> /\ JobsTyped
  BY DEF Jobs!Reopen, JobsInv
<1>2. CASE task[l][t].todo = {}
  <2>1. Jobs!Goes(l, t, "completing") /\ UNCHANGED jobs
    BY <1>2 DEF Jobs!Reopen
  <2> QED BY <1>1, <2>1, HeldSafe
<1>3. CASE task[l][t].todo # {}
  <2>1. PICK u : /\ jobs' = [jobs EXCEPT ![u] = Jobs!Requeued(jobs[u])]
                 /\ task' = [task EXCEPT ![l][t].todo = @ \ {u}]
    BY <1>3 DEF Jobs!Reopen
  <2> DEFINE b == task[l][t]
             todo == b.todo \ {u}
             c == [b EXCEPT !.todo = todo]
  <2>2. ATask(b) /\ b.at = "reopening"
    BY <1>1 DEF JobsTyped, Jobs!Reopen, Jobs!At
  <2>3. task' = [task EXCEPT ![l][t] = c]
    BY <2>1
  <2> HIDE DEF b, todo
  <2>4. c = [f \in TaskFields |-> c[f]] /\ c.at = "reopening"
    BY <2>2 DEF ATask, TaskFields
  <2> HIDE DEF c
  <2>5. ATask(c)
    BY <2>4 DEF ATask
  <2>6. /\ task' = [k \in Jobs!Loops |-> task'[k]]
        /\ \A k \in Jobs!Loops : task'[k] = [v \in Types |-> task'[k][v]]
        /\ \A k \in Jobs!Loops, v \in Types : ATask(task'[k][v])
    BY <1>1, <2>3, <2>5, TaskTyped
  <2>7. ASSUME NEW v \in Types
        PROVE  /\ AJob(jobs'[v]) /\ KeepsMark(v)
               /\ jobs[v].status = "absent" => jobs'[v].status = "absent"
    <3>1. AJob(jobs[v]) /\ jobs = [w \in Types |-> jobs[w]]
      BY <1>1 DEF JobsTyped
    <3>2. jobs'[v] = IF v = u THEN Jobs!Requeued(jobs[v]) ELSE jobs[v]
      BY <2>1, <3>1
    <3>3. CASE jobs'[v] = jobs[v]
      BY <3>1, <3>3 DEF KeepsMark
    <3>4. CASE jobs'[v] # jobs[v]
      <4>1. jobs'[v] = Jobs!Reopened(jobs[v]) /\ jobs[v].status # "absent"
        BY <3>2, <3>4 DEF Jobs!Requeued, Jobs!CanRequeue, Jobs!Open
      <4> QED BY <3>1, <4>1, JobRows DEF KeepsMark
    <3> QED BY <3>3, <3>4
  <2>8. jobs' = [v \in Types |-> jobs'[v]]
    BY <1>1, <2>1 DEF JobsTyped
  <2>9. JobsTyped'
    BY <1>1, <2>6, <2>7, <2>8 DEF JobsTyped
  <2>10. StaysGone
    BY <1>1, <2>7 DEF StaysGone, Jobs!Live
  <2> QED BY <1>1, <2>7, <2>9, <2>10, StepKeeps
<1> QED BY <1>2, <1>3

\* The results go to an event that is there.
LEMMA WriteSafe ==
    ASSUME JobsInv, NEW l \in Jobs!Loops, NEW t \in Types, Jobs!Write(l, t)
    PROVE  JobsInv'
<1>1. /\ Jobs!Live /\ UNCHANGED <<index, jobs, kept, derived>> /\ JobsTyped
  BY DEF Jobs!Write, JobsInv
<1>2. StaysGone
  BY <1>1 DEF StaysGone, Jobs!Live
<1>3. CASE Jobs!Summarized(l, t)
  <2>1. rows' = [u \in Types |-> rows'[u]]
    BY <1>3 DEF Jobs!Summarized
  <2>2. /\ task' = [k \in Jobs!Loops |-> task'[k]]
        /\ \A k \in Jobs!Loops : task'[k] = [u \in Types |-> task'[k][u]]
    BY <1>3 DEF Jobs!Summarized
  <2>3. ASSUME NEW k \in Jobs!Loops, NEW u \in Types
        PROVE  ATask(task'[k][u])
    <3> DEFINE b == task[k][u]
               todo == Jobs!Downstream(t) \cap Types
               c == [b EXCEPT !.at = "reopening", !.todo = todo, !.note = "some"]
               d == [b EXCEPT !.fresh = FALSE]
    <3>1. ATask(b)
      BY <1>1 DEF JobsTyped
    <3>2. task'[k][u] \in {b, c, d}
      BY <1>3 DEF Jobs!Summarized
    <3> HIDE DEF b, todo
    <3>3. /\ c = [f \in TaskFields |-> c[f]] /\ c.at = "reopening"
          /\ d = [f \in TaskFields |-> d[f]] /\ d.at = b.at /\ d.note = b.note
      BY <3>1 DEF ATask, TaskFields
    <3> HIDE DEF c, d
    <3>4. ATask(c) /\ ATask(d)
      BY <3>1, <3>3 DEF ATask
    <3> QED BY <3>1, <3>2, <3>4
  <2>4. JobsTyped'
    BY <1>1, <2>1, <2>2, <2>3 DEF JobsTyped
  <2> QED BY <1>1, <1>2, <2>4, RowsStay
<1>4. CASE Jobs!Derived(l, t)
  <2>1. PICK left : task' = [task EXCEPT ![l][t] =
                      [@ EXCEPT !.at = "reopening", !.note = left,
                                !.todo = Jobs!Downstream(t) \cap Types]]
    BY <1>4 DEF Jobs!Derived
  <2>2. rows' = [u \in Types |-> rows'[u]]
    BY <1>1, <1>4 DEF Jobs!Derived, JobsTyped
  <2> DEFINE b == task[l][t]
             todo == Jobs!Downstream(t) \cap Types
             c == [b EXCEPT !.at = "reopening", !.note = left, !.todo = todo]
  <2>3. ATask(b)
    BY <1>1 DEF JobsTyped
  <2>4. task' = [task EXCEPT ![l][t] = c]
    BY <2>1
  <2> HIDE DEF b, todo
  <2>5. c = [f \in TaskFields |-> c[f]] /\ c.at = "reopening"
    BY <2>3 DEF ATask, TaskFields
  <2> HIDE DEF c
  <2>6. ATask(c)
    BY <2>5 DEF ATask
  <2>7. /\ task' = [k \in Jobs!Loops |-> task'[k]]
        /\ \A k \in Jobs!Loops : task'[k] = [v \in Types |-> task'[k][v]]
        /\ \A k \in Jobs!Loops, v \in Types : ATask(task'[k][v])
    BY <1>1, <2>4, <2>6, TaskTyped
  <2>8. JobsTyped'
    BY <1>1, <2>2, <2>7 DEF JobsTyped
  <2> QED BY <1>1, <1>2, <2>8, RowsStay
<1> QED BY <1>3, <1>4 DEF Jobs!Write

\* refresh_event_index_status: what is stamped is a status, and only on an
\* event that is there.
LEMMA StampSafe ==
    ASSUME JobsInv, NEW l \in Jobs!Loops, NEW t \in Types,
           Jobs!Refresh(l, t) \/ Jobs!Stamp(l, t)
    PROVE  JobsInv'
<1>1. UNCHANGED <<jobs, rows, kept, derived>> /\ JobsTyped
  BY DEF Jobs!Refresh, Jobs!Stamp, Jobs!Store, JobsInv
<1>2. CASE Jobs!Refresh(l, t)
  <2> DEFINE b == Jobs!NoTask
             note == Jobs!IndexOf(jobs)
             c == [b EXCEPT !.at = "stamping", !.note = note]
  <2>1. ATask(b) /\ task' = [task EXCEPT ![l][t] = c] /\ UNCHANGED index
    BY <1>2, CoroutineType DEF Jobs!Refresh, Jobs!Store
  <2>2. note # "gone"
    BY DEF Jobs!IndexOf
  <2> HIDE DEF b, note
  <2>3. c = [f \in TaskFields |-> c[f]] /\ c.note = note
    BY <2>1 DEF ATask, TaskFields
  <2> HIDE DEF c
  <2>4. ATask(c)
    BY <2>2, <2>3 DEF ATask
  <2>5. JobsTyped'
    BY <1>1, <2>1, <2>4, TaskTyped DEF JobsTyped
  <2> QED BY <1>1, <2>1, <2>5, TasksOnly
<1>3. CASE Jobs!Stamp(l, t)
  <2> DEFINE c == Jobs!NoTask
  <2>1. ATask(c) /\ task' = [task EXCEPT ![l][t] = c]
    BY <1>3, CoroutineType DEF Jobs!Stamp
  <2> HIDE DEF c
  <2>2. JobsTyped'
    BY <1>1, <2>1, TaskTyped DEF JobsTyped
  <2>3. task[l][t].note # "gone"
    BY <1>1, <1>3 DEF JobsTyped, ATask, Jobs!Stamp, Jobs!At
  <2>4. StaysGone
    BY <1>1, <1>3, <2>3 DEF StaysGone, Jobs!Live, Jobs!Stamp
  <2> QED BY <1>1, <2>2, <2>4, RowsStay
<1> QED BY <1>2, <1>3

\* Every job of an event that is there is claimed, reopened or left alone.
LEMMA AllJobsSafe ==
    ASSUME JobsInv, Jobs!Live, Jobs!Live', UNCHANGED <<kept, derived>>,
           jobs' = [t \in Types |-> jobs'[t]], rows' = [t \in Types |-> rows'[t]],
           \/ UNCHANGED task
           \/ \E l \in Jobs!Loops : \E S \in SUBSET Types :
                task' = [task EXCEPT ![l] =
                  [t \in Types |-> IF t \in S THEN [Jobs!NoTask EXCEPT !.at = "reading"]
                                   ELSE Jobs!NoTask]],
           \A t \in Types : \/ jobs'[t] = jobs[t]
                            \/ jobs'[t] = Jobs!Reopened(jobs[t])
                            \/ \E o, n : jobs'[t] = Jobs!Claimed(jobs[t], o, n)
    PROVE  JobsInv'
<1>1. JobsTyped /\ \A t \in Types : AJob(jobs[t])
  BY DEF JobsInv, JobsTyped
<1>2. ASSUME NEW t \in Types
      PROVE  AJob(jobs'[t]) /\ KeepsMark(t)
  <2>1. CASE jobs'[t] = jobs[t]
    BY <1>1, <2>1 DEF KeepsMark
  <2>2. CASE jobs'[t] = Jobs!Reopened(jobs[t])
    BY <1>1, <2>2, JobRows DEF KeepsMark
  <2>3. CASE \E o, n : jobs'[t] = Jobs!Claimed(jobs[t], o, n)
    <3>1. PICK o, n : jobs'[t] = Jobs!Claimed(jobs[t], o, n)
      BY <2>3
    <3>2. /\ AJob(Jobs!Claimed(jobs[t], o, n))
          /\ Jobs!Claimed(jobs[t], o, n).status \in {"dead", "processing"}
          /\ Jobs!Claimed(jobs[t], o, n).mark = jobs[t].mark
      BY <1>1, ClaimedRow
    <3> QED BY <3>1, <3>2 DEF KeepsMark
  <2>4. \/ jobs'[t] = jobs[t] \/ jobs'[t] = Jobs!Reopened(jobs[t])
        \/ \E o, n : jobs'[t] = Jobs!Claimed(jobs[t], o, n)
    OBVIOUS
  <2> QED BY <2>1, <2>2, <2>3, <2>4
<1>3. /\ task' = [k \in Jobs!Loops |-> task'[k]]
      /\ \A k \in Jobs!Loops : task'[k] = [v \in Types |-> task'[k][v]]
      /\ \A k \in Jobs!Loops, v \in Types : ATask(task'[k][v])
  <2>1. CASE UNCHANGED task
    BY <1>1, <2>1 DEF JobsTyped
  <2>2. CASE ~UNCHANGED task
    <3>1. PICK l \in Jobs!Loops : \E S \in SUBSET Types :
                task' = [task EXCEPT ![l] =
                  [t \in Types |-> IF t \in S THEN [Jobs!NoTask EXCEPT !.at = "reading"]
                                   ELSE Jobs!NoTask]]
      BY <2>2
    <3>2. PICK S \in SUBSET Types :
                task' = [task EXCEPT ![l] =
                  [t \in Types |-> IF t \in S THEN [Jobs!NoTask EXCEPT !.at = "reading"]
                                   ELSE Jobs!NoTask]]
      BY <3>1
    <3> DEFINE n == Jobs!NoTask
               r == [n EXCEPT !.at = "reading"]
               g == [t \in Types |-> IF t \in S THEN r ELSE n]
    <3>3. ATask(n) /\ ATask(r) /\ task' = [task EXCEPT ![l] = g]
      BY <3>2, CoroutineType
    <3> HIDE DEF n, r
    <3>4. g = [t \in Types |-> g[t]] /\ \A t \in Types : ATask(g[t])
      BY <3>3
    <3> HIDE DEF g
    <3> QED BY <1>1, <3>3, <3>4 DEF JobsTyped
  <2> QED BY <2>1, <2>2
<1>4. JobsTyped'
  BY <1>1, <1>2, <1>3 DEF JobsTyped
<1>5. StaysGone
  BY DEF StaysGone
<1> QED BY <1>2, <1>4, <1>5, StepKeeps

LEMMA ClaimSafe ==
    ASSUME JobsInv, NEW l \in Jobs!Loops, Jobs!Claim(l)
    PROVE  JobsInv'
<1> DEFINE batch == Jobs!FirstOf(Jobs!Claims, Concurrency)
           S == {t \in batch : ~Jobs!Spent(jobs[t])}
<1>1. batch \subseteq Jobs!Claims /\ batch # {}
  BY DEF Jobs!Claim, Jobs!FirstOf
<1>2. batch \subseteq Types /\ Jobs!Live
  BY <1>1 DEF Jobs!Claims
<1>3. /\ jobs' = [t \in Types |-> IF t \in batch
                                  THEN Jobs!Claimed(jobs[t], process, now + LeaseTime)
                                  ELSE jobs[t]]
      /\ task' = [task EXCEPT ![l] =
                    [t \in Types |-> IF t \in batch /\ ~Jobs!Spent(jobs[t])
                                     THEN [Jobs!NoTask EXCEPT !.at = "reading"]
                                     ELSE Jobs!NoTask]]
      /\ UNCHANGED <<index, rows, kept, derived>>
  BY DEF Jobs!Claim
<1>4. S \in SUBSET Types /\ \A t : t \in S <=> t \in batch /\ ~Jobs!Spent(jobs[t])
  BY <1>2
<1> HIDE DEF batch, S
<1>5. task' = [task EXCEPT ![l] =
                 [t \in Types |-> IF t \in S THEN [Jobs!NoTask EXCEPT !.at = "reading"]
                                  ELSE Jobs!NoTask]]
  BY <1>3, <1>4
<1>6. jobs' = [t \in Types |-> jobs'[t]] /\ rows' = [t \in Types |-> rows'[t]]
  BY <1>3 DEF JobsInv, JobsTyped
<1>7. Jobs!Live'
  BY <1>2, <1>3 DEF Jobs!Live
<1>8. ASSUME NEW t \in Types
      PROVE  \/ jobs'[t] = jobs[t]
             \/ jobs'[t] = Jobs!Reopened(jobs[t])
             \/ \E o, n : jobs'[t] = Jobs!Claimed(jobs[t], o, n)
  <2>1. CASE t \in batch
    <3>1. jobs'[t] = Jobs!Claimed(jobs[t], process, now + LeaseTime)
      BY <1>3, <2>1
    <3> QED BY <3>1
  <2>2. CASE t \notin batch
    BY <1>3, <2>2
  <2> QED BY <2>1, <2>2
<1>9. UNCHANGED <<kept, derived>>
  BY <1>3
<1> QED BY <1>2, <1>4, <1>5, <1>6, <1>7, <1>8, <1>9, AllJobsSafe

\* The operator's calls that reopen jobs, and what was blocked.
LEMMA OperatorSafe ==
    ASSUME JobsInv, \/ Jobs!Unblock \/ Jobs!ReindexEvent \/ Jobs!RetryDead
                    \/ \E clear \in BOOLEAN : Jobs!ReindexAll(clear)
    PROVE  JobsInv'
<1>1. Jobs!Live /\ UNCHANGED <<kept, derived, task>>
  BY DEF Jobs!Unblock, Jobs!ReindexEvent, Jobs!RetryDead, Jobs!ReindexAll
<1>2. Jobs!Live'
  BY <1>1 DEF Jobs!Unblock, Jobs!ReindexEvent, Jobs!RetryDead, Jobs!ReindexAll, Jobs!Live
<1>3. rows' = [t \in Types |-> rows'[t]]
  BY DEF Jobs!Unblock, Jobs!ReindexEvent, Jobs!RetryDead, Jobs!ReindexAll, JobsInv, JobsTyped
<1>4. jobs' = [t \in Types |-> jobs'[t]]
  BY DEF Jobs!Unblock, Jobs!ReindexEvent, Jobs!RetryDead, Jobs!ReindexAll
<1>5. \A t \in Types : jobs'[t] = jobs[t] \/ jobs'[t] = Jobs!Reopened(jobs[t])
  BY DEF Jobs!Unblock, Jobs!ReindexEvent, Jobs!RetryDead, Jobs!ReindexAll, Jobs!Requeued
<1> QED BY <1>1, <1>2, <1>3, <1>4, <1>5, AllJobsSafe

LEMMA RepairSafe ==
    ASSUME JobsInv, Jobs!Repair
    PROVE  JobsInv'
<1>1. /\ JobsTyped /\ UNCHANGED <<rows, kept, derived, task>>
      /\ jobs' = Jobs!Repaired(jobs, Jobs!Repairs) /\ index' = "pending"
  BY DEF Jobs!Repair, JobsInv
<1>2. Jobs!Live /\ Jobs!Live'
  BY <1>1 DEF Jobs!Repair, Jobs!Repairs, Jobs!Live
<1>3. ASSUME NEW t \in Types
      PROVE  AJob(jobs'[t]) /\ KeepsMark(t)
  <2>1. AJob(jobs[t]) /\ (jobs[t].status = "absent" => jobs[t].mark = "none")
    BY DEF JobsInv, JobsTyped
  <2>2. AJob(Jobs!Reopened(jobs[t])) /\ Jobs!Reopened(jobs[t]).status = "pending"
        /\ Jobs!Reopened(jobs[t]).mark = jobs[t].mark
    BY <2>1, JobRows
  <2>3. AJob(Jobs!NewJob) /\ Jobs!NewJob.mark = "none"
    BY NoJobRow, JobRows DEF Jobs!NewJob
  <2>4. \/ jobs'[t] = jobs[t] \/ jobs'[t] = Jobs!Reopened(jobs[t])
        \/ jobs[t].status = "absent" /\ jobs'[t] = Jobs!NewJob
    BY <1>1 DEF Jobs!Repaired, Jobs!Requeued
  <2> QED BY <2>1, <2>2, <2>3, <2>4 DEF KeepsMark
<1>4. jobs' = [t \in Types |-> jobs'[t]]
  BY <1>1 DEF Jobs!Repaired
<1>5. JobsTyped'
  BY <1>1, <1>3, <1>4 DEF JobsTyped
<1>6. StaysGone
  BY <1>2 DEF StaysGone
<1> QED BY <1>1, <1>3, <1>5, <1>6, StepKeeps

LEMMA LoseRowsSafe ==
    ASSUME JobsInv, NEW t \in Types, Jobs!LoseRows(t)
    PROVE  JobsInv'
<1>1. /\ Jobs!Live /\ UNCHANGED <<index, jobs, kept, derived, task>>
      /\ rows' = [rows EXCEPT ![t] = "none"]
  BY DEF Jobs!LoseRows
<1>2. JobsTyped'
  BY <1>1 DEF JobsInv, JobsTyped
<1>3. StaysGone
  BY <1>1 DEF StaysGone, Jobs!Live
<1> QED BY <1>1, <1>2, <1>3, RowsStay

\* hard_delete_event leaves no row.
LEMMA DeleteSafe ==
    ASSUME JobsInv, Jobs!HardDelete
    PROVE  JobsInv'
<1>1. /\ jobs' = [t \in Types |-> Jobs!NoJob] /\ rows' = [t \in Types |-> "none"]
      /\ kept' = [t \in Types |-> "none"] /\ derived' = {} /\ UNCHANGED task
  BY DEF Jobs!HardDelete
<1>2. JobsTyped'
  BY <1>1, NoJobRow DEF JobsInv, JobsTyped
<1>3. Jobs!DeletedLeavesNothing'
  BY <1>1, NoJobRow DEF Jobs!DeletedLeavesNothing
<1>4. \A t \in Types : jobs'[t].status = "absent" => jobs'[t].mark = "none"
  BY <1>1, NoJobRow
<1> QED BY <1>1, <1>2, <1>3, <1>4 DEF JobsInv

\* prune_finished_jobs: the counts of the rows that go stay with the event.
LEMMA BootSafe ==
    ASSUME JobsInv, Jobs!Boot
    PROVE  JobsInv'
<1>1. /\ JobsTyped /\ UNCHANGED <<index, rows, derived, task>>
      /\ jobs' = [t \in Types |-> IF Jobs!CanPrune(jobs[t]) THEN Jobs!NoJob ELSE jobs[t]]
      /\ kept' = [t \in Types |-> IF Jobs!CanPrune(jobs[t]) /\ jobs[t].mark # "none"
                                  THEN jobs[t].mark ELSE kept[t]]
  BY DEF Jobs!Boot, JobsInv, Jobs!Pruned, Jobs!Kept
<1>2. JobsTyped'
  BY <1>1, NoJobRow DEF JobsTyped
<1>3. Jobs!DeletedLeavesNothing'
  BY <1>1, NoJobRow DEF JobsInv, Jobs!DeletedLeavesNothing, Jobs!Live
<1>4. \A t \in Types : jobs'[t].status = "absent" => jobs'[t].mark = "none"
  BY <1>1, NoJobRow DEF JobsInv
<1>5. ASSUME NEW t \in Types \cap derived'
      PROVE  Counted(t)'
  <2>1. Counted(t)
    BY <1>1, <1>5 DEF JobsInv
  <2>2. CASE Jobs!CanPrune(jobs[t])
    <3>1. jobs'[t].status = "absent"
      BY <1>1, <2>2, NoJobRow
    <3>2. kept'[t] = IF jobs[t].mark # "none" THEN jobs[t].mark ELSE kept[t]
      BY <1>1, <2>2
    <3>3. jobs[t].status # "absent"
      BY <2>2 DEF Jobs!CanPrune
    <3> QED BY <2>1, <3>1, <3>2, <3>3 DEF Counted
  <2>3. CASE ~Jobs!CanPrune(jobs[t])
    <3>1. jobs'[t] = jobs[t] /\ kept'[t] = kept[t]
      BY <1>1, <2>3
    <3> QED BY <2>1, <3>1 DEF Counted
  <2> QED BY <2>2, <2>3
<1> QED BY <1>2, <1>3, <1>4, <1>5 DEF JobsInv

LEMMA CrashSafe ==
    ASSUME JobsInv, Jobs!Crash
    PROVE  JobsInv'
<1>1. /\ UNCHANGED <<index, jobs, rows, kept, derived>>
      /\ task' = [l \in Jobs!Loops |-> [t \in Types |-> Jobs!NoTask]]
  BY DEF Jobs!Crash, Jobs!durable
<1>2. JobsTyped'
  BY <1>1, CoroutineType DEF JobsInv, JobsTyped
<1> QED BY <1>1, <1>2, TasksOnly

LEMMA JobsStart == Jobs!Init => JobsInv
<1> SUFFICES ASSUME Jobs!Init PROVE JobsInv
  OBVIOUS
<1>1. /\ index = "pending" /\ jobs = [t \in Types |-> Jobs!NewJob] /\ derived = {}
      /\ rows = [t \in Types |-> "none"] /\ kept = [t \in Types |-> "none"]
      /\ task = [l \in Jobs!Loops |-> [t \in Types |-> Jobs!NoTask]]
  BY DEF Jobs!Init, Jobs!NewJobs
<1>2. AJob(Jobs!NewJob) /\ Jobs!NewJob.status = "pending"
  BY NoJobRow, JobRows DEF Jobs!NewJob
<1>3. JobsTyped
  BY <1>1, <1>2, CoroutineType DEF JobsTyped
<1> QED BY <1>1, <1>2, <1>3 DEF JobsInv, Jobs!DeletedLeavesNothing, Jobs!Live

LEMMA JobsStay == JobsInv /\ UNCHANGED jobVars => JobsInv'
<1> SUFFICES ASSUME JobsInv, UNCHANGED jobVars PROVE JobsInv'
  OBVIOUS
<1>1. UNCHANGED <<index, jobs, rows, kept, derived, task>>
  BY DEF jobVars
<1>2. JobsTyped'
  BY <1>1 DEF JobsInv, JobsTyped
<1> QED BY <1>1, <1>2, TasksOnly

LEMMA JobsStep == JobsInv /\ Jobs!Next => JobsInv'
<1> SUFFICES ASSUME JobsInv, Jobs!Next PROVE JobsInv'
  OBVIOUS
<1>1. ASSUME NEW l \in Jobs!Loops, NEW t \in Types, Jobs!Steps(l, t)
      PROVE  JobsInv'
  <2>1. CASE \/ Jobs!Read(l, t) \/ Jobs!NotConfigured(l, t) \/ Jobs!NoAnswer(l, t)
             \/ Jobs!Answer(l, t) \/ Jobs!WriteNothing(l, t)
    BY <2>1, ReadsSafe
  <2>2. CASE Jobs!Renew(l, t, "renewing", "asking")
    BY <2>2, RenewSafe
  <2>3. CASE Jobs!Renew(l, t, "checking", "writing")
    BY <2>3, RenewSafe
  <2>4. CASE Jobs!Write(l, t)
    BY <2>4, WriteSafe
  <2>5. CASE Jobs!Reopen(l, t)
    BY <2>5, ReopenSafe
  <2>6. CASE Jobs!Complete(l, t)
    BY <2>6, CompleteSafe
  <2>7. CASE Jobs!Block(l, t) \/ Jobs!Fail(l, t)
    BY <2>7, BlockSafe
  <2>8. CASE Jobs!Refresh(l, t) \/ Jobs!Stamp(l, t)
    BY <2>8, StampSafe
  <2> QED BY <1>1, <2>1, <2>2, <2>3, <2>4, <2>5, <2>6, <2>7, <2>8 DEF Jobs!Steps
<1>2. ASSUME NEW l \in Jobs!Loops, Jobs!Loop(l)
      PROVE  JobsInv'
  BY <1>1, <1>2, ClaimSafe DEF Jobs!Loop
<1>3. CASE \/ Jobs!Unblock \/ Jobs!ReindexEvent \/ Jobs!RetryDead
           \/ \E clear \in BOOLEAN : Jobs!ReindexAll(clear)
  BY <1>3, OperatorSafe
<1>4. CASE Jobs!HardDelete
  BY <1>4, DeleteSafe
<1>5. CASE Jobs!Rebind \/ Jobs!Throttle \/ Jobs!Rest \/ Jobs!Tick
  <2>1. UNCHANGED <<index, jobs, rows, kept, derived, task>>
    BY <1>5 DEF Jobs!Rebind, Jobs!Throttle, Jobs!Rest, Jobs!Tick, Jobs!durable
  <2>2. JobsTyped'
    BY <2>1 DEF JobsInv, JobsTyped
  <2> QED BY <2>1, <2>2, TasksOnly
<1>6. ASSUME NEW t \in Types, Jobs!LoseRows(t)
      PROVE  JobsInv'
  BY <1>6, LoseRowsSafe
<1>7. CASE Jobs!Repair
  BY <1>7, RepairSafe
<1>8. CASE Jobs!Crash
  BY <1>8, CrashSafe
<1>9. CASE Jobs!Boot
  BY <1>9, BootSafe
<1> QED BY <1>2, <1>3, <1>4, <1>5, <1>6, <1>7, <1>8, <1>9 DEF Jobs!Next

LEMMA CountedIsSeen == JobsInv => LossIsSeen
<1> SUFFICES ASSUME JobsInv, NEW t \in Types \cap derived \cap Jobs!Derives,
                    rows[t] = "none", jobs[t].status \in {"absent", "completed"}
             PROVE  t \in Jobs!Missing(jobs, rows, kept)
  BY DEF LossIsSeen, Jobs!LossIsSeen
<1>1. Counted(t)
  BY DEF JobsInv
<1>2. Jobs!Expected(t, jobs[t], kept[t]) = "some"
  BY <1>1 DEF Counted, Jobs!Expected
<1> QED BY <1>2 DEF Jobs!Missing

-----------------------------------------------------------------------------
(***************************************************************************)
(* The cache of the vectors.  What a search may meet, in the table, in the *)
(* cache or in its hand, is not of an event whose deletion has returned.   *)
(***************************************************************************)
SearchFields == {"at", "target", "count", "since", "found"}
WriterFields == {"drops", "erases"}
ASearch(s) ==
    /\ s = [f \in SearchFields |-> s[f]]
    /\ s.target \in Vectors!Targets
    /\ s.since \subseteq erased /\ s.found \cap s.since = {}

VectorsTyped ==
    /\ stored = [k \in Vectors!Targets |-> stored[k]]
    /\ DOMAIN cache \subseteq Vectors!Targets
    /\ writer = [f \in WriterFields |-> writer[f]]
    /\ search = [s \in Searches |-> search[s]]

\* A deletion that has committed and not yet dropped will drop every entry.
VectorsInv ==
    /\ VectorsTyped
    /\ \A s \in Searches : ASearch(search[s])
    /\ \A k \in Vectors!Targets : stored[k] \cap (erased \cup writer.erases) = {}
    /\ \A k \in DOMAIN cache : cache[k] \cap erased = {}
    /\ writer.erases # {} => writer.drops = Vectors!Targets

\* One thread goes on.
LEMMA SearchStep ==
    ASSUME VectorsInv, NEW s \in Searches, NEW c, ASearch(c),
           search' = [search EXCEPT ![s] = c],
           UNCHANGED <<stored, writer, erased>>, DOMAIN cache' \subseteq Vectors!Targets,
           \A k \in DOMAIN cache' : cache'[k] \cap erased = {}
    PROVE  VectorsInv'
<1>1. /\ search' = [r \in Searches |-> search'[r]]
      /\ \A r \in Searches : search'[r] = IF r = s THEN c ELSE search[r]
  BY DEF VectorsInv, VectorsTyped
<1>2. ASSUME NEW r \in Searches
      PROVE  ASearch(search[r])' 
  <2>1. ASearch(search'[r])
    BY <1>1 DEF VectorsInv
  <2> QED BY <2>1 DEF ASearch
<1>3. VectorsTyped'
  BY <1>1 DEF VectorsInv, VectorsTyped
<1> QED BY <1>2, <1>3 DEF VectorsInv

\* A search that leaves the cache alone.
LEMMA MovesSafe ==
    ASSUME VectorsInv, NEW s \in Searches,
           \/ \E k \in Vectors!Targets : Vectors!Start(s, k)
           \/ Vectors!Look(s) \/ Vectors!Scan(s) \/ Vectors!Leave(s)
    PROVE  VectorsInv'
<1> DEFINE b == search[s]
<1>1. UNCHANGED <<stored, writer, erased, cache>>
  BY DEF Vectors!Start, Vectors!Look, Vectors!Scan, Vectors!Leave, Vectors!Database,
     Vectors!Cached, Vectors!Returns, Vectors!Goes
<1>2. ASearch(b)
  BY DEF VectorsInv
<1>3. /\ DOMAIN cache' \subseteq Vectors!Targets
      /\ \A k \in DOMAIN cache' : cache'[k] \cap erased = {}
  BY <1>1 DEF VectorsInv, VectorsTyped
<1>4. ASSUME NEW k \in Vectors!Targets, Vectors!Start(s, k)
      PROVE  VectorsInv'
  <2> DEFINE place == IF stored[k] = {} THEN "done" ELSE "looking"
             n == Vectors!Cardinality(stored[k])
             c == [at |-> place, target |-> k, count |-> n, since |-> erased,
                   found |-> {}]
  <2>1. search' = [search EXCEPT ![s] = c]
    BY <1>4 DEF Vectors!Start
  <2> HIDE DEF place, n
  <2>2. /\ c = [f \in SearchFields |-> c[f]] /\ c.target = k
        /\ c.since = erased /\ c.found = {}
    BY DEF SearchFields
  <2> HIDE DEF c
  <2>3. ASearch(c)
    BY <2>2 DEF ASearch
  <2> QED BY <1>1, <1>3, <2>1, <2>3, SearchStep
<1>5. ASSUME NEW found, found \cap erased = {}, Vectors!Returns(s, found)
      PROVE  VectorsInv'
  <2> DEFINE c == [b EXCEPT !.at = "done", !.found = found]
  <2>1. search' = [search EXCEPT ![s] = c]
    BY <1>5 DEF Vectors!Returns
  <2> HIDE DEF b
  <2>2. /\ c = [f \in SearchFields |-> c[f]] /\ c.target = b.target
        /\ c.since = b.since /\ c.found = found
    BY <1>2 DEF ASearch, SearchFields
  <2> HIDE DEF c
  <2>3. ASearch(c)
    BY <1>2, <1>5, <2>2 DEF ASearch
  <2> QED BY <1>1, <1>3, <2>1, <2>3, SearchStep
<1>6. ASSUME NEW place, Vectors!Goes(s, place)
      PROVE  VectorsInv'
  <2> DEFINE c == [b EXCEPT !.at = place]
  <2>1. search' = [search EXCEPT ![s] = c]
    BY <1>6 DEF Vectors!Goes
  <2> HIDE DEF b
  <2>2. /\ c = [f \in SearchFields |-> c[f]] /\ c.target = b.target
        /\ c.since = b.since /\ c.found = b.found
    BY <1>2 DEF ASearch, SearchFields
  <2> HIDE DEF c
  <2>3. ASearch(c)
    BY <1>2, <2>2 DEF ASearch
  <2> QED BY <1>1, <1>3, <2>1, <2>3, SearchStep
<1>7. CASE Vectors!Look(s)
  <2> DEFINE k == b.target
  <2>1. CASE k \in DOMAIN cache
    <3>1. cache[k] \cap erased = {} /\ Vectors!Returns(s, cache[k])
      BY <1>7, <2>1 DEF Vectors!Look, VectorsInv
    <3> QED BY <1>5, <3>1
  <2>2. CASE k \notin DOMAIN cache
    <3>1. Vectors!Returns(s, {}) \/ \E place : Vectors!Goes(s, place)
      BY <1>7, <2>2 DEF Vectors!Look
    <3> QED BY <1>5, <1>6, <3>1
  <2> QED BY <2>1, <2>2
<1>8. CASE Vectors!Scan(s)
  <2>1. stored[b.target] \cap erased = {}
    BY <1>2 DEF VectorsInv, ASearch
  <2> QED BY <1>5, <1>8, <2>1 DEF Vectors!Scan
<1>9. CASE Vectors!Leave(s)
  <2> DEFINE c == Vectors!NoSearch
  <2>1. search' = [search EXCEPT ![s] = c]
    BY <1>9 DEF Vectors!Leave
  <2>2. ASearch(c)
    BY DEF Vectors!NoSearch, ASearch, SearchFields, Vectors!Targets
  <2> HIDE DEF c
  <2> QED BY <1>1, <1>3, <2>1, <2>2, SearchStep
<1> QED BY <1>4, <1>7, <1>8, <1>9

\* What is built holds what the table, or the cache, held.
LEMMA BuildSafe ==
    ASSUME VectorsInv, NEW s \in Searches, Vectors!Build(s)
    PROVE  VectorsInv'
<1> DEFINE b == search[s]
           k == b.target
           found == IF k \in DOMAIN cache THEN cache[k] ELSE stored[k]
           c == [b EXCEPT !.at = "done", !.found = found]
           d == [b EXCEPT !.at = "scanning"]
<1>1. ASearch(b) /\ DOMAIN cache \subseteq Vectors!Targets
  BY DEF VectorsInv, VectorsTyped
<1>2. k \in Vectors!Targets /\ found \cap erased = {}
  BY <1>1 DEF VectorsInv, ASearch
<1>3. \/ Vectors!Admit(k, found) /\ search' = [search EXCEPT ![s] = c]
      \/ Vectors!Reject(k, found) /\ search' = [search EXCEPT ![s] = d]
  BY DEF Vectors!Build, Vectors!Returns, Vectors!Goes
<1>4. UNCHANGED <<stored, writer, erased>>
  BY DEF Vectors!Build, Vectors!Database
<1> HIDE DEF found
<1>5. /\ DOMAIN cache' \subseteq Vectors!Targets
      /\ \A j \in DOMAIN cache' : cache'[j] \cap erased = {}
  <2>1. CASE Vectors!Admit(k, found)
    <3>1. PICK out : cache' = [j \in (DOMAIN cache \ out) \cup {k} |->
                                 IF j = k THEN found ELSE cache[j]]
      BY <2>1 DEF Vectors!Admit
    <3> QED BY <1>1, <1>2, <3>1 DEF VectorsInv
  <2>2. CASE Vectors!Reject(k, found)
    <3>1. \/ cache' = cache \/ cache' = Vectors!Without(Vectors!Targets \ {k})
      BY <2>2 DEF Vectors!Reject, Vectors!Cached
    <3> QED BY <1>1, <3>1 DEF VectorsInv, Vectors!Without, Vectors!Restrict
  <2> QED BY <1>3, <2>1, <2>2
<1> HIDE DEF k, b
<1>6. /\ c = [f \in SearchFields |-> c[f]] /\ c.target = b.target
      /\ c.since = b.since /\ c.found = found
      /\ d = [f \in SearchFields |-> d[f]] /\ d.target = b.target
      /\ d.since = b.since /\ d.found = b.found
  BY <1>1 DEF ASearch, SearchFields
<1> HIDE DEF c, d
<1>7. ASearch(c) /\ ASearch(d)
  BY <1>1, <1>2, <1>6 DEF ASearch
<1> QED BY <1>3, <1>4, <1>5, <1>7, SearchStep

\* A writer commits: the cache is as it was, and so is what the threads hold.
LEMMA CommitSafe ==
    ASSUME VectorsInv, NEW table, NEW drops, NEW gone, Vectors!Commits(table, drops, gone),
           table = [k \in Vectors!Targets |-> table[k]],
           \A k \in Vectors!Targets : table[k] \cap (erased \cup gone) = {},
           gone # {} => drops = Vectors!Targets
    PROVE  VectorsInv'
<1>1. /\ stored' = table /\ UNCHANGED <<cache, erased, search>>
      /\ writer' = [drops |-> drops, erases |-> gone]
  BY DEF Vectors!Commits, Vectors!Cached
<1>2. /\ writer' = [f \in WriterFields |-> writer'[f]]
      /\ writer'.drops = drops /\ writer'.erases = gone
  BY <1>1 DEF WriterFields
<1>3. VectorsTyped'
  BY <1>1, <1>2 DEF VectorsInv, VectorsTyped
<1>4. \A s \in Searches : ASearch(search[s])'
  BY <1>1 DEF VectorsInv, ASearch
<1> QED BY <1>1, <1>2, <1>3, <1>4 DEF VectorsInv

LEMMA WritersSafe ==
    ASSUME VectorsInv, \/ \E e \in Events : \/ \E k \in Vectors!Targets : Vectors!Upsert(e, k)
                                            \/ Vectors!HardDelete(e) \/ Vectors!RepairChunks(e)
                       \/ Vectors!ReindexAll
    PROVE  VectorsInv'
<1>1. /\ stored = [k \in Vectors!Targets |-> stored[k]]
      /\ \A k \in Vectors!Targets : stored[k] \cap erased = {}
  BY DEF VectorsInv, VectorsTyped
<1>2. ASSUME NEW e \in Events, NEW k \in Vectors!Targets, Vectors!Upsert(e, k)
      PROVE  VectorsInv'
  <2> DEFINE table == [stored EXCEPT ![k] = @ \cup {e}]
  <2>1. Vectors!Commits(table, {k}, {}) /\ e \notin erased
    BY <1>2 DEF Vectors!Upsert
  <2>2. /\ table = [j \in Vectors!Targets |-> table[j]]
        /\ \A j \in Vectors!Targets : table[j] \cap (erased \cup {}) = {}
    BY <1>1, <2>1
  <2> HIDE DEF table
  <2> QED BY <2>1, <2>2, CommitSafe
<1>3. ASSUME NEW e \in Events, Vectors!HardDelete(e)
      PROVE  VectorsInv'
  <2> DEFINE table == [j \in Vectors!Targets |-> stored[j] \ {e}]
  <2>1. Vectors!Commits(table, Vectors!Targets, {e})
    BY <1>3 DEF Vectors!HardDelete
  <2>2. /\ table = [j \in Vectors!Targets |-> table[j]]
        /\ \A j \in Vectors!Targets : table[j] \cap (erased \cup {e}) = {}
    BY <1>1
  <2> HIDE DEF table
  <2> QED BY <2>1, <2>2, CommitSafe
<1>4. ASSUME NEW e \in Events, Vectors!RepairChunks(e)
      PROVE  VectorsInv'
  <2> DEFINE table == [stored EXCEPT !["chunk"] = @ \ {e}]
  <2>1. Vectors!Commits(table, {}, {})
    BY <1>4 DEF Vectors!RepairChunks
  <2>2. /\ table = [j \in Vectors!Targets |-> table[j]]
        /\ \A j \in Vectors!Targets : table[j] \cap (erased \cup {}) = {}
    BY <1>1
  <2> HIDE DEF table
  <2> QED BY <2>1, <2>2, CommitSafe
<1>5. CASE Vectors!ReindexAll
  <2> DEFINE table == [j \in Vectors!Targets |-> {}]
  <2>1. Vectors!Commits(table, Vectors!Targets, {})
    BY <1>5 DEF Vectors!ReindexAll
  <2>2. /\ table = [j \in Vectors!Targets |-> table[j]]
        /\ \A j \in Vectors!Targets : table[j] \cap (erased \cup {}) = {}
    OBVIOUS
  <2> HIDE DEF table
  <2> QED BY <2>1, <2>2, CommitSafe
<1> QED BY <1>2, <1>3, <1>4, <1>5

\* The deletion returns once nothing of the event is cached.
LEMMA DropSafe ==
    ASSUME VectorsInv, Vectors!Drop
    PROVE  VectorsInv'
<1>1. /\ cache' = [k \in DOMAIN cache \ writer.drops |-> cache[k]]
      /\ erased' = erased \cup writer.erases
      /\ writer' = [drops |-> {}, erases |-> {}] /\ UNCHANGED <<stored, search>>
  BY DEF Vectors!Drop, Vectors!Without, Vectors!Restrict, Vectors!NoWriter
<1>2. writer' = [f \in WriterFields |-> writer'[f]] /\ writer'.erases = {}
  BY <1>1 DEF WriterFields
<1>3. VectorsTyped'
  BY <1>1, <1>2 DEF VectorsInv, VectorsTyped
<1>4. \A s \in Searches : ASearch(search[s])'
  BY <1>1 DEF VectorsInv, ASearch
<1>5. \A k \in Vectors!Targets : stored'[k] \cap (erased' \cup writer'.erases) = {}
  BY <1>1, <1>2 DEF VectorsInv
<1>6. \A k \in DOMAIN cache' : cache'[k] \cap erased' = {}
  <2>1. CASE writer.erases = {}
    BY <1>1, <2>1 DEF VectorsInv
  <2>2. CASE writer.erases # {}
    <3>1. DOMAIN cache' = {}
      BY <1>1, <2>2 DEF VectorsInv, VectorsTyped
    <3> QED BY <3>1
  <2> QED BY <2>1, <2>2
<1> QED BY <1>2, <1>3, <1>4, <1>5, <1>6 DEF VectorsInv

LEMMA VectorsStep == VectorsInv /\ Vectors!Next => VectorsInv'
BY MovesSafe, BuildSafe, WritersSafe, DropSafe DEF Vectors!Next

LEMMA VectorsStart == Vectors!Init => VectorsInv
<1> SUFFICES ASSUME Vectors!Init PROVE VectorsInv
  OBVIOUS
<1>1. /\ stored = [k \in Vectors!Targets |-> {}] /\ DOMAIN cache = {}
      /\ writer = [drops |-> {}, erases |-> {}] /\ erased = {}
      /\ search = [s \in Searches |-> Vectors!NoSearch]
  BY DEF Vectors!Init, Vectors!NoWriter
<1>2. ASearch(Vectors!NoSearch)
  BY DEF Vectors!NoSearch, ASearch, SearchFields, Vectors!Targets
<1>3. writer = [f \in WriterFields |-> writer[f]] /\ writer.erases = {}
  BY <1>1 DEF WriterFields
<1> QED BY <1>1, <1>2, <1>3 DEF VectorsInv, VectorsTyped

LEMMA VectorsStay == VectorsInv /\ UNCHANGED vectorVars => VectorsInv'
<1> SUFFICES ASSUME VectorsInv, UNCHANGED vectorVars PROVE VectorsInv'
  OBVIOUS
<1>1. UNCHANGED <<stored, cache, writer, erased, search>>
  BY DEF vectorVars
<1>2. \A s \in Searches : ASearch(search[s])'
  BY <1>1 DEF VectorsInv, ASearch
<1> QED BY <1>1, <1>2 DEF VectorsInv, VectorsTyped

-----------------------------------------------------------------------------
(***************************************************************************)
(* The archive.                                                            *)
(***************************************************************************)
LinkFields == {"from", "to", "cites"}
ALink(l) == l = [f \in LinkFields |-> l[f]] /\ l.from \in Nights
NightFields == {"at", "day", "basis", "drawn"}

\* Links leave reflections.
ArchiveInv ==
    /\ \A l \in links : ALink(l)
    /\ night = [f \in NightFields |-> night[f]]
    /\ night.at # "idle" => night.day \in Nights

LEMMA NightType ==
    ASSUME ArchiveInv, NEW links1, \A l \in links1 : ALink(l), links' = links1,
           \/ UNCHANGED night
           \/ \E place : Archive!Goes(place) /\ night.at # "idle"
           \/ Archive!Ends
    PROVE  ArchiveInv'
<1>1. CASE UNCHANGED night
  BY <1>1 DEF ArchiveInv, ALink
<1>2. ASSUME NEW place, Archive!Goes(place), night.at # "idle"
      PROVE  ArchiveInv'
  <2>1. night' = [f \in NightFields |-> night'[f]] /\ night'.day = night.day
    BY <1>2 DEF Archive!Goes, ArchiveInv, NightFields
  <2> QED BY <1>2, <2>1 DEF ArchiveInv, ALink
<1>3. CASE Archive!Ends
  <2>1. night' = [f \in NightFields |-> night'[f]] /\ night'.at = "idle"
    BY <1>3 DEF Archive!Ends, Archive!NoNight, NightFields
  <2> QED BY <2>1 DEF ArchiveInv, ALink
<1> QED BY <1>1, <1>2, <1>3

LEMMA ArchiveStep == ArchiveInv /\ Archive!Next => ArchiveInv'
<1> SUFFICES ASSUME ArchiveInv, Archive!Next PROVE ArchiveInv'
  OBVIOUS
<1>1. \A l \in links : ALink(l)
  BY DEF ArchiveInv
<1>2. ASSUME NEW n \in Nights, Archive!Consolidate(n)
      PROVE  ArchiveInv'
  <2>1. night' = [f \in NightFields |-> night'[f]] /\ night'.day = n
    BY <1>2 DEF Archive!Consolidate, Archive!NoNight, NightFields
  <2> QED BY <1>1, <1>2, <2>1 DEF Archive!Consolidate, Archive!Memory, ArchiveInv, ALink
<1>3. CASE Archive!LookForMarker
  <2>1. links' = links /\ (Archive!Ends \/ \E place : Archive!Goes(place) /\ night.at # "idle")
    BY <1>3 DEF Archive!LookForMarker, Archive!Memory, Archive!At
  <2> QED BY <1>1, <2>1, NightType
<1>4. CASE Archive!Read
  <2>1. CASE Archive!Ends
    BY <1>1, <1>4, <2>1, NightType DEF Archive!Read, Archive!Memory
  <2>2. CASE night' = [night EXCEPT !.at = "thinking", !.basis = events \cap Notes]
    <3>1. night' = [f \in NightFields |-> night'[f]] /\ night'.day = night.day
      BY <2>2 DEF ArchiveInv, NightFields
    <3> QED BY <1>4, <3>1 DEF Archive!Read, Archive!Memory, Archive!At, ArchiveInv, ALink
  <2> QED BY <1>4, <2>1, <2>2 DEF Archive!Read
<1>5. CASE Archive!Think
  <2>1. CASE Archive!Ends
    BY <1>1, <1>5, <2>1, NightType DEF Archive!Think, Archive!Memory
  <2>2. CASE ~Archive!Ends
    <3>1. PICK drawn : night' = [night EXCEPT !.at = "archiving", !.drawn = drawn]
      BY <1>5, <2>2 DEF Archive!Think
    <3>2. night' = [f \in NightFields |-> night'[f]] /\ night'.day = night.day
      BY <3>1 DEF ArchiveInv, NightFields
    <3> QED BY <1>5, <3>2 DEF Archive!Think, Archive!Memory, Archive!At, ArchiveInv, ALink
  <2> QED BY <2>1, <2>2
<1>6. CASE Archive!Conclude
  <2>1. links' = links /\ (Archive!Ends \/ \E place : Archive!Goes(place) /\ night.at # "idle")
    BY <1>6 DEF Archive!Conclude, Archive!At
  <2> QED BY <1>1, <2>1, NightType
<1>7. CASE Archive!LinkEvidence
  <2> DEFINE new == {[from |-> night.day, to |-> e, cites |-> "event"] :
                       e \in night.drawn \cap events}
  <2>1. Archive!Ends /\ (links' = links \/ links' = links \cup new)
    BY <1>7 DEF Archive!LinkEvidence
  <2>2. night.day \in Nights
    BY <1>7 DEF Archive!LinkEvidence, Archive!At, ArchiveInv
  <2>3. \A l \in new : ALink(l)
    BY <2>2 DEF ALink, LinkFields
  <2> HIDE DEF new
  <2>4. \A l \in links' : ALink(l)
    BY <1>1, <2>1, <2>3
  <2> QED BY <2>1, <2>4, NightType
<1>8. ASSUME NEW r \in Nights, NEW e, NEW cites, Archive!Associate(r, e, cites)
      PROVE  ArchiveInv'
  <2> DEFINE new == [from |-> r, to |-> e, cites |-> cites]
  <2>1. ALink(new)
    BY DEF ALink, LinkFields
  <2>2. links' = links \cup {new} /\ UNCHANGED night
    BY <1>8 DEF Archive!Associate
  <2> HIDE DEF new
  <2>3. \A l \in links' : ALink(l)
    BY <1>1, <2>1, <2>2
  <2> QED BY <2>2, <2>3, NightType
<1>9. ASSUME NEW e, Archive!Repair(e)
      PROVE  ArchiveInv'
  <2>1. UNCHANGED night
    BY <1>9 DEF Archive!Repair
  <2>2. ASSUME NEW l \in links'
        PROVE  ALink(l)
    <3>1. PICK m \in links : l = m \/ l = [m EXCEPT !.cites = "lost"]
      BY <1>9, <2>2 DEF Archive!Repair
    <3>2. ALink(m)
      BY <1>1
    <3> QED BY <3>1, <3>2 DEF ALink, LinkFields
  <2> QED BY <2>1, <2>2, NightType
<1>10. CASE \/ \E k \in Notes : Archive!Observe(k)
            \/ \E e \in Notes \cup Nights : Archive!HardDelete(e)
            \/ Archive!ReindexAll
  <2>1. links' \subseteq links /\ UNCHANGED night
    BY <1>10 DEF Archive!Observe, Archive!HardDelete, Archive!ReindexAll
  <2>2. \A l \in links' : ALink(l)
    BY <1>1, <2>1
  <2> QED BY <2>1, <2>2, NightType
<1>11. CASE Archive!Crash
  <2>1. links' = links /\ Archive!Ends
    BY <1>11 DEF Archive!Crash, Archive!Memory, Archive!Ends
  <2> QED BY <1>1, <2>1, NightType
<1> QED BY <1>2, <1>3, <1>4, <1>5, <1>6, <1>7, <1>8, <1>9, <1>10, <1>11 DEF Archive!Next

LEMMA ArchiveStart == Archive!Init => ArchiveInv
<1> SUFFICES ASSUME Archive!Init PROVE ArchiveInv
  OBVIOUS
<1>1. night = [f \in NightFields |-> night[f]] /\ night.at = "idle"
  BY DEF Archive!Init, Archive!NoNight, NightFields
<1> QED BY <1>1 DEF Archive!Init, ArchiveInv

LEMMA ArchiveStay == ArchiveInv /\ UNCHANGED archiveVars => ArchiveInv'
BY DEF ArchiveInv, archiveVars, ALink

\* What falls is closed: who is left rests on something.
LEMMA FallsIsClosed ==
    ASSUME NEW e, NEW r \in Archive!Dependents(Archive!Falls(e)),
           r \notin Archive!Falls(e)
    PROVE  Archive!Rests(r, events \ {e}, links)
<1> SUFFICES ASSUME ~Archive!Rests(r, events \ {e}, links) PROVE FALSE
  OBVIOUS
<1>1. PICK l \in links : r \in Nights \cap events /\ l.from = r /\ l.to \in Archive!Falls(e)
  BY DEF Archive!Dependents
<1>2. ASSUME NEW G \in SUBSET ({e} \cup Nights), Archive!IsClosed(G, e)
      PROVE  r \in G
  <2>1. l.to \in G
    BY <1>1, <1>2 DEF Archive!Falls
  <2>2. r \in Archive!Dependents(G)
    BY <1>1, <2>1 DEF Archive!Dependents
  <2> QED BY <1>2, <2>2 DEF Archive!IsClosed
<1> QED BY <1>1, <1>2 DEF Archive!Falls

LEMMA DeletionStep ==
    ASSUME ArchiveInv, NEW e \in Notes \cup Nights, Archive!HardDelete(e),
           NEW l \in links, l.to \in events \ events', l.from \in events'
    PROVE  Archive!Rests(l.from, events', links')
<1> DEFINE gone == Archive!Falls(e)
           r == l.from
<1>1. /\ events' = events \ gone
      /\ links' = {m \in links :
                     /\ {m.from, m.to} \cap gone = {}
                     /\ ~(m.cites = "lost" /\ m.from \in Archive!Dependents(gone)
                          /\ m.to \in Notes)}
  BY DEF Archive!HardDelete
<1>2. r \in Archive!Dependents(gone) /\ r \notin gone
  BY <1>1 DEF Archive!Dependents, ArchiveInv, ALink
<1>3. Archive!Rests(r, events \ {e}, links)
  BY <1>2, FallsIsClosed
<1>4. PICK m \in links : m.from = r /\ m.to \in (events \ {e}) \cap Notes /\ m.cites # "lost"
  BY <1>3 DEF Archive!Rests
<1>5. gone \subseteq {e} \cup Nights
  BY DEF Archive!Falls
<1>6. m.to \notin gone
  BY <1>4, <1>5, MemoryAssumption
<1> HIDE DEF gone
<1>7. m \in links' /\ m.to \in events' \cap Notes
  BY <1>1, <1>2, <1>4, <1>6
<1> QED BY <1>4, <1>7 DEF Archive!Rests

\* Nothing else removes an event.
LEMMA ConclusionsStep ==
    ASSUME ArchiveInv, Archive!Next, NEW l \in links, l.to \in events \ events',
           l.from \in events'
    PROVE  Archive!Rests(l.from, events', links')
<1>1. CASE \E e \in Notes \cup Nights : Archive!HardDelete(e)
  BY <1>1, DeletionStep
<1>2. CASE ~\E e \in Notes \cup Nights : Archive!HardDelete(e)
  <2>1. events \subseteq events'
    BY <1>2 DEF Archive!Next, Archive!Observe, Archive!Consolidate, Archive!LookForMarker,
       Archive!Read, Archive!Think, Archive!Conclude, Archive!LinkEvidence,
       Archive!Associate, Archive!Repair, Archive!ReindexAll, Archive!Crash,
       Archive!Memory
  <2> QED BY <2>1
<1> QED BY <1>1, <1>2

-----------------------------------------------------------------------------
(***************************************************************************)
(* The backups: how far a restore has come with each file.                 *)
(***************************************************************************)
MovedFields == {"files", "logs", "failed"}
RestoreFields == {"at", "f", "staged"}

DiskTyped ==
    /\ live = [g \in Files |-> live[g]] /\ wal = [g \in Dbs |-> wal[g]]
    /\ dir = [n \in Disk!Names |-> dir[n]]
    /\ dir["snapshot"] = [g \in Files |-> dir["snapshot"][g]]
    /\ moved = [x \in MovedFields |-> moved[x]]
    /\ moved.files = [g \in Files |-> moved.files[g]]
    /\ moved.logs = [g \in Dbs |-> moved.logs[g]]
    /\ moved.failed \in BOOLEAN
    /\ restore = [x \in RestoreFields |-> restore[x]]
    /\ restore.staged \subseteq Files
    /\ restore.at # "idle" => restore.f \in Files

\* A file and its log are in place, set aside, or replaced.
InPlace(g) ==
    /\ live[g] = "old" /\ moved.files[g] = Disk!None
    /\ g \in Dbs => wal[g] = "old" /\ moved.logs[g] = Disk!None
LogAside(g) == g \in Dbs => wal[g] = Disk!None /\ moved.logs[g] = "old"
Through(g) ==
    IF g \in restore.staged
    THEN live[g] = "new" /\ moved.files[g] = "old" /\ LogAside(g)
    ELSE InPlace(g)

Untouched == \A g \in Files : InPlace(g)
Saved == \A g \in Files : dir["snapshot"][g] = "old"

\* Before f all is through, behind it all is in place.
Around(f) ==
    /\ \A g \in Files : g < f => Through(g)
    /\ \A g \in Files : g > f => InPlace(g)

\* What a rollback has still to put back lies at or before f, or it failed.
Owed(f) ==
    /\ \A g \in Files :
          \/ live[g] = "old" /\ moved.files[g] = Disk!None
          \/ /\ moved.files[g] = "old" /\ g \in restore.staged
             /\ g <= f \/ moved.failed = TRUE
    /\ \A g \in Dbs : \/ wal[g] = "old" /\ moved.logs[g] = Disk!None
                      \/ wal[g] = Disk!None /\ moved.logs[g] = "old"

AtWork ==
    LET f == restore.f
    IN  /\ restore.at \in {"moving", "log", "install", "done"} =>
              Saved /\ moved.failed = FALSE
        /\ restore.at = "moving" => Around(f) /\ InPlace(f)
        /\ restore.at = "log" =>
              /\ Around(f) /\ f \in restore.staged \cap Dbs
              /\ live[f] = Disk!None /\ moved.files[f] = "old"
              /\ wal[f] = "old" /\ moved.logs[f] = Disk!None
        /\ restore.at = "install" =>
              /\ Around(f) /\ f \in restore.staged
              /\ live[f] = Disk!None /\ moved.files[f] = "old" /\ LogAside(f)
        /\ restore.at = "done" => \A g \in Files : Through(g)
        /\ restore.at = "undoing" => Saved /\ Owed(f)
        /\ restore.at = "logs" => Saved /\ Owed(0)
        /\ restore.at = "undone" =>
              /\ Saved
              /\ moved.failed = TRUE \/ Untouched

Before ==
    /\ restore.at = "owner" => Untouched /\ ~Disk!Here(dir["snapshot"])
    /\ restore.at = "snapshot" =>
          /\ Untouched
          /\ \A g \in Files : g < restore.f => dir["snapshot"][g] = "old"

DiskInv ==
    /\ DiskTyped
    /\ restore.at \in {"idle", "owner", "snapshot", "moving", "log", "install", "done",
                       "undoing", "logs", "undone"}
    /\ ~Disk!Here(dir["snapshot"]) =>
          /\ Untouched /\ moved.failed = FALSE
          /\ restore.at \in {"idle", "owner", "snapshot"}
    /\ restore.at \in {"owner", "snapshot"} => moved.failed = FALSE
    /\ restore.at # "idle" => outcome = Disk!None
    /\ Disk!RestoreIsWhole
    /\ Saved \/ \A g \in Files : live[g] = "old"
    /\ Before /\ AtWork

LEMMA FilesAreCounted ==
    /\ 1 \in Files /\ Disk!First = 1 /\ Disk!Last \in Files
    /\ \A g \in Files : g \in Nat /\ 1 <= g /\ g <= Disk!Last
    /\ \A g \in Files \ {Disk!Last} : g + 1 \in Files
    /\ \A g \in Files \ {1} : g - 1 \in Files
    /\ Dbs \subseteq Files
<1> DEFINE n == Disk!Cardinality(Files)
<1>1. n \in Nat \ {0} /\ Files = 1..n /\ Dbs \subseteq Files
  BY MemoryAssumption DEF Disk!BackupAssumption
<1> HIDE DEF n
<1>2. n \in Files /\ \A g \in Files : g <= n
  BY <1>1
<1>3. Disk!Last \in Files /\ \A g \in Files : g <= Disk!Last
  BY <1>2 DEF Disk!Last
<1>4. Disk!Last = n
  BY <1>1, <1>2, <1>3
<1> QED BY <1>1, <1>3, <1>4 DEF Disk!First

\* The restore goes on to a place and a file.
LEMMA GoesOn ==
    ASSUME DiskTyped, NEW place, NEW f, Disk!Go(place, f)
    PROVE  /\ restore' = [x \in RestoreFields |-> restore'[x]]
           /\ restore'.at = place /\ restore'.f = f /\ restore'.staged = restore.staged
BY DEF DiskTyped, Disk!Go, RestoreFields

\* The rest of the process leaves the restore and its snapshot alone.
LEMMA DiskStays ==
    ASSUME DiskInv, UNCHANGED <<live, wal, restore, moved, outcome>>,
           dir' = [n \in Disk!Names |-> dir'[n]], dir'["snapshot"] = dir["snapshot"]
    PROVE  DiskInv'
<1>1. DiskTyped'
  BY DEF DiskInv, DiskTyped
<1>2. Before' /\ AtWork'
  BY DEF DiskInv, Before, AtWork, Untouched, Saved, Around, Owed, Through, LogAside,
     InPlace, Disk!Here
<1>3. Disk!RestoreIsWhole'
  BY DEF DiskInv, Disk!RestoreIsWhole
<1> QED BY <1>1, <1>2, <1>3 DEF DiskInv, Untouched, Saved, InPlace, Disk!Here

LEMMA OthersSafe ==
    ASSUME DiskInv, \/ Disk!Toggle \/ \E n \in Disk!Names : Disk!DeleteBackup(n)
                    \/ \E c \in Creators : \/ Disk!BeginCreate(c) \/ Disk!Clear(c)
                                           \/ Disk!Copy(c) \/ Disk!Rename(c)
    PROVE  DiskInv'
<1>1. UNCHANGED <<live, wal, restore, moved, outcome>>
  BY DEF Disk!Toggle, Disk!DeleteBackup, Disk!BeginCreate, Disk!Clear, Disk!Copy, Disk!Rename
<1>2. \/ dir' = dir
      \/ \E n \in {"kept", "made"} : \E d : dir' = [dir EXCEPT ![n] = d]
  <2>1. CASE \/ Disk!Toggle
             \/ \E c \in Creators : Disk!BeginCreate(c) \/ Disk!Clear(c) \/ Disk!Copy(c)
    BY <2>1 DEF Disk!Toggle, Disk!BeginCreate, Disk!Clear, Disk!Copy
  <2>2. ASSUME NEW n \in Disk!Names, Disk!DeleteBackup(n)
        PROVE  \E m \in {"kept", "made"} : \E d : dir' = [dir EXCEPT ![m] = d]
    BY <2>2 DEF Disk!DeleteBackup
  <2>3. ASSUME NEW c \in Creators, Disk!Rename(c)
        PROVE  dir' = dir \/ dir' = [dir EXCEPT !["made"] = stage]
    BY <2>3 DEF Disk!Rename
  <2> QED BY <2>1, <2>2, <2>3
<1>3. dir' = [n \in Disk!Names |-> dir'[n]] /\ dir'["snapshot"] = dir["snapshot"]
  <2>1. dir = [n \in Disk!Names |-> dir[n]]
    BY DEF DiskInv, DiskTyped
  <2>2. CASE dir' = dir
    BY <2>1, <2>2
  <2>3. CASE dir' # dir
    <3>1. PICK n \in {"kept", "made"} : \E d : dir' = [dir EXCEPT ![n] = d]
      BY <1>2, <2>3
    <3>2. PICK d : dir' = [dir EXCEPT ![n] = d]
      BY <3>1
    <3> QED BY <2>1, <3>2 DEF Disk!Names
  <2> QED BY <2>2, <2>3
<1> QED BY <1>1, <1>3, DiskStays

\* Where no restore runs.
LEMMA IdleSafe ==
    ASSUME DiskTyped', restore'.at = "idle", Disk!RestoreIsWhole',
           Saved' \/ \A g \in Files : live'[g] = "old",
           ~Disk!Here(dir["snapshot"])' => Untouched' /\ moved'.failed = FALSE
    PROVE  DiskInv'
<1>1. Before' /\ AtWork'
  BY DEF Before, AtWork
<1> QED BY <1>1 DEF DiskInv

LEMMA DiskCrashSafe ==
    ASSUME DiskInv, Disk!Crash
    PROVE  DiskInv'
<1>1. UNCHANGED <<live, wal, dir, moved>> /\ DiskTyped
  BY DEF Disk!Crash, DiskInv
<1>2. CASE restore.at = "idle"
  <2>1. UNCHANGED <<restore, outcome>>
    BY <1>2 DEF Disk!Crash, Disk!At
  <2> QED BY <1>1, <2>1, DiskStays DEF DiskTyped
<1>3. CASE restore.at # "idle"
  <2>1. restore' = Disk!Waiting /\ outcome' = "crashed"
    BY <1>3 DEF Disk!Crash, Disk!At
  <2>2. restore' = [x \in RestoreFields |-> restore'[x]] /\ restore'.at = "idle"
        /\ restore'.staged = {}
    BY <2>1 DEF Disk!Waiting, RestoreFields
  <2>3. DiskTyped'
    BY <1>1, <2>2 DEF DiskTyped
  <2>4. Disk!RestoreIsWhole'
    BY <2>1 DEF Disk!RestoreIsWhole
  <2>5. /\ Saved' \/ \A g \in Files : live'[g] = "old"
        /\ ~Disk!Here(dir["snapshot"])' => Untouched' /\ moved'.failed = FALSE
    BY <1>1 DEF DiskInv, Saved, Untouched, InPlace, Disk!Here
  <2> QED BY <2>2, <2>3, <2>4, <2>5, IdleSafe
<1> QED BY <1>2, <1>3

\* A restore that ends before it has replaced a file.
LEMMA RefusedSafe ==
    ASSUME DiskInv, Disk!Refused, UNCHANGED <<live, wal, moved>>, Untouched,
           moved.failed = FALSE, DiskTyped'
    PROVE  DiskInv'
<1>1. restore'.at = "idle" /\ outcome' = "refused"
  BY GoesOn DEF Disk!Refused, DiskInv
<1>2. Disk!RestoreIsWhole'
  BY <1>1, FilesAreCounted DEF Disk!RestoreIsWhole, Untouched, InPlace
<1>3. Untouched' /\ moved'.failed = FALSE /\ \A g \in Files : live'[g] = "old"
  BY DEF Untouched, InPlace
<1> QED BY <1>1, <1>2, <1>3, IdleSafe

LEMMA StageSafe ==
    ASSUME DiskInv, Disk!Stage
    PROVE  DiskInv'
<1>1. /\ UNCHANGED <<live, wal, dir, moved>> /\ DiskTyped /\ ~Disk!Here(dir["snapshot"])
      /\ restore.at = "idle"
  BY DEF Disk!Stage, DiskInv, Disk!At
<1>2. Untouched /\ moved.failed = FALSE
  BY <1>1 DEF DiskInv
<1>3. CASE Disk!Refused
  <2>1. DiskTyped'
    BY <1>1, <1>3, GoesOn DEF DiskTyped, Disk!Refused
  <2> QED BY <1>1, <1>2, <1>3, <2>1, RefusedSafe
<1>4. CASE ~Disk!Refused
  <2> DEFINE staged == {f \in Files : dir["kept"][f] # Disk!None}
  <2>1. /\ restore' = [at |-> "owner", f |-> Disk!First, staged |-> staged]
        /\ outcome' = Disk!None
    BY <1>4 DEF Disk!Stage
  <2>2. staged \subseteq Files
    OBVIOUS
  <2> HIDE DEF staged
  <2>3. /\ restore' = [x \in RestoreFields |-> restore'[x]] /\ restore'.at = "owner"
        /\ restore'.f = 1 /\ restore'.staged \subseteq Files
    BY <2>1, <2>2, FilesAreCounted DEF RestoreFields
  <2>4. DiskTyped'
    BY <1>1, <2>3, FilesAreCounted DEF DiskTyped
  <2>5. Untouched' /\ ~Disk!Here(dir["snapshot"])' /\ moved'.failed = FALSE
    BY <1>1, <1>2 DEF Untouched, InPlace
  <2>6. Before' /\ AtWork'
    BY <2>3, <2>5 DEF Before, AtWork
  <2>7. Disk!RestoreIsWhole'
    BY <2>1 DEF Disk!RestoreIsWhole, Disk!None
  <2>8. \A g \in Files : live'[g] = "old"
    BY <2>5 DEF Untouched, InPlace
  <2> QED BY <2>1, <2>3, <2>4, <2>5, <2>6, <2>7, <2>8 DEF DiskInv
<1> QED BY <1>3, <1>4

LEMMA AskSafe ==
    ASSUME DiskInv, Disk!Ask
    PROVE  DiskInv'
<1>1. /\ UNCHANGED <<live, wal, dir, moved>> /\ DiskTyped /\ restore.at = "owner"
      /\ Untouched /\ moved.failed = FALSE /\ ~Disk!Here(dir["snapshot"])
  BY DEF Disk!Ask, DiskInv, Disk!At, Before
<1>2. CASE Disk!Refused
  <2>1. DiskTyped'
    BY <1>1, <1>2, GoesOn DEF DiskTyped, Disk!Refused
  <2> QED BY <1>1, <1>2, <2>1, RefusedSafe
<1>3. CASE Disk!Go("snapshot", Disk!First) /\ UNCHANGED outcome
  <2>1. /\ restore' = [x \in RestoreFields |-> restore'[x]] /\ restore'.at = "snapshot"
        /\ restore'.f = 1 /\ restore'.staged = restore.staged
    BY <1>1, <1>3, GoesOn, FilesAreCounted
  <2>2. DiskTyped'
    BY <1>1, <2>1, FilesAreCounted DEF DiskTyped
  <2>3. Untouched' /\ ~Disk!Here(dir["snapshot"])' /\ moved'.failed = FALSE
    BY <1>1 DEF Untouched, InPlace
  <2>4. \A g \in Files : ~(g < 1)
    BY FilesAreCounted
  <2>5. Before' /\ AtWork'
    BY <2>1, <2>3, <2>4 DEF Before, AtWork
  <2>6. outcome' = Disk!None
    BY <1>1, <1>3 DEF DiskInv
  <2>7. Disk!RestoreIsWhole'
    BY <2>6 DEF Disk!RestoreIsWhole, Disk!None
  <2>8. \A g \in Files : live'[g] = "old"
    BY <2>3 DEF Untouched, InPlace
  <2> QED BY <2>1, <2>2, <2>3, <2>5, <2>6, <2>7, <2>8 DEF DiskInv
<1> QED BY <1>2, <1>3 DEF Disk!Ask

LEMMA SnapshotSafe ==
    ASSUME DiskInv, Disk!Snapshot
    PROVE  DiskInv'
<1> DEFINE f == restore.f
           s == dir["snapshot"]
           w == Disk!Written(s, f)
<1>1. /\ UNCHANGED <<live, wal, moved>> /\ DiskTyped /\ restore.at = "snapshot"
      /\ Untouched /\ moved.failed = FALSE /\ f \in Files
      /\ \A g \in Files : g < f => s[g] = "old"
  BY DEF Disk!Snapshot, DiskInv, Disk!At, Before, DiskTyped
<1>2. s = [g \in Files |-> s[g]] /\ dir = [n \in Disk!Names |-> dir[n]]
  BY <1>1 DEF DiskTyped
<1>3. ASSUME NEW d, d = [g \in Files |-> d[g]], dir' = [dir EXCEPT !["snapshot"] = d]
      PROVE  dir' = [n \in Disk!Names |-> dir'[n]] /\ dir'["snapshot"] = d
  BY <1>2, <1>3 DEF Disk!Names
<1>4. CASE Disk!Refused
  <2> DEFINE d == IF Disk!Here(s) THEN s ELSE Disk!Empty
  <2>1. CASE dir' = [dir EXCEPT !["snapshot"] = d]
    <3>1. d = [g \in Files |-> d[g]]
      BY <1>2 DEF Disk!Empty
    <3> HIDE DEF d
    <3>2. dir' = [n \in Disk!Names |-> dir'[n]] /\ dir'["snapshot"] = d
      BY <1>3, <2>1, <3>1
    <3>3. DiskTyped'
      BY <1>1, <1>4, <3>1, <3>2, GoesOn DEF DiskTyped, Disk!Refused
    <3> QED BY <1>1, <1>4, <3>3, RefusedSafe
  <2>2. CASE dir' # [dir EXCEPT !["snapshot"] = d]
    <3>1. outcome' = outcome
      BY <2>2, <1>2 DEF Disk!Snapshot
    <3>2. outcome' = "refused" /\ outcome = Disk!None
      BY <1>1, <1>4 DEF Disk!Refused, DiskInv
    <3> QED BY <3>1, <3>2 DEF Disk!None
  <2> QED BY <2>1, <2>2
<1>5. CASE ~Disk!Refused
  <2>1. /\ dir' = [dir EXCEPT !["snapshot"] = w] /\ UNCHANGED outcome
        /\ IF f = Disk!Last THEN Disk!Go("moving", Disk!First)
                            ELSE Disk!Go("snapshot", f + 1)
    BY <1>5, <1>2 DEF Disk!Snapshot, Disk!Unsaved
  <2>2. live[f] = "old"
    BY <1>1 DEF Untouched, InPlace
  <2>3. w = [g \in Files |-> w[g]] /\ w[f] = "old"
    BY <1>1, <1>2, <2>2 DEF Disk!Written, Disk!Empty
  <2>4. ASSUME NEW g \in Files, g < f
        PROVE  w[g] = "old"
    <3>1. s[g] = "old"
      BY <1>1, <2>4
    <3>2. Disk!Here(s)
      BY <3>1 DEF Disk!Here, Disk!Absent
    <3>3. g # f
      BY <1>1, <2>4, FilesAreCounted
    <3> QED BY <1>2, <3>1, <3>2, <3>3 DEF Disk!Written
  <2> HIDE DEF w
  <2>5. dir' = [n \in Disk!Names |-> dir'[n]] /\ dir'["snapshot"] = w
    BY <1>3, <2>1, <2>3
  <2>6. Disk!Here(dir["snapshot"])'
    <3>1. Disk!Absent[f] = "absent"
      BY <1>1 DEF Disk!Absent
    <3>2. dir'["snapshot"] # Disk!Absent
      BY <2>3, <2>5, <3>1
    <3> QED BY <3>2 DEF Disk!Here, Disk!Absent
  <2>7. Untouched' /\ moved'.failed = FALSE /\ \A g \in Files : live'[g] = "old"
    BY <1>1 DEF Untouched, InPlace
  <2>8. outcome' = Disk!None
    BY <1>1, <2>1 DEF DiskInv
  <2>9. Disk!RestoreIsWhole'
    BY <2>8 DEF Disk!RestoreIsWhole, Disk!None
  <2>10. CASE f = Disk!Last
    <3>1. /\ restore' = [x \in RestoreFields |-> restore'[x]] /\ restore'.at = "moving"
          /\ restore'.f = 1 /\ restore'.staged = restore.staged
      BY <1>1, <2>1, <2>10, GoesOn, FilesAreCounted
    <3>2. DiskTyped'
      BY <1>1, <2>3, <2>5, <3>1, FilesAreCounted DEF DiskTyped
    <3>3. Saved'
      <4>1. ASSUME NEW g \in Files
            PROVE  w[g] = "old"
        <5>1. g < f \/ g = f
          BY <2>10, FilesAreCounted
        <5> QED BY <2>3, <2>4, <5>1
      <4> QED BY <2>5, <4>1 DEF Saved
    <3>4. \A g \in Files : ~(g < 1)
      BY FilesAreCounted
    <3>5. AtWork' /\ Before'
      BY <2>7, <3>1, <3>3, <3>4, FilesAreCounted DEF AtWork, Before, Around, Untouched
    <3> QED BY <2>6, <2>7, <2>8, <2>9, <3>1, <3>2, <3>3, <3>5 DEF DiskInv
  <2>11. CASE f # Disk!Last
    <3>1. /\ restore' = [x \in RestoreFields |-> restore'[x]] /\ restore'.at = "snapshot"
          /\ restore'.f = f + 1 /\ restore'.staged = restore.staged
      BY <1>1, <2>1, <2>11, GoesOn
    <3>2. DiskTyped'
      BY <1>1, <2>3, <2>5, <2>11, <3>1, FilesAreCounted DEF DiskTyped
    <3>3. ASSUME NEW g \in Files, g < f + 1
          PROVE  w[g] = "old"
      <4>1. g < f \/ g = f
        BY <1>1, <3>3, FilesAreCounted
      <4> QED BY <2>3, <2>4, <4>1
    <3> HIDE DEF f
    <3>4. AtWork' /\ Before'
      BY <2>5, <2>7, <3>1, <3>3 DEF AtWork, Before
    <3> QED BY <2>6, <2>7, <2>8, <2>9, <3>1, <3>2, <3>4 DEF DiskInv
  <2> QED BY <2>10, <2>11
<1> QED BY <1>4, <1>5

\* At work nothing has an outcome, and the snapshot is there.
LEMMA WorkSafe ==
    ASSUME DiskInv, restore.at \in {"moving", "log", "install", "undoing", "logs"},
           UNCHANGED <<dir, outcome>>, DiskTyped', AtWork',
           restore'.at \in {"moving", "log", "install", "done", "undoing", "logs",
                            "undone"}
    PROVE  DiskInv'
<1>1. outcome = Disk!None /\ Saved /\ Disk!Here(dir["snapshot"])
  BY DEF DiskInv, AtWork
<1>2. Disk!RestoreIsWhole'
  BY <1>1 DEF Disk!RestoreIsWhole, Disk!None
<1>3. Saved' /\ Disk!Here(dir["snapshot"])'
  BY <1>1 DEF Saved, Disk!Here, Disk!Absent
<1>4. Before'
  BY DEF Before
<1> QED BY <1>1, <1>2, <1>3, <1>4 DEF DiskInv

\* What is moved or in place is owed at most up to the file at work.
LEMMA RaiseSafe ==
    ASSUME DiskInv, restore.at \in {"moving", "log", "install"}, Disk!Raise,
           UNCHANGED <<live, wal, dir, moved, outcome>>
    PROVE  DiskInv'
<1> DEFINE f == restore.f
<1>1. DiskTyped /\ f \in Files /\ Saved
  BY DEF DiskInv, DiskTyped, AtWork
<1>2. /\ restore' = [x \in RestoreFields |-> restore'[x]] /\ restore'.at = "undoing"
      /\ restore'.f = f /\ restore'.staged = restore.staged
  BY <1>1, GoesOn DEF Disk!Raise
<1>3. DiskTyped'
  BY <1>1, <1>2 DEF DiskTyped
<1>4. ASSUME NEW g \in Files
      PROVE  /\ \/ live[g] = "old" /\ moved.files[g] = Disk!None
                \/ moved.files[g] = "old" /\ g \in restore.staged /\ g <= f
             /\ g \in Dbs => \/ wal[g] = "old" /\ moved.logs[g] = Disk!None
                             \/ wal[g] = Disk!None /\ moved.logs[g] = "old"
  <2>1. CASE g < f
    <3>1. Through(g)
      BY <2>1 DEF DiskInv, AtWork, Around
    <3>2. g <= f
      BY <1>1, <2>1, FilesAreCounted
    <3> QED BY <3>1, <3>2 DEF Through, InPlace, LogAside
  <2>2. CASE g > f
    <3>1. InPlace(g)
      BY <2>2 DEF DiskInv, AtWork, Around
    <3> QED BY <3>1 DEF InPlace
  <2>3. CASE g = f
    <3>1. g <= f
      BY <1>1, <2>3, FilesAreCounted
    <3> QED BY <2>3, <3>1 DEF DiskInv, AtWork, InPlace, LogAside
  <2>4. g < f \/ g > f \/ g = f
    BY <1>1, FilesAreCounted
  <2> QED BY <2>1, <2>2, <2>3, <2>4
<1>5. Owed(f)
  BY <1>4, FilesAreCounted DEF Owed
<1>6. Owed(restore.f)' /\ Saved'
  BY <1>1, <1>2, <1>5 DEF Owed, Saved
<1>7. AtWork'
  BY <1>2, <1>6 DEF AtWork
<1> QED BY <1>2, <1>3, <1>7, WorkSafe

\* A file is through: the next one, or the end.
LEMMA NextFile ==
    ASSUME DiskInv, restore.at \in {"moving", "install"}, UNCHANGED <<wal, dir, outcome>>,
           live' = [g \in Files |-> live'[g]], UNCHANGED moved,
           \A g \in Files : g # restore.f => live'[g] = live[g],
           IF restore.f \in restore.staged
           THEN live'[restore.f] = "new" /\ moved.files[restore.f] = "old" /\ LogAside(restore.f)
           ELSE UNCHANGED live /\ InPlace(restore.f),
           IF restore.f = Disk!Last THEN Disk!Go("done", Disk!Last)
                                    ELSE Disk!Go("moving", restore.f + 1)
    PROVE  DiskInv'
<1> DEFINE f == restore.f
<1>1. DiskTyped /\ f \in Files /\ Saved /\ moved.failed = FALSE /\ Around(f)
  BY DEF DiskInv, DiskTyped, AtWork
<1>2. /\ restore' = [x \in RestoreFields |-> restore'[x]] /\ restore'.staged = restore.staged
      /\ IF f = Disk!Last THEN restore'.at = "done" /\ restore'.f = Disk!Last
                          ELSE restore'.at = "moving" /\ restore'.f = f + 1
  BY <1>1, GoesOn
<1>3. restore'.f \in Files
  BY <1>1, <1>2, FilesAreCounted
<1>4. DiskTyped'
  BY <1>1, <1>2, <1>3 DEF DiskTyped
<1>5. ASSUME NEW g \in Files, g < f \/ g = f
      PROVE  Through(g)'
  <2>1. CASE g = f
    BY <1>2, <2>1 DEF Through, InPlace, LogAside
  <2>2. CASE g < f
    <3>1. Through(g) /\ live'[g] = live[g]
      BY <1>1, <2>2, FilesAreCounted DEF Around
    <3> QED BY <1>2, <3>1 DEF Through, InPlace, LogAside
  <2> QED BY <1>5, <2>1, <2>2
<1>6. ASSUME NEW g \in Files, g > f
      PROVE  InPlace(g)'
  <2>1. InPlace(g) /\ live'[g] = live[g]
    BY <1>1, <1>6, FilesAreCounted DEF Around
  <2> QED BY <2>1 DEF InPlace
<1>7. Saved' /\ moved'.failed = FALSE
  BY <1>1 DEF Saved
<1>8. CASE f = Disk!Last
  <2>1. \A g \in Files : g < f \/ g = f
    BY <1>8, FilesAreCounted
  <2>2. \A g \in Files : Through(g)'
    BY <1>5, <2>1
  <2>3. AtWork'
    BY <1>2, <1>7, <1>8, <2>2 DEF AtWork
  <2> QED BY <1>2, <1>4, <1>8, <2>3, WorkSafe
<1>9. CASE f # Disk!Last
  <2>1. /\ \A g \in Files : g < f + 1 => g < f \/ g = f
        /\ \A g \in Files : g > f + 1 => g > f
        /\ f + 1 > f /\ f + 1 \in Files
    BY <1>1, <1>9, FilesAreCounted
  <2>2. restore'.at = "moving" /\ restore'.f = f + 1
    BY <1>2, <1>9
  <2> HIDE DEF f
  <2>3. Around(restore.f)' /\ InPlace(restore.f)'
    BY <1>5, <1>6, <2>1, <2>2 DEF Around
  <2>4. AtWork'
    BY <1>7, <2>2, <2>3 DEF AtWork
  <2> QED BY <1>4, <2>2, <2>4, WorkSafe
<1> QED BY <1>8, <1>9

LEMMA MoveOriginalSafe ==
    ASSUME DiskInv, Disk!MoveOriginal
    PROVE  DiskInv'
<1> DEFINE f == restore.f
<1>1. /\ DiskTyped /\ f \in Files /\ restore.at = "moving" /\ Around(f) /\ InPlace(f)
      /\ Saved /\ moved.failed = FALSE /\ UNCHANGED <<wal, dir, outcome>>
  BY DEF DiskInv, DiskTyped, AtWork, Disk!MoveOriginal, Disk!At
<1>2. CASE f \notin restore.staged
  <2>1. /\ UNCHANGED <<live, moved>>
        /\ IF f = Disk!Last THEN Disk!Go("done", Disk!Last) ELSE Disk!Go("moving", f + 1)
    BY <1>2 DEF Disk!MoveOriginal
  <2> QED BY <1>1, <1>2, <2>1, NextFile DEF DiskTyped
<1>3. CASE Disk!Raise /\ UNCHANGED <<live, moved>>
  BY <1>1, <1>3, RaiseSafe
<1>4. CASE /\ f \in restore.staged
           /\ moved' = [moved EXCEPT !.files[f] = live[f]]
           /\ live' = [live EXCEPT ![f] = Disk!None]
           /\ Disk!Go(IF f \in Dbs THEN "log" ELSE "install", f)
  <2> DEFINE files == [moved.files EXCEPT ![f] = live[f]]
  <2>1. /\ live' = [g \in Files |-> live'[g]] /\ live'[f] = Disk!None
        /\ \A g \in Files : g # f => live'[g] = live[g]
    BY <1>1, <1>4 DEF DiskTyped
  <2>2. /\ files = [g \in Files |-> files[g]] /\ files[f] = "old"
        /\ \A g \in Files : g # f => files[g] = moved.files[g]
    BY <1>1 DEF DiskTyped, InPlace
  <2>3. moved' = [moved EXCEPT !.files = files]
    BY <1>4
  <2> HIDE DEF files
  <2>4. /\ moved' = [x \in MovedFields |-> moved'[x]] /\ moved'.files = files
        /\ moved'.logs = moved.logs /\ moved'.failed = moved.failed
    BY <1>1, <2>3 DEF DiskTyped, MovedFields
  <2>5. /\ restore' = [x \in RestoreFields |-> restore'[x]] /\ restore'.f = f
        /\ restore'.at = (IF f \in Dbs THEN "log" ELSE "install")
        /\ restore'.staged = restore.staged
    BY <1>1, <1>4, GoesOn
  <2>6. DiskTyped'
    BY <1>1, <2>1, <2>2, <2>4, <2>5 DEF DiskTyped
  <2>7. ASSUME NEW g \in Files, g < f
        PROVE  Through(g)'
    <3>1. Through(g) /\ g # f
      BY <1>1, <2>7, FilesAreCounted DEF Around
    <3> QED BY <1>1, <2>1, <2>2, <2>4, <2>5, <3>1 DEF Through, InPlace, LogAside
  <2>8. ASSUME NEW g \in Files, g > f
        PROVE  InPlace(g)'
    <3>1. InPlace(g) /\ g # f
      BY <1>1, <2>8, FilesAreCounted DEF Around
    <3> QED BY <1>1, <2>1, <2>2, <2>4, <2>5, <3>1 DEF InPlace
  <2>9. Around(restore.f)'
    BY <2>5, <2>7, <2>8 DEF Around
  <2>10. Saved' /\ moved'.failed = FALSE
    BY <1>1, <2>4 DEF Saved
  <2>11. CASE f \in Dbs
    <3>1. wal'[f] = "old" /\ moved'.logs[f] = Disk!None
      BY <1>1, <2>4, <2>11 DEF InPlace
    <3>2. AtWork'
      BY <1>4, <2>1, <2>2, <2>4, <2>5, <2>9, <2>10, <2>11, <3>1 DEF AtWork
    <3> QED BY <1>1, <2>5, <2>6, <2>11, <3>2, WorkSafe
  <2>12. CASE f \notin Dbs
    <3>1. LogAside(restore.f)'
      BY <2>5, <2>12 DEF LogAside
    <3>2. AtWork'
      BY <1>4, <2>1, <2>2, <2>4, <2>5, <2>9, <2>10, <2>12, <3>1 DEF AtWork
    <3> QED BY <1>1, <2>5, <2>6, <2>12, <3>2, WorkSafe
  <2> QED BY <2>11, <2>12
<1> QED BY <1>2, <1>3, <1>4 DEF Disk!MoveOriginal

LEMMA MoveLogSafe ==
    ASSUME DiskInv, Disk!MoveLog
    PROVE  DiskInv'
<1> DEFINE f == restore.f
<1>1. /\ DiskTyped /\ f \in restore.staged \cap Dbs /\ f \in Files /\ restore.at = "log"
      /\ Around(f) /\ Saved /\ moved.failed = FALSE /\ UNCHANGED <<live, dir, outcome>>
      /\ live[f] = Disk!None /\ moved.files[f] = "old" /\ wal[f] = "old"
  BY DEF DiskInv, DiskTyped, AtWork, Disk!MoveLog, Disk!At
<1>2. CASE Disk!Raise /\ UNCHANGED <<wal, moved>>
  BY <1>1, <1>2, RaiseSafe
<1>3. CASE /\ moved' = [moved EXCEPT !.logs[f] = wal[f]]
           /\ wal' = [wal EXCEPT ![f] = Disk!None]
           /\ Disk!Go("install", f)
  <2> DEFINE logs == [moved.logs EXCEPT ![f] = wal[f]]
  <2>1. /\ wal' = [g \in Dbs |-> wal'[g]] /\ wal'[f] = Disk!None
        /\ \A g \in Dbs : g # f => wal'[g] = wal[g]
    BY <1>1, <1>3 DEF DiskTyped
  <2>2. /\ logs = [g \in Dbs |-> logs[g]] /\ logs[f] = "old"
        /\ \A g \in Dbs : g # f => logs[g] = moved.logs[g]
    BY <1>1 DEF DiskTyped
  <2>3. moved' = [moved EXCEPT !.logs = logs]
    BY <1>3
  <2> HIDE DEF logs
  <2>4. /\ moved' = [x \in MovedFields |-> moved'[x]] /\ moved'.logs = logs
        /\ moved'.files = moved.files /\ moved'.failed = moved.failed
    BY <1>1, <2>3 DEF DiskTyped, MovedFields
  <2>5. /\ restore' = [x \in RestoreFields |-> restore'[x]] /\ restore'.f = f
        /\ restore'.at = "install" /\ restore'.staged = restore.staged
    BY <1>1, <1>3, GoesOn
  <2>6. DiskTyped'
    BY <1>1, <2>1, <2>2, <2>4, <2>5 DEF DiskTyped
  <2>7. ASSUME NEW g \in Files, g < f
        PROVE  Through(g)'
    <3>1. Through(g) /\ g # f
      BY <1>1, <2>7, FilesAreCounted DEF Around
    <3> QED BY <1>1, <2>1, <2>2, <2>4, <2>5, <3>1 DEF Through, InPlace, LogAside
  <2>8. ASSUME NEW g \in Files, g > f
        PROVE  InPlace(g)'
    <3>1. InPlace(g) /\ g # f
      BY <1>1, <2>8, FilesAreCounted DEF Around
    <3> QED BY <1>1, <2>1, <2>2, <2>4, <2>5, <3>1 DEF InPlace
  <2>9. Around(restore.f)'
    BY <2>5, <2>7, <2>8 DEF Around
  <2>10. Saved' /\ moved'.failed = FALSE
    BY <1>1, <2>4 DEF Saved
  <2>11. LogAside(restore.f)'
    BY <2>1, <2>2, <2>4, <2>5 DEF LogAside
  <2>12. AtWork'
    BY <1>1, <2>4, <2>5, <2>9, <2>10, <2>11 DEF AtWork
  <2> QED BY <1>1, <2>5, <2>6, <2>12, WorkSafe
<1> QED BY <1>2, <1>3 DEF Disk!MoveLog

LEMMA InstallSafe ==
    ASSUME DiskInv, Disk!Install
    PROVE  DiskInv'
<1> DEFINE f == restore.f
<1>1. /\ DiskTyped /\ f \in restore.staged /\ f \in Files /\ restore.at = "install"
      /\ UNCHANGED <<wal, dir, moved, outcome>> /\ moved.files[f] = "old" /\ LogAside(f)
  BY DEF DiskInv, DiskTyped, AtWork, Disk!Install, Disk!At
<1>2. CASE Disk!Raise /\ UNCHANGED live
  BY <1>1, <1>2, RaiseSafe
<1>3. CASE /\ live' = [live EXCEPT ![f] = "new"]
           /\ IF f = Disk!Last THEN Disk!Go("done", Disk!Last) ELSE Disk!Go("moving", f + 1)
  <2>1. /\ live' = [g \in Files |-> live'[g]] /\ live'[f] = "new"
        /\ \A g \in Files : g # f => live'[g] = live[g]
    BY <1>1, <1>3 DEF DiskTyped
  <2> QED BY <1>1, <1>3, <2>1, NextFile
<1> QED BY <1>2, <1>3 DEF Disk!Install

\* One file is put back, or the rollback is incomplete.
LEMMA UndoSafe ==
    ASSUME DiskInv, Disk!Undo
    PROVE  DiskInv'
<1> DEFINE f == restore.f
           nf == IF f = Disk!First THEN 0 ELSE f - 1
<1>1. /\ DiskTyped /\ f \in Files /\ restore.at = "undoing" /\ Saved /\ Owed(f)
      /\ UNCHANGED <<wal, dir, outcome>>
  BY DEF DiskInv, DiskTyped, AtWork, Disk!Undo, Disk!At
<1>2. /\ restore' = [x \in RestoreFields |-> restore'[x]]
      /\ restore'.staged = restore.staged
      /\ IF f = Disk!First THEN restore'.at = "logs" /\ restore'.f = Disk!First
                           ELSE restore'.at = "undoing" /\ restore'.f = f - 1
  <2>1. IF f = Disk!First THEN Disk!Go("logs", Disk!First) ELSE Disk!Go("undoing", f - 1)
    BY DEF Disk!Undo
  <2> QED BY <1>1, <2>1, GoesOn
<1>3. restore'.f \in Files
  BY <1>1, <1>2, FilesAreCounted
<1>4. /\ live' = [g \in Files |-> live'[g]] /\ moved' = [x \in MovedFields |-> moved'[x]]
      /\ moved'.files = [g \in Files |-> moved'.files[g]] /\ moved'.logs = moved.logs
      /\ moved'.failed \in BOOLEAN
      /\ moved.failed = TRUE => moved'.failed = TRUE
      /\ \A g \in Files : g # f => live'[g] = live[g] /\ moved'.files[g] = moved.files[g]
      /\ \/ live'[f] = "old" /\ moved'.files[f] = Disk!None
         \/ /\ moved'.failed = TRUE /\ moved'.files[f] = moved.files[f]
            /\ f \in restore.staged /\ moved.files[f] = "old"
  <2>1. CASE UNCHANGED <<live, moved>> /\ moved.files[f] = Disk!None
    BY <1>1, <2>1 DEF DiskTyped, Owed, Disk!None
  <2>2. CASE UNCHANGED <<live, moved>> /\ ~Disk!Touched(f)
    BY <1>1, <2>2, FilesAreCounted DEF DiskTyped, Owed, Disk!None, Disk!Touched
  <2>3. CASE moved' = [moved EXCEPT !.failed = TRUE] /\ UNCHANGED live
    <3>1. /\ moved' = [x \in MovedFields |-> moved'[x]] /\ moved'.files = moved.files
          /\ moved'.logs = moved.logs /\ moved'.failed = TRUE
      BY <1>1, <2>3 DEF DiskTyped, MovedFields
    <3>2. \/ live[f] = "old" /\ moved.files[f] = Disk!None
          \/ moved.files[f] = "old" /\ f \in restore.staged
      BY <1>1 DEF Owed
    <3>3. live = [g \in Files |-> live[g]] /\ moved.files = [g \in Files |-> moved.files[g]]
      BY <1>1 DEF DiskTyped
    <3> QED BY <2>3, <3>1, <3>2, <3>3
  <2>4. CASE /\ moved.files[f] # Disk!None
             /\ live' = [live EXCEPT ![f] = moved.files[f]]
             /\ moved' = [moved EXCEPT !.files[f] = Disk!None]
    <3> DEFINE files == [moved.files EXCEPT ![f] = Disk!None]
    <3>1. /\ files = [g \in Files |-> files[g]] /\ files[f] = Disk!None
          /\ \A g \in Files : g # f => files[g] = moved.files[g]
      BY <1>1 DEF DiskTyped
    <3>2. moved' = [moved EXCEPT !.files = files]
      BY <2>4
    <3> HIDE DEF files
    <3>3. /\ moved' = [x \in MovedFields |-> moved'[x]] /\ moved'.files = files
          /\ moved'.logs = moved.logs /\ moved'.failed = moved.failed
      BY <1>1, <3>2 DEF DiskTyped, MovedFields
    <3>4. moved.files[f] = "old"
      BY <1>1, <2>4 DEF Owed
    <3>5. /\ live' = [g \in Files |-> live'[g]] /\ live'[f] = "old"
          /\ \A g \in Files : g # f => live'[g] = live[g]
      BY <1>1, <2>4, <3>4 DEF DiskTyped
    <3> QED BY <1>1, <3>1, <3>3, <3>5 DEF DiskTyped
  <2> QED BY <2>1, <2>2, <2>3, <2>4 DEF Disk!Undo
<1>5. DiskTyped'
  BY <1>1, <1>2, <1>3, <1>4 DEF DiskTyped
<1>6. ASSUME NEW g \in Files
      PROVE  \/ live'[g] = "old" /\ moved'.files[g] = Disk!None
             \/ /\ moved'.files[g] = "old" /\ g \in restore.staged
                /\ g <= nf \/ moved'.failed = TRUE
  <2>1. CASE g = f
    BY <1>4, <2>1
  <2>2. CASE g # f
    <3>1. live'[g] = live[g] /\ moved'.files[g] = moved.files[g]
      BY <1>4, <2>2
    <3>2. \/ live[g] = "old" /\ moved.files[g] = Disk!None
          \/ /\ moved.files[g] = "old" /\ g \in restore.staged
             /\ g <= f \/ moved.failed = TRUE
      BY <1>1 DEF Owed
    <3>3. g <= f => g <= nf
      BY <1>1, <2>2, FilesAreCounted
    <3> QED BY <1>4, <3>1, <3>2, <3>3
  <2> QED BY <2>1, <2>2
<1>7. PICK m : m = nf
  OBVIOUS
<1>8. Owed(m)'
  <2>1. \A g \in Dbs : \/ wal'[g] = "old" /\ moved'.logs[g] = Disk!None
                       \/ wal'[g] = Disk!None /\ moved'.logs[g] = "old"
    BY <1>1, <1>4 DEF Owed
  <2>2. \A g \in Files :
          \/ live'[g] = "old" /\ moved'.files[g] = Disk!None
          \/ /\ moved'.files[g] = "old" /\ g \in restore.staged
             /\ g <= m \/ moved'.failed = TRUE
    BY <1>6, <1>7
  <2> QED BY <1>2, <2>1, <2>2 DEF Owed
<1>9. AtWork'
  <2>1. CASE f = Disk!First
    <3>1. m = 0 /\ restore'.at = "logs"
      BY <1>2, <1>7, <2>1
    <3>2. Owed(0)'
      BY <1>8, <3>1
    <3> QED BY <1>1, <3>1, <3>2 DEF AtWork, Saved
  <2>2. CASE f # Disk!First
    <3>1. m = restore'.f /\ restore'.at = "undoing"
      BY <1>2, <1>7, <2>2
    <3>2. Owed(restore.f)'
      BY <1>8, <3>1 DEF Owed
    <3> QED BY <1>1, <3>1, <3>2 DEF AtWork, Saved
  <2> QED BY <2>1, <2>2
<1> QED BY <1>1, <1>2, <1>5, <1>9, WorkSafe

LEMMA UndoLogsSafe ==
    ASSUME DiskInv, Disk!UndoLogs
    PROVE  DiskInv'
<1>1. /\ DiskTyped /\ restore.at = "logs" /\ Saved /\ Owed(0)
      /\ UNCHANGED <<live, dir, outcome>>
  BY DEF DiskInv, AtWork, Disk!UndoLogs, Disk!At
<1>2. /\ restore' = [x \in RestoreFields |-> restore'[x]] /\ restore'.at = "undone"
      /\ restore'.f \in Files /\ restore'.staged = restore.staged
  BY <1>1, GoesOn, FilesAreCounted DEF Disk!UndoLogs
<1>3. CASE moved' = [moved EXCEPT !.failed = TRUE] /\ UNCHANGED wal
  <2>1. /\ moved' = [x \in MovedFields |-> moved'[x]] /\ moved'.files = moved.files
        /\ moved'.logs = moved.logs /\ moved'.failed = TRUE
    BY <1>1, <1>3 DEF DiskTyped, MovedFields
  <2>2. DiskTyped'
    BY <1>1, <1>2, <1>3, <2>1 DEF DiskTyped
  <2>3. AtWork'
    BY <1>1, <1>2, <2>1 DEF AtWork, Saved
  <2> QED BY <1>1, <1>2, <2>2, <2>3, WorkSafe
<1>4. CASE /\ wal' = Disk!LogsBack
           /\ moved' = [moved EXCEPT !.logs = [f \in Dbs |-> Disk!None]]
  <2> DEFINE logs == [f \in Dbs |-> Disk!None]
  <2>1. logs = [f \in Dbs |-> logs[f]] /\ \A g \in Dbs : logs[g] = Disk!None
    OBVIOUS
  <2> HIDE DEF logs
  <2>2. /\ moved' = [x \in MovedFields |-> moved'[x]] /\ moved'.files = moved.files
        /\ moved'.logs = logs /\ moved'.failed = moved.failed
    BY <1>1, <1>4 DEF DiskTyped, MovedFields, logs
  <2>3. wal' = [g \in Dbs |-> wal'[g]] /\ \A g \in Dbs : wal'[g] = "old"
    BY <1>1, <1>4 DEF Disk!LogsBack, Owed, Disk!None
  <2>4. DiskTyped'
    BY <1>1, <1>2, <2>1, <2>2, <2>3 DEF DiskTyped
  <2>5. ASSUME moved.failed # TRUE, NEW g \in Files
        PROVE  InPlace(g)'
    <3>1. ~(g <= 0)
      BY FilesAreCounted
    <3>2. live[g] = "old" /\ moved.files[g] = Disk!None
      BY <1>1, <2>5, <3>1 DEF Owed
    <3> QED BY <1>1, <2>1, <2>2, <2>3, <3>2 DEF InPlace
  <2>6. AtWork'
    BY <1>1, <1>2, <2>2, <2>5 DEF AtWork, Saved, Untouched
  <2> QED BY <1>1, <1>2, <2>4, <2>6, WorkSafe
<1> QED BY <1>3, <1>4 DEF Disk!UndoLogs

LEMMA FinishSafe ==
    ASSUME DiskInv, Disk!Finish
    PROVE  DiskInv'
<1>1. /\ DiskTyped /\ restore.at \in {"done", "undone"} /\ Saved
      /\ UNCHANGED <<live, wal, dir>>
  BY DEF DiskInv, AtWork, Disk!Finish, Disk!At
<1>2. /\ restore' = [x \in RestoreFields |-> restore'[x]] /\ restore'.at = "idle"
      /\ restore'.staged = restore.staged
  BY <1>1, GoesOn DEF Disk!Finish
<1>3. /\ Disk!Nowhere = [x \in MovedFields |-> Disk!Nowhere[x]]
      /\ Disk!Nowhere.files = [g \in Files |-> Disk!Nowhere.files[g]]
      /\ Disk!Nowhere.logs = [g \in Dbs |-> Disk!Nowhere.logs[g]]
      /\ Disk!Nowhere.failed \in BOOLEAN
  BY DEF Disk!Nowhere, Disk!Empty, MovedFields
<1>4. moved' = moved \/ moved' = Disk!Nowhere
  BY DEF Disk!Finish
<1>5. DiskTyped'
  BY <1>1, <1>2, <1>3, <1>4 DEF DiskTyped
<1>6. Saved' /\ Disk!Here(dir["snapshot"])'
  BY <1>1, FilesAreCounted DEF Saved, Disk!Here, Disk!Absent
<1>7. Disk!RestoreIsWhole'
  <2>1. CASE moved.failed = TRUE
    BY <2>1 DEF Disk!Finish, Disk!RestoreIsWhole
  <2>2. CASE moved.failed = FALSE /\ restore.at = "done"
    <3>1. outcome' = "done"
      BY <2>2 DEF Disk!Finish
    <3>2. \A g \in Files : Through(g)
      BY <2>2 DEF DiskInv, AtWork
    <3>3. \A g \in Files : live'[g] = IF g \in restore'.staged THEN "new" ELSE "old"
      BY <1>1, <1>2, <3>2 DEF Through, InPlace
    <3>4. \A g \in Dbs : live'[g] = "new" => wal'[g] = Disk!None
      BY <1>1, <3>2, FilesAreCounted DEF Through, InPlace, LogAside
    <3> QED BY <3>1, <3>3, <3>4 DEF Disk!RestoreIsWhole
  <2>3. CASE moved.failed = FALSE /\ restore.at = "undone"
    <3>1. outcome' = "undone"
      BY <2>3 DEF Disk!Finish
    <3>2. \A g \in Files : InPlace(g)
      BY <2>3 DEF DiskInv, AtWork, Untouched
    <3>3. /\ \A g \in Files : live'[g] = "old"
          /\ \A g \in Dbs : wal'[g] = "old"
      BY <1>1, <3>2, FilesAreCounted DEF InPlace
    <3> QED BY <3>1, <3>3 DEF Disk!RestoreIsWhole
  <2> QED BY <1>1, <2>1, <2>2, <2>3 DEF DiskTyped
<1> QED BY <1>2, <1>5, <1>6, <1>7, IdleSafe

LEMMA DiskStep == DiskInv /\ Disk!Next => DiskInv'
BY OthersSafe, DiskCrashSafe, StageSafe, AskSafe, SnapshotSafe, MoveOriginalSafe,
   MoveLogSafe, InstallSafe, UndoSafe, UndoLogsSafe, FinishSafe
   DEF Disk!Next, Disk!Restoring

LEMMA DiskStay == DiskInv /\ UNCHANGED diskVars => DiskInv'
<1> SUFFICES ASSUME DiskInv, UNCHANGED diskVars PROVE DiskInv'
  OBVIOUS
<1>1. UNCHANGED <<live, wal, restore, moved, outcome, dir>>
  BY DEF diskVars
<1> QED BY <1>1, DiskStays DEF DiskInv, DiskTyped

LEMMA DiskStart == Disk!Init => DiskInv
<1> SUFFICES ASSUME Disk!Init PROVE DiskInv
  OBVIOUS
<1>1. /\ live = [g \in Files |-> "old"] /\ wal = [g \in Dbs |-> "old"]
      /\ restore = Disk!Waiting /\ moved = Disk!Nowhere /\ outcome = Disk!None
  BY DEF Disk!Init
<1>2. dir = [n \in Disk!Names |-> dir[n]] /\ dir["snapshot"] = Disk!Absent
  <2>1. PICK some : dir = [n \in Disk!Names |->
                      IF n = "kept" THEN [g \in Files |-> IF g \in some THEN "new" ELSE Disk!None]
                                    ELSE Disk!Absent]
    BY DEF Disk!Init
  <2> QED BY <2>1 DEF Disk!Names
<1>3. /\ restore = [x \in RestoreFields |-> restore[x]] /\ restore.at = "idle"
      /\ restore.staged = {}
  BY <1>1 DEF Disk!Waiting, RestoreFields
<1>4. /\ moved = [x \in MovedFields |-> moved[x]] /\ moved.failed = FALSE
      /\ moved.files = [g \in Files |-> Disk!None] /\ moved.logs = [g \in Dbs |-> Disk!None]
  BY <1>1 DEF Disk!Nowhere, Disk!Empty, MovedFields
<1>5. DiskTyped
  BY <1>1, <1>2, <1>3, <1>4 DEF DiskTyped, Disk!Absent
<1>6. Untouched
  BY <1>1, <1>4 DEF Untouched, InPlace
<1>7. Before /\ AtWork
  BY <1>3 DEF Before, AtWork
<1>8. Disk!RestoreIsWhole
  BY <1>1 DEF Disk!RestoreIsWhole, Disk!None
<1> QED BY <1>1, <1>3, <1>4, <1>5, <1>6, <1>7, <1>8 DEF DiskInv

LEMMA WholeIsSafe == DiskInv => RestoreIsSafe
BY DEF DiskInv, RestoreIsSafe, Disk!NothingIsLost, Saved

-----------------------------------------------------------------------------
(***************************************************************************)
(* The parts together.                                                     *)
(***************************************************************************)
MemoryInv == JobsInv /\ VectorsInv /\ ArchiveInv /\ DiskInv

LEMMA MemoryStep == MemoryInv /\ [Next]_vars => MemoryInv'
<1> SUFFICES ASSUME MemoryInv, [Next]_vars PROVE MemoryInv'
  OBVIOUS
<1> USE DEF MemoryInv
<1>1. CASE InJobs /\ Jobs!Next
  BY <1>1, JobsStep, VectorsStay, ArchiveStay, DiskStay DEF InJobs
<1>2. CASE InVectors /\ Vectors!Next
  BY <1>2, VectorsStep, JobsStay, ArchiveStay, DiskStay DEF InVectors
<1>3. CASE InArchive /\ Archive!Next
  BY <1>3, ArchiveStep, JobsStay, VectorsStay, DiskStay DEF InArchive
<1>4. CASE InDisk /\ Disk!Next
  BY <1>4, DiskStep, JobsStay, VectorsStay, ArchiveStay DEF InDisk
<1>5. CASE UNCHANGED vars
  BY <1>5, JobsStay, VectorsStay, ArchiveStay, DiskStay DEF vars
<1> QED BY <1>1, <1>2, <1>3, <1>4, <1>5 DEF Next

LEMMA MemoryAlways == Spec => []MemoryInv
<1>1. Init => MemoryInv
  BY JobsStart, VectorsStart, ArchiveStart, DiskStart DEF Init, MemoryInv
<1> QED BY <1>1, MemoryStep, PTL DEF Spec

\* Deleted memories leave no derived row, whichever job was waiting for its
\* model, and no vector that a later search finds, whatever was cached, counted
\* or being built (store.py:2328, 4595).
THEOREM DeletedIsGoneAlways == Spec => []DeletedIsGone
<1>1. MemoryInv => DeletedIsGone
  BY DEF MemoryInv, JobsInv, VectorsInv, ASearch, DeletedIsGone, Vectors!DeletedNotServed
<1> QED BY <1>1, MemoryAlways, PTL

\* Rows that a finished job left and that were lost are told to be missing, also
\* after the job's row was pruned (store.py:2905, 3748).
THEOREM LossIsSeenAlways == Spec => []LossIsSeen
<1>1. MemoryInv => LossIsSeen
  BY CountedIsSeen DEF MemoryInv
<1> QED BY <1>1, MemoryAlways, PTL

\* A restore that ended in this process replaced all the files of its backup or
\* none, whichever file operation failed, and what was live before it is still
\* somewhere, also after a crash or an incomplete rollback (backup.py:430, 785).
THEOREM RestoreIsSafeAlways == Spec => []RestoreIsSafe
<1>1. MemoryInv => RestoreIsSafe
  BY WholeIsSafe DEF MemoryInv
<1> QED BY <1>1, MemoryAlways, PTL

\* A reflection that loses something it was linked to rests on a surviving
\* observation or goes in the same step (store.py:4553-4589).
THEOREM DeletionTakesConclusionsAlways == Spec => DeletionTakesConclusions
<1>1. ASSUME MemoryInv, [Next]_vars
      PROVE  [\A l \in links :
                 /\ l.to \in events \ events' /\ l.from \in events'
                 => Archive!Rests(l.from, events', links')]_Archive!vars
  <2>1. CASE InArchive /\ Archive!Next
    BY <1>1, <2>1, ConclusionsStep DEF MemoryInv
  <2>2. CASE UNCHANGED archiveVars
    BY <2>2 DEF archiveVars, Archive!vars
  <2> QED BY <1>1, <2>1, <2>2 DEF Next, vars, InJobs, InVectors, InDisk
<1> QED BY <1>1, MemoryAlways, PTL DEF Spec, DeletionTakesConclusions,
     Archive!DeletionTakesConclusions
=============================================================================
