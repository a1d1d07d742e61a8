--------------------------- MODULE PrivateMessage ---------------------------
(***************************************************************************)
(* The private messages of one talker (scheduler_pm.py,                    *)
(* scheduler_pm_retry.py).  The main loop alone works on the rows: it      *)
(* polls the session, answers, goes through the rows that wait, and        *)
(* recovers what a crash left.  The talker writes, the memory brain and    *)
(* the platform answer late, wrongly or never, the account is paused and   *)
(* resumed, and the process may die, while the loop awaits.                *)
(***************************************************************************)
EXTENDS PmStore, FiniteSets, FiniteSetsExt

CONSTANTS
    MaxMessages,    \* how many messages the talker writes (bound)
    Window,         \* how many messages of the session a poll fetches
    Batch,          \* how many of them a poll deals with
    Backoff,        \* the waits mark_retry_wait may choose
    MaxNow,         \* the clock stops here (bound)
    MaxCrashes      \* how often the process dies (bound)

\* Assumed by the modules that instantiate this one.
PrivateAssumption ==
    /\ {MaxMessages, Window, Batch} \subseteq Nat \ {0}
    /\ Backoff \subseteq Nat
    /\ {MaxNow, MaxCrashes} \subseteq Nat

VARIABLES
    now, alive, crashes,
    arrived, readTo,    \* the platform's: messages written, and acknowledged
    row,                \* [Msg -> PmRow], durable
    paused,             \* account_pause, durable
    observed,           \* messages whose incoming text the memory brain holds
    at, pass, on,       \* where the loop is, in which pass, on which message
    queue, seen, clean, \* messages left, messages fetched, may be acknowledged
    accepted            \* history: [Msg -> replies the platform took]

Msg == 1..MaxMessages

loop == <<at, pass, on, queue, seen, clean>>
platform == <<arrived, readTo, accepted>>
vars == <<now, alive, crashes, platform, row, paused, observed, loop>>

Init ==
    /\ now = 0 /\ alive = TRUE /\ crashes = 0
    /\ arrived = 0 /\ readTo = 0
    /\ row = [m \in Msg |-> NoRow]
    /\ paused = FALSE
    /\ observed = {}
    /\ at = "idle" /\ pass = "poll" /\ on = 0
    /\ queue = {} /\ seen = {} /\ clean = FALSE
    /\ accepted = [m \in Msg |-> 0]

-----------------------------------------------------------------------------
Loop(place) == alive /\ at = place
Mine == row[on]
Put(r) == row' = [row EXCEPT ![on] = r]
Go(place) == at' = place /\ UNCHANGED <<pass, on, queue, seen, clean>>
\* on to the next message of the pass
NextMessage ==
    /\ at' = "taking" /\ on' = 0
    /\ UNCHANGED <<pass, queue, seen, clean>>
Time == <<now, alive, crashes>>
Still == UNCHANGED <<Time, platform, paused, observed>>

-----------------------------------------------------------------------------
(* check_new_messages.                                                     *)

\* The newest messages of the session; the account's own ones take up room.
Found(n) == {m \in Msg : m <= arrived /\ m > arrived - n}
Own == Cardinality(UNION {{m} \X (1..accepted[m]) : m \in Msg})

\* The oldest ones fill the batch.  What exceeds it is recorded, and the
\* session is not acknowledged.
InBatch(found) == {m \in found : Cardinality({k \in found : k < m}) < Batch}

Fetch ==
    /\ Loop("idle")
    /\ ~paused
    /\ arrived > readTo
    /\ \E n \in Max({1, Window - Own})..Window :
        /\ seen' = Found(n)
        /\ queue' = InBatch(Found(n))
        /\ clean' = (InBatch(Found(n)) = Found(n))
        /\ row' = [m \in Msg |-> IF m \in Found(n) \ InBatch(Found(n))
                               THEN Discovered(row[m], now) ELSE row[m]]
    /\ at' = "taking" /\ pass' = "poll" /\ on' = 0
    /\ Still

\* The oldest first; what has left discovered is skipped.
TakeNew(m) ==
    /\ Loop("taking") /\ pass = "poll"
    /\ m \in queue
    /\ \A k \in queue : m <= k
    /\ queue' = queue \ {m}
    /\ row' = [row EXCEPT ![m] = Discovered(@, now)]
    /\ IF row[m].status \in {"absent", "discovered"}
       THEN at' = "archiving" /\ on' = m
       ELSE UNCHANGED <<at, on>>
    /\ UNCHANGED <<pass, seen, clean>>
    /\ Still

-----------------------------------------------------------------------------
(* process_retryable_pms.                                                  *)

\* A paused account retries, and repairs, nothing.
BeginRetry ==
    /\ Loop("idle")
    /\ ~paused
    /\ Go("repairing")
    /\ UNCHANGED row /\ Still

\* _repair_pending_pm_archives: the first failure pauses the account and ends
\* the pass.
Repair(m) ==
    /\ Loop("repairing")
    /\ Unarchived(row[m])
    /\ \/ /\ row' = [row EXCEPT ![m] = MarkArchive(@, FALSE, now)]
          /\ UNCHANGED <<paused, loop>>
       \/ paused' = TRUE /\ Go("idle") /\ UNCHANGED row
    /\ UNCHANGED <<Time, platform, observed>>

List ==
    /\ Loop("repairing")
    /\ \A m \in Msg : ~Unarchived(row[m])
    /\ queue' = {m \in Msg : Due(row[m], now)}
    /\ at' = "taking" /\ pass' = "retry" /\ on' = 0
    /\ UNCHANGED <<seen, clean, row>>
    /\ Still

\* A text that is there is only checked again; without one, the incoming
\* message is archived again first.
TakeDue(m) ==
    /\ Loop("taking") /\ pass = "retry"
    /\ m \in queue
    /\ queue' = queue \ {m}
    /\ on' = m
    /\ IF row[m].written
       THEN /\ at' = "vetting"
            /\ row' = [row EXCEPT ![m] = Move(@, "safety_pending", now)]
       ELSE at' = "archiving" /\ UNCHANGED row
    /\ UNCHANGED <<pass, seen, clean>>
    /\ Still

-----------------------------------------------------------------------------
(* What both passes do with a message.                                     *)

\* The memory brain takes the message of a poll, then the history around it.
ArchiveNew ==
    /\ Loop("archiving") /\ pass = "poll"
    /\ observed' = observed \cup {on}
    /\ Go("history")
    /\ UNCHANGED <<Time, platform, paused, row>>

\* The talker may be on the blacklist.
ArchiveHistory ==
    /\ Loop("history")
    /\ \/ Put(Move(Mine, "ignored", now)) /\ NextMessage
       \/ Put(Move(Mine, "generation_pending", now)) /\ Go("generating")
    /\ Still

\* _archive_pm_memory_for_retry: both once more
ArchiveAgain ==
    /\ Loop("archiving") /\ pass = "retry"
    /\ observed' = observed \cup {on}
    /\ Put(MarkArchive(Mine, FALSE, now))
    /\ Go("generating")
    /\ UNCHANGED <<Time, platform, paused>>

\* _defer_after_memory_archive_failure, after either
ArchiveFails ==
    /\ Loop("archiving") \/ Loop("history")
    /\ observed' \in {observed, observed \cup {on}}
    /\ paused' = TRUE
    /\ Put(MarkArchive(MarkDeferred(Mine, now), TRUE, now))
    /\ NextMessage
    /\ UNCHANGED <<Time, platform>>

\* The model fails for now, has nothing to say, fails for good.
GenerateNothing ==
    /\ Loop("generating")
    /\ \/ Put(MarkDeferred(Mine, now))
       \/ \E final \in {"ignored", "failed"} : Put(Move(Mine, final, now))
    /\ NextMessage
    /\ Still

\* The text is saved before it is checked.
Generate ==
    /\ Loop("generating")
    /\ Put(Move(SaveText(Mine, now), "safety_pending", now))
    /\ Go("vetting")
    /\ Still

\* check_content, which refuses when the account is paused, then
\* check_and_record_rate_limit, then publish_pending: no await between them.
\* The poll archives a refusal before it marks the row.
Refuse(status) ==
    IF pass = "poll"
    THEN UNCHANGED row /\ Go(status)
    ELSE /\ Put(IF status = "rejected" THEN Move(Mine, status, now)
                                       ELSE MarkDeferred(Mine, now))
         /\ NextMessage

Vet ==
    /\ Loop("vetting")
    /\ \/ Refuse("rejected")
       \/ ~paused /\ Refuse("deferred")
       \/ /\ ~paused
          /\ Put(Move(Mine, "publish_pending", now))
          /\ Go("sending")
    /\ Still

MarkRefused ==
    /\ Loop("rejected") \/ Loop("deferred")
    /\ Put(IF at = "rejected" THEN Move(Mine, "rejected", now)
                              ELSE MarkDeferred(Mine, now))
    /\ NextMessage
    /\ Still

\* The platform sends before it answers.
Send ==
    /\ Loop("sending")
    /\ accepted' = [accepted EXCEPT ![on] = @ + 1]
    /\ Go("sent")
    /\ UNCHANGED <<Time, arrived, readTo, row, paused, observed>>

Confirm ==
    /\ Loop("sent")
    /\ Put(MarkPublished(Mine, now))
    /\ Go("remembering")
    /\ Still

Decline ==
    /\ Loop("sending")
    /\ \E wait \in Backoff : Put(MarkRetryWait(Mine, wait, now))
    /\ NextMessage
    /\ Still

\* An exception, or a transport that does not know
Lose ==
    /\ Loop("sending") \/ Loop("sent")
    /\ Put(Move(Mine, "result_unknown", now))
    /\ NextMessage
    /\ Still

\* The memory brain takes what was said, or the account is paused and the row
\* marked for _repair_pending_pm_archives.
Remember ==
    /\ Loop("remembering")
    /\ \/ UNCHANGED <<row, paused>>
       \/ paused' = TRUE /\ Put(MarkArchive(Mine, TRUE, now))
    /\ NextMessage
    /\ UNCHANGED <<Time, platform, observed>>

\* A statement of the store raises: on to the next message.
Raise ==
    /\ alive /\ on # 0
    /\ at' = "taking" /\ on' = 0 /\ clean' = FALSE
    /\ UNCHANGED <<pass, queue, seen, row>>
    /\ Still

-----------------------------------------------------------------------------
(* The end of a pass.                                                      *)

Settled(m) ==
    row[m].status \notin {"absent", "discovered", "generation_pending",
                          "safety_pending", "publish_pending"}

EndPass ==
    /\ Loop("taking")
    /\ queue = {}
    /\ IF pass = "poll" /\ clean /\ \A m \in seen : Settled(m)
       THEN Go("acking")
       ELSE Go("idle")
    /\ UNCHANGED row /\ Still

\* Faulty variant: the whole session is acknowledged, whatever has arrived.
AckAll ==
    /\ Loop("acking")
    /\ readTo' = arrived
    /\ Go("idle")
    /\ UNCHANGED <<Time, arrived, accepted, row, paused, observed>>

\* ack_session, whose failure is ignored: up to the last message fetched.
\* (The acknowledgement that follows a retry names no message.)
Ack ==
    /\ Loop("acking")
    /\ readTo' \in {readTo, Max(seen \cup {readTo})}
    /\ Go("idle")
    /\ UNCHANGED <<Time, arrived, accepted, row, paused, observed>>

-----------------------------------------------------------------------------
(* Recovery, and the world.                                                *)

Recover ==
    /\ Loop("idle")
    /\ \E m \in Msg : Recovered(row[m], now) # row[m]
    /\ row' = [m \in Msg |-> Recovered(row[m], now)]
    /\ UNCHANGED loop /\ Still

Arrive ==
    /\ arrived < MaxMessages
    /\ arrived' = arrived + 1
    /\ UNCHANGED <<Time, readTo, accepted, row, paused, observed, loop>>

\* Another worker pauses the account, the operator resumes it.
Pause ==
    /\ paused' = ~paused
    /\ UNCHANGED <<Time, platform, row, observed, loop>>

Tick ==
    /\ now < MaxNow
    /\ now' = now + 1
    /\ UNCHANGED <<alive, crashes, platform, row, paused, observed, loop>>

Crash ==
    /\ alive
    /\ crashes < MaxCrashes
    /\ alive' = FALSE
    /\ crashes' = crashes + 1
    /\ at' = "idle" /\ pass' = "poll" /\ on' = 0
    /\ queue' = {} /\ seen' = {} /\ clean' = FALSE
    /\ UNCHANGED <<now, platform, row, paused, observed>>

Boot ==
    /\ ~alive
    /\ alive' = TRUE
    /\ UNCHANGED <<now, crashes, platform, row, paused, observed, loop>>

-----------------------------------------------------------------------------
Answer ==
    \/ ArchiveNew \/ ArchiveHistory \/ ArchiveAgain \/ ArchiveFails
    \/ Generate \/ GenerateNothing \/ Vet \/ MarkRefused
    \/ Send \/ Confirm \/ Decline \/ Lose \/ Remember

Pass ==
    \/ \E m \in Msg : TakeNew(m) \/ TakeDue(m) \/ Repair(m)
    \/ List \/ Answer \/ EndPass \/ Ack

Next ==
    \/ Fetch \/ BeginRetry \/ Pass \/ Raise \/ Recover
    \/ Arrive \/ Pause \/ Tick \/ Crash \/ Boot

Spec == Init /\ [][Next]_vars

-----------------------------------------------------------------------------
(* Properties.                                                             *)

\* The table refuses nothing that the passes and the recovery do: a refused
\* update raises after the platform, the model or the archive has already
\* acted, and leaves the row behind.
TableRefusesNothing ==
    [][\A m \in Msg :
         \/ row'[m].status = row[m].status
         \/ row[m].status = "absent"
         \/ CanMove(row[m], row'[m].status)]_vars

\* A message is answered at most once, whatever crashes, lost answers, raising
\* statements, deferrals and retries there are.
AnsweredOnce == \A m \in Msg : accepted[m] <= 1

\* No text is written for a message, and none sent, before the memory brain
\* holds the message: neither the poll, nor a retry of what was deferred for
\* that very reason, nor a row recovered after a crash goes round the archive.
AnsweredFromMemory ==
    \A m \in Msg : row[m].written \/ accepted[m] > 0 => m \in observed

\* What the bot acknowledged, and will not be shown again as unread, has a row
\* that some pass still answers or that is settled: no message is lost between
\* the fetch and the acknowledgement.  (The talker has not written more than a
\* fetch can see.)
AckedIsRecorded ==
    \A m \in Msg : m <= readTo =>
        row[m].status \notin {"absent", "discovered", "generation_pending"}

=============================================================================
