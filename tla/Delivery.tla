------------------------------ MODULE Delivery ------------------------------
(***************************************************************************)
(* The outbound delivery pipeline: the tables messages, queued_messages,   *)
(* deliveries and webhook_requests; the delivery threads of the workers    *)
(* (dequeue, load, suppression check, SMTP send, record); the retry        *)
(* endpoint; bounce correlation; the import endpoint; and the retention    *)
(* pass that empties and deletes old messages behind everyone's back.      *)
(*                                                                         *)
(* One action is one committed database transaction, or one exchange with  *)
(* the remote mail server.  A worker keeps what it has read in its job, so *)
(* everything another actor commits between two of its steps makes the job *)
(* stale, as in the code.                                                  *)
(***************************************************************************)
EXTENDS Integers

CONSTANTS
    Messages,     \* identities of outgoing messages (messages.id)
    Workers,      \* delivery threads, over all worker processes
    RowIds,       \* identities of queue rows (queued_messages.id)
    NoMessage, NoWorker, NoRow,
    MaxAttempts,  \* Worker.max_attempts
    Overrun,      \* may a worker hold a row for longer than the lock window?
    MaxCrashes,   \* bound on abandoned jobs
    MaxRetries    \* bound on calls of the retry endpoint

ASSUME ConstantAssumption ==
    /\ MaxAttempts \in Nat \ {0}
    /\ Overrun \in BOOLEAN
    /\ MaxCrashes \in Nat
    /\ MaxRetries \in Nat
    /\ NoMessage \notin Messages
    /\ NoWorker \notin Workers
    /\ NoRow \notin RowIds

VARIABLES
    status,       \* messages.status, or "Absent" / "Pruned" without a row
    imported,     \* stored by the import endpoint, not for sending
    purged,       \* messages.content_purged_at IS NOT NULL
    queue,        \* queued_messages
    job,          \* what each delivery thread holds in memory
    suppressed,   \* the recipient is on the suppression list
    handed,       \* a remote server has accepted a copy
    delivery,     \* status of the newest deliveries row
    event,        \* status the newest webhook_requests row announces
    retention,    \* the statement or transaction the retention pass is in
    crashes, retries

vars == <<status, imported, purged, queue, job, suppressed, handed, delivery,
          event, retention, crashes, retries>>

Unsettled == {"Pending", "SoftFail"}
Settled   == {"Sent", "HardFail", "Held", "Bounced"}
Stored    == Unsettled \union Settled
Status    == Stored \union {"Absent", "Pruned"}

(* Mutant: the retry endpoint takes held messages too. *)
RetryableAndHeld == {"Pending", "SoftFail", "HardFail", "Held"}

(* RETRYABLE_OUTBOUND_STATUSES *)
Retryable == {"Pending", "SoftFail", "HardFail"}

(* Mutant: the recorders' UPDATE has lost its status <> 'Bounced'. *)
AnyStored == Stored

(* A row that the UPDATE ... WHERE status <> 'Bounced' of the recorders hits. *)
Recordable == Stored \ {"Bounced"}

(***************************************************************************)
(* Queue rows.  due: retry_after is NULL or in the past.  stale: the lock  *)
(* is older than queued_message_lock_stale_days.                           *)
(***************************************************************************)
Row == [st       : {"free", "queued", "deleted"},
        msg      : Messages \union {NoMessage},
        attempts : Nat,
        lockedBy : Workers \union {NoWorker},
        stale    : BOOLEAN,
        due      : BOOLEAN]

BlankRow(s) == [st |-> s, msg |-> NoMessage, attempts |-> 0,
                lockedBy |-> NoWorker, stale |-> FALSE, due |-> FALSE]

FreshRow(m) == [st |-> "queued", msg |-> m, attempts |-> 0,
                lockedBy |-> NoWorker, stale |-> FALSE, due |-> TRUE]

Queued(r) == queue[r].st = "queued"

RowsOf(m) == {r \in RowIds : Queued(r) /\ queue[r].msg = m}

(* DELETE FROM queued_messages WHERE id = r: no row, no effect. *)
CompleteMessage(r) ==
    IF Queued(r) THEN [queue EXCEPT ![r] = BlankRow("deleted")] ELSE queue

(* Mutants: a retry that loses the row, or forgets to count. *)
RetryLosesRow(r) == CompleteMessage(r)

RetryUncounted(r) ==
    IF Queued(r)
    THEN [queue EXCEPT ![r] = [@ EXCEPT !.lockedBy = NoWorker, !.stale = FALSE,
                                        !.due = FALSE]]
    ELSE queue

(* The lock owner is not part of the WHERE clause: whoever holds the row. *)
RetryMessage(r) ==
    IF Queued(r)
    THEN [queue EXCEPT ![r] = [@ EXCEPT !.lockedBy = NoWorker, !.stale = FALSE,
                                        !.attempts = queue[r].attempts + 1,
                                        !.due = FALSE]]
    ELSE queue

(***************************************************************************)
(* Jobs.  attempts, seen and empty are what the thread read; they are not  *)
(* read again before the result is recorded.                               *)
(***************************************************************************)
Phases   == {"idle", "locked", "loaded", "sending", "record"}
Outcomes == {"Sent", "SoftFail", "HardFail"}

Job == [phase    : Phases,
        row      : RowIds \union {NoRow},
        msg      : Messages \union {NoMessage},
        attempts : Nat,
        seen     : Status,
        empty    : BOOLEAN,
        outcome  : Outcomes \union {"Held", "none"}]

NoJob == [phase |-> "idle", row |-> NoRow, msg |-> NoMessage, attempts |-> 0,
          seen |-> "Absent", empty |-> FALSE, outcome |-> "none"]

Busy(w)    == job[w].phase # "idle"
Holders(r) == {w \in Workers : Busy(w) /\ job[w].row = r}

IdleRetention == [phase |-> "idle", msg |-> NoMessage, rows |-> {}]

-----------------------------------------------------------------------------
Init ==
    /\ status     = [m \in Messages |-> "Absent"]
    /\ imported   = [m \in Messages |-> FALSE]
    /\ purged     = [m \in Messages |-> FALSE]
    /\ queue      = [r \in RowIds |-> BlankRow("free")]
    /\ job        = [w \in Workers |-> NoJob]
    /\ suppressed = [m \in Messages |-> FALSE]
    /\ handed     = [m \in Messages |-> FALSE]
    /\ delivery   = [m \in Messages |-> "Absent"]
    /\ event      = [m \in Messages |-> "Absent"]
    /\ retention  = IdleRetention
    /\ crashes    = 0
    /\ retries    = 0

(***************************************************************************)
(* Storing messages                                                        *)
(***************************************************************************)

(* insert_message_in_tx: the message and its queue row, one transaction. *)
Accept(m, r) ==
    /\ status[m] = "Absent"
    /\ queue[r].st = "free"
    /\ status' = [status EXCEPT ![m] = "Pending"]
    /\ queue'  = [queue EXCEPT ![r] = FreshRow(m)]
    /\ UNCHANGED <<imported, purged, job, suppressed, handed, delivery, event,
                   retention, crashes, retries>>

(* import_message: the status of the last imported delivery, or Pending;  *)
(* no queue row and no webhook.                                           *)
Import(m, s) ==
    /\ status[m] = "Absent"
    /\ s \in Settled \union Unsettled
    /\ status'   = [status EXCEPT ![m] = s]
    /\ imported' = [imported EXCEPT ![m] = TRUE]
    /\ delivery' = [delivery EXCEPT ![m] = IF s = "Pending" THEN @ ELSE s]
    /\ UNCHANGED <<purged, queue, job, suppressed, handed, event, retention,
                   crashes, retries>>

(***************************************************************************)
(* A delivery thread                                                       *)
(***************************************************************************)

(* Mutant: any due row can be taken, locked or not. *)
IgnoresLock(r) == TRUE

(* The WHERE clause of dequeue: nobody has the row, or its lock is stale. *)
Lockable(r) == queue[r].lockedBy = NoWorker \/ queue[r].stale

(* PgQueue::dequeue.  Which ready row is taken is FairQueue's subject.  The *)
(* job keeps the attempts the row had when it was locked.                  *)
Dequeue(w, r) ==
    /\ ~Busy(w)
    /\ Queued(r)
    /\ queue[r].due
    /\ Lockable(r)
    /\ queue' = [queue EXCEPT ![r] = [@ EXCEPT !.lockedBy = w, !.stale = FALSE]]
    /\ job'   = [job EXCEPT ![w] =
                   [NoJob EXCEPT !.phase = "locked", !.row = r,
                                 !.msg = queue[r].msg,
                                 !.attempts = queue[r].attempts]]
    /\ UNCHANGED <<status, imported, purged, suppressed, handed, delivery,
                   event, retention, crashes, retries>>

(* message_by_id: the row as it is now, content included. *)
Load(w) ==
    /\ job[w].phase = "locked"
    /\ job' = [job EXCEPT ![w] = [@ EXCEPT !.phase = "loaded",
                                          !.seen  = status[job[w].msg],
                                          !.empty = purged[job[w].msg]]]
    /\ UNCHANGED <<status, imported, purged, queue, suppressed, handed,
                   delivery, event, retention, crashes, retries>>

(* The message is gone, or was bounced when it was loaded. *)
Drop(w) ==
    /\ job[w].phase = "loaded"
    /\ job[w].seen \in {"Pruned", "Bounced"}
    /\ queue' = CompleteMessage(job[w].row)
    /\ job'   = [job EXCEPT ![w] = NoJob]
    /\ UNCHANGED <<status, imported, purged, suppressed, handed, delivery,
                   event, retention, crashes, retries>>

(* address_suppressed: hold the message or go on to send it. *)
CheckSuppression(w) ==
    /\ job[w].phase = "loaded"
    /\ job[w].seen \notin {"Pruned", "Bounced"}
    /\ job' = [job EXCEPT ![w] =
                 IF suppressed[job[w].msg]
                 THEN [@ EXCEPT !.phase = "record", !.outcome = "Held"]
                 ELSE [@ EXCEPT !.phase = "sending"]]
    /\ UNCHANGED <<status, imported, purged, queue, suppressed, handed,
                   delivery, event, retention, crashes, retries>>

(* SmtpSender::send, of which SmtpSender has the exchange.  Of a server    *)
(* that answers as the protocol says, "Sent" means that it accepted the    *)
(* copy; after the other outcomes one may have as well, when only its      *)
(* reply was lost.                                                         *)
Send(w, o) ==
    /\ job[w].phase = "sending"
    /\ job' = [job EXCEPT ![w] = [@ EXCEPT !.phase = "record", !.outcome = o]]
    /\ \E accepted \in BOOLEAN :
          /\ o = "Sent" => accepted
          /\ handed' = [handed EXCEPT ![job[w].msg] = @ \/ accepted]
    /\ UNCHANGED <<status, imported, purged, queue, suppressed, delivery,
                   event, retention, crashes, retries>>

(* What the worker makes of an outcome, given the attempts it had read. *)
Exhausted(j) == j.attempts + 1 >= MaxAttempts

Verdict(j) == IF j.outcome = "SoftFail" /\ Exhausted(j) THEN "HardFail"
                                                        ELSE j.outcome

(* record_outbound_delivery: status, deliveries row, queue action and      *)
(* webhook rows in one transaction; a bounced or deleted message only      *)
(* loses its queue row.                                                    *)
Record(w) ==
    LET j == job[w]
        s == Verdict(j)
    IN  /\ j.phase = "record"
        /\ IF status[j.msg] \in Recordable
           THEN /\ status'   = [status EXCEPT ![j.msg] = s]
                /\ delivery' = [delivery EXCEPT ![j.msg] = s]
                /\ event'    = [event EXCEPT ![j.msg] = s]
                /\ queue'    = IF s = "SoftFail" THEN RetryMessage(j.row)
                                                 ELSE CompleteMessage(j.row)
           ELSE /\ queue' = CompleteMessage(j.row)
                /\ UNCHANGED <<status, delivery, event>>
        /\ job' = [job EXCEPT ![w] = NoJob]
        /\ UNCHANGED <<imported, purged, suppressed, handed, retention,
                       crashes, retries>>

(* The process dies, or a database error propagates out of process_next    *)
(* (deliver_loop logs it and goes on): the row stays locked.               *)
Abandon(w) ==
    /\ Busy(w)
    /\ crashes < MaxCrashes
    /\ crashes' = crashes + 1
    /\ job' = [job EXCEPT ![w] = NoJob]
    /\ UNCHANGED <<status, imported, purged, queue, suppressed, handed,
                   delivery, event, retention, retries>>

(***************************************************************************)
(* Time                                                                    *)
(***************************************************************************)

(* retry_after is reached. *)
BackoffElapses(r) ==
    /\ Queued(r)
    /\ ~queue[r].due
    /\ queue' = [queue EXCEPT ![r] = [@ EXCEPT !.due = TRUE]]
    /\ UNCHANGED <<status, imported, purged, job, suppressed, handed, delivery,
                   event, retention, crashes, retries>>

(* locked_at leaves the lock window.  The window is a day or more; unless  *)
(* Overrun, no live job lasts that long.                                   *)
LockExpires(r) ==
    /\ Queued(r)
    /\ queue[r].lockedBy # NoWorker
    /\ ~queue[r].stale
    /\ Overrun \/ Holders(r) = {}
    /\ queue' = [queue EXCEPT ![r] = [@ EXCEPT !.stale = TRUE]]
    /\ UNCHANGED <<status, imported, purged, job, suppressed, handed, delivery,
                   event, retention, crashes, retries>>

(***************************************************************************)
(* Other writers                                                           *)
(***************************************************************************)

(* requeue_outbound, with the message row locked.  A row nobody has locked *)
(* becomes due, a locked one is left to its holder, and a message with no  *)
(* row gets a fresh one.                                                   *)
RequeueOutbound(m) ==
    /\ retries < MaxRetries
    /\ retries' = retries + 1
    /\ status[m] \in Retryable
    /\ ~purged[m]
    /\ \/ /\ RowsOf(m) # {}
          /\ queue' = [q \in RowIds |->
                         IF q \in RowsOf(m) /\ queue[q].lockedBy = NoWorker
                         THEN [queue[q] EXCEPT !.due = TRUE]
                         ELSE queue[q]]
       \/ /\ RowsOf(m) = {}
          /\ \E r \in RowIds :
                /\ queue[r].st = "free"
                /\ queue' = [queue EXCEPT ![r] = FreshRow(m)]
    /\ status' = [status EXCEPT ![m] = "Pending"]
    /\ UNCHANGED <<imported, purged, job, suppressed, handed, delivery, event,
                   retention, crashes>>

(* Mutant: the webhook request is not part of the transaction. *)
CorrelateBounceSilently(m) ==
    /\ handed[m]
    /\ status[m] \in Stored
    /\ status'   = [status EXCEPT ![m] = "Bounced"]
    /\ delivery' = [delivery EXCEPT ![m] = "Bounced"]
    /\ UNCHANGED <<imported, purged, queue, job, suppressed, handed, event,
                   retention, crashes, retries>>

(* correlate_bounce for a DSN that names m: a remote server must have had   *)
(* the message, and the queue row is left alone.                           *)
CorrelateBounce(m) ==
    /\ handed[m]
    /\ status[m] \in Stored
    /\ status'   = [status EXCEPT ![m] = "Bounced"]
    /\ delivery' = [delivery EXCEPT ![m] = "Bounced"]
    /\ event'    = [event EXCEPT ![m] = "Bounced"]
    /\ UNCHANGED <<imported, purged, queue, job, suppressed, handed, retention,
                   crashes, retries>>

(* The suppression list changes: unsubscribe, API, complaint. *)
ToggleSuppression(m) ==
    /\ suppressed' = [suppressed EXCEPT ![m] = ~@]
    /\ UNCHANGED <<status, imported, purged, queue, job, handed, delivery,
                   event, retention, crashes, retries>>

(***************************************************************************)
(* The retention pass.  Its statements read a snapshot and write later;     *)
(* transactions that commit in between are not seen by the read.           *)
(***************************************************************************)

(* The subselect of purge_message_content. *)
PurgeSelect(m) ==
    /\ retention.phase = "idle"
    /\ status[m] \in Stored
    /\ ~purged[m]
    /\ RowsOf(m) = {}
    /\ retention' = [phase |-> "purge", msg |-> m, rows |-> {}]
    /\ UNCHANGED <<status, imported, purged, queue, job, suppressed, handed,
                   delivery, event, crashes, retries>>

(* Its UPDATE: under READ COMMITTED the message row is taken as it is now,  *)
(* while the NOT EXISTS on the queue keeps the answer of the snapshot.     *)
PurgeUpdate ==
    /\ retention.phase = "purge"
    /\ purged' = [purged EXCEPT ![retention.msg] = TRUE]
    /\ retention' = IdleRetention
    /\ UNCHANGED <<status, imported, queue, job, suppressed, handed, delivery,
                   event, crashes, retries>>

(* prune_message_metadata deletes the queue rows it can see ... *)
PruneSelect(m) ==
    /\ retention.phase = "idle"
    /\ status[m] \in Stored
    /\ retention' = [phase |-> "prune", msg |-> m, rows |-> RowsOf(m)]
    /\ UNCHANGED <<status, imported, purged, queue, job, suppressed, handed,
                   delivery, event, crashes, retries>>

(* ... and then the message, and commits. *)
PruneCommit ==
    /\ retention.phase = "prune"
    /\ status' = [status EXCEPT ![retention.msg] = "Pruned"]
    /\ delivery' = [delivery EXCEPT ![retention.msg] = "Absent"]
    /\ queue'  = [q \in RowIds |->
                    IF q \in retention.rows /\ Queued(q)
                    THEN BlankRow("deleted") ELSE queue[q]]
    /\ retention' = IdleRetention
    /\ UNCHANGED <<imported, purged, job, suppressed, handed, event, crashes,
                   retries>>

-----------------------------------------------------------------------------
DeliveryThread(w) ==
    \/ \E r \in RowIds : Dequeue(w, r)
    \/ Load(w)
    \/ Drop(w)
    \/ CheckSuppression(w)
    \/ \E o \in Outcomes : Send(w, o)
    \/ Record(w)

Clock == \E r \in RowIds : BackoffElapses(r) \/ LockExpires(r)

Environment ==
    \/ \E m \in Messages, r \in RowIds : Accept(m, r)
    \/ \E m \in Messages, s \in Stored : Import(m, s)
    \/ \E m \in Messages : \/ RequeueOutbound(m)
                           \/ CorrelateBounce(m)
                           \/ ToggleSuppression(m)
    \/ \E w \in Workers : Abandon(w)

Retention ==
    \/ \E m \in Messages : PurgeSelect(m) \/ PruneSelect(m)
    \/ PurgeUpdate
    \/ PruneCommit

Next == (\E w \in Workers : DeliveryThread(w)) \/ Clock \/ Environment \/ Retention

Spec == Init /\ [][Next]_vars

(***************************************************************************)
(* Each delivery thread runs its loop forever and polls; time passes.      *)
(* Nothing else has to happen.                                             *)
(***************************************************************************)
Fairness == /\ \A w \in Workers : WF_vars(DeliveryThread(w))
            /\ WF_vars(Clock)

FairSpec == Spec /\ Fairness

-----------------------------------------------------------------------------
(***************************************************************************)
(* Properties                                                              *)
(***************************************************************************)

(* Every variable keeps its shape; attempts never leave the naturals. *)
TypeOK ==
    /\ status \in [Messages -> Status]
    /\ imported \in [Messages -> BOOLEAN]
    /\ purged \in [Messages -> BOOLEAN]
    /\ queue \in [RowIds -> Row]
    /\ job \in [Workers -> Job]
    /\ suppressed \in [Messages -> BOOLEAN]
    /\ handed \in [Messages -> BOOLEAN]
    /\ delivery \in [Messages -> Status]
    /\ event \in [Messages -> Status]
    /\ retention \in [phase : {"idle", "purge", "prune"},
                       msg   : Messages \union {NoMessage},
                       rows  : SUBSET RowIds]
    /\ crashes \in 0..MaxCrashes
    /\ retries \in 0..MaxRetries

(* A message has at most one queue row, whatever the retry endpoint, the   *)
(* workers and retention do to it (two rows are two parallel deliveries).  *)
OneRowPerMessage ==
    \A q, r \in RowIds :
        Queued(q) /\ Queued(r) /\ queue[q].msg = queue[r].msg => q = r

(* No accepted message is forgotten: while its status says that delivery is *)
(* still going on there is a queue row that will bring it back to a worker. *)
NoStrandedMessage ==
    \A m \in Messages :
        status[m] \in Unsettled /\ ~imported[m] => RowsOf(m) # {}

(* A row never carries more attempts than the give-up limit allows: each    *)
(* row that comes back to a worker still has an attempt left.              *)
AttemptsBounded ==
    \A r \in RowIds : Queued(r) => queue[r].attempts < MaxAttempts

(* Once delivery is over, the newest deliveries row and the newest webhook  *)
(* event both tell the status the API shows.                               *)
OutboxAgrees ==
    \A m \in Messages :
        status[m] \in Settled /\ ~imported[m]
        => delivery[m] = status[m] /\ event[m] = status[m]

(* "Bounced" is final: a worker that was sending, a late soft failure or a  *)
(* retry request never replaces it; only retention removes the message.    *)
BouncedIsFinal ==
    [][\A m \in Messages :
          status[m] = "Bounced" => status'[m] \in {"Bounced", "Pruned"}]_vars

(* No message that was recorded as sent, held or given up is handed to the  *)
(* remote server again without the tenant asking for it.                   *)
NoSendAfterSettled ==
    [][\A w \in Workers :
          job[w].phase = "sending" /\ job'[w].outcome \in Outcomes
          => status[job[w].msg] \notin {"Sent", "Held", "HardFail"}]_vars

(* The pipeline implements the message API's promise. *)
Lifecycle == INSTANCE MessageLifecycle WITH announced <- event
ImplementsLifecycle == Lifecycle!Spec

(* Every accepted message is eventually sent, failed, held, bounced or      *)
(* pruned, although workers crash while they hold its row.                 *)
EventuallySettled ==
    \A m \in Messages :
        status[m] \in Unsettled /\ ~imported[m] ~> status[m] \notin Unsettled

(* retention.rs: messages waiting in the queue keep their content. *)
QueuedKeepsContent ==
    \A m \in Messages : status[m] \in Stored /\ RowsOf(m) # {} => ~purged[m]
=============================================================================
