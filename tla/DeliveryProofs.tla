--------------------------- MODULE DeliveryProofs ---------------------------
(***************************************************************************)
(* Proofs about Delivery, for every set of messages, threads and rows.     *)
(*                                                                         *)
(* Base holds whatever the clocks do.  Exclusive needs ~Overrun: no live   *)
(* job outlasts the lock window.                                           *)
(***************************************************************************)
EXTENDS Delivery, TLAPS

(* A queue row belongs to a message that is or was stored. *)
RowShape ==
    \A r \in RowIds : Queued(r) => /\ queue[r].msg \in Messages
                                   /\ status[queue[r].msg] # "Absent"

(* A job names a row that exists or existed, and the message of that row. *)
JobShape ==
    \A w \in Workers : Busy(w) =>
        /\ job[w].row \in RowIds
        /\ job[w].msg \in Messages
        /\ status[job[w].msg] # "Absent"
        /\ queue[job[w].row].st # "free"
        /\ Queued(job[w].row) => queue[job[w].row].msg = job[w].msg
        /\ job[w].phase = "record" => job[w].outcome # "none"

(* The retention pass works on a stored message, and the rows it deletes    *)
(* belong to it.                                                           *)
RetentionShape ==
    retention.phase # "idle" =>
        /\ retention.msg \in Messages
        /\ status[retention.msg] \in Stored
        /\ \A r \in retention.rows : /\ queue[r].st # "free"
                                     /\ Queued(r) => queue[r].msg = retention.msg

Base == /\ TypeOK
        /\ RowShape
        /\ JobShape
        /\ RetentionShape
        /\ OneRowPerMessage
        /\ OutboxAgrees

(* A thread with a job owns the lock of its row, and read its attempts;     *)
(* only retention takes the row away, together with the message.           *)
LockHeld ==
    \A w \in Workers : Busy(w) =>
        \/ /\ Queued(job[w].row)
           /\ queue[job[w].row].lockedBy = w
           /\ ~queue[job[w].row].stale
           /\ queue[job[w].row].attempts = job[w].attempts
        \/ /\ ~Queued(job[w].row)
           /\ status[job[w].msg] = "Pruned"

(* A message with a row is still being delivered, bounced or gone. *)
RowStatus ==
    \A r \in RowIds : Queued(r) =>
        status[queue[r].msg] \in Unsettled \union {"Bounced", "Pruned"}

(* What a thread saw as gone or bounced still is. *)
SeenHolds ==
    \A w \in Workers : Busy(w) =>
        /\ job[w].seen = "Pruned" => status[job[w].msg] = "Pruned"
        /\ job[w].seen = "Bounced" => status[job[w].msg] \in {"Bounced", "Pruned"}

Exclusive == /\ Base
             /\ LockHeld
             /\ RowStatus
             /\ SeenHolds
             /\ NoStrandedMessage
             /\ AttemptsBounded
-----------------------------------------------------------------------------
USE ConstantAssumption

(***************************************************************************)
(* What the two queue mutations do to the table.                           *)
(***************************************************************************)

(* complete_message leaves every other row alone and the row deleted. *)
LEMMA Completed ==
    ASSUME TypeOK, NEW r \in RowIds
    PROVE  LET Q == CompleteMessage(r)
           IN  /\ Q \in [RowIds -> Row]
               /\ \A q \in RowIds : q # r => Q[q] = queue[q]
               /\ Q[r].st # "queued"
               /\ Q[r].st = "free" <=> queue[r].st = "free"
<1>1. BlankRow("deleted") \in Row
  BY DEF BlankRow, Row
<1> QED
  BY <1>1 DEF TypeOK, CompleteMessage, BlankRow, Queued

(* retry_message unlocks the row, if it is still there, and counts. *)
LEMMA Retried ==
    ASSUME TypeOK, NEW r \in RowIds
    PROVE  LET Q == RetryMessage(r)
           IN  /\ Q \in [RowIds -> Row]
               /\ \A q \in RowIds : q # r => Q[q] = queue[q]
               /\ Q[r].st = queue[r].st
               /\ Q[r].msg = queue[r].msg
               /\ Q[r].st = "queued" => /\ Q[r].lockedBy = NoWorker
                                        /\ Q[r].attempts = queue[r].attempts + 1
<1> DEFINE x == [queue[r] EXCEPT !.lockedBy = NoWorker, !.stale = FALSE,
                                 !.attempts = queue[r].attempts + 1, !.due = FALSE]
<1>1. queue[r] \in Row /\ queue[r].attempts + 1 \in Nat
  BY DEF TypeOK, Row
<1>2. /\ x \in Row
      /\ x.st = queue[r].st
      /\ x.msg = queue[r].msg
      /\ x.lockedBy = NoWorker
      /\ x.attempts = queue[r].attempts + 1
  BY <1>1 DEF Row
<1>3. RetryMessage(r) = IF Queued(r) THEN [queue EXCEPT ![r] = x] ELSE queue
  BY DEF RetryMessage, TypeOK
<1> HIDE DEF x
<1> QED
  BY <1>1, <1>2, <1>3 DEF TypeOK, Queued

(***************************************************************************)
(* Base: the initial state, then one lemma per action.                     *)
(***************************************************************************)
LEMMA BaseInit == Init => Base
  BY DEF Init, Base, TypeOK, RowShape, JobShape, RetentionShape,
      OneRowPerMessage, OutboxAgrees, Queued, Busy, NoJob, BlankRow,
      IdleRetention, Row, Job, Phases, Outcomes, Status, Stored, Settled,
      Unsettled

LEMMA BaseAccept ==
    ASSUME Base, NEW m \in Messages, NEW r \in RowIds, Accept(m, r)
    PROVE  Base'
<1> USE DEF Base, Accept, FreshRow, Queued, Busy
<1>1. TypeOK'
  BY DEF TypeOK, JobShape, Row, Job, Phases, Outcomes, Status, Stored, Settled, Unsettled, RetentionShape
<1>2. RowShape'
  BY DEF TypeOK, RowShape, RetentionShape, Row, Stored, Settled, Unsettled
<1>3. JobShape'
  BY DEF TypeOK, RowShape, JobShape, RetentionShape, Row, Job, Stored, Settled,
         Unsettled
<1>4. RetentionShape'
  BY DEF TypeOK, RowShape, RetentionShape, Row, Stored, Settled, Unsettled
<1>5. OneRowPerMessage'
  BY DEF TypeOK, RowShape, OneRowPerMessage, Row
<1>6. OutboxAgrees'
  BY DEF TypeOK, RetentionShape, OutboxAgrees, Settled
<1> QED
  BY <1>1, <1>2, <1>3, <1>4, <1>5, <1>6

LEMMA BaseImport ==
    ASSUME Base, NEW m \in Messages, NEW s \in Stored, Import(m, s)
    PROVE  Base'
<1> USE DEF Base, Import, Queued, Busy
<1>1. TypeOK'
  BY DEF TypeOK, JobShape, Row, Job, Phases, Outcomes, Status, Stored, Settled, Unsettled, RetentionShape
<1>2. RowShape'
  BY DEF TypeOK, RowShape, RetentionShape, Row, Stored, Settled, Unsettled
<1>3. JobShape'
  BY DEF TypeOK, RowShape, JobShape, RetentionShape, Row, Job, Stored, Settled,
         Unsettled
<1>4. RetentionShape'
  BY DEF TypeOK, RowShape, RetentionShape, Row, Stored, Settled, Unsettled
<1>5. OneRowPerMessage'
  BY DEF TypeOK, RowShape, OneRowPerMessage, Row
<1>6. OutboxAgrees'
  BY DEF TypeOK, RetentionShape, OutboxAgrees, Settled
<1> QED
  BY <1>1, <1>2, <1>3, <1>4, <1>5, <1>6

LEMMA BaseDequeue ==
    ASSUME Base, NEW w \in Workers, NEW r \in RowIds, Dequeue(w, r)
    PROVE  Base'
<1> USE DEF Base, Dequeue, Lockable, NoJob, Queued, Busy
<1>1. TypeOK'
  <2>1. queue[r] \in Row
    BY DEF TypeOK
  <2>2. [queue[r] EXCEPT !.lockedBy = w, !.stale = FALSE] \in Row
    BY <2>1 DEF Row
  <2>3. queue' \in [RowIds -> Row]
    BY <2>2 DEF TypeOK
  <2>4. job'[w] \in Job
    BY <2>1 DEF TypeOK, Row, Job, Phases, Outcomes, Status
  <2>5. job' \in [Workers -> Job]
    BY <2>4 DEF TypeOK
  <2> QED
    BY <2>3, <2>5 DEF TypeOK
<1>2. RowShape'
  BY DEF TypeOK, RowShape, RetentionShape, Row, Stored, Settled, Unsettled
<1>3. JobShape'
  BY DEF TypeOK, RowShape, JobShape, RetentionShape, Row, Job, Stored, Settled,
         Unsettled
<1>4. RetentionShape'
  BY DEF TypeOK, RowShape, RetentionShape, Row, Stored, Settled, Unsettled
<1>5. OneRowPerMessage'
  BY DEF TypeOK, RowShape, OneRowPerMessage, Row
<1>6. OutboxAgrees'
  BY DEF TypeOK, RetentionShape, OutboxAgrees, Settled
<1> QED
  BY <1>1, <1>2, <1>3, <1>4, <1>5, <1>6

LEMMA BaseLoad ==
    ASSUME Base, NEW w \in Workers, Load(w)
    PROVE  Base'
<1> USE DEF Base, Load, Queued, Busy
<1>1. TypeOK'
  <2>1. job[w] \in Job /\ status[job[w].msg] \in Status /\ purged[job[w].msg] \in BOOLEAN
    BY DEF TypeOK, JobShape, Phases
  <2>2. [job[w] EXCEPT !.phase = "loaded", !.seen = status[job[w].msg],
                       !.empty = purged[job[w].msg]] \in Job
    BY <2>1 DEF Job, Phases
  <2>3. job' \in [Workers -> Job]
    BY <2>2 DEF TypeOK
  <2> QED
    BY <2>3 DEF TypeOK
<1>2. RowShape'
  BY DEF TypeOK, RowShape, RetentionShape, Row, Stored, Settled, Unsettled
<1>3. JobShape'
  BY DEF TypeOK, RowShape, JobShape, RetentionShape, Row, Job, Stored, Settled,
         Unsettled
<1>4. RetentionShape'
  BY DEF TypeOK, RowShape, RetentionShape, Row, Stored, Settled, Unsettled
<1>5. OneRowPerMessage'
  BY DEF TypeOK, RowShape, OneRowPerMessage, Row
<1>6. OutboxAgrees'
  BY DEF TypeOK, RetentionShape, OutboxAgrees, Settled
<1> QED
  BY <1>1, <1>2, <1>3, <1>4, <1>5, <1>6

LEMMA BaseDrop ==
    ASSUME Base, NEW w \in Workers, Drop(w)
    PROVE  Base'
<1> USE DEF Base, Drop, CompleteMessage, BlankRow, NoJob, Queued, Busy
<1>1. TypeOK'
  BY DEF TypeOK, JobShape, Row, Job, Phases, Outcomes, Status, Stored, Settled, Unsettled, RetentionShape
<1>2. RowShape'
  BY DEF TypeOK, RowShape, RetentionShape, Row, Stored, Settled, Unsettled
<1>3. JobShape'
  BY DEF TypeOK, RowShape, JobShape, RetentionShape, Row, Job, Stored, Settled,
         Unsettled
<1>4. RetentionShape'
  BY DEF TypeOK, RowShape, RetentionShape, Row, Stored, Settled, Unsettled
<1>5. OneRowPerMessage'
  BY DEF TypeOK, RowShape, OneRowPerMessage, Row
<1>6. OutboxAgrees'
  BY DEF TypeOK, RetentionShape, OutboxAgrees, Settled
<1> QED
  BY <1>1, <1>2, <1>3, <1>4, <1>5, <1>6

LEMMA BaseCheckSuppression ==
    ASSUME Base, NEW w \in Workers, CheckSuppression(w)
    PROVE  Base'
<1> USE DEF Base, CheckSuppression, Queued, Busy
<1>1. TypeOK'
  <2>1. job[w] \in Job
    BY DEF TypeOK
  <2>2. /\ [job[w] EXCEPT !.phase = "record", !.outcome = "Held"] \in Job
        /\ [job[w] EXCEPT !.phase = "sending"] \in Job
    BY <2>1 DEF Job, Phases
  <2>3. job' \in [Workers -> Job]
    BY <2>2 DEF TypeOK
  <2> QED
    BY <2>3 DEF TypeOK
<1>2. RowShape'
  BY DEF TypeOK, RowShape, RetentionShape, Row, Stored, Settled, Unsettled
<1>3. JobShape'
  BY DEF TypeOK, RowShape, JobShape, RetentionShape, Row, Job, Stored, Settled,
         Unsettled
<1>4. RetentionShape'
  BY DEF TypeOK, RowShape, RetentionShape, Row, Stored, Settled, Unsettled
<1>5. OneRowPerMessage'
  BY DEF TypeOK, RowShape, OneRowPerMessage, Row
<1>6. OutboxAgrees'
  BY DEF TypeOK, RetentionShape, OutboxAgrees, Settled
<1> QED
  BY <1>1, <1>2, <1>3, <1>4, <1>5, <1>6

LEMMA BaseSend ==
    ASSUME Base, NEW w \in Workers, NEW o \in Outcomes, Send(w, o)
    PROVE  Base'
<1> USE DEF Base, Send, Queued, Busy
<1>1. TypeOK'
  <2>1. job[w] \in Job
    BY DEF TypeOK
  <2>2. [job[w] EXCEPT !.phase = "record", !.outcome = o] \in Job
    BY <2>1 DEF Job, Phases
  <2>3. job' \in [Workers -> Job]
    BY <2>2 DEF TypeOK
  <2>4. handed' \in [Messages -> BOOLEAN]
    BY DEF TypeOK, JobShape
  <2> QED
    BY <2>3, <2>4 DEF TypeOK
<1>2. RowShape'
  BY DEF TypeOK, RowShape, RetentionShape, Row, Stored, Settled, Unsettled
<1>3. JobShape'
  BY DEF TypeOK, RowShape, JobShape, RetentionShape, Row, Job, Stored, Settled,
         Unsettled, Outcomes
<1>4. RetentionShape'
  BY DEF TypeOK, RowShape, RetentionShape, Row, Stored, Settled, Unsettled
<1>5. OneRowPerMessage'
  BY DEF TypeOK, RowShape, OneRowPerMessage, Row
<1>6. OutboxAgrees'
  BY DEF TypeOK, RetentionShape, OutboxAgrees, Settled
<1> QED
  BY <1>1, <1>2, <1>3, <1>4, <1>5, <1>6

(* Recording never adds a row, revives one or makes a message (dis)appear. *)
LEMMA RecordEffect ==
    ASSUME Base, NEW w \in Workers, Record(w)
    PROVE  /\ queue' \in [RowIds -> Row]
           /\ \A q \in RowIds :
                /\ queue'[q].st = "queued" => queue[q].st = "queued" /\ queue'[q].msg = queue[q].msg
                /\ queue'[q].st = "free" <=> queue[q].st = "free"
           /\ status' \in [Messages -> Status]
           /\ \A m \in Messages : /\ status'[m] = "Absent" <=> status[m] = "Absent"
                                  /\ status'[m] \in Stored <=> status[m] \in Stored
<1>1. job[w].row \in RowIds /\ job[w].msg \in Messages
  BY DEF Base, JobShape, Busy, Record
<1>2. Verdict(job[w]) \in {"Sent", "SoftFail", "HardFail", "Held"}
  BY DEF Base, TypeOK, JobShape, Busy, Record, Verdict, Job, Outcomes
<1>3. queue' = RetryMessage(job[w].row) \/ queue' = CompleteMessage(job[w].row)
  BY DEF Record
<1>4. /\ queue' \in [RowIds -> Row]
      /\ \A q \in RowIds :
                /\ queue'[q].st = "queued" => queue[q].st = "queued" /\ queue'[q].msg = queue[q].msg
                /\ queue'[q].st = "free" <=> queue[q].st = "free"
  BY <1>1, <1>3, Completed, Retried DEF Base
<1>5. CASE status[job[w].msg] \in Recordable
  <2>1. status' = [status EXCEPT ![job[w].msg] = Verdict(job[w])]
    BY <1>5 DEF Record
  <2> QED
    BY <1>1, <1>2, <1>4, <1>5, <2>1 DEF Base, TypeOK, Recordable, Stored, Settled, Unsettled, Status
<1>6. CASE status[job[w].msg] \notin Recordable
  BY <1>4, <1>6 DEF Base, TypeOK, Record
<1> QED
  BY <1>5, <1>6

LEMMA BaseRecord ==
    ASSUME Base, NEW w \in Workers, Record(w)
    PROVE  Base'
<1> USE RecordEffect DEF Base
<1>1. job' = [job EXCEPT ![w] = NoJob] /\ retention' = retention
  BY DEF Record
<1>2. TypeOK'
  <2>1. NoJob \in Job
    BY DEF NoJob, Job, Phases, Outcomes, Status
  <2>2. job' \in [Workers -> Job]
    BY <1>1, <2>1 DEF TypeOK
  <2>3. delivery' \in [Messages -> Status] /\ event' \in [Messages -> Status]
    <3>1. Verdict(job[w]) \in Status
      BY DEF TypeOK, JobShape, Busy, Record, Verdict, Job, Outcomes, Status, Stored, Settled, Unsettled
    <3> QED
      BY <3>1 DEF Record, TypeOK
  <2> QED
    BY <2>2, <2>3 DEF TypeOK, Record
<1>3. RowShape'
  BY DEF RowShape, Queued
<1>4. JobShape'
  BY <1>1 DEF JobShape, TypeOK, Queued, Busy, NoJob
<1>5. RetentionShape'
  BY <1>1 DEF RetentionShape, TypeOK, Queued
<1>6. OneRowPerMessage'
  BY DEF OneRowPerMessage, Queued
<1>7. OutboxAgrees'
  BY DEF TypeOK, OutboxAgrees, Record
<1> QED
  BY <1>2, <1>3, <1>4, <1>5, <1>6, <1>7

LEMMA BaseAbandon ==
    ASSUME Base, NEW w \in Workers, Abandon(w)
    PROVE  Base'
<1> USE DEF Base, Abandon, NoJob, Queued, Busy
<1>1. TypeOK'
  BY DEF TypeOK, JobShape, Row, Job, Phases, Outcomes, Status, Stored, Settled, Unsettled, RetentionShape
<1>2. RowShape'
  BY DEF TypeOK, RowShape, RetentionShape, Row, Stored, Settled, Unsettled
<1>3. JobShape'
  BY DEF TypeOK, RowShape, JobShape, RetentionShape, Row, Job, Stored, Settled,
         Unsettled
<1>4. RetentionShape'
  BY DEF TypeOK, RowShape, RetentionShape, Row, Stored, Settled, Unsettled
<1>5. OneRowPerMessage'
  BY DEF TypeOK, RowShape, OneRowPerMessage, Row
<1>6. OutboxAgrees'
  BY DEF TypeOK, RetentionShape, OutboxAgrees, Settled
<1> QED
  BY <1>1, <1>2, <1>3, <1>4, <1>5, <1>6

LEMMA BaseBackoffElapses ==
    ASSUME Base, NEW r \in RowIds, BackoffElapses(r)
    PROVE  Base'
<1> USE DEF Base, BackoffElapses, Queued, Busy
<1>1. TypeOK'
  <2>1. queue[r] \in Row
    BY DEF TypeOK
  <2>2. [queue[r] EXCEPT !.due = TRUE] \in Row
    BY <2>1 DEF Row
  <2>3. queue' \in [RowIds -> Row]
    BY <2>2 DEF TypeOK
  <2> QED
    BY <2>3 DEF TypeOK
<1>2. RowShape'
  BY DEF TypeOK, RowShape, RetentionShape, Row, Stored, Settled, Unsettled
<1>3. JobShape'
  BY DEF TypeOK, RowShape, JobShape, RetentionShape, Row, Job, Stored, Settled,
         Unsettled
<1>4. RetentionShape'
  BY DEF TypeOK, RowShape, RetentionShape, Row, Stored, Settled, Unsettled
<1>5. OneRowPerMessage'
  BY DEF TypeOK, RowShape, OneRowPerMessage, Row
<1>6. OutboxAgrees'
  BY DEF TypeOK, RetentionShape, OutboxAgrees, Settled
<1> QED
  BY <1>1, <1>2, <1>3, <1>4, <1>5, <1>6

LEMMA BaseLockExpires ==
    ASSUME Base, NEW r \in RowIds, LockExpires(r)
    PROVE  Base'
<1> USE DEF Base, LockExpires, Queued, Busy
<1>1. TypeOK'
  <2>1. queue[r] \in Row
    BY DEF TypeOK
  <2>2. [queue[r] EXCEPT !.stale = TRUE] \in Row
    BY <2>1 DEF Row
  <2>3. queue' \in [RowIds -> Row]
    BY <2>2 DEF TypeOK
  <2> QED
    BY <2>3 DEF TypeOK
<1>2. RowShape'
  BY DEF TypeOK, RowShape, RetentionShape, Row, Stored, Settled, Unsettled
<1>3. JobShape'
  BY DEF TypeOK, RowShape, JobShape, RetentionShape, Row, Job, Stored, Settled,
         Unsettled
<1>4. RetentionShape'
  BY DEF TypeOK, RowShape, RetentionShape, Row, Stored, Settled, Unsettled
<1>5. OneRowPerMessage'
  BY DEF TypeOK, RowShape, OneRowPerMessage, Row
<1>6. OutboxAgrees'
  BY DEF TypeOK, RetentionShape, OutboxAgrees, Settled
<1> QED
  BY <1>1, <1>2, <1>3, <1>4, <1>5, <1>6

(* A retry request changes no row but its due time, or adds the only one. *)
LEMMA RequeueEffect ==
    ASSUME Base, NEW m \in Messages, RequeueOutbound(m)
    PROVE  /\ status[m] \in Retryable
           /\ status' = [status EXCEPT ![m] = "Pending"]
           /\ queue' \in [RowIds -> Row]
           /\ \/ /\ RowsOf(m) # {}
                 /\ \A q \in RowIds :
                       /\ queue'[q].st = queue[q].st
                       /\ queue'[q].msg = queue[q].msg
                       /\ queue'[q].attempts = queue[q].attempts
                       /\ queue'[q].lockedBy = queue[q].lockedBy
                       /\ queue'[q].stale = queue[q].stale
              \/ /\ RowsOf(m) = {}
                 /\ \E r \in RowIds :
                       /\ queue[r].st = "free"
                       /\ queue'[r] = FreshRow(m)
                       /\ \A q \in RowIds : q # r => queue'[q] = queue[q]
<1>0. status[m] \in Retryable /\ status' = [status EXCEPT ![m] = "Pending"]
  BY DEF RequeueOutbound
<1>1. CASE RowsOf(m) # {}
  <2>1. \A q \in RowIds : queue[q] \in Row /\ [queue[q] EXCEPT !.due = TRUE] \in Row
    <3>1. TAKE q \in RowIds
    <3>2. queue[q] \in Row
      BY DEF Base, TypeOK
    <3> QED
      BY <3>2 DEF Row
  <2>2. \A q \in RowIds : queue'[q] = queue[q] \/ queue'[q] = [queue[q] EXCEPT !.due = TRUE]
    BY <1>1 DEF RequeueOutbound
  <2>3. queue' \in [RowIds -> Row]
    BY <1>1, <2>1 DEF RequeueOutbound
  <2>4. ASSUME NEW q \in RowIds
        PROVE  /\ queue'[q].st = queue[q].st
               /\ queue'[q].msg = queue[q].msg
               /\ queue'[q].attempts = queue[q].attempts
               /\ queue'[q].lockedBy = queue[q].lockedBy
               /\ queue'[q].stale = queue[q].stale
    <3>1. CASE queue'[q] = queue[q]
      BY <3>1
    <3>2. CASE queue'[q] = [queue[q] EXCEPT !.due = TRUE]
      <4>1. queue[q] \in Row
        BY <2>1
      <4> QED
        BY <3>2, <4>1 DEF Row
    <3> QED
      BY <2>2, <3>1, <3>2
  <2> QED
    BY <1>0, <1>1, <2>3, <2>4
<1>2. CASE RowsOf(m) = {}
  <2>1. FreshRow(m) \in Row
    BY DEF FreshRow, Row
  <2>2. PICK r \in RowIds : queue[r].st = "free" /\ queue' = [queue EXCEPT ![r] = FreshRow(m)]
    BY <1>2 DEF RequeueOutbound
  <2>3. queue' \in [RowIds -> Row]
    BY <2>1, <2>2 DEF Base, TypeOK
  <2> QED
    BY <1>0, <1>2, <2>2, <2>3 DEF Base, TypeOK
<1> QED
  BY <1>1, <1>2

LEMMA BaseRequeueOutbound ==
    ASSUME Base, NEW m \in Messages, RequeueOutbound(m)
    PROVE  Base'
<1>0. /\ status[m] \in Retryable
      /\ status' = [status EXCEPT ![m] = "Pending"]
      /\ queue' \in [RowIds -> Row]
      /\ job' = job /\ retention' = retention
  BY RequeueEffect DEF RequeueOutbound
<1>1. TypeOK'
  BY <1>0 DEF Base, TypeOK, RequeueOutbound, Status, Stored, Unsettled
<1>5. OutboxAgrees'
  BY <1>0 DEF Base, TypeOK, OutboxAgrees, RequeueOutbound, Settled
<1>2. CASE \A q \in RowIds : queue'[q].st = queue[q].st /\ queue'[q].msg = queue[q].msg
  <2>1. RowShape'
    BY <1>0, <1>2 DEF Base, TypeOK, RowShape, Queued, Stored, Unsettled
  <2>2. JobShape'
    BY <1>0, <1>2 DEF Base, TypeOK, JobShape, Queued, Busy, Stored, Unsettled
  <2>3. RetentionShape'
    BY <1>0, <1>2 DEF Base, TypeOK, RetentionShape, Queued, Stored, Unsettled
  <2>4. OneRowPerMessage'
    BY <1>2 DEF Base, OneRowPerMessage, Queued
  <2> QED
    BY <1>1, <1>5, <2>1, <2>2, <2>3, <2>4 DEF Base
<1>3. CASE RowsOf(m) = {} /\ \E r \in RowIds :
                       /\ queue[r].st = "free"
                       /\ queue'[r] = FreshRow(m)
                       /\ \A q \in RowIds : q # r => queue'[q] = queue[q]
  <2>1. PICK r \in RowIds : /\ queue[r].st = "free"
                            /\ queue'[r] = FreshRow(m)
                            /\ \A q \in RowIds : q # r => queue'[q] = queue[q]
    BY <1>3
  <2>2. queue'[r].st = "queued" /\ queue'[r].msg = m
    BY <2>1 DEF FreshRow
  <2>3. RowShape'
    BY <1>0, <2>1, <2>2 DEF Base, TypeOK, RowShape, Queued
  <2>4. JobShape'
    BY <1>0, <2>1, <2>2 DEF Base, TypeOK, JobShape, Queued, Busy
  <2>5. RetentionShape'
    BY <1>0, <2>1, <2>2 DEF Base, TypeOK, RetentionShape, Queued, Stored, Unsettled
  <2>6. OneRowPerMessage'
    BY <1>3, <2>1, <2>2 DEF Base, OneRowPerMessage, Queued, RowsOf
  <2> QED
    BY <1>1, <1>5, <2>3, <2>4, <2>5, <2>6 DEF Base
<1> QED
  BY <1>2, <1>3, RequeueEffect

LEMMA BaseCorrelateBounce ==
    ASSUME Base, NEW m \in Messages, CorrelateBounce(m)
    PROVE  Base'
<1> USE DEF Base, CorrelateBounce, Queued, Busy
<1>1. TypeOK'
  BY DEF TypeOK, JobShape, Row, Job, Phases, Outcomes, Status, Stored, Settled, Unsettled, RetentionShape
<1>2. RowShape'
  BY DEF TypeOK, RowShape, RetentionShape, Row, Stored, Settled, Unsettled
<1>3. JobShape'
  BY DEF TypeOK, RowShape, JobShape, RetentionShape, Row, Job, Stored, Settled,
         Unsettled
<1>4. RetentionShape'
  BY DEF TypeOK, RowShape, RetentionShape, Row, Stored, Settled, Unsettled
<1>5. OneRowPerMessage'
  BY DEF TypeOK, RowShape, OneRowPerMessage, Row
<1>6. OutboxAgrees'
  BY DEF TypeOK, RetentionShape, OutboxAgrees, Settled
<1> QED
  BY <1>1, <1>2, <1>3, <1>4, <1>5, <1>6

LEMMA BaseToggleSuppression ==
    ASSUME Base, NEW m \in Messages, ToggleSuppression(m)
    PROVE  Base'
<1> USE DEF Base, ToggleSuppression, Queued, Busy
<1>1. TypeOK'
  BY DEF TypeOK, JobShape, Row, Job, Phases, Outcomes, Status, Stored, Settled, Unsettled, RetentionShape
<1>2. RowShape'
  BY DEF TypeOK, RowShape, RetentionShape, Row, Stored, Settled, Unsettled
<1>3. JobShape'
  BY DEF TypeOK, RowShape, JobShape, RetentionShape, Row, Job, Stored, Settled,
         Unsettled
<1>4. RetentionShape'
  BY DEF TypeOK, RowShape, RetentionShape, Row, Stored, Settled, Unsettled
<1>5. OneRowPerMessage'
  BY DEF TypeOK, RowShape, OneRowPerMessage, Row
<1>6. OutboxAgrees'
  BY DEF TypeOK, RetentionShape, OutboxAgrees, Settled
<1> QED
  BY <1>1, <1>2, <1>3, <1>4, <1>5, <1>6

LEMMA BasePurgeSelect ==
    ASSUME Base, NEW m \in Messages, PurgeSelect(m)
    PROVE  Base'
<1> USE DEF Base, PurgeSelect, Queued, Busy
<1>1. TypeOK'
  BY DEF TypeOK, JobShape, Row, Job, Phases, Outcomes, Status, Stored, Settled, Unsettled, RetentionShape
<1>2. RowShape'
  BY DEF TypeOK, RowShape, RetentionShape, Row, Stored, Settled, Unsettled
<1>3. JobShape'
  BY DEF TypeOK, RowShape, JobShape, RetentionShape, Row, Job, Stored, Settled,
         Unsettled
<1>4. RetentionShape'
  BY DEF TypeOK, RowShape, RetentionShape, Row, Stored, Settled, Unsettled
<1>5. OneRowPerMessage'
  BY DEF TypeOK, RowShape, OneRowPerMessage, Row
<1>6. OutboxAgrees'
  BY DEF TypeOK, RetentionShape, OutboxAgrees, Settled
<1> QED
  BY <1>1, <1>2, <1>3, <1>4, <1>5, <1>6

LEMMA BasePurgeUpdate ==
    ASSUME Base, PurgeUpdate
    PROVE  Base'
<1> USE DEF Base, PurgeUpdate, IdleRetention, Queued, Busy
<1>1. TypeOK'
  BY DEF TypeOK, JobShape, Row, Job, Phases, Outcomes, Status, Stored, Settled, Unsettled, RetentionShape
<1>2. RowShape'
  BY DEF TypeOK, RowShape, RetentionShape, Row, Stored, Settled, Unsettled
<1>3. JobShape'
  BY DEF TypeOK, RowShape, JobShape, RetentionShape, Row, Job, Stored, Settled,
         Unsettled
<1>4. RetentionShape'
  BY DEF TypeOK, RowShape, RetentionShape, Row, Stored, Settled, Unsettled
<1>5. OneRowPerMessage'
  BY DEF TypeOK, RowShape, OneRowPerMessage, Row
<1>6. OutboxAgrees'
  BY DEF TypeOK, RetentionShape, OutboxAgrees, Settled
<1> QED
  BY <1>1, <1>2, <1>3, <1>4, <1>5, <1>6

LEMMA BasePruneSelect ==
    ASSUME Base, NEW m \in Messages, PruneSelect(m)
    PROVE  Base'
<1> USE DEF Base, PruneSelect, RowsOf, Queued, Busy
<1>1. TypeOK'
  BY DEF TypeOK, JobShape, Row, Job, Phases, Outcomes, Status, Stored, Settled, Unsettled, RetentionShape
<1>2. RowShape'
  BY DEF TypeOK, RowShape, RetentionShape, Row, Stored, Settled, Unsettled
<1>3. JobShape'
  BY DEF TypeOK, RowShape, JobShape, RetentionShape, Row, Job, Stored, Settled,
         Unsettled
<1>4. RetentionShape'
  BY DEF TypeOK, RowShape, RetentionShape, Row, Stored, Settled, Unsettled
<1>5. OneRowPerMessage'
  BY DEF TypeOK, RowShape, OneRowPerMessage, Row
<1>6. OutboxAgrees'
  BY DEF TypeOK, RetentionShape, OutboxAgrees, Settled
<1> QED
  BY <1>1, <1>2, <1>3, <1>4, <1>5, <1>6

LEMMA BasePruneCommit ==
    ASSUME Base, PruneCommit
    PROVE  Base'
<1> USE DEF Base, PruneCommit, IdleRetention, BlankRow, Queued, Busy
<1>1. TypeOK'
  BY DEF TypeOK, JobShape, Row, Job, Phases, Outcomes, Status, Stored, Settled, Unsettled, RetentionShape
<1>2. RowShape'
  BY DEF TypeOK, RowShape, RetentionShape, Row, Stored, Settled, Unsettled
<1>3. JobShape'
  BY DEF TypeOK, RowShape, JobShape, RetentionShape, Row, Job, Stored, Settled,
         Unsettled
<1>4. RetentionShape'
  BY DEF TypeOK, RowShape, RetentionShape, Row, Stored, Settled, Unsettled
<1>5. OneRowPerMessage'
  BY DEF TypeOK, RowShape, OneRowPerMessage, Row
<1>6. OutboxAgrees'
  BY DEF TypeOK, RetentionShape, OutboxAgrees, Settled
<1> QED
  BY <1>1, <1>2, <1>3, <1>4, <1>5, <1>6

LEMMA BaseNext == Base /\ [Next]_vars => Base'
<1> SUFFICES ASSUME Base, [Next]_vars PROVE Base'
  OBVIOUS
<1>1. CASE UNCHANGED vars
  BY <1>1
  DEF vars, Base, TypeOK, RowShape, JobShape, RetentionShape, OneRowPerMessage,
      OutboxAgrees, Queued, Busy
<1>2. CASE \E w \in Workers : DeliveryThread(w)
  BY <1>2, BaseDequeue, BaseLoad, BaseDrop, BaseCheckSuppression, BaseSend,
     BaseRecord
  DEF DeliveryThread
<1>3. CASE Clock
  BY <1>3, BaseBackoffElapses, BaseLockExpires DEF Clock
<1>4. CASE Environment
  BY <1>4, BaseAccept, BaseImport, BaseRequeueOutbound, BaseCorrelateBounce,
     BaseToggleSuppression, BaseAbandon
  DEF Environment
<1>5. CASE Retention
  BY <1>5, BasePurgeSelect, BasePruneSelect, BasePurgeUpdate, BasePruneCommit
  DEF Retention
<1> QED
  BY <1>1, <1>2, <1>3, <1>4, <1>5 DEF Next

LEMMA BaseInvariant == Spec => []Base
<1>1. Init => Base
  BY BaseInit
<1>2. Base /\ [Next]_vars => Base'
  BY BaseNext
<1> QED
  BY <1>1, <1>2, PTL DEF Spec

(***************************************************************************)
(* Exclusive: the same, for workers that never outlast the lock window.    *)
(***************************************************************************)
LEMMA ExclusiveInit == Init => Exclusive
  BY BaseInit
  DEF Init, Exclusive, LockHeld, RowStatus, SeenHolds, NoStrandedMessage,
      AttemptsBounded, Queued, Busy, NoJob, BlankRow, Unsettled

LEMMA ExclusiveAccept ==
    ASSUME ~Overrun, Exclusive, Base', NEW m \in Messages, NEW r \in RowIds, Accept(m, r)
    PROVE  Exclusive'
<1> USE DEF Exclusive, Base, Accept, FreshRow, Queued, Busy, RowsOf
<1>1. LockHeld'
  BY DEF TypeOK, RowShape, JobShape, RetentionShape, LockHeld, Holders, Row,
         Job, Stored, Settled, Unsettled
<1>2. RowStatus'
  BY DEF TypeOK, RowShape, RetentionShape, RowStatus, Row, Stored, Settled,
         Unsettled
<1>3. SeenHolds'
  BY DEF TypeOK, JobShape, RetentionShape, SeenHolds, Job, Stored, Settled,
         Unsettled
<1>4. NoStrandedMessage'
  BY DEF TypeOK, RowShape, JobShape, RetentionShape, SeenHolds, LockHeld,
         NoStrandedMessage, Row, Stored, Settled, Unsettled
<1>5. AttemptsBounded'
  BY DEF TypeOK, AttemptsBounded, Row
<1> QED
  BY <1>1, <1>2, <1>3, <1>4, <1>5

LEMMA ExclusiveImport ==
    ASSUME ~Overrun, Exclusive, Base', NEW m \in Messages, NEW s \in Stored, Import(m, s)
    PROVE  Exclusive'
<1> USE DEF Exclusive, Base, Import, Queued, Busy, RowsOf
<1>1. LockHeld'
  BY DEF TypeOK, RowShape, JobShape, RetentionShape, LockHeld, Holders, Row,
         Job, Stored, Settled, Unsettled
<1>2. RowStatus'
  BY DEF TypeOK, RowShape, RetentionShape, RowStatus, Row, Stored, Settled,
         Unsettled
<1>3. SeenHolds'
  BY DEF TypeOK, JobShape, RetentionShape, SeenHolds, Job, Stored, Settled,
         Unsettled
<1>4. NoStrandedMessage'
  BY DEF TypeOK, RowShape, JobShape, RetentionShape, SeenHolds, LockHeld,
         NoStrandedMessage, Row, Stored, Settled, Unsettled
<1>5. AttemptsBounded'
  BY DEF TypeOK, AttemptsBounded, Row
<1> QED
  BY <1>1, <1>2, <1>3, <1>4, <1>5

LEMMA ExclusiveDequeue ==
    ASSUME ~Overrun, Exclusive, Base', NEW w \in Workers, NEW r \in RowIds, Dequeue(w, r)
    PROVE  Exclusive'
<1> USE DEF Exclusive, Base, Dequeue, Lockable, NoJob, Queued, Busy, RowsOf
<1>1. LockHeld'
  <2>1. /\ queue'[r].st = "queued" /\ queue'[r].lockedBy = w
        /\ ~queue'[r].stale /\ queue'[r].attempts = queue[r].attempts
        /\ \A q \in RowIds : q # r => queue'[q] = queue[q]
    BY DEF TypeOK, Row
  <2>2. /\ job'[w].row = r /\ job'[w].attempts = queue[r].attempts
        /\ \A v \in Workers : v # w => job'[v] = job[v]
    BY DEF TypeOK, Job
  <2>3. ASSUME NEW v \in Workers, v # w, Busy(v)  PROVE  job[v].row # r
    BY <2>3 DEF LockHeld
  <2> QED
    BY <2>1, <2>2, <2>3 DEF LockHeld, JobShape
<1>2. RowStatus'
  BY DEF TypeOK, RowShape, RetentionShape, RowStatus, Row, Stored, Settled,
         Unsettled
<1>3. SeenHolds'
  BY DEF TypeOK, JobShape, RetentionShape, SeenHolds, Job, Stored, Settled,
         Unsettled
<1>4. NoStrandedMessage'
  BY DEF TypeOK, RowShape, JobShape, RetentionShape, SeenHolds, LockHeld,
         NoStrandedMessage, Row, Stored, Settled, Unsettled
<1>5. AttemptsBounded'
  BY DEF TypeOK, AttemptsBounded, Row
<1> QED
  BY <1>1, <1>2, <1>3, <1>4, <1>5

LEMMA ExclusiveLoad ==
    ASSUME ~Overrun, Exclusive, Base', NEW w \in Workers, Load(w)
    PROVE  Exclusive'
<1> USE DEF Exclusive, Base, Load, Queued, Busy, RowsOf
<1>0. /\ job'[w].row = job[w].row /\ job'[w].msg = job[w].msg
      /\ job'[w].attempts = job[w].attempts /\ job'[w].seen = status[job[w].msg]
      /\ \A v \in Workers : v # w => job'[v] = job[v]
  BY DEF TypeOK, Job
<1>1. LockHeld'
  BY <1>0 DEF LockHeld
<1>2. RowStatus'
  BY DEF TypeOK, RowShape, RetentionShape, RowStatus, Row, Stored, Settled,
         Unsettled
<1>3. SeenHolds'
  BY <1>0 DEF SeenHolds
<1>4. NoStrandedMessage'
  BY DEF TypeOK, RowShape, JobShape, RetentionShape, SeenHolds, LockHeld,
         NoStrandedMessage, Row, Stored, Settled, Unsettled
<1>5. AttemptsBounded'
  BY DEF TypeOK, AttemptsBounded, Row
<1> QED
  BY <1>1, <1>2, <1>3, <1>4, <1>5

LEMMA ExclusiveDrop ==
    ASSUME ~Overrun, Exclusive, Base', NEW w \in Workers, Drop(w)
    PROVE  Exclusive'
<1> USE DEF Exclusive, Base, Drop, CompleteMessage, BlankRow, NoJob, Queued, Busy, RowsOf
<1>1. LockHeld'
  <2>1. job[w].row \in RowIds
    BY DEF JobShape
  <2>2. \A q \in RowIds : q # job[w].row => queue'[q] = queue[q]
    BY <2>1, Completed
  <2>3. /\ job'[w].phase = "idle"
        /\ \A v \in Workers : v # w => job'[v] = job[v]
    BY DEF TypeOK, Job
  <2>4. ASSUME NEW v \in Workers, v # w, Busy(v)
        PROVE  queue'[job[v].row] = queue[job[v].row]
    <3>1. CASE job[v].row # job[w].row
      BY <2>2, <2>4, <3>1 DEF JobShape
    <3>2. CASE job[v].row = job[w].row
      <4>1. ~Queued(job[w].row)
        BY <2>4, <3>2 DEF LockHeld
      <4> QED
        BY <3>2, <4>1
    <3> QED
      BY <3>1, <3>2
  <2> QED
    BY <2>3, <2>4 DEF LockHeld
<1>2. RowStatus'
  BY DEF TypeOK, RowShape, RetentionShape, RowStatus, Row, Stored, Settled,
         Unsettled
<1>3. SeenHolds'
  BY DEF TypeOK, JobShape, RetentionShape, SeenHolds, Job, Stored, Settled,
         Unsettled
<1>4. NoStrandedMessage'
  BY DEF TypeOK, RowShape, JobShape, RetentionShape, SeenHolds, LockHeld,
         NoStrandedMessage, Row, Stored, Settled, Unsettled
<1>5. AttemptsBounded'
  BY DEF TypeOK, AttemptsBounded, Row
<1> QED
  BY <1>1, <1>2, <1>3, <1>4, <1>5

LEMMA ExclusiveCheckSuppression ==
    ASSUME ~Overrun, Exclusive, Base', NEW w \in Workers, CheckSuppression(w)
    PROVE  Exclusive'
<1> USE DEF Exclusive, Base, CheckSuppression, Queued, Busy, RowsOf
<1>0. /\ job'[w].row = job[w].row /\ job'[w].msg = job[w].msg
      /\ job'[w].attempts = job[w].attempts /\ job'[w].seen = job[w].seen
      /\ \A v \in Workers : v # w => job'[v] = job[v]
  BY DEF TypeOK, Job
<1>1. LockHeld'
  BY <1>0 DEF LockHeld
<1>2. RowStatus'
  BY DEF TypeOK, RowShape, RetentionShape, RowStatus, Row, Stored, Settled,
         Unsettled
<1>3. SeenHolds'
  BY DEF TypeOK, JobShape, RetentionShape, SeenHolds, Job, Stored, Settled,
         Unsettled
<1>4. NoStrandedMessage'
  BY DEF TypeOK, RowShape, JobShape, RetentionShape, SeenHolds, LockHeld,
         NoStrandedMessage, Row, Stored, Settled, Unsettled
<1>5. AttemptsBounded'
  BY DEF TypeOK, AttemptsBounded, Row
<1> QED
  BY <1>1, <1>2, <1>3, <1>4, <1>5

LEMMA ExclusiveSend ==
    ASSUME ~Overrun, Exclusive, Base', NEW w \in Workers, NEW o \in Outcomes, Send(w, o)
    PROVE  Exclusive'
<1> USE DEF Exclusive, Base, Send, Queued, Busy, RowsOf
<1>1. LockHeld'
  BY DEF TypeOK, RowShape, JobShape, RetentionShape, LockHeld, Holders, Row,
         Job, Stored, Settled, Unsettled
<1>2. RowStatus'
  BY DEF TypeOK, RowShape, RetentionShape, RowStatus, Row, Stored, Settled,
         Unsettled
<1>3. SeenHolds'
  BY DEF TypeOK, JobShape, RetentionShape, SeenHolds, Job, Stored, Settled,
         Unsettled
<1>4. NoStrandedMessage'
  BY DEF TypeOK, RowShape, JobShape, RetentionShape, SeenHolds, LockHeld,
         NoStrandedMessage, Row, Stored, Settled, Unsettled
<1>5. AttemptsBounded'
  BY DEF TypeOK, AttemptsBounded, Row
<1> QED
  BY <1>1, <1>2, <1>3, <1>4, <1>5

LEMMA ExclusiveRecord ==
    ASSUME ~Overrun, Exclusive, Base', NEW w \in Workers, Record(w)
    PROVE  Exclusive'
<1> DEFINE j == job[w]
           s == Verdict(j)
<1>1. /\ j.row \in RowIds /\ j.msg \in Messages
      /\ job' = [job EXCEPT ![w] = NoJob]
      /\ imported' = imported
      /\ job \in [Workers -> Job] /\ status \in [Messages -> Status]
      /\ queue \in [RowIds -> Row]
  BY DEF Exclusive, Base, TypeOK, JobShape, Busy, Record
<1>2. s \in {"Sent", "SoftFail", "HardFail", "Held"}
  BY DEF Exclusive, Base, TypeOK, JobShape, Busy, Record, Verdict, Job, Outcomes
<1>3. \A v \in Workers : v # w => job'[v] = job[v]
  BY <1>1
<1>4. ~Busy(w)'
  BY <1>1 DEF Busy, NoJob
<1>5. ASSUME NEW v \in Workers, v # w, Busy(v), Queued(j.row)
      PROVE  job[v].row # j.row
  BY <1>5 DEF Exclusive, LockHeld, Busy, Record
<1>6. Queued(j.row) => queue[j.row].msg = j.msg
  BY DEF Exclusive, Base, JobShape, Busy, Record
<1>7. CASE status[j.msg] \notin Recordable
  <2>1. /\ queue' = CompleteMessage(j.row)
        /\ status' = status
    BY <1>7 DEF Record
  <2>2. /\ \A q \in RowIds : q # j.row => queue'[q] = queue[q]
        /\ queue'[j.row].st # "queued"
    BY <1>1, <2>1, Completed DEF Exclusive, Base
  <2>3. ~Queued(j.row) => queue' = queue
    BY <2>1 DEF CompleteMessage
  <2>4. status[j.msg] \notin Unsettled
    BY <1>7 DEF Recordable, Stored, Unsettled
  <2>5. LockHeld'
    BY <1>3, <1>4, <1>5, <2>1, <2>2, <2>3 DEF Exclusive, LockHeld, Busy, Queued, Base, JobShape
  <2>6. RowStatus' /\ AttemptsBounded'
    BY <2>1, <2>2 DEF Exclusive, RowStatus, AttemptsBounded, Queued
  <2>7. SeenHolds'
    BY <1>3, <1>4, <2>1 DEF Exclusive, SeenHolds, Busy
  <2>8. NoStrandedMessage'
    BY <1>1, <1>6, <2>1, <2>2, <2>3, <2>4 DEF Exclusive, NoStrandedMessage, RowsOf, Queued
  <2> QED
    BY <2>5, <2>6, <2>7, <2>8 DEF Exclusive
<1>8. ASSUME status[j.msg] \in Recordable
      PROVE  /\ Queued(j.row)
             /\ queue[j.row].lockedBy = w
             /\ queue[j.row].attempts = j.attempts
             /\ status' = [status EXCEPT ![j.msg] = s]
             /\ \A v \in Workers : v # w /\ Busy(v) => job[v].row # j.row /\ job[v].msg # j.msg
  <2>1. status[j.msg] # "Pruned"
    BY <1>8 DEF Recordable, Stored, Settled, Unsettled
  <2>2. /\ Queued(j.row)
        /\ queue[j.row].lockedBy = w
        /\ queue[j.row].attempts = j.attempts
    BY <2>1 DEF Exclusive, LockHeld, Busy, Record
  <2>3. ASSUME NEW v \in Workers, v # w, Busy(v)
        PROVE  job[v].row # j.row /\ job[v].msg # j.msg
    <3>1. job[v].row # j.row
      BY <1>5, <2>2, <2>3
    <3>2. CASE Queued(job[v].row)
      BY <1>1, <1>6, <2>2, <2>3, <3>1, <3>2 DEF Exclusive, Base, OneRowPerMessage, JobShape
    <3>3. CASE ~Queued(job[v].row)
      BY <2>1, <2>3, <3>1, <3>3 DEF Exclusive, LockHeld
    <3> QED
      BY <3>1, <3>2, <3>3
  <2>4. status' = [status EXCEPT ![j.msg] = s]
    BY <1>8 DEF Record
  <2> QED
    BY <2>2, <2>3, <2>4
<1>9. CASE status[j.msg] \in Recordable /\ s = "SoftFail"
  <2>1. queue' = RetryMessage(j.row)
    BY <1>9 DEF Record
  <2>2. /\ \A q \in RowIds : q # j.row => queue'[q] = queue[q]
        /\ queue'[j.row].st = queue[j.row].st
        /\ queue'[j.row].msg = queue[j.row].msg
        /\ Queued(j.row) => queue'[j.row].attempts = queue[j.row].attempts + 1
    BY <1>1, <2>1, Retried DEF Exclusive, Base, Queued
  <2>3. j.attempts + 1 < MaxAttempts
    <3>1. j.attempts \in Nat
      BY <1>1 DEF Job
    <3> QED
      BY <1>9, <3>1 DEF Verdict, Exhausted
  <2>4. LockHeld'
    BY <1>1, <1>3, <1>4, <1>8, <1>9, <2>2 DEF Exclusive, LockHeld, Busy, Queued, Base, JobShape
  <2>5. RowStatus'
    BY <1>1, <1>6, <1>8, <1>9, <2>2 DEF Exclusive, RowStatus, Queued, Unsettled, Base, RowShape
  <2>6. SeenHolds'
    BY <1>1, <1>3, <1>4, <1>8, <1>9 DEF Exclusive, SeenHolds, Busy, Base, JobShape
  <2>7. NoStrandedMessage'
    BY <1>1, <1>6, <1>8, <1>9, <2>2 DEF Exclusive, NoStrandedMessage, RowsOf, Queued
  <2>8. AttemptsBounded'
    BY <1>8, <1>9, <2>2, <2>3 DEF Exclusive, AttemptsBounded, Queued
  <2> QED
    BY <2>4, <2>5, <2>6, <2>7, <2>8 DEF Exclusive
<1>10. CASE status[j.msg] \in Recordable /\ s # "SoftFail"
  <2>1. queue' = CompleteMessage(j.row)
    BY <1>10 DEF Record
  <2>2. /\ \A q \in RowIds : q # j.row => queue'[q] = queue[q]
        /\ queue'[j.row].st # "queued"
    BY <1>1, <2>1, Completed DEF Exclusive, Base
  <2>3. \A q \in RowIds : queue'[q].st = "queued" => queue'[q] = queue[q] /\ queue[q].msg # j.msg
    BY <1>1, <1>6, <1>8, <1>10, <2>2 DEF Exclusive, Base, OneRowPerMessage, Queued
  <2>4. LockHeld'
    BY <1>1, <1>3, <1>4, <1>8, <1>10, <2>2 DEF Exclusive, LockHeld, Busy, Queued, Base, JobShape
  <2>5. RowStatus'
    BY <1>1, <1>8, <1>10, <2>3 DEF Exclusive, RowStatus, Queued, Base, RowShape
  <2>6. SeenHolds'
    BY <1>1, <1>3, <1>4, <1>8, <1>10 DEF Exclusive, SeenHolds, Busy, Base, JobShape
  <2>7. NoStrandedMessage'
    BY <1>1, <1>2, <1>6, <1>8, <1>10, <2>2 DEF Exclusive, NoStrandedMessage, RowsOf, Queued, Unsettled
  <2>8. AttemptsBounded'
    BY <2>3 DEF Exclusive, AttemptsBounded, Queued
  <2> QED
    BY <2>4, <2>5, <2>6, <2>7, <2>8 DEF Exclusive
<1> QED
  BY <1>7, <1>9, <1>10

LEMMA ExclusiveAbandon ==
    ASSUME ~Overrun, Exclusive, Base', NEW w \in Workers, Abandon(w)
    PROVE  Exclusive'
<1> USE DEF Exclusive, Base, Abandon, NoJob, Queued, Busy, RowsOf
<1>1. LockHeld'
  BY DEF TypeOK, RowShape, JobShape, RetentionShape, LockHeld, Holders, Row,
         Job, Stored, Settled, Unsettled
<1>2. RowStatus'
  BY DEF TypeOK, RowShape, RetentionShape, RowStatus, Row, Stored, Settled,
         Unsettled
<1>3. SeenHolds'
  BY DEF TypeOK, JobShape, RetentionShape, SeenHolds, Job, Stored, Settled,
         Unsettled
<1>4. NoStrandedMessage'
  BY DEF TypeOK, RowShape, JobShape, RetentionShape, SeenHolds, LockHeld,
         NoStrandedMessage, Row, Stored, Settled, Unsettled
<1>5. AttemptsBounded'
  BY DEF TypeOK, AttemptsBounded, Row
<1> QED
  BY <1>1, <1>2, <1>3, <1>4, <1>5

LEMMA ExclusiveBackoffElapses ==
    ASSUME ~Overrun, Exclusive, Base', NEW r \in RowIds, BackoffElapses(r)
    PROVE  Exclusive'
<1> USE DEF Exclusive, Base, BackoffElapses, Queued, Busy, RowsOf
<1>1. LockHeld'
  BY DEF TypeOK, RowShape, JobShape, RetentionShape, LockHeld, Holders, Row,
         Job, Stored, Settled, Unsettled
<1>2. RowStatus'
  BY DEF TypeOK, RowShape, RetentionShape, RowStatus, Row, Stored, Settled,
         Unsettled
<1>3. SeenHolds'
  BY DEF TypeOK, JobShape, RetentionShape, SeenHolds, Job, Stored, Settled,
         Unsettled
<1>4. NoStrandedMessage'
  BY DEF TypeOK, RowShape, JobShape, RetentionShape, SeenHolds, LockHeld,
         NoStrandedMessage, Row, Stored, Settled, Unsettled
<1>5. AttemptsBounded'
  BY DEF TypeOK, AttemptsBounded, Row
<1> QED
  BY <1>1, <1>2, <1>3, <1>4, <1>5

LEMMA ExclusiveLockExpires ==
    ASSUME ~Overrun, Exclusive, Base', NEW r \in RowIds, LockExpires(r)
    PROVE  Exclusive'
<1> USE DEF Exclusive, Base, LockExpires, Queued, Busy, RowsOf
<1>1. LockHeld'
  BY DEF TypeOK, RowShape, JobShape, RetentionShape, LockHeld, Holders, Row,
         Job, Stored, Settled, Unsettled
<1>2. RowStatus'
  BY DEF TypeOK, RowShape, RetentionShape, RowStatus, Row, Stored, Settled,
         Unsettled
<1>3. SeenHolds'
  BY DEF TypeOK, JobShape, RetentionShape, SeenHolds, Job, Stored, Settled,
         Unsettled
<1>4. NoStrandedMessage'
  BY DEF TypeOK, RowShape, JobShape, RetentionShape, SeenHolds, LockHeld,
         NoStrandedMessage, Row, Stored, Settled, Unsettled
<1>5. AttemptsBounded'
  BY DEF TypeOK, AttemptsBounded, Row
<1> QED
  BY <1>1, <1>2, <1>3, <1>4, <1>5

LEMMA ExclusiveRequeueOutbound ==
    ASSUME ~Overrun, Exclusive, Base', NEW m \in Messages, RequeueOutbound(m)
    PROVE  Exclusive'
<1>1. /\ status[m] \in Retryable
      /\ status' = [status EXCEPT ![m] = "Pending"]
      /\ job' = job /\ imported' = imported
      /\ status \in [Messages -> Status]
  BY RequeueEffect DEF RequeueOutbound, Exclusive, Base, TypeOK
<1>2. SeenHolds'
  BY <1>1 DEF Exclusive, SeenHolds, Busy, Retryable, Base, JobShape
<1>3. CASE RowsOf(m) # {} /\ \A q \in RowIds :
              /\ queue'[q].st = queue[q].st
              /\ queue'[q].msg = queue[q].msg
              /\ queue'[q].attempts = queue[q].attempts
              /\ queue'[q].lockedBy = queue[q].lockedBy
              /\ queue'[q].stale = queue[q].stale
  <2>1. LockHeld'
    BY <1>1, <1>3 DEF Exclusive, LockHeld, Busy, Queued, Base, JobShape, Retryable
  <2>2. RowStatus' /\ AttemptsBounded'
    BY <1>1, <1>3 DEF Exclusive, RowStatus, AttemptsBounded, Queued, Base, RowShape, Unsettled
  <2>3. NoStrandedMessage'
    BY <1>1, <1>3 DEF Exclusive, NoStrandedMessage, RowsOf, Queued
  <2> QED
    BY <1>2, <2>1, <2>2, <2>3 DEF Exclusive
<1>4. CASE RowsOf(m) = {} /\ \E r \in RowIds :
              /\ queue[r].st = "free"
              /\ queue'[r] = FreshRow(m)
              /\ \A q \in RowIds : q # r => queue'[q] = queue[q]
  <2>1. PICK r \in RowIds : /\ queue[r].st = "free"
                            /\ queue'[r] = FreshRow(m)
                            /\ \A q \in RowIds : q # r => queue'[q] = queue[q]
    BY <1>4
  <2>2. queue'[r].st = "queued" /\ queue'[r].msg = m /\ queue'[r].attempts = 0
    BY <2>1 DEF FreshRow
  <2>3. LockHeld'
    BY <1>1, <2>1 DEF Exclusive, LockHeld, Busy, Queued, Base, JobShape, Retryable
  <2>4. RowStatus' /\ AttemptsBounded'
    BY <1>1, <2>1, <2>2 DEF Exclusive, RowStatus, AttemptsBounded, Queued, Base, RowShape, Unsettled
  <2>5. NoStrandedMessage'
    BY <1>1, <2>1, <2>2 DEF Exclusive, NoStrandedMessage, RowsOf, Queued
  <2> QED
    BY <1>2, <2>3, <2>4, <2>5 DEF Exclusive
<1> QED
  BY <1>3, <1>4, RequeueEffect DEF Exclusive

LEMMA ExclusiveCorrelateBounce ==
    ASSUME ~Overrun, Exclusive, Base', NEW m \in Messages, CorrelateBounce(m)
    PROVE  Exclusive'
<1> USE DEF Exclusive, Base, CorrelateBounce, Queued, Busy, RowsOf
<1>1. LockHeld'
  BY DEF TypeOK, RowShape, JobShape, RetentionShape, LockHeld, Holders, Row,
         Job, Stored, Settled, Unsettled
<1>2. RowStatus'
  BY DEF TypeOK, RowShape, RetentionShape, RowStatus, Row, Stored, Settled,
         Unsettled
<1>3. SeenHolds'
  BY DEF TypeOK, JobShape, RetentionShape, SeenHolds, Job, Stored, Settled,
         Unsettled
<1>4. NoStrandedMessage'
  BY DEF TypeOK, RowShape, JobShape, RetentionShape, SeenHolds, LockHeld,
         NoStrandedMessage, Row, Stored, Settled, Unsettled
<1>5. AttemptsBounded'
  BY DEF TypeOK, AttemptsBounded, Row
<1> QED
  BY <1>1, <1>2, <1>3, <1>4, <1>5

LEMMA ExclusiveToggleSuppression ==
    ASSUME ~Overrun, Exclusive, Base', NEW m \in Messages, ToggleSuppression(m)
    PROVE  Exclusive'
<1> USE DEF Exclusive, Base, ToggleSuppression, Queued, Busy, RowsOf
<1>1. LockHeld'
  BY DEF TypeOK, RowShape, JobShape, RetentionShape, LockHeld, Holders, Row,
         Job, Stored, Settled, Unsettled
<1>2. RowStatus'
  BY DEF TypeOK, RowShape, RetentionShape, RowStatus, Row, Stored, Settled,
         Unsettled
<1>3. SeenHolds'
  BY DEF TypeOK, JobShape, RetentionShape, SeenHolds, Job, Stored, Settled,
         Unsettled
<1>4. NoStrandedMessage'
  BY DEF TypeOK, RowShape, JobShape, RetentionShape, SeenHolds, LockHeld,
         NoStrandedMessage, Row, Stored, Settled, Unsettled
<1>5. AttemptsBounded'
  BY DEF TypeOK, AttemptsBounded, Row
<1> QED
  BY <1>1, <1>2, <1>3, <1>4, <1>5

LEMMA ExclusivePurgeSelect ==
    ASSUME ~Overrun, Exclusive, Base', NEW m \in Messages, PurgeSelect(m)
    PROVE  Exclusive'
<1> USE DEF Exclusive, Base, PurgeSelect, Queued, Busy, RowsOf
<1>1. LockHeld'
  BY DEF TypeOK, RowShape, JobShape, RetentionShape, LockHeld, Holders, Row,
         Job, Stored, Settled, Unsettled
<1>2. RowStatus'
  BY DEF TypeOK, RowShape, RetentionShape, RowStatus, Row, Stored, Settled,
         Unsettled
<1>3. SeenHolds'
  BY DEF TypeOK, JobShape, RetentionShape, SeenHolds, Job, Stored, Settled,
         Unsettled
<1>4. NoStrandedMessage'
  BY DEF TypeOK, RowShape, JobShape, RetentionShape, SeenHolds, LockHeld,
         NoStrandedMessage, Row, Stored, Settled, Unsettled
<1>5. AttemptsBounded'
  BY DEF TypeOK, AttemptsBounded, Row
<1> QED
  BY <1>1, <1>2, <1>3, <1>4, <1>5

LEMMA ExclusivePurgeUpdate ==
    ASSUME ~Overrun, Exclusive, Base', PurgeUpdate
    PROVE  Exclusive'
<1> USE DEF Exclusive, Base, PurgeUpdate, IdleRetention, Queued, Busy, RowsOf
<1>1. LockHeld'
  BY DEF TypeOK, RowShape, JobShape, RetentionShape, LockHeld, Holders, Row,
         Job, Stored, Settled, Unsettled
<1>2. RowStatus'
  BY DEF TypeOK, RowShape, RetentionShape, RowStatus, Row, Stored, Settled,
         Unsettled
<1>3. SeenHolds'
  BY DEF TypeOK, JobShape, RetentionShape, SeenHolds, Job, Stored, Settled,
         Unsettled
<1>4. NoStrandedMessage'
  BY DEF TypeOK, RowShape, JobShape, RetentionShape, SeenHolds, LockHeld,
         NoStrandedMessage, Row, Stored, Settled, Unsettled
<1>5. AttemptsBounded'
  BY DEF TypeOK, AttemptsBounded, Row
<1> QED
  BY <1>1, <1>2, <1>3, <1>4, <1>5

LEMMA ExclusivePruneSelect ==
    ASSUME ~Overrun, Exclusive, Base', NEW m \in Messages, PruneSelect(m)
    PROVE  Exclusive'
<1> USE DEF Exclusive, Base, PruneSelect, Queued, Busy, RowsOf
<1>1. LockHeld'
  BY DEF TypeOK, RowShape, JobShape, RetentionShape, LockHeld, Holders, Row,
         Job, Stored, Settled, Unsettled
<1>2. RowStatus'
  BY DEF TypeOK, RowShape, RetentionShape, RowStatus, Row, Stored, Settled,
         Unsettled
<1>3. SeenHolds'
  BY DEF TypeOK, JobShape, RetentionShape, SeenHolds, Job, Stored, Settled,
         Unsettled
<1>4. NoStrandedMessage'
  BY DEF TypeOK, RowShape, JobShape, RetentionShape, SeenHolds, LockHeld,
         NoStrandedMessage, Row, Stored, Settled, Unsettled
<1>5. AttemptsBounded'
  BY DEF TypeOK, AttemptsBounded, Row
<1> QED
  BY <1>1, <1>2, <1>3, <1>4, <1>5

LEMMA ExclusivePruneCommit ==
    ASSUME ~Overrun, Exclusive, Base', PruneCommit
    PROVE  Exclusive'
<1> USE DEF Exclusive, Base, PruneCommit, IdleRetention, BlankRow, Queued, Busy, RowsOf
<1>1. LockHeld'
  <2>1. \A q \in RowIds : \/ q \notin retention.rows /\ queue'[q] = queue[q]
                          \/ queue[q].st = "queued" /\ queue'[q].st = "deleted" /\ q \in retention.rows
                          \/ queue[q].st # "queued" /\ queue'[q] = queue[q]
    BY DEF TypeOK, Row
  <2>2. /\ status'[retention.msg] = "Pruned"
        /\ \A m \in Messages : m # retention.msg => status'[m] = status[m]
    BY DEF TypeOK, RetentionShape
  <2>3. ASSUME NEW v \in Workers, Busy(v)
        PROVE  \/ queue'[job[v].row] = queue[job[v].row]
               \/ queue'[job[v].row].st = "deleted" /\ job[v].msg = retention.msg
    BY <2>1, <2>3 DEF JobShape, RetentionShape
  <2>4. ASSUME NEW v \in Workers, Busy(v)
        PROVE  status[job[v].msg] = "Pruned" => status'[job[v].msg] = "Pruned"
    BY <2>2, <2>4 DEF JobShape
  <2> QED
    BY <2>2, <2>3, <2>4 DEF LockHeld
<1>2. RowStatus'
  BY DEF TypeOK, RowShape, RetentionShape, RowStatus, Row, Stored, Settled,
         Unsettled
<1>3. SeenHolds'
  BY DEF TypeOK, JobShape, RetentionShape, SeenHolds, Job, Stored, Settled,
         Unsettled
<1>4. NoStrandedMessage'
  BY DEF TypeOK, RowShape, JobShape, RetentionShape, SeenHolds, LockHeld,
         NoStrandedMessage, Row, Stored, Settled, Unsettled
<1>5. AttemptsBounded'
  BY DEF TypeOK, AttemptsBounded, Row
<1> QED
  BY <1>1, <1>2, <1>3, <1>4, <1>5

LEMMA ExclusiveNext ==
    ASSUME ~Overrun
    PROVE  Exclusive /\ [Next]_vars => Exclusive'
<1> SUFFICES ASSUME Exclusive, [Next]_vars PROVE Exclusive'
  OBVIOUS
<1>0. Base'
  BY BaseNext DEF Exclusive
<1>1. CASE UNCHANGED vars
  BY <1>0, <1>1
  DEF vars, Exclusive, LockHeld, RowStatus, SeenHolds, NoStrandedMessage,
      AttemptsBounded, RowsOf, Queued, Busy
<1>2. CASE \E w \in Workers : DeliveryThread(w)
  BY <1>0, <1>2, ExclusiveDequeue, ExclusiveLoad, ExclusiveDrop,
     ExclusiveCheckSuppression, ExclusiveSend, ExclusiveRecord
  DEF DeliveryThread
<1>3. CASE Clock
  BY <1>0, <1>3, ExclusiveBackoffElapses, ExclusiveLockExpires DEF Clock
<1>4. CASE Environment
  BY <1>0, <1>4, ExclusiveAccept, ExclusiveImport, ExclusiveRequeueOutbound,
     ExclusiveCorrelateBounce, ExclusiveToggleSuppression, ExclusiveAbandon
  DEF Environment
<1>5. CASE Retention
  BY <1>0, <1>5, ExclusivePurgeSelect, ExclusivePruneSelect,
     ExclusivePurgeUpdate, ExclusivePruneCommit
  DEF Retention
<1> QED
  BY <1>1, <1>2, <1>3, <1>4, <1>5 DEF Next

LEMMA ExclusiveInvariant ==
    ASSUME ~Overrun
    PROVE  Spec => []Exclusive
<1>1. Init => Exclusive
  BY ExclusiveInit
<1>2. Exclusive /\ [Next]_vars => Exclusive'
  BY ExclusiveNext
<1> QED
  BY <1>1, <1>2, PTL DEF Spec
-----------------------------------------------------------------------------
(***************************************************************************)
(* The theorems                                                            *)
(***************************************************************************)

(* The tables and the workers' memory keep their shape (no bound on any    *)
(* set of identities).                                                     *)
THEOREM TypeCorrect == Spec => []TypeOK
  BY BaseInvariant, PTL DEF Base

(* Neither a retry request nor a worker outliving its lock ever gives a     *)
(* message a second queue row.                                             *)
THEOREM SingleRow == Spec => []OneRowPerMessage
  BY BaseInvariant, PTL DEF Base

(* The status of a finished message, its newest delivery row and the newest *)
(* webhook event agree, because record_outbound_delivery and               *)
(* correlate_bounce write them in one transaction.                         *)
THEOREM OutboxIsConsistent == Spec => []OutboxAgrees
  BY BaseInvariant, PTL DEF Base

(* A bounce is never overwritten by what a worker, a retry request or an    *)
(* expired lock does later, even if workers outlive their locks.           *)
THEOREM BounceIsFinal == Spec => BouncedIsFinal
<1>1. Base /\ [Next]_vars =>
        [\A m \in Messages :
           status[m] = "Bounced" => status'[m] \in {"Bounced", "Pruned"}]_vars
  <2> SUFFICES ASSUME Base, Next, NEW m \in Messages, status[m] = "Bounced"
               PROVE  status'[m] \in {"Bounced", "Pruned"}
    OBVIOUS
  <2> USE DEF Base, TypeOK
  <2>1. CASE \E w \in Workers : DeliveryThread(w)
    BY <2>1
    DEF DeliveryThread, Dequeue, Load, Drop, CheckSuppression, Send, Record,
        Recordable
  <2>2. CASE Clock
    BY <2>2 DEF Clock, BackoffElapses, LockExpires
  <2>3. CASE Environment
    BY <2>3
    DEF Environment, Accept, Import, RequeueOutbound, CorrelateBounce,
        ToggleSuppression, Abandon, Retryable
  <2>4. CASE Retention
    BY <2>4
    DEF Retention, PurgeSelect, PurgeUpdate, PruneSelect, PruneCommit
  <2> QED
    BY <2>1, <2>2, <2>3, <2>4 DEF Next
<1> QED
  BY <1>1, BaseInvariant, PTL DEF Spec, BouncedIsFinal

(* While no worker outlives its lock, no accepted message is left without   *)
(* a queue row: not by crashes, bounces, retry requests or retention.      *)
THEOREM NothingStranded ==
    ASSUME ~Overrun
    PROVE  Spec => []NoStrandedMessage
  BY ExclusiveInvariant, PTL DEF Exclusive

(* While no worker outlives its lock, the give-up limit holds. *)
THEOREM AttemptsStayBounded ==
    ASSUME ~Overrun
    PROVE  Spec => []AttemptsBounded
  BY ExclusiveInvariant, PTL DEF Exclusive

(* While no worker outlives its lock, no settled message is handed to a     *)
(* remote server again.                                                    *)
THEOREM SettledIsNotSent ==
    ASSUME ~Overrun
    PROVE  Spec => NoSendAfterSettled
<1>1. Exclusive /\ [Next]_vars =>
        [\A w \in Workers :
           job[w].phase = "sending" /\ job'[w].outcome \in Outcomes
           => status[job[w].msg] \notin {"Sent", "Held", "HardFail"}]_vars
  BY DEF Exclusive, Base, JobShape, LockHeld, RowStatus, Busy, Unsettled
<1> QED
  BY <1>1, ExclusiveInvariant, PTL DEF Spec, NoSendAfterSettled

(* While no worker outlives its lock, the pipeline implements the message   *)
(* API's promise: every change of a message's status is one the abstract   *)
(* lifecycle allows, announced as it says.                                 *)
THEOREM DeliveryImplementsLifecycle ==
    ASSUME ~Overrun
    PROVE  Spec => ImplementsLifecycle
<1>1. Init => Lifecycle!Init
  BY DEF Init, Lifecycle!Init
<1>2. Exclusive /\ [Next]_vars => [Lifecycle!Next]_(Lifecycle!vars)
  <2> SUFFICES ASSUME Exclusive, [Next]_vars, ~UNCHANGED <<status, event>>
               PROVE  Lifecycle!Next
    BY DEF Lifecycle!vars
  <2> USE DEF Stored, Settled, Unsettled, Lifecycle!Stored, Lifecycle!Settled,
              Lifecycle!Unsettled
  <2>1. ASSUME NEW w \in Workers, DeliveryThread(w)
        PROVE  Lifecycle!Next
    <3> DEFINE j == job[w]
    <3>1. Record(w)
      BY <2>1 DEF DeliveryThread, Dequeue, Load, Drop, CheckSuppression, Send
    <3>2. /\ j.msg \in Messages
          /\ Verdict(j) \in {"Sent", "SoftFail", "HardFail", "Held"}
      BY <3>1 DEF Exclusive, Base, TypeOK, JobShape, Busy, Record, Verdict, Job,
                  Outcomes
    <3>3. status[j.msg] \in Recordable
      BY <3>1 DEF Record
    <3>4. status[j.msg] \in Unsettled
      BY <3>1, <3>3 DEF Exclusive, Base, JobShape, LockHeld, RowStatus, Busy,
                        Record, Recordable
    <3>5. Lifecycle!Attempt(j.msg, Verdict(j))
      BY <3>1, <3>2, <3>3, <3>4 DEF Record, Lifecycle!Attempt
    <3> QED
      BY <3>2, <3>5 DEF Lifecycle!Next
  <2>2. CASE Clock
    BY <2>2 DEF Clock, BackoffElapses, LockExpires
  <2>3. CASE Environment
    <3>1. ASSUME NEW m \in Messages, NEW r \in RowIds, Accept(m, r)
          PROVE  Lifecycle!Next
      <4>1. Lifecycle!Create(m, "Pending")
        BY <3>1 DEF Accept, Lifecycle!Create
      <4> QED
        BY <4>1 DEF Lifecycle!Next
    <3>2. ASSUME NEW m \in Messages, NEW s \in Stored, Import(m, s)
          PROVE  Lifecycle!Next
      <4>1. Lifecycle!Create(m, s)
        BY <3>2 DEF Import, Lifecycle!Create
      <4> QED
        BY <4>1 DEF Lifecycle!Next
    <3>3. ASSUME NEW m \in Messages, RequeueOutbound(m)
          PROVE  Lifecycle!Next
      <4>1. Lifecycle!Retry(m)
        BY <3>3 DEF RequeueOutbound, Retryable, Lifecycle!Retry,
                    Lifecycle!Retryable
      <4> QED
        BY <4>1 DEF Lifecycle!Next
    <3>4. ASSUME NEW m \in Messages, CorrelateBounce(m)
          PROVE  Lifecycle!Next
      <4>1. Lifecycle!Bounce(m)
        BY <3>4 DEF CorrelateBounce, Lifecycle!Bounce
      <4> QED
        BY <4>1 DEF Lifecycle!Next
    <3> QED
      BY <2>3, <3>1, <3>2, <3>3, <3>4
      DEF Environment, ToggleSuppression, Abandon
  <2>4. CASE Retention
    <3>1. CASE PruneCommit
      <4>1. retention.msg \in Messages /\ status[retention.msg] \in Stored
        BY <3>1 DEF Exclusive, Base, RetentionShape, PruneCommit
      <4>2. Lifecycle!Prune(retention.msg)
        BY <3>1, <4>1 DEF PruneCommit, Lifecycle!Prune
      <4> QED
        BY <4>1, <4>2 DEF Lifecycle!Next
    <3> QED
      BY <2>4, <3>1 DEF Retention, PurgeSelect, PurgeUpdate, PruneSelect
  <2> QED
    BY <2>1, <2>2, <2>3, <2>4 DEF Next, vars
<1> QED
  BY <1>1, <1>2, ExclusiveInvariant, PTL
  DEF Spec, ImplementsLifecycle, Lifecycle!Spec
=============================================================================
