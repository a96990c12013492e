---------------------------- MODULE WebhookOutbox ---------------------------
(***************************************************************************)
(* The two outboxes of the system: webhook_requests, which announces the   *)
(* events of messages to a tenant's webhooks, and lifecycle_events, which  *)
(* announces organizations, users and thresholds to the operator's URLs.   *)
(* The transaction of an event writes the rows; the main loop of each      *)
(* worker takes one row of each outbox in turn, posts it, and removes it   *)
(* or puts it back with a delay.                                           *)
(*                                                                         *)
(* Which events there are is the subject of Delivery and Submission.  Here *)
(* events are numbered, a row is named by its event and its webhook, 0 for *)
(* a row of lifecycle_events, and the webhooks are numbered by their id.   *)
(***************************************************************************)
EXTENDS Integers

CONSTANTS
    NumHooks,     \* webhooks of the server
    Urls,         \* lifecycle_webhooks.urls, where they are configured
    Receiver,     \* the one URL of a webhook
    Workers,      \* worker processes
    NoWorker,
    MaxAttempts,  \* WEBHOOK_MAX_ATTEMPTS
    Overrun,      \* may a delivery outlast its lock?
    MaxEvents, MaxChanges, MaxCrashes   \* bounds

ASSUME OutboxAssumption ==
    /\ NumHooks \in Nat /\ MaxEvents \in Nat
    /\ MaxAttempts \in Nat \ {0}
    /\ MaxChanges \in Nat /\ MaxCrashes \in Nat
    /\ Overrun \in BOOLEAN
    /\ Receiver \notin Urls
    /\ NoWorker \notin Workers

Hooks     == 1..NumHooks
Lifecycle == 0
Keys      == (1..MaxEvents) \X (0..NumHooks)
NoKey     == <<0, 0>>

VARIABLES
    hooks,    \* webhooks: "absent", "enabled", "disabled" or "deleted"
    urls,     \* lifecycle_webhooks.urls
    rows,     \* the two tables
    events,   \* events so far
    worker,   \* what each worker holds in memory
    past,     \* history: what has happened to each row
    changes, crashes

vars == <<hooks, urls, rows, events, worker, past, changes, crashes>>

Row == [st : {"none", "queued", "gone"}, attempts : Nat, due : BOOLEAN,
        holder : Workers \union {NoWorker}, stale : BOOLEAN]

Blank(st) == [st |-> st, attempts |-> 0, due |-> TRUE, holder |-> NoWorker,
              stale |-> FALSE]

Queued(k) == rows[k].st = "queued"

(* begun: attempts begun; failures: attempts recorded as failed; broken:   *)
(* attempts that were interrupted; answered: the URLs that said 2xx.       *)
Past == [begun : Nat, failures : Nat, broken : Nat,
         answered : SUBSET (Urls \union {Receiver})]

Job == [pc : {"idle", "guard", "post", "log", "finish"}, turn : {"webhook", "lifecycle"},
        key : Keys \union {NoKey}, attempts : Nat,
        left : SUBSET (Urls \union {Receiver}), failed : BOOLEAN]

Idle(turn) == [pc |-> "idle", turn |-> turn, key |-> NoKey, attempts |-> 0,
               left |-> {}, failed |-> FALSE]

Busy(w) == worker[w].pc # "idle"

(* A worker that is done with one outbox looks at the other. *)
Other(turn) == IF turn = "webhook" THEN "lifecycle" ELSE "webhook"

Init ==
    /\ hooks = [h \in Hooks |-> "absent"]
    /\ urls \in {Urls, {}}
    /\ rows = [k \in Keys |-> Blank("none")]
    /\ events = 0
    /\ worker = [w \in Workers |-> Idle("webhook")]
    /\ past = [k \in Keys |-> [begun |-> 0, failures |-> 0, broken |-> 0, answered |-> {}]]
    /\ changes = 0
    /\ crashes = 0

(***************************************************************************)
(* The tenant's webhooks                                                   *)
(***************************************************************************)
CreateWebhook(h) ==
    /\ hooks[h] = "absent"
    /\ hooks' = [hooks EXCEPT ![h] = "enabled"]
    /\ UNCHANGED <<urls, rows, events, worker, past, changes, crashes>>

UpdateWebhook(h, state) ==
    /\ hooks[h] \in {"enabled", "disabled"}
    /\ state \in {"enabled", "disabled"} \ {hooks[h]}
    /\ changes < MaxChanges
    /\ changes' = changes + 1
    /\ hooks' = [hooks EXCEPT ![h] = state]
    /\ UNCHANGED <<urls, rows, events, worker, past, crashes>>

(* Its requests are deleted with it. *)
DeleteWebhook(h) ==
    /\ hooks[h] \in {"enabled", "disabled"}
    /\ changes < MaxChanges
    /\ changes' = changes + 1
    /\ hooks' = [hooks EXCEPT ![h] = "deleted"]
    /\ rows' = [k \in Keys |-> IF k[2] = h /\ Queued(k) THEN Blank("gone") ELSE rows[k]]
    /\ UNCHANGED <<urls, events, worker, past, crashes>>

(***************************************************************************)
(* Events                                                                  *)
(***************************************************************************)
(* enqueue_webhook_requests, in the transaction of the event: a request    *)
(* for every enabled webhook whose list of events has it.                  *)
Enqueue(subscribed) ==
    /\ events < MaxEvents
    /\ \A h \in subscribed : hooks[h] = "enabled"
    /\ events' = events + 1
    /\ rows' = [k \in Keys |-> IF k[1] = events + 1 /\ k[2] \in subscribed
                               THEN Blank("queued") ELSE rows[k]]
    /\ UNCHANGED <<hooks, urls, worker, past, changes, crashes>>

(* A threshold is reached, or an organization or a user comes or goes; the *)
(* second kind is written only if somebody listens.                        *)
EnqueueLifecycle(threshold) ==
    /\ events < MaxEvents
    /\ threshold \/ urls # {}
    /\ events' = events + 1
    /\ rows' = [rows EXCEPT ![<<events + 1, Lifecycle>>] = Blank("queued")]
    /\ UNCHANGED <<hooks, urls, worker, past, changes, crashes>>

(***************************************************************************)
(* The worker's loop                                                       *)
(***************************************************************************)
Outbox(turn) == {k \in Keys : (k[2] = Lifecycle) <=> (turn = "lifecycle")}

(* Mutant: a lock is never given up. *)
LockableUnlocked(k) == Queued(k) /\ rows[k].due /\ rows[k].holder = NoWorker

(* Mutant: the lock is not looked at. *)
LockableAlways(k) == Queued(k) /\ rows[k].due

Lockable(k) == /\ Queued(k)
               /\ rows[k].due
               /\ rows[k].holder = NoWorker \/ rows[k].stale

Before(k, l) == k[1] < l[1] \/ (k[1] = l[1] /\ k[2] < l[2])

(* The ready row with the lowest id. *)
First(turn, k) ==
    /\ k \in Outbox(turn)
    /\ Lockable(k)
    /\ \A l \in Outbox(turn) : Lockable(l) => ~Before(l, k)

(* Without URLs the lifecycle outbox is not looked at. *)
Listens(turn) == turn = "lifecycle" => urls # {}

Dequeue(w, k) ==
    LET turn == worker[w].turn
    IN  /\ ~Busy(w)
        /\ Listens(turn)
        /\ First(turn, k)
        /\ rows' = [rows EXCEPT ![k].holder = w, ![k].stale = FALSE]
        /\ worker' = [worker EXCEPT ![w] =
              [pc |-> IF turn = "webhook" THEN "guard" ELSE "post", turn |-> turn,
               key |-> k, attempts |-> rows[k].attempts,
               left |-> IF turn = "webhook" THEN {Receiver} ELSE urls, failed |-> FALSE]]
        /\ past' = [past EXCEPT ![k].begun = @ + 1]
        /\ UNCHANGED <<hooks, urls, events, changes, crashes>>

(* Nothing is ready. *)
Pass(w) ==
    /\ ~Busy(w)
    /\ Listens(worker[w].turn) => \A k \in Outbox(worker[w].turn) : ~Lockable(k)
    /\ worker' = [worker EXCEPT ![w] = Idle(Other(@.turn))]
    /\ UNCHANGED <<hooks, urls, rows, events, past, changes, crashes>>

(* The address guard: a blocked request is not posted, and has failed. *)
Guard(w, blocked) ==
    /\ worker[w].pc = "guard"
    /\ worker' = [worker EXCEPT ![w].pc = IF blocked THEN "log" ELSE "post",
                                ![w].failed = blocked]
    /\ UNCHANGED <<hooks, urls, rows, events, past, changes, crashes>>

(* One POST and its answer.  A lifecycle event has failed if one URL has,  *)
(* and the others are posted to all the same.                              *)
Post(w, url, ok) ==
    LET x    == worker[w]
        last == x.left = {url}
        over == last /\ x.turn = "lifecycle"
    IN  /\ x.pc = "post"
        /\ url \in x.left
        /\ worker' = [worker EXCEPT ![w].left = @ \ {url}, ![w].failed = @ \/ ~ok,
                                    ![w].pc = IF over THEN "finish"
                                              ELSE IF last THEN "log" ELSE @]
        /\ past' = [past EXCEPT
              ![x.key].answered = IF ok THEN @ \union {url} ELSE @,
              ![x.key].failures = IF over /\ (x.failed \/ ~ok) THEN @ + 1 ELSE @]
        /\ UNCHANGED <<hooks, urls, rows, events, changes, crashes>>

(* log_attempt, a transaction of its own. *)
LogAttempt(w) ==
    /\ worker[w].pc = "log"
    /\ worker' = [worker EXCEPT ![w].pc = "finish"]
    /\ past' = [past EXCEPT ![worker[w].key].failures = IF worker[w].failed THEN @ + 1 ELSE @]
    /\ UNCHANGED <<hooks, urls, rows, events, changes, crashes>>

(* Mutant: one attempt fewer. *)
LastAttemptEarly(x) == x.attempts + 2 >= MaxAttempts

LastAttempt(x) == x.attempts + 1 >= MaxAttempts

(* retry *)
Retry(r) == [r EXCEPT !.holder = NoWorker, !.stale = FALSE, !.due = FALSE,
                      !.attempts = @ + 1]

(* complete or retry, whoever holds the row by now. *)
Finish(w) ==
    LET x == worker[w]
    IN  /\ x.pc = "finish"
        /\ rows' = IF ~Queued(x.key) THEN rows
                   ELSE [rows EXCEPT ![x.key] = IF x.failed /\ ~LastAttempt(x)
                                                THEN Retry(@) ELSE Blank("gone")]
        /\ worker' = [worker EXCEPT ![w] = Idle(Other(@.turn))]
        /\ UNCHANGED <<hooks, urls, events, past, changes, crashes>>

(* The worker dies, or a statement fails and the loop goes on: the row     *)
(* stays locked.  log_attempt also panics, and ends the worker, when the   *)
(* 2048th byte of the answer is inside a character.                        *)
Abandon(w) ==
    /\ Busy(w)
    /\ crashes < MaxCrashes
    /\ crashes' = crashes + 1
    /\ past' = [past EXCEPT ![worker[w].key].broken = @ + 1]
    /\ \E turn \in {"webhook", Other(worker[w].turn)} :
          worker' = [worker EXCEPT ![w] = Idle(turn)]
    /\ UNCHANGED <<hooks, urls, rows, events, changes>>

(* Housekeeping: without URLs the lifecycle outbox is emptied. *)
DiscardAll ==
    /\ urls = {}
    /\ \E k \in Outbox("lifecycle") : Queued(k)
    /\ rows' = [k \in Keys |-> IF k[2] = Lifecycle /\ Queued(k) THEN Blank("gone")
                                                               ELSE rows[k]]
    /\ UNCHANGED <<hooks, urls, events, worker, past, changes, crashes>>

BackoffElapses(k) ==
    /\ Queued(k) /\ ~rows[k].due
    /\ rows' = [rows EXCEPT ![k].due = TRUE]
    /\ UNCHANGED <<hooks, urls, events, worker, past, changes, crashes>>

(* The lock is older than the window.  Without Overrun no delivery takes   *)
(* that long, so that the holder has died.                                 *)
LockExpires(k) ==
    /\ Queued(k) /\ rows[k].holder # NoWorker /\ ~rows[k].stale
    /\ Overrun \/ ~\E w \in Workers : Busy(w) /\ worker[w].key = k
    /\ rows' = [rows EXCEPT ![k].stale = TRUE]
    /\ UNCHANGED <<hooks, urls, events, worker, past, changes, crashes>>

-----------------------------------------------------------------------------
Loop(w) == \/ \E k \in Keys : Dequeue(w, k)
           \/ Pass(w)
           \/ \E blocked \in BOOLEAN : Guard(w, blocked)
           \/ \E url \in Urls \union {Receiver}, ok \in BOOLEAN : Post(w, url, ok)
           \/ LogAttempt(w)
           \/ Finish(w)

Clock == \E k \in Keys : BackoffElapses(k) \/ LockExpires(k)

Tenant == \/ \E h \in Hooks : CreateWebhook(h) \/ DeleteWebhook(h)
          \/ \E h \in Hooks, state \in {"enabled", "disabled"} : UpdateWebhook(h, state)

Next == \/ Tenant
        \/ \E subscribed \in SUBSET Hooks : Enqueue(subscribed)
        \/ \E threshold \in BOOLEAN : EnqueueLifecycle(threshold)
        \/ \E w \in Workers : Loop(w) \/ Abandon(w)
        \/ DiscardAll
        \/ Clock

Spec == Init /\ [][Next]_vars

(* Workers run, housekeeping comes every hour, time passes. *)
FairSpec == /\ Spec
            /\ \A w \in Workers : WF_vars(Loop(w))
            /\ WF_vars(DiscardAll)
            /\ WF_vars(Clock)

-----------------------------------------------------------------------------
(* The tables and the workers keep their shape. *)
TypeOK ==
    /\ hooks \in [Hooks -> {"absent", "enabled", "disabled", "deleted"}]
    /\ urls \in {Urls, {}}
    /\ rows \in [Keys -> Row]
    /\ events \in 0..MaxEvents
    /\ worker \in [Workers -> Job]
    /\ past \in [Keys -> Past]
    /\ changes \in 0..MaxChanges
    /\ crashes \in 0..MaxCrashes

Targets(k) == IF k[2] = Lifecycle THEN urls ELSE {Receiver}

(* docs/webhooks.md: a delivery is completed by a 2xx answer of every URL, *)
(* or given up after ten failed attempts.  A row that is gone was answered *)
(* by all its URLs, or has as many recorded failures as attempts are made, *)
(* or its webhook was deleted, or nobody listens to lifecycle events;      *)
(* whatever was interrupted on the way.                                    *)
RemovedIsAccounted ==
    \A k \in Keys : rows[k].st = "gone" =>
        \/ Targets(k) \subseteq past[k].answered
        \/ past[k].failures >= MaxAttempts
        \/ k[2] \in Hooks /\ hooks[k[2]] = "deleted"

(* docs/webhooks.md: several workers can run in parallel without           *)
(* delivering the same request twice.  No two of them ever work on one row. *)
OneDeliverer ==
    \A v, w \in Workers : Busy(v) /\ Busy(w) /\ worker[v].key = worker[w].key => v = w

(* docs/webhooks.md: a delivery is attempted at most ten times.  Only an   *)
(* attempt that was interrupted is not counted.                            *)
AttemptsBounded == \A k \in Keys : past[k].begun <= MaxAttempts + past[k].broken

(* Every request is delivered, given up or dropped, although workers die   *)
(* while they hold it: when events cease, both outboxes run empty.         *)
OutboxesDrain == []<>(\A k \in Keys : ~Queued(k))
=============================================================================
