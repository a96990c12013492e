------------------------ MODULE WebhookOutboxProofs -------------------------
(***************************************************************************)
(* If no delivery outlasts its lock, the outboxes keep their promises: for *)
(* any number of workers, webhooks, URLs and events, any limit of attempts *)
(* and any number of crashes.                                              *)
(***************************************************************************)
EXTENDS WebhookOutbox, TLAPS

Works(w, k) == Busy(w) /\ worker[w].key = k

(* A worker's job: a row that exists or existed, in the outbox whose turn  *)
(* it is; what it holds of the row is what the row says, if it is there.   *)
JobOK(w) ==
    LET x == worker[w]
    IN  Busy(w) =>
          /\ x.key \in Keys
          /\ rows[x.key].st # "none"
          /\ x.key[2] = Lifecycle <=> x.turn = "lifecycle"
          /\ Queued(x.key) => /\ rows[x.key].holder = w
                              /\ ~rows[x.key].stale
                              /\ rows[x.key].attempts = x.attempts

(* How far a job has come: what is not left and has not failed was         *)
(* answered, and a failure is recorded before the row is touched.          *)
ProgressOK(w) ==
    LET x == worker[w]
    IN  Busy(w) =>
          /\ past[x.key].failures >= x.attempts
          /\ x.pc = "guard" => ~x.failed
          /\ x.pc \in {"log", "finish"} => x.left = {} \/ x.failed
          /\ ~x.failed => Targets(x.key) \ x.left \subseteq past[x.key].answered
          /\ x.pc = "finish" /\ x.failed =>
                past[x.key].failures >= x.attempts + 1

(* Rows of events to come are blank, and nothing has happened to them. *)
FutureOK ==
    \A k \in Keys : /\ k[1] > events => rows[k].st = "none"
                    /\ rows[k].st = "none" =>
                          past[k].begun = 0 /\ past[k].failures = 0 /\ past[k].broken = 0

(* What the attempts of a queued row count. *)
CountOK ==
    \A k \in Keys : Queued(k) =>
        /\ rows[k].attempts < MaxAttempts
        /\ past[k].failures >= rows[k].attempts
        /\ past[k].begun <= rows[k].attempts + past[k].broken + 1
        /\ (\A w \in Workers : ~Works(w, k)) =>
              past[k].begun <= rows[k].attempts + past[k].broken

IInv ==
    /\ TypeOK
    /\ \A w \in Workers : JobOK(w) /\ ProgressOK(w)
    /\ OneDeliverer
    /\ FutureOK
    /\ CountOK
    /\ AttemptsBounded
    /\ RemovedIsAccounted
-----------------------------------------------------------------------------
USE OutboxAssumption

(* Initially nothing is queued and nobody works. *)
LEMMA InitEstablishes == Init => IInv
<1> SUFFICES ASSUME Init PROVE IInv
  OBVIOUS
<1> USE DEF Init
<1>1. TypeOK
  BY DEF TypeOK, Row, Job, Past, Blank, Idle, Hooks
<1>2. \A w \in Workers : JobOK(w) /\ ProgressOK(w)
  BY DEF JobOK, ProgressOK, Busy, Idle
<1>3. OneDeliverer
  BY DEF OneDeliverer, Busy, Idle
<1>4. FutureOK /\ CountOK /\ AttemptsBounded /\ RemovedIsAccounted
  BY DEF FutureOK, CountOK, AttemptsBounded, RemovedIsAccounted, Blank, Queued
<1> QED
  BY <1>1, <1>2, <1>3, <1>4 DEF IInv

(* The tenant creates or changes a webhook. *)
LEMMA TenantStep ==
    ASSUME IInv, NEW h \in Hooks,
           CreateWebhook(h) \/ \E state \in {"enabled", "disabled"} : UpdateWebhook(h, state)
    PROVE  IInv'
<1>1. /\ UNCHANGED <<urls, rows, events, worker, past, crashes>>
      /\ changes' \in 0..MaxChanges
      /\ hooks' \in [Hooks -> {"absent", "enabled", "disabled", "deleted"}]
      /\ \A g \in Hooks : hooks[g] = "deleted" => hooks'[g] = "deleted"
  BY DEF IInv, TypeOK, CreateWebhook, UpdateWebhook
<1>2. TypeOK'
  BY <1>1 DEF IInv, TypeOK
<1>3. (\A w \in Workers : JobOK(w) /\ ProgressOK(w))'
  BY <1>1 DEF IInv, JobOK, ProgressOK, Busy, Queued, Targets
<1>4. OneDeliverer' /\ FutureOK' /\ CountOK' /\ AttemptsBounded'
  BY <1>1 DEF IInv, OneDeliverer, FutureOK, CountOK, AttemptsBounded, Busy, Queued, Works
<1>5. RemovedIsAccounted'
  BY <1>1 DEF IInv, RemovedIsAccounted, Targets
<1> QED
  BY <1>2, <1>3, <1>4, <1>5 DEF IInv

(* Rows are removed together: those of a deleted webhook, or the lifecycle *)
(* outbox that nobody listens to.                                          *)
LEMMA RemovalStep ==
    ASSUME IInv, DiscardAll \/ \E h \in Hooks : DeleteWebhook(h)
    PROVE  IInv'
<1>1. /\ UNCHANGED <<urls, events, worker, past, crashes>>
      /\ changes' \in 0..MaxChanges
      /\ hooks' \in [Hooks -> {"absent", "enabled", "disabled", "deleted"}]
      /\ \A g \in Hooks : hooks[g] = "deleted" => hooks'[g] = "deleted"
      /\ rows' \in [Keys -> Row]
      /\ \A k \in Keys : \/ rows'[k] = rows[k]
                          \/ /\ Queued(k)
                             /\ rows'[k].st = "gone"
                             /\ \/ k[2] = Lifecycle /\ urls = {}
                                \/ k[2] \in Hooks /\ hooks'[k[2]] = "deleted"
  <2>1. Blank("gone") \in Row /\ Blank("gone").st = "gone"
    BY DEF Blank, Row
  <2>2. CASE DiscardAll
    BY <2>1, <2>2 DEF IInv, TypeOK, DiscardAll
  <2>3. CASE \E h \in Hooks : DeleteWebhook(h)
    BY <2>1, <2>3 DEF IInv, TypeOK, DeleteWebhook
  <2> QED
    BY <2>2, <2>3
<1>2. TypeOK'
  BY <1>1 DEF IInv, TypeOK
<1>3. (\A w \in Workers : JobOK(w) /\ ProgressOK(w))'
  BY <1>1 DEF IInv, JobOK, ProgressOK, Busy, Queued, Targets
<1>4. OneDeliverer' /\ AttemptsBounded'
  BY <1>1 DEF IInv, OneDeliverer, AttemptsBounded, Busy
<1>5. FutureOK' /\ CountOK'
  BY <1>1 DEF IInv, FutureOK, CountOK, Busy, Queued, Works
<1>6. RemovedIsAccounted'
  BY <1>1 DEF IInv, RemovedIsAccounted, Targets
<1> QED
  BY <1>2, <1>3, <1>4, <1>5, <1>6 DEF IInv

(* An event brings its rows, to which nothing has happened and on which    *)
(* nobody works.                                                           *)
LEMMA EventStep ==
    ASSUME IInv,
           \/ \E subscribed \in SUBSET Hooks : Enqueue(subscribed)
           \/ \E threshold \in BOOLEAN : EnqueueLifecycle(threshold)
    PROVE  IInv'
<1>1. /\ UNCHANGED <<hooks, urls, worker, past, changes, crashes>>
      /\ events' \in 0..MaxEvents /\ events' = events + 1
      /\ rows' \in [Keys -> Row]
      /\ \A k \in Keys : \/ rows'[k] = rows[k]
                          \/ /\ k[1] = events + 1
                             /\ rows'[k].st = "queued"
                             /\ rows'[k].attempts = 0
  <2>1. /\ Blank("queued") \in Row
        /\ Blank("queued").st = "queued" /\ Blank("queued").attempts = 0
    BY DEF Blank, Row
  <2>2. CASE \E subscribed \in SUBSET Hooks : Enqueue(subscribed)
    BY <2>1, <2>2 DEF IInv, TypeOK, Enqueue
  <2>3. CASE \E threshold \in BOOLEAN : EnqueueLifecycle(threshold)
    BY <2>1, <2>3 DEF IInv, TypeOK, EnqueueLifecycle, Keys, Lifecycle
  <2> QED
    BY <2>2, <2>3
<1>2. \A k \in Keys : k[1] \in Nat /\ (k[1] > events => rows[k].st = "none")
  BY DEF IInv, FutureOK, Keys
<1>3. events \in Nat
  BY DEF IInv, TypeOK
<1>4. \A k \in Keys : rows'[k] = rows[k] \/ rows[k].st = "none"
  BY <1>1, <1>2, <1>3
<1>5. TypeOK'
  BY <1>1 DEF IInv, TypeOK
<1>6. (\A w \in Workers : JobOK(w) /\ ProgressOK(w))'
  BY <1>1, <1>4 DEF IInv, JobOK, ProgressOK, Busy, Queued, Targets
<1>7. OneDeliverer' /\ AttemptsBounded'
  BY <1>1 DEF IInv, OneDeliverer, AttemptsBounded, Busy
<1>8. FutureOK'
  BY <1>1, <1>2, <1>3 DEF IInv, FutureOK
<1>9. CountOK'
  <2> SUFFICES ASSUME NEW k \in Keys, Queued(k)'
               PROVE  /\ rows'[k].attempts < MaxAttempts
                      /\ past[k].failures >= rows'[k].attempts
                      /\ past[k].begun <= rows'[k].attempts + past[k].broken + 1
                      /\ (\A w \in Workers : ~Works(w, k)) =>
                            past[k].begun <= rows'[k].attempts + past[k].broken
    BY <1>1 DEF CountOK, Works, Busy
  <2>1. CASE rows'[k] = rows[k]
    BY <2>1 DEF IInv, CountOK, Queued
  <2>2. CASE rows'[k] # rows[k]
    BY <1>1, <1>4, <2>2 DEF IInv, FutureOK
  <2> QED
    BY <2>1, <2>2
<1>10. RemovedIsAccounted'
  BY <1>1 DEF IInv, RemovedIsAccounted, Targets
<1> QED
  BY <1>5, <1>6, <1>7, <1>8, <1>9, <1>10 DEF IInv

(* A worker locks a row.  Whoever works on a row holds its lock, so that   *)
(* nobody worked on this one.                                              *)
LEMMA DequeueStep ==
    ASSUME IInv, NEW w \in Workers, NEW k \in Keys, Dequeue(w, k)
    PROVE  IInv'
<1> DEFINE r == [rows[k] EXCEPT !.holder = w, !.stale = FALSE]
           p == [past[k] EXCEPT !.begun = @ + 1]
           turn == worker[w].turn
           x == [pc |-> IF turn = "webhook" THEN "guard" ELSE "post", turn |-> turn,
                 key |-> k, attempts |-> rows[k].attempts,
                 left |-> IF turn = "webhook" THEN {Receiver} ELSE urls, failed |-> FALSE]
<1>1. /\ rows[k] \in Row /\ past[k] \in Past
      /\ turn \in {"webhook", "lifecycle"}
      /\ urls \subseteq Urls
  BY DEF IInv, TypeOK, Job
<1>2. /\ ~Busy(w)
      /\ Queued(k)
      /\ rows[k].holder = NoWorker \/ rows[k].stale
      /\ k[2] = Lifecycle <=> turn = "lifecycle"
      /\ rows' = [rows EXCEPT ![k] = r]
      /\ worker' = [worker EXCEPT ![w] = x]
      /\ past' = [past EXCEPT ![k] = p]
      /\ UNCHANGED <<hooks, urls, events, changes, crashes>>
  BY DEF Dequeue, First, Outbox, Lockable, IInv, TypeOK
<1>3. /\ r \in Row /\ r.st = rows[k].st /\ r.attempts = rows[k].attempts
      /\ r.holder = w /\ ~r.stale
  BY <1>1 DEF Row
<1>4. /\ p \in Past /\ p.begun = past[k].begun + 1 /\ p.failures = past[k].failures
      /\ p.broken = past[k].broken /\ p.answered = past[k].answered
  BY <1>1 DEF Past
<1>5. /\ x \in Job /\ x.pc \in {"guard", "post"} /\ x.key = k
      /\ x.attempts = rows[k].attempts /\ x.turn = turn /\ ~x.failed
      /\ x.left = Targets(k)
  BY <1>1, <1>2 DEF Job, Row, Targets
<1>6. \A v \in Workers : ~Works(v, k)
  BY <1>2 DEF IInv, JobOK, Works
<1> HIDE DEF r, p, x, turn
<1>7. /\ rows'[k] = r /\ \A l \in Keys \ {k} : rows'[l] = rows[l]
      /\ past'[k] = p /\ \A l \in Keys \ {k} : past'[l] = past[l]
      /\ worker'[w] = x /\ \A v \in Workers \ {w} : worker'[v] = worker[v]
  BY <1>2 DEF IInv, TypeOK
<1>8. TypeOK'
  BY <1>2, <1>3, <1>4, <1>5 DEF IInv, TypeOK
<1>9. (\A v \in Workers : JobOK(v) /\ ProgressOK(v))'
  <2>1. (JobOK(w) /\ ProgressOK(w))'
    <3>1. JobOK(w)'
      BY <1>2, <1>3, <1>5, <1>7 DEF JobOK, Queued
    <3>2. ProgressOK(w)'
      BY <1>2, <1>4, <1>5, <1>7 DEF IInv, CountOK, ProgressOK, Targets
    <3> QED
      BY <3>1, <3>2
  <2>2. ASSUME NEW v \in Workers \ {w} PROVE (JobOK(v) /\ ProgressOK(v))'
    BY <1>2, <1>6, <1>7 DEF IInv, JobOK, ProgressOK, Busy, Queued, Works, Targets
  <2> QED
    BY <2>1, <2>2
<1>10. OneDeliverer'
  BY <1>5, <1>6, <1>7 DEF IInv, OneDeliverer, Busy, Works
<1>11. FutureOK'
  BY <1>2, <1>3, <1>7 DEF IInv, FutureOK, Queued
<1>12. CountOK' /\ AttemptsBounded'
  <2>1. /\ past[k].begun \in Nat /\ past[k].broken \in Nat
        /\ rows[k].attempts \in Nat
        /\ rows[k].attempts < MaxAttempts
        /\ past[k].failures >= rows[k].attempts
        /\ past[k].begun <= rows[k].attempts + past[k].broken
    BY <1>1, <1>2, <1>6 DEF IInv, CountOK, Row, Past
  <2>2. Works(w, k)'
    BY <1>5, <1>7 DEF Works, Busy
  <2>3. AttemptsBounded'
    BY <1>4, <1>7, <2>1 DEF IInv, AttemptsBounded
  <2>4. ASSUME NEW l \in Keys, Queued(l)'
        PROVE  /\ rows'[l].attempts < MaxAttempts
               /\ past'[l].failures >= rows'[l].attempts
               /\ past'[l].begun <= rows'[l].attempts + past'[l].broken + 1
               /\ (\A v \in Workers : ~Works(v, l)') =>
                     past'[l].begun <= rows'[l].attempts + past'[l].broken
    <3>1. CASE l = k
      BY <1>3, <1>4, <1>7, <2>1, <2>2, <3>1
    <3>2. CASE l # k
      <4>1. rows'[l] = rows[l] /\ past'[l] = past[l] /\ Queued(l)
        BY <1>7, <2>4, <3>2 DEF Queued
      <4>2. (\A v \in Workers : ~Works(v, l)') => \A v \in Workers : ~Works(v, l)
        BY <1>2, <1>7 DEF Works, Busy
      <4> QED
        BY <4>1, <4>2 DEF IInv, CountOK
    <3> QED
      BY <3>1, <3>2
  <2>5. CountOK'
    BY <2>4 DEF CountOK
  <2> QED
    BY <2>3, <2>5
<1>13. RemovedIsAccounted'
  BY <1>2, <1>3, <1>4, <1>7 DEF IInv, RemovedIsAccounted, Targets, Queued
<1> QED
  BY <1>8, <1>9, <1>10, <1>11, <1>12, <1>13 DEF IInv

(* A worker goes on with its job: its row is left alone, and what has      *)
(* happened to it only grows.                                              *)
LEMMA JobGoesOn ==
    ASSUME IInv, NEW w \in Workers, Busy(w),
           NEW y \in Job, NEW p \in Past,
           y.pc # "idle", y.turn = worker[w].turn, y.key = worker[w].key,
           y.attempts = worker[w].attempts,
           p.begun = past[y.key].begun, p.broken = past[y.key].broken,
           p.failures >= past[y.key].failures,
           past[y.key].answered \subseteq p.answered,
           worker' = [worker EXCEPT ![w] = y],
           past' = [past EXCEPT ![y.key] = p],
           UNCHANGED <<hooks, urls, rows, events, changes, crashes>>,
           ProgressOK(w)'
    PROVE  IInv'
<1> DEFINE k == worker[w].key
<1>1. /\ k \in Keys /\ rows[k].st # "none"
      /\ past[k] \in Past
  BY DEF IInv, JobOK, TypeOK
<1>2. /\ past'[k] = p /\ \A l \in Keys \ {k} : past'[l] = past[l]
      /\ worker'[w] = y /\ \A v \in Workers \ {w} : worker'[v] = worker[v]
      /\ \A v \in Workers : Busy(v)' <=> Busy(v)
      /\ \A v \in Workers : worker'[v].key = worker[v].key
  BY <1>1 DEF IInv, TypeOK, Busy
<1>3. TypeOK'
  BY <1>1 DEF IInv, TypeOK
<1>4. \A v \in Workers : JobOK(v)'
  BY <1>2 DEF IInv, JobOK, Busy, Queued
<1>5. ASSUME NEW v \in Workers \ {w} PROVE ProgressOK(v)'
  <2>1. Busy(v) => worker[v].key \in Keys \ {k}
    BY <1>5 DEF IInv, JobOK, OneDeliverer
  <2> QED
    BY <1>2, <2>1 DEF IInv, ProgressOK, Busy, Targets
<1>6. OneDeliverer'
  BY <1>2 DEF IInv, OneDeliverer
<1>7. FutureOK'
  BY <1>1, <1>2 DEF IInv, FutureOK
<1>8. CountOK' /\ AttemptsBounded'
  <2>1. \A l \in Keys : /\ past'[l].begun = past[l].begun
                        /\ past'[l].broken = past[l].broken
                        /\ past'[l].failures >= past[l].failures
                        /\ past[l].failures \in Nat /\ past'[l].failures \in Nat
                        /\ rows[l].attempts \in Nat
    BY <1>1, <1>2 DEF IInv, TypeOK, Past, Row
  <2>2. \A l \in Keys, v \in Workers : Works(v, l)' <=> Works(v, l)
    BY <1>2 DEF Works
  <2> QED
    BY <2>1, <2>2 DEF IInv, CountOK, AttemptsBounded, Queued
<1>9. RemovedIsAccounted'
  <2>1. \A l \in Keys : /\ past[l].answered \subseteq past'[l].answered
                        /\ past'[l].failures >= past[l].failures
                        /\ past[l].failures \in Nat /\ past'[l].failures \in Nat
    BY <1>1, <1>2 DEF IInv, TypeOK, Past
  <2>2. MaxAttempts \in Nat
    OBVIOUS
  <2> QED
    BY <2>1, <2>2 DEF IInv, RemovedIsAccounted, Targets
<1> QED
  BY <1>3, <1>4, <1>5, <1>6, <1>7, <1>8, <1>9 DEF IInv

(* The address guard blocks the request or lets it pass. *)
LEMMA GuardStep ==
    ASSUME IInv, NEW w \in Workers, NEW blocked \in BOOLEAN, Guard(w, blocked)
    PROVE  IInv'
<1> DEFINE y == [worker[w] EXCEPT !.pc = IF blocked THEN "log" ELSE "post",
                                  !.failed = blocked]
           p == past[y.key]
<1>1. worker[w] \in Job /\ Busy(w) /\ worker[w].key \in Keys
  BY DEF IInv, TypeOK, JobOK, Guard, Busy
<1>2. /\ y \in Job /\ y.pc # "idle" /\ y.turn = worker[w].turn
      /\ y.key = worker[w].key /\ y.attempts = worker[w].attempts
      /\ y.left = worker[w].left /\ y.failed = blocked
      /\ y.pc = IF blocked THEN "log" ELSE "post"
  BY <1>1 DEF Job
<1>3. p \in Past /\ p.failures >= past[y.key].failures
  BY <1>1, <1>2 DEF IInv, TypeOK, Past
<1>4. /\ worker' = [worker EXCEPT ![w] = y]
      /\ past' = [past EXCEPT ![y.key] = p]
      /\ UNCHANGED <<hooks, urls, rows, events, changes, crashes, past>>
  BY <1>1, <1>2 DEF Guard, IInv, TypeOK
<1>8. p = past[y.key]
  OBVIOUS
<1> HIDE DEF y, p
<1>5. worker'[w] = y
  BY <1>4 DEF IInv, TypeOK
<1>6. /\ Targets(y.key) \ y.left \subseteq past[y.key].answered
      /\ past[y.key].failures >= y.attempts
  BY <1>1, <1>2 DEF IInv, ProgressOK, Guard
<1>7. ProgressOK(w)'
  BY <1>2, <1>4, <1>5, <1>6 DEF ProgressOK, Targets
<1> QED
  BY <1>1, <1>2, <1>3, <1>4, <1>7, <1>8, JobGoesOn

(* One URL has answered, or not. *)
LEMMA PostStep ==
    ASSUME IInv, NEW w \in Workers, NEW url \in Urls \union {Receiver},
           NEW ok \in BOOLEAN, Post(w, url, ok)
    PROVE  IInv'
<1> DEFINE x == worker[w]
           k == x.key
           last == x.left = {url}
           over == last /\ x.turn = "lifecycle"
           pc == IF over THEN "finish" ELSE IF last THEN "log" ELSE x.pc
           y == [x EXCEPT !.left = @ \ {url}, !.failed = @ \/ ~ok, !.pc = pc]
           a == IF ok THEN past[k].answered \union {url} ELSE past[k].answered
           f == IF over /\ (x.failed \/ ~ok) THEN past[k].failures + 1
                                            ELSE past[k].failures
           p == [past[k] EXCEPT !.answered = a, !.failures = f]
<1>1. /\ x \in Job /\ x.pc = "post" /\ Busy(w) /\ k \in Keys
      /\ url \in x.left /\ past[k] \in Past
  BY DEF IInv, TypeOK, JobOK, Post, Busy
<1>2. /\ y \in Job /\ y.pc = pc /\ y.pc # "idle" /\ y.turn = x.turn /\ y.key = k
      /\ y.attempts = x.attempts /\ y.left = x.left \ {url}
      /\ y.failed <=> (x.failed \/ ~ok)
      /\ y.pc = "finish" <=> over
  BY <1>1 DEF Job
<1>3. /\ past[k].failures \in Nat /\ f \in Nat /\ f >= past[k].failures
      /\ a \in SUBSET (Urls \union {Receiver}) /\ past[k].answered \subseteq a
      /\ ok => url \in a
      /\ over /\ (x.failed \/ ~ok) => f = past[k].failures + 1
  BY <1>1 DEF Past
<1>4. /\ worker' = [worker EXCEPT ![w] = y]
      /\ past' = [past EXCEPT ![k] = p]
      /\ UNCHANGED <<hooks, urls, rows, events, changes, crashes>>
  <2>1. worker' = [worker EXCEPT ![w] = y]
    BY <1>1 DEF Post, IInv, TypeOK
  <2>2. past' = [past EXCEPT ![k] = p]
    BY <1>1 DEF Post, IInv, TypeOK
  <2> QED
    BY <2>1, <2>2 DEF Post
<1> HIDE DEF a, f
<1>8. /\ p \in Past /\ p.begun = past[k].begun /\ p.broken = past[k].broken
      /\ p.answered = a /\ p.failures = f
  BY <1>1, <1>3 DEF Past
<1> HIDE DEF y, p
<1>5. worker'[w] = y /\ past'[k] = p
  BY <1>1, <1>4 DEF IInv, TypeOK
<1>6. ProgressOK(w)'
  <2>1. /\ past[k].failures >= x.attempts /\ x.attempts \in Nat
        /\ ~x.failed => Targets(k) \ x.left \subseteq past[k].answered
    BY <1>1 DEF IInv, ProgressOK, Job
  <2>2. p.failures >= x.attempts
    BY <1>3, <1>8, <2>1
  <2>3. y.pc \in {"log", "finish"} => y.left = {}
    BY <1>1, <1>2
  <2>4. ~y.failed => Targets(k) \ y.left \subseteq p.answered
    BY <1>2, <1>3, <1>8, <2>1
  <2>5. y.pc = "finish" /\ y.failed => p.failures >= x.attempts + 1
    BY <1>2, <1>3, <1>8, <2>1
  <2>6. y.pc # "guard"
    BY <1>1, <1>2
  <2> QED
    BY <1>2, <1>4, <1>5, <2>6, <2>2, <2>3, <2>4, <2>5 DEF ProgressOK, Targets
<1>7. p.failures >= past[k].failures /\ past[k].answered \subseteq p.answered
  BY <1>3, <1>8
<1> QED
  BY <1>1, <1>2, <1>4, <1>6, <1>7, <1>8, JobGoesOn

(* The attempt is logged; a failed one counts from here. *)
LEMMA LogStep ==
    ASSUME IInv, NEW w \in Workers, LogAttempt(w)
    PROVE  IInv'
<1> DEFINE x == worker[w]
           k == x.key
           y == [x EXCEPT !.pc = "finish"]
           p == [past[k] EXCEPT !.failures = IF x.failed THEN @ + 1 ELSE @]
<1>1. x \in Job /\ x.pc = "log" /\ Busy(w) /\ k \in Keys /\ past[k] \in Past
  BY DEF IInv, TypeOK, JobOK, LogAttempt, Busy
<1>2. /\ y \in Job /\ y.pc = "finish" /\ y.turn = x.turn /\ y.key = k
      /\ y.attempts = x.attempts /\ y.left = x.left /\ y.failed = x.failed
  BY <1>1 DEF Job
<1>3. /\ p \in Past /\ p.begun = past[k].begun /\ p.broken = past[k].broken
      /\ p.answered = past[k].answered
      /\ p.failures = IF x.failed THEN past[k].failures + 1 ELSE past[k].failures
      /\ past[k].failures \in Nat
  BY <1>1 DEF Past
<1>4. /\ worker' = [worker EXCEPT ![w] = y]
      /\ past' = [past EXCEPT ![k] = p]
      /\ UNCHANGED <<hooks, urls, rows, events, changes, crashes>>
  BY DEF LogAttempt, IInv, TypeOK
<1> HIDE DEF y, p
<1>5. worker'[w] = y /\ past'[k] = p
  BY <1>1, <1>4 DEF IInv, TypeOK
<1>6. ProgressOK(w)'
  <2>1. /\ past[k].failures >= x.attempts /\ x.attempts \in Nat
        /\ ~x.failed => Targets(k) \ x.left \subseteq past[k].answered
        /\ x.left = {} \/ x.failed
    BY <1>1 DEF IInv, ProgressOK, Job
  <2>2. p.failures >= x.attempts /\ (y.failed => p.failures >= x.attempts + 1)
    BY <1>2, <1>3, <2>1
  <2> QED
    BY <1>2, <1>3, <1>4, <1>5, <2>1, <2>2 DEF ProgressOK, Targets
<1>7. p.failures >= past[k].failures
  BY <1>3
<1> QED
  BY <1>1, <1>2, <1>3, <1>4, <1>6, <1>7, JobGoesOn

(* An idle worker with nothing to do looks at the other outbox. *)
LEMMA PassStep ==
    ASSUME IInv, NEW w \in Workers, Pass(w)
    PROVE  IInv'
<1>1. /\ UNCHANGED <<hooks, urls, rows, events, past, changes, crashes>>
      /\ worker' = [worker EXCEPT ![w] = Idle(Other(worker[w].turn))]
      /\ ~Busy(w)
  BY DEF Pass, IInv, TypeOK
<1>2. \A turn : Idle(Other(turn)) \in Job /\ Idle(Other(turn)).pc = "idle"
  BY DEF Idle, Other, Job
<1>3. /\ worker' \in [Workers -> Job]
      /\ ~Busy(w)' /\ \A v \in Workers \ {w} : worker'[v] = worker[v]
  BY <1>1, <1>2 DEF IInv, TypeOK, Busy
<1>4. TypeOK'
  BY <1>1, <1>3 DEF IInv, TypeOK
<1>5. (\A v \in Workers : JobOK(v) /\ ProgressOK(v))'
  BY <1>1, <1>3 DEF IInv, JobOK, ProgressOK, Busy, Queued, Targets
<1>6. OneDeliverer'
  BY <1>3 DEF IInv, OneDeliverer, Busy
<1>7. FutureOK' /\ AttemptsBounded' /\ RemovedIsAccounted'
  BY <1>1 DEF IInv, FutureOK, AttemptsBounded, RemovedIsAccounted, Targets
<1>8. CountOK'
  <2>1. \A k \in Keys, v \in Workers : Works(v, k)' <=> Works(v, k)
    BY <1>1, <1>3 DEF Works, Busy
  <2> QED
    BY <1>1, <2>1 DEF IInv, CountOK, Queued
<1> QED
  BY <1>4, <1>5, <1>6, <1>7, <1>8 DEF IInv

(* The worker removes the row or puts it back, if it is still there: it    *)
(* holds the lock, and the attempts it read are the row's.                 *)
LEMMA FinishStep ==
    ASSUME IInv, NEW w \in Workers, Finish(w)
    PROVE  IInv'
<1> DEFINE x == worker[w]
           k == x.key
           r == IF ~Queued(k) THEN rows[k]
                ELSE IF x.failed /\ ~LastAttempt(x) THEN Retry(rows[k]) ELSE Blank("gone")
<1>1. /\ x \in Job /\ x.pc = "finish" /\ Busy(w) /\ k \in Keys
      /\ rows[k] \in Row /\ past[k] \in Past /\ rows[k].st # "none"
  BY DEF IInv, TypeOK, JobOK, Finish, Busy
<1>2. /\ rows' = [rows EXCEPT ![k] = r]
      /\ worker' = [worker EXCEPT ![w] = Idle(Other(worker[w].turn))]
      /\ UNCHANGED <<hooks, urls, events, past, changes, crashes>>
  BY DEF Finish, IInv, TypeOK
<1>3. \A turn : Idle(Other(turn)) \in Job /\ Idle(Other(turn)).pc = "idle"
  BY DEF Idle, Other, Job
<1>4. /\ x.attempts \in Nat /\ past[k].failures \in Nat
      /\ Queued(k) => rows[k].attempts = x.attempts
      /\ x.failed => past[k].failures >= x.attempts + 1
      /\ ~x.failed => Targets(k) \subseteq past[k].answered
  BY <1>1 DEF IInv, JobOK, ProgressOK, Job, Past
<1>5. /\ r \in Row /\ r.st # "none"
      /\ r.st = "queued" => /\ Queued(k) /\ x.failed
                            /\ r.attempts = x.attempts + 1
                            /\ r.attempts < MaxAttempts
      /\ Queued(k) /\ r.st = "gone" => ~x.failed \/ x.attempts + 1 >= MaxAttempts
      /\ ~Queued(k) => r = rows[k]
  <2>1. CASE ~Queued(k)
    BY <1>1, <2>1 DEF Queued
  <2>2. CASE Queued(k) /\ x.failed /\ ~LastAttempt(x)
    <3>1. r = Retry(rows[k])
      BY <2>2
    <3>2. /\ Retry(rows[k]) \in Row /\ Retry(rows[k]).st = "queued"
          /\ Retry(rows[k]).attempts = x.attempts + 1
      <4>1. Retry(rows[k]) = [rows[k] EXCEPT !.holder = NoWorker, !.stale = FALSE,
                                 !.due = FALSE, !.attempts = x.attempts + 1]
        BY <1>1, <1>4, <2>2 DEF Retry
      <4>2. x.attempts + 1 \in Nat /\ rows[k].st = "queued"
        BY <1>4, <2>2 DEF Queued
      <4> QED
        BY <1>1, <4>1, <4>2 DEF Row
    <3> QED
      BY <1>4, <2>2, <3>1, <3>2 DEF LastAttempt
  <2>3. CASE Queued(k) /\ ~(x.failed /\ ~LastAttempt(x))
    <3>1. r = Blank("gone")
      BY <2>3
    <3>2. Blank("gone") \in Row /\ Blank("gone").st = "gone"
      BY DEF Blank, Row
    <3> QED
      BY <2>3, <3>1, <3>2 DEF LastAttempt
  <2> QED
    BY <2>1, <2>2, <2>3
<1> HIDE DEF r
<1>6. /\ rows'[k] = r /\ \A l \in Keys \ {k} : rows'[l] = rows[l]
      /\ worker' \in [Workers -> Job]
      /\ ~Busy(w)' /\ \A v \in Workers \ {w} : worker'[v] = worker[v]
  BY <1>1, <1>2, <1>3 DEF IInv, TypeOK, Busy
<1>7. \A v \in Workers \ {w} : ~Works(v, k)
  BY <1>1 DEF IInv, OneDeliverer, Works
<1>8. TypeOK'
  BY <1>1, <1>2, <1>5, <1>6 DEF IInv, TypeOK
<1>9. ASSUME NEW v \in Workers PROVE (JobOK(v) /\ ProgressOK(v))'
  <2>1. CASE v = w
    BY <1>6, <2>1 DEF JobOK, ProgressOK
  <2>2. CASE v # w
    BY <1>2, <1>6, <1>7, <2>2 DEF IInv, JobOK, ProgressOK, Busy, Queued, Works, Targets
  <2> QED
    BY <2>1, <2>2
<1>10. OneDeliverer'
  BY <1>6 DEF IInv, OneDeliverer, Busy
<1>11. FutureOK' /\ AttemptsBounded'
  BY <1>1, <1>2, <1>5, <1>6 DEF IInv, FutureOK, AttemptsBounded
<1>12. CountOK'
  <2>1. ASSUME NEW l \in Keys, Queued(l)'
        PROVE  /\ rows'[l].attempts < MaxAttempts
               /\ past[l].failures >= rows'[l].attempts
               /\ past[l].begun <= rows'[l].attempts + past[l].broken + 1
               /\ (\A v \in Workers : ~Works(v, l)') =>
                     past[l].begun <= rows'[l].attempts + past[l].broken
    <3>1. CASE l = k
      <4>1. /\ r.st = "queued" /\ past[k].begun \in Nat /\ past[k].broken \in Nat
            /\ past[k].begun <= x.attempts + past[k].broken + 1
        BY <1>1, <1>4, <1>5, <1>6, <2>1, <3>1 DEF IInv, CountOK, Queued, Past
      <4> QED
        BY <1>4, <1>5, <1>6, <3>1, <4>1
    <3>2. CASE l # k
      <4>1. rows'[l] = rows[l] /\ Queued(l)
        BY <1>6, <2>1, <3>2 DEF Queued
      <4>2. (\A v \in Workers : ~Works(v, l)') => \A v \in Workers : ~Works(v, l)
        BY <1>6, <3>2 DEF Works, Busy
      <4> QED
        BY <4>1, <4>2 DEF IInv, CountOK
    <3> QED
      BY <3>1, <3>2
  <2> QED
    BY <1>2, <2>1 DEF CountOK
<1>13. RemovedIsAccounted'
  <2> SUFFICES ASSUME NEW l \in Keys, rows'[l].st = "gone"
               PROVE  \/ Targets(l) \subseteq past[l].answered
                      \/ past[l].failures >= MaxAttempts
                      \/ l[2] \in Hooks /\ hooks[l[2]] = "deleted"
    BY <1>2 DEF RemovedIsAccounted, Targets
  <2>1. CASE l = k /\ Queued(k)
    BY <1>4, <1>5, <1>6, <2>1
  <2>2. CASE ~(l = k /\ Queued(k))
    BY <1>5, <1>6, <2>2 DEF IInv, RemovedIsAccounted
  <2> QED
    BY <2>1, <2>2
<1> QED
  BY <1>8, <1>9, <1>10, <1>11, <1>12, <1>13 DEF IInv

(* A job is interrupted: the row stays locked, and the attempt uncounted. *)
LEMMA AbandonStep ==
    ASSUME IInv, NEW w \in Workers, Abandon(w)
    PROVE  IInv'
<1> DEFINE k == worker[w].key
           p == [past[k] EXCEPT !.broken = @ + 1]
<1>1. /\ worker[w] \in Job /\ Busy(w) /\ k \in Keys
      /\ past[k] \in Past /\ rows[k].st # "none"
  BY DEF IInv, TypeOK, JobOK, Abandon
<1>2. /\ past' = [past EXCEPT ![k] = p]
      /\ \E turn \in {"webhook", "lifecycle"} : worker' = [worker EXCEPT ![w] = Idle(turn)]
      /\ crashes' \in 0..MaxCrashes
      /\ UNCHANGED <<hooks, urls, rows, events, changes>>
  <2>1. past' = [past EXCEPT ![k] = p]
    BY <1>1 DEF Abandon, IInv, TypeOK
  <2>2. \E turn \in {"webhook", "lifecycle"} : worker' = [worker EXCEPT ![w] = Idle(turn)]
    BY DEF Abandon, Other
  <2>3. crashes' \in 0..MaxCrashes
    BY DEF Abandon, IInv, TypeOK
  <2> QED
    BY <2>1, <2>2, <2>3 DEF Abandon
<1>3. /\ p \in Past /\ p.begun = past[k].begun /\ p.broken = past[k].broken + 1
      /\ p.failures = past[k].failures /\ p.answered = past[k].answered
      /\ past[k].broken \in Nat /\ past[k].begun \in Nat
  BY <1>1 DEF Past
<1> HIDE DEF p
<1>4. /\ past'[k] = p /\ \A l \in Keys \ {k} : past'[l] = past[l]
      /\ worker' \in [Workers -> Job]
      /\ ~Busy(w)' /\ \A v \in Workers \ {w} : worker'[v] = worker[v]
  <2>1. \A turn \in {"webhook", "lifecycle"} : Idle(turn) \in Job /\ Idle(turn).pc = "idle"
    BY DEF Idle, Job
  <2> QED
    BY <1>1, <1>2, <2>1 DEF IInv, TypeOK, Busy
<1>5. \A v \in Workers \ {w} : ~Works(v, k)
  BY <1>1 DEF IInv, OneDeliverer, Works
<1>6. TypeOK'
  BY <1>1, <1>2, <1>3, <1>4 DEF IInv, TypeOK
<1>7. ASSUME NEW v \in Workers PROVE (JobOK(v) /\ ProgressOK(v))'
  <2>1. CASE v = w
    BY <1>4, <2>1 DEF JobOK, ProgressOK
  <2>2. CASE v # w
    BY <1>2, <1>4, <1>5, <2>2 DEF IInv, JobOK, ProgressOK, Busy, Queued, Works, Targets
  <2> QED
    BY <2>1, <2>2
<1>8. OneDeliverer'
  BY <1>4 DEF IInv, OneDeliverer, Busy
<1>9. FutureOK' /\ RemovedIsAccounted'
  BY <1>1, <1>2, <1>3, <1>4 DEF IInv, FutureOK, RemovedIsAccounted, Targets
<1>10. AttemptsBounded'
  BY <1>3, <1>4 DEF IInv, AttemptsBounded
<1>11. CountOK'
  <2>1. ASSUME NEW l \in Keys, Queued(l)
        PROVE  /\ rows[l].attempts < MaxAttempts
               /\ past'[l].failures >= rows[l].attempts
               /\ past'[l].begun <= rows[l].attempts + past'[l].broken + 1
               /\ (\A v \in Workers : ~Works(v, l)') =>
                     past'[l].begun <= rows[l].attempts + past'[l].broken
    <3>1. CASE l = k
      <4>1. rows[k].attempts \in Nat
        BY <1>1 DEF IInv, TypeOK, Row
      <4> QED
        BY <1>3, <1>4, <2>1, <3>1, <4>1 DEF IInv, CountOK
    <3>2. CASE l # k
      <4>1. (\A v \in Workers : ~Works(v, l)') => \A v \in Workers : ~Works(v, l)
        BY <1>4, <3>2 DEF Works, Busy
      <4> QED
        BY <1>4, <2>1, <3>2, <4>1 DEF IInv, CountOK
    <3> QED
      BY <3>1, <3>2
  <2> QED
    BY <1>2, <2>1 DEF CountOK, Queued
<1> QED
  BY <1>6, <1>7, <1>8, <1>9, <1>10, <1>11 DEF IInv

(* Time passes for a row.  Only here the assumption is needed: a lock goes *)
(* stale only if its holder no longer works on the row.                    *)
LEMMA ClockStep ==
    ASSUME ~Overrun, IInv, NEW k \in Keys, BackoffElapses(k) \/ LockExpires(k)
    PROVE  IInv'
<1>1. /\ UNCHANGED <<hooks, urls, events, worker, past, changes, crashes>>
      /\ rows' \in [Keys -> Row]
      /\ \A l \in Keys : /\ rows'[l].st = rows[l].st
                          /\ rows'[l].attempts = rows[l].attempts
                          /\ rows'[l].holder = rows[l].holder
                          /\ \/ rows'[l].stale = rows[l].stale
                             \/ \A w \in Workers : ~Works(w, l)
  <2>1. rows[k] \in Row
    BY DEF IInv, TypeOK
  <2>2. CASE BackoffElapses(k)
    <3> DEFINE r == [rows[k] EXCEPT !.due = TRUE]
    <3>1. rows' = [rows EXCEPT ![k] = r]
      BY <2>2 DEF BackoffElapses, IInv, TypeOK
    <3>2. /\ r \in Row /\ r.st = rows[k].st /\ r.attempts = rows[k].attempts
          /\ r.holder = rows[k].holder /\ r.stale = rows[k].stale
      BY <2>1 DEF Row
    <3> HIDE DEF r
    <3> QED
      BY <2>2, <3>1, <3>2 DEF BackoffElapses, IInv, TypeOK
  <2>3. CASE LockExpires(k)
    <3> DEFINE r == [rows[k] EXCEPT !.stale = TRUE]
    <3>1. /\ rows' = [rows EXCEPT ![k] = r]
          /\ \A w \in Workers : ~Works(w, k)
      BY <2>3 DEF LockExpires, IInv, TypeOK, Works
    <3>2. /\ r \in Row /\ r.st = rows[k].st /\ r.attempts = rows[k].attempts
          /\ r.holder = rows[k].holder
      BY <2>1 DEF Row
    <3> HIDE DEF r
    <3> QED
      BY <2>3, <3>1, <3>2 DEF LockExpires, IInv, TypeOK
  <2> QED
    BY <2>2, <2>3
<1>2. TypeOK'
  BY <1>1 DEF IInv, TypeOK
<1>3. (\A w \in Workers : JobOK(w) /\ ProgressOK(w))'
  BY <1>1 DEF IInv, JobOK, ProgressOK, Busy, Queued, Targets, Works
<1>4. OneDeliverer' /\ FutureOK' /\ AttemptsBounded' /\ RemovedIsAccounted'
  BY <1>1 DEF IInv, OneDeliverer, FutureOK, AttemptsBounded, RemovedIsAccounted,
              Busy, Targets
<1>5. CountOK'
  BY <1>1 DEF IInv, CountOK, Busy, Queued, Works
<1> QED
  BY <1>2, <1>3, <1>4, <1>5 DEF IInv

(* Every step keeps the invariant. *)
LEMMA NextPreserves ==
    ASSUME ~Overrun, IInv, [Next]_vars
    PROVE  IInv'
<1>1. CASE UNCHANGED vars
  BY <1>1 DEF vars, IInv, TypeOK, JobOK, ProgressOK, OneDeliverer, FutureOK, CountOK,
              AttemptsBounded, RemovedIsAccounted, Targets, Busy, Queued, Works
<1>2. CASE Tenant
  BY <1>2, TenantStep, RemovalStep DEF Tenant
<1>3. CASE \/ \E subscribed \in SUBSET Hooks : Enqueue(subscribed)
           \/ \E threshold \in BOOLEAN : EnqueueLifecycle(threshold)
  BY <1>3, EventStep
<1>4. CASE \E w \in Workers : Loop(w) \/ Abandon(w)
  BY <1>4, DequeueStep, PassStep, GuardStep, PostStep, LogStep, FinishStep, AbandonStep
     DEF Loop
<1>5. CASE DiscardAll
  BY <1>5, RemovalStep
<1>6. CASE Clock
  BY <1>6, ClockStep DEF Clock
<1> QED
  BY <1>1, <1>2, <1>3, <1>4, <1>5, <1>6 DEF Next

(* The invariant holds in every reachable state. *)
LEMMA Inductive == ASSUME ~Overrun PROVE Spec => []IInv
<1>1. IInv /\ [Next]_vars => IInv'
  BY NextPreserves
<1> QED
  BY <1>1, InitEstablishes, PTL DEF Spec

-----------------------------------------------------------------------------
(* The tables and the workers keep their shape; no count leaves the        *)
(* naturals.                                                               *)
THEOREM TypeCorrect == ASSUME ~Overrun PROVE Spec => []TypeOK
<1>1. IInv => TypeOK
  BY DEF IInv
<1> QED
  BY <1>1, Inductive, PTL

(* No two workers ever work on one request, although a lock can be taken   *)
(* over and neither removal nor retry asks who holds it.                   *)
THEOREM NeverTwoDeliverers == ASSUME ~Overrun PROVE Spec => []OneDeliverer
<1>1. IInv => OneDeliverer
  BY DEF IInv
<1> QED
  BY <1>1, Inductive, PTL

(* A request is attempted at most MaxAttempts times, not counting attempts *)
(* that were interrupted.                                                  *)
THEOREM AttemptsAreCounted == ASSUME ~Overrun PROVE Spec => []AttemptsBounded
<1>1. IInv => AttemptsBounded
  BY DEF IInv
<1> QED
  BY <1>1, Inductive, PTL

(* No request disappears that was not answered by all its URLs, recorded   *)
(* as failed MaxAttempts times, deleted with its webhook, or dropped       *)
(* because nobody listens.                                                 *)
THEOREM RemovalsAreAccounted == ASSUME ~Overrun PROVE Spec => []RemovedIsAccounted
<1>1. IInv => RemovedIsAccounted
  BY DEF IInv
<1> QED
  BY <1>1, Inductive, PTL
=============================================================================
