----------------------------- MODULE Submission -----------------------------
(***************************************************************************)
(* How mail enters the system: the HTTP send endpoints and authenticated   *)
(* SMTP submission of one organization.  A request passes the suspension   *)
(* and quota gates on values it reads one query at a time, then stores its *)
(* messages, the usage counters and, for a keyed request, the response to  *)
(* replay, in one transaction.  Administrators change the policy, days and *)
(* months turn, keys expire and the housekeeping deletes old rows.         *)
(*                                                                         *)
(* A message is named by the call that stored it, its place in the call's  *)
(* items and its recipient; a response by the call and which of its items  *)
(* were accepted.                                                          *)
(***************************************************************************)
EXTENDS Integers, Sequences, FiniteSets, FiniteSetsExt

CONSTANTS
    Clients,      \* concurrent requests
    Scenes,       \* set-ups: what clients and administrators do, and bounds
    NoKey,        \* a request without idempotency key
    Unlimited,    \* no limit
    Window,       \* days of the server limit's window (30)
    Kept,         \* days a counter bucket is kept (40)
    MonthDays     \* days of a month

(* A request names one server; an item is one message of a batch: how many *)
(* recipients it has and whether it passes validation.  SMTP and a single  *)
(* send have one item.                                                     *)
Ops == {"send", "batch", "smtp"}

ASSUME SubmissionAssumption ==
    /\ Window \in Nat \ {0} /\ Kept \in Nat /\ Kept >= Window /\ MonthDays \in Nat \ {0}
    /\ Unlimited \notin Nat
    /\ \A sc \in Scenes :
          /\ sc.faults \subseteq {"policy", "query", "store", "lost"}
          /\ sc.lastDay \in Nat /\ sc.firstLimit \in Nat \union {Unlimited}
          /\ sc.limits \subseteq Nat \union {Unlimited} /\ sc.reauth \in BOOLEAN
          /\ \A x \in sc.shapes : /\ x = [server |-> x.server, key |-> x.key,
                                        op |-> x.op, items |-> x.items]
                                  /\ x.items \in Seq([n : Nat, valid : BOOLEAN])
                                  /\ x.server \in sc.servers /\ x.op \in Ops
                                  /\ x.op # "batch" => Len(x.items) = 1

VARIABLES
    scene,     \* the set-up of this behaviour
    policy,    \* organizations: [suspended, limit]
    today,     \* the day, UTC
    orgSent,   \* organization_send_counters: [month -> count]
    srvSent,   \* server_send_counters: [Servers -> [day -> count]]
    events,    \* lifecycle events of usage thresholds, in order
    keys,      \* idempotency_requests
    messages,  \* messages (outgoing)
    call,      \* [Clients -> the request being served]
    admin,     \* [Admins -> the policy change being applied]
    serial,    \* calls so far
    ops,       \* history: the operations that committed
    replies,   \* history: the answers given
    history    \* history: [changes, expiries, faults, opened]; opened are the
               \* calls that the gates of their server were not asked about

table == <<orgSent, srvSent, events, keys, messages>>
vars  == <<scene, policy, today, table, call, admin, serial, ops, replies, history>>

Servers     == scene.servers      \* mail servers of the organization
Admins      == scene.admins       \* concurrent requests to the limits endpoints
Shapes      == scene.shapes       \* the requests clients make: [server, key, op, items]
ServerLimit == scene.serverLimit  \* [Servers -> Nat \union {Unlimited}]: servers.send_limit
FirstLimit  == scene.firstLimit   \* the organization's monthly limit at the start
Limits      == scene.limits       \* the limits administrators set
Faults      == scene.faults       \* what may fail: "policy", "query", "store", "lost"

Days     == 0..scene.lastDay
MonthOf(d) == d \div MonthDays
Months   == {MonthOf(d) : d \in Days}

(***************************************************************************)
(* Allowances                                                              *)
(***************************************************************************)
Remaining(limit, used) ==
    IF limit = Unlimited THEN Unlimited
    ELSE IF used < limit THEN limit - used ELSE 0

Stricter(a, b) == IF a = Unlimited THEN b
                  ELSE IF b = Unlimited THEN a
                  ELSE IF a < b THEN a ELSE b

(* Mutant: the recipients of a request are not counted. *)
AllowsAnyNumber(remaining, n) == remaining = Unlimited \/ remaining > 0

Allows(remaining, n) == remaining = Unlimited \/ n <= remaining

(* send_usage: the trailing window of daily buckets. *)
Usage(s, d) == MapThenSumSet(LAMBDA x : srvSent[s][x],
                             {x \in Days : x > d - Window /\ x <= d})

(* Mutant: only an exact hit counts. *)
ReachedExactly(sent, limit) ==
    IF limit = Unlimited \/ limit = 0 THEN {}
    ELSE {t \in {80, 100} : sent * 100 = limit * t}

(* reached_thresholds *)
Reached(sent, limit) ==
    IF limit = Unlimited \/ limit = 0 THEN {}
    ELSE {t \in {80, 100} : sent * 100 >= limit * t}

(***************************************************************************)
(* Operations and keys                                                     *)
(***************************************************************************)
MessagesOf(by, shape, plan, day) ==
    UNION {{[by |-> by, item |-> i, rcpt |-> k, server |-> shape.server, day |-> day] :
               k \in 1..shape.items[i].n} : i \in {i \in 1..Len(plan) : plan[i]}}

RowsFor(shape) == {r \in keys : r.server = shape.server /\ r.key = shape.key}

(* Mutant: the endpoint is not compared. *)
SamePayload(r, shape) == r.items = shape.items

SameRequest(r, shape) == r.op = shape.op /\ r.items = shape.items

(* idempotency_lookup: new, replay or conflict. *)
LiveRows(shape) == {r \in RowsFor(shape) : r.live}

Idle == [pc |-> "idle"]

Keyed(c)   == call[c].shape.key # NoKey
ItemOf(c)  == call[c].shape.items[Len(call[c].plan) + 1]

Answer(c, outcome, response) ==
    /\ call' = [call EXCEPT ![c] = Idle]
    /\ replies' = replies \union
         {[by |-> call[c].by, shape |-> call[c].shape, outcome |-> outcome,
           response |-> response]}

Nothing == [by |-> 0, plan |-> <<>>]

(* The answer a row of idempotency_requests gives this request. *)
AnswerFrom(c, r) ==
    IF SameRequest(r, call[c].shape) THEN Answer(c, "ok", r.response)
                                     ELSE Answer(c, "conflict", Nothing)

(* A query of this kind fails, or does not. *)
Outcome(kind, fails) ==
    /\ fails => kind \in Faults /\ history.faults < scene.failures
    /\ history' = IF fails THEN [history EXCEPT !.faults = @ + 1] ELSE history

Proceed(c, pc) == call' = [call EXCEPT ![c].pc = pc] /\ UNCHANGED replies

-----------------------------------------------------------------------------
Init ==
    /\ scene \in Scenes
    /\ policy   = [suspended |-> FALSE, limit |-> FirstLimit]
    /\ today    = 0
    /\ orgSent  = [m \in Months |-> 0]
    /\ srvSent  = [s \in Servers |-> [d \in Days |-> 0]]
    /\ events   = <<>>
    /\ keys     = {}
    /\ messages = {}
    /\ call     = [c \in Clients |-> Idle]
    /\ admin    = [a \in Admins |-> Idle]
    /\ serial   = 0
    /\ ops      = {}
    /\ replies  = {}
    /\ history  = [changes |-> 0, expiries |-> 0, faults |-> 0, opened |-> {}]

(* The first item is prepared; a batch without one goes on to its store.   *)
Prepared(shape) == IF shape.items = <<>> THEN "begin" ELSE "policy"

(* A request arrives.  HTTP looks its key up first; SMTP learns the key at *)
(* the end of DATA.                                                        *)
Arrive(c, shape) ==
    /\ call[c].pc = "idle"
    /\ serial < scene.calls
    /\ serial' = serial + 1
    /\ call' = [call EXCEPT ![c] =
          [pc |-> IF shape.op = "smtp" THEN "rcpt"
                  ELSE IF shape.key # NoKey THEN "lookup" ELSE Prepared(shape),
           by |-> serial + 1, shape |-> shape, plan |-> <<>>, pending |-> 0,
           limit |-> Unlimited, orgUsed |-> 0, srvUsed |-> 0,
           expired |-> 0, day |-> 0, next |-> 1]]
    /\ UNCHANGED <<scene, policy, today, table, admin, ops, replies, history>>

(* cached_send_operation *)
Lookup(c) ==
    /\ call[c].pc = "lookup"
    /\ \/ LiveRows(call[c].shape) = {} /\ Proceed(c, Prepared(call[c].shape))
       \/ \E r \in LiveRows(call[c].shape) : AnswerFrom(c, r)
    /\ UNCHANGED <<scene, policy, today, table, admin, serial, ops, history>>

(* RCPT TO refuses a suspended organization (a policy that cannot be read  *)
(* is the default one, not suspended) and a server that cannot be read,    *)
(* the end of DATA an invalid sender; then the allowance is read.          *)
Rcpt(c, fails) ==
    /\ call[c].pc = "rcpt"
    /\ \/ /\ Outcome("policy", fails)
          /\ IF (policy.suspended /\ ~fails) \/ ~ItemOf(c).valid
             THEN Answer(c, "refused", Nothing)
             ELSE Proceed(c, "server")
       \/ /\ fails /\ Outcome("query", TRUE)
          /\ Answer(c, "refused", Nothing)
    /\ UNCHANGED <<scene, policy, today, table, admin, serial, ops>>

(* An item is refused: a batch goes on to its next item, a single request  *)
(* looks for the answer of a concurrent one with the same key.             *)
Refuse(c) ==
    IF call[c].shape.op = "batch"
    THEN /\ call' = [call EXCEPT ![c].plan = Append(@, FALSE),
               ![c].pc = IF Len(call[c].plan) + 1 < Len(call[c].shape.items)
                         THEN "policy" ELSE "begin"]
         /\ UNCHANGED replies
    ELSE IF Keyed(c) THEN Proceed(c, "reconcile")
    ELSE Answer(c, "refused", Nothing)

Accept(c) ==
    /\ call' = [call EXCEPT ![c].plan = Append(@, TRUE),
          ![c].pending = @ + ItemOf(c).n,
          ![c].pc = IF Len(call[c].plan) + 1 < Len(call[c].shape.items) THEN "policy"
                    ELSE IF call[c].shape.op = "smtp" /\ ~Keyed(c) THEN "store"
                    ELSE "begin"]
    /\ UNCHANGED replies

(* At the end of DATA SMTP reads the server of the credential which the    *)
(* session then holds.  Both gates are open if the row cannot be read.     *)
OpenGates(c, fails) ==
    /\ history' = [history EXCEPT !.faults = @ + (IF fails THEN 1 ELSE 0),
                                  !.opened = @ \union {call[c].by}]
    /\ UNCHANGED <<scene, policy, today, table, admin, serial, ops>>

ReadServer(c, fails) ==
    /\ call[c].pc = "server"
    /\ IF fails
       THEN /\ "query" \in Faults /\ history.faults < scene.failures
            /\ Accept(c) /\ OpenGates(c, TRUE)
       ELSE /\ Proceed(c, "serverUsage")
            /\ UNCHANGED <<scene, policy, today, table, admin, serial, ops, history>>

(* The session has authenticated again since RCPT TO: the gates of another *)
(* server decide, while the recipients stay with theirs.                   *)
OtherServer(c) ==
    /\ call[c].pc = "server" /\ scene.reauth
    /\ Accept(c) \/ Refuse(c)
    /\ OpenGates(c, FALSE)

(* The reads of the gates, each its own query: HTTP reads the policy, the  *)
(* organization's and the server's usage and refuses the item if one       *)
(* fails; SMTP reads the server's usage, the policy and the organization's *)
(* usage.  There a usage that cannot be read is full and a policy that     *)
(* cannot be read is the default one, without limit.                       *)
Smtp(c) == call[c].shape.op = "smtp"
Full    == 1000000

ReadPolicy(c, fails) ==
    /\ call[c].pc = "policy"
    /\ Outcome(IF Smtp(c) THEN "policy" ELSE "query", fails)
    /\ IF ~Smtp(c) /\ (fails \/ policy.suspended)
       THEN Refuse(c)
       ELSE /\ call' = [call EXCEPT ![c].pc = "orgUsage",
                  ![c].limit = IF fails THEN Unlimited ELSE policy.limit]
            /\ UNCHANGED replies
    /\ UNCHANGED <<scene, policy, today, table, admin, serial, ops>>

ReadOrgUsage(c, fails) ==
    /\ call[c].pc = "orgUsage"
    /\ Outcome("query", fails)
    /\ fails => call[c].limit # Unlimited
    /\ IF ~Smtp(c) /\ fails
       THEN Refuse(c)
       ELSE /\ call' = [call EXCEPT ![c].pc = IF Smtp(c) THEN "decide" ELSE "serverUsage",
                  ![c].orgUsed = IF fails THEN Full ELSE orgSent[MonthOf(today)]]
            /\ UNCHANGED replies
    /\ UNCHANGED <<scene, policy, today, table, admin, serial, ops>>

ReadServerUsage(c, fails) ==
    /\ call[c].pc = "serverUsage"
    /\ Outcome("query", fails)
    /\ fails => ServerLimit[call[c].shape.server] # Unlimited
    /\ IF ~Smtp(c) /\ fails
       THEN Refuse(c)
       ELSE /\ call' = [call EXCEPT ![c].pc = IF Smtp(c) THEN "policy" ELSE "decide",
                  ![c].srvUsed = IF fails THEN Full
                                 ELSE Usage(call[c].shape.server, today)]
            /\ UNCHANGED replies
    /\ UNCHANGED <<scene, policy, today, table, admin, serial, ops>>

(* The stricter allowance decides, then the item's validation. *)
Decide(c) ==
    LET x == call[c]
        r == Stricter(Remaining(ServerLimit[x.shape.server], x.srvUsed + x.pending),
                      Remaining(x.limit, x.orgUsed + x.pending))
    IN  /\ x.pc = "decide"
        /\ IF Allows(r, ItemOf(c).n) /\ ItemOf(c).valid THEN Accept(c) ELSE Refuse(c)
        /\ UNCHANGED <<scene, policy, today, table, admin, serial, ops, history>>

(* reconcile_single_send_error; queue_messages over quota *)
Reconcile(c) ==
    /\ call[c].pc = "reconcile"
    /\ \/ LiveRows(call[c].shape) = {} /\ Answer(c, "refused", Nothing)
       \/ \E r \in LiveRows(call[c].shape) : AnswerFrom(c, r)
    /\ UNCHANGED <<scene, policy, today, table, admin, serial, ops, history>>

(***************************************************************************)
(* store_send_operation.  The transaction's writes are invisible until it  *)
(* commits, and its insert of the key waits for a concurrent one: Begin is *)
(* what it reads first, Commit the rest.                                   *)
(***************************************************************************)
(* Expired rows of the key are deleted (with the commit), a live one       *)
(* answers.                                                                *)
Begin(c) ==
    /\ call[c].pc = "begin"
    /\ \/ /\ ~Keyed(c) \/ LiveRows(call[c].shape) = {}
          /\ call' = [call EXCEPT ![c].pc = "insert", ![c].day = today,
                ![c].expired = IF Keyed(c) /\ RowsFor(call[c].shape) # {}
                               THEN (CHOOSE r \in RowsFor(call[c].shape) : TRUE).response.by
                               ELSE 0]
          /\ UNCHANGED replies
       \/ /\ Keyed(c)
          /\ \E r \in LiveRows(call[c].shape) : AnswerFrom(c, r)
    /\ UNCHANGED <<scene, policy, today, table, admin, serial, ops, history>>

(* insert_message_in_tx for every message, the counters included; an event *)
(* for each threshold reached for the first time in the month.             *)
Insert(new, server, day) ==
    LET sent  == orgSent[MonthOf(day)] + Cardinality(new)
        fired == {events[i].threshold : i \in {i \in 1..Len(events) :
                                                 events[i].month = MonthOf(day)}}
        first == IF new = {} THEN {} ELSE Reached(sent, policy.limit) \ fired
        Event(t) == IF t \in first
                    THEN <<[month |-> MonthOf(day), threshold |-> t]>> ELSE <<>>
    IN  /\ messages' = messages \union new
        /\ srvSent'  = [srvSent EXCEPT ![server][day] = @ + Cardinality(new)]
        /\ orgSent'  = [orgSent EXCEPT ![MonthOf(day)] = sent]
        /\ events'   = events \o Event(80) \o Event(100)

(* Mutant: the key is saved whatever another transaction has stored. *)
KeyTakenNever(c) == FALSE

(* INSERT ... ON CONFLICT DO NOTHING affected no row. *)
KeyTaken(c) == Keyed(c) /\ \E r \in RowsFor(call[c].shape) :
                               r.response.by # call[c].expired

(* lost: the connection breaks after the commit, the caller gets an error. *)
Commit(c, lost) ==
    LET x        == call[c]
        response == [by |-> x.by, plan |-> x.plan]
    IN  /\ x.pc = "insert"
        /\ ~KeyTaken(c)
        /\ Outcome("lost", lost)
        /\ Insert(MessagesOf(x.by, x.shape, x.plan, x.day), x.shape.server, x.day)
        /\ keys' = IF Keyed(c)
                   THEN (keys \ RowsFor(x.shape)) \union
                        {[server |-> x.shape.server, key |-> x.shape.key,
                          op |-> x.shape.op, items |-> x.shape.items,
                          response |-> response, live |-> TRUE]}
                   ELSE keys
        /\ ops' = ops \union {[by |-> x.by, shape |-> x.shape, plan |-> x.plan,
                               fresh |-> TRUE]}
        /\ IF lost THEN Answer(c, "error", Nothing) ELSE Answer(c, "ok", response)
        /\ UNCHANGED <<scene, policy, today, admin, serial>>

(* Another transaction saved the key first: rolled back, its answer used,  *)
(* unless it has expired in the meantime.                                  *)
LoseRace(c) ==
    /\ call[c].pc = "insert"
    /\ KeyTaken(c)
    /\ Proceed(c, "raced")
    /\ UNCHANGED <<scene, policy, today, table, admin, serial, ops, history>>

AnswerRaced(c) ==
    /\ call[c].pc = "raced"
    /\ \/ LiveRows(call[c].shape) = {} /\ Answer(c, "error", Nothing)
       \/ \E r \in LiveRows(call[c].shape) : AnswerFrom(c, r)
    /\ UNCHANGED <<scene, policy, today, table, admin, serial, ops, history>>

(* SMTP without a key: one transaction per recipient; a failure is logged. *)
StoreOne(c, fails) ==
    LET x == call[c]
    IN  /\ x.pc = "store"
        /\ x.next <= x.shape.items[1].n
        /\ Outcome("store", fails)
        /\ IF fails THEN UNCHANGED <<orgSent, srvSent, events, messages>>
           ELSE Insert({y \in MessagesOf(x.by, x.shape, x.plan, today) : y.rcpt = x.next},
                       x.shape.server, today)
        /\ call' = [call EXCEPT ![c].next = @ + 1]
        /\ UNCHANGED <<scene, policy, today, keys, admin, serial, ops, replies>>

AllStored(c) ==
    /\ call[c].pc = "store"
    /\ call[c].next > call[c].shape.items[1].n
    /\ Answer(c, "ok", [by |-> call[c].by, plan |-> call[c].plan])
    /\ UNCHANGED <<scene, policy, today, table, admin, serial, ops, history>>

(* A lookup of the key fails, or a query of the transaction, which is      *)
(* rolled back.                                                            *)
Fail(c) ==
    /\ call[c].pc \in {"lookup", "reconcile", "begin", "insert", "raced"}
    /\ Outcome("query", TRUE)
    /\ Answer(c, "error", Nothing)
    /\ UNCHANGED <<scene, policy, today, table, admin, serial, ops>>

(***************************************************************************)
(* The limits endpoints: apply reads the policy, changes it in memory and  *)
(* writes every column back.                                               *)
(***************************************************************************)
Changes == {[field |-> "limit", value |-> l] : l \in Limits}
           \union {[field |-> "suspended", value |-> b] : b \in BOOLEAN}

ReadForChange(a, change) ==
    /\ admin[a].pc = "idle"
    /\ history.changes < scene.changes
    /\ history' = [history EXCEPT !.changes = @ + 1]
    /\ admin' = [admin EXCEPT ![a] =
          [pc |-> "write",
           policy |-> [policy EXCEPT ![change.field] = change.value]]]
    /\ UNCHANGED <<scene, policy, today, table, call, serial, ops, replies>>

WritePolicy(a) ==
    LET x == admin[a]
    IN  /\ x.pc = "write"
        /\ policy' = x.policy
        /\ admin' = [admin EXCEPT ![a] = Idle]
        /\ UNCHANGED <<scene, today, table, call, serial, ops, replies, history>>

(***************************************************************************)
(* Time and housekeeping                                                   *)
(***************************************************************************)
DayTurns ==
    /\ today < scene.lastDay
    /\ today' = today + 1
    /\ UNCHANGED <<scene, policy, table, call, admin, serial, ops, replies, history>>

KeyExpires ==
    /\ history.expiries < scene.expiries
    /\ \E r \in keys :
          /\ r.live
          /\ keys' = (keys \ {r}) \union {[r EXCEPT !.live = FALSE]}
          /\ ops' = {IF o.shape.server = r.server /\ o.shape.key = r.key
                     THEN [o EXCEPT !.fresh = FALSE] ELSE o : o \in ops}
    /\ history' = [history EXCEPT !.expiries = @ + 1]
    /\ UNCHANGED <<scene, policy, today, orgSent, srvSent, events, messages, call, admin,
                   serial, replies>>

(* prune_send_counters *)
PruneCounters ==
    /\ srvSent' = [s \in Servers |-> [d \in Days |->
                     IF d < today - Kept THEN 0 ELSE srvSent[s][d]]]
    /\ srvSent' # srvSent
    /\ UNCHANGED <<scene, policy, today, orgSent, events, keys, messages, call, admin,
                   serial, ops, replies, history>>

(* prune_idempotency_requests *)
PruneKeys ==
    /\ \E r \in keys : ~r.live
    /\ keys' = {r \in keys : r.live}
    /\ UNCHANGED <<scene, policy, today, orgSent, srvSent, events, messages, call, admin,
                   serial, ops, replies, history>>

-----------------------------------------------------------------------------
Serve(c) == \/ \E shape \in Shapes : Arrive(c, shape)
            \/ Lookup(c)
            \/ \E fails \in BOOLEAN : Rcpt(c, fails) \/ ReadServer(c, fails) \/ ReadPolicy(c, fails)
            \/ OtherServer(c)
            \/ \E fails \in BOOLEAN : ReadOrgUsage(c, fails) \/ ReadServerUsage(c, fails)
            \/ Decide(c)
            \/ Reconcile(c)
            \/ Begin(c)
            \/ \E lost \in BOOLEAN : Commit(c, lost)
            \/ LoseRace(c)
            \/ AnswerRaced(c)
            \/ \E fails \in BOOLEAN : StoreOne(c, fails)
            \/ AllStored(c)
            \/ Fail(c)

Next == \/ \E c \in Clients : Serve(c)
        \/ \E a \in Admins, change \in Changes : ReadForChange(a, change)
        \/ \E a \in Admins : WritePolicy(a)
        \/ DayTurns
        \/ KeyExpires
        \/ PruneCounters
        \/ PruneKeys

Spec == Init /\ [][Next]_vars

-----------------------------------------------------------------------------
(* docs/sending.md: retrying with the same key does not queue another      *)
(* message.  While a key is retained at most one operation is stored under *)
(* it, whichever endpoints the concurrent requests use.                    *)
KeyStoredOnce ==
    \A o, p \in ops :
        /\ o.shape.key # NoKey
        /\ o.fresh /\ p.fresh
        /\ o.shape.server = p.shape.server /\ o.shape.key = p.shape.key
        => o = p

(* docs/sending.md: a retry gets the first answer, a refused send consumes *)
(* nothing.  A success is the response of an operation that was really     *)
(* stored, for the same server, key, endpoint and payload, with every      *)
(* message it names in the table (SMTP without a key is AcceptedIsStored's *)
(* subject); a call refused or answered with a conflict has stored no      *)
(* message, not even for some of its recipients.                           *)
AnswersAreTrue ==
    \A r \in replies :
        /\ r.outcome = "ok" /\ ~(r.shape.op = "smtp" /\ r.shape.key = NoKey) =>
              \E o \in ops :
                  /\ o.by = r.response.by /\ o.plan = r.response.plan
                  /\ o.shape = r.shape
                  /\ \E d \in Days : MessagesOf(o.by, o.shape, o.plan, d)
                                        = {m \in messages : m.by = o.by}
        /\ r.outcome \in {"refused", "conflict"} =>
              ~\E m \in messages : m.by = r.by

(* docs/webhooks.md: each threshold fires once per calendar month.  The    *)
(* counters are the number of messages stored in the month and in the      *)
(* window, although days turn between a request's reads, its transaction   *)
(* and its commit and old buckets are dropped; and while the limit is not  *)
(* changed, a threshold has been announced, once, exactly if the counter   *)
(* has reached it (a limit of 0 has no thresholds).                        *)
UsageIsTrue ==
    /\ \A m \in Months :
          orgSent[m] = Cardinality({x \in messages : MonthOf(x.day) = m})
    /\ \A s \in Servers :
          Usage(s, today) = Cardinality({x \in messages :
                                           x.server = s /\ x.day > today - Window})
    /\ \A m \in Months, t \in {80, 100} :
          LET fired == {i \in 1..Len(events) : events[i] = [month |-> m, threshold |-> t]}
          IN  /\ Cardinality(fired) <= 1
              /\ history.changes = 0 /\ FirstLimit \notin {Unlimited, 0} =>
                    (fired # {} <=> orgSent[m] * 100 >= FirstLimit * t)

(* The recipients of a request, and the most that any has. *)
Recipients(shape) == MessagesOf(0, shape, [i \in 1..Len(shape.items) |-> TRUE], 0)
Largest == Max({0} \union {Cardinality(Recipients(x)) : x \in Shapes})

(* Connections and the size of a request are bounded; a limit is an i64.   *)
ASSUME GateAssumption ==
    /\ IsFiniteSet(Clients) /\ Clients # {}
    /\ \A sc \in Scenes :
          /\ sc.firstLimit # Unlimited => sc.firstLimit <= Full
          /\ \A s \in sc.servers : sc.serverLimit[s] # Unlimited => sc.serverLimit[s] \in 0..Full
          /\ IsFiniteSet({Cardinality(Recipients(x)) : x \in sc.shapes})

(* What was sent through the gates: by calls whose server could be read,   *)
(* and was the one of their recipients.                                    *)
Gated == {x \in messages : x.by \notin history.opened}

(* The gates read the usage before they store, so concurrent requests can  *)
(* exceed a limit, but by no more than the requests of the other clients   *)
(* in flight.  Three things open a gate over SMTP and are left out: a      *)
(* server that cannot be read at the end of DATA and a session that then   *)
(* holds another server's credential open both for that call (finish_data),*)
(* a policy that cannot be read opens the organization's.  What such calls *)
(* store uses up the limit for the others all the same.                    *)
OvershootBounded ==
    LET slack == (Cardinality(Clients) - 1) * Largest
        Read  == "policy" \notin Faults \/ history.faults = 0
    IN  /\ history.changes = 0 /\ Read /\ FirstLimit # Unlimited =>
              \A m \in Months :
                 Cardinality({x \in Gated : MonthOf(x.day) = m}) <= FirstLimit + slack
        /\ \A s \in Servers : ServerLimit[s] # Unlimited =>
              Cardinality({x \in Gated : x.server = s /\ x.day > today - Window})
                 <= ServerLimit[s] + slack

(* docs/sending.md: each RCPT TO recipient becomes its own stored, queued  *)
(* message.  What SMTP answers with 250 is in the table.                   *)
AcceptedIsStored ==
    \A r \in replies : r.outcome = "ok" =>
        \E d \in Days : MessagesOf(r.response.by, r.shape, r.response.plan, d)
                          \subseteq messages
=============================================================================
