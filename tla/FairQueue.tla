----------------------------- MODULE FairQueue ------------------------------
(***************************************************************************)
(* Which queue row a delivery thread gets: PgQueue::dequeue over the       *)
(* queues of all servers (tenants).  One dequeue lists the servers with    *)
(* ready mail, sorts them, and tries to lock a row server by server; the   *)
(* threads of one worker process share the memory of whose turn it was.    *)
(*                                                                         *)
(* What happens to a locked row is Delivery's subject; here it is deleted, *)
(* put back with a delay, or left locked by a dead process.                *)
(***************************************************************************)
EXTENDS Integers, Sequences, FiniteSets

CONSTANTS
    Scenes,          \* set-ups of servers, workers and bounds
    Nobody, Ghost,   \* no lock; the lock of a process that died
    CandidateLimit,  \* LIMIT of the listing query (1000)
    DeadLocksExcuse  \* history: being passed over for a dead process's lock does not count

VARIABLES
    scene,      \* the set-up of this behaviour
    rows,       \* queued_messages
    nextId,     \* its id sequence
    recent,     \* [Processes -> Seq(Servers)]: Turns.last, oldest turn first
    thread,     \* [Threads -> what the dequeue has found so far]
    overtaken,  \* history: turns given to others while a server waited
    crashes

vars == <<scene, rows, nextId, recent, thread, overtaken, crashes>>

Servers    == scene.servers           \* tenants with their own mail
Processes  == DOMAIN scene.filter     \* worker processes
Threads    == DOMAIN scene.processOf  \* delivery loops, over all processes
ProcessOf  == scene.processOf
Filter     == scene.filter            \* [servers, exclude : SUBSET Servers, kinds : SUBSET BOOLEAN]
Remembered == scene.remembered        \* size at which Turns forgets (10000)
Kinds      == scene.kinds             \* the values of bulk that arrive
MaxRows    == scene.rows              \* bound on the rows that ever arrive
MaxRetries == scene.retries           \* bound on the retries of one row
MaxCrashes == scene.crashes

AllThreads == UNION {DOMAIN s.processOf : s \in Scenes}

ASSUME QueueAssumption ==
    /\ CandidateLimit \in Nat \ {0}
    /\ Nobody # Ghost /\ {Nobody, Ghost} \intersect AllThreads = {}
    /\ \A s \in Scenes : /\ s.processOf \in [DOMAIN s.processOf -> DOMAIN s.filter]
                         /\ s.remembered \in Nat \ {0} /\ s.kinds \subseteq BOOLEAN

(***************************************************************************)
(* Rows and what a dequeue sees of them                                    *)
(***************************************************************************)
(* Mutant: a lock is never given up. *)
ReadyUnlocked(q) == q.due /\ q.holder = Nobody

(* Unlocked or stale, and retry_after reached. *)
Ready(q) == q.due /\ (q.holder = Nobody \/ q.stale)

(* worker.servers, worker.exclude_servers and worker.deliver *)
InScope(p, q) == /\ q.server \in Filter[p].servers \ Filter[p].exclude
                 /\ q.bulk \in Filter[p].kinds

ReadyRows(p, s) == {q \in rows : q.server = s /\ Ready(q) /\ InScope(p, q)}

(* Locks inside the window, whoever holds them. *)
InFlight(s) == Cardinality({q \in rows : q.server = s /\ q.holder # Nobody
                                         /\ ~q.stale})

Least(S) == CHOOSE x \in S : \A y \in S : x <= y

(* One row of the listing query per server with ready mail in scope. *)
Candidates(p) ==
    {[server |-> s, inFlight |-> InFlight(s),
      oldest |-> Least({q.id : q \in ReadyRows(p, s)})] :
        s \in {s \in Servers : ReadyRows(p, s) # {}}}

(* ORDER BY in_flight, oldest LIMIT CandidateLimit *)
ListedBefore(c, d) == \/ c.inFlight < d.inFlight
                      \/ c.inFlight = d.inFlight /\ c.oldest < d.oldest

Listed(C) == {c \in C : Cardinality({d \in C : ListedBefore(d, c)}) < CandidateLimit}

(***************************************************************************)
(* Turns: only the order of the turn numbers matters, so recent keeps the  *)
(* servers in that order.  0: never served, or forgotten.                  *)
(***************************************************************************)
LastServed(p, s) ==
    IF \E i \in 1..Len(recent[p]) : recent[p][i] = s
    THEN CHOOSE i \in 1..Len(recent[p]) : recent[p][i] = s
    ELSE 0

Served(p, s) ==
    LET kept == IF Len(recent[p]) > Remembered THEN <<>> ELSE recent[p]
    IN  Append(SelectSeq(kept, LAMBDA x : x # s), s)

(* Mutant: the turns are sorted the wrong way round. *)
LatestTurnBefore(c, d) ==
    \/ c.inFlight < d.inFlight
    \/ c.inFlight = d.inFlight /\ c.turn > d.turn
    \/ c.inFlight = d.inFlight /\ c.turn = d.turn /\ c.oldest < d.oldest

(* turn_order: fewest in flight, then longest ago, then oldest mail. *)
TurnBefore(c, d) ==
    \/ c.inFlight < d.inFlight
    \/ c.inFlight = d.inFlight /\ c.turn < d.turn
    \/ c.inFlight = d.inFlight /\ c.turn = d.turn /\ c.oldest < d.oldest

First(C) == CHOOSE c \in C : \A d \in C \ {c} : TurnBefore(c, d)

(* ORDER BY bulk, id LIMIT 1 *)
NextRow(R) == CHOOSE q \in R : \A x \in R \ {q} :
                  \/ ~q.bulk /\ x.bulk
                  \/ q.bulk = x.bulk /\ q.id < x.id

(* The locking query: one server, the kind filter, rows locked in the      *)
(* meantime skipped.                                                       *)
LockableRows(p, s) ==
    {q \in rows : q.server = s /\ Ready(q) /\ q.bulk \in Filter[p].kinds}

Idle == [pc |-> "idle", found |-> {}, row |-> 0]

Holds(t, q) == thread[t].pc \in {"locked", "busy"} /\ thread[t].row = q.id

-----------------------------------------------------------------------------
Init ==
    /\ scene \in Scenes
    /\ rows      = {}
    /\ nextId    = 1
    /\ recent    = [p \in Processes |-> <<>>]
    /\ thread    = [t \in Threads |-> Idle]
    /\ overtaken = [s \in Servers |-> 0]
    /\ crashes   = 0

(* enqueue *)
Enqueue(s, bulk) ==
    /\ nextId <= MaxRows
    /\ rows' = rows \union
         {[id |-> nextId, server |-> s, bulk |-> bulk, due |-> TRUE,
           retries |-> 0, holder |-> Nobody, stale |-> FALSE]}
    /\ nextId' = nextId + 1
    /\ UNCHANGED <<scene, recent, thread, overtaken, crashes>>

(* dequeue, first query. *)
List(t) ==
    LET p == ProcessOf[t]
    IN  /\ thread[t].pc = "idle"
        /\ Candidates(p) # {}
        /\ thread' = [thread EXCEPT ![t] =
              [pc |-> "listed", found |-> Listed(Candidates(p)), row |-> 0]]
        /\ UNCHANGED <<scene, rows, nextId, recent, overtaken, crashes>>

(* turn_order reads the turns as they are now. *)
SortByTurn(t) ==
    LET p == ProcessOf[t]
    IN  /\ thread[t].pc = "listed"
        /\ thread' = [thread EXCEPT ![t].pc = "sorted",
              ![t].found = {[server |-> c.server, inFlight |-> c.inFlight,
                             turn |-> LastServed(p, c.server),
                             oldest |-> c.oldest] : c \in @}]
        /\ UNCHANGED <<scene, rows, nextId, recent, overtaken, crashes>>

(* A server waits when it has ready mail and nothing of it is in flight:   *)
(* no row is locked by a live thread, nor, if that is an excuse, by a dead *)
(* process whose lock is not stale yet.                                    *)
Waits(p, s) == /\ ReadyRows(p, s) # {}
               /\ ~\E t \in Threads, q \in rows : q.server = s /\ Holds(t, q)
               /\ DeadLocksExcuse => InFlight(s) = 0

(* The locking query for the first server left: a row, or the next server; *)
(* after the last one the thread goes back to polling.                     *)
TryServer(t) ==
    LET p == ProcessOf[t]
        c == First(thread[t].found)
        R == LockableRows(p, c.server)
    IN  /\ thread[t].pc = "sorted"
        /\ IF R # {}
           THEN LET q == NextRow(R)
                IN  /\ rows' = (rows \ {q}) \union
                                 {[q EXCEPT !.holder = t, !.stale = FALSE]}
                    /\ thread' = [thread EXCEPT ![t] =
                          [pc |-> "locked", found |-> {}, row |-> q.id]]
                    /\ overtaken' = [s \in Servers |->
                          IF s = c.server \/ ~Waits(p, s) THEN 0
                                                          ELSE overtaken[s] + 1]
           ELSE /\ thread' = [thread EXCEPT ![t] =
                      IF @.found = {c} THEN Idle
                      ELSE [@ EXCEPT !.found = @ \ {c}]]
                /\ UNCHANGED <<rows, overtaken>>
        /\ UNCHANGED <<scene, nextId, recent, crashes>>

(* turns.served *)
TakeTurn(t) ==
    LET p == ProcessOf[t]
        q == CHOOSE q \in rows : q.id = thread[t].row
    IN  /\ thread[t].pc = "locked"
        /\ recent' = [recent EXCEPT ![p] = Served(p, q.server)]
        /\ thread' = [thread EXCEPT ![t].pc = "busy"]
        /\ UNCHANGED <<scene, rows, nextId, overtaken, crashes>>

(* complete *)
Complete(t) ==
    /\ thread[t].pc = "busy"
    /\ rows' = {q \in rows : ~Holds(t, q)}
    /\ thread' = [thread EXCEPT ![t] = Idle]
    /\ UNCHANGED <<scene, nextId, recent, overtaken, crashes>>

(* retry *)
Retry(t) ==
    /\ thread[t].pc = "busy"
    /\ \E q \in rows :
          /\ Holds(t, q)
          /\ q.retries < MaxRetries
          /\ rows' = (rows \ {q}) \union
               {[q EXCEPT !.holder = Nobody, !.due = FALSE, !.retries = @ + 1]}
    /\ thread' = [thread EXCEPT ![t] = Idle]
    /\ UNCHANGED <<scene, nextId, recent, overtaken, crashes>>

(* A worker process dies and is started again: its locks stay, its turns   *)
(* are forgotten.                                                          *)
Crash(p) ==
    /\ crashes < MaxCrashes
    /\ crashes' = crashes + 1
    /\ rows' = {IF q.holder \in {t \in Threads : ProcessOf[t] = p}
                THEN [q EXCEPT !.holder = Ghost] ELSE q : q \in rows}
    /\ thread' = [t \in Threads |-> IF ProcessOf[t] = p THEN Idle ELSE thread[t]]
    /\ recent' = [recent EXCEPT ![p] = <<>>]
    /\ UNCHANGED <<scene, nextId, overtaken>>

(* Time: a retry_after is reached, the lock of a dead process goes stale.  *)
BackoffElapses(q) ==
    /\ ~q.due
    /\ rows' = (rows \ {q}) \union {[q EXCEPT !.due = TRUE]}
    /\ UNCHANGED <<scene, nextId, recent, thread, overtaken, crashes>>

LockExpires(q) ==
    /\ q.holder = Ghost
    /\ ~q.stale
    /\ rows' = (rows \ {q}) \union {[q EXCEPT !.stale = TRUE]}
    /\ UNCHANGED <<scene, nextId, recent, thread, overtaken, crashes>>

-----------------------------------------------------------------------------
DeliveryLoop(t) == \/ List(t)
                   \/ SortByTurn(t)
                   \/ TryServer(t)
                   \/ TakeTurn(t)
                   \/ Complete(t)
                   \/ Retry(t)

Clock == \E q \in rows : BackoffElapses(q) \/ LockExpires(q)

Next == \/ \E s \in Servers, bulk \in Kinds : Enqueue(s, bulk)
        \/ \E t \in Threads : DeliveryLoop(t)
        \/ \E p \in Processes : Crash(p)
        \/ Clock

Spec == Init /\ [][Next]_vars

(* The loops run and time passes. *)
FairSpec == Spec /\ WF_vars(Clock)
                 /\ \A t \in AllThreads : WF_vars(t \in Threads /\ DeliveryLoop(t))

-----------------------------------------------------------------------------
(* docs/configuration.md: a worker takes turns between the servers that    *)
(* have mail waiting.  A server with ready mail of which nothing is in     *)
(* flight is passed over at most once per other server and thread (each    *)
(* thread may decide on a listing and turns it read before the others      *)
(* moved on), and as often again after a restart, which forgets the turns. *)
(* The listing counts the lock of a dead process as in flight until it is  *)
(* stale (queue.rs:312), and meanwhile its server comes after all others:  *)
(* with DeadLocksExcuse these turns are left out, without it the property  *)
(* is what the documentation says, and fails.                              *)
TurnsAreTaken ==
    \A s \in Servers :
        overtaken[s] <=
            (crashes + 1) * Cardinality(Threads) * (Cardinality(Servers) - 1)

(* Once no more mail arrives, every row in some worker's scope is taken    *)
(* and finished: none is starved by the turns, hidden by a crashed         *)
(* worker's lock, or left behind when a listed server turns out empty.     *)
EveryRowTaken ==
    <>[](\A q \in rows : ~\E p \in Processes : InScope(p, q))
=============================================================================
