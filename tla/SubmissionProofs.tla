-------------------------- MODULE SubmissionProofs ---------------------------
(***************************************************************************)
(* Proofs about Submission, for any clients, requests, limits, days and    *)
(* bounds.                                                                 *)
(*                                                                         *)
(* Every call has a number of its own.  A call that is being served has    *)
(* left nothing behind but the messages of an SMTP submission without a    *)
(* key, and a key that is retained names the one operation stored under it.*)
(* The second part is about the counters: what the quota gates read is the *)
(* number of messages stored, and a threshold is announced once.  The      *)
(* third is about the gates: by how much requests that overlap can exceed  *)
(* a limit.                                                                *)
(***************************************************************************)
EXTENDS Submission, FiniteSetTheorems, TLAPS

Serving(c) == call[c].pc # "idle"

(* The fields of a request that is being served. *)
IsCall(x) ==
    x = [pc |-> x.pc, by |-> x.by, shape |-> x.shape, plan |-> x.plan,
         pending |-> x.pending, limit |-> x.limit, orgUsed |-> x.orgUsed,
         srvUsed |-> x.srvUsed, expired |-> x.expired, day |-> x.day, next |-> x.next]

(* The rows of idempotency_requests, and the operations. *)
IsRow(r) == r = [server |-> r.server, key |-> r.key, op |-> r.op, items |-> r.items,
                 response |-> r.response, live |-> r.live]
IsOp(o)  == o = [by |-> o.by, shape |-> o.shape, plan |-> o.plan, fresh |-> o.fresh]

(* Where a request is: between its arrival and its answer. *)
Places == {"rcpt", "server", "lookup", "policy", "orgUsage", "serverUsage", "decide", "reconcile",
           "begin", "insert", "raced", "store"}

(* Where an item is examined. *)
Gates == {"rcpt", "server", "policy", "orgUsage", "serverUsage", "decide"}

(* SMTP without a key stores as it goes. *)
Unkeyed(shape) == shape.op = "smtp" /\ shape.key = NoKey

(* A request that is being served: its plan covers the items examined.  A  *)
(* transaction's day is the day it began.                                  *)
CallOK(x) ==
    /\ IsCall(x)
    /\ x.pc \in Places
    /\ x.by \in 1..serial
    /\ x.shape \in Shapes
    /\ x.plan \in Seq(BOOLEAN)
    /\ Len(x.plan) <= Len(x.shape.items)
    /\ x.pc \in Gates => Len(x.plan) < Len(x.shape.items)
    /\ x.pc = "lookup" => x.plan = <<>>
    /\ x.pc = "store" => Unkeyed(x.shape)
    /\ x.pc = "insert" => x.day \in 0..today
    /\ x.next \in Nat

TypeOK ==
    /\ scene \in Scenes
    /\ today \in Days
    /\ serial \in Nat
    /\ call = [c \in Clients |-> call[c]]
    /\ \A c \in Clients : Serving(c) => CallOK(call[c])
    /\ \A c \in Clients : ~Serving(c) => call[c] = Idle
    /\ \A r \in keys : IsRow(r)
    /\ \A o \in ops  : IsOp(o)

(* The call numbers that are written down anywhere belong to the past. *)
Numbered ==
    /\ \A o \in ops      : o.by \in 1..serial
    /\ \A r \in replies  : r.by \in 1..serial
    /\ \A m \in messages : m.by \in 1..serial

(* A call that is being served has stored no operation and was not         *)
(* answered; unless it stores as it goes it has no message yet.            *)
Untouched ==
    \A c \in Clients : Serving(c) =>
        /\ \A d \in Clients : Serving(d) /\ call[d].by = call[c].by => d = c
        /\ \A o \in ops : o.by # call[c].by
        /\ \A r \in replies : r.by # call[c].by
        /\ call[c].pc # "store" => \A m \in messages : m.by # call[c].by
        /\ \A m \in messages : m.by = call[c].by => m.rcpt \in 0..(call[c].next - 1)

(* An operation is stored once, with all its messages. *)
OpsStored ==
    /\ \A o, p \in ops : o.by = p.by => o = p
    /\ \A o \in ops : \E d \in Days :
          MessagesOf(o.by, o.shape, o.plan, d) = {m \in messages : m.by = o.by}

(* Op o is what row r of idempotency_requests answers for. *)
Names(r, o) ==
    /\ o.by = r.response.by /\ o.plan = r.response.plan
    /\ o.shape = [server |-> r.server, key |-> r.key, op |-> r.op, items |-> r.items]

(* The primary key of idempotency_requests, and what its rows hold. *)
RowsHold ==
    /\ \A r \in keys : \E o \in ops : Names(r, o)
    /\ \A r, q \in keys : r.server = q.server /\ r.key = q.key => r = q
    /\ \A o \in ops : o.fresh /\ o.shape.key # NoKey => \E r \in keys : r.live /\ Names(r, o)

(* The row a transaction has seen expired stays expired. *)
ExpiredStays ==
    \A c \in Clients : call[c].pc = "insert" =>
        /\ call[c].expired = 0 \/ \E o \in ops : o.by = call[c].expired
        /\ \A r \in RowsFor(call[c].shape) : r.response.by = call[c].expired => ~r.live

Inv == TypeOK /\ Numbered /\ Untouched /\ OpsStored /\ RowsHold /\ ExpiredStays /\ AnswersAreTrue

-----------------------------------------------------------------------------
(***************************************************************************)
(* Steps of one client                                                     *)
(***************************************************************************)
LEMMA ClientStep ==
    ASSUME TypeOK, NEW c \in Clients, NEW y, call' = [call EXCEPT ![c] = y]
    PROVE  /\ call' = [d \in Clients |-> call'[d]]
           /\ \A d \in Clients : call'[d] = IF d = c THEN y ELSE call[d]
  BY DEF TypeOK

(* What the request that is being served looks like. *)
LEMMA Served ==
    ASSUME TypeOK, NEW c \in Clients, call[c].pc # "idle"
    PROVE  CallOK(call[c])
  BY DEF TypeOK, Serving

(* Writing one field of a request leaves the others. *)
LEMMA SetPc ==
    ASSUME NEW x, IsCall(x), NEW v
    PROVE  LET y == [x EXCEPT !.pc = v]
           IN  /\ IsCall(y) /\ y.pc = v /\ y.by = x.by /\ y.shape = x.shape /\ y.plan = x.plan
               /\ y.expired = x.expired /\ y.day = x.day /\ y.next = x.next
               /\ y.pending = x.pending /\ y.limit = x.limit /\ y.orgUsed = x.orgUsed /\ y.srvUsed = x.srvUsed
  BY DEF IsCall

LEMMA SetPlan ==
    ASSUME NEW x, IsCall(x), NEW v
    PROVE  LET y == [x EXCEPT !.plan = v]
           IN  /\ IsCall(y) /\ y.plan = v /\ y.pc = x.pc /\ y.by = x.by /\ y.shape = x.shape
               /\ y.expired = x.expired /\ y.day = x.day /\ y.next = x.next
               /\ y.pending = x.pending /\ y.limit = x.limit /\ y.orgUsed = x.orgUsed /\ y.srvUsed = x.srvUsed
  BY DEF IsCall

LEMMA SetPending ==
    ASSUME NEW x, IsCall(x), NEW v
    PROVE  LET y == [x EXCEPT !.pending = v]
           IN  /\ IsCall(y) /\ y.pc = x.pc /\ y.by = x.by /\ y.shape = x.shape /\ y.plan = x.plan
               /\ y.expired = x.expired /\ y.day = x.day /\ y.next = x.next
               /\ y.pending = v /\ y.limit = x.limit /\ y.orgUsed = x.orgUsed /\ y.srvUsed = x.srvUsed
  BY DEF IsCall

LEMMA SetLimit ==
    ASSUME NEW x, IsCall(x), NEW v
    PROVE  LET y == [x EXCEPT !.limit = v]
           IN  /\ IsCall(y) /\ y.pc = x.pc /\ y.by = x.by /\ y.shape = x.shape /\ y.plan = x.plan
               /\ y.expired = x.expired /\ y.day = x.day /\ y.next = x.next
               /\ y.pending = x.pending /\ y.limit = v /\ y.orgUsed = x.orgUsed /\ y.srvUsed = x.srvUsed
  BY DEF IsCall

LEMMA SetOrgUsed ==
    ASSUME NEW x, IsCall(x), NEW v
    PROVE  LET y == [x EXCEPT !.orgUsed = v]
           IN  /\ IsCall(y) /\ y.pc = x.pc /\ y.by = x.by /\ y.shape = x.shape /\ y.plan = x.plan
               /\ y.expired = x.expired /\ y.day = x.day /\ y.next = x.next
               /\ y.pending = x.pending /\ y.limit = x.limit /\ y.orgUsed = v /\ y.srvUsed = x.srvUsed
  BY DEF IsCall

LEMMA SetSrvUsed ==
    ASSUME NEW x, IsCall(x), NEW v
    PROVE  LET y == [x EXCEPT !.srvUsed = v]
           IN  /\ IsCall(y) /\ y.pc = x.pc /\ y.by = x.by /\ y.shape = x.shape /\ y.plan = x.plan
               /\ y.expired = x.expired /\ y.day = x.day /\ y.next = x.next
               /\ y.pending = x.pending /\ y.limit = x.limit /\ y.orgUsed = x.orgUsed /\ y.srvUsed = v
  BY DEF IsCall

LEMMA SetExpired ==
    ASSUME NEW x, IsCall(x), NEW v
    PROVE  LET y == [x EXCEPT !.expired = v]
           IN  /\ IsCall(y) /\ y.expired = v /\ y.pc = x.pc /\ y.by = x.by /\ y.shape = x.shape
               /\ y.plan = x.plan /\ y.day = x.day /\ y.next = x.next
               /\ y.pending = x.pending /\ y.limit = x.limit /\ y.orgUsed = x.orgUsed /\ y.srvUsed = x.srvUsed
  BY DEF IsCall

LEMMA SetDay ==
    ASSUME NEW x, IsCall(x), NEW v
    PROVE  LET y == [x EXCEPT !.day = v]
           IN  /\ IsCall(y) /\ y.day = v /\ y.pc = x.pc /\ y.by = x.by /\ y.shape = x.shape
               /\ y.plan = x.plan /\ y.expired = x.expired /\ y.next = x.next
               /\ y.pending = x.pending /\ y.limit = x.limit /\ y.orgUsed = x.orgUsed /\ y.srvUsed = x.srvUsed
  BY DEF IsCall

LEMMA SetNext ==
    ASSUME NEW x, IsCall(x), NEW v
    PROVE  LET y == [x EXCEPT !.next = v]
           IN  /\ IsCall(y) /\ y.next = v /\ y.pc = x.pc /\ y.by = x.by /\ y.shape = x.shape
               /\ y.plan = x.plan /\ y.expired = x.expired /\ y.day = x.day
               /\ y.pending = x.pending /\ y.limit = x.limit /\ y.orgUsed = x.orgUsed /\ y.srvUsed = x.srvUsed
  BY DEF IsCall

(* The rows, operations, messages and answers as they were. *)
Tables == <<scene, today, serial, keys, messages, ops>>

LEMMA SceneStays ==
    ASSUME scene' = scene
    PROVE  Days' = Days /\ Shapes' = Shapes /\ Servers' = Servers /\ Months' = Months
  BY DEF Days, Shapes, Servers, Months

(* A request goes on: it stays the same request, and whatever it has       *)
(* learned from its reads does not matter.                                 *)
LEMMA GoesOn ==
    ASSUME Inv, NEW c \in Clients, call[c].pc \notin {"idle", "store"},
           NEW y, CallOK(y), y.by = call[c].by,
           y.pc = "insert" =>
              /\ y.expired = 0 \/ \E o \in ops : o.by = y.expired
              /\ \A r \in RowsFor(y.shape) : r.response.by = y.expired => ~r.live,
           call' = [call EXCEPT ![c] = y], UNCHANGED <<Tables, replies>>
    PROVE  Inv'
  <1>1. /\ call' = [d \in Clients |-> call'[d]]
        /\ \A d \in Clients : call'[d] = IF d = c THEN y ELSE call[d]
    BY ClientStep DEF Inv
  <1>2. /\ scene' = scene /\ today' = today /\ serial' = serial /\ keys' = keys
        /\ messages' = messages /\ ops' = ops /\ replies' = replies
    BY DEF Tables
  <1>3. Days' = Days /\ Shapes' = Shapes
    BY <1>2, SceneStays
  <1>4. y.pc # "idle"
    BY DEF CallOK, Places
  <1>5. TypeOK'
    <2>1. \A z : CallOK(z) => CallOK(z)'
      BY <1>2, <1>3 DEF CallOK
    <2>2. \A d \in Clients : (Serving(d) => CallOK(call[d]))'
      BY <1>1, <2>1 DEF Inv, TypeOK, Serving
    <2>3. \A d \in Clients : (~Serving(d) => call[d] = Idle)'
      BY <1>1, <1>4 DEF Inv, TypeOK, Serving
    <2> QED BY <1>1, <1>2, <1>3, <2>2, <2>3 DEF Inv, TypeOK
  <1>6. Numbered' /\ OpsStored' /\ RowsHold' /\ AnswersAreTrue'
    BY <1>2, <1>3 DEF Inv, Numbered, OpsStored, RowsHold, AnswersAreTrue
  <1>7. Untouched'
    BY <1>1, <1>2, <1>4 DEF Inv, Untouched, Serving
  <1>8. ExpiredStays'
    BY <1>1, <1>2 DEF Inv, ExpiredStays, RowsFor
  <1> QED BY <1>5, <1>6, <1>7, <1>8 DEF Inv

(* A request is answered.  Nothing depends on it any more. *)
LEMMA Answered ==
    ASSUME Inv, NEW c \in Clients, call[c].pc # "idle", NEW outcome, NEW response,
           Answer(c, outcome, response), UNCHANGED Tables,
           outcome = "ok" => \/ Unkeyed(call[c].shape)
                             \/ \E o \in ops : /\ o.by = response.by /\ o.plan = response.plan
                                               /\ o.shape = call[c].shape,
           outcome \in {"refused", "conflict"} => call[c].pc # "store"
    PROVE  Inv'
  <1> DEFINE rep == [by |-> call[c].by, shape |-> call[c].shape, outcome |-> outcome,
                     response |-> response]
  <1>1. /\ call' = [d \in Clients |-> call'[d]]
        /\ \A d \in Clients : call'[d] = IF d = c THEN Idle ELSE call[d]
    BY ClientStep DEF Inv, Answer
  <1>2. /\ scene' = scene /\ today' = today /\ serial' = serial /\ keys' = keys
        /\ messages' = messages /\ ops' = ops /\ replies' = replies \union {rep}
    BY DEF Tables, Answer
  <1>3. Days' = Days /\ Shapes' = Shapes
    BY <1>2, SceneStays
  <1>4. Idle.pc = "idle"
    BY DEF Idle
  <1>5. /\ rep.by = call[c].by /\ rep.shape = call[c].shape /\ rep.outcome = outcome
        /\ rep.response = response /\ call[c].by \in 1..serial
    BY Served DEF Inv, CallOK
  <1> HIDE DEF rep
  <1>6. TypeOK'
    <2>1. \A z : CallOK(z) => CallOK(z)'
      BY <1>2, <1>3 DEF CallOK
    <2>2. \A d \in Clients : (Serving(d) => CallOK(call[d]))'
      BY <1>1, <1>4, <2>1 DEF Inv, TypeOK, Serving
    <2>3. \A d \in Clients : (~Serving(d) => call[d] = Idle)'
      BY <1>1 DEF Inv, TypeOK, Serving
    <2> QED BY <1>1, <1>2, <1>3, <2>2, <2>3 DEF Inv, TypeOK
  <1>7. Numbered' /\ OpsStored' /\ RowsHold'
    BY <1>2, <1>3, <1>5 DEF Inv, Numbered, OpsStored, RowsHold
  <1>8. Untouched'
    BY <1>1, <1>2, <1>4, <1>5 DEF Inv, Untouched, Serving
  <1>9. ExpiredStays'
    BY <1>1, <1>2, <1>4 DEF Inv, ExpiredStays, RowsFor
  <1>10. AnswersAreTrue'
    <2>1. /\ rep.outcome = "ok" /\ ~(rep.shape.op = "smtp" /\ rep.shape.key = NoKey) =>
             \E o \in ops :
                  /\ o.by = rep.response.by /\ o.plan = rep.response.plan
                  /\ o.shape = rep.shape
                  /\ \E d \in Days : MessagesOf(o.by, o.shape, o.plan, d)
                                        = {m \in messages : m.by = o.by}
      BY <1>5 DEF Inv, OpsStored, Unkeyed
    <2>2. rep.outcome \in {"refused", "conflict"} => ~\E m \in messages : m.by = rep.by
      BY <1>5 DEF Inv, Untouched, Serving
    <2> QED BY <1>2, <1>3, <2>1, <2>2 DEF Inv, AnswersAreTrue
  <1> QED BY <1>6, <1>7, <1>8, <1>9, <1>10 DEF Inv

LEMMA ShapeTyped ==
    ASSUME scene \in Scenes, NEW shape \in Shapes
    PROVE  /\ shape = [server |-> shape.server, key |-> shape.key,
                       op |-> shape.op, items |-> shape.items]
           /\ shape.items \in Seq([n : Nat, valid : BOOLEAN])
           /\ shape.server \in Servers /\ shape.op \in Ops
           /\ shape.op # "batch" => Len(shape.items) = 1
  BY SubmissionAssumption DEF Shapes, Servers

(* The answer of a concurrent request with the same key. *)
LEMMA AnsweredFromRow ==
    ASSUME Inv, NEW c \in Clients, call[c].pc \notin {"idle", "store"},
           NEW r \in LiveRows(call[c].shape), AnswerFrom(c, r), UNCHANGED Tables
    PROVE  Inv'
  <1> DEFINE shape == call[c].shape
  <1>1. r \in keys /\ r.server = shape.server /\ r.key = shape.key
    BY DEF LiveRows, RowsFor
  <1>2. shape = [server |-> shape.server, key |-> shape.key, op |-> shape.op,
                 items |-> shape.items]
    BY Served, ShapeTyped DEF Inv, TypeOK, CallOK
  <1>3. PICK o \in ops : Names(r, o)
    BY <1>1 DEF Inv, RowsHold
  <1>4. CASE SameRequest(r, shape)
    <2>1. o.by = r.response.by /\ o.plan = r.response.plan /\ o.shape = shape
      BY <1>1, <1>2, <1>3, <1>4 DEF Names, SameRequest
    <2>2. Answer(c, "ok", r.response)
      BY <1>4 DEF AnswerFrom
    <2> QED BY <2>1, <2>2, Answered
  <1>5. CASE ~SameRequest(r, shape)
    <2>1. Answer(c, "conflict", Nothing)
      BY <1>5 DEF AnswerFrom
    <2> QED BY <2>1, Answered
  <1> QED BY <1>4, <1>5

LEMMA Proceeds ==
    ASSUME Inv, NEW c \in Clients, call[c].pc \notin {"idle", "store"},
           NEW pc \in Places \ {"insert", "store", "lookup"}, Proceed(c, pc), UNCHANGED Tables,
           pc \in Gates => Len(call[c].plan) < Len(call[c].shape.items)
    PROVE  Inv'
  <1> DEFINE x == call[c]
             y == [x EXCEPT !.pc = pc]
  <1>1. CallOK(x) /\ (pc \in Gates => Len(x.plan) < Len(x.shape.items))
    BY Served DEF Inv
  <1>2. IsCall(y) /\ y.pc = pc /\ y.by = x.by /\ y.shape = x.shape /\ y.plan = x.plan /\ y.next = x.next
    BY <1>1, SetPc DEF CallOK
  <1>3. call' = [call EXCEPT ![c] = y] /\ replies' = replies
    BY DEF Proceed
  <1> HIDE DEF x, y
  <1>4. CallOK(y)
    BY <1>1, <1>2 DEF CallOK
  <1> QED BY <1>2, <1>3, <1>4, GoesOn DEF x

LEMMA Appended ==
    ASSUME NEW S, NEW s \in Seq(S), NEW e \in S
    PROVE  Append(s, e) \in Seq(S) /\ Len(Append(s, e)) = Len(s) + 1
  OBVIOUS

LEMMA Refused ==
    ASSUME Inv, NEW c \in Clients, call[c].pc \in Gates, Refuse(c), UNCHANGED Tables
    PROVE  Inv'
  <1>0. CallOK(call[c]) /\ call[c].pc \notin {"idle", "store"}
        /\ Len(call[c].plan) < Len(call[c].shape.items)
    BY Served DEF Inv, Gates, CallOK
  <1>1. CASE call[c].shape.op = "batch"
    <2> DEFINE w    == call[c]
               plan == Append(w.plan, FALSE)
               pc   == IF Len(w.plan) + 1 < Len(w.shape.items) THEN "policy" ELSE "begin"
               x    == [w EXCEPT !.plan = plan]
               y    == [x EXCEPT !.pc = pc]
    <2>1. call' = [call EXCEPT ![c] = y] /\ replies' = replies
      BY <1>1 DEF Refuse
    <2>2. CallOK(w) /\ Len(w.plan) < Len(w.shape.items)
      BY <1>0
    <2>3. w.plan \in Seq(BOOLEAN)
      BY <2>2 DEF CallOK
    <2>4. plan \in Seq(BOOLEAN) /\ Len(plan) = Len(w.plan) + 1
      BY <2>3, Appended
    <2>5. pc \in {"policy", "begin"} /\ (pc = "policy" => Len(w.plan) + 1 < Len(w.shape.items))
      OBVIOUS
    <2>a. IsCall(w)
      BY <2>2 DEF CallOK
    <2> HIDE DEF w, plan, pc
    <2>6. IsCall(x) /\ x.by = w.by /\ x.shape = w.shape /\ x.plan = plan /\ x.next = w.next
      BY <2>a, SetPlan
    <2> HIDE DEF x
    <2>7. IsCall(y) /\ y.pc = pc /\ y.by = w.by /\ y.shape = w.shape /\ y.plan = plan /\ y.next = w.next
      BY <2>6, SetPc
    <2> HIDE DEF y
    <2>8. CallOK(y)
      <3>1. Len(w.plan) \in Nat
        BY <2>3
      <3> QED BY <2>2, <2>4, <2>5, <2>7, <3>1 DEF CallOK, Places, Gates
    <2> QED BY <1>0, <2>1, <2>5, <2>7, <2>8, GoesOn DEF w
  <1>2. CASE call[c].shape.op # "batch" /\ Keyed(c)
    BY <1>0, <1>2, Proceeds DEF Refuse, Places, Gates
  <1>3. CASE call[c].shape.op # "batch" /\ ~Keyed(c)
    BY <1>0, <1>3, Answered DEF Refuse
  <1> QED BY <1>1, <1>2, <1>3

LEMMA Accepted ==
    ASSUME Inv, NEW c \in Clients, call[c].pc \in Gates, Accept(c), UNCHANGED Tables
    PROVE  Inv'
  <1>0. CallOK(call[c]) /\ call[c].pc \notin {"idle", "store"}
        /\ Len(call[c].plan) < Len(call[c].shape.items)
    BY Served DEF Inv, Gates, CallOK
  <1> DEFINE w    == call[c]
             plan == Append(w.plan, TRUE)
             pc   == IF Len(w.plan) + 1 < Len(w.shape.items) THEN "policy"
                     ELSE IF w.shape.op = "smtp" /\ ~Keyed(c) THEN "store"
                     ELSE "begin"
             n    == w.pending + ItemOf(c).n
             x    == [w EXCEPT !.plan = plan]
             z    == [x EXCEPT !.pending = n]
             y    == [z EXCEPT !.pc = pc]
  <1>1. call' = [call EXCEPT ![c] = y] /\ replies' = replies
    BY DEF Accept
  <1>2. CallOK(w) /\ Len(w.plan) < Len(w.shape.items)
    BY <1>0
  <1>3. w.plan \in Seq(BOOLEAN)
    BY <1>2 DEF CallOK
  <1>4. plan \in Seq(BOOLEAN) /\ Len(plan) = Len(w.plan) + 1
    BY <1>3, Appended
  <1>5. /\ pc \in {"policy", "begin", "store"}
        /\ pc = "policy" => Len(w.plan) + 1 < Len(w.shape.items)
        /\ pc = "store" => Unkeyed(w.shape)
    BY DEF Keyed, Unkeyed
  <1>a. IsCall(w)
    BY <1>2 DEF CallOK
  <1> HIDE DEF w, plan, pc, n
  <1>6. IsCall(x) /\ x.by = w.by /\ x.shape = w.shape /\ x.plan = plan /\ x.next = w.next
    BY <1>a, SetPlan
  <1> HIDE DEF x
  <1>7. IsCall(z) /\ z.by = w.by /\ z.shape = w.shape /\ z.plan = plan /\ z.next = w.next
    BY <1>6, SetPending
  <1> HIDE DEF z
  <1>8. IsCall(y) /\ y.pc = pc /\ y.by = w.by /\ y.shape = w.shape /\ y.plan = plan /\ y.next = w.next
    BY <1>7, SetPc
  <1> HIDE DEF y
  <1>9. CallOK(y)
    <2>1. Len(w.plan) \in Nat
      BY <1>3
    <2> QED BY <1>2, <1>4, <1>5, <1>8, <2>1 DEF CallOK, Places, Gates
  <1> QED BY <1>0, <1>1, <1>5, <1>8, <1>9, GoesOn DEF w

(***************************************************************************)
(* The gates                                                               *)
(***************************************************************************)
(* The number of a request that arrives is a new one. *)
LEMMA Arrived ==
    ASSUME Inv, NEW c \in Clients, call[c].pc = "idle", NEW y, IsCall(y),
           y.pc \in {"rcpt", "lookup", "policy", "begin"}, y.by = serial + 1,
           y.shape \in Shapes, y.plan = <<>>, Len(y.shape.items) \in Nat,
           y.pc \in Gates => Len(y.shape.items) > 0, y.next = 1,
           call' = [call EXCEPT ![c] = y], serial' = serial + 1,
           UNCHANGED <<scene, today, keys, messages, ops, replies>>
    PROVE  Inv'
  <1>1. /\ call' = [d \in Clients |-> call'[d]]
        /\ \A d \in Clients : call'[d] = IF d = c THEN y ELSE call[d]
    BY ClientStep DEF Inv
  <1>2. Days' = Days /\ Shapes' = Shapes /\ serial \in Nat
    BY SceneStays DEF Inv, TypeOK
  <1>3. CallOK(y)'
    <2>1. <<>> \in Seq(BOOLEAN) /\ Len(<<>>) = 0
      OBVIOUS
    <2> QED BY <1>2, <2>1 DEF CallOK, Places
  <1>4. \A z : CallOK(z) => CallOK(z)'
    BY <1>2 DEF CallOK
  <1>5. TypeOK'
    <2>1. \A d \in Clients : (Serving(d) => CallOK(call[d]))'
      BY <1>1, <1>3, <1>4 DEF Inv, TypeOK, Serving
    <2>2. \A d \in Clients : (~Serving(d) => call[d] = Idle)'
      BY <1>1 DEF Inv, TypeOK, Serving
    <2> QED BY <1>1, <1>2, <2>1, <2>2 DEF Inv, TypeOK
  <1>6. Numbered' /\ OpsStored' /\ RowsHold' /\ AnswersAreTrue'
    BY <1>2 DEF Inv, Numbered, OpsStored, RowsHold, AnswersAreTrue
  <1>7. Untouched'
    <2>1. \A d \in Clients : Serving(d) => call[d].by \in 1..serial
      BY DEF Inv, TypeOK, CallOK
    <2>2. /\ \A o \in ops : o.by # serial + 1
          /\ \A r \in replies : r.by # serial + 1
          /\ \A m \in messages : m.by # serial + 1
      BY <1>2 DEF Inv, Numbered
    <2>3. \A d \in Clients : Serving(d) => call[d].by # serial + 1
      BY <1>2, <2>1
    <2> QED BY <1>1, <2>2, <2>3 DEF Inv, Untouched, Serving
  <1>8. ExpiredStays'
    BY <1>1 DEF Inv, ExpiredStays, RowsFor
  <1> QED BY <1>5, <1>6, <1>7, <1>8 DEF Inv

(* An item is prepared only where there is one. *)
LEMMA PreparedTyped ==
    ASSUME scene \in Scenes, NEW shape \in Shapes
    PROVE  /\ Len(shape.items) \in Nat
           /\ Prepared(shape) \in {"begin", "policy"}
           /\ Prepared(shape) = "policy" => Len(shape.items) > 0
           /\ shape.op = "smtp" => Len(shape.items) > 0
  <1> DEFINE items == shape.items
             n     == Len(items)
  <1>1. items \in Seq([n : Nat, valid : BOOLEAN]) /\ (shape.op # "batch" => n = 1)
    BY ShapeTyped
  <1>2. n \in Nat /\ (items # <<>> => n > 0)
    <2> HIDE DEF items
    <2> QED BY <1>1
  <1>3. Prepared(shape) \in {"begin", "policy"} /\ (Prepared(shape) = "policy" => items # <<>>)
    BY DEF Prepared
  <1> HIDE DEF items, n
  <1>4. n = 1 => n > 0
    OBVIOUS
  <1>5. shape.op = "smtp" => n > 0
    BY <1>1, <1>4
  <1> QED BY <1>2, <1>3, <1>5 DEF n, items

LEMMA ArriveStep ==
    ASSUME Inv, NEW c \in Clients, NEW shape \in Shapes, Arrive(c, shape)
    PROVE  Inv'
  <1> DEFINE pc == IF shape.op = "smtp" THEN "rcpt"
                   ELSE IF shape.key # NoKey THEN "lookup" ELSE Prepared(shape)
             y  == [pc |-> pc, by |-> serial + 1, shape |-> shape, plan |-> <<>>, pending |-> 0,
                    limit |-> Unlimited, orgUsed |-> 0, srvUsed |-> 0,
                    expired |-> 0, day |-> 0, next |-> 1]
  <1>1. /\ call' = [call EXCEPT ![c] = y] /\ serial' = serial + 1 /\ call[c].pc = "idle"
        /\ UNCHANGED <<scene, today, keys, messages, ops, replies>>
    BY DEF Arrive, table
  <1>2. /\ Len(shape.items) \in Nat
        /\ pc \in {"rcpt", "lookup", "policy", "begin"}
        /\ pc \in Gates => Len(shape.items) > 0
    BY PreparedTyped DEF Gates, Inv, TypeOK
  <1>3. /\ IsCall(y) /\ y.pc = pc /\ y.by = serial + 1 /\ y.shape = shape /\ y.plan = <<>>
        /\ y.next = 1
    BY DEF IsCall
  <1> HIDE DEF pc, y
  <1> QED BY <1>1, <1>2, <1>3, Arrived

LEMMA LookupStep ==
    ASSUME Inv, NEW c \in Clients, Lookup(c)
    PROVE  Inv'
  <1>1. call[c].pc = "lookup" /\ UNCHANGED Tables
    BY DEF Lookup, Tables, table
  <1>2. CASE \E r \in LiveRows(call[c].shape) : AnswerFrom(c, r)
    BY <1>1, <1>2, AnsweredFromRow
  <1>3. CASE Proceed(c, Prepared(call[c].shape))
    <2>1. CallOK(call[c])
      BY <1>1, Served DEF Inv
    <2>2. call[c].shape \in Shapes /\ call[c].plan = <<>> /\ Len(<<>>) = 0
      BY <1>1, <2>1 DEF CallOK
    <2>3. /\ Prepared(call[c].shape) \in Places \ {"insert", "store", "lookup"}
          /\ Prepared(call[c].shape) \in Gates => Len(call[c].plan) < Len(call[c].shape.items)
      BY <2>2, PreparedTyped DEF Inv, TypeOK, Places, Gates
    <2> QED BY <1>1, <1>3, <2>3, Proceeds
  <1> QED BY <1>2, <1>3 DEF Lookup

LEMMA RcptStep ==
    ASSUME Inv, NEW c \in Clients, NEW fails, Rcpt(c, fails)
    PROVE  Inv'
  <1>1. call[c].pc = "rcpt" /\ UNCHANGED Tables
    BY DEF Rcpt, Tables, table
  <1>2. Len(call[c].plan) < Len(call[c].shape.items)
    BY <1>1, Served DEF Inv, CallOK, Gates
  <1>3. CASE Answer(c, "refused", Nothing)
    BY <1>1, <1>3, Answered
  <1>4. CASE Proceed(c, "server")
    BY <1>1, <1>2, <1>4, Proceeds DEF Places
  <1> QED BY <1>3, <1>4 DEF Rcpt

LEMMA ReadServerStep ==
    ASSUME Inv, NEW c \in Clients, NEW fails, ReadServer(c, fails)
    PROVE  Inv'
  <1>1. call[c].pc = "server" /\ call[c].pc \in Gates /\ UNCHANGED Tables
    BY DEF ReadServer, OpenGates, Tables, table, Gates
  <1>2. Len(call[c].plan) < Len(call[c].shape.items)
    BY <1>1, Served DEF Inv, CallOK, Gates
  <1>3. CASE Accept(c)
    BY <1>1, <1>3, Accepted
  <1>4. CASE Proceed(c, "serverUsage")
    BY <1>1, <1>2, <1>4, Proceeds DEF Places
  <1> QED BY <1>3, <1>4 DEF ReadServer

LEMMA OtherServerStep ==
    ASSUME Inv, NEW c \in Clients, OtherServer(c)
    PROVE  Inv'
  <1>1. call[c].pc \in Gates /\ UNCHANGED Tables /\ (Accept(c) \/ Refuse(c))
    BY DEF OtherServer, OpenGates, Tables, table, Gates
  <1> QED BY <1>1, Accepted, Refused

(* Writing what a gate has read. *)
LEMMA Reads ==
    ASSUME Inv, NEW c \in Clients, call[c].pc \in Gates, NEW x, IsCall(x),
           x.by = call[c].by, x.shape = call[c].shape, x.plan = call[c].plan,
           x.next = call[c].next, NEW pc \in Gates \ {"rcpt"},
           call' = [call EXCEPT ![c] = [x EXCEPT !.pc = pc]], UNCHANGED <<Tables, replies>>
    PROVE  Inv'
  <1> DEFINE y == [x EXCEPT !.pc = pc]
  <1>1. CallOK(call[c]) /\ call[c].pc \notin {"idle", "store"}
    BY Served DEF Inv, Gates
  <1>2. IsCall(y) /\ y.pc = pc /\ y.by = x.by /\ y.shape = x.shape /\ y.plan = x.plan /\ y.next = x.next
    BY SetPc
  <1>3. call' = [call EXCEPT ![c] = y]
    OBVIOUS
  <1> HIDE DEF y
  <1>4. CallOK(y)
    BY <1>1, <1>2 DEF CallOK, Places, Gates
  <1>5. y.pc # "insert"
    BY <1>2 DEF Gates
  <1> QED BY <1>1, <1>2, <1>3, <1>4, <1>5, GoesOn

LEMMA ReadPolicyStep ==
    ASSUME Inv, NEW c \in Clients, NEW fails, ReadPolicy(c, fails)
    PROVE  Inv'
  <1>1. call[c].pc \in Gates /\ UNCHANGED Tables
    BY DEF ReadPolicy, Tables, table, Gates
  <1>2. CASE Refuse(c)
    BY <1>1, <1>2, Refused
  <1>3. CASE ~Refuse(c)
    <2> DEFINE w == call[c]
               l == IF fails THEN Unlimited ELSE policy.limit
               x == [w EXCEPT !.limit = l]
    <2>1. call' = [call EXCEPT ![c] = [x EXCEPT !.pc = "orgUsage"]] /\ replies' = replies
      BY <1>3 DEF ReadPolicy
    <2>2. IsCall(w)
      BY <1>1, Served DEF Inv, CallOK, Gates
    <2> HIDE DEF l
    <2>3. IsCall(x) /\ x.by = w.by /\ x.shape = w.shape /\ x.plan = w.plan /\ x.next = w.next
      BY <2>2, SetLimit
    <2> HIDE DEF x
    <2> QED BY <1>1, <2>1, <2>3, Reads DEF Gates
  <1> QED BY <1>2, <1>3

LEMMA ReadOrgUsageStep ==
    ASSUME Inv, NEW c \in Clients, NEW fails, ReadOrgUsage(c, fails)
    PROVE  Inv'
  <1>1. call[c].pc \in Gates /\ UNCHANGED Tables
    BY DEF ReadOrgUsage, Tables, table, Gates
  <1>2. CASE Refuse(c)
    BY <1>1, <1>2, Refused
  <1>3. CASE ~Refuse(c)
    <2> DEFINE w  == call[c]
               u  == IF fails THEN Full ELSE orgSent[MonthOf(today)]
               pc == IF Smtp(c) THEN "decide" ELSE "serverUsage"
               x  == [w EXCEPT !.orgUsed = u]
    <2>0. /\ call' = [call EXCEPT ![c].pc = IF Smtp(c) THEN "decide" ELSE "serverUsage",
                ![c].orgUsed = IF fails THEN Full ELSE orgSent[MonthOf(today)]]
          /\ UNCHANGED replies
      BY <1>3 DEF ReadOrgUsage
    <2>1. call' = [call EXCEPT ![c] = [x EXCEPT !.pc = pc]] /\ replies' = replies
      BY <2>0
    <2>2. IsCall(w)
      BY <1>1, Served DEF Inv, CallOK, Gates
    <2>3. pc \in Gates \ {"rcpt"}
      BY DEF Gates
    <2> HIDE DEF u, pc
    <2>4. IsCall(x) /\ x.by = w.by /\ x.shape = w.shape /\ x.plan = w.plan /\ x.next = w.next
      BY <2>2, SetOrgUsed
    <2> HIDE DEF x
    <2> QED BY <1>1, <2>1, <2>3, <2>4, Reads
  <1> QED BY <1>2, <1>3

LEMMA ReadServerUsageStep ==
    ASSUME Inv, NEW c \in Clients, NEW fails, ReadServerUsage(c, fails)
    PROVE  Inv'
  <1>1. call[c].pc \in Gates /\ UNCHANGED Tables
    BY DEF ReadServerUsage, Tables, table, Gates
  <1>2. CASE Refuse(c)
    BY <1>1, <1>2, Refused
  <1>3. CASE ~Refuse(c)
    <2> DEFINE w  == call[c]
               u  == IF fails THEN Full ELSE Usage(call[c].shape.server, today)
               pc == IF Smtp(c) THEN "policy" ELSE "decide"
               x  == [w EXCEPT !.srvUsed = u]
    <2>0. /\ call' = [call EXCEPT ![c].pc = IF Smtp(c) THEN "policy" ELSE "decide",
                ![c].srvUsed = IF fails THEN Full
                               ELSE Usage(call[c].shape.server, today)]
          /\ UNCHANGED replies
      BY <1>3 DEF ReadServerUsage
    <2>1. call' = [call EXCEPT ![c] = [x EXCEPT !.pc = pc]] /\ replies' = replies
      BY <2>0
    <2>2. IsCall(w)
      BY <1>1, Served DEF Inv, CallOK, Gates
    <2>3. pc \in Gates \ {"rcpt"}
      BY DEF Gates
    <2> HIDE DEF u, pc
    <2>4. IsCall(x) /\ x.by = w.by /\ x.shape = w.shape /\ x.plan = w.plan /\ x.next = w.next
      BY <2>2, SetSrvUsed
    <2> HIDE DEF x
    <2> QED BY <1>1, <2>1, <2>3, <2>4, Reads
  <1> QED BY <1>2, <1>3

LEMMA DecideStep ==
    ASSUME Inv, NEW c \in Clients, Decide(c)
    PROVE  Inv'
  <1>1. call[c].pc \in Gates /\ UNCHANGED Tables /\ (Accept(c) \/ Refuse(c))
    BY DEF Decide, Tables, table, Gates
  <1> QED BY <1>1, Accepted, Refused

LEMMA ReconcileStep ==
    ASSUME Inv, NEW c \in Clients, Reconcile(c)
    PROVE  Inv'
  <1>1. call[c].pc = "reconcile" /\ UNCHANGED Tables
    BY DEF Reconcile, Tables, table
  <1>2. CASE \E r \in LiveRows(call[c].shape) : AnswerFrom(c, r)
    BY <1>1, <1>2, AnsweredFromRow
  <1>3. CASE Answer(c, "refused", Nothing)
    BY <1>1, <1>3, Answered
  <1> QED BY <1>2, <1>3 DEF Reconcile

(***************************************************************************)
(* The store                                                               *)
(***************************************************************************)
(* A row names an operation, so its response is not numbered 0. *)
LEMMA RowNumbered ==
    ASSUME Inv, NEW r \in keys
    PROVE  r.response.by \in 1..serial /\ \E o \in ops : o.by = r.response.by
  <1>0. PICK o \in ops : Names(r, o)
    BY DEF Inv, RowsHold
  <1>1. o \in ops /\ o.by = r.response.by
    BY <1>0 DEF Names
  <1>2. o.by \in 1..serial
    BY <1>1 DEF Inv, Numbered
  <1> QED BY <1>1, <1>2

LEMMA BeginStep ==
    ASSUME Inv, NEW c \in Clients, Begin(c)
    PROVE  Inv'
  <1>1. call[c].pc = "begin" /\ UNCHANGED Tables
    BY DEF Begin, Tables, table
  <1>2. CASE \E r \in LiveRows(call[c].shape) : AnswerFrom(c, r)
    BY <1>1, <1>2, AnsweredFromRow
  <1>3. CASE ~\E r \in LiveRows(call[c].shape) : AnswerFrom(c, r)
    <2> DEFINE w == call[c]
               e == IF Keyed(c) /\ RowsFor(call[c].shape) # {}
                    THEN (CHOOSE r \in RowsFor(call[c].shape) : TRUE).response.by
                    ELSE 0
               x == [w EXCEPT !.expired = e]
               z == [x EXCEPT !.day = today]
               y == [z EXCEPT !.pc = "insert"]
    <2>0. /\ call' = [call EXCEPT ![c].pc = "insert", ![c].day = today,
                ![c].expired = IF Keyed(c) /\ RowsFor(call[c].shape) # {}
                               THEN (CHOOSE r \in RowsFor(call[c].shape) : TRUE).response.by
                               ELSE 0]
          /\ replies' = replies
          /\ ~Keyed(c) \/ LiveRows(call[c].shape) = {}
      BY <1>3 DEF Begin
    <2>1. call' = [call EXCEPT ![c] = y] /\ replies' = replies
      BY <2>0
    <2>2. CallOK(w)
      BY <1>1, Served DEF Inv
    <2>3. e = 0 \/ \E o \in ops : o.by = e
      <3>1. CASE Keyed(c) /\ RowsFor(call[c].shape) # {}
        <4>1. PICK q : q = (CHOOSE r \in RowsFor(call[c].shape) : TRUE)
          OBVIOUS
        <4>2. q \in RowsFor(call[c].shape)
          BY <3>1, <4>1
        <4>3. q \in keys
          BY <4>2 DEF RowsFor
        <4> QED BY <3>1, <4>1, <4>3, RowNumbered
      <3> QED BY <3>1
    <2>4. \A r \in RowsFor(w.shape) : r.response.by = e => ~r.live
      <3>1. CASE Keyed(c)
        BY <2>0, <3>1 DEF LiveRows
      <3>2. CASE ~Keyed(c)
        <4>1. e = 0 /\ serial \in Nat
          BY <3>2 DEF Inv, TypeOK
        <4> HIDE DEF e
        <4>2. \A r \in RowsFor(w.shape) : r.response.by \in 1..serial
          BY RowNumbered DEF RowsFor
        <4> QED BY <4>1, <4>2
      <3> QED BY <3>1, <3>2
    <2>5. IsCall(w)
      BY <2>2 DEF CallOK
    <2> HIDE DEF w, e
    <2>6. IsCall(x) /\ x.by = w.by /\ x.shape = w.shape /\ x.plan = w.plan /\ x.next = w.next
          /\ x.expired = e
      BY <2>5, SetExpired
    <2> HIDE DEF x
    <2>7. IsCall(z) /\ z.by = w.by /\ z.shape = w.shape /\ z.plan = w.plan /\ z.next = w.next
          /\ z.expired = e /\ z.day = today
      BY <2>6, SetDay
    <2> HIDE DEF z
    <2>8. IsCall(y) /\ y.by = w.by /\ y.shape = w.shape /\ y.plan = w.plan /\ y.next = w.next
          /\ y.expired = e /\ y.day = today /\ y.pc = "insert"
      BY <2>7, SetPc
    <2> HIDE DEF y
    <2>9. today \in 0..today
      BY DEF Inv, TypeOK, Days
    <2>10. CallOK(y)
      BY <2>2, <2>8, <2>9 DEF CallOK, Places, Gates
    <2> QED BY <1>1, <2>1, <2>3, <2>4, <2>8, <2>10, GoesOn DEF w
  <1> QED BY <1>2, <1>3

LEMMA LoseRaceStep ==
    ASSUME Inv, NEW c \in Clients, LoseRace(c)
    PROVE  Inv'
  <1>1. call[c].pc = "insert" /\ UNCHANGED Tables /\ Proceed(c, "raced")
    BY DEF LoseRace, Tables, table
  <1> QED BY <1>1, Proceeds DEF Places, Gates

LEMMA AnswerRacedStep ==
    ASSUME Inv, NEW c \in Clients, AnswerRaced(c)
    PROVE  Inv'
  <1>1. call[c].pc = "raced" /\ UNCHANGED Tables
    BY DEF AnswerRaced, Tables, table
  <1>2. CASE \E r \in LiveRows(call[c].shape) : AnswerFrom(c, r)
    BY <1>1, <1>2, AnsweredFromRow
  <1>3. CASE Answer(c, "error", Nothing)
    BY <1>1, <1>3, Answered
  <1> QED BY <1>2, <1>3 DEF AnswerRaced

LEMMA AllStoredStep ==
    ASSUME Inv, NEW c \in Clients, AllStored(c)
    PROVE  Inv'
  <1>1. /\ call[c].pc = "store" /\ UNCHANGED Tables
        /\ Answer(c, "ok", [by |-> call[c].by, plan |-> call[c].plan])
    BY DEF AllStored, Tables, table
  <1>2. Unkeyed(call[c].shape)
    BY <1>1, Served DEF Inv, CallOK
  <1> QED BY <1>1, <1>2, Answered

LEMMA FailStep ==
    ASSUME Inv, NEW c \in Clients, Fail(c)
    PROVE  Inv'
  <1>1. call[c].pc # "idle" /\ UNCHANGED Tables /\ Answer(c, "error", Nothing)
    BY DEF Fail, Tables, table
  <1> QED BY <1>1, Answered

(* What a message of an operation is. *)
LEMMA MessageNamed ==
    ASSUME NEW by, NEW shape, NEW plan, NEW day, NEW m \in MessagesOf(by, shape, plan, day)
    PROVE  m.by = by /\ m.server = shape.server /\ m.day = day
  BY DEF MessagesOf

(* The row a transaction saves. *)
Row(shape, response) ==
    [server |-> shape.server, key |-> shape.key, op |-> shape.op, items |-> shape.items,
     response |-> response, live |-> TRUE]

(* An answer for an operation that was just stored. *)
LEMMA AnswerAdded ==
    ASSUME AnswersAreTrue, Days' = Days, ops \subseteq ops', NEW reply,
           replies' = replies \union {reply},
           \A o \in ops : {m \in messages' : m.by = o.by} = {m \in messages : m.by = o.by},
           \A r \in replies : r.outcome \in {"refused", "conflict"} =>
              ~\E m \in messages' : m.by = r.by,
           reply.outcome \notin {"refused", "conflict"},
           reply.outcome = "ok" =>
              \E o \in ops' :
                  /\ o.by = reply.response.by /\ o.plan = reply.response.plan
                  /\ o.shape = reply.shape
                  /\ \E d \in Days : MessagesOf(o.by, o.shape, o.plan, d)
                                        = {m \in messages' : m.by = o.by}
    PROVE  AnswersAreTrue'
  <1>1. \A r \in replies :
             r.outcome = "ok" /\ ~(r.shape.op = "smtp" /\ r.shape.key = NoKey) =>
              \E o \in ops' :
                  /\ o.by = r.response.by /\ o.plan = r.response.plan
                  /\ o.shape = r.shape
                  /\ \E d \in Days : MessagesOf(o.by, o.shape, o.plan, d)
                                        = {m \in messages' : m.by = o.by}
    BY DEF AnswersAreTrue
  <1> QED BY <1>1 DEF AnswersAreTrue

(* The transaction's key was free: what was stored under it has expired.   *)
LEMMA Committed ==
    ASSUME Inv, NEW c \in Clients, call[c].pc = "insert", ~KeyTaken(c),
           NEW by, by = call[c].by, NEW shape, shape = call[c].shape,
           NEW plan, plan = call[c].plan, NEW day, day = call[c].day,
           NEW response, response = [by |-> by, plan |-> plan],
           NEW reply, reply.by = by, reply.shape = shape,
           reply.outcome \notin {"refused", "conflict"},
           reply.outcome = "ok" => reply.response = response,
           call' = [call EXCEPT ![c] = Idle], replies' = replies \union {reply},
           messages' = messages \union MessagesOf(by, shape, plan, day),
           keys' = IF shape.key # NoKey
                   THEN (keys \ RowsFor(shape)) \union {Row(shape, response)} ELSE keys,
           ops' = ops \union {[by |-> by, shape |-> shape, plan |-> plan, fresh |-> TRUE]},
           UNCHANGED <<scene, today, serial>>
    PROVE  Inv'
  <1> DEFINE new == MessagesOf(by, shape, plan, day)
             row == Row(shape, response)
             op  == [by |-> by, shape |-> shape, plan |-> plan, fresh |-> TRUE]
  <1>1. /\ call' = [d \in Clients |-> call'[d]]
        /\ \A d \in Clients : call'[d] = IF d = c THEN Idle ELSE call[d]
    BY ClientStep DEF Inv
  <1>2. Idle.pc = "idle"
    BY DEF Idle
  <1>3. CallOK(call[c])
    BY Served DEF Inv
  <1>4. /\ by \in 1..serial /\ shape \in Shapes /\ day \in Days
        /\ shape = [server |-> shape.server, key |-> shape.key, op |-> shape.op,
                     items |-> shape.items]
    <2>1. day \in 0..today /\ shape \in Shapes /\ by \in 1..serial
      BY <1>3 DEF CallOK
    <2>2. scene \in Scenes /\ scene.lastDay \in Nat /\ today \in 0..scene.lastDay
      BY SubmissionAssumption DEF Inv, TypeOK, Days
    <2>3. day \in Days
      BY <2>1, <2>2 DEF Days
    <2> QED BY <2>1, <2>2, <2>3, ShapeTyped
  <1>5. /\ IsOp(op) /\ op.by = by /\ op.shape = shape /\ op.plan = plan /\ op.fresh
    BY DEF IsOp
  <1>6. /\ IsRow(row) /\ row.live /\ row.server = shape.server /\ row.key = shape.key
        /\ row.response.by = by
    BY DEF IsRow, Row
  <1>7. Names(row, op)
    BY <1>4 DEF Names, Row
  <1>8. \A m \in new : m.by = by
    BY MessageNamed
  <1>9. /\ \A o \in ops : o.by # by
        /\ \A r \in replies : r.by # by
        /\ \A m \in messages : m.by # by
        /\ \A d \in Clients : d # c /\ Serving(d) => call[d].by # by
    BY DEF Inv, Untouched, Serving
  <1>10. Days' = Days /\ Shapes' = Shapes
    BY SceneStays
  <1>11. /\ messages' = messages \union new /\ ops' = ops \union {op}
         /\ keys' = IF shape.key # NoKey THEN (keys \ RowsFor(shape)) \union {row} ELSE keys
    OBVIOUS
  <1>12. shape.key # NoKey => \A r \in RowsFor(shape) : ~r.live
    BY DEF Inv, ExpiredStays, KeyTaken, Keyed
  <1> HIDE DEF new, row, op
  <1>13. TypeOK'
    <2>1. \A z : CallOK(z) => CallOK(z)'
      BY <1>10 DEF CallOK
    <2>2. \A d \in Clients : (Serving(d) => CallOK(call[d]))'
      BY <1>1, <1>2, <2>1 DEF Inv, TypeOK, Serving
    <2>3. \A d \in Clients : (~Serving(d) => call[d] = Idle)'
      BY <1>1 DEF Inv, TypeOK, Serving
    <2>4. (\A r \in keys : IsRow(r))' /\ (\A o \in ops : IsOp(o))'
      BY <1>5, <1>6, <1>11 DEF Inv, TypeOK
    <2> QED BY <1>1, <1>10, <2>2, <2>3, <2>4 DEF Inv, TypeOK
  <1>14. Numbered'
    BY <1>4, <1>5, <1>8, <1>11 DEF Inv, Numbered
  <1>15. Untouched'
    BY <1>1, <1>2, <1>5, <1>8, <1>9, <1>11 DEF Inv, Untouched, Serving
  <1>16. \A o \in ops : {m \in messages' : m.by = o.by} = {m \in messages : m.by = o.by}
    BY <1>8, <1>9, <1>11
  <1>17. MessagesOf(op.by, op.shape, op.plan, day) = {m \in messages' : m.by = op.by}
    BY <1>5, <1>8, <1>9, <1>11 DEF new
  <1>18. OpsStored'
    <2>1. \A o, p \in ops' : o.by = p.by => o = p
      BY <1>5, <1>9, <1>11 DEF Inv, OpsStored
    <2>2. \A o \in ops' : \E d \in Days :
             MessagesOf(o.by, o.shape, o.plan, d) = {m \in messages' : m.by = o.by}
      BY <1>4, <1>11, <1>16, <1>17 DEF Inv, OpsStored
    <2> QED BY <1>10, <2>1, <2>2 DEF OpsStored
  <1>19. RowsHold'
    <2>1. \A r \in keys' : \E o \in ops' : Names(r, o)
      BY <1>7, <1>11 DEF Inv, RowsHold
    <2>2. \A r, q \in keys' : r.server = q.server /\ r.key = q.key => r = q
      BY <1>6, <1>11 DEF Inv, RowsHold, RowsFor
    <2>3. \A o \in ops' : o.fresh /\ o.shape.key # NoKey => \E r \in keys' : r.live /\ Names(r, o)
      <3>1. CASE shape.key = NoKey
        BY <1>5, <1>11, <3>1 DEF Inv, RowsHold
      <3>2. CASE shape.key # NoKey
        BY <1>6, <1>7, <1>11, <1>12, <3>2 DEF Inv, RowsHold
      <3> QED BY <3>1, <3>2
    <2> QED BY <2>1, <2>2, <2>3 DEF RowsHold
  <1>20. ExpiredStays'
    <2> SUFFICES ASSUME NEW d \in Clients, call'[d].pc = "insert"
                 PROVE  /\ call'[d].expired = 0 \/ \E o \in ops' : o.by = call'[d].expired
                        /\ \A r \in keys' : /\ r.server = call'[d].shape.server
                                              /\ r.key = call'[d].shape.key
                                              /\ r.response.by = call'[d].expired => ~r.live
      BY DEF ExpiredStays, RowsFor
    <2>1. d # c /\ call'[d] = call[d]
      BY <1>1, <1>2
    <2>2. call[d].expired # by
      <3>1. 0 # by
        BY <1>4 DEF Inv, TypeOK
      <3> QED BY <1>9, <2>1, <3>1 DEF Inv, ExpiredStays
    <2> QED BY <1>6, <1>11, <2>1, <2>2 DEF Inv, ExpiredStays, RowsFor
  <1>21. AnswersAreTrue'
    <2>1. reply.outcome = "ok" =>
              /\ op.by = reply.response.by /\ op.plan = reply.response.plan
              /\ op.shape = reply.shape
      BY <1>5
    <2>2. \A r \in replies : r.outcome \in {"refused", "conflict"} =>
              ~\E m \in messages' : m.by = r.by
      BY <1>8, <1>9, <1>11 DEF Inv, AnswersAreTrue
    <2>3. AnswersAreTrue /\ Days' = Days /\ ops \subseteq ops'
      BY <1>10, <1>11 DEF Inv
    <2>4. op \in ops'
      BY <1>11, Zenon
    <2>5. \E d \in Days : MessagesOf(op.by, op.shape, op.plan, d)
                               = {m \in messages' : m.by = op.by}
      BY <1>4, <1>17, Zenon
    <2>6. reply.outcome = "ok" =>
              \E o \in ops' :
                  /\ o.by = reply.response.by /\ o.plan = reply.response.plan
                  /\ o.shape = reply.shape
                  /\ \E d \in Days : MessagesOf(o.by, o.shape, o.plan, d)
                                        = {m \in messages' : m.by = o.by}
      BY <2>1, <2>4, <2>5, Zenon
    <2> QED BY <1>16, <2>2, <2>3, <2>6, AnswerAdded
  <1> QED BY <1>13, <1>14, <1>15, <1>18, <1>19, <1>20, <1>21 DEF Inv

LEMMA CommitStep ==
    ASSUME Inv, NEW c \in Clients, NEW lost, Commit(c, lost)
    PROVE  Inv'
  <1> DEFINE x        == call[c]
             response == [by |-> x.by, plan |-> x.plan]
             outcome  == IF lost THEN "error" ELSE "ok"
             reply    == [by |-> x.by, shape |-> x.shape, outcome |-> outcome,
                          response |-> IF lost THEN Nothing ELSE response]
  <1>1. /\ x.pc = "insert" /\ ~KeyTaken(c)
        /\ messages' = messages \union MessagesOf(x.by, x.shape, x.plan, x.day)
        /\ keys' = IF x.shape.key # NoKey
                   THEN (keys \ RowsFor(x.shape)) \union {Row(x.shape, response)} ELSE keys
        /\ ops' = ops \union {[by |-> x.by, shape |-> x.shape, plan |-> x.plan, fresh |-> TRUE]}
        /\ UNCHANGED <<scene, today, serial>>
    BY DEF Commit, Insert, Row, Keyed
  <1>2. call' = [call EXCEPT ![c] = Idle] /\ replies' = replies \union {reply}
    BY DEF Commit, Answer
  <1>3. /\ reply.by = x.by /\ reply.shape = x.shape
        /\ reply.outcome \notin {"refused", "conflict"}
        /\ reply.outcome = "ok" => reply.response = response
    OBVIOUS
  <1> HIDE DEF x, response, outcome, reply
  <1> QED BY <1>1, <1>2, <1>3, Committed DEF x, response

(* SMTP without a key stores one message. *)
LEMMA StoredOne ==
    ASSUME Inv, NEW c \in Clients, call[c].pc = "store",
           NEW y, CallOK(y), y.pc = "store", y.by = call[c].by, y.next = call[c].next + 1,
           NEW new, \A m \in new : m.by = call[c].by /\ m.rcpt = call[c].next,
           call' = [call EXCEPT ![c] = y], messages' = messages \union new,
           UNCHANGED <<scene, today, serial, keys, ops, replies>>
    PROVE  Inv'
  <1>1. /\ call' = [d \in Clients |-> call'[d]]
        /\ \A d \in Clients : call'[d] = IF d = c THEN y ELSE call[d]
    BY ClientStep DEF Inv
  <1>2. CallOK(call[c])
    BY Served DEF Inv
  <1>5. call[c].next \in Nat /\ y.next \in Nat
    BY <1>2 DEF CallOK
  <1>6. Days' = Days /\ Shapes' = Shapes
    BY SceneStays
  <1>8. TypeOK'
    <2>1. \A z : CallOK(z) => CallOK(z)'
      BY <1>6 DEF CallOK
    <2>2. \A d \in Clients : (Serving(d) => CallOK(call[d]))'
      BY <1>1, <2>1 DEF Inv, TypeOK, Serving
    <2>3. \A d \in Clients : (~Serving(d) => call[d] = Idle)'
      BY <1>1 DEF Inv, TypeOK, Serving
    <2> QED BY <1>1, <1>6, <2>2, <2>3 DEF Inv, TypeOK
  <1>9. /\ \A o \in ops : o.by # call[c].by
        /\ \A r \in replies : r.by # call[c].by
        /\ \A d \in Clients : d # c /\ Serving(d) => call[d].by # call[c].by
        /\ \A m \in messages : m.by = call[c].by => m.rcpt \in 0..(call[c].next - 1)
        /\ call[c].by \in 1..serial
    BY <1>2 DEF Inv, Untouched, Serving, CallOK
  <1>10. Numbered'
    BY <1>9 DEF Inv, Numbered
  <1>11. Untouched'
    <2> SUFFICES ASSUME NEW d \in Clients, Serving(d)'
                 PROVE  /\ \A e \in Clients : call'[e].pc # "idle" /\ call'[e].by = call'[d].by => e = d
                        /\ \A o \in ops : o.by # call'[d].by
                        /\ \A r \in replies : r.by # call'[d].by
                        /\ call'[d].pc # "store" => \A m \in messages' : m.by # call'[d].by
                        /\ \A m \in messages' : m.by = call'[d].by => m.rcpt \in 0..(call'[d].next - 1)
      BY DEF Untouched, Serving
    <2>1. CASE d = c
      <3>1. \A m \in messages' : m.by = call[c].by => m.rcpt \in 0..(y.next - 1)
        <4>1. \A m \in messages : m.by = call[c].by => m.rcpt \in 0..(y.next - 1)
          BY <1>5, <1>9
        <4>2. call[c].next \in 0..(y.next - 1)
          BY <1>5
        <4> QED BY <4>1, <4>2
      <3>2. call'[c] = y
        BY <1>1
      <3>3. \A e \in Clients : call'[e].pc # "idle" /\ call'[e].by = y.by => e = c
        BY <1>1, <1>9 DEF Serving
      <3> QED BY <1>9, <2>1, <3>1, <3>2, <3>3
    <2>2. CASE d # c
      <3>1. call'[d] = call[d] /\ Serving(d)
        BY <1>1, <2>2 DEF Serving
      <3>2. \A e \in Clients : call'[e].pc # "idle" /\ call'[e].by = call[d].by => e = d
        BY <1>1, <1>5, <1>9, <2>2, <3>1 DEF Inv, Untouched, Serving
      <3>3. /\ call[d].pc # "store" => \A m \in messages : m.by # call[d].by
            /\ \A m \in messages : m.by = call[d].by => m.rcpt \in 0..(call[d].next - 1)
            /\ \A o \in ops : o.by # call[d].by
            /\ \A r \in replies : r.by # call[d].by
        BY <3>1 DEF Inv, Untouched
      <3>4. \A m \in new : m.by # call[d].by
        BY <1>9, <2>2, <3>1
      <3> QED BY <3>1, <3>2, <3>3, <3>4
    <2> QED BY <2>1, <2>2
  <1>12. \A o \in ops : {m \in messages' : m.by = o.by} = {m \in messages : m.by = o.by}
    BY <1>9
  <1>13. OpsStored' /\ RowsHold'
    BY <1>6, <1>12 DEF Inv, OpsStored, RowsHold
  <1>14. ExpiredStays'
    BY <1>1, <1>5 DEF Inv, ExpiredStays, RowsFor
  <1>15. AnswersAreTrue'
    <2>1. \A r \in replies : r.outcome \in {"refused", "conflict"} =>
              ~\E m \in messages' : m.by = r.by
      BY <1>9 DEF Inv, AnswersAreTrue
    <2> QED BY <1>6, <1>12, <2>1 DEF Inv, AnswersAreTrue
  <1> QED BY <1>8, <1>10, <1>11, <1>13, <1>14, <1>15 DEF Inv

LEMMA StoreOneStep ==
    ASSUME Inv, NEW c \in Clients, NEW fails, StoreOne(c, fails)
    PROVE  Inv'
  <1> DEFINE x   == call[c]
             all == {y \in MessagesOf(x.by, x.shape, x.plan, today) : y.rcpt = x.next}
             new == IF fails THEN {} ELSE all
             z   == [x EXCEPT !.next = @ + 1]
  <1>1. \A m \in all : m.by = x.by /\ m.rcpt = x.next
    BY MessageNamed
  <1>2. UNCHANGED <<scene, today, serial, keys, ops, replies>> /\ x.pc = "store"
    BY DEF StoreOne
  <1>0. call' = [call EXCEPT ![c].next = @ + 1]
    BY DEF StoreOne
  <1>3. call' = [call EXCEPT ![c] = z]
    BY <1>0
  <1>4. messages' = messages \union new
    BY DEF StoreOne, Insert
  <1>5. \A m \in new : m.by = x.by /\ m.rcpt = x.next
    BY <1>1
  <1>6. CallOK(x)
    BY <1>2, Served DEF Inv
  <1>7. IsCall(x) /\ x.next \in Nat
    BY <1>6 DEF CallOK
  <1> HIDE DEF all, new, x
  <1> DEFINE n == x.next + 1
  <1>a. z = [x EXCEPT !.next = n]
    OBVIOUS
  <1> HIDE DEF z, n
  <1>8. /\ IsCall(z) /\ z.pc = x.pc /\ z.by = x.by /\ z.shape = x.shape /\ z.plan = x.plan
        /\ z.next = n
    BY <1>7, <1>a, SetNext
  <1>9. CallOK(z)
    BY <1>2, <1>6, <1>7, <1>8 DEF CallOK, n
  <1> QED BY <1>2, <1>3, <1>4, <1>5, <1>8, <1>9, StoredOne DEF x, n

(***************************************************************************)
(* Administrators, time and housekeeping                                   *)
(***************************************************************************)
(* The day may turn under a transaction; nothing else moves. *)
LEMMA Quiet ==
    ASSUME Inv, today' \in Days, today <= today',
           UNCHANGED <<scene, call, serial, keys, messages, ops, replies>>
    PROVE  Inv'
  <1>1. Days' = Days /\ Shapes' = Shapes
    BY SceneStays
  <1>2. TypeOK'
    <2>1. today \in Nat /\ today' \in Nat
      BY SubmissionAssumption DEF Inv, TypeOK, Days
    <2>2. \A z : CallOK(z) => CallOK(z)'
      <3>1. \A z : z.day \in 0..today => z.day \in 0..today'
        BY <2>1
      <3> QED BY <1>1, <3>1 DEF CallOK
    <2>3. \A c \in Clients : (Serving(c) => CallOK(call[c]))'
      BY <2>2 DEF Inv, TypeOK, Serving
    <2> QED BY <1>1, <2>3 DEF Inv, TypeOK, Serving
  <1>3. Numbered' /\ OpsStored' /\ RowsHold' /\ AnswersAreTrue'
    BY <1>1 DEF Inv, Numbered, OpsStored, RowsHold, AnswersAreTrue
  <1>4. Untouched' /\ ExpiredStays'
    BY DEF Inv, Untouched, ExpiredStays, Serving, RowsFor
  <1> QED BY <1>2, <1>3, <1>4 DEF Inv

LEMMA DayTurnsStep ==
    ASSUME Inv, DayTurns
    PROVE  Inv'
  <1>1. scene.lastDay \in Nat /\ today \in 0..scene.lastDay
    BY SubmissionAssumption DEF Inv, TypeOK, Days
  <1>2. /\ today < scene.lastDay /\ today' = today + 1
        /\ UNCHANGED <<scene, call, serial, keys, messages, ops, replies>>
    BY DEF DayTurns, table
  <1>3. today' \in Days /\ today <= today'
    BY <1>1, <1>2 DEF Days
  <1> QED BY <1>2, <1>3, Quiet

(* The housekeeping deletes expired rows. *)
LEMMA PruneKeysStep ==
    ASSUME Inv, PruneKeys
    PROVE  Inv'
  <1>1. /\ keys' = {r \in keys : r.live}
        /\ UNCHANGED <<scene, today, call, serial, messages, ops, replies>>
    BY DEF PruneKeys
  <1>2. Days' = Days /\ Shapes' = Shapes
    BY <1>1, SceneStays
  <1>3. TypeOK'
    <2>1. \A z : CallOK(z) => CallOK(z)'
      BY <1>1, <1>2 DEF CallOK
    <2>2. \A c \in Clients : (Serving(c) => CallOK(call[c]))'
      BY <1>1, <2>1 DEF Inv, TypeOK, Serving
    <2> QED BY <1>1, <1>2, <2>2 DEF Inv, TypeOK, Serving
  <1>4. Numbered' /\ OpsStored' /\ AnswersAreTrue'
    BY <1>1, <1>2 DEF Inv, Numbered, OpsStored, AnswersAreTrue
  <1>5. Untouched' /\ ExpiredStays'
    BY <1>1 DEF Inv, Untouched, ExpiredStays, Serving, RowsFor
  <1>6. RowsHold'
    BY <1>1 DEF Inv, RowsHold
  <1> QED BY <1>3, <1>4, <1>5, <1>6 DEF Inv

(* A key expires: no operation is retained under it any more. *)
Aged(o, r) == IF o.shape.server = r.server /\ o.shape.key = r.key
              THEN [o EXCEPT !.fresh = FALSE] ELSE o

LEMMA SetFresh ==
    ASSUME NEW o, IsOp(o), NEW v
    PROVE  LET q == [o EXCEPT !.fresh = v]
           IN  IsOp(q) /\ q.by = o.by /\ q.shape = o.shape /\ q.plan = o.plan /\ q.fresh = v
  BY DEF IsOp

LEMMA SetLive ==
    ASSUME NEW r, IsRow(r), NEW v
    PROVE  LET q == [r EXCEPT !.live = v]
           IN  /\ IsRow(q) /\ q.server = r.server /\ q.key = r.key /\ q.op = r.op
               /\ q.items = r.items /\ q.response = r.response /\ q.live = v
  BY DEF IsRow

LEMMA AgedOp ==
    ASSUME NEW o, IsOp(o), NEW r
    PROVE  LET p == Aged(o, r)
           IN  /\ IsOp(p) /\ p.by = o.by /\ p.shape = o.shape /\ p.plan = o.plan
               /\ p = o \/ p.fresh = FALSE
               /\ o.shape.server = r.server /\ o.shape.key = r.key => p.fresh = FALSE
  <1> DEFINE q == [o EXCEPT !.fresh = FALSE]
  <1>1. IsOp(q) /\ q.by = o.by /\ q.shape = o.shape /\ q.plan = o.plan /\ q.fresh = FALSE
    BY SetFresh, Zenon
  <1>2. Aged(o, r) = IF o.shape.server = r.server /\ o.shape.key = r.key THEN q ELSE o
    BY DEF Aged
  <1> HIDE DEF q
  <1> QED BY <1>1, <1>2

LEMMA Replaced ==
    ASSUME NEW S, NEW r, NEW q, NEW T, T = (S \ {r}) \union {q}
    PROVE  \A x \in T : x = q \/ (x \in S /\ x # r)
  OBVIOUS

LEMMA Expired ==
    ASSUME Inv, NEW r \in keys, NEW q, IsRow(q), q.server = r.server, q.key = r.key,
           q.op = r.op, q.items = r.items, q.response = r.response, ~q.live,
           keys' = (keys \ {r}) \union {q}, ops' = {Aged(o, r) : o \in ops},
           UNCHANGED <<scene, today, call, serial, messages, replies>>
    PROVE  Inv'
  <1>1. \A x \in keys' : x = q \/ (x \in keys /\ x # r)
    BY Replaced
  <1>2. \A o \in ops : LET p == Aged(o, r)
           IN  /\ IsOp(p) /\ p.by = o.by /\ p.shape = o.shape /\ p.plan = o.plan
               /\ p = o \/ p.fresh = FALSE
               /\ o.shape.server = r.server /\ o.shape.key = r.key => p.fresh = FALSE
    BY AgedOp DEF Inv, TypeOK
  <1>3. Days' = Days /\ Shapes' = Shapes
    BY SceneStays
  <1>4. TypeOK'
    <2>1. \A z : CallOK(z) => CallOK(z)'
      BY <1>3 DEF CallOK
    <2>2. \A c \in Clients : (Serving(c) => CallOK(call[c]))'
      BY <2>1 DEF Inv, TypeOK, Serving
    <2>3. (\A x \in keys : IsRow(x))' /\ (\A o \in ops : IsOp(o))'
      BY <1>1, <1>2 DEF Inv, TypeOK
    <2> QED BY <1>3, <2>2, <2>3 DEF Inv, TypeOK, Serving
  <1>5. Numbered'
    BY <1>2 DEF Inv, Numbered
  <1>6. Untouched'
    BY <1>2 DEF Inv, Untouched, Serving
  <1>7. OpsStored'
    <2>1. \A o, p \in ops' : o.by = p.by => o = p
      BY <1>2 DEF Inv, OpsStored
    <2>2. \A o \in ops' : \E d \in Days :
             MessagesOf(o.by, o.shape, o.plan, d) = {m \in messages : m.by = o.by}
      BY <1>2 DEF Inv, OpsStored
    <2> QED BY <1>3, <2>1, <2>2 DEF OpsStored
  <1>8. RowsHold'
    <2>1. \A x \in keys' : \E p \in ops' : Names(x, p)
      <3> SUFFICES ASSUME NEW x \in keys'
                   PROVE  \E p \in ops' : Names(x, p)
        OBVIOUS
      <3>1. PICK z \in keys : /\ x.server = z.server /\ x.key = z.key /\ x.op = z.op
                              /\ x.items = z.items /\ x.response = z.response
        BY <1>1
      <3>2. PICK o \in ops : Names(z, o)
        BY DEF Inv, RowsHold
      <3>3. Names(x, Aged(o, r))
        BY <1>2, <3>1, <3>2 DEF Names
      <3> QED BY <3>3
    <2>2. \A x, z \in keys' : x.server = z.server /\ x.key = z.key => x = z
      <3>1. \A x, z \in keys : x.server = z.server /\ x.key = z.key => x = z
        BY DEF Inv, RowsHold
      <3>2. \A x \in keys : x # r => x.server # q.server \/ x.key # q.key
        BY <3>1
      <3> QED BY <1>1, <3>1, <3>2
    <2>3. \A p \in ops' : p.fresh /\ p.shape.key # NoKey => \E x \in keys' : x.live /\ Names(x, p)
      <3> SUFFICES ASSUME NEW o \in ops, NEW p, p = Aged(o, r), p.fresh, p.shape.key # NoKey
                   PROVE  \E x \in keys' : x.live /\ Names(x, p)
        OBVIOUS
      <3>1. p = o /\ ~(o.shape.server = r.server /\ o.shape.key = r.key)
        BY <1>2
      <3>2. PICK x \in keys : x.live /\ Names(x, o)
        BY <3>1 DEF Inv, RowsHold
      <3>3. x # r
        BY <3>1, <3>2 DEF Names
      <3> QED BY <3>1, <3>2, <3>3
    <2> QED BY <2>1, <2>2, <2>3 DEF RowsHold
  <1>9. ExpiredStays'
    <2> SUFFICES ASSUME NEW c \in Clients, call[c].pc = "insert"
                 PROVE  /\ call[c].expired = 0 \/ \E o \in ops' : o.by = call[c].expired
                        /\ \A x \in keys' : /\ x.server = call[c].shape.server
                                              /\ x.key = call[c].shape.key
                                              /\ x.response.by = call[c].expired => ~x.live
      BY DEF ExpiredStays, RowsFor
    <2>1. call[c].expired = 0 \/ \E o \in ops : o.by = call[c].expired
      BY DEF Inv, ExpiredStays
    <2>2. \A x \in keys : /\ x.server = call[c].shape.server /\ x.key = call[c].shape.key
                           /\ x.response.by = call[c].expired => ~x.live
      BY DEF Inv, ExpiredStays, RowsFor
    <2>3. \A o \in ops : \E p \in ops' : p.by = o.by
      BY <1>2
    <2> QED BY <1>1, <2>1, <2>2, <2>3
  <1>10. AnswersAreTrue'
    <2>1. \A x \in replies :
             x.outcome = "ok" /\ ~(x.shape.op = "smtp" /\ x.shape.key = NoKey) =>
              \E p \in ops' :
                  /\ p.by = x.response.by /\ p.plan = x.response.plan
                  /\ p.shape = x.shape
                  /\ \E d \in Days : MessagesOf(p.by, p.shape, p.plan, d)
                                        = {m \in messages : m.by = p.by}
      BY <1>2 DEF Inv, AnswersAreTrue
    <2>2. \A x \in replies : x.outcome \in {"refused", "conflict"} =>
              ~\E m \in messages : m.by = x.by
      BY DEF Inv, AnswersAreTrue
    <2> QED BY <1>3, <2>1, <2>2 DEF AnswersAreTrue
  <1> QED BY <1>4, <1>5, <1>6, <1>7, <1>8, <1>9, <1>10 DEF Inv

LEMMA KeyExpiresStep ==
    ASSUME Inv, KeyExpires
    PROVE  Inv'
  <1>1. PICK r \in keys :
          /\ r.live
          /\ keys' = (keys \ {r}) \union {[r EXCEPT !.live = FALSE]}
          /\ ops' = {IF o.shape.server = r.server /\ o.shape.key = r.key
                     THEN [o EXCEPT !.fresh = FALSE] ELSE o : o \in ops}
    BY DEF KeyExpires
  <1>2. UNCHANGED <<scene, today, call, serial, messages, replies>>
    BY DEF KeyExpires
  <1>3. ops' = {Aged(o, r) : o \in ops}
    BY <1>1 DEF Aged
  <1> DEFINE q == [r EXCEPT !.live = FALSE]
  <1>4. IsRow(r)
    BY DEF Inv, TypeOK
  <1>5. /\ IsRow(q) /\ q.server = r.server /\ q.key = r.key /\ q.op = r.op
        /\ q.items = r.items /\ q.response = r.response /\ q.live = FALSE
    BY <1>4, SetLive, Zenon
  <1>6. keys' = (keys \ {r}) \union {q}
    BY <1>1
  <1> HIDE DEF q
  <1> QED BY <1>2, <1>3, <1>5, <1>6, Expired

-----------------------------------------------------------------------------
LEMMA InvInit ==
    ASSUME Init
    PROVE  Inv
  <1>1. Idle.pc = "idle" /\ \A c \in Clients : call[c] = Idle
    BY DEF Init, Idle
  <1>2. 0 \in Days
    BY SubmissionAssumption DEF Init, Days
  <1>3. TypeOK
    BY <1>1, <1>2 DEF Init, TypeOK, Serving
  <1>4. Numbered /\ OpsStored /\ RowsHold /\ AnswersAreTrue
    BY DEF Init, Numbered, OpsStored, RowsHold, AnswersAreTrue
  <1>5. Untouched /\ ExpiredStays
    BY <1>1 DEF Untouched, ExpiredStays, Serving
  <1> QED BY <1>3, <1>4, <1>5 DEF Inv

LEMMA InvNext ==
    ASSUME Inv, [Next]_vars
    PROVE  Inv'
  <1>1. ASSUME NEW c \in Clients, Serve(c)
        PROVE  Inv'
    BY <1>1, ArriveStep, LookupStep, RcptStep, ReadServerStep, OtherServerStep, ReadPolicyStep, ReadOrgUsageStep,
       ReadServerUsageStep, DecideStep, ReconcileStep, BeginStep, CommitStep, LoseRaceStep,
       AnswerRacedStep, StoreOneStep, AllStoredStep, FailStep DEF Serve
  <1>2. today \in Days /\ today <= today
    BY SubmissionAssumption DEF Inv, TypeOK, Days
  <1>3. CASE \E a \in Admins, change \in Changes : ReadForChange(a, change)
    BY <1>2, <1>3, Quiet DEF ReadForChange, table
  <1>4. CASE \E a \in Admins : WritePolicy(a)
    BY <1>2, <1>4, Quiet DEF WritePolicy, table
  <1>5. CASE PruneCounters
    BY <1>2, <1>5, Quiet DEF PruneCounters
  <1>6. CASE UNCHANGED vars
    BY <1>2, <1>6, Quiet DEF vars, table
  <1> QED BY <1>1, <1>3, <1>4, <1>5, <1>6, DayTurnsStep, KeyExpiresStep, PruneKeysStep DEF Next

(* What idempotency rests on, in every state: a call has its number alone  *)
(* and nothing stored before its transaction commits; a row of             *)
(* idempotency_requests names one stored operation with all its messages.  *)
THEOREM SubmissionInvariant == Spec => []Inv
  BY InvInit, InvNext, PTL DEF Spec

(* While a key is retained at most one operation is stored under it,       *)
(* however many requests with that key race through lookup, gates, begin   *)
(* and commit, on whichever endpoint, and whenever it expires or is        *)
(* pruned (store_send_operation).                                          *)
THEOREM KeyTheorem == Spec => []KeyStoredOnce
  <1>1. Inv => KeyStoredOnce
    <2> SUFFICES ASSUME Inv, NEW o \in ops, NEW p \in ops, o.shape.key # NoKey,
                        o.fresh, p.fresh, o.shape.server = p.shape.server,
                        o.shape.key = p.shape.key
                 PROVE  o = p
      BY DEF KeyStoredOnce
    <2>1. PICK r \in keys : Names(r, o)
      BY DEF Inv, RowsHold
    <2>2. PICK q \in keys : Names(q, p)
      BY DEF Inv, RowsHold
    <2>3. r = q
      BY <2>1, <2>2 DEF Inv, RowsHold, Names
    <2>4. o.by = p.by
      BY <2>1, <2>2, <2>3 DEF Names
    <2> QED BY <2>4 DEF Inv, OpsStored
  <1> QED BY <1>1, SubmissionInvariant, PTL

(* A success answers for an operation that was stored for this server,     *)
(* key, endpoint and payload, with all its messages; a refused or          *)
(* conflicting call has stored nothing (cached_send_operation,             *)
(* store_send_operation, reconcile_single_send_error).                     *)
THEOREM AnswersTheorem == Spec => []AnswersAreTrue
  <1>1. Inv => AnswersAreTrue
    BY DEF Inv
  <1> QED BY <1>1, SubmissionInvariant, PTL

-----------------------------------------------------------------------------
(***************************************************************************)
(* The usage counters                                                      *)
(***************************************************************************)
(* The counters against the table of messages.  A bucket is exact while it *)
(* is kept; a transaction that began before that may still write to it.    *)
Counted ==
    /\ IsFiniteSet(messages)
    /\ \A x \in messages : x.day \in 0..today
    /\ orgSent = [m \in Months |-> Cardinality({x \in messages : MonthOf(x.day) = m})]
    /\ srvSent = [s \in Servers |-> [d \in Days |-> srvSent[s][d]]]
    /\ \A s \in Servers, d \in Days : d >= today - Kept =>
          srvSent[s][d] = Cardinality({x \in messages : x.server = s /\ x.day = d})

Once(es)   == \A i, j \in 1..Len(es) : es[i] = es[j] => i = j
Fired(es)  == {es[i] : i \in 1..Len(es)}
Thresholds == [month : Months, threshold : {80, 100}]

(* Until somebody starts to change the policy, the limit is the first one. *)
LimitStays ==
    /\ history = [changes |-> history.changes, expiries |-> history.expiries,
                  faults |-> history.faults, opened |-> history.opened]
    /\ history.changes \in Nat
    /\ admin = [a \in Admins |-> admin[a]]
    /\ history.changes = 0 => /\ policy.limit = FirstLimit
                              /\ \A a \in Admins : admin[a].pc = "idle"

EventOf(m, t)     == [month |-> m, threshold |-> t]
AtThreshold(m, t) == orgSent[m] * 100 >= FirstLimit * t

(* A threshold is announced once, and exactly if the counter reached it.   *)
Announced ==
    /\ events \in Seq(Thresholds)
    /\ Once(events)
    /\ history.changes = 0 /\ FirstLimit \notin {Unlimited, 0} =>
          \A m \in Months, t \in {80, 100} : EventOf(m, t) \in Fired(events) <=> AtThreshold(m, t)

UsageInv == Inv /\ Counted /\ LimitStays /\ Announced

-----------------------------------------------------------------------------
(***************************************************************************)
(* Sums and counts                                                         *)
(***************************************************************************)
(* The messages of a set of days are those of one day and of the others. *)
LEMMA OneDayMore ==
    ASSUME NEW M, IsFiniteSet(M), NEW T, NEW x \in T
    PROVE  Cardinality({m \in M : m.day \in T})
              = Cardinality({m \in M : m.day = x}) + Cardinality({m \in M : m.day \in T \ {x}})
  <1> DEFINE A == {m \in M : m.day = x}
             B == {m \in M : m.day \in T \ {x}}
  <1>1. A \union B = {m \in M : m.day \in T} /\ A \intersect B = {}
    OBVIOUS
  <1>2. A \in SUBSET M /\ B \in SUBSET M
    OBVIOUS
  <1> HIDE DEF A, B
  <1>3. IsFiniteSet(A) /\ IsFiniteSet(B)
    BY <1>2, FS_Subset
  <1>4. Cardinality(A \union B) = Cardinality(A) + Cardinality(B) - Cardinality(A \intersect B)
    BY <1>3, FS_Union
  <1>5. Cardinality(A \intersect B) = 0 /\ Cardinality(A) \in Nat /\ Cardinality(B) \in Nat
    BY <1>1, <1>3, FS_EmptySet, FS_CardinalityType
  <1>6. Cardinality({m \in M : m.day \in T}) = Cardinality(A) + Cardinality(B)
    <2>1. Cardinality(A \union B) = Cardinality(A) + Cardinality(B)
      BY <1>4, <1>5
    <2> QED BY <1>1, <2>1
  <1> QED BY <1>6 DEF A, B

(* Function h sums f over the subsets of D, one element at a time. *)
IsSum(h, f, D) ==
    \A T \in SUBSET D : h[T] = IF T = {} THEN 0 ELSE
        f[CHOOSE x \in T : TRUE] + h[T \ {CHOOSE x \in T : TRUE}]

(* Two solutions of a recursion over the subsets of a finite set agree: a  *)
(* smallest set on which they differ would have to differ on a smaller one.*)
LEMMA SameSum ==
    ASSUME NEW D, IsFiniteSet(D), NEW f, NEW g, NEW h, IsSum(g, f, D), IsSum(h, f, D)
    PROVE  g[D] = h[D]
  <1> DEFINE Differ == {T \in SUBSET D : g[T] # h[T]}
             R      == StrictSubsetOrdering(D)
  <1>1. IsWellFoundedOn(R, SUBSET D)
    BY FS_StrictSubsetOrderingWellFounded, FS_FiniteSubsetsOfFinite
  <1> SUFFICES ASSUME g[D] # h[D]
               PROVE  FALSE
    OBVIOUS
  <1>2. Differ # {} /\ Differ \subseteq SUBSET D
    OBVIOUS
  <1>3. PICK T \in Differ : \A U \in Differ : <<U, T>> \notin R
    <2> HIDE DEF Differ, R
    <2> QED BY <1>1, <1>2, WFMin
  <1>4. T \in SUBSET D /\ T # {}
    BY DEF IsSum
  <1>5. PICK x : x = CHOOSE y \in T : TRUE
    OBVIOUS
  <1>6. x \in T
    BY <1>4, <1>5
  <1>7. T \ {x} \in SUBSET D /\ T \ {x} # T
    BY <1>4, <1>6
  <1>8. <<T \ {x}, T>> \in R
    BY <1>4, <1>7 DEF StrictSubsetOrdering
  <1>9. g[T \ {x}] = h[T \ {x}]
    BY <1>3, <1>7, <1>8
  <1>10. g[T] = f[x] + g[T \ {x}] /\ h[T] = f[x] + h[T \ {x}]
    BY <1>4, <1>5 DEF IsSum
  <1> QED BY <1>3, <1>9, <1>10

SumOver(f, D) == MapThenSumSet(LAMBDA x : f[x], D)

(* The sum of the daily buckets is the number of messages of these days.   *)
LEMMA SumIsCount ==
    ASSUME NEW D, IsFiniteSet(D), NEW M, IsFiniteSet(M), NEW f,
           \A x \in D : f[x] = Cardinality({m \in M : m.day = x})
    PROVE  SumOver(f, D) = Cardinality({m \in M : m.day \in D})
  <1> DEFINE Count(T)   == Cardinality({m \in M : m.day \in T})
             G          == [T \in SUBSET D |-> Count(T)]
             Step(h, T) == IF T = {} THEN 0
                           ELSE f[CHOOSE x \in T : TRUE] + h[T \ {CHOOSE x \in T : TRUE}]
             iter       == CHOOSE h : h = [T \in SUBSET D |-> Step(h, T)]
  <1>1. SumOver(f, D) = iter[D]
    BY DEF SumOver, MapThenSumSet, MapThenFoldSet
  <1>2. \A T \in SUBSET D : G[T] = Step(G, T)
    <2> SUFFICES ASSUME NEW T \in SUBSET D
                 PROVE  G[T] = Step(G, T)
      OBVIOUS
    <2>1. CASE T = {}
      <3>1. {m \in M : m.day \in T} = {}
        BY <2>1
      <3>2. Count(T) = 0
        BY <3>1, FS_EmptySet
      <3> QED BY <2>1, <3>2
    <2>2. CASE T # {}
      <3>1. PICK x : x = CHOOSE y \in T : TRUE
        OBVIOUS
      <3>2. x \in T
        BY <2>2, <3>1
      <3>3. Count(T) = f[x] + Count(T \ {x})
        <4>1. Count(T) = Cardinality({m \in M : m.day = x}) + Count(T \ {x})
          BY <3>2, OneDayMore
        <4>2. f[x] = Cardinality({m \in M : m.day = x})
          BY <3>2
        <4> QED BY <4>1, <4>2
      <3>4. G[T] = Count(T) /\ G[T \ {x}] = Count(T \ {x})
        OBVIOUS
      <3>5. Step(G, T) = f[x] + G[T \ {x}]
        BY <2>2, <3>1
      <3> HIDE DEF G, Step, Count
      <3> QED BY <3>3, <3>4, <3>5
    <2> QED BY <2>1, <2>2
  <1>3. G = [T \in SUBSET D |-> Step(G, T)]
    <2> HIDE DEF Step, Count
    <2> QED BY <1>2
  <1>4. iter = [T \in SUBSET D |-> Step(iter, T)]
    <2> HIDE DEF Step, G
    <2> QED BY <1>3
  <1> HIDE DEF iter
  <1>5. \A T \in SUBSET D : iter[T] = Step(iter, T)
    <2> HIDE DEF Step
    <2> QED BY <1>4
  <1>6. iter[D] = G[D]
    <2> HIDE DEF G
    <2>1. IsSum(G, f, D) /\ IsSum(iter, f, D)
      BY <1>2, <1>5 DEF IsSum
    <2> QED BY <2>1, SameSum
  <1>7. G[D] = Cardinality({m \in M : m.day \in D})
    OBVIOUS
  <1> QED BY <1>1, <1>6, <1>7

LEMMA CountAdded ==
    ASSUME NEW A, IsFiniteSet(A), NEW B, IsFiniteSet(B), A \intersect B = {}
    PROVE  /\ IsFiniteSet(A \union B)
           /\ Cardinality(A \union B) = Cardinality(A) + Cardinality(B)
  <1>1. Cardinality(A \union B) = Cardinality(A) + Cardinality(B) - Cardinality(A \intersect B)
    BY FS_Union
  <1>2. Cardinality(A \intersect B) = 0 /\ Cardinality(A) \in Nat /\ Cardinality(B) \in Nat
    BY FS_EmptySet, FS_CardinalityType
  <1>3. Cardinality(A \union B) = Cardinality(A) + Cardinality(B)
    BY <1>1, <1>2
  <1> QED BY <1>3, FS_Union

LEMMA FiniteImage ==
    ASSUME NEW S, IsFiniteSet(S), NEW f
    PROVE  IsFiniteSet({f[x] : x \in S})
  <1> DEFINE T == {f[x] : x \in S}
             g == [x \in S |-> f[x]]
  <1>1. g \in Surjection(S, T)
    BY DEF Surjection
  <1> HIDE DEF g, T
  <1>2. IsFiniteSet(T)
    BY <1>1, FS_Surjection
  <1> QED BY <1>2 DEF T

LEMMA ElementTyped ==
    ASSUME NEW S, NEW s \in Seq(S), NEW i \in 1..Len(s)
    PROVE  s[i] \in S
  OBVIOUS

(* What an operation stores is finite. *)
LEMMA MessagesFinite ==
    ASSUME NEW by, NEW shape, NEW plan, NEW day, plan \in Seq(BOOLEAN),
           shape.items \in Seq([n : Nat, valid : BOOLEAN]), Len(plan) <= Len(shape.items)
    PROVE  IsFiniteSet(MessagesOf(by, shape, plan, day))
  <1> DEFINE I == {i \in 1..Len(plan) : plan[i]}
             M(i, k) == [by |-> by, item |-> i, rcpt |-> k, server |-> shape.server, day |-> day]
             S(i) == {M(i, k) : k \in 1..shape.items[i].n}
             f == [i \in I |-> S(i)]
  <1>1. MessagesOf(by, shape, plan, day) = UNION {f[i] : i \in I}
    <2>1. MessagesOf(by, shape, plan, day) = UNION {S(i) : i \in I}
      BY DEF MessagesOf
    <2> HIDE DEF I, S
    <2>2. {f[i] : i \in I} = {S(i) : i \in I}
      OBVIOUS
    <2> QED BY <2>1, <2>2
  <1>2. IsFiniteSet(I)
    <2>1. Len(plan) \in Int
      OBVIOUS
    <2>2. IsFiniteSet(1..Len(plan))
      BY <2>1, FS_Interval
    <2> QED BY <2>2, FS_Subset
  <1>3. \A i \in I : IsFiniteSet(S(i))
    <2> SUFFICES ASSUME NEW i \in I
                 PROVE  IsFiniteSet(S(i))
      OBVIOUS
    <2> DEFINE K == 1..shape.items[i].n
               g == [k \in K |-> M(i, k)]
    <2>0. i \in 1..Len(plan) /\ Len(plan) \in Nat /\ Len(shape.items) \in Nat
      OBVIOUS
    <2> HIDE DEF I
    <2>1. i \in 1..Len(shape.items)
      BY <2>0
    <2>2. shape.items[i].n \in Nat
      <3>1. shape.items[i] \in [n : Nat, valid : BOOLEAN]
        BY <2>1, ElementTyped
      <3> QED BY <3>1
    <2>3. IsFiniteSet(K)
      <3>1. \A n \in Nat : IsFiniteSet(1..n)
        BY FS_Interval
      <3> QED BY <2>2, <3>1
    <2>4. S(i) = {g[k] : k \in K}
      OBVIOUS
    <2> HIDE DEF g, K, S
    <2> QED BY <2>3, <2>4, FiniteImage
  <1> HIDE DEF I, S
  <1>4. \A i \in I : IsFiniteSet(f[i])
    BY <1>3
  <1> HIDE DEF f
  <1>5. IsFiniteSet({f[i] : i \in I})
    BY <1>2, FiniteImage
  <1> QED BY <1>1, <1>4, <1>5, FS_UNION

(***************************************************************************)
(* Events                                                                  *)
(***************************************************************************)
(* An event is appended, unless there is none. *)
LEMMA EventAdded ==
    ASSUME NEW S, NEW es \in Seq(S), Once(es), NEW e \in S, NEW tail,
           tail = <<>> \/ (tail = <<e>> /\ e \notin Fired(es))
    PROVE  /\ es \o tail \in Seq(S)
           /\ Once(es \o tail)
           /\ Fired(es \o tail) = Fired(es) \union (IF tail = <<>> THEN {} ELSE {e})
  <1>1. CASE tail = <<>>
    <2>1. es \o tail = es
      BY <1>1
    <2> QED BY <1>1, <2>1
  <1>2. CASE tail = <<e>> /\ e \notin Fired(es)
    <2> DEFINE fs == es \o tail
               n  == Len(es)
    <2>1. fs \in Seq(S) /\ n \in Nat /\ Len(fs) = n + 1 /\ fs[n + 1] = e
      BY <1>2
    <2>2. \A i \in 1..n : fs[i] = es[i]
      BY <1>2
    <2>3. tail # <<>>
      BY <1>2
    <2>4. 1..(n + 1) = 1..n \union {n + 1}
      BY <2>1
    <2> HIDE DEF fs, n
    <2>5. Fired(fs) = Fired(es) \union {e}
      BY <2>1, <2>2, <2>4 DEF Fired, n
    <2>6. \A i \in 1..n : es[i] # e
      BY <1>2 DEF Fired, n
    <2>7. Once(fs)
      BY <2>1, <2>2, <2>4, <2>6 DEF Once, n
    <2> QED BY <2>1, <2>3, <2>5, <2>7 DEF fs
  <1> QED BY <1>1, <1>2

(***************************************************************************)
(* Messages are stored                                                     *)
(***************************************************************************)
LEMMA DaysTyped ==
    ASSUME scene \in Scenes, today \in Days
    PROVE  /\ scene.lastDay \in Nat /\ today \in Nat /\ today <= scene.lastDay
           /\ 0..today \subseteq Days
           /\ \A d \in Days : d \in Nat /\ MonthOf(d) \in Months
  <1>1. scene.lastDay \in Nat
    BY SubmissionAssumption
  <1>2. today \in Nat /\ today <= scene.lastDay /\ 0..today \subseteq Days
    BY <1>1 DEF Days
  <1>3. \A d \in Days : d \in Nat /\ MonthOf(d) \in Months
    BY <1>1 DEF Days, Months
  <1> QED BY <1>1, <1>2, <1>3

(* One bucket is written. *)
Writes(server, day, v) ==
    /\ server \in Servers /\ day \in Days
    /\ srvSent = [s \in Servers |-> [d \in Days |-> srvSent[s][d]]]
    /\ srvSent' = [srvSent EXCEPT ![server][day] = v]

LEMMA BucketSet ==
    ASSUME NEW server, NEW day, NEW v, Writes(server, day, v)
    PROVE  /\ srvSent' = [s \in Servers |-> [d \in Days |-> srvSent'[s][d]]]
           /\ \A s \in Servers, d \in Days :
                 srvSent'[s][d] = IF s = server /\ d = day THEN v ELSE srvSent[s][d]
  <1>1. srvSent' = [s \in Servers |-> IF s = server THEN [srvSent[s] EXCEPT ![day] = v]
                                                   ELSE srvSent[s]]
    BY DEF Writes
  <1>2. \A s \in Servers : srvSent[s] = [d \in Days |-> srvSent[s][d]]
    BY DEF Writes
  <1>3. \A s \in Servers :
          srvSent'[s] = [d \in Days |-> IF s = server /\ d = day THEN v ELSE srvSent[s][d]]
    BY <1>1, <1>2
  <1>4. \A s \in Servers, d \in Days :
          srvSent'[s][d] = IF s = server /\ d = day THEN v ELSE srvSent[s][d]
    <2> SUFFICES ASSUME NEW s \in Servers, NEW d \in Days
                 PROVE  srvSent'[s][d] = IF s = server /\ d = day THEN v ELSE srvSent[s][d]
      OBVIOUS
    <2>1. srvSent'[s] = [x \in Days |-> IF s = server /\ x = day THEN v ELSE srvSent[s][x]]
      BY <1>3
    <2> QED BY <2>1
  <1>5. \A s \in Servers : srvSent'[s] = [d \in Days |-> srvSent'[s][d]]
    BY <1>3
  <1> QED BY <1>1, <1>4, <1>5

(* Messages are added, and counted. *)
Adds(new, server, day) ==
    /\ IsFiniteSet(new) /\ new \intersect messages = {}
    /\ server \in Servers /\ day \in 0..today
    /\ \A x \in new : x.server = server /\ x.day = day
    /\ messages' = messages \union new
    /\ srvSent' = [s \in Servers |-> [d \in Days |-> srvSent'[s][d]]]
    /\ \A s \in Servers, d \in Days : srvSent'[s][d] =
          IF s = server /\ d = day THEN srvSent[s][d] + Cardinality(new) ELSE srvSent[s][d]
    /\ orgSent' = [m \in Months |->
          IF m = MonthOf(day) THEN orgSent[m] + Cardinality(new) ELSE orgSent[m]]

LEMMA Inserted ==
    ASSUME scene \in Scenes, today \in Days, Counted, NEW new, NEW server, NEW day,
           Adds(new, server, day), UNCHANGED <<scene, today>>
    PROVE  Counted'
  <1> DEFINE InMonth(M, m)  == {x \in M : MonthOf(x.day) = m}
             OnDay(M, s, d) == {x \in M : x.server = s /\ x.day = d}
             n == Cardinality(new)
  <1>1. Days' = Days /\ Servers' = Servers /\ Months' = Months
    BY SceneStays
  <1>2. day \in Days /\ MonthOf(day) \in Months
    BY DaysTyped DEF Adds
  <1>3. /\ IsFiniteSet(messages') /\ IsFiniteSet(messages) /\ n \in Nat
    BY CountAdded, FS_CardinalityType DEF Counted, Adds
  <1>4. \A x \in messages' : x.day \in 0..today
    BY DEF Counted, Adds
  <1>5. \A m \in Months : orgSent'[m] = Cardinality(InMonth(messages', m))
    <2> SUFFICES ASSUME NEW m \in Months
                 PROVE  orgSent'[m] = Cardinality(InMonth(messages', m))
      OBVIOUS
    <2> DEFINE A == InMonth(messages, m)
               b == orgSent[m]
    <2>1. b = Cardinality(A)
      BY DEF Counted
    <2>2. IsFiniteSet(A) /\ Cardinality(A) \in Nat
      BY <1>3, FS_Subset, FS_CardinalityType
    <2>3. orgSent'[m] = IF m = MonthOf(day) THEN b + n ELSE b
      BY DEF Adds
    <2>4. CASE m = MonthOf(day)
      <3>1. InMonth(messages', m) = A \union new /\ A \intersect new = {}
        BY <2>4 DEF Adds
      <3> HIDE DEF A, InMonth
      <3>2. Cardinality(A \union new) = Cardinality(A) + n
        BY <2>2, <3>1, CountAdded DEF Adds
      <3> QED BY <2>1, <2>3, <2>4, <3>1, <3>2
    <2>5. CASE m # MonthOf(day)
      <3>1. InMonth(messages', m) = A
        BY <2>5 DEF Adds
      <3> HIDE DEF A, InMonth
      <3> QED BY <2>1, <2>3, <2>5, <3>1
    <2> QED BY <2>4, <2>5
  <1>6. orgSent' = [m \in Months |-> Cardinality(InMonth(messages', m))]
    <2>1. orgSent' = [m \in Months |-> orgSent'[m]]
      BY DEF Adds
    <2> HIDE DEF InMonth
    <2> QED BY <1>5, <2>1
  <1>7. \A s \in Servers, d \in Days : d >= today - Kept =>
          srvSent'[s][d] = Cardinality(OnDay(messages', s, d))
    <2> SUFFICES ASSUME NEW s \in Servers, NEW d \in Days, d >= today - Kept
                 PROVE  srvSent'[s][d] = Cardinality(OnDay(messages', s, d))
      OBVIOUS
    <2> DEFINE A == OnDay(messages, s, d)
               b == srvSent[s][d]
    <2>1. b = Cardinality(A)
      BY DEF Counted
    <2>2. IsFiniteSet(A) /\ Cardinality(A) \in Nat
      BY <1>3, FS_Subset, FS_CardinalityType
    <2>3. srvSent'[s][d] = IF s = server /\ d = day THEN b + n ELSE b
      BY DEF Adds
    <2>4. CASE s = server /\ d = day
      <3>1. OnDay(messages', s, d) = A \union new /\ A \intersect new = {}
        BY <2>4 DEF Adds
      <3> HIDE DEF A, OnDay
      <3>2. Cardinality(A \union new) = Cardinality(A) + n
        BY <2>2, <3>1, CountAdded DEF Adds
      <3> QED BY <2>1, <2>3, <2>4, <3>1, <3>2
    <2>5. CASE ~(s = server /\ d = day)
      <3>1. OnDay(messages', s, d) = A
        BY <2>5 DEF Adds
      <3> HIDE DEF A, OnDay
      <3> QED BY <2>1, <2>3, <2>5, <3>1
    <2> QED BY <2>4, <2>5
  <1>8. srvSent' = [s \in Servers |-> [d \in Days |-> srvSent'[s][d]]]
    BY DEF Adds
  <1> QED BY <1>1, <1>3, <1>4, <1>6, <1>7, <1>8 DEF Counted

LEMMA InsertCounts ==
    ASSUME scene \in Scenes, today \in Days, Counted,
           NEW new, IsFiniteSet(new), new \intersect messages = {},
           NEW server \in Servers, NEW day \in 0..today,
           \A x \in new : x.server = server /\ x.day = day,
           Insert(new, server, day), UNCHANGED <<scene, today>>
    PROVE  Counted'
  <1> DEFINE n == Cardinality(new)
             v == srvSent[server][day] + n
             m0 == MonthOf(day)
             o == orgSent[m0] + n
  <1>1. /\ messages' = messages \union new
        /\ srvSent' = [srvSent EXCEPT ![server][day] = v]
        /\ orgSent' = [orgSent EXCEPT ![m0] = o]
    BY DEF Insert
  <1>2. day \in Days /\ m0 \in Months
    BY DaysTyped
  <1>3. srvSent = [s \in Servers |-> [d \in Days |-> srvSent[s][d]]]
    BY DEF Counted
  <1>4. orgSent = [m \in Months |-> orgSent[m]]
    BY DEF Counted
  <1> HIDE DEF v, o, n, m0
  <1>a. Writes(server, day, v)
    BY <1>1, <1>2, <1>3 DEF Writes
  <1>5. /\ srvSent' = [s \in Servers |-> [d \in Days |-> srvSent'[s][d]]]
        /\ \A s \in Servers, d \in Days :
              srvSent'[s][d] = IF s = server /\ d = day THEN v ELSE srvSent[s][d]
    BY <1>a, BucketSet
  <1>6. orgSent' = [m \in Months |-> IF m = m0 THEN o ELSE orgSent[m]]
    BY <1>1, <1>2, <1>4
  <1>7. orgSent' = [m \in Months |-> IF m = m0 THEN orgSent[m] + n ELSE orgSent[m]]
    BY <1>6 DEF o
  <1>8. \A s \in Servers, d \in Days : srvSent'[s][d] =
              IF s = server /\ d = day THEN srvSent[s][d] + n ELSE srvSent[s][d]
    BY <1>5 DEF v
  <1>9. Adds(new, server, day)
    BY <1>1, <1>5, <1>7, <1>8 DEF Adds, n, m0
  <1> QED BY <1>9, Inserted

(* The thresholds announced for a month. *)
LEMMA FiredInMonth ==
    ASSUME events \in Seq(Thresholds), NEW m, NEW t
    PROVE  t \in {events[i].threshold : i \in {i \in 1..Len(events) : events[i].month = m}}
             <=> [month |-> m, threshold |-> t] \in Fired(events)
  <1>1. \A i \in 1..Len(events) : events[i] = [month |-> m, threshold |-> t]
                                    <=> events[i].month = m /\ events[i].threshold = t
    <2> SUFFICES ASSUME NEW i \in 1..Len(events)
                 PROVE  events[i] = [month |-> m, threshold |-> t]
                          <=> events[i].month = m /\ events[i].threshold = t
      OBVIOUS
    <2>1. events[i] \in Thresholds
      BY ElementTyped
    <2>2. events[i] = [month |-> events[i].month, threshold |-> events[i].threshold]
      BY <2>1 DEF Thresholds
    <2> QED BY <2>2
  <1> QED BY <1>1 DEF Fired

(* Each threshold reached by the insert is announced, unless it was.       *)
LEMMA InsertAnnounces ==
    ASSUME NEW new, NEW server, NEW day, MonthOf(day) \in Months,
           events \in Seq(Thresholds), Once(events), Insert(new, server, day),
           NEW sent, sent = orgSent[MonthOf(day)] + Cardinality(new)
    PROVE  /\ events' \in Seq(Thresholds)
           /\ Once(events')
           /\ \A m, t : [month |-> m, threshold |-> t] \in Fired(events') <=>
                 \/ [month |-> m, threshold |-> t] \in Fired(events)
                 \/ m = MonthOf(day) /\ new # {} /\ t \in Reached(sent, policy.limit)
  <1> DEFINE m0    == MonthOf(day)
             e(t)  == [month |-> m0, threshold |-> t]
             fired == {events[i].threshold : i \in {i \in 1..Len(events) : events[i].month = m0}}
             first == IF new = {} THEN {} ELSE Reached(sent, policy.limit) \ fired
             E(t)  == IF t \in first THEN <<e(t)>> ELSE <<>>
             es    == events \o E(80)
  <1>1. events' = es \o E(100)
    BY DEF Insert
  <1>2. first \subseteq {80, 100}
    BY DEF Reached
  <1>3. \A t : t \in fired <=> e(t) \in Fired(events)
    BY FiredInMonth
  <1>4. \A t \in first : e(t) \notin Fired(events)
    BY <1>3
  <1>5. e(80) \in Thresholds /\ e(100) \in Thresholds /\ e(80) # e(100)
    BY DEF Thresholds
  <1>6. \A t : (t \in first => E(t) = <<e(t)>>) /\ (t \notin first => E(t) = <<>>)
    OBVIOUS
  <1>7. \A t : <<e(t)>> # <<>>
    OBVIOUS
  <1>8. \A t : t \in first <=> new # {} /\ t \in Reached(sent, policy.limit) /\ t \notin fired
    OBVIOUS
  <1> HIDE DEF first, fired, E, e
  <1>9. /\ es \in Seq(Thresholds) /\ Once(es)
        /\ Fired(es) = Fired(events) \union (IF 80 \in first THEN {e(80)} ELSE {})
    <2>1. E(80) = <<>> \/ (E(80) = <<e(80)>> /\ e(80) \notin Fired(events))
      BY <1>4, <1>6
    <2>2. Fired(es) = Fired(events) \union (IF E(80) = <<>> THEN {} ELSE {e(80)})
      BY <1>5, <2>1, EventAdded
    <2>3. es \in Seq(Thresholds) /\ Once(es)
      BY <1>5, <2>1, EventAdded
    <2>4. E(80) = <<>> <=> 80 \notin first
      BY <1>6, <1>7
    <2> HIDE DEF es
    <2> QED BY <2>2, <2>3, <2>4
  <1> HIDE DEF es
  <1>10. /\ events' \in Seq(Thresholds) /\ Once(events')
         /\ Fired(events') = Fired(es) \union (IF 100 \in first THEN {e(100)} ELSE {})
    <2>1. E(100) = <<>> \/ (E(100) = <<e(100)>> /\ e(100) \notin Fired(es))
      BY <1>4, <1>5, <1>6, <1>9
    <2>2. Fired(events') = Fired(es) \union (IF E(100) = <<>> THEN {} ELSE {e(100)})
      BY <1>1, <1>5, <1>9, <2>1, EventAdded
    <2>3. events' \in Seq(Thresholds) /\ Once(events')
      BY <1>1, <1>5, <1>9, <2>1, EventAdded
    <2>4. E(100) = <<>> <=> 100 \notin first
      BY <1>6, <1>7
    <2> QED BY <2>2, <2>3, <2>4
  <1>11. \A x : x \in Fired(events') <=> x \in Fired(events) \/ \E t \in first : x = e(t)
    BY <1>2, <1>9, <1>10
  <1>12. \A m, t, u : [month |-> m, threshold |-> t] = e(u) <=> m = m0 /\ t = u
    BY DEF e
  <1>13. \A m, t : [month |-> m, threshold |-> t] \in Fired(events') <=>
                 [month |-> m, threshold |-> t] \in Fired(events) \/ (m = m0 /\ t \in first)
    <2> SUFFICES ASSUME NEW m, NEW t
                 PROVE  [month |-> m, threshold |-> t] \in Fired(events') <=>
                          \/ [month |-> m, threshold |-> t] \in Fired(events)
                          \/ m = m0 /\ t \in first
      OBVIOUS
    <2>1. (\E u \in first : [month |-> m, threshold |-> t] = e(u)) <=> m = m0 /\ t \in first
      <3>1. ASSUME NEW u \in first, [month |-> m, threshold |-> t] = e(u)
            PROVE  m = m0 /\ t \in first
        BY <1>12, <3>1
      <3>2. ASSUME m = m0, t \in first
            PROVE  [month |-> m, threshold |-> t] = e(t)
        BY <1>12, <3>2
      <3> QED BY <3>1, <3>2
    <2> QED BY <1>11, <2>1
  <1>14. \A m, t : [month |-> m, threshold |-> t] \in Fired(events') <=>
                 \/ [month |-> m, threshold |-> t] \in Fired(events)
                 \/ m = m0 /\ new # {} /\ t \in Reached(sent, policy.limit)
    BY <1>3, <1>8, <1>13 DEF e
  <1> QED BY <1>10, <1>14

LEMMA Announces ==
    ASSUME scene \in Scenes, today \in Days, Counted, LimitStays, Announced,
           NEW new, IsFiniteSet(new), NEW server, NEW day \in Days,
           Insert(new, server, day), scene' = scene, history'.changes = history.changes
    PROVE  Announced'
  <1> DEFINE m0   == MonthOf(day)
             n    == Cardinality(new)
             sent == orgSent[m0] + n
             L    == FirstLimit
  <1>1. m0 \in Months
    BY DaysTyped
  <1>2. orgSent = [m \in Months |-> orgSent[m]] /\ \A m \in Months : orgSent[m] \in Nat
    BY FS_Subset, FS_CardinalityType DEF Counted
  <1>3. n \in Nat /\ (new = {} => n = 0)
    BY FS_CardinalityType, FS_EmptySet
  <1>4. orgSent' = [orgSent EXCEPT ![m0] = sent]
    BY DEF Insert
  <1>5. /\ Months' = Months /\ Thresholds' = Thresholds /\ FirstLimit' = FirstLimit
    BY SceneStays DEF Thresholds, FirstLimit
  <1>6. /\ events' \in Seq(Thresholds)
        /\ Once(events')
        /\ \A m, t : [month |-> m, threshold |-> t] \in Fired(events') <=>
              \/ [month |-> m, threshold |-> t] \in Fired(events)
              \/ m = m0 /\ new # {} /\ t \in Reached(sent, policy.limit)
    BY <1>1, InsertAnnounces DEF Announced
  <1>7. ASSUME history.changes = 0, L \notin {Unlimited, 0}, NEW m \in Months, NEW t \in {80, 100}
        PROVE  EventOf(m, t) \in Fired(events') <=> AtThreshold(m, t)'
    <2> DEFINE fired == EventOf(m, t) \in Fired(events)
               b     == orgSent[m]
    <2>1. fired <=> AtThreshold(m, t)
      BY <1>7 DEF Announced
    <2>2. policy.limit = L
      BY <1>7 DEF LimitStays
    <2>3. L \in Nat
      BY <1>7, SubmissionAssumption DEF FirstLimit
    <2>4. t \in Reached(sent, L) <=> sent * 100 >= L * t
      BY <1>7 DEF Reached
    <2>5. orgSent'[m] = IF m = m0 THEN sent ELSE b
      BY <1>2, <1>4
    <2>6. b \in Nat /\ L * t \in Int
      BY <1>2, <2>3
    <2>7. EventOf(m, t) \in Fired(events') <=>
            fired \/ (m = m0 /\ new # {} /\ t \in Reached(sent, L))
      BY <1>6, <2>2 DEF EventOf
    <2>8. (AtThreshold(m, t) <=> b * 100 >= L * t)
          /\ (AtThreshold(m, t)' <=> orgSent'[m] * 100 >= L * t)
      BY <1>5 DEF AtThreshold
    <2> HIDE DEF fired, L, sent
    <2>9. CASE m # m0
      BY <2>1, <2>5, <2>7, <2>8, <2>9
    <2>10. CASE m = m0
      <3>1. sent = b + n
        BY <2>10 DEF sent
      <3>2. new = {} => sent = b
        BY <1>3, <2>6, <3>1
      <3>3. b * 100 >= L * t => sent * 100 >= L * t
        BY <1>3, <2>6, <3>1
      <3> QED BY <2>1, <2>4, <2>5, <2>7, <2>8, <2>10, <3>2, <3>3
    <2> QED BY <2>9, <2>10
  <1>8. (history.changes = 0 /\ FirstLimit \notin {Unlimited, 0})' =>
          \A m \in Months, t \in {80, 100} :
              EventOf(m, t) \in Fired(events') <=> AtThreshold(m, t)'
    BY <1>5, <1>7
  <1> QED BY <1>5, <1>6, <1>8 DEF Announced

-----------------------------------------------------------------------------
(***************************************************************************)
(* Steps                                                                   *)
(***************************************************************************)
IsHistory(h) == h = [changes |-> h.changes, expiries |-> h.expiries, faults |-> h.faults,
                     opened |-> h.opened]

LEMMA OutcomeKeeps ==
    ASSUME LimitStays, NEW kind, NEW fails, Outcome(kind, fails)
    PROVE  /\ IsHistory(history')
           /\ history'.changes = history.changes /\ history'.opened = history.opened
  <1> DEFINE n == history.faults + 1
             h == [history EXCEPT !.faults = n]
  <1>1. IsHistory(history)
    BY DEF LimitStays, IsHistory
  <1>2. history' = h \/ history' = history
    BY DEF Outcome
  <1> HIDE DEF n
  <1>3. IsHistory(h) /\ h.changes = history.changes /\ h.opened = history.opened
    BY <1>1 DEF IsHistory
  <1> QED BY <1>1, <1>2, <1>3

LEMMA OpenKeeps ==
    ASSUME LimitStays, NEW c, NEW fails, OpenGates(c, fails)
    PROVE  /\ IsHistory(history')
           /\ history'.changes = history.changes
           /\ history'.opened = history.opened \union {call[c].by}
           /\ history'.faults = history.faults + (IF fails THEN 1 ELSE 0)
  <1> DEFINE n == history.faults + (IF fails THEN 1 ELSE 0)
             o == history.opened \union {call[c].by}
             g == [history EXCEPT !.faults = n]
             h == [g EXCEPT !.opened = o]
  <1>1. IsHistory(history)
    BY DEF LimitStays, IsHistory
  <1>2. history' = h
    BY DEF OpenGates
  <1> HIDE DEF n, o
  <1>3. IsHistory(g) /\ g.changes = history.changes /\ g.faults = n
    BY <1>1 DEF IsHistory
  <1> HIDE DEF g
  <1>4. IsHistory(h) /\ h.changes = history.changes /\ h.faults = n /\ h.opened = o
    BY <1>3 DEF IsHistory
  <1> HIDE DEF h
  <1> QED BY <1>2, <1>4 DEF n, o

LEMMA Later ==
    ASSUME NEW d \in Int, NEW t \in Int, NEW u \in Int, t <= u, NEW k \in Int, d >= u - k
    PROVE  d >= t - k
  OBVIOUS

(* Nothing is stored; the day may turn. *)
LEMMA CountsKept ==
    ASSUME scene \in Scenes, today \in Days, Counted, LimitStays, Announced,
           UNCHANGED <<scene, orgSent, srvSent, events, messages>>,
           today' \in Days, today <= today'
    PROVE  /\ Counted'
           /\ history'.changes = history.changes => Announced'
           /\ history'.changes # 0 => Announced'
  <1>1. /\ Days' = Days /\ Servers' = Servers /\ Months' = Months
        /\ Thresholds' = Thresholds /\ FirstLimit' = FirstLimit
    BY SceneStays DEF Thresholds, FirstLimit
  <1>2. today \in Nat /\ today' \in Nat /\ Kept \in Nat /\ \A d \in Days : d \in Nat
    BY DaysTyped, SubmissionAssumption
  <1>3. Counted'
    <2>1. \A x \in messages : x.day \in 0..today'
      BY <1>2 DEF Counted
    <2>2. \A d \in Days : d >= today' - Kept => d >= today - Kept
      <3> SUFFICES ASSUME NEW d \in Days, d >= today' - Kept
                   PROVE  d >= today - Kept
        OBVIOUS
      <3>1. d \in Int /\ today \in Int /\ today' \in Int /\ Kept \in Int
        BY <1>2
      <3> QED BY <3>1, Later
    <2>3. \A s \in Servers, d \in Days : d >= today' - Kept =>
            srvSent[s][d] = Cardinality({x \in messages : x.server = s /\ x.day = d})
      BY <2>2 DEF Counted
    <2> QED BY <1>1, <2>1, <2>3 DEF Counted
  <1>4. history'.changes = history.changes => Announced'
    BY <1>1 DEF Announced, AtThreshold
  <1>5. history'.changes # 0 => Announced'
    BY <1>1 DEF Announced
  <1> QED BY <1>3, <1>4, <1>5

LEMMA LimitKept ==
    ASSUME LimitStays, IsHistory(history'), history'.changes = history.changes,
           UNCHANGED <<scene, policy, admin>>
    PROVE  LimitStays'
  BY DEF LimitStays, IsHistory, FirstLimit, Admins

(* Steps that leave the table, the day and the policy alone. *)
LEMMA Reading ==
    ASSUME UsageInv, Inv', IsHistory(history'), history'.changes = history.changes,
           UNCHANGED <<scene, policy, admin, today, orgSent, srvSent, events, messages>>
    PROVE  UsageInv'
  <1>1. scene \in Scenes /\ today \in Days /\ today' \in Days /\ today <= today'
    BY DaysTyped DEF UsageInv, Inv, TypeOK
  <1>2. Counted' /\ Announced'
    BY <1>1, CountsKept DEF UsageInv
  <1>3. LimitStays'
    BY LimitKept DEF UsageInv
  <1> QED BY <1>2, <1>3 DEF UsageInv

(* The requests that only read. *)
NothingStored == UNCHANGED <<scene, policy, admin, today, orgSent, srvSent, events, messages>>

LEMMA ServeReads ==
    ASSUME UsageInv, Inv', NEW c,
           \/ \E shape \in Shapes : Arrive(c, shape)
           \/ Lookup(c) \/ Decide(c) \/ Reconcile(c) \/ Begin(c) \/ LoseRace(c)
           \/ AnswerRaced(c) \/ AllStored(c)
    PROVE  UsageInv'
  <1>1. IsHistory(history)
    BY DEF UsageInv, LimitStays, IsHistory
  <1>2. CASE \E shape \in Shapes : Arrive(c, shape)
    <2>1. NothingStored /\ history' = history
      BY <1>2 DEF Arrive, table, NothingStored
    <2> QED BY <1>1, <2>1, Reading DEF NothingStored
  <1>3. CASE Lookup(c)
    <2>1. NothingStored /\ history' = history
      BY <1>3 DEF Lookup, table, NothingStored
    <2> QED BY <1>1, <2>1, Reading DEF NothingStored
  <1>4. CASE Decide(c)
    <2>1. NothingStored /\ history' = history
      BY <1>4 DEF Decide, table, NothingStored
    <2> QED BY <1>1, <2>1, Reading DEF NothingStored
  <1>5. CASE Reconcile(c)
    <2>1. NothingStored /\ history' = history
      BY <1>5 DEF Reconcile, table, NothingStored
    <2> QED BY <1>1, <2>1, Reading DEF NothingStored
  <1>6. CASE Begin(c)
    <2>1. NothingStored /\ history' = history
      BY <1>6 DEF Begin, table, NothingStored
    <2> QED BY <1>1, <2>1, Reading DEF NothingStored
  <1>7. CASE LoseRace(c)
    <2>1. NothingStored /\ history' = history
      BY <1>7 DEF LoseRace, table, NothingStored
    <2> QED BY <1>1, <2>1, Reading DEF NothingStored
  <1>8. CASE AnswerRaced(c)
    <2>1. NothingStored /\ history' = history
      BY <1>8 DEF AnswerRaced, table, NothingStored
    <2> QED BY <1>1, <2>1, Reading DEF NothingStored
  <1>9. CASE AllStored(c)
    <2>1. NothingStored /\ history' = history
      BY <1>9 DEF AllStored, table, NothingStored
    <2> QED BY <1>1, <2>1, Reading DEF NothingStored
  <1> QED BY <1>2, <1>3, <1>4, <1>5, <1>6, <1>7, <1>8, <1>9

LEMMA QueryReads ==
    ASSUME UsageInv, Inv', NEW c, NEW fails,
           \/ Fail(c) \/ Rcpt(c, fails) \/ ReadServer(c, fails) \/ OtherServer(c)
           \/ ReadPolicy(c, fails)
           \/ ReadOrgUsage(c, fails) \/ ReadServerUsage(c, fails)
    PROVE  UsageInv'
  <1>1. ASSUME NothingStored, NEW kind, NEW b, Outcome(kind, b)
        PROVE  UsageInv'
    <2>1. IsHistory(history') /\ history'.changes = history.changes
      BY <1>1, OutcomeKeeps DEF UsageInv
    <2> QED BY <1>1, <2>1, Reading DEF NothingStored
  <1>2. CASE Fail(c)
    <2>1. NothingStored
      BY <1>2 DEF Fail, table, NothingStored
    <2>2. Outcome("query", TRUE)
      BY <1>2 DEF Fail
    <2> QED BY <1>1, <2>1, <2>2
  <1>3. CASE Rcpt(c, fails)
    <2>1. NothingStored
      BY <1>3 DEF Rcpt, table, NothingStored
    <2>2. Outcome("policy", fails) \/ Outcome("query", TRUE)
      BY <1>3 DEF Rcpt
    <2> QED BY <1>1, <2>1, <2>2
  <1>4. CASE ReadPolicy(c, fails)
    <2>1. NothingStored
      BY <1>4 DEF ReadPolicy, table, NothingStored
    <2>2. Outcome(IF Smtp(c) THEN "policy" ELSE "query", fails)
      BY <1>4 DEF ReadPolicy
    <2> QED BY <1>1, <2>1, <2>2
  <1>5. CASE ReadOrgUsage(c, fails)
    <2>1. NothingStored
      BY <1>5 DEF ReadOrgUsage, table, NothingStored
    <2>2. Outcome("query", fails)
      BY <1>5 DEF ReadOrgUsage
    <2> QED BY <1>1, <2>1, <2>2
  <1>6. CASE ReadServerUsage(c, fails)
    <2>1. NothingStored
      BY <1>6 DEF ReadServerUsage, table, NothingStored
    <2>2. Outcome("query", fails)
      BY <1>6 DEF ReadServerUsage
    <2> QED BY <1>1, <2>1, <2>2
  <1>7. ASSUME NEW b, OpenGates(c, b)
        PROVE  UsageInv'
    <2>1. NothingStored
      BY <1>7 DEF OpenGates, table, NothingStored
    <2>2. IsHistory(history') /\ history'.changes = history.changes
      BY <1>7, OpenKeeps DEF UsageInv
    <2> QED BY <2>1, <2>2, Reading DEF NothingStored
  <1>8. CASE OtherServer(c)
    BY <1>7, <1>8 DEF OtherServer
  <1>9. CASE ReadServer(c, fails)
    <2>1. CASE fails
      BY <1>7, <1>9, <2>1 DEF ReadServer
    <2>2. CASE ~fails
      <3>1. NothingStored /\ history' = history
        BY <1>9, <2>2 DEF ReadServer, table, NothingStored
      <3>2. IsHistory(history)
        BY DEF UsageInv, LimitStays, IsHistory
      <3> QED BY <3>1, <3>2, Reading DEF NothingStored
    <2> QED BY <2>1, <2>2
  <1> QED BY <1>2, <1>3, <1>4, <1>5, <1>6, <1>8, <1>9

(* Messages are stored. *)
LEMMA Storing ==
    ASSUME UsageInv, Inv', NEW new, IsFiniteSet(new), new \intersect messages = {},
           NEW server \in Servers, NEW day \in 0..today,
           \A x \in new : x.server = server /\ x.day = day,
           Insert(new, server, day), UNCHANGED <<scene, today, policy, admin>>,
           IsHistory(history'), history'.changes = history.changes
    PROVE  UsageInv'
  <1>1. scene \in Scenes /\ today \in Days
    BY DEF UsageInv, Inv, TypeOK
  <1>2. day \in Days
    BY <1>1, DaysTyped
  <1>3. Counted /\ LimitStays /\ Announced
    BY DEF UsageInv
  <1>4. Counted'
    BY <1>1, <1>3, InsertCounts
  <1>5. Announced'
    BY <1>1, <1>2, <1>3, Announces
  <1>6. LimitStays'
    BY <1>3, LimitKept
  <1> QED BY <1>4, <1>5, <1>6 DEF UsageInv

(* What a call's messages are like. *)
LEMMA CallMessages ==
    ASSUME Inv, NEW c \in Clients, call[c].pc # "idle", NEW day
    PROVE  LET x == call[c]
           IN  /\ IsFiniteSet(MessagesOf(x.by, x.shape, x.plan, day))
               /\ x.shape.server \in Servers
  <1> DEFINE x == call[c]
  <1>1. CallOK(x) /\ scene \in Scenes
    BY Served DEF Inv, TypeOK
  <1>2. x.shape \in Shapes /\ x.plan \in Seq(BOOLEAN) /\ Len(x.plan) <= Len(x.shape.items)
    BY <1>1 DEF CallOK
  <1>3. x.shape.items \in Seq([n : Nat, valid : BOOLEAN]) /\ x.shape.server \in Servers
    BY <1>1, <1>2, ShapeTyped
  <1> HIDE DEF x
  <1>4. IsFiniteSet(MessagesOf(x.by, x.shape, x.plan, day))
    BY <1>2, <1>3, MessagesFinite
  <1> QED BY <1>3, <1>4 DEF x

LEMMA CommitCounts ==
    ASSUME UsageInv, Inv', NEW c \in Clients, NEW lost, Commit(c, lost)
    PROVE  UsageInv'
  <1> DEFINE x   == call[c]
             new == MessagesOf(x.by, x.shape, x.plan, x.day)
  <1>1. /\ x.pc = "insert" /\ Outcome("lost", lost) /\ Insert(new, x.shape.server, x.day)
        /\ UNCHANGED <<scene, today, policy, admin>>
    BY DEF Commit
  <1>2. IsFiniteSet(new) /\ x.shape.server \in Servers
    BY <1>1, CallMessages DEF UsageInv
  <1>3. x.day \in 0..today
    BY <1>1, Served DEF UsageInv, Inv, CallOK
  <1>4. \A m \in new : m.by = x.by /\ m.server = x.shape.server /\ m.day = x.day
    BY MessageNamed
  <1>5. \A m \in messages : m.by # x.by
    BY <1>1 DEF UsageInv, Inv, Untouched, Serving
  <1>6. IsHistory(history') /\ history'.changes = history.changes
    BY <1>1, OutcomeKeeps DEF UsageInv
  <1> HIDE DEF new, x
  <1>7. new \intersect messages = {}
    BY <1>4, <1>5
  <1> QED BY <1>1, <1>2, <1>3, <1>4, <1>6, <1>7, Storing

LEMMA StoreOneCounts ==
    ASSUME UsageInv, Inv', NEW c \in Clients, NEW fails, StoreOne(c, fails)
    PROVE  UsageInv'
  <1> DEFINE x   == call[c]
             all == MessagesOf(x.by, x.shape, x.plan, today)
             new == {y \in all : y.rcpt = x.next}
  <1>1. /\ x.pc = "store" /\ Outcome("store", fails)
        /\ UNCHANGED <<scene, today, policy, admin>>
    BY DEF StoreOne
  <1>2. IsHistory(history') /\ history'.changes = history.changes
    BY <1>1, OutcomeKeeps DEF UsageInv
  <1>3. CASE fails
    <2>1. UNCHANGED <<orgSent, srvSent, events, messages>>
      BY <1>3 DEF StoreOne
    <2> QED BY <1>1, <1>2, <2>1, Reading
  <1>4. CASE ~fails
    <2>1. Insert(new, x.shape.server, today)
      BY <1>4 DEF StoreOne
    <2>2. IsFiniteSet(all) /\ x.shape.server \in Servers
      BY <1>1, CallMessages DEF UsageInv
    <2>3. \A m \in all : m.by = x.by /\ m.server = x.shape.server /\ m.day = today
      BY MessageNamed
    <2>4. x.next \in Nat
      BY <1>1, Served DEF UsageInv, Inv, CallOK
    <2>5. \A m \in messages : m.by = x.by => m.rcpt \in 0..(x.next - 1)
      BY <1>1 DEF UsageInv, Inv, Untouched, Serving
    <2>6. new \in SUBSET all /\ \A m \in new : m.rcpt = x.next
      OBVIOUS
    <2>7. today \in 0..today
      BY DaysTyped DEF UsageInv, Inv, TypeOK
    <2> HIDE DEF new, all, x
    <2>8. x.next \notin 0..(x.next - 1)
      BY <2>4
    <2>9. IsFiniteSet(new)
      BY <2>2, <2>6, FS_Subset
    <2>10. new \intersect messages = {}
      BY <2>3, <2>5, <2>6, <2>8
    <2>11. \A m \in new : m.server = x.shape.server /\ m.day = today
      BY <2>3, <2>6
    <2> QED BY <1>1, <1>2, <2>1, <2>2, <2>7, <2>9, <2>10, <2>11, Storing
  <1> QED BY <1>3, <1>4

(* Administrators change the policy. *)
LEMMA ReadForChangeKeeps ==
    ASSUME UsageInv, Inv', NEW a \in Admins, NEW change, ReadForChange(a, change)
    PROVE  UsageInv'
  <1> DEFINE n == history.changes + 1
             h == [history EXCEPT !.changes = n]
             x == [pc |-> "write", policy |-> [policy EXCEPT ![change.field] = change.value]]
  <1>1. /\ UNCHANGED <<scene, policy, today, orgSent, srvSent, events, messages>>
        /\ history' = h /\ admin' = [admin EXCEPT ![a] = x]
    BY DEF ReadForChange, table
  <1>2. IsHistory(history) /\ history.changes \in Nat /\ admin = [b \in Admins |-> admin[b]]
    BY DEF UsageInv, LimitStays, IsHistory
  <1>3. n \in Nat /\ n # 0
    BY <1>2
  <1> HIDE DEF n, x
  <1>4. IsHistory(h) /\ h.changes = n
    BY <1>2 DEF IsHistory
  <1> HIDE DEF h
  <1>5. admin' = [b \in Admins |-> admin'[b]]
    BY <1>1, <1>2
  <1>6. LimitStays'
    BY <1>1, <1>3, <1>4, <1>5 DEF LimitStays, IsHistory, Admins
  <1>7. scene \in Scenes /\ today \in Days /\ today' \in Days /\ today <= today'
    BY <1>1, DaysTyped DEF UsageInv, Inv, TypeOK
  <1>8. Counted' /\ Announced'
    BY <1>1, <1>3, <1>4, <1>7, CountsKept DEF UsageInv
  <1> QED BY <1>6, <1>8 DEF UsageInv

LEMMA WritePolicyKeeps ==
    ASSUME UsageInv, Inv', NEW a \in Admins, WritePolicy(a)
    PROVE  UsageInv'
  <1>1. /\ UNCHANGED <<scene, today, orgSent, srvSent, events, messages, history>>
        /\ admin[a].pc = "write" /\ admin' = [admin EXCEPT ![a] = Idle]
    BY DEF WritePolicy, table
  <1>2. /\ IsHistory(history) /\ history.changes \in Nat /\ history.changes # 0
        /\ admin = [b \in Admins |-> admin[b]]
    BY <1>1 DEF UsageInv, LimitStays, IsHistory
  <1>3. admin' = [b \in Admins |-> admin'[b]]
    BY <1>1, <1>2
  <1>4. LimitStays'
    BY <1>1, <1>2, <1>3 DEF LimitStays, IsHistory, Admins
  <1>5. scene \in Scenes /\ today \in Days /\ today' \in Days /\ today <= today'
    BY <1>1, DaysTyped DEF UsageInv, Inv, TypeOK
  <1>6. Counted' /\ Announced'
    BY <1>1, <1>5, CountsKept DEF UsageInv
  <1> QED BY <1>4, <1>6 DEF UsageInv

-----------------------------------------------------------------------------
(***************************************************************************)
(* Time and housekeeping                                                   *)
(***************************************************************************)
LEMMA DayTurnsKeeps ==
    ASSUME UsageInv, Inv', DayTurns
    PROVE  UsageInv'
  <1>1. /\ UNCHANGED <<scene, policy, admin, orgSent, srvSent, events, messages, history>>
        /\ today' = today + 1
    BY DEF DayTurns, table
  <1>2. scene \in Scenes /\ today \in Days
    BY DEF UsageInv, Inv, TypeOK
  <1>3. today' \in Days
    <2>1. today' \in Days' /\ Days' = Days
      BY <1>1, SceneStays DEF Inv, TypeOK
    <2> QED BY <2>1
  <1>4. today <= today'
    BY <1>1, <1>2, DaysTyped
  <1>5. Counted' /\ Announced'
    BY <1>1, <1>2, <1>3, <1>4, CountsKept DEF UsageInv
  <1>6. IsHistory(history') /\ history'.changes = history.changes
    BY <1>1 DEF UsageInv, LimitStays, IsHistory
  <1>7. LimitStays'
    BY <1>1, <1>6, LimitKept DEF UsageInv
  <1> QED BY <1>5, <1>7 DEF UsageInv

LEMMA KeyExpiresKeeps ==
    ASSUME UsageInv, Inv', KeyExpires
    PROVE  UsageInv'
  <1> DEFINE n == history.expiries + 1
             h == [history EXCEPT !.expiries = n]
  <1>1. NothingStored /\ history' = h
    BY DEF KeyExpires, NothingStored
  <1>2. IsHistory(history)
    BY DEF UsageInv, LimitStays, IsHistory
  <1> HIDE DEF n
  <1>3. IsHistory(h) /\ h.changes = history.changes
    BY <1>2 DEF IsHistory
  <1> HIDE DEF h
  <1> QED BY <1>1, <1>3, Reading DEF NothingStored

LEMMA PruneCountersKeeps ==
    ASSUME UsageInv, Inv', PruneCounters
    PROVE  UsageInv'
  <1>1. UNCHANGED <<scene, policy, today, orgSent, events, messages, admin, history>>
    BY DEF PruneCounters
  <1>2. srvSent' = [s \in Servers |-> [d \in Days |->
                      IF d < today - Kept THEN 0 ELSE srvSent[s][d]]]
    BY DEF PruneCounters
  <1>3. /\ Days' = Days /\ Servers' = Servers /\ Months' = Months
        /\ Thresholds' = Thresholds /\ FirstLimit' = FirstLimit
    BY <1>1, SceneStays DEF Thresholds, FirstLimit
  <1>4. today \in Nat /\ Kept \in Nat /\ \A d \in Days : d \in Nat
    BY DaysTyped, SubmissionAssumption DEF UsageInv, Inv, TypeOK
  <1>5. \A d \in Days : d >= today - Kept => ~(d < today - Kept)
    BY <1>4
  <1>6. \A s \in Servers, d \in Days : srvSent'[s][d] =
                      IF d < today - Kept THEN 0 ELSE srvSent[s][d]
    BY <1>2
  <1>7. \A s \in Servers, d \in Days : d >= today - Kept => srvSent'[s][d] = srvSent[s][d]
    BY <1>5, <1>6
  <1>8. srvSent' = [s \in Servers |-> [d \in Days |-> srvSent'[s][d]]]
    <2>1. \A s \in Servers : srvSent'[s] = [d \in Days |-> srvSent'[s][d]]
      BY <1>2
    <2>2. srvSent' = [s \in Servers |-> srvSent'[s]]
      BY <1>2
    <2> QED BY <2>1, <2>2
  <1>9. \A s \in Servers, d \in Days : d >= today - Kept =>
            srvSent'[s][d] = Cardinality({x \in messages : x.server = s /\ x.day = d})
    <2>1. \A s \in Servers, d \in Days : d >= today - Kept =>
            srvSent[s][d] = Cardinality({x \in messages : x.server = s /\ x.day = d})
      BY DEF UsageInv, Counted
    <2> QED BY <1>7, <2>1
  <1>10. Counted'
    <2>1. /\ IsFiniteSet(messages) /\ \A x \in messages : x.day \in 0..today
          /\ orgSent = [m \in Months |-> Cardinality({x \in messages : MonthOf(x.day) = m})]
      BY DEF UsageInv, Counted
    <2> QED BY <1>1, <1>3, <1>8, <1>9, <2>1 DEF Counted
  <1>11. Announced'
    BY <1>1, <1>3 DEF UsageInv, Announced, AtThreshold
  <1>12. LimitStays'
    <2>1. IsHistory(history') /\ history'.changes = history.changes
      BY <1>1 DEF UsageInv, LimitStays, IsHistory
    <2> QED BY <1>1, <2>1, LimitKept DEF UsageInv
  <1> QED BY <1>10, <1>11, <1>12 DEF UsageInv

LEMMA UsageInit ==
    ASSUME Init
    PROVE  UsageInv
  <1>1. Inv
    BY InvInit
  <1>2. messages = {} /\ IsFiniteSet({}) /\ Cardinality({}) = 0
    BY FS_EmptySet DEF Init
  <1>3. Counted
    <2>1. \A s, d : {x \in messages : x.server = s /\ x.day = d} = {}
      BY <1>2
    <2>2. \A m : {x \in messages : MonthOf(x.day) = m} = {}
      BY <1>2
    <2>3. srvSent = [s \in Servers |-> [d \in Days |-> 0]] /\ orgSent = [m \in Months |-> 0]
      BY DEF Init
    <2>4. \A s \in Servers, d \in Days : srvSent[s][d] = 0
      BY <2>3
    <2>5. srvSent = [s \in Servers |-> [d \in Days |-> srvSent[s][d]]]
      BY <2>3, <2>4
    <2>6. \A s \in Servers, d \in Days :
            srvSent[s][d] = Cardinality({x \in messages : x.server = s /\ x.day = d})
      BY <1>2, <2>1, <2>4
    <2>7. orgSent = [m \in Months |-> Cardinality({x \in messages : MonthOf(x.day) = m})]
      BY <1>2, <2>2, <2>3
    <2> QED BY <1>2, <2>5, <2>6, <2>7 DEF Counted
  <1>4. LimitStays
    <2>1. history = [changes |-> 0, expiries |-> 0, faults |-> 0, opened |-> {}]
      BY DEF Init
    <2>2. admin = [a \in Admins |-> Idle] /\ Idle.pc = "idle"
      BY DEF Init, Idle
    <2>3. policy = [suspended |-> FALSE, limit |-> FirstLimit]
      BY DEF Init
    <2> QED BY <2>1, <2>2, <2>3 DEF LimitStays
  <1>5. Announced
    <2>1. events = <<>> /\ \A m \in Months : orgSent[m] = 0
      BY DEF Init
    <2>2. events \in Seq(Thresholds) /\ Once(events) /\ Fired(events) = {}
      BY <2>1 DEF Once, Fired
    <2>3. ASSUME FirstLimit \notin {Unlimited, 0}, NEW m \in Months, NEW t \in {80, 100}
          PROVE  ~AtThreshold(m, t)
      <3>1. FirstLimit \in Nat \ {0}
        BY <2>3, SubmissionAssumption DEF Init, FirstLimit
      <3>2. orgSent[m] * 100 = 0
        BY <2>1, <2>3
      <3>3. FirstLimit * t > 0
        BY <2>3, <3>1
      <3> QED BY <3>1, <3>2, <3>3 DEF AtThreshold
    <2> QED BY <2>2, <2>3 DEF Announced
  <1> QED BY <1>1, <1>3, <1>4, <1>5 DEF UsageInv

LEMMA UsageNext ==
    ASSUME UsageInv, [Next]_vars
    PROVE  UsageInv'
  <1>1. Inv'
    BY InvNext DEF UsageInv
  <1>2. IsHistory(history)
    BY DEF UsageInv, LimitStays, IsHistory
  <1>3. ASSUME NEW c \in Clients, Serve(c)
        PROVE  UsageInv'
    BY <1>1, <1>3, ServeReads, QueryReads, CommitCounts, StoreOneCounts DEF Serve
  <1>4. CASE UNCHANGED vars
    <2>1. NothingStored /\ history' = history
      BY <1>4 DEF vars, table, NothingStored
    <2> QED BY <1>1, <1>2, <2>1, Reading DEF NothingStored
  <1>5. CASE PruneKeys
    <2>1. NothingStored /\ history' = history
      BY <1>5 DEF PruneKeys, NothingStored
    <2> QED BY <1>1, <1>2, <2>1, Reading DEF NothingStored
  <1>6. ASSUME NEW a \in Admins, NEW change \in Changes, ReadForChange(a, change)
        PROVE  UsageInv'
    BY <1>1, <1>6, ReadForChangeKeeps
  <1>7. ASSUME NEW a \in Admins, WritePolicy(a)
        PROVE  UsageInv'
    BY <1>1, <1>7, WritePolicyKeeps
  <1>8. CASE DayTurns
    BY <1>1, <1>8, DayTurnsKeeps
  <1>9. CASE KeyExpires
    BY <1>1, <1>9, KeyExpiresKeeps
  <1>10. CASE PruneCounters
    BY <1>1, <1>10, PruneCountersKeeps
  <1> QED BY <1>3, <1>4, <1>5, <1>6, <1>7, <1>8, <1>9, <1>10 DEF Next

(* Every reachable state satisfies the inductive invariant: the counters   *)
(* are those of the table of messages, the limit is the first one until it *)
(* is changed, and the thresholds announced are those reached.             *)
THEOREM UsageInvariant == Spec => []UsageInv
  BY UsageInit, UsageNext, PTL DEF Spec

PlacesOf(e) == {i \in 1..Len(events) : events[i] = e}

(* The events of a threshold are at most one. *)
LEMMA OnceIsOne ==
    ASSUME NEW e, Once(events)
    PROVE  Cardinality(PlacesOf(e)) <= 1
  <1> DEFINE F == PlacesOf(e)
  <1>1. CASE F = {}
    <2>1. Cardinality(F) = 0
      BY <1>1, FS_EmptySet
    <2> QED BY <2>1
  <1>2. CASE F # {}
    <2>1. PICK i : i \in F
      BY <1>2
    <2>2. F = {i}
      BY <2>1 DEF Once, PlacesOf
    <2>3. Cardinality(F) = 1
      BY <2>2, FS_Singleton
    <2> QED BY <2>3
  <1> QED BY <1>1, <1>2

(* The sum of the window's buckets counts the messages of the window. *)
LEMMA WindowCounted ==
    ASSUME UsageInv, NEW s \in Servers
    PROVE  Usage(s, today) = Cardinality({x \in messages :
                                            x.server = s /\ x.day > today - Window})
  <1> DEFINE D == {x \in Days : x > today - Window /\ x <= today}
             M == {x \in messages : x.server = s}
             f == srvSent[s]
  <1>1. scene \in Scenes /\ today \in Days /\ Counted
    BY DEF UsageInv, Inv, TypeOK
  <1>2. /\ scene.lastDay \in Nat /\ today \in Nat /\ 0..today \subseteq Days
        /\ \A d \in Days : d \in Nat
    BY <1>1, DaysTyped
  <1>3. Window \in Nat /\ Kept \in Nat /\ Kept >= Window
    BY SubmissionAssumption
  <1>4. IsFiniteSet(D)
    <2>1. IsFiniteSet(Days)
      BY <1>2, FS_Interval DEF Days
    <2> QED BY <2>1, FS_Subset
  <1>5. IsFiniteSet(M)
    BY <1>1, FS_Subset DEF Counted
  <1>6. \A x \in D : f[x] = Cardinality({m \in M : m.day = x})
    <2> SUFFICES ASSUME NEW x \in D
                 PROVE  f[x] = Cardinality({m \in M : m.day = x})
      OBVIOUS
    <2>1. x \in Days /\ x >= today - Kept
      BY <1>2, <1>3
    <2>2. f[x] = Cardinality({m \in messages : m.server = s /\ m.day = x})
      BY <1>1, <2>1 DEF Counted
    <2>3. {m \in messages : m.server = s /\ m.day = x} = {m \in M : m.day = x}
      OBVIOUS
    <2> QED BY <2>2, <2>3
  <1>7. {m \in M : m.day \in D} = {x \in messages : x.server = s /\ x.day > today - Window}
    <2>1. \A x \in messages : x.day \in Days /\ x.day <= today
      BY <1>1, <1>2 DEF Counted
    <2> QED BY <2>1
  <1>8. Usage(s, today) = SumOver(f, D)
    BY DEF Usage, SumOver
  <1> HIDE DEF D, M, f
  <1>9. SumOver(f, D) = Cardinality({m \in M : m.day \in D})
    BY <1>4, <1>5, <1>6, SumIsCount
  <1> QED BY <1>7, <1>8, <1>9

(* What the quota gates read is what was stored: the month's counter and   *)
(* the sum of the window's buckets are numbers of messages, although days  *)
(* turn under open transactions and old buckets are dropped; and each      *)
(* threshold is announced once, exactly if it was reached                  *)
(* (insert_message_in_tx, send_usage, prune_send_counters).                *)
THEOREM UsageTheorem == Spec => []UsageIsTrue
  <1>1. ASSUME UsageInv
        PROVE  UsageIsTrue
    <2>1. \A m \in Months : orgSent[m] = Cardinality({x \in messages : MonthOf(x.day) = m})
      BY <1>1 DEF UsageInv, Counted
    <2>2. \A s \in Servers : Usage(s, today) =
             Cardinality({x \in messages : x.server = s /\ x.day > today - Window})
      BY <1>1, WindowCounted
    <2>3. ASSUME NEW m \in Months, NEW t \in {80, 100}
          PROVE  LET fired == {i \in 1..Len(events) :
                                 events[i] = [month |-> m, threshold |-> t]}
                 IN  /\ Cardinality(fired) <= 1
                     /\ history.changes = 0 /\ FirstLimit \notin {Unlimited, 0} =>
                           (fired # {} <=> orgSent[m] * 100 >= FirstLimit * t)
      <3> DEFINE e     == EventOf(m, t)
                 fired == PlacesOf(e)
      <3>1. Cardinality(fired) <= 1
        <4>1. Once(events)
          BY <1>1 DEF UsageInv, Announced
        <4> QED BY <4>1, OnceIsOne
      <3>2. fired # {} <=> e \in Fired(events)
        BY DEF Fired, PlacesOf
      <3>3. history.changes = 0 /\ FirstLimit \notin {Unlimited, 0} =>
              (e \in Fired(events) <=> AtThreshold(m, t))
        BY <1>1, <2>3 DEF UsageInv, Announced
      <3>4. history.changes = 0 /\ FirstLimit \notin {Unlimited, 0} =>
              (fired # {} <=> orgSent[m] * 100 >= FirstLimit * t)
        BY <3>2, <3>3 DEF AtThreshold
      <3>5. fired = {i \in 1..Len(events) : events[i] = [month |-> m, threshold |-> t]}
        BY DEF EventOf, PlacesOf
      <3> HIDE DEF fired
      <3> QED BY <3>1, <3>4, <3>5
    <2> QED BY <2>1, <2>2, <2>3 DEF UsageIsTrue
  <1> QED BY <1>1, UsageInvariant, PTL
-----------------------------------------------------------------------------
(***************************************************************************)
(* How far a limit can be exceeded                                         *)
(***************************************************************************)
(* A finite set of numbers has a largest one: a smallest set without one   *)
(* would have it from the set without one of its elements.                 *)
LEMMA FiniteMax ==
    ASSUME NEW S, IsFiniteSet(S), S # {}, S \subseteq Nat
    PROVE  Max(S) \in S /\ \A y \in S : y <= Max(S)
  <1> DEFINE HasMax(T) == \E x \in T : \A y \in T : x >= y
             Bad == {T \in SUBSET S : T # {} /\ ~HasMax(T)}
             R   == StrictSubsetOrdering(S)
  <1>1. HasMax(S)
    <2>1. IsWellFoundedOn(R, SUBSET S)
      BY FS_StrictSubsetOrderingWellFounded, FS_FiniteSubsetsOfFinite
    <2> SUFFICES ASSUME ~HasMax(S)
                 PROVE  FALSE
      OBVIOUS
    <2>2. Bad # {} /\ Bad \subseteq SUBSET S
      OBVIOUS
    <2>3. PICK T \in Bad : \A U \in Bad : <<U, T>> \notin R
      <3> HIDE DEF Bad, R
      <3> QED BY <2>1, <2>2, WFMin
    <2>4. PICK x : x \in T
      OBVIOUS
    <2> DEFINE U == T \ {x}
    <2>5. U \in SUBSET S /\ U # T /\ U \subseteq T /\ T \in SUBSET S
      BY <2>4
    <2>6. <<U, T>> \in R
      BY <2>5 DEF StrictSubsetOrdering
    <2>7. U = {} \/ HasMax(U)
      BY <2>3, <2>5, <2>6
    <2>8. CASE U = {}
      BY <2>3, <2>4, <2>5, <2>8
    <2>9. CASE HasMax(U)
      <3>1. PICK u \in U : \A y \in U : u >= y
        BY <2>9
      <3>2. x \in Nat /\ u \in Nat /\ \A y \in T : y \in Nat
        BY <2>4, <2>5
      <3>3. u \in T /\ \A y \in T : y = x \/ u >= y
        BY <2>5, <3>1
      <3> HIDE DEF U
      <3>4. CASE x >= u
        <4>1. \A y \in T : x >= y
          BY <3>2, <3>3, <3>4
        <4> QED BY <2>3, <2>4, <4>1
      <3>5. CASE u >= x
        <4>1. \A y \in T : u >= y
          BY <3>3, <3>5
        <4> QED BY <2>3, <3>3, <4>1
      <3> QED BY <3>2, <3>4, <3>5
    <2> QED BY <2>7, <2>8, <2>9
  <1> HIDE DEF HasMax
  <1>2. Max(S) \in S /\ \A y \in S : Max(S) >= y
    BY <1>1 DEF Max, HasMax
  <1> QED BY <1>2

(* The recipients of a request are at most the largest number. *)
LEMMA LargestTyped ==
    ASSUME scene \in Scenes
    PROVE  /\ Largest \in Nat
           /\ \A x \in Shapes : /\ IsFiniteSet(Recipients(x))
                                /\ Cardinality(Recipients(x)) \in Nat
                                /\ Cardinality(Recipients(x)) <= Largest
  <1> DEFINE Sizes == {Cardinality(Recipients(x)) : x \in Shapes}
             S     == {0} \union Sizes
  <1>1. ASSUME NEW x \in Shapes
        PROVE  IsFiniteSet(Recipients(x)) /\ Cardinality(Recipients(x)) \in Nat
    <2> DEFINE n    == Len(x.items)
               plan == [i \in 1..n |-> TRUE]
    <2>1. x.items \in Seq([n : Nat, valid : BOOLEAN])
      BY ShapeTyped
    <2>2. n \in Nat
      BY <2>1
    <2> HIDE DEF n
    <2>3. plan \in Seq(BOOLEAN) /\ Len(plan) = n
      BY <2>2
    <2>4. Len(plan) <= Len(x.items)
      BY <2>2, <2>3 DEF n
    <2> HIDE DEF plan
    <2>5. IsFiniteSet(MessagesOf(0, x, plan, 0))
      BY <2>1, <2>3, <2>4, MessagesFinite
    <2>6. Recipients(x) = MessagesOf(0, x, plan, 0)
      BY DEF Recipients, plan, n
    <2> QED BY <2>5, <2>6, FS_CardinalityType
  <1>2. Sizes \subseteq Nat
    BY <1>1
  <1>3. IsFiniteSet(Sizes)
    BY GateAssumption DEF Shapes
  <1>4. IsFiniteSet(S)
    <2> HIDE DEF Sizes
    <2> QED BY <1>3, FS_Singleton, FS_Union
  <1>5. S # {} /\ S \subseteq Nat /\ Largest = Max(S)
    BY <1>2 DEF Largest
  <1> HIDE DEF S
  <1>6. Largest \in S /\ \A y \in S : y <= Largest
    BY <1>4, <1>5, FiniteMax
  <1>7. \A x \in Shapes : Cardinality(Recipients(x)) \in S
    BY DEF S
  <1> QED BY <1>1, <1>5, <1>6, <1>7

(* What the other clients can have in flight. *)
Slack == (Cardinality(Clients) - 1) * Largest

(* W[c] messages are owed by the request of client c. *)
Debt(W)     == {p \in Clients \X (1..Largest) : p[2] <= W[p[1]]}
Others(W, c) == {p \in (Clients \ {c}) \X (1..Largest) : p[2] <= W[p[1]]}

LEMMA Counting ==
    ASSUME NEW n \in Nat
    PROVE  IsFiniteSet(1..n) /\ Cardinality(1..n) = n
  <1>1. IsFiniteSet(1..n) /\ Cardinality(1..n) = IF 1 > n THEN 0 ELSE n - 1 + 1
    BY FS_Interval
  <1>2. (IF 1 > n THEN 0 ELSE n - 1 + 1) = n
    OBVIOUS
  <1> QED BY <1>1, <1>2

(* The debt is that of one client and that of the others. *)
LEMMA DebtSplit ==
    ASSUME scene \in Scenes, NEW c \in Clients, NEW W, W[c] \in 0..Largest
    PROVE  /\ Cardinality(Debt(W)) = W[c] + Cardinality(Others(W, c))
           /\ Cardinality(Others(W, c)) \in Nat
           /\ Slack \in Nat
           /\ Cardinality(Others(W, c)) <= Slack
           /\ IsFiniteSet(Debt(W))
  <1> DEFINE L == Largest
             w == W[c]
             O == Others(W, c)
             D == Clients \ {c}
             I == 1..L
             J == 1..w
             K == {c} \X J
             B == D \X I
  <1>1. L \in Nat /\ w \in Nat /\ w <= L
    BY LargestTyped
  <1> HIDE DEF L, w
  <1>2. /\ IsFiniteSet(I) /\ Cardinality(I) = L
        /\ IsFiniteSet(J) /\ Cardinality(J) = w
    BY <1>1, Counting
  <1>3. /\ IsFiniteSet(D) /\ Cardinality(D) = Cardinality(Clients) - 1
    BY GateAssumption, FS_RemoveElement
  <1>4. IsFiniteSet(B) /\ Cardinality(B) = Slack
    <2> HIDE DEF D, I
    <2>1. IsFiniteSet(B) /\ Cardinality(B) = Cardinality(D) * Cardinality(I)
      BY <1>2, <1>3, FS_Product
    <2>2. Slack = Cardinality(D) * Cardinality(I)
      BY <1>2, <1>3 DEF Slack, L
    <2> QED BY <2>1, <2>2
  <1>5. Slack \in Nat
    BY <1>4, FS_CardinalityType
  <1>6. IsFiniteSet(K) /\ Cardinality(K) = w
    <2>1. IsFiniteSet({c}) /\ Cardinality({c}) = 1
      BY FS_Singleton
    <2> HIDE DEF J
    <2>2. IsFiniteSet(K) /\ Cardinality(K) = Cardinality({c}) * Cardinality(J)
      BY <1>2, <2>1, FS_Product
    <2>3. Cardinality({c}) * Cardinality(J) = w
      BY <1>1, <1>2, <2>1
    <2> QED BY <2>2, <2>3
  <1>7. O \subseteq B
    BY DEF Others, L
  <1>8. IsFiniteSet(O) /\ Cardinality(O) \in Nat /\ Cardinality(O) <= Slack
    BY <1>4, <1>7, FS_Subset, FS_CardinalityType
  <1>9. Debt(W) = K \union O /\ K \intersect O = {}
    <2>1. \A p \in K : p \in Debt(W)
      <3> SUFFICES ASSUME NEW k \in 1..w
                   PROVE  <<c, k>> \in Debt(W)
        OBVIOUS
      <3>1. k \in 1..L /\ k <= w
        BY <1>1
      <3> QED BY <3>1 DEF Debt, L, w
    <2>2. \A p \in Debt(W) : p \in K \union O
      <3> SUFFICES ASSUME NEW d \in Clients, NEW k \in 1..L, k <= W[d]
                   PROVE  <<d, k>> \in K \union O
        BY DEF Debt, L
      <3>1. CASE d = c
        <4>1. k \in 1..w
          BY <1>1, <3>1 DEF w
        <4> QED BY <3>1, <4>1
      <3>2. CASE d # c
        BY <3>2 DEF Others, L
      <3> QED BY <3>1, <3>2
    <2>3. O \subseteq Debt(W)
      BY DEF Others, Debt
    <2>4. K \intersect O = {}
      BY DEF Others
    <2> HIDE DEF K, O
    <2> QED BY <2>1, <2>2, <2>3, <2>4
  <1> HIDE DEF K, O, B
  <1>10. IsFiniteSet(K \union O) /\ Cardinality(K \union O) = Cardinality(K) + Cardinality(O)
    BY <1>6, <1>8, <1>9, CountAdded
  <1> QED BY <1>5, <1>6, <1>8, <1>9, <1>10 DEF O, w

(* What was sent and what is owed stay below the limit and the slack. *)
Held(sent, W, limit) == sent + Cardinality(Debt(W)) <= limit + Slack

LEMMA HeldTyped ==
    ASSUME scene \in Scenes, NEW W
    PROVE  /\ Cardinality(Debt(W)) \in Nat /\ Slack \in Nat /\ IsFiniteSet(Debt(W))
  <1>1. Largest \in Nat /\ IsFiniteSet(1..Largest)
    BY LargestTyped, FS_Interval
  <1>2. IsFiniteSet(Clients \X (1..Largest))
    BY <1>1, GateAssumption, FS_Product
  <1>3. IsFiniteSet(Debt(W)) /\ Cardinality(Debt(W)) \in Nat
    BY <1>2, FS_Subset, FS_CardinalityType DEF Debt
  <1>4. PICK c : c \in Clients
    BY GateAssumption
  <1>5. Cardinality(Clients \ {c}) = Cardinality(Clients) - 1 /\ Cardinality(Clients \ {c}) \in Nat
    BY <1>4, GateAssumption, FS_RemoveElement, FS_CardinalityType
  <1>6. Slack \in Nat
    BY <1>1, <1>5 DEF Slack
  <1> QED BY <1>3, <1>6

(* One client sends no more than it stops to owe, or passes the gate.      *)
LEMMA HeldByOne ==
    ASSUME scene \in Scenes, NEW c \in Clients, NEW V, NEW W,
           V[c] \in 0..Largest, W[c] \in 0..Largest,
           \A d \in Clients \ {c} : W[d] = V[d],
           NEW s \in Nat, NEW t \in Nat, NEW limit \in Nat, Held(s, V, limit),
           t + W[c] <= s + V[c] \/ t + W[c] <= limit
    PROVE  Held(t, W, limit)
  <1> DEFINE r == Cardinality(Others(V, c))
             v == V[c]
             w == W[c]
  <1>1. Others(W, c) = Others(V, c)
    BY DEF Others
  <1>2. /\ Cardinality(Debt(V)) = v + r /\ Cardinality(Debt(W)) = w + r
        /\ r \in Nat /\ Slack \in Nat /\ r <= Slack
    BY <1>1, DebtSplit
  <1>3. v \in Nat /\ w \in Nat
    BY LargestTyped
  <1>4. t + w <= s + v \/ t + w <= limit
    OBVIOUS
  <1> HIDE DEF r, v, w
  <1> QED BY <1>2, <1>3, <1>4 DEF Held

(* Less was sent, less is owed. *)
LEMMA HeldByLess ==
    ASSUME scene \in Scenes, NEW V, NEW W, \A c \in Clients : V[c] \in Nat /\ W[c] \in Nat /\ W[c] <= V[c],
           NEW s \in Nat, NEW t \in Nat, t <= s, NEW limit \in Nat, Held(s, V, limit)
    PROVE  Held(t, W, limit)
  <1>1. Debt(W) \subseteq Debt(V)
    <2> SUFFICES ASSUME NEW c \in Clients, NEW k \in 1..Largest, k <= W[c]
                 PROVE  k <= V[c]
      BY DEF Debt
    <2>1. Largest \in Nat /\ V[c] \in Nat /\ W[c] \in Nat /\ W[c] <= V[c]
      BY LargestTyped
    <2> QED BY <2>1
  <1>2. /\ Cardinality(Debt(W)) <= Cardinality(Debt(V)) /\ Slack \in Nat
        /\ Cardinality(Debt(V)) \in Nat /\ Cardinality(Debt(W)) \in Nat
    BY <1>1, HeldTyped, FS_Subset
  <1> QED BY <1>2 DEF Held

(***************************************************************************)
(* How many messages a plan stands for                                     *)
(***************************************************************************)
MessageOf(by, i, k, server, day) ==
    [by |-> by, item |-> i, rcpt |-> k, server |-> server, day |-> day]

(* Message m is for recipient k of item i, which the plan accepts. *)
Planned(m, by, shape, plan, day, i, k) ==
    /\ i \in 1..Len(plan) /\ plan[i] /\ k \in 1..shape.items[i].n
    /\ m = MessageOf(by, i, k, shape.server, day)

LEMMA InMessages ==
    ASSUME NEW by, NEW shape, NEW plan, NEW day, NEW m
    PROVE  m \in MessagesOf(by, shape, plan, day) <=>
             \E i, k : Planned(m, by, shape, plan, day, i, k)
  BY DEF MessagesOf, MessageOf, Planned

(* A message of another call or day is another message, but as many.       *)
LEMMA SameSize ==
    ASSUME NEW by, NEW shape, NEW plan, NEW day, IsFiniteSet(MessagesOf(0, shape, plan, 0))
    PROVE  Cardinality(MessagesOf(by, shape, plan, day))
              <= Cardinality(MessagesOf(0, shape, plan, 0))
  <1> DEFINE A == MessagesOf(0, shape, plan, 0)
             B == MessagesOf(by, shape, plan, day)
             f == [m \in A |-> MessageOf(by, m.item, m.rcpt, shape.server, day)]
  <1>1. \A m \in A : f[m] \in B
    <2> SUFFICES ASSUME NEW m \in A
                 PROVE  MessageOf(by, m.item, m.rcpt, shape.server, day) \in B
      OBVIOUS
    <2>1. PICK i, k : Planned(m, 0, shape, plan, 0, i, k)
      BY InMessages
    <2>2. m.item = i /\ m.rcpt = k
      BY <2>1 DEF MessageOf, Planned
    <2>3. Planned(MessageOf(by, i, k, shape.server, day), by, shape, plan, day, i, k)
      BY <2>1 DEF Planned
    <2> QED BY <2>2, <2>3, InMessages
  <1>2. \A b \in B : \E m \in A : f[m] = b
    <2> SUFFICES ASSUME NEW b \in B
                 PROVE  \E m \in A : f[m] = b
      OBVIOUS
    <2>1. PICK i, k : Planned(b, by, shape, plan, day, i, k)
      BY InMessages
    <2>a. Planned(MessageOf(0, i, k, shape.server, 0), 0, shape, plan, 0, i, k)
      BY <2>1 DEF Planned
    <2>2. MessageOf(0, i, k, shape.server, 0) \in A
      BY <2>a, InMessages
    <2>b. b = MessageOf(by, i, k, shape.server, day)
      BY <2>1 DEF Planned
    <2>3. /\ MessageOf(0, i, k, shape.server, 0).item = i
          /\ MessageOf(0, i, k, shape.server, 0).rcpt = k
      BY DEF MessageOf
    <2> QED BY <2>2, <2>3, <2>b
  <1> HIDE DEF A, B
  <1>3. f \in Surjection(A, B)
    BY <1>1, <1>2 DEF Surjection
  <1> HIDE DEF f
  <1>4. Cardinality(B) <= Cardinality(A)
    BY <1>3, FS_Surjection DEF A
  <1> QED BY <1>4 DEF A, B

(* A plan, as far as it goes, has no more recipients than the request.     *)
LEMMA PlanBounded ==
    ASSUME scene \in Scenes, NEW shape \in Shapes, NEW plan \in Seq(BOOLEAN),
           Len(plan) <= Len(shape.items)
    PROVE  /\ IsFiniteSet(MessagesOf(0, shape, plan, 0))
           /\ Cardinality(MessagesOf(0, shape, plan, 0)) \in 0..Largest
  <1> DEFINE n   == Len(shape.items)
             all == [i \in 1..n |-> TRUE]
             A   == MessagesOf(0, shape, plan, 0)
  <1>1. n \in Nat /\ Len(plan) \in Nat /\ Len(plan) <= n
    BY ShapeTyped
  <1>2. A \subseteq Recipients(shape)
    <2> HIDE DEF n
    <2>1. Len(all) = n /\ \A i \in 1..n : all[i]
      BY <1>1
    <2>2. 1..Len(plan) \subseteq 1..n
      BY <1>1
    <2>3. Recipients(shape) = MessagesOf(0, shape, all, 0)
      BY DEF Recipients, n
    <2> HIDE DEF all
    <2> SUFFICES ASSUME NEW m \in A
                 PROVE  m \in MessagesOf(0, shape, all, 0)
      BY <2>3
    <2>4. PICK i, k : Planned(m, 0, shape, plan, 0, i, k)
      BY InMessages
    <2>5. i \in 1..Len(all) /\ all[i]
      BY <2>1, <2>2, <2>4 DEF Planned
    <2>6. Planned(m, 0, shape, all, 0, i, k)
      BY <2>4, <2>5 DEF Planned
    <2> QED BY <2>6, InMessages
  <1>3. /\ IsFiniteSet(Recipients(shape)) /\ Cardinality(Recipients(shape)) \in Nat
        /\ Cardinality(Recipients(shape)) <= Largest /\ Largest \in Nat
    BY LargestTyped
  <1> HIDE DEF A
  <1>4. /\ IsFiniteSet(A) /\ Cardinality(A) \in Nat
        /\ Cardinality(A) <= Cardinality(Recipients(shape))
    BY <1>2, <1>3, FS_Subset, FS_CardinalityType
  <1>5. Cardinality(A) \in 0..Largest
    BY <1>3, <1>4
  <1> QED BY <1>4, <1>5 DEF A

(* An item that is accepted adds its recipients, one refused adds none.    *)
LEMMA PlanGrows ==
    ASSUME scene \in Scenes, NEW shape \in Shapes, NEW plan \in Seq(BOOLEAN),
           Len(plan) < Len(shape.items), NEW v \in BOOLEAN
    PROVE  /\ shape.items[Len(plan) + 1].n \in Nat
           /\ Cardinality(MessagesOf(0, shape, Append(plan, v), 0))
                = Cardinality(MessagesOf(0, shape, plan, 0))
                    + (IF v THEN shape.items[Len(plan) + 1].n ELSE 0)
  <1> DEFINE l    == Len(plan) + 1
             n    == shape.items[l].n
             longer == Append(plan, v)
             M(k) == MessageOf(0, l, k, shape.server, 0)
             A    == MessagesOf(0, shape, plan, 0)
             B    == MessagesOf(0, shape, longer, 0)
             I    == 1..n
             f    == [k \in I |-> M(k)]
             New  == {f[k] : k \in I}
  <1>1. shape.items \in Seq([n : Nat, valid : BOOLEAN])
    BY ShapeTyped
  <1>2. l \in 1..Len(shape.items) /\ Len(plan) \in Nat /\ l = Len(plan) + 1
    BY <1>1
  <1>3. n \in Nat
    <2>1. shape.items[l] \in [n : Nat, valid : BOOLEAN]
      BY <1>1, <1>2, ElementTyped
    <2> QED BY <2>1
  <1>4. /\ Len(longer) = l /\ longer[l] = v
        /\ \A i \in 1..Len(plan) : longer[i] = plan[i]
        /\ 1..l = 1..Len(plan) \union {l} /\ l \notin 1..Len(plan)
    BY <1>2
  <1> HIDE DEF l, n, longer
  <1>5. B = A \union (IF v THEN New ELSE {})
    <2>1. \A m : m \in B <=> m \in A \/ (v /\ \E k \in I : m = M(k))
      <3> SUFFICES ASSUME NEW m
                   PROVE  m \in B <=> m \in A \/ (v /\ \E k \in I : m = M(k))
        OBVIOUS
      <3> DEFINE P(i) == \E k \in 1..shape.items[i].n : m = MessageOf(0, i, k, shape.server, 0)
      <3>1. m \in B <=> \E i \in 1..Len(longer) : longer[i] /\ P(i)
        <4>1. m \in B <=> \E i, k : Planned(m, 0, shape, longer, 0, i, k)
          BY InMessages
        <4> HIDE DEF B
        <4> QED BY <4>1 DEF Planned
      <3>2. m \in A <=> \E i \in 1..Len(plan) : plan[i] /\ P(i)
        <4>1. m \in A <=> \E i, k : Planned(m, 0, shape, plan, 0, i, k)
          BY InMessages
        <4> HIDE DEF A
        <4> QED BY <4>1 DEF Planned
      <3>3. P(l) <=> \E k \in I : m = M(k)
        BY DEF n
      <3> HIDE DEF P
      <3> QED BY <1>4, <3>1, <3>2, <3>3
    <2>2. \A m : m \in New <=> \E k \in I : m = M(k)
      OBVIOUS
    <2> HIDE DEF New, A, B, M, I
    <2> QED BY <2>1, <2>2
  <1>6. A \intersect New = {}
    <2> SUFFICES ASSUME NEW k \in I, M(k) \in A
                 PROVE  FALSE
      OBVIOUS
    <2>1. PICK i, j : Planned(M(k), 0, shape, plan, 0, i, j)
      BY InMessages
    <2>2. i = l /\ i \in 1..Len(plan)
      BY <2>1 DEF MessageOf, Planned
    <2> QED BY <1>4, <2>2
  <1>7. IsFiniteSet(I) /\ Cardinality(I) = n
    BY <1>3, Counting
  <1>8. IsFiniteSet(New) /\ Cardinality(New) = n
    <2>1. \A j, k \in I : M(j) = M(k) => j = k
      BY DEF MessageOf
    <2> HIDE DEF M, I
    <2>2. f \in Surjection(I, New) /\ f \in Injection(I, New)
      BY <2>1 DEF Surjection, Injection, IsInjective
    <2> HIDE DEF f, New
    <2> QED BY <1>7, <2>2, FS_Surjection
  <1>9. IsFiniteSet(A) /\ Cardinality(A) \in Nat
    BY <1>2, <1>4, PlanBounded DEF l
  <1> HIDE DEF A, B, New
  <1>10. CASE v
    <2>1. Cardinality(B) = Cardinality(A) + n
      BY <1>5, <1>6, <1>8, <1>9, <1>10, CountAdded
    <2> QED BY <1>3, <1>10, <2>1 DEF A, B, longer, n, l
  <1>11. CASE ~v
    <2>1. B = A
      BY <1>5, <1>11
    <2>2. Cardinality(B) = Cardinality(A) + 0
      BY <1>9, <2>1
    <2> QED BY <1>3, <1>11, <2>2 DEF A, B, longer, n, l
  <1> QED BY <1>10, <1>11

(***************************************************************************)
(* What a request in flight may still store                                *)
(***************************************************************************)
(* A gate has been read, and the item at hand will pass it. *)
OrgRead(x) == x.pc = "decide" \/ (x.pc = "serverUsage" /\ x.shape.op # "smtp")
SrvRead(x) == x.pc = "decide" \/ (x.pc \in {"policy", "orgUsage"} /\ x.shape.op = "smtp")

Needed(x) == x.shape.items[Len(x.plan) + 1].n
Passes(x, used, limit) == used + x.pending + Needed(x) <= limit

(* The recipients accepted, with those of the item that will be; SMTP      *)
(* without a key stores one by one.                                        *)
Charge(x, passes) ==
    IF x.pc \in {"reconcile", "raced"} THEN 0
    ELSE IF passes THEN x.pending + Needed(x)
    ELSE IF x.pc = "store" THEN (IF x.next <= x.pending THEN x.pending + 1 - x.next ELSE 0)
    ELSE x.pending

(* On day d, in month m: a transaction counts in the month it began.       *)
OrgCharge(x, m, d, limit) ==
    IF x.pc = "idle" THEN 0
    ELSE IF x.pc = "insert" THEN (IF MonthOf(x.day) = m THEN x.pending ELSE 0)
    ELSE IF m < MonthOf(d) THEN 0
    ELSE Charge(x, OrgRead(x) /\ Passes(x, x.orgUsed, limit))

SrvCharge(x, s, limit) ==
    IF x.pc = "idle" THEN 0
    ELSE IF x.shape.server # s THEN 0
    ELSE Charge(x, SrvRead(x) /\ Passes(x, x.srvUsed, limit))

(* What a request knows: its pending recipients are those of its plan.     *)
AskOK(x) ==
    /\ x.pending \in Nat /\ x.orgUsed \in Nat /\ x.srvUsed \in Nat
    /\ x.pending = Cardinality(MessagesOf(0, x.shape, x.plan, 0))
    /\ x.pc = "store" => /\ x.next \in Nat \ {0} /\ x.shape.items[1].n = x.pending
                         /\ Len(x.plan) = 1
    /\ x.pc # "store" => x.next = 1
    /\ x.pc \in {"rcpt", "server"} => x.shape.op = "smtp"
    /\ x.pc = "lookup" => x.shape.op # "smtp"

(* The limit is the first one, and no gate has been opened by a policy     *)
(* that could not be read.                                                 *)
Calm == /\ history.changes = 0 /\ FirstLimit # Unlimited
        /\ "policy" \notin Faults \/ history.faults = 0

PolicyRead(x) == x.pc \in {"orgUsage", "decide"} \/ (x.pc = "serverUsage" /\ x.shape.op # "smtp")
LimitKnown(x, calm) == PolicyRead(x) => /\ x.limit \in Nat \union {Unlimited}
                                        /\ calm => x.limit = FirstLimit

(* The policies administrators write. *)
Policies == [suspended : BOOLEAN, limit : Nat \union {Unlimited}]
PoliciesTyped == /\ policy \in Policies
                 /\ \A a \in Admins : admin[a].pc = "write" => admin[a].policy \in Policies

(* A call whose gates were open owes nothing, and what it stores does not  *)
(* count.                                                                  *)
Opened(x) == x.by \in history.opened

OrgOwes(x, m) == IF Opened(x) THEN 0 ELSE OrgCharge(x, m, today, FirstLimit)
SrvOwes(x, s) == IF Opened(x) THEN 0 ELSE SrvCharge(x, s, ServerLimit[s])

OrgCount(m) == Cardinality({x \in Gated : MonthOf(x.day) = m})
SrvCount(s) == Cardinality({x \in Gated : x.server = s /\ x.day > today - Window})
OrgOwed(m)  == [c \in Clients |-> OrgOwes(call[c], m)]
SrvOwed(s)  == [c \in Clients |-> SrvOwes(call[c], s)]

OrgHeld == \A m \in Months : Held(OrgCount(m), OrgOwed(m), FirstLimit)
SrvHeld == \A s \in Servers : ServerLimit[s] # Unlimited =>
              Held(SrvCount(s), SrvOwed(s), ServerLimit[s])

GateInv ==
    /\ UsageInv
    /\ PoliciesTyped
    /\ history.faults \in Nat
    /\ \A c \in Clients : Serving(c) => AskOK(call[c]) /\ LimitKnown(call[c], Calm)
    /\ Calm => OrgHeld
    /\ SrvHeld

(* The limits, where there are any. *)
LEMMA LimitTyped ==
    ASSUME scene \in Scenes
    PROVE  /\ FirstLimit # Unlimited => FirstLimit \in Nat /\ FirstLimit <= Full
           /\ \A s \in Servers : ServerLimit[s] # Unlimited =>
                 ServerLimit[s] \in Nat /\ ServerLimit[s] <= Full
  <1>1. FirstLimit # Unlimited => FirstLimit \in Nat /\ FirstLimit <= Full
    BY SubmissionAssumption, GateAssumption DEF FirstLimit
  <1>2. \A s \in Servers : ServerLimit[s] # Unlimited => ServerLimit[s] \in 0..Full
    BY GateAssumption DEF Servers, ServerLimit
  <1>3. Full \in Nat
    BY DEF Full
  <1> HIDE DEF Full
  <1> QED BY <1>1, <1>2, <1>3

(* Of CallOK, what the charges need. *)
Fits(x) ==
    /\ x.shape \in Shapes /\ x.plan \in Seq(BOOLEAN) /\ Len(x.plan) <= Len(x.shape.items)
    /\ x.pc \in Gates => Len(x.plan) < Len(x.shape.items)

(* The item at hand, too, is one of the request's. *)
LEMMA ChargeTyped ==
    ASSUME scene \in Scenes, NEW x, Fits(x), AskOK(x), NEW p, p => x.pc \in Gates
    PROVE  /\ Charge(x, p) \in 0..Largest
           /\ x.pending \in 0..Largest
           /\ x.pc \in Gates => Needed(x) \in Nat /\ x.pending + Needed(x) \in 0..Largest
  <1>1. /\ x.shape \in Shapes /\ x.plan \in Seq(BOOLEAN) /\ Len(x.plan) <= Len(x.shape.items)
        /\ x.pc \in Gates => Len(x.plan) < Len(x.shape.items)
    BY DEF Fits
  <1>2. x.pending \in 0..Largest /\ Largest \in Nat
    BY <1>1, PlanBounded, LargestTyped DEF AskOK
  <1>3. ASSUME x.pc \in Gates
        PROVE  Needed(x) \in Nat /\ x.pending + Needed(x) \in 0..Largest
    <2> DEFINE longer == Append(x.plan, TRUE)
               a == Cardinality(MessagesOf(0, x.shape, longer, 0))
    <2>1. Needed(x) \in Nat /\ a = x.pending + Needed(x)
      BY <1>1, <1>3, PlanGrows DEF AskOK, Needed
    <2>2. longer \in Seq(BOOLEAN) /\ Len(longer) = Len(x.plan) + 1
      BY <1>1, Appended
    <2>3. Len(x.plan) \in Nat /\ Len(x.shape.items) \in Nat /\ Len(x.plan) < Len(x.shape.items)
      BY <1>1, <1>3, ShapeTyped
    <2> HIDE DEF longer
    <2>4. Len(longer) <= Len(x.shape.items)
      BY <2>2, <2>3
    <2>5. a \in 0..Largest
      BY <1>1, <2>2, <2>4, PlanBounded
    <2> QED BY <2>1, <2>5
  <1>4. Charge(x, p) \in 0..Largest
    <2>1. CASE x.pc \in {"reconcile", "raced"}
      BY <1>2, <2>1 DEF Charge
    <2>2. CASE x.pc \notin {"reconcile", "raced"} /\ p
      BY <1>3, <2>2 DEF Charge
    <2>3. CASE x.pc \notin {"reconcile", "raced"} /\ ~p /\ x.pc = "store"
      <3>1. x.next \in Nat \ {0}
        BY <2>3 DEF AskOK
      <3>2. (IF x.next <= x.pending THEN x.pending + 1 - x.next ELSE 0) \in 0..Largest
        BY <1>2, <3>1
      <3> QED BY <2>3, <3>2 DEF Charge
    <2>4. CASE x.pc \notin {"reconcile", "raced"} /\ ~p /\ x.pc # "store"
      BY <1>2, <2>4 DEF Charge
    <2> QED BY <2>1, <2>2, <2>3, <2>4
  <1> QED BY <1>2, <1>3, <1>4

LEMMA OrgChargeTyped ==
    ASSUME scene \in Scenes, NEW x, x.pc # "idle" => Fits(x) /\ AskOK(x), NEW m, NEW d, NEW limit
    PROVE  OrgCharge(x, m, d, limit) \in 0..Largest
  <1> DEFINE p == OrgRead(x) /\ Passes(x, x.orgUsed, limit)
  <1>1. 0 \in 0..Largest
    BY LargestTyped
  <1>2. CASE x.pc = "idle"
    BY <1>1, <1>2 DEF OrgCharge
  <1>3. CASE x.pc # "idle"
    <2>1. Fits(x) /\ AskOK(x)
      BY <1>3
    <2>2. p => x.pc \in Gates
      BY DEF OrgRead, Gates
    <2> HIDE DEF p
    <2>3. Charge(x, p) \in 0..Largest /\ x.pending \in 0..Largest
      BY <2>1, <2>2, ChargeTyped
    <2> QED BY <1>1, <1>3, <2>3 DEF OrgCharge, p
  <1> QED BY <1>2, <1>3

LEMMA SrvChargeTyped ==
    ASSUME scene \in Scenes, NEW x, x.pc # "idle" => Fits(x) /\ AskOK(x), NEW s, NEW limit
    PROVE  SrvCharge(x, s, limit) \in 0..Largest
  <1> DEFINE p == SrvRead(x) /\ Passes(x, x.srvUsed, limit)
  <1>1. 0 \in 0..Largest
    BY LargestTyped
  <1>2. CASE x.pc = "idle"
    BY <1>1, <1>2 DEF SrvCharge
  <1>3. CASE x.pc # "idle"
    <2>1. Fits(x) /\ AskOK(x)
      BY <1>3
    <2>2. p => x.pc \in Gates
      BY DEF SrvRead, Gates
    <2> HIDE DEF p
    <2>3. Charge(x, p) \in 0..Largest
      BY <2>1, <2>2, ChargeTyped
    <2> QED BY <1>1, <1>3, <2>3 DEF SrvCharge, p
  <1> QED BY <1>2, <1>3

(***************************************************************************)
(* Steps of one client, and the gates                                      *)
(***************************************************************************)
LEMMA CountTyped ==
    ASSUME Counted, NEW m, NEW s
    PROVE  OrgCount(m) \in Nat /\ SrvCount(s) \in Nat
  BY FS_Subset, FS_CardinalityType DEF Counted, OrgCount, SrvCount, Gated

(* The gates stand as they did, and the calm is no calmer. *)
Steady == /\ history'.faults \in Nat /\ history'.opened = history.opened
          /\ Calm' => Calm

(* The same call, or a new one. *)
Follows(c, y) == y.pc # "idle" /\ call[c].pc # "idle" => y.by = call[c].by

LEMMA OwesTyped ==
    ASSUME scene \in Scenes, NEW x, x.pc # "idle" => Fits(x) /\ AskOK(x), NEW m, NEW s
    PROVE  OrgOwes(x, m) \in 0..Largest /\ SrvOwes(x, s) \in 0..Largest
  BY OrgChargeTyped, SrvChargeTyped, LargestTyped DEF OrgOwes, SrvOwes

LEMMA LargestStays ==
    ASSUME scene' = scene
    PROVE  Largest' = Largest /\ Slack' = Slack
  BY DEF Largest, Slack, Shapes

LEMMA HeldStays ==
    ASSUME scene' = scene, NEW sent, NEW W, NEW limit, Held(sent, W, limit)
    PROVE  sent + Cardinality({p \in Clients \X (1..Largest') : p[2] <= W[p[1]]})
              <= limit + Slack'
  BY LargestStays DEF Held, Debt

LEMMA CallsFit ==
    ASSUME Inv, NEW c \in Clients, call[c].pc # "idle"
    PROVE  Fits(call[c])
  BY Served DEF Inv, CallOK, Fits

(* Client c sends no more than it stops to owe, or passes the gate. *)
OrgMoves(c, y) ==
    \A m \in Months :
        LET W == OrgOwes(y, m)
        IN  \/ OrgCount(m)' + W <= OrgCount(m) + OrgOwes(call[c], m)
            \/ OrgCount(m)' + W <= FirstLimit

SrvMoves(c, y) ==
    \A s \in Servers : ServerLimit[s] # Unlimited =>
        LET W == SrvOwes(y, s)
        IN  \/ SrvCount(s)' + W <= SrvCount(s) + SrvOwes(call[c], s)
            \/ SrvCount(s)' + W <= ServerLimit[s]

LEMMA ClientGates ==
    ASSUME GateInv, UsageInv', PoliciesTyped', NEW c \in Clients, NEW y, call' = [call EXCEPT ![c] = y],
           UNCHANGED <<scene, today>>, Steady,
           y.pc # "idle" => AskOK(y) /\ LimitKnown(y, Calm'),
           Calm' => OrgMoves(c, y), SrvMoves(c, y)
    PROVE  GateInv'
  <1>1. /\ call' = [d \in Clients |-> call'[d]]
        /\ \A d \in Clients : call'[d] = IF d = c THEN y ELSE call[d]
    BY ClientStep DEF GateInv, UsageInv, Inv
  <1>2. /\ Days' = Days /\ Shapes' = Shapes /\ Servers' = Servers /\ Months' = Months
        /\ FirstLimit' = FirstLimit /\ ServerLimit' = ServerLimit /\ scene \in Scenes
    BY SceneStays DEF FirstLimit, ServerLimit, GateInv, UsageInv, Inv, TypeOK
  <1>3. y.pc # "idle" => Fits(y)
    <2>1. Serving(c)' => CallOK(call[c])'
      BY DEF UsageInv, Inv, TypeOK
    <2>2. y.pc # "idle" => CallOK(y)'
      BY <1>1, <2>1 DEF Serving
    <2> QED BY <1>2, <2>2 DEF CallOK, Fits
  <1>4. \A d \in Clients : call[d].pc # "idle" => Fits(call[d]) /\ AskOK(call[d])
    BY CallsFit DEF GateInv, UsageInv, Serving
  <1>0. (\A m : OrgCount(m) \in Nat)' /\ (\A z : SrvCount(z) \in Nat)'
    BY FS_Subset, FS_CardinalityType DEF UsageInv, Counted, OrgCount, SrvCount, Gated
  <1>5. \A d \in Clients : (Serving(d) => AskOK(call[d]) /\ LimitKnown(call[d], Calm))'
    BY <1>1, <1>2 DEF GateInv, Serving, LimitKnown, AskOK, Steady
  <1>6. ASSUME Calm', NEW m \in Months
        PROVE  Held(OrgCount(m), OrgOwed(m), FirstLimit)'
    <2> DEFINE V == [d \in Clients |-> OrgOwes(call[d], m)]
               W == [d \in Clients |-> OrgOwes(call'[d], m)]
               s == OrgCount(m)
               t == OrgCount(m)'
               l == FirstLimit
    <2>1. Held(s, V, l)
      BY <1>6 DEF GateInv, OrgHeld, OrgOwed, Steady
    <2>2. W[c] = OrgOwes(y, m) /\ \A d \in Clients \ {c} : W[d] = V[d]
      BY <1>1
    <2>3. V[c] \in 0..Largest /\ W[c] \in 0..Largest
      <3>1. OrgOwes(call[c], m) \in 0..Largest
        BY <1>2, <1>4, OwesTyped
      <3>2. OrgOwes(y, m) \in 0..Largest
        BY <1>2, <1>3, OwesTyped
      <3> QED BY <2>2, <3>1, <3>2
    <2>4. t + W[c] <= s + V[c] \/ t + W[c] <= l
      BY <1>6, <2>2 DEF OrgMoves
    <2>5. s \in Nat /\ l \in Nat
      BY <1>2, <1>6, CountTyped, LimitTyped DEF GateInv, UsageInv, Calm, Steady
    <2>6. t \in Nat
      BY <1>0
    <2> HIDE DEF V, W, s, t, l
    <2>7. Held(t, W, l)
      BY <1>2, <2>1, <2>2, <2>3, <2>4, <2>5, <2>6, HeldByOne
    <2>8. t + Cardinality({p \in Clients \X (1..Largest') : p[2] <= W[p[1]]}) <= l + Slack'
      BY <2>7, HeldStays
    <2>9. OrgOwed(m)' = W /\ FirstLimit' = l
      BY <1>2 DEF OrgOwed, OrgOwes, Opened, Steady, W, l
    <2> QED BY <2>8, <2>9 DEF Held, Debt, t
  <1>7. ASSUME NEW z \in Servers, ServerLimit[z] # Unlimited
        PROVE  Held(SrvCount(z), SrvOwed(z), ServerLimit[z])'
    <2> DEFINE l == ServerLimit[z]
               V == [d \in Clients |-> SrvOwes(call[d], z)]
               W == [d \in Clients |-> SrvOwes(call'[d], z)]
               s == SrvCount(z)
               t == SrvCount(z)'
    <2>1. Held(s, V, l)
      BY <1>7 DEF GateInv, SrvHeld, SrvOwed
    <2>2. W[c] = SrvOwes(y, z) /\ \A d \in Clients \ {c} : W[d] = V[d]
      BY <1>1
    <2>3. V[c] \in 0..Largest /\ W[c] \in 0..Largest
      <3>1. SrvOwes(call[c], z) \in 0..Largest
        BY <1>2, <1>4, OwesTyped
      <3>2. SrvOwes(y, z) \in 0..Largest
        BY <1>2, <1>3, OwesTyped
      <3> QED BY <2>2, <3>1, <3>2
    <2>4. t + W[c] <= s + V[c] \/ t + W[c] <= l
      BY <1>7, <2>2 DEF SrvMoves
    <2>5. s \in Nat /\ l \in Nat
      BY <1>2, <1>7, CountTyped, LimitTyped DEF GateInv, UsageInv
    <2>6. t \in Nat
      BY <1>0
    <2>9. SrvOwed(z)' = W /\ (ServerLimit[z])' = l
      BY <1>2 DEF SrvOwed, SrvOwes, Opened, Steady
    <2> HIDE DEF V, W, s, t, l
    <2>7. Held(t, W, l)
      BY <1>2, <2>1, <2>2, <2>3, <2>4, <2>5, <2>6, HeldByOne
    <2>8. t + Cardinality({p \in Clients \X (1..Largest') : p[2] <= W[p[1]]}) <= l + Slack'
      BY <2>7, HeldStays
    <2> QED BY <2>8, <2>9 DEF Held, Debt, t
  <1> QED BY <1>2, <1>5, <1>6, <1>7 DEF GateInv, OrgHeld, SrvHeld, Steady

(* A step that stores nothing: the charges may fall, or pass a gate.       *)
LEMMA QuietGates ==
    ASSUME GateInv, UsageInv', PoliciesTyped', NEW c \in Clients, NEW y, call' = [call EXCEPT ![c] = y],
           UNCHANGED <<scene, today, messages>>, Steady, Follows(c, y),
           y.pc # "idle" => AskOK(y) /\ LimitKnown(y, Calm'),
           Calm' => \A m \in Months :
              LET W == OrgCharge(y, m, today, FirstLimit)
              IN  W <= OrgCharge(call[c], m, today, FirstLimit) \/ OrgCount(m) + W <= FirstLimit,
           \A s \in Servers : ServerLimit[s] # Unlimited =>
              LET W == SrvCharge(y, s, ServerLimit[s])
              IN  W <= SrvCharge(call[c], s, ServerLimit[s]) \/ SrvCount(s) + W <= ServerLimit[s]
    PROVE  GateInv'
  <1>1. /\ \A m : OrgCount(m)' = OrgCount(m)
        /\ \A s : SrvCount(s)' = SrvCount(s)
    BY DEF OrgCount, SrvCount, Gated, Steady
  <1>2. /\ scene \in Scenes /\ Shapes' = Shapes
        /\ \A d \in Clients : call[d].pc # "idle" => Fits(call[d]) /\ AskOK(call[d])
    BY CallsFit, SceneStays DEF GateInv, UsageInv, Serving, Inv, TypeOK
  <1>3. y.pc # "idle" => Fits(y)
    <2>1. call'[c] = y
      BY ClientStep DEF GateInv, UsageInv, Inv
    <2>2. y.pc # "idle" => CallOK(y)'
      BY <2>1 DEF Serving, UsageInv, Inv, TypeOK
    <2> QED BY <1>2, <2>2 DEF CallOK, Fits
  <1>4. ASSUME NEW a \in 0..Largest, NEW b \in 0..Largest, NEW n \in Nat, a <= b
        PROVE  n + a <= n + b
    BY <1>2, <1>4, LargestTyped
  <1>5. Calm' => OrgMoves(c, y)
    <2> SUFFICES ASSUME Calm', NEW m \in Months
                 PROVE  \/ OrgCount(m) + OrgOwes(y, m) <= OrgCount(m) + OrgOwes(call[c], m)
                        \/ OrgCount(m) + OrgOwes(y, m) <= FirstLimit
      BY <1>1 DEF OrgMoves
    <2> DEFINE V == OrgCharge(call[c], m, today, FirstLimit)
               W == OrgCharge(y, m, today, FirstLimit)
               n == OrgCount(m)
    <2>1. /\ V \in 0..Largest /\ W \in 0..Largest /\ n \in Nat
          /\ call[c].pc = "idle" => V = 0
          /\ y.pc = "idle" => W = 0
      <3>1. call[c].pc = "idle" => V = 0
        BY DEF OrgCharge
      <3>2. y.pc = "idle" => W = 0
        BY DEF OrgCharge
      <3> QED BY <1>2, <1>3, <3>1, <3>2, OrgChargeTyped, CountTyped DEF GateInv, UsageInv
    <2>2. /\ OrgOwes(call[c], m) = IF Opened(call[c]) THEN 0 ELSE V
          /\ OrgOwes(y, m) = IF Opened(y) THEN 0 ELSE W
      BY DEF OrgOwes
    <2>3. W <= V \/ n + W <= FirstLimit
      OBVIOUS
    <2> HIDE DEF V, W, n
    <2>4. n + W <= n + V \/ n + W <= FirstLimit
      BY <1>4, <2>1, <2>3
    <2>5. OrgOwes(y, m) \in {0, W} /\ n + 0 <= n + 0 /\ n + 0 <= n + W /\ n + 0 <= n + V
      BY <1>2, <2>1, <2>2, LargestTyped
    <2>6. CASE Opened(call[c]) /\ call[c].pc # "idle" /\ y.pc # "idle"
      <3>1. Opened(y)
        BY <2>6 DEF Follows, Opened
      <3> QED BY <2>2, <2>5, <2>6, <3>1 DEF n
    <2>7. CASE y.pc = "idle"
      <3>1. OrgOwes(y, m) = 0 /\ OrgOwes(call[c], m) \in {0, V}
        BY <2>1, <2>2, <2>7
      <3> QED BY <2>5, <3>1 DEF n
    <2>8. CASE ~Opened(call[c]) \/ call[c].pc = "idle"
      <3>1. OrgOwes(call[c], m) = V
        BY <2>1, <2>2, <2>8
      <3>2. CASE OrgOwes(y, m) = W
        BY <2>4, <3>1, <3>2 DEF n
      <3>3. CASE OrgOwes(y, m) = 0
        BY <2>5, <3>1, <3>3 DEF n
      <3> QED BY <2>5, <3>2, <3>3
    <2> QED BY <2>6, <2>7, <2>8
  <1>6. SrvMoves(c, y)
    <2> SUFFICES ASSUME NEW s \in Servers, ServerLimit[s] # Unlimited
                 PROVE  \/ SrvCount(s) + SrvOwes(y, s) <= SrvCount(s) + SrvOwes(call[c], s)
                        \/ SrvCount(s) + SrvOwes(y, s) <= ServerLimit[s]
      BY <1>1 DEF SrvMoves
    <2> DEFINE V == SrvCharge(call[c], s, ServerLimit[s])
               W == SrvCharge(y, s, ServerLimit[s])
               n == SrvCount(s)
    <2>1. /\ V \in 0..Largest /\ W \in 0..Largest /\ n \in Nat
          /\ call[c].pc = "idle" => V = 0
          /\ y.pc = "idle" => W = 0
      <3>1. call[c].pc = "idle" => V = 0
        BY DEF SrvCharge
      <3>2. y.pc = "idle" => W = 0
        BY DEF SrvCharge
      <3> QED BY <1>2, <1>3, <3>1, <3>2, SrvChargeTyped, CountTyped DEF GateInv, UsageInv
    <2>2. /\ SrvOwes(call[c], s) = IF Opened(call[c]) THEN 0 ELSE V
          /\ SrvOwes(y, s) = IF Opened(y) THEN 0 ELSE W
      BY DEF SrvOwes
    <2>3. W <= V \/ n + W <= ServerLimit[s]
      OBVIOUS
    <2> HIDE DEF V, W, n
    <2>4. n + W <= n + V \/ n + W <= ServerLimit[s]
      BY <1>4, <2>1, <2>3
    <2>5. SrvOwes(y, s) \in {0, W} /\ n + 0 <= n + 0 /\ n + 0 <= n + W /\ n + 0 <= n + V
      BY <1>2, <2>1, <2>2, LargestTyped
    <2>6. CASE Opened(call[c]) /\ call[c].pc # "idle" /\ y.pc # "idle"
      <3>1. Opened(y)
        BY <2>6 DEF Follows, Opened
      <3> QED BY <2>2, <2>5, <2>6, <3>1 DEF n
    <2>7. CASE y.pc = "idle"
      <3>1. SrvOwes(y, s) = 0 /\ SrvOwes(call[c], s) \in {0, V}
        BY <2>1, <2>2, <2>7
      <3> QED BY <2>5, <3>1 DEF n
    <2>8. CASE ~Opened(call[c]) \/ call[c].pc = "idle"
      <3>1. SrvOwes(call[c], s) = V
        BY <2>1, <2>2, <2>8
      <3>2. CASE SrvOwes(y, s) = W
        BY <2>4, <3>1, <3>2 DEF n
      <3>3. CASE SrvOwes(y, s) = 0
        BY <2>5, <3>1, <3>3 DEF n
      <3> QED BY <2>5, <3>2, <3>3
    <2> QED BY <2>6, <2>7, <2>8
  <1> QED BY <1>5, <1>6, ClientGates

(* A request that is answered owes nothing. *)
LEMMA AnsweredGates ==
    ASSUME GateInv, UsageInv', PoliciesTyped', NEW c \in Clients, call' = [call EXCEPT ![c] = Idle],
           UNCHANGED <<scene, today, messages>>, Steady
    PROVE  GateInv'
  <1>1. Idle.pc = "idle" /\ Follows(c, Idle)
    BY DEF Idle, Follows
  <1>2. /\ \A m : OrgCharge(Idle, m, today, FirstLimit) = 0
        /\ \A s : SrvCharge(Idle, s, ServerLimit[s]) = 0
    BY <1>1 DEF OrgCharge, SrvCharge
  <1>3. scene \in Scenes /\ \A d \in Clients : call[d].pc # "idle" => Fits(call[d]) /\ AskOK(call[d])
    BY CallsFit DEF GateInv, UsageInv, Serving, Inv, TypeOK
  <1>4. \A n \in 0..Largest : 0 <= n
    BY <1>3, LargestTyped
  <1>5. \A m, s : /\ OrgCharge(call[c], m, today, FirstLimit) \in 0..Largest
                  /\ SrvCharge(call[c], s, ServerLimit[s]) \in 0..Largest
    BY <1>3, OrgChargeTyped, SrvChargeTyped
  <1> QED BY <1>1, <1>2, <1>4, <1>5, QuietGates

(***************************************************************************)
(* What a request owes before and after a step                             *)
(***************************************************************************)
(* Where a request owes the recipients it has accepted. *)
Plain == {"rcpt", "server", "lookup", "policy", "orgUsage", "serverUsage", "decide", "begin"}

LEMMA Owes ==
    ASSUME NEW x, x.pc \in Plain, NEW m, NEW s, NEW d, NEW limit
    PROVE  /\ OrgCharge(x, m, d, limit) =
                 IF m < MonthOf(d) THEN 0
                 ELSE IF OrgRead(x) /\ Passes(x, x.orgUsed, limit) THEN x.pending + Needed(x)
                 ELSE x.pending
           /\ SrvCharge(x, s, limit) =
                 IF x.shape.server # s THEN 0
                 ELSE IF SrvRead(x) /\ Passes(x, x.srvUsed, limit) THEN x.pending + Needed(x)
                 ELSE x.pending
  <1> DEFINE p == OrgRead(x) /\ Passes(x, x.orgUsed, limit)
             q == SrvRead(x) /\ Passes(x, x.srvUsed, limit)
  <1>1. /\ Charge(x, p) = IF p THEN x.pending + Needed(x) ELSE x.pending
        /\ Charge(x, q) = IF q THEN x.pending + Needed(x) ELSE x.pending
    BY DEF Charge, Plain
  <1>2. x.pc \notin {"idle", "insert"}
    BY DEF Plain
  <1> HIDE DEF p, q
  <1>3. OrgCharge(x, m, d, limit) = IF m < MonthOf(d) THEN 0 ELSE Charge(x, p)
    BY <1>2 DEF OrgCharge, p
  <1>4. SrvCharge(x, s, limit) = IF x.shape.server # s THEN 0 ELSE Charge(x, q)
    BY <1>2 DEF SrvCharge, q
  <1> QED BY <1>1, <1>3, <1>4 DEF p, q

(* The gate read last is shut, or not read yet: the request owes no more.  *)
LEMMA OrgFalls ==
    ASSUME scene \in Scenes, NEW x, Fits(x), AskOK(x), x.pc \in Plain,
           NEW y, y.pc \in Plain \union {"reconcile", "insert"}, ~OrgRead(y),
           y.pending = x.pending, NEW m \in Int, NEW d, MonthOf(d) \in Int,
           y.pc = "insert" => y.day = d, NEW limit
    PROVE  OrgCharge(y, m, d, limit) <= OrgCharge(x, m, d, limit)
  <1> DEFINE W == OrgCharge(y, m, d, limit)
             V == OrgCharge(x, m, d, limit)
             p == x.pending
  <1>1. p \in Nat /\ (OrgRead(x) => Needed(x) \in Nat)
    BY ChargeTyped DEF AskOK, OrgRead, Gates
  <1>2. V = IF m < MonthOf(d) THEN 0
            ELSE IF OrgRead(x) /\ Passes(x, x.orgUsed, limit) THEN p + Needed(x) ELSE p
    BY Owes
  <1>3. W = 0 \/ (W = p /\ ~(m < MonthOf(d)))
    <2>1. CASE y.pc \in Plain
      BY <2>1, Owes
    <2>2. CASE y.pc = "reconcile"
      BY <2>2 DEF OrgCharge, Charge
    <2>3. CASE y.pc = "insert"
      BY <2>3 DEF OrgCharge
    <2> QED BY <2>1, <2>2, <2>3
  <1> HIDE DEF W, V, p
  <1>4. V \in Nat /\ (~(m < MonthOf(d)) => p <= V)
    BY <1>1, <1>2
  <1>5. W <= V
    BY <1>1, <1>3, <1>4
  <1> QED BY <1>5 DEF W, V

LEMMA SrvFalls ==
    ASSUME scene \in Scenes, NEW x, Fits(x), AskOK(x), x.pc \in Plain,
           NEW y, y.pc \in Plain \union {"reconcile", "insert"}, ~SrvRead(y),
           y.pending = x.pending, y.shape = x.shape, NEW s, NEW limit
    PROVE  SrvCharge(y, s, limit) <= SrvCharge(x, s, limit)
  <1> DEFINE W == SrvCharge(y, s, limit)
             V == SrvCharge(x, s, limit)
             p == x.pending
  <1>1. p \in Nat /\ (SrvRead(x) => Needed(x) \in Nat)
    BY ChargeTyped DEF AskOK, SrvRead, Gates
  <1>2. V = IF x.shape.server # s THEN 0
            ELSE IF SrvRead(x) /\ Passes(x, x.srvUsed, limit) THEN p + Needed(x) ELSE p
    BY Owes
  <1>3. W = 0 \/ (W = p /\ x.shape.server = s)
    <2>1. CASE y.pc \in Plain
      BY <2>1, Owes
    <2>2. CASE y.pc = "reconcile"
      BY <2>2 DEF SrvCharge, Charge
    <2>3. CASE y.pc = "insert"
      BY <2>3 DEF SrvCharge, Charge
    <2> QED BY <2>1, <2>2, <2>3
  <1> HIDE DEF W, V, p
  <1>4. V \in Nat /\ (x.shape.server = s => p <= V)
    BY <1>1, <1>2
  <1>5. W <= V
    BY <1>1, <1>3, <1>4
  <1> QED BY <1>5 DEF W, V

(* The other gate was read: nothing changes for this one. *)
SameAsk(x, y) == y.shape = x.shape /\ y.plan = x.plan /\ y.pending = x.pending

LEMMA OrgCarries ==
    ASSUME scene \in Scenes, NEW x, Fits(x), AskOK(x), x.pc \in Plain, NEW y, y.pc \in Plain,
           SameAsk(x, y), y.orgUsed = x.orgUsed, OrgRead(y) <=> OrgRead(x),
           NEW m, NEW d, NEW limit
    PROVE  OrgCharge(y, m, d, limit) <= OrgCharge(x, m, d, limit)
  <1>1. Needed(y) = Needed(x) /\ Passes(y, y.orgUsed, limit) = Passes(x, x.orgUsed, limit)
    BY DEF Needed, Passes, SameAsk
  <1>2. OrgCharge(y, m, d, limit) = OrgCharge(x, m, d, limit)
    BY <1>1, Owes DEF SameAsk
  <1>3. OrgCharge(x, m, d, limit) \in 0..Largest
    BY OrgChargeTyped
  <1>4. \A n \in 0..Largest : n <= n
    BY LargestTyped
  <1> QED BY <1>2, <1>3, <1>4

LEMMA SrvCarries ==
    ASSUME scene \in Scenes, NEW x, Fits(x), AskOK(x), x.pc \in Plain, NEW y, y.pc \in Plain,
           SameAsk(x, y), y.srvUsed = x.srvUsed, SrvRead(y) <=> SrvRead(x),
           NEW s, NEW limit
    PROVE  SrvCharge(y, s, limit) <= SrvCharge(x, s, limit)
  <1>1. Needed(y) = Needed(x) /\ Passes(y, y.srvUsed, limit) = Passes(x, x.srvUsed, limit)
    BY DEF Needed, Passes, SameAsk
  <1>2. SrvCharge(y, s, limit) = SrvCharge(x, s, limit)
    BY <1>1, Owes DEF SameAsk
  <1>3. SrvCharge(x, s, limit) \in 0..Largest
    BY SrvChargeTyped
  <1>4. \A n \in 0..Largest : n <= n
    BY LargestTyped
  <1> QED BY <1>2, <1>3, <1>4

(* A gate is read.  If the item will pass, what it adds fits the limit;    *)
(* a usage that could not be read lets nobody through.                     *)
LEMMA OrgOpens ==
    ASSUME scene \in Scenes, NEW x, Fits(x), AskOK(x), x.pc \in Plain \intersect Gates,
           NEW y, y.pc \in Plain, SameAsk(x, y), y.orgUsed \in Nat,
           NEW n \in Nat, n <= y.orgUsed \/ y.orgUsed = Full,
           NEW m, NEW d, NEW limit \in Nat, limit <= Full, ~OrgRead(x)
    PROVE  \/ OrgCharge(y, m, d, limit) <= OrgCharge(x, m, d, limit)
           \/ n + OrgCharge(y, m, d, limit) <= limit
  <1> DEFINE W == OrgCharge(y, m, d, limit)
             V == OrgCharge(x, m, d, limit)
             p == x.pending
             k == Needed(x)
             u == y.orgUsed
             F == Full
  <1>1. p \in Nat /\ k \in Nat /\ u \in Nat /\ F \in Nat
    BY ChargeTyped DEF AskOK, Full
  <1>2. V = IF m < MonthOf(d) THEN 0 ELSE p
    BY Owes
  <1>3. /\ Needed(y) = k /\ y.pending = p
        /\ Passes(y, u, limit) <=> u + p + k <= limit
    BY DEF Needed, Passes, SameAsk
  <1>4. W = IF m < MonthOf(d) THEN 0 ELSE IF OrgRead(y) /\ u + p + k <= limit THEN p + k ELSE p
    BY <1>3, Owes
  <1>5. limit <= F /\ (n <= u \/ u = F)
    OBVIOUS
  <1> HIDE DEF W, V, p, k, u, F
  <1>6. W <= V \/ n + W <= limit
    BY <1>1, <1>2, <1>4, <1>5
  <1> QED BY <1>6 DEF W, V

LEMMA SrvOpens ==
    ASSUME scene \in Scenes, NEW x, Fits(x), AskOK(x), x.pc \in Plain \intersect Gates,
           NEW y, y.pc \in Plain, SameAsk(x, y), y.srvUsed \in Nat,
           NEW n \in Nat, NEW s, x.shape.server = s => n <= y.srvUsed \/ y.srvUsed = Full,
           NEW limit \in Nat, limit <= Full, ~SrvRead(x)
    PROVE  \/ SrvCharge(y, s, limit) <= SrvCharge(x, s, limit)
           \/ n + SrvCharge(y, s, limit) <= limit
  <1> DEFINE W == SrvCharge(y, s, limit)
             V == SrvCharge(x, s, limit)
             p == x.pending
             k == Needed(x)
             u == y.srvUsed
             F == Full
  <1>1. p \in Nat /\ k \in Nat /\ u \in Nat /\ F \in Nat
    BY ChargeTyped DEF AskOK, Full
  <1>2. V = IF x.shape.server # s THEN 0 ELSE p
    BY Owes
  <1>3. /\ Needed(y) = k /\ y.pending = p /\ y.shape.server = x.shape.server
        /\ Passes(y, u, limit) <=> u + p + k <= limit
    BY DEF Needed, Passes, SameAsk
  <1>4. W = IF x.shape.server # s THEN 0
            ELSE IF SrvRead(y) /\ u + p + k <= limit THEN p + k ELSE p
    BY <1>3, Owes
  <1>5. limit <= F /\ (x.shape.server = s => n <= u \/ u = F)
    OBVIOUS
  <1> HIDE DEF W, V, p, k, u, F
  <1>6. W <= V \/ n + W <= limit
    BY <1>1, <1>2, <1>4, <1>5
  <1> QED BY <1>6 DEF W, V

(* The item has passed: it was owed already. *)
LEMMA Passed ==
    ASSUME NEW limit \in Nat, NEW used \in Nat, NEW n \in Nat, Allows(Remaining(limit, used), n)
    PROVE  used + n <= limit \/ n = 0
  <1>1. limit # Unlimited
    BY SubmissionAssumption
  <1>2. Remaining(limit, used) = IF used < limit THEN limit - used ELSE 0
    BY <1>1 DEF Remaining
  <1>3. Remaining(limit, used) \in Nat
    BY <1>2
  <1>4. n <= Remaining(limit, used)
    BY <1>3, SubmissionAssumption DEF Allows
  <1> QED BY <1>2, <1>4

LEMMA StricterAllows ==
    ASSUME NEW a, NEW b, a \in Nat \union {Unlimited}, b \in Nat \union {Unlimited},
           NEW n \in Nat, Allows(Stricter(a, b), n)
    PROVE  Allows(a, n) /\ Allows(b, n)
  BY SubmissionAssumption DEF Allows, Stricter

LEMMA RemainingTyped ==
    ASSUME NEW limit \in Nat \union {Unlimited}, NEW used \in Nat
    PROVE  Remaining(limit, used) \in Nat \union {Unlimited}
  BY DEF Remaining

(* Months follow days. *)
LEMMA MonthsFollow ==
    ASSUME NEW d \in Nat, NEW e \in Nat, d <= e
    PROVE  MonthOf(d) \in Nat /\ MonthOf(e) \in Nat /\ MonthOf(d) <= MonthOf(e)
  <1> DEFINE M == MonthDays
             q == d \div M
             r == e \div M
  <1>1. M \in Nat /\ M > 0
    BY SubmissionAssumption
  <1>2. /\ q \in Int /\ M * q <= d /\ d < M * q + M
        /\ r \in Int /\ M * r <= e /\ e < M * r + M
    BY <1>1, Z3
  <1> HIDE DEF q, r, M
  <1>3. \A a, b \in Int : a + 1 <= b => M * a + M <= M * b
    BY <1>1
  <1>4. q <= r
    BY <1>2, <1>3, <1>1
  <1>5. q >= 0 /\ r >= 0
    BY <1>2, <1>3, <1>1
  <1> QED BY <1>2, <1>4, <1>5 DEF MonthOf, q, r, M

(***************************************************************************)
(* The requests, step by step                                              *)
(***************************************************************************)
(* A failure makes the calm no calmer, and one of the policy ends it.      *)
LEMMA OutcomeGates ==
    ASSUME GateInv, scene' = scene, NEW kind, NEW fails, Outcome(kind, fails)
    PROVE  /\ Steady /\ history'.changes = history.changes
           /\ fails /\ kind = "policy" => ~Calm'
  <1> DEFINE n == history.faults + 1
             h == [history EXCEPT !.faults = n]
  <1>1. history.faults \in Nat /\ IsHistory(history)
    BY DEF GateInv, UsageInv, LimitStays, IsHistory
  <1>2. n \in Nat /\ n # 0
    BY <1>1
  <1>3. /\ fails => kind \in Faults /\ history' = h
        /\ ~fails => history' = history
    BY DEF Outcome
  <1> HIDE DEF n
  <1>4. h.faults = n /\ h.changes = history.changes /\ h.opened = history.opened
    BY <1>1 DEF IsHistory
  <1> HIDE DEF h
  <1>5. FirstLimit' = FirstLimit /\ Faults' = Faults
    BY DEF FirstLimit, Faults
  <1> QED BY <1>1, <1>2, <1>3, <1>4, <1>5 DEF Calm, Steady

LEMMA HistoryStays ==
    ASSUME GateInv, UNCHANGED <<scene, history>>
    PROVE  Steady
  BY DEF GateInv, Calm, FirstLimit, Faults, Steady

(* What is known of a request that is being served. *)
LEMMA Asked ==
    ASSUME GateInv, NEW c \in Clients, call[c].pc # "idle"
    PROVE  /\ CallOK(call[c]) /\ Fits(call[c]) /\ AskOK(call[c]) /\ IsCall(call[c])
           /\ LimitKnown(call[c], Calm)
           /\ call[c].shape \in Shapes /\ call[c].shape.server \in Servers
  <1>1. CallOK(call[c]) /\ scene \in Scenes
    BY Served DEF GateInv, UsageInv, Inv, TypeOK
  <1>2. Fits(call[c])
    BY CallsFit DEF GateInv, UsageInv
  <1>3. call[c].shape \in Shapes /\ IsCall(call[c])
    BY <1>1 DEF CallOK
  <1>4. call[c].shape.server \in Servers
    BY <1>1, <1>3, ShapeTyped
  <1> QED BY <1>1, <1>2, <1>3, <1>4 DEF GateInv, Serving

LEMMA MonthsTyped ==
    ASSUME GateInv
    PROVE  /\ scene \in Scenes /\ today \in Nat /\ MonthOf(today) \in Months
           /\ MonthOf(today) \in Int /\ \A m \in Months : m \in Int
  <1>1. scene \in Scenes /\ today \in Days
    BY DEF GateInv, UsageInv, Inv, TypeOK
  <1>2. today \in Nat /\ \A d \in Days : d \in Nat /\ MonthOf(d) \in Months
    BY <1>1, DaysTyped
  <1>3. \A d \in Days : MonthOf(d) \in Int
    BY <1>2, MonthsFollow
  <1> QED BY <1>1, <1>2, <1>3 DEF Months

(* The gates are shut behind the request, which owes what it has accepted. *)
LEMMA FallsGates ==
    ASSUME GateInv, UsageInv', PoliciesTyped', NEW c \in Clients, call[c].pc \in Plain,
           NEW y, call' = [call EXCEPT ![c] = y], y.pc \in Plain \union {"reconcile", "insert"},
           ~OrgRead(y), ~SrvRead(y), ~PolicyRead(y), AskOK(y),
           y.pending = call[c].pending, y.shape = call[c].shape, y.by = call[c].by,
           y.pc = "insert" => y.day = today,
           UNCHANGED <<scene, today, messages>>, Steady
    PROVE  GateInv'
  <1>1. Fits(call[c]) /\ AskOK(call[c])
    BY Asked DEF Plain
  <1>2. \A m \in Months : OrgCharge(y, m, today, FirstLimit) <= OrgCharge(call[c], m, today, FirstLimit)
    BY <1>1, MonthsTyped, OrgFalls
  <1>3. \A s \in Servers : SrvCharge(y, s, ServerLimit[s]) <= SrvCharge(call[c], s, ServerLimit[s])
    BY <1>1, MonthsTyped, SrvFalls
  <1>4. LimitKnown(y, Calm') /\ Follows(c, y)
    BY DEF LimitKnown, Follows
  <1> QED BY <1>2, <1>3, <1>4, QuietGates

LEMMA ProceedsGates ==
    ASSUME GateInv, UsageInv', PoliciesTyped', NEW c \in Clients, call[c].pc \in Plain, NEW pc, Proceed(c, pc),
           \/ pc \in {"begin", "reconcile"}
           \/ pc = "policy" /\ call[c].shape.op # "smtp"
           \/ pc \in {"server", "serverUsage"} /\ call[c].shape.op = "smtp",
           UNCHANGED <<scene, today, messages>>, Steady
    PROVE  GateInv'
  <1> DEFINE x == call[c]
             y == [x EXCEPT !.pc = pc]
  <1>1. IsCall(x) /\ AskOK(x) /\ x.pc \in Plain
    BY Asked DEF Plain
  <1>2. call' = [call EXCEPT ![c] = y]
    BY DEF Proceed
  <1>3. /\ y.pc = pc /\ y.by = x.by /\ y.shape = x.shape /\ y.plan = x.plan /\ y.next = x.next
        /\ y.pending = x.pending /\ y.orgUsed = x.orgUsed /\ y.srvUsed = x.srvUsed
    BY <1>1, SetPc
  <1>4. ~OrgRead(y) /\ ~SrvRead(y) /\ ~PolicyRead(y)
    BY <1>3 DEF OrgRead, SrvRead, PolicyRead
  <1>5. /\ pc \in Plain \union {"reconcile", "insert"} /\ pc # "insert"
        /\ pc \notin {"store", "rcpt", "lookup"} /\ x.pc # "store"
        /\ pc = "server" => x.shape.op = "smtp"
    BY <1>1 DEF Plain
  <1> HIDE DEF x, y
  <1>6. AskOK(y)
    BY <1>1, <1>3, <1>5 DEF AskOK
  <1> QED BY <1>2, <1>3, <1>4, <1>5, <1>6, FallsGates DEF x

LEMMA AnswerClears ==
    ASSUME NEW c, NEW r, AnswerFrom(c, r)
    PROVE  call' = [call EXCEPT ![c] = Idle]
  BY DEF AnswerFrom, Answer

(* A request arrives, and owes nothing. *)
LEMMA ArriveGates ==
    ASSUME GateInv, UsageInv', PoliciesTyped', NEW c \in Clients, NEW shape \in Shapes, Arrive(c, shape)
    PROVE  GateInv'
  <1> DEFINE pc == IF shape.op = "smtp" THEN "rcpt"
                   ELSE IF shape.key # NoKey THEN "lookup" ELSE Prepared(shape)
             y  == [pc |-> pc, by |-> serial + 1, shape |-> shape, plan |-> <<>>, pending |-> 0,
                    limit |-> Unlimited, orgUsed |-> 0, srvUsed |-> 0,
                    expired |-> 0, day |-> 0, next |-> 1]
  <1>1. /\ call' = [call EXCEPT ![c] = y] /\ call[c].pc = "idle"
        /\ UNCHANGED <<scene, today, messages, history>>
    BY DEF Arrive, table
  <1>2. /\ pc \in {"rcpt", "lookup", "policy", "begin"}
        /\ pc = "rcpt" <=> shape.op = "smtp"
    BY PreparedTyped, MonthsTyped
  <1>3. /\ y.pc = pc /\ y.shape = shape /\ y.plan = <<>> /\ y.pending = 0
        /\ y.orgUsed = 0 /\ y.srvUsed = 0 /\ y.next = 1
    OBVIOUS
  <1> HIDE DEF pc, y
  <1>4. MessagesOf(0, shape, <<>>, 0) = {}
    BY DEF MessagesOf
  <1>5. AskOK(y)
    <2>1. y.pending = Cardinality(MessagesOf(0, y.shape, y.plan, 0))
      BY <1>3, <1>4, FS_EmptySet
    <2>2. /\ y.pc \notin {"store", "server"} /\ (y.pc = "rcpt" => y.shape.op = "smtp")
          /\ y.pc = "lookup" => y.shape.op # "smtp"
      BY <1>2, <1>3
    <2> QED BY <1>3, <2>1, <2>2 DEF AskOK
  <1>6. ~OrgRead(y) /\ ~SrvRead(y) /\ ~PolicyRead(y)
    BY <1>2, <1>3 DEF OrgRead, SrvRead, PolicyRead
  <1>7. y.pc \in Plain
    BY <1>2, <1>3 DEF Plain
  <1>8. \A m, s : /\ OrgCharge(y, m, today, FirstLimit) = 0
                  /\ SrvCharge(y, s, ServerLimit[s]) = 0
                  /\ OrgCharge(call[c], m, today, FirstLimit) = 0
                  /\ SrvCharge(call[c], s, ServerLimit[s]) = 0
    <2>1. \A m, s : /\ OrgCharge(y, m, today, FirstLimit) = 0
                    /\ SrvCharge(y, s, ServerLimit[s]) = 0
      <3> SUFFICES ASSUME NEW m, NEW s
                   PROVE  /\ OrgCharge(y, m, today, FirstLimit) = 0
                          /\ SrvCharge(y, s, ServerLimit[s]) = 0
        OBVIOUS
      <3>1. /\ OrgCharge(y, m, today, FirstLimit) = IF m < MonthOf(today) THEN 0 ELSE y.pending
            /\ SrvCharge(y, s, ServerLimit[s]) = IF y.shape.server # s THEN 0 ELSE y.pending
        BY <1>6, <1>7, Owes
      <3> QED BY <1>3, <3>1
    <2>2. \A m, s : /\ OrgCharge(call[c], m, today, FirstLimit) = 0
                    /\ SrvCharge(call[c], s, ServerLimit[s]) = 0
      BY <1>1 DEF OrgCharge, SrvCharge
    <2> QED BY <2>1, <2>2
  <1>9. LimitKnown(y, Calm') /\ Follows(c, y)
    BY <1>1, <1>6 DEF LimitKnown, Follows
  <1>10. Steady /\ 0 <= 0
    BY <1>1, HistoryStays
  <1> QED BY <1>1, <1>5, <1>8, <1>9, <1>10, QuietGates

LEMMA LookupGates ==
    ASSUME GateInv, UsageInv', PoliciesTyped', NEW c \in Clients, Lookup(c)
    PROVE  GateInv'
  <1>1. call[c].pc = "lookup" /\ UNCHANGED <<scene, today, messages, history>>
    BY DEF Lookup, table
  <1>2. Steady
    BY <1>1, HistoryStays
  <1>3. CASE \E r \in LiveRows(call[c].shape) : AnswerFrom(c, r)
    BY <1>1, <1>2, <1>3, AnswerClears, AnsweredGates
  <1>4. CASE Proceed(c, Prepared(call[c].shape))
    <2>1. call[c].shape.op # "smtp" /\ call[c].shape \in Shapes
      BY <1>1, Asked DEF AskOK
    <2>2. Prepared(call[c].shape) \in {"begin", "policy"}
      BY <2>1, PreparedTyped, MonthsTyped
    <2> QED BY <1>1, <1>2, <1>4, <2>1, <2>2, ProceedsGates DEF Plain
  <1> QED BY <1>3, <1>4 DEF Lookup

LEMMA RcptGates ==
    ASSUME GateInv, UsageInv', PoliciesTyped', NEW c \in Clients, NEW fails, Rcpt(c, fails)
    PROVE  GateInv'
  <1>1. /\ call[c].pc = "rcpt" /\ UNCHANGED <<scene, today, messages>>
        /\ Outcome("policy", fails) \/ Outcome("query", TRUE)
    BY DEF Rcpt, table
  <1>2. Steady
    BY <1>1, OutcomeGates
  <1>3. CASE Answer(c, "refused", Nothing)
    BY <1>1, <1>2, <1>3, AnsweredGates DEF Answer
  <1>4. CASE Proceed(c, "server")
    <2>1. call[c].shape.op = "smtp"
      BY <1>1, Asked DEF AskOK
    <2> QED BY <1>1, <1>2, <1>4, <2>1, ProceedsGates DEF Plain
  <1> QED BY <1>3, <1>4 DEF Rcpt

LEMMA RefuseGates ==
    ASSUME GateInv, UsageInv', PoliciesTyped', NEW c \in Clients, call[c].pc \in Gates, Refuse(c),
           UNCHANGED <<scene, today, messages>>, Steady
    PROVE  GateInv'
  <1>0. /\ IsCall(call[c]) /\ AskOK(call[c]) /\ Fits(call[c]) /\ call[c].pc \in Plain
        /\ call[c].pc \notin {"store", "idle"} /\ scene \in Scenes
    BY Asked, MonthsTyped DEF Gates, Plain
  <1>1. CASE call[c].shape.op = "batch"
    <2> DEFINE w    == call[c]
               plan == Append(w.plan, FALSE)
               pc   == IF Len(w.plan) + 1 < Len(w.shape.items) THEN "policy" ELSE "begin"
               x    == [w EXCEPT !.plan = plan]
               y    == [x EXCEPT !.pc = pc]
    <2>1. call' = [call EXCEPT ![c] = y]
      BY <1>1 DEF Refuse
    <2>2. pc \in {"policy", "begin"} /\ w.shape.op # "smtp"
      BY <1>1
    <2>3. w.pending = Cardinality(MessagesOf(0, w.shape, plan, 0))
      <3>1. /\ w.shape \in Shapes /\ w.plan \in Seq(BOOLEAN)
            /\ Len(w.plan) < Len(w.shape.items)
            /\ w.pending = Cardinality(MessagesOf(0, w.shape, w.plan, 0))
            /\ w.pending \in Nat
        BY <1>0 DEF Fits, AskOK
      <3> HIDE DEF w
      <3> DEFINE n == Cardinality(MessagesOf(0, w.shape, plan, 0))
      <3>2. n = w.pending + 0
        BY <1>0, <3>1, PlanGrows
      <3> HIDE DEF n
      <3>3. n = w.pending
        BY <3>1, <3>2
      <3> QED BY <3>3 DEF n
    <2>4. IsCall(w) /\ AskOK(w) /\ w.pc # "store"
      BY <1>0
    <2> HIDE DEF w, plan, pc
    <2>5. /\ IsCall(x) /\ x.by = w.by /\ x.shape = w.shape /\ x.plan = plan /\ x.next = w.next
          /\ x.pending = w.pending /\ x.orgUsed = w.orgUsed /\ x.srvUsed = w.srvUsed
      BY <2>4, SetPlan
    <2> HIDE DEF x
    <2>6. /\ y.pc = pc /\ y.by = w.by /\ y.shape = w.shape /\ y.plan = plan /\ y.next = w.next
          /\ y.pending = w.pending /\ y.orgUsed = w.orgUsed /\ y.srvUsed = w.srvUsed
      BY <2>5, SetPc
    <2> HIDE DEF y
    <2>7. AskOK(y)
      BY <2>2, <2>3, <2>4, <2>6 DEF AskOK
    <2>8. ~OrgRead(y) /\ ~SrvRead(y) /\ ~PolicyRead(y)
      BY <2>2, <2>6 DEF OrgRead, SrvRead, PolicyRead
    <2>9. y.pc \in Plain \union {"reconcile", "insert"} /\ y.pc # "insert"
      BY <2>2, <2>6 DEF Plain
    <2> QED BY <1>0, <2>1, <2>6, <2>7, <2>8, <2>9, FallsGates DEF w
  <1>2. CASE call[c].shape.op # "batch" /\ Keyed(c)
    <2>1. Proceed(c, "reconcile")
      BY <1>2 DEF Refuse
    <2> QED BY <1>0, <2>1, ProceedsGates
  <1>3. CASE call[c].shape.op # "batch" /\ ~Keyed(c)
    BY <1>3, AnsweredGates DEF Refuse, Answer
  <1> QED BY <1>1, <1>2, <1>3

LEMMA ReadPolicyGates ==
    ASSUME GateInv, UsageInv', PoliciesTyped', NEW c \in Clients, NEW fails, ReadPolicy(c, fails)
    PROVE  GateInv'
  <1>1. /\ call[c].pc = "policy" /\ UNCHANGED <<scene, today, messages, policy>>
        /\ Outcome(IF Smtp(c) THEN "policy" ELSE "query", fails)
    BY DEF ReadPolicy, table
  <1>2. /\ Steady /\ history'.changes = history.changes
        /\ fails /\ Smtp(c) => ~Calm'
    BY <1>1, OutcomeGates
  <1>3. CASE Refuse(c)
    BY <1>1, <1>2, <1>3, RefuseGates DEF Gates
  <1>4. CASE ~Refuse(c)
    <2> DEFINE w == call[c]
               l == IF fails THEN Unlimited ELSE policy.limit
               x == [w EXCEPT !.limit = l]
               y == [x EXCEPT !.pc = "orgUsage"]
    <2>1. call' = [call EXCEPT ![c] = y] /\ ~(fails /\ ~Smtp(c))
      BY <1>4 DEF ReadPolicy
    <2>2. IsCall(w) /\ AskOK(w) /\ Fits(w) /\ scene \in Scenes
      BY <1>1, Asked, MonthsTyped
    <2>3. l \in Nat \union {Unlimited} /\ (Calm' => l = FirstLimit)
      <3>1. policy.limit \in Nat \union {Unlimited}
        BY DEF GateInv, PoliciesTyped, Policies
      <3> QED BY <1>2, <2>1, <3>1 DEF Calm, GateInv, UsageInv, LimitStays
    <2>4. w.pc = "policy"
      BY <1>1
    <2> HIDE DEF l, w
    <2>5. /\ IsCall(x) /\ x.by = w.by /\ x.shape = w.shape /\ x.plan = w.plan /\ x.next = w.next /\ x.limit = l
          /\ x.pending = w.pending /\ x.orgUsed = w.orgUsed /\ x.srvUsed = w.srvUsed
      BY <2>2, SetLimit
    <2> HIDE DEF x
    <2>6. /\ y.pc = "orgUsage" /\ y.by = w.by /\ y.shape = w.shape /\ y.plan = w.plan /\ y.next = w.next
          /\ y.limit = l
          /\ y.pending = w.pending /\ y.orgUsed = w.orgUsed /\ y.srvUsed = w.srvUsed
      BY <2>5, SetPc
    <2> HIDE DEF y
    <2>7. AskOK(y) /\ LimitKnown(y, Calm') /\ Follows(c, y)
      BY <2>2, <2>3, <2>4, <2>6 DEF AskOK, LimitKnown, Follows, w
    <2>8. /\ y.pc \in Plain /\ w.pc \in Plain /\ SameAsk(w, y)
          /\ ~OrgRead(y) /\ (SrvRead(y) <=> SrvRead(w))
      BY <2>4, <2>6 DEF Plain, SameAsk, OrgRead, SrvRead
    <2>9. \A m \in Months : OrgCharge(y, m, today, FirstLimit) <= OrgCharge(w, m, today, FirstLimit)
      BY <2>2, <2>6, <2>8, MonthsTyped, OrgFalls
    <2>10. \A s \in Servers : SrvCharge(y, s, ServerLimit[s]) <= SrvCharge(w, s, ServerLimit[s])
      BY <2>2, <2>6, <2>8, SrvCarries
    <2> QED BY <1>1, <1>2, <2>1, <2>7, <2>9, <2>10, QuietGates DEF w
  <1> QED BY <1>3, <1>4

(* No message is later than today, so the month's counter is what counts.  *)
LEMMA LaterMonths ==
    ASSUME GateInv, NEW m \in Months, ~(m < MonthOf(today))
    PROVE  OrgCount(m) \in Nat /\ orgSent[MonthOf(today)] \in Nat
           /\ OrgCount(m) <= orgSent[MonthOf(today)]
  <1> DEFINE t == MonthOf(today)
             n == OrgCount(m)
  <1>1. /\ Counted /\ t \in Months /\ t \in Int /\ m \in Int /\ today \in Nat
    BY MonthsTyped DEF GateInv, UsageInv
  <1>2. n \in Nat /\ OrgCount(t) \in Nat /\ orgSent[t] \in Nat /\ OrgCount(t) <= orgSent[t]
    <2> DEFINE A == {x \in Gated : MonthOf(x.day) = t}
               B == {x \in messages : MonthOf(x.day) = t}
    <2>1. A \subseteq B /\ IsFiniteSet(B)
      BY <1>1, FS_Subset DEF Counted, Gated
    <2>2. Cardinality(A) <= Cardinality(B) /\ Cardinality(B) \in Nat
      BY <2>1, FS_Subset, FS_CardinalityType
    <2>3. orgSent[t] = Cardinality(B)
      BY <1>1 DEF Counted
    <2> QED BY <1>1, <2>2, <2>3, CountTyped DEF OrgCount
  <1>3. CASE m = t
    <2> HIDE DEF t
    <2> QED BY <1>2, <1>3 DEF n, t
  <1>4. CASE m # t
    <2>1. t < m
      BY <1>1, <1>4
    <2>2. \A x \in messages : MonthOf(x.day) \in Int /\ MonthOf(x.day) <= t
      BY <1>1, MonthsFollow DEF Counted
    <2> HIDE DEF t
    <2>3. {x \in Gated : MonthOf(x.day) = m} = {}
      BY <1>1, <2>1, <2>2 DEF Gated
    <2>4. n = 0
      BY <2>3, FS_EmptySet DEF OrgCount
    <2> HIDE DEF n
    <2>5. n <= orgSent[t]
      BY <1>2, <2>4
    <2> QED BY <1>2, <2>5 DEF n, t
  <1> QED BY <1>3, <1>4

LEMMA ReadOrgUsageGates ==
    ASSUME GateInv, UsageInv', PoliciesTyped', NEW c \in Clients, NEW fails, ReadOrgUsage(c, fails)
    PROVE  GateInv'
  <1>1. /\ call[c].pc = "orgUsage" /\ UNCHANGED <<scene, today, messages>>
        /\ Outcome("query", fails)
    BY DEF ReadOrgUsage, table
  <1>2. Steady
    BY <1>1, OutcomeGates
  <1>3. CASE Refuse(c)
    BY <1>1, <1>2, <1>3, RefuseGates DEF Gates
  <1>4. CASE ~Refuse(c)
    <2> DEFINE w  == call[c]
               u  == IF fails THEN Full ELSE orgSent[MonthOf(today)]
               pc == IF Smtp(c) THEN "decide" ELSE "serverUsage"
               x  == [w EXCEPT !.orgUsed = u]
               y  == [x EXCEPT !.pc = pc]
    <2>0. call' = [call EXCEPT ![c].pc = IF Smtp(c) THEN "decide" ELSE "serverUsage",
                ![c].orgUsed = IF fails THEN Full ELSE orgSent[MonthOf(today)]]
      BY <1>4 DEF ReadOrgUsage
    <2>1. call' = [call EXCEPT ![c] = y]
      BY <2>0
    <2>2. /\ IsCall(w) /\ AskOK(w) /\ Fits(w) /\ LimitKnown(w, Calm) /\ w.pc = "orgUsage"
          /\ scene \in Scenes
      BY <1>1, Asked, MonthsTyped
    <2>3. /\ u \in Nat
          /\ \A m \in Months : ~(m < MonthOf(today)) =>
                OrgCount(m) \in Nat /\ (OrgCount(m) <= u \/ u = Full)
      <3>1. orgSent[MonthOf(today)] \in Nat
        <4>1. MonthOf(today) \in Months /\ MonthOf(today) \in Int
          BY MonthsTyped
        <4> QED BY <4>1, LaterMonths
      <3> QED BY <3>1, LaterMonths DEF Full
    <2>4. IF w.shape.op = "smtp" THEN pc = "decide" ELSE pc = "serverUsage"
      BY DEF Smtp
    <2> HIDE DEF u, w, pc
    <2>5. /\ IsCall(x) /\ x.by = w.by /\ x.shape = w.shape /\ x.plan = w.plan /\ x.next = w.next
          /\ x.limit = w.limit
          /\ x.pending = w.pending /\ x.orgUsed = u /\ x.srvUsed = w.srvUsed
      BY <2>2, SetOrgUsed
    <2> HIDE DEF x
    <2>6. /\ y.pc = pc /\ y.by = w.by /\ y.shape = w.shape /\ y.plan = w.plan /\ y.next = w.next
          /\ y.limit = w.limit
          /\ y.pending = w.pending /\ y.orgUsed = u /\ y.srvUsed = w.srvUsed
      BY <2>5, SetPc
    <2> HIDE DEF y
    <2>7. pc \in {"decide", "serverUsage"}
      BY <2>4
    <2>8. AskOK(y) /\ LimitKnown(y, Calm')
      BY <1>2, <2>2, <2>3, <2>6, <2>7 DEF AskOK, LimitKnown, PolicyRead, Steady
    <2>9. /\ y.pc \in Plain /\ w.pc \in Plain \intersect Gates /\ SameAsk(w, y)
          /\ OrgRead(y) /\ ~OrgRead(w) /\ (SrvRead(y) <=> SrvRead(w))
      BY <2>2, <2>4, <2>6 DEF Plain, Gates, SameAsk, OrgRead, SrvRead
    <2>10. ASSUME Calm', NEW m \in Months
           PROVE  \/ OrgCharge(y, m, today, FirstLimit) <= OrgCharge(w, m, today, FirstLimit)
                  \/ OrgCount(m) + OrgCharge(y, m, today, FirstLimit) <= FirstLimit
      <3>1. FirstLimit \in Nat /\ FirstLimit <= Full
        BY <1>2, <2>2, <2>10, LimitTyped DEF Calm, Steady
      <3>2. CASE m < MonthOf(today)
        <4>1. OrgCharge(y, m, today, FirstLimit) = 0 /\ OrgCharge(w, m, today, FirstLimit) = 0
          BY <2>9, <3>2, Owes
        <4> QED BY <4>1
      <3>3. CASE ~(m < MonthOf(today))
        <4>1. OrgCount(m) \in Nat /\ (OrgCount(m) <= y.orgUsed \/ y.orgUsed = Full) /\ y.orgUsed \in Nat
          BY <2>3, <2>6, <3>3
        <4> QED BY <2>2, <2>9, <3>1, <4>1, OrgOpens
      <3> QED BY <3>2, <3>3
    <2>11. \A s \in Servers : SrvCharge(y, s, ServerLimit[s]) <= SrvCharge(w, s, ServerLimit[s])
      BY <2>2, <2>6, <2>9, SrvCarries
    <2>12. Follows(c, y)
      BY <2>6 DEF Follows, w
    <2> QED BY <1>1, <1>2, <2>1, <2>8, <2>10, <2>11, <2>12, QuietGates DEF w
  <1> QED BY <1>3, <1>4

LEMMA ReadServerUsageGates ==
    ASSUME GateInv, UsageInv', PoliciesTyped', NEW c \in Clients, NEW fails, ReadServerUsage(c, fails)
    PROVE  GateInv'
  <1>1. /\ call[c].pc = "serverUsage" /\ UNCHANGED <<scene, today, messages>>
        /\ Outcome("query", fails)
    BY DEF ReadServerUsage, table
  <1>2. Steady
    BY <1>1, OutcomeGates
  <1>3. CASE Refuse(c)
    BY <1>1, <1>2, <1>3, RefuseGates DEF Gates
  <1>4. CASE ~Refuse(c)
    <2> DEFINE w  == call[c]
               u  == IF fails THEN Full ELSE Usage(call[c].shape.server, today)
               pc == IF Smtp(c) THEN "policy" ELSE "decide"
               x  == [w EXCEPT !.srvUsed = u]
               y  == [x EXCEPT !.pc = pc]
    <2>0. call' = [call EXCEPT ![c].pc = IF Smtp(c) THEN "policy" ELSE "decide",
                ![c].srvUsed = IF fails THEN Full
                               ELSE Usage(call[c].shape.server, today)]
      BY <1>4 DEF ReadServerUsage
    <2>1. call' = [call EXCEPT ![c] = y]
      BY <2>0
    <2>2. /\ IsCall(w) /\ AskOK(w) /\ Fits(w) /\ LimitKnown(w, Calm) /\ w.pc = "serverUsage"
          /\ scene \in Scenes /\ w.shape.server \in Servers
      BY <1>1, Asked, MonthsTyped
    <2>3. /\ u \in Nat
          /\ \A s \in Servers : SrvCount(s) \in Nat /\ (w.shape.server = s => SrvCount(s) <= u \/ u = Full)
      <3>1. Counted
        BY DEF GateInv, UsageInv
      <3>2. \A s \in Servers : SrvCount(s) \in Nat
        BY <3>1, CountTyped
      <3> DEFINE k == w.shape.server
                 z == Usage(k, today)
      <3>3. z \in Nat /\ SrvCount(k) <= z
        <4> HIDE DEF w
        <4> DEFINE A == {q \in Gated : q.server = k /\ q.day > today - Window}
                   B == {q \in messages : q.server = k /\ q.day > today - Window}
        <4>1. A \subseteq B /\ IsFiniteSet(B)
          BY <3>1, FS_Subset DEF Counted, Gated
        <4>2. Cardinality(A) <= Cardinality(B) /\ Cardinality(B) \in Nat
          BY <4>1, FS_Subset, FS_CardinalityType
        <4>3. z = Cardinality(B)
          BY <2>2, WindowCounted DEF GateInv
        <4> QED BY <4>2, <4>3 DEF SrvCount
      <3>4. u = Full \/ u = z
        OBVIOUS
      <3> HIDE DEF u, z
      <3> QED BY <3>2, <3>3, <3>4 DEF Full
    <2>4. IF w.shape.op = "smtp" THEN pc = "policy" ELSE pc = "decide"
      BY DEF Smtp
    <2> HIDE DEF u, w, pc
    <2>5. /\ IsCall(x) /\ x.by = w.by /\ x.shape = w.shape /\ x.plan = w.plan /\ x.next = w.next
          /\ x.limit = w.limit
          /\ x.pending = w.pending /\ x.orgUsed = w.orgUsed /\ x.srvUsed = u
      BY <2>2, SetSrvUsed
    <2> HIDE DEF x
    <2>6. /\ y.pc = pc /\ y.by = w.by /\ y.shape = w.shape /\ y.plan = w.plan /\ y.next = w.next
          /\ y.limit = w.limit
          /\ y.pending = w.pending /\ y.orgUsed = w.orgUsed /\ y.srvUsed = u
      BY <2>5, SetPc
    <2> HIDE DEF y
    <2>7. pc \in {"policy", "decide"}
      BY <2>4
    <2>8. AskOK(y) /\ LimitKnown(y, Calm')
      BY <1>2, <2>2, <2>3, <2>4, <2>6, <2>7 DEF AskOK, LimitKnown, PolicyRead, Steady
    <2>9. /\ y.pc \in Plain /\ w.pc \in Plain \intersect Gates /\ SameAsk(w, y)
          /\ SrvRead(y) /\ ~SrvRead(w) /\ (OrgRead(y) <=> OrgRead(w))
      BY <2>2, <2>4, <2>6 DEF Plain, Gates, SameAsk, OrgRead, SrvRead
    <2>10. ASSUME NEW s \in Servers, ServerLimit[s] # Unlimited
           PROVE  \/ SrvCharge(y, s, ServerLimit[s]) <= SrvCharge(w, s, ServerLimit[s])
                  \/ SrvCount(s) + SrvCharge(y, s, ServerLimit[s]) <= ServerLimit[s]
      <3>1. ServerLimit[s] \in Nat /\ ServerLimit[s] <= Full
        BY <2>2, <2>10, LimitTyped
      <3>2. /\ SrvCount(s) \in Nat /\ y.srvUsed \in Nat
            /\ w.shape.server = s => SrvCount(s) <= y.srvUsed \/ y.srvUsed = Full
        BY <2>3, <2>6
      <3> QED BY <2>2, <2>9, <3>1, <3>2, SrvOpens
    <2>11. \A m \in Months : OrgCharge(y, m, today, FirstLimit) <= OrgCharge(w, m, today, FirstLimit)
      BY <2>2, <2>6, <2>9, OrgCarries
    <2>12. Follows(c, y)
      BY <2>6 DEF Follows, w
    <2> QED BY <1>1, <1>2, <2>1, <2>8, <2>10, <2>11, <2>12, QuietGates DEF w
  <1> QED BY <1>3, <1>4

(* An item is accepted: how the request goes on. *)
Accepting(c, y, k) ==
    /\ call' = [call EXCEPT ![c] = y]
    /\ k \in Nat /\ k = call[c].pending + Needed(call[c])
    /\ Needed(call[c]) \in Nat /\ call[c].pending \in Nat
    /\ y.pc \in {"policy", "store", "begin"} /\ y.by = call[c].by /\ y.shape = call[c].shape
    /\ y.pc = "policy" => y.shape.op # "smtp"
    /\ y.pending = k /\ y.next = 1
    /\ AskOK(y)

LEMMA AcceptAsks ==
    ASSUME GateInv, NEW c \in Clients, call[c].pc \in {"decide", "server"}, Accept(c)
    PROVE  \E y, k : Accepting(c, y, k)
  <1> DEFINE n    == ItemOf(c).n
             w    == call[c]
             plan == Append(w.plan, TRUE)
             pc   == IF Len(w.plan) + 1 < Len(w.shape.items) THEN "policy"
                     ELSE IF w.shape.op = "smtp" /\ ~Keyed(c) THEN "store"
                     ELSE "begin"
             k    == w.pending + ItemOf(c).n
             x    == [w EXCEPT !.plan = plan]
             z    == [x EXCEPT !.pending = k]
             y    == [z EXCEPT !.pc = pc]
  <1>1. call' = [call EXCEPT ![c] = y]
    BY DEF Accept
  <1>2. /\ IsCall(w) /\ AskOK(w) /\ Fits(w) /\ w.shape \in Shapes /\ scene \in Scenes
        /\ w.pc \in {"decide", "server"}
    BY Asked, MonthsTyped
  <1>3. /\ w.plan \in Seq(BOOLEAN) /\ Len(w.plan) < Len(w.shape.items) /\ Len(w.plan) \in Nat
        /\ Len(w.shape.items) \in Nat
    <2>1. w.plan \in Seq(BOOLEAN) /\ Len(w.plan) < Len(w.shape.items)
      BY <1>2 DEF Fits, Gates
    <2> HIDE DEF w
    <2> QED BY <1>2, <2>1, ShapeTyped
  <1>4. n = Needed(w) /\ k = w.pending + n
    BY DEF ItemOf, Needed
  <1>5. /\ n \in Nat /\ w.pending \in Nat
        /\ k = Cardinality(MessagesOf(0, w.shape, plan, 0)) /\ k \in Nat
    <2>1. w.pending = Cardinality(MessagesOf(0, w.shape, w.plan, 0)) /\ w.pending \in Nat
      BY <1>2 DEF AskOK
    <2>2. n \in Nat /\ Cardinality(MessagesOf(0, w.shape, plan, 0)) = w.pending + n
      <3> HIDE DEF w, k
      <3> QED BY <1>2, <1>3, <1>4, <2>1, PlanGrows DEF Needed
    <2> DEFINE q == Cardinality(MessagesOf(0, w.shape, plan, 0))
               p == w.pending
    <2>3. p \in Nat /\ n \in Nat /\ q = p + n /\ k = p + n
      BY <1>4, <2>1, <2>2
    <2> HIDE DEF k, q, p
    <2>4. k = q /\ k \in Nat
      BY <2>3
    <2> QED BY <2>3, <2>4 DEF q, p
  <1>6. plan \in Seq(BOOLEAN) /\ Len(plan) = Len(w.plan) + 1
    BY <1>3, Appended
  <1>7. /\ pc \in {"policy", "store", "begin"}
        /\ pc = "policy" => w.shape.op # "smtp"
        /\ pc = "store" => w.shape.op = "smtp"
    <2>1. w.shape.op = "smtp" => Len(w.shape.items) = 1
      BY <1>2, ShapeTyped
    <2> DEFINE a == Len(w.plan)
               b == Len(w.shape.items)
    <2>2. a \in Nat /\ (w.shape.op = "smtp" => b = 1)
      BY <1>3, <2>1
    <2> HIDE DEF a, b
    <2>3. w.shape.op = "smtp" => ~(a + 1 < b)
      BY <2>2
    <2> QED BY <2>3 DEF a, b
  <1>8. pc = "store" => w.shape.items[1].n = k /\ Len(plan) = 1
    <2> SUFFICES ASSUME pc = "store"
                 PROVE  w.shape.items[1].n = k /\ Len(plan) = 1
      OBVIOUS
    <2>1. Len(w.shape.items) = 1
      BY <1>2, <1>7, ShapeTyped
    <2>2. Len(w.plan) = 0
      <3> HIDE DEF w
      <3> QED BY <1>3, <2>1
    <2>3. w.plan = <<>>
      <3> HIDE DEF w
      <3> QED BY <1>3, <2>2
    <2>4. MessagesOf(0, w.shape, w.plan, 0) = {}
      BY <2>3 DEF MessagesOf
    <2>5. w.pending = 0
      BY <1>2, <2>4, FS_EmptySet DEF AskOK
    <2>6. n = w.shape.items[1].n
      BY <1>4, <2>2 DEF Needed
    <2> HIDE DEF w, plan, k
    <2> QED BY <1>4, <1>5, <1>6, <2>2, <2>5, <2>6
  <1> HIDE DEF w, plan, pc, k, n
  <1>10. /\ IsCall(x) /\ x.by = w.by /\ x.shape = w.shape /\ x.plan = plan /\ x.next = w.next
         /\ x.pending = w.pending /\ x.orgUsed = w.orgUsed /\ x.srvUsed = w.srvUsed
    BY <1>2, SetPlan
  <1> HIDE DEF x
  <1>11. /\ IsCall(z) /\ z.by = w.by /\ z.shape = w.shape /\ z.plan = plan /\ z.next = w.next
         /\ z.pending = k /\ z.orgUsed = w.orgUsed /\ z.srvUsed = w.srvUsed
    BY <1>10, SetPending
  <1> HIDE DEF z
  <1>12. /\ y.pc = pc /\ y.by = w.by /\ y.shape = w.shape /\ y.plan = plan /\ y.next = w.next
         /\ y.pending = k /\ y.orgUsed = w.orgUsed /\ y.srvUsed = w.srvUsed
    BY <1>11, SetPc
  <1> HIDE DEF y
  <1>13. AskOK(y)
    <2>1. w.next = 1 /\ w.orgUsed \in Nat /\ w.srvUsed \in Nat
      BY <1>2 DEF AskOK
    <2>2. pc \notin {"rcpt", "server", "lookup"}
      BY <1>7
    <2>3. y.pending = Cardinality(MessagesOf(0, y.shape, y.plan, 0))
      BY <1>5, <1>12
    <2>4. 1 \in Nat \ {0}
      OBVIOUS
    <2>5. y.pc = "store" => y.shape.items[1].n = y.pending /\ Len(y.plan) = 1
      BY <1>8, <1>12
    <2> QED BY <1>5, <1>12, <2>1, <2>2, <2>3, <2>4, <2>5 DEF AskOK
  <1> QED BY <1>1, <1>2, <1>4, <1>5, <1>7, <1>12, <1>13 DEF Accepting, AskOK, w

(* What the item adds was owed since the gates were read. *)
LEMMA AcceptGates ==
    ASSUME GateInv, UsageInv', PoliciesTyped', NEW c \in Clients, call[c].pc = "decide", Accept(c),
           NEW n, n = ItemOf(c).n,
           Calm => \/ call[c].orgUsed + call[c].pending + n <= FirstLimit \/ n = 0,
           LET limit == ServerLimit[call[c].shape.server]
           IN  limit # Unlimited => call[c].srvUsed + call[c].pending + n <= limit \/ n = 0,
           UNCHANGED <<scene, today, messages, history>>
    PROVE  GateInv'
  <1> DEFINE w == call[c]
  <1>1. PICK y, k : Accepting(c, y, k)
    BY AcceptAsks
  <1>2. IsCall(w) /\ AskOK(w) /\ Fits(w) /\ scene \in Scenes /\ w.pc = "decide"
    BY Asked, MonthsTyped
  <1>4. n = Needed(w) /\ k = w.pending + n
    BY <1>1 DEF Accepting, ItemOf, Needed
  <1>5. n \in Nat /\ w.pending \in Nat /\ k \in Nat
    BY <1>1, <1>4 DEF Accepting
  <1>7. /\ y.pc \in {"policy", "store", "begin"} /\ y.by = w.by /\ y.shape = w.shape
        /\ y.pending = k /\ y.next = 1
        /\ y.pc = "policy" => w.shape.op # "smtp"
    BY <1>1 DEF Accepting
  <1>9. /\ Calm => w.orgUsed + w.pending + n <= FirstLimit \/ n = 0
        /\ ServerLimit[w.shape.server] # Unlimited =>
              w.srvUsed + w.pending + n <= ServerLimit[w.shape.server] \/ n = 0
    OBVIOUS
  <1>10. call' = [call EXCEPT ![c] = y] /\ AskOK(y) /\ Follows(c, y)
    BY <1>1 DEF Accepting, Follows
  <1> HIDE DEF w
  <1>14. ~OrgRead(y) /\ ~SrvRead(y) /\ ~PolicyRead(y) /\ OrgRead(w) /\ SrvRead(w) /\ w.pc \in Plain
    BY <1>2, <1>7 DEF OrgRead, SrvRead, PolicyRead, Plain
  <1>15. \A m, s : /\ OrgCharge(y, m, today, FirstLimit) = IF m < MonthOf(today) THEN 0 ELSE k
                   /\ SrvCharge(y, s, ServerLimit[s]) = IF w.shape.server # s THEN 0 ELSE k
    <2>1. CASE y.pc \in Plain
      BY <1>7, <1>14, <2>1, Owes
    <2>2. CASE y.pc = "store"
      <3>1. (IF y.next <= y.pending THEN y.pending + 1 - y.next ELSE 0) = k
        BY <1>5, <1>7
      <3>2. Charge(y, FALSE) = k
        BY <2>2, <3>1 DEF Charge
      <3>3. \A m, s : /\ (OrgRead(y) /\ Passes(y, y.orgUsed, FirstLimit)) = FALSE
                      /\ (SrvRead(y) /\ Passes(y, y.srvUsed, ServerLimit[s])) = FALSE
        BY <1>14
      <3> QED BY <1>7, <2>2, <3>2, <3>3 DEF OrgCharge, SrvCharge
    <2> QED BY <1>7, <2>1, <2>2 DEF Plain
  <1>16. \A m, s :
            /\ OrgCharge(w, m, today, FirstLimit) =
                  IF m < MonthOf(today) THEN 0
                  ELSE IF w.orgUsed + w.pending + n <= FirstLimit THEN k ELSE w.pending
            /\ SrvCharge(w, s, ServerLimit[s]) =
                  IF w.shape.server # s THEN 0
                  ELSE IF w.srvUsed + w.pending + n <= ServerLimit[s] THEN k ELSE w.pending
    BY <1>4, <1>14, Owes DEF Passes
  <1>17. ASSUME Calm', NEW m \in Months
         PROVE  OrgCharge(y, m, today, FirstLimit) <= OrgCharge(w, m, today, FirstLimit)
    <2>1. Calm
      BY <1>17, HistoryStays DEF Steady
    <2>2. w.orgUsed + w.pending + n <= FirstLimit \/ k = w.pending
      BY <1>4, <1>5, <1>9, <2>1
    <2>3. OrgCharge(y, m, today, FirstLimit) = OrgCharge(w, m, today, FirstLimit)
      BY <1>15, <1>16, <2>2
    <2>4. OrgCharge(y, m, today, FirstLimit) \in {0, k}
      BY <1>15
    <2>5. 0 <= 0 /\ k <= k
      BY <1>5
    <2> QED BY <2>3, <2>4, <2>5
  <1>18. ASSUME NEW s \in Servers, ServerLimit[s] # Unlimited
         PROVE  SrvCharge(y, s, ServerLimit[s]) <= SrvCharge(w, s, ServerLimit[s])
    <2>1. w.shape.server = s => w.srvUsed + w.pending + n <= ServerLimit[s] \/ k = w.pending
      BY <1>4, <1>5, <1>9, <1>18
    <2>2. SrvCharge(y, s, ServerLimit[s]) = SrvCharge(w, s, ServerLimit[s])
      BY <1>15, <1>16, <2>1
    <2>3. SrvCharge(y, s, ServerLimit[s]) \in {0, k}
      BY <1>15
    <2>4. 0 <= 0 /\ k <= k
      BY <1>5
    <2> QED BY <2>2, <2>3, <2>4
  <1>19. LimitKnown(y, Calm')
    BY <1>14 DEF LimitKnown
  <1> QED BY <1>10, <1>17, <1>18, <1>19, HistoryStays, QuietGates DEF w

LEMMA DecideGates ==
    ASSUME GateInv, UsageInv', PoliciesTyped', NEW c \in Clients, Decide(c)
    PROVE  GateInv'
  <1> DEFINE x == call[c]
             l == ServerLimit[x.shape.server]
             n == ItemOf(c).n
             a == Remaining(l, x.srvUsed + x.pending)
             b == Remaining(x.limit, x.orgUsed + x.pending)
  <1>1. /\ x.pc = "decide" /\ UNCHANGED <<scene, today, messages, history>>
        /\ (Allows(Stricter(a, b), n) /\ Accept(c)) \/ Refuse(c)
    BY DEF Decide, table
  <1>2. Steady
    BY <1>1, HistoryStays
  <1>3. CASE Refuse(c)
    BY <1>1, <1>2, <1>3, RefuseGates DEF Gates
  <1>4. CASE Allows(Stricter(a, b), n) /\ Accept(c)
    <2>1. /\ AskOK(x) /\ Fits(x) /\ x.shape.server \in Servers /\ scene \in Scenes
          /\ x.limit \in Nat \union {Unlimited} /\ (Calm => x.limit = FirstLimit)
      BY <1>1, Asked, MonthsTyped DEF LimitKnown, PolicyRead
    <2>2. n \in Nat /\ n = Needed(x)
      BY <1>1, <2>1, ChargeTyped DEF ItemOf, Needed, Gates
    <2>3. x.srvUsed + x.pending \in Nat /\ x.orgUsed + x.pending \in Nat
      BY <2>1 DEF AskOK
    <2> HIDE DEF n
    <2>4. l \in Nat \union {Unlimited}
      BY <2>1, LimitTyped
    <2>5. Calm => FirstLimit \in Nat
      BY <2>1, LimitTyped DEF Calm
    <2>6. Allows(a, n) /\ Allows(b, n)
      <3>1. a \in Nat \union {Unlimited} /\ b \in Nat \union {Unlimited}
        BY <2>1, <2>3, <2>4, RemainingTyped
      <3> HIDE DEF a, b
      <3> QED BY <1>4, <2>2, <3>1, StricterAllows
    <2>7. l # Unlimited => x.srvUsed + x.pending + n <= l \/ n = 0
      BY <2>2, <2>3, <2>4, <2>6, Passed
    <2>8. Calm => x.orgUsed + x.pending + n <= FirstLimit \/ n = 0
      BY <2>1, <2>2, <2>3, <2>5, <2>6, Passed
    <2> QED BY <1>1, <1>4, <2>7, <2>8, AcceptGates DEF n
  <1> QED BY <1>1, <1>3, <1>4

LEMMA BeginGates ==
    ASSUME GateInv, UsageInv', PoliciesTyped', NEW c \in Clients, Begin(c)
    PROVE  GateInv'
  <1>1. call[c].pc = "begin" /\ UNCHANGED <<scene, today, messages, history>>
    BY DEF Begin, table
  <1>2. Steady
    BY <1>1, HistoryStays
  <1>3. CASE \E r \in LiveRows(call[c].shape) : AnswerFrom(c, r)
    BY <1>1, <1>2, <1>3, AnswerClears, AnsweredGates
  <1>4. CASE ~\E r \in LiveRows(call[c].shape) : AnswerFrom(c, r)
    <2> DEFINE w == call[c]
               e == IF Keyed(c) /\ RowsFor(call[c].shape) # {}
                    THEN (CHOOSE r \in RowsFor(call[c].shape) : TRUE).response.by
                    ELSE 0
               x == [w EXCEPT !.expired = e]
               z == [x EXCEPT !.day = today]
               y == [z EXCEPT !.pc = "insert"]
    <2>0. call' = [call EXCEPT ![c].pc = "insert", ![c].day = today,
                ![c].expired = IF Keyed(c) /\ RowsFor(call[c].shape) # {}
                               THEN (CHOOSE r \in RowsFor(call[c].shape) : TRUE).response.by
                               ELSE 0]
      BY <1>4 DEF Begin
    <2>1. call' = [call EXCEPT ![c] = y]
      BY <2>0
    <2>2. IsCall(w) /\ AskOK(w) /\ w.pc = "begin"
      BY <1>1, Asked
    <2> HIDE DEF w, e
    <2>3. /\ IsCall(x) /\ x.by = w.by /\ x.shape = w.shape /\ x.plan = w.plan /\ x.next = w.next
          /\ x.pending = w.pending /\ x.orgUsed = w.orgUsed /\ x.srvUsed = w.srvUsed
      BY <2>2, SetExpired
    <2> HIDE DEF x
    <2>4. /\ IsCall(z) /\ z.by = w.by /\ z.shape = w.shape /\ z.plan = w.plan /\ z.next = w.next
          /\ z.day = today
          /\ z.pending = w.pending /\ z.orgUsed = w.orgUsed /\ z.srvUsed = w.srvUsed
      BY <2>3, SetDay
    <2> HIDE DEF z
    <2>5. /\ y.pc = "insert" /\ y.by = w.by /\ y.shape = w.shape /\ y.plan = w.plan /\ y.next = w.next
          /\ y.day = today
          /\ y.pending = w.pending /\ y.orgUsed = w.orgUsed /\ y.srvUsed = w.srvUsed
      BY <2>4, SetPc
    <2> HIDE DEF y
    <2>6. AskOK(y)
      BY <2>2, <2>5 DEF AskOK
    <2>7. ~OrgRead(y) /\ ~SrvRead(y) /\ ~PolicyRead(y)
      BY <2>5 DEF OrgRead, SrvRead, PolicyRead
    <2> QED BY <1>1, <1>2, <2>1, <2>2, <2>5, <2>6, <2>7, FallsGates DEF w, Plain
  <1> QED BY <1>3, <1>4

(* Another request's answer is waited for: nothing is owed any more. *)
LEMMA LoseRaceGates ==
    ASSUME GateInv, UsageInv', PoliciesTyped', NEW c \in Clients, LoseRace(c)
    PROVE  GateInv'
  <1> DEFINE x == call[c]
             y == [x EXCEPT !.pc = "raced"]
  <1>1. /\ x.pc = "insert" /\ UNCHANGED <<scene, today, messages, history>>
        /\ call' = [call EXCEPT ![c] = y]
    BY DEF LoseRace, Proceed, table
  <1>2. IsCall(x) /\ AskOK(x) /\ Fits(x) /\ scene \in Scenes
    BY <1>1, Asked, MonthsTyped
  <1>3. Steady
    BY <1>1, HistoryStays
  <1>4. \A m, s : /\ OrgCharge(x, m, today, FirstLimit) \in 0..Largest
                  /\ SrvCharge(x, s, ServerLimit[s]) \in 0..Largest
    BY <1>2, OrgChargeTyped, SrvChargeTyped
  <1>5. \A n \in 0..Largest : 0 <= n
    BY <1>2, LargestTyped
  <1>6. /\ y.pc = "raced" /\ y.by = x.by /\ y.shape = x.shape /\ y.plan = x.plan /\ y.next = x.next
        /\ y.pending = x.pending /\ y.orgUsed = x.orgUsed /\ y.srvUsed = x.srvUsed
    BY <1>2, SetPc
  <1>7. x.pc = "insert"
    BY <1>1
  <1>a. Follows(c, y)
    BY <1>6 DEF Follows
  <1> HIDE DEF y, x
  <1>8. AskOK(y) /\ LimitKnown(y, Calm')
    BY <1>2, <1>6, <1>7 DEF AskOK, LimitKnown, PolicyRead
  <1>9. \A m, s : /\ OrgCharge(y, m, today, FirstLimit) = 0
                  /\ SrvCharge(y, s, ServerLimit[s]) = 0
    BY <1>6 DEF OrgCharge, SrvCharge, Charge
  <1> QED BY <1>1, <1>3, <1>4, <1>5, <1>8, <1>9, <1>a, QuietGates DEF x

(* The requests that are answered without storing anything. *)
LEMMA AnswerGates ==
    ASSUME GateInv, UsageInv', PoliciesTyped', NEW c \in Clients,
           Reconcile(c) \/ AnswerRaced(c) \/ AllStored(c) \/ Fail(c)
    PROVE  GateInv'
  <1>1. call' = [call EXCEPT ![c] = Idle] /\ UNCHANGED <<scene, today, messages>>
    BY AnswerClears DEF Reconcile, AnswerRaced, AllStored, Fail, Answer, table
  <1>2. Steady
    <2>1. CASE Fail(c)
      <3>1. Outcome("query", TRUE)
        BY <2>1 DEF Fail
      <3> QED BY <1>1, <3>1, OutcomeGates
    <2>2. CASE ~Fail(c)
      <3>1. history' = history
        BY <2>2 DEF Reconcile, AnswerRaced, AllStored
      <3> QED BY <1>1, <3>1, HistoryStays
    <2> QED BY <2>1, <2>2
  <1> QED BY <1>1, <1>2, AnsweredGates

(***************************************************************************)
(* What is stored                                                          *)
(***************************************************************************)
LEMMA PartsCounted ==
    ASSUME NEW A, IsFiniteSet(A), NEW C, IsFiniteSet(C), NEW B, B \subseteq A \union C,
           NEW k \in Nat, Cardinality(C) <= k
    PROVE  Cardinality(B) <= Cardinality(A) + k
  <1> DEFINE a == Cardinality(A)
             b == Cardinality(B)
             c == Cardinality(C)
             u == Cardinality(A \union C)
             i == Cardinality(A \intersect C)
  <1>1. IsFiniteSet(A \union C) /\ u = a + c - i
    BY FS_Union
  <1>2. IsFiniteSet(A \intersect C)
    BY FS_Intersection
  <1>3. IsFiniteSet(B) /\ b <= u
    BY <1>1, FS_Subset
  <1>4. a \in Nat /\ b \in Nat /\ c \in Nat /\ u \in Nat /\ i \in Nat
    BY <1>1, <1>2, <1>3, FS_CardinalityType
  <1>5. c <= k
    OBVIOUS
  <1> HIDE DEF a, b, c, u, i
  <1>6. b <= a + k
    BY <1>1, <1>3, <1>4, <1>5
  <1> QED BY <1>6 DEF a, b

(* At most k messages of one server and day are stored. *)
LEMMA CountsGrow ==
    ASSUME Counted, NEW new, IsFiniteSet(new), messages' = messages \union new, today' = today,
           NEW k \in Nat, Cardinality(new) <= k, NEW server, NEW day,
           \A x \in new : x.server = server /\ x.day = day, history'.opened = history.opened
    PROVE  /\ \A m : OrgCount(m)' <= OrgCount(m) + (IF MonthOf(day) = m THEN k ELSE 0)
           /\ \A s : SrvCount(s)' <= SrvCount(s) + (IF server = s THEN k ELSE 0)
  <1>1. IsFiniteSet({}) /\ Cardinality({}) <= 0
    BY FS_EmptySet
  <1>2. ASSUME NEW m
        PROVE  OrgCount(m)' <= OrgCount(m) + (IF MonthOf(day) = m THEN k ELSE 0)
    <2> DEFINE A == {x \in Gated : MonthOf(x.day) = m}
               B == {x \in Gated' : MonthOf(x.day) = m}
    <2>1. IsFiniteSet(A)
      BY FS_Subset DEF Counted, Gated
    <2>2. CASE MonthOf(day) = m
      <3>1. B \subseteq A \union new
        BY DEF Gated
      <3>2. Cardinality(B) <= Cardinality(A) + k
        BY <2>1, <3>1, PartsCounted
      <3> QED BY <2>2, <3>2 DEF OrgCount
    <2>3. CASE MonthOf(day) # m
      <3>1. B \subseteq A \union {}
        BY <2>3 DEF Gated
      <3>2. Cardinality(B) <= Cardinality(A) + 0
        BY <1>1, <2>1, <3>1, PartsCounted
      <3> QED BY <2>3, <3>2 DEF OrgCount
    <2> QED BY <2>2, <2>3
  <1>3. ASSUME NEW s
        PROVE  SrvCount(s)' <= SrvCount(s) + (IF server = s THEN k ELSE 0)
    <2> DEFINE A == {x \in Gated : x.server = s /\ x.day > today - Window}
               B == {x \in Gated' : x.server = s /\ x.day > today - Window}
    <2>1. IsFiniteSet(A)
      BY FS_Subset DEF Counted, Gated
    <2>2. CASE server = s
      <3>1. B \subseteq A \union new
        BY DEF Gated
      <3>2. Cardinality(B) <= Cardinality(A) + k
        BY <2>1, <3>1, PartsCounted
      <3> QED BY <2>2, <3>2 DEF SrvCount
    <2>3. CASE server # s
      <3>1. B \subseteq A \union {}
        BY <2>3 DEF Gated
      <3>2. Cardinality(B) <= Cardinality(A) + 0
        BY <1>1, <2>1, <3>1, PartsCounted
      <3>3. SrvCount(s) = Cardinality(A) /\ SrvCount(s)' = Cardinality(B)
        BY DEF SrvCount
      <3> HIDE DEF A, B
      <3> QED BY <2>3, <3>2, <3>3
    <2> QED BY <2>2, <2>3
  <1> QED BY <1>2, <1>3

(* What a call stores whose gates were open does not count. *)
LEMMA OpenStores ==
    ASSUME NEW by, by \in history.opened, history'.opened = history.opened, today' = today,
           NEW new, messages' = messages \union new, \A x \in new : x.by = by
    PROVE  \A m, s : OrgCount(m)' = OrgCount(m) /\ SrvCount(s)' = SrvCount(s)
  <1>1. Gated' = Gated
    BY DEF Gated
  <1> QED BY <1>1 DEF OrgCount, SrvCount

(* A transaction stores what the request owed in the month it began.       *)
LEMMA CommitGates ==
    ASSUME GateInv, UsageInv', PoliciesTyped', NEW c \in Clients, NEW lost, Commit(c, lost)
    PROVE  GateInv'
  <1> DEFINE x   == call[c]
             new == MessagesOf(x.by, x.shape, x.plan, x.day)
             p   == x.pending
  <1>1. /\ x.pc = "insert" /\ Outcome("lost", lost) /\ messages' = messages \union new
        /\ UNCHANGED <<scene, today>> /\ call' = [call EXCEPT ![c] = Idle]
    BY DEF Commit, Insert, Answer
  <1>2. Steady
    BY <1>1, OutcomeGates
  <1>3. AskOK(x) /\ Fits(x) /\ scene \in Scenes
    BY <1>1, Asked, MonthsTyped
  <1>4. p \in Nat /\ IsFiniteSet(new) /\ Cardinality(new) <= p
    <2>1. x.shape \in Shapes /\ x.plan \in Seq(BOOLEAN) /\ Len(x.plan) <= Len(x.shape.items)
      BY <1>3 DEF Fits
    <2>2. p = Cardinality(MessagesOf(0, x.shape, x.plan, 0)) /\ p \in Nat
      BY <1>3 DEF AskOK
    <2>3. IsFiniteSet(new)
      BY <1>1, CallMessages DEF GateInv, UsageInv
    <2> HIDE DEF x
    <2>4. IsFiniteSet(MessagesOf(0, x.shape, x.plan, 0))
      BY <1>3, <2>1, PlanBounded
    <2>5. Cardinality(new) <= Cardinality(MessagesOf(0, x.shape, x.plan, 0))
      BY <2>4, SameSize
    <2> QED BY <2>2, <2>3, <2>5
  <1>5. \A z \in new : z.by = x.by /\ z.server = x.shape.server /\ z.day = x.day
    BY MessageNamed
  <1>6. Counted /\ Counted'
    BY DEF GateInv, UsageInv
  <1>7. \A m, s : /\ OrgCount(m) \in Nat /\ SrvCount(s) \in Nat
                  /\ (OrgCount(m) \in Nat)' /\ (SrvCount(s) \in Nat)'
    BY <1>6, FS_Subset, FS_CardinalityType DEF Counted, OrgCount, SrvCount, Gated
  <1>8. x.pc = "insert"
    BY <1>1
  <1> HIDE DEF new, x, p
  <1>9. /\ \A m : OrgCount(m)' <= OrgCount(m) + (IF MonthOf(x.day) = m THEN p ELSE 0)
        /\ \A s : SrvCount(s)' <= SrvCount(s) + (IF x.shape.server = s THEN p ELSE 0)
    BY <1>1, <1>2, <1>4, <1>5, <1>6, CountsGrow DEF Steady
  <1>10. /\ \A m : OrgCharge(x, m, today, FirstLimit) = IF MonthOf(x.day) = m THEN p ELSE 0
         /\ \A s : SrvCharge(x, s, ServerLimit[s]) = IF x.shape.server = s THEN p ELSE 0
    BY <1>8 DEF OrgCharge, SrvCharge, Charge, SrvRead, p
  <1>11. /\ Idle.pc = "idle"
         /\ \A m, s : OrgOwes(Idle, m) = 0 /\ SrvOwes(Idle, s) = 0
    BY DEF Idle, OrgCharge, SrvCharge, OrgOwes, SrvOwes
  <1>12. ASSUME NEW t \in Nat, NEW n \in Nat, NEW v, t <= n + v
         PROVE  t + 0 <= n + v
    BY <1>12
  <1>13. CASE ~Opened(x)
    <2>1. \A m, s : /\ OrgOwes(x, m) = OrgCharge(x, m, today, FirstLimit)
                    /\ SrvOwes(x, s) = SrvCharge(x, s, ServerLimit[s])
      BY <1>13 DEF OrgOwes, SrvOwes
    <2>2. OrgMoves(c, Idle)
      BY <1>7, <1>9, <1>10, <1>11, <1>12, <2>1 DEF OrgMoves, x
    <2>3. SrvMoves(c, Idle)
      BY <1>7, <1>9, <1>10, <1>11, <1>12, <2>1 DEF SrvMoves, x
    <2> QED BY <1>1, <1>2, <1>11, <2>2, <2>3, ClientGates
  <1>14. CASE Opened(x)
    <2>1. \A m, s : OrgOwes(x, m) = 0 /\ SrvOwes(x, s) = 0
      BY <1>14 DEF OrgOwes, SrvOwes
    <2>2. \A m, s : OrgCount(m)' = OrgCount(m) /\ SrvCount(s)' = SrvCount(s)
      BY <1>1, <1>2, <1>5, <1>14, OpenStores DEF Opened, Steady
    <2>3. \A n \in Nat : n + 0 <= n + 0
      OBVIOUS
    <2>4. OrgMoves(c, Idle)
      BY <1>7, <1>11, <2>1, <2>2, <2>3 DEF OrgMoves, x
    <2>5. SrvMoves(c, Idle)
      BY <1>7, <1>11, <2>1, <2>2, <2>3 DEF SrvMoves, x
    <2> QED BY <1>1, <1>2, <1>11, <2>4, <2>5, ClientGates
  <1> QED BY <1>13, <1>14

(* One recipient after another. *)
LEMMA StoreOneGates ==
    ASSUME GateInv, UsageInv', PoliciesTyped', NEW c \in Clients, NEW fails, StoreOne(c, fails)
    PROVE  GateInv'
  <1> DEFINE x   == call[c]
             all == MessagesOf(x.by, x.shape, x.plan, today)
             new == IF fails THEN {} ELSE {z \in all : z.rcpt = x.next}
             y   == [x EXCEPT !.next = @ + 1]
             k   == x.next + 1
             p   == x.pending
  <1>1. /\ x.pc = "store" /\ Outcome("store", fails) /\ x.next <= x.shape.items[1].n
        /\ UNCHANGED <<scene, today>>
    BY DEF StoreOne
  <1>2. call' = [call EXCEPT ![c] = y]
    <2>1. call' = [call EXCEPT ![c].next = @ + 1]
      BY DEF StoreOne
    <2> QED BY <2>1
  <1>3. messages' = messages \union new
    BY DEF StoreOne, Insert
  <1>4. Steady
    BY <1>1, OutcomeGates
  <1>5. AskOK(x) /\ Fits(x) /\ IsCall(x) /\ scene \in Scenes
    BY <1>1, Asked, MonthsTyped
  <1>6. /\ x.next \in Nat \ {0} /\ x.shape.items[1].n = p /\ Len(x.plan) = 1 /\ p \in Nat
        /\ x.next <= p
    BY <1>1, <1>5 DEF AskOK
  <1>7. IsFiniteSet(new) /\ Cardinality(new) <= 1
    <2> DEFINE one == MessageOf(x.by, 1, x.next, x.shape.server, today)
    <2>1. \A z \in all : z.rcpt = x.next => z = one
      <3> SUFFICES ASSUME NEW z \in all, z.rcpt = x.next
                   PROVE  z = one
        OBVIOUS
      <3>1. PICK i, j : Planned(z, x.by, x.shape, x.plan, today, i, j)
        BY InMessages
      <3>2. i = 1 /\ z = MessageOf(x.by, i, j, x.shape.server, today)
        BY <1>6, <3>1 DEF Planned
      <3>3. z.rcpt = j
        BY <3>2 DEF MessageOf
      <3> QED BY <3>2, <3>3
    <2>2. new \subseteq {one}
      BY <2>1
    <2>3. IsFiniteSet({one}) /\ Cardinality({one}) = 1
      BY FS_Singleton
    <2> HIDE DEF new, one
    <2> QED BY <2>2, <2>3, FS_Subset
  <1>8. \A z \in new : z.by = x.by /\ z.server = x.shape.server /\ z.day = today
    BY MessageNamed
  <1>9. Counted /\ Counted'
    BY DEF GateInv, UsageInv
  <1>10. \A m, s : /\ OrgCount(m) \in Nat /\ SrvCount(s) \in Nat
                   /\ (OrgCount(m) \in Nat)' /\ (SrvCount(s) \in Nat)'
    BY <1>9, FS_Subset, FS_CardinalityType DEF Counted, OrgCount, SrvCount, Gated
  <1>11. x.pc = "store"
    BY <1>1
  <1>a. y = [x EXCEPT !.next = k]
    OBVIOUS
  <1> HIDE DEF new, all, x, y
  <1>12. /\ \A m : OrgCount(m)' <= OrgCount(m) + (IF MonthOf(today) = m THEN 1 ELSE 0)
         /\ \A s : SrvCount(s)' <= SrvCount(s) + (IF x.shape.server = s THEN 1 ELSE 0)
    BY <1>1, <1>3, <1>4, <1>7, <1>8, <1>9, CountsGrow DEF Steady
  <1>13. /\ y.pc = "store" /\ y.by = x.by /\ y.shape = x.shape /\ y.plan = x.plan /\ y.next = k
         /\ y.pending = p /\ y.orgUsed = x.orgUsed /\ y.srvUsed = x.srvUsed
    <2> HIDE DEF k
    <2> QED BY <1>5, <1>11, <1>a, SetNext
  <1>14. AskOK(y) /\ LimitKnown(y, Calm')
    <2>1. k \in Nat \ {0}
      BY <1>6
    <2> HIDE DEF k
    <2> QED BY <1>5, <1>11, <1>13, <2>1 DEF AskOK, LimitKnown, PolicyRead
  <1> DEFINE v == p + 1 - x.next
             w == IF k <= p THEN p + 1 - k ELSE 0
  <1>15. v \in Nat /\ w \in Nat /\ w + 1 = v
    BY <1>6
  <1>16. /\ \A m : OrgCharge(x, m, today, FirstLimit) = IF m < MonthOf(today) THEN 0 ELSE v
         /\ \A s : SrvCharge(x, s, ServerLimit[s]) = IF x.shape.server # s THEN 0 ELSE v
    <2>1. Charge(x, FALSE) = v
      BY <1>6, <1>11 DEF Charge
    <2>2. \A m, s : /\ (OrgRead(x) /\ Passes(x, x.orgUsed, FirstLimit)) = FALSE
                    /\ (SrvRead(x) /\ Passes(x, x.srvUsed, ServerLimit[s])) = FALSE
      BY <1>11 DEF OrgRead, SrvRead
    <2> HIDE DEF v
    <2> QED BY <1>11, <2>1, <2>2 DEF OrgCharge, SrvCharge
  <1>17. /\ \A m : OrgCharge(y, m, today, FirstLimit) = IF m < MonthOf(today) THEN 0 ELSE w
         /\ \A s : SrvCharge(y, s, ServerLimit[s]) = IF x.shape.server # s THEN 0 ELSE w
    <2>1. Charge(y, FALSE) = w
      BY <1>6, <1>13 DEF Charge
    <2>2. \A m, s : /\ (OrgRead(y) /\ Passes(y, y.orgUsed, FirstLimit)) = FALSE
                    /\ (SrvRead(y) /\ Passes(y, y.srvUsed, ServerLimit[s])) = FALSE
      BY <1>13 DEF OrgRead, SrvRead
    <2> HIDE DEF w
    <2> QED BY <1>13, <2>1, <2>2 DEF OrgCharge, SrvCharge
  <1>18. CASE ~Opened(x)
    <2>a. ~Opened(y)
      BY <1>13, <1>18 DEF Opened
    <2>1. OrgMoves(c, y)
      <3> SUFFICES ASSUME NEW m \in Months
                   PROVE  OrgCount(m)' + OrgCharge(y, m, today, FirstLimit)
                             <= OrgCount(m) + OrgCharge(x, m, today, FirstLimit)
        BY <1>18, <2>a DEF OrgMoves, OrgOwes, x
      <3> DEFINE t == OrgCount(m)'
                 n == OrgCount(m)
      <3>1. t \in Nat /\ n \in Nat /\ t <= n + (IF MonthOf(today) = m THEN 1 ELSE 0)
        BY <1>10, <1>12
      <3>2. m \in Int /\ MonthOf(today) \in Int
        BY MonthsTyped
      <3> HIDE DEF t, n, v, w
      <3>3. CASE m < MonthOf(today)
        <4>1. t + 0 <= n + 0
          BY <3>1, <3>2, <3>3
        <4> QED BY <1>16, <1>17, <3>3, <4>1 DEF t, n
      <3>4. CASE ~(m < MonthOf(today))
        <4>1. t + w <= n + v
          BY <1>15, <3>1
        <4> QED BY <1>16, <1>17, <3>4, <4>1 DEF t, n
      <3> QED BY <3>3, <3>4
    <2>2. SrvMoves(c, y)
      <3> SUFFICES ASSUME NEW s \in Servers
                   PROVE  SrvCount(s)' + SrvCharge(y, s, ServerLimit[s])
                             <= SrvCount(s) + SrvCharge(x, s, ServerLimit[s])
        BY <1>18, <2>a DEF SrvMoves, SrvOwes, x
      <3> DEFINE t == SrvCount(s)'
                 n == SrvCount(s)
      <3>1. t \in Nat /\ n \in Nat /\ t <= n + (IF x.shape.server = s THEN 1 ELSE 0)
        BY <1>10, <1>12
      <3> HIDE DEF t, n, v, w
      <3>2. CASE x.shape.server # s
        <4>1. t + 0 <= n + 0
          BY <3>1, <3>2
        <4> QED BY <1>16, <1>17, <3>2, <4>1 DEF t, n
      <3>3. CASE x.shape.server = s
        <4>1. t + w <= n + v
          BY <1>15, <3>1
        <4> QED BY <1>16, <1>17, <3>3, <4>1 DEF t, n
      <3> QED BY <3>2, <3>3
    <2> QED BY <1>1, <1>2, <1>4, <1>14, <2>1, <2>2, ClientGates
  <1>19. CASE Opened(x)
    <2>1. \A m, s : /\ OrgOwes(x, m) = 0 /\ SrvOwes(x, s) = 0
                    /\ OrgOwes(y, m) = 0 /\ SrvOwes(y, s) = 0
      BY <1>13, <1>19 DEF OrgOwes, SrvOwes, Opened
    <2>2. \A m, s : OrgCount(m)' = OrgCount(m) /\ SrvCount(s)' = SrvCount(s)
      BY <1>1, <1>3, <1>4, <1>8, <1>19, OpenStores DEF Opened, Steady
    <2>3. \A n \in Nat : n + 0 <= n + 0
      OBVIOUS
    <2>4. OrgMoves(c, y) /\ SrvMoves(c, y)
      BY <1>10, <2>1, <2>2, <2>3 DEF OrgMoves, SrvMoves, x
    <2> QED BY <1>1, <1>2, <1>4, <1>14, <2>4, ClientGates
  <1> QED BY <1>18, <1>19

(***************************************************************************)
(* The gates of a call are opened                                          *)
(***************************************************************************)
(* From then on it owes nothing; what it has stored would no longer count. *)
LEMMA OpenedGates ==
    ASSUME GateInv, UsageInv', PoliciesTyped', NEW c \in Clients, NEW y, call' = [call EXCEPT ![c] = y],
           NEW fails, OpenGates(c, fails), messages' = messages,
           y.pc # "idle" => y.by = call[c].by /\ AskOK(y) /\ ~PolicyRead(y)
    PROVE  GateInv'
  <1>1. /\ call' = [d \in Clients |-> call'[d]]
        /\ \A d \in Clients : call'[d] = IF d = c THEN y ELSE call[d]
    BY ClientStep DEF GateInv, UsageInv, Inv
  <1>2. UNCHANGED <<scene, today>> /\ scene \in Scenes
    BY MonthsTyped DEF OpenGates
  <1>3. /\ history'.changes = history.changes
        /\ history'.opened = history.opened \union {call[c].by}
        /\ history.faults \in Nat /\ history'.faults \in Nat
        /\ history'.faults = 0 => history.faults = 0
    BY OpenKeeps DEF GateInv, UsageInv
  <1>4. /\ Servers' = Servers /\ Months' = Months /\ FirstLimit' = FirstLimit
        /\ ServerLimit' = ServerLimit /\ Faults' = Faults
    BY <1>2, SceneStays DEF FirstLimit, ServerLimit, Faults
  <1>5. Calm' => Calm
    BY <1>3, <1>4 DEF Calm
  <1>6. Counted /\ Counted'
    BY DEF GateInv, UsageInv
  <1>7. \A m, s : OrgCount(m) \in Nat /\ SrvCount(s) \in Nat
    BY <1>6, CountTyped
  <1>8. \A m, s : /\ OrgCount(m)' \in Nat /\ OrgCount(m)' <= OrgCount(m)
                  /\ SrvCount(s)' \in Nat /\ SrvCount(s)' <= SrvCount(s)
    <2> SUFFICES ASSUME NEW m, NEW s
                 PROVE  /\ OrgCount(m)' \in Nat /\ OrgCount(m)' <= OrgCount(m)
                        /\ SrvCount(s)' \in Nat /\ SrvCount(s)' <= SrvCount(s)
      OBVIOUS
    <2>1. Gated' \subseteq Gated /\ IsFiniteSet(Gated)
      BY <1>3, <1>6, FS_Subset DEF Gated, Counted
    <2> DEFINE A == {x \in Gated : MonthOf(x.day) = m}
               B == {x \in Gated' : MonthOf(x.day) = m}
               C == {x \in Gated : x.server = s /\ x.day > today - Window}
               D == {x \in Gated' : x.server = s /\ x.day > today - Window}
    <2>2. IsFiniteSet(A) /\ IsFiniteSet(C) /\ B \subseteq A /\ D \subseteq C
      BY <2>1, FS_Subset
    <2>3. /\ OrgCount(m) = Cardinality(A) /\ OrgCount(m)' = Cardinality(B)
          /\ SrvCount(s) = Cardinality(C) /\ SrvCount(s)' = Cardinality(D)
      BY <1>2 DEF OrgCount, SrvCount
    <2> HIDE DEF A, B, C, D
    <2> QED BY <2>2, <2>3, FS_Subset, FS_CardinalityType
  <1>9. \A d \in Clients : call[d].pc # "idle" => Fits(call[d]) /\ AskOK(call[d])
    BY Asked
  <1>10. \A n \in 0..Largest : n \in Nat /\ n <= n /\ 0 <= n
    BY <1>2, LargestTyped
  <1>11. \A d \in Clients : \A m, s :
            /\ OrgOwes(call[d], m) \in 0..Largest /\ OrgOwes(call[d], m)' \in {0, OrgOwes(call[d], m)}
            /\ SrvOwes(call[d], s) \in 0..Largest /\ SrvOwes(call[d], s)' \in {0, SrvOwes(call[d], s)}
    <2> SUFFICES ASSUME NEW d \in Clients, NEW m, NEW s
                 PROVE  /\ OrgOwes(call[d], m) \in 0..Largest
                        /\ OrgOwes(call[d], m)' \in {0, OrgOwes(call[d], m)}
                        /\ SrvOwes(call[d], s) \in 0..Largest
                        /\ SrvOwes(call[d], s)' \in {0, SrvOwes(call[d], s)}
      OBVIOUS
    <2>1. OrgOwes(call[d], m) \in 0..Largest /\ SrvOwes(call[d], s) \in 0..Largest
      BY <1>2, <1>9, OwesTyped
    <2>2. CASE d # c
      <3>1. call'[d] = call[d]
        BY <1>1, <2>2
      <3> QED BY <1>2, <1>3, <1>4, <2>1, <3>1 DEF OrgOwes, SrvOwes, Opened
    <2>3. CASE d = c
      <3>1. call'[d] = y
        BY <1>1, <2>3
      <3>2. CASE y.pc = "idle"
        <4>1. \A e, l : OrgCharge(y, m, e, l) = 0 /\ SrvCharge(y, s, l) = 0
          BY <3>2 DEF OrgCharge, SrvCharge
        <4> QED BY <2>1, <3>1, <4>1 DEF OrgOwes, SrvOwes
      <3>3. CASE y.pc # "idle"
        <4>1. y.by \in history'.opened
          BY <1>3, <3>3
        <4> QED BY <2>1, <3>1, <4>1 DEF OrgOwes, SrvOwes, Opened
      <3> QED BY <3>2, <3>3
    <2> QED BY <2>2, <2>3
  <1>12. ASSUME Calm', NEW m \in Months
         PROVE  Held(OrgCount(m), OrgOwed(m), FirstLimit)'
    <2> DEFINE V == [d \in Clients |-> OrgOwes(call[d], m)]
               W == [d \in Clients |-> OrgOwes(call[d], m)']
               s == OrgCount(m)
               t == OrgCount(m)'
               l == FirstLimit
    <2>1. Held(s, V, l)
      BY <1>5, <1>12 DEF GateInv, OrgHeld, OrgOwed
    <2>2. \A d \in Clients : V[d] \in Nat /\ W[d] \in Nat /\ W[d] <= V[d]
      BY <1>10, <1>11
    <2>3. s \in Nat /\ t \in Nat /\ t <= s /\ l \in Nat
      BY <1>2, <1>5, <1>7, <1>8, <1>12, LimitTyped DEF Calm
    <2>4. OrgOwed(m)' = W /\ FirstLimit' = l
      BY <1>4 DEF OrgOwed
    <2> HIDE DEF V, W, s, t, l
    <2>5. Held(t, W, l)
      BY <1>2, <2>1, <2>2, <2>3, HeldByLess
    <2>6. t + Cardinality({p \in Clients \X (1..Largest') : p[2] <= W[p[1]]}) <= l + Slack'
      BY <1>2, <2>5, HeldStays
    <2> QED BY <2>4, <2>6 DEF Held, Debt, t
  <1>13. ASSUME NEW z \in Servers, ServerLimit[z] # Unlimited
         PROVE  Held(SrvCount(z), SrvOwed(z), ServerLimit[z])'
    <2> DEFINE V == [d \in Clients |-> SrvOwes(call[d], z)]
               W == [d \in Clients |-> SrvOwes(call[d], z)']
               s == SrvCount(z)
               t == SrvCount(z)'
               l == ServerLimit[z]
    <2>1. Held(s, V, l)
      BY <1>13 DEF GateInv, SrvHeld, SrvOwed
    <2>2. \A d \in Clients : V[d] \in Nat /\ W[d] \in Nat /\ W[d] <= V[d]
      BY <1>10, <1>11
    <2>3. s \in Nat /\ t \in Nat /\ t <= s /\ l \in Nat
      BY <1>2, <1>7, <1>8, <1>13, LimitTyped
    <2>4. SrvOwed(z)' = W /\ (ServerLimit[z])' = l
      BY <1>4 DEF SrvOwed
    <2> HIDE DEF V, W, s, t, l
    <2>5. Held(t, W, l)
      BY <1>2, <2>1, <2>2, <2>3, HeldByLess
    <2>6. t + Cardinality({p \in Clients \X (1..Largest') : p[2] <= W[p[1]]}) <= l + Slack'
      BY <1>2, <2>5, HeldStays
    <2> QED BY <2>4, <2>6 DEF Held, Debt, t
  <1>14. \A d \in Clients : (Serving(d) => AskOK(call[d]) /\ LimitKnown(call[d], Calm))'
    BY <1>1, <1>4, <1>5 DEF GateInv, Serving, LimitKnown, AskOK
  <1> QED BY <1>3, <1>4, <1>12, <1>13, <1>14 DEF GateInv, OrgHeld, SrvHeld

LEMMA OpenedAccepts ==
    ASSUME GateInv, UsageInv', PoliciesTyped', NEW c \in Clients, call[c].pc = "server", Accept(c),
           NEW fails, OpenGates(c, fails), messages' = messages
    PROVE  GateInv'
  <1>1. PICK y, k : Accepting(c, y, k)
    BY AcceptAsks
  <1>2. call' = [call EXCEPT ![c] = y] /\ y.by = call[c].by /\ AskOK(y) /\ ~PolicyRead(y)
    BY <1>1 DEF Accepting, PolicyRead
  <1> QED BY <1>2, OpenedGates

LEMMA ReadServerGates ==
    ASSUME GateInv, UsageInv', PoliciesTyped', NEW c \in Clients, NEW fails, ReadServer(c, fails)
    PROVE  GateInv'
  <1>1. call[c].pc = "server" /\ messages' = messages
    BY DEF ReadServer, OpenGates, table
  <1>2. CASE Accept(c) /\ OpenGates(c, TRUE)
    BY <1>1, <1>2, OpenedAccepts
  <1>3. CASE Proceed(c, "serverUsage") /\ UNCHANGED <<scene, today, history>>
    <2>1. call[c].shape.op = "smtp"
      BY <1>1, Asked DEF AskOK
    <2> QED BY <1>1, <1>3, <2>1, HistoryStays, ProceedsGates DEF Plain
  <1> QED BY <1>2, <1>3 DEF ReadServer

LEMMA OtherServerGates ==
    ASSUME GateInv, UsageInv', PoliciesTyped', NEW c \in Clients, OtherServer(c)
    PROVE  GateInv'
  <1>1. call[c].pc = "server" /\ messages' = messages /\ OpenGates(c, FALSE)
    BY DEF OtherServer, OpenGates, table
  <1>2. CASE Accept(c)
    BY <1>1, <1>2, OpenedAccepts
  <1>3. CASE Refuse(c)
    <2>1. call[c].shape.op = "smtp" /\ IsCall(call[c]) /\ AskOK(call[c])
      BY <1>1, Asked DEF AskOK
    <2>2. CASE Proceed(c, "reconcile")
      <3> DEFINE x == call[c]
                 y == [x EXCEPT !.pc = "reconcile"]
      <3>1. call' = [call EXCEPT ![c] = y]
        BY <2>2 DEF Proceed
      <3>2. /\ y.pc = "reconcile" /\ y.by = x.by /\ y.shape = x.shape /\ y.plan = x.plan
            /\ y.next = x.next /\ y.pending = x.pending
            /\ y.orgUsed = x.orgUsed /\ y.srvUsed = x.srvUsed
        BY <2>1, SetPc
      <3>3. x.pc = "server" /\ AskOK(x)
        BY <1>1, <2>1
      <3> HIDE DEF x, y
      <3>4. AskOK(y) /\ ~PolicyRead(y)
        BY <3>2, <3>3 DEF AskOK, PolicyRead
      <3> QED BY <1>1, <3>1, <3>2, <3>4, OpenedGates DEF x
    <2>3. CASE Answer(c, "refused", Nothing)
      <3>1. call' = [call EXCEPT ![c] = Idle] /\ Idle.pc = "idle"
        BY <2>3 DEF Answer, Idle
      <3> QED BY <1>1, <3>1, OpenedGates
    <2> QED BY <1>3, <2>1, <2>2, <2>3 DEF Refuse
  <1> QED BY <1>2, <1>3 DEF OtherServer

(***************************************************************************)
(* Administrators, time and housekeeping                                   *)
(***************************************************************************)
(* No request moves. *)
LEMMA StillGates ==
    ASSUME GateInv, UsageInv', PoliciesTyped', UNCHANGED <<scene, today, messages, call>>,
           Steady
    PROVE  GateInv'
  <1>1. /\ Servers' = Servers /\ Months' = Months /\ FirstLimit' = FirstLimit
        /\ ServerLimit' = ServerLimit /\ Slack' = Slack /\ Largest' = Largest
    BY SceneStays, LargestStays DEF FirstLimit, ServerLimit
  <1>2. /\ \A m : OrgCount(m)' = OrgCount(m) /\ OrgOwed(m)' = OrgOwed(m)
        /\ \A s : SrvCount(s)' = SrvCount(s) /\ SrvOwed(s)' = SrvOwed(s)
    BY <1>1 DEF OrgCount, SrvCount, OrgOwed, SrvOwed, OrgOwes, SrvOwes, Opened, Gated, Steady
  <1>3. \A W : Debt(W)' = Debt(W)
    BY <1>1 DEF Debt
  <1>4. Calm' => OrgHeld'
    BY <1>1, <1>2 DEF GateInv, OrgHeld, Held, Debt, Steady
  <1>5. SrvHeld'
    BY <1>1, <1>2 DEF GateInv, SrvHeld, Held, Debt
  <1>6. \A c \in Clients : (Serving(c) => AskOK(call[c]) /\ LimitKnown(call[c], Calm))'
    BY <1>1 DEF GateInv, Serving, LimitKnown, Steady
  <1> QED BY <1>4, <1>5, <1>6 DEF GateInv, Steady

(* The next day, less is owed in the months that are over, and the window  *)
(* of the server's limit has moved on.                                     *)
LEMMA DayTurnsGates ==
    ASSUME GateInv, UsageInv', PoliciesTyped', DayTurns
    PROVE  GateInv'
  <1>1. /\ UNCHANGED <<scene, messages, call, history>> /\ today' = today + 1
    BY DEF DayTurns, table
  <1>2. /\ scene \in Scenes /\ today \in Nat /\ today' \in Nat /\ today <= today'
        /\ \A m \in Months : m \in Int
    BY <1>1, MonthsTyped
  <1>3. /\ MonthOf(today) \in Int /\ MonthOf(today') \in Int /\ MonthOf(today) <= MonthOf(today')
    BY <1>2, MonthsFollow
  <1>4. /\ Servers' = Servers /\ Months' = Months /\ FirstLimit' = FirstLimit
        /\ ServerLimit' = ServerLimit /\ Slack' = Slack /\ Largest' = Largest
    BY <1>1, SceneStays, LargestStays DEF FirstLimit, ServerLimit
  <1>5. \A c \in Clients : call[c].pc # "idle" => Fits(call[c]) /\ AskOK(call[c])
    BY Asked
  <1>6. Calm' = Calm /\ history'.faults \in Nat
    BY <1>1, <1>4 DEF GateInv, Calm, Faults
  <1>7. Counted
    BY DEF GateInv, UsageInv
  <1>8. \A n \in 0..Largest : n \in Nat /\ n <= n /\ 0 <= n
    BY <1>2, LargestTyped
  <1>9. ASSUME Calm, NEW m \in Months
        PROVE  Held(OrgCount(m), OrgOwed(m), FirstLimit)'
    <2> DEFINE O(x, d) == IF Opened(x) THEN 0 ELSE OrgCharge(x, m, d, FirstLimit)
               V == [d \in Clients |-> O(call[d], today)]
               W == [d \in Clients |-> O(call[d], today')]
               s == OrgCount(m)
               l == FirstLimit
    <2>1. Held(s, V, l)
      BY <1>9 DEF GateInv, OrgHeld, OrgOwed, OrgOwes
    <2>2. \A d \in Clients : V[d] \in 0..Largest /\ W[d] \in 0..Largest
      BY <1>2, <1>5, OrgChargeTyped, LargestTyped
    <2>3. \A d \in Clients : W[d] = V[d] \/ W[d] = 0
      <3> SUFFICES ASSUME NEW d \in Clients
                   PROVE  O(call[d], today') = O(call[d], today) \/ O(call[d], today') = 0
        OBVIOUS
      <3>1. m < MonthOf(today) => m < MonthOf(today')
        BY <1>2, <1>3
      <3> QED BY <3>1 DEF OrgCharge
    <2>4. \A d \in Clients : V[d] \in Nat /\ W[d] \in Nat /\ W[d] <= V[d]
      BY <1>8, <2>2, <2>3
    <2>5. s \in Nat /\ l \in Nat /\ s <= s
      BY <1>2, <1>7, <1>9, CountTyped, LimitTyped DEF Calm
    <2>6. OrgCount(m)' = s /\ OrgOwed(m)' = W /\ FirstLimit' = l
      BY <1>1, <1>4 DEF OrgCount, OrgOwed, OrgOwes, Opened, Gated
    <2> HIDE DEF V, W, s, l
    <2>7. Held(s, W, l)
      BY <1>2, <2>1, <2>4, <2>5, HeldByLess
    <2>8. s + Cardinality({p \in Clients \X (1..Largest') : p[2] <= W[p[1]]}) <= l + Slack'
      BY <1>1, <2>7, HeldStays
    <2> QED BY <2>6, <2>8 DEF Held, Debt
  <1>10. ASSUME NEW z \in Servers, ServerLimit[z] # Unlimited
         PROVE  Held(SrvCount(z), SrvOwed(z), ServerLimit[z])'
    <2> DEFINE l == ServerLimit[z]
               V == [d \in Clients |-> SrvOwes(call[d], z)]
               s == SrvCount(z)
               t == SrvCount(z)'
               A == {x \in Gated : x.server = z /\ x.day > today - Window}
               B == {x \in Gated : x.server = z /\ x.day > today' - Window}
    <2>1. Held(s, V, l)
      BY <1>10 DEF GateInv, SrvHeld, SrvOwed
    <2>2. \A d \in Clients : V[d] \in Nat /\ V[d] <= V[d]
      BY <1>2, <1>5, <1>8, OwesTyped
    <2>3. t \in Nat /\ t <= s
      <3>1. B \subseteq A
        <4>1. \A x \in Gated : x.day \in Nat
          BY <1>2, <1>7 DEF Counted, Gated
        <4>2. Window \in Nat
          BY SubmissionAssumption
        <4> QED BY <1>1, <1>2, <4>1, <4>2
      <3>2. IsFiniteSet(A)
        BY <1>7, FS_Subset DEF Counted, Gated
      <3>3. IsFiniteSet(B) /\ Cardinality(B) <= Cardinality(A)
        BY <3>1, <3>2, FS_Subset
      <3>4. t = Cardinality(B)
        BY <1>1 DEF SrvCount, Gated
      <3> QED BY <3>3, <3>4, FS_CardinalityType DEF SrvCount
    <2>4. s \in Nat /\ l \in Nat
      BY <1>2, <1>7, <1>10, CountTyped, LimitTyped
    <2>5. SrvOwed(z)' = V /\ (ServerLimit[z])' = l
      BY <1>1, <1>4 DEF SrvOwed, SrvOwes, Opened
    <2> HIDE DEF V, s, t, l
    <2>6. Held(t, V, l)
      BY <1>2, <2>1, <2>2, <2>3, <2>4, HeldByLess
    <2>7. t + Cardinality({p \in Clients \X (1..Largest') : p[2] <= V[p[1]]}) <= l + Slack'
      BY <1>1, <2>6, HeldStays
    <2> QED BY <2>5, <2>7 DEF Held, Debt, t
  <1>11. \A c \in Clients : (Serving(c) => AskOK(call[c]) /\ LimitKnown(call[c], Calm))'
    BY <1>1, <1>4, <1>6 DEF GateInv, Serving, LimitKnown
  <1>12. (Calm => OrgHeld)'
    BY <1>4, <1>6, <1>9 DEF OrgHeld
  <1>13. SrvHeld'
    BY <1>4, <1>10 DEF SrvHeld
  <1> QED BY <1>6, <1>11, <1>12, <1>13 DEF GateInv

LEMMA ServeGates ==
    ASSUME GateInv, UsageInv', PoliciesTyped', NEW c \in Clients, Serve(c)
    PROVE  GateInv'
  BY ArriveGates, LookupGates, RcptGates, ReadServerGates, OtherServerGates, ReadPolicyGates, ReadOrgUsageGates,
     ReadServerUsageGates, DecideGates, AnswerGates, BeginGates, CommitGates, LoseRaceGates,
     StoreOneGates DEF Serve

(* The limits endpoints write policies. *)
LEMMA PoliciesNext ==
    ASSUME GateInv, [Next]_vars
    PROVE  PoliciesTyped'
  <1>1. /\ scene \in Scenes /\ PoliciesTyped /\ admin = [b \in Admins |-> admin[b]]
    BY MonthsTyped DEF GateInv, UsageInv, LimitStays
  <1>2. CASE UNCHANGED <<scene, policy, admin>>
    BY <1>1, <1>2 DEF PoliciesTyped, Admins
  <1>3. ASSUME NEW a \in Admins, NEW change \in Changes, ReadForChange(a, change)
        PROVE  PoliciesTyped'
    <2> DEFINE p == [policy EXCEPT ![change.field] = change.value]
    <2>1. scene' = scene /\ policy' = policy /\ admin' = [admin EXCEPT ![a] = [pc |-> "write", policy |-> p]]
      BY <1>3 DEF ReadForChange
    <2>2. \/ change.field = "limit" /\ change.value \in Nat \union {Unlimited}
          \/ change.field = "suspended" /\ change.value \in BOOLEAN
      <3>1. Limits \subseteq Nat \union {Unlimited}
        BY <1>1, SubmissionAssumption DEF Limits
      <3>2. CASE change \in {[field |-> "limit", value |-> l] : l \in Limits}
        <4>1. PICK l \in Limits : change = [field |-> "limit", value |-> l]
          BY <3>2
        <4> QED BY <3>1, <4>1
      <3>3. CASE change \in {[field |-> "suspended", value |-> b] : b \in BOOLEAN}
        <4>1. PICK b \in BOOLEAN : change = [field |-> "suspended", value |-> b]
          BY <3>3
        <4> QED BY <4>1
      <3> QED BY <1>3, <3>2, <3>3 DEF Changes
    <2>3. p \in Policies
      BY <1>1, <2>2 DEF PoliciesTyped, Policies
    <2> HIDE DEF p
    <2>4. \A b \in Admins : admin'[b] = IF b = a THEN [pc |-> "write", policy |-> p] ELSE admin[b]
      BY <1>1, <2>1
    <2> QED BY <1>1, <2>1, <2>3, <2>4 DEF PoliciesTyped, Admins
  <1>4. ASSUME NEW a \in Admins, WritePolicy(a)
        PROVE  PoliciesTyped'
    <2>1. /\ scene' = scene /\ policy' = admin[a].policy
          /\ admin' = [admin EXCEPT ![a] = Idle] /\ admin[a].pc = "write"
      BY <1>4 DEF WritePolicy
    <2>2. \A b \in Admins : admin'[b] = IF b = a THEN Idle ELSE admin[b]
      BY <1>1, <2>1, Zenon
    <2>3. Idle.pc # "write"
      BY DEF Idle
    <2>4. policy' \in Policies
      BY <1>1, <2>1 DEF PoliciesTyped
    <2>a. \A b \in Admins : admin[b].pc = "write" => admin[b].policy \in Policies
      BY <1>1 DEF PoliciesTyped
    <2>5. ASSUME NEW b \in Admins, admin'[b].pc = "write"
          PROVE  admin'[b].policy \in Policies
      <3>1. admin'[b] = admin[b]
        BY <2>2, <2>3, <2>5, Zenon
      <3> QED BY <2>a, <2>5, <3>1
    <2>6. Policies' = Policies /\ Admins' = Admins
      BY <2>1, Zenon DEF Policies, Admins
    <2> QED BY <2>4, <2>5, <2>6 DEF PoliciesTyped
  <1>5. ASSUME NEW c \in Clients, Serve(c)
        PROVE  UNCHANGED <<scene, policy, admin>>
    BY <1>5 DEF Serve, Arrive, Lookup, Rcpt, ReadServer, OtherServer, OpenGates, ReadPolicy,
                ReadOrgUsage, ReadServerUsage, Decide, Reconcile, Begin, Commit, LoseRace, AnswerRaced, StoreOne, AllStored, Fail
  <1>6. CASE DayTurns \/ KeyExpires \/ PruneCounters \/ PruneKeys \/ UNCHANGED vars
    <2>1. UNCHANGED <<scene, policy, admin>>
      BY <1>6 DEF DayTurns, KeyExpires, PruneCounters, PruneKeys, vars
    <2> QED BY <1>2, <2>1
  <1> QED BY <1>2, <1>3, <1>4, <1>5, <1>6 DEF Next

LEMMA GateNext ==
    ASSUME GateInv, [Next]_vars
    PROVE  GateInv'
  <1>1. UsageInv' /\ PoliciesTyped'
    BY UsageNext, PoliciesNext DEF GateInv
  <1>2. ASSUME NEW c \in Clients, Serve(c)
        PROVE  GateInv'
    BY <1>1, <1>2, ServeGates
  <1>3. IsHistory(history) /\ history.changes \in Nat /\ history.faults \in Nat
    BY DEF GateInv, UsageInv, LimitStays, IsHistory
  <1>4. ASSUME NEW a \in Admins, NEW change \in Changes, ReadForChange(a, change)
        PROVE  GateInv'
    <2> DEFINE n == history.changes + 1
               h == [history EXCEPT !.changes = n]
    <2>1. UNCHANGED <<scene, today, messages, call>> /\ history' = h
      BY <1>4 DEF ReadForChange, table
    <2>2. n # 0
      BY <1>3
    <2> HIDE DEF n
    <2>3. h.changes = n /\ h.faults = history.faults /\ h.opened = history.opened
      BY <1>3 DEF IsHistory
    <2> HIDE DEF h
    <2>4. Steady
      BY <1>3, <2>1, <2>2, <2>3 DEF Calm, Steady
    <2> QED BY <1>1, <2>1, <2>4, StillGates
  <1>5. CASE KeyExpires
    <2> DEFINE n == history.expiries + 1
               h == [history EXCEPT !.expiries = n]
    <2>1. UNCHANGED <<scene, today, messages, call>> /\ history' = h
      BY <1>5 DEF KeyExpires
    <2> HIDE DEF n
    <2>2. /\ h.changes = history.changes /\ h.faults = history.faults
          /\ h.opened = history.opened
      BY <1>3 DEF IsHistory
    <2> HIDE DEF h
    <2>3. Steady
      BY <1>3, <2>1, <2>2 DEF Calm, FirstLimit, Faults, Steady
    <2> QED BY <1>1, <2>1, <2>3, StillGates
  <1>6. CASE (\E a \in Admins : WritePolicy(a)) \/ PruneCounters \/ PruneKeys \/ UNCHANGED vars
    <2>1. UNCHANGED <<scene, today, messages, call, history>>
      BY <1>6 DEF WritePolicy, PruneCounters, PruneKeys, vars, table
    <2> QED BY <1>1, <2>1, HistoryStays, StillGates
  <1>7. CASE DayTurns
    BY <1>1, <1>7, DayTurnsGates
  <1> QED BY <1>2, <1>4, <1>5, <1>6, <1>7 DEF Next

LEMMA GateInit ==
    ASSUME Init
    PROVE  GateInv
  <1>1. UsageInv /\ scene \in Scenes
    BY UsageInit DEF Init
  <1>2. PoliciesTyped
    <2>1. FirstLimit \in Nat \union {Unlimited}
      BY <1>1, SubmissionAssumption DEF FirstLimit
    <2>2. policy = [suspended |-> FALSE, limit |-> FirstLimit] /\ admin = [a \in Admins |-> Idle]
      BY DEF Init
    <2>3. policy \in Policies /\ \A a \in Admins : admin[a].pc = "idle"
      BY <2>1, <2>2 DEF Policies, Idle
    <2> QED BY <2>3 DEF PoliciesTyped
  <1>3. history.faults \in Nat
    BY DEF Init
  <1>4. \A c \in Clients : call[c].pc = "idle"
    BY DEF Init, Idle
  <1>5. messages = {}
    BY DEF Init
  <1>6. \A m, s : OrgCount(m) = 0 /\ SrvCount(s) = 0
    <2>1. \A m, s : /\ {x \in Gated : MonthOf(x.day) = m} = {}
                    /\ {x \in Gated : x.server = s /\ x.day > today - Window} = {}
      BY <1>5 DEF Gated
    <2> QED BY <2>1, FS_EmptySet DEF OrgCount, SrvCount
  <1>7. ASSUME NEW W, \A c \in Clients : W[c] = 0, NEW limit \in Nat
        PROVE  Held(0, W, limit)
    <2>1. Debt(W) = {}
      BY <1>1, <1>7, LargestTyped DEF Debt
    <2>2. Cardinality(Debt(W)) = 0 /\ Slack \in Nat
      BY <1>1, <2>1, FS_EmptySet, HeldTyped
    <2> QED BY <1>7, <2>2 DEF Held
  <1>8. Calm => OrgHeld
    <2> SUFFICES ASSUME Calm, NEW m \in Months
                 PROVE  Held(OrgCount(m), OrgOwed(m), FirstLimit)
      BY DEF OrgHeld
    <2>1. \A c \in Clients : OrgOwed(m)[c] = 0
      BY <1>4 DEF OrgOwed, OrgOwes, OrgCharge
    <2>2. FirstLimit \in Nat
      BY <1>1, LimitTyped DEF Calm
    <2> QED BY <1>6, <1>7, <2>1, <2>2
  <1>9. SrvHeld
    <2> SUFFICES ASSUME NEW s \in Servers, ServerLimit[s] # Unlimited
                 PROVE  Held(SrvCount(s), SrvOwed(s), ServerLimit[s])
      BY DEF SrvHeld
    <2>1. \A c \in Clients : SrvOwed(s)[c] = 0
      BY <1>4 DEF SrvOwed, SrvOwes, SrvCharge
    <2>2. ServerLimit[s] \in Nat
      BY <1>1, LimitTyped
    <2> QED BY <1>6, <1>7, <2>1, <2>2
  <1> QED BY <1>1, <1>2, <1>3, <1>4, <1>8, <1>9 DEF GateInv, Serving

(* Every reachable state satisfies the inductive invariant: what was sent  *)
(* through the gates and what the requests in flight still owe stay below  *)
(* the limit and the slack.  A request owes from the moment its usage is   *)
(* read (check_send_allowed) to its transaction (store_send_operation); it *)
(* owes nothing if the gates of its server were open, because finish_data  *)
(* could not read the row or read that of another credential's server.     *)
THEOREM GateInvariant == Spec => []GateInv
  BY GateInit, GateNext, PTL DEF Spec

(* A limit is exceeded by no more than what the other clients have in      *)
(* flight: the gates read the usage in one query and the transaction       *)
(* counts in another.  This counts what was sent through the gates, and    *)
(* not the calls for which finish_data could not read their server, or     *)
(* read another one; for the organization it holds unless the limit was    *)
(* changed, or SMTP could not read the policy, which opens that gate.      *)
THEOREM OvershootTheorem == Spec => []OvershootBounded
  <1>1. ASSUME GateInv
        PROVE  OvershootBounded
    <2>1. UsageInv /\ Counted /\ scene \in Scenes
      BY <1>1, MonthsTyped DEF GateInv, UsageInv
    <2>2. ASSUME NEW sent \in Nat, NEW W, NEW limit \in Nat, Held(sent, W, limit)
          PROVE  sent <= limit + Slack
      <3>1. Cardinality(Debt(W)) \in Nat /\ Slack \in Nat
        BY <2>1, HeldTyped
      <3> QED BY <2>2, <3>1 DEF Held
    <2>3. ASSUME Calm, NEW m \in Months
          PROVE  OrgCount(m) <= FirstLimit + Slack
      <3>1. OrgCount(m) \in Nat /\ FirstLimit \in Nat
        BY <2>1, <2>3, CountTyped, LimitTyped DEF Calm
      <3>2. Held(OrgCount(m), OrgOwed(m), FirstLimit)
        BY <1>1, <2>3 DEF GateInv, OrgHeld
      <3> QED BY <2>2, <3>1, <3>2
    <2>4. ASSUME NEW s \in Servers, ServerLimit[s] # Unlimited
          PROVE  SrvCount(s) <= ServerLimit[s] + Slack
      <3>1. SrvCount(s) \in Nat /\ ServerLimit[s] \in Nat
        BY <2>1, <2>4, CountTyped, LimitTyped
      <3>2. Held(SrvCount(s), SrvOwed(s), ServerLimit[s])
        BY <1>1, <2>4 DEF GateInv, SrvHeld
      <3> QED BY <2>2, <3>1, <3>2
    <2> QED BY <2>3, <2>4 DEF OvershootBounded, Calm, Slack, OrgCount, SrvCount
  <1> QED BY <1>1, GateInvariant, PTL
=============================================================================
