----------------------------- MODULE Recipients ------------------------------
(***************************************************************************)
(* The mail flow around the worker: the messaging API's requests about     *)
(* messages and subscribers (server_api.rs), the public pages for clicks,  *)
(* opens, opt-outs and shares (api tracking.rs, share.rs), and the outside *)
(* world, which returns notifications for what was sent.                   *)
(***************************************************************************)
EXTENDS Inbound

(* A request takes its steps one by one; a failed statement ends it. *)
Begin(p, op, pc) ==
  /\ req[p].op = None /\ p \in scene.procs /\ op \in scene.ops /\ seen.asked < scene.requests
  /\ seen' = [seen EXCEPT !.asked = @ + 1]
  /\ \E s \in scene.streams, to \in scene.addresses :
       req' = [req EXCEPT ![p] = [Idle EXCEPT !.op = op, !.pc = pc, !.srv = s.srv, !.stream = s.id, !.to = to]]
  /\ UNCHANGED <<db, pass, scene, left>>
(* The public pages get a token and nothing else. *)
Visit(p, op) ==
  /\ req[p].op = None /\ p \in scene.procs /\ op \in scene.ops /\ seen.asked < scene.requests
  /\ seen' = [seen EXCEPT !.asked = @ + 1]
  /\ req' = [req EXCEPT ![p] = [Idle EXCEPT !.op = op, !.pc = "resolve"]]
  /\ UNCHANGED <<db, pass, scene, left>>
In(p, op, pc) == req[p].op = op /\ req[p].pc = pc
Next1(p, pc) == req' = [req EXCEPT ![p].pc = pc] /\ UNCHANGED <<pass, scene, left>>
Answer(p) == req' = [req EXCEPT ![p] = Idle] /\ UNCHANGED <<pass, scene, left>>
Fail(p) == /\ req[p].op # None /\ Mishap
           /\ req' = [req EXCEPT ![p] = Idle] /\ UNCHANGED <<db, pass, scene, seen>>

Ask(p) == /\ req[p].op = None /\ p \in scene.procs /\ seen.asked < scene.requests
          /\ seen' = [seen EXCEPT !.asked = @ + 1] /\ UNCHANGED <<pass, req, scene, left>>

(* inbound_retry, inbound_bypass and message_retry are one transaction.  A *)
(* message that is put back has all its attempts again.                    *)
Requeue(p) ==
  \E m \in UNION {Live(db, srv, "incoming") : srv \in 1..2} :
    /\ req[p].op = None /\ p \in scene.procs /\ seen.asked < scene.requests
    /\ \/ "inbound_retry" \in scene.ops /\ db' = RetryInbound(db, m)
       \/ "inbound_bypass" \in scene.ops /\ db' = BypassMessage(db, m)
    /\ seen' = [seen EXCEPT !.asked = @ + 1, !.tries[m] = 0]
    /\ UNCHANGED <<pass, req, scene, left>>
MessageRetry(p) ==
  \E m \in UNION {Live(db, srv, "outgoing") : srv \in 1..2} :
    /\ "message_retry" \in scene.ops /\ db.msgs[m].status \in Retryable
    /\ db' = RequeueOutbound(db, m)
    /\ Ask(p)

----------------------------------------------------------------------------
(* The subscriber endpoints are about one stream of the server. *)
ResolveStream(p, op, pc) == In(p, op, "stream") /\ Next1(p, pc) /\ UNCHANGED <<db, seen>>

SubscribersCreate(p) ==
  LET r == req[p] IN
  \/ Begin(p, "subscribers_create", "stream") \/ ResolveStream(p, "subscribers_create", "write")
  \/ /\ In(p, "subscribers_create", "write")
     /\ \E status \in {"subscribed", "unsubscribed"} : db' = UpsertSubscription(db, r.srv, r.stream, r.to, status)
     /\ Answer(p) /\ seen' = seen
SubscribersDelete(p) ==
  LET r == req[p] IN
  \/ Begin(p, "subscribers_delete", "stream") \/ ResolveStream(p, "subscribers_delete", "write")
  \/ /\ In(p, "subscribers_delete", "write")
     /\ db' = RemoveSubscription(db, r.srv, r.stream, r.to)
     /\ Answer(p) /\ seen' = seen
SubscriberComplaint(p) ==
  LET r == req[p] IN
  \/ Begin(p, "complaint", "stream") \/ ResolveStream(p, "complaint", "write")
  \/ /\ In(p, "complaint", "write")
     /\ db' = RecordComplaint(db, r.srv, r.stream, r.to)
     /\ Answer(p) /\ seen' = [seen EXCEPT !.optedOut = @ \union {[srv |-> r.srv, stream |-> r.stream, to |-> r.to]}]

(* Every address is a statement of its own. *)
SubscribersImport(p) ==
  LET r == req[p] IN
  \/ Begin(p, "subscribers_import", "stream")
  \/ /\ In(p, "subscribers_import", "stream")
     /\ req' = [req EXCEPT ![p].pc = "each", ![p].asks = <<"a", "b">>] /\ UNCHANGED <<db, pass, scene, left, seen>>
  \/ /\ In(p, "subscribers_import", "each")
     /\ db' = UpsertSubscription(db, r.srv, r.stream, Head(r.asks), "subscribed")
     /\ IF Len(r.asks) = 1 THEN Answer(p)
        ELSE req' = [req EXCEPT ![p].asks = Tail(@)] /\ UNCHANGED <<pass, scene, left>>
     /\ seen' = seen

(* suppressions_destroy: the address is free again on the whole server. *)
SuppressionsDestroy(p) ==
  LET r == req[p] IN
  \/ Begin(p, "suppressions_destroy", "write")
  \/ /\ In(p, "suppressions_destroy", "write")
     /\ db' = DeleteSuppression(db, r.srv, r.to)
     /\ seen' = [seen EXCEPT !.optedOut = {o \in @ : o.srv # r.srv \/ o.to # r.to}]
     /\ Answer(p)

(* enqueue_send: on a broadcast stream the consent is checked, then the    *)
(* message is stored with a token to opt out.  Its limits and keys are     *)
(* Submission's.                                                           *)
Broadcast(srv, stream) == \E s \in scene.streams : s.srv = srv /\ s.id = stream /\ s.broadcast
OptInGate(r, to) == Broadcast(r.srv, r.stream) => IsSubscribed(db, r.srv, r.stream, to)
StoreSend(r, to) ==
  LET n == Len(db.msgs) + 1
      broadcast == Broadcast(r.srv, r.stream)
      head == IF broadcast THEN <<Line("list-unsubscribe", <<OptTokens[n]>>)>> ELSE << >>
      stored == InsertMessage(db, [NewMessage(r.srv, "outgoing", [Plain EXCEPT !.head = head]) EXCEPT
                                     !.stream = r.stream, !.to = to])
  IN IF broadcast THEN CreateUnsubscribeToken(stored, OptTokens[n], r.srv, r.stream, to) ELSE stored
EnqueueSend(p) ==
  LET r == req[p] IN
  \/ Begin(p, "send", "gate")
  \/ /\ In(p, "send", "gate") /\ UNCHANGED <<db, seen>>
     /\ IF OptInGate(r, r.to) /\ Len(db.msgs) < MaxMessages THEN Next1(p, "store") ELSE Answer(p)
  \/ /\ In(p, "send", "store") /\ Len(db.msgs) < MaxMessages
     /\ db' = StoreSend(r, r.to)
     /\ Answer(p) /\ seen' = seen

(* campaign_send goes through the subscribers it has listed, as sends.  An *)
(* address that has opted out in between ends the request.                 *)
CampaignSend(p) ==
  LET r == req[p] IN
  \/ Begin(p, "campaign_send", "stream")
  \/ /\ In(p, "campaign_send", "stream") /\ UNCHANGED <<db, seen>>
     /\ IF Broadcast(r.srv, r.stream) THEN Next1(p, "list") ELSE Answer(p)
  \/ /\ In(p, "campaign_send", "list")
     /\ LET listed == {s.to : s \in {s \in ListSubscriptions(db, r.srv, r.stream) : s.status = "subscribed"}} IN
        IF listed = {} THEN Answer(p)
        ELSE req' = [req EXCEPT ![p].asks = SetToSeq(listed), ![p].pc = "gate"] /\ UNCHANGED <<pass, scene, left>>
     /\ UNCHANGED <<db, seen>>
  \/ /\ In(p, "campaign_send", "gate") /\ UNCHANGED <<db, seen>>
     /\ IF OptInGate(r, Head(r.asks)) /\ Len(db.msgs) < MaxMessages THEN Next1(p, "store") ELSE Answer(p)
  \/ /\ In(p, "campaign_send", "store") /\ Len(db.msgs) < MaxMessages
     /\ db' = StoreSend(r, Head(r.asks))
     /\ IF Len(r.asks) = 1 THEN Answer(p)
        ELSE req' = [req EXCEPT ![p].asks = Tail(@), ![p].pc = "gate"] /\ UNCHANGED <<pass, scene, left>>
     /\ seen' = seen

----------------------------------------------------------------------------
(* The public pages.  A token is looked up, then something is written under*)
(* the tenant it names.  The answer is the same whatever comes of it.      *)
Resolve(p, op, found) ==
  /\ In(p, op, "resolve") /\ UNCHANGED <<db, seen>>
  /\ IF found = {} THEN Answer(p)
     ELSE req' = [req EXCEPT ![p].target = found, ![p].pc = "write"] /\ UNCHANGED <<pass, scene, left>>

Unsubscribe(p) ==
  \/ Visit(p, "unsubscribe")
  \/ \E token \in {t.token : t \in db.optTokens} : Resolve(p, "unsubscribe", ResolveUnsubscribeToken(db, token))
  \/ /\ In(p, "unsubscribe", "write")
     /\ \E t \in req[p].target : db' = RecordUnsubscribe(db, t) /\ seen' = NoteOptOut(t.token)
     /\ Answer(p)
TrackClick(p) ==
  \/ Visit(p, "click")
  \/ \E k \in db.marks : Resolve(p, "click", {x \in ResolveToken(db, k.token) : x.kind = "click"})
  \/ /\ In(p, "click", "write") /\ seen' = seen
     /\ \E k \in req[p].target : db' = RecordClick(db, k)
     /\ Answer(p)
TrackOpen(p) ==
  \/ Visit(p, "open")
  \/ \E k \in db.marks : Resolve(p, "open", {x \in ResolveToken(db, k.token) : x.kind = "open"})
  \/ /\ In(p, "open", "write") /\ seen' = seen
     /\ \E k \in req[p].target : db' = RecordOpen(db, k)
     /\ Answer(p)

(* Only a message of the server is shared; it is shown while the share and *)
(* the message are there.                                                  *)
MessageShareCreate(p) ==
  \/ Begin(p, "share", "exists")
  \/ /\ In(p, "share", "exists") /\ UNCHANGED <<db, seen>>
     /\ \E m \in DOMAIN db.msgs :
          IF db.msgs[m].live /\ db.msgs[m].srv = req[p].srv
          THEN req' = [req EXCEPT ![p].target = {m}, ![p].pc = "write"] /\ UNCHANGED <<pass, scene, left>>
          ELSE Answer(p)
  \/ /\ In(p, "share", "write") /\ seen' = seen
     /\ \E m \in req[p].target : db' = CreateMessageShare(db, req[p].srv, m)
     /\ Answer(p)
ShareShow(p) ==
  \/ Visit(p, "show")
  \/ \E s \in db.shares : Resolve(p, "show", {x \in MessageShareByTokenHash(db, s.id) : ~x.expired})
  \/ /\ In(p, "show", "write") /\ db' = db
     /\ \E s \in req[p].target : seen' = IF db.msgs[s.m].live /\ db.msgs[s.m].srv = s.srv
                                         THEN [seen EXCEPT !.shown = @ \union {s.m}] ELSE seen
     /\ Answer(p)

----------------------------------------------------------------------------
(* A server that took a copy returns a notification that encloses it; the  *)
(* return path's address is the server's.                                  *)
Notification(copy, action) ==
  [Plain EXCEPT !.type = "multipart/report", !.report = "delivery-status",
     !.leaves = <<Leaf("message/delivery-status", <<Line("action", <<action>>), Line("status", <<"5.x.x">>)>>),
                  [Leaf("message/rfc822", copy.content.head) EXCEPT !.more = copy.content.leaves[1].lines]>>]
ReturnNotification ==
  \E copy \in seen.copies, action \in {"failed", "delayed"} :
    /\ Cardinality(seen.returned) < scene.returns /\ Len(db.msgs) < MaxMessages
    /\ db' = InsertMessage(db, [NewMessage(db.msgs[copy.m].srv, "incoming", Notification(copy, action)) EXCEPT !.bounce = TRUE])
    /\ seen' = [seen EXCEPT !.returned = @ \union {<<Len(db.msgs) + 1, copy.m>>}]
    /\ UNCHANGED <<pass, req, scene, left>>

(* Retention. *)
PruneMessage ==
  \E m \in scene.prunable :
    /\ db.msgs[m].live
    /\ db' = Prune(db, m) /\ UNCHANGED <<pass, req, scene, left, seen>>

Request(p) ==
  \/ Fail(p) \/ Requeue(p) \/ MessageRetry(p) \/ SubscribersCreate(p) \/ SubscribersDelete(p) \/ SubscriberComplaint(p)
  \/ SubscribersImport(p) \/ SuppressionsDestroy(p) \/ EnqueueSend(p) \/ CampaignSend(p) \/ Unsubscribe(p)
  \/ TrackClick(p) \/ TrackOpen(p) \/ MessageShareCreate(p) \/ ShareShow(p)

Init ==
  /\ scene \in Scenes
  /\ db = [msgs |-> scene.msgs, next |-> 10, hooks |-> EmptyBag,
           queue |-> {[id |-> m, m |-> m, attempts |-> 0, locked |-> FALSE, stale |-> FALSE] : m \in scene.queued},
           suppressions |-> {}, subscriptions |-> scene.subscriptions, optTokens |-> scene.optTokens,
           reports |-> <<0, 0>>, links |-> {}, marks |-> {}, visits |-> {}, shares |-> {}]
  /\ pass = [w \in Workers |-> NoPass]
  /\ req = [p \in Procs |-> Idle]
  /\ left = MaxMishaps
  /\ seen = [asked |-> 0, tries |-> [m \in 1..MaxMessages |-> 0], unmarked |-> {}, unscanned |-> {}, posted |-> {},
             optedOut |-> {}, gates |-> {}, copies |-> {}, returned |-> {}, shown |-> {}]

Next ==
  \/ \E w \in Workers : Work(w) \/ Abandon(w)
  \/ \E r \in db.queue : LockExpires(r)
  \/ \E p \in Procs : Request(p)
  \/ ReturnNotification \/ PruneMessage

Spec == Init /\ [][Next]_vars

(* A worker whose process runs takes its next step, and a lock that nobody *)
(* holds expires: threads are scheduled, statements time out, days pass.   *)
FairSpec == Spec /\ (\A w \in Workers : WF_vars(Work(w))) /\ WF_vars(\E r \in db.queue : ~Worked(r) /\ LockExpires(r))

----------------------------------------------------------------------------
Settled(m) == (\A r \in db.queue : r.m # m) /\ \A w \in Workers : pass[w].pc = "idle" \/ pass[w].m # m
Count(s, Test(_)) == Len(SelectSeq(s, Test))

(* A notification of failure counts once, and for the message it encloses: *)
(* whatever the crashes, overdue locks and requeued copies, every message  *)
(* has as many Bounced deliveries and MessageBounced events as there are   *)
(* notifications linked to it, and each of those was returned for it       *)
(* (correlate_bounce, add_message_token_header, original_message_tokens).  *)
CorrelatedOnce ==
  \A m \in {n \in DOMAIN db.msgs : db.msgs[n].live} :
    LET linked == {d \in DOMAIN db.msgs : db.msgs[d].bounceFor = m} IN
    /\ Count(db.msgs[m].log, LAMBDA status : status = "Bounced") = Cardinality(linked)
    /\ CopiesIn([srv |-> db.msgs[m].srv, event |-> "MessageBounced", m |-> m], db.hooks) = Cardinality(linked)
    /\ \A d \in linked : <<d, m>> \in seen.returned

(* What the scanners find dangerous is neither posted nor acted upon, and  *)
(* is held in the end, also when it is put back by the API or another      *)
(* worker has the same message; a scanner that fails lets it pass          *)
(* (Worker::inspect).                                                      *)
ThreatContained ==
  scene.scanner =>
    \A m \in DOMAIN db.msgs :
      (db.msgs[m].content.danger /\ m \notin seen.unscanned) =>
        /\ m \notin seen.posted /\ ~db.msgs[m].correlated
        /\ Settled(m) /\ db.msgs[m].live /\ m \notin seen.unmarked => db.msgs[m].status = "Held"

(* Incoming mail that has left the queue for good.  Two ways out are not   *)
(* counted: the process ends between the completion of a report and its    *)
(* mark, and the route cannot be read (process_incoming).                  *)
LeftTheQueue(m) ==
  db.msgs[m].live /\ db.msgs[m].scope = "incoming" /\ Settled(m) /\ m \notin seen.unmarked
Accounted(m) ==
  \/ m \in seen.posted
  \/ db.msgs[m].status \in {"Held", "Processed", "HardFail"}
  \/ db.msgs[m].route = None \/ scene.routes[db.msgs[m].route].mode # "Endpoint"

(* Mail for an endpoint that leaves the queue neither posted nor marked as *)
(* held, processed or failed has had all its attempts since it was last    *)
(* put back by the API: no crash, overdue lock, second worker or second    *)
(* row of the same message ends it earlier.  It is then deleted and stays  *)
(* Pending, without a delivery row (process_incoming, ingest_dmarc_report, *)
(* retry).                                                                 *)
DroppedOnlyWhenExhausted ==
  \A m \in DOMAIN db.msgs : LeftTheQueue(m) => Accounted(m) \/ seen.tries[m] >= MaxAttempts

(* The documentation's claim: mail whose attempts run out is marked failed *)
(* (docs/inbound.md).  The worker only deletes its queue row.              *)
ExhaustedIsMarked == \A m \in DOMAIN db.msgs : LeftTheQueue(m) => Accounted(m)

(* Mail is held back exactly when its recipient has opted out of, or       *)
(* complained about, mail of this stream of this server, and was not taken *)
(* off the list since: the opt-outs of the public page, of the API and of  *)
(* feedback reports to any server all count, and for no other stream       *)
(* (address_suppressed, record_unsubscribe, record_feedback_complaint).    *)
OptOutHolds == \A g \in seen.gates : g.held = g.optedOut

(* Content and credentials meant for a relay on the submission port or     *)
(* over smtps never go out in clear, nor to a peer that has not proved its *)
(* name unless the configuration waives that, whatever the other side      *)
(* answers and refuses (try_send, effective_tls_mode).                     *)
MandatoryTls ==
  \A w \in Workers : \A e \in pass[w].sent.wire :
    e.link # "clear" /\ (e.mode # "AcceptAny" => e.link = "proved")

(* In every copy that was sent, a rewritten link still leads to the URL it *)
(* stood for and counts for its own message, also when an earlier pass was *)
(* cut off between two of the statements; other links and signed content   *)
(* are as they were (apply_tracking).                                      *)
LinksResolve ==
  \A c \in seen.copies :
    db.msgs[c.m].live =>
      /\ IsSigned(c.content) => c.content.leaves = db.msgs[c.m].content.leaves
      /\ \A i \in DOMAIN HtmlOf(c.content) : \A l \in ToSet(HtmlOf(c.content)[i]) :
           IF ~l.web \/ IsSigned(c.content) THEN l.slot = 0
           ELSE \E k \in ResolveToken(db, l.slot) :
                  /\ k.kind = "click" /\ k.m = c.m /\ k.url = l.url
                  /\ \E link \in db.links : link.id = k.link /\ link.m = c.m /\ link.url = l.url

(* The queue runs empty: retries end, and what a crashed worker held is    *)
(* taken up again (dequeue, complete, retry).                              *)
QueueDrains == <>[](db.queue = {})
=============================================================================
