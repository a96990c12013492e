----------------------------- MODULE MailStore -------------------------------
(***************************************************************************)
(* What one statement or transaction does to the tables of the mail flow:  *)
(* messages and their deliveries, the queue, webhook requests, the         *)
(* suppression and subscription lists, tracking (pg_store.rs, queue.rs,    *)
(* db/tracking.rs).  An operator takes the database and gives the new one. *)
(***************************************************************************)
EXTENDS MailContent, Bags, FiniteSets, FiniteSetsExt

(* The tokens generated for messages and for the unsubscribe links in them.*)
Tokens    == <<"t1", "t2", "t3", "t4", "t5">>
OptTokens == <<"u1", "u2", "u3", "u4", "u5">>
MaxMessages == Len(Tokens)

(* A message; log holds the statuses of its deliveries. *)
NewMessage(srv, scope, content) ==
  [live |-> TRUE, srv |-> srv, scope |-> scope, status |-> "Pending", held |-> FALSE, bounce |-> FALSE,
   route |-> None, bypassed |-> FALSE, inspected |-> FALSE, bad |-> FALSE, category |-> None,
   correlated |-> FALSE, bounceFor |-> 0, stream |-> None, to |-> "a", content |-> content, log |-> << >>]

Live(d, srv, scope) ==
  {m \in DOMAIN d.msgs : d.msgs[m].live /\ d.msgs[m].srv = srv /\ d.msgs[m].scope = scope}

Enqueue(d, m) ==
  [d EXCEPT !.queue = @ \union {[id |-> d.next, m |-> m, attempts |-> 0, locked |-> FALSE, stale |-> FALSE]},
            !.next = @ + 1]

EnqueueWebhookRequests(d, srv, event, m) == [d EXCEPT !.hooks = @ (+) SetToBag({[srv |-> srv, event |-> event, m |-> m]})]

(* A message is stored and queued in one transaction. *)
InsertMessage(d, message) == Enqueue([d EXCEPT !.msgs = Append(@, message)], Len(d.msgs) + 1)

CompleteMessage(d, id) == [d EXCEPT !.queue = {r \in @ : r.id # id}]

RetryMessage(d, id) ==
  [d EXCEPT !.queue = {IF r.id = id THEN [r EXCEPT !.locked = FALSE, !.stale = FALSE, !.attempts = @ + 1] ELSE r
                        : r \in @}]

(* A row that is free, or whose lock is days old. *)
OnlyFree(d) == {r \in d.queue : ~r.locked}
Takeable(d) == {r \in d.queue : ~r.locked \/ r.stale}
Lock(d, r) == [d EXCEPT !.queue = (@ \ {r}) \union {[r EXCEPT !.locked = TRUE, !.stale = FALSE]}]

----------------------------------------------------------------------------
(* Nothing is recorded over a bounce. *)
RecordDelivery(d, m, status) ==
  IF ~d.msgs[m].live \/ d.msgs[m].status = "Bounced" THEN d
  ELSE [d EXCEPT !.msgs[m] = [@ EXCEPT !.status = status, !.held = (status = "Held"), !.log = Append(@, status)]]

(* The result of a send, what becomes of its row, and its event. *)
RecordOutboundDelivery(d, m, q, status, category, again) ==
  IF ~d.msgs[m].live \/ d.msgs[m].status = "Bounced" THEN CompleteMessage(d, q)
  ELSE LET kept == IF category = None THEN d.msgs[m].category ELSE category
           done == [d EXCEPT !.msgs[m] = [@ EXCEPT !.status = status, !.held = (status = "Held"),
                                                   !.category = kept, !.log = Append(@, status)]]
       IN EnqueueWebhookRequests(IF again THEN RetryMessage(done, q) ELSE CompleteMessage(done, q),
                                 d.msgs[m].srv, status, m)

RecordUnmatchedBounce(d, m, q, category) ==
  CompleteMessage(
    IF d.msgs[m].live /\ d.msgs[m].bounce
    THEN [d EXCEPT !.msgs[m] = [@ EXCEPT !.status = "HardFail", !.held = FALSE, !.category = category,
                                         !.log = Append(@, "HardFail")]]
    ELSE d, q)

RecordInspection(d, m, bad) == [d EXCEPT !.msgs[m].inspected = TRUE, !.msgs[m].bad = bad]

(* The outgoing messages of the tenant that bear one of the tokens, in the *)
(* order of the tokens.                                                    *)
TokenOwners(d, srv, tokens) ==
  LET Owner(t) == {m \in Live(d, srv, "outgoing") : Tokens[m] = t}
  IN FlattenSeq([i \in DOMAIN tokens |-> SetToSeq(Owner(tokens[i]))])

(* The notification is linked to the first message found, once: the marker *)
(* is read under a lock on the notification's row.                         *)
Linkable(d, dsn) == TRUE
Unlinked(d, dsn) == ~d.msgs[dsn].correlated

CorrelateBounce(d, dsn, tokens, category) ==
  LET note == d.msgs[dsn]
      classified == [d EXCEPT !.msgs[dsn].category = category]
      owners == TokenOwners(d, note.srv, tokens)
  IN IF ~note.live \/ ~note.bounce THEN [db |-> d, result |-> "NotMatched"]
     ELSE IF ~Unlinked(d, dsn)
     THEN [db |-> [d EXCEPT !.msgs[dsn].status = "Processed", !.msgs[dsn].held = FALSE], result |-> "Already"]
     ELSE IF owners = << >> THEN [db |-> classified, result |-> "NotMatched"]
     ELSE LET m == owners[1] IN
          [db |-> EnqueueWebhookRequests(
                    [classified EXCEPT
                       !.msgs[dsn] = [@ EXCEPT !.bounceFor = m, !.correlated = TRUE, !.status = "Processed",
                                               !.held = FALSE, !.log = Append(@, "Processed")],
                       !.msgs[m] = [@ EXCEPT !.status = "Bounced", !.held = FALSE, !.category = category,
                                             !.log = Append(@, "Bounced")]],
                    note.srv, "MessageBounced", m),
           result |-> "Correlated"]

(* The API puts an incoming message back, whatever its state and even if a *)
(* row is there; a bypass is only noted.                                   *)
RequeueInbound(d, m, bypass) ==
  Enqueue([d EXCEPT !.msgs[m].status = "Pending", !.msgs[m].bypassed = @ \/ bypass], m)
BypassMessage(d, m) == RequeueInbound(d, m, TRUE)
RetryInbound(d, m)  == RequeueInbound(d, m, FALSE)

(* An outgoing one goes back only if it was not sent, and once. *)
Retryable == {"Pending", "SoftFail", "HardFail"}
RequeueOutbound(d, m) ==
  LET pending == [d EXCEPT !.msgs[m].status = "Pending", !.msgs[m].held = FALSE]
  IN IF \E r \in d.queue : r.m = m THEN pending ELSE Enqueue(pending, m)

(* Retention removes a message and all that hangs on it. *)
Prune(d, m) ==
  [d EXCEPT !.msgs = [n \in DOMAIN @ |-> [@[n] EXCEPT !.live = @ /\ n # m,
                                                    !.bounceFor = IF @ = m THEN 0 ELSE @]],
            !.queue = {r \in @ : r.m # m}, !.links = {l \in @ : l.m # m},
            !.visits = {v \in @ : \A k \in d.marks : k.token = v.token => k.m # m},
            !.marks = {k \in @ : k.m # m}, !.shares = {s \in @ : s.m # m}]

----------------------------------------------------------------------------
(* A complaint or an opt-out holds for a stream, or for the whole server   *)
(* when the token names none.                                              *)
Suppress(d, srv, stream, to) == [d EXCEPT !.suppressions = @ \union {[srv |-> srv, stream |-> stream, to |-> to]}]

UpsertSubscription(d, srv, stream, to, status) ==
  [d EXCEPT !.subscriptions = {s \in @ : <<s.srv, s.stream, s.to>> # <<srv, stream, to>>}
                              \union {[srv |-> srv, stream |-> stream, to |-> to, status |-> status]}]
RemoveSubscription(d, srv, stream, to) ==
  [d EXCEPT !.subscriptions = {s \in @ : <<s.srv, s.stream, s.to>> # <<srv, stream, to>>}]
ListSubscriptions(d, srv, stream) == {s \in d.subscriptions : s.srv = srv /\ s.stream = stream}
IsSubscribed(d, srv, stream, to) == \E s \in ListSubscriptions(d, srv, stream) : s.to = to /\ s.status = "subscribed"

OptOut(d, srv, stream, to) ==
  IF stream = None THEN Suppress(d, srv, stream, to)
  ELSE UpsertSubscription(Suppress(d, srv, stream, to), srv, stream, to, "unsubscribed")

CreateUnsubscribeToken(d, token, srv, stream, to) ==
  [d EXCEPT !.optTokens = @ \union {[token |-> token, srv |-> srv, stream |-> stream, to |-> to]}]
ResolveUnsubscribeToken(d, token) == {t \in d.optTokens : t.token = token}

UnsubscribeServerWide(d, t) == OptOut(d, t.srv, None, t.to)
RecordUnsubscribe(d, t) == OptOut(d, t.srv, t.stream, t.to)
WriteFeedbackComplaint(d, srv, stream, to) == OptOut(d, srv, stream, to)
RecordComplaint(d, srv, stream, to) == OptOut(d, srv, stream, to)

AddressSuppressed(d, srv, to, stream) ==
  \E s \in d.suppressions : s.srv = srv /\ s.to = to /\ s.stream \in {None, stream}
DeleteSuppression(d, srv, to) == [d EXCEPT !.suppressions = {s \in @ : s.srv # srv \/ s.to # to}]

(* The tenant is that of the unsubscribe token, if there is one; only then *)
(* is the address suppressed.  The message is found by its token, by its   *)
(* Message-ID, or as the newest to the recipient.                          *)
RecordFeedbackComplaint(d, srv, report) ==
  LET target == ResolveUnsubscribeToken(d, report.token)
      tenant == IF target = {} THEN srv ELSE (CHOOSE t \in target : TRUE).srv
      rcpt   == IF target = {} THEN report.rcpt ELSE (CHOOSE t \in target : TRUE).to
      owners == TokenOwners(d, tenant, report.tokens)
      byToken == IF owners = << >> THEN {} ELSE {owners[1]}
      Newest(S) == IF S = {} THEN {} ELSE {Max(S)}
      byId   == Newest({m \in Live(d, tenant, "outgoing") : report.mid # None
                                                            /\ <<report.mid>> = HeaderValue(d.msgs[m].content.head, "message-id")})
      byRcpt == Newest({m \in Live(d, tenant, "outgoing") : d.msgs[m].to = rcpt})
      found  == IF byToken # {} THEN byToken ELSE IF byId # {} THEN byId ELSE byRcpt
      about  == IF found = {} THEN 0 ELSE CHOOSE m \in found : TRUE
  IN IF target = {} /\ found = {} /\ rcpt = None THEN d
     ELSE EnqueueWebhookRequests(
            IF target = {} THEN d
            ELSE LET t == CHOOSE t \in target : TRUE IN WriteFeedbackComplaint(d, tenant, t.stream, t.to),
            tenant, "MessageComplained", about)

(* No two reports are told apart: one stored twice counts twice. *)
StoreDmarcReport(d, srv) == [d EXCEPT !.reports[srv] = @ + 1]

----------------------------------------------------------------------------
(* Links, tracking tokens (marks), clicks and loads; shares. *)
CreateLink(d, m, url) == [d EXCEPT !.links = @ \union {[id |-> d.next, m |-> m, url |-> url]}, !.next = @ + 1]
CreateClickToken(d, m, link, url) ==
  [d EXCEPT !.marks = @ \union {[token |-> d.next, kind |-> "click", srv |-> d.msgs[m].srv, m |-> m, link |-> link, url |-> url]},
            !.next = @ + 1]
CreateOpenToken(d, m) ==
  [d EXCEPT !.marks = @ \union {[token |-> d.next, kind |-> "open", srv |-> d.msgs[m].srv, m |-> m, link |-> 0, url |-> None]},
            !.next = @ + 1]
ResolveToken(d, token) == {k \in d.marks : k.token = token}

(* The event goes out only while the message is there. *)
MessageHash(d, srv, m) == {x \in {m} : d.msgs[x].live /\ d.msgs[x].srv = srv}
RecordClick(d, k) ==
  LET clicked == [d EXCEPT !.visits = @ \union {[token |-> k.token, link |-> k.link]}]
  IN IF MessageHash(d, k.srv, k.m) = {} THEN clicked
     ELSE EnqueueWebhookRequests(clicked, k.srv, "MessageLinkClicked", k.m)
RecordOpen(d, k) ==
  LET loaded == [d EXCEPT !.visits = @ \union {[token |-> k.token, link |-> 0]}]
  IN IF MessageHash(d, k.srv, k.m) = {} THEN loaded
     ELSE EnqueueWebhookRequests(loaded, k.srv, "MessageLoaded", k.m)

CreateMessageShare(d, srv, m) ==
  [d EXCEPT !.shares = @ \union {[id |-> d.next, srv |-> srv, m |-> m, expired |-> FALSE]}, !.next = @ + 1]
MessageShareByTokenHash(d, id) == {s \in d.shares : s.id = id}
=============================================================================
