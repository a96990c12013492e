# A TLA+ model of camelmailer

camelmailer is a mail server for applications. An HTTP API and an SMTP server
accept mail, a PostgreSQL database stores and queues it, worker processes deliver
it, record the outcome and announce it with webhooks. Every process is a client
of the database; there is no other channel between them. What makes the program
hard to test is therefore what happens *between* two statements: another request,
another worker, the hourly housekeeping, a crash, or the renewal of a file.

The modules here model that control: one action is one committed statement or
transaction, one exchange with a remote server, or one step of time. What an
actor has read and not yet written back is a variable of the actor, so that it
can become stale exactly as in the code. Message contents, addresses, SQL and
JSON are abstracted to what the properties tell apart.

1. [The system](#the-system) · 2. [Plan](#plan) · 3. [Modules and code](#modules-and-code) ·
4. [Runs](#runs) · 5. [Fairness](#fairness) · 6. [Proofs](#proofs) ·
7. [Disagreements with the documentation](#disagreements-with-the-documentation) ·
8. [What is not modelled](#what-is-not-modelled)

## The system

### Parts, their state and operations

| part | source (under `src/crates/`) | state | operations | what makes it correct |
|---|---|---|---|---|
| outbound delivery | `camelmailer-worker/src/worker.rs`, `camelmailer-db/src/queue.rs`, `pg_store.rs` | `messages`, `queued_messages`, `deliveries`, a job per delivery thread | accept, import, dequeue, load, suppression check, send, record, retry request, bounce correlation | one queue row per message; nothing accepted is forgotten; a bounce is final; status, delivery log and webhook agree |
| fair queue | `camelmailer-db/src/queue.rs` | locks, the turns each process remembers | enqueue, list, sort, lock, complete, retry | tenants take turns; a worker stays in its part of the queue; every row is taken |
| submission | `camelmailer-api/src/server_api.rs`, `camelmailer-db/src/pg_store.rs`, `camelmailer-smtp/src/session.rs`, `camelmailer-core/src/quota.rs` | idempotency keys, counters per month and per day, the organization's policy, threshold events | single and batch send, SMTP submission, policy changes, pruning | a key stores once; success means stored; refusal stores nothing; counters are exact |
| campaigns | `camelmailer-api/src/server_api.rs`, `camelmailer-db/src/pg_store.rs` | the campaign row, the expansions running in memory | create, edit, schedule, send, cancel, claim, expand | no subscriber gets it twice; the count is right; sending ends |
| webhook and lifecycle outboxes | `camelmailer-worker/src/worker.rs`, `camelmailer-db/src/webhook_queue.rs`, `lifecycle_queue.rs` | `webhook_requests`, `lifecycle_events`, the worker's job | enqueue, dequeue, guard, post, log, complete, retry, discard | delivered, or given up after ten recorded failures, never by two workers at once |
| SMTP session | `camelmailer-smtp/src/session.rs`, `server.rs` | the session, the connection | PROXY, EHLO, STARTTLS, AUTH, MAIL, RCPT, DATA, RSET, QUIT | what the client was told is what is stored |
| TLS certificate reload | `camelmailer-smtp/src/server.rs` | the acceptor with the modification times recorded for it | load, state, compare, reload, keep | a renewal is served, and never half of one |
| retention | `camelmailer-db/src/retention.rs`, `worker.rs` | the same tables | purge content, prune metadata, delete old logs | never takes away what delivery still needs |
| inbound processing and reports | `worker.rs`, `camelmailer-core/src/bounce.rs`, `arf.rs`, `dmarc.rs`, `pg_store.rs` | incoming messages and queue rows, routes, deliveries, bounces, reports | inspect, hold, read a report, correlate, route, post to an endpoint, retry, bypass | a bounce counts once and for its own message; dangerous mail goes nowhere; nothing leaves the queue unaccounted |
| SMTP client and sender | `camelmailer-worker/src/sender.rs`, `smtp_client.rs` | the dialogue | choose endpoints, connect, STARTTLS, AUTH, envelope, data, classify | TLS that is mandatory is never skipped |
| tracking, unsubscribing, shares | `camelmailer-worker/src/tracking.rs`, `camelmailer-api/src/tracking.rs`, `share.rs`, `server_api.rs` | tracked links, tokens, suppressions, subscriptions, shares | rewrite, visit, opt out, subscribe, import, share | links lead where they led; who opts out of a stream gets no more of it |
| accounts | `camelmailer-api/src/auth_api.rs`, `webauthn.rs`, `scim.rs`, `sso.rs`, `oidc.rs`, `saml.rs`, `camelmailer-db/src/auth_pg.rs` | users, sessions, passkeys, one-time tickets | register, log in, second factor, reset, provision, sign in through a provider | a ticket serves once; signed out stays out; the lock counts |
| tenants | `app.rs`, `memberships.rs`, `quota.rs`, `billing.rs`, `org_sso_api.rs`, `org_sso_login.rs` | organizations, members, invitations, e-mail domains, connections | middleware, members, invitations, limits, billing, SSO | an owner remains; a request stays in its organization; a sign-in leads to the tenant that proved the domain |
| resource API | `resources.rs`, `server_api.rs`, `app.rs` | servers and their domains, addresses, credentials, routes, webhooks, streams, layouts, templates, pools, admin keys | create, update, verify, suspend, archive, copy, delete | what is trusted was proved; what is stopped stays stopped; references and requests keep to their server |
| SPF, DKIM, MIME, templates, DNS checks | `camelmailer-core/src/`, `camelmailer-smtp/src/` | none | pure functions and network clients | see the plan and [what is not modelled](#what-is-not-modelled) |
| insights, dashboard, configuration | `camelmailer-api/src/`, `camelmailer-config/src/`, `web/` | none of their own | read only | — |

`PROJECT.json` lists every part with its status and the reason where it is not
modelled.

### Interactions

- **API, SMTP → database → workers.** A send is one transaction that stores the
  message, its queue row, the counters and the response to replay. A worker finds
  the row by polling.
- **Worker ↔ worker.** Through the lock columns of the queue rows only. A lock is
  given up by `complete` and `retry`, neither of which tests who holds it, or by
  being older than `queued_message_lock_stale_days`.
- **Everything → outbox → worker.** The transaction that changes a message writes
  the webhook requests that announce the change.
- **Housekeeping** of any worker deletes old rows behind everyone's back.
- **Administrators and tenants** change policies, webhooks, campaigns and
  suppression lists while requests that have read them are under way. An update
  reads a row and writes every column back, so that two updates of different
  fields undo one another.
- **Middleware → handler.** The middleware looks up the organization behind a
  permalink and decides; the handler looks the permalink up again.
- **Browser → provider → API.** Sign-ins through a provider come back with a
  one-time ticket that any number of requests may present at once.
- **Remote servers → inbound.** What was sent comes back as a bounce, a complaint
  or a visit of a link, hours later, twice, or forged.

### What is hard

Stale jobs (a worker records a result on a message that was bounced, retried or
pruned meanwhile); crashes that leave a lock; check-then-act on quotas, policies
and campaigns over two statements; two requests with one key; statements that
read a snapshot and write later; clocks that turn between two reads; STARTTLS and
RSET in the middle of an envelope; a renewal between the read of a certificate
and the read of its key; whole rows written back after others have changed them; a
permalink that passes to another organization between two lookups; one ticket in
two requests; a report that is correlated, recorded and completed in separate
statements. `PROJECT.json` lists each under `hazards`, at its line,
with the properties that would catch it going wrong.

## Plan

The order is that of the importance of the behaviour.

1. `MessageLifecycle`, `Delivery`, `DeliveryProofs` — done.
2. `FairQueue` — done. `Submission`, `SubmissionProofs` — done.
   `Campaigns` and `CampaignsProofs` — done.
3. `SmtpSession`, `TlsReloader` and `SmtpSessionProofs`, which is about both — done.
4. `WebhookOutbox` and `WebhookOutboxProofs` — done.
5. `MailContent`, `MailStore`, `SmtpSender`, `Inbound`, `Recipients` — done: the
   worker's pass statement by statement, with reports, tracking and the sender, and
   the requests and visitors around it.
6. `AuthStore`, `Accounts`, `Identity`, `IdentityProofs` — done.
7. `TenantStore`, `Tenants`, `TenantSso`, `TenantsProofs` — done.
8. `ResourceStore`, `Resources`, `ResourceApi`, `ResourceProofs` — done.
9. Left: the SPF evaluator with its lookup limits, as an algorithm against a
   reference definition (recursive, hence for TLC only).
10. Proofs of the safety invariants of `Delivery`, `TlsReloader`, `WebhookOutbox`,
    `Campaigns`, `SmtpSession`, `Submission`, `Identity`, `TenantSso` and `ResourceApi`
    — done. Left: `TurnsAreTaken` (`FairQueue`) and the mail flow (`Recipients`).

Composition: `Delivery` is the middle. `FairQueue` refines its choice of a row,
`Submission`, `Campaigns` and `SmtpSession` are the ways into its `Accept`,
`WebhookOutbox` takes over where its variable `event` ends. `Inbound` runs the same
pass on finer steps, with contents, and produces the notification behind
`CorrelateBounce`. `Resources`, `Tenants` and `Accounts` write the rows the others
take as constants.

## Modules and code

The `map` of `PROJECT.json` gives the lines of every definition. Operators whose
comment begins with *Mutant* are plausible mistakes in the code they stand beside;
no specification uses them. They serve to show that the properties can fail.

Two conventions recur. In the modules over tables (`Recipients`, `Accounts`,
`Tenants`, `Resources` and what they extend) a `…Store` module has one operator per
SQL statement or transaction, which takes the tables and returns the new ones with
the constraints and cascades of the schema; a request is a process that runs one
statement per step, interleaves with others and may end after any step. And a
`scene` is the set-up of a behaviour (tables, callers, kinds of requests, their
number), chosen in `Init` and never changed: a run explores many small situations
instead of one large one.

### `MessageLifecycle` and `Delivery`

`MessageLifecycle` is what the message API promises: a visible status and the
status last announced, changed by `Create`, `Attempt`, `Bounce`, `Retry` and
`Prune`. `Delivery` is how it is done.

| variable | code |
|---|---|
| `status`, `purged` | `messages.status`, `content_purged_at`; `Absent` and `Pruned` for no row |
| `queue` | `queued_messages`: attempts, lock, whether `retry_after` is reached |
| `job` | the local variables of `process_next` in each delivery thread |
| `delivery`, `event` | the newest `deliveries` row and what the newest webhook request says |
| `handed` | a remote server has accepted a copy (only then can a bounce name it) |
| `retention` | a statement of the retention pass between its snapshot and its write |

`Dequeue`, `Load`, `Drop`, `CheckSuppression`, `Send` and `Record` are the steps
of a delivery thread. `Record` is the transaction `record_outbound_delivery`: if
the status is not `Bounced` and the row exists it writes status, delivery row,
queue action and webhook requests, else it deletes the queue row only.
`RequeueOutbound` is the retry endpoint, `CorrelateBounce` a bounce report,
`Import` the import endpoint, `PurgeSelect`/`PurgeUpdate` and
`PruneSelect`/`PruneCommit` the retention pass in two steps each, because under
READ COMMITTED an `UPDATE` that waited re-reads the row it updates and not its
subselect. `Abandon` is a crash or an error that propagates to the loop.
`LockExpires` is time; without `Overrun` it happens only to a lock whose holder
is dead, which is the code's assumption (the window is at least a day).

### `FairQueue`

`List`, `SortByTurn`, `TryServer`, `TakeTurn` are the four points of
`PgQueue::dequeue` between which other threads run: the listing query, the sort by
the process's `Turns`, the locking query per server, and the entry into `Turns`.
`recent` keeps the servers in the order of their turn numbers, since only that
order is compared. A scene says how many processes, threads and servers there are
and what each process is dedicated to. The filters `worker.servers`, `exclude_servers` and `deliver`
are `Filter`. `overtaken` is a history variable: the turns given to others while a
server `Waits`, with ready mail and nothing in flight.

### `Submission`

A `call` is a request on its way through the code: `Lookup`, `ReadPolicy`,
`ReadOrgUsage`, `ReadServerUsage`, `Decide` (once per item of a batch), `Begin`,
`Commit` or `LoseRace`, `Reconcile`, `AnswerRaced`; `Rcpt`, `StoreOne` and
`AllStored` for SMTP. Each read is a step and may fail, with what the code makes
of the failure: an HTTP request refuses, SMTP takes an unreadable usage for a full
one and an unreadable policy for the default one. At the end of DATA an SMTP session
reads the server of its credential (`ReadServer`): unreadable, it opens the gates; of a
session that has authenticated again (`reauth` of the scene) it may be another
(`OtherServer`). `Commit(c, TRUE)` is a commit whose acknowledgement is lost. A scene gives the servers, limits, requests and
faults of a behaviour. `ReadForChange` and `WritePolicy` are a request to
the limits endpoint, which writes every column back.

### `Campaigns`

A request is `Read` (with the status test) and `Write`, or `CountAudience`,
`WriteSend` and `Spawn`; `Abandon` ends it early. `Claim` is `claim_due_campaigns`,
`Start` the call of the expansion after it, `ClaimLost` a claim that was committed
and reported as an error. An expansion is a task of a process: `ListSubscribers`,
then for each recipient `Prepare`, `Store`, `Tag`, and `WriteProgress` after a batch,
`Finish` or `MarkFailed`. Each statement may fail as the code allows, and one that
fails may have taken effect (`Effects`): after a store that reports an error the
recipient is skipped (`Skip`), although its message may be stored. `Crash` ends all
tasks of a process.

### `WebhookOutbox`

Both tables are one function `rows`, keyed by event and webhook (0 for
`lifecycle_events`). A worker alternates between them as `Worker::run` does.
`Guard`, `Post`, `LogAttempt` and `Finish` are the points of
`process_next_webhook` at which a crash makes a difference; lifecycle events have
no guard and no log, and are posted to every URL. `DiscardAll` is the
housekeeping of an installation without URLs. `past` is history.

### `SmtpSession`

The session of one connection, with the transport around it. `StartTls` marks the
session before the handshake, as the code does; `wire` is the truth that
`StampsAreTrue` and `StoredIsEntitled` compare it with. `Sending`, `Target` and
`Accepts` are the three ways a recipient is resolved (a bounce or route token, a
mailbox by name, a credential, the session's or that of the client's address).
The decoding of AUTH responses and the parsing of headers are choices of their
result; whether the limits allow a message and whether its key was used before is
`Submission`'s subject, and a choice here.

### `TlsReloader`

The two files, their modification times, the start of the server and any number of
concurrent handshakes, each of which states both files, compares under the read
lock, reads both files, and replaces the acceptor under the write lock. Every
write gives a file a new modification time: two writes within the granularity of
the file system's clock are not modelled.

### `MailContent`, `MailStore`, `SmtpSender`, `Inbound`, `Recipients`

`MailContent` is what is read in a message and written into it: the walks over MIME
leaves and header lines for delivery status notifications, feedback reports and
DMARC reports, the message tokens, the tracked links. A line is a name and a
sequence of words; an XML document is its root, what breaks it and what it names.
`MailStore` is the tables. `SmtpSender` gives for each part of the dialogue the set
of ways in which it can end, since the remote server may answer anything or nothing;
an outcome says how many servers took the message and over which links content or
credentials went. `Inbound` is one pass of the worker: inspection, feedback report,
bounce, DMARC report, route and endpoint for incoming mail; holding back, tracking,
stamping, sending and recording for outgoing mail. `pass` is what the thread has
read. `Recipients` adds the API requests about messages and subscribers, the public
pages, retention, the notifications that come back, and the properties. `seen` is
what happened outside the database. The dequeue takes any row that may be taken;
their order is `FairQueue`'s subject. Whether a failure of the sender is hard or
soft is what `SmtpSender` classifies; the signature and the TLS flag of a delivery
are left out.

### `AuthStore`, `Accounts`, `Identity`

`Accounts` has the requests of `auth_api.rs`, `webauthn.rs`, `scim.rs` and the user
endpoints; `Identity` adds the social, OIDC and SAML sign-ins. Hashes, codes,
signatures and XML are compared as values or are one test. A request that is refused
by its first read changes nothing and is no action. `spent`, `guesses`, `stale`, and
the fields `raced` and `kept` of a session are history.

### `TenantStore`, `Tenants`, `TenantSso`

`AuthMiddleware` is the decision of `app.rs`; `Find` the second lookup with the
reads and tests of the handler; `Statement` a write with its foreign keys.
`TenantSso` has the endpoints for domains and connections (secrets that come back
masked are kept, `MergeSecrets`) and the sign-in with its provisioning. `excused`,
`left`, `proved` and `asked` are history.

### `ResourceStore`, `Resources`, `ResourceApi`

All tables are one set of rows with an owner, a name, a flag, an edited value and a
reference; `ResourceStore` has their unique keys, foreign keys and cascades.
`Resources` has the servers, machine keys, domains, track domains and sender
addresses; `ResourceApi` the rest, of which streams, layouts and templates are
requested with a credential (`ServerAuthMiddleware`). Every caller of the management
API holds a machine key here, so that the test of `force` in the verification of a
domain (a 403 to a signed-in user, which changes nothing) always passes. `proved` and
`stopped` are history.

## Runs

`tlc -config <cfg> <module>` in this directory repeats a run.

| run | module, cfg | properties | what it shows |
|---|---|---|---|
| `delivery` | `MCDelivery`, `MCDelivery.cfg` | `NoStrandedMessage`, `OutboxAgrees`, `BouncedIsFinal`, `NoSendAfterSettled`, `ImplementsLifecycle`, `EventuallySettled` | the pipeline keeps the message API's promise under crashes, retries, bounces and retention, and every accepted message is settled |
| `fair_queue` | `MCFairQueue`, `MCFairQueue.cfg` | `TurnsAreTaken`, `EveryRowTaken` | tenants take turns although threads decide on stale listings, and every row in some worker's part is taken |
| `submission` | `MCSubmission`, `MCSubmission.cfg` | `KeyStoredOnce`, `AnswersAreTrue`, `UsageIsTrue`, `OvershootBounded` | concurrent requests with one key on three endpoints, with failing queries and lost acknowledgements; counters, thresholds and gates while days and months turn and the policy changes |
| `smtp_lost` | `MCSubmission`, `MCSubmissionLost.cfg` | `AcceptedIsStored` (violated) | SMTP answers 250 for a message it failed to store |
| `campaigns` | `MCCampaigns`, `MCCampaigns.cfg` | `SentOnceUnlessRaced`, `SendingEnds` | two schedulers, requests, restarts and failing statements |
| `webhook_outbox` | `MCWebhookOutbox`, `MCWebhookOutbox.cfg` | `RemovedIsAccounted`, `OneDeliverer`, `OutboxesDrain` | both outboxes with a crash, and a webhook that is changed and deleted on the way |
| `smtp_session` | `MCSmtpSession`, `MCSmtpSession.cfg` | `EnvelopeAgrees`, `StampsAreTrue`, `StoredIsEntitled` | any order of commands on one connection |
| `tls_reload` | `MCTlsReloader`, `MCTlsReloader.cfg` | `CurrentIsServed` | two handshakes and two writes of the files in any order |
| `identity` | `MCIdentity`, `MCIdentity.cfg` | `OneTimeUsedOnce`, `SignedOutStaysOut`, `LockoutHolds`, `ProvenSecret` | tickets, passwords, second factors, passkeys, provisioning and providers in concurrent requests |
| `tenants` | `MCTenants`, `MCTenants.cfg` | `OwnerRemains`, `SsoInsideTenant`, `LastWordHolds`, `WithinScope` | members, invitations, settings and single sign-on of two organizations |
| `resources` | `MCResources`, `MCResources.cfg` | `TrustIsProved`, `StoppedStays`, `ReferencesStayHome`, `WithinServer` | the resources of three servers of two organizations |
| `inbound` | `MCInbound`, `MCInbound.cfg` | `CorrelatedOnce`, `ThreatContained`, `DroppedOnlyWhenExhausted`, `OptOutHolds`, `MandatoryTls`, `LinksResolve`, `QueueDrains` | the mail flow with bounces, dangerous mail, endpoints, reports, opt-outs, links and relays |

A violated run is the trace of a disagreement: see `findings` in `PROJECT.json`.

### Bounds, and why they are enough

- `delivery`: one message, two delivery threads, three row ids, three attempts,
  two crashes and two retry requests. Messages meet only in the choice of the
  row (`FairQueue`'s subject), so that one suffices for a property that speaks of
  one message; the proofs cover any number. Three row ids are the first and one
  per retry request. Two crashes allow a stale lock to be taken over by a thread
  that crashes too. Three attempts have a first, a middle and a last one.
- `fair_queue`, in three scenes: two threads of one process over two servers, so
  that one decides on what the other has made stale, with four rows; one thread over
  three servers, so that a server can be overtaken by two others, with five; both
  with a restart, and both reach the bound of `TurnsAreTaken` (2 turns without the
  restart, 4 with it). Two processes with the filters of
  `docs/configuration.md` (one for all but a tenant, one for that tenant's bulk
  mail), three rows, one retry and one crash. The listing's limit and the
  size at which turns are forgotten are as small as the number of servers.
- `submission`, in four scenes. One key: two concurrent clients, three calls, so that
  a third request meets what two others left; a valid, an invalid, a batch and an
  SMTP request; one fault of any kind, one expiry; one server, because keys of
  different servers are different rows. Limits: two servers, a month of three days,
  a window of two and five days in all, so that both a month and a window end;
  limits of 2, 3 and 5 with requests of 1 to 3 recipients, so that 80% and 100% are
  reached by one message and by different ones; one administrator with two changes.
  Replays and limits share no state but the counters, hence scenes of their own. The
  third: three SMTP submissions without a key, to a server with a limit of its own, in
  sessions that may authenticate again, one of which cannot read the policy, a usage or
  the server. The fourth: three of which one cannot read the policy, where only the
  organization has a limit.
- `campaigns`: two addresses with a batch of one, two processes, one requester
  with two requests, two expansions, one change of a subscription, one trouble (a
  restart, a dropped request or one failing statement).
- `webhook_outbox`: one webhook, two lifecycle URLs (one may fail while the other
  answers), two workers, two events, two attempts, one change, one crash.
- `smtp_session`: two servers with a credential each, of which one is also the
  credential of the client's address, two senders and the null sender, an address
  of each kind, bodies with each verdict, two recipients, two messages per
  connection, two suspended at once.
- `inbound`: 21 scenes of one or two messages, one or two workers, up to three
  requests, two attempts, one mishap (a crash, a failed statement or an overdue lock).
  Two workers matter where a lock can be overdue, two requests where one reads what
  the other writes.
- `identity`: an account that exists and an address that is free, two requests in
  flight, three in all, two password guesses before the lock, one mishap (a failing
  statement, a lost client, an expiry). Four scenes group the requests that touch the
  same rows. The identity provider may present an assertion it has presented before.
- `tenants`: two organizations, three addresses in two domains, two requests in
  flight, two or three in all, one mishap; seven scenes. Three requests are a
  deletion and a creation around a request that is between its two lookups.
- `resources`: two servers of one organization and one of another that bears the
  same permalink, two requests in flight, three in all, one mishap; nine scenes.
- `tls_reload`: two handshakes, two contents of which the certificates match
  one or both keys, writes up to time 3 (the files are of time 1).

`CHECK_DEADLOCK FALSE` stands where the bounded environment may stop: everything
has been sent, all requests are answered, or a connection is closed. `MCDelivery` checks for deadlock.
Symmetry (of clients, of requests in flight) is used in runs without liveness only.

## Fairness

| run | weak fairness of | because |
|---|---|---|
| `delivery`, `fair_queue` | each delivery thread, the clock | `deliver_loop` and `run` loop for ever: after a row, after none (sleep) and after an error (sleep); `retry_after` and lock ages are compared with `now()` |
| `campaigns` | expansions that run, `ComesDue`, each request's `Spawn`, each scheduler's `Claim` and `Start` | tasks and handlers are polled by the runtime, the scheduler wakes at an interval |
| `webhook_outbox` | each worker's loop, the clock, `DiscardAll` | the main loop of `run`, which also does the housekeeping every hour |
| `inbound` | each worker's `Work`, the expiry of a lock nobody works on | the same loops; statements, scanners, endpoints and remote servers have timeouts, and days pass |

Nothing is assumed of clients, tenants, administrators, remote servers (a step of
a worker includes the outcome, good or bad: every client has a timeout) or of the
retention pass. Crashes are bounded: with a crash in every attempt no delivery
would ever end. In `webhook_outbox` this also bounds the panic described below.
No step that fails is fair.

## Proofs

Checked with `tlapm` on `DeliveryProofs.tla`, `WebhookOutboxProofs.tla`,
`CampaignsProofs.tla`, `SmtpSessionProofs.tla`, `SubmissionProofs.tla`,
`TenantsProofs.tla`, `IdentityProofs.tla` and `ResourceProofs.tla`. The theorems hold
for every value of the constants under the named `ASSUME`s of their modules, which
TLC evaluates in the runs:

| assumption | says |
|---|---|
| `Delivery!ConstantAssumption` | attempts are at least 1, the placeholders are no members of their sets |
| `TlsReloader!ReloaderAssumption`, `WebhookOutbox!OutboxAssumption` | the same kind of facts: types of the parameters, placeholders are distinct |
| `Campaigns!CampaignAssumption` | a batch has at least one recipient; a campaign starts as a draft, scheduled, or sending |
| `SmtpSession!SessionAssumption` | what the lookups of the server can return; implicit TLS needs a certificate |
| `Submission!SubmissionAssumption` | buckets are kept for at least the window; a single send and SMTP have one item, a batch any number, none included; a limit is at least 0 (`api/src/quota.rs:275` refuses others) |
| `Submission!GateAssumption` | finitely many clients and sizes of requests; a limit fits into 64 bits |
| `Accounts!AccountsAssumption`, `Identity!IdentityAssumption` | the limit of guesses is at least 1 (0 locks at the first guess, as 1 does); the accounts and sessions a behaviour starts with are ones the code can have made; providers speak of addresses of the model |
| `Tenants!TenantAssumption` | the tables a behaviour starts with obey the schema (`StoreOK`), nobody has signed in through a provider yet, and 0 is no role |
| `Resources!ResourceAssumption` | the tables a behaviour starts with: unique ids, owners that exist, references at home, nothing verified yet |

**`DeliveryProofs`.** Two inductive invariants, each with one lemma per action.

- `Base` = `TypeOK`, `RowShape`, `JobShape`, `RetentionShape`, `OneRowPerMessage`,
  `OutboxAgrees`. It holds even if workers outlive their locks (`Overrun`), and is
  needed because `OneRowPerMessage` alone is not inductive: a job or a retention
  pass whose row id meant another message could delete or revive the wrong row.
  From it: `TypeCorrect`, `SingleRow`, `OutboxIsConsistent`, `BounceIsFinal`.
- `Exclusive` = `Base`, `LockHeld`, `RowStatus`, `SeenHolds`, `NoStrandedMessage`,
  `AttemptsBounded`, under `~Overrun`. `LockHeld` is its heart: a thread with a job
  owns the lock of its row and the attempts it read are the row's, or the row was
  pruned with its message. Without it nothing says that `Record` deletes the row of
  a message it has just settled and not of one that was queued again. From it:
  `NothingStranded`, `AttemptsStayBounded`, `SettledIsNotSent` and
  `DeliveryImplementsLifecycle`, the refinement: an initial state maps to an
  initial state, and each action to an action of `MessageLifecycle` or to a stutter.
  `RowStatus` is what makes `Record` an `Attempt`, whose guard asks for a message
  that is still being delivered.

`TypeOK` bounds `crashes` and `retries` by arbitrary naturals, so that the bounds
of the runs do not limit the theorems.

**`SmtpSessionProofs`, of `TlsReloader`.** `ReloaderInv` = `ReloaderTypeOK`, `Times`,
`Recorded` and `HandshakeRecord` for every handshake, under `~StartupWrites`: what a
stamp vouches for (`Vouches`) stays true when files are written, since a write gives
a time that no stamp has, and a handshake reads its contents after its stamp. From it
`RecordedStampVouches`, `RenewalIsServed`, `HandshakesGetPairs`.

**`WebhookOutboxProofs`.** `IInv` = `TypeOK`, `JobOK` and `ProgressOK` for every
worker, `OneDeliverer`, `FutureOK`, `CountOK`, `AttemptsBounded`,
`RemovedIsAccounted`, under `~Overrun`. `JobOK` is what `LockHeld` is in
`DeliveryProofs`: whoever works on a row that is still there holds its lock and
knows its attempts, so that the removal and the retry, which do not ask who holds
the row, never hit another worker's. `CountOK` ties the attempts of a row to those
begun, interrupted and recorded as failed; `ProgressOK` says that a job reaches its
end only after all URLs have answered or a failure was recorded. From it
`TypeCorrect`, `NeverTwoDeliverers`, `AttemptsAreCounted`, `RemovalsAreAccounted`.

**`CampaignsProofs`.** `IInv` = `TypeOK` and, as long as no request has written over a
status it had not read (`~raced`), `Single`: either no expansion has started, at most
one request or scheduler is about to start one (none while the campaign is planned)
and no mail is stored; or there is exactly one expansion, nobody is about to start
another, the campaign cannot be planned again, and the mail is what that expansion
has `Done`. `Done` counts: one message whose store was answered for each recipient
counted, and one more between the storing of a message and its tag; hence `sent` in
the row is the number of those messages. It is needed because "sent once" says
nothing of who may start the second expansion. From it `CampaignsTyped`,
`CampaignSentOnce`.

**`SmtpSessionProofs`.** `IInv` = `TypeOK`, `EnvelopeKept`, `Entitled`, `Encrypted`,
`SpfFresh`, `Protected` and the three properties themselves, which speak of the answer
just given. `EnvelopeKept` ties the session's recipients to what the client was told
with each 250, through RSET, STARTTLS, a second MAIL FROM and AUTH in the middle;
`Encrypted` ties `session.tls` to the wire, `SpfFresh` says that before the first
message SPF has not been evaluated outside DATA. From it `SessionInvariant`,
`EnvelopeTheorem`, `StampsTheorem`, `EntitlementTheorem`.

**`SubmissionProofs`.** `Inv` = `TypeOK`, `Numbered`, `Untouched`, `OpsStored`,
`RowsHold`, `ExpiredStays`, `AnswersAreTrue`. `RowsHold` is the heart: each row of
`idempotency_requests` names a stored operation of the same server, key, endpoint and
items, a key has one row, and each operation that is still fresh has a live one.
`ExpiredStays` is what a transaction between `Begin` and `Commit` needs: the row it
found expired is still expired, so that replacing it drops no live key. From it
`SubmissionInvariant`, `KeyTheorem`, `AnswersTheorem`.

The send limits, in the same module: `UsageInv` = `Inv`, `Counted`, `LimitStays`,
`Announced`: the month's counter and every bucket that is kept equal the number of
messages in the table, and a threshold is announced once, exactly if the counter has
reached it while the limit is the first one. What the gates read is a sum over the
window (`MapThenSumSet`, a recursion over sets). That the sum is the number of messages in the window is shown
without induction over data: a function with the values wanted solves the recursion's
equation, and if the two differed somewhere they would differ on a smallest set
(`WFMin`), where the equation makes them agree. From it `UsageInvariant`,
`UsageTheorem`.

How far limits can be exceeded: `GateInv` adds to `UsageInv` what each request in flight
still owes (`OrgCharge`, `SrvCharge`). A request owes from the read of the usage
(`server_api.rs:389`), if the item it examines will pass, to its transaction, which
counts in the month it began. `OrgHeld` and `SrvHeld` say: what was sent and what is
owed together exceed the limit by at most `Slack`, the largest request for every client
but one. They speak of the requests in flight because a bound on what was sent says
nothing of a request that has passed the gate and not yet stored. The sum over the
requests is the cardinality of `Debt`, the set of pairs of a client and a number up to
what it owes, so that no induction over the clients is needed: a gate that opens lets
one client owe, within the limit, and every other owes at most the largest request; a
transaction moves to the table what its client owed. `PoliciesTyped` and `LimitKnown`
say that the limit a request has read is the organization's. From it `GateInvariant`,
`OvershootTheorem`.

Three things open the gates over SMTP, and the statement leaves them out. A server whose
row cannot be read at the end of DATA has no allowance to test
(`session.rs:1061`, `pg_store.rs:3610`), and a session that has authenticated again since
RCPT TO asks the gates of the other credential's server; the history `opened` keeps the
calls to which one of these happened, and what they store (all but `Gated`) counts in the
usage and not in the bound. A policy that cannot be read is the default one
(`pg_store.rs:3756`), without limit, so that the organization's bound is stated for
behaviours where no such read has failed. The proof's case for a call that opens
(`OpenedGates`) strikes it from what is owed. Without any one of these exceptions the
third and fourth scenes of the run violate the statement.

**`TenantsProofs`.** `IInv` says: the numbers of requests are distinct and no row has
been inserted under one that is still to come (`Numbered`); the tables obey their
schema (`StoreOK`); a verified domain has been proved (`Proven`); sessions (`Signed`);
`OwnerRemains`; and `ReqOK` for every request in progress, which is what makes the
properties inductive:

- `SparesOwner`: the owners a request has seen when it made its tests are not just the
  user it is about to demote or remove. The write then leaves an owner or meets other
  owners, and is excused.
- `SignIn`: what holds at each step between the provider's answer and the session.
- `InScope`: the organization a request works on is the one it was let into, or that
  one is gone for good.
- `OwnRow`: the domain, connection or invitation that a request names by an id is of
  the organization it works on, now and after whatever the others do, since ids are
  not given twice.

`ReqKept` shows that `ReqOK` survives any step of others that lets the tables
`Evolve`: rows keep their organization, members become members that left, numbers of
organizations are not given again. Each action is then shown to be `Good`: it keeps
`IInv` and changes rows of its own organization only (`Steps` says so table by table,
`Elsewhere` draws the conclusion). From it `TenantsInvariant`, `OwnerTheorem`,
`SsoTheorem` and, as an action property, `ScopeTheorem`.

`WordInv`, for `LastWordHolds`, adds to `IInv` that what was asked is asked of an
organization or a connection whose number nobody else will get (`Numeral`): a ghost
about a deleted row would otherwise come to speak of its successor. A request that
changes a setting has therefore found its organization before it asks (`FoundOrg`).
Every other action leaves the settings of the rows that remain alone; a write of a
whole row either was computed from the row that is there, and changes one field of
it, or marks every word about that row as overlapped. From it `WordTheorem`.

**`IdentityProofs`.** `IInv` has five parts.

- `IsDb`: the tables are well formed, row by row.
- `Requests`: for every request its shape, where it can be by what it is for
  (`Placed`), that no request has read an account that is still to come (`Past`), and
  `Fit`, which is what a request that was not overtaken may rely on between its read
  and its write: a login that has compared the password still has the current one and
  an active account, a change of password knows the password it has just written, and
  so on. An account that is deleted and created again under the same address has
  another generation (`gen`), and `Fit` asks nothing of requests about the old one.
- `Sessions`: a session that carries no mark, and that no request is about to delete,
  has the current password. `SignedOutStaysOut` alone is not inductive: a session is
  issued steps after the password was compared, and only `Fit` says what is still true
  by then.
- `Numbers`: tickets and redemptions bear the number of the request that made them,
  numbers are distinct, and a ticket that has been redeemed is not in the table. A
  request that is about to insert its ticket has a number nobody has redeemed.
- `Counter`: the row's counter is at least the number of guesses and reaches the limit
  only with the lock, unless sign-ins overlapped.

One lemma per action and conjunct; steps that leave the passwords and flags alone
(`Moves`, `Tame`) are treated once. From it `IdentityInvariant`, `OneTimeTheorem`,
`SignedOutTheorem`, `LockoutTheorem`, and `ProvenSecretTheorem` as an action property:
only the last statement of an activation turns a factor on, and `Placed` says that the
secret it read is the one whose code was typed.

The proof found three places where the model was too coarse, none of which the bounds
of the run reach: guesses against an account that had been deleted were counted for
the new one of the same address; a `register` whose first password overwrote that of a
reset was not said to have kept the reset's sessions; and sessions were deleted by
address, where the code has the user's id.

**`ResourceProofs`.** What a request carries from one statement to the next is a copy
of a row, and others go on meanwhile. `IInv` says when the copy is safe to use:

- `Store`: ids are unique, below the next one and never given again; an owner is a
  server or a pool and is there (`Owned`); references are at home (`AtHome`).
- `Copies`: every row with the id of a copy has the copy's table and owner (`Known`),
  and where the copy's references still lead to something, it is of the copy's server
  (`Leads`, `Default`). Hence writing back a stale row can only make its own row older:
  it moves nothing to another server, and what it refers to is gone or at home.
- `Placed`, `Aims`: the row a handler has read is of the table and the server it asked
  for, a domain about to be marked has been proved, a copy's target is a server of the
  organization of the request.
- `Current`: a request about to write back a row that was taken out of service has read
  it so, since a stop counts only when nobody holds a copy from before it.
- `Ghosts`, `TrustIsProved`, `StoppedStays`.

`Evolves` is how the tables may go on without disturbing anybody's copies
(`RequestStays`); each statement is shown to be such a step once (`InsertStore`,
`ChangedStore`, `DeleteStore`, `RemoveFine`), each action to be `Good`: it keeps
`IInv`, moves one request, and changes rows of that request's server or of its target.
From it `ResourceInvariant`, `TrustTheorem`, `StoppedTheorem`, `ReferencesTheorem` and,
as an action property, `WithinServerTheorem`. The proof found one place where the model
was wrong: deleting a row with the number of an organization would have deleted the
servers of that organization, whose owner is no row of these tables.

**Only model-checked**: liveness (`EventuallySettled`, `EveryRowTaken`,
`SendingEnds`, `OutboxesDrain`, `QueueDrains`: fairness is out of the prover's
reach); `TurnsAreTaken` of `FairQueue`, which is not true of every value of the
constants: with more servers waiting than `CandidateLimit` (1000 in the code) or
remembered (10000) turns can be given again before each has had its own; and
everything about the mail flow (`Inbound`, `Recipients`), whose properties rest on folds
over the MX hosts, the recipients and the content of a message.

**Only proved**: that `Base` survives `Overrun`, and the theorems on `TypeOK`,
`OneRowPerMessage`, `AttemptsBounded`, `RecordedIsLoaded` and `PairMatches`, which no
run repeats (as `INVARIANT`s they can be added to the cfg of their module, where the
model defines them), and the inductive invariants that the proof modules define.

## Disagreements with the documentation

One has a run, and a finding in `PROJECT.json`: `smtp_lost`. Four can be replayed
with definitions that are in no cfg:

- **The content purge can empty a message that was just queued again**
  (`retention.rs`): `QueuedKeepsContent`, added to `MCDelivery.cfg`.
- **An edit that overlaps the claim sends a campaign twice** (`server_api.rs:2985`):
  `SentOnce`, added to `MCCampaigns.cfg`.
- **A crashed worker's lock counts as in flight** (`queue.rs:312`), so its server is
  passed over for as long as others have mail and the lock is not stale, at least a
  day; `docs/configuration.md:309` says that servers take turns: `DeadLocksExcuse = FALSE`
  and `Scenes <- DeadLock` (one thread over two servers with six rows and a restart) in
  `MCFairQueue.cfg` violate `TurnsAreTaken`. The run leaves these turns out.
- **Mail whose attempts run out is not marked**: when the endpoint of a route refuses
  or is blocked for the last time, the worker deletes the queue row and does nothing
  else (`worker.rs:644`, `worker.rs:674`; a DMARC report that cannot be stored is
  treated alike). The message stays Pending and has no delivery row.
  `docs/inbound.md:101` says that it is marked failed, and lines 117 and 178 that it
  ends as a failed delivery with an entry: `ExhaustedIsMarked`, added to `MCInbound.cfg`
  (`Scenes <- OneEndpoint` gives the shortest trace). The run's
  `DroppedOnlyWhenExhausted` says what is left: nothing is given up any earlier.

The others are behaviours the models have and the properties are stated around; most
were seen as a counterexample of the plain statement while the model was written.

Sending and delivery:

- **Imported records are sent.** `requeue_outbound` (`pg_store.rs:5243`) queues an
  imported `Pending`, `SoftFail` or `HardFail` message; `pg_store.rs:4253` says an
  imported message is a record and is not sent.
- **Limits can be exceeded by concurrent requests** (`server_api.rs:401` reads, the
  transaction counts; `core/src/quota.rs:4`, `docs/pricing.md:13`).
  `OvershootBounded` says by how much, and `OvershootTheorem` proves it.
- **Two policy changes lose one** (`api/src/quota.rs:250` writes every column back;
  `quota.rs:179` reads as if only the named fields changed).
- **SMTP fails open**: a policy that cannot be read is the default one
  (`pg_store.rs:3764`), so that a suspended organization sends
  (`docs/administration.md:184`); a server that cannot be read at the end of DATA has
  no limit, nor has its organization (`session.rs:1061` to `1085`, `pg_store.rs:3610`).
- **Campaigns**: two sends, or a send and a claim, overlap (`server_api.rs:2985`);
  a cancel that overlaps a claim is overwritten (`3034`); an expansion that was lost in
  a restart, or never started because the answer of the statement that wrote
  `sending` was lost (`3072`) or the request dropped after it (`2985`), leaves `sending`
  for ever (`docs/campaigns.md:53`), which is the `lost` of `SendingEnds`; a message
  that is stored while its answer is lost is skipped (`2465`): it goes out, is not
  attributed and not counted in `sent` (`docs/campaigns.md:45`), hence "answered" in
  `SentOnceUnlessRaced`; `total` is not counted when the scheduler claims
  (`pg_store.rs:3208`; `docs/campaigns.md:44`).
- **AUTH again after RCPT TO** stores a message of one server under the credential
  of another (`session.rs:905`; `docs/sending.md:69`, `78`), and within the other server's
  limits (`session.rs:1061`). `StoredIsEntitled` is stated for the messages of the
  credential's own server, `OvershootBounded` for calls that kept theirs (`OtherServer`).
- **SPF is evaluated once per connection** (`server.rs:479`), so that a second
  message carries the first one's verdict (`server.rs:202`). `StampsAreTrue` speaks of the first.
- **DATA without an accepted recipient** is answered 250 and stores nothing
  (`session.rs:780`; `docs/inbound.md:111`).
- **A renewal during the start** is not noticed: the stamp is taken after the load
  (`server.rs:144`; the comment at `132`). `StartupWrites` is FALSE in the run and
  an assumption of the theorems.
- **A webhook's answer is cut at byte 2048** (`webhook_queue.rs:197`), which panics
  inside a character; the main loop ends and the request stays locked
  (`docs/webhooks.md:291`).
- **Lifecycle events of organizations and users** are written after their cause
  (`lifecycle.rs:46`); `docs/webhooks.md:476` says in its transaction, which is so
  for thresholds.
- **Ten attempts** (`docs/webhooks.md:297`) do not include attempts that were
  interrupted, hence the `broken` of `AttemptsBounded`.
- **The SMTP client takes any unexpected 2xx or 3xx reply for success**, also a 250 to
  DATA or a 334 to AUTH PLAIN, before the message was handed over. When the reply to
  the final dot is lost the message is sent again (`smtp_client.rs:566`). AUTH for a
  relay on port 25 may go in clear, which is why `MandatoryTls` speaks of the
  submission port and smtps.

Inbound:

- **A stale category**: a message that failed, was put back and is then delivered
  keeps the category of its failure (`COALESCE` at `pg_store.rs:4503`, and
  `requeue_outbound` does not reset it); `core/src/bounce.rs:13` says that it never does.
- **A bypass has no effect**: `server_store.rs:685` says that the message is processed
  again "with block rules bypassed"; the worker never reads the column.
- Feedback reports are not idempotent and DMARC reports not deduplicated. A report is
  completed before it is marked, and a route that cannot be read counts as no route:
  the two exceptions of `LeftTheQueue`. A scanner that fails lets mail pass, and its
  failure in a second worker can overwrite a verdict. The unsubscribe page answers
  success although its write failed.

Accounts, tenants, resources:

- Passkeys and social sign-in do not read the flag of a deactivated account; a
  sign-in under way when a password changes gets its session: the exceptions of
  `SignedOutStaysOut`. Two overlapping wrong guesses count as one (`LockoutHolds`).
- An account and its event are separate statements (`lifecycle.rs:46`).
- An invitation made with a machine key cannot be stored (`invited_by` is a foreign
  key). Accepting an invitation can demote the last owner. `members_create` goes on
  when the read of the membership fails. A connection's `default_role` may be `owner`.
  These are what `excused` stands for in `OwnerRemains`.
- A handler acts in the organization that bears the permalink at its own lookup, which
  need not be the one the middleware admitted (the exception of `WithinScope`).
- Update handlers write whole rows back: a concurrent PATCH can undo a suspension, a
  hold, a disabling or an archiving (the exception of `StoppedStays`).
- `create_server` is three statements; a failure leaves a server without its default
  stream, and an update that had read the row before writes NULL back. The owner of a
  domain is no foreign key, so that domain rows outlive their server. `ip_pool` is not
  written by `update_server`. `delete_suppression` relies on the tenant context of
  row-level security. A copied template comes without its layout, to a server of the
  same organization. An import is one transaction per message.

## What is not modelled

- The SPF evaluator (on the plan), and DKIM, MIME, templates and the received header:
  pure functions of strings without state. Of report parsing, the decoding of transfer
  encodings, archives and XML text; the walks over parts and lines are in `MailContent`.
- Cryptography: the verification of SAML, OIDC and WebAuthn messages and of
  signatures is one test each.
- Queries that only read (listings, previews, insights, the admin overview), the
  dashboard, configuration and process start, the in-memory stores that stand in for
  the database in tests.
- Network clients (spamd, clamd, DNS, Stripe): their answers are choices where a
  module needs them.
- Of retention, the deletions by age of logs, sessions and reports that no module's
  actor reads.
- Sending on a webhook call, a translation of a payload into a send.
- The deliberate simplifications inside a module are in its comments.
