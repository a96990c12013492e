------------------------------ MODULE Inbound --------------------------------
(***************************************************************************)
(* The worker's pass over one queue row (worker.rs): incoming mail is      *)
(* inspected, read as a feedback report, a bounce or a DMARC report, and   *)
(* else posted to the endpoint of its route; outgoing mail is held back,   *)
(* tracked, stamped and sent.  Every statement is a step, between two of   *)
(* which another worker or request may run, or the pass may end.           *)
(***************************************************************************)
EXTENDS MailStore, SmtpSender

CONSTANTS Workers, Procs,
          Scenes,        \* what is stored, configured and asked for at the start
          MaxAttempts,   \* worker.max_attempts
          MaxMishaps     \* bound: crashes, failed statements, overdue locks

VARIABLES db, pass, req, scene, left,
          seen           \* what happened outside the database

vars == <<db, pass, req, scene, left, seen>>

NoPass == [pc |-> "idle", q |-> 0, m |-> 0, attempts |-> 0, at |-> NewMessage(0, None, Plain), mark |-> None,
           slots |-> << >>, sent |-> SoftFail]

Idle == [op |-> None, pc |-> None, srv |-> 0, stream |-> None, to |-> None, asks |-> << >>, target |-> {}]

Quiet == UNCHANGED <<req, scene, left, seen>>
Mishap == left > 0 /\ left' = left - 1

At(w, pc) == pass[w].pc = pc
Go(w, pc) == pass' = [pass EXCEPT ![w].pc = pc]
Leave(w)  == pass' = [pass EXCEPT ![w] = NoPass]

(* Who follows the link in a message, or complains about it, no longer     *)
(* wants the mail of its stream.                                           *)
OptOutOf(m) == [srv |-> m.srv, stream |-> m.stream, to |-> m.to]
NoteOptOut(token) ==
  [seen EXCEPT !.optedOut = @ \union {OptOutOf(db.msgs[n]) : n \in {n \in DOMAIN db.msgs : OptTokens[n] = token}}]
OptedOut(m) == \E o \in seen.optedOut : o.srv = m.srv /\ o.to = m.to /\ o.stream \in {None, m.stream}

----------------------------------------------------------------------------
(* process_next *)
Dequeue(w) ==
  /\ At(w, "idle") /\ w \in scene.workers   \* in any order: turns and waiting times are FairQueue's
  /\ \E r \in Takeable(db) :
       /\ db' = Lock(db, r)
       /\ pass' = [pass EXCEPT ![w] = [NoPass EXCEPT !.pc = "load", !.q = r.id, !.m = r.m, !.attempts = r.attempts]]
  /\ Quiet

Load(w) ==
  LET message == db.msgs[pass[w].m] IN
  /\ At(w, "load")
  /\ IF message.live
     THEN pass' = [pass EXCEPT ![w].at = message, ![w].pc = IF message.scope = "outgoing" THEN "gate" ELSE "inspect"]
     ELSE Go(w, "complete")
  /\ db' = db /\ Quiet

Complete(w) ==
  /\ At(w, "complete")
  /\ db' = CompleteMessage(db, pass[w].q)
  /\ Leave(w) /\ Quiet

(* A failed handler: another attempt, or the end. *)
GivesUpEarly(attempts) == attempts + 2 >= MaxAttempts
LastAttempt(attempts) == attempts + 1 >= MaxAttempts
GiveUp(w) ==
  /\ At(w, "giveup")
  /\ db' = IF LastAttempt(pass[w].attempts) THEN CompleteMessage(db, pass[w].q) ELSE RetryMessage(db, pass[w].q)
  /\ seen' = [seen EXCEPT !.tries[pass[w].m] = @ + 1]
  /\ Leave(w) /\ UNCHANGED <<req, scene, left>>

(* The process ends, or a statement fails: the row stays locked. *)
Abandon(w) ==
  /\ pass[w].pc # "idle" /\ Mishap
  /\ seen' = IF At(w, "mark") THEN [seen EXCEPT !.unmarked = @ \union {pass[w].m}] ELSE seen
  /\ Leave(w) /\ UNCHANGED <<db, req, scene>>

(* A lock goes stale after days: of a pass that was abandoned, or of one   *)
(* that hangs.                                                             *)
Worked(r) == \E w \in Workers : pass[w].pc # "idle" /\ pass[w].q = r.id
LockExpires(r) ==
  /\ r.locked /\ ~r.stale
  /\ IF Worked(r) THEN Mishap ELSE left' = left
  /\ db' = [db EXCEPT !.queue = (@ \ {r}) \union {[r EXCEPT !.stale = TRUE]}]
  /\ UNCHANGED <<pass, req, scene, seen>>

----------------------------------------------------------------------------
(* The scanners give a verdict or fail, and then the message passes. *)
RspamdCheck(content) == content.danger
ClamavScan(content)  == content.danger

(* With no scanner nothing is held; a verdict is used again. *)
PassedOnce(at) == FALSE
StoredVerdict(at) == at.bad
Inspect(w) ==
  LET at == pass[w].at
      Verdict(bad) == pass' = [pass EXCEPT ![w].at.bad = bad, ![w].at.inspected = TRUE,
                                           ![w].pc = IF bad THEN "hold" ELSE "sort"]
  IN
  /\ At(w, "inspect")
  /\ \/ /\ ~scene.scanner
        /\ Go(w, "sort") /\ db' = db /\ Quiet
     \/ /\ scene.scanner /\ at.inspected
        /\ Verdict(StoredVerdict(at)) /\ db' = db /\ Quiet
     \/ /\ scene.scanner /\ ~at.inspected
        /\ LET bad == RspamdCheck(at.content) \/ ClamavScan(at.content) IN
           db' = RecordInspection(db, pass[w].m, bad) /\ Verdict(bad) /\ Quiet
     \/ /\ scene.scanner /\ ~at.inspected /\ Mishap
        /\ db' = RecordInspection(db, pass[w].m, FALSE) /\ Verdict(FALSE)
        /\ seen' = [seen EXCEPT !.unscanned = @ \union {pass[w].m}]
        /\ UNCHANGED <<req, scene>>

Hold(w) ==
  /\ At(w, "hold")
  /\ db' = RecordDelivery(db, pass[w].m, "Held")
  /\ Go(w, "complete") /\ Quiet

(* Reports are completed first and marked after. *)
Settle(w, mark) == pass' = [pass EXCEPT ![w].pc = "settle", ![w].mark = mark]
SettleReport(w) ==
  /\ At(w, "settle")
  /\ db' = CompleteMessage(db, pass[w].q)
  /\ Go(w, "mark") /\ Quiet
MarkReport(w) ==
  /\ At(w, "mark")
  /\ db' = RecordDelivery(db, pass[w].m, pass[w].mark)
  /\ Leave(w) /\ Quiet

IngestFeedbackReport(w) ==
  LET at == pass[w].at
      report == ExtractFeedback(at.content)
      abuse  == report # << >> /\ report[1].type = <<"abuse">>
  IN
  /\ At(w, "sort") /\ IsFeedbackReport(at.content)
  /\ \/ /\ ~abuse /\ Settle(w, IF report = << >> THEN "Held" ELSE "Processed")
        /\ db' = db /\ Quiet
     \/ /\ abuse /\ Settle(w, "Processed")
        /\ db' = RecordFeedbackComplaint(db, at.srv, report[1])
        /\ seen' = IF report[1].token = None THEN seen ELSE NoteOptOut(report[1].token)
        /\ UNCHANGED <<req, scene, left>>
     \/ /\ abuse /\ Mishap /\ Go(w, "giveup")
        /\ UNCHANGED <<db, req, scene, seen>>

(* Only a notification of failure, sent to the return path. *)
IsBounce(at) == at.bounce /\ IsFailedDeliveryStatusNotification(at.content)
Correlate(w) ==
  LET at == pass[w].at IN
  /\ At(w, "sort") /\ ~IsFeedbackReport(at.content) /\ IsBounce(at)
  /\ \E tokens \in {OriginalMessageTokens(AllLines(at.content))} :
     \E c \in {CorrelateBounce(db, pass[w].m, tokens, ClassifyDsn(at.content))} :
       /\ db' = c.db
       /\ Go(w, IF c.result # "NotMatched" THEN "complete" ELSE IF at.route = None THEN "unmatched" ELSE "route")
  /\ Quiet
Unmatched(w) ==
  /\ At(w, "unmatched")
  /\ db' = RecordUnmatchedBounce(db, pass[w].m, pass[w].q, ClassifyDsn(pass[w].at.content))
  /\ Leave(w) /\ Quiet

(* A route that cannot be read counts as none. *)
RouteMessage(w) ==
  LET at == pass[w].at
      route == IF at.route = None THEN [mode |-> None, url |-> None] ELSE scene.routes[at.route]
  IN
  /\ \/ At(w, "route")
     \/ At(w, "sort") /\ ~IsFeedbackReport(at.content) /\ ~IsBounce(at)
  /\ \/ Go(w, IF route.mode # "Endpoint" THEN "complete" ELSE IF route.url = "dmarc" THEN "dmarc" ELSE "post")
        /\ db' = db /\ Quiet
     \/ /\ at.route # None /\ Mishap /\ Go(w, "complete")
        /\ seen' = [seen EXCEPT !.unmarked = @ \union {pass[w].m}]
        /\ UNCHANGED <<db, req, scene>>

IngestDmarcReport(w) ==
  LET at == pass[w].at IN
  /\ At(w, "dmarc")
  /\ \/ /\ ExtractReport(at.content) = << >> /\ Settle(w, "Held")
        /\ db' = db /\ Quiet
     \/ /\ ExtractReport(at.content) # << >> /\ Settle(w, "Processed")
        /\ db' = StoreDmarcReport(db, at.srv) /\ Quiet
     \/ /\ ExtractReport(at.content) # << >> /\ Mishap /\ Go(w, "giveup")
        /\ UNCHANGED <<db, req, scene, seen>>

(* ssrf.rs: no address of the host may be a private one, unless the host   *)
(* is allowed by name.                                                     *)
IpBlocked(address) == address # "global"
CheckUrl(url) ==
  \/ ~scene.guard.enabled
  \/ url \in scene.guard.allowed
  \/ scene.hosts[url] # {} /\ \A address \in scene.hosts[url] : ~IpBlocked(address)

PostToEndpoint(w) ==
  LET url == scene.routes[pass[w].at.route].url IN
  /\ At(w, "post")
  /\ \/ /\ CheckUrl(url) /\ Go(w, "complete")
        /\ seen' = [seen EXCEPT !.posted = @ \union {pass[w].m}]
        /\ UNCHANGED <<db, req, scene, left>>
     \/ Go(w, "giveup") /\ db' = db /\ Quiet

----------------------------------------------------------------------------
(* process_outgoing; its results and retries are the subject of Delivery.  *)
Gate(w) ==
  LET at == pass[w].at
      held == AddressSuppressed(db, at.srv, at.to, at.stream)
  IN
  /\ At(w, "gate")
  /\ IF at.status = "Bounced" THEN Go(w, "complete") /\ seen' = seen
     ELSE /\ Go(w, IF held THEN "suppressed" ELSE "track")
          /\ seen' = [seen EXCEPT !.gates = @ \union {[held |-> held, optedOut |-> OptedOut(at)]}]
  /\ UNCHANGED <<db, req, scene, left>>
HoldSuppressed(w) ==
  /\ At(w, "suppressed")
  /\ db' = RecordOutboundDelivery(db, pass[w].m, pass[w].q, "Held", None, FALSE)
  /\ Leave(w) /\ Quiet

(* A link and a token for every web link, then the pixel.  A pass that is  *)
(* repeated makes new ones; the copies sent before keep theirs.            *)
AllLinks(content) == IF IsSigned(content) \/ HtmlOf(content) = << >> THEN << >> ELSE HtmlOf(content)[1]
WebLinks(content) == IF IsSigned(content) \/ HtmlOf(content) = << >> THEN << >>
                     ELSE SelectSeq(RewriteLinks(HtmlOf(content)[1]), LAMBDA l : l.slot > 0)
ApplyTracking(w) ==
  LET p == pass[w]
      content == p.at.content
      links == WebLinks(content)
      n == Len(p.slots)
  IN
  \/ /\ At(w, "track") /\ (IsSigned(content) \/ HtmlOf(content) = << >>)
     /\ Go(w, "send") /\ db' = db /\ Quiet
  \/ /\ At(w, "track") /\ n < Len(links)
     /\ db' = CreateLink(db, p.m, links[n + 1].url)
     /\ pass' = [pass EXCEPT ![w].slots = Append(@, db.next), ![w].pc = "token"] /\ Quiet
  \/ /\ At(w, "token")
     /\ db' = CreateClickToken(db, p.m, p.slots[n], links[n].url)
     /\ pass' = [pass EXCEPT ![w].slots[n] = db.next, ![w].pc = "track"] /\ Quiet
  \/ /\ At(w, "track") /\ ~IsSigned(content) /\ HtmlOf(content) # << >> /\ n = Len(links)
     /\ db' = CreateOpenToken(db, p.m)
     /\ LET html == [i \in DOMAIN HtmlOf(content)[1] |->
                       LET l == RewriteLinks(HtmlOf(content)[1])[i] IN
                       IF l.slot = 0 THEN l ELSE [l EXCEPT !.slot = p.slots[l.slot]]]
        IN pass' = [pass EXCEPT ![w].at.content = InjectOpenPixel(WithHtml(content, html), db.next), ![w].pc = "send"]
     /\ Quiet

(* The stream's pool comes first, then the server's; addresses are IPv4. *)
SourceIpFor(srv, stream) == IF stream \in scene.pooled \/ srv \in scene.pooledServers THEN "v4" ELSE "none"

(* The ways in which a send can end. *)
Dialogues == [c \in {s.config : s \in Scenes}, rs \in {s.records : s \in Scenes}, ip \in {"v4", "none"} |->
                Send(ResolveEndpoints(c, rs), ip)]
SendOut(w) ==
  LET at == pass[w].at
      head == AddMessageTokenHeader(at.content.head, Tokens[pass[w].m])
  IN
  /\ At(w, "send")
  /\ \E o \in Dialogues[scene.config, scene.records, SourceIpFor(at.srv, at.stream)] :
       /\ pass' = [pass EXCEPT ![w].pc = "record", ![w].sent = o]
       /\ seen' = [seen EXCEPT !.copies = IF o.copies = 0 THEN @ ELSE @ \union {[m |-> pass[w].m, content |-> [at.content EXCEPT !.head = head]]}]
  /\ UNCHANGED <<db, req, scene, left>>
Word(kind) == IF kind = "HardFail" THEN "5xx" ELSE "4xx"
Record(w) ==
  LET p == pass[w]
      soft == p.sent.kind = "SoftFail" /\ ~LastAttempt(p.attempts)
      status == IF p.sent.kind = "SoftFail" THEN (IF soft THEN "SoftFail" ELSE "HardFail") ELSE p.sent.kind
  IN
  /\ At(w, "record")
  /\ db' = RecordOutboundDelivery(db, p.m, p.q, status,
                                  IF status = "HardFail" THEN ClassifyResponse(<<Word(p.sent.kind)>>) ELSE None, soft)
  /\ Leave(w) /\ Quiet

Work(w) ==
  \/ Dequeue(w) \/ Load(w) \/ Complete(w) \/ GiveUp(w) \/ Inspect(w) \/ Hold(w) \/ SettleReport(w) \/ MarkReport(w)
  \/ IngestFeedbackReport(w) \/ Correlate(w) \/ Unmatched(w) \/ RouteMessage(w) \/ IngestDmarcReport(w)
  \/ PostToEndpoint(w) \/ Gate(w) \/ HoldSuppressed(w) \/ ApplyTracking(w) \/ SendOut(w) \/ Record(w)
=============================================================================
