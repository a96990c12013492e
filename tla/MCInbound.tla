----------------------------- MODULE MCInbound -------------------------------
(* Two workers and one request at a time over small stores: a bounce with  *)
(* forged tokens, dangerous mail, endpoints, reports, opt-outs, tracked    *)
(* links and relays.                                                       *)
EXTENDS Recipients, TLC

CONSTANTS w1, w2, p1, p2

In1(content, route) == [NewMessage(1, "incoming", content) EXCEPT !.route = route]
Out(srv, stream, content) == [NewMessage(srv, "outgoing", content) EXCEPT !.stream = stream]
Danger(content) == [content EXCEPT !.danger = TRUE]

(* Its header names another message's token, and so does its body. *)
Forged == [Plain EXCEPT !.head = <<Line("postal-msgid", <<"t2">>)>>,
                        !.leaves = <<Leaf("text/plain", <<Line("msgid", <<"t2">>)>>)>>]

Old(action) == [Plain EXCEPT !.leaves = <<Leaf("text/plain",
                  <<Line("recipient", <<"a">>), Line("action", <<action>>), Line("status", <<"5.x.x", "word">>),
                    Line("reporting-mta", <<"mta">>)>>)>>]

Abuse(type, original) ==
  [Plain EXCEPT !.type = "multipart/report", !.report = "feedback-report",
     !.leaves = <<Leaf("text/plain", << >>), Leaf("message/feedback-report", <<Line("feedback-type", <<type>>)>>),
                  Leaf("message/rfc822", original)>>]
Bare == [Abuse("abuse", << >>) EXCEPT !.leaves = <<Leaf("text/plain", << >>)>>]

Whole == [root |-> "feedback", closed |-> TRUE, entities |-> TRUE, has |-> Needed]
Dmarc(pack, sound, xml) ==
  [Plain EXCEPT !.type = "multipart/mixed",
     !.leaves = <<Leaf("text/plain", << >>), [Leaf("application", << >>) EXCEPT !.pack = pack, !.sound = sound, !.xml = xml]>>]

L(url, web) == [url |-> url, web |-> web, slot |-> 0]
Html == [Plain EXCEPT !.type = "multipart/alternative",
           !.leaves = <<Leaf("text/plain", << >>), [Leaf("text/html", << >>) EXCEPT !.links = <<L("x", TRUE), L("mail", FALSE), L("y", TRUE)>>]>>]

Routes == [hook |-> [mode |-> "Endpoint", url |-> "hook"], inside |-> [mode |-> "Endpoint", url |-> "inside"],
           reports |-> [mode |-> "Endpoint", url |-> "dmarc"], keep |-> [mode |-> "Hold", url |-> None]]
Config == [relays |-> << >>, verify |-> "peer", starttls |-> TRUE]
Relay(smtps, port) == [host |-> "relay", smtps |-> smtps, port |-> port, auth |-> TRUE]

News == [srv |-> 1, id |-> "news", broadcast |-> TRUE]
Lists == {News, [srv |-> 1, id |-> "shop", broadcast |-> FALSE]}
Sub(to) == [srv |-> 1, stream |-> "news", to |-> to, status |-> "subscribed"]
Opt(token, srv) == [token |-> token, srv |-> srv, stream |-> "news", to |-> "a"]

Base == [workers |-> {w1}, procs |-> {p1}, msgs |-> << >>, queued |-> {}, scanner |-> FALSE, routes |-> Routes, guard |-> [enabled |-> TRUE, allowed |-> {}],
         hosts |-> [hook |-> {"global"}, inside |-> {"global", "loopback"}], config |-> Config, records |-> << >>,
         streams |-> Lists, addresses |-> {"a"}, subscriptions |-> {}, optTokens |-> {}, ops |-> {}, requests |-> 0, returns |-> 0,
         pooled |-> {}, pooledServers |-> {}, prunable |-> {}]
Pair == [Base EXCEPT !.workers = {w1, w2}]

SomeScenes ==
  {\* a message with forged tokens bounces
   [Pair EXCEPT !.msgs = <<Out(1, None, Forged), [Out(1, None, Plain) EXCEPT !.status = "Sent"]>>, !.queued = {1},
                !.returns = 1, !.ops = {"inbound_retry"}, !.requests = 1],
   [Base EXCEPT !.msgs = <<Out(1, None, Plain)>>, !.queued = {1}, !.returns = 2, !.ops = {"message_retry"}, !.requests = 1],
   \* dangerous mail
   [Pair EXCEPT !.msgs = <<In1(Danger(Plain), "hook")>>, !.queued = {1}, !.scanner = TRUE,
                !.ops = {"inbound_retry", "inbound_bypass"}, !.requests = 1],
   [Pair EXCEPT !.msgs = <<In1(Danger(Dmarc("zip", TRUE, Whole)), "reports")>>, !.queued = {1}, !.scanner = TRUE,
                !.ops = {"inbound_retry"}, !.requests = 2],
   \* routes
   [Pair EXCEPT !.msgs = <<In1(Plain, "inside"), In1(Plain, "keep")>>, !.queued = {1, 2}, !.prunable = {1}],
   [Pair EXCEPT !.msgs = <<In1(Plain, "hook")>>, !.queued = {1}, !.scanner = TRUE, !.ops = {"inbound_retry"}, !.requests = 1],
   [Pair EXCEPT !.msgs = <<[In1(Old("failed"), None) EXCEPT !.bounce = TRUE], [In1(Old("failed"), "hook") EXCEPT !.bounce = TRUE]>>,
                !.queued = {1, 2}, !.guard = [enabled |-> TRUE, allowed |-> {"hook"}]],
   \* reports
   [Pair EXCEPT !.msgs = <<In1(Dmarc("gzip", TRUE, Whole), "reports"), In1(Dmarc("zip", FALSE, Whole), "reports")>>,
                !.queued = {1, 2}],
   [Pair EXCEPT !.msgs = <<Out(2, "news", Plain), In1(Abuse("abuse", <<Line("list-unsubscribe", <<"u1">>)>>), None)>>,
                !.queued = {1, 2}, !.optTokens = {Opt("u1", 2)}],
   [Pair EXCEPT !.msgs = <<In1(Abuse("fraud", << >>), None), In1(Bare, None)>>, !.queued = {1, 2}],
   \* opt-outs
   [Base EXCEPT !.msgs = <<Out(1, "news", Plain), Out(1, "shop", Plain)>>, !.queued = {1, 2}, !.optTokens = {Opt("u1", 1)},
                !.ops = {"unsubscribe"}, !.requests = 1],
   [Base EXCEPT !.msgs = <<Out(1, "news", Plain)>>, !.queued = {1}, !.optTokens = {Opt("u1", 1)}, !.procs = {p1, p2},
                !.ops = {"unsubscribe", "suppressions_destroy"}, !.requests = 2],
   [Base EXCEPT !.msgs = <<Out(1, "news", Plain)>>, !.queued = {1}, !.ops = {"subscribers_create", "complaint"}, !.requests = 2],
   [Base EXCEPT !.subscriptions = {Sub("a"), Sub("b")}, !.ops = {"campaign_send"}, !.requests = 1],
   [Base EXCEPT !.streams = {News}, !.subscriptions = {Sub("a")}, !.ops = {"subscribers_delete", "campaign_send"}, !.requests = 2,
                !.procs = {p1, p2}],
   [Base EXCEPT !.streams = {News}, !.ops = {"complaint", "send", "subscribers_import"}, !.requests = 3],
   \* links
   [Base EXCEPT !.msgs = <<Out(1, None, Html)>>, !.queued = {1}, !.ops = {"click", "open"}, !.requests = 1, !.prunable = {1}],
   [Base EXCEPT !.msgs = <<Out(1, None, [Html EXCEPT !.signed = TRUE])>>, !.queued = {1}, !.ops = {"share", "show"},
                !.requests = 2, !.prunable = {1}],
   \* relays
   [Base EXCEPT !.msgs = <<Out(1, None, Plain)>>, !.queued = {1}, !.config.relays = <<Relay(FALSE, 587), Relay(TRUE, 465)>>],
   [Base EXCEPT !.msgs = <<Out(1, None, Plain)>>, !.queued = {1}, !.config = [relays |-> <<Relay(FALSE, 25), Relay(TRUE, 465)>>, verify |-> "none", starttls |-> TRUE]],
   [Base EXCEPT !.msgs = <<Out(1, "news", Plain)>>, !.queued = {1}, !.pooled = {"news"}, !.config.starttls = FALSE,
                !.records = <<[host |-> "mx2", preference |-> 20], [host |-> "mx1", preference |-> 10]>>]}

(* One message for an endpoint, and nothing goes wrong but the endpoint. *)
OneEndpoint == {[Base EXCEPT !.msgs = <<In1(Plain, "hook")>>, !.queued = {1}]}
=============================================================================
