---------------------------- MODULE MailContent ------------------------------
(***************************************************************************)
(* What the worker reads in a message and writes into it: delivery status  *)
(* notifications and message tokens (bounce.rs), feedback reports (arf.rs),*)
(* DMARC reports (dmarc.rs), tracked links (worker tracking.rs).           *)
(*                                                                         *)
(* A message has a media type, a report type, the lines of its header that *)
(* matter, and leaves, the MIME parts in order.  A leaf has lines (of an   *)
(* enclosed message: the header) and more lines (its body), a payload and  *)
(* links.  The value of a line is a sequence of words.                     *)
(***************************************************************************)
EXTENDS Integers, SequencesExt

None == "none"
Missing == << >>
MaxMimeDepth == 2

Line(name, value) == [name |-> name, value |-> value]

(* An aggregate report as XML: its root, what breaks it, what it names.    *)
NoXml  == [root |-> None, closed |-> TRUE, entities |-> TRUE, has |-> {}]
Needed == {"report_id", "domain", "begin", "end"}

Leaf(type, lines) ==
  [type |-> type, depth |-> 1, lines |-> lines, more |-> << >>, pack |-> None, sound |-> TRUE,
   xml |-> NoXml, attached |-> FALSE, charset |-> "utf-8", links |-> << >>]

Plain == [type |-> "text/plain", report |-> None, head |-> << >>, leaves |-> <<Leaf("text/plain", << >>)>>,
          signed |-> FALSE, danger |-> FALSE, pixel |-> 0]

AllLines(c) == c.head \o FlattenSeq([i \in DOMAIN c.leaves |-> c.leaves[i].lines \o c.leaves[i].more])
Named(lines, names) == SelectSeq(lines, LAMBDA l : l.name \in names)
HeaderValue(lines, name) ==
  LET found == Named(lines, {name}) IN IF found = << >> THEN Missing ELSE found[1].value
FirstLeaf(leaves, types) == SelectSeq(leaves, LAMBDA leaf : leaf.type \in types)

----------------------------------------------------------------------------
(* bounce.rs *)
ReplyCodeClass(word) == CASE word = "5xx" -> "hard" [] word = "4xx" -> "soft" [] OTHER -> None
EnhancedCodeClass(word) == CASE word = "5.x.x" -> "hard" [] word = "4.x.x" -> "soft" [] OTHER -> None

(* The first word that is a code of either form decides. *)
ClassifyResponse(words) ==
  LET Class(word) == IF ReplyCodeClass(word) # None THEN ReplyCodeClass(word) ELSE EnhancedCodeClass(word)
      codes == SelectSeq(words, LAMBDA word : Class(word) # None)
  IN IF codes = << >> THEN "undetermined" ELSE Class(codes[1])

ClassifyDsn(c) ==
  LET telling == SelectSeq(Named(AllLines(c), {"status", "diagnostic-code"}),
                           LAMBDA l : ClassifyResponse(l.value) # "undetermined")
  IN IF telling = << >> THEN "undetermined" ELSE ClassifyResponse(telling[1].value)

(* The machine-readable shape; an old report without MIME needs all four   *)
(* fields, anywhere.                                                       *)
IsDeliveryStatusNotification(c) ==
  LET lines == ToSet(AllLines(c)) IN
  \/ c.type = "message/delivery-status"
  \/ /\ c.type = "multipart/report"
     /\ \/ c.report = "delivery-status"
        \/ \E i \in DOMAIN c.leaves : c.leaves[i].type = "message/delivery-status"
  \/ /\ \E l \in lines : l.name = "recipient" /\ l.value # Missing
     /\ \E l \in lines : l.name = "action" /\ l.value \in {<<"failed">>, <<"delayed">>}
     /\ \E l \in lines : l.name = "status" /\ l.value # Missing /\ EnhancedCodeClass(l.value[1]) # None
     /\ \E l \in lines : l.name = "reporting-mta" /\ l.value # Missing

HasOnlyFailedActions(lines) == {l.value : l \in ToSet(Named(lines, {"action"}))} = {<<"failed">>}

(* In a report only the status part is read; every action in it must be a  *)
(* failure.                                                                *)
IsFailedDeliveryStatusNotification(c) ==
  /\ IsDeliveryStatusNotification(c)
  /\ HasOnlyFailedActions(
       IF c.type = "multipart/report"
       THEN AllLines([c EXCEPT !.head = << >>, !.leaves = FirstLeaf(@, {"message/delivery-status"})])
       ELSE AllLines(c))

IsMessageTokenHeader(l) == l.name \in {"msgid", "postal-msgid"}

(* The header a sent message carries: its own token first, and no other in *)
(* the header block.                                                       *)
AddMessageTokenHeader(head, token) ==
  <<Line("msgid", <<token>>)>> \o SelectSeq(head, LAMBDA l : ~IsMessageTokenHeader(l))

(* Every token in the lines, once each, in the order met. *)
OriginalMessageTokens(lines) ==
  FoldLeft(LAMBDA tokens, l : IF IsMessageTokenHeader(l) /\ l.value # Missing /\ l.value[1] \notin ToSet(tokens)
                              THEN Append(tokens, l.value[1]) ELSE tokens, << >>, lines)

----------------------------------------------------------------------------
(* arf.rs *)
CollectParts(c) == SelectSeq(c.leaves, LAMBDA leaf : leaf.depth <= MaxMimeDepth)

IsFeedbackReport(c) == c.type = "multipart/report" /\ c.report = "feedback-report"

TokenFromListUnsubscribe(value) == IF value = Missing THEN None ELSE value[1]

(* The header block of the enclosed message: what looks like a header in   *)
(* its body is not one.                                                    *)
OriginalHeaders(leaf) == leaf.lines

FeedbackRecipient(rcpt, to) == IF rcpt # Missing THEN rcpt[1] ELSE IF to # Missing THEN to[1] ELSE None

(* Empty when there is no feedback part. *)
ExtractFeedback(c) ==
  LET parts == CollectParts(c)
      feedback == FirstLeaf(parts, {"message/feedback-report"})
      enclosed == FirstLeaf(parts, {"message/rfc822", "message/rfc822-headers"})
      original == IF enclosed = << >> THEN << >> ELSE OriginalHeaders(enclosed[1])
      mid == HeaderValue(original, "message-id")
  IN IF feedback = << >> THEN << >>
     ELSE <<[type   |-> HeaderValue(feedback[1].lines, "feedback-type"),
             token  |-> TokenFromListUnsubscribe(HeaderValue(original, "list-unsubscribe")),
             tokens |-> OriginalMessageTokens(original),
             mid    |-> IF mid = Missing THEN None ELSE mid[1],
             rcpt   |-> FeedbackRecipient(HeaderValue(feedback[1].lines, "original-rcpt-to"),
                                          HeaderValue(original, "to"))]>>

----------------------------------------------------------------------------
(* dmarc.rs *)
ParseReportXml(xml) ==
  xml.root = "feedback" /\ xml.closed /\ xml.entities /\ Needed \subseteq xml.has

(* A packed payload is unpacked if it is sound; anything else is taken for *)
(* XML.                                                                    *)
PayloadToXml(leaf) == IF leaf.pack = None \/ leaf.sound THEN <<leaf.xml>> ELSE << >>

CollectLeafPayloads(c) == SelectSeq(c.leaves, LAMBDA leaf : leaf.depth <= MaxMimeDepth)

(* The first payload that unpacks, looks like XML and is a whole report.   *)
ExtractReport(c) ==
  LET reports == SelectSeq(FlattenSeq([i \in DOMAIN CollectLeafPayloads(c) |-> PayloadToXml(CollectLeafPayloads(c)[i])]),
                           LAMBDA xml : xml.root # None /\ ParseReportXml(xml))
  IN IF reports = << >> THEN << >> ELSE <<reports[1]>>

----------------------------------------------------------------------------
(* worker tracking.rs.  A link has a URL, is one of the web or not, and,   *)
(* rewritten, the number of its placeholder.                               *)
IsSigned(c) == c.signed

FindHtml(c) ==
  LET Rewritable(i) == /\ c.leaves[i].type = "text/html" /\ ~c.leaves[i].attached
                       /\ c.leaves[i].charset \in {"utf-8", "us-ascii"} /\ c.leaves[i].depth <= MaxMimeDepth
  IN SelectSeq([i \in DOMAIN c.leaves |-> i], Rewritable)

HtmlOf(c) == IF FindHtml(c) = << >> THEN << >> ELSE <<c.leaves[FindHtml(c)[1]].links>>

(* The n-th web link becomes the n-th placeholder. *)
RewriteLinks(links) ==
  [i \in DOMAIN links |->
     IF links[i].web THEN [links[i] EXCEPT !.slot = Len(SelectSeq(SubSeq(links, 1, i), LAMBDA l : l.web))]
     ELSE links[i]]

InjectOpenPixel(c, token) == [c EXCEPT !.pixel = token]

WithHtml(c, links) ==
  IF FindHtml(c) = << >> THEN c ELSE [c EXCEPT !.leaves[FindHtml(c)[1]].links = links]
=============================================================================
