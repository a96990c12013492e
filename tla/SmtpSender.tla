---------------------------- MODULE SmtpSender -------------------------------
(***************************************************************************)
(* The SMTP sender and client (sender.rs, smtp_client.rs).  The remote     *)
(* server may answer every command with any code or not at all, so each    *)
(* part of the dialogue is the set of ways in which it can end: an outcome *)
(* has a kind, tells how many servers took the message, and over which     *)
(* links content or credentials for a TLS endpoint went out.               *)
(***************************************************************************)
EXTENDS Integers, SequencesExt

Replies  == {0, 220, 235, 250, 354, 421, 550}
Positive == 200..299

Outcome(kind) == [kind |-> kind, copies |-> 0, wire |-> {}]
SoftFail == Outcome("SoftFail")
PlaintextRetry == Outcome("OpportunisticStartTlsHandshakeFailed")

(* A link is in clear, or encrypted to a peer that has proved its name or not. *)
Encrypted(link) == link # "clear"

(* Any positive or intermediate code passes for sent. *)
Classify(code) ==
  Outcome(CASE code \in 200..399 -> "Sent" [] code \in 400..499 -> "SoftFail" [] OTHER -> "HardFail")

(* Waiting for a reply: one of the good ones goes on, another ends the     *)
(* dialogue as it is classified, an error of the connection is soft.       *)
ReadReply(good, rest) ==
  {Classify(code) : code \in Replies \ good} \union {SoftFail} \union rest

On(ep, link, outcomes) ==
  IF ep.security = "Opportunistic" THEN outcomes
  ELSE {[o EXCEPT !.wire = @ \union {[mode |-> ep.mode, link |-> link]}] : o \in outcomes}

(* The body and the final dot.  The server may have taken the message when *)
(* its reply is lost.                                                      *)
SendData(ep, link) ==
  On(ep, link, {[Classify(code) EXCEPT !.copies = IF code \in Positive THEN 1 ELSE 0] : code \in Replies}
               \union {[SoftFail EXCEPT !.copies = n] : n \in {0, 1}})

Envelope(ep, link) == ReadReply(Positive, ReadReply(Positive, ReadReply({354}, SendData(ep, link))))

Authenticate(ep, link) ==
  IF ep.auth THEN On(ep, link, ReadReply({235}, Envelope(ep, link))) ELSE Envelope(ep, link)

(* A submission relay gets nothing without TLS. *)
NeverRefused(ep, link) == FALSE
RefusedInClear(ep, link) == ep.security = "RequireStartTls" /\ ~Encrypted(link)
Submit(ep, link) == IF RefusedInClear(ep, link) THEN {SoftFail} ELSE Authenticate(ep, link)

EffectiveTlsMode(ep) ==
  IF ep.mode = "Disabled" /\ ep.security \in {"RequireStartTls", "ImplicitTls"} THEN "Verify" ELSE ep.mode

(* The links a handshake can end with; it can always fail. *)
Handshake(ep) == {"proved"} \union (IF EffectiveTlsMode(ep) = "AcceptAny" THEN {"unproved"} ELSE {})

(* STARTTLS is taken, and the handshake works or not, or it is refused. *)
StartTls(ep) ==
  UNION {ReadReply(Positive, Submit(ep, link)) : link \in Handshake(ep)}
    \union (IF ep.security = "Opportunistic" THEN {PlaintextRetry} ELSE {SoftFail})
    \union (IF ep.security = "RequireStartTls" THEN {SoftFail} ELSE Submit(ep, "clear"))
    \union {SoftFail}

(* EHLO, then STARTTLS if it is offered and wanted; HELO when EHLO fails.  *)
Greet(ep, link, allowStartTls) ==
  LET wanted == ~Encrypted(link) /\ allowStartTls /\ (ep.mode # "Disabled" \/ ep.security = "RequireStartTls")
  IN {SoftFail} \union Submit(ep, link) \union ReadReply(Positive, Submit(ep, link))
       \union (IF wanted THEN StartTls(ep) ELSE {})

(* A bound source address leaves the addresses of its family; without one  *)
(* IPv4 goes first.                                                        *)
RemoteAddresses(addresses, source) ==
  IF source # "none" THEN SelectSeq(addresses, LAMBDA a : a = source)
  ELSE SelectSeq(addresses, LAMBDA a : a = "v4") \o SelectSeq(addresses, LAMBDA a : a # "v4")

(* One of the addresses answers, or none. *)
Connect(ep, source, rest) == IF RemoteAddresses(ep.addresses, source) = << >> THEN {SoftFail} ELSE {SoftFail} \union rest

TrySend(ep, source, allowStartTls) ==
  LET Dialogue(link) == ReadReply({220}, Greet(ep, link, allowStartTls))
  IN Connect(ep, source, IF ep.security = "ImplicitTls" THEN UNION {Dialogue(link) : link \in Handshake(ep)}
                         ELSE Dialogue("clear"))

(* After a failed handshake an opportunistic delivery starts over in clear.*)
SendMessage(ep, source) ==
  LET first == TrySend(ep, source, TRUE)
  IN (first \ {PlaintextRetry}) \union (IF PlaintextRetry \in first THEN TrySend(ep, source, FALSE) ELSE {})

----------------------------------------------------------------------------
Mx(host) == [host |-> host, security |-> "Opportunistic", mode |-> "AcceptAny", auth |-> FALSE, addresses |-> <<"v6", "v4">>]

TlsModeFrom(verify, starttls) == IF ~starttls THEN "Disabled" ELSE IF verify = "none" THEN "AcceptAny" ELSE "Verify"

(* A relay's URL says smtps or smtp, a port, and perhaps credentials. *)
ParseRelay(relay, mode) ==
  [Mx(relay.host) EXCEPT !.mode = mode, !.auth = relay.auth,
     !.security = IF relay.smtps THEN "ImplicitTls" ELSE IF relay.port = 587 THEN "RequireStartTls" ELSE "Opportunistic"]

Relays(config) ==
  [i \in DOMAIN config.relays |-> ParseRelay(config.relays[i], TlsModeFrom(config.verify, config.starttls))]

(* The relays if there are any, else the mail exchangers by preference,    *)
(* else the domain itself.                                                 *)
ResolveEndpoints(config, records) ==
  IF config.relays # << >> THEN Relays(config)
  ELSE IF records = << >> THEN <<Mx("domain")>>
  ELSE LET sorted == SortSeq(records, LAMBDA x, y : x.preference < y.preference)
       IN [i \in DOMAIN sorted |-> Mx(sorted[i].host)]

(* Soft failures go on to the next endpoint; the last one stands. *)
Send(endpoints, source) ==
  FoldRight(LAMBDA ep, rest :
              LET now == SendMessage(ep, source) IN
              {o \in now : o.kind # "SoftFail"}
                \union {[r EXCEPT !.copies = @ + o.copies, !.wire = @ \union o.wire] :
                          r \in rest, o \in {x \in now : x.kind = "SoftFail"}},
            endpoints, {SoftFail})
=============================================================================
