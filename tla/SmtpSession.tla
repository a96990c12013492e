---------------------------- MODULE SmtpSession -----------------------------
(***************************************************************************)
(* One connection to the SMTP server: the line loop of the transport, its  *)
(* upgrade to TLS, and the session state machine that AUTH, the envelope   *)
(* commands and DATA drive, while administrators suspend servers.          *)
(*                                                                         *)
(* A client sends any command at any time.  What a command that is refused *)
(* by the session's state leaves unchanged is not an action.  The body of  *)
(* a message is what the session reads of it: see Contents.                *)
(***************************************************************************)
EXTENDS Integers, Sequences, FiniteSets

CONSTANTS
    Servers,      \* mail servers
    Org,          \* their organization
    Credentials,  \* SMTP credentials
    ServerOf,     \* [Credentials -> Servers]
    Senders,      \* envelope senders with a domain
    NullSender,   \* MAIL FROM:<>
    Addresses,    \* RCPT TO: [name, kind, server, reject]
    Contents,     \* message bodies: [from, key, bad]
    IpCredential, \* the credential of the client's address, or None
    None,
    TlsEnabled, AuthRequiresTls, Smtps, ProxyProtocol,  \* configuration
    MaxRecipients, MaxTransactions, MaxSuspensions      \* bounds

(* kind: "bounce" for the return-path domain, "token" for the route        *)
(* domain, "plain" otherwise.  server: what the lookup of the token or of  *)
(* a route by name finds.  A body's from are the servers that authorize    *)
(* its From header; bad: oversized or looping.                             *)
ASSUME SessionAssumption ==
    /\ \A a \in Addresses : /\ a.kind \in {"bounce", "token", "plain"}
                            /\ a.server \in Servers \union {None}
                            /\ a.reject \in BOOLEAN
    /\ \A c \in Contents : /\ c.from \subseteq Servers
                           /\ c.key \in {"none", "valid", "invalid"}
                           /\ c.bad \in BOOLEAN
    /\ ServerOf \in [Credentials -> Servers]
    /\ IpCredential \in Credentials \union {None}
    /\ None \notin Senders \union {NullSender}
    /\ {TlsEnabled, AuthRequiresTls, Smtps, ProxyProtocol} \subseteq BOOLEAN
    /\ Smtps => TlsEnabled
    /\ MaxRecipients \in Nat /\ MaxTransactions \in Nat /\ MaxSuspensions \in Nat

VARIABLES
    wire,       \* the connection: "plain", "tls", "handshake" or "closed"
    session,    \* struct Session
    suspended,  \* the servers, and maybe Org, that are suspended
    client,     \* history: the envelope as the answers tell the client
    answer,     \* history: the step's answer at the end of DATA, with what was stored
    count       \* messages received so far

vars == <<wire, session, suspended, client, answer, count>>

NoEnvelope == [from |-> None, rcpts |-> {}, usable |-> {}]

Modes  == {"command", "authPlain", "authUser", "authPassword", "authCram", "data"}

NoAnswer == [code |-> "none", stored |-> <<>>, envelope |-> NoEnvelope, wire |-> "none"]

(* The step does not end a message. *)
Silent == answer' = NoAnswer /\ UNCHANGED count

(* transaction_reset *)
Reset(s) == [s EXCEPT !.recipients = <<>>, !.mailFrom = None, !.data = None]

(* Session::new *)
Init ==
    /\ wire = IF Smtps THEN "tls" ELSE "plain"
    /\ session = [state |-> IF ProxyProtocol THEN "preauth" ELSE "welcome",
                  mode |-> "command", tls |-> Smtps, credential |-> None,
                  clear |-> FALSE, recipients |-> <<>>, mailFrom |-> None,
                  data |-> None, spf |-> None, spfDone |-> FALSE, prevCr |-> TRUE]
    /\ suspended = {}
    /\ client = NoEnvelope
    /\ answer = NoAnswer
    /\ count = 0

Open == wire \in {"plain", "tls"}

Command == Open /\ session.state # "preauth" /\ session.mode = "command"

(***************************************************************************)
(* Connection and greeting                                                 *)
(***************************************************************************)
(* The line of the PROXY protocol: without it the connection is closed.    *)
Proxy(valid) ==
    /\ Open /\ session.state = "preauth"
    /\ IF valid THEN session' = [session EXCEPT !.state = "welcome"] /\ UNCHANGED wire
                ELSE wire' = "closed" /\ UNCHANGED session
    /\ Silent
    /\ UNCHANGED <<suspended, client>>

(* QUIT, or the client disconnects. *)
Quit ==
    /\ Open
    /\ wire' = "closed"
    /\ Silent
    /\ UNCHANGED <<session, suspended, client>>

(* EHLO and HELO *)
Hello ==
    /\ Command
    /\ session' = [Reset(session) EXCEPT !.state = "welcomed"]
    /\ client' = NoEnvelope
    /\ Silent
    /\ UNCHANGED <<wire, suspended>>

Rset ==
    /\ Command
    /\ session' = [Reset(session) EXCEPT !.state = "welcomed"]
    /\ client' = NoEnvelope
    /\ Silent
    /\ UNCHANGED <<wire, suspended>>

(* STARTTLS: the session is marked at once, then the line loop returns.    *)
(* In the encrypted phase its return ends the connection.                  *)
StartTls ==
    /\ Command
    /\ TlsEnabled
    /\ session' = [session EXCEPT !.tls = TRUE]
    /\ wire' = IF wire = "plain" THEN "handshake" ELSE "closed"
    /\ Silent
    /\ UNCHANGED <<suspended, client>>

(* Mutant: the upgrade drops the recipients, and not the rest. *)
HandshakeForgets(succeeds) ==
    /\ wire = "handshake"
    /\ wire' = IF succeeds THEN "tls" ELSE "closed"
    /\ session' = [session EXCEPT !.spfDone = FALSE, !.recipients = <<>>]
    /\ Silent
    /\ UNCHANGED <<suspended, client>>

Handshake(succeeds) ==
    /\ wire = "handshake"
    /\ wire' = IF succeeds THEN "tls" ELSE "closed"
    /\ session' = [session EXCEPT !.spfDone = FALSE]
    /\ Silent
    /\ UNCHANGED <<suspended, client>>

(***************************************************************************)
(* AUTH                                                                    *)
(***************************************************************************)
AuthPermitted == session.tls \/ ~TlsEnabled \/ ~AuthRequiresTls

(* authenticate, auth_cram_md5_continue: the credential found, or None. *)
Authenticate(s, credential) ==
    IF credential = None THEN [s EXCEPT !.mode = "command"]
    ELSE [s EXCEPT !.mode = "command", !.credential = credential,
                   !.clear = @ \/ wire # "tls"]

(* AUTH PLAIN without a response, AUTH LOGIN with and without a user name, *)
(* AUTH CRAM-MD5.                                                          *)
Auth(mode) ==
    /\ Command
    /\ AuthPermitted
    /\ mode \in {"authPlain", "authUser", "authPassword", "authCram"}
    /\ session' = [session EXCEPT !.mode = mode]
    /\ Silent
    /\ UNCHANGED <<wire, suspended, client>>

(* AUTH PLAIN with its response *)
AuthInline(credential) ==
    /\ Command
    /\ AuthPermitted
    /\ session' = Authenticate(session, credential)
    /\ Silent
    /\ UNCHANGED <<wire, suspended, client>>

(* The user name of AUTH LOGIN is not looked at. *)
AuthUser ==
    /\ Open /\ session.mode = "authUser"
    /\ session' = [session EXCEPT !.mode = "authPassword"]
    /\ Silent
    /\ UNCHANGED <<wire, suspended, client>>

AuthContinue(credential) ==
    /\ Open /\ session.mode \in {"authPlain", "authPassword", "authCram"}
    /\ session' = Authenticate(session, credential)
    /\ Silent
    /\ UNCHANGED <<wire, suspended, client>>

(***************************************************************************)
(* The envelope                                                            *)
(***************************************************************************)
Usable == {s \in Servers : s \notin suspended}

(* Mutant: SPF is evaluated at the first MAIL FROM. *)
MailFromEvaluates(sender) ==
    /\ Command
    /\ session.state \in {"welcomed", "mailFrom"}
    /\ session' = [Reset(session) EXCEPT
          !.state = "mailFrom", !.mailFrom = sender, !.spfDone = TRUE,
          !.spf = IF session.spfDone \/ sender = NullSender THEN @ ELSE sender]
    /\ client' = [from |-> sender, rcpts |-> {}, usable |-> Usable]
    /\ Silent
    /\ UNCHANGED <<wire, suspended>>

MailFrom(sender) ==
    /\ Command
    /\ session.state \in {"welcomed", "mailFrom"}
    /\ session' = [Reset(session) EXCEPT !.state = "mailFrom", !.mailFrom = sender]
    /\ client' = [from |-> sender, rcpts |-> {}, usable |-> Usable]
    /\ Silent
    /\ UNCHANGED <<wire, suspended>>

(* The credential an ordinary address is sent with: the session's, or, if  *)
(* no route has that address, the one of the client's IP address.          *)
Sending(a) ==
    IF a.kind # "plain" THEN None
    ELSE IF session.credential # None THEN session.credential
    ELSE IF a.server = None THEN IpCredential ELSE None

(* Whose mailbox or credential the recipient is. *)
Target(a) == IF Sending(a) # None THEN ServerOf[Sending(a)] ELSE a.server

(* Mutant: bounces are accepted for a suspended server. *)
AcceptsBounces(a) ==
    /\ Target(a) # None
    /\ a.kind # "bounce" => Target(a) \notin suspended
    /\ IF Sending(a) # None THEN Org \notin suspended ELSE ~a.reject

(* 250, as opposed to 535 and 550. *)
Accepts(a) ==
    /\ Target(a) # None
    /\ Target(a) \notin suspended
    /\ IF Sending(a) # None THEN Org \notin suspended ELSE ~a.reject

Recipient(a) ==
    [name |-> a.name, server |-> Target(a),
     kind |-> IF a.kind = "bounce" THEN "bounce"
              ELSE IF Sending(a) # None THEN "credential" ELSE "route"]

(* The state advances whether or not the recipient is accepted; only 530,  *)
(* for an address nobody answers for, leaves it.                           *)
RcptTo(a) ==
    /\ Command
    /\ session.state \in {"mailFrom", "rcptTo"}
    /\ Len(session.recipients) < MaxRecipients
    /\ a.kind = "plain" => Target(a) # None
    /\ session' = [session EXCEPT
          !.state = "rcptTo",
          !.credential = IF Sending(a) # None THEN Sending(a) ELSE @,
          !.recipients = IF Accepts(a) THEN Append(@, Recipient(a)) ELSE @]
    /\ client' = IF Accepts(a) THEN [client EXCEPT !.rcpts = @ \union {a.name}] ELSE client
    /\ Silent
    /\ UNCHANGED <<wire, suspended>>

(***************************************************************************)
(* DATA                                                                    *)
(***************************************************************************)
(* The line loop evaluates SPF before the first DATA it lets through; the  *)
(* session writes the verdict it holds into the message.                   *)
DataCommand(cr) ==
    LET spf == IF session.spfDone \/ session.mailFrom = NullSender
               THEN session.spf ELSE session.mailFrom
    IN  /\ Command
        /\ session.state = "rcptTo"
        /\ count < MaxTransactions
        /\ session' = [session EXCEPT !.mode = "data", !.prevCr = cr, !.spf = spf,
                                      !.spfDone = TRUE, !.data = [spf |-> spf]]
        /\ Silent
        /\ UNCHANGED <<wire, suspended, client>>

(* A line of the message; a lone dot is one unless it ends a CRLF line and *)
(* the line before it did.                                                 *)
DataLine(dot, cr) ==
    /\ Open /\ session.mode = "data"
    /\ ~(dot /\ cr /\ session.prevCr)
    /\ session' = [session EXCEPT !.prevCr = cr]
    /\ Silent
    /\ UNCHANGED <<wire, suspended, client>>

Outgoing == \E i \in 1..Len(session.recipients) :
               session.recipients[i].kind = "credential"

(* finish_data: what is wrong with the message, "none" if nothing is.      *)
(* Whether the limits allow it, and whether a key was used before, is      *)
(* Submission's subject.                                                   *)
Rejection(content, allowed) ==
    IF content.bad THEN "552"
    ELSE IF session.credential # None /\ ServerOf[session.credential] \notin content.from
    THEN "530"
    ELSE IF content.key = "invalid" THEN "554"
    ELSE IF content.key = "valid" /\ \E i \in 1..Len(session.recipients) :
                                        session.recipients[i].kind # "credential"
    THEN "554"
    ELSE IF ~allowed /\ session.credential # None /\ Outgoing THEN "550"
    ELSE "none"

(* A keyed message is one transaction in the tenant of its first recipient: *)
(* a row of another server is refused by row-level security.               *)
Storable(content) ==
    content.key = "valid" =>
        \A i \in 1..Len(session.recipients) :
            session.recipients[i].server = session.recipients[1].server

Message(r, content) ==
    [name |-> r.name, kind |-> r.kind, server |-> r.server, from |-> session.mailFrom,
     credential |-> IF r.kind = "credential" THEN session.credential ELSE None,
     ssl |-> session.tls, spf |-> session.data.spf, authorized |-> content.from]

(* The lone dot.  A store that fails on a message without a key is part of *)
(* Submission too.                                                         *)
EndData(content, allowed) ==
    LET code   == IF Rejection(content, allowed) # "none" THEN Rejection(content, allowed)
                  ELSE IF Storable(content) THEN "250" ELSE "451"
        stored == IF code # "250" THEN <<>>
                  ELSE [i \in 1..Len(session.recipients) |->
                          Message(session.recipients[i], content)]
    IN  /\ Open /\ session.mode = "data" /\ session.prevCr
        /\ answer' = [code |-> code, stored |-> stored, envelope |-> client, wire |-> wire]
        /\ count' = count + 1
        /\ session' = [Reset(session) EXCEPT !.mode = "command", !.state = "welcomed"]
        /\ client' = NoEnvelope
        /\ UNCHANGED <<wire, suspended>>

-----------------------------------------------------------------------------
(* The administrator suspends a server or the organization, or lifts it.   *)
Suspend(x) ==
    /\ Cardinality(suspended) < MaxSuspensions \/ x \in suspended
    /\ suspended' = IF x \in suspended THEN suspended \ {x} ELSE suspended \union {x}
    /\ client' = [client EXCEPT !.usable =
                     IF client.from = None \/ x \notin suspended \/ x \notin Servers
                     THEN @ ELSE @ \union {x}]
    /\ Silent
    /\ UNCHANGED <<wire, session>>

Next ==
    \/ \E b \in BOOLEAN : Proxy(b) \/ Handshake(b) \/ DataCommand(b)
    \/ Quit \/ Hello \/ Rset \/ StartTls \/ AuthUser
    \/ \E mode \in Modes : Auth(mode)
    \/ \E c \in Credentials \union {None} : AuthInline(c) \/ AuthContinue(c)
    \/ \E sender \in Senders \union {NullSender} : MailFrom(sender)
    \/ \E a \in Addresses : RcptTo(a)
    \/ \E dot, cr \in BOOLEAN : DataLine(dot, cr)
    \/ \E content \in Contents, allowed \in BOOLEAN : EndData(content, allowed)
    \/ \E x \in Servers \union {Org} : Suspend(x)

Spec == Init /\ [][Next]_vars

-----------------------------------------------------------------------------
Stored == {answer.stored[j] : j \in 1..Len(answer.stored)}

(* What a client was told about its envelope is what is stored: after 250  *)
(* at the end of DATA there is a message from its sender for exactly the   *)
(* recipients that were answered 250 since its MAIL FROM, whatever was     *)
(* reset, refused, authenticated or encrypted in between.                  *)
EnvelopeAgrees ==
    /\ {m.name : m \in Stored} = IF answer.code = "250" THEN answer.envelope.rcpts ELSE {}
    /\ \A m \in Stored : m.from = answer.envelope.from

(* What is stamped on a message is true: received_with_ssl holds exactly   *)
(* for data that came over TLS, although the session is marked before the  *)
(* handshake, and the first message of a connection carries the SPF        *)
(* verdict on its own sender, whatever MAIL FROM, RSET, EHLO or STARTTLS   *)
(* came before.  (Later messages carry the first one's: SPF is evaluated   *)
(* once.)                                                                  *)
StampsAreTrue ==
    \A m \in Stored :
        /\ m.ssl <=> answer.wire = "tls"
        /\ count = 1 => m.spf = IF m.from = NullSender THEN None ELSE m.from

(* Who may not use a server stores nothing on it: a server suspended since *)
(* before MAIL FROM gets no message of the transaction, of any kind; an    *)
(* outgoing message for the server of its credential has a From header     *)
(* that server authorizes (docs/sending.md); and where TLS is enabled and  *)
(* required for AUTH, no credential was ever taken from an unprotected     *)
(* connection (auth_permitted).  AUTH with another server's credential     *)
(* after RCPT TO does store a message of one server under the credential   *)
(* of another.                                                             *)
StoredIsEntitled ==
    /\ TlsEnabled /\ AuthRequiresTls => ~session.clear
    /\ \A m \in Stored :
          /\ m.server \in answer.envelope.usable
          /\ m.kind = "credential" /\ m.server = ServerOf[m.credential]
                => m.server \in m.authorized
=============================================================================
