-------------------------- MODULE SmtpSessionProofs --------------------------
(***************************************************************************)
(* Proofs about SmtpSession, for any servers, credentials, addresses and   *)
(* bodies, any configuration and any bounds.                               *)
(*                                                                         *)
(* What is stored at the end of DATA is true because the session and what  *)
(* the answers have told the client move together, command by command.     *)
(***************************************************************************)
EXTENDS SmtpSession, TlsReloader, TLAPS

States   == {"preauth", "welcome", "welcomed", "mailFrom", "rcptTo"}
Froms    == Senders \union {NullSender, None}
Verdicts == Senders \union {None}
Rcpt     == [name : {a.name : a \in Addresses}, server : Servers,
             kind : {"bounce", "credential", "route"}]

SessionType ==
    [state : States, mode : Modes, tls : BOOLEAN,
     credential : Credentials \union {None}, clear : BOOLEAN,
     recipients : Seq(Rcpt), mailFrom : Froms,
     data : {None} \union [spf : Verdicts], spf : Verdicts,
     spfDone : BOOLEAN, prevCr : BOOLEAN]

EnvelopeType == [from : Froms, rcpts : SUBSET {a.name : a \in Addresses},
                 usable : SUBSET Servers]

TypeOK ==
    /\ wire \in {"plain", "tls", "handshake", "closed"}
    /\ session \in SessionType
    /\ client \in EnvelopeType
    /\ count \in Nat

(* The recipients the session holds are those the client was told of, on   *)
(* servers it may use.                                                     *)
Told(recipients, envelope) ==
    /\ \A i \in 1..Len(recipients) : /\ recipients[i].name \in envelope.rcpts
                                      /\ recipients[i].server \in envelope.usable
    /\ \A n \in envelope.rcpts : \E i \in 1..Len(recipients) : recipients[i].name = n

EnvelopeKept ==
    /\ Told(session.recipients, client)
    /\ session.mailFrom = client.from
    /\ session.state \in {"mailFrom", "rcptTo"} =>
          client.from # None /\ Usable \subseteq client.usable

(* An outgoing recipient was accepted on a credential the session has. *)
Entitled ==
    \A i \in 1..Len(session.recipients) :
        session.recipients[i].kind = "credential" => session.credential # None

(* The session knows whether the connection is encrypted. *)
Encrypted ==
    /\ Open => (session.tls <=> wire = "tls")
    /\ wire = "handshake" => session.tls

(* Before the first message SPF is evaluated at DATA, and not before. *)
Verdict(from) == IF from = NullSender THEN None ELSE from

SpfFresh ==
    count = 0 => IF session.mode = "data"
                 THEN session.data = [spf |-> Verdict(session.mailFrom)]
                 ELSE ~session.spfDone /\ session.spf = None

(* The connection AUTH is going on over is one it is permitted on. *)
Protected ==
    /\ TlsEnabled /\ AuthRequiresTls => ~session.clear
    /\ session.mode \in {"authPlain", "authUser", "authPassword", "authCram"} => AuthPermitted

SessionInv == TypeOK /\ EnvelopeKept /\ Entitled /\ Encrypted /\ SpfFresh /\ Protected

IInv == SessionInv /\ EnvelopeAgrees /\ StampsAreTrue /\ StoredIsEntitled

-----------------------------------------------------------------------------
(* A step that does not end a message stores nothing. *)
LEMMA SilentStep ==
    ASSUME SessionInv', Silent
    PROVE  IInv'
  <1>1. answer' = NoAnswer
    BY DEF Silent
  <1>2. Len(answer'.stored) = 0 /\ answer'.code = "none"
    BY <1>1 DEF NoAnswer
  <1>3. Stored' = {}
    BY <1>2 DEF Stored
  <1>4. EnvelopeAgrees'
    BY <1>2, <1>3 DEF EnvelopeAgrees
  <1>5. StampsAreTrue'
    BY <1>3 DEF StampsAreTrue
  <1>6. StoredIsEntitled'
    BY <1>3 DEF StoredIsEntitled, SessionInv, Protected
  <1> QED BY <1>4, <1>5, <1>6 DEF IInv

(* transaction_reset touches the envelope and nothing else. *)
LEMMA ResetFields ==
    ASSUME NEW s \in SessionType
    PROVE  LET r == Reset(s)
           IN  /\ r \in SessionType
               /\ r.mode = s.mode /\ r.tls = s.tls
               /\ r.credential = s.credential /\ r.clear = s.clear
               /\ r.recipients = <<>> /\ r.mailFrom = None
               /\ r.spf = s.spf /\ r.spfDone = s.spfDone
  <1>0. PICK none : none = <<>> /\ none \in Seq(Rcpt)
    <2>1. <<>> \in Seq(Rcpt)
      OBVIOUS
    <2> QED BY <2>1
  <1> DEFINE a == [s EXCEPT !.recipients = none]
             b == [a EXCEPT !.mailFrom = None]
             r == [b EXCEPT !.data = None]
  <1>1. a \in SessionType /\ a.recipients = none /\ a.mode = s.mode /\ a.tls = s.tls
        /\ a.credential = s.credential /\ a.clear = s.clear /\ a.spf = s.spf /\ a.spfDone = s.spfDone
    BY <1>0 DEF SessionType
  <1> HIDE DEF a
  <1>2. b \in SessionType /\ b.recipients = none /\ b.mode = s.mode /\ b.tls = s.tls
        /\ b.credential = s.credential /\ b.clear = s.clear /\ b.spf = s.spf /\ b.spfDone = s.spfDone
        /\ b.mailFrom = None
    BY <1>1 DEF SessionType, Froms
  <1> HIDE DEF b
  <1>3. r \in SessionType /\ r.recipients = none /\ r.mode = s.mode /\ r.tls = s.tls
        /\ r.credential = s.credential /\ r.clear = s.clear /\ r.spf = s.spf /\ r.spfDone = s.spfDone
        /\ r.mailFrom = None
    BY <1>2 DEF SessionType
  <1>4. r = Reset(s)
    BY <1>0 DEF Reset, a, b
  <1> HIDE DEF r
  <1> QED BY <1>0, <1>3, <1>4

LEMMA ResetSession ==
    ASSUME NEW s \in SessionType, NEW state \in States
    PROVE  LET t == [Reset(s) EXCEPT !.state = state]
           IN  /\ t \in SessionType
               /\ t.state = state /\ t.mode = s.mode /\ t.tls = s.tls
               /\ t.credential = s.credential /\ t.clear = s.clear
               /\ t.recipients = <<>> /\ t.mailFrom = None
               /\ t.spf = s.spf /\ t.spfDone = s.spfDone
  <1> DEFINE r == Reset(s)
  <1>1. /\ r \in SessionType
        /\ r.mode = s.mode /\ r.tls = s.tls
        /\ r.credential = s.credential /\ r.clear = s.clear
        /\ r.recipients = <<>> /\ r.mailFrom = None
        /\ r.spf = s.spf /\ r.spfDone = s.spfDone
    BY ResetFields
  <1> HIDE DEF r
  <1> QED BY <1>1 DEF SessionType, r

LEMMA InitInv == SessionAssumption /\ Init => IInv
  <1> SUFFICES ASSUME SessionAssumption, Init PROVE IInv
    OBVIOUS
  <1>1. /\ session.recipients = <<>> /\ session.mailFrom = None /\ session.mode = "command"
        /\ session.tls = Smtps /\ session.clear = FALSE
        /\ session.spf = None /\ session.spfDone = FALSE
        /\ session.state \in {"preauth", "welcome"}
    BY DEF Init
  <1>2. session \in SessionType
    BY DEF Init, SessionType, States, Modes, Froms, Verdicts, SessionAssumption
  <1>3. /\ client = NoEnvelope /\ client.from = None /\ client.rcpts = {}
        /\ client \in EnvelopeType
    BY DEF Init, NoEnvelope, EnvelopeType, Froms
  <1>4. TypeOK
    BY <1>2, <1>3 DEF Init, TypeOK
  <1>5. EnvelopeKept
    BY <1>1, <1>3 DEF EnvelopeKept, Told
  <1>6. Entitled /\ SpfFresh /\ Protected
    BY <1>1 DEF Entitled, SpfFresh, Protected
  <1>7. Encrypted
    BY <1>1 DEF Init, Encrypted, Open, SessionAssumption
  <1>8. Stored = {} /\ answer.code = "none"
    <2>1. answer.code = "none" /\ Len(answer.stored) = 0
      BY DEF Init, NoAnswer
    <2> QED BY <2>1 DEF Stored
  <1>9. SessionInv
    BY <1>4, <1>5, <1>6, <1>7 DEF SessionInv
  <1> QED BY <1>6, <1>8, <1>9
          DEF IInv, EnvelopeAgrees, StampsAreTrue, StoredIsEntitled, Protected

(***************************************************************************)
(* Connection, greeting and AUTH                                           *)
(***************************************************************************)
LEMMA ConnectionStep ==
    ASSUME SessionAssumption, IInv, NEW b \in BOOLEAN, Proxy(b) \/ Handshake(b) \/ Quit \/ StartTls
    PROVE  IInv'
  <1>1. session \in SessionType /\ SessionInv
    BY DEF IInv, SessionInv, TypeOK
  <1>2. CASE Proxy(b)
    <2>1. /\ session' \in SessionType
          /\ session'.mode = session.mode /\ session'.tls = session.tls
          /\ session'.credential = session.credential /\ session'.clear = session.clear
          /\ session'.recipients = session.recipients /\ session'.mailFrom = session.mailFrom
          /\ session'.data = session.data /\ session'.spf = session.spf
          /\ session'.spfDone = session.spfDone
          /\ session'.state \in {"preauth", "welcome"}
      <3>1. session' = session \/ session' = [session EXCEPT !.state = "welcome"]
        BY <1>2 DEF Proxy
      <3>2. session.state = "preauth"
        BY <1>2 DEF Proxy
      <3> QED BY <1>1, <3>1, <3>2 DEF SessionType, States
    <2>2. wire' \in {wire, "closed"} /\ client' = client /\ suspended' = suspended /\ count' = count
      BY <1>2 DEF Proxy, Silent
    <2>3. SessionInv'
      BY <1>1, <2>1, <2>2 DEF SessionInv, TypeOK, EnvelopeKept, Entitled, Encrypted, Open,
                              SpfFresh, Protected, AuthPermitted
    <2> QED BY <1>2, <2>3, SilentStep DEF Proxy
  <1>3. CASE Handshake(b)
    <2>1. /\ session' \in SessionType
          /\ session'.mode = session.mode /\ session'.tls = session.tls
          /\ session'.credential = session.credential /\ session'.clear = session.clear
          /\ session'.recipients = session.recipients /\ session'.mailFrom = session.mailFrom
          /\ session'.data = session.data /\ session'.spf = session.spf
          /\ session'.spfDone = FALSE
          /\ session'.state = session.state
      BY <1>1, <1>3 DEF Handshake, SessionType
    <2>2. wire' \in {"tls", "closed"} /\ client' = client /\ suspended' = suspended /\ count' = count
          /\ session.tls
      BY <1>1, <1>3 DEF Handshake, Silent, SessionInv, Encrypted
    <2>3. Usable' = Usable
      BY <2>2 DEF Usable
    <2>4. SessionInv'
      BY <1>1, <2>1, <2>2, <2>3 DEF SessionInv, TypeOK, EnvelopeKept, Entitled, Encrypted, Open,
                              SpfFresh, Protected, AuthPermitted
    <2> QED BY <1>3, <2>4, SilentStep DEF Handshake
  <1>4. CASE Quit
    <2>1. wire' = "closed" /\ client' = client /\ suspended' = suspended /\ count' = count
          /\ session' = session
      BY <1>4 DEF Quit, Silent
    <2>2. Usable' = Usable
      BY <2>1 DEF Usable
    <2>3. SessionInv'
      BY <1>1, <2>1, <2>2 DEF SessionInv, TypeOK, EnvelopeKept, Entitled, Encrypted, Open,
                              SpfFresh, Protected, AuthPermitted
    <2> QED BY <1>4, <2>3, SilentStep DEF Quit
  <1>5. CASE StartTls
    <2>1. /\ session' \in SessionType
          /\ session'.mode = session.mode /\ session'.tls = TRUE
          /\ session'.credential = session.credential /\ session'.clear = session.clear
          /\ session'.recipients = session.recipients /\ session'.mailFrom = session.mailFrom
          /\ session'.data = session.data /\ session'.spf = session.spf
          /\ session'.spfDone = session.spfDone
          /\ session'.state = session.state
      BY <1>1, <1>5 DEF StartTls, SessionType
    <2>2. wire' \in {"handshake", "closed"} /\ client' = client /\ suspended' = suspended
          /\ count' = count
      BY <1>5 DEF StartTls, Silent
    <2>3. Usable' = Usable
      BY <2>2 DEF Usable
    <2>4. SessionInv'
      BY <1>1, <2>1, <2>2, <2>3 DEF SessionInv, TypeOK, EnvelopeKept, Entitled, Encrypted, Open,
                              SpfFresh, Protected, AuthPermitted
    <2> QED BY <1>5, <2>4, SilentStep DEF StartTls
  <1> QED BY <1>2, <1>3, <1>4, <1>5

LEMMA HelloStep ==
    ASSUME SessionAssumption, IInv, Hello \/ Rset
    PROVE  IInv'
  <1>1. session \in SessionType /\ SessionInv /\ "welcomed" \in States
    BY DEF IInv, SessionInv, TypeOK, States
  <1>2. /\ session' = [Reset(session) EXCEPT !.state = "welcomed"]
        /\ client' = NoEnvelope /\ wire' = wire /\ suspended' = suspended /\ Silent
        /\ session.mode = "command"
    BY DEF Hello, Rset, Command
  <1>3. /\ session' \in SessionType
        /\ session'.mode = session.mode /\ session'.tls = session.tls
        /\ session'.clear = session.clear
        /\ session'.recipients = <<>> /\ session'.mailFrom = None
        /\ session'.spf = session.spf /\ session'.spfDone = session.spfDone
        /\ session'.state = "welcomed"
    BY <1>1, <1>2, ResetSession
  <1>4. client' \in EnvelopeType /\ client'.from = None /\ client'.rcpts = {} /\ count' = count
    BY <1>2 DEF NoEnvelope, EnvelopeType, Froms, Silent
  <1>5. EnvelopeKept' /\ Entitled'
    BY <1>3, <1>4 DEF EnvelopeKept, Entitled, Told
  <1>6. TypeOK' /\ Encrypted' /\ SpfFresh' /\ Protected'
    BY <1>1, <1>2, <1>3, <1>4 DEF SessionInv, TypeOK, Encrypted, Open, SpfFresh, Protected
  <1> QED BY <1>2, <1>5, <1>6, SilentStep DEF SessionInv

(* A credential is taken only where AUTH is permitted. *)
LEMMA AuthStep ==
    ASSUME SessionAssumption, IInv,
           \/ \E mode \in Modes : Auth(mode)
           \/ AuthUser
           \/ \E c \in Credentials \union {None} : AuthInline(c) \/ AuthContinue(c)
    PROVE  IInv'
  <1>1. session \in SessionType /\ SessionInv
    BY DEF IInv, SessionInv, TypeOK
  <1>2. /\ client' = client /\ wire' = wire /\ suspended' = suspended /\ Silent /\ Open
        /\ session.mode # "data" /\ AuthPermitted
    BY <1>1 DEF Auth, AuthUser, AuthInline, AuthContinue, Command, SessionInv, Protected
  <1>3. /\ session' \in SessionType
        /\ session'.tls = session.tls /\ session'.mode # "data"
        /\ session.credential # None => session'.credential # None
        /\ session'.recipients = session.recipients /\ session'.mailFrom = session.mailFrom
        /\ session'.spf = session.spf /\ session'.spfDone = session.spfDone
        /\ session'.state = session.state
        /\ session'.clear => session.clear \/ wire # "tls"
    <2>1. CASE \E mode \in Modes : Auth(mode)
      <3>1. PICK mode \in Modes : Auth(mode)
        BY <2>1
      <3>2. mode # "data" /\ session' = [session EXCEPT !.mode = mode]
        BY <3>1 DEF Auth
      <3> QED BY <1>1, <3>2 DEF SessionType
    <2>2. CASE AuthUser
      BY <1>1, <2>2 DEF AuthUser, SessionType, Modes
    <2>3. CASE \E c \in Credentials \union {None} : AuthInline(c) \/ AuthContinue(c)
      <3>1. PICK c \in Credentials \union {None} : session' = Authenticate(session, c)
        BY <2>3 DEF AuthInline, AuthContinue
      <3>2. CASE c = None
        BY <1>1, <3>1, <3>2 DEF Authenticate, SessionType, Modes
      <3>3. CASE c # None
        <4> DEFINE clear == session.clear \/ wire # "tls"
        <4>1. session' = [session EXCEPT !.mode = "command", !.credential = c, !.clear = clear]
          BY <3>1, <3>3 DEF Authenticate
        <4>2. clear \in BOOLEAN /\ (clear => session.clear \/ wire # "tls")
          OBVIOUS
        <4> HIDE DEF clear
        <4> QED BY <1>1, <3>3, <4>1, <4>2 DEF SessionType, Modes
      <3> QED BY <3>2, <3>3
    <2> QED BY <2>1, <2>2, <2>3
  <1>4. count' = count /\ Usable' = Usable
    BY <1>2 DEF Silent, Usable
  <1>5. EnvelopeKept' /\ Entitled' /\ TypeOK'
    BY <1>1, <1>2, <1>3, <1>4 DEF SessionInv, EnvelopeKept, Entitled, TypeOK
  <1>6. Encrypted' /\ SpfFresh'
    BY <1>1, <1>2, <1>3, <1>4 DEF SessionInv, Encrypted, Open, SpfFresh
  <1>7. Protected'
    <2>1. AuthPermitted'
      BY <1>2, <1>3 DEF AuthPermitted
    <2>2. TlsEnabled /\ AuthRequiresTls => wire = "tls"
      BY <1>1, <1>2 DEF AuthPermitted, SessionInv, Encrypted
    <2> QED BY <1>1, <1>3, <2>1, <2>2 DEF SessionInv, Protected
  <1> QED BY <1>2, <1>5, <1>6, <1>7, SilentStep DEF SessionInv

(***************************************************************************)
(* The envelope                                                            *)
(***************************************************************************)
LEMMA MailFromStep ==
    ASSUME SessionAssumption, IInv, NEW sender \in Senders \union {NullSender}, MailFrom(sender)
    PROVE  IInv'
  <1>1. session \in SessionType /\ SessionInv /\ "mailFrom" \in States
    BY DEF IInv, SessionInv, TypeOK, States
  <1> DEFINE t == [Reset(session) EXCEPT !.state = "mailFrom"]
  <1>2. /\ session' = [t EXCEPT !.mailFrom = sender]
        /\ client' = [from |-> sender, rcpts |-> {}, usable |-> Usable]
        /\ wire' = wire /\ suspended' = suspended /\ Silent
        /\ session.mode = "command"
    BY DEF MailFrom, Command
  <1>3. /\ t \in SessionType
        /\ t.state = "mailFrom" /\ t.mode = session.mode /\ t.tls = session.tls
        /\ t.clear = session.clear /\ t.recipients = <<>>
        /\ t.spf = session.spf /\ t.spfDone = session.spfDone
    BY <1>1, ResetSession
  <1> HIDE DEF t
  <1>4. sender \in Froms /\ sender # None
    BY DEF Froms, SessionAssumption
  <1>5. /\ session' \in SessionType
        /\ session'.mode = session.mode /\ session'.tls = session.tls
        /\ session'.clear = session.clear
        /\ session'.recipients = <<>> /\ session'.mailFrom = sender
        /\ session'.spf = session.spf /\ session'.spfDone = session.spfDone
        /\ session'.state = "mailFrom"
    BY <1>2, <1>3, <1>4 DEF SessionType
  <1>6. Usable' = Usable /\ Usable \subseteq Servers
    BY <1>2 DEF Usable
  <1>7. client' \in EnvelopeType /\ client'.from = sender /\ client'.rcpts = {} /\ count' = count
        /\ client'.usable = Usable
    BY <1>2, <1>4, <1>6 DEF EnvelopeType, Silent
  <1>8. EnvelopeKept' /\ Entitled'
    BY <1>4, <1>5, <1>6, <1>7 DEF EnvelopeKept, Entitled, Told
  <1>9. TypeOK' /\ Encrypted' /\ SpfFresh' /\ Protected'
    BY <1>1, <1>2, <1>5, <1>7 DEF SessionInv, TypeOK, Encrypted, Open, SpfFresh, Protected
  <1> QED BY <1>2, <1>8, <1>9, SilentStep DEF SessionInv

(* A recipient is accepted on a server that is not suspended, and for an   *)
(* outgoing one the session then has a credential.                         *)
LEMMA RecipientRow ==
    ASSUME SessionAssumption, TypeOK, NEW a \in Addresses, Accepts(a)
    PROVE  /\ Recipient(a) \in Rcpt
           /\ Recipient(a).name = a.name
           /\ Recipient(a).server \in Usable
           /\ Recipient(a).kind = "credential" => Sending(a) # None
  <1>1. session.credential \in Credentials \union {None}
    BY DEF TypeOK, SessionType
  <1>2. Sending(a) \in Credentials \union {None}
    BY <1>1 DEF Sending, SessionAssumption
  <1>3. Target(a) \in Usable
    BY <1>2 DEF Target, Accepts, Usable, SessionAssumption
  <1>4. Target(a) \in Servers
    BY <1>3 DEF Usable
  <1> DEFINE kind == IF a.kind = "bounce" THEN "bounce"
                     ELSE IF Sending(a) # None THEN "credential" ELSE "route"
  <1>5. kind \in {"bounce", "credential", "route"} /\ (kind = "credential" => Sending(a) # None)
    OBVIOUS
  <1>6. Recipient(a) = [name |-> a.name, server |-> Target(a), kind |-> kind]
    BY DEF Recipient
  <1> HIDE DEF kind
  <1> QED BY <1>3, <1>4, <1>5, <1>6 DEF Rcpt

LEMMA RcptToStep ==
    ASSUME SessionAssumption, IInv, NEW a \in Addresses, RcptTo(a)
    PROVE  IInv'
  <1>1. session \in SessionType /\ SessionInv /\ client \in EnvelopeType /\ TypeOK
        /\ session.recipients \in Seq(Rcpt)
    BY DEF IInv, SessionInv, TypeOK, SessionType
  <1> DEFINE cred == IF Sending(a) # None THEN Sending(a) ELSE session.credential
             rs   == IF Accepts(a) THEN Append(session.recipients, Recipient(a))
                                   ELSE session.recipients
  <1>2. /\ session' = [session EXCEPT !.state = "rcptTo", !.credential = cred, !.recipients = rs]
        /\ wire' = wire /\ suspended' = suspended /\ Silent
        /\ session.mode = "command" /\ session.state \in {"mailFrom", "rcptTo"}
        /\ client' = IF Accepts(a) THEN [client EXCEPT !.rcpts = @ \union {a.name}] ELSE client
    BY DEF RcptTo, Command
  <1>3. cred \in Credentials \union {None}
    <2>1. session.credential \in Credentials \union {None}
      BY <1>1 DEF SessionType
    <2> QED BY <2>1 DEF Sending, SessionAssumption
  <1>4. (Sending(a) # None \/ session.credential # None) => cred # None
    OBVIOUS
  <1>5. rs \in Seq(Rcpt)
    BY <1>1, RecipientRow
  <1>6. /\ client' \in EnvelopeType /\ client'.from = client.from /\ client'.usable = client.usable
        /\ client'.rcpts = IF Accepts(a) THEN client.rcpts \union {a.name} ELSE client.rcpts
    BY <1>1, <1>2 DEF EnvelopeType
  <1>7. Usable \subseteq client.usable
    BY <1>1, <1>2 DEF SessionInv, EnvelopeKept
  <1>8. Told(rs, client') /\ \A i \in 1..Len(rs) : rs[i].kind = "credential" => cred # None
    <2>1. CASE Accepts(a)
      <3> DEFINE old == session.recipients
                 new == Recipient(a)
      <3>1. new.name = a.name /\ new.server \in Usable /\ (new.kind = "credential" => cred # None)
        BY <1>1, <1>4, <2>1, RecipientRow
      <3>2. Len(rs) = Len(old) + 1 /\ rs[Len(old) + 1] = new /\ \A i \in 1..Len(old) : rs[i] = old[i]
        BY <1>1, <2>1
      <3>3. Told(old, client) /\ \A i \in 1..Len(old) : old[i].kind = "credential" => cred # None
        BY <1>1, <1>4 DEF SessionInv, EnvelopeKept, Entitled
      <3>4. Len(old) \in Nat
        BY <1>1
      <3>5. client'.rcpts = client.rcpts \union {a.name}
        BY <1>6, <2>1
      <3> HIDE DEF old, new, rs, cred
      <3>6. \A i \in 1..Len(rs) : i \in 1..Len(old) \/ i = Len(old) + 1
        BY <3>2, <3>4
      <3>7. \A i \in 1..Len(rs) : /\ rs[i].name \in client'.rcpts
                                  /\ rs[i].server \in client'.usable
                                  /\ rs[i].kind = "credential" => cred # None
        <4>1. ASSUME NEW i \in 1..Len(old)
              PROVE  /\ rs[i].name \in client'.rcpts
                     /\ rs[i].server \in client'.usable
                     /\ rs[i].kind = "credential" => cred # None
          BY <1>6, <3>2, <3>3, <3>5 DEF Told
        <4>2. /\ new.name \in client'.rcpts
              /\ new.server \in client'.usable
              /\ new.kind = "credential" => cred # None
          BY <1>6, <1>7, <3>1, <3>5
        <4> QED BY <3>2, <3>6, <4>1, <4>2
      <3>8. \A n \in client'.rcpts : \E i \in 1..Len(rs) : rs[i].name = n
        <4>1. SUFFICES ASSUME NEW n \in client'.rcpts PROVE \E i \in 1..Len(rs) : rs[i].name = n
          OBVIOUS
        <4>2. CASE n = a.name
          BY <3>1, <3>2, <3>4, <4>2
        <4>3. CASE n \in client.rcpts
          <5>1. PICK i \in 1..Len(old) : old[i].name = n
            BY <3>3, <4>3 DEF Told
          <5>2. i \in 1..Len(rs) /\ rs[i].name = n
            BY <3>2, <3>4, <5>1
          <5> QED BY <5>2
        <4> QED BY <3>5, <4>2, <4>3
      <3> QED BY <3>7, <3>8 DEF Told
    <2>2. CASE ~Accepts(a)
      <3>1. rs = session.recipients /\ client' = client
        BY <1>2, <2>2
      <3> QED BY <1>1, <1>4, <3>1 DEF SessionInv, EnvelopeKept, Entitled
    <2> QED BY <2>1, <2>2
  <1> HIDE DEF cred, rs
  <1>9. /\ session' \in SessionType
        /\ session'.mode = session.mode /\ session'.tls = session.tls
        /\ session'.clear = session.clear /\ session'.credential = cred
        /\ session'.recipients = rs /\ session'.mailFrom = session.mailFrom
        /\ session'.spf = session.spf /\ session'.spfDone = session.spfDone
        /\ session'.state = "rcptTo"
    BY <1>1, <1>2, <1>3, <1>5 DEF SessionType, States
  <1>10. Usable' = Usable /\ count' = count
    BY <1>2 DEF Usable, Silent
  <1>11. EnvelopeKept' /\ Entitled'
    BY <1>1, <1>2, <1>6, <1>8, <1>9, <1>10 DEF SessionInv, EnvelopeKept, Entitled
  <1>12. TypeOK' /\ Encrypted' /\ SpfFresh' /\ Protected'
    BY <1>1, <1>2, <1>6, <1>9, <1>10 DEF SessionInv, TypeOK, Encrypted, Open, SpfFresh, Protected
  <1> QED BY <1>2, <1>11, <1>12, SilentStep DEF SessionInv

(* A suspension takes from the servers that can be used, lifting it gives  *)
(* to those the client may use.                                            *)
LEMMA SuspendStep ==
    ASSUME SessionAssumption, IInv, NEW x \in Servers \union {Org}, Suspend(x)
    PROVE  IInv'
  <1>1. session \in SessionType /\ SessionInv /\ client \in EnvelopeType
    BY DEF IInv, SessionInv, TypeOK
  <1> DEFINE more == IF client.from = None \/ x \notin suspended \/ x \notin Servers
                     THEN client.usable ELSE client.usable \union {x}
  <1>2. /\ session' = session /\ wire' = wire /\ Silent
        /\ suspended' = IF x \in suspended THEN suspended \ {x} ELSE suspended \union {x}
        /\ client' = [client EXCEPT !.usable = more]
    BY DEF Suspend
  <1>3. more \subseteq Servers /\ client.usable \subseteq more
    BY <1>1 DEF EnvelopeType
  <1>4. Usable \subseteq client.usable /\ client.from # None => Usable' \subseteq more
    BY <1>2 DEF Usable
  <1> HIDE DEF more
  <1>5. /\ client' \in EnvelopeType /\ client'.from = client.from /\ client'.rcpts = client.rcpts
        /\ client'.usable = more
    BY <1>1, <1>2, <1>3 DEF EnvelopeType
  <1>6. EnvelopeKept' /\ Entitled'
    BY <1>1, <1>2, <1>3, <1>4, <1>5 DEF SessionInv, EnvelopeKept, Entitled, Told
  <1>7. TypeOK' /\ Encrypted' /\ SpfFresh' /\ Protected'
    BY <1>1, <1>2, <1>5 DEF SessionInv, TypeOK, Encrypted, Open, SpfFresh, Protected,
                            AuthPermitted, Silent
  <1> QED BY <1>2, <1>6, <1>7, SilentStep DEF SessionInv

(***************************************************************************)
(* DATA                                                                    *)
(***************************************************************************)
LEMMA DataCommandStep ==
    ASSUME SessionAssumption, IInv, NEW cr \in BOOLEAN, DataCommand(cr)
    PROVE  IInv'
  <1>1. session \in SessionType /\ SessionInv
    BY DEF IInv, SessionInv, TypeOK
  <1> DEFINE spf  == IF session.spfDone \/ session.mailFrom = NullSender
                     THEN session.spf ELSE session.mailFrom
             data == [spf |-> spf]
  <1>2. /\ session' = [session EXCEPT !.mode = "data", !.prevCr = cr, !.spf = spf,
                                      !.spfDone = TRUE, !.data = data]
        /\ client' = client /\ wire' = wire /\ suspended' = suspended /\ Silent
        /\ session.mode = "command" /\ session.state = "rcptTo"
    BY DEF DataCommand, Command
  <1>3. spf \in Verdicts
    <2>1. session.mailFrom \in Froms /\ session.spf \in Verdicts /\ session.mailFrom # None
      BY <1>1, <1>2 DEF SessionType, SessionInv, EnvelopeKept
    <2> QED BY <2>1 DEF Froms, Verdicts
  <1>4. count = 0 => spf = Verdict(session.mailFrom)
    BY <1>1, <1>2 DEF SessionInv, SpfFresh, Verdict
  <1>5. data \in {None} \union [spf : Verdicts] /\ data = [spf |-> spf]
    BY <1>3
  <1> HIDE DEF spf, data
  <1>6. /\ session' \in SessionType
        /\ session'.mode = "data" /\ session'.tls = session.tls
        /\ session'.clear = session.clear /\ session'.credential = session.credential
        /\ session'.recipients = session.recipients /\ session'.mailFrom = session.mailFrom
        /\ session'.state = session.state /\ session'.data = data
    <2> DEFINE u == [session EXCEPT !.mode = "data", !.prevCr = cr, !.spf = spf]
    <2>1. /\ u \in SessionType
          /\ u.mode = "data" /\ u.tls = session.tls
          /\ u.clear = session.clear /\ u.credential = session.credential
          /\ u.recipients = session.recipients /\ u.mailFrom = session.mailFrom
          /\ u.state = session.state
      BY <1>1, <1>3 DEF SessionType, Modes
    <2>2. session' = [u EXCEPT !.spfDone = TRUE, !.data = data]
      BY <1>2
    <2> HIDE DEF u
    <2> QED BY <1>5, <2>1, <2>2 DEF SessionType
  <1>7. Usable' = Usable /\ count' = count
    BY <1>2 DEF Usable, Silent
  <1>8. SpfFresh'
    BY <1>4, <1>5, <1>6, <1>7 DEF SpfFresh
  <1>9. TypeOK' /\ EnvelopeKept' /\ Entitled'
    BY <1>1, <1>2, <1>6, <1>7 DEF SessionInv, TypeOK, EnvelopeKept, Entitled
  <1>10. Encrypted' /\ Protected'
    BY <1>1, <1>2, <1>6 DEF SessionInv, Encrypted, Open, Protected
  <1> QED BY <1>2, <1>8, <1>9, <1>10, SilentStep DEF SessionInv

LEMMA DataLineStep ==
    ASSUME SessionAssumption, IInv, NEW dot \in BOOLEAN, NEW cr \in BOOLEAN, DataLine(dot, cr)
    PROVE  IInv'
  <1>1. session \in SessionType /\ SessionInv
    BY DEF IInv, SessionInv, TypeOK
  <1>2. /\ session' = [session EXCEPT !.prevCr = cr]
        /\ client' = client /\ wire' = wire /\ suspended' = suspended /\ Silent
    BY DEF DataLine
  <1>3. /\ session' \in SessionType
        /\ session'.mode = session.mode /\ session'.tls = session.tls
        /\ session'.clear = session.clear /\ session'.credential = session.credential
        /\ session'.recipients = session.recipients /\ session'.mailFrom = session.mailFrom
        /\ session'.state = session.state /\ session'.data = session.data
        /\ session'.spf = session.spf /\ session'.spfDone = session.spfDone
    BY <1>1, <1>2 DEF SessionType
  <1>4. Usable' = Usable /\ count' = count
    BY <1>2 DEF Usable, Silent
  <1>5. TypeOK' /\ EnvelopeKept' /\ Entitled'
    BY <1>1, <1>2, <1>3, <1>4 DEF SessionInv, TypeOK, EnvelopeKept, Entitled
  <1>6. SpfFresh' /\ Encrypted' /\ Protected'
    BY <1>1, <1>2, <1>3, <1>4 DEF SessionInv, SpfFresh, Encrypted, Open, Protected, AuthPermitted
  <1> QED BY <1>2, <1>5, <1>6, SilentStep DEF SessionInv

(* The message is stored for the session's recipients, or refused; either  *)
(* way the envelope is forgotten.                                          *)
LEMMA EndDataStep ==
    ASSUME SessionAssumption, IInv, NEW content \in Contents, NEW allowed \in BOOLEAN,
           EndData(content, allowed)
    PROVE  IInv'
  <1>1. /\ session \in SessionType /\ SessionInv /\ "welcomed" \in States
        /\ session.recipients \in Seq(Rcpt) /\ count \in Nat
    BY DEF IInv, SessionInv, TypeOK, SessionType, States
  <1> DEFINE code   == IF Rejection(content, allowed) # "none" THEN Rejection(content, allowed)
                       ELSE IF Storable(content) THEN "250" ELSE "451"
             n      == Len(session.recipients)
             M(i)   == Message(session.recipients[i], content)
             stored == IF code # "250" THEN <<>> ELSE [i \in 1..n |-> M(i)]
  <1>2. /\ answer' = [code |-> code, stored |-> stored, envelope |-> client, wire |-> wire]
        /\ count' = count + 1
        /\ client' = NoEnvelope /\ wire' = wire /\ suspended' = suspended
        /\ Open /\ session.mode = "data"
    BY DEF EndData
  <1>3. SessionInv'
    <2> DEFINE r == Reset(session)
    <2>1. session' = [r EXCEPT !.mode = "command", !.state = "welcomed"]
      BY DEF EndData
    <2>2. /\ r \in SessionType
          /\ r.tls = session.tls /\ r.clear = session.clear
          /\ r.recipients = <<>> /\ r.mailFrom = None
      BY <1>1, ResetFields
    <2> HIDE DEF r
    <2>3. /\ session' \in SessionType
          /\ session'.tls = session.tls /\ session'.clear = session.clear
          /\ session'.recipients = <<>> /\ session'.mailFrom = None
          /\ session'.mode = "command" /\ session'.state = "welcomed"
      BY <2>1, <2>2 DEF SessionType, Modes, States
    <2>4. client' \in EnvelopeType /\ client'.from = None /\ client'.rcpts = {}
          /\ count' \in Nat /\ count' # 0
      BY <1>1, <1>2 DEF NoEnvelope, EnvelopeType, Froms
    <2>5. EnvelopeKept' /\ Entitled'
      BY <2>3, <2>4 DEF EnvelopeKept, Entitled, Told
    <2>6. TypeOK' /\ Encrypted' /\ SpfFresh' /\ Protected'
      BY <1>1, <1>2, <2>3, <2>4 DEF SessionInv, TypeOK, Encrypted, Open, SpfFresh, Protected
    <2> QED BY <2>5, <2>6 DEF SessionInv
  <1>4. n \in Nat
    BY <1>1
  <1>5. /\ answer'.code = code /\ answer'.stored = stored /\ answer'.envelope = client
        /\ answer'.wire = wire
    BY <1>2
  <1>6. \A i \in 1..n :
           /\ M(i).name = session.recipients[i].name /\ M(i).kind = session.recipients[i].kind
           /\ M(i).server = session.recipients[i].server /\ M(i).from = session.mailFrom
           /\ M(i).ssl = session.tls /\ M(i).spf = session.data.spf
           /\ M(i).authorized = content.from
           /\ M(i).kind = "credential" => M(i).credential = session.credential
    BY DEF Message
  <1>7. code = "250" => /\ Rejection(content, allowed) = "none"
                        /\ stored = [i \in 1..n |-> M(i)]
    BY DEF Rejection
  <1>8. code # "250" => stored = <<>>
    OBVIOUS
  <1> HIDE DEF M, stored, code
  <1>9. CASE code # "250"
    <2>1. Stored' = {}
      <3>1. Len(answer'.stored) = 0
        BY <1>5, <1>8, <1>9
      <3> QED BY <3>1 DEF Stored
    <2> QED BY <1>3, <1>5, <1>9, <2>1
            DEF IInv, EnvelopeAgrees, StampsAreTrue, StoredIsEntitled, SessionInv, Protected
  <1>10. CASE code = "250"
    <2>1. Stored' = {M(i) : i \in 1..n}
      <3>1. Len(answer'.stored) = n /\ \A i \in 1..n : answer'.stored[i] = M(i)
        BY <1>4, <1>5, <1>7, <1>10
      <3> QED BY <3>1 DEF Stored
    <2>2. Told(session.recipients, client) /\ session.mailFrom = client.from
      BY <1>1 DEF SessionInv, EnvelopeKept
    <2>3. EnvelopeAgrees'
      <3>1. \A i \in 1..n : M(i).name \in client.rcpts /\ M(i).from = client.from
        BY <1>6, <2>2 DEF Told
      <3>2. ASSUME NEW name \in client.rcpts PROVE \E i \in 1..n : M(i).name = name
        BY <1>6, <2>2 DEF Told
      <3>3. {m.name : m \in Stored'} = client.rcpts
        BY <2>1, <3>1, <3>2
      <3>4. \A m \in Stored' : m.from = client.from
        BY <2>1, <3>1
      <3> QED BY <1>5, <1>10, <3>3, <3>4 DEF EnvelopeAgrees
    <2>4. StampsAreTrue'
      <3>1. session.tls <=> wire = "tls"
        BY <1>1, <1>2 DEF SessionInv, Encrypted
      <3>2. count' = 1 => session.data.spf = Verdict(session.mailFrom)
        BY <1>1, <1>2 DEF SessionInv, SpfFresh
      <3>3. \A i \in 1..n :
               /\ M(i).ssl <=> wire = "tls"
               /\ count' = 1 => M(i).spf = IF M(i).from = NullSender THEN None ELSE M(i).from
        BY <1>6, <3>1, <3>2 DEF Verdict
      <3>4. \A m \in Stored' : \E i \in 1..n : m = M(i)
        BY <2>1
      <3> QED BY <1>5, <3>3, <3>4 DEF StampsAreTrue
    <2>5. StoredIsEntitled'
      <3>1. session.credential # None => ServerOf[session.credential] \in content.from
        BY <1>7, <1>10 DEF Rejection
      <3>2. \A i \in 1..n : M(i).server \in client.usable
        BY <1>6, <2>2 DEF Told
      <3>3. \A i \in 1..n : M(i).kind = "credential" => session.credential # None
        BY <1>1, <1>6 DEF SessionInv, Entitled
      <3>4. \A i \in 1..n : M(i).kind = "credential" /\ M(i).server = ServerOf[M(i).credential]
                                => M(i).server \in M(i).authorized
        BY <1>6, <3>1, <3>3
      <3>5. \A m \in Stored' : \E i \in 1..n : m = M(i)
        BY <2>1
      <3>6. \A m \in Stored' :
               /\ m.server \in client.usable
               /\ m.kind = "credential" /\ m.server = ServerOf[m.credential]
                     => m.server \in m.authorized
        BY <3>2, <3>4, <3>5
      <3>7. TlsEnabled /\ AuthRequiresTls => ~session'.clear
        BY <1>3 DEF SessionInv, Protected
      <3> QED BY <1>5, <3>6, <3>7 DEF StoredIsEntitled
    <2> QED BY <1>3, <2>3, <2>4, <2>5 DEF IInv
  <1> QED BY <1>9, <1>10

-----------------------------------------------------------------------------
LEMMA InvStep == SessionAssumption /\ IInv /\ [Next]_vars => IInv'
  <1> SUFFICES ASSUME SessionAssumption, IInv, [Next]_vars PROVE IInv'
    OBVIOUS
  <1>1. ASSUME NEW b \in BOOLEAN, Proxy(b) \/ Handshake(b) \/ Quit \/ StartTls PROVE IInv'
    BY <1>1, ConnectionStep
  <1>2. ASSUME NEW b \in BOOLEAN, DataCommand(b) PROVE IInv'
    BY <1>2, DataCommandStep
  <1>3. CASE Hello \/ Rset
    BY <1>3, HelloStep
  <1>4. CASE \/ AuthUser
             \/ \E mode \in Modes : Auth(mode)
             \/ \E c \in Credentials \union {None} : AuthInline(c) \/ AuthContinue(c)
    BY <1>4, AuthStep
  <1>5. CASE \E sender \in Senders \union {NullSender} : MailFrom(sender)
    BY <1>5, MailFromStep
  <1>6. CASE \E a \in Addresses : RcptTo(a)
    BY <1>6, RcptToStep
  <1>7. CASE \E dot, cr \in BOOLEAN : DataLine(dot, cr)
    BY <1>7, DataLineStep
  <1>8. CASE \E content \in Contents, allowed \in BOOLEAN : EndData(content, allowed)
    BY <1>8, EndDataStep
  <1>9. CASE \E x \in Servers \union {Org} : Suspend(x)
    BY <1>9, SuspendStep
  <1>10. CASE UNCHANGED vars
    <2>1. /\ wire' = wire /\ session' = session /\ suspended' = suspended /\ client' = client
          /\ answer' = answer /\ count' = count
      BY <1>10 DEF vars
    <2>2. Usable' = Usable /\ Stored' = Stored
      BY <2>1 DEF Usable, Stored
    <2>3. SessionInv'
      BY <2>1, <2>2 DEF IInv, SessionInv, TypeOK, EnvelopeKept, Entitled, Encrypted, Open,
                        SpfFresh, Protected, AuthPermitted
    <2> QED BY <2>1, <2>2, <2>3 DEF IInv, EnvelopeAgrees, StampsAreTrue, StoredIsEntitled
  <1> QED BY <1>1, <1>2, <1>3, <1>4, <1>5, <1>6, <1>7, <1>8, <1>9, <1>10 DEF Next

(* The session, the connection and what the client was told agree in every *)
(* state.                                                                  *)
THEOREM SessionInvariant == Spec => []IInv
  <1>1. Init => IInv
    BY InitInv, SessionAssumption
  <1>2. IInv /\ [Next]_vars => IInv'
    BY InvStep, SessionAssumption
  <1> QED BY <1>1, <1>2, PTL DEF Spec

(* What 250 at the end of DATA has stored is what the client was told: its *)
(* sender, and exactly the recipients that were accepted since MAIL FROM.  *)
THEOREM EnvelopeTheorem == Spec => []EnvelopeAgrees
  <1>1. IInv => EnvelopeAgrees
    BY DEF IInv
  <1> QED BY <1>1, SessionInvariant, PTL

(* received_with_ssl is true of the connection the data came over, and the *)
(* first message of a connection carries the verdict on its own sender.    *)
THEOREM StampsTheorem == Spec => []StampsAreTrue
  <1>1. IInv => StampsAreTrue
    BY DEF IInv
  <1> QED BY <1>1, SessionInvariant, PTL

(* No message is stored on a server that was suspended since before MAIL   *)
(* FROM, an outgoing one has a From header its credential's server         *)
(* authorizes, and a credential is never taken over an unprotected         *)
(* connection where the configuration forbids it.                          *)
THEOREM EntitlementTheorem == Spec => []StoredIsEntitled
  <1>1. IInv => StoredIsEntitled
    BY DEF IInv
  <1> QED BY <1>1, SessionInvariant, PTL

-----------------------------------------------------------------------------
(***************************************************************************)
(* The certificate of the same server                                      *)
(*                                                                         *)
(* If no renewal lands while the server starts, every handshake serves     *)
(* what is on disk: for any number of handshakes and writes, any contents  *)
(* and any relation between certificates and keys.                         *)
(***************************************************************************)
(* If file f still has this modification time, it has these contents. *)
Vouches(f, mtime, content) ==
    mtime # 0 /\ disk[f].mtime = mtime => disk[f].content = content

(* Modification times are of the past, and a file without one is missing. *)
Times ==
    \A f \in Files :
        /\ disk[f].mtime <= clock
        /\ disk[f].mtime = 0 => disk[f].content = Broken

(* The acceptor while the server starts, when the disk does not change, and *)
(* afterwards.                                                             *)
Recorded ==
    /\ startup \in {"loadKey", "stampCert", "stampKey"} =>
          current.pair["cert"] = disk["cert"].content
    /\ startup \in {"stampCert", "stampKey"} =>
          current.pair["key"] = disk["key"].content
    /\ startup \in {"stampCert", "stampKey", "running"} => Loads(current.pair)
    /\ startup = "running" =>
          \A f \in Files : Vouches(f, current.stamp[f], current.pair[f])
    /\ \A f \in Files : current.stamp[f] <= clock

(* A handshake r: it starts after the server; what it has read is vouched  *)
(* for by its stamp, which is that of the disk if nothing was written.     *)
HandshakeOK(r) ==
    /\ r.pc # "idle" => startup = "running"
    /\ r.began <= clock
    /\ \A f \in Files : r.stamp[f] <= clock
    /\ r.pc \in {"readKey", "replace"} => Vouches("cert", r.stamp["cert"], r.pair["cert"])
    /\ r.pc = "replace" => Vouches("key", r.stamp["key"], r.pair["key"]) /\ Loads(r.pair)
    /\ r.pc \in {"served", "warned"} => Loads(r.served)
    /\ r.began = clock =>
          /\ r.pc \in {"stampKey", "compare", "readCert", "readKey", "replace"} =>
                r.stamp["cert"] = disk["cert"].mtime
          /\ r.pc \in {"compare", "readCert", "readKey", "replace"} =>
                r.stamp["key"] = disk["key"].mtime
          /\ r.pc = "served" /\ Loads(OnDisk) => r.served = OnDisk

ReloaderInv ==
    /\ ReloaderTypeOK
    /\ Times
    /\ Recorded
    /\ \A h \in Handshakes : HandshakeOK(hs[h])

-----------------------------------------------------------------------------
(* Initially nothing is loaded and no handshake runs. *)
LEMMA InitEstablishes == ReloaderInit => ReloaderInv
<1> SUFFICES ASSUME ReloaderInit PROVE ReloaderInv
  OBVIOUS
<1> USE DEF ReloaderInit
<1>1. ReloaderTypeOK
  BY DEF ReloaderTypeOK, Stamps, Pairs, NoStamp, NoPair, Files
<1>2. Times
  BY DEF Times
<1>3. Recorded
  BY DEF Recorded, NoStamp
<1>4. ASSUME NEW h \in Handshakes PROVE HandshakeOK(hs[h])
  BY DEF HandshakeOK, NoStamp, Files
<1> QED BY <1>1, <1>2, <1>3, <1>4 DEF ReloaderInv

(* A pair that can be loaded has two files with modification times. *)
LEMMA LoadableHasTimes ==
    ASSUME ReloaderTypeOK, Times, Loads(OnDisk)
    PROVE  \A f \in Files : disk[f].mtime # 0
<1>1. OnDisk["cert"] \in Pems /\ OnDisk["key"] \in Pems
  BY ReloaderAssumption DEF Loads
<1>2. OnDisk["cert"] = disk["cert"].content /\ OnDisk["key"] = disk["key"].content
  BY DEF OnDisk, Files
<1> QED BY <1>1, <1>2, ReloaderAssumption DEF Times, Files

(* A pair that is vouched for by the stamp of the disk is on disk. *)
LEMMA VouchedIsOnDisk ==
    ASSUME ReloaderTypeOK, Times, Loads(OnDisk), NEW pair \in Pairs, NEW stamp \in Stamps,
           \A f \in Files : Vouches(f, stamp[f], pair[f]),
           \A f \in Files : stamp[f] = disk[f].mtime
    PROVE  pair = OnDisk
<1>1. \A f \in Files : disk[f].mtime # 0
  BY LoadableHasTimes
<1>2. \A f \in Files : pair[f] = disk[f].content
  BY <1>1 DEF Vouches
<1> QED BY <1>2 DEF OnDisk, Pairs

(* A write by the renewal. *)
LEMMA WriteStep ==
    ASSUME ~StartupWrites, ReloaderInv,
           NEW f \in Files, NEW c \in Pems \union {Broken}, NEW missing \in BOOLEAN,
           WriteFile(f, c, missing)
    PROVE  ReloaderInv'
<1> USE DEF ReloaderInv
<1>0. startup = "running" /\ UNCHANGED <<startup, current, hs>> /\ clock' = clock + 1
  BY DEF WriteFile
<1>1. ReloaderTypeOK'
  BY DEF WriteFile, ReloaderTypeOK
<1>2. Times'
  BY DEF WriteFile, Times, ReloaderTypeOK
<1>3. ASSUME NEW g \in Files, NEW mtime \in Nat, NEW content, mtime <= clock,
             Vouches(g, mtime, content)
      PROVE  Vouches(g, mtime, content)'
  BY <1>3 DEF WriteFile, Vouches, ReloaderTypeOK
<1>4. Recorded'
  <2>1. \A g \in Files : current.stamp[g] \in Nat
    BY DEF ReloaderTypeOK, Stamps
  <2> QED BY <1>0, <1>3, <2>1 DEF Recorded, Loads, ReloaderTypeOK
<1>5. ASSUME NEW h \in Handshakes PROVE HandshakeOK(hs[h])'
  <2>1. \A g \in Files : hs[h].stamp[g] \in Nat
    BY DEF ReloaderTypeOK, Stamps
  <2>2. hs[h].began \in Nat /\ clock \in Nat
    BY DEF ReloaderTypeOK
  <2>3. HandshakeOK(hs[h]) /\ hs'[h] = hs[h] /\ hs[h].began # clock'
    BY <1>0, <2>2 DEF HandshakeOK
  <2> QED BY <1>0, <1>3, <2>1, <2>2, <2>3 DEF HandshakeOK, Loads, Files
<1> QED BY <1>1, <1>2, <1>4, <1>5

(* A step of the server's start. *)
LEMMA StartStep ==
    ASSUME ReloaderInv, LoadCert \/ LoadKey \/ \E f \in Files : StampAtStart(f)
    PROVE  ReloaderInv'
<1> USE DEF ReloaderInv
<1>0. startup # "running" /\ UNCHANGED <<disk, clock, hs>>
  BY DEF LoadCert, LoadKey, StampAtStart, Files
<1>1. ReloaderTypeOK'
  <2>1. CASE LoadCert
    BY <2>1 DEF LoadCert, ReloaderTypeOK, Pairs, Files
  <2>2. CASE LoadKey
    BY <2>2 DEF LoadKey, ReloaderTypeOK, Pairs, Files
  <2>3. ASSUME NEW f \in Files, StampAtStart(f) PROVE ReloaderTypeOK'
    BY <2>3 DEF StampAtStart, ReloaderTypeOK, Stamps, Files
  <2> QED BY <2>1, <2>2, <2>3
<1>2. Times'
  BY <1>0 DEF Times
<1>3. Recorded'
  <2>1. CASE LoadCert
    BY <2>1 DEF LoadCert, Recorded, ReloaderTypeOK, Pairs, Files, Loads
  <2>2. CASE LoadKey
    BY <2>2 DEF LoadKey, Recorded, ReloaderTypeOK, Pairs, Files, Loads
  <2>3. CASE StampAtStart("cert")
    BY <2>3 DEF StampAtStart, Recorded, ReloaderTypeOK, Pairs, Stamps, Files, Loads, Times
  <2>4. CASE StampAtStart("key")
    <3>1. current.pair["cert"] = disk["cert"].content /\ current.pair["key"] = disk["key"].content
      BY <2>4 DEF StampAtStart, Recorded
    <3> QED BY <2>4, <3>1 DEF StampAtStart, Recorded, ReloaderTypeOK, Stamps, Files, Loads, Vouches, Times
  <2> QED BY <2>1, <2>2, <2>3, <2>4 DEF Files
<1>4. ASSUME NEW h \in Handshakes PROVE HandshakeOK(hs[h])'
  <2>1. HandshakeOK(hs[h]) /\ hs[h].pc = "idle" /\ hs'[h] = hs[h]
    BY <1>0 DEF HandshakeOK
  <2> QED BY <1>0, <2>1 DEF HandshakeOK
<1> QED BY <1>1, <1>2, <1>3, <1>4

(* The shape of a handshake, as in ReloaderTypeOK. *)
HandshakeRecord ==
    [pc : {"idle", "stampCert", "stampKey", "compare", "readCert",
           "readKey", "replace", "keep", "served", "warned"},
     stamp : Stamps, pair : Pairs, served : Pairs, began : Nat]

(* A step of one handshake leaves the others and the disk alone. *)
LEMMA OneHandshakeMoves ==
    ASSUME ReloaderInv, NEW h \in Handshakes, NEW r \in HandshakeRecord, Move(h, r),
           current' \in [pair : Pairs, stamp : Stamps], Recorded', HandshakeOK(r)
    PROVE  ReloaderInv'
<1> USE DEF ReloaderInv
<1>0. hs' = [hs EXCEPT ![h] = r] /\ UNCHANGED <<disk, clock, startup>>
  BY DEF Move
<1>1. ReloaderTypeOK'
  BY <1>0 DEF ReloaderTypeOK, HandshakeRecord
<1>2. Times'
  BY <1>0 DEF Times
<1>3. ASSUME NEW g \in Handshakes PROVE HandshakeOK(hs[g])'
  <2>1. HandshakeOK(hs'[g])
    BY <1>0 DEF ReloaderTypeOK
  <2> QED BY <1>0, <2>1 DEF HandshakeOK, Vouches, Loads, OnDisk
<1> QED BY <1>1, <1>2, <1>3

(* A step that leaves the recorded acceptor leaves what is known of it. *)
LEMMA RecordedStays ==
    ASSUME ReloaderInv, UNCHANGED <<disk, clock, startup, current>>
    PROVE  Recorded' /\ current' \in [pair : Pairs, stamp : Stamps]
BY DEF ReloaderInv, ReloaderTypeOK, Recorded, Vouches, Loads

(* A handshake begins: its stamp is empty. *)
LEMMA AcceptStep == ASSUME ReloaderInv, NEW h \in Handshakes, Accept(h) PROVE ReloaderInv'
<1> DEFINE r == [pc |-> "stampCert", stamp |-> NoStamp, pair |-> NoPair,
                 served |-> NoPair, began |-> clock]
<1>1. Move(h, r) /\ UNCHANGED <<disk, clock, startup, current>> /\ startup = "running"
  BY DEF Accept, Move
<1>2. r \in HandshakeRecord
  BY DEF HandshakeRecord, ReloaderInv, ReloaderTypeOK, Stamps, Pairs, NoStamp, NoPair
<1>3. HandshakeOK(r)
  BY <1>1 DEF HandshakeOK, NoStamp, ReloaderInv, ReloaderTypeOK
<1> HIDE DEF r
<1> QED BY <1>1, <1>2, <1>3, RecordedStays, OneHandshakeMoves

(* It states a file: the stamp is of this moment. *)
LEMMA StampStep ==
    ASSUME ReloaderInv, NEW h \in Handshakes, NEW f \in Files, Stamp(h, f) PROVE ReloaderInv'
<1> DEFINE r == [hs[h] EXCEPT !.pc = IF f = "cert" THEN "stampKey" ELSE "compare",
                              !.stamp[f] = disk[f].mtime]
<1>0. hs[h] \in HandshakeRecord /\ HandshakeOK(hs[h])
  BY DEF ReloaderInv, ReloaderTypeOK, HandshakeRecord
<1>1. Move(h, r) /\ UNCHANGED <<disk, clock, startup, current>>
  BY DEF Stamp, Move
<1>2. r \in HandshakeRecord
  BY <1>0 DEF HandshakeRecord, ReloaderInv, ReloaderTypeOK, Stamps
<1>3. HandshakeOK(r)
  BY <1>0 DEF Stamp, HandshakeOK, ReloaderInv, ReloaderTypeOK, Times, Files, HandshakeRecord, Stamps
<1> HIDE DEF r
<1> QED BY <1>1, <1>2, <1>3, RecordedStays, OneHandshakeMoves

(* It compares: if it serves at once, the recorded stamp is its own.       *)
LEMMA CompareStep == ASSUME ReloaderInv, NEW h \in Handshakes, Compare(h) PROVE ReloaderInv'
<1> DEFINE r == IF current.stamp = hs[h].stamp
                THEN [hs[h] EXCEPT !.pc = "served", !.served = current.pair]
                ELSE [hs[h] EXCEPT !.pc = "readCert"]
<1>0. hs[h] \in HandshakeRecord /\ HandshakeOK(hs[h]) /\ hs[h].pc = "compare"
  BY DEF ReloaderInv, ReloaderTypeOK, HandshakeRecord, Compare
<1>1. Move(h, r) /\ UNCHANGED <<disk, clock, startup, current>>
  BY DEF Compare, Move
<1>2. r \in HandshakeRecord
  BY <1>0 DEF HandshakeRecord, ReloaderInv, ReloaderTypeOK
<1>3. HandshakeOK(r)
  <2>1. CASE current.stamp # hs[h].stamp
    BY <1>0, <2>1 DEF HandshakeOK, HandshakeRecord
  <2>2. CASE current.stamp = hs[h].stamp
    <3>1. startup = "running" /\ Loads(current.pair)
      BY <1>0 DEF HandshakeOK, ReloaderInv, Recorded
    <3>2. hs[h].began = clock /\ Loads(OnDisk) => current.pair = OnDisk
      <4> SUFFICES ASSUME hs[h].began = clock, Loads(OnDisk) PROVE current.pair = OnDisk
        OBVIOUS
      <4>1. \A f \in Files : current.stamp[f] = disk[f].mtime
        BY <1>0, <2>2 DEF HandshakeOK, Files
      <4>2. \A f \in Files : Vouches(f, current.stamp[f], current.pair[f])
        BY <3>1 DEF ReloaderInv, Recorded
      <4>3. current.pair \in Pairs /\ current.stamp \in Stamps
        BY DEF ReloaderInv, ReloaderTypeOK
      <4> QED BY <4>1, <4>2, <4>3, VouchedIsOnDisk DEF ReloaderInv
    <3> QED BY <1>0, <2>2, <3>1, <3>2 DEF HandshakeOK, HandshakeRecord
  <2> QED BY <2>1, <2>2
<1> HIDE DEF r
<1> QED BY <1>1, <1>2, <1>3, RecordedStays, OneHandshakeMoves

(* It reads the certificate, the key, or fails to. *)
LEMMA ReadStep ==
    ASSUME ReloaderInv, NEW h \in Handshakes, ReadCert(h) \/ ReadKey(h) \/ ReadFails(h)
    PROVE  ReloaderInv'
<1>0. hs[h] \in HandshakeRecord /\ HandshakeOK(hs[h]) /\ \A f \in Files : disk[f].content \in Pems \union {Broken}
  BY DEF ReloaderInv, ReloaderTypeOK, HandshakeRecord
<1>1. CASE ReadCert(h)
  <2> DEFINE r == [hs[h] EXCEPT !.pc = "readKey", !.pair["cert"] = disk["cert"].content]
  <2>1. Move(h, r) /\ UNCHANGED <<disk, clock, startup, current>>
    BY <1>1 DEF ReadCert, Move
  <2>2. r \in HandshakeRecord
    BY <1>0 DEF HandshakeRecord, Pairs, Files
  <2>3. HandshakeOK(r)
    BY <1>0, <1>1 DEF ReadCert, HandshakeOK, HandshakeRecord, Pairs, Files, Vouches
  <2> HIDE DEF r
  <2> QED BY <2>1, <2>2, <2>3, RecordedStays, OneHandshakeMoves
<1>2. CASE ReadKey(h)
  <2> DEFINE pair == [hs[h].pair EXCEPT !["key"] = disk["key"].content]
             r == [hs[h] EXCEPT !.pc = IF Loads(pair) THEN "replace" ELSE "keep", !.pair = pair]
  <2>1. Move(h, r) /\ UNCHANGED <<disk, clock, startup, current>>
    BY <1>2 DEF ReadKey, Move
  <2>2. pair \in Pairs /\ pair["cert"] = hs[h].pair["cert"] /\ pair["key"] = disk["key"].content
    BY <1>0 DEF HandshakeRecord, Pairs, Files
  <2> HIDE DEF pair
  <2>3. r \in HandshakeRecord
    BY <1>0, <2>2 DEF HandshakeRecord
  <2>4. HandshakeOK(r)
    BY <1>0, <1>2, <2>2 DEF ReadKey, HandshakeOK, HandshakeRecord, Files, Vouches
  <2> HIDE DEF r
  <2> QED BY <2>1, <2>3, <2>4, RecordedStays, OneHandshakeMoves
<1>3. CASE ReadFails(h)
  <2> DEFINE r == [hs[h] EXCEPT !.pc = "keep"]
  <2>1. Move(h, r) /\ UNCHANGED <<disk, clock, startup, current>>
    BY <1>3 DEF ReadFails, Move
  <2>2. r \in HandshakeRecord /\ HandshakeOK(r)
    BY <1>0, <1>3 DEF ReadFails, HandshakeOK, HandshakeRecord
  <2> HIDE DEF r
  <2> QED BY <2>1, <2>2, RecordedStays, OneHandshakeMoves
<1> QED BY <1>1, <1>2, <1>3

(* It records what it has loaded, with the stamp that vouches for it. *)
LEMMA ReplaceStep == ASSUME ReloaderInv, NEW h \in Handshakes, Replace(h) PROVE ReloaderInv'
<1> DEFINE r == [hs[h] EXCEPT !.pc = "served", !.served = hs[h].pair]
<1>0. hs[h] \in HandshakeRecord /\ HandshakeOK(hs[h]) /\ hs[h].pc = "replace"
  BY DEF ReloaderInv, ReloaderTypeOK, HandshakeRecord, Replace
<1>1. /\ Move(h, r) /\ UNCHANGED <<disk, clock, startup>>
      /\ current' = [pair |-> hs[h].pair, stamp |-> hs[h].stamp]
  BY DEF Replace, Move
<1>2. \A f \in Files : Vouches(f, hs[h].stamp[f], hs[h].pair[f])
  BY <1>0 DEF HandshakeOK, Files
<1>3. Recorded' /\ current' \in [pair : Pairs, stamp : Stamps]
  BY <1>0, <1>1, <1>2 DEF Recorded, HandshakeOK, HandshakeRecord, Vouches, Loads
<1>4. r \in HandshakeRecord
  BY <1>0 DEF HandshakeRecord
<1>5. HandshakeOK(r)
  <2>1. hs[h].began = clock /\ Loads(OnDisk) => hs[h].pair = OnDisk
    <3> SUFFICES ASSUME hs[h].began = clock, Loads(OnDisk) PROVE hs[h].pair = OnDisk
      OBVIOUS
    <3>1. \A f \in Files : hs[h].stamp[f] = disk[f].mtime
      BY <1>0 DEF HandshakeOK, Files
    <3>2. hs[h].pair \in Pairs /\ hs[h].stamp \in Stamps
      BY <1>0 DEF HandshakeRecord
    <3> QED BY <1>2, <3>1, <3>2, VouchedIsOnDisk DEF ReloaderInv
  <2> QED BY <1>0, <2>1 DEF HandshakeOK, HandshakeRecord
<1> HIDE DEF r
<1> QED BY <1>1, <1>3, <1>4, <1>5, OneHandshakeMoves

(* It keeps the acceptor that is recorded. *)
LEMMA KeepStep == ASSUME ReloaderInv, NEW h \in Handshakes, Keep(h) PROVE ReloaderInv'
<1> DEFINE r == [hs[h] EXCEPT !.pc = "warned", !.served = current.pair]
<1>0. hs[h] \in HandshakeRecord /\ HandshakeOK(hs[h]) /\ hs[h].pc = "keep"
  BY DEF ReloaderInv, ReloaderTypeOK, HandshakeRecord, Keep
<1>1. Move(h, r) /\ UNCHANGED <<disk, clock, startup, current>>
  BY DEF Keep, Move
<1>2. current.pair \in Pairs /\ Loads(current.pair)
  BY <1>0 DEF HandshakeOK, ReloaderInv, Recorded, ReloaderTypeOK
<1>3. r \in HandshakeRecord /\ HandshakeOK(r)
  BY <1>0, <1>2 DEF HandshakeOK, HandshakeRecord
<1> HIDE DEF r
<1> QED BY <1>1, <1>3, RecordedStays, OneHandshakeMoves

(* Every step preserves the invariant, if the server starts undisturbed. *)
LEMMA NextPreserves == ASSUME ~StartupWrites, ReloaderInv, [ReloaderNext]_tlsVars PROVE ReloaderInv'
<1>1. CASE UNCHANGED tlsVars
  <2>1. Recorded' /\ ReloaderTypeOK' /\ Times'
    BY <1>1 DEF tlsVars, ReloaderInv, ReloaderTypeOK, Times, Recorded, Vouches, Loads
  <2>2. \A h \in Handshakes : HandshakeOK(hs[h])'
    BY <1>1 DEF tlsVars, ReloaderInv, HandshakeOK, Vouches, Loads, OnDisk
  <2> QED BY <2>1, <2>2 DEF ReloaderInv
<1>2. CASE ReloaderNext
  BY <1>2, WriteStep, StartStep, AcceptStep, StampStep, CompareStep, ReadStep,
     ReplaceStep, KeepStep DEF ReloaderNext
<1> QED BY <1>1, <1>2

(* TlsReloader: the stamp recorded with the acceptor vouches for it, as    *)
(* long as no renewal lands between loading and stating at the start.      *)
THEOREM RecordedStampVouches == ASSUME ~StartupWrites PROVE ReloaderSpec => []RecordedIsLoaded
<1>1. ReloaderInv => RecordedIsLoaded
  BY DEF ReloaderInv, Recorded, RecordedIsLoaded, Vouches
<1>2. ReloaderInv /\ [ReloaderNext]_tlsVars => ReloaderInv'
  BY NextPreserves
<1> QED BY <1>1, <1>2, InitEstablishes, PTL DEF ReloaderSpec

(* TlsReloader::acceptor: a handshake during which nothing is written and  *)
(* which logs nothing serves the loadable pair on disk.                    *)
THEOREM RenewalIsServed == ASSUME ~StartupWrites PROVE ReloaderSpec => []CurrentIsServed
<1>1. ReloaderInv => CurrentIsServed
  BY DEF ReloaderInv, HandshakeOK, CurrentIsServed
<1>2. ReloaderInv /\ [ReloaderNext]_tlsVars => ReloaderInv'
  BY NextPreserves
<1> QED BY <1>1, <1>2, InitEstablishes, PTL DEF ReloaderSpec

(* TlsReloader::acceptor: every handshake gets a certificate with its key. *)
THEOREM HandshakesGetPairs == ASSUME ~StartupWrites PROVE ReloaderSpec => []PairMatches
<1>1. ReloaderInv => PairMatches
  BY DEF ReloaderInv, HandshakeOK, PairMatches
<1>2. ReloaderInv /\ [ReloaderNext]_tlsVars => ReloaderInv'
  BY NextPreserves
<1> QED BY <1>1, <1>2, InitEstablishes, PTL DEF ReloaderSpec
=============================================================================
