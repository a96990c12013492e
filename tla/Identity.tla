------------------------------ MODULE Identity -------------------------------
(***************************************************************************)
(* Accounts together with the ways to sign in that an identity provider    *)
(* vouches for: the social providers (sso.rs), the instance's OIDC         *)
(* provider (oidc.rs) and its SAML provider (saml.rs).  Each starts with a *)
(* one-time ticket, redeems it when the browser comes back, finds, links   *)
(* or creates the account, and issues a session.                           *)
(***************************************************************************)
EXTENDS Accounts, TLC

CONSTANTS Provider,       \* a configured social provider
          People,         \* who may come back: [subject, email, ok]
          Allowed,        \* the addresses in allowed_email_domains
          Responses,      \* SAML responses: see ValidateResponse
          AutoProvision   \* auto_provision of the three

ASSUME IdentityAssumption ==
  /\ \A w \in People : w.email \in Users
  /\ \A x \in Responses : x.email \in Users

----------------------------------------------------------------------------
(* The checks of a SAML response, each of which refuses it. *)
ValidateResponse(x) ==
  /\ x.destination /\ x.success /\ ~x.encrypted
  /\ x.assertions = 1
  /\ x.signed \in {"assertion", "response"}
  /\ x.begun /\ x.age # "expired"
  /\ x.audience /\ x.bearer

(* The checks of an ID token: signature, issuer, audience, and the nonce   *)
(* of the state it came back with.                                         *)
ValidateIdToken(w) == w.ok
ValidateSocialToken(w) == w.ok

----------------------------------------------------------------------------
SsoStart  == Once("social") /\ db' = CreateOidcState(db, Ticket("social", count + 1, NoUser))
OidcStart == Once("oidc") /\ db' = CreateOidcState(db, Ticket("oidc", count + 1, NoUser))
SamlStart == Once("saml") /\ db' = CreateSamlRequest(db, Ticket("saml", count + 1, NoUser))

(* Back from the provider: the state is redeemed before the code is        *)
(* exchanged, and the token must carry its nonce.                          *)
Back(op, w) == [Blank EXCEPT !.op = op, !.pc = "resolve", !.how = op,
                             !.who.subject = w.subject, !.who.email = w.email]

SsoCallback(p) ==
  \E t \in {x \in db.tickets : x.kind = "social"}, w \in People :
    Redeem(p, t, ConsumeOidcState(db, t),
           IF ValidateSocialToken(w) THEN Back("social", w)
           ELSE [Blank EXCEPT !.op = "social", !.pc = "late"])

OidcCallback(p) ==
  \E t \in {x \in db.tickets : x.kind = "oidc"}, w \in People :
    Redeem(p, t, ConsumeOidcState(db, t),
           IF ValidateIdToken(w) THEN Back("oidc", w)
           ELSE [Blank EXCEPT !.op = "oidc", !.pc = "late"])

(* A valid response answers one request; the assertion, whose id is the    *)
(* provider's, is remembered and refused the next time.                    *)
SamlAcs(p) ==
  \/ \E t \in {x \in db.tickets : x.kind = "saml"}, x \in Responses :
       /\ ValidateResponse(x)
       /\ Redeem(p, t, ConsumeSamlRequest(db, t),
                 [Blank EXCEPT !.op = "saml", !.pc = "assertion", !.how = "saml",
                               !.who = [Nobody EXCEPT !.email = x.email, !.id = x.id, !.age = x.age]])
  \/ LET x   == req[p].who
         old == IF x.age = "grace" THEN {x.id} ELSE {}
     IN  /\ At(p, "saml", "assertion")
         /\ IF AssertionKnown(db, x.id, old) THEN db' = db /\ Answer(p)
            ELSE db' = RegisterSamlAssertion(db, x.id, old) /\ Goto(p, "resolve")
         /\ Quiet /\ UNCHANGED ghosts

(* Going on as the account u.                                              *)
As(p, u, pc) == req' = [req EXCEPT ![p].user = u, ![p].gen = db.account[u].gen,
                                   ![p].seen = db.account[u], ![p].pc = pc]

(* The account that holds the subject, else the one that holds the         *)
(* address, else a new one.                                                *)
ResolveSocial(p) ==
  LET w      == req[p].who
      linked == UserBySsoIdentity(db, Provider, w.subject)
  IN  /\ At(p, "social", "resolve")
      /\ \/ \E u \in linked : As(p, u, "issue")
         \/ linked = {} /\ w.email \notin Allowed /\ Answer(p)
         \/ linked = {} /\ w.email \in Allowed /\ db.account[w.email].present /\ As(p, w.email, "link")
         \/ /\ linked = {} /\ w.email \in Allowed /\ ~db.account[w.email].present
            /\ IF AutoProvision THEN Goto(p, "create") ELSE Answer(p)
      /\ db' = db /\ Quiet /\ UNCHANGED ghosts

(* As above; a deactivated account is refused. *)
ResolveOidc(p) ==
  LET w      == req[p].who
      linked == UserByOidcSub(db, w.subject)
      Enabled(u, pc) == IF db.account[u].disabled THEN Answer(p) ELSE As(p, u, pc)
  IN  /\ At(p, "oidc", "resolve")
      /\ \/ \E u \in linked : Enabled(u, "issue")
         \/ linked = {} /\ w.email \notin Allowed /\ Answer(p)
         \/ linked = {} /\ w.email \in Allowed /\ db.account[w.email].present /\ Enabled(w.email, "link")
         \/ /\ linked = {} /\ w.email \in Allowed /\ ~db.account[w.email].present
            /\ IF AutoProvision THEN Goto(p, "create") ELSE Answer(p)
      /\ db' = db /\ Quiet /\ UNCHANGED ghosts

(* SAML knows an account by its address alone. *)
ResolveSaml(p) ==
  LET u == req[p].who.email IN
  /\ At(p, "saml", "resolve")
  /\ IF u \notin Allowed THEN Answer(p)
     ELSE IF db.account[u].present
     THEN IF db.account[u].disabled THEN Answer(p) ELSE As(p, u, "issue")
     ELSE IF AutoProvision THEN Goto(p, "create") ELSE Answer(p)
  /\ db' = db /\ Quiet /\ UNCHANGED ghosts

(* create_user, which conflicts when somebody was faster. *)
Provision(p) ==
  LET u == req[p].who.email IN
  /\ req[p].pc = "create"
  /\ IF db.account[u].present
     THEN db' = db /\ Answer(p)
     ELSE /\ db' = CreateUser(db, u, FALSE)
          /\ req' = [req EXCEPT ![p].user = u, ![p].gen = db.account[u].gen + 1,
                                ![p].seen = NewAccount(db.account[u].gen + 1, FALSE),
                                ![p].pc = "announce"]
  /\ Quiet /\ UNCHANGED ghosts

(* link_sso_identity or set_oidc_sub; a subject another account holds is a *)
(* conflict.  A new account gets its workspace after it.                   *)
Link(p) ==
  LET r == req[p]
      free == IF r.op = "social" THEN LinkFree(db, r.user, Provider, r.who.subject)
              ELSE OidcSubFree(db, r.user, r.who.subject)
      d == IF r.op = "social" THEN LinkSsoIdentity(db, r.user, Provider, r.who.subject)
           ELSE SetOidcSub(db, r.user, r.who.subject)
  IN  /\ r.pc \in {"link", "linknew"}
      /\ IF free THEN Statement(p, d, IF r.pc = "linknew" THEN "boot" ELSE "issue")
         ELSE db' = db /\ Answer(p) /\ Quiet
      /\ UNCHANGED ghosts

----------------------------------------------------------------------------
Next ==
  /\ \/ \E p \in Procs :
          \/ Statements(p) \/ Handlers(p)
          \/ SsoCallback(p) \/ OidcCallback(p) \/ SamlAcs(p)
          \/ ResolveSocial(p) \/ ResolveOidc(p) \/ ResolveSaml(p)
          \/ Provision(p) \/ Link(p)
     \/ SsoStart \/ OidcStart \/ SamlStart
     \/ Clock
  /\ UNCHANGED scene

Spec == Init /\ [][Next]_vars

----------------------------------------------------------------------------
(* A one-time ticket (reset link, login state, SAML request, passkey       *)
(* challenge) serves one request, however often it is presented at once.   *)
OneTimeUsedOnce == \A a, b \in spent : a[1] = b[1] => a = b

Revoking(u) ==
  \E p \in Procs : req[p].pc = "revoke" /\ req[p].user = u /\ req[p].gen = db.account[u].gen

(* A new password signs out whoever signed in with an older one, and a     *)
(* deactivated account has no session.  The only sessions that survive are *)
(* those whose sign-in was under way when the password or the flag was     *)
(* written, those whose deletion failed (change_password and               *)
(* password_reset_complete ignore the failure), those that were there when *)
(* a new account got its first password (register deletes none), and for a *)
(* deactivation those of the two handlers that do not read the flag:       *)
(* passkeys and social providers.                                          *)
SignedOutStaysOut ==
  \A s \in {x \in db.sessions : ~x.raced /\ ~x.kept /\ ~Revoking(x.user)} :
    /\ s.how = "password" => s.pw = db.account[s.user].pw
    /\ db.account[s.user].disabled => s.how \in {"passkey", "social"}

(* At most max_login_attempts wrong guesses get through before the account *)
(* is locked, unless sign-ins overlapped and one wrote over the counter of *)
(* the other.  A guess whose counter could not be written is not counted   *)
(* (login ignores the failure).                                            *)
LockoutHolds ==
  \A u \in Users : guesses[u] > MaxAttempts => stale[u]

(* A second factor is only ever turned on with a secret whose code its     *)
(* owner has typed: an enrolment that overlaps the activation cannot put   *)
(* another secret in force.                                                *)
ProvenSecret ==
  [][\A u \in Users :
       LET a == db.account[u]  b == db'.account[u] IN
       b.totp /\ ~(a.totp /\ a.secret = b.secret) =>
         \E p \in Procs : req[p].op = "activate" /\ req[p].x = b.secret]_vars
=============================================================================
