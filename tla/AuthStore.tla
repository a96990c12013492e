------------------------------ MODULE AuthStore ------------------------------
(***************************************************************************)
(* The account tables (camelmailer-db/src/auth_pg.rs): users, user_auth,   *)
(* auth_sessions, webauthn_credentials, sso_identities and the tables of   *)
(* one-time tickets (password_resets, oidc_states, saml_requests,          *)
(* webauthn_states).  Every operator is one SQL statement: it takes the    *)
(* tables and returns the tables after the statement.                      *)
(*                                                                         *)
(* An address stands for the user row that holds it; "gen" tells a row     *)
(* from an earlier, deleted one with the same address, as the id does.     *)
(***************************************************************************)
EXTENDS Naturals, FiniteSets

CONSTANTS Users,        \* addresses
          NoPassword    \* password_digest IS NULL

(* A user row and its user_auth row.  "secret" 0 is totp_secret IS NULL;   *)
(* "locked" is locked_until > now.                                         *)
NewAccount(gen, admin) ==
  [present |-> TRUE, gen |-> gen, admin |-> admin, pw |-> NoPassword,
   secret |-> 0, totp |-> FALSE, fails |-> 0, locked |-> FALSE,
   disabled |-> FALSE, sub |-> 0]

Absent(gen) == [NewAccount(gen, FALSE) EXCEPT !.present = FALSE]

(* The row r was read from is still there: the id matches. *)
Holds(d, u, gen) == d.account[u].present /\ d.account[u].gen = gen

CreateUser(d, u, admin) ==
  [d EXCEPT !.account[u] = NewAccount(@.gen + 1, admin)]

(* UPDATE users SET ... admin = $5: the whole row, as it was read. *)
UpdateUser(d, u, admin) == [d EXCEPT !.account[u].admin = admin]

(* The foreign keys take everything of the user with the row. *)
DeleteUser(d, u) ==
  [d EXCEPT !.account[u] = Absent(@.gen),
            !.sessions = {s \in @ : s.user # u},
            !.tickets  = {t \in @ : t.user # u},
            !.passkeys = {k \in @ : k.user # u},
            !.links    = {l \in @ : l.user # u}]

SetPasswordDigest(d, u, pw) == [d EXCEPT !.account[u].pw = pw]

(* Mutant: the secret is only written while the factor is off. *)
SetTotpFlagOnly(d, u, secret, enabled) ==
  [d EXCEPT !.account[u].secret = IF enabled THEN @ ELSE secret, !.account[u].totp = enabled]

SetTotp(d, u, secret, enabled) ==
  [d EXCEPT !.account[u].secret = secret, !.account[u].totp = enabled]

SetLoginState(d, u, fails, locked) ==
  [d EXCEPT !.account[u].fails = fails, !.account[u].locked = locked]

SetUserDisabled(d, u, disabled) == [d EXCEPT !.account[u].disabled = disabled]

CreateSession(d, s) == [d EXCEPT !.sessions = @ \union {s}]

(* session_with_user and the test on expires_at. *)
SessionWithUser(d, id) == {s \in d.sessions : s.id = id /\ s.live}

(* Sessions slide; the row may be gone. *)
TouchSession(d, id) ==
  [d EXCEPT !.sessions = {IF s.id = id THEN [s EXCEPT !.live = TRUE] ELSE s : s \in @}]

DeleteSession(d, id) == [d EXCEPT !.sessions = {s \in @ : s.id # id}]

\* by the id: a later account with the same address keeps its sessions
DeleteSessionsForUser(d, u, gen) ==
  [d EXCEPT !.sessions = {s \in @ : Holds(d, u, gen) => s.user # u}]

CreatePasswordReset(d, t) == [d EXCEPT !.tickets = @ \union {t}]
CreateOidcState(d, t)     == [d EXCEPT !.tickets = @ \union {t}]
CreateSamlRequest(d, t)   == [d EXCEPT !.tickets = @ \union {t}]
CreateWebauthnState(d, t) == [d EXCEPT !.tickets = @ \union {t}]

(* Mutant: SELECT instead of DELETE ... RETURNING. *)
ReadTicket(d, t) == d

(* DELETE ... RETURNING: whoever deletes the row has it, expired or not.   *)
ConsumePasswordReset(d, t) == [d EXCEPT !.tickets = @ \ {t}]
ConsumeOidcState(d, t)     == [d EXCEPT !.tickets = @ \ {t}]
ConsumeSamlRequest(d, t)   == [d EXCEPT !.tickets = @ \ {t}]
ConsumeWebauthnState(d, t) == [d EXCEPT !.tickets = @ \ {t}]

(* The replay cache forgets what is past its NotOnOrAfter, then remembers  *)
(* the assertion; FALSE when it was there.                                 *)
RegisterSamlAssertion(d, a, old) ==
  [d EXCEPT !.asserted = (@ \ old) \union {a}]
AssertionKnown(d, a, old) == a \in d.asserted \ old

AddWebauthnCredential(d, k) == [d EXCEPT !.passkeys = @ \union {k}]

DeleteWebauthnCredential(d, u, id) ==
  [d EXCEPT !.passkeys = {k \in @ : ~(k.id = id /\ k.user = u)}]

WebauthnCredentialById(d, id) == {k \in d.passkeys : k.id = id}

UserByOidcSub(d, sub) == {u \in Users : d.account[u].present /\ d.account[u].sub = sub}

(* The column is UNIQUE: a subject another account holds is a conflict.    *)
SetOidcSub(d, u, sub) == [d EXCEPT !.account[u].sub = sub]
OidcSubFree(d, u, sub) == UserByOidcSub(d, sub) \subseteq {u}

UserBySsoIdentity(d, provider, subject) ==
  {l.user : l \in {x \in d.links : x.provider = provider /\ x.subject = subject}}

(* Re-linking replaces the account's subject; a subject of another account *)
(* trips the primary key.                                                  *)
LinkSsoIdentity(d, u, provider, subject) ==
  [d EXCEPT !.links = {l \in @ : ~(l.user = u /\ l.provider = provider)}
                        \union {[provider |-> provider, subject |-> subject, user |-> u]}]
LinkFree(d, u, provider, subject) == UserBySsoIdentity(d, provider, subject) \subseteq {u}

(* enqueue_lifecycle_event for user.registered. *)
EnqueueRegistered(d, u) ==
  [d EXCEPT !.events = @ \union {<<u, d.account[u].gen>>}]
=============================================================================
