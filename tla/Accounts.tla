------------------------------ MODULE Accounts -------------------------------
(***************************************************************************)
(* Accounts, sessions, second factors and their requests                   *)
(* (camelmailer-api: auth_api.rs, webauthn.rs, scim.rs, the user endpoints *)
(* of resources.rs).  A request is a process that runs one SQL statement   *)
(* per step over the tables of AuthStore; requests interleave freely, and  *)
(* a request may end after any statement (a failing statement, a client    *)
(* that hangs up).                                                         *)
(*                                                                         *)
(* A request that is refused by what it reads first changes nothing and is *)
(* not modelled: its tests are the guards of the first action.             *)
(***************************************************************************)
EXTENDS AuthStore

CONSTANTS Procs,         \* requests that may be in flight at once
          Passwords,     \* what is typed where a password is asked for
          NewPasswords,  \* what is chosen as a new one
          Scenes,        \* set-ups: the accounts at first, and the requests clients make
          MaxAttempts,   \* auth.max_login_attempts
          MaxRequests,   \* bound: requests
          MaxMishaps     \* bound: failing statements, lost clients and expiries

VARIABLES scene,     \* the set-up of this behaviour
          db,        \* the tables
          req,       \* what each request in flight has read
          count,     \* requests so far
          faults,
          timers,
          spent,     \* <<ticket, request>> for every redeemed ticket
          guesses,   \* wrong guesses since the lock or the counter was cleared
          stale      \* a login state was written over one that was never read

vars == <<scene, db, req, count, faults, timers, spent, guesses, stale>>
ghosts == <<spent, guesses, stale>>

NoUser == "nobody"
Nobody == [subject |-> 0, email |-> NoUser, id |-> 0, age |-> "fresh"]
Blank == [op |-> "idle", pc |-> "idle", n |-> 0, user |-> NoUser, gen |-> 0,
          seen |-> Absent(0), pw |-> NoPassword, x |-> 0, who |-> Nobody, how |-> "none", raced |-> FALSE]

(* A set-up has rows of the tables, sessions of accounts that are there,   *)
(* and nobody past the limit.                                              *)
Digests == Passwords \union NewPasswords \union {NoPassword}
AccountRows ==
  [present : BOOLEAN, gen : Nat, admin : BOOLEAN, pw : Digests, secret : Nat, totp : BOOLEAN,
   fails : Nat, locked : BOOLEAN, disabled : BOOLEAN, sub : Nat]
SessionRows ==
  [id : Nat, user : Users, how : STRING, pw : Digests, raced : {FALSE}, kept : {FALSE}, live : BOOLEAN]

ASSUME AccountsAssumption ==
  /\ NoUser \notin Users
  /\ MaxAttempts \in Nat \ {0}
  /\ \A s \in Scenes :
       /\ s.account \in [Users -> AccountRows]
       /\ s.sessions \subseteq SessionRows
       /\ \A u \in Users :
            /\ s.account[u].fails <= MaxAttempts
            /\ ~s.account[u].locked => s.account[u].fails < MaxAttempts
            /\ ~s.account[u].present => s.account[u].fails = 0
       /\ \A x \in s.sessions :
            /\ s.account[x.user].present
            /\ x.how = "password" => x.pw = s.account[x.user].pw
            /\ s.account[x.user].disabled => x.how \in {"passkey", "social"}

Ticket(kind, n, u) == [kind |-> kind, id |-> n, user |-> u, fresh |-> TRUE]

Init ==
  /\ scene \in Scenes
  /\ db = [account |-> scene.account, sessions |-> scene.sessions, tickets |-> {},
           passkeys |-> scene.passkeys, links |-> {}, asserted |-> scene.asserted, events |-> {},
           minted |-> 1, workspace |-> [u \in Users |-> 0]]
  /\ req = [p \in Procs |-> Blank]
  /\ count = 0 /\ faults = 0 /\ timers = 0
  /\ spent = {}
  /\ guesses = [u \in Users |-> db.account[u].fails]
  /\ stale = [u \in Users |-> FALSE]

----------------------------------------------------------------------------
(* The life of a request. *)

(* A request about u, which has just read u's rows. *)
About(op, u, pc) ==
  [Blank EXCEPT !.op = op, !.pc = pc, !.user = u, !.gen = db.account[u].gen,
                !.seen = db.account[u]]

Enter(p, r) ==
  /\ req[p].op = "idle" /\ r.op \in scene.kinds /\ count < MaxRequests
  /\ count' = count + 1
  /\ req' = [req EXCEPT ![p] = [r EXCEPT !.n = count + 1]]
  /\ UNCHANGED <<faults, timers>>

(* A request of one statement. *)
Once(op) == /\ op \in scene.kinds /\ count < MaxRequests /\ count' = count + 1
            /\ UNCHANGED <<req, faults, timers>> /\ UNCHANGED ghosts

(* session_middleware: a live session becomes the current user, and slides. *)
SessionMiddleware(p, s, r) ==
  /\ s \in SessionWithUser(db, s.id)
  /\ Enter(p, r)
  /\ db' = TouchSession(db, s.id)
  /\ UNCHANGED ghosts

At(p, op, pc)  == req[p].op = op /\ req[p].pc = pc
Goto(p, pc)    == req' = [req EXCEPT ![p].pc = pc]
Answer(p)      == req' = [req EXCEPT ![p] = Blank]
Quiet          == UNCHANGED <<count, faults, timers>>

(* The next statement of a request: one that writes a row of a deleted     *)
(* user breaks a foreign key, and the request ends.                        *)
Statement(p, d, pc) ==
  /\ IF Holds(db, req[p].user, req[p].gen)
     THEN db' = d /\ (IF pc = "done" THEN Answer(p) ELSE Goto(p, pc))
     ELSE db' = db /\ Answer(p)
  /\ Quiet

(* A statement that takes an account away from its holders: requests in    *)
(* flight that have read the account are overtaken by it.                  *)
Overtake(p, pc) ==
  req' = [q \in Procs |->
            IF q = p THEN IF pc = "done" THEN Blank ELSE [req[p] EXCEPT !.pc = pc]
            ELSE IF req[q].user = req[p].user /\ req[q].gen = req[p].gen THEN [req[q] EXCEPT !.raced = TRUE]
            ELSE req[q]]

Overtaking(p, d, pc) ==
  /\ IF Holds(db, req[p].user, req[p].gen)
     THEN db' = d /\ Overtake(p, pc)
     ELSE db' = db /\ Answer(p)
  /\ Quiet /\ UNCHANGED ghosts

(* issue_session: the last statement of everything that signs in. *)
IssueSession(p) ==
  LET r == req[p] IN
  /\ r.pc = "issue"
  /\ Statement(p, CreateSession(db, [id |-> r.n, user |-> r.user, how |-> r.how, pw |-> r.pw,
                                     raced |-> r.raced, kept |-> FALSE, live |-> TRUE]), "done")
  /\ UNCHANGED ghosts

(* delete_sessions_for_user, after a new password or a deactivation.  Its  *)
(* failure is ignored: the sessions there are stay.                        *)
Keep(d, u, gen) ==
  [d EXCEPT !.sessions = {IF Holds(d, u, gen) /\ s.user = u THEN [s EXCEPT !.kept = TRUE] ELSE s : s \in @}]

AfterRevoke(op) == CASE op = "change" -> "issue" [] op = "reset" -> "zero" [] OTHER -> "done"

Revoke(p) ==
  /\ req[p].pc = "revoke"
  /\ \/ db' = DeleteSessionsForUser(db, req[p].user, req[p].gen) /\ faults' = faults
     \/ faults + timers < MaxMishaps /\ faults' = faults + 1 /\ db' = Keep(db, req[p].user, req[p].gen)
  /\ Overtake(p, AfterRevoke(req[p].op))
  /\ UNCHANGED <<count, timers>> /\ UNCHANGED ghosts

(* lifecycle::user_registered, a statement of its own after create_user.   *)
AfterAnnounce(r) ==
  CASE r.op = "register" -> "boot"
    [] r.op \in {"social", "oidc"} -> "linknew"
    [] r.op = "saml" -> "boot"
    [] r.op = "scim" /\ r.x = 0 -> "active"
    [] OTHER -> "done"

UserRegistered(p) ==
  LET r == req[p] IN
  /\ r.pc = "announce"
  /\ \/ db' = EnqueueRegistered(db, r.user) /\ faults' = faults
     \/ faults + timers < MaxMishaps /\ faults' = faults + 1 /\ db' = db
  /\ IF AfterAnnounce(r) = "done" THEN Answer(p) ELSE Goto(p, AfterAnnounce(r))
  /\ UNCHANGED <<count, timers>> /\ UNCHANGED ghosts

(* bootstrap_workspace: organization, owner, production and development    *)
(* server and, for a registration, an API key; a failure stops it there    *)
(* and is only logged.                                                     *)
TryBootstrap(p) ==
  LET r    == req[p]
      last == IF r.op = "register" THEN 5 ELSE 4
  IN  /\ r.pc = "boot"
      /\ \E k \in 0..last :
           /\ k < last => faults + timers < MaxMishaps
           /\ faults' = IF k < last THEN faults + 1 ELSE faults
           /\ db' = IF Holds(db, r.user, r.gen) THEN [db EXCEPT !.workspace[r.user] = k] ELSE db
      /\ Goto(p, "issue")
      /\ UNCHANGED <<count, timers>> /\ UNCHANGED ghosts

(* The client hangs up, or a statement fails and the handler returns: the  *)
(* statements so far stay.                                                 *)
Abandon(p) ==
  LET r == req[p] IN
  /\ r.op # "idle" /\ faults + timers < MaxMishaps
  /\ faults' = faults + 1
  /\ IF r.pc = "revoke" THEN Overtake(p, "done") ELSE Answer(p)
  /\ db' = IF r.pc = "revoke" THEN Keep(db, r.user, r.gen) ELSE db
  /\ UNCHANGED <<count, timers>> /\ UNCHANGED ghosts

----------------------------------------------------------------------------
(* Signing in with a password.  The counter is written back from the row   *)
(* that was read before the password was verified.                         *)
Login(p, u, pw, code) ==
  LET a == db.account[u]
      verified == a.pw # NoPassword /\ pw = a.pw
  IN  /\ a.present /\ ~a.disabled /\ ~a.locked
      /\ ~(verified /\ a.totp /\ code = 0)
      /\ Enter(p, [About("login", u, IF verified /\ (a.totp => code = a.secret)
                                     THEN "clear" ELSE "fail")
                     EXCEPT !.pw = pw, !.how = "password"])
      /\ db' = db /\ UNCHANGED ghosts

(* A login state written over one this request has not read. *)
Stale(r) == \/ db.account[r.user].fails # r.seen.fails
            \/ db.account[r.user].locked # r.seen.locked

(* The guesses against the account the request has read. *)
Tally(p, n, overlap) ==
  /\ guesses' = [guesses EXCEPT ![req[p].user] = IF Holds(db, req[p].user, req[p].gen) THEN n ELSE @]
  /\ stale' = [stale EXCEPT ![req[p].user] = IF Holds(db, req[p].user, req[p].gen) THEN overlap ELSE @]
  /\ UNCHANGED spent

(* Mutant: one attempt more. *)
LoginFailedOneMore(p) ==
  LET r == req[p]
      attempts == r.seen.fails + 1
  IN  /\ At(p, "login", "fail")
      /\ Statement(p, SetLoginState(db, r.user, attempts, attempts > MaxAttempts), "done")
      /\ Tally(p, guesses[r.user] + 1, stale[r.user] \/ Stale(r))

LoginFailed(p) ==
  LET r == req[p]
      attempts == r.seen.fails + 1
  IN  /\ At(p, "login", "fail")
      /\ Statement(p, SetLoginState(db, r.user, attempts, attempts >= MaxAttempts), "done")
      /\ Tally(p, guesses[r.user] + 1, stale[r.user] \/ Stale(r))

(* The success of a password or passkey sign-in, and of a reset. *)
ClearLoginState(p) ==
  LET r == req[p] IN
  /\ r.pc \in {"clear", "zero"}
  /\ Statement(p, SetLoginState(db, r.user, 0, FALSE), IF r.pc = "zero" THEN "done" ELSE "issue")
  /\ Tally(p, 0, FALSE)

(* Open self-registration, behind allow_registration and the captcha. *)
Register(p, u, pw) ==
  /\ ~db.account[u].present
  /\ Enter(p, [About("register", u, "digest") EXCEPT !.gen = @ + 1, !.pw = pw, !.how = "register"])
  /\ db' = CreateUser(db, u, FALSE)
  /\ UNCHANGED ghosts

(* users_create of the admin API, with a password or without. *)
AdminCreate(p, u, pw) ==
  /\ ~db.account[u].present
  /\ Enter(p, [About("admin", u, IF pw = NoPassword THEN "announce" ELSE "digest")
                 EXCEPT !.gen = @ + 1, !.pw = pw])
  /\ db' = CreateUser(db, u, FALSE)
  /\ UNCHANGED ghosts

(* The first password signs nobody out: whoever was faster with a reset of *)
(* the new account stays.                                                  *)
SetFirstPassword(p) ==
  /\ req[p].op \in {"register", "admin"} /\ req[p].pc = "digest"
  /\ Overtaking(p, Keep(SetPasswordDigest(db, req[p].user, req[p].pw), req[p].user, req[p].gen), "announce")

----------------------------------------------------------------------------
(* The signed-in user. *)

Logout(p) ==
  \/ \E s \in db.sessions : SessionMiddleware(p, s, [About("logout", s.user, "delete") EXCEPT !.x = s.id])
  \/ /\ At(p, "logout", "delete")
     /\ db' = DeleteSession(db, req[p].x) /\ Answer(p) /\ Quiet /\ UNCHANGED ghosts

(* The profile is written back as the middleware read it, flag included.   *)
UpdateMe(p) ==
  \/ \E s \in db.sessions : SessionMiddleware(p, s, About("me", s.user, "write"))
  \/ /\ At(p, "me", "write")
     /\ Statement(p, UpdateUser(db, req[p].user, req[p].seen.admin), "done")
     /\ UNCHANGED ghosts

(* user_auth inside a handler, which goes on at pc if the row passes. *)
Now(p) == db.account[req[p].user]

Reread(p, pc, passes) ==
  /\ IF Holds(db, req[p].user, req[p].gen) /\ passes
     THEN req' = [req EXCEPT ![p].pc = pc, ![p].seen = Now(p)]
     ELSE Answer(p)
  /\ db' = db /\ Quiet /\ UNCHANGED ghosts

(* x is the password the user types, pw the new one; the fresh session is  *)
(* as good as the one it replaces.                                         *)
ChangePassword(p) ==
  \/ \E s \in db.sessions, old \in Passwords, new \in NewPasswords :
       SessionMiddleware(p, s, [About("change", s.user, "read")
                                               EXCEPT !.x = old, !.pw = new, !.how = s.how,
                                                      !.raced = s.raced \/ s.kept])
  \/ At(p, "change", "read") /\ Reread(p, "digest", Now(p).pw = NoPassword \/ Now(p).pw = req[p].x)
  \/ /\ At(p, "change", "digest")
     /\ Overtaking(p, SetPasswordDigest(db, req[p].user, req[p].pw), "revoke")

(* The answer is the same whether or not the account exists; a disabled    *)
(* one gets no ticket.                                                     *)
PasswordResetRequest(p) ==
  \/ \E u \in Users : /\ db.account[u].present /\ ~db.account[u].disabled
                      /\ Enter(p, About("forgot", u, "ticket"))
                      /\ db' = db /\ UNCHANGED ghosts
  \/ /\ At(p, "forgot", "ticket")
     /\ Statement(p, CreatePasswordReset(db, Ticket("reset", req[p].n, req[p].user)), "done")
     /\ UNCHANGED ghosts

(* Redeeming a ticket: the row is deleted, and counts unless it is old. *)
Redeem(p, t, d, r) ==
  /\ Enter(p, IF t.fresh THEN r ELSE [Blank EXCEPT !.op = r.op, !.pc = "late"])
  /\ db' = d
  /\ spent' = IF t.fresh THEN spent \union {<<t.id, count + 1>>} ELSE spent
  /\ UNCHANGED <<guesses, stale>>

(* A ticket that had expired: the request answers. *)
TooLate(p) == req[p].pc = "late" /\ Answer(p) /\ db' = db /\ Quiet /\ UNCHANGED ghosts

(* Mutant: a reset leaves the sessions alone. *)
ResetDigestOnly(p) ==
  /\ At(p, "reset", "digest")
  /\ Overtaking(p, SetPasswordDigest(db, req[p].user, req[p].pw), "zero")

(* The new password of a reset, before the sessions and the lock go. *)
ResetDigest(p) ==
  /\ At(p, "reset", "digest")
  /\ Overtaking(p, SetPasswordDigest(db, req[p].user, req[p].pw), "revoke")

(* The holder of a reset link.  When the deactivation cannot be read the   *)
(* reset goes on.                                                          *)
PasswordResetComplete(p) ==
  \/ \E t \in {x \in db.tickets : x.kind = "reset"}, new \in NewPasswords :
       Redeem(p, t, ConsumePasswordReset(db, t), [About("reset", t.user, "check") EXCEPT !.pw = new])
  \/ At(p, "reset", "check") /\ Reread(p, "digest", ~Now(p).disabled)
  \/ /\ At(p, "reset", "check") /\ faults + timers < MaxMishaps /\ faults' = faults + 1
     /\ Goto(p, "digest") /\ db' = db /\ UNCHANGED <<count, timers>> /\ UNCHANGED ghosts
  \/ ResetDigest(p)

(* Enrolling stores a new secret and turns the factor off until a code has *)
(* been seen.                                                              *)
TotpEnroll(p) ==
  \/ \E s \in db.sessions : SessionMiddleware(p, s, About("enroll", s.user, "set"))
  \/ /\ At(p, "enroll", "set")
     /\ Statement(p, [SetTotp(db, req[p].user, db.minted + 1, FALSE) EXCEPT !.minted = @ + 1], "done")
     /\ UNCHANGED ghosts

(* x is the secret whose code the user types; the secret that was read is  *)
(* written back.                                                           *)
TotpActivate(p) ==
  \/ \E s \in db.sessions, x \in 1..db.minted :
       SessionMiddleware(p, s, [About("activate", s.user, "read") EXCEPT !.x = x])
  \/ At(p, "activate", "read") /\ Reread(p, "set", Now(p).secret = req[p].x)
  \/ /\ At(p, "activate", "set")
     /\ Statement(p, SetTotp(db, req[p].user, req[p].seen.secret, TRUE), "done")
     /\ UNCHANGED ghosts

TotpDisable(p) ==
  \/ \E s \in db.sessions, pw \in Passwords :
       SessionMiddleware(p, s, [About("unfactor", s.user, "read") EXCEPT !.x = pw])
  \/ At(p, "unfactor", "read") /\ Reread(p, "set", Now(p).pw = NoPassword \/ Now(p).pw = req[p].x)
  \/ /\ At(p, "unfactor", "set")
     /\ Statement(p, SetTotp(db, req[p].user, 0, FALSE), "done")
     /\ UNCHANGED ghosts

----------------------------------------------------------------------------
(* Passkeys. *)

PasskeyRegisterStart(p) ==
  \/ \E s \in db.sessions : SessionMiddleware(p, s, About("regstart", s.user, "ticket"))
  \/ /\ At(p, "regstart", "ticket")
     /\ Statement(p, CreateWebauthnState(db, Ticket("reg", req[p].n, req[p].user)), "done")
     /\ UNCHANGED ghosts

(* The state must be of the current user; it is gone either way. *)
PasskeyRegisterFinish(p) ==
  \/ \E s \in db.sessions, t \in {x \in db.tickets : x.kind = "reg"} :
       /\ s.live
       /\ Redeem(p, t, ConsumeWebauthnState(TouchSession(db, s.id), t),
                 About("regfinish", s.user, IF t.user = s.user THEN "add" ELSE "late"))
  \/ /\ At(p, "regfinish", "add")
     /\ Statement(p, AddWebauthnCredential(db, [id |-> req[p].n, user |-> req[p].user]), "done")
     /\ UNCHANGED ghosts

CredentialsDestroy(p) ==
  \/ \E s \in db.sessions, k \in db.passkeys :
       SessionMiddleware(p, s, [About("unkey", s.user, "remove") EXCEPT !.x = k.id])
  \/ /\ At(p, "unkey", "remove")
     /\ db' = DeleteWebauthnCredential(db, req[p].user, req[p].x)
     /\ Answer(p) /\ Quiet /\ UNCHANGED ghosts

(* An address without passkeys gets a challenge that is not stored. *)
PasskeyLoginStart(p) ==
  \/ \E u \in Users : /\ db.account[u].present /\ \E k \in db.passkeys : k.user = u
                      /\ Enter(p, About("keystart", u, "ticket"))
                      /\ db' = db /\ UNCHANGED ghosts
  \/ /\ At(p, "keystart", "ticket")
     /\ Statement(p, CreateWebauthnState(db, Ticket("login", req[p].n, req[p].user)), "done")
     /\ UNCHANGED ghosts

(* x is the key that signs the challenge; it must still be the account's   *)
(* after the signature has been verified.  A lock is tested, if it can be  *)
(* read; a deactivation is not.                                            *)
PasskeyLoginFinish(p) ==
  \/ \E t \in {x \in db.tickets : x.kind = "login"}, k \in db.passkeys :
       Redeem(p, t, ConsumeWebauthnState(db, t),
              [About("keyfinish", t.user, "check") EXCEPT !.x = k.id, !.how = "passkey"])
  \/ At(p, "keyfinish", "check") /\ Reread(p, "owner", ~Now(p).locked)
  \/ /\ At(p, "keyfinish", "check") /\ faults + timers < MaxMishaps /\ faults' = faults + 1
     /\ Goto(p, "owner") /\ db' = db /\ UNCHANGED <<count, timers>> /\ UNCHANGED ghosts
  \/ /\ At(p, "keyfinish", "owner")
     /\ IF \E k \in WebauthnCredentialById(db, req[p].x) : k.user = req[p].user
        THEN Goto(p, "clear") ELSE Answer(p)
     /\ db' = db /\ Quiet /\ UNCHANGED ghosts

----------------------------------------------------------------------------
(* Administration: the user endpoints and SCIM. *)

UsersUpdate(p) ==
  \/ \E u \in Users, admin \in 0..1 :
       /\ db.account[u].present
       /\ Enter(p, [About("update", u, "write") EXCEPT !.x = admin])
       /\ db' = db /\ UNCHANGED ghosts
  \/ /\ At(p, "update", "write")
     /\ Statement(p, UpdateUser(db, req[p].user, req[p].x = 1), "done") /\ UNCHANGED ghosts

UsersDestroy(p) ==
  \/ \E u \in Users : /\ db.account[u].present /\ Enter(p, About("destroy", u, "delete"))
                      /\ db' = db /\ UNCHANGED ghosts
  \/ /\ At(p, "destroy", "delete")
     /\ Statement(p, DeleteUser(db, req[p].user), "done")
     /\ Tally(p, 0, FALSE)

(* SCIM: x is the "active" the provider asks for, 1 or 0. *)
ScimCreate(p, u, active) ==
  /\ ~db.account[u].present
  /\ Enter(p, [About("scim", u, "announce") EXCEPT !.gen = @ + 1, !.x = active])
  /\ db' = CreateUser(db, u, FALSE) /\ UNCHANGED ghosts

(* "active" may be missing (2), and the row is written when a name is in   *)
(* the request.                                                            *)
ScimPatch(p, u, active) ==
  /\ db.account[u].present
  /\ \E pc \in {"row", "active"} :
       /\ pc = "active" => active # 2
       /\ Enter(p, [About("scim", u, pc) EXCEPT !.x = active])
  /\ db' = db /\ UNCHANGED ghosts

(* Nothing is deleted: the account is deactivated. *)
ScimDelete(p, u) ==
  /\ db.account[u].present
  /\ Enter(p, [About("scim", u, "active") EXCEPT !.x = 0])
  /\ db' = db /\ UNCHANGED ghosts

ScimReplace(p, u, active) ==
  /\ db.account[u].present
  /\ Enter(p, [About("scim", u, "row") EXCEPT !.x = active])
  /\ db' = db /\ UNCHANGED ghosts

ScimRow(p) ==
  /\ At(p, "scim", "row")
  /\ Statement(p, UpdateUser(db, req[p].user, req[p].seen.admin),
               IF req[p].x = 2 THEN "done" ELSE "active")
  /\ UNCHANGED ghosts

(* apply_active: nothing when the account is as asked, otherwise the flag  *)
(* and, for a deactivation, the sessions.                                  *)
ApplyActive(p) ==
  \/ At(p, "scim", "active") /\ Reread(p, "flag", Now(p).disabled = (req[p].x = 1))
  \/ /\ At(p, "scim", "flag")
     /\ IF req[p].x = 1
        THEN Statement(p, SetUserDisabled(db, req[p].user, FALSE), "done") /\ UNCHANGED ghosts
        ELSE Overtaking(p, SetUserDisabled(db, req[p].user, TRUE), "revoke")

----------------------------------------------------------------------------
(* The clock. *)
Timer == faults + timers < MaxMishaps /\ timers' = timers + 1 /\ UNCHANGED <<req, count, faults, spent>>

Unlock(u) ==
  /\ db.account[u].locked
  /\ db' = [db EXCEPT !.account[u].locked = FALSE]
  /\ guesses' = [guesses EXCEPT ![u] = 0] /\ stale' = [stale EXCEPT ![u] = FALSE]
  /\ Timer

Expire ==
  /\ \/ \E t \in db.tickets : db' = [db EXCEPT !.tickets = (@ \ {t}) \union {[t EXCEPT !.fresh = FALSE]}]
     \/ \E s \in db.sessions : db' = [db EXCEPT !.sessions = (@ \ {s}) \union {[s EXCEPT !.live = FALSE]}]
  /\ UNCHANGED <<guesses, stale>>
  /\ Timer

Statements(p) ==
  \/ IssueSession(p) \/ Revoke(p) \/ UserRegistered(p) \/ TryBootstrap(p) \/ Abandon(p)
  \/ LoginFailed(p) \/ ClearLoginState(p) \/ SetFirstPassword(p) \/ TooLate(p)

Handlers(p) ==
  \/ \E u \in Users :
       \/ \E pw \in Passwords, code \in 0..db.minted : Login(p, u, pw, code)
       \/ \E pw \in NewPasswords : Register(p, u, pw)
       \/ \E pw \in NewPasswords \union {NoPassword} : AdminCreate(p, u, pw)
       \/ \E active \in 0..1 : ScimCreate(p, u, active) \/ ScimReplace(p, u, active)
       \/ \E active \in 0..2 : ScimPatch(p, u, active)
       \/ ScimDelete(p, u)
  \/ Logout(p) \/ UpdateMe(p) \/ ChangePassword(p)
  \/ PasswordResetRequest(p) \/ PasswordResetComplete(p)
  \/ TotpEnroll(p) \/ TotpActivate(p) \/ TotpDisable(p)
  \/ PasskeyRegisterStart(p) \/ PasskeyRegisterFinish(p) \/ CredentialsDestroy(p)
  \/ PasskeyLoginStart(p) \/ PasskeyLoginFinish(p)
  \/ UsersUpdate(p) \/ UsersDestroy(p) \/ ScimRow(p) \/ ApplyActive(p)

Clock == Expire \/ \E u \in Users : Unlock(u)
=============================================================================
