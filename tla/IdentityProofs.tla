--------------------------- MODULE IdentityProofs ----------------------------
(***************************************************************************)
(* Proofs about Identity, for any accounts, passwords, providers, requests *)
(* in flight and bounds.                                                   *)
(*                                                                         *)
(* A ticket is redeemed once because it is named after the request that    *)
(* made it.  A session outlives a new password or a deactivation only with *)
(* a mark, because every request that could still issue one has read the   *)
(* account after it, or carries the mark.  The counter of wrong guesses is *)
(* the guesses since the lock unless a request wrote over it.              *)
(***************************************************************************)
EXTENDS Identity, TLAPS

(* Rows and requests have their fields. *)
AccountFields ==
    {"present", "gen", "admin", "pw", "secret", "totp", "fails", "locked", "disabled", "sub"}
TableNames ==
    {"account", "sessions", "tickets", "passkeys", "links", "asserted", "events", "minted", "workspace"}
SessionFields == {"id", "user", "how", "pw", "raced", "kept", "live"}
TicketFields  == {"kind", "id", "user", "fresh"}
RequestFields == {"op", "pc", "n", "user", "gen", "seen", "pw", "x", "who", "how", "raced"}

IsAccount(a) ==
    /\ a = [f \in AccountFields |-> a[f]]
    /\ a.gen \in Nat /\ a.fails \in Nat
    /\ a.present \in BOOLEAN /\ a.totp \in BOOLEAN /\ a.locked \in BOOLEAN /\ a.disabled \in BOOLEAN

IsDb(d) ==
    /\ d = [f \in TableNames |-> d[f]]
    /\ d.account = [u \in Users |-> d.account[u]]
    /\ \A u \in Users : IsAccount(d.account[u])
    /\ \A l \in d.links : l.user \in Users

IsSession(s) ==
    /\ s = [f \in SessionFields |-> s[f]]
    /\ s.user \in Users
    /\ s.raced \in BOOLEAN /\ s.kept \in BOOLEAN

IsTicket(t) ==
    /\ t = [f \in TicketFields |-> t[f]]
    /\ t.kind \in {"reset", "login", "reg"} => t.user \in Users

IsRequest(r) ==
    /\ r = [f \in RequestFields |-> r[f]]
    /\ r.n \in Nat /\ r.gen \in Nat /\ r.raced \in BOOLEAN
    /\ IsAccount(r.seen)

(* Where a request is, by what it is for. *)
Anonymous == {"idle", "late", "assertion", "resolve", "create"}
Placed(r) ==
    /\ r.op = "idle" => r = Blank
    /\ r.pc \in Anonymous => r.user \in Users \union {NoUser}
    /\ r.pc \notin Anonymous => r.user \in Users
    /\ r.op \in {"social", "oidc", "saml"} =>
          /\ r.pc \in {"resolve", "create"} => r.who.email \in Users /\ r.user = NoUser
          /\ r.pc \notin {"late"} => r.how = r.op
    /\ r.pc = "assertion" => r.op = "saml" /\ r.who.email \in Users /\ r.user = NoUser
    /\ r.pc = "create" => r.op \in {"social", "oidc", "saml"}
    /\ r.pc = "fail" => r.op = "login" /\ ~r.seen.locked
    /\ r.pc = "clear" => r.op \in {"login", "keyfinish"}
    /\ r.pc = "zero" => r.op = "reset"
    /\ r.pc = "revoke" => r.op \in {"change", "reset", "scim"}
    /\ r.pc = "announce" => r.op \in {"register", "admin", "scim", "social", "oidc", "saml"}
    /\ r.pc \in {"link", "linknew"} => r.op \in {"social", "oidc"}
    /\ r.pc = "boot" => r.op \in {"register", "social", "oidc", "saml"}
    /\ r.pc = "issue" => r.op \in {"login", "keyfinish", "register", "change", "social", "oidc", "saml"}
    /\ r.pc = "ticket" => r.op \in {"forgot", "regstart", "keystart"}
    /\ r.op = "login" => r.how = "password"
    /\ r.op = "keyfinish" /\ r.pc # "late" => r.how = "passkey"
    /\ r.op = "register" => r.how = "register"
    /\ r.op = "activate" /\ r.pc = "set" => r.seen.secret = r.x

(* A request that takes the sessions of the account away. *)
Revokes(d, R, q, u) == R[q].pc = "revoke" /\ R[q].user = u /\ R[q].gen = d.account[u].gen

(* What the request r of q, about an account that is there, may rely on    *)
(* unless it was overtaken.                                                *)
Fit(d, R, q, r) ==
    ~r.raced /\ r.user \in Users /\ Holds(d, r.user, r.gen) =>
       LET a == d.account[r.user] IN
       /\ r.op = "login" /\ r.pc \in {"clear", "issue"} => r.pw = a.pw /\ ~a.disabled
       /\ r.op = "change" /\ r.pc \in {"revoke", "issue"} /\ r.how = "password" => r.pw = a.pw
       /\ r.op = "change" /\ r.how \notin {"passkey", "social"} /\ a.disabled =>
             \E o \in Procs \ {q} : Revokes(d, R, o, r.user)
       /\ r.op \in {"register", "oidc", "saml"} => ~a.disabled

(* Nobody has read an account that is still to come. *)
Past(d, r) == r.user \in Users => r.gen <= d.account[r.user].gen

Requests(d, R) ==
    /\ R = [q \in Procs |-> R[q]]
    /\ \A q \in Procs : IsRequest(R[q]) /\ Placed(R[q]) /\ Past(d, R[q]) /\ Fit(d, R, q, R[q])

(* A session that carries no mark. *)
Entitled(d, R, s) ==
    ~s.raced /\ ~s.kept /\ (\A o \in Procs : ~Revokes(d, R, o, s.user)) =>
       /\ s.how = "password" => s.pw = d.account[s.user].pw
       /\ d.account[s.user].disabled => s.how \in {"passkey", "social"}

Sessions(d, R) ==
    \A s \in d.sessions : IsSession(s) /\ d.account[s.user].present /\ Entitled(d, R, s)

(* Tickets and the requests that make them are numbered. *)
Numbers(d, R, c, redeemed) ==
    /\ c \in Nat
    /\ \A q \in Procs : R[q].op # "idle" => R[q].n \in 1..c
    /\ \A q, o \in Procs : R[q].op # "idle" /\ R[o].op # "idle" /\ R[q].n = R[o].n => q = o
    /\ \A t \in d.tickets : IsTicket(t) /\ t.id \in 1..c
    /\ \A t, x \in d.tickets : t.id = x.id => t = x
    /\ \A a \in redeemed : a = <<a[1], a[2]>> /\ a[1] \in 1..c /\ \A t \in d.tickets : t.id # a[1]
    /\ \A a, b \in redeemed : a[1] = b[1] => a = b
    /\ \A q \in Procs : R[q].pc = "ticket" =>
          /\ \A t \in d.tickets : t.id # R[q].n
          /\ \A a \in redeemed : a[1] # R[q].n

(* The counter against the guesses. *)
Counter(d, g, st) ==
    /\ g \in [Users -> Nat] /\ st \in [Users -> BOOLEAN]
    /\ \A u \in Users :
          /\ ~d.account[u].present => g[u] = 0 /\ ~st[u]
          /\ ~st[u] => /\ g[u] <= d.account[u].fails
                       /\ g[u] <= MaxAttempts
                       /\ ~d.account[u].locked => g[u] < MaxAttempts

IInv ==
    /\ IsDb(db)
    /\ Requests(db, req)
    /\ Sessions(db, req)
    /\ Numbers(db, req, count, spent)
    /\ Counter(db, guesses, stale)

-----------------------------------------------------------------------------
(***************************************************************************)
(* Steps that leave the accounts' passwords, flags and counters alone      *)
(***************************************************************************)
(* The tables after such a step: a session may have slid or ended, a       *)
(* ticket may be gone, and an account may be active again.                 *)
Alike(a, b) ==
    b.present = a.present /\ b.gen = a.gen /\ b.pw = a.pw /\ (b.disabled => a.disabled)
Level(d, e) == \A u \in Users : Alike(d.account[u], e.account[u])
Counted(d, e) ==
    \A u \in Users : /\ e.account[u].present = d.account[u].present
                     /\ e.account[u].fails = d.account[u].fails
                     /\ e.account[u].locked = d.account[u].locked
Slid(d, e) ==
    \A s \in e.sessions : IsSession(s) /\ \E x \in d.sessions :
       /\ s.user = x.user /\ s.how = x.how /\ s.pw = x.pw
       /\ s.raced = x.raced /\ s.kept = x.kept
Tame(d, e) ==
    IsDb(e) /\ Level(d, e) /\ Counted(d, e) /\ Slid(d, e) /\ e.tickets \subseteq d.tickets

(* One request goes on, and it is not one that revokes. *)
Moves(d, R, Q, p) ==
    /\ Q = [R EXCEPT ![p] = Q[p]]
    /\ IsRequest(Q[p]) /\ Placed(Q[p]) /\ Past(d, Q[p]) /\ Fit(d, R, p, Q[p])
    /\ R[p].pc # "revoke" /\ Q[p].pc # "revoke"

LEMMA TameRefl ==
    ASSUME NEW d, NEW R, IsDb(d), Sessions(d, R)
    PROVE  Tame(d, d) /\ Slid(d, d)
  BY DEF Tame, Sessions, Level, Alike, Counted, Slid

LEMMA MovesOthers ==
    ASSUME NEW d, NEW R, NEW Q, NEW p \in Procs, Requests(d, R), Moves(d, R, Q, p)
    PROVE  /\ Q = [q \in Procs |-> Q[q]]
           /\ \A q \in Procs : q # p => Q[q] = R[q]
  BY DEF Moves, Requests

LEMMA SameRevokers ==
    ASSUME NEW d, NEW e, NEW R, NEW Q, NEW p \in Procs, Requests(d, R), Level(d, e),
           Moves(d, R, Q, p), NEW o \in Procs, NEW u \in Users
    PROVE  Revokes(e, Q, o, u) <=> Revokes(d, R, o, u)
  <1>1. \A q \in Procs : q # p => Q[q] = R[q]
    BY MovesOthers
  <1>2. R[p].pc # "revoke" /\ Q[p].pc # "revoke"
    BY DEF Moves
  <1>3. e.account[u].gen = d.account[u].gen
    BY DEF Level, Alike
  <1> QED BY <1>1, <1>2, <1>3 DEF Revokes

LEMMA RequestsMove ==
    ASSUME NEW d, NEW e, NEW R, NEW Q, NEW p \in Procs, Requests(d, R), Level(d, e),
           Moves(d, R, Q, p)
    PROVE  Requests(e, Q)
  <1>1. ASSUME NEW q \in Procs
        PROVE  IsRequest(Q[q]) /\ Placed(Q[q]) /\ Past(d, Q[q]) /\ Fit(d, R, q, Q[q])
    BY MovesOthers DEF Moves, Requests
  <1>2. ASSUME NEW q \in Procs, NEW r, r.user \in Users, Fit(d, R, q, r)
        PROVE  Fit(e, Q, q, r)
    <2>1. \A o \in Procs : Revokes(e, Q, o, r.user) <=> Revokes(d, R, o, r.user)
      BY <1>2, SameRevokers
    <2> QED BY <1>2, <2>1 DEF Fit, Holds, Level, Alike
  <1>3. ASSUME NEW q \in Procs PROVE Fit(e, Q, q, Q[q]) /\ Past(e, Q[q])
    <2>1. CASE Q[q].user \in Users
      BY <1>1, <1>2, <2>1 DEF Past, Level, Alike
    <2>2. CASE Q[q].user \notin Users
      BY <2>2 DEF Fit, Past
    <2> QED BY <2>1, <2>2
  <1> QED BY <1>1, <1>3, MovesOthers DEF Requests

LEMMA SessionsMove ==
    ASSUME NEW d, NEW e, NEW R, NEW Q, NEW p \in Procs, Requests(d, R), Level(d, e), Slid(d, e),
           Moves(d, R, Q, p), Sessions(d, R)
    PROVE  Sessions(e, Q)
  <1> SUFFICES ASSUME NEW s \in e.sessions
               PROVE  IsSession(s) /\ e.account[s.user].present /\ Entitled(e, Q, s)
    BY DEF Sessions
  <1>1. PICK x \in d.sessions : /\ s.user = x.user /\ s.how = x.how /\ s.pw = x.pw
                                /\ s.raced = x.raced /\ s.kept = x.kept
    BY DEF Slid
  <1>2. IsSession(s) /\ s.user \in Users
    BY DEF Slid, IsSession
  <1>3. d.account[x.user].present /\ Entitled(d, R, x)
    BY DEF Sessions
  <1>4. \A o \in Procs : Revokes(e, Q, o, s.user) <=> Revokes(d, R, o, s.user)
    BY <1>2, SameRevokers
  <1> QED BY <1>1, <1>2, <1>3, <1>4 DEF Entitled, Level, Alike

LEMMA CounterTame ==
    ASSUME NEW d, NEW e, NEW g, NEW st, Counted(d, e), Counter(d, g, st)
    PROVE  Counter(e, g, st)
  BY DEF Counted, Counter

(* A request that is under way goes on, or ends. *)
LEMMA NumbersMove ==
    ASSUME NEW d, NEW e, NEW R, NEW Q, NEW p \in Procs, NEW c, NEW sp,
           Q = [q \in Procs |-> Q[q]], \A q \in Procs : q # p => Q[q].n = R[q].n /\ Q[q].op = R[q].op /\ Q[q].pc = R[q].pc,
           R[p].op # "idle", Q[p].op # "idle" => Q[p].n = R[p].n,
           Q[p].pc # "ticket", e.tickets \subseteq d.tickets, Numbers(d, R, c, sp)
    PROVE  Numbers(e, Q, c, sp)
  BY DEF Numbers

(* A request begins; it may redeem a ticket. *)
LEMMA NumbersEnter ==
    ASSUME NEW d, NEW e, NEW R, NEW Q, NEW p \in Procs, NEW c, NEW sp,
           Q = [q \in Procs |-> Q[q]], \A q \in Procs : q # p => Q[q] = R[q],
           R[p].op = "idle", Q[p].n = c + 1,
           e.tickets \subseteq d.tickets, Numbers(d, R, c, sp)
    PROVE  Numbers(e, Q, c + 1, sp)
  <1>1. c \in Nat
    BY DEF Numbers
  <1>2. \A q \in Procs : Q[q].op # "idle" => Q[q].n \in 1..(c + 1)
    BY <1>1 DEF Numbers
  <1>3. \A q, o \in Procs : Q[q].op # "idle" /\ Q[o].op # "idle" /\ Q[q].n = Q[o].n => q = o
    BY <1>1 DEF Numbers
  <1>4. /\ \A t \in e.tickets : IsTicket(t) /\ t.id \in 1..(c + 1)
        /\ \A t, x \in e.tickets : t.id = x.id => t = x
    BY <1>1 DEF Numbers
  <1>5. \A a \in sp : a = <<a[1], a[2]>> /\ a[1] \in 1..(c + 1) /\ \A t \in e.tickets : t.id # a[1]
    BY <1>1 DEF Numbers
  <1>6. \A q \in Procs : Q[q].pc = "ticket" =>
          /\ \A t \in e.tickets : t.id # Q[q].n
          /\ \A a \in sp : a[1] # Q[q].n
    <2> SUFFICES ASSUME NEW q \in Procs, Q[q].pc = "ticket"
                 PROVE  /\ \A t \in e.tickets : t.id # Q[q].n
                        /\ \A a \in sp : a[1] # Q[q].n
      OBVIOUS
    <2>1. CASE q = p
      BY <1>1, <2>1 DEF Numbers
    <2>2. CASE q # p
      BY <2>2 DEF Numbers
    <2> QED BY <2>1, <2>2
  <1> QED BY <1>1, <1>2, <1>3, <1>4, <1>5, <1>6 DEF Numbers

LEMMA NumbersRedeem ==
    ASSUME NEW d, NEW R, NEW c, NEW sp, NEW t, NEW n,
           t.id \in 1..c, \A x \in d.tickets : x.id # t.id, \A a \in sp : a[1] # t.id,
           \A q \in Procs : R[q].pc = "ticket" => R[q].n # t.id,
           Numbers(d, R, c, sp)
    PROVE  Numbers(d, R, c, sp \union {<<t.id, n>>})
  BY DEF Numbers

LEMMA NewAccountFacts ==
    ASSUME NEW gen \in Nat, NEW admin
    PROVE  /\ IsAccount(NewAccount(gen, admin)) /\ IsAccount(Absent(gen))
           /\ NewAccount(gen, admin).present = TRUE /\ NewAccount(gen, admin).gen = gen
           /\ NewAccount(gen, admin).disabled = FALSE /\ NewAccount(gen, admin).fails = 0
           /\ NewAccount(gen, admin).locked = FALSE /\ NewAccount(gen, admin).totp = FALSE
           /\ Absent(gen).present = FALSE /\ Absent(gen).gen = gen /\ Absent(gen).totp = FALSE
           /\ Absent(gen).fails = 0 /\ Absent(gen).locked = FALSE
  <1>1. /\ NewAccount(gen, admin).present = TRUE /\ NewAccount(gen, admin).gen = gen
        /\ NewAccount(gen, admin).disabled = FALSE /\ NewAccount(gen, admin).fails = 0
        /\ NewAccount(gen, admin).locked = FALSE /\ NewAccount(gen, admin).totp = FALSE
    BY DEF NewAccount
  <1>2. /\ Absent(gen).present = FALSE /\ Absent(gen).gen = gen
        /\ Absent(gen).disabled = FALSE /\ Absent(gen).fails = 0
        /\ Absent(gen).locked = FALSE /\ Absent(gen).totp = FALSE
    BY DEF NewAccount, Absent
  <1>3. NewAccount(gen, admin) = [f \in AccountFields |-> NewAccount(gen, admin)[f]]
    BY DEF NewAccount, AccountFields
  <1>4. Absent(gen) = [f \in AccountFields |-> Absent(gen)[f]]
    BY DEF NewAccount, AccountFields, Absent
  <1>5. IsAccount(NewAccount(gen, admin))
    <2> DEFINE a == NewAccount(gen, admin)
    <2>1. a = [f \in AccountFields |-> a[f]]
      BY <1>3
    <2>2. a.gen \in Nat /\ a.fails \in Nat
      BY <1>1
    <2>3. a.present \in BOOLEAN /\ a.totp \in BOOLEAN /\ a.locked \in BOOLEAN /\ a.disabled \in BOOLEAN
      BY <1>1, Zenon
    <2> HIDE DEF a
    <2>4. IsAccount(a)
      BY <2>1, <2>2, <2>3 DEF IsAccount
    <2> QED BY <2>4 DEF a
  <1>6. IsAccount(Absent(gen))
    <2> DEFINE a == Absent(gen)
    <2>1. a = [f \in AccountFields |-> a[f]]
      BY <1>4
    <2>2. a.gen \in Nat /\ a.fails \in Nat
      BY <1>2
    <2>3. a.present \in BOOLEAN /\ a.totp \in BOOLEAN /\ a.locked \in BOOLEAN /\ a.disabled \in BOOLEAN
      BY <1>2, Zenon
    <2> HIDE DEF a
    <2>4. IsAccount(a)
      BY <2>1, <2>2, <2>3 DEF IsAccount
    <2> QED BY <2>4 DEF a
  <1> QED BY <1>1, <1>2, <1>5, <1>6

LEMMA NewAccountRow ==
    ASSUME NEW gen \in Nat, NEW admin
    PROVE  IsAccount(NewAccount(gen, admin))
  BY NewAccountFacts

LEMMA RowFacts ==
    ASSUME NEW d, IsDb(d), NEW u \in Users
    PROVE  LET a == d.account[u]
           IN  /\ IsAccount(a) /\ a.gen \in Nat /\ a.fails \in Nat
               /\ a.present \in BOOLEAN /\ a.locked \in BOOLEAN /\ a.disabled \in BOOLEAN
  <1>1. IsAccount(d.account[u])
    BY DEF IsDb
  <1> QED BY <1>1 DEF IsAccount

LEMMA BlankFacts ==
    /\ IsRequest(Blank) /\ Blank.op = "idle" /\ Blank.pc = "idle" /\ Blank.user = NoUser
    /\ Blank.n = 0 /\ Blank.gen = 0 /\ Blank.raced = FALSE /\ Blank.how = "none"
    /\ Placed(Blank)
  <1>1. IsAccount(Blank.seen)
    BY NewAccountFacts DEF Blank
  <1>2. Blank = [f \in RequestFields |-> Blank[f]]
    BY DEF Blank, RequestFields
  <1>3. /\ Blank.op = "idle" /\ Blank.pc = "idle" /\ Blank.user = NoUser
        /\ Blank.n = 0 /\ Blank.gen = 0 /\ Blank.raced = FALSE /\ Blank.how = "none"
    BY DEF Blank
  <1>4. IsRequest(Blank)
    <2> DEFINE a == Blank
    <2>1. a = [f \in RequestFields |-> a[f]] /\ IsAccount(a.seen)
      BY <1>1, <1>2
    <2>2. a.n \in Nat /\ a.gen \in Nat
      BY <1>3
    <2>3. a.raced \in BOOLEAN
      BY <1>3, Zenon
    <2> HIDE DEF a
    <2>4. IsRequest(a)
      BY <2>1, <2>2, <2>3 DEF IsRequest
    <2> QED BY <2>4 DEF a
  <1>5. Placed(Blank)
    BY <1>3 DEF Placed, Anonymous
  <1> QED BY <1>3, <1>4, <1>5

LEMMA BlankFits ==
    ASSUME NEW d, NEW R, NEW q
    PROVE  Fit(d, R, q, Blank) /\ Past(d, Blank)
  BY BlankFacts, AccountsAssumption DEF Fit, Past

LEMMA NumbersGoes ==
    ASSUME IInv, NEW p \in Procs, Moves(db, req, req', p), req[p].op # "idle",
           req'[p].op # "idle" => req'[p].n = req[p].n, req'[p].pc # "ticket",
           db'.tickets \subseteq db.tickets
    PROVE  Numbers(db', req', count, spent)
  <1>1. req' = [q \in Procs |-> req'[q]] /\ \A q \in Procs : q # p => req'[q] = req[q]
    BY MovesOthers DEF IInv
  <1> QED BY <1>1, NumbersMove DEF IInv

(* A request that is under way takes a step that is tame. *)
LEMMA MoveKeeps ==
    ASSUME IInv, NEW p \in Procs, Moves(db, req, req', p), Tame(db, db'),
           req[p].op # "idle", req'[p].op # "idle" => req'[p].n = req[p].n,
           req'[p].pc # "ticket", count' = count, UNCHANGED ghosts
    PROVE  IInv'
  <1>1. Requests(db', req') /\ Sessions(db', req')
    BY RequestsMove, SessionsMove DEF IInv, Tame
  <1>2. IsDb(db') /\ Counter(db', guesses, stale)
    BY CounterTame DEF IInv, Tame
  <1>3. Numbers(db', req', count, spent)
    BY NumbersGoes DEF Tame
  <1> QED BY <1>1, <1>2, <1>3 DEF IInv, ghosts

(* It ends, with or without such a step. *)
LEMMA AnswerKeeps ==
    ASSUME IInv, NEW p \in Procs, Answer(p), Tame(db, db'), req[p].op # "idle",
           req[p].pc # "revoke", count' = count, UNCHANGED ghosts
    PROVE  IInv'
  <1>1. req = [q \in Procs |-> req[q]]
    BY DEF IInv, Requests
  <1>2. req'[p] = Blank /\ req' = [req EXCEPT ![p] = req'[p]]
    BY <1>1 DEF Answer
  <1>3. Moves(db, req, req', p)
    BY <1>2, BlankFacts, BlankFits DEF Moves
  <1> QED BY <1>2, <1>3, BlankFacts, MoveKeeps

(* It goes on, with other fields. *)
Same(r, x) ==
    /\ IsRequest(x)
    /\ x.op = r.op /\ x.n = r.n /\ x.user = r.user /\ x.gen = r.gen /\ x.pw = r.pw
    /\ x.how = r.how /\ x.raced = r.raced

(* The places where a sign-in holds what it has read. *)
Firm == {"clear", "issue", "revoke"}

LEMMA SameMoves ==
    ASSUME IInv, NEW p \in Procs, req' = [req EXCEPT ![p] = req'[p]], Same(req[p], req'[p]),
           Placed(req'[p]), req[p].op # "idle", req[p].pc # "revoke",
           req'[p].pc \notin {"revoke", "ticket"},
           req'[p].pc \in Firm => req[p].pc \in Firm \/ req[p].op \notin {"login", "change"}
    PROVE  Moves(db, req, req', p)
  <1>1. /\ IsRequest(req[p]) /\ Placed(req[p]) /\ Past(db, req[p]) /\ Fit(db, req, p, req[p])
    BY DEF IInv, Requests
  <1>2. Past(db, req'[p])
    BY <1>1 DEF Past, Same
  <1>3. Fit(db, req, p, req'[p])
    <2> DEFINE r == req[p]
               x == req'[p]
    <2>1. /\ x.op = r.op /\ x.user = r.user /\ x.gen = r.gen /\ x.pw = r.pw
          /\ x.how = r.how /\ x.raced = r.raced
      BY DEF Same
    <2>2. /\ r.op = "login" /\ x.pc \in {"clear", "issue"} => r.pc \in {"clear", "issue"}
          /\ r.op = "change" /\ x.pc \in {"revoke", "issue"} => r.pc \in {"clear", "issue"}
          /\ r.op = "change" => r.pc # "clear"
      BY <1>1 DEF Firm, Placed
    <2>3. Fit(db, req, p, r)
      BY <1>1
    <2> HIDE DEF r, x
    <2>4. Fit(db, req, p, x)
      BY <2>1, <2>2, <2>3 DEF Fit
    <2> QED BY <2>4 DEF x
  <1> QED BY <1>2, <1>3 DEF Moves, Same

LEMMA GotoKeeps ==
    ASSUME IInv, NEW p \in Procs, req' = [req EXCEPT ![p] = req'[p]], Same(req[p], req'[p]),
           Placed(req'[p]), req[p].op # "idle", req[p].pc # "revoke",
           req'[p].pc \notin {"revoke", "ticket"},
           req'[p].pc \in Firm => req[p].pc \in Firm \/ req[p].op \notin {"login", "change"},
           Tame(db, db'), count' = count, UNCHANGED ghosts
    PROVE  IInv'
  <1>1. Moves(db, req, req', p)
    BY SameMoves
  <1> QED BY <1>1, MoveKeeps DEF Same

LEMMA AnswerMoves ==
    ASSUME IInv, NEW p \in Procs, Answer(p), req[p].pc # "revoke"
    PROVE  Moves(db, req, req', p) /\ req'[p].op = "idle" /\ req'[p].pc = "idle"
  <1>1. req = [q \in Procs |-> req[q]]
    BY DEF IInv, Requests
  <1>2. req'[p] = Blank /\ req' = [req EXCEPT ![p] = req'[p]]
    BY <1>1 DEF Answer
  <1> QED BY <1>2, BlankFacts, BlankFits DEF Moves

(* A handler goes on to its next statement. *)
LEMMA GotoFacts ==
    ASSUME IInv, NEW p \in Procs, NEW pc, Goto(p, pc)
    PROVE  LET x == req'[p]
               r == req[p]
           IN  /\ req' = [req EXCEPT ![p] = req'[p]]
               /\ Same(r, x) /\ x.pc = pc /\ x.seen = r.seen /\ x.x = r.x /\ x.who = r.who
  <1> DEFINE r == req[p]
             x == [r EXCEPT !.pc = pc]
  <1>1. req = [q \in Procs |-> req[q]] /\ IsRequest(r)
    BY DEF IInv, Requests
  <1>2. req'[p] = x /\ req' = [req EXCEPT ![p] = req'[p]]
    BY <1>1 DEF Goto
  <1> HIDE DEF r
  <1>3. /\ x = [f \in RequestFields |-> x[f]] /\ x.pc = pc
        /\ x.op = r.op /\ x.n = r.n /\ x.user = r.user /\ x.gen = r.gen /\ x.pw = r.pw
        /\ x.how = r.how /\ x.raced = r.raced /\ x.seen = r.seen /\ x.x = r.x /\ x.who = r.who
    BY <1>1 DEF IsRequest, RequestFields
  <1> HIDE DEF x
  <1>4. Same(r, x)
    BY <1>1, <1>3 DEF IsRequest, Same
  <1> QED BY <1>2, <1>3, <1>4 DEF r

(* A request begins. *)
Fresh(p, r) ==
    /\ IsRequest(r) /\ Placed(r) /\ Past(db, r) /\ Fit(db, req, p, r)
    /\ r.op # "idle" /\ r.pc # "revoke"

LEMMA EnterMoves ==
    ASSUME IInv, NEW p \in Procs, NEW r, Enter(p, r), Fresh(p, r)
    PROVE  /\ Moves(db, req, req', p)
           /\ req'[p] = [r EXCEPT !.n = count + 1]
           /\ req'[p].n = count + 1 /\ req'[p].pc = r.pc
           /\ req[p].op = "idle" /\ count' = count + 1
  <1> DEFINE x == [r EXCEPT !.n = count + 1]
  <1>1. req = [q \in Procs |-> req[q]] /\ count \in Nat
    BY DEF IInv, Requests, Numbers
  <1>2. req' = [req EXCEPT ![p] = req'[p]] /\ req'[p] = x /\ count' = count + 1 /\ req[p].op = "idle"
    BY <1>1 DEF Enter
  <1>3. Same([r EXCEPT !.n = count + 1], x) /\ IsRequest(x) /\ x.n = count + 1
    BY <1>1 DEF Fresh, IsRequest, Same
  <1>4. /\ x.op = r.op /\ x.pc = r.pc /\ x.user = r.user /\ x.gen = r.gen /\ x.pw = r.pw
        /\ x.how = r.how /\ x.raced = r.raced /\ x.seen = r.seen /\ x.x = r.x /\ x.who = r.who
    BY DEF Fresh, IsRequest
  <1> HIDE DEF x
  <1>5. Placed(x)
    BY <1>4 DEF Fresh, Placed
  <1>6. Past(db, x)
    BY <1>4 DEF Fresh, Past
  <1>7. Fit(db, req, p, x)
    BY <1>4 DEF Fresh, Fit
  <1>8. req[p].pc # "revoke"
    BY <1>2, BlankFacts DEF IInv, Requests, Placed
  <1> QED BY <1>2, <1>3, <1>4, <1>5, <1>6, <1>7, <1>8 DEF Moves, Fresh, x

LEMMA EnterKeeps ==
    ASSUME IInv, NEW p \in Procs, NEW r, Enter(p, r), Fresh(p, r), Tame(db, db'), UNCHANGED ghosts
    PROVE  IInv'
  <1>1. /\ Moves(db, req, req', p) /\ req'[p].n = count + 1
        /\ req[p].op = "idle" /\ count' = count + 1
    BY EnterMoves
  <1>2. Requests(db', req') /\ Sessions(db', req')
    BY <1>1, RequestsMove, SessionsMove DEF IInv, Tame
  <1>3. IsDb(db') /\ Counter(db', guesses, stale)
    BY CounterTame DEF IInv, Tame
  <1>4. Numbers(db', req', count + 1, spent)
    <2>1. req' = [q \in Procs |-> req'[q]] /\ \A q \in Procs : q # p => req'[q] = req[q]
      BY <1>1, MovesOthers DEF IInv
    <2>2. db'.tickets \subseteq db.tickets
      BY DEF Tame
    <2> QED BY <1>1, <2>1, <2>2, NumbersEnter DEF IInv
  <1> QED BY <1>1, <1>2, <1>3, <1>4 DEF IInv, ghosts

(* A request begins by redeeming a ticket. *)
LEMMA LateFacts ==
    ASSUME NEW kind
    PROVE  LET x == [Blank EXCEPT !.op = kind, !.pc = "late"]
           IN  IsRequest(x) /\ x.op = kind /\ x.pc = "late" /\ x.user = NoUser
  <1> DEFINE b == Blank
             x == [b EXCEPT !.op = kind, !.pc = "late"]
  <1>1. b = [f \in RequestFields |-> b[f]]
    BY BlankFacts DEF IsRequest
  <1> HIDE DEF b
  <1>2. x = [f \in RequestFields |-> x[f]] /\ x.op = kind /\ x.pc = "late"
    BY <1>1 DEF RequestFields
  <1>3. x.n = b.n /\ x.gen = b.gen /\ x.raced = b.raced /\ x.seen = b.seen /\ x.user = b.user
    BY <1>1 DEF RequestFields
  <1>4. b.user = NoUser /\ b.n \in Nat /\ b.gen \in Nat /\ b.raced \in BOOLEAN /\ IsAccount(b.seen)
    BY BlankFacts DEF b, IsRequest
  <1> HIDE DEF x
  <1>5. IsRequest(x)
    BY <1>2, <1>3, <1>4 DEF IsRequest
  <1> QED BY <1>2, <1>3, <1>4, <1>5 DEF x, b

LEMMA LateFresh ==
    ASSUME IInv, NEW p \in Procs, NEW kind, kind \notin {"idle", "login", "register"}
    PROVE  Fresh(p, [Blank EXCEPT !.op = kind, !.pc = "late"])
  <1> DEFINE x == [Blank EXCEPT !.op = kind, !.pc = "late"]
  <1>1. /\ IsRequest(x) /\ x.op = kind /\ x.pc = "late" /\ x.user = NoUser
    BY LateFacts
  <1> HIDE DEF x
  <1>2. Placed(x)
    BY <1>1 DEF Placed, Anonymous
  <1>3. Fit(db, req, p, x) /\ Past(db, x)
    BY <1>1, AccountsAssumption DEF Fit, Past
  <1> QED BY <1>1, <1>2, <1>3 DEF Fresh, x

LEMMA RedeemKeeps ==
    ASSUME IInv, NEW p \in Procs, NEW t \in db.tickets, NEW d, NEW r, Redeem(p, t, d, r),
           Fresh(p, r), r.op \notin {"login", "register"}, Tame(db, d), t \notin d.tickets
    PROVE  IInv'
  <1> DEFINE x == IF t.fresh THEN r ELSE [Blank EXCEPT !.op = r.op, !.pc = "late"]
  <1>1. Fresh(p, x)
    BY LateFresh DEF Fresh
  <1>2. Enter(p, x) /\ db' = d /\ guesses' = guesses /\ stale' = stale
    BY DEF Redeem
  <1>3. spent' = spent \/ spent' = spent \union {<<t.id, count + 1>>}
    BY DEF Redeem
  <1> HIDE DEF x
  <1>4. /\ Moves(db, req, req', p) /\ req'[p].n = count + 1
        /\ req[p].op = "idle" /\ count' = count + 1
    BY <1>1, <1>2, EnterMoves
  <1>5. Requests(db', req') /\ Sessions(db', req')
    BY <1>2, <1>4, RequestsMove, SessionsMove DEF IInv, Tame
  <1>6. IsDb(db') /\ Counter(db', guesses, stale)
    BY <1>2, CounterTame DEF IInv, Tame
  <1>7. req' = [q \in Procs |-> req'[q]] /\ \A q \in Procs : q # p => req'[q] = req[q]
    BY <1>4, MovesOthers DEF IInv
  <1>8. db'.tickets \subseteq db.tickets
    BY <1>2 DEF Tame
  <1>9. Numbers(db', req', count + 1, spent)
    BY <1>4, <1>7, <1>8, NumbersEnter DEF IInv
  <1>10. /\ count \in Nat /\ t.id \in 1..count
         /\ \A x1 \in db.tickets : x1.id = t.id => x1 = t
         /\ \A a \in spent : a[1] # t.id
         /\ \A q \in Procs : req[q].pc = "ticket" => req[q].n # t.id
    BY DEF IInv, Numbers
  <1>11. /\ t.id \in 1..(count + 1)
         /\ \A x1 \in db'.tickets : x1.id # t.id
         /\ \A q \in Procs : req'[q].pc = "ticket" => req'[q].n # t.id
    BY <1>2, <1>4, <1>7, <1>8, <1>10
  <1>12. Numbers(db', req', count + 1, spent')
    <2>1. CASE spent' = spent
      BY <1>9, <2>1
    <2>2. CASE spent' = spent \union {<<t.id, count + 1>>}
      BY <1>9, <1>10, <1>11, <2>2, NumbersRedeem
    <2> QED BY <1>3, <2>1, <2>2
  <1> QED BY <1>2, <1>4, <1>5, <1>6, <1>12 DEF IInv

(* A request makes a ticket under its own number. *)
LEMMA NumbersTicket ==
    ASSUME NEW d, NEW e, NEW R, NEW c, NEW sp, NEW t, e.tickets = d.tickets \union {t},
           IsTicket(t), t.id \in 1..c, Numbers(d, R, c, sp),
           \A x \in d.tickets : x.id # t.id, \A a \in sp : a[1] # t.id,
           \A q \in Procs : R[q].pc = "ticket" => R[q].n # t.id
    PROVE  Numbers(e, R, c, sp)
  BY DEF Numbers

LEMMA TicketFacts ==
    ASSUME NEW kind, NEW n, NEW u, u \in Users \/ kind \notin {"reset", "login", "reg"}
    PROVE  IsTicket(Ticket(kind, n, u)) /\ Ticket(kind, n, u).id = n
  <1> DEFINE t == Ticket(kind, n, u)
  <1>1. t = [f \in TicketFields |-> t[f]]
    BY DEF Ticket, TicketFields
  <1>2. t.kind = kind /\ t.id = n /\ t.user = u
    BY DEF Ticket
  <1> HIDE DEF t
  <1>3. IsTicket(t)
    BY <1>1, <1>2 DEF IsTicket
  <1> QED BY <1>2, <1>3 DEF t

(* The tables with one more ticket. *)
WithTicket(d, t) == [d EXCEPT !.tickets = @ \union {t}]

LEMMA WithTicketTame ==
    ASSUME NEW d, NEW R, NEW t, IsDb(d), Sessions(d, R)
    PROVE  LET e == WithTicket(d, t)
           IN  /\ IsDb(e) /\ Level(d, e) /\ Counted(d, e) /\ Slid(d, e)
               /\ e.tickets = d.tickets \union {t}
  <1> DEFINE e == WithTicket(d, t)
  <1>1. /\ e.account = d.account /\ e.sessions = d.sessions /\ e.tickets = d.tickets \union {t}
        /\ IsDb(e)
    BY DEF WithTicket, IsDb
  <1>2. Slid(d, d)
    BY TameRefl
  <1> QED BY <1>1, <1>2 DEF Level, Alike, Counted, Slid

LEMMA MakeTicketKeeps ==
    ASSUME IInv, NEW p \in Procs, NEW kind, req[p].pc = "ticket",
           kind \in {"reset", "login", "reg"},
           Statement(p, WithTicket(db, Ticket(kind, req[p].n, req[p].user)), "done"), UNCHANGED ghosts
    PROVE  IInv'
  <1> DEFINE t == Ticket(kind, req[p].n, req[p].user)
  <1>1. req = [q \in Procs |-> req[q]] /\ Placed(req[p]) /\ IsRequest(req[p])
    BY DEF IInv, Requests
  <1>2. req[p].op # "idle" /\ req[p].user \in Users
    BY <1>1, BlankFacts DEF Placed, Anonymous
  <1>3. Answer(p) /\ count' = count /\ (db' = db \/ db' = WithTicket(db, t))
    BY DEF Statement, Quiet
  <1>4. CASE db' = db
    BY <1>2, <1>3, <1>4, AnswerKeeps, TameRefl DEF IInv
  <1>5. CASE db' = WithTicket(db, t)
    <2>1. /\ IsDb(db') /\ Level(db, db') /\ Counted(db, db') /\ Slid(db, db')
          /\ db'.tickets = db.tickets \union {t}
      BY <1>5, WithTicketTame DEF IInv
    <2>2. req'[p] = Blank /\ req' = [req EXCEPT ![p] = req'[p]]
      BY <1>1, <1>3 DEF Answer
    <2>3. Moves(db, req, req', p)
      BY <2>2, BlankFacts, BlankFits DEF Moves
    <2>4. Requests(db', req') /\ Sessions(db', req') /\ Counter(db', guesses, stale)
      BY <2>1, <2>3, RequestsMove, SessionsMove, CounterTame DEF IInv
    <2>5. req' = [q \in Procs |-> req'[q]] /\ \A q \in Procs : q # p => req'[q] = req[q]
      BY <2>3, MovesOthers DEF IInv
    <2>6. Numbers(db, req', count, spent)
      BY <1>2, <2>2, <2>5, BlankFacts, NumbersMove DEF IInv
    <2>7. IsTicket(t) /\ t.id = req[p].n
      BY <1>2, TicketFacts
    <2>8. /\ t.id \in 1..count
          /\ \A x \in db.tickets : x.id # t.id
          /\ \A a \in spent : a[1] # t.id
          /\ \A q \in Procs : q # p /\ req[q].op # "idle" => req[q].n # t.id
      BY <1>2, <2>7 DEF IInv, Numbers
    <2>9. \A q \in Procs : req'[q].pc = "ticket" => req'[q].n # t.id
      <3> SUFFICES ASSUME NEW q \in Procs, req'[q].pc = "ticket" PROVE req'[q].n # t.id
        OBVIOUS
      <3>1. q # p /\ req'[q] = req[q]
        BY <2>2, <2>5, BlankFacts
      <3>2. req[q].op # "idle"
        BY <3>1, BlankFacts DEF IInv, Requests, Placed
      <3> QED BY <2>8, <3>1, <3>2
    <2>10. Numbers(db', req', count, spent)
      BY <2>1, <2>6, <2>7, <2>8, <2>9, NumbersTicket
    <2> QED BY <1>3, <2>1, <2>4, <2>10 DEF IInv, ghosts
  <1> QED BY <1>3, <1>4, <1>5

(* No request takes a step. *)
LEMMA LevelKeeps ==
    ASSUME NEW d, NEW e, NEW R, Requests(d, R), Sessions(d, R), Level(d, e), Slid(d, e)
    PROVE  Requests(e, R) /\ Sessions(e, R)
  <1>1. \A q \in Procs, u \in Users : Revokes(e, R, q, u) <=> Revokes(d, R, q, u)
    BY DEF Revokes, Level, Alike
  <1>2. ASSUME NEW q \in Procs PROVE Fit(e, R, q, R[q]) /\ Past(e, R[q])
    <2>1. CASE R[q].user \in Users
      BY <1>1, <2>1 DEF Requests, Fit, Past, Holds, Level, Alike
    <2>2. CASE R[q].user \notin Users
      BY <2>2 DEF Fit, Past
    <2> QED BY <2>1, <2>2
  <1>3. ASSUME NEW s \in e.sessions
        PROVE  IsSession(s) /\ e.account[s.user].present /\ Entitled(e, R, s)
    <2>1. PICK x \in d.sessions : /\ s.user = x.user /\ s.how = x.how /\ s.pw = x.pw
                                  /\ s.raced = x.raced /\ s.kept = x.kept
      BY DEF Slid
    <2>2. IsSession(s) /\ s.user \in Users
      BY DEF Slid, IsSession
    <2>3. d.account[x.user].present /\ Entitled(d, R, x)
      BY DEF Sessions
    <2> QED BY <1>1, <2>1, <2>2, <2>3 DEF Entitled, Level, Alike
  <1> QED BY <1>2, <1>3 DEF Requests, Sessions

(* A request of one statement that makes a ticket. *)
LEMMA OnceKeeps ==
    ASSUME IInv, NEW kind, kind \notin {"reset", "login", "reg"}, NEW op, Once(op),
           db' = WithTicket(db, Ticket(kind, count + 1, NoUser))
    PROVE  IInv'
  <1> DEFINE t == Ticket(kind, count + 1, NoUser)
  <1>1. /\ IsDb(db') /\ Level(db, db') /\ Counted(db, db') /\ Slid(db, db')
        /\ db'.tickets = db.tickets \union {t}
    BY WithTicketTame DEF IInv
  <1>2. req' = req /\ count' = count + 1 /\ spent' = spent /\ guesses' = guesses /\ stale' = stale
    BY DEF Once, ghosts
  <1>3. count \in Nat /\ IsTicket(t) /\ t.id = count + 1
    BY TicketFacts DEF IInv, Numbers
  <1>4. Numbers(db, req, count + 1, spent)
    BY <1>3 DEF IInv, Numbers
  <1>5. /\ \A x \in db.tickets : x.id # t.id
        /\ \A a \in spent : a[1] # t.id
        /\ \A q \in Procs : req[q].op # "idle" => req[q].n # t.id
    BY <1>3 DEF IInv, Numbers
  <1>6. \A q \in Procs : req[q].pc = "ticket" => req[q].n # t.id
    BY <1>5, BlankFacts DEF IInv, Requests, Placed
  <1>7. Numbers(db', req, count + 1, spent)
    <2>1. t.id \in 1..(count + 1)
      BY <1>3
    <2> QED BY <1>1, <1>3, <1>4, <1>5, <1>6, <2>1, NumbersTicket
  <1>8. Requests(db', req) /\ Sessions(db', req) /\ Counter(db', guesses, stale)
    BY <1>1, LevelKeeps, CounterTame DEF IInv
  <1> QED BY <1>1, <1>2, <1>7, <1>8 DEF IInv

-----------------------------------------------------------------------------
(***************************************************************************)
(* What the statements do                                                  *)
(***************************************************************************)
(* One account is written. *)
Writes(d, e, u) ==
    /\ IsDb(e)
    /\ e.sessions = d.sessions /\ e.tickets = d.tickets
    /\ \A v \in Users \ {u} : e.account[v] = d.account[v]

LEMMA WriteAccount ==
    ASSUME NEW d, IsDb(d), NEW u \in Users, NEW a, IsAccount(a)
    PROVE  LET e == [d EXCEPT !.account[u] = a]
           IN  Writes(d, e, u) /\ e.account[u] = a
  <1> DEFINE e == [d EXCEPT !.account[u] = a]
  <1>1. /\ e = [f \in TableNames |-> e[f]]
        /\ e.sessions = d.sessions /\ e.tickets = d.tickets /\ e.links = d.links
        /\ e.account = [d.account EXCEPT ![u] = a]
    BY DEF IsDb, TableNames
  <1>2. d.account = [v \in Users |-> d.account[v]]
    BY DEF IsDb
  <1> HIDE DEF e
  <1>3. /\ e.account = [v \in Users |-> e.account[v]]
        /\ \A v \in Users \ {u} : e.account[v] = d.account[v]
        /\ e.account[u] = a
    BY <1>1, <1>2
  <1>4. IsDb(e)
    BY <1>1, <1>3 DEF IsDb
  <1> QED BY <1>1, <1>3, <1>4 DEF Writes, e

LEMMA DigestFacts ==
    ASSUME NEW d, IsDb(d), NEW u \in Users, NEW pw
    PROVE  LET e == SetPasswordDigest(d, u, pw)
               a == d.account[u]
               b == e.account[u]
           IN  /\ Writes(d, e, u)
               /\ b.present = a.present /\ b.gen = a.gen /\ b.disabled = a.disabled
               /\ b.fails = a.fails /\ b.locked = a.locked /\ b.pw = pw
               /\ b.totp = a.totp /\ b.secret = a.secret
  <1> DEFINE a == d.account[u]
             b == [a EXCEPT !.pw = pw]
             e == SetPasswordDigest(d, u, pw)
  <1>1. IsAccount(a)
    BY DEF IsDb
  <1> HIDE DEF a
  <1>2. /\ b.present = a.present /\ b.gen = a.gen /\ b.disabled = a.disabled
        /\ b.fails = a.fails /\ b.locked = a.locked /\ b.pw = pw
        /\ b.totp = a.totp /\ b.secret = a.secret /\ b = [f \in AccountFields |-> b[f]]
    BY <1>1 DEF IsAccount, AccountFields
  <1> HIDE DEF b
  <1>3. IsAccount(b)
    BY <1>1, <1>2 DEF IsAccount
  <1>4. e = [d EXCEPT !.account[u] = b]
    BY DEF SetPasswordDigest, b, a
  <1>5. Writes(d, e, u) /\ e.account[u] = b
    BY <1>3, <1>4, WriteAccount
  <1> QED BY <1>2, <1>5 DEF a

LEMMA DisabledFacts ==
    ASSUME NEW d, IsDb(d), NEW u \in Users, NEW flag, flag \in BOOLEAN
    PROVE  LET e == SetUserDisabled(d, u, flag)
               a == d.account[u]
               b == e.account[u]
           IN  /\ Writes(d, e, u)
               /\ b.present = a.present /\ b.gen = a.gen /\ b.pw = a.pw /\ b.fails = a.fails
               /\ b.locked = a.locked /\ b.totp = a.totp /\ b.secret = a.secret
               /\ b.disabled = flag
  <1> DEFINE a == d.account[u]
             b == [a EXCEPT !.disabled = flag]
             e == SetUserDisabled(d, u, flag)
  <1>1. IsAccount(a)
    BY DEF IsDb
  <1> HIDE DEF a
  <1>2. /\ b.present = a.present /\ b.gen = a.gen /\ b.pw = a.pw /\ b.fails = a.fails
        /\ b.locked = a.locked /\ b.totp = a.totp /\ b.secret = a.secret
        /\ b.disabled = flag /\ b = [f \in AccountFields |-> b[f]]
    BY <1>1 DEF IsAccount, AccountFields
  <1> HIDE DEF b
  <1>3. IsAccount(b)
    BY <1>1, <1>2 DEF IsAccount
  <1>4. e = [d EXCEPT !.account[u] = b]
    BY DEF SetUserDisabled, b, a
  <1>5. Writes(d, e, u) /\ e.account[u] = b
    BY <1>3, <1>4, WriteAccount
  <1> QED BY <1>2, <1>5 DEF a

LEMMA LoginStateFacts ==
    ASSUME NEW d, IsDb(d), NEW u \in Users, NEW fails \in Nat, NEW locked, locked \in BOOLEAN
    PROVE  LET e == SetLoginState(d, u, fails, locked)
               a == d.account[u]
               b == e.account[u]
           IN  /\ Writes(d, e, u)
               /\ b.present = a.present /\ b.gen = a.gen /\ b.pw = a.pw
               /\ b.disabled = a.disabled /\ b.totp = a.totp /\ b.secret = a.secret
               /\ b.fails = fails /\ b.locked = locked
  <1> DEFINE a == d.account[u]
             b == [a EXCEPT !.fails = fails, !.locked = locked]
             e == SetLoginState(d, u, fails, locked)
  <1>1. IsAccount(a)
    BY DEF IsDb
  <1> HIDE DEF a
  <1>2. /\ b.present = a.present /\ b.gen = a.gen /\ b.pw = a.pw /\ b.disabled = a.disabled
        /\ b.totp = a.totp /\ b.secret = a.secret
        /\ b.fails = fails /\ b.locked = locked /\ b = [f \in AccountFields |-> b[f]]
    BY <1>1 DEF IsAccount, AccountFields
  <1> HIDE DEF b
  <1>3. IsAccount(b)
    BY <1>1, <1>2 DEF IsAccount
  <1>4. e = [d EXCEPT !.account[u] = b]
    BY DEF SetLoginState, b, a
  <1>5. Writes(d, e, u) /\ e.account[u] = b
    BY <1>3, <1>4, WriteAccount
  <1> QED BY <1>2, <1>5 DEF a

LEMMA TotpFacts ==
    ASSUME NEW d, IsDb(d), NEW u \in Users, NEW secret, NEW on, on \in BOOLEAN
    PROVE  LET e == SetTotp(d, u, secret, on)
               a == d.account[u]
               b == e.account[u]
           IN  /\ Writes(d, e, u)
               /\ b.present = a.present /\ b.gen = a.gen /\ b.pw = a.pw
               /\ b.disabled = a.disabled /\ b.fails = a.fails /\ b.locked = a.locked
               /\ b.secret = secret /\ b.totp = on
  <1> DEFINE a == d.account[u]
             b == [a EXCEPT !.secret = secret, !.totp = on]
             e == SetTotp(d, u, secret, on)
  <1>1. IsAccount(a)
    BY DEF IsDb
  <1> HIDE DEF a
  <1>2. /\ b.present = a.present /\ b.gen = a.gen /\ b.pw = a.pw /\ b.disabled = a.disabled
        /\ b.fails = a.fails /\ b.locked = a.locked
        /\ b.secret = secret /\ b.totp = on /\ b = [f \in AccountFields |-> b[f]]
    BY <1>1 DEF IsAccount, AccountFields
  <1> HIDE DEF b
  <1>3. IsAccount(b)
    BY <1>1, <1>2 DEF IsAccount
  <1>4. e = [d EXCEPT !.account[u] = b]
    BY DEF SetTotp, b, a
  <1>5. Writes(d, e, u) /\ e.account[u] = b
    BY <1>3, <1>4, WriteAccount
  <1> QED BY <1>2, <1>5 DEF a

LEMMA UpdateFacts ==
    ASSUME NEW d, IsDb(d), NEW u \in Users, NEW admin
    PROVE  LET e == UpdateUser(d, u, admin)
               a == d.account[u]
               b == e.account[u]
           IN  /\ Writes(d, e, u)
               /\ b.present = a.present /\ b.gen = a.gen /\ b.pw = a.pw
               /\ b.disabled = a.disabled /\ b.fails = a.fails /\ b.locked = a.locked
               /\ b.totp = a.totp /\ b.secret = a.secret
  <1> DEFINE a == d.account[u]
             b == [a EXCEPT !.admin = admin]
             e == UpdateUser(d, u, admin)
  <1>1. IsAccount(a)
    BY DEF IsDb
  <1> HIDE DEF a
  <1>2. /\ b.present = a.present /\ b.gen = a.gen /\ b.pw = a.pw /\ b.disabled = a.disabled
        /\ b.fails = a.fails /\ b.locked = a.locked /\ b.totp = a.totp /\ b.secret = a.secret
        /\ b = [f \in AccountFields |-> b[f]]
    BY <1>1 DEF IsAccount, AccountFields
  <1> HIDE DEF b
  <1>3. IsAccount(b)
    BY <1>1, <1>2 DEF IsAccount
  <1>4. e = [d EXCEPT !.account[u] = b]
    BY DEF UpdateUser, b, a
  <1>5. Writes(d, e, u) /\ e.account[u] = b
    BY <1>3, <1>4, WriteAccount
  <1> QED BY <1>2, <1>5 DEF a

LEMMA SubFacts ==
    ASSUME NEW d, IsDb(d), NEW u \in Users, NEW sub
    PROVE  LET e == SetOidcSub(d, u, sub)
               a == d.account[u]
               b == e.account[u]
           IN  /\ Writes(d, e, u)
               /\ b.present = a.present /\ b.gen = a.gen /\ b.pw = a.pw
               /\ b.disabled = a.disabled /\ b.fails = a.fails /\ b.locked = a.locked
               /\ b.totp = a.totp /\ b.secret = a.secret
  <1> DEFINE a == d.account[u]
             b == [a EXCEPT !.sub = sub]
             e == SetOidcSub(d, u, sub)
  <1>1. IsAccount(a)
    BY DEF IsDb
  <1> HIDE DEF a
  <1>2. /\ b.present = a.present /\ b.gen = a.gen /\ b.pw = a.pw /\ b.disabled = a.disabled
        /\ b.fails = a.fails /\ b.locked = a.locked /\ b.totp = a.totp /\ b.secret = a.secret
        /\ b = [f \in AccountFields |-> b[f]]
    BY <1>1 DEF IsAccount, AccountFields
  <1> HIDE DEF b
  <1>3. IsAccount(b)
    BY <1>1, <1>2 DEF IsAccount
  <1>4. e = [d EXCEPT !.account[u] = b]
    BY DEF SetOidcSub, b, a
  <1>5. Writes(d, e, u) /\ e.account[u] = b
    BY <1>3, <1>4, WriteAccount
  <1> QED BY <1>2, <1>5 DEF a

LEMMA UnlockFacts ==
    ASSUME NEW d, IsDb(d), NEW u \in Users
    PROVE  LET e == [d EXCEPT !.account[u].locked = FALSE]
               a == d.account[u]
               b == e.account[u]
           IN  /\ Writes(d, e, u)
               /\ b.present = a.present /\ b.gen = a.gen /\ b.pw = a.pw
               /\ b.disabled = a.disabled /\ b.fails = a.fails /\ b.totp = a.totp
               /\ b.secret = a.secret
               /\ b.locked = FALSE
  <1> DEFINE a == d.account[u]
             b == [a EXCEPT !.locked = FALSE]
             e == [d EXCEPT !.account[u].locked = FALSE]
  <1>1. IsAccount(a)
    BY DEF IsDb
  <1> HIDE DEF a
  <1>2. /\ b.present = a.present /\ b.gen = a.gen /\ b.pw = a.pw /\ b.disabled = a.disabled
        /\ b.fails = a.fails /\ b.totp = a.totp /\ b.secret = a.secret
        /\ b.locked = FALSE /\ b = [f \in AccountFields |-> b[f]]
    BY <1>1 DEF IsAccount, AccountFields
  <1> HIDE DEF b
  <1>3. IsAccount(b)
    BY <1>1, <1>2 DEF IsAccount
  <1>4. e = [d EXCEPT !.account[u] = b]
    BY DEF b, a
  <1> HIDE DEF e
  <1>5. Writes(d, e, u) /\ e.account[u] = b
    BY <1>3, <1>4, WriteAccount
  <1> QED BY <1>2, <1>5 DEF a, e

(* A write that only touches what no invariant is about. *)
LEMMA WriteTame ==
    ASSUME NEW d, NEW e, NEW R, NEW u \in Users, IsDb(d), Sessions(d, R), Writes(d, e, u),
           LET a == d.account[u]
               b == e.account[u]
           IN  /\ b.present = a.present /\ b.gen = a.gen /\ b.pw = a.pw /\ (b.disabled => a.disabled)
               /\ b.fails = a.fails /\ b.locked = a.locked
    PROVE  Tame(d, e)
  <1>1. Slid(d, e)
    BY TameRefl DEF Writes, Slid
  <1>2. Level(d, e)
    BY DEF Writes, Level, Alike
  <1>3. Counted(d, e)
    BY DEF Writes, Counted
  <1> QED BY <1>1, <1>2, <1>3 DEF Tame, Writes

(* A write to another table. *)
LEMMA ElsewhereTame ==
    ASSUME NEW d, NEW e, NEW R, IsDb(d), Sessions(d, R), IsDb(e), e.account = d.account,
           e.sessions = d.sessions, e.tickets \subseteq d.tickets
    PROVE  Tame(d, e)
  BY TameRefl DEF Tame, Level, Alike, Counted, Slid

LEMMA UpdateTame ==
    ASSUME NEW d, NEW R, NEW u \in Users, NEW admin, IsDb(d), Sessions(d, R)
    PROVE  Tame(d, UpdateUser(d, u, admin))
  <1> DEFINE e == UpdateUser(d, u, admin)
             a == d.account[u]
             b == e.account[u]
  <1>1. /\ Writes(d, e, u) /\ b.present = a.present /\ b.gen = a.gen /\ b.pw = a.pw
        /\ b.disabled = a.disabled /\ b.fails = a.fails /\ b.locked = a.locked
    BY UpdateFacts
  <1> HIDE DEF e
  <1>2. Tame(d, e)
    BY <1>1, WriteTame
  <1> QED BY <1>2 DEF e

LEMMA SubTame ==
    ASSUME NEW d, NEW R, NEW u \in Users, NEW sub, IsDb(d), Sessions(d, R)
    PROVE  Tame(d, SetOidcSub(d, u, sub))
  <1> DEFINE e == SetOidcSub(d, u, sub)
             a == d.account[u]
             b == e.account[u]
  <1>1. /\ Writes(d, e, u) /\ b.present = a.present /\ b.gen = a.gen /\ b.pw = a.pw
        /\ b.disabled = a.disabled /\ b.fails = a.fails /\ b.locked = a.locked
    BY SubFacts
  <1> HIDE DEF e
  <1>2. Tame(d, e)
    BY <1>1, WriteTame
  <1> QED BY <1>2 DEF e

LEMMA TotpTame ==
    ASSUME NEW d, NEW R, NEW u \in Users, NEW secret, NEW on, on \in BOOLEAN, IsDb(d), Sessions(d, R)
    PROVE  Tame(d, SetTotp(d, u, secret, on))
  <1> DEFINE e == SetTotp(d, u, secret, on)
             a == d.account[u]
             b == e.account[u]
  <1>1. /\ Writes(d, e, u) /\ b.present = a.present /\ b.gen = a.gen /\ b.pw = a.pw
        /\ b.disabled = a.disabled /\ b.fails = a.fails /\ b.locked = a.locked
    BY TotpFacts
  <1> HIDE DEF e
  <1>2. Tame(d, e)
    BY <1>1, WriteTame
  <1> QED BY <1>2 DEF e

LEMMA EnableTame ==
    ASSUME NEW d, NEW R, NEW u \in Users, IsDb(d), Sessions(d, R)
    PROVE  Tame(d, SetUserDisabled(d, u, FALSE))
  <1> DEFINE no == FALSE
             e == SetUserDisabled(d, u, no)
             a == d.account[u]
             b == e.account[u]
  <1>1. no \in BOOLEAN /\ ~no
    OBVIOUS
  <1> HIDE DEF no
  <1>2. /\ Writes(d, e, u) /\ b.present = a.present /\ b.gen = a.gen /\ b.pw = a.pw
        /\ b.disabled = no /\ b.fails = a.fails /\ b.locked = a.locked
    BY <1>1, DisabledFacts
  <1> HIDE DEF e
  <1>3. b.disabled => a.disabled
    BY <1>1, <1>2
  <1>4. Tame(d, e)
    BY <1>2, <1>3, WriteTame
  <1> QED BY <1>4 DEF e, no

LEMMA TouchTame ==
    ASSUME NEW d, NEW R, NEW id, IsDb(d), Sessions(d, R)
    PROVE  Tame(d, TouchSession(d, id))
  <1> DEFINE e == TouchSession(d, id)
  <1>1. /\ e = [f \in TableNames |-> e[f]]
        /\ e.account = d.account /\ e.tickets = d.tickets /\ e.links = d.links
        /\ e.sessions = {IF s.id = id THEN [s EXCEPT !.live = TRUE] ELSE s : s \in d.sessions}
    BY DEF TouchSession, IsDb, TableNames
  <1> HIDE DEF e
  <1>2. ASSUME NEW s \in e.sessions
        PROVE  IsSession(s) /\ \E x \in d.sessions :
                  /\ s.user = x.user /\ s.how = x.how /\ s.pw = x.pw
                  /\ s.raced = x.raced /\ s.kept = x.kept
    <2>1. PICK x \in d.sessions : s = IF x.id = id THEN [x EXCEPT !.live = TRUE] ELSE x
      BY <1>1
    <2>2. IsSession(x)
      BY DEF Sessions
    <2>3. CASE s = x
      BY <2>2, <2>3
    <2>4. CASE s = [x EXCEPT !.live = TRUE]
      <3>1. /\ s = [f \in SessionFields |-> s[f]] /\ s.user = x.user /\ s.how = x.how
            /\ s.pw = x.pw /\ s.raced = x.raced /\ s.kept = x.kept
        BY <2>2, <2>4 DEF IsSession, SessionFields
      <3> QED BY <2>2, <3>1 DEF IsSession
    <2> QED BY <2>1, <2>3, <2>4
  <1>3. Slid(d, e)
    BY <1>2 DEF Slid
  <1>4. IsDb(e) /\ Level(d, e) /\ Counted(d, e)
    BY <1>1 DEF IsDb, Level, Alike, Counted
  <1> QED BY <1>1, <1>3, <1>4 DEF Tame, e

(* Sessions and tickets go. *)
LEMMA FewerTame ==
    ASSUME NEW d, NEW e, NEW R, IsDb(d), Sessions(d, R), IsDb(e), e.account = d.account,
           e.sessions \subseteq d.sessions, e.tickets \subseteq d.tickets
    PROVE  Tame(d, e)
  <1>1. Slid(d, e)
    BY DEF Sessions, Slid
  <1> QED BY <1>1 DEF Tame, Level, Alike, Counted

LEMMA DeleteSessionTame ==
    ASSUME NEW d, NEW R, NEW id, IsDb(d), Sessions(d, R)
    PROVE  Tame(d, DeleteSession(d, id))
  <1> DEFINE e == DeleteSession(d, id)
  <1>1. /\ e = [f \in TableNames |-> e[f]]
        /\ e.account = d.account /\ e.tickets = d.tickets /\ e.links = d.links
        /\ e.sessions = {s \in d.sessions : s.id # id}
    BY DEF DeleteSession, IsDb, TableNames
  <1> HIDE DEF e
  <1>2. IsDb(e)
    BY <1>1 DEF IsDb
  <1> QED BY <1>1, <1>2, FewerTame DEF e

LEMMA WithoutTicket ==
    ASSUME NEW d, IsDb(d), NEW t
    PROVE  LET e == [d EXCEPT !.tickets = @ \ {t}]
           IN  /\ IsDb(e) /\ e.account = d.account /\ e.sessions = d.sessions
               /\ e.tickets = d.tickets \ {t}
  <1> DEFINE e == [d EXCEPT !.tickets = @ \ {t}]
  <1>1. /\ e = [f \in TableNames |-> e[f]]
        /\ e.account = d.account /\ e.sessions = d.sessions /\ e.links = d.links
        /\ e.tickets = d.tickets \ {t}
    BY DEF IsDb, TableNames
  <1> HIDE DEF e
  <1>2. IsDb(e)
    BY <1>1 DEF IsDb
  <1> QED BY <1>1, <1>2 DEF e

LEMMA ConsumeTame ==
    ASSUME NEW d, NEW R, NEW t, IsDb(d), Sessions(d, R)
    PROVE  LET e == [d EXCEPT !.tickets = @ \ {t}] IN Tame(d, e) /\ t \notin e.tickets
  <1> DEFINE e == [d EXCEPT !.tickets = @ \ {t}]
  <1>1. /\ IsDb(e) /\ e.account = d.account /\ e.sessions = d.sessions
        /\ e.tickets = d.tickets \ {t}
    BY WithoutTicket
  <1> HIDE DEF e
  <1>2. Tame(d, e)
    BY <1>1, ElsewhereTame
  <1> QED BY <1>1, <1>2 DEF e

Creates(d, e, u) ==
    LET b == e.account[u]
    IN  /\ Writes(d, e, u)
        /\ b.present /\ b.gen = d.account[u].gen + 1 /\ ~b.disabled
        /\ b.fails = 0 /\ ~b.locked /\ ~b.totp

LEMMA CreateFacts ==
    ASSUME NEW d, IsDb(d), NEW u \in Users
    PROVE  Creates(d, CreateUser(d, u, FALSE), u)
  <1> DEFINE e == CreateUser(d, u, FALSE)
             b == NewAccount(d.account[u].gen + 1, FALSE)
  <1>1. d.account[u].gen + 1 \in Nat
    BY RowFacts
  <1>2. /\ IsAccount(b) /\ b.present = TRUE /\ b.gen = d.account[u].gen + 1 /\ b.disabled = FALSE
        /\ b.fails = 0 /\ b.locked = FALSE /\ b.totp = FALSE
    <2>1. IsAccount(b)
      BY <1>1, NewAccountRow
    <2>2. /\ b.present = TRUE /\ b.gen = d.account[u].gen + 1 /\ b.disabled = FALSE
          /\ b.fails = 0 /\ b.locked = FALSE /\ b.totp = FALSE
      BY DEF NewAccount
    <2> QED BY <2>1, <2>2
  <1>3. e = [d EXCEPT !.account[u] = b]
    BY DEF CreateUser
  <1> HIDE DEF b
  <1> HIDE DEF e
  <1>4. Writes(d, e, u) /\ e.account[u] = b
    BY <1>2, <1>3, WriteAccount
  <1>5. e.account[u].present /\ ~e.account[u].disabled /\ ~e.account[u].locked /\ ~e.account[u].totp
    BY <1>2, <1>4, Zenon
  <1>6. e.account[u].gen = d.account[u].gen + 1 /\ e.account[u].fails = 0
    BY <1>2, <1>4
  <1>7. Creates(d, e, u)
    BY <1>4, <1>5, <1>6 DEF Creates
  <1> QED BY <1>7 DEF e

LEMMA DeleteFacts ==
    ASSUME NEW d, IsDb(d), NEW u \in Users
    PROVE  LET e == DeleteUser(d, u)
               b == e.account[u]
           IN  /\ IsDb(e)
               /\ \A v \in Users \ {u} : e.account[v] = d.account[v]
               /\ ~b.present /\ b.gen = d.account[u].gen /\ ~b.totp
               /\ e.sessions = {s \in d.sessions : s.user # u} /\ e.tickets \subseteq d.tickets
  <1> DEFINE e == DeleteUser(d, u)
             b == Absent(d.account[u].gen)
  <1>1. IsAccount(b) /\ ~b.present /\ b.gen = d.account[u].gen /\ ~b.totp
    BY NewAccountFacts DEF IsDb, IsAccount
  <1> HIDE DEF b
  <1>2. /\ e = [f \in TableNames |-> e[f]]
        /\ e.account = [d.account EXCEPT ![u] = b]
        /\ e.sessions = {s \in d.sessions : s.user # u}
        /\ e.tickets \subseteq d.tickets /\ e.links \subseteq d.links
    BY DEF DeleteUser, IsDb, TableNames, b
  <1>3. d.account = [v \in Users |-> d.account[v]]
    BY DEF IsDb
  <1> HIDE DEF e
  <1>4. /\ e.account = [v \in Users |-> e.account[v]]
        /\ \A v \in Users \ {u} : e.account[v] = d.account[v]
        /\ e.account[u] = b
    BY <1>2, <1>3
  <1>5. IsDb(e)
    BY <1>1, <1>2, <1>4 DEF IsDb
  <1> QED BY <1>1, <1>2, <1>4, <1>5 DEF e

-----------------------------------------------------------------------------
(***************************************************************************)
(* Accounts come and go: nobody in flight holds the row                    *)
(***************************************************************************)
(* One request takes a step. *)
Steps(R, Q, p) == Q = [R EXCEPT ![p] = Q[p]]

LEMMA ReplacedKeeps ==
    ASSUME NEW d, NEW e, NEW R, NEW Q, NEW p \in Procs, NEW u \in Users,
           Requests(d, R), Sessions(d, R), IsDb(d), IsDb(e),
           \A v \in Users \ {u} : e.account[v] = d.account[v],
           d.account[u].gen <= e.account[u].gen,
           \A q \in Procs \ {p} : R[q].user = u => ~Holds(e, u, R[q].gen),
           e.sessions \subseteq {s \in d.sessions : s.user # u},
           Steps(R, Q, p), IsRequest(Q[p]), Placed(Q[p]), Past(e, Q[p]),
           Fit(e, Q, p, Q[p]), R[p].pc # "revoke", Q[p].pc # "revoke"
    PROVE  Requests(e, Q) /\ Sessions(e, Q)
  <1>1. Q = [q \in Procs |-> Q[q]] /\ \A q \in Procs : q # p => Q[q] = R[q]
    BY DEF Requests, Steps
  <1>2. ASSUME NEW o \in Procs, NEW v \in Users \ {u}
        PROVE  Revokes(e, Q, o, v) <=> Revokes(d, R, o, v)
    BY <1>1 DEF Revokes
  <1>3. ASSUME NEW q \in Procs, q # p PROVE Past(e, R[q]) /\ Fit(e, Q, q, R[q])
    <2>1. IsRequest(R[q]) /\ Past(d, R[q]) /\ Fit(d, R, q, R[q]) /\ R[q].gen \in Nat
      BY DEF Requests, IsRequest
    <2>2. CASE R[q].user = u
      <3>1. d.account[u].gen \in Nat /\ e.account[u].gen \in Nat
        BY RowFacts
      <3>2. Past(e, R[q])
        BY <2>1, <2>2, <3>1 DEF Past
      <3>3. Fit(e, Q, q, R[q])
        BY <1>3, <2>2 DEF Fit
      <3> QED BY <3>2, <3>3
    <2>3. CASE R[q].user \in Users \ {u}
      <3>1. \A o \in Procs : Revokes(e, Q, o, R[q].user) <=> Revokes(d, R, o, R[q].user)
        BY <1>2, <2>3
      <3>2. e.account[R[q].user] = d.account[R[q].user]
        BY <2>3
      <3>3. Past(e, R[q])
        BY <2>1, <2>3, <3>2 DEF Past
      <3>4. Fit(e, Q, q, R[q])
        BY <2>1, <2>3, <3>1, <3>2 DEF Fit, Holds
      <3> QED BY <3>3, <3>4
    <2>4. CASE R[q].user \notin Users
      BY <2>4 DEF Past, Fit
    <2> QED BY <2>2, <2>3, <2>4
  <1>4. Requests(e, Q)
    <2>1. ASSUME NEW q \in Procs
          PROVE  IsRequest(Q[q]) /\ Placed(Q[q]) /\ Past(e, Q[q]) /\ Fit(e, Q, q, Q[q])
      <3>1. CASE q = p
        BY <3>1
      <3>2. CASE q # p
        BY <1>1, <1>3, <3>2 DEF Requests
      <3> QED BY <3>1, <3>2
    <2> QED BY <1>1, <2>1 DEF Requests
  <1>5. ASSUME NEW s \in e.sessions
        PROVE  IsSession(s) /\ e.account[s.user].present /\ Entitled(e, Q, s)
    <2>1. /\ s \in d.sessions /\ IsSession(s) /\ s.user \in Users \ {u}
          /\ d.account[s.user].present /\ Entitled(d, R, s)
      BY DEF Sessions, IsSession
    <2>2. \A o \in Procs : Revokes(e, Q, o, s.user) <=> Revokes(d, R, o, s.user)
      BY <1>2, <2>1
    <2>3. e.account[s.user] = d.account[s.user]
      BY <2>1
    <2> QED BY <2>1, <2>2, <2>3 DEF Entitled
  <1> QED BY <1>4, <1>5 DEF Sessions

(* The request that has just created the account. *)
Born(r, u) ==
    /\ IsRequest(r) /\ Placed(r) /\ r.user = u /\ r.gen = db.account[u].gen + 1
    /\ r.op \notin {"idle", "login", "change"} /\ r.pc \notin {"revoke", "ticket"}

LEMMA CreateParts ==
    ASSUME IInv, NEW p \in Procs, NEW u \in Users, ~db.account[u].present,
           Creates(db, db', u), Steps(req, req', p), Born(req'[p], u), req[p].pc # "revoke"
    PROVE  /\ IsDb(db') /\ Requests(db', req') /\ Sessions(db', req')
           /\ Counter(db', guesses, stale) /\ db'.tickets = db.tickets
  <1> DEFINE b == db'.account[u]
  <1>1. /\ Writes(db, db', u) /\ b.present /\ ~b.disabled /\ ~b.locked
        /\ b.gen = db.account[u].gen + 1 /\ b.fails = 0
    BY DEF Creates
  <1>2. b.gen = db.account[u].gen + 1 /\ b.fails = 0 /\ db.account[u].gen \in Nat
    BY <1>1, RowFacts DEF IInv
  <1>3. \A q \in Procs \ {p} : req[q].user = u => ~Holds(db', u, req[q].gen)
    <2> SUFFICES ASSUME NEW q \in Procs, req[q].user = u PROVE req[q].gen # b.gen
      BY <1>1 DEF Holds
    <2>1. req[q].gen <= db.account[u].gen /\ req[q].gen \in Nat
      BY DEF IInv, Requests, Past, IsRequest
    <2> QED BY <1>2, <2>1
  <1>4. db'.sessions \subseteq {s \in db.sessions : s.user # u}
    BY <1>1 DEF Writes, IInv, Sessions
  <1>5. Past(db', req'[p])
    BY <1>1, <1>2 DEF Born, Past
  <1>6. Fit(db', req', p, req'[p])
    BY <1>1 DEF Born, Fit
  <1>7. \A v \in Users \ {u} : db'.account[v] = db.account[v]
    BY <1>1 DEF Writes
  <1>8. Requests(db', req') /\ Sessions(db', req')
    <2>1. Requests(db, req) /\ Sessions(db, req) /\ IsDb(db) /\ IsDb(db')
      BY <1>1 DEF IInv, Writes
    <2>2. db.account[u].gen <= db'.account[u].gen
      BY <1>1, <1>2
    <2>3. IsRequest(req'[p]) /\ Placed(req'[p]) /\ req'[p].pc # "revoke"
      BY DEF Born
    <2> QED BY <1>3, <1>4, <1>5, <1>6, <1>7, <2>1, <2>2, <2>3, ReplacedKeeps
  <1>9. Counter(db', guesses, stale)
    <2>1. MaxAttempts \in Nat \ {0}
      BY AccountsAssumption
    <2>2. Counter(db, guesses, stale)
      BY DEF IInv
    <2>3. guesses[u] = 0 /\ ~stale[u]
      BY <2>2 DEF Counter
    <2> QED BY <1>1, <1>2, <1>7, <2>1, <2>2, <2>3 DEF Counter
  <1> QED BY <1>1, <1>8, <1>9 DEF Writes

LEMMA EnterFacts ==
    ASSUME IInv, NEW p \in Procs, NEW r, Enter(p, r), IsRequest(r)
    PROVE  LET x == req'[p]
           IN  /\ Steps(req, req', p) /\ count' = count + 1 /\ req[p].op = "idle" /\ req[p].pc # "revoke"
               /\ IsRequest(x) /\ x.n = count + 1
               /\ x.op = r.op /\ x.pc = r.pc /\ x.user = r.user /\ x.gen = r.gen /\ x.pw = r.pw
               /\ x.how = r.how /\ x.raced = r.raced /\ x.seen = r.seen /\ x.x = r.x /\ x.who = r.who
  <1> DEFINE x == [r EXCEPT !.n = count + 1]
  <1>1. req = [q \in Procs |-> req[q]] /\ count \in Nat
    BY DEF IInv, Requests, Numbers
  <1>2. req'[p] = x /\ count' = count + 1 /\ req[p].op = "idle" /\ Steps(req, req', p)
    BY <1>1 DEF Enter, Steps
  <1>3. x = [f \in RequestFields |-> x[f]] /\ x.n = count + 1
    BY DEF IsRequest, RequestFields
  <1>4. /\ x.op = r.op /\ x.pc = r.pc /\ x.user = r.user /\ x.gen = r.gen /\ x.pw = r.pw
        /\ x.how = r.how /\ x.raced = r.raced /\ x.seen = r.seen /\ x.x = r.x /\ x.who = r.who
    BY DEF IsRequest
  <1> HIDE DEF x
  <1>5. IsRequest(x)
    BY <1>1, <1>3, <1>4 DEF IsRequest
  <1>6. req[p].pc # "revoke"
    BY <1>2, BlankFacts DEF IInv, Requests, Placed
  <1> QED BY <1>2, <1>3, <1>4, <1>5, <1>6

(* register, users_create and the SCIM endpoint create the account. *)
LEMMA CreateKeeps ==
    ASSUME IInv, NEW p \in Procs, NEW u \in Users, NEW r, ~db.account[u].present, Enter(p, r),
           Born(r, u), db' = CreateUser(db, u, FALSE), UNCHANGED ghosts
    PROVE  IInv'
  <1>1. /\ Steps(req, req', p) /\ count' = count + 1 /\ req[p].op = "idle" /\ req[p].pc # "revoke"
        /\ Born(req'[p], u) /\ req'[p].n = count + 1
    <2>1. LET x == req'[p]
          IN  /\ Steps(req, req', p) /\ count' = count + 1 /\ req[p].op = "idle" /\ req[p].pc # "revoke"
              /\ IsRequest(x) /\ x.n = count + 1
              /\ x.op = r.op /\ x.pc = r.pc /\ x.user = r.user /\ x.gen = r.gen /\ x.pw = r.pw
              /\ x.how = r.how /\ x.raced = r.raced /\ x.seen = r.seen /\ x.x = r.x /\ x.who = r.who
      BY EnterFacts DEF Born
    <2>2. Placed(r)
      BY DEF Born
    <2>3. Placed(req'[p])
      BY <2>1, <2>2 DEF Placed, Born
    <2> QED BY <2>1, <2>3 DEF Born
  <1>2. Creates(db, db', u)
    BY CreateFacts DEF IInv
  <1>3. /\ IsDb(db') /\ Requests(db', req') /\ Sessions(db', req')
        /\ Counter(db', guesses, stale) /\ db'.tickets = db.tickets
    BY <1>1, <1>2, CreateParts
  <1>4. req' = [q \in Procs |-> req'[q]] /\ \A q \in Procs : q # p => req'[q] = req[q]
    BY <1>1 DEF Steps, IInv, Requests
  <1>5. Numbers(db, req, count, spent)
    BY DEF IInv
  <1>6. Numbers(db', req', count + 1, spent)
    BY <1>1, <1>3, <1>4, <1>5, NumbersEnter
  <1> QED BY <1>1, <1>3, <1>6 DEF IInv, ghosts

(* A sign-in creates it. *)
LEMMA ProvisionKeeps ==
    ASSUME IInv, NEW p \in Procs, NEW u \in Users, ~db.account[u].present, Steps(req, req', p),
           Born(req'[p], u), req[p].op # "idle", req[p].pc # "revoke", req'[p].n = req[p].n,
           Creates(db, db', u), count' = count, UNCHANGED ghosts
    PROVE  IInv'
  <1>1. /\ IsDb(db') /\ Requests(db', req') /\ Sessions(db', req')
        /\ Counter(db', guesses, stale) /\ db'.tickets = db.tickets
    BY CreateParts
  <1>2. req' = [q \in Procs |-> req'[q]] /\ \A q \in Procs : q # p =>
           req'[q].n = req[q].n /\ req'[q].op = req[q].op /\ req'[q].pc = req[q].pc
    BY DEF Steps, IInv, Requests
  <1>3. Numbers(db, req, count, spent) /\ req'[p].pc # "ticket"
    BY DEF IInv, Born
  <1>4. Numbers(db', req', count, spent)
    <2>1. db'.tickets \subseteq db.tickets
      BY <1>1
    <2> QED BY <1>2, <1>3, <2>1, NumbersMove
  <1> QED BY <1>1, <1>4 DEF IInv, ghosts

-----------------------------------------------------------------------------
(***************************************************************************)
(* The guesses and the counter                                             *)
(***************************************************************************)
(* The counter that fits n guesses. *)
Bounds(a, n, overlap) ==
    /\ ~a.present => n = 0 /\ ~overlap
    /\ ~overlap => n <= a.fails /\ n <= MaxAttempts /\ (~a.locked => n < MaxAttempts)

IsFlag(x) == x \in BOOLEAN
Sets(f, g, u, x) == g = [f EXCEPT ![u] = x]

LEMMA CounterSet ==
    ASSUME NEW d, NEW e, NEW g, NEW st, NEW h, NEW sh, NEW u \in Users, Counter(d, g, st),
           NEW n \in Nat, NEW overlap, IsFlag(overlap),
           Sets(g, h, u, n), Sets(st, sh, u, overlap),
           \A v \in Users \ {u} : e.account[v] = d.account[v],
           Bounds(e.account[u], n, overlap)
    PROVE  Counter(e, h, sh)
  <1>1. h \in [Users -> Nat] /\ sh \in [Users -> BOOLEAN]
    BY DEF Counter, Sets, IsFlag
  <1>2. ASSUME NEW v \in Users PROVE Bounds(e.account[v], h[v], sh[v])
    <2>1. CASE v = u
      <3>1. h[v] = n /\ sh[v] = overlap
        BY <2>1 DEF Counter, Sets
      <3> QED BY <2>1, <3>1, Zenon
    <2>2. CASE v # u
      <3>1. h[v] = g[v] /\ sh[v] = st[v] /\ e.account[v] = d.account[v]
        BY <2>2 DEF Counter, Sets
      <3>2. Bounds(d.account[v], g[v], st[v])
        BY DEF Counter, Bounds
      <3> QED BY <3>1, <3>2, Zenon
    <2> QED BY <2>1, <2>2
  <1> QED BY <1>1, <1>2 DEF Counter, Bounds

LEMMA TallyHeld ==
    ASSUME NEW p \in Procs, NEW n, NEW overlap, Tally(p, n, overlap), Holds(db, req[p].user, req[p].gen)
    PROVE  /\ Sets(guesses, guesses', req[p].user, n)
           /\ Sets(stale, stale', req[p].user, overlap)
           /\ spent' = spent
  BY DEF Tally, Sets

LEMMA TallyGone ==
    ASSUME IInv, NEW p \in Procs, NEW n, NEW overlap, Tally(p, n, overlap),
           ~Holds(db, req[p].user, req[p].gen)
    PROVE  UNCHANGED ghosts
  <1>1. guesses' = guesses
    BY DEF Tally, IInv, Counter
  <1>2. stale' = stale
    BY DEF Tally, IInv, Counter
  <1> QED BY <1>1, <1>2 DEF Tally, ghosts

(* What a statement does: it runs, or the row is gone. *)
LEMMA StatementCases ==
    ASSUME NEW p, NEW d, NEW pc, Statement(p, d, pc)
    PROVE  /\ count' = count
           /\ \/ /\ Holds(db, req[p].user, req[p].gen) /\ db' = d
                 /\ pc = "done" => Answer(p)
                 /\ pc # "done" => Goto(p, pc)
              \/ ~Holds(db, req[p].user, req[p].gen) /\ db' = db /\ Answer(p)
  BY DEF Statement, Quiet

(* Where a request is, its user is. *)
LEMMA PlacedUser ==
    ASSUME IInv, NEW p \in Procs, req[p].pc \notin Anonymous
    PROVE  req[p].op # "idle" /\ req[p].user \in Users
  BY BlankFacts DEF IInv, Requests, Placed, Anonymous

LEMMA GoneKeeps ==
    ASSUME IInv, NEW p \in Procs, db' = db, Answer(p), count' = count, UNCHANGED ghosts,
           req[p].op # "idle", req[p].pc # "revoke"
    PROVE  IInv'
  BY TameRefl, AnswerKeeps DEF IInv

(* The login state is written, and the guesses are counted. *)
LEMMA TallyKeeps ==
    ASSUME IInv, NEW p \in Procs, NEW n \in Nat, NEW overlap, IsFlag(overlap), Tally(p, n, overlap),
           Holds(db, req[p].user, req[p].gen), req[p].user \in Users, req[p].op # "idle",
           Moves(db, req, req', p), req'[p].op # "idle" => req'[p].n = req[p].n,
           req'[p].pc # "ticket", count' = count, Writes(db, db', req[p].user), Level(db, db'),
           Bounds(db'.account[req[p].user], n, overlap)
    PROVE  IInv'
  <1>1. Slid(db, db')
    BY TameRefl DEF Writes, Slid, IInv
  <1>2. Requests(db', req') /\ Sessions(db', req')
    BY <1>1, RequestsMove, SessionsMove DEF IInv
  <1>3. Counter(db', guesses', stale')
    <2> DEFINE u == req[p].user
               b == db'.account[u]
    <2>1. u \in Users /\ Sets(guesses, guesses', u, n) /\ Sets(stale, stale', u, overlap)
      BY TallyHeld
    <2>2. Counter(db, guesses, stale) /\ \A v \in Users \ {u} : db'.account[v] = db.account[v]
      BY DEF Writes, IInv
    <2>3. Bounds(b, n, overlap)
      OBVIOUS
    <2> HIDE DEF u
    <2> QED BY <2>1, <2>2, <2>3, CounterSet
  <1>4. Numbers(db', req', count, spent)
    BY NumbersGoes DEF Writes
  <1> QED BY <1>2, <1>3, <1>4, TallyHeld DEF IInv, Writes

LEMMA LoginFailedKeeps ==
    ASSUME IInv, NEW p \in Procs, LoginFailed(p)
    PROVE  IInv'
  <1> DEFINE r == req[p]
             u == req[p].user
             attempts == r.seen.fails + 1
             overlap == stale[u] \/ Stale(r)
             d == SetLoginState(db, u, attempts, attempts >= MaxAttempts)
  <1>1. r.op = "login" /\ r.pc = "fail" /\ Statement(p, d, "done") /\ Tally(p, guesses[u] + 1, overlap)
    BY DEF LoginFailed, At
  <1>2. u \in Users /\ r.op # "idle" /\ IsRequest(r) /\ ~r.seen.locked
    BY <1>1, PlacedUser DEF Anonymous, IInv, Requests, Placed
  <1>3. /\ count' = count /\ Answer(p)
        /\ \/ Holds(db, u, r.gen) /\ db' = d
           \/ ~Holds(db, u, r.gen) /\ db' = db
    BY <1>1, StatementCases
  <1>4. CASE ~Holds(db, u, r.gen) /\ db' = db
    <2>1. UNCHANGED ghosts
      BY <1>1, <1>4, TallyGone
    <2> QED BY <1>1, <1>2, <1>3, <1>4, <2>1, GoneKeeps
  <1>5. CASE Holds(db, u, r.gen) /\ db' = d
    <2> DEFINE a == db.account[u]
               b == db'.account[u]
               full == attempts >= MaxAttempts
    <2>1. attempts \in Nat /\ MaxAttempts \in Nat \ {0} /\ r.seen.fails \in Nat
      BY <1>2, AccountsAssumption DEF IsRequest, IsAccount
    <2>2. full \in BOOLEAN
      OBVIOUS
    <2>3. /\ Writes(db, db', u) /\ b.present = a.present /\ b.gen = a.gen /\ b.pw = a.pw
          /\ b.disabled = a.disabled /\ b.fails = attempts /\ b.locked = full
      <3> HIDE DEF attempts, full
      <3>1. db' = SetLoginState(db, u, attempts, full)
        BY <1>5 DEF attempts, full
      <3> QED BY <1>2, <2>1, <2>2, <3>1, LoginStateFacts DEF IInv
    <2>4. Level(db, db')
      BY <2>3 DEF Level, Alike, Writes
    <2>5. Counter(db, guesses, stale) /\ a.present /\ guesses[u] \in Nat /\ IsFlag(overlap)
      BY <1>2, <1>5 DEF IInv, Counter, Holds, Stale, IsFlag
    <2>6. ~overlap => a.fails = r.seen.fails /\ ~a.locked /\ ~stale[u]
      BY <1>2, <2>5 DEF Stale
    <2>7. ~overlap => guesses[u] <= a.fails /\ guesses[u] < MaxAttempts
      BY <1>2, <2>5, <2>6 DEF Counter
    <2> HIDE DEF overlap, d
    <2>8. Bounds(b, guesses[u] + 1, overlap)
      <3>1. b.present
        BY <2>3, <2>5
      <3>2. ASSUME ~overlap
            PROVE  /\ guesses[u] + 1 <= b.fails /\ guesses[u] + 1 <= MaxAttempts
                   /\ ~b.locked => guesses[u] + 1 < MaxAttempts
        <4>1. a.fails = r.seen.fails /\ guesses[u] <= a.fails /\ guesses[u] < MaxAttempts
          BY <2>6, <2>7, <3>2
        <4>2. b.fails = r.seen.fails + 1 /\ (~b.locked => ~full)
          BY <2>3
        <4>3. ~b.locked => r.seen.fails + 1 < MaxAttempts
          BY <2>1, <4>2
        <4> QED BY <2>1, <2>5, <4>1, <4>2, <4>3
      <3> QED BY <3>1, <3>2 DEF Bounds
    <2>9. Moves(db, req, req', p) /\ req'[p].op = "idle" /\ req'[p].pc = "idle"
      BY <1>1, <1>3, AnswerMoves
    <2>10. guesses[u] + 1 \in Nat
      BY <2>5
    <2> QED BY <1>1, <1>2, <1>3, <1>5, <2>3, <2>4, <2>5, <2>8, <2>9, <2>10, TallyKeeps
  <1> QED BY <1>3, <1>4, <1>5

LEMMA ClearLoginStateKeeps ==
    ASSUME IInv, NEW p \in Procs, ClearLoginState(p)
    PROVE  IInv'
  <1> DEFINE r == req[p]
             u == req[p].user
             pc == IF req[p].pc = "zero" THEN "done" ELSE "issue"
             d == SetLoginState(db, u, 0, FALSE)
  <1>1. r.pc \in {"clear", "zero"} /\ Statement(p, d, pc) /\ Tally(p, 0, FALSE)
    BY DEF ClearLoginState
  <1>2. u \in Users /\ r.op # "idle" /\ IsRequest(r) /\ Placed(r) /\ r.pc # "revoke"
    BY <1>1, PlacedUser DEF Anonymous, IInv, Requests
  <1>3. /\ count' = count
        /\ \/ /\ Holds(db, u, r.gen) /\ db' = d
              /\ pc = "done" => Answer(p)
              /\ pc # "done" => Goto(p, pc)
           \/ ~Holds(db, u, r.gen) /\ db' = db /\ Answer(p)
    BY <1>1, StatementCases
  <1>4. CASE ~Holds(db, u, r.gen) /\ db' = db /\ Answer(p)
    <2>1. UNCHANGED ghosts
      BY <1>1, <1>4, TallyGone
    <2> QED BY <1>1, <1>2, <1>3, <1>4, <2>1, GoneKeeps
  <1>5. CASE /\ Holds(db, u, r.gen) /\ db' = d
             /\ pc = "done" => Answer(p)
             /\ pc # "done" => Goto(p, pc)
    <2> DEFINE a == db.account[u]
               b == db'.account[u]
    <2>1. /\ Writes(db, db', u) /\ b.present = a.present /\ b.gen = a.gen /\ b.pw = a.pw
          /\ b.disabled = a.disabled /\ b.fails = 0
      <3> DEFINE no == FALSE
      <3>1. no \in BOOLEAN
        OBVIOUS
      <3> HIDE DEF no
      <3>2. db' = SetLoginState(db, u, 0, no)
        BY <1>5 DEF no
      <3> HIDE DEF d
      <3> QED BY <1>2, <3>1, <3>2, LoginStateFacts DEF IInv
    <2>2. Level(db, db')
      BY <2>1 DEF Level, Alike, Writes
    <2>3. Bounds(b, 0, FALSE)
      <3>1. a.present /\ MaxAttempts \in Nat \ {0}
        BY <1>5, AccountsAssumption DEF Holds
      <3> QED BY <2>1, <3>1 DEF Bounds
    <2>4. /\ Moves(db, req, req', p) /\ req'[p].pc # "ticket"
          /\ req'[p].op # "idle" => req'[p].n = req[p].n
      <3>1. CASE r.pc = "zero"
        BY <1>2, <1>5, <3>1, AnswerMoves
      <3>2. CASE r.pc = "clear"
        <4>1. Goto(p, "issue") /\ r.op \in {"login", "keyfinish"}
          BY <1>2, <1>5, <3>2 DEF Placed
        <4>2. /\ req' = [req EXCEPT ![p] = req'[p]] /\ Same(r, req'[p]) /\ req'[p].pc = "issue"
              /\ req'[p].seen = r.seen /\ req'[p].x = r.x /\ req'[p].who = r.who
          BY <4>1, GotoFacts
        <4>3. /\ req'[p].op = r.op /\ req'[p].how = r.how /\ req'[p].user = u
              /\ req'[p].n = r.n
          BY <4>2 DEF Same
        <4>4. Placed(req'[p])
          BY <1>2, <3>2, <4>1, <4>2, <4>3 DEF Placed, Anonymous
        <4>5. Moves(db, req, req', p)
          BY <1>2, <3>2, <4>2, <4>4, SameMoves DEF Firm
        <4> QED BY <4>2, <4>3, <4>5
      <3> QED BY <1>1, <3>1, <3>2
    <2>5. IsFlag(FALSE)
      BY DEF IsFlag
    <2> QED BY <1>1, <1>2, <1>3, <1>5, <2>1, <2>2, <2>3, <2>4, <2>5, TallyKeeps
  <1> QED BY <1>3, <1>4, <1>5

(* The clock ends a lock. *)
LEMMA UnlockKeeps ==
    ASSUME IInv, NEW u \in Users, Unlock(u)
    PROVE  IInv'
  <1> DEFINE a == db.account[u]
             b == db'.account[u]
  <1>1. /\ Writes(db, db', u) /\ b.present = a.present /\ b.gen = a.gen /\ b.pw = a.pw
        /\ b.disabled = a.disabled /\ b.fails = a.fails
    BY UnlockFacts DEF Unlock, IInv
  <1>2. /\ Sets(guesses, guesses', u, 0) /\ Sets(stale, stale', u, FALSE)
        /\ req' = req /\ count' = count /\ spent' = spent
    BY DEF Unlock, Sets, Timer
  <1>3. Level(db, db')
    BY <1>1 DEF Level, Alike, Writes
  <1>4. Slid(db, db')
    BY <1>1, TameRefl DEF Writes, Slid, IInv
  <1>5. Requests(db', req) /\ Sessions(db', req)
    BY <1>3, <1>4, LevelKeeps DEF IInv
  <1>6. MaxAttempts \in Nat \ {0} /\ a.fails \in Nat
    BY AccountsAssumption, RowFacts DEF IInv
  <1>7. Bounds(b, 0, FALSE)
    BY <1>1, <1>6 DEF Bounds
  <1>8. Counter(db', guesses', stale')
    <2>1. Counter(db, guesses, stale) /\ \A v \in Users \ {u} : db'.account[v] = db.account[v]
      BY <1>1 DEF IInv, Writes
    <2>2. IsFlag(FALSE) /\ 0 \in Nat
      BY DEF IsFlag
    <2> HIDE DEF b
    <2>3. Bounds(db'.account[u], 0, FALSE)
      BY <1>7 DEF b
    <2> QED BY <1>2, <2>1, <2>2, <2>3, CounterSet
  <1>9. Numbers(db', req, count, spent)
    BY <1>1 DEF IInv, Numbers, Writes
  <1> QED BY <1>1, <1>2, <1>5, <1>8, <1>9 DEF IInv, Writes

(* users_destroy: what the account's requests have read is gone. *)
LEMMA DestroyKeeps ==
    ASSUME IInv, NEW p \in Procs, req[p].pc = "delete",
           Statement(p, DeleteUser(db, req[p].user), "done"), Tally(p, 0, FALSE)
    PROVE  IInv'
  <1> DEFINE r == req[p]
             u == req[p].user
             d == DeleteUser(db, u)
  <1>1. u \in Users /\ r.op # "idle" /\ r.pc # "revoke"
    BY PlacedUser DEF Anonymous
  <1>2. /\ count' = count /\ Answer(p)
        /\ \/ Holds(db, u, r.gen) /\ db' = d
           \/ ~Holds(db, u, r.gen) /\ db' = db
    BY StatementCases
  <1>3. CASE ~Holds(db, u, r.gen) /\ db' = db
    <2>1. UNCHANGED ghosts
      BY <1>3, TallyGone
    <2> QED BY <1>1, <1>2, <1>3, <2>1, GoneKeeps
  <1>4. CASE Holds(db, u, r.gen) /\ db' = d
    <2>1. /\ IsDb(db') /\ \A v \in Users \ {u} : db'.account[v] = db.account[v]
          /\ ~db'.account[u].present /\ db'.account[u].gen = db.account[u].gen
          /\ db'.sessions \subseteq {s \in db.sessions : s.user # u}
          /\ db'.tickets \subseteq db.tickets
      BY <1>1, <1>4, DeleteFacts DEF IInv
    <2>2. Moves(db, req, req', p) /\ req'[p].op = "idle" /\ req'[p].pc = "idle"
      BY <1>1, <1>2, AnswerMoves
    <2>3. Steps(req, req', p) /\ IsRequest(req'[p]) /\ Placed(req'[p])
      BY <2>2 DEF Moves, Steps
    <2>4. req'[p] = Blank
      BY <2>2, <2>3 DEF Placed
    <2>5. Past(db', req'[p]) /\ Fit(db', req', p, req'[p])
      BY <2>4, BlankFits
    <2>6. \A q \in Procs \ {p} : req[q].user = u => ~Holds(db', u, req[q].gen)
      BY <2>1 DEF Holds
    <2>7. db.account[u].gen <= db'.account[u].gen
      BY <1>1, <2>1, RowFacts DEF IInv
    <2>8. Requests(db', req') /\ Sessions(db', req')
      <3>1. Requests(db, req) /\ Sessions(db, req) /\ IsDb(db) /\ req'[p].pc # "revoke"
        BY <2>2 DEF IInv
      <3> HIDE DEF d, u
      <3> QED BY <1>1, <2>1, <2>3, <2>5, <2>6, <2>7, <3>1, ReplacedKeeps DEF u
    <2>9. Counter(db', guesses', stale') /\ spent' = spent
      <3>1. Sets(guesses, guesses', u, 0) /\ Sets(stale, stale', u, FALSE) /\ spent' = spent
        BY <1>4, TallyHeld
      <3>2. Bounds(db'.account[u], 0, FALSE)
        <4>1. MaxAttempts \in Nat \ {0} /\ db'.account[u].fails \in Nat
          BY <1>1, <2>1, AccountsAssumption, RowFacts
        <4> QED BY <2>1, <4>1 DEF Bounds
      <3>3. Counter(db, guesses, stale) /\ IsFlag(FALSE) /\ 0 \in Nat
        BY DEF IInv, IsFlag
      <3> HIDE DEF d, u
      <3> QED BY <1>1, <2>1, <3>1, <3>2, <3>3, CounterSet DEF u
    <2>10. Numbers(db', req', count, spent)
      BY <1>1, <2>1, <2>2, NumbersGoes
    <2> QED BY <1>2, <2>1, <2>8, <2>9, <2>10 DEF IInv
  <1> QED BY <1>2, <1>3, <1>4

(* issue_session: what the request relies on is what the session shows. *)
LEMMA IssueKeeps ==
    ASSUME IInv, NEW p \in Procs, IssueSession(p)
    PROVE  IInv'
  <1> DEFINE r == req[p]
             u == req[p].user
             s == [id |-> r.n, user |-> r.user, how |-> r.how, pw |-> r.pw,
                   raced |-> r.raced, kept |-> FALSE, live |-> TRUE]
             d == CreateSession(db, s)
  <1>1. r.pc = "issue" /\ Statement(p, d, "done") /\ UNCHANGED ghosts
    BY DEF IssueSession
  <1>2. /\ u \in Users /\ r.op # "idle" /\ r.pc # "revoke" /\ IsRequest(r) /\ Placed(r)
        /\ Fit(db, req, p, r)
    BY <1>1, PlacedUser DEF Anonymous, IInv, Requests
  <1>3. /\ count' = count /\ Answer(p)
        /\ \/ Holds(db, u, r.gen) /\ db' = d
           \/ ~Holds(db, u, r.gen) /\ db' = db
    BY <1>1, StatementCases
  <1>4. CASE ~Holds(db, u, r.gen) /\ db' = db
    BY <1>1, <1>2, <1>3, <1>4, GoneKeeps
  <1>5. CASE Holds(db, u, r.gen) /\ db' = d
    <2>1. Moves(db, req, req', p) /\ req'[p].op = "idle" /\ req'[p].pc = "idle"
      BY <1>2, <1>3, AnswerMoves
    <2>2. /\ db' = [f \in TableNames |-> db'[f]] /\ db'.sessions = db.sessions \union {s}
          /\ db'.account = db.account /\ db'.tickets = db.tickets /\ db'.links = db.links
      BY <1>5 DEF IInv, IsDb, TableNames, CreateSession
    <2>3. IsDb(db')
      BY <2>2 DEF IInv, IsDb
    <2>4. Level(db, db') /\ Counted(db, db')
      BY <2>2 DEF Level, Alike, Counted
    <2>5. Requests(db', req')
      BY <2>1, <2>4, RequestsMove DEF IInv
    <2>6. /\ s.user = u /\ s.how = r.how /\ s.pw = r.pw /\ s.raced = r.raced /\ s.kept = FALSE
          /\ s = [f \in SessionFields |-> s[f]]
      BY DEF SessionFields
    <2> HIDE DEF s, d
    <2>7. IsSession(s)
      <3>1. s.raced \in BOOLEAN /\ s.kept \in BOOLEAN
        BY <1>2, <2>6, Zenon DEF IsRequest
      <3> QED BY <1>2, <2>6, <3>1 DEF IsSession
    <2>8. \A o \in Procs, v \in Users : Revokes(db', req', o, v) <=> Revokes(db, req, o, v)
      BY <2>1, <2>4, SameRevokers DEF IInv
    <2>9. db.account[u].present /\ Entitled(db', req', s)
      <3>1. SUFFICES ASSUME ~r.raced, \A o \in Procs : ~Revokes(db, req, o, u)
                     PROVE  /\ r.how = "password" => r.pw = db.account[u].pw
                            /\ db.account[u].disabled => r.how \in {"passkey", "social"}
        BY <1>2, <1>5, <2>2, <2>6, <2>8 DEF Entitled, Holds
      <3>2. /\ r.op = "login" => r.pw = db.account[u].pw /\ ~db.account[u].disabled
            /\ r.op = "change" /\ r.how = "password" => r.pw = db.account[u].pw
            /\ r.op = "change" /\ r.how \notin {"passkey", "social"} => ~db.account[u].disabled
            /\ r.op \in {"register", "oidc", "saml"} => ~db.account[u].disabled
        BY <1>1, <1>2, <1>5, <3>1 DEF Fit
      <3>3. /\ r.op \in {"login", "keyfinish", "register", "change", "social", "oidc", "saml"}
            /\ r.op \in {"social", "oidc", "saml"} => r.how = r.op
            /\ r.op = "keyfinish" => r.how = "passkey"
            /\ r.op = "register" => r.how = "register"
        BY <1>1, <1>2 DEF Placed
      <3> QED BY <3>2, <3>3
    <2>10. Sessions(db', req')
      <3>1. ASSUME NEW x \in db'.sessions, x # s
            PROVE  IsSession(x) /\ db'.account[x.user].present /\ Entitled(db', req', x)
        BY <2>2, <2>8, <3>1 DEF IInv, Sessions, Entitled, IsSession
      <3> QED BY <2>2, <2>6, <2>7, <2>9, <3>1 DEF Sessions
    <2>11. Counter(db', guesses, stale)
      BY <2>4, CounterTame DEF IInv
    <2>12. Numbers(db', req', count, spent)
      BY <1>2, <2>1, <2>2, NumbersGoes
    <2> QED BY <1>1, <1>3, <2>3, <2>5, <2>10, <2>11, <2>12 DEF IInv, ghosts
  <1> QED BY <1>3, <1>4, <1>5

(* The clock makes a ticket or a session old. *)
LEMMA ExpireKeeps ==
    ASSUME IInv, Expire
    PROVE  IInv'
  <1>1. /\ req' = req /\ count' = count /\ spent' = spent /\ guesses' = guesses /\ stale' = stale
    BY DEF Expire, Timer
  <1>2. ASSUME IsDb(db'), db'.account = db.account, Slid(db, db'), Numbers(db', req, count, spent)
        PROVE  IInv'
    <2>1. Level(db, db') /\ Counted(db, db')
      BY <1>2 DEF Level, Alike, Counted
    <2>2. Requests(db', req) /\ Sessions(db', req) /\ Counter(db', guesses, stale)
      BY <1>2, <2>1, LevelKeeps, CounterTame DEF IInv
    <2> QED BY <1>1, <1>2, <2>2 DEF IInv
  <1>3. ASSUME NEW t \in db.tickets,
               db' = [db EXCEPT !.tickets = (@ \ {t}) \union {[t EXCEPT !.fresh = FALSE]}]
        PROVE  IInv'
    <2> DEFINE x == [t EXCEPT !.fresh = FALSE]
    <2>1. /\ db' = [f \in TableNames |-> db'[f]] /\ db'.account = db.account
          /\ db'.sessions = db.sessions /\ db'.links = db.links
          /\ db'.tickets = (db.tickets \ {t}) \union {x}
      BY <1>3 DEF IInv, IsDb, TableNames
    <2>2. IsTicket(t)
      BY DEF IInv, Numbers
    <2>3. x = [f \in TicketFields |-> x[f]] /\ x.id = t.id /\ x.kind = t.kind /\ x.user = t.user
      BY <2>2 DEF IsTicket, TicketFields
    <2> HIDE DEF x
    <2>4. IsTicket(x)
      BY <2>2, <2>3 DEF IsTicket
    <2>5. IsDb(db')
      BY <2>1 DEF IInv, IsDb
    <2>6. Slid(db, db')
      BY <2>1, TameRefl DEF Slid, IInv
    <2>7. Numbers(db', req, count, spent)
      <3>1. Numbers(db, req, count, spent)
        BY DEF IInv
      <3>2. \A y \in db'.tickets : IsTicket(y) /\ \E z \in db.tickets : z.id = y.id
        BY <2>1, <2>3, <2>4, <3>1 DEF Numbers
      <3>3. \A y, z \in db'.tickets : y.id = z.id => y = z
        BY <2>1, <2>3, <3>1 DEF Numbers
      <3> QED BY <3>1, <3>2, <3>3 DEF Numbers
    <2> QED BY <1>2, <2>1, <2>5, <2>6, <2>7
  <1>4. ASSUME NEW s \in db.sessions,
               db' = [db EXCEPT !.sessions = (@ \ {s}) \union {[s EXCEPT !.live = FALSE]}]
        PROVE  IInv'
    <2> DEFINE x == [s EXCEPT !.live = FALSE]
    <2>1. /\ db' = [f \in TableNames |-> db'[f]] /\ db'.account = db.account
          /\ db'.tickets = db.tickets /\ db'.links = db.links
          /\ db'.sessions = (db.sessions \ {s}) \union {x}
      BY <1>4 DEF IInv, IsDb, TableNames
    <2>2. IsSession(s)
      BY DEF IInv, Sessions
    <2>3. /\ x = [f \in SessionFields |-> x[f]] /\ x.user = s.user /\ x.how = s.how
          /\ x.pw = s.pw /\ x.raced = s.raced /\ x.kept = s.kept
      BY <2>2 DEF IsSession, SessionFields
    <2> HIDE DEF x
    <2>4. IsSession(x)
      BY <2>2, <2>3 DEF IsSession
    <2>5. IsDb(db')
      BY <2>1 DEF IInv, IsDb
    <2>6. Slid(db, db')
      BY <2>1, <2>3, <2>4, TameRefl DEF Slid, IInv
    <2>7. Numbers(db', req, count, spent)
      BY <2>1 DEF IInv, Numbers
    <2> QED BY <1>2, <2>1, <2>5, <2>6, <2>7
  <1> QED BY <1>3, <1>4 DEF Expire

-----------------------------------------------------------------------------
(***************************************************************************)
(* New passwords, deactivations and the sessions they take                 *)
(***************************************************************************)
(* p goes on, and whoever has read the account is overtaken. *)
Overtakes(R, Q, p) ==
    /\ Q = [q \in Procs |-> Q[q]]
    /\ \A q \in Procs : q # p =>
          IF R[q].user = R[p].user /\ R[q].gen = R[p].gen
          THEN Q[q] = [R[q] EXCEPT !.raced = TRUE] ELSE Q[q] = R[q]

LEMMA RacedFacts ==
    ASSUME NEW r, IsRequest(r)
    PROVE  LET x == [r EXCEPT !.raced = TRUE]
           IN  /\ IsRequest(x) /\ x.raced
               /\ x.op = r.op /\ x.n = r.n /\ x.user = r.user /\ x.gen = r.gen /\ x.pw = r.pw
               /\ x.how = r.how /\ x.pc = r.pc /\ x.seen = r.seen /\ x.x = r.x /\ x.who = r.who
  <1> DEFINE x == [r EXCEPT !.raced = TRUE]
  <1>1. /\ x = [f \in RequestFields |-> x[f]]
        /\ x.op = r.op /\ x.n = r.n /\ x.user = r.user /\ x.gen = r.gen /\ x.pw = r.pw
        /\ x.how = r.how /\ x.pc = r.pc /\ x.seen = r.seen /\ x.x = r.x /\ x.who = r.who
    BY DEF IsRequest, RequestFields
  <1>2. x.raced = TRUE
    BY DEF IsRequest, RequestFields
  <1> HIDE DEF x
  <1>3. x.raced \in BOOLEAN
    BY <1>2, Zenon
  <1>4. IsRequest(x)
    BY <1>1, <1>3 DEF IsRequest
  <1>5. x.raced
    BY <1>2
  <1> QED BY <1>1, <1>4, <1>5 DEF x

(* The others, as far as they can be told from outside. *)
LEMMA OvertakesOthers ==
    ASSUME NEW d, NEW R, NEW Q, NEW p \in Procs, Requests(d, R), Overtakes(R, Q, p),
           R[p].user \in Users, NEW q \in Procs, q # p
    PROVE  /\ IsRequest(Q[q]) /\ Placed(Q[q])
           /\ Q[q].op = R[q].op /\ Q[q].n = R[q].n /\ Q[q].pc = R[q].pc
           /\ Q[q].user = R[q].user /\ Q[q].gen = R[q].gen
           /\ R[q].user = R[p].user /\ R[q].gen = R[p].gen => Q[q].raced
           /\ ~(R[q].user = R[p].user /\ R[q].gen = R[p].gen) => Q[q] = R[q]
  <1>1. IsRequest(R[q]) /\ Placed(R[q])
    BY DEF Requests
  <1>2. CASE R[q].user = R[p].user /\ R[q].gen = R[p].gen
    <2> DEFINE r == R[q]
               x == Q[q]
    <2>1. r.op # "idle" /\ IsRequest(r) /\ x = [r EXCEPT !.raced = TRUE]
      BY <1>1, <1>2, BlankFacts, AccountsAssumption DEF Placed, Overtakes
    <2> HIDE DEF r, x
    <2>2. /\ IsRequest(x) /\ x.raced
          /\ x.op = r.op /\ x.n = r.n /\ x.user = r.user /\ x.gen = r.gen /\ x.pw = r.pw
          /\ x.how = r.how /\ x.pc = r.pc /\ x.seen = r.seen /\ x.x = r.x /\ x.who = r.who
      BY <2>1, RacedFacts
    <2>3. Placed(x)
      BY <1>1, <2>1, <2>2 DEF Placed, r
    <2> QED BY <1>2, <2>2, <2>3 DEF r, x
  <1>3. CASE ~(R[q].user = R[p].user /\ R[q].gen = R[p].gen)
    BY <1>1, <1>3 DEF Overtakes
  <1> QED BY <1>2, <1>3

(* The tables and the requests after it, when p holds the row it writes. *)
LEMMA OvertakeParts ==
    ASSUME NEW d, NEW e, NEW R, NEW Q, NEW p \in Procs, NEW u \in Users,
           Requests(d, R), Sessions(d, R), IsDb(d), IsDb(e), Overtakes(R, Q, p), R[p].user = u,
           \A v \in Users \ {u} : e.account[v] = d.account[v],
           e.account[u].gen = d.account[u].gen, R[p].gen = d.account[u].gen,
           IsRequest(Q[p]), Placed(Q[p]), Past(e, Q[p]), Fit(e, Q, p, Q[p]), Q[p].user \in {u, NoUser},
           \A s \in e.sessions :
              IF s.user = u THEN IsSession(s) /\ e.account[u].present /\ Entitled(e, Q, s)
              ELSE s \in d.sessions
    PROVE  Requests(e, Q) /\ Sessions(e, Q)
  <1>1. ASSUME NEW o \in Procs, NEW v \in Users \ {u}
        PROVE  Revokes(e, Q, o, v) <=> Revokes(d, R, o, v)
    <2>1. CASE o = p
      BY <2>1, AccountsAssumption DEF Revokes
    <2>2. CASE o # p
      BY <2>2, OvertakesOthers DEF Revokes
    <2> QED BY <2>1, <2>2
  <1>2. ASSUME NEW q \in Procs, q # p PROVE Past(e, Q[q]) /\ Fit(e, Q, q, Q[q])
    <2>1. /\ Q[q].user = R[q].user /\ Q[q].gen = R[q].gen
          /\ R[q].user = u /\ R[q].gen = R[p].gen => Q[q].raced
          /\ ~(R[q].user = u /\ R[q].gen = R[p].gen) => Q[q] = R[q]
      BY <1>2, OvertakesOthers
    <2>2. Past(d, R[q]) /\ Fit(d, R, q, R[q])
      BY DEF Requests
    <2>3. CASE R[q].user = u
      <3>1. Past(e, Q[q])
        BY <2>1, <2>2, <2>3 DEF Past
      <3>2. CASE R[q].gen = R[p].gen
        BY <2>1, <2>3, <3>1, <3>2 DEF Fit
      <3>3. CASE R[q].gen # R[p].gen
        BY <2>1, <2>3, <3>1, <3>3 DEF Fit, Holds
      <3> QED BY <3>2, <3>3
    <2>4. CASE R[q].user \in Users \ {u}
      <3>1. \A o \in Procs : Revokes(e, Q, o, R[q].user) <=> Revokes(d, R, o, R[q].user)
        BY <1>1, <2>4
      <3>2. e.account[R[q].user] = d.account[R[q].user] /\ Q[q] = R[q]
        BY <2>1, <2>4
      <3>3. Past(e, R[q])
        BY <2>2, <2>4, <3>2 DEF Past
      <3>4. Fit(e, Q, q, R[q])
        BY <2>2, <2>4, <3>1, <3>2 DEF Fit, Holds
      <3> QED BY <3>2, <3>3, <3>4
    <2>5. CASE R[q].user \notin Users
      BY <2>1, <2>5 DEF Past, Fit
    <2> QED BY <2>3, <2>4, <2>5
  <1>3. Requests(e, Q)
    <2>1. ASSUME NEW q \in Procs
          PROVE  IsRequest(Q[q]) /\ Placed(Q[q]) /\ Past(e, Q[q]) /\ Fit(e, Q, q, Q[q])
      <3>1. CASE q = p
        BY <3>1
      <3>2. CASE q # p
        BY <1>2, <3>2, OvertakesOthers
      <3> QED BY <3>1, <3>2
    <2>2. Q = [q \in Procs |-> Q[q]]
      BY DEF Overtakes
    <2> QED BY <2>1, <2>2 DEF Requests
  <1>4. ASSUME NEW s \in e.sessions, s.user # u
        PROVE  IsSession(s) /\ e.account[s.user].present /\ Entitled(e, Q, s)
    <2>1. /\ IsSession(s) /\ s.user \in Users \ {u}
          /\ d.account[s.user].present /\ Entitled(d, R, s)
      BY <1>4 DEF Sessions, IsSession
    <2>2. \A o \in Procs : Revokes(e, Q, o, s.user) <=> Revokes(d, R, o, s.user)
      BY <1>1, <2>1
    <2>3. e.account[s.user] = d.account[s.user]
      BY <2>1
    <2> QED BY <2>1, <2>2, <2>3 DEF Entitled
  <1> QED BY <1>3, <1>4 DEF Sessions

(* What Overtake does to p itself. *)
LEMMA OvertakeFacts ==
    ASSUME IInv, NEW p \in Procs, NEW pc, Overtake(p, pc), req[p].user \in Users
    PROVE  LET x == req'[p]
               r == req[p]
           IN  /\ Overtakes(req, req', p)
               /\ pc = "done" => x = Blank
               /\ pc # "done" => /\ Same(r, x) /\ x.pc = pc
                                 /\ x.seen = r.seen /\ x.x = r.x /\ x.who = r.who
  <1> DEFINE r == req[p]
             x == [r EXCEPT !.pc = pc]
  <1>1. IsRequest(r)
    BY DEF IInv, Requests
  <1>2. Overtakes(req, req', p)
    BY DEF Overtake, Overtakes
  <1>3. req'[p] = IF pc = "done" THEN Blank ELSE x
    BY DEF Overtake
  <1> HIDE DEF r
  <1>4. /\ x = [f \in RequestFields |-> x[f]] /\ x.pc = pc
        /\ x.op = r.op /\ x.n = r.n /\ x.user = r.user /\ x.gen = r.gen /\ x.pw = r.pw
        /\ x.how = r.how /\ x.raced = r.raced /\ x.seen = r.seen /\ x.x = r.x /\ x.who = r.who
    BY <1>1 DEF IsRequest, RequestFields
  <1> HIDE DEF x
  <1>5. Same(r, x)
    BY <1>1, <1>4 DEF IsRequest, Same
  <1> QED BY <1>2, <1>3, <1>4, <1>5 DEF r

LEMMA NumbersOvertake ==
    ASSUME NEW d, NEW e, NEW R, NEW Q, NEW p \in Procs, NEW c, NEW sp, Requests(d, R),
           Overtakes(R, Q, p), R[p].user \in Users, R[p].op # "idle",
           Q[p].op # "idle" => Q[p].n = R[p].n, Q[p].pc # "ticket",
           e.tickets \subseteq d.tickets, Numbers(d, R, c, sp)
    PROVE  Numbers(e, Q, c, sp)
  <1>1. ASSUME NEW q \in Procs, q # p
        PROVE  Q[q].n = R[q].n /\ Q[q].op = R[q].op /\ Q[q].pc = R[q].pc
    BY <1>1, OvertakesOthers
  <1>2. Q = [q \in Procs |-> Q[q]]
    BY DEF Overtakes
  <1> QED BY <1>1, <1>2 DEF Numbers

(* p takes the account's sessions, marks them, or is about to take them. *)
LEMMA OvertakeKeeps ==
    ASSUME IInv, NEW p \in Procs, NEW pc, Overtake(p, pc), pc # "ticket", NEW u \in Users,
           req[p].user = u, req[p].op # "idle", Holds(db, u, req[p].gen),
           IsDb(db'), \A v \in Users \ {u} : db'.account[v] = db.account[v],
           db'.account[u].gen = db.account[u].gen, Counted(db, db'), db'.tickets \subseteq db.tickets,
           Placed(req'[p]), Fit(db', req', p, req'[p]),
           \A s \in db'.sessions :
              IF s.user = u THEN IsSession(s) /\ (s.kept \/ Revokes(db', req', p, u))
              ELSE s \in db.sessions,
           count' = count, UNCHANGED ghosts
    PROVE  IInv'
  <1> DEFINE r == req[p]
             x == req'[p]
  <1>1. /\ Overtakes(req, req', p)
        /\ pc = "done" => x = Blank
        /\ pc # "done" => Same(r, x) /\ x.pc = pc
    BY OvertakeFacts
  <1>2. /\ IsRequest(x) /\ x.user \in {u, NoUser} /\ x.pc # "ticket"
        /\ x.op # "idle" => x.n = r.n
        /\ x.user = u => x.gen = r.gen
    <2>1. CASE pc = "done"
      BY <1>1, <2>1, BlankFacts, AccountsAssumption
    <2>2. CASE pc # "done"
      BY <1>1, <2>2 DEF Same
    <2> QED BY <2>1, <2>2
  <1>3. r.gen = db.account[u].gen /\ db.account[u].present /\ db'.account[u].present
    BY DEF Holds, Counted
  <1>4. Past(db', x)
    <2>1. db'.account[u].gen \in Nat
      BY RowFacts
    <2> QED BY <1>2, <1>3, <2>1, AccountsAssumption DEF Past
  <1>5. Requests(db', req') /\ Sessions(db', req')
    <2>1. \A s \in db'.sessions :
             IF s.user = u THEN IsSession(s) /\ db'.account[u].present /\ Entitled(db', req', s)
             ELSE s \in db.sessions
      BY <1>3 DEF Entitled
    <2>2. Requests(db, req) /\ Sessions(db, req) /\ IsDb(db)
      BY DEF IInv
    <2> QED BY <1>1, <1>2, <1>3, <1>4, <2>1, <2>2, OvertakeParts
  <1>6. Counter(db', guesses, stale)
    BY CounterTame DEF IInv
  <1>7. Numbers(db', req', count, spent)
    <2>1. Numbers(db, req, count, spent) /\ Requests(db, req)
      BY DEF IInv
    <2> QED BY <1>1, <1>2, <2>1, NumbersOvertake
  <1> QED BY <1>5, <1>6, <1>7 DEF IInv, ghosts

(* The row is gone: there is nothing to take. *)
LEMMA OvertakeGone ==
    ASSUME IInv, NEW p \in Procs, NEW pc, Overtake(p, pc), pc # "ticket", NEW u \in Users,
           req[p].user = u, req[p].op # "idle", ~Holds(db, u, req[p].gen), db' = db,
           Placed(req'[p]), count' = count, UNCHANGED ghosts
    PROVE  IInv'
  <1> DEFINE r == req[p]
             x == req'[p]
  <1>1. /\ Overtakes(req, req', p)
        /\ pc = "done" => x = Blank
        /\ pc # "done" => Same(r, x) /\ x.pc = pc
    BY OvertakeFacts
  <1>2. /\ IsRequest(x) /\ x.user \in {u, NoUser} /\ x.pc # "ticket"
        /\ x.op # "idle" => x.n = r.n
        /\ x.user = u => x.gen = r.gen
    <2>1. CASE pc = "done"
      BY <1>1, <2>1, BlankFacts, AccountsAssumption
    <2>2. CASE pc # "done"
      BY <1>1, <2>2 DEF Same
    <2> QED BY <2>1, <2>2
  <1>3. ASSUME NEW o \in Procs, NEW v \in Users, db.account[v].present
        PROVE  Revokes(db, req', o, v) <=> Revokes(db, req, o, v)
    <2>1. CASE o = p
      BY <1>2, <1>3, <2>1, AccountsAssumption DEF Revokes, Holds
    <2>2. CASE o # p
      BY <1>1, <2>2, OvertakesOthers DEF Revokes, IInv
    <2> QED BY <2>1, <2>2
  <1>4. Past(db, x) /\ Fit(db, req', p, x)
    <2>1. Past(db, r)
      BY DEF IInv, Requests
    <2>2. Past(db, x)
      BY <1>2, <2>1, AccountsAssumption DEF Past
    <2>3. Fit(db, req', p, x)
      BY <1>2, AccountsAssumption DEF Fit
    <2> QED BY <2>2, <2>3
  <1>5. ASSUME NEW q \in Procs, q # p PROVE Past(db, req'[q]) /\ Fit(db, req', q, req'[q])
    <2>1. /\ req'[q].user = req[q].user /\ req'[q].gen = req[q].gen
          /\ req'[q].raced \/ req'[q] = req[q]
      BY <1>1, <1>5, OvertakesOthers DEF IInv
    <2>2. Past(db, req[q]) /\ Fit(db, req, q, req[q])
      BY DEF IInv, Requests
    <2>3. Past(db, req'[q])
      BY <2>1, <2>2 DEF Past
    <2>4. CASE req'[q].raced
      BY <2>3, <2>4 DEF Fit
    <2>5. CASE req'[q] = req[q] /\ req[q].user \in Users /\ Holds(db, req[q].user, req[q].gen)
      <3>1. \A o \in Procs : Revokes(db, req', o, req[q].user) <=> Revokes(db, req, o, req[q].user)
        BY <1>3, <2>5 DEF Holds
      <3>2. Fit(db, req', q, req[q])
        BY <2>2, <3>1 DEF Fit
      <3> QED BY <2>3, <2>5, <3>2
    <2>6. CASE req'[q] = req[q] /\ ~(req[q].user \in Users /\ Holds(db, req[q].user, req[q].gen))
      BY <2>3, <2>6 DEF Fit
    <2> QED BY <2>1, <2>4, <2>5, <2>6
  <1>6. Requests(db, req')
    <2>1. ASSUME NEW q \in Procs
          PROVE  IsRequest(req'[q]) /\ Placed(req'[q]) /\ Past(db, req'[q]) /\ Fit(db, req', q, req'[q])
      <3>1. CASE q = p
        BY <1>2, <1>4, <3>1
      <3>2. CASE q # p
        BY <1>1, <1>5, <3>2, OvertakesOthers DEF IInv
      <3> QED BY <3>1, <3>2
    <2>2. req' = [q \in Procs |-> req'[q]]
      BY <1>1 DEF Overtakes
    <2> QED BY <2>1, <2>2 DEF Requests
  <1>7. Sessions(db, req')
    BY <1>3 DEF IInv, Sessions, Entitled, IsSession
  <1>8. Numbers(db, req', count, spent)
    <2>1. Numbers(db, req, count, spent) /\ Requests(db, req) /\ db.tickets \subseteq db.tickets
      BY DEF IInv
    <2> QED BY <1>1, <1>2, <2>1, NumbersOvertake
  <1> QED BY <1>6, <1>7, <1>8 DEF IInv, ghosts

LEMMA OvertakingCases ==
    ASSUME NEW p, NEW d, NEW pc, Overtaking(p, d, pc)
    PROVE  /\ count' = count /\ UNCHANGED ghosts
           /\ \/ Holds(db, req[p].user, req[p].gen) /\ db' = d /\ Overtake(p, pc)
              \/ ~Holds(db, req[p].user, req[p].gen) /\ db' = db /\ Answer(p)
  BY DEF Overtaking, Quiet

(* p itself, on its way to take the sessions. *)
LEMMA ToRevoke ==
    ASSUME IInv, NEW p \in Procs, Overtake(p, "revoke"), req[p].op \in {"change", "reset", "scim"},
           req[p].user \in Users
    PROVE  /\ Placed(req'[p]) /\ req'[p].pc = "revoke" /\ req'[p].user = req[p].user
           /\ req'[p].gen = req[p].gen /\ req'[p].op = req[p].op /\ req'[p].how = req[p].how
           /\ req'[p].pw = req[p].pw /\ req'[p].raced = req[p].raced
  <1> DEFINE r == req[p]
             x == req'[p]
  <1>1. /\ Same(r, x) /\ x.pc = "revoke" /\ x.seen = r.seen /\ x.x = r.x /\ x.who = r.who
    BY OvertakeFacts
  <1>2. /\ x.op = r.op /\ x.user = r.user /\ x.gen = r.gen /\ x.pw = r.pw
        /\ x.how = r.how /\ x.raced = r.raced
    BY <1>1 DEF Same
  <1>3. Placed(r)
    BY DEF IInv, Requests
  <1>4. Placed(x)
    BY <1>1, <1>2, <1>3 DEF Placed, Anonymous
  <1> QED BY <1>1, <1>2, <1>4

(* Those who revoke stay the same but for p. *)
LEMMA OtherRevokers ==
    ASSUME IInv, NEW p \in Procs, NEW pc, Overtake(p, pc), NEW u \in Users, req[p].user = u,
           db'.account[u].gen = db.account[u].gen, NEW o \in Procs \ {p}
    PROVE  Revokes(db', req', o, u) <=> Revokes(db, req, o, u)
  <1>1. Overtakes(req, req', p)
    BY OvertakeFacts
  <1>2. req'[o].pc = req[o].pc /\ req'[o].user = req[o].user /\ req'[o].gen = req[o].gen
    BY <1>1, OvertakesOthers DEF IInv
  <1> QED BY <1>2 DEF Revokes

(* change_password and password_reset_complete write the digest. *)
LEMMA DigestKeeps ==
    ASSUME IInv, NEW p \in Procs, req[p].op \in {"change", "reset"}, req[p].pc = "digest",
           Overtaking(p, SetPasswordDigest(db, req[p].user, req[p].pw), "revoke")
    PROVE  IInv'
  <1> DEFINE r == req[p]
             u == req[p].user
             x == req'[p]
             d == SetPasswordDigest(db, u, r.pw)
  <1>1. u \in Users /\ r.op # "idle" /\ r.pc # "revoke"
    BY PlacedUser DEF Anonymous
  <1>2. /\ count' = count /\ UNCHANGED ghosts
        /\ \/ Holds(db, u, r.gen) /\ db' = d /\ Overtake(p, "revoke")
           \/ ~Holds(db, u, r.gen) /\ db' = db /\ Answer(p)
    BY OvertakingCases
  <1>3. CASE ~Holds(db, u, r.gen) /\ db' = db /\ Answer(p)
    BY <1>1, <1>2, <1>3, GoneKeeps
  <1>4. CASE Holds(db, u, r.gen) /\ db' = d /\ Overtake(p, "revoke")
    <2> DEFINE a == db.account[u]
               b == db'.account[u]
    <2>1. /\ Writes(db, db', u)
          /\ b.present = a.present /\ b.gen = a.gen /\ b.disabled = a.disabled
          /\ b.fails = a.fails /\ b.locked = a.locked /\ b.pw = r.pw
      BY <1>1, <1>4, DigestFacts DEF IInv
    <2>2. /\ Placed(x) /\ x.pc = "revoke" /\ x.user = u /\ x.gen = r.gen /\ x.op = r.op
          /\ x.how = r.how /\ x.pw = r.pw /\ x.raced = r.raced
      BY <1>1, <1>4, ToRevoke
    <2>3. Counted(db, db')
      BY <2>1 DEF Counted, Writes
    <2>4. Fit(db', req', p, x)
      <3>1. Fit(db, req, p, r)
        BY DEF IInv, Requests
      <3>2. \A o \in Procs \ {p} : Revokes(db', req', o, u) <=> Revokes(db, req, o, u)
        BY <1>1, <1>4, <2>1, OtherRevokers
      <3> QED BY <1>1, <1>4, <2>1, <2>2, <3>1, <3>2 DEF Fit
    <2>5. Revokes(db', req', p, u)
      BY <1>4, <2>1, <2>2 DEF Revokes, Holds
    <2>6. ASSUME NEW s \in db'.sessions
          PROVE  s \in db.sessions /\ IsSession(s)
      BY <2>1 DEF Writes, IInv, Sessions
    <2>7. IsDb(db') /\ (\A v \in Users \ {u} : db'.account[v] = db.account[v])
          /\ db'.tickets \subseteq db.tickets
      BY <2>1 DEF Writes
    <2> HIDE DEF d
    <2> QED BY <1>1, <1>2, <1>4, <2>1, <2>2, <2>3, <2>4, <2>5, <2>6, <2>7, OvertakeKeeps
  <1> QED BY <1>2, <1>3, <1>4

(* The SCIM endpoint deactivates the account. *)
LEMMA DisableKeeps ==
    ASSUME IInv, NEW p \in Procs, req[p].op = "scim", req[p].pc = "flag",
           Overtaking(p, SetUserDisabled(db, req[p].user, TRUE), "revoke")
    PROVE  IInv'
  <1> DEFINE r == req[p]
             u == req[p].user
             x == req'[p]
             d == SetUserDisabled(db, u, TRUE)
  <1>1. u \in Users /\ r.op # "idle" /\ r.pc # "revoke"
    BY PlacedUser DEF Anonymous
  <1>2. /\ count' = count /\ UNCHANGED ghosts
        /\ \/ Holds(db, u, r.gen) /\ db' = d /\ Overtake(p, "revoke")
           \/ ~Holds(db, u, r.gen) /\ db' = db /\ Answer(p)
    BY OvertakingCases
  <1>3. CASE ~Holds(db, u, r.gen) /\ db' = db /\ Answer(p)
    BY <1>1, <1>2, <1>3, GoneKeeps
  <1>4. CASE Holds(db, u, r.gen) /\ db' = d /\ Overtake(p, "revoke")
    <2> DEFINE a == db.account[u]
               b == db'.account[u]
    <2>1. /\ Writes(db, db', u)
          /\ b.present = a.present /\ b.gen = a.gen
          /\ b.fails = a.fails /\ b.locked = a.locked
      <3> DEFINE yes == TRUE
      <3>1. yes \in BOOLEAN
        OBVIOUS
      <3> HIDE DEF yes
      <3>2. db' = SetUserDisabled(db, u, yes)
        BY <1>4 DEF yes
      <3> HIDE DEF d
      <3> QED BY <1>1, <3>1, <3>2, DisabledFacts DEF IInv
    <2>2. /\ Placed(x) /\ x.pc = "revoke" /\ x.user = u /\ x.gen = r.gen /\ x.op = r.op
      BY <1>1, <1>4, ToRevoke
    <2>3. Counted(db, db')
      BY <2>1 DEF Counted, Writes
    <2>4. Fit(db', req', p, x)
      BY <2>2 DEF Fit
    <2>5. Revokes(db', req', p, u)
      BY <1>4, <2>1, <2>2 DEF Revokes, Holds
    <2>6. ASSUME NEW s \in db'.sessions
          PROVE  s \in db.sessions /\ IsSession(s)
      BY <2>1 DEF Writes, IInv, Sessions
    <2>7. IsDb(db') /\ (\A v \in Users \ {u} : db'.account[v] = db.account[v])
          /\ db'.tickets \subseteq db.tickets
      BY <2>1 DEF Writes
    <2> HIDE DEF d
    <2> QED BY <1>1, <1>2, <1>4, <2>1, <2>2, <2>3, <2>4, <2>5, <2>6, <2>7, OvertakeKeeps
  <1> QED BY <1>2, <1>3, <1>4

(* The sessions of the row stay, marked. *)
LEMMA KeepFacts ==
    ASSUME NEW d, IsDb(d), \A s \in d.sessions : IsSession(s), NEW u, NEW gen
    PROVE  LET e == Keep(d, u, gen)
           IN  /\ IsDb(e) /\ e.account = d.account /\ e.tickets = d.tickets
               /\ ~Holds(d, u, gen) => e = d
               /\ Holds(d, u, gen) => \A s \in e.sessions :
                     IF s.user = u THEN IsSession(s) /\ s.kept ELSE s \in d.sessions
  <1> DEFINE e == Keep(d, u, gen)
             here == Holds(d, u, gen)
  <1>1. /\ e = [f \in TableNames |-> e[f]] /\ e.account = d.account /\ e.tickets = d.tickets
        /\ e.passkeys = d.passkeys /\ e.links = d.links /\ e.asserted = d.asserted
        /\ e.events = d.events /\ e.minted = d.minted /\ e.workspace = d.workspace
        /\ e.sessions = {IF here /\ s.user = u THEN [s EXCEPT !.kept = TRUE] ELSE s : s \in d.sessions}
    BY DEF Keep, IsDb, TableNames
  <1> HIDE DEF e, here
  <1>2. IsDb(e)
    BY <1>1 DEF IsDb
  <1>3. ASSUME ~here PROVE e = d
    <2>1. e.sessions = d.sessions
      BY <1>1, <1>3
    <2>2. d = [f \in TableNames |-> d[f]]
      BY DEF IsDb
    <2>3. \A f \in TableNames : e[f] = d[f]
      BY <1>1, <2>1 DEF TableNames
    <2> QED BY <1>1, <2>2, <2>3
  <1>4. ASSUME here, NEW s \in e.sessions
        PROVE  IF s.user = u THEN IsSession(s) /\ s.kept ELSE s \in d.sessions
    <2>1. PICK y \in d.sessions : s = IF y.user = u THEN [y EXCEPT !.kept = TRUE] ELSE y
      BY <1>1, <1>4
    <2>2. CASE y.user # u
      BY <2>1, <2>2
    <2>3. CASE y.user = u
      <3>1. s = [y EXCEPT !.kept = TRUE] /\ IsSession(y)
        BY <2>1, <2>3
      <3>2. /\ s = [f \in SessionFields |-> s[f]] /\ s.user = y.user /\ s.raced = y.raced
            /\ s.kept = TRUE
        BY <3>1 DEF IsSession, SessionFields
      <3>3. s.kept \in BOOLEAN /\ s.kept
        BY <3>2, Zenon
      <3>4. IsSession(s)
        BY <3>1, <3>2, <3>3 DEF IsSession
      <3> QED BY <2>3, <3>2, <3>3, <3>4
    <2> QED BY <2>2, <2>3
  <1> QED BY <1>1, <1>2, <1>3, <1>4 DEF e, here

(* The sessions of the row go. *)
LEMMA TakeFacts ==
    ASSUME NEW d, IsDb(d), NEW u, NEW gen
    PROVE  LET e == DeleteSessionsForUser(d, u, gen)
           IN  /\ IsDb(e) /\ e.account = d.account /\ e.tickets = d.tickets
               /\ ~Holds(d, u, gen) => e = d
               /\ Holds(d, u, gen) => \A s \in e.sessions : s.user # u /\ s \in d.sessions
  <1> DEFINE e == DeleteSessionsForUser(d, u, gen)
             here == Holds(d, u, gen)
  <1>1. /\ e = [f \in TableNames |-> e[f]] /\ e.account = d.account /\ e.tickets = d.tickets
        /\ e.passkeys = d.passkeys /\ e.links = d.links /\ e.asserted = d.asserted
        /\ e.events = d.events /\ e.minted = d.minted /\ e.workspace = d.workspace
        /\ e.sessions = {s \in d.sessions : here => s.user # u}
    BY DEF DeleteSessionsForUser, IsDb, TableNames
  <1> HIDE DEF e, here
  <1>2. IsDb(e)
    BY <1>1 DEF IsDb
  <1>3. ASSUME ~here PROVE e = d
    <2>1. e.sessions = d.sessions
      BY <1>1, <1>3
    <2>2. d = [f \in TableNames |-> d[f]]
      BY DEF IsDb
    <2>3. \A f \in TableNames : e[f] = d[f]
      BY <1>1, <2>1 DEF TableNames
    <2> QED BY <1>1, <2>2, <2>3
  <1> QED BY <1>1, <1>2, <1>3 DEF e, here

(* register and users_create write the first digest. *)
LEMMA FirstPasswordKeeps ==
    ASSUME IInv, NEW p \in Procs, SetFirstPassword(p)
    PROVE  IInv'
  <1> DEFINE r == req[p]
             u == req[p].user
             x == req'[p]
             c == SetPasswordDigest(db, u, r.pw)
             d == Keep(c, u, r.gen)
  <1>0. r.op \in {"register", "admin"} /\ r.pc = "digest" /\ Overtaking(p, d, "announce")
    BY DEF SetFirstPassword
  <1>1. u \in Users /\ r.op # "idle" /\ r.pc # "revoke"
    BY <1>0, PlacedUser DEF Anonymous
  <1>2. /\ count' = count /\ UNCHANGED ghosts
        /\ \/ Holds(db, u, r.gen) /\ db' = d /\ Overtake(p, "announce")
           \/ ~Holds(db, u, r.gen) /\ db' = db /\ Answer(p)
    BY <1>0, OvertakingCases
  <1>3. CASE ~Holds(db, u, r.gen) /\ db' = db /\ Answer(p)
    BY <1>1, <1>2, <1>3, GoneKeeps
  <1>4. CASE Holds(db, u, r.gen) /\ db' = d /\ Overtake(p, "announce")
    <2> DEFINE a == db.account[u]
               b == c.account[u]
    <2>1. /\ Writes(db, c, u)
          /\ b.present = a.present /\ b.gen = a.gen /\ b.disabled = a.disabled
          /\ b.fails = a.fails /\ b.locked = a.locked
      BY <1>1, DigestFacts DEF IInv
    <2>2. \A s \in c.sessions : IsSession(s)
      BY <2>1 DEF Writes, IInv, Sessions
    <2>3. Holds(c, u, r.gen)
      BY <1>4, <2>1 DEF Holds
    <2> HIDE DEF c
    <2>4. /\ IsDb(db') /\ db'.account = c.account /\ db'.tickets = c.tickets
          /\ \A s \in db'.sessions : IF s.user = u THEN IsSession(s) /\ s.kept ELSE s \in c.sessions
      BY <1>4, <2>1, <2>2, <2>3, KeepFacts DEF Writes
    <2>5. /\ Same(r, x) /\ x.pc = "announce" /\ x.seen = r.seen /\ x.x = r.x /\ x.who = r.who
      BY <1>1, <1>4, OvertakeFacts
    <2>6. /\ x.op = r.op /\ x.user = r.user /\ x.gen = r.gen /\ x.pw = r.pw
          /\ x.how = r.how /\ x.raced = r.raced
      BY <2>5 DEF Same
    <2>7. Placed(r) /\ Fit(db, req, p, r)
      BY DEF IInv, Requests
    <2>8. Placed(x)
      BY <1>0, <1>1, <2>5, <2>6, <2>7 DEF Placed, Anonymous
    <2>9. Counted(db, db')
      BY <2>1, <2>4 DEF Counted, Writes
    <2>10. Fit(db', req', p, x)
      BY <1>0, <1>1, <1>4, <2>1, <2>4, <2>6, <2>7 DEF Fit
    <2>11. /\ db'.tickets \subseteq db.tickets /\ db'.account[u].gen = db.account[u].gen
           /\ \A v \in Users \ {u} : db'.account[v] = db.account[v]
           /\ \A s \in db'.sessions : IF s.user = u THEN IsSession(s) /\ s.kept ELSE s \in db.sessions
      BY <2>1, <2>4 DEF Writes
    <2> HIDE DEF d
    <2> QED BY <1>1, <1>2, <1>4, <2>4, <2>8, <2>9, <2>10, <2>11, OvertakeKeeps
  <1> QED BY <1>2, <1>3, <1>4

(* p leaves "revoke": the sessions of the row are gone, or marked. *)
LEMMA RevokedKeeps ==
    ASSUME IInv, NEW p \in Procs, NEW pc, req[p].pc = "revoke", Overtake(p, pc),
           pc = "done" \/ (pc = "issue" /\ req[p].op = "change") \/ (pc = "zero" /\ req[p].op = "reset"),
           db' = DeleteSessionsForUser(db, req[p].user, req[p].gen) \/ db' = Keep(db, req[p].user, req[p].gen),
           count' = count, UNCHANGED ghosts
    PROVE  IInv'
  <1> DEFINE r == req[p]
             u == req[p].user
             x == req'[p]
  <1>1. u \in Users /\ r.op # "idle"
    BY PlacedUser DEF Anonymous
  <1>2. IsDb(db) /\ \A s \in db.sessions : IsSession(s)
    BY DEF IInv, Sessions
  <1>3. /\ IsDb(db') /\ db'.account = db.account /\ db'.tickets = db.tickets
        /\ ~Holds(db, u, r.gen) => db' = db
        /\ Holds(db, u, r.gen) => \A s \in db'.sessions :
              IF s.user = u THEN IsSession(s) /\ s.kept ELSE s \in db.sessions
    <2>1. CASE db' = DeleteSessionsForUser(db, u, r.gen)
      BY <1>2, <2>1, TakeFacts
    <2>2. CASE db' = Keep(db, u, r.gen)
      BY <1>2, <2>2, KeepFacts
    <2> QED BY <2>1, <2>2
  <1>4. /\ pc = "done" => x = Blank
        /\ pc # "done" => Same(r, x) /\ x.pc = pc /\ x.seen = r.seen /\ x.x = r.x /\ x.who = r.who
    BY <1>1, OvertakeFacts
  <1>5. Placed(r) /\ Fit(db, req, p, r)
    BY DEF IInv, Requests
  <1>6. Placed(x)
    <2>1. CASE pc = "done"
      BY <1>4, <2>1, BlankFacts
    <2>2. CASE pc # "done"
      <3>1. x.op = r.op /\ x.user = r.user /\ x.how = r.how /\ x.pc = pc /\ x.seen = r.seen /\ x.x = r.x
        BY <1>4, <2>2 DEF Same
      <3> QED BY <1>1, <1>5, <2>2, <3>1 DEF Placed, Anonymous
    <2> QED BY <2>1, <2>2
  <1>7. CASE ~Holds(db, u, r.gen)
    <2>1. db' = db /\ pc # "ticket"
      BY <1>3, <1>7
    <2> QED BY <1>1, <1>6, <1>7, <2>1, OvertakeGone
  <1>8. CASE Holds(db, u, r.gen)
    <2>1. Fit(db', req', p, x)
      <3>1. CASE pc = "done"
        BY <1>4, <3>1, BlankFits
      <3>2. CASE pc # "done"
        <4>1. /\ x.op = r.op /\ x.user = r.user /\ x.gen = r.gen /\ x.how = r.how /\ x.pc = pc
              /\ x.pw = r.pw /\ x.raced = r.raced
          BY <1>4, <3>2 DEF Same
        <4>2. \A o \in Procs \ {p} : Revokes(db', req', o, u) <=> Revokes(db, req, o, u)
          BY <1>1, <1>3, OtherRevokers
        <4> QED BY <1>1, <1>3, <1>5, <1>8, <3>2, <4>1, <4>2 DEF Fit
      <3> QED BY <3>1, <3>2
    <2>2. /\ Counted(db, db') /\ db'.tickets \subseteq db.tickets
          /\ db'.account[u].gen = db.account[u].gen
          /\ \A v \in Users \ {u} : db'.account[v] = db.account[v]
      BY <1>3 DEF Counted
    <2>3. \A s \in db'.sessions : IF s.user = u THEN IsSession(s) /\ s.kept ELSE s \in db.sessions
      BY <1>3, <1>8
    <2>4. pc # "ticket"
      OBVIOUS
    <2> QED BY <1>1, <1>3, <1>6, <1>8, <2>1, <2>2, <2>3, <2>4, OvertakeKeeps
  <1> QED BY <1>7, <1>8

LEMMA RevokeKeeps ==
    ASSUME IInv, NEW p \in Procs, Revoke(p)
    PROVE  IInv'
  <1>1. req[p].op \in {"change", "reset", "scim"}
    BY DEF Revoke, IInv, Requests, Placed
  <1>2. /\ req[p].pc = "revoke" /\ Overtake(p, AfterRevoke(req[p].op)) /\ count' = count
        /\ UNCHANGED ghosts
        /\ \/ db' = DeleteSessionsForUser(db, req[p].user, req[p].gen)
           \/ db' = Keep(db, req[p].user, req[p].gen)
    BY DEF Revoke
  <1>3. \/ AfterRevoke(req[p].op) = "done"
        \/ AfterRevoke(req[p].op) = "issue" /\ req[p].op = "change"
        \/ AfterRevoke(req[p].op) = "zero" /\ req[p].op = "reset"
    BY <1>1 DEF AfterRevoke
  <1> QED BY <1>2, <1>3, RevokedKeeps

LEMMA AbandonKeeps ==
    ASSUME IInv, NEW p \in Procs, Abandon(p)
    PROVE  IInv'
  <1>1. req[p].op # "idle" /\ count' = count /\ UNCHANGED ghosts
    BY DEF Abandon
  <1>2. CASE req[p].pc = "revoke"
    <2>1. Overtake(p, "done") /\ db' = Keep(db, req[p].user, req[p].gen)
      BY <1>2 DEF Abandon
    <2> QED BY <1>1, <1>2, <2>1, RevokedKeeps
  <1>3. CASE req[p].pc # "revoke"
    <2>1. Answer(p) /\ db' = db
      BY <1>3 DEF Abandon
    <2> QED BY <1>1, <1>3, <2>1, GoneKeeps
  <1> QED BY <1>2, <1>3

-----------------------------------------------------------------------------
(***************************************************************************)
(* The requests, one by one                                                *)
(***************************************************************************)
(* What a request has read when it begins. *)
Reads(r, op, u, pc) ==
    /\ IsRequest(r) /\ r.op = op /\ r.pc = pc
    /\ r.user = u /\ r.gen = db.account[u].gen /\ r.seen = db.account[u]

LEMMA AboutFacts ==
    ASSUME IInv, NEW u \in Users, NEW op, NEW pc
    PROVE  LET r == About(op, u, pc)
           IN  Reads(r, op, u, pc) /\ r.how = "none" /\ r.raced = FALSE
  <1> DEFINE b == Blank
             g == db.account[u].gen
             a == db.account[u]
             r == [b EXCEPT !.op = op, !.pc = pc, !.user = u, !.gen = g, !.seen = a]
  <1>1. IsAccount(a) /\ g \in Nat
    BY RowFacts DEF IInv
  <1>2. IsRequest(b) /\ b.raced = FALSE /\ b.how = "none"
    BY BlankFacts
  <1>3. About(op, u, pc) = r
    BY DEF About
  <1>4. g = db.account[u].gen /\ a = db.account[u]
    OBVIOUS
  <1> HIDE DEF b, g, a
  <1>5. /\ r = [f \in RequestFields |-> r[f]]
        /\ r.op = op /\ r.pc = pc /\ r.user = u /\ r.gen = g /\ r.seen = a
        /\ r.n = b.n /\ r.raced = b.raced /\ r.how = b.how
    BY <1>2 DEF IsRequest, RequestFields
  <1> HIDE DEF r
  <1>6. IsRequest(r)
    BY <1>1, <1>2, <1>5 DEF IsRequest
  <1>7. Reads(r, op, u, pc)
    BY <1>4, <1>5, <1>6 DEF Reads
  <1>8. r.how = "none" /\ r.raced = FALSE
    BY <1>2, <1>5
  <1> QED BY <1>3, <1>7, <1>8

(* The same with what the client sent. *)
LEMMA AboutX ==
    ASSUME IInv, NEW u \in Users, NEW op, NEW pc, NEW v
    PROVE  LET r == [About(op, u, pc) EXCEPT !.x = v] IN Reads(r, op, u, pc) /\ r.x = v
  <1> DEFINE b == About(op, u, pc)
             r == [b EXCEPT !.x = v]
  <1>1. Reads(b, op, u, pc)
    BY AboutFacts
  <1> HIDE DEF b
  <1>2. /\ r = [f \in RequestFields |-> r[f]]
        /\ r.op = b.op /\ r.pc = b.pc /\ r.user = b.user /\ r.gen = b.gen /\ r.seen = b.seen
        /\ r.n = b.n /\ r.raced = b.raced /\ r.x = v
    BY <1>1 DEF Reads, IsRequest, RequestFields
  <1> HIDE DEF r
  <1>3. IsRequest(r)
    BY <1>1, <1>2 DEF IsRequest, Reads
  <1>4. Reads(r, op, u, pc)
    BY <1>1, <1>2, <1>3 DEF Reads
  <1> QED BY <1>2, <1>4 DEF r, b

PlainOps == {"logout", "me", "forgot", "reset", "enroll", "activate", "unfactor", "regstart",
             "regfinish", "unkey", "keystart", "update", "destroy", "scim"}
PlainPcs == {"delete", "write", "read", "check", "remove", "add", "row", "active"}

LEMMA ReadsFit ==
    ASSUME IInv, NEW u \in Users, NEW op, NEW pc, NEW r, Reads(r, op, u, pc)
    PROVE  Past(db, r)
  <1>1. db.account[u].gen \in Nat
    BY RowFacts DEF IInv
  <1> QED BY <1>1 DEF Reads, Past

LEMMA PlainFresh ==
    ASSUME IInv, NEW p, NEW u \in Users, NEW op \in PlainOps, NEW pc, NEW r, Reads(r, op, u, pc),
           \/ pc \in PlainPcs
           \/ pc = "late"
           \/ pc = "set" /\ op = "enroll"
           \/ pc = "ticket" /\ op \in {"forgot", "regstart", "keystart"}
    PROVE  Fresh(p, r)
  <1>1. Past(db, r)
    BY ReadsFit
  <1>2. IsRequest(r) /\ r.op = op /\ r.pc = pc /\ r.user = u
    BY DEF Reads
  <1>3. Placed(r)
    BY <1>2 DEF Placed, PlainOps, PlainPcs, Anonymous
  <1>4. Fit(db, req, p, r)
    BY <1>2 DEF Fit, PlainOps
  <1>5. op # "idle" /\ pc # "revoke"
    BY DEF PlainOps, PlainPcs
  <1> QED BY <1>1, <1>2, <1>3, <1>4, <1>5 DEF Fresh

LEMMA PlainAbout ==
    ASSUME IInv, NEW p, NEW u \in Users, NEW op \in PlainOps, NEW pc, NEW v,
           \/ pc \in PlainPcs
           \/ pc = "late"
           \/ pc = "set" /\ op = "enroll"
           \/ pc = "ticket" /\ op \in {"forgot", "regstart", "keystart"}
    PROVE  Fresh(p, About(op, u, pc)) /\ Fresh(p, [About(op, u, pc) EXCEPT !.x = v])
  <1> DEFINE b == About(op, u, pc)
             r == [b EXCEPT !.x = v]
  <1>1. Reads(b, op, u, pc)
    BY AboutFacts
  <1>2. Reads(r, op, u, pc)
    BY AboutX
  <1> HIDE DEF b, r
  <1>3. Fresh(p, b) /\ Fresh(p, r)
    BY <1>1, <1>2, PlainFresh
  <1> QED BY <1>3 DEF b, r

LEMMA MiddlewareKeeps ==
    ASSUME IInv, NEW p \in Procs, NEW s, NEW r, SessionMiddleware(p, s, r), Fresh(p, r)
    PROVE  IInv'
  <1>1. Enter(p, r) /\ db' = TouchSession(db, s.id) /\ UNCHANGED ghosts
    BY DEF SessionMiddleware
  <1>2. Tame(db, db')
    BY <1>1, TouchTame DEF IInv
  <1> QED BY <1>1, <1>2, EnterKeeps

LEMMA SessionUser ==
    ASSUME IInv, NEW s \in db.sessions
    PROVE  s.user \in Users /\ IsSession(s) /\ Entitled(db, req, s)
  BY DEF IInv, Sessions, IsSession

(* A request that reads, and no more. *)
LEMMA ReadKeeps ==
    ASSUME IInv, NEW p \in Procs, NEW r, Enter(p, r), Fresh(p, r), db' = db, UNCHANGED ghosts
    PROVE  IInv'
  BY TameRefl, EnterKeeps DEF IInv

(* The last statement of a request. *)
LEMMA LastKeeps ==
    ASSUME IInv, NEW p \in Procs, NEW d, Statement(p, d, "done"), Tame(db, d),
           req[p].pc \notin Anonymous, req[p].pc # "revoke", UNCHANGED ghosts
    PROVE  IInv'
  <1>1. req[p].op # "idle"
    BY PlacedUser
  <1>2. Answer(p) /\ count' = count /\ (db' = d \/ db' = db)
    BY StatementCases
  <1>3. Tame(db, db')
    BY <1>2, TameRefl DEF IInv
  <1> QED BY <1>1, <1>2, <1>3, AnswerKeeps

(* A handler that reads the account again. *)
LEMMA RereadKeeps ==
    ASSUME IInv, NEW p \in Procs, NEW pc \in {"digest", "set", "owner", "flag"}, NEW passes,
           Reread(p, pc, passes), req[p].pc \notin Anonymous, req[p].pc # "revoke",
           req[p].op \in {"change", "reset", "activate", "unfactor", "keyfinish", "scim"},
           req[p].op = "activate" /\ passes => Now(p).secret = req[p].x
    PROVE  IInv'
  <1> DEFINE r == req[p]
             a == Now(p)
             x == [r EXCEPT !.pc = pc, !.seen = a]
  <1>1. r.user \in Users /\ r.op # "idle" /\ IsRequest(r) /\ Placed(r)
    BY PlacedUser DEF IInv, Requests
  <1>2. count' = count /\ UNCHANGED ghosts /\ db' = db
    BY DEF Reread, Quiet
  <1>3. CASE Answer(p)
    BY <1>1, <1>2, <1>3, GoneKeeps
  <1>4. CASE passes /\ req' = [req EXCEPT ![p].pc = pc, ![p].seen = Now(p)]
    <2>1. IsAccount(a)
      BY <1>1, RowFacts DEF Now, IInv
    <2>2. req = [q \in Procs |-> req[q]]
      BY DEF IInv, Requests
    <2>3. req'[p] = x /\ req' = [req EXCEPT ![p] = req'[p]]
      BY <1>4, <2>2
    <2>4. r.op = "activate" => a.secret = r.x
      BY <1>4
    <2> HIDE DEF r, a
    <2>5. /\ x = [f \in RequestFields |-> x[f]]
          /\ x.op = r.op /\ x.pc = pc /\ x.user = r.user /\ x.gen = r.gen /\ x.seen = a
          /\ x.n = r.n /\ x.raced = r.raced /\ x.x = r.x /\ x.pw = r.pw /\ x.how = r.how
          /\ x.who = r.who
      BY <1>1 DEF IsRequest, RequestFields
    <2> HIDE DEF x
    <2>6. Same(r, x)
      BY <1>1, <2>1, <2>5 DEF Same, IsRequest
    <2>7. r.op \in {"change", "reset", "activate", "unfactor", "keyfinish", "scim"} /\ r.pc \notin Anonymous
      BY DEF r
    <2>8. Placed(x)
      BY <1>1, <2>4, <2>5, <2>7 DEF Placed, Anonymous
    <2>9. x.pc \notin {"revoke", "ticket"} /\ x.pc \notin Firm
      BY <2>5 DEF Firm
    <2>10. Tame(db, db')
      BY <1>2, TameRefl DEF IInv
    <2> QED BY <1>1, <1>2, <2>3, <2>6, <2>8, <2>9, <2>10, GotoKeeps DEF r
  <1> QED BY <1>3, <1>4 DEF Reread

LEMMA LoginKeeps ==
    ASSUME IInv, NEW p \in Procs, NEW u \in Users, NEW pw, NEW code, Login(p, u, pw, code)
    PROVE  IInv'
  <1> DEFINE a == db.account[u]
             pc == IF a.pw # NoPassword /\ pw = a.pw /\ (a.totp => code = a.secret)
                   THEN "clear" ELSE "fail"
             b == About("login", u, pc)
             r == [b EXCEPT !.pw = pw, !.how = "password"]
  <1>1. Enter(p, r) /\ db' = db /\ UNCHANGED ghosts /\ ~a.disabled /\ ~a.locked
    BY DEF Login
  <1>2. pc = "clear" => pw = a.pw
    OBVIOUS
  <1>3. pc \in {"clear", "fail"}
    OBVIOUS
  <1> HIDE DEF pc
  <1>4. Reads(b, "login", u, pc)
    BY AboutFacts
  <1> HIDE DEF b
  <1>5. /\ r = [f \in RequestFields |-> r[f]]
        /\ r.op = b.op /\ r.pc = b.pc /\ r.user = b.user /\ r.gen = b.gen /\ r.seen = b.seen
        /\ r.n = b.n /\ r.raced = b.raced /\ r.pw = pw /\ r.how = "password"
    BY <1>4 DEF Reads, IsRequest, RequestFields
  <1> HIDE DEF r
  <1>6. IsRequest(r)
    BY <1>4, <1>5 DEF IsRequest, Reads
  <1>7. Reads(r, "login", u, pc)
    BY <1>4, <1>5, <1>6 DEF Reads
  <1>8. /\ r.op = "login" /\ r.pc = pc /\ r.user = u /\ r.seen = a /\ r.how = "password" /\ r.pw = pw
    BY <1>5, <1>7 DEF Reads
  <1>9. Placed(r)
    BY <1>1, <1>3, <1>8 DEF Placed, Anonymous
  <1>10. Fit(db, req, p, r)
    BY <1>1, <1>2, <1>3, <1>8 DEF Fit
  <1>11. Fresh(p, r)
    BY <1>3, <1>6, <1>7, <1>8, <1>9, <1>10, ReadsFit DEF Fresh
  <1> QED BY <1>1, <1>11, ReadKeeps

LEMMA RegisterKeeps ==
    ASSUME IInv, NEW p \in Procs, NEW u \in Users, NEW pw, Register(p, u, pw)
    PROVE  IInv'
  <1> DEFINE b == About("register", u, "digest")
             r == [b EXCEPT !.gen = @ + 1, !.pw = pw, !.how = "register"]
  <1>1. /\ Enter(p, r) /\ db' = CreateUser(db, u, FALSE) /\ UNCHANGED ghosts
        /\ ~db.account[u].present
    BY DEF Register
  <1>2. Reads(b, "register", u, "digest") /\ db.account[u].gen \in Nat
    BY AboutFacts, RowFacts DEF IInv
  <1> HIDE DEF b
  <1>3. /\ r = [f \in RequestFields |-> r[f]]
        /\ r.op = b.op /\ r.pc = b.pc /\ r.user = b.user /\ r.gen = b.gen + 1 /\ r.seen = b.seen
        /\ r.n = b.n /\ r.raced = b.raced /\ r.how = "register"
    BY <1>2 DEF Reads, IsRequest, RequestFields
  <1> HIDE DEF r
  <1>4. IsRequest(r)
    BY <1>2, <1>3 DEF IsRequest, Reads
  <1>5. /\ r.op = "register" /\ r.pc = "digest" /\ r.user = u /\ r.gen = db.account[u].gen + 1
    BY <1>2, <1>3 DEF Reads
  <1>6. Placed(r)
    BY <1>3, <1>5 DEF Placed, Anonymous
  <1>7. Born(r, u)
    BY <1>4, <1>5, <1>6 DEF Born
  <1> QED BY <1>1, <1>7, CreateKeeps

LEMMA AdminCreateKeeps ==
    ASSUME IInv, NEW p \in Procs, NEW u \in Users, NEW pw, AdminCreate(p, u, pw)
    PROVE  IInv'
  <1> DEFINE pc == IF pw = NoPassword THEN "announce" ELSE "digest"
             b == About("admin", u, pc)
             r == [b EXCEPT !.gen = @ + 1, !.pw = pw]
  <1>1. /\ Enter(p, r) /\ db' = CreateUser(db, u, FALSE) /\ UNCHANGED ghosts
        /\ ~db.account[u].present
    BY DEF AdminCreate
  <1>2. pc \in {"announce", "digest"}
    OBVIOUS
  <1> HIDE DEF pc
  <1>3. Reads(b, "admin", u, pc) /\ db.account[u].gen \in Nat
    BY AboutFacts, RowFacts DEF IInv
  <1> HIDE DEF b
  <1>4. /\ r = [f \in RequestFields |-> r[f]]
        /\ r.op = b.op /\ r.pc = b.pc /\ r.user = b.user /\ r.gen = b.gen + 1 /\ r.seen = b.seen
        /\ r.n = b.n /\ r.raced = b.raced
    BY <1>3 DEF Reads, IsRequest, RequestFields
  <1> HIDE DEF r
  <1>5. IsRequest(r)
    BY <1>3, <1>4 DEF IsRequest, Reads
  <1>6. /\ r.op = "admin" /\ r.pc = pc /\ r.user = u /\ r.gen = db.account[u].gen + 1
    BY <1>3, <1>4 DEF Reads
  <1>7. Placed(r)
    BY <1>2, <1>6 DEF Placed, Anonymous
  <1>8. Born(r, u)
    BY <1>2, <1>5, <1>6, <1>7 DEF Born
  <1> QED BY <1>1, <1>8, CreateKeeps

LEMMA ScimCreateKeeps ==
    ASSUME IInv, NEW p \in Procs, NEW u \in Users, NEW active, ScimCreate(p, u, active)
    PROVE  IInv'
  <1> DEFINE b == About("scim", u, "announce")
             r == [b EXCEPT !.gen = @ + 1, !.x = active]
  <1>1. /\ Enter(p, r) /\ db' = CreateUser(db, u, FALSE) /\ UNCHANGED ghosts
        /\ ~db.account[u].present
    BY DEF ScimCreate
  <1>2. Reads(b, "scim", u, "announce") /\ db.account[u].gen \in Nat
    BY AboutFacts, RowFacts DEF IInv
  <1> HIDE DEF b
  <1>3. /\ r = [f \in RequestFields |-> r[f]]
        /\ r.op = b.op /\ r.pc = b.pc /\ r.user = b.user /\ r.gen = b.gen + 1 /\ r.seen = b.seen
        /\ r.n = b.n /\ r.raced = b.raced
    BY <1>2 DEF Reads, IsRequest, RequestFields
  <1> HIDE DEF r
  <1>4. IsRequest(r)
    BY <1>2, <1>3 DEF IsRequest, Reads
  <1>5. /\ r.op = "scim" /\ r.pc = "announce" /\ r.user = u /\ r.gen = db.account[u].gen + 1
    BY <1>2, <1>3 DEF Reads
  <1>6. Placed(r)
    BY <1>5 DEF Placed, Anonymous
  <1>7. Born(r, u)
    BY <1>4, <1>5, <1>6 DEF Born
  <1> QED BY <1>1, <1>7, CreateKeeps

LEMMA LogoutKeeps ==
    ASSUME IInv, NEW p \in Procs, Logout(p)
    PROVE  IInv'
  <1>1. ASSUME NEW s \in db.sessions,
               SessionMiddleware(p, s, [About("logout", s.user, "delete") EXCEPT !.x = s.id])
        PROVE  IInv'
    <2>1. Fresh(p, [About("logout", s.user, "delete") EXCEPT !.x = s.id])
      BY SessionUser, PlainAbout DEF PlainOps, PlainPcs
    <2> QED BY <1>1, <2>1, MiddlewareKeeps
  <1>2. ASSUME At(p, "logout", "delete"), db' = DeleteSession(db, req[p].x), Answer(p), Quiet,
               UNCHANGED ghosts
        PROVE  IInv'
    <2>1. Tame(db, db')
      BY <1>2, DeleteSessionTame DEF IInv
    <2>2. req[p].op # "idle" /\ req[p].pc # "revoke" /\ count' = count
      BY <1>2 DEF At, Quiet
    <2> QED BY <1>2, <2>1, <2>2, AnswerKeeps
  <1> QED BY <1>1, <1>2 DEF Logout

LEMMA UpdateMeKeeps ==
    ASSUME IInv, NEW p \in Procs, UpdateMe(p)
    PROVE  IInv'
  <1>1. ASSUME NEW s \in db.sessions, SessionMiddleware(p, s, About("me", s.user, "write"))
        PROVE  IInv'
    <2>1. Fresh(p, About("me", s.user, "write"))
      BY SessionUser, PlainAbout DEF PlainOps, PlainPcs
    <2> QED BY <1>1, <2>1, MiddlewareKeeps
  <1>2. ASSUME At(p, "me", "write"), UNCHANGED ghosts,
               Statement(p, UpdateUser(db, req[p].user, req[p].seen.admin), "done")
        PROVE  IInv'
    <2>1. req[p].pc = "write" /\ req[p].user \in Users
      BY <1>2, PlacedUser DEF At, Anonymous
    <2>2. Tame(db, UpdateUser(db, req[p].user, req[p].seen.admin))
      BY <2>1, UpdateTame DEF IInv
    <2> QED BY <1>2, <2>1, <2>2, LastKeeps DEF Anonymous
  <1> QED BY <1>1, <1>2 DEF UpdateMe

(* The session whose password is changed stands for the new one. *)
LEMMA ChangeFresh ==
    ASSUME IInv, NEW p \in Procs, NEW s \in db.sessions, NEW old, NEW new, req[p].op = "idle"
    PROVE  Fresh(p, [About("change", s.user, "read") EXCEPT !.x = old, !.pw = new, !.how = s.how,
                                                            !.raced = s.raced \/ s.kept])
  <1> DEFINE u == s.user
             mark == s.raced \/ s.kept
             b == About("change", u, "read")
             r == [b EXCEPT !.x = old, !.pw = new, !.how = s.how, !.raced = mark]
  <1>1. u \in Users /\ IsSession(s) /\ Entitled(db, req, s)
    BY SessionUser
  <1>2. Reads(b, "change", u, "read")
    BY <1>1, AboutFacts
  <1>3. mark \in BOOLEAN
    BY <1>1 DEF IsSession
  <1>4. ~mark => ~s.raced /\ ~s.kept
    OBVIOUS
  <1> HIDE DEF b, mark
  <1>5. /\ r = [f \in RequestFields |-> r[f]]
        /\ r.op = b.op /\ r.pc = b.pc /\ r.user = b.user /\ r.gen = b.gen /\ r.seen = b.seen
        /\ r.n = b.n /\ r.raced = mark /\ r.how = s.how
    BY <1>2 DEF Reads, IsRequest, RequestFields
  <1> HIDE DEF r
  <1>6. IsRequest(r)
    BY <1>2, <1>3, <1>5 DEF IsRequest, Reads
  <1>7. Reads(r, "change", u, "read")
    BY <1>2, <1>5, <1>6 DEF Reads
  <1>8. r.op = "change" /\ r.pc = "read" /\ r.user = u /\ r.gen = db.account[u].gen
    BY <1>7 DEF Reads
  <1>9. Placed(r)
    BY <1>1, <1>8 DEF Placed, Anonymous
  <1>10. Fit(db, req, p, r)
    <2>1. ~Revokes(db, req, p, u)
      BY BlankFacts DEF Revokes, IInv, Requests, Placed
    <2>2. ~mark /\ s.how \notin {"passkey", "social"} /\ db.account[u].disabled =>
             \E o \in Procs : Revokes(db, req, o, u)
      BY <1>1, <1>4 DEF Entitled
    <2>3. ~mark /\ s.how \notin {"passkey", "social"} /\ db.account[u].disabled =>
             \E o \in Procs \ {p} : Revokes(db, req, o, u)
      BY <2>1, <2>2
    <2> QED BY <1>5, <1>8, <2>3 DEF Fit
  <1>11. Past(db, r)
    BY <1>1, <1>7, ReadsFit
  <1>12. Fresh(p, r)
    BY <1>6, <1>8, <1>9, <1>10, <1>11 DEF Fresh
  <1> QED BY <1>12 DEF r, b, mark

LEMMA ChangePasswordKeeps ==
    ASSUME IInv, NEW p \in Procs, ChangePassword(p)
    PROVE  IInv'
  <1>1. ASSUME NEW s \in db.sessions, NEW old, NEW new,
               SessionMiddleware(p, s, [About("change", s.user, "read")
                                          EXCEPT !.x = old, !.pw = new, !.how = s.how,
                                                 !.raced = s.raced \/ s.kept])
        PROVE  IInv'
    <2>1. req[p].op = "idle"
      BY <1>1 DEF SessionMiddleware, Enter
    <2> QED BY <1>1, <2>1, ChangeFresh, MiddlewareKeeps
  <1>2. ASSUME At(p, "change", "read"),
               Reread(p, "digest", Now(p).pw = NoPassword \/ Now(p).pw = req[p].x)
        PROVE  IInv'
    <2>1. req[p].op = "change" /\ req[p].pc = "read" /\ req[p].pc \notin Anonymous
      BY <1>2 DEF At, Anonymous
    <2> QED BY <1>2, <2>1, RereadKeeps
  <1>3. ASSUME At(p, "change", "digest"),
               Overtaking(p, SetPasswordDigest(db, req[p].user, req[p].pw), "revoke")
        PROVE  IInv'
    BY <1>3, DigestKeeps DEF At
  <1> QED BY <1>1, <1>2, <1>3 DEF ChangePassword

LEMMA ResetRequestKeeps ==
    ASSUME IInv, NEW p \in Procs, PasswordResetRequest(p)
    PROVE  IInv'
  <1>1. ASSUME NEW u \in Users, Enter(p, About("forgot", u, "ticket")), db' = db, UNCHANGED ghosts
        PROVE  IInv'
    <2>1. Fresh(p, About("forgot", u, "ticket"))
      BY PlainAbout DEF PlainOps
    <2> QED BY <1>1, <2>1, ReadKeeps
  <1>2. ASSUME At(p, "forgot", "ticket"), UNCHANGED ghosts,
               Statement(p, CreatePasswordReset(db, Ticket("reset", req[p].n, req[p].user)), "done")
        PROVE  IInv'
    <2>1. Statement(p, WithTicket(db, Ticket("reset", req[p].n, req[p].user)), "done") /\ req[p].pc = "ticket"
      BY <1>2 DEF CreatePasswordReset, WithTicket, At
    <2> QED BY <1>2, <2>1, MakeTicketKeeps
  <1> QED BY <1>1, <1>2 DEF PasswordResetRequest

(* Where a handler goes on. *)
Lands(r, pc) ==
    \/ r.pc \notin Anonymous /\
          \/ pc = "boot"    /\ r.op \in {"register", "social", "oidc", "saml"}
          \/ pc = "linknew" /\ r.op \in {"social", "oidc"}
          \/ pc = "active"  /\ r.op = "scim"
          \/ pc = "issue"   /\ r.op \in {"register", "social", "oidc", "saml"}
          \/ pc = "digest"  /\ r.op = "reset"
          \/ pc \in {"owner", "clear"} /\ r.op = "keyfinish"
    \/ pc = "resolve" /\ r.pc = "assertion"
    \/ pc = "create" /\ r.pc = "resolve" /\ r.op \in {"social", "oidc", "saml"}

LEMMA GoKeeps ==
    ASSUME IInv, NEW p \in Procs, NEW pc, Goto(p, pc), Lands(req[p], pc), req[p].pc # "revoke",
           Tame(db, db'), count' = count, UNCHANGED ghosts
    PROVE  IInv'
  <1> DEFINE r == req[p]
             x == req'[p]
  <1>1. /\ req' = [req EXCEPT ![p] = req'[p]]
        /\ Same(r, x) /\ x.pc = pc /\ x.seen = r.seen /\ x.x = r.x /\ x.who = r.who
    BY GotoFacts
  <1>2. x.op = r.op /\ x.user = r.user /\ x.how = r.how
    BY <1>1 DEF Same
  <1>3. Placed(r)
    BY DEF IInv, Requests
  <1>4. r.op # "idle"
    BY <1>3, BlankFacts DEF Placed, Lands, Anonymous
  <1>5. Lands(r, pc)
    OBVIOUS
  <1> HIDE DEF r, x
  <1>6. Placed(x)
    BY <1>1, <1>2, <1>3, <1>5 DEF Placed, Lands, Anonymous
  <1>7. pc \notin {"revoke", "ticket"} /\ (pc \in Firm => r.op \notin {"login", "change"})
    BY <1>3, <1>5 DEF Lands, Firm, Placed
  <1> QED BY <1>1, <1>4, <1>6, <1>7, GotoKeeps DEF r, x

LEMMA RegisteredKeeps ==
    ASSUME IInv, NEW p \in Procs, UserRegistered(p)
    PROVE  IInv'
  <1> DEFINE r == req[p]
             pc == AfterAnnounce(r)
  <1>1. /\ r.pc = "announce" /\ count' = count /\ UNCHANGED ghosts
        /\ db' = EnqueueRegistered(db, r.user) \/ db' = db
        /\ pc = "done" => Answer(p)
        /\ pc # "done" => Goto(p, pc)
    BY DEF UserRegistered
  <1>2. Tame(db, db')
    <2>1. CASE db' = EnqueueRegistered(db, r.user)
      <3>1. /\ db' = [f \in TableNames |-> db'[f]] /\ db'.account = db.account
            /\ db'.sessions = db.sessions /\ db'.tickets = db.tickets /\ db'.links = db.links
        BY <2>1 DEF EnqueueRegistered, IInv, IsDb, TableNames
      <3>2. IsDb(db')
        BY <3>1 DEF IInv, IsDb
      <3> QED BY <3>1, <3>2, ElsewhereTame DEF IInv
    <2>2. CASE db' = db
      BY <2>2, TameRefl DEF IInv
    <2> QED BY <1>1, <2>1, <2>2
  <1>3. r.op \in {"register", "admin", "scim", "social", "oidc", "saml"} /\ r.op # "idle"
    BY <1>1 DEF IInv, Requests, Placed
  <1>4. pc = "done" \/ Lands(r, pc)
    BY <1>1, <1>3 DEF AfterAnnounce, Lands, Anonymous
  <1>5. r.pc # "revoke"
    BY <1>1
  <1> HIDE DEF pc
  <1>6. CASE pc = "done"
    BY <1>1, <1>2, <1>3, <1>5, <1>6, AnswerKeeps
  <1>7. CASE pc # "done"
    BY <1>1, <1>2, <1>4, <1>5, <1>7, GoKeeps
  <1> QED BY <1>6, <1>7

LEMMA BootstrapKeeps ==
    ASSUME IInv, NEW p \in Procs, TryBootstrap(p)
    PROVE  IInv'
  <1> DEFINE r == req[p]
  <1>1. /\ r.pc = "boot" /\ count' = count /\ UNCHANGED ghosts /\ Goto(p, "issue")
        /\ db' = db \/ \E k : db' = [db EXCEPT !.workspace[r.user] = k]
    BY DEF TryBootstrap
  <1>2. Tame(db, db')
    <2>1. ASSUME NEW k, db' = [db EXCEPT !.workspace[r.user] = k]
          PROVE  Tame(db, db')
      <3>1. /\ db' = [f \in TableNames |-> db'[f]] /\ db'.account = db.account
            /\ db'.sessions = db.sessions /\ db'.tickets = db.tickets /\ db'.links = db.links
        BY <2>1 DEF IInv, IsDb, TableNames
      <3>2. IsDb(db')
        BY <3>1 DEF IInv, IsDb
      <3> QED BY <3>1, <3>2, ElsewhereTame DEF IInv
    <2>2. CASE db' = db
      BY <2>2, TameRefl DEF IInv
    <2> QED BY <1>1, <2>1, <2>2
  <1>3. Lands(r, "issue")
    BY <1>1 DEF IInv, Requests, Placed, Lands, Anonymous
  <1> QED BY <1>1, <1>2, <1>3, GoKeeps

LEMMA TooLateKeeps ==
    ASSUME IInv, NEW p \in Procs, TooLate(p)
    PROVE  IInv'
  <1>1. req[p].pc = "late" /\ Answer(p) /\ db' = db /\ count' = count /\ UNCHANGED ghosts
    BY DEF TooLate, Quiet
  <1>2. req[p].op # "idle" /\ req[p].pc # "revoke"
    BY <1>1, BlankFacts DEF IInv, Requests, Placed
  <1> QED BY <1>1, <1>2, GoneKeeps

LEMMA StatementsKeep ==
    ASSUME IInv, NEW p \in Procs, Statements(p)
    PROVE  IInv'
  BY IssueKeeps, RevokeKeeps, RegisteredKeeps, BootstrapKeeps, AbandonKeeps, LoginFailedKeeps,
     ClearLoginStateKeeps, FirstPasswordKeeps, TooLateKeeps DEF Statements

(* One tame step after another. *)
LEMMA TameTrans ==
    ASSUME NEW d, NEW e, NEW f, Tame(d, e), Tame(e, f)
    PROVE  Tame(d, f)
  <1>1. Level(d, f)
    BY DEF Tame, Level, Alike
  <1>2. Counted(d, f)
    BY DEF Tame, Counted
  <1>3. Slid(d, f)
    <2> SUFFICES ASSUME NEW s \in f.sessions
                 PROVE  IsSession(s) /\ \E x \in d.sessions :
                           /\ s.user = x.user /\ s.how = x.how /\ s.pw = x.pw
                           /\ s.raced = x.raced /\ s.kept = x.kept
      BY DEF Slid
    <2>1. PICK y \in e.sessions : /\ s.user = y.user /\ s.how = y.how /\ s.pw = y.pw
                                  /\ s.raced = y.raced /\ s.kept = y.kept
      BY DEF Tame, Slid
    <2>2. PICK x \in d.sessions : /\ y.user = x.user /\ y.how = x.how /\ y.pw = x.pw
                                  /\ y.raced = x.raced /\ y.kept = x.kept
      BY DEF Tame, Slid
    <2>3. IsSession(s)
      BY DEF Tame, Slid
    <2> QED BY <2>1, <2>2, <2>3
  <1> QED BY <1>1, <1>2, <1>3 DEF Tame

LEMMA TotpOnTame ==
    ASSUME NEW d, NEW R, NEW u \in Users, NEW secret, IsDb(d), Sessions(d, R)
    PROVE  Tame(d, SetTotp(d, u, secret, TRUE)) /\ Tame(d, SetTotp(d, u, secret, FALSE))
  <1> DEFINE yes == TRUE
             no  == FALSE
  <1>1. yes \in BOOLEAN /\ no \in BOOLEAN
    OBVIOUS
  <1> HIDE DEF yes, no
  <1>2. Tame(d, SetTotp(d, u, secret, yes)) /\ Tame(d, SetTotp(d, u, secret, no))
    BY <1>1, TotpTame
  <1> QED BY <1>2 DEF yes, no

(* The holder of a reset link. *)
LEMMA ResetCompleteKeeps ==
    ASSUME IInv, NEW p \in Procs, PasswordResetComplete(p)
    PROVE  IInv'
  <1>1. ASSUME NEW t \in db.tickets, t.kind = "reset", NEW new,
               Redeem(p, t, ConsumePasswordReset(db, t), [About("reset", t.user, "check") EXCEPT !.pw = new])
        PROVE  IInv'
    <2> DEFINE b == About("reset", t.user, "check")
               r == [b EXCEPT !.pw = new]
               d == ConsumePasswordReset(db, t)
    <2>1. t.user \in Users
      BY <1>1 DEF IInv, Numbers, IsTicket
    <2>2. Reads(b, "reset", t.user, "check")
      BY <2>1, AboutFacts
    <2>3. Redeem(p, t, d, r)
      BY <1>1
    <2> HIDE DEF b
    <2>4. /\ r = [f \in RequestFields |-> r[f]]
          /\ r.op = b.op /\ r.pc = b.pc /\ r.user = b.user /\ r.gen = b.gen /\ r.seen = b.seen
          /\ r.n = b.n /\ r.raced = b.raced
      BY <2>2 DEF Reads, IsRequest, RequestFields
    <2> HIDE DEF r
    <2>5. IsRequest(r)
      BY <2>2, <2>4 DEF IsRequest, Reads
    <2>6. Reads(r, "reset", t.user, "check") /\ r.op = "reset"
      BY <2>2, <2>4, <2>5 DEF Reads
    <2>7. Fresh(p, r)
      BY <2>1, <2>6, PlainFresh DEF PlainOps, PlainPcs
    <2>8. Tame(db, d) /\ t \notin d.tickets
      BY ConsumeTame DEF ConsumePasswordReset, IInv
    <2> HIDE DEF d
    <2> QED BY <2>3, <2>6, <2>7, <2>8, RedeemKeeps
  <1>2. ASSUME At(p, "reset", "check"), Reread(p, "digest", ~Now(p).disabled)
        PROVE  IInv'
    <2>1. req[p].op = "reset" /\ req[p].pc = "check" /\ req[p].pc \notin Anonymous
      BY <1>2 DEF At, Anonymous
    <2> QED BY <1>2, <2>1, RereadKeeps
  <1>3. ASSUME At(p, "reset", "check"), Goto(p, "digest"), db' = db, count' = count, UNCHANGED ghosts
        PROVE  IInv'
    <2>1. Lands(req[p], "digest") /\ req[p].pc # "revoke"
      BY <1>3 DEF At, Lands, Anonymous
    <2>2. Tame(db, db')
      BY <1>3, TameRefl DEF IInv
    <2> QED BY <1>3, <2>1, <2>2, GoKeeps
  <1>4. ASSUME ResetDigest(p) PROVE IInv'
    BY <1>4, DigestKeeps DEF ResetDigest, At
  <1> QED BY <1>1, <1>2, <1>3, <1>4 DEF PasswordResetComplete

LEMMA EnrollTame ==
    ASSUME IInv, NEW u \in Users
    PROVE  Tame(db, [SetTotp(db, u, db.minted + 1, FALSE) EXCEPT !.minted = @ + 1])
  <1> DEFINE d == SetTotp(db, u, db.minted + 1, FALSE)
             e == [d EXCEPT !.minted = @ + 1]
  <1>1. Tame(db, d)
    BY TotpOnTame DEF IInv
  <1> HIDE DEF d
  <1>2. IsDb(d) /\ Sessions(d, req)
    BY <1>1, LevelKeeps DEF Tame, IInv
  <1>3. /\ e = [f \in TableNames |-> e[f]] /\ e.account = d.account
        /\ e.sessions = d.sessions /\ e.tickets = d.tickets /\ e.links = d.links
    BY <1>2 DEF IsDb, TableNames
  <1> HIDE DEF e
  <1>4. IsDb(e)
    BY <1>2, <1>3 DEF IsDb
  <1>5. Tame(d, e)
    BY <1>2, <1>3, <1>4, ElsewhereTame
  <1>6. Tame(db, e)
    BY <1>1, <1>5, TameTrans
  <1> QED BY <1>6 DEF d, e

LEMMA EnrollKeeps ==
    ASSUME IInv, NEW p \in Procs, TotpEnroll(p)
    PROVE  IInv'
  <1>1. ASSUME NEW s \in db.sessions, SessionMiddleware(p, s, About("enroll", s.user, "set"))
        PROVE  IInv'
    <2>1. Fresh(p, About("enroll", s.user, "set"))
      BY SessionUser, PlainAbout DEF PlainOps
    <2> QED BY <1>1, <2>1, MiddlewareKeeps
  <1> DEFINE d == [SetTotp(db, req[p].user, db.minted + 1, FALSE) EXCEPT !.minted = @ + 1]
  <1>2. ASSUME At(p, "enroll", "set"), UNCHANGED ghosts, Statement(p, d, "done")
        PROVE  IInv'
    <2>1. req[p].pc = "set" /\ req[p].user \in Users
      BY <1>2, PlacedUser DEF At, Anonymous
    <2>2. Tame(db, d)
      BY <2>1, EnrollTame
    <2> HIDE DEF d
    <2> QED BY <1>2, <2>1, <2>2, LastKeeps DEF Anonymous
  <1> QED BY <1>1, <1>2 DEF TotpEnroll

LEMMA ActivateKeeps ==
    ASSUME IInv, NEW p \in Procs, TotpActivate(p)
    PROVE  IInv'
  <1>1. ASSUME NEW s \in db.sessions, NEW x,
               SessionMiddleware(p, s, [About("activate", s.user, "read") EXCEPT !.x = x])
        PROVE  IInv'
    <2>1. Fresh(p, [About("activate", s.user, "read") EXCEPT !.x = x])
      BY SessionUser, PlainAbout DEF PlainOps, PlainPcs
    <2> QED BY <1>1, <2>1, MiddlewareKeeps
  <1>2. ASSUME At(p, "activate", "read"), Reread(p, "set", Now(p).secret = req[p].x)
        PROVE  IInv'
    <2>1. req[p].op = "activate" /\ req[p].pc = "read" /\ req[p].pc \notin Anonymous
      BY <1>2 DEF At, Anonymous
    <2> QED BY <1>2, <2>1, RereadKeeps
  <1> DEFINE d == SetTotp(db, req[p].user, req[p].seen.secret, TRUE)
  <1>3. ASSUME At(p, "activate", "set"), UNCHANGED ghosts, Statement(p, d, "done")
        PROVE  IInv'
    <2>1. req[p].pc = "set" /\ req[p].user \in Users
      BY <1>3, PlacedUser DEF At, Anonymous
    <2>2. Tame(db, d)
      BY <2>1, TotpOnTame DEF IInv
    <2> HIDE DEF d
    <2> QED BY <1>3, <2>1, <2>2, LastKeeps DEF Anonymous
  <1> QED BY <1>1, <1>2, <1>3 DEF TotpActivate

LEMMA UnfactorKeeps ==
    ASSUME IInv, NEW p \in Procs, TotpDisable(p)
    PROVE  IInv'
  <1>1. ASSUME NEW s \in db.sessions, NEW pw,
               SessionMiddleware(p, s, [About("unfactor", s.user, "read") EXCEPT !.x = pw])
        PROVE  IInv'
    <2>1. Fresh(p, [About("unfactor", s.user, "read") EXCEPT !.x = pw])
      BY SessionUser, PlainAbout DEF PlainOps, PlainPcs
    <2> QED BY <1>1, <2>1, MiddlewareKeeps
  <1>2. ASSUME At(p, "unfactor", "read"),
               Reread(p, "set", Now(p).pw = NoPassword \/ Now(p).pw = req[p].x)
        PROVE  IInv'
    <2>1. req[p].op = "unfactor" /\ req[p].pc = "read" /\ req[p].pc \notin Anonymous
      BY <1>2 DEF At, Anonymous
    <2> QED BY <1>2, <2>1, RereadKeeps
  <1> DEFINE d == SetTotp(db, req[p].user, 0, FALSE)
  <1>3. ASSUME At(p, "unfactor", "set"), UNCHANGED ghosts, Statement(p, d, "done")
        PROVE  IInv'
    <2>1. req[p].pc = "set" /\ req[p].user \in Users
      BY <1>3, PlacedUser DEF At, Anonymous
    <2>2. Tame(db, d)
      BY <2>1, TotpOnTame DEF IInv
    <2> HIDE DEF d
    <2> QED BY <1>3, <2>1, <2>2, LastKeeps DEF Anonymous
  <1> QED BY <1>1, <1>2, <1>3 DEF TotpDisable

LEMMA RegisterStartKeeps ==
    ASSUME IInv, NEW p \in Procs, PasskeyRegisterStart(p)
    PROVE  IInv'
  <1>1. ASSUME NEW s \in db.sessions, SessionMiddleware(p, s, About("regstart", s.user, "ticket"))
        PROVE  IInv'
    <2>1. Fresh(p, About("regstart", s.user, "ticket"))
      BY SessionUser, PlainAbout DEF PlainOps
    <2> QED BY <1>1, <2>1, MiddlewareKeeps
  <1>2. ASSUME At(p, "regstart", "ticket"), UNCHANGED ghosts,
               Statement(p, CreateWebauthnState(db, Ticket("reg", req[p].n, req[p].user)), "done")
        PROVE  IInv'
    <2>1. Statement(p, WithTicket(db, Ticket("reg", req[p].n, req[p].user)), "done") /\ req[p].pc = "ticket"
      BY <1>2 DEF CreateWebauthnState, WithTicket, At
    <2> QED BY <1>2, <2>1, MakeTicketKeeps
  <1> QED BY <1>1, <1>2 DEF PasskeyRegisterStart

(* A passkey comes or goes. *)
LEMMA PasskeysTame ==
    ASSUME IInv, NEW k, NEW u, NEW id
    PROVE  Tame(db, AddWebauthnCredential(db, k)) /\ Tame(db, DeleteWebauthnCredential(db, u, id))
  <1> DEFINE d == AddWebauthnCredential(db, k)
             e == DeleteWebauthnCredential(db, u, id)
  <1>1. /\ d = [f \in TableNames |-> d[f]] /\ d.account = db.account
        /\ d.sessions = db.sessions /\ d.tickets = db.tickets /\ d.links = db.links
    BY DEF AddWebauthnCredential, IInv, IsDb, TableNames
  <1>2. /\ e = [f \in TableNames |-> e[f]] /\ e.account = db.account
        /\ e.sessions = db.sessions /\ e.tickets = db.tickets /\ e.links = db.links
    BY DEF DeleteWebauthnCredential, IInv, IsDb, TableNames
  <1> HIDE DEF d, e
  <1>3. IsDb(d) /\ IsDb(e)
    BY <1>1, <1>2 DEF IInv, IsDb
  <1>4. Tame(db, d) /\ Tame(db, e)
    BY <1>1, <1>2, <1>3, ElsewhereTame DEF IInv
  <1> QED BY <1>4 DEF d, e

LEMMA RegisterFinishKeeps ==
    ASSUME IInv, NEW p \in Procs, PasskeyRegisterFinish(p)
    PROVE  IInv'
  <1>1. ASSUME NEW s \in db.sessions, NEW t \in db.tickets,
               Redeem(p, t, ConsumeWebauthnState(TouchSession(db, s.id), t),
                      About("regfinish", s.user, IF t.user = s.user THEN "add" ELSE "late"))
        PROVE  IInv'
    <2> DEFINE pc == IF t.user = s.user THEN "add" ELSE "late"
               r == About("regfinish", s.user, pc)
               e == TouchSession(db, s.id)
               d == ConsumeWebauthnState(e, t)
    <2>1. Redeem(p, t, d, r)
      BY <1>1
    <2>2. pc \in {"add", "late"}
      OBVIOUS
    <2>3. Tame(db, e)
      BY TouchTame DEF IInv
    <2> HIDE DEF pc, e
    <2>4. IsDb(e) /\ Sessions(e, req)
      BY <2>3, LevelKeeps DEF Tame, IInv
    <2>5. Tame(e, d) /\ t \notin d.tickets
      BY <2>4, ConsumeTame DEF ConsumeWebauthnState
    <2> HIDE DEF d
    <2>6. Tame(db, d)
      BY <2>3, <2>5, TameTrans
    <2>7. Fresh(p, r) /\ r.op = "regfinish"
      <3>1. s.user \in Users
        BY SessionUser
      <3>2. Reads(r, "regfinish", s.user, pc)
        BY <3>1, AboutFacts
      <3> HIDE DEF r
      <3>3. Fresh(p, r)
        BY <2>2, <3>1, <3>2, PlainFresh DEF PlainOps, PlainPcs
      <3> QED BY <3>2, <3>3 DEF Reads
    <2> HIDE DEF r
    <2> QED BY <2>1, <2>5, <2>6, <2>7, RedeemKeeps
  <1> DEFINE k == [id |-> req[p].n, user |-> req[p].user]
  <1>2. ASSUME At(p, "regfinish", "add"), UNCHANGED ghosts,
               Statement(p, AddWebauthnCredential(db, k), "done")
        PROVE  IInv'
    <2> HIDE DEF k
    <2>1. req[p].pc = "add"
      BY <1>2 DEF At
    <2> QED BY <1>2, <2>1, PasskeysTame, LastKeeps DEF Anonymous
  <1> QED BY <1>1, <1>2 DEF PasskeyRegisterFinish

LEMMA CredentialsDestroyKeeps ==
    ASSUME IInv, NEW p \in Procs, CredentialsDestroy(p)
    PROVE  IInv'
  <1>1. ASSUME NEW s \in db.sessions, NEW k,
               SessionMiddleware(p, s, [About("unkey", s.user, "remove") EXCEPT !.x = k.id])
        PROVE  IInv'
    <2>1. Fresh(p, [About("unkey", s.user, "remove") EXCEPT !.x = k.id])
      BY SessionUser, PlainAbout DEF PlainOps, PlainPcs
    <2> QED BY <1>1, <2>1, MiddlewareKeeps
  <1>2. ASSUME At(p, "unkey", "remove"), db' = DeleteWebauthnCredential(db, req[p].user, req[p].x),
               Answer(p), Quiet, UNCHANGED ghosts
        PROVE  IInv'
    <2>1. Tame(db, db')
      BY <1>2, PasskeysTame
    <2>2. req[p].op # "idle" /\ req[p].pc # "revoke" /\ count' = count
      BY <1>2 DEF At, Quiet
    <2> QED BY <1>2, <2>1, <2>2, AnswerKeeps
  <1> QED BY <1>1, <1>2 DEF CredentialsDestroy

LEMMA LoginStartKeeps ==
    ASSUME IInv, NEW p \in Procs, PasskeyLoginStart(p)
    PROVE  IInv'
  <1>1. ASSUME NEW u \in Users, Enter(p, About("keystart", u, "ticket")), db' = db, UNCHANGED ghosts
        PROVE  IInv'
    <2>1. Fresh(p, About("keystart", u, "ticket"))
      BY PlainAbout DEF PlainOps
    <2> QED BY <1>1, <2>1, ReadKeeps
  <1>2. ASSUME At(p, "keystart", "ticket"), UNCHANGED ghosts,
               Statement(p, CreateWebauthnState(db, Ticket("login", req[p].n, req[p].user)), "done")
        PROVE  IInv'
    <2>1. Statement(p, WithTicket(db, Ticket("login", req[p].n, req[p].user)), "done") /\ req[p].pc = "ticket"
      BY <1>2 DEF CreateWebauthnState, WithTicket, At
    <2> QED BY <1>2, <2>1, MakeTicketKeeps
  <1> QED BY <1>1, <1>2 DEF PasskeyLoginStart

LEMMA LoginFinishKeeps ==
    ASSUME IInv, NEW p \in Procs, PasskeyLoginFinish(p)
    PROVE  IInv'
  <1>1. ASSUME NEW t \in db.tickets, t.kind = "login", NEW k,
               Redeem(p, t, ConsumeWebauthnState(db, t),
                      [About("keyfinish", t.user, "check") EXCEPT !.x = k.id, !.how = "passkey"])
        PROVE  IInv'
    <2> DEFINE b == About("keyfinish", t.user, "check")
               r == [b EXCEPT !.x = k.id, !.how = "passkey"]
               d == ConsumeWebauthnState(db, t)
    <2>1. t.user \in Users
      BY <1>1 DEF IInv, Numbers, IsTicket
    <2>2. Reads(b, "keyfinish", t.user, "check")
      BY <2>1, AboutFacts
    <2>3. Redeem(p, t, d, r)
      BY <1>1
    <2> HIDE DEF b
    <2>4. /\ r = [f \in RequestFields |-> r[f]]
          /\ r.op = b.op /\ r.pc = b.pc /\ r.user = b.user /\ r.gen = b.gen /\ r.seen = b.seen
          /\ r.n = b.n /\ r.raced = b.raced /\ r.how = "passkey"
      BY <2>2 DEF Reads, IsRequest, RequestFields
    <2> HIDE DEF r
    <2>5. IsRequest(r)
      BY <2>2, <2>4 DEF IsRequest, Reads
    <2>6. Reads(r, "keyfinish", t.user, "check")
      BY <2>2, <2>4, <2>5 DEF Reads
    <2>7. r.op = "keyfinish" /\ r.pc = "check" /\ r.user = t.user
      BY <2>6 DEF Reads
    <2>8. Placed(r)
      BY <2>1, <2>4, <2>7 DEF Placed, Anonymous
    <2>9. Fit(db, req, p, r)
      BY <2>7 DEF Fit
    <2>10. Fresh(p, r)
      BY <2>1, <2>5, <2>6, <2>7, <2>8, <2>9, ReadsFit DEF Fresh
    <2>11. Tame(db, d) /\ t \notin d.tickets
      BY ConsumeTame DEF ConsumeWebauthnState, IInv
    <2> HIDE DEF d
    <2> QED BY <2>3, <2>7, <2>10, <2>11, RedeemKeeps
  <1>2. ASSUME At(p, "keyfinish", "check"), Reread(p, "owner", ~Now(p).locked)
        PROVE  IInv'
    <2>1. req[p].op = "keyfinish" /\ req[p].pc = "check" /\ req[p].pc \notin Anonymous
      BY <1>2 DEF At, Anonymous
    <2> QED BY <1>2, <2>1, RereadKeeps
  <1>3. ASSUME At(p, "keyfinish", "owner"), Goto(p, "clear") \/ Answer(p), db' = db, Quiet, UNCHANGED ghosts
        PROVE  IInv'
    <2>1. Lands(req[p], "clear") /\ req[p].pc # "revoke" /\ req[p].op # "idle" /\ count' = count
      BY <1>3 DEF At, Lands, Anonymous, Quiet
    <2>2. Tame(db, db')
      BY <1>3, TameRefl DEF IInv
    <2>3. CASE Goto(p, "clear")
      BY <1>3, <2>1, <2>2, <2>3, GoKeeps
    <2>4. CASE Answer(p)
      BY <1>3, <2>1, <2>4, GoneKeeps
    <2> QED BY <1>3, <2>3, <2>4
  <1>4. ASSUME At(p, "keyfinish", "check"), Goto(p, "owner"), db' = db, count' = count, UNCHANGED ghosts
        PROVE  IInv'
    <2>1. Lands(req[p], "owner") /\ req[p].pc # "revoke"
      BY <1>4 DEF At, Lands, Anonymous
    <2>2. Tame(db, db')
      BY <1>4, TameRefl DEF IInv
    <2> QED BY <1>4, <2>1, <2>2, GoKeeps
  <1> QED BY <1>1, <1>2, <1>3, <1>4 DEF PasskeyLoginFinish

LEMMA UsersUpdateKeeps ==
    ASSUME IInv, NEW p \in Procs, UsersUpdate(p)
    PROVE  IInv'
  <1>1. ASSUME NEW u \in Users, NEW admin, Enter(p, [About("update", u, "write") EXCEPT !.x = admin]),
               db' = db, UNCHANGED ghosts
        PROVE  IInv'
    <2>1. Fresh(p, [About("update", u, "write") EXCEPT !.x = admin])
      BY PlainAbout DEF PlainOps, PlainPcs
    <2> QED BY <1>1, <2>1, ReadKeeps
  <1> DEFINE admin == req[p].x = 1
             d == UpdateUser(db, req[p].user, admin)
  <1>2. ASSUME At(p, "update", "write"), UNCHANGED ghosts, Statement(p, d, "done")
        PROVE  IInv'
    <2>1. req[p].pc = "write" /\ req[p].user \in Users
      BY <1>2, PlacedUser DEF At, Anonymous
    <2> HIDE DEF admin
    <2>2. Tame(db, d)
      BY <2>1, UpdateTame DEF IInv
    <2> HIDE DEF d
    <2> QED BY <1>2, <2>1, <2>2, LastKeeps DEF Anonymous
  <1> QED BY <1>1, <1>2 DEF UsersUpdate

LEMMA UsersDestroyKeeps ==
    ASSUME IInv, NEW p \in Procs, UsersDestroy(p)
    PROVE  IInv'
  <1>1. ASSUME NEW u \in Users, Enter(p, About("destroy", u, "delete")), db' = db, UNCHANGED ghosts
        PROVE  IInv'
    <2>1. Fresh(p, About("destroy", u, "delete"))
      BY PlainAbout DEF PlainOps, PlainPcs
    <2> QED BY <1>1, <2>1, ReadKeeps
  <1>2. ASSUME At(p, "destroy", "delete"), Statement(p, DeleteUser(db, req[p].user), "done"),
               Tally(p, 0, FALSE)
        PROVE  IInv'
    BY <1>2, DestroyKeeps DEF At
  <1> QED BY <1>1, <1>2 DEF UsersDestroy

LEMMA ScimKeeps ==
    ASSUME IInv, NEW p \in Procs, NEW u \in Users, NEW active,
           ScimPatch(p, u, active) \/ ScimDelete(p, u) \/ ScimReplace(p, u, active)
    PROVE  IInv'
  <1>1. ASSUME NEW pc \in {"row", "active"}, NEW v PROVE Fresh(p, [About("scim", u, pc) EXCEPT !.x = v])
    BY PlainAbout DEF PlainOps, PlainPcs
  <1>2. ASSUME NEW pc \in {"row", "active"}, NEW v, Enter(p, [About("scim", u, pc) EXCEPT !.x = v]),
               db' = db, UNCHANGED ghosts
        PROVE  IInv'
    BY <1>1, <1>2, ReadKeeps
  <1> QED BY <1>2 DEF ScimPatch, ScimDelete, ScimReplace

LEMMA ScimRowKeeps ==
    ASSUME IInv, NEW p \in Procs, ScimRow(p)
    PROVE  IInv'
  <1> DEFINE d == UpdateUser(db, req[p].user, req[p].seen.admin)
             pc == IF req[p].x = 2 THEN "done" ELSE "active"
  <1>1. At(p, "scim", "row") /\ Statement(p, d, pc) /\ UNCHANGED ghosts
    BY DEF ScimRow
  <1>2. pc \in {"done", "active"}
    OBVIOUS
  <1>3. req[p].pc = "row" /\ req[p].op = "scim" /\ req[p].user \in Users
    BY <1>1, PlacedUser DEF At, Anonymous
  <1>4. Tame(db, d)
    BY <1>3, UpdateTame DEF IInv
  <1> HIDE DEF d, pc
  <1>5. CASE pc = "done"
    BY <1>1, <1>3, <1>4, <1>5, LastKeeps DEF Anonymous
  <1>6. CASE pc = "active"
    <2>1. /\ count' = count
          /\ (db' = d /\ Goto(p, "active")) \/ (db' = db /\ Answer(p))
      BY <1>1, <1>6, StatementCases
    <2>2. Lands(req[p], "active")
      BY <1>3 DEF Lands, Anonymous
    <2>3. CASE db' = d /\ Goto(p, "active")
      BY <1>1, <1>3, <1>4, <2>1, <2>2, <2>3, GoKeeps
    <2>4. CASE db' = db /\ Answer(p)
      BY <1>1, <1>3, <2>1, <2>4, GoneKeeps
    <2> QED BY <2>1, <2>3, <2>4
  <1> QED BY <1>2, <1>5, <1>6

LEMMA ApplyActiveKeeps ==
    ASSUME IInv, NEW p \in Procs, ApplyActive(p)
    PROVE  IInv'
  <1>1. ASSUME At(p, "scim", "active"), Reread(p, "flag", Now(p).disabled = (req[p].x = 1))
        PROVE  IInv'
    <2> DEFINE passes == Now(p).disabled = (req[p].x = 1)
    <2>1. req[p].op = "scim" /\ req[p].pc = "active" /\ req[p].pc \notin Anonymous
      BY <1>1 DEF At, Anonymous
    <2>2. Reread(p, "flag", passes)
      BY <1>1
    <2> HIDE DEF passes
    <2> QED BY <2>1, <2>2, RereadKeeps
  <1> DEFINE d == SetUserDisabled(db, req[p].user, FALSE)
  <1>2. ASSUME At(p, "scim", "flag"), Statement(p, d, "done"), UNCHANGED ghosts
        PROVE  IInv'
    <2>1. req[p].pc = "flag" /\ req[p].user \in Users
      BY <1>2, PlacedUser DEF At, Anonymous
    <2>2. Tame(db, d)
      BY <2>1, EnableTame DEF IInv
    <2> HIDE DEF d
    <2> QED BY <1>2, <2>1, <2>2, LastKeeps DEF Anonymous
  <1>3. ASSUME At(p, "scim", "flag"), Overtaking(p, SetUserDisabled(db, req[p].user, TRUE), "revoke")
        PROVE  IInv'
    BY <1>3, DisableKeeps DEF At
  <1> QED BY <1>1, <1>2, <1>3 DEF ApplyActive

LEMMA HandlersKeep ==
    ASSUME IInv, NEW p \in Procs, Handlers(p)
    PROVE  IInv'
  <1>1. ASSUME NEW u \in Users,
               \/ \E pw \in Passwords, code \in 0..db.minted : Login(p, u, pw, code)
               \/ \E pw \in NewPasswords : Register(p, u, pw)
               \/ \E pw \in NewPasswords \union {NoPassword} : AdminCreate(p, u, pw)
               \/ \E active \in 0..1 : ScimCreate(p, u, active) \/ ScimReplace(p, u, active)
               \/ \E active \in 0..2 : ScimPatch(p, u, active)
               \/ ScimDelete(p, u)
        PROVE  IInv'
    BY <1>1, LoginKeeps, RegisterKeeps, AdminCreateKeeps, ScimCreateKeeps, ScimKeeps
  <1> QED BY <1>1, LogoutKeeps, UpdateMeKeeps, ChangePasswordKeeps, ResetRequestKeeps,
             ResetCompleteKeeps, EnrollKeeps, ActivateKeeps, UnfactorKeeps, RegisterStartKeeps,
             RegisterFinishKeeps, CredentialsDestroyKeeps, LoginStartKeeps, LoginFinishKeeps,
             UsersUpdateKeeps, UsersDestroyKeeps, ScimRowKeeps, ApplyActiveKeeps DEF Handlers

-----------------------------------------------------------------------------
(***************************************************************************)
(* The identity providers                                                  *)
(***************************************************************************)
LEMMA StartKeeps ==
    ASSUME IInv, SsoStart \/ OidcStart \/ SamlStart
    PROVE  IInv'
  BY OnceKeeps DEF SsoStart, OidcStart, SamlStart, CreateOidcState, CreateSamlRequest, WithTicket

(* Whoever comes back is nobody yet. *)
LEMMA BackFresh ==
    ASSUME IInv, NEW p \in Procs, NEW op \in {"social", "oidc"}, NEW w \in People
    PROVE  Fresh(p, Back(op, w)) /\ Back(op, w).op = op
  <1> DEFINE b == [Blank EXCEPT !.op = op, !.pc = "resolve", !.how = op]
             c == [b EXCEPT !.who.subject = w.subject]
             y == [c EXCEPT !.who.email = w.email]
             x == Back(op, w)
  <1>1. /\ x = [f \in RequestFields |-> x[f]]
        /\ x.op = op /\ x.pc = "resolve" /\ x.how = op /\ x.user = Blank.user /\ x.n = Blank.n
        /\ x.gen = Blank.gen /\ x.raced = Blank.raced /\ x.seen = Blank.seen /\ x.who.email = w.email
    <2>1. x = y
      BY DEF Back
    <2>2. /\ b = [f \in RequestFields |-> b[f]]
          /\ b.op = op /\ b.pc = "resolve" /\ b.how = op /\ b.user = Blank.user /\ b.n = Blank.n
          /\ b.gen = Blank.gen /\ b.raced = Blank.raced /\ b.seen = Blank.seen
          /\ b.who = [f \in {"subject", "email", "id", "age"} |-> b.who[f]]
      BY DEF Blank, Nobody, RequestFields
    <2> HIDE DEF b
    <2>3. /\ c = [f \in RequestFields |-> c[f]]
          /\ c.op = b.op /\ c.pc = b.pc /\ c.how = b.how /\ c.user = b.user /\ c.n = b.n
          /\ c.gen = b.gen /\ c.raced = b.raced /\ c.seen = b.seen
          /\ c.who = [f \in {"subject", "email", "id", "age"} |-> c.who[f]]
      BY <2>2 DEF RequestFields
    <2> HIDE DEF c
    <2>4. /\ y = [f \in RequestFields |-> y[f]]
          /\ y.op = c.op /\ y.pc = c.pc /\ y.how = c.how /\ y.user = c.user /\ y.n = c.n
          /\ y.gen = c.gen /\ y.raced = c.raced /\ y.seen = c.seen /\ y.who.email = w.email
      BY <2>3 DEF RequestFields
    <2> HIDE DEF x, y
    <2> QED BY <2>1, <2>2, <2>3, <2>4
  <1>2. w.email \in Users
    BY IdentityAssumption
  <1> HIDE DEF x
  <1>3. IsRequest(x) /\ x.user = NoUser
    BY <1>1, BlankFacts DEF IsRequest
  <1>4. Placed(x)
    BY <1>1, <1>2, <1>3 DEF Placed, Anonymous
  <1>5. Fit(db, req, p, x) /\ Past(db, x)
    BY <1>3, AccountsAssumption DEF Fit, Past
  <1>6. x.op # "idle" /\ x.pc # "revoke"
    BY <1>1
  <1>7. Fresh(p, x)
    BY <1>3, <1>4, <1>5, <1>6 DEF Fresh
  <1> QED BY <1>1, <1>7 DEF x

LEMMA CallbackKeeps ==
    ASSUME IInv, NEW p \in Procs, SsoCallback(p) \/ OidcCallback(p)
    PROVE  IInv'
  <1>1. ASSUME NEW t \in db.tickets, NEW w \in People, NEW op \in {"social", "oidc"}, NEW valid,
               Redeem(p, t, ConsumeOidcState(db, t),
                      IF valid THEN Back(op, w) ELSE [Blank EXCEPT !.op = op, !.pc = "late"])
        PROVE  IInv'
    <2> DEFINE late == [Blank EXCEPT !.op = op, !.pc = "late"]
               r == IF valid THEN Back(op, w) ELSE late
               d == ConsumeOidcState(db, t)
    <2>1. Fresh(p, late) /\ late.op = op
      BY LateFresh, LateFacts
    <2>2. Fresh(p, Back(op, w)) /\ Back(op, w).op = op
      BY BackFresh
    <2>3. Redeem(p, t, d, r)
      BY <1>1
    <2> HIDE DEF late
    <2>4. Fresh(p, r) /\ r.op = op
      BY <2>1, <2>2
    <2>5. Tame(db, d) /\ t \notin d.tickets
      BY ConsumeTame DEF ConsumeOidcState, IInv
    <2> HIDE DEF r, d
    <2> QED BY <2>3, <2>4, <2>5, RedeemKeeps
  <1>2. CASE SsoCallback(p)
    BY <1>1, <1>2 DEF SsoCallback
  <1>3. CASE OidcCallback(p)
    BY <1>1, <1>3 DEF OidcCallback
  <1> QED BY <1>2, <1>3

LEMMA AssertionFresh ==
    ASSUME IInv, NEW p \in Procs, NEW id, NEW x \in Responses
    PROVE  LET r == [Blank EXCEPT !.op = "saml", !.pc = "assertion", !.how = "saml",
                                  !.who = [Nobody EXCEPT !.email = x.email, !.id = id, !.age = x.age]]
           IN  Fresh(p, r) /\ r.op = "saml"
  <1> DEFINE r == [Blank EXCEPT !.op = "saml", !.pc = "assertion", !.how = "saml",
                                !.who = [Nobody EXCEPT !.email = x.email, !.id = id, !.age = x.age]]
  <1>1. /\ r = [f \in RequestFields |-> r[f]]
        /\ r.op = "saml" /\ r.pc = "assertion" /\ r.how = "saml" /\ r.user = Blank.user /\ r.n = Blank.n
        /\ r.gen = Blank.gen /\ r.raced = Blank.raced /\ r.seen = Blank.seen /\ r.who.email = x.email
    BY DEF Blank, Nobody, RequestFields
  <1>2. x.email \in Users
    BY IdentityAssumption
  <1> HIDE DEF r
  <1>3. IsRequest(r) /\ r.user = NoUser
    BY <1>1, BlankFacts DEF IsRequest
  <1>4. Placed(r)
    BY <1>1, <1>2, <1>3 DEF Placed, Anonymous
  <1>5. Fit(db, req, p, r) /\ Past(db, r)
    BY <1>3, AccountsAssumption DEF Fit, Past
  <1>6. r.op # "idle" /\ r.pc # "revoke"
    BY <1>1
  <1>7. Fresh(p, r)
    BY <1>3, <1>4, <1>5, <1>6 DEF Fresh
  <1> QED BY <1>1, <1>7 DEF r

LEMMA AcsKeeps ==
    ASSUME IInv, NEW p \in Procs, SamlAcs(p)
    PROVE  IInv'
  <1>1. ASSUME NEW t \in db.tickets, NEW x \in Responses,
               Redeem(p, t, ConsumeSamlRequest(db, t),
                      [Blank EXCEPT !.op = "saml", !.pc = "assertion", !.how = "saml",
                                    !.who = [Nobody EXCEPT !.email = x.email, !.id = x.id, !.age = x.age]])
        PROVE  IInv'
    <2> DEFINE r == [Blank EXCEPT !.op = "saml", !.pc = "assertion", !.how = "saml",
                                  !.who = [Nobody EXCEPT !.email = x.email, !.id = x.id, !.age = x.age]]
               d == ConsumeSamlRequest(db, t)
    <2>1. Redeem(p, t, d, r)
      BY <1>1
    <2>2. Fresh(p, r) /\ r.op = "saml"
      BY AssertionFresh
    <2>3. Tame(db, d) /\ t \notin d.tickets
      BY ConsumeTame DEF ConsumeSamlRequest, IInv
    <2> HIDE DEF r, d
    <2> QED BY <2>1, <2>2, <2>3, RedeemKeeps
  <1>2. ASSUME NEW id, NEW old, At(p, "saml", "assertion"), Quiet, UNCHANGED ghosts,
               \/ db' = db /\ Answer(p)
               \/ db' = RegisterSamlAssertion(db, id, old) /\ Goto(p, "resolve")
        PROVE  IInv'
    <2>1. req[p].pc = "assertion" /\ req[p].op # "idle" /\ req[p].pc # "revoke" /\ count' = count
      BY <1>2 DEF At, Quiet
    <2>2. CASE db' = db /\ Answer(p)
      BY <1>2, <2>1, <2>2, GoneKeeps
    <2>3. CASE db' = RegisterSamlAssertion(db, id, old) /\ Goto(p, "resolve")
      <3>1. /\ db' = [f \in TableNames |-> db'[f]] /\ db'.account = db.account
            /\ db'.sessions = db.sessions /\ db'.tickets = db.tickets /\ db'.links = db.links
        BY <2>3 DEF RegisterSamlAssertion, IInv, IsDb, TableNames
      <3>2. IsDb(db')
        BY <3>1 DEF IInv, IsDb
      <3>3. Tame(db, db')
        BY <3>1, <3>2, ElsewhereTame DEF IInv
      <3>4. Lands(req[p], "resolve")
        BY <2>1 DEF Lands
      <3> QED BY <1>2, <2>1, <2>3, <3>3, <3>4, GoKeeps
    <2> QED BY <1>2, <2>2, <2>3
  <1> QED BY <1>1, <1>2 DEF SamlAcs

(* A sign-in goes on as the account it has read. *)
LEMMA AsKeeps ==
    ASSUME IInv, NEW p \in Procs, NEW u \in Users, NEW pc \in {"issue", "link"}, As(p, u, pc),
           req[p].pc = "resolve", req[p].op \in {"social", "oidc", "saml"},
           pc = "link" => req[p].op \in {"social", "oidc"},
           req[p].op # "social" => ~db.account[u].disabled,
           db' = db, count' = count, UNCHANGED ghosts
    PROVE  IInv'
  <1> DEFINE r == req[p]
             a == db.account[u]
             g == a.gen
             x == [r EXCEPT !.user = u, !.gen = g, !.seen = a, !.pc = pc]
  <1>1. req = [q \in Procs |-> req[q]] /\ IsRequest(r) /\ Placed(r)
    BY DEF IInv, Requests
  <1>2. req'[p] = x /\ req' = [req EXCEPT ![p] = req'[p]]
    BY <1>1 DEF As
  <1>3. IsAccount(a) /\ g \in Nat
    BY RowFacts DEF IInv
  <1>4. a = db.account[u] /\ g = a.gen
    OBVIOUS
  <1>5. /\ r.pc = "resolve" /\ r.op \in {"social", "oidc", "saml"}
        /\ pc = "link" => r.op \in {"social", "oidc"}
        /\ r.op # "social" => ~a.disabled
    OBVIOUS
  <1> HIDE DEF r, a, g
  <1>6. /\ x = [f \in RequestFields |-> x[f]]
        /\ x.op = r.op /\ x.pc = pc /\ x.user = u /\ x.gen = g /\ x.seen = a
        /\ x.n = r.n /\ x.raced = r.raced /\ x.x = r.x /\ x.pw = r.pw /\ x.how = r.how
        /\ x.who = r.who
    BY <1>1 DEF IsRequest, RequestFields
  <1> HIDE DEF x
  <1>7. IsRequest(x)
    BY <1>1, <1>3, <1>6 DEF IsRequest
  <1>8. Placed(x)
    BY <1>1, <1>5, <1>6 DEF Placed, Anonymous
  <1>9. Past(db, x)
    BY <1>3, <1>4, <1>6 DEF Past
  <1>10. Fit(db, req, p, x)
    BY <1>4, <1>5, <1>6 DEF Fit
  <1>11. Moves(db, req, req', p)
    BY <1>2, <1>5, <1>6, <1>7, <1>8, <1>9, <1>10 DEF Moves, r
  <1>12. Tame(db, db')
    BY TameRefl DEF IInv
  <1> QED BY <1>2, <1>5, <1>6, <1>11, <1>12, MoveKeeps DEF r

(* It ends, or is to create the account. *)
LEMMA ResolveEnds ==
    ASSUME IInv, NEW p \in Procs, Answer(p) \/ Goto(p, "create"), req[p].pc = "resolve",
           req[p].op \in {"social", "oidc", "saml"}, db' = db, count' = count, UNCHANGED ghosts
    PROVE  IInv'
  <1>1. Tame(db, db') /\ Lands(req[p], "create") /\ req[p].pc # "revoke" /\ req[p].op # "idle"
    BY TameRefl DEF IInv, Lands
  <1> QED BY <1>1, GoneKeeps, GoKeeps

LEMMA ResolveKeeps ==
    ASSUME IInv, NEW p \in Procs, ResolveSocial(p) \/ ResolveOidc(p) \/ ResolveSaml(p)
    PROVE  IInv'
  <1>1. /\ db' = db /\ count' = count /\ UNCHANGED ghosts
        /\ req[p].pc = "resolve" /\ req[p].op \in {"social", "oidc", "saml"}
    BY DEF ResolveSocial, ResolveOidc, ResolveSaml, At, Quiet
  <1>2. req[p].who.email \in Users
    BY <1>1 DEF IInv, Requests, Placed
  <1>3. CASE Answer(p) \/ Goto(p, "create")
    BY <1>1, <1>3, ResolveEnds
  <1>4. CASE ResolveSocial(p)
    <2>1. UserBySsoIdentity(db, Provider, req[p].who.subject) \subseteq Users
      BY DEF UserBySsoIdentity, IInv, IsDb
    <2>2. req[p].op = "social"
      BY <1>4 DEF ResolveSocial, At
    <2> QED BY <1>1, <1>2, <1>3, <1>4, <2>1, <2>2, AsKeeps DEF ResolveSocial
  <1>5. CASE ResolveOidc(p)
    <2>1. UserByOidcSub(db, req[p].who.subject) \subseteq Users
      BY DEF UserByOidcSub
    <2>2. req[p].op = "oidc"
      BY <1>5 DEF ResolveOidc, At
    <2> QED BY <1>1, <1>2, <1>3, <1>5, <2>1, <2>2, AsKeeps DEF ResolveOidc
  <1>6. CASE ResolveSaml(p)
    BY <1>1, <1>2, <1>3, <1>6, AsKeeps DEF ResolveSaml
  <1> QED BY <1>4, <1>5, <1>6

LEMMA CreatedKeeps ==
    ASSUME IInv, NEW p \in Procs, Provision(p)
    PROVE  IInv'
  <1> DEFINE u == req[p].who.email
  <1>1. req[p].pc = "create" /\ count' = count /\ UNCHANGED ghosts
    BY DEF Provision, Quiet
  <1>2. req = [q \in Procs |-> req[q]] /\ IsRequest(req[p]) /\ Placed(req[p])
    BY DEF IInv, Requests
  <1>3. u \in Users /\ req[p].op \in {"social", "oidc", "saml"}
    BY <1>1, <1>2 DEF Placed
  <1>4. CASE db' = db /\ Answer(p)
    BY <1>1, <1>3, <1>4, GoneKeeps
  <1>5. CASE /\ ~db.account[u].present
             /\ db' = CreateUser(db, u, FALSE)
             /\ req' = [req EXCEPT ![p].user = u, ![p].gen = db.account[u].gen + 1,
                                   ![p].seen = NewAccount(db.account[u].gen + 1, FALSE),
                                   ![p].pc = "announce"]
    <2> DEFINE r == req[p]
               g == db.account[u].gen + 1
               a == NewAccount(g, FALSE)
               x == [r EXCEPT !.user = u, !.gen = g, !.seen = a, !.pc = "announce"]
    <2>1. g \in Nat
      BY <1>3, RowFacts DEF IInv
    <2>2. IsAccount(a)
      BY <2>1, NewAccountRow
    <2>3. req'[p] = x /\ Steps(req, req', p)
      BY <1>2, <1>5 DEF Steps
    <2>4. Creates(db, db', u)
      BY <1>3, <1>5, CreateFacts DEF IInv
    <2>5. r.pc = "create" /\ r.op \in {"social", "oidc", "saml"} /\ IsRequest(r) /\ Placed(r)
      BY <1>1, <1>2, <1>3
    <2>6. g = db.account[u].gen + 1
      OBVIOUS
    <2> HIDE DEF r, g, a
    <2>7. /\ x = [f \in RequestFields |-> x[f]]
          /\ x.op = r.op /\ x.pc = "announce" /\ x.user = u /\ x.gen = g /\ x.seen = a
          /\ x.n = r.n /\ x.raced = r.raced /\ x.x = r.x /\ x.pw = r.pw /\ x.how = r.how
          /\ x.who = r.who
      BY <2>5 DEF IsRequest, RequestFields
    <2> HIDE DEF x
    <2>8. IsRequest(x)
      BY <2>1, <2>2, <2>5, <2>7 DEF IsRequest
    <2>9. Placed(x)
      BY <1>3, <2>5, <2>7 DEF Placed, Anonymous
    <2>10. Born(x, u)
      BY <2>5, <2>6, <2>7, <2>8, <2>9 DEF Born
    <2>11. req'[p].n = req[p].n /\ Born(req'[p], u)
      BY <2>3, <2>7, <2>10 DEF r
    <2>12. req[p].op # "idle" /\ req[p].pc # "revoke" /\ ~db.account[u].present
      BY <1>1, <1>3, <1>5
    <2> HIDE DEF u
    <2> QED BY <1>1, <1>3, <2>3, <2>4, <2>11, <2>12, ProvisionKeeps
  <1> QED BY <1>4, <1>5 DEF Provision

LEMMA LinkTame ==
    ASSUME IInv, NEW u \in Users, NEW provider, NEW subject
    PROVE  Tame(db, LinkSsoIdentity(db, u, provider, subject))
  <1> DEFINE l == [provider |-> provider, subject |-> subject, user |-> u]
             d == LinkSsoIdentity(db, u, provider, subject)
  <1>1. l.user = u
    OBVIOUS
  <1> HIDE DEF l
  <1>2. /\ d = [f \in TableNames |-> d[f]] /\ d.account = db.account
        /\ d.sessions = db.sessions /\ d.tickets = db.tickets
        /\ d.links \subseteq db.links \union {l}
    BY DEF LinkSsoIdentity, IInv, IsDb, TableNames, l
  <1> HIDE DEF d
  <1>3. IsDb(d)
    BY <1>1, <1>2 DEF IInv, IsDb
  <1>4. Tame(db, d)
    BY <1>2, <1>3, ElsewhereTame DEF IInv
  <1> QED BY <1>4 DEF d

LEMMA LinkKeeps ==
    ASSUME IInv, NEW p \in Procs, Link(p)
    PROVE  IInv'
  <1> DEFINE r == req[p]
             d == IF r.op = "social" THEN LinkSsoIdentity(db, r.user, Provider, r.who.subject)
                  ELSE SetOidcSub(db, r.user, r.who.subject)
             pc == IF r.pc = "linknew" THEN "boot" ELSE "issue"
  <1>1. /\ r.pc \in {"link", "linknew"} /\ UNCHANGED ghosts
        /\ Statement(p, d, pc) \/ (db' = db /\ Answer(p) /\ count' = count)
    BY DEF Link, Quiet
  <1>2. r.user \in Users /\ r.op \in {"social", "oidc"} /\ r.op # "idle" /\ r.pc # "revoke"
    BY <1>1, PlacedUser DEF IInv, Requests, Placed, Anonymous
  <1>3. Tame(db, d)
    BY <1>2, LinkTame, SubTame DEF IInv
  <1>4. Lands(r, pc) /\ pc # "done"
    BY <1>1, <1>2 DEF Lands, Anonymous
  <1> HIDE DEF d, pc
  <1>5. CASE db' = db /\ Answer(p) /\ count' = count
    BY <1>1, <1>2, <1>5, GoneKeeps
  <1>6. CASE Statement(p, d, pc)
    <2>1. count' = count /\ ((db' = d /\ Goto(p, pc)) \/ (db' = db /\ Answer(p)))
      BY <1>4, <1>6, StatementCases
    <2>2. CASE db' = d /\ Goto(p, pc)
      BY <1>1, <1>2, <1>3, <1>4, <2>1, <2>2, GoKeeps
    <2>3. CASE db' = db /\ Answer(p)
      BY <1>1, <1>2, <2>1, <2>3, GoneKeeps
    <2> QED BY <2>1, <2>2, <2>3
  <1> QED BY <1>1, <1>5, <1>6

-----------------------------------------------------------------------------
(***************************************************************************)
(* The theorems                                                            *)
(***************************************************************************)
LEMMA NextKeeps ==
    ASSUME IInv, Next
    PROVE  IInv'
  <1>1. ASSUME NEW p \in Procs,
               \/ Statements(p) \/ Handlers(p)
               \/ SsoCallback(p) \/ OidcCallback(p) \/ SamlAcs(p)
               \/ ResolveSocial(p) \/ ResolveOidc(p) \/ ResolveSaml(p)
               \/ Provision(p) \/ Link(p)
        PROVE  IInv'
    BY <1>1, StatementsKeep, HandlersKeep, CallbackKeeps, AcsKeeps, ResolveKeeps, CreatedKeeps, LinkKeeps
  <1>2. ASSUME SsoStart \/ OidcStart \/ SamlStart PROVE IInv'
    BY <1>2, StartKeeps
  <1>3. ASSUME Clock PROVE IInv'
    BY <1>3, ExpireKeeps, UnlockKeeps DEF Clock
  <1> QED BY <1>1, <1>2, <1>3 DEF Next

LEMMA StutterKeeps ==
    ASSUME IInv, UNCHANGED vars
    PROVE  IInv'
  <1>1. db' = db /\ req' = req /\ count' = count /\ spent' = spent /\ guesses' = guesses /\ stale' = stale
    BY DEF vars
  <1> QED BY <1>1 DEF IInv

LEMMA RowIsAccount ==
    ASSUME NEW a \in AccountRows
    PROVE  IsAccount(a)
  <1>1. a = [f \in AccountFields |-> a[f]]
    BY DEF AccountRows, AccountFields
  <1>2. a.gen \in Nat /\ a.fails \in Nat
    BY DEF AccountRows
  <1>3. a.present \in BOOLEAN /\ a.totp \in BOOLEAN /\ a.locked \in BOOLEAN /\ a.disabled \in BOOLEAN
    BY DEF AccountRows
  <1> QED BY <1>1, <1>2, <1>3 DEF IsAccount

LEMMA RowIsSession ==
    ASSUME NEW s \in SessionRows
    PROVE  IsSession(s)
  <1>1. s = [f \in SessionFields |-> s[f]]
    BY DEF SessionRows, SessionFields
  <1>2. s.user \in Users
    BY DEF SessionRows
  <1>3. s.raced \in BOOLEAN /\ s.kept \in BOOLEAN
    BY DEF SessionRows
  <1> QED BY <1>1, <1>2, <1>3 DEF IsSession

LEMMA InitKeeps ==
    ASSUME Init
    PROVE  IInv
  <1>1. /\ scene.account \in [Users -> AccountRows] /\ scene.sessions \subseteq SessionRows
        /\ \A u \in Users :
             /\ scene.account[u].fails <= MaxAttempts
             /\ ~scene.account[u].locked => scene.account[u].fails < MaxAttempts
             /\ ~scene.account[u].present => scene.account[u].fails = 0
        /\ \A x \in scene.sessions :
             /\ scene.account[x.user].present
             /\ x.how = "password" => x.pw = scene.account[x.user].pw
             /\ scene.account[x.user].disabled => x.how \in {"passkey", "social"}
    BY AccountsAssumption DEF Init
  <1>2. /\ db = [f \in TableNames |-> db[f]] /\ db.account = scene.account
        /\ db.sessions = scene.sessions /\ db.tickets = {} /\ db.links = {}
    BY DEF Init, TableNames
  <1>3. /\ req = [p \in Procs |-> Blank] /\ count = 0 /\ spent = {}
        /\ guesses = [u \in Users |-> db.account[u].fails]
        /\ stale = [u \in Users |-> FALSE]
    BY DEF Init
  <1>4. IsDb(db)
    <2>1. \A u \in Users : IsAccount(db.account[u])
      BY <1>1, <1>2, RowIsAccount
    <2>2. db.account = [u \in Users |-> db.account[u]]
      BY <1>1, <1>2
    <2> QED BY <1>2, <2>1, <2>2 DEF IsDb
  <1>5. Requests(db, req)
    BY <1>3, BlankFacts, BlankFits DEF Requests
  <1>6. Sessions(db, req)
    BY <1>1, <1>2, RowIsSession DEF Sessions, Entitled
  <1>7. Numbers(db, req, count, spent)
    <2>1. \A q \in Procs : req[q].op = "idle" /\ req[q].pc = "idle"
      BY <1>3, BlankFacts
    <2> QED BY <1>2, <1>3, <2>1 DEF Numbers
  <1>8. Counter(db, guesses, stale)
    <2>1. \A u \in Users : db.account[u].fails \in Nat
      BY <1>4, RowFacts
    <2>2. guesses \in [Users -> Nat]
      BY <1>3, <2>1
    <2>3. stale \in [Users -> BOOLEAN] /\ \A u \in Users : ~stale[u]
      BY <1>3
    <2>4. \A u \in Users : guesses[u] = db.account[u].fails
      BY <1>3
    <2>5. \A u \in Users : guesses[u] <= db.account[u].fails
      BY <2>1, <2>4
    <2>6. ASSUME NEW u \in Users
          PROVE  /\ ~db.account[u].present => guesses[u] = 0
                 /\ guesses[u] <= MaxAttempts
                 /\ ~db.account[u].locked => guesses[u] < MaxAttempts
      <3>1. db.account[u] = scene.account[u] /\ guesses[u] = scene.account[u].fails
        BY <1>2, <2>4
      <3> QED BY <1>1, <3>1
    <2> QED BY <2>2, <2>3, <2>5, <2>6 DEF Counter
  <1> QED BY <1>4, <1>5, <1>6, <1>7, <1>8 DEF IInv

(* The inductive invariant: rows and requests are well formed, a request   *)
(* that was not overtaken still relies on what is there, tickets carry the *)
(* number of the request that made them, and the counter covers the        *)
(* guesses.                                                                *)
THEOREM IdentityInvariant == Spec => []IInv
  <1>1. Init => IInv
    BY InitKeeps
  <1>2. IInv /\ [Next]_vars => IInv'
    BY NextKeeps, StutterKeeps
  <1> QED BY <1>1, <1>2, PTL DEF Spec

(* A one-time ticket (reset link, login state, SAML request, passkey       *)
(* challenge) serves one request, for any number of requests that present  *)
(* it at once.                                                             *)
THEOREM OneTimeTheorem == Spec => []OneTimeUsedOnce
  <1>1. IInv => OneTimeUsedOnce
    BY DEF IInv, Numbers, OneTimeUsedOnce
  <1> QED BY <1>1, IdentityInvariant, PTL

(* After a new password, or a deactivation, only sessions that carry one   *)
(* of the three marks are left, however sign-ins, resets, deletions and    *)
(* re-creations of the account interleave.                                 *)
THEOREM SignedOutTheorem == Spec => []SignedOutStaysOut
  <1>1. IInv => SignedOutStaysOut
    <2> SUFFICES ASSUME IInv, NEW s \in db.sessions, ~s.raced, ~s.kept, ~Revoking(s.user)
                 PROVE  /\ s.how = "password" => s.pw = db.account[s.user].pw
                        /\ db.account[s.user].disabled => s.how \in {"passkey", "social"}
      BY DEF SignedOutStaysOut
    <2>1. \A o \in Procs : ~Revokes(db, req, o, s.user)
      BY DEF Revoking, Revokes
    <2> QED BY <2>1, SessionUser DEF Entitled
  <1> QED BY <1>1, IdentityInvariant, PTL

(* An account takes at most max_login_attempts wrong guesses before it is  *)
(* locked, unless sign-ins overlapped; for any limit and any number of     *)
(* requests.                                                               *)
THEOREM LockoutTheorem == Spec => []LockoutHolds
  <1>1. IInv => LockoutHolds
    <2> SUFFICES ASSUME IInv, NEW u \in Users, guesses[u] > MaxAttempts, ~stale[u]
                 PROVE  FALSE
      BY DEF LockoutHolds, IInv, Counter
    <2>1. guesses[u] <= MaxAttempts /\ guesses[u] \in Nat /\ MaxAttempts \in Nat
      BY AccountsAssumption DEF IInv, Counter
    <2> QED BY <2>1
  <1> QED BY <1>1, IdentityInvariant, PTL

-----------------------------------------------------------------------------
(***************************************************************************)
(* The second factor                                                       *)
(***************************************************************************)
(* No factor is turned on, and none has another secret. *)
Factors(d, e) ==
    \A u \in Users : e.account[u].totp => d.account[u].totp /\ e.account[u].secret = d.account[u].secret

LEMMA FactorsSame ==
    ASSUME NEW d, NEW e, e.account = d.account
    PROVE  Factors(d, e)
  BY DEF Factors

LEMMA FactorsWrite ==
    ASSUME NEW d, NEW e, NEW u, \A v \in Users \ {u} : e.account[v] = d.account[v],
           \/ ~e.account[u].totp
           \/ e.account[u].totp = d.account[u].totp /\ e.account[u].secret = d.account[u].secret
    PROVE  Factors(d, e)
  BY DEF Factors

(* Statements on the other tables. *)
LEMMA SessionTables ==
    ASSUME NEW d, IsDb(d), NEW s, NEW id, NEW u, NEW gen
    PROVE  /\ CreateSession(d, s).account = d.account /\ TouchSession(d, id).account = d.account
           /\ DeleteSession(d, id).account = d.account
           /\ DeleteSessionsForUser(d, u, gen).account = d.account
           /\ Keep(d, u, gen).account = d.account
  BY DEF IsDb, TableNames, CreateSession, TouchSession, DeleteSession, DeleteSessionsForUser, Keep

LEMMA TicketTables ==
    ASSUME NEW d, IsDb(d), NEW t
    PROVE  /\ CreatePasswordReset(d, t).account = d.account /\ CreateOidcState(d, t).account = d.account
           /\ CreateSamlRequest(d, t).account = d.account /\ CreateWebauthnState(d, t).account = d.account
           /\ ConsumePasswordReset(d, t).account = d.account /\ ConsumeOidcState(d, t).account = d.account
           /\ ConsumeSamlRequest(d, t).account = d.account /\ ConsumeWebauthnState(d, t).account = d.account
  BY DEF IsDb, TableNames, CreatePasswordReset, CreateOidcState, CreateSamlRequest, CreateWebauthnState,
         ConsumePasswordReset, ConsumeOidcState, ConsumeSamlRequest, ConsumeWebauthnState

LEMMA OtherTables ==
    ASSUME NEW d, IsDb(d), NEW u, NEW k, NEW id, NEW old, NEW provider
    PROVE  /\ AddWebauthnCredential(d, k).account = d.account
           /\ DeleteWebauthnCredential(d, u, id).account = d.account
           /\ RegisterSamlAssertion(d, id, old).account = d.account
           /\ LinkSsoIdentity(d, u, provider, id).account = d.account
           /\ EnqueueRegistered(d, u).account = d.account
  BY DEF IsDb, TableNames, AddWebauthnCredential, DeleteWebauthnCredential, RegisterSamlAssertion,
         LinkSsoIdentity, EnqueueRegistered

(* Statements on the accounts, but for the one that turns a factor on. *)
LEMMA AccountFactors ==
    ASSUME NEW d, IsDb(d), NEW u \in Users, NEW v, NEW secret
    PROVE  /\ Factors(d, UpdateUser(d, u, v)) /\ Factors(d, SetOidcSub(d, u, v))
           /\ Factors(d, SetPasswordDigest(d, u, v)) /\ Factors(d, DeleteUser(d, u))
           /\ Factors(d, CreateUser(d, u, FALSE))
           /\ Factors(d, [d EXCEPT !.account[u].locked = FALSE])
  <1>1. Factors(d, UpdateUser(d, u, v))
    <2> DEFINE e == UpdateUser(d, u, v)
    <2>1. Writes(d, e, u) /\ e.account[u].totp = d.account[u].totp /\ e.account[u].secret = d.account[u].secret
      BY UpdateFacts
    <2> HIDE DEF e
    <2>2. Factors(d, e)
      BY <2>1, FactorsWrite DEF Writes
    <2> QED BY <2>2 DEF e
  <1>2. Factors(d, SetOidcSub(d, u, v))
    <2> DEFINE e == SetOidcSub(d, u, v)
    <2>1. Writes(d, e, u) /\ e.account[u].totp = d.account[u].totp /\ e.account[u].secret = d.account[u].secret
      BY SubFacts
    <2> HIDE DEF e
    <2>2. Factors(d, e)
      BY <2>1, FactorsWrite DEF Writes
    <2> QED BY <2>2 DEF e
  <1>3. Factors(d, SetPasswordDigest(d, u, v))
    <2> DEFINE e == SetPasswordDigest(d, u, v)
    <2>1. Writes(d, e, u) /\ e.account[u].totp = d.account[u].totp /\ e.account[u].secret = d.account[u].secret
      BY DigestFacts
    <2> HIDE DEF e
    <2>2. Factors(d, e)
      BY <2>1, FactorsWrite DEF Writes
    <2> QED BY <2>2 DEF e
  <1>4. Factors(d, DeleteUser(d, u))
    <2> DEFINE e == DeleteUser(d, u)
    <2>1. (\A w \in Users \ {u} : e.account[w] = d.account[w]) /\ ~e.account[u].totp
      BY DeleteFacts
    <2> HIDE DEF e
    <2>2. Factors(d, e)
      BY <2>1 DEF Factors
    <2> QED BY <2>2 DEF e
  <1>5. Factors(d, CreateUser(d, u, FALSE))
    <2> DEFINE e == CreateUser(d, u, FALSE)
    <2>1. Creates(d, e, u)
      BY CreateFacts
    <2> HIDE DEF e
    <2>2. Factors(d, e)
      BY <2>1, FactorsWrite DEF Creates, Writes
    <2> QED BY <2>2 DEF e
  <1>6. Factors(d, [d EXCEPT !.account[u].locked = FALSE])
    <2> DEFINE e == [d EXCEPT !.account[u].locked = FALSE]
    <2>1. Writes(d, e, u) /\ e.account[u].totp = d.account[u].totp /\ e.account[u].secret = d.account[u].secret
      BY UnlockFacts
    <2> HIDE DEF e
    <2>2. Factors(d, e)
      BY <2>1, FactorsWrite DEF Writes
    <2> QED BY <2>2 DEF e
  <1> QED BY <1>1, <1>2, <1>3, <1>4, <1>5, <1>6

LEMMA FlagFactors ==
    ASSUME NEW d, IsDb(d), NEW u \in Users, NEW flag, flag \in BOOLEAN, NEW n \in Nat
    PROVE  /\ Factors(d, SetUserDisabled(d, u, flag))
           /\ Factors(d, SetLoginState(d, u, n, flag))
  <1>1. Factors(d, SetUserDisabled(d, u, flag))
    <2> DEFINE e == SetUserDisabled(d, u, flag)
    <2>1. Writes(d, e, u) /\ e.account[u].totp = d.account[u].totp /\ e.account[u].secret = d.account[u].secret
      BY DisabledFacts
    <2> HIDE DEF e
    <2>2. Factors(d, e)
      BY <2>1, FactorsWrite DEF Writes
    <2> QED BY <2>2 DEF e
  <1>2. Factors(d, SetLoginState(d, u, n, flag))
    <2> DEFINE e == SetLoginState(d, u, n, flag)
    <2>1. Writes(d, e, u) /\ e.account[u].totp = d.account[u].totp /\ e.account[u].secret = d.account[u].secret
      BY LoginStateFacts
    <2> HIDE DEF e
    <2>2. Factors(d, e)
      BY <2>1, FactorsWrite DEF Writes
    <2> QED BY <2>2 DEF e
  <1> QED BY <1>1, <1>2

LEMMA OffFactors ==
    ASSUME NEW d, IsDb(d), NEW u \in Users, NEW secret
    PROVE  Factors(d, SetTotp(d, u, secret, FALSE))
  <1> DEFINE no == FALSE
             e == SetTotp(d, u, secret, no)
  <1>1. no \in BOOLEAN /\ ~no
    OBVIOUS
  <1> HIDE DEF no
  <1>2. Writes(d, e, u) /\ e.account[u].totp = no
    BY <1>1, TotpFacts
  <1> HIDE DEF e
  <1>3. Factors(d, e)
    BY <1>1, <1>2, FactorsWrite DEF Writes
  <1> QED BY <1>3 DEF e, no

LEMMA StatementFactors ==
    ASSUME NEW p, NEW d, NEW pc, Factors(db, d), Statement(p, d, pc) \/ Overtaking(p, d, pc)
    PROVE  Factors(db, db')
  BY FactorsSame DEF Statement, Overtaking

LEMMA MiddlewareFactors ==
    ASSUME IInv, NEW p, NEW s, NEW r, SessionMiddleware(p, s, r)
    PROVE  Factors(db, db')
  BY SessionTables, FactorsSame DEF SessionMiddleware, IInv

LEMMA StatementsFactors ==
    ASSUME IInv, NEW p \in Procs, Statements(p)
    PROVE  Factors(db, db')
  <1> USE DEF IInv
  <1>1. CASE IssueSession(p)
    <2>1. PICK s : Statement(p, CreateSession(db, s), "done")
      BY <1>1 DEF IssueSession
    <2> QED BY <2>1, SessionTables, FactorsSame, StatementFactors
  <1>2. CASE Revoke(p)
    BY <1>2, SessionTables, FactorsSame DEF Revoke
  <1>3. CASE UserRegistered(p)
    BY <1>3, OtherTables, FactorsSame DEF UserRegistered
  <1>4. CASE TryBootstrap(p)
    <2>1. db' = db \/ \E k : db' = [db EXCEPT !.workspace[req[p].user] = k]
      BY <1>4 DEF TryBootstrap
    <2>2. db'.account = db.account
      BY <2>1 DEF IsDb, TableNames
    <2> QED BY <2>2, FactorsSame
  <1>5. CASE Abandon(p)
    BY <1>5, SessionTables, FactorsSame DEF Abandon
  <1>6. CASE LoginFailed(p)
    <2> DEFINE n == req[p].seen.fails + 1
               flag == n >= MaxAttempts
               d == SetLoginState(db, req[p].user, n, flag)
    <2>1. Statement(p, d, "done") /\ req[p].pc = "fail"
      BY <1>6 DEF LoginFailed, At
    <2>2. req[p].user \in Users
      BY <2>1, PlacedUser DEF Anonymous
    <2>3. req[p].seen.fails \in Nat
      BY DEF Requests, IsRequest, IsAccount
    <2>4. n \in Nat
      BY <2>3
    <2>5. flag \in BOOLEAN
      OBVIOUS
    <2> HIDE DEF n, flag
    <2>6. Factors(db, d)
      BY <2>2, <2>4, <2>5, FlagFactors
    <2> HIDE DEF d
    <2> QED BY <2>1, <2>6, StatementFactors
  <1>7. CASE ClearLoginState(p)
    <2> DEFINE no == FALSE
               n == 0
               d == SetLoginState(db, req[p].user, n, no)
    <2>1. req[p].pc \in {"clear", "zero"} /\ \E pc : Statement(p, d, pc)
      BY <1>7 DEF ClearLoginState
    <2>2. n \in Nat /\ no \in BOOLEAN
      OBVIOUS
    <2>3. req[p].user \in Users
      BY <2>1, PlacedUser DEF Anonymous
    <2> HIDE DEF n, no
    <2>4. Factors(db, d)
      BY <2>2, <2>3, FlagFactors
    <2> HIDE DEF d
    <2> QED BY <2>1, <2>4, StatementFactors
  <1>8. CASE SetFirstPassword(p)
    <2> DEFINE e == SetPasswordDigest(db, req[p].user, req[p].pw)
               d == Keep(e, req[p].user, req[p].gen)
    <2>1. Overtaking(p, d, "announce") /\ req[p].pc = "digest"
      BY <1>8 DEF SetFirstPassword
    <2>2. req[p].user \in Users
      BY <2>1, PlacedUser DEF Anonymous
    <2>3. Factors(db, e) /\ IsDb(e)
      BY <2>2, AccountFactors, DigestFacts DEF Writes
    <2> HIDE DEF e
    <2>4. Factors(db, d)
      BY <2>3, SessionTables DEF Factors
    <2> HIDE DEF d
    <2> QED BY <2>1, <2>4, StatementFactors
  <1>9. CASE TooLate(p)
    BY <1>9, FactorsSame DEF TooLate
  <1> QED BY <1>1, <1>2, <1>3, <1>4, <1>5, <1>6, <1>7, <1>8, <1>9 DEF Statements

(* The requests that read and change passwords, flags and profiles. *)
LEMMA ProfileFactors ==
    ASSUME IInv, NEW p \in Procs,
           \/ Logout(p) \/ UpdateMe(p) \/ ChangePassword(p)
           \/ PasswordResetRequest(p) \/ PasswordResetComplete(p)
    PROVE  Factors(db, db')
  <1>1. IsDb(db) /\ \A pc \in {"write", "digest", "ticket"} : req[p].pc = pc => req[p].user \in Users
    BY PlacedUser DEF IInv, Anonymous
  <1>2. CASE Logout(p)
    <2>1. ASSUME NEW id, db' = DeleteSession(db, id) PROVE Factors(db, db')
      BY <1>1, <2>1, SessionTables, FactorsSame
    <2> QED BY <1>2, <2>1, MiddlewareFactors DEF Logout
  <1>3. CASE UpdateMe(p)
    <2>1. ASSUME At(p, "me", "write"), Statement(p, UpdateUser(db, req[p].user, req[p].seen.admin), "done")
          PROVE  Factors(db, db')
      BY <1>1, <2>1, AccountFactors, StatementFactors DEF At
    <2> QED BY <1>3, <2>1, MiddlewareFactors DEF UpdateMe
  <1>4. ASSUME NEW op, At(p, op, "digest"),
               Overtaking(p, SetPasswordDigest(db, req[p].user, req[p].pw), "revoke")
        PROVE  Factors(db, db')
    BY <1>1, <1>4, AccountFactors, StatementFactors DEF At
  <1>5. CASE ChangePassword(p)
    BY <1>4, <1>5, MiddlewareFactors, FactorsSame DEF ChangePassword, Reread
  <1>6. CASE PasswordResetRequest(p)
    <2>1. db' = db \/ \E t : Statement(p, CreatePasswordReset(db, t), "done")
      BY <1>6 DEF PasswordResetRequest
    <2> QED BY <1>1, <2>1, TicketTables, FactorsSame, StatementFactors
  <1>7. CASE PasswordResetComplete(p)
    <2>1. \/ db' = db \/ (\E t : db' = ConsumePasswordReset(db, t)) \/ ResetDigest(p)
      BY <1>7 DEF PasswordResetComplete, Redeem, Reread
    <2> QED BY <1>1, <1>4, <2>1, TicketTables, FactorsSame DEF ResetDigest
  <1> QED BY <1>2, <1>3, <1>5, <1>6, <1>7

(* The second factor goes, or waits for its first code. *)
LEMMA EnrollFactors ==
    ASSUME IInv, NEW p \in Procs, TotpEnroll(p) \/ TotpDisable(p)
    PROVE  Factors(db, db')
  <1>1. IsDb(db) /\ (req[p].pc = "set" => req[p].user \in Users)
    BY PlacedUser DEF IInv, Anonymous
  <1>2. CASE TotpEnroll(p)
    <2> DEFINE e == SetTotp(db, req[p].user, db.minted + 1, FALSE)
               d == [e EXCEPT !.minted = @ + 1]
    <2>1. (\E s, r : SessionMiddleware(p, s, r)) \/ (req[p].pc = "set" /\ Statement(p, d, "done"))
      BY <1>2 DEF TotpEnroll, At
    <2>2. CASE req[p].pc = "set" /\ Statement(p, d, "done")
      <3>1. Factors(db, e) /\ Tame(db, e)
        BY <1>1, <2>2, OffFactors, TotpOnTame DEF IInv
      <3>2. IsDb(e)
        BY <3>1 DEF Tame
      <3> HIDE DEF e
      <3>3. d.account = e.account
        BY <3>2 DEF IsDb, TableNames
      <3> HIDE DEF d
      <3>4. Factors(db, d)
        BY <3>1, <3>3 DEF Factors
      <3> QED BY <2>2, <3>4, StatementFactors
    <2> QED BY <2>1, <2>2, MiddlewareFactors
  <1>3. CASE TotpDisable(p)
    <2> DEFINE d == SetTotp(db, req[p].user, 0, FALSE)
    <2>1. \/ \E s, r : SessionMiddleware(p, s, r)
          \/ db' = db
          \/ req[p].pc = "set" /\ Statement(p, d, "done")
      BY <1>3 DEF TotpDisable, At, Reread
    <2>2. CASE req[p].pc = "set" /\ Statement(p, d, "done")
      <3>1. Factors(db, d)
        BY <1>1, <2>2, OffFactors
      <3> HIDE DEF d
      <3> QED BY <2>2, <3>1, StatementFactors
    <2> QED BY <2>1, <2>2, MiddlewareFactors, FactorsSame
  <1> QED BY <1>2, <1>3

LEMMA PasskeyFactors ==
    ASSUME IInv, NEW p \in Procs,
           \/ PasskeyRegisterStart(p) \/ PasskeyRegisterFinish(p) \/ CredentialsDestroy(p)
           \/ PasskeyLoginStart(p) \/ PasskeyLoginFinish(p)
    PROVE  Factors(db, db')
  <1>1. IsDb(db)
    BY DEF IInv
  <1>2. CASE PasskeyRegisterStart(p)
    <2>1. (\E s, r : SessionMiddleware(p, s, r)) \/ (\E t : Statement(p, CreateWebauthnState(db, t), "done"))
      BY <1>2 DEF PasskeyRegisterStart
    <2> QED BY <1>1, <2>1, MiddlewareFactors, TicketTables, FactorsSame, StatementFactors
  <1>3. CASE PasskeyRegisterFinish(p)
    <2>1. \/ \E s, t : db' = ConsumeWebauthnState(TouchSession(db, s.id), t)
          \/ \E k : Statement(p, AddWebauthnCredential(db, k), "done")
      BY <1>3 DEF PasskeyRegisterFinish, Redeem
    <2>2. ASSUME NEW s, NEW t, db' = ConsumeWebauthnState(TouchSession(db, s.id), t)
          PROVE  Factors(db, db')
      <3> DEFINE e == TouchSession(db, s.id)
      <3>1. Tame(db, e) /\ e.account = db.account
        BY <1>1, TouchTame, SessionTables DEF IInv
      <3>2. IsDb(e)
        BY <3>1 DEF Tame
      <3> HIDE DEF e
      <3>3. db'.account = e.account
        BY <2>2, <3>2, TicketTables DEF e
      <3> QED BY <3>1, <3>3, FactorsSame
    <2> QED BY <1>1, <2>1, <2>2, OtherTables, FactorsSame, StatementFactors
  <1>4. CASE CredentialsDestroy(p)
    <2>1. ASSUME NEW u, NEW id, db' = DeleteWebauthnCredential(db, u, id) PROVE Factors(db, db')
      BY <1>1, <2>1, OtherTables, FactorsSame
    <2> QED BY <1>4, <2>1, MiddlewareFactors DEF CredentialsDestroy
  <1>5. CASE PasskeyLoginStart(p)
    <2>1. db' = db \/ \E t : Statement(p, CreateWebauthnState(db, t), "done")
      BY <1>5 DEF PasskeyLoginStart
    <2> QED BY <1>1, <2>1, TicketTables, FactorsSame, StatementFactors
  <1>6. CASE PasskeyLoginFinish(p)
    <2>1. db' = db \/ \E t : db' = ConsumeWebauthnState(db, t)
      BY <1>6 DEF PasskeyLoginFinish, Redeem, Reread
    <2> QED BY <1>1, <2>1, TicketTables, FactorsSame
  <1> QED BY <1>2, <1>3, <1>4, <1>5, <1>6

LEMMA AdminFactors ==
    ASSUME IInv, NEW p \in Procs, UsersUpdate(p) \/ UsersDestroy(p) \/ ScimRow(p) \/ ApplyActive(p)
    PROVE  Factors(db, db')
  <1>1. IsDb(db) /\ \A pc \in {"write", "delete", "row", "flag"} : req[p].pc = pc => req[p].user \in Users
    BY PlacedUser DEF IInv, Anonymous
  <1>2. CASE UsersUpdate(p) \/ ScimRow(p)
    <2>1. \/ db' = db
          \/ req[p].user \in Users /\ \E v, pc : Statement(p, UpdateUser(db, req[p].user, v), pc)
      BY <1>1, <1>2 DEF UsersUpdate, ScimRow, At
    <2> QED BY <1>1, <2>1, AccountFactors, FactorsSame, StatementFactors
  <1>3. CASE UsersDestroy(p)
    <2>1. \/ db' = db
          \/ req[p].user \in Users /\ Statement(p, DeleteUser(db, req[p].user), "done")
      BY <1>1, <1>3 DEF UsersDestroy, At
    <2> QED BY <1>1, <2>1, AccountFactors, FactorsSame, StatementFactors
  <1>4. CASE ApplyActive(p)
    <2> DEFINE yes == TRUE
               no == FALSE
               d == SetUserDisabled(db, req[p].user, no)
               e == SetUserDisabled(db, req[p].user, yes)
    <2>1. \/ db' = db
          \/ req[p].pc = "flag" /\ (Statement(p, d, "done") \/ Overtaking(p, e, "revoke"))
      BY <1>4 DEF ApplyActive, At, Reread
    <2>2. yes \in BOOLEAN /\ no \in BOOLEAN
      OBVIOUS
    <2> HIDE DEF yes, no
    <2>3. req[p].pc = "flag" => Factors(db, d) /\ Factors(db, e)
      BY <1>1, <2>2, FlagFactors
    <2> HIDE DEF d, e
    <2> QED BY <2>1, <2>3, FactorsSame, StatementFactors
  <1> QED BY <1>2, <1>3, <1>4

LEMMA CreatorFactors ==
    ASSUME IInv, NEW p \in Procs, NEW u \in Users,
           \/ \E pw \in Passwords, code \in 0..db.minted : Login(p, u, pw, code)
           \/ \E pw \in NewPasswords : Register(p, u, pw)
           \/ \E pw \in NewPasswords \union {NoPassword} : AdminCreate(p, u, pw)
           \/ \E active \in 0..1 : ScimCreate(p, u, active) \/ ScimReplace(p, u, active)
           \/ \E active \in 0..2 : ScimPatch(p, u, active)
           \/ ScimDelete(p, u)
    PROVE  Factors(db, db')
  <1>1. db' = db \/ db' = CreateUser(db, u, FALSE)
    BY DEF Login, Register, AdminCreate, ScimCreate, ScimReplace, ScimPatch, ScimDelete
  <1> QED BY <1>1, AccountFactors, FactorsSame DEF IInv

LEMMA ProviderFactors ==
    ASSUME IInv, NEW p \in Procs,
           \/ SsoCallback(p) \/ OidcCallback(p) \/ SamlAcs(p)
           \/ ResolveSocial(p) \/ ResolveOidc(p) \/ ResolveSaml(p)
           \/ Provision(p) \/ Link(p)
    PROVE  Factors(db, db')
  <1>1. IsDb(db)
    BY DEF IInv
  <1>2. CASE SsoCallback(p) \/ OidcCallback(p)
    <2>1. \E t : db' = ConsumeOidcState(db, t)
      BY <1>2 DEF SsoCallback, OidcCallback, Redeem
    <2> QED BY <1>1, <2>1, TicketTables, FactorsSame
  <1>3. CASE SamlAcs(p)
    <2>1. \/ db' = db \/ (\E t : db' = ConsumeSamlRequest(db, t))
          \/ \E id, old : db' = RegisterSamlAssertion(db, id, old)
      BY <1>3 DEF SamlAcs, Redeem
    <2>2. ASSUME NEW t PROVE Factors(db, ConsumeSamlRequest(db, t))
      BY <1>1, TicketTables, FactorsSame
    <2>3. ASSUME NEW id, NEW old PROVE Factors(db, RegisterSamlAssertion(db, id, old))
      BY <1>1, OtherTables, FactorsSame
    <2>4. Factors(db, db)
      BY <1>1, FactorsSame
    <2> QED BY <2>1, <2>2, <2>3, <2>4
  <1>4. CASE ResolveSocial(p) \/ ResolveOidc(p) \/ ResolveSaml(p)
    BY <1>4, FactorsSame DEF ResolveSocial, ResolveOidc, ResolveSaml
  <1>5. CASE Provision(p)
    <2>1. req[p].who.email \in Users
      BY <1>5 DEF Provision, IInv, Requests, Placed
    <2>2. db' = db \/ db' = CreateUser(db, req[p].who.email, FALSE)
      BY <1>5 DEF Provision
    <2>3. Factors(db, CreateUser(db, req[p].who.email, FALSE)) /\ Factors(db, db)
      BY <1>1, <2>1, AccountFactors, FactorsSame
    <2> QED BY <2>2, <2>3
  <1>6. CASE Link(p)
    <2>1. req[p].user \in Users
      BY <1>6, PlacedUser DEF Link, Anonymous
    <2>2. \/ db' = db
          \/ \E sub, pc : Statement(p, SetOidcSub(db, req[p].user, sub), pc)
          \/ \E sub, pc : Statement(p, LinkSsoIdentity(db, req[p].user, Provider, sub), pc)
      BY <1>6 DEF Link
    <2>3. ASSUME NEW sub
          PROVE  /\ Factors(db, SetOidcSub(db, req[p].user, sub))
                 /\ Factors(db, LinkSsoIdentity(db, req[p].user, Provider, sub))
      <3>1. Factors(db, SetOidcSub(db, req[p].user, sub))
        BY <1>1, <2>1, AccountFactors
      <3>2. LinkSsoIdentity(db, req[p].user, Provider, sub).account = db.account
        BY <1>1, OtherTables
      <3> QED BY <3>1, <3>2, FactorsSame
    <2> QED BY <2>2, <2>3, FactorsSame, StatementFactors
  <1> QED BY <1>2, <1>3, <1>4, <1>5, <1>6

LEMMA ClockFactors ==
    ASSUME IInv, SsoStart \/ OidcStart \/ SamlStart \/ Clock
    PROVE  Factors(db, db')
  <1>1. IsDb(db)
    BY DEF IInv
  <1>2. CASE SsoStart \/ OidcStart \/ SamlStart
    BY <1>1, <1>2, TicketTables, FactorsSame DEF SsoStart, OidcStart, SamlStart
  <1>3. CASE Expire
    <2>1. (\E k : db' = [db EXCEPT !.tickets = k]) \/ (\E k : db' = [db EXCEPT !.sessions = k])
      BY <1>3 DEF Expire
    <2>2. db'.account = db.account
      BY <1>1, <2>1 DEF IsDb, TableNames
    <2> QED BY <2>2, FactorsSame
  <1>4. ASSUME NEW u \in Users, Unlock(u) PROVE Factors(db, db')
    BY <1>1, <1>4, AccountFactors DEF Unlock
  <1> QED BY <1>2, <1>3, <1>4 DEF Clock

(* A step that is not an activation turns no factor on. *)
LEMMA OthersFactors ==
    ASSUME IInv, Next, \A p \in Procs : ~TotpActivate(p)
    PROVE  Factors(db, db')
  <1>1. ASSUME NEW p \in Procs, Handlers(p) PROVE Factors(db, db')
    BY <1>1, CreatorFactors, ProfileFactors, EnrollFactors, PasskeyFactors, AdminFactors DEF Handlers
  <1> QED BY <1>1, StatementsFactors, ProviderFactors, ClockFactors DEF Next

(* What a step does to one factor. *)
Proven(d, e, R, u) ==
    LET a == d.account[u]
        b == e.account[u]
    IN  b.totp /\ ~(a.totp /\ a.secret = b.secret) =>
           \E p \in Procs : R[p].op = "activate" /\ R[p].x = b.secret

LEMMA FactorsProven ==
    ASSUME NEW d, NEW e, NEW R, NEW u \in Users, Factors(d, e)
    PROVE  Proven(d, e, R, u)
  BY DEF Factors, Proven

LEMMA ActivateProven ==
    ASSUME IInv, NEW p \in Procs, TotpActivate(p), NEW u \in Users
    PROVE  Proven(db, db', req, u)
  <1> DEFINE yes == TRUE
             r == req[p]
             d == SetTotp(db, r.user, r.seen.secret, yes)
  <1>1. \/ \E s, x : SessionMiddleware(p, s, x)
        \/ db' = db
        \/ r.op = "activate" /\ r.pc = "set" /\ (db' = d \/ db' = db)
    BY DEF TotpActivate, At, Reread, Statement
  <1>2. yes \in BOOLEAN
    OBVIOUS
  <1> HIDE DEF yes
  <1>3. CASE r.op = "activate" /\ r.pc = "set" /\ db' = d
    <2>1. r.user \in Users /\ r.seen.secret = r.x
      BY <1>3, PlacedUser DEF IInv, Requests, Placed, Anonymous
    <2>2. Writes(db, d, r.user) /\ d.account[r.user].secret = r.x
      BY <1>2, <2>1, TotpFacts DEF IInv
    <2> HIDE DEF d
    <2>3. CASE u = r.user
      BY <1>3, <2>2, <2>3 DEF Proven
    <2>4. CASE u # r.user
      BY <1>3, <2>2, <2>4 DEF Proven, Writes
    <2> QED BY <2>3, <2>4
  <1>4. CASE db' = db \/ \E s, x : SessionMiddleware(p, s, x)
    <2>1. Factors(db, db')
      BY <1>4, FactorsSame, MiddlewareFactors
    <2> QED BY <2>1, FactorsProven
  <1> QED BY <1>1, <1>3, <1>4

(* A second factor is only turned on, or given another secret while it is  *)
(* on, by an activation whose client typed a code of that very secret; for *)
(* any number of enrolments and activations that overlap.                  *)
THEOREM ProvenSecretTheorem == Spec => ProvenSecret
  <1>1. ASSUME IInv, Next, NEW u \in Users PROVE Proven(db, db', req, u)
    BY <1>1, OthersFactors, FactorsProven, ActivateProven
  <1>2. IInv /\ [Next]_vars =>
          [\A u \in Users :
             LET a == db.account[u]  b == db'.account[u] IN
             b.totp /\ ~(a.totp /\ a.secret = b.secret) =>
               \E p \in Procs : req[p].op = "activate" /\ req[p].x = b.secret]_vars
    BY <1>1 DEF Proven
  <1> QED BY <1>2, IdentityInvariant, PTL DEF Spec, ProvenSecret
=============================================================================
