------------------------------- MODULE Tenants -------------------------------
(***************************************************************************)
(* Organizations, who may act in them, and how their people sign in        *)
(* (camelmailer-api: app.rs, memberships.rs, quota.rs, billing.rs,         *)
(* org_sso_api.rs, org_sso_login.rs and the invitations of auth_api.rs).   *)
(*                                                                         *)
(* A request is first let through by the middleware, which looks up the    *)
(* organization behind the permalink and the caller's role in it; the      *)
(* handler then looks the permalink up again, makes its tests, and writes. *)
(* Every step is one statement, or a run of reads; requests interleave and *)
(* may end after any step.                                                 *)
(***************************************************************************)
EXTENDS TenantStore, TLC

CONSTANTS Users,        \* addresses
          DomainOf,     \* the domain of an address
          Domains,
          Admins,       \* users.admin
          Factored,     \* users with a second factor
          Disabled,     \* deactivated users
          People,       \* who may come back from a provider: [subject, email]
          Grants,       \* roles that are asked for
          Secrets,      \* client secrets that are set
          Procs,
          Scenes,       \* see Init
          MaxMishaps    \* bound: failing reads, lost clients, deleted accounts

(* The tables a scene starts with obey the schema, and nobody has signed   *)
(* in through a provider yet.                                              *)
ASSUME TenantAssumption ==
  /\ 0 \notin Grants
  /\ \A sc \in Scenes :
       /\ sc.requests \in Nat
       /\ StoreOK(sc.tables, 1..sc.requests)
       /\ \A s \in sc.tables.sessions : s.how # "sso"

VARIABLES db, req, count, mishaps,
          scene,     \* who calls what: [tables, callers, kinds, requests]
          excused,   \* organizations that have no owner for a known reason
          left,      \* <<organization, user>> that have been removed
          proved,    \* <<organization, domain>> that have been verified
          asked      \* what was last asked for, and whether requests overlapped on it

vars == <<db, req, count, mishaps, scene, excused, left, proved, asked>>
ghosts == <<excused, left, proved, asked>>
Quiet  == UNCHANGED <<count, mishaps, scene>>

NoUser == "nobody"
NoConn == [id |-> 0, org |-> NoOrg, kind |-> "oidc", enabled |-> FALSE, role |-> 0,
           provision |-> FALSE, secret |-> 0]
NoCaller == [kind |-> "none", user |-> NoUser, scope |-> NoOrg]
Blank == [op |-> "idle", pc |-> "idle", n |-> 0, by |-> NoCaller, acting |-> 0, auth |-> NoOrg,
          link |-> NoUser, org |-> NoOrg, user |-> NoUser, role |-> 0, x |-> 0, y |-> 0,
          seen |-> {}, made |-> FALSE, conn |-> NoConn, subject |-> 0]

(* A scene is a state of the tables, the callers there are (sessions and   *)
(* machine keys: [kind, user, scope]), the requests they make and how many *)
(* of them, which bounds the behaviour.                                    *)
Init ==
  /\ scene \in Scenes
  /\ db = scene.tables
  /\ req = [p \in Procs |-> Blank]
  /\ count = 0 /\ mishaps = 0
  /\ excused = {db.org[l].id : l \in Permalinks} \ {m.org : m \in {x \in db.members : x.role = Owner}}
  /\ left = {}
  /\ proved = {<<x.org, x.domain>> : x \in {y \in db.domains : y.verified}}
  /\ asked = <<>>

----------------------------------------------------------------------------
(* The middleware. *)

RequiredRole(resource) ==
  CASE resource \in {"members", "invitations", "sso", "billing"} -> Admin
    [] resource \in {"organization", "limits"} -> Owner

(* A scoped key reaches its own organization only. *)
KeyScopeAllows(c, l) ==
  c.scope = NoOrg \/ (OrganizationByPermalink(db, l) = c.scope)

IsRoot(c) == IF c.kind = "key" THEN c.scope = NoOrg ELSE c.user \in Admins

(* 0 when the request is refused. *)
ActingRole(c, l, resource) ==
  LET o    == OrganizationByPermalink(db, l)
      role == RoleIn(db, o, c.user)
  IN  IF c.kind = "key" THEN IF KeyScopeAllows(c, l) THEN Root ELSE 0
      ELSE IF RowOf(db, o).tfa /\ c.user \notin Factored THEN 0
      ELSE IF c.user \in Admins THEN Root
      ELSE IF role >= RequiredRole(resource) THEN role ELSE 0

IsOwner(r) == r.acting \in {Owner, Root}

Ready(p, op) == req[p].op = "idle" /\ op \in scene.kinds /\ count < scene.requests

Enter(p, r) ==
  /\ Ready(p, r.op)
  /\ count' = count + 1
  /\ req' = [req EXCEPT ![p] = [r EXCEPT !.n = count + 1]]
  /\ UNCHANGED <<mishaps, scene>>

AuthMiddleware(p, resource, r) ==
  Ready(p, r.op) /\ \E c \in scene.callers, l \in Permalinks :
    /\ c.kind = "user" => c.user \in db.users
    /\ ActingRole(c, l, resource) # 0
    /\ Enter(p, [r EXCEPT !.by = c, !.acting = ActingRole(c, l, resource), !.link = l,
                          !.auth = OrganizationByPermalink(db, l), !.pc = "find"])
    /\ db' = db /\ UNCHANGED ghosts

At(p, op, pc) == req[p].op = op /\ req[p].pc = pc
Answer(p)     == req' = [req EXCEPT ![p] = Blank]
Goto(p, pc)   == IF pc = "done" THEN Answer(p) ELSE req' = [req EXCEPT ![p].pc = pc]

(* find_organization and the reads of the handler: it goes on with r, or   *)
(* answers when a test refuses.                                            *)
Find(p, test, r) ==
  LET o == OrganizationByPermalink(db, req[p].link) IN
  /\ IF o # NoOrg /\ test THEN req' = [req EXCEPT ![p] = [r EXCEPT !.org = o]] ELSE Answer(p)
  /\ db' = db /\ Quiet /\ UNCHANGED ghosts

Found(p) == OrganizationByPermalink(db, req[p].link)

(* A statement, in force when its foreign keys hold. *)
Statement(p, keys, d, pc) ==
  /\ IF keys THEN db' = d /\ Goto(p, pc) ELSE db' = db /\ Answer(p)
  /\ Quiet

(* The client hangs up, or a statement fails and the handler returns. *)
Abandon(p) ==
  /\ req[p].op # "idle" /\ mishaps < MaxMishaps
  /\ mishaps' = mishaps + 1
  /\ Answer(p)
  /\ db' = db /\ UNCHANGED <<count, scene>> /\ UNCHANGED ghosts

(* An organization is excused from having an owner until it has one. *)
Excuse(orgs) == excused' = {o \in excused \union orgs : Owners(db', o) = {}}

(* users_destroy; an account may be an organization's last owner. *)
UsersDestroy(u) ==
  /\ u \in db.users /\ mishaps < MaxMishaps
  /\ mishaps' = mishaps + 1
  /\ db' = DeleteAccount(db, u)
  /\ Excuse({m.org : m \in {x \in db.members : x.user = u}})
  /\ left' = left \union {<<m.org, u>> : m \in {x \in db.members : x.user = u}}
  /\ UNCHANGED <<req, count, scene, proved, asked>>

----------------------------------------------------------------------------
(* Members.  seen holds the owners as the request believes them to be when *)
(* it makes its tests; a write that meets others has been overtaken.       *)
Overtaken(p) == Owners(db, req[p].org) # req[p].seen

MemberWrite(p, d, pc) ==
  LET r == req[p] IN
  /\ Statement(p, Live(db, r.org) /\ r.user \in db.users, d, pc)
  /\ Excuse(IF Overtaken(p) THEN {r.org} ELSE {})
  /\ UNCHANGED <<left, proved, asked>>

MembersCreate(p) ==
  \/ \E u \in Users, role \in Grants :
       AuthMiddleware(p, "members", [Blank EXCEPT !.op = "add", !.user = u, !.role = role])
  \/ LET r == req[p] IN
     /\ At(p, "add", "find")
     /\ \/ Find(p, /\ r.role = Owner => IsOwner(r)
                   /\ r.user \in db.users
                   /\ RoleIn(db, Found(p), r.user) = 0,
                [r EXCEPT !.pc = "write", !.seen = Owners(db, Found(p))])
        \/ \* the membership cannot be read: taken for a newcomer
           /\ mishaps < MaxMishaps /\ Found(p) # NoOrg /\ r.user \in db.users
           /\ r.role = Owner => IsOwner(r)
           /\ mishaps' = mishaps + 1
           /\ req' = [req EXCEPT ![p].pc = "write", ![p].org = Found(p),
                                 ![p].seen = Owners(db, Found(p)) \ {r.user}]
           /\ db' = db /\ UNCHANGED <<count, scene>> /\ UNCHANGED ghosts
  \/ /\ At(p, "add", "write")
     /\ MemberWrite(p, UpsertMembership(db, req[p].org, req[p].user, req[p].role), "done")

(* Mutant: the owner being demoted is not counted. *)
OwnerCountPlus(o) == Cardinality(Owners(db, o)) + 1

OwnerCount(o) == Cardinality(Owners(db, o))

CountOwners(p) ==
  /\ req[p].pc = "count"
  /\ IF OwnerCount(req[p].org) <= 1 THEN Answer(p)
     ELSE req' = [req EXCEPT ![p].pc = "write", ![p].seen = Owners(db, req[p].org)]
  /\ db' = db /\ Quiet /\ UNCHANGED ghosts

MembersUpdate(p) ==
  \/ \E u \in Users, role \in Grants :
       AuthMiddleware(p, "members", [Blank EXCEPT !.op = "role", !.user = u, !.role = role])
  \/ LET r == req[p]
         e == RoleIn(db, Found(p), r.user)
     IN  /\ At(p, "role", "find")
         /\ Find(p, e # 0 /\ (Owner \in {e, r.role} => IsOwner(r)),
                 [r EXCEPT !.pc = IF e = Owner /\ r.role # Owner THEN "count" ELSE "write",
                           !.seen = Owners(db, Found(p))])
  \/ /\ At(p, "role", "write")
     /\ MemberWrite(p, UpsertMembership(db, req[p].org, req[p].user, req[p].role), "done")

MembersDestroy(p) ==
  \/ \E u \in Users : AuthMiddleware(p, "members", [Blank EXCEPT !.op = "remove", !.user = u])
  \/ LET r == req[p]
         e == RoleIn(db, Found(p), r.user)
     IN  /\ At(p, "remove", "find")
         /\ Find(p, e # 0 /\ (e = Owner => IsOwner(r)),
                 [r EXCEPT !.pc = IF e = Owner THEN "count" ELSE "write",
                           !.seen = Owners(db, Found(p))])
  \/ LET r == req[p] IN
     /\ At(p, "remove", "write")
     /\ db' = DeleteMembership(db, r.org, r.user) /\ Answer(p) /\ Quiet
     /\ Excuse(IF Overtaken(p) THEN {r.org} ELSE {})
     /\ left' = left \union {<<r.org, r.user>>}
     /\ UNCHANGED <<proved, asked>>

----------------------------------------------------------------------------
(* Invitations. *)
InvitationsCreate(p) ==
  \/ \E u \in Users, role \in Grants :
       AuthMiddleware(p, "invitations", [Blank EXCEPT !.op = "invite", !.user = u, !.role = role])
  \/ LET r == req[p] IN
     /\ At(p, "invite", "find")
     /\ Find(p, (r.role = Owner => IsOwner(r)) /\ RoleIn(db, Found(p), r.user) = 0,
             [r EXCEPT !.pc = "write"])
  \/ LET r == req[p] IN
     /\ At(p, "invite", "write")
     /\ Statement(p, Live(db, r.org) /\ r.by.user \in db.users,
                  CreateInvitation(db, [id |-> r.n, org |-> r.org, email |-> r.user, role |-> r.role,
                                        by |-> r.by.user, accepted |-> FALSE]), "done")
     /\ UNCHANGED ghosts

InvitationsDestroy(p) ==
  \/ \E i \in db.invites : AuthMiddleware(p, "invitations", [Blank EXCEPT !.op = "uninvite", !.x = i.id])
  \/ At(p, "uninvite", "find") /\ Find(p, TRUE, [req[p] EXCEPT !.pc = "write"])
  \/ /\ At(p, "uninvite", "write")
     /\ db' = DeleteInvitation(db, req[p].org, req[p].x)
     /\ Answer(p) /\ Quiet /\ UNCHANGED ghosts

(* The holder of the link.  Whoever has an account joins with it, and the  *)
(* role of the invitation replaces the one the account may have by now.    *)
InvitationAccept(p) ==
  \/ \E i \in db.invites :
       /\ ~i.accepted
       /\ Enter(p, [Blank EXCEPT !.op = "accept", !.pc = IF i.email \in db.users THEN "join" ELSE "create",
                                 !.user = i.email, !.role = i.role, !.org = i.org, !.auth = i.org,
                                 !.x = i.id, !.seen = Owners(db, i.org) \ {i.email}])
       /\ db' = db /\ UNCHANGED ghosts
  \/ /\ At(p, "accept", "join")
     /\ MemberWrite(p, UpsertMembership(db, req[p].org, req[p].user, req[p].role), "mark")
  \/ /\ At(p, "accept", "mark")
     /\ db' = MarkInvitationAccepted(db, req[p].x)
     /\ Goto(p, IF req[p].made THEN "issue" ELSE "done") /\ Quiet /\ UNCHANGED ghosts

(* create_user, for an invitation or a sign-on; the e-mail is unique. *)
CreateAccount(p) ==
  LET r == req[p] IN
  /\ r.pc = "create"
  /\ IF r.user \in db.users THEN db' = db /\ Answer(p)
     ELSE /\ db' = [db EXCEPT !.users = @ \union {r.user}]
          /\ req' = [req EXCEPT ![p].made = TRUE, ![p].pc = IF r.op = "accept" THEN "join" ELSE "link"]
  /\ Quiet /\ UNCHANGED ghosts

----------------------------------------------------------------------------
(* The organization itself. *)

(* A user becomes the owner in a second statement; a key leaves none. *)
OrganizationsCreate(p) ==
  \/ \E c \in scene.callers, l \in Permalinks :
       /\ db.org[l] = NoRow /\ (c.kind = "key" => IsRoot(c)) /\ (c.kind = "user" => c.user \in db.users)
       /\ Enter(p, [Blank EXCEPT !.op = "found", !.pc = IF c.kind = "key" THEN "done" ELSE "join",
                                 !.by = c, !.user = c.user, !.role = Owner, !.link = l,
                                 !.org = db.next, !.auth = db.next])
       /\ db' = [CreateOrganization(db, l, db.next) EXCEPT !.next = @ + 1]
       /\ Excuse({db.next}) /\ UNCHANGED <<left, proved, asked>>
  \/ /\ At(p, "found", "join")
     /\ MemberWrite(p, UpsertMembership(db, req[p].org, req[p].user, Owner), "done")
  \/ At(p, "found", "done") /\ Answer(p) /\ db' = db /\ Quiet /\ UNCHANGED ghosts

OrganizationsUpdate(p) ==
  \/ \E on \in 0..1 : AuthMiddleware(p, "organization", [Blank EXCEPT !.op = "tfa", !.x = on])
  \/ At(p, "tfa", "find") /\ Find(p, TRUE, [req[p] EXCEPT !.pc = "write"])
  \/ /\ At(p, "tfa", "write")
     /\ db' = UpdateOrganization(db, req[p].org, req[p].x = 1)
     /\ Answer(p) /\ Quiet /\ UNCHANGED ghosts

OrganizationsDestroy(p) ==
  \/ AuthMiddleware(p, "organization", [Blank EXCEPT !.op = "raze"])
  \/ At(p, "raze", "find") /\ Find(p, TRUE, [req[p] EXCEPT !.pc = "write"])
  \/ LET o == req[p].org IN
     /\ At(p, "raze", "write")
     /\ db' = DeleteOrganization(db, o)
     /\ left' = left \union {<<o, m.user>> : m \in {x \in db.members : x.org = o}}
     /\ Answer(p) /\ Quiet /\ UNCHANGED <<excused, proved, asked>>

----------------------------------------------------------------------------
(* Settings that are read, changed in one field, and written back whole.   *)
(* what names the field; the write is overtaken when the row it was        *)
(* computed from is no longer the row in the table.                        *)
Ask(what, value, overtaken) ==
  asked' = [w \in DOMAIN asked \union {what} |->
              IF w = what THEN [want |-> value, overlap |-> overtaken]
              ELSE IF overtaken /\ w[2] = what[2] THEN [asked[w] EXCEPT !.overlap = TRUE] ELSE asked[w]]

(* Limits and suspension, for installation administrators; x is the new    *)
(* limit or, when y is 1 or 2, the suspension is set or lifted.            *)
LimitsUpdate(p) ==
  \E x \in 0..1, y \in 0..2 :
    /\ y # 0 => x = 0
    /\ AuthMiddleware(p, "limits", [Blank EXCEPT !.op = "limits", !.x = x, !.y = y])
OrganizationSuspend(p)   == AuthMiddleware(p, "limits", [Blank EXCEPT !.op = "limits", !.y = 1])
OrganizationUnsuspend(p) == AuthMiddleware(p, "limits", [Blank EXCEPT !.op = "limits", !.y = 2])

ApplyPolicy(p) ==
  \/ LET r == req[p] IN
     /\ At(p, "limits", "find")
     /\ Find(p, IsRoot(r.by), [r EXCEPT !.pc = "write", !.seen = {RowOf(db, Found(p))}])
  \/ LET r   == req[p]
         row == CHOOSE w \in r.seen : TRUE
     IN  /\ At(p, "limits", "write")
         /\ Statement(p, Live(db, r.org),
                      SetOrganizationPolicy(db, r.org, IF r.y = 0 THEN r.x ELSE row.limit,
                                            IF r.y = 0 THEN row.suspended ELSE r.y = 1), "done")
         /\ IF r.y = 0 THEN Ask(<<"limit", r.org>>, r.x, r.seen # {RowOf(db, r.org)})
            ELSE Ask(<<"suspended", r.org>>, r.y = 1, r.seen # {RowOf(db, r.org)})
         /\ UNCHANGED <<excused, left, proved>>

(* Checkout, portal and usage: the provider's customer is made on first    *)
(* use, and stored when the provider has answered.                         *)
BillingCheckout(p)     == AuthMiddleware(p, "billing", [Blank EXCEPT !.op = "billing"])
BillingPortal(p)       == BillingCheckout(p)
BillingUsageSession(p) == BillingCheckout(p)

BillingOrganization(p) ==
  \/ LET row == RowOf(db, Found(p)) IN
     /\ At(p, "billing", "find")
     /\ Find(p, TRUE, [req[p] EXCEPT !.pc = IF row.customer = 0 THEN "customer" ELSE "session",
                                     !.x = row.customer])
  \/ LET r == req[p] IN
     /\ At(p, "billing", "customer")
     /\ Statement(p, Live(db, r.org), SetBillingCustomer(db, r.org, r.n), "session")
     /\ Ask(<<"customer", r.org>>, r.n, RowOf(db, r.org).customer # 0)
     /\ UNCHANGED <<excused, left, proved>>
  \/ At(p, "billing", "session") /\ Answer(p) /\ db' = db /\ Quiet /\ UNCHANGED ghosts
=============================================================================
