------------------------------ MODULE TenantSso ------------------------------
(***************************************************************************)
(* Single sign-on of an organization: its configuration (org_sso_api.rs)   *)
(* and the sign-in of its people (org_sso_login.rs).                       *)
(***************************************************************************)
EXTENDS Tenants

(* A row that is addressed by its id must be of the organization in the    *)
(* path.                                                                   *)
Belongs(p, rows) == \E x \in rows : x.org = Found(p)

----------------------------------------------------------------------------
SsoDomainsCreate(p) ==
  \/ \E name \in Domains :
       AuthMiddleware(p, "sso", [Blank EXCEPT !.op = "claim", !.user = name])
  \/ At(p, "claim", "find") /\ Find(p, TRUE, [req[p] EXCEPT !.pc = "write"])
  \/ LET r == req[p] IN
     /\ At(p, "claim", "write")
     /\ Statement(p, Live(db, r.org) /\ DomainFree(db, r.org, r.user),
                  CreateDomain(db, r.n, r.org, r.user), "done")
     /\ UNCHANGED ghosts

(* Mutant: the domain may be another organization's. *)
VerifyAny(p) ==
  LET r == req[p] IN
  /\ At(p, "verify", "find")
  /\ Find(p, OrgEmailDomain(db, r.x) # {} /\ (r.y = 1 => r.by.kind = "key"), [r EXCEPT !.pc = "write"])

(* The TXT record is there (its test is the choice to go on), or the check *)
(* is waived with a machine key, scoped or not (y = 1).                    *)
VerifyFind(p) ==
  LET r == req[p] IN
  /\ At(p, "verify", "find")
  /\ Find(p, Belongs(p, OrgEmailDomain(db, r.x)) /\ (r.y = 1 => r.by.kind = "key"), [r EXCEPT !.pc = "write"])

SsoDomainsVerify(p) ==
  \/ \E x \in db.domains, force \in 0..1 :
       AuthMiddleware(p, "sso", [Blank EXCEPT !.op = "verify", !.x = x.id, !.y = force])
  \/ VerifyFind(p)
  \/ LET r == req[p] IN
     /\ At(p, "verify", "write")
     /\ Statement(p, VerifiedFree(db, r.x), MarkDomainVerified(db, r.x), "done")
     /\ proved' = proved \union {<<x.org, x.domain>> : x \in {y \in db'.domains : y.verified}}
     /\ UNCHANGED <<excused, left, asked>>

SsoDomainsDestroy(p) ==
  \/ \E x \in db.domains : AuthMiddleware(p, "sso", [Blank EXCEPT !.op = "disclaim", !.x = x.id])
  \/ At(p, "disclaim", "find") /\ Find(p, Belongs(p, OrgEmailDomain(db, req[p].x)), [req[p] EXCEPT !.pc = "write"])
  \/ /\ At(p, "disclaim", "write")
     /\ db' = DeleteDomain(db, req[p].x) /\ Answer(p) /\ Quiet /\ UNCHANGED ghosts

(* Any role may be a connection's default, the owner's included. *)
SsoConnectionsCreate(p) ==
  \/ \E role \in Grants, secret \in Secrets :
       AuthMiddleware(p, "sso", [Blank EXCEPT !.op = "connect", !.role = role, !.x = secret])
  \/ At(p, "connect", "find") /\ Find(p, TRUE, [req[p] EXCEPT !.pc = "write"])
  \/ LET r == req[p] IN
     /\ At(p, "connect", "write")
     /\ Statement(p, Live(db, r.org),
                  CreateConnection(db, [id |-> 10 + r.n, org |-> r.org, kind |-> "oidc", enabled |-> TRUE,
                                        role |-> r.role, provision |-> TRUE, secret |-> r.x]), "done")
     /\ UNCHANGED ghosts

(* Mutant: the mask the form shows is taken for the secret. *)
MaskForSecret(incoming, stored) == IF incoming = 0 THEN 99 ELSE incoming

(* A secret that is absent, empty or masked (0) keeps the stored one. *)
MergeSecrets(incoming, stored) == IF incoming = 0 THEN stored ELSE incoming

(* x is the connection; role the new "enabled", or 3 when the request      *)
(* carries a configuration with the secret y, masked when y is 0.          *)
SsoConnectionsUpdate(p) ==
  \/ \E c \in db.conns, part \in {0, 1, 3}, secret \in Secrets \union {0} :
       /\ part # 3 => secret = 0
       /\ AuthMiddleware(p, "sso", [Blank EXCEPT !.op = "edit", !.x = c.id, !.role = part, !.y = secret])
  \/ /\ At(p, "edit", "find")
     /\ Find(p, Belongs(p, OrgSsoConnection(db, req[p].x)),
             [req[p] EXCEPT !.pc = "write", !.seen = OrgSsoConnection(db, req[p].x)])
  \/ LET r     == req[p]
         was   == CHOOSE c \in r.seen : TRUE
         stale == {c.secret : c \in OrgSsoConnection(db, r.x)} # {was.secret}
     IN  /\ At(p, "edit", "write")
         /\ db' = IF r.role = 3 THEN UpdateConnection(db, r.x, MergeSecrets(r.y, was.secret), 2)
                  ELSE UpdateConnection(db, r.x, 0, r.role)
         /\ Answer(p) /\ Quiet
         /\ IF r.role # 3 THEN UNCHANGED asked
            ELSE Ask(<<"secret", r.x>>, IF r.y = 0 THEN was.secret ELSE r.y, stale)
         /\ UNCHANGED <<excused, left, proved>>

SsoConnectionsDestroy(p) ==
  \/ \E c \in db.conns : AuthMiddleware(p, "sso", [Blank EXCEPT !.op = "cut", !.x = c.id])
  \/ At(p, "cut", "find") /\ Find(p, Belongs(p, OrgSsoConnection(db, req[p].x)), [req[p] EXCEPT !.pc = "write"])
  \/ /\ At(p, "cut", "write")
     /\ db' = DeleteConnection(db, req[p].x) /\ Answer(p) /\ Quiet /\ UNCHANGED ghosts

----------------------------------------------------------------------------
(* Signing in.  The login state, or the id of the SAML request, names the  *)
(* connection it was made for.                                             *)
LoadEnabledConnection(id) == {c \in OrgSsoConnection(db, id) : c.enabled}

Start(kind) ==
  \E c \in db.conns :
    /\ c.enabled /\ c.kind = kind /\ "sso" \in scene.kinds /\ count < scene.requests
    /\ count' = count + 1
    /\ db' = [db EXCEPT !.tickets = @ \union {[id |-> count + 1, conn |-> c.id]}]
    /\ UNCHANGED <<req, mishaps, scene>> /\ UNCHANGED ghosts

OrgStart     == Start("oidc")
SamlOrgStart == Start("saml")

(* The login state is consumed, then the connection is loaded; GitHub's    *)
(* answer or the ID token says who came back.                              *)
OrgCallback(p) ==
  \/ \E t \in db.tickets, w \in People :
       /\ Enter(p, [Blank EXCEPT !.op = "sso", !.pc = "conn", !.x = t.conn,
                                 !.subject = w.subject, !.user = w.email])
       /\ \E c \in db.conns : c.id = t.conn /\ c.kind = "oidc"
       /\ db' = [db EXCEPT !.tickets = @ \ {t}] /\ UNCHANGED ghosts
  \/ LET found == LoadEnabledConnection(req[p].x) IN
     /\ At(p, "sso", "conn")
     /\ IF found = {} THEN Answer(p)
        ELSE \E c \in found : req' = [req EXCEPT ![p].conn = c, ![p].org = c.org, ![p].auth = c.org, ![p].pc = "domain"]
     /\ db' = db /\ Quiet /\ UNCHANGED ghosts

(* The connection RelayState names is loaded first; the response must      *)
(* answer a request of that same connection.                               *)
OrgAcs(p) ==
  \/ \E relay \in db.conns, t \in db.tickets, w \in People :
       /\ relay.enabled /\ relay.kind = "saml"
       /\ t.conn = relay.id
       /\ Enter(p, [Blank EXCEPT !.op = "sso", !.pc = "consume", !.conn = relay, !.org = relay.org,
                                 !.auth = relay.org, !.x = t.id, !.subject = w.subject, !.user = w.email])
       /\ db' = db /\ UNCHANGED ghosts
  \/ LET mine == {t \in db.tickets : t.id = req[p].x} IN
     /\ At(p, "sso", "consume")
     /\ Statement(p, mine # {}, [db EXCEPT !.tickets = @ \ mine], "domain")
     /\ UNCHANGED ghosts

(* Mutant: any organization's verified domain will do. *)
VerifiedSomewhere(p) ==
  LET r == req[p] IN
  /\ At(p, "sso", "domain")
  /\ IF OrganizationForDomain(db, DomainOf[r.user]) # {} THEN Goto(p, "account") ELSE Answer(p)
  /\ db' = db /\ Quiet /\ UNCHANGED ghosts

VerifiedHere(p) ==
  LET r == req[p] IN
  /\ At(p, "sso", "domain")
  /\ IF OrganizationForDomain(db, DomainOf[r.user]) = {r.conn.org} THEN Goto(p, "account") ELSE Answer(p)
  /\ db' = db /\ Quiet /\ UNCHANGED ghosts

(* The account that is linked to this connection, else the one with the    *)
(* address, else a new one.  A deactivated one is refused.                 *)
ResolveOrgUser(p) ==
  LET r      == req[p]
      linked == {l.user : l \in {x \in db.links : x.conn = r.conn.id /\ x.subject = r.subject}}
      As(u, pc) == IF u \in Disabled THEN Answer(p) ELSE req' = [req EXCEPT ![p].user = u, ![p].pc = pc]
  IN  \/ /\ At(p, "sso", "account")
         /\ \/ \E u \in linked : As(u, "member")
            \/ linked = {} /\ r.user \in db.users /\ As(r.user, "link")
            \/ linked = {} /\ r.user \notin db.users
               /\ Goto(p, IF r.conn.provision THEN "create" ELSE "done")
         /\ db' = db /\ Quiet /\ UNCHANGED ghosts
      \/ /\ At(p, "sso", "link")
         /\ Statement(p, r.user \in db.users /\ linked \subseteq {r.user},
                      [db EXCEPT !.links = {l \in @ : ~(l.conn = r.conn.id /\ l.user = r.user)}
                                  \union {[conn |-> r.conn.id, subject |-> r.subject, user |-> r.user]}],
                      IF r.made THEN "join" ELSE "member")
         /\ UNCHANGED ghosts

(* Who is no member joins with the default role.  The owners of before     *)
(* this read are what the write believes in.                               *)
EnsureMembership(p) ==
  \/ LET r == req[p] IN
     /\ At(p, "sso", "member")
     /\ req' = [req EXCEPT ![p].pc = IF RoleIn(db, r.org, r.user) = 0 THEN "join" ELSE "issue",
                           ![p].seen = Owners(db, r.org)]
     /\ db' = db /\ Quiet /\ UNCHANGED ghosts
  \/ /\ At(p, "sso", "join")
     /\ MemberWrite(p, UpsertMembership(db, req[p].org, req[p].user, req[p].conn.role), "issue")

(* complete_login and the end of invitation_accept. *)
CompleteLogin(p) ==
  LET r == req[p] IN
  /\ r.pc = "issue"
  /\ Statement(p, r.user \in db.users,
               [db EXCEPT !.sessions = @ \union {[user |-> r.user, org |-> r.org, how |-> r.op, claim |-> r.subject]}],
               "done")
  /\ UNCHANGED ghosts

----------------------------------------------------------------------------
Next ==
  \/ \E p \in Procs :
       \/ Abandon(p) \/ CountOwners(p) \/ CreateAccount(p) \/ CompleteLogin(p)
       \/ MembersCreate(p) \/ MembersUpdate(p) \/ MembersDestroy(p)
       \/ InvitationsCreate(p) \/ InvitationsDestroy(p) \/ InvitationAccept(p)
       \/ OrganizationsCreate(p) \/ OrganizationsUpdate(p) \/ OrganizationsDestroy(p)
       \/ LimitsUpdate(p) \/ OrganizationSuspend(p) \/ OrganizationUnsuspend(p) \/ ApplyPolicy(p)
       \/ BillingCheckout(p) \/ BillingPortal(p) \/ BillingUsageSession(p) \/ BillingOrganization(p)
       \/ SsoDomainsCreate(p) \/ SsoDomainsVerify(p) \/ SsoDomainsDestroy(p)
       \/ SsoConnectionsCreate(p) \/ SsoConnectionsUpdate(p) \/ SsoConnectionsDestroy(p)
       \/ OrgCallback(p) \/ OrgAcs(p) \/ VerifiedHere(p) \/ ResolveOrgUser(p) \/ EnsureMembership(p)
  \/ OrgStart \/ SamlOrgStart
  \/ \E u \in Users : UsersDestroy(u)

Spec == Init /\ [][Next]_vars

----------------------------------------------------------------------------
(* An organization that has an owner keeps one (members_update and         *)
(* members_destroy refuse to take the last), unless the owners changed     *)
(* between a request's tests and its write, an invitation or a failed read *)
(* took an owner for a newcomer, or the owner's account was deleted.       *)
OwnerRemains ==
  \A l \in Permalinks :
    LET o == db.org[l].id IN o # NoOrg => Owners(db, o) # {} \/ o \in excused

(* The rows of an organization, as tables without the others'. *)
RowsOf(d, o) ==
  <<RowOf(d, o), {m \in d.members : m.org = o}, {i \in d.invites : i.org = o},
    {x \in d.domains : x.org = o}, {c \in d.conns : c.org = o}>>

(* A request changes rows of the organization it was let into and of no    *)
(* other, whatever ids it names: unless that organization has gone and     *)
(* its permalink is another's when the handler looks it up again.          *)
WithinScope ==
  [][\A p \in Procs, l \in Permalinks :
       LET o == db.org[l].id IN
       req[p].op # "idle" /\ req[p] # req'[p] /\ o # NoOrg /\ RowsOf(db, o) # RowsOf(db', o) =>
         req[p].auth = o \/ (req[p].org = o /\ ~Live(db, req[p].auth))]_vars

(* Whoever signs in through an organization's provider is one of its       *)
(* members, or was until somebody removed them, and came with an address   *)
(* in a domain this organization has proved to be its own.                 *)
SsoInsideTenant ==
  \A s \in {x \in db.sessions : x.how = "sso"} :
    /\ RoleIn(db, s.org, s.user) # 0 \/ <<s.org, s.user>> \in left
    /\ \E w \in People : w.subject = s.claim /\ <<s.org, DomainOf[w.email]>> \in proved

(* What was last asked for holds: a limit, a suspension, a billing         *)
(* customer or a client secret is undone by a change of another field only *)
(* when the two overlapped.                                                *)
ValueOf(what) ==
  CASE what[1] = "limit" -> {RowOf(db, what[2]).limit}
    [] what[1] = "suspended" -> {RowOf(db, what[2]).suspended}
    [] what[1] = "customer" -> {RowOf(db, what[2]).customer}
    [] what[1] = "secret" -> {c.secret : c \in OrgSsoConnection(db, what[2])}

LastWordHolds ==
  \A what \in DOMAIN asked :
    \/ asked[what].overlap
    \/ ValueOf(what) \subseteq {asked[what].want}
    \/ what[1] # "secret" /\ ~Live(db, what[2])
=============================================================================
