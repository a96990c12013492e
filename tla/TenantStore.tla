----------------------------- MODULE TenantStore -----------------------------
(***************************************************************************)
(* The tables of an organization: its row (camelmailer-db/src/pg_store.rs),*)
(* members and invitations (auth_pg.rs), e-mail domains and single sign-on *)
(* connections (org_sso_pg.rs).  Every operator is one SQL statement: it   *)
(* takes the tables and returns the tables after the statement.            *)
(*                                                                         *)
(* An organization is addressed by its permalink and joined by its id; the *)
(* permalink of a deleted one may be taken again, its id may not.          *)
(***************************************************************************)
EXTENDS Naturals, FiniteSets

CONSTANT Permalinks

NoOrg == 0

(* Roles, in their order.  Root is ActingRole(None): not bound to a role.  *)
Viewer == 1  Member == 2  Admin == 3  Owner == 4  Root == 5

(* customer 0 is billing_customer_id IS NULL. *)
NewRow(id) == [id |-> id, tfa |-> FALSE, limit |-> 0, suspended |-> FALSE, customer |-> 0]
NoRow == NewRow(NoOrg)

OrganizationByPermalink(d, l) == d.org[l].id

Live(d, o) == o # NoOrg /\ \E l \in Permalinks : d.org[l].id = o
LinkOf(d, o) == CHOOSE l \in Permalinks : d.org[l].id = o
RowOf(d, o) == IF Live(d, o) THEN d.org[LinkOf(d, o)] ELSE NoRow

(* An UPDATE by id: nothing when the row is gone. *)
SetRow(d, o, row) == IF Live(d, o) THEN [d EXCEPT !.org[LinkOf(d, o)] = row] ELSE d

CreateOrganization(d, l, id) == [d EXCEPT !.org[l] = NewRow(id)]

(* The whole row but policy and customer; of these only the flag changes.  *)
UpdateOrganization(d, o, tfa) == SetRow(d, o, [RowOf(d, o) EXCEPT !.tfa = tfa])

(* ON DELETE CASCADE. *)
DeleteOrganization(d, o) ==
  [d EXCEPT !.org     = [l \in Permalinks |-> IF @[l].id = o THEN NoRow ELSE @[l]],
            !.members = {m \in @ : m.org # o},
            !.invites = {i \in @ : i.org # o},
            !.domains = {x \in @ : x.org # o},
            !.conns   = {c \in @ : c.org # o}]

(* All the columns of the policy at once. *)
SetOrganizationPolicy(d, o, limit, suspended) ==
  SetRow(d, o, [RowOf(d, o) EXCEPT !.limit = limit, !.suspended = suspended])

SetBillingCustomer(d, o, customer) == SetRow(d, o, [RowOf(d, o) EXCEPT !.customer = customer])

----------------------------------------------------------------------------
RoleIn(d, o, u) ==
  LET found == {m \in d.members : m.org = o /\ m.user = u}
  IN  IF found = {} THEN 0 ELSE (CHOOSE m \in found : TRUE).role

Owners(d, o) == {m.user : m \in {x \in d.members : x.org = o /\ x.role = Owner}}

(* INSERT ... ON CONFLICT DO UPDATE: adds the member or writes the role.   *)
(* Both foreign keys must hold.                                            *)
UpsertMembership(d, o, u, role) ==
  [d EXCEPT !.members = {m \in @ : ~(m.org = o /\ m.user = u)}
                          \union {[org |-> o, user |-> u, role |-> role]}]

DeleteMembership(d, o, u) == [d EXCEPT !.members = {m \in @ : ~(m.org = o /\ m.user = u)}]

(* invited_by_user_id references a user: an invitation made with a machine *)
(* key, which has none, cannot be stored.                                  *)
CreateInvitation(d, i) == [d EXCEPT !.invites = @ \union {i}]
MarkInvitationAccepted(d, id) ==
  [d EXCEPT !.invites = {IF i.id = id THEN [i EXCEPT !.accepted = TRUE] ELSE i : i \in @}]
DeleteInvitation(d, o, id) == [d EXCEPT !.invites = {i \in @ : ~(i.id = id /\ i.org = o)}]

(* DELETE FROM users and what it takes along. *)
DeleteAccount(d, u) ==
  [d EXCEPT !.users = @ \ {u},
            !.members = {m \in @ : m.user # u},
            !.invites = {i \in @ : i.by # u},
            !.links = {l \in @ : l.user # u},
            !.sessions = {s \in @ : s.user # u}]

----------------------------------------------------------------------------
(* Unique for the organization, and unique among the verified ones. *)
DomainFree(d, o, name) == ~ \E x \in d.domains : x.org = o /\ x.domain = name
CreateDomain(d, id, o, name) ==
  [d EXCEPT !.domains = @ \union {[id |-> id, org |-> o, domain |-> name, verified |-> FALSE]}]

OrgEmailDomain(d, id) == {x \in d.domains : x.id = id}
VerifiedFree(d, id) ==
  \A x \in OrgEmailDomain(d, id) : ~ \E y \in d.domains \ {x} : y.domain = x.domain /\ y.verified
MarkDomainVerified(d, id) ==
  [d EXCEPT !.domains = {IF x.id = id THEN [x EXCEPT !.verified = TRUE] ELSE x : x \in @}]
DeleteDomain(d, id) == [d EXCEPT !.domains = {x \in @ : x.id # id}]

OrganizationForDomain(d, name) == {x.org : x \in {y \in d.domains : y.verified /\ y.domain = name}}

CreateConnection(d, c) == [d EXCEPT !.conns = @ \union {c}]
OrgSsoConnection(d, id) == {c \in d.conns : c.id = id}

(* COALESCE: what is not given (secret 0, enabled 2) stays. *)
UpdateConnection(d, id, secret, enabled) ==
  [d EXCEPT !.conns = {IF c.id # id THEN c
                       ELSE [c EXCEPT !.secret  = IF secret = 0 THEN @ ELSE secret,
                                      !.enabled = IF enabled = 2 THEN @ ELSE enabled = 1] : c \in @}]

(* The identities linked to it stay: they name it by a string. *)
DeleteConnection(d, id) == [d EXCEPT !.conns = {c \in @ : c.id # id}]

----------------------------------------------------------------------------
(* What the schema says of the tables: their columns, primary keys and     *)
(* unique constraints.  new are the numbers of the rows that are still to  *)
(* be inserted.                                                            *)
Columns(rows, names) == \A x \in rows : x = [f \in names |-> x[f]]

PrimaryKey(rows, new) ==
  /\ \A x \in rows : x.id \notin new
  /\ \A x, y \in rows : x.id = y.id => x = y

OrgsOK(org, next) ==
  /\ next \in Nat \ {0}
  /\ org = [l \in Permalinks |-> org[l]]
  /\ \A l \in Permalinks :
       /\ org[l] = [f \in {"id", "tfa", "limit", "suspended", "customer"} |-> org[l][f]]
       /\ org[l].id \in 0..(next - 1)
  /\ \A k, l \in Permalinks : org[k].id = org[l].id /\ org[l].id # NoOrg => k = l

MembersOK(rows) ==
  /\ \A m \in rows : m.role # 0
  /\ \A m, n \in rows : m.org = n.org /\ m.user = n.user => m = n

InvitesOK(rows, new) ==
  /\ Columns(rows, {"id", "org", "email", "role", "by", "accepted"})
  /\ PrimaryKey(rows, new)
  /\ \A i \in rows : i.role # 0

DomainsOK(rows, new) ==
  Columns(rows, {"id", "org", "domain", "verified"}) /\ PrimaryKey(rows, new)

ConnsOK(rows, new) ==
  /\ Columns(rows, {"id", "org", "kind", "enabled", "role", "provision", "secret"})
  /\ PrimaryKey(rows, {10 + k : k \in new})
  /\ \A c \in rows : c.role # 0

TableNames == {"org", "next", "users", "members", "invites", "domains", "conns", "links",
               "tickets", "sessions"}

StoreOK(d, new) ==
  /\ d = [f \in TableNames |-> d[f]]
  /\ OrgsOK(d.org, d.next)
  /\ MembersOK(d.members)
  /\ InvitesOK(d.invites, new)
  /\ DomainsOK(d.domains, new)
  /\ ConnsOK(d.conns, new)
=============================================================================
