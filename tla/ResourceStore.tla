---------------------------- MODULE ResourceStore ----------------------------
(***************************************************************************)
(* The tables of a server and its resources (camelmailer-db/src/pg_store.rs*)
(* and the foreign keys of the migrations).  Every operator is one SQL     *)
(* statement, or the statements of one transaction: it takes the tables    *)
(* and returns the tables after it.                                        *)
(*                                                                         *)
(* All tables are in one set of rows.                                      *)
(*   up    owner: a server's organization, a resource's server, an IP      *)
(*         address's pool, the server an admin key is limited to           *)
(*   name  permalink, domain name or address                               *)
(*   flag  verified (domain, track domain, sender address); otherwise what *)
(*         takes it out of service: suspended, hold, not enabled, archived *)
(*   val   a column that is edited                                         *)
(*   ref   a route's domain, a template's layout, the pool of a server or  *)
(*         a stream, an admin key's organization                           *)
(*   more  a server's default stream, a domain's second check              *)
(***************************************************************************)
EXTENDS Naturals, FiniteSets

None == 0

Row(t, up, name, ref) ==
  [t |-> t, id |-> 0, up |-> up, name |-> name, flag |-> FALSE, val |-> 0, ref |-> ref, more |-> 0]
NoRow == Row("none", None, "none", None)

Of(d, t)  == {r \in d.rows : r.t = t}
ById(d, id) == {r \in d.rows : r.id = id}
Exists(d, t, id) == \E r \in Of(d, t) : r.id = id

Insert(d, row) == [d EXCEPT !.rows = @ \union {[row EXCEPT !.id = d.next]}, !.next = @ + 1]
Put(d, row)    == [d EXCEPT !.rows = {IF r.id = row.id THEN row ELSE r : r \in @}]
Set(d, id, f(_)) == [d EXCEPT !.rows = {IF r.id = id THEN f(r) ELSE r : r \in @}]

(* UNIQUE constraints.  Credentials, routes, webhooks and pools have none. *)
Free(d, t, up, name) ==
  t \in {"server", "stream", "domain", "track", "sender", "suppression", "template", "layout"} =>
    ~ \E r \in Of(d, t) : r.up = up /\ r.name = name

(* The row a reference leads to. *)
Target(t) == CASE t = "route" -> "domain" [] t = "template" -> "layout"
               [] t \in {"server", "stream"} -> "pool" [] OTHER -> "none"
RowFields == {"t", "id", "up", "name", "flag", "val", "ref", "more"}
IsRow(r) == /\ r = [f \in RowFields |-> r[f]]
            /\ r.id \in Nat /\ r.up \in Nat /\ r.ref \in Nat /\ r.more \in Nat
            /\ r.flag \in BOOLEAN
RefHolds(d, r) == r.ref = None \/ Target(r.t) = "none" \/ Exists(d, Target(r.t), r.ref)

(* ON DELETE SET NULL of references to a row, ON DELETE CASCADE of what it *)
(* owns: except a domain, whose owner is not a foreign key, and a server,  *)
(* whose owner is an organization and no row of these tables.              *)
Delete(d, id) ==
  LET gone == {r.t : r \in ById(d, id)}
      kept == {r \in d.rows : r.id # id /\ (r.t \in {"domain", "server"} \/ r.up # id)}
  IN  [d EXCEPT !.rows = {IF r.ref = id /\ Target(r.t) \in gone THEN [r EXCEPT !.ref = None] ELSE r : r \in kept}]

(* Two statements for a row of its parent: the parent must be there. *)
CanInsert(d, row) ==
  /\ Free(d, row.t, row.up, row.name) /\ RefHolds(d, row)
  /\ row.t \in {"domain", "server", "pool"} \/ row.up = None \/ ById(d, row.up) # {}

----------------------------------------------------------------------------
(* Servers. *)
ServerByPermalink(d, o, l) == {r \in Of(d, "server") : r.up = o /\ r.name = l}
CreateServer(d, o, l)      == Insert(d, Row("server", o, l, None))
SetDefaultStream(d, s, id) == Set(d, s, LAMBDA r : [r EXCEPT !.more = id])
\* every column but the pool
UpdateServer(d, row) == Set(d, row.id, LAMBDA r : [row EXCEPT !.ref = r.ref])
DeleteServer(d, s)   == Delete(d, s)
SetServerIpPool(d, s, pool) == Set(d, s, LAMBDA r : [r EXCEPT !.ref = pool])

AdminApiKeyAuth(d, id) == {r \in Of(d, "key") : r.id = id}
CreateAdminApiKeyRecord(d, o, s) == Insert(d, Row("key", s, "key", o))
DeleteAdminApiKey(d, id) == Delete(d, id)

\* a credential of type API that is not on hold
ServerForApiToken(d, id) ==
  {s \in Of(d, "server") : \E c \in Of(d, "credential") : c.id = id /\ ~c.flag /\ c.up = s.id}

(* Domains and sender addresses. *)
DomainByName(d, s, name) == {r \in Of(d, "domain") : r.up = s /\ r.name = name}
CreateDomain(d, s, name) == Insert(d, Row("domain", s, name, None))
SetVerifiedByName(d, id) ==
  [d EXCEPT !.rows = {IF r.t = "domain" /\ r.name \in {x.name : x \in ById(d, id)}
                      THEN [r EXCEPT !.flag = TRUE] ELSE r : r \in @}]
SetDomainVerified(d, id) == Set(d, id, LAMBDA r : [r EXCEPT !.flag = TRUE])
SetDomainDmarcCheck(d, id, v) == Set(d, id, LAMBDA r : [r EXCEPT !.val = v])
SetDomainSpfCheck(d, id, v)   == Set(d, id, LAMBDA r : [r EXCEPT !.more = v])
DeleteDomain(d, id) == Delete(d, id)

TrackDomainById(d, s, id)     == {r \in Of(d, "track") : r.id = id /\ r.up = s}
CreateTrackDomain(d, s, name) == Insert(d, Row("track", s, name, None))
SetTrackDomainVerified(d, id) == Set(d, id, LAMBDA r : [r EXCEPT !.flag = TRUE])
DeleteTrackDomain(d, id)      == Delete(d, id)

SenderAddressById(d, s, id)     == {r \in Of(d, "sender") : r.id = id /\ r.up = s}
CreateSenderAddress(d, s, name) == Insert(d, Row("sender", s, name, None))
\* its token is the row's own and is erased when it is used
ConfirmSenderAddress(d, token) == Set(d, token, LAMBDA r : [r EXCEPT !.flag = TRUE])
DeleteSenderAddress(d, id)     == Delete(d, id)

(* Credentials, routes and webhooks. *)
CredentialById(d, s, id)  == {r \in Of(d, "credential") : r.id = id /\ r.up = s}
CreateCredential(d, s)    == Insert(d, Row("credential", s, "key", None))
UpdateCredential(d, row)  == Put(d, row)
DeleteCredential(d, id)   == Delete(d, id)

RouteById(d, s, id)     == {r \in Of(d, "route") : r.id = id /\ r.up = s}
CreateRoute(d, s, dom)  == Insert(d, Row("route", s, "route", dom))
\* all columns, the reference to the domain too
UpdateRoute(d, row)     == Put(d, row)
DeleteRoute(d, id)      == Delete(d, id)

WebhookById(d, s, id)  == {r \in Of(d, "webhook") : r.id = id /\ r.up = s}
CreateWebhook(d, s)    == Insert(d, Row("webhook", s, "hook", None))
UpdateWebhook(d, row)  == Put(d, row)
DeleteWebhook(d, id)   == Delete(d, id)

(* Streams, layouts and templates. *)
StreamByPermalink(d, s, l) == {r \in Of(d, "stream") : r.up = s /\ r.name = l}
CreateStream(d, s, l, pool) == Insert(d, Row("stream", s, l, pool))
UpdateStream(d, row)       == Put(d, row)

LayoutByPermalink(d, s, l) == {r \in Of(d, "layout") : r.up = s /\ r.name = l}
CreateLayout(d, s, l)      == Insert(d, Row("layout", s, l, None))
UpdateLayout(d, row)       == Set(d, row.id, LAMBDA r : [r EXCEPT !.val = row.val])
SetLayoutLogo(d, s, id)    == Set(d, id, LAMBDA r : IF r.up = s THEN [r EXCEPT !.more = 1] ELSE r)
DeleteLayout(d, s, id)     == IF \E r \in ById(d, id) : r.up = s THEN Delete(d, id) ELSE d

TemplateByPermalink(d, s, l) == {r \in Of(d, "template") : r.up = s /\ r.name = l}
CreateTemplate(d, s, l, val, layout) == Insert(d, [Row("template", s, l, layout) EXCEPT !.val = val])
UpdateTemplate(d, row)       == Put(d, row)

(* Suppressions: row-level security confines the statements to the server  *)
(* of the tenant context.                                                  *)
NoTenantContext(d, s)   == d.rows
SetTenantContext(d, s)  == {r \in d.rows : r.up = s}
CreateSuppression(d, s, address) == Insert(d, Row("suppression", s, address, None))
DeleteSuppression(d, s, address) ==
  [d EXCEPT !.rows = @ \ {r \in SetTenantContext(d, s) : r.t = "suppression" /\ r.name = address}]

(* An imported message with its deliveries, opens and clicks, in one       *)
(* transaction; it is not queued.                                          *)
ImportMessage(d, s, dom) == Insert(d, Row("message", s, "message", dom))

(* IP pools. *)
IpPoolById(d, id)         == {r \in Of(d, "pool") : r.id = id}
CreateIpPool(d)           == Insert(d, Row("pool", None, "pool", None))
DeleteIpPool(d, id)       == Delete(d, id)
IpAddressById(d, pool, id) == {r \in Of(d, "address") : r.id = id /\ r.up = pool}
CreateIpAddress(d, pool)  == Insert(d, Row("address", pool, "address", None))
DeleteIpAddress(d, id)    == Delete(d, id)
=============================================================================
