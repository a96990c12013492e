----------------------------- MODULE ResourceApi -----------------------------
(***************************************************************************)
(* The rest of a server's resources: credentials, routes, webhooks,        *)
(* suppressions, imports, template copies and IP pools (resources.rs), and *)
(* the streams, layouts and templates of the messaging API                 *)
(* (server_api.rs), whose requests are authenticated by a credential.      *)
(***************************************************************************)
EXTENDS Resources

(* A credential that is on hold, or whose server is suspended, is refused. *)
ServerAuthMiddleware(p, op) ==
  Ready(p, op) /\ \E c \in Ids("credential"), s \in Of(db, "server") :
    /\ s \in ServerForApiToken(db, c) /\ ~s.flag
    /\ Enter(p, [Blank EXCEPT !.op = op, !.pc = "do", !.srv = s])

(* A whole row is written back. *)
Rewrite(p, op, update(_, _), asks) ==
  /\ At(p, op, "write")
  /\ \E ask \in asks :
       LET row == Edited(req[p].row, ask) IN
       /\ Statement(p, RefHolds(db, row), update(db, row), "done")
       /\ Note(p, row.id, IF RefHolds(db, row) THEN ask ELSE "none")

CredentialsCreate(p) ==
  Begin(p, "credentials_create")
    \/ Create(p, "credentials_create", Row("credential", S(p), "key", None), CreateCredential(db, S(p)))

RequireCredential(p, op) == \E id \in Ids("credential") : Require(p, op, CredentialById(db, S(p), id), "write")

CredentialsUpdate(p) ==
  \/ Begin(p, "credentials_update") \/ RequireCredential(p, "credentials_update")
  \/ Rewrite(p, "credentials_update", UpdateCredential, Asks)
CredentialsDestroy(p) ==
  \/ Begin(p, "credentials_destroy") \/ RequireCredential(p, "credentials_destroy")
  \/ At(p, "credentials_destroy", "write") /\ Write(p, TRUE, DeleteCredential(db, req[p].row.id))

(* The domain of a route is looked up among the server's. *)
RoutesCreate(p) ==
  \/ Begin(p, "routes_create") \/ RequireDomain(p, "routes_create", "write")
  \/ /\ At(p, "routes_create", "write")
     /\ Write(p, CanInsert(db, Row("route", S(p), "route", req[p].row.id)), CreateRoute(db, S(p), req[p].row.id))
  \/ Create(p, "routes_create", Row("route", S(p), "route", None), CreateRoute(db, S(p), None))

RequireRoute(p, op) == \E id \in Ids("route") : Require(p, op, RouteById(db, S(p), id), "write")

RoutesUpdate(p) ==
  \/ Begin(p, "routes_update") \/ RequireRoute(p, "routes_update")
  \/ Rewrite(p, "routes_update", UpdateRoute, {"none"})
RoutesDestroy(p) ==
  \/ Begin(p, "routes_destroy") \/ RequireRoute(p, "routes_destroy")
  \/ At(p, "routes_destroy", "write") /\ Write(p, TRUE, DeleteRoute(db, req[p].row.id))

WebhooksCreate(p) ==
  Begin(p, "webhooks_create")
    \/ Create(p, "webhooks_create", Row("webhook", S(p), "hook", None), CreateWebhook(db, S(p)))

RequireWebhook(p, op) == \E id \in Ids("webhook") : Require(p, op, WebhookById(db, S(p), id), "write")

WebhooksUpdate(p) ==
  \/ Begin(p, "webhooks_update") \/ RequireWebhook(p, "webhooks_update")
  \/ Rewrite(p, "webhooks_update", UpdateWebhook, Asks)
SetWebhookEnabled(p) ==
  \/ Begin(p, "webhooks_enable") \/ RequireWebhook(p, "webhooks_enable")
  \/ Rewrite(p, "webhooks_enable", UpdateWebhook, {"stop", "go"})
WebhooksDestroy(p) ==
  \/ Begin(p, "webhooks_destroy") \/ RequireWebhook(p, "webhooks_destroy")
  \/ At(p, "webhooks_destroy", "write") /\ Write(p, TRUE, DeleteWebhook(db, req[p].row.id))

SuppressionsCreate(p) ==
  \/ Begin(p, "suppressions_create")
  \/ \E a \in Names : Create(p, "suppressions_create", Row("suppression", S(p), a, None), CreateSuppression(db, S(p), a))
SuppressionsDestroy(p) ==
  \/ Begin(p, "suppressions_destroy")
  \/ \E a \in Names : At(p, "suppressions_destroy", "do") /\ Write(p, TRUE, DeleteSuppression(db, S(p), a))

(* The names of domains are resolved once for the batch, before the first  *)
(* message is written; every message is a transaction of its own, and one  *)
(* that fails does not stop the others.                                    *)
MessagesImport(p) ==
  \/ Begin(p, "messages_import")
  \/ \E found \in {{}} \union {DomainByName(db, S(p), name) : name \in Names} :
       /\ At(p, "messages_import", "do")
       /\ \E r \in found \union {NoRow} : req' = [req EXCEPT ![p].row = r, ![p].n = 2, ![p].pc = "import"]
       /\ db' = db /\ Quiet /\ UNCHANGED ghosts
  \/ \E stored \in BOOLEAN :
       /\ At(p, "messages_import", "import")
       /\ stored => ById(db, S(p)) # {}
       /\ db' = IF stored THEN ImportMessage(db, S(p), req[p].row.id) ELSE db
       /\ IF req[p].n = 1 THEN Answer(p) ELSE req' = [req EXCEPT ![p].n = @ - 1]
       /\ Quiet /\ UNCHANGED ghosts

(* A copy goes to a server of the same organization.  It brings the text   *)
(* and whether it is archived, never the layout.                           *)
LayoutOfSource(source, old) == source.ref
CopiedLayout(source, old) == old.ref
TemplatesCopyTo(p) ==
  LET r == req[p] IN
  \/ Begin(p, "templates_copy")
  \/ \E l \in Names : Require(p, "templates_copy", TemplateByPermalink(db, S(p), l), "target")
  \/ \E link \in Links, t \in Of(db, "server") :
       /\ At(p, "templates_copy", "target")
       /\ t \in ServerByPermalink(db, r.srv.up, link[2])
       /\ \E old \in IF TemplateByPermalink(db, t.id, r.row.name) = {} THEN {NoRow}
                     ELSE TemplateByPermalink(db, t.id, r.row.name) :
            req' = [req EXCEPT ![p].to = t.id, ![p].old = old, ![p].pc = "link"]
       /\ db' = db /\ Quiet /\ UNCHANGED ghosts
  \/ /\ At(p, "templates_copy", "link") /\ r.old.id = 0
     /\ LET new == [Row("template", r.to, r.row.name, CopiedLayout(r.row, r.old)) EXCEPT !.val = r.row.val] IN
        Write(p, CanInsert(db, new), CreateTemplate(db, r.to, new.name, new.val, new.ref))
  \/ /\ At(p, "templates_copy", "link") /\ r.old.id # 0
     /\ LET row == [r.old EXCEPT !.val = r.row.val, !.flag = r.row.flag, !.ref = CopiedLayout(r.row, r.old)] IN
        /\ Statement(p, RefHolds(db, row), UpdateTemplate(db, row), "done")
        /\ Note(p, row.id, IF ~RefHolds(db, row) THEN "none" ELSE IF row.flag THEN "stop" ELSE "go")

(* IP pools are the installation's. *)
IpPoolsCreate(p) ==
  RootMiddleware(p, "pools_create")
    \/ Create(p, "pools_create", Row("pool", None, "pool", None), CreateIpPool(db))
RequireIpPool(p, op) == \E id \in Ids("pool") : Require(p, op, IpPoolById(db, id), "write")
IpPoolsDestroy(p) ==
  \/ RootMiddleware(p, "pools_destroy") \/ RequireIpPool(p, "pools_destroy")
  \/ At(p, "pools_destroy", "write") /\ Write(p, TRUE, DeleteIpPool(db, req[p].row.id))
IpAddressesCreate(p) ==
  \/ RootMiddleware(p, "addresses_create") \/ RequireIpPool(p, "addresses_create")
  \/ /\ At(p, "addresses_create", "write")
     /\ Write(p, CanInsert(db, Row("address", req[p].row.id, "address", None)), CreateIpAddress(db, req[p].row.id))
IpAddressesDestroy(p) ==
  \/ RootMiddleware(p, "addresses_destroy")
  \/ \E id \in Ids("address"), pool \in Ids("pool") :
       Require(p, "addresses_destroy", IpAddressById(db, pool, id), "write")
  \/ At(p, "addresses_destroy", "write") /\ Write(p, TRUE, DeleteIpAddress(db, req[p].row.id))

----------------------------------------------------------------------------
(* The messaging API.  The server is the one of the credential, found      *)
(* before the handler; its row may be gone when it writes.                 *)
StreamsCreate(p) ==
  \/ ServerAuthMiddleware(p, "streams_create")
  \/ \E l \in Names, pool \in Ids("pool") \union {None} :
       Create(p, "streams_create", Row("stream", S(p), l, pool), CreateStream(db, S(p), l, pool))

RequireStream(p, op) == \E l \in Names : Require(p, op, StreamByPermalink(db, S(p), l), "write")
StreamUpdate(p) ==
  \/ ServerAuthMiddleware(p, "stream_update") \/ RequireStream(p, "stream_update")
  \/ Rewrite(p, "stream_update", UpdateStream, Asks)
StreamArchive(p) ==
  \/ ServerAuthMiddleware(p, "stream_archive") \/ RequireStream(p, "stream_archive")
  \/ Rewrite(p, "stream_archive", UpdateStream, {"stop"})

LayoutsCreate(p) ==
  \/ ServerAuthMiddleware(p, "layouts_create")
  \/ \E l \in Names : Create(p, "layouts_create", Row("layout", S(p), l, None), CreateLayout(db, S(p), l))

RequireLayout(p, op) == \E l \in Names : Require(p, op, LayoutByPermalink(db, S(p), l), "write")
LayoutUpdate(p) ==
  \/ ServerAuthMiddleware(p, "layout_update") \/ RequireLayout(p, "layout_update")
  \/ Rewrite(p, "layout_update", UpdateLayout, {"none"})
LayoutLogoUpload(p) ==
  \/ ServerAuthMiddleware(p, "layout_logo") \/ RequireLayout(p, "layout_logo")
  \/ At(p, "layout_logo", "write") /\ Write(p, TRUE, SetLayoutLogo(db, S(p), req[p].row.id))
LayoutDestroy(p) ==
  \/ ServerAuthMiddleware(p, "layout_destroy") \/ RequireLayout(p, "layout_destroy")
  \/ At(p, "layout_destroy", "write") /\ Write(p, TRUE, DeleteLayout(db, S(p), req[p].row.id))

(* resolve_layout: among the server's own. *)
ResolveLayout(s, l) == LayoutByPermalink(db, s, l)

TemplatesCreate(p) ==
  LET r == req[p] IN
  \/ ServerAuthMiddleware(p, "templates_create")
  \/ \E l \in Names : Require(p, "templates_create", ResolveLayout(S(p), l), "write")
  \/ \E l \in Names :
       /\ At(p, "templates_create", "write")
       /\ Write(p, CanInsert(db, Row("template", S(p), l, r.row.id)), CreateTemplate(db, S(p), l, 0, r.row.id))

RequireTemplate(p, op, pc) == \E l \in Names : Require(p, op, TemplateByPermalink(db, S(p), l), pc)

(* The template first, then the layout it is given. *)
TemplateUpdate(p) ==
  \/ ServerAuthMiddleware(p, "template_update")
  \/ RequireTemplate(p, "template_update", "link") \/ RequireTemplate(p, "template_update", "write")
  \/ \E l \in Names :
       /\ At(p, "template_update", "link")
       /\ IF ResolveLayout(S(p), l) = {} THEN Answer(p)
          ELSE \E y \in ResolveLayout(S(p), l) : req' = [req EXCEPT ![p].row.ref = y.id, ![p].pc = "write"]
       /\ db' = db /\ Quiet /\ UNCHANGED ghosts
  \/ Rewrite(p, "template_update", UpdateTemplate, Asks)
TemplateArchive(p) ==
  \/ ServerAuthMiddleware(p, "template_archive") \/ RequireTemplate(p, "template_archive", "write")
  \/ Rewrite(p, "template_archive", UpdateTemplate, {"stop"})

----------------------------------------------------------------------------
Next ==
  \/ \E p \in Procs :
       \/ Abandon(p)
       \/ ServersCreate(p) \/ ServersUpdate(p) \/ ServersSuspend(p) \/ ServersUnsuspend(p)
       \/ ServersDestroy(p) \/ ServersSetIpPool(p) \/ AdminApiKeysCreate(p) \/ AdminApiKeysDestroy(p)
       \/ DomainsCreate(p) \/ DomainsUpdate(p) \/ DomainsVerify(p) \/ DomainsDestroy(p)
       \/ TrackDomainsCreate(p) \/ TrackDomainsVerify(p) \/ TrackDomainsDestroy(p)
       \/ SenderAddressesCreate(p) \/ SenderAddressesDestroy(p)
       \/ CredentialsCreate(p) \/ CredentialsUpdate(p) \/ CredentialsDestroy(p)
       \/ RoutesCreate(p) \/ RoutesUpdate(p) \/ RoutesDestroy(p)
       \/ WebhooksCreate(p) \/ WebhooksUpdate(p) \/ SetWebhookEnabled(p) \/ WebhooksDestroy(p)
       \/ SuppressionsCreate(p) \/ SuppressionsDestroy(p) \/ MessagesImport(p) \/ TemplatesCopyTo(p)
       \/ IpPoolsCreate(p) \/ IpPoolsDestroy(p) \/ IpAddressesCreate(p) \/ IpAddressesDestroy(p)
       \/ StreamsCreate(p) \/ StreamUpdate(p) \/ StreamArchive(p)
       \/ LayoutsCreate(p) \/ LayoutUpdate(p) \/ LayoutLogoUpload(p) \/ LayoutDestroy(p)
       \/ TemplatesCreate(p) \/ TemplateUpdate(p) \/ TemplateArchive(p)
  \/ SenderAddressConfirm

Spec == Init /\ [][Next]_vars

----------------------------------------------------------------------------
(* A domain, a track domain or a sender address is trusted only when it    *)
(* was proved: this row of this server, with the record or the token made  *)
(* for it (domains_verify, track_domains_verify, confirm_sender_address).  *)
(* A proof given for a row that was deleted and added again, or for the    *)
(* same name on another server, is no proof.                               *)
TrustIsProved ==
  \A r \in db.rows : r.t \in Trusted /\ r.flag => r.id \in proved

(* What was taken out of service stays out until somebody puts it back: a  *)
(* suspended server, a held credential, a disabled webhook, an archived    *)
(* stream or template is not revived by a request about something else,    *)
(* except one that had read the row before.                                *)
StoppedStays == \A r \in db.rows : r.id \in stopped => r.flag

(* A reference leads to a row of the same server: a route's domain, a      *)
(* template's layout, a server's default stream; a pool is there; and a    *)
(* key limited to a server is limited to that server's organization.       *)
ReferencesStayHome == \A r \in db.rows : AtHome(db, r)

(* The rows of a server: its own and its resources. *)
RowsOf(d, s) == {r \in d.rows : r.id = s \/ (r.up = s /\ r.t # "server")}

(* A request about a server changes rows of that server and of no other,   *)
(* whatever ids and names it gives; a copy also rows of its target, which  *)
(* is a server of the same organization.                                   *)
WithinServer ==
  [][\A p \in Procs, s \in Ids("server") :
       req[p] # req'[p] /\ req[p].link # Blank.link /\ RowsOf(db, s) # RowsOf(db', s) =>
         S(p) = s \/ (req[p].to = s /\ \E r \in ById(db, s) : r.up = req[p].link[1])]_vars
=============================================================================
