------------------------------ MODULE Resources ------------------------------
(***************************************************************************)
(* The management API of a server and its resources (camelmailer-api:      *)
(* resources.rs and the servers and machine keys of app.rs).               *)
(*                                                                         *)
(* A request is let through by the middleware, finds the server behind the *)
(* permalinks, usually reads the resource it names, and writes it: an      *)
(* update writes back the whole row it has read.  Every step is one        *)
(* statement; requests interleave and may end after any step.              *)
(***************************************************************************)
EXTENDS ResourceStore

CONSTANTS Links,      \* <<organization, permalink>> of servers
          Names,      \* permalinks, domain names and addresses
          Procs,
          Scenes,     \* [rows, keys, ops, requests], see Init
          MaxMishaps  \* bound: failing statements and lost clients

VARIABLES db, req, count, mishaps,
          scene,     \* the tables, the callers and what they do
          proved,    \* rows whose owner has proved it is theirs
          stopped    \* rows taken out of service, and not put back since

vars   == <<db, req, count, mishaps, scene, proved, stopped>>
ghosts == <<proved, stopped>>
Quiet  == UNCHANGED <<count, mishaps, scene>>

(* The references of row r of the tables d: a route's domain, a template's *)
(* layout and a server's default stream are rows of the same server, a     *)
(* pool is there, and the server of a key is one of the key's organization.*)
AtHome(d, r) ==
  /\ r.t \in {"route", "template"} /\ r.ref # None => \E x \in Of(d, Target(r.t)) : x.id = r.ref /\ x.up = r.up
  /\ r.t \in {"server", "stream"} /\ r.ref # None => Exists(d, "pool", r.ref)
  /\ r.t = "server" /\ r.more # None => \E x \in Of(d, "stream") : x.id = r.more /\ x.up = r.id
  /\ r.t = "key" /\ r.up # None => \E s \in Of(d, "server") : s.id = r.up /\ s.up = r.ref

Trusted == {"domain", "track", "sender"}
FirstNew == 20   \* the rows of a scene have ids below

(* A scene is what the API can have left behind: ids are unique, a row     *)
(* that is not a server's is a server's or a pool's, references are at     *)
(* home, and nothing has been verified yet.                                *)
ASSUME ResourceAssumption ==
  /\ \A link \in Links : link = <<link[1], link[2]>> /\ link[1] \in Nat
  /\ \A s \in Scenes :
       /\ \A r \in s.rows :
            /\ IsRow(r) /\ r.id \in 1..(FirstNew - 1)
            /\ r.t # "server" => r.up < FirstNew
            /\ r.t = "pool" => r.up = None
            /\ r.t \in Trusted => ~r.flag
            /\ r.t \notin {"domain", "server"} /\ r.up # None => \E x \in s.rows : x.id = r.up
            /\ AtHome([rows |-> s.rows, next |-> FirstNew], r)
       /\ \A r, x \in s.rows :
            /\ r.id = x.id => r = x
            /\ r.t # "server" /\ x.id = r.up => x.t \in {"server", "pool"}

GlobalKey == None
Blank == [op |-> "idle", pc |-> "idle", root |-> FALSE, link |-> <<None, "none">>, srv |-> NoRow,
          row |-> NoRow, old |-> NoRow, to |-> None, n |-> 0]

Init ==
  /\ scene \in Scenes
  /\ db = [rows |-> scene.rows, next |-> FirstNew]
  /\ req = [p \in Procs |-> Blank]
  /\ count = 0 /\ mishaps = 0
  /\ proved = {} /\ stopped = {}

Ids(t) == {r.id : r \in Of(db, t)}
S(p)   == req[p].srv.id
At(p, op, pc) == req[p].op = op /\ req[p].pc = pc
Answer(p) == req' = [req EXCEPT ![p] = Blank]

Ready(p, op) == req[p].op = "idle" /\ op \in scene.ops /\ count < scene.requests

Enter(p, r) ==
  /\ Ready(p, r.op)
  /\ count' = count + 1
  /\ req' = [req EXCEPT ![p] = r]
  /\ db' = db /\ UNCHANGED <<mishaps, scene>> /\ UNCHANGED ghosts

----------------------------------------------------------------------------
(* The middleware: a key of the database is looked up, and one limited to  *)
(* an organization or a server reaches nothing else.                       *)
KeyScope(k) == k = GlobalKey \/ AdminApiKeyAuth(db, k) # {}
KeyScopeAllows(k, link) ==
  \A r \in AdminApiKeyAuth(db, k) :
    /\ r.ref \in {None, link[1]}
    /\ r.up = None \/ \E s \in ServerByPermalink(db, link[1], link[2]) : s.id = r.up
IsRoot(k) == k = GlobalKey \/ \A r \in AdminApiKeyAuth(db, k) : r.ref = None

AuthMiddleware(p, op) ==
  Ready(p, op) /\ \E k \in scene.keys, link \in Links :
    /\ KeyScope(k) /\ KeyScopeAllows(k, link)
    /\ Enter(p, [Blank EXCEPT !.op = op, !.pc = "find", !.root = IsRoot(k), !.link = link])

(* What is not a server's is for unlimited keys. *)
RootMiddleware(p, op) ==
  Ready(p, op) /\ \E k \in scene.keys : KeyScope(k) /\ IsRoot(k) /\ Enter(p, [Blank EXCEPT !.op = op, !.pc = "do", !.root = TRUE])

(* find_server: both lookups; a server that is not there is a 404. *)
RequireServer(p, op) ==
  /\ At(p, op, "find")
  /\ LET found == ServerByPermalink(db, req[p].link[1], req[p].link[2]) IN
     IF found = {} THEN Answer(p)
     ELSE \E s \in found : req' = [req EXCEPT ![p].srv = s, ![p].row = s, ![p].pc = "do"]
  /\ db' = db /\ Quiet /\ UNCHANGED ghosts

(* A request enters, and finds its server. *)
Begin(p, op) == AuthMiddleware(p, op) \/ RequireServer(p, op)

(* The resource is read, or answered with a 404. *)
Require(p, op, found, pc) ==
  /\ At(p, op, "do")
  /\ IF found = {} THEN Answer(p)
     ELSE \E r \in found : req' = [req EXCEPT ![p].row = r, ![p].pc = pc]
  /\ db' = db /\ Quiet /\ UNCHANGED ghosts

(* A statement, in force when the constraints hold; an error ends the      *)
(* request.                                                                *)
Statement(p, holds, d, pc) ==
  /\ IF ~holds THEN db' = db /\ Answer(p)
     ELSE /\ db' = d
          /\ IF pc = "done" THEN Answer(p) ELSE req' = [req EXCEPT ![p].pc = pc]
  /\ Quiet
Write(p, holds, d) == Statement(p, holds, d, "done") /\ UNCHANGED ghosts

Create(p, op, row, d) == At(p, op, "do") /\ Write(p, CanInsert(db, row), d)

(* The client hangs up, or a statement fails. *)
Abandon(p) ==
  /\ req[p].op # "idle" /\ mishaps < MaxMishaps
  /\ mishaps' = mishaps + 1
  /\ Answer(p)
  /\ db' = db /\ UNCHANGED <<count, scene>> /\ UNCHANGED ghosts

(* What an update says of the row being in service: that it stops, that it *)
(* goes on, or nothing.                                                    *)
Asks == {"stop", "go", "none"}
EditedDefault(r, ask) == [r EXCEPT !.flag = ask = "stop", !.val = IF ask = "none" THEN 1 ELSE @]
Edited(r, ask) == [r EXCEPT !.flag = IF ask = "none" THEN @ ELSE ask = "stop",
                            !.val = IF ask = "none" THEN 1 ELSE @]

(* A stop counts when nobody holds a copy of the row from before it. *)
ServerWrites == {"servers_update", "servers_suspend", "servers_unsuspend"}
Holds(q, id) == /\ req[q].row.id = id \/ req[q].old.id = id
                /\ req[q].pc \in {"write", "link"} \/ (req[q].pc = "do" /\ req[q].op \in ServerWrites)
Overlapped(p, id) == \E q \in Procs \ {p} : Holds(q, id)
Note(p, id, ask) ==
  /\ stopped' = IF ask = "none" THEN stopped
                ELSE IF ask = "stop" /\ ~Overlapped(p, id) THEN stopped \union {id}
                ELSE stopped \ {id}
  /\ UNCHANGED proved

----------------------------------------------------------------------------
(* Servers: a server, its default stream, and the reference to it are      *)
(* three statements.                                                       *)
ServersCreate(p) ==
  LET op == "servers_create" IN
  \/ AuthMiddleware(p, op)
  \/ LET r == req[p] IN
     /\ At(p, op, "find")
     /\ IF Free(db, "server", r.link[1], r.link[2])
        THEN db' = CreateServer(db, r.link[1], r.link[2])
             /\ req' = [req EXCEPT ![p].pc = "stream", ![p].to = db.next]
        ELSE db' = db /\ Answer(p)
     /\ Quiet /\ UNCHANGED ghosts
  \/ /\ At(p, op, "stream")
     /\ IF Exists(db, "server", req[p].to)
        THEN db' = CreateStream(db, req[p].to, "outbound", None)
             /\ req' = [req EXCEPT ![p].pc = "default", ![p].n = db.next]
        ELSE db' = db /\ Answer(p)
     /\ Quiet /\ UNCHANGED ghosts
  \/ /\ At(p, op, "default")
     /\ Write(p, TRUE, SetDefaultStream(db, req[p].to, req[p].n))

WriteServer(p, ask) ==
  /\ Statement(p, TRUE, UpdateServer(db, Edited(req[p].srv, ask)), "done")
  /\ Note(p, S(p), ask)

\* a send limit is refused to all but root
ServersUpdate(p) ==
  \/ Begin(p, "servers_update")
  \/ At(p, "servers_update", "do") /\ WriteServer(p, "none")
  \/ At(p, "servers_update", "do") /\ ~req[p].root /\ Write(p, FALSE, db)
ServersSuspend(p) ==
  Begin(p, "servers_suspend") \/ (At(p, "servers_suspend", "do") /\ WriteServer(p, "stop"))
ServersUnsuspend(p) ==
  Begin(p, "servers_unsuspend") \/ (At(p, "servers_unsuspend", "do") /\ WriteServer(p, "go"))
ServersDestroy(p) ==
  Begin(p, "servers_destroy") \/ (At(p, "servers_destroy", "do") /\ Write(p, TRUE, DeleteServer(db, S(p))))

ServersSetIpPool(p) ==
  \/ Begin(p, "servers_set_ip_pool")
  \/ At(p, "servers_set_ip_pool", "do")
     /\ \E pool \in Ids("pool") \union {None} :
          Write(p, pool = None \/ Exists(db, "pool", pool), SetServerIpPool(db, S(p), pool))

AdminApiKeysCreate(p) ==
  \/ RootMiddleware(p, "keys_create")
  \/ \E link \in Links :
       LET found == ServerByPermalink(db, link[1], link[2]) IN
       /\ At(p, "keys_create", "do")
       /\ IF found = {} THEN Answer(p)
          ELSE \E s \in found : req' = [req EXCEPT ![p].srv = s, ![p].pc = "write"]
       /\ db' = db /\ Quiet /\ UNCHANGED ghosts
  \/ /\ At(p, "keys_create", "write")
     /\ Write(p, Exists(db, "server", S(p)), CreateAdminApiKeyRecord(db, req[p].srv.up, S(p)))

AdminApiKeysDestroy(p) ==
  \/ RootMiddleware(p, "keys_destroy")
  \/ \E k \in Ids("key") : At(p, "keys_destroy", "do") /\ Write(p, TRUE, DeleteAdminApiKey(db, k))

----------------------------------------------------------------------------
(* Domains.  Whether the record is published is asked of the DNS between   *)
(* reading the domain and marking it; a forced verification needs a        *)
(* machine key, which every caller here has.                               *)
DomainsCreate(p) ==
  \/ Begin(p, "domains_create")
  \/ \E name \in Names : Create(p, "domains_create", Row("domain", S(p), name, None), CreateDomain(db, S(p), name))

RequireDomain(p, op, pc) == \E name \in Names : Require(p, op, DomainByName(db, S(p), name), pc)

(* Two settings, two statements. *)
DomainsUpdate(p) ==
  \/ Begin(p, "domains_update") \/ RequireDomain(p, "domains_update", "write")
  \/ /\ At(p, "domains_update", "write")
     /\ Statement(p, TRUE, SetDomainDmarcCheck(db, req[p].row.id, 1), "spf") /\ UNCHANGED ghosts
  \/ At(p, "domains_update", "spf") /\ Write(p, TRUE, SetDomainSpfCheck(db, req[p].row.id, 1))

(* The proof is for the row that was read: its token, or its name. *)
Proof(p, op) ==
  /\ At(p, op, "check")
  /\ \/ req' = [req EXCEPT ![p].pc = "write"] /\ proved' = proved \union {req[p].row.id}
     \/ Answer(p) /\ UNCHANGED proved
  /\ db' = db /\ Quiet /\ UNCHANGED stopped

DomainsVerify(p) ==
  \/ Begin(p, "domains_verify") \/ RequireDomain(p, "domains_verify", "check") \/ Proof(p, "domains_verify")
  \/ At(p, "domains_verify", "write") /\ Write(p, TRUE, SetDomainVerified(db, req[p].row.id))

DomainsDestroy(p) ==
  \/ Begin(p, "domains_destroy") \/ RequireDomain(p, "domains_destroy", "write")
  \/ At(p, "domains_destroy", "write") /\ Write(p, TRUE, DeleteDomain(db, req[p].row.id))

TrackDomainsCreate(p) ==
  \/ Begin(p, "track_create")
  \/ \E name \in Names : Create(p, "track_create", Row("track", S(p), name, None), CreateTrackDomain(db, S(p), name))

RequireTrackDomain(p, op, pc) == \E id \in Ids("track") : Require(p, op, TrackDomainById(db, S(p), id), pc)

TrackDomainsVerify(p) ==
  \/ Begin(p, "track_verify") \/ RequireTrackDomain(p, "track_verify", "check") \/ Proof(p, "track_verify")
  \/ At(p, "track_verify", "write") /\ Write(p, TRUE, SetTrackDomainVerified(db, req[p].row.id))

TrackDomainsDestroy(p) ==
  \/ Begin(p, "track_destroy") \/ RequireTrackDomain(p, "track_destroy", "write")
  \/ At(p, "track_destroy", "write") /\ Write(p, TRUE, DeleteTrackDomain(db, req[p].row.id))

(* The token of a sender address is mailed to it; whoever presents it, at  *)
(* any later time, confirms the row it was made for.                       *)
SenderAddressesCreate(p) ==
  \/ Begin(p, "sender_create")
  \/ \E name \in Names : Create(p, "sender_create", Row("sender", S(p), name, None), CreateSenderAddress(db, S(p), name))

SenderAddressConfirm ==
  \E token \in Ids("sender") :
    /\ "sender_confirm" \in scene.ops
    /\ db' = ConfirmSenderAddress(db, token)
    /\ proved' = proved \union {token}
    /\ UNCHANGED <<req, count, mishaps, scene, stopped>>

SenderAddressesDestroy(p) ==
  \/ Begin(p, "sender_destroy")
  \/ \E id \in Ids("sender") : Require(p, "sender_destroy", SenderAddressById(db, S(p), id), "write")
  \/ At(p, "sender_destroy", "write") /\ Write(p, TRUE, DeleteSenderAddress(db, req[p].row.id))
=============================================================================
