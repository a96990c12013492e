---------------------------- MODULE ResourceProofs ----------------------------
(***************************************************************************)
(* Proofs about the resource API, for any servers, names and tables to     *)
(* start with, and any number of requests.                                 *)
(*                                                                         *)
(* What a request carries from one statement to the next is a copy of a    *)
(* row, and others go on meanwhile.  What makes the copy safe to use is    *)
(* that ids are not given twice and that a row never changes its table or  *)
(* its owner: a row with the copy's id is still the row that was read.     *)
(***************************************************************************)
EXTENDS ResourceApi, TLAPS

(* The same row: its id, its table and its owner. *)
Ident(x, c) == x.id = c.id /\ x.t = c.t /\ x.up = c.up

(* What a server or a pool owns goes with it; domains stay. *)
Owned(d, r) == r.t \notin {"domain", "server"} /\ r.up # None => \E x \in d.rows : x.id = r.up

(* The tables. *)
Store(d) ==
    /\ d = [f \in {"rows", "next"} |-> d[f]]
    /\ d.next \in Nat /\ d.next # 0
    /\ \A r \in d.rows :
          /\ IsRow(r) /\ r.id # 0 /\ r.id < d.next
          /\ r.t # "server" => r.up < d.next
          /\ r.t = "pool" => r.up = None
          /\ Owned(d, r)
          /\ AtHome(d, r)
    /\ \A r, x \in d.rows :
          /\ r.id = x.id => r = x
          /\ r.t # "server" /\ x.id = r.up => x.t \in {"server", "pool"}

(* A copy of a row that was read at some time. *)
Known(d, c) == IsRow(c) /\ c.id < d.next /\ \A x \in d.rows : x.id = c.id => Ident(x, c)

(* n is the default stream of s, which may both be gone. *)
Default(d, s, n) ==
    /\ n \in Nat /\ n # 0 /\ n < d.next
    /\ \A x \in d.rows : x.id = n => x.t = "stream" /\ x.up = s
    /\ (\E x \in d.rows : x.id = s) => \E x \in d.rows : x.id = n

(* Where the references of a copy lead, if they still lead somewhere. *)
Leads(d, c) ==
    /\ c.t \in {"route", "template"} /\ c.ref # None =>
          c.ref < d.next /\ \A x \in d.rows : x.id = c.ref => x.t = Target(c.t) /\ x.up = c.up
    /\ c.t = "server" /\ c.more # None => Default(d, c.id, c.more)

(* s is a server of organization o, or gone. *)
ServerAt(d, s, o) == s \in Nat /\ s < d.next /\ \A x \in d.rows : x.id = s => x.t = "server" /\ x.up = o

-----------------------------------------------------------------------------
(* The requests.  In which table the row is that a request has chosen. *)
Kind(op) ==
    CASE op \in {"domains_update", "domains_verify", "domains_destroy", "routes_create"} -> "domain"
      [] op \in {"track_verify", "track_destroy"} -> "track"
      [] op = "sender_destroy" -> "sender"
      [] op \in {"credentials_update", "credentials_destroy"} -> "credential"
      [] op \in {"routes_update", "routes_destroy"} -> "route"
      [] op \in {"webhooks_update", "webhooks_enable", "webhooks_destroy"} -> "webhook"
      [] op \in {"stream_update", "stream_archive"} -> "stream"
      [] op \in {"layout_update", "layout_logo", "layout_destroy", "templates_create"} -> "layout"
      [] op \in {"template_update", "template_archive", "templates_copy"} -> "template"
      [] op \in {"pools_destroy", "addresses_create"} -> "pool"
      [] op = "addresses_destroy" -> "address"
      [] OTHER -> "none"

Chosen == {"write", "check", "spf", "target", "link"}

(* The copy a request is about to write back. *)
RewriteOps == {"credentials_update", "routes_update", "webhooks_update", "webhooks_enable", "stream_update",
               "stream_archive", "layout_update", "template_update", "template_archive", "templates_copy"}
Rewrites(r) ==
    \/ r.pc \in {"write", "link"} /\ r.op \in RewriteOps
    \/ r.pc = "do" /\ r.op \in ServerWrites
Copy(r) == IF r.op = "templates_copy" THEN r.old ELSE r.row

(* The requests about what is no server's. *)
RootOps == {"keys_create", "keys_destroy", "pools_create", "pools_destroy", "addresses_create", "addresses_destroy"}

RequestFields == {"op", "pc", "root", "link", "srv", "row", "old", "to", "n"}

Copies(d, r) ==
    /\ r = [f \in RequestFields |-> r[f]] /\ r.link[1] \in Nat
    /\ Known(d, r.srv) /\ Known(d, r.row) /\ Known(d, r.old)
    /\ Leads(d, r.srv) /\ Leads(d, r.row) /\ Leads(d, r.old)

Placed(r, P) ==
    /\ r.srv.id # 0 => r.srv.t = "server" /\ (r.link # Blank.link => r.srv.up = r.link[1])
    /\ r.pc \in Chosen /\ Kind(r.op) # "none" =>
          /\ r.row.t = Kind(r.op) /\ r.row.id # 0
          /\ Kind(r.op) \notin {"pool", "address"} => r.row.up = r.srv.id
    /\ r.op \in ServerWrites /\ r.pc = "do" => r.row = r.srv /\ r.srv.t = "server" /\ r.srv.id # 0
    /\ r.op \in {"domains_verify", "track_verify"} /\ r.pc = "write" => r.row.id \in P
    /\ r.op = "keys_create" /\ r.pc = "write" => r.srv.id # 0
    /\ r.op = "servers_destroy" /\ r.pc = "do" => r.srv.id # 0
    /\ r.op \in RootOps => r.link = Blank.link

Aims(d, r) ==
    /\ r.op = "servers_create" /\ r.pc \in {"stream", "default"} => ServerAt(d, r.to, r.link[1])
    /\ r.op = "servers_create" /\ r.pc = "default" => Default(d, r.to, r.n)
    /\ r.op = "templates_copy" /\ r.pc \in {"do", "target", "link"} => r.srv.up = r.link[1]
    /\ r.op = "templates_copy" /\ r.pc = "link" =>
          /\ ServerAt(d, r.to, r.link[1]) /\ r.to # 0
          /\ r.old.id # 0 => r.old.t = "template" /\ r.old.up = r.to
          /\ r.old.id = 0 => r.old.ref = None

Current(r, St) == Rewrites(r) /\ Copy(r).id \in St => Copy(r).flag

ReqOK(d, r, P, St) == Copies(d, r) /\ Placed(r, P) /\ Aims(d, r) /\ Current(r, St)

Requests(d, R, P, St) ==
    /\ R = [q \in Procs |-> R[q]]
    /\ \A q \in Procs : ReqOK(d, R[q], P, St)

Ghosts(d, St) == \A i \in St : i \in Nat /\ i # 0 /\ i < d.next

IInv ==
    /\ Store(db)
    /\ Requests(db, req, proved, stopped)
    /\ Ghosts(db, stopped)
    /\ TrustIsProved
    /\ StoppedStays

-----------------------------------------------------------------------------
(***************************************************************************)
(* How the tables may go on: rows keep their table and their owner, ids    *)
(* are not given again, and a stream goes with its server only.            *)
(***************************************************************************)
Evolves(d, e) ==
    /\ e.next \in Nat /\ d.next <= e.next
    /\ \A x \in e.rows : x.id >= d.next \/ \E r \in d.rows : Ident(x, r)
    /\ \A x \in d.rows : x.t = "stream" /\ (\E s \in e.rows : s.id = x.up) => \E y \in e.rows : Ident(y, x)

(* And no flag has changed. *)
Mild(d, e) ==
    \A x \in e.rows : \/ x.id >= d.next /\ ~x.flag
                      \/ \E r \in d.rows : Ident(x, r) /\ x.flag = r.flag

(* Every row that has changed, come or gone is one of server s. *)
Elsewhere(d, e, s) ==
    \A x : (x \in d.rows /\ x \notin e.rows) \/ (x \in e.rows /\ x \notin d.rows) =>
       \/ x.t # "server" /\ x.up = s
       \/ x.id = s
       \/ x.t = "server" /\ x.id >= d.next

LEMMA EvolvesSame == ASSUME NEW d, Store(d) PROVE Evolves(d, d) /\ Mild(d, d) /\ \A s : Elsewhere(d, d, s)
  BY DEF Evolves, Mild, Elsewhere, Store, Ident

(* What a copy says of its row stays true. *)
LEMMA KnownStays ==
  ASSUME NEW d, NEW e, NEW c, Store(d), Evolves(d, e), Known(d, c)
  PROVE  Known(e, c)
  <1>1. c.id \in Nat /\ d.next \in Nat /\ e.next \in Nat /\ c.id < e.next
    BY DEF Known, IsRow, Store, Evolves
  <1>2. ASSUME NEW x \in e.rows, x.id = c.id PROVE Ident(x, c)
    <2>1. ~(x.id >= d.next)
      BY <1>1, <1>2 DEF Known
    <2>2. PICK r \in d.rows : Ident(x, r)
      BY <2>1 DEF Evolves
    <2> QED BY <1>2, <2>2 DEF Known, Ident
  <1> QED BY <1>1, <1>2 DEF Known

LEMMA DefaultStays ==
  ASSUME NEW d, NEW e, NEW s \in Nat, NEW n, Store(d), Evolves(d, e), s < d.next, Default(d, s, n)
  PROVE  Default(e, s, n)
  <1>1. d.next \in Nat /\ e.next \in Nat /\ d.next <= e.next /\ n \in Nat /\ n # 0 /\ n < d.next
    BY DEF Store, Evolves, Default
  <1>2. ASSUME NEW x \in e.rows, x.id = n PROVE x.t = "stream" /\ x.up = s
    <2>1. PICK r \in d.rows : Ident(x, r)
      BY <1>1, <1>2 DEF Evolves
    <2> QED BY <1>2, <2>1 DEF Default, Ident
  <1>3. ASSUME NEW x \in e.rows, x.id = s PROVE \E y \in e.rows : y.id = n
    <2>1. PICK r \in d.rows : Ident(x, r)
      BY <1>1, <1>3 DEF Evolves
    <2>2. PICK y \in d.rows : y.id = n
      BY <1>3, <2>1 DEF Default, Ident
    <2>3. y.t = "stream" /\ y.up = s
      BY <2>2 DEF Default
    <2> QED BY <1>3, <2>2, <2>3 DEF Evolves, Ident
  <1>4. n < e.next
    BY <1>1
  <1> QED BY <1>1, <1>2, <1>3, <1>4 DEF Default

LEMMA LeadsStays ==
  ASSUME NEW d, NEW e, NEW c, Store(d), Evolves(d, e), Known(d, c), Leads(d, c)
  PROVE  Leads(e, c)
  <1>1. c.id \in Nat /\ c.ref \in Nat /\ c.id < d.next /\ d.next \in Nat /\ e.next \in Nat /\ d.next <= e.next
    BY DEF Known, IsRow, Store, Evolves
  <1>2. ASSUME c.t \in {"route", "template"}, c.ref # None
        PROVE  c.ref < e.next /\ \A x \in e.rows : x.id = c.ref => x.t = Target(c.t) /\ x.up = c.up
    <2>1. c.ref < d.next
      BY <1>2 DEF Leads
    <2>2. ASSUME NEW x \in e.rows, x.id = c.ref PROVE x.t = Target(c.t) /\ x.up = c.up
      <3>1. PICK r \in d.rows : Ident(x, r)
        BY <1>1, <2>1, <2>2 DEF Evolves
      <3> QED BY <1>2, <2>2, <3>1 DEF Leads, Ident
    <2> QED BY <1>1, <2>1, <2>2
  <1>3. ASSUME c.t = "server", c.more # None PROVE Default(e, c.id, c.more)
    BY <1>1, <1>3, DefaultStays DEF Leads
  <1> QED BY <1>2, <1>3 DEF Leads

LEMMA ServerAtStays ==
  ASSUME NEW d, NEW e, NEW s, NEW o, Store(d), Evolves(d, e), ServerAt(d, s, o)
  PROVE  ServerAt(e, s, o)
  <1>1. s \in Nat /\ s < d.next /\ d.next \in Nat /\ e.next \in Nat /\ s < e.next
    BY DEF ServerAt, Store, Evolves
  <1>2. ASSUME NEW x \in e.rows, x.id = s PROVE x.t = "server" /\ x.up = o
    <2>1. PICK r \in d.rows : Ident(x, r)
      BY <1>1, <1>2 DEF Evolves
    <2> QED BY <1>2, <2>1 DEF ServerAt, Ident
  <1> QED BY <1>1, <1>2 DEF ServerAt

(* A request that does not move is as well placed as before. *)
LEMMA RequestStays ==
  ASSUME NEW d, NEW e, NEW r, NEW P, NEW P2, NEW St, NEW St2, Store(d), Evolves(d, e), ReqOK(d, r, P, St),
         P \subseteq P2, Rewrites(r) /\ Copy(r).id \in St2 => Copy(r).id \in St
  PROVE  ReqOK(e, r, P2, St2)
  <1>1. Copies(e, r)
    BY KnownStays, LeadsStays DEF ReqOK, Copies
  <1>2. Placed(r, P2)
    BY DEF ReqOK, Placed
  <1>3. Current(r, St2)
    BY DEF ReqOK, Current
  <1>4. r.op = "servers_create" /\ r.pc = "default" => Default(e, r.to, r.n)
    BY DefaultStays DEF ReqOK, Aims, ServerAt
  <1>5. Aims(e, r)
    BY <1>4, ServerAtStays DEF ReqOK, Aims
  <1> QED BY <1>1, <1>2, <1>3, <1>5 DEF ReqOK

LEMMA BlankFits == ASSUME NEW d, NEW P, NEW St, Store(d) PROVE ReqOK(d, Blank, P, St)
  <1>1. IsRow(NoRow) /\ NoRow.id = 0 /\ NoRow.t = "none" /\ NoRow.ref = 0 /\ NoRow.more = 0
    BY DEF NoRow, Row, IsRow, RowFields, None
  <1>2. Known(d, NoRow) /\ Leads(d, NoRow)
    BY <1>1 DEF Known, Leads, Store, None
  <1>3. Blank = [f \in RequestFields |-> Blank[f]] /\ Blank.srv = NoRow /\ Blank.row = NoRow /\ Blank.old = NoRow
        /\ Blank.op = "idle" /\ Blank.pc = "idle" /\ Blank.link[1] \in Nat
    BY DEF Blank, RequestFields, None
  <1>4. Copies(d, Blank)
    BY <1>2, <1>3 DEF Copies
  <1>5. Placed(Blank, P) /\ Aims(d, Blank)
    BY <1>1, <1>3 DEF Placed, Aims, Chosen, ServerWrites, RootOps
  <1>6. Current(Blank, St)
    BY <1>3 DEF Current, Rewrites, ServerWrites, RewriteOps
  <1> QED BY <1>4, <1>5, <1>6 DEF ReqOK

-----------------------------------------------------------------------------
(***************************************************************************)
(* The statements                                                          *)
(***************************************************************************)
(* A row may be added when its owner is an owner and its references are at *)
(* home.                                                                   *)
Fits(d, row) ==
    /\ IsRow(row) /\ ~row.flag
    /\ row.t # "server" => row.up < d.next
    /\ row.t = "pool" => row.up = None
    /\ row.t # "server" => \A x \in d.rows : x.id = row.up => x.t \in {"server", "pool"}
    /\ row.t \in {"server", "stream"} => row.more = None
    /\ row.t = "server" => row.ref = None
    /\ Owned(d, row)
    /\ AtHome(d, row)

LEMMA HomeStays ==
  ASSUME NEW d, NEW e, NEW r, AtHome(d, r), d.rows \subseteq e.rows
  PROVE  AtHome(e, r)
  BY DEF AtHome, Of, Exists

LEMMA OwnedStays ==
  ASSUME NEW d, NEW e, NEW r, Owned(d, r), d.rows \subseteq e.rows
  PROVE  Owned(e, r)
  BY DEF Owned

LEMMA InsertStore ==
  ASSUME NEW d, NEW row, Store(d), Fits(d, row)
  PROVE  /\ Store(Insert(d, row)) /\ Evolves(d, Insert(d, row)) /\ Mild(d, Insert(d, row))
         /\ row.t = "server" => \A s : Elsewhere(d, Insert(d, row), s)
         /\ row.t # "server" => Elsewhere(d, Insert(d, row), row.up)
  <1> DEFINE new == [row EXCEPT !.id = d.next]
             e == Insert(d, row)
  <1>1. e.rows = d.rows \union {new} /\ e.next = d.next + 1 /\ e = [f \in {"rows", "next"} |-> e[f]]
    BY DEF Insert, Store
  <1>2. d.next \in Nat /\ d.next # 0
    BY DEF Store
  <1>3. /\ IsRow(new) /\ new.id = d.next /\ new.t = row.t /\ new.up = row.up /\ new.ref = row.ref
        /\ new.more = row.more /\ new.flag = row.flag
    BY <1>2 DEF Fits, IsRow, RowFields
  <1> HIDE DEF e, new
  <1>4. \A r \in d.rows : IsRow(r) /\ r.id # 0 /\ r.id < d.next /\ r.id \in Nat /\ r.up \in Nat
    BY DEF Store, IsRow
  <1>5. AtHome(d, new)
    <2>1. AtHome(d, row)
      BY DEF Fits
    <2> QED BY <1>3, <2>1 DEF AtHome, Fits
  <1>6. \A r \in e.rows : Owned(e, r) /\ AtHome(e, r)
    <2>1. Owned(d, new)
      BY <1>3 DEF Fits, Owned
    <2> QED BY <1>1, <1>5, <2>1, HomeStays, OwnedStays DEF Store
  <1>7. \A r \in e.rows : /\ IsRow(r) /\ r.id # 0 /\ r.id < e.next
                          /\ r.t # "server" => r.up < e.next
                          /\ r.t = "pool" => r.up = None
    <2>1. row.up \in Nat
      BY DEF Fits, IsRow
    <2>2. d.next < d.next + 1 /\ \A i \in Nat : i < d.next => i < d.next + 1
      BY <1>2
    <2> QED BY <1>1, <1>2, <1>3, <1>4, <2>1, <2>2 DEF Store, Fits
  <1>8. ASSUME NEW r \in e.rows, NEW x \in e.rows, r.id = x.id PROVE r = x
    BY <1>1, <1>2, <1>3, <1>4, <1>8 DEF Store
  <1>9. ASSUME NEW r \in e.rows, NEW x \in e.rows, r.t # "server", x.id = r.up PROVE x.t \in {"server", "pool"}
    <2>1. CASE x = new
      <3>1. r.up < d.next
        BY <1>1, <1>3, <1>9 DEF Store, Fits
      <3>2. r.up \in Nat
        BY <1>7 DEF IsRow
      <3> QED BY <1>2, <1>3, <1>9, <2>1, <3>1, <3>2
    <2>2. CASE x \in d.rows /\ r \in d.rows
      BY <1>9, <2>2 DEF Store
    <2>3. CASE x \in d.rows /\ r = new
      BY <1>3, <1>9, <2>3 DEF Fits
    <2> QED BY <1>1, <2>1, <2>2, <2>3
  <1>10. Store(e)
    BY <1>1, <1>2, <1>6, <1>7, <1>8, <1>9 DEF Store
  <1>11. Evolves(d, e)
    BY <1>1, <1>2, <1>3, <1>4 DEF Evolves, Ident
  <1>12. Mild(d, e)
    BY <1>1, <1>2, <1>3 DEF Mild, Ident, Fits
  <1>13. /\ row.t = "server" => \A s : Elsewhere(d, e, s)
         /\ row.t # "server" => Elsewhere(d, e, row.up)
    BY <1>1, <1>2, <1>3 DEF Elsewhere
  <1> QED BY <1>10, <1>11, <1>12, <1>13 DEF e

(* e is d but for the row with this id, of which the columns have changed. *)
Changed(d, e, id) ==
    /\ e = [f \in {"rows", "next"} |-> e[f]] /\ e.next = d.next
    /\ \A x \in e.rows : \E r \in d.rows : Ident(x, r) /\ (x.id # id => x = r)
    /\ \A r \in d.rows : \E x \in e.rows : Ident(x, r) /\ (x.id # id => x = r)
    /\ \A x, y \in e.rows : x.id = y.id => x = y

LEMMA ChangedStore ==
  ASSUME NEW d, NEW e, NEW id, Store(d), Changed(d, e, id),
         \A x \in e.rows : x.id = id => IsRow(x) /\ AtHome(d, x)
  PROVE  Store(e) /\ Evolves(d, e)
  <1>1. ASSUME NEW x \in e.rows PROVE IsRow(x) /\ x.id # 0 /\ x.id < e.next /\ AtHome(d, x)
    BY DEF Changed, Store, Ident
  <1>2. ASSUME NEW x \in e.rows PROVE Owned(e, x) /\ AtHome(e, x)
    <2>1. AtHome(d, x)
      BY <1>1
    <2>0. Owned(d, x)
      <3>1. PICK r \in d.rows : Ident(x, r)
        BY DEF Changed
      <3> QED BY <3>1 DEF Store, Owned, Ident
    <2>7. Owned(e, x)
      BY <2>0 DEF Owned, Changed, Ident
    <2>2. \A r \in d.rows : \E y \in e.rows : y.id = r.id /\ y.t = r.t /\ y.up = r.up
      BY DEF Changed, Ident
    <2>3. x.t \in {"route", "template"} /\ x.ref # None => \E y \in Of(e, Target(x.t)) : y.id = x.ref /\ y.up = x.up
      BY <2>1, <2>2 DEF AtHome, Of
    <2>4. x.t \in {"server", "stream"} /\ x.ref # None => Exists(e, "pool", x.ref)
      BY <2>1, <2>2 DEF AtHome, Of, Exists
    <2>5. x.t = "server" /\ x.more # None => \E y \in Of(e, "stream") : y.id = x.more /\ y.up = x.id
      BY <2>1, <2>2 DEF AtHome, Of
    <2>6. x.t = "key" /\ x.up # None => \E s \in Of(e, "server") : s.id = x.up /\ s.up = x.ref
      BY <2>1, <2>2 DEF AtHome, Of
    <2> QED BY <2>3, <2>4, <2>5, <2>6, <2>7 DEF AtHome
  <1>3. ASSUME NEW x \in e.rows
        PROVE  /\ x.t # "server" => x.up < e.next
               /\ x.t = "pool" => x.up = None
    BY DEF Changed, Store, Ident
  <1>4. ASSUME NEW r \in e.rows, NEW x \in e.rows, r.t # "server", x.id = r.up PROVE x.t \in {"server", "pool"}
    <2>1. PICK r1 \in d.rows : Ident(r, r1)
      BY DEF Changed
    <2>2. PICK x1 \in d.rows : Ident(x, x1)
      BY DEF Changed
    <2> QED BY <1>4, <2>1, <2>2 DEF Ident, Store
  <1>5. Store(e)
    BY <1>1, <1>2, <1>3, <1>4 DEF Store, Changed
  <1>6. d.next <= e.next /\ e.next \in Nat
    BY DEF Changed, Store
  <1>7. \A x \in e.rows : \E r \in d.rows : Ident(x, r)
    BY DEF Changed
  <1>8. \A r \in d.rows : \E x \in e.rows : Ident(x, r)
    BY DEF Changed
  <1> QED BY <1>5, <1>6, <1>7, <1>8 DEF Evolves

(* A changed row is one of its owner. *)
LEMMA ChangedElsewhere ==
  ASSUME NEW d, NEW e, NEW id, NEW s, Changed(d, e, id),
         \A r \in d.rows : r.id = id => r.id = s \/ (r.t # "server" /\ r.up = s)
  PROVE  Elsewhere(d, e, s)
  <1>1. ASSUME NEW x, x \in d.rows, x \notin e.rows PROVE x.id = s \/ (x.t # "server" /\ x.up = s)
    BY <1>1 DEF Changed, Ident
  <1>2. ASSUME NEW x, x \in e.rows, x \notin d.rows PROVE x.id = s \/ (x.t # "server" /\ x.up = s)
    <2>1. PICK r \in d.rows : Ident(x, r) /\ (x.id # id => x = r)
      BY <1>2 DEF Changed
    <2> QED BY <1>2, <2>1 DEF Ident
  <1> QED BY <1>1, <1>2 DEF Elsewhere

(* When the flag of that row has not changed either. *)
LEMMA ChangedMild ==
  ASSUME NEW d, NEW e, NEW id, Store(d), Changed(d, e, id),
         \A x \in e.rows, r \in d.rows : x.id = id /\ r.id = id => x.flag = r.flag
  PROVE  Mild(d, e)
  BY DEF Mild, Changed, Ident

LEMMA SetChanges ==
  ASSUME NEW d, NEW e, NEW id, NEW g, Store(d), \A r \in d.rows : r.id = id => Ident(g[r], r),
         e = [d EXCEPT !.rows = {IF r.id = id THEN g[r] ELSE r : r \in @}]
  PROVE  /\ Changed(d, e, id)
         /\ \A x \in e.rows : x.id = id => \E r \in d.rows : r.id = id /\ x = g[r]
  <1>1. e.next = d.next /\ e = [f \in {"rows", "next"} |-> e[f]] /\ e.rows = {IF r.id = id THEN g[r] ELSE r : r \in d.rows}
    BY DEF Store
  <1>2. \A x \in e.rows : \E r \in d.rows : x = (IF r.id = id THEN g[r] ELSE r)
    BY <1>1
  <1>3. \A r \in d.rows : (IF r.id = id THEN g[r] ELSE r) \in e.rows
    BY <1>1
  <1>4. \A x \in e.rows : \E r \in d.rows : Ident(x, r) /\ (x.id # id => x = r)
    BY <1>2 DEF Ident
  <1>5. \A r \in d.rows : \E x \in e.rows : Ident(x, r) /\ (x.id # id => x = r)
    BY <1>3 DEF Ident
  <1>6. ASSUME NEW x \in e.rows, NEW y \in e.rows, x.id = y.id PROVE x = y
    <2>1. PICK r \in d.rows : x = (IF r.id = id THEN g[r] ELSE r)
      BY <1>2
    <2>2. PICK z \in d.rows : y = (IF z.id = id THEN g[z] ELSE z)
      BY <1>2
    <2>3. r = z
      BY <1>6, <2>1, <2>2 DEF Store, Ident
    <2> QED BY <2>1, <2>2, <2>3
  <1>7. \A x \in e.rows : x.id = id => \E r \in d.rows : r.id = id /\ x = g[r]
    <2>1. \A r \in d.rows : r.id = id => g[r].id = id
      BY DEF Ident
    <2> QED BY <1>2
  <1> QED BY <1>1, <1>4, <1>5, <1>6, <1>7 DEF Changed

LEMMA PutChanges ==
  ASSUME NEW d, NEW row, Store(d), \A r \in d.rows : r.id = row.id => Ident(row, r)
  PROVE  /\ Changed(d, Put(d, row), row.id)
         /\ \A x \in Put(d, row).rows : x.id = row.id => x = row
  <1> DEFINE e == Put(d, row)
  <1>1. e.next = d.next /\ e = [f \in {"rows", "next"} |-> e[f]] /\ e.rows = {IF r.id = row.id THEN row ELSE r : r \in d.rows}
    BY DEF Put, Store
  <1> HIDE DEF e
  <1>2. \A x \in e.rows : \E r \in d.rows : x = (IF r.id = row.id THEN row ELSE r)
    BY <1>1
  <1>3. \A r \in d.rows : (IF r.id = row.id THEN row ELSE r) \in e.rows
    BY <1>1
  <1>4. \A x \in e.rows : \E r \in d.rows : Ident(x, r) /\ (x.id # row.id => x = r)
    BY <1>2 DEF Ident
  <1>5. \A r \in d.rows : \E x \in e.rows : Ident(x, r) /\ (x.id # row.id => x = r)
    BY <1>3 DEF Ident
  <1>6. \A x, y \in e.rows : x.id = y.id => x = y
    BY <1>2 DEF Store
  <1>7. \A x \in e.rows : x.id = row.id => x = row
    BY <1>2
  <1> QED BY <1>1, <1>4, <1>5, <1>6, <1>7 DEF Changed, e

(* A row goes with what it owns, and references to it are emptied. *)
LEMMA DeleteStore ==
  ASSUME NEW d, NEW id, Store(d), id # 0, \A r \in d.rows : r.id = id => r.t \notin {"stream", "none"}
  PROVE  Store(Delete(d, id)) /\ Evolves(d, Delete(d, id)) /\ Mild(d, Delete(d, id))
  <1> DEFINE e == Delete(d, id)
             gone == {r.t : r \in {x \in d.rows : x.id = id}}
             kept == {r \in d.rows : r.id # id /\ (r.t \in {"domain", "server"} \/ r.up # id)}
             New(r) == IF r.ref = id /\ Target(r.t) \in gone THEN [r EXCEPT !.ref = None] ELSE r
  <1>1. e.rows = {New(r) : r \in kept} /\ e.next = d.next /\ e = [f \in {"rows", "next"} |-> e[f]]
    BY DEF Delete, ById, Store
  <1>2. ASSUME NEW r \in d.rows
        PROVE  /\ Ident(New(r), r) /\ IsRow(New(r)) /\ New(r).flag = r.flag /\ New(r).more = r.more
               /\ New(r).ref \in {r.ref, None}
    BY DEF Store, IsRow, RowFields, Ident, None
  <1>3. ASSUME NEW r \in d.rows, r.ref = id, Target(r.t) \in gone PROVE New(r).ref = None
    BY <1>3 DEF Store, IsRow, RowFields
  <1>4. \A t : t \in gone <=> \E x \in d.rows : x.id = id /\ x.t = t
    OBVIOUS
  <1>5. \A r : r \in kept <=> r \in d.rows /\ r.id # id /\ (r.t \in {"domain", "server"} \/ r.up # id)
    OBVIOUS
  <1> HIDE DEF e, New, gone, kept
  <1>6. \A x \in e.rows : \E r \in kept : x = New(r)
    BY <1>1
  <1>7. \A r \in kept : New(r) \in e.rows
    BY <1>1
  <1>8. ASSUME NEW r \in kept PROVE Owned(e, New(r)) /\ AtHome(e, New(r))
    <2>1. r \in d.rows /\ r.id # id /\ Owned(d, r) /\ AtHome(d, r)
      BY <1>5 DEF Store
    <2>2. \A y \in kept : \E z \in e.rows : Ident(z, y)
      BY <1>2, <1>5, <1>7
    <2>3. Ident(New(r), r) /\ New(r).more = r.more /\ New(r).ref \in {r.ref, None}
      BY <1>2, <2>1
    <2>4. Owned(e, New(r))
      <3> SUFFICES ASSUME r.t \notin {"domain", "server"}, r.up # None PROVE \E x \in e.rows : x.id = r.up
        BY <2>3 DEF Owned, Ident
      <3>1. PICK x \in d.rows : x.id = r.up
        BY <2>1 DEF Owned
      <3>2. r.up # id
        BY <1>5
      <3>3. x.t \in {"server", "pool"} /\ (x.t = "pool" => x.up = None)
        BY <2>1, <3>1 DEF Store
      <3>4. x \in kept
        BY <1>5, <3>1, <3>2, <3>3 DEF None
      <3> QED BY <2>2, <3>1, <3>4 DEF Ident
    <2>5. ASSUME r.t \in {"route", "template"}, New(r).ref # None
          PROVE  \E y \in Of(e, Target(r.t)) : y.id = New(r).ref /\ y.up = r.up
      <3>1. New(r).ref = r.ref
        BY <2>3, <2>5
      <3>2. PICK y \in d.rows : y.t = Target(r.t) /\ y.id = r.ref /\ y.up = r.up
        BY <2>1, <2>5, <3>1 DEF AtHome, Of
      <3>3. y.id # id
        BY <1>3, <1>4, <2>1, <2>5, <3>1, <3>2
      <3>4. y.up # id
        BY <1>5, <2>5, <3>2
      <3>5. y \in kept
        BY <1>5, <3>3, <3>4
      <3> QED BY <2>2, <3>1, <3>2, <3>5 DEF Ident, Of
    <2>6. ASSUME r.t \in {"server", "stream"}, New(r).ref # None
          PROVE  Exists(e, "pool", New(r).ref)
      <3>1. New(r).ref = r.ref
        BY <2>3, <2>6
      <3>2. PICK y \in d.rows : y.t = "pool" /\ y.id = r.ref
        BY <2>1, <2>6, <3>1 DEF AtHome, Of, Exists
      <3>0. Target(r.t) = "pool"
        BY <2>6 DEF Target
      <3>3. y.id # id
        BY <1>3, <1>4, <2>1, <2>6, <3>0, <3>1, <3>2
      <3>4. y \in kept
        BY <1>5, <3>2, <3>3 DEF Store, None
      <3> QED BY <2>2, <3>1, <3>2, <3>4 DEF Ident, Of, Exists
    <2>7. ASSUME r.t = "server", New(r).more # None
          PROVE  \E y \in Of(e, "stream") : y.id = New(r).more /\ y.up = r.id
      <3>1. PICK y \in d.rows : y.t = "stream" /\ y.id = r.more /\ y.up = r.id
        BY <2>1, <2>3, <2>7 DEF AtHome, Of
      <3>2. y \in kept
        BY <1>5, <2>1, <3>1
      <3> QED BY <2>2, <2>3, <3>1, <3>2 DEF Ident, Of
    <2>8. ASSUME r.t = "key", r.up # None
          PROVE  \E s \in Of(e, "server") : s.id = r.up /\ s.up = r.ref
      <3>1. PICK s \in d.rows : s.t = "server" /\ s.id = r.up /\ s.up = r.ref
        BY <2>1, <2>8 DEF AtHome, Of
      <3>2. s \in kept
        BY <1>5, <2>8, <3>1
      <3> QED BY <2>2, <3>1, <3>2 DEF Ident, Of
    <2>9. r.t = "key" => New(r).ref = r.ref
      <3>1. "none" \notin gone
        BY <1>4
      <3> QED BY <3>1 DEF New, Target
    <2>10. AtHome(e, New(r))
      BY <2>3, <2>5, <2>6, <2>7, <2>8, <2>9 DEF AtHome, Ident
    <2> QED BY <2>4, <2>10
  <1>9. \A x \in e.rows : \E r \in d.rows : Ident(x, r) /\ x.flag = r.flag
    BY <1>2, <1>5, <1>6
  <1>10. ASSUME NEW x \in e.rows, NEW y \in e.rows, x.id = y.id PROVE x = y
    BY <1>2, <1>5, <1>6, <1>10 DEF Ident, Store
  <1>11. Store(e)
    <2>1. \A x \in e.rows : Owned(e, x) /\ AtHome(e, x)
      BY <1>6, <1>8
    <2>2. \A x \in e.rows : IsRow(x)
      BY <1>2, <1>5, <1>6
    <2>3. ASSUME NEW x \in e.rows
          PROVE  /\ x.id # 0 /\ x.id < e.next
                 /\ x.t # "server" => x.up < e.next
                 /\ x.t = "pool" => x.up = None
      BY <1>1, <1>9 DEF Store, Ident
    <2>4. ASSUME NEW r \in e.rows, NEW x \in e.rows, r.t # "server", x.id = r.up PROVE x.t \in {"server", "pool"}
      BY <1>9, <2>4 DEF Store, Ident
    <2>5. e.next \in Nat /\ e.next # 0
      BY <1>1 DEF Store
    <2> QED BY <1>1, <1>10, <2>1, <2>2, <2>3, <2>4, <2>5 DEF Store
  <1>12. Evolves(d, e)
    <2>1. ASSUME NEW x \in d.rows, x.t = "stream", NEW s \in e.rows, s.id = x.up PROVE \E y \in e.rows : Ident(y, x)
      <3>1. s.id # id
        BY <1>2, <1>5, <1>6 DEF Ident
      <3>2. x \in kept
        BY <1>5, <2>1, <3>1
      <3> QED BY <1>2, <1>5, <1>7, <3>2
    <2> QED BY <1>1, <1>9, <2>1 DEF Evolves, Store
  <1>13. Mild(d, e)
    BY <1>9 DEF Mild
  <1> QED BY <1>11, <1>12, <1>13 DEF e

LEMMA DeleteElsewhere ==
  ASSUME NEW d, NEW id, NEW s, Store(d), id # 0,
         \A r \in d.rows : r.id = id => \/ r.id = s /\ r.t = "server"
                                        \/ r.t \notin {"server", "pool", "none"} /\ r.up = s
  PROVE  Elsewhere(d, Delete(d, id), s)
  <1> DEFINE e == Delete(d, id)
             gone == {r.t : r \in {x \in d.rows : x.id = id}}
             kept == {r \in d.rows : r.id # id /\ (r.t \in {"domain", "server"} \/ r.up # id)}
             New(r) == IF r.ref = id /\ Target(r.t) \in gone THEN [r EXCEPT !.ref = None] ELSE r
  <1>1. e.rows = {New(r) : r \in kept}
    BY DEF Delete, ById, Store
  <1>2. ASSUME NEW r \in d.rows PROVE Ident(New(r), r) /\ (New(r) # r => r.ref = id /\ Target(r.t) \in gone)
    BY DEF Store, IsRow, RowFields, Ident, None
  <1>4. \A t : t \in gone <=> \E x \in d.rows : x.id = id /\ x.t = t
    OBVIOUS
  <1>5. \A r : r \in kept <=> r \in d.rows /\ r.id # id /\ (r.t \in {"domain", "server"} \/ r.up # id)
    OBVIOUS
  <1> HIDE DEF e, New, gone, kept
  <1>6. ASSUME NEW r \in d.rows, New(r) # r PROVE r.t # "server" /\ r.up = s
    <2>1. PICK x \in d.rows : x.id = id /\ x.t = Target(r.t)
      BY <1>2, <1>4, <1>6
    <2>2. Target(r.t) # "server" /\ (r.t \notin {"route", "template"} => Target(r.t) \in {"pool", "none"})
      BY DEF Target
    <2>3. x.t \notin {"server", "pool", "none"} /\ x.up = s
      BY <2>1, <2>2
    <2>4. CASE r.t \in {"route", "template"}
      <3>1. PICK y \in d.rows : y.id = r.ref /\ y.up = r.up
        BY <1>2, <1>6, <2>4 DEF Store, AtHome, Of, None
      <3> QED BY <1>2, <1>6, <2>1, <2>3, <2>4, <3>1 DEF Store
    <2>5. CASE r.t \notin {"route", "template"}
      BY <2>1, <2>2, <2>3, <2>5
    <2> QED BY <2>4, <2>5
  <1>7. ASSUME NEW x, x \in d.rows, x \notin e.rows PROVE x.id = s \/ (x.t # "server" /\ x.up = s)
    <2>1. CASE x \in kept
      BY <1>1, <1>6, <1>7, <2>1
    <2>2. CASE x.id = id
      BY <1>7, <2>2
    <2>3. CASE x.id # id /\ x.t \notin {"domain", "server"} /\ x.up = id
      BY <1>7, <2>3 DEF Store, Owned, None
    <2> QED BY <1>5, <1>7, <2>1, <2>2, <2>3
  <1>8. ASSUME NEW x, x \in e.rows, x \notin d.rows PROVE x.id = s \/ (x.t # "server" /\ x.up = s)
    <2>1. PICK r \in kept : x = New(r)
      BY <1>1, <1>8
    <2>2. r \in d.rows /\ Ident(x, r)
      BY <1>2, <1>5, <2>1
    <2> QED BY <1>6, <1>8, <2>1, <2>2 DEF Ident
  <1> QED BY <1>7, <1>8 DEF Elsewhere, e

-----------------------------------------------------------------------------
(***************************************************************************)
(* Steps.  A request moves, the tables evolve, and what has changed is of  *)
(* the request's server, or of the one a copy goes to.                     *)
(***************************************************************************)
Within(p, e) ==
    req[p].link # Blank.link =>
       \/ Elsewhere(db, e, S(p))
       \/ ServerAt(db, req[p].to, req[p].link[1]) /\ Elsewhere(db, e, req[p].to)

Good(p) == IInv' /\ Evolves(db, db') /\ (\A q \in Procs : q # p => req'[q] = req[q]) /\ Within(p, db')

LEMMA StepGood ==
  ASSUME IInv, NEW p \in Procs, NEW r, req' = [req EXCEPT ![p] = r], Store(db'), Evolves(db, db'),
         ReqOK(db', r, proved', stopped'), proved \subseteq proved',
         \A q \in Procs \ {p} : Rewrites(req[q]) /\ Copy(req[q]).id \in stopped' => Copy(req[q]).id \in stopped,
         Ghosts(db', stopped'), TrustIsProved', StoppedStays', Within(p, db')
  PROVE  Good(p)
  <1>1. Requests(db, req, proved, stopped) /\ Store(db)
    BY DEF IInv
  <1>2. req' = [q \in Procs |-> req'[q]] /\ req'[p] = r /\ \A q \in Procs \ {p} : req'[q] = req[q]
    BY <1>1 DEF Requests
  <1>3. ASSUME NEW q \in Procs \ {p} PROVE ReqOK(db', req'[q], proved', stopped')
    <2>1. ReqOK(db, req[q], proved, stopped)
      BY <1>1 DEF Requests
    <2>2. Rewrites(req[q]) /\ Copy(req[q]).id \in stopped' => Copy(req[q]).id \in stopped
      OBVIOUS
    <2>3. ReqOK(db', req[q], proved', stopped')
      BY <1>1, <2>1, <2>2, RequestStays
    <2> QED BY <1>2, <2>3
  <1>4. Requests(db', req', proved', stopped')
    BY <1>2, <1>3 DEF Requests
  <1> QED BY <1>2, <1>4 DEF Good, IInv

(* What is good to write. *)
Fine(p, e) == Store(e) /\ Evolves(db, e) /\ Mild(db, e) /\ Within(p, e)

LEMMA SameFine == ASSUME IInv, NEW p \in Procs PROVE Fine(p, db)
  BY EvolvesSame DEF Fine, IInv, Within

LEMMA WrittenGood ==
  ASSUME IInv, NEW p \in Procs, NEW r, req' = [req EXCEPT ![p] = r], Fine(p, db'),
         ReqOK(db', r, proved, stopped), UNCHANGED ghosts
  PROVE  Good(p)
  <1>1. Store(db) /\ Ghosts(db, stopped) /\ db.next \in Nat /\ db'.next \in Nat /\ db.next <= db'.next
    BY DEF IInv, Fine, Store, Evolves
  <1>2. proved' = proved /\ stopped' = stopped
    BY DEF ghosts
  <1>3. Ghosts(db', stopped')
    BY <1>1, <1>2 DEF Ghosts
  <1>4. ASSUME NEW x \in db'.rows, x.t \in Trusted, x.flag PROVE x.id \in proved
    <2>1. PICK r0 \in db.rows : Ident(x, r0) /\ x.flag = r0.flag
      BY <1>4 DEF Fine, Mild
    <2> QED BY <1>4, <2>1 DEF IInv, TrustIsProved, Ident
  <1>5. ASSUME NEW x \in db'.rows, x.id \in stopped PROVE x.flag
    <2>1. ~(x.id >= db.next)
      BY <1>1, <1>5 DEF Ghosts
    <2>2. PICK r0 \in db.rows : Ident(x, r0) /\ x.flag = r0.flag
      BY <2>1 DEF Fine, Mild
    <2> QED BY <1>5, <2>2 DEF IInv, StoppedStays, Ident
  <1>6. TrustIsProved' /\ StoppedStays'
    BY <1>2, <1>4, <1>5 DEF TrustIsProved, StoppedStays
  <1> QED BY <1>2, <1>3, <1>6, StepGood DEF Fine

LEMMA AnswerGood ==
  ASSUME IInv, NEW p \in Procs, Answer(p), Fine(p, db'), UNCHANGED ghosts
  PROVE  Good(p)
  <1>1. ReqOK(db', Blank, proved, stopped)
    BY BlankFits DEF Fine
  <1> QED BY <1>1, WrittenGood DEF Answer

LEMMA MoveGood ==
  ASSUME IInv, NEW p \in Procs, NEW r, req' = [req EXCEPT ![p] = r], db' = db,
         ReqOK(db, r, proved, stopped), UNCHANGED ghosts
  PROVE  Good(p)
  BY SameFine, WrittenGood

LEMMA RefusedGood ==
  ASSUME IInv, NEW p \in Procs, Answer(p), db' = db, UNCHANGED ghosts
  PROVE  Good(p)
  BY SameFine, AnswerGood

(* A row of the tables is a copy that is up to date. *)
LEMMA RowKnown ==
  ASSUME NEW d, NEW r, Store(d), r \in d.rows
  PROVE  Known(d, r) /\ Leads(d, r)
  <1>1. Known(d, r)
    BY DEF Known, Store, Ident
  <1>2. r.t \in {"route", "template"} /\ r.ref # None =>
           r.ref < d.next /\ \A x \in d.rows : x.id = r.ref => x.t = Target(r.t) /\ x.up = r.up
    BY DEF Store, AtHome, Of
  <1>3. r.t = "server" /\ r.more # None => Default(d, r.id, r.more)
    BY DEF Store, AtHome, Of, Default, IsRow, None
  <1> QED BY <1>1, <1>2, <1>3 DEF Leads

LEMMA RequestFacts ==
  ASSUME IInv, NEW p \in Procs
  PROVE  /\ ReqOK(db, req[p], proved, stopped)
         /\ req = [q \in Procs |-> req[q]]
         /\ req[p] = [f \in RequestFields |-> req[p][f]]
  BY DEF IInv, Requests, ReqOK, Copies

-----------------------------------------------------------------------------
(* Requests come in and read. *)
LEMMA EnterGood ==
  ASSUME IInv, NEW p \in Procs, NEW r, Enter(p, r), ReqOK(db, r, proved, stopped)
  PROVE  Good(p)
  BY MoveGood DEF Enter

LEMMA AuthGood ==
  ASSUME IInv, NEW p \in Procs, NEW op, AuthMiddleware(p, op), op \notin RootOps
  PROVE  Good(p)
  <1>1. PICK k \in scene.keys, link \in Links :
           Enter(p, [Blank EXCEPT !.op = op, !.pc = "find", !.root = IsRoot(k), !.link = link])
    BY DEF AuthMiddleware
  <1> DEFINE r == [Blank EXCEPT !.op = op, !.pc = "find", !.root = IsRoot(k), !.link = link]
  <1>2. /\ r = [f \in RequestFields |-> r[f]] /\ r.op = op /\ r.pc = "find"
        /\ r.srv = NoRow /\ r.row = NoRow /\ r.old = NoRow /\ r.link[1] \in Nat
    BY ResourceAssumption DEF Blank, RequestFields
  <1>3. Blank.srv = NoRow /\ Copies(db, Blank)
    BY BlankFits DEF IInv, ReqOK, Blank
  <1>4. Enter(p, r)
    BY <1>1
  <1> HIDE DEF r
  <1>5. NoRow.id = 0
    BY DEF NoRow, Row
  <1>6. Copies(db, r)
    BY <1>2, <1>3 DEF Copies
  <1>7. Placed(r, proved) /\ Aims(db, r)
    BY <1>2, <1>5 DEF Placed, Aims, Chosen, ServerWrites
  <1>8. Current(r, stopped)
    BY <1>2 DEF Current, Rewrites
  <1> QED BY <1>4, <1>6, <1>7, <1>8, EnterGood DEF ReqOK

Plain(op) == op \notin ServerWrites /\ op \notin {"templates_copy", "servers_destroy"}

LEMMA RootGood ==
  ASSUME IInv, NEW p \in Procs, NEW op, RootMiddleware(p, op), Plain(op)
  PROVE  Good(p)
  <1> DEFINE r == [Blank EXCEPT !.op = op, !.pc = "do", !.root = TRUE]
  <1>1. Enter(p, r)
    BY DEF RootMiddleware
  <1>2. /\ r = [f \in RequestFields |-> r[f]] /\ r.op = op /\ r.pc = "do"
        /\ r.srv = NoRow /\ r.row = NoRow /\ r.old = NoRow /\ r.link = Blank.link
    BY DEF Blank, RequestFields
  <1>3. Blank.srv = NoRow /\ Copies(db, Blank)
    BY BlankFits DEF IInv, ReqOK, Blank
  <1> HIDE DEF r
  <1>5. NoRow.id = 0
    BY DEF NoRow, Row
  <1>6. Copies(db, r)
    BY <1>2, <1>3 DEF Copies
  <1>7. Placed(r, proved) /\ Aims(db, r)
    BY <1>2, <1>5 DEF Placed, Aims, Chosen, Plain
  <1>8. Current(r, stopped)
    BY <1>2 DEF Current, Rewrites, Plain
  <1> QED BY <1>1, <1>6, <1>7, <1>8, EnterGood DEF ReqOK

LEMMA ServerAuthGood ==
  ASSUME IInv, NEW p \in Procs, NEW op, ServerAuthMiddleware(p, op), Plain(op)
  PROVE  Good(p)
  <1>1. PICK s \in Of(db, "server") : Enter(p, [Blank EXCEPT !.op = op, !.pc = "do", !.srv = s])
    BY DEF ServerAuthMiddleware
  <1> DEFINE r == [Blank EXCEPT !.op = op, !.pc = "do", !.srv = s]
  <1>2. /\ r = [f \in RequestFields |-> r[f]] /\ r.op = op /\ r.pc = "do"
        /\ r.srv = s /\ r.row = NoRow /\ r.old = NoRow /\ r.link = Blank.link /\ r.link[1] \in Nat
    BY DEF Blank, RequestFields, None
  <1>3. Known(db, NoRow) /\ Leads(db, NoRow) /\ Known(db, s) /\ Leads(db, s) /\ s.t = "server"
    BY BlankFits, RowKnown DEF IInv, ReqOK, Blank, Copies, Of
  <1>4. Enter(p, r)
    BY <1>1
  <1> HIDE DEF r
  <1>6. Copies(db, r)
    BY <1>2, <1>3 DEF Copies
  <1>7. Placed(r, proved) /\ Aims(db, r)
    BY <1>2, <1>3 DEF Placed, Aims, Chosen, Plain
  <1>8. Current(r, stopped)
    BY <1>2 DEF Current, Rewrites, Plain
  <1> QED BY <1>4, <1>6, <1>7, <1>8, EnterGood DEF ReqOK

LEMMA ServerGood ==
  ASSUME IInv, NEW p \in Procs, NEW op, RequireServer(p, op)
  PROVE  Good(p)
  <1>1. CASE Answer(p) /\ db' = db /\ UNCHANGED ghosts
    BY <1>1, RefusedGood
  <1>2. CASE \E s \in ServerByPermalink(db, req[p].link[1], req[p].link[2]) :
                req' = [req EXCEPT ![p].srv = s, ![p].row = s, ![p].pc = "do"]
    <2>1. PICK s \in db.rows : /\ s.t = "server" /\ s.up = req[p].link[1]
                               /\ req' = [req EXCEPT ![p].srv = s, ![p].row = s, ![p].pc = "do"]
      BY <1>2 DEF ServerByPermalink, Of
    <2> DEFINE r == [req[p] EXCEPT !.srv = s, !.row = s, !.pc = "do"]
    <2>2. req' = [req EXCEPT ![p] = r]
      BY <2>1, RequestFacts
    <2>3. /\ r = [f \in RequestFields |-> r[f]] /\ r.op = req[p].op /\ r.pc = "do" /\ r.srv = s /\ r.row = s
          /\ r.old = req[p].old /\ r.link = req[p].link
      BY RequestFacts DEF RequestFields
    <2> HIDE DEF r
    <2>4. Known(db, s) /\ Leads(db, s) /\ Known(db, req[p].old) /\ Leads(db, req[p].old)
      BY RowKnown, RequestFacts DEF IInv, ReqOK, Copies
    <2>5. Copies(db, r)
      BY <2>3, <2>4, RequestFacts DEF ReqOK, Copies
    <2>6. Placed(r, proved) /\ Aims(db, r)
      <3>1. r.op \in RootOps => r.link = Blank.link
        BY <2>3, RequestFacts DEF ReqOK, Placed
      <3>2. s.id # 0
        BY DEF IInv, Store
      <3> QED BY <2>1, <2>3, <3>1, <3>2 DEF Placed, Aims, Chosen
    <2>7. Current(r, stopped)
      <3>1. r.op = "templates_copy" => ~Rewrites(r)
        BY <2>3 DEF Rewrites, ServerWrites
      <3> QED BY <2>3, <3>1 DEF Current, Copy, IInv, StoppedStays
    <2> QED BY <2>2, <2>5, <2>6, <2>7, MoveGood DEF ReqOK, RequireServer
  <1> QED BY <1>1, <1>2 DEF RequireServer

LEMMA BeginGood == ASSUME IInv, NEW p \in Procs, NEW op, Begin(p, op), op \notin RootOps PROVE Good(p)
  BY AuthGood, ServerGood DEF Begin

(* A resource is read that is of the kind wanted and of the server found. *)
LEMMA RequireGood ==
  ASSUME IInv, NEW p \in Procs, NEW op, NEW found, NEW pc, Require(p, op, found, pc),
         Kind(op) # "none", pc \in Chosen,
         op \in {"domains_verify", "track_verify"} => pc = "check",
         op = "templates_copy" => pc = "target",
         \A r \in found : r \in db.rows /\ r.t = Kind(op) /\ (Kind(op) \notin {"pool", "address"} => r.up = S(p))
  PROVE  Good(p)
  <1>1. CASE Answer(p) /\ db' = db /\ UNCHANGED ghosts
    BY <1>1, RefusedGood
  <1>2. CASE \E x \in found : req' = [req EXCEPT ![p].row = x, ![p].pc = pc]
    <2>1. PICK x \in db.rows : /\ x.t = Kind(op) /\ (Kind(op) \notin {"pool", "address"} => x.up = S(p))
                               /\ req' = [req EXCEPT ![p].row = x, ![p].pc = pc]
      BY <1>2
    <2> DEFINE r == [req[p] EXCEPT !.row = x, !.pc = pc]
    <2>2. req' = [req EXCEPT ![p] = r]
      BY <2>1, RequestFacts
    <2>3. /\ r = [f \in RequestFields |-> r[f]] /\ r.op = req[p].op /\ r.pc = pc /\ r.srv = req[p].srv /\ r.row = x
          /\ r.old = req[p].old /\ r.link = req[p].link /\ req[p].op = op /\ req[p].pc = "do"
      <3>1. req[p].op = op /\ req[p].pc = "do"
        BY DEF Require, At
      <3>2. req[p] = [f \in RequestFields |-> req[p][f]]
        BY RequestFacts
      <3> QED BY <3>1, <3>2 DEF RequestFields
    <2> HIDE DEF r
    <2>4. /\ Known(db, x) /\ Leads(db, x) /\ Known(db, req[p].old) /\ Leads(db, req[p].old)
          /\ Known(db, req[p].srv) /\ Leads(db, req[p].srv) /\ x.id # 0
      <3>1. Store(db)
        BY DEF IInv
      <3>2. x.id # 0
        BY <3>1 DEF Store
      <3> QED BY <3>1, <3>2, RowKnown, RequestFacts DEF ReqOK, Copies
    <2>5. Copies(db, r)
      BY <2>3, <2>4, RequestFacts DEF ReqOK, Copies
    <2>6. Placed(r, proved)
      <3>1. pc # "do" /\ op # "keys_create"
        BY DEF Chosen, Kind
      <3> QED BY <2>1, <2>3, <2>4, <3>1, RequestFacts DEF Placed, ReqOK, S
    <2>7. Aims(db, r)
      <3>1. op # "servers_create"
        BY DEF Kind
      <3> QED BY <2>3, <3>1, RequestFacts DEF Aims, ReqOK
    <2>8. Current(r, stopped)
      <3>1. r.op = "templates_copy" => ~Rewrites(r)
        BY <2>3 DEF Rewrites, ServerWrites
      <3> QED BY <2>3, <3>1 DEF Current, Copy, IInv, StoppedStays
    <2> QED BY <2>2, <2>5, <2>6, <2>7, <2>8, MoveGood DEF ReqOK, Require
  <1> QED BY <1>1, <1>2 DEF Require

-----------------------------------------------------------------------------
(* Writes to rows of one's own server are fine. *)
LEMMA NewRow ==
  ASSUME NEW t, NEW up \in Nat, NEW name, NEW ref \in Nat
  PROVE  LET row == Row(t, up, name, ref) IN
         /\ IsRow(row) /\ ~row.flag /\ row.more = None
         /\ row.t = t /\ row.up = up /\ row.name = name /\ row.ref = ref /\ row.id = 0
  BY DEF Row, IsRow, RowFields, None

LEMMA ServerFacts ==
  ASSUME IInv, NEW p \in Procs
  PROVE  /\ S(p) \in Nat /\ S(p) < db.next
         /\ \A x \in db.rows : x.id = S(p) => x.t = "server"
         /\ req[p].link # Blank.link => ServerAt(db, S(p), req[p].link[1])
  <1>1. Known(db, req[p].srv)
    BY RequestFacts DEF ReqOK, Copies
  <1>2. req[p].srv.id # 0 => req[p].srv.t = "server" /\ (req[p].link # Blank.link => req[p].srv.up = req[p].link[1])
    BY RequestFacts DEF ReqOK, Placed
  <1>3. \A x \in db.rows : x.id # 0
    BY DEF IInv, Store
  <1> QED BY <1>1, <1>2, <1>3 DEF Known, Ident, IsRow, S, ServerAt

LEMMA OwnInsert ==
  ASSUME IInv, NEW p \in Procs, NEW row, IsRow(row), ~row.flag, row.more = None, row.up = S(p),
         row.t \notin {"server", "pool", "key"}, CanInsert(db, row),
         row.t \in {"route", "template"} => \A x \in db.rows : x.id = row.ref => x.up = S(p)
  PROVE  Fine(p, Insert(db, row))
  <1>1. AtHome(db, row)
    <2>1. RefHolds(db, row)
      BY DEF CanInsert
    <2>2. row.t \in {"route", "template"} => Target(row.t) # "none"
      BY DEF Target
    <2>3. row.t = "stream" => Target(row.t) = "pool"
      BY DEF Target
    <2> QED BY <2>1, <2>2, <2>3 DEF AtHome, RefHolds, Exists, Of
  <1>2. Owned(db, row)
    BY DEF Owned, CanInsert, ById
  <1>3. Fits(db, row)
    BY <1>1, <1>2, ServerFacts DEF Fits
  <1> QED BY <1>3, InsertStore DEF Fine, Within, IInv

LEMMA ChangeFine ==
  ASSUME IInv, NEW p \in Procs, NEW e, NEW id, Changed(db, e, id),
         \A x \in e.rows : x.id = id => IsRow(x) /\ AtHome(db, x),
         \A x \in e.rows, r \in db.rows : x.id = id /\ r.id = id => x.flag = r.flag,
         req[p].link # Blank.link =>
            \A r \in db.rows : r.id = id => r.id = S(p) \/ (r.t # "server" /\ r.up = S(p))
  PROVE  Fine(p, e)
  <1>1. Store(db)
    BY DEF IInv
  <1>2. Store(e) /\ Evolves(db, e) /\ Mild(db, e)
    BY <1>1, ChangedStore, ChangedMild
  <1>3. Within(p, e)
    BY ChangedElsewhere DEF Within
  <1> QED BY <1>2, <1>3 DEF Fine

LEMMA DeleteFine ==
  ASSUME IInv, NEW p \in Procs, NEW id, id # 0,
         \A r \in db.rows : r.id = id => r.t \notin {"stream", "none"},
         req[p].link # Blank.link =>
            \A r \in db.rows : r.id = id => \/ r.id = S(p) /\ r.t = "server"
                                            \/ r.t \notin {"server", "pool", "none"} /\ r.up = S(p)
  PROVE  Fine(p, Delete(db, id))
  <1>1. Store(db)
    BY DEF IInv
  <1>2. Store(Delete(db, id)) /\ Evolves(db, Delete(db, id)) /\ Mild(db, Delete(db, id))
    BY <1>1, DeleteStore
  <1>3. Within(p, Delete(db, id))
    BY <1>1, DeleteElsewhere DEF Within
  <1> QED BY <1>2, <1>3 DEF Fine

(* The row a request has chosen, as it is now. *)
LEMMA ChosenFacts ==
  ASSUME IInv, NEW p \in Procs, req[p].pc \in Chosen, Kind(req[p].op) # "none"
  PROVE  /\ req[p].row.id # 0
         /\ \A x \in db.rows : x.id = req[p].row.id =>
               x.t = Kind(req[p].op) /\ (Kind(req[p].op) \notin {"pool", "address"} => x.up = S(p))
         /\ req[p].op \in RootOps => req[p].link = Blank.link
  <1>1. Known(db, req[p].row) /\ Placed(req[p], proved)
    BY RequestFacts DEF ReqOK, Copies
  <1> QED BY <1>1 DEF Known, Ident, Placed, S

LEMMA DestroyGood ==
  ASSUME IInv, NEW p \in Procs, NEW op, At(p, op, "write"), Kind(op) \notin {"none", "server", "stream"},
         Kind(op) \in {"pool", "address"} => op \in RootOps,
         Write(p, TRUE, Delete(db, req[p].row.id))
  PROVE  Good(p)
  <1>1. req[p].op = op /\ req[p].pc \in Chosen
    BY DEF At, Chosen
  <1>2. Answer(p) /\ db' = Delete(db, req[p].row.id) /\ UNCHANGED ghosts
    BY DEF Write, Statement
  <1>3. Fine(p, Delete(db, req[p].row.id))
    BY <1>1, DeleteFine, ChosenFacts
  <1> QED BY <1>2, <1>3, AnswerGood

LEMMA CreateGood ==
  ASSUME IInv, NEW p \in Procs, NEW row, NEW e, Write(p, CanInsert(db, row), e), e = Insert(db, row),
         IsRow(row), ~row.flag, row.more = None, row.up = S(p), row.t \notin {"server", "pool", "key"},
         row.t \in {"route", "template"} => \A x \in db.rows : x.id = row.ref => x.up = S(p)
  PROVE  Good(p)
  <1>1. Answer(p) /\ (db' = db \/ (CanInsert(db, row) /\ db' = Insert(db, row))) /\ UNCHANGED ghosts
    BY DEF Write, Statement
  <1>2. CASE db' = db
    BY <1>1, <1>2, RefusedGood
  <1>3. CASE CanInsert(db, row) /\ db' = Insert(db, row)
    BY <1>1, <1>3, OwnInsert, AnswerGood
  <1> QED BY <1>1, <1>2, <1>3

(* References are as they were when only other columns have changed. *)
LEMMA HomeAlike ==
  ASSUME NEW d, NEW r, NEW x, AtHome(d, r), Ident(x, r), x.ref = r.ref, r.t = "server" => x.more = r.more
  PROVE  AtHome(d, x)
  BY DEF AtHome, Ident

LEMMA EditedFacts ==
  ASSUME NEW c, IsRow(c), NEW ask \in Asks
  PROVE  LET x == Edited(c, ask) IN
         /\ IsRow(x) /\ Ident(x, c) /\ x.ref = c.ref /\ x.more = c.more
         /\ ask = "stop" => x.flag
         /\ ask = "none" => x.flag = c.flag
  <1> DEFINE x == Edited(c, ask)
  <1>1. c = [f \in RowFields |-> c[f]] /\ c.flag \in BOOLEAN
    BY DEF IsRow
  <1>2. /\ x = [f \in RowFields |-> x[f]] /\ x.t = c.t /\ x.id = c.id /\ x.up = c.up /\ x.name = c.name
        /\ x.ref = c.ref /\ x.more = c.more
    BY <1>1 DEF Edited, RowFields
  <1>3. x.flag = IF ask = "none" THEN c.flag ELSE ask = "stop"
    BY <1>1, Zenon DEF Edited, RowFields
  <1> HIDE DEF x
  <1>4. x.flag \in BOOLEAN /\ (ask = "stop" => x.flag) /\ (ask = "none" => x.flag = c.flag)
    BY <1>1, <1>3, Zenon
  <1>5. IsRow(x)
    BY <1>2, <1>4 DEF IsRow
  <1> QED BY <1>2, <1>4, <1>5 DEF Ident, x

(* What is noted of a row that is taken out of service or put back. *)
LEMMA NotedGood ==
  ASSUME IInv, NEW p \in Procs, Answer(p), NEW id, NEW ask, Note(p, id, ask), id \in Nat, id # 0, id < db.next,
         Changed(db, db', id),
         \A x \in db'.rows : x.id = id => /\ IsRow(x) /\ AtHome(db, x) /\ x.t \notin Trusted
                                          /\ ask = "stop" => x.flag
                                          /\ ask = "none" /\ id \in stopped => x.flag,
         Within(p, db')
  PROVE  Good(p)
  <1>1. Store(db) /\ Ghosts(db, stopped)
    BY DEF IInv
  <1>2. Store(db') /\ Evolves(db, db')
    BY <1>1, ChangedStore
  <1>4. proved' = proved /\ stopped' \subseteq stopped \union {id}
    BY DEF Note
  <1>5. db'.next = db.next
    BY DEF Changed
  <1>6. Ghosts(db', stopped')
    BY <1>1, <1>4, <1>5 DEF Ghosts
  <1>7. ASSUME NEW q \in Procs \ {p}, Rewrites(req[q]), Copy(req[q]).id \in stopped' PROVE Copy(req[q]).id \in stopped
    <2> SUFFICES ASSUME Copy(req[q]).id = id, id \notin stopped PROVE FALSE
      BY <1>4, <1>7
    <2>1. ~Overlapped(p, id)
      BY <1>7 DEF Note
    <2>2. Holds(q, id)
      BY <1>7 DEF Holds, Rewrites, Copy
    <2> QED BY <2>1, <2>2 DEF Overlapped
  <1>8. TrustIsProved'
    <2> SUFFICES ASSUME NEW x \in db'.rows, x.t \in Trusted, x.flag PROVE x.id \in proved
      BY <1>4 DEF TrustIsProved
    <2>1. x.id # id
      OBVIOUS
    <2>2. x \in db.rows
      BY <2>1 DEF Changed
    <2> QED BY <2>2 DEF IInv, TrustIsProved
  <1>9. StoppedStays'
    <2> SUFFICES ASSUME NEW x \in db'.rows, x.id \in stopped' PROVE x.flag
      BY DEF StoppedStays
    <2>1. CASE x.id # id
      <3>1. x \in db.rows
        BY <2>1 DEF Changed
      <3> QED BY <1>4, <2>1, <3>1 DEF IInv, StoppedStays
    <2>2. CASE x.id = id
      <3>1. ask = "stop" \/ (ask = "none" /\ id \in stopped)
        BY <2>2 DEF Note
      <3> QED BY <2>2, <3>1
    <2> QED BY <2>1, <2>2
  <1>10. ReqOK(db', Blank, proved', stopped')
    BY <1>2, BlankFits
  <1> QED BY <1>2, <1>4, <1>6, <1>7, <1>8, <1>9, <1>10, StepGood DEF Answer

LEMMA NoteGood ==
  ASSUME IInv, NEW p \in Procs, Answer(p), NEW id, NEW ask, Note(p, id, ask), id \in Nat, id # 0, id < db.next,
         Changed(db, db', id),
         \A x \in db'.rows : x.id = id => /\ IsRow(x) /\ AtHome(db, x) /\ x.t \notin Trusted
                                          /\ ask = "stop" => x.flag
                                          /\ ask = "none" /\ id \in stopped => x.flag,
         req[p].link # Blank.link =>
            \A r \in db.rows : r.id = id => r.id = S(p) \/ (r.t # "server" /\ r.up = S(p))
  PROVE  Good(p)
  <1>1. Within(p, db')
    BY ChangedElsewhere DEF Within
  <1> QED BY <1>1, NotedGood

-----------------------------------------------------------------------------
(***************************************************************************)
(* The requests, one by one                                                *)
(***************************************************************************)
LEMMA AbandonGood == ASSUME IInv, NEW p \in Procs, Abandon(p) PROVE Good(p)
  BY RefusedGood DEF Abandon

(* A server, its stream, and the reference. *)
LEMMA ServersCreateGood == ASSUME IInv, NEW p \in Procs, ServersCreate(p) PROVE Good(p)
  <1>0. Store(db) /\ ReqOK(db, req[p], proved, stopped)
    BY RequestFacts DEF IInv
  <1>1. CASE AuthMiddleware(p, "servers_create")
    BY <1>1, AuthGood DEF RootOps
  <1>2. CASE db' = db /\ Answer(p) /\ UNCHANGED ghosts
    BY <1>2, RefusedGood
  <1>3. CASE /\ At(p, "servers_create", "find")
             /\ Free(db, "server", req[p].link[1], req[p].link[2])
             /\ db' = CreateServer(db, req[p].link[1], req[p].link[2])
             /\ req' = [req EXCEPT ![p].pc = "stream", ![p].to = db.next]
             /\ UNCHANGED ghosts
    <2> DEFINE row == Row("server", req[p].link[1], req[p].link[2], None)
               r == [req[p] EXCEPT !.pc = "stream", !.to = db.next]
    <2>1. req' = [req EXCEPT ![p] = r]
      BY <1>3, RequestFacts
    <2>2. /\ r = [f \in RequestFields |-> r[f]] /\ r.op = "servers_create" /\ r.pc = "stream" /\ r.to = db.next
          /\ r.srv = req[p].srv /\ r.row = req[p].row /\ r.old = req[p].old /\ r.link = req[p].link
      <3>1. req[p] = [f \in RequestFields |-> req[p][f]] /\ req[p].op = "servers_create"
        BY <1>3, RequestFacts DEF At
      <3> QED BY <3>1 DEF RequestFields
    <2>3. req[p].link[1] \in Nat
      BY <1>0 DEF ReqOK, Copies
    <2>4. Fits(db, row)
      BY <2>3, NewRow DEF Fits, AtHome, Owned, None
    <2>5. Store(db') /\ Evolves(db, db') /\ Mild(db, db') /\ \A s : Elsewhere(db, db', s)
      <3>1. row.t = "server"
        BY DEF Row
      <3>2. db' = Insert(db, row)
        BY <1>3 DEF CreateServer
      <3> HIDE DEF row
      <3> QED BY <1>0, <2>4, <3>1, <3>2, InsertStore
    <2>6. Fine(p, db')
      BY <2>5 DEF Fine, Within
    <2>7. ReqOK(db', req[p], proved, stopped)
      BY <1>0, <2>5, RequestStays
    <2> HIDE DEF r
    <2>8. Copies(db', r)
      BY <2>2, <2>7 DEF ReqOK, Copies
    <2>9. Placed(r, proved)
      BY <2>2, <2>7 DEF ReqOK, Placed, Chosen, ServerWrites, RootOps
    <2>10. ServerAt(db', db.next, req[p].link[1])
      <3>1. db'.next = db.next + 1 /\ db'.rows = db.rows \union {[row EXCEPT !.id = db.next]}
        BY <1>3 DEF CreateServer, Insert
      <3>2. db.next \in Nat /\ \A x \in db.rows : x.id # db.next
        BY <1>0 DEF Store, IsRow
      <3>3. [row EXCEPT !.id = db.next].t = "server" /\ [row EXCEPT !.id = db.next].up = req[p].link[1]
        BY DEF Row
      <3> DEFINE new == [row EXCEPT !.id = db.next]
      <3>4. db'.rows = db.rows \union {new} /\ new.t = "server" /\ new.up = req[p].link[1]
        BY <3>1, <3>3
      <3> HIDE DEF row, new
      <3> QED BY <3>1, <3>2, <3>4 DEF ServerAt
    <2>11. Aims(db', r)
      BY <2>2, <2>10 DEF Aims
    <2>12. Current(r, stopped)
      BY <2>2 DEF Current, Rewrites, RewriteOps, ServerWrites
    <2> QED BY <1>3, <2>1, <2>6, <2>8, <2>9, <2>11, <2>12, WrittenGood DEF ReqOK
  <1>4. CASE /\ At(p, "servers_create", "stream")
             /\ Exists(db, "server", req[p].to)
             /\ db' = CreateStream(db, req[p].to, "outbound", None)
             /\ req' = [req EXCEPT ![p].pc = "default", ![p].n = db.next]
             /\ UNCHANGED ghosts
    <2> DEFINE row == Row("stream", req[p].to, "outbound", None)
               r == [req[p] EXCEPT !.pc = "default", !.n = db.next]
    <2>1. req' = [req EXCEPT ![p] = r]
      BY <1>4, RequestFacts
    <2>2. /\ r = [f \in RequestFields |-> r[f]] /\ r.op = "servers_create" /\ r.pc = "default" /\ r.n = db.next
          /\ r.srv = req[p].srv /\ r.row = req[p].row /\ r.old = req[p].old /\ r.link = req[p].link /\ r.to = req[p].to
      <3>1. req[p] = [f \in RequestFields |-> req[p][f]] /\ req[p].op = "servers_create"
        BY <1>4, RequestFacts DEF At
      <3> QED BY <3>1 DEF RequestFields
    <2>3. ServerAt(db, req[p].to, req[p].link[1])
      BY <1>0, <1>4 DEF At, ReqOK, Aims
    <2>4. IsRow(row) /\ ~row.flag /\ row.more = None /\ row.t = "stream" /\ row.up = req[p].to /\ row.ref = None
      BY <2>3, NewRow DEF ServerAt, None
    <2> HIDE DEF row
    <2>5. Fits(db, row)
      BY <1>4, <2>3, <2>4 DEF Fits, AtHome, Owned, None, ServerAt, Exists, Of
    <2>6. db' = Insert(db, row)
      BY <1>4 DEF CreateStream, row
    <2>7. Store(db') /\ Evolves(db, db') /\ Mild(db, db') /\ Elsewhere(db, db', req[p].to)
      BY <1>0, <2>4, <2>5, <2>6, InsertStore
    <2>8. Fine(p, db')
      BY <2>3, <2>7 DEF Fine, Within
    <2>9. ReqOK(db', req[p], proved, stopped)
      BY <1>0, <2>7, RequestStays
    <2> HIDE DEF r
    <2>10. Copies(db', r)
      BY <2>2, <2>9 DEF ReqOK, Copies
    <2>11. Placed(r, proved)
      BY <2>2, <2>9 DEF ReqOK, Placed, Chosen, ServerWrites, RootOps
    <2>12. Default(db', r.to, r.n)
      <3>1. db'.next = db.next + 1 /\ db'.rows = db.rows \union {[row EXCEPT !.id = db.next]}
        BY <2>6 DEF Insert
      <3>2. db.next \in Nat /\ db.next # 0 /\ \A x \in db.rows : x.id # db.next
        BY <1>0 DEF Store, IsRow
      <3>3. /\ [row EXCEPT !.id = db.next].t = "stream" /\ [row EXCEPT !.id = db.next].up = req[p].to
            /\ [row EXCEPT !.id = db.next].id = db.next
        BY <2>4 DEF IsRow, RowFields
      <3> DEFINE new == [row EXCEPT !.id = db.next]
      <3>4. db'.rows = db.rows \union {new} /\ new.t = "stream" /\ new.up = req[p].to /\ new.id = db.next
        BY <3>1, <3>3
      <3> HIDE DEF new
      <3> QED BY <2>2, <3>1, <3>2, <3>4 DEF Default
    <2>13. Aims(db', r)
      BY <1>4, <2>2, <2>9, <2>12 DEF Aims, ReqOK, At
    <2>14. Current(r, stopped)
      BY <2>2 DEF Current, Rewrites, RewriteOps, ServerWrites
    <2> QED BY <1>4, <2>1, <2>8, <2>10, <2>11, <2>13, <2>14, WrittenGood DEF ReqOK
  <1>5. CASE At(p, "servers_create", "default") /\ Write(p, TRUE, SetDefaultStream(db, req[p].to, req[p].n))
    <2> DEFINE id == req[p].to
               n  == req[p].n
               g  == [r \in db.rows |-> [r EXCEPT !.more = n]]
               e  == SetDefaultStream(db, id, n)
    <2>1. Answer(p) /\ db' = e /\ UNCHANGED ghosts
      BY <1>5 DEF Write, Statement
    <2>2. ServerAt(db, id, req[p].link[1]) /\ Default(db, id, n)
      BY <1>0, <1>5 DEF At, ReqOK, Aims
    <2>3. e = [db EXCEPT !.rows = {IF r.id = id THEN g[r] ELSE r : r \in @}]
      BY DEF SetDefaultStream, Set
    <2>4. ASSUME NEW r \in db.rows
          PROVE  /\ Ident(g[r], r) /\ IsRow(g[r]) /\ g[r].flag = r.flag /\ g[r].more = n /\ g[r].ref = r.ref
      BY <1>0, <2>2 DEF Store, IsRow, RowFields, Ident, Default
    <2> HIDE DEF g, e, id, n
    <2>5. Changed(db, e, id) /\ \A x \in e.rows : x.id = id => \E r \in db.rows : r.id = id /\ x = g[r]
      BY <1>0, <2>3, <2>4, SetChanges
    <2>6. ASSUME NEW x \in e.rows, x.id = id PROVE IsRow(x) /\ AtHome(db, x)
      <3>1. PICK r \in db.rows : r.id = id /\ x = g[r]
        BY <2>5, <2>6
      <3>2. x.t = "server" /\ x.id = id /\ x.more = n /\ x.ref = r.ref /\ r.t = "server"
        BY <2>2, <2>4, <3>1 DEF ServerAt, Ident
      <3>3. AtHome(db, r)
        BY <1>0 DEF Store
      <3>4. \E y \in Of(db, "stream") : y.id = n /\ y.up = id
        BY <2>2, <3>1 DEF Default, Of
      <3> QED BY <2>4, <3>1, <3>2, <3>3, <3>4 DEF AtHome
    <2>7. \A x \in e.rows, r \in db.rows : x.id = id /\ r.id = id => x.flag = r.flag
      BY <1>0, <2>4, <2>5 DEF Store
    <2>8. Store(e) /\ Evolves(db, e) /\ Mild(db, e)
      BY <1>0, <2>5, <2>6, <2>7, ChangedStore, ChangedMild
    <2>9. Elsewhere(db, e, id)
      BY <2>5, ChangedElsewhere
    <2>10. Fine(p, e)
      BY <2>2, <2>8, <2>9 DEF Fine, Within, id
    <2> QED BY <2>1, <2>10, AnswerGood
  <1> QED BY <1>1, <1>2, <1>3, <1>4, <1>5 DEF ServersCreate, CreateServer, CreateStream

(* The whole row is written, but for the pool. *)
LEMMA WriteServerGood ==
  ASSUME IInv, NEW p \in Procs, NEW op \in ServerWrites, At(p, op, "do"), NEW ask \in Asks, WriteServer(p, ask)
  PROVE  Good(p)
  <1> DEFINE srv == req[p].srv
             row == Edited(srv, ask)
             g   == [r \in db.rows |-> [row EXCEPT !.ref = r.ref]]
             e   == UpdateServer(db, row)
  <1>0. Store(db) /\ ReqOK(db, req[p], proved, stopped) /\ req[p].op = op /\ req[p].pc = "do"
    BY RequestFacts DEF IInv, At
  <1>1. Answer(p) /\ db' = e /\ Note(p, srv.id, ask)
    BY DEF WriteServer, Statement, S
  <1>2. /\ Known(db, srv) /\ Leads(db, srv) /\ srv.t = "server" /\ srv.id # 0 /\ req[p].row = srv
        /\ srv.id \in stopped => srv.flag
    <2>1. op # "templates_copy"
      BY DEF ServerWrites
    <2> QED BY <1>0, <2>1 DEF ReqOK, Copies, Placed, Current, Rewrites, Copy
  <1>3. IsRow(row) /\ Ident(row, srv) /\ row.more = srv.more /\ (ask = "stop" => row.flag) /\ (ask = "none" => row.flag = srv.flag)
    BY <1>2, EditedFacts DEF Known
  <1>4. e = [db EXCEPT !.rows = {IF r.id = srv.id THEN g[r] ELSE r : r \in @}]
    <2>1. row.id = srv.id
      BY <1>3 DEF Ident
    <2> HIDE DEF row, srv
    <2> QED BY <2>1 DEF UpdateServer, Set
  <1> HIDE DEF row, e
  <1>5. ASSUME NEW r \in db.rows
        PROVE  g[r].t = row.t /\ g[r].id = row.id /\ g[r].up = row.up /\ g[r].ref = r.ref /\ g[r].more = row.more
               /\ g[r].flag = row.flag /\ IsRow(g[r])
    <2>1. r.ref \in Nat
      BY <1>0 DEF Store, IsRow
    <2> QED BY <1>3, <2>1 DEF IsRow, RowFields
  <1> HIDE DEF g
  <1>6. \A r \in db.rows : r.id = srv.id => Ident(g[r], r)
    BY <1>2, <1>3, <1>5 DEF Known, Ident
  <1>7. Changed(db, e, srv.id) /\ \A x \in e.rows : x.id = srv.id => \E r \in db.rows : r.id = srv.id /\ x = g[r]
    BY <1>0, <1>4, <1>6, SetChanges
  <1>8. ASSUME NEW x \in e.rows, x.id = srv.id
        PROVE  /\ IsRow(x) /\ AtHome(db, x) /\ x.t \notin Trusted
               /\ ask = "stop" => x.flag
               /\ ask = "none" /\ srv.id \in stopped => x.flag
    <2>1. PICK r \in db.rows : r.id = srv.id /\ x = g[r]
      BY <1>7, <1>8
    <2>2. x.t = "server" /\ r.t = "server" /\ x.ref = r.ref /\ x.more = srv.more /\ x.id = srv.id /\ x.flag = row.flag
      BY <1>2, <1>3, <1>5, <2>1 DEF Ident, Known
    <2>3. AtHome(db, r)
      BY <1>0 DEF Store
    <2>4. x.more # None => \E y \in Of(db, "stream") : y.id = x.more /\ y.up = x.id
      BY <1>2, <2>1, <2>2 DEF Leads, Default, Of
    <2>5. AtHome(db, x)
      BY <2>2, <2>3, <2>4 DEF AtHome
    <2>6. (ask = "stop" => x.flag) /\ (ask = "none" /\ srv.id \in stopped => x.flag)
      BY <1>2, <1>3, <2>2
    <2> QED BY <1>5, <2>1, <2>2, <2>5, <2>6 DEF Trusted
  <1>9. srv.id \in Nat /\ srv.id < db.next /\ srv.id = S(p)
    BY <1>2 DEF Known, IsRow, S
  <1> HIDE DEF srv
  <1> QED BY <1>1, <1>2, <1>7, <1>8, <1>9, NoteGood

LEMMA ServersUpdateGood == ASSUME IInv, NEW p \in Procs, ServersUpdate(p) PROVE Good(p)
  <1>1. CASE Begin(p, "servers_update")
    BY <1>1, BeginGood DEF RootOps
  <1>2. CASE At(p, "servers_update", "do") /\ WriteServer(p, "none")
    BY <1>2, WriteServerGood DEF ServerWrites, Asks
  <1>3. CASE Write(p, FALSE, db)
    BY <1>3, RefusedGood DEF Write, Statement
  <1> QED BY <1>1, <1>2, <1>3 DEF ServersUpdate

LEMMA ServersSuspendGood == ASSUME IInv, NEW p \in Procs, ServersSuspend(p) \/ ServersUnsuspend(p) PROVE Good(p)
  <1>1. CASE Begin(p, "servers_suspend") \/ Begin(p, "servers_unsuspend")
    BY <1>1, BeginGood DEF RootOps
  <1>2. CASE At(p, "servers_suspend", "do") /\ WriteServer(p, "stop")
    BY <1>2, WriteServerGood DEF ServerWrites, Asks
  <1>3. CASE At(p, "servers_unsuspend", "do") /\ WriteServer(p, "go")
    BY <1>3, WriteServerGood DEF ServerWrites, Asks
  <1> QED BY <1>1, <1>2, <1>3 DEF ServersSuspend, ServersUnsuspend

LEMMA ServersDestroyGood == ASSUME IInv, NEW p \in Procs, ServersDestroy(p) PROVE Good(p)
  <1>1. CASE Begin(p, "servers_destroy")
    BY <1>1, BeginGood DEF RootOps
  <1>2. CASE At(p, "servers_destroy", "do") /\ Write(p, TRUE, DeleteServer(db, S(p)))
    <2>1. Answer(p) /\ db' = Delete(db, S(p)) /\ UNCHANGED ghosts
      BY <1>2 DEF Write, Statement, DeleteServer
    <2>2. S(p) # 0
      BY <1>2, RequestFacts DEF At, ReqOK, Placed, S
    <2> QED BY <2>1, <2>2, ServerFacts, DeleteFine, AnswerGood
  <1> QED BY <1>1, <1>2 DEF ServersDestroy

LEMMA ServersSetIpPoolGood == ASSUME IInv, NEW p \in Procs, ServersSetIpPool(p) PROVE Good(p)
  <1>1. CASE Begin(p, "servers_set_ip_pool")
    BY <1>1, BeginGood DEF RootOps
  <1>2. CASE \E pool \in Ids("pool") \union {None} :
                Write(p, pool = None \/ Exists(db, "pool", pool), SetServerIpPool(db, S(p), pool))
    <2>1. PICK pool \in Ids("pool") \union {None} :
             Write(p, pool = None \/ Exists(db, "pool", pool), SetServerIpPool(db, S(p), pool))
      BY <1>2
    <2> DEFINE id == S(p)
               g  == [r \in db.rows |-> [r EXCEPT !.ref = pool]]
               e  == SetServerIpPool(db, id, pool)
    <2>2. /\ Answer(p) /\ UNCHANGED ghosts
          /\ db' = db \/ (db' = e /\ (pool = None \/ Exists(db, "pool", pool)))
      BY <2>1 DEF Write, Statement
    <2>3. Store(db)
      BY DEF IInv
    <2>4. pool \in Nat
      BY <2>3 DEF Ids, Of, Store, IsRow, None
    <2>5. e = [db EXCEPT !.rows = {IF r.id = id THEN g[r] ELSE r : r \in @}]
      BY DEF SetServerIpPool, Set
    <2>6. ASSUME NEW r \in db.rows
          PROVE  /\ Ident(g[r], r) /\ IsRow(g[r]) /\ g[r].flag = r.flag /\ g[r].more = r.more /\ g[r].ref = pool
      BY <2>3, <2>4 DEF Store, IsRow, RowFields, Ident
    <2> HIDE DEF g, e, id
    <2>7. Changed(db, e, id) /\ \A x \in e.rows : x.id = id => \E r \in db.rows : r.id = id /\ x = g[r]
      BY <2>3, <2>5, <2>6, SetChanges
    <2>8. ASSUME pool = None \/ Exists(db, "pool", pool), NEW x \in e.rows, x.id = id PROVE IsRow(x) /\ AtHome(db, x)
      <3>1. PICK r \in db.rows : r.id = id /\ x = g[r]
        BY <2>7, <2>8
      <3>2. AtHome(db, r) /\ r.t = "server"
        BY <2>3, <3>1, ServerFacts DEF Store, id
      <3> QED BY <2>6, <2>8, <3>1, <3>2 DEF AtHome, Ident
    <2>9. \A x \in e.rows, r \in db.rows : x.id = id /\ r.id = id => x.flag = r.flag
      BY <2>3, <2>6, <2>7 DEF Store
    <2>10. CASE db' = db
      BY <2>2, <2>10, RefusedGood
    <2>11. CASE db' = e /\ (pool = None \/ Exists(db, "pool", pool))
      <3>1. Fine(p, e)
        BY <2>7, <2>8, <2>9, <2>11, ChangeFine DEF id
      <3> QED BY <2>2, <2>11, <3>1, AnswerGood
    <2> QED BY <2>2, <2>10, <2>11
  <1> QED BY <1>1, <1>2 DEF ServersSetIpPool

(* A key for one server, made for the organization that server had.        *)
LEMMA AdminApiKeysCreateGood == ASSUME IInv, NEW p \in Procs, AdminApiKeysCreate(p) PROVE Good(p)
  <1>0. Store(db) /\ ReqOK(db, req[p], proved, stopped)
    BY RequestFacts DEF IInv
  <1>1. CASE RootMiddleware(p, "keys_create")
    BY <1>1, RootGood DEF RootOps, Plain, ServerWrites
  <1>2. CASE Answer(p) /\ db' = db /\ UNCHANGED ghosts
    BY <1>2, RefusedGood
  <1>3. ASSUME NEW s \in db.rows, s.t = "server", At(p, "keys_create", "do"),
               req' = [req EXCEPT ![p].srv = s, ![p].pc = "write"], db' = db, UNCHANGED ghosts
        PROVE  Good(p)
    <2> DEFINE r == [req[p] EXCEPT !.srv = s, !.pc = "write"]
    <2>1. req' = [req EXCEPT ![p] = r]
      BY <1>3, RequestFacts
    <2>2. /\ r = [f \in RequestFields |-> r[f]] /\ r.op = "keys_create" /\ r.pc = "write" /\ r.srv = s
          /\ r.row = req[p].row /\ r.old = req[p].old /\ r.link = req[p].link
      <3>1. req[p] = [f \in RequestFields |-> req[p][f]] /\ req[p].op = "keys_create"
        BY <1>3, RequestFacts DEF At
      <3> QED BY <3>1 DEF RequestFields
    <2>3. req[p].link = Blank.link
      BY <1>0, <1>3 DEF At, ReqOK, Placed, RootOps
    <2>4. Known(db, s) /\ Leads(db, s) /\ s.id # 0
      BY <1>0, RowKnown DEF Store
    <2> HIDE DEF r
    <2>5. Copies(db, r)
      BY <1>0, <2>2, <2>4 DEF ReqOK, Copies
    <2>6. Placed(r, proved) /\ Aims(db, r)
      BY <1>3, <2>2, <2>3, <2>4 DEF Placed, Aims, Kind, ServerWrites
    <2>7. Current(r, stopped)
      BY <2>2 DEF Current, Rewrites, RewriteOps
    <2> QED BY <1>3, <2>1, <2>5, <2>6, <2>7, MoveGood DEF ReqOK
  <1>4. CASE \E link \in Links :
                LET found == ServerByPermalink(db, link[1], link[2]) IN
                /\ At(p, "keys_create", "do")
                /\ IF found = {} THEN Answer(p)
                   ELSE \E s \in found : req' = [req EXCEPT ![p].srv = s, ![p].pc = "write"]
                /\ db' = db /\ Quiet /\ UNCHANGED ghosts
    BY <1>2, <1>3, <1>4 DEF ServerByPermalink, Of
  <1>5. CASE /\ At(p, "keys_create", "write")
             /\ Write(p, Exists(db, "server", S(p)), CreateAdminApiKeyRecord(db, req[p].srv.up, S(p)))
    <2> DEFINE row == Row("key", S(p), "key", req[p].srv.up)
    <2>1. /\ Answer(p) /\ UNCHANGED ghosts
          /\ db' = db \/ (db' = Insert(db, row) /\ Exists(db, "server", S(p)))
      BY <1>5 DEF Write, Statement, CreateAdminApiKeyRecord
    <2>2. Known(db, req[p].srv) /\ req[p].srv.up \in Nat /\ req[p].link = Blank.link
      BY <1>0, <1>5 DEF At, ReqOK, Copies, Placed, RootOps, Known, IsRow
    <2>3. IsRow(row) /\ ~row.flag /\ row.more = None /\ row.t = "key" /\ row.up = S(p) /\ row.ref = req[p].srv.up
      BY <2>2, NewRow, ServerFacts
    <2> HIDE DEF row
    <2>4. CASE db' = db
      BY <2>1, <2>4, RefusedGood
    <2>5. CASE db' = Insert(db, row) /\ Exists(db, "server", S(p))
      <3>1. PICK x \in db.rows : x.t = "server" /\ x.id = S(p) /\ x.up = req[p].srv.up
        BY <2>2, <2>5 DEF Exists, Of, Known, Ident, S
      <3>2. Fits(db, row)
        BY <2>3, <3>1, ServerFacts DEF Fits, AtHome, Owned, Of
      <3>3. Fine(p, Insert(db, row))
        BY <1>0, <2>2, <2>3, <3>2, InsertStore DEF Fine, Within
      <3> QED BY <2>1, <2>5, <3>3, AnswerGood
    <2> QED BY <2>1, <2>4, <2>5
  <1> QED BY <1>1, <1>4, <1>5 DEF AdminApiKeysCreate

LEMMA AdminApiKeysDestroyGood == ASSUME IInv, NEW p \in Procs, AdminApiKeysDestroy(p) PROVE Good(p)
  <1>1. CASE RootMiddleware(p, "keys_destroy")
    BY <1>1, RootGood DEF RootOps, Plain, ServerWrites
  <1>2. CASE \E k \in Ids("key") : At(p, "keys_destroy", "do") /\ Write(p, TRUE, DeleteAdminApiKey(db, k))
    <2>1. PICK k \in Ids("key") : At(p, "keys_destroy", "do") /\ Write(p, TRUE, DeleteAdminApiKey(db, k))
      BY <1>2
    <2>2. Answer(p) /\ db' = Delete(db, k) /\ UNCHANGED ghosts
      BY <2>1 DEF Write, Statement, DeleteAdminApiKey
    <2>3. k # 0 /\ \A r \in db.rows : r.id = k => r.t = "key"
      BY DEF Ids, Of, IInv, Store
    <2>4. req[p].link = Blank.link
      BY <2>1, RequestFacts DEF At, ReqOK, Placed, RootOps
    <2> QED BY <2>2, <2>3, <2>4, DeleteFine, AnswerGood
  <1> QED BY <1>1, <1>2 DEF AdminApiKeysDestroy

-----------------------------------------------------------------------------
(* A column of the chosen row that is no reference and no flag. *)
LEMMA ColumnFine ==
  ASSUME IInv, NEW p \in Procs, req[p].pc \in Chosen, Kind(req[p].op) \notin {"none", "server", "pool", "address"},
         NEW g, NEW e, e = [db EXCEPT !.rows = {IF r.id = req[p].row.id THEN g[r] ELSE r : r \in @}],
         \A r \in db.rows : Ident(g[r], r) /\ IsRow(g[r]) /\ g[r].flag = r.flag /\ g[r].ref = r.ref
  PROVE  Fine(p, e)
  <1> DEFINE id == req[p].row.id
  <1>0. Store(db)
    BY DEF IInv
  <1>1. \A r \in db.rows : r.id = id => r.t = Kind(req[p].op) /\ r.up = S(p)
    BY ChosenFacts
  <1> HIDE DEF id
  <1>2. Changed(db, e, id) /\ \A x \in e.rows : x.id = id => \E r \in db.rows : r.id = id /\ x = g[r]
    BY <1>0, SetChanges DEF id
  <1>3. ASSUME NEW x \in e.rows, x.id = id PROVE IsRow(x) /\ AtHome(db, x)
    <2>1. PICK r \in db.rows : r.id = id /\ x = g[r]
      BY <1>2, <1>3
    <2>2. AtHome(db, r) /\ r.t # "server"
      BY <1>0, <1>1, <2>1 DEF Store
    <2> QED BY <2>1, <2>2, HomeAlike
  <1>4. \A x \in e.rows, r \in db.rows : x.id = id /\ r.id = id => x.flag = r.flag
    BY <1>0, <1>2 DEF Store
  <1>5. \A r \in db.rows : r.id = id => r.t # "server" /\ r.up = S(p)
    BY <1>1
  <1> QED BY <1>2, <1>3, <1>4, <1>5, ChangeFine

LEMMA DomainKinds ==
  /\ Kind("domains_update") = "domain" /\ Kind("domains_verify") = "domain" /\ Kind("domains_destroy") = "domain"
  /\ Kind("routes_create") = "domain"
  /\ Kind("track_verify") = "track" /\ Kind("track_destroy") = "track" /\ Kind("sender_destroy") = "sender"
  BY DEF Kind

LEMMA RequireDomainGood ==
  ASSUME IInv, NEW p \in Procs, NEW op, NEW pc, RequireDomain(p, op, pc), Kind(op) = "domain", pc \in Chosen,
         op = "domains_verify" => pc = "check"
  PROVE  Good(p)
  <1>1. PICK name \in Names : Require(p, op, DomainByName(db, S(p), name), pc)
    BY DEF RequireDomain
  <1>2. \A r \in DomainByName(db, S(p), name) : r \in db.rows /\ r.t = "domain" /\ r.up = S(p)
    BY DEF DomainByName, Of
  <1>3. op # "track_verify" /\ op # "templates_copy"
    BY DEF Kind
  <1> QED BY <1>1, <1>2, <1>3, RequireGood

LEMMA RequireTrackGood ==
  ASSUME IInv, NEW p \in Procs, NEW op, NEW pc, RequireTrackDomain(p, op, pc), Kind(op) = "track", pc \in Chosen,
         op = "track_verify" => pc = "check"
  PROVE  Good(p)
  <1>1. PICK id \in Ids("track") : Require(p, op, TrackDomainById(db, S(p), id), pc)
    BY DEF RequireTrackDomain
  <1>2. \A r \in TrackDomainById(db, S(p), id) : r \in db.rows /\ r.t = "track" /\ r.up = S(p)
    BY DEF TrackDomainById, Of
  <1>3. op # "domains_verify" /\ op # "templates_copy"
    BY DEF Kind
  <1> QED BY <1>1, <1>2, <1>3, RequireGood

LEMMA DomainsCreateGood == ASSUME IInv, NEW p \in Procs, DomainsCreate(p) PROVE Good(p)
  <1>1. CASE Begin(p, "domains_create")
    BY <1>1, BeginGood DEF RootOps
  <1>2. ASSUME NEW name \in Names,
               Create(p, "domains_create", Row("domain", S(p), name, None), CreateDomain(db, S(p), name))
        PROVE  Good(p)
    <2> DEFINE row == Row("domain", S(p), name, None)
    <2>1. Write(p, CanInsert(db, row), CreateDomain(db, S(p), name)) /\ CreateDomain(db, S(p), name) = Insert(db, row)
      BY <1>2 DEF Create, CreateDomain
    <2>2. IsRow(row) /\ ~row.flag /\ row.more = None /\ row.up = S(p) /\ row.t = "domain"
      BY NewRow, ServerFacts DEF None
    <2> HIDE DEF row
    <2> QED BY <2>1, <2>2, CreateGood
  <1> QED BY <1>1, <1>2 DEF DomainsCreate

LEMMA DomainsUpdateGood == ASSUME IInv, NEW p \in Procs, DomainsUpdate(p) PROVE Good(p)
  <1>0. Store(db) /\ ReqOK(db, req[p], proved, stopped)
    BY RequestFacts DEF IInv
  <1>1. CASE Begin(p, "domains_update")
    BY <1>1, BeginGood DEF RootOps
  <1>2. CASE RequireDomain(p, "domains_update", "write")
    BY <1>2, RequireDomainGood, DomainKinds DEF Chosen
  <1>3. CASE At(p, "domains_update", "write") /\ Statement(p, TRUE, SetDomainDmarcCheck(db, req[p].row.id, 1), "spf") /\ UNCHANGED ghosts
    <2> DEFINE g == [r \in db.rows |-> [r EXCEPT !.val = 1]]
               r == [req[p] EXCEPT !.pc = "spf"]
    <2>1. db' = SetDomainDmarcCheck(db, req[p].row.id, 1) /\ req' = [req EXCEPT ![p].pc = "spf"] /\ UNCHANGED ghosts
      BY <1>3 DEF Statement
    <2>2. req[p].op = "domains_update" /\ req[p].pc = "write"
      BY <1>3 DEF At
    <2>3. db' = [db EXCEPT !.rows = {IF x.id = req[p].row.id THEN g[x] ELSE x : x \in @}]
      BY <2>1 DEF SetDomainDmarcCheck, Set
    <2>4. \A x \in db.rows : Ident(g[x], x) /\ IsRow(g[x]) /\ g[x].flag = x.flag /\ g[x].ref = x.ref
      BY <1>0 DEF Store, IsRow, RowFields, Ident
    <2> HIDE DEF g
    <2>5. Fine(p, db')
      BY <2>2, <2>3, <2>4, ColumnFine, DomainKinds DEF Chosen
    <2>6. req' = [req EXCEPT ![p] = r]
      BY <2>1, RequestFacts
    <2>7. /\ r = [f \in RequestFields |-> r[f]] /\ r.op = "domains_update" /\ r.pc = "spf" /\ r.srv = req[p].srv
          /\ r.row = req[p].row /\ r.old = req[p].old /\ r.link = req[p].link
      <3>1. req[p] = [f \in RequestFields |-> req[p][f]]
        BY RequestFacts
      <3> QED BY <2>2, <3>1 DEF RequestFields
    <2> HIDE DEF r
    <2>8. ReqOK(db', req[p], proved, stopped)
      BY <1>0, <2>5, RequestStays DEF Fine
    <2>9. Copies(db', r)
      BY <2>7, <2>8 DEF ReqOK, Copies
    <2>10. Placed(r, proved) /\ Aims(db', r)
      BY <2>2, <2>7, <2>8 DEF ReqOK, Placed, Aims, Chosen
    <2>11. Current(r, stopped)
      BY <2>7 DEF Current, Rewrites
    <2> QED BY <2>1, <2>5, <2>6, <2>9, <2>10, <2>11, WrittenGood DEF ReqOK
  <1>4. CASE At(p, "domains_update", "spf") /\ Write(p, TRUE, SetDomainSpfCheck(db, req[p].row.id, 1))
    <2> DEFINE g == [r \in db.rows |-> [r EXCEPT !.more = 1]]
    <2>1. db' = SetDomainSpfCheck(db, req[p].row.id, 1) /\ Answer(p) /\ UNCHANGED ghosts
      BY <1>4 DEF Write, Statement
    <2>2. req[p].op = "domains_update" /\ req[p].pc = "spf"
      BY <1>4 DEF At
    <2>3. db' = [db EXCEPT !.rows = {IF x.id = req[p].row.id THEN g[x] ELSE x : x \in @}]
      BY <2>1 DEF SetDomainSpfCheck, Set
    <2>4. \A x \in db.rows : Ident(g[x], x) /\ IsRow(g[x]) /\ g[x].flag = x.flag /\ g[x].ref = x.ref
      BY <1>0 DEF Store, IsRow, RowFields, Ident
    <2> HIDE DEF g
    <2>5. Fine(p, db')
      BY <2>2, <2>3, <2>4, ColumnFine, DomainKinds DEF Chosen
    <2> QED BY <2>1, <2>5, AnswerGood
  <1> QED BY <1>1, <1>2, <1>3, <1>4 DEF DomainsUpdate

LEMMA DomainsDestroyGood == ASSUME IInv, NEW p \in Procs, DomainsDestroy(p) PROVE Good(p)
  <1>1. CASE Begin(p, "domains_destroy")
    BY <1>1, BeginGood DEF RootOps
  <1>2. CASE RequireDomain(p, "domains_destroy", "write")
    BY <1>2, RequireDomainGood, DomainKinds DEF Chosen
  <1>3. CASE At(p, "domains_destroy", "write") /\ Write(p, TRUE, DeleteDomain(db, req[p].row.id))
    BY <1>3, DestroyGood, DomainKinds DEF DeleteDomain
  <1> QED BY <1>1, <1>2, <1>3 DEF DomainsDestroy

-----------------------------------------------------------------------------
(* What was proved is what is marked. *)
Verifies == {"domains_verify", "track_verify"}

LEMMA ProofGood == ASSUME IInv, NEW p \in Procs, NEW op \in Verifies, Proof(p, op) PROVE Good(p)
  <1>0. /\ Store(db) /\ ReqOK(db, req[p], proved, stopped) /\ Ghosts(db, stopped) /\ TrustIsProved /\ StoppedStays
        /\ req[p].op = op /\ req[p].pc = "check" /\ db' = db /\ stopped' = stopped
    BY RequestFacts DEF IInv, Proof, At
  <1>1. CASE Answer(p) /\ UNCHANGED proved
    BY <1>0, <1>1, RefusedGood DEF ghosts
  <1>2. CASE req' = [req EXCEPT ![p].pc = "write"] /\ proved' = proved \union {req[p].row.id}
    <2> DEFINE r == [req[p] EXCEPT !.pc = "write"]
    <2>1. req' = [req EXCEPT ![p] = r]
      BY <1>2, RequestFacts
    <2>2. /\ r = [f \in RequestFields |-> r[f]] /\ r.op = op /\ r.pc = "write" /\ r.srv = req[p].srv
          /\ r.row = req[p].row /\ r.old = req[p].old /\ r.link = req[p].link
      <3>1. req[p] = [f \in RequestFields |-> req[p][f]]
        BY RequestFacts
      <3> QED BY <1>0, <3>1 DEF RequestFields
    <2> HIDE DEF r
    <2>3. Copies(db, r) /\ Aims(db, r)
      BY <1>0, <2>2 DEF ReqOK, Copies, Aims, Verifies
    <2>4. Placed(r, proved')
      BY <1>0, <1>2, <2>2 DEF ReqOK, Placed, Chosen, Verifies
    <2>5. Current(r, stopped)
      BY <2>2 DEF Current, Rewrites, RewriteOps, Verifies
    <2>6. ReqOK(db', r, proved', stopped')
      BY <1>0, <2>3, <2>4, <2>5 DEF ReqOK
    <2>7. Evolves(db, db') /\ Within(p, db')
      BY <1>0, EvolvesSame DEF Within
    <2>8. TrustIsProved' /\ StoppedStays'
      BY <1>0, <1>2 DEF TrustIsProved, StoppedStays
    <2> QED BY <1>0, <1>2, <2>1, <2>6, <2>7, <2>8, StepGood
  <1> QED BY <1>1, <1>2 DEF Proof

(* A flag that is set on a row that was proved. *)
LEMMA MarkTables ==
  ASSUME IInv, NEW id, NEW e, e = Set(db, id, LAMBDA r : [r EXCEPT !.flag = TRUE]),
         \A r \in db.rows : r.id = id => r.t \in Trusted
  PROVE  /\ Changed(db, e, id) /\ Store(e) /\ Evolves(db, e)
         /\ \A x \in e.rows : x.id # id => x \in db.rows
         /\ \A x \in e.rows : x.id = id => x.flag
  <1> DEFINE g == [r \in db.rows |-> [r EXCEPT !.flag = TRUE]]
  <1>0. Store(db)
    BY DEF IInv
  <1>1. e = [db EXCEPT !.rows = {IF r.id = id THEN g[r] ELSE r : r \in @}]
    BY DEF Set
  <1>2. ASSUME NEW r \in db.rows PROVE Ident(g[r], r) /\ IsRow(g[r]) /\ g[r].flag /\ g[r].ref = r.ref
    <2>1. g[r] = [r EXCEPT !.flag = TRUE]
      OBVIOUS
    <2> HIDE DEF g
    <2>2. IsRow(r)
      BY <1>0 DEF Store
    <2>3. /\ g[r] = [f \in RowFields |-> g[r][f]] /\ g[r].flag
          /\ g[r].t = r.t /\ g[r].id = r.id /\ g[r].up = r.up /\ g[r].ref = r.ref /\ g[r].more = r.more
      BY <2>1, <2>2 DEF IsRow, RowFields
    <2>4. IsRow(g[r])
      <3>1. g[r].flag \in BOOLEAN
        BY <2>1, <2>2, Zenon DEF IsRow, RowFields
      <3> QED BY <2>2, <2>3, <3>1 DEF IsRow
    <2> QED BY <2>3, <2>4 DEF Ident
  <1> HIDE DEF g
  <1>3. Changed(db, e, id) /\ \A x \in e.rows : x.id = id => \E r \in db.rows : r.id = id /\ x = g[r]
    BY <1>0, <1>1, <1>2, SetChanges
  <1>4. ASSUME NEW x \in e.rows, x.id = id PROVE IsRow(x) /\ AtHome(db, x)
    <2>1. PICK r \in db.rows : r.id = id /\ x = g[r]
      BY <1>3, <1>4
    <2>2. AtHome(db, r) /\ r.t # "server"
      BY <1>0, <2>1 DEF Store, Trusted
    <2> QED BY <1>2, <2>1, <2>2, HomeAlike
  <1>5. Store(e) /\ Evolves(db, e)
    BY <1>0, <1>3, <1>4, ChangedStore
  <1>6. \A x \in e.rows : x.id # id => x \in db.rows
    BY <1>3 DEF Changed
  <1>7. \A x \in e.rows : x.id = id => x.flag
    BY <1>2, <1>3
  <1> QED BY <1>3, <1>5, <1>6, <1>7

LEMMA MarkGood ==
  ASSUME IInv, NEW p \in Procs, NEW op \in Verifies, At(p, op, "write"),
         Write(p, TRUE, Set(db, req[p].row.id, LAMBDA r : [r EXCEPT !.flag = TRUE]))
  PROVE  Good(p)
  <1> DEFINE id == req[p].row.id
  <1>1. Answer(p) /\ db' = Set(db, id, LAMBDA r : [r EXCEPT !.flag = TRUE]) /\ UNCHANGED ghosts
    BY DEF Write, Statement
  <1>2. req[p].op = op /\ req[p].pc = "write" /\ Kind(op) \in {"domain", "track"}
    BY DEF At, Verifies, Kind
  <1>3. \A r \in db.rows : r.id = id => r.t \in Trusted /\ r.t # "server" /\ r.up = S(p)
    BY <1>2, ChosenFacts DEF Chosen, Trusted
  <1>4. id \in proved
    BY <1>2, RequestFacts DEF ReqOK, Placed, Verifies
  <1> HIDE DEF id
  <1>5. /\ Changed(db, db', id) /\ Store(db') /\ Evolves(db, db')
        /\ \A x \in db'.rows : x.id # id => x \in db.rows
        /\ \A x \in db'.rows : x.id = id => x.flag
    BY <1>1, <1>3, MarkTables
  <1>6. Within(p, db')
    BY <1>3, <1>5, ChangedElsewhere DEF Within
  <1>7. proved' = proved /\ stopped' = stopped
    BY <1>1 DEF ghosts
  <1>8. TrustIsProved' /\ StoppedStays'
    BY <1>4, <1>5, <1>7 DEF IInv, TrustIsProved, StoppedStays
  <1>9. Ghosts(db', stopped')
    BY <1>5, <1>7 DEF IInv, Ghosts, Changed
  <1>10. ReqOK(db', Blank, proved', stopped')
    BY <1>5, BlankFits
  <1> QED BY <1>1, <1>5, <1>6, <1>7, <1>8, <1>9, <1>10, StepGood DEF Answer

LEMMA DomainsVerifyGood == ASSUME IInv, NEW p \in Procs, DomainsVerify(p) PROVE Good(p)
  <1>1. CASE Begin(p, "domains_verify")
    BY <1>1, BeginGood DEF RootOps
  <1>2. CASE RequireDomain(p, "domains_verify", "check")
    BY <1>2, RequireDomainGood, DomainKinds DEF Chosen
  <1>3. CASE Proof(p, "domains_verify")
    BY <1>3, ProofGood DEF Verifies
  <1>4. CASE At(p, "domains_verify", "write") /\ Write(p, TRUE, SetDomainVerified(db, req[p].row.id))
    BY <1>4, MarkGood DEF Verifies, SetDomainVerified
  <1> QED BY <1>1, <1>2, <1>3, <1>4 DEF DomainsVerify

LEMMA TrackDomainsGood ==
  ASSUME IInv, NEW p \in Procs, TrackDomainsCreate(p) \/ TrackDomainsVerify(p) \/ TrackDomainsDestroy(p)
  PROVE  Good(p)
  <1>1. CASE Begin(p, "track_create") \/ Begin(p, "track_verify") \/ Begin(p, "track_destroy")
    BY <1>1, BeginGood DEF RootOps
  <1>2. ASSUME NEW name \in Names,
               Create(p, "track_create", Row("track", S(p), name, None), CreateTrackDomain(db, S(p), name))
        PROVE  Good(p)
    <2> DEFINE row == Row("track", S(p), name, None)
    <2>1. Write(p, CanInsert(db, row), CreateTrackDomain(db, S(p), name)) /\ CreateTrackDomain(db, S(p), name) = Insert(db, row)
      BY <1>2 DEF Create, CreateTrackDomain
    <2>2. IsRow(row) /\ ~row.flag /\ row.more = None /\ row.up = S(p) /\ row.t = "track"
      BY NewRow, ServerFacts DEF None
    <2> HIDE DEF row
    <2> QED BY <2>1, <2>2, CreateGood
  <1>3. CASE RequireTrackDomain(p, "track_verify", "check") \/ RequireTrackDomain(p, "track_destroy", "write")
    BY <1>3, RequireTrackGood, DomainKinds DEF Chosen
  <1>4. CASE Proof(p, "track_verify")
    BY <1>4, ProofGood DEF Verifies
  <1>5. CASE At(p, "track_verify", "write") /\ Write(p, TRUE, SetTrackDomainVerified(db, req[p].row.id))
    BY <1>5, MarkGood DEF Verifies, SetTrackDomainVerified
  <1>6. CASE At(p, "track_destroy", "write") /\ Write(p, TRUE, DeleteTrackDomain(db, req[p].row.id))
    BY <1>6, DestroyGood, DomainKinds DEF DeleteTrackDomain
  <1> QED BY <1>1, <1>2, <1>3, <1>4, <1>5, <1>6 DEF TrackDomainsCreate, TrackDomainsVerify, TrackDomainsDestroy

LEMMA SenderAddressesGood ==
  ASSUME IInv, NEW p \in Procs, SenderAddressesCreate(p) \/ SenderAddressesDestroy(p)
  PROVE  Good(p)
  <1>1. CASE Begin(p, "sender_create") \/ Begin(p, "sender_destroy")
    BY <1>1, BeginGood DEF RootOps
  <1>2. ASSUME NEW name \in Names,
               Create(p, "sender_create", Row("sender", S(p), name, None), CreateSenderAddress(db, S(p), name))
        PROVE  Good(p)
    <2> DEFINE row == Row("sender", S(p), name, None)
    <2>1. Write(p, CanInsert(db, row), CreateSenderAddress(db, S(p), name)) /\ CreateSenderAddress(db, S(p), name) = Insert(db, row)
      BY <1>2 DEF Create, CreateSenderAddress
    <2>2. IsRow(row) /\ ~row.flag /\ row.more = None /\ row.up = S(p) /\ row.t = "sender"
      BY NewRow, ServerFacts DEF None
    <2> HIDE DEF row
    <2> QED BY <2>1, <2>2, CreateGood
  <1>3. ASSUME NEW id \in Ids("sender"), Require(p, "sender_destroy", SenderAddressById(db, S(p), id), "write")
        PROVE  Good(p)
    <2>1. \A r \in SenderAddressById(db, S(p), id) : r \in db.rows /\ r.t = "sender" /\ r.up = S(p)
      BY DEF SenderAddressById, Of
    <2> QED BY <1>3, <2>1, DomainKinds, RequireGood DEF Chosen
  <1>4. CASE At(p, "sender_destroy", "write") /\ Write(p, TRUE, DeleteSenderAddress(db, req[p].row.id))
    BY <1>4, DestroyGood, DomainKinds DEF DeleteSenderAddress
  <1> QED BY <1>1, <1>2, <1>3, <1>4 DEF SenderAddressesCreate, SenderAddressesDestroy

(* A token confirms the row it was made for. *)
LEMMA ConfirmGood == ASSUME IInv, SenderAddressConfirm PROVE IInv' /\ req' = req
  <1>1. PICK token \in Ids("sender") :
           /\ db' = Set(db, token, LAMBDA r : [r EXCEPT !.flag = TRUE])
           /\ proved' = proved \union {token} /\ req' = req /\ stopped' = stopped
    BY DEF SenderAddressConfirm, ConfirmSenderAddress
  <1>2. Store(db) /\ Requests(db, req, proved, stopped) /\ Ghosts(db, stopped) /\ TrustIsProved /\ StoppedStays
    BY DEF IInv
  <1>3. \A r \in db.rows : r.id = token => r.t \in Trusted
    BY <1>2 DEF Ids, Of, Store, Trusted
  <1>4. /\ Changed(db, db', token) /\ Store(db') /\ Evolves(db, db')
        /\ \A x \in db'.rows : x.id # token => x \in db.rows
        /\ \A x \in db'.rows : x.id = token => x.flag
    BY <1>1, <1>3, MarkTables
  <1>5. Requests(db', req', proved', stopped')
    <2>1. \A q \in Procs : ReqOK(db, req[q], proved, stopped)
      BY <1>2 DEF Requests
    <2>2. \A q \in Procs : ReqOK(db', req[q], proved', stopped)
      BY <1>1, <1>2, <1>4, <2>1, RequestStays
    <2> QED BY <1>1, <1>2, <2>2 DEF Requests
  <1>6. TrustIsProved' /\ StoppedStays'
    BY <1>1, <1>2, <1>4 DEF TrustIsProved, StoppedStays
  <1>7. Ghosts(db', stopped')
    BY <1>1, <1>2, <1>4 DEF Ghosts, Changed
  <1> QED BY <1>1, <1>4, <1>5, <1>6, <1>7 DEF IInv

-----------------------------------------------------------------------------
(* A whole row is written back: the copy, edited. *)
LEMMA RewriteKinds == \A op \in RewriteOps : Kind(op) \in {"credential", "route", "webhook", "stream", "layout", "template"}
  BY DEF RewriteOps, Kind

LEMMA RewrittenGood ==
  ASSUME IInv, NEW p \in Procs, NEW op \in RewriteOps \ {"templates_copy"}, At(p, op, "write"), NEW ask \in Asks,
         Answer(p), Note(p, Edited(req[p].row, ask).id, ask), RefHolds(db, Edited(req[p].row, ask)),
         db' = Put(db, Edited(req[p].row, ask))
  PROVE  Good(p)
  <1> DEFINE c == req[p].row
             row == Edited(c, ask)
  <1>0. Store(db) /\ ReqOK(db, req[p], proved, stopped) /\ req[p].op = op /\ req[p].pc = "write"
    BY RequestFacts DEF IInv, At
  <1>1. Known(db, c) /\ Leads(db, c) /\ IsRow(c) /\ c.id \in Nat /\ c.id < db.next
    BY <1>0 DEF ReqOK, Copies, Known, IsRow
  <1>2. Kind(op) \in {"credential", "route", "webhook", "stream", "layout", "template"}
    BY RewriteKinds
  <1>3. c.t = Kind(op) /\ c.id # 0 /\ c.up = S(p)
    BY <1>0, <1>2 DEF ReqOK, Placed, Chosen, S
  <1>4. c.id \in stopped => c.flag
    BY <1>0 DEF ReqOK, Current, Rewrites, Copy
  <1>5. /\ IsRow(row) /\ Ident(row, c) /\ row.ref = c.ref
        /\ ask = "stop" => row.flag
        /\ ask = "none" => row.flag = c.flag
    BY <1>1, EditedFacts
  <1>6. Answer(p) /\ Note(p, c.id, ask) /\ RefHolds(db, row) /\ db' = Put(db, row) /\ row.id = c.id
    BY <1>5 DEF Ident
  <1> HIDE DEF row
  <1>7. \A r \in db.rows : r.id = c.id => Ident(row, r) /\ Ident(c, r)
    BY <1>1, <1>5 DEF Known, Ident
  <1> HIDE DEF c
  <1>8. AtHome(db, row)
    <2>1. row.t = c.t /\ row.up = c.up /\ row.ref = c.ref
      BY <1>5 DEF Ident
    <2>2. Target("route") = "domain" /\ Target("template") = "layout" /\ Target("stream") = "pool"
      BY DEF Target
    <2>3. c.t \in {"route", "template", "stream"} /\ row.ref # None => Exists(db, Target(c.t), row.ref)
      BY <1>6, <2>1, <2>2 DEF RefHolds
    <2>4. c.t \in {"route", "template"} /\ row.ref # None => \E x \in Of(db, Target(c.t)) : x.id = row.ref /\ x.up = c.up
      BY <1>1, <2>1, <2>3 DEF Leads, Exists, Of
    <2> QED BY <1>2, <1>3, <2>1, <2>2, <2>3, <2>4 DEF AtHome
  <1>9. Changed(db, db', c.id) /\ \A x \in db'.rows : x.id = c.id => x = row
    BY <1>0, <1>6, <1>7, PutChanges
  <1>10. ASSUME NEW x \in db'.rows, x.id = c.id
         PROVE  /\ IsRow(x) /\ AtHome(db, x) /\ x.t \notin Trusted
                /\ ask = "stop" => x.flag
                /\ ask = "none" /\ c.id \in stopped => x.flag
    <2>1. row.t \notin Trusted
      BY <1>2, <1>3, <1>5 DEF Ident, Trusted
    <2> QED BY <1>4, <1>5, <1>8, <1>9, <1>10, <2>1
  <1>11. \A r \in db.rows : r.id = c.id => r.t # "server" /\ r.up = S(p)
    BY <1>2, <1>3, <1>7 DEF Ident
  <1> QED BY <1>1, <1>3, <1>6, <1>9, <1>10, <1>11, NoteGood

LEMMA NotWrittenGood ==
  ASSUME IInv, NEW p \in Procs, NEW id, Answer(p), Note(p, id, "none"), db' = db
  PROVE  Good(p)
  BY RefusedGood DEF Note, ghosts

Rewriting(p, op, asks) ==
    /\ At(p, op, "write")
    /\ \E ask \in asks :
          LET row == Edited(req[p].row, ask) IN
          /\ Statement(p, RefHolds(db, row), Put(db, row), "done")
          /\ Note(p, row.id, IF RefHolds(db, row) THEN ask ELSE "none")

LEMMA RewritingGood ==
  ASSUME IInv, NEW p \in Procs, NEW op \in RewriteOps \ {"templates_copy"}, NEW asks \in SUBSET Asks, Rewriting(p, op, asks)
  PROVE  Good(p)
  <1>1. PICK ask \in Asks :
           LET row == Edited(req[p].row, ask) IN
           /\ Statement(p, RefHolds(db, row), Put(db, row), "done")
           /\ Note(p, row.id, IF RefHolds(db, row) THEN ask ELSE "none")
    BY DEF Rewriting
  <1> DEFINE row == Edited(req[p].row, ask)
  <1>2. /\ Answer(p) /\ At(p, op, "write")
        /\ \/ ~RefHolds(db, row) /\ db' = db /\ Note(p, row.id, "none")
           \/ RefHolds(db, row) /\ db' = Put(db, row) /\ Note(p, row.id, ask)
    BY <1>1 DEF Rewriting, Statement
  <1>3. CASE ~RefHolds(db, row) /\ db' = db /\ Note(p, row.id, "none")
    BY <1>2, <1>3, NotWrittenGood
  <1>4. CASE RefHolds(db, row) /\ db' = Put(db, row) /\ Note(p, row.id, ask)
    BY <1>2, <1>4, RewrittenGood
  <1> QED BY <1>2, <1>3, <1>4

LEMMA Kinds ==
  /\ Kind("credentials_update") = "credential" /\ Kind("credentials_destroy") = "credential"
  /\ Kind("routes_update") = "route" /\ Kind("routes_destroy") = "route"
  /\ Kind("webhooks_update") = "webhook" /\ Kind("webhooks_enable") = "webhook" /\ Kind("webhooks_destroy") = "webhook"
  /\ Kind("stream_update") = "stream" /\ Kind("stream_archive") = "stream"
  /\ Kind("layout_update") = "layout" /\ Kind("layout_logo") = "layout" /\ Kind("layout_destroy") = "layout"
  /\ Kind("templates_create") = "layout"
  /\ Kind("template_update") = "template" /\ Kind("template_archive") = "template" /\ Kind("templates_copy") = "template"
  /\ Kind("pools_destroy") = "pool" /\ Kind("addresses_create") = "pool" /\ Kind("addresses_destroy") = "address"
  BY DEF Kind

(* Credentials. *)
LEMMA RequireCredentialGood ==
  ASSUME IInv, NEW p \in Procs, NEW op, RequireCredential(p, op), Kind(op) = "credential"
  PROVE  Good(p)
  <1>1. PICK id \in Ids("credential") : Require(p, op, CredentialById(db, S(p), id), "write")
    BY DEF RequireCredential
  <1>2. \A r \in CredentialById(db, S(p), id) : r \in db.rows /\ r.t = "credential" /\ r.up = S(p)
    BY DEF CredentialById, Of
  <1>3. op \notin {"domains_verify", "track_verify", "templates_copy"}
    BY DomainKinds, Kinds
  <1> QED BY <1>1, <1>2, <1>3, RequireGood DEF Chosen

LEMMA CredentialsGood ==
  ASSUME IInv, NEW p \in Procs, CredentialsCreate(p) \/ CredentialsUpdate(p) \/ CredentialsDestroy(p)
  PROVE  Good(p)
  <1>1. CASE Begin(p, "credentials_create") \/ Begin(p, "credentials_update") \/ Begin(p, "credentials_destroy")
    BY <1>1, BeginGood DEF RootOps
  <1>2. CASE Create(p, "credentials_create", Row("credential", S(p), "key", None), CreateCredential(db, S(p)))
    <2> DEFINE row == Row("credential", S(p), "key", None)
    <2>1. Write(p, CanInsert(db, row), CreateCredential(db, S(p))) /\ CreateCredential(db, S(p)) = Insert(db, row)
      BY <1>2 DEF Create, CreateCredential
    <2>2. IsRow(row) /\ ~row.flag /\ row.more = None /\ row.up = S(p) /\ row.t = "credential"
      BY NewRow, ServerFacts DEF None
    <2> HIDE DEF row
    <2> QED BY <2>1, <2>2, CreateGood
  <1>3. CASE RequireCredential(p, "credentials_update") \/ RequireCredential(p, "credentials_destroy")
    BY <1>3, Kinds, RequireCredentialGood
  <1>4. CASE Rewrite(p, "credentials_update", UpdateCredential, Asks)
    <2>1. Rewriting(p, "credentials_update", Asks)
      BY <1>4 DEF Rewrite, Rewriting, UpdateCredential
    <2> QED BY <2>1, RewritingGood DEF RewriteOps
  <1>5. CASE At(p, "credentials_destroy", "write") /\ Write(p, TRUE, DeleteCredential(db, req[p].row.id))
    BY <1>5, DestroyGood, Kinds DEF DeleteCredential
  <1> QED BY <1>1, <1>2, <1>3, <1>4, <1>5 DEF CredentialsCreate, CredentialsUpdate, CredentialsDestroy

(* Routes: their domain is one of the server's. *)
LEMMA RequireRouteGood ==
  ASSUME IInv, NEW p \in Procs, NEW op, RequireRoute(p, op), Kind(op) = "route"
  PROVE  Good(p)
  <1>1. PICK id \in Ids("route") : Require(p, op, RouteById(db, S(p), id), "write")
    BY DEF RequireRoute
  <1>2. \A r \in RouteById(db, S(p), id) : r \in db.rows /\ r.t = "route" /\ r.up = S(p)
    BY DEF RouteById, Of
  <1>3. op \notin {"domains_verify", "track_verify", "templates_copy"}
    BY DomainKinds, Kinds
  <1> QED BY <1>1, <1>2, <1>3, RequireGood DEF Chosen

LEMMA RoutesGood ==
  ASSUME IInv, NEW p \in Procs, RoutesCreate(p) \/ RoutesUpdate(p) \/ RoutesDestroy(p)
  PROVE  Good(p)
  <1>1. CASE Begin(p, "routes_create") \/ Begin(p, "routes_update") \/ Begin(p, "routes_destroy")
    BY <1>1, BeginGood DEF RootOps
  <1>2. CASE RequireDomain(p, "routes_create", "write")
    BY <1>2, RequireDomainGood, DomainKinds DEF Chosen
  <1>3. CASE /\ At(p, "routes_create", "write")
             /\ Write(p, CanInsert(db, Row("route", S(p), "route", req[p].row.id)), CreateRoute(db, S(p), req[p].row.id))
    <2> DEFINE row == Row("route", S(p), "route", req[p].row.id)
    <2>1. Write(p, CanInsert(db, row), CreateRoute(db, S(p), req[p].row.id)) /\ CreateRoute(db, S(p), req[p].row.id) = Insert(db, row)
      BY <1>3 DEF CreateRoute
    <2>2. req[p].op = "routes_create" /\ req[p].pc \in Chosen
      BY <1>3 DEF At, Chosen
    <2>3. req[p].row.id \in Nat
      BY RequestFacts DEF ReqOK, Copies, Known, IsRow
    <2>4. IsRow(row) /\ ~row.flag /\ row.more = None /\ row.up = S(p) /\ row.t = "route" /\ row.ref = req[p].row.id
      BY <2>3, NewRow, ServerFacts
    <2>5. \A x \in db.rows : x.id = req[p].row.id => x.up = S(p)
      BY <2>2, ChosenFacts, DomainKinds
    <2> HIDE DEF row
    <2> QED BY <2>1, <2>4, <2>5, CreateGood
  <1>4. CASE Create(p, "routes_create", Row("route", S(p), "route", None), CreateRoute(db, S(p), None))
    <2> DEFINE row == Row("route", S(p), "route", None)
    <2>1. Write(p, CanInsert(db, row), CreateRoute(db, S(p), None)) /\ CreateRoute(db, S(p), None) = Insert(db, row)
      BY <1>4 DEF Create, CreateRoute
    <2>2. IsRow(row) /\ ~row.flag /\ row.more = None /\ row.up = S(p) /\ row.t = "route" /\ row.ref = 0
      BY NewRow, ServerFacts DEF None
    <2>3. \A x \in db.rows : x.id # 0
      BY DEF IInv, Store
    <2> HIDE DEF row
    <2> QED BY <2>1, <2>2, <2>3, CreateGood
  <1>5. CASE RequireRoute(p, "routes_update") \/ RequireRoute(p, "routes_destroy")
    BY <1>5, Kinds, RequireRouteGood
  <1>6. CASE Rewrite(p, "routes_update", UpdateRoute, {"none"})
    <2>1. Rewriting(p, "routes_update", {"none"})
      BY <1>6 DEF Rewrite, Rewriting, UpdateRoute
    <2> QED BY <2>1, RewritingGood DEF RewriteOps, Asks
  <1>7. CASE At(p, "routes_destroy", "write") /\ Write(p, TRUE, DeleteRoute(db, req[p].row.id))
    BY <1>7, DestroyGood, Kinds DEF DeleteRoute
  <1> QED BY <1>1, <1>2, <1>3, <1>4, <1>5, <1>6, <1>7 DEF RoutesCreate, RoutesUpdate, RoutesDestroy

(* Webhooks. *)
LEMMA RequireWebhookGood ==
  ASSUME IInv, NEW p \in Procs, NEW op, RequireWebhook(p, op), Kind(op) = "webhook"
  PROVE  Good(p)
  <1>1. PICK id \in Ids("webhook") : Require(p, op, WebhookById(db, S(p), id), "write")
    BY DEF RequireWebhook
  <1>2. \A r \in WebhookById(db, S(p), id) : r \in db.rows /\ r.t = "webhook" /\ r.up = S(p)
    BY DEF WebhookById, Of
  <1>3. op \notin {"domains_verify", "track_verify", "templates_copy"}
    BY DomainKinds, Kinds
  <1> QED BY <1>1, <1>2, <1>3, RequireGood DEF Chosen

LEMMA WebhooksGood ==
  ASSUME IInv, NEW p \in Procs, WebhooksCreate(p) \/ WebhooksUpdate(p) \/ SetWebhookEnabled(p) \/ WebhooksDestroy(p)
  PROVE  Good(p)
  <1>1. CASE \/ Begin(p, "webhooks_create") \/ Begin(p, "webhooks_update")
             \/ Begin(p, "webhooks_enable") \/ Begin(p, "webhooks_destroy")
    BY <1>1, BeginGood DEF RootOps
  <1>2. CASE Create(p, "webhooks_create", Row("webhook", S(p), "hook", None), CreateWebhook(db, S(p)))
    <2> DEFINE row == Row("webhook", S(p), "hook", None)
    <2>1. Write(p, CanInsert(db, row), CreateWebhook(db, S(p))) /\ CreateWebhook(db, S(p)) = Insert(db, row)
      BY <1>2 DEF Create, CreateWebhook
    <2>2. IsRow(row) /\ ~row.flag /\ row.more = None /\ row.up = S(p) /\ row.t = "webhook"
      BY NewRow, ServerFacts DEF None
    <2> HIDE DEF row
    <2> QED BY <2>1, <2>2, CreateGood
  <1>3. CASE RequireWebhook(p, "webhooks_update") \/ RequireWebhook(p, "webhooks_enable") \/ RequireWebhook(p, "webhooks_destroy")
    BY <1>3, Kinds, RequireWebhookGood
  <1>4. CASE Rewrite(p, "webhooks_update", UpdateWebhook, Asks)
    <2>1. Rewriting(p, "webhooks_update", Asks)
      BY <1>4 DEF Rewrite, Rewriting, UpdateWebhook
    <2> QED BY <2>1, RewritingGood DEF RewriteOps
  <1>5. CASE Rewrite(p, "webhooks_enable", UpdateWebhook, {"stop", "go"})
    <2>1. Rewriting(p, "webhooks_enable", {"stop", "go"})
      BY <1>5 DEF Rewrite, Rewriting, UpdateWebhook
    <2> QED BY <2>1, RewritingGood DEF RewriteOps, Asks
  <1>6. CASE At(p, "webhooks_destroy", "write") /\ Write(p, TRUE, DeleteWebhook(db, req[p].row.id))
    BY <1>6, DestroyGood, Kinds DEF DeleteWebhook
  <1> QED BY <1>1, <1>2, <1>3, <1>4, <1>5, <1>6 DEF WebhooksCreate, WebhooksUpdate, SetWebhookEnabled, WebhooksDestroy

-----------------------------------------------------------------------------
(* Suppressions go by name, within the server. *)
LEMMA RemoveFine ==
  ASSUME IInv, NEW p \in Procs, NEW gone, \A r \in gone : r.t = "suppression" /\ r.up = S(p),
         NEW e, e = [db EXCEPT !.rows = @ \ gone]
  PROVE  Fine(p, e)
  <1>0. Store(db)
    BY DEF IInv
  <1>1. e.rows = db.rows \ gone /\ e.next = db.next /\ e = [f \in {"rows", "next"} |-> e[f]]
    BY <1>0 DEF Store
  <1>2. ASSUME NEW r \in e.rows PROVE Owned(e, r)
    <2> SUFFICES ASSUME r.t \notin {"domain", "server"}, r.up # None PROVE \E x \in e.rows : x.id = r.up
      BY DEF Owned
    <2>1. PICK x \in db.rows : x.id = r.up
      BY <1>0, <1>1 DEF Store, Owned
    <2>2. x.t \in {"server", "pool"}
      BY <1>0, <1>1, <2>1 DEF Store
    <2> QED BY <1>1, <2>1, <2>2
  <1>3. ASSUME NEW r \in e.rows PROVE AtHome(e, r)
    <2>1. AtHome(db, r)
      BY <1>0, <1>1 DEF Store
    <2>2. r.t \in {"route", "template"} => Target(r.t) # "suppression"
      BY DEF Target
    <2>3. \A t : t # "suppression" => Of(e, t) = Of(db, t)
      BY <1>1 DEF Of
    <2> QED BY <2>1, <2>2, <2>3 DEF AtHome, Exists
  <1>4. Store(e)
    BY <1>0, <1>1, <1>2, <1>3 DEF Store
  <1>5. Evolves(db, e)
    <2>1. ASSUME NEW x \in db.rows, x.t = "stream" PROVE \E y \in e.rows : Ident(y, x)
      BY <1>1, <2>1 DEF Ident
    <2> QED BY <1>0, <1>1, <2>1 DEF Evolves, Store, Ident
  <1>6. Mild(db, e)
    BY <1>1 DEF Mild, Ident
  <1>7. Within(p, e)
    BY <1>1 DEF Within, Elsewhere
  <1> QED BY <1>4, <1>5, <1>6, <1>7 DEF Fine

LEMMA SuppressionsGood ==
  ASSUME IInv, NEW p \in Procs, SuppressionsCreate(p) \/ SuppressionsDestroy(p)
  PROVE  Good(p)
  <1>1. CASE Begin(p, "suppressions_create") \/ Begin(p, "suppressions_destroy")
    BY <1>1, BeginGood DEF RootOps
  <1>2. ASSUME NEW a \in Names,
               Create(p, "suppressions_create", Row("suppression", S(p), a, None), CreateSuppression(db, S(p), a))
        PROVE  Good(p)
    <2> DEFINE row == Row("suppression", S(p), a, None)
    <2>1. Write(p, CanInsert(db, row), CreateSuppression(db, S(p), a)) /\ CreateSuppression(db, S(p), a) = Insert(db, row)
      BY <1>2 DEF Create, CreateSuppression
    <2>2. IsRow(row) /\ ~row.flag /\ row.more = None /\ row.up = S(p) /\ row.t = "suppression"
      BY NewRow, ServerFacts DEF None
    <2> HIDE DEF row
    <2> QED BY <2>1, <2>2, CreateGood
  <1>3. ASSUME NEW a \in Names, Write(p, TRUE, DeleteSuppression(db, S(p), a)) PROVE Good(p)
    <2> DEFINE gone == {r \in SetTenantContext(db, S(p)) : r.t = "suppression" /\ r.name = a}
    <2>1. Answer(p) /\ db' = [db EXCEPT !.rows = @ \ gone] /\ UNCHANGED ghosts
      BY <1>3 DEF Write, Statement, DeleteSuppression
    <2>2. \A r \in gone : r.t = "suppression" /\ r.up = S(p)
      BY DEF SetTenantContext
    <2> HIDE DEF gone
    <2>3. Fine(p, db')
      BY <2>1, <2>2, RemoveFine
    <2> QED BY <2>1, <2>3, AnswerGood
  <1> QED BY <1>1, <1>2, <1>3 DEF SuppressionsCreate, SuppressionsDestroy

LEMMA RequestKept ==
  ASSUME IInv, NEW p \in Procs, NEW e, Evolves(db, e)
  PROVE  ReqOK(e, req[p], proved, stopped)
  <1>1. Store(db)
    BY DEF IInv
  <1>2. ReqOK(db, req[p], proved, stopped)
    BY RequestFacts
  <1> QED BY <1>1, <1>2, RequestStays

LEMMA CalmCurrent == ASSUME NEW r, NEW St, r.pc \notin {"do", "write", "link"} PROVE Current(r, St)
  <1>1. ~Rewrites(r)
    BY DEF Rewrites
  <1> QED BY <1>1 DEF Current

(* An import: what a message refers to is a domain as it was at the start. *)
LEMMA ImportMoves ==
  ASSUME IInv, NEW p \in Procs, NEW r, NEW e, Store(e), Evolves(db, e), req[p].op = "messages_import",
         r.op = "messages_import", r.pc = "import", r.srv = req[p].srv, r.link = req[p].link, Copies(e, r)
  PROVE  ReqOK(e, r, proved, stopped)
  <1>1. ReqOK(e, req[p], proved, stopped)
    BY RequestKept
  <1>2. r.srv.id # 0 => r.srv.t = "server" /\ (r.link # Blank.link => r.srv.up = r.link[1])
    BY <1>1 DEF ReqOK, Placed
  <1>3. Placed(r, proved)
    BY <1>2 DEF Placed, Chosen, RootOps, ServerWrites
  <1>4. Aims(e, r)
    BY DEF Aims
  <1>5. r.pc \notin {"do", "write", "link"}
    OBVIOUS
  <1>6. Current(r, stopped)
    BY <1>5, CalmCurrent
  <1> QED BY <1>3, <1>4, <1>6 DEF ReqOK

LEMMA MessagesImportGood == ASSUME IInv, NEW p \in Procs, MessagesImport(p) PROVE Good(p)
  <1>0. Store(db) /\ ReqOK(db, req[p], proved, stopped) /\ req[p] = [f \in RequestFields |-> req[p][f]]
    BY RequestFacts DEF IInv
  <1>1. CASE Begin(p, "messages_import")
    BY <1>1, BeginGood DEF RootOps
  <1>2. ASSUME NEW x, x \in db.rows \/ x = NoRow, At(p, "messages_import", "do"),
               req' = [req EXCEPT ![p].row = x, ![p].n = 2, ![p].pc = "import"], db' = db, UNCHANGED ghosts
        PROVE  Good(p)
    <2> DEFINE r == [req[p] EXCEPT !.row = x, !.n = 2, !.pc = "import"]
    <2>1. req' = [req EXCEPT ![p] = r]
      BY <1>2, RequestFacts
    <2>2. req[p].op = "messages_import"
      BY <1>2 DEF At
    <2>3. /\ r = [f \in RequestFields |-> r[f]] /\ r.op = "messages_import" /\ r.pc = "import" /\ r.srv = req[p].srv
          /\ r.old = req[p].old /\ r.link = req[p].link /\ r.row = x
      BY <1>0, <2>2 DEF RequestFields
    <2> HIDE DEF r
    <2>4. Known(db, NoRow) /\ Leads(db, NoRow)
      BY <1>0, BlankFits DEF ReqOK, Blank, Copies
    <2>5. Known(db, x) /\ Leads(db, x)
      BY <1>0, <1>2, <2>4, RowKnown
    <2>6. Copies(db, r)
      BY <1>0, <2>3, <2>5 DEF ReqOK, Copies
    <2>7. ReqOK(db, r, proved, stopped)
      BY <1>0, <2>2, <2>3, <2>6, ImportMoves, EvolvesSame
    <2> QED BY <1>2, <2>1, <2>7, MoveGood
  <1>3. CASE \E found \in {{}} \union {DomainByName(db, S(p), name) : name \in Names} :
                /\ At(p, "messages_import", "do")
                /\ \E x \in found \union {NoRow} : req' = [req EXCEPT ![p].row = x, ![p].n = 2, ![p].pc = "import"]
                /\ db' = db /\ Quiet /\ UNCHANGED ghosts
    <2>1. \A name : DomainByName(db, S(p), name) \subseteq db.rows
      BY DEF DomainByName, Of
    <2>2. PICK found \in {{}} \union {DomainByName(db, S(p), name) : name \in Names} :
                /\ At(p, "messages_import", "do")
                /\ \E x \in found \union {NoRow} : req' = [req EXCEPT ![p].row = x, ![p].n = 2, ![p].pc = "import"]
                /\ db' = db /\ UNCHANGED ghosts
      BY <1>3, Zenon
    <2>3. found \subseteq db.rows
      BY <2>1
    <2>4. PICK x \in found \union {NoRow} : req' = [req EXCEPT ![p].row = x, ![p].n = 2, ![p].pc = "import"]
      BY <2>2, Zenon
    <2>5. x \in db.rows \/ x = NoRow
      BY <2>3
    <2> QED BY <1>2, <2>2, <2>4, <2>5, Zenon
  <1>4. ASSUME At(p, "messages_import", "import"),
               db' = db \/ (ById(db, S(p)) # {} /\ db' = ImportMessage(db, S(p), req[p].row.id)),
               Answer(p) \/ req' = [req EXCEPT ![p].n = @ - 1], UNCHANGED ghosts
        PROVE  Good(p)
    <2> DEFINE row == Row("message", S(p), "message", req[p].row.id)
               r == [req[p] EXCEPT !.n = @ - 1]
    <2>1. req[p].op = "messages_import" /\ req[p].pc = "import"
      BY <1>4 DEF At
    <2>2. req[p].row.id \in Nat
      BY <1>0 DEF ReqOK, Copies, Known, IsRow
    <2>3. IsRow(row) /\ ~row.flag /\ row.more = None /\ row.up = S(p) /\ row.t = "message"
      BY <2>2, NewRow, ServerFacts
    <2>4. db' = db \/ (ById(db, S(p)) # {} /\ db' = Insert(db, row))
      BY <1>4 DEF ImportMessage
    <2> HIDE DEF row
    <2>5. ASSUME ById(db, S(p)) # {} PROVE Fine(p, Insert(db, row))
      <3>1. Fits(db, row)
        BY <2>3, <2>5, ServerFacts DEF Fits, AtHome, Owned, ById
      <3> QED BY <1>0, <2>3, <3>1, InsertStore DEF Fine, Within
    <2>6. Fine(p, db')
      BY <2>4, <2>5, SameFine
    <2>7. CASE Answer(p)
      BY <1>4, <2>6, <2>7, AnswerGood
    <2>8. CASE req' = [req EXCEPT ![p].n = @ - 1]
      <3>1. req' = [req EXCEPT ![p] = r]
        BY <2>8, RequestFacts
      <3>2. /\ r = [f \in RequestFields |-> r[f]] /\ r.op = "messages_import" /\ r.pc = "import" /\ r.srv = req[p].srv
            /\ r.old = req[p].old /\ r.link = req[p].link /\ r.row = req[p].row
        BY <1>0, <2>1 DEF RequestFields
      <3> HIDE DEF r
      <3>3. ReqOK(db', req[p], proved, stopped)
        BY <1>0, <2>6, RequestStays DEF Fine
      <3>4. Copies(db', r)
        BY <3>2, <3>3 DEF ReqOK, Copies
      <3>5. ReqOK(db', r, proved, stopped)
        BY <2>1, <2>6, <3>2, <3>4, ImportMoves DEF Fine
      <3> QED BY <1>4, <2>6, <3>1, <3>5, WrittenGood
    <2> QED BY <1>4, <2>7, <2>8
  <1>5. CASE \E stored \in BOOLEAN :
                /\ At(p, "messages_import", "import")
                /\ stored => ById(db, S(p)) # {}
                /\ db' = IF stored THEN ImportMessage(db, S(p), req[p].row.id) ELSE db
                /\ IF req[p].n = 1 THEN Answer(p) ELSE req' = [req EXCEPT ![p].n = @ - 1]
                /\ Quiet /\ UNCHANGED ghosts
    <2>1. db' = db \/ (ById(db, S(p)) # {} /\ db' = ImportMessage(db, S(p), req[p].row.id))
      BY <1>5
    <2>2. At(p, "messages_import", "import") /\ UNCHANGED ghosts
      BY <1>5
    <2>3. Answer(p) \/ req' = [req EXCEPT ![p].n = @ - 1]
      BY <1>5
    <2> QED BY <1>4, <2>1, <2>2, <2>3
  <1> QED BY <1>1, <1>3, <1>5 DEF MessagesImport

-----------------------------------------------------------------------------
(* A copy goes to a server of the organization of the request, and to the  *)
(* template that had its name there.                                       *)
LEMMA CopyTargets ==
  ASSUME IInv, NEW p \in Procs, At(p, "templates_copy", "target"), NEW t \in db.rows, t.t = "server", t.up = req[p].srv.up,
         NEW old, old = NoRow \/ (old \in db.rows /\ old.t = "template" /\ old.up = t.id),
         NEW r, r.op = "templates_copy", r.pc = "link", r.srv = req[p].srv, r.row = req[p].row, r.old = old,
         r.link = req[p].link, r.to = t.id, Copies(db, r)
  PROVE  ReqOK(db, r, proved, stopped)
  <1>0. /\ Store(db) /\ ReqOK(db, req[p], proved, stopped)
        /\ req[p].op = "templates_copy" /\ req[p].pc = "target" /\ Ghosts(db, stopped) /\ StoppedStays
    BY RequestFacts DEF IInv, At
  <1>1. NoRow.id = 0 /\ NoRow.ref = None
    BY DEF NoRow, Row
  <1>2. Placed(r, proved)
    BY <1>0 DEF ReqOK, Placed, Chosen, ServerWrites, RootOps
  <1>3. Aims(db, r)
    <2>1. req[p].srv.up = req[p].link[1]
      BY <1>0 DEF ReqOK, Aims
    <2>2. ServerAt(db, t.id, req[p].link[1]) /\ t.id # 0
      BY <1>0, <2>1 DEF ServerAt, Store, IsRow
    <2>3. old.id # 0 => old.t = "template" /\ old.up = t.id
      BY <1>1
    <2>4. old.id = 0 => old.ref = None
      BY <1>0, <1>1 DEF Store
    <2> QED BY <2>1, <2>2, <2>3, <2>4 DEF Aims
  <1>4. Current(r, stopped)
    <2>1. Copy(r) = old
      BY DEF Copy
    <2>2. old.id \in stopped => old.flag
      BY <1>0, <1>1 DEF Ghosts, StoppedStays
    <2> QED BY <2>1, <2>2 DEF Current
  <1> QED BY <1>2, <1>3, <1>4 DEF ReqOK

LEMMA CopyCreates ==
  ASSUME IInv, NEW p \in Procs, At(p, "templates_copy", "link"), req[p].old.id = 0, NEW row, IsRow(row), ~row.flag,
         row.more = None, row.t = "template", row.up = req[p].to, row.ref = req[p].old.ref,
         ById(db, row.up) # {}, db' = Insert(db, row), Answer(p), UNCHANGED ghosts
  PROVE  Good(p)
  <1>0. Store(db) /\ ServerAt(db, req[p].to, req[p].link[1]) /\ row.ref = None
    BY RequestFacts DEF IInv, At, ReqOK, Aims
  <1>1. Fits(db, row)
    BY <1>0 DEF Fits, AtHome, Owned, ServerAt, ById
  <1>2. Fine(p, db')
    BY <1>0, <1>1, InsertStore DEF Fine, Within
  <1> QED BY <1>2, AnswerGood

LEMMA CopyReplaces ==
  ASSUME IInv, NEW p \in Procs, At(p, "templates_copy", "link"), req[p].old.id # 0, NEW row, IsRow(row),
         Ident(row, req[p].old), row.ref = req[p].old.ref, RefHolds(db, row), db' = Put(db, row), Answer(p),
         NEW ask, ask \in {"stop", "go"}, ask = "stop" => row.flag, Note(p, row.id, ask)
  PROVE  Good(p)
  <1> DEFINE c == req[p].old
  <1>0. /\ Store(db) /\ ServerAt(db, req[p].to, req[p].link[1]) /\ c.t = "template" /\ c.up = req[p].to
        /\ Known(db, c) /\ Leads(db, c)
    BY RequestFacts DEF IInv, At, ReqOK, Aims, Copies
  <1>1. c.id # 0 /\ Ident(row, c) /\ row.ref = c.ref
    OBVIOUS
  <1> HIDE DEF c
  <1>2. \A r \in db.rows : r.id = row.id => Ident(row, r)
    BY <1>0, <1>1 DEF Known, Ident
  <1>3. Changed(db, db', row.id) /\ \A x \in db'.rows : x.id = row.id => x = row
    BY <1>0, <1>2, PutChanges
  <1>4. row.id \in Nat /\ row.id # 0 /\ row.id < db.next
    BY <1>0, <1>1 DEF Known, IsRow, Ident
  <1>5. AtHome(db, row)
    <2>1. Target("template") = "layout"
      BY DEF Target
    <2>2. row.ref # None => \E x \in Of(db, "layout") : x.id = row.ref /\ x.up = row.up
      BY <1>0, <1>1, <2>1 DEF RefHolds, Exists, Of, Leads, Ident
    <2> QED BY <1>0, <1>1, <2>1, <2>2 DEF AtHome, Ident
  <1>6. row.t = "template" /\ row.up = req[p].to
    BY <1>0, <1>1 DEF Ident
  <1>7. Within(p, db')
    <2>1. \A r \in db.rows : r.id = row.id => r.t # "server" /\ r.up = req[p].to
      BY <1>2, <1>6 DEF Ident
    <2>2. Elsewhere(db, db', req[p].to)
      BY <1>3, <2>1, ChangedElsewhere
    <2> QED BY <1>0, <2>2 DEF Within
  <1> QED BY <1>3, <1>4, <1>5, <1>6, <1>7, NotedGood DEF Trusted

LEMMA TemplatesCopyToGood == ASSUME IInv, NEW p \in Procs, TemplatesCopyTo(p) PROVE Good(p)
  <1>1. CASE Begin(p, "templates_copy")
    BY <1>1, BeginGood DEF RootOps
  <1>2. ASSUME NEW l \in Names, Require(p, "templates_copy", TemplateByPermalink(db, S(p), l), "target")
        PROVE  Good(p)
    <2>1. \A r \in TemplateByPermalink(db, S(p), l) : r \in db.rows /\ r.t = "template" /\ r.up = S(p)
      BY DEF TemplateByPermalink, Of
    <2> QED BY <1>2, <2>1, Kinds, RequireGood DEF Chosen
  <1>3. ASSUME NEW link \in Links, NEW t \in Of(db, "server"), At(p, "templates_copy", "target"),
               t \in ServerByPermalink(db, req[p].srv.up, link[2]),
               NEW old \in IF TemplateByPermalink(db, t.id, req[p].row.name) = {} THEN {NoRow}
                           ELSE TemplateByPermalink(db, t.id, req[p].row.name),
               req' = [req EXCEPT ![p].to = t.id, ![p].old = old, ![p].pc = "link"],
               db' = db, UNCHANGED ghosts
        PROVE  Good(p)
    <2>1. t \in db.rows /\ t.t = "server" /\ t.up = req[p].srv.up
      BY <1>3 DEF ServerByPermalink, Of
    <2>2. old = NoRow \/ (old \in db.rows /\ old.t = "template" /\ old.up = t.id)
      BY DEF TemplateByPermalink, Of
    <2> DEFINE r == [req[p] EXCEPT !.to = t.id, !.old = old, !.pc = "link"]
    <2>3. req' = [req EXCEPT ![p] = r]
      BY <1>3, RequestFacts
    <2>4. ReqOK(db, req[p], proved, stopped) /\ req[p] = [f \in RequestFields |-> req[p][f]] /\ req[p].op = "templates_copy"
      BY <1>3, RequestFacts DEF At
    <2>5. /\ r = [f \in RequestFields |-> r[f]] /\ r.op = "templates_copy" /\ r.pc = "link" /\ r.srv = req[p].srv
          /\ r.row = req[p].row /\ r.old = old /\ r.link = req[p].link /\ r.to = t.id
      BY <2>4 DEF RequestFields
    <2> HIDE DEF r
    <2>6. Known(db, old) /\ Leads(db, old)
      BY <2>2, BlankFits, RowKnown DEF IInv, ReqOK, Blank, Copies
    <2>7. Copies(db, r)
      BY <2>4, <2>5, <2>6 DEF ReqOK, Copies
    <2>8. ReqOK(db, r, proved, stopped)
      BY <1>3, <2>1, <2>2, <2>5, <2>7, CopyTargets
    <2> QED BY <1>3, <2>3, <2>8, MoveGood
  <1>4. CASE /\ At(p, "templates_copy", "link") /\ req[p].old.id = 0
             /\ LET new == [Row("template", req[p].to, req[p].row.name, CopiedLayout(req[p].row, req[p].old))
                              EXCEPT !.val = req[p].row.val] IN
                Write(p, CanInsert(db, new), CreateTemplate(db, req[p].to, new.name, new.val, new.ref))
    <2> DEFINE new == [Row("template", req[p].to, req[p].row.name, req[p].old.ref) EXCEPT !.val = req[p].row.val]
    <2>1. /\ Answer(p) /\ UNCHANGED ghosts
          /\ db' = db \/ (CanInsert(db, new) /\ db' = CreateTemplate(db, req[p].to, new.name, new.val, new.ref))
      BY <1>4 DEF Write, Statement, CopiedLayout
    <2>2. req[p].to \in Nat /\ req[p].old.ref \in Nat
      BY <1>4, RequestFacts DEF At, ReqOK, Aims, ServerAt, Copies, Known, IsRow
    <2>3. /\ IsRow(new) /\ ~new.flag /\ new.more = None /\ new.t = "template" /\ new.up = req[p].to
          /\ new.ref = req[p].old.ref /\ new.name = req[p].row.name /\ new.val = req[p].row.val
      BY <2>2 DEF Row, IsRow, RowFields, None
    <2>4. CreateTemplate(db, req[p].to, new.name, new.val, new.ref) = Insert(db, new)
      <3>1. new = [Row("template", req[p].to, new.name, new.ref) EXCEPT !.val = new.val]
        BY <2>3
      <3> HIDE DEF new
      <3> QED BY <3>1 DEF CreateTemplate
    <2> HIDE DEF new
    <2>5. CASE db' = db
      BY <2>1, <2>5, RefusedGood
    <2>6. CASE CanInsert(db, new) /\ db' = Insert(db, new)
      <3>1. req[p].to # 0
        BY <1>4, RequestFacts DEF At, ReqOK, Aims
      <3>2. ById(db, new.up) # {}
        BY <2>3, <2>6, <3>1 DEF CanInsert, None
      <3> QED BY <1>4, <2>1, <2>3, <2>6, <3>2, CopyCreates
    <2> QED BY <2>1, <2>4, <2>5, <2>6
  <1>5. CASE /\ At(p, "templates_copy", "link") /\ req[p].old.id # 0
             /\ LET row == [req[p].old EXCEPT !.val = req[p].row.val, !.flag = req[p].row.flag,
                                              !.ref = CopiedLayout(req[p].row, req[p].old)] IN
                /\ Statement(p, RefHolds(db, row), UpdateTemplate(db, row), "done")
                /\ Note(p, row.id, IF ~RefHolds(db, row) THEN "none" ELSE IF row.flag THEN "stop" ELSE "go")
    <2> DEFINE row == [req[p].old EXCEPT !.val = req[p].row.val, !.flag = req[p].row.flag, !.ref = req[p].old.ref]
    <2>1. /\ Answer(p)
          /\ \/ ~RefHolds(db, row) /\ db' = db /\ Note(p, row.id, "none")
             \/ RefHolds(db, row) /\ db' = Put(db, row) /\ row.flag /\ Note(p, row.id, "stop")
             \/ RefHolds(db, row) /\ db' = Put(db, row) /\ ~row.flag /\ Note(p, row.id, "go")
      BY <1>5 DEF Statement, CopiedLayout, UpdateTemplate
    <2>2. IsRow(req[p].old) /\ IsRow(req[p].row)
      BY RequestFacts DEF ReqOK, Copies, Known
    <2>3. Ident(row, req[p].old) /\ row.ref = req[p].old.ref /\ row = [f \in RowFields |-> row[f]] /\ row.more = req[p].old.more
      BY <2>2 DEF IsRow, RowFields, Ident
    <2>4. row.flag = req[p].row.flag
      BY <2>2, Zenon DEF IsRow, RowFields
    <2> HIDE DEF row
    <2>5. IsRow(row)
      BY <2>2, <2>3, <2>4 DEF IsRow, Ident
    <2>6. CASE ~RefHolds(db, row) /\ db' = db /\ Note(p, row.id, "none")
      BY <2>1, <2>6, NotWrittenGood
    <2>7. CASE RefHolds(db, row) /\ db' = Put(db, row) /\ row.flag /\ Note(p, row.id, "stop")
      BY <1>5, <2>1, <2>3, <2>5, <2>7, CopyReplaces
    <2>8. CASE RefHolds(db, row) /\ db' = Put(db, row) /\ ~row.flag /\ Note(p, row.id, "go")
      BY <1>5, <2>1, <2>3, <2>5, <2>8, CopyReplaces
    <2> QED BY <2>1, <2>6, <2>7, <2>8
  <1> QED BY <1>1, <1>2, <1>3, <1>4, <1>5, Zenon DEF TemplatesCopyTo

-----------------------------------------------------------------------------
(* Pools and their addresses are no server's. *)
LEMMA RootInsert ==
  ASSUME IInv, NEW p \in Procs, req[p].op \in RootOps, NEW row, NEW e, Write(p, CanInsert(db, row), e), e = Insert(db, row),
         CanInsert(db, row) => Fits(db, row)
  PROVE  Good(p)
  <1>1. Answer(p) /\ (db' = db \/ (CanInsert(db, row) /\ db' = Insert(db, row))) /\ UNCHANGED ghosts
    BY DEF Write, Statement
  <1>2. CASE db' = db
    BY <1>1, <1>2, RefusedGood
  <1>3. CASE CanInsert(db, row) /\ db' = Insert(db, row)
    <2>1. req[p].link = Blank.link
      BY RequestFacts DEF ReqOK, Placed
    <2>2. Fine(p, db')
      BY <1>3, <2>1, InsertStore DEF IInv, Fine, Within
    <2> QED BY <1>1, <2>2, AnswerGood
  <1> QED BY <1>1, <1>2, <1>3

LEMMA RequireIpPoolGood ==
  ASSUME IInv, NEW p \in Procs, NEW op, RequireIpPool(p, op), Kind(op) = "pool"
  PROVE  Good(p)
  <1>1. PICK id \in Ids("pool") : Require(p, op, IpPoolById(db, id), "write")
    BY DEF RequireIpPool
  <1>2. \A r \in IpPoolById(db, id) : r \in db.rows /\ r.t = "pool"
    BY DEF IpPoolById, Of
  <1>3. op \notin {"domains_verify", "track_verify", "templates_copy"}
    BY DomainKinds, Kinds
  <1> QED BY <1>1, <1>2, <1>3, RequireGood DEF Chosen

LEMMA IpPoolsGood == ASSUME IInv, NEW p \in Procs, IpPoolsCreate(p) \/ IpPoolsDestroy(p) PROVE Good(p)
  <1>1. CASE RootMiddleware(p, "pools_create") \/ RootMiddleware(p, "pools_destroy")
    BY <1>1, RootGood DEF Plain, ServerWrites
  <1>2. CASE Create(p, "pools_create", Row("pool", None, "pool", None), CreateIpPool(db))
    <2> DEFINE row == Row("pool", None, "pool", None)
    <2>1. /\ Write(p, CanInsert(db, row), CreateIpPool(db)) /\ CreateIpPool(db) = Insert(db, row)
          /\ req[p].op = "pools_create"
      BY <1>2 DEF Create, CreateIpPool, At
    <2>2. IsRow(row) /\ ~row.flag /\ row.more = None /\ row.up = 0 /\ row.t = "pool"
      BY NewRow DEF None
    <2> HIDE DEF row
    <2>3. Fits(db, row)
      BY <2>2 DEF Fits, AtHome, Owned, IInv, Store, None
    <2> QED BY <2>1, <2>3, RootInsert DEF RootOps
  <1>3. CASE RequireIpPool(p, "pools_destroy")
    BY <1>3, Kinds, RequireIpPoolGood
  <1>4. CASE At(p, "pools_destroy", "write") /\ Write(p, TRUE, DeleteIpPool(db, req[p].row.id))
    BY <1>4, DestroyGood, Kinds DEF DeleteIpPool, RootOps
  <1> QED BY <1>1, <1>2, <1>3, <1>4 DEF IpPoolsCreate, IpPoolsDestroy

LEMMA IpAddressesGood == ASSUME IInv, NEW p \in Procs, IpAddressesCreate(p) \/ IpAddressesDestroy(p) PROVE Good(p)
  <1>1. CASE RootMiddleware(p, "addresses_create") \/ RootMiddleware(p, "addresses_destroy")
    BY <1>1, RootGood DEF Plain, ServerWrites
  <1>2. CASE RequireIpPool(p, "addresses_create")
    BY <1>2, Kinds, RequireIpPoolGood
  <1>3. CASE /\ At(p, "addresses_create", "write")
             /\ Write(p, CanInsert(db, Row("address", req[p].row.id, "address", None)), CreateIpAddress(db, req[p].row.id))
    <2> DEFINE row == Row("address", req[p].row.id, "address", None)
    <2>1. /\ Write(p, CanInsert(db, row), CreateIpAddress(db, req[p].row.id))
          /\ CreateIpAddress(db, req[p].row.id) = Insert(db, row)
      BY <1>3 DEF CreateIpAddress
    <2>2. req[p].op = "addresses_create" /\ req[p].pc \in Chosen
      BY <1>3 DEF At, Chosen
    <2>3. req[p].row.id \in Nat /\ req[p].row.id < db.next
      BY RequestFacts DEF ReqOK, Copies, Known, IsRow
    <2>4. IsRow(row) /\ ~row.flag /\ row.more = None /\ row.up = req[p].row.id /\ row.t = "address"
      BY <2>3, NewRow DEF None
    <2>5. \A x \in db.rows : x.id = req[p].row.id => x.t = "pool"
      BY <2>2, ChosenFacts, Kinds
    <2> HIDE DEF row
    <2>6. CanInsert(db, row) => Fits(db, row)
      BY <2>3, <2>4, <2>5 DEF Fits, AtHome, Owned, CanInsert, ById
    <2> QED BY <2>1, <2>2, <2>6, RootInsert DEF RootOps
  <1>4. ASSUME NEW id \in Ids("address"), NEW pool \in Ids("pool"),
               Require(p, "addresses_destroy", IpAddressById(db, pool, id), "write")
        PROVE  Good(p)
    <2>1. \A r \in IpAddressById(db, pool, id) : r \in db.rows /\ r.t = "address"
      BY DEF IpAddressById, Of
    <2> QED BY <1>4, <2>1, Kinds, RequireGood DEF Chosen
  <1>5. CASE At(p, "addresses_destroy", "write") /\ Write(p, TRUE, DeleteIpAddress(db, req[p].row.id))
    BY <1>5, DestroyGood, Kinds DEF DeleteIpAddress, RootOps
  <1> QED BY <1>1, <1>2, <1>3, <1>4, <1>5 DEF IpAddressesCreate, IpAddressesDestroy

-----------------------------------------------------------------------------
(* The messaging API. *)
LEMMA StreamsGood ==
  ASSUME IInv, NEW p \in Procs, StreamsCreate(p) \/ StreamUpdate(p) \/ StreamArchive(p)
  PROVE  Good(p)
  <1>1. CASE \/ ServerAuthMiddleware(p, "streams_create") \/ ServerAuthMiddleware(p, "stream_update")
             \/ ServerAuthMiddleware(p, "stream_archive")
    BY <1>1, ServerAuthGood DEF Plain, ServerWrites
  <1>2. ASSUME NEW l \in Names, NEW pool \in Ids("pool") \union {None},
               Create(p, "streams_create", Row("stream", S(p), l, pool), CreateStream(db, S(p), l, pool))
        PROVE  Good(p)
    <2> DEFINE row == Row("stream", S(p), l, pool)
    <2>1. Write(p, CanInsert(db, row), CreateStream(db, S(p), l, pool)) /\ CreateStream(db, S(p), l, pool) = Insert(db, row)
      BY <1>2 DEF Create, CreateStream
    <2>2. pool \in Nat
      BY DEF Ids, Of, IInv, Store, IsRow, None
    <2>3. IsRow(row) /\ ~row.flag /\ row.more = None /\ row.up = S(p) /\ row.t = "stream"
      BY <2>2, NewRow, ServerFacts
    <2> HIDE DEF row
    <2> QED BY <2>1, <2>3, CreateGood
  <1>3. ASSUME NEW op, RequireStream(p, op), Kind(op) = "stream" PROVE Good(p)
    <2>1. PICK l \in Names : Require(p, op, StreamByPermalink(db, S(p), l), "write")
      BY <1>3 DEF RequireStream
    <2>2. \A r \in StreamByPermalink(db, S(p), l) : r \in db.rows /\ r.t = "stream" /\ r.up = S(p)
      BY DEF StreamByPermalink, Of
    <2>3. op \notin {"domains_verify", "track_verify", "templates_copy"}
      BY <1>3, DomainKinds, Kinds
    <2> QED BY <1>3, <2>1, <2>2, <2>3, RequireGood DEF Chosen
  <1>4. CASE Rewrite(p, "stream_update", UpdateStream, Asks)
    <2>1. Rewriting(p, "stream_update", Asks)
      BY <1>4 DEF Rewrite, Rewriting, UpdateStream
    <2> QED BY <2>1, RewritingGood DEF RewriteOps
  <1>5. CASE Rewrite(p, "stream_archive", UpdateStream, {"stop"})
    <2>1. Rewriting(p, "stream_archive", {"stop"})
      BY <1>5 DEF Rewrite, Rewriting, UpdateStream
    <2> QED BY <2>1, RewritingGood DEF RewriteOps, Asks
  <1> QED BY <1>1, <1>2, <1>3, <1>4, <1>5, Kinds DEF StreamsCreate, StreamUpdate, StreamArchive

LEMMA LayoutsGood ==
  ASSUME IInv, NEW p \in Procs, LayoutsCreate(p) \/ LayoutUpdate(p) \/ LayoutLogoUpload(p) \/ LayoutDestroy(p)
  PROVE  Good(p)
  <1>0. Store(db) /\ ReqOK(db, req[p], proved, stopped)
    BY RequestFacts DEF IInv
  <1>1. CASE \/ ServerAuthMiddleware(p, "layouts_create") \/ ServerAuthMiddleware(p, "layout_update")
             \/ ServerAuthMiddleware(p, "layout_logo") \/ ServerAuthMiddleware(p, "layout_destroy")
    BY <1>1, ServerAuthGood DEF Plain, ServerWrites
  <1>2. ASSUME NEW l \in Names,
               Create(p, "layouts_create", Row("layout", S(p), l, None), CreateLayout(db, S(p), l))
        PROVE  Good(p)
    <2> DEFINE row == Row("layout", S(p), l, None)
    <2>1. Write(p, CanInsert(db, row), CreateLayout(db, S(p), l)) /\ CreateLayout(db, S(p), l) = Insert(db, row)
      BY <1>2 DEF Create, CreateLayout
    <2>2. IsRow(row) /\ ~row.flag /\ row.more = None /\ row.up = S(p) /\ row.t = "layout"
      BY NewRow, ServerFacts DEF None
    <2> HIDE DEF row
    <2> QED BY <2>1, <2>2, CreateGood
  <1>3. ASSUME NEW op, RequireLayout(p, op), Kind(op) = "layout" PROVE Good(p)
    <2>1. PICK l \in Names : Require(p, op, LayoutByPermalink(db, S(p), l), "write")
      BY <1>3 DEF RequireLayout
    <2>2. \A r \in LayoutByPermalink(db, S(p), l) : r \in db.rows /\ r.t = "layout" /\ r.up = S(p)
      BY DEF LayoutByPermalink, Of
    <2>3. op \notin {"domains_verify", "track_verify", "templates_copy"}
      BY <1>3, DomainKinds, Kinds
    <2> QED BY <1>3, <2>1, <2>2, <2>3, RequireGood DEF Chosen
  <1>4. CASE Rewrite(p, "layout_update", UpdateLayout, {"none"})
    <2> DEFINE row == Edited(req[p].row, "none")
               g   == [r \in db.rows |-> [r EXCEPT !.val = row.val]]
    <2>1. /\ Answer(p) /\ Note(p, row.id, "none") /\ At(p, "layout_update", "write")
          /\ db' = db \/ db' = UpdateLayout(db, row)
      BY <1>4 DEF Rewrite, Statement
    <2>2. row.id = req[p].row.id
      BY <1>0, EditedFacts DEF ReqOK, Copies, Known, Ident, Asks
    <2>3. UpdateLayout(db, row) = [db EXCEPT !.rows = {IF r.id = req[p].row.id THEN g[r] ELSE r : r \in @}]
      <3> HIDE DEF row
      <3> QED BY <2>2 DEF UpdateLayout, Set
    <2>4. \A r \in db.rows : Ident(g[r], r) /\ IsRow(g[r]) /\ g[r].flag = r.flag /\ g[r].ref = r.ref
      <3> HIDE DEF row
      <3> QED BY <1>0 DEF Store, IsRow, RowFields, Ident
    <2> HIDE DEF g, row
    <2>5. Fine(p, db')
      BY <2>1, <2>3, <2>4, ColumnFine, SameFine, Kinds DEF At, Chosen
    <2>6. UNCHANGED ghosts
      BY <2>1 DEF Note, ghosts
    <2> QED BY <2>1, <2>5, <2>6, AnswerGood
  <1>5. CASE At(p, "layout_logo", "write") /\ Write(p, TRUE, SetLayoutLogo(db, S(p), req[p].row.id))
    <2> DEFINE g == [r \in db.rows |-> IF r.up = S(p) THEN [r EXCEPT !.more = 1] ELSE r]
    <2>1. Answer(p) /\ db' = SetLayoutLogo(db, S(p), req[p].row.id) /\ UNCHANGED ghosts
      BY <1>5 DEF Write, Statement
    <2>2. req[p].op = "layout_logo" /\ req[p].pc = "write"
      BY <1>5 DEF At
    <2>3. db' = [db EXCEPT !.rows = {IF r.id = req[p].row.id THEN g[r] ELSE r : r \in @}]
      BY <2>1 DEF SetLayoutLogo, Set
    <2>4. \A r \in db.rows : Ident(g[r], r) /\ IsRow(g[r]) /\ g[r].flag = r.flag /\ g[r].ref = r.ref
      BY <1>0 DEF Store, IsRow, RowFields, Ident
    <2> HIDE DEF g
    <2>5. Fine(p, db')
      BY <2>2, <2>3, <2>4, ColumnFine, Kinds DEF Chosen
    <2> QED BY <2>1, <2>5, AnswerGood
  <1>6. CASE At(p, "layout_destroy", "write") /\ Write(p, TRUE, DeleteLayout(db, S(p), req[p].row.id))
    <2>1. Answer(p) /\ UNCHANGED ghosts /\ (db' = db \/ db' = Delete(db, req[p].row.id))
      BY <1>6 DEF Write, Statement, DeleteLayout
    <2>2. CASE db' = db
      BY <2>1, <2>2, RefusedGood
    <2>3. CASE db' = Delete(db, req[p].row.id)
      <3>1. req[p].op = "layout_destroy" /\ req[p].pc \in Chosen
        BY <1>6 DEF At, Chosen
      <3>2. Fine(p, Delete(db, req[p].row.id))
        BY <3>1, DeleteFine, ChosenFacts, Kinds
      <3> QED BY <2>1, <2>3, <3>2, AnswerGood
    <2> QED BY <2>1, <2>2, <2>3
  <1> QED BY <1>1, <1>2, <1>3, <1>4, <1>5, <1>6, Kinds DEF LayoutsCreate, LayoutUpdate, LayoutLogoUpload, LayoutDestroy

LEMMA RequireTemplateGood ==
  ASSUME IInv, NEW p \in Procs, NEW op, NEW pc, RequireTemplate(p, op, pc), op \in {"template_update", "template_archive"},
         pc \in {"write", "link"}
  PROVE  Good(p)
  <1>1. PICK l \in Names : Require(p, op, TemplateByPermalink(db, S(p), l), pc)
    BY DEF RequireTemplate
  <1>2. \A r \in TemplateByPermalink(db, S(p), l) : r \in db.rows /\ r.t = "template" /\ r.up = S(p)
    BY DEF TemplateByPermalink, Of
  <1>3. Kind(op) = "template"
    BY Kinds
  <1> QED BY <1>1, <1>2, <1>3, RequireGood DEF Chosen

(* The layout of a template is one of the same server. *)
LEMMA LinkGood ==
  ASSUME IInv, NEW p \in Procs, At(p, "template_update", "link"), NEW y \in db.rows, y.t = "layout", y.up = S(p),
         NEW r, Copies(db, r), r.op = "template_update", r.pc = "write", r.srv = req[p].srv, r.link = req[p].link,
         Ident(r.row, req[p].row), r.row.flag = req[p].row.flag
  PROVE  ReqOK(db, r, proved, stopped)
  <1>1. /\ ReqOK(db, req[p], proved, stopped) /\ req[p].op = "template_update" /\ req[p].pc = "link"
    BY RequestFacts DEF At
  <1>2. req[p].row.t = "template" /\ req[p].row.id # 0 /\ req[p].row.up = req[p].srv.id
    BY <1>1, Kinds DEF ReqOK, Placed, Chosen
  <1>3. req[p].srv.id # 0 => req[p].srv.t = "server" /\ (req[p].link # Blank.link => req[p].srv.up = req[p].link[1])
    BY <1>1 DEF ReqOK, Placed
  <1>4. Placed(r, proved)
    <2>1. Kind(r.op) = "template"
      BY Kinds
    <2>2. r.row.t = "template" /\ r.row.id # 0 /\ r.row.up = r.srv.id
      BY <1>2 DEF Ident
    <2> QED BY <1>3, <2>1, <2>2 DEF Placed, ServerWrites, RootOps
  <1>5. Aims(db, r)
    BY DEF Aims
  <1>6. Current(r, stopped)
    <2>1. req[p].row.id \in stopped => req[p].row.flag
      BY <1>1 DEF ReqOK, Current, Rewrites, Copy, RewriteOps
    <2>2. Copy(r) = r.row
      BY DEF Copy
    <2> QED BY <2>1, <2>2 DEF Current, Ident
  <1> QED BY <1>4, <1>5, <1>6 DEF ReqOK

LEMMA TemplateUpdateGood == ASSUME IInv, NEW p \in Procs, TemplateUpdate(p) PROVE Good(p)
  <1>0. Store(db) /\ ReqOK(db, req[p], proved, stopped) /\ req[p] = [f \in RequestFields |-> req[p][f]]
    BY RequestFacts DEF IInv
  <1>1. CASE ServerAuthMiddleware(p, "template_update")
    BY <1>1, ServerAuthGood DEF Plain, ServerWrites
  <1>2. CASE RequireTemplate(p, "template_update", "link") \/ RequireTemplate(p, "template_update", "write")
    BY <1>2, RequireTemplateGood
  <1>3. ASSUME At(p, "template_update", "link"), NEW y \in db.rows, y.t = "layout", y.up = S(p),
               req' = [req EXCEPT ![p].row.ref = y.id, ![p].pc = "write"], db' = db, UNCHANGED ghosts
        PROVE  Good(p)
    <2> DEFINE new == [req[p].row EXCEPT !.ref = y.id]
               r   == [req[p] EXCEPT !.row = new, !.pc = "write"]
    <2>1. req' = [req EXCEPT ![p] = r]
      <3>1. req = [q \in Procs |-> req[q]]
        BY RequestFacts
      <3> QED BY <1>0, <1>3, <3>1 DEF RequestFields
    <2>2. IsRow(req[p].row) /\ Known(db, req[p].row) /\ req[p].row.t = "template" /\ req[p].row.up = S(p)
      BY <1>0, <1>3, Kinds DEF At, ReqOK, Copies, Known, Placed, Chosen, S
    <2>3. y.id \in Nat /\ y.id < db.next
      BY <1>0 DEF Store, IsRow
    <2>4. IsRow(new) /\ Ident(new, req[p].row) /\ new.ref = y.id /\ new.flag = req[p].row.flag
      BY <2>2, <2>3 DEF IsRow, RowFields, Ident
    <2> HIDE DEF new
    <2>5. /\ r = [f \in RequestFields |-> r[f]] /\ r.op = "template_update" /\ r.pc = "write" /\ r.srv = req[p].srv
          /\ r.row = new /\ r.old = req[p].old /\ r.link = req[p].link
      <3>1. req[p].op = "template_update"
        BY <1>3 DEF At
      <3> QED BY <1>0, <3>1 DEF RequestFields
    <2> HIDE DEF r
    <2>6. Known(db, new)
      BY <2>2, <2>4 DEF Known, Ident
    <2>7. Leads(db, new)
      <3>1. new.t = "template" /\ new.up = S(p) /\ Target("template") = "layout"
        BY <2>2, <2>4 DEF Ident, Target
      <3>2. \A x \in db.rows : x.id = y.id => x = y
        BY <1>0 DEF Store
      <3> QED BY <1>3, <2>3, <2>4, <3>1, <3>2 DEF Leads
    <2>8. Copies(db, r)
      BY <1>0, <2>5, <2>6, <2>7 DEF ReqOK, Copies
    <2>9. ReqOK(db, r, proved, stopped)
      BY <1>3, <2>4, <2>5, <2>8, LinkGood
    <2> QED BY <1>3, <2>1, <2>9, MoveGood
  <1>4. ASSUME NEW l \in Names, At(p, "template_update", "link"), db' = db, UNCHANGED ghosts,
               IF ResolveLayout(S(p), l) = {} THEN Answer(p)
               ELSE \E y \in ResolveLayout(S(p), l) : req' = [req EXCEPT ![p].row.ref = y.id, ![p].pc = "write"]
        PROVE  Good(p)
    <2>1. CASE Answer(p)
      BY <1>4, <2>1, RefusedGood
    <2>2. CASE \E y \in ResolveLayout(S(p), l) : req' = [req EXCEPT ![p].row.ref = y.id, ![p].pc = "write"]
      <3>1. PICK y \in ResolveLayout(S(p), l) : req' = [req EXCEPT ![p].row.ref = y.id, ![p].pc = "write"]
        BY <2>2, Zenon
      <3>2. y \in db.rows /\ y.t = "layout" /\ y.up = S(p)
        BY DEF ResolveLayout, LayoutByPermalink, Of
      <3> QED BY <1>3, <1>4, <3>1, <3>2, Zenon
    <2> QED BY <1>4, <2>1, <2>2, Zenon
  <1>5. CASE Rewrite(p, "template_update", UpdateTemplate, Asks)
    <2>1. Rewriting(p, "template_update", Asks)
      BY <1>5 DEF Rewrite, Rewriting, UpdateTemplate
    <2> QED BY <2>1, RewritingGood DEF RewriteOps
  <1> QED BY <1>1, <1>2, <1>4, <1>5, Zenon DEF TemplateUpdate

LEMMA TemplatesGood ==
  ASSUME IInv, NEW p \in Procs, TemplatesCreate(p) \/ TemplateArchive(p)
  PROVE  Good(p)
  <1>1. CASE ServerAuthMiddleware(p, "templates_create") \/ ServerAuthMiddleware(p, "template_archive")
    BY <1>1, ServerAuthGood DEF Plain, ServerWrites
  <1>2. ASSUME NEW l \in Names, Require(p, "templates_create", ResolveLayout(S(p), l), "write") PROVE Good(p)
    <2>1. \A r \in ResolveLayout(S(p), l) : r \in db.rows /\ r.t = "layout" /\ r.up = S(p)
      BY DEF ResolveLayout, LayoutByPermalink, Of
    <2> QED BY <1>2, <2>1, Kinds, RequireGood DEF Chosen
  <1>3. ASSUME NEW l \in Names, At(p, "templates_create", "write"),
               Write(p, CanInsert(db, Row("template", S(p), l, req[p].row.id)), CreateTemplate(db, S(p), l, 0, req[p].row.id))
        PROVE  Good(p)
    <2> DEFINE row == Row("template", S(p), l, req[p].row.id)
    <2>1. req[p].op = "templates_create" /\ req[p].pc \in Chosen
      BY <1>3 DEF At, Chosen
    <2>2. req[p].row.id \in Nat
      BY RequestFacts DEF ReqOK, Copies, Known, IsRow
    <2>3. /\ IsRow(row) /\ ~row.flag /\ row.more = None /\ row.up = S(p) /\ row.t = "template" /\ row.ref = req[p].row.id
          /\ row.val = 0
      BY <2>2, ServerFacts DEF Row, IsRow, RowFields, None
    <2>4. [row EXCEPT !.val = 0] = row
      <3> HIDE DEF row
      <3>1. row = [f \in RowFields |-> row[f]] /\ row.val = 0
        BY <2>3 DEF IsRow
      <3> QED BY <3>1 DEF RowFields
    <2>5. Write(p, CanInsert(db, row), CreateTemplate(db, S(p), l, 0, req[p].row.id))
          /\ CreateTemplate(db, S(p), l, 0, req[p].row.id) = Insert(db, [row EXCEPT !.val = 0])
      BY <1>3 DEF CreateTemplate
    <2>6. \A x \in db.rows : x.id = req[p].row.id => x.up = S(p)
      BY <2>1, ChosenFacts, Kinds
    <2> HIDE DEF row
    <2>7. CreateTemplate(db, S(p), l, 0, req[p].row.id) = Insert(db, row)
      BY <2>4, <2>5
    <2> QED BY <2>3, <2>5, <2>6, <2>7, CreateGood
  <1>4. CASE RequireTemplate(p, "template_archive", "write")
    BY <1>4, RequireTemplateGood
  <1>5. CASE Rewrite(p, "template_archive", UpdateTemplate, {"stop"})
    <2>1. Rewriting(p, "template_archive", {"stop"})
      BY <1>5 DEF Rewrite, Rewriting, UpdateTemplate
    <2> QED BY <2>1, RewritingGood DEF RewriteOps, Asks
  <1> QED BY <1>1, <1>2, <1>3, <1>4, <1>5 DEF TemplatesCreate, TemplateArchive

-----------------------------------------------------------------------------
(***************************************************************************)
(* The specification                                                       *)
(***************************************************************************)
LEMMA InitGood == ASSUME Init PROVE IInv
  <1> USE ResourceAssumption
  <1>1. scene \in Scenes /\ db = [rows |-> scene.rows, next |-> FirstNew] /\ req = [p \in Procs |-> Blank]
        /\ proved = {} /\ stopped = {} /\ FirstNew = 20
    BY DEF Init, FirstNew
  <1>2. db.rows = scene.rows /\ db.next = 20 /\ db = [f \in {"rows", "next"} |-> db[f]]
    BY <1>1
  <1>3. ASSUME NEW r \in db.rows
        PROVE  /\ IsRow(r) /\ r.id # 0 /\ r.id < db.next
               /\ r.t # "server" => r.up < db.next
               /\ r.t = "pool" => r.up = None
               /\ r.t \in Trusted => ~r.flag
    <2>1. IsRow(r) /\ r.id \in 1..19
      BY <1>1, <1>2
    <2>2. r.id # 0 /\ r.id < 20
      BY <2>1
    <2> QED BY <1>1, <1>2, <2>1, <2>2
  <1>4. ASSUME NEW r \in db.rows PROVE Owned(db, r) /\ AtHome(db, r)
    BY <1>1, <1>2 DEF Owned
  <1>5. ASSUME NEW r \in db.rows, NEW x \in db.rows
        PROVE  /\ r.id = x.id => r = x
               /\ r.t # "server" /\ x.id = r.up => x.t \in {"server", "pool"}
    BY <1>1, <1>2
  <1>6. Store(db)
    BY <1>2, <1>3, <1>4, <1>5 DEF Store
  <1>7. Requests(db, req, proved, stopped)
    <2>1. ReqOK(db, Blank, proved, stopped)
      BY <1>6, BlankFits
    <2> QED BY <1>1, <2>1 DEF Requests
  <1>8. Ghosts(db, stopped) /\ TrustIsProved /\ StoppedStays
    BY <1>1, <1>3 DEF Ghosts, TrustIsProved, StoppedStays
  <1> QED BY <1>6, <1>7, <1>8 DEF IInv

(* Whoever moves, moves well. *)
LEMMA NextGood ==
  ASSUME IInv, Next
  PROVE  (\E p \in Procs : Good(p)) \/ (IInv' /\ req' = req)
  <1>1. CASE SenderAddressConfirm
    BY <1>1, ConfirmGood
  <1>2. ASSUME NEW p \in Procs,
               \/ Abandon(p)
               \/ ServersCreate(p) \/ ServersUpdate(p) \/ ServersSuspend(p) \/ ServersUnsuspend(p)
               \/ ServersDestroy(p) \/ ServersSetIpPool(p) \/ AdminApiKeysCreate(p) \/ AdminApiKeysDestroy(p)
        PROVE  Good(p)
    BY <1>2, AbandonGood, ServersCreateGood, ServersUpdateGood, ServersSuspendGood, ServersDestroyGood,
       ServersSetIpPoolGood, AdminApiKeysCreateGood, AdminApiKeysDestroyGood
  <1>3. ASSUME NEW p \in Procs,
               \/ DomainsCreate(p) \/ DomainsUpdate(p) \/ DomainsVerify(p) \/ DomainsDestroy(p)
               \/ TrackDomainsCreate(p) \/ TrackDomainsVerify(p) \/ TrackDomainsDestroy(p)
               \/ SenderAddressesCreate(p) \/ SenderAddressesDestroy(p)
        PROVE  Good(p)
    BY <1>3, DomainsCreateGood, DomainsUpdateGood, DomainsVerifyGood, DomainsDestroyGood, TrackDomainsGood,
       SenderAddressesGood
  <1>4. ASSUME NEW p \in Procs,
               \/ CredentialsCreate(p) \/ CredentialsUpdate(p) \/ CredentialsDestroy(p)
               \/ RoutesCreate(p) \/ RoutesUpdate(p) \/ RoutesDestroy(p)
               \/ WebhooksCreate(p) \/ WebhooksUpdate(p) \/ SetWebhookEnabled(p) \/ WebhooksDestroy(p)
               \/ SuppressionsCreate(p) \/ SuppressionsDestroy(p) \/ MessagesImport(p) \/ TemplatesCopyTo(p)
        PROVE  Good(p)
    BY <1>4, CredentialsGood, RoutesGood, WebhooksGood, SuppressionsGood, MessagesImportGood, TemplatesCopyToGood
  <1>5. ASSUME NEW p \in Procs,
               \/ IpPoolsCreate(p) \/ IpPoolsDestroy(p) \/ IpAddressesCreate(p) \/ IpAddressesDestroy(p)
               \/ StreamsCreate(p) \/ StreamUpdate(p) \/ StreamArchive(p)
               \/ LayoutsCreate(p) \/ LayoutUpdate(p) \/ LayoutLogoUpload(p) \/ LayoutDestroy(p)
               \/ TemplatesCreate(p) \/ TemplateUpdate(p) \/ TemplateArchive(p)
        PROVE  Good(p)
    BY <1>5, IpPoolsGood, IpAddressesGood, StreamsGood, LayoutsGood, TemplatesGood, TemplateUpdateGood
  <1> QED BY <1>1, <1>2, <1>3, <1>4, <1>5 DEF Next

LEMMA StutterGood == ASSUME IInv, UNCHANGED vars PROVE IInv'
  <1>1. db' = db /\ req' = req /\ proved' = proved /\ stopped' = stopped
    BY DEF vars
  <1> QED BY <1>1 DEF IInv, TrustIsProved, StoppedStays

(* The tables stay sound, every copy a request carries still speaks of the *)
(* row that was read, and what is trusted or out of service is so for a    *)
(* reason: whatever requests run, in whatever order their statements fall. *)
THEOREM ResourceInvariant == Spec => []IInv
  <1>1. Init => IInv
    BY InitGood
  <1>2. IInv /\ [Next]_vars => IInv'
    BY NextGood, StutterGood DEF Good
  <1> QED BY <1>1, <1>2, PTL DEF Spec

(* A domain, a track domain or a sender address that is trusted is one     *)
(* whose owner proved this row (domains_verify, track_domains_verify,      *)
(* confirm_sender_address): a proof for a row that was deleted and added   *)
(* again, or for the same name on another server, marks nothing.           *)
THEOREM TrustTheorem == Spec => []TrustIsProved
  <1>1. IInv => TrustIsProved
    BY DEF IInv
  <1> QED BY <1>1, ResourceInvariant, PTL

(* What was taken out of service while nobody held a copy of its row stays *)
(* out until somebody puts it back, although every update writes the whole *)
(* row that it has read.                                                   *)
THEOREM StoppedTheorem == Spec => []StoppedStays
  <1>1. IInv => StoppedStays
    BY DEF IInv
  <1> QED BY <1>1, ResourceInvariant, PTL

(* References never leave their server: a route's domain, a template's     *)
(* layout and a server's default stream are rows of the same server, also  *)
(* when the row they came from was deleted between the read and the write. *)
THEOREM ReferencesTheorem == Spec => []ReferencesStayHome
  <1>1. IInv => ReferencesStayHome
    BY DEF IInv, Store, ReferencesStayHome
  <1> QED BY <1>1, ResourceInvariant, PTL

-----------------------------------------------------------------------------
(* What has changed elsewhere has not changed here. *)
LEMMA ElsewhereRows ==
  ASSUME NEW d, NEW e, NEW a \in Nat, NEW s, Store(d), Evolves(d, e), Elsewhere(d, e, a), a < d.next, a # s,
         \A x \in d.rows : x.id = a => x.t = "server",
         \E x \in d.rows : x.id = s /\ x.t = "server"
  PROVE  RowsOf(d, s) = RowsOf(e, s)
  <1>1. s \in Nat /\ s < d.next /\ d.next \in Nat /\ \A x \in d.rows : x.id = s => x.t = "server"
    BY DEF Store, IsRow
  <1>2. ASSUME NEW x \in e.rows, NEW i \in {a, s}, x.id = i PROVE x.t = "server"
    <2>1. i \in Nat /\ i < d.next
      BY <1>1
    <2>2. PICK r \in d.rows : Ident(x, r)
      BY <1>1, <1>2, <2>1 DEF Evolves
    <2> QED BY <1>1, <1>2, <2>2 DEF Ident
  <1>3. ASSUME NEW x, x.id = s \/ (x.up = s /\ x.t # "server"),
               (x \in d.rows /\ x \notin e.rows) \/ (x \in e.rows /\ x \notin d.rows)
        PROVE  FALSE
    <2>1. \/ x.t # "server" /\ x.up = a
          \/ x.id = a
          \/ x.t = "server" /\ x.id >= d.next
      BY <1>3 DEF Elsewhere
    <2>2. x.id \in {a, s} => x.t = "server"
      BY <1>1, <1>2, <1>3
    <2> QED BY <1>1, <1>3, <2>1, <2>2
  <1> QED BY <1>3 DEF RowsOf

Confined ==
    \A p \in Procs, s \in Ids("server") :
       req[p] # req'[p] /\ req[p].link # Blank.link /\ RowsOf(db, s) # RowsOf(db', s) =>
         S(p) = s \/ (req[p].to = s /\ \E r \in ById(db, s) : r.up = req[p].link[1])

LEMMA ConfinedStep == ASSUME IInv, Next PROVE Confined
  <1> SUFFICES ASSUME NEW p \in Procs, NEW s \in Ids("server"), req[p] # req'[p], req[p].link # Blank.link,
                      RowsOf(db, s) # RowsOf(db', s), S(p) # s
               PROVE  req[p].to = s /\ \E r \in ById(db, s) : r.up = req[p].link[1]
    BY DEF Confined
  <1>1. PICK q \in Procs : Good(q)
    BY NextGood
  <1>2. q = p
    BY <1>1 DEF Good
  <1>3. Within(p, db') /\ Store(db)
    BY <1>1, <1>2 DEF Good, IInv
  <1>4. Evolves(db, db')
    BY <1>1 DEF Good
  <1>5. PICK x \in db.rows : x.id = s /\ x.t = "server"
    BY DEF Ids, Of
  <1>6. ~Elsewhere(db, db', S(p))
    BY <1>3, <1>4, <1>5, ServerFacts, ElsewhereRows
  <1>7. ServerAt(db, req[p].to, req[p].link[1]) /\ Elsewhere(db, db', req[p].to)
    BY <1>3, <1>6 DEF Within
  <1>8. req[p].to = s
    BY <1>3, <1>4, <1>5, <1>7, ElsewhereRows DEF ServerAt
  <1> QED BY <1>5, <1>7, <1>8 DEF ServerAt, ById

(* A request about one server changes the rows of that server and of no    *)
(* other, whatever ids and names it is given; a copy changes rows of its   *)
(* target too, which is a server of the organization of the request.       *)
THEOREM WithinServerTheorem == Spec => WithinServer
  <1>1. IInv /\ [Next]_vars => [Confined]_vars
    BY ConfinedStep
  <1> QED BY <1>1, ResourceInvariant, PTL DEF Spec, WithinServer, Confined
=============================================================================
