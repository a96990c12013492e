---------------------------- MODULE TenantsProofs ----------------------------
(***************************************************************************)
(* Proofs about TenantSso, for any organizations, users, requests and      *)
(* initial tables: who owns an organization, who signs in to it, whose     *)
(* rows a request changes, and that a setting is what was last asked for.  *)
(***************************************************************************)
EXTENDS TenantSso, FiniteSetTheorems, TLAPS

Fields == {"op", "pc", "n", "by", "acting", "auth", "link", "org", "user", "role", "x", "y",
           "seen", "made", "conn", "subject"}

(* The numbers of the requests to come and of those being served: no row   *)
(* has been inserted under them.                                           *)
Numbers(n, last, rs) ==
  ((n + 1)..last) \union {rs[p].n : p \in {q \in Procs : rs[q].op # "idle"}}

Numbered(n, last, rs) ==
  /\ n \in Nat /\ last \in Nat /\ n <= last
  /\ rs = [p \in Procs |-> rs[p]]
  /\ \A p \in Procs : rs[p].op # "idle" => rs[p].n \in 1..n
  /\ \A p, q \in Procs :
       rs[p].op # "idle" /\ rs[q].op # "idle" /\ rs[p].n = rs[q].n => p = q

(* Somebody is a member, or was until they were removed. *)
Joined(members, gone, o, u) == (\E m \in members : m.org = o /\ m.user = u) \/ <<o, u>> \in gone

(* Somebody came back from a provider, with an address in a domain of o.   *)
Came(subject, o, pr) ==
  \E w \in People : w.subject = subject /\ <<o, DomainOf[w.email]>> \in pr

(* Which steps a request takes. *)
StepOK(r) ==
  /\ r.op = "idle" => r = Blank
  /\ r.pc \in {"create", "issue"} => r.op \in {"accept", "sso"}
  /\ r.pc = "join" => r.op \in {"accept", "sso", "found"}
  /\ r.pc = "count" => r.op \in {"role", "remove"}
  /\ r.op \in {"add", "role", "invite", "accept", "connect"} => r.role # 0

(* A write that finds the owners its request has seen leaves one.          *)
SparesOwner(r) ==
  /\ \/ r.op \in {"add", "remove"} /\ r.pc = "write"
     \/ r.op = "accept" /\ r.pc \in {"create", "join"}
     \/ r.op = "sso" /\ r.pc = "join"
     => r.seen # {r.user}
  /\ r.op = "role" /\ r.pc = "write" => r.role = Owner \/ r.seen # {r.user}

(* A sign-in, from the answer of the provider to the session. *)
SignIn(r, members, gone, pr) ==
  r.op = "sso" =>
    /\ r.pc \in {"conn", "consume", "domain", "account", "create", "link", "member", "join", "issue"}
    /\ r.pc \in {"conn", "consume", "domain"} =>
         \E w \in People : w.subject = r.subject /\ w.email = r.user
    /\ r.pc # "conn" => r.conn.org = r.org /\ r.conn.role # 0
    /\ r.pc \notin {"join", "issue"} => r.seen = {}
    /\ r.pc \in {"account", "create", "link", "member", "join", "issue"} =>
         Came(r.subject, r.org, pr)
    /\ r.pc = "issue" => Joined(members, gone, r.org, r.user)

(* The organization a request works on is the one it was let into, or that *)
(* one is gone.                                                            *)
InScope(r, d) ==
  /\ r.pc = "find" => /\ r.link \in Permalinks
                      /\ r.auth \in 0..(d.next - 1)
                      /\ Live(d, r.auth) => d.org[r.link].id = r.auth
  /\ r.op # "idle" /\ r.pc # "find" =>
       r.auth = r.org \/ (r.auth \in 0..(d.next - 1) /\ ~Live(d, r.auth))

(* The row a request names by its id is of the organization it works on.   *)
Names(rows, id, o) == \A x \in rows : x.id = id => x.org = o

OwnRow(r, d, new) ==
  /\ r.op \in {"verify", "disclaim"} =>
       r.x \notin new /\ (r.pc # "find" => Names(d.domains, r.x, r.org))
  /\ r.op \in {"edit", "cut"} =>
       r.x \notin {10 + k : k \in new} /\ (r.pc # "find" => Names(d.conns, r.x, r.org))
  /\ r.op = "accept" => r.x \notin new /\ Names(d.invites, r.x, r.org)

ReqOK(r, d, gone, pr, new) ==
  /\ r = [f \in Fields |-> r[f]]
  /\ StepOK(r)
  /\ SparesOwner(r)
  /\ SignIn(r, d.members, gone, pr)
  /\ InScope(r, d)
  /\ OwnRow(r, d, new)

(* A verified domain has been proved. *)
Proven(domains, pr) == \A x \in domains : x.verified => <<x.org, x.domain>> \in pr

(* Who has signed in. *)
Signed(sessions, members, gone, pr) ==
  \A s \in sessions : s.how = "sso" => /\ Joined(members, gone, s.org, s.user)
                                       /\ Came(s.claim, s.org, pr)

IInv ==
  /\ scene \in Scenes
  /\ Numbered(count, scene.requests, req)
  /\ StoreOK(db, Numbers(count, scene.requests, req))
  /\ \A p \in Procs : ReqOK(req[p], db, left, proved, Numbers(count, scene.requests, req))
  /\ Proven(db.domains, proved)
  /\ Signed(db.sessions, db.members, left, proved)
  /\ OwnerRemains

-----------------------------------------------------------------------------
(***************************************************************************)
(* How tables evolve                                                       *)
(***************************************************************************)
(* A row is an old one, of the same organization, or new. *)
KeepsRows(old, rows, new) ==
  \A y \in rows : y.id \in new \/ \E x \in old : x.id = y.id /\ x.org = y.org

(* Organizations do not move and their numbers do not come back. *)
KeepsOrgs(d, e) ==
  /\ d.next \in Nat /\ e.next \in Nat /\ d.next <= e.next
  /\ \A l \in Permalinks : \A a \in 1..(d.next - 1) : e.org[l].id = a => d.org[l].id = a

Evolves(d, e, gone, gone2, pr, pr2, new, new2) ==
  /\ new2 \subseteq new /\ gone \subseteq gone2 /\ pr \subseteq pr2
  /\ \A m \in d.members : Joined(e.members, gone2, m.org, m.user)
  /\ KeepsRows(d.invites, e.invites, new)
  /\ KeepsRows(d.domains, e.domains, new)
  /\ KeepsRows(d.conns, e.conns, {10 + k : k \in new})
  /\ KeepsOrgs(d, e)

LEMMA KeyShrinks ==
    ASSUME NEW rows, NEW new, NEW new2, new2 \subseteq new, PrimaryKey(rows, new)
    PROVE  PrimaryKey(rows, new2)
  BY DEF PrimaryKey

LEMMA TablesShrink ==
    ASSUME NEW rows, NEW new, NEW new2, new2 \subseteq new
    PROVE  /\ InvitesOK(rows, new) => InvitesOK(rows, new2)
           /\ DomainsOK(rows, new) => DomainsOK(rows, new2)
           /\ ConnsOK(rows, new) => ConnsOK(rows, new2)
  <1> DEFINE T == {10 + k : k \in new}
             U == {10 + k : k \in new2}
  <1>1. U \subseteq T
    OBVIOUS
  <1> HIDE DEF T, U
  <1>2. PrimaryKey(rows, new) => PrimaryKey(rows, new2)
    BY KeyShrinks
  <1>3. PrimaryKey(rows, T) => PrimaryKey(rows, U)
    BY <1>1, KeyShrinks
  <1> QED BY <1>2, <1>3 DEF InvitesOK, DomainsOK, ConnsOK, T, U

LEMMA JoinedStays ==
    ASSUME NEW d, NEW e, NEW gone, NEW gone2, gone \subseteq gone2,
           \A m \in d.members : Joined(e.members, gone2, m.org, m.user),
           NEW o, NEW u, Joined(d.members, gone, o, u)
    PROVE  Joined(e.members, gone2, o, u)
  <1>1. CASE <<o, u>> \in gone
    BY <1>1 DEF Joined
  <1>2. CASE \E m \in d.members : m.org = o /\ m.user = u
    BY <1>2
  <1> QED BY <1>1, <1>2 DEF Joined

LEMMA GoneStays ==
    ASSUME NEW d, NEW e, KeepsOrgs(d, e), OrgsOK(d.org, d.next),
           NEW a \in 0..(d.next - 1), Live(e, a)
    PROVE  /\ Live(d, a)
           /\ \A l \in Permalinks : d.org[l].id = a => e.org[l].id = a
  <1>1. PICK l \in Permalinks : e.org[l].id = a /\ a # 0
    BY DEF Live, NoOrg
  <1>2. d.next \in Nat /\ a \in 1..(d.next - 1)
    BY <1>1 DEF KeepsOrgs
  <1>3. d.org[l].id = a
    BY <1>1, <1>2 DEF KeepsOrgs
  <1>4. \A k \in Permalinks : d.org[k].id = a => k = l
    BY <1>1, <1>3 DEF OrgsOK, NoOrg
  <1> QED BY <1>1, <1>3, <1>4 DEF Live, NoOrg

LEMMA NamesStays ==
    ASSUME NEW old, NEW rows, NEW new, KeepsRows(old, rows, new), NEW id, id \notin new,
           NEW o, Names(old, id, o)
    PROVE  Names(rows, id, o)
  BY DEF KeepsRows, Names

(* What is true of a request stays true while others work. *)
LEMMA ReqKept ==
    ASSUME NEW r, NEW d, NEW e, NEW gone, NEW gone2, NEW pr, NEW pr2, NEW new, NEW new2,
           ReqOK(r, d, gone, pr, new), OrgsOK(d.org, d.next),
           Evolves(d, e, gone, gone2, pr, pr2, new, new2)
    PROVE  ReqOK(r, e, gone2, pr2, new2)
  <1>1. /\ r = [f \in Fields |-> r[f]] /\ StepOK(r) /\ SparesOwner(r)
        /\ SignIn(r, d.members, gone, pr) /\ InScope(r, d) /\ OwnRow(r, d, new)
    BY DEF ReqOK
  <1>2. SignIn(r, e.members, gone2, pr2)
    <2>1. Came(r.subject, r.org, pr) => Came(r.subject, r.org, pr2)
      BY DEF Came, Evolves
    <2>2. Joined(d.members, gone, r.org, r.user) => Joined(e.members, gone2, r.org, r.user)
      BY JoinedStays DEF Evolves
    <2> QED BY <1>1, <2>1, <2>2 DEF SignIn
  <1>3. InScope(r, e)
    <2>1. /\ KeepsOrgs(d, e) /\ d.next \in Nat /\ e.next \in Nat
          /\ 0..(d.next - 1) \subseteq 0..(e.next - 1)
      BY DEF Evolves, KeepsOrgs
    <2>2. ASSUME r.auth \in 0..(d.next - 1), Live(e, r.auth)
          PROVE  /\ Live(d, r.auth)
                 /\ \A l \in Permalinks : d.org[l].id = r.auth => e.org[l].id = r.auth
      BY <2>1, <2>2, GoneStays
    <2>3. CASE r.pc = "find"
      BY <1>1, <2>1, <2>2, <2>3 DEF InScope
    <2>4. CASE r.pc # "find"
      BY <1>1, <2>1, <2>2, <2>4 DEF InScope
    <2> QED BY <2>3, <2>4
  <1>4. OwnRow(r, e, new2)
    <2> DEFINE T == {10 + k : k \in new}
               U == {10 + k : k \in new2}
    <2>1. /\ new2 \subseteq new /\ U \subseteq T
          /\ KeepsRows(d.domains, e.domains, new) /\ KeepsRows(d.invites, e.invites, new)
          /\ KeepsRows(d.conns, e.conns, T)
      BY DEF Evolves
    <2>2. /\ r.op \in {"verify", "disclaim"} =>
               r.x \notin new /\ (r.pc # "find" => Names(d.domains, r.x, r.org))
          /\ r.op \in {"edit", "cut"} =>
               r.x \notin T /\ (r.pc # "find" => Names(d.conns, r.x, r.org))
          /\ r.op = "accept" => r.x \notin new /\ Names(d.invites, r.x, r.org)
      BY <1>1 DEF OwnRow
    <2> HIDE DEF T, U
    <2>3. r.op \in {"verify", "disclaim"} =>
            r.x \notin new2 /\ (r.pc # "find" => Names(e.domains, r.x, r.org))
      BY <2>1, <2>2, NamesStays
    <2>4. r.op \in {"edit", "cut"} =>
            r.x \notin U /\ (r.pc # "find" => Names(e.conns, r.x, r.org))
      BY <2>1, <2>2, NamesStays
    <2>5. r.op = "accept" => r.x \notin new2 /\ Names(e.invites, r.x, r.org)
      BY <2>1, <2>2, NamesStays
    <2> QED BY <2>3, <2>4, <2>5 DEF OwnRow, U
  <1> QED BY <1>1, <1>2, <1>3, <1>4 DEF ReqOK

(* Tables that stay as they are. *)
LEMMA Unmoved ==
    ASSUME NEW d, NEW gone, NEW pr, NEW new, NEW new2, new2 \subseteq new, StoreOK(d, new)
    PROVE  Evolves(d, d, gone, gone, pr, pr, new, new2) /\ StoreOK(d, new2)
  <1>1. \A m \in d.members : Joined(d.members, gone, m.org, m.user)
    BY DEF Joined
  <1>2. d.next \in Nat
    BY DEF StoreOK, OrgsOK
  <1>3. KeepsOrgs(d, d)
    BY <1>2 DEF KeepsOrgs
  <1>4. \A rows, n : KeepsRows(rows, rows, n)
    BY DEF KeepsRows
  <1>5. StoreOK(d, new2)
    BY TablesShrink DEF StoreOK
  <1> QED BY <1>1, <1>3, <1>4, <1>5 DEF Evolves

(* The row of an organization. *)
LEMMA LinkIs ==
    ASSUME NEW d, OrgsOK(d.org, d.next), NEW l \in Permalinks, NEW o, d.org[l].id = o, o # NoOrg
    PROVE  LinkOf(d, o) = l /\ Live(d, o) /\ RowOf(d, o) = d.org[l]
  <1>1. PICK k : k = LinkOf(d, o)
    OBVIOUS
  <1>2. k \in Permalinks /\ d.org[k].id = o
    BY <1>1 DEF LinkOf
  <1>3. k = l
    BY <1>2 DEF OrgsOK
  <1>4. Live(d, o)
    BY DEF Live
  <1> QED BY <1>1, <1>3, <1>4 DEF RowOf

LEMMA RowSame ==
    ASSUME NEW d, NEW e, OrgsOK(d.org, d.next), OrgsOK(e.org, e.next), NEW o,
           \A l \in Permalinks : d.org[l].id = o \/ e.org[l].id = o => e.org[l] = d.org[l]
    PROVE  RowOf(e, o) = RowOf(d, o)
  <1>1. CASE Live(d, o)
    <2>1. PICK l \in Permalinks : d.org[l].id = o /\ o # NoOrg
      BY <1>1 DEF Live
    <2>2. e.org[l] = d.org[l]
      BY <2>1
    <2>3. RowOf(d, o) = d.org[l] /\ RowOf(e, o) = e.org[l]
      BY <2>1, <2>2, LinkIs
    <2> QED BY <2>2, <2>3
  <1>2. CASE ~Live(d, o)
    <2>1. ~Live(e, o)
      BY <1>2 DEF Live
    <2> QED BY <1>2, <2>1 DEF RowOf
  <1> QED BY <1>1, <1>2

-----------------------------------------------------------------------------
(***************************************************************************)
(* Steps of a request                                                      *)
(***************************************************************************)
(* A request ends, goes on or begins. *)
TurnOf(n, n2, last, r, y) ==
  \/ n2 = n /\ y = Blank
  \/ n2 = n /\ r.op # "idle" /\ y.op # "idle" /\ y.n = r.n
  \/ n2 = n + 1 /\ n < last /\ r.op = "idle" /\ y.op # "idle" /\ y.n = n + 1

OneMoves(n, n2, last, rs, rs2, p, y) ==
  /\ Numbered(n, last, rs)
  /\ TurnOf(n, n2, last, rs[p], y)
  /\ rs2 = [rs EXCEPT ![p] = y]

LEMMA NumbersTurn ==
    ASSUME NEW n, NEW n2, NEW last, NEW rs, NEW rs2, NEW p \in Procs, NEW y,
           OneMoves(n, n2, last, rs, rs2, p, y)
    PROVE  /\ Numbered(n2, last, rs2)
           /\ Numbers(n2, last, rs2) \subseteq Numbers(n, last, rs)
           /\ y = Blank /\ rs[p].op # "idle" => rs[p].n \notin Numbers(n2, last, rs2)
  <1>1. /\ n \in Nat /\ last \in Nat /\ n <= last
        /\ rs = [q \in Procs |-> rs[q]]
        /\ \A q \in Procs : rs[q].op # "idle" => rs[q].n \in 1..n
        /\ \A q, s \in Procs :
             rs[q].op # "idle" /\ rs[s].op # "idle" /\ rs[q].n = rs[s].n => q = s
        /\ TurnOf(n, n2, last, rs[p], y)
    BY DEF Numbered, OneMoves
  <1>2. rs2 = [q \in Procs |-> rs2[q]] /\ \A q \in Procs : rs2[q] = IF q = p THEN y ELSE rs[q]
    BY <1>1 DEF OneMoves
  <1>3. Blank.op = "idle"
    BY DEF Blank
  <1>4. n2 \in Nat /\ n2 <= last /\ n <= n2
    BY <1>1 DEF TurnOf
  <1>5. y.op # "idle" => y.n \in 1..n2
    BY <1>1, <1>3 DEF TurnOf
  <1>6. ASSUME NEW q \in Procs, q # p, rs[q].op # "idle", y.op # "idle"
        PROVE  rs[q].n # y.n
    BY <1>1, <1>3, <1>6 DEF TurnOf
  <1>7. Numbered(n2, last, rs2)
    <2>1. \A q \in Procs : rs2[q].op # "idle" => rs2[q].n \in 1..n2
      BY <1>1, <1>2, <1>4, <1>5
    <2>2. ASSUME NEW q \in Procs, NEW s \in Procs, rs2[q].op # "idle", rs2[s].op # "idle",
                 rs2[q].n = rs2[s].n
          PROVE  q = s
      BY <1>1, <1>2, <1>6, <2>2
    <2> QED BY <1>1, <1>2, <1>4, <2>1, <2>2 DEF Numbered
  <1>8. ASSUME NEW k \in Numbers(n2, last, rs2)
        PROVE  k \in Numbers(n, last, rs)
    <2>1. CASE k \in (n2 + 1)..last
      BY <1>1, <1>4, <2>1 DEF Numbers
    <2>2. CASE \E q \in Procs : rs2[q].op # "idle" /\ k = rs2[q].n
      <3>1. PICK q \in Procs : rs2[q].op # "idle" /\ k = rs2[q].n
        BY <2>2
      <3>2. CASE q # p
        BY <1>2, <3>1, <3>2 DEF Numbers
      <3>3. CASE q = p /\ n2 = n
        BY <1>2, <1>3, <3>1, <3>3, <1>1 DEF Numbers, TurnOf
      <3>4. CASE q = p /\ n2 # n
        <4>1. k = n + 1 /\ n < last
          BY <1>2, <1>3, <3>1, <3>4, <1>1 DEF TurnOf
        <4> QED BY <1>1, <4>1 DEF Numbers
      <3> QED BY <3>2, <3>3, <3>4
    <2> QED BY <1>8, <2>1, <2>2 DEF Numbers
  <1>9. ASSUME y = Blank, rs[p].op # "idle"
        PROVE  rs[p].n \notin Numbers(n2, last, rs2)
    <2>1. n2 = n /\ rs[p].n \in 1..n
      BY <1>1, <1>3, <1>9 DEF TurnOf
    <2>2. \A q \in Procs : rs2[q].op # "idle" => rs2[q].n # rs[p].n
      BY <1>1, <1>2, <1>3, <1>9
    <2> QED BY <1>1, <2>1, <2>2 DEF Numbers
  <1> QED BY <1>7, <1>8, <1>9

New == Numbers(count, scene.requests, req)

Turn(p, y) ==
  /\ scene' = scene
  /\ req' = [req EXCEPT ![p] = y]
  /\ TurnOf(count, count', scene.requests, req[p], y)

(* A step of p keeps the invariant and changes rows of p's organization    *)
(* only.                                                                   *)
Home(p) ==
  db' = db \/ (req[p].pc # "find" /\ \A o : o # req[p].org => RowsOf(db', o) = RowsOf(db, o))

Good(p) ==
  /\ IInv'
  /\ \E y : Turn(p, y)
  /\ req[p].op # "idle" => Home(p)

LEMMA Turned ==
    ASSUME IInv, NEW p \in Procs, NEW y, Turn(p, y)
    PROVE  /\ New' \subseteq New
           /\ Numbered(count, scene.requests, req)'
           /\ y = Blank /\ req[p].op # "idle" => req[p].n \notin New'
           /\ \A q \in Procs : req'[q] = IF q = p THEN y ELSE req[q]
  <1>1. Numbered(count, scene.requests, req) /\ req' = [req EXCEPT ![p] = y] /\ scene' = scene
    BY DEF IInv, Turn
  <1>2. /\ Numbered(count', scene.requests, req')
        /\ Numbers(count', scene.requests, req') \subseteq Numbers(count, scene.requests, req)
        /\ y = Blank /\ req[p].op # "idle" =>
             req[p].n \notin Numbers(count', scene.requests, req')
    <2>1. OneMoves(count, count', scene.requests, req, req', p, y)
      BY <1>1 DEF OneMoves, Turn
    <2> QED BY <2>1, NumbersTurn
  <1>3. \A q \in Procs : req'[q] = IF q = p THEN y ELSE req[q]
    BY <1>1 DEF Numbered
  <1> QED BY <1>1, <1>2, <1>3 DEF New

(* The tables after a step. *)
Settled ==
  /\ StoreOK(db', New')
  /\ Evolves(db, db', left, left', proved, proved', New, New')
  /\ Proven(db'.domains, proved')
  /\ Signed(db'.sessions, db'.members, left', proved')
  /\ OwnerRemains'

LEMMA Concludes ==
    ASSUME IInv, NEW p \in Procs, NEW y, Turn(p, y), Settled,
           ReqOK(y, db', left', proved', New'), req[p].op # "idle" => Home(p)
    PROVE  Good(p)
  <1>1. \A q \in Procs : req'[q] = IF q = p THEN y ELSE req[q]
    BY Turned
  <1>2. ASSUME NEW q \in Procs
        PROVE  ReqOK(req'[q], db', left', proved', New')
    <2>1. CASE q = p
      BY <1>1, <2>1
    <2>2. CASE q # p
      <3>1. ReqOK(req[q], db, left, proved, New) /\ OrgsOK(db.org, db.next)
        BY DEF IInv, New, StoreOK
      <3>2. ReqOK(req[q], db', left', proved', New')
        BY <3>1, ReqKept DEF Settled
      <3> QED BY <1>1, <2>2, <3>2
    <2> QED BY <2>1, <2>2
  <1>3. scene' \in Scenes /\ Numbered(count, scene.requests, req)'
    BY Turned DEF IInv, Turn
  <1>4. IInv'
    BY <1>2, <1>3 DEF IInv, New, Settled
  <1> QED BY <1>4 DEF Good, Turn

LEMMA BlankOK ==
    ASSUME NEW d, NEW gone, NEW pr, NEW new
    PROVE  ReqOK(Blank, d, gone, pr, new)
  <1>1. Blank = [f \in Fields |-> Blank[f]]
    BY DEF Blank, Fields
  <1>2. Blank.op = "idle" /\ Blank.pc = "idle"
    BY DEF Blank
  <1> QED BY <1>1, <1>2 DEF ReqOK, StepOK, SparesOwner, SignIn, InScope, OwnRow

(* Nothing is written. *)
LEMMA Reads ==
    ASSUME IInv, NEW p \in Procs, NEW y, Turn(p, y), db' = db, UNCHANGED ghosts,
           ReqOK(y, db, left, proved, New)
    PROVE  Good(p)
  <1>1. New' \subseteq New /\ StoreOK(db, New)
    BY Turned DEF IInv, New
  <1>2. /\ Evolves(db, db, left, left, proved, proved, New, New') /\ StoreOK(db, New')
    BY <1>1, Unmoved
  <1>3. UNCHANGED <<db, left, proved, excused>>
    BY DEF ghosts
  <1>4. Settled
    BY <1>2, <1>3 DEF Settled, IInv, OwnerRemains
  <1>5. ReqOK(y, db', left', proved', New')
    <2>1. OrgsOK(db.org, db.next)
      BY <1>1 DEF StoreOK
    <2>2. ReqOK(y, db, left, proved, New')
      BY <1>2, <2>1, ReqKept
    <2> QED BY <1>3, <2>2
  <1> QED BY <1>4, <1>5, Concludes DEF Home

LEMMA AnswerTurn ==
    ASSUME NEW p, Answer(p), scene' = scene, count' = count
    PROVE  Turn(p, Blank)
  BY DEF Answer, Turn, TurnOf

LEMMA Answers ==
    ASSUME IInv, NEW p \in Procs, Answer(p), scene' = scene, count' = count,
           db' = db, UNCHANGED ghosts
    PROVE  Good(p)
  BY AnswerTurn, BlankOK, Reads

(***************************************************************************)
(* A request is let in                                                     *)
(***************************************************************************)
IsReq(r) == r = [f \in Fields |-> r[f]]

LEMMA BlankFields ==
    /\ IsReq(Blank) /\ Blank.op = "idle" /\ Blank.pc = "idle" /\ Blank.seen = {}
    /\ Blank.auth = NoOrg /\ Blank.org = NoOrg
  BY DEF Blank, Fields, IsReq, NoOrg

LEMMA EnterTurn ==
    ASSUME IInv, NEW p \in Procs, NEW r, IsReq(r), r.op # "idle", Enter(p, r)
    PROVE  /\ Turn(p, [r EXCEPT !.n = count + 1])
           /\ req[p].op = "idle"
  <1> DEFINE y == [r EXCEPT !.n = count + 1]
  <1>1. y.op = r.op /\ y.n = count + 1
    BY DEF IsReq, Fields
  <1>2. /\ req[p].op = "idle" /\ count < scene.requests
        /\ req' = [req EXCEPT ![p] = y] /\ count' = count + 1 /\ scene' = scene
    BY DEF Enter, Ready
  <1> HIDE DEF y
  <1>3. Turn(p, y)
    BY <1>1, <1>2 DEF Turn, TurnOf
  <1> QED BY <1>2, <1>3 DEF y

(* The request a middleware hands on: what it names exists. *)
Fresh(r) ==
  /\ IsReq(r)
  /\ r.op \in {"add", "role", "remove", "invite", "uninvite", "tfa", "raze", "limits",
               "billing", "claim", "verify", "disclaim", "connect", "edit", "cut"}
  /\ r.op \in {"add", "role", "invite", "connect"} => r.role # 0
  /\ r.op \in {"verify", "disclaim"} => r.x \notin New
  /\ r.op \in {"edit", "cut"} => r.x \notin {10 + k : k \in New}

LEMMA Authenticated ==
    ASSUME IInv, NEW p \in Procs, NEW resource, NEW r, Fresh(r), AuthMiddleware(p, resource, r)
    PROVE  Good(p)
  <1>1. PICK c, l : /\ l \in Permalinks
                    /\ Enter(p, [r EXCEPT !.by = c, !.acting = ActingRole(c, l, resource),
                                          !.link = l, !.auth = OrganizationByPermalink(db, l),
                                          !.pc = "find"])
                    /\ db' = db /\ UNCHANGED ghosts
    BY DEF AuthMiddleware
  <1>2. PICK a : a = ActingRole(c, l, resource)
    OBVIOUS
  <1>3. PICK o : o = OrganizationByPermalink(db, l)
    OBVIOUS
  <1>4. o = db.org[l].id /\ o \in 0..(db.next - 1)
    BY <1>1, <1>3 DEF OrganizationByPermalink, IInv, StoreOK, OrgsOK
  <1> DEFINE s == [r EXCEPT !.by = c, !.acting = a, !.link = l, !.auth = o, !.pc = "find"]
             y == [s EXCEPT !.n = count + 1]
  <1>5. Enter(p, s)
    BY <1>1, <1>2, <1>3
  <1>6. IsReq(s) /\ s.op = r.op /\ s.role = r.role /\ s.x = r.x /\ s.pc = "find"
        /\ s.link = l /\ s.auth = o
    BY DEF Fresh, IsReq, Fields
  <1> HIDE DEF s
  <1>7. IsReq(y) /\ y.op = r.op /\ y.role = r.role /\ y.x = r.x /\ y.pc = "find"
        /\ y.link = l /\ y.auth = o
    BY <1>6 DEF IsReq, Fields
  <1>8. Turn(p, y)
    BY <1>5, <1>6, EnterTurn DEF Fresh
  <1> HIDE DEF y
  <1>9. StepOK(y) /\ SparesOwner(y) /\ SignIn(y, db.members, left, proved)
    BY <1>7 DEF Fresh, StepOK, SparesOwner, SignIn
  <1>10. InScope(y, db)
    BY <1>1, <1>4, <1>7 DEF InScope
  <1>11. OwnRow(y, db, New)
    BY <1>7 DEF Fresh, OwnRow
  <1>12. ReqOK(y, db, left, proved, New)
    BY <1>7, <1>9, <1>10, <1>11 DEF ReqOK, IsReq
  <1> QED BY <1>1, <1>8, <1>12, Reads

(***************************************************************************)
(* The handler finds its organization                                      *)
(***************************************************************************)
(* What a handler goes on with. *)
GoesOn(p, r) ==
  /\ IsReq(r)
  /\ r.op = req[p].op /\ r.n = req[p].n /\ r.auth = req[p].auth /\ r.role = req[p].role
  /\ r.op \notin {"idle", "sso", "accept"}
  /\ r.pc \in {"write", "count", "customer", "session"}
  /\ r.pc = "count" => r.op \in {"role", "remove"}
  /\ SparesOwner(r)
  /\ r.op \in {"verify", "disclaim"} => r.x = req[p].x /\ Names(db.domains, r.x, Found(p))
  /\ r.op \in {"edit", "cut"} => r.x = req[p].x /\ Names(db.conns, r.x, Found(p))

(* The handler answers, or goes on with r. *)
Went(p, r) ==
  /\ db' = db /\ count' = count /\ scene' = scene /\ UNCHANGED ghosts
  /\ Answer(p) \/ (Found(p) # NoOrg /\ req' = [req EXCEPT ![p] = [r EXCEPT !.org = Found(p)]])

LEMMA Finds ==
    ASSUME IInv, NEW p \in Procs, NEW r, req[p].pc = "find", Went(p, r),
           Answer(p) \/ GoesOn(p, r)
    PROVE  Good(p)
  <1> DEFINE o == Found(p)
             y == [r EXCEPT !.org = o]
  <1>1. /\ scene' = scene /\ count' = count /\ db' = db /\ UNCHANGED ghosts
        /\ Answer(p) \/ (o # NoOrg /\ GoesOn(p, r) /\ req' = [req EXCEPT ![p] = y])
    BY DEF Went
  <1>2. CASE Answer(p)
    BY <1>1, <1>2, Answers
  <1>3. CASE o # NoOrg /\ GoesOn(p, r) /\ req' = [req EXCEPT ![p] = y]
    <2>1. GoesOn(p, r) /\ o = Found(p)
      BY <1>3
    <2>2. o = db.org[req[p].link].id
      BY DEF Found, OrganizationByPermalink
    <2>3. PICK v : v = o
      OBVIOUS
    <2> DEFINE z == [r EXCEPT !.org = v]
    <2>4. /\ IsReq(z) /\ z.org = v /\ z.op = r.op /\ z.n = r.n /\ z.auth = r.auth /\ z.role = r.role
          /\ z.pc = r.pc /\ z.x = r.x /\ z.seen = r.seen /\ z.user = r.user
      BY <2>1 DEF GoesOn, IsReq, Fields
    <2>5. y = z
      BY <2>3
    <2> HIDE DEF z
    <2>6. StepOK(req[p]) /\ InScope(req[p], db) /\ OwnRow(req[p], db, New)
      BY DEF IInv, ReqOK, New
    <2>7. req[p].op # "idle"
      BY <2>1 DEF GoesOn
    <2>8. Turn(p, z)
      BY <1>1, <1>3, <2>1, <2>4, <2>5, <2>7 DEF Turn, TurnOf, GoesOn
    <2>9. StepOK(z)
      BY <2>1, <2>4, <2>6 DEF StepOK, GoesOn
    <2>10. SparesOwner(z)
      BY <2>1, <2>4 DEF SparesOwner, GoesOn
    <2>11. SignIn(z, db.members, left, proved)
      BY <2>1, <2>4 DEF SignIn, GoesOn
    <2>12. InScope(z, db)
      <3>1. z.pc # "find" /\ z.auth = req[p].auth
        BY <2>1, <2>4 DEF GoesOn
      <3>2. req[p].auth \in 0..(db.next - 1) /\ (Live(db, req[p].auth) => v = req[p].auth)
        BY <2>2, <2>3, <2>6 DEF InScope
      <3> QED BY <2>4, <3>1, <3>2 DEF InScope
    <2>13. OwnRow(z, db, New)
      BY <2>1, <2>3, <2>4, <2>6 DEF OwnRow, GoesOn
    <2>14. ReqOK(z, db, left, proved, New)
      BY <2>4, <2>9, <2>10, <2>11, <2>12, <2>13 DEF ReqOK, IsReq
    <2> QED BY <1>1, <2>8, <2>14, Reads
  <1> QED BY <1>1, <1>2, <1>3

(* The requests the middleware hands on. *)
AskPlain(op)           == [Blank EXCEPT !.op = op]
AskUser(op, u)         == [Blank EXCEPT !.op = op, !.user = u]
AskRole(op, u, role)   == [Blank EXCEPT !.op = op, !.user = u, !.role = role]
AskRow(op, x)          == [Blank EXCEPT !.op = op, !.x = x]
AskLess(op, y)         == [Blank EXCEPT !.op = op, !.y = y]
AskMore(op, x, y)      == [Blank EXCEPT !.op = op, !.x = x, !.y = y]
AskConn(op, role, x)   == [Blank EXCEPT !.op = op, !.role = role, !.x = x]
AskEdit(op, x, role, y) == [Blank EXCEPT !.op = op, !.x = x, !.role = role, !.y = y]

LEMMA Asks ==
    ASSUME NEW op, NEW u, NEW role, NEW x, NEW y
    PROVE  /\ IsReq(AskPlain(op)) /\ AskPlain(op).op = op
           /\ IsReq(AskUser(op, u)) /\ AskUser(op, u).op = op
           /\ IsReq(AskRole(op, u, role)) /\ AskRole(op, u, role).op = op
           /\ AskRole(op, u, role).role = role
           /\ IsReq(AskRow(op, x)) /\ AskRow(op, x).op = op /\ AskRow(op, x).x = x
           /\ IsReq(AskLess(op, y)) /\ AskLess(op, y).op = op
           /\ IsReq(AskMore(op, x, y)) /\ AskMore(op, x, y).op = op /\ AskMore(op, x, y).x = x
           /\ IsReq(AskConn(op, role, x)) /\ AskConn(op, role, x).op = op
           /\ AskConn(op, role, x).role = role
           /\ IsReq(AskEdit(op, x, role, y)) /\ AskEdit(op, x, role, y).op = op
           /\ AskEdit(op, x, role, y).x = x
  <1> USE BlankFields DEF IsReq, Fields
  <1>1. IsReq(AskPlain(op)) /\ AskPlain(op).op = op
    BY DEF AskPlain
  <1>2. IsReq(AskUser(op, u)) /\ AskUser(op, u).op = op
    BY DEF AskUser
  <1>3. /\ IsReq(AskRole(op, u, role)) /\ AskRole(op, u, role).op = op
        /\ AskRole(op, u, role).role = role
    BY DEF AskRole
  <1>4. IsReq(AskRow(op, x)) /\ AskRow(op, x).op = op /\ AskRow(op, x).x = x
    BY DEF AskRow
  <1>5. IsReq(AskLess(op, y)) /\ AskLess(op, y).op = op
    BY DEF AskLess
  <1>6. IsReq(AskMore(op, x, y)) /\ AskMore(op, x, y).op = op /\ AskMore(op, x, y).x = x
    BY DEF AskMore
  <1>7. /\ IsReq(AskConn(op, role, x)) /\ AskConn(op, role, x).op = op
        /\ AskConn(op, role, x).role = role
    BY DEF AskConn
  <1>8. /\ IsReq(AskEdit(op, x, role, y)) /\ AskEdit(op, x, role, y).op = op
        /\ AskEdit(op, x, role, y).x = x
    BY DEF AskEdit
  <1> HIDE DEF IsReq, Fields
  <1> QED BY <1>1, <1>2, <1>3, <1>4, <1>5, <1>6, <1>7, <1>8

LEMMA OldRows ==
    ASSUME IInv
    PROVE  /\ \A x \in db.domains : x.id \notin New
           /\ \A i \in db.invites : i.id \notin New
           /\ \A c \in db.conns : c.id \notin {10 + k : k \in New}
  <1>1. /\ PrimaryKey(db.domains, New) /\ PrimaryKey(db.invites, New)
        /\ PrimaryKey(db.conns, {10 + k : k \in New})
    BY DEF IInv, New, StoreOK, DomainsOK, InvitesOK, ConnsOK
  <1> QED BY <1>1, Zenon DEF PrimaryKey

LEMMA LetIn ==
    ASSUME IInv, NEW p \in Procs, NEW resource, NEW r, IsReq(r), AuthMiddleware(p, resource, r),
           \/ r.op \in {"remove", "uninvite", "tfa", "raze", "limits", "billing", "claim"}
           \/ r.op \in {"add", "role", "invite", "connect"} /\ r.role \in Grants
           \/ r.op \in {"verify", "disclaim"} /\ r.x \notin New
           \/ r.op \in {"edit", "cut"} /\ r.x \notin {10 + k : k \in New}
    PROVE  Good(p)
  <1>1. Fresh(r)
    <2>1. CASE r.op \in {"remove", "uninvite", "tfa", "raze", "limits", "billing", "claim"}
      BY <2>1 DEF Fresh
    <2>2. CASE r.op \in {"add", "role", "invite", "connect"} /\ r.role \in Grants
      BY <2>2, TenantAssumption DEF Fresh
    <2>3. CASE r.op \in {"verify", "disclaim"} /\ r.x \notin New
      BY <2>3 DEF Fresh
    <2>4. CASE r.op \in {"edit", "cut"} /\ r.x \notin {10 + k : k \in New}
      BY <2>4 DEF Fresh
    <2> QED BY <2>1, <2>2, <2>3, <2>4
  <1> QED BY <1>1, Authenticated

(* Roles and owners. *)
LEMMA RoleFacts ==
    ASSUME NEW d, MembersOK(d.members), NEW o, NEW u
    PROVE  /\ RoleIn(d, o, u) # 0 <=> \E m \in d.members : m.org = o /\ m.user = u
           /\ RoleIn(d, o, u) # Owner => u \notin Owners(d, o)
  <1> DEFINE found == {m \in d.members : m.org = o /\ m.user = u}
  <1>1. CASE found = {}
    <2>1. RoleIn(d, o, u) = 0
      BY <1>1 DEF RoleIn
    <2> QED BY <1>1, <2>1 DEF Owners
  <1>2. CASE found # {}
    <2>1. PICK m : m = (CHOOSE x \in found : TRUE)
      OBVIOUS
    <2>2. m \in found
      BY <1>2, <2>1
    <2>3. RoleIn(d, o, u) = m.role
      BY <1>2, <2>1 DEF RoleIn
    <2>4. m.role # 0 /\ \A n \in found : n = m
      BY <2>2 DEF MembersOK
    <2> HIDE DEF found
    <2>5. u \in Owners(d, o) => m.role = Owner
      <3>1. ASSUME NEW n \in d.members, n.org = o, n.role = Owner, n.user = u
            PROVE  m.role = Owner
        BY <2>4, <3>1 DEF found
      <3> QED BY <3>1 DEF Owners
    <2> QED BY <2>2, <2>3, <2>4, <2>5 DEF found
  <1> QED BY <1>1, <1>2

LEMMA Mine ==
    ASSUME IInv, NEW p \in Procs
    PROVE  /\ IsReq(req[p]) /\ ReqOK(req[p], db, left, proved, New)
           /\ StepOK(req[p]) /\ SparesOwner(req[p]) /\ SignIn(req[p], db.members, left, proved)
           /\ InScope(req[p], db) /\ OwnRow(req[p], db, New)
           /\ StoreOK(db, New) /\ MembersOK(db.members)
  BY DEF IInv, New, ReqOK, IsReq, StoreOK

(***************************************************************************)
(* What the handlers find                                                  *)
(***************************************************************************)
(* A request in which some fields are set. *)
Going(r, pc)        == [r EXCEPT !.pc = pc]
Seeing(r, pc, seen) == [r EXCEPT !.pc = pc, !.seen = seen]

LEMMA SetsPc ==
    ASSUME NEW r, IsReq(r), NEW pc
    PROVE  /\ IsReq(Going(r, pc)) /\ Going(r, pc).pc = pc
           /\ \A f \in Fields \ {"pc"} : Going(r, pc)[f] = r[f]
  BY DEF IsReq, Fields, Going

LEMMA SetsSeen ==
    ASSUME NEW r, IsReq(r), NEW pc, NEW seen
    PROVE  /\ IsReq(Seeing(r, pc, seen)) /\ Seeing(r, pc, seen).pc = pc
           /\ Seeing(r, pc, seen).seen = seen
           /\ \A f \in Fields \ {"pc", "seen"} : Seeing(r, pc, seen)[f] = r[f]
  BY DEF IsReq, Fields, Seeing

LEMMA AddFinds ==
    ASSUME IInv, NEW p \in Procs, At(p, "add", "find"),
           Find(p, /\ req[p].role = Owner => IsOwner(req[p])
                   /\ req[p].user \in db.users
                   /\ RoleIn(db, Found(p), req[p].user) = 0,
                [req[p] EXCEPT !.pc = "write", !.seen = Owners(db, Found(p))])
    PROVE  Good(p)
  <1> DEFINE s == Owners(db, Found(p))
             e == RoleIn(db, Found(p), req[p].user)
             r == Seeing(req[p], "write", s)
  <1>1. MembersOK(db.members)
    BY Mine
  <1>2. e # Owner => req[p].user \notin s
    BY <1>1, RoleFacts
  <1>3. IsReq(r) /\ r.pc = "write" /\ r.seen = s /\ \A f \in Fields \ {"pc", "seen"} : r[f] = req[p][f]
    <2>1. IsReq(req[p])
      BY Mine
    <2> QED BY <2>1, SetsSeen
  <1>4. Went(p, r) /\ (Answer(p) \/ e = 0)
    BY DEF Find, Found, Went, Seeing, Quiet
  <1> HIDE DEF r, s, e
  <1>0. /\ r.op = req[p].op /\ r.n = req[p].n /\ r.auth = req[p].auth /\ r.role = req[p].role
        /\ r.user = req[p].user
    BY <1>3 DEF Fields
  <1>5. e = 0 => GoesOn(p, r)
    BY <1>0, <1>2, <1>3 DEF GoesOn, SparesOwner, At, Owner
  <1> QED BY <1>4, <1>5, Finds DEF At

LEMMA RoleFinds ==
    ASSUME IInv, NEW p \in Procs, At(p, "role", "find"),
           LET r == req[p]
               e == RoleIn(db, Found(p), r.user)
           IN  Find(p, e # 0 /\ (Owner \in {e, r.role} => IsOwner(r)),
                    [r EXCEPT !.pc = IF e = Owner /\ r.role # Owner THEN "count" ELSE "write",
                              !.seen = Owners(db, Found(p))])
    PROVE  Good(p)
  <1> DEFINE s == Owners(db, Found(p))
             e == RoleIn(db, Found(p), req[p].user)
             pc == IF e = Owner /\ req[p].role # Owner THEN "count" ELSE "write"
             r == Seeing(req[p], pc, s)
  <1>1. MembersOK(db.members)
    BY Mine
  <1>2. e # Owner => req[p].user \notin s
    BY <1>1, RoleFacts
  <1>3. IsReq(r) /\ r.pc = pc /\ r.seen = s /\ \A f \in Fields \ {"pc", "seen"} : r[f] = req[p][f]
    <2>1. IsReq(req[p])
      BY Mine
    <2> QED BY <2>1, SetsSeen
  <1>4. Went(p, r)
    BY DEF Find, Found, Went, Seeing, Quiet
  <1>5. pc \in {"count", "write"} /\ (pc = "write" => req[p].role = Owner \/ e # Owner)
    OBVIOUS
  <1> HIDE DEF r, s, e, pc
  <1>0. /\ r.op = req[p].op /\ r.n = req[p].n /\ r.auth = req[p].auth /\ r.role = req[p].role
        /\ r.user = req[p].user
    BY <1>3 DEF Fields
  <1>6. GoesOn(p, r)
    BY <1>0, <1>2, <1>3, <1>5 DEF GoesOn, SparesOwner, At
  <1> QED BY <1>4, <1>6, Finds DEF At

LEMMA RemoveFinds ==
    ASSUME IInv, NEW p \in Procs, At(p, "remove", "find"),
           LET r == req[p]
               e == RoleIn(db, Found(p), r.user)
           IN  Find(p, e # 0 /\ (e = Owner => IsOwner(r)),
                    [r EXCEPT !.pc = IF e = Owner THEN "count" ELSE "write",
                              !.seen = Owners(db, Found(p))])
    PROVE  Good(p)
  <1> DEFINE s == Owners(db, Found(p))
             e == RoleIn(db, Found(p), req[p].user)
             pc == IF e = Owner THEN "count" ELSE "write"
             r == Seeing(req[p], pc, s)
  <1>1. MembersOK(db.members)
    BY Mine
  <1>2. e # Owner => req[p].user \notin s
    BY <1>1, RoleFacts
  <1>3. IsReq(r) /\ r.pc = pc /\ r.seen = s /\ \A f \in Fields \ {"pc", "seen"} : r[f] = req[p][f]
    <2>1. IsReq(req[p])
      BY Mine
    <2> QED BY <2>1, SetsSeen
  <1>4. Went(p, r)
    BY DEF Find, Found, Went, Seeing, Quiet
  <1>5. pc \in {"count", "write"} /\ (pc = "write" => e # Owner)
    OBVIOUS
  <1> HIDE DEF r, s, e, pc
  <1>0. /\ r.op = req[p].op /\ r.n = req[p].n /\ r.auth = req[p].auth /\ r.role = req[p].role
        /\ r.user = req[p].user
    BY <1>3 DEF Fields
  <1>6. GoesOn(p, r)
    BY <1>0, <1>2, <1>3, <1>5 DEF GoesOn, SparesOwner, At
  <1> QED BY <1>4, <1>6, Finds DEF At

(* Handlers that remember nothing of the members. *)
LEMMA PlainFinds ==
    ASSUME IInv, NEW p \in Procs, NEW r, Went(p, r),
           req[p].pc = "find", IsReq(r), r.op = req[p].op, r.n = req[p].n, r.auth = req[p].auth,
           r.role = req[p].role, r.pc \in {"write", "customer", "session"},
           r.op \in {"invite", "uninvite", "tfa", "raze", "limits", "billing", "claim", "connect"}
    PROVE  Good(p)
  <1>1. GoesOn(p, r)
    BY DEF GoesOn, SparesOwner
  <1> QED BY <1>1, Finds

LEMMA PlainGoes ==
    ASSUME IInv, NEW p \in Procs, Went(p, Going(req[p], "write")), req[p].pc = "find",
           req[p].op \in {"invite", "uninvite", "tfa", "raze", "claim", "connect"}
    PROVE  Good(p)
  <1> DEFINE r == Going(req[p], "write")
  <1>1. IsReq(req[p])
    BY Mine
  <1>2. IsReq(r) /\ r.pc = "write" /\ \A f \in Fields \ {"pc"} : r[f] = req[p][f]
    BY <1>1, SetsPc
  <1> HIDE DEF r
  <1>3. r.op = req[p].op /\ r.n = req[p].n /\ r.auth = req[p].auth /\ r.role = req[p].role
    BY <1>2 DEF Fields
  <1> QED BY <1>2, <1>3, PlainFinds DEF r

(* A row that belongs to the organization is the only one with its id.     *)
LEMMA BelongsNames ==
    ASSUME IInv, NEW p \in Procs, NEW id
    PROVE  /\ Belongs(p, OrgEmailDomain(db, id)) => Names(db.domains, id, Found(p))
           /\ Belongs(p, OrgSsoConnection(db, id)) => Names(db.conns, id, Found(p))
  <1>1. /\ \A x, y \in db.domains : x.id = y.id => x = y
        /\ \A x, y \in db.conns : x.id = y.id => x = y
    BY DEF IInv, StoreOK, DomainsOK, ConnsOK, PrimaryKey
  <1> QED BY <1>1 DEF Belongs, OrgEmailDomain, OrgSsoConnection, Names

LEMMA RowFinds ==
    ASSUME IInv, NEW p \in Procs, NEW r, Went(p, r),
           req[p].pc = "find", IsReq(r), r.op = req[p].op, r.n = req[p].n, r.auth = req[p].auth,
           r.role = req[p].role, r.x = req[p].x, r.pc = "write",
           \/ /\ r.op \in {"verify", "disclaim"}
              /\ Answer(p) \/ Belongs(p, OrgEmailDomain(db, req[p].x))
           \/ /\ r.op \in {"edit", "cut"}
              /\ Answer(p) \/ Belongs(p, OrgSsoConnection(db, req[p].x))
    PROVE  Good(p)
  <1>1. Answer(p) \/ GoesOn(p, r)
    BY BelongsNames DEF GoesOn, SparesOwner
  <1> QED BY <1>1, Finds

(* Where a request goes on, and nothing is written. *)
LEMMA Moves ==
    ASSUME IInv, NEW p \in Procs, NEW y, req' = [req EXCEPT ![p] = y], y.n = req[p].n,
           req[p].op # "idle", y.op = req[p].op, count' = count, scene' = scene, db' = db,
           UNCHANGED ghosts, ReqOK(y, db, left, proved, New)
    PROVE  Good(p)
  <1>1. Turn(p, y)
    BY DEF Turn, TurnOf
  <1> QED BY <1>1, Reads

LEMMA StaysOK ==
    ASSUME NEW r, NEW y, NEW d, NEW gone, NEW pr, NEW new, ReqOK(r, d, gone, pr, new), IsReq(y),
           y.op = r.op, y.auth = r.auth, y.org = r.org, y.x = r.x,
           r.op # "idle", r.pc # "find", y.pc # "find",
           StepOK(y), SparesOwner(y), SignIn(y, d.members, gone, pr)
    PROVE  ReqOK(y, d, gone, pr, new)
  <1>1. InScope(r, d) /\ OwnRow(r, d, new)
    BY DEF ReqOK
  <1>2. InScope(y, d)
    BY <1>1 DEF InScope
  <1>3. OwnRow(y, d, new)
    BY <1>1 DEF OwnRow
  <1> QED BY <1>2, <1>3 DEF ReqOK, IsReq

(* The owner that is counted is not the only one. *)
LEMMA Counts ==
    ASSUME IInv, NEW p \in Procs, CountOwners(p)
    PROVE  Good(p)
  <1> DEFINE s == Owners(db, req[p].org)
             y == Seeing(req[p], "write", s)
  <1>1. /\ req[p].pc = "count" /\ count' = count /\ scene' = scene /\ db' = db /\ UNCHANGED ghosts
        /\ Answer(p) \/ (~(Cardinality(s) <= 1) /\ req' = [req EXCEPT ![p] = y])
    BY DEF CountOwners, OwnerCount, Quiet, Seeing
  <1>2. CASE Answer(p)
    BY <1>1, <1>2, Answers
  <1>3. CASE ~(Cardinality(s) <= 1) /\ req' = [req EXCEPT ![p] = y]
    <2>1. s # {req[p].user}
      <3>1. Cardinality({req[p].user}) = 1
        BY FS_Singleton
      <3> QED BY <1>3, <3>1
    <2>2. IsReq(req[p]) /\ req[p].op \in {"role", "remove"}
      BY <1>1, Mine DEF StepOK
    <2> HIDE DEF s
    <2>3. IsReq(y) /\ y.pc = "write" /\ y.seen = s
          /\ \A f \in Fields \ {"pc", "seen"} : y[f] = req[p][f]
      BY <2>2, SetsSeen
    <2> HIDE DEF y
    <2>4. /\ y.op = req[p].op /\ y.auth = req[p].auth /\ y.org = req[p].org /\ y.x = req[p].x
          /\ y.role = req[p].role /\ y.user = req[p].user /\ y.n = req[p].n
      BY <2>3 DEF Fields
    <2>5. StepOK(y)
      BY <1>1, <2>2, <2>3, <2>4, Mine DEF StepOK
    <2>6. SparesOwner(y) /\ SignIn(y, db.members, left, proved)
      BY <2>1, <2>2, <2>3, <2>4 DEF SparesOwner, SignIn
    <2>7. ReqOK(y, db, left, proved, New)
      BY <1>1, <2>2, <2>3, <2>4, <2>5, <2>6, Mine, StaysOK
    <2> QED BY <1>1, <1>3, <2>2, <2>4, <2>7, Moves
  <1> QED BY <1>1, <1>2, <1>3

LEMMA Abandons ==
    ASSUME IInv, NEW p \in Procs, Abandon(p)
    PROVE  Good(p)
  BY Answers DEF Abandon

(* The membership of the user to add cannot be read. *)
LEMMA AddMisses ==
    ASSUME IInv, NEW p \in Procs, At(p, "add", "find"), Found(p) # NoOrg,
           req' = [req EXCEPT ![p].pc = "write", ![p].org = Found(p),
                              ![p].seen = Owners(db, Found(p)) \ {req[p].user}],
           db' = db, UNCHANGED <<count, scene>>, UNCHANGED ghosts
    PROVE  Good(p)
  <1> DEFINE s == Owners(db, Found(p)) \ {req[p].user}
             r == Seeing(req[p], "write", s)
  <1>1. IsReq(req[p])
    BY Mine
  <1>2. IsReq(r) /\ r.pc = "write" /\ r.seen = s
        /\ \A f \in Fields \ {"pc", "seen"} : r[f] = req[p][f]
    BY <1>1, SetsSeen
  <1>3. req' = [req EXCEPT ![p] = [r EXCEPT !.org = Found(p)]]
    <2>1. [[req[p] EXCEPT !.pc = "write", !.org = Found(p)] EXCEPT !.seen = s]
            = [[req[p] EXCEPT !.pc = "write", !.seen = s] EXCEPT !.org = Found(p)]
      BY <1>1 DEF IsReq, Fields
    <2> QED BY <2>1 DEF Seeing
  <1>4. req[p].user \notin s
    OBVIOUS
  <1> HIDE DEF r, s
  <1>5. /\ r.op = "add" /\ r.n = req[p].n /\ r.auth = req[p].auth /\ r.role = req[p].role
        /\ r.user = req[p].user
    BY <1>2 DEF Fields, At
  <1>6. GoesOn(p, r)
    BY <1>2, <1>4, <1>5 DEF GoesOn, SparesOwner, At
  <1>7. Went(p, r)
    BY <1>3 DEF Went
  <1> QED BY <1>6, <1>7, Finds DEF At

(* A request goes on in its organization, and nothing is written. *)
LEMMA Advances ==
    ASSUME IInv, NEW p \in Procs, NEW y, IsReq(y), req' = [req EXCEPT ![p] = y],
           y.op = req[p].op, y.n = req[p].n, y.auth = req[p].auth, y.org = req[p].org,
           y.x = req[p].x, req[p].op # "idle", req[p].pc # "find", y.pc # "find",
           StepOK(y), SparesOwner(y), SignIn(y, db.members, left, proved),
           count' = count, scene' = scene, db' = db, UNCHANGED ghosts
    PROVE  Good(p)
  <1>1. ReqOK(y, db, left, proved, New)
    BY Mine, StaysOK
  <1> QED BY <1>1, Moves

(***************************************************************************)
(* What a sign-in reads                                                    *)
(***************************************************************************)
Loading(r, c)     == [r EXCEPT !.conn = c, !.org = c.org, !.auth = c.org, !.pc = "domain"]
Becoming(r, u, pc) == [r EXCEPT !.user = u, !.pc = pc]

LEMMA SetsConn ==
    ASSUME NEW r, IsReq(r), NEW c
    PROVE  /\ IsReq(Loading(r, c)) /\ Loading(r, c).conn = c /\ Loading(r, c).pc = "domain"
           /\ Loading(r, c).org = c.org /\ Loading(r, c).auth = c.org
           /\ \A f \in Fields \ {"conn", "org", "auth", "pc"} : Loading(r, c)[f] = r[f]
  BY DEF IsReq, Fields, Loading

LEMMA SetsUser ==
    ASSUME NEW r, IsReq(r), NEW u, NEW pc
    PROVE  /\ IsReq(Becoming(r, u, pc)) /\ Becoming(r, u, pc).user = u
           /\ Becoming(r, u, pc).pc = pc
           /\ \A f \in Fields \ {"user", "pc"} : Becoming(r, u, pc)[f] = r[f]
  BY DEF IsReq, Fields, Becoming

LEMMA LoadsConnection ==
    ASSUME IInv, NEW p \in Procs, At(p, "sso", "conn"), NEW c \in db.conns,
           req' = [req EXCEPT ![p] = Loading(req[p], c)],
           count' = count, scene' = scene, db' = db, UNCHANGED ghosts
    PROVE  Good(p)
  <1> DEFINE y == Loading(req[p], c)
  <1>1. IsReq(req[p]) /\ req[p].op = "sso" /\ req[p].pc = "conn"
    BY Mine DEF At
  <1>2. /\ IsReq(y) /\ y.conn = c /\ y.pc = "domain" /\ y.org = c.org /\ y.auth = c.org
        /\ \A f \in Fields \ {"conn", "org", "auth", "pc"} : y[f] = req[p][f]
    BY <1>1, SetsConn
  <1>3. req' = [req EXCEPT ![p] = y]
    OBVIOUS
  <1> HIDE DEF y
  <1>4. /\ y.op = req[p].op /\ y.n = req[p].n /\ y.subject = req[p].subject
        /\ y.user = req[p].user /\ y.seen = req[p].seen
    BY <1>2 DEF Fields
  <1>5. c.role # 0
    BY DEF IInv, StoreOK, ConnsOK
  <1>6. StepOK(y) /\ SparesOwner(y) /\ InScope(y, db) /\ OwnRow(y, db, New)
    BY <1>1, <1>2, <1>4 DEF StepOK, SparesOwner, InScope, OwnRow
  <1>7. SignIn(req[p], db.members, left, proved)
    BY Mine
  <1>8. SignIn(y, db.members, left, proved)
    BY <1>1, <1>2, <1>4, <1>5, <1>7 DEF SignIn
  <1>9. ReqOK(y, db, left, proved, New)
    BY <1>2, <1>6, <1>8 DEF ReqOK, IsReq
  <1> QED BY <1>1, <1>3, <1>4, <1>9, Moves

LEMMA ChecksDomain ==
    ASSUME IInv, NEW p \in Procs, VerifiedHere(p)
    PROVE  Good(p)
  <1> DEFINE r == req[p]
             y == Going(req[p], "account")
  <1>1. /\ r.op = "sso" /\ r.pc = "domain"
        /\ count' = count /\ scene' = scene /\ db' = db /\ UNCHANGED ghosts
        /\ \/ Answer(p)
           \/ /\ OrganizationForDomain(db, DomainOf[r.user]) = {r.conn.org}
              /\ req' = [req EXCEPT ![p] = y]
    BY DEF VerifiedHere, At, Quiet, Goto, Going
  <1>2. CASE Answer(p)
    BY <1>1, <1>2, Answers
  <1>3. CASE /\ OrganizationForDomain(db, DomainOf[r.user]) = {r.conn.org}
             /\ req' = [req EXCEPT ![p] = y]
    <2>1. IsReq(r) /\ SignIn(r, db.members, left, proved)
      BY Mine
    <2>2. IsReq(y) /\ y.pc = "account" /\ \A f \in Fields \ {"pc"} : y[f] = r[f]
      BY <2>1, SetsPc
    <2>3. PICK x \in db.domains : x.verified /\ x.domain = DomainOf[r.user] /\ x.org = r.conn.org
      BY <1>3 DEF OrganizationForDomain
    <2>4. <<x.org, x.domain>> \in proved
      BY <2>3 DEF IInv, Proven
    <2>5. PICK w \in People : w.subject = r.subject /\ w.email = r.user
      BY <1>1, <2>1 DEF SignIn
    <2>6. r.conn.org = r.org /\ r.conn.role # 0 /\ r.seen = {}
      BY <1>1, <2>1 DEF SignIn
    <2>7. Came(r.subject, r.org, proved)
      BY <2>3, <2>4, <2>5, <2>6 DEF Came
    <2> HIDE DEF y
    <2>8. /\ y.op = r.op /\ y.n = r.n /\ y.auth = r.auth /\ y.org = r.org /\ y.x = r.x
          /\ y.subject = r.subject /\ y.seen = r.seen /\ y.conn = r.conn
      BY <2>2 DEF Fields
    <2>9. StepOK(y) /\ SparesOwner(y) /\ SignIn(y, db.members, left, proved)
      BY <1>1, <2>2, <2>6, <2>7, <2>8 DEF StepOK, SparesOwner, SignIn
    <2> QED BY <1>1, <1>3, <2>2, <2>8, <2>9, Advances
  <1> QED BY <1>1, <1>2, <1>3

LEMMA ResolvesAccount ==
    ASSUME IInv, NEW p \in Procs, At(p, "sso", "account"), NEW u, NEW pc \in {"member", "link", "create"},
           req' = [req EXCEPT ![p] = Becoming(req[p], u, pc)],
           count' = count, scene' = scene, db' = db, UNCHANGED ghosts
    PROVE  Good(p)
  <1> DEFINE r == req[p]
             y == Becoming(r, u, pc)
  <1>1. IsReq(r) /\ r.op = "sso" /\ r.pc = "account" /\ SignIn(r, db.members, left, proved)
    BY Mine DEF At
  <1>2. IsReq(y) /\ y.pc = pc /\ \A f \in Fields \ {"user", "pc"} : y[f] = r[f]
    BY <1>1, SetsUser
  <1>3. req' = [req EXCEPT ![p] = y]
    OBVIOUS
  <1> HIDE DEF y
  <1>4. /\ y.op = r.op /\ y.n = r.n /\ y.auth = r.auth /\ y.org = r.org /\ y.x = r.x
        /\ y.subject = r.subject /\ y.seen = r.seen /\ y.conn = r.conn
    BY <1>2 DEF Fields
  <1>5. Came(r.subject, r.org, proved) /\ r.conn.org = r.org /\ r.conn.role # 0 /\ r.seen = {}
    BY <1>1 DEF SignIn
  <1>6. StepOK(y) /\ SparesOwner(y) /\ SignIn(y, db.members, left, proved)
    BY <1>1, <1>2, <1>4, <1>5 DEF StepOK, SparesOwner, SignIn
  <1> QED BY <1>1, <1>2, <1>3, <1>4, <1>6, Advances

LEMMA GoingIsBecoming ==
    ASSUME NEW r, IsReq(r), NEW pc
    PROVE  Going(r, pc) = Becoming(r, r.user, pc)
  BY DEF Going, Becoming, IsReq, Fields

LEMMA ReadsMembership ==
    ASSUME IInv, NEW p \in Procs, At(p, "sso", "member"),
           req' = [req EXCEPT ![p].pc = IF RoleIn(db, req[p].org, req[p].user) = 0
                                        THEN "join" ELSE "issue",
                              ![p].seen = Owners(db, req[p].org)],
           count' = count, scene' = scene, db' = db, UNCHANGED ghosts
    PROVE  Good(p)
  <1> DEFINE r == req[p]
             s == Owners(db, r.org)
             e == RoleIn(db, r.org, r.user)
             pc == IF e = 0 THEN "join" ELSE "issue"
             y == Seeing(r, pc, s)
  <1>1. IsReq(r) /\ r.op = "sso" /\ r.pc = "member" /\ SignIn(r, db.members, left, proved)
    BY Mine DEF At
  <1>2. IsReq(y) /\ y.pc = pc /\ y.seen = s /\ \A f \in Fields \ {"pc", "seen"} : y[f] = r[f]
    BY <1>1, SetsSeen
  <1>3. req' = [req EXCEPT ![p] = y]
    BY DEF Seeing
  <1>4. MembersOK(db.members)
    BY Mine
  <1>5. /\ e # Owner => r.user \notin s
        /\ e # 0 => Joined(db.members, left, r.org, r.user)
    BY <1>4, RoleFacts DEF Joined
  <1>6. \/ pc = "join" /\ s # {r.user}
        \/ pc = "issue" /\ Joined(db.members, left, r.org, r.user)
    BY <1>5 DEF Owner
  <1> HIDE DEF y, s, e, pc
  <1>7. /\ y.op = r.op /\ y.n = r.n /\ y.auth = r.auth /\ y.org = r.org /\ y.x = r.x
        /\ y.subject = r.subject /\ y.user = r.user /\ y.conn = r.conn
    BY <1>2 DEF Fields
  <1>8. Came(r.subject, r.org, proved) /\ r.conn.org = r.org /\ r.conn.role # 0
    BY <1>1 DEF SignIn
  <1>9. StepOK(y) /\ SparesOwner(y) /\ SignIn(y, db.members, left, proved) /\ y.pc # "find"
    BY <1>1, <1>2, <1>6, <1>7, <1>8 DEF StepOK, SparesOwner, SignIn
  <1> QED BY <1>1, <1>2, <1>3, <1>7, <1>9, Advances

-----------------------------------------------------------------------------
(***************************************************************************)
(* Statements                                                              *)
(***************************************************************************)
(* What a statement about organization o may do to each table. *)
Foreign(old, rows, o) == \A x : x.org # o => (x \in rows <=> x \in old)

OrgStep(o) ==
  /\ OrgsOK(db'.org, db'.next)
  /\ KeepsOrgs(db, db')
  /\ \A q, l : /\ l \in Permalinks /\ q \notin {o, NoOrg}
               /\ db.org[l].id = q \/ db'.org[l].id = q
               => db'.org[l] = db.org[l]

MemStep(o) ==
  /\ MembersOK(db'.members)
  /\ \A m \in db.members : Joined(db'.members, left', m.org, m.user)
  /\ Foreign(db.members, db'.members, o)

InvStep(o) ==
  /\ InvitesOK(db'.invites, New')
  /\ KeepsRows(db.invites, db'.invites, New)
  /\ Foreign(db.invites, db'.invites, o)

DomStep(o) ==
  /\ DomainsOK(db'.domains, New')
  /\ KeepsRows(db.domains, db'.domains, New)
  /\ Proven(db'.domains, proved')
  /\ Foreign(db.domains, db'.domains, o)

ConnStep(o) ==
  /\ ConnsOK(db'.conns, New')
  /\ KeepsRows(db.conns, db'.conns, {10 + k : k \in New})
  /\ Foreign(db.conns, db'.conns, o)

SesStep ==
  \A s \in db'.sessions :
    s.how = "sso" => \/ s \in db.sessions
                     \/ Joined(db'.members, left', s.org, s.user) /\ Came(s.claim, s.org, proved')

LEMMA Unwritten ==
    ASSUME IInv, NEW p \in Procs, NEW y, Turn(p, y), NEW o
    PROVE  /\ db'.org = db.org /\ db'.next = db.next => OrgStep(o)
           /\ db'.members = db.members => MemStep(o)
           /\ db'.invites = db.invites => InvStep(o)
           /\ db'.domains = db.domains /\ proved \subseteq proved' => DomStep(o)
           /\ db'.conns = db.conns => ConnStep(o)
           /\ db'.sessions = db.sessions => SesStep
  <1>1. /\ New' \subseteq New /\ OrgsOK(db.org, db.next) /\ MembersOK(db.members)
        /\ InvitesOK(db.invites, New) /\ DomainsOK(db.domains, New) /\ ConnsOK(db.conns, New)
        /\ Proven(db.domains, proved)
    BY Turned DEF IInv, New, StoreOK
  <1>2. \A rows, new : Foreign(rows, rows, o) /\ KeepsRows(rows, rows, new)
    BY DEF Foreign, KeepsRows
  <1>3. ASSUME db'.org = db.org, db'.next = db.next
        PROVE  OrgStep(o)
    <2>1. KeepsOrgs(db, db')
      BY <1>1, <1>3 DEF KeepsOrgs, OrgsOK
    <2> QED BY <1>1, <1>3, <2>1 DEF OrgStep
  <1>4. ASSUME db'.members = db.members
        PROVE  MemStep(o)
    BY <1>1, <1>2, <1>4 DEF MemStep, Joined
  <1>5. ASSUME db'.invites = db.invites
        PROVE  InvStep(o)
    BY <1>1, <1>2, <1>5, TablesShrink DEF InvStep
  <1>6. ASSUME db'.domains = db.domains, proved \subseteq proved'
        PROVE  DomStep(o)
    <2>1. DomainsOK(db.domains, New')
      BY <1>1, TablesShrink
    <2>2. Proven(db.domains, proved')
      BY <1>1, <1>6 DEF Proven
    <2> QED BY <1>2, <1>6, <2>1, <2>2 DEF DomStep
  <1>7. ASSUME db'.conns = db.conns
        PROVE  ConnStep(o)
    <2>1. ConnsOK(db.conns, New')
      BY <1>1, TablesShrink
    <2>2. KeepsRows(db.conns, db.conns, {10 + k : k \in New})
      BY <1>2
    <2> QED BY <1>2, <1>7, <2>1, <2>2 DEF ConnStep
  <1>8. db'.sessions = db.sessions => SesStep
    BY DEF SesStep
  <1> QED BY <1>3, <1>4, <1>5, <1>6, <1>7, <1>8

Steps(o) ==
  /\ db' = [f \in TableNames |-> db'[f]]
  /\ OrgStep(o) /\ MemStep(o) /\ InvStep(o) /\ DomStep(o) /\ ConnStep(o) /\ SesStep
  /\ left \subseteq left' /\ proved \subseteq proved'

LEMMA Elsewhere ==
    ASSUME IInv, NEW o, Steps(o), NEW q, q # o
    PROVE  RowsOf(db', q) = RowsOf(db, q)
  <1>1. OrgsOK(db.org, db.next) /\ OrgsOK(db'.org, db'.next)
    BY DEF IInv, StoreOK, Steps, OrgStep
  <1>2. RowOf(db', q) = RowOf(db, q)
    <2>1. CASE q = NoOrg
      BY <2>1 DEF RowOf, Live
    <2>2. CASE q # NoOrg
      <3>1. \A l \in Permalinks : db.org[l].id = q \/ db'.org[l].id = q => db'.org[l] = db.org[l]
        BY <2>2 DEF Steps, OrgStep
      <3> QED BY <1>1, <3>1, RowSame
    <2> QED BY <2>1, <2>2
  <1>3. \A old, rows : Foreign(old, rows, o) => {x \in rows : x.org = q} = {x \in old : x.org = q}
    BY DEF Foreign
  <1>4. /\ Foreign(db.members, db'.members, o) /\ Foreign(db.invites, db'.invites, o)
        /\ Foreign(db.domains, db'.domains, o) /\ Foreign(db.conns, db'.conns, o)
    BY DEF Steps, MemStep, InvStep, DomStep, ConnStep
  <1> QED BY <1>2, <1>3, <1>4 DEF RowsOf

LEMMA Lands ==
    ASSUME IInv, NEW p \in Procs, NEW y, Turn(p, y), NEW o, Steps(o), OwnerRemains',
           ReqOK(y, db', left', proved', New'),
           req[p].op # "idle" => req[p].pc # "find" /\ o = req[p].org
    PROVE  Good(p)
  <1>1. StoreOK(db', New')
    BY DEF StoreOK, Steps, OrgStep, MemStep, InvStep, DomStep, ConnStep
  <1>2. Evolves(db, db', left, left', proved, proved', New, New')
    <2>1. New' \subseteq New
      BY Turned
    <2> QED BY <2>1 DEF Evolves, Steps, OrgStep, MemStep, InvStep, DomStep, ConnStep
  <1>3. Signed(db'.sessions, db'.members, left', proved')
    <2>1. ASSUME NEW s \in db'.sessions, s.how = "sso"
          PROVE  Joined(db'.members, left', s.org, s.user) /\ Came(s.claim, s.org, proved')
      <3>1. CASE s \in db.sessions
        <4>1. Joined(db.members, left, s.org, s.user) /\ Came(s.claim, s.org, proved)
          BY <2>1, <3>1 DEF IInv, Signed
        <4>2. Joined(db'.members, left', s.org, s.user)
          BY <1>2, <4>1, JoinedStays DEF Evolves
        <4> QED BY <4>1, <4>2 DEF Came, Steps
      <3> QED BY <2>1, <3>1 DEF Steps, SesStep
    <2> QED BY <2>1 DEF Signed
  <1>4. Settled
    BY <1>1, <1>2, <1>3 DEF Settled, Steps, DomStep
  <1>5. req[p].op # "idle" => Home(p)
    BY Elsewhere DEF Home
  <1> QED BY <1>4, <1>5, Concludes

(* The request that makes a statement. *)
LEMMA Kept ==
    ASSUME IInv, NEW p \in Procs, NEW y, Turn(p, y), NEW o, Steps(o)
    PROVE  ReqOK(req[p], db', left', proved', New')
  <1>1. Evolves(db, db', left, left', proved, proved', New, New')
    <2>1. New' \subseteq New
      BY Turned
    <2> QED BY <2>1 DEF Evolves, Steps, OrgStep, MemStep, InvStep, DomStep, ConnStep
  <1>2. ReqOK(req[p], db, left, proved, New) /\ OrgsOK(db.org, db.next)
    BY DEF IInv, New, StoreOK
  <1> QED BY <1>1, <1>2, ReqKept

(* A statement that is not in force. *)
LEMMA NothingWritten ==
    ASSUME IInv, NEW p \in Procs, NEW y, Turn(p, y), NEW o, db' = db, left' = left,
           proved \subseteq proved'
    PROVE  Steps(o)
  <1>1. db = [f \in TableNames |-> db[f]]
    BY DEF IInv, StoreOK
  <1> QED BY <1>1, Unwritten DEF Steps

LEMMA Refused ==
    ASSUME IInv, NEW p \in Procs, req[p].op # "idle", req[p].pc # "find", Answer(p),
           count' = count, scene' = scene, db' = db, left' = left, proved \subseteq proved',
           OwnerRemains'
    PROVE  Good(p)
  <1>1. Turn(p, Blank)
    BY AnswerTurn
  <1>2. Steps(req[p].org)
    BY <1>1, NothingWritten
  <1>3. ReqOK(Blank, db', left', proved', New')
    BY BlankOK
  <1> QED BY <1>1, <1>2, <1>3, Lands

(* Owners are counted with the members of their organization. *)
LEMMA OwnersElsewhere ==
    ASSUME NEW o, Foreign(db.members, db'.members, o), NEW q, q # o
    PROVE  Owners(db', q) = Owners(db, q)
  BY DEF Foreign, Owners

LEMMA OwnerStays ==
    ASSUME IInv, db'.org = db.org, NEW o, Foreign(db.members, db'.members, o), NEW S, Excuse(S),
           Owners(db', o) # {} \/ Owners(db, o) = {} \/ o \in S
    PROVE  OwnerRemains'
  <1> SUFFICES ASSUME NEW l \in Permalinks, db.org[l].id # NoOrg, Owners(db', db.org[l].id) = {}
               PROVE  db.org[l].id \in excused'
    BY DEF OwnerRemains
  <1>1. PICK q : q = db.org[l].id
    OBVIOUS
  <1>2. Owners(db, q) # {} \/ q \in excused
    BY <1>1 DEF IInv, OwnerRemains
  <1>3. q \in excused \union S
    BY <1>1, <1>2, OwnersElsewhere
  <1> QED BY <1>1, <1>3 DEF Excuse

(* Which tables a statement leaves alone. *)
Others(names) ==
  /\ db' = [f \in TableNames |-> db'[f]]
  /\ \A f \in TableNames \ names : db'[f] = db[f]

LEMMA Shape ==
    ASSUME IInv
    PROVE  db = [f \in TableNames |-> db[f]] /\ OrgsOK(db.org, db.next)
  BY DEF IInv, StoreOK

(***************************************************************************)
(* Members                                                                 *)
(***************************************************************************)
Upserted(rows, o, u, role) ==
  {m \in rows : ~(m.org = o /\ m.user = u)} \union {[org |-> o, user |-> u, role |-> role]}

LEMMA Upserts ==
    ASSUME NEW rows, MembersOK(rows), NEW o, NEW u, NEW role, role # 0
    PROVE  LET out == Upserted(rows, o, u, role) IN
           /\ MembersOK(out)
           /\ Foreign(rows, out, o)
           /\ \E m \in out : m.org = o /\ m.user = u
           /\ \A m \in rows : \E n \in out : n.org = m.org /\ n.user = m.user
  <1> DEFINE out == Upserted(rows, o, u, role)
             new == [org |-> o, user |-> u, role |-> role]
  <1>1. new.org = o /\ new.user = u /\ new.role = role
    OBVIOUS
  <1>2. \A m : m \in out <=> (m \in rows /\ ~(m.org = o /\ m.user = u)) \/ m = new
    BY DEF Upserted
  <1> HIDE DEF new, out
  <1>3. MembersOK(out)
    <2>1. \A m \in out : m.role # 0
      BY <1>1, <1>2 DEF MembersOK
    <2>2. ASSUME NEW m \in out, NEW n \in out, m.org = n.org, m.user = n.user
          PROVE  m = n
      BY <1>1, <1>2, <2>2 DEF MembersOK
    <2> QED BY <2>1, <2>2 DEF MembersOK
  <1>4. Foreign(rows, out, o)
    BY <1>1, <1>2 DEF Foreign
  <1>5. new \in out
    BY <1>2
  <1>6. ASSUME NEW m \in rows
        PROVE  \E n \in out : n.org = m.org /\ n.user = m.user
    <2>1. CASE m.org = o /\ m.user = u
      BY <1>1, <1>5, <2>1
    <2>2. CASE ~(m.org = o /\ m.user = u)
      BY <1>2, <2>2
    <2> QED BY <2>1, <2>2
  <1> QED BY <1>1, <1>3, <1>4, <1>5, <1>6 DEF out

LEMMA UpsertSteps ==
    ASSUME IInv, NEW p \in Procs, NEW y, Turn(p, y), NEW o, NEW u, NEW role, role # 0,
           db' = UpsertMembership(db, o, u, role), left' = left, proved' = proved
    PROVE  /\ Steps(o) /\ db'.org = db.org
           /\ Joined(db'.members, left', o, u)
           /\ Owners(db, o) \ {u} \subseteq Owners(db', o)
           /\ role = Owner => u \in Owners(db', o)
  <1> DEFINE out == Upserted(db.members, o, u, role)
  <1>1. Others({"members"}) /\ db'.members = out
    BY Shape DEF Others, TableNames, UpsertMembership, Upserted
  <1>2. /\ MembersOK(out)
        /\ Foreign(db.members, out, o)
        /\ \E m \in out : m.org = o /\ m.user = u
        /\ \A m \in db.members : \E n \in out : n.org = m.org /\ n.user = m.user
    <2>1. MembersOK(db.members)
      BY Mine
    <2> QED BY <2>1, Upserts
  <1>3. [org |-> o, user |-> u, role |-> role] \in out
        /\ \A m \in db.members : ~(m.org = o /\ m.user = u) => m \in out
    BY DEF Upserted
  <1> HIDE DEF out
  <1>4. MemStep(o)
    BY <1>1, <1>2 DEF MemStep, Joined
  <1>5. /\ db'.org = db.org /\ db'.next = db.next /\ db'.invites = db.invites
        /\ db'.domains = db.domains /\ db'.conns = db.conns /\ db'.sessions = db.sessions
    BY <1>1 DEF Others, TableNames
  <1>6. Steps(o)
    <2>1. OrgStep(o) /\ InvStep(o) /\ DomStep(o) /\ ConnStep(o) /\ SesStep
      BY <1>5, Unwritten
    <2> QED BY <1>1, <1>4, <2>1 DEF Steps, Others
  <1>7. Joined(db'.members, left', o, u)
    BY <1>1, <1>2 DEF Joined
  <1>8. Owners(db, o) \ {u} \subseteq Owners(db', o)
    BY <1>1, <1>3 DEF Owners
  <1>9. role = Owner => u \in Owners(db', o)
    <2>1. PICK m : m = [org |-> o, user |-> u, role |-> role]
      OBVIOUS
    <2>2. m \in db'.members /\ m.org = o /\ m.user = u /\ m.role = role
      BY <1>1, <1>3, <2>1
    <2> QED BY <2>2 DEF Owners
  <1> QED BY <1>5, <1>6, <1>7, <1>8, <1>9

(* The request after a statement: over, or at its next step. *)
LEMMA GotoTurn ==
    ASSUME IInv, NEW p \in Procs, NEW pc, Goto(p, pc), req[p].op # "idle",
           count' = count, scene' = scene
    PROVE  /\ pc = "done" => Turn(p, Blank)
           /\ pc # "done" => Turn(p, Going(req[p], pc))
  <1>1. CASE pc = "done"
    BY <1>1, AnswerTurn DEF Goto
  <1>2. CASE pc # "done"
    <2>1. req' = [req EXCEPT ![p] = Going(req[p], pc)]
      BY <1>2 DEF Goto, Going
    <2>2. IsReq(req[p])
      BY Mine
    <2>3. Going(req[p], pc).op = req[p].op /\ Going(req[p], pc).n = req[p].n
      BY <2>2, SetsPc DEF Fields
    <2> QED BY <1>2, <2>1, <2>3 DEF Turn, TurnOf
  <1> QED BY <1>1, <1>2

(* A statement after which the request is over. *)
LEMMA Ends ==
    ASSUME IInv, NEW p \in Procs, Turn(p, Blank), Steps(req[p].org), OwnerRemains',
           req[p].op # "idle", req[p].pc # "find"
    PROVE  Good(p)
  <1>1. ReqOK(Blank, db', left', proved', New')
    BY BlankOK
  <1> QED BY <1>1, Lands

(* A statement after which the request goes on. *)
LEMMA Continues ==
    ASSUME IInv, NEW p \in Procs, NEW y, Turn(p, y), IsReq(y), Steps(req[p].org), OwnerRemains',
           req[p].op # "idle", req[p].pc # "find", y.pc # "find",
           y.op = req[p].op, y.auth = req[p].auth, y.org = req[p].org, y.x = req[p].x,
           StepOK(y), SparesOwner(y), SignIn(y, db'.members, left', proved')
    PROVE  Good(p)
  <1>1. ReqOK(req[p], db', left', proved', New')
    BY Kept
  <1>2. ReqOK(y, db', left', proved', New')
    BY <1>1, StaysOK
  <1> QED BY <1>2, Lands

LEMMA WritesMember ==
    ASSUME IInv, NEW p \in Procs, NEW role, NEW pc, role # 0,
           MemberWrite(p, UpsertMembership(db, req[p].org, req[p].user, role), pc),
           req[p].op # "idle", req[p].pc # "find", role = Owner \/ req[p].seen # {req[p].user},
           \/ pc = "done"
           \/ req[p].op = "accept" /\ pc = "mark"
           \/ req[p].op = "sso" /\ req[p].pc = "join" /\ pc = "issue"
    PROVE  Good(p)
  <1> DEFINE r == req[p]
             S == IF Overtaken(p) THEN {r.org} ELSE {}
             d == UpsertMembership(db, r.org, r.user, role)
  <1>1. /\ count' = count /\ scene' = scene /\ left' = left /\ proved' = proved /\ Excuse(S)
        /\ (db' = d /\ Goto(p, pc)) \/ (db' = db /\ Answer(p))
    BY DEF MemberWrite, Statement, Quiet
  <1>2. Overtaken(p) => r.org \in S
    OBVIOUS
  <1>3. ~Overtaken(p) => Owners(db, r.org) = r.seen
    BY DEF Overtaken
  <1> HIDE DEF S, d
  <1>4. CASE db' = db /\ Answer(p)
    <2>1. Foreign(db.members, db'.members, r.org)
      BY <1>4 DEF Foreign
    <2>2. OwnerRemains'
      BY <1>1, <1>4, <2>1, OwnerStays
    <2> QED BY <1>1, <1>4, <2>2, Refused
  <1>5. CASE db' = d /\ Goto(p, pc)
    <2> DEFINE y == IF pc = "done" THEN Blank ELSE Going(r, pc)
    <2>1. Turn(p, y)
      BY <1>1, <1>5, GotoTurn
    <2> HIDE DEF y
    <2>2. /\ Steps(r.org) /\ db'.org = db.org
          /\ Joined(db'.members, left', r.org, r.user)
          /\ Owners(db, r.org) \ {r.user} \subseteq Owners(db', r.org)
          /\ role = Owner => r.user \in Owners(db', r.org)
      BY <1>1, <1>5, <2>1, UpsertSteps DEF d
    <2>3. OwnerRemains'
      <3>1. Foreign(db.members, db'.members, r.org)
        BY <2>2 DEF Steps, MemStep
      <3>2. Owners(db', r.org) # {} \/ Owners(db, r.org) = {} \/ r.org \in S
        BY <1>2, <1>3, <2>2
      <3> QED BY <1>1, <2>2, <3>1, <3>2, OwnerStays
    <2>4. CASE pc = "done"
      BY <2>1, <2>2, <2>3, <2>4, Ends DEF y
    <2>5. CASE pc # "done"
      <3>1. y = Going(r, pc) /\ IsReq(r) /\ StepOK(r) /\ SignIn(r, db.members, left, proved)
        BY <2>5, Mine DEF y
      <3>2. IsReq(y) /\ y.pc = pc /\ \A f \in Fields \ {"pc"} : y[f] = r[f]
        BY <3>1, SetsPc
      <3>3. /\ y.op = r.op /\ y.auth = r.auth /\ y.org = r.org /\ y.x = r.x /\ y.conn = r.conn
            /\ y.subject = r.subject /\ y.user = r.user /\ y.role = r.role /\ y.seen = r.seen
        BY <3>2 DEF Fields
      <3>4. StepOK(y) /\ SparesOwner(y) /\ y.pc # "find"
        BY <2>5, <3>1, <3>2, <3>3 DEF StepOK, SparesOwner
      <3>5. SignIn(y, db'.members, left', proved')
        BY <1>1, <2>2, <2>5, <3>1, <3>2, <3>3 DEF SignIn
      <3> QED BY <2>1, <2>2, <2>3, <3>2, <3>3, <3>4, <3>5, Continues
    <2> QED BY <2>4, <2>5
  <1> QED BY <1>1, <1>4, <1>5

Blamed(p) == IF Overtaken(p) THEN {req[p].org} ELSE {}

LEMMA RemovalSpares ==
    ASSUME IInv, NEW p \in Procs, At(p, "remove", "write"), Excuse(Blamed(p)),
           db'.org = db.org, Foreign(db.members, db'.members, req[p].org),
           Owners(db, req[p].org) \ {req[p].user} \subseteq Owners(db', req[p].org)
    PROVE  OwnerRemains'
  <1>1. req[p].seen # {req[p].user}
    BY Mine DEF SparesOwner, At
  <1>2. Overtaken(p) => req[p].org \in Blamed(p)
    BY DEF Blamed
  <1>3. ~Overtaken(p) => Owners(db', req[p].org) # {} \/ Owners(db, req[p].org) = {}
    BY <1>1 DEF Overtaken
  <1> QED BY <1>2, <1>3, OwnerStays

LEMMA RemovesMember ==
    ASSUME IInv, NEW p \in Procs, At(p, "remove", "write"),
           db' = DeleteMembership(db, req[p].org, req[p].user), Answer(p),
           count' = count, scene' = scene, proved' = proved,
           Excuse(Blamed(p)),
           left' = left \union {<<req[p].org, req[p].user>>}
    PROVE  Good(p)
  <1> DEFINE o == req[p].org
             u == req[p].user
             out == {m \in db.members : ~(m.org = o /\ m.user = u)}
  <1>1. Turn(p, Blank)
    BY AnswerTurn
  <1>2. Others({"members"}) /\ db'.members = out
    BY Shape DEF Others, TableNames, DeleteMembership
  <1>3. Owners(db, o) \ {u} \subseteq Owners(db', o)
    BY <1>2 DEF Owners
  <1>4. MemStep(o)
    <2>1. MembersOK(db'.members)
      BY <1>2, Mine DEF MembersOK
    <2>2. \A m \in db.members : Joined(db'.members, left', m.org, m.user)
      BY <1>2 DEF Joined
    <2>3. Foreign(db.members, db'.members, o)
      BY <1>2 DEF Foreign
    <2> QED BY <2>1, <2>2, <2>3 DEF MemStep
  <1>5. /\ db'.org = db.org /\ db'.next = db.next /\ db'.invites = db.invites
        /\ db'.domains = db.domains /\ db'.conns = db.conns /\ db'.sessions = db.sessions
    BY <1>2 DEF Others, TableNames
  <1>6. Steps(o)
    <2>1. OrgStep(o) /\ InvStep(o) /\ DomStep(o) /\ ConnStep(o) /\ SesStep
      BY <1>1, <1>5, Unwritten
    <2> QED BY <1>2, <1>4, <2>1 DEF Steps, Others
  <1>7. OwnerRemains'
    <2>1. Foreign(db.members, db'.members, o)
      BY <1>4 DEF MemStep
    <2> QED BY <1>3, <1>5, <2>1, RemovalSpares
  <1> QED BY <1>1, <1>6, <1>7, Ends DEF At

(* The handlers of members. *)
LEMMA AddsMember ==
    ASSUME IInv, NEW p \in Procs, MembersCreate(p)
    PROVE  Good(p)
  <1>1. CASE \E u \in Users, role \in Grants :
               AuthMiddleware(p, "members", [Blank EXCEPT !.op = "add", !.user = u, !.role = role])
    <2>1. PICK u \in Users, role \in Grants : AuthMiddleware(p, "members", AskRole("add", u, role))
      BY <1>1 DEF AskRole
    <2> QED BY <2>1, Asks, LetIn
  <1>2. CASE /\ At(p, "add", "find")
             /\ Find(p, /\ req[p].role = Owner => IsOwner(req[p])
                        /\ req[p].user \in db.users
                        /\ RoleIn(db, Found(p), req[p].user) = 0,
                     [req[p] EXCEPT !.pc = "write", !.seen = Owners(db, Found(p))])
    BY <1>2, AddFinds
  <1>3. CASE /\ At(p, "add", "find") /\ Found(p) # NoOrg
             /\ req' = [req EXCEPT ![p].pc = "write", ![p].org = Found(p),
                                   ![p].seen = Owners(db, Found(p)) \ {req[p].user}]
             /\ db' = db /\ UNCHANGED <<count, scene>> /\ UNCHANGED ghosts
    BY <1>3, AddMisses
  <1>4. CASE /\ At(p, "add", "write")
             /\ MemberWrite(p, UpsertMembership(db, req[p].org, req[p].user, req[p].role), "done")
    <2>1. req[p].role # 0 /\ req[p].seen # {req[p].user}
      BY <1>4, Mine DEF At, StepOK, SparesOwner
    <2> QED BY <1>4, <2>1, WritesMember DEF At
  <1> QED BY <1>1, <1>2, <1>3, <1>4 DEF MembersCreate

LEMMA ChangesRole ==
    ASSUME IInv, NEW p \in Procs, MembersUpdate(p)
    PROVE  Good(p)
  <1>1. CASE \E u \in Users, role \in Grants :
               AuthMiddleware(p, "members", [Blank EXCEPT !.op = "role", !.user = u, !.role = role])
    <2>1. PICK u \in Users, role \in Grants : AuthMiddleware(p, "members", AskRole("role", u, role))
      BY <1>1 DEF AskRole
    <2> QED BY <2>1, Asks, LetIn
  <1>2. CASE LET r == req[p]
                 e == RoleIn(db, Found(p), r.user)
             IN  /\ At(p, "role", "find")
                 /\ Find(p, e # 0 /\ (Owner \in {e, r.role} => IsOwner(r)),
                         [r EXCEPT !.pc = IF e = Owner /\ r.role # Owner THEN "count" ELSE "write",
                                   !.seen = Owners(db, Found(p))])
    BY <1>2, RoleFinds
  <1>3. CASE /\ At(p, "role", "write")
             /\ MemberWrite(p, UpsertMembership(db, req[p].org, req[p].user, req[p].role), "done")
    <2>1. req[p].role # 0 /\ (req[p].role = Owner \/ req[p].seen # {req[p].user})
      BY <1>3, Mine DEF At, StepOK, SparesOwner
    <2> QED BY <1>3, <2>1, WritesMember DEF At
  <1> QED BY <1>1, <1>2, <1>3 DEF MembersUpdate

LEMMA DropsMember ==
    ASSUME IInv, NEW p \in Procs, MembersDestroy(p)
    PROVE  Good(p)
  <1>1. CASE \E u \in Users :
               AuthMiddleware(p, "members", [Blank EXCEPT !.op = "remove", !.user = u])
    <2>1. PICK u \in Users : AuthMiddleware(p, "members", AskUser("remove", u))
      BY <1>1 DEF AskUser
    <2> QED BY <2>1, Asks, LetIn
  <1>2. CASE LET r == req[p]
                 e == RoleIn(db, Found(p), r.user)
             IN  /\ At(p, "remove", "find")
                 /\ Find(p, e # 0 /\ (e = Owner => IsOwner(r)),
                         [r EXCEPT !.pc = IF e = Owner THEN "count" ELSE "write",
                                   !.seen = Owners(db, Found(p))])
    BY <1>2, RemoveFinds
  <1>3. CASE /\ At(p, "remove", "write")
             /\ db' = DeleteMembership(db, req[p].org, req[p].user) /\ Answer(p) /\ Quiet
             /\ Excuse(IF Overtaken(p) THEN {req[p].org} ELSE {})
             /\ left' = left \union {<<req[p].org, req[p].user>>}
             /\ UNCHANGED <<proved, asked>>
    BY <1>3, RemovesMember DEF Quiet, Blamed
  <1> QED BY <1>1, <1>2, <1>3 DEF MembersDestroy

(***************************************************************************)
(* Rows with an id: invitations, domains and connections                   *)
(***************************************************************************)
(* One row more, one less, one written. *)
Grown(rows, row)  == rows \union {row}
Without(rows, id) == {x \in rows : x.id # id}

LEMMA Grows ==
    ASSUME NEW rows, NEW row, NEW new, NEW new2, new2 \subseteq new, PrimaryKey(rows, new),
           row.id \in new, row.id \notin new2
    PROVE  /\ PrimaryKey(Grown(rows, row), new2)
           /\ KeepsRows(rows, Grown(rows, row), new)
           /\ Foreign(rows, Grown(rows, row), row.org)
  <1>1. \A x \in rows : x.id \notin new
    BY DEF PrimaryKey
  <1>2. \A x : x \in Grown(rows, row) <=> x \in rows \/ x = row
    BY DEF Grown
  <1>3. PrimaryKey(Grown(rows, row), new2)
    BY <1>1, <1>2 DEF PrimaryKey
  <1>4. KeepsRows(rows, Grown(rows, row), new)
    BY <1>2 DEF KeepsRows
  <1>5. Foreign(rows, Grown(rows, row), row.org)
    BY <1>2 DEF Foreign
  <1> QED BY <1>3, <1>4, <1>5

LEMMA Shrinks ==
    ASSUME NEW rows, NEW out, out \subseteq rows, NEW new, NEW new2, new2 \subseteq new,
           PrimaryKey(rows, new)
    PROVE  PrimaryKey(out, new2) /\ KeepsRows(rows, out, new)
  BY DEF PrimaryKey, KeepsRows

LEMMA InvitesShrink ==
    ASSUME NEW rows, NEW out, out \subseteq rows, NEW new, NEW new2, new2 \subseteq new,
           InvitesOK(rows, new)
    PROVE  InvitesOK(out, new2) /\ KeepsRows(rows, out, new)
  <1>1. PrimaryKey(out, new2) /\ KeepsRows(rows, out, new)
    BY Shrinks DEF InvitesOK
  <1> QED BY <1>1 DEF InvitesOK, Columns

LEMMA DomainsShrink ==
    ASSUME NEW rows, NEW out, out \subseteq rows, NEW new, NEW new2, new2 \subseteq new,
           DomainsOK(rows, new)
    PROVE  DomainsOK(out, new2) /\ KeepsRows(rows, out, new)
  <1>1. PrimaryKey(out, new2) /\ KeepsRows(rows, out, new)
    BY Shrinks DEF DomainsOK
  <1> QED BY <1>1 DEF DomainsOK, Columns

LEMMA ConnsShrink ==
    ASSUME NEW rows, NEW out, out \subseteq rows, NEW new, NEW new2, new2 \subseteq new,
           ConnsOK(rows, new)
    PROVE  ConnsOK(out, new2) /\ KeepsRows(rows, out, {10 + k : k \in new})
  <1> DEFINE T == {10 + k : k \in new}
             U == {10 + k : k \in new2}
  <1>1. U \subseteq T /\ PrimaryKey(rows, T)
    BY DEF ConnsOK
  <1> HIDE DEF T, U
  <1>2. PrimaryKey(out, U) /\ KeepsRows(rows, out, T)
    BY <1>1, Shrinks
  <1> QED BY <1>2 DEF ConnsOK, Columns, T, U

(* Every row is written to one of the same id and organization. *)
Rewritten(rows, out) ==
  /\ \A y \in out : \E x \in rows : y.id = x.id /\ y.org = x.org
  /\ \A x, y \in out : x.id = y.id => x = y

LEMMA Rewrites ==
    ASSUME NEW rows, NEW out, NEW new, NEW new2, new2 \subseteq new, PrimaryKey(rows, new),
           Rewritten(rows, out)
    PROVE  PrimaryKey(out, new2) /\ KeepsRows(rows, out, new)
  BY DEF PrimaryKey, KeepsRows, Rewritten

(* A statement about one table. *)
LEMMA OwnersKept ==
    ASSUME IInv, db'.org = db.org, db'.members = db.members, excused' = excused
    PROVE  OwnerRemains'
  BY DEF IInv, OwnerRemains, Owners

LEMMA OneTable ==
    ASSUME IInv, NEW p \in Procs, NEW y, Turn(p, y), NEW o, NEW t, Others({t}),
           excused' = excused, left' = left, proved \subseteq proved',
           \/ t = "invites" /\ InvStep(o)
           \/ t = "domains" /\ DomStep(o)
           \/ t = "conns" /\ ConnStep(o)
           \/ t \in {"users", "links", "tickets"}
    PROVE  Steps(o) /\ OwnerRemains'
  <1>1. /\ db'.org = db.org /\ db'.next = db.next /\ db'.members = db.members
        /\ db'.sessions = db.sessions
        /\ t # "invites" => db'.invites = db.invites
        /\ t # "domains" => db'.domains = db.domains
        /\ t # "conns" => db'.conns = db.conns
    BY DEF Others, TableNames
  <1>2. /\ OrgStep(o) /\ MemStep(o) /\ SesStep
        /\ t # "invites" => InvStep(o)
        /\ t # "domains" => DomStep(o)
        /\ t # "conns" => ConnStep(o)
    BY <1>1, Unwritten
  <1>3. Steps(o)
    BY <1>2 DEF Steps, Others
  <1> QED BY <1>1, <1>3, OwnersKept

LEMMA OwnNumber ==
    ASSUME IInv, NEW p \in Procs, req[p].op # "idle"
    PROVE  req[p].n \in New
  BY DEF New, Numbers

(***************************************************************************)
(* Invitations                                                             *)
(***************************************************************************)
LEMMA Invites ==
    ASSUME IInv, NEW p \in Procs, At(p, "invite", "write"),
           Answer(p), count' = count, scene' = scene, UNCHANGED ghosts,
           db' = CreateInvitation(db, [id |-> req[p].n, org |-> req[p].org, email |-> req[p].user,
                                       role |-> req[p].role, by |-> req[p].by.user,
                                       accepted |-> FALSE])
    PROVE  Good(p)
  <1> DEFINE r == req[p]
             row == [id |-> r.n, org |-> r.org, email |-> r.user, role |-> r.role,
                     by |-> r.by.user, accepted |-> FALSE]
             out == Grown(db.invites, row)
  <1>1. Turn(p, Blank)
    BY AnswerTurn
  <1>2. r.op # "idle" /\ r.pc # "find" /\ r.role # 0
    BY Mine DEF At, StepOK
  <1>3. r.n \in New /\ r.n \notin New' /\ New' \subseteq New
    BY <1>1, <1>2, OwnNumber, Turned
  <1>4. /\ row.id = r.n /\ row.org = r.org /\ row.role = r.role
        /\ row = [f \in {"id", "org", "email", "role", "by", "accepted"} |-> row[f]]
    OBVIOUS
  <1>5. Others({"invites"}) /\ db'.invites = out
    BY Shape DEF Others, TableNames, CreateInvitation, Grown
  <1> HIDE DEF row
  <1>6. InvitesOK(db.invites, New)
    BY DEF IInv, New, StoreOK
  <1>7. /\ PrimaryKey(out, New') /\ KeepsRows(db.invites, out, New)
        /\ Foreign(db.invites, out, r.org)
    BY <1>3, <1>4, <1>6, Grows DEF InvitesOK
  <1>8. InvitesOK(out, New')
    BY <1>2, <1>4, <1>6, <1>7 DEF InvitesOK, Columns, Grown
  <1> HIDE DEF out
  <1>9. InvStep(r.org)
    BY <1>5, <1>7, <1>8 DEF InvStep
  <1>10. Steps(r.org) /\ OwnerRemains'
    BY <1>1, <1>5, <1>9, OneTable DEF ghosts
  <1> QED BY <1>1, <1>2, <1>10, Ends

LEMMA Uninvites ==
    ASSUME IInv, NEW p \in Procs, At(p, "uninvite", "write"),
           Answer(p), count' = count, scene' = scene, UNCHANGED ghosts,
           db' = DeleteInvitation(db, req[p].org, req[p].x)
    PROVE  Good(p)
  <1> DEFINE o == req[p].org
             out == {i \in db.invites : ~(i.id = req[p].x /\ i.org = o)}
  <1>1. Turn(p, Blank) /\ New' \subseteq New
    BY AnswerTurn, Turned
  <1>2. Others({"invites"}) /\ db'.invites = out
    BY Shape DEF Others, TableNames, DeleteInvitation
  <1>3. out \subseteq db.invites /\ Foreign(db.invites, out, o)
    BY DEF Foreign
  <1> HIDE DEF out
  <1>4. InvitesOK(db.invites, New)
    BY DEF IInv, New, StoreOK
  <1>5. InvitesOK(out, New') /\ KeepsRows(db.invites, out, New)
    BY <1>1, <1>3, <1>4, InvitesShrink
  <1>6. InvStep(o)
    BY <1>2, <1>3, <1>5 DEF InvStep
  <1>7. Steps(o) /\ OwnerRemains'
    BY <1>1, <1>2, <1>6, OneTable DEF ghosts
  <1> QED BY <1>1, <1>7, Ends DEF At

(* The invitation is of the organization that is joined. *)
Marked(rows, id) == {IF i.id = id THEN [i EXCEPT !.accepted = TRUE] ELSE i : i \in rows}

LEMMA MarkKeeps ==
    ASSUME NEW rows, NEW id, NEW o, NEW new, NEW new2, new2 \subseteq new, InvitesOK(rows, new),
           Names(rows, id, o)
    PROVE  /\ InvitesOK(Marked(rows, id), new2) /\ KeepsRows(rows, Marked(rows, id), new)
           /\ Foreign(rows, Marked(rows, id), o)
  <1> DEFINE C == {"id", "org", "email", "role", "by", "accepted"}
             M(i) == IF i.id = id THEN [i EXCEPT !.accepted = TRUE] ELSE i
  <1>1. \A i \in rows : /\ M(i).id = i.id /\ M(i).org = i.org /\ M(i).role = i.role
                        /\ M(i) = [f \in C |-> M(i)[f]]
                        /\ i.id # id => M(i) = i
    <2>1. \A i \in rows : i = [f \in C |-> i[f]]
      BY DEF InvitesOK, Columns
    <2> TAKE i \in rows
    <2>2. CASE i.id # id
      BY <2>1, <2>2
    <2>3. CASE i.id = id
      <3>1. i = [f \in C |-> i[f]]
        BY <2>1
      <3>2. PICK j : j = [i EXCEPT !.accepted = TRUE]
        OBVIOUS
      <3>3. j = [f \in C |-> j[f]] /\ j.id = i.id /\ j.org = i.org /\ j.role = i.role
        BY <3>1, <3>2
      <3> QED BY <2>3, <3>2, <3>3
    <2> QED BY <2>2, <2>3
  <1>2. Marked(rows, id) = {M(i) : i \in rows}
    BY DEF Marked
  <1> HIDE DEF M
  <1>3. PICK out : out = Marked(rows, id)
    OBVIOUS
  <1>4. \A y : y \in out <=> \E i \in rows : y = M(i)
    BY <1>2, <1>3
  <1>5. PrimaryKey(rows, new)
    BY DEF InvitesOK
  <1>6. PrimaryKey(out, new2) /\ KeepsRows(rows, out, new)
    <2>1. \A y \in out : \E x \in rows : y.id = x.id /\ y.org = x.org
      BY <1>1, <1>4
    <2>2. \A x, y \in out : x.id = y.id => x = y
      BY <1>1, <1>4, <1>5 DEF PrimaryKey
    <2>3. Rewritten(rows, out)
      BY <2>1, <2>2 DEF Rewritten
    <2> QED BY <1>5, <2>3, Rewrites
  <1>7. InvitesOK(out, new2)
    <2>1. \A i \in out : i.role # 0 /\ i = [f \in C |-> i[f]]
      BY <1>1, <1>4 DEF InvitesOK
    <2> QED BY <1>6, <2>1 DEF InvitesOK, Columns
  <1>8. Foreign(rows, out, o)
    <2>1. ASSUME NEW y, y.org # o, y \in out
          PROVE  y \in rows
      BY <1>1, <1>4, <2>1 DEF Names
    <2>2. ASSUME NEW y, y.org # o, y \in rows
          PROVE  y \in out
      BY <1>1, <1>4, <2>2 DEF Names
    <2> QED BY <2>1, <2>2 DEF Foreign
  <1> QED BY <1>3, <1>6, <1>7, <1>8

LEMMA Marks ==
    ASSUME IInv, NEW p \in Procs, At(p, "accept", "mark"),
           Goto(p, IF req[p].made THEN "issue" ELSE "done"),
           count' = count, scene' = scene, UNCHANGED ghosts,
           db' = MarkInvitationAccepted(db, req[p].x)
    PROVE  Good(p)
  <1> DEFINE r == req[p]
             out == Marked(db.invites, r.x)
             y == IF r.made THEN Going(r, "issue") ELSE Blank
  <1>1. r.op = "accept" /\ r.pc = "mark" /\ IsReq(r) /\ StepOK(r) /\ OwnRow(r, db, New)
    BY Mine DEF At
  <1>2. Turn(p, y)
    <2>1. CASE r.made
      BY <1>1, <2>1, GotoTurn
    <2>2. CASE ~r.made
      BY <1>1, <2>2, GotoTurn
    <2> QED BY <2>1, <2>2
  <1>3. Others({"invites"}) /\ db'.invites = out
    BY Shape DEF Others, TableNames, MarkInvitationAccepted, Marked
  <1> HIDE DEF out, y
  <1>4. New' \subseteq New
    BY <1>2, Turned
  <1>5. InvitesOK(db.invites, New) /\ Names(db.invites, r.x, r.org)
    BY <1>1 DEF IInv, New, StoreOK, OwnRow
  <1>6. InvStep(r.org)
    BY <1>3, <1>4, <1>5, MarkKeeps DEF InvStep, out
  <1>7. Steps(r.org) /\ OwnerRemains'
    BY <1>2, <1>3, <1>6, OneTable DEF ghosts
  <1>8. CASE ~r.made
    BY <1>1, <1>2, <1>7, <1>8, Ends DEF y
  <1>9. CASE r.made
    <2>1. IsReq(y) /\ y.pc = "issue" /\ \A f \in Fields \ {"pc"} : y[f] = r[f]
      BY <1>1, <1>9, SetsPc DEF y
    <2>2. /\ y.op = r.op /\ y.auth = r.auth /\ y.org = r.org /\ y.x = r.x /\ y.role = r.role
      BY <2>1 DEF Fields
    <2>3. StepOK(y) /\ SparesOwner(y) /\ SignIn(y, db'.members, left', proved')
      BY <1>1, <2>1, <2>2 DEF StepOK, SparesOwner, SignIn
    <2> QED BY <1>1, <1>2, <1>7, <2>1, <2>2, <2>3, Continues
  <1> QED BY <1>8, <1>9

(* A request that begins. *)
LEMMA Enters ==
    ASSUME IInv, NEW p \in Procs, NEW r, IsReq(r), r.op # "idle", Enter(p, r)
    PROVE  /\ req[p].op = "idle"
           /\ \E y : /\ Turn(p, y) /\ IsReq(y) /\ y.n = count + 1
                     /\ \A f \in Fields \ {"n"} : y[f] = r[f]
  <1> DEFINE y == [r EXCEPT !.n = count + 1]
  <1>1. Turn(p, y) /\ req[p].op = "idle"
    BY EnterTurn
  <1>2. IsReq(y) /\ y.n = count + 1 /\ \A f \in Fields \ {"n"} : y[f] = r[f]
    BY DEF IsReq, Fields
  <1> QED BY <1>1, <1>2

Accepting(i, pc, seen) ==
  [Blank EXCEPT !.op = "accept", !.pc = pc, !.user = i.email, !.role = i.role, !.org = i.org,
                !.auth = i.org, !.x = i.id, !.seen = seen]

LEMMA AcceptFields ==
    ASSUME NEW i, NEW pc, NEW seen
    PROVE  LET r == Accepting(i, pc, seen) IN
           /\ IsReq(r) /\ r.op = "accept" /\ r.pc = pc /\ r.user = i.email /\ r.role = i.role
           /\ r.org = i.org /\ r.auth = i.org /\ r.x = i.id /\ r.seen = seen
  <1> DEFINE r == Accepting(i, pc, seen)
  <1>1. IsReq(r)
    BY BlankFields DEF IsReq, Fields, Accepting
  <1>2. r.op = "accept" /\ r.pc = pc /\ r.user = i.email /\ r.role = i.role
    BY BlankFields DEF IsReq, Fields, Accepting
  <1>3. r.org = i.org /\ r.auth = i.org /\ r.x = i.id /\ r.seen = seen
    BY BlankFields DEF IsReq, Fields, Accepting
  <1> QED BY <1>1, <1>2, <1>3

LEMMA AcceptsInvitation ==
    ASSUME IInv, NEW p \in Procs, NEW i \in db.invites, NEW pc \in {"join", "create"},
           Enter(p, Accepting(i, pc, Owners(db, i.org) \ {i.email})), db' = db, UNCHANGED ghosts
    PROVE  Good(p)
  <1> DEFINE s == Owners(db, i.org) \ {i.email}
             r == Accepting(i, pc, s)
  <1>1. /\ IsReq(r) /\ r.op = "accept" /\ r.pc = pc /\ r.user = i.email /\ r.role = i.role
        /\ r.org = i.org /\ r.auth = i.org /\ r.x = i.id /\ r.seen = s
    BY AcceptFields
  <1>2. s # {i.email} /\ Enter(p, r)
    OBVIOUS
  <1> HIDE DEF r, s
  <1>3. PICK y : Turn(p, y) /\ IsReq(y) /\ \A f \in Fields \ {"n"} : y[f] = r[f]
    BY <1>1, <1>2, Enters
  <1>4. /\ y.op = "accept" /\ y.pc = pc /\ y.user = i.email /\ y.role = i.role
        /\ y.org = i.org /\ y.auth = i.org /\ y.x = i.id /\ y.seen = s
    BY <1>1, <1>3 DEF Fields
  <1>5. i.role # 0 /\ i.id \notin New /\ Names(db.invites, i.id, i.org)
    BY OldRows DEF IInv, StoreOK, InvitesOK, PrimaryKey, Names
  <1>6. StepOK(y) /\ SparesOwner(y) /\ SignIn(y, db.members, left, proved)
    BY <1>2, <1>4, <1>5 DEF StepOK, SparesOwner, SignIn
  <1>7. InScope(y, db) /\ OwnRow(y, db, New)
    BY <1>4, <1>5 DEF InScope, OwnRow
  <1>8. ReqOK(y, db, left, proved, New)
    BY <1>3, <1>6, <1>7 DEF ReqOK, IsReq
  <1> QED BY <1>3, <1>8, Reads

(* The handlers of invitations. *)
LEMMA CreatesInvitation ==
    ASSUME IInv, NEW p \in Procs, InvitationsCreate(p)
    PROVE  Good(p)
  <1>1. CASE \E u \in Users, role \in Grants :
               AuthMiddleware(p, "invitations",
                              [Blank EXCEPT !.op = "invite", !.user = u, !.role = role])
    <2>1. PICK u \in Users, role \in Grants :
            AuthMiddleware(p, "invitations", AskRole("invite", u, role))
      BY <1>1 DEF AskRole
    <2> QED BY <2>1, Asks, LetIn
  <1>2. CASE /\ At(p, "invite", "find")
             /\ Find(p, /\ req[p].role = Owner => IsOwner(req[p])
                        /\ RoleIn(db, Found(p), req[p].user) = 0, [req[p] EXCEPT !.pc = "write"])
    <2>1. Went(p, Going(req[p], "write"))
      BY <1>2 DEF Find, Found, Went, Going, Quiet
    <2> QED BY <1>2, <2>1, PlainGoes DEF At
  <1>3. CASE LET r == req[p] IN
             /\ At(p, "invite", "write")
             /\ Statement(p, Live(db, r.org) /\ r.by.user \in db.users,
                          CreateInvitation(db, [id |-> r.n, org |-> r.org, email |-> r.user,
                                                role |-> r.role, by |-> r.by.user,
                                                accepted |-> FALSE]), "done")
             /\ UNCHANGED ghosts
    <2>1. /\ count' = count /\ scene' = scene /\ Answer(p)
          /\ \/ db' = db
             \/ db' = CreateInvitation(db, [id |-> req[p].n, org |-> req[p].org,
                                            email |-> req[p].user, role |-> req[p].role,
                                            by |-> req[p].by.user, accepted |-> FALSE])
      BY <1>3 DEF Statement, Quiet, Goto
    <2> QED BY <1>3, <2>1, Invites, Answers
  <1> QED BY <1>1, <1>2, <1>3 DEF InvitationsCreate

LEMMA DeletesInvitation ==
    ASSUME IInv, NEW p \in Procs, InvitationsDestroy(p)
    PROVE  Good(p)
  <1>1. CASE \E i \in db.invites :
               AuthMiddleware(p, "invitations", [Blank EXCEPT !.op = "uninvite", !.x = i.id])
    <2>1. PICK i \in db.invites : AuthMiddleware(p, "invitations", AskRow("uninvite", i.id))
      BY <1>1 DEF AskRow
    <2> QED BY <2>1, Asks, LetIn
  <1>2. CASE At(p, "uninvite", "find") /\ Find(p, TRUE, [req[p] EXCEPT !.pc = "write"])
    <2>1. Went(p, Going(req[p], "write"))
      BY <1>2 DEF Find, Found, Went, Going, Quiet
    <2> QED BY <1>2, <2>1, PlainGoes DEF At
  <1>3. CASE /\ At(p, "uninvite", "write")
             /\ db' = DeleteInvitation(db, req[p].org, req[p].x)
             /\ Answer(p) /\ Quiet /\ UNCHANGED ghosts
    BY <1>3, Uninvites DEF Quiet
  <1> QED BY <1>1, <1>2, <1>3 DEF InvitationsDestroy

LEMMA HandlesAcceptance ==
    ASSUME IInv, NEW p \in Procs, InvitationAccept(p)
    PROVE  Good(p)
  <1>1. CASE \E i \in db.invites :
               /\ ~i.accepted
               /\ Enter(p, [Blank EXCEPT !.op = "accept",
                                         !.pc = IF i.email \in db.users THEN "join" ELSE "create",
                                         !.user = i.email, !.role = i.role, !.org = i.org,
                                         !.auth = i.org, !.x = i.id,
                                         !.seen = Owners(db, i.org) \ {i.email}])
               /\ db' = db /\ UNCHANGED ghosts
    <2>1. PICK i \in db.invites :
            /\ Enter(p, Accepting(i, IF i.email \in db.users THEN "join" ELSE "create",
                                  Owners(db, i.org) \ {i.email}))
            /\ db' = db /\ UNCHANGED ghosts
      BY <1>1 DEF Accepting
    <2>2. PICK pc \in {"join", "create"} :
            pc = IF i.email \in db.users THEN "join" ELSE "create"
      OBVIOUS
    <2>3. Enter(p, Accepting(i, pc, Owners(db, i.org) \ {i.email}))
      BY <2>1, <2>2
    <2> QED BY <2>1, <2>3, AcceptsInvitation
  <1>2. CASE /\ At(p, "accept", "join")
             /\ MemberWrite(p, UpsertMembership(db, req[p].org, req[p].user, req[p].role), "mark")
    <2>1. req[p].role # 0 /\ req[p].seen # {req[p].user}
      BY <1>2, Mine DEF At, StepOK, SparesOwner
    <2> QED BY <1>2, <2>1, WritesMember DEF At
  <1>3. CASE /\ At(p, "accept", "mark")
             /\ db' = MarkInvitationAccepted(db, req[p].x)
             /\ Goto(p, IF req[p].made THEN "issue" ELSE "done") /\ Quiet /\ UNCHANGED ghosts
    BY <1>3, Marks DEF Quiet
  <1> QED BY <1>1, <1>2, <1>3 DEF InvitationAccept

(* A new account, for an invitation or a sign-in. *)
Made(r, pc) == [r EXCEPT !.made = TRUE, !.pc = pc]

LEMMA SetsMade ==
    ASSUME NEW r, IsReq(r), NEW pc
    PROVE  /\ IsReq(Made(r, pc)) /\ Made(r, pc).pc = pc
           /\ \A f \in Fields \ {"made", "pc"} : Made(r, pc)[f] = r[f]
  BY DEF IsReq, Fields, Made

LEMMA CreatesAccount ==
    ASSUME IInv, NEW p \in Procs, CreateAccount(p)
    PROVE  Good(p)
  <1> DEFINE r == req[p]
             pc == IF r.op = "accept" THEN "join" ELSE "link"
             y == Made(r, pc)
  <1>1. /\ r.pc = "create" /\ count' = count /\ scene' = scene /\ UNCHANGED ghosts
        /\ \/ db' = db /\ Answer(p)
           \/ /\ db' = [db EXCEPT !.users = @ \union {r.user}]
              /\ req' = [req EXCEPT ![p] = y]
    BY DEF CreateAccount, Quiet, Made
  <1>2. CASE db' = db /\ Answer(p)
    BY <1>1, <1>2, Answers
  <1>3. CASE db' = [db EXCEPT !.users = @ \union {r.user}] /\ req' = [req EXCEPT ![p] = y]
    <2>1. IsReq(r) /\ r.op \in {"accept", "sso"} /\ StepOK(r) /\ SparesOwner(r)
          /\ SignIn(r, db.members, left, proved)
      BY <1>1, Mine DEF StepOK
    <2>2. IsReq(y) /\ y.pc = pc /\ \A f \in Fields \ {"made", "pc"} : y[f] = r[f]
      BY <2>1, SetsMade
    <2>3. pc = IF r.op = "accept" THEN "join" ELSE "link"
      OBVIOUS
    <2> HIDE DEF y, pc
    <2>4. /\ y.op = r.op /\ y.n = r.n /\ y.auth = r.auth /\ y.org = r.org /\ y.x = r.x
          /\ y.conn = r.conn /\ y.subject = r.subject /\ y.user = r.user /\ y.role = r.role
          /\ y.seen = r.seen
      BY <2>2 DEF Fields
    <2>5. Turn(p, y)
      BY <1>1, <1>3, <2>1, <2>4 DEF Turn, TurnOf
    <2>6. Others({"users"})
      BY <1>3, Shape DEF Others, TableNames
    <2>7. Steps(r.org) /\ OwnerRemains'
      BY <1>1, <2>5, <2>6, OneTable DEF ghosts
    <2>8. db'.members = db.members /\ left' = left /\ proved' = proved
      BY <1>1, <2>6 DEF Others, TableNames, ghosts
    <2>9. StepOK(y) /\ SparesOwner(y) /\ y.pc # "find"
      BY <1>1, <2>1, <2>2, <2>3, <2>4 DEF StepOK, SparesOwner
    <2>10. SignIn(y, db'.members, left', proved')
      BY <1>1, <2>1, <2>2, <2>3, <2>4, <2>8 DEF SignIn
    <2> QED BY <1>1, <2>1, <2>2, <2>4, <2>5, <2>7, <2>9, <2>10, Continues
  <1> QED BY <1>1, <1>2, <1>3

(***************************************************************************)
(* Organizations                                                           *)
(***************************************************************************)
Founding(c, pc, l, o) ==
  [Blank EXCEPT !.op = "found", !.pc = pc, !.by = c, !.user = c.user, !.role = Owner, !.link = l,
                !.org = o, !.auth = o]

LEMMA FoundFields ==
    ASSUME NEW c, NEW pc, NEW l, NEW o
    PROVE  LET r == Founding(c, pc, l, o) IN
           IsReq(r) /\ r.op = "found" /\ r.pc = pc /\ r.org = o /\ r.auth = o
  <1> DEFINE r == Founding(c, pc, l, o)
  <1>1. IsReq(r)
    BY BlankFields DEF IsReq, Fields, Founding
  <1>2. r.op = "found" /\ r.pc = pc
    BY BlankFields DEF IsReq, Fields, Founding
  <1>3. r.org = o /\ r.auth = o
    BY BlankFields DEF IsReq, Fields, Founding
  <1> QED BY <1>1, <1>2, <1>3

(* A new organization has a number of its own. *)
LEMMA NewOrganization ==
    ASSUME NEW org, NEW next, OrgsOK(org, next), NEW l \in Permalinks, NEW out,
           out = [org EXCEPT ![l] = NewRow(next)]
    PROVE  OrgsOK(out, next + 1)
  <1>1. /\ next \in Nat \ {0} /\ out = [k \in Permalinks |-> out[k]]
        /\ \A k \in Permalinks : out[k] = IF k = l THEN NewRow(next) ELSE org[k]
    BY DEF OrgsOK
  <1>2. /\ NewRow(next).id = next
        /\ NewRow(next) = [f \in {"id", "tfa", "limit", "suspended", "customer"} |-> NewRow(next)[f]]
    BY DEF NewRow
  <1>3. ASSUME NEW k \in Permalinks
        PROVE  /\ out[k] = [f \in {"id", "tfa", "limit", "suspended", "customer"} |-> out[k][f]]
               /\ out[k].id \in 0..next
    BY <1>1, <1>2 DEF OrgsOK
  <1>6. out[l].id = next /\ \A k \in Permalinks : k # l => out[k].id \in 0..(next - 1)
    BY <1>1, <1>2 DEF OrgsOK
  <1>4. ASSUME NEW j \in Permalinks, NEW k \in Permalinks, out[j].id = out[k].id, out[k].id # NoOrg
        PROVE  j = k
    <2>1. next \notin 0..(next - 1)
      BY <1>1
    <2>2. CASE j = l
      BY <1>4, <1>6, <2>1, <2>2
    <2>3. CASE k = l
      BY <1>4, <1>6, <2>1, <2>3
    <2>4. CASE j # l /\ k # l
      BY <1>1, <1>4, <2>4 DEF OrgsOK
    <2> QED BY <2>2, <2>3, <2>4
  <1>5. next + 1 \in Nat \ {0} /\ 0..next = 0..((next + 1) - 1)
    BY <1>1
  <1> QED BY <1>1, <1>3, <1>4, <1>5 DEF OrgsOK

LEMMA Founds ==
    ASSUME IInv, NEW p \in Procs, NEW c, NEW l \in Permalinks, NEW pc \in {"join", "done"},
           db.org[l] = NoRow, Enter(p, Founding(c, pc, l, db.next)),
           db' = [CreateOrganization(db, l, db.next) EXCEPT !.next = @ + 1],
           Excuse({db.next}), UNCHANGED <<left, proved, asked>>
    PROVE  Good(p)
  <1> DEFINE o == db.next
             r == Founding(c, pc, l, o)
  <1>1. IsReq(r) /\ r.op = "found" /\ r.pc = pc /\ r.org = o /\ r.auth = o
    BY FoundFields
  <1>2. Enter(p, r)
    OBVIOUS
  <1> HIDE DEF r
  <1>3. PICK y : Turn(p, y) /\ IsReq(y) /\ \A f \in Fields \ {"n"} : y[f] = r[f]
    BY <1>1, <1>2, Enters
  <1>4. req[p].op = "idle"
    BY <1>1, <1>2, Enters
  <1>5. y.op = "found" /\ y.pc = pc /\ y.org = o /\ y.auth = o
    BY <1>1, <1>3 DEF Fields
  <1>6. /\ Others({"org", "next"}) /\ db'.org = [db.org EXCEPT ![l] = NewRow(o)]
        /\ db'.next = o + 1
    BY Shape DEF Others, TableNames, CreateOrganization
  <1>7. OrgsOK(db.org, o) /\ OrgsOK(db'.org, db'.next) /\ o \in Nat \ {0}
    <2>1. OrgsOK(db.org, o)
      BY Shape
    <2>2. o \in Nat \ {0}
      BY <2>1 DEF OrgsOK
    <2> QED BY <1>6, <2>1, <2>2, NewOrganization
  <1>8. /\ db'.org[l].id = o /\ db.org[l].id = NoOrg
        /\ \A k \in Permalinks : k # l => db'.org[k] = db.org[k]
    BY <1>6, <1>7 DEF OrgsOK, NewRow, NoRow
  <1>9. OrgStep(o)
    <2>1. KeepsOrgs(db, db')
      BY <1>6, <1>7, <1>8 DEF KeepsOrgs
    <2>2. ASSUME NEW q, NEW k \in Permalinks, q \notin {o, NoOrg},
                 db.org[k].id = q \/ db'.org[k].id = q
          PROVE  db'.org[k] = db.org[k]
      BY <1>8, <2>2
    <2> QED BY <1>7, <2>1, <2>2 DEF OrgStep
  <1>10. /\ db'.members = db.members /\ db'.invites = db.invites /\ db'.domains = db.domains
         /\ db'.conns = db.conns /\ db'.sessions = db.sessions
    BY <1>6 DEF Others, TableNames
  <1>11. Steps(o)
    <2>1. MemStep(o) /\ InvStep(o) /\ DomStep(o) /\ ConnStep(o) /\ SesStep
      BY <1>3, <1>10, Unwritten
    <2> QED BY <1>6, <1>9, <2>1 DEF Steps, Others
  <1>12. OwnerRemains'
    <2>1. \A q : Owners(db', q) = Owners(db, q)
      BY <1>10 DEF Owners
    <2> SUFFICES ASSUME NEW k \in Permalinks, db'.org[k].id # NoOrg, Owners(db', db'.org[k].id) = {}
                 PROVE  db'.org[k].id \in excused'
      BY DEF OwnerRemains
    <2>2. db'.org[k].id \in excused \union {o}
      BY <1>8, <2>1 DEF IInv, OwnerRemains
    <2> QED BY <2>2 DEF Excuse
  <1>13. ReqOK(y, db', left', proved', New')
    <2>1. StepOK(y) /\ SparesOwner(y) /\ SignIn(y, db'.members, left', proved')
      BY <1>5 DEF StepOK, SparesOwner, SignIn
    <2>2. InScope(y, db') /\ OwnRow(y, db', New')
      BY <1>5 DEF InScope, OwnRow
    <2> QED BY <1>3, <2>1, <2>2 DEF ReqOK, IsReq
  <1> QED BY <1>3, <1>4, <1>11, <1>12, <1>13, Lands

(* The row of an organization is written. *)
IsRow(row, o) ==
  row.id = o /\ row = [f \in {"id", "tfa", "limit", "suspended", "customer"} |-> row[f]]

LEMMA RowStays ==
    ASSUME NEW row, NEW o, IsRow(row, o), NEW a, NEW b
    PROVE  /\ IsRow([row EXCEPT !.tfa = a], o)
           /\ IsRow([row EXCEPT !.limit = a, !.suspended = b], o)
           /\ IsRow([row EXCEPT !.customer = a], o)
  <1>1. IsRow([row EXCEPT !.tfa = a], o)
    BY DEF IsRow
  <1>2. IsRow([row EXCEPT !.limit = a, !.suspended = b], o)
    BY DEF IsRow
  <1>3. IsRow([row EXCEPT !.customer = a], o)
    BY DEF IsRow
  <1> QED BY <1>1, <1>2, <1>3

LEMMA RowIs ==
    ASSUME IInv, NEW o, Live(db, o)
    PROVE  /\ IsRow(RowOf(db, o), o)
           /\ \E l \in Permalinks : db.org[l].id = o /\ o # NoOrg /\ LinkOf(db, o) = l
  <1>1. PICK l \in Permalinks : db.org[l].id = o /\ o # NoOrg
    BY DEF Live
  <1>2. LinkOf(db, o) = l /\ RowOf(db, o) = db.org[l]
    BY <1>1, Shape, LinkIs
  <1>3. IsRow(db.org[l], o)
    BY <1>1, Shape DEF OrgsOK, IsRow
  <1> QED BY <1>1, <1>2, <1>3

LEMMA SetsRow ==
    ASSUME IInv, NEW p \in Procs, NEW y, Turn(p, y), NEW o, NEW row,
           Live(db, o) => IsRow(row, o), db' = SetRow(db, o, row),
           excused' = excused, left' = left, proved' = proved
    PROVE  Steps(o) /\ OwnerRemains'
  <1>1. CASE ~Live(db, o)
    <2>1. db' = db
      BY <1>1 DEF SetRow
    <2> QED BY <2>1, NothingWritten, OwnersKept
  <1>2. CASE Live(db, o)
    <2>1. PICK l \in Permalinks : db.org[l].id = o /\ o # NoOrg /\ LinkOf(db, o) = l
      BY <1>2, RowIs
    <2>2. Others({"org"}) /\ db'.org = [db.org EXCEPT ![l] = row]
      BY <1>2, <2>1, Shape DEF SetRow, Others, TableNames
    <2>3. /\ OrgsOK(db.org, db.next) /\ IsRow(row, o)
          /\ db'.org = [k \in Permalinks |-> db'.org[k]]
          /\ \A k \in Permalinks : db'.org[k] = IF k = l THEN row ELSE db.org[k]
      BY <1>2, <2>2, Shape DEF OrgsOK
    <2>4. \A k \in Permalinks : db'.org[k].id = db.org[k].id
      BY <2>1, <2>3 DEF IsRow
    <2>5. /\ db'.next = db.next /\ db'.members = db.members /\ db'.invites = db.invites
          /\ db'.domains = db.domains /\ db'.conns = db.conns /\ db'.sessions = db.sessions
      BY <2>2 DEF Others, TableNames
    <2>6. OrgsOK(db'.org, db'.next)
      <3>1. ASSUME NEW k \in Permalinks
            PROVE  db'.org[k] = [f \in {"id", "tfa", "limit", "suspended", "customer"} |->
                                   db'.org[k][f]]
        BY <2>3 DEF IsRow, OrgsOK
      <3>2. /\ db'.next \in Nat \ {0}
            /\ \A k \in Permalinks : db'.org[k].id \in 0..(db'.next - 1)
            /\ \A j, k \in Permalinks : db'.org[j].id = db'.org[k].id /\ db'.org[k].id # NoOrg => j = k
        <4>1. /\ db.next \in Nat \ {0}
              /\ \A k \in Permalinks : db.org[k].id \in 0..(db.next - 1)
              /\ \A j, k \in Permalinks : db.org[j].id = db.org[k].id /\ db.org[k].id # NoOrg => j = k
          BY Shape DEF OrgsOK
        <4> QED BY <2>4, <2>5, <4>1
      <3> QED BY <2>3, <3>1, <3>2 DEF OrgsOK
    <2>7. OrgStep(o)
      <3>1. KeepsOrgs(db, db')
        BY <2>3, <2>4, <2>5 DEF KeepsOrgs, OrgsOK
      <3>2. \A k \in Permalinks : db.org[k].id # o => db'.org[k] = db.org[k]
        BY <2>1, <2>3
      <3> QED BY <2>4, <2>6, <3>1, <3>2 DEF OrgStep
    <2>8. Steps(o)
      <3>1. MemStep(o) /\ InvStep(o) /\ DomStep(o) /\ ConnStep(o) /\ SesStep
        BY <2>5, Unwritten
      <3> QED BY <2>2, <2>7, <3>1 DEF Steps, Others
    <2>9. OwnerRemains'
      BY <2>4, <2>5 DEF IInv, OwnerRemains, Owners
    <2> QED BY <2>8, <2>9
  <1> QED BY <1>1, <1>2

LEMMA HandlesFounding ==
    ASSUME IInv, NEW p \in Procs, OrganizationsCreate(p)
    PROVE  Good(p)
  <1>1. CASE \E c \in scene.callers, l \in Permalinks :
               /\ db.org[l] = NoRow /\ (c.kind = "key" => IsRoot(c))
               /\ c.kind = "user" => c.user \in db.users
               /\ Enter(p, [Blank EXCEPT !.op = "found",
                                         !.pc = IF c.kind = "key" THEN "done" ELSE "join",
                                         !.by = c, !.user = c.user, !.role = Owner, !.link = l,
                                         !.org = db.next, !.auth = db.next])
               /\ db' = [CreateOrganization(db, l, db.next) EXCEPT !.next = @ + 1]
               /\ Excuse({db.next}) /\ UNCHANGED <<left, proved, asked>>
    <2>1. PICK c \in scene.callers, l \in Permalinks :
            /\ db.org[l] = NoRow
            /\ Enter(p, Founding(c, IF c.kind = "key" THEN "done" ELSE "join", l, db.next))
            /\ db' = [CreateOrganization(db, l, db.next) EXCEPT !.next = @ + 1]
            /\ Excuse({db.next}) /\ UNCHANGED <<left, proved, asked>>
      BY <1>1 DEF Founding
    <2>2. PICK pc \in {"join", "done"} : pc = IF c.kind = "key" THEN "done" ELSE "join"
      OBVIOUS
    <2>3. Enter(p, Founding(c, pc, l, db.next))
      BY <2>1, <2>2
    <2> QED BY <2>1, <2>3, Founds
  <1>2. CASE /\ At(p, "found", "join")
             /\ MemberWrite(p, UpsertMembership(db, req[p].org, req[p].user, Owner), "done")
    <2>1. Owner # 0
      BY DEF Owner
    <2> QED BY <1>2, <2>1, WritesMember DEF At
  <1>3. CASE At(p, "found", "done") /\ Answer(p) /\ db' = db /\ Quiet /\ UNCHANGED ghosts
    BY <1>3, Answers DEF Quiet
  <1> QED BY <1>1, <1>2, <1>3 DEF OrganizationsCreate

LEMMA UpdatesOrganization ==
    ASSUME IInv, NEW p \in Procs, OrganizationsUpdate(p)
    PROVE  Good(p)
  <1>1. CASE \E on \in 0..1 :
               AuthMiddleware(p, "organization", [Blank EXCEPT !.op = "tfa", !.x = on])
    <2>1. PICK on \in 0..1 : AuthMiddleware(p, "organization", AskRow("tfa", on))
      BY <1>1 DEF AskRow
    <2> QED BY <2>1, Asks, LetIn
  <1>2. CASE At(p, "tfa", "find") /\ Find(p, TRUE, [req[p] EXCEPT !.pc = "write"])
    <2>1. Went(p, Going(req[p], "write"))
      BY <1>2 DEF Find, Found, Went, Going, Quiet
    <2> QED BY <1>2, <2>1, PlainGoes DEF At
  <1>3. CASE /\ At(p, "tfa", "write")
             /\ db' = UpdateOrganization(db, req[p].org, req[p].x = 1)
             /\ Answer(p) /\ Quiet /\ UNCHANGED ghosts
    <2> DEFINE o == req[p].org
               row == [RowOf(db, o) EXCEPT !.tfa = req[p].x = 1]
    <2>1. Turn(p, Blank)
      BY <1>3, AnswerTurn DEF Quiet
    <2>2. Live(db, o) => IsRow(row, o)
      <3>1. PICK b : b = (req[p].x = 1)
        OBVIOUS
      <3>2. row = [RowOf(db, o) EXCEPT !.tfa = b]
        BY <3>1
      <3> QED BY <3>2, RowIs, RowStays
    <2>3. db' = SetRow(db, o, row)
      BY <1>3 DEF UpdateOrganization
    <2> HIDE DEF row
    <2>4. Steps(o) /\ OwnerRemains'
      BY <1>3, <2>1, <2>2, <2>3, SetsRow DEF ghosts
    <2> QED BY <1>3, <2>1, <2>4, Ends DEF At
  <1> QED BY <1>1, <1>2, <1>3 DEF OrganizationsUpdate

(* An organization goes, and its rows with it. *)
Razed(org, o) == [l \in Permalinks |-> IF org[l].id = o THEN NoRow ELSE org[l]]

LEMMA RazesRow ==
    ASSUME IInv, NEW o, db'.org = Razed(db.org, o), db'.next = db.next
    PROVE  OrgStep(o)
  <1> DEFINE C == {"id", "tfa", "limit", "suspended", "customer"}
  <1>1. NoRow = [f \in C |-> NoRow[f]] /\ NoRow.id = NoOrg
    BY DEF NoRow, NewRow
  <1>2. \A l \in Permalinks : db'.org[l] = db.org[l] \/ db'.org[l] = NoRow
    BY DEF Razed
  <1>3. \A l \in Permalinks : db.org[l].id # o => db'.org[l] = db.org[l]
    BY DEF Razed
  <1>4. db'.org = [l \in Permalinks |-> db'.org[l]]
    BY DEF Razed
  <1>5. /\ db.next \in Nat \ {0}
        /\ \A l \in Permalinks : db.org[l].id \in 0..(db.next - 1)
        /\ \A j, k \in Permalinks : db.org[j].id = db.org[k].id /\ db.org[k].id # NoOrg => j = k
    BY Shape DEF OrgsOK
  <1>6. \A l \in Permalinks : db'.org[l].id = NoOrg \/ db'.org[l].id = db.org[l].id
    BY <1>1, <1>2
  <1>7. OrgsOK(db'.org, db'.next)
    <2>1. \A l \in Permalinks : db.org[l] = [f \in C |-> db.org[l][f]]
      BY Shape DEF OrgsOK
    <2>2. ASSUME NEW l \in Permalinks
          PROVE  db'.org[l] = [f \in C |-> db'.org[l][f]]
      BY <1>1, <1>2, <2>1
    <2>3. \A l \in Permalinks : db'.org[l].id \in 0..(db.next - 1)
      BY <1>5, <1>6 DEF NoOrg
    <2>4. \A j, k \in Permalinks : db'.org[j].id = db'.org[k].id /\ db'.org[k].id # NoOrg => j = k
      BY <1>5, <1>6
    <2> QED BY <1>4, <1>5, <2>2, <2>3, <2>4 DEF OrgsOK
  <1>8. KeepsOrgs(db, db')
    BY <1>5, <1>6 DEF KeepsOrgs, NoOrg
  <1>9. ASSUME NEW q, NEW l \in Permalinks, q \notin {o, NoOrg},
               db.org[l].id = q \/ db'.org[l].id = q
        PROVE  db'.org[l] = db.org[l]
    BY <1>1, <1>2, <1>3, <1>9
  <1> QED BY <1>7, <1>8, <1>9 DEF OrgStep

(* Rows of one organization are removed from a table. *)
Purged(rows, o) == {x \in rows : x.org # o}

LEMMA Purges ==
    ASSUME NEW rows, NEW o
    PROVE  Purged(rows, o) \subseteq rows /\ Foreign(rows, Purged(rows, o), o)
  BY DEF Purged, Foreign

AllGone(rows, o, gone) == \A m \in rows : m.org = o => <<o, m.user>> \in gone

LEMMA PurgesMembers ==
    ASSUME NEW rows, MembersOK(rows), NEW o, NEW gone, AllGone(rows, o, gone)
    PROVE  /\ MembersOK(Purged(rows, o))
           /\ \A m \in rows : Joined(Purged(rows, o), gone, m.org, m.user)
  <1>1. MembersOK(Purged(rows, o))
    BY DEF Purged, MembersOK
  <1>2. ASSUME NEW m \in rows
        PROVE  Joined(Purged(rows, o), gone, m.org, m.user)
    <2>1. CASE m.org = o
      BY <2>1 DEF AllGone, Joined
    <2>2. CASE m.org # o
      <3>1. m \in Purged(rows, o)
        BY <2>2 DEF Purged
      <3> QED BY <3>1 DEF Joined
    <2> QED BY <2>1, <2>2
  <1> QED BY <1>1, <1>2

LEMMA Razes ==
    ASSUME IInv, NEW p \in Procs, At(p, "raze", "write"),
           db' = DeleteOrganization(db, req[p].org), Answer(p), count' = count, scene' = scene,
           left \subseteq left', AllGone(db.members, req[p].org, left'),
           UNCHANGED <<excused, proved>>
    PROVE  Good(p)
  <1> DEFINE o == req[p].org
  <1>1. Turn(p, Blank) /\ New' \subseteq New
    BY AnswerTurn, Turned
  <1>2. /\ Others({"org", "members", "invites", "domains", "conns"})
        /\ db'.org = Razed(db.org, o)
        /\ db'.members = Purged(db.members, o)
        /\ db'.invites = Purged(db.invites, o)
        /\ db'.domains = Purged(db.domains, o)
        /\ db'.conns = Purged(db.conns, o)
    BY Shape DEF Others, TableNames, DeleteOrganization, Purged, Razed
  <1>3. OrgStep(o)
    <2>1. db'.next = db.next
      BY <1>2 DEF Others, TableNames
    <2> QED BY <1>2, <2>1, RazesRow
  <1>4. MemStep(o)
    <2>1. MembersOK(db.members)
      BY Mine
    <2>2. /\ MembersOK(db'.members)
          /\ \A m \in db.members : Joined(db'.members, left', m.org, m.user)
      BY <1>2, <2>1, PurgesMembers
    <2>3. Foreign(db.members, db'.members, o)
      BY <1>2, Purges
    <2> QED BY <2>2, <2>3 DEF MemStep
  <1>5. /\ InvitesOK(db.invites, New) /\ DomainsOK(db.domains, New) /\ ConnsOK(db.conns, New)
        /\ Proven(db.domains, proved)
    BY DEF IInv, New, StoreOK
  <1>6. InvStep(o)
    <2>1. db'.invites \subseteq db.invites /\ Foreign(db.invites, db'.invites, o)
      BY <1>2, Purges
    <2> QED BY <1>1, <1>5, <2>1, InvitesShrink DEF InvStep
  <1>7. DomStep(o)
    <2>1. db'.domains \subseteq db.domains /\ Foreign(db.domains, db'.domains, o)
      BY <1>2, Purges
    <2>2. Proven(db'.domains, proved')
      BY <1>5, <2>1 DEF Proven
    <2> QED BY <1>1, <1>5, <2>1, <2>2, DomainsShrink DEF DomStep
  <1>8. ConnStep(o)
    <2>1. db'.conns \subseteq db.conns /\ Foreign(db.conns, db'.conns, o)
      BY <1>2, Purges
    <2>2. ConnsOK(db'.conns, New') /\ KeepsRows(db.conns, db'.conns, {10 + k : k \in New})
      BY <1>1, <1>5, <2>1, ConnsShrink
    <2> QED BY <2>1, <2>2 DEF ConnStep
  <1>9. Steps(o)
    <2>1. SesStep
      BY <1>2 DEF SesStep, Others, TableNames
    <2> QED BY <1>2, <1>3, <1>4, <1>6, <1>7, <1>8, <2>1 DEF Steps, Others
  <1>10. OwnerRemains'
    <2> SUFFICES ASSUME NEW l \in Permalinks, db'.org[l].id # NoOrg
                 PROVE  Owners(db', db'.org[l].id) # {} \/ db'.org[l].id \in excused'
      BY DEF OwnerRemains
    <2>1. db'.org[l] = db.org[l] /\ db.org[l].id # o
      BY <1>2 DEF Razed, NoRow, NewRow
    <2>2. Owners(db', db.org[l].id) = Owners(db, db.org[l].id)
      BY <1>4, <2>1, OwnersElsewhere DEF MemStep
    <2> QED BY <2>1, <2>2 DEF IInv, OwnerRemains
  <1> QED BY <1>1, <1>9, <1>10, Ends DEF At

LEMMA HandlesRazing ==
    ASSUME IInv, NEW p \in Procs, OrganizationsDestroy(p)
    PROVE  Good(p)
  <1>1. CASE AuthMiddleware(p, "organization", [Blank EXCEPT !.op = "raze"])
    <2>1. AuthMiddleware(p, "organization", AskPlain("raze"))
      BY <1>1 DEF AskPlain
    <2> QED BY <2>1, Asks, LetIn
  <1>2. CASE At(p, "raze", "find") /\ Find(p, TRUE, [req[p] EXCEPT !.pc = "write"])
    <2>1. Went(p, Going(req[p], "write"))
      BY <1>2 DEF Find, Found, Went, Going, Quiet
    <2> QED BY <1>2, <2>1, PlainGoes DEF At
  <1>3. CASE LET o == req[p].org IN
             /\ At(p, "raze", "write")
             /\ db' = DeleteOrganization(db, o)
             /\ left' = left \union {<<o, m.user>> : m \in {x \in db.members : x.org = o}}
             /\ Answer(p) /\ Quiet /\ UNCHANGED <<excused, proved, asked>>
    <2>1. left \subseteq left' /\ AllGone(db.members, req[p].org, left')
      BY <1>3 DEF AllGone
    <2> QED BY <1>3, <2>1, Razes DEF Quiet
  <1> QED BY <1>1, <1>2, <1>3 DEF OrganizationsDestroy

(***************************************************************************)
(* Limits and billing                                                      *)
(***************************************************************************)
LEMMA AsksLimits ==
    ASSUME IInv, NEW p \in Procs,
           LimitsUpdate(p) \/ OrganizationSuspend(p) \/ OrganizationUnsuspend(p)
    PROVE  Good(p)
  <1>1. CASE LimitsUpdate(p)
    <2>1. PICK x \in 0..1, y \in 0..2 : AuthMiddleware(p, "limits", AskMore("limits", x, y))
      BY <1>1 DEF LimitsUpdate, AskMore
    <2> QED BY <2>1, Asks, LetIn
  <1>2. CASE OrganizationSuspend(p)
    <2>1. AuthMiddleware(p, "limits", AskLess("limits", 1))
      BY <1>2 DEF OrganizationSuspend, AskLess
    <2> QED BY <2>1, Asks, LetIn
  <1>3. CASE OrganizationUnsuspend(p)
    <2>1. AuthMiddleware(p, "limits", AskLess("limits", 2))
      BY <1>3 DEF OrganizationUnsuspend, AskLess
    <2> QED BY <2>1, Asks, LetIn
  <1> QED BY <1>1, <1>2, <1>3

LEMMA SetsPolicy ==
    ASSUME IInv, NEW p \in Procs, At(p, "limits", "write"), NEW a, NEW b, Answer(p),
           db' = SetOrganizationPolicy(db, req[p].org, a, b),
           count' = count, scene' = scene, UNCHANGED <<excused, left, proved>>
    PROVE  Good(p)
  <1> DEFINE o == req[p].org
             row == [RowOf(db, o) EXCEPT !.limit = a, !.suspended = b]
  <1>1. Turn(p, Blank)
    BY AnswerTurn
  <1>2. Live(db, o) => IsRow(row, o)
    BY RowIs, RowStays
  <1>3. db' = SetRow(db, o, row)
    BY DEF SetOrganizationPolicy
  <1> HIDE DEF row
  <1>4. Steps(o) /\ OwnerRemains'
    BY <1>1, <1>2, <1>3, SetsRow
  <1> QED BY <1>1, <1>4, Ends DEF At

LEMMA AppliesPolicy ==
    ASSUME IInv, NEW p \in Procs, ApplyPolicy(p)
    PROVE  Good(p)
  <1> DEFINE r == req[p]
  <1>1. CASE /\ At(p, "limits", "find")
             /\ Find(p, IsRoot(r.by), [r EXCEPT !.pc = "write", !.seen = {RowOf(db, Found(p))}])
    <2> DEFINE y == Seeing(r, "write", {RowOf(db, Found(p))})
    <2>1. Went(p, y)
      BY <1>1 DEF Find, Found, Went, Seeing, Quiet
    <2>2. IsReq(r)
      BY Mine
    <2>3. IsReq(y) /\ y.pc = "write" /\ \A f \in Fields \ {"pc", "seen"} : y[f] = r[f]
      BY <2>2, SetsSeen
    <2> HIDE DEF y
    <2>4. y.op = r.op /\ y.n = r.n /\ y.auth = r.auth /\ y.role = r.role
      BY <2>3 DEF Fields
    <2>5. r.op = "limits" /\ r.pc = "find"
      BY <1>1 DEF At
    <2> QED BY <2>1, <2>3, <2>4, <2>5, PlainFinds
  <1>2. CASE LET row == CHOOSE w \in r.seen : TRUE IN
             /\ At(p, "limits", "write")
             /\ Statement(p, Live(db, r.org),
                          SetOrganizationPolicy(db, r.org, IF r.y = 0 THEN r.x ELSE row.limit,
                                                IF r.y = 0 THEN row.suspended ELSE r.y = 1), "done")
             /\ UNCHANGED <<excused, left, proved>>
    <2>1. PICK row : row = (CHOOSE w \in r.seen : TRUE)
      OBVIOUS
    <2>2. PICK a : a = IF r.y = 0 THEN r.x ELSE row.limit
      OBVIOUS
    <2>3. PICK b : b = IF r.y = 0 THEN row.suspended ELSE r.y = 1
      OBVIOUS
    <2>4. /\ At(p, "limits", "write") /\ UNCHANGED <<excused, left, proved>>
          /\ Statement(p, Live(db, r.org), SetOrganizationPolicy(db, r.org, a, b), "done")
      BY <1>2, <2>1, <2>2, <2>3
    <2>5. /\ count' = count /\ scene' = scene /\ Answer(p)
          /\ db' = db \/ db' = SetOrganizationPolicy(db, r.org, a, b)
      BY <2>4 DEF Statement, Quiet, Goto
    <2>6. CASE db' = db
      <3>1. OwnerRemains'
        BY <2>4, <2>6, OwnersKept
      <3> QED BY <2>4, <2>5, <2>6, <3>1, Refused DEF At
    <2>7. CASE db' = SetOrganizationPolicy(db, r.org, a, b)
      BY <2>4, <2>5, <2>7, SetsPolicy
    <2> QED BY <2>5, <2>6, <2>7
  <1> QED BY <1>1, <1>2 DEF ApplyPolicy

Paying(r, pc, x) == [r EXCEPT !.pc = pc, !.x = x]

LEMMA SetsX ==
    ASSUME NEW r, IsReq(r), NEW pc, NEW x
    PROVE  /\ IsReq(Paying(r, pc, x)) /\ Paying(r, pc, x).pc = pc
           /\ \A f \in Fields \ {"pc", "x"} : Paying(r, pc, x)[f] = r[f]
  BY DEF IsReq, Fields, Paying

LEMMA AsksBilling ==
    ASSUME IInv, NEW p \in Procs, BillingCheckout(p) \/ BillingPortal(p) \/ BillingUsageSession(p)
    PROVE  Good(p)
  <1>1. AuthMiddleware(p, "billing", AskPlain("billing"))
    BY DEF BillingCheckout, BillingPortal, BillingUsageSession, AskPlain
  <1> QED BY <1>1, Asks, LetIn

LEMMA StoresCustomer ==
    ASSUME IInv, NEW p \in Procs, At(p, "billing", "customer"), Goto(p, "session"),
           db' = SetBillingCustomer(db, req[p].org, req[p].n),
           count' = count, scene' = scene, UNCHANGED <<excused, left, proved>>
    PROVE  Good(p)
  <1> DEFINE r == req[p]
             row == [RowOf(db, r.org) EXCEPT !.customer = r.n]
             y == Going(r, "session")
  <1>1. r.op = "billing" /\ r.pc = "customer" /\ IsReq(r) /\ StepOK(r)
    BY Mine DEF At
  <1>2. Turn(p, y)
    BY <1>1, GotoTurn
  <1>3. Live(db, r.org) => IsRow(row, r.org)
    BY RowIs, RowStays
  <1>4. db' = SetRow(db, r.org, row)
    BY DEF SetBillingCustomer
  <1> HIDE DEF row
  <1>5. Steps(r.org) /\ OwnerRemains'
    BY <1>2, <1>3, <1>4, SetsRow
  <1>6. IsReq(y) /\ y.pc = "session" /\ \A f \in Fields \ {"pc"} : y[f] = r[f]
    BY <1>1, SetsPc
  <1> HIDE DEF y
  <1>7. y.op = r.op /\ y.auth = r.auth /\ y.org = r.org /\ y.x = r.x /\ y.role = r.role
    BY <1>6 DEF Fields
  <1>8. StepOK(y) /\ SparesOwner(y) /\ SignIn(y, db'.members, left', proved')
    BY <1>1, <1>6, <1>7 DEF StepOK, SparesOwner, SignIn
  <1> QED BY <1>1, <1>2, <1>5, <1>6, <1>7, <1>8, Continues

LEMMA HandlesBilling ==
    ASSUME IInv, NEW p \in Procs, BillingOrganization(p)
    PROVE  Good(p)
  <1> DEFINE r == req[p]
  <1>1. CASE LET row == RowOf(db, Found(p)) IN
             /\ At(p, "billing", "find")
             /\ Find(p, TRUE, [r EXCEPT !.pc = IF row.customer = 0 THEN "customer" ELSE "session",
                                        !.x = row.customer])
    <2> DEFINE x == RowOf(db, Found(p)).customer
               pc == IF x = 0 THEN "customer" ELSE "session"
               y == Paying(r, pc, x)
    <2>1. Went(p, y)
      BY <1>1 DEF Find, Found, Went, Paying, Quiet
    <2>2. IsReq(r) /\ pc \in {"customer", "session"}
      BY Mine
    <2> HIDE DEF pc, x
    <2>3. IsReq(y) /\ y.pc = pc /\ \A f \in Fields \ {"pc", "x"} : y[f] = r[f]
      BY <2>2, SetsX
    <2> HIDE DEF y
    <2>4. y.op = r.op /\ y.n = r.n /\ y.auth = r.auth /\ y.role = r.role
      BY <2>3 DEF Fields
    <2>5. r.op = "billing" /\ r.pc = "find"
      BY <1>1 DEF At
    <2> QED BY <2>1, <2>2, <2>3, <2>4, <2>5, PlainFinds
  <1>2. CASE /\ At(p, "billing", "customer")
             /\ Statement(p, Live(db, r.org), SetBillingCustomer(db, r.org, r.n), "session")
             /\ UNCHANGED <<excused, left, proved>>
    <2>1. /\ count' = count /\ scene' = scene
          /\ (db' = db /\ Answer(p))
             \/ (db' = SetBillingCustomer(db, r.org, r.n) /\ Goto(p, "session"))
      BY <1>2 DEF Statement, Quiet
    <2>2. CASE db' = db /\ Answer(p)
      <3>1. OwnerRemains'
        BY <1>2, <2>2, OwnersKept
      <3> QED BY <1>2, <2>1, <2>2, <3>1, Refused DEF At
    <2>3. CASE db' = SetBillingCustomer(db, r.org, r.n) /\ Goto(p, "session")
      BY <1>2, <2>1, <2>3, StoresCustomer
    <2> QED BY <2>1, <2>2, <2>3
  <1>3. CASE At(p, "billing", "session") /\ Answer(p) /\ db' = db /\ Quiet /\ UNCHANGED ghosts
    BY <1>3, Answers DEF Quiet
  <1> QED BY <1>1, <1>2, <1>3 DEF BillingOrganization

(***************************************************************************)
(* Domains                                                                 *)
(***************************************************************************)
LEMMA Claims ==
    ASSUME IInv, NEW p \in Procs, At(p, "claim", "write"),
           Answer(p), count' = count, scene' = scene, UNCHANGED ghosts,
           db' = CreateDomain(db, req[p].n, req[p].org, req[p].user)
    PROVE  Good(p)
  <1> DEFINE r == req[p]
             row == [id |-> r.n, org |-> r.org, domain |-> r.user, verified |-> FALSE]
             out == Grown(db.domains, row)
  <1>1. Turn(p, Blank)
    BY AnswerTurn
  <1>2. r.op # "idle" /\ r.pc # "find"
    BY DEF At
  <1>3. r.n \in New /\ r.n \notin New' /\ New' \subseteq New
    BY <1>1, <1>2, OwnNumber, Turned
  <1>4. /\ row.id = r.n /\ row.org = r.org /\ ~row.verified
        /\ row = [f \in {"id", "org", "domain", "verified"} |-> row[f]]
    OBVIOUS
  <1>5. Others({"domains"}) /\ db'.domains = out
    BY Shape DEF Others, TableNames, CreateDomain, Grown
  <1> HIDE DEF row
  <1>6. DomainsOK(db.domains, New) /\ Proven(db.domains, proved) /\ proved' = proved
    BY DEF IInv, New, StoreOK, ghosts
  <1>7. /\ PrimaryKey(out, New') /\ KeepsRows(db.domains, out, New)
        /\ Foreign(db.domains, out, r.org)
    BY <1>3, <1>4, <1>6, Grows DEF DomainsOK
  <1>8. DomainsOK(out, New')
    BY <1>4, <1>6, <1>7 DEF DomainsOK, Columns, Grown
  <1>9. Proven(out, proved')
    BY <1>4, <1>6 DEF Proven, Grown
  <1> HIDE DEF out
  <1>10. DomStep(r.org)
    BY <1>5, <1>7, <1>8, <1>9 DEF DomStep
  <1>11. Steps(r.org) /\ OwnerRemains'
    BY <1>1, <1>5, <1>10, OneTable DEF ghosts
  <1> QED BY <1>1, <1>2, <1>11, Ends

(* One domain is verified. *)
Verified(rows, id) == {IF x.id = id THEN [x EXCEPT !.verified = TRUE] ELSE x : x \in rows}

LEMMA VerifyKeeps ==
    ASSUME NEW rows, NEW id, NEW o, NEW new, NEW new2, new2 \subseteq new, DomainsOK(rows, new),
           Names(rows, id, o)
    PROVE  /\ DomainsOK(Verified(rows, id), new2) /\ KeepsRows(rows, Verified(rows, id), new)
           /\ Foreign(rows, Verified(rows, id), o)
  <1> DEFINE C == {"id", "org", "domain", "verified"}
             M(i) == IF i.id = id THEN [i EXCEPT !.verified = TRUE] ELSE i
  <1>1. \A i \in rows : /\ M(i).id = i.id /\ M(i).org = i.org
                        /\ M(i) = [f \in C |-> M(i)[f]]
                        /\ i.id # id => M(i) = i
    <2>1. \A i \in rows : i = [f \in C |-> i[f]]
      BY DEF DomainsOK, Columns
    <2> TAKE i \in rows
    <2>2. CASE i.id # id
      BY <2>1, <2>2
    <2>3. CASE i.id = id
      <3>1. i = [f \in C |-> i[f]]
        BY <2>1
      <3>2. PICK j : j = [i EXCEPT !.verified = TRUE]
        OBVIOUS
      <3>3. j = [f \in C |-> j[f]] /\ j.id = i.id /\ j.org = i.org
        BY <3>1, <3>2
      <3> QED BY <2>3, <3>2, <3>3
    <2> QED BY <2>2, <2>3
  <1>2. Verified(rows, id) = {M(i) : i \in rows}
    BY DEF Verified
  <1> HIDE DEF M
  <1>3. PICK out : out = Verified(rows, id)
    OBVIOUS
  <1>4. \A y : y \in out <=> \E i \in rows : y = M(i)
    BY <1>2, <1>3
  <1>5. PrimaryKey(rows, new)
    BY DEF DomainsOK
  <1>6. PrimaryKey(out, new2) /\ KeepsRows(rows, out, new)
    <2>1. \A y \in out : \E x \in rows : y.id = x.id /\ y.org = x.org
      BY <1>1, <1>4
    <2>2. \A x, y \in out : x.id = y.id => x = y
      BY <1>1, <1>4, <1>5 DEF PrimaryKey
    <2>3. Rewritten(rows, out)
      BY <2>1, <2>2 DEF Rewritten
    <2> QED BY <1>5, <2>3, Rewrites
  <1>7. DomainsOK(out, new2)
    <2>1. \A i \in out : i = [f \in C |-> i[f]]
      BY <1>1, <1>4
    <2> QED BY <1>6, <2>1 DEF DomainsOK, Columns
  <1>8. Foreign(rows, out, o)
    <2>1. ASSUME NEW y, y.org # o, y \in out
          PROVE  y \in rows
      BY <1>1, <1>4, <2>1 DEF Names
    <2>2. ASSUME NEW y, y.org # o, y \in rows
          PROVE  y \in out
      BY <1>1, <1>4, <2>2 DEF Names
    <2> QED BY <2>1, <2>2 DEF Foreign
  <1> QED BY <1>3, <1>6, <1>7, <1>8

LEMMA Verifies ==
    ASSUME IInv, NEW p \in Procs, At(p, "verify", "write"),
           Answer(p), count' = count, scene' = scene, UNCHANGED <<excused, left>>,
           db' = MarkDomainVerified(db, req[p].x),
           proved \subseteq proved', Proven(db'.domains, proved')
    PROVE  Good(p)
  <1> DEFINE r == req[p]
             out == Verified(db.domains, r.x)
  <1>1. Turn(p, Blank)
    BY AnswerTurn
  <1>2. r.op = "verify" /\ r.pc = "write" /\ OwnRow(r, db, New)
    BY Mine DEF At
  <1>3. Others({"domains"}) /\ db'.domains = out
    BY Shape DEF Others, TableNames, MarkDomainVerified, Verified
  <1> HIDE DEF out
  <1>4. New' \subseteq New
    BY <1>1, Turned
  <1>5. DomainsOK(db.domains, New) /\ Names(db.domains, r.x, r.org)
    BY <1>2 DEF IInv, New, StoreOK, OwnRow
  <1>6. DomStep(r.org)
    BY <1>3, <1>4, <1>5, VerifyKeeps DEF DomStep, out
  <1>7. Steps(r.org) /\ OwnerRemains'
    BY <1>1, <1>3, <1>6, OneTable
  <1> QED BY <1>1, <1>2, <1>7, Ends

LEMMA Disclaims ==
    ASSUME IInv, NEW p \in Procs, At(p, "disclaim", "write"),
           Answer(p), count' = count, scene' = scene, UNCHANGED ghosts,
           db' = DeleteDomain(db, req[p].x)
    PROVE  Good(p)
  <1> DEFINE r == req[p]
             out == Without(db.domains, r.x)
  <1>1. Turn(p, Blank) /\ New' \subseteq New
    BY AnswerTurn, Turned
  <1>2. r.op = "disclaim" /\ r.pc = "write" /\ OwnRow(r, db, New)
    BY Mine DEF At
  <1>3. Others({"domains"}) /\ db'.domains = out
    BY Shape DEF Others, TableNames, DeleteDomain, Without
  <1>4. DomainsOK(db.domains, New) /\ Proven(db.domains, proved) /\ proved' = proved
    BY DEF IInv, New, StoreOK, ghosts
  <1>5. out \subseteq db.domains /\ Foreign(db.domains, out, r.org)
    BY <1>2 DEF Foreign, Without, OwnRow, Names
  <1> HIDE DEF out
  <1>6. DomainsOK(out, New') /\ KeepsRows(db.domains, out, New)
    BY <1>1, <1>4, <1>5, DomainsShrink
  <1>7. Proven(out, proved')
    BY <1>4, <1>5 DEF Proven
  <1>8. DomStep(r.org)
    BY <1>3, <1>5, <1>6, <1>7 DEF DomStep
  <1>9. Steps(r.org) /\ OwnerRemains'
    BY <1>1, <1>3, <1>8, OneTable DEF ghosts
  <1> QED BY <1>1, <1>2, <1>9, Ends

LEMMA RowGoes ==
    ASSUME IInv, NEW p \in Procs, Went(p, Going(req[p], "write")), req[p].pc = "find",
           \/ /\ req[p].op \in {"verify", "disclaim"}
              /\ Answer(p) \/ Belongs(p, OrgEmailDomain(db, req[p].x))
           \/ /\ req[p].op = "cut"
              /\ Answer(p) \/ Belongs(p, OrgSsoConnection(db, req[p].x))
    PROVE  Good(p)
  <1> DEFINE r == Going(req[p], "write")
  <1>1. IsReq(req[p])
    BY Mine
  <1>2. IsReq(r) /\ r.pc = "write" /\ \A f \in Fields \ {"pc"} : r[f] = req[p][f]
    BY <1>1, SetsPc
  <1> HIDE DEF r
  <1>3. /\ r.op = req[p].op /\ r.n = req[p].n /\ r.auth = req[p].auth /\ r.role = req[p].role
        /\ r.x = req[p].x
    BY <1>2 DEF Fields
  <1> QED BY <1>2, <1>3, RowFinds DEF r

LEMMA ClaimsDomain ==
    ASSUME IInv, NEW p \in Procs, SsoDomainsCreate(p)
    PROVE  Good(p)
  <1>1. CASE \E name \in Domains :
               AuthMiddleware(p, "sso", [Blank EXCEPT !.op = "claim", !.user = name])
    <2>1. PICK name \in Domains : AuthMiddleware(p, "sso", AskUser("claim", name))
      BY <1>1 DEF AskUser
    <2> QED BY <2>1, Asks, LetIn
  <1>2. CASE At(p, "claim", "find") /\ Find(p, TRUE, [req[p] EXCEPT !.pc = "write"])
    <2>1. Went(p, Going(req[p], "write"))
      BY <1>2 DEF Find, Found, Went, Going, Quiet
    <2> QED BY <1>2, <2>1, PlainGoes DEF At
  <1>3. CASE LET r == req[p] IN
             /\ At(p, "claim", "write")
             /\ Statement(p, Live(db, r.org) /\ DomainFree(db, r.org, r.user),
                          CreateDomain(db, r.n, r.org, r.user), "done")
             /\ UNCHANGED ghosts
    <2>1. /\ count' = count /\ scene' = scene /\ Answer(p)
          /\ db' = db \/ db' = CreateDomain(db, req[p].n, req[p].org, req[p].user)
      BY <1>3 DEF Statement, Quiet, Goto
    <2> QED BY <1>3, <2>1, Claims, Answers
  <1> QED BY <1>1, <1>2, <1>3 DEF SsoDomainsCreate

LEMMA VerifiesDomain ==
    ASSUME IInv, NEW p \in Procs, SsoDomainsVerify(p)
    PROVE  Good(p)
  <1>1. CASE \E x \in db.domains, force \in 0..1 :
               AuthMiddleware(p, "sso", [Blank EXCEPT !.op = "verify", !.x = x.id, !.y = force])
    <2>1. PICK x \in db.domains, force \in 0..1 :
            AuthMiddleware(p, "sso", AskMore("verify", x.id, force))
      BY <1>1 DEF AskMore
    <2>2. x.id \notin New
      BY OldRows
    <2> QED BY <2>1, <2>2, Asks, LetIn
  <1>2. CASE VerifyFind(p)
    <2>1. /\ Went(p, Going(req[p], "write"))
          /\ Answer(p) \/ Belongs(p, OrgEmailDomain(db, req[p].x))
      BY <1>2 DEF VerifyFind, Find, Found, Went, Going, Quiet
    <2> QED BY <1>2, <2>1, RowGoes DEF VerifyFind, At
  <1>3. CASE LET r == req[p] IN
             /\ At(p, "verify", "write")
             /\ Statement(p, VerifiedFree(db, r.x), MarkDomainVerified(db, r.x), "done")
             /\ proved' = proved \union
                            {<<x.org, x.domain>> : x \in {y \in db'.domains : y.verified}}
             /\ UNCHANGED <<excused, left, asked>>
    <2>1. /\ count' = count /\ scene' = scene /\ Answer(p)
          /\ db' = db \/ db' = MarkDomainVerified(db, req[p].x)
      BY <1>3 DEF Statement, Quiet, Goto
    <2>2. proved \subseteq proved' /\ Proven(db'.domains, proved')
      BY <1>3 DEF Proven
    <2>3. CASE db' = db
      <3>1. OwnerRemains'
        BY <1>3, <2>3, OwnersKept
      <3> QED BY <1>3, <2>1, <2>2, <2>3, <3>1, Refused DEF At
    <2>4. CASE db' = MarkDomainVerified(db, req[p].x)
      BY <1>3, <2>1, <2>2, <2>4, Verifies
    <2> QED BY <2>1, <2>3, <2>4
  <1> QED BY <1>1, <1>2, <1>3 DEF SsoDomainsVerify

LEMMA DisclaimsDomain ==
    ASSUME IInv, NEW p \in Procs, SsoDomainsDestroy(p)
    PROVE  Good(p)
  <1>1. CASE \E x \in db.domains :
               AuthMiddleware(p, "sso", [Blank EXCEPT !.op = "disclaim", !.x = x.id])
    <2>1. PICK x \in db.domains : AuthMiddleware(p, "sso", AskRow("disclaim", x.id))
      BY <1>1 DEF AskRow
    <2>2. x.id \notin New
      BY OldRows
    <2> QED BY <2>1, <2>2, Asks, LetIn
  <1>2. CASE /\ At(p, "disclaim", "find")
             /\ Find(p, Belongs(p, OrgEmailDomain(db, req[p].x)), [req[p] EXCEPT !.pc = "write"])
    <2>1. /\ Went(p, Going(req[p], "write"))
          /\ Answer(p) \/ Belongs(p, OrgEmailDomain(db, req[p].x))
      BY <1>2 DEF Find, Found, Went, Going, Quiet
    <2> QED BY <1>2, <2>1, RowGoes DEF At
  <1>3. CASE /\ At(p, "disclaim", "write")
             /\ db' = DeleteDomain(db, req[p].x) /\ Answer(p) /\ Quiet /\ UNCHANGED ghosts
    BY <1>3, Disclaims DEF Quiet
  <1> QED BY <1>1, <1>2, <1>3 DEF SsoDomainsDestroy

(***************************************************************************)
(* Connections                                                             *)
(***************************************************************************)
LEMMA OwnConnection ==
    ASSUME IInv, NEW p \in Procs, Turn(p, Blank), req[p].op # "idle"
    PROVE  /\ 10 + req[p].n \in {10 + k : k \in New}
           /\ 10 + req[p].n \notin {10 + k : k \in New'}
           /\ {10 + k : k \in New'} \subseteq {10 + k : k \in New}
  <1>1. req[p].n \in New /\ req[p].n \notin New' /\ New' \subseteq New
    BY OwnNumber, Turned
  <1>2. req[p].n \in Nat /\ New' \subseteq Nat
    <2>1. Numbered(count, scene.requests, req) /\ Numbered(count, scene.requests, req)'
      BY Turned DEF IInv
    <2>2. req[p].n \in Nat
      BY <2>1 DEF Numbered
    <2>3. New' \subseteq Nat
      BY <2>1 DEF Numbered, New, Numbers
    <2> QED BY <2>2, <2>3
  <1>3. ASSUME NEW k \in New'
        PROVE  10 + k # 10 + req[p].n
    BY <1>1, <1>2
  <1> QED BY <1>1, <1>3

LEMMA Connects ==
    ASSUME IInv, NEW p \in Procs, At(p, "connect", "write"),
           Answer(p), count' = count, scene' = scene, UNCHANGED ghosts,
           db' = CreateConnection(db, [id |-> 10 + req[p].n, org |-> req[p].org, kind |-> "oidc",
                                       enabled |-> TRUE, role |-> req[p].role,
                                       provision |-> TRUE, secret |-> req[p].x])
    PROVE  Good(p)
  <1> DEFINE r == req[p]
             row == [id |-> 10 + r.n, org |-> r.org, kind |-> "oidc", enabled |-> TRUE,
                     role |-> r.role, provision |-> TRUE, secret |-> r.x]
             out == Grown(db.conns, row)
             T == {10 + k : k \in New}
             U == {10 + k : k \in New'}
  <1>1. Turn(p, Blank)
    BY AnswerTurn
  <1>2. r.op # "idle" /\ r.pc # "find" /\ r.role # 0
    BY Mine DEF At, StepOK
  <1>3. 10 + r.n \in T /\ 10 + r.n \notin U /\ U \subseteq T
    BY <1>1, <1>2, OwnConnection
  <1>4. /\ row.id = 10 + r.n /\ row.org = r.org /\ row.role = r.role
        /\ row = [f \in {"id", "org", "kind", "enabled", "role", "provision", "secret"} |-> row[f]]
    OBVIOUS
  <1>5. Others({"conns"}) /\ db'.conns = out
    BY Shape DEF Others, TableNames, CreateConnection, Grown
  <1>6. ConnsOK(db.conns, New) /\ PrimaryKey(db.conns, T)
    BY DEF IInv, New, StoreOK, ConnsOK
  <1> HIDE DEF row, T, U
  <1>7. PrimaryKey(out, U) /\ KeepsRows(db.conns, out, T) /\ Foreign(db.conns, out, r.org)
    BY <1>3, <1>4, <1>6, Grows
  <1>8. ConnsOK(out, New')
    BY <1>2, <1>4, <1>6, <1>7 DEF ConnsOK, Columns, Grown, U
  <1> HIDE DEF out
  <1>9. ConnStep(r.org)
    BY <1>5, <1>7, <1>8 DEF ConnStep, T
  <1>10. Steps(r.org) /\ OwnerRemains'
    BY <1>1, <1>5, <1>9, OneTable DEF ghosts
  <1> QED BY <1>1, <1>2, <1>10, Ends

LEMMA Cuts ==
    ASSUME IInv, NEW p \in Procs, At(p, "cut", "write"),
           Answer(p), count' = count, scene' = scene, UNCHANGED ghosts,
           db' = DeleteConnection(db, req[p].x)
    PROVE  Good(p)
  <1> DEFINE r == req[p]
             out == Without(db.conns, r.x)
  <1>1. Turn(p, Blank) /\ New' \subseteq New
    BY AnswerTurn, Turned
  <1>2. r.op = "cut" /\ r.pc = "write" /\ OwnRow(r, db, New)
    BY Mine DEF At
  <1>3. Others({"conns"}) /\ db'.conns = out
    BY Shape DEF Others, TableNames, DeleteConnection, Without
  <1>4. ConnsOK(db.conns, New)
    BY DEF IInv, New, StoreOK
  <1>5. out \subseteq db.conns /\ Foreign(db.conns, out, r.org)
    <2>1. Names(db.conns, r.x, r.org)
      BY <1>2 DEF OwnRow
    <2> QED BY <2>1 DEF Foreign, Without, Names
  <1> HIDE DEF out
  <1>6. ConnsOK(out, New') /\ KeepsRows(db.conns, out, {10 + k : k \in New})
    BY <1>1, <1>4, <1>5, ConnsShrink
  <1>7. ConnStep(r.org)
    BY <1>3, <1>5, <1>6 DEF ConnStep
  <1>8. Steps(r.org) /\ OwnerRemains'
    BY <1>1, <1>3, <1>7, OneTable DEF ghosts
  <1> QED BY <1>1, <1>2, <1>8, Ends

(* One connection is edited. *)
Edited(c, secret, enabled) ==
  [c EXCEPT !.secret  = IF secret = 0 THEN @ ELSE secret,
            !.enabled = IF enabled = 2 THEN @ ELSE enabled = 1]

EditedRows(rows, id, secret, enabled) ==
  {IF c.id # id THEN c ELSE Edited(c, secret, enabled) : c \in rows}

LEMMA EditKeeps ==
    ASSUME NEW rows, NEW id, NEW o, NEW new, NEW new2, new2 \subseteq new, ConnsOK(rows, new),
           Names(rows, id, o), NEW secret, NEW enabled
    PROVE  LET out == EditedRows(rows, id, secret, enabled) IN
           /\ ConnsOK(out, new2) /\ KeepsRows(rows, out, {10 + k : k \in new})
           /\ Foreign(rows, out, o)
  <1> DEFINE C == {"id", "org", "kind", "enabled", "role", "provision", "secret"}
             M(c) == IF c.id # id THEN c ELSE Edited(c, secret, enabled)
             T == {10 + k : k \in new}
             U == {10 + k : k \in new2}
  <1>1. \A c \in rows : /\ M(c).id = c.id /\ M(c).org = c.org /\ M(c).role = c.role
                        /\ M(c) = [f \in C |-> M(c)[f]]
                        /\ c.id # id => M(c) = c
    <2>1. \A c \in rows : c = [f \in C |-> c[f]]
      BY DEF ConnsOK, Columns
    <2> TAKE c \in rows
    <2>2. CASE c.id # id
      BY <2>1, <2>2
    <2>3. CASE c.id = id
      <3>1. c = [f \in C |-> c[f]]
        BY <2>1
      <3>2. PICK a, b : /\ a = (IF secret = 0 THEN c.secret ELSE secret)
                        /\ b = (IF enabled = 2 THEN c.enabled ELSE enabled = 1)
        OBVIOUS
      <3>3. PICK j : j = [c EXCEPT !.secret = a, !.enabled = b]
        OBVIOUS
      <3>4. j = [f \in C |-> j[f]] /\ j.id = c.id /\ j.org = c.org /\ j.role = c.role
        BY <3>1, <3>3
      <3>5. Edited(c, secret, enabled) = j
        BY <3>1, <3>2, <3>3 DEF Edited
      <3> QED BY <2>3, <3>4, <3>5
    <2> QED BY <2>2, <2>3
  <1>2. EditedRows(rows, id, secret, enabled) = {M(c) : c \in rows}
    BY DEF EditedRows
  <1> HIDE DEF M
  <1>3. PICK out : out = EditedRows(rows, id, secret, enabled)
    OBVIOUS
  <1>4. \A y : y \in out <=> \E c \in rows : y = M(c)
    BY <1>2, <1>3
  <1>5. PrimaryKey(rows, T) /\ U \subseteq T
    BY DEF ConnsOK
  <1> HIDE DEF T, U
  <1>6. PrimaryKey(out, U) /\ KeepsRows(rows, out, T)
    <2>1. \A y \in out : \E x \in rows : y.id = x.id /\ y.org = x.org
      BY <1>1, <1>4
    <2>2. \A x, y \in out : x.id = y.id => x = y
      BY <1>1, <1>4, <1>5 DEF PrimaryKey
    <2>3. Rewritten(rows, out)
      BY <2>1, <2>2 DEF Rewritten
    <2> QED BY <1>5, <2>3, Rewrites
  <1>7. ConnsOK(out, new2)
    <2>1. \A c \in out : c.role # 0 /\ c = [f \in C |-> c[f]]
      BY <1>1, <1>4 DEF ConnsOK
    <2> QED BY <1>6, <2>1 DEF ConnsOK, Columns, U
  <1>8. Foreign(rows, out, o)
    <2>1. ASSUME NEW y, y.org # o, y \in out
          PROVE  y \in rows
      BY <1>1, <1>4, <2>1 DEF Names
    <2>2. ASSUME NEW y, y.org # o, y \in rows
          PROVE  y \in out
      BY <1>1, <1>4, <2>2 DEF Names
    <2> QED BY <2>1, <2>2 DEF Foreign
  <1> QED BY <1>3, <1>6, <1>7, <1>8 DEF T

LEMMA Edits ==
    ASSUME IInv, NEW p \in Procs, At(p, "edit", "write"), NEW secret, NEW enabled,
           Answer(p), count' = count, scene' = scene, UNCHANGED <<excused, left, proved>>,
           db' = UpdateConnection(db, req[p].x, secret, enabled)
    PROVE  Good(p)
  <1> DEFINE r == req[p]
             out == EditedRows(db.conns, r.x, secret, enabled)
  <1>1. Turn(p, Blank) /\ New' \subseteq New
    BY AnswerTurn, Turned
  <1>2. r.op = "edit" /\ r.pc = "write" /\ OwnRow(r, db, New)
    BY Mine DEF At
  <1>3. Others({"conns"}) /\ db'.conns = out
    <2>1. db' = [db EXCEPT !.conns = out]
      BY DEF UpdateConnection, EditedRows, Edited
    <2> HIDE DEF out
    <2> QED BY <2>1, Shape DEF Others, TableNames
  <1> HIDE DEF out
  <1>4. ConnsOK(db.conns, New) /\ Names(db.conns, r.x, r.org)
    BY <1>2 DEF IInv, New, StoreOK, OwnRow
  <1>5. /\ ConnsOK(out, New') /\ KeepsRows(db.conns, out, {10 + k : k \in New})
        /\ Foreign(db.conns, out, r.org)
    BY <1>1, <1>4, EditKeeps DEF out
  <1>6. ConnStep(r.org)
    BY <1>3, <1>5 DEF ConnStep
  <1>7. Steps(r.org) /\ OwnerRemains'
    BY <1>1, <1>3, <1>6, OneTable
  <1> QED BY <1>1, <1>2, <1>7, Ends

LEMMA CreatesConnection ==
    ASSUME IInv, NEW p \in Procs, SsoConnectionsCreate(p)
    PROVE  Good(p)
  <1>1. CASE \E role \in Grants, secret \in Secrets :
               AuthMiddleware(p, "sso", [Blank EXCEPT !.op = "connect", !.role = role, !.x = secret])
    <2>1. PICK role \in Grants, secret \in Secrets :
            AuthMiddleware(p, "sso", AskConn("connect", role, secret))
      BY <1>1 DEF AskConn
    <2> QED BY <2>1, Asks, LetIn
  <1>2. CASE At(p, "connect", "find") /\ Find(p, TRUE, [req[p] EXCEPT !.pc = "write"])
    <2>1. Went(p, Going(req[p], "write"))
      BY <1>2 DEF Find, Found, Went, Going, Quiet
    <2> QED BY <1>2, <2>1, PlainGoes DEF At
  <1>3. CASE LET r == req[p] IN
             /\ At(p, "connect", "write")
             /\ Statement(p, Live(db, r.org),
                          CreateConnection(db, [id |-> 10 + r.n, org |-> r.org, kind |-> "oidc",
                                                enabled |-> TRUE, role |-> r.role,
                                                provision |-> TRUE, secret |-> r.x]), "done")
             /\ UNCHANGED ghosts
    <2>1. /\ count' = count /\ scene' = scene /\ Answer(p)
          /\ \/ db' = db
             \/ db' = CreateConnection(db, [id |-> 10 + req[p].n, org |-> req[p].org,
                                            kind |-> "oidc", enabled |-> TRUE,
                                            role |-> req[p].role, provision |-> TRUE,
                                            secret |-> req[p].x])
      BY <1>3 DEF Statement, Quiet, Goto
    <2> QED BY <1>3, <2>1, Connects, Answers
  <1> QED BY <1>1, <1>2, <1>3 DEF SsoConnectionsCreate

LEMMA UpdatesConnection ==
    ASSUME IInv, NEW p \in Procs, SsoConnectionsUpdate(p)
    PROVE  Good(p)
  <1> DEFINE r == req[p]
  <1>1. CASE \E c \in db.conns, part \in {0, 1, 3}, secret \in Secrets \union {0} :
               /\ part # 3 => secret = 0
               /\ AuthMiddleware(p, "sso", [Blank EXCEPT !.op = "edit", !.x = c.id, !.role = part,
                                                         !.y = secret])
    <2>1. PICK c \in db.conns, part \in {0, 1, 3}, secret \in Secrets \union {0} :
            AuthMiddleware(p, "sso", AskEdit("edit", c.id, part, secret))
      BY <1>1 DEF AskEdit
    <2>2. c.id \notin {10 + k : k \in New}
      BY OldRows
    <2> QED BY <2>1, <2>2, Asks, LetIn
  <1>2. CASE /\ At(p, "edit", "find")
             /\ Find(p, Belongs(p, OrgSsoConnection(db, r.x)),
                     [r EXCEPT !.pc = "write", !.seen = OrgSsoConnection(db, r.x)])
    <2> DEFINE y == Seeing(r, "write", OrgSsoConnection(db, r.x))
    <2>1. Went(p, y) /\ (Answer(p) \/ Belongs(p, OrgSsoConnection(db, r.x)))
      BY <1>2 DEF Find, Found, Went, Seeing, Quiet
    <2>2. IsReq(r)
      BY Mine
    <2>3. IsReq(y) /\ y.pc = "write" /\ \A f \in Fields \ {"pc", "seen"} : y[f] = r[f]
      BY <2>2, SetsSeen
    <2> HIDE DEF y
    <2>4. y.op = r.op /\ y.n = r.n /\ y.auth = r.auth /\ y.role = r.role /\ y.x = r.x
      BY <2>3 DEF Fields
    <2>5. r.op = "edit" /\ r.pc = "find"
      BY <1>2 DEF At
    <2> QED BY <2>1, <2>3, <2>4, <2>5, RowFinds
  <1>3. CASE LET was == CHOOSE c \in r.seen : TRUE IN
             /\ At(p, "edit", "write")
             /\ db' = IF r.role = 3 THEN UpdateConnection(db, r.x, MergeSecrets(r.y, was.secret), 2)
                      ELSE UpdateConnection(db, r.x, 0, r.role)
             /\ Answer(p) /\ Quiet
             /\ UNCHANGED <<excused, left, proved>>
    <2>1. PICK was : was = (CHOOSE c \in r.seen : TRUE)
      OBVIOUS
    <2>2. PICK a : a = MergeSecrets(r.y, was.secret)
      OBVIOUS
    <2>3. \/ db' = UpdateConnection(db, r.x, a, 2)
          \/ db' = UpdateConnection(db, r.x, 0, r.role)
      BY <1>3, <2>1, <2>2
    <2>4. /\ At(p, "edit", "write") /\ Answer(p) /\ count' = count /\ scene' = scene
          /\ UNCHANGED <<excused, left, proved>>
      BY <1>3 DEF Quiet
    <2> QED BY <2>3, <2>4, Edits
  <1> QED BY <1>1, <1>2, <1>3 DEF SsoConnectionsUpdate

LEMMA DeletesConnection ==
    ASSUME IInv, NEW p \in Procs, SsoConnectionsDestroy(p)
    PROVE  Good(p)
  <1>1. CASE \E c \in db.conns :
               AuthMiddleware(p, "sso", [Blank EXCEPT !.op = "cut", !.x = c.id])
    <2>1. PICK c \in db.conns : AuthMiddleware(p, "sso", AskRow("cut", c.id))
      BY <1>1 DEF AskRow
    <2>2. c.id \notin {10 + k : k \in New}
      BY OldRows
    <2> QED BY <2>1, <2>2, Asks, LetIn
  <1>2. CASE /\ At(p, "cut", "find")
             /\ Find(p, Belongs(p, OrgSsoConnection(db, req[p].x)), [req[p] EXCEPT !.pc = "write"])
    <2>1. /\ Went(p, Going(req[p], "write"))
          /\ Answer(p) \/ Belongs(p, OrgSsoConnection(db, req[p].x))
      BY <1>2 DEF Find, Found, Went, Going, Quiet
    <2> QED BY <1>2, <2>1, RowGoes DEF At
  <1>3. CASE /\ At(p, "cut", "write")
             /\ db' = DeleteConnection(db, req[p].x) /\ Answer(p) /\ Quiet /\ UNCHANGED ghosts
    BY <1>3, Cuts DEF Quiet
  <1> QED BY <1>1, <1>2, <1>3 DEF SsoConnectionsDestroy

(***************************************************************************)
(* Signing in                                                              *)
(***************************************************************************)
Returning(x, w) ==
  [Blank EXCEPT !.op = "sso", !.pc = "conn", !.x = x, !.subject = w.subject, !.user = w.email]

Asserting(c, x, w) ==
  [Blank EXCEPT !.op = "sso", !.pc = "consume", !.conn = c, !.org = c.org, !.auth = c.org,
                !.x = x, !.subject = w.subject, !.user = w.email]

LEMMA ReturnFields ==
    ASSUME NEW x, NEW w
    PROVE  LET r == Returning(x, w) IN
           /\ IsReq(r) /\ r.op = "sso" /\ r.pc = "conn" /\ r.subject = w.subject
           /\ r.user = w.email /\ r.seen = {} /\ r.auth = NoOrg /\ r.org = NoOrg
  <1> DEFINE r == Returning(x, w)
  <1>1. IsReq(r)
    BY BlankFields DEF IsReq, Fields, Returning
  <1>2. r.op = "sso" /\ r.pc = "conn" /\ r.subject = w.subject /\ r.user = w.email
    BY BlankFields DEF IsReq, Fields, Returning
  <1>3. r.seen = {} /\ r.auth = NoOrg /\ r.org = NoOrg
    BY BlankFields DEF IsReq, Fields, Returning
  <1> QED BY <1>1, <1>2, <1>3

LEMMA AssertFields ==
    ASSUME NEW c, NEW x, NEW w
    PROVE  LET r == Asserting(c, x, w) IN
           /\ IsReq(r) /\ r.op = "sso" /\ r.pc = "consume" /\ r.subject = w.subject
           /\ r.user = w.email /\ r.seen = {} /\ r.conn = c /\ r.auth = c.org /\ r.org = c.org
  <1> DEFINE r == Asserting(c, x, w)
  <1>1. IsReq(r)
    BY BlankFields DEF IsReq, Fields, Asserting
  <1>2. r.op = "sso" /\ r.pc = "consume" /\ r.subject = w.subject /\ r.user = w.email
    BY BlankFields DEF IsReq, Fields, Asserting
  <1>3. r.seen = {} /\ r.conn = c /\ r.auth = c.org /\ r.org = c.org
    BY BlankFields DEF IsReq, Fields, Asserting
  <1> QED BY <1>1, <1>2, <1>3

(* A ticket is taken by a request that begins. *)
LEMMA Returns ==
    ASSUME IInv, NEW p \in Procs, NEW x, NEW w \in People, NEW t, Enter(p, Returning(x, w)),
           db' = [db EXCEPT !.tickets = @ \ {t}], UNCHANGED ghosts
    PROVE  Good(p)
  <1> DEFINE r == Returning(x, w)
  <1>1. /\ IsReq(r) /\ r.op = "sso" /\ r.pc = "conn" /\ r.subject = w.subject
        /\ r.user = w.email /\ r.seen = {} /\ r.auth = NoOrg /\ r.org = NoOrg
    BY ReturnFields
  <1>2. Enter(p, r)
    OBVIOUS
  <1> HIDE DEF r
  <1>3. PICK y : Turn(p, y) /\ IsReq(y) /\ \A f \in Fields \ {"n"} : y[f] = r[f]
    BY <1>1, <1>2, Enters
  <1>4. req[p].op = "idle"
    BY <1>1, <1>2, Enters
  <1>5. /\ y.op = "sso" /\ y.pc = "conn" /\ y.subject = w.subject /\ y.user = w.email
        /\ y.seen = {} /\ y.auth = y.org
    BY <1>1, <1>3 DEF Fields
  <1>6. Others({"tickets"})
    BY Shape DEF Others, TableNames
  <1>7. Steps(y.org) /\ OwnerRemains'
    BY <1>3, <1>6, OneTable DEF ghosts
  <1>8. StepOK(y) /\ SparesOwner(y) /\ SignIn(y, db'.members, left', proved')
    BY <1>5 DEF StepOK, SparesOwner, SignIn
  <1>9. InScope(y, db') /\ OwnRow(y, db', New')
    BY <1>5 DEF InScope, OwnRow
  <1>10. ReqOK(y, db', left', proved', New')
    BY <1>3, <1>8, <1>9 DEF ReqOK, IsReq
  <1> QED BY <1>3, <1>4, <1>7, <1>10, Lands

LEMMA HandlesCallback ==
    ASSUME IInv, NEW p \in Procs, OrgCallback(p)
    PROVE  Good(p)
  <1>1. CASE \E t \in db.tickets, w \in People :
               /\ Enter(p, [Blank EXCEPT !.op = "sso", !.pc = "conn", !.x = t.conn,
                                         !.subject = w.subject, !.user = w.email])
               /\ db' = [db EXCEPT !.tickets = @ \ {t}] /\ UNCHANGED ghosts
    <2>1. PICK t \in db.tickets, w \in People :
            /\ Enter(p, Returning(t.conn, w))
            /\ db' = [db EXCEPT !.tickets = @ \ {t}] /\ UNCHANGED ghosts
      BY <1>1 DEF Returning
    <2> QED BY <2>1, Returns
  <1>2. CASE LET found == LoadEnabledConnection(req[p].x) IN
             /\ At(p, "sso", "conn")
             /\ IF found = {} THEN Answer(p)
                ELSE \E c \in found : req' = [req EXCEPT ![p].conn = c, ![p].org = c.org,
                                                         ![p].auth = c.org, ![p].pc = "domain"]
             /\ db' = db /\ Quiet /\ UNCHANGED ghosts
    <2>1. CASE Answer(p)
      BY <1>2, <2>1, Answers DEF Quiet
    <2>2. CASE ~Answer(p)
      <3>1. PICK c \in db.conns :
              req' = [req EXCEPT ![p].conn = c, ![p].org = c.org,
                                 ![p].auth = c.org, ![p].pc = "domain"]
        BY <1>2, <2>2 DEF LoadEnabledConnection, OrgSsoConnection
      <3>2. req' = [req EXCEPT ![p] = Loading(req[p], c)]
        BY <3>1 DEF Loading
      <3> QED BY <1>2, <3>2, LoadsConnection DEF Quiet
    <2> QED BY <2>1, <2>2
  <1> QED BY <1>1, <1>2 DEF OrgCallback

LEMMA Asserts ==
    ASSUME IInv, NEW p \in Procs, NEW c \in db.conns, NEW x, NEW w \in People,
           Enter(p, Asserting(c, x, w)), db' = db, UNCHANGED ghosts
    PROVE  Good(p)
  <1> DEFINE r == Asserting(c, x, w)
  <1>1. /\ IsReq(r) /\ r.op = "sso" /\ r.pc = "consume" /\ r.subject = w.subject
        /\ r.user = w.email /\ r.seen = {} /\ r.conn = c /\ r.auth = c.org /\ r.org = c.org
    BY AssertFields
  <1>2. Enter(p, r)
    OBVIOUS
  <1> HIDE DEF r
  <1>3. PICK y : Turn(p, y) /\ IsReq(y) /\ \A f \in Fields \ {"n"} : y[f] = r[f]
    BY <1>1, <1>2, Enters
  <1>4. /\ y.op = "sso" /\ y.pc = "consume" /\ y.subject = w.subject /\ y.user = w.email
        /\ y.seen = {} /\ y.conn = c /\ y.auth = c.org /\ y.org = c.org
    BY <1>1, <1>3 DEF Fields
  <1>5. c.role # 0
    BY DEF IInv, StoreOK, ConnsOK
  <1>6. StepOK(y) /\ SparesOwner(y) /\ SignIn(y, db.members, left, proved)
    BY <1>4, <1>5 DEF StepOK, SparesOwner, SignIn
  <1>7. InScope(y, db) /\ OwnRow(y, db, New)
    BY <1>4 DEF InScope, OwnRow
  <1>8. ReqOK(y, db, left, proved, New)
    BY <1>3, <1>6, <1>7 DEF ReqOK, IsReq
  <1> QED BY <1>3, <1>8, Reads

(* A sign-in goes on after a statement about tickets or links. *)
Onward(pc, pc2) ==
  \/ pc = "consume" /\ pc2 = "domain"
  \/ pc = "link" /\ pc2 \in {"join", "member"}

LEMMA GoesOnward ==
    ASSUME IInv, NEW p \in Procs, NEW pc, Onward(req[p].pc, pc), req[p].op = "sso", Goto(p, pc),
           NEW t \in {"tickets", "links"}, Others({t}),
           count' = count, scene' = scene, UNCHANGED ghosts
    PROVE  Good(p)
  <1> DEFINE r == req[p]
             y == Going(r, pc)
  <1>1. IsReq(r) /\ StepOK(r) /\ SignIn(r, db.members, left, proved)
    BY Mine
  <1>2. pc \in {"domain", "join", "member"}
    BY DEF Onward
  <1>3. Turn(p, y)
    BY <1>2, GotoTurn
  <1>4. IsReq(y) /\ y.pc = pc /\ \A f \in Fields \ {"pc"} : y[f] = r[f]
    BY <1>1, SetsPc
  <1> HIDE DEF y
  <1>5. /\ y.op = r.op /\ y.auth = r.auth /\ y.org = r.org /\ y.x = r.x /\ y.conn = r.conn
        /\ y.subject = r.subject /\ y.user = r.user /\ y.role = r.role /\ y.seen = r.seen
    BY <1>4 DEF Fields
  <1>6. Steps(r.org) /\ OwnerRemains'
    BY <1>3, OneTable DEF ghosts
  <1>7. db'.members = db.members /\ left' = left /\ proved' = proved
    BY DEF Others, TableNames, ghosts
  <1>8. r.seen = {} /\ r.conn.org = r.org /\ r.conn.role # 0
    BY <1>1 DEF SignIn, Onward
  <1>9. StepOK(y) /\ SparesOwner(y)
    BY <1>2, <1>4, <1>5, <1>8 DEF StepOK, SparesOwner
  <1>10. SignIn(y, db'.members, left', proved')
    BY <1>1, <1>4, <1>5, <1>7, <1>8 DEF SignIn, Onward
  <1>11. r.pc # "find" /\ y.pc # "find" /\ r.op # "idle"
    BY <1>2, <1>4 DEF Onward
  <1> QED BY <1>3, <1>4, <1>5, <1>6, <1>9, <1>10, <1>11, Continues

LEMMA HandlesAssertion ==
    ASSUME IInv, NEW p \in Procs, OrgAcs(p)
    PROVE  Good(p)
  <1>1. CASE \E relay \in db.conns, t \in db.tickets, w \in People :
               /\ Enter(p, [Blank EXCEPT !.op = "sso", !.pc = "consume", !.conn = relay,
                                         !.org = relay.org, !.auth = relay.org, !.x = t.id,
                                         !.subject = w.subject, !.user = w.email])
               /\ db' = db /\ UNCHANGED ghosts
    <2>1. PICK c \in db.conns, t \in db.tickets, w \in People :
            Enter(p, Asserting(c, t.id, w)) /\ db' = db /\ UNCHANGED ghosts
      BY <1>1 DEF Asserting
    <2> QED BY <2>1, Asserts
  <1>2. CASE LET mine == {t \in db.tickets : t.id = req[p].x} IN
             /\ At(p, "sso", "consume")
             /\ Statement(p, mine # {}, [db EXCEPT !.tickets = @ \ mine], "domain")
             /\ UNCHANGED ghosts
    <2>1. PICK mine : mine = {t \in db.tickets : t.id = req[p].x}
      OBVIOUS
    <2>2. /\ count' = count /\ scene' = scene
          /\ \/ db' = db /\ Answer(p)
             \/ db' = [db EXCEPT !.tickets = @ \ mine] /\ Goto(p, "domain")
      BY <1>2, <2>1 DEF Statement, Quiet
    <2>3. CASE db' = db /\ Answer(p)
      BY <1>2, <2>2, <2>3, Answers
    <2>4. CASE db' = [db EXCEPT !.tickets = @ \ mine] /\ Goto(p, "domain")
      <3>1. Others({"tickets"})
        BY <2>4, Shape DEF Others, TableNames
      <3>2. Onward(req[p].pc, "domain") /\ req[p].op = "sso"
        BY <1>2 DEF At, Onward
      <3> QED BY <1>2, <2>2, <2>4, <3>1, <3>2, GoesOnward
    <2> QED BY <2>2, <2>3, <2>4
  <1> QED BY <1>1, <1>2 DEF OrgAcs

LEMMA LinksAccount ==
    ASSUME IInv, NEW p \in Procs, ResolveOrgUser(p)
    PROVE  Good(p)
  <1> DEFINE r == req[p]
             linked == {l.user : l \in {x \in db.links : x.conn = r.conn.id /\ x.subject = r.subject}}
             As(u, pc) == IF u \in Disabled THEN Answer(p)
                          ELSE req' = [req EXCEPT ![p].user = u, ![p].pc = pc]
  <1>1. CASE /\ At(p, "sso", "account")
             /\ \/ \E u \in linked : As(u, "member")
                \/ linked = {} /\ r.user \in db.users /\ As(r.user, "link")
                \/ /\ linked = {} /\ r.user \notin db.users
                   /\ Goto(p, IF r.conn.provision THEN "create" ELSE "done")
             /\ db' = db /\ Quiet /\ UNCHANGED ghosts
    <2>1. \/ Answer(p)
          \/ \E u : req' = [req EXCEPT ![p] = Becoming(r, u, "member")]
          \/ req' = [req EXCEPT ![p] = Becoming(r, r.user, "link")]
          \/ req' = [req EXCEPT ![p] = Going(r, "create")]
      BY <1>1 DEF Becoming, Going, Goto
    <2>2. Going(r, "create") = Becoming(r, r.user, "create")
      BY Mine, GoingIsBecoming
    <2>3. CASE Answer(p)
      BY <1>1, <2>3, Answers DEF Quiet
    <2>4. CASE \E u : req' = [req EXCEPT ![p] = Becoming(r, u, "member")]
      BY <1>1, <2>4, ResolvesAccount DEF Quiet
    <2>5. CASE req' = [req EXCEPT ![p] = Becoming(r, r.user, "link")]
      BY <1>1, <2>5, ResolvesAccount DEF Quiet
    <2>6. CASE req' = [req EXCEPT ![p] = Going(r, "create")]
      BY <1>1, <2>2, <2>6, ResolvesAccount DEF Quiet
    <2> QED BY <2>1, <2>3, <2>4, <2>5, <2>6
  <1>2. CASE /\ At(p, "sso", "link")
             /\ Statement(p, r.user \in db.users /\ linked \subseteq {r.user},
                          [db EXCEPT !.links = {l \in @ : ~(l.conn = r.conn.id /\ l.user = r.user)}
                                 \union {[conn |-> r.conn.id, subject |-> r.subject, user |-> r.user]}],
                          IF r.made THEN "join" ELSE "member")
             /\ UNCHANGED ghosts
    <2>1. PICK out : out = {l \in db.links : ~(l.conn = r.conn.id /\ l.user = r.user)}
                      \union {[conn |-> r.conn.id, subject |-> r.subject, user |-> r.user]}
      OBVIOUS
    <2>2. PICK pc \in {"join", "member"} : pc = IF r.made THEN "join" ELSE "member"
      OBVIOUS
    <2>3. /\ count' = count /\ scene' = scene
          /\ \/ db' = db /\ Answer(p)
             \/ db' = [db EXCEPT !.links = out] /\ Goto(p, pc)
      BY <1>2, <2>1, <2>2 DEF Statement, Quiet
    <2>4. CASE db' = db /\ Answer(p)
      BY <1>2, <2>3, <2>4, Answers
    <2>5. CASE db' = [db EXCEPT !.links = out] /\ Goto(p, pc)
      <3>1. Others({"links"})
        BY <2>5, Shape DEF Others, TableNames
      <3>2. Onward(r.pc, pc) /\ r.op = "sso"
        BY <1>2, <2>2 DEF At, Onward
      <3> QED BY <1>2, <2>3, <2>5, <3>1, <3>2, GoesOnward
    <2> QED BY <2>3, <2>4, <2>5
  <1> QED BY <1>1, <1>2 DEF ResolveOrgUser

LEMMA JoinsBySignIn ==
    ASSUME IInv, NEW p \in Procs, EnsureMembership(p)
    PROVE  Good(p)
  <1>1. CASE /\ At(p, "sso", "member")
             /\ req' = [req EXCEPT ![p].pc = IF RoleIn(db, req[p].org, req[p].user) = 0
                                             THEN "join" ELSE "issue",
                                   ![p].seen = Owners(db, req[p].org)]
             /\ db' = db /\ Quiet /\ UNCHANGED ghosts
    BY <1>1, ReadsMembership DEF Quiet
  <1>2. CASE /\ At(p, "sso", "join")
             /\ MemberWrite(p, UpsertMembership(db, req[p].org, req[p].user, req[p].conn.role),
                            "issue")
    <2>1. req[p].conn.role # 0 /\ req[p].seen # {req[p].user}
      BY <1>2, Mine DEF At, SignIn, SparesOwner
    <2> QED BY <1>2, <2>1, WritesMember DEF At
  <1> QED BY <1>1, <1>2 DEF EnsureMembership

(* A session is issued. *)
LEMMA Issues ==
    ASSUME IInv, NEW p \in Procs, req[p].pc = "issue", Answer(p), count' = count, scene' = scene,
           UNCHANGED ghosts, NEW s, s.user = req[p].user, s.org = req[p].org, s.how = req[p].op,
           s.claim = req[p].subject, db' = [db EXCEPT !.sessions = @ \union {s}]
    PROVE  Good(p)
  <1> DEFINE r == req[p]
  <1>1. StepOK(r) /\ SignIn(r, db.members, left, proved) /\ r.op \in {"accept", "sso"}
    BY Mine DEF StepOK
  <1>2. Turn(p, Blank)
    BY AnswerTurn
  <1>3. Others({"sessions"}) /\ db'.sessions = db.sessions \union {s}
    BY Shape DEF Others, TableNames
  <1>4. /\ db'.org = db.org /\ db'.next = db.next /\ db'.members = db.members
        /\ db'.invites = db.invites /\ db'.domains = db.domains /\ db'.conns = db.conns
    BY <1>3 DEF Others, TableNames
  <1>5. excused' = excused /\ left' = left /\ proved' = proved
    BY DEF ghosts
  <1>6. OrgStep(r.org) /\ MemStep(r.org) /\ InvStep(r.org) /\ DomStep(r.org) /\ ConnStep(r.org)
    BY <1>2, <1>4, <1>5, Unwritten
  <1>7. SesStep
    <2>1. r.op = "sso" => Joined(db.members, left, r.org, r.user) /\ Came(r.subject, r.org, proved)
      BY <1>1 DEF SignIn
    <2> QED BY <1>3, <1>4, <1>5, <2>1 DEF SesStep
  <1>8. Steps(r.org)
    BY <1>3, <1>5, <1>6, <1>7 DEF Steps, Others
  <1>9. OwnerRemains'
    BY <1>4, <1>5, OwnersKept
  <1> QED BY <1>1, <1>2, <1>8, <1>9, Ends

LEMMA CompletesLogin ==
    ASSUME IInv, NEW p \in Procs, CompleteLogin(p)
    PROVE  Good(p)
  <1> DEFINE r == req[p]
  <1>1. PICK s : s = [user |-> r.user, org |-> r.org, how |-> r.op, claim |-> r.subject]
    OBVIOUS
  <1>2. /\ r.pc = "issue" /\ count' = count /\ scene' = scene /\ UNCHANGED ghosts /\ Answer(p)
        /\ db' = db \/ db' = [db EXCEPT !.sessions = @ \union {s}]
    BY <1>1 DEF CompleteLogin, Statement, Quiet, Goto
  <1>3. s.user = r.user /\ s.org = r.org /\ s.how = r.op /\ s.claim = r.subject
    BY <1>1
  <1>4. CASE db' = db
    BY <1>2, <1>4, Answers
  <1>5. CASE db' = [db EXCEPT !.sessions = @ \union {s}]
    BY <1>2, <1>3, <1>5, Issues
  <1> QED BY <1>2, <1>4, <1>5

-----------------------------------------------------------------------------
(***************************************************************************)
(* Steps without a request                                                 *)
(***************************************************************************)
(* A number is given away, or none. *)
LEMMA Passes ==
    ASSUME IInv, req' = req, scene' = scene,
           count' = count \/ (count < scene.requests /\ count' = count + 1)
    PROVE  New' \subseteq New /\ Numbered(count, scene.requests, req)'
  <1> DEFINE last == scene.requests
  <1>1. /\ count \in Nat /\ last \in Nat /\ count <= last
        /\ req = [p \in Procs |-> req[p]]
        /\ \A p \in Procs : req[p].op # "idle" => req[p].n \in 1..count
        /\ \A p, q \in Procs :
             req[p].op # "idle" /\ req[q].op # "idle" /\ req[p].n = req[q].n => p = q
    BY DEF IInv, Numbered
  <1>2. count' \in Nat /\ count <= count' /\ count' <= last
    BY <1>1
  <1>3. Numbered(count', last, req)
    <2>1. \A p \in Procs : req[p].op # "idle" => req[p].n \in 1..count'
      BY <1>1, <1>2
    <2> QED BY <1>1, <1>2, <2>1 DEF Numbered
  <1>4. ((count' + 1)..last) \subseteq ((count + 1)..last)
    BY <1>1, <1>2
  <1>5. Numbers(count', last, req) \subseteq Numbers(count, last, req)
    BY <1>4 DEF Numbers
  <1> QED BY <1>3, <1>5 DEF New

LEMMA Alone ==
    ASSUME IInv, req' = req, scene' = scene, Settled, New' \subseteq New,
           Numbered(count, scene.requests, req)'
    PROVE  IInv'
  <1>1. ASSUME NEW q \in Procs
        PROVE  ReqOK(req'[q], db', left', proved', New')
    <2>1. ReqOK(req[q], db, left, proved, New) /\ OrgsOK(db.org, db.next)
      BY DEF IInv, New, StoreOK
    <2>2. ReqOK(req[q], db', left', proved', New')
      BY <2>1, ReqKept DEF Settled
    <2> QED BY <2>2
  <1> QED BY <1>1 DEF IInv, New, Settled

(* A sign-in is begun at the provider: a ticket is handed out. *)
LEMMA Starts ==
    ASSUME IInv, NEW kind, Start(kind)
    PROVE  IInv' /\ req' = req
  <1>1. PICK t : /\ count' = count + 1 /\ count < scene.requests
                 /\ db' = [db EXCEPT !.tickets = @ \union {t}]
                 /\ req' = req /\ scene' = scene
    BY DEF Start
  <1>2. New' \subseteq New /\ Numbered(count, scene.requests, req)'
    BY <1>1, Passes
  <1>3. Others({"tickets"})
    BY <1>1, Shape DEF Others, TableNames
  <1>4. /\ db'.org = db.org /\ db'.next = db.next /\ db'.members = db.members
        /\ db'.invites = db.invites /\ db'.domains = db.domains /\ db'.conns = db.conns
        /\ db'.sessions = db.sessions /\ db' = [f \in TableNames |-> db'[f]]
    BY <1>3 DEF Others, TableNames
  <1>5. UNCHANGED <<excused, left, proved>>
    BY DEF Start, ghosts
  <1>6. StoreOK(db, New)
    BY DEF IInv, New
  <1>7. Evolves(db, db, left, left, proved, proved, New, New') /\ StoreOK(db, New')
    BY <1>2, <1>6, Unmoved
  <1>8. StoreOK(db', New')
    BY <1>4, <1>7 DEF StoreOK
  <1>9. Evolves(db, db', left, left', proved, proved', New, New')
    BY <1>4, <1>5, <1>7 DEF Evolves, KeepsOrgs
  <1>10. Settled
    BY <1>4, <1>5, <1>8, <1>9, OwnersKept DEF Settled, IInv
  <1> QED BY <1>1, <1>2, <1>10, Alone

(* An account goes, and its memberships with it. *)
Leaving(rows, u) == {m \in rows : m.user # u}

LEMMA Leaves ==
    ASSUME NEW rows, MembersOK(rows), NEW u, NEW gone,
           \A m \in rows : m.user = u => <<m.org, u>> \in gone
    PROVE  /\ MembersOK(Leaving(rows, u))
           /\ \A m \in rows : Joined(Leaving(rows, u), gone, m.org, m.user)
  <1>1. MembersOK(Leaving(rows, u))
    BY DEF Leaving, MembersOK
  <1>2. ASSUME NEW m \in rows
        PROVE  Joined(Leaving(rows, u), gone, m.org, m.user)
    <2>1. CASE m.user = u
      BY <2>1 DEF Joined
    <2>2. CASE m.user # u
      <3>1. m \in Leaving(rows, u)
        BY <2>2 DEF Leaving
      <3> QED BY <3>1 DEF Joined
    <2> QED BY <2>1, <2>2
  <1> QED BY <1>1, <1>2

LEMMA DestroysUser ==
    ASSUME IInv, NEW u, UsersDestroy(u)
    PROVE  IInv' /\ req' = req
  <1>1. /\ req' = req /\ scene' = scene /\ count' = count /\ proved' = proved
        /\ db' = DeleteAccount(db, u)
    BY DEF UsersDestroy
  <1>2. New' \subseteq New /\ Numbered(count, scene.requests, req)'
    BY <1>1, Passes
  <1>3. /\ Others({"users", "members", "invites", "links", "sessions"})
        /\ db'.members = Leaving(db.members, u)
        /\ db'.invites \subseteq db.invites /\ db'.sessions \subseteq db.sessions
    BY <1>1, Shape DEF Others, TableNames, DeleteAccount, Leaving
  <1>4. /\ db'.org = db.org /\ db'.next = db.next /\ db'.domains = db.domains
        /\ db'.conns = db.conns /\ db' = [f \in TableNames |-> db'[f]]
    BY <1>3 DEF Others, TableNames
  <1>5. left \subseteq left' /\ \A m \in db.members : m.user = u => <<m.org, u>> \in left'
    BY DEF UsersDestroy
  <1>6. StoreOK(db, New)
    BY DEF IInv, New
  <1>7. /\ MembersOK(db'.members)
        /\ \A m \in db.members : Joined(db'.members, left', m.org, m.user)
    BY <1>3, <1>5, <1>6, Leaves DEF StoreOK
  <1>8. InvitesOK(db'.invites, New') /\ KeepsRows(db.invites, db'.invites, New)
    BY <1>2, <1>3, <1>6, InvitesShrink DEF StoreOK
  <1>9. Evolves(db, db, left, left, proved, proved, New, New') /\ StoreOK(db, New')
    BY <1>2, <1>6, Unmoved
  <1>10. StoreOK(db', New')
    BY <1>4, <1>7, <1>8, <1>9 DEF StoreOK
  <1>11. Evolves(db, db', left, left', proved, proved', New, New')
    BY <1>1, <1>4, <1>5, <1>7, <1>8, <1>9 DEF Evolves, KeepsOrgs
  <1>12. Signed(db'.sessions, db'.members, left', proved')
    <2>1. ASSUME NEW s \in db'.sessions, s.how = "sso"
          PROVE  Joined(db'.members, left', s.org, s.user) /\ Came(s.claim, s.org, proved')
      <3>1. Joined(db.members, left, s.org, s.user) /\ Came(s.claim, s.org, proved)
        BY <1>3, <2>1 DEF IInv, Signed
      <3>2. Joined(db'.members, left', s.org, s.user)
        BY <1>5, <1>7, <3>1, JoinedStays
      <3> QED BY <1>1, <3>1, <3>2
    <2> QED BY <2>1 DEF Signed
  <1>13. OwnerRemains'
    <2> DEFINE S == {m.org : m \in {x \in db.members : x.user = u}}
    <2>1. Excuse(S)
      BY DEF UsersDestroy
    <2>2. \A q : Owners(db', q) = {} => Owners(db, q) = {} \/ q \in S
      BY <1>3 DEF Owners, Leaving
    <2> HIDE DEF S
    <2> SUFFICES ASSUME NEW l \in Permalinks, db.org[l].id # NoOrg, Owners(db', db.org[l].id) = {}
                 PROVE  db.org[l].id \in excused'
      BY <1>4 DEF OwnerRemains
    <2>3. PICK q : q = db.org[l].id
      OBVIOUS
    <2>4. q \in excused \union S
      BY <2>2, <2>3 DEF IInv, OwnerRemains
    <2> QED BY <2>1, <2>3, <2>4 DEF Excuse
  <1>14. Settled
    BY <1>1, <1>4, <1>10, <1>11, <1>12, <1>13 DEF Settled, IInv
  <1> QED BY <1>1, <1>2, <1>14, Alone

-----------------------------------------------------------------------------
(***************************************************************************)
(* The theorems                                                            *)
(***************************************************************************)
LEMMA IInit ==
    ASSUME Init
    PROVE  IInv
  <1>1. /\ scene \in Scenes /\ db = scene.tables /\ count = 0 /\ left = {}
        /\ req = [p \in Procs |-> Blank]
    BY DEF Init
  <1>2. /\ scene.requests \in Nat /\ StoreOK(db, 1..scene.requests)
        /\ \A s \in db.sessions : s.how # "sso"
    BY <1>1, TenantAssumption
  <1>3. \A p \in Procs : req[p] = Blank /\ req[p].op = "idle"
    BY <1>1, BlankFields
  <1>4. Numbered(count, scene.requests, req)
    BY <1>1, <1>2, <1>3 DEF Numbered
  <1>5. Numbers(count, scene.requests, req) = 1..scene.requests
    BY <1>1, <1>2, <1>3 DEF Numbers
  <1>6. \A p \in Procs : ReqOK(req[p], db, left, proved, Numbers(count, scene.requests, req))
    BY <1>3, BlankOK
  <1>7. Proven(db.domains, proved)
    BY DEF Init, Proven
  <1>8. Signed(db.sessions, db.members, left, proved)
    BY <1>2 DEF Signed
  <1>9. OwnerRemains
    BY DEF Init, OwnerRemains, Owners
  <1> QED BY <1>1, <1>2, <1>4, <1>5, <1>6, <1>7, <1>8, <1>9 DEF IInv

(* The steps of a request, as Next lists them. *)
Acts(p) ==
  \/ Abandon(p) \/ CountOwners(p) \/ CreateAccount(p) \/ CompleteLogin(p)
  \/ MembersCreate(p) \/ MembersUpdate(p) \/ MembersDestroy(p)
  \/ InvitationsCreate(p) \/ InvitationsDestroy(p) \/ InvitationAccept(p)
  \/ OrganizationsCreate(p) \/ OrganizationsUpdate(p) \/ OrganizationsDestroy(p)
  \/ LimitsUpdate(p) \/ OrganizationSuspend(p) \/ OrganizationUnsuspend(p) \/ ApplyPolicy(p)
  \/ BillingCheckout(p) \/ BillingPortal(p) \/ BillingUsageSession(p) \/ BillingOrganization(p)
  \/ SsoDomainsCreate(p) \/ SsoDomainsVerify(p) \/ SsoDomainsDestroy(p)
  \/ SsoConnectionsCreate(p) \/ SsoConnectionsUpdate(p) \/ SsoConnectionsDestroy(p)
  \/ OrgCallback(p) \/ OrgAcs(p) \/ VerifiedHere(p) \/ ResolveOrgUser(p) \/ EnsureMembership(p)

LEMMA ActsAreGood ==
    ASSUME IInv, NEW p \in Procs, Acts(p)
    PROVE  Good(p)
  <1>1. Abandon(p) \/ CountOwners(p) \/ CreateAccount(p) \/ CompleteLogin(p) => Good(p)
    BY Abandons, Counts, CreatesAccount, CompletesLogin
  <1>2. MembersCreate(p) \/ MembersUpdate(p) \/ MembersDestroy(p) => Good(p)
    BY AddsMember, ChangesRole, DropsMember
  <1>3. InvitationsCreate(p) \/ InvitationsDestroy(p) \/ InvitationAccept(p) => Good(p)
    BY CreatesInvitation, DeletesInvitation, HandlesAcceptance
  <1>4. OrganizationsCreate(p) \/ OrganizationsUpdate(p) \/ OrganizationsDestroy(p) => Good(p)
    BY HandlesFounding, UpdatesOrganization, HandlesRazing
  <1>5. LimitsUpdate(p) \/ OrganizationSuspend(p) \/ OrganizationUnsuspend(p) => Good(p)
    BY AsksLimits
  <1>6. BillingCheckout(p) \/ BillingPortal(p) \/ BillingUsageSession(p) => Good(p)
    BY AsksBilling
  <1>7. ApplyPolicy(p) \/ BillingOrganization(p) => Good(p)
    BY AppliesPolicy, HandlesBilling
  <1>8. SsoDomainsCreate(p) \/ SsoDomainsVerify(p) \/ SsoDomainsDestroy(p) => Good(p)
    BY ClaimsDomain, VerifiesDomain, DisclaimsDomain
  <1>9. SsoConnectionsCreate(p) \/ SsoConnectionsUpdate(p) \/ SsoConnectionsDestroy(p) => Good(p)
    BY CreatesConnection, UpdatesConnection, DeletesConnection
  <1>10. \/ OrgCallback(p) \/ OrgAcs(p) \/ VerifiedHere(p) \/ ResolveOrgUser(p)
         \/ EnsureMembership(p)
         => Good(p)
    BY HandlesCallback, HandlesAssertion, ChecksDomain, LinksAccount, JoinsBySignIn
  <1> QED BY <1>1, <1>2, <1>3, <1>4, <1>5, <1>6, <1>7, <1>8, <1>9, <1>10 DEF Acts

(* Every step is a request's, or leaves the requests alone. *)
LEMMA Steppers ==
    ASSUME Next
    PROVE  \/ \E p \in Procs : Acts(p)
           \/ OrgStart \/ SamlOrgStart
           \/ \E u \in Users : UsersDestroy(u)
  BY DEF Next, Acts

LEMMA INext ==
    ASSUME IInv, Next
    PROVE  IInv' /\ (req' = req \/ \E p \in Procs : Good(p))
  <1>1. ASSUME NEW p \in Procs, Acts(p)
        PROVE  Good(p)
    BY <1>1, ActsAreGood
  <1>2. ASSUME OrgStart \/ SamlOrgStart
        PROVE  IInv' /\ req' = req
    BY <1>2, Starts DEF OrgStart, SamlOrgStart
  <1>3. ASSUME NEW u \in Users, UsersDestroy(u)
        PROVE  IInv' /\ req' = req
    BY <1>3, DestroysUser
  <1>4. \A p \in Procs : Good(p) => IInv'
    BY DEF Good
  <1> QED BY <1>1, <1>2, <1>3, <1>4, Steppers

LEMMA IStutters ==
    ASSUME IInv, UNCHANGED vars
    PROVE  IInv'
  <1>1. UNCHANGED <<db, req, count, scene, excused, left, proved>>
    BY DEF vars
  <1>2. OwnerRemains'
    BY <1>1 DEF IInv, OwnerRemains
  <1> QED BY <1>1, <1>2 DEF IInv

(* The invariant: the tables obey their schema, and what each request in   *)
(* progress relies on is so.                                               *)
THEOREM TenantsInvariant == Spec => []IInv
  <1>1. Init => IInv
    BY IInit
  <1>2. IInv /\ [Next]_vars => IInv'
    BY INext, IStutters
  <1> QED BY <1>1, <1>2, PTL DEF Spec

(* members_update and members_destroy never take the last owner from an    *)
(* organization, however requests interleave, fail or are abandoned, but   *)
(* for the exceptions that are listed in excused.                          *)
THEOREM OwnerTheorem == Spec => []OwnerRemains
  <1>1. IInv => OwnerRemains
    BY DEF IInv
  <1> QED BY <1>1, TenantsInvariant, PTL

(* complete_login gives a session through an organization's provider to    *)
(* its members only, whose address is in a domain it has proved.           *)
THEOREM SsoTheorem == Spec => []SsoInsideTenant
  <1>1. ASSUME IInv
        PROVE  SsoInsideTenant
    <2> SUFFICES ASSUME NEW s \in db.sessions, s.how = "sso"
                 PROVE  /\ RoleIn(db, s.org, s.user) # 0 \/ <<s.org, s.user>> \in left
                        /\ \E w \in People : w.subject = s.claim /\
                                             <<s.org, DomainOf[w.email]>> \in proved
      BY DEF SsoInsideTenant
    <2>1. Joined(db.members, left, s.org, s.user) /\ Came(s.claim, s.org, proved)
      BY <1>1 DEF IInv, Signed
    <2>2. MembersOK(db.members)
      BY <1>1 DEF IInv, StoreOK
    <2>3. RoleIn(db, s.org, s.user) # 0 \/ <<s.org, s.user>> \in left
      BY <2>1, <2>2, RoleFacts DEF Joined
    <2> QED BY <2>1, <2>3 DEF Came
  <1> QED BY <1>1, TenantsInvariant, PTL

(* The step of a request, as WithinScope speaks of it. *)
Scoped ==
  \A p \in Procs, l \in Permalinks :
    LET o == db.org[l].id IN
    req[p].op # "idle" /\ req[p] # req'[p] /\ o # NoOrg /\ RowsOf(db, o) # RowsOf(db', o) =>
      req[p].auth = o \/ (req[p].org = o /\ ~Live(db, req[p].auth))

LEMMA ScopedStep ==
    ASSUME IInv, Next
    PROVE  Scoped
  <1> SUFFICES ASSUME NEW p \in Procs, NEW o, req[p].op # "idle", req[p] # req'[p],
                      RowsOf(db, o) # RowsOf(db', o)
               PROVE  req[p].auth = o \/ (req[p].org = o /\ ~Live(db, req[p].auth))
    BY DEF Scoped
  <1>1. PICK q \in Procs : Good(q)
    BY INext
  <1>2. PICK y : req' = [req EXCEPT ![q] = y]
    BY <1>1 DEF Good, Turn
  <1>3. q = p
    BY <1>2
  <1>4. Home(p)
    BY <1>1, <1>3 DEF Good
  <1>5. req[p].pc # "find" /\ o = req[p].org
    BY <1>4 DEF Home
  <1>6. InScope(req[p], db)
    BY Mine
  <1> QED BY <1>5, <1>6 DEF InScope

(* A request changes rows of the organization the middleware let it into,  *)
(* whatever row it names by its id: no handler reaches into another        *)
(* organization, unless the permalink has changed hands meanwhile.         *)
THEOREM ScopeTheorem == Spec => WithinScope
  <1>1. IInv /\ [Next]_vars => [Scoped]_vars
    BY ScopedStep
  <1> QED BY <1>1, TenantsInvariant, PTL DEF Spec, WithinScope, Scoped
-----------------------------------------------------------------------------
(***************************************************************************)
(* What was last asked for                                                 *)
(***************************************************************************)
Settings == {"limits", "billing"}

(* A request that changes a setting has found an organization, whose       *)
(* number will not be given to another.                                    *)
FoundOrg(r, next) == r.op \in Settings /\ r.pc # "find" => r.org \in 0..(next - 1)

(* What was asked of an organization or a connection: no other will take   *)
(* its number, and the word holds.                                         *)
Numeral(what, next, new) ==
  /\ what = <<what[1], what[2]>>
  /\ \/ what[1] \in {"limit", "suspended", "customer"} /\ what[2] \in 0..(next - 1)
     \/ what[1] = "secret" /\ what[2] \notin {10 + k : k \in new}

Word(what, a, d) ==
  \/ a.overlap
  \/ ~Live(d, what[2]) /\ what[1] # "secret"
  \/ what[1] = "limit" /\ RowOf(d, what[2]).limit = a.want
  \/ what[1] = "suspended" /\ RowOf(d, what[2]).suspended = a.want
  \/ what[1] = "customer" /\ RowOf(d, what[2]).customer = a.want
  \/ what[1] = "secret" /\ \A c \in d.conns : c.id = what[2] => c.secret = a.want

IsAsk(a) == a = [f \in {"want", "overlap"} |-> a[f]]

WordInv ==
  /\ \A p \in Procs : FoundOrg(req[p], db.next)
  /\ \A what \in DOMAIN asked : /\ IsAsk(asked[what])
                                /\ Numeral(what, db.next, New)
                                /\ Word(what, asked[what], db)

(***************************************************************************)
(* A step that asks for nothing leaves every word as it is.                *)
(***************************************************************************)
(* The rows still say what they said of the settings. *)
SameRows ==
  /\ db'.next \in Nat /\ db.next <= db'.next
  /\ \A o \in 0..(db.next - 1) :
       Live(db', o) => /\ Live(db, o)
                       /\ RowOf(db', o).limit = RowOf(db, o).limit
                       /\ RowOf(db', o).suspended = RowOf(db, o).suspended
                       /\ RowOf(db', o).customer = RowOf(db, o).customer

SameSecrets ==
  \A c \in db'.conns : \/ c.id \in {10 + k : k \in New}
                       \/ \E b \in db.conns : b.id = c.id /\ b.secret = c.secret

Mute(p) == FoundOrg(req'[p], db'.next)

(* The words of before the step. *)
LEMMA WordStays ==
    ASSUME IInv, NEW what, NEW a, Numeral(what, db.next, New), Word(what, a, db),
           New' \subseteq New, SameRows, SameSecrets
    PROVE  Numeral(what, db'.next, New') /\ Word(what, a, db')
  <1>1. /\ db.next \in Nat /\ db'.next \in Nat /\ db.next <= db'.next
        /\ 0..(db.next - 1) \subseteq 0..(db'.next - 1)
    BY Shape DEF SameRows, OrgsOK
  <1> DEFINE T == {10 + k : k \in New}
             U == {10 + k : k \in New'}
  <1>2. U \subseteq T
    OBVIOUS
  <1>3. /\ Numeral(what, db.next, New) =>
             \/ what[1] \in {"limit", "suspended", "customer"} /\ what[2] \in 0..(db.next - 1)
             \/ what[1] = "secret" /\ what[2] \notin T
        /\ what = <<what[1], what[2]>>
        /\ \/ what[1] \in {"limit", "suspended", "customer"} /\ what[2] \in 0..(db'.next - 1)
           \/ what[1] = "secret" /\ what[2] \notin U
           => Numeral(what, db'.next, New')
        /\ \A c \in db'.conns : c.id \in T \/ \E b \in db.conns : b.id = c.id /\ b.secret = c.secret
    BY DEF Numeral, SameSecrets
  <1> HIDE DEF T, U
  <1>4. Numeral(what, db'.next, New')
    BY <1>1, <1>2, <1>3
  <1>5. CASE what[1] = "secret"
    <2>1. \A c \in db'.conns : c.id = what[2] => \E b \in db.conns : b.id = c.id /\ b.secret = c.secret
      BY <1>3, <1>5
    <2> QED BY <1>4, <1>5, <2>1 DEF Word
  <1>6. CASE what[1] \in {"limit", "suspended", "customer"}
    <2>1. what[2] \in 0..(db.next - 1)
      BY <1>3, <1>6
    <2> QED BY <1>4, <1>6, <2>1 DEF Word, SameRows
  <1> QED BY <1>3, <1>5, <1>6

LEMMA WordsStay ==
    ASSUME IInv, WordInv, asked' = asked, New' \subseteq New, SameRows, SameSecrets,
           \A p \in Procs : FoundOrg(req'[p], db'.next)
    PROVE  WordInv'
  <1> SUFFICES ASSUME NEW what \in DOMAIN asked
               PROVE  /\ IsAsk(asked[what]) /\ Numeral(what, db'.next, New')
                      /\ Word(what, asked[what], db')
    BY DEF WordInv
  <1>1. IsAsk(asked[what]) /\ Numeral(what, db.next, New) /\ Word(what, asked[what], db)
    BY DEF WordInv
  <1> QED BY <1>1, WordStays

(* The organizations and the connections are not written. *)
LEMMA TablesSame ==
    ASSUME IInv, db'.org = db.org, db'.next = db.next
    PROVE  SameRows
  <1>1. db.next \in Nat
    BY Shape DEF OrgsOK
  <1>2. \A o : /\ Live(db', o) <=> Live(db, o)
               /\ RowOf(db', o) = RowOf(db, o)
    BY DEF Live, RowOf, LinkOf
  <1> QED BY <1>1, <1>2 DEF SameRows

LEMMA SecretsSame ==
    ASSUME db'.conns \subseteq db.conns
    PROVE  SameSecrets
  BY DEF SameSecrets

(* The requests that did not move. *)
LEMMA OthersFound ==
    ASSUME IInv, WordInv, NEW p \in Procs, NEW y, Turn(p, y), db.next <= db'.next,
           db'.next \in Nat, Mute(p)
    PROVE  \A q \in Procs : FoundOrg(req'[q], db'.next)
  <1>1. db.next \in Nat
    BY Shape DEF OrgsOK
  <1> SUFFICES ASSUME NEW q \in Procs, q # p
               PROVE  FoundOrg(req'[q], db'.next)
    BY DEF Mute
  <1>2. req'[q] = req[q] /\ FoundOrg(req[q], db.next)
    BY Turned DEF WordInv
  <1> QED BY <1>1, <1>2 DEF FoundOrg

(* A step of p that neither asks nor writes what others asked for. *)
Hushed(p) ==
  /\ asked' = asked
  /\ db'.org = db.org /\ db'.next = db.next /\ db'.conns = db.conns
  /\ Mute(p)

LEMMA HushKeeps ==
    ASSUME IInv, WordInv, NEW p \in Procs, Good(p), Hushed(p)
    PROVE  WordInv'
  <1>1. PICK y : Turn(p, y)
    BY DEF Good
  <1>2. New' \subseteq New
    BY <1>1, Turned
  <1>3. db.next \in Nat
    BY Shape DEF OrgsOK
  <1>4. SameRows /\ SameSecrets
    BY TablesSame, SecretsSame DEF Hushed
  <1>5. \A q \in Procs : FoundOrg(req'[q], db'.next)
    BY <1>1, <1>3, OthersFound DEF Hushed
  <1> QED BY <1>2, <1>4, <1>5, WordsStay DEF Hushed

(* Which requests are mute. *)
LEMMA MuteAnswer ==
    ASSUME IInv, NEW p \in Procs, Answer(p)
    PROVE  Mute(p)
  <1>1. req'[p] = Blank
    BY DEF Answer, IInv, Numbered
  <1> QED BY <1>1, BlankFields DEF Mute, FoundOrg, Settings

LEMMA MuteMoves ==
    ASSUME IInv, NEW p \in Procs, NEW y, req' = [req EXCEPT ![p] = y],
           y.op \notin Settings \/ y.pc = "find"
    PROVE  Mute(p)
  <1>1. req'[p] = y
    BY DEF IInv, Numbered
  <1> QED BY <1>1 DEF Mute, FoundOrg

LEMMA MuteGoto ==
    ASSUME IInv, NEW p \in Procs, NEW pc, Goto(p, pc), req[p].op \notin Settings
    PROVE  Mute(p)
  <1>1. CASE pc = "done"
    BY <1>1, MuteAnswer DEF Goto
  <1>2. CASE pc # "done"
    <2>1. req' = [req EXCEPT ![p] = Going(req[p], pc)]
      BY <1>2 DEF Goto, Going
    <2>2. Going(req[p], pc).op = req[p].op
      BY Mine, SetsPc DEF Fields
    <2> QED BY <2>1, <2>2, MuteMoves
  <1> QED BY <1>1, <1>2

(* Nothing is written and nothing asked for. *)
LEMMA HushReads ==
    ASSUME IInv, NEW p \in Procs, db' = db, UNCHANGED ghosts, Mute(p)
    PROVE  Hushed(p)
  BY DEF Hushed, ghosts

LEMMA HushEnters ==
    ASSUME IInv, NEW p \in Procs, NEW r, IsReq(r), Enter(p, r), r.op \notin Settings \/ r.pc = "find"
    PROVE  Mute(p)
  <1> DEFINE y == [r EXCEPT !.n = count + 1]
  <1>1. req' = [req EXCEPT ![p] = y]
    BY DEF Enter
  <1>2. y.op = r.op /\ y.pc = r.pc
    BY DEF IsReq, Fields
  <1> HIDE DEF y
  <1> QED BY <1>1, <1>2, MuteMoves

LEMMA HushAuth ==
    ASSUME IInv, NEW p \in Procs, NEW resource, NEW r, IsReq(r), AuthMiddleware(p, resource, r)
    PROVE  Hushed(p)
  <1>1. PICK c, a, l, o : /\ Enter(p, [r EXCEPT !.by = c, !.acting = a, !.link = l, !.auth = o,
                                                !.pc = "find"])
                          /\ db' = db /\ UNCHANGED ghosts
    BY DEF AuthMiddleware
  <1> DEFINE s == [r EXCEPT !.by = c, !.acting = a, !.link = l, !.auth = o, !.pc = "find"]
  <1>2. IsReq(s) /\ s.pc = "find"
    BY DEF IsReq, Fields
  <1> HIDE DEF s
  <1>3. Enter(p, s)
    BY <1>1 DEF s
  <1>4. Mute(p)
    BY <1>2, <1>3, HushEnters
  <1> QED BY <1>1, <1>4, HushReads

LEMMA HushFinds ==
    ASSUME IInv, NEW p \in Procs, NEW test, NEW r, IsReq(r), Find(p, test, r), r.op \notin Settings
    PROVE  Hushed(p)
  <1>1. PICK o : /\ Answer(p) \/ req' = [req EXCEPT ![p] = [r EXCEPT !.org = o]]
                 /\ db' = db /\ UNCHANGED ghosts
    BY DEF Find
  <1> DEFINE y == [r EXCEPT !.org = o]
  <1>2. y.op = r.op
    BY DEF IsReq, Fields
  <1> HIDE DEF y
  <1>3. Mute(p)
    <2>1. CASE Answer(p)
      BY <2>1, MuteAnswer
    <2>2. CASE req' = [req EXCEPT ![p] = y]
      BY <1>2, <2>2, MuteMoves
    <2> QED BY <1>1, <2>1, <2>2 DEF y
  <1> QED BY <1>1, <1>3, HushReads

(* The handler goes on with its request, for the next step, with the       *)
(* owners it has seen. *)
LEMMA HushFindsPc ==
    ASSUME IInv, NEW p \in Procs, NEW test, NEW pc, req[p].op \notin Settings,
           Find(p, test, [req[p] EXCEPT !.pc = pc])
    PROVE  Hushed(p)
  <1>1. IsReq(req[p])
    BY Mine
  <1>2. IsReq(Going(req[p], pc)) /\ Going(req[p], pc).op = req[p].op
    BY <1>1, SetsPc DEF Fields
  <1>3. Find(p, test, Going(req[p], pc))
    BY DEF Going
  <1> QED BY <1>2, <1>3, HushFinds

LEMMA HushFindsSeen ==
    ASSUME IInv, NEW p \in Procs, NEW test, NEW pc, NEW seen, req[p].op \notin Settings,
           Find(p, test, [req[p] EXCEPT !.pc = pc, !.seen = seen])
    PROVE  Hushed(p)
  <1>1. IsReq(req[p])
    BY Mine
  <1>2. IsReq(Seeing(req[p], pc, seen)) /\ Seeing(req[p], pc, seen).op = req[p].op
    BY <1>1, SetsSeen DEF Fields
  <1>3. Find(p, test, Seeing(req[p], pc, seen))
    BY DEF Seeing
  <1> QED BY <1>2, <1>3, HushFinds

(* A statement about another table. *)
LEMMA OtherTable ==
    ASSUME IInv, NEW rows,
           \E t \in {"users", "members", "invites", "domains", "links", "tickets", "sessions"} :
             db' = [db EXCEPT ![t] = rows]
    PROVE  db'.org = db.org /\ db'.next = db.next /\ db'.conns = db.conns
  BY Shape DEF TableNames

LEMMA HushWrites ==
    ASSUME IInv, NEW p \in Procs, NEW keys, NEW d, NEW pc, NEW rows, Statement(p, keys, d, pc),
           \E t \in {"users", "members", "invites", "domains", "links", "tickets", "sessions"} :
             d = [db EXCEPT ![t] = rows],
           req[p].op \notin Settings, asked' = asked
    PROVE  Hushed(p)
  <1>1. \/ db' = d /\ Goto(p, pc)
        \/ db' = db /\ Answer(p)
    BY DEF Statement
  <1>2. Mute(p)
    BY <1>1, MuteGoto, MuteAnswer
  <1> QED BY <1>1, <1>2, OtherTable DEF Hushed

LEMMA HushMember ==
    ASSUME IInv, NEW p \in Procs, NEW role, NEW pc, req[p].op \notin Settings,
           MemberWrite(p, UpsertMembership(db, req[p].org, req[p].user, role), pc)
    PROVE  Hushed(p)
  <1>1. PICK rows : rows = Upserted(db.members, req[p].org, req[p].user, role)
    OBVIOUS
  <1>2. UpsertMembership(db, req[p].org, req[p].user, role) = [db EXCEPT !["members"] = rows]
    BY <1>1 DEF UpsertMembership, Upserted
  <1>3. /\ Statement(p, Live(db, req[p].org) /\ req[p].user \in db.users,
                     [db EXCEPT !["members"] = rows], pc)
        /\ asked' = asked
    BY <1>2 DEF MemberWrite
  <1> QED BY <1>3, HushWrites

LEMMA HushUpdate ==
    ASSUME IInv, NEW p \in Procs, Answer(p), asked' = asked,
           db'.org = db.org, db'.next = db.next, db'.conns = db.conns
    PROVE  Hushed(p)
  BY MuteAnswer DEF Hushed

(* Requests in progress: abandoned, counting owners, making an account. *)
LEMMA HushAbandon ==
    ASSUME IInv, NEW p \in Procs, Abandon(p) \/ CountOwners(p)
    PROVE  Hushed(p)
  <1>1. CASE Abandon(p)
    BY <1>1, MuteAnswer, HushReads DEF Abandon
  <1>2. CASE CountOwners(p)
    <2>1. StepOK(req[p]) /\ req[p].pc = "count" /\ IsReq(req[p])
      BY <1>2, Mine DEF CountOwners
    <2>2. req[p].op \notin Settings
      BY <2>1 DEF StepOK, Settings
    <2> DEFINE y == Seeing(req[p], "write", Owners(db, req[p].org))
    <2>3. Answer(p) \/ req' = [req EXCEPT ![p] = y]
      BY <1>2 DEF CountOwners, Seeing
    <2>4. y.op = req[p].op
      BY <2>1, SetsSeen DEF Fields
    <2> HIDE DEF y
    <2>5. Mute(p)
      BY <2>2, <2>3, <2>4, MuteAnswer, MuteMoves
    <2> QED BY <1>2, <2>5, HushReads DEF CountOwners
  <1> QED BY <1>1, <1>2

LEMMA HushAccount ==
    ASSUME IInv, NEW p \in Procs, CreateAccount(p)
    PROVE  Hushed(p)
  <1>1. StepOK(req[p]) /\ req[p].pc = "create" /\ IsReq(req[p])
    BY Mine DEF CreateAccount
  <1>2. req[p].op \notin Settings
    BY <1>1 DEF StepOK, Settings
  <1>3. CASE db' = db /\ Answer(p)
    BY <1>3, MuteAnswer, HushReads DEF CreateAccount
  <1>4. CASE /\ db' = [db EXCEPT !.users = @ \union {req[p].user}]
             /\ req' = [req EXCEPT ![p].made = TRUE,
                                   ![p].pc = IF req[p].op = "accept" THEN "join" ELSE "link"]
    <2>1. PICK pc : pc = IF req[p].op = "accept" THEN "join" ELSE "link"
      OBVIOUS
    <2> DEFINE y == Made(req[p], pc)
    <2>2. req = [q \in Procs |-> req[q]]
      BY DEF IInv, Numbered
    <2>3. req' = [req EXCEPT ![p] = y]
      BY <1>4, <2>1, <2>2 DEF Made
    <2>4. y.op = req[p].op
      BY <1>1 DEF Made, IsReq, Fields
    <2> HIDE DEF y
    <2>5. Mute(p)
      BY <1>2, <2>3, <2>4, MuteMoves
    <2>6. db'.org = db.org /\ db'.next = db.next /\ db'.conns = db.conns
      BY <1>4, OtherTable
    <2> QED BY <2>5, <2>6 DEF Hushed, CreateAccount, ghosts
  <1> QED BY <1>3, <1>4 DEF CreateAccount

LEMMA HushLogin ==
    ASSUME IInv, NEW p \in Procs, CompleteLogin(p)
    PROVE  Hushed(p)
  <1>1. PICK rows : rows = db.sessions \union {[user |-> req[p].user, org |-> req[p].org,
                                               how |-> req[p].op, claim |-> req[p].subject]}
    OBVIOUS
  <1>2. StepOK(req[p]) /\ req[p].pc = "issue"
    BY Mine DEF CompleteLogin
  <1>3. req[p].op \notin Settings
    BY <1>2 DEF StepOK, Settings
  <1>4. Statement(p, req[p].user \in db.users, [db EXCEPT !["sessions"] = rows], "done")
    BY <1>1 DEF CompleteLogin
  <1>5. asked' = asked
    BY DEF CompleteLogin, ghosts
  <1> QED BY <1>3, <1>4, <1>5, HushWrites

(* Members. *)
LEMMA HushMembersCreate ==
    ASSUME IInv, NEW p \in Procs, MembersCreate(p)
    PROVE  Hushed(p)
  <1>1. CASE \E u \in Users, role \in Grants :
               AuthMiddleware(p, "members", [Blank EXCEPT !.op = "add", !.user = u, !.role = role])
    <2>1. PICK u, role : AuthMiddleware(p, "members", AskRole("add", u, role))
      BY <1>1 DEF AskRole
    <2> QED BY <2>1, Asks, HushAuth
  <1>2. CASE /\ At(p, "add", "find")
             /\ Find(p, /\ req[p].role = Owner => IsOwner(req[p])
                        /\ req[p].user \in db.users
                        /\ RoleIn(db, Found(p), req[p].user) = 0,
                     [req[p] EXCEPT !.pc = "write", !.seen = Owners(db, Found(p))])
    BY <1>2, HushFindsSeen DEF At, Settings
  <1>3. CASE /\ At(p, "add", "find")
             /\ req' = [req EXCEPT ![p].pc = "write", ![p].org = Found(p),
                                   ![p].seen = Owners(db, Found(p)) \ {req[p].user}]
             /\ db' = db /\ UNCHANGED ghosts
    <2>1. PICK o, seen : req' = [req EXCEPT ![p].pc = "write", ![p].org = o, ![p].seen = seen]
      BY <1>3
    <2>2. req = [q \in Procs |-> req[q]] /\ IsReq(req[p]) /\ req[p].op = "add"
      BY <1>3, Mine DEF IInv, Numbered, At
    <2> DEFINE y == [req[p] EXCEPT !.pc = "write", !.org = o, !.seen = seen]
    <2>3. req' = [req EXCEPT ![p] = y]
      BY <2>1, <2>2
    <2>4. y.op = "add"
      BY <2>2 DEF IsReq, Fields
    <2> HIDE DEF y
    <2>5. Mute(p)
      BY <2>3, <2>4, MuteMoves DEF Settings
    <2> QED BY <1>3, <2>5, HushReads
  <1>4. CASE /\ At(p, "add", "write")
             /\ MemberWrite(p, UpsertMembership(db, req[p].org, req[p].user, req[p].role), "done")
    BY <1>4, HushMember DEF At, Settings
  <1> QED BY <1>1, <1>2, <1>3, <1>4 DEF MembersCreate

LEMMA HushMembersUpdate ==
    ASSUME IInv, NEW p \in Procs, MembersUpdate(p)
    PROVE  Hushed(p)
  <1>1. CASE \E u \in Users, role \in Grants :
               AuthMiddleware(p, "members", [Blank EXCEPT !.op = "role", !.user = u, !.role = role])
    <2>1. PICK u, role : AuthMiddleware(p, "members", AskRole("role", u, role))
      BY <1>1 DEF AskRole
    <2> QED BY <2>1, Asks, HushAuth
  <1>2. CASE /\ At(p, "role", "find")
             /\ \E test, pc : Find(p, test, [req[p] EXCEPT !.pc = pc, !.seen = Owners(db, Found(p))])
    BY <1>2, HushFindsSeen DEF At, Settings
  <1>3. CASE /\ At(p, "role", "write")
             /\ MemberWrite(p, UpsertMembership(db, req[p].org, req[p].user, req[p].role), "done")
    BY <1>3, HushMember DEF At, Settings
  <1> QED BY <1>1, <1>2, <1>3 DEF MembersUpdate

LEMMA HushMembersDestroy ==
    ASSUME IInv, NEW p \in Procs, MembersDestroy(p)
    PROVE  Hushed(p)
  <1>1. CASE \E u \in Users :
               AuthMiddleware(p, "members", [Blank EXCEPT !.op = "remove", !.user = u])
    <2>1. PICK u : AuthMiddleware(p, "members", AskUser("remove", u))
      BY <1>1 DEF AskUser
    <2> QED BY <2>1, Asks, HushAuth
  <1>2. CASE /\ At(p, "remove", "find")
             /\ \E test, pc : Find(p, test, [req[p] EXCEPT !.pc = pc, !.seen = Owners(db, Found(p))])
    BY <1>2, HushFindsSeen DEF At, Settings
  <1>3. CASE /\ db' = DeleteMembership(db, req[p].org, req[p].user) /\ Answer(p) /\ asked' = asked
    <2>1. PICK rows : db' = [db EXCEPT !["members"] = rows]
      BY <1>3 DEF DeleteMembership
    <2> QED BY <1>3, <2>1, OtherTable, HushUpdate
  <1> QED BY <1>1, <1>2, <1>3 DEF MembersDestroy

(* Invitations. *)
LEMMA HushInvitationsCreate ==
    ASSUME IInv, NEW p \in Procs, InvitationsCreate(p)
    PROVE  Hushed(p)
  <1>1. CASE \E u \in Users, role \in Grants :
               AuthMiddleware(p, "invitations",
                              [Blank EXCEPT !.op = "invite", !.user = u, !.role = role])
    <2>1. PICK u, role : AuthMiddleware(p, "invitations", AskRole("invite", u, role))
      BY <1>1 DEF AskRole
    <2> QED BY <2>1, Asks, HushAuth
  <1>2. CASE /\ At(p, "invite", "find")
             /\ \E test : Find(p, test, [req[p] EXCEPT !.pc = "write"])
    BY <1>2, HushFindsPc DEF At, Settings
  <1>3. CASE /\ At(p, "invite", "write")
             /\ \E keys, i : Statement(p, keys, CreateInvitation(db, i), "done")
             /\ UNCHANGED ghosts
    <2>1. PICK keys, i : Statement(p, keys, CreateInvitation(db, i), "done")
      BY <1>3
    <2>2. PICK rows : CreateInvitation(db, i) = [db EXCEPT !["invites"] = rows]
      BY DEF CreateInvitation
    <2>3. req[p].op \notin Settings /\ asked' = asked
      BY <1>3 DEF At, Settings, ghosts
    <2> QED BY <2>1, <2>2, <2>3, HushWrites
  <1> QED BY <1>1, <1>2, <1>3 DEF InvitationsCreate

LEMMA HushInvitationsDestroy ==
    ASSUME IInv, NEW p \in Procs, InvitationsDestroy(p)
    PROVE  Hushed(p)
  <1>1. CASE \E i \in db.invites :
               AuthMiddleware(p, "invitations", [Blank EXCEPT !.op = "uninvite", !.x = i.id])
    <2>1. PICK x : AuthMiddleware(p, "invitations", AskRow("uninvite", x))
      BY <1>1 DEF AskRow
    <2> QED BY <2>1, Asks, HushAuth
  <1>2. CASE At(p, "uninvite", "find") /\ Find(p, TRUE, [req[p] EXCEPT !.pc = "write"])
    BY <1>2, HushFindsPc DEF At, Settings
  <1>3. CASE /\ db' = DeleteInvitation(db, req[p].org, req[p].x)
             /\ Answer(p) /\ Quiet /\ UNCHANGED ghosts
    <2>1. PICK rows : db' = [db EXCEPT !["invites"] = rows]
      BY <1>3 DEF DeleteInvitation
    <2>2. asked' = asked
      BY <1>3 DEF ghosts
    <2> QED BY <1>3, <2>1, <2>2, OtherTable, HushUpdate
  <1> QED BY <1>1, <1>2, <1>3 DEF InvitationsDestroy

LEMMA HushAccept ==
    ASSUME IInv, NEW p \in Procs, InvitationAccept(p)
    PROVE  Hushed(p)
  <1>1. CASE \E i \in db.invites :
               /\ Enter(p, [Blank EXCEPT !.op = "accept",
                                         !.pc = IF i.email \in db.users THEN "join" ELSE "create",
                                         !.user = i.email, !.role = i.role, !.org = i.org,
                                         !.auth = i.org, !.x = i.id,
                                         !.seen = Owners(db, i.org) \ {i.email}])
               /\ db' = db /\ UNCHANGED ghosts
    <2>1. PICK i, pc, seen : Enter(p, Accepting(i, pc, seen))
      BY <1>1 DEF Accepting
    <2>2. IsReq(Accepting(i, pc, seen)) /\ Accepting(i, pc, seen).op = "accept"
      BY AcceptFields
    <2>3. Mute(p)
      BY <2>1, <2>2, HushEnters DEF Settings
    <2> QED BY <1>1, <2>3, HushReads
  <1>2. CASE /\ At(p, "accept", "join")
             /\ MemberWrite(p, UpsertMembership(db, req[p].org, req[p].user, req[p].role), "mark")
    BY <1>2, HushMember DEF At, Settings
  <1>3. CASE /\ At(p, "accept", "mark")
             /\ db' = MarkInvitationAccepted(db, req[p].x)
             /\ \E pc : Goto(p, pc)
             /\ UNCHANGED ghosts
    <2>1. PICK rows : db' = [db EXCEPT !["invites"] = rows]
      BY <1>3 DEF MarkInvitationAccepted
    <2>2. Mute(p)
      BY <1>3, MuteGoto DEF At, Settings
    <2> QED BY <1>3, <2>1, <2>2, OtherTable DEF Hushed, ghosts
  <1> QED BY <1>1, <1>2, <1>3 DEF InvitationAccept

(* Domains. *)
LEMMA HushDomainsCreate ==
    ASSUME IInv, NEW p \in Procs, SsoDomainsCreate(p)
    PROVE  Hushed(p)
  <1>1. CASE \E name \in Domains :
               AuthMiddleware(p, "sso", [Blank EXCEPT !.op = "claim", !.user = name])
    <2>1. PICK name : AuthMiddleware(p, "sso", AskUser("claim", name))
      BY <1>1 DEF AskUser
    <2> QED BY <2>1, Asks, HushAuth
  <1>2. CASE At(p, "claim", "find") /\ Find(p, TRUE, [req[p] EXCEPT !.pc = "write"])
    BY <1>2, HushFindsPc DEF At, Settings
  <1>3. CASE /\ At(p, "claim", "write")
             /\ \E keys : Statement(p, keys, CreateDomain(db, req[p].n, req[p].org, req[p].user), "done")
             /\ UNCHANGED ghosts
    <2>1. PICK rows : CreateDomain(db, req[p].n, req[p].org, req[p].user)
                        = [db EXCEPT !["domains"] = rows]
      BY DEF CreateDomain
    <2>2. req[p].op \notin Settings /\ asked' = asked
      BY <1>3 DEF At, Settings, ghosts
    <2> QED BY <1>3, <2>1, <2>2, HushWrites
  <1> QED BY <1>1, <1>2, <1>3 DEF SsoDomainsCreate

LEMMA HushDomainsVerify ==
    ASSUME IInv, NEW p \in Procs, SsoDomainsVerify(p)
    PROVE  Hushed(p)
  <1>1. CASE \E x \in db.domains, force \in 0..1 :
               AuthMiddleware(p, "sso", [Blank EXCEPT !.op = "verify", !.x = x.id, !.y = force])
    <2>1. PICK x, y : AuthMiddleware(p, "sso", AskMore("verify", x, y))
      BY <1>1 DEF AskMore
    <2> QED BY <2>1, Asks, HushAuth
  <1>2. CASE VerifyFind(p)
    BY <1>2, HushFindsPc DEF VerifyFind, At, Settings
  <1>3. CASE /\ At(p, "verify", "write")
             /\ \E keys : Statement(p, keys, MarkDomainVerified(db, req[p].x), "done")
             /\ asked' = asked
    <2>1. PICK rows : MarkDomainVerified(db, req[p].x) = [db EXCEPT !["domains"] = rows]
      BY DEF MarkDomainVerified
    <2>2. req[p].op \notin Settings
      BY <1>3 DEF At, Settings
    <2> QED BY <1>3, <2>1, <2>2, HushWrites
  <1> QED BY <1>1, <1>2, <1>3 DEF SsoDomainsVerify

LEMMA HushDomainsDestroy ==
    ASSUME IInv, NEW p \in Procs, SsoDomainsDestroy(p)
    PROVE  Hushed(p)
  <1>1. CASE \E x \in db.domains :
               AuthMiddleware(p, "sso", [Blank EXCEPT !.op = "disclaim", !.x = x.id])
    <2>1. PICK x : AuthMiddleware(p, "sso", AskRow("disclaim", x))
      BY <1>1 DEF AskRow
    <2> QED BY <2>1, Asks, HushAuth
  <1>2. CASE /\ At(p, "disclaim", "find")
             /\ \E test : Find(p, test, [req[p] EXCEPT !.pc = "write"])
    BY <1>2, HushFindsPc DEF At, Settings
  <1>3. CASE /\ db' = DeleteDomain(db, req[p].x) /\ Answer(p) /\ UNCHANGED ghosts
    <2>1. PICK rows : db' = [db EXCEPT !["domains"] = rows]
      BY <1>3 DEF DeleteDomain
    <2>2. asked' = asked
      BY <1>3 DEF ghosts
    <2> QED BY <1>3, <2>1, <2>2, OtherTable, HushUpdate
  <1> QED BY <1>1, <1>2, <1>3 DEF SsoDomainsDestroy

(* Signing in. *)
LEMMA HushCallback ==
    ASSUME IInv, NEW p \in Procs, OrgCallback(p)
    PROVE  Hushed(p)
  <1>1. CASE \E t \in db.tickets, w \in People :
               /\ Enter(p, [Blank EXCEPT !.op = "sso", !.pc = "conn", !.x = t.conn,
                                         !.subject = w.subject, !.user = w.email])
               /\ db' = [db EXCEPT !.tickets = @ \ {t}] /\ UNCHANGED ghosts
    <2>1. PICK t, w : /\ Enter(p, Returning(t.conn, w))
                      /\ db' = [db EXCEPT !.tickets = @ \ {t}]
      BY <1>1 DEF Returning
    <2>2. PICK rows : db' = [db EXCEPT !["tickets"] = rows]
      BY <2>1
    <2>3. IsReq(Returning(t.conn, w)) /\ Returning(t.conn, w).op = "sso"
      BY ReturnFields
    <2>4. Mute(p)
      BY <2>1, <2>3, HushEnters DEF Settings
    <2> QED BY <1>1, <2>2, <2>4, OtherTable DEF Hushed, ghosts
  <1>2. CASE /\ At(p, "sso", "conn")
             /\ \/ Answer(p)
                \/ \E c : req' = [req EXCEPT ![p].conn = c, ![p].org = c.org, ![p].auth = c.org,
                                             ![p].pc = "domain"]
             /\ db' = db /\ UNCHANGED ghosts
    <2>1. IsReq(req[p]) /\ req[p].op = "sso" /\ req = [q \in Procs |-> req[q]]
      BY <1>2, Mine DEF At, IInv, Numbered
    <2>2. ASSUME NEW c, req' = [req EXCEPT ![p].conn = c, ![p].org = c.org, ![p].auth = c.org,
                                           ![p].pc = "domain"]
          PROVE  Mute(p)
      <3>1. req' = [req EXCEPT ![p] = Loading(req[p], c)]
        BY <2>1, <2>2 DEF Loading
      <3>2. Loading(req[p], c).op = "sso"
        BY <2>1, SetsConn DEF Fields
      <3> QED BY <3>1, <3>2, MuteMoves DEF Settings
    <2>3. Mute(p)
      BY <1>2, <2>2, MuteAnswer
    <2> QED BY <1>2, <2>3, HushReads
  <1> QED BY <1>1, <1>2 DEF OrgCallback

LEMMA HushAcs ==
    ASSUME IInv, NEW p \in Procs, OrgAcs(p)
    PROVE  Hushed(p)
  <1>1. CASE \E relay \in db.conns, t \in db.tickets, w \in People :
               /\ Enter(p, [Blank EXCEPT !.op = "sso", !.pc = "consume", !.conn = relay,
                                         !.org = relay.org, !.auth = relay.org, !.x = t.id,
                                         !.subject = w.subject, !.user = w.email])
               /\ db' = db /\ UNCHANGED ghosts
    <2>1. PICK c, x, w : Enter(p, Asserting(c, x, w)) /\ db' = db /\ UNCHANGED ghosts
      BY <1>1 DEF Asserting
    <2>2. IsReq(Asserting(c, x, w)) /\ Asserting(c, x, w).op = "sso"
      BY AssertFields
    <2>3. Mute(p)
      BY <2>1, <2>2, HushEnters DEF Settings
    <2> QED BY <2>1, <2>3, HushReads
  <1>2. CASE /\ At(p, "sso", "consume")
             /\ \E keys, mine : Statement(p, keys, [db EXCEPT !.tickets = @ \ mine], "domain")
             /\ UNCHANGED ghosts
    <2>1. PICK keys, rows : Statement(p, keys, [db EXCEPT !["tickets"] = rows], "domain")
      BY <1>2
    <2>2. req[p].op \notin Settings /\ asked' = asked
      BY <1>2 DEF At, Settings, ghosts
    <2> QED BY <2>1, <2>2, HushWrites
  <1> QED BY <1>1, <1>2 DEF OrgAcs

LEMMA HushDomain ==
    ASSUME IInv, NEW p \in Procs, VerifiedHere(p)
    PROVE  Hushed(p)
  <1>1. Goto(p, "account") \/ Answer(p)
    BY DEF VerifiedHere
  <1>2. req[p].op \notin Settings
    BY DEF VerifiedHere, At, Settings
  <1>3. Mute(p)
    BY <1>1, <1>2, MuteGoto, MuteAnswer
  <1> QED BY <1>3, HushReads DEF VerifiedHere

LEMMA HushResolve ==
    ASSUME IInv, NEW p \in Procs, ResolveOrgUser(p)
    PROVE  Hushed(p)
  <1>1. req[p].op = "sso" /\ req[p].op \notin Settings /\ asked' = asked
    BY DEF ResolveOrgUser, At, Settings, ghosts
  <1>2. CASE /\ \/ Answer(p)
                \/ \E u, pc : req' = [req EXCEPT ![p].user = u, ![p].pc = pc]
                \/ \E pc : Goto(p, pc)
             /\ db' = db /\ UNCHANGED ghosts
    <2>1. ASSUME NEW u, NEW pc, req' = [req EXCEPT ![p].user = u, ![p].pc = pc]
          PROVE  Mute(p)
      <3>1. IsReq(req[p]) /\ req = [q \in Procs |-> req[q]]
        BY Mine DEF IInv, Numbered
      <3>2. req' = [req EXCEPT ![p] = Becoming(req[p], u, pc)]
        BY <2>1, <3>1 DEF Becoming
      <3>3. Becoming(req[p], u, pc).op = "sso"
        BY <1>1, <3>1, SetsUser DEF Fields
      <3> QED BY <3>2, <3>3, MuteMoves DEF Settings
    <2>2. Mute(p)
      BY <1>1, <1>2, <2>1, MuteAnswer, MuteGoto
    <2> QED BY <1>2, <2>2, HushReads
  <1>3. CASE \E keys, rows, pc : Statement(p, keys, [db EXCEPT !["links"] = rows], pc)
    BY <1>1, <1>3, HushWrites
  <1> QED BY <1>2, <1>3 DEF ResolveOrgUser

LEMMA HushMembership ==
    ASSUME IInv, NEW p \in Procs, EnsureMembership(p)
    PROVE  Hushed(p)
  <1>1. req[p].op = "sso" /\ req[p].op \notin Settings
    BY DEF EnsureMembership, At, Settings
  <1>2. CASE /\ \E pc, seen : req' = [req EXCEPT ![p].pc = pc, ![p].seen = seen]
             /\ db' = db /\ UNCHANGED ghosts
    <2>1. PICK pc, seen : req' = [req EXCEPT ![p].pc = pc, ![p].seen = seen]
      BY <1>2
    <2>2. IsReq(req[p]) /\ req = [q \in Procs |-> req[q]]
      BY Mine DEF IInv, Numbered
    <2>3. req' = [req EXCEPT ![p] = Seeing(req[p], pc, seen)]
      BY <2>1, <2>2 DEF Seeing
    <2>4. Seeing(req[p], pc, seen).op = "sso"
      BY <1>1, <2>2, SetsSeen DEF Fields
    <2>5. Mute(p)
      BY <2>3, <2>4, MuteMoves DEF Settings
    <2> QED BY <1>2, <2>5, HushReads
  <1>3. CASE MemberWrite(p, UpsertMembership(db, req[p].org, req[p].user, req[p].conn.role), "issue")
    BY <1>1, <1>3, HushMember
  <1> QED BY <1>2, <1>3 DEF EnsureMembership

(* Settings are asked about. *)
LEMMA HushSettings ==
    ASSUME IInv, NEW p \in Procs,
           \/ LimitsUpdate(p) \/ OrganizationSuspend(p) \/ OrganizationUnsuspend(p)
           \/ BillingCheckout(p) \/ BillingPortal(p) \/ BillingUsageSession(p)
    PROVE  Hushed(p)
  <1>1. CASE LimitsUpdate(p)
    <2>1. PICK x, y : AuthMiddleware(p, "limits", AskMore("limits", x, y))
      BY <1>1 DEF LimitsUpdate, AskMore
    <2> QED BY <2>1, Asks, HushAuth
  <1>2. CASE OrganizationSuspend(p) \/ OrganizationUnsuspend(p)
    <2>1. \E y : AuthMiddleware(p, "limits", AskLess("limits", y))
      BY <1>2 DEF OrganizationSuspend, OrganizationUnsuspend, AskLess
    <2> QED BY <2>1, Asks, HushAuth
  <1>3. CASE BillingCheckout(p) \/ BillingPortal(p) \/ BillingUsageSession(p)
    <2>1. AuthMiddleware(p, "billing", AskPlain("billing"))
      BY <1>3 DEF BillingCheckout, BillingPortal, BillingUsageSession, AskPlain
    <2> QED BY <2>1, Asks, HushAuth
  <1> QED BY <1>1, <1>2, <1>3

(***************************************************************************)
(* Steps that write the row of an organization                             *)
(***************************************************************************)
LEMMA RowsElsewhere ==
    ASSUME IInv, IInv', NEW q,
           \A k \in Permalinks : q # NoOrg /\ (db.org[k].id = q \/ db'.org[k].id = q) =>
                                   db'.org[k] = db.org[k]
    PROVE  RowOf(db', q) = RowOf(db, q) /\ (Live(db', q) <=> Live(db, q))
  <1>1. OrgsOK(db.org, db.next) /\ OrgsOK(db'.org, db'.next)
    BY DEF IInv, StoreOK
  <1>2. CASE q = NoOrg
    BY <1>2 DEF Live, RowOf
  <1>3. CASE q # NoOrg
    <2>1. RowOf(db', q) = RowOf(db, q)
      BY <1>1, <1>3, RowSame
    <2>2. Live(db', q) <=> Live(db, q)
      BY <1>3 DEF Live
    <2> QED BY <2>1, <2>2
  <1> QED BY <1>2, <1>3

LEMMA RowWritten ==
    ASSUME IInv, IInv', NEW o, NEW row, Live(db, o), IsRow(row, o), db' = SetRow(db, o, row)
    PROVE  /\ Live(db', o) /\ RowOf(db', o) = row
           /\ \A q : q # o => RowOf(db', q) = RowOf(db, q) /\ (Live(db', q) <=> Live(db, q))
           /\ db'.next = db.next /\ db'.conns = db.conns
  <1>1. PICK l \in Permalinks : db.org[l].id = o /\ o # NoOrg /\ LinkOf(db, o) = l
    BY RowIs
  <1>2. Others({"org"}) /\ db'.org = [db.org EXCEPT ![l] = row]
    BY <1>1, Shape DEF SetRow, Others, TableNames
  <1>3. \A k \in Permalinks : db'.org[k] = IF k = l THEN row ELSE db.org[k]
    BY <1>2, Shape DEF OrgsOK
  <1>4. db'.org[l] = row /\ row.id = o
    BY <1>3 DEF IsRow
  <1>5. Live(db', o) /\ RowOf(db', o) = row
    <2>1. OrgsOK(db'.org, db'.next)
      BY DEF IInv, StoreOK
    <2> QED BY <1>1, <1>4, <2>1, LinkIs
  <1>6. ASSUME NEW q, q # o
        PROVE  RowOf(db', q) = RowOf(db, q) /\ (Live(db', q) <=> Live(db, q))
    <2>1. \A k \in Permalinks : db.org[k].id = q \/ db'.org[k].id = q => db'.org[k] = db.org[k]
      BY <1>1, <1>3, <1>4, <1>6
    <2> QED BY <2>1, RowsElsewhere
  <1>7. db'.next = db.next /\ db'.conns = db.conns
    BY <1>2 DEF Others, TableNames
  <1> QED BY <1>5, <1>6, <1>7

(* A step that asks for nothing, but may write rows. *)
Soft(p) == asked' = asked /\ Mute(p) /\ SameRows /\ SameSecrets

LEMMA HushIsSoft ==
    ASSUME IInv, NEW p \in Procs, Hushed(p)
    PROVE  Soft(p)
  BY TablesSame, SecretsSame DEF Soft, Hushed

LEMMA SoftKeeps ==
    ASSUME IInv, WordInv, NEW p \in Procs, Good(p), Soft(p)
    PROVE  WordInv'
  <1>1. PICK y : Turn(p, y)
    BY DEF Good
  <1>2. New' \subseteq New
    BY <1>1, Turned
  <1>3. db'.next \in Nat /\ db.next <= db'.next
    BY DEF Soft, SameRows
  <1>4. \A q \in Procs : FoundOrg(req'[q], db'.next)
    BY <1>1, <1>3, OthersFound DEF Soft
  <1> QED BY <1>2, <1>4, WordsStay DEF Soft

LEMMA SoftCreate ==
    ASSUME IInv, IInv', NEW p \in Procs, OrganizationsCreate(p)
    PROVE  Soft(p)
  <1>1. CASE \E c \in scene.callers, l \in Permalinks :
               /\ db.org[l] = NoRow
               /\ Enter(p, [Blank EXCEPT !.op = "found",
                                         !.pc = IF c.kind = "key" THEN "done" ELSE "join",
                                         !.by = c, !.user = c.user, !.role = Owner, !.link = l,
                                         !.org = db.next, !.auth = db.next])
               /\ db' = [CreateOrganization(db, l, db.next) EXCEPT !.next = @ + 1]
               /\ UNCHANGED <<left, proved, asked>>
    <2>1. PICK l \in Permalinks :
            /\ db.org[l] = NoRow
            /\ \E c, pc : Enter(p, Founding(c, pc, l, db.next))
            /\ db' = [CreateOrganization(db, l, db.next) EXCEPT !.next = @ + 1]
            /\ asked' = asked
      BY <1>1 DEF Founding
    <2>2. /\ db'.conns = db.conns /\ db'.org = [db.org EXCEPT ![l] = NewRow(db.next)]
          /\ db'.next = db.next + 1
      BY <2>1, Shape DEF TableNames, CreateOrganization
    <2>3. db.next \in Nat /\ \A k \in Permalinks : db.org[k].id \in 0..(db.next - 1)
      BY Shape DEF OrgsOK
    <2>4. /\ db'.org[l].id = db.next /\ db.org[l].id = NoOrg
          /\ \A k \in Permalinks : k # l => db'.org[k] = db.org[k]
      BY <2>1, <2>2, Shape DEF OrgsOK, NewRow, NoRow
    <2>5. ASSUME NEW q \in 0..(db.next - 1)
          PROVE  RowOf(db', q) = RowOf(db, q) /\ (Live(db', q) <=> Live(db, q))
      <3>1. \A k \in Permalinks : q # NoOrg /\ (db.org[k].id = q \/ db'.org[k].id = q) =>
                                    db'.org[k] = db.org[k]
        BY <2>3, <2>4
      <3> QED BY <3>1, RowsElsewhere
    <2>6. SameRows
      BY <2>2, <2>3, <2>5 DEF SameRows
    <2>7. \A c, pc : IsReq(Founding(c, pc, l, db.next)) /\ Founding(c, pc, l, db.next).op = "found"
      BY FoundFields
    <2>8. Mute(p)
      BY <2>1, <2>7, HushEnters DEF Settings
    <2>9. SameSecrets
      BY <2>2, SecretsSame
    <2> QED BY <2>1, <2>6, <2>8, <2>9 DEF Soft
  <1>2. CASE /\ At(p, "found", "join")
             /\ MemberWrite(p, UpsertMembership(db, req[p].org, req[p].user, Owner), "done")
    BY <1>2, HushMember, HushIsSoft DEF At, Settings
  <1>3. CASE Answer(p) /\ db' = db /\ UNCHANGED ghosts
    BY <1>3, MuteAnswer, HushReads, HushIsSoft
  <1> QED BY <1>1, <1>2, <1>3 DEF OrganizationsCreate

LEMMA SoftUpdate ==
    ASSUME IInv, IInv', NEW p \in Procs, OrganizationsUpdate(p)
    PROVE  Soft(p)
  <1>1. CASE \E on \in 0..1 :
               AuthMiddleware(p, "organization", [Blank EXCEPT !.op = "tfa", !.x = on])
    <2>1. PICK x : AuthMiddleware(p, "organization", AskRow("tfa", x))
      BY <1>1 DEF AskRow
    <2> QED BY <2>1, Asks, HushAuth, HushIsSoft
  <1>2. CASE At(p, "tfa", "find") /\ Find(p, TRUE, [req[p] EXCEPT !.pc = "write"])
    BY <1>2, HushFindsPc, HushIsSoft DEF At, Settings
  <1>3. CASE /\ db' = UpdateOrganization(db, req[p].org, req[p].x = 1)
             /\ Answer(p) /\ UNCHANGED ghosts
    <2> DEFINE o == req[p].org
    <2>1. PICK on : on = (req[p].x = 1)
      OBVIOUS
    <2> DEFINE row == [RowOf(db, o) EXCEPT !.tfa = on]
    <2>2. db' = SetRow(db, o, row)
      BY <1>3, <2>1 DEF UpdateOrganization
    <2>3. Mute(p) /\ asked' = asked
      BY <1>3, MuteAnswer DEF ghosts
    <2>4. CASE ~Live(db, o)
      <3>1. db' = db
        BY <2>2, <2>4 DEF SetRow
      <3> QED BY <1>3, <2>3, <3>1, HushReads, HushIsSoft
    <2>5. CASE Live(db, o)
      <3>1. IsRow(RowOf(db, o), o) /\ IsRow(row, o)
        BY <2>5, RowIs, RowStays
      <3>2. /\ row.limit = RowOf(db, o).limit /\ row.suspended = RowOf(db, o).suspended
            /\ row.customer = RowOf(db, o).customer
        BY <3>1 DEF IsRow
      <3> HIDE DEF row
      <3>3. /\ Live(db', o) /\ RowOf(db', o) = row
            /\ \A q : q # o => RowOf(db', q) = RowOf(db, q) /\ (Live(db', q) <=> Live(db, q))
            /\ db'.next = db.next /\ db'.conns = db.conns
        BY <2>2, <2>5, <3>1, RowWritten
      <3>4. db.next \in Nat
        BY Shape DEF OrgsOK
      <3>5. SameRows
        BY <2>5, <3>2, <3>3, <3>4 DEF SameRows
      <3>6. SameSecrets
        BY <3>3, SecretsSame
      <3> QED BY <2>3, <3>5, <3>6 DEF Soft
    <2> QED BY <2>4, <2>5
  <1> QED BY <1>1, <1>2, <1>3 DEF OrganizationsUpdate

LEMMA SoftDestroy ==
    ASSUME IInv, IInv', NEW p \in Procs, OrganizationsDestroy(p)
    PROVE  Soft(p)
  <1>1. CASE AuthMiddleware(p, "organization", [Blank EXCEPT !.op = "raze"])
    <2>1. AuthMiddleware(p, "organization", AskPlain("raze"))
      BY <1>1 DEF AskPlain
    <2> QED BY <2>1, Asks, HushAuth, HushIsSoft
  <1>2. CASE At(p, "raze", "find") /\ Find(p, TRUE, [req[p] EXCEPT !.pc = "write"])
    BY <1>2, HushFindsPc, HushIsSoft DEF At, Settings
  <1>3. CASE /\ db' = DeleteOrganization(db, req[p].org) /\ Answer(p) /\ asked' = asked
    <2> DEFINE o == req[p].org
    <2>1. /\ db'.org = Razed(db.org, o) /\ db'.conns = Purged(db.conns, o) /\ db'.next = db.next
      BY <1>3, Shape DEF TableNames, DeleteOrganization, Purged, Razed
    <2>2. \A k \in Permalinks : db'.org[k] = IF db.org[k].id = o THEN NoRow ELSE db.org[k]
      BY <2>1 DEF Razed
    <2>3. NoRow.id = NoOrg
      BY DEF NoRow, NewRow
    <2>4. ~Live(db', o)
      BY <2>2, <2>3 DEF Live
    <2>5. ASSUME NEW q, q # o
          PROVE  RowOf(db', q) = RowOf(db, q) /\ (Live(db', q) <=> Live(db, q))
      <3>1. \A k \in Permalinks : q # NoOrg /\ (db.org[k].id = q \/ db'.org[k].id = q) =>
                                    db'.org[k] = db.org[k]
        BY <2>2, <2>3, <2>5
      <3> QED BY <3>1, RowsElsewhere
    <2>6. db.next \in Nat
      BY Shape DEF OrgsOK
    <2>7. SameRows
      BY <2>1, <2>4, <2>5, <2>6 DEF SameRows
    <2>8. SameSecrets
      BY <2>1, Purges, SecretsSame
    <2> QED BY <1>3, <2>7, <2>8, MuteAnswer DEF Soft
  <1> QED BY <1>1, <1>2, <1>3 DEF OrganizationsDestroy

(***************************************************************************)
(* Steps that ask                                                          *)
(***************************************************************************)
(* What is on record after something was asked for. *)
Heard(what, value, over) ==
  /\ DOMAIN asked' = DOMAIN asked \union {what}
  /\ asked'[what] = [want |-> value, overlap |-> over]
  /\ \A w \in DOMAIN asked \ {what} :
       /\ IsAsk(asked'[w]) /\ asked'[w].want = asked[w].want
       /\ asked[w].overlap \/ (over /\ w[2] = what[2]) => asked'[w].overlap

LEMMA AskFacts ==
    ASSUME NEW what, NEW value, NEW over, Ask(what, value, over),
           \A w \in DOMAIN asked : IsAsk(asked[w])
    PROVE  Heard(what, value, over)
  <1>1. asked' = [w \in DOMAIN asked \union {what} |->
                    IF w = what THEN [want |-> value, overlap |-> over]
                    ELSE IF over /\ w[2] = what[2] THEN [asked[w] EXCEPT !.overlap = TRUE]
                    ELSE asked[w]]
    BY DEF Ask
  <1>2. ASSUME NEW w \in DOMAIN asked \ {what}
        PROVE  /\ IsAsk(asked'[w]) /\ asked'[w].want = asked[w].want
               /\ asked[w].overlap \/ (over /\ w[2] = what[2]) => asked'[w].overlap
    <2>1. CASE over /\ w[2] = what[2]
      <3>1. asked'[w] = [asked[w] EXCEPT !.overlap = TRUE]
        BY <1>1, <2>1
      <3> QED BY <3>1 DEF IsAsk
    <2>2. CASE ~(over /\ w[2] = what[2])
      <3>1. asked'[w] = asked[w]
        BY <1>1, <2>2
      <3> QED BY <2>2, <3>1
    <2> QED BY <2>1, <2>2
  <1>3. DOMAIN asked' = DOMAIN asked \union {what} /\ asked'[what] = [want |-> value, overlap |-> over]
    BY <1>1
  <1> QED BY <1>2, <1>3 DEF Heard

(* A new word, and the others: they hold as before, or it ran over them.   *)
LEMMA Speaks ==
    ASSUME IInv, WordInv, NEW p \in Procs, Good(p), Mute(p), db'.next = db.next,
           NEW what, NEW value, NEW over, Ask(what, value, over),
           Numeral(what, db.next, New), Word(what, [want |-> value, overlap |-> over], db'),
           \A w, a : \/ w = what \/ (over /\ w[2] = what[2])
                     \/ Numeral(w, db.next, New) /\ Word(w, a, db) => Word(w, a, db')
    PROVE  WordInv'
  <1>1. PICK y : Turn(p, y)
    BY DEF Good
  <1>2. New' \subseteq New
    BY <1>1, Turned
  <1>3. db.next \in Nat
    BY Shape DEF OrgsOK
  <1>4. \A q \in Procs : FoundOrg(req'[q], db'.next)
    BY <1>1, <1>3, OthersFound
  <1>5. /\ DOMAIN asked' = DOMAIN asked \union {what}
        /\ asked'[what] = [want |-> value, overlap |-> over]
        /\ \A w \in DOMAIN asked \ {what} :
             /\ IsAsk(asked'[w]) /\ asked'[w].want = asked[w].want
             /\ asked[w].overlap \/ (over /\ w[2] = what[2]) => asked'[w].overlap
    <2>1. \A w \in DOMAIN asked : IsAsk(asked[w])
      BY DEF WordInv
    <2>2. Heard(what, value, over)
      BY <2>1, AskFacts
    <2> QED BY <2>2 DEF Heard
  <1> DEFINE T == {10 + k : k \in New}
             U == {10 + k : k \in New'}
  <1>6. U \subseteq T
    BY <1>2
  <1>7. \A w : Numeral(w, db.next, New) => Numeral(w, db'.next, New')
    <2>1. \A w : /\ Numeral(w, db.next, New) =>
                      /\ w = <<w[1], w[2]>>
                      /\ \/ w[1] \in {"limit", "suspended", "customer"} /\ w[2] \in 0..(db.next - 1)
                         \/ w[1] = "secret" /\ w[2] \notin T
                 /\ w = <<w[1], w[2]>>
                    /\ \/ w[1] \in {"limit", "suspended", "customer"} /\ w[2] \in 0..(db.next - 1)
                       \/ w[1] = "secret" /\ w[2] \notin U
                    => Numeral(w, db'.next, New')
      BY DEF Numeral
    <2> HIDE DEF T, U
    <2> QED BY <1>6, <2>1
  <1> HIDE DEF T, U
  <1>8. ASSUME NEW w \in DOMAIN asked'
        PROVE  IsAsk(asked'[w]) /\ Numeral(w, db'.next, New') /\ Word(w, asked'[w], db')
    <2>1. CASE w = what
      BY <1>5, <1>7, <2>1 DEF IsAsk
    <2>2. CASE w # what
      <3>1. w \in DOMAIN asked \ {what}
        BY <1>5, <1>8, <2>2
      <3>2. Numeral(w, db.next, New) /\ Word(w, asked[w], db)
        BY <3>1 DEF WordInv
      <3>3. CASE over /\ w[2] = what[2]
        BY <1>5, <1>7, <3>1, <3>2, <3>3 DEF Word
      <3>4. CASE Word(w, asked[w], db')
        <4>1. asked'[w].want = asked[w].want /\ (asked[w].overlap => asked'[w].overlap)
          BY <1>5, <3>1
        <4>2. Word(w, asked'[w], db')
          BY <3>4, <4>1 DEF Word
        <4> QED BY <1>5, <1>7, <3>1, <3>2, <4>2
      <3> QED BY <2>2, <3>2, <3>3, <3>4
    <2> QED BY <2>1, <2>2
  <1> QED BY <1>4, <1>8 DEF WordInv

(* A handler of settings finds its organization. *)
LEMMA FindsSetting ==
    ASSUME IInv, NEW p \in Procs, NEW test, NEW r, IsReq(r), Find(p, test, r), req[p].pc = "find"
    PROVE  Soft(p)
  <1> DEFINE o == Found(p)
             y == [r EXCEPT !.org = o]
  <1>1. Answer(p) \/ req' = [req EXCEPT ![p] = y]
    BY DEF Find, Found
  <1>2. db' = db /\ UNCHANGED ghosts
    BY DEF Find
  <1>3. o = db.org[req[p].link].id /\ req[p].link \in Permalinks
    BY Mine DEF Found, OrganizationByPermalink, InScope
  <1>4. o \in 0..(db.next - 1)
    BY <1>3, Shape DEF OrgsOK
  <1>5. y.org = o
    BY DEF IsReq, Fields
  <1> HIDE DEF y, o
  <1>6. Mute(p)
    <2>1. CASE Answer(p)
      BY <2>1, MuteAnswer
    <2>2. CASE req' = [req EXCEPT ![p] = y]
      <3>1. req'[p] = y
        BY <2>2 DEF IInv, Numbered
      <3> QED BY <1>2, <1>4, <1>5, <3>1 DEF Mute, FoundOrg
    <2> QED BY <1>1, <2>1, <2>2
  <1> QED BY <1>2, <1>6, HushReads, HushIsSoft

(* Nothing was written: the words of before hold. *)
LEMMA SpeaksOfNothing ==
    ASSUME IInv, WordInv, NEW p \in Procs, Good(p), Mute(p), db' = db,
           NEW what, NEW value, NEW over, Ask(what, value, over),
           Numeral(what, db.next, New), Word(what, [want |-> value, overlap |-> over], db)
    PROVE  WordInv'
  <1>1. Word(what, [want |-> value, overlap |-> over], db')
    OBVIOUS
  <1>2. \A w, a : Word(w, a, db) => Word(w, a, db')
    OBVIOUS
  <1> QED BY <1>1, <1>2, Speaks

(* What was asked of an organization, when its row is written. *)
OnlyField(kind, row, old) ==
  \A k \in {"limit", "suspended", "customer"} \ {kind} : row[k] = old[k]

LEMMA RowSpeaks ==
    ASSUME IInv, WordInv, NEW p \in Procs, Good(p), Mute(p),
           NEW o, NEW row, Live(db, o), IsRow(row, o), db' = SetRow(db, o, row),
           NEW kind \in {"limit", "suspended", "customer"}, NEW value, NEW over,
           Ask(<<kind, o>>, value, over), row[kind] = value,
           over \/ OnlyField(kind, row, RowOf(db, o))
    PROVE  WordInv'
  <1>1. /\ Live(db', o) /\ RowOf(db', o) = row
        /\ \A q : q # o => RowOf(db', q) = RowOf(db, q) /\ (Live(db', q) <=> Live(db, q))
        /\ db'.next = db.next /\ db'.conns = db.conns
    <2>1. IInv'
      BY DEF Good
    <2> QED BY <2>1, RowWritten
  <1>2. o \in 0..(db.next - 1)
    BY Shape DEF Live, OrgsOK
  <1> DEFINE what == <<kind, o>>
  <1>3. Numeral(what, db.next, New)
    BY <1>2 DEF Numeral
  <1>4. Word(what, [want |-> value, overlap |-> over], db')
    BY <1>1 DEF Word
  <1>5. ASSUME NEW w, NEW a, w # what, ~(over /\ w[2] = o), Numeral(w, db.next, New), Word(w, a, db)
        PROVE  Word(w, a, db')
    <2>1. /\ w = <<w[1], w[2]>>
          /\ w[1] \in {"limit", "suspended", "customer", "secret"}
      BY <1>5 DEF Numeral
    <2>2. CASE w[1] = "secret"
      BY <1>1, <1>5, <2>2 DEF Word
    <2>3. CASE w[1] # "secret" /\ w[2] # o
      BY <1>1, <1>5, <2>3 DEF Word
    <2>4. CASE w[1] # "secret" /\ w[2] = o
      <3>1. w[1] # kind
        BY <1>5, <2>1, <2>4
      <3>2. row[w[1]] = RowOf(db, o)[w[1]]
        BY <1>5, <2>1, <2>4, <3>1 DEF OnlyField
      <3> QED BY <1>1, <1>5, <2>4, <3>2 DEF Word
    <2> QED BY <2>2, <2>3, <2>4
  <1>6. what[2] = o
    OBVIOUS
  <1> HIDE DEF what
  <1>7. \A w, a : \/ w = what \/ (over /\ w[2] = what[2])
                  \/ Numeral(w, db.next, New) /\ Word(w, a, db) => Word(w, a, db')
    BY <1>5, <1>6
  <1>8. Ask(what, value, over)
    BY DEF what
  <1> QED BY <1>1, <1>3, <1>4, <1>7, <1>8, Speaks

LEMMA PolicySpeaks ==
    ASSUME IInv, WordInv, NEW p \in Procs, Good(p), ApplyPolicy(p)
    PROVE  WordInv'
  <1> DEFINE r == req[p]
             o == r.org
  <1>1. CASE /\ At(p, "limits", "find")
             /\ \E test, seen : Find(p, test, [r EXCEPT !.pc = "write", !.seen = seen])
    <2>1. PICK test, seen : Find(p, test, Seeing(r, "write", seen))
      BY <1>1 DEF Seeing
    <2>2. IsReq(Seeing(r, "write", seen))
      BY Mine, SetsSeen
    <2>3. Soft(p)
      BY <1>1, <2>1, <2>2, FindsSetting DEF At
    <2> QED BY <2>3, SoftKeeps
  <1>2. CASE LET row == CHOOSE w \in r.seen : TRUE IN
             /\ At(p, "limits", "write")
             /\ Statement(p, Live(db, r.org),
                          SetOrganizationPolicy(db, r.org, IF r.y = 0 THEN r.x ELSE row.limit,
                                                IF r.y = 0 THEN row.suspended ELSE r.y = 1), "done")
             /\ IF r.y = 0 THEN Ask(<<"limit", r.org>>, r.x, r.seen # {RowOf(db, r.org)})
                ELSE Ask(<<"suspended", r.org>>, r.y = 1, r.seen # {RowOf(db, r.org)})
    <2>1. PICK was : was = (CHOOSE w \in r.seen : TRUE)
      OBVIOUS
    <2>2. PICK a : a = IF r.y = 0 THEN r.x ELSE was.limit
      OBVIOUS
    <2>3. PICK b : b = IF r.y = 0 THEN was.suspended ELSE r.y = 1
      OBVIOUS
    <2>4. PICK over : over = (r.seen # {RowOf(db, o)})
      OBVIOUS
    <2>5. PICK kind, value : /\ kind = IF r.y = 0 THEN "limit" ELSE "suspended"
                             /\ value = IF r.y = 0 THEN a ELSE b
      OBVIOUS
    <2>6. Statement(p, Live(db, o), SetOrganizationPolicy(db, o, a, b), "done")
      BY <1>2, <2>1, <2>2, <2>3
    <2>7. Ask(<<kind, o>>, value, over)
      BY <1>2, <2>2, <2>3, <2>4, <2>5
    <2>8. Mute(p)
      BY <2>6, MuteAnswer DEF Statement, Goto
    <2>9. CASE ~Live(db, o)
      <3>1. FoundOrg(r, db.next) /\ r.op = "limits" /\ r.pc = "write"
        BY <1>2 DEF WordInv, At
      <3>2. o \in 0..(db.next - 1)
        BY <3>1 DEF FoundOrg, Settings
      <3>3. Numeral(<<kind, o>>, db.next, New)
        BY <2>5, <3>2 DEF Numeral
      <3>4. Word(<<kind, o>>, [want |-> value, overlap |-> over], db)
        BY <2>5, <2>9 DEF Word
      <3>5. db' = db
        BY <2>6, <2>9 DEF Statement
      <3> QED BY <2>7, <2>8, <3>3, <3>4, <3>5, SpeaksOfNothing
    <2>10. CASE Live(db, o)
      <3> DEFINE row == [RowOf(db, o) EXCEPT !.limit = a, !.suspended = b]
      <3>1. db' = SetRow(db, o, row)
        BY <2>6, <2>10 DEF Statement, SetOrganizationPolicy
      <3>2. IsRow(RowOf(db, o), o) /\ IsRow(row, o)
        BY <2>10, RowIs, RowStays
      <3>3. row.limit = a /\ row.suspended = b /\ row.customer = RowOf(db, o).customer
        BY <3>2 DEF IsRow
      <3> HIDE DEF row
      <3>4. kind \in {"limit", "suspended", "customer"} /\ row[kind] = value
        BY <2>5, <3>3
      <3>5. ASSUME ~over
            PROVE  OnlyField(kind, row, RowOf(db, o))
        <4>1. was = RowOf(db, o)
          BY <2>1, <2>4, <3>5
        <4>2. CASE r.y = 0
          <5>1. kind = "limit" /\ b = RowOf(db, o).suspended
            BY <2>3, <2>5, <4>1, <4>2
          <5> QED BY <3>3, <5>1 DEF OnlyField
        <4>3. CASE r.y # 0
          <5>1. kind = "suspended" /\ a = RowOf(db, o).limit
            BY <2>2, <2>5, <4>1, <4>3
          <5> QED BY <3>3, <5>1 DEF OnlyField
        <4> QED BY <4>2, <4>3
      <3> QED BY <2>7, <2>8, <2>10, <3>1, <3>2, <3>4, <3>5, RowSpeaks
    <2> QED BY <2>9, <2>10
  <1> QED BY <1>1, <1>2 DEF ApplyPolicy

LEMMA BillingSpeaks ==
    ASSUME IInv, WordInv, NEW p \in Procs, Good(p), BillingOrganization(p)
    PROVE  WordInv'
  <1> DEFINE r == req[p]
             o == r.org
  <1>1. CASE /\ At(p, "billing", "find")
             /\ \E test, pc, x : Find(p, test, [r EXCEPT !.pc = pc, !.x = x])
    <2>1. PICK test, pc, x : Find(p, test, Paying(r, pc, x))
      BY <1>1 DEF Paying
    <2>2. IsReq(Paying(r, pc, x))
      BY Mine, SetsX
    <2>3. Soft(p)
      BY <1>1, <2>1, <2>2, FindsSetting DEF At
    <2> QED BY <2>3, SoftKeeps
  <1>2. CASE /\ At(p, "billing", "customer")
             /\ Statement(p, Live(db, o), SetBillingCustomer(db, o, r.n), "session")
             /\ Ask(<<"customer", o>>, r.n, RowOf(db, o).customer # 0)
    <2>1. PICK over : over = (RowOf(db, o).customer # 0)
      OBVIOUS
    <2>2. Ask(<<"customer", o>>, r.n, over)
      BY <1>2, <2>1
    <2>3. FoundOrg(r, db.next) /\ r.op = "billing" /\ r.pc = "customer" /\ IsReq(r)
      BY <1>2, Mine DEF WordInv, At
    <2>4. o \in 0..(db.next - 1)
      BY <2>3 DEF FoundOrg, Settings
    <2>5. CASE ~Live(db, o)
      <3>1. db' = db /\ Mute(p)
        BY <1>2, <2>5, MuteAnswer DEF Statement
      <3>2. Numeral(<<"customer", o>>, db.next, New)
        BY <2>4 DEF Numeral
      <3>3. Word(<<"customer", o>>, [want |-> r.n, overlap |-> over], db)
        BY <2>5 DEF Word
      <3> QED BY <2>2, <3>1, <3>2, <3>3, SpeaksOfNothing
    <2>6. CASE Live(db, o)
      <3> DEFINE row == [RowOf(db, o) EXCEPT !.customer = r.n]
                 y == Going(r, "session")
      <3>1. db' = SetRow(db, o, row) /\ req' = [req EXCEPT ![p] = y]
        BY <1>2, <2>6 DEF Statement, SetBillingCustomer, Goto, Going
      <3>2. IsRow(RowOf(db, o), o) /\ IsRow(row, o)
        BY <2>6, RowIs, RowStays
      <3>3. /\ row.limit = RowOf(db, o).limit /\ row.suspended = RowOf(db, o).suspended
            /\ row.customer = r.n
        BY <3>2 DEF IsRow
      <3> HIDE DEF row
      <3>4. y.org = o
        BY <2>3, SetsPc DEF Fields
      <3> HIDE DEF y
      <3>5. req'[p] = y
        BY <3>1 DEF IInv, Numbered
      <3>6. db'.next = db.next
        BY <3>1, Shape DEF SetRow, TableNames
      <3>7. Mute(p)
        BY <2>4, <3>4, <3>5, <3>6 DEF Mute, FoundOrg
      <3>8. OnlyField("customer", row, RowOf(db, o))
        BY <3>3 DEF OnlyField
      <3> QED BY <2>2, <2>6, <3>1, <3>2, <3>3, <3>7, <3>8, RowSpeaks
    <2> QED BY <2>5, <2>6
  <1>3. CASE Answer(p) /\ db' = db /\ UNCHANGED ghosts
    BY <1>3, MuteAnswer, HushReads, HushKeeps
  <1> QED BY <1>1, <1>2, <1>3 DEF BillingOrganization

(***************************************************************************)
(* Steps that write connections                                            *)
(***************************************************************************)
LEMMA SoftConnect ==
    ASSUME IInv, NEW p \in Procs, SsoConnectionsCreate(p)
    PROVE  Soft(p)
  <1>1. CASE \E role \in Grants, secret \in Secrets :
               AuthMiddleware(p, "sso", [Blank EXCEPT !.op = "connect", !.role = role, !.x = secret])
    <2>1. PICK role, x : AuthMiddleware(p, "sso", AskConn("connect", role, x))
      BY <1>1 DEF AskConn
    <2> QED BY <2>1, Asks, HushAuth, HushIsSoft
  <1>2. CASE At(p, "connect", "find") /\ Find(p, TRUE, [req[p] EXCEPT !.pc = "write"])
    BY <1>2, HushFindsPc, HushIsSoft DEF At, Settings
  <1>3. CASE /\ At(p, "connect", "write")
             /\ \E c : /\ c.id = 10 + req[p].n
                       /\ Statement(p, Live(db, req[p].org), CreateConnection(db, c), "done")
             /\ UNCHANGED ghosts
    <2>1. PICK c : /\ c.id = 10 + req[p].n
                   /\ Statement(p, Live(db, req[p].org), CreateConnection(db, c), "done")
      BY <1>3
    <2>2. Mute(p) /\ asked' = asked
      BY <1>3, <2>1, MuteAnswer DEF Statement, Goto, ghosts
    <2>3. db' = db \/ db' = [db EXCEPT !.conns = @ \union {c}]
      BY <2>1 DEF Statement, CreateConnection
    <2>4. db'.org = db.org /\ db'.next = db.next /\ db'.conns \subseteq db.conns \union {c}
      BY <2>3, Shape DEF TableNames
    <2>5. req[p].n \in New
      BY <1>3, OwnNumber DEF At
    <2>6. SameSecrets
      BY <2>1, <2>4, <2>5 DEF SameSecrets
    <2> QED BY <2>2, <2>4, <2>6, TablesSame DEF Soft
  <1> QED BY <1>1, <1>2, <1>3 DEF SsoConnectionsCreate

LEMMA SoftCut ==
    ASSUME IInv, NEW p \in Procs, SsoConnectionsDestroy(p)
    PROVE  Soft(p)
  <1>1. CASE \E c \in db.conns :
               AuthMiddleware(p, "sso", [Blank EXCEPT !.op = "cut", !.x = c.id])
    <2>1. PICK x : AuthMiddleware(p, "sso", AskRow("cut", x))
      BY <1>1 DEF AskRow
    <2> QED BY <2>1, Asks, HushAuth, HushIsSoft
  <1>2. CASE /\ At(p, "cut", "find")
             /\ \E test : Find(p, test, [req[p] EXCEPT !.pc = "write"])
    BY <1>2, HushFindsPc, HushIsSoft DEF At, Settings
  <1>3. CASE /\ db' = DeleteConnection(db, req[p].x) /\ Answer(p) /\ UNCHANGED ghosts
    <2>1. Mute(p) /\ asked' = asked
      BY <1>3, MuteAnswer DEF ghosts
    <2>2. db'.org = db.org /\ db'.next = db.next /\ db'.conns \subseteq db.conns
      BY <1>3, Shape DEF TableNames, DeleteConnection
    <2> QED BY <2>1, <2>2, SecretsSame, TablesSame DEF Soft
  <1> QED BY <1>1, <1>2, <1>3 DEF SsoConnectionsDestroy

(* What an edit makes of the secrets. *)
LEMMA EditSecrets ==
    ASSUME IInv, NEW id, NEW secret, NEW enabled, db' = UpdateConnection(db, id, secret, enabled)
    PROVE  /\ db'.org = db.org /\ db'.next = db.next
           /\ \A c \in db'.conns : \E b \in db.conns :
                b.id = c.id /\ c.secret = IF c.id = id /\ secret # 0 THEN secret ELSE b.secret
  <1> DEFINE out == EditedRows(db.conns, id, secret, enabled)
             C == {"id", "org", "kind", "enabled", "role", "provision", "secret"}
  <1>1. db' = [db EXCEPT !.conns = out]
    BY DEF UpdateConnection, EditedRows, Edited
  <1>2. \A c \in out : \E b \in db.conns : c = IF b.id # id THEN b ELSE Edited(b, secret, enabled)
    BY DEF EditedRows
  <1> HIDE DEF out
  <1>3. db'.org = db.org /\ db'.next = db.next /\ db'.conns = out
    BY <1>1, Shape DEF TableNames
  <1>4. \A b \in db.conns : b = [f \in C |-> b[f]]
    BY DEF IInv, StoreOK, ConnsOK, Columns
  <1>5. ASSUME NEW b \in db.conns
        PROVE  /\ Edited(b, secret, enabled).id = b.id
               /\ Edited(b, secret, enabled).secret = IF secret = 0 THEN b.secret ELSE secret
    <2>1. PICK x, y : /\ x = (IF secret = 0 THEN b.secret ELSE secret)
                      /\ y = (IF enabled = 2 THEN b.enabled ELSE enabled = 1)
      OBVIOUS
    <2>2. b = [f \in C |-> b[f]]
      BY <1>4
    <2>3. Edited(b, secret, enabled) = [b EXCEPT !.secret = x, !.enabled = y]
      BY <2>1, <2>2 DEF Edited
    <2> QED BY <2>1, <2>2, <2>3
  <1>6. ASSUME NEW c \in out
        PROVE  \E b \in db.conns :
                 b.id = c.id /\ c.secret = IF c.id = id /\ secret # 0 THEN secret ELSE b.secret
    <2>1. PICK b \in db.conns : c = IF b.id # id THEN b ELSE Edited(b, secret, enabled)
      BY <1>2
    <2> QED BY <1>5, <2>1
  <1> QED BY <1>3, <1>6

LEMMA EditSpeaks ==
    ASSUME IInv, WordInv, NEW p \in Procs, Good(p), SsoConnectionsUpdate(p)
    PROVE  WordInv'
  <1> DEFINE r == req[p]
  <1>1. CASE \E c \in db.conns, part \in {0, 1, 3}, secret \in Secrets \union {0} :
               AuthMiddleware(p, "sso", [Blank EXCEPT !.op = "edit", !.x = c.id, !.role = part,
                                                      !.y = secret])
    <2>1. PICK x, role, y : AuthMiddleware(p, "sso", AskEdit("edit", x, role, y))
      BY <1>1 DEF AskEdit
    <2> QED BY <2>1, Asks, HushAuth, HushKeeps
  <1>2. CASE /\ At(p, "edit", "find")
             /\ \E test, seen : Find(p, test, [r EXCEPT !.pc = "write", !.seen = seen])
    <2>1. Hushed(p)
      BY <1>2, HushFindsSeen DEF At, Settings
    <2> QED BY <2>1, HushKeeps
  <1>3. CASE LET was   == CHOOSE c \in r.seen : TRUE
                 stale == {c.secret : c \in OrgSsoConnection(db, r.x)} # {was.secret}
             IN  /\ At(p, "edit", "write")
                 /\ db' = IF r.role = 3
                          THEN UpdateConnection(db, r.x, MergeSecrets(r.y, was.secret), 2)
                          ELSE UpdateConnection(db, r.x, 0, r.role)
                 /\ Answer(p) /\ Quiet
                 /\ IF r.role # 3 THEN UNCHANGED asked
                    ELSE Ask(<<"secret", r.x>>, IF r.y = 0 THEN was.secret ELSE r.y, stale)
    <2> DEFINE was   == CHOOSE c \in r.seen : TRUE
               stale == {c.secret : c \in OrgSsoConnection(db, r.x)} # {was.secret}
    <2>1. /\ At(p, "edit", "write") /\ Answer(p)
          /\ db' = IF r.role = 3 THEN UpdateConnection(db, r.x, MergeSecrets(r.y, was.secret), 2)
                   ELSE UpdateConnection(db, r.x, 0, r.role)
          /\ IF r.role # 3 THEN UNCHANGED asked
             ELSE Ask(<<"secret", r.x>>, IF r.y = 0 THEN was.secret ELSE r.y, stale)
      BY <1>3
    <2> HIDE DEF was, stale
    <2>2. Mute(p)
      BY <2>1, MuteAnswer
    <2>3. CASE r.role # 3
      <3>1. db' = UpdateConnection(db, r.x, 0, r.role) /\ asked' = asked
        BY <2>1, <2>3
      <3>2. /\ db'.org = db.org /\ db'.next = db.next
            /\ \A c \in db'.conns : \E b \in db.conns :
                 b.id = c.id /\ c.secret = IF c.id = r.x /\ 0 # 0 THEN 0 ELSE b.secret
        BY <3>1, EditSecrets
      <3>3. SameSecrets
        BY <3>2 DEF SameSecrets
      <3> QED BY <2>2, <3>1, <3>2, <3>3, TablesSame, SoftKeeps DEF Soft
    <2>4. CASE r.role = 3
      <3>1. PICK secret : secret = MergeSecrets(r.y, was.secret)
        OBVIOUS
      <3>2. secret = (IF r.y = 0 THEN was.secret ELSE r.y)
        BY <3>1 DEF MergeSecrets
      <3>3. db' = UpdateConnection(db, r.x, secret, 2) /\ Ask(<<"secret", r.x>>, secret, stale)
        BY <2>1, <2>4, <3>1, <3>2
      <3>4. /\ db'.org = db.org /\ db'.next = db.next
            /\ \A c \in db'.conns : \E b \in db.conns :
                 b.id = c.id /\ c.secret = IF c.id = r.x /\ secret # 0 THEN secret ELSE b.secret
        BY <3>3, EditSecrets
      <3> DEFINE what == <<"secret", r.x>>
      <3>5. Numeral(what, db.next, New)
        BY <2>1, Mine DEF At, OwnRow, Numeral
      <3>6. stale \/ \A c \in db'.conns : c.id = r.x => c.secret = secret
        <4>1. ASSUME ~stale, secret = 0, NEW b \in db.conns, b.id = r.x
              PROVE  b.secret = secret
          <5>1. b.secret = was.secret
            BY <4>1 DEF OrgSsoConnection, stale
          <5>2. was.secret = secret
            BY <3>2, <4>1
          <5> QED BY <5>1, <5>2
        <4> QED BY <3>4, <4>1
      <3>7. Word(what, [want |-> secret, overlap |-> stale], db')
        BY <3>6 DEF Word
      <3>8. ASSUME NEW w, NEW a, w # what, Numeral(w, db.next, New), Word(w, a, db)
            PROVE  Word(w, a, db')
        <4>1. /\ w = <<w[1], w[2]>>
              /\ w[1] \in {"limit", "suspended", "customer", "secret"}
          BY <3>8 DEF Numeral
        <4>2. \A o : RowOf(db', o) = RowOf(db, o) /\ (Live(db', o) <=> Live(db, o))
          BY <3>4 DEF RowOf, Live, LinkOf
        <4>3. CASE w[1] # "secret"
          BY <3>8, <4>2, <4>3 DEF Word
        <4>4. CASE w[1] = "secret"
          <5>1. w[2] # r.x
            BY <3>8, <4>1, <4>4
          <5>2. \A c \in db'.conns : c.id = w[2] => \E b \in db.conns : b.id = c.id /\ c.secret = b.secret
            BY <3>4, <5>1
          <5> QED BY <3>8, <4>4, <5>2 DEF Word
        <4> QED BY <4>3, <4>4
      <3>9. Ask(what, secret, stale)
        BY <3>3
      <3> HIDE DEF what
      <3>10. \A w, a : \/ w = what \/ (stale /\ w[2] = what[2])
                       \/ Numeral(w, db.next, New) /\ Word(w, a, db) => Word(w, a, db')
        BY <3>8
      <3> QED BY <2>2, <3>4, <3>5, <3>7, <3>9, <3>10, Speaks
    <2> QED BY <2>3, <2>4
  <1> QED BY <1>1, <1>2, <1>3 DEF SsoConnectionsUpdate

(***************************************************************************)
(* Steps without a request                                                 *)
(***************************************************************************)
LEMMA NobodyAsks ==
    ASSUME IInv, WordInv, \/ OrgStart \/ SamlOrgStart
                          \/ \E u \in Users : UsersDestroy(u)
    PROVE  WordInv'
  <1>1. /\ req' = req /\ asked' = asked /\ scene' = scene
        /\ count' = count \/ (count < scene.requests /\ count' = count + 1)
    BY DEF OrgStart, SamlOrgStart, Start, UsersDestroy, ghosts
  <1>2. New' \subseteq New
    BY <1>1, Passes
  <1>3. db'.org = db.org /\ db'.next = db.next /\ db'.conns = db.conns
    <2>1. CASE OrgStart \/ SamlOrgStart
      <3>1. PICK rows : db' = [db EXCEPT !["tickets"] = rows]
        BY <2>1 DEF OrgStart, SamlOrgStart, Start
      <3> QED BY <3>1, OtherTable
    <2>2. CASE \E u \in Users : UsersDestroy(u)
      BY <2>2, Shape DEF UsersDestroy, DeleteAccount, TableNames
    <2> QED BY <2>1, <2>2
  <1>4. SameRows /\ SameSecrets
    BY <1>3, TablesSame, SecretsSame
  <1>5. \A p \in Procs : FoundOrg(req'[p], db'.next)
    BY <1>1, <1>3 DEF WordInv
  <1> QED BY <1>1, <1>2, <1>4, <1>5, WordsStay

LEMMA WordActs ==
    ASSUME IInv, WordInv, NEW p \in Procs, Acts(p)
    PROVE  WordInv'
  <1>1. Good(p) /\ IInv'
    BY ActsAreGood DEF Good
  <1>2. Abandon(p) \/ CountOwners(p) \/ CreateAccount(p) \/ CompleteLogin(p) => Hushed(p)
    BY HushAbandon, HushAccount, HushLogin
  <1>3. MembersCreate(p) \/ MembersUpdate(p) \/ MembersDestroy(p) => Hushed(p)
    BY HushMembersCreate, HushMembersUpdate, HushMembersDestroy
  <1>4. InvitationsCreate(p) \/ InvitationsDestroy(p) \/ InvitationAccept(p) => Hushed(p)
    BY HushInvitationsCreate, HushInvitationsDestroy, HushAccept
  <1>5. OrganizationsCreate(p) \/ OrganizationsUpdate(p) \/ OrganizationsDestroy(p) => Soft(p)
    BY <1>1, SoftCreate, SoftUpdate, SoftDestroy
  <1>6. \/ LimitsUpdate(p) \/ OrganizationSuspend(p) \/ OrganizationUnsuspend(p)
        \/ BillingCheckout(p) \/ BillingPortal(p) \/ BillingUsageSession(p)
        => Hushed(p)
    BY HushSettings
  <1>7. ApplyPolicy(p) \/ BillingOrganization(p) \/ SsoConnectionsUpdate(p) => WordInv'
    BY <1>1, PolicySpeaks, BillingSpeaks, EditSpeaks
  <1>8. SsoDomainsCreate(p) \/ SsoDomainsVerify(p) \/ SsoDomainsDestroy(p) => Hushed(p)
    BY HushDomainsCreate, HushDomainsVerify, HushDomainsDestroy
  <1>9. SsoConnectionsCreate(p) \/ SsoConnectionsDestroy(p) => Soft(p)
    BY SoftConnect, SoftCut
  <1>10. \/ OrgCallback(p) \/ OrgAcs(p) \/ VerifiedHere(p) \/ ResolveOrgUser(p)
         \/ EnsureMembership(p)
         => Hushed(p)
    BY HushCallback, HushAcs, HushDomain, HushResolve, HushMembership
  <1>11. Hushed(p) \/ Soft(p) => WordInv'
    BY <1>1, HushIsSoft, SoftKeeps
  <1> QED BY <1>2, <1>3, <1>4, <1>5, <1>6, <1>7, <1>8, <1>9, <1>10, <1>11 DEF Acts

LEMMA WordNext ==
    ASSUME IInv, WordInv, [Next]_vars
    PROVE  WordInv'
  <1>1. CASE Next
    BY <1>1, Steppers, NobodyAsks, WordActs
  <1>2. CASE UNCHANGED vars
    <2>1. UNCHANGED <<db, req, count, scene, asked>>
      BY <1>2 DEF vars
    <2>2. New' = New
      BY <2>1 DEF New
    <2> QED BY <2>1, <2>2 DEF WordInv
  <1> QED BY <1>1, <1>2

LEMMA WordInit ==
    ASSUME Init
    PROVE  WordInv
  <1>1. \A p \in Procs : FoundOrg(req[p], db.next)
    BY BlankFields DEF Init, FoundOrg, Settings
  <1>2. DOMAIN asked = {}
    BY DEF Init
  <1> QED BY <1>1, <1>2 DEF WordInv

(* Settings that are read, changed in one field and written back whole     *)
(* (quota.rs, billing.rs, org_sso_api.rs): what was last asked for a       *)
(* limit, a suspension, a customer or a secret is what is stored, unless   *)
(* requests on that row overlapped.                                        *)
THEOREM WordTheorem == Spec => []LastWordHolds
  <1>1. Init => IInv /\ WordInv
    BY IInit, WordInit
  <1>2. IInv /\ WordInv /\ [Next]_vars => (IInv /\ WordInv)'
    BY INext, IStutters, WordNext
  <1>3. WordInv => LastWordHolds
    <2> SUFFICES ASSUME WordInv, NEW what \in DOMAIN asked
                 PROVE  \/ asked[what].overlap
                        \/ ValueOf(what) \subseteq {asked[what].want}
                        \/ what[1] # "secret" /\ ~Live(db, what[2])
      BY DEF LastWordHolds
    <2>1. Word(what, asked[what], db)
      BY DEF WordInv
    <2>2. CASE what[1] = "secret" /\ \A c \in db.conns : c.id = what[2] => c.secret = asked[what].want
      <3>1. ValueOf(what) = {c.secret : c \in OrgSsoConnection(db, what[2])}
        BY <2>2 DEF ValueOf
      <3> QED BY <2>2, <3>1 DEF OrgSsoConnection
    <2>3. CASE \/ what[1] = "limit" /\ RowOf(db, what[2]).limit = asked[what].want
               \/ what[1] = "suspended" /\ RowOf(db, what[2]).suspended = asked[what].want
               \/ what[1] = "customer" /\ RowOf(db, what[2]).customer = asked[what].want
      BY <2>3 DEF ValueOf
    <2> QED BY <2>1, <2>2, <2>3 DEF Word
  <1> QED BY <1>1, <1>2, <1>3, PTL DEF Spec
=============================================================================
