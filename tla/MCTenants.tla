----------------------------- MODULE MCTenants -------------------------------
(* Two organizations: one with an owner and an administrator, single       *)
(* sign-on and an invitation; one whose owner is nobody there.             *)
EXTENDS TenantSso

CONSTANTS u1, u2, u3, l1, l2, d1, p1, p2

Session(u) == [kind |-> "user", user |-> u, scope |-> NoOrg]
Key(o)     == [kind |-> "key", user |-> NoUser, scope |-> o]

In(o, u, role) == [org |-> o, user |-> u, role |-> role]
Conn(id, kind) == [id |-> id, org |-> 1, kind |-> kind, enabled |-> TRUE, role |-> Member,
                   provision |-> TRUE, secret |-> 1]
Invite(role) == [id |-> 0, org |-> 1, email |-> u3, role |-> role, by |-> u1, accepted |-> FALSE]

Tables(second, members, domains, conns, links, invites, tickets) ==
  [org |-> (l1 :> NewRow(1) @@ l2 :> IF second THEN NewRow(2) ELSE NoRow), next |-> 3,
   users |-> {u1, u2}, members |-> members, invites |-> invites, domains |-> domains,
   conns |-> conns, links |-> links, tickets |-> tickets, sessions |-> {}]

Verified(o) == {[id |-> 5, org |-> o, domain |-> d1, verified |-> TRUE]}
Claimed(o)  == {[id |-> 6, org |-> o, domain |-> d1, verified |-> FALSE]}
Ticket      == {[id |-> 0, conn |-> 7]}

Scene(tables, callers, kinds, requests) ==
  [tables |-> tables, callers |-> callers, kinds |-> kinds, requests |-> requests]

People2 == {"add", "role", "remove", "invite", "uninvite", "accept"}

SomeScenes ==
  {\* two owners, and an invitation that somebody else holds
   Scene(Tables(FALSE, {In(1, u1, Owner), In(1, u2, Owner)}, {}, {}, {}, {Invite(Member)}, {}),
         {Session(u1), Session(u2)}, People2, 2),
   \* an owner and an administrator; the other organization's key
   Scene(Tables(TRUE, {In(1, u1, Owner), In(1, u2, Admin)}, Claimed(1), {Conn(7, "oidc")}, {}, {Invite(Owner)}, {}),
         {Session(u2), Key(2)}, People2 \union {"verify", "disclaim", "edit", "cut"}, 2),
   \* people sign in while the organization changes
   Scene(Tables(TRUE, {In(1, u1, Owner), In(2, u2, Owner)}, Verified(1) \union Claimed(2),
                {Conn(7, "oidc")}, {}, {}, Ticket),
         {Session(u1)}, {"sso", "add", "remove", "disclaim", "edit", "cut"}, 3),
   Scene(Tables(FALSE, {In(1, u1, Owner)}, Verified(1),
                {Conn(7, "saml")}, {[conn |-> 7, subject |-> 1, user |-> u2]}, {Invite(Owner)}, Ticket),
         {Session(u1)}, {"sso", "role", "accept", "raze"}, 3),
   Scene(Tables(TRUE, {In(2, u2, Owner)}, Verified(2) \union Claimed(1),
                {Conn(7, "saml"), Conn(8, "oidc")}, {}, {}, Ticket),
         {Key(NoOrg)}, {"sso", "claim", "verify", "disclaim"}, 3),
   \* settings
   Scene(Tables(FALSE, {In(1, u1, Owner)}, {}, {Conn(7, "oidc")}, {}, {}, {}),
         {Key(NoOrg)}, {"limits", "billing", "tfa", "connect", "edit", "found"}, 3),
   \* an organization goes and its permalink is taken by another
   Scene(Tables(TRUE, {In(1, u1, Owner), In(2, u2, Owner)}, Claimed(2), {}, {}, {}, {}),
         {Session(u1), Session(u2)}, {"raze", "found", "add", "claim", "tfa"}, 3)}

SomePeople == {[subject |-> 1, email |-> u2], [subject |-> 2, email |-> u3], [subject |-> 3, email |-> u1]}
InDomain   == [u \in Users |-> IF u = u1 THEN "elsewhere" ELSE d1]

Symmetric == Permutations(Procs)
=============================================================================
