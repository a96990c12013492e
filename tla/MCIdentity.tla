----------------------------- MODULE MCIdentity ------------------------------
(* Identity for an account that exists and an address that is free.        *)
EXTENDS Identity

CONSTANTS u1, u2, p1, p2

Known == [NewAccount(0, TRUE) EXCEPT !.pw = 1]
Session == [id |-> 0, user |-> u1, how |-> "password", pw |-> 1,
            raced |-> FALSE, kept |-> FALSE, live |-> TRUE]
Presented == 8    \* the id of an assertion of an earlier sign-in
First(a, keys, kinds) ==
  [account  |-> [u \in Users |-> IF u = u1 THEN a ELSE Absent(0)],
   sessions |-> {Session}, passkeys |-> {[id |-> k, user |-> u1] : k \in keys}, asserted |-> {Presented},
   kinds    |-> kinds]

Close  == [Known EXCEPT !.fails = MaxAttempts - 1]
Secure == [Known EXCEPT !.secret = 1, !.totp = TRUE]

(* Passwords and passkeys of an account one attempt from the lock; second  *)
(* factors, there or not; accounts that come and go.                       *)
SomeScenes ==
  {First(Close, {9}, {"login", "logout", "me", "change", "forgot", "reset",
                      "keystart", "keyfinish", "scim", "update", "destroy"}),
   First(Known, {}, {"login", "enroll", "activate", "regstart", "regfinish", "scim"}),
   First(Secure, {9}, {"login", "unfactor", "enroll", "activate", "unkey", "change", "scim"}),
   First(Known, {}, {"register", "admin", "social", "oidc", "saml", "scim", "destroy"})}

SomePeople == {[subject |-> 1, email |-> u1, ok |-> TRUE],
               [subject |-> 2, email |-> u2, ok |-> TRUE],
               [subject |-> 2, email |-> u1, ok |-> FALSE]}

Good == [id |-> 1, email |-> u1, destination |-> TRUE, success |-> TRUE, encrypted |-> FALSE,
         assertions |-> 1, signed |-> "assertion", begun |-> TRUE, age |-> "fresh",
         audience |-> TRUE, bearer |-> TRUE]
SomeResponses == {Good, [Good EXCEPT !.id = 2, !.email = u2, !.age = "grace"], [Good EXCEPT !.id = Presented],
                  [Good EXCEPT !.signed = "none"], [Good EXCEPT !.age = "expired"]}

Symmetric == Permutations(Procs)
=============================================================================
