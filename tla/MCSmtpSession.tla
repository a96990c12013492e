--------------------------- MODULE MCSmtpSession ----------------------------
(* SmtpSession with two servers, two credentials and one address of each   *)
(* kind.                                                                   *)
EXTENDS SmtpSession

CONSTANTS s1, s2, k1, k2, x, y, p, q, r, t, u, v, o

OneServerEach == [k \in Credentials |-> IF k = k1 THEN s1 ELSE s2]

Address(name, kind, server, reject) ==
    [name |-> name, kind |-> kind, server |-> server, reject |-> reject]

(* A bounce and a route token, a mailbox by name, an address of no route,  *)
(* and two that are refused.                                               *)
AllAddresses == {Address(p, "bounce", s1, FALSE), Address(q, "token", s2, FALSE),
                 Address(r, "plain", s1, FALSE), Address(t, "plain", None, FALSE),
                 Address(u, "bounce", None, FALSE), Address(v, "token", s1, TRUE)}

Content(from, key, bad) == [from |-> from, key |-> key, bad |-> bad]

AllContents == {Content({s1}, "none", FALSE), Content({s1}, "valid", FALSE),
                Content({s1}, "invalid", FALSE), Content({s2}, "none", FALSE),
                Content({}, "none", TRUE), Content({}, "none", FALSE)}
=============================================================================
