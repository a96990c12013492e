---------------------------- MODULE MCResources ------------------------------
(* Two organizations; the first has two servers, the second one that bears *)
(* the permalink of the first.                                             *)
EXTENDS ResourceApi, TLC

CONSTANTS p1, p2

SomeLinks == {<<101, "a">>, <<101, "b">>, <<102, "a">>}

At1(row, id) == [row EXCEPT !.id = id]
A == At1(Row("server", 101, "a", None), 1)
B == At1(Row("server", 101, "b", None), 2)
C == At1(Row("server", 102, "a", None), 3)
WithStream == {[A EXCEPT !.more = 4], At1(Row("stream", 1, "outbound", None), 4)}
X(t, up, id) == At1(Row(t, up, "x", None), id)
Pool == At1(Row("pool", None, "pool", None), 8)
Key  == At1(Row("key", 1, "key", 101), 9)

Scene(rows, keys, ops, requests) == [rows |-> rows, keys |-> keys, ops |-> ops, requests |-> requests]

SomeScenes ==
  {\* servers come and go
   Scene(WithStream \union {C, Pool}, {GlobalKey},
         {"servers_create", "servers_update", "servers_suspend", "servers_unsuspend", "servers_destroy",
          "servers_set_ip_pool", "keys_create"}, 3),
   Scene(WithStream \union {B, Key}, {GlobalKey, 9},
         {"servers_update", "servers_suspend", "servers_destroy", "servers_create", "keys_destroy"}, 3),
   \* the same names on two servers
   Scene({A, B, X("domain", 1, 5), X("domain", 2, 6)}, {GlobalKey},
         {"domains_create", "domains_update", "domains_verify", "domains_destroy", "servers_destroy"}, 3),
   Scene({A, B, X("track", 1, 5), X("track", 2, 6), X("sender", 1, 7)}, {GlobalKey},
         {"track_create", "track_verify", "track_destroy", "sender_create", "sender_destroy", "sender_confirm"}, 3),
   Scene({A, B, X("credential", 1, 5), X("webhook", 2, 6), X("webhook", 1, 7)}, {GlobalKey},
         {"credentials_create", "credentials_update", "credentials_destroy", "webhooks_create",
          "webhooks_update", "webhooks_enable", "webhooks_destroy"}, 3),
   Scene({A, B, X("domain", 1, 5), X("domain", 2, 6), X("route", 1, 7), X("suppression", 2, 10)}, {GlobalKey},
         {"routes_create", "routes_update", "routes_destroy", "domains_destroy", "suppressions_create",
          "suppressions_destroy", "messages_import"}, 3),
   \* templates and their layouts
   Scene({A, B, C, X("credential", 1, 5), X("layout", 1, 6), X("layout", 2, 10),
          [X("template", 1, 7) EXCEPT !.ref = 6], X("template", 2, 11)}, {GlobalKey},
         {"templates_copy", "templates_create", "template_update", "template_archive", "layout_destroy"}, 3),
   Scene({A, B, X("credential", 1, 5), X("credential", 2, 7), X("layout", 1, 6), X("stream", 2, 10)}, {GlobalKey},
         {"layouts_create", "layout_update", "layout_logo", "layout_destroy", "credentials_update", "streams_create"}, 3),
   \* pools
   Scene({A, X("credential", 1, 5), Pool, X("stream", 1, 6), X("address", 8, 7)}, {GlobalKey},
         {"streams_create", "stream_update", "stream_archive", "pools_create", "pools_destroy", "addresses_create",
          "addresses_destroy", "servers_set_ip_pool"}, 3)}

Symmetric == Permutations(Procs)
=============================================================================
