---------------------------- MODULE MCSubmission ----------------------------
(* Submission for two clients, small requests and short months. *)
EXTENDS Submission, TLC

CONSTANTS s1, s2, k1, c1, c2, a1

Item(n)  == [n |-> n, valid |-> TRUE]
Invalid  == [n |-> 1, valid |-> FALSE]
Shape(s, k, op, items) == [server |-> s, key |-> k, op |-> op, items |-> items]

(* The same key on the same and on other endpoints, payloads and servers.  *)
KeyedShapes == {Shape(s1, k1, "send", <<Item(2)>>),
                Shape(s1, k1, "send", <<Invalid>>),
                Shape(s1, k1, "batch", <<Item(1), Invalid, Item(1)>>),
                Shape(s1, k1, "smtp", <<Item(2)>>)}

PlainShapes == {Shape(s1, NoKey, "send", <<Item(2)>>),
                Shape(s2, NoKey, "smtp", <<Item(1)>>),
                Shape(s2, NoKey, "batch", <<Item(1), Item(2)>>),
                Shape(s1, NoKey, "batch", <<>>)}

SmtpShapes  == {Shape(s1, NoKey, "smtp", <<Item(2)>>)}

Scene == [servers |-> {s1}, admins |-> {}, shapes |-> KeyedShapes, serverLimit |-> [s \in {s1} |-> Unlimited],
          firstLimit |-> 3, limits |-> {}, faults |-> {"policy", "query", "store", "lost"},
          calls |-> 3, lastDay |-> 0, changes |-> 0, expiries |-> 1, failures |-> 1,
          reauth |-> FALSE]

SomeScenes ==
  {Scene,
   [Scene EXCEPT !.servers = {s1, s2}, !.admins = {a1}, !.shapes = PlainShapes,
                 !.serverLimit = [s \in {s1, s2} |-> IF s = s2 THEN 2 ELSE Unlimited],
                 !.limits = {5}, !.faults = {"query", "store"}, !.calls = 2, !.lastDay = 4, !.changes = 2, !.expiries = 0,
                 !.reauth = TRUE],
   [Scene EXCEPT !.shapes = SmtpShapes, !.serverLimit = [s \in {s1} |-> 3],
                 !.faults = {"policy", "query"}, !.expiries = 0, !.reauth = TRUE],
   [Scene EXCEPT !.shapes = SmtpShapes, !.faults = {"policy"}, !.expiries = 0]}

LostScenes == {[Scene EXCEPT !.shapes = SmtpShapes, !.firstLimit = Unlimited, !.faults = {"store"}, !.calls = 1, !.expiries = 0]}

Symmetric == Permutations(Clients)
=============================================================================
