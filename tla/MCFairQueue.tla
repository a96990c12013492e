---------------------------- MODULE MCFairQueue -----------------------------
(* FairQueue for two or three tenants and one or two worker processes. *)
EXTENDS FairQueue, TLC

CONSTANTS s1, s2, s3, p1, p2, t1, t2

Everything(servers) == [servers |-> servers, exclude |-> {}, kinds |-> BOOLEAN]

(* One process serves everything, with as many threads as given, and may   *)
(* be restarted once.                                                      *)
OneProcess(servers, threads, n) ==
    [servers |-> servers, processOf |-> [t \in threads |-> p1], filter |-> [p \in {p1} |-> Everything(servers)],
     remembered |-> 3, kinds |-> {FALSE}, rows |-> n, retries |-> 0, crashes |-> 1]

(* docs/configuration.md: one worker for everything but one tenant, one    *)
(* dedicated to that tenant's bulk mail.                                   *)
Dedicated ==
    [servers |-> {s1, s2}, processOf |-> [t \in {t1, t2} |-> IF t = t1 THEN p1 ELSE p2],
     filter |-> [p \in {p1, p2} |->
                   IF p = p1 THEN [Everything({s1, s2}) EXCEPT !.exclude = {s1}]
                   ELSE [Everything({s1, s2}) EXCEPT !.servers = {s1}, !.kinds = {TRUE}]],
     remembered |-> 2, kinds |-> BOOLEAN, rows |-> 3, retries |-> 1, crashes |-> 1]

SomeScenes == {OneProcess({s1, s2}, {t1, t2}, 4), OneProcess({s1, s2, s3}, {t1}, 5), Dedicated}

(* A restart leaves a lock, and one other server has mail. *)
DeadLock == {OneProcess({s1, s2}, {t1}, 6)}
=============================================================================
