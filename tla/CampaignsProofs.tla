--------------------------- MODULE CampaignsProofs ---------------------------
(***************************************************************************)
(* Proofs about Campaigns, for any number of subscribers, processes and    *)
(* requests, and for any bounds.                                           *)
(*                                                                         *)
(* As long as no request writes over a status it has not read, a campaign  *)
(* has at most one expansion, started or about to be, and the mail that is *)
(* stored is the work this expansion has done so far.                      *)
(***************************************************************************)
EXTENDS Campaigns, FiniteSetTheorems, TLAPS

Steps  == {"list", "next", "store", "tag", "progress", "fail", "done"}
Totals == {0} \union {Cardinality(S) : S \in SUBSET Addresses}

CampaignRow == [status : Statuses, armed : BOOLEAN, due : BOOLEAN, total : Totals,
                sent : Nat, completed : BOOLEAN]
Task        == [pc : Steps, host : Hosts, awaited : BOOLEAN, todo : SUBSET Addresses,
                at : Addresses \union {0}, sent : Nat, inBatch : Nat]
Mail        == [expansion : Nat, address : Addresses, answered : BOOLEAN,
                tagged : BOOLEAN]
Request     == [kind : {"idle", "edit", "schedule", "clear", "send", "cancel", "counted", "spawn"},
                total : Totals]

TypeOK ==
    /\ campaign \in CampaignRow
    /\ subscribed \in SUBSET Addresses
    /\ mail \in SUBSET Mail
    /\ request \in [Requesters -> Request]
    /\ claimed \in SUBSET Hosts
    /\ expansions \in Seq(Task)
    /\ raced \in BOOLEAN
    /\ \A i \in 1..Len(expansions) :
          expansions[i].pc \in {"store", "tag"} => expansions[i].at \in expansions[i].todo

(* The messages whose store was answered. *)
Counted(stored) == {m \in stored : m.answered}

(* The stored mail is what the expansion x has done: one message whose     *)
(* store was answered for every recipient it has counted, and one for the  *)
(* recipient whose message it has stored and not yet tagged.               *)
Done(x, stored, row) ==
    /\ IsFiniteSet(Counted(stored))
    /\ \A m \in stored : m.expansion = 1
    /\ \A m, n \in stored : m.address = n.address => m = n
    /\ x.pc # "done" =>
          /\ row.status # "sent"
          /\ \A m \in stored : m.address \in x.todo => x.pc = "tag" /\ m.address = x.at
          /\ x.pc = "tag" => \E m \in stored : m.address = x.at /\ m.answered
          /\ Cardinality(Counted(stored)) = IF x.pc = "tag" THEN x.sent + 1 ELSE x.sent
    /\ x.pc = "list" => stored = {}
    /\ row.status = "sent" => row.sent = Cardinality(Counted(stored))

(* Nobody is about to start an expansion, or one requester or scheduler.   *)
NoneStarting == claimed = {} /\ \A r \in Requesters : request[r].kind # "spawn"

OneStarting ==
    /\ \A g, h \in claimed : g = h
    /\ \A q, r \in Requesters : request[q].kind = "spawn" /\ request[r].kind = "spawn" => q = r
    /\ claimed = {} \/ \A r \in Requesters : request[r].kind # "spawn"

(* A campaign that is not planned any more was handed to one expansion,    *)
(* which has started, is about to, or never will; or it was canceled       *)
(* before it was handed to any.                                            *)
Single ==
    \/ /\ expansions = <<>>
       /\ OneStarting
       /\ Planned(campaign.status) => NoneStarting
       /\ campaign.status # "sent"
       /\ mail = {}
    \/ /\ Len(expansions) = 1
       /\ NoneStarting
       /\ ~Planned(campaign.status)
       /\ Done(expansions[1], mail, campaign)

IInv == TypeOK /\ (~raced => Single)

-----------------------------------------------------------------------------
(***************************************************************************)
(* What the steps of an expansion change.                                  *)
(***************************************************************************)

(* A task whose current recipient, if it has one, is still to be done. *)
Sound(x) == x \in Task /\ (x.pc \in {"store", "tag"} => x.at \in x.todo)

(* One expansion takes a step. *)
Becomes(i, y) == expansions' = [expansions EXCEPT ![i] = y]

LEMMA TaskStep ==
    ASSUME TypeOK, NEW i \in 1..Len(expansions), NEW y, Sound(y), Becomes(i, y)
    PROVE  /\ expansions' \in Seq(Task)
           /\ Len(expansions') = Len(expansions)
           /\ \A j \in 1..Len(expansions') :
                 expansions'[j] = IF j = i THEN y ELSE expansions[j]
           /\ \A j \in 1..Len(expansions') :
                 expansions'[j].pc \in {"store", "tag"} =>
                    expansions'[j].at \in expansions'[j].todo
  <1>1. expansions \in Seq(Task) /\ y \in Task
    BY DEF TypeOK, Sound
  <1>2. /\ expansions' \in Seq(Task)
        /\ Len(expansions') = Len(expansions)
        /\ \A j \in 1..Len(expansions') :
              expansions'[j] = IF j = i THEN y ELSE expansions[j]
    BY <1>1 DEF Becomes
  <1> QED BY <1>2 DEF TypeOK, Sound

(* The step that follows a recipient. *)
LEMMA AfterRecipientStep ==
    ASSUME NEW x \in Task, NEW a \in x.todo
    PROVE  LET y == AfterRecipient(x, a)
           IN  /\ y \in Task
               /\ y.pc \in {"progress", "next"}
               /\ y.todo = x.todo \ {a}
               /\ y.sent = x.sent
               /\ y.host = x.host
  <1> DEFINE full == x.inBatch + 1 = BatchSize \/ x.todo = {a}
             y    == AfterRecipient(x, a)
  <1>1. y = [x EXCEPT !.todo = x.todo \ {a}, !.at = 0,
                      !.inBatch = IF full THEN 0 ELSE x.inBatch + 1,
                      !.pc = IF full THEN "progress" ELSE "next"]
    BY DEF AfterRecipient
  <1> HIDE DEF full
  <1> DEFINE n  == IF full THEN 0 ELSE x.inBatch + 1
             pc == IF full THEN "progress" ELSE "next"
             T  == x.todo \ {a}
  <1>2. n \in Nat
    BY DEF Task
  <1>3. pc \in {"progress", "next"}
    OBVIOUS
  <1>4. T \subseteq Addresses
    BY DEF Task
  <1>5. y = [x EXCEPT !.todo = T, !.at = 0, !.inBatch = n, !.pc = pc]
    BY <1>1
  <1>6. T = x.todo \ {a}
    OBVIOUS
  <1> HIDE DEF n, pc, T, y
  <1>7. y = [pc |-> pc, host |-> x.host, awaited |-> x.awaited, todo |-> T, at |-> 0,
             sent |-> x.sent, inBatch |-> n]
    BY <1>5 DEF Task
  <1>8. y \in Task
    BY <1>2, <1>3, <1>4, <1>7 DEF Task, Steps
  <1>9. y.pc \in {"progress", "next"} /\ y.todo = x.todo \ {a} /\ y.sent = x.sent /\ y.host = x.host
    BY <1>3, <1>6, <1>7
  <1> QED BY <1>8, <1>9 DEF y

(* The expansion an action of expand_campaign works on is one of the tasks. *)
LEMMA TaskOf ==
    ASSUME TypeOK, NEW i \in 1..Len(expansions)
    PROVE  /\ Sound(expansions[i])
           /\ expansions[i] \in Task
  BY DEF TypeOK, Sound

LEMMA SingletonSeq ==
    ASSUME NEW S, NEW y \in S
    PROVE  <<y>> \in Seq(S) /\ Len(<<y>>) = 1 /\ <<y>>[1] = y
  OBVIOUS

LEMMA NewTask ==
    ASSUME NEW host \in Hosts, NEW awaited \in BOOLEAN
    PROVE  /\ Sound(Expansion(host, awaited))
           /\ Expansion(host, awaited) \in Task
           /\ Expansion(host, awaited).pc = "list"
           /\ Expansion(host, awaited).sent = 0
           /\ Expansion(host, awaited).todo = {}
  BY DEF Expansion, Sound, Task, Steps

LEMMA Spawned ==
    ASSUME TypeOK, NEW y, Sound(y), expansions' = Append(expansions, y)
    PROVE  /\ expansions' \in Seq(Task)
           /\ Len(expansions') = Len(expansions) + 1
           /\ expansions'[Len(expansions) + 1] = y
           /\ \A j \in 1..Len(expansions) : expansions'[j] = expansions[j]
           /\ \A j \in 1..Len(expansions') :
                 expansions'[j].pc \in {"store", "tag"} =>
                    expansions'[j].at \in expansions'[j].todo
  <1>1. expansions \in Seq(Task) /\ y \in Task
    BY DEF TypeOK, Sound
  <1>2. /\ expansions' \in Seq(Task)
        /\ Len(expansions') = Len(expansions) + 1
        /\ expansions'[Len(expansions) + 1] = y
        /\ \A j \in 1..Len(expansions) : expansions'[j] = expansions[j]
    BY <1>1
  <1>3. \A j \in 1..Len(expansions') : j \in 1..Len(expansions) \/ j = Len(expansions) + 1
    BY <1>1, <1>2
  <1> QED BY <1>2, <1>3 DEF TypeOK, Sound

(***************************************************************************)
(* Types                                                                   *)
(***************************************************************************)
LEMMA AboutToSpawn ==
    /\ Idle \in Request /\ Idle.kind = "idle"
    /\ [Idle EXCEPT !.kind = "spawn"] \in Request
    /\ [Idle EXCEPT !.kind = "spawn"].kind = "spawn"
  BY DEF Idle, Request, Totals

LEMMA TypeInit == CampaignAssumption /\ Init => TypeOK
  <1> SUFFICES ASSUME CampaignAssumption, Init PROVE TypeOK
    OBVIOUS
  <1>1. PICK status \in FirstStatuses, r \in Requesters :
          /\ campaign = [status |-> status, armed |-> status = "scheduled",
                         due |-> FALSE, total |-> Cardinality(Addresses),
                         sent |-> 0, completed |-> FALSE]
          /\ request = [q \in Requesters |-> IF status = "sending" /\ q = r
                                             THEN [Idle EXCEPT !.kind = "spawn"] ELSE Idle]
    BY DEF Init
  <1>2. campaign \in CampaignRow
    BY <1>1 DEF CampaignRow, Statuses, Totals, CampaignAssumption
  <1>3. request \in [Requesters -> Request]
    BY <1>1, AboutToSpawn
  <1>4. expansions \in Seq(Task) /\ Len(expansions) = 0
    BY DEF Init
  <1>5. \A i \in 1..Len(expansions) : FALSE
    BY <1>4
  <1> QED BY <1>2, <1>3, <1>4, <1>5 DEF Init, TypeOK

LEMMA TypeRequests ==
    ASSUME CampaignAssumption, TypeOK, NEW r \in Requesters,
           \/ \E kind \in Kinds : Read(r, kind)
           \/ Write(r)
           \/ CountAudience(r)
           \/ WriteSend(r)
           \/ Abandon(r)
           \/ \E host \in Hosts : Spawn(r, host)
    PROVE  TypeOK'
  <1>1. CASE \E kind \in Kinds : Read(r, kind)
    BY <1>1 DEF Read, TypeOK, Request, Totals, CampaignAssumption
  <1>2. CASE Write(r)
    <2>1. campaign' \in CampaignRow
      BY <1>2 DEF Write, Updated, TypeOK, CampaignRow, Statuses
    <2>2. request' \in [Requesters -> Request]
      BY <1>2 DEF Write, Idle, TypeOK, Request, Totals
    <2> QED BY <1>2, <2>1, <2>2 DEF Write, TypeOK
  <1>3. CASE CountAudience(r)
    BY <1>3 DEF CountAudience, TypeOK, Request, Totals
  <1>4. CASE WriteSend(r)
    <2>1. campaign' \in CampaignRow
      BY <1>4 DEF WriteSend, Updated, TypeOK, CampaignRow, Statuses, Request
    <2>2. request' \in [Requesters -> Request]
      BY <1>4, AboutToSpawn DEF WriteSend, TypeOK
    <2> QED BY <1>4, <2>1, <2>2 DEF WriteSend, TypeOK
  <1>5. CASE Abandon(r)
    <2>1. request' \in [Requesters -> Request]
      BY <1>5, AboutToSpawn DEF Abandon, TypeOK
    <2> QED BY <1>5, <2>1 DEF Abandon, TypeOK
  <1>6. CASE \E host \in Hosts : Spawn(r, host)
    <2>1. PICK host \in Hosts : Spawn(r, host)
      BY <1>6
    <2>2. request' \in [Requesters -> Request]
      BY <2>1, AboutToSpawn DEF Spawn, TypeOK
    <2>3. /\ expansions' \in Seq(Task)
          /\ \A j \in 1..Len(expansions') :
                expansions'[j].pc \in {"store", "tag"} =>
                   expansions'[j].at \in expansions'[j].todo
      BY <2>1, NewTask, Spawned DEF Spawn
    <2> QED BY <2>1, <2>2, <2>3 DEF Spawn, TypeOK
  <1> QED BY <1>1, <1>2, <1>3, <1>4, <1>5, <1>6

LEMMA TypeScheduler ==
    ASSUME CampaignAssumption, TypeOK, NEW host \in Hosts,
           Claim(host) \/ Start(host) \/ ClaimLost(host) \/ Crash(host)
    PROVE  TypeOK'
  <1>1. CASE Claim(host)
    BY <1>1 DEF Claim, TypeOK, CampaignRow, Statuses
  <1>2. CASE ClaimLost(host)
    BY <1>2 DEF ClaimLost, TypeOK
  <1>3. CASE Start(host)
    <2>1. /\ expansions' \in Seq(Task)
          /\ \A j \in 1..Len(expansions') :
                expansions'[j].pc \in {"store", "tag"} =>
                   expansions'[j].at \in expansions'[j].todo
      BY <1>3, NewTask, Spawned DEF Start
    <2> QED BY <1>3, <2>1 DEF Start, TypeOK
  <1>4. CASE Crash(host)
    <2> DEFINE F(j) == IF expansions[j].host = host THEN [expansions[j] EXCEPT !.pc = "done"]
                                                    ELSE expansions[j]
    <2>1. expansions' = [j \in 1..Len(expansions) |-> F(j)]
      BY <1>4 DEF Crash
    <2>2. \A j \in 1..Len(expansions) : Sound(F(j)) /\ F(j) \in Task
      BY TaskOf DEF Sound, Task, Steps
    <2>3. Len(expansions) \in Nat
      BY DEF TypeOK
    <2> HIDE DEF F
    <2>4. /\ expansions' \in Seq(Task)
          /\ Len(expansions') = Len(expansions)
          /\ \A j \in 1..Len(expansions) : expansions'[j] = F(j)
      BY <2>1, <2>2, <2>3
    <2>5. \A j \in 1..Len(expansions') :
             expansions'[j].pc \in {"store", "tag"} => expansions'[j].at \in expansions'[j].todo
      BY <2>2, <2>4 DEF Sound
    <2> QED BY <1>4, <2>4, <2>5 DEF Crash, TypeOK
  <1> QED BY <1>1, <1>2, <1>3, <1>4

LEMMA TypeEnvironment ==
    ASSUME CampaignAssumption, TypeOK, ComesDue \/ \E a \in Addresses : ChangeSubscription(a)
    PROVE  TypeOK'
  <1>1. CASE ComesDue
    BY <1>1 DEF ComesDue, TypeOK, CampaignRow
  <1>2. CASE \E a \in Addresses : ChangeSubscription(a)
    BY <1>2 DEF ChangeSubscription, TypeOK
  <1> QED BY <1>1, <1>2

-----------------------------------------------------------------------------
(***************************************************************************)
(* The steps of one expansion                                              *)
(***************************************************************************)

(* As long as nobody raced there is one expansion: it takes the step. *)
LEMMA ExpansionStep ==
    ASSUME IInv, NEW i \in 1..Len(expansions), NEW y, Sound(y), Becomes(i, y),
           campaign' \in CampaignRow, subscribed' = subscribed, mail' \in SUBSET Mail,
           request' = request, claimed' = claimed, raced' = raced,
           /\ i = 1
           /\ Done(expansions[1], mail, campaign)
           /\ ~Planned(campaign.status)
           => /\ ~Planned(campaign'.status)
              /\ Done(y, mail', campaign')
    PROVE  IInv'
  <1>1. TypeOK'
    BY TaskStep DEF IInv, TypeOK
  <1>2. ASSUME ~raced PROVE Single'
    <2>1. Single
      BY <1>2 DEF IInv
    <2>2. Len(expansions) # 0 /\ expansions # <<>>
      BY DEF IInv, TypeOK
    <2>3. Len(expansions) = 1 /\ ~Planned(campaign.status) /\ Done(expansions[1], mail, campaign)
      BY <2>1, <2>2 DEF Single
    <2>4. i = 1
      BY <2>3
    <2>5. Len(expansions') = 1 /\ expansions'[1] = y
      BY <2>3, <2>4, TaskStep DEF IInv
    <2>6. NoneStarting'
      BY <2>1, <2>2 DEF Single, NoneStarting
    <2> QED BY <2>3, <2>4, <2>5, <2>6 DEF Single
  <1> QED BY <1>1, <1>2 DEF IInv

LEMMA ListSubscribersStep ==
    ASSUME CampaignAssumption, IInv, NEW i \in 1..Len(expansions), ListSubscribers(i)
    PROVE  IInv'
  <1> DEFINE x == expansions[i]
             y == [x EXCEPT !.todo = subscribed, !.pc = "next"]
  <1>1. x \in Task /\ subscribed \in SUBSET Addresses /\ x.pc = "list"
    BY TaskOf DEF IInv, TypeOK, ListSubscribers
  <1>2. y \in Task /\ y.pc = "next" /\ y.sent = x.sent
    BY <1>1 DEF Task, Steps
  <1>3. Becomes(i, y)
    BY DEF ListSubscribers, Becomes
  <1>4. Sound(y)
    BY <1>2 DEF Sound
  <1>5. campaign' = campaign /\ mail' = mail /\ subscribed' = subscribed /\ request' = request
        /\ claimed' = claimed /\ raced' = raced
    BY DEF ListSubscribers
  <1> HIDE DEF x, y
  <1>6. Done(x, mail, campaign) => Done(y, mail, campaign)
    BY <1>1, <1>2 DEF Done
  <1>7. campaign \in CampaignRow /\ mail \in SUBSET Mail
    BY DEF IInv, TypeOK
  <1> QED BY <1>3, <1>4, <1>5, <1>6, <1>7, ExpansionStep DEF x

(* A step that changes the program counter, and the row it may write. *)
LEMMA GoStep ==
    ASSUME IInv, NEW i \in 1..Len(expansions), NEW pc \in {"fail", "next", "done"}, Go(i, pc),
           campaign' \in CampaignRow, subscribed' = subscribed, mail' = mail,
           request' = request, claimed' = claimed, raced' = raced, expansions[i].pc # "tag", expansions[i].pc # "done",
           campaign' # campaign =>
              /\ ~Planned(campaign'.status)
              /\ campaign'.status = "sent" => campaign'.sent = expansions[i].sent /\ pc = "done"
    PROVE  IInv'
  <1> DEFINE x == expansions[i]
             y == [x EXCEPT !.pc = pc]
  <1>1. x \in Task /\ x.pc # "tag" /\ x.pc # "done"
    BY TaskOf DEF IInv
  <1>2. y \in Task /\ y.pc = pc /\ y.sent = x.sent /\ y.todo = x.todo
    BY <1>1 DEF Task, Steps
  <1>3. Becomes(i, y)
    BY DEF Go, Becomes
  <1>4. Sound(y)
    BY <1>2 DEF Sound
  <1>5. campaign' # campaign =>
              /\ ~Planned(campaign'.status)
              /\ campaign'.status = "sent" => campaign'.sent = x.sent /\ pc = "done"
    OBVIOUS
  <1> HIDE DEF x, y
  <1>6. ~Planned(campaign.status) /\ Done(x, mail, campaign) =>
              ~Planned(campaign'.status) /\ Done(y, mail, campaign')
    BY <1>1, <1>2, <1>5 DEF Done
  <1>7. mail \in SUBSET Mail
    BY DEF IInv, TypeOK
  <1> QED BY <1>3, <1>4, <1>6, <1>7, ExpansionStep DEF x

LEMMA RowWritten ==
    ASSUME IInv, NEW sent \in Nat, NEW status \in Statuses, NEW completed \in BOOLEAN,
           Progress(sent, status, completed)
    PROVE  campaign' \in CampaignRow /\ campaign'.status = status /\ campaign'.sent = sent
  BY DEF Progress, IInv, TypeOK, CampaignRow

LEMMA WritingSteps ==
    ASSUME CampaignAssumption, IInv, NEW i \in 1..Len(expansions), NEW fails \in BOOLEAN,
           \/ CannotList(i)
           \/ MarkFailed(i, fails)
           \/ WriteProgress(i, fails)
           \/ Finish(i, fails)
    PROVE  IInv'
  <1>1. campaign \in CampaignRow /\ expansions[i].sent \in Nat
    BY TaskOf DEF IInv, TypeOK, Task
  <1>2. CASE CannotList(i)
    BY <1>1, <1>2, GoStep DEF CannotList
  <1>3. CASE MarkFailed(i, fails)
    <2>1. campaign' = campaign \/ Progress(0, "failed", TRUE)
      BY <1>3 DEF MarkFailed, Effects
    <2>2. campaign' \in CampaignRow /\ (campaign' # campaign => campaign'.status = "failed")
      BY <1>1, <2>1, RowWritten DEF Statuses
    <2> QED BY <1>3, <2>2, GoStep DEF MarkFailed, Planned
  <1>4. CASE WriteProgress(i, fails)
    <2>1. campaign' = campaign \/ Progress(expansions[i].sent, "sending", FALSE)
      BY <1>4 DEF WriteProgress, Effects
    <2>2. campaign' \in CampaignRow /\ (campaign' # campaign => campaign'.status = "sending")
      BY <1>1, <2>1, RowWritten DEF Statuses
    <2> QED BY <1>4, <2>2, GoStep DEF WriteProgress, Planned
  <1>5. CASE Finish(i, fails)
    <2>1. campaign' = campaign \/ Progress(expansions[i].sent, "sent", TRUE)
      BY <1>5 DEF Finish, Effects
    <2>2. campaign' \in CampaignRow
          /\ (campaign' # campaign => campaign'.status = "sent" /\ campaign'.sent = expansions[i].sent)
      BY <1>1, <2>1, RowWritten DEF Statuses
    <2> QED BY <1>5, <2>2, GoStep DEF Finish, Planned
  <1> QED BY <1>2, <1>3, <1>4, <1>5

(* A recipient that gets no message is left out. *)
LEMMA PrepareStep ==
    ASSUME CampaignAssumption, IInv, NEW i \in 1..Len(expansions), NEW a \in Addresses,
           Prepare(i, a)
    PROVE  IInv'
  <1> DEFINE x == expansions[i]
             y == IF a \in subscribed THEN [x EXCEPT !.at = a, !.pc = "store"]
                                      ELSE AfterRecipient(x, a)
  <1>1. x \in Task /\ x.pc = "next" /\ a \in x.todo
    BY TaskOf DEF IInv, Prepare
  <1>2. y \in Task /\ y.pc \in {"store", "progress", "next"} /\ y.sent = x.sent
        /\ y.todo \subseteq x.todo /\ (y.pc = "store" => y.at = a /\ y.todo = x.todo)
    <2>1. CASE a \in subscribed
      BY <1>1, <2>1 DEF Task, Steps
    <2>2. CASE a \notin subscribed
      BY <1>1, <2>2, AfterRecipientStep
    <2> QED BY <2>1, <2>2
  <1>3. Becomes(i, y)
    BY DEF Prepare, Becomes
  <1>4. Sound(y)
    BY <1>1, <1>2 DEF Sound
  <1>5. campaign' = campaign /\ mail' = mail /\ subscribed' = subscribed /\ request' = request
        /\ claimed' = claimed /\ raced' = raced
    BY DEF Prepare
  <1> HIDE DEF x, y
  <1>6. Done(x, mail, campaign) => Done(y, mail, campaign)
    BY <1>1, <1>2 DEF Done
  <1>7. campaign \in CampaignRow /\ mail \in SUBSET Mail
    BY DEF IInv, TypeOK
  <1> QED BY <1>3, <1>4, <1>5, <1>6, <1>7, ExpansionStep DEF x

(* A message of the recipient whose turn it is, who has none yet. *)
WithMessage(x, all, k) ==
    /\ \A m \in all : m.expansion = 1
    /\ \A m, n \in all : m.address = n.address => m = n
    /\ \A m \in all : m.address \in x.todo => m.address = x.at
    /\ IsFiniteSet(Counted(all))
    /\ Cardinality(Counted(all)) = IF k.answered THEN x.sent + 1 ELSE x.sent

LEMMA Stored ==
    ASSUME NEW x \in Task, NEW stored, NEW row, Done(x, stored, row), NEW k \in Mail,
           x.pc = "store", x.at \in x.todo, k.expansion = 1, k.address = x.at
    PROVE  WithMessage(x, stored \union {k}, k)
  <1>1. \A m \in stored : m.address # x.at /\ m.expansion = 1 /\ m.address \notin x.todo
    BY DEF Done
  <1>2. \A m, n \in stored \union {k} : m.address = n.address => m = n
    BY <1>1 DEF Done
  <1>3. IsFiniteSet(Counted(stored)) /\ Cardinality(Counted(stored)) = x.sent
    BY DEF Done
  <1>4. CASE k.answered
    <2>1. Counted(stored \union {k}) = Counted(stored) \union {k} /\ k \notin Counted(stored)
      BY <1>1, <1>4 DEF Counted
    <2>2. /\ IsFiniteSet(Counted(stored \union {k}))
          /\ Cardinality(Counted(stored \union {k})) = x.sent + 1
      BY <1>3, <2>1, FS_AddElement
    <2> QED BY <1>1, <1>2, <1>4, <2>2 DEF WithMessage
  <1>5. CASE ~k.answered
    <2>1. Counted(stored \union {k}) = Counted(stored)
      BY <1>5 DEF Counted
    <2> QED BY <1>1, <1>2, <1>3, <1>5, <2>1 DEF WithMessage
  <1> QED BY <1>4, <1>5

LEMMA NewMessage ==
    ASSUME TypeOK, NEW i \in 1..Len(expansions), NEW answered \in BOOLEAN,
           expansions[i].at \in Addresses
    PROVE  /\ Message(i, answered) \in Mail
           /\ Message(i, answered).expansion = i
           /\ Message(i, answered).address = expansions[i].at
           /\ Message(i, answered).answered = answered
  BY DEF Message, Mail, TypeOK

(* Skipped, the recipient has no message, or one that is not counted. *)
LEMMA SkipStep ==
    ASSUME CampaignAssumption, IInv, NEW i \in 1..Len(expansions), Skip(i)
    PROVE  IInv'
  <1> DEFINE x == expansions[i]
             y == AfterRecipient(x, x.at)
             k == Message(i, FALSE)
  <1>1. x \in Task /\ x.pc = "store" /\ x.at \in x.todo /\ x.at \in Addresses
    BY TaskOf DEF IInv, Skip, Sound, Task
  <1>2. y \in Task /\ y.pc \in {"progress", "next"} /\ y.sent = x.sent /\ y.todo = x.todo \ {x.at}
    BY <1>1, AfterRecipientStep
  <1>3. Becomes(i, y)
    BY DEF Skip, Becomes
  <1>4. Sound(y)
    BY <1>2 DEF Sound
  <1>5. campaign' = campaign /\ subscribed' = subscribed /\ request' = request
        /\ claimed' = claimed /\ raced' = raced
        /\ (mail' = mail \/ mail' = mail \union {k})
    BY DEF Skip, Effects
  <1>6. k \in Mail /\ k.expansion = i /\ k.address = x.at /\ ~k.answered
    BY <1>1, NewMessage DEF IInv
  <1> HIDE DEF x, y, k
  <1>7. campaign \in CampaignRow /\ mail \in SUBSET Mail /\ mail' \in SUBSET Mail
    BY <1>5, <1>6 DEF IInv, TypeOK
  <1>8. ASSUME i = 1, Done(x, mail, campaign) PROVE Done(y, mail', campaign)
    <2>1. CASE mail' = mail
      BY <1>1, <1>2, <1>8, <2>1 DEF Done
    <2>2. CASE mail' = mail \union {k}
      <3>1. WithMessage(x, mail', k)
        BY <1>1, <1>6, <1>8, <2>2, Stored
      <3>2. campaign.status # "sent"
        BY <1>1, <1>8 DEF Done
      <3> QED BY <1>1, <1>2, <1>6, <3>1, <3>2 DEF Done, WithMessage
    <2> QED BY <1>5, <2>1, <2>2
  <1> QED BY <1>3, <1>4, <1>5, <1>7, <1>8, ExpansionStep DEF x

LEMMA StoreStep ==
    ASSUME CampaignAssumption, IInv, NEW i \in 1..Len(expansions), Store(i)
    PROVE  IInv'
  <1> DEFINE x == expansions[i]
             y == [x EXCEPT !.pc = "tag"]
             k == Message(i, TRUE)
  <1>1. x \in Task /\ x.pc = "store" /\ x.at \in x.todo /\ x.at \in Addresses
    BY TaskOf DEF IInv, Store, Sound, Task
  <1>2. y \in Task /\ y.pc = "tag" /\ y.sent = x.sent /\ y.todo = x.todo /\ y.at = x.at
    BY <1>1 DEF Task, Steps
  <1>3. Becomes(i, y)
    BY DEF Store, Go, Becomes
  <1>4. Sound(y)
    BY <1>1, <1>2 DEF Sound
  <1>5. campaign' = campaign /\ subscribed' = subscribed /\ request' = request
        /\ claimed' = claimed /\ raced' = raced /\ mail' = mail \union {k}
    BY DEF Store
  <1>6. k \in Mail /\ k.expansion = i /\ k.address = x.at /\ k.answered
    BY <1>1, NewMessage DEF IInv
  <1> HIDE DEF x, y, k
  <1>7. campaign \in CampaignRow /\ mail \in SUBSET Mail /\ mail' \in SUBSET Mail
    BY <1>5, <1>6 DEF IInv, TypeOK
  <1>8. ASSUME i = 1, Done(x, mail, campaign) PROVE Done(y, mail', campaign)
    <2>1. WithMessage(x, mail', k)
      BY <1>1, <1>5, <1>6, <1>8, Stored
    <2>2. campaign.status # "sent"
      BY <1>1, <1>8 DEF Done
    <2>3. \E m \in mail' : m.address = y.at /\ m.answered
      BY <1>2, <1>5, <1>6
    <2> QED BY <1>2, <1>6, <2>1, <2>2, <2>3 DEF Done, WithMessage
  <1> QED BY <1>3, <1>4, <1>5, <1>7, <1>8, ExpansionStep DEF x

(* Tagging replaces the one message of this recipient. *)
LEMMA TagStep ==
    ASSUME CampaignAssumption, IInv, NEW i \in 1..Len(expansions), NEW fails \in BOOLEAN,
           Tag(i, fails)
    PROVE  IInv'
  <1> DEFINE x == expansions[i]
             z == AfterRecipient(x, x.at)
             y == [z EXCEPT !.sent = z.sent + 1]
  <1>1. x \in Task /\ x.pc = "tag" /\ x.at \in x.todo
    BY TaskOf DEF IInv, Tag, Sound
  <1>2. /\ y \in Task
        /\ y.pc \in {"progress", "next"}
        /\ y.sent = x.sent + 1
        /\ y.todo = x.todo \ {x.at}
    <2>1. z \in Task /\ z.pc \in {"progress", "next"} /\ z.sent = x.sent
          /\ z.todo = x.todo \ {x.at}
      BY <1>1, AfterRecipientStep
    <2> HIDE DEF z
    <2> QED BY <2>1 DEF Task
  <1>3. Becomes(i, y)
    BY DEF Tag, Becomes
  <1>4. Sound(y)
    BY <1>2 DEF Sound
  <1>5. campaign' = campaign /\ subscribed' = subscribed /\ request' = request
        /\ claimed' = claimed /\ raced' = raced
    BY DEF Tag
  <1>6. campaign \in CampaignRow /\ mail \in SUBSET Mail
    BY DEF IInv, TypeOK
  <1>7. PICK effect \in BOOLEAN :
          mail' = {IF m.expansion = i /\ m.address = x.at
                   THEN [m EXCEPT !.tagged = effect] ELSE m : m \in mail}
    BY DEF Tag, Effects
  <1> DEFINE G(m) == [m EXCEPT !.tagged = effect]
             F(m) == IF m.expansion = i /\ m.address = x.at THEN G(m) ELSE m
  <1>8. mail' = {F(m) : m \in mail}
    BY <1>7
  <1>10. \A m \in mail : /\ G(m) \in Mail
                         /\ G(m).expansion = m.expansion
                         /\ G(m).address = m.address
                         /\ G(m).answered = m.answered
    BY <1>6 DEF Mail
  <1> HIDE DEF x, y, z, G
  <1>11. mail' \in SUBSET Mail
    BY <1>6, <1>8, <1>10
  <1>9. ASSUME i = 1, Done(x, mail, campaign) PROVE Done(y, mail', campaign)
    <2>1. PICK k \in mail : k.address = x.at /\ k.answered
      BY <1>1, <1>9 DEF Done
    <2>2. k.expansion = 1 /\ \A m \in mail : m.address = x.at => m = k
      BY <1>9, <2>1 DEF Done
    <2> DEFINE rest    == mail \ {k}
               counted == Counted(mail) \ {k}
    <2>3. F(k) = G(k) /\ \A m \in rest : F(m) = m
      BY <1>9, <2>1, <2>2
    <2>4. mail' = rest \union {G(k)}
      BY <1>8, <2>3
    <2>5. G(k) \notin counted /\ k \in Counted(mail)
      BY <1>10, <2>1, <2>2 DEF Counted
    <2>6. Counted(mail') = counted \union {G(k)}
      BY <1>10, <2>1, <2>4 DEF Counted
    <2>7. IsFiniteSet(counted) /\ Cardinality(counted) = Cardinality(Counted(mail)) - 1
      BY <1>9, <2>5, FS_RemoveElement DEF Done
    <2>8. IsFiniteSet(Counted(mail')) /\ Cardinality(Counted(mail')) = Cardinality(counted) + 1
      BY <2>5, <2>6, <2>7, FS_AddElement
    <2>9. Cardinality(Counted(mail)) = x.sent + 1 /\ campaign.status # "sent" /\ x.sent \in Nat
      BY <1>1, <1>9 DEF Done, Task
    <2>10. Cardinality(Counted(mail')) = y.sent
      BY <1>2, <2>7, <2>8, <2>9
    <2>11. \A m \in mail' : m.expansion = 1 /\ (m \in rest \/ m = G(k))
      BY <1>10, <1>9, <2>1, <2>2, <2>4 DEF Done
    <2>12. \A m, n \in mail' : m.address = n.address => m = n
      BY <1>10, <1>9, <2>1, <2>2, <2>11 DEF Done
    <2>13. \A m \in mail' : m.address \notin y.todo
      BY <1>1, <1>2, <1>10, <1>9, <2>1, <2>11 DEF Done
    <2> QED BY <1>2, <2>8, <2>9, <2>10, <2>11, <2>12, <2>13 DEF Done
  <1> QED BY <1>3, <1>4, <1>5, <1>6, <1>9, <1>11, ExpansionStep DEF x

-----------------------------------------------------------------------------
(***************************************************************************)
(* Requests, schedulers and restarts                                       *)
(***************************************************************************)

(* The only expansion starts with nothing stored. *)
LEMMA FirstExpansion ==
    ASSUME TypeOK, NEW host \in Hosts, NEW awaited \in BOOLEAN,
           expansions' = Append(expansions, Expansion(host, awaited)), expansions = <<>>,
           mail' = {}, ~Planned(campaign'.status), campaign'.status # "sent", NoneStarting'
    PROVE  Single'
  <1> DEFINE x == Expansion(host, awaited)
  <1>1. Sound(x) /\ x.pc = "list" /\ x.sent = 0 /\ x.todo = {}
    BY NewTask
  <1> HIDE DEF x
  <1>2. Len(expansions) = 0
    OBVIOUS
  <1>3. Len(expansions') = 1 /\ expansions'[1] = x
    BY <1>1, <1>2, Spawned DEF x
  <1>4. Counted({}) = {} /\ IsFiniteSet({}) /\ Cardinality({}) = 0
    BY FS_EmptySet DEF Counted
  <1>5. Done(x, {}, campaign')
    BY <1>1, <1>4 DEF Done
  <1> QED BY <1>3, <1>5 DEF Single

(* Nothing here depends on the other requests or the subscribers. *)
LEMMA Elsewhere ==
    ASSUME IInv, TypeOK', UNCHANGED <<campaign, mail, claimed, expansions, raced>>,
           \A r \in Requesters : request'[r].kind = "spawn" => request[r].kind = "spawn"
    PROVE  IInv'
  <1>1. campaign' = campaign /\ mail' = mail /\ claimed' = claimed /\ expansions' = expansions
        /\ raced' = raced
    OBVIOUS
  <1>2. (NoneStarting => NoneStarting') /\ (OneStarting => OneStarting')
    BY <1>1 DEF NoneStarting, OneStarting
  <1>3. Single => Single'
    BY <1>1, <1>2 DEF Single
  <1> QED BY <1>1, <1>3 DEF IInv

(* A planned campaign has no expansion, and none is about to start. *)
LEMMA PlannedIsNew ==
    ASSUME Single, Planned(campaign.status)
    PROVE  expansions = <<>> /\ mail = {} /\ NoneStarting
  BY DEF Single

(* Who is about to start an expansion is alone, and the first. *)
LEMMA StarterIsFirst ==
    ASSUME Single, ~NoneStarting
    PROVE  /\ expansions = <<>>
           /\ mail = {}
           /\ OneStarting
           /\ ~Planned(campaign.status)
           /\ campaign.status # "sent"
  BY DEF Single

(* A write that has not raced finds the campaign planned. *)
LEMMA RequestStep ==
    ASSUME CampaignAssumption, IInv, NEW r \in Requesters,
           \/ \E kind \in Kinds : Read(r, kind)
           \/ Write(r)
           \/ CountAudience(r)
           \/ WriteSend(r)
           \/ Abandon(r)
           \/ \E host \in Hosts : Spawn(r, host)
    PROVE  IInv'
  <1>1. TypeOK /\ TypeOK'
    BY TypeRequests DEF IInv
  <1>2. CASE \E kind \in Kinds : Read(r, kind)
    <2>1. \A q \in Requesters : request'[q].kind = "spawn" => request[q].kind = "spawn"
      BY <1>1, <1>2 DEF Read, TypeOK, Request, CampaignAssumption
    <2> QED BY <1>1, <1>2, <2>1, Elsewhere DEF Read
  <1>3. CASE CountAudience(r)
    <2>1. \A q \in Requesters : request'[q].kind = "spawn" => request[q].kind = "spawn"
      BY <1>1, <1>3 DEF CountAudience, TypeOK
    <2> QED BY <1>1, <1>3, <2>1, Elsewhere DEF CountAudience
  <1>4. CASE Abandon(r)
    <2>1. \A q \in Requesters : request'[q].kind = "spawn" => request[q].kind = "spawn"
      BY <1>1, <1>4, AboutToSpawn DEF Abandon, TypeOK
    <2> QED BY <1>1, <1>4, <2>1, Elsewhere DEF Abandon
  <1>5. CASE Write(r)
    <2>1. \A q \in Requesters : request'[q].kind = "spawn" => request[q].kind = "spawn"
      BY <1>1, <1>5, AboutToSpawn DEF Write, TypeOK
    <2>2. CASE request[r].kind = "edit"
      <3>1. campaign' = campaign /\ raced' = raced
        BY <1>1, <1>5, <2>2 DEF Write, Updated, TypeOK
      <3> QED BY <1>1, <1>5, <2>1, <3>1, Elsewhere DEF Write
    <2>3. CASE request[r].kind # "edit"
      <3>1. SUFFICES ASSUME ~raced' PROVE Single'
        BY <1>1 DEF IInv
      <3>2. ~raced /\ Planned(campaign.status)
        BY <1>5, <2>3, <3>1 DEF Write
      <3>3. expansions = <<>> /\ mail = {} /\ NoneStarting
        BY <3>2, PlannedIsNew DEF IInv
      <3>4. expansions' = <<>> /\ mail' = {} /\ NoneStarting'
        BY <1>5, <2>1, <3>3 DEF Write, NoneStarting
      <3>5. campaign'.status # "sent"
        BY <1>1, <1>5, <2>3 DEF Write, Updated, TypeOK, CampaignRow
      <3> QED BY <3>4, <3>5 DEF Single, NoneStarting, OneStarting
    <2> QED BY <2>2, <2>3
  <1>6. CASE WriteSend(r)
    <2>1. SUFFICES ASSUME ~raced' PROVE Single'
      BY <1>1 DEF IInv
    <2>2. ~raced /\ Planned(campaign.status)
      BY <1>6, <2>1 DEF WriteSend
    <2>3. expansions = <<>> /\ mail = {} /\ NoneStarting
      BY <2>2, PlannedIsNew DEF IInv
    <2>4. campaign'.status = "sending"
      BY <1>1, <1>6 DEF WriteSend, Updated, TypeOK, CampaignRow
    <2>5. claimed' = {} /\ \A q \in Requesters : request'[q].kind = "spawn" => q = r
      BY <1>1, <1>6, <2>3 DEF WriteSend, NoneStarting, TypeOK
    <2>6. OneStarting'
      BY <2>5 DEF OneStarting
    <2>7. expansions' = <<>> /\ mail' = {}
      BY <1>6, <2>3 DEF WriteSend
    <2> QED BY <2>4, <2>6, <2>7 DEF Single, Planned
  <1>7. CASE \E host \in Hosts : Spawn(r, host)
    <2>1. SUFFICES ASSUME ~raced' PROVE Single'
      BY <1>1 DEF IInv
    <2>2. PICK host \in Hosts : Spawn(r, host)
      BY <1>7
    <2>3. ~raced /\ ~NoneStarting
      BY <2>1, <2>2 DEF Spawn, NoneStarting
    <2>4. expansions = <<>> /\ mail = {} /\ OneStarting /\ ~Planned(campaign.status)
          /\ campaign.status # "sent"
      BY <2>3, StarterIsFirst DEF IInv
    <2>5. NoneStarting'
      <3>1. claimed = {} /\ \A q \in Requesters : request[q].kind = "spawn" => q = r
        BY <2>2, <2>4 DEF OneStarting, Spawn
      <3>2. \A q \in Requesters : request'[q].kind = "spawn" => q # r /\ request[q].kind = "spawn"
        BY <1>1, <2>2, AboutToSpawn DEF Spawn, TypeOK
      <3> QED BY <2>2, <3>1, <3>2 DEF Spawn, NoneStarting
    <2> QED BY <1>1, <2>2, <2>4, <2>5, FirstExpansion DEF Spawn
  <1> QED BY <1>2, <1>3, <1>4, <1>5, <1>6, <1>7

LEMMA SchedulerStep ==
    ASSUME CampaignAssumption, IInv, NEW host \in Hosts,
           Claim(host) \/ Start(host) \/ ClaimLost(host) \/ Crash(host)
    PROVE  IInv'
  <1>1. TypeOK /\ TypeOK'
    BY TypeScheduler DEF IInv
  <1>2. CASE Claim(host)
    <2>1. SUFFICES ASSUME ~raced PROVE Single'
      BY <1>1, <1>2 DEF IInv, Claim
    <2>2. Planned(campaign.status)
      BY <1>2 DEF Claim, Claimable, Planned
    <2>3. expansions = <<>> /\ mail = {} /\ NoneStarting
      BY <2>1, <2>2, PlannedIsNew DEF IInv
    <2>4. campaign'.status = "sending"
      BY <1>1, <1>2 DEF Claim, TypeOK, CampaignRow
    <2>5. claimed' = {host} /\ \A q \in Requesters : request'[q].kind # "spawn"
      BY <1>2, <2>3 DEF Claim, NoneStarting
    <2>6. expansions' = <<>> /\ mail' = {}
      BY <1>2, <2>3 DEF Claim
    <2> QED BY <2>4, <2>5, <2>6 DEF Single, OneStarting, Planned
  <1>3. CASE Start(host)
    <2>1. SUFFICES ASSUME ~raced PROVE Single'
      BY <1>1, <1>3 DEF IInv, Start
    <2>2. ~NoneStarting
      BY <1>3 DEF Start, NoneStarting
    <2>3. expansions = <<>> /\ mail = {} /\ OneStarting /\ ~Planned(campaign.status)
          /\ campaign.status # "sent"
      BY <2>1, <2>2, StarterIsFirst DEF IInv
    <2>4. NoneStarting'
      BY <1>3, <2>3 DEF Start, OneStarting, NoneStarting
    <2> QED BY <1>1, <1>3, <2>3, <2>4, FirstExpansion DEF Start
  <1>4. CASE ClaimLost(host)
    <2>1. SUFFICES ASSUME ~raced PROVE Single'
      BY <1>1, <1>4 DEF IInv, ClaimLost
    <2>2. ~NoneStarting
      BY <1>4 DEF ClaimLost, NoneStarting
    <2>3. expansions = <<>> /\ mail = {} /\ OneStarting /\ ~Planned(campaign.status)
          /\ campaign.status # "sent"
      BY <2>1, <2>2, StarterIsFirst DEF IInv
    <2> QED BY <1>4, <2>3 DEF ClaimLost, OneStarting, Single
  <1>5. CASE Crash(host)
    <2>1. SUFFICES ASSUME ~raced PROVE Single'
      BY <1>1, <1>5 DEF IInv, Crash
    <2>2. campaign' = campaign /\ mail' = mail /\ (NoneStarting => NoneStarting')
          /\ (OneStarting => OneStarting')
      BY <1>5 DEF Crash, NoneStarting, OneStarting
    <2>3. CASE expansions = <<>>
      <3>1. expansions' = <<>>
        BY <1>5, <2>3 DEF Crash
      <3>2. OneStarting /\ (Planned(campaign.status) => NoneStarting)
            /\ campaign.status # "sent" /\ mail = {}
        BY <2>1, <2>3 DEF IInv, Single
      <3> QED BY <2>2, <3>1, <3>2 DEF Single
    <2>4. CASE /\ Len(expansions) = 1
               /\ NoneStarting
               /\ ~Planned(campaign.status)
               /\ Done(expansions[1], mail, campaign)
      <3> DEFINE x == expansions[1]
                 y == IF x.host = host THEN [x EXCEPT !.pc = "done"] ELSE x
      <3>1. Len(expansions') = 1 /\ expansions'[1] = y
        BY <1>5, <2>4 DEF Crash
      <3>2. x \in Task
        BY <1>1, <2>4, TaskOf
      <3>3. y = x \/ y.pc = "done"
        BY <3>2 DEF Task
      <3> HIDE DEF x, y
      <3>4. Done(x, mail, campaign)
        BY <2>4 DEF x
      <3>5. Done(y, mail, campaign)
        BY <3>3, <3>4 DEF Done
      <3> QED BY <2>2, <2>4, <3>1, <3>5 DEF Single
    <2> QED BY <2>1, <2>3, <2>4 DEF IInv, Single
  <1> QED BY <1>2, <1>3, <1>4, <1>5

LEMMA EnvironmentStep ==
    ASSUME CampaignAssumption, IInv, ComesDue \/ \E a \in Addresses : ChangeSubscription(a)
    PROVE  IInv'
  <1>1. TypeOK /\ TypeOK'
    BY TypeEnvironment DEF IInv
  <1>2. CASE ComesDue
    <2>1. /\ mail' = mail /\ expansions' = expansions /\ raced' = raced
          /\ campaign'.status = campaign.status
          /\ campaign'.sent = campaign.sent
      BY <1>1, <1>2 DEF ComesDue, TypeOK, CampaignRow
    <2>2. (NoneStarting => NoneStarting') /\ (OneStarting => OneStarting')
      BY <1>2 DEF ComesDue, NoneStarting, OneStarting
    <2>3. Single => Single'
      BY <2>1, <2>2 DEF Single, Done
    <2> QED BY <1>1, <2>1, <2>3 DEF IInv
  <1>3. CASE \E a \in Addresses : ChangeSubscription(a)
    BY <1>1, <1>3, Elsewhere DEF ChangeSubscription
  <1> QED BY <1>2, <1>3

-----------------------------------------------------------------------------
LEMMA InvInit == CampaignAssumption /\ Init => IInv
  <1> SUFFICES ASSUME CampaignAssumption, Init PROVE IInv
    OBVIOUS
  <1>1. TypeOK
    BY TypeInit
  <1>2. PICK status \in FirstStatuses, r \in Requesters :
          /\ campaign = [status |-> status, armed |-> status = "scheduled",
                         due |-> FALSE, total |-> Cardinality(Addresses),
                         sent |-> 0, completed |-> FALSE]
          /\ request = [q \in Requesters |-> IF status = "sending" /\ q = r
                                             THEN [Idle EXCEPT !.kind = "spawn"] ELSE Idle]
    BY DEF Init
  <1>3. campaign.status = status /\ mail = {} /\ claimed = {} /\ expansions = <<>>
    BY <1>2 DEF Init
  <1>4. \A q \in Requesters : request[q].kind = "spawn" => status = "sending" /\ q = r
    BY <1>2, AboutToSpawn
  <1>5. OneStarting /\ (Planned(campaign.status) => NoneStarting)
    BY <1>3, <1>4 DEF OneStarting, NoneStarting, Planned
  <1>6. campaign.status # "sent"
    BY <1>3 DEF CampaignAssumption
  <1> QED BY <1>1, <1>3, <1>5, <1>6 DEF IInv, Single

LEMMA InvStep == CampaignAssumption /\ IInv /\ [Next]_vars => IInv'
  <1> SUFFICES ASSUME CampaignAssumption, IInv, [Next]_vars PROVE IInv'
    OBVIOUS
  <1>1. ASSUME NEW r \in Requesters,
               \/ \E kind \in Kinds : Read(r, kind)
               \/ Write(r)
               \/ CountAudience(r)
               \/ WriteSend(r)
               \/ Abandon(r)
               \/ \E host \in Hosts : Spawn(r, host)
        PROVE  IInv'
    BY <1>1, RequestStep
  <1>2. ASSUME NEW host \in Hosts,
               Claim(host) \/ Start(host) \/ ClaimLost(host) \/ Crash(host)
        PROVE  IInv'
    BY <1>2, SchedulerStep
  <1>3. ASSUME NEW i \in 1..Len(expansions), Expand(i) PROVE IInv'
    BY <1>3, ListSubscribersStep, PrepareStep, StoreStep, TagStep, WritingSteps DEF Expand
  <1>4. ASSUME NEW i \in 1..Len(expansions), Failing(i) PROVE IInv'
    BY <1>4, SkipStep, TagStep, WritingSteps DEF Failing
  <1>5. CASE ComesDue \/ \E a \in Addresses : ChangeSubscription(a)
    BY <1>5, EnvironmentStep
  <1>6. CASE UNCHANGED vars
    <2>1. TypeOK'
      BY <1>6 DEF IInv, TypeOK, vars
    <2> QED BY <1>6, <2>1, Elsewhere DEF vars
  <1> QED BY <1>1, <1>2, <1>3, <1>4, <1>5, <1>6 DEF Next

(* The campaign's row, the stored mail, the requests being served and the  *)
(* expansions keep their types, and an expansion that stores or tags works *)
(* on a recipient it has yet to do.                                        *)
THEOREM CampaignsTyped == Spec => []TypeOK
  <1>1. Init => IInv
    BY InvInit, CampaignAssumption
  <1>2. IInv /\ [Next]_vars => IInv'
    BY InvStep, CampaignAssumption
  <1>3. IInv => TypeOK
    BY DEF IInv
  <1> QED BY <1>1, <1>2, <1>3, PTL DEF Spec

(* Unless a request writes over a status it has not read, no subscriber    *)
(* gets the campaign twice, and a campaign marked sent counts exactly the  *)
(* messages whose store was answered: for any number of subscribers,       *)
(* schedulers and requests, any restarts, dropped requests and failing     *)
(* statements, those that took effect although they failed included.       *)
THEOREM CampaignSentOnce == Spec => []SentOnceUnlessRaced
  <1>1. Init => IInv
    BY InvInit, CampaignAssumption
  <1>2. IInv /\ [Next]_vars => IInv'
    BY InvStep, CampaignAssumption
  <1>3. IInv => SentOnceUnlessRaced
    <2> SUFFICES ASSUME IInv, ~raced
                 PROVE  SentOnce /\ (campaign.status = "sent" => campaign.sent =
                                                                  Cardinality({m \in mail : m.answered}))
      BY DEF SentOnceUnlessRaced
    <2> QED BY DEF IInv, Single, Done, SentOnce, Counted
  <1> QED BY <1>1, <1>2, <1>3, PTL DEF Spec
=============================================================================
