----------------------------- MODULE Campaigns ------------------------------
(***************************************************************************)
(* One broadcast campaign: the API requests that plan, send and cancel it, *)
(* the schedulers of the web-server processes that claim it when it is     *)
(* due, and the expansions that store one message per subscriber.          *)
(*                                                                         *)
(* An API request reads the campaign, tests its status and writes it in a  *)
(* second statement that does not test it again.  Whoever has written      *)
(* "sending" starts the expansion afterwards, unless the answer of that    *)
(* statement, the request or the process is lost first.  An expansion is a *)
(* task of one process and writes the campaign's status as it goes.  A     *)
(* statement that fails may have taken effect: its answer can be lost.     *)
(***************************************************************************)
EXTENDS Integers, Sequences, FiniteSets

CONSTANTS
    Addresses,      \* subscribers of the stream, by the ids of their rows
    Hosts,          \* web-server processes, each with a scheduler
    Requesters,     \* concurrent API requests
    Kinds,          \* what they ask: "edit", "schedule", "clear", "send", "cancel"
    FirstStatuses,  \* how the campaign is created
    Faults,         \* statements that may fail: "claim", "list", "store", "tag", "progress", "final"
    BatchSize,      \* recipients between two progress writes
    MaxRequests, MaxExpansions, MaxChanges,
    MaxTroubles     \* bounds; a restart, a dropped request, a failed statement is a trouble

ASSUME CampaignAssumption ==
    /\ Addresses \subseteq Nat \ {0}
    /\ BatchSize \in Nat \ {0}
    /\ Kinds \subseteq {"edit", "schedule", "clear", "send", "cancel"}
    /\ Faults \subseteq {"claim", "list", "store", "tag", "progress", "final"}
    /\ FirstStatuses \subseteq {"draft", "scheduled", "sending"}

VARIABLES
    campaign,    \* the row: [status, armed, due, total, sent, completed]
    subscribed,  \* the addresses that are opted in
    mail,        \* messages stored for it: set of [expansion, address, answered, tagged]
    request,     \* [Requesters -> [kind, total]]: the requests being served
    claimed,     \* processes whose scheduler has claimed it and not started yet
    expansions,  \* sequence of the expansions started
    used,        \* [requests, changes, troubles, starts]: bounds
    raced,       \* history: a request wrote over a status it had not read
    lost         \* history: an expansion was never started, or ended without its last write

vars == <<campaign, subscribed, mail, request, claimed, expansions, used, raced, lost>>

Statuses == {"draft", "scheduled", "sending", "sent", "failed", "canceled"}
Terminal == {"sent", "failed", "canceled"}

(* campaign_is_planned *)
Planned(status) == status \in {"draft", "scheduled"}

Idle == [kind |-> "idle", total |-> 0]

(* A new expansion: awaited by the scheduler, or spawned by a request. *)
Expansion(host, awaited) ==
    [pc |-> "list", host |-> host, awaited |-> awaited, todo |-> {}, at |-> 0,
     sent |-> 0, inBatch |-> 0]

(* A statement of this kind fails, or does not. *)
Outcome(kind, fails) ==
    /\ fails => kind \in Faults /\ used.troubles < MaxTroubles
    /\ used' = IF fails THEN [used EXCEPT !.troubles = @ + 1] ELSE used

(* Whether it took effect: one that fails may have, its answer was lost. *)
Effects(fails) == IF fails THEN BOOLEAN ELSE {TRUE}

-----------------------------------------------------------------------------
(* server_campaigns_create (and campaigns_create, which sends at once: its *)
(* request has stored the row and is about to spawn the expansion)         *)
Init ==
    /\ subscribed = Addresses
    /\ mail = {}
    /\ claimed = {}
    /\ expansions = <<>>
    /\ raced = FALSE
    /\ lost = FALSE
    /\ \E status \in FirstStatuses, r \in Requesters :
          /\ campaign = [status |-> status, armed |-> status = "scheduled",
                         due |-> FALSE, total |-> Cardinality(Addresses),
                         sent |-> 0, completed |-> FALSE]
          /\ request = [q \in Requesters |-> IF status = "sending" /\ q = r
                                             THEN [Idle EXCEPT !.kind = "spawn"] ELSE Idle]
          /\ used = [requests |-> 0, changes |-> 0, troubles |-> 0,
                     starts |-> IF status = "sending" THEN 1 ELSE 0]

(* The first half of a request: get_campaign and the status test (422). *)
Read(r, kind) ==
    /\ request[r].kind = "idle"
    /\ used.requests < MaxRequests
    /\ used' = [used EXCEPT !.requests = @ + 1]
    /\ request' = [request EXCEPT ![r].kind =
                     IF Planned(campaign.status) THEN kind ELSE "idle"]
    /\ UNCHANGED <<campaign, subscribed, mail, claimed, expansions, raced, lost>>

(* The second half: update_campaign sets the columns the request names. *)
Updated(kind, total) ==
    CASE kind = "edit"     -> campaign
      [] kind = "schedule" -> [campaign EXCEPT !.status = "scheduled",
                                               !.armed = TRUE, !.due = FALSE]
      [] kind = "clear"    -> [campaign EXCEPT !.status = "draft",
                                               !.armed = FALSE, !.due = FALSE]
      [] kind = "cancel"   -> [campaign EXCEPT !.status = "canceled"]
      [] kind = "counted"  -> [campaign EXCEPT !.status = "sending", !.total = total]

Write(r) ==
    /\ request[r].kind \in {"edit", "schedule", "clear", "cancel"}
    /\ campaign' = Updated(request[r].kind, 0)
    /\ request' = [request EXCEPT ![r] = Idle]
    /\ raced' = (raced \/ (request[r].kind # "edit" /\ ~Planned(campaign.status)))
    /\ UNCHANGED <<subscribed, mail, claimed, expansions, used, lost>>

(* Send now counts the subscribers, ... *)
CountAudience(r) ==
    /\ request[r].kind = "send"
    /\ request' = [request EXCEPT ![r] = [kind |-> "counted",
                                          total |-> Cardinality(subscribed)]]
    /\ UNCHANGED <<campaign, subscribed, mail, claimed, expansions, used, raced, lost>>

(* ... marks the campaign, ... *)
WriteSend(r) ==
    /\ request[r].kind = "counted"
    /\ used.starts < MaxExpansions
    /\ used' = [used EXCEPT !.starts = @ + 1]
    /\ campaign' = Updated("counted", request[r].total)
    /\ request' = [request EXCEPT ![r] = [Idle EXCEPT !.kind = "spawn"]]
    /\ raced' = (raced \/ ~Planned(campaign.status))
    /\ UNCHANGED <<subscribed, mail, claimed, expansions, lost>>

(* ... and spawns its expansion. *)
Spawn(r, host) ==
    /\ request[r].kind = "spawn"
    /\ request' = [request EXCEPT ![r] = Idle]
    /\ expansions' = Append(expansions, Expansion(host, FALSE))
    /\ UNCHANGED <<campaign, subscribed, mail, claimed, used, raced, lost>>

(* A request ends early: a statement fails or loses its answer, the client *)
(* hangs up, the process is restarted.                                     *)
Abandon(r) ==
    /\ request[r].kind # "idle"
    /\ used.troubles < MaxTroubles
    /\ used' = [used EXCEPT !.troubles = @ + 1]
    /\ request' = [request EXCEPT ![r] = Idle]
    /\ lost' = (lost \/ request[r].kind = "spawn")
    /\ UNCHANGED <<campaign, subscribed, mail, claimed, expansions, raced>>

(***************************************************************************)
(* The scheduler                                                           *)
(***************************************************************************)
Waiting(host) == \E i \in 1..Len(expansions) :
                    /\ expansions[i].host = host
                    /\ expansions[i].awaited
                    /\ expansions[i].pc # "done"

(* Mutant: campaigns that are being sent are claimed again. *)
ClaimableAgain == campaign.status \in {"scheduled", "sending"} /\ campaign.armed
                  /\ campaign.due

Claimable == campaign.status = "scheduled" /\ campaign.armed /\ campaign.due

(* claim_due_campaigns: one statement, ... *)
Claim(host) ==
    /\ host \notin claimed
    /\ ~Waiting(host)
    /\ Claimable
    /\ used.starts < MaxExpansions
    /\ used' = [used EXCEPT !.starts = @ + 1]
    /\ campaign' = [campaign EXCEPT !.status = "sending"]
    /\ claimed' = claimed \union {host}
    /\ UNCHANGED <<subscribed, mail, request, expansions, raced, lost>>

(* ... then the expansion is awaited, ... *)
Start(host) ==
    /\ host \in claimed
    /\ claimed' = claimed \ {host}
    /\ expansions' = Append(expansions, Expansion(host, TRUE))
    /\ UNCHANGED <<campaign, subscribed, mail, request, used, raced, lost>>

(* ... unless the answer of the claim is lost: logged, the server skipped. *)
ClaimLost(host) ==
    /\ host \in claimed
    /\ Outcome("claim", TRUE)
    /\ claimed' = claimed \ {host}
    /\ lost' = TRUE
    /\ UNCHANGED <<campaign, subscribed, mail, request, expansions, raced>>

ComesDue ==
    /\ campaign.armed /\ ~campaign.due
    /\ campaign' = [campaign EXCEPT !.due = TRUE]
    /\ UNCHANGED <<subscribed, mail, request, claimed, expansions, used, raced, lost>>

(***************************************************************************)
(* expand_campaign                                                         *)
(***************************************************************************)
Go(i, pc) == expansions' = [expansions EXCEPT ![i].pc = pc]

(* set_campaign_progress *)
Progress(sent, status, completed) ==
    campaign' = [campaign EXCEPT !.sent = sent, !.status = status,
                                 !.completed = completed]

(* The subscribers are listed once. *)
ListSubscribers(i) ==
    /\ expansions[i].pc = "list"
    /\ expansions' = [expansions EXCEPT ![i].todo = subscribed, ![i].pc = "next"]
    /\ UNCHANGED <<campaign, subscribed, mail, request, claimed, used, raced, lost>>

(* The listing fails, or the scheduler finds the stream gone. *)
CannotList(i) ==
    /\ expansions[i].pc = "list"
    /\ Outcome("list", TRUE)
    /\ Go(i, "fail")
    /\ UNCHANGED <<campaign, subscribed, mail, request, claimed, raced, lost>>

MarkFailed(i, fails) ==
    /\ expansions[i].pc = "fail"
    /\ Outcome("final", fails)
    /\ \E effect \in Effects(fails) :
          /\ IF effect THEN Progress(0, "failed", TRUE) ELSE UNCHANGED campaign
          /\ lost' = (lost \/ ~effect)
    /\ Go(i, "done")
    /\ UNCHANGED <<subscribed, mail, request, claimed, raced>>

(* What is left to do after a recipient. *)
AfterRecipient(x, a) ==
    LET full == x.inBatch + 1 = BatchSize \/ x.todo = {a}
    IN  [x EXCEPT !.todo = @ \ {a}, !.at = 0,
                  !.inBatch = IF full THEN 0 ELSE @ + 1,
                  !.pc = IF full THEN "progress" ELSE "next"]

(* prepare_send of the next recipient (the list is ordered by id): the     *)
(* opt-in gate refuses an address that has unsubscribed since; another     *)
(* error skips it as well.                                                 *)
Prepare(i, a) ==
    /\ expansions[i].pc = "next"
    /\ a \in expansions[i].todo
    /\ \A b \in expansions[i].todo : a <= b
    /\ expansions' = [expansions EXCEPT ![i] =
          IF a \in subscribed THEN [@ EXCEPT !.at = a, !.pc = "store"]
                              ELSE AfterRecipient(@, a)]
    /\ UNCHANGED <<campaign, subscribed, mail, request, claimed, used, raced, lost>>

(* The message of the current recipient. *)
Message(i, answered) == [expansion |-> i, address |-> expansions[i].at,
                         answered |-> answered, tagged |-> FALSE]

(* The send fails: logged, the recipient is skipped.  The message is       *)
(* stored all the same when only the answer of the commit was lost.        *)
Skip(i) ==
    /\ expansions[i].pc = "store"
    /\ Outcome("store", TRUE)
    /\ \E effect \in Effects(TRUE) :
          mail' = IF effect THEN mail \union {Message(i, FALSE)} ELSE mail
    /\ expansions' = [expansions EXCEPT ![i] = AfterRecipient(@, @.at)]
    /\ UNCHANGED <<campaign, subscribed, request, claimed, raced, lost>>

(* The message is stored, then tagged with the campaign. *)
Store(i) ==
    /\ expansions[i].pc = "store"
    /\ mail' = mail \union {Message(i, TRUE)}
    /\ Go(i, "tag")
    /\ UNCHANGED <<campaign, subscribed, request, claimed, used, raced, lost>>

(* set_message_campaign; a failure is logged. *)
Tag(i, fails) ==
    /\ expansions[i].pc = "tag"
    /\ Outcome("tag", fails)
    /\ \E effect \in Effects(fails) :
          mail' = {IF m.expansion = i /\ m.address = expansions[i].at
                   THEN [m EXCEPT !.tagged = effect] ELSE m : m \in mail}
    /\ expansions' = [expansions EXCEPT ![i] =
          [AfterRecipient(expansions[i], expansions[i].at) EXCEPT !.sent = @ + 1]]
    /\ UNCHANGED <<campaign, subscribed, request, claimed, raced, lost>>

(* Progress after each batch; a failure is ignored. *)
WriteProgress(i, fails) ==
    /\ expansions[i].pc = "progress"
    /\ Outcome("progress", fails)
    /\ \E effect \in Effects(fails) :
          IF effect THEN Progress(expansions[i].sent, "sending", FALSE)
                    ELSE UNCHANGED campaign
    /\ Go(i, "next")
    /\ UNCHANGED <<subscribed, mail, request, claimed, raced, lost>>

(* Mutant: the campaign is finished only when every subscriber was sent to. *)
FinishAll(i, fails) ==
    /\ expansions[i].pc = "next"
    /\ expansions[i].todo = {}
    /\ expansions[i].sent = campaign.total
    /\ Outcome("final", fails)
    /\ Progress(expansions[i].sent, "sent", TRUE)
    /\ Go(i, "done")
    /\ UNCHANGED <<subscribed, mail, request, claimed, raced, lost>>

(* The last write; a failure is logged. *)
Finish(i, fails) ==
    /\ expansions[i].pc = "next"
    /\ expansions[i].todo = {}
    /\ Outcome("final", fails)
    /\ \E effect \in Effects(fails) :
          /\ IF effect THEN Progress(expansions[i].sent, "sent", TRUE)
                       ELSE UNCHANGED campaign
          /\ lost' = (lost \/ ~effect)
    /\ Go(i, "done")
    /\ UNCHANGED <<subscribed, mail, request, claimed, raced>>

Expand(i) == \/ ListSubscribers(i)
             \/ \E a \in Addresses : Prepare(i, a)
             \/ Store(i)
             \/ Tag(i, FALSE)
             \/ WriteProgress(i, FALSE)
             \/ MarkFailed(i, FALSE)
             \/ Finish(i, FALSE)

(* A statement of expand_campaign fails. *)
Failing(i) == \/ CannotList(i)
              \/ Skip(i)
              \/ Tag(i, TRUE)
              \/ WriteProgress(i, TRUE)
              \/ MarkFailed(i, TRUE)
              \/ Finish(i, TRUE)

(***************************************************************************)
(* The environment                                                         *)
(***************************************************************************)
(* Subscribers come and go. *)
ChangeSubscription(a) ==
    /\ used.changes < MaxChanges
    /\ used' = [used EXCEPT !.changes = @ + 1]
    /\ subscribed' = IF a \in subscribed THEN subscribed \ {a}
                                         ELSE subscribed \union {a}
    /\ UNCHANGED <<campaign, mail, request, claimed, expansions, raced, lost>>

(* A web-server process is restarted: its tasks are gone. *)
Crash(host) ==
    /\ used.troubles < MaxTroubles
    /\ used' = [used EXCEPT !.troubles = @ + 1]
    /\ expansions' = [i \in 1..Len(expansions) |->
          IF expansions[i].host = host THEN [expansions[i] EXCEPT !.pc = "done"]
                                       ELSE expansions[i]]
    /\ claimed' = claimed \ {host}
    /\ lost' = (lost \/ host \in claimed \/ expansions' # expansions)
    /\ UNCHANGED <<campaign, subscribed, mail, request, raced>>

-----------------------------------------------------------------------------
Next == \/ \E r \in Requesters, kind \in Kinds : Read(r, kind)
        \/ \E r \in Requesters : Write(r) \/ CountAudience(r) \/ WriteSend(r) \/ Abandon(r)
        \/ \E r \in Requesters, host \in Hosts : Spawn(r, host)
        \/ \E host \in Hosts : Claim(host) \/ Start(host) \/ ClaimLost(host) \/ Crash(host)
        \/ ComesDue
        \/ \E i \in 1..Len(expansions) : Expand(i) \/ Failing(i)
        \/ \E a \in Addresses : ChangeSubscription(a)

Spec == Init /\ [][Next]_vars

(* Time passes, schedulers wake, handlers and tasks run. *)
Running == \E i \in 1..Len(expansions) : Expand(i)

FairSpec == /\ Spec
            /\ WF_vars(Running)
            /\ WF_vars(ComesDue)
            /\ \A r \in Requesters : WF_vars(\E host \in Hosts : Spawn(r, host))
            /\ \A host \in Hosts : WF_vars(Claim(host)) /\ WF_vars(Start(host))

-----------------------------------------------------------------------------
(* docs/campaigns.md: due campaigns are claimed in one step so that two    *)
(* passes never double-send.  No subscriber gets the campaign twice.       *)
SentOnce == \A m, n \in mail : m.address = n.address => m.expansion = n.expansion

(* A request that writes over a status it has not read is the only way to  *)
(* send a campaign twice: two schedulers, a restart, a campaign sent at    *)
(* once and then edited, cleared or scheduled again never do.  And without *)
(* one, a campaign marked sent counts exactly the messages whose store was *)
(* answered, whatever recipients failed or unsubscribed on the way: only a *)
(* message that was stored while its answer was lost is left out.          *)
SentOnceUnlessRaced ==
    ~raced => /\ SentOnce
              /\ campaign.status = "sent" =>
                    campaign.sent = Cardinality({m \in mail : m.answered})

(* docs/campaigns.md: from sending a campaign advances to a terminal       *)
(* state.  It does unless the expansion is lost: nothing takes up one that *)
(* was never started after "sending" was committed (the answer of that     *)
(* statement was lost, the request was dropped), whose process was         *)
(* restarted, or whose last write failed.                                  *)
SendingEnds == campaign.status = "sending" ~> campaign.status \in Terminal \/ lost
=============================================================================
