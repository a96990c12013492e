-------------------------- MODULE MessageLifecycle --------------------------
(***************************************************************************)
(* What the message API promises about an outgoing message, with no queue, *)
(* worker or lock in sight: its visible status, and the delivery status    *)
(* the newest webhook event announced to the tenant.                       *)
(*                                                                         *)
(* Delivery.tla shows that the queue and the workers implement this.       *)
(***************************************************************************)
CONSTANT Messages

VARIABLES
    status,     \* [Messages -> Status]: messages.status as the API shows it
    announced   \* [Messages -> Status]: status told by the newest webhook

vars == <<status, announced>>

(***************************************************************************)
(* "Absent": no row in messages yet.  "Pruned": the row was deleted again. *)
(***************************************************************************)
Unsettled == {"Pending", "SoftFail"}
Settled   == {"Sent", "HardFail", "Held", "Bounced"}
Stored    == Unsettled \union Settled
Status    == Stored \union {"Absent", "Pruned"}

(* The statuses the retry endpoint accepts. *)
Retryable == {"Pending", "SoftFail", "HardFail"}

Init == /\ status    = [m \in Messages |-> "Absent"]
        /\ announced = [m \in Messages |-> "Absent"]

(* A message appears, either to be sent or as an imported record. *)
Create(m, s) ==
    /\ status[m] = "Absent"
    /\ s \in Stored
    /\ status' = [status EXCEPT ![m] = s]
    /\ UNCHANGED announced

(* One delivery attempt ends; only a message still being delivered has one. *)
Attempt(m, s) ==
    /\ status[m] \in Unsettled
    /\ s \in {"Sent", "SoftFail", "HardFail", "Held"}
    /\ status'    = [status EXCEPT ![m] = s]
    /\ announced' = [announced EXCEPT ![m] = s]

(* A bounce overrides whatever is known. *)
Bounce(m) ==
    /\ status[m] \in Stored
    /\ status'    = [status EXCEPT ![m] = "Bounced"]
    /\ announced' = [announced EXCEPT ![m] = "Bounced"]

(* The tenant asks for another attempt. *)
Retry(m) ==
    /\ status[m] \in Retryable
    /\ status' = [status EXCEPT ![m] = "Pending"]
    /\ UNCHANGED announced

(* Retention deletes the record. *)
Prune(m) ==
    /\ status[m] \in Stored
    /\ status' = [status EXCEPT ![m] = "Pruned"]
    /\ UNCHANGED announced

Next == \E m \in Messages :
           \/ \E s \in Stored : Create(m, s) \/ Attempt(m, s)
           \/ Bounce(m)
           \/ Retry(m)
           \/ Prune(m)

Spec == Init /\ [][Next]_vars
=============================================================================
