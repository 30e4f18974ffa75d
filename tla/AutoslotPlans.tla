---------------------------- MODULE AutoslotPlans ----------------------------
(***************************************************************************)
(* The avto-slot queue: table postavka_grab_plan behind                    *)
(* postavki/autoslot/store.py, the seller's requests that write it         *)
(* (grab-plan/create, grab-plan/cancel, invoice set-slot) and the admin's  *)
(* priority.  The programs that book slots from this queue are modules of  *)
(* their own that extend this one.                                         *)
(*                                                                         *)
(* A slot is a number that grows with its start time.  A lease_until       *)
(* timestamp is abstracted to whether it has passed.                       *)
(***************************************************************************)
EXTENDS Naturals, FiniteSets

CONSTANTS
    NumPlans,       \* rows the table may ever hold (bound)
    Invoice,        \* акты a seller may put in the queue
    Volume,         \* [Invoice -> Nat], totalToStock of each
    Stocked,        \* the invoices whose stock id the portal reported
    NumSlots,       \* slots 1..NumSlots
    SlotsPerDay,    \* consecutive slots that share a Tashkent day
    Windows,        \* day ranges [min, max] sellers ask for
    Priorities,     \* values the admin may give
    MovedByHand,    \* invoices a seller also moves in the portal view (bound)
    MaxAttempts     \* MAX_ATTEMPTS of store.py

ASSUME QueueAssumption ==
    /\ Invoice # {} /\ NumPlans \in Nat \ {0} /\ NumSlots \in Nat \ {0}
    /\ SlotsPerDay \in Nat \ {0} /\ MaxAttempts \in Nat \ {0}
    /\ Volume \in [Invoice -> Nat] /\ Stocked \subseteq Invoice
    /\ MovedByHand \subseteq Invoice
    /\ Priorities \subseteq Nat /\ 0 \in Priorities

VARIABLES
    status,     \* plan id -> status column, "absent" before the INSERT
    attempts,   \* plan id -> attempts column
    lease,      \* plan id -> lease_until: NULL, in the future, or passed
    req,        \* plan id -> what the seller asked for
    priority,   \* plan id -> priority column
    portal      \* invoice -> slot Uzum holds for it, 0 for none

planVars == <<status, attempts, lease, req, priority>>

Plan == 1..NumPlans
Slot == 1..NumSlots
Status == {"absent", "waiting", "booking", "booked", "failed", "canceled"}
LeaseState == {"none", "held", "passed"}

day_of(s) == (s - 1) \div SlotsPerDay + 1
Day == {day_of(s) : s \in Slot}

\* min = 0 stands for min_date NULL, current = 0 for current_slot_ms NULL.
Window == [min : Day \cup {0}, max : Day]
Request == [invoice : Invoice, min : Day \cup {0}, max : Day, current : Slot \cup {0}]

PlansTypeOK ==
    /\ status \in [Plan -> Status]
    /\ attempts \in [Plan -> Nat]
    /\ lease \in [Plan -> LeaseState]
    /\ req \in [Plan -> Request]
    /\ priority \in [Plan -> Priorities]
    /\ portal \in [Invoice -> Slot \cup {0}]

PlansInit ==
    /\ status = [p \in Plan |-> "absent"]
    /\ attempts = [p \in Plan |-> 0]
    /\ lease = [p \in Plan |-> "none"]
    /\ req = [p \in Plan |-> CHOOSE r \in Request : TRUE]
    /\ priority = [p \in Plan |-> 0]
    /\ portal = [i \in Invoice |-> 0]

VolumeOf(p) == Volume[req[p].invoice]
HasStock(p) == req[p].invoice \in Stocked

\* Rows of one invoice the UPSERT of enqueue would update.
WaitingRowsOf(i) == {p \in Plan : status[p] = "waiting" /\ req[p].invoice = i}

------------------------------------------------------------------------------
(* Requests of the seller and of the admin.                                *)

\* enqueue, INSERT branch: the next id, attempts 0, priority 0, status waiting.
EnqueueNew(i, w) ==
    /\ WaitingRowsOf(i) = {}
    /\ \E p \in Plan :
          /\ status[p] = "absent"
          /\ \A q \in Plan : q < p => status[q] # "absent"
          /\ status' = [status EXCEPT ![p] = "waiting"]
          /\ req' = [req EXCEPT ![p] = [invoice |-> i, min |-> w.min, max |-> w.max,
                                        current |-> portal[i]]]
    /\ UNCHANGED <<attempts, lease, priority, portal>>

\* enqueue, UPDATE branch: the place in the queue and the attempts survive.
EnqueueAgain(i, w) ==
    /\ \E p \in WaitingRowsOf(i) :
          req' = [req EXCEPT ![p] = [invoice |-> i, min |-> w.min, max |-> w.max,
                                     current |-> portal[i]]]
    /\ UNCHANGED <<status, attempts, lease, priority, portal>>

\* postavki_grab_plan_create: minDate above maxDate is refused.
CreatePlan ==
    \E i \in Invoice, w \in Windows \cap Window :
        /\ w.min <= w.max
        /\ EnqueueNew(i, w) \/ EnqueueAgain(i, w)

\* postavki_grab_plan_cancel: whatever the status of the row is.
CancelPlan(p) ==
    /\ status[p] # "absent"
    /\ status' = [status EXCEPT ![p] = "canceled"]
    /\ UNCHANGED <<attempts, lease, req, priority, portal>>

set_priority(p, v) ==
    /\ status[p] # "absent"
    /\ priority' = [priority EXCEPT ![p] = v]
    /\ UNCHANGED <<status, attempts, lease, req, portal>>

\* The seller moves the invoice by hand.
SetSlotByHand(i, s) ==
    /\ portal' = [portal EXCEPT ![i] = s]
    /\ UNCHANGED planVars

UserStep ==
    \/ CreatePlan
    \/ \E p \in Plan : CancelPlan(p)
    \/ \E p \in Plan, v \in Priorities : set_priority(p, v)
    \/ \E i \in MovedByHand, s \in Slot : SetSlotByHand(i, s)

\* The clock passes lease_until of a row.
LeasePasses(p) ==
    /\ lease[p] = "held"
    /\ lease' = [lease EXCEPT ![p] = "passed"]
    /\ UNCHANGED <<status, attempts, req, priority, portal>>

------------------------------------------------------------------------------
(* Row updates the booking programs are built from.  Each constrains       *)
(* status', attempts' and lease' only.                                     *)

\* ORDER BY priority DESC, enabled_at, id; rows enter the table in id order.
\* r holds the priorities as they were read.
Before(r, p, q) == r[p] > r[q] \/ (r[p] = r[q] /\ p < q)

candidates_for(s) ==
    {p \in Plan :
        /\ status[p] = "waiting"
        /\ req[p].min <= day_of(s) /\ day_of(s) <= req[p].max
        /\ attempts[p] < MaxAttempts
        /\ req[p].current = 0 \/ req[p].current > s}

\* One UPDATE ... WHERE status = 'waiting' RETURNING id.
Claimable(ids) == {p \in ids : status[p] = "waiting"}

\* Mutant of claim: the attempt is not counted.
claim_uncounted(ids) ==
    LET won == Claimable(ids) IN
    /\ status' = [p \in Plan |-> IF p \in won THEN "booking" ELSE status[p]]
    /\ lease' = [p \in Plan |-> IF p \in won THEN "held" ELSE lease[p]]
    /\ UNCHANGED attempts

claim(ids) ==
    LET won == Claimable(ids) IN
    /\ status' = [p \in Plan |-> IF p \in won THEN "booking" ELSE status[p]]
    /\ lease' = [p \in Plan |-> IF p \in won THEN "held" ELSE lease[p]]
    /\ attempts' = [p \in Plan |-> IF p \in won THEN attempts[p] + 1 ELSE attempts[p]]

\* Mutant of ExpiredClaims: rows that used all their attempts are left out.
RetryableExpiredClaims ==
    {p \in Plan : status[p] = "booking" /\ lease[p] = "passed" /\ attempts[p] < MaxAttempts}

ExpiredClaims == {p \in Plan : status[p] = "booking" /\ lease[p] = "passed"}

\* Mutant of AfterFailure: a status nobody reads.
AfterFailureError(p) == IF attempts[p] < MaxAttempts THEN "waiting" ELSE "error"

\* Status a row gets back when an attempt ended without a slot.
AfterFailure(p) == IF attempts[p] < MaxAttempts THEN "waiting" ELSE "failed"

\* Second half of release_expired: writes the rows its SELECT returned.
release_rows(rows) ==
    /\ status' = [p \in Plan |-> IF p \in rows THEN AfterFailure(p) ELSE status[p]]
    /\ lease' = [p \in Plan |-> IF p \in rows THEN "none" ELSE lease[p]]
    /\ UNCHANGED attempts

mark_booked(p) ==
    /\ status' = [status EXCEPT ![p] = "booked"]
    /\ lease' = [lease EXCEPT ![p] = "none"]
    /\ UNCHANGED attempts

\* Mutant of mark_failed: the outcome is written into the status column.
mark_failed_outcome(p, requeue) ==
    /\ status' = [status EXCEPT ![p] = IF requeue THEN AfterFailure(p) ELSE "set_failed"]
    /\ lease' = [lease EXCEPT ![p] = "none"]
    /\ UNCHANGED attempts

mark_failed(p, requeue) ==
    /\ status' = [status EXCEPT ![p] = IF requeue THEN AfterFailure(p) ELSE "failed"]
    /\ lease' = [lease EXCEPT ![p] = "none"]
    /\ UNCHANGED attempts

==============================================================================
