---------------------------- MODULE AutoslotProofs ----------------------------
(***************************************************************************)
(* The avto-slot consumer and the detector of freed slots that wakes it.   *)
(*                                                                         *)
(* The consumer, for any number of plans, invoices, slots, retry rounds    *)
(* and restarts: claims, attempts and the life of a plan, and that the     *)
(* rounds of one event book no more than was freed.                        *)
(*                                                                         *)
(* The detector, for any slots, ladder, number of polls at once, changes   *)
(* and faults, in its five modes: what it announces has risen.             *)
(***************************************************************************)
EXTENDS AutoslotAllocator, SlotRadar, FiniteSetTheorems, WellFoundedInduction, TLAPS

------------------------------------------------------------------------------
(* THE CONSUMER                                                            *)

\* Nothing is in flight unless the consumer is in its booking phase, and the
\* rows release_expired is about to write are claims nobody works on.
Phases ==
    /\ pc # "booking" => task = NoTasks
    /\ pc # "releasing" => expired = {}
    /\ \A p \in expired : status[p] \in {"booking", "canceled"}

\* A thread that has not called yet has paid its attempt and not used it.
Paid ==
    \A p \in Plan : task[p] = "claimed" => sets[p] < attempts[p]

\* A row that is not inserted yet has paid nothing.
Fresh ==
    \A p \in Plan : status[p] = "absent" => attempts[p] = 0

IInv == TypeOK /\ Phases /\ ClaimHeld /\ NoDeadWaiting /\ SetBudget /\ Paid /\ Fresh

\* The placeholder records of the initial state have the right type.
LEMMA RequestNonEmpty ==
    /\ (CHOOSE r \in Request : TRUE) \in Request
    /\ NoEvent \in [slot : Slot, volume : Volumes]
<1> USE QueueAssumption, AllocatorAssumption
<1>1. PICK i \in Invoice : TRUE
  OBVIOUS
<1>2. 1 \in Slot
  BY DEF Slot
<1>3. day_of(1) \in Day
  BY <1>2 DEF Day
<1>4. [invoice |-> i, min |-> 0, max |-> day_of(1), current |-> 0] \in Request
  BY <1>1, <1>3 DEF Request
<1>5. PICK v \in Volumes : TRUE
  OBVIOUS
<1>6. [slot |-> 1, volume |-> v] \in [slot : Slot, volume : Volumes]
  BY <1>2, <1>5
<1>7. QED
  BY <1>4, <1>6 DEF NoEvent

\* The empty table and the idle consumer satisfy the invariant.
LEMMA InitIInv == Init => IInv
<1> SUFFICES ASSUME Init PROVE IInv
  OBVIOUS
<1> USE QueueAssumption, AllocatorAssumption DEF Init, PlansInit, LocalInit, NoTasks
<1>1. TypeOK
  BY RequestNonEmpty DEF TypeOK, PlansTypeOK, Status, LeaseState, TaskState
<1>2. Phases /\ ClaimHeld /\ NoDeadWaiting /\ SetBudget /\ Paid /\ Fresh
  BY DEF Fresh, Phases, ClaimHeld, InFlight, NoDeadWaiting, SetBudget, Paid
<1>3. QED
  BY <1>1, <1>2 DEF IInv

\* Returning from the handler forgets every local variable, so no thread is
\* left in flight.
LEMMA ReturnPhases ==
    ASSUME Return
    PROVE  /\ Phases' /\ ClaimHeld' /\ Paid'
BY DEF Return, Phases, ClaimHeld, InFlight, Paid, NoTasks

\* What is left of them has its type.
LEMMA ReturnTypes ==
    ASSUME TypeOK, Return, PlansTypeOK', UNCHANGED sets, restarts' \in Nat
    PROVE  TypeOK'
BY RequestNonEmpty, QueueAssumption DEF TypeOK, PlansTypeOK, Return, NoTasks, TaskState

\* No request of a seller or of the admin disturbs the invariant.
LEMMA UserIInv ==
    ASSUME IInv, UserStep, UNCHANGED <<pc, localVars, restarts, sets>>
    PROVE  IInv'
<1> USE QueueAssumption
    DEF IInv, TypeOK, PlansTypeOK, Phases, ClaimHeld, InFlight, NoDeadWaiting,
        SetBudget, Paid, Fresh, localVars, Status
<1>1. CASE CreatePlan
  <2>1. PICK i \in Invoice, w \in Windows \cap Window :
            EnqueueNew(i, w) \/ EnqueueAgain(i, w)
    BY <1>1 DEF CreatePlan
  <2>2. [invoice |-> i, min |-> w.min, max |-> w.max, current |-> portal[i]] \in Request
    BY <2>1 DEF Window, Request
  <2>3. CASE EnqueueNew(i, w)
    BY <2>2, <2>3 DEF EnqueueNew
  <2>4. CASE EnqueueAgain(i, w)
    BY <2>2, <2>4 DEF EnqueueAgain, WaitingRowsOf
  <2>5. QED
    BY <2>1, <2>3, <2>4
<1>2. ASSUME NEW p \in Plan, CancelPlan(p) PROVE IInv'
  BY <1>2 DEF CancelPlan
<1>3. ASSUME NEW p \in Plan, NEW v \in Priorities, set_priority(p, v) PROVE IInv'
  BY <1>3 DEF set_priority
<1>4. ASSUME NEW i \in MovedByHand, NEW s \in Slot, SetSlotByHand(i, s) PROVE IInv'
  BY <1>4 DEF SetSlotByHand, planVars
<1>5. QED
  BY <1>1, <1>2, <1>3, <1>4 DEF UserStep

\* The clock disturbs nothing: no conjunct looks at the lease.
LEMMA LeaseIInv ==
    ASSUME IInv, NEW p \in Plan, LeasePasses(p), UNCHANGED <<pc, localVars, restarts, sets>>
    PROVE  IInv'
BY DEF IInv, TypeOK, PlansTypeOK, Phases, ClaimHeld, InFlight, NoDeadWaiting,
       SetBudget, Paid, Fresh, localVars, LeaseState, LeasePasses

\* What a failed attempt writes keeps the queue free of exhausted plans.
LEMMA FailureStatus ==
    ASSUME NEW p \in Plan
    PROVE  /\ AfterFailure(p) \in {"waiting", "failed"}
           /\ AfterFailure(p) = "waiting" => attempts[p] < MaxAttempts
BY DEF AfterFailure

\* Taking an event, releasing the expired claims and choosing candidates.
LEMMA SelectionIInv ==
    ASSUME IInv,
           \/ \E e \in [slot : Slot, volume : Volumes] : Receive(e)
           \/ Release
           \/ Choose
    PROVE  IInv'
<1> USE QueueAssumption
    DEF IInv, Phases, ClaimHeld, InFlight, NoDeadWaiting, SetBudget, Paid, Fresh
<1>1. ASSUME NEW e \in [slot : Slot, volume : Volumes], Receive(e) PROVE IInv'
  BY <1>1 DEF Receive, ExpiredClaims, TypeOK, PlansTypeOK, planVars, NoTasks
<1>2. CASE Release
  <2>1. \A p \in Plan : status'[p] = IF p \in expired THEN AfterFailure(p) ELSE status[p]
    BY <1>2 DEF Release, release_rows
  <2>2. TypeOK'
    BY <1>2, FailureStatus DEF Release, release_rows, TypeOK, PlansTypeOK, Status, LeaseState
  <2>3. attempts' = attempts /\ task' = task /\ sets' = sets /\ pc' = pc /\ expired' = {}
    BY <1>2 DEF Release, release_rows
  <2>4. task = NoTasks
    BY <1>2 DEF Release
  <2>5. QED
    BY <2>1, <2>2, <2>3, <2>4, FailureStatus DEF NoTasks, TypeOK
<1>3. CASE Choose
  <2>1. UNCHANGED <<status, attempts, lease, req, priority, portal, restarts, sets>>
    BY <1>3 DEF Choose, planVars
  <2>2. PlansTypeOK' /\ NoDeadWaiting' /\ SetBudget' /\ Fresh'
    BY <2>1 DEF TypeOK, PlansTypeOK
  <2>3. CASE Return
    BY <2>1, <2>2, <2>3, ReturnPhases, ReturnTypes DEF TypeOK
  <2>4. CASE ~Return
    <3>1. /\ pc' = "claiming" /\ UNCHANGED <<event, expired, tried, round, task, won>>
          /\ cands' \subseteq Plan /\ chosen' \subseteq Plan /\ rank' = priority
      BY <1>3, <2>4 DEF Choose, candidates_for
    <3>2. QED
      BY <1>3, <2>1, <2>2, <3>1 DEF TypeOK, PlansTypeOK, Choose
  <2>5. QED
    BY <2>3, <2>4
<1>4. QED
  BY <1>1, <1>2, <1>3

\* claim pays one attempt for every row it wins, and wins only rows that
\* still have one to pay.
LEMMA ClaimIInv ==
    ASSUME IInv, Claim
    PROVE  IInv'
<1> USE QueueAssumption
    DEF IInv, Phases, NoDeadWaiting, SetBudget, Paid, Fresh
<1>1. \A p \in Plan :
        /\ status'[p] = IF p \in Claimable(chosen) THEN "booking" ELSE status[p]
        /\ attempts'[p] = IF p \in Claimable(chosen) THEN attempts[p] + 1 ELSE attempts[p]
  BY DEF Claim, claim
<1>2. \A p \in Claimable(chosen) : status[p] = "waiting" /\ p \in Plan
  BY DEF Claimable, TypeOK
<1>3. PlansTypeOK'
  BY <1>2 DEF Claim, claim, TypeOK, PlansTypeOK, Status, LeaseState
<1>4. attempts \in [Plan -> Nat] /\ sets \in [Plan -> Nat] /\ sets' = sets /\ restarts' = restarts
  BY DEF TypeOK, PlansTypeOK, Claim
<1>5. NoDeadWaiting' /\ SetBudget' /\ Fresh'
  BY <1>1, <1>2, <1>4
<1>6. CASE Return
  BY <1>3, <1>4, <1>5, <1>6, ReturnPhases, ReturnTypes DEF TypeOK
<1>7. CASE ~Return
  <2>1. /\ pc' = "booking"
        /\ tried' = tried \cup chosen
        /\ task' = [p \in Plan |-> IF p \in Claimable(chosen) THEN "claimed" ELSE "none"]
        /\ UNCHANGED <<event, expired, cands, rank, chosen, round, won>>
    BY <1>7 DEF Claim
  <2>2. TypeOK'
    BY <1>3, <1>4, <2>1 DEF TypeOK, TaskState
  <2>3. Phases'
    BY <2>1 DEF Claim
  <2>4. ClaimHeld' /\ Paid'
    BY <1>1, <1>4, <2>1 DEF ClaimHeld, InFlight
  <2>5. QED
    BY <1>5, <2>2, <2>3, <2>4
<1>8. QED
  BY <1>6, <1>7

\* The steps of one booking thread.
LEMMA ThreadIInv ==
    ASSUME IInv, NEW p \in Plan,
           NoStock(p) \/ SetTimeSlot(p) \/ Record(p) \/ RecordFails(p) \/ NeverBegun(p)
    PROVE  IInv'
<1> USE QueueAssumption
    DEF IInv, Phases, ClaimHeld, InFlight, NoDeadWaiting, SetBudget, Paid, Fresh
<1>1. pc = "booking" /\ expired = {}
  BY DEF NoStock, SetTimeSlot, Record, RecordFails, NeverBegun, NoTasks
<1>2. CASE NoStock(p)
  BY <1>1, <1>2 DEF NoStock, mark_failed, TypeOK, PlansTypeOK, Status, LeaseState, TaskState
<1>3. CASE SetTimeSlot(p)
  <2>1. req[p].invoice \in Invoice /\ event.slot \in Slot
    BY DEF TypeOK, PlansTypeOK, Request
  <2>2. portal' \in [Invoice -> Slot \cup {0}]
    BY <1>3, <2>1 DEF SetTimeSlot, TypeOK, PlansTypeOK
  <2>3. sets'[p] <= attempts[p]
    BY <1>3 DEF SetTimeSlot, TypeOK, PlansTypeOK
  <2>4. QED
    BY <1>1, <1>3, <2>2, <2>3
    DEF SetTimeSlot, planVars, TypeOK, PlansTypeOK, TaskState
<1>4. CASE Record(p)
  BY <1>1, <1>4, FailureStatus
  DEF Record, mark_booked, mark_failed, TypeOK, PlansTypeOK, Status, LeaseState, TaskState
<1>5. CASE RecordFails(p) \/ NeverBegun(p)
  BY <1>1, <1>5 DEF RecordFails, NeverBegun, planVars, TypeOK, PlansTypeOK, TaskState
<1>6. QED
  BY <1>2, <1>3, <1>4, <1>5

\* The end of a round and a restart leave the table alone.
LEMMA EndIInv ==
    ASSUME IInv, EndRound \/ Restart
    PROVE  IInv'
<1> USE QueueAssumption, AllocatorAssumption
    DEF IInv, Phases, NoDeadWaiting, SetBudget, Paid, Fresh
<1>1. UNCHANGED <<status, attempts, lease, req, priority, portal, sets>> /\ restarts' \in Nat
  BY DEF EndRound, Restart, planVars, TypeOK
<1>2. PlansTypeOK' /\ NoDeadWaiting' /\ SetBudget' /\ Fresh'
  BY <1>1 DEF TypeOK, PlansTypeOK
<1>3. CASE Return
  BY <1>1, <1>2, <1>3, ReturnPhases, ReturnTypes
<1>4. CASE ~Return
  <2>1. /\ pc' = "claiming" /\ pc = "booking" /\ chosen' \subseteq Plan
        /\ round' = round + 1 /\ won' = won \cup TasksIn("booked") /\ task' = NoTasks
        /\ UNCHANGED <<event, expired, cands, rank, tried>>
    BY <1>4 DEF EndRound, Restart, TypeOK
  <2>2. TypeOK'
    BY <1>1, <1>2, <2>1 DEF TypeOK, TasksIn, NoTasks, TaskState
  <2>3. QED
    BY <1>1, <1>2, <2>1, <2>2 DEF ClaimHeld, InFlight, NoTasks
<1>5. QED
  BY <1>3, <1>4

\* No step of the consumer, the users, the clock or the process breaks it.
LEMMA NextIInv == IInv /\ [Next]_vars => IInv'
<1> SUFFICES ASSUME IInv, [Next]_vars PROVE IInv'
  OBVIOUS
<1>1. CASE Next
  BY <1>1, SelectionIInv, ClaimIInv, ThreadIInv, EndIInv, UserIInv, LeaseIInv
  DEF Next, ConsumerStep, Environment
<1>2. CASE UNCHANGED vars
  BY <1>2 DEF vars, planVars, localVars, IInv, TypeOK, PlansTypeOK, Phases, ClaimHeld,
     InFlight, NoDeadWaiting, SetBudget, Paid, Fresh
<1>3. QED
  BY <1>1, <1>2

\* The inductive invariant holds of every behaviour of the consumer.
THEOREM Invariance == Spec => []IInv
BY InitIInv, NextIInv, PTL DEF Spec

\* Every variable keeps its type.
THEOREM TypeCorrect == Spec => []TypeOK
<1>1. IInv => TypeOK
  BY DEF IInv
<1>2. QED
  BY Invariance, <1>1, PTL

\* However often the consumer is restarted, cancelled under or answered with
\* errors, no plan costs more than MAX_ATTEMPTS set_time_slot calls, and no
\* exhausted plan is left waiting (store.claim, mark_failed, release_expired).
THEOREM Budget == Spec => [](SetBudget /\ NoDeadWaiting)
<1>1. IInv => SetBudget /\ NoDeadWaiting
  BY DEF IInv
<1>2. QED
  BY Invariance, <1>1, PTL

\* A row a booking thread works on is its claim until the thread has written
\* its answer, unless the seller cancelled it meanwhile.
THEOREM ClaimExclusive == Spec => []ClaimHeld
<1>1. IInv => ClaimHeld
  BY DEF IInv
<1>2. QED
  BY Invariance, <1>1, PTL

\* A booked row changes only by the seller's cancel.
THEOREM BookedForGood == Spec => BookedSticks
<1>1. ASSUME IInv, [Next]_vars, NEW p \in Plan, status[p] = "booked"
      PROVE  status'[p] \in {"booked", "canceled"}
  <2> USE <1>1 DEF IInv, Phases, ClaimHeld, InFlight, TypeOK, PlansTypeOK
  <2>1. CASE UserStep
    <3>1. CASE CreatePlan
      BY <3>1 DEF CreatePlan, EnqueueNew, EnqueueAgain
    <3>2. CASE ~CreatePlan
      BY <2>1, <3>2 DEF UserStep, CancelPlan, set_priority, SetSlotByHand, planVars
    <3>3. QED
      BY <3>1, <3>2
  <2>2. CASE Release
    BY <2>2 DEF Release, release_rows
  <2>3. CASE Claim
    BY <2>3 DEF Claim, claim, Claimable
  <2>4. ASSUME NEW q \in Plan, NoStock(q) \/ Record(q) PROVE status'[p] \in {"booked", "canceled"}
    BY <2>4 DEF NoStock, Record, mark_booked, mark_failed
  <2>5. CASE UNCHANGED status
    BY <2>5
  <2>6. UserStep \/ Release \/ Claim \/ (\E q \in Plan : NoStock(q) \/ Record(q)) \/ UNCHANGED status
    BY DEF Next, ConsumerStep, Environment, Receive, Choose, SetTimeSlot, RecordFails, NeverBegun,
       EndRound, Restart, LeasePasses, vars, planVars
  <2>7. QED
    BY <2>1, <2>2, <2>3, <2>4, <2>5, <2>6
<1>2. IInv /\ [Next]_vars =>
        [\A p \in Plan : status[p] = "booked" => status'[p] \in {"booked", "canceled"}]_vars
  BY <1>1
<1>3. QED
  BY Invariance, <1>2, PTL DEF Spec, BookedSticks

\* A step that changes neither the statuses nor who owes an answer.
LEMMA LifeStays ==
    ASSUME UNCHANGED status, Owed' = Owed, NEW p \in Plan
    PROVE  Lifecycle!PlanStep(p)
BY DEF Lifecycle!PlanStep, Lifecycle!Stays

\* Whoever owed an answer on a claim still does when the handler returns; what
\* it forgets is an attempt on a plan that the seller cancelled.
LEMMA LifeReturns ==
    ASSUME IInv, Return, UNCHANGED status, NEW p \in Plan
    PROVE  Lifecycle!PlanStep(p)
<1>1. p \in Owed' => p \in Owed
  BY DEF Return, Owed, InFlight, NoTasks
<1>2. p \in Owed /\ p \notin Owed' => status[p] = "canceled" /\ status'[p] = "canceled"
  BY DEF IInv, Phases, ClaimHeld, Owed, InFlight
<1>3. QED
  BY <1>1, <1>2 DEF Lifecycle!PlanStep, Lifecycle!Stays, Lifecycle!GivenUp

\* The seller's requests enter and cancel plans and touch nothing else.
LEMMA LifeOfUser ==
    ASSUME IInv, UserStep, UNCHANGED <<pc, localVars, restarts, sets>>, NEW p \in Plan
    PROVE  Lifecycle!PlanStep(p)
<1> USE DEF IInv, TypeOK, PlansTypeOK, Phases, ClaimHeld, localVars, Owed, InFlight
<1>1. CASE CreatePlan
  <2>1. PICK i \in Invoice, w \in Windows \cap Window :
            EnqueueNew(i, w) \/ EnqueueAgain(i, w)
    BY <1>1 DEF CreatePlan
  <2>2. CASE EnqueueNew(i, w)
    BY <2>2 DEF EnqueueNew, Lifecycle!PlanStep, Lifecycle!Enters, Lifecycle!Stays
  <2>3. CASE EnqueueAgain(i, w)
    BY <2>3, LifeStays DEF EnqueueAgain
  <2>4. QED
    BY <2>1, <2>2, <2>3
<1>2. ASSUME NEW q \in Plan, CancelPlan(q) PROVE Lifecycle!PlanStep(p)
  BY <1>2 DEF CancelPlan, Lifecycle!PlanStep, Lifecycle!Canceled, Lifecycle!Stays
<1>3. CASE ~CreatePlan /\ ~\E q \in Plan : CancelPlan(q)
  BY <1>3, LifeStays DEF UserStep, set_priority, SetSlotByHand, planVars
<1>4. QED
  BY <1>1, <1>2, <1>3

\* release_expired answers for the claims whose lease has passed.
LEMMA LifeOfRelease ==
    ASSUME IInv, Release, NEW p \in Plan
    PROVE  Lifecycle!PlanStep(p)
<1> USE DEF IInv, TypeOK, PlansTypeOK, Phases
<1>1. /\ status'[p] = IF p \in expired THEN AfterFailure(p) ELSE status[p]
      /\ task' = task /\ task = NoTasks /\ expired' = {}
  BY DEF Release, release_rows
<1>2. InFlight = {} /\ InFlight' = {}
  BY <1>1 DEF InFlight, NoTasks
<1>3. CASE p \in expired
  <2>1. p \in Owed /\ p \notin Owed'
    BY <1>1, <1>2, <1>3, FailureStatus DEF Owed
  <2>2. QED
    BY <1>1, <1>3, <2>1, FailureStatus DEF Lifecycle!PlanStep, Lifecycle!Answered
<1>4. CASE p \notin expired
  <2>1. status'[p] = status[p] /\ (p \in Owed' <=> p \in Owed)
    BY <1>1, <1>2, <1>4 DEF Owed
  <2>2. QED
    BY <2>1 DEF Lifecycle!PlanStep, Lifecycle!Stays
<1>5. QED
  BY <1>3, <1>4

\* claim takes an attempt on the plans it wins, which all wait.
LEMMA LifeOfClaim ==
    ASSUME IInv, Claim, NEW p \in Plan
    PROVE  Lifecycle!PlanStep(p)
<1> USE DEF IInv, TypeOK, PlansTypeOK, Phases
<1>1. /\ status'[p] = IF p \in Claimable(chosen) THEN "booking" ELSE status[p]
      /\ expired = {} /\ task = NoTasks
      /\ \A q \in Claimable(chosen) : status[q] = "waiting"
  BY DEF Claim, claim, Claimable
<1>2. expired' = {} /\ \A q \in Plan : q \in InFlight' => q \in Claimable(chosen)
  BY <1>1 DEF Claim, Return, InFlight, NoTasks
<1>3. (p \in Owed <=> status[p] = "booking") /\ (p \in Owed' <=> status'[p] = "booking")
  BY <1>1, <1>2 DEF Owed, InFlight, NoTasks
<1>4. QED
  BY <1>1, <1>3 DEF Lifecycle!PlanStep, Lifecycle!Taken, Lifecycle!Stays

\* A booking thread answers for its own plan, once.
LEMMA LifeOfThread ==
    ASSUME IInv, NEW q \in Plan,
           NoStock(q) \/ SetTimeSlot(q) \/ Record(q) \/ RecordFails(q) \/ NeverBegun(q),
           NEW p \in Plan
    PROVE  Lifecycle!PlanStep(p)
<1> USE DEF IInv, TypeOK, PlansTypeOK, Phases, ClaimHeld, InFlight, Owed
<1>1. expired = {} /\ expired' = {}
  BY DEF NoStock, SetTimeSlot, Record, RecordFails, NeverBegun, NoTasks
<1>2. CASE SetTimeSlot(q)
  BY <1>1, <1>2 DEF SetTimeSlot, planVars, Lifecycle!PlanStep, Lifecycle!Stays
<1>3. CASE RecordFails(q) \/ NeverBegun(q)
  BY <1>1, <1>3 DEF RecordFails, NeverBegun, planVars, Lifecycle!PlanStep, Lifecycle!Stays, Lifecycle!GivenUp
<1>4. CASE NoStock(q) \/ Record(q)
  <2>1. /\ q \in InFlight /\ status'[q] \in {"waiting", "booked", "failed"}
        /\ task'[q] \in {"booked", "failed"}
        /\ \A r \in Plan \ {q} : status'[r] = status[r] /\ task'[r] = task[r]
    BY <1>4, FailureStatus DEF NoStock, Record, mark_booked, mark_failed
  <2>2. CASE p = q
    BY <1>1, <2>1, <2>2 DEF Lifecycle!PlanStep, Lifecycle!Answered
  <2>3. CASE p # q
    BY <1>1, <2>1, <2>3 DEF Lifecycle!PlanStep, Lifecycle!Stays
  <2>4. QED
    BY <2>2, <2>3
<1>5. QED
  BY <1>2, <1>3, <1>4

\* Every step of the consumer and around it is a step of the abstract queue.
LEMMA LifeOfNext ==
    ASSUME IInv, [Next]_vars, NEW p \in Plan
    PROVE  Lifecycle!PlanStep(p)
<1>1. ASSUME NEW e \in [slot : Slot, volume : Volumes], Receive(e) PROVE Lifecycle!PlanStep(p)
  <2>1. UNCHANGED status /\ task' = task /\ expired = {} /\ expired' = ExpiredClaims
    BY <1>1 DEF Receive, planVars, IInv, Phases
  <2>2. Owed' = Owed
    BY <2>1 DEF Owed, InFlight, ExpiredClaims
  <2>3. QED
    BY <2>1, <2>2, LifeStays
<1>2. CASE Choose \/ EndRound
  <2>1. UNCHANGED status
    BY <1>2 DEF Choose, EndRound, planVars
  <2>2. CASE Return
    BY <2>1, <2>2, LifeReturns
  <2>3. CASE ~Return
    <3>1. Owed' = Owed
      BY <1>2, <2>1, <2>3 DEF Choose, EndRound, Owed, InFlight, NoTasks
    <3>2. QED
      BY <2>1, <3>1, LifeStays
  <2>4. QED
    BY <2>2, <2>3
<1>3. CASE Restart
  BY <1>3, LifeReturns DEF Restart, planVars
<1>4. ASSUME NEW q \in Plan, LeasePasses(q), UNCHANGED <<pc, localVars, restarts, sets>>
      PROVE Lifecycle!PlanStep(p)
  BY <1>4, LifeStays DEF LeasePasses, localVars, Owed, InFlight
<1>5. CASE UNCHANGED vars
  BY <1>5, LifeStays DEF vars, planVars, localVars, Owed, InFlight
<1>6. QED
  BY <1>1, <1>2, <1>3, <1>4, <1>5, LifeOfUser, LifeOfRelease, LifeOfClaim, LifeOfThread
  DEF Next, ConsumerStep, Environment

\* The consumer implements the queue's promise: whatever restarts, leases and
\* cancels come between claim and answer, an attempt is answered once at most
\* and a booked or failed plan is left alone (claim, mark_booked, mark_failed,
\* release_expired of store.py under on_slot_freed).
THEOREM Refinement == Spec => LifecycleKept
<1>1. Init => Lifecycle!Init
  BY DEF Init, PlansInit, LocalInit, Lifecycle!Init, Owed, InFlight, NoTasks
<1>2. IInv /\ IInv' /\ [Next]_vars => [Lifecycle!Next]_<<status, Owed>>
  <2>1. SUFFICES ASSUME IInv, IInv', [Next]_vars PROVE Lifecycle!Next
    OBVIOUS
  <2>2. DOMAIN status' = Plan /\ Owed' \subseteq Plan
    BY <2>1 DEF IInv, TypeOK, PlansTypeOK, Owed, InFlight
  <2>3. QED
    BY <2>1, <2>2, LifeOfNext DEF Lifecycle!Next
<1>3. QED
  BY <1>1, <1>2, Invariance, PTL DEF Spec, LifecycleKept, Lifecycle!Spec

------------------------------------------------------------------------------
(* Volumes: what a set of plans takes, for any volume of each.             *)

UnitsOf(vol, S) == UNION {{p} \X (1..vol[p]) : p \in S}

Total(vol, S) == Cardinality(UnitsOf(vol, S))

LEMMA TotalType ==
    ASSUME NEW vol \in [Plan -> Nat], NEW S \in SUBSET Plan
    PROVE  IsFiniteSet(UnitsOf(vol, S)) /\ Total(vol, S) \in Nat
<1> DEFINE Of == [p \in S |-> {p} \X (1..vol[p])]
           Family == {{p} \X (1..vol[p]) : p \in S}
<1>1. IsFiniteSet(S)
  <2>1. IsFiniteSet(Plan)
    BY QueueAssumption, FS_Interval DEF Plan
  <2>2. QED
    BY <2>1, FS_Subset
<1>2. IsFiniteSet(Family)
  <2>1. Of \in Surjection(S, Family)
    BY DEF Surjection
  <2> HIDE DEF Of, Family
  <2>2. QED
    BY <1>1, <2>1, FS_Surjection
<1>3. ASSUME NEW p \in S PROVE IsFiniteSet({p} \X (1..vol[p]))
  <2>1. vol[p] \in Int
    OBVIOUS
  <2>2. IsFiniteSet(1..vol[p])
    BY <2>1, FS_Interval
  <2>3. IsFiniteSet({p})
    BY FS_Singleton
  <2>4. QED
    BY <2>2, <2>3, FS_Product
<1>4. \A T \in Family : IsFiniteSet(T)
  BY <1>3
<1>5. IsFiniteSet(UNION Family)
  <2> HIDE DEF Family
  <2>1. QED
    BY <1>2, <1>4, FS_UNION
<1>6. QED
  BY <1>5, FS_CardinalityType DEF UnitsOf, Total

LEMMA TotalOfNone == ASSUME NEW vol PROVE Total(vol, {}) = 0
<1>1. UnitsOf(vol, {}) = {}
  BY DEF UnitsOf
<1>2. QED
  BY <1>1, FS_EmptySet DEF Total

LEMMA TotalOfOne ==
    ASSUME NEW vol \in [Plan -> Nat], NEW p \in Plan
    PROVE  Total(vol, {p}) = vol[p]
<1> DEFINE own == {p} \X (1..vol[p])
<1>1. UnitsOf(vol, {p}) = own
  BY DEF UnitsOf
<1>2. vol[p] \in Nat
  OBVIOUS
<1>3. IsFiniteSet(1..vol[p]) /\ Cardinality(1..vol[p]) = vol[p]
  BY <1>2, FS_Interval
<1>4. IsFiniteSet({p}) /\ Cardinality({p}) = 1
  BY FS_Singleton
<1>5. Cardinality(own) = 1 * vol[p]
  BY <1>3, <1>4, FS_Product
<1> HIDE DEF own
<1>6. QED
  BY <1>1, <1>2, <1>5 DEF Total

\* Two sets of plans with none in common take the sum of what each takes.
LEMMA TotalJoined ==
    ASSUME NEW vol \in [Plan -> Nat], NEW S \in SUBSET Plan, NEW T \in SUBSET Plan, S \cap T = {}
    PROVE  Total(vol, S \cup T) = Total(vol, S) + Total(vol, T)
<1>1. UnitsOf(vol, S \cup T) = UnitsOf(vol, S) \cup UnitsOf(vol, T)
  BY DEF UnitsOf
<1>2. UnitsOf(vol, S) \cap UnitsOf(vol, T) = {}
  BY DEF UnitsOf
<1>3. IsFiniteSet(UnitsOf(vol, S)) /\ IsFiniteSet(UnitsOf(vol, T))
      /\ Total(vol, S) \in Nat /\ Total(vol, T) \in Nat
  BY TotalType
<1>4. Cardinality({}) = 0
  BY FS_EmptySet
<1>5. Cardinality(UnitsOf(vol, S) \cup UnitsOf(vol, T)) =
        Cardinality(UnitsOf(vol, S)) + Cardinality(UnitsOf(vol, T)) - Cardinality({})
  BY <1>2, <1>3, FS_Union
<1>6. Total(vol, S \cup T) = Total(vol, S) + Total(vol, T) - 0
  BY <1>1, <1>4, <1>5, Zenon DEF Total
<1>7. QED
  BY <1>3, <1>6

LEMMA TotalWithin ==
    ASSUME NEW vol \in [Plan -> Nat], NEW T \in SUBSET Plan, NEW S \in SUBSET T
    PROVE  Total(vol, S) <= Total(vol, T)
<1>1. UnitsOf(vol, S) \in SUBSET UnitsOf(vol, T)
  BY DEF UnitsOf
<1>2. IsFiniteSet(UnitsOf(vol, T))
  BY TotalType
<1>3. QED
  BY <1>1, <1>2, FS_Subset DEF Total

\* Only the volumes of the plans of the set count.
LEMMA TotalSame ==
    ASSUME NEW vol, NEW wol, NEW S, \A p \in S : vol[p] = wol[p]
    PROVE  Total(vol, S) = Total(wol, S)
<1>1. UnitsOf(vol, S) = UnitsOf(wol, S)
  BY DEF UnitsOf
<1>2. QED
  BY <1>1 DEF Total

Vol == [p \in Plan |-> VolumeOf(p)]

LEMMA VolTotals ==
    ASSUME TypeOK
    PROVE  /\ Vol \in [Plan -> Nat]
           /\ \A S \in SUBSET Plan : TotalVolume(S) = Total(Vol, S)
<1>1. Vol \in [Plan -> Nat]
  BY QueueAssumption DEF Vol, VolumeOf, TypeOK, PlansTypeOK, Request
<1>2. ASSUME NEW S \in SUBSET Plan PROVE TotalVolume(S) = Total(Vol, S)
  <2>1. Units(S) = UnitsOf(Vol, S)
    BY DEF Units, UnitsOf, Vol
  <2>2. QED
    BY <2>1 DEF TotalVolume, Total
<1>3. QED
  BY <1>1, <1>2

-----------------------------------------------------------------------------
(* First fit.                                                              *)

\* Numbers have a least one.
LEMMA Least ==
    ASSUME NEW T \in SUBSET Nat, T # {}
    PROVE  \E m \in T : \A n \in T : m <= n
<1> DEFINE Below == {ss \in Nat \X Nat : ss[1] < ss[2]}
<1>1. IsWellFoundedOn(Below, Nat)
  BY NatLessThanWellFounded DEF OpToRel
<1>2. PICK m \in T : \A n \in T : <<n, m>> \notin Below
  <2> HIDE DEF Below
  <2>1. QED
    BY <1>1, WFMin
<1>3. ASSUME NEW n \in T PROVE m <= n
  <2>1. ~(n < m)
    BY <1>2
  <2>2. QED
    BY <2>1
<1>4. QED
  BY <1>3

\* Of the plans chosen one is the last in the order of the queue.
LEMMA LastInQueue ==
    ASSUME NEW r \in [Plan -> Nat], NEW S \in SUBSET Plan, S # {}
    PROVE  \E p \in S : \A q \in S \ {p} : Before(r, q, p)
<1>1. PICK p0 \in S : \A q \in S : r[p0] <= r[q]
  <2> DEFINE ranks == {r[q] : q \in S}
  <2>1. ranks \in SUBSET Nat /\ ranks # {}
    OBVIOUS
  <2>2. PICK m \in ranks : \A n \in ranks : m <= n
    BY <2>1, Least
  <2>3. QED
    BY <2>2
<1>2. PICK p \in S : r[p] = r[p0] /\ \A q \in S : r[q] = r[p0] => q <= p
  <2> DEFINE back == {NumPlans - q : q \in {x \in S : r[x] = r[p0]}}
  <2>1. back \in SUBSET Nat /\ back # {}
    BY <1>1, QueueAssumption DEF Plan
  <2>2. PICK m \in back : \A n \in back : m <= n
    BY <2>1, Least
  <2>3. PICK p \in S : r[p] = r[p0] /\ m = NumPlans - p
    BY <2>2
  <2>4. ASSUME NEW q \in S, r[q] = r[p0] PROVE q <= p
    <3>1. m <= NumPlans - q
      BY <2>2, <2>4
    <3>2. QED
      BY <2>3, <3>1, QueueAssumption DEF Plan
  <2>5. QED
    BY <2>3, <2>4
<1>3. ASSUME NEW q \in S \ {p} PROVE Before(r, q, p)
  <2>1. r[p] <= r[q] /\ r[p] \in Nat /\ r[q] \in Nat /\ q \in Nat /\ p \in Nat /\ q # p
    BY <1>1, <1>2, QueueAssumption DEF Plan
  <2>2. r[q] = r[p] => q <= p
    BY <1>2
  <2>3. QED
    BY <2>1, <2>2 DEF Before
<1>4. QED
  BY <1>3

\* What first fit chooses fits: the last plan it took did, on top of the rest.
LEMMA FirstFitFits ==
    ASSUME TypeOK, NEW r \in [Plan -> Nat], NEW S \in SUBSET Plan, NEW sel \in SUBSET S,
           NEW capacity \in Nat, FirstFit(sel, S, r, capacity)
    PROVE  Total(Vol, sel) <= capacity
<1>1. CASE sel = {}
  BY <1>1, TotalOfNone
<1>2. CASE sel # {}
  <2>1. PICK p \in sel : \A q \in sel \ {p} : Before(r, q, p)
    BY <1>2, LastInQueue
  <2>2. {q \in sel : Before(r, q, p)} = sel \ {p}
    <3>1. ~Before(r, p, p)
      BY <2>1, QueueAssumption DEF Before, Plan
    <3>2. QED
      BY <2>1, <3>1
  <2>3. TotalVolume(sel \ {p}) + VolumeOf(p) <= capacity
    BY <2>1, <2>2 DEF FirstFit
  <2>4. Vol \in [Plan -> Nat] /\ TotalVolume(sel \ {p}) = Total(Vol, sel \ {p})
        /\ VolumeOf(p) = Vol[p] /\ p \in Plan
    BY <2>1, VolTotals DEF Vol
  <2>5. Total(Vol, (sel \ {p}) \cup {p}) = Total(Vol, sel \ {p}) + Total(Vol, {p})
    BY <2>4, TotalJoined
  <2>6. (sel \ {p}) \cup {p} = sel
    BY <2>1
  <2>7. QED
    BY <2>3, <2>4, <2>5, <2>6, TotalOfOne
<1>3. QED
  BY <1>1, <1>2

-----------------------------------------------------------------------------
(* What the rounds of one event take.                                      *)

\* The plans of the round that were claimed, whatever has come of them.
Working == {p \in Plan : task[p] # "none"}

\* A plan the event has to do with is a row of the table, and the invoice of a
\* row is never changed.
Placed == \A p \in cands \cup chosen \cup won \cup Working : status[p] # "absent"

\* What earlier rounds booked and what this round tries fit the slot together,
\* failures included: their volume is what the next round may fill.
FitTogether ==
    /\ pc \in {"idle", "releasing"} => won = {} /\ tried = {}
    /\ pc = "claiming" => /\ Total(Vol, won \cup chosen) <= event.volume
                          /\ chosen \cap won = {} /\ won \subseteq tried
    /\ pc = "booking" => /\ Total(Vol, won \cup Working) <= event.volume
                         /\ Working \cap won = {} /\ won \cup Working \subseteq tried

CInv == IInv /\ Placed /\ FitTogether

LEMMA InitCInv == ASSUME Init PROVE CInv
<1>1. Placed /\ FitTogether
  BY DEF Init, LocalInit, PlansInit, Placed, FitTogether, Working, NoTasks
<1>2. QED
  BY <1>1, InitIInv DEF CInv

\* A row stays in the table, and stays its invoice's.
LEMMA RowsStay ==
    ASSUME TypeOK, [Next]_vars, NEW p \in Plan, status[p] # "absent"
    PROVE  status'[p] # "absent" /\ req'[p].invoice = req[p].invoice
<1> USE DEF TypeOK, PlansTypeOK
<1>1. CASE UserStep
  <2>1. CASE CreatePlan
    <3>1. PICK i \in Invoice, w \in Windows \cap Window :
              EnqueueNew(i, w) \/ EnqueueAgain(i, w)
      BY <2>1 DEF CreatePlan
    <3>2. CASE EnqueueNew(i, w)
      BY <3>2 DEF EnqueueNew
    <3>3. CASE EnqueueAgain(i, w)
      <4>1. PICK q \in WaitingRowsOf(i) :
                req' = [req EXCEPT ![q] = [invoice |-> i, min |-> w.min, max |-> w.max,
                                           current |-> portal[i]]]
        BY <3>3 DEF EnqueueAgain
      <4>2. req[q].invoice = i /\ q \in Plan
        BY DEF WaitingRowsOf
      <4>3. req'[p].invoice = req[p].invoice
        BY <4>1, <4>2
      <4>4. QED
        BY <3>3, <4>3 DEF EnqueueAgain
    <3>4. QED
      BY <3>1, <3>2, <3>3
  <2>2. CASE ~CreatePlan
    BY <1>1, <2>2 DEF UserStep, CancelPlan, set_priority, SetSlotByHand, planVars
  <2>3. QED
    BY <2>1, <2>2
<1>2. CASE Release
  BY <1>2, FailureStatus DEF Release, release_rows
<1>3. CASE Claim
  BY <1>3 DEF Claim, claim
<1>4. ASSUME NEW q \in Plan, NoStock(q) \/ Record(q)
      PROVE  status'[p] # "absent" /\ req'[p].invoice = req[p].invoice
  BY <1>4, FailureStatus DEF NoStock, Record, mark_booked, mark_failed
<1>5. CASE UNCHANGED <<status, req>>
  BY <1>5
<1>6. \/ UserStep \/ Release \/ Claim \/ (\E q \in Plan : NoStock(q) \/ Record(q))
      \/ UNCHANGED <<status, req>>
  BY DEF Next, ConsumerStep, Environment, Receive, Choose, SetTimeSlot, RecordFails, NeverBegun,
     EndRound, Restart, LeasePasses, vars, planVars
<1>7. QED
  BY <1>1, <1>2, <1>3, <1>4, <1>5, <1>6

\* So the plans of the event take what they took.
LEMMA TotalStays ==
    ASSUME TypeOK, [Next]_vars, NEW S \in SUBSET Plan, \A p \in S : status[p] # "absent"
    PROVE  Total(Vol', S) = Total(Vol, S) /\ \A p \in S : status'[p] # "absent"
<1>1. \A p \in S : Vol'[p] = Vol[p]
  BY RowsStay DEF Vol, VolumeOf
<1>2. QED
  BY <1>1, TotalSame, RowsStay

\* A step that leaves the event where it is.
LEMMA EventStays ==
    ASSUME CInv, IInv', [Next]_vars, Working' = Working,
           UNCHANGED <<pc, event, cands, chosen, tried, won>>
    PROVE  CInv'
<1>1. TypeOK
  BY DEF CInv, IInv
<1>2. /\ won \cup chosen \in SUBSET Plan /\ won \cup Working \in SUBSET Plan
      /\ cands \cup chosen \cup won \cup Working \in SUBSET Plan
  BY <1>1 DEF TypeOK, Working
<1>3. \A p \in cands \cup chosen \cup won \cup Working : status[p] # "absent"
  BY DEF CInv, Placed
<1>4. \A p \in cands \cup chosen \cup won \cup Working : status'[p] # "absent"
  BY <1>1, <1>2, <1>3, TotalStays
<1>5. Placed'
  BY <1>4 DEF Placed
<1>6. /\ Total(Vol', won \cup chosen) = Total(Vol, won \cup chosen)
      /\ Total(Vol', won \cup Working) = Total(Vol, won \cup Working)
  BY <1>1, <1>2, <1>3, TotalStays
<1>7. FitTogether'
  BY <1>6 DEF CInv, FitTogether
<1>8. QED
  BY <1>5, <1>7 DEF CInv

LEMMA ReturnFits == ASSUME IInv', Return PROVE CInv'
BY DEF Return, CInv, Placed, FitTogether, Working, NoTasks

\* Steps of the threads, of release_expired and of the world.
LEMMA AsideCInv ==
    ASSUME CInv, IInv', [Next]_vars,
           \/ Release \/ UNCHANGED vars
           \/ \E p \in Plan : NoStock(p) \/ SetTimeSlot(p) \/ Record(p) \/ RecordFails(p) \/ NeverBegun(p)
           \/ (UserStep \/ \E p \in Plan : LeasePasses(p))
              /\ UNCHANGED <<pc, localVars, restarts, sets>>
    PROVE  CInv'
<1>1. UNCHANGED <<pc, event, cands, chosen, tried, won>>
  BY DEF Release, vars, NoStock, SetTimeSlot, Record, RecordFails, NeverBegun, localVars
<1>2. task \in [Plan -> TaskState]
  BY DEF CInv, IInv, TypeOK
<1>3. ASSUME task' = task PROVE Working' = Working
  BY <1>3 DEF Working
<1>4. ASSUME NEW p \in Plan, NoStock(p) \/ SetTimeSlot(p) \/ Record(p) \/ RecordFails(p) \/ NeverBegun(p)
      PROVE  Working' = Working
  <2>1. PICK t : task' = [task EXCEPT ![p] = t] /\ t # "none" /\ task[p] # "none"
    BY <1>4 DEF NoStock, SetTimeSlot, Record, RecordFails, NeverBegun
  <2>2. QED
    BY <1>2, <2>1 DEF Working
<1>5. task' = task \/ \E p \in Plan : NoStock(p) \/ SetTimeSlot(p) \/ Record(p) \/ RecordFails(p) \/ NeverBegun(p)
  BY DEF Release, vars, localVars
<1>6. Working' = Working
  BY <1>3, <1>4, <1>5 DEF Working
<1>7. QED
  BY <1>1, <1>6, EventStays

\* Taking an event, choosing for it, claiming.
LEMMA SelectionCInv ==
    ASSUME CInv, IInv', [Next]_vars,
           (\E e \in [slot : Slot, volume : Volumes] : Receive(e)) \/ Choose \/ Claim
    PROVE  CInv'
<1> USE DEF CInv
<1>0. TypeOK /\ Phases /\ TypeOK'
  BY DEF IInv
<1>1. CASE Return
  BY <1>1, ReturnFits
<1>2. ASSUME NEW e \in [slot : Slot, volume : Volumes], Receive(e) PROVE CInv'
  <2>1. Placed'
    BY <1>2 DEF Receive, planVars, Placed, Working
  <2>2. FitTogether'
    BY <1>2 DEF Receive, FitTogether
  <2>3. QED
    BY <2>1, <2>2
<1>3. CASE Choose /\ ~Return
  <2> DEFINE S == candidates_for(event.slot)
  <2>1. PICK sel \in SUBSET S :
            /\ FirstFit(sel, S, priority, event.volume)
            /\ pc' = "claiming" /\ cands' = S /\ chosen' = sel
            /\ UNCHANGED <<event, tried, task, won>>
    BY <1>3 DEF Choose
  <2>2. UNCHANGED <<status, req>> /\ pc = "releasing"
    BY <1>3 DEF Choose, planVars
  <2>3. S \in SUBSET Plan /\ \A p \in S : status[p] # "absent"
    BY DEF candidates_for
  <2>4. priority \in [Plan -> Nat] /\ event.volume \in Nat
    BY <1>0, QueueAssumption, AllocatorAssumption DEF TypeOK, PlansTypeOK
  <2>5. Total(Vol, sel) <= event.volume
    BY <1>0, <2>1, <2>3, <2>4, FirstFitFits
  <2>6. Vol' = Vol
    BY <2>2 DEF Vol, VolumeOf
  <2>7. won = {} /\ Working' = {}
    BY <1>0, <2>1, <2>2 DEF FitTogether, Phases, Working, NoTasks
  <2>8. won' \cup chosen' = sel
    BY <2>1, <2>7
  <2>9. Placed'
    BY <2>1, <2>2, <2>3, <2>7 DEF Placed
  <2>10. FitTogether'
    BY <2>1, <2>5, <2>6, <2>7, <2>8 DEF FitTogether
  <2>11. QED
    BY <2>9, <2>10
<1>4. CASE Claim /\ ~Return
  <2>1. /\ pc = "claiming" /\ pc' = "booking" /\ tried' = tried \cup chosen
        /\ task' = [p \in Plan |-> IF p \in Claimable(chosen) THEN "claimed" ELSE "none"]
        /\ UNCHANGED <<event, cands, chosen, won, req>>
    BY <1>4 DEF Claim
  <2>2. chosen \subseteq Plan /\ won \subseteq Plan /\ cands \subseteq Plan
    BY <1>0 DEF TypeOK
  <2>3. Working' \subseteq chosen
    BY <2>1 DEF Working, Claimable
  <2>4. \A p \in cands \cup chosen \cup won : status'[p] # "absent"
    BY <1>0, <2>2, RowsStay DEF Placed
  <2>5. Placed'
    BY <2>1, <2>3, <2>4 DEF Placed
  <2>6. Vol' = Vol
    BY <2>1 DEF Vol, VolumeOf
  <2>7. /\ won' \cup Working' \in SUBSET (won \cup chosen)
        /\ won \cup chosen \in SUBSET Plan
    BY <2>1, <2>2, <2>3
  <2>8. Vol \in [Plan -> Nat]
    BY <1>0, VolTotals
  <2>9. Total(Vol, won' \cup Working') <= Total(Vol, won \cup chosen)
    BY <2>7, <2>8, TotalWithin
  <2>10. /\ Total(Vol, won' \cup Working') \in Nat /\ Total(Vol, won \cup chosen) \in Nat
         /\ event.volume \in Nat
    <3>1. event.volume \in Nat
      BY <1>0, AllocatorAssumption DEF TypeOK
    <3>2. QED
      BY <2>7, <2>8, <3>1, TotalType
  <2>11. Total(Vol, won' \cup Working') <= event.volume
    <3>1. Total(Vol, won \cup chosen) <= event.volume
      BY <2>1 DEF FitTogether
    <3>2. QED
      BY <2>9, <2>10, <3>1
  <2>12. chosen \cap won = {} /\ won \subseteq tried
    BY <2>1 DEF FitTogether
  <2>13. FitTogether'
    BY <2>1, <2>3, <2>6, <2>11, <2>12 DEF FitTogether
  <2>14. QED
    BY <2>5, <2>13
<1>5. QED
  BY <1>1, <1>2, <1>3, <1>4

\* The retry round: the volume that failed is filled with other plans.
LEMMA EndCInv == ASSUME CInv, IInv', [Next]_vars, EndRound \/ Restart PROVE CInv'
<1> USE DEF CInv
<1>0. TypeOK /\ Vol \in [Plan -> Nat]
  BY VolTotals DEF IInv
<1>1. CASE Return
  BY <1>1, ReturnFits
<1>2. CASE EndRound /\ ~Return
  <2> DEFINE again == IF TasksIn("aborted") = {} /\ round < RetryRounds
                      THEN cands \ tried ELSE {}
             booked == TasksIn("booked")
             failed == TasksIn("failed")
  <2>1. PICK sel \in SUBSET again :
            /\ FirstFit(sel, again, rank, FailedVolume) /\ sel # {}
            /\ pc' = "claiming" /\ chosen' = sel /\ won' = won \cup booked /\ task' = NoTasks
            /\ UNCHANGED <<event, cands, tried>>
    BY <1>2 DEF EndRound
  <2>2. UNCHANGED <<status, req>> /\ pc = "booking"
    BY <1>2 DEF EndRound, planVars
  <2>3. sel \subseteq cands \ tried
    BY <2>1
  <2>4. /\ booked \in SUBSET Plan /\ failed \in SUBSET Plan /\ won \cup booked \in SUBSET Plan
        /\ again \in SUBSET Plan /\ won \cup Working \in SUBSET Plan
        /\ rank \in [Plan -> Nat] /\ event.volume \in Nat
    BY <1>0, QueueAssumption, AllocatorAssumption DEF TypeOK, TasksIn, Working
  <2>5. /\ booked \subseteq Working /\ failed \subseteq Working /\ booked \cap failed = {}
    BY DEF TasksIn, Working
  <2>6. /\ Total(Vol, won \cup Working) <= event.volume
        /\ Working \cap won = {} /\ won \cup Working \subseteq tried
    BY <2>2 DEF FitTogether
  <2>7. Total(Vol, sel) <= Total(Vol, failed)
    <3>1. FailedVolume = Total(Vol, failed) /\ Total(Vol, failed) \in Nat
      BY <1>0, <2>4, VolTotals, TotalType DEF FailedVolume
    <3>2. QED
      BY <1>0, <2>1, <2>4, <3>1, FirstFitFits
  <2>8. Total(Vol, (won \cup booked) \cup failed) = Total(Vol, won \cup booked) + Total(Vol, failed)
    <3>1. (won \cup booked) \cap failed = {}
      BY <2>5, <2>6
    <3>2. QED
      BY <1>0, <2>4, <3>1, TotalJoined
  <2>9. Total(Vol, (won \cup booked) \cup failed) <= Total(Vol, won \cup Working)
    <3>1. (won \cup booked) \cup failed \in SUBSET (won \cup Working)
      BY <2>5
    <3>2. QED
      BY <1>0, <2>4, <3>1, TotalWithin
  <2>10. Total(Vol, (won \cup booked) \cup sel) = Total(Vol, won \cup booked) + Total(Vol, sel)
    <3>1. (won \cup booked) \cap sel = {} /\ sel \in SUBSET Plan
      BY <2>1, <2>3, <2>4, <2>5, <2>6
    <3>2. QED
      BY <1>0, <2>4, <3>1, TotalJoined
  <2>11. /\ Total(Vol, won \cup booked) \in Nat /\ Total(Vol, failed) \in Nat
         /\ Total(Vol, sel) \in Nat /\ Total(Vol, won \cup Working) \in Nat
    BY <1>0, <2>1, <2>4, TotalType
  <2>12. Total(Vol, (won \cup booked) \cup sel) <= event.volume
    BY <2>4, <2>6, <2>7, <2>8, <2>9, <2>10, <2>11
  <2>13. Vol' = Vol
    BY <2>2 DEF Vol, VolumeOf
  <2>14. Working' = {}
    BY <2>1 DEF Working, NoTasks
  <2>15. Placed'
    BY <2>1, <2>2, <2>3, <2>5, <2>14 DEF Placed
  <2>16. won' \cup chosen' = (won \cup booked) \cup sel
    BY <2>1
  <2>17. chosen' \cap won' = {} /\ won' \subseteq tried'
    BY <2>1, <2>3, <2>5, <2>6
  <2> HIDE DEF booked, failed, again
  <2>18. FitTogether'
    BY <2>1, <2>12, <2>13, <2>16, <2>17 DEF FitTogether
  <2>19. QED
    BY <2>15, <2>18
<1>3. QED
  BY <1>1, <1>2 DEF Restart

LEMMA NextCInv == CInv /\ [Next]_vars => CInv'
<1> SUFFICES ASSUME CInv, [Next]_vars PROVE CInv'
  OBVIOUS
<1>1. IInv'
  BY NextIInv DEF CInv
<1>2. \/ \/ Release \/ UNCHANGED vars
         \/ \E p \in Plan : NoStock(p) \/ SetTimeSlot(p) \/ Record(p) \/ RecordFails(p) \/ NeverBegun(p)
         \/ (UserStep \/ \E p \in Plan : LeasePasses(p))
            /\ UNCHANGED <<pc, localVars, restarts, sets>>
      \/ (\E e \in [slot : Slot, volume : Volumes] : Receive(e)) \/ Choose \/ Claim
      \/ EndRound \/ Restart
  BY DEF Next, ConsumerStep, Environment
<1>3. QED
  BY <1>1, <1>2, AsideCInv, SelectionCInv, EndCInv

\* Whatever volumes the plans ask for, in whatever order first fit takes them
\* and however many retry rounds follow, what an event books or is booking
\* never exceeds the volume that was freed (select_for_capacity and the loop of
\* on_slot_freed): a round fills no more than what failed before it.
THEOREM Capacity == Spec => []CapacityRespected
<1>1. Init => CInv
  BY InitCInv
<1>2. CInv => CapacityRespected
  <2>1. SUFFICES ASSUME CInv, pc = "booking"
                 PROVE  TotalVolume(won \cup {p \in Plan : task[p] \in {"claimed", "accepted", "booked"}})
                            <= event.volume
    BY DEF CapacityRespected
  <2> DEFINE held == won \cup {p \in Plan : task[p] \in {"claimed", "accepted", "booked"}}
  <2>2. TypeOK /\ Vol \in [Plan -> Nat]
    BY <2>1, VolTotals DEF CInv, IInv
  <2>3. held \in SUBSET (won \cup Working) /\ won \cup Working \in SUBSET Plan
    BY <2>2 DEF Working, TypeOK
  <2>4. TotalVolume(held) = Total(Vol, held)
    BY <2>2, <2>3, VolTotals
  <2>5. Total(Vol, held) <= Total(Vol, won \cup Working)
    BY <2>2, <2>3, TotalWithin
  <2>6. /\ Total(Vol, held) \in Nat /\ Total(Vol, won \cup Working) \in Nat
        /\ event.volume \in Nat
    BY <2>2, <2>3, TotalType, AllocatorAssumption DEF TypeOK
  <2>7. Total(Vol, won \cup Working) <= event.volume
    BY <2>1 DEF CInv, FitTogether
  <2> HIDE DEF held
  <2>8. QED
    BY <2>4, <2>5, <2>6, <2>7 DEF held
<1>3. QED
  BY <1>1, <1>2, NextCInv, PTL DEF Spec

------------------------------------------------------------------------------
(* THE DETECTOR                                                            *)

------------------------------------------------------------------------------
(* Types.                                                                  *)

LEMMA RadarNumbers ==
    /\ Ladder \subseteq Nat /\ DetectQ \in Rungs /\ Rungs \subseteq Nat \ {0}
    /\ Nowhere \in [TimeSlot -> Ladder \cup {0}] /\ Idle \in Progress
    /\ Idle.at = "idle"
BY RadarAssumption DEF Rungs, Nowhere, Idle, Progress

LEMMA QuantitiesAreNumbers ==
    ASSUME NEW f \in [TimeSlot -> Ladder \cup {0}] PROVE f \in [TimeSlot -> Nat]
<1>1. Ladder \cup {0} \subseteq Nat
  BY RadarNumbers
<1>. QED
  BY <1>1

LEMMA ProgressTypes ==
    ASSUME NEW e \in Progress
    PROVE  /\ e.at \in {"idle", "detect", "compare", "measure", "write"}
           /\ e.todo \subseteq Ladder /\ e.got \in [TimeSlot -> Ladder \cup {0}]
           /\ e.got \in [TimeSlot -> Nat]
           /\ e.fits \subseteq TimeSlot /\ e.late \in BOOLEAN /\ e.out \in BOOLEAN
           /\ e.after \subseteq TimeSlot \X Rungs
BY QuantitiesAreNumbers DEF Progress

LEMMA SnapshotTypes ==
    ASSUME RadarTypeOK
    PROVE  /\ seen \in [TimeSlot -> Nat] /\ free \in [TimeSlot -> Nat]
           /\ \A p \in Poll : poll[p] \in Progress /\ ahead[p] \subseteq UnderWay \ {p}
           /\ \A p \in Poll : p \in UnderWay <=> poll[p].at # "idle"
<1>1. free \in [TimeSlot -> Nat]
  <2>1. free \in [TimeSlot -> Room] /\ Room \subseteq Nat
    BY RadarAssumption DEF RadarTypeOK
  <2>. QED
    BY <2>1
<1>. QED
  BY <1>1, QuantitiesAreNumbers DEF RadarTypeOK, UnderWay

\* The polls under way, and which of them began before which.
AheadOK ==
    /\ ahead \in [Poll -> SUBSET Poll]
    /\ \A p \in Poll : ahead[p] \subseteq UnderWay \ {p}

\* Polls under way have begun one after another; where they do not overlap there
\* is one at most.
Ordered ==
    /\ \A p, r \in UnderWay : p = r \/ Younger(p, r) \/ Younger(r, p)
    /\ ~Overlapping => \A p, r \in UnderWay : p = r

LEMMA OrderSame ==
    ASSUME AheadOK, Ordered, UnderWay' = UnderWay, UNCHANGED <<mode, ahead>>
    PROVE  AheadOK' /\ Ordered'
BY DEF AheadOK, Ordered, Younger, Overlapping

LEMMA OrderLeaves ==
    ASSUME AheadOK, Ordered, NEW p \in Poll, Leaves(p), UnderWay' = UnderWay \ {p}, mode' = mode
    PROVE  AheadOK' /\ Ordered'
<1>1. ahead' = [r \in Poll |-> IF r = p THEN {} ELSE ahead[r] \ {p}]
  BY DEF Leaves
<1>2. AheadOK'
  BY <1>1 DEF AheadOK
<1>3. \A q, r \in UnderWay' : q = r \/ q \in ahead'[r] \/ r \in ahead'[q]
  <2>1. UnderWay \subseteq Poll
    BY DEF UnderWay
  <2>. QED
    BY <1>1, <2>1 DEF Ordered, Younger
<1>4. ~Overlapping' => \A q, r \in UnderWay' : q = r
  BY DEF Ordered, Overlapping
<1>. QED
  BY <1>2, <1>3, <1>4 DEF Ordered, Younger

LEMMA OrderBegins ==
    ASSUME AheadOK, Ordered, NEW p \in Poll, p \notin UnderWay,
           ahead' = [ahead EXCEPT ![p] = UnderWay], UnderWay' = UnderWay \cup {p},
           mode' = mode, UnderWay = {} \/ Overlapping
    PROVE  AheadOK' /\ Ordered'
<1>1. UnderWay \subseteq Poll
  BY DEF UnderWay
<1>2. AheadOK'
  BY <1>1 DEF AheadOK
<1>3. \A q, r \in UnderWay' : q = r \/ q \in ahead'[r] \/ r \in ahead'[q]
  BY <1>1 DEF Ordered, Younger, AheadOK
<1>4. ~Overlapping' => \A q, r \in UnderWay' : q = r
  BY DEF Ordered, Overlapping
<1>. QED
  BY <1>2, <1>3, <1>4 DEF Ordered, Younger

\* One poll takes a step of its own and stays under way, or is over.
LEMMA OwnStep ==
    ASSUME RadarTypeOK, NEW p \in Poll, NEW e \in Progress, poll' = [poll EXCEPT ![p] = e]
    PROVE  /\ poll' \in [Poll -> Progress] /\ poll'[p] = e
           /\ \A r \in Poll : r # p => poll'[r] = poll[r]
           /\ e.at = "idle" => UnderWay' = UnderWay \ {p}
           /\ e.at # "idle" => UnderWay' = UnderWay \cup {p}
BY DEF RadarTypeOK, UnderWay

LEMMA EndsStep ==
    ASSUME RadarTypeOK, Ordered, NEW p \in Poll, Ends(p), mode' = mode
    PROVE  /\ poll' \in [Poll -> Progress] /\ AheadOK' /\ Ordered'
           /\ poll'[p] = Idle /\ \A r \in Poll : r # p => poll'[r] = poll[r]
<1>1. poll' = [poll EXCEPT ![p] = Idle] /\ Leaves(p)
  BY DEF Ends
<1>2. AheadOK
  BY DEF RadarTypeOK, AheadOK
<1>. QED
  BY <1>1, <1>2, OwnStep, OrderLeaves, RadarNumbers

LEMMA BeginStep ==
    ASSUME RadarTypeOK, Ordered, NEW p \in Poll, Begin(p)
    PROVE  /\ poll' \in [Poll -> Progress] /\ AheadOK' /\ Ordered'
           /\ \A r \in Poll : r # p => poll'[r] = poll[r]
           /\ poll'[p].got = Nowhere /\ poll'[p].todo = Ladder
           /\ poll'[p].at \in {"detect", "measure"} /\ (mode = "detect" => poll'[p].at = "detect")
           /\ poll'[p].fits = {}
<1> DEFINE e == [Idle EXCEPT !.at = IF Detecting THEN "detect" ELSE "measure", !.todo = Ladder]
<1>1. e \in Progress
  BY RadarNumbers DEF Idle, Progress
<1>2. /\ e.got = Nowhere /\ e.todo = Ladder /\ e.fits = {}
      /\ e.at \in {"detect", "measure"} /\ (mode = "detect" => e.at = "detect")
  BY DEF Idle, Detecting
<1>3. poll' = [poll EXCEPT ![p] = e] /\ ahead' = [ahead EXCEPT ![p] = UnderWay]
  BY DEF Begin
<1>4. AheadOK /\ p \notin UnderWay /\ mode' = mode /\ (UnderWay = {} \/ Overlapping)
  BY DEF RadarTypeOK, AheadOK, Begin, UnderWay
<1> HIDE DEF e
<1>5. UnderWay' = UnderWay \cup {p}
  BY <1>1, <1>2, <1>3, OwnStep
<1>. QED
  BY <1>1, <1>2, <1>3, <1>4, <1>5, OwnStep, OrderBegins

\* A step of a poll that stays under way.
LEMMA StaysStep ==
    ASSUME RadarTypeOK, Ordered, NEW p \in Poll, poll[p].at # "idle",
           NEW e \in Progress, e.at # "idle",
           poll' = [poll EXCEPT ![p] = e], UNCHANGED <<mode, ahead>>
    PROVE  /\ poll' \in [Poll -> Progress] /\ AheadOK' /\ Ordered'
           /\ poll'[p] = e /\ \A r \in Poll : r # p => poll'[r] = poll[r]
<1>1. AheadOK /\ p \in UnderWay
  BY DEF RadarTypeOK, AheadOK, UnderWay
<1>2. /\ poll' \in [Poll -> Progress] /\ poll'[p] = e
      /\ \A r \in Poll : r # p => poll'[r] = poll[r]
      /\ UnderWay' = UnderWay \cup {p}
  BY OwnStep
<1>3. UnderWay' = UnderWay
  BY <1>1, <1>2
<1>4. AheadOK' /\ Ordered'
  BY <1>1, <1>3, OrderSame
<1>. QED
  BY <1>2, <1>4

\* What has been compared: the older polls are late, the younger ones know.
LEMMA FollowStep ==
    ASSUME RadarTypeOK, NEW p \in Poll, NEW told \in SUBSET (TimeSlot \X Rungs), NEW mine,
           poll' = Follow(p, told, mine), NEW r \in Poll, r # p
    PROVE  /\ poll'[r] \in Progress
           /\ poll'[r].at = poll[r].at /\ poll'[r].todo = poll[r].todo
           /\ poll'[r].got = poll[r].got /\ poll'[r].fits = poll[r].fits
           /\ poll'[r].out = poll[r].out
           /\ Undecided(r) /\ Younger(p, r) /\ Overlapping => poll'[r].late
           /\ ~poll'[r].late => ~poll[r].late
           /\ Undecided(r) /\ Younger(r, p) => told \subseteq poll'[r].after
           /\ poll[r].after \subseteq poll'[r].after
<1>1. poll[r] \in Progress
  BY DEF RadarTypeOK
<1>2. Overlapping \in BOOLEAN /\ Younger(p, r) \in BOOLEAN
  BY DEF Overlapping, Younger
<1>3. CASE Undecided(r)
  <2> DEFINE late == poll[r].late \/ (Overlapping /\ Younger(p, r))
             after == poll[r].after \cup (IF Younger(r, p) THEN told ELSE {})
  <2>1. poll'[r] = [poll[r] EXCEPT !.late = late, !.after = after]
    BY <1>3 DEF Follow
  <2>2. late \in BOOLEAN /\ after \subseteq TimeSlot \X Rungs
    BY <1>1, <1>2, ProgressTypes
  <2>3. /\ Younger(p, r) /\ Overlapping => late
        /\ ~late => ~poll[r].late
        /\ Younger(r, p) => told \subseteq after
        /\ poll[r].after \subseteq after
    OBVIOUS
  <2> HIDE DEF late, after
  <2>4. poll'[r].late = late /\ poll'[r].after = after
    BY <1>1, <2>1 DEF Progress
  <2>. QED
    BY <1>1, <2>1, <2>2, <2>3, <2>4 DEF Progress
<1>4. CASE ~Undecided(r)
  <2>1. poll'[r] = poll[r]
    BY <1>4 DEF Follow
  <2>. QED
    BY <1>1, <1>4, <2>1
<1>. QED
  BY <1>3, <1>4

\* The polls there are, one of which has been applied.
LEMMA FollowPolls ==
    ASSUME RadarTypeOK, NEW p \in Poll, NEW told \in SUBSET (TimeSlot \X Rungs),
           NEW mine \in Progress, poll' = Follow(p, told, mine)
    PROVE  /\ poll' \in [Poll -> Progress] /\ poll'[p] = mine
           /\ mine.at = "idle" => UnderWay' = UnderWay \ {p}
           /\ mine.at # "idle" => UnderWay' = UnderWay \cup {p}
<1>1. poll' = [r \in Poll |-> poll'[r]] /\ poll'[p] = mine
  BY DEF Follow
<1>2. ASSUME NEW r \in Poll, r # p
      PROVE  poll'[r] \in Progress /\ poll'[r].at = poll[r].at
  BY <1>2, FollowStep
<1>3. poll' \in [Poll -> Progress]
  BY <1>1, <1>2
<1>. QED
  BY <1>1, <1>2, <1>3 DEF UnderWay

\* Everything but the polls.
RestOK ==
    /\ mode \in Modes /\ free \in [TimeSlot -> Room] /\ known \subseteq {"seen", "shown"}
    /\ seen \in [TimeSlot -> Ladder \cup {0}] /\ shown \subseteq TimeSlot
    /\ moves \in 0..MaxMoves /\ faults \in 0..MaxFaults
    /\ rising \subseteq TimeSlot \X Rungs /\ excused \subseteq TimeSlot \X Rungs

LEMMA RadarTypes == RadarTypeOK <=> RestOK /\ poll \in [Poll -> Progress] /\ AheadOK
BY DEF RadarTypeOK, RestOK, AheadOK

LEMMA RadarTypesNext ==
    ASSUME RestOK', poll' \in [Poll -> Progress], AheadOK' PROVE RadarTypeOK'
BY DEF RadarTypeOK, RestOK, AheadOK

LEMMA RestSame ==
    ASSUME RestOK, UNCHANGED <<mode, free, snapshots, moves, rising, excused>>,
           Fault \/ faults' = faults
    PROVE  RestOK'
<1>1. faults' \in 0..MaxFaults
  BY RadarAssumption DEF RestOK, Fault
<1>. QED
  BY <1>1 DEF RestOK, snapshots

------------------------------------------------------------------------------
(* What is announced has risen.                                            *)

\* The quantities of the snapshot events are told from, and what it holds.
Scope == IF mode = "detect" THEN {DetectQ} ELSE Ladder
Offers == TimeSlot \X Scope
InSnapshot(t) == IF mode = "detect" THEN t[1] \in shown ELSE t[2] <= seen[t[1]]

\* Poll p has asked for the quantity t[2].
Looked(p, t) ==
    IF mode = "detect" THEN poll[p].at = "compare"
    ELSE poll[p].at = "measure" /\ t[2] \notin poll[p].todo

\* Poll p may still be applied.
Waits(p) == Undecided(p) /\ ~poll[p].late

\* What the snapshot lacks and Uzum offers has risen since it was announced.
RiseKnown ==
    Snapshot \in known =>
        \A t \in Offers : ~InSnapshot(t) /\ free[t[1]] >= t[2] => t \in rising \cup excused

\* What a poll has read and the snapshot lacks has.
ReadsTrue ==
    Snapshot \in known =>
        \A r \in Poll : Waits(r) =>
            \A t \in Offers : Read(r, t) /\ ~InSnapshot(t) => t \in rising \cup excused

\* What a poll has not been listed although Uzum offers it came after it looked,
\* or was announced to it, or was hidden from it.
MissesTrue ==
    \A p \in Poll : Waits(p) =>
        \A t \in Offers : Looked(p, t) /\ ~Read(p, t) /\ free[t[1]] >= t[2] =>
            t \in rising \/ t \in poll[p].after \/ poll[p].out

Truth ==
    /\ RiseKnown /\ ReadsTrue /\ MissesTrue
    /\ "seen" \notin known => seen = Nowhere

LEMMA OfferTypes ==
    ASSUME RadarTypeOK, NEW t \in Offers
    PROVE  /\ t = <<t[1], t[2]>> /\ t[1] \in TimeSlot /\ t[2] \in Nat \ {0}
           /\ t \in TimeSlot \X Rungs
           /\ mode = "detect" => t[2] = DetectQ
           /\ mode # "detect" => t[2] \in Ladder
           /\ free[t[1]] \in Nat /\ seen[t[1]] \in Nat
           /\ \A p \in Poll : poll[p].got[t[1]] \in Nat
BY RadarNumbers, SnapshotTypes, ProgressTypes DEF Offers, Scope, Rungs

\* A step of one poll that changes neither a snapshot nor Uzum.
LEMMA TruthOfPoll ==
    ASSUME RadarTypeOK, Truth, UNCHANGED <<mode, free, snapshots, rising, excused>>,
           NEW p \in Poll, \A r \in Poll : r # p => poll'[r] = poll[r],
           \A t \in Offers : Waits(p)' =>
               /\ Read(p, t)' => free[t[1]] >= t[2] \/ (Waits(p) /\ Read(p, t))
               /\ Looked(p, t)' /\ ~Read(p, t)' /\ free[t[1]] >= t[2] =>
                      \/ poll'[p].out
                      \/ /\ Waits(p) /\ Looked(p, t) /\ ~Read(p, t)
                         /\ poll[p].after \subseteq poll'[p].after
                         /\ poll[p].out => poll'[p].out
    PROVE  Truth'
<1>1. /\ Offers' = Offers /\ Snapshot' = Snapshot
      /\ \A t : InSnapshot(t)' <=> InSnapshot(t)
      /\ UNCHANGED <<mode, free, known, seen, shown, rising, excused>>
  BY DEF Offers, Scope, Snapshot, InSnapshot, snapshots
<1>2. ASSUME NEW r \in Poll, r # p
      PROVE  /\ Waits(r)' <=> Waits(r)
             /\ \A t : (Read(r, t)' <=> Read(r, t)) /\ (Looked(r, t)' <=> Looked(r, t))
             /\ poll'[r] = poll[r]
  BY <1>2 DEF Waits, Undecided, Read, Looked
<1>3. RiseKnown'
  <2>1. RiseKnown
    BY DEF Truth
  <2>. QED
    BY <1>1, <2>1 DEF RiseKnown, InSnapshot
<1>4. ReadsTrue'
  <2> SUFFICES ASSUME Snapshot \in known, NEW r \in Poll, Waits(r)', NEW t \in Offers,
                      Read(r, t)', ~InSnapshot(t)
               PROVE  t \in rising \cup excused
    BY <1>1 DEF ReadsTrue, InSnapshot, Waits, Undecided, Read
  <2>. QED
    BY <1>2 DEF Truth, ReadsTrue, RiseKnown
<1>5. MissesTrue'
  <2> SUFFICES ASSUME NEW r \in Poll, Waits(r)', NEW t \in Offers, Looked(r, t)', ~Read(r, t)',
                      free[t[1]] >= t[2]
               PROVE  t \in rising \/ t \in poll'[r].after \/ poll'[r].out
    BY <1>1 DEF MissesTrue, Waits, Undecided, Read, Looked
  <2>1. CASE r # p
    BY <1>2, <2>1 DEF Truth, MissesTrue
  <2>2. CASE r = p
    BY <2>2 DEF Truth, MissesTrue
  <2>. QED
    BY <2>1, <2>2
<1>. QED
  BY <1>1, <1>3, <1>4, <1>5 DEF Truth

\* A poll that is over, is writing, or has not looked yet knows nothing.
LEMMA TruthWithout ==
    ASSUME RadarTypeOK, Truth, UNCHANGED <<mode, free, snapshots, rising, excused>>,
           NEW p \in Poll, \A r \in Poll : r # p => poll'[r] = poll[r],
           poll'[p].at \in {"idle", "write"} \/ (poll'[p].at = "measure" /\ mode = "detect")
    PROVE  Truth'
<1>1. ~Waits(p)'
  BY DEF Waits, Undecided
<1>. QED
  BY <1>1, TruthOfPoll

RadarInvariant == RadarTypeOK /\ Ordered /\ Truth

LEMMA EndsKeeps ==
    ASSUME RadarInvariant, NEW p \in Poll, Ends(p), Fault \/ faults' = faults,
           UNCHANGED <<mode, free, snapshots, moves, rising, excused>>
    PROVE  RadarInvariant'
<1>1. /\ poll' \in [Poll -> Progress] /\ AheadOK' /\ Ordered'
      /\ poll'[p] = Idle /\ \A r \in Poll : r # p => poll'[r] = poll[r]
  BY EndsStep DEF RadarInvariant
<1>2. RestOK'
  BY RadarTypes, RestSame DEF RadarInvariant
<1>3. Truth'
  BY <1>1, RadarNumbers, TruthWithout DEF RadarInvariant
<1>. QED
  BY <1>1, <1>2, <1>3, RadarTypesNext DEF RadarInvariant

LEMMA BeginKeeps ==
    ASSUME RadarInvariant, NEW p \in Poll, Begin(p)
    PROVE  RadarInvariant'
<1>1. /\ poll' \in [Poll -> Progress] /\ AheadOK' /\ Ordered'
      /\ \A r \in Poll : r # p => poll'[r] = poll[r]
      /\ poll'[p].got = Nowhere /\ poll'[p].todo = Ladder
      /\ poll'[p].at \in {"detect", "measure"} /\ (mode = "detect" => poll'[p].at = "detect")
      /\ poll'[p].fits = {}
  BY BeginStep DEF RadarInvariant
<1>2. UNCHANGED <<mode, free, snapshots, moves, faults, rising, excused>>
  BY DEF Begin
<1>3. RestOK'
  BY <1>2, RadarTypes, RestSame DEF RadarInvariant
<1>4. ASSUME NEW t \in Offers PROVE ~Read(p, t)' /\ ~Looked(p, t)'
  <2>1. /\ t[1] \in TimeSlot /\ t[2] \in Nat \ {0} /\ (mode # "detect" => t[2] \in Ladder)
    BY OfferTypes DEF RadarInvariant
  <2>2. poll'[p].got[t[1]] = 0
    BY <1>1, <2>1 DEF Nowhere
  <2>. QED
    BY <1>1, <1>2, <2>1, <2>2 DEF Read, Looked
<1>5. Truth'
  BY <1>1, <1>2, <1>4, TruthOfPoll DEF RadarInvariant
<1>. QED
  BY <1>1, <1>3, <1>5, RadarTypesNext DEF RadarInvariant

\* A step of a poll that stays under way and changes nothing else.
LEMMA StaysKeeps ==
    ASSUME RadarInvariant, NEW p \in Poll, poll[p].at # "idle",
           NEW e \in Progress, e.at # "idle", poll' = [poll EXCEPT ![p] = e],
           Fault \/ faults' = faults,
           UNCHANGED <<mode, ahead, free, snapshots, moves, rising, excused>>, Truth'
    PROVE  RadarInvariant'
<1>1. poll' \in [Poll -> Progress] /\ AheadOK' /\ Ordered'
  BY StaysStep DEF RadarInvariant
<1>2. RestOK'
  BY RadarTypes, RestSame DEF RadarInvariant
<1>. QED
  BY <1>1, <1>2, RadarTypesNext DEF RadarInvariant

LEMMA HiccupKeeps ==
    ASSUME RadarInvariant, NEW p \in Poll, Hiccup(p)
    PROVE  RadarInvariant'
<1> DEFINE e == [poll[p] EXCEPT !.out = TRUE]
<1>1. poll[p] \in Progress /\ poll[p].at # "idle"
  BY SnapshotTypes DEF RadarInvariant, Hiccup
<1>2. /\ e \in Progress /\ e.at = poll[p].at /\ e.got = poll[p].got /\ e.fits = poll[p].fits
      /\ e.todo = poll[p].todo /\ e.late = poll[p].late /\ e.after = poll[p].after /\ e.out
  BY <1>1 DEF Progress
<1>3. poll' = [poll EXCEPT ![p] = e]
  BY DEF Hiccup
<1> HIDE DEF e
<1>4. poll'[p] = e /\ \A r \in Poll : r # p => poll'[r] = poll[r]
  BY <1>2, <1>3, OwnStep DEF RadarInvariant
<1>5. UNCHANGED <<mode, ahead, free, snapshots, moves, rising, excused>> /\ Fault
  BY DEF Hiccup
<1>6. /\ Waits(p)' <=> Waits(p)
      /\ \A t : Read(p, t)' <=> Read(p, t)
  BY <1>2, <1>4, <1>5 DEF Waits, Undecided, Read
<1>7. Truth'
  BY <1>2, <1>4, <1>5, <1>6, TruthOfPoll DEF RadarInvariant
<1>. QED
  BY <1>1, <1>2, <1>3, <1>5, <1>7, StaysKeeps

LEMMA AnswerTypes ==
    ASSUME RadarTypeOK, NEW p \in Poll, NEW q \in Nat
    PROVE  /\ Answer(p, q) \subseteq TimeSlot
           /\ \A s \in TimeSlot : s \in Answer(p, q) => free[s] >= q
           /\ \A s \in TimeSlot : s \notin Answer(p, q) /\ free[s] >= q => poll[p].out
BY DEF Answer, Fits

LEMMA DetectKeeps ==
    ASSUME RadarInvariant, NEW p \in Poll, Detect(p)
    PROVE  RadarInvariant'
<1> DEFINE e == [poll[p] EXCEPT !.at = "compare", !.fits = Answer(p, DetectQ)]
<1>1. poll[p] \in Progress /\ poll[p].at = "detect"
  BY SnapshotTypes DEF RadarInvariant, Detect
<1>2. /\ Answer(p, DetectQ) \subseteq TimeSlot
      /\ \A s \in TimeSlot : s \in Answer(p, DetectQ) => free[s] >= DetectQ
      /\ \A s \in TimeSlot : s \notin Answer(p, DetectQ) /\ free[s] >= DetectQ => poll[p].out
  BY AnswerTypes, RadarAssumption DEF RadarInvariant
<1>3. /\ e \in Progress /\ e.at = "compare" /\ e.got = poll[p].got
      /\ e.fits = Answer(p, DetectQ) /\ e.late = poll[p].late /\ e.out = poll[p].out
  BY <1>1, <1>2 DEF Progress
<1>4. poll' = [poll EXCEPT ![p] = e]
  BY DEF Detect, RadarInvariant, RadarTypeOK
<1> HIDE DEF e
<1>5. poll'[p] = e /\ \A r \in Poll : r # p => poll'[r] = poll[r]
  BY <1>3, <1>4, OwnStep DEF RadarInvariant
<1>6. UNCHANGED <<mode, ahead, free, snapshots, moves, faults, rising, excused>>
  BY DEF Detect
<1>7. Waits(p)' <=> Waits(p)
  BY <1>1, <1>3, <1>5 DEF Waits, Undecided
<1>8. ASSUME NEW t \in Offers
      PROVE  /\ Read(p, t)' => free[t[1]] >= t[2] \/ Read(p, t)
             /\ Looked(p, t)' /\ ~Read(p, t)' /\ free[t[1]] >= t[2] => poll'[p].out
  <2>1. t[1] \in TimeSlot /\ (mode = "detect" => t[2] = DetectQ)
    BY OfferTypes DEF RadarInvariant
  <2>2. CASE mode = "detect"
    BY <1>2, <1>3, <1>5, <1>6, <2>1, <2>2 DEF Read
  <2>3. CASE mode # "detect"
    BY <1>3, <1>5, <1>6, <2>3 DEF Read, Looked
  <2>. QED
    BY <2>2, <2>3
<1>9. Truth'
  BY <1>5, <1>6, <1>7, <1>8, TruthOfPoll DEF RadarInvariant
<1>. QED
  BY <1>1, <1>3, <1>4, <1>6, <1>9, StaysKeeps

LEMMA ReadRungKeeps ==
    ASSUME RadarInvariant, NEW p \in Poll, ReadRung(p)
    PROVE  RadarInvariant'
<1>1. poll[p] \in Progress /\ poll[p].at = "measure"
  BY SnapshotTypes DEF RadarInvariant, ReadRung
<1>2. PICK q \in poll[p].todo :
          poll' = [poll EXCEPT
                     ![p].todo = @ \ {q},
                     ![p].got = [s \in TimeSlot |-> IF s \in Answer(p, q) /\ q > @[s]
                                                    THEN q ELSE @[s]]]
  BY DEF ReadRung
<1> DEFINE g == [s \in TimeSlot |-> IF s \in Answer(p, q) /\ q > poll[p].got[s]
                                    THEN q ELSE poll[p].got[s]]
           e == [poll[p] EXCEPT !.todo = @ \ {q}, !.got = g]
<1>3. /\ q \in Ladder /\ q \in Nat
      /\ poll[p].got \in [TimeSlot -> Ladder \cup {0}] /\ poll[p].got \in [TimeSlot -> Nat]
  BY <1>1, ProgressTypes, RadarNumbers
<1>4. /\ g \in [TimeSlot -> Ladder \cup {0}]
      /\ \A s \in TimeSlot : /\ g[s] >= poll[p].got[s]
                             /\ g[s] = poll[p].got[s] \/ (g[s] = q /\ s \in Answer(p, q))
                             /\ s \in Answer(p, q) => g[s] >= q
  BY <1>3
<1>5. poll' = [poll EXCEPT ![p] = e]
  BY <1>2 DEF RadarInvariant, RadarTypeOK
<1> HIDE DEF g
<1>6. /\ e \in Progress /\ e.at = "measure" /\ e.got = g /\ e.todo = poll[p].todo \ {q}
      /\ e.late = poll[p].late /\ e.out = poll[p].out /\ e.after = poll[p].after
  BY <1>1, <1>4 DEF Progress
<1> HIDE DEF e
<1>7. poll'[p] = e /\ \A r \in Poll : r # p => poll'[r] = poll[r]
  BY <1>5, <1>6, OwnStep DEF RadarInvariant
<1>8. UNCHANGED <<mode, ahead, free, snapshots, moves, faults, rising, excused>>
  BY DEF ReadRung
<1>9. CASE mode = "detect"
  <2>1. Truth'
    BY <1>6, <1>7, <1>8, <1>9, TruthWithout DEF RadarInvariant
  <2>. QED
    BY <1>1, <1>5, <1>6, <1>8, <2>1, StaysKeeps
<1>10. CASE mode # "detect"
  <2>1. Waits(p)' <=> Waits(p)
    BY <1>1, <1>6, <1>7, <1>8 DEF Waits, Undecided
  <2>2. ASSUME NEW t \in Offers
        PROVE  /\ Read(p, t)' => free[t[1]] >= t[2] \/ Read(p, t)
               /\ Looked(p, t)' /\ ~Read(p, t)' /\ free[t[1]] >= t[2] =>
                     poll'[p].out \/ (Looked(p, t) /\ ~Read(p, t))
    <3>1. /\ t[1] \in TimeSlot /\ t[2] \in Nat /\ free[t[1]] \in Nat
          /\ poll[p].got[t[1]] \in Nat /\ g[t[1]] \in Nat
      BY <1>3, <1>4, OfferTypes, RadarNumbers DEF RadarInvariant
    <3>2. /\ t[1] \in Answer(p, q) => free[t[1]] >= q
          /\ t[1] \notin Answer(p, q) /\ free[t[1]] >= q => poll[p].out
      BY <1>3, <3>1, AnswerTypes DEF RadarInvariant
    <3>3. /\ Read(p, t)' <=> t[2] <= g[t[1]]
          /\ Read(p, t) <=> t[2] <= poll[p].got[t[1]]
          /\ Looked(p, t)' <=> t[2] \notin poll[p].todo \ {q}
          /\ Looked(p, t) <=> t[2] \notin poll[p].todo
      BY <1>1, <1>6, <1>7, <1>8, <1>10 DEF Read, Looked
    <3>4. Read(p, t)' => free[t[1]] >= t[2] \/ Read(p, t)
      BY <1>3, <1>4, <3>1, <3>2, <3>3
    <3>5. ASSUME Looked(p, t)', ~Read(p, t)', free[t[1]] >= t[2]
          PROVE  poll'[p].out \/ (Looked(p, t) /\ ~Read(p, t))
      <4>1. ~Read(p, t)
        BY <1>4, <3>1, <3>3, <3>5
      <4>2. CASE t[2] = q
        BY <1>4, <1>6, <1>7, <3>1, <3>2, <3>3, <3>5, <4>2
      <4>3. CASE t[2] # q
        BY <3>3, <3>5, <4>1, <4>3
      <4>. QED
        BY <4>2, <4>3
    <3>. QED
      BY <3>4, <3>5
  <2>3. Truth'
    BY <1>6, <1>7, <1>8, <2>1, <2>2, TruthOfPoll DEF RadarInvariant
  <2>. QED
    BY <1>1, <1>5, <1>6, <1>8, <2>3, StaysKeeps
<1>. QED
  BY <1>9, <1>10

LEMMA RungFailsKeeps ==
    ASSUME RadarInvariant, NEW p \in Poll, RungFails(p)
    PROVE  RadarInvariant'
<1>1. poll[p] \in Progress /\ poll[p].at = "measure" /\ mode = "detect"
  BY SnapshotTypes DEF RadarInvariant, RungFails
<1>2. PICK q \in poll[p].todo : poll' = [poll EXCEPT ![p].todo = @ \ {q}]
  BY DEF RungFails
<1> DEFINE e == [poll[p] EXCEPT !.todo = @ \ {q}]
<1>3. e \in Progress /\ e.at = "measure"
  BY <1>1 DEF Progress
<1>4. poll' = [poll EXCEPT ![p] = e]
  BY <1>2
<1> HIDE DEF e
<1>5. UNCHANGED <<mode, ahead, free, snapshots, moves, rising, excused>> /\ Fault
  BY DEF RungFails
<1>6. poll'[p] = e /\ \A r \in Poll : r # p => poll'[r] = poll[r]
  BY <1>3, <1>4, OwnStep DEF RadarInvariant
<1>7. Truth'
  BY <1>1, <1>3, <1>5, <1>6, TruthWithout DEF RadarInvariant
<1>. QED
  BY <1>1, <1>3, <1>4, <1>5, <1>7, StaysKeeps

LEMMA SizedKeeps ==
    ASSUME RadarInvariant, NEW p \in Poll, Sized(p)
    PROVE  RadarInvariant'
<1> DEFINE e == [Idle EXCEPT !.at = "write"]
<1>1. poll[p].at = "measure" /\ poll' = [poll EXCEPT ![p] = e]
  BY DEF Sized
<1>2. e \in Progress /\ e.at = "write"
  BY RadarNumbers DEF Progress
<1> HIDE DEF e
<1>3. UNCHANGED <<mode, ahead, free, snapshots, moves, faults, rising, excused>>
  BY DEF Sized
<1>4. poll'[p] = e /\ \A r \in Poll : r # p => poll'[r] = poll[r]
  BY <1>1, <1>2, OwnStep DEF RadarInvariant
<1>5. Truth'
  BY <1>2, <1>3, <1>4, TruthWithout DEF RadarInvariant
<1>. QED
  BY <1>1, <1>2, <1>3, <1>5, StaysKeeps

LEMMA ExcusedTypes ==
    ASSUME RadarTypeOK, NEW p \in Poll
    PROVE  Excused(p) \subseteq TimeSlot \X Rungs
<1>1. Ladder \subseteq Rungs /\ {DetectQ} \subseteq Rungs
  BY DEF Rungs
<1>2. shown \subseteq TimeSlot
  BY DEF RadarTypeOK
<1>3. ((IF Snapshot \notin known THEN TimeSlot ELSE shown) \ poll[p].fits) \X {DetectQ}
          \subseteq TimeSlot \X Rungs
  BY <1>1, <1>2
<1>4. {t \in TimeSlot \X Ladder :
          (Snapshot \notin known \/ t[2] <= seen[t[1]]) /\ poll[p].got[t[1]] < t[2]}
          \subseteq TimeSlot \X Rungs
  BY <1>1
<1>. QED
  BY <1>3, <1>4 DEF Excused

\* The polls that may still be applied once p has been are younger than p.
LEMMA Followers ==
    ASSUME RadarInvariant, NEW p \in Poll, p \in UnderWay, mode' = mode,
           NEW told \in SUBSET (TimeSlot \X Rungs), NEW mine \in Progress,
           poll' = Follow(p, told, mine),
           NEW r \in Poll, r # p, Waits(r)'
    PROVE  /\ Waits(r) /\ Younger(r, p)
           /\ \A t : (Read(r, t)' <=> Read(r, t)) /\ (Looked(r, t)' <=> Looked(r, t))
           /\ told \subseteq poll'[r].after /\ poll[r].after \subseteq poll'[r].after
           /\ poll'[r].out = poll[r].out
<1>1. /\ poll'[r].at = poll[r].at /\ poll'[r].todo = poll[r].todo
      /\ poll'[r].got = poll[r].got /\ poll'[r].fits = poll[r].fits
      /\ poll'[r].out = poll[r].out
      /\ Undecided(r) /\ Younger(p, r) /\ Overlapping => poll'[r].late
      /\ ~poll'[r].late => ~poll[r].late
      /\ Undecided(r) /\ Younger(r, p) => told \subseteq poll'[r].after
      /\ poll[r].after \subseteq poll'[r].after
  BY FollowStep DEF RadarInvariant
<1>2. Waits(r)
  BY <1>1 DEF Waits, Undecided
<1>3. r \in UnderWay
  BY <1>2 DEF Waits, Undecided, UnderWay
<1>4. Overlapping /\ (Younger(p, r) \/ Younger(r, p))
  BY <1>3 DEF RadarInvariant, Ordered
<1>5. ~Younger(p, r)
  BY <1>1, <1>2, <1>4 DEF Waits
<1>6. \A t : (Read(r, t)' <=> Read(r, t)) /\ (Looked(r, t)' <=> Looked(r, t))
  BY <1>1 DEF Read, Looked
<1>. QED
  BY <1>1, <1>2, <1>4, <1>5, <1>6 DEF Waits

\* The snapshot becomes what poll p has read.
LEMMA TruthOfSnapshot ==
    ASSUME RadarInvariant, NEW p \in Poll, Waits(p), UNCHANGED <<mode, free>>,
           NEW told \in SUBSET (TimeSlot \X Rungs), NEW mine \in Progress,
           poll' = Follow(p, told, mine), ~Waits(p)',
           \A t \in Offers : Looked(p, t) /\ (InSnapshot(t)' <=> Read(p, t)),
           \A t \in Offers : t \in told => Read(p, t),
           \A t \in Offers :
              /\ ~Read(p, t) /\ (Snapshot \notin known \/ InSnapshot(t))
              /\ t \in poll[p].after \/ poll[p].out
                 \/ \E r \in Poll : Younger(r, p) /\ Read(r, t)
              => t \in Excused(p),
           rising' = rising \ told, excused' = (excused \ told) \cup Excused(p)
    PROVE  RiseKnown' /\ ReadsTrue' /\ MissesTrue'
<1>1. Offers' = Offers /\ Snapshot' = Snapshot
  BY DEF Offers, Scope, Snapshot
<1>2. p \in UnderWay
  BY DEF Waits, Undecided, UnderWay
<1>3. ASSUME NEW t \in Offers, ~Read(p, t), t \in rising \cup excused
      PROVE  t \in rising' \cup excused'
  BY <1>3
<1>4. ASSUME NEW t \in Offers, ~InSnapshot(t)', free[t[1]] >= t[2]
      PROVE  t \in rising' \cup excused'
  <2>1. ~Read(p, t)
    BY <1>4
  <2>2. CASE Snapshot \in known /\ ~InSnapshot(t)
    BY <1>3, <1>4, <2>1, <2>2 DEF RadarInvariant, Truth, RiseKnown
  <2>3. CASE Snapshot \notin known \/ InSnapshot(t)
    <3>1. t \in rising \/ t \in poll[p].after \/ poll[p].out
      BY <1>4, <2>1 DEF RadarInvariant, Truth, MissesTrue
    <3>. QED
      BY <1>3, <2>1, <2>3, <3>1
  <2>. QED
    BY <2>2, <2>3
<1>5. RiseKnown'
  BY <1>1, <1>4 DEF RiseKnown, InSnapshot
<1>6. ASSUME NEW r \in Poll, Waits(r)'
      PROVE  /\ Waits(r) /\ Younger(r, p)
             /\ \A t : (Read(r, t)' <=> Read(r, t)) /\ (Looked(r, t)' <=> Looked(r, t))
             /\ told \subseteq poll'[r].after /\ poll[r].after \subseteq poll'[r].after
             /\ poll'[r].out = poll[r].out
  <2>1. r # p
    BY <1>6
  <2>. QED
    BY <1>2, <1>6, <2>1, Followers
<1>7. ASSUME NEW r \in Poll, Waits(r)', NEW t \in Offers, Read(r, t)', ~InSnapshot(t)'
      PROVE  t \in rising' \cup excused'
  <2>1. ~Read(p, t) /\ Waits(r) /\ Younger(r, p) /\ Read(r, t)
    BY <1>6, <1>7
  <2>2. CASE Snapshot \in known /\ ~InSnapshot(t)
    BY <1>3, <2>1, <2>2 DEF RadarInvariant, Truth, ReadsTrue
  <2>3. CASE Snapshot \notin known \/ InSnapshot(t)
    BY <2>1, <2>3
  <2>. QED
    BY <2>2, <2>3
<1>8. ReadsTrue'
  BY <1>1, <1>7 DEF ReadsTrue, InSnapshot, Waits, Undecided, Read
<1>9. ASSUME NEW r \in Poll, Waits(r)', NEW t \in Offers, Looked(r, t)', ~Read(r, t)',
             free[t[1]] >= t[2]
      PROVE  t \in rising' \/ t \in poll'[r].after \/ poll'[r].out
  <2>1. /\ Waits(r) /\ Looked(r, t) /\ ~Read(r, t)
        /\ told \subseteq poll'[r].after /\ poll[r].after \subseteq poll'[r].after
        /\ poll'[r].out = poll[r].out
    BY <1>6, <1>9
  <2>2. t \in rising \/ t \in poll[r].after \/ poll[r].out
    BY <1>9, <2>1 DEF RadarInvariant, Truth, MissesTrue
  <2>. QED
    BY <2>1, <2>2
<1>10. MissesTrue'
  BY <1>1, <1>9 DEF MissesTrue, Waits, Undecided, Read, Looked
<1>. QED
  BY <1>5, <1>8, <1>10

\* The snapshot events are told from stays, and p follows on.
LEMMA TruthOfFollow ==
    ASSUME RadarInvariant, NEW p \in Poll, p \in UnderWay, UNCHANGED <<mode, free, seen>>,
           NEW mine \in Progress, poll' = Follow(p, {}, mine),
           \A t \in Offers : Waits(p)' => ~Read(p, t)' /\ ~Looked(p, t)',
           mode = "detect" => shown' = shown, Snapshot \in known' => Snapshot \in known,
           rising \subseteq rising', excused \subseteq excused'
    PROVE  RiseKnown' /\ ReadsTrue' /\ MissesTrue'
<1>1. Offers' = Offers /\ Snapshot' = Snapshot /\ \A t : InSnapshot(t)' <=> InSnapshot(t)
  BY DEF Offers, Scope, Snapshot, InSnapshot
<1>2. RiseKnown'
  <2>1. RiseKnown
    BY DEF RadarInvariant, Truth
  <2>. QED
    BY <1>1, <2>1 DEF RiseKnown, InSnapshot
<1>3. ASSUME NEW r \in Poll, r # p, Waits(r)'
      PROVE  /\ Waits(r)
             /\ \A t : (Read(r, t)' <=> Read(r, t)) /\ (Looked(r, t)' <=> Looked(r, t))
             /\ poll[r].after \subseteq poll'[r].after /\ poll'[r].out = poll[r].out
  <2>1. {} \in SUBSET (TimeSlot \X Rungs)
    OBVIOUS
  <2>. QED
    BY <1>3, <2>1, Followers
<1>4. ASSUME NEW r \in Poll, Waits(r)', NEW t \in Offers, Read(r, t)', ~InSnapshot(t),
             Snapshot \in known
      PROVE  t \in rising' \cup excused'
  BY <1>3, <1>4 DEF RadarInvariant, Truth, ReadsTrue
<1>5. ReadsTrue'
  BY <1>1, <1>4 DEF ReadsTrue, InSnapshot, Waits, Undecided, Read
<1>6. ASSUME NEW r \in Poll, Waits(r)', NEW t \in Offers, Looked(r, t)', ~Read(r, t)',
             free[t[1]] >= t[2]
      PROVE  t \in rising' \/ t \in poll'[r].after \/ poll'[r].out
  BY <1>3, <1>6 DEF RadarInvariant, Truth, MissesTrue
<1>7. MissesTrue'
  BY <1>1, <1>6 DEF MissesTrue, Waits, Undecided, Read, Looked
<1>. QED
  BY <1>2, <1>5, <1>7

\* The poll that is applied.
LEMMA AppliedStep ==
    ASSUME RadarInvariant, NEW p \in Poll, poll[p].at # "idle",
           NEW at \in {"idle", "measure", "write"},
           NEW told \in SUBSET (TimeSlot \X Rungs), Applied(p, at, told),
           UNCHANGED <<mode, free, moves, faults>>, known' \subseteq {"seen", "shown"},
           seen' \in [TimeSlot -> Ladder \cup {0}], shown' \subseteq TimeSlot
    PROVE  /\ RadarTypeOK' /\ Ordered'
           /\ \E mine \in Progress :
                 /\ poll' = Follow(p, told, mine) /\ poll'[p] = mine
                 /\ mine.at = at /\ mine.got = Nowhere /\ (at = "measure" => mine.todo = Ladder)
<1> DEFINE mine == [Idle EXCEPT !.at = at, !.out = poll[p].out /\ at = "measure",
                                !.todo = IF at = "measure" THEN Ladder ELSE {}]
<1>1. poll[p].out \in BOOLEAN
  BY ProgressTypes, SnapshotTypes DEF RadarInvariant
<1>2. /\ mine \in Progress /\ mine.at = at /\ mine.got = Nowhere
      /\ at = "measure" => mine.todo = Ladder
  BY <1>1, RadarNumbers DEF Idle, Progress
<1>3. poll' = Follow(p, told, mine)
  BY DEF Applied
<1>4. rising' = rising \ told /\ excused' = (excused \ told) \cup Excused(p)
  BY DEF Applied
<1> HIDE DEF mine
<1>5. /\ poll' \in [Poll -> Progress] /\ poll'[p] = mine
      /\ mine.at = "idle" => UnderWay' = UnderWay \ {p}
      /\ mine.at # "idle" => UnderWay' = UnderWay \cup {p}
  <2>1. RadarTypeOK /\ mine \in Progress
    BY <1>2 DEF RadarInvariant
  <2>. QED
    BY <1>3, <2>1, FollowPolls
<1>6. RestOK'
  BY <1>4, RadarTypes, ExcusedTypes DEF RadarInvariant, RestOK
<1>7. AheadOK /\ Ordered /\ p \in UnderWay
  BY RadarTypes DEF RadarInvariant, UnderWay
<1>8. AheadOK' /\ Ordered'
  <2>1. CASE at = "idle"
    <3>1. Leaves(p) /\ UnderWay' = UnderWay \ {p}
      BY <1>2, <1>5, <2>1 DEF Applied
    <3>. QED
      BY <1>7, <3>1, OrderLeaves
  <2>2. CASE at # "idle"
    <3>1. ahead' = ahead /\ UnderWay' = UnderWay
      BY <1>2, <1>5, <1>7, <2>2 DEF Applied
    <3>. QED
      BY <1>7, <3>1, OrderSame
  <2>. QED
    BY <2>1, <2>2
<1>9. RadarTypeOK'
  BY <1>5, <1>6, <1>8, RadarTypesNext
<1>. QED
  BY <1>2, <1>3, <1>5, <1>8, <1>9

LEMMA CompareKeeps ==
    ASSUME RadarInvariant, NEW p \in Poll, Compare(p)
    PROVE  RadarInvariant'
<1> DEFINE new == IF "shown" \in known THEN poll[p].fits \ shown ELSE {}
           told == IF mode = "detect" THEN new \X {DetectQ} ELSE {}
           at == IF new = {} THEN "idle" ELSE "measure"
<1>1. /\ poll[p].at = "compare" /\ ~poll[p].late
      /\ Applied(p, at, told) /\ shown' = poll[p].fits /\ known' = known \cup {"shown"}
      /\ UNCHANGED <<mode, free, seen, moves, faults>>
  BY DEF Compare, InOrder
<1>2. poll[p].fits \subseteq TimeSlot /\ at \in {"idle", "measure", "write"} /\ at # "write"
  BY ProgressTypes, SnapshotTypes DEF RadarInvariant
<1>3. told \in SUBSET (TimeSlot \X Rungs)
  BY <1>2, RadarNumbers
<1>4. /\ \A t \in Offers : t \in told => t[1] \in poll[p].fits
      /\ mode # "detect" => told = {}
  OBVIOUS
<1> HIDE DEF at, told, new
<1>5. known' \subseteq {"seen", "shown"} /\ seen' \in [TimeSlot -> Ladder \cup {0}]
  BY <1>1 DEF RadarInvariant, RadarTypeOK
<1>6. /\ RadarTypeOK' /\ Ordered'
      /\ \E mine \in Progress :
            /\ poll' = Follow(p, told, mine) /\ poll'[p] = mine
            /\ mine.at = at /\ mine.got = Nowhere /\ (at = "measure" => mine.todo = Ladder)
  <2>1. /\ poll[p].at # "idle" /\ UNCHANGED <<mode, free, moves, faults>>
        /\ shown' \subseteq TimeSlot
    BY <1>1, <1>2
  <2>2. Applied(p, at, told)
    BY <1>1
  <2>. QED
    BY <1>2, <1>3, <1>5, <2>1, <2>2, AppliedStep
<1>7. PICK mine \in Progress :
            /\ poll' = Follow(p, told, mine) /\ poll'[p] = mine
            /\ mine.at = at /\ mine.got = Nowhere /\ (at = "measure" => mine.todo = Ladder)
  BY <1>6
<1>8. rising' = rising \ told /\ excused' = (excused \ told) \cup Excused(p)
  BY <1>1 DEF Applied
<1>9. Waits(p) /\ p \in UnderWay
  BY <1>1 DEF Waits, Undecided, UnderWay
<1>10. CASE mode = "detect"
  <2>1. ~Waits(p)'
    BY <1>1, <1>2, <1>7, <1>10 DEF Waits, Undecided
  <2>2. ASSUME NEW t \in Offers
        PROVE  /\ Looked(p, t) /\ (InSnapshot(t)' <=> Read(p, t))
               /\ t \in told => Read(p, t)
    BY <1>1, <1>4, <1>10 DEF Looked, InSnapshot, Read
  <2>3. ASSUME NEW t \in Offers, ~Read(p, t), Snapshot \notin known \/ InSnapshot(t),
               t \in poll[p].after \/ poll[p].out
                  \/ \E r \in Poll : Younger(r, p) /\ Read(r, t)
        PROVE  t \in Excused(p)
    <3>1. t = <<t[1], t[2]>> /\ t[1] \in TimeSlot /\ t[2] = DetectQ
      BY <1>10, OfferTypes DEF RadarInvariant
    <3>2. t[1] \notin poll[p].fits /\ (Snapshot \notin known \/ t[1] \in shown)
      BY <1>10, <2>3 DEF Read, InSnapshot
    <3>3. t \in ((IF Snapshot \notin known THEN TimeSlot ELSE shown) \ poll[p].fits) \X {DetectQ}
      BY <3>1, <3>2
    <3>. QED
      BY <1>10, <2>3, <3>3 DEF Excused
  <2>4. RiseKnown' /\ ReadsTrue' /\ MissesTrue'
    BY <1>1, <1>3, <1>7, <1>8, <1>9, <2>1, <2>2, <2>3, TruthOfSnapshot
  <2>. QED
    BY <1>1, <1>6, <2>4 DEF RadarInvariant, Truth
<1>11. CASE mode # "detect"
  <2>1. told = {} /\ rising \subseteq rising' /\ excused \subseteq excused'
    BY <1>4, <1>8, <1>11
  <2>2. Snapshot \in known' => Snapshot \in known
    BY <1>1, <1>11 DEF Snapshot
  <2>3. ASSUME NEW t \in Offers, Waits(p)' PROVE ~Read(p, t)' /\ ~Looked(p, t)'
    <3>1. t[1] \in TimeSlot /\ t[2] \in Nat \ {0} /\ t[2] \in Ladder
      BY <1>11, OfferTypes DEF RadarInvariant
    <3>2. poll'[p].got[t[1]] = 0
      BY <1>7, <3>1 DEF Nowhere
    <3>3. at = "measure" => poll'[p].todo = Ladder
      BY <1>7
    <3>. QED
      BY <1>1, <1>2, <1>7, <1>11, <3>1, <3>2, <3>3 DEF Read, Looked
  <2>4. RiseKnown' /\ ReadsTrue' /\ MissesTrue'
    BY <1>1, <1>7, <1>9, <1>11, <2>1, <2>2, <2>3, TruthOfFollow
  <2>. QED
    BY <1>1, <1>6, <2>4 DEF RadarInvariant, Truth
<1>. QED
  BY <1>10, <1>11

LEMMA ListedCounts ==
    ASSUME NEW snap
    PROVE  Cardinality(Listed(snap)) \in Nat
BY RadarAssumption, FS_Subset, FS_CardinalityType DEF Listed

LEMMA ApplyKeeps ==
    ASSUME RadarInvariant, NEW p \in Poll, Apply(p)
    PROVE  RadarInvariant'
<1> DEFINE new == IF "seen" \in known THEN Grown(seen, poll[p].got) ELSE {}
           told == {t \in new \X Ladder : seen[t[1]] < t[2] /\ t[2] <= poll[p].got[t[1]]}
           at == IF new = {} THEN "idle" ELSE "write"
<1>1. /\ poll[p].at = "measure" /\ poll[p].todo = {} /\ mode # "detect" /\ ~poll[p].late
      /\ ~Suspicious(p) /\ Applied(p, at, told)
      /\ seen' = poll[p].got /\ known' = known \cup {"seen"}
      /\ UNCHANGED <<mode, free, shown, moves, faults>>
  BY DEF Apply, InOrder, Measured
<1>2. poll[p].got \in [TimeSlot -> Ladder \cup {0}] /\ at \in {"idle", "measure", "write"}
  BY ProgressTypes, SnapshotTypes DEF RadarInvariant
<1>3. told \in SUBSET (TimeSlot \X Rungs)
  BY DEF Grown, Rungs
<1>4. \A t \in told : t[2] <= poll[p].got[t[1]]
  OBVIOUS
<1>5. at # "measure"
  OBVIOUS
<1> HIDE DEF at, told, new
<1>6. known' \subseteq {"seen", "shown"} /\ shown' \subseteq TimeSlot
  BY <1>1 DEF RadarInvariant, RadarTypeOK
<1>7. /\ RadarTypeOK' /\ Ordered'
      /\ \E mine \in Progress :
            /\ poll' = Follow(p, told, mine) /\ poll'[p] = mine
            /\ mine.at = at /\ mine.got = Nowhere /\ (at = "measure" => mine.todo = Ladder)
  <2>1. /\ poll[p].at # "idle" /\ UNCHANGED <<mode, free, moves, faults>>
        /\ seen' \in [TimeSlot -> Ladder \cup {0}]
    BY <1>1, <1>2
  <2>2. Applied(p, at, told)
    BY <1>1
  <2>. QED
    BY <1>2, <1>3, <1>6, <2>1, <2>2, AppliedStep
<1>8. PICK mine \in Progress : poll' = Follow(p, told, mine) /\ poll'[p] = mine /\ mine.at = at
  BY <1>7
<1>9. rising' = rising \ told /\ excused' = (excused \ told) \cup Excused(p)
  BY <1>1 DEF Applied
<1>10. Waits(p) /\ ~Waits(p)'
  BY <1>1, <1>2, <1>5, <1>8 DEF Waits, Undecided
<1>11. ASSUME NEW t \in Offers
       PROVE  /\ Looked(p, t) /\ (InSnapshot(t)' <=> Read(p, t))
              /\ t \in told => Read(p, t)
  BY <1>1, <1>4 DEF Looked, InSnapshot, Read
<1>12. ASSUME NEW t \in Offers, ~Read(p, t), Snapshot \notin known \/ InSnapshot(t),
              t \in poll[p].after \/ poll[p].out
                 \/ \E r \in Poll : Younger(r, p) /\ Read(r, t)
       PROVE  t \in Excused(p)
  <2> DEFINE before == Cardinality(Listed(seen))
             left   == Cardinality(Listed(poll[p].got))
  <2>1. t = <<t[1], t[2]>> /\ t[1] \in TimeSlot /\ t[2] \in Ladder /\ t[2] \in Nat
        /\ poll[p].got[t[1]] \in Nat
    BY <1>1, OfferTypes DEF RadarInvariant
  <2>2. poll[p].got[t[1]] < t[2] /\ (Snapshot \notin known \/ t[2] <= seen[t[1]])
    BY <1>1, <1>12, <2>1 DEF Read, InSnapshot
  <2>3. t \in {x \in TimeSlot \X Ladder :
                 (Snapshot \notin known \/ x[2] <= seen[x[1]]) /\ poll[p].got[x[1]] < x[2]}
    BY <2>1, <2>2
  <2>4. before \in Nat /\ left \in Nat /\ Enough \in Nat
    BY ListedCounts, RadarAssumption
  <2>5. before < Enough \/ 10 * left >= 6 * before
    <3>1. CASE "seen" \in known
      BY <1>1, <2>4, <3>1 DEF Suspicious, Unreliable
    <3>2. CASE "seen" \notin known
      <4>1. seen = Nowhere
        BY <3>2 DEF RadarInvariant, Truth
      <4>2. Listed(seen) = {}
        BY <4>1 DEF Listed, Nowhere
      <4>3. before = 0
        BY <4>2, FS_EmptySet
      <4>. QED
        BY <2>4, <4>3
    <3>. QED
      BY <3>1, <3>2
  <2>. QED
    BY <1>1, <1>12, <2>3, <2>5 DEF Excused
<1>13. RiseKnown' /\ ReadsTrue' /\ MissesTrue'
  <2>1. \A t \in Offers : t \in told => Read(p, t)
    BY <1>11
  <2>. QED
    BY <1>1, <1>3, <1>8, <1>9, <1>10, <1>11, <1>12, <2>1, TruthOfSnapshot
<1>. QED
  BY <1>1, <1>7, <1>13 DEF RadarInvariant, Truth

LEMMA SuspectKeeps ==
    ASSUME RadarInvariant, NEW p \in Poll, Suspect(p)
    PROVE  RadarInvariant'
<1>1. /\ poll[p].at = "measure" /\ poll' = Follow(p, {}, Idle) /\ Leaves(p)
      /\ UNCHANGED <<mode, free, snapshots, moves, faults, rising, excused>>
  BY DEF Suspect, Measured
<1>2. {} \in SUBSET (TimeSlot \X Rungs) /\ Idle \in Progress /\ Idle.at = "idle"
  BY RadarNumbers
<1>3. poll' \in [Poll -> Progress] /\ poll'[p] = Idle /\ UnderWay' = UnderWay \ {p}
  <2>1. RadarTypeOK /\ poll' = Follow(p, {}, Idle)
    BY <1>1 DEF RadarInvariant
  <2>. QED
    BY <1>2, <2>1, FollowPolls
<1>4. AheadOK /\ Ordered /\ p \in UnderWay
  BY <1>1, RadarTypes DEF RadarInvariant, UnderWay
<1>5. AheadOK' /\ Ordered'
  BY <1>1, <1>3, <1>4, OrderLeaves
<1>6. RestOK'
  BY <1>1, RadarTypes, RestSame DEF RadarInvariant
<1>7. ~Waits(p)'
  BY <1>2, <1>3 DEF Waits, Undecided
<1>8. RiseKnown' /\ ReadsTrue' /\ MissesTrue'
  <2>1. UNCHANGED <<mode, free, seen, known, shown, rising, excused>>
    BY <1>1 DEF snapshots
  <2>2. Snapshot \in known' => Snapshot \in known
    BY <2>1
  <2>. QED
    BY <1>1, <1>2, <1>4, <1>7, <2>1, <2>2, TruthOfFollow
<1>9. Truth'
  BY <1>1, <1>8 DEF RadarInvariant, Truth, snapshots
<1>. QED
  BY <1>3, <1>5, <1>6, <1>9, RadarTypesNext DEF RadarInvariant

LEMMA MoveKeeps ==
    ASSUME RadarInvariant, NEW s \in TimeSlot, Move(s)
    PROVE  RadarInvariant'
<1>1. PICK v \in Room : /\ free' = [free EXCEPT ![s] = v]
                        /\ rising' = rising \cup ({s} \X {q \in Rungs : free[s] < q /\ q <= v})
  BY DEF Move
<1>2. /\ UNCHANGED <<mode, snapshots, poll, ahead, faults, excused>>
      /\ moves < MaxMoves /\ moves' = moves + 1
  BY DEF Move
<1>3. UNCHANGED <<mode, known, seen, shown, poll, ahead, faults, excused>>
  BY <1>2 DEF snapshots
<1>4. RadarTypeOK'
  <2>1. moves' \in 0..MaxMoves
    BY <1>2, RadarAssumption DEF RadarInvariant, RadarTypeOK
  <2>2. free' \in [TimeSlot -> Room] /\ rising' \subseteq TimeSlot \X Rungs
    BY <1>1 DEF RadarInvariant, RadarTypeOK
  <2>3. UnderWay' = UnderWay
    BY <1>3 DEF UnderWay
  <2>. QED
    BY <1>3, <2>1, <2>2, <2>3 DEF RadarInvariant, RadarTypeOK
<1>5. Ordered'
  BY <1>3 DEF RadarInvariant, Ordered, UnderWay, Younger, Overlapping
<1>6. ASSUME NEW t \in Offers, free'[t[1]] >= t[2] PROVE free[t[1]] >= t[2] \/ t \in rising'
  <2>1. /\ t = <<t[1], t[2]>> /\ t[1] \in TimeSlot /\ t[2] \in Nat /\ t[2] \in Rungs
        /\ free[t[1]] \in Nat
    BY OfferTypes, RadarNumbers DEF RadarInvariant, Rungs
  <2>2. CASE t[1] = s
    <3>1. free'[t[1]] = v
      BY <1>1, <2>1, <2>2 DEF RadarInvariant, RadarTypeOK
    <3>2. free[t[1]] < t[2] => t \in {s} \X {q \in Rungs : free[s] < q /\ q <= v}
      <4>1. v \in Nat
        BY RadarAssumption
      <4>. QED
        BY <1>6, <2>1, <2>2, <3>1, <4>1
    <3>. QED
      BY <1>1, <2>1, <3>2
  <2>3. CASE t[1] # s
    BY <1>1, <1>6, <2>1, <2>3 DEF RadarInvariant, RadarTypeOK
  <2>. QED
    BY <2>2, <2>3
<1>7. Offers' = Offers /\ Snapshot' = Snapshot /\ rising \subseteq rising'
  BY <1>1, <1>3 DEF Offers, Scope, Snapshot
<1>8. RiseKnown'
  <2>1. RiseKnown
    BY DEF RadarInvariant, Truth
  <2>. QED
    BY <1>3, <1>6, <1>7, <2>1 DEF RiseKnown, InSnapshot
<1>9. ReadsTrue'
  <2>1. ReadsTrue
    BY DEF RadarInvariant, Truth
  <2>. QED
    BY <1>3, <1>7, <2>1 DEF ReadsTrue, InSnapshot, Waits, Undecided, Read
<1>10. MissesTrue'
  <2>1. MissesTrue
    BY DEF RadarInvariant, Truth
  <2>. QED
    BY <1>3, <1>6, <1>7, <2>1 DEF MissesTrue, Waits, Undecided, Read, Looked
<1>. QED
  BY <1>3, <1>4, <1>5, <1>8, <1>9, <1>10 DEF RadarInvariant, Truth

\* Nothing is known and nobody is under way.
LEMMA Forgets ==
    ASSUME RestOK, known = {}, seen = Nowhere, poll = [p \in Poll |-> Idle],
           ahead = [p \in Poll |-> {}]
    PROVE  RadarInvariant
<1>1. UnderWay = {} /\ \A p \in Poll : ~Waits(p)
  BY RadarNumbers DEF UnderWay, Waits, Undecided
<1>2. AheadOK /\ Ordered
  BY <1>1 DEF AheadOK, Ordered
<1>3. poll \in [Poll -> Progress]
  BY RadarNumbers
<1>4. Truth
  BY <1>1 DEF Truth, RiseKnown, ReadsTrue, MissesTrue
<1>. QED
  BY <1>2, <1>3, <1>4, RadarTypes DEF RadarInvariant

LEMMA RestartKeeps ==
    ASSUME RadarInvariant, RadarRestarts
    PROVE  RadarInvariant'
<1>1. RestOK'
  BY RadarTypes, RadarNumbers, RadarAssumption DEF RadarInvariant, RadarRestarts, RestOK, Fault
<1>2. /\ known' = {} /\ seen' = Nowhere /\ poll' = [p \in Poll |-> Idle]
      /\ ahead' = [p \in Poll |-> {}]
  BY DEF RadarRestarts
<1>3. (RestOK /\ known = {} /\ seen = Nowhere /\ poll = [p \in Poll |-> Idle]
           /\ ahead = [p \in Poll |-> {}] => RadarInvariant)'
  BY Forgets, PTL
<1>. QED
  BY <1>1, <1>2, <1>3

LEMMA NextKeeps ==
    ASSUME RadarInvariant, [RadarNext]_radarVars
    PROVE  RadarInvariant'
<1>1. CASE UNCHANGED radarVars
  BY <1>1 DEF radarVars, RadarInvariant, RadarTypeOK, UnderWay, Ordered, Younger, Overlapping,
              Truth, RiseKnown, ReadsTrue, MissesTrue, Waits, Undecided, Read, Looked,
              InSnapshot, Offers, Scope, Snapshot
<1>2. ASSUME NEW p \in Poll, PollStep(p) PROVE RadarInvariant'
  <2>1. CASE Outrun(p) \/ Publish(p)
    BY <2>1, EndsKeeps DEF Outrun, Publish
  <2>. QED
    BY <1>2, <2>1, BeginKeeps, DetectKeeps, ReadRungKeeps, CompareKeeps, ApplyKeeps,
       SuspectKeeps, SizedKeeps DEF PollStep
<1>3. ASSUME NEW p \in Poll, PollFails(p) \/ PublishFails(p) PROVE RadarInvariant'
  BY <1>3, EndsKeeps DEF PollFails, PublishFails
<1>. QED
  BY <1>1, <1>2, <1>3, HiccupKeeps, RungFailsKeeps, MoveKeeps, RestartKeeps DEF RadarNext

LEMMA RadarStarts == ASSUME RadarInit PROVE RadarInvariant
<1>1. RestOK
  BY RadarNumbers, RadarAssumption DEF RadarInit, RestOK
<1>. QED
  BY <1>1, Forgets DEF RadarInit

\* Snapshots, polls under way and their order keep their types: no poll is begun
\* twice, and what began before it is known of every poll.
THEOREM RadarTypeCorrect == RadarSpec => []RadarTypeOK
<1>1. RadarInit => RadarInvariant
  BY RadarStarts
<1>2. RadarInvariant /\ [RadarNext]_radarVars => RadarInvariant'
  BY NextKeeps
<1>3. RadarInvariant => RadarTypeOK
  BY DEF RadarInvariant
<1>. QED
  BY <1>1, <1>2, <1>3, PTL DEF RadarSpec

\* Only Apply and Compare change a snapshot that there was and is.
LEMMA SnapshotStep ==
    ASSUME [RadarNext]_radarVars
    PROVE  \/ \E p \in Poll : Apply(p)
           \/ \E p \in Poll : Compare(p)
           \/ known' = {} \/ UNCHANGED snapshots
<1>1. CASE UNCHANGED radarVars
  BY <1>1 DEF radarVars, snapshots
<1>2. ASSUME NEW p \in Poll, PollStep(p) PROVE Apply(p) \/ Compare(p) \/ UNCHANGED snapshots
  BY <1>2 DEF PollStep, Begin, Detect, ReadRung, Suspect, Outrun, Sized, Publish
<1>3. ASSUME NEW p \in Poll, Hiccup(p) \/ PollFails(p) \/ RungFails(p) \/ PublishFails(p)
      PROVE  UNCHANGED snapshots
  BY <1>3 DEF Hiccup, PollFails, RungFails, PublishFails
<1>4. CASE \E s \in TimeSlot : Move(s)
  BY <1>4 DEF Move
<1>5. CASE RadarRestarts
  BY <1>5 DEF RadarRestarts
<1>. QED
  BY <1>1, <1>2, <1>3, <1>4, <1>5 DEF RadarNext

LEMMA AnnouncedStep ==
    ASSUME RadarInvariant, [RadarNext]_radarVars, NEW s \in TimeSlot, NEW q \in Rungs,
           \/ /\ Snapshot = "seen" /\ "seen" \in (known \cap known')
              /\ q \in Ladder /\ seen[s] < q /\ q <= seen'[s]
           \/ /\ Snapshot = "shown" /\ "shown" \in (known \cap known')
              /\ q = DetectQ /\ s \in shown' \ shown
    PROVE  <<s, q>> \in rising \/ <<s, q>> \in excused
<1> DEFINE t == <<s, q>>
<1>1. t[1] = s /\ t[2] = q
  OBVIOUS
<1>2. Snapshot \in known /\ t \in Offers /\ ~InSnapshot(t)
  <2>1. CASE mode = "detect"
    BY <2>1 DEF Snapshot, Offers, Scope, InSnapshot
  <2>2. CASE mode # "detect"
    <3>1. q \in Nat /\ seen[s] \in Nat
      BY RadarNumbers, SnapshotTypes DEF RadarInvariant
    <3>. QED
      BY <2>2, <3>1 DEF Snapshot, Offers, Scope, InSnapshot
  <2>. QED
    BY <2>1, <2>2
<1>3. seen[s] \in Nat /\ q \in Nat
  BY RadarNumbers, SnapshotTypes DEF RadarInvariant
<1>4. PICK p \in Poll : Apply(p) \/ Compare(p)
  BY <1>3, SnapshotStep DEF snapshots
<1>5. Waits(p) /\ Read(p, t)
  <2>1. CASE Apply(p)
    <3>1. /\ seen' = poll[p].got /\ mode # "detect" /\ poll[p].at = "measure" /\ ~poll[p].late
          /\ shown' = shown
      BY <2>1 DEF Apply, Measured, InOrder
    <3>. QED
      BY <3>1 DEF Waits, Undecided, Read, Snapshot
  <2>2. CASE Compare(p)
    <3>1. seen' = seen /\ shown' = poll[p].fits /\ poll[p].at = "compare" /\ ~poll[p].late
      BY <2>2 DEF Compare, InOrder
    <3>. QED
      BY <1>3, <3>1 DEF Waits, Undecided, Read, Snapshot
  <2>. QED
    BY <1>4, <2>1, <2>2
<1> HIDE DEF t
<1>6. t \in rising \cup excused
  BY <1>2, <1>5 DEF RadarInvariant, Truth, ReadsTrue
<1>. QED
  BY <1>6 DEF t

\* No answer that is late, cut short or empty makes a slot look freed again: what
\* is announced has come to take that quantity since it was last announced for it,
\* or is one of the named exceptions; for any slots, polls at once, ladder and
\* number of changes and faults, in the five modes.
THEOREM Announced == RadarSpec => AnnouncedRose
<1>1. RadarInit => RadarInvariant
  BY RadarStarts
<1>2. RadarInvariant /\ [RadarNext]_radarVars => RadarInvariant'
  BY NextKeeps
<1>3. RadarInvariant /\ [RadarNext]_radarVars =>
         [\A s \in TimeSlot, q \in Rungs :
             \/ /\ Snapshot = "seen" /\ "seen" \in (known \cap known')
                /\ q \in Ladder /\ seen[s] < q /\ q <= seen'[s]
             \/ /\ Snapshot = "shown" /\ "shown" \in (known \cap known')
                /\ q = DetectQ /\ s \in shown' \ shown
             => <<s, q>> \in rising \/ <<s, q>> \in excused]_radarVars
  BY AnnouncedStep
<1>. QED
  BY <1>1, <1>2, <1>3, PTL DEF RadarSpec, AnnouncedRose

==============================================================================
