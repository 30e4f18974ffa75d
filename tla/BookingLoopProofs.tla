-------------------------- MODULE BookingLoopProofs --------------------------
(***************************************************************************)
(* The avto-band processor, for any plans, attempts, faults and bounds:    *)
(* its queue in memory stays one, it never has two answers to expect for a *)
(* plan, and it keeps the life of a plan as PlanLifecycle states it.       *)
(***************************************************************************)
EXTENDS BookingLoop, FiniteSetTheorems, WellFoundedInduction, TLAPS

------------------------------------------------------------------------------
(* The invariant.                                                          *)

\* What the loop has in its queue may still be attempted: a plan that is booked
\* or failed has left it.
QueueOpen == \A p \in DOMAIN plans : status[p] \in {"waiting", "canceled"}

BInv == TypeOK /\ OrderListsPlans /\ OneFuturePerPlan /\ QueueOpen

------------------------------------------------------------------------------
(* Sequences made of sets.                                                 *)

\* A strict total order on S, as a set of pairs.
Orders(before, S) ==
    /\ \A p, q \in S : p # q => <<p, q>> \in before \/ <<q, p>> \in before
    /\ \A p \in S : <<p, p>> \notin before
    /\ \A p, q, r \in S : <<p, q>> \in before /\ <<q, r>> \in before => <<p, r>> \in before

Ahead(p, S, before) == {q \in S : <<q, p>> \in before}

\* s lists the members of S, each once.
Lists(s, S) == s \in Seq(S) /\ IsInjective(s) /\ Range(s) = S

\* How many members of S are ahead of p tells p from the others, ...
LEMMA AheadCounts ==
    ASSUME NEW S, IsFiniteSet(S), NEW before, Orders(before, S),
           NEW p \in S, NEW q \in S
    PROVE  /\ Cardinality(Ahead(p, S, before)) \in 0..(Cardinality(S) - 1)
           /\ Cardinality(Ahead(p, S, before)) = Cardinality(Ahead(q, S, before)) => p = q
<1>1. \A T \in SUBSET S : IsFiniteSet(T) /\ Cardinality(T) \in Nat
  BY FS_Subset, FS_CardinalityType
<1>2. \A T \in SUBSET S : \A x \in S \ T : Cardinality(T) < Cardinality(T \cup {x})
  <2>1. ASSUME NEW T \in SUBSET S, NEW x \in S \ T
        PROVE  Cardinality(T) < Cardinality(T \cup {x})
    <3>1. IsFiniteSet(T) /\ Cardinality(T) \in Nat
      BY <1>1
    <3>2. Cardinality(T \cup {x}) = Cardinality(T) + 1
      BY <3>1, FS_AddElement
    <3>. QED
      BY <3>1, <3>2
  <2>. QED
    BY <2>1
<1>3. \A T, U \in SUBSET S : T \subseteq U => Cardinality(T) <= Cardinality(U)
  BY <1>1, FS_Subset
<1>4. ASSUME NEW T \in SUBSET S, NEW U \in SUBSET S, T \subseteq U, NEW x \in U \ T
      PROVE  Cardinality(T) < Cardinality(U)
  <2>1. T \cup {x} \in SUBSET S /\ T \cup {x} \subseteq U /\ x \in S \ T
    BY <1>4
  <2>2. Cardinality(T) < Cardinality(T \cup {x}) /\ Cardinality(T \cup {x}) <= Cardinality(U)
    BY <1>2, <1>3, <2>1
  <2>3. /\ Cardinality(T) \in Nat /\ Cardinality(U) \in Nat
        /\ Cardinality(T \cup {x}) \in Nat
    BY <1>1, <2>1
  <2>. QED
    BY <2>2, <2>3
<1>5. ASSUME NEW x \in S PROVE Ahead(x, S, before) \in SUBSET S /\ x \notin Ahead(x, S, before)
  BY DEF Ahead, Orders
<1>6. ASSUME NEW x \in S, NEW y \in S, <<x, y>> \in before
      PROVE  Cardinality(Ahead(x, S, before)) < Cardinality(Ahead(y, S, before))
  <2>1. Ahead(x, S, before) \subseteq Ahead(y, S, before) /\ x \in Ahead(y, S, before)
    BY <1>6 DEF Ahead, Orders
  <2>. QED
    BY <1>4, <1>5, <2>1
<1>7. /\ Cardinality(Ahead(p, S, before)) \in Nat /\ Cardinality(Ahead(q, S, before)) \in Nat
      /\ Cardinality(S) \in Nat
  BY <1>1, <1>5
<1>8. Cardinality(Ahead(p, S, before)) < Cardinality(S)
  BY <1>4, <1>5
<1>9. ASSUME Cardinality(Ahead(p, S, before)) = Cardinality(Ahead(q, S, before)) PROVE p = q
  <2>1. CASE <<p, q>> \in before
    BY <1>6, <1>7, <1>9, <2>1
  <2>2. CASE <<q, p>> \in before
    BY <1>6, <1>7, <1>9, <2>2
  <2>. QED
    BY <2>1, <2>2 DEF Orders
<1>. QED
  BY <1>7, <1>8, <1>9

\* ... and every number is taken: InOrder lists S, each member once.
LEMMA InOrderLists ==
    ASSUME NEW S, IsFiniteSet(S), NEW before, Orders(before, S)
    PROVE  Lists(InOrder(S, before), S)
<1> DEFINE count(p) == Cardinality(Ahead(p, S, before))
           place == [p \in S |-> count(p)]
<1>1. PICK n \in Nat : n = Cardinality(S)
  BY FS_CardinalityType
<1>2. \A p \in S : count(p) \in 0..(n - 1)
  BY <1>1, AheadCounts
<1>3. \A p, q \in S : count(p) = count(q) => p = q
  BY AheadCounts
<1>4. place \in Injection(S, 0..(n - 1))
  BY <1>2, <1>3 DEF Injection, IsInjective
<1>5. IsFiniteSet(0..(n - 1)) /\ Cardinality(0..(n - 1)) = n
  BY FS_Interval
<1>6. place \in Surjection(S, 0..(n - 1))
  BY <1>1, <1>4, <1>5, FS_Injection
<1>7. \A k \in 0..(n - 1) : \E p \in S : count(p) = k
  BY <1>6 DEF Surjection
<1>8. PICK seq : seq = InOrder(S, before)
  OBVIOUS
<1>9. seq = [i \in 1..n |-> CHOOSE p \in S : count(p) = i - 1]
  BY <1>1, <1>8 DEF InOrder, Ahead
<1> HIDE DEF count
<1>10. ASSUME NEW i \in 1..n PROVE seq[i] \in S /\ count(seq[i]) = i - 1
  <2>1. i - 1 \in 0..(n - 1)
    OBVIOUS
  <2>2. seq[i] = CHOOSE p \in S : count(p) = i - 1
    BY <1>9
  <2>. QED
    BY <1>7, <2>1, <2>2
<1>11. DOMAIN seq = 1..n /\ seq \in Seq(S)
  BY <1>9, <1>10
<1>12. IsInjective(seq)
  <2>1. ASSUME NEW i \in 1..n, NEW j \in 1..n, seq[i] = seq[j] PROVE i = j
    BY <1>10, <2>1
  <2>. QED
    BY <1>11, <2>1 DEF IsInjective
<1>13. ASSUME NEW p \in S PROVE \E i \in 1..n : seq[i] = p
  <2>1. PICK k \in 0..(n - 1) : count(p) = k
    BY <1>2
  <2>2. k + 1 \in 1..n /\ (k + 1) - 1 = k
    OBVIOUS
  <2>3. count(seq[k + 1]) = k /\ seq[k + 1] \in S
    BY <1>10, <2>2
  <2>. QED
    BY <1>3, <2>1, <2>2, <2>3
<1>14. Range(seq) = S
  BY <1>10, <1>11, <1>13 DEF Range
<1>. QED
  BY <1>8, <1>11, <1>12, <1>14 DEF Lists

\* The round robin orders its plans, the queue all of them.
LEMMA RoundOrders ==
    ASSUME order \in Seq(Plan), IsInjective(order), NEW S \in SUBSET Range(order)
    PROVE  Orders(RoundOrder, S)
<1>1. \A p \in S : \E i \in DOMAIN order : p = order[i]
  BY DEF Range
<1>2. DOMAIN order \subseteq Nat /\ S \subseteq Plan
  BY DEF Range
<1>. QED
  BY <1>1, <1>2 DEF Orders, RoundOrder, IsInjective

LEMMA QueueOrders ==
    ASSUME priority \in [Plan -> Priorities], NEW S \in SUBSET Plan
    PROVE  Orders(QueueOrder, S)
<1>1. \A p \in Plan : priority[p] \in Nat
  BY QueueAssumption
<1>2. \A p \in Plan : p \in Nat
  BY QueueAssumption DEF Plan
<1>. QED
  BY <1>1, <1>2 DEF Orders, QueueOrder, Before

LEMMA SomePlans ==
    ASSUME NEW S \in SUBSET Plan
    PROVE  IsFiniteSet(S)
<1>1. IsFiniteSet(Plan)
  BY QueueAssumption, FS_Interval DEF Plan
<1>. QED
  BY <1>1, FS_Subset

------------------------------------------------------------------------------
(* Types of the rows and of the attempts.                                  *)

FutRow == [state : FutState, plan : Plan, item : Request, slot : Slot \cup {0},
           outcome : Outcome]

LEMMA NoFutType == NoFut \in FutRow /\ (CHOOSE r \in Request : TRUE) \in Request
<1>1. 1 \in Slot /\ 1 \in Plan
  BY QueueAssumption DEF Slot, Plan
<1>2. day_of(1) \in Day
  BY <1>1 DEF Day
<1>3. PICK i \in Invoice : TRUE
  BY QueueAssumption
<1>4. [invoice |-> i, min |-> 0, max |-> day_of(1), current |-> 0] \in Request
  BY <1>2 DEF Request
<1>5. (CHOOSE r \in Request : TRUE) \in Request
  BY <1>4
<1>. QED
  BY <1>1, <1>5 DEF NoFut, FutRow, FutState, Outcome

LEMMA Earliest ==
    ASSUME NEW S \in SUBSET Nat, S # {}
    PROVE  \E s \in S : \A t \in S : s <= t
<1> DEFINE less == OpToRel(<, Nat)
<1>1. IsWellFoundedOn(less, Nat)
  BY NatLessThanWellFounded
<1>2. \A x, y \in Nat : x < y => <<x, y>> \in less
  BY DEF OpToRel
<1> HIDE DEF less
<1>3. PICK s \in S : \A t \in S : <<t, s>> \notin less
  BY <1>1, WFMin
<1>4. ASSUME NEW t \in S PROVE s <= t
  <2>1. s \in Nat /\ t \in Nat /\ ~(t < s)
    BY <1>2, <1>3
  <2>. QED
    BY <2>1
<1>. QED
  BY <1>4

LEMMA SlotType ==
    ASSUME NEW offered \in SUBSET Slot, NEW item
    PROVE  pick_slot_in_window(offered, item) \in Slot \cup {0}
<1> DEFINE fits == {s \in offered : item.min <= day_of(s) /\ day_of(s) <= item.max}
<1>1. CASE fits = {}
  BY <1>1 DEF pick_slot_in_window
<1>2. CASE fits # {}
  <2>1. fits \subseteq Slot /\ fits # {}
    BY <1>2
  <2> DEFINE first == CHOOSE s \in fits : \A t \in fits : s <= t
  <2>2. \E s \in fits : \A t \in fits : s <= t
    <3>1. fits \in SUBSET Nat
      BY <2>1, QueueAssumption DEF Slot
    <3>. QED
      BY <2>1, <3>1, Earliest
  <2>3. first \in fits
    BY <2>2
  <2>. QED
    BY <1>2, <2>1, <2>3 DEF pick_slot_in_window
<1>. QED
  BY <1>1, <1>2

\* The seller and the admin write rows of the table.
LEMMA UserTypes ==
    ASSUME PlansTypeOK, UserStep
    PROVE  PlansTypeOK'
<1> USE DEF PlansTypeOK, planVars
<1>1. CASE CreatePlan
  <2>1. PICK i \in Invoice, w \in Windows \cap Window : EnqueueNew(i, w) \/ EnqueueAgain(i, w)
    BY <1>1 DEF CreatePlan
  <2>2. [invoice |-> i, min |-> w.min, max |-> w.max, current |-> portal[i]] \in Request
    BY DEF Window, Request
  <2>3. CASE EnqueueNew(i, w)
    BY <2>2, <2>3 DEF EnqueueNew, Status
  <2>4. CASE EnqueueAgain(i, w)
    BY <2>2, <2>4 DEF EnqueueAgain, WaitingRowsOf
  <2>. QED
    BY <2>1, <2>3, <2>4
<1>2. ASSUME NEW p \in Plan, CancelPlan(p) PROVE PlansTypeOK'
  BY <1>2 DEF CancelPlan, Status
<1>3. ASSUME NEW p \in Plan, NEW v \in Priorities, set_priority(p, v) PROVE PlansTypeOK'
  BY <1>3 DEF set_priority
<1>4. ASSUME NEW i \in MovedByHand, NEW s \in Slot, SetSlotByHand(i, s) PROVE PlansTypeOK'
  BY <1>4, QueueAssumption DEF SetSlotByHand
<1>. QED
  BY <1>1, <1>2, <1>3, <1>4 DEF UserStep

LEMMA InitInv == Init => BInv
<1> SUFFICES ASSUME Init PROVE BInv
  OBVIOUS
<1>1. PlansTypeOK
  BY NoFutType, QueueAssumption DEF Init, PlansInit, PlansTypeOK, Status, LeaseState
<1>2. fut \in [Attempts -> FutRow]
  BY NoFutType DEF Init
<1>3. order \in Seq(Plan) /\ today \in 1..LastDay
  BY LoopAssumption DEF Init
<1>4. TypeOK
  BY <1>1, <1>2, <1>3 DEF Init, TypeOK, FutRow
<1>5. OrderListsPlans /\ QueueOpen
  BY DEF Init, OrderListsPlans, QueueOpen, IsInjective, Range
<1>6. OneFuturePerPlan
  BY DEF Init, OneFuturePerPlan, PlansOf
<1>. QED
  BY <1>4, <1>5, <1>6 DEF BInv

------------------------------------------------------------------------------
(* Steps that leave the queue and the futures' plans alone.                *)

LEMMA SameQueue ==
    ASSUME BInv, TypeOK', UNCHANGED <<plans, order, inflight, pending>>,
           \A f \in pending : fut'[f].plan = fut[f].plan,
           \A p \in DOMAIN plans : status'[p] \in {status[p], "waiting", "canceled"}
    PROVE  BInv'
<1>1. OrderListsPlans'
  BY DEF BInv, OrderListsPlans, IsInjective, Range
<1>2. PlansOf(pending)' = PlansOf(pending)
  BY DEF PlansOf
<1>3. OneFuturePerPlan'
  BY <1>2 DEF BInv, OneFuturePerPlan
<1>4. QueueOpen'
  BY DEF BInv, QueueOpen
<1>. QED
  BY <1>1, <1>3, <1>4 DEF BInv

LEMMA StageSteps ==
    ASSUME BInv, SkipReload \/ ScheduleFull \/ EndCycle \/ Midnight \/ UNCHANGED vars
    PROVE  BInv'
<1>1. /\ UNCHANGED <<planVars, portal, memory, fut>>
      /\ stage' \in {"reload", "schedule", "watchdog", "reap"}
      /\ today' \in 1..LastDay
  BY LoopAssumption DEF BInv, TypeOK, SkipReload, ScheduleFull, EndCycle, Midnight, vars
<1>2. TypeOK'
  BY <1>1 DEF BInv, TypeOK, PlansTypeOK, planVars, memory
<1>. QED
  BY <1>1, <1>2, SameQueue DEF planVars, memory

LEMMA UserSteps ==
    ASSUME BInv, UserStep, UNCHANGED <<stage, memory, fut, today>>
    PROVE  BInv'
<1>1. PlansTypeOK'
  BY UserTypes DEF BInv, TypeOK
<1>2. TypeOK'
  BY <1>1 DEF BInv, TypeOK, memory
<1>3. \A p \in Plan : status'[p] \in {status[p], "waiting", "canceled"}
  BY DEF BInv, TypeOK, PlansTypeOK, UserStep, CreatePlan, EnqueueNew, EnqueueAgain, CancelPlan,
         set_priority, SetSlotByHand, planVars
<1>4. DOMAIN plans \subseteq Plan
  BY DEF BInv, TypeOK
<1>. QED
  BY <1>2, <1>3, <1>4, SameQueue DEF memory

\* A thread keeps the plan of its attempt.
LEMMA FinishTypes ==
    ASSUME fut \in [Attempts -> FutRow], NEW f \in Attempts, NEW o \in Outcome, Finish(f, o)
    PROVE  fut' \in [Attempts -> FutRow] /\ \A g \in pending : fut'[g].plan = fut[g].plan
<1>1. [fut[f] EXCEPT !.state = "done", !.outcome = o] \in FutRow
  BY DEF FutRow, FutState
<1>. QED
  BY <1>1, NoFutType DEF Finish, FutRow

LEMMA ThreadFut ==
    ASSUME BInv, NEW f \in Attempts, ThreadStep(f)
    PROVE  /\ fut' \in [Attempts -> FutRow]
           /\ \A g \in pending : fut'[g].plan = fut[g].plan
<1>1. fut \in [Attempts -> FutRow]
  BY DEF BInv, TypeOK, FutRow
<1>2. ASSUME NEW o \in Outcome, Finish(f, o)
      PROVE  fut' \in [Attempts -> FutRow] /\ \A g \in pending : fut'[g].plan = fut[g].plan
  BY <1>1, <1>2, FinishTypes
<1>3. ASSUME NEW s \in FutState, fut' = [fut EXCEPT ![f].state = s]
      PROVE  fut' \in [Attempts -> FutRow] /\ \A g \in pending : fut'[g].plan = fut[g].plan
  BY <1>1, <1>3 DEF FutRow
<1>4. CASE Start(f)
  BY <1>2, <1>3, <1>4 DEF Start, Outcome, FutState
<1>5. CASE GetSlots(f)
  <2>1. CASE \E o \in Outcome : Finish(f, o)
    BY <1>2, <2>1
  <2>2. ASSUME NEW s \in Slot \cup {0},
               fut' = [fut EXCEPT ![f].state = "found", ![f].slot = s]
        PROVE  fut' \in [Attempts -> FutRow] /\ \A g \in pending : fut'[g].plan = fut[g].plan
    <3>1. [fut[f] EXCEPT !.state = "found", !.slot = s] \in FutRow
      BY <1>1 DEF FutRow, FutState
    <3>2. fut' = [fut EXCEPT ![f] = [fut[f] EXCEPT !.state = "found", !.slot = s]]
      BY <1>1, <2>2
    <3>. QED
      BY <1>1, <3>1, <3>2 DEF FutRow
  <2>3. {"get_failed", "no_slot", "no_stock"} \subseteq Outcome
    BY DEF Outcome
  <2>4. ASSUME NEW offered \in SUBSET Slot,
               LET s == pick_slot_in_window(offered, fut[f].item) IN
               CASE s = 0 -> Finish(f, "no_slot")
                 [] s # 0 /\ fut[f].item.invoice \notin Stocked -> Finish(f, "no_stock")
                 [] OTHER -> fut' = [fut EXCEPT ![f].state = "found", ![f].slot = s]
        PROVE  fut' \in [Attempts -> FutRow] /\ \A g \in pending : fut'[g].plan = fut[g].plan
    <3>1. PICK s \in Slot \cup {0} : s = pick_slot_in_window(offered, fut[f].item)
      BY SlotType
    <3>. QED
      BY <2>1, <2>2, <2>3, <2>4, <3>1
  <2>. QED
    BY <1>5, <2>1, <2>3, <2>4 DEF GetSlots
<1>6. CASE SetTimeSlot(f)
  BY <1>2, <1>3, <1>6 DEF SetTimeSlot, Outcome, FutState
<1>7. CASE VerifyBooked(f)
  BY <1>2, <1>7 DEF VerifyBooked, Outcome
<1>. QED
  BY <1>4, <1>5, <1>6, <1>7 DEF ThreadStep

LEMMA ThreadSteps ==
    ASSUME BInv, NEW f \in Attempts, ThreadStep(f)
    PROVE  BInv'
<1>1. fut' \in [Attempts -> FutRow] /\ \A g \in pending : fut'[g].plan = fut[g].plan
  BY ThreadFut
<1>2. UNCHANGED <<planVars, stage, memory, today>>
  BY DEF ThreadStep, Start, GetSlots, SetTimeSlot, VerifyBooked
<1>3. portal' \in [Invoice -> Slot \cup {0}]
  <2>1. portal \in [Invoice -> Slot \cup {0}] /\ fut[f] \in FutRow
    BY DEF BInv, TypeOK, PlansTypeOK, FutRow
  <2>. QED
    BY <2>1 DEF ThreadStep, Start, GetSlots, SetTimeSlot, VerifyBooked, FutRow, Request
<1>4. TypeOK'
  BY <1>1, <1>2, <1>3 DEF BInv, TypeOK, PlansTypeOK, planVars, memory, FutRow
<1>. QED
  BY <1>1, <1>2, <1>4, SameQueue DEF planVars, memory

------------------------------------------------------------------------------
(* Steps that change the queue or the futures.                             *)

\* Two lists without a common member make one list.
LEMMA Joined ==
    ASSUME NEW S, NEW T, S \cap T = {}, NEW s, NEW t, Lists(s, S), Lists(t, T)
    PROVE  Lists(s \o t, S \cup T)
<1>1. /\ s \in Seq(S) /\ IsInjective(s) /\ Range(s) = S
      /\ t \in Seq(T) /\ IsInjective(t) /\ Range(t) = T
  BY DEF Lists
<1>2. PICK m \in Nat, n \in Nat : /\ m = Len(s) /\ n = Len(t)
                                  /\ DOMAIN s = 1..m /\ DOMAIN t = 1..n
  BY <1>1
<1>3. PICK both : both = s \o t
  OBVIOUS
<1>4. both \in Seq(S \cup T)
  <2>1. s \in Seq(S \cup T) /\ t \in Seq(S \cup T)
    BY <1>1
  <2>. QED
    BY <1>3, <2>1
<1>5. DOMAIN both = 1..(m + n)
  BY <1>1, <1>2, <1>3
<1>6. ASSUME NEW i \in 1..m PROVE both[i] = s[i] /\ s[i] \in S
  BY <1>1, <1>2, <1>3
<1>7. ASSUME NEW i \in (m + 1)..(m + n)
      PROVE  both[i] = t[i - m] /\ i - m \in 1..n /\ t[i - m] \in T
  BY <1>1, <1>2, <1>3
<1>8. \A i \in 1..(m + n) : i \in 1..m \/ i \in (m + 1)..(m + n)
  OBVIOUS
<1>9. ASSUME NEW i \in 1..(m + n), NEW j \in 1..(m + n), both[i] = both[j] PROVE i = j
  <2>1. CASE i \in 1..m /\ j \in 1..m
    BY <1>1, <1>2, <1>6, <1>9, <2>1 DEF IsInjective
  <2>2. CASE i \in (m + 1)..(m + n) /\ j \in (m + 1)..(m + n)
    <3>1. t[i - m] = t[j - m] /\ i - m \in DOMAIN t /\ j - m \in DOMAIN t
      BY <1>2, <1>7, <1>9, <2>2
    <3>2. i - m = j - m
      BY <1>1, <3>1 DEF IsInjective
    <3>. QED
      BY <3>2
  <2>3. CASE i \in 1..m /\ j \in (m + 1)..(m + n)
    BY <1>6, <1>7, <1>9, <2>3
  <2>4. CASE i \in (m + 1)..(m + n) /\ j \in 1..m
    BY <1>6, <1>7, <1>9, <2>4
  <2>. QED
    BY <1>8, <2>1, <2>2, <2>3, <2>4
<1>10. IsInjective(both)
  BY <1>5, <1>9 DEF IsInjective
<1>11. ASSUME NEW x \in S PROVE \E i \in 1..(m + n) : both[i] = x
  <2>1. PICK i \in 1..m : s[i] = x
    BY <1>1, <1>2 DEF Range
  <2>2. i \in 1..(m + n)
    OBVIOUS
  <2>. QED
    BY <1>6, <2>1, <2>2
<1>12. ASSUME NEW x \in T PROVE \E i \in 1..(m + n) : both[i] = x
  <2>1. PICK i \in 1..n : t[i] = x
    BY <1>1, <1>2 DEF Range
  <2>2. i + m \in (m + 1)..(m + n) /\ (i + m) - m = i /\ i + m \in 1..(m + n)
    OBVIOUS
  <2>. QED
    BY <1>7, <2>1, <2>2
<1>13. \A i \in 1..(m + n) : both[i] \in S \cup T
  BY <1>6, <1>7, <1>8
<1>14. Range(both) = S \cup T
  <2>1. \A x \in S \cup T : \E i \in DOMAIN both : both[i] = x
    BY <1>5, <1>11, <1>12
  <2>2. Range(both) \subseteq S \cup T
    BY <1>5, <1>13 DEF Range
  <2>3. S \cup T \subseteq Range(both)
    BY <2>1 DEF Range
  <2>. QED
    BY <2>2, <2>3
<1>. QED
  BY <1>3, <1>4, <1>10, <1>14 DEF Lists

LEMMA ReloadSteps == ASSUME BInv, Reload PROVE BInv'
<1> DEFINE fresh == booking_candidates
           kept == {p \in DOMAIN plans : p \in fresh \/ p \in inflight}
           S == InOrder(kept, RoundOrder)
           T == InOrder(fresh \ DOMAIN plans, QueueOrder)
<1>1. /\ stage' = "schedule" /\ order' = S \o T
      /\ plans' = [p \in fresh \cup kept |-> IF p \in fresh THEN req[p] ELSE plans[p]]
      /\ inflight' = inflight \cap PlansOf(pending)
      /\ UNCHANGED <<planVars, portal, rr, pending, done, fut, today>>
  BY DEF Reload
<1>2. /\ fresh \subseteq Plan /\ DOMAIN plans \subseteq Plan /\ kept \subseteq Plan
      /\ \A p \in fresh : status[p] = "waiting"
  BY DEF booking_candidates, BInv, TypeOK
<1>3. order \in Seq(Plan) /\ IsInjective(order) /\ Range(order) = DOMAIN plans
  BY DEF BInv, TypeOK, OrderListsPlans
<1>4. Lists(S, kept)
  <2>1. Orders(RoundOrder, kept)
    BY <1>3, RoundOrders
  <2>2. IsFiniteSet(kept)
    BY <1>2, SomePlans
  <2>. QED
    BY <2>1, <2>2, InOrderLists
<1>5. Lists(T, fresh \ DOMAIN plans)
  <2>1. Orders(QueueOrder, fresh \ DOMAIN plans)
    BY <1>2, QueueOrders DEF BInv, TypeOK, PlansTypeOK
  <2>2. IsFiniteSet(fresh \ DOMAIN plans)
    BY <1>2, SomePlans
  <2>. QED
    BY <2>1, <2>2, InOrderLists
<1>6. Lists(order', kept \cup (fresh \ DOMAIN plans))
  <2>1. kept \cap (fresh \ DOMAIN plans) = {}
    OBVIOUS
  <2>. HIDE DEF S, T, kept
  <2>. QED
    BY <1>1, <1>4, <1>5, <2>1, Joined
<1>7. DOMAIN plans' = kept \cup (fresh \ DOMAIN plans) /\ DOMAIN plans' = fresh \cup kept
  BY <1>1
<1>8. TypeOK'
  <2>1. PlansTypeOK' /\ UNCHANGED <<pending, done, fut, today, rr>>
    BY <1>1 DEF BInv, TypeOK, PlansTypeOK, planVars
  <2>2. \A p \in DOMAIN plans' : plans'[p] \in Request
    BY <1>1, <1>2, <1>7 DEF BInv, TypeOK, PlansTypeOK
  <2>3. order' \in Seq(Plan)
    BY <1>2, <1>6 DEF Lists
  <2>4. DOMAIN plans' \subseteq Plan /\ inflight' \subseteq Plan
    BY <1>1, <1>2, <1>7 DEF BInv, TypeOK
  <2>. QED
    BY <1>1, <2>1, <2>2, <2>3, <2>4 DEF BInv, TypeOK
<1>9. OrderListsPlans'
  BY <1>6, <1>7 DEF OrderListsPlans, Lists
<1>10. OneFuturePerPlan'
  <2>1. PlansOf(pending)' = PlansOf(pending)
    BY <1>1 DEF PlansOf
  <2>2. PlansOf(pending) \subseteq inflight' /\ PlansOf(pending) \subseteq DOMAIN plans'
    BY <1>1, <1>7 DEF BInv, OneFuturePerPlan
  <2>. QED
    BY <1>1, <2>1, <2>2 DEF BInv, OneFuturePerPlan
<1>11. QueueOpen'
  BY <1>1, <1>2, <1>7 DEF BInv, QueueOpen, planVars
<1>. QED
  BY <1>8, <1>9, <1>10, <1>11 DEF BInv

\* The scan stays inside the round.
LEMMA ScannedPlan ==
    ASSUME BInv, NEW k \in 1..Len(order)
    PROVE  Scanned(k) \in DOMAIN plans /\ Scanned(k) \in Plan /\ (rr + k) % Len(order) \in Nat
<1>1. order \in Seq(Plan) /\ rr \in Nat /\ Range(order) = DOMAIN plans
  BY DEF BInv, TypeOK, OrderListsPlans
<1>2. PICK n \in Nat : n = Len(order) /\ n > 0
  BY <1>1
<1>3. \A m \in Nat : m % n \in 0..(n - 1)
  BY <1>2
<1>4. ((rr + k - 1) % n) + 1 \in 1..n /\ (rr + k) % n \in Nat
  <2>1. rr + k - 1 \in Nat /\ rr + k \in Nat
    BY <1>1, <1>2
  <2>. QED
    BY <1>2, <1>3, <2>1
<1>5. \A i \in 1..n : order[i] \in Range(order) /\ order[i] \in Plan
  BY <1>1, <1>2 DEF Range
<1>. QED
  BY <1>1, <1>2, <1>4, <1>5 DEF Scanned

\* The plan of a new future has no other: the round robin passes over those in
\* flight.
LEMMA SubmitSteps ==
    ASSUME BInv, NEW k \in 1..Len(order), Submit(k), stage = "schedule",
           UNCHANGED <<planVars, portal, plans, order, done, today>>
    PROVE  BInv'
<1>1. PICK p \in DOMAIN plans : p = Scanned(k) /\ p \in Plan /\ p \notin inflight
  BY ScannedPlan DEF Submit, NextIs
<1>2. PICK f \in Attempts :
          /\ f \notin pending
          /\ pending' = pending \cup {f}
          /\ fut' = [fut EXCEPT ![f] = [NoFut EXCEPT !.state = "queued",
                                                    !.plan = p, !.item = plans[p]]]
  BY <1>1 DEF Submit
<1>3. inflight' = inflight \cup {p} /\ stage' = "watchdog" /\ rr' \in Nat
  BY <1>1, ScannedPlan DEF Submit
<1>4. [NoFut EXCEPT !.state = "queued", !.plan = p, !.item = plans[p]] \in FutRow
  BY <1>1, NoFutType DEF FutRow, FutState, BInv, TypeOK
<1>5. fut \in [Attempts -> FutRow]
  BY DEF BInv, TypeOK, FutRow
<1>6. /\ fut' \in [Attempts -> FutRow] /\ fut'[f].plan = p
      /\ \A g \in pending : fut'[g] = fut[g]
  BY <1>2, <1>4, <1>5, NoFutType DEF FutRow, BInv, TypeOK
<1>7. TypeOK'
  BY <1>1, <1>2, <1>3, <1>6 DEF BInv, TypeOK, PlansTypeOK, planVars, FutRow
<1>8. OrderListsPlans' /\ QueueOpen'
  BY DEF BInv, OrderListsPlans, QueueOpen, planVars
<1>9. OneFuturePerPlan'
  <2>1. \A g \in pending : fut'[g].plan \in inflight /\ fut'[g].plan \in DOMAIN plans
    BY <1>6 DEF BInv, OneFuturePerPlan, PlansOf
  <2>2. \A g \in pending, h \in pending : g # h => fut'[g].plan # fut'[h].plan
    BY <1>6 DEF BInv, OneFuturePerPlan
  <2>3. PlansOf(pending)' = {fut'[g].plan : g \in pending \cup {f}}
    BY <1>2 DEF PlansOf
  <2>4. \A g, h \in pending' : g # h => fut'[g].plan # fut'[h].plan
    BY <1>1, <1>2, <1>6, <2>1, <2>2
  <2>5. \A g \in pending \cup {f} : fut'[g].plan \in inflight' /\ fut'[g].plan \in DOMAIN plans'
    BY <1>1, <1>3, <1>6, <2>1
  <2>6. PlansOf(pending)' \subseteq inflight' /\ PlansOf(pending)' \subseteq DOMAIN plans'
    BY <2>3, <2>5
  <2>. QED
    BY <2>4, <2>6 DEF OneFuturePerPlan
<1>. QED
  BY <1>7, <1>8, <1>9 DEF BInv

\* A plan marked without a future: the futures do not change.
LEMMA MarkSteps ==
    ASSUME BInv, UNCHANGED <<planVars, portal, plans, order, pending, done, fut, today>>,
           inflight \subseteq inflight', inflight' \subseteq Plan, rr' \in Nat,
           stage' \in {"reload", "schedule", "watchdog", "reap"}
    PROVE  BInv'
<1>1. TypeOK'
  BY DEF BInv, TypeOK, PlansTypeOK, planVars
<1>2. PlansOf(pending)' = PlansOf(pending)
  BY DEF PlansOf
<1>3. OneFuturePerPlan'
  BY <1>2 DEF BInv, OneFuturePerPlan
<1>4. OrderListsPlans' /\ QueueOpen'
  BY DEF BInv, OrderListsPlans, QueueOpen, planVars
<1>. QED
  BY <1>1, <1>3, <1>4 DEF BInv

LEMMA ScheduleSteps == ASSUME BInv, Schedule PROVE BInv'
<1>1. UNCHANGED <<planVars, portal, plans, order, done, today>> /\ stage = "schedule"
  BY DEF Schedule
<1>2. inflight \subseteq Plan /\ rr \in Nat /\ order \in Seq(Plan)
  BY DEF BInv, TypeOK
<1>3. ASSUME NEW k \in 1..Len(order), Submit(k) PROVE BInv'
  BY <1>1, <1>3, SubmitSteps
<1>4. ASSUME NEW k \in 1..Len(order), SubmitRaises(k) PROVE BInv'
  <2>1. /\ inflight' = inflight \cup {Scanned(k)} /\ stage' = "reload"
        /\ UNCHANGED <<pending, fut>> /\ rr' = (rr + k) % Len(order)
    BY <1>4 DEF SubmitRaises
  <2>2. Scanned(k) \in Plan /\ (rr + k) % Len(order) \in Nat
    BY ScannedPlan
  <2>. QED
    BY <1>1, <1>2, <2>1, <2>2, MarkSteps
<1>5. CASE NothingToSubmit
  <2>1. /\ rr' = IF order = <<>> THEN rr ELSE rr % Len(order)
        /\ stage' = "watchdog" /\ UNCHANGED <<inflight, pending, fut>>
    BY <1>5 DEF NothingToSubmit
  <2>2. CASE order = <<>>
    BY <1>1, <1>2, <2>1, <2>2, MarkSteps
  <2>3. CASE order # <<>>
    <3>1. Len(order) \in Nat /\ Len(order) > 0
      BY <1>2, <2>3
    <3>2. rr' \in Nat
      BY <1>2, <2>1, <2>3, <3>1
    <3>. QED
      BY <1>1, <1>2, <2>1, <3>2, MarkSteps
  <2>. QED
    BY <2>2, <2>3
<1>6. CASE AtLimit
  BY <1>1, <1>2, <1>6, MarkSteps DEF AtLimit
<1>. QED
  BY <1>3, <1>4, <1>5, <1>6 DEF Schedule

\* An abandoned attempt frees its own plan, and no other attempt has that plan.
LEMMA WatchdogSteps == ASSUME BInv, Watchdog PROVE BInv'
<1>1. PICK hung \in SUBSET pending :
          /\ pending' = pending \ hung
          /\ inflight' = inflight \ PlansOf(hung)
          /\ fut' = [f \in Attempts |->
                       IF f \in hung /\ fut[f].state = "queued" THEN NoFut ELSE fut[f]]
          /\ done' = {f \in pending \ hung : fut[f].state = "done"}
  BY DEF Watchdog
<1>2. stage' = "reap" /\ UNCHANGED <<planVars, portal, plans, order, rr, today>>
  BY DEF Watchdog
<1>3. fut \in [Attempts -> FutRow]
  BY DEF BInv, TypeOK, FutRow
<1>4. fut' \in [Attempts -> FutRow] /\ \A f \in pending' : fut'[f] = fut[f]
  BY <1>1, <1>3, NoFutType DEF BInv, TypeOK
<1>5. TypeOK'
  BY <1>1, <1>2, <1>4 DEF BInv, TypeOK, PlansTypeOK, planVars, FutRow
<1>6. OrderListsPlans' /\ QueueOpen'
  BY <1>2 DEF BInv, OrderListsPlans, QueueOpen, planVars
<1>7. OneFuturePerPlan'
  <2>1. PlansOf(pending)' = {fut[f].plan : f \in pending \ hung}
    BY <1>1, <1>4 DEF PlansOf
  <2>2. \A f \in pending \ hung, g \in hung : fut[f].plan # fut[g].plan
    BY DEF BInv, OneFuturePerPlan
  <2>. QED
    BY <1>1, <1>2, <1>4, <2>1, <2>2 DEF BInv, OneFuturePerPlan, PlansOf
<1>. QED
  BY <1>5, <1>6, <1>7 DEF BInv

\* A plan leaves the queue and the round robin together.
LEMMA DropLists ==
    ASSUME BInv, NEW p \in Plan, drop(p)
    PROVE  /\ DOMAIN plans' = DOMAIN plans \ {p}
           /\ \A q \in DOMAIN plans' : plans'[q] \in Request
           /\ Lists(order', DOMAIN plans \ {p}) /\ order' \in Seq(Plan)
<1>1. /\ DOMAIN plans' = DOMAIN plans \ {p}
      /\ \A q \in DOMAIN plans' : plans'[q] \in Request
  BY DEF drop, BInv, TypeOK
<1>2. order \in Seq(Plan) /\ IsInjective(order) /\ Range(order) = DOMAIN plans
  BY DEF BInv, TypeOK, OrderListsPlans
<1>3. DOMAIN plans \ {p} \subseteq Plan
  BY DEF BInv, TypeOK
<1>4. Lists(order', DOMAIN plans \ {p})
  <2>1. Orders(RoundOrder, DOMAIN plans \ {p})
    BY <1>2, RoundOrders
  <2>2. IsFiniteSet(DOMAIN plans \ {p})
    BY <1>3, SomePlans
  <2>3. order' = InOrder(DOMAIN plans \ {p}, RoundOrder)
    BY <1>2 DEF drop
  <2>. QED
    BY <2>1, <2>2, <2>3, InOrderLists
<1>. QED
  BY <1>1, <1>3, <1>4 DEF Lists

LEMMA ReapSteps == ASSUME BInv, NEW f \in Attempts, ReapOne(f) PROVE BInv'
<1>1. PICK p \in Plan : p = fut[f].plan
  BY DEF BInv, TypeOK
<1>2. /\ f \in pending /\ done' = done \ {f} /\ pending' = pending \ {f}
      /\ inflight' = inflight \ {p}
      /\ fut' = [fut EXCEPT ![f] = NoFut]
      /\ UNCHANGED <<req, priority, portal, stage, rr, today>>
  BY <1>1 DEF ReapOne, BInv, TypeOK
<1>3. \/ drop(p) /\ (mark_booked(p) \/ mark_failed(p, FALSE))
      \/ drop(p) /\ UNCHANGED <<status, lease, attempts>>
      \/ UNCHANGED <<plans, order, status, lease, attempts>>
  BY <1>1 DEF ReapOne
<1>4. fut \in [Attempts -> FutRow]
  BY DEF BInv, TypeOK, FutRow
<1>5. fut' \in [Attempts -> FutRow] /\ \A g \in pending' : fut'[g] = fut[g]
  BY <1>2, <1>4, NoFutType DEF BInv, TypeOK
<1>6. /\ order' \in Seq(Plan) /\ OrderListsPlans'
      /\ \A q \in DOMAIN plans' : plans'[q] \in Request
      /\ DOMAIN plans \ {p} \subseteq DOMAIN plans' /\ DOMAIN plans' \subseteq DOMAIN plans
  <2>1. CASE drop(p)
    BY <2>1, DropLists DEF OrderListsPlans, Lists
  <2>2. CASE UNCHANGED <<plans, order>>
    BY <2>2 DEF BInv, TypeOK, OrderListsPlans
  <2>. QED
    BY <1>3, <2>1, <2>2
<1>7. PlansTypeOK'
  <2>1. PlansTypeOK
    BY DEF BInv, TypeOK
  <2>. QED
    BY <1>2, <1>3, <2>1 DEF PlansTypeOK, mark_booked, mark_failed, Status, LeaseState
<1>8. TypeOK'
  <2>1. DOMAIN plans' \subseteq Plan
    BY <1>6 DEF BInv, TypeOK
  <2>. QED
    BY <1>2, <1>5, <1>6, <1>7, <2>1 DEF BInv, TypeOK, FutRow
<1>9. OneFuturePerPlan'
  <2>1. PlansOf(pending)' = {fut[g].plan : g \in pending \ {f}}
    BY <1>2, <1>5 DEF PlansOf
  <2>2. \A g \in pending \ {f} : fut[g].plan # p
    BY <1>1, <1>2 DEF BInv, OneFuturePerPlan
  <2>. QED
    BY <1>2, <1>5, <1>6, <2>1, <2>2 DEF BInv, OneFuturePerPlan, PlansOf
<1>10. QueueOpen'
  <2>1. CASE drop(p) /\ (mark_booked(p) \/ mark_failed(p, FALSE))
    <3>1. \A q \in DOMAIN plans' : q # p /\ status'[q] = status[q]
      <4>1. \A q \in DOMAIN plans' : q # p /\ q \in Plan
        BY <2>1, <1>6, DropLists DEF BInv, TypeOK
      <4>. QED
        BY <2>1, <4>1 DEF mark_booked, mark_failed, BInv, TypeOK, PlansTypeOK
    <3>. QED
      BY <1>6, <3>1 DEF BInv, QueueOpen
  <2>2. CASE UNCHANGED status
    BY <1>6, <2>2 DEF BInv, QueueOpen
  <2>. QED
    BY <1>3, <2>1, <2>2
<1>. QED
  BY <1>6, <1>8, <1>9, <1>10 DEF BInv

LEMMA RestartSteps == ASSUME BInv, Restart PROVE BInv'
<1>1. fut' \in [Attempts -> FutRow]
  BY NoFutType DEF Restart
<1>2. TypeOK'
  BY <1>1 DEF Restart, BInv, TypeOK, PlansTypeOK, planVars, FutRow
<1>3. OrderListsPlans' /\ QueueOpen'
  BY DEF Restart, OrderListsPlans, QueueOpen, IsInjective, Range
<1>4. OneFuturePerPlan'
  BY DEF Restart, OneFuturePerPlan, PlansOf
<1>. QED
  BY <1>2, <1>3, <1>4 DEF BInv

LEMMA NextInv == ASSUME BInv, [Next]_vars PROVE BInv'
<1>1. CASE LoopStep
  BY <1>1, StageSteps, ReloadSteps, ScheduleSteps, WatchdogSteps, ReapSteps DEF LoopStep
<1>2. CASE \E f \in Attempts : ThreadStep(f)
  BY <1>2, ThreadSteps
<1>3. CASE Environment
  BY <1>3, UserSteps, StageSteps, RestartSteps DEF Environment
<1>. QED
  BY <1>1, <1>2, <1>3, StageSteps DEF Next

LEMMA Invariant == Spec => []BInv
  BY InitInv, NextInv, PTL DEF Spec

\* Every variable of the loop and of the table keeps its type.
THEOREM TypeCorrect == Spec => []TypeOK
<1>1. BInv => TypeOK
  BY DEF BInv
<1>. QED
  BY <1>1, Invariant, PTL

\* _reload and _drop keep the queue one: its order lists each plan once.
THEOREM QueueKept == Spec => []OrderListsPlans
<1>1. BInv => OrderListsPlans
  BY DEF BInv
<1>. QED
  BY <1>1, Invariant, PTL

\* The loop never holds two futures of one plan, whatever hangs, raises or is
\* abandoned.
THEOREM OneFuture == Spec => []OneFuturePerPlan
<1>1. BInv => OneFuturePerPlan
  BY DEF BInv
<1>. QED
  BY <1>1, Invariant, PTL

------------------------------------------------------------------------------
(* The life of a plan.                                                     *)

\* Plans whose request is under way.
Owed == PlansOf(pending)

LEMMA OwedOpen ==
    ASSUME BInv, NEW p \in Owed
    PROVE  p \in Plan /\ status[p] \in {"waiting", "canceled"}
BY DEF BInv, TypeOK, OneFuturePerPlan, QueueOpen, Owed

\* A step that keeps the plan's status and its request, ...
LEMMA LifeStays ==
    ASSUME NEW p \in Plan, status'[p] = status[p], p \in Owed' <=> p \in Owed
    PROVE  Lifecycle!PlanStep(p)
BY DEF Lifecycle!PlanStep, Lifecycle!Stays, Owed

\* ... one that ends the request and leaves a plan that is neither booked nor
\* failed, ...
LEMMA LifeFreed ==
    ASSUME BInv, NEW p \in Plan, status'[p] = status[p], p \in Owed, p \notin Owed'
    PROVE  Lifecycle!PlanStep(p)
<1>1. status[p] \in {"waiting", "canceled"}
  BY OwedOpen
<1>. QED
  BY <1>1 DEF Lifecycle!PlanStep, Lifecycle!Answered, Lifecycle!GivenUp, Owed

\* ... and one that writes the answer.
LEMMA LifeAnswered ==
    ASSUME BInv, NEW p \in Plan, status'[p] \in {"booked", "failed"}, p \in Owed, p \notin Owed'
    PROVE  Lifecycle!PlanStep(p)
<1>1. status[p] \in {"waiting", "canceled"}
  BY OwedOpen
<1>. QED
  BY <1>1 DEF Lifecycle!PlanStep, Lifecycle!Answered, Owed

LEMMA LifeOfUsers ==
    ASSUME BInv, UserStep, UNCHANGED <<stage, memory, fut, today>>, NEW p \in Plan
    PROVE  Lifecycle!PlanStep(p)
<1>1. Owed' = Owed
  BY DEF Owed, PlansOf, memory
<1>2. status \in [Plan -> Status]
  BY DEF BInv, TypeOK, PlansTypeOK
<1>3. CASE status'[p] = status[p]
  BY <1>1, <1>3, LifeStays
<1>4. CASE status[p] = "absent" /\ status'[p] = "waiting"
  <2>1. p \notin Owed'
    BY <1>1, <1>4, OwedOpen
  <2>. QED
    BY <1>4, <2>1 DEF Lifecycle!PlanStep, Lifecycle!Enters, Owed
<1>5. CASE status[p] # "absent" /\ status'[p] = "canceled"
  BY <1>1, <1>5 DEF Lifecycle!PlanStep, Lifecycle!Canceled, Owed
<1>. QED
  BY <1>2, <1>3, <1>4, <1>5
     DEF UserStep, CreatePlan, EnqueueNew, EnqueueAgain, CancelPlan, set_priority,
         SetSlotByHand, planVars

\* Only a submit, the watchdog and _reap change whose request is under way.
LEMMA LifeOfOthers ==
    ASSUME BInv, UNCHANGED <<status, pending>>, \A f \in pending : fut'[f].plan = fut[f].plan,
           NEW p \in Plan
    PROVE  Lifecycle!PlanStep(p)
<1>1. Owed' = Owed
  BY DEF Owed, PlansOf
<1>. QED
  BY <1>1, LifeStays

\* The round robin submits a plan that has no request: its attempt begins.
LEMMA LifeOfSubmit ==
    ASSUME BInv, NEW k \in 1..Len(order), Submit(k), UNCHANGED status, NEW p \in Plan
    PROVE  Lifecycle!PlanStep(p)
<1>1. PICK t \in DOMAIN plans : t = Scanned(k) /\ t \in Plan /\ t \notin inflight
  BY ScannedPlan DEF Submit, NextIs
<1>2. PICK f \in Attempts :
          /\ f \notin pending
          /\ pending' = pending \cup {f}
          /\ fut' = [fut EXCEPT ![f] = [NoFut EXCEPT !.state = "queued",
                                                    !.plan = t, !.item = plans[t]]]
  BY <1>1 DEF Submit
<1>3. /\ fut \in [Attempts -> FutRow] /\ pending \subseteq Attempts
      /\ t \notin Owed /\ status[t] \in {"waiting", "canceled"}
  BY <1>1 DEF BInv, TypeOK, FutRow, OneFuturePerPlan, QueueOpen, Owed
<1>4. fut'[f].plan = t /\ \A g \in pending : fut'[g] = fut[g]
  BY <1>2, <1>3 DEF NoFut
<1>5. Owed' = Owed \cup {t}
  <2>1. Owed' = {fut'[g].plan : g \in pending \cup {f}}
    BY <1>2 DEF Owed, PlansOf
  <2>2. \A x : x \in Owed' <=> x \in Owed \/ x = t
    BY <1>4, <2>1 DEF Owed, PlansOf
  <2>. QED
    BY <2>2
<1>6. CASE p = t
  <2>1. p \notin Owed /\ p \in Owed' /\ status'[p] = status[p] /\ status[p] \in {"waiting", "canceled"}
    BY <1>3, <1>5, <1>6
  <2>. QED
    BY <2>1 DEF Lifecycle!PlanStep, Lifecycle!Taken, Owed
<1>7. CASE p # t
  BY <1>5, <1>7, LifeStays
<1>. QED
  BY <1>6, <1>7

LEMMA LifeOfWatchdog ==
    ASSUME BInv, Watchdog, NEW p \in Plan
    PROVE  Lifecycle!PlanStep(p)
<1>1. PICK hung \in SUBSET pending :
          /\ pending' = pending \ hung
          /\ fut' = [f \in Attempts |->
                       IF f \in hung /\ fut[f].state = "queued" THEN NoFut ELSE fut[f]]
  BY DEF Watchdog
<1>2. \A f \in pending' : fut'[f] = fut[f]
  BY <1>1 DEF BInv, TypeOK
<1>3. Owed' \subseteq Owed
  BY <1>1, <1>2 DEF Owed, PlansOf
<1>4. UNCHANGED status
  BY DEF Watchdog, planVars
<1>. QED
  BY <1>3, <1>4, LifeStays, LifeFreed

\* No other future is of the plan whose answer is read: nothing is owed after.
LEMMA LifeOfReap ==
    ASSUME BInv, NEW f \in Attempts, ReapOne(f), NEW p \in Plan
    PROVE  Lifecycle!PlanStep(p)
<1>1. PICK t \in Plan : t = fut[f].plan
  BY DEF BInv, TypeOK
<1>2. f \in pending /\ pending' = pending \ {f} /\ fut' = [fut EXCEPT ![f] = NoFut]
  BY DEF ReapOne, BInv, TypeOK
<1>3. \A g \in pending' : fut'[g] = fut[g]
  BY <1>2 DEF BInv, TypeOK
<1>4. t \in Owed /\ t \notin Owed'
  BY <1>1, <1>2, <1>3 DEF Owed, PlansOf, BInv, OneFuturePerPlan
<1>5. \A q \in Plan : q # t => (q \in Owed' <=> q \in Owed)
  BY <1>1, <1>2, <1>3 DEF Owed, PlansOf
<1>6. \/ status' = [status EXCEPT ![t] = "booked"] \/ status' = [status EXCEPT ![t] = "failed"]
      \/ status' = status
  BY <1>1 DEF ReapOne, mark_booked, mark_failed
<1>7. status \in [Plan -> Status]
  BY DEF BInv, TypeOK, PlansTypeOK
<1>8. CASE p = t
  BY <1>4, <1>6, <1>7, <1>8, LifeFreed, LifeAnswered
<1>9. CASE p # t
  BY <1>5, <1>6, <1>7, <1>9, LifeStays
<1>. QED
  BY <1>8, <1>9

LEMMA LifeOfRestart ==
    ASSUME BInv, Restart, NEW p \in Plan
    PROVE  Lifecycle!PlanStep(p)
<1>1. Owed' = {} /\ UNCHANGED status
  BY DEF Restart, Owed, PlansOf, planVars
<1>. QED
  BY <1>1, LifeStays, LifeFreed

LEMMA LifeOfNext ==
    ASSUME BInv, [Next]_vars, NEW p \in Plan
    PROVE  Lifecycle!PlanStep(p)
<1>1. ASSUME UNCHANGED <<status, pending, fut>> PROVE Lifecycle!PlanStep(p)
  BY <1>1, LifeOfOthers
<1>2. CASE Reload \/ SkipReload \/ ScheduleFull \/ EndCycle \/ Midnight \/ UNCHANGED vars
  BY <1>1, <1>2 DEF Reload, SkipReload, ScheduleFull, EndCycle, Midnight, vars, planVars, memory
<1>3. CASE Schedule
  <2>1. UNCHANGED status
    BY <1>3 DEF Schedule, planVars
  <2>2. ASSUME NEW k \in 1..Len(order), Submit(k) PROVE Lifecycle!PlanStep(p)
    BY <2>1, <2>2, LifeOfSubmit
  <2>3. CASE UNCHANGED <<pending, fut>>
    BY <1>1, <2>1, <2>3
  <2>. QED
    BY <1>3, <2>2, <2>3 DEF Schedule, SubmitRaises, NothingToSubmit, AtLimit
<1>4. ASSUME NEW f \in Attempts, ThreadStep(f) PROVE Lifecycle!PlanStep(p)
  <2>1. UNCHANGED <<status, pending>>
    BY <1>4 DEF ThreadStep, Start, GetSlots, SetTimeSlot, VerifyBooked, planVars, memory
  <2>. QED
    BY <1>4, <2>1, ThreadFut, LifeOfOthers
<1>. QED
  BY <1>2, <1>3, <1>4, LifeOfWatchdog, LifeOfReap, LifeOfRestart, LifeOfUsers
     DEF Next, LoopStep, Environment

\* The loop keeps the life of a plan of PlanLifecycle: it claims nothing in the
\* table, and an answer never comes twice nor to a plan that has had one.
THEOREM Implements == Spec => LifecycleKept
<1> DEFINE life == [p \in Plan |-> IF status[p] = "waiting" /\ p \in PlansOf(pending)
                                  THEN "booking" ELSE status[p]]
<1>1. Init => Lifecycle!Init
  BY DEF Init, PlansInit, PlansOf, Lifecycle!Init
<1>2. BInv /\ BInv' /\ [Next]_vars => [Lifecycle!Next]_<<life, PlansOf(pending)>>
  <2>1. SUFFICES ASSUME BInv, BInv', [Next]_vars PROVE Lifecycle!Next
    OBVIOUS
  <2>2. PlansOf(pending)' \subseteq Plan
    BY <2>1 DEF BInv, TypeOK, OneFuturePerPlan
  <2>. QED
    BY <2>1, <2>2, LifeOfNext DEF Lifecycle!Next
<1>. QED
  BY <1>1, <1>2, Invariant, PTL DEF Spec, LifecycleKept, Lifecycle!Spec
=============================================================================
