------------------------------ MODULE BookingLoop ------------------------------
(***************************************************************************)
(* The avto-band processor: _postavka_booking_loop of app.py with          *)
(* postavki/autoslot/booker.py, in mode "live".  One loop thread keeps the *)
(* queue in memory and submits one booking attempt per cycle to a pool;    *)
(* each pool thread asks the portal for the invoice's slots and sets the   *)
(* earliest of them inside the plan's window.  The loop never waits for an *)
(* answer: it reaps finished attempts, and abandons an attempt older than  *)
(* the watchdog, whose thread goes on.                                     *)
(***************************************************************************)
EXTENDS AutoslotPlans, Sequences, Functions

CONSTANTS
    Attempts,       \* bound on the attempts alive at once
    MaxInflight,    \* POSTAVKA_BOOKING_MAX_INFLIGHT
    LastDay,        \* bound on the calendar
    Faults          \* which of "restart", "database", "submit", "hang" happen

ASSUME LoopAssumption ==
    /\ Attempts # {} /\ MaxInflight \in Nat \ {0} /\ LastDay \in Nat \ {0}
    /\ Faults \subseteq {"restart", "database", "submit", "hang"}

VARIABLES
    stage,      \* where the cycle is
    plans,      \* plan id -> the row as last read; its domain is the queue
    order,      \* round-robin order
    rr,         \* round-robin index
    inflight,   \* plan ids with an active request
    pending,    \* attempts whose future the loop holds
    done,       \* finished attempts found by this cycle's _reap
    fut,        \* attempt -> its future and thread
    today

memory == <<plans, order, rr, inflight, pending, done>>
vars == <<planVars, portal, stage, memory, fut, today>>

Outcome == {"booked", "no_slot", "expired", "get_failed", "set_timeout",
            "set_failed", "no_stock"}
FailedTerminal == {"expired", "set_timeout", "set_failed", "no_stock"}
FutState == {"free", "queued", "running", "found", "verifying", "done"}

NoFut == [state |-> "free", plan |-> 1, item |-> CHOOSE r \in Request : TRUE,
          slot |-> 0, outcome |-> "no_slot"]

TypeOK ==
    /\ PlansTypeOK
    /\ stage \in {"reload", "schedule", "watchdog", "reap"}
    /\ DOMAIN plans \subseteq Plan /\ \A p \in DOMAIN plans : plans[p] \in Request
    /\ order \in Seq(Plan) /\ rr \in Nat
    /\ inflight \subseteq Plan /\ pending \subseteq Attempts
    /\ done \subseteq pending
    /\ fut \in [Attempts -> [state : FutState, plan : Plan, item : Request,
                             slot : Slot \cup {0}, outcome : Outcome]]
    /\ today \in 1..LastDay

Init ==
    /\ PlansInit
    /\ stage = "reload"
    /\ plans = <<>> /\ order = <<>> /\ rr = 0
    /\ inflight = {} /\ pending = {} /\ done = {}
    /\ fut = [f \in Attempts |-> NoFut]
    /\ today = 1

PlansOf(S) == {fut[f].plan : f \in S}

------------------------------------------------------------------------------
(* The loop thread.                                                        *)

booking_candidates == {p \in Plan : status[p] = "waiting" /\ req[p].max >= today}

\* The members of S as a sequence, each after those of S that come before it.
InOrder(S, before) ==
    [i \in 1..Cardinality(S) |->
        CHOOSE p \in S : Cardinality({q \in S : <<q, p>> \in before}) = i - 1]

\* The round robin as it is, and the order in which the rows are read.
RoundOrder ==
    {x \in Plan \X Plan : \E i, j \in DOMAIN order : i < j /\ x = <<order[i], order[j]>>}
QueueOrder == {x \in Plan \X Plan : Before(priority, x[1], x[2])}

\* Mutant of Reload: without the self-heal.
ReloadWithoutHeal ==
    LET fresh == booking_candidates
        known == DOMAIN plans
        kept == {p \in known : p \in fresh \/ p \in inflight}
    IN
    /\ stage = "reload"
    /\ stage' = "schedule"
    /\ plans' = [p \in fresh \cup kept |-> IF p \in fresh THEN req[p] ELSE plans[p]]
    /\ order' = InOrder(kept, RoundOrder) \o InOrder(fresh \ known, QueueOrder)
    /\ UNCHANGED <<planVars, portal, rr, inflight, pending, done, fut, today>>

\* _reload: new rows join the end of the order in queue order, rows no longer
\* waiting leave unless in flight, ids in flight without a future are freed.
Reload ==
    LET fresh == booking_candidates
        known == DOMAIN plans
        kept == {p \in known : p \in fresh \/ p \in inflight}
    IN
    /\ stage = "reload"
    /\ stage' = "schedule"
    /\ plans' = [p \in fresh \cup kept |-> IF p \in fresh THEN req[p] ELSE plans[p]]
    /\ order' = InOrder(kept, RoundOrder) \o InOrder(fresh \ known, QueueOrder)
    /\ inflight' = inflight \cap PlansOf(pending)
    /\ UNCHANGED <<planVars, portal, rr, pending, done, fut, today>>

\* The refresh period has not passed, or the database refused the read.
SkipReload ==
    /\ stage = "reload"
    /\ stage' = "schedule"
    /\ UNCHANGED <<planVars, portal, memory, fut, today>>

\* Mutant of Scanned: every scan starts at the head of the order.
ScannedFromHead(k) == order[k]

\* _next_plan: k steps on, the first plan of the round without a request.
Scanned(k) == order[((rr + k - 1) % Len(order)) + 1]

\* Mutant of NextIs: the plan may have a request already.
NextWhoever(k) == k = 1 /\ order # <<>>

NextIs(k) ==
    /\ k \in 1..Len(order)
    /\ Scanned(k) \notin inflight
    /\ \A j \in 1..(k - 1) : Scanned(j) \in inflight

Submit(k) ==
    LET p == Scanned(k) IN
    /\ NextIs(k)
    /\ \E f \in Attempts :
          /\ fut[f].state = "free" /\ f \notin pending
          /\ pending' = pending \cup {f}
          /\ fut' = [fut EXCEPT ![f] = [NoFut EXCEPT !.state = "queued",
                                                    !.plan = p, !.item = plans[p]]]
    /\ rr' = (rr + k) % Len(order)
    /\ inflight' = inflight \cup {p}
    /\ stage' = "watchdog"

\* pool.submit raises, after the plan is marked: the cycle ends here.
SubmitRaises(k) ==
    /\ "submit" \in Faults
    /\ NextIs(k)
    /\ rr' = (rr + k) % Len(order)
    /\ inflight' = inflight \cup {Scanned(k)}
    /\ stage' = "reload"
    /\ UNCHANGED <<pending, fut>>

\* Every plan is in flight: the scan comes round to where it began.
NothingToSubmit ==
    /\ ~\E k \in 1..Len(order) : NextIs(k)
    /\ rr' = IF order = <<>> THEN rr ELSE rr % Len(order)
    /\ stage' = "watchdog"
    /\ UNCHANGED <<inflight, pending, fut>>

AtLimit ==
    /\ stage' = "watchdog"
    /\ UNCHANGED <<rr, inflight, pending, fut>>

\* The pile-up guard.
BelowLimit == Cardinality(inflight) < MaxInflight

Schedule ==
    /\ stage = "schedule"
    /\ IF BelowLimit
       THEN \/ \E k \in 1..Len(order) : Submit(k) \/ SubmitRaises(k)
            \/ NothingToSubmit
       ELSE AtLimit
    /\ UNCHANGED <<planVars, portal, plans, order, done, today>>

\* The bound on attempts alive: the loop waits until a thread ends.
Full == \A f \in Attempts : fut[f].state # "free" \/ f \in pending
ScheduleFull ==
    /\ stage = "schedule" /\ Full
    /\ stage' = "watchdog"
    /\ UNCHANGED <<planVars, portal, memory, fut, today>>

\* Watchdog: attempts not done in time are abandoned.  How old an attempt is
\* the model does not keep: any of them may have hung.  Only an attempt still
\* queued is really cancelled.  Then _reap looks, once, at what is done.
Watchdog ==
    /\ stage = "watchdog"
    /\ stage' = "reap"
    /\ \E hung \in SUBSET {f \in pending : fut[f].state # "done"} :
          /\ hung # {} => "hang" \in Faults
          /\ pending' = pending \ hung
          /\ inflight' = inflight \ PlansOf(hung)
          /\ fut' = [f \in Attempts |->
                       IF f \in hung /\ fut[f].state = "queued" THEN NoFut ELSE fut[f]]
          /\ done' = {f \in pending \ hung : fut[f].state = "done"}
    /\ UNCHANGED <<planVars, portal, plans, order, rr, today>>

\* Mutant of drop: the plan keeps its place in the round robin.
drop_plan_only(p) ==
    /\ plans' = [q \in DOMAIN plans \ {p} |-> plans[q]]
    /\ UNCHANGED order

drop(p) ==
    /\ plans' = [q \in DOMAIN plans \ {p} |-> plans[q]]
    /\ order' = InOrder(Range(order) \ {p}, RoundOrder)

\* One finished future of _reap.  A write the database refuses is only
\* logged and the plan leaves the queue all the same.
ReapOne(f) ==
    LET p == fut[f].plan
        outcome == fut[f].outcome
    IN
    /\ stage = "reap" /\ f \in done
    /\ done' = done \ {f} /\ pending' = pending \ {f}
    /\ inflight' = inflight \ {p}
    /\ fut' = [fut EXCEPT ![f] = NoFut]
    /\ \/ /\ outcome = "booked"
          /\ drop(p)
          /\ mark_booked(p)
       \/ /\ outcome \in FailedTerminal
          /\ drop(p)
          /\ mark_failed(p, FALSE)
       \/ /\ outcome \in FailedTerminal \cup {"booked"} /\ "database" \in Faults
          /\ drop(p)
          /\ UNCHANGED <<status, lease, attempts>>
       \/ /\ outcome \in {"no_slot", "get_failed"}
          /\ UNCHANGED <<plans, order, status, lease, attempts>>
    /\ UNCHANGED <<req, priority, portal, stage, rr, today>>

EndCycle ==
    /\ stage = "reap" /\ done = {}
    /\ stage' = "reload"
    /\ UNCHANGED <<planVars, portal, memory, fut, today>>

LoopStep ==
    \/ Reload \/ SkipReload \/ Schedule \/ ScheduleFull \/ Watchdog
    \/ \E f \in Attempts : ReapOne(f)
    \/ EndCycle

------------------------------------------------------------------------------
(* attempt_booking in a pool thread.                                       *)

\* The answer of an abandoned attempt is seen by nobody.
Finish(f, outcome) ==
    fut' = [fut EXCEPT ![f] = IF f \in pending
                              THEN [@ EXCEPT !.state = "done", !.outcome = outcome]
                              ELSE NoFut]

\* A free pool thread takes the attempt and compares the deadline.
Start(f) ==
    /\ fut[f].state = "queued"
    /\ IF today > fut[f].item.max
       THEN Finish(f, "expired")
       ELSE fut' = [fut EXCEPT ![f].state = "running"]
    /\ UNCHANGED <<planVars, portal, stage, memory, today>>

\* pick_slot_in_window over the slots the portal offers, 0 for None.
pick_slot_in_window(offered, item) ==
    LET fits == {s \in offered : item.min <= day_of(s) /\ day_of(s) <= item.max} IN
    IF fits = {} THEN 0 ELSE CHOOSE s \in fits : \A t \in fits : s <= t

\* invoice_time_slots: GET, then the choice and the stock id.
GetSlots(f) ==
    /\ fut[f].state = "running"
    /\ \/ Finish(f, "get_failed")
       \/ \E offered \in SUBSET Slot :
             LET s == pick_slot_in_window(offered, fut[f].item) IN
             CASE s = 0 -> Finish(f, "no_slot")
               [] s # 0 /\ fut[f].item.invoice \notin Stocked -> Finish(f, "no_stock")
               [] OTHER -> fut' = [fut EXCEPT ![f].state = "found", ![f].slot = s]
    /\ UNCHANGED <<planVars, portal, stage, memory, today>>

\* set_time_slot: done; an error or an empty reply; no answer in time.  The
\* last two say nothing of what Uzum did.
SetTimeSlot(f) ==
    LET i == fut[f].item.invoice IN
    /\ fut[f].state = "found"
    /\ \/ /\ portal' = [portal EXCEPT ![i] = fut[f].slot]
          /\ Finish(f, "booked")
       \/ /\ portal' \in {portal, [portal EXCEPT ![i] = fut[f].slot]}
          /\ Finish(f, "set_failed") \/ fut' = [fut EXCEPT ![f].state = "verifying"]
    /\ UNCHANGED <<planVars, stage, memory, today>>

\* verify_booked: has the invoice any slot?  A failed list counts as no.
VerifyBooked(f) ==
    /\ fut[f].state = "verifying"
    /\ \/ portal[fut[f].item.invoice] # 0 /\ Finish(f, "booked")
       \/ Finish(f, "set_timeout")
    /\ UNCHANGED <<planVars, portal, stage, memory, today>>

ThreadStep(f) == Start(f) \/ GetSlots(f) \/ SetTimeSlot(f) \/ VerifyBooked(f)

------------------------------------------------------------------------------
(* The clock, the process and the users.                                   *)

Midnight ==
    /\ today < LastDay
    /\ today' = today + 1
    /\ UNCHANGED <<planVars, portal, stage, memory, fut>>

\* The process dies with its threads and starts again.
Restart ==
    /\ "restart" \in Faults
    /\ stage' = "reload"
    /\ plans' = <<>> /\ order' = <<>> /\ rr' = 0
    /\ inflight' = {} /\ pending' = {} /\ done' = {}
    /\ fut' = [f \in Attempts |-> NoFut]
    /\ UNCHANGED <<planVars, portal, today>>

Environment ==
    \/ UserStep /\ UNCHANGED <<stage, memory, fut, today>>
    \/ Midnight \/ Restart

Next == LoopStep \/ (\E f \in Attempts : ThreadStep(f)) \/ Environment

Spec == Init /\ [][Next]_vars

\* The loop thread never stops and reloads every few seconds; every request
\* of a pool thread has a timeout; the pool does not refuse work for ever.
FairSpec ==
    /\ Spec
    /\ WF_vars(LoopStep) /\ SF_vars(Reload)
    /\ \A f \in Attempts : WF_vars(ThreadStep(f))
    /\ <>[][\A k \in 1..NumPlans : ~SubmitRaises(k)]_vars

------------------------------------------------------------------------------
(* Properties                                                              *)

\* The queue in memory stays one: the round-robin order lists every plan of
\* the queue once, whatever joins, leaves or is abandoned in between.
OrderListsPlans ==
    IsInjective(order) /\ Range(order) = DOMAIN plans

\* "one active request per invoice at a time": two futures the loop holds are
\* never of one plan, and the plan of each is marked in flight, so that the
\* reload cannot drop it and the round robin cannot submit it again.
OneFuturePerPlan ==
    /\ \A f, g \in pending : f # g => fut[f].plan # fut[g].plan
    /\ PlansOf(pending) \subseteq inflight
    /\ PlansOf(pending) \subseteq DOMAIN plans

\* A plan that may still be booked is attempted, whatever the round robin,
\* the watchdog and a submit that raises do to the queue.
Eligible(p) == p \in booking_candidates
Attempted ==
    \A p \in Plan : Eligible(p) ~> (~Eligible(p) \/ p \in PlansOf(pending))

\* An attempt never keeps its plan in flight for ever.
FlightEnds ==
    \A p \in Plan : p \in inflight ~> p \notin inflight

\* The loop leaves the row waiting while a request for the plan is under way.
Lifecycle == INSTANCE PlanLifecycle
    WITH life <- [p \in Plan |-> IF status[p] = "waiting" /\ p \in PlansOf(pending)
                                 THEN "booking" ELSE status[p]],
         owed <- PlansOf(pending)

\* The loop keeps it too, although it claims nothing and works from a copy of
\* the queue: an attempt the watchdog gave up, or a plan cancelled under the
\* copy, never leads to a second answer or to one for a finished plan.
LifecycleKept == Lifecycle!Spec
==============================================================================
