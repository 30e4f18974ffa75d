-------------------------- MODULE AutoslotAllocator --------------------------
(***************************************************************************)
(* The avto-slot consumer, postavki/autoslot/allocator.py in mode "live".  *)
(* One thread takes SlotFreedEvents off the in-process bus, one after the  *)
(* other: the flock of background/startup.py leaves one process with       *)
(* background threads.  Inside an event the chosen plans are booked by     *)
(* parallel threads.  Sellers and the admin write the table at any moment, *)
(* and the process may be restarted between any two steps.                 *)
(***************************************************************************)
EXTENDS AutoslotPlans

CONSTANTS
    Volumes,        \* free volumes an event may carry
    RetryRounds,    \* RETRY_ROUNDS
    MaxRestarts     \* bound on process restarts

ASSUME AllocatorAssumption ==
    /\ Volumes \subseteq Nat /\ Volumes # {}
    /\ RetryRounds \in Nat /\ MaxRestarts \in Nat

VARIABLES
    pc,         \* where on_slot_freed is
    event,      \* the event being handled
    expired,    \* rows release_expired has read and not yet written
    cands,      \* the candidates, read once per event
    rank,       \* their priorities as read with them
    tried,      \* plans offered to claim during this event
    chosen,     \* plans selected for the round
    round,
    task,       \* plan id -> state of its booking thread in this round
    won,        \* plans booked in the earlier rounds of this event
    restarts,
    sets        \* history: plan id -> set_time_slot calls made for it

localVars == <<event, expired, cands, rank, tried, chosen, round, task, won>>
vars == <<planVars, portal, pc, localVars, restarts, sets>>

TaskState == {"none", "claimed", "accepted", "refused", "booked", "failed", "aborted"}

TypeOK ==
    /\ PlansTypeOK
    /\ pc \in {"idle", "releasing", "claiming", "booking"}
    /\ event \in [slot : Slot, volume : Volumes]
    /\ expired \subseteq Plan /\ cands \subseteq Plan /\ tried \subseteq Plan
    /\ chosen \subseteq Plan /\ won \subseteq Plan
    /\ rank \in [Plan -> Priorities]
    /\ round \in Nat /\ restarts \in Nat
    /\ task \in [Plan -> TaskState]
    /\ sets \in [Plan -> Nat]

NoTasks == [p \in Plan |-> "none"]
NoEvent == CHOOSE e \in [slot : Slot, volume : Volumes] : TRUE

LocalInit ==
    /\ event = NoEvent
    /\ expired = {} /\ cands = {} /\ tried = {} /\ chosen = {} /\ won = {}
    /\ rank = [p \in Plan |-> 0]
    /\ round = 0
    /\ task = NoTasks

Init ==
    /\ PlansInit
    /\ pc = "idle" /\ LocalInit
    /\ restarts = 0
    /\ sets = [p \in Plan |-> 0]

\* The handler returns: its local variables are gone.
Return ==
    /\ pc' = "idle"
    /\ event' = NoEvent
    /\ expired' = {} /\ cands' = {} /\ tried' = {} /\ chosen' = {} /\ won' = {}
    /\ rank' = [p \in Plan |-> 0]
    /\ round' = 0
    /\ task' = NoTasks

------------------------------------------------------------------------------
(* select_for_capacity: first fit in queue order.                          *)

\* The units of the plans of S: a unit is its plan and its number there.
Units(S) == UNION {{p} \X (1..VolumeOf(p)) : p \in S}

TotalVolume(S) == Cardinality(Units(S))

\* sel is what the one pass over the queue S leaves in "chosen".
FirstFit(sel, S, r, capacity) ==
    \A p \in S :
        p \in sel <=>
           /\ VolumeOf(p) > 0
           /\ TotalVolume({q \in sel : Before(r, q, p)}) + VolumeOf(p) <= capacity

------------------------------------------------------------------------------
(* on_slot_freed                                                           *)

\* Mutant of Receive: a second consumer takes the event while one is booking.
ReceiveWhileBooking(e) ==
    /\ pc \in {"idle", "booking"}
    /\ pc' = "releasing"
    /\ event' = e
    /\ expired' = ExpiredClaims
    /\ UNCHANGED <<planVars, portal, cands, rank, tried, chosen, round, task, won, restarts, sets>>

\* Takes the event; the SELECT of release_expired.
Receive(e) ==
    /\ pc = "idle"
    /\ pc' = "releasing"
    /\ event' = e
    /\ expired' = ExpiredClaims
    /\ UNCHANGED <<planVars, portal, cands, rank, tried, chosen, round, task, won, restarts, sets>>

\* The UPDATEs and COMMIT of release_expired.
Release ==
    /\ pc = "releasing" /\ expired # {}
    /\ release_rows(expired)
    /\ expired' = {}
    /\ UNCHANGED <<req, priority, portal, pc, event, cands, rank, tried, chosen,
                   round, task, won, restarts, sets>>

\* candidates_for and the first selection; nothing chosen ends the event.
Choose ==
    /\ pc = "releasing" /\ expired = {}
    /\ LET S == candidates_for(event.slot) IN
       \E sel \in SUBSET S :
          /\ FirstFit(sel, S, priority, event.volume)
          /\ IF sel = {}
             THEN Return
             ELSE /\ pc' = "claiming"
                  /\ cands' = S /\ rank' = priority /\ chosen' = sel
                  /\ UNCHANGED <<event, expired, tried, round, task, won>>
    /\ UNCHANGED <<planVars, portal, restarts, sets>>

\* store.claim; a round that claims nothing ends the event.
Claim ==
    /\ pc = "claiming"
    /\ claim(chosen)
    /\ IF Claimable(chosen) = {}
       THEN Return
       ELSE /\ pc' = "booking"
            /\ tried' = tried \cup chosen
            /\ task' = [p \in Plan |-> IF p \in Claimable(chosen) THEN "claimed" ELSE "none"]
            /\ UNCHANGED <<event, expired, cands, rank, chosen, round, won>>
    /\ UNCHANGED <<req, priority, portal, restarts, sets>>

\* _book_one without a stock id: terminal, no call.
NoStock(p) ==
    /\ task[p] = "claimed" /\ ~HasStock(p)
    /\ mark_failed(p, FALSE)
    /\ task' = [task EXCEPT ![p] = "failed"]
    /\ UNCHANGED <<req, priority, portal, pc, event, expired, cands, rank, tried,
                   chosen, round, won, restarts, sets>>

\* set_time_slot.  An error or an empty reply says nothing of what Uzum did.
SetTimeSlot(p) ==
    /\ task[p] = "claimed" /\ HasStock(p)
    /\ sets' = [sets EXCEPT ![p] = @ + 1]
    /\ \/ /\ task' = [task EXCEPT ![p] = "accepted"]
          /\ portal' = [portal EXCEPT ![req[p].invoice] = event.slot]
       \/ /\ task' = [task EXCEPT ![p] = "refused"]
          /\ \/ portal' = [portal EXCEPT ![req[p].invoice] = event.slot]
             \/ UNCHANGED portal
    /\ UNCHANGED <<planVars, pc, event, expired, cands, rank, tried, chosen,
                   round, won, restarts>>

\* The answer is written to the row.
Record(p) ==
    /\ \/ /\ task[p] = "accepted"
          /\ mark_booked(p)
          /\ task' = [task EXCEPT ![p] = "booked"]
       \/ /\ task[p] = "refused"
          /\ mark_failed(p, TRUE)
          /\ task' = [task EXCEPT ![p] = "failed"]
    /\ UNCHANGED <<req, priority, portal, pc, event, expired, cands, rank, tried,
                   chosen, round, won, restarts, sets>>

TasksIn(state) == {p \in Plan : task[p] = state}

\* The database refuses the write, of the answer or of the missing stock id:
\* the exception reaches consume_forever.
RecordFails(p) ==
    /\ \/ task[p] \in {"accepted", "refused"}
       \/ task[p] = "claimed" /\ ~HasStock(p)
    /\ task' = [task EXCEPT ![p] = "aborted"]
    /\ UNCHANGED <<planVars, portal, pc, event, expired, cands, rank, tried,
                   chosen, round, won, restarts, sets>>

\* After such an exception ex.map cancels the futures no thread has begun: of
\* any plan here, where the code has a thread for each of the first
\* BOOK_MAX_WORKERS.
NeverBegun(p) ==
    /\ task[p] = "claimed" /\ TasksIn("aborted") # {}
    /\ task' = [task EXCEPT ![p] = "aborted"]
    /\ UNCHANGED <<planVars, portal, pc, event, expired, cands, rank, tried,
                   chosen, round, won, restarts, sets>>

\* Mutant of FailedVolume: the retry fills the whole slot once more.
EventVolume == event.volume

FailedVolume == TotalVolume(TasksIn("failed"))

\* All threads joined: retry the volume that failed, or finish.
EndRound ==
    /\ pc = "booking"
    /\ \A p \in Plan : task[p] \in {"none", "booked", "failed", "aborted"}
    /\ LET again == IF TasksIn("aborted") = {} /\ round < RetryRounds
                    THEN cands \ tried ELSE {} IN
       \E sel \in SUBSET again :
          /\ FirstFit(sel, again, rank, FailedVolume)
          /\ IF sel = {}
             THEN Return
             ELSE /\ pc' = "claiming"
                  /\ chosen' = sel /\ round' = round + 1
                  /\ won' = won \cup TasksIn("booked")
                  /\ task' = NoTasks
                  /\ UNCHANGED <<event, expired, cands, rank, tried>>
    /\ UNCHANGED <<planVars, portal, restarts, sets>>

\* The process dies and is started again; the table survives.
Restart ==
    /\ restarts < MaxRestarts
    /\ pc # "idle"
    /\ restarts' = restarts + 1
    /\ Return
    /\ UNCHANGED <<planVars, portal, sets>>

ConsumerStep ==
    \/ Release \/ Choose \/ Claim \/ EndRound
    \/ \E p \in Plan : \/ NoStock(p) \/ SetTimeSlot(p) \/ Record(p)
                       \/ RecordFails(p) \/ NeverBegun(p)

Environment ==
    \/ (UserStep \/ \E p \in Plan : LeasePasses(p))
       /\ UNCHANGED <<pc, localVars, restarts, sets>>
    \/ Restart

Next ==
    \/ \E e \in [slot : Slot, volume : Volumes] : Receive(e)
    \/ ConsumerStep
    \/ Environment

Spec == Init /\ [][Next]_vars

\* The consumer thread runs while the process does; leases end by the clock.
\* Slots are freed again and again: an assumption on the warehouse.
FairSpec ==
    /\ Spec
    /\ WF_vars(ConsumerStep)
    /\ WF_vars(\E e \in [slot : Slot, volume : Volumes] : Receive(e))
    /\ \A p \in Plan : WF_vars(LeasePasses(p) /\ UNCHANGED <<pc, localVars, restarts, sets>>)

------------------------------------------------------------------------------
(* Properties                                                              *)

InFlight == {p \in Plan : task[p] \in {"claimed", "accepted", "refused"}}

\* A plan never costs more set_time_slot calls than it has claimed attempts,
\* and never more than MAX_ATTEMPTS, although claim itself does not look at
\* attempts and a restart forgets what was called (store.py, the penalty
\* the MAX_ATTEMPTS comment fears).
SetBudget ==
    \A p \in Plan : sets[p] <= attempts[p] /\ attempts[p] <= MaxAttempts

\* A waiting plan can still be a candidate: no path puts an exhausted plan
\* back in the queue, where candidates_for would never see it again.
NoDeadWaiting ==
    \A p \in Plan : status[p] = "waiting" => attempts[p] < MaxAttempts

\* While a thread works on a plan no other path has put the row back in the
\* queue: the row is the claim, or the seller's cancel on top of it.
ClaimHeld ==
    \A p \in InFlight : status[p] \in {"booking", "canceled"}

\* Over all rounds of an event, what is booked and what is being booked fits
\* the volume that was freed.
CapacityRespected ==
    pc = "booking" =>
        TotalVolume(won \cup {p \in Plan : task[p] \in {"claimed", "accepted", "booked"}})
            <= event.volume

\* Only the seller ends a booked plan: a late failure, an expired lease or a
\* second event never turns it back into work.
BookedSticks ==
    [][\A p \in Plan : status[p] = "booked" => status'[p] \in {"booked", "canceled"}]_vars

\* A claim whose thread died does not hold its plan for ever.
ClaimEnds ==
    \A p \in Plan : status[p] = "booking" ~> status[p] # "booking"

\* The plans an attempt owes an answer: a thread works on the plan, or the row
\* is a claim, which release_expired will answer for, or is about to.
Owed == InFlight \cup expired \cup {p \in Plan : status[p] = "booking"}

Lifecycle == INSTANCE PlanLifecycle WITH life <- status, owed <- Owed

\* The consumer gives every plan the life the queue promises: no answer comes
\* twice for one claim, none for a plan that is booked or failed already,
\* whatever restarts, leases and cancels come between claim and answer.
LifecycleKept == Lifecycle!Spec
==============================================================================
