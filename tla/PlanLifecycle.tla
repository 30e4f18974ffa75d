---------------------------- MODULE PlanLifecycle -----------------------------
(***************************************************************************)
(* What both programs that book slots promise of the life of a plan in the *)
(* avto-slot queue, whatever table, threads and leases they do it with.    *)
(* An attempt is taken on a plan that waits, or on one the seller cancels  *)
(* behind the program's back; each attempt gives one answer at most; and   *)
(* what is booked or failed is never attempted and never changed again but *)
(* by the seller's cancel.                                                 *)
(***************************************************************************)
CONSTANT Plan

VARIABLES
    life,   \* plan -> where it is; "booking" while an attempt on it is under way
    owed    \* the plans that an attempt still owes an answer

Init == life = [p \in Plan |-> "absent"] /\ owed = {}

Enters(p) == life[p] = "absent" /\ life'[p] = "waiting" /\ p \notin owed'

\* An attempt begins: the program does not see a cancel that has just come.
Taken(p) ==
    /\ p \notin owed /\ p \in owed'
    /\ \/ life[p] = "waiting" /\ life'[p] = "booking"
       \/ life[p] = "canceled" /\ life'[p] = "canceled"

\* Its answer, which overwrites a cancel; "waiting" when it may be tried again.
Answered(p) ==
    /\ p \in owed /\ p \notin owed'
    /\ life[p] \in {"booking", "canceled"}
    /\ life'[p] \in {"waiting", "booked", "failed"}

\* The attempt on a cancelled plan ends without a word.
GivenUp(p) ==
    /\ p \in owed /\ p \notin owed'
    /\ life[p] = "canceled" /\ life'[p] = "canceled"

Canceled(p) ==
    /\ life[p] # "absent" /\ life'[p] = "canceled"
    /\ p \in owed' => p \in owed

Stays(p) == life'[p] = life[p] /\ (p \in owed' <=> p \in owed)

PlanStep(p) == Enters(p) \/ Taken(p) \/ Answered(p) \/ GivenUp(p) \/ Canceled(p) \/ Stays(p)

\* One step of a program may take or answer several plans.
Next ==
    /\ \A p \in Plan : PlanStep(p)
    /\ DOMAIN life' = Plan /\ owed' \subseteq Plan

Spec == Init /\ [][Next]_<<life, owed>>
==============================================================================
