-------------------------- MODULE SubscriptionState --------------------------
(***************************************************************************)
(* What a subscription is, as core/subscriptions.py computes it: the two   *)
(* columns of a user, the trial, and when both together are active.  Times *)
(* are days.                                                               *)
(***************************************************************************)
EXTENDS Integers

CONSTANT TrialEnd       \* trial_started_at + trial_days of a user

ASSUME TrialAssumption == TrialEnd \in Nat

\* subscription_expires_at NULL: before every date.
NULL == -1000
Subscription == [until : Int, unlimited : BOOLEAN]
NoSubscription == [until |-> NULL, unlimited |-> FALSE]
Unlimited == [until |-> NULL, unlimited |-> TRUE]

Later(a, b) == IF a >= b THEN a ELSE b

\* _subscription_status_for_user: active until the later of trial and paid.
EffectiveEnd(sub) == Later(TrialEnd, sub.until)
IsActive(sub, at) == sub.unlimited \/ EffectiveEnd(sub) > at

\* The days of a plan, a code or the admin start at the end of what is active
\* and timed, else at once.
Extended(sub, days, at) ==
    days + IF IsActive(sub, at) /\ ~sub.unlimited THEN Later(at, EffectiveEnd(sub)) ELSE at

==============================================================================
