----------------------------- MODULE PaymeBilling -----------------------------
(***************************************************************************)
(* The Payme merchant API of payments/routes.py for one user: orders, the  *)
(* transactions Payme opens on them, and the subscription that a completed *)
(* transaction extends and a cancelled one rolls back.                     *)
(*                                                                         *)
(* A handler is a database session under READ COMMITTED that locks nothing:*)
(* each SELECT is a step and the COMMIT is a step.  What the handler       *)
(* decides, it decides from the rows as it read them.  What follows the    *)
(* commit (caches and the Redis revoke list) is in SubscriptionGate.       *)
(* Times are days.                                                         *)
(***************************************************************************)
EXTENDS SubscriptionState, FiniteSets

CONSTANTS
    Order,          \* orders of the user
    Tx,             \* transaction ids of Payme
    OrderOf,        \* [Tx -> Order], account.order_id of each
    Days,           \* [Order -> Nat \ {0}], duration_days of each
    Worker,         \* requests served at the same time
    Horizon,        \* bound on the clock
    Crashes,        \* bound on requests cut off half-way
    Others          \* other writers of the subscription that act

ASSUME BillingAssumption ==
    /\ OrderOf \in [Tx -> Order] /\ Days \in [Order -> Nat \ {0}] /\ IsFiniteSet(Order)
    /\ Horizon \in Nat /\ Crashes \in Nat
    /\ Others \subseteq {"code", "unlimited", "clear"}

VARIABLES
    order,      \* Order -> row of subscription_orders
    tx,         \* Tx -> state of the row in payme_transactions, "none" before
    stale,      \* transactions created 12 hours ago or more
    user,       \* subscription_expires_at, subscription_is_unlimited
    now,
    call,       \* Worker -> the request it serves
    crashed,
    given,      \* history: days given by activation codes
    reset       \* history: made unlimited or cleared over a payment

rows == <<order, tx, stale, user>>
history == <<given, reset>>
vars == <<rows, now, call, crashed, history>>

\* _PAYME_STATE_CREATED 1, COMPLETED 2, CANCELLED -1, CANCELLED_AFTER_COMPLETE -2
TxState == {"none", "created", "completed", "cancelled", "reversed"}
Active == {"created", "completed"}
OrderStatus == {"absent", "pending", "paid", "cancelled"}
OrderRow == [status : OrderStatus, previous : Subscription, applied : Int]
NoOrder == [status |-> "absent", previous |-> NoSubscription, applied |-> NULL]

Step == {"order", "by_id", "active", "insert", "expire", "tx", "user", "commit"}
Call == [kind : {"create", "perform", "cancel"}, tx : Tx, step : Step,
         seen_tx : TxState, seen_order : OrderRow, seen_user : Subscription, applied : Int]
Idle == [kind |-> "idle"]

TypeOK ==
    /\ order \in [Order -> OrderRow]
    /\ tx \in [Tx -> TxState] /\ stale \subseteq Tx
    /\ user \in Subscription /\ now \in 0..Horizon
    /\ call \in [Worker -> Call \cup {Idle}]
    /\ crashed \in 0..Crashes /\ given \in Nat /\ reset \in BOOLEAN

Init ==
    /\ order = [o \in Order |-> NoOrder]
    /\ tx = [t \in Tx |-> "none"] /\ stale = {}
    /\ user = NoSubscription
    /\ now = 0
    /\ call = [w \in Worker |-> Idle]
    /\ crashed = 0 /\ given = 0 /\ reset = FALSE

\* _apply_paid_subscription_plan, also of _activate_subscription_code.
AppliedUntil(u, days) == Extended(u, days, now)

------------------------------------------------------------------------------
(* Requests.                                                               *)

At(w, kinds, step) == call[w] # Idle /\ call[w].kind \in kinds /\ call[w].step = step
Goto(w, step) == call' = [call EXCEPT ![w].step = step]
Answer(w) == call' = [call EXCEPT ![w] = Idle]

create_payme_order(o) ==
    /\ order[o].status = "absent"
    /\ order' = [order EXCEPT ![o].status = "pending"]
    /\ UNCHANGED <<tx, stale, user, now, call, crashed, history>>

\* Payme calls a method; it may repeat any call at any time.
payme_rpc(w, kind, t) ==
    /\ call[w] = Idle
    /\ call' = [call EXCEPT ![w] =
                  [kind |-> kind, tx |-> t, step |-> IF kind = "create" THEN "order" ELSE "tx",
                   seen_tx |-> "none", seen_order |-> NoOrder, seen_user |-> NoSubscription,
                   applied |-> NULL]]
    /\ UNCHANGED <<rows, now, crashed, history>>

(* CreateTransaction                                                       *)

CreateReadsOrder(w) ==
    /\ At(w, {"create"}, "order")
    /\ IF order[OrderOf[call[w].tx]].status = "pending"
       THEN Goto(w, "by_id")
       ELSE Answer(w)           \* -31050, -31008
    /\ UNCHANGED <<rows, now, crashed, history>>

\* A transaction known by its id is answered as it is.
CreateReadsById(w) ==
    /\ At(w, {"create"}, "by_id")
    /\ IF tx[call[w].tx] # "none" THEN Answer(w) ELSE Goto(w, "active")
    /\ UNCHANGED <<rows, now, crashed, history>>

\* Mutant of ActiveFor: a transaction counts only once it is completed.
CompletedFor(o) == {t \in Tx : OrderOf[t] = o /\ tx[t] = "completed"}

ActiveFor(o) == {t \in Tx : OrderOf[t] = o /\ tx[t] \in Active}

\* scalar_one_or_none over the active transactions of the order: two raise.
CreateReadsActive(w) ==
    LET active == ActiveFor(OrderOf[call[w].tx]) IN
    /\ At(w, {"create"}, "active")
    /\ \/ /\ active = {}
          /\ Goto(w, "insert")
       \/ \E t \in active :
             /\ active = {t} /\ tx[t] = "created" /\ t \in stale
             /\ call' = [call EXCEPT ![w].step = "expire", ![w].tx = t]
       \/ /\ active # {}
          /\ ~\E t \in active : active = {t} /\ tx[t] = "created" /\ t \in stale
          /\ Answer(w)          \* -31008, -32400
    /\ UNCHANGED <<rows, now, crashed, history>>

\* INSERT; the unique index refuses an id that came in meanwhile.
CreateInserts(w) ==
    LET t == call[w].tx IN
    /\ At(w, {"create"}, "insert")
    /\ tx' = IF tx[t] = "none" THEN [tx EXCEPT ![t] = "created"] ELSE tx
    /\ Answer(w)
    /\ UNCHANGED <<order, stale, user, now, crashed, history>>

\* Mutant of CreateExpires: a state of its own for a timed-out transaction.
CreateExpiresApart(w) ==
    LET t == call[w].tx IN
    /\ At(w, {"create"}, "expire")
    /\ tx' = [tx EXCEPT ![t] = "expired"]
    /\ order' = [order EXCEPT ![OrderOf[t]].status = "cancelled"]
    /\ Answer(w)
    /\ UNCHANGED <<stale, user, now, crashed, history>>

\* The active transaction timed out: it and the order are cancelled.
CreateExpires(w) ==
    LET t == call[w].tx IN
    /\ At(w, {"create"}, "expire")
    /\ tx' = [tx EXCEPT ![t] = "cancelled"]
    /\ order' = [order EXCEPT ![OrderOf[t]].status = "cancelled"]
    /\ Answer(w)
    /\ UNCHANGED <<stale, user, now, crashed, history>>

(* PerformTransaction and CancelTransaction                                *)

\* Mutant of Proceeds: only a completed transaction is not performed.
ProceedsUnlessDone(kind, seen) ==
    IF kind = "perform" THEN seen # "completed" ELSE seen \in Active

\* The states the handler does not answer at once.
Proceeds(kind, seen) ==
    IF kind = "perform" THEN seen = "created" ELSE seen \in Active

ReadsTx(w) ==
    LET seen == tx[call[w].tx] IN
    /\ At(w, {"perform", "cancel"}, "tx")
    /\ IF Proceeds(call[w].kind, seen)
       THEN call' = [call EXCEPT ![w].step = "order", ![w].seen_tx = seen]
       ELSE Answer(w)           \* -31003, -31008, or the stored result
    /\ UNCHANGED <<rows, now, crashed, history>>

ReadsOrder(w) ==
    LET seen == order[OrderOf[call[w].tx]] IN
    /\ At(w, {"perform", "cancel"}, "order")
    /\ IF call[w].kind = "perform" /\ seen.status = "cancelled"
       THEN Answer(w)           \* -31008
       ELSE call' = [call EXCEPT ![w].seen_order = seen,
                        ![w].step = IF call[w].seen_tx = "completed" \/ call[w].kind = "perform"
                                    THEN "user" ELSE "commit"]
    /\ UNCHANGED <<rows, now, crashed, history>>

\* db.get(User); a perform computes the new end with the time it reads here.
ReadsUser(w) ==
    /\ At(w, {"perform", "cancel"}, "user")
    /\ call' = [call EXCEPT ![w].step = "commit", ![w].seen_user = user,
                    ![w].applied = IF call[w].kind = "perform"
                                   THEN AppliedUntil(user, Days[OrderOf[call[w].tx]])
                                   ELSE NULL]
    /\ UNCHANGED <<rows, now, crashed, history>>

\* The UPDATE names the columns that differ from the row as it was read.
Save(seen, new) ==
    user' = [until |-> IF new.until = seen.until THEN user.until ELSE new.until,
             unlimited |-> IF new.unlimited = seen.unlimited THEN user.unlimited
                           ELSE new.unlimited]

PerformCommits(w) ==
    LET c == call[w]
        o == OrderOf[c.tx]
    IN
    /\ At(w, {"perform"}, "commit")
    /\ IF c.seen_order.status # "paid"
       THEN /\ order' = [order EXCEPT ![o] = [status |-> "paid", previous |-> c.seen_user,
                                              applied |-> c.applied]]
            /\ Save(c.seen_user, [until |-> c.applied, unlimited |-> FALSE])
       ELSE UNCHANGED <<order, user>>
    /\ tx' = [tx EXCEPT ![c.tx] = "completed"]
    /\ Answer(w)
    /\ UNCHANGED <<stale, now, crashed, history>>

CancelCreated(w) ==
    LET c == call[w] IN
    /\ At(w, {"cancel"}, "commit") /\ c.seen_tx = "created"
    /\ tx' = [tx EXCEPT ![c.tx] = "cancelled"]
    /\ order' = [order EXCEPT ![OrderOf[c.tx]].status = "cancelled"]
    /\ Answer(w)
    /\ UNCHANGED <<stale, user, now, crashed, history>>

\* Mutant of RolledBack: always what the order found.
RolledBackToPrevious(o, u, days) == o.previous

\* What a chargeback leaves of the subscription.
RolledBack(o, u, days) ==
    IF u.until # o.applied /\ u.until # NULL /\ ~u.unlimited
    THEN [u EXCEPT !.until = u.until - days]
    ELSE o.previous

CancelCompleted(w) ==
    LET c == call[w]
        o == OrderOf[c.tx]
    IN
    /\ At(w, {"cancel"}, "commit") /\ c.seen_tx = "completed"
    /\ Save(c.seen_user, RolledBack(c.seen_order, c.seen_user, Days[o]))
    /\ tx' = [tx EXCEPT ![c.tx] = "reversed"]
    /\ order' = [order EXCEPT ![o].status = "cancelled"]
    /\ Answer(w)
    /\ UNCHANGED <<stale, now, crashed, history>>

------------------------------------------------------------------------------
(* The rest of the program, and the world.                                 *)

Reset ==
    /\ reset' = (\/ reset
                 \/ \E o \in Order : order[o].status = "paid"
                 \/ \E w \in Worker : call[w] # Idle)
    /\ UNCHANGED given

\* Activation of a code of one day (up to the horizon: a bound), or of an
\* unlimited one; the admin's clear.
OtherWriter ==
    /\ \/ /\ "code" \in Others /\ user.until < Horizon /\ given < Horizon
          /\ user' = [until |-> AppliedUntil(user, 1), unlimited |-> FALSE]
          /\ given' = given + 1
          /\ UNCHANGED reset
       \/ /\ "unlimited" \in Others
          /\ user' = Unlimited
          /\ Reset
       \/ /\ "clear" \in Others
          /\ user' = NoSubscription
          /\ Reset
    /\ UNCHANGED <<order, tx, stale, now, call, crashed>>

TwelveHoursPass(t) ==
    /\ tx[t] = "created" /\ t \notin stale
    /\ stale' = stale \cup {t}
    /\ UNCHANGED <<order, tx, user, now, call, crashed, history>>

DayPasses ==
    /\ now < Horizon
    /\ now' = now + 1
    /\ UNCHANGED <<rows, call, crashed, history>>

\* The web process dies while it serves a request.
Crash(w) ==
    /\ crashed < Crashes /\ call[w] # Idle
    /\ crashed' = crashed + 1
    /\ Answer(w)
    /\ UNCHANGED <<rows, now, history>>

Handler(w) ==
    \/ CreateReadsOrder(w) \/ CreateReadsById(w) \/ CreateReadsActive(w)
    \/ CreateInserts(w) \/ CreateExpires(w)
    \/ ReadsTx(w) \/ ReadsOrder(w) \/ ReadsUser(w)
    \/ PerformCommits(w) \/ CancelCreated(w) \/ CancelCompleted(w)

Next ==
    \/ \E o \in Order : create_payme_order(o)
    \/ \E w \in Worker, t \in Tx, k \in {"create", "perform", "cancel"} : payme_rpc(w, k, t)
    \/ \E w \in Worker : Handler(w) \/ Crash(w)
    \/ \E t \in Tx : TwelveHoursPass(t)
    \/ OtherWriter \/ DayPasses

Spec == Init /\ [][Next]_vars

------------------------------------------------------------------------------
(* Properties, for a Payme that waits for one answer before it calls again *)
(* (one worker), whatever is cut off, repeated, timed out or cancelled.    *)

TxOf(o, states) == {t \in Tx : OrderOf[t] = o /\ tx[t] \in states}

\* Orders and transactions tell the same story: a paid order has exactly one
\* completed transaction, a pending one at most a created one, and nothing that
\* is cancelled can still be performed.
LedgerAgrees ==
    \A o \in Order :
        /\ order[o].status = "paid" =>
              Cardinality(TxOf(o, {"completed"})) = 1 /\ TxOf(o, {"created"}) = {}
        /\ order[o].status = "pending" =>
              TxOf(o, {"completed", "reversed"}) = {} /\ Cardinality(TxOf(o, Active)) <= 1
        /\ order[o].status \in {"absent", "cancelled"} => TxOf(o, Active) = {}

Paid == {o \in Order : order[o].status = "paid"}

\* The days of a set of orders, each day of each order counted.
DaysOf(S) == Cardinality(UNION {{o} \X (1..Days[o]) : o \in S})

\* Nobody has days nobody paid for: beyond today or the trial the subscription
\* has at most the days of the orders that are paid and of the codes activated,
\* in whatever order the orders were performed and cancelled, whichever branch
\* of the rollback ran and whatever calls were repeated.  A subscription that
\* was made unlimited or cleared while an order was paid, or in the middle of a
\* call, is left out: cancelling that order restores what the order once found,
\* another cancelled order's days included.
NoFreeDays ==
    ~reset => user.until <= Later(now, TrialEnd) + DaysOf(Paid) + given

\* A transaction only goes forward: created, then completed, then reversed, or
\* cancelled before it was completed.
TxForward ==
    [][\A t \in Tx : tx'[t] # tx[t] =>
          <<tx[t], tx'[t]>> \in {<<"none", "created">>, <<"created", "completed">>,
                                <<"created", "cancelled">>, <<"completed", "reversed">>}]_vars
==============================================================================
