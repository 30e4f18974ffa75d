------------------------- MODULE PaymeBillingProofs -------------------------
(***************************************************************************)
(* The merchant API, for any orders, transactions and days, and a Payme    *)
(* that waits for one answer before it calls again: orders and             *)
(* transactions agree, transactions go forward, and nobody has days that   *)
(* nobody paid for.                                                        *)
(***************************************************************************)
EXTENDS PaymeBilling, FiniteSetTheorems, TLAPS

OneWorker == \A v, w \in Worker : v = w

------------------------------------------------------------------------------
(* The invariants.                                                         *)

TxsOf(o) == {t \in Tx : OrderOf[t] = o}

\* What LedgerAgrees says of one order, without counting.
Agrees(o) ==
    /\ order[o].status = "paid" =>
          \E t \in TxsOf(o) : /\ tx[t] = "completed"
                             /\ \A u \in TxsOf(o) : tx[u] \in Active => u = t
    /\ order[o].status = "pending" =>
          /\ \A t \in TxsOf(o) : tx[t] \notin {"completed", "reversed"}
          /\ \A t, u \in TxsOf(o) : tx[t] = "created" /\ tx[u] = "created" => t = u
    /\ order[o].status = "absent" => \A t \in TxsOf(o) : tx[t] \in {"none", "cancelled"}
    /\ order[o].status = "cancelled" => \A t \in TxsOf(o) : tx[t] \notin Active

\* What a request has read is still so: nobody else writes these rows.
Creating(c) ==
    LET o == OrderOf[c.tx] IN
    /\ c.step \in {"order", "by_id", "active", "insert", "expire"}
    /\ c.step # "order" => order[o].status = "pending"
    /\ c.step \in {"active", "insert"} => tx[c.tx] = "none"
    /\ c.step = "insert" => \A t \in TxsOf(o) : tx[t] \notin Active
    /\ c.step = "expire" => tx[c.tx] = "created"

Settling(c) ==
    LET o == OrderOf[c.tx] IN
    /\ c.step \in {"tx", "order", "user", "commit"}
    /\ c.step # "tx" => /\ c.seen_tx = tx[c.tx] /\ c.seen_tx \in Active
                        /\ c.kind = "perform" => c.seen_tx = "created"
    /\ c.step \in {"user", "commit"} => c.seen_order = order[o]
    /\ c.step = "user" /\ c.kind = "cancel" => c.seen_tx = "completed"

Reads == \A w \in Worker : call[w] # Idle =>
            IF call[w].kind = "create" THEN Creating(call[w]) ELSE Settling(call[w])

Ledger == (\A o \in Order : Agrees(o)) /\ Reads

LInv == TypeOK /\ Ledger

(* The days.  "start" of a paid order is the day its own days begin; what  *)
(* the subscription was before lies below it when it had expired.          *)

Start(o) == order[o].applied - Days[o]
Gap(o) == order[o].previous.unlimited \/ order[o].previous.until # Start(o)
Today == Later(now, TrialEnd)

\* found[o] is the number of days that were paid when the order was performed.
Found(found, o) ==
    /\ Start(o) >= 0 /\ order[o].previous.until <= Start(o)
    /\ order[o].previous.unlimited => order[o].previous.until <= 0
    /\ Gap(o) => Start(o) <= Today
    /\ found[o] = 0 \/ /\ ~order[o].previous.unlimited
                       /\ order[o].previous.until >= found[o]

\* One of two orders that began a period of their own began it later, or had
\* in front of it no more days than the first left.
InTurn(found, o, p) ==
    \/ Start(o) >= Start(p)
    \/ found[p] <= found[o] + Later(0, order[p].previous.until - Start(o))

\* The days a subscription holds for the orders that are paid.
Holds(found, sub) ==
    /\ Paid # {} => ~sub.unlimited /\ sub.until >= DaysOf(Paid)
    /\ sub.until <= Today + DaysOf(Paid) + given
    /\ sub.unlimited => sub.until <= 0
    /\ \A o \in Paid : Gap(o) =>
          DaysOf(Paid) <= found[o] + Later(0, sub.until - Start(o))

\* A request at its commit computes with a subscription that held them.
Computes(found, c) ==
    /\ Holds(found, c.seen_user)
    /\ ~c.seen_user.unlimited => ~user.unlimited
    /\ c.kind = "perform" =>
         LET start == c.applied - Days[OrderOf[c.tx]] IN
         /\ start >= 0 /\ c.seen_user.until <= start
         /\ start <= Today + DaysOf(Paid) + given
         /\ c.seen_user.unlimited \/ c.seen_user.until # start => start <= Today
         /\ \A o \in Paid : Gap(o) => start >= Start(o)

Committing(w) ==
    /\ At(w, {"perform", "cancel"}, "commit")
    /\ call[w].kind = "perform" \/ call[w].seen_tx = "completed"

Counted(found) ==
    /\ \A o \in Paid : Found(found, o)
    /\ \A o, p \in Paid : o # p /\ Gap(o) /\ Gap(p) => InTurn(found, o, p)
    /\ Holds(found, user)
    /\ \A w \in Worker : Committing(w) => Computes(found, call[w])

DaysKept == ~reset => \E found \in [Order -> Nat] : Counted(found)

DInv == LInv /\ DaysKept

------------------------------------------------------------------------------
(* Types.                                                                  *)

LEMMA NullTypes ==
    NULL \in Int /\ NoSubscription \in Subscription /\ NoOrder \in OrderRow
<1>1. NULL \in Int
  BY DEF NULL
<1>2. NoSubscription \in Subscription
  BY <1>1 DEF NoSubscription, Subscription
<1>. QED
  BY <1>1, <1>2 DEF NoOrder, OrderRow, OrderStatus

LEMMA InitTypes == Init => TypeOK
<1> SUFFICES ASSUME Init PROVE TypeOK
  OBVIOUS
<1>1. order \in [Order -> OrderRow] /\ user \in Subscription
  BY NullTypes DEF Init
<1>2. tx \in [Tx -> TxState] /\ stale \subseteq Tx
  BY DEF Init, TxState
<1>3. call \in [Worker -> Call \cup {Idle}]
  BY DEF Init
<1>4. now \in 0..Horizon /\ crashed \in 0..Crashes /\ given \in Nat
  BY BillingAssumption DEF Init
<1>5. reset \in BOOLEAN
  BY DEF Init
<1>. QED
  BY <1>1, <1>2, <1>3, <1>4, <1>5 DEF TypeOK

\* A request being served is a whole record.
LEMMA CallTypes ==
    ASSUME TypeOK, NEW w \in Worker, call[w] # Idle
    PROVE  /\ call[w] \in Call
           /\ OrderOf[call[w].tx] \in Order
           /\ Days[OrderOf[call[w].tx]] \in Nat \ {0}
BY BillingAssumption DEF TypeOK, Call

LEMMA ExtendedType ==
    ASSUME NEW sub \in Subscription, NEW d \in Int, NEW at \in Int
    PROVE  Extended(sub, d, at) \in Int
BY TrialAssumption DEF Extended, Later, EffectiveEnd, Subscription

LEMMA ReadTypes ==
    ASSUME TypeOK, NEW w \in Worker
    PROVE  /\ CreateReadsOrder(w) => TypeOK'
           /\ CreateReadsById(w) => TypeOK'
           /\ CreateReadsActive(w) => TypeOK'
           /\ ReadsTx(w) => TypeOK'
           /\ ReadsOrder(w) => TypeOK'
           /\ ReadsUser(w) => TypeOK'
           /\ Crash(w) => TypeOK'
<1> USE DEF rows, history, At, Goto, Answer
<1>1. ASSUME call[w] # Idle PROVE call[w] \in Call /\ OrderOf[call[w].tx] \in Order
  BY <1>1, CallTypes
<1>2. CASE CreateReadsOrder(w)
  BY <1>1, <1>2 DEF CreateReadsOrder, TypeOK, Call, Step
<1>3. CASE CreateReadsById(w)
  BY <1>1, <1>3 DEF CreateReadsById, TypeOK, Call, Step
<1>4. CASE CreateReadsActive(w)
  BY <1>1, <1>4 DEF CreateReadsActive, TypeOK, Call, Step, ActiveFor
<1>5. CASE ReadsTx(w)
  BY <1>1, <1>5 DEF ReadsTx, TypeOK, Call, Step
<1>6. CASE ReadsOrder(w)
  BY <1>1, <1>6 DEF ReadsOrder, TypeOK, Call, Step
<1>7. CASE ReadsUser(w)
  <2>1. Days[OrderOf[call[w].tx]] \in Int /\ now \in Int /\ NULL \in Int
    BY <1>7, CallTypes DEF ReadsUser, TypeOK, NULL
  <2>2. AppliedUntil(user, Days[OrderOf[call[w].tx]]) \in Int
    BY <2>1, ExtendedType DEF AppliedUntil, TypeOK
  <2>. QED
    BY <1>1, <1>7, <2>1, <2>2 DEF ReadsUser, TypeOK, Call, Step
<1>8. CASE Crash(w)
  BY <1>8, BillingAssumption DEF Crash, TypeOK
<1>. QED
  BY <1>2, <1>3, <1>4, <1>5, <1>6, <1>7, <1>8

LEMMA SaveType ==
    ASSUME TypeOK, NEW seen \in Subscription, NEW new \in Subscription, Save(seen, new)
    PROVE  user' \in Subscription
BY DEF Save, TypeOK, Subscription

LEMMA CommitTypes ==
    ASSUME TypeOK, NEW w \in Worker
    PROVE  /\ CreateInserts(w) => TypeOK'
           /\ CreateExpires(w) => TypeOK'
           /\ PerformCommits(w) => TypeOK'
           /\ CancelCreated(w) => TypeOK'
           /\ CancelCompleted(w) => TypeOK'
<1> USE DEF At, Answer, rows, history
<1>1. ASSUME call[w] # Idle
      PROVE  /\ call[w] \in Call /\ call[w].tx \in Tx /\ call[w].seen_user \in Subscription
             /\ call[w].seen_order.previous \in Subscription /\ call[w].applied \in Int
             /\ call[w].seen_order \in OrderRow
             /\ OrderOf[call[w].tx] \in Order /\ Days[OrderOf[call[w].tx]] \in Int
  BY <1>1, CallTypes DEF Call, OrderRow
<1>2. CASE CreateInserts(w)
  BY <1>1, <1>2 DEF CreateInserts, TypeOK, TxState
<1>3. CASE CreateExpires(w)
  BY <1>1, <1>3 DEF CreateExpires, TypeOK, TxState, OrderRow, OrderStatus
<1>4. CASE PerformCommits(w)
  <2>1. user' \in Subscription
    <3>1. [until |-> call[w].applied, unlimited |-> FALSE] \in Subscription
      BY <1>1, <1>4 DEF PerformCommits, Subscription
    <3>. QED
      BY <1>1, <1>4, <3>1, SaveType DEF PerformCommits, TypeOK
  <2>2. order' \in [Order -> OrderRow]
    BY <1>1, <1>4 DEF PerformCommits, TypeOK, OrderRow, OrderStatus
  <2>. QED
    BY <1>1, <1>4, <2>1, <2>2 DEF PerformCommits, TypeOK, TxState
<1>5. CASE CancelCreated(w)
  BY <1>1, <1>5 DEF CancelCreated, TypeOK, TxState, OrderRow, OrderStatus
<1>6. CASE CancelCompleted(w)
  <2>1. RolledBack(call[w].seen_order, call[w].seen_user, Days[OrderOf[call[w].tx]])
           \in Subscription
    BY <1>1, <1>6 DEF CancelCompleted, RolledBack, Subscription
  <2>2. user' \in Subscription
    BY <1>1, <1>6, <2>1, SaveType DEF CancelCompleted
  <2>. QED
    BY <1>1, <1>6, <2>2 DEF CancelCompleted, TypeOK, TxState, OrderRow, OrderStatus
<1>. QED
  BY <1>2, <1>3, <1>4, <1>5, <1>6

LEMMA NextTypes == TypeOK /\ [Next]_vars => TypeOK'
<1> SUFFICES ASSUME TypeOK, [Next]_vars PROVE TypeOK'
  OBVIOUS
<1> USE DEF rows, history
<1>1. ASSUME NEW o \in Order, create_payme_order(o) PROVE TypeOK'
  BY <1>1 DEF create_payme_order, TypeOK, OrderRow, OrderStatus
<1>2. ASSUME NEW w \in Worker, NEW t \in Tx, NEW k \in {"create", "perform", "cancel"},
             payme_rpc(w, k, t)
      PROVE  TypeOK'
  BY <1>2, NullTypes DEF payme_rpc, TypeOK, Call, Step, TxState
<1>3. ASSUME NEW w \in Worker, Handler(w) \/ Crash(w) PROVE TypeOK'
  BY <1>3, ReadTypes, CommitTypes DEF Handler
<1>4. ASSUME NEW t \in Tx, TwelveHoursPass(t) PROVE TypeOK'
  BY <1>4 DEF TwelveHoursPass, TypeOK
<1>5. CASE OtherWriter
  <2>1. now \in Int /\ user \in Subscription
    BY DEF TypeOK
  <2>2. AppliedUntil(user, 1) \in Int /\ Unlimited \in Subscription
        /\ NoSubscription \in Subscription
    BY <2>1, ExtendedType DEF AppliedUntil, Unlimited, NoSubscription, Subscription, NULL
  <2>3. reset' \in BOOLEAN
    <3>1. CASE Reset
      BY <3>1 DEF Reset
    <3>2. CASE UNCHANGED reset
      BY <3>2 DEF TypeOK
    <3>. QED
      BY <1>5, <3>1, <3>2 DEF OtherWriter
  <2>4. Reset => UNCHANGED given
    BY DEF Reset
  <2>5. given' \in Nat
    BY <1>5, <2>4 DEF OtherWriter, TypeOK
  <2>6. user' \in Subscription
    <3>1. [until |-> AppliedUntil(user, 1), unlimited |-> FALSE] \in Subscription
      BY <2>2 DEF Subscription
    <3>. QED
      BY <1>5, <2>2, <3>1 DEF OtherWriter
  <2>. QED
    BY <1>5, <2>3, <2>5, <2>6 DEF OtherWriter, TypeOK
<1>6. CASE DayPasses
  BY <1>6, BillingAssumption DEF DayPasses, TypeOK
<1>7. CASE UNCHANGED vars
  BY <1>7 DEF vars, TypeOK
<1>. QED
  BY <1>1, <1>2, <1>3, <1>4, <1>5, <1>6, <1>7 DEF Next

\* Rows, requests and counters keep their types (the tables, the handlers of
\* payments/routes.py and what they have read).
THEOREM TypeCorrect == Spec => []TypeOK
<1>1. Init => TypeOK
  BY InitTypes
<1>2. TypeOK /\ [Next]_vars => TypeOK'
  BY NextTypes
<1>. QED
  BY <1>1, <1>2, PTL DEF Spec

------------------------------------------------------------------------------
(* Orders and transactions.                                                *)

\* Neither the order nor a transaction of it changes: it agrees as before.
LEMMA UntouchedAgrees ==
    ASSUME NEW o \in Order, Agrees(o), order'[o] = order[o],
           \A t \in TxsOf(o) : tx'[t] = tx[t]
    PROVE  Agrees(o)'
BY DEF Agrees, TxsOf

LEMMA SameRows ==
    ASSUME \A o \in Order : Agrees(o), UNCHANGED <<order, tx>>
    PROVE  \A o \in Order : Agrees(o)'
BY DEF Agrees, TxsOf

LEMMA InitLedger == Init => Ledger
<1> SUFFICES ASSUME Init PROVE Ledger
  OBVIOUS
<1>1. ASSUME NEW o \in Order PROVE Agrees(o)
  BY DEF Init, Agrees, NoOrder, TxsOf
<1>2. Reads
  BY DEF Init, Reads
<1>. QED
  BY <1>1, <1>2 DEF Ledger

\* The steps of a request that only read.
LEMMA ReadLedger ==
    ASSUME OneWorker, LInv, NEW w \in Worker,
           \/ CreateReadsOrder(w) \/ CreateReadsById(w) \/ CreateReadsActive(w)
           \/ ReadsTx(w) \/ ReadsOrder(w) \/ ReadsUser(w) \/ Crash(w)
    PROVE  Ledger'
<1> USE DEF LInv
<1>1. call[w] # Idle /\ call[w] \in Call /\ call[w].tx \in Tx
  <2>1. call[w] # Idle
    BY DEF CreateReadsOrder, CreateReadsById, CreateReadsActive, ReadsTx, ReadsOrder,
           ReadsUser, Crash, At
  <2>. QED
    BY <2>1, CallTypes DEF Call
<1>2. UNCHANGED <<order, tx>>
  BY DEF CreateReadsOrder, CreateReadsById, CreateReadsActive, ReadsTx, ReadsOrder,
         ReadsUser, Crash, rows
<1>3. \A o \in Order : Agrees(o)'
  BY <1>2, SameRows DEF Ledger
<1>4. \A v \in Worker : v = w
  BY DEF OneWorker
<1>5. ASSUME call'[w] = Idle PROVE Reads'
  BY <1>4, <1>5 DEF Reads
<1>6. ASSUME call'[w].kind = "create", Creating(call[w])' PROVE Reads'
  BY <1>4, <1>6 DEF Reads
<1>7. ASSUME call'[w].kind # "create", Settling(call[w])' PROVE Reads'
  BY <1>4, <1>7 DEF Reads
<1>8. call[w].kind = "create" => Creating(call[w])
  BY <1>1 DEF Ledger, Reads
<1>9. call[w].kind # "create" => Settling(call[w])
  BY <1>1 DEF Ledger, Reads
<1> USE DEF At, Goto, Answer
<1>10. CASE CreateReadsOrder(w)
  <2>1. call'[w] = Idle \/ (call'[w].kind = "create" /\ Creating(call[w])')
    BY <1>1, <1>2, <1>8, <1>10 DEF CreateReadsOrder, Creating, TypeOK, Call
  <2>. QED
    BY <1>3, <1>5, <1>6, <2>1 DEF Ledger
<1>11. CASE CreateReadsById(w)
  <2>1. call'[w] = Idle \/ (call'[w].kind = "create" /\ Creating(call[w])')
    BY <1>1, <1>2, <1>8, <1>11 DEF CreateReadsById, Creating, TypeOK, Call
  <2>. QED
    BY <1>3, <1>5, <1>6, <2>1 DEF Ledger
<1>12. CASE CreateReadsActive(w)
  <2> DEFINE o == OrderOf[call[w].tx]
  <2>1. call[w].step = "active" /\ Creating(call[w])
    BY <1>8, <1>12 DEF CreateReadsActive
  <2>2. order[o].status = "pending" /\ tx[call[w].tx] = "none"
    BY <2>1 DEF Creating
  <2>3. CASE ActiveFor(o) = {} /\ call' = [call EXCEPT ![w].step = "insert"]
    <3>1. \A t \in TxsOf(o) : tx[t] \notin Active
      BY <2>3 DEF ActiveFor, TxsOf
    <3>2. call'[w].kind = "create" /\ Creating(call[w])'
      BY <1>1, <1>2, <1>12, <2>2, <2>3, <3>1
      DEF CreateReadsActive, Creating, TypeOK, Call, TxsOf
    <3>. QED
      BY <1>3, <1>6, <3>2 DEF Ledger
  <2>4. ASSUME NEW t \in ActiveFor(o), tx[t] = "created",
               call' = [call EXCEPT ![w].step = "expire", ![w].tx = t]
        PROVE  Ledger'
    <3>1. t \in Tx /\ OrderOf[t] = o
      BY <2>4 DEF ActiveFor
    <3>2. call'[w].kind = "create" /\ call'[w].step = "expire" /\ call'[w].tx = t
      BY <1>1, <1>12, <2>4 DEF CreateReadsActive, TypeOK, Call
    <3>3. Creating(call[w])'
      BY <1>2, <2>2, <2>4, <3>1, <3>2 DEF Creating
    <3>. QED
      BY <1>3, <1>6, <3>2, <3>3 DEF Ledger
  <2>5. CASE call' = [call EXCEPT ![w] = Idle]
    BY <1>3, <1>5, <2>5 DEF Ledger, TypeOK
  <2>. QED
    BY <1>12, <2>3, <2>4, <2>5 DEF CreateReadsActive
<1>13. CASE ReadsTx(w)
  <2>1. call'[w] = Idle \/ (call'[w].kind # "create" /\ Settling(call[w])')
    BY <1>1, <1>2, <1>9, <1>13 DEF ReadsTx, Settling, Proceeds, TypeOK, Call, Active
  <2>. QED
    BY <1>3, <1>5, <1>7, <2>1 DEF Ledger
<1>14. CASE ReadsOrder(w)
  <2>1. call'[w] = Idle \/ (call'[w].kind # "create" /\ Settling(call[w])')
    BY <1>1, <1>2, <1>9, <1>14 DEF ReadsOrder, Settling, TypeOK, Call
  <2>. QED
    BY <1>3, <1>5, <1>7, <2>1 DEF Ledger
<1>15. CASE ReadsUser(w)
  <2>1. call'[w].kind # "create" /\ Settling(call[w])'
    BY <1>1, <1>2, <1>9, <1>15 DEF ReadsUser, Settling, TypeOK, Call
  <2>. QED
    BY <1>3, <1>7, <2>1 DEF Ledger
<1>16. CASE Crash(w)
  BY <1>3, <1>5, <1>16 DEF Crash, Ledger, TypeOK
<1>. QED
  BY <1>10, <1>11, <1>12, <1>13, <1>14, <1>15, <1>16

\* The steps that end a request with a commit.
LEMMA CommitLedger ==
    ASSUME OneWorker, LInv, NEW w \in Worker,
           \/ CreateInserts(w) \/ CreateExpires(w)
           \/ PerformCommits(w) \/ CancelCreated(w) \/ CancelCompleted(w)
    PROVE  Ledger'
<1> USE DEF LInv
<1> DEFINE c == call[w]
<1>0. c # Idle /\ c \in Call /\ call'[w] = Idle
  <2>1. c # Idle
    BY DEF CreateInserts, CreateExpires, PerformCommits, CancelCreated, CancelCompleted, At
  <2>2. call'[w] = Idle
    BY DEF CreateInserts, CreateExpires, PerformCommits, CancelCreated, CancelCompleted,
           Answer, TypeOK
  <2>. QED
    BY <2>1, <2>2, CallTypes
<1>1. PICK t \in Tx, o \in Order : t = c.tx /\ o = OrderOf[t]
  BY <1>0, CallTypes DEF Call
<1>2. Reads'
  BY <1>0 DEF OneWorker, Reads
<1>3. SUFFICES \A p \in Order : Agrees(p)'
  BY <1>2 DEF Ledger
<1>4. Agrees(o) /\ order \in [Order -> OrderRow] /\ tx \in [Tx -> TxState]
  BY <1>1 DEF Ledger, TypeOK
<1>5. IF c.kind = "create" THEN Creating(c) ELSE Settling(c)
  BY <1>0 DEF Ledger, Reads
<1>6. ASSUME NEW s, tx' = [tx EXCEPT ![t] = s], NEW p \in Order, p # o, order'[p] = order[p]
      PROVE  Agrees(p)'
  <2>1. \A u \in TxsOf(p) : tx'[u] = tx[u]
    BY <1>1, <1>4, <1>6 DEF TxsOf
  <2>. QED
    BY <1>6, <2>1, UntouchedAgrees DEF Ledger
<1>7. CASE CreateInserts(w)
  <2>1. order[o].status = "pending" /\ tx[t] = "none" /\ \A u \in TxsOf(o) : tx[u] \notin Active
    BY <1>1, <1>5, <1>7 DEF CreateInserts, At, Creating
  <2>2. tx' = [tx EXCEPT ![t] = "created"] /\ order' = order
    BY <1>1, <1>7, <2>1 DEF CreateInserts
  <2>3. Agrees(o)'
    BY <1>1, <1>4, <2>1, <2>2 DEF Agrees, TxsOf, Active
  <2>. QED
    BY <1>6, <2>2, <2>3
<1>8. ASSUME NEW s \in {"cancelled", "reversed"}, tx' = [tx EXCEPT ![t] = s],
             order' = [order EXCEPT ![o].status = "cancelled"],
             \A u \in TxsOf(o) : tx[u] \in Active => u = t
      PROVE  \A p \in Order : Agrees(p)'
  <2>1. order'[o].status = "cancelled"
    BY <1>1, <1>4, <1>8 DEF OrderRow
  <2>2. \A u \in TxsOf(o) : tx'[u] \notin Active
    BY <1>1, <1>4, <1>8 DEF TxsOf, Active
  <2>3. Agrees(o)'
    BY <2>1, <2>2 DEF Agrees, TxsOf, Active
  <2>. QED
    BY <1>1, <1>4, <1>6, <1>8, <2>3
<1>9. ASSUME tx[t] \in Active
      PROVE  /\ \A u \in TxsOf(o) : tx[u] \in Active => u = t
             /\ tx[t] = "created" => order[o].status = "pending"
             /\ tx[t] = "completed" => order[o].status = "paid"
  <2>1. t \in TxsOf(o)
    BY <1>1 DEF TxsOf
  <2>2. order[o].status \in {"paid", "pending"}
    BY <1>1, <1>4, <1>9, <2>1 DEF Agrees, OrderRow, OrderStatus, Active
  <2>. QED
    BY <1>4, <1>9, <2>1, <2>2 DEF Agrees, Active
<1>10. CASE CreateExpires(w)
  BY <1>1, <1>5, <1>8, <1>9, <1>10 DEF CreateExpires, At, Creating, Active
<1>11. CASE CancelCreated(w)
  BY <1>1, <1>5, <1>8, <1>9, <1>11 DEF CancelCreated, At, Settling, Active
<1>12. CASE CancelCompleted(w)
  BY <1>1, <1>5, <1>8, <1>9, <1>12 DEF CancelCompleted, At, Settling, Active
<1>13. CASE PerformCommits(w)
  <2>1. tx[t] = "created" /\ c.seen_order = order[o]
    BY <1>1, <1>5, <1>13 DEF PerformCommits, At, Settling
  <2>2. order[o].status = "pending" /\ \A u \in TxsOf(o) : tx[u] \in Active => u = t
    BY <1>9, <2>1 DEF Active
  <2>3. /\ tx' = [tx EXCEPT ![t] = "completed"]
        /\ order' = [order EXCEPT ![o] = [status |-> "paid", previous |-> c.seen_user,
                                          applied |-> c.applied]]
    BY <1>1, <1>13, <2>1, <2>2 DEF PerformCommits
  <2>4. order'[o].status = "paid"
    BY <1>1, <1>4, <2>3
  <2>5. Agrees(o)'
    BY <1>1, <1>4, <2>2, <2>3, <2>4 DEF Agrees, TxsOf, Active
  <2>. QED
    BY <1>1, <1>4, <1>6, <2>3, <2>5
<1>. QED
  BY <1>7, <1>10, <1>11, <1>12, <1>13

LEMMA NextLedger == OneWorker /\ LInv /\ [Next]_vars => Ledger'
<1> SUFFICES ASSUME OneWorker, LInv, [Next]_vars PROVE Ledger'
  OBVIOUS
<1> USE DEF LInv, rows, history
<1>1. ASSUME NEW o \in Order, create_payme_order(o) PROVE Ledger'
  <2>1. order \in [Order -> OrderRow] /\ \A p \in Order : Agrees(p)
    BY DEF TypeOK, Ledger
  <2>2. order[o].status = "absent" /\ order'[o].status = "pending" /\ tx' = tx
        /\ \A p \in Order : p # o => order'[p] = order[p]
    BY <1>1, <2>1 DEF create_payme_order, OrderRow
  <2>3. ASSUME NEW p \in Order PROVE Agrees(p)'
    BY <2>1, <2>2 DEF Agrees, TxsOf
  <2>4. Reads'
    <3> SUFFICES ASSUME NEW w \in Worker, call[w] # Idle
                 PROVE  IF call[w].kind = "create" THEN Creating(call[w])' ELSE Settling(call[w])'
      BY <1>1 DEF create_payme_order, Reads
    <3>1. call[w].tx \in Tx /\ OrderOf[call[w].tx] \in Order
      BY CallTypes DEF Call
    <3>2. CASE call[w].kind = "create"
      <4>1. Creating(call[w])
        BY <3>2 DEF Ledger, Reads
      <4>. QED
        BY <1>1, <2>1, <2>2, <3>1, <3>2, <4>1 DEF create_payme_order, Creating
    <3>3. CASE call[w].kind # "create"
      <4>1. Settling(call[w])
        BY <3>3 DEF Ledger, Reads
      <4>2. call[w].step # "tx" => order[OrderOf[call[w].tx]] = order'[OrderOf[call[w].tx]]
        BY <2>1, <2>2, <3>1, <4>1 DEF Settling, Agrees, TxsOf, Active
      <4>. QED
        BY <1>1, <2>2, <3>1, <3>3, <4>1, <4>2 DEF create_payme_order, Settling
    <3>. QED
      BY <3>2, <3>3
  <2>. QED
    BY <2>3, <2>4 DEF Ledger
<1>2. ASSUME NEW w \in Worker, NEW t \in Tx, NEW k \in {"create", "perform", "cancel"},
             payme_rpc(w, k, t)
      PROVE  Ledger'
  <2>1. UNCHANGED <<order, tx>>
    BY <1>2 DEF payme_rpc
  <2>2. \A o \in Order : Agrees(o)'
    BY <2>1, SameRows DEF Ledger
  <2>3. \A v \in Worker : v = w
    BY DEF OneWorker
  <2>4. IF call'[w].kind = "create" THEN Creating(call[w])' ELSE Settling(call[w])'
    BY <1>2 DEF payme_rpc, TypeOK, Creating, Settling
  <2>. QED
    BY <2>2, <2>3, <2>4 DEF Ledger, Reads
<1>3. ASSUME NEW w \in Worker, Handler(w) \/ Crash(w) PROVE Ledger'
  BY <1>3, ReadLedger, CommitLedger DEF Handler
<1>4. ASSUME UNCHANGED <<order, tx, call>> PROVE Ledger'
  <2>1. \A o \in Order : Agrees(o)'
    BY <1>4, SameRows DEF Ledger
  <2>2. Reads'
    BY <1>4 DEF Ledger, Reads, Creating, Settling, TxsOf
  <2>. QED
    BY <2>1, <2>2 DEF Ledger
<1>5. ASSUME NEW t \in Tx, TwelveHoursPass(t) PROVE Ledger'
  BY <1>4, <1>5 DEF TwelveHoursPass
<1>6. CASE OtherWriter
  BY <1>4, <1>6 DEF OtherWriter
<1>7. CASE DayPasses
  BY <1>4, <1>7 DEF DayPasses
<1>8. CASE UNCHANGED vars
  BY <1>4, <1>8 DEF vars
<1>. QED
  BY <1>1, <1>2, <1>3, <1>5, <1>6, <1>7, <1>8 DEF Next

LEMMA LedgerInvariant == OneWorker => (Spec => []LInv)
<1> SUFFICES ASSUME OneWorker PROVE Spec => []LInv
  OBVIOUS
<1>1. Init => LInv
  BY InitTypes, InitLedger DEF LInv
<1>2. LInv /\ [Next]_vars => LInv'
  BY NextTypes, NextLedger DEF LInv
<1>. QED
  BY <1>1, <1>2, PTL DEF Spec

\* A paid order has one completed transaction and no other that counts, a
\* pending one at most a created one, a cancelled one none that can still be
\* performed (CreateTransaction, PerformTransaction, CancelTransaction).
THEOREM LedgerKept ==
    ASSUME OneWorker
    PROVE  Spec => []LedgerAgrees
<1>1. ASSUME LInv, NEW o \in Order
      PROVE  /\ order[o].status = "paid" =>
                   Cardinality(TxOf(o, {"completed"})) = 1 /\ TxOf(o, {"created"}) = {}
             /\ order[o].status = "pending" =>
                   /\ TxOf(o, {"completed", "reversed"}) = {}
                   /\ Cardinality(TxOf(o, Active)) <= 1
             /\ order[o].status \in {"absent", "cancelled"} => TxOf(o, Active) = {}
  <2>1. Agrees(o)
    BY <1>1 DEF LInv, Ledger
  <2>2. CASE order[o].status = "paid"
    <3>1. PICK t \in TxsOf(o) : /\ tx[t] = "completed"
                               /\ \A u \in TxsOf(o) : tx[u] \in Active => u = t
      BY <2>1, <2>2 DEF Agrees
    <3>2. TxOf(o, {"completed"}) = {t} /\ TxOf(o, {"created"}) = {}
      BY <3>1 DEF TxOf, TxsOf, Active
    <3>. QED
      BY <2>2, <3>2, FS_Singleton
  <2>3. CASE order[o].status = "pending"
    <3>1. TxOf(o, {"completed", "reversed"}) = {}
      BY <2>1, <2>3 DEF Agrees, TxOf, TxsOf
    <3>2. \A t, u \in TxOf(o, Active) : t = u
      BY <2>1, <2>3 DEF Agrees, TxOf, TxsOf, Active
    <3>3. TxOf(o, Active) = {} \/ \E t : TxOf(o, Active) = {t}
      BY <3>2
    <3>4. Cardinality(TxOf(o, Active)) \in {0, 1}
      BY <3>3, FS_Singleton, FS_EmptySet
    <3>. QED
      BY <2>3, <3>1, <3>4
  <2>4. CASE order[o].status \in {"absent", "cancelled"}
    BY <2>1, <2>4 DEF Agrees, TxOf, TxsOf, Active
  <2>. QED
    BY <2>2, <2>3, <2>4
<1>2. LInv => LedgerAgrees
  BY <1>1 DEF LedgerAgrees
<1>. QED
  BY <1>2, LedgerInvariant, PTL

\* What a step may do to a transaction, from what its request has read.
LEMMA StepForward ==
    ASSUME LInv, [Next]_vars, NEW t \in Tx, tx'[t] # tx[t]
    PROVE  <<tx[t], tx'[t]>> \in {<<"none", "created">>, <<"created", "completed">>,
                                 <<"created", "cancelled">>, <<"completed", "reversed">>}
<1>1. tx \in [Tx -> TxState]
  BY DEF LInv, TypeOK
<1>2. PICK w \in Worker : \/ CreateInserts(w) \/ CreateExpires(w)
                         \/ PerformCommits(w) \/ CancelCreated(w) \/ CancelCompleted(w)
  BY DEF Next, Handler, vars, rows, create_payme_order, payme_rpc, Crash, TwelveHoursPass,
         OtherWriter, DayPasses, CreateReadsOrder, CreateReadsById, CreateReadsActive,
         ReadsTx, ReadsOrder, ReadsUser
<1>3. call[w] # Idle /\ call[w].tx \in Tx
  <2>1. call[w] # Idle
    BY <1>2 DEF CreateInserts, CreateExpires, PerformCommits, CancelCreated, CancelCompleted, At
  <2>. QED
    BY <2>1, CallTypes DEF LInv, Call
<1>4. IF call[w].kind = "create" THEN Creating(call[w]) ELSE Settling(call[w])
  BY <1>3 DEF LInv, Ledger, Reads
<1>5. CASE CreateInserts(w)
  BY <1>1, <1>3, <1>5 DEF CreateInserts
<1>6. CASE CreateExpires(w)
  BY <1>1, <1>3, <1>4, <1>6 DEF CreateExpires, At, Creating
<1>7. CASE PerformCommits(w)
  BY <1>1, <1>3, <1>4, <1>7 DEF PerformCommits, At, Settling
<1>8. CASE CancelCreated(w)
  BY <1>1, <1>3, <1>4, <1>8 DEF CancelCreated, At, Settling
<1>9. CASE CancelCompleted(w)
  BY <1>1, <1>3, <1>4, <1>9 DEF CancelCompleted, At, Settling
<1>. QED
  BY <1>2, <1>5, <1>6, <1>7, <1>8, <1>9

\* A transaction is created, completed and reversed in this order, or cancelled
\* before it was completed (the states of payme_transactions).
THEOREM Forward ==
    ASSUME OneWorker
    PROVE  Spec => TxForward
<1>1. LInv /\ [Next]_vars =>
        [\A t \in Tx : tx'[t] # tx[t] =>
            <<tx[t], tx'[t]>> \in {<<"none", "created">>, <<"created", "completed">>,
                                 <<"created", "cancelled">>, <<"completed", "reversed">>}]_vars
  BY StepForward
<1>. QED
  BY <1>1, LedgerInvariant, PTL DEF Spec, TxForward

------------------------------------------------------------------------------
(* Counting days.                                                          *)

LEMMA DaysFinite ==
    ASSUME NEW S \in SUBSET Order
    PROVE  IsFiniteSet(UNION {{o} \X (1..Days[o]) : o \in S}) /\ DaysOf(S) \in Nat
<1> DEFINE T == {{o} \X (1..Days[o]) : o \in S}
           f == [o \in S |-> {o} \X (1..Days[o])]
<1>1. IsFiniteSet(S)
  BY BillingAssumption, FS_Subset
<1>2. f \in Surjection(S, T)
  BY DEF Surjection
<1>3. IsFiniteSet(T)
  BY <1>1, <1>2, FS_Surjection
<1>4. ASSUME NEW o \in S PROVE IsFiniteSet({o} \X (1..Days[o]))
  <2>1. Days[o] \in Int
    BY BillingAssumption
  <2>2. IsFiniteSet(1..Days[o])
    BY <2>1, FS_Interval
  <2>3. IsFiniteSet({o})
    BY FS_Singleton
  <2>. QED
    BY <2>2, <2>3, FS_Product
<1>5. IsFiniteSet(UNION T)
  BY <1>3, <1>4, FS_UNION
<1>. QED
  BY <1>5, FS_CardinalityType DEF DaysOf

LEMMA NoDays == DaysOf({}) = 0
<1>1. UNION {{o} \X (1..Days[o]) : o \in {}} = {}
  OBVIOUS
<1>. QED
  BY <1>1, FS_EmptySet DEF DaysOf

\* An order more counts its own days more.
LEMMA MoreDays ==
    ASSUME NEW S \in SUBSET Order, NEW o \in Order, o \notin S
    PROVE  DaysOf(S \cup {o}) = DaysOf(S) + Days[o]
<1> DEFINE pairs == UNION {{p} \X (1..Days[p]) : p \in S}
           own == {o} \X (1..Days[o])
<1>1. UNION {{p} \X (1..Days[p]) : p \in S \cup {o}} = pairs \cup own
  OBVIOUS
<1>2. pairs \cap own = {}
  OBVIOUS
<1>3. IsFiniteSet(own) /\ Cardinality(own) = Days[o]
  <2>1. Days[o] \in Nat \ {0}
    BY BillingAssumption
  <2>2. IsFiniteSet(1..Days[o]) /\ Cardinality(1..Days[o]) = Days[o]
    BY <2>1, FS_Interval
  <2>3. IsFiniteSet({o}) /\ Cardinality({o}) = 1
    BY FS_Singleton
  <2>4. IsFiniteSet(own) /\ Cardinality(own) = Cardinality({o}) * Cardinality(1..Days[o])
    BY <2>2, <2>3, FS_Product
  <2>5. Cardinality({o}) * Cardinality(1..Days[o]) = Days[o]
    BY <2>1, <2>2, <2>3
  <2>. QED
    BY <2>4, <2>5
<1>4. IsFiniteSet(pairs) /\ Cardinality(pairs) \in Nat
  BY DaysFinite, FS_CardinalityType
<1>5. Cardinality(pairs \cup own) = Cardinality(pairs) + Cardinality(own) - Cardinality({})
  BY <1>2, <1>3, <1>4, FS_Union
<1>6. Days[o] \in Nat /\ Cardinality({}) = 0
  BY BillingAssumption, FS_EmptySet
<1>7. Cardinality(pairs \cup own) = Cardinality(pairs) + Days[o]
  BY <1>3, <1>4, <1>5, <1>6
<1>8. DaysOf(S \cup {o}) = Cardinality(pairs \cup own) /\ DaysOf(S) = Cardinality(pairs)
  BY <1>1 DEF DaysOf
<1>. QED
  BY <1>7, <1>8

LEMMA FewerDays ==
    ASSUME NEW S \in SUBSET Order, NEW o \in S
    PROVE  DaysOf(S) = DaysOf(S \ {o}) + Days[o]
<1>1. (S \ {o}) \cup {o} = S
  OBVIOUS
<1>. QED
  BY <1>1, MoreDays

\* The numbers the invariant is about.
LEMMA DayTypes ==
    ASSUME TypeOK
    PROVE  /\ DaysOf(Paid) \in Nat /\ Paid \in SUBSET Order
           /\ Today \in Nat /\ Today >= now /\ Today >= TrialEnd /\ now \in Nat
           /\ given \in Nat
           /\ user.until \in Int /\ user.unlimited \in BOOLEAN
           /\ \A o \in Order : /\ Days[o] \in Nat \ {0} /\ Start(o) \in Int
                               /\ order[o].applied \in Int
                               /\ order[o].previous.until \in Int
                               /\ order[o].previous.unlimited \in BOOLEAN
<1>1. Paid \in SUBSET Order
  BY DEF Paid
<1>2. DaysOf(Paid) \in Nat
  BY <1>1, DaysFinite
<1>3. now \in Nat /\ given \in Nat
  BY BillingAssumption DEF TypeOK
<1>4. Today \in Nat /\ Today >= now /\ Today >= TrialEnd
  BY <1>3, TrialAssumption DEF Today, Later
<1>5. user.until \in Int /\ user.unlimited \in BOOLEAN
  BY DEF TypeOK, Subscription
<1>6. ASSUME NEW o \in Order
      PROVE  /\ Days[o] \in Nat \ {0} /\ order[o].applied \in Int
             /\ order[o].previous.until \in Int /\ order[o].previous.unlimited \in BOOLEAN
  BY BillingAssumption DEF TypeOK, OrderRow, Subscription
<1>7. \A o \in Order : Start(o) \in Int
  BY <1>6 DEF Start
<1>. QED
  BY <1>1, <1>2, <1>3, <1>4, <1>5, <1>6, <1>7


------------------------------------------------------------------------------
(* The days of what a step leaves alone.                                   *)

\* The paid orders stay as they are, and time and codes only add.
Calm ==
    /\ Paid' = Paid
    /\ \A o \in Paid : order'[o] = order[o]
    /\ now' >= now /\ given' >= given

LEMMA CalmDays ==
    ASSUME TypeOK, TypeOK', Calm, NEW found \in [Order -> Nat]
    PROVE  /\ Today' >= Today /\ DaysOf(Paid)' = DaysOf(Paid)
           /\ \A o \in Paid : Start(o)' = Start(o) /\ Gap(o)' = Gap(o)
           /\ \A o \in Paid : Found(found, o) => Found(found, o)'
           /\ \A o, p \in Paid : InTurn(found, o, p) => InTurn(found, o, p)'
<1>1. Today' >= Today
  BY TrialAssumption DEF Calm, Today, Later, TypeOK
<1>2. DaysOf(Paid)' = DaysOf(Paid)
  BY DEF Calm, DaysOf
<1>3. \A o \in Paid : order'[o] = order[o] /\ Start(o)' = Start(o) /\ Gap(o)' = Gap(o)
  BY DEF Calm, Start, Gap
<1>4. ASSUME NEW o \in Paid, Found(found, o) PROVE Found(found, o)'
  <2>1. Start(o) \in Int /\ Today \in Int
    BY DayTypes
  <2>2. Today' \in Int
    BY TrialAssumption DEF Today, Later, TypeOK
  <2>. QED
    BY <1>1, <1>3, <1>4, <2>1, <2>2 DEF Found
<1>5. ASSUME NEW o \in Paid, NEW p \in Paid, InTurn(found, o, p) PROVE InTurn(found, o, p)'
  BY <1>3, <1>5 DEF InTurn
<1>. QED
  BY <1>1, <1>2, <1>3, <1>4, <1>5

LEMMA CalmHolds ==
    ASSUME TypeOK, TypeOK', Calm, NEW found \in [Order -> Nat],
           NEW sub \in Subscription, Holds(found, sub)
    PROVE  Holds(found, sub)'
<1>1. /\ Today' >= Today /\ DaysOf(Paid)' = DaysOf(Paid) /\ Paid' = Paid /\ given' >= given
      /\ \A o \in Paid : Start(o)' = Start(o) /\ Gap(o)' = Gap(o)
  BY CalmDays DEF Calm
<1>2. /\ Today \in Int /\ DaysOf(Paid) \in Int /\ given \in Int /\ sub.until \in Int
      /\ \A o \in Paid : Start(o) \in Int
  BY DayTypes DEF Subscription
<1>3. Today' \in Int /\ given' \in Int
  BY TrialAssumption DEF Today, Later, TypeOK
<1>4. sub.until <= Today' + DaysOf(Paid)' + given'
  BY <1>1, <1>2, <1>3 DEF Holds
<1>5. Paid' # {} => ~sub.unlimited /\ sub.until >= DaysOf(Paid)'
  BY <1>1 DEF Holds
<1>6. \A o \in Paid : Gap(o)' => DaysOf(Paid)' <= found[o] + Later(0, sub.until - Start(o)')
  BY <1>1 DEF Holds
<1>7. sub.unlimited => sub.until <= 0
  BY DEF Holds
<1>. QED
  BY <1>1, <1>4, <1>5, <1>6, <1>7 DEF Holds

LEMMA CalmComputes ==
    ASSUME TypeOK, TypeOK', Calm, NEW found \in [Order -> Nat],
           NEW c \in Call, Computes(found, c), user'.unlimited => user.unlimited
    PROVE  Computes(found, c)'
<1>1. /\ Today' >= Today /\ DaysOf(Paid)' = DaysOf(Paid) /\ Paid' = Paid /\ given' >= given
      /\ \A o \in Paid : Start(o)' = Start(o) /\ Gap(o)' = Gap(o)
  BY CalmDays DEF Calm
<1>2. /\ Today \in Int /\ DaysOf(Paid) \in Int /\ given \in Int
      /\ Today' \in Int /\ given' \in Int
  BY DayTypes, TrialAssumption DEF Today, Later, TypeOK
<1>3. Holds(found, c.seen_user)'
  BY CalmHolds DEF Computes, Call
<1>4. ~c.seen_user.unlimited => ~user'.unlimited
  BY DEF Computes
<1> DEFINE start == c.applied - Days[OrderOf[c.tx]]
<1>5. start \in Int
  BY BillingAssumption DEF Call
<1>6. ASSUME c.kind = "perform"
      PROVE  /\ start >= 0 /\ c.seen_user.until <= start
             /\ start <= Today' + DaysOf(Paid)' + given'
             /\ c.seen_user.unlimited \/ c.seen_user.until # start => start <= Today'
             /\ \A o \in Paid' : Gap(o)' => start >= Start(o)'
  <2>1. /\ start >= 0 /\ c.seen_user.until <= start
        /\ start <= Today + DaysOf(Paid) + given
        /\ c.seen_user.unlimited \/ c.seen_user.until # start => start <= Today
        /\ \A o \in Paid : Gap(o) => start >= Start(o)
    BY <1>6 DEF Computes
  <2>2. start <= Today' + DaysOf(Paid)' + given'
    BY <1>1, <1>2, <1>5, <2>1
  <2>3. start <= Today => start <= Today'
    BY <1>1, <1>2, <1>5
  <2>. QED
    BY <1>1, <2>1, <2>2, <2>3
<1>. QED
  BY <1>3, <1>4, <1>6 DEF Computes

LEMMA CalmCounted ==
    ASSUME TypeOK, TypeOK', Calm, NEW found \in [Order -> Nat], Counted(found),
           user' = user, \A w \in Worker : Committing(w)' => call'[w] = call[w]
    PROVE  Counted(found)'
<1>1. Paid' = Paid /\ user \in Subscription
  BY DEF Calm, TypeOK
<1>2. \A o \in Paid : Found(found, o)'
  BY CalmDays DEF Counted
<1>3. ASSUME NEW o \in Paid, NEW p \in Paid, o # p, Gap(o)', Gap(p)'
      PROVE  InTurn(found, o, p)'
  BY <1>3, CalmDays DEF Counted
<1>4. Holds(found, user)'
  <2>1. PICK sub \in Subscription : sub = user
    BY <1>1
  <2>2. Holds(found, sub)'
    BY <2>1, CalmHolds DEF Counted
  <2>. QED
    BY <2>1, <2>2
<1>5. ASSUME NEW w \in Worker, Committing(w)' PROVE Computes(found, call[w])'
  <2>1. call'[w] = call[w] /\ Committing(w)
    BY <1>5 DEF Committing, At
  <2>2. PICK c \in Call : c = call[w]
    BY <2>1, CallTypes DEF Committing, At
  <2>3. Computes(found, c)
    BY <2>1, <2>2 DEF Counted
  <2>4. Computes(found, c)'
    BY <2>3, CalmComputes
  <2>. QED
    BY <2>1, <2>2, <2>4
<1>. QED
  BY <1>1, <1>2, <1>3, <1>4, <1>5 DEF Counted

------------------------------------------------------------------------------
(* The days of what a step changes.                                        *)

\* What a perform computes, it computes with a subscription that holds the days.
LEMMA ReadComputes ==
    ASSUME OneWorker, LInv, TypeOK', NEW found \in [Order -> Nat], Counted(found),
           NEW w \in Worker, ReadsUser(w)
    PROVE  Counted(found)'
<1> USE DEF LInv
<1>1. call[w] # Idle /\ call[w] \in Call /\ OrderOf[call[w].tx] \in Order
  BY CallTypes DEF ReadsUser, At
<1>2. Calm /\ order' = order /\ user' = user /\ now' = now /\ given' = given /\ Paid' = Paid
  BY DayTypes DEF ReadsUser, rows, history, Calm, Paid
<1>3. PICK d \in Nat \ {0} : d = Days[OrderOf[call[w].tx]]
  BY <1>1, DayTypes
<1>4. PICK c \in Call : c = call'[w]
  <2>1. call'[w].kind = call[w].kind /\ call[w].kind \in {"perform", "cancel"}
    BY <1>1 DEF ReadsUser, At, TypeOK, Call
  <2>2. Idle.kind = "idle"
    BY DEF Idle
  <2>. QED
    BY <2>1, <2>2 DEF TypeOK
<1>5. /\ c.kind = call[w].kind /\ c.tx = call[w].tx /\ c.seen_user = user
      /\ c.kind = "perform" => c.applied = AppliedUntil(user, d)
  BY <1>1, <1>3, <1>4 DEF ReadsUser, TypeOK, Call
<1>6. Holds(found, user) /\ \A o \in Paid : Found(found, o)
  BY DEF Counted
<1> DEFINE start == AppliedUntil(user, d) - d
<1>7. ASSUME c.kind = "perform"
      PROVE  /\ start >= 0 /\ user.until <= start
             /\ start <= Today + DaysOf(Paid) + given
             /\ user.unlimited \/ user.until # start => start <= Today
             /\ \A o \in Paid : Gap(o) => start >= Start(o)
  <2>1. start = IF IsActive(user, now) /\ ~user.unlimited
                THEN Later(now, Later(TrialEnd, user.until)) ELSE now
    BY <1>3, DayTypes, TrialAssumption DEF AppliedUntil, Extended, EffectiveEnd, Later
  <2>2. /\ user.until <= Today + DaysOf(Paid) + given
        /\ user.unlimited => user.until <= 0
        /\ Paid # {} => ~user.unlimited
    BY <1>6 DEF Holds
  <2>3. now \in Nat /\ TrialEnd \in Nat /\ user.until \in Int /\ user.unlimited \in BOOLEAN
        /\ DaysOf(Paid) \in Nat /\ given \in Nat
    BY DayTypes, TrialAssumption
  <2>4. start >= 0 /\ user.until <= start
    BY <2>1, <2>2, <2>3 DEF IsActive, EffectiveEnd, Later
  <2>5. start <= Today + DaysOf(Paid) + given
    BY <2>1, <2>2, <2>3 DEF Today, Later
  <2>6. user.unlimited \/ user.until # start => start <= Today
    BY <2>1, <2>2, <2>3 DEF Today, Later
  <2>7. ~user.unlimited => start >= Today
    BY <2>1, <2>3 DEF IsActive, EffectiveEnd, Today, Later
  <2>8. \A o \in Paid : Gap(o) => start >= Start(o)
    <3>1. \A o \in Paid : Gap(o) => Start(o) <= Today
      BY <1>6 DEF Found
    <3>2. start \in Int /\ Today \in Int /\ \A o \in Paid : Start(o) \in Int
      BY <2>1, <2>3, DayTypes DEF Later
    <3>. QED
      BY <2>2, <2>7, <3>1, <3>2
  <2>. QED
    BY <2>4, <2>5, <2>6, <2>8
<1>8. Computes(found, c)
  BY <1>3, <1>5, <1>6, <1>7 DEF Computes
<1>9. Computes(found, c)'
  BY <1>2, <1>8, CalmComputes
<1>10. \A o \in Paid' : Found(found, o)'
  BY <1>2, CalmDays DEF Counted
<1>11. ASSUME NEW o \in Paid, NEW p \in Paid, o # p, Gap(o)', Gap(p)'
       PROVE  InTurn(found, o, p)'
  BY <1>2, <1>11, CalmDays DEF Counted
<1>12. Holds(found, user)'
  <2>1. PICK sub \in Subscription : sub = user
    BY DEF TypeOK
  <2>2. Holds(found, sub)'
    BY <1>2, <1>6, <2>1, CalmHolds
  <2>. QED
    BY <1>2, <2>1, <2>2
<1>13. \A v \in Worker : v = w
  BY DEF OneWorker
<1>. QED
  BY <1>2, <1>4, <1>9, <1>10, <1>11, <1>12, <1>13 DEF Counted

\* A code adds a day that counts as given, wherever the period it extends ends.
LEMMA CodeCounted ==
    ASSUME LInv, TypeOK', NEW found \in [Order -> Nat], Counted(found),
           user' = [until |-> AppliedUntil(user, 1), unlimited |-> FALSE],
           given' = given + 1, UNCHANGED <<order, now, call>>
    PROVE  Counted(found)'
<1> USE DEF LInv
<1>1. Calm /\ Paid' = Paid /\ Today' = Today /\ DaysOf(Paid)' = DaysOf(Paid)
  <2>1. Calm
    BY DayTypes DEF Calm, Paid
  <2>. QED
    BY <2>1, CalmDays DEF Calm, Today
<1>2. PICK u \in Int : u = AppliedUntil(user, 1) /\ user'.until = u /\ ~user'.unlimited
  BY DayTypes, ExtendedType DEF AppliedUntil, TypeOK
<1>3. Holds(found, user)
  BY DEF Counted
<1>4. /\ DaysOf(Paid) \in Nat /\ given \in Nat /\ now \in Nat /\ TrialEnd \in Nat
      /\ user.until \in Int /\ user.unlimited \in BOOLEAN
  BY DayTypes, TrialAssumption
<1>5. u = 1 + IF IsActive(user, now) /\ ~user.unlimited
              THEN Later(now, Later(TrialEnd, user.until)) ELSE now
  BY <1>2 DEF AppliedUntil, Extended, EffectiveEnd
<1>6. u <= Today + DaysOf(Paid) + given + 1
  <2>1. user.until <= Today + DaysOf(Paid) + given
    BY <1>3 DEF Holds
  <2>. QED
    BY <1>4, <1>5, <2>1 DEF Today, Later
<1>7. u >= user.until
  <2>1. user.unlimited => user.until <= 0
    BY <1>3 DEF Holds
  <2>. QED
    BY <1>4, <1>5, <2>1 DEF IsActive, EffectiveEnd, Later
<1>8. Holds(found, user)'
  <2>1. Paid' # {} => ~user'.unlimited /\ user'.until >= DaysOf(Paid)'
    BY <1>1, <1>2, <1>3, <1>4, <1>7 DEF Holds
  <2>2. user'.until <= Today' + DaysOf(Paid)' + given'
    <3>1. Today \in Int
      BY DayTypes
    <3>. QED
      BY <1>1, <1>2, <1>4, <1>6, <3>1
  <2>3. ASSUME NEW o \in Paid, Gap(o)'
        PROVE  DaysOf(Paid)' <= found[o] + Later(0, user'.until - Start(o)')
    <3>1. Start(o) \in Int /\ found[o] \in Nat /\ Start(o)' = Start(o) /\ Gap(o)
      BY <1>1, <2>3, DayTypes, CalmDays
    <3>2. DaysOf(Paid) <= found[o] + Later(0, user.until - Start(o))
      BY <1>3, <3>1 DEF Holds
    <3>. QED
      BY <1>1, <1>2, <1>4, <1>7, <3>1, <3>2 DEF Later
  <2>. QED
    BY <1>1, <1>2, <2>1, <2>2, <2>3 DEF Holds
<1>9. \A o \in Paid' : Found(found, o)'
  BY <1>1, CalmDays DEF Counted
<1>10. ASSUME NEW o \in Paid, NEW p \in Paid, o # p, Gap(o)', Gap(p)'
       PROVE  InTurn(found, o, p)'
  BY <1>1, <1>10, CalmDays DEF Counted
<1>11. ASSUME NEW w \in Worker, Committing(w)' PROVE Computes(found, call[w])'
  <2>1. Committing(w) /\ call[w] # Idle
    BY <1>11 DEF Committing, At
  <2>2. PICK c \in Call : c = call[w]
    BY <2>1, CallTypes
  <2>3. Computes(found, c)'
    BY <1>1, <1>2, <2>1, <2>2, CalmComputes DEF Counted
  <2>. QED
    BY <2>2, <2>3
<1>. QED
  BY <1>1, <1>8, <1>9, <1>10, <1>11 DEF Counted

\* An active transaction that is created belongs to a pending order, one that
\* is completed to a paid one.
LEMMA OrderOfActive ==
    ASSUME LInv, NEW t \in Tx, tx[t] \in Active
    PROVE  /\ tx[t] = "created" => order[OrderOf[t]].status = "pending"
           /\ tx[t] = "completed" => order[OrderOf[t]].status = "paid"
<1>1. OrderOf[t] \in Order /\ t \in TxsOf(OrderOf[t])
  BY BillingAssumption DEF TxsOf
<1>2. Agrees(OrderOf[t]) /\ order[OrderOf[t]].status \in OrderStatus
  BY <1>1 DEF LInv, Ledger, TypeOK, OrderRow
<1>. QED
  BY <1>1, <1>2 DEF Agrees, OrderStatus, Active

\* The order paid gets the days it was sold, after those of the others.
LEMMA PerformCounted ==
    ASSUME OneWorker, LInv, TypeOK', NEW found \in [Order -> Nat], Counted(found),
           NEW w \in Worker, PerformCommits(w), given' = given
    PROVE  \E g \in [Order -> Nat] : Counted(g)'
<1> USE DEF LInv
<1>1. call[w] # Idle /\ call[w] \in Call /\ Committing(w) /\ call'[w] = Idle
  <2>1. call[w] # Idle /\ Committing(w)
    BY DEF PerformCommits, At, Committing
  <2>. QED
    BY <2>1, CallTypes DEF PerformCommits, Answer, TypeOK
<1>2. PICK c \in Call, o \in Order : c = call[w] /\ o = OrderOf[c.tx]
  BY <1>1, CallTypes
<1>3. c.kind = "perform" /\ Settling(c) /\ Computes(found, c)
  BY <1>1, <1>2 DEF PerformCommits, At, Ledger, Reads, Counted
<1>4. order[o].status = "pending" /\ c.seen_order = order[o]
  BY <1>1, <1>2, <1>3, OrderOfActive DEF PerformCommits, At, Settling, Call
<1>5. PICK d \in Nat \ {0} : d = Days[o]
  BY DayTypes
<1>6. PICK seen \in Subscription, applied \in Int : seen = c.seen_user /\ applied = c.applied
  BY DEF Call
<1>7. PICK D \in Nat : D = DaysOf(Paid)
  BY DayTypes
<1> DEFINE start == applied - d
           g == [found EXCEPT ![o] = D]
<1>8. /\ start >= 0 /\ seen.until <= start
      /\ start <= Today + D + given
      /\ seen.unlimited \/ seen.until # start => start <= Today
      /\ \A p \in Paid : Gap(p) => start >= Start(p)
      /\ Holds(found, seen)
      /\ ~seen.unlimited => ~user.unlimited
  BY <1>2, <1>3, <1>5, <1>6, <1>7 DEF Computes
<1>9. seen.until \in Int /\ seen.unlimited \in BOOLEAN /\ user.unlimited \in BOOLEAN
  BY DayTypes DEF Subscription
<1>10. order' = [order EXCEPT ![o] = [status |-> "paid", previous |-> seen, applied |-> applied]]
  BY <1>2, <1>4, <1>6 DEF PerformCommits
<1>11. user'.until = applied /\ user'.unlimited = FALSE
  <2>1. Save(seen, [until |-> applied, unlimited |-> FALSE])
    BY <1>2, <1>4, <1>6 DEF PerformCommits
  <2>2. applied # seen.until
    BY <1>5, <1>8, <1>9
  <2>. QED
    BY <1>8, <1>9, <2>1, <2>2 DEF Save
<1>12. now' = now /\ Today' = Today
  BY DEF PerformCommits, Today
<1>13. o \notin Paid /\ Paid' = Paid \cup {o} /\ Paid \subseteq Order
  BY <1>4, <1>10 DEF Paid, TypeOK
<1>14. DaysOf(Paid)' = D + d
  <2>1. DaysOf(Paid \cup {o}) = D + d
    BY <1>5, <1>7, <1>13, MoreDays
  <2>. QED
    BY <1>13, <2>1 DEF DaysOf
<1>15. /\ order'[o].applied = applied /\ order'[o].previous = seen /\ Start(o)' = start
       /\ Gap(o)' = (seen.unlimited \/ seen.until # start)
  <2>1. order'[o] = [status |-> "paid", previous |-> seen, applied |-> applied]
    BY <1>10 DEF TypeOK
  <2>. QED
    BY <1>5, <2>1 DEF Start, Gap
<1>16. \A p \in Paid : order'[p] = order[p] /\ Start(p)' = Start(p) /\ Gap(p)' = Gap(p)
  <2>1. \A p \in Paid : order'[p] = order[p]
    BY <1>10, <1>13 DEF TypeOK
  <2>. QED
    BY <2>1 DEF Start, Gap
<1>17. g \in [Order -> Nat] /\ g[o] = D /\ \A p \in Paid : g[p] = found[p]
  BY <1>13
<1>18. /\ D = 0 \/ (~seen.unlimited /\ seen.until >= D)
       /\ seen.unlimited => seen.until <= 0
       /\ \A p \in Paid : Gap(p) => D <= found[p] + Later(0, seen.until - Start(p))
  <2>1. Paid = {} => D = 0
    BY <1>7, NoDays
  <2>. QED
    BY <1>7, <1>8, <2>1 DEF Holds
<1>19. Found(g, o)'
  BY <1>8, <1>12, <1>15, <1>17, <1>18 DEF Found
<1>20. ASSUME NEW p \in Paid PROVE Found(g, p)'
  <2>1. Found(found, p)
    BY DEF Counted
  <2>. QED
    BY <1>12, <1>16, <1>17, <2>1 DEF Found
<1>21. ASSUME NEW p \in Paid, NEW q \in Paid, p # q, Gap(p)', Gap(q)' PROVE InTurn(g, p, q)'
  <2>1. InTurn(found, p, q)
    BY <1>16, <1>21 DEF Counted
  <2>. QED
    BY <1>16, <1>17, <2>1 DEF InTurn
<1>22. ASSUME NEW p \in Paid, Gap(p)' PROVE InTurn(g, o, p)' /\ InTurn(g, p, o)'
  <2>1. start >= Start(p) /\ D <= found[p] + Later(0, seen.until - Start(p))
    BY <1>8, <1>16, <1>18, <1>22
  <2>. QED
    BY <1>15, <1>16, <1>17, <2>1 DEF InTurn
<1>23. Holds(g, user)'
  <2>1. user'.until >= D + d
    BY <1>5, <1>7, <1>8, <1>9, <1>11, <1>18
  <2>2. user'.until <= Today' + DaysOf(Paid)' + given'
    <3>1. Today \in Int /\ given \in Int
      BY DayTypes
    <3>. QED
      BY <1>5, <1>7, <1>8, <1>11, <1>12, <1>14, <3>1
  <2>3. ASSUME NEW p \in Paid, Gap(p)'
        PROVE  DaysOf(Paid)' <= g[p] + Later(0, user'.until - Start(p)')
    <3>1. /\ start >= Start(p) /\ D <= found[p] + Later(0, seen.until - Start(p))
          /\ Start(p) \in Int /\ found[p] \in Nat
      BY <1>8, <1>13, <1>16, <1>18, <2>3, DayTypes
    <3>2. D + d <= found[p] + Later(0, applied - Start(p))
      BY <1>5, <1>7, <1>8, <1>9, <3>1 DEF Later
    <3>. QED
      BY <1>11, <1>14, <1>16, <1>17, <3>2
  <2>4. DaysOf(Paid)' <= g[o] + Later(0, user'.until - Start(o)')
    BY <1>5, <1>7, <1>11, <1>14, <1>15, <1>17 DEF Later
  <2>. QED
    BY <1>11, <1>13, <1>14, <2>1, <2>2, <2>3, <2>4 DEF Holds
<1>24. \A v \in Worker : ~Committing(v)'
  BY <1>1 DEF OneWorker, Committing, At
<1>25. Counted(g)'
  <2>1. \A p \in Paid' : Found(g, p)'
    BY <1>13, <1>19, <1>20
  <2>2. \A p, q \in Paid' : p # q /\ Gap(p)' /\ Gap(q)' => InTurn(g, p, q)'
    BY <1>13, <1>21, <1>22
  <2>. QED
    BY <1>23, <1>24, <2>1, <2>2 DEF Counted
<1>. QED
  BY <1>17, <1>25

\* The rollback takes the days of its order and of no other: either the end
\* moves back by them, or what the order found is enough for what is left.
LEMMA CancelCounted ==
    ASSUME OneWorker, LInv, TypeOK', NEW found \in [Order -> Nat], Counted(found),
           NEW w \in Worker, CancelCompleted(w), given' = given
    PROVE  Counted(found)'
<1> USE DEF LInv
<1>1. call[w] # Idle /\ call[w] \in Call /\ Committing(w) /\ call'[w] = Idle
  <2>1. call[w] # Idle /\ Committing(w)
    BY DEF CancelCompleted, At, Committing
  <2>. QED
    BY <2>1, CallTypes DEF CancelCompleted, Answer, TypeOK
<1>2. PICK c \in Call, o \in Order : c = call[w] /\ o = OrderOf[c.tx]
  BY <1>1, CallTypes
<1>3. c.kind = "cancel" /\ Settling(c) /\ Holds(found, c.seen_user)
      /\ (~c.seen_user.unlimited => ~user.unlimited)
  BY <1>1, <1>2 DEF CancelCompleted, At, Ledger, Reads, Counted, Computes
<1>4. order[o].status = "paid" /\ c.seen_order = order[o]
  BY <1>1, <1>2, <1>3, OrderOfActive DEF CancelCompleted, At, Settling, Call
<1>5. PICK d \in Nat \ {0} : d = Days[o]
  BY DayTypes
<1>6. PICK seen \in Subscription, previous \in Subscription, applied \in Int :
         seen = c.seen_user /\ previous = order[o].previous /\ applied = order[o].applied
  BY DEF Call, TypeOK, OrderRow
<1>7. o \in Paid /\ Paid \subseteq Order /\ Paid' = Paid \ {o}
      /\ \A p \in Paid' : order'[p] = order[p]
  BY <1>2, <1>4 DEF Paid, CancelCompleted, TypeOK, OrderRow
<1>8. PICK D \in Nat : DaysOf(Paid) = D + d /\ DaysOf(Paid)' = D
  <2>1. DaysOf(Paid \ {o}) \in Nat /\ DaysOf(Paid) = DaysOf(Paid \ {o}) + d
    BY <1>5, <1>7, DaysFinite, FewerDays
  <2>2. DaysOf(Paid)' = DaysOf(Paid \ {o})
    BY <1>7 DEF DaysOf
  <2>. QED
    BY <2>1, <2>2
<1>9. /\ seen.until \in Int /\ seen.unlimited \in BOOLEAN /\ user.unlimited \in BOOLEAN
      /\ previous.until \in Int /\ previous.unlimited \in BOOLEAN
  BY DayTypes DEF Subscription
<1>10. /\ ~seen.unlimited /\ ~user.unlimited /\ seen.until >= D + d
       /\ seen.until <= Today + D + d + given
       /\ \A p \in Paid : Gap(p) => D + d <= found[p] + Later(0, seen.until - Start(p))
  <2>1. Holds(found, seen) /\ Paid # {}
    BY <1>3, <1>6, <1>7
  <2>2. seen.until <= Today + DaysOf(Paid) + given
    BY <2>1 DEF Holds
  <2>3. Today \in Int /\ given \in Int
    BY DayTypes
  <2>4. seen.until <= Today + D + d + given
    BY <1>5, <1>8, <1>9, <2>2, <2>3
  <2>. QED
    BY <1>3, <1>6, <1>8, <2>1, <2>4 DEF Holds
<1>11. now' = now /\ Today' = Today
  BY DEF CancelCompleted, Today
<1>12. \A p \in Paid' : /\ Start(p)' = Start(p) /\ Gap(p)' = Gap(p) /\ p \in Paid /\ p # o
                        /\ Start(p) \in Int /\ found[p] \in Nat
  BY <1>7, DayTypes DEF Start, Gap
<1>13. Start(o) = applied - d /\ Start(o) \in Int
       /\ Gap(o) = (previous.unlimited \/ previous.until # Start(o))
  BY <1>5, <1>6, DayTypes DEF Start, Gap
<1>14. /\ previous.until <= Start(o)
       /\ previous.unlimited => previous.until <= 0
       /\ Gap(o) => Start(o) <= Today
       /\ found[o] = 0 \/ (~previous.unlimited /\ previous.until >= found[o])
  BY <1>6, <1>7 DEF Counted, Found
<1>15. seen.until # NULL /\ ~seen.unlimited
  BY <1>5, <1>9, <1>10 DEF NULL
<1> DEFINE new == RolledBack(order[o], seen, d)
<1>16. Save(seen, new)
  BY <1>2, <1>4, <1>5, <1>6 DEF CancelCompleted
<1>17. Today \in Nat /\ given \in Nat
  BY DayTypes
<1>18. ASSUME user'.until = seen.until - d, ~user'.unlimited
       PROVE  Holds(found, user)'
  <2>1. ASSUME NEW p \in Paid', Gap(p)'
        PROVE  DaysOf(Paid)' <= found[p] + Later(0, user'.until - Start(p)')
    <3>1. D + d <= found[p] + Later(0, seen.until - Start(p))
      BY <1>10, <1>12, <2>1
    <3>2. D <= found[p] + Later(0, seen.until - d - Start(p))
      BY <1>5, <1>8, <1>9, <1>12, <2>1, <3>1 DEF Later
    <3>. QED
      BY <1>8, <1>12, <1>18, <2>1, <3>2
  <2>2. user'.until >= D /\ user'.until <= Today + D + given
    BY <1>5, <1>8, <1>9, <1>10, <1>17, <1>18
  <2>. QED
    BY <1>8, <1>11, <1>18, <2>1, <2>2 DEF Holds
<1>19. ASSUME user'.until = previous.until, user'.unlimited = previous.unlimited,
              Gap(o), seen.until = applied
       PROVE  Holds(found, user)'
  <2>1. D <= found[o] /\ found[o] \in Nat
    <3>1. D + d <= found[o] + Later(0, seen.until - Start(o))
      BY <1>7, <1>10, <1>19
    <3>. QED
      BY <1>5, <1>8, <1>9, <1>13, <1>19, <3>1 DEF Later
  <2>2. Paid' # {} => D > 0
    <3>1. ASSUME NEW p \in Paid' PROVE D > 0
      <4>1. Days[p] \in Nat \ {0} /\ Paid' \in SUBSET Order
        BY <1>7, DayTypes
      <4>2. D = DaysOf(Paid' \ {p}) + Days[p] /\ DaysOf(Paid' \ {p}) \in Nat
        BY <1>8, <3>1, <4>1, FewerDays, DaysFinite DEF DaysOf
      <4>. QED
        BY <4>1, <4>2
    <3>. QED
      BY <3>1
  <2>3. Paid' # {} => ~previous.unlimited /\ previous.until >= D
    BY <1>8, <1>9, <1>14, <2>1, <2>2
  <2>4. previous.until <= Today + D + given
    BY <1>8, <1>9, <1>13, <1>14, <1>17, <1>19
  <2>5. ASSUME NEW p \in Paid', Gap(p)'
        PROVE  D <= found[p] + Later(0, previous.until - Start(p))
    <3>1. /\ Gap(p) /\ p \in Paid /\ p # o /\ Start(p) \in Int /\ found[p] \in Nat
          /\ D + d <= found[p] + Later(0, seen.until - Start(p))
      BY <1>10, <1>12, <2>5
    <3>2. InTurn(found, p, o)
      BY <1>7, <1>19, <3>1 DEF Counted
    <3>3. CASE Start(p) >= Start(o)
      BY <1>5, <1>8, <1>9, <1>13, <1>19, <3>1, <3>3 DEF Later
    <3>4. CASE found[o] <= found[p] + Later(0, previous.until - Start(p))
      BY <1>8, <1>9, <2>1, <3>1, <3>4 DEF Later
    <3>. QED
      BY <1>6, <3>2, <3>3, <3>4 DEF InTurn
  <2>6. \A p \in Paid' : Gap(p)' =>
           DaysOf(Paid)' <= found[p] + Later(0, user'.until - Start(p)')
    BY <1>8, <1>12, <1>19, <2>5
  <2>. QED
    BY <1>8, <1>11, <1>14, <1>19, <2>3, <2>4, <2>6 DEF Holds
<1>20. Holds(found, user)'
  <2>1. CASE seen.until # applied
    <3>1. new = [seen EXCEPT !.until = seen.until - d]
      BY <1>6, <1>15, <2>1 DEF RolledBack
    <3>2. new.until = seen.until - d /\ new.unlimited = seen.unlimited
      BY <3>1 DEF Subscription
    <3>3. new.until # seen.until
      BY <1>5, <1>9, <3>2
    <3>. QED
      BY <1>10, <1>16, <1>18, <3>2, <3>3 DEF Save
  <2>2. CASE seen.until = applied
    <3>1. new = previous
      BY <1>6, <2>2 DEF RolledBack
    <3>2. previous.until # seen.until
      BY <1>5, <1>9, <1>13, <1>14, <2>2
    <3>3. user'.until = previous.until
      BY <1>16, <3>1, <3>2 DEF Save
    <3>4. user'.unlimited = previous.unlimited
      BY <1>9, <1>10, <1>16, <3>1 DEF Save
    <3>5. CASE Gap(o)
      BY <1>19, <2>2, <3>3, <3>4, <3>5
    <3>6. CASE ~Gap(o)
      BY <1>5, <1>13, <1>18, <2>2, <3>3, <3>4, <3>6
    <3>. QED
      BY <3>5, <3>6
  <2>. QED
    BY <2>1, <2>2
<1>21. ASSUME NEW p \in Paid' PROVE Found(found, p)'
  <2>1. Found(found, p) /\ order'[p] = order[p] /\ Start(p)' = Start(p) /\ Gap(p)' = Gap(p)
    BY <1>7, <1>12 DEF Counted
  <2>. QED
    BY <1>11, <2>1 DEF Found
<1>22. ASSUME NEW p \in Paid', NEW q \in Paid', p # q, Gap(p)', Gap(q)'
       PROVE  InTurn(found, p, q)'
  <2>1. InTurn(found, p, q)
    BY <1>12, <1>22 DEF Counted
  <2>. QED
    BY <1>7, <1>12, <2>1 DEF InTurn
<1>23. \A v \in Worker : ~Committing(v)'
  BY <1>1 DEF OneWorker, Committing, At
<1>. QED
  BY <1>20, <1>21, <1>22, <1>23 DEF Counted

LEMMA InitDays == Init => DaysKept
<1> SUFFICES ASSUME Init PROVE DaysKept
  OBVIOUS
<1> DEFINE found == [o \in Order |-> 0]
<1>1. Paid = {} /\ DaysOf(Paid) = 0
  BY NoDays DEF Init, Paid, NoOrder
<1>2. Today \in Nat
  BY InitTypes, DayTypes
<1>3. Holds(found, user)
  BY <1>1, <1>2 DEF Init, Holds, NoSubscription, NULL
<1>4. \A w \in Worker : ~Committing(w)
  BY DEF Init, Committing, At
<1>5. Counted(found) /\ found \in [Order -> Nat]
  BY <1>1, <1>3, <1>4 DEF Counted
<1>. QED
  BY <1>5 DEF DaysKept

\* A subscription made unlimited or cleared while nothing is paid or in work.
LEMMA ResetCounted ==
    ASSUME LInv, TypeOK', NEW found \in [Order -> Nat],
           Reset, ~reset', user' \in {Unlimited, NoSubscription}, UNCHANGED <<order, now, call>>
    PROVE  Counted(found)'
<1>1. Paid' = {} /\ \A w \in Worker : call'[w] = Idle
  BY DEF Reset, Paid
<1>2. DaysOf(Paid)' = 0
  BY <1>1, NoDays DEF DaysOf
<1>3. Today' \in Nat /\ given' \in Nat
  BY TrialAssumption, BillingAssumption DEF Today, Later, TypeOK
<1>4. user'.until <= 0
  BY DEF Unlimited, NoSubscription, NULL
<1>5. user'.until \in Int
  BY DEF TypeOK, Subscription
<1>6. Holds(found, user)'
  BY <1>1, <1>2, <1>3, <1>4, <1>5 DEF Holds
<1>7. \A w \in Worker : ~Committing(w)'
  BY <1>1 DEF Committing, At
<1>. QED
  BY <1>1, <1>6, <1>7 DEF Counted

LEMMA NextDays == OneWorker /\ DInv /\ [Next]_vars => DaysKept'
<1> SUFFICES ASSUME OneWorker, LInv, TypeOK', DaysKept, [Next]_vars, ~reset'
             PROVE  \E g \in [Order -> Nat] : Counted(g)'
  BY NextTypes DEF DInv, LInv, DaysKept
<1> USE DEF LInv
<1>1. ~reset
  BY DEF Next, Handler, vars, rows, history, create_payme_order, payme_rpc, Crash,
         TwelveHoursPass, OtherWriter, Reset, DayPasses, CreateReadsOrder, CreateReadsById,
         CreateReadsActive, CreateInserts, CreateExpires, ReadsTx, ReadsOrder, ReadsUser,
         PerformCommits, CancelCreated, CancelCompleted
<1>2. PICK found \in [Order -> Nat] : Counted(found)
  BY <1>1 DEF DaysKept
<1>3. Paid \subseteq Order /\ now \in Int /\ given \in Int /\ order \in [Order -> OrderRow]
  BY DayTypes DEF TypeOK
<1>4. ASSUME Calm, user' = user, \A w \in Worker : Committing(w)' => call'[w] = call[w]
      PROVE  Counted(found)'
  BY <1>2, <1>4, CalmCounted
<1>5. ASSUME NEW o \in Order, order[o].status # "paid",
             \/ order' = [order EXCEPT ![o].status = "pending"]
             \/ order' = [order EXCEPT ![o].status = "cancelled"],
             UNCHANGED <<now, given>>
      PROVE  Calm
  <2>1. \A p \in Order : p # o => order'[p] = order[p]
    BY <1>3, <1>5
  <2>2. order'[o].status # "paid"
    BY <1>3, <1>5 DEF OrderRow
  <2>. QED
    BY <1>3, <1>5, <2>1, <2>2 DEF Calm, Paid
<1>6. UNCHANGED <<order, now, given>> => Calm
  BY <1>3 DEF Calm, Paid
<1>7. ASSUME NEW w \in Worker, call'[w] = Idle \/ ~(call'[w].step = "commit")
      PROVE  \A v \in Worker : Committing(v)' => call'[v] = call[v]
  BY <1>7 DEF OneWorker, Committing, At
<1>8. ASSUME NEW o \in Order, create_payme_order(o) PROVE Counted(found)'
  <2>1. Calm
    BY <1>5, <1>8 DEF create_payme_order, history
  <2>. QED
    BY <1>4, <1>8, <2>1 DEF create_payme_order
<1>9. ASSUME NEW w \in Worker, NEW t \in Tx, NEW k \in {"create", "perform", "cancel"},
             payme_rpc(w, k, t)
      PROVE  Counted(found)'
  <2>1. call'[w].step # "commit"
    BY <1>9 DEF payme_rpc, TypeOK
  <2>. QED
    BY <1>4, <1>6, <1>7, <1>9, <2>1 DEF payme_rpc, rows, history
<1>10. ASSUME NEW w \in Worker, Handler(w) \/ Crash(w)
       PROVE  \E g \in [Order -> Nat] : Counted(g)'
  <2>1. call[w] # Idle /\ call[w] \in Call /\ call[w].tx \in Tx
        /\ OrderOf[call[w].tx] \in Order
    <3>1. call[w] # Idle
      BY <1>10 DEF Handler, Crash, At, CreateReadsOrder, CreateReadsById, CreateReadsActive,
                   CreateInserts, CreateExpires, ReadsTx, ReadsOrder, ReadsUser,
                   PerformCommits, CancelCreated, CancelCompleted
    <3>. QED
      BY <3>1, CallTypes DEF Call
  <2>2. IF call[w].kind = "create" THEN Creating(call[w]) ELSE Settling(call[w])
    BY <2>1 DEF Ledger, Reads
  <2>3. ASSUME Answer(w) PROVE call'[w] = Idle
    BY <2>3 DEF Answer, TypeOK
  <2>4. CASE CreateReadsOrder(w)
    <3>1. call'[w] = Idle \/ call'[w].step = "by_id"
      BY <2>1, <2>3, <2>4 DEF CreateReadsOrder, Goto, TypeOK, Call
    <3>. QED
      BY <1>4, <1>6, <1>7, <2>4, <3>1 DEF CreateReadsOrder, rows, history
  <2>5. CASE CreateReadsById(w)
    <3>1. call'[w] = Idle \/ call'[w].step = "active"
      BY <2>1, <2>3, <2>5 DEF CreateReadsById, Goto, TypeOK, Call
    <3>. QED
      BY <1>4, <1>6, <1>7, <2>5, <3>1 DEF CreateReadsById, rows, history
  <2>6. CASE CreateReadsActive(w)
    <3>1. call'[w] = Idle \/ call'[w].step \in {"insert", "expire"}
      BY <2>1, <2>3, <2>6 DEF CreateReadsActive, Goto, TypeOK, Call
    <3>. QED
      BY <1>4, <1>6, <1>7, <2>6, <3>1 DEF CreateReadsActive, rows, history
  <2>7. CASE CreateInserts(w)
    BY <1>4, <1>6, <1>7, <2>3, <2>7 DEF CreateInserts, history
  <2>8. CASE CreateExpires(w) \/ CancelCreated(w)
    <3>1. tx[call[w].tx] = "created" /\ UNCHANGED <<now, given, user>> /\ Answer(w)
      BY <2>2, <2>8 DEF CreateExpires, CancelCreated, Creating, Settling, At, history
    <3>2. order[OrderOf[call[w].tx]].status = "pending"
      BY <2>1, <3>1, OrderOfActive DEF Active
    <3>3. Calm
      BY <1>5, <2>1, <2>8, <3>1, <3>2 DEF CreateExpires, CancelCreated
    <3>. QED
      BY <1>4, <1>7, <2>3, <3>1, <3>3
  <2>9. CASE ReadsTx(w)
    <3>1. call'[w] = Idle \/ call'[w].step = "order"
      BY <2>1, <2>3, <2>9 DEF ReadsTx, TypeOK, Call
    <3>. QED
      BY <1>4, <1>6, <1>7, <2>9, <3>1 DEF ReadsTx, rows, history
  <2>10. CASE ReadsOrder(w)
    <3>1. \/ call'[w] = Idle
          \/ call'[w].step = "user"
          \/ call'[w].kind # "perform" /\ call'[w].seen_tx # "completed"
      BY <2>1, <2>3, <2>10 DEF ReadsOrder, TypeOK, Call
    <3>2. ~Committing(w)'
      BY <3>1 DEF Committing, At
    <3>. QED
      BY <1>4, <1>6, <2>10, <3>2 DEF ReadsOrder, rows, history, OneWorker
  <2>11. CASE ReadsUser(w)
    BY <1>2, <2>11, ReadComputes
  <2>12. CASE PerformCommits(w)
    BY <1>2, <2>12, PerformCounted DEF PerformCommits, history
  <2>13. CASE CancelCompleted(w)
    BY <1>2, <2>13, CancelCounted DEF CancelCompleted, history
  <2>14. CASE Crash(w)
    BY <1>4, <1>6, <1>7, <2>3, <2>14 DEF Crash, rows, history
  <2>. QED
    BY <1>10, <2>4, <2>5, <2>6, <2>7, <2>8, <2>9, <2>10, <2>11, <2>12, <2>13, <2>14 DEF Handler
<1>11. ASSUME NEW t \in Tx, TwelveHoursPass(t) PROVE Counted(found)'
  <2>1. UNCHANGED <<order, user, now, call, given>>
    BY <1>11 DEF TwelveHoursPass, history
  <2>. QED
    BY <1>4, <1>6, <2>1
<1>12. CASE OtherWriter
  <2>1. UNCHANGED <<order, now, call>>
    BY <1>12 DEF OtherWriter
  <2>2. CASE user' = [until |-> AppliedUntil(user, 1), unlimited |-> FALSE]
             /\ given' = given + 1
    BY <1>2, <2>1, <2>2, CodeCounted
  <2>3. CASE user' \in {Unlimited, NoSubscription} /\ Reset
    BY <2>1, <2>3, ResetCounted
  <2>. QED
    BY <1>12, <2>2, <2>3 DEF OtherWriter
<1>13. CASE DayPasses
  <2>1. UNCHANGED <<order, user, call, given>> /\ now' >= now
    BY <1>3, <1>13 DEF DayPasses, rows, history
  <2>2. Calm
    BY <1>3, <2>1 DEF Calm, Paid
  <2>. QED
    BY <1>4, <2>1, <2>2
<1>14. CASE UNCHANGED vars
  <2>1. UNCHANGED <<order, user, now, call, given>>
    BY <1>14 DEF vars, rows, history
  <2>. QED
    BY <1>4, <1>6, <2>1
<1>. QED
  BY <1>8, <1>9, <1>10, <1>11, <1>12, <1>13, <1>14 DEF Next

\* Beyond today and the trial nobody has more days than those of the orders that
\* are paid and of the codes activated: however performs, chargebacks, repeated
\* and broken calls follow each other (_apply_paid_subscription_plan and the two
\* branches of the rollback in CancelTransaction).
THEOREM NoFreeDaysKept ==
    ASSUME OneWorker
    PROVE  Spec => []NoFreeDays
<1>1. Init => DaysKept
  BY InitDays
<1>2. LInv /\ DaysKept /\ [Next]_vars => DaysKept'
  BY NextDays DEF DInv
<1>3. LInv /\ DaysKept => NoFreeDays
  BY DEF DaysKept, Counted, Holds, NoFreeDays, Today
<1>. QED
  BY <1>1, <1>2, <1>3, LedgerInvariant, PTL DEF Spec
=============================================================================
