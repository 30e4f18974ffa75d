------------------------------ MODULE FbsMirror -------------------------------
(***************************************************************************)
(* The mirror of Uzum's FBS orders in the table fbs_orders, for the shops  *)
(* of one token.  Uzum moves an order along; the background worker         *)
(* (_fbs_sync_one_token of app.py) drains the statuses that are due, one   *)
(* request at a time, and then writes what it saw in one transaction; a    *)
(* press of a status chip (refresh_shops_status_live) does the same for    *)
(* one status; the seller's confirm, cancel and invoice change the order   *)
(* at Uzum first and the row afterwards.  Uzum's lists carry no deletions: *)
(* a row whose order left its status is settled, which deletes it unless a *)
(* second read finds it in an invoice (_settle_departed_status_rows).      *)
(*                                                                         *)
(* The statuses after DELIVERING are drained alike and are one here        *)
(* (COMPLETED); a page is not modelled: a drain returns the whole status,  *)
(* or part of it and is known to be incomplete.                            *)
(***************************************************************************)
EXTENDS Naturals

CONSTANTS
    Order,
    Begins,         \* where Uzum holds the orders at the start: functions
    Moving,         \* the orders that Uzum, or the seller's cabinet, moves
    Sweeps,         \* the sets of statuses that may be due together
    Pressed,        \* the chips that are pressed
    Acted,          \* the orders the seller acts on in the application
    MaxFaults       \* bound on what fails: an empty answer for a status that has
                    \* orders, a drain cut short, a request refused, a local
                    \* write lost, a restart

\* The statuses, each with its place in the order in which they are drained
\* and settled.
Place == [CREATED |-> 1, PACKING |-> 2, PENDING_DELIVERY |-> 3, DELIVERING |-> 4,
          COMPLETED |-> 5, CANCELED |-> 6]
Status == DOMAIN Place
Active == {"CREATED", "PACKING", "PENDING_DELIVERY", "DELIVERING"}
Invoiced == "PENDING_DELIVERY"      \* _INVOICE_HOLDING_STATUS
Absent == "absent"
NoAnswer == {"no answer"}     \* not a set of orders

ASSUME MirrorAssumption ==
    /\ Begins \subseteq [Order -> Status \cup {Absent}]
    /\ Sweeps \subseteq SUBSET Status /\ {} \notin Sweeps
    /\ Pressed \subseteq Active /\ Acted \subseteq Order /\ Moving \subseteq Order
    /\ MaxFaults \in Nat

VARIABLES
    uzum,       \* order -> its status at Uzum
    row,        \* order -> the status of its row in fbs_orders
    worker,     \* the sweep under way
    strikes,    \* active status -> consecutive empty drains counted, in memory
    press,      \* the chip press under way
    owed,       \* order -> local writes still to come of the seller's actions
    faults,
    struck      \* ghost: status -> what Uzum held when its strike was counted

vars == <<uzum, row, worker, strikes, press, owed, faults, struck>>
memory == <<worker, strikes, press, owed>>

Write == {"echo", "mark", "refetch", "reflect"}
IdleWorker == [at |-> "idle", todo |-> {}, listed |-> [o \in Order |-> {}],
               whole |-> {}, hidden |-> {}]
IdlePress == [at |-> "idle", status |-> "CREATED", got |-> {}, whole |-> FALSE,
              sure |-> FALSE, hidden |-> {}]

TypeOK ==
    /\ uzum \in [Order -> Status \cup {Absent}]
    /\ row \in [Order -> Status \cup {Absent}]
    /\ worker \in [at : {"idle", "sweep"}, todo : SUBSET Status,
                   listed : [Order -> SUBSET Status], whole : SUBSET Active,
                   hidden : SUBSET (Order \X Status)]
    /\ strikes \in [Active -> 0..1]
    /\ press \in [at : {"idle", "count", "write"}, status : Active,
                  got : SUBSET Order, whole : BOOLEAN, sure : BOOLEAN,
                  hidden : SUBSET Order]
    /\ owed \in [Order -> SUBSET Write]
    /\ faults \in 0..MaxFaults
    /\ struck \in [Active -> SUBSET Order]

\* One thing more that fails.
Fault == faults < MaxFaults /\ faults' = faults + 1

InStatus(s) == {o \in Order : uzum[o] = s}

Init ==
    /\ uzum \in Begins
    /\ row = [o \in Order |-> Absent]
    /\ worker = IdleWorker /\ press = IdlePress
    /\ strikes = [s \in Active |-> 0]
    /\ owed = [o \in Order |-> {}]
    /\ faults = 0
    /\ struck = [s \in Active |-> {}]

-----------------------------------------------------------------------------
(* What a transaction does to the rows.  upsert_orders puts every order it *)
(* is given under the status it was listed in; one statement carries them  *)
(* all, and Postgres refuses a statement that touches a row twice.         *)

Upsert(r, orders, s) == [o \in Order |-> IF o \in orders THEN s ELSE r[o]]

\* Mutants: a drain cut short is pruned from; only the statuses the worker
\* drained at first are.
PrunableCut(s, whole) == s \in Active
PrunableEarly(s, whole) == whole /\ s \in {"CREATED", "PACKING"}

\* A status whose drain may be pruned from (may_prune_status).
Prunable(s, whole) == whole /\ s \in Active

\* The rows left of r once status s is settled: `fresh` is what Uzum listed
\* under s, `answer` what the re-home read of PENDING_DELIVERY returned.
Settled(r, s, fresh, answer) ==
    LET departed == {o \in Order : r[o] = s /\ o \notin fresh}
        asks == departed # {} /\ s # Invoiced
        homed == IF asks /\ answer # NoAnswer THEN Upsert(r, answer, Invoiced)
                                              ELSE r
    IN  IF asks /\ answer = NoAnswer THEN r
        ELSE [o \in Order |-> IF o \in departed /\ homed[o] = s THEN Absent
                                                                ELSE homed[o]]

\* fetch_all_pages drops the completeness flag: the re-home read may be partial.
Rehome(answer) ==
    IF answer = InStatus(Invoiced) THEN UNCHANGED faults ELSE Fault
RehomeAnswers == (SUBSET InStatus(Invoiced)) \cup {NoAnswer}

-----------------------------------------------------------------------------
(* The worker: one tick of one token group.                                *)

\* A tick with the statuses `due`; their clocks restart whatever comes of it.
WorkerBegin(due) ==
    /\ worker.at = "idle"
    /\ worker' = [IdleWorker EXCEPT !.at = "sweep", !.todo = due]
    /\ UNCHANGED <<uzum, row, strikes, press, owed, faults, struck>>

\* The next status to drain, and what comes of its drain.
Due(s) == s \in worker.todo /\ \A t \in worker.todo : Place[s] <= Place[t]

Listed(s, got, whole) ==
    worker' = [worker EXCEPT
                 !.todo = @ \ {s},
                 !.listed = [o \in Order |-> @[o] \cup {x \in {s} : o \in got}],
                 !.whole = @ \cup {x \in {s} : Prunable(s, whole)},
                 !.hidden = @ \cup {<<o, s>> : o \in InStatus(s) \ got}]

\* An active status drained to its last page.
WorkerDrain ==
    /\ \E s \in Status : Due(s) /\ Listed(s, InStatus(s), TRUE)
    /\ UNCHANGED <<uzum, row, strikes, press, owed, faults, struck>>

\* The page cap, an empty page in the middle, an error, or, for a status
\* that is not active, a page whose orders are all known: part of it, or none.
WorkerDrainPart ==
    /\ \E s \in Status :
          /\ Due(s)
          /\ \E got \in SUBSET InStatus(s) : Listed(s, got, FALSE)
          /\ IF s \in Active THEN Fault ELSE UNCHANGED faults
    /\ UNCHANGED <<uzum, row, strikes, press, owed, struck>>

\* An empty first page for an active status that has orders.
WorkerDrainFluke ==
    /\ Fault
    /\ \E s \in Active : Due(s) /\ InStatus(s) # {} /\ Listed(s, {}, TRUE)
    /\ UNCHANGED <<uzum, row, strikes, press, owed, struck>>

Fresh(s) == {o \in Order : s \in worker.listed[o]}

\* An order that moved while the statuses were being drained is listed twice.
Twice == \E o \in Order : \E s, t \in worker.listed[o] : s # t

\* Mutant: a third empty drain is waited for.
DeferredThird(s) == Fresh(s) = {} /\ strikes[s] + 1 < 3

\* An empty list is acted on only when the status has a strike already.
Deferred(s) == Fresh(s) = {} /\ strikes[s] + 1 < 2

\* A status drained to its end is settled, unless it is deferred, ...
Settle(r, s, answer) ==
    IF s \in worker.whole /\ ~Deferred(s) THEN Settled(r, s, Fresh(s), answer) ELSE r

\* ... one status after the other.
SettleAll(r, answer) ==
    LET created == Settle(r, "CREATED", answer)
        packed == Settle(created, "PACKING", answer)
        invoiced == Settle(packed, Invoiced, answer)
    IN  Settle(invoiced, "DELIVERING", answer)

UpsertedRows == [o \in Order |-> IF worker.listed[o] = {} THEN row[o]
                                 ELSE CHOOSE s \in worker.listed[o] : TRUE]

\* The transaction at the end of the sweep.
WorkerCommit ==
    /\ worker.at = "sweep" /\ worker.todo = {} /\ ~Twice
    /\ \E answer \in RehomeAnswers :
          /\ row' = SettleAll(UpsertedRows, answer)
          /\ Rehome(answer)
    /\ strikes' = [s \in Active |-> IF s \notin worker.whole THEN strikes[s]
                                    ELSE IF Deferred(s) THEN strikes[s] + 1 ELSE 0]
    /\ struck' = [s \in Active |->
                    IF strikes'[s] = 0 THEN {}
                    ELSE IF s \notin worker.whole THEN struck[s]
                    ELSE Fresh(s) \cup {o \in Order : <<o, s>> \in worker.hidden}]
    /\ worker' = IdleWorker
    /\ UNCHANGED <<uzum, press, owed>>

\* The upsert fails and the transaction with it; the tick is over.
WorkerRollback ==
    /\ worker.at = "sweep" /\ worker.todo = {} /\ Twice
    /\ worker' = IdleWorker
    /\ UNCHANGED <<uzum, row, strikes, press, owed, faults, struck>>

\* _fbs_cleanup_tick: a row of a finished order past its retention.
Cleanup(o) ==
    /\ row[o] \in {"COMPLETED", "CANCELED"}
    /\ row' = [row EXCEPT ![o] = Absent]
    /\ UNCHANGED <<uzum, memory, faults, struck>>

-----------------------------------------------------------------------------
(* A press of a chip: drain, ask /count when the list is empty, write.     *)

PressDrained(s, got, whole) ==
    /\ press.at = "idle" /\ s \in Pressed
    /\ press' = [at |-> IF whole /\ got = {} THEN "count" ELSE "write",
                 status |-> s, got |-> got, whole |-> whole, sure |-> FALSE,
                 hidden |-> InStatus(s) \ got]

PressDrain(s) ==
    /\ PressDrained(s, InStatus(s), TRUE)
    /\ UNCHANGED <<uzum, row, worker, strikes, owed, faults, struck>>

\* The page cap or an empty page in the middle; an error ends the press.
PressDrainPart(s) ==
    /\ \E got \in SUBSET InStatus(s) \ {{}} : PressDrained(s, got, FALSE)
    /\ Fault
    /\ UNCHANGED <<uzum, row, worker, strikes, owed, struck>>

PressDrainFluke(s) ==
    /\ Fault /\ InStatus(s) # {}
    /\ PressDrained(s, {}, TRUE)
    /\ UNCHANGED <<uzum, row, worker, strikes, owed, struck>>

\* _confirm_status_empty: /count must say zero too; an error is not a zero.
PressCount ==
    /\ press.at = "count"
    /\ \E sure \in BOOLEAN :
          /\ press' = [press EXCEPT !.at = "write", !.sure = sure,
                                    !.hidden = @ \cap InStatus(press.status)]
          /\ IF sure = (InStatus(press.status) = {}) THEN UNCHANGED faults
                                                     ELSE ~sure /\ Fault
    /\ UNCHANGED <<uzum, row, worker, strikes, owed, struck>>

PressSettles == Prunable(press.status, press.whole) /\ (press.got # {} \/ press.sure)

PressWrite ==
    /\ press.at = "write"
    /\ \E answer \in RehomeAnswers :
          LET upserted == Upsert(row, press.got, press.status)
          IN  /\ row' = IF PressSettles
                        THEN Settled(upserted, press.status, press.got, answer)
                        ELSE upserted
              /\ Rehome(answer)
    /\ press' = IdlePress
    /\ UNCHANGED <<uzum, worker, strikes, owed, struck>>

-----------------------------------------------------------------------------
(* The seller's actions: Uzum first, then the local writes that are owed.  *)

Acts(o, s, writes) ==
    /\ o \in Acted /\ owed[o] = {}
    /\ uzum' = [uzum EXCEPT ![o] = s]
    /\ owed' = [owed EXCEPT ![o] = writes]
    /\ UNCHANGED <<row, worker, strikes, press, faults, struck>>

Confirm(o) == uzum[o] = "CREATED" /\ Acts(o, "PACKING", {"echo"})

\* cancel_order marks the row, starts the refetch, and the route marks it
\* again; an order Uzum has cancelled already is only marked (the self-heal).
Cancel(o) ==
    \/ uzum[o] \in {"CREATED", "PACKING", Invoiced} /\ Acts(o, "CANCELED", {"mark", "refetch"})
    \/ uzum[o] = "CANCELED" /\ Acts(o, "CANCELED", {"mark"})

\* The rows must be PACKING here; an order that has an invoice is updated.
CreateInvoice(o) ==
    /\ row[o] = "PACKING" /\ uzum[o] \in {"PACKING", Invoiced}
    /\ Acts(o, Invoiced, {"reflect"})

Pays(o, w, r) ==
    /\ w \in owed[o]
    /\ row' = [row EXCEPT ![o] = r]
    /\ owed' = [owed EXCEPT ![o] = @ \ {w}]
    /\ UNCHANGED <<uzum, worker, strikes, press, struck>>

\* An UPDATE touches a row that is there; an upsert makes one.
Updated(o, s) == IF row[o] = Absent THEN Absent ELSE s

Writes(o, w, r) == Pays(o, w, r) /\ UNCHANGED faults

Echo(o) == Writes(o, "echo", "PACKING")
Mark(o) == Writes(o, "mark", Updated(o, "CANCELED"))
MarkAgain(o) ==     \* the route's UPDATE, before or after the refetch's
    /\ "refetch" \in owed[o] /\ "mark" \notin owed[o]
    /\ row' = [row EXCEPT ![o] = Updated(o, "CANCELED")]
    /\ UNCHANGED <<uzum, memory, faults, struck>>
Refetch(o) == "mark" \notin owed[o] /\ Writes(o, "refetch", uzum[o])
Reflect(o) == Writes(o, "reflect", Updated(o, Invoiced))

\* Every local write is best effort: an error is logged and dropped.
WriteFails(o) == \E w \in owed[o] : Pays(o, w, row[o]) /\ Fault

-----------------------------------------------------------------------------
(* The world: Uzum and the seller's own use of its cabinet, and faults.  *)

Next1(s) == CASE s = Absent -> {"CREATED"}
              [] s = "CREATED" -> {"PACKING", "CANCELED"}
              [] s = "PACKING" -> {Invoiced, "CANCELED"}
              [] s = Invoiced -> {"DELIVERING", "CANCELED"}
              [] s = "DELIVERING" -> {"COMPLETED"}
              [] OTHER -> {}

UzumMoves(o) ==
    /\ o \in Moving
    /\ \E s \in Next1(uzum[o]) : uzum' = [uzum EXCEPT ![o] = s]
    /\ UNCHANGED <<row, memory, faults, struck>>

\* The process dies: what it held in memory is gone, strikes included.
Restart ==
    /\ Fault
    /\ worker' = IdleWorker /\ press' = IdlePress
    /\ strikes' = [s \in Active |-> 0]
    /\ owed' = [o \in Order |-> {}]
    /\ struck' = [s \in Active |-> {}]
    /\ UNCHANGED <<uzum, row>>

WorkerStep ==
    \/ \E due \in Sweeps : WorkerBegin(due)
    \/ WorkerDrain \/ WorkerDrainPart \/ WorkerDrainFluke
    \/ WorkerCommit \/ WorkerRollback

PressStep ==
    \/ \E s \in Pressed : PressDrain(s) \/ PressDrainPart(s) \/ PressDrainFluke(s)
    \/ PressCount \/ PressWrite

SellerStep(o) == Confirm(o) \/ Cancel(o) \/ CreateInvoice(o) \/ Echo(o) \/ Mark(o)
                 \/ MarkAgain(o) \/ Refetch(o) \/ Reflect(o) \/ WriteFails(o)

Next ==
    \/ WorkerStep \/ PressStep \/ Restart
    \/ \E o \in Order : SellerStep(o) \/ Cleanup(o) \/ UzumMoves(o)

Spec == Init /\ [][Next]_vars

-----------------------------------------------------------------------------
(* Properties.                                                             *)

\* What Uzum hid or did not hold at a look: the worker saw status s without
\* order o because o was not there, now or when the strike was counted.
WorkerLooked(o, s) ==
    /\ s \in worker.whole /\ o \notin Fresh(s)
    /\ \/ <<o, s>> \notin worker.hidden
       \/ Fresh(s) = {} /\ strikes[s] = 1 /\ o \notin struck[s]

PressLooked(o, s) ==
    press.status = s /\ press.whole /\ o \notin press.got \cup press.hidden

\* A settle deletes a row only if Uzum really did not hold the order in the
\* row's status at one of the looks the settle goes by, whatever part of a list
\* was cut off and even if one empty answer was a fluke.  The row's status is
\* the one the transaction found, or PENDING_DELIVERY when it re-homed the row
\* before it settled that status: then the order is there by now.
SettleSound ==
    [][\A o \in Order :
          row[o] \in Active /\ row'[o] = Absent =>
              IF press' = press
              THEN \/ WorkerLooked(o, row[o])
                   \/ uzum[o] = Invoiced /\ WorkerLooked(o, Invoiced)
              ELSE PressLooked(o, row[o])]_vars

\* The active statuses of the mirror say what Uzum says.
Agree == \A s \in Active : {o \in Order : row[o] = s} = InStatus(s)

\* Once Uzum, the faults and the seller have come to rest, the sweeps bring
\* the mirror to what Uzum holds and it stays so: a phantom is pruned, an order
\* listed twice is read again, a stale write is overwritten.
Converges == <>[]Agree

-----------------------------------------------------------------------------
(* Every sweep begins again and again, so the worker finishes each: the    *)
(* loop of _fbs_sync_loop wakes for ever and survives any exception of a   *)
(* tick.  Presses, the seller and Uzum owe nothing.                        *)

Fairness == \A due \in Sweeps : []<><<WorkerBegin(due)>>_vars

FairSpec == Spec /\ Fairness
=============================================================================
