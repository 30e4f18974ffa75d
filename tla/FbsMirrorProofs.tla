--------------------------- MODULE FbsMirrorProofs ---------------------------
(***************************************************************************)
(* The mirror of the FBS orders, for any orders, sweeps and chips: what    *)
(* the worker and a press delete from it is what Uzum did not hold when    *)
(* they looked.                                                            *)
(***************************************************************************)
EXTENDS FbsMirror, TLAPS

------------------------------------------------------------------------------
(* Types.                                                                  *)

LEMMA StatusSet ==
    /\ Status = {"CREATED", "PACKING", "PENDING_DELIVERY", "DELIVERING", "COMPLETED", "CANCELED"}
    /\ Active \subseteq Status /\ Invoiced \in Active /\ Absent \notin Status
BY DEF Status, Place, Active, Invoiced, Absent

Row == Status \cup {Absent}
WorkerRow == [at : {"idle", "sweep"}, todo : SUBSET Status,
              listed : [Order -> SUBSET Status], whole : SUBSET Active,
              hidden : SUBSET (Order \X Status)]
PressRow == [at : {"idle", "count", "write"}, status : Active,
             got : SUBSET Order, whole : BOOLEAN, sure : BOOLEAN,
             hidden : SUBSET Order]

LEMMA IdleTypes == IdleWorker \in WorkerRow /\ IdlePress \in PressRow
BY DEF IdleWorker, IdlePress, WorkerRow, PressRow, Active

LEMMA InitTypes == ASSUME Init PROVE TypeOK
<1>1. uzum \in [Order -> Row] /\ row \in [Order -> Row]
  BY MirrorAssumption DEF Init, Row
<1>2. worker \in WorkerRow /\ press \in PressRow
  BY IdleTypes DEF Init
<1>3. /\ strikes \in [Active -> 0..1] /\ owed \in [Order -> SUBSET Write]
      /\ struck \in [Active -> SUBSET Order] /\ faults \in 0..MaxFaults
  BY MirrorAssumption DEF Init
<1>. QED
  BY <1>1, <1>2, <1>3 DEF TypeOK, Row, WorkerRow, PressRow

LEMMA FaultTypes ==
    ASSUME TypeOK, Fault \/ UNCHANGED faults
    PROVE  faults' \in 0..MaxFaults /\ faults <= faults'
BY MirrorAssumption DEF TypeOK, Fault

\* What one drain adds to the sweep.
Adds(s, got, whole) ==
    /\ worker'.todo = worker.todo \ {s}
    /\ \A o \in Order : \A t : t \in worker'.listed[o] <=>
                                   t \in worker.listed[o] \/ (t = s /\ o \in got)
    /\ \A t : t \in worker'.whole <=> t \in worker.whole \/ (t = s /\ Prunable(s, whole))
    /\ \A o, t : <<o, t>> \in worker'.hidden <=>
                     <<o, t>> \in worker.hidden \/ (t = s /\ o \in InStatus(s) \ got)

LEMMA ListedFields ==
    ASSUME TypeOK, NEW s \in Status, NEW got \in SUBSET InStatus(s), NEW whole \in BOOLEAN,
           Listed(s, got, whole)
    PROVE  worker' \in WorkerRow /\ Adds(s, got, whole)
<1>1. worker \in WorkerRow
  BY DEF TypeOK, WorkerRow
<1>2. PICK listed, done, hidden :
          /\ listed = [o \in Order |-> worker.listed[o] \cup {x \in {s} : o \in got}]
          /\ done = worker.whole \cup {x \in {s} : Prunable(s, whole)}
          /\ hidden = worker.hidden \cup {<<o, s>> : o \in InStatus(s) \ got}
  OBVIOUS
<1>3. worker' = [worker EXCEPT !.todo = worker.todo \ {s}, !.listed = listed,
                               !.whole = done, !.hidden = hidden]
  BY <1>1, <1>2 DEF Listed, WorkerRow
<1>4. /\ worker'.at = worker.at /\ worker'.todo = worker.todo \ {s} /\ worker'.listed = listed
      /\ worker'.whole = done /\ worker'.hidden = hidden
  BY <1>1, <1>3 DEF WorkerRow
<1>5. /\ worker.todo \ {s} \in SUBSET Status /\ listed \in [Order -> SUBSET Status]
      /\ done \in SUBSET Active /\ hidden \in SUBSET (Order \X Status)
  BY <1>1, <1>2 DEF WorkerRow, Prunable, InStatus
<1>6. worker' \in WorkerRow
  BY <1>1, <1>3, <1>5 DEF WorkerRow
<1>. QED
  BY <1>2, <1>4, <1>6 DEF Adds

LEMMA SettledTypes ==
    ASSUME NEW r \in [Order -> Row], NEW s \in Status, NEW fresh, NEW answer
    PROVE  Settled(r, s, fresh, answer) \in [Order -> Row]
<1>1. Upsert(r, answer, Invoiced) \in [Order -> Row]
  BY StatusSet DEF Upsert, Row
<1>2. PICK homed \in [Order -> Row], gone \in SUBSET Order :
          \/ Settled(r, s, fresh, answer) = r
          \/ Settled(r, s, fresh, answer) =
                 [o \in Order |-> IF o \in gone /\ homed[o] = s THEN Absent ELSE homed[o]]
  BY <1>1 DEF Settled
<1>. QED
  BY <1>2 DEF Row

LEMMA SettleAllTypes ==
    ASSUME NEW r \in [Order -> Row], NEW answer
    PROVE  SettleAll(r, answer) \in [Order -> Row]
<1>1. \A q \in [Order -> Row], s \in Active : Settle(q, s, answer) \in [Order -> Row]
  BY SettledTypes, StatusSet DEF Settle
<1>. QED
  BY <1>1 DEF SettleAll, Active, Invoiced

LEMMA UpsertedTypes == ASSUME TypeOK PROVE UpsertedRows \in [Order -> Row]
BY DEF TypeOK, UpsertedRows, Row

LEMMA WorkerTypes == ASSUME TypeOK, WorkerStep PROVE TypeOK'
<1>1. ASSUME NEW due \in Sweeps, WorkerBegin(due) PROVE TypeOK'
  <2>1. worker' \in WorkerRow
    <3>1. IdleWorker \in WorkerRow /\ due \in SUBSET Status
      BY IdleTypes, MirrorAssumption
    <3>2. [IdleWorker EXCEPT !.at = "sweep", !.todo = due] \in WorkerRow
      BY <3>1 DEF WorkerRow
    <3>. QED
      BY <1>1, <3>2 DEF WorkerBegin
  <2>. QED
    BY <1>1, <2>1 DEF WorkerBegin, TypeOK, WorkerRow
<1>2. CASE WorkerDrain \/ WorkerDrainPart \/ WorkerDrainFluke
  <2>1. PICK s \in Status, got \in SUBSET Order, whole \in BOOLEAN :
            got \subseteq InStatus(s) /\ Listed(s, got, whole)
    BY <1>2, StatusSet DEF WorkerDrain, WorkerDrainPart, WorkerDrainFluke, InStatus
  <2>2. worker' \in WorkerRow
    BY <2>1, ListedFields
  <2>3. faults' \in 0..MaxFaults
    BY <1>2, FaultTypes DEF WorkerDrain, WorkerDrainPart, WorkerDrainFluke
  <2>4. UNCHANGED <<uzum, row, strikes, press, owed, struck>>
    BY <1>2 DEF WorkerDrain, WorkerDrainPart, WorkerDrainFluke
  <2>. QED
    BY <2>2, <2>3, <2>4 DEF TypeOK, WorkerRow
<1>3. CASE WorkerCommit
  <2>1. PICK answer : row' = SettleAll(UpsertedRows, answer) /\ Rehome(answer)
    BY <1>3 DEF WorkerCommit
  <2>2. row' \in [Order -> Row]
    BY <2>1, UpsertedTypes, SettleAllTypes
  <2>3. faults' \in 0..MaxFaults
    BY <2>1, FaultTypes DEF Rehome
  <2>4. strikes' \in [Active -> 0..1]
    <3>1. \A s \in Active : strikes[s] \in 0..1 /\ (Deferred(s) => strikes[s] + 1 \in 0..1)
      BY DEF TypeOK, Deferred
    <3>. QED
      BY <1>3, <3>1 DEF WorkerCommit
  <2>5. struck' \in [Active -> SUBSET Order]
    <3>1. \A s \in Active : struck[s] \in SUBSET Order
              /\ Fresh(s) \cup {o \in Order : <<o, s>> \in worker.hidden} \in SUBSET Order
      BY DEF TypeOK, Fresh
    <3>. QED
      BY <1>3, <3>1 DEF WorkerCommit
  <2>6. worker' \in WorkerRow /\ UNCHANGED <<uzum, press, owed>>
    BY <1>3, IdleTypes DEF WorkerCommit
  <2>. QED
    BY <2>2, <2>3, <2>4, <2>5, <2>6 DEF TypeOK, WorkerRow, Row
<1>4. CASE WorkerRollback
  BY <1>4, IdleTypes DEF WorkerRollback, TypeOK, WorkerRow
<1>. QED
  BY <1>1, <1>2, <1>3, <1>4 DEF WorkerStep

LEMMA PressTypes == ASSUME TypeOK, PressStep PROVE TypeOK'
<1>1. ASSUME NEW s \in Pressed, NEW got \in SUBSET InStatus(s), NEW whole \in BOOLEAN,
             PressDrained(s, got, whole)
      PROVE  press' \in PressRow
  <2>1. /\ got \in SUBSET Order /\ InStatus(s) \ got \in SUBSET Order /\ s \in Active
        /\ (IF whole /\ got = {} THEN "count" ELSE "write") \in {"idle", "count", "write"}
    BY MirrorAssumption DEF InStatus
  <2>. QED
    BY <1>1, <2>1 DEF PressDrained, PressRow
<1>2. CASE \E s \in Pressed : PressDrain(s) \/ PressDrainPart(s) \/ PressDrainFluke(s)
  <2>1. PICK s \in Pressed : PressDrain(s) \/ PressDrainPart(s) \/ PressDrainFluke(s)
    BY <1>2
  <2>2. PICK got \in SUBSET InStatus(s), whole \in BOOLEAN : PressDrained(s, got, whole)
    BY <2>1 DEF PressDrain, PressDrainPart, PressDrainFluke
  <2>3. press' \in PressRow
    BY <1>1, <2>2
  <2>4. faults' \in 0..MaxFaults
    BY <2>1, FaultTypes DEF PressDrain, PressDrainPart, PressDrainFluke
  <2>5. UNCHANGED <<uzum, row, worker, strikes, owed, struck>>
    BY <2>1 DEF PressDrain, PressDrainPart, PressDrainFluke
  <2>. QED
    BY <2>3, <2>4, <2>5 DEF TypeOK, PressRow
<1>3. CASE PressCount
  <2>1. PICK sure \in BOOLEAN :
            press' = [press EXCEPT !.at = "write", !.sure = sure,
                                   !.hidden = @ \cap InStatus(press.status)]
    BY <1>3 DEF PressCount
  <2>2. press' \in PressRow
    BY <2>1 DEF PressRow, TypeOK
  <2>3. faults' \in 0..MaxFaults
    BY <1>3, FaultTypes DEF PressCount
  <2>. QED
    BY <1>3, <2>2, <2>3 DEF PressCount, TypeOK, PressRow
<1>4. CASE PressWrite
  <2>1. PICK answer : /\ row' = IF PressSettles
                               THEN Settled(Upsert(row, press.got, press.status),
                                            press.status, press.got, answer)
                               ELSE Upsert(row, press.got, press.status)
                      /\ Rehome(answer)
    BY <1>4 DEF PressWrite
  <2>2. press.status \in Status /\ row \in [Order -> Row]
    BY StatusSet DEF TypeOK, Row
  <2>3. Upsert(row, press.got, press.status) \in [Order -> Row]
    BY <2>2 DEF Upsert, Row
  <2>4. row' \in [Order -> Row]
    BY <2>1, <2>2, <2>3, SettledTypes
  <2>5. faults' \in 0..MaxFaults
    BY <2>1, FaultTypes DEF Rehome
  <2>6. press' \in PressRow /\ UNCHANGED <<uzum, worker, strikes, owed, struck>>
    BY <1>4, IdleTypes DEF PressWrite
  <2>. QED
    BY <2>4, <2>5, <2>6 DEF TypeOK, PressRow, Row
<1>. QED
  BY <1>2, <1>3, <1>4 DEF PressStep

LEMMA SellerTypes == ASSUME TypeOK, NEW o \in Order, SellerStep(o) PROVE TypeOK'
<1>1. ASSUME NEW s \in Status, NEW writes \in SUBSET Write, Acts(o, s, writes) PROVE TypeOK'
  BY <1>1 DEF Acts, TypeOK
<1>2. ASSUME NEW w, NEW r \in Row, Pays(o, w, r), Fault \/ UNCHANGED faults PROVE TypeOK'
  <2>1. row' \in [Order -> Row] /\ owed' \in [Order -> SUBSET Write]
    BY <1>2 DEF Pays, TypeOK, Row
  <2>2. faults' \in 0..MaxFaults
    BY <1>2, FaultTypes
  <2>. QED
    BY <1>2, <2>1, <2>2 DEF Pays, TypeOK, Row
<1>3. CASE Confirm(o) \/ Cancel(o) \/ CreateInvoice(o)
  BY <1>1, <1>3, StatusSet DEF Confirm, Cancel, CreateInvoice, Write
<1>4. /\ row[o] \in Row /\ uzum[o] \in Row /\ "PACKING" \in Row
      /\ \A s \in Status : Updated(o, s) \in Row
  BY StatusSet DEF TypeOK, Row, Updated
<1>5. CASE Echo(o) \/ Mark(o) \/ Refetch(o) \/ Reflect(o) \/ WriteFails(o)
  BY <1>2, <1>4, <1>5, StatusSet DEF Echo, Mark, Refetch, Reflect, WriteFails, Writes
<1>6. CASE MarkAgain(o)
  BY <1>4, <1>6, StatusSet DEF MarkAgain, TypeOK, memory, Row
<1>. QED
  BY <1>3, <1>5, <1>6 DEF SellerStep

LEMMA NextTypes == ASSUME TypeOK, [Next]_vars PROVE TypeOK'
<1>1. CASE Restart
  <2>1. faults' \in 0..MaxFaults
    BY <1>1, FaultTypes DEF Restart
  <2>. QED
    BY <1>1, <2>1, IdleTypes DEF Restart, TypeOK, WorkerRow, PressRow
<1>2. ASSUME NEW o \in Order, Cleanup(o) PROVE TypeOK'
  BY <1>2 DEF Cleanup, TypeOK, memory
<1>3. ASSUME NEW o \in Order, UzumMoves(o) PROVE TypeOK'
  <2>1. \A s : Next1(s) \subseteq Status
    BY StatusSet DEF Next1, Invoiced
  <2>. QED
    BY <1>3, <2>1 DEF UzumMoves, TypeOK, memory
<1>4. CASE UNCHANGED vars
  BY <1>4 DEF vars, TypeOK
<1>. QED
  BY <1>1, <1>2, <1>3, <1>4, WorkerTypes, PressTypes, SellerTypes DEF Next

\* Every variable of the mirror keeps its type.
THEOREM TypeCorrect == Spec => []TypeOK
<1>1. Init => TypeOK
  BY InitTypes
<1>2. TypeOK /\ [Next]_vars => TypeOK'
  BY NextTypes
<1>. QED
  BY <1>1, <1>2, PTL DEF Spec

------------------------------------------------------------------------------
(* What the looks know.                                                    *)

\* A status is drained once in a sweep.
Undrained ==
    \A s \in worker.todo :
        s \notin worker.whole /\ \A o \in Order : s \notin worker.listed[o]
                                                  /\ <<o, s>> \notin worker.hidden

\* A drain that went to the end hides orders only by an empty answer.
EmptyLies ==
    \A s \in worker.whole, o \in Order : <<o, s>> \in worker.hidden => Fresh(s) = {}

\* A press that may settle hides nothing: /count has confirmed an empty answer.
PressSure == press.whole /\ (press.got # {} \/ press.sure) => press.hidden = {}

\* What is fetched again is an order of Uzum's.
RefetchThere == \A o \in Order : "refetch" \in owed[o] => uzum[o] # Absent

LooksInv == TypeOK /\ Undrained /\ EmptyLies /\ PressSure /\ RefetchThere

LEMMA InitLooks == ASSUME Init PROVE LooksInv
BY InitTypes DEF Init, IdleWorker, IdlePress, LooksInv, Undrained, EmptyLies, PressSure,
                 RefetchThere

\* One more drain, to the end with all it had or nothing, or cut short.
LEMMA LooksListed ==
    ASSUME LooksInv, NEW s \in Status, NEW got \in SUBSET InStatus(s), NEW whole \in BOOLEAN,
           Due(s), Listed(s, got, whole), whole => got = InStatus(s) \/ got = {}
    PROVE  Undrained' /\ EmptyLies'
<1>0. TypeOK
  BY DEF LooksInv
<1>1. Adds(s, got, whole)
  BY <1>0, ListedFields
<1>2. s \in worker.todo
  BY DEF Due
<1>3. Undrained'
  BY <1>1 DEF LooksInv, Undrained, Adds
<1>4. ASSUME NEW t \in worker'.whole, NEW o \in Order, <<o, t>> \in worker'.hidden
      PROVE  Fresh(t)' = {}
  <2>1. CASE t = s
    <3>1. whole /\ o \in InStatus(s) \ got
      BY <1>1, <1>2, <1>4, <2>1 DEF LooksInv, Undrained, Prunable, Adds
    <3>2. got = {}
      BY <3>1
    <3>. QED
      BY <1>1, <1>2, <2>1, <3>2 DEF LooksInv, Undrained, Fresh, Adds
  <2>2. CASE t # s
    BY <1>1, <1>4, <2>2 DEF LooksInv, EmptyLies, Fresh, Adds
  <2>. QED
    BY <2>1, <2>2
<1>5. EmptyLies'
  BY <1>4 DEF EmptyLies
<1>. QED
  BY <1>3, <1>5

LEMMA LooksWorker == ASSUME LooksInv, WorkerStep PROVE LooksInv'
<1>1. TypeOK'
  BY WorkerTypes DEF LooksInv
<1>2. UNCHANGED <<uzum, press, owed>>
  BY DEF WorkerStep, WorkerBegin, WorkerDrain, WorkerDrainPart, WorkerDrainFluke, WorkerCommit,
         WorkerRollback
<1>3. PressSure' /\ RefetchThere'
  BY <1>2 DEF LooksInv, PressSure, RefetchThere
<1>4. CASE WorkerDrain \/ WorkerDrainPart \/ WorkerDrainFluke
  <2>1. PICK s \in Status, got \in SUBSET Order, whole \in BOOLEAN :
            /\ got \subseteq InStatus(s) /\ Due(s) /\ Listed(s, got, whole)
            /\ whole => got = InStatus(s) \/ got = {}
    BY <1>4, StatusSet DEF WorkerDrain, WorkerDrainPart, WorkerDrainFluke, InStatus
  <2>2. Undrained' /\ EmptyLies'
    BY <2>1, LooksListed
  <2>. QED
    BY <1>1, <1>3, <2>2 DEF LooksInv
<1>5. ASSUME NEW due \in Sweeps, WorkerBegin(due) PROVE LooksInv'
  <2>1. /\ worker'.whole = {} /\ worker'.hidden = {}
        /\ \A o \in Order : worker'.listed[o] = {}
    BY <1>5 DEF WorkerBegin, IdleWorker
  <2>. QED
    BY <1>1, <1>3, <2>1 DEF LooksInv, Undrained, EmptyLies
<1>6. CASE WorkerCommit \/ WorkerRollback
  BY <1>1, <1>3, <1>6 DEF WorkerCommit, WorkerRollback, IdleWorker, LooksInv, Undrained, EmptyLies
<1>. QED
  BY <1>4, <1>5, <1>6 DEF WorkerStep

LEMMA LooksPress == ASSUME LooksInv, PressStep PROVE LooksInv'
<1>1. TypeOK'
  BY PressTypes DEF LooksInv
<1>2. UNCHANGED <<uzum, worker, owed>>
  BY DEF PressStep, PressDrain, PressDrainPart, PressDrainFluke, PressCount, PressWrite
<1>3. Undrained' /\ EmptyLies' /\ RefetchThere'
  BY <1>2 DEF LooksInv, Undrained, EmptyLies, RefetchThere, Fresh
<1>4. PressSure'
  <2>1. ASSUME NEW s, NEW got, NEW whole \in BOOLEAN, PressDrained(s, got, whole),
               whole => got = InStatus(s) \/ got = {}
        PROVE  PressSure'
    BY <2>1 DEF PressDrained, PressSure
  <2>2. CASE PressCount
    <3>1. PICK sure \in BOOLEAN :
              /\ press' = [press EXCEPT !.at = "write", !.sure = sure,
                                        !.hidden = @ \cap InStatus(press.status)]
              /\ sure => InStatus(press.status) = {}
      BY <2>2 DEF PressCount
    <3>2. /\ press'.sure = sure /\ press'.hidden = press.hidden \cap InStatus(press.status)
          /\ press'.whole = press.whole /\ press'.got = press.got
      BY <3>1 DEF LooksInv, TypeOK
    <3>. QED
      BY <3>1, <3>2 DEF LooksInv, PressSure
  <2>3. CASE PressWrite
    BY <2>3 DEF PressWrite, IdlePress, PressSure
  <2>. QED
    BY <2>1, <2>2, <2>3 DEF PressStep, PressDrain, PressDrainPart, PressDrainFluke
<1>. QED
  BY <1>1, <1>3, <1>4 DEF LooksInv

LEMMA NextLooks == ASSUME LooksInv, [Next]_vars PROVE LooksInv'
<1>1. TypeOK'
  BY NextTypes DEF LooksInv
<1>2. ASSUME NEW o \in Order, SellerStep(o) PROVE LooksInv'
  <2>1. UNCHANGED <<worker, press>>
    BY <1>2 DEF SellerStep, Confirm, Cancel, CreateInvoice, Acts, Echo, Mark, MarkAgain, Refetch,
                Reflect, WriteFails, Writes, Pays, memory
  <2>2. RefetchThere'
    <3>1. ASSUME NEW s \in Status, NEW writes, Acts(o, s, writes) PROVE RefetchThere'
      BY <3>1, StatusSet DEF Acts, LooksInv, TypeOK, RefetchThere
    <3>2. ASSUME NEW w, NEW r, Pays(o, w, r) PROVE RefetchThere'
      BY <3>2 DEF Pays, LooksInv, TypeOK, RefetchThere
    <3>3. CASE MarkAgain(o)
      BY <3>3 DEF MarkAgain, memory, LooksInv, RefetchThere
    <3>. QED
      BY <1>2, <3>1, <3>2, <3>3, StatusSet
         DEF SellerStep, Confirm, Cancel, CreateInvoice, Echo, Mark, Refetch, Reflect, WriteFails,
             Writes
  <2>. QED
    BY <1>1, <2>1, <2>2 DEF LooksInv, Undrained, EmptyLies, PressSure, Fresh
<1>3. ASSUME NEW o \in Order, Cleanup(o) \/ UzumMoves(o) PROVE LooksInv'
  <2>1. \A s : Next1(s) \subseteq Status
    BY StatusSet DEF Next1, Invoiced
  <2>2. RefetchThere'
    BY <1>3, <2>1, StatusSet DEF Cleanup, UzumMoves, memory, LooksInv, TypeOK, RefetchThere
  <2>3. UNCHANGED <<worker, press>>
    BY <1>3 DEF Cleanup, UzumMoves, memory
  <2>. QED
    BY <1>1, <2>2, <2>3 DEF LooksInv, Undrained, EmptyLies, PressSure, Fresh
<1>4. CASE Restart
  BY <1>1, <1>4 DEF Restart, IdleWorker, IdlePress, LooksInv, Undrained, EmptyLies, PressSure,
                    RefetchThere
<1>5. CASE UNCHANGED vars
  BY <1>1, <1>5 DEF vars, LooksInv, Undrained, EmptyLies, PressSure, RefetchThere, Fresh
<1>. QED
  BY <1>2, <1>3, <1>4, <1>5, LooksWorker, LooksPress DEF Next

LEMMA Looks == Spec => []LooksInv
<1>1. Init => LooksInv
  BY InitLooks
<1>2. LooksInv /\ [Next]_vars => LooksInv'
  BY NextLooks
<1>. QED
  BY <1>1, <1>2, PTL DEF Spec

------------------------------------------------------------------------------
(* What a transaction deletes.                                             *)

\* The worker drained status s to its end and did not see o there: o was not
\* there, or Uzum had answered that the status was empty, twice in a row.
Missed(o, s) ==
    /\ s \in worker.whole /\ o \notin Fresh(s)
    /\ <<o, s>> \notin worker.hidden \/ (Fresh(s) = {} /\ strikes[s] = 1)

Gone(o) == Missed(o, row[o]) \/ (uzum[o] = Invoiced /\ Missed(o, Invoiced))

\* The rows r of a transaction that is under way: what is deleted is gone, the
\* rest is as it was, or where the sweep or the re-home read saw it.
Sure(r) ==
    \A o \in Order :
        /\ r[o] = Absent => row[o] = Absent \/ Gone(o)
        /\ r[o] # Absent => \/ r[o] = row[o] \/ r[o] \in worker.listed[o]
                            \/ (r[o] = Invoiced /\ uzum[o] = Invoiced)

LEMMA SettleSure ==
    ASSUME LooksInv, NEW r \in [Order -> Row], Sure(r), NEW s \in Active,
           NEW answer \in RehomeAnswers
    PROVE  Settle(r, s, answer) \in [Order -> Row] /\ Sure(Settle(r, s, answer))
<1>1. CASE ~(s \in worker.whole /\ ~Deferred(s))
  BY <1>1 DEF Settle
<1>2. CASE s \in worker.whole /\ ~Deferred(s)
  <2> DEFINE departed == {o \in Order : r[o] = s /\ o \notin Fresh(s)}
  <2>1. PICK homed \in [Order -> Row] :
            /\ \A o \in Order : \/ homed[o] = r[o]
                                \/ homed[o] = Invoiced /\ uzum[o] = Invoiced
            /\ \/ Settle(r, s, answer) = r
               \/ Settle(r, s, answer) =
                      [o \in Order |-> IF o \in departed /\ homed[o] = s THEN Absent
                                                                        ELSE homed[o]]
    <3>1. Upsert(r, answer, Invoiced) \in [Order -> Row]
      BY StatusSet DEF Upsert, Row
    <3>2. CASE answer = NoAnswer
      BY <1>2, <3>2 DEF Settle, Settled
    <3>3. CASE answer # NoAnswer
      <4>1. answer \subseteq InStatus(Invoiced)
        BY <3>3 DEF RehomeAnswers
      <4>2. \A o \in Order : \/ Upsert(r, answer, Invoiced)[o] = r[o]
                             \/ /\ Upsert(r, answer, Invoiced)[o] = Invoiced
                                /\ uzum[o] = Invoiced
        BY <4>1 DEF Upsert, InStatus
      <4>. QED
        BY <1>2, <3>1, <3>3, <4>2 DEF Settle, Settled
    <3>. QED
      BY <3>2, <3>3
  <2>2. \A o \in Order : o \notin Fresh(s) => Missed(o, s)
    <3>1. Fresh(s) = {} => strikes[s] = 1
      BY <1>2 DEF Deferred, LooksInv, TypeOK
    <3>. QED
      BY <1>2, <3>1 DEF Missed, LooksInv, EmptyLies
  <2>3. Settle(r, s, answer) \in [Order -> Row]
    BY <2>1 DEF Row
  <2>4. Absent # Invoiced /\ s # Absent
    BY StatusSet
  <2>5. ASSUME NEW o \in Order, o \in departed, homed[o] = s
        PROVE  row[o] = Absent \/ Gone(o)
    <3>1. r[o] = s /\ o \notin Fresh(s) /\ Missed(o, s) /\ r[o] # Absent
      BY <2>2, <2>4, <2>5
    <3>2. s \notin worker.listed[o]
      BY <3>1 DEF Fresh
    <3>. QED
      BY <3>1, <3>2 DEF Sure, Gone
  <2>6. Sure(Settle(r, s, answer))
    <3>1. CASE Settle(r, s, answer) = r
      BY <3>1
    <3>2. CASE Settle(r, s, answer) = [o \in Order |-> IF o \in departed /\ homed[o] = s
                                                       THEN Absent ELSE homed[o]]
      <4>1. ASSUME NEW o \in Order, ~(o \in departed /\ homed[o] = s)
            PROVE  /\ homed[o] = Absent => row[o] = Absent \/ Gone(o)
                   /\ homed[o] # Absent => \/ homed[o] = row[o] \/ homed[o] \in worker.listed[o]
                                           \/ (homed[o] = Invoiced /\ uzum[o] = Invoiced)
        BY <2>1, <2>4 DEF Sure
      <4>. HIDE DEF departed
      <4>. QED
        BY <2>5, <3>2, <4>1 DEF Sure
    <3>. QED
      BY <2>1, <3>1, <3>2
  <2>. QED
    BY <2>3, <2>6
<1>. QED
  BY <1>1, <1>2

LEMMA CommitSure ==
    ASSUME LooksInv, NEW answer \in RehomeAnswers
    PROVE  Sure(SettleAll(UpsertedRows, answer))
<1>1. UpsertedRows \in [Order -> Row]
  BY UpsertedTypes DEF LooksInv
<1>2. Sure(UpsertedRows)
  <2>1. ASSUME NEW o \in Order PROVE UpsertedRows[o] = row[o] \/ UpsertedRows[o] \in worker.listed[o]
    BY DEF UpsertedRows
  <2>2. \A o \in Order : worker.listed[o] \subseteq Status
    BY DEF LooksInv, TypeOK
  <2>. QED
    BY <2>1, <2>2, StatusSet DEF Sure
<1>3. \A r \in [Order -> Row], s \in Active :
          Sure(r) => Settle(r, s, answer) \in [Order -> Row] /\ Sure(Settle(r, s, answer))
  BY SettleSure
<1>4. PICK created, packed, invoiced :
          /\ created = Settle(UpsertedRows, "CREATED", answer)
          /\ packed = Settle(created, "PACKING", answer)
          /\ invoiced = Settle(packed, Invoiced, answer)
  OBVIOUS
<1>5. {"CREATED", "PACKING", Invoiced, "DELIVERING"} \subseteq Active
  BY DEF Active, Invoiced
<1>6. created \in [Order -> Row] /\ Sure(created)
  BY <1>1, <1>2, <1>3, <1>4, <1>5
<1>7. packed \in [Order -> Row] /\ Sure(packed)
  BY <1>3, <1>4, <1>5, <1>6
<1>8. invoiced \in [Order -> Row] /\ Sure(invoiced)
  BY <1>3, <1>4, <1>5, <1>7
<1>9. Sure(Settle(invoiced, "DELIVERING", answer))
  BY <1>3, <1>5, <1>8
<1>. QED
  BY <1>4, <1>9 DEF SettleAll

\* A press deletes what its drain did not see.
LEMMA PressDeletes ==
    ASSUME LooksInv, PressWrite, NEW o \in Order, row[o] \in Active, row'[o] = Absent
    PROVE  press' # press /\ PressLooked(o, row[o])
<1>1. PICK answer : row' = IF PressSettles
                           THEN Settled(Upsert(row, press.got, press.status),
                                        press.status, press.got, answer)
                           ELSE Upsert(row, press.got, press.status)
  BY DEF PressWrite
<1>2. press.status \in Active /\ row \in [Order -> Row]
  BY DEF LooksInv, TypeOK, Row
<1>3. PICK upserted : upserted = Upsert(row, press.got, press.status)
  OBVIOUS
<1>4. upserted \in [Order -> Row] /\ upserted[o] # Absent
      /\ upserted[o] = IF o \in press.got THEN press.status ELSE row[o]
  BY <1>2, <1>3, StatusSet DEF Upsert, Row
<1>5. PressSettles /\ Settled(upserted, press.status, press.got, answer)[o] = Absent
  BY <1>1, <1>3, <1>4
<1>6. upserted[o] = press.status /\ o \notin press.got
  BY <1>4, <1>5, StatusSet DEF Settled, Upsert
<1>7. press.whole /\ press.hidden = {}
  BY <1>5 DEF PressSettles, Prunable, LooksInv, PressSure
<1>8. press' # press
  BY DEF PressWrite, IdlePress
<1>. QED
  BY <1>4, <1>6, <1>7, <1>8 DEF PressLooked

\* Nothing else deletes the row of an order that is active.
LEMMA OthersKeep ==
    ASSUME LooksInv, [Next]_vars, ~WorkerCommit, ~PressWrite, NEW o \in Order, row[o] \in Active
    PROVE  row'[o] # Absent
<1>1. row[o] # Absent /\ row \in [Order -> Row]
  BY StatusSet DEF LooksInv, TypeOK, Row
<1>2. CASE UNCHANGED row
  BY <1>1, <1>2
<1>3. ASSUME NEW q \in Order, SellerStep(q) PROVE row'[o] # Absent
  <2>1. ASSUME NEW w, NEW r, Pays(q, w, r), r = Absent => r = row[q] PROVE row'[o] # Absent
    BY <1>1, <2>1 DEF Pays
  <2>2. \A s \in Status : Updated(q, s) = Absent => row[q] = Absent
    BY StatusSet DEF Updated
  <2>3. CASE Refetch(q)
    <3>1. uzum[q] # Absent
      BY <2>3 DEF Refetch, Writes, Pays, LooksInv, RefetchThere
    <3>. QED
      BY <2>1, <2>3, <3>1 DEF Refetch, Writes
  <2>4. CASE Echo(q) \/ Mark(q) \/ Reflect(q) \/ WriteFails(q)
    BY <2>1, <2>2, <2>4, StatusSet DEF Echo, Mark, Reflect, WriteFails, Writes
  <2>5. CASE MarkAgain(q)
    BY <1>1, <2>2, <2>5, StatusSet DEF MarkAgain
  <2>6. CASE Confirm(q) \/ Cancel(q) \/ CreateInvoice(q)
    BY <1>2, <2>6 DEF Confirm, Cancel, CreateInvoice, Acts
  <2>. QED
    BY <1>3, <2>3, <2>4, <2>5, <2>6 DEF SellerStep
<1>4. ASSUME NEW q \in Order, Cleanup(q) PROVE row'[o] # Absent
  BY <1>1, <1>4 DEF Cleanup, Active
<1>5. CASE WorkerStep
  BY <1>2, <1>5 DEF WorkerStep, WorkerBegin, WorkerDrain, WorkerDrainPart, WorkerDrainFluke,
                    WorkerRollback
<1>6. CASE PressStep
  BY <1>2, <1>6 DEF PressStep, PressDrain, PressDrainPart, PressDrainFluke, PressCount
<1>. QED
  BY <1>2, <1>3, <1>4, <1>5, <1>6 DEF Next, Restart, UzumMoves, vars

\* Whatever fails, and however often: a row of an active order is deleted only
\* by a settle, and only when Uzum did not hold the order in the row's status as
\* it was drained (or in PENDING_DELIVERY, when the order is there by now), or
\* had twice in a row answered that the status was empty.
DeletesMissed ==
    [][\A o \in Order :
          row[o] \in Active /\ row'[o] = Absent =>
              IF press' = press THEN Gone(o) ELSE PressLooked(o, row[o])]_vars

\* _settle_departed_status_rows, called by the worker and by a press, deletes
\* nothing they have not looked for.
THEOREM NothingLost == Spec => DeletesMissed
<1>1. ASSUME LooksInv, [Next]_vars, NEW o \in Order, row[o] \in Active, row'[o] = Absent
      PROVE  IF press' = press THEN Gone(o) ELSE PressLooked(o, row[o])
  <2>1. CASE WorkerCommit
    <3>1. press' = press
      BY <2>1 DEF WorkerCommit
    <3>2. Gone(o)
      <4>1. PICK answer \in RehomeAnswers : row' = SettleAll(UpsertedRows, answer)
        BY <2>1 DEF WorkerCommit
      <4>2. row[o] # Absent
        BY <1>1, StatusSet
      <4>. QED
        BY <1>1, <4>1, <4>2, CommitSure DEF Sure
    <3>. QED
      BY <3>1, <3>2
  <2>2. CASE PressWrite
    BY <1>1, <2>2, PressDeletes
  <2>. QED
    BY <1>1, <2>1, <2>2, OthersKeep
<1>2. LooksInv /\ [Next]_vars =>
          [\A o \in Order : row[o] \in Active /\ row'[o] = Absent =>
               IF press' = press THEN Gone(o) ELSE PressLooked(o, row[o])]_vars
  BY <1>1
<1>. QED
  BY <1>2, Looks, PTL DEF Spec, DeletesMissed

------------------------------------------------------------------------------
(* With one thing that fails, no two empty answers in a row are flukes.    *)

\* What a strike was counted over was there only if Uzum had answered wrongly.
StrikeLies == \A t \in Active : struck[t] # {} => faults >= 1

\* A drain to the end that hides an order is the first thing that failed, so
\* no strike was counted over an order that was there.
LieAlone ==
    \A s \in worker.whole, o \in Order :
        <<o, s>> \in worker.hidden => faults >= 1 /\ \A t \in Active : struck[t] = {}

OnceInv == LooksInv /\ StrikeLies /\ LieAlone

LEMMA InitOnce == ASSUME Init PROVE OnceInv
BY InitLooks DEF Init, IdleWorker, OnceInv, StrikeLies, LieAlone

\* A step that leaves the sweep and the strikes alone.
LEMMA OnceKept ==
    ASSUME OnceInv, LooksInv', UNCHANGED <<worker, struck>>, Fault \/ UNCHANGED faults
    PROVE  OnceInv'
<1>1. TypeOK
  BY DEF OnceInv, LooksInv
<1>2. faults \in Nat /\ faults' \in Nat /\ faults <= faults'
  BY <1>1, FaultTypes, MirrorAssumption DEF TypeOK
<1>. QED
  BY <1>2 DEF OnceInv, StrikeLies, LieAlone

LEMMA OnceDrain ==
    ASSUME MaxFaults <= 1, OnceInv, LooksInv',
           WorkerDrain \/ WorkerDrainPart \/ WorkerDrainFluke
    PROVE  OnceInv'
<1>0. TypeOK /\ Undrained
  BY DEF OnceInv, LooksInv
<1>1. PICK s \in Status, got \in SUBSET Order, whole \in BOOLEAN :
          /\ got \subseteq InStatus(s) /\ Due(s) /\ Listed(s, got, whole)
          /\ whole => got = InStatus(s) \/ Fault
  BY StatusSet DEF WorkerDrain, WorkerDrainPart, WorkerDrainFluke, InStatus
<1>2. Adds(s, got, whole) /\ s \in worker.todo
  BY <1>0, <1>1, ListedFields DEF Due
<1>3. UNCHANGED struck /\ (Fault \/ UNCHANGED faults)
  BY DEF WorkerDrain, WorkerDrainPart, WorkerDrainFluke
<1>4. faults \in Nat /\ faults' \in Nat /\ faults <= faults'
  BY <1>0, <1>3, FaultTypes, MirrorAssumption DEF TypeOK
<1>5. StrikeLies'
  BY <1>3, <1>4 DEF OnceInv, StrikeLies
<1>6. ASSUME NEW t \in worker'.whole, NEW o \in Order, <<o, t>> \in worker'.hidden
      PROVE  faults' >= 1 /\ \A u \in Active : struck'[u] = {}
  <2>1. CASE t \in worker.whole
    <3>1. t # s /\ <<o, t>> \in worker.hidden
      BY <1>0, <1>2, <1>6, <2>1 DEF Undrained, Adds
    <3>. QED
      BY <1>3, <1>4, <2>1, <3>1 DEF OnceInv, LieAlone
  <2>2. CASE t \notin worker.whole
    <3>1. t = s /\ whole
      BY <1>2, <1>6, <2>2 DEF Adds, Prunable
    <3>2. o \in InStatus(s) \ got
      BY <1>0, <1>2, <1>6, <3>1 DEF Undrained, Adds
    <3>3. faults < MaxFaults /\ faults' = faults + 1
      BY <1>1, <3>1, <3>2 DEF Fault
    <3>4. faults = 0 /\ faults' = 1
      BY <1>4, <3>3, MirrorAssumption
    <3>5. \A u \in Active : struck[u] = {}
      BY <3>4 DEF OnceInv, StrikeLies
    <3>. QED
      BY <1>3, <3>4, <3>5
  <2>. QED
    BY <2>1, <2>2
<1>7. LieAlone'
  BY <1>6 DEF LieAlone
<1>. QED
  BY <1>5, <1>7 DEF OnceInv

LEMMA OnceCommit == ASSUME OnceInv, LooksInv', WorkerCommit PROVE OnceInv'
<1>0. TypeOK
  BY DEF OnceInv, LooksInv
<1>1. Fault \/ UNCHANGED faults
  BY DEF WorkerCommit, Rehome
<1>2. faults \in Nat /\ faults' \in Nat /\ faults <= faults'
  BY <1>0, <1>1, FaultTypes, MirrorAssumption DEF TypeOK
<1>3. ASSUME NEW t \in Active, struck'[t] # {} PROVE faults' >= 1
  <2>1. strikes'[t] # 0 /\
        struck'[t] = IF t \notin worker.whole THEN struck[t]
                     ELSE Fresh(t) \cup {o \in Order : <<o, t>> \in worker.hidden}
    BY <1>3 DEF WorkerCommit
  <2>2. CASE t \notin worker.whole
    BY <1>2, <1>3, <2>1, <2>2 DEF OnceInv, StrikeLies
  <2>3. CASE t \in worker.whole
    <3>1. Fresh(t) = {}
      BY <2>1, <2>3 DEF WorkerCommit, Deferred
    <3>2. PICK o \in Order : <<o, t>> \in worker.hidden
      BY <1>3, <2>1, <2>3, <3>1
    <3>. QED
      BY <1>2, <2>3, <3>2 DEF OnceInv, LieAlone
  <2>. QED
    BY <2>2, <2>3
<1>4. LieAlone'
  BY DEF WorkerCommit, IdleWorker, LieAlone
<1>. QED
  BY <1>3, <1>4 DEF OnceInv, StrikeLies

LEMMA NextOnce == ASSUME MaxFaults <= 1, OnceInv, [Next]_vars PROVE OnceInv'
<1>1. LooksInv'
  BY NextLooks DEF OnceInv
<1>2. ASSUME NEW o \in Order, SellerStep(o) \/ Cleanup(o) \/ UzumMoves(o) PROVE OnceInv'
  <2>1. UNCHANGED <<worker, struck>> /\ (Fault \/ UNCHANGED faults)
    BY <1>2 DEF SellerStep, Confirm, Cancel, CreateInvoice, Acts, Echo, Mark, MarkAgain, Refetch,
                Reflect, WriteFails, Writes, Pays, Cleanup, UzumMoves, memory
  <2>. QED
    BY <1>1, <2>1, OnceKept
<1>3. CASE PressStep
  <2>1. UNCHANGED <<worker, struck>> /\ (Fault \/ UNCHANGED faults)
    BY <1>3 DEF PressStep, PressDrain, PressDrainPart, PressDrainFluke, PressCount, PressWrite,
                Rehome
  <2>. QED
    BY <1>1, <2>1, OnceKept
<1>4. ASSUME NEW due \in Sweeps, WorkerBegin(due) PROVE OnceInv'
  <2>1. worker'.whole = {} /\ UNCHANGED <<faults, struck>>
    BY <1>4 DEF WorkerBegin, IdleWorker
  <2>. QED
    BY <1>1, <2>1 DEF OnceInv, StrikeLies, LieAlone
<1>5. CASE WorkerRollback
  BY <1>1, <1>5 DEF WorkerRollback, IdleWorker, OnceInv, StrikeLies, LieAlone
<1>6. CASE Restart
  BY <1>1, <1>6 DEF Restart, IdleWorker, OnceInv, StrikeLies, LieAlone
<1>7. CASE UNCHANGED vars
  BY <1>1, <1>7, OnceKept DEF vars
<1>8. CASE WorkerStep
  <2>1. CASE WorkerDrain \/ WorkerDrainPart \/ WorkerDrainFluke
    BY <1>1, <2>1, OnceDrain
  <2>2. CASE WorkerCommit
    BY <1>1, <2>2, OnceCommit
  <2>. QED
    BY <1>4, <1>5, <1>8, <2>1, <2>2 DEF WorkerStep
<1>. QED
  BY <1>2, <1>3, <1>6, <1>7, <1>8 DEF Next

\* A settle is sound when at most one thing fails, however many orders move and
\* whoever acts on them: of the two empty answers in a row that Missed allows,
\* one at least was true.  (Two flukes in a row do delete rows of orders that
\* are there: the worker waits for a second empty answer, not for a third.)
THEOREM Settles == ASSUME MaxFaults <= 1 PROVE Spec => SettleSound
<1>1. Init => OnceInv
  BY InitOnce
<1>2. OnceInv /\ [Next]_vars => OnceInv'
  BY NextOnce
<1>3. ASSUME OnceInv, NEW o \in Order, NEW s, Missed(o, s) PROVE WorkerLooked(o, s)
  <2>1. s \in Active
    BY <1>3 DEF Missed, OnceInv, LooksInv, TypeOK
  <2>. QED
    BY <1>3, <2>1 DEF Missed, WorkerLooked, OnceInv, LieAlone
<1>4. OnceInv /\ [\A o \in Order : row[o] \in Active /\ row'[o] = Absent =>
                     IF press' = press THEN Gone(o) ELSE PressLooked(o, row[o])]_vars
      => [\A o \in Order :
             row[o] \in Active /\ row'[o] = Absent =>
                 IF press' = press
                 THEN \/ WorkerLooked(o, row[o])
                      \/ uzum[o] = Invoiced /\ WorkerLooked(o, Invoiced)
                 ELSE PressLooked(o, row[o])]_vars
  BY <1>3 DEF Gone
<1>. QED
  BY <1>1, <1>2, <1>4, NothingLost, PTL DEF Spec, DeletesMissed, SettleSound
==============================================================================
