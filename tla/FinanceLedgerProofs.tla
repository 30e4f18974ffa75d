------------------------ MODULE FinanceLedgerProofs ------------------------
(***************************************************************************)
(* Proofs about FinanceLedger, for any days, hours, windows and backfills: *)
(* the types, that the shop's lock keeps the writers apart as long as it  *)
(* is not lost and no backfill runs beside it, that a re-run replaces, and *)
(* that the messages of a day add up to it.                                *)
(***************************************************************************)
EXTENDS FinanceLedger, FiniteSetTheorems, WellFoundedInduction, TLAPS

\* While the lock is what keeps them apart, who works holds it.
Holds == \A w \in Active : w \in Locked /\ lock = w

\* A day is there once.
Single == \A d \in Day : \A v, w \in Copies(d) : v = w

\* Who is about to insert a day has deleted all that is there of it.
Cleared == \A w \in Writer : pc[w] = "writing" => Copies(DayAt(w)) \subseteq seen[w]

Kept == ~bare => Holds /\ Single /\ Cleared

\* Whose DELETE and INSERT of a day no other's overlap is alone at the day, and
\* has deleted all that is there of it.
Apart ==
    \A w \in Writer : pc[w] = "writing" /\ w \notin mixed =>
       AtDay(DayAt(w)) = {w} /\ Copies(DayAt(w)) \subseteq seen[w]

IInv == TypeOK /\ Kept

RInv == TypeOK /\ Apart

-----------------------------------------------------------------------------
(* The clock.                                                              *)

LEMMA DayOfType == ASSUME NEW h \in Nat PROVE DayOf(h) \in Nat
BY LedgerAssumption DEF DayOf

LEMMA FirstHour == Midnight(0)
BY LedgerAssumption DEF Midnight

\* A quotient is of the size of the bound its dividend is below.
LEMMA Quotient ==
    ASSUME NEW g \in Nat, NEW m \in Nat \ {0}, NEW b \in Nat, g < b * m
    PROVE  g \div m \in 0..(b - 1)
<1>1. PICK q \in Nat : q = g \div m
  OBVIOUS
<1>2. m * q <= g
  BY <1>1
<1>3. q < b
  <2>1. SUFFICES ASSUME q >= b PROVE FALSE
    OBVIOUS
  <2>2. PICK k \in Nat : q = b + k
    <3>1. q - b \in Nat /\ q = b + (q - b)
      BY <2>1
    <3>2. QED
      BY <3>1
  <2>3. m * q = b * m + k * m
    BY <2>2
  <2>4. k * m \in Nat /\ b * m \in Nat
    BY <2>2
  <2>5. QED
    BY <1>2, <2>3, <2>4
<1>4. QED
  BY <1>1, <1>3

\* The day a mark ends is one of the days.
LEMMA DayEndingType == ASSUME NEW h \in Hour PROVE DayEnding(h) \in Day
<1>1. h - 1 \in Nat /\ h - 1 < LastDay * Hours
  BY LedgerAssumption DEF Hour
<1>2. (h - 1) \div Hours \in 0..(LastDay - 1)
  BY <1>1, Quotient, LedgerAssumption
<1>3. QED
  BY <1>2, LedgerAssumption DEF DayEnding, DayOf, Day

\* What the quantities of a message start from is a quantity.
LEMMA StartsType == ASSUME TypeOK, NEW h \in Hour PROVE Starts(h) \subseteq Nat
<1> DEFINE rows == IF Midnight(h - 1) THEN {}
                   ELSE {snapshot[h - 1][v] : v \in Writer} \ {0}
<1>1. rows \subseteq Nat
  <2>1. CASE Midnight(h - 1)
    BY <2>1
  <2>2. CASE ~Midnight(h - 1)
    <3>1. h - 1 \in Hour
      BY <2>2, FirstHour, LedgerAssumption DEF Hour
    <3>2. \A v \in Writer : snapshot[h - 1][v] \in Nat
      BY <3>1, LedgerAssumption DEF TypeOK, Amount
    <3>3. QED
      BY <2>2, <3>2
  <2>3. QED
    BY <2>1, <2>2
<1>2. Starts(h) = IF rows = {} THEN {0} ELSE rows
  BY Zenon DEF Starts
<1> HIDE DEF rows
<1>3. QED
  BY <1>1, <1>2

-----------------------------------------------------------------------------
(* The types.                                                              *)

LEMMA InitTypes == Init => TypeOK
<1> SUFFICES ASSUME Init PROVE TypeOK
  OBVIOUS
<1>1. 0 \in Amount /\ 0 \in 0..LastHour /\ 0 \in 0..MaxFaults /\ 0 \in 0..MaxResyncs
  BY LedgerAssumption DEF Amount
<1>2. /\ NoRows \in [Writer -> Amount] /\ NoRows \in [Writer -> Nat]
      /\ NoneSold \in [Day -> Amount]
  BY <1>1 DEF NoRows, NoneSold
<1>3. "hourly" \in Writer
  BY DEF Writer, Locked
<1>4. /\ now \in 0..LastHour /\ sold \in [Day -> Amount]
      /\ ledger \in [Day -> [Writer -> Amount]]
      /\ snapshot \in [Hour -> [Writer -> Amount]]
      /\ told \in [Day -> [Writer -> Nat]] /\ last \in [Day -> Amount]
      /\ fetched \in [Writer -> [Day -> Amount]]
  BY <1>1, <1>2 DEF Init
<1>5. /\ pc \in [Writer -> {"idle", "fetch", "days", "writing"}]
      /\ left \in [Writer -> SUBSET Day] /\ seen \in [Writer -> SUBSET Writer]
      /\ \A w \in Writer : pc[w] = "idle"
  BY DEF Init
<1>6. /\ lock \in Locked \cup {"free"}
      /\ stage = "sleep" /\ snap = 0 /\ next \in Nat \ {0}
      /\ night \in Nat /\ faults \in 0..MaxFaults /\ resyncs \in 0..MaxResyncs
  <2>1. lock \in Locked \cup {"free"}
    BY DEF Init
  <2>2. stage = "sleep" /\ snap = 0
    BY DEF Init
  <2>3. next \in Nat \ {0} /\ night \in Nat
    BY DEF Init
  <2>4. faults \in 0..MaxFaults /\ resyncs \in 0..MaxResyncs
    BY <1>1 DEF Init
  <2>5. QED
    BY <2>1, <2>2, <2>3, <2>4
<1>7. bare \in BOOLEAN
  BY DEF Init
<1>8. /\ mixed \subseteq Writer /\ taken \subseteq Hour /\ sent \subseteq Hour
      /\ steady \subseteq Day
  BY DEF Init
<1>9. /\ \A w \in Writer : pc[w] = "writing" => left[w] # {}
      /\ stage # "sleep" => snap \in Hour
      /\ pc["hourly"] # "idle" => stage = "refresh"
  BY <1>3, <1>5, <1>6
<1>10. QED
  BY <1>4, <1>5, <1>6, <1>7, <1>8, <1>9 DEF TypeOK

\* Which thread works at what.
LEMMA WriterTypes ==
    ASSUME TypeOK, NEW w \in Writer
    PROVE  /\ Fetch(w) => TypeOK'
           /\ Delete(w) => TypeOK'
           /\ Commit(w) => TypeOK'
           /\ Finish(w) => TypeOK'
           /\ Raise(w) => TypeOK'
<1> USE DEF vars, writerVars, loopVars, bounds, ghosts
<1>1. ASSUME Fetch(w) PROVE TypeOK'
  <2>1. [d \in Day |-> IF d \in left[w] THEN sold[d] ELSE 0] \in [Day -> Amount]
    BY LedgerAssumption DEF TypeOK, Amount
  <2>2. QED
    BY <1>1, <2>1 DEF Fetch, TypeOK
<1>2. ASSUME Delete(w) PROVE TypeOK'
  <2>1. Sees(w, DayAt(w)) \subseteq Writer /\ AtDay(DayAt(w)) \subseteq Writer
    BY DEF Sees, Copies, AtDay
  <2>2. mixed' \subseteq Writer
    BY <1>2, <2>1 DEF Delete, TypeOK
  <2>3. QED
    BY <1>2, <2>1, <2>2 DEF Delete, TypeOK
<1>3. ASSUME Commit(w) PROVE TypeOK'
  <2> DEFINE d == DayAt(w)
  <2>1. ledger' \in [Day -> [Writer -> Amount]]
    <3>1. ASSUME d \in Day
          PROVE  [v \in Writer |-> IF v = w THEN fetched[w][d]
                                   ELSE IF v \in seen[w] THEN 0 ELSE ledger[d][v]]
                    \in [Writer -> Amount]
      BY <3>1, LedgerAssumption DEF TypeOK, Amount
    <3>2. QED
      BY <1>3, <3>1 DEF Commit, TypeOK
  <2>2. seen' \in [Writer -> SUBSET Writer]
    BY <1>3 DEF Commit, TypeOK
  <2>3. left' \in [Writer -> SUBSET Day] /\ mixed' \subseteq Writer
    BY <1>3 DEF Commit, TypeOK
  <2>4. /\ pc' \in [Writer -> {"idle", "fetch", "days", "writing"}]
        /\ \A v \in Writer : pc'[v] = "writing" => pc[v] = "writing" /\ v # w
        /\ \A v \in Writer : v # w => left'[v] = left[v]
        /\ pc'["hourly"] # "idle" => pc["hourly"] # "idle"
    BY <1>3 DEF Commit, TypeOK, Writer, Locked
  <2>5. QED
    BY <1>3, <2>1, <2>2, <2>3, <2>4 DEF Commit, TypeOK
<1>4. ASSUME Leave(w), pc[w] # "idle", faults' \in 0..MaxFaults,
             resyncs' \in 0..MaxResyncs
      PROVE  TypeOK'
  <2>1. NoneSold \in [Day -> Amount]
    BY LedgerAssumption DEF NoneSold, Amount
  <2>2. /\ pc' \in [Writer -> {"idle", "fetch", "days", "writing"}]
        /\ \A v \in Writer : pc'[v] = "writing" => pc[v] = "writing" /\ v # w
        /\ \A v \in Writer : v # w => left'[v] = left[v]
        /\ left' \in [Writer -> SUBSET Day] /\ seen' \in [Writer -> SUBSET Writer]
        /\ fetched' \in [Writer -> [Day -> Amount]]
    BY <1>4, <2>1 DEF Leave, TypeOK
  <2>3. /\ stage' \in {"sleep", "refresh", "snapshot", "dispatch"}
        /\ stage' # "sleep" => snap' \in Hour
        /\ pc'["hourly"] # "idle" => stage' = "refresh"
        /\ lock' \in Locked \cup {"free"}
    BY <1>4 DEF Leave, TypeOK, Writer, Locked
  <2>4. QED
    BY <1>4, <2>2, <2>3 DEF Leave, TypeOK
<1>5. ASSUME Finish(w) PROVE TypeOK'
  BY <1>4, <1>5 DEF Finish, TypeOK
<1>6. ASSUME Raise(w) PROVE TypeOK'
  <2>1. faults' \in 0..MaxFaults /\ resyncs' \in 0..MaxResyncs
    BY <1>6, LedgerAssumption DEF Raise, GoesWrong, TypeOK
  <2>2. QED
    BY <1>4, <1>6, <2>1 DEF Raise
<1>7. QED
  BY <1>1, <1>2, <1>3, <1>5, <1>6

\* A thread that begins.
LEMMA BeginTypes ==
    ASSUME TypeOK, NEW w \in Writer, NEW days \in SUBSET Day, Begin(w, days)
    PROVE  /\ pc' \in [Writer -> {"idle", "fetch", "days", "writing"}]
           /\ left' \in [Writer -> SUBSET Day]
           /\ \A v \in Writer : pc'[v] = "writing" => left'[v] # {}
           /\ \A v \in Writer : v # w => pc'[v] = pc[v]
BY DEF Begin, TypeOK

\* Every step keeps the types.
LEMMA NextTypes == TypeOK /\ [Next]_vars => TypeOK'
<1> SUFFICES ASSUME TypeOK, [Next]_vars PROVE TypeOK'
  OBVIOUS
<1> USE DEF vars, writerVars, loopVars, bounds, ghosts
<1>0. /\ "hourly" \in Writer /\ "nightly" \in Writer /\ Backfill \subseteq Writer
      /\ \A w \in Backfill : w # "hourly"
      /\ today \in Nat
  BY DayOfType, LedgerAssumption DEF Writer, Locked, today, TypeOK
<1>1. ASSUME NEW w \in Writer,
             Fetch(w) \/ Delete(w) \/ Commit(w) \/ Finish(w) \/ Raise(w)
      PROVE  TypeOK'
  BY <1>1, WriterTypes
<1>2. CASE Wake
  BY <1>2 DEF Wake, TypeOK, Hour
<1>3. CASE HourlyBegins
  <2>1. snap \in Hour
    BY <1>3 DEF HourlyBegins, TypeOK
  <2>2. {DayEnding(snap)} \in SUBSET Day
    BY <2>1, DayEndingType
  <2>3. Begin("hourly", {DayEnding(snap)})
    BY <1>3 DEF HourlyBegins
  <2>4. /\ pc' \in [Writer -> {"idle", "fetch", "days", "writing"}]
        /\ left' \in [Writer -> SUBSET Day]
        /\ \A v \in Writer : pc'[v] = "writing" => left'[v] # {}
    BY <1>0, <2>2, <2>3, BeginTypes
  <2>5. QED
    BY <1>3, <2>4 DEF HourlyBegins, Locks, Locked, TypeOK
<1>4. CASE HourlySkips
  BY <1>4 DEF HourlySkips, TypeOK
<1>5. CASE TakeSnapshot
  <2> DEFINE d == DayEnding(snap)
  <2>1. snap \in Hour /\ pc["hourly"] = "idle"
    BY <1>5 DEF TakeSnapshot, TypeOK
  <2>2. ledger[d] \in [Writer -> Amount] /\ NoRows \in [Writer -> Amount]
    BY <2>1, DayEndingType, LedgerAssumption DEF TypeOK, NoRows, Amount
  <2>3. snapshot' \in [Hour -> [Writer -> Amount]]
    BY <1>5, <2>2 DEF TakeSnapshot, TypeOK
  <2>4. PICK most \in Amount :
           /\ last' = [last EXCEPT ![d] = most]
           /\ steady' = IF most < last[d] \/ \E v, w \in Copies(d) : v # w
                        THEN steady \ {d} ELSE steady
    BY <1>5 DEF TakeSnapshot
  <2>6. last' \in [Day -> Amount] /\ steady' \subseteq Day
    BY <2>4 DEF TypeOK
  <2>5. taken' \subseteq Hour
    BY <1>5, <2>1 DEF TakeSnapshot, TypeOK
  <2>7. QED
    BY <1>5, <2>1, <2>3, <2>5, <2>6 DEF TakeSnapshot, TypeOK
<1>6. CASE SnapshotRaises
  BY <1>6, LedgerAssumption DEF SnapshotRaises, GoesWrong, TypeOK
<1>7. CASE Dispatch
  <2>1. snap \in Hour /\ pc["hourly"] = "idle"
    BY <1>7 DEF Dispatch, TypeOK
  <2>2. PICK s \in Starts(snap) :
           told' = [told EXCEPT ![DayEnding(snap)] =
                     [v \in Writer |-> IF snapshot[snap][v] > s
                                       THEN @[v] + (snapshot[snap][v] - s) ELSE @[v]]]
    BY <1>7 DEF Dispatch
  <2>3. s \in Nat /\ \A v \in Writer : snapshot[snap][v] \in Nat
    BY <2>1, StartsType, LedgerAssumption DEF TypeOK, Amount
  <2>4. [v \in Writer |-> IF snapshot[snap][v] > s
                          THEN told[DayEnding(snap)][v] + (snapshot[snap][v] - s)
                          ELSE told[DayEnding(snap)][v]] \in [Writer -> Nat]
    <3>1. told[DayEnding(snap)] \in [Writer -> Nat]
      BY <2>1, DayEndingType DEF TypeOK
    <3>2. QED
      BY <2>3, <3>1
  <2>5. told' \in [Day -> [Writer -> Nat]]
    BY <2>2, <2>4 DEF TypeOK
  <2>6. next' \in Nat \ {0} /\ sent' \subseteq Hour
    BY <1>7, <2>1 DEF Dispatch, TypeOK
  <2>7. QED
    BY <1>7, <2>1, <2>5, <2>6 DEF Dispatch, TypeOK
<1>8. CASE DispatchRaises
  BY <1>8, LedgerAssumption DEF DispatchRaises, GoesWrong, TypeOK
<1>9. CASE NightlyBegins
  <2> DEFINE days == {d \in Day : d < today /\ today <= d + RefreshDays}
  <2>1. Begin("nightly", days) /\ days \in SUBSET Day
    BY <1>9 DEF NightlyBegins
  <2>2. /\ pc' \in [Writer -> {"idle", "fetch", "days", "writing"}]
        /\ left' \in [Writer -> SUBSET Day]
        /\ \A v \in Writer : pc'[v] = "writing" => left'[v] # {}
        /\ pc'["hourly"] = pc["hourly"]
    BY <1>0, <2>1, BeginTypes
  <2>3. QED
    BY <1>0, <1>9, <2>2 DEF NightlyBegins, Locks, Locked, TypeOK
<1>10. CASE NightlySkips
  BY <1>0, <1>10 DEF NightlySkips, TypeOK
<1>11. ASSUME NEW w \in Backfill, BackfillBegins(w) PROVE TypeOK'
  <2> DEFINE days == {d \in Day : d <= today}
  <2>1. Begin(w, days) /\ days \in SUBSET Day
    BY <1>11 DEF BackfillBegins
  <2>2. /\ pc' \in [Writer -> {"idle", "fetch", "days", "writing"}]
        /\ left' \in [Writer -> SUBSET Day]
        /\ \A v \in Writer : pc'[v] = "writing" => left'[v] # {}
        /\ pc'["hourly"] = pc["hourly"]
    BY <1>0, <2>1, BeginTypes
  <2>3. resyncs' \in 0..MaxResyncs
    BY <1>11, LedgerAssumption DEF BackfillBegins, TypeOK
  <2>4. QED
    BY <1>11, <2>2, <2>3 DEF BackfillBegins, TypeOK
<1>12. CASE Expire
  <2>1. CASE pc[lock] = "idle"
    BY <1>12, <2>1 DEF Expire, TypeOK
  <2>2. CASE pc[lock] # "idle"
    <3>1. GoesWrong /\ bare' = TRUE
      BY <1>12, <2>2 DEF Expire
    <3>2. faults' \in 0..MaxFaults /\ resyncs' = resyncs
      BY <3>1, LedgerAssumption DEF GoesWrong, TypeOK
    <3>3. QED
      BY <1>12, <3>1, <3>2 DEF Expire, TypeOK
  <2>3. QED
    BY <2>1, <2>2
<1>13. CASE Restart
  <2>1. NoneSold \in [Day -> Amount]
    BY LedgerAssumption DEF NoneSold, Amount
  <2>2. faults' \in 0..MaxFaults /\ resyncs' = resyncs
    BY <1>13, LedgerAssumption DEF Restart, GoesWrong, TypeOK
  <2>3. next' \in Nat \ {0} /\ night' \in Nat
    BY <1>0, <1>13 DEF Restart, TypeOK
  <2>4. QED
    BY <1>0, <1>13, <2>1, <2>2, <2>3 DEF Restart, TypeOK
<1>14. CASE HourPasses
  BY <1>14, LedgerAssumption DEF HourPasses, TypeOK
<1>15. CASE Trade
  <2>1. sold' \in [Day -> Amount]
    <3>1. ASSUME NEW a \in Amount PROVE (a < MaxSold => a + 1 \in Amount)
                                        /\ (a > 0 => a - 1 \in Amount)
      BY LedgerAssumption DEF Amount
    <3>2. CASE today \in Day /\ sold[today] < MaxSold
               /\ sold' = [sold EXCEPT ![today] = @ + 1]
      <4>1. sold[today] \in Amount
        BY <3>2 DEF TypeOK
      <4>2. sold[today] + 1 \in Amount
        BY <3>1, <3>2, <4>1
      <4>3. QED
        BY <3>2, <4>2 DEF TypeOK
    <3>3. ASSUME NEW d \in Day, sold[d] > 0, sold' = [sold EXCEPT ![d] = @ - 1]
          PROVE  sold' \in [Day -> Amount]
      <4>1. sold[d] \in Amount
        BY <3>3 DEF TypeOK
      <4>2. sold[d] - 1 \in Amount
        BY <3>1, <3>3, <4>1
      <4>3. QED
        BY <3>3, <4>2 DEF TypeOK
    <3>4. QED
      BY <1>15, <3>2, <3>3 DEF Trade
  <2>2. faults' \in 0..MaxFaults /\ resyncs' = resyncs
    BY <1>15, LedgerAssumption DEF Trade, GoesWrong, TypeOK
  <2>3. QED
    BY <1>15, <2>1, <2>2 DEF Trade, TypeOK
<1>16. CASE TickRaises
  BY <1>16, LedgerAssumption DEF TickRaises, GoesWrong, TypeOK
<1>17. CASE DispatchDay
  BY <1>17 DEF DispatchDay, TypeOK
<1>18. CASE UNCHANGED vars
  BY <1>18 DEF TypeOK
<1>19. QED
  BY <1>1, <1>2, <1>3, <1>4, <1>5, <1>6, <1>7, <1>8, <1>9, <1>10, <1>11, <1>12,
     <1>13, <1>14, <1>15, <1>16, <1>17, <1>18 DEF Next

\* The ledger, the snapshots, the messages and the threads that write them keep
\* their types: in particular what a message reports is never negative.
THEOREM TypeCorrect == Spec => []TypeOK
<1>1. Init => TypeOK
  BY InitTypes
<1>2. TypeOK /\ [Next]_vars => TypeOK'
  BY NextTypes
<1>3. QED
  BY <1>1, <1>2, PTL DEF Spec

-----------------------------------------------------------------------------
(* The lock.                                                               *)

\* Nobody works at the start, and no day is there.
LEMMA InitKept == Init => Kept
BY DEF Init, Kept, Holds, Single, Cleared, Active, Copies, NoRows

\* A step that is none of a writer's own leaves them as they are.
LEMMA UntouchedKept ==
    ASSUME Kept, UNCHANGED <<ledger, lock, pc, left, seen, bare>>
    PROVE  Kept'
BY DEF Kept, Holds, Single, Cleared, Active, Copies, DayAt

\* While somebody who holds the lock works, he works alone.
LEMMA Alone ==
    ASSUME Kept, ~bare, NEW w \in Writer, pc[w] # "idle"
    PROVE  /\ w \in Locked /\ lock = w
           /\ \A v \in Writer : v # w => pc[v] = "idle"
BY DEF Kept, Holds, Active

\* While the key is not set, nobody works.
LEMMA Nobody ==
    ASSUME Kept, ~bare, lock = "free"
    PROVE  \A w \in Writer : pc[w] = "idle"
BY LedgerAssumption DEF Kept, Holds, Active, Locked

\* A writer's steps.
LEMMA WriterKept ==
    ASSUME TypeOK, Kept, ~bare, NEW w \in Writer
    PROVE  /\ Fetch(w) => Kept'
           /\ Delete(w) => Kept'
           /\ Commit(w) => Kept'
           /\ Finish(w) => Kept'
           /\ Raise(w) => Kept'
<1>0. Holds /\ Single /\ Cleared
  BY DEF Kept
<1>1. ASSUME Fetch(w) PROVE Kept'
  <2>1. Holds' /\ Single'
    BY <1>0, <1>1 DEF Fetch, Holds, Single, Active, Copies, TypeOK
  <2>2. Cleared'
    BY <1>0, <1>1 DEF Fetch, Cleared, Copies, DayAt, TypeOK
  <2>3. QED
    BY <2>1, <2>2 DEF Kept
<1>2. ASSUME Delete(w) PROVE Kept'
  <2>1. Holds' /\ Single'
    BY <1>0, <1>2 DEF Delete, Holds, Single, Active, Copies, TypeOK
  <2>2. Cleared'
    <3>1. SUFFICES ASSUME NEW v \in Writer, pc'[v] = "writing"
                   PROVE  Copies(DayAt(v))' \subseteq seen'[v]
      BY DEF Cleared
    <3>2. ledger' = ledger /\ left' = left
      BY <1>2 DEF Delete
    <3>3. CASE v = w
      BY <1>2, <3>2, <3>3 DEF Delete, Sees, Copies, DayAt, TypeOK
    <3>4. CASE v # w
      <4>1. pc[v] = "writing" /\ seen'[v] = seen[v]
        BY <1>2, <3>1, <3>4 DEF Delete, TypeOK
      <4>2. QED
        BY <1>0, <3>2, <4>1 DEF Cleared, Copies, DayAt
    <3>5. QED
      BY <3>3, <3>4
  <2>3. QED
    BY <2>1, <2>2 DEF Kept
<1>3. ASSUME Commit(w) PROVE Kept'
  <2> DEFINE d == DayAt(w)
  <2>1. \A v \in Writer : v # w => pc[v] = "idle"
    BY <1>3, Alone DEF Commit
  <2>2. Holds'
    BY <1>0, <1>3 DEF Commit, Holds, Active, TypeOK
  <2>3. \A v \in Writer : pc'[v] # "writing"
    BY <1>3, <2>1 DEF Commit, TypeOK
  <2>4. Single'
    <3>1. SUFFICES ASSUME NEW e \in Day PROVE \A u, v \in Copies(e)' : u = v
      BY DEF Single
    <3>2. CASE e = d
      <4>1. Copies(d) \subseteq seen[w]
        BY <1>0, <1>3 DEF Commit, Cleared
      <4>2. \A v \in Writer : v # w => ledger'[d][v] = IF v \in seen[w] THEN 0 ELSE ledger[d][v]
        BY <1>3, <3>2 DEF Commit, TypeOK
      <4>3. \A v \in Writer : v \notin seen[w] => ~(ledger[d][v] > 0)
        BY <4>1 DEF Copies
      <4>4. \A v \in Writer : v # w => ~(ledger'[d][v] > 0)
        BY <4>2, <4>3
      <4>5. Copies(e)' \subseteq {w}
        BY <3>2, <4>4 DEF Copies
      <4>6. QED
        BY <4>5
    <3>3. CASE e # d
      <4>1. ledger'[e] = ledger[e]
        BY <1>3, <3>3 DEF Commit, TypeOK
      <4>2. QED
        BY <1>0, <4>1 DEF Single, Copies
    <3>4. QED
      BY <3>2, <3>3
  <2>5. QED
    BY <2>2, <2>3, <2>4 DEF Kept, Cleared
<1>4. ASSUME Leave(w), pc[w] # "idle" PROVE Kept'
  <2>1. \A v \in Writer : v # w => pc[v] = "idle"
    BY <1>4, Alone
  <2>2. \A v \in Writer : pc'[v] = "idle"
    BY <1>4, <2>1 DEF Leave, TypeOK
  <2>3. Single'
    BY <1>0, <1>4 DEF Leave, Single, Copies
  <2>4. QED
    BY <2>2, <2>3 DEF Kept, Holds, Cleared, Active
<1>5. ASSUME Finish(w) PROVE Kept'
  BY <1>4, <1>5 DEF Finish
<1>6. ASSUME Raise(w) PROVE Kept'
  BY <1>4, <1>6 DEF Raise
<1>7. QED
  BY <1>1, <1>2, <1>3, <1>5, <1>6

\* A loop that has found the key unset begins alone.
LEMMA BeginKept ==
    ASSUME TypeOK, Kept, ~bare, NEW w \in Locked, NEW days, Begin(w, days), Locks(w),
           UNCHANGED <<ledger, seen>>
    PROVE  Kept'
<1>1. \A v \in Writer : pc[v] = "idle"
  BY Nobody DEF Locks
<1>2. /\ w \in Writer /\ pc'[w] = "fetch" /\ lock' = w
      /\ \A v \in Writer : v # w => pc'[v] = "idle"
  BY <1>1 DEF Begin, Locks, Writer, TypeOK
<1>3. Holds' /\ Cleared'
  BY <1>2 DEF Holds, Cleared, Active
<1>4. Single'
  BY DEF Kept, Single, Copies
<1>5. QED
  BY <1>3, <1>4 DEF Kept

\* Every step keeps what the lock is for.
LEMMA NextKept == IInv /\ [Next]_vars => Kept'
<1> SUFFICES ASSUME IInv, [Next]_vars PROVE Kept'
  OBVIOUS
<1> USE DEF IInv, vars, writerVars, loopVars, bounds, ghosts
<1>1. CASE bare
  <2>1. bare'
    BY <1>1 DEF Next, Fetch, Delete, Commit, Finish, Raise, Leave, Wake, HourlyBegins,
       HourlySkips, TickRaises, TakeSnapshot, SnapshotRaises, Dispatch, DispatchDay,
       DispatchRaises, NightlyBegins, NightlySkips, BackfillBegins, Expire, Restart, HourPasses, Trade
  <2>2. QED
    BY <2>1 DEF Kept
<1>2. CASE ~bare
  <2>1. ASSUME NEW w \in Writer,
               Fetch(w) \/ Delete(w) \/ Commit(w) \/ Finish(w) \/ Raise(w)
        PROVE  Kept'
    BY <1>2, <2>1, WriterKept
  <2>2. CASE Wake \/ HourlySkips \/ TickRaises \/ TakeSnapshot \/ SnapshotRaises \/ Dispatch
             \/ DispatchDay \/ DispatchRaises \/ NightlySkips \/ HourPasses \/ Trade
    BY <2>2, UntouchedKept DEF Wake, HourlySkips, TickRaises, TakeSnapshot, SnapshotRaises,
       Dispatch, DispatchDay, DispatchRaises, NightlySkips, HourPasses, Trade
  <2>3. CASE HourlyBegins
    BY <1>2, <2>3, BeginKept DEF HourlyBegins, Locked
  <2>4. CASE NightlyBegins
    BY <1>2, <2>4, BeginKept DEF NightlyBegins, Locked
  <2>5. ASSUME NEW w \in Backfill, BackfillBegins(w) PROVE Kept'
    BY <2>5 DEF BackfillBegins, Kept
  <2>6. CASE Expire
    <3>1. CASE pc[lock] # "idle"
      BY <2>6, <3>1 DEF Expire, Kept
    <3>2. CASE pc[lock] = "idle"
      <4>1. \A w \in Writer : pc[w] = "idle"
        BY <1>2, <3>2 DEF Kept, Holds, Active
      <4>2. UNCHANGED <<ledger, pc, left, seen>>
        BY <2>6 DEF Expire
      <4>3. Holds' /\ Cleared'
        BY <4>1, <4>2 DEF Holds, Cleared, Active
      <4>4. Single'
        BY <1>2, <4>2 DEF Kept, Single, Copies
      <4>5. QED
        BY <4>3, <4>4 DEF Kept
    <3>3. QED
      BY <3>1, <3>2
  <2>7. CASE Restart
    <3>1. ledger' = ledger /\ \A w \in Writer : pc'[w] = "idle"
      BY <2>7 DEF Restart
    <3>2. Holds' /\ Cleared'
      BY <3>1 DEF Holds, Cleared, Active
    <3>3. Single'
      BY <1>2, <3>1 DEF Kept, Single, Copies
    <3>4. QED
      BY <3>2, <3>3 DEF Kept
  <2>8. CASE UNCHANGED vars
    BY <2>8, UntouchedKept
  <2>9. QED
    BY <2>1, <2>2, <2>3, <2>4, <2>5, <2>6, <2>7, <2>8 DEF Next
<1>3. QED
  BY <1>1, <1>2

\* As long as no backfill has begun and no lock was lost under a thread that
\* works, the loops write one at a time and every day is there once, although
\* each deletes the key without looking whose it is.
THEOREM LockKeepsDays == Spec => []Guarded
<1>1. Init => IInv
  BY InitTypes, InitKept DEF IInv
<1>2. IInv /\ [Next]_vars => IInv'
  BY NextTypes, NextKept DEF IInv
<1>3. IInv => Guarded
  BY DEF IInv, Kept, Holds, Single, Guarded, Active
<1>4. QED
  BY <1>1, <1>2, <1>3, PTL DEF Spec

-----------------------------------------------------------------------------
(* The re-run of a day.                                                    *)

\* Days have a first one.
LEMMA FirstDay ==
    ASSUME NEW T \in SUBSET Nat, T # {}
    PROVE  \E m \in T : \A n \in T : m <= n
<1> DEFINE Before == {ss \in Nat \X Nat : ss[1] < ss[2]}
<1>1. IsWellFoundedOn(Before, Nat)
  BY NatLessThanWellFounded DEF OpToRel
<1>2. PICK m \in T : \A n \in T : <<n, m>> \notin Before
  <2> HIDE DEF Before
  <2>1. QED
    BY <1>1, WFMin
<1>3. ASSUME NEW n \in T PROVE m <= n
  <2>1. ~(n < m)
    BY <1>2
  <2>2. QED
    BY <2>1
<1>4. QED
  BY <1>3

\* The day a writer is at is one of those it has left.
LEMMA DayAtType ==
    ASSUME TypeOK, NEW w \in Writer, left[w] # {}
    PROVE  DayAt(w) \in left[w] /\ DayAt(w) \in Day
<1>1. left[w] \subseteq Day /\ left[w] \in SUBSET Nat
  BY LedgerAssumption DEF TypeOK, Day
<1>2. \E m \in left[w] : \A d \in left[w] : m <= d
  BY <1>1, FirstDay
<1>3. QED
  BY <1>1, <1>2 DEF DayAt, Min

\* Nobody writes at the start.
LEMMA InitApart == Init => Apart
BY DEF Init, Apart

\* A step in which nobody begins or ends the writing of a day.
LEMMA UntouchedApart ==
    ASSUME Apart, UNCHANGED <<ledger, seen, mixed>>,
           \A v \in Writer : pc'[v] = "writing" <=> pc[v] = "writing",
           \A v \in Writer : pc[v] = "writing" => left'[v] = left[v]
    PROVE  Apart'
BY DEF Apart, AtDay, DayAt, Copies

\* Every step keeps the writers of a day apart, or notes that they are not.
LEMMA NextApart == RInv /\ [Next]_vars => Apart'
<1> SUFFICES ASSUME RInv, [Next]_vars PROVE Apart'
  OBVIOUS
<1> USE DEF RInv, vars, writerVars, loopVars, bounds, ghosts
<1>1. ASSUME NEW w \in Writer, Fetch(w) PROVE Apart'
  BY <1>1, UntouchedApart DEF Fetch, TypeOK
<1>2. ASSUME NEW w \in Writer, Delete(w) PROVE Apart'
  <2>1. SUFFICES ASSUME NEW v \in Writer, pc'[v] = "writing", v \notin mixed'
                 PROVE  AtDay(DayAt(v))' = {v} /\ Copies(DayAt(v))' \subseteq seen'[v]
    BY DEF Apart
  <2>2. /\ ledger' = ledger /\ left' = left
        /\ pc[w] = "days" /\ \A u \in Writer : pc'[u] = "writing" <=> pc[u] = "writing" \/ u = w
    BY <1>2 DEF Delete, TypeOK
  <2>3. \A d : AtDay(d)' = IF d = DayAt(w) THEN AtDay(d) \cup {w} ELSE AtDay(d)
    BY <2>2 DEF AtDay, DayAt
  <2>4. CASE v = w
    <3>1. AtDay(DayAt(w)) = {}
      BY <1>2, <2>1, <2>4 DEF Delete
    <3>2. seen'[w] = Copies(DayAt(w))
      BY <1>2 DEF Delete, Sees, TypeOK
    <3>3. QED
      BY <2>2, <2>3, <2>4, <3>1, <3>2 DEF Copies, DayAt
  <2>5. CASE v # w
    <3>1. pc[v] = "writing" /\ seen'[v] = seen[v] /\ v \notin mixed
      BY <1>2, <2>1, <2>2, <2>5 DEF Delete, TypeOK
    <3>2. v \in AtDay(DayAt(v))
      BY <3>1 DEF AtDay
    <3>3. DayAt(v) # DayAt(w)
      BY <1>2, <2>1, <3>2 DEF Delete
    <3>4. QED
      BY <2>2, <2>3, <3>1, <3>3 DEF Apart, Copies, DayAt
  <2>6. QED
    BY <2>4, <2>5
<1>3. ASSUME NEW w \in Writer, Commit(w) PROVE Apart'
  <2> DEFINE d == DayAt(w)
  <2>1. SUFFICES ASSUME NEW v \in Writer, pc'[v] = "writing", v \notin mixed'
                 PROVE  AtDay(DayAt(v))' = {v} /\ Copies(DayAt(v))' \subseteq seen'[v]
    BY DEF Apart
  <2>2. /\ pc[w] = "writing" /\ v # w /\ pc[v] = "writing" /\ v \notin mixed
        /\ left'[v] = left[v]
        /\ \A u \in Writer : u # w => pc'[u] = pc[u] /\ left'[u] = left[u]
        /\ pc'[w] = "days"
    BY <1>3, <2>1 DEF Commit, TypeOK
  <2>3. AtDay(DayAt(v)) = {v} /\ Copies(DayAt(v)) \subseteq seen[v]
    BY <2>2 DEF Apart
  <2>4. DayAt(v) # d
    BY <2>2, <2>3 DEF AtDay
  <2>5. v \notin AtDay(d)
    BY <2>4 DEF AtDay
  <2>6. seen'[v] = seen[v]
    BY <1>3, <2>2, <2>5 DEF Commit
  <2>7. DayAt(v)' = DayAt(v)
    BY <2>2 DEF DayAt
  <2>8. ledger'[DayAt(v)] = ledger[DayAt(v)]
    <3>1. DayAt(v) \in Day
      BY <2>2, DayAtType DEF TypeOK
    <3>2. QED
      BY <1>3, <2>4, <3>1 DEF Commit, TypeOK
  <2>9. AtDay(DayAt(v))' \subseteq AtDay(DayAt(v)) /\ v \in AtDay(DayAt(v))'
    BY <2>1, <2>2, <2>7 DEF AtDay, DayAt
  <2>10. QED
    BY <2>3, <2>6, <2>7, <2>8, <2>9 DEF Copies
<1>4. ASSUME NEW w \in Writer, Leave(w) PROVE Apart'
  <2>1. SUFFICES ASSUME NEW v \in Writer, pc'[v] = "writing", v \notin mixed'
                 PROVE  AtDay(DayAt(v))' = {v} /\ Copies(DayAt(v))' \subseteq seen'[v]
    BY DEF Apart
  <2>2. /\ v # w /\ pc[v] = "writing" /\ v \notin mixed /\ seen'[v] = seen[v]
        /\ \A u \in Writer : u # w => pc'[u] = pc[u] /\ left'[u] = left[u]
        /\ pc'[w] = "idle" /\ ledger' = ledger
    BY <1>4, <2>1 DEF Leave, TypeOK
  <2>3. DayAt(v)' = DayAt(v)
    BY <2>2 DEF DayAt
  <2>4. AtDay(DayAt(v))' \subseteq AtDay(DayAt(v)) /\ v \in AtDay(DayAt(v))'
    BY <2>1, <2>2, <2>3 DEF AtDay, DayAt
  <2>5. QED
    BY <2>2, <2>3, <2>4 DEF Apart, Copies
<1>5. ASSUME NEW w \in Writer, NEW days, Begin(w, days), UNCHANGED <<ledger, seen, mixed>>
      PROVE  Apart'
  BY <1>5, UntouchedApart DEF Begin, TypeOK
<1>6. CASE \E w \in Writer : Finish(w) \/ Raise(w)
  BY <1>4, <1>6 DEF Finish, Raise
<1>7. CASE HourlyBegins \/ NightlyBegins
  BY <1>5, <1>7 DEF HourlyBegins, NightlyBegins, Writer, Locked
<1>8. CASE \E w \in Backfill : BackfillBegins(w)
  BY <1>5, <1>8 DEF BackfillBegins, Writer
<1>9. CASE Restart
  BY <1>9 DEF Restart, Apart
<1>10. CASE Wake \/ HourlySkips \/ TickRaises \/ TakeSnapshot \/ SnapshotRaises \/ Dispatch
            \/ DispatchDay \/ DispatchRaises \/ NightlySkips \/ Expire \/ HourPasses \/ Trade
  <2>1. UNCHANGED <<ledger, pc, left, seen, mixed>>
    BY <1>10 DEF Wake, HourlySkips, TickRaises, TakeSnapshot, SnapshotRaises,
       Dispatch, DispatchDay, DispatchRaises, NightlySkips, Expire, HourPasses, Trade
  <2>2. QED
    BY <2>1, UntouchedApart
<1>11. CASE UNCHANGED vars
  BY <1>11, UntouchedApart
<1>12. QED
  BY <1>1, <1>2, <1>3, <1>6, <1>7, <1>8, <1>9, <1>10, <1>11 DEF Next

\* A re-run that no other overlaps leaves the day with its own rows only.
LEMMA RerunStep ==
    ASSUME RInv, [Next]_vars, NEW w \in Writer,
           pc[w] = "writing", pc'[w] = "days", w \notin mixed
    PROVE  ledger'[DayAt(w)] = [NoRows EXCEPT ![w] = fetched[w][DayAt(w)]]
<1> DEFINE d == DayAt(w)
<1>1. Commit(w)
  <2>1. ASSUME NEW v \in Writer, Fetch(v) PROVE FALSE
    BY <2>1 DEF Fetch, RInv, TypeOK
  <2>2. ASSUME NEW v \in Writer, Delete(v) PROVE FALSE
    BY <2>2 DEF Delete, RInv, TypeOK
  <2>3. ASSUME NEW v \in Writer, Commit(v) PROVE Commit(w)
    <3>1. v = w
      BY <2>3 DEF Commit, RInv, TypeOK
    <3>2. QED
      BY <2>3, <3>1
  <2>4. ASSUME NEW v \in Writer, Leave(v) PROVE FALSE
    BY <2>4 DEF Leave, RInv, TypeOK
  <2>5. ASSUME NEW v \in Writer, NEW days, Begin(v, days) PROVE FALSE
    BY <2>5 DEF Begin, RInv, TypeOK
  <2>6. CASE Wake \/ HourlySkips \/ TickRaises \/ TakeSnapshot \/ SnapshotRaises \/ Dispatch
             \/ DispatchDay \/ DispatchRaises \/ NightlySkips \/ Expire \/ HourPasses \/ Trade
             \/ UNCHANGED vars
    <3>1. pc' = pc
      BY <2>6 DEF Wake, HourlySkips, TickRaises, TakeSnapshot, SnapshotRaises,
       Dispatch, DispatchDay, DispatchRaises, NightlySkips, Expire, HourPasses, Trade, vars, writerVars
    <3>2. QED
      BY <3>1
  <2>7. CASE Restart
    BY <2>7 DEF Restart
  <2>8. QED
    BY <2>1, <2>2, <2>3, <2>4, <2>5, <2>6, <2>7
       DEF Next, Finish, Raise, HourlyBegins, NightlyBegins, BackfillBegins, Writer, Locked
<1>2. d \in Day
  BY DayAtType DEF RInv, TypeOK
<1>3. ledger'[d] = [v \in Writer |-> IF v = w THEN fetched[w][d]
                                     ELSE IF v \in seen[w] THEN 0 ELSE ledger[d][v]]
  BY <1>1, <1>2 DEF Commit, RInv, TypeOK
<1>4. \A v \in Writer : v \notin seen[w] => ledger[d][v] = 0
  <2>1. \A v \in Writer : ledger[d][v] \in Nat
    BY <1>2, LedgerAssumption DEF RInv, TypeOK, Amount
  <2>2. Copies(d) \subseteq seen[w]
    BY DEF RInv, Apart
  <2>3. QED
    BY <2>1, <2>2 DEF Copies
<1>5. QED
  BY <1>3, <1>4 DEF NoRows

\* "DELETE+INSERT makes re-runs idempotent", for any number of writers: true as
\* long as no other DELETE and INSERT of the day lies between its two, however
\* often the day was there before.
THEOREM RerunAlone == Spec => Rerun
<1>1. Init => RInv
  BY InitTypes, InitApart DEF RInv
<1>2. RInv /\ [Next]_vars => RInv'
  BY NextTypes, NextApart DEF RInv
<1>3. RInv /\ [Next]_vars =>
         [\A w \in Writer :
            pc[w] = "writing" /\ pc'[w] = "days" /\ w \notin mixed =>
               ledger'[DayAt(w)] = [NoRows EXCEPT ![w] = fetched[w][DayAt(w)]]]_vars
  BY RerunStep
<1>4. QED
  BY <1>1, <1>2, <1>3, PTL DEF Spec, Rerun

-----------------------------------------------------------------------------
(* Sums over the writers.                                                  *)

Counted(f) == UNION {{v} \X (1..f[v]) : v \in Writer}

Weight(f) == Cardinality(Counted(f))

LEMMA WeightType ==
    ASSUME NEW f \in [Writer -> Nat]
    PROVE  IsFiniteSet(Counted(f)) /\ Weight(f) \in Nat
<1> DEFINE Of == [v \in Writer |-> {v} \X (1..f[v])]
           Family == {{v} \X (1..f[v]) : v \in Writer}
<1>1. IsFiniteSet(Writer)
  <2>1. IsFiniteSet({"hourly"}) /\ IsFiniteSet({"nightly"}) /\ IsFiniteSet(Backfill)
    BY LedgerAssumption, FS_Singleton
  <2>2. IsFiniteSet({"hourly"} \cup {"nightly"})
    BY <2>1, FS_Union
  <2>3. IsFiniteSet(({"hourly"} \cup {"nightly"}) \cup Backfill)
    BY <2>1, <2>2, FS_Union
  <2>4. Writer = ({"hourly"} \cup {"nightly"}) \cup Backfill
    BY DEF Writer, Locked
  <2>5. QED
    BY <2>3, <2>4
<1>2. IsFiniteSet(Family)
  <2>1. Of \in Surjection(Writer, Family)
    BY DEF Surjection
  <2> HIDE DEF Of, Family
  <2>2. QED
    BY <1>1, <2>1, FS_Surjection
<1>3. ASSUME NEW v \in Writer PROVE IsFiniteSet({v} \X (1..f[v]))
  <2>1. f[v] \in Int
    OBVIOUS
  <2>2. IsFiniteSet(1..f[v])
    BY <2>1, FS_Interval
  <2>3. IsFiniteSet({v})
    BY FS_Singleton
  <2>4. QED
    BY <2>2, <2>3, FS_Product
<1>4. \A T \in Family : IsFiniteSet(T)
  BY <1>3
<1>5. IsFiniteSet(UNION Family)
  <2> HIDE DEF Family
  <2>1. QED
    BY <1>2, <1>4, FS_UNION
<1>6. QED
  BY <1>5, FS_CardinalityType DEF Counted, Weight

LEMMA WeightOfNone == Weight(NoRows) = 0
<1>1. \A v \in Writer : 1..NoRows[v] = {}
  BY DEF NoRows
<1>2. Counted(NoRows) = {}
  BY <1>1 DEF Counted
<1>3. QED
  BY <1>2, FS_EmptySet DEF Weight

LEMMA WeightGrows ==
    ASSUME NEW f \in [Writer -> Nat], NEW g \in [Writer -> Nat], \A v \in Writer : f[v] <= g[v]
    PROVE  Weight(f) <= Weight(g)
<1>1. \A v \in Writer : 1..f[v] \subseteq 1..g[v]
  <2>1. ASSUME NEW v \in Writer, NEW i \in 1..f[v] PROVE i \in 1..g[v]
    <3>1. f[v] \in Nat /\ g[v] \in Nat /\ f[v] <= g[v]
      OBVIOUS
    <3>2. QED
      BY <3>1
  <2>2. QED
    BY <2>1
<1>2. Counted(f) \in SUBSET Counted(g)
  BY <1>1 DEF Counted
<1>3. IsFiniteSet(Counted(g))
  BY WeightType
<1>4. QED
  BY <1>2, <1>3, FS_Subset DEF Weight

\* One of the numbers more by k: the sum is more by k.
LEMMA WeightAdds ==
    ASSUME NEW f \in [Writer -> Nat], NEW v \in Writer, NEW k \in Nat
    PROVE  Weight([f EXCEPT ![v] = f[v] + k]) = Weight(f) + k
<1> DEFINE g == [f EXCEPT ![v] = f[v] + k]
           own == {v} \X ((f[v] + 1)..(f[v] + k))
<1>1. f[v] \in Nat /\ g \in [Writer -> Nat]
      /\ g[v] = f[v] + k /\ \A w \in Writer \ {v} : g[w] = f[w]
  OBVIOUS
<1>2. 1..g[v] = (1..f[v]) \cup ((f[v] + 1)..(f[v] + k))
  BY <1>1
<1>3. Counted(g) = Counted(f) \cup own
  <2> HIDE DEF g
  <2>1. QED
    BY <1>1, <1>2 DEF Counted
<1>4. Counted(f) \cap own = {}
  <2>1. \A i \in (f[v] + 1)..(f[v] + k) : i \notin 1..f[v]
    BY <1>1
  <2>2. QED
    BY <2>1 DEF Counted
<1>5. IsFiniteSet(own) /\ Cardinality(own) = 1 * k
  <2>1. f[v] + 1 \in Int /\ f[v] + k \in Int
    BY <1>1
  <2>2. IsFiniteSet((f[v] + 1)..(f[v] + k)) /\
        Cardinality((f[v] + 1)..(f[v] + k)) =
            IF f[v] + 1 > f[v] + k THEN 0 ELSE (f[v] + k) - (f[v] + 1) + 1
    BY <2>1, FS_Interval
  <2>3. (IF f[v] + 1 > f[v] + k THEN 0 ELSE (f[v] + k) - (f[v] + 1) + 1) = k
    BY <1>1
  <2>4. IsFiniteSet({v}) /\ Cardinality({v}) = 1
    BY FS_Singleton
  <2>5. Cardinality((f[v] + 1)..(f[v] + k)) = k
    BY <2>2, <2>3
  <2>6. IsFiniteSet(own) /\
        Cardinality(own) = Cardinality({v}) * Cardinality((f[v] + 1)..(f[v] + k))
    BY <2>2, <2>4, FS_Product
  <2>7. QED
    BY <2>4, <2>5, <2>6
<1>6. IsFiniteSet(Counted(f)) /\ Weight(f) \in Nat
  BY WeightType
<1> HIDE DEF own, g
<1>7. Cardinality(Counted(f) \cup own) = Cardinality(Counted(f)) + Cardinality(own) - Cardinality({})
  BY <1>4, <1>5, <1>6, FS_Union
<1>8. Weight(g) = Weight(f) + (1 * k) - 0
  BY <1>3, <1>5, <1>7, FS_EmptySet, Zenon DEF Weight
<1>9. QED
  BY <1>6, <1>8 DEF g

\* No number less: the sum is no less, and more by what one of them is more.
LEMMA WeightLeast ==
    ASSUME NEW f \in [Writer -> Nat], NEW g \in [Writer -> Nat], \A w \in Writer : f[w] <= g[w],
           NEW v \in Writer, NEW k \in Nat, f[v] + k <= g[v]
    PROVE  Weight(f) + k <= Weight(g)
<1> DEFINE e == [f EXCEPT ![v] = f[v] + k]
<1>1. f[v] \in Nat /\ e \in [Writer -> Nat]
  OBVIOUS
<1>2. \A w \in Writer : e[w] <= g[w]
  OBVIOUS
<1>3. Weight(e) = Weight(f) + k
  BY WeightAdds
<1> HIDE DEF e
<1>4. Weight(e) <= Weight(g)
  BY <1>1, <1>2, WeightGrows
<1>5. QED
  BY <1>3, <1>4

LEMMA WeightAtLeast ==
    ASSUME NEW f \in [Writer -> Nat], NEW v \in Writer
    PROVE  f[v] <= Weight(f)
<1>1. NoRows \in [Writer -> Nat] /\ \A w \in Writer : NoRows[w] <= f[w]
  BY DEF NoRows
<1>2. f[v] \in Nat /\ NoRows[v] + f[v] <= f[v]
  BY DEF NoRows
<1>3. Weight(NoRows) + f[v] <= Weight(f)
  BY <1>1, <1>2, WeightLeast
<1>4. QED
  BY <1>2, <1>3, WeightOfNone

\* What a message adds: the rows less what they are compared with.
Tells(f, rows, s) == [v \in Writer |-> IF rows[v] > s THEN f[v] + (rows[v] - s) ELSE f[v]]

LEMMA TellsMore ==
    ASSUME NEW f \in [Writer -> Nat], NEW rows \in [Writer -> Nat], NEW s \in Nat
    PROVE  /\ Tells(f, rows, s) \in [Writer -> Nat]
           /\ Weight(f) <= Weight(Tells(f, rows, s))
           /\ \A v \in Writer :
                 rows[v] > s => Weight(f) + (rows[v] - s) <= Weight(Tells(f, rows, s))
<1> DEFINE g == Tells(f, rows, s)
<1>1. g \in [Writer -> Nat]
  BY DEF Tells
<1>2. \A w \in Writer : f[w] <= g[w]
  BY DEF Tells
<1>3. ASSUME NEW v \in Writer, rows[v] > s PROVE Weight(f) + (rows[v] - s) <= Weight(g)
  <2>1. rows[v] - s \in Nat /\ f[v] + (rows[v] - s) <= g[v]
    BY <1>3 DEF Tells
  <2> HIDE DEF g
  <2>2. QED
    BY <1>1, <1>2, <2>1, WeightLeast
<1>4. Weight(f) <= Weight(g)
  <2> HIDE DEF g
  <2>1. QED
    BY <1>1, <1>2, WeightGrows
<1>5. QED
  BY <1>1, <1>3, <1>4

\* When the day is there once, nothing is told twice.
LEMMA TellsOnce ==
    ASSUME NEW f \in [Writer -> Nat], NEW rows \in [Writer -> Nat], NEW s \in Nat,
           \A v, w \in Writer : rows[v] > 0 /\ rows[w] > 0 => v = w
    PROVE  \/ Weight(Tells(f, rows, s)) = Weight(f)
           \/ \E v \in Writer : /\ rows[v] > s
                                /\ Weight(Tells(f, rows, s)) = Weight(f) + (rows[v] - s)
<1>1. CASE \A v \in Writer : ~(rows[v] > s)
  <2>1. Tells(f, rows, s) = f
    BY <1>1 DEF Tells
  <2>2. QED
    BY <2>1
<1>2. ASSUME NEW v \in Writer, rows[v] > s
      PROVE  Weight(Tells(f, rows, s)) = Weight(f) + (rows[v] - s)
  <2>1. rows[v] - s \in Nat /\ \A w \in Writer \ {v} : ~(rows[w] > s)
    BY <1>2
  <2>2. Tells(f, rows, s) = [f EXCEPT ![v] = f[v] + (rows[v] - s)]
    BY <1>2, <2>1 DEF Tells
  <2>3. Weight([f EXCEPT ![v] = f[v] + (rows[v] - s)]) = Weight(f) + (rows[v] - s)
    BY <2>1, WeightAdds
  <2>4. QED
    BY <2>2, <2>3
<1>3. QED
  BY <1>1, <1>2

-----------------------------------------------------------------------------
(* Marks and days.                                                         *)

LEMMA Division ==
    ASSUME NEW a \in Nat, NEW m \in Nat \ {0}
    PROVE  a = m * (a \div m) + (a % m) /\ a % m \in 0..(m - 1) /\ a \div m \in Nat
<1>1. a = m * (a \div m) + (a % m)
  OBVIOUS
<1>2. a % m \in 0..(m - 1)
  OBVIOUS
<1>3. a \div m \in Nat
  OBVIOUS
<1>4. QED
  BY <1>1, <1>2, <1>3

\* There is one quotient.
LEMMA QuotientIs ==
    ASSUME NEW a \in Nat, NEW m \in Nat \ {0}, NEW q \in Nat, NEW r \in 0..(m - 1), a = m * q + r
    PROVE  a \div m = q
<1>1. PICK p \in Nat, t \in 0..(m - 1) : a = m * p + t /\ p = a \div m
  BY Division
<1>2. ASSUME NEW x \in Nat, NEW y \in Nat, NEW u \in 0..(m - 1), NEW w \in 0..(m - 1),
             m * x + u = m * y + w, x < y
      PROVE  FALSE
  <2>1. PICK k \in Nat : y = x + 1 + k
    <3>1. y - x - 1 \in Nat /\ y = x + 1 + (y - x - 1)
      BY <1>2
    <3>2. QED
      BY <3>1
  <2>2. m * y = m * x + m + m * k /\ m * k \in Nat
    BY <2>1
  <2>3. QED
    BY <1>2, <2>2
<1>3. ~(p < q) /\ ~(q < p)
  BY <1>1, <1>2
<1>4. QED
  BY <1>1, <1>3

\* The mark before one that is not midnight ends the same day.
LEMMA SameDay ==
    ASSUME NEW h \in Hour, ~Midnight(h - 1)
    PROVE  h - 1 \in Hour /\ DayEnding(h - 1) = DayEnding(h)
<1>1. h - 1 \in Hour
  BY FirstHour, LedgerAssumption DEF Hour
<1>2. PICK a \in Nat, m \in Nat \ {0} : a = h - 1 /\ m = Hours
  BY <1>1, LedgerAssumption DEF Hour
<1>3. a % m # 0 /\ a >= 1
  BY <1>1, <1>2 DEF Midnight, Hour
<1>4. (a - 1) \div m = a \div m
  <2>1. PICK q \in Nat, r \in 0..(m - 1) : a = m * q + r /\ q = a \div m /\ r = a % m
    BY Division
  <2>2. r - 1 \in 0..(m - 1) /\ a - 1 = m * q + (r - 1) /\ a - 1 \in Nat
    BY <1>3, <2>1
  <2>3. (a - 1) \div m = q
    BY <2>2, QuotientIs
  <2>4. QED
    BY <2>1, <2>3
<1>5. QED
  BY <1>1, <1>2, <1>4 DEF DayEnding, DayOf

\* A day has no mark before the first hour after midnight.
LEMMA FirstMark ==
    ASSUME NEW h \in Hour, Midnight(h - 1), NEW g \in Hour, DayEnding(g) = DayEnding(h)
    PROVE  h <= g
<1>1. PICK a \in Nat, b \in Nat, m \in Nat \ {0} : a = h - 1 /\ b = g - 1 /\ m = Hours
  BY LedgerAssumption DEF Hour
<1>2. a % m = 0 /\ a \div m = b \div m
  <2>1. a % m = 0
    BY <1>1 DEF Midnight
  <2>2. (a \div m) + 1 = (b \div m) + 1
    BY <1>1 DEF DayEnding, DayOf
  <2>3. a \div m \in Int /\ b \div m \in Int
    BY <1>1
  <2>4. QED
    BY <2>1, <2>2, <2>3
<1>3. PICK q \in Int : q = a \div m /\ a = m * q
  BY <1>1, <1>2
<1>4. m * q <= b
  BY <1>1, <1>2, <1>3
<1>5. QED
  BY <1>1, <1>3, <1>4 DEF Hour

-----------------------------------------------------------------------------
(* The messages of a day.                                                  *)

\* The loop goes from mark to mark: none is taken or told of a second time.
Steps ==
    /\ snap <= now
    /\ \A h \in taken \cup sent : h <= now
    /\ stage = "sleep" => \A h \in taken \cup sent : h < next
    /\ stage \in {"refresh", "snapshot"} => \A h \in taken \cup sent : h < snap
    /\ stage = "dispatch" => /\ \A h \in taken : h <= snap
                             /\ \A h \in sent : h < snap

\* Rows are there of the marks that were taken.
Unsnapped == \A h \in Hour : h \notin taken => snapshot[h] = NoRows

\* Nothing is told of a day before a message about rows of it.
Untold ==
    \A d \in Day :
       (\A h \in taken \cap sent : DayEnding(h) = d => Midnight(h)) => told[d] = NoRows

\* The rows about to be told of are the last of their day.
Newest == stage = "dispatch" /\ snap \in taken => IsMost(last[DayEnding(snap)], snapshot[snap])

\* Whether the marks of the day, up to h, were all told of.
ToldBy(h) == \A g \in taken \cap MarksOf(DayEnding(h)) : g <= h => g \in sent

\* Then what was told is no less than the rows of h ...
AtLeast ==
    \A h \in taken :
       ~Midnight(h) /\ ToldBy(h) => \A v \in Writer : snapshot[h][v] <= ToldOf(DayEnding(h))

Lower ==
    \A d \in Day :
       taken \cap MarksOf(d) \subseteq sent /\ ~(\E h \in taken : DayEnding(h) = d /\ Midnight(h))
       => ToldOf(d) >= last[d]

\* A steady day never falls and is there once.
Once ==
    \A h \in taken : DayEnding(h) \in steady =>
       \A v \in Writer :
          /\ snapshot[h][v] <= last[DayEnding(h)]
          /\ \A w \in Writer : snapshot[h][v] > 0 /\ snapshot[h][w] > 0 => v = w

\* Whether no mark of the day up to h was missed.
NoneMissed(h) == \A g \in MarksOf(DayEnding(h)) : g <= h => g \in taken

\* ... and no more, of a steady day with no mark missed, while h is the last
\* told of and its rows are not dropped yet.
Latest(h) ==
    /\ \A g \in taken \cap sent \cap MarksOf(DayEnding(h)) : g <= h
    /\ \A g \in taken : g <= h + Hours + 1

AtMost ==
    \A h \in taken :
       /\ ~Midnight(h) /\ DayEnding(h) \in steady
       /\ ToldBy(h) /\ NoneMissed(h) /\ Latest(h)
       => \E v \in Writer : ToldOf(DayEnding(h)) <= snapshot[h][v]

Upper ==
    \A d \in Day :
       LET marks == taken \cap MarksOf(d) IN
       marks \subseteq sent /\ d \in steady /\ (\A h \in marks, g \in MarksOf(d) : g < h => g \in marks)
       => ToldOf(d) <= last[d]

MInv == /\ TypeOK /\ Steps /\ Unsnapped /\ Untold /\ Newest
        /\ AtLeast /\ Lower /\ Once /\ AtMost /\ Upper

\* The sum of MessagesAddUp is the sum above.
LEMMA ToldSum == ASSUME NEW d PROVE ToldOf(d) = Weight(told[d]) /\ ToldOf(d)' = Weight(told'[d])
BY DEF ToldOf, Weight, Counted

LEMMA InitMInv == ASSUME Init PROVE MInv
<1>1. TypeOK
  BY InitTypes
<1>2. Steps /\ Unsnapped /\ Untold /\ Newest
  BY DEF Init, Steps, Unsnapped, Untold, Newest
<1>3. ASSUME NEW d \in Day PROVE ToldOf(d) = 0 /\ last[d] = 0
  BY ToldSum, WeightOfNone DEF Init, NoneSold
<1>4. Lower /\ Upper
  BY <1>3 DEF Lower, Upper
<1>5. AtLeast /\ Once /\ AtMost
  BY DEF Init, AtLeast, Once, AtMost
<1>6. QED
  BY <1>1, <1>2, <1>4, <1>5 DEF MInv

\* The steps that neither take a snapshot nor send a message of an hour.
Quiet ==
    \/ \E w \in Writer : Fetch(w) \/ Delete(w) \/ Commit(w) \/ Finish(w) \/ Raise(w)
    \/ Wake \/ HourlyBegins \/ HourlySkips \/ TickRaises
    \/ SnapshotRaises \/ DispatchDay \/ DispatchRaises
    \/ NightlyBegins \/ NightlySkips
    \/ \E w \in Backfill : BackfillBegins(w)
    \/ Expire \/ Restart \/ HourPasses \/ Trade \/ UNCHANGED vars

LEMMA QuietKeeps ==
    ASSUME Quiet
    PROVE  /\ UNCHANGED <<told, snapshot, taken, sent, steady, last>>
           /\ now' \in {now, now + 1}
           /\ \/ UNCHANGED loopVars
              \/ stage = "sleep" /\ now >= next /\ snap' = now /\ stage' = "refresh" /\ now' = now
              \/ stage = "refresh" /\ stage' = "snapshot" /\ snap' = snap
              \/ stage = "snapshot" /\ stage' = "dispatch" /\ snap' = snap
              \/ stage' = "sleep" /\ snap' = 0 /\ next' = now + 1 /\ now' = now
              \/ UNCHANGED <<snap, next>> /\ stage' = "snapshot" /\ pc["hourly"] # "idle"
<1> USE DEF vars, writerVars, loopVars, bounds, ghosts
<1>1. ASSUME NEW w \in Writer, Leave(w), pc[w] # "idle"
      PROVE  /\ UNCHANGED <<told, snapshot, taken, sent, steady, last, now>>
             /\ \/ UNCHANGED loopVars
                \/ UNCHANGED <<snap, next>> /\ stage' = "snapshot" /\ pc["hourly"] # "idle"
  BY <1>1 DEF Leave
<1>2. CASE \E w \in Writer : Finish(w) \/ Raise(w)
  BY <1>1, <1>2 DEF Finish, Raise
<1>3. CASE \/ \E w \in Writer : Fetch(w) \/ Delete(w) \/ Commit(w)
           \/ HourlyBegins \/ NightlyBegins \/ NightlySkips
           \/ \E w \in Backfill : BackfillBegins(w)
           \/ Expire \/ HourPasses \/ Trade \/ UNCHANGED vars
  BY <1>3 DEF Fetch, Delete, Commit, HourlyBegins, NightlyBegins, NightlySkips, BackfillBegins,
     Expire, HourPasses, Trade
<1>4. CASE Wake \/ HourlySkips \/ TickRaises \/ SnapshotRaises \/ DispatchDay \/ DispatchRaises
  BY <1>4 DEF Wake, HourlySkips, TickRaises, SnapshotRaises, DispatchDay, DispatchRaises
<1>5. CASE Restart
  BY <1>5 DEF Restart
<1>6. QED
  BY <1>2, <1>3, <1>4, <1>5 DEF Quiet

\* They keep what is said of the messages.
LEMMA QuietMInv == ASSUME MInv, TypeOK', Quiet PROVE MInv'
<1>1. /\ TypeOK /\ Steps /\ now \in Nat /\ snap \in Nat /\ next \in Nat
      /\ taken \cup sent \subseteq Nat
  BY LedgerAssumption DEF MInv, TypeOK, Hour
<1>2. /\ UNCHANGED <<told, snapshot, taken, sent, steady, last>>
      /\ now' \in {now, now + 1}
  BY QuietKeeps
<1>3. \/ UNCHANGED <<stage, snap, next>>
      \/ stage = "sleep" /\ now >= next /\ snap' = now /\ stage' = "refresh" /\ now' = now
      \/ stage \in {"refresh", "snapshot"} /\ stage' \in {"snapshot", "dispatch"} /\ snap' = snap
         /\ (stage' = "dispatch" => stage = "snapshot")
      \/ stage' = "sleep" /\ snap' = 0 /\ next' = now + 1 /\ now' = now
  <2>1. pc["hourly"] # "idle" => stage = "refresh"
    BY <1>1 DEF TypeOK
  <2>2. QED
    BY <2>1, QuietKeeps DEF loopVars
<1>4. Steps'
  BY <1>1, <1>2, <1>3 DEF Steps
<1>5. Newest'
  <2>1. CASE UNCHANGED <<stage, snap>>
    BY <1>2, <2>1 DEF MInv, Newest
  <2>2. CASE stage = "snapshot" /\ snap' = snap
    <3>1. snap \notin taken
      BY <1>1, <2>2 DEF Steps
    <3>2. QED
      BY <1>2, <2>2, <3>1 DEF Newest
  <2>3. QED
    BY <1>3, <2>1, <2>2 DEF Newest
<1>6. \A d : ToldOf(d)' = ToldOf(d)
  BY <1>2 DEF ToldOf
<1>7. Unsnapped' /\ Untold' /\ Once'
  BY <1>2 DEF MInv, Unsnapped, Untold, Once
<1>8. AtLeast' /\ Lower'
  BY <1>2, <1>6 DEF MInv, AtLeast, Lower, ToldBy
<1>9. AtMost' /\ Upper'
  BY <1>2, <1>6 DEF MInv, AtMost, Upper, ToldBy, NoneMissed, Latest
<1>10. QED
  BY <1>4, <1>5, <1>7, <1>8, <1>9 DEF MInv

-----------------------------------------------------------------------------
(* A snapshot: its mark is not told of yet.                                *)

LEMMA SnapshotMInv == ASSUME MInv, TypeOK', TakeSnapshot PROVE MInv'
<1> DEFINE D == DayEnding(snap)
           rows == ledger[D]
<1>0. TypeOK
  BY DEF MInv
<1>1. /\ snap \in Hour /\ stage = "snapshot" /\ D \in Day /\ rows \in [Writer -> Nat]
      /\ now \in Nat /\ Hour \subseteq Nat /\ taken \subseteq Hour /\ sent \subseteq Hour
  <2>1. snap \in Hour /\ stage = "snapshot"
    BY <1>0 DEF TakeSnapshot, TypeOK
  <2>2. D \in Day
    BY <2>1, DayEndingType
  <2>3. Amount \subseteq Nat /\ Hour \subseteq Nat
    BY LedgerAssumption DEF Amount, Hour
  <2>4. rows \in [Writer -> Nat]
    <3>1. ledger \in [Day -> [Writer -> Amount]]
      BY <1>0 DEF TypeOK
    <3>2. rows \in [Writer -> Amount]
      BY <2>2, <3>1
    <3>3. QED
      BY <2>3, <3>2
  <2>5. now \in Nat /\ taken \subseteq Hour /\ sent \subseteq Hour
    BY <1>0, LedgerAssumption DEF TypeOK
  <2>6. QED
    BY <2>1, <2>2, <2>3, <2>4, <2>5
<1>2. \A h \in taken \cup sent : h < snap /\ h # snap
  <2>1. \A h \in taken \cup sent : h < snap
    BY <1>1 DEF MInv, Steps
  <2>2. \A h \in taken \cup sent : h \in Nat
    BY <1>1
  <2>3. snap \in Nat
    BY <1>1
  <2>4. QED
    BY <2>1, <2>2, <2>3
<1>3. /\ stage' = "dispatch" /\ taken' = taken \cup {snap}
      /\ UNCHANGED <<now, snap, next, told, sent>>
      /\ snapshot' = [h \in Hour |-> IF h = snap THEN rows
                                     ELSE IF h + Hours + 1 < snap THEN NoRows
                                     ELSE snapshot[h]]
  BY DEF TakeSnapshot
<1>4. PICK most \in Amount :
         /\ IsMost(most, rows)
         /\ last' = [last EXCEPT ![D] = most]
         /\ steady' = IF most < last[D] \/ \E v, w \in Copies(D) : v # w
                      THEN steady \ {D} ELSE steady
  BY DEF TakeSnapshot
<1>5. /\ last'[D] = most /\ \A d \in Day \ {D} : last'[d] = last[d]
      /\ most \in Nat /\ \A d \in Day : last[d] \in Nat
  BY <1>0, <1>1, <1>4, LedgerAssumption DEF TypeOK, Amount
<1>6. /\ steady' \subseteq steady
      /\ D \in steady' => most >= last[D] /\ \A v, w \in Copies(D) : v = w
  BY <1>1, <1>4, <1>5
<1>7. snapshot'[snap] = rows
  BY <1>1, <1>3
<1>8. \A h \in Hour : h # snap => \/ snapshot'[h] = snapshot[h]
                                  \/ snapshot'[h] = NoRows /\ h + Hours + 1 < snap
  BY <1>3
<1>9. \A d : ToldOf(d)' = ToldOf(d)
  BY <1>3 DEF ToldOf
<1>10. Steps'
  BY <1>1, <1>2, <1>3 DEF MInv, Steps
<1>11. Unsnapped'
  BY <1>1, <1>3, <1>8 DEF MInv, Unsnapped
<1>12. Untold'
  <2>1. taken' \cap sent' = taken \cap sent
    BY <1>2, <1>3
  <2>2. QED
    BY <1>3, <2>1 DEF MInv, Untold
<1>13. Newest'
  BY <1>3, <1>4, <1>5, <1>7 DEF Newest
<1>14. ~Midnight(snap) => ~ToldBy(snap)'
  <2>1. ASSUME ~Midnight(snap) PROVE snap \in taken' \cap MarksOf(DayEnding(snap)) /\ snap \notin sent'
    BY <1>1, <1>2, <1>3, <2>1 DEF MarksOf
  <2>2. snap <= snap
    BY <1>1
  <2>3. QED
    BY <1>3, <2>1, <2>2 DEF ToldBy
<1>15. \A h \in taken : ToldBy(h)' => ToldBy(h)
  BY <1>3 DEF ToldBy
<1>16. \A h \in taken : \A v \in Writer : snapshot'[h][v] = snapshot[h][v] \/ snapshot'[h][v] = 0
  BY <1>1, <1>2, <1>8 DEF NoRows
<1>17. AtLeast'
  <2>1. SUFFICES ASSUME NEW h \in taken', ~Midnight(h), ToldBy(h)', NEW v \in Writer
                 PROVE  snapshot'[h][v] <= ToldOf(DayEnding(h))'
    BY <1>3 DEF AtLeast
  <2>2. h \in taken
    BY <1>3, <1>14, <2>1
  <2>3. snapshot[h][v] <= ToldOf(DayEnding(h))
    BY <1>15, <2>1, <2>2 DEF MInv, AtLeast
  <2>4. ToldOf(DayEnding(h)) \in Nat
    <3>1. DayEnding(h) \in Day
      BY <1>1, <2>2, DayEndingType
    <3>2. told[DayEnding(h)] \in [Writer -> Nat]
      BY <1>0, <3>1 DEF TypeOK
    <3>3. QED
      BY <3>2, ToldSum, WeightType
  <2>5. QED
    BY <1>9, <1>16, <2>2, <2>3, <2>4
<1>18. \A d \in Day \ {D} : /\ taken' \cap MarksOf(d) = taken \cap MarksOf(d)
                            /\ \A h \in taken' : DayEnding(h) = d => h \in taken
  BY <1>3 DEF MarksOf
<1>19. ~Midnight(snap) => ~(taken' \cap MarksOf(D) \subseteq sent')
  <2>1. ~Midnight(snap) => snap \in MarksOf(D)
    BY <1>1 DEF MarksOf
  <2>2. QED
    BY <1>2, <1>3, <2>1
<1>20. Midnight(snap) => taken' \cap MarksOf(D) = taken \cap MarksOf(D)
  BY <1>3 DEF MarksOf
<1>21. Lower'
  <2>1. SUFFICES ASSUME NEW d \in Day, taken' \cap MarksOf(d) \subseteq sent',
                        ~\E h \in taken' : DayEnding(h) = d /\ Midnight(h)
                 PROVE  ToldOf(d)' >= last'[d]
    BY DEF Lower
  <2>2. d # D
    BY <1>3, <1>19, <2>1
  <2>3. QED
    BY <1>3, <1>5, <1>9, <1>18, <2>1, <2>2 DEF MInv, Lower
<1>22. Once'
  <2>1. SUFFICES ASSUME NEW h \in taken', DayEnding(h) \in steady', NEW v \in Writer
                 PROVE  /\ snapshot'[h][v] <= last'[DayEnding(h)]
                        /\ \A w \in Writer : snapshot'[h][v] > 0 /\ snapshot'[h][w] > 0 => v = w
    BY DEF Once
  <2>2. CASE h = snap
    <3>1. rows[v] <= most
      BY <1>4 DEF IsMost
    <3>2. \A w \in Writer : rows[v] > 0 /\ rows[w] > 0 => v = w
      BY <1>6, <2>1, <2>2 DEF Copies
    <3>3. QED
      BY <1>5, <1>7, <2>2, <3>1, <3>2
  <2>3. CASE h # snap
    <3>1. h \in taken /\ DayEnding(h) \in steady /\ DayEnding(h) \in Day
      BY <1>1, <1>3, <1>6, <2>1, <2>3, DayEndingType
    <3>2. /\ snapshot[h][v] <= last[DayEnding(h)]
          /\ \A w \in Writer : snapshot[h][v] > 0 /\ snapshot[h][w] > 0 => v = w
      BY <3>1 DEF MInv, Once
    <3>3. last[DayEnding(h)] <= last'[DayEnding(h)] /\ last'[DayEnding(h)] \in Nat
          /\ last[DayEnding(h)] \in Nat
      BY <1>5, <1>6, <2>1, <3>1
    <3>4. snapshot[h][v] \in Nat
      BY <1>0, <1>1, <3>1, LedgerAssumption DEF TypeOK, Amount
    <3>5. snapshot'[h][v] <= last'[DayEnding(h)]
      BY <1>16, <3>1, <3>2, <3>3, <3>4
    <3>6. ASSUME NEW w \in Writer, snapshot'[h][v] > 0, snapshot'[h][w] > 0 PROVE v = w
      BY <1>16, <3>1, <3>2, <3>6
    <3>7. QED
      BY <3>5, <3>6
  <2>4. QED
    BY <2>2, <2>3
<1>23. AtMost'
  <2>1. SUFFICES ASSUME NEW h \in taken', ~Midnight(h), DayEnding(h) \in steady', ToldBy(h)',
                        NoneMissed(h)', Latest(h)'
                 PROVE  \E v \in Writer : ToldOf(DayEnding(h))' <= snapshot'[h][v]
    BY DEF AtMost
  <2>2. h \in taken
    BY <1>3, <1>14, <2>1
  <2>3. NoneMissed(h)
    BY <1>1, <1>2, <1>3, <2>1, <2>2 DEF NoneMissed
  <2>4. Latest(h)
    BY <1>3, <2>1 DEF Latest
  <2>5. snap <= h + Hours + 1
    BY <1>3, <2>1 DEF Latest
  <2>6. snapshot'[h] = snapshot[h]
    <3>1. ~(h + Hours + 1 < snap)
      BY <1>1, <2>2, <2>5, LedgerAssumption
    <3>2. QED
      BY <1>1, <1>2, <1>8, <2>2, <3>1
  <2>7. QED
    BY <1>6, <1>9, <1>15, <2>1, <2>2, <2>3, <2>4, <2>6 DEF MInv, AtMost
<1>24. Upper'
  <2>1. SUFFICES ASSUME NEW d \in Day, taken' \cap MarksOf(d) \subseteq sent', d \in steady',
                        \A h \in taken' \cap MarksOf(d), g \in MarksOf(d) :
                            g < h => g \in taken' \cap MarksOf(d)
                 PROVE  ToldOf(d)' <= last'[d]
    BY DEF Upper
  <2>2. taken' \cap MarksOf(d) = taken \cap MarksOf(d)
    BY <1>18, <1>19, <1>20, <2>1
  <2>3. ToldOf(d) <= last[d]
    BY <1>3, <1>6, <2>1, <2>2 DEF MInv, Upper
  <2>4. last[d] <= last'[d] /\ last[d] \in Nat /\ last'[d] \in Nat
    BY <1>5, <1>6, <2>1
  <2>5. ToldOf(d) \in Nat
    <3>1. told[d] \in [Writer -> Nat]
      BY <1>0 DEF TypeOK
    <3>2. QED
      BY <3>1, ToldSum, WeightType
  <2>6. QED
    BY <1>9, <2>3, <2>4, <2>5
<1>25. QED
  BY <1>10, <1>11, <1>12, <1>13, <1>17, <1>21, <1>22, <1>23, <1>24 DEF MInv

-----------------------------------------------------------------------------
(* A message of the hour.                                                  *)

\* What it starts from: nothing, or rows of the mark before, of the same day.
LEMMA StartOf ==
    ASSUME TypeOK, NEW h \in Hour, NEW s \in Starts(h)
    PROVE  /\ s \in Nat
           /\ s # 0 => ~Midnight(h - 1) /\ \E v \in Writer : s = snapshot[h - 1][v]
           /\ ~Midnight(h - 1) /\ s = 0 => \A v \in Writer : snapshot[h - 1][v] = 0
<1> DEFINE rows == IF Midnight(h - 1) THEN {}
                   ELSE {snapshot[h - 1][v] : v \in Writer} \ {0}
<1>1. s \in Nat
  BY StartsType
<1>2. s \in IF rows = {} THEN {0} ELSE rows
  BY Zenon DEF Starts
<1>3. s # 0 => s \in rows
  <2> HIDE DEF rows
  <2>1. QED
    BY <1>2
<1>4. s = 0 => rows = {}
  <2>1. 0 \notin rows
    OBVIOUS
  <2> HIDE DEF rows
  <2>2. QED
    BY <1>2, <2>1
<1>5. ASSUME ~Midnight(h - 1), s = 0, NEW v \in Writer PROVE snapshot[h - 1][v] = 0
  BY <1>4, <1>5
<1>6. s # 0 => ~Midnight(h - 1) /\ \E v \in Writer : s = snapshot[h - 1][v]
  BY <1>3
<1>7. QED
  BY <1>1, <1>5, <1>6

\* Its mark and its day keep their names when the step has let go of them.
LEMMA DispatchKeeps ==
    ASSUME MInv, TypeOK', Dispatch,
           NEW m \in Hour, m = snap, NEW D \in Day, D = DayEnding(m)
    PROVE  MInv'
<1> DEFINE rows == snapshot[m]
           f == told[D]
<1>0. TypeOK /\ Steps
  BY DEF MInv
<1>1. /\ m \in Hour /\ stage = "dispatch" /\ ~Midnight(m) /\ D \in Day
      /\ now \in Nat /\ Hour \subseteq Nat /\ taken \subseteq Hour /\ sent \subseteq Hour
  <2>1. stage = "dispatch" /\ ~Midnight(m)
    BY DEF Dispatch
  <2>2. QED
    BY <1>0, <2>1, LedgerAssumption DEF TypeOK, Hour
<1>2. \A h \in Hour : snapshot[h] \in [Writer -> Nat]
  <2>1. snapshot \in [Hour -> [Writer -> Amount]] /\ Amount \subseteq Nat
    BY <1>0, LedgerAssumption DEF TypeOK, Amount
  <2>2. QED
    BY <2>1
<1>3. \A d \in Day : told[d] \in [Writer -> Nat] /\ ToldOf(d) \in Nat
  <2>1. ASSUME NEW d \in Day PROVE told[d] \in [Writer -> Nat]
    BY <1>0 DEF TypeOK
  <2>2. QED
    BY <2>1, ToldSum, WeightType
<1>4. (\A h \in taken : h <= m) /\ (\A h \in sent : h < m /\ h # m)
  <2>1. (\A h \in taken : h <= m) /\ \A h \in sent : h < m
    BY <1>0, <1>1 DEF Steps
  <2>2. m \in Nat /\ \A h \in sent : h \in Nat
    BY <1>1
  <2>3. QED
    BY <2>1, <2>2
<1>5. PICK s \in Starts(m) :
         told' = [told EXCEPT ![D] = [v \in Writer |-> IF snapshot[m][v] > s
                                       THEN @[v] + (snapshot[m][v] - s) ELSE @[v]]]
  BY DEF Dispatch
<1>6. /\ s \in Nat
      /\ s # 0 => ~Midnight(m - 1) /\ \E v \in Writer : s = snapshot[m - 1][v]
      /\ ~Midnight(m - 1) /\ s = 0 => \A v \in Writer : snapshot[m - 1][v] = 0
  BY <1>0, <1>1, StartOf
<1>7. /\ told'[D] = Tells(f, rows, s)
      /\ \A d \in Day \ {D} : told'[d] = told[d]
  BY <1>0, <1>1, <1>5 DEF TypeOK, Tells
<1>8. /\ stage' = "sleep" /\ snap' = 0 /\ next' = now + 1 /\ sent' = sent \cup {m}
      /\ UNCHANGED <<now, snapshot, taken, steady, last>>
  BY DEF Dispatch
<1>9. f \in [Writer -> Nat] /\ rows \in [Writer -> Nat]
  BY <1>1, <1>2, <1>3
<1>10. \A d \in Day \ {D} : ToldOf(d)' = ToldOf(d)
  BY <1>7, ToldSum
<1> HIDE DEF f, rows
<1>11. /\ ToldOf(D) = Weight(f) /\ ToldOf(D)' = Weight(Tells(f, rows, s))
       /\ ToldOf(D) \in Nat /\ ToldOf(D)' \in Nat
  <2>1. Tells(f, rows, s) \in [Writer -> Nat]
    BY <1>6, <1>9, TellsMore
  <2>2. ToldOf(D) = Weight(f) /\ ToldOf(D)' = Weight(Tells(f, rows, s))
    BY <1>7, ToldSum DEF f
  <2>3. QED
    BY <1>9, <2>1, <2>2, WeightType
<1>12. /\ ToldOf(D) <= ToldOf(D)'
       /\ \A v \in Writer : rows[v] > s => ToldOf(D) + (rows[v] - s) <= ToldOf(D)'
  <2>1. /\ Weight(f) <= Weight(Tells(f, rows, s))
        /\ \A v \in Writer :
              rows[v] > s => Weight(f) + (rows[v] - s) <= Weight(Tells(f, rows, s))
    BY <1>6, <1>9, TellsMore
  <2>2. ToldOf(D) = Weight(f) /\ ToldOf(D)' = Weight(Tells(f, rows, s))
    BY <1>11
  <2>3. QED
    BY <2>1, <2>2
<1>13. m \notin taken => ToldOf(D)' = ToldOf(D) /\ told'[D] = told[D]
  <2>1. SUFFICES ASSUME m \notin taken PROVE Tells(f, rows, s) = f
    BY <1>7, <1>11 DEF f
  <2>2. rows = NoRows
    BY <1>1, <2>1 DEF MInv, Unsnapped, rows
  <2>3. \A v \in Writer : ~(rows[v] > s)
    BY <1>6, <2>2 DEF NoRows
  <2>4. QED
    BY <1>9, <2>3 DEF Tells
\* The marks of other days are told of as they were, those of this day up to a
\* mark before this one too.
<1>14. \A h \in taken : DayEnding(h) # D \/ h < m =>
          (ToldBy(h)' => ToldBy(h))
  <2>1. ASSUME NEW h \in taken, DayEnding(h) # D \/ h < m, ToldBy(h)',
               NEW g \in taken \cap MarksOf(DayEnding(h)), g <= h
        PROVE  g \in sent
    <3>1. g \in sent'
      BY <1>8, <2>1 DEF ToldBy
    <3>2. g # m
      BY <1>1, <2>1 DEF MarksOf
    <3>3. QED
      BY <1>8, <3>1, <3>2
  <2>2. QED
    BY <2>1 DEF ToldBy
<1>15. Steps'
  BY <1>0, <1>1, <1>4, <1>8 DEF Steps
<1>16. Unsnapped' /\ Newest' /\ Once'
  BY <1>8 DEF MInv, Unsnapped, Newest, Once
<1>17. Untold'
  <2>1. SUFFICES ASSUME NEW d \in Day,
                        \A h \in taken' \cap sent' : DayEnding(h) = d => Midnight(h)
                 PROVE  told'[d] = NoRows
    BY DEF Untold
  <2>2. told[d] = NoRows
    BY <1>8, <2>1 DEF MInv, Untold
  <2>3. d = D => m \notin taken
    BY <1>1, <1>8, <2>1
  <2>4. QED
    BY <1>7, <1>13, <2>2, <2>3
<1>18. s # 0 => /\ m - 1 \in taken /\ DayEnding(m - 1) = D
                /\ ~Midnight(m - 1) /\ m - 1 < m
  <2>1. SUFFICES ASSUME s # 0
                 PROVE  /\ m - 1 \in taken /\ DayEnding(m - 1) = D
                        /\ ~Midnight(m - 1) /\ m - 1 < m
    OBVIOUS
  <2>2. m - 1 \in Hour /\ DayEnding(m - 1) = D
    BY <1>1, <1>6, <2>1, SameDay
  <2>3. snapshot[m - 1] # NoRows
    BY <1>6, <2>1 DEF NoRows
  <2>4. QED
    BY <1>1, <1>6, <2>1, <2>2, <2>3 DEF MInv, Unsnapped
<1>19. AtLeast'
  <2>1. SUFFICES ASSUME NEW h \in taken, ~Midnight(h), ToldBy(h)', NEW v \in Writer
                 PROVE  snapshot[h][v] <= ToldOf(DayEnding(h))'
    BY <1>8 DEF AtLeast
  <2>2. h \in Hour /\ DayEnding(h) \in Day /\ snapshot[h][v] \in Nat
    BY <1>1, <1>2, <2>1, DayEndingType
  <2>3. CASE DayEnding(h) # D
    BY <1>10, <1>14, <2>1, <2>2, <2>3 DEF MInv, AtLeast
  <2>4. CASE DayEnding(h) = D /\ h # m
    <3>1. h < m
      BY <1>1, <1>4, <2>1, <2>4
    <3>2. snapshot[h][v] <= ToldOf(D)
      BY <1>14, <2>1, <2>4, <3>1 DEF MInv, AtLeast
    <3>3. QED
      BY <1>11, <1>12, <2>2, <2>4, <3>2
  <2>5. CASE h = m
    <3>1. rows[v] \in Nat
      BY <1>9
    <3>2. s <= ToldOf(D)
      <4>1. CASE s = 0
        BY <1>11, <4>1
      <4>2. CASE s # 0
        <5>1. ToldBy(m - 1)
          <6>1. ASSUME NEW g \in taken \cap MarksOf(D), g <= m - 1 PROVE g \in sent
            <7>1. g \in Nat /\ m \in Nat
              BY <1>1
            <7>2. g <= m /\ g # m
              BY <6>1, <7>1
            <7>3. g \in sent'
              BY <1>8, <2>1, <2>5, <6>1, <7>2 DEF ToldBy
            <7>4. QED
              BY <1>8, <7>2, <7>3
          <6>2. QED
            BY <1>18, <4>2, <6>1 DEF ToldBy
        <5>2. \A w \in Writer : snapshot[m - 1][w] <= ToldOf(D)
          BY <1>18, <4>2, <5>1 DEF MInv, AtLeast
        <5>3. QED
          BY <1>6, <4>2, <5>2
      <4>3. QED
        BY <4>1, <4>2
    <3>3. rows[v] <= ToldOf(D)'
      BY <1>6, <1>11, <1>12, <3>1, <3>2
    <3>4. QED
      BY <2>5, <3>3 DEF rows
  <2>6. QED
    BY <2>3, <2>4, <2>5
<1>20. \A d \in Day \ {D} : m \notin MarksOf(d)
  BY DEF MarksOf
<1>21. m \in taken => IsMost(last[D], rows) /\ last[D] \in Nat
  BY <1>0, <1>1, LedgerAssumption DEF MInv, Newest, TypeOK, Amount, rows
<1>22. \A d \in Day : taken \cap MarksOf(d) \subseteq sent' /\ (d # D \/ m \notin taken)
                      => taken \cap MarksOf(d) \subseteq sent
  BY <1>8, <1>20
<1>23. Lower'
  <2>1. SUFFICES ASSUME NEW d \in Day, taken \cap MarksOf(d) \subseteq sent',
                        ~\E h \in taken : DayEnding(h) = d /\ Midnight(h)
                 PROVE  ToldOf(d)' >= last[d]
    BY <1>8 DEF Lower
  <2>2. CASE d # D \/ m \notin taken
    BY <1>10, <1>13, <1>22, <2>1, <2>2 DEF MInv, Lower
  <2>3. CASE d = D /\ m \in taken
    <3>1. ToldBy(m)'
      BY <1>8, <2>1, <2>3 DEF ToldBy
    <3>2. \A v \in Writer : rows[v] <= ToldOf(D)'
      BY <1>1, <1>8, <1>19, <2>3, <3>1 DEF AtLeast, rows
    <3>3. PICK v \in Writer : rows[v] = last[D]
      BY <1>21, <2>3 DEF IsMost
    <3>4. QED
      BY <1>11, <1>21, <2>3, <3>2, <3>3
  <2>4. QED
    BY <2>2, <2>3
\* On a steady day with no mark missed the message starts from all that was told.
<1>24. D \in steady /\ NoneMissed(m) /\ ToldBy(m)' => ToldOf(D) <= s
  <2>1. SUFFICES ASSUME D \in steady, NoneMissed(m), ToldBy(m)' PROVE ToldOf(D) <= s
    OBVIOUS
  <2>2. CASE Midnight(m - 1)
    <3>1. ASSUME NEW h \in taken \cap sent, DayEnding(h) = D PROVE FALSE
      <4>1. h \in Hour /\ h < m
        BY <1>1, <1>4, <3>1
      <4>2. m <= h
        BY <1>1, <2>2, <3>1, <4>1, FirstMark
      <4>3. QED
        BY <1>1, <4>1, <4>2
    <3>2. f = NoRows
      BY <1>1, <3>1 DEF MInv, Untold, f
    <3>3. QED
      BY <1>6, <1>11, <3>2, WeightOfNone
  <2>3. CASE ~Midnight(m - 1)
    <3>1. m - 1 \in Hour /\ DayEnding(m - 1) = D
      BY <1>1, <2>3, SameDay
    <3>2. m - 1 \in Nat /\ m \in Nat /\ m - 1 < m
      BY <1>1, <3>1
    <3>3. \A g \in Hour : g <= m - 1 => g <= m /\ g # m
      BY <1>1, <3>2
    <3>4. m - 1 \in taken /\ NoneMissed(m - 1)
      <4>1. m - 1 \in MarksOf(D) /\ m - 1 <= m
        BY <2>3, <3>1, <3>2 DEF MarksOf
      <4>2. m - 1 \in taken
        BY <2>1, <4>1 DEF NoneMissed
      <4>3. \A g \in MarksOf(D) : g <= m - 1 => g \in taken
        BY <2>1, <3>3 DEF NoneMissed, MarksOf
      <4>4. QED
        BY <3>1, <4>2, <4>3 DEF NoneMissed
    <3>5. ToldBy(m - 1)
      <4>1. ASSUME NEW g \in taken \cap MarksOf(D), g <= m - 1 PROVE g \in sent
        <5>1. g <= m /\ g # m
          BY <1>1, <3>3, <4>1
        <5>2. g \in sent'
          BY <1>8, <2>1, <4>1, <5>1 DEF ToldBy
        <5>3. QED
          BY <1>8, <5>1, <5>2
      <4>2. QED
        BY <3>1, <4>1 DEF ToldBy
    <3>6. Latest(m - 1)
      <4>1. \A g \in taken \cap sent : g <= m - 1
        BY <1>1, <1>4, <3>2
      <4>2. ASSUME NEW g \in taken PROVE g <= (m - 1) + Hours + 1
        <5>1. g <= m /\ g \in Nat
          BY <1>1, <1>4
        <5>2. QED
          BY <3>2, <5>1, LedgerAssumption
      <4>3. QED
        BY <4>1, <4>2 DEF Latest
    <3>7. PICK v \in Writer : ToldOf(D) <= snapshot[m - 1][v]
      BY <2>1, <2>3, <3>1, <3>4, <3>5, <3>6 DEF MInv, AtMost
    <3>8. snapshot[m - 1][v] \in Nat
      BY <1>2, <3>1
    <3>9. CASE s = 0
      BY <1>6, <2>3, <3>7, <3>9
    <3>10. CASE s # 0
      <4>1. PICK w \in Writer : s = snapshot[m - 1][w]
        BY <1>6, <3>10
      <4>2. snapshot[m - 1][v] > 0 => v = w
        BY <1>6, <2>1, <3>1, <3>4, <3>10, <4>1 DEF MInv, Once
      <4>3. QED
        BY <1>6, <1>11, <3>7, <3>8, <4>1, <4>2
    <3>11. QED
      BY <3>9, <3>10
  <2>4. QED
    BY <2>2, <2>3
<1>25. D \in steady /\ NoneMissed(m) /\ ToldBy(m)' /\ m \in taken
       => \E v \in Writer : ToldOf(D)' <= rows[v]
  <2>1. SUFFICES ASSUME D \in steady, NoneMissed(m), ToldBy(m)', m \in taken
                 PROVE  \E v \in Writer : ToldOf(D)' <= rows[v]
    OBVIOUS
  <2>2. ToldOf(D) <= s
    BY <1>24, <2>1
  <2>3. \A v, w \in Writer : rows[v] > 0 /\ rows[w] > 0 => v = w
    BY <2>1 DEF MInv, Once, rows
  <2>4. \/ ToldOf(D)' = ToldOf(D)
        \/ \E v \in Writer : rows[v] > s /\ ToldOf(D)' = ToldOf(D) + (rows[v] - s)
    BY <1>6, <1>9, <1>11, <2>3, TellsOnce
  <2>5. CASE ToldOf(D)' = ToldOf(D)
    <3>1. PICK v \in Writer : rows[v] = last[D]
      BY <1>21, <2>1 DEF IsMost
    <3>2. s <= last[D]
      <4>1. CASE s = 0
        BY <1>21, <2>1, <4>1
      <4>2. CASE s # 0
        <5>1. PICK w \in Writer : s = snapshot[m - 1][w]
          BY <1>6, <4>2
        <5>2. snapshot[m - 1][w] <= last[D]
          BY <1>18, <2>1, <4>2 DEF MInv, Once
        <5>3. QED
          BY <5>1, <5>2
      <4>3. QED
        BY <4>1, <4>2
    <3>3. QED
      BY <1>6, <1>11, <1>21, <2>1, <2>2, <2>5, <3>1, <3>2
  <2>6. ASSUME NEW v \in Writer, rows[v] > s, ToldOf(D)' = ToldOf(D) + (rows[v] - s)
        PROVE  ToldOf(D)' <= rows[v]
    <3>1. rows[v] \in Nat
      BY <1>9
    <3>2. QED
      BY <1>6, <1>11, <2>2, <2>6, <3>1
  <2>7. QED
    BY <2>4, <2>5, <2>6
<1>26. AtMost'
  <2>1. SUFFICES ASSUME NEW h \in taken, ~Midnight(h), DayEnding(h) \in steady, ToldBy(h)',
                        NoneMissed(h)', Latest(h)'
                 PROVE  \E v \in Writer : ToldOf(DayEnding(h))' <= snapshot[h][v]
    BY <1>8 DEF AtMost
  <2>2. h \in Hour /\ DayEnding(h) \in Day /\ NoneMissed(h)
    BY <1>1, <1>8, <2>1, DayEndingType DEF NoneMissed
  <2>3. Latest(h)
    BY <1>8, <2>1 DEF Latest
  <2>4. CASE DayEnding(h) # D
    BY <1>10, <1>14, <2>1, <2>2, <2>3, <2>4 DEF MInv, AtMost
  <2>5. CASE DayEnding(h) = D /\ m \notin taken
    <3>1. h < m
      BY <1>1, <1>4, <2>1, <2>5
    <3>2. QED
      BY <1>13, <1>14, <2>1, <2>2, <2>3, <2>5, <3>1 DEF MInv, AtMost
  <2>6. CASE DayEnding(h) = D /\ m \in taken
    <3>1. m <= h
      <4>1. m \in taken' \cap sent' \cap MarksOf(D)
        BY <1>1, <1>8, <2>6 DEF MarksOf
      <4>2. QED
        BY <2>1, <2>6, <4>1 DEF Latest
    <3>2. h = m
      BY <1>1, <1>4, <2>1, <3>1
    <3>3. QED
      BY <1>25, <2>1, <2>2, <2>6, <3>2 DEF rows
  <2>7. QED
    BY <2>4, <2>5, <2>6
<1>27. Upper'
  <2>1. SUFFICES ASSUME NEW d \in Day, taken \cap MarksOf(d) \subseteq sent', d \in steady,
                        \A h \in taken \cap MarksOf(d), g \in MarksOf(d) :
                            g < h => g \in taken \cap MarksOf(d)
                 PROVE  ToldOf(d)' <= last[d]
    BY <1>8 DEF Upper
  <2>2. CASE d # D \/ m \notin taken
    BY <1>10, <1>13, <1>22, <2>1, <2>2 DEF MInv, Upper
  <2>3. CASE d = D /\ m \in taken
    <3>1. ToldBy(m)'
      BY <1>8, <2>1, <2>3 DEF ToldBy
    <3>2. NoneMissed(m)
      <4>1. m \in MarksOf(D)
        BY <1>1 DEF MarksOf
      <4>2. ASSUME NEW g \in MarksOf(D), g <= m PROVE g \in taken
        <5>1. g = m \/ g < m
          BY <1>1, <4>2 DEF MarksOf
        <5>2. QED
          BY <2>1, <2>3, <4>1, <4>2, <5>1
      <4>3. QED
        BY <4>2 DEF NoneMissed
    <3>3. PICK v \in Writer : ToldOf(D)' <= rows[v]
      BY <1>25, <2>1, <2>3, <3>1, <3>2
    <3>4. rows[v] <= last[D] /\ rows[v] \in Nat
      BY <1>9, <1>21, <2>3 DEF IsMost
    <3>5. QED
      BY <1>11, <1>21, <2>3, <3>3, <3>4
  <2>4. QED
    BY <2>2, <2>3
<1>28. QED
  BY <1>15, <1>16, <1>17, <1>19, <1>23, <1>26, <1>27 DEF MInv

LEMMA DispatchMInv == ASSUME MInv, TypeOK', Dispatch PROVE MInv'
<1>1. snap \in Hour
  BY DEF MInv, TypeOK, Dispatch
<1>2. PICK m \in Hour : m = snap
  BY <1>1
<1>3. PICK D \in Day : D = DayEnding(m)
  BY DayEndingType
<1>4. QED
  BY <1>2, <1>3, DispatchKeeps

LEMMA NextMInv == MInv /\ [Next]_vars => MInv'
<1> SUFFICES ASSUME MInv, [Next]_vars PROVE MInv'
  OBVIOUS
<1>1. TypeOK'
  BY NextTypes DEF MInv
<1>2. Quiet \/ TakeSnapshot \/ Dispatch
  BY DEF Next, Quiet
<1>3. QED
  BY <1>1, <1>2, QuietMInv, SnapshotMInv, DispatchMInv

\* The hourly messages of a day add up to its last snapshot, for any number of
\* hours, days and writers and whatever is refused, skipped or lost: not less,
\* when every snapshot was told of, and not more, when moreover no mark was
\* missed and the day neither fell nor was there twice.
THEOREM AddUp == Spec => []MessagesAddUp
<1>1. Init => MInv
  BY InitMInv
<1>2. MInv => MessagesAddUp
  <2>1. SUFFICES ASSUME MInv PROVE MessagesAddUp
    OBVIOUS
  <2>2. Lower /\ Upper
    BY <2>1 DEF MInv
  <2>3. QED
    BY <2>2 DEF Lower, Upper, MessagesAddUp
<1>3. QED
  BY <1>1, <1>2, NextMInv, PTL DEF Spec
=============================================================================
