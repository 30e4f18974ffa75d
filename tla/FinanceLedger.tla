--------------------------- MODULE FinanceLedger ---------------------------
(* The sales of one shop, day by day, in finance_orders, and the hourly     *)
(* messages made of them.  Three kinds of threads read a window of the      *)
(* portal and write each of its days by DELETE and INSERT: the hourly loop, *)
(* the nightly refetch and the full backfill, which the seller starts when  *)
(* he adds a shop or presses resync.  The loops take the shop's lock in     *)
(* Redis, which other synchronisations take too; the backfill does not.     *)
EXTENDS Naturals, FiniteSetsExt

CONSTANTS
    Backfill,      \* backfills that can be under way at once
    Hours,         \* hours of a day
    LastDay,       \* bound on the days
    LastHour,      \* bound on the hours
    MaxFaults,     \* bound on what goes wrong
    MaxResyncs,    \* bound on the backfills started
    RefreshDays,   \* FINANCE_REFRESH_DAYS
    MaxSold        \* bound on the sales of a day

ASSUME LedgerAssumption ==
    /\ "hourly" \notin Backfill /\ "nightly" \notin Backfill /\ "free" \notin Backfill
    /\ IsFiniteSet(Backfill)
    /\ Hours \in Nat \ {0} /\ LastDay \in Nat \ {0}
    /\ LastHour \in 1..(LastDay * Hours) /\ MaxFaults \in Nat
    /\ MaxResyncs \in Nat
    /\ RefreshDays \in Nat \ {0} /\ MaxSold \in Nat \ {0}

Locked == {"hourly", "nightly"}
Writer == Locked \cup Backfill
Day == 1..LastDay
Hour == 1..LastHour      \* the HH:00 marks
Amount == 0..MaxSold

VARIABLES
    now,        \* whole hours gone by
    sold,       \* the portal: what was sold on a day
    ledger,     \* finance_orders: the row of the day a writer left, 0 for none
    snapshot,   \* finance_hourly_snapshots: the rows of the day at a mark
    lock,       \* shop_lock: who set the key, or "free"
    pc, fetched, left, seen,   \* the writers
    stage, snap, next,         \* the hourly loop
    night,      \* the day of the last nightly run
    faults, resyncs,   \* what went wrong and the backfills started so far
    told,       \* what the hourly messages say of a day, by the rows they read;
                \* that Telegram may refuse one to a user is left out
    bare, mixed, taken, sent, steady, last   \* seen by the properties only

writerVars == <<pc, fetched, left, seen>>
loopVars == <<stage, snap, next>>
bounds == <<faults, resyncs>>
ghosts == <<bare, mixed, taken, sent, steady, last>>
vars == <<now, sold, ledger, snapshot, lock, writerVars, loopVars, night,
          told, bounds, ghosts>>

NoRows == [v \in Writer |-> 0]
NoneSold == [d \in Day |-> 0]

TypeOK ==
    /\ now \in 0..LastHour
    /\ sold \in [Day -> Amount]
    /\ ledger \in [Day -> [Writer -> Amount]]
    /\ snapshot \in [Hour -> [Writer -> Amount]]
    /\ lock \in Locked \cup {"free"}
    /\ pc \in [Writer -> {"idle", "fetch", "days", "writing"}]
    /\ fetched \in [Writer -> [Day -> Amount]]
    /\ left \in [Writer -> SUBSET Day]
    /\ seen \in [Writer -> SUBSET Writer]
    /\ stage \in {"sleep", "refresh", "snapshot", "dispatch"}
    /\ snap \in Hour \cup {0} /\ next \in Nat \ {0}
    /\ night \in Nat /\ faults \in 0..MaxFaults /\ resyncs \in 0..MaxResyncs
    /\ told \in [Day -> [Writer -> Nat]]
    /\ bare \in BOOLEAN /\ mixed \subseteq Writer
    /\ taken \subseteq Hour /\ sent \subseteq Hour /\ steady \subseteq Day
    /\ last \in [Day -> Amount]
    \* A thread writes the days it has left, and one always when it is at it.
    /\ \A w \in Writer : pc[w] = "writing" => left[w] # {}
    /\ stage # "sleep" => snap \in Hour
    /\ pc["hourly"] # "idle" => stage = "refresh"

Init ==
    /\ now = 0
    /\ sold = NoneSold
    /\ ledger = [d \in Day |-> NoRows]
    /\ snapshot = [h \in Hour |-> NoRows]
    /\ lock = "free"
    /\ pc = [w \in Writer |-> "idle"]
    /\ fetched = [w \in Writer |-> NoneSold]
    /\ left = [w \in Writer |-> {}] /\ seen = [w \in Writer |-> {}]
    /\ stage = "sleep" /\ snap = 0 /\ next = 1
    /\ night = 1 /\ faults = 0 /\ resyncs = 0
    /\ told = [d \in Day |-> NoRows]
    /\ bare = FALSE /\ mixed = {} /\ taken = {} /\ sent = {}
    /\ steady = Day /\ last = NoneSold

\* One more of the bounded number of faults.
GoesWrong == faults < MaxFaults /\ faults' = faults + 1 /\ UNCHANGED resyncs

\* The day an instant of the hour after mark h lies in.
DayOf(h) == (h \div Hours) + 1
today == DayOf(now)
DayEnding(h) == DayOf(h - 1)     \* (snap_hour - 1 s).date()
Midnight(h) == h % Hours = 0

Active == {w \in Writer : pc[w] # "idle"}
Copies(d) == {v \in Writer : ledger[d][v] > 0}
DayAt(w) == Min(left[w])

------------------------------------------------------------------------------
(* A writer: takes the lock, reads its window of the portal, writes the     *)
(* days of the window one transaction each, and lets the lock go.           *)

Begin(w, days) ==
    /\ pc[w] = "idle"
    /\ pc' = [pc EXCEPT ![w] = "fetch"]
    /\ left' = [left EXCEPT ![w] = days]

\* Mutant of Locks: SET without NX.
LocksAnyway(w) == lock' = w

\* SET NX EX: the key is there once.
Locks(w) == lock = "free" /\ lock' = w

\* All pages of the window; the quantities as they are now.
Fetch(w) ==
    /\ pc[w] = "fetch"
    /\ pc' = [pc EXCEPT ![w] = "days"]
    /\ fetched' = [fetched EXCEPT ![w] = [d \in Day |-> IF d \in left[w] THEN sold[d] ELSE 0]]
    /\ UNCHANGED <<now, sold, ledger, snapshot, lock, left, seen, loopVars,
                   night, told, bounds, ghosts>>

\* Mutant of Sees: the rows of the other kinds of threads stay.
SeesOwn(w, d) == Copies(d) \cap {w}

\* The rows the DELETE of w finds: those committed when it starts.
Sees(w, d) == Copies(d)

AtDay(d) == {v \in Writer : pc[v] = "writing" /\ DayAt(v) = d}

\* DELETE of the day.  One that has to wait for the same rows finds them gone
\* afterwards, and what was inserted meanwhile it does not see.
Delete(w) ==
    /\ pc[w] = "days" /\ left[w] # {}
    /\ pc' = [pc EXCEPT ![w] = "writing"]
    /\ seen' = [seen EXCEPT ![w] = Sees(w, DayAt(w))]
    /\ mixed' = IF AtDay(DayAt(w)) = {} THEN mixed ELSE mixed \cup AtDay(DayAt(w)) \cup {w}
    /\ UNCHANGED <<now, sold, ledger, snapshot, lock, fetched, left, loopVars,
                   night, told, bounds, bare, taken, sent, steady, last>>

\* INSERT and COMMIT.
Commit(w) ==
    LET d == DayAt(w) IN
    /\ pc[w] = "writing"
    /\ ledger' = [ledger EXCEPT ![d] =
                    [v \in Writer |-> IF v = w THEN fetched[w][d]
                                      ELSE IF v \in seen[w] THEN 0 ELSE @[v]]]
    /\ seen' = [v \in Writer |-> IF v = w THEN {}
                                 ELSE IF v \in AtDay(d) THEN seen[v] \ (seen[w] \cup {w})
                                 ELSE seen[v]]
    /\ pc' = [pc EXCEPT ![w] = "days"]
    /\ left' = [left EXCEPT ![w] = @ \ {d}]
    /\ mixed' = mixed \ {w}
    /\ UNCHANGED <<now, sold, snapshot, lock, fetched, loopVars, night, told,
                   bounds, bare, taken, sent, steady, last>>

\* The thread is through with the shop.  "finally" deletes the key, whoever
\* has set it.
Leave(w) ==
    /\ pc' = [pc EXCEPT ![w] = "idle"]
    /\ fetched' = [fetched EXCEPT ![w] = NoneSold]
    /\ left' = [left EXCEPT ![w] = {}]
    /\ seen' = [seen EXCEPT ![w] = {}]
    /\ mixed' = mixed \ {w}
    /\ lock' = IF w \in Locked THEN "free" ELSE lock
    /\ stage' = IF w = "hourly" THEN "snapshot" ELSE stage
    /\ UNCHANGED <<now, sold, ledger, snapshot, snap, next, night, told,
                   bare, taken, sent, steady, last>>

Finish(w) == pc[w] = "days" /\ left[w] = {} /\ Leave(w) /\ UNCHANGED bounds

\* The portal or the database refuses: a day that is not committed stays.
Raise(w) == pc[w] # "idle" /\ Leave(w) /\ GoesWrong

------------------------------------------------------------------------------
(* _hourly_finance_loop                                                     *)

\* The mark has come, or is long past: snap_hour is the hour it is now.
Wake ==
    /\ stage = "sleep" /\ now >= next
    /\ snap' = now
    /\ stage' = "refresh"
    /\ UNCHANGED <<now, sold, ledger, snapshot, lock, writerVars, next, night,
                   told, bounds, ghosts>>

\* _refresh_finance_for_shop_day of the day the mark ends.
HourlyBegins ==
    /\ stage = "refresh"
    /\ Begin("hourly", {DayEnding(snap)}) /\ Locks("hourly")
    /\ UNCHANGED <<now, sold, ledger, snapshot, fetched, seen, loopVars, night,
                   told, bounds, ghosts>>

\* Mutant of HourlySkips: the loop does not wait for its threads.
HourlySkipsAhead ==
    /\ stage = "refresh"
    /\ stage' = "snapshot"
    /\ UNCHANGED <<now, sold, ledger, snapshot, lock, writerVars, snap, next,
                   night, told, bounds, ghosts>>

\* The lock is taken, or the owner has no token: the day stays as it is.
HourlySkips ==
    /\ stage = "refresh" /\ pc["hourly"] = "idle"
    /\ stage' = "snapshot"
    /\ UNCHANGED <<now, sold, ledger, snapshot, lock, writerVars, snap, next,
                   night, told, bounds, ghosts>>

\* The shops cannot be listed: no snapshot and no message of this mark.
TickRaises ==
    /\ stage = "refresh" /\ pc["hourly"] = "idle" /\ GoesWrong
    /\ stage' = "sleep" /\ snap' = 0 /\ next' = now + 1
    /\ UNCHANGED <<now, sold, ledger, snapshot, lock, writerVars, night, told, ghosts>>

IsMost(a, rows) == (\E v \in Writer : rows[v] = a) /\ \A v \in Writer : rows[v] <= a

\* _save_hourly_snapshots: the rows of the day the mark ends, for 25 hours.
TakeSnapshot ==
    LET d == DayEnding(snap)
        rows == ledger[d]
    IN
    /\ stage = "snapshot"
    /\ snapshot' = [h \in Hour |-> IF h = snap THEN rows
                                   ELSE IF h + Hours + 1 < snap THEN NoRows
                                   ELSE snapshot[h]]
    /\ stage' = "dispatch"
    /\ taken' = taken \cup {snap}
    /\ \E most \in Amount :
          /\ IsMost(most, rows)
          /\ last' = [last EXCEPT ![d] = most]
          /\ steady' = IF most < last[d] \/ \E v, w \in Copies(d) : v # w
                       THEN steady \ {d} ELSE steady
    /\ UNCHANGED <<now, sold, ledger, lock, writerVars, snap, next, night, told,
                   bounds, bare, mixed, sent>>

\* It raises: the messages go out all the same.
SnapshotRaises ==
    /\ stage = "snapshot" /\ GoesWrong
    /\ stage' = "dispatch"
    /\ UNCHANGED <<now, sold, ledger, snapshot, lock, writerVars, snap, next,
                   night, told, ghosts>>

\* Mutant of Starts: every window is taken for one that starts at midnight.
StartsAtMidnight(h) == {0}

\* What the quantities at mark h are compared with: nothing at the start of a
\* day and when the mark before has no rows, else any of its rows.
Starts(h) ==
    LET rows == IF Midnight(h - 1) THEN {}
                ELSE {snapshot[h - 1][v] : v \in Writer} \ {0}
    IN
    IF rows = {} THEN {0} ELSE rows

\* The message of the hour to who gets one every hour:
\* read_hourly_sku_breakdown over [snap - 1 h, snap).
Dispatch ==
    /\ stage = "dispatch" /\ ~Midnight(snap)
    /\ \E s \in Starts(snap) :
          told' = [told EXCEPT ![DayEnding(snap)] =
                     [v \in Writer |-> IF snapshot[snap][v] > s
                                       THEN @[v] + (snapshot[snap][v] - s) ELSE @[v]]]
    /\ stage' = "sleep"
    /\ snap' = 0 /\ next' = now + 1
    /\ sent' = sent \cup {snap}
    /\ UNCHANGED <<now, sold, ledger, snapshot, lock, writerVars, night,
                   bounds, bare, mixed, taken, steady, last>>

\* At midnight the summary of the day instead, from the rows of the mark.
DispatchDay ==
    /\ stage = "dispatch" /\ Midnight(snap)
    /\ stage' = "sleep"
    /\ snap' = 0 /\ next' = now + 1
    /\ UNCHANGED <<now, sold, ledger, snapshot, lock, writerVars, night, told,
                   bounds, ghosts>>

\* The message is not made: an exception, or the silent return where no admin
\* has a token to read the portal with.
DispatchRaises ==
    /\ stage = "dispatch" /\ GoesWrong
    /\ stage' = "sleep"
    /\ snap' = 0 /\ next' = now + 1
    /\ UNCHANGED <<now, sold, ledger, snapshot, lock, writerVars, night,
                   told, ghosts>>

------------------------------------------------------------------------------
(* The nightly refetch and the backfill                                     *)

\* Half past midnight: the days of the window, yesterday the last.
NightlyBegins ==
    /\ today > night
    /\ Begin("nightly", {d \in Day : d < today /\ today <= d + RefreshDays})
    /\ Locks("nightly")
    /\ night' = today
    /\ UNCHANGED <<now, sold, ledger, snapshot, fetched, seen, loopVars, told, bounds, ghosts>>

NightlySkips ==
    /\ today > night /\ pc["nightly"] = "idle"
    /\ night' = today
    /\ UNCHANGED <<now, sold, ledger, snapshot, lock, writerVars, loopVars, told,
                   bounds, ghosts>>

\* _fire_finance_seed: a shop is added, or the seller presses resync.  Of the
\* quarters the backfill reads, the one with the days of the model.
BackfillBegins(w) ==
    /\ Begin(w, {d \in Day : d <= today})
    /\ resyncs < MaxResyncs /\ resyncs' = resyncs + 1
    /\ bare' = TRUE
    /\ UNCHANGED <<now, sold, ledger, snapshot, lock, fetched, seen, loopVars,
                   night, told, faults, mixed, taken, sent, steady, last>>

------------------------------------------------------------------------------
(* The lock, the processes, the clock and the portal                        *)

\* 300 seconds have passed, Redis has lost the key, or a synchronisation of
\* products or expenses, whose own lock ran out, deletes it at its end.
Expire ==
    /\ lock # "free"
    /\ lock' = "free"
    /\ IF pc[lock] = "idle" THEN UNCHANGED <<bounds, bare>> ELSE GoesWrong /\ bare' = TRUE
    /\ UNCHANGED <<now, sold, ledger, snapshot, writerVars, loopVars, night, told,
                   mixed, taken, sent, steady, last>>

\* The processes die and start again; the tables and the key in Redis stay.
Restart ==
    /\ GoesWrong
    /\ pc' = [w \in Writer |-> "idle"]
    /\ fetched' = [w \in Writer |-> NoneSold]
    /\ left' = [w \in Writer |-> {}] /\ seen' = [w \in Writer |-> {}]
    /\ stage' = "sleep" /\ snap' = 0 /\ next' = now + 1
    /\ night' \in {night, today}
    /\ mixed' = {}
    /\ UNCHANGED <<now, sold, ledger, snapshot, lock, told, bare, taken, sent,
                   steady, last>>

HourPasses ==
    /\ now < LastHour
    /\ now' = now + 1
    /\ UNCHANGED <<sold, ledger, snapshot, lock, writerVars, loopVars, night, told,
                   bounds, ghosts>>

\* The portal: something is sold today, or an order of some day is cancelled.
Trade ==
    /\ \/ /\ today \in Day /\ sold[today] < MaxSold
          /\ sold' = [sold EXCEPT ![today] = @ + 1]
          /\ UNCHANGED bounds
       \/ \E d \in Day :
             sold[d] > 0 /\ sold' = [sold EXCEPT ![d] = @ - 1] /\ GoesWrong
    /\ UNCHANGED <<now, ledger, snapshot, lock, writerVars, loopVars, night, told, ghosts>>

Next ==
    \/ \E w \in Writer : Fetch(w) \/ Delete(w) \/ Commit(w) \/ Finish(w) \/ Raise(w)
    \/ Wake \/ HourlyBegins \/ HourlySkips \/ TickRaises
    \/ TakeSnapshot \/ SnapshotRaises \/ Dispatch \/ DispatchDay \/ DispatchRaises
    \/ NightlyBegins \/ NightlySkips
    \/ \E w \in Backfill : BackfillBegins(w)
    \/ Expire \/ Restart \/ HourPasses \/ Trade

Spec == Init /\ [][Next]_vars

------------------------------------------------------------------------------
(* Properties                                                               *)

\* What the shop's lock is for: until the first backfill begins, or a lock is
\* lost under a thread that works (bare stays TRUE from then on), one thread at
\* a time is between its reading of the portal and its last day, and no day is
\* there twice.  That "finally" deletes a key it has not checked does no harm
\* before that.
Guarded ==
    ~bare => /\ \A v, w \in Active : v = w
             /\ \A d \in Day : \A v, w \in Copies(d) : v = w

\* A re-run of a day that meets no other leaves its own rows and no others,
\* however many times the day was there before ("DELETE+INSERT makes re-runs
\* idempotent", as long as no other DELETE and INSERT is between its two).
Rerun ==
    [][\A w \in Writer :
          pc[w] = "writing" /\ pc'[w] = "days" /\ w \notin mixed =>
             ledger'[DayAt(w)] = [NoRows EXCEPT ![w] = fetched[w][DayAt(w)]]]_vars

\* The sales told of a day: one for each that is told of by the rows of a writer.
ToldOf(d) == Cardinality(UNION {{v} \X (1..told[d][v]) : v \in Writer})
MarksOf(d) == {h \in Hour : DayEnding(h) = d /\ ~Midnight(h)}

\* The hourly messages of a day add up.  When every snapshot that was taken
\* was also told of, no sale of the last one is left out, whatever hours were
\* skipped, refused or lost; when moreover no mark was missed between two
\* snapshots and no day was doubled or fell, none is told of twice, and the
\* summary at midnight is of no less than the hours before it.
MessagesAddUp ==
    \A d \in Day :
       LET marks == taken \cap MarksOf(d)
           over == \E h \in taken : DayEnding(h) = d /\ Midnight(h)
           whole == \A h \in marks, g \in MarksOf(d) : g < h => g \in marks
       IN
       marks \subseteq sent =>
          /\ ~over => ToldOf(d) >= last[d]
          /\ d \in steady /\ whole => ToldOf(d) <= last[d]
==============================================================================
