-------------------------- MODULE SubscriptionProofs ---------------------------
(***************************************************************************)
(* Subscriptions, for any users, codes, durations, browsers, requests and  *)
(* horizons.                                                               *)
(*                                                                         *)
(* The activation codes: the log keeps its types and its foreign key, and  *)
(* of requests served one at a time the columns of every user are what the *)
(* replay of the log gives, a code is used as often as is counted and no   *)
(* more often than it may be, and a longer code shortens nobody's end.     *)
(*                                                                         *)
(* The gate: changes that do not overlap leave nobody blocked who has a    *)
(* subscription; and with one browser that asks for one page at a time     *)
(* they reach its session.                                                 *)
(***************************************************************************)
EXTENDS SubscriptionGate, SubscriptionCodes, FiniteSetTheorems, WellFoundedInduction, TLAPS

------------------------------------------------------------------------------
(* THE ACTIVATION CODES                                                    *)

\* Requests on the codes are served one at a time.
OneServed == \A v, w \in Worker : v = w

------------------------------------------------------------------------------
(* The replay of the rows of one user.                                     *)

\* What holds of 0 and of each number that follows one it holds of.
LEMMA UpTo ==
    ASSUME NEW N \in Nat, NEW S, 0 \in S, \A i \in 1..N : i - 1 \in S => i \in S
    PROVE  0..N \subseteq S
<1> DEFINE Before == {ss \in Nat \X Nat : ss[1] < ss[2]}
           T == {i \in Nat : i <= N /\ i \notin S}
<1>1. IsWellFoundedOn(Before, Nat)
  BY NatLessThanWellFounded DEF OpToRel
<1>2. SUFFICES ASSUME T # {} PROVE FALSE
  OBVIOUS
<1>3. PICK m \in T : \A n \in T : ~(<<n, m>> \in Before)
  <2>1. T \subseteq Nat
    OBVIOUS
  <2> HIDE DEF T, Before
  <2>. QED
    BY <1>1, <1>2, <2>1, WFMin
<1>4. \A n \in T : ~(n < m)
  BY <1>3
<1>5. m \in 1..N /\ m - 1 \notin T
  BY <1>4
<1>. QED
  BY <1>5

IsSteps(f, n, rows, duration) ==
    f = [i \in 0..n |-> IF i = 0 THEN NoSubscription
                        ELSE Step(f[i - 1], rows[i], duration)]

LEMMA StepsExist ==
    ASSUME NEW rows, Len(rows) \in Nat, NEW duration
    PROVE  IsSteps(Steps(rows, duration), Len(rows), rows, duration)
<1> DEFINE N == Len(rows)
           Good == {n \in Nat : \E f : IsSteps(f, n, rows, duration)}
<1>1. 0 \in Good
  <2> DEFINE f == [i \in 0..0 |-> NoSubscription]
  <2>1. IsSteps(f, 0, rows, duration)
    BY DEF IsSteps
  <2>. QED
    BY <2>1
<1>2. ASSUME NEW n \in 1..N, n - 1 \in Good PROVE n \in Good
  <2>1. PICK f : IsSteps(f, n - 1, rows, duration)
    BY <1>2
  <2> DEFINE g == [i \in 0..n |-> IF i = n THEN Step(f[n - 1], rows[n], duration) ELSE f[i]]
             h == [i \in 0..n |-> IF i = 0 THEN NoSubscription
                                  ELSE Step(g[i - 1], rows[i], duration)]
  <2>2. \A i \in 0..(n - 1) : f[i] = IF i = 0 THEN NoSubscription
                                   ELSE Step(f[i - 1], rows[i], duration)
    BY <2>1 DEF IsSteps
  <2>3. \A i \in 0..(n - 1) : g[i] = f[i]
    OBVIOUS
  <2>4. ASSUME NEW i \in 0..n PROVE g[i] = h[i]
    <3>1. CASE i = 0
      <4>1. g[i] = f[i] /\ f[i] = NoSubscription
        BY <2>2, <2>3, <3>1
      <4>. QED
        BY <3>1, <4>1
    <3>2. CASE i \in 1..(n - 1)
      <4>1. g[i] = f[i] /\ g[i - 1] = f[i - 1]
        BY <2>3, <3>2
      <4>2. f[i] = Step(f[i - 1], rows[i], duration)
        BY <2>2, <3>2
      <4>3. h[i] = Step(g[i - 1], rows[i], duration)
        BY <3>2
      <4>. QED
        BY <4>1, <4>2, <4>3
    <3>3. CASE i = n
      <4>1. g[i] = Step(f[n - 1], rows[n], duration) /\ g[n - 1] = f[n - 1]
        BY <2>3, <3>3
      <4>2. h[i] = Step(g[n - 1], rows[n], duration)
        BY <3>3
      <4>. QED
        BY <4>1, <4>2
    <3>. QED
      BY <3>1, <3>2, <3>3
  <2>5. g = h
    BY <2>4
  <2>6. IsSteps(g, n, rows, duration)
    BY <2>5 DEF IsSteps
  <2>. QED
    BY <2>6
<1>3. N \in Good
  <2> HIDE DEF Good
  <2>1. 0..N \subseteq Good
    BY <1>1, <1>2, UpTo
  <2>. QED
    BY <2>1
<1>4. PICK f : IsSteps(f, N, rows, duration)
  BY <1>3
<1>. QED
  BY <1>4 DEF IsSteps, Steps

LEMMA StepByStep ==
    ASSUME NEW rows, Len(rows) \in Nat, NEW duration
    PROVE  /\ Steps(rows, duration)[0] = NoSubscription
           /\ \A i \in 1..Len(rows) :
                 Steps(rows, duration)[i] = Step(Steps(rows, duration)[i - 1], rows[i], duration)
<1> DEFINE f == Steps(rows, duration)
<1>1. f = [i \in 0..Len(rows) |-> IF i = 0 THEN NoSubscription
                                  ELSE Step(f[i - 1], rows[i], duration)]
  BY StepsExist DEF IsSteps
<1> HIDE DEF f
<1>2. f[0] = NoSubscription /\ \A i \in 1..Len(rows) : f[i] = Step(f[i - 1], rows[i], duration)
  BY <1>1
<1>. QED
  BY <1>2 DEF f

LEMMA NullInt == NULL \in Int
BY DEF NULL

LEMMA SubscriptionTypes ==
    /\ NoSubscription \in Subscription /\ Unlimited \in Subscription
    /\ \A sub \in Subscription, at \in Int, days \in Int : Extended(sub, days, at) \in Int
    /\ \A sub \in Subscription, at \in Int, d \in Durations : Applied(sub, at, d) \in Subscription
<1>1. NoSubscription \in Subscription /\ Unlimited \in Subscription
  BY NullInt DEF NoSubscription, Unlimited, Subscription
<1>2. ASSUME NEW sub \in Subscription, NEW at \in Int, NEW days \in Int
      PROVE  Extended(sub, days, at) \in Int
  BY TrialAssumption DEF Extended, EffectiveEnd, Later, Subscription
<1>3. ASSUME NEW sub \in Subscription, NEW at \in Int, NEW d \in Durations
      PROVE  Applied(sub, at, d) \in Subscription
  <2>1. d.days \in Int
    BY CodesAssumption
  <2>2. Extended(sub, d.days, at) \in Int
    BY <1>2, <2>1
  <2>. QED
    BY <1>1, <2>2 DEF Applied, Subscription
<1>. QED
  BY <1>1, <1>2, <1>3

\* The durations of the codes these rows are of.
Timed(rows, duration) ==
    \A i \in 1..Len(rows) : rows[i].code # ByAdmin => duration[rows[i].code] \in Durations

LEMMA StepTypes ==
    ASSUME NEW sub \in Subscription, NEW row \in LogRow, NEW duration,
           row.code # ByAdmin => duration[row.code] \in Durations
    PROVE  Step(sub, row, duration) \in Subscription
<1>1. row.at \in Int /\ row.granted \in Subscription
  BY DEF LogRow
<1>. QED
  BY <1>1, SubscriptionTypes DEF Step

LEMMA StepsTypes ==
    ASSUME NEW rows \in Seq(LogRow), NEW duration, Timed(rows, duration)
    PROVE  /\ \A i \in 0..Len(rows) : Steps(rows, duration)[i] \in Subscription
           /\ Replayed(rows, duration) \in Subscription
<1> DEFINE N == Len(rows)
           f == Steps(rows, duration)
           S == {i \in 0..N : f[i] \in Subscription}
<1>1. N \in Nat /\ \A i \in 1..N : rows[i] \in LogRow
  OBVIOUS
<1>2. 0 \in S
  BY <1>1, StepByStep, SubscriptionTypes
<1>3. ASSUME NEW i \in 1..N, i - 1 \in S PROVE i \in S
  <2>1. f[i] = Step(f[i - 1], rows[i], duration)
    BY <1>1, StepByStep
  <2>2. f[i] \in Subscription
    BY <1>1, <1>3, <2>1, StepTypes DEF Timed
  <2>. QED
    BY <2>2
<1>4. 0..N \subseteq S
  <2> HIDE DEF S
  <2>. QED
    BY <1>1, <1>2, <1>3, UpTo
<1>. QED
  BY <1>1, <1>4 DEF Replayed

\* Rows that come to the same give the same.
LEMMA SameSteps ==
    ASSUME NEW rows, Len(rows) \in Nat, NEW duration, NEW other, NEW otherDuration,
           NEW n \in 0..Len(rows), Len(other) \in Nat, n <= Len(other),
           \A i \in 1..n : \A sub :
              Step(sub, other[i], otherDuration) = Step(sub, rows[i], duration)
    PROVE  \A i \in 0..n : Steps(other, otherDuration)[i] = Steps(rows, duration)[i]
<1> DEFINE f == Steps(rows, duration)
           g == Steps(other, otherDuration)
           S == {i \in 0..n : g[i] = f[i]}
<1>1. 0 \in S
  BY StepByStep
<1>2. ASSUME NEW i \in 1..n, i - 1 \in S PROVE i \in S
  <2>1. f[i] = Step(f[i - 1], rows[i], duration)
    BY StepByStep
  <2>2. g[i] = Step(g[i - 1], other[i], otherDuration)
    BY StepByStep
  <2>3. g[i] = f[i]
    BY <1>2, <2>1, <2>2
  <2>. QED
    BY <2>3
<1>3. 0..n \subseteq S
  <2>1. n \in Nat
    OBVIOUS
  <2> HIDE DEF S
  <2>. QED
    BY <1>1, <1>2, <2>1, UpTo
<1>. QED
  BY <1>3

\* The rows of two logs come to the same, each with its durations.
SameRows(rows, duration, other, otherDuration) ==
    /\ Len(rows) \in Nat /\ Len(other) = Len(rows)
    /\ \A i \in 1..Len(rows) : \A sub :
           Step(sub, other[i], otherDuration) = Step(sub, rows[i], duration)

LEMMA SameReplay ==
    ASSUME NEW rows, NEW duration, NEW other, NEW otherDuration,
           SameRows(rows, duration, other, otherDuration)
    PROVE  Replayed(other, otherDuration) = Replayed(rows, duration)
<1>1. /\ Len(rows) \in 0..Len(rows) /\ Len(rows) <= Len(other) /\ Len(other) \in Nat
      /\ Len(other) = Len(rows)
  BY DEF SameRows
<1>2. \A i \in 0..Len(rows) : Steps(other, otherDuration)[i] = Steps(rows, duration)[i]
  BY <1>1, SameSteps DEF SameRows
<1>. QED
  BY <1>1, <1>2 DEF Replayed

\* One more row is one more step.
LEMMA ReplayAppend ==
    ASSUME NEW rows \in Seq(LogRow), NEW row \in LogRow, NEW duration
    PROVE  Replayed(Append(rows, row), duration)
               = Step(Replayed(rows, duration), row, duration)
<1> DEFINE N == Len(rows)
           more == Append(rows, row)
<1>1. /\ N \in Nat /\ Len(more) = N + 1 /\ more[N + 1] = row
      /\ \A i \in 1..N : more[i] = rows[i]
  OBVIOUS
<1> HIDE DEF more
<1>2. Steps(more, duration)[N + 1] = Step(Steps(more, duration)[N], row, duration)
  BY <1>1, StepByStep
<1>3. Steps(more, duration)[N] = Steps(rows, duration)[N]
  BY <1>1, SameSteps
<1>. QED
  BY <1>1, <1>2, <1>3 DEF Replayed, more

LEMMA ReplayNone ==
    ASSUME NEW duration
    PROVE  Replayed(<<>>, duration) = NoSubscription
<1>1. Len(<<>>) = 0
  OBVIOUS
<1>. QED
  BY <1>1, StepByStep DEF Replayed

LEMMA ReplayOne ==
    ASSUME NEW row, row.code = ByAdmin, NEW duration
    PROVE  Replayed(<<row>>, duration) = row.granted
<1>1. Len(<<row>>) = 1 /\ <<row>>[1] = row
  OBVIOUS
<1>2. Steps(<<row>>, duration)[1] = Step(Steps(<<row>>, duration)[0], row, duration)
  BY <1>1, StepByStep
<1>. QED
  BY <1>1, <1>2 DEF Replayed, Step

------------------------------------------------------------------------------
(* Types.                                                                  *)

LEMMA CodeRows ==
    /\ NoCode \notin CodeRow /\ \A row \in CodeRow : row # NoCode
    /\ \A row \in CodeRow, used \in Nat : [row EXCEPT !.used = used] \in CodeRow
    /\ \A row \in CodeRow, d \in Durations : [row EXCEPT !.duration = d] \in CodeRow
    /\ \A row \in CodeRow : row.used \in Nat /\ row.duration \in Durations /\ row.max \in Limits
<1>1. NoCode.used = -1
  BY DEF NoCode
<1>2. \A row \in CodeRow : row.used \in Nat
  BY DEF CodeRow
<1>3. \A row \in CodeRow : row # NoCode
  BY <1>1, <1>2
<1>. QED
  BY <1>2, <1>3 DEF CodeRow

Tables ==
    /\ user \in [User -> Subscription]
    /\ code \in [Code -> CodeRow \cup {NoCode}]
    /\ log \in [User -> Seq(LogRow)]
    /\ today \in 0..LastDay
    /\ call \in [Worker -> Activation \cup {NoCall}]

\* The foreign key, row by row.
Keyed ==
    \A u \in User : \A i \in 1..Len(log[u]) :
        log[u][i].code # ByAdmin => Live(log[u][i].code)

LEMMA TypesByRow == CodesTypeOK <=> Tables /\ Keyed
<1>1. ASSUME log \in [User -> Seq(LogRow)]
      PROVE  (\A c \in Code : UsersOf(c) # {} => Live(c)) <=> Keyed
  <2>1. \A u \in User : DOMAIN log[u] = 1..Len(log[u]) /\ \A i \in 1..Len(log[u]) : log[u][i] \in LogRow
    BY <1>1
  <2>2. \A u \in User : \A i \in 1..Len(log[u]) :
            log[u][i].code # ByAdmin <=> log[u][i].code \in Code
    BY <2>1, CodesAssumption DEF LogRow
  <2>3. \A c \in Code : UsersOf(c) # {} <=>
            \E u \in User : \E i \in 1..Len(log[u]) : log[u][i].code = c
    BY <2>1 DEF UsersOf, RowsOf
  <2>. QED
    BY <2>1, <2>2, <2>3 DEF Keyed
<1>. QED
  BY <1>1 DEF CodesTypeOK, Tables

LEMMA TypesNext == ASSUME Tables', Keyed' PROVE CodesTypeOK'
<1>1. (Tables /\ Keyed => CodesTypeOK)'
  BY TypesByRow, PTL
<1>. QED
  BY <1>1

LEMMA LiveRows ==
    ASSUME CodesTypeOK, NEW c \in Code
    PROVE  /\ Live(c) <=> code[c] \in CodeRow
           /\ Live(c) => LiveDurations[c] = code[c].duration /\ LiveDurations[c] \in Durations
           /\ ~Live(c) => code[c] = NoCode
<1>1. code[c] \in CodeRow \cup {NoCode}
  BY DEF CodesTypeOK
<1>2. Live(c) <=> code[c] \in CodeRow
  BY <1>1, CodeRows DEF Live
<1>3. Live(c) => LiveDurations[c] = code[c].duration
  BY DEF LiveDurations
<1>. QED
  BY <1>1, <1>2, <1>3, CodeRows DEF Live

LEMMA RowTypes ==
    ASSUME CodesTypeOK, NEW u \in User
    PROVE  /\ log[u] \in Seq(LogRow) /\ Len(log[u]) \in Nat /\ DOMAIN log[u] = 1..Len(log[u])
           /\ \A i \in 1..Len(log[u]) :
                 /\ log[u][i] \in LogRow
                 /\ log[u][i].code # ByAdmin =>
                       log[u][i].code \in Code /\ Live(log[u][i].code)
<1>1. log[u] \in Seq(LogRow)
  BY DEF CodesTypeOK
<1>2. \A i \in 1..Len(log[u]) : log[u][i] \in LogRow
  BY <1>1
<1>. QED
  BY <1>1, <1>2, TypesByRow DEF Keyed, LogRow

LEMMA CallTypes ==
    ASSUME CodesTypeOK, NEW w \in Worker, call[w] # NoCall
    PROVE  /\ call[w] \in Activation
           /\ call[w].user \in User /\ call[w].code \in Code
           /\ call[w].seen_user \in Subscription /\ call[w].seen_code \in CodeRow
BY DEF CodesTypeOK, Activation

LEMMA InitTables == ASSUME CodesInit PROVE CodesTypeOK
<1>1. \A u \in User : log[u] = <<>> /\ Len(log[u]) = 0
  BY DEF CodesInit
<1>2. Keyed
  BY <1>1 DEF Keyed
<1>3. Tables
  BY SubscriptionTypes, CodesAssumption DEF CodesInit, Tables
<1>. QED
  BY <1>2, <1>3, TypesByRow

LEMMA ReadsTypes ==
    ASSUME CodesTypeOK, NEW w \in Worker, NEW u \in User, NEW c \in Code,
           ActivationReads(w, u, c)
    PROVE  CodesTypeOK'
<1> DEFINE a == [user |-> u, code |-> c, seen_user |-> user[u], seen_code |-> code[c]]
<1>1. a \in Activation
  <2>1. user[u] \in Subscription /\ code[c] \in CodeRow
    BY LiveRows DEF CodesTypeOK, ActivationReads
  <2>. QED
    BY <2>1 DEF Activation
<1>2. call' = [call EXCEPT ![w] = a]
  BY DEF ActivationReads
<1>. QED
  BY <1>1, <1>2 DEF CodesTypeOK, ActivationReads, UsersOf, RowsOf, Live

LEMMA CommitTypes ==
    ASSUME CodesTypeOK, NEW w \in Worker, ActivationCommits(w)
    PROVE  CodesTypeOK'
<1> DEFINE a == call[w]
           new == Activated(a.seen_user, a.seen_code.duration)
           row == [code |-> a.code, at |-> today, granted |-> new]
<1>1. /\ a.user \in User /\ a.code \in Code /\ a.seen_user \in Subscription
      /\ a.seen_code \in CodeRow
  BY CallTypes DEF ActivationCommits
<1>2. call' \in [Worker -> Activation \cup {NoCall}] /\ today' = today
  BY DEF CodesTypeOK, ActivationCommits
<1>3. CASE UNCHANGED <<user, code, log>>
  BY <1>2, <1>3 DEF CodesTypeOK, UsersOf, RowsOf, Live
<1>4. CASE Live(a.code) /\ ~UNCHANGED <<user, code, log>>
  <2>1. today \in Int /\ today \in Nat
    BY CodesAssumption DEF CodesTypeOK
  <2>2. new \in Subscription
    <3>1. new = Applied(a.seen_user, today, a.seen_code.duration)
      BY DEF Activated, Applied
    <3>. QED
      BY <1>1, <2>1, <3>1, CodeRows, SubscriptionTypes
  <2>3. row \in LogRow
    BY <1>1, <2>1, <2>2 DEF LogRow
  <2>4. user' \in [User -> Subscription]
    <3> DEFINE merged == [until |-> IF new.until = a.seen_user.until THEN user[a.user].until
                                    ELSE new.until,
                          unlimited |-> IF new.unlimited = a.seen_user.unlimited
                                        THEN user[a.user].unlimited ELSE new.unlimited]
    <3>1. user' = [user EXCEPT ![a.user] = merged]
      BY <1>1, <1>4 DEF ActivationCommits, CodesTypeOK
    <3>2. user[a.user] \in Subscription
      BY <1>1 DEF CodesTypeOK
    <3>3. merged \in Subscription
      BY <1>1, <2>2, <3>2 DEF Subscription
    <3> HIDE DEF merged
    <3>. QED
      BY <1>1, <3>1, <3>3 DEF CodesTypeOK
  <2>5. /\ code' = [code EXCEPT ![a.code].used = a.seen_code.used + 1]
        /\ log' = [log EXCEPT ![a.user] = Append(log[a.user], row)]
    BY <1>1, <1>4 DEF ActivationCommits, CodesTypeOK
  <2>6. code' \in [Code -> CodeRow \cup {NoCode}] /\ \A c \in Code : Live(c)' <=> Live(c)
    <3>1. code[a.code] \in CodeRow /\ a.seen_code.used + 1 \in Nat
      BY <1>1, <1>4, LiveRows, CodeRows
    <3>2. code' = [code EXCEPT ![a.code] = [code[a.code] EXCEPT !.used = a.seen_code.used + 1]]
      BY <1>1, <2>5 DEF CodesTypeOK
    <3>3. [code[a.code] EXCEPT !.used = a.seen_code.used + 1] \in CodeRow
      BY <3>1, CodeRows
    <3>. QED
      BY <1>1, <1>4, <3>2, <3>3, CodeRows DEF CodesTypeOK, Live
  <2>7. log' \in [User -> Seq(LogRow)]
    BY <1>1, <2>3, <2>5, RowTypes DEF CodesTypeOK
  <2>8. Keyed'
    <3> SUFFICES ASSUME NEW u \in User, NEW i \in 1..Len(log'[u]), log'[u][i].code # ByAdmin
                 PROVE  code'[log'[u][i].code] # NoCode
      BY DEF Keyed, Live
    <3>4. \A c \in Code : Live(c) => code'[c] # NoCode
      BY <2>6 DEF Live
    <3>1. CASE u # a.user \/ i \in 1..Len(log[u])
      <4>1. i \in 1..Len(log[u]) /\ log'[u][i] = log[u][i]
        BY <1>1, <2>5, <3>1, RowTypes DEF CodesTypeOK
      <4>. QED
        BY <3>4, <4>1, RowTypes
    <3>2. CASE u = a.user /\ i = Len(log[u]) + 1
      <4>1. log'[u][i] = row
        BY <1>1, <2>3, <2>5, <3>2, RowTypes DEF CodesTypeOK
      <4>. QED
        BY <1>1, <1>4, <3>4, <4>1
    <3>3. u = a.user => Len(log'[u]) = Len(log[u]) + 1
      BY <1>1, <2>3, <2>5, RowTypes DEF CodesTypeOK
    <3>. QED
      BY <1>1, <3>1, <3>2, <3>3, RowTypes
  <2>9. Tables'
    BY <1>2, <2>4, <2>6, <2>7 DEF CodesTypeOK, Tables
  <2>. QED
    BY <2>8, <2>9, TypesNext
<1>. QED
  BY <1>3, <1>4 DEF ActivationCommits

LEMMA CreateTypes ==
    ASSUME CodesTypeOK, NEW c \in Code, NEW d \in Durations, NEW max \in Limits,
           create_code(c, d, max)
    PROVE  CodesTypeOK'
<1> DEFINE row == [duration |-> d, max |-> max, used |-> 0]
<1>1. row \in CodeRow
  BY DEF CodeRow
<1>2. code' = [code EXCEPT ![c] = row]
  BY DEF create_code
<1>3. \A x \in Code : Live(x) => Live(x)'
  BY <1>1, <1>2, CodeRows DEF CodesTypeOK, Live
<1>. QED
  BY <1>1, <1>2, <1>3 DEF CodesTypeOK, create_code, UsersOf, RowsOf

\* The durations an update replays with, and those it leaves.
LEMMA UpdateTimes ==
    ASSUME CodesTypeOK, NEW c \in Code, NEW d \in Durations, update_code(c, d),
           NEW e, e = [LiveDurations EXCEPT ![c] = d]
    PROVE  /\ code' \in [Code -> CodeRow \cup {NoCode}]
           /\ \A x \in Code : /\ Live(x)' <=> Live(x)
                              /\ Live(x) => code'[x].duration = e[x] /\ e[x] \in Durations
           /\ e = LiveDurations'
           /\ \A u \in User : Timed(log[u], e)
<1>1. Live(c) /\ code[c] \in CodeRow
  BY LiveRows DEF update_code
<1>2. code' = [code EXCEPT ![c] = [code[c] EXCEPT !.duration = d]]
  BY DEF update_code, CodesTypeOK
<1>3. [code[c] EXCEPT !.duration = d] \in CodeRow
  BY <1>1, CodeRows
<1>4. code' \in [Code -> CodeRow \cup {NoCode}] /\ \A x \in Code : Live(x)' <=> Live(x)
  BY <1>1, <1>2, <1>3, CodeRows DEF CodesTypeOK, Live
<1>5. code'[c].duration = d
  BY <1>1, <1>2 DEF CodesTypeOK, CodeRow
<1>6. ASSUME NEW x \in Code, Live(x) PROVE code'[x].duration = e[x] /\ e[x] \in Durations
  <2>1. CASE x = c
    BY <1>5, <1>6, <2>1 DEF LiveDurations
  <2>2. CASE x # c
    <3>1. e[x] = LiveDurations[x] /\ code'[x] = code[x]
      BY <1>2, <1>6, <2>2 DEF LiveDurations, CodesTypeOK
    <3>. QED
      BY <1>6, <3>1, LiveRows
  <2>. QED
    BY <2>1, <2>2
<1>7. e = LiveDurations'
  <2>1. e = [x \in {y \in Code : Live(y)} |-> e[x]]
    BY DEF LiveDurations
  <2>2. LiveDurations' = [x \in {y \in Code : Live(y)} |-> code'[x].duration]
    BY <1>4 DEF LiveDurations
  <2>. QED
    BY <1>6, <2>1, <2>2
<1>8. \A u \in User : Timed(log[u], e)
  BY <1>6, RowTypes DEF Timed
<1>. QED
  BY <1>4, <1>6, <1>7, <1>8

\* What the recalculation writes into the log of a user: each row what it granted.
LEMMA RegrantedRows ==
    ASSUME NEW rows \in Seq(LogRow), NEW e, Timed(rows, e)
    PROVE  /\ Regranted(rows, e) \in Seq(LogRow) /\ Len(Regranted(rows, e)) = Len(rows)
           /\ \A i \in 1..Len(rows) :
                 LET new == Regranted(rows, e)[i] IN
                 /\ new.code = rows[i].code /\ new.at = rows[i].at
                 /\ new.code = ByAdmin => new.granted = rows[i].granted
<1> DEFINE N == Len(rows)
           all == Regranted(rows, e)
<1>1. N \in Nat /\ DOMAIN rows = 1..N
  OBVIOUS
<1>2. ASSUME NEW i \in 1..N
      PROVE  /\ all[i] \in LogRow
             /\ all[i].code = rows[i].code /\ all[i].at = rows[i].at
             /\ all[i].code = ByAdmin => all[i].granted = rows[i].granted
  <2>1. rows[i] \in LogRow
    OBVIOUS
  <2>2. Steps(rows, e)[i] \in Subscription
    BY <1>1, StepsTypes
  <2>3. all[i] = [rows[i] EXCEPT !.granted = Steps(rows, e)[i]]
    BY <1>1 DEF Regranted
  <2>4. Steps(rows, e)[i] = Step(Steps(rows, e)[i - 1], rows[i], e)
    BY <1>1, StepByStep
  <2>5. rows[i].code = ByAdmin => Steps(rows, e)[i] = rows[i].granted
    BY <2>4 DEF Step
  <2>. QED
    BY <2>1, <2>2, <2>3, <2>5 DEF LogRow
<1>3. all \in [1..N -> LogRow]
  BY <1>1, <1>2 DEF Regranted
<1>4. all \in Seq(LogRow) /\ Len(all) = N
  BY <1>1, <1>3
<1>. QED
  BY <1>2, <1>4

\* An update of a code keeps the rows of the log and their codes.
LEMMA UpdateRows ==
    ASSUME CodesTypeOK, NEW c \in Code, NEW d \in Durations, update_code(c, d)
    PROVE  \A u \in User : /\ log'[u] \in Seq(LogRow) /\ Len(log'[u]) = Len(log[u])
                           /\ \A i \in 1..Len(log[u]) : log'[u][i].code = log[u][i].code
<1> DEFINE e == [LiveDurations EXCEPT ![c] = d]
<1>1. \A u \in User : Timed(log[u], e)
  BY UpdateTimes
<1>2. log' = [u \in User |-> IF u \in UsersOf(c) THEN Regranted(log[u], e) ELSE log[u]]
  BY DEF update_code, Recalculated
<1> HIDE DEF e
<1>3. SUFFICES ASSUME NEW u \in User
               PROVE  /\ log'[u] \in Seq(LogRow) /\ Len(log'[u]) = Len(log[u])
                      /\ \A i \in 1..Len(log[u]) : log'[u][i].code = log[u][i].code
  OBVIOUS
<1>4. log[u] \in Seq(LogRow) /\ Timed(log[u], e)
  BY <1>1, RowTypes
<1>5. CASE u \in UsersOf(c)
  <2>1. log'[u] = Regranted(log[u], e)
    BY <1>2, <1>5
  <2>. QED
    BY <1>4, <2>1, RegrantedRows
<1>6. CASE u \notin UsersOf(c)
  <2>1. log'[u] = log[u]
    BY <1>2, <1>6
  <2>. QED
    BY <1>4, <2>1
<1>. QED
  BY <1>5, <1>6

LEMMA UpdateTypes ==
    ASSUME CodesTypeOK, NEW c \in Code, NEW d \in Durations, update_code(c, d)
    PROVE  CodesTypeOK'
<1> DEFINE e == [LiveDurations EXCEPT ![c] = d]
<1>1. /\ code' \in [Code -> CodeRow \cup {NoCode}]
      /\ \A x \in Code : Live(x) => code'[x] # NoCode
      /\ \A u \in User : Timed(log[u], e)
  BY UpdateTimes DEF Live
<1>2. /\ user' = [u \in User |-> IF u \in UsersOf(c) THEN Replayed(log[u], e) ELSE user[u]]
      /\ log' = [u \in User |-> IF u \in UsersOf(c) THEN Regranted(log[u], e) ELSE log[u]]
      /\ UNCHANGED <<today, call>>
  BY DEF update_code, Recalculated
<1>3. \A u \in User : Replayed(log[u], e) \in Subscription
  BY <1>1, RowTypes, StepsTypes
<1>4. user' \in [User -> Subscription]
  BY <1>2, <1>3 DEF CodesTypeOK
<1> HIDE DEF e
<1>6. \A u \in User : /\ log'[u] \in Seq(LogRow) /\ Len(log'[u]) = Len(log[u])
                      /\ \A i \in 1..Len(log[u]) : log'[u][i].code = log[u][i].code
  BY UpdateRows
<1>7. log' \in [User -> Seq(LogRow)]
  BY <1>2, <1>6
<1>8. Keyed'
  BY <1>1, <1>6, RowTypes DEF Keyed, Live
<1>9. Tables'
  BY <1>1, <1>2, <1>4, <1>7 DEF Tables, CodesTypeOK
<1>. QED
  BY <1>8, <1>9, TypesNext

LEMMA DeleteTypes ==
    ASSUME CodesTypeOK, NEW c \in Code, delete_code(c)
    PROVE  CodesTypeOK'
<1>1. CASE UsersOf(c) = {}
  <2>1. code' = [code EXCEPT ![c] = NoCode]
    BY <1>1 DEF delete_code
  <2>2. \A x \in Code : UsersOf(x) # {} => Live(x)'
    BY <1>1, <2>1 DEF CodesTypeOK, Live
  <2>. QED
    BY <2>1, <2>2 DEF CodesTypeOK, delete_code, UsersOf, RowsOf
<1>2. CASE UsersOf(c) # {}
  BY <1>2 DEF CodesTypeOK, delete_code, UsersOf, RowsOf, Live
<1>. QED
  BY <1>1, <1>2

LEMMA ClearedCodes ==
    ASSUME CodesTypeOK, NEW u \in User, code' = cleared(u)
    PROVE  /\ code' \in [Code -> CodeRow \cup {NoCode}]
           /\ \A c \in Code : /\ Live(c)' <=> Live(c)
                              /\ Live(c) => code'[c].duration = code[c].duration
<1>1. ASSUME NEW c \in Code, Live(c)
      PROVE  code'[c] \in CodeRow /\ code'[c].duration = code[c].duration
  <2> DEFINE used == Later(0, code[c].used - Cardinality(RowsOf(u, c)))
  <2>1. code[c] \in CodeRow
    BY <1>1, LiveRows
  <2>2. Cardinality(RowsOf(u, c)) \in Nat
    <3>1. Len(log[u]) \in Nat /\ DOMAIN log[u] = 1..Len(log[u])
      BY RowTypes
    <3>2. IsFiniteSet(1..Len(log[u])) /\ RowsOf(u, c) \subseteq 1..Len(log[u])
      BY <3>1, FS_Interval DEF RowsOf
    <3>. QED
      BY <3>2, FS_Subset, FS_CardinalityType
  <2>3. used \in Nat
    BY <2>1, <2>2, CodeRows DEF Later
  <2>4. code'[c] = [code[c] EXCEPT !.used = used]
    BY <1>1, <2>1 DEF cleared, CodeRow
  <2> HIDE DEF used
  <2>. QED
    BY <2>1, <2>3, <2>4, CodeRows DEF CodeRow
<1>2. \A c \in Code : ~Live(c) => code'[c] = NoCode
  BY DEF cleared
<1>3. code' \in [Code -> CodeRow \cup {NoCode}]
  BY <1>1, <1>2 DEF cleared
<1>. QED
  BY <1>1, <1>2, <1>3, CodeRows DEF Live

LEMMA SetTypes ==
    ASSUME CodesTypeOK, NEW u \in User, NEW d \in Durations, update_user_subscription(u, d)
    PROVE  CodesTypeOK'
<1> DEFINE new == IF d.unlimited THEN Unlimited
                  ELSE [until |-> Extended(user[u], d.days, today), unlimited |-> FALSE]
           row == [code |-> ByAdmin, at |-> today, granted |-> new]
<1>1. today \in Nat /\ user[u] \in Subscription
  BY CodesAssumption DEF CodesTypeOK
<1>2. new = Applied(user[u], today, d)
  BY DEF Applied
<1>3. new \in Subscription
  <2>1. today \in Int /\ d \in Durations
    BY <1>1
  <2>2. Applied(user[u], today, d) \in Subscription
    BY <1>1, <2>1, SubscriptionTypes
  <2>. HIDE DEF new
  <2>. QED
    BY <1>2, <2>2
<1>4. row \in LogRow
  BY <1>1, <1>3 DEF LogRow
<1>5. /\ user' = [user EXCEPT ![u] = new] /\ log' = [log EXCEPT ![u] = <<row>>]
      /\ code' = cleared(u) /\ UNCHANGED <<today, call>>
  BY DEF update_user_subscription
<1>6. <<row>> \in Seq(LogRow) /\ Len(<<row>>) = 1 /\ <<row>>[1] = row
  BY <1>4
<1>7. row.code = ByAdmin
  OBVIOUS
<1> HIDE DEF new, row
<1>8. log' \in [User -> Seq(LogRow)]
  BY <1>5, <1>6 DEF CodesTypeOK
<1>9. Tables'
  BY <1>3, <1>5, <1>8, ClearedCodes DEF Tables, CodesTypeOK
<1>10. Keyed'
  <2>1. \A v \in User : v # u => log'[v] = log[v]
    BY <1>5 DEF CodesTypeOK
  <2>2. log'[u] = <<row>>
    BY <1>5 DEF CodesTypeOK
  <2>3. \A c \in Code : Live(c) => code'[c] # NoCode
    BY <1>5, ClearedCodes DEF Live
  <2>. QED
    BY <1>6, <1>7, <2>1, <2>2, <2>3, RowTypes DEF Keyed, Live
<1>. QED
  BY <1>9, <1>10, TypesNext

LEMMA ClearTypes ==
    ASSUME CodesTypeOK, NEW u \in User, delete_user_subscription(u)
    PROVE  CodesTypeOK'
<1>1. /\ user' = [user EXCEPT ![u] = NoSubscription] /\ log' = [log EXCEPT ![u] = <<>>]
      /\ code' = cleared(u) /\ UNCHANGED <<today, call>>
  BY DEF delete_user_subscription
<1>2. <<>> \in Seq(LogRow) /\ Len(<<>>) = 0
  OBVIOUS
<1>3. Tables'
  BY <1>1, <1>2, ClearedCodes, SubscriptionTypes DEF Tables, CodesTypeOK
<1>4. Keyed'
  <2>1. \A v \in User : v # u => log'[v] = log[v]
    BY <1>1 DEF CodesTypeOK
  <2>2. Len(log'[u]) = 0
    BY <1>1, <1>2 DEF CodesTypeOK
  <2>3. \A c \in Code : Live(c) => code'[c] # NoCode
    BY <1>1, ClearedCodes DEF Live
  <2>. QED
    BY <2>1, <2>2, <2>3, RowTypes DEF Keyed, Live
<1>. QED
  BY <1>3, <1>4, TypesNext

LEMMA CodesNextTypes == ASSUME CodesTypeOK, [CodesNext]_codesVars PROVE CodesTypeOK'
<1>1. CASE NextDay
  BY <1>1, CodesAssumption DEF NextDay, CodesTypeOK, UsersOf, RowsOf, Live
<1>2. CASE UNCHANGED codesVars
  BY <1>2 DEF codesVars, CodesTypeOK, UsersOf, RowsOf, Live
<1>. QED
  BY <1>1, <1>2, ReadsTypes, CommitTypes, CreateTypes, UpdateTypes, DeleteTypes, SetTypes,
     ClearTypes DEF CodesNext

\* Columns, codes, rows of the log and what an activation has read keep their
\* types, and no row is of a code that is gone (the foreign key of
\* subscription_code_activations).
THEOREM CodesTypeCorrect == CodesSpec => []CodesTypeOK
<1>1. CodesInit => CodesTypeOK
  BY InitTables
<1>2. CodesTypeOK /\ [CodesNext]_codesVars => CodesTypeOK'
  BY CodesNextTypes
<1>. QED
  BY <1>1, <1>2, PTL DEF CodesSpec

------------------------------------------------------------------------------
(* The replay agrees with the requests, served one at a time.              *)

\* What an activation has read is still what is stored.
Seen ==
    \A w \in Worker : call[w] # NoCall =>
        call[w].seen_user = user[call[w].user] /\ call[w].seen_code = code[call[w].code]

LEMMA SameDurations ==
    ASSUME \A c \in Code : /\ Live(c)' <=> Live(c)
                           /\ Live(c) => code'[c].duration = code[c].duration
    PROVE  LiveDurations' = LiveDurations
BY DEF LiveDurations

\* The replay of a user asks for the durations of the user's codes only.
LEMMA SameForUser ==
    ASSUME CodesTypeOK, NEW u \in User, NEW e,
           \A c \in Code : Live(c) /\ u \in UsersOf(c) => e[c] = LiveDurations[c]
    PROVE  Replayed(log[u], e) = Replayed(log[u], LiveDurations)
<1>1. /\ Len(log[u]) \in Nat /\ DOMAIN log[u] = 1..Len(log[u])
      /\ \A i \in 1..Len(log[u]) : log[u][i].code # ByAdmin =>
             log[u][i].code \in Code /\ Live(log[u][i].code)
  BY RowTypes
<1>2. ASSUME NEW i \in 1..Len(log[u]), log[u][i].code # ByAdmin
      PROVE  e[log[u][i].code] = LiveDurations[log[u][i].code]
  <2>1. u \in UsersOf(log[u][i].code)
    BY <1>1 DEF UsersOf, RowsOf
  <2>. QED
    BY <1>1, <1>2, <2>1
<1>3. \A i \in 1..Len(log[u]) : \A sub :
          Step(sub, log[u][i], e) = Step(sub, log[u][i], LiveDurations)
  BY <1>2 DEF Step
<1> DEFINE rows == log[u]
           duration == LiveDurations
<1>4. SameRows(rows, duration, rows, e)
  BY <1>1, <1>3 DEF SameRows
<1> HIDE DEF rows, duration
<1>5. Replayed(rows, e) = Replayed(rows, duration)
  BY <1>4, SameReplay
<1>. QED
  BY <1>5 DEF rows, duration

LEMMA CommitAgrees ==
    ASSUME CodesTypeOK, ReplayAgrees, Seen, NEW w \in Worker, ActivationCommits(w)
    PROVE  ReplayAgrees'
<1> DEFINE a == call[w]
           new == Activated(a.seen_user, a.seen_code.duration)
           row == [code |-> a.code, at |-> today, granted |-> new]
<1>1. /\ a.user \in User /\ a.code \in Code /\ a.seen_user \in Subscription
      /\ a.seen_code \in CodeRow
      /\ a.seen_user = user[a.user] /\ a.seen_code = code[a.code]
  BY CallTypes DEF ActivationCommits, Seen
<1>2. CASE UNCHANGED <<user, code, log>>
  BY <1>2 DEF ReplayAgrees, LiveDurations, Live
<1>3. CASE ~UNCHANGED <<user, code, log>>
  <2>1. Live(a.code) /\ code[a.code] \in CodeRow
    BY <1>1, CodeRows DEF Live
  <2>2. new = Applied(a.seen_user, today, a.seen_code.duration)
    BY DEF Activated, Applied
  <2>3. new \in Subscription /\ today \in Nat
    <3>1. today \in Nat
      BY CodesAssumption DEF CodesTypeOK
    <3>. QED
      BY <1>1, <2>2, <3>1, CodeRows, SubscriptionTypes
  <2>4. row \in LogRow
    BY <1>1, <2>3 DEF LogRow
  <2>5. log' = [log EXCEPT ![a.user] = Append(log[a.user], row)]
    BY <1>3 DEF ActivationCommits, CodesTypeOK
  <2>6. user' = [user EXCEPT ![a.user] = new]
    <3>1. user' = [user EXCEPT ![a.user] =
                     [until |-> IF new.until = a.seen_user.until THEN user[a.user].until
                                ELSE new.until,
                      unlimited |-> IF new.unlimited = a.seen_user.unlimited
                                    THEN user[a.user].unlimited ELSE new.unlimited]]
      BY <1>1, <1>3 DEF ActivationCommits, CodesTypeOK
    <3>2. new = [until |-> new.until, unlimited |-> new.unlimited]
      BY <2>3 DEF Subscription
    <3> HIDE DEF new
    <3>3. [until |-> IF new.until = a.seen_user.until THEN user[a.user].until ELSE new.until,
           unlimited |-> IF new.unlimited = a.seen_user.unlimited
                         THEN user[a.user].unlimited ELSE new.unlimited] = new
      BY <1>1, <3>2
    <3>. QED
      BY <3>1, <3>3
  <2>7. LiveDurations' = LiveDurations
    <3>1. code' = [code EXCEPT ![a.code] = [code[a.code] EXCEPT !.used = a.seen_code.used + 1]]
      BY <1>3 DEF ActivationCommits, CodesTypeOK
    <3>2. code'[a.code] \in CodeRow /\ code'[a.code].duration = code[a.code].duration
      <4>1. a.seen_code.used + 1 \in Nat
        BY <1>1, CodeRows
      <4>. QED
        BY <1>1, <2>1, <3>1, <4>1, CodeRows DEF CodesTypeOK, CodeRow
    <3>3. \A c \in Code : c # a.code => code'[c] = code[c]
      BY <3>1 DEF CodesTypeOK
    <3>4. \A c \in Code : /\ Live(c)' <=> Live(c)
                          /\ Live(c) => code'[c].duration = code[c].duration
      BY <2>1, <3>2, <3>3, CodeRows DEF Live
    <3>. QED
      BY <3>4, SameDurations
  <2>8. Replayed(Append(log[a.user], row), LiveDurations) = new
    <3>1. Replayed(Append(log[a.user], row), LiveDurations)
            = Step(Replayed(log[a.user], LiveDurations), row, LiveDurations)
      BY <1>1, <2>4, RowTypes, ReplayAppend
    <3>2. Replayed(log[a.user], LiveDurations) = a.seen_user
      BY <1>1 DEF ReplayAgrees
    <3>3. LiveDurations[a.code] = a.seen_code.duration
      BY <1>1, <2>1, LiveRows
    <3>4. a.code # ByAdmin
      BY <1>1, CodesAssumption
    <3>5. Step(a.seen_user, row, LiveDurations) = Applied(a.seen_user, today, a.seen_code.duration)
      BY <3>3, <3>4 DEF Step
    <3>. QED
      BY <2>2, <3>1, <3>2, <3>5
  <2> HIDE DEF new, row
  <2>9. ASSUME NEW u \in User PROVE user'[u] = Replayed(log'[u], LiveDurations)
    <3>1. CASE u = a.user
      <4>1. user'[u] = new /\ log'[u] = Append(log[a.user], row)
        BY <2>5, <2>6, <3>1 DEF CodesTypeOK
      <4>. QED
        BY <2>8, <4>1
    <3>2. CASE u # a.user
      <4>1. user'[u] = user[u] /\ log'[u] = log[u]
        BY <2>5, <2>6, <3>2 DEF CodesTypeOK
      <4>. QED
        BY <4>1 DEF ReplayAgrees
    <3>. QED
      BY <3>1, <3>2
  <2>. QED
    BY <2>7, <2>9 DEF ReplayAgrees
<1>. QED
  BY <1>2, <1>3

LEMMA CreateAgrees ==
    ASSUME CodesTypeOK, ReplayAgrees, NEW c \in Code, NEW d \in Durations, NEW max \in Limits,
           create_code(c, d, max)
    PROVE  ReplayAgrees'
<1>1. \A x \in Code : Live(x) => Live(x)' /\ LiveDurations'[x] = LiveDurations[x]
  <2> SUFFICES ASSUME NEW x \in Code, Live(x)
               PROVE  code'[x] # NoCode /\ LiveDurations'[x] = LiveDurations[x]
    BY DEF Live
  <2>1. code'[x] = code[x]
    BY DEF create_code, CodesTypeOK
  <2>. QED
    BY <2>1 DEF LiveDurations, Live
<1>2. \A u \in User : Replayed(log[u], LiveDurations') = Replayed(log[u], LiveDurations)
  BY <1>1, SameForUser
<1>. QED
  BY <1>2 DEF ReplayAgrees, create_code

LEMMA DeleteAgrees ==
    ASSUME CodesTypeOK, ReplayAgrees, NEW c \in Code, delete_code(c)
    PROVE  ReplayAgrees'
<1>1. CASE UsersOf(c) # {}
  BY <1>1 DEF ReplayAgrees, delete_code, LiveDurations, Live
<1>2. CASE UsersOf(c) = {}
  <2>1. ASSUME NEW x \in Code, Live(x), x # c PROVE LiveDurations'[x] = LiveDurations[x]
    <3>1. code'[x] = code[x]
      BY <1>2, <2>1 DEF delete_code
    <3>. QED
      BY <2>1, <3>1 DEF LiveDurations, Live
  <2>2. \A u \in User : Replayed(log[u], LiveDurations') = Replayed(log[u], LiveDurations)
    BY <1>2, <2>1, SameForUser
  <2>. QED
    BY <2>2 DEF ReplayAgrees, delete_code
<1>. QED
  BY <1>1, <1>2

LEMMA UpdateAgrees ==
    ASSUME CodesTypeOK, ReplayAgrees, NEW c \in Code, NEW d \in Durations, update_code(c, d)
    PROVE  ReplayAgrees'
<1> DEFINE e == [LiveDurations EXCEPT ![c] = d]
<1>1. e = LiveDurations' /\ \A u \in User : Timed(log[u], e)
  BY UpdateTimes
<1>2. /\ user' = [u \in User |-> IF u \in UsersOf(c) THEN Replayed(log[u], e) ELSE user[u]]
      /\ log' = [u \in User |-> IF u \in UsersOf(c) THEN Regranted(log[u], e) ELSE log[u]]
  BY DEF update_code, Recalculated
<1>3. \A x \in Code : x # c => e[x] = LiveDurations[x]
  BY DEF LiveDurations
<1> HIDE DEF e
<1>4. ASSUME NEW u \in User, u \notin UsersOf(c) PROVE user'[u] = Replayed(log'[u], e)
  <2>1. user'[u] = user[u] /\ log'[u] = log[u]
    BY <1>2, <1>4
  <2>2. Replayed(log[u], e) = Replayed(log[u], LiveDurations)
    BY <1>3, <1>4, SameForUser
  <2>. QED
    BY <2>1, <2>2 DEF ReplayAgrees
<1>5. ASSUME NEW u \in User, u \in UsersOf(c) PROVE user'[u] = Replayed(log'[u], e)
  <2> DEFINE rows == log[u]
             other == Regranted(rows, e)
  <2>1. user'[u] = Replayed(rows, e) /\ log'[u] = other
    BY <1>2, <1>5
  <2>2. rows \in Seq(LogRow) /\ Len(rows) \in Nat /\ Timed(rows, e)
    BY <1>1, RowTypes
  <2>3. Len(other) = Len(rows) /\ \A i \in 1..Len(rows) :
            /\ other[i].code = rows[i].code /\ other[i].at = rows[i].at
            /\ other[i].code = ByAdmin => other[i].granted = rows[i].granted
    BY <2>2, RegrantedRows
  <2> HIDE DEF other
  <2>4. \A i \in 1..Len(rows) : \A sub : Step(sub, other[i], e) = Step(sub, rows[i], e)
    BY <2>3 DEF Step
  <2>5. SameRows(rows, e, other, e)
    BY <2>2, <2>3, <2>4 DEF SameRows
  <2>6. Replayed(other, e) = Replayed(rows, e)
    BY <2>5, SameReplay
  <2>. QED
    BY <2>1, <2>6
<1>. QED
  BY <1>1, <1>4, <1>5 DEF ReplayAgrees

LEMMA SetAgrees ==
    ASSUME CodesTypeOK, ReplayAgrees, NEW u \in User, NEW d \in Durations,
           update_user_subscription(u, d)
    PROVE  ReplayAgrees'
<1> DEFINE new == IF d.unlimited THEN Unlimited
                  ELSE [until |-> Extended(user[u], d.days, today), unlimited |-> FALSE]
           row == [code |-> ByAdmin, at |-> today, granted |-> new]
<1>1. user' = [user EXCEPT ![u] = new] /\ log' = [log EXCEPT ![u] = <<row>>]
  BY DEF update_user_subscription
<1>2. LiveDurations' = LiveDurations
  BY ClearedCodes, SameDurations DEF update_user_subscription
<1>3. row.code = ByAdmin /\ row.granted = new
  OBVIOUS
<1> HIDE DEF new, row
<1>4. user'[u] = new /\ log'[u] = <<row>>
  BY <1>1 DEF CodesTypeOK
<1>5. \A v \in User : v # u => user'[v] = user[v] /\ log'[v] = log[v]
  BY <1>1 DEF CodesTypeOK
<1>6. Replayed(<<row>>, LiveDurations) = new
  BY <1>3, ReplayOne
<1>. QED
  BY <1>2, <1>4, <1>5, <1>6 DEF ReplayAgrees

LEMMA ClearAgrees ==
    ASSUME CodesTypeOK, ReplayAgrees, NEW u \in User, delete_user_subscription(u)
    PROVE  ReplayAgrees'
<1>1. LiveDurations' = LiveDurations
  BY ClearedCodes, SameDurations DEF delete_user_subscription
<1>2. user'[u] = NoSubscription /\ log'[u] = <<>>
  BY DEF delete_user_subscription, CodesTypeOK
<1>3. \A v \in User : v # u => user'[v] = user[v] /\ log'[v] = log[v]
  BY DEF delete_user_subscription, CodesTypeOK
<1>. QED
  BY <1>1, <1>2, <1>3, ReplayNone DEF ReplayAgrees

LEMMA NextAgrees ==
    ASSUME CodesTypeOK, ReplayAgrees, Seen, [CodesNext]_codesVars
    PROVE  ReplayAgrees'
<1>1. CASE \E w \in Worker, u \in User, c \in Code : ActivationReads(w, u, c)
  BY <1>1 DEF ActivationReads, ReplayAgrees, LiveDurations, Live
<1>2. CASE NextDay
  BY <1>2 DEF NextDay, ReplayAgrees, LiveDurations, Live
<1>3. CASE UNCHANGED codesVars
  BY <1>3 DEF codesVars, ReplayAgrees, LiveDurations, Live
<1>. QED
  BY <1>1, <1>2, <1>3, CommitAgrees, CreateAgrees, UpdateAgrees, DeleteAgrees, SetAgrees,
     ClearAgrees DEF CodesNext

\* With one worker nothing comes between the two halves of an activation.
LEMMA NextSeen ==
    ASSUME CodesTypeOK, Seen, OneServed, [CodesNext]_codesVars
    PROVE  Seen'
<1>1. ASSUME NEW w \in Worker, NEW u \in User, NEW c \in Code, ActivationReads(w, u, c)
      PROVE  Seen'
  <2> DEFINE a == [user |-> u, code |-> c, seen_user |-> user[u], seen_code |-> code[c]]
  <2>1. call' = [call EXCEPT ![w] = a] /\ UNCHANGED <<user, code>>
    BY <1>1 DEF ActivationReads
  <2>2. \A v \in Worker : call'[v] = a
    BY <2>1, OneServed DEF CodesTypeOK, OneServed
  <2>3. a.user = u /\ a.code = c /\ a.seen_user = user[u] /\ a.seen_code = code[c]
    OBVIOUS
  <2> HIDE DEF a
  <2>. QED
    BY <2>1, <2>2, <2>3 DEF Seen
<1>2. ASSUME NEW w \in Worker, ActivationCommits(w) PROVE Seen'
  BY <1>2, OneServed DEF ActivationCommits, Seen, OneServed, CodesTypeOK
<1>3. CASE AdminServed /\ call' = call
  BY <1>3, OneServed DEF AdminServed, Seen, OneServed
<1>4. CASE NextDay
  BY <1>4 DEF NextDay, Seen
<1>5. CASE UNCHANGED codesVars
  BY <1>5 DEF codesVars, Seen
<1>6. ASSUME NEW c \in Code, delete_code(c) \/ (\E d \in Durations : update_code(c, d))
                             \/ \E t \in Durations, max \in Limits : create_code(c, t, max)
      PROVE  Seen'
  BY <1>3, <1>6 DEF delete_code, update_code, create_code
<1>7. ASSUME NEW u \in User, delete_user_subscription(u)
                             \/ \E d \in Durations : update_user_subscription(u, d)
      PROVE  Seen'
  BY <1>3, <1>7 DEF delete_user_subscription, update_user_subscription
<1>. QED
  BY <1>1, <1>2, <1>4, <1>5, <1>6, <1>7 DEF CodesNext

ReplayInvariant == CodesTypeOK /\ ReplayAgrees /\ Seen

LEMMA ReplayStep ==
    ASSUME OneServed PROVE ReplayInvariant /\ [CodesNext]_codesVars => ReplayInvariant'
BY OneServed, CodesNextTypes, NextAgrees, NextSeen DEF ReplayInvariant

LEMMA ReplayInit == CodesInit => ReplayInvariant
<1> SUFFICES ASSUME CodesInit PROVE ReplayInvariant
  OBVIOUS
<1>1. \A u \in User : user[u] = NoSubscription /\ log[u] = <<>>
  BY DEF CodesInit
<1>2. ReplayAgrees
  BY <1>1, ReplayNone DEF ReplayAgrees
<1>3. Seen
  BY DEF CodesInit, Seen
<1>. QED
  BY <1>2, <1>3, InitTables DEF ReplayInvariant

\* The columns of every user are what _recalculate_subscription_for_user would
\* compute from the log and the present durations, whatever the admin changed and
\* in which order; of requests served one at a time.
THEOREM ReplayCorrect == ASSUME OneServed PROVE CodesSpec => []ReplayAgrees
<1>1. CodesInit => ReplayInvariant
  BY ReplayInit
<1>2. ReplayInvariant /\ [CodesNext]_codesVars => ReplayInvariant'
  BY ReplayStep
<1>3. ReplayInvariant => ReplayAgrees
  BY DEF ReplayInvariant
<1>. QED
  BY <1>1, <1>2, <1>3, PTL DEF CodesSpec

------------------------------------------------------------------------------
(* The uses of a code are counted, and limited.                            *)

\* The activations of code c there are.
Uses(c) == UNION {{u} \X RowsOf(u, c) : u \in User}

\* used_count of a code is the number of its activations and never above
\* max_activations.
UsesCounted ==
    \A c \in Code : Live(c) =>
        /\ IsFiniteSet(Uses(c)) /\ code[c].used = Cardinality(Uses(c))
        /\ code[c].used <= code[c].max

\* Who has read a code has read that it may still be used.
Offered ==
    \A w \in Worker : call[w] # NoCall => call[w].seen_code.used < call[w].seen_code.max

\* The same, read off the log.
UsesByRow ==
    \A c \in Code : Uses(c) =
        {t \in User \X Nat : t[2] \in 1..Len(log[t[1]]) /\ log[t[1]][t[2]].code = c}

LEMMA UsesAre == CodesTypeOK => UsesByRow
<1> SUFFICES ASSUME CodesTypeOK, NEW c \in Code
             PROVE  Uses(c) = {t \in User \X Nat :
                                 t[2] \in 1..Len(log[t[1]]) /\ log[t[1]][t[2]].code = c}
  BY DEF UsesByRow
<1>1. \A u \in User : RowsOf(u, c) = {i \in 1..Len(log[u]) : log[u][i].code = c}
  BY RowTypes DEF RowsOf
<1>2. \A u \in User : 1..Len(log[u]) \subseteq Nat
  BY RowTypes
<1>3. \A t : t \in Uses(c) <=> \E u \in User : \E i \in RowsOf(u, c) : t = <<u, i>>
  BY DEF Uses
<1>. QED
  BY <1>1, <1>2, <1>3

LEMMA UsesAreNext == ASSUME CodesTypeOK' PROVE UsesByRow'
<1>1. (CodesTypeOK => UsesByRow)'
  BY UsesAre, PTL
<1>. QED
  BY <1>1

\* No row comes, goes or changes its code.
LEMMA SameUses ==
    ASSUME CodesTypeOK, CodesTypeOK', NEW c \in Code,
           \A u \in User : /\ Len(log'[u]) = Len(log[u])
                           /\ \A i \in 1..Len(log[u]) : log'[u][i].code = log[u][i].code
    PROVE  Uses(c)' = Uses(c)
<1> DEFINE old  == {t \in User \X Nat : t[2] \in 1..Len(log[t[1]]) /\ log[t[1]][t[2]].code = c}
           next == {t \in User \X Nat : t[2] \in 1..Len(log'[t[1]]) /\ log'[t[1]][t[2]].code = c}
<1>1. old = next
  OBVIOUS
<1>2. Uses(c) = old /\ Uses(c)' = next
  BY UsesAre, UsesAreNext DEF UsesByRow
<1>. QED
  BY <1>1, <1>2

\* The activations of one user.
LEMMA UsesOfUser ==
    ASSUME CodesTypeOK, NEW u \in User, NEW c \in Code
    PROVE  /\ {u} \X RowsOf(u, c) \subseteq Uses(c)
           /\ Cardinality(RowsOf(u, c)) \in Nat
           /\ Cardinality({u} \X RowsOf(u, c)) = Cardinality(RowsOf(u, c))
<1> DEFINE rows == RowsOf(u, c)
<1>1. Len(log[u]) \in Nat /\ DOMAIN log[u] = 1..Len(log[u])
  BY RowTypes
<1>2. IsFiniteSet(1..Len(log[u])) /\ rows \subseteq 1..Len(log[u])
  BY <1>1, FS_Interval DEF RowsOf
<1>3. IsFiniteSet(rows)
  BY <1>2, FS_Subset
<1>4. {u} \X rows \subseteq Uses(c)
  BY DEF Uses
<1> HIDE DEF rows
<1>5. Cardinality(rows) \in Nat
  BY <1>3, FS_CardinalityType
<1>6. IsFiniteSet({u}) /\ Cardinality({u}) = 1
  BY FS_Singleton
<1>7. Cardinality({u} \X rows) = Cardinality({u}) * Cardinality(rows)
  BY <1>3, <1>6, FS_Product
<1>8. Cardinality({u} \X rows) = Cardinality(rows)
  BY <1>5, <1>6, <1>7
<1>. QED
  BY <1>4, <1>5, <1>8 DEF rows

\* A log that is cleared, but for a row the admin sets, gives back its uses.
LEMMA ClearedUses ==
    ASSUME CodesTypeOK, CodesTypeOK', UsesCounted, NEW u \in User, code' = cleared(u),
           \A v \in User : v # u => log'[v] = log[v],
           \A i \in 1..Len(log'[u]) : log'[u][i].code = ByAdmin
    PROVE  UsesCounted'
<1> SUFFICES ASSUME NEW c \in Code, code'[c] # NoCode
             PROVE  /\ IsFiniteSet(Uses(c)') /\ code'[c].used = Cardinality(Uses(c)')
                    /\ code'[c].used <= code'[c].max
  BY DEF UsesCounted, Live
<1> DEFINE mine == {u} \X RowsOf(u, c)
<1>1. Live(c) /\ code[c] \in CodeRow
  BY LiveRows, ClearedCodes DEF Live
<1>2. /\ IsFiniteSet(Uses(c)) /\ code[c].used = Cardinality(Uses(c))
      /\ code[c].used <= code[c].max
  BY <1>1 DEF UsesCounted
<1>3. code[c].used \in Nat /\ code[c].max \in Nat
  BY <1>1, CodeRows, CodesAssumption
<1>4. Uses(c)' = Uses(c) \ mine
  <2>1. RowsOf(u, c) = {i \in 1..Len(log[u]) : log[u][i].code = c}
    BY RowTypes DEF RowsOf
  <2>2. c # ByAdmin
    BY CodesAssumption
  <2>3. \A t : t \in Uses(c) <=>
            t \in User \X Nat /\ t[2] \in 1..Len(log[t[1]]) /\ log[t[1]][t[2]].code = c
    BY UsesAre DEF UsesByRow
  <2>4. \A t : t \in Uses(c)' <=>
            t \in User \X Nat /\ t[2] \in 1..Len(log'[t[1]]) /\ log'[t[1]][t[2]].code = c
    BY UsesAreNext DEF UsesByRow
  <2>5. \A t \in User \X Nat : t \in mine <=>
            t[1] = u /\ t[2] \in 1..Len(log[u]) /\ log[u][t[2]].code = c
    BY <2>1
  <2>6. \A t \in User \X Nat : t[1] \in User
    OBVIOUS
  <2> HIDE DEF mine
  <2>7. ASSUME NEW t PROVE t \in Uses(c)' <=> t \in Uses(c) /\ t \notin mine
    <3>1. CASE t \in User \X Nat /\ t[1] = u
      BY <2>2, <2>3, <2>4, <2>5, <3>1
    <3>2. CASE t \in User \X Nat /\ t[1] # u
      BY <2>3, <2>4, <2>5, <2>6, <3>2
    <3>3. CASE t \notin User \X Nat
      BY <2>3, <2>4, <3>3
    <3>. QED
      BY <3>1, <3>2, <3>3
  <2>. QED
    BY <2>7
<1>5. /\ mine \subseteq Uses(c) /\ Cardinality(RowsOf(u, c)) \in Nat
      /\ Cardinality(mine) = Cardinality(RowsOf(u, c))
  BY UsesOfUser
<1> HIDE DEF mine
<1>6. /\ IsFiniteSet(Uses(c)') /\ Cardinality(Uses(c)') \in Nat
      /\ Cardinality(Uses(c)') = Cardinality(Uses(c)) - Cardinality(RowsOf(u, c))
  <2> DEFINE all  == Uses(c)
             left == Uses(c)'
  <2>1. IsFiniteSet(all) /\ all \cap mine = mine /\ left = all \ mine
    BY <1>2, <1>4, <1>5
  <2> HIDE DEF all, left
  <2>2. /\ IsFiniteSet(all \ mine)
        /\ Cardinality(all \ mine) = Cardinality(all) - Cardinality(all \cap mine)
    BY <2>1, FS_Difference
  <2>3. Cardinality(left) \in Nat
    BY <2>1, <2>2, FS_CardinalityType
  <2>. QED
    BY <1>5, <2>1, <2>2, <2>3 DEF all, left
<1>7. /\ code'[c].used = Later(0, code[c].used - Cardinality(RowsOf(u, c)))
      /\ code'[c].max = code[c].max
  BY <1>1 DEF cleared, CodeRow
<1>. QED
  BY <1>2, <1>3, <1>5, <1>6, <1>7 DEF Later

\* A commit adds the one use it counts.
LEMMA CommitUses ==
    ASSUME CodesTypeOK, CodesTypeOK', UsesCounted, Seen, Offered,
           NEW w \in Worker, ActivationCommits(w)
    PROVE  UsesCounted'
<1> DEFINE a == call[w]
           new == Activated(a.seen_user, a.seen_code.duration)
           row == [code |-> a.code, at |-> today, granted |-> new]
           k == Len(log[a.user]) + 1
           here == <<a.user, k>>
<1>1. /\ a.user \in User /\ a.code \in Code /\ a.seen_code \in CodeRow
      /\ a.seen_code = code[a.code] /\ a.seen_code.used < a.seen_code.max
  BY CallTypes DEF ActivationCommits, Seen, Offered
<1>2. CASE UNCHANGED <<code, log>>
  BY <1>2 DEF UsesCounted, Uses, RowsOf, Live
<1>3. CASE Live(a.code) /\ ~UNCHANGED <<code, log>>
  <2>1. /\ code' = [code EXCEPT ![a.code].used = a.seen_code.used + 1]
        /\ log' = [log EXCEPT ![a.user] = Append(log[a.user], row)]
    BY <1>1, <1>3 DEF ActivationCommits, CodesTypeOK
  <2>2. row.code = a.code
    OBVIOUS
  <2>3. log[a.user] \in Seq(LogRow) /\ Len(log[a.user]) \in Nat
    BY <1>1, RowTypes
  <2> HIDE DEF row
  <2>4. /\ Len(log'[a.user]) = k /\ log'[a.user][k] = row
        /\ \A i \in 1..Len(log[a.user]) : log'[a.user][i] = log[a.user][i]
        /\ \A u \in User : u # a.user => log'[u] = log[u]
    <3>1. /\ log'[a.user] = Append(log[a.user], row)
          /\ \A u \in User : u # a.user => log'[u] = log[u]
      BY <1>1, <2>1 DEF CodesTypeOK
    <3> DEFINE rows == log[a.user]
               more == Append(rows, row)
    <3>2. rows \in Seq(LogRow) /\ Len(rows) \in Nat
      BY <2>3
    <3> HIDE DEF rows
    <3>3. Len(more) = Len(rows) + 1
      BY <3>2
    <3>4. more[Len(rows) + 1] = row
      BY <3>2
    <3>5. \A i \in 1..Len(rows) : more[i] = rows[i]
      BY <3>2
    <3> HIDE DEF more
    <3>6. log'[a.user] = more
      BY <3>1 DEF rows, more
    <3>. QED
      BY <3>1, <3>3, <3>4, <3>5, <3>6 DEF rows
  <2>5. k \in Nat /\ here \in User \X Nat /\ 1..k = 1..Len(log[a.user]) \cup {k}
        /\ k \notin 1..Len(log[a.user])
    <3> DEFINE n == Len(log[a.user])
    <3>1. n \in Nat /\ a.user \in User
      BY <1>1, <2>3
    <3> HIDE DEF n, a
    <3>2. 1..(n + 1) = 1..n \cup {n + 1} /\ n + 1 \notin 1..n /\ n + 1 \in Nat
      BY <3>1
    <3>. QED
      BY <3>1, <3>2 DEF n
  <2>6. ASSUME NEW c \in Code
        PROVE  /\ Uses(c)' = IF c = a.code THEN Uses(c) \cup {here} ELSE Uses(c)
               /\ here \notin Uses(c)
    <3>1. \A t : t \in Uses(c) <=>
              t \in User \X Nat /\ t[2] \in 1..Len(log[t[1]]) /\ log[t[1]][t[2]].code = c
      BY UsesAre DEF UsesByRow
    <3>2. \A t : t \in Uses(c)' <=>
              t \in User \X Nat /\ t[2] \in 1..Len(log'[t[1]]) /\ log'[t[1]][t[2]].code = c
      BY UsesAreNext DEF UsesByRow
    <3>3. here \notin Uses(c)
      BY <2>5, <3>1
    <3>4. \A t \in User \X Nat : t[1] \in User /\ (t = here <=> t[1] = a.user /\ t[2] = k)
      BY <2>5
    <3> HIDE DEF here, k
    <3>5. ASSUME NEW t
          PROVE  t \in Uses(c)' <=> t \in Uses(c) \/ (c = a.code /\ t = here)
      <4>1. CASE t \in User \X Nat /\ t[1] # a.user
        BY <2>4, <3>1, <3>2, <3>4, <4>1
      <4>2. CASE t \in User \X Nat /\ t[1] = a.user
        BY <2>2, <2>4, <2>5, <3>1, <3>2, <3>4, <4>2
      <4>3. CASE t \notin User \X Nat
        BY <2>5, <3>1, <3>2, <4>3
      <4>. QED
        BY <4>1, <4>2, <4>3
    <3>. QED
      BY <3>3, <3>5
  <2>7. ASSUME NEW c \in Code, code'[c] # NoCode
        PROVE  /\ IsFiniteSet(Uses(c)') /\ code'[c].used = Cardinality(Uses(c)')
               /\ code'[c].used <= code'[c].max
    <3> HIDE DEF here, k
    <3>1. CASE c # a.code
      <4>1. code'[c] = code[c]
        BY <1>1, <2>1, <3>1 DEF CodesTypeOK
      <4>. QED
        BY <2>6, <2>7, <3>1, <4>1 DEF UsesCounted, Live
    <3>2. CASE c = a.code
      <4>1. code[c] \in CodeRow /\ IsFiniteSet(Uses(c)) /\ code[c].used = Cardinality(Uses(c))
        BY <1>1, <1>3, <3>2, LiveRows DEF UsesCounted
      <4>2. code'[c].used = code[c].used + 1 /\ code'[c].max = code[c].max
        BY <1>1, <2>1, <3>2, <4>1 DEF CodesTypeOK, CodeRow
      <4>3. IsFiniteSet(Uses(c)') /\ Cardinality(Uses(c)') = Cardinality(Uses(c)) + 1
        BY <2>6, <3>2, <4>1, FS_AddElement
      <4>4. code[c].used \in Nat /\ code[c].max \in Nat /\ code[c].used < code[c].max
        BY <1>1, <3>2, <4>1, CodeRows, CodesAssumption
      <4>. QED
        BY <4>1, <4>2, <4>3, <4>4
    <3>. QED
      BY <3>1, <3>2
  <2>. QED
    BY <2>7 DEF UsesCounted, Live
<1>. QED
  BY <1>2, <1>3 DEF ActivationCommits

LEMMA CodeUses ==
    ASSUME CodesTypeOK, CodesTypeOK', UsesCounted, NEW c \in Code,
           \/ \E d \in Durations, max \in Limits : create_code(c, d, max)
           \/ \E d \in Durations : update_code(c, d)
           \/ delete_code(c)
    PROVE  UsesCounted'
<1>1. ASSUME NEW d \in Durations, NEW max \in Limits, create_code(c, d, max)
      PROVE  UsesCounted'
  <2>1. code' = [code EXCEPT ![c] = [duration |-> d, max |-> max, used |-> 0]]
        /\ log' = log
    BY <1>1 DEF create_code
  <2>2. \A x \in Code : Uses(x)' = Uses(x)
    BY <2>1 DEF Uses, RowsOf
  <2>3. Uses(c) = {}
    <3>1. UsersOf(c) = {}
      BY <1>1 DEF create_code, CodesTypeOK
    <3>. QED
      BY <3>1 DEF Uses, UsersOf
  <2>4. max \in Nat
    BY CodesAssumption
  <2>5. \A x \in Code : x # c => code'[x] = code[x]
    BY <2>1 DEF CodesTypeOK
  <2>6. code'[c].used = 0 /\ code'[c].max = max
    BY <2>1 DEF CodesTypeOK
  <2>. QED
    BY <2>2, <2>3, <2>4, <2>5, <2>6, FS_EmptySet DEF UsesCounted, Live
<1>2. ASSUME NEW d \in Durations, update_code(c, d) PROVE UsesCounted'
  <2>1. \A u \in User : /\ Len(log'[u]) = Len(log[u])
                        /\ \A i \in 1..Len(log[u]) : log'[u][i].code = log[u][i].code
    BY <1>2, UpdateRows
  <2>2. \A x \in Code : Uses(x)' = Uses(x)
    BY <2>1, SameUses
  <2>3. Live(c) /\ code[c] \in CodeRow /\ code' = [code EXCEPT ![c].duration = d]
    BY <1>2, LiveRows DEF update_code
  <2>4. ASSUME NEW x \in Code, code'[x] # NoCode
        PROVE  Live(x) /\ code'[x].used = code[x].used /\ code'[x].max = code[x].max
    BY <2>3, <2>4 DEF CodesTypeOK, CodeRow, Live
  <2>. QED
    BY <2>2, <2>4 DEF UsesCounted, Live
<1>3. ASSUME delete_code(c) PROVE UsesCounted'
  <2>1. log' = log /\ \A x \in Code : code'[x] # NoCode => code'[x] = code[x]
    BY <1>3 DEF delete_code, CodesTypeOK
  <2>2. \A x \in Code : Uses(x)' = Uses(x)
    BY <2>1 DEF Uses, RowsOf
  <2>. QED
    BY <2>1, <2>2 DEF UsesCounted, Live
<1>. QED
  BY <1>1, <1>2, <1>3

LEMMA UserUses ==
    ASSUME CodesTypeOK, CodesTypeOK', UsesCounted, NEW u \in User,
           \/ \E d \in Durations : update_user_subscription(u, d)
           \/ delete_user_subscription(u)
    PROVE  UsesCounted'
<1>1. ASSUME NEW d \in Durations, update_user_subscription(u, d) PROVE UsesCounted'
  <2>1. PICK new : /\ code' = cleared(u)
                   /\ log' = [log EXCEPT ![u] =
                                <<[code |-> ByAdmin, at |-> today, granted |-> new]>>]
    BY <1>1 DEF update_user_subscription
  <2>2. log'[u] = <<[code |-> ByAdmin, at |-> today, granted |-> new]>>
        /\ \A v \in User : v # u => log'[v] = log[v]
    BY <2>1 DEF CodesTypeOK
  <2>3. \A i \in 1..Len(log'[u]) : log'[u][i].code = ByAdmin
    BY <2>2
  <2>. QED
    BY <2>1, <2>2, <2>3, ClearedUses
<1>2. ASSUME delete_user_subscription(u) PROVE UsesCounted'
  <2>1. /\ code' = cleared(u) /\ log'[u] = <<>>
        /\ \A v \in User : v # u => log'[v] = log[v]
    BY <1>2 DEF delete_user_subscription, CodesTypeOK
  <2>2. \A i \in 1..Len(log'[u]) : log'[u][i].code = ByAdmin
    BY <2>1
  <2>. QED
    BY <2>1, <2>2, ClearedUses
<1>. QED
  BY <1>1, <1>2

LEMMA NextUses ==
    ASSUME CodesTypeOK, CodesTypeOK', UsesCounted, Seen, Offered, [CodesNext]_codesVars
    PROVE  UsesCounted'
<1>1. ASSUME UNCHANGED <<code, log>> PROVE UsesCounted'
  BY <1>1 DEF UsesCounted, Uses, RowsOf, Live
<1>2. ASSUME NEW w \in Worker, NEW u \in User, NEW c \in Code, ActivationReads(w, u, c)
      PROVE  UsesCounted'
  BY <1>1, <1>2 DEF ActivationReads
<1>3. CASE NextDay \/ UNCHANGED codesVars
  BY <1>1, <1>3 DEF NextDay, codesVars
<1>. QED
  BY <1>2, <1>3, CommitUses, CodeUses, UserUses DEF CodesNext

LEMMA NextOffered ==
    ASSUME CodesTypeOK, Offered, [CodesNext]_codesVars
    PROVE  Offered'
<1>1. ASSUME NEW w \in Worker, NEW u \in User, NEW c \in Code, ActivationReads(w, u, c)
      PROVE  Offered'
  <2> DEFINE a == [user |-> u, code |-> c, seen_user |-> user[u], seen_code |-> code[c]]
  <2>1. call' = [call EXCEPT ![w] = a] /\ code[c].used < code[c].max
    BY <1>1 DEF ActivationReads
  <2>2. a.seen_code = code[c]
    OBVIOUS
  <2> HIDE DEF a
  <2>. QED
    BY <2>1, <2>2 DEF Offered, CodesTypeOK
<1>2. ASSUME NEW w \in Worker, ActivationCommits(w) PROVE Offered'
  BY <1>2 DEF ActivationCommits, Offered, CodesTypeOK
<1>3. ASSUME UNCHANGED call PROVE Offered'
  BY <1>3 DEF Offered
<1>4. ASSUME NEW c \in Code, delete_code(c) \/ (\E d \in Durations : update_code(c, d))
                             \/ \E t \in Durations, max \in Limits : create_code(c, t, max)
      PROVE  Offered'
  BY <1>3, <1>4 DEF delete_code, update_code, create_code
<1>5. ASSUME NEW u \in User, delete_user_subscription(u)
                             \/ \E d \in Durations : update_user_subscription(u, d)
      PROVE  Offered'
  BY <1>3, <1>5 DEF delete_user_subscription, update_user_subscription
<1>6. CASE NextDay \/ UNCHANGED codesVars
  BY <1>3, <1>6 DEF NextDay, codesVars
<1>. QED
  BY <1>1, <1>2, <1>4, <1>5, <1>6 DEF CodesNext

LimitInvariant == CodesTypeOK /\ Seen /\ Offered /\ UsesCounted

\* used_count agrees with the activations there are and keeps to max_activations,
\* through activations, cleared users and codes that come and go, as long as the
\* activations are served one at a time: two that have read the last free use
\* both commit.
THEOREM LimitKept == ASSUME OneServed PROVE CodesSpec => []UsesCounted
<1>1. CodesInit => LimitInvariant
  <2> SUFFICES ASSUME CodesInit PROVE LimitInvariant
    OBVIOUS
  <2>1. UsesCounted
    BY DEF CodesInit, UsesCounted, Live
  <2>2. Offered /\ Seen
    BY DEF CodesInit, Offered, Seen
  <2>. QED
    BY <2>1, <2>2, InitTables DEF LimitInvariant
<1>2. LimitInvariant /\ [CodesNext]_codesVars => LimitInvariant'
  BY OneServed, CodesNextTypes, NextSeen, NextOffered, NextUses DEF LimitInvariant
<1>3. LimitInvariant => UsesCounted
  BY DEF LimitInvariant
<1>. QED
  BY <1>1, <1>2, <1>3, PTL DEF CodesSpec

------------------------------------------------------------------------------
(* A longer code shortens nobody's subscription.                           *)

\* sub loses nothing when it becomes new.
NoLoss(sub, new) == new.unlimited = sub.unlimited /\ new.until >= sub.until

LongerFor(rows, duration, longer) ==
    \A i \in 1..Len(rows) : rows[i].code # ByAdmin =>
        /\ longer[rows[i].code].unlimited = duration[rows[i].code].unlimited
        /\ ~duration[rows[i].code].unlimited =>
              longer[rows[i].code].days >= duration[rows[i].code].days

LEMMA AppliedGrows ==
    ASSUME NEW sub \in Subscription, NEW new \in Subscription, NoLoss(sub, new),
           NEW at \in Int, NEW d \in Durations, NEW e \in Durations,
           e.unlimited = d.unlimited, ~d.unlimited => e.days >= d.days
    PROVE  NoLoss(Applied(sub, at, d), Applied(new, at, e))
<1>1. d.days \in Int /\ e.days \in Int
  BY CodesAssumption
<1>2. Unlimited.until \in Int
  BY NullInt DEF Unlimited
<1>3. CASE d.unlimited
  BY <1>2, <1>3 DEF Applied, NoLoss
<1>4. CASE ~d.unlimited
  <2>1. Extended(new, e.days, at) >= Extended(sub, d.days, at)
    BY <1>1, <1>4, TrialAssumption
       DEF NoLoss, Subscription, Extended, IsActive, EffectiveEnd, Later
  <2>. QED
    BY <1>4, <2>1 DEF Applied, NoLoss
<1>. QED
  BY <1>3, <1>4

LEMMA ReplayGrows ==
    ASSUME NEW rows \in Seq(LogRow), NEW duration, NEW longer,
           Timed(rows, duration), Timed(rows, longer), LongerFor(rows, duration, longer)
    PROVE  NoLoss(Replayed(rows, duration), Replayed(rows, longer))
<1> DEFINE N == Len(rows)
           f == Steps(rows, duration)
           g == Steps(rows, longer)
           S == {i \in 0..N : NoLoss(f[i], g[i])}
<1>1. N \in Nat /\ \A i \in 1..N : rows[i] \in LogRow
  OBVIOUS
<1>2. \A i \in 0..N : f[i] \in Subscription /\ g[i] \in Subscription
  BY StepsTypes
<1>3. 0 \in S
  <2>1. f[0] = g[0] /\ f[0].until \in Int
    BY <1>1, <1>2, StepByStep DEF Subscription
  <2>. QED
    BY <1>1, <2>1 DEF NoLoss
<1>4. ASSUME NEW i \in 1..N, i - 1 \in S PROVE i \in S
  <2>1. f[i] = Step(f[i - 1], rows[i], duration) /\ g[i] = Step(g[i - 1], rows[i], longer)
    BY <1>1, StepByStep
  <2>2. f[i - 1] \in Subscription /\ g[i - 1] \in Subscription /\ NoLoss(f[i - 1], g[i - 1])
    BY <1>2, <1>4
  <2>3. rows[i].at \in Int /\ rows[i].granted.until \in Int
    BY <1>1 DEF LogRow, Subscription
  <2>4. NoLoss(f[i], g[i])
    <3>1. CASE rows[i].code = ByAdmin
      BY <2>1, <2>3, <3>1 DEF Step, NoLoss
    <3>2. CASE rows[i].code # ByAdmin
      <4>1. /\ duration[rows[i].code] \in Durations /\ longer[rows[i].code] \in Durations
            /\ longer[rows[i].code].unlimited = duration[rows[i].code].unlimited
            /\ ~duration[rows[i].code].unlimited =>
                  longer[rows[i].code].days >= duration[rows[i].code].days
        BY <1>1, <3>2 DEF Timed, LongerFor
      <4>2. /\ f[i] = Applied(f[i - 1], rows[i].at, duration[rows[i].code])
            /\ g[i] = Applied(g[i - 1], rows[i].at, longer[rows[i].code])
        BY <2>1, <3>2 DEF Step
      <4> HIDE DEF f, g
      <4>. QED
        BY <2>2, <2>3, <4>1, <4>2, AppliedGrows
    <3>. QED
      BY <3>1, <3>2
  <2>. QED
    BY <2>4
<1>5. 0..N \subseteq S
  <2> HIDE DEF S
  <2>. QED
    BY <1>1, <1>3, <1>4, UpTo
<1>. QED
  BY <1>1, <1>5 DEF Replayed

\* Only an update changes the duration of a code.
LEMMA OthersKeepDurations ==
    ASSUME CodesTypeOK, [CodesNext]_codesVars,
           ~\E c \in Code, d \in Durations : update_code(c, d),
           NEW c \in Code, Live(c), code'[c] # NoCode
    PROVE  code'[c].duration = code[c].duration
<1>1. CASE code' = code
  BY <1>1
<1>2. ASSUME NEW w \in Worker, ActivationCommits(w) PROVE code'[c].duration = code[c].duration
  <2>1. CASE UNCHANGED <<user, code, log>>
    BY <2>1
  <2>2. CASE code' = [code EXCEPT ![call[w].code].used = call[w].seen_code.used + 1]
    <3>1. code[c] \in CodeRow
      BY LiveRows
    <3>. QED
      BY <2>2, <3>1 DEF CodeRow, CodesTypeOK
  <2>. QED
    BY <1>2, <2>1, <2>2 DEF ActivationCommits
<1>3. ASSUME NEW x \in Code, NEW d \in Durations, NEW max \in Limits, create_code(x, d, max)
      PROVE  code'[c].duration = code[c].duration
  BY <1>3 DEF create_code, CodesTypeOK
<1>4. ASSUME NEW x \in Code, delete_code(x) PROVE code'[c].duration = code[c].duration
  BY <1>4 DEF delete_code, CodesTypeOK
<1>5. ASSUME NEW u \in User, code' = cleared(u) PROVE code'[c].duration = code[c].duration
  BY <1>5, ClearedCodes
<1>. QED
  BY <1>1, <1>2, <1>3, <1>4, <1>5
     DEF CodesNext, codesVars, ActivationReads, NextDay, update_user_subscription,
         delete_user_subscription

LEMMA LongerStep ==
    ASSUME ReplayInvariant, [CodesNext]_codesVars,
           NEW c \in Code, Live(c), code'[c] # NoCode,
           ~code[c].duration.unlimited, ~code'[c].duration.unlimited,
           code[c].duration.days < code'[c].duration.days,
           NEW u \in User
    PROVE  user'[u].unlimited = user[u].unlimited /\ user'[u].until >= user[u].until
<1>1. code[c].duration \in Durations /\ code[c].duration.days \in Int
  BY LiveRows, CodesAssumption DEF ReplayInvariant
<1>2. PICK x \in Code, d \in Durations : update_code(x, d)
  BY <1>1, OthersKeepDurations DEF ReplayInvariant
<1> DEFINE e == [LiveDurations EXCEPT ![x] = d]
<1>3. /\ \A y \in Code : Live(y) => code'[y].duration = e[y] /\ e[y] \in Durations
      /\ Timed(log[u], e)
  BY <1>2, UpdateTimes DEF ReplayInvariant
<1>4. \A y \in Code : y # x => code'[y] = code[y]
  BY <1>2 DEF update_code, ReplayInvariant, CodesTypeOK
<1>5. x = c
  BY <1>1, <1>4
<1>6. user' = [v \in User |-> IF v \in UsersOf(c) THEN Replayed(log[v], e) ELSE user[v]]
  BY <1>2, <1>5 DEF update_code, Recalculated
<1> HIDE DEF e
<1>7. user[u] \in Subscription /\ user[u].until \in Int
  BY DEF ReplayInvariant, CodesTypeOK, Subscription
<1>8. CASE u \notin UsersOf(c)
  BY <1>6, <1>7, <1>8
<1>9. CASE u \in UsersOf(c)
  <2>1. user'[u] = Replayed(log[u], e) /\ user[u] = Replayed(log[u], LiveDurations)
    BY <1>6, <1>9 DEF ReplayInvariant, ReplayAgrees
  <2>2. log[u] \in Seq(LogRow) /\ \A i \in 1..Len(log[u]) : log[u][i].code # ByAdmin =>
             log[u][i].code \in Code /\ Live(log[u][i].code)
    BY RowTypes DEF ReplayInvariant
  <2>3. \A y \in Code : Live(y) =>
            LiveDurations[y] = code[y].duration /\ LiveDurations[y] \in Durations
    BY LiveRows DEF ReplayInvariant
  <2>4. Timed(log[u], LiveDurations)
    BY <2>2, <2>3 DEF Timed
  <2>5. \A y \in Code : Live(y) =>
            /\ e[y].unlimited = LiveDurations[y].unlimited
            /\ ~LiveDurations[y].unlimited => e[y].days >= LiveDurations[y].days
    <3> SUFFICES ASSUME NEW y \in Code, Live(y)
                 PROVE  /\ e[y].unlimited = LiveDurations[y].unlimited
                        /\ ~LiveDurations[y].unlimited => e[y].days >= LiveDurations[y].days
      OBVIOUS
    <3>1. /\ e[y] = code'[y].duration /\ LiveDurations[y] = code[y].duration
          /\ e[y].days \in Int /\ LiveDurations[y].days \in Int
      BY <1>3, <2>3, CodesAssumption
    <3>2. CASE y # c
      BY <1>4, <1>5, <3>1, <3>2
    <3>3. CASE y = c
      <4>1. e[y].unlimited \in BOOLEAN /\ LiveDurations[y].unlimited \in BOOLEAN
        BY <1>3, <2>3, CodesAssumption
      <4>. QED
        BY <3>1, <3>3, <4>1
    <3>. QED
      BY <3>2, <3>3
  <2>6. LongerFor(log[u], LiveDurations, e)
    BY <2>2, <2>5 DEF LongerFor
  <2>7. NoLoss(Replayed(log[u], LiveDurations), Replayed(log[u], e))
    BY <1>3, <2>2, <2>4, <2>6, ReplayGrows
  <2>. QED
    BY <2>1, <2>7 DEF NoLoss
<1>. QED
  BY <1>8, <1>9

\* Of requests served one at a time, a code that is made longer shortens
\* nobody's subscription, whatever came before and after it in the log.
THEOREM LongerCorrect == ASSUME OneServed PROVE CodesSpec => LongerIsNoLoss
<1>1. CodesInit => ReplayInvariant
  BY ReplayInit
<1>2. ReplayInvariant /\ [CodesNext]_codesVars => ReplayInvariant'
  BY ReplayStep
<1>3. ReplayInvariant /\ [CodesNext]_codesVars =>
          [\A c \in Code :
              /\ Live(c) /\ code'[c] # NoCode
              /\ ~code[c].duration.unlimited /\ ~code'[c].duration.unlimited
              /\ code[c].duration.days < code'[c].duration.days
              => \A u \in User : user'[u].unlimited = user[u].unlimited
                                 /\ user'[u].until >= user[u].until]_codesVars
  BY LongerStep
<1>. QED
  BY <1>1, <1>2, <1>3, PTL DEF CodesSpec, LongerIsNoLoss

------------------------------------------------------------------------------
(* THE GATE                                                                *)

------------------------------------------------------------------------------
(* Types.                                                                  *)

LEMMA IdleKinds == Idle \notin Serving /\ Idle \notin Change
BY DEF Idle, Serving, Change

LEMMA EndsAreNumbers == Ends \subseteq Nat /\ Forever \in Ends /\ 0 \in Ends
BY GateAssumption DEF Ends, Forever

LEMMA InitTypes == ASSUME Init PROVE TypeOK
<1>1. recheck \in BOOLEAN
  BY DEF Init
<1>2. /\ end \in Ends /\ now \in 0..Horizon /\ revoked \in {"nobody", "clear", "chargeback"}
      /\ cookie \in [Browser -> Ends]
      /\ req \in [Request -> Serving \cup {Idle}]
      /\ change \in Change \cup {Idle}
  BY EndsAreNumbers, GateAssumption DEF Init
<1>3. coded \in BOOLEAN /\ unseen \in BOOLEAN
  BY DEF Init
<1>. QED
  BY <1>1, <1>2, <1>3 DEF TypeOK

LEMMA ReqTypes ==
    ASSUME TypeOK, NEW r \in Request, NEW row \in Serving \cup {Idle},
           req' = [req EXCEPT ![r] = row]
    PROVE  req' \in [Request -> Serving \cup {Idle}]
BY DEF TypeOK

LEMMA SendTypes ==
    ASSUME TypeOK, NEW r \in Request, NEW b \in Browser,
           NEW kind \in {"page", "login", "activate"}, Send(r, b, kind)
    PROVE  TypeOK'
<1> DEFINE row == [kind |-> kind, browser |-> b, session |-> cookie[b],
                   step |-> CASE kind = "page" -> "flags" [] kind = "login" -> "read"
                              [] OTHER -> "commit",
                   pending |-> FALSE, served |-> FALSE]
<1>1. row \in Serving
  <2>1. cookie[b] \in Ends
    BY DEF TypeOK
  <2>2. (CASE kind = "page" -> "flags" [] kind = "login" -> "read" [] OTHER -> "commit")
            \in {"flags", "read", "commit"}
    OBVIOUS
  <2>. QED
    BY <2>1, <2>2 DEF Serving
<1>2. req' = [req EXCEPT ![r] = row]
  BY DEF Send
<1>3. req' \in [Request -> Serving \cup {Idle}]
  BY <1>1, <1>2, ReqTypes
<1>. QED
  BY <1>3 DEF Send, TypeOK

LEMMA ServeTypes ==
    ASSUME TypeOK, NEW r \in Request, ServeStep(r)
    PROVE  TypeOK'
<1>1. req[r] # Idle
  BY DEF ServeStep, GateFlags, ReadsStatus, GateClears, ActivateCommits, ActivateMarks,
         Unrevokes, Respond, At
<1>2. req[r] \in Serving /\ end \in Ends /\ cookie \in [Browser -> Ends]
      /\ req \in [Request -> Serving \cup {Idle}]
  BY <1>1 DEF TypeOK
<1>3. \A step \in {"flags", "read", "clear", "commit", "mark", "unrevoke", "respond"} :
          Goto(r, step) => req' \in [Request -> Serving \cup {Idle}]
  <2>1. ASSUME NEW step \in {"flags", "read", "clear", "commit", "mark", "unrevoke", "respond"},
               Goto(r, step)
        PROVE  req' \in [Request -> Serving \cup {Idle}]
    <3>1. [req[r] EXCEPT !.step = step] \in Serving
      BY <1>2 DEF Serving
    <3>2. req' = [req EXCEPT ![r] = [req[r] EXCEPT !.step = step]]
      BY <2>1, <1>2 DEF Goto
    <3>. QED
      BY <3>1, <3>2, ReqTypes
  <2>. QED
    BY <2>1
<1>4. CASE GateFlags(r)
  <2>1. /\ [req[r] EXCEPT !.step = "respond"] \in Serving
        /\ [req[r] EXCEPT !.step = "respond", !.served = TRUE] \in Serving
        /\ [req[r] EXCEPT !.step = "read", !.pending = recheck] \in Serving
    BY <1>2 DEF Serving, TypeOK
  <2>2. PICK row \in Serving : req' = [req EXCEPT ![r] = row]
    BY <1>4, <2>1 DEF GateFlags
  <2>3. req' \in [Request -> Serving \cup {Idle}]
    BY <2>2, ReqTypes
  <2>. QED
    BY <1>4, <2>3 DEF GateFlags, TypeOK
<1>5. CASE ReadsStatus(r)
  <2>1. PICK step \in {"unrevoke", "clear", "respond"} :
            req' = [req EXCEPT ![r].session = end, ![r].served = Active(end), ![r].step = step]
    BY <1>5 DEF ReadsStatus
  <2>2. [req[r] EXCEPT !.session = end, !.served = Active(end), !.step = step] \in Serving
    <3>1. \A x \in BOOLEAN :
              [req[r] EXCEPT !.session = end, !.served = x, !.step = step] \in Serving
      BY <1>2 DEF Serving
    <3>2. Active(end) \in BOOLEAN
      BY DEF Active
    <3>. QED
      BY <3>1, <3>2
  <2>3. req' = [req EXCEPT ![r] =
                  [req[r] EXCEPT !.session = end, !.served = Active(end), !.step = step]]
    BY <1>2, <2>1
  <2>4. req' \in [Request -> Serving \cup {Idle}]
    BY <2>2, <2>3, ReqTypes
  <2>. QED
    BY <1>5, <2>4 DEF ReadsStatus, TypeOK
<1>6. CASE GateClears(r)
  <2>1. recheck' \in BOOLEAN /\ req' \in [Request -> Serving \cup {Idle}]
    BY <1>3, <1>6 DEF GateClears
  <2>. QED
    BY <1>6, <2>1 DEF GateClears, TypeOK
<1>7. ASSUME NEW e \in Ends, ActivateCommits(r, e) PROVE TypeOK'
  <2>1. [req[r] EXCEPT !.session = e, !.step = "mark"] \in Serving
    BY <1>2 DEF Serving
  <2>2. req' = [req EXCEPT ![r] = [req[r] EXCEPT !.session = e, !.step = "mark"]]
    BY <1>2, <1>7 DEF ActivateCommits
  <2>3. req' \in [Request -> Serving \cup {Idle}]
    BY <2>1, <2>2, ReqTypes
  <2>. QED
    BY <1>7, <2>3 DEF ActivateCommits, TypeOK
<1>8. CASE ActivateMarks(r)
  <2>1. recheck' \in BOOLEAN /\ req' \in [Request -> Serving \cup {Idle}]
    BY <1>3, <1>8 DEF ActivateMarks
  <2>. QED
    BY <1>8, <2>1 DEF ActivateMarks, TypeOK
<1>9. CASE Unrevokes(r)
  BY <1>3, <1>9 DEF Unrevokes, TypeOK
<1>10. CASE Respond(r)
  <2>1. cookie' \in [Browser -> Ends]
    BY <1>2, <1>10 DEF Respond, Serving
  <2>2. req' \in [Request -> Serving \cup {Idle}]
    BY <1>10, ReqTypes DEF Respond
  <2>. QED
    BY <1>10, <2>1, <2>2 DEF Respond, TypeOK
<1>. QED
  BY <1>4, <1>5, <1>6, <1>7, <1>8, <1>9, <1>10 DEF ServeStep

\* The next step of a change, by its kind.
LEMMA ChangeTypes ==
    ASSUME TypeOK, ChangeStep
    PROVE  TypeOK'
<1>1. change # Idle /\ change \in Change
  BY DEF ChangeStep, Mark, ClearReadsStatus, Unrevoke, Revoke, TypeOK
<1>2. change' \in Change \cup {Idle}
  BY <1>1 DEF ChangeStep, Mark, ClearReadsStatus, Unrevoke, Revoke, Change
<1>3. recheck' \in BOOLEAN
  BY DEF ChangeStep, Mark, ClearReadsStatus, Unrevoke, Revoke, TypeOK
<1>4. revoked' \in {"nobody", "clear", "chargeback"}
  BY <1>1 DEF ChangeStep, Mark, ClearReadsStatus, Unrevoke, Revoke, TypeOK, Change
<1>5. UNCHANGED <<end, now, cookie, req, coded, unseen>>
  BY DEF ChangeStep, Mark, ClearReadsStatus, Unrevoke, Revoke
<1>. QED
  BY <1>2, <1>3, <1>4, <1>5 DEF TypeOK

LEMMA NextTypes == ASSUME TypeOK, [Next]_vars PROVE TypeOK'
<1>1. ASSUME NEW kind \in {"grant", "clear", "chargeback"}, NEW e \in Ends, Commit(kind, e)
      PROVE  TypeOK'
  <2>1. [kind |-> kind, step |-> "mark"] \in Change
    BY DEF Change
  <2>2. coded' \in BOOLEAN
    BY <1>1 DEF Commit, TypeOK
  <2>. QED
    BY <1>1, <2>1, <2>2 DEF Commit, TypeOK
<1>2. CASE DayPasses
  BY <1>2, GateAssumption DEF DayPasses, TypeOK
<1>4. ASSUME NEW e \in Ends, UpdateCode(e) PROVE TypeOK'
  <2>1. unseen' \in BOOLEAN
    BY <1>4 DEF UpdateCode, TypeOK
  <2>. QED
    BY <1>4, <2>1 DEF UpdateCode, TypeOK
<1>3. CASE UNCHANGED vars
  BY <1>3 DEF vars, TypeOK
<1>. QED
  BY <1>1, <1>2, <1>3, <1>4, SendTypes, ServeTypes, ChangeTypes DEF Next

\* Every variable of the gate keeps its type.
THEOREM TypeCorrect == Spec => []TypeOK
<1>1. Init => TypeOK
  BY InitTypes
<1>2. TypeOK /\ [Next]_vars => TypeOK'
  BY NextTypes
<1>. QED
  BY <1>1, <1>2, PTL DEF Spec

------------------------------------------------------------------------------
(* Nobody is left blocked.                                                 *)

\* A change is served only while no activation is.
Apart == change # Idle => ~Writing

\* An activation that has committed and has not lifted the block yet.
HasCommitted(r) == At(r, {"activate"}, "mark") \/ At(r, {"activate"}, "unrevoke")

\* The admin's delete blocks a user who has nothing, ...
RevokesRight ==
    change # Idle /\ change.kind = "clear" /\ change.step = "revoke" => ~Active(end)

\* ... and who is blocked and has something again is about to be let in.
Lifts ==
    revoked = "clear" /\ Active(end) =>
        \/ change # Idle /\ change.kind = "grant"
        \/ \E r \in Request : HasCommitted(r)

\* The admin's delete empties the log, so that no change of a code gives a
\* blocked user anything before an activation does.
Emptied ==
    /\ change # Idle /\ change.kind = "clear" => ~coded
    /\ revoked = "clear" /\ coded => \E r \in Request : HasCommitted(r)

BlockInv == TypeOK /\ Apart /\ RevokesRight /\ Lifts /\ Emptied

LEMMA InitBlock == ASSUME Init PROVE BlockInv
BY InitTypes DEF Init, BlockInv, Apart, RevokesRight, Lifts, Emptied

LEMMA EndsOrdered ==
    ASSUME TypeOK, NEW e \in Ends, NEW f \in Ends, f <= e
    PROVE  Active(f) => Active(e)
BY EndsAreNumbers DEF TypeOK, Active

LEMMA BlockSend ==
    ASSUME BlockInv, ~Overlap, NEW r \in Request, NEW b \in Browser,
           NEW kind \in {"page", "login", "activate"}, Send(r, b, kind)
    PROVE  BlockInv'
<1>1. TypeOK'
  BY SendTypes DEF BlockInv
<1>2. UNCHANGED <<end, now, recheck, revoked, cookie, change, coded>>
  BY DEF Send
<1>3. req' = [req EXCEPT ![r] =
                 [kind |-> kind, browser |-> b, session |-> cookie[b],
                  step |-> CASE kind = "page" -> "flags" [] kind = "login" -> "read"
                             [] OTHER -> "commit",
                  pending |-> FALSE, served |-> FALSE]]
      /\ req[r] = Idle /\ (kind = "activate" => change = Idle)
  BY DEF Send
<1>4. /\ \A q \in Request : q # r => req'[q] = req[q]
      /\ req'[r].kind = kind
  BY <1>3 DEF BlockInv, TypeOK
<1>5. Apart'
  BY <1>2, <1>3, <1>4 DEF BlockInv, Apart, Writing
<1>6. \A q \in Request : HasCommitted(q) => HasCommitted(q)'
  BY <1>3, <1>4 DEF HasCommitted, At
<1>7. RevokesRight' /\ Lifts' /\ Emptied'
  BY <1>2, <1>6 DEF BlockInv, RevokesRight, Lifts, Emptied, Active
<1>. QED
  BY <1>1, <1>5, <1>7 DEF BlockInv

\* A request goes on with its kind.
LEMMA ServeReq ==
    ASSUME TypeOK, NEW r \in Request, ServeStep(r)
    PROVE  /\ req[r] # Idle /\ UNCHANGED <<now, change>>
           /\ \A q \in Request : q # r => req'[q] = req[q]
           /\ req'[r] # Idle => req'[r].kind = req[r].kind
<1>1. req[r] # Idle /\ UNCHANGED <<now, change>>
  BY DEF ServeStep, GateFlags, ReadsStatus, GateClears, ActivateCommits, ActivateMarks,
         Unrevokes, Respond, At
<1>2. req[r] \in Serving /\ req \in [Request -> Serving \cup {Idle}]
  BY <1>1 DEF TypeOK
<1>3. PICK row : req' = [req EXCEPT ![r] = row] /\ (row = Idle \/ row.kind = req[r].kind)
  <2>1. CASE GateFlags(r)
    <3>1. PICK row : /\ req' = [req EXCEPT ![r] = row]
                     /\ row \in {[req[r] EXCEPT !.step = "respond"],
                                 [req[r] EXCEPT !.step = "respond", !.served = TRUE],
                                 [req[r] EXCEPT !.step = "read", !.pending = recheck]}
      BY <2>1 DEF GateFlags
    <3>2. row.kind = req[r].kind
      BY <1>2, <3>1 DEF Serving
    <3>. QED
      BY <3>1, <3>2
  <2>2. CASE ReadsStatus(r)
    <3>1. PICK step : req' = [req EXCEPT ![r].session = end, ![r].served = Active(end),
                                         ![r].step = step]
      BY <2>2 DEF ReadsStatus
    <3>2. req' = [req EXCEPT ![r] =
                    [req[r] EXCEPT !.session = end, !.served = Active(end), !.step = step]]
      BY <1>2, <3>1
    <3>3. [req[r] EXCEPT !.session = end, !.served = Active(end), !.step = step].kind
              = req[r].kind
      BY <1>2 DEF Serving
    <3>. QED
      BY <3>2, <3>3
  <2>3. ASSUME NEW step, Goto(r, step)
        PROVE  req' = [req EXCEPT ![r] = [req[r] EXCEPT !.step = step]]
               /\ [req[r] EXCEPT !.step = step].kind = req[r].kind
    BY <1>2, <2>3 DEF Goto, Serving
  <2>4. CASE GateClears(r)
    BY <2>3, <2>4 DEF GateClears
  <2>5. ASSUME NEW e \in Ends, ActivateCommits(r, e)
        PROVE  \E row : req' = [req EXCEPT ![r] = row] /\ row.kind = req[r].kind
    <3>1. req' = [req EXCEPT ![r] = [req[r] EXCEPT !.session = e, !.step = "mark"]]
      BY <1>2, <2>5 DEF ActivateCommits
    <3>2. [req[r] EXCEPT !.session = e, !.step = "mark"].kind = req[r].kind
      BY <1>2 DEF Serving
    <3>. QED
      BY <3>1, <3>2
  <2>6. CASE ActivateMarks(r)
    BY <2>3, <2>6 DEF ActivateMarks
  <2>7. CASE Unrevokes(r)
    BY <2>3, <2>7 DEF Unrevokes
  <2>8. CASE Respond(r)
    BY <2>8 DEF Respond
  <2>. QED
    BY <2>1, <2>2, <2>4, <2>5, <2>6, <2>7, <2>8 DEF ServeStep
<1>. QED
  BY <1>1, <1>2, <1>3

LEMMA BlockServe ==
    ASSUME BlockInv, NEW r \in Request, ServeStep(r)
    PROVE  BlockInv'
<1>1. TypeOK'
  BY ServeTypes DEF BlockInv
<1>2. /\ req[r] # Idle /\ UNCHANGED <<now, change>>
      /\ \A q \in Request : q # r => req'[q] = req[q]
      /\ req'[r] # Idle => req'[r].kind = req[r].kind
  BY ServeReq DEF BlockInv
<1>3. req[r] \in Serving /\ req \in [Request -> Serving \cup {Idle}]
  BY <1>2 DEF BlockInv, TypeOK
<1>4. Apart'
  BY <1>2 DEF BlockInv, Apart, Writing
<1>5. \A q \in Request : q # r /\ HasCommitted(q) => HasCommitted(q)'
  BY <1>2 DEF HasCommitted, At
<1>6. CASE UNCHANGED <<end, revoked, coded>> /\ (HasCommitted(r) => HasCommitted(r)')
  <2>1. RevokesRight' /\ Lifts'
    BY <1>2, <1>5, <1>6 DEF BlockInv, RevokesRight, Lifts, Active
  <2>2. Emptied'
    BY <1>2, <1>5, <1>6 DEF BlockInv, Emptied
  <2>. QED
    BY <1>1, <1>4, <2>1, <2>2 DEF BlockInv
<1>7. CASE GateFlags(r) \/ ReadsStatus(r) \/ GateClears(r) \/ Respond(r)
  <2>1. UNCHANGED <<end, revoked, coded>> /\ ~HasCommitted(r)
    BY <1>7 DEF GateFlags, ReadsStatus, GateClears, Respond, HasCommitted, At
  <2>. QED
    BY <1>6, <2>1
<1>8. ASSUME NEW e \in Ends, ActivateCommits(r, e) PROVE BlockInv'
  <2>1. change = Idle
    BY <1>8 DEF ActivateCommits, At, BlockInv, Apart, Writing
  <2>2. [req[r] EXCEPT !.session = e, !.step = "mark"].step = "mark"
        /\ [req[r] EXCEPT !.session = e, !.step = "mark"] # Idle
    BY <1>3 DEF Serving, Idle
  <2>3. req'[r].step = "mark" /\ req'[r] # Idle
    <3>1. req' = [req EXCEPT ![r] = [req[r] EXCEPT !.session = e, !.step = "mark"]]
      BY <1>3, <1>8 DEF ActivateCommits
    <3>. QED
      BY <1>3, <2>2, <3>1
  <2>4. HasCommitted(r)'
    BY <1>2, <1>8, <2>3 DEF ActivateCommits, HasCommitted, At
  <2>. QED
    BY <1>1, <1>2, <1>4, <2>1, <2>4 DEF BlockInv, RevokesRight, Lifts, Emptied
<1>9. CASE ActivateMarks(r)
  <2>1. [req[r] EXCEPT !.step = "unrevoke"].step = "unrevoke"
        /\ [req[r] EXCEPT !.step = "unrevoke"] # Idle
    BY <1>3 DEF Serving, Idle
  <2>2. req'[r].step = "unrevoke" /\ req'[r] # Idle
    <3>1. req' = [req EXCEPT ![r] = [req[r] EXCEPT !.step = "unrevoke"]]
      BY <1>3, <1>9 DEF ActivateMarks, Goto
    <3>. QED
      BY <1>3, <2>1, <3>1
  <2>3. HasCommitted(r)' /\ UNCHANGED <<end, revoked, coded>>
    BY <1>2, <1>9, <2>2 DEF ActivateMarks, HasCommitted, At
  <2>. QED
    BY <1>6, <2>3
<1>10. CASE Unrevokes(r)
  BY <1>1, <1>2, <1>4, <1>10 DEF Unrevokes, BlockInv, RevokesRight, Lifts, Emptied, Active
<1>. QED
  BY <1>7, <1>8, <1>9, <1>10 DEF ServeStep

\* What is taken away leaves a blocked user with nothing, as before.
LEMMA BlockCommit ==
    ASSUME BlockInv, ~Overlap, NEW kind \in {"grant", "clear", "chargeback"}, NEW e \in Ends,
           Commit(kind, e)
    PROVE  BlockInv'
<1>1. TypeOK'
  BY NextTypes DEF BlockInv, Next
<1>2. /\ change = Idle /\ ~Writing /\ end' = e
      /\ change' = [kind |-> kind, step |-> "mark"]
      /\ kind # "grant" => e <= end
      /\ UNCHANGED <<now, revoked, req>>
  BY DEF Commit
<1>3. Apart' /\ RevokesRight'
  BY <1>2 DEF Apart, Writing, RevokesRight
<1>4. ~\E r \in Request : HasCommitted(r)
  BY <1>2 DEF HasCommitted, At, Writing
<1>5. kind # "grant" /\ Active(e) => Active(end)
  BY <1>2, EndsOrdered DEF BlockInv, TypeOK
<1>6. change' # Idle /\ change'.kind = kind
  BY <1>2 DEF Idle
<1>7. Lifts'
  BY <1>2, <1>4, <1>5, <1>6 DEF BlockInv, Lifts, Active
<1>8. Emptied'
  <2>1. (coded' => coded) /\ (kind = "clear" => ~coded')
    BY DEF Commit, BlockInv, TypeOK
  <2>. QED
    BY <1>2, <1>4, <1>6, <2>1 DEF BlockInv, Emptied
<1>. QED
  BY <1>1, <1>3, <1>7, <1>8 DEF BlockInv

LEMMA BlockChange ==
    ASSUME BlockInv, ChangeStep
    PROVE  BlockInv'
<1>1. TypeOK'
  BY ChangeTypes DEF BlockInv
<1>2. change # Idle /\ change \in Change /\ UNCHANGED <<end, now, req, coded>>
  BY DEF ChangeStep, Mark, ClearReadsStatus, Unrevoke, Revoke, BlockInv, TypeOK
<1>3. /\ Active(end)' = Active(end)
      /\ \A r \in Request : HasCommitted(r)' = HasCommitted(r)
      /\ Writing' = Writing
  BY <1>2 DEF Active, HasCommitted, At, Writing
<1>4. Apart'
  BY <1>2, <1>3 DEF BlockInv, Apart
<1>5. CASE Mark
  <2>1. /\ change' # Idle /\ change'.kind = change.kind /\ revoked' = revoked
        /\ ~(change'.kind = "clear" /\ change'.step = "revoke")
    BY <1>2, <1>5 DEF Mark, Change, Idle
  <2>. QED
    BY <1>1, <1>2, <1>3, <1>4, <2>1 DEF BlockInv, RevokesRight, Lifts, Emptied
<1>6. CASE ClearReadsStatus
  <2>1. /\ change' # Idle /\ change'.kind = change.kind /\ revoked' = revoked
        /\ change'.step = "revoke" => ~Active(end)
    BY <1>2, <1>6 DEF ClearReadsStatus, Change, Idle
  <2>. QED
    BY <1>1, <1>2, <1>3, <1>4, <2>1 DEF BlockInv, RevokesRight, Lifts, Emptied
<1>7. CASE Unrevoke
  BY <1>1, <1>4, <1>7 DEF Unrevoke, BlockInv, RevokesRight, Lifts, Emptied
<1>8. CASE Revoke
  <2>1. /\ change' = Idle /\ revoked' = change.kind
        /\ revoked' = "clear" => ~Active(end) /\ ~coded'
    BY <1>2, <1>8 DEF Revoke, BlockInv, RevokesRight, Emptied
  <2>. QED
    BY <1>1, <1>3, <1>4, <2>1 DEF BlockInv, RevokesRight, Lifts, Emptied
<1>. QED
  BY <1>5, <1>6, <1>7, <1>8 DEF ChangeStep

LEMMA BlockDay == ASSUME BlockInv, DayPasses PROVE BlockInv'
<1>1. TypeOK'
  BY NextTypes DEF BlockInv, Next
<1>2. UNCHANGED <<end, recheck, revoked, cookie, req, change, coded>> /\ now' = now + 1
  BY DEF DayPasses
<1>3. Active(end)' => Active(end)
  <2>1. end \in Nat /\ now \in Nat
    BY EndsAreNumbers DEF BlockInv, TypeOK
  <2>. QED
    BY <1>2, <2>1 DEF Active
<1>. QED
  BY <1>1, <1>2, <1>3
  DEF BlockInv, Apart, Writing, RevokesRight, Lifts, Emptied, HasCommitted, At

\* A code of a blocked user is changed only while its activation is served.
LEMMA BlockUpdate ==
    ASSUME BlockInv, NEW e \in Ends, UpdateCode(e)
    PROVE  BlockInv'
<1>1. TypeOK'
  BY NextTypes DEF BlockInv, Next
<1>2. coded /\ UNCHANGED <<now, recheck, revoked, cookie, req, change, coded>>
  BY DEF UpdateCode
<1>3. /\ ~(change # Idle /\ change.kind = "clear")
      /\ revoked = "clear" => \E r \in Request : HasCommitted(r)
  BY <1>2 DEF BlockInv, Emptied
<1>4. \A r \in Request : HasCommitted(r)' = HasCommitted(r)
  BY <1>2 DEF HasCommitted, At
<1>5. Apart' /\ RevokesRight' /\ Lifts' /\ Emptied'
  BY <1>2, <1>3, <1>4 DEF BlockInv, Apart, Writing, RevokesRight, Lifts, Emptied
<1>. QED
  BY <1>1, <1>5 DEF BlockInv

LEMMA NextBlock == ASSUME ~Overlap, BlockInv, [Next]_vars PROVE BlockInv'
<1>1. CASE UNCHANGED vars
  <2>1. TypeOK'
    BY <1>1, NextTypes DEF BlockInv
  <2>2. Apart' /\ RevokesRight' /\ Lifts' /\ Emptied'
    BY <1>1
    DEF vars, BlockInv, Apart, Writing, RevokesRight, Lifts, Emptied, HasCommitted, At, Active
  <2>. QED
    BY <2>1, <2>2 DEF BlockInv
<1>. QED
  BY <1>1, BlockSend, BlockServe, BlockCommit, BlockChange, BlockUpdate, BlockDay DEF Next

\* While changes do not overlap, the admin's delete leaves nobody blocked who
\* has a subscription: neither one left of it nor one given since.
THEOREM NobodyBlocked == ASSUME ~Overlap PROVE Spec => []NotBlocked
<1>1. Init => BlockInv
  BY InitBlock
<1>2. BlockInv /\ [Next]_vars => BlockInv'
  BY NextBlock
<1>3. BlockInv => NotBlocked
  BY DEF BlockInv, Lifts, NotBlocked, HasCommitted, At, Writing
<1>. QED
  BY <1>1, <1>2, <1>3, PTL DEF Spec

------------------------------------------------------------------------------
(* A change reaches the session.                                           *)

\* A session that says no more than the database, is going to be rechecked, or
\* may be from before a code was shortened.
Known(e) == \/ e <= end \/ ~Active(e) \/ unseen
            \/ recheck \/ (change # Idle /\ change.step = "mark")

SessionsKnown ==
    /\ (\A r \in Request : req[r] = Idle) => \A b \in Browser : Known(cookie[b])
    /\ \A r \in Request : req[r] # Idle => Known(req[r].session)

\* A page that found the recheck set has read the database before it clears it,
\* and nothing was taken away there since, but by a code that was shortened.
RecheckHeld(r) ==
    /\ At(r, {"page"}, "read") /\ req[r].pending => recheck
    /\ req[r] # Idle /\ req[r].step = "clear" =>
           req[r].kind = "page" /\ (req[r].session <= end \/ unseen) /\ recheck

ReachInv == TypeOK /\ SessionsKnown /\ \A r \in Request : RecheckHeld(r)

OneAtATime == (\A b, c \in Browser : b = c) /\ (\A r, q \in Request : r = q)

LEMMA KnownStays ==
    ASSUME TypeOK, TypeOK', NEW e \in Ends, Known(e), end' = end, unseen' = unseen,
           now <= now',
           recheck => recheck',
           change # Idle /\ change.step = "mark" =>
               recheck' \/ (change' # Idle /\ change'.step = "mark")
    PROVE  Known(e)'
<1>1. Active(e)' => Active(e)
  BY EndsAreNumbers DEF TypeOK, Active
<1>. QED
  BY <1>1 DEF Known

\* Steps of a change and of the clock leave the requests as they are.
LEMMA ReachKeeps ==
    ASSUME ReachInv, TypeOK', UNCHANGED <<end, cookie, req, unseen>>, now <= now',
           recheck => recheck',
           change # Idle /\ change.step = "mark" =>
               recheck' \/ (change' # Idle /\ change'.step = "mark")
    PROVE  ReachInv'
<1>1. \A e \in Ends : Known(e) => Known(e)'
  BY KnownStays DEF ReachInv
<1>2. /\ \A b \in Browser : cookie[b] \in Ends
      /\ \A r \in Request : req[r] # Idle => req[r].session \in Ends
  BY DEF ReachInv, TypeOK, Serving
<1>3. SessionsKnown'
  <2>1. (\A r \in Request : req'[r] = Idle) => \A b \in Browser : Known(cookie[b])'
    BY <1>1, <1>2 DEF ReachInv, SessionsKnown
  <2>2. \A r \in Request : req'[r] # Idle => Known(req[r].session)'
    BY <1>1, <1>2 DEF ReachInv, SessionsKnown
  <2>. QED
    BY <2>1, <2>2 DEF SessionsKnown
<1>4. \A r \in Request : RecheckHeld(r)'
  BY DEF ReachInv, RecheckHeld, At
<1>. QED
  BY <1>3, <1>4 DEF ReachInv

LEMMA ReachChange == ASSUME ReachInv, ChangeStep PROVE ReachInv'
<1>1. TypeOK' /\ change # Idle /\ change \in Change /\ UNCHANGED <<end, now, cookie, req, unseen>>
  BY ChangeTypes DEF ChangeStep, Mark, ClearReadsStatus, Unrevoke, Revoke, ReachInv, TypeOK
<1>2. now <= now'
  BY <1>1, GateAssumption DEF ReachInv, TypeOK
<1>3. recheck => recheck'
  BY DEF ChangeStep, Mark, ClearReadsStatus, Unrevoke, Revoke
<1>4. change.step = "mark" => recheck'
  BY DEF ChangeStep, Mark, ClearReadsStatus, Unrevoke, Revoke
<1>. QED
  BY <1>1, <1>2, <1>3, <1>4, ReachKeeps

\* A change begins when no recheck is due: no page is about to clear it.
LEMMA ReachCommit ==
    ASSUME ReachInv, ~Overlap, NEW kind \in {"grant", "clear", "chargeback"}, NEW e \in Ends,
           Commit(kind, e)
    PROVE  ReachInv'
<1>1. TypeOK'
  BY NextTypes DEF ReachInv, Next
<1>2. ~recheck /\ UNCHANGED <<now, recheck, revoked, cookie, req, unseen>>
      /\ change' = [kind |-> kind, step |-> "mark"]
  BY DEF Commit
<1>3. change' # Idle /\ change'.step = "mark"
  BY <1>2 DEF Idle
<1>4. SessionsKnown'
  BY <1>3 DEF SessionsKnown, Known
<1>5. \A r \in Request : RecheckHeld(r)'
  BY <1>2 DEF ReachInv, RecheckHeld, At
<1>. QED
  BY <1>1, <1>4, <1>5 DEF ReachInv

LEMMA ReachSend ==
    ASSUME ReachInv, OneAtATime, NEW r \in Request, NEW b \in Browser,
           NEW kind \in {"page", "login", "activate"}, Send(r, b, kind)
    PROVE  ReachInv'
<1>1. TypeOK'
  BY SendTypes DEF ReachInv
<1>2. PICK step \in {"flags", "read", "commit"} :
          req' = [req EXCEPT ![r] =
                    [kind |-> kind, browser |-> b, session |-> cookie[b],
                     step |-> step, pending |-> FALSE, served |-> FALSE]]
  BY DEF Send
<1>3. req[r] = Idle /\ UNCHANGED <<end, now, recheck, revoked, cookie, change, unseen>>
  BY DEF Send
<1>4. /\ req'[r] # Idle /\ req'[r].session = cookie[b] /\ req'[r].pending = FALSE
      /\ req'[r].step # "clear"
  BY <1>2 DEF ReachInv, TypeOK, Idle
<1>5. \A q \in Request : q = r
  BY DEF OneAtATime
<1>6. Known(cookie[b])'
  BY <1>3, <1>5 DEF ReachInv, SessionsKnown, Known, Active
<1>7. SessionsKnown'
  BY <1>3, <1>4, <1>5, <1>6 DEF SessionsKnown
<1>8. \A q \in Request : RecheckHeld(q)'
  BY <1>4, <1>5 DEF RecheckHeld, At
<1>. QED
  BY <1>1, <1>7, <1>8 DEF ReachInv

\* A request that is still being served, alone.
LEMMA ReachOne ==
    ASSUME TypeOK', OneAtATime, NEW r \in Request, req'[r] # Idle,
           Known(req[r].session)', RecheckHeld(r)'
    PROVE  ReachInv'
<1>1. \A q \in Request : q = r
  BY DEF OneAtATime
<1>. QED
  BY <1>1 DEF ReachInv, SessionsKnown

LEMMA ReachServe ==
    ASSUME ReachInv, OneAtATime, NEW r \in Request, ServeStep(r)
    PROVE  ReachInv'
<1>1. TypeOK'
  BY ServeTypes DEF ReachInv
<1>2. /\ req[r] # Idle /\ UNCHANGED <<now, change>>
      /\ req'[r] # Idle => req'[r].kind = req[r].kind
  BY ServeReq DEF ReachInv
<1>3. req[r] \in Serving /\ req \in [Request -> Serving \cup {Idle}] /\ cookie \in [Browser -> Ends]
  BY <1>2 DEF ReachInv, TypeOK
<1>4. Known(req[r].session) /\ RecheckHeld(r)
  BY <1>2 DEF ReachInv, SessionsKnown
<1>5. CASE GateFlags(r)
  <2>1. PICK row : /\ req' = [req EXCEPT ![r] = row]
                   /\ row \in {[req[r] EXCEPT !.step = "respond"],
                               [req[r] EXCEPT !.step = "respond", !.served = TRUE],
                               [req[r] EXCEPT !.step = "read", !.pending = recheck]}
    BY <1>5 DEF GateFlags
  <2>2. /\ row # Idle /\ row.session = req[r].session
        /\ row.step = "respond" \/ (row.step = "read" /\ row.pending = recheck)
    BY <1>3, <2>1 DEF Serving, Idle
  <2>3. req'[r] = row
    BY <1>3, <2>1
  <2>4. UNCHANGED <<end, now, recheck, change, unseen>>
    BY <1>5 DEF GateFlags
  <2>5. Known(req[r].session)'
    BY <1>4, <2>2, <2>3, <2>4 DEF Known, Active
  <2>6. RecheckHeld(r)'
    BY <2>2, <2>3, <2>4 DEF RecheckHeld, At
  <2>. QED
    BY <1>1, <2>2, <2>3, <2>5, <2>6, ReachOne
<1>6. CASE ReadsStatus(r)
  <2>1. PICK step, on : /\ req' = [req EXCEPT ![r].session = end, ![r].served = on, ![r].step = step]
                        /\ step = IF req[r].kind = "login" THEN "unrevoke"
                                  ELSE IF req[r].pending THEN "clear" ELSE "respond"
    BY <1>6 DEF ReadsStatus
  <2>2. req' = [req EXCEPT ![r] = [req[r] EXCEPT !.session = end, !.served = on, !.step = step]]
    BY <1>3, <2>1
  <2>3. /\ [req[r] EXCEPT !.session = end, !.served = on, !.step = step].session = end
        /\ [req[r] EXCEPT !.session = end, !.served = on, !.step = step].step = step
        /\ [req[r] EXCEPT !.session = end, !.served = on, !.step = step] # Idle
    BY <1>3 DEF Serving, Idle
  <2>4. req'[r] # Idle /\ req'[r].session = end /\ req'[r].step = step
    BY <1>3, <2>2, <2>3
  <2>5. UNCHANGED <<end, now, recheck, change>> /\ At(r, {"page", "login"}, "read")
    BY <1>6 DEF ReadsStatus
  <2>6. Known(req[r].session)'
    BY <2>4, <2>5, EndsAreNumbers DEF Known, ReachInv, TypeOK
  <2>7. step = "clear" => req[r].kind = "page" /\ recheck
    BY <1>4, <2>1, <2>5 DEF RecheckHeld, At
  <2>8. RecheckHeld(r)'
    <3>1. step # "read"
      BY <2>1
    <3>2. end <= end
      BY EndsAreNumbers DEF ReachInv, TypeOK
    <3>. QED
      BY <1>2, <2>4, <2>5, <2>7, <3>1, <3>2 DEF RecheckHeld, At
  <2>. QED
    BY <1>1, <2>4, <2>6, <2>8, ReachOne
<1>7. ASSUME NEW step \in {"unrevoke", "respond"}, Goto(r, step)
      PROVE  req'[r] # Idle /\ req'[r].step = step /\ req'[r].session = req[r].session
  <2>1. /\ [req[r] EXCEPT !.step = step] # Idle
        /\ [req[r] EXCEPT !.step = step].step = step
        /\ [req[r] EXCEPT !.step = step].session = req[r].session
    BY <1>3 DEF Serving, Idle
  <2>2. req' = [req EXCEPT ![r] = [req[r] EXCEPT !.step = step]]
    BY <1>3, <1>7 DEF Goto
  <2>. QED
    BY <1>3, <2>1, <2>2
<1>8. CASE GateClears(r)
  <2>1. req'[r] # Idle /\ req'[r].step = "respond" /\ req'[r].session = req[r].session
    BY <1>7, <1>8 DEF GateClears
  <2>2. (req[r].session <= end \/ unseen) /\ UNCHANGED <<end, unseen>>
    BY <1>4, <1>8 DEF GateClears, RecheckHeld, At
  <2>3. Known(req[r].session)'
    BY <2>1, <2>2 DEF Known
  <2>4. RecheckHeld(r)'
    BY <2>1 DEF RecheckHeld, At
  <2>. QED
    BY <1>1, <2>1, <2>3, <2>4, ReachOne
<1>9. ASSUME NEW e \in Ends, ActivateCommits(r, e) PROVE ReachInv'
  <2>1. req' = [req EXCEPT ![r] = [req[r] EXCEPT !.session = e, !.step = "mark"]] /\ end' = e
    BY <1>3, <1>9 DEF ActivateCommits
  <2>2. /\ [req[r] EXCEPT !.session = e, !.step = "mark"] # Idle
        /\ [req[r] EXCEPT !.session = e, !.step = "mark"].session = e
        /\ [req[r] EXCEPT !.session = e, !.step = "mark"].step = "mark"
    BY <1>3 DEF Serving, Idle
  <2>3. req'[r] # Idle /\ req'[r].session = e /\ req'[r].step = "mark"
    BY <1>3, <2>1, <2>2
  <2>4. Known(req[r].session)'
    BY <2>1, <2>3, EndsAreNumbers DEF Known
  <2>5. RecheckHeld(r)'
    BY <2>3 DEF RecheckHeld, At
  <2>. QED
    BY <1>1, <2>3, <2>4, <2>5, ReachOne
<1>10. CASE ActivateMarks(r)
  <2>1. req'[r] # Idle /\ req'[r].step = "unrevoke" /\ recheck'
    BY <1>7, <1>10 DEF ActivateMarks
  <2>2. Known(req[r].session)' /\ RecheckHeld(r)'
    BY <2>1 DEF Known, RecheckHeld, At
  <2>. QED
    BY <1>1, <2>1, <2>2, ReachOne
<1>11. CASE Unrevokes(r)
  <2>1. /\ req'[r] # Idle /\ req'[r].step = "respond" /\ req'[r].session = req[r].session
        /\ UNCHANGED <<end, now, recheck, change, unseen>>
    BY <1>2, <1>7, <1>11 DEF Unrevokes
  <2>2. Known(req[r].session)'
    BY <1>4, <2>1 DEF Known, Active
  <2>3. RecheckHeld(r)'
    BY <2>1 DEF RecheckHeld, At
  <2>. QED
    BY <1>1, <2>1, <2>2, <2>3, ReachOne
<1>12. CASE Respond(r)
  <2>1. /\ req' = [req EXCEPT ![r] = Idle]
        /\ cookie' = [cookie EXCEPT ![req[r].browser] = req[r].session]
        /\ UNCHANGED <<end, now, recheck, change, unseen>>
    BY <1>2, <1>12 DEF Respond
  <2>2. \A q \in Request : q = r /\ req'[q] = Idle
    BY <1>3, <2>1 DEF OneAtATime
  <2>3. \A b \in Browser : cookie'[b] = req[r].session
    BY <1>3, <2>1 DEF OneAtATime, Serving
  <2>4. \A b \in Browser : Known(cookie[b])'
    BY <1>4, <2>1, <2>3 DEF Known, Active
  <2>5. \A q \in Request : RecheckHeld(q)'
    BY <2>2 DEF RecheckHeld, At
  <2>. QED
    BY <1>1, <2>2, <2>4, <2>5 DEF ReachInv, SessionsKnown
<1>. QED
  BY <1>5, <1>6, <1>8, <1>9, <1>10, <1>11, <1>12 DEF ServeStep

\* A code that is changed gives a later end, or is noted.
LEMMA ReachUpdate ==
    ASSUME ReachInv, NEW e \in Ends, UpdateCode(e)
    PROVE  ReachInv'
<1>1. TypeOK'
  BY NextTypes DEF ReachInv, Next
<1>2. UNCHANGED <<now, recheck, revoked, cookie, req, change>> /\ end' = e
      /\ unseen' = (unseen \/ e < end)
  BY DEF UpdateCode
<1>3. unseen' \/ end <= end'
  <2>1. unseen' \/ ~(e < end)
    BY <1>2
  <2>2. ~(e < end) => end <= e
    BY EndsAreNumbers DEF ReachInv, TypeOK
  <2>. QED
    BY <1>2, <2>1, <2>2
<1>4. \A f \in Ends : f <= end => f <= end' \/ unseen'
  BY <1>1, <1>3, EndsAreNumbers DEF ReachInv, TypeOK
<1>5. unseen => unseen'
  BY <1>2
<1>6. \A f \in Ends : Known(f) => Known(f)'
  BY <1>2, <1>4, <1>5 DEF Known, Active
<1>7. /\ \A b \in Browser : cookie[b] \in Ends
      /\ \A r \in Request : req[r] # Idle => req[r].session \in Ends
  BY DEF ReachInv, TypeOK, Serving
<1>8. SessionsKnown'
  <2>1. (\A r \in Request : req'[r] = Idle) => \A b \in Browser : Known(cookie[b])'
    BY <1>2, <1>6, <1>7 DEF ReachInv, SessionsKnown
  <2>2. \A r \in Request : req'[r] # Idle => Known(req[r].session)'
    BY <1>2, <1>6, <1>7 DEF ReachInv, SessionsKnown
  <2>. QED
    BY <1>2, <2>1, <2>2 DEF SessionsKnown
<1>9. \A r \in Request : RecheckHeld(r)'
  <2>1. \A r \in Request : At(r, {"page"}, "read") /\ req[r].pending => recheck
    BY DEF ReachInv, RecheckHeld
  <2>2. ASSUME NEW r \in Request, req[r] # Idle, req[r].step = "clear"
        PROVE  req[r].kind = "page" /\ recheck /\ (req[r].session <= end' \/ unseen')
    BY <1>4, <1>5, <1>7, <2>2 DEF ReachInv, RecheckHeld
  <2>. QED
    BY <1>2, <2>1, <2>2 DEF RecheckHeld, At
<1>. QED
  BY <1>1, <1>8, <1>9 DEF ReachInv

LEMMA NextReach == ASSUME ~Overlap, OneAtATime, ReachInv, [Next]_vars PROVE ReachInv'
<1>1. CASE UNCHANGED vars \/ DayPasses
  <2>1. TypeOK'
    BY <1>1, NextTypes DEF ReachInv, Next
  <2>2. UNCHANGED <<end, recheck, cookie, req, change, unseen>> /\ now <= now'
    BY <1>1, GateAssumption DEF vars, DayPasses, ReachInv, TypeOK
  <2>. QED
    BY <2>1, <2>2, ReachKeeps
<1>. QED
  BY <1>1, ReachSend, ReachServe, ReachCommit, ReachChange, ReachUpdate DEF Next

\* While changes that flag the user do not overlap, and the user has one browser
\* that asks for one page at a time, the only change that leaves a session
\* behind which lets the user in for longer than the database says is a code
\* that was shortened (update_code sets no flag), and until the next read only.
THEOREM Reaches == ASSUME ~Overlap, OneAtATime PROVE Spec => []ChangeReaches
<1>1. Init => ReachInv
  <2>1. SUFFICES ASSUME Init PROVE ReachInv
    OBVIOUS
  <2>2. end \in Nat /\ \A b \in Browser : cookie[b] = 0
    BY <2>1, EndsAreNumbers DEF Init
  <2>3. \A b \in Browser : Known(cookie[b])
    BY <2>2 DEF Known
  <2>4. \A r \in Request : req[r] = Idle
    BY <2>1 DEF Init
  <2>. QED
    BY <2>1, <2>3, <2>4, InitTypes DEF ReachInv, SessionsKnown, RecheckHeld, At
<1>2. ReachInv /\ [Next]_vars => ReachInv'
  BY NextReach
<1>3. ReachInv => ChangeReaches
  <2>1. SUFFICES ASSUME ReachInv, Quiet, ~recheck, ~unseen, NEW b \in Browser, Active(cookie[b])
                 PROVE  Active(end)
    BY DEF ChangeReaches
  <2>2. cookie[b] <= end
    BY <2>1 DEF ReachInv, SessionsKnown, Quiet, Known
  <2>3. cookie[b] \in Ends /\ end \in Ends
    BY <2>1 DEF ReachInv, TypeOK
  <2>. QED
    BY <2>1, <2>2, <2>3, EndsOrdered DEF ReachInv
<1>. QED
  BY <1>1, <1>2, <1>3, PTL DEF Spec

==============================================================================
