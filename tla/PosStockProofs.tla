---------------------------- MODULE PosStockProofs ----------------------------
(***************************************************************************)
(* Proofs about the stock requests of PosStock, for any workers, variants, *)
(* baskets and sheets: the row locks are taken without a deadlock among    *)
(* requests, the interleaved requests implement the stock book, and the    *)
(* history forgets the oldest actions only.                                *)
(***************************************************************************)
EXTENDS PosStock, SequenceTheorems, FiniteSetTheorems, WellFoundedInduction, TLAPS

\* What a request has not begun with or does not use is blank; the phases of
\* the trim are an action's, with every row locked.
Tidy ==
    \A w \in Worker :
       /\ at[w] = "idle" => held[w] = {} /\ todo[w] = {} /\ undoes[w] = 0
       /\ at[w] \in {"trim", "write"} => IsAction(w) /\ todo[w] = {}
       /\ at[w] # "write" => doomed[w] = {}
       /\ doomed[w] \subseteq DOMAIN history

\* The rows a request has locked are below those it has still to lock.
Ascending ==
    \A w \in Worker : effect[w] # "none" => \A h \in held[w], i \in todo[w] : h < i

\* A row is locked by one request.
Exclusive == \A w, x \in Worker : w # x => held[w] \cap held[x] = {}

\* What a request is going to write is still right when it writes it.
Current ==
    \A w \in Worker : \A v \in held[w] :
       new[w][v] = Book!After(effect[w], stock[v], lines[w][v])

\* No line is forgotten.
Covers == \A w \in Worker : Book!Named(lines[w]) \cap Row \subseteq held[w] \cup todo[w]

\* Where the lines come from.
Origins ==
    \A w \in Worker :
       /\ undoes[w] # 0 => /\ effect[w] = Book!Inverse(history[undoes[w]].effect)
                           /\ lines[w] = history[undoes[w]].lines
       /\ IsAction(w) => lines[w] \in Baskets
       /\ effect[w] = "set" => lines[w] \in Sheets /\ undoes[w] = 0
       /\ effect[w] = "none" => lines[w] = Blank /\ undoes[w] = 0

IInv == TypeOK /\ Tidy /\ Ascending /\ Exclusive /\ Current /\ Covers /\ Origins

-----------------------------------------------------------------------------
(* Lemmas about the book's operators.                                      *)

\* A quantity after a line is a quantity.
LEMMA AfterType ==
    ASSUME NEW e \in Book!Effect, NEW s \in Int, NEW n \in Int \cup {Unset}
    PROVE  Book!After(e, s, n) \in Int
<1>1. e \in {"take", "add", "set", "none"}
  BY DEF Book!Effect
<1>2. CASE n = Unset
  BY <1>2 DEF Book!After
<1>3. CASE n # Unset
  <2>1. n \in Int
    BY <1>3
  <2>2. QED
    BY <1>1, <1>3, <2>1 DEF Book!After
<1>4. QED
  BY <1>2, <1>3

\* What is above a quantity the variant may have is one as well.
LEMMA QuantityGrows ==
    ASSUME NEW v \in Row, NEW s \in Quantity(v), NEW n \in Int, s <= n
    PROVE  n \in Quantity(v)
<1>1. s \in Int /\ (\/ s >= 0
                    \/ \E x \in Sheets : x[v] # Unset /\ x[v] <= s
                    \/ \E o \in Opening : o[v] <= s)
  BY DEF Quantity
<1>2. CASE s >= 0
  BY <1>1, <1>2 DEF Quantity
<1>3. ASSUME NEW x \in Sheets, x[v] # Unset, x[v] <= s PROVE n \in Quantity(v)
  <2>1. x[v] \in Int
    BY <1>3, StockAssumption DEF Book!Lines
  <2>2. x[v] <= n
    BY <1>1, <1>3, <2>1
  <2>3. QED
    BY <1>3, <2>2 DEF Quantity
<1>4. ASSUME NEW o \in Opening, o[v] <= s PROVE n \in Quantity(v)
  <2>1. o[v] \in Int
    BY StockAssumption
  <2>2. o[v] <= n
    BY <1>1, <1>4, <2>1
  <2>3. QED
    BY <2>2 DEF Quantity
<1>5. QED
  BY <1>1, <1>2, <1>3, <1>4

\* What is taken is cut off at zero, what is added is not less than before.
LEMMA ActionQuantity ==
    ASSUME NEW v \in Row, NEW s \in Quantity(v), NEW e \in {"take", "add"},
           NEW n \in Nat \cup {Unset}
    PROVE  Book!After(e, s, n) \in Quantity(v)
<1>1. s \in Int
  BY DEF Quantity
<1>2. CASE n = Unset
  BY <1>2 DEF Book!After
<1>3. CASE n # Unset
  <2>1. n \in Nat
    BY <1>3
  <2>2. CASE e = "take"
    <3>1. Book!After(e, s, n) = IF n > s THEN 0 ELSE s - n
      BY <1>3, <2>2 DEF Book!After
    <3>2. Book!After(e, s, n) \in Int /\ Book!After(e, s, n) >= 0
      BY <1>1, <2>1, <3>1
    <3>3. QED
      BY <3>2 DEF Quantity
  <2>3. CASE e = "add"
    <3>1. Book!After(e, s, n) = s + n
      BY <1>3, <2>3 DEF Book!After
    <3>2. s + n \in Int /\ s <= s + n
      BY <1>1, <2>1
    <3>3. QED
      BY <3>1, <3>2, QuantityGrows
  <2>4. QED
    BY <2>2, <2>3
<1>4. QED
  BY <1>2, <1>3

\* What is counted is what a sheet says.
LEMMA CountQuantity ==
    ASSUME NEW v \in Row, NEW s \in Quantity(v), NEW x \in Sheets
    PROVE  Book!After("set", s, x[v]) \in Quantity(v)
<1>1. x[v] \in Int \cup {Unset}
  BY StockAssumption DEF Book!Lines
<1>2. CASE x[v] = Unset
  BY <1>2 DEF Book!After
<1>3. CASE x[v] # Unset
  <2>1. Book!After("set", s, x[v]) = x[v]
    BY <1>3 DEF Book!After
  <2>2. x[v] \in Int /\ x[v] <= x[v]
    BY <1>1, <1>3
  <2>3. QED
    BY <1>3, <2>1, <2>2 DEF Quantity
<1>4. QED
  BY <1>2, <1>3

\* What is in stock to begin with.
LEMMA OpeningQuantity ==
    ASSUME NEW o \in Opening, NEW v \in Row
    PROVE  o[v] \in Quantity(v)
<1>1. o[v] \in Int /\ o[v] <= o[v]
  BY StockAssumption
<1>2. QED
  BY <1>1 DEF Quantity

\* A line that is not there changes nothing.
LEMMA AfterUnset ==
    ASSUME NEW e, NEW s
    PROVE  Book!After(e, s, Unset) = s
BY DEF Book!After

\* The blank lines name nothing, and are lines.
LEMMA BlankLines == Blank \in Book!Lines /\ Book!Named(Blank) = {}
BY DEF Blank, Book!Lines, Book!Named

\* Amounts are lines.
LEMMA AmountsAreLines == Book!Amounts \subseteq Book!Lines
BY DEF Book!Amounts, Book!Lines

\* The effect of an undo is one of an action.
LEMMA InverseType ==
    ASSUME NEW e \in {"take", "add"}
    PROVE  Book!Inverse(e) \in {"take", "add"}
BY DEF Book!Inverse

\* What the history forgets leaves its entries in their places.
LEMMA ForgetType ==
    ASSUME NEW h \in Seq(Entry), NEW gone
    PROVE  /\ Book!Forget(h, gone) \in Seq(Entry)
           /\ Len(Book!Forget(h, gone)) = Len(h)
           /\ \A l \in DOMAIN h : /\ Book!Forget(h, gone)[l].effect = h[l].effect
                                  /\ Book!Forget(h, gone)[l].lines = h[l].lines
<1> DEFINE f == Book!Forget(h, gone)
<1>1. DOMAIN h = 1..Len(h) /\ Len(h) \in Nat /\ h \in [1..Len(h) -> Entry]
  BY LenProperties
<1>2. \A l \in DOMAIN h : /\ f[l] \in Entry
                          /\ f[l].effect = h[l].effect /\ f[l].lines = h[l].lines
  <2>1. TAKE l \in DOMAIN h
  <2>2. h[l] \in Entry
    BY <1>1
  <2>3. f[l] = IF l \in gone THEN [h[l] EXCEPT !.is = "forgotten"] ELSE h[l]
    BY DEF Book!Forget
  <2>4. QED
    BY <2>2, <2>3 DEF Entry
<1>3. f \in [1..Len(h) -> Entry]
  BY <1>1, <1>2 DEF Book!Forget
<1>4. f \in Seq(Entry) /\ Len(f) = Len(h)
  BY <1>1, <1>3, LenProperties
<1>5. QED
  BY <1>2, <1>4

-----------------------------------------------------------------------------
(* The invariant.                                                          *)

\* Nothing is locked and nothing is entered at the start.
LEMMA InitIInv == Init => IInv
<1> SUFFICES ASSUME Init PROVE IInv
  OBVIOUS
<1> USE StockAssumption DEF Init
<1>1. TypeOK
  <2>1. stock \in [Row -> Int] /\ \A v \in Row : stock[v] \in Quantity(v)
    BY OpeningQuantity
  <2>2. QED
    BY <2>1, BlankLines, EmptySeq DEF TypeOK, Book!Effect
<1>2. Tidy /\ Ascending /\ Exclusive /\ Current /\ Origins
  BY DEF Tidy, Ascending, Exclusive, Current, Origins, IsAction
<1>3. Covers
  BY BlankLines DEF Covers
<1>4. QED
  BY <1>1, <1>2, <1>3 DEF IInv

\* A request that begins has locked nothing.
LEMMA BeginIInv ==
    ASSUME IInv, NEW w \in Worker,
           NEW e \in Book!Effect, NEW ls \in Book!Lines, NEW l \in Nat,
           NEW ids \in SUBSET Id,
           Begin(w, e, ls, l, ids),
           Book!Named(ls) \cap Row \subseteq ids,
           l # 0 => /\ l \in DOMAIN history
                    /\ e = Book!Inverse(history[l].effect) /\ ls = history[l].lines,
           e \in {"take", "add"} /\ l = 0 => ls \in Baskets,
           e = "set" => ls \in Sheets /\ l = 0,
           e = "none" => ls = Blank /\ l = 0
    PROVE  IInv'
<1> USE DEF IInv, Begin
<1>1. TypeOK'
  BY StockAssumption DEF TypeOK
<1>2. Tidy'
  BY DEF TypeOK, Tidy, IsAction
<1>3. held[w] = {} /\ \A x \in Worker \ {w} : /\ effect'[x] = effect[x]
                                              /\ lines'[x] = lines[x]
                                              /\ undoes'[x] = undoes[x]
                                              /\ todo'[x] = todo[x]
  BY DEF TypeOK, Tidy
<1>4. /\ effect'[w] = e /\ lines'[w] = ls /\ undoes'[w] = l /\ todo'[w] = ids
      /\ held' = held /\ new' = new /\ stock' = stock /\ history' = history
  BY DEF TypeOK
<1>5. Ascending' /\ Exclusive' /\ Current'
  BY <1>3, <1>4 DEF Ascending, Exclusive, Current
<1>6. Covers'
  BY <1>3, <1>4 DEF Covers
<1>7. Origins'
  BY <1>3, <1>4 DEF Origins, IsAction
<1>8. QED
  BY <1>1, <1>2, <1>5, <1>6, <1>7

\* A row that is locked is free, and the least that is to be locked; what is
\* read under the lock is what is stored.
LEMMA LockIInv ==
    ASSUME IInv, NEW w \in Worker, LockRow(w)
    PROVE  IInv'
<1> USE DEF IInv
<1>1. PICK v \in Own : /\ IsNext(w, v) /\ Free(v)
                       /\ todo' = [todo EXCEPT ![w] = @ \ {v}]
                       /\ held' = [held EXCEPT ![w] = @ \cup {v}]
                       /\ new' = [new EXCEPT ![w][v] = Book!After(effect[w], stock[v], lines[w][v])]
                       /\ UNCHANGED <<stock, history, at, effect, lines, undoes, kept,
                                      doomed, seen, begun>>
  BY DEF LockRow
<1>2. v \in Row /\ v \in Id /\ Id \subseteq Nat
  BY StockAssumption DEF Own
<1>3. Book!After(effect[w], stock[v], lines[w][v]) \in Int
  <2>1. /\ effect[w] \in Book!Effect /\ stock[v] \in Int
        /\ lines[w][v] \in Int \cup {Unset}
    BY <1>2 DEF TypeOK, Book!Lines
  <2>2. QED
    BY <2>1, AfterType
<1>4. TypeOK'
  BY <1>1, <1>2, <1>3 DEF TypeOK
<1>5. /\ todo'[w] = todo[w] \ {v} /\ held'[w] = held[w] \cup {v}
      /\ \A x \in Worker \ {w} : todo'[x] = todo[x] /\ held'[x] = held[x] /\ new'[x] = new[x]
      /\ new'[w][v] = Book!After(effect[w], stock[v], lines[w][v])
      /\ \A u \in Row \ {v} : new'[w][u] = new[w][u]
      /\ v \in todo[w] /\ at[w] = "lock"
  BY <1>1, <1>2 DEF TypeOK, IsNext
<1>6. Tidy'
  BY <1>1, <1>5 DEF Tidy, IsAction
<1>7. Ascending'
  <2>1. ASSUME NEW x \in Worker, effect'[x] # "none", NEW h \in held'[x], NEW i \in todo'[x]
        PROVE  h < i
    <3>1. CASE x # w \/ h # v
      BY <1>1, <1>5, <2>1, <3>1 DEF Ascending
    <3>2. CASE x = w /\ h = v
      <4>1. v <= i /\ i # v
        BY <1>1, <1>5, <2>1, <3>2 DEF IsNext
      <4>2. i \in Nat
        BY <1>2, <1>5, <2>1, <3>2 DEF TypeOK
      <4>3. QED
        BY <1>2, <3>2, <4>1, <4>2
    <3>3. QED
      BY <3>1, <3>2
  <2>2. QED
    BY <2>1 DEF Ascending
<1>8. Exclusive'
  BY <1>1, <1>5 DEF Exclusive, Free
<1>9. Current'
  BY <1>1, <1>2, <1>5 DEF Current, TypeOK
<1>10. Covers'
  BY <1>1, <1>5 DEF Covers
<1>11. Origins'
  BY <1>1 DEF Origins, IsAction
<1>12. QED
  BY <1>4, <1>6, <1>7, <1>8, <1>9, <1>10, <1>11

\* A line that is passed over named no variant.
LEMMA SkipIInv ==
    ASSUME IInv, NEW w \in Worker, SkipLine(w)
    PROVE  IInv'
<1> USE DEF IInv
<1>1. PICK i \in Id \ Row : /\ IsNext(w, i) /\ todo' = [todo EXCEPT ![w] = @ \ {i}]
                            /\ UNCHANGED <<stock, history, at, effect, lines, undoes, held,
                                           new, kept, doomed, seen, begun>>
  BY DEF SkipLine
<1>2. /\ todo'[w] = todo[w] \ {i} /\ at[w] = "lock"
      /\ \A x \in Worker \ {w} : todo'[x] = todo[x]
  BY <1>1 DEF TypeOK, IsNext
<1>3. TypeOK'
  BY <1>1 DEF TypeOK
<1>4. Tidy'
  BY <1>1, <1>2 DEF Tidy, IsAction
<1>5. Ascending' /\ Exclusive' /\ Current'
  BY <1>1, <1>2 DEF Ascending, Exclusive, Current
<1>6. Covers'
  BY <1>1, <1>2 DEF Covers
<1>7. Origins'
  BY <1>1 DEF Origins, IsAction
<1>8. QED
  BY <1>3, <1>4, <1>5, <1>6, <1>7

\* A trim reads and deletes with the locks it has.
LEMMA TrimIInv ==
    ASSUME IInv, NEW w \in Worker, TrimReads(w) \/ TrimDeletes(w)
    PROVE  IInv'
<1> USE DEF IInv
<1>1. /\ UNCHANGED <<stock, history, effect, lines, undoes, todo, held, new, begun>>
      /\ \A x \in Worker \ {w} : at'[x] = at[x] /\ doomed'[x] = doomed[x]
      /\ at[w] # "idle" /\ at'[w] \in {"trim", "write"} /\ IsAction(w) /\ todo[w] = {}
      /\ doomed'[w] \subseteq DOMAIN history /\ (at'[w] # "write" => doomed'[w] = {})
  <2>1. CASE TrimReads(w)
    BY <2>1 DEF TrimReads, TypeOK, Tidy, Locked
  <2>2. CASE TrimDeletes(w)
    BY <2>2 DEF TrimDeletes, TypeOK, Tidy, Shown
  <2>3. QED
    BY <2>1, <2>2
<1>2. DOMAIN history \subseteq Nat /\ Len(history) \in Nat
  BY LenProperties DEF TypeOK
<1>3. TypeOK'
  <2>1. /\ at' \in [Worker -> {"idle", "lock", "trim", "write"}]
        /\ seen' \in [Worker -> Nat]
    <3>1. CASE TrimReads(w)
      BY <1>2, <3>1 DEF TypeOK, TrimReads
    <3>2. CASE TrimDeletes(w)
      BY <3>2 DEF TypeOK, TrimDeletes
    <3>3. QED
      BY <3>1, <3>2
  <2>2. Newest \in SUBSET Nat /\ Shown \in SUBSET Nat
    BY <1>2 DEF Newest, Shown
  <2>3. kept' \in [Worker -> SUBSET Nat] /\ doomed' \in [Worker -> SUBSET Nat]
    <3>1. kept \in [Worker -> SUBSET Nat] /\ doomed \in [Worker -> SUBSET Nat]
      BY DEF TypeOK
    <3>2. CASE TrimReads(w)
      BY <2>2, <3>1, <3>2 DEF TrimReads
    <3>3. CASE TrimDeletes(w)
      BY <2>2, <3>1, <3>3 DEF TrimDeletes
    <3>4. QED
      BY <3>2, <3>3
  <2>4. QED
    BY <1>1, <2>1, <2>3 DEF TypeOK
<1>4. Tidy'
  BY <1>1 DEF Tidy, IsAction
<1>5. Ascending' /\ Exclusive' /\ Current' /\ Covers' /\ Origins'
  BY <1>1 DEF Ascending, Exclusive, Current, Covers, Origins, IsAction
<1>6. QED
  BY <1>3, <1>4, <1>5

\* A request that closes, and wrote only rows it had locked, disturbs no other.
LEMMA CloseIInv ==
    ASSUME IInv, NEW w \in Worker, Close(w),
           stock' \in [Row -> Int], \A v \in Row : stock'[v] \in Quantity(v),
           \A v \in Row \ held[w] : stock'[v] = stock[v],
           history' \in Seq(Entry), DOMAIN history \subseteq DOMAIN history',
           \A l \in DOMAIN history : /\ history'[l].effect = history[l].effect
                                     /\ history'[l].lines = history[l].lines
    PROVE  IInv'
<1> USE DEF IInv, Close
<1>1. TypeOK'
  BY BlankLines DEF TypeOK, Book!Effect
<1>2. /\ held'[w] = {} /\ todo'[w] = {} /\ lines'[w] = Blank /\ undoes'[w] = 0
      /\ effect'[w] = "none" /\ at'[w] = "idle" /\ doomed'[w] = {}
      /\ \A x \in Worker \ {w} :
            /\ held'[x] = held[x] /\ todo'[x] = todo[x] /\ lines'[x] = lines[x]
            /\ undoes'[x] = undoes[x] /\ effect'[x] = effect[x] /\ at'[x] = at[x]
            /\ doomed'[x] = doomed[x] /\ new'[x] = new[x]
  BY DEF TypeOK
<1>3. Tidy'
  BY <1>2 DEF Tidy, IsAction
<1>4. Ascending' /\ Exclusive'
  BY <1>2 DEF Ascending, Exclusive
<1>5. Current'
  <2>1. ASSUME NEW x \in Worker, NEW v \in held'[x]
        PROVE  new'[x][v] = Book!After(effect'[x], stock'[v], lines'[x][v])
    <3>1. x # w /\ v \in held[x] /\ v \notin held[w] /\ v \in Row
      BY <1>2, <2>1 DEF Exclusive, TypeOK
    <3>2. /\ new'[x] = new[x] /\ effect'[x] = effect[x] /\ lines'[x] = lines[x]
          /\ stock'[v] = stock[v]
      BY <1>2, <3>1
    <3>3. new[x][v] = Book!After(effect[x], stock[v], lines[x][v])
      BY <3>1 DEF Current
    <3>4. QED
      BY <3>2, <3>3
  <2>2. QED
    BY <2>1 DEF Current
<1>6. Covers'
  BY <1>2, BlankLines DEF Covers
<1>7. Origins'
  <2>1. ASSUME NEW x \in Worker \ {w}, undoes[x] # 0
        PROVE  /\ history'[undoes[x]].effect = history[undoes[x]].effect
               /\ history'[undoes[x]].lines = history[undoes[x]].lines
    BY <2>1 DEF TypeOK
  <2>2. QED
    BY <1>2, <2>1 DEF Origins, IsAction
<1>8. QED
  BY <1>1, <1>3, <1>4, <1>5, <1>6, <1>7

\* The lines of a request by what they do.
LEMMA LinesByEffect ==
    ASSUME IInv, NEW w \in Worker
    PROVE  \/ effect[w] \in {"take", "add"} /\ lines[w] \in Book!Amounts
           \/ effect[w] = "set" /\ lines[w] \in Sheets
           \/ effect[w] = "none" /\ lines[w] = Blank
<1>1. effect[w] \in {"take", "add", "set", "none"}
  BY DEF IInv, TypeOK, Book!Effect
<1>2. CASE effect[w] \in {"take", "add"} /\ undoes[w] = 0
  BY <1>2, StockAssumption DEF IInv, Origins, IsAction
<1>3. CASE undoes[w] # 0
  <2>1. history[undoes[w]] \in Entry /\ lines[w] = history[undoes[w]].lines
    BY <1>3, ElementOfSeq, LenProperties DEF IInv, TypeOK, Origins
  <2>2. lines[w] \in Book!Amounts
    BY <2>1 DEF Entry
  <2>3. effect[w] \notin {"set", "none"}
    BY <1>3 DEF IInv, Origins
  <2>4. QED
    BY <1>1, <2>2, <2>3
<1>4. CASE effect[w] \in {"set", "none"}
  BY <1>4 DEF IInv, Origins
<1>5. QED
  BY <1>1, <1>2, <1>3, <1>4

\* Where a request wrote, and nowhere else, the stock is what it computed, and a
\* quantity the variant may have.
LEMMA StoredType ==
    ASSUME IInv, NEW w \in Worker
    PROVE  /\ Stored(w) \in [Row -> Int]
           /\ \A v \in Row : Stored(w)[v] \in Quantity(v)
           /\ \A v \in Row \ held[w] : Stored(w)[v] = stock[v]
<1>1. /\ Stored(w) \in [Row -> Int]
      /\ \A v \in Row \ held[w] : Stored(w)[v] = stock[v]
  BY DEF IInv, TypeOK, Stored
<1>2. ASSUME NEW v \in Row PROVE Stored(w)[v] \in Quantity(v)
  <2>1. stock[v] \in Quantity(v)
    BY DEF IInv, TypeOK
  <2>2. CASE v \notin held[w]
    BY <1>1, <2>1, <2>2
  <2>3. CASE v \in held[w]
    <3>1. Stored(w)[v] = Book!After(effect[w], stock[v], lines[w][v])
      BY <2>3 DEF Stored, IInv, Current
    <3>2. v \in Id
      BY StockAssumption
    <3>3. CASE effect[w] \in {"take", "add"} /\ lines[w] \in Book!Amounts
      <4>1. lines[w][v] \in Nat \cup {Unset}
        BY <3>2, <3>3 DEF Book!Amounts
      <4>2. QED
        BY <2>1, <3>1, <3>3, <4>1, ActionQuantity
    <3>4. CASE effect[w] = "set" /\ lines[w] \in Sheets
      BY <2>1, <3>1, <3>4, CountQuantity
    <3>5. CASE effect[w] = "none" /\ lines[w] = Blank
      <4>1. lines[w][v] = Unset
        BY <3>2, <3>5 DEF Blank
      <4>2. QED
        BY <2>1, <3>1, <4>1, AfterUnset
    <3>6. QED
      BY <3>3, <3>4, <3>5, LinesByEffect
  <2>4. QED
    BY <2>2, <2>3
<1>3. QED
  BY <1>1, <1>2

\* A transaction that is rolled back.
LEMMA RollBackIInv ==
    ASSUME IInv, NEW w \in Worker, RollBack(w)
    PROVE  IInv'
BY CloseIInv DEF IInv, TypeOK, RollBack

\* A sale or a receipt that is committed becomes an entry.
LEMMA CommitActionIInv ==
    ASSUME IInv, NEW w \in Worker, CommitAction(w)
    PROVE  IInv'
<1> DEFINE old == Book!Forget(history, doomed[w])
           e == [effect |-> effect[w], lines |-> Snapshot(w), is |-> "standing"]
<1>1. effect[w] \in {"take", "add"}
  BY DEF IInv, Tidy, CommitAction, IsAction
<1>2. Snapshot(w) \in Book!Amounts
  <2>1. lines[w] \in Book!Amounts
    BY <1>1, LinesByEffect
  <2>2. QED
    BY <2>1 DEF Snapshot, Book!Only, Book!Amounts
<1>3. e \in Entry
  BY <1>1, <1>2 DEF Entry
<1>4. /\ old \in Seq(Entry) /\ Len(old) = Len(history)
      /\ \A l \in DOMAIN history : /\ old[l].effect = history[l].effect
                                    /\ old[l].lines = history[l].lines
  BY ForgetType DEF IInv, TypeOK
<1>5. /\ DOMAIN history = 1..Len(history) /\ DOMAIN old = 1..Len(old)
      /\ Len(history) \in Nat
  BY <1>4, LenProperties DEF IInv, TypeOK
<1>6. history' = Append(old, e)
  BY DEF CommitAction
<1>7. /\ history' \in Seq(Entry) /\ DOMAIN history \subseteq DOMAIN history'
      /\ \A l \in DOMAIN history : history'[l] = old[l]
  BY <1>3, <1>4, <1>5, <1>6
<1>8. stock' = Stored(w) /\ Close(w)
  BY DEF CommitAction
<1>9. QED
  BY <1>4, <1>7, <1>8, StoredType, CloseIInv

\* An undo that is committed marks its entry.
LEMMA CommitUndoIInv ==
    ASSUME IInv, NEW w \in Worker, CommitUndo(w)
    PROVE  IInv'
<1> DEFINE l == undoes[w]
<1>1. l \in DOMAIN history /\ history \in Seq(Entry) /\ history[l] \in Entry
  BY ElementOfSeq, LenProperties DEF IInv, TypeOK, CommitUndo
<1>2. history' = [history EXCEPT ![l].is = "reverted"]
  BY DEF CommitUndo
<1>3. [history[l] EXCEPT !.is = "reverted"] \in Entry
  BY <1>1 DEF Entry
<1>4. history' \in Seq(Entry) /\ DOMAIN history' = DOMAIN history
  BY <1>1, <1>2, <1>3, ExceptSeq, LenProperties
<1>5. \A k \in DOMAIN history : /\ history'[k].effect = history[k].effect
                                /\ history'[k].lines = history[k].lines
  <2>1. history \in [1..Len(history) -> Entry] /\ DOMAIN history = 1..Len(history)
    BY <1>1, LenProperties
  <2>2. ASSUME NEW k \in DOMAIN history
        PROVE  /\ history'[k].effect = history[k].effect
               /\ history'[k].lines = history[k].lines
    <3>1. history[k] \in Entry
      BY <2>1, <2>2
    <3>2. QED
      BY <1>2, <2>1, <3>1 DEF Entry
  <2>3. QED
    BY <2>2
<1>6. stock' = Stored(w) /\ Close(w)
  BY DEF CommitUndo
<1>7. QED
  BY <1>4, <1>5, <1>6, StoredType, CloseIInv

\* Every step keeps the invariant.
LEMMA NextIInv ==
    ASSUME IInv, [Next]_vars
    PROVE  IInv'
<1>1. ASSUME NEW w \in Worker, BeginSale(w) \/ BeginStockIn(w) PROVE IInv'
  <2>1. PICK b \in Baskets, e \in {"take", "add"} : Begin(w, e, b, 0, Book!Named(b))
    BY <1>1 DEF BeginSale, BeginStockIn
  <2>2. b \in Book!Lines /\ e \in Book!Effect /\ Book!Named(b) \in SUBSET Id
    BY StockAssumption, AmountsAreLines DEF Book!Effect, Book!Named
  <2>3. QED
    BY <2>1, <2>2, BeginIInv
<1>2. ASSUME NEW w \in Worker, BeginImport(w) PROVE IInv'
  <2>1. PICK s \in Sheets : Begin(w, "set", s, 0, Own)
    BY <1>2 DEF BeginImport
  <2>2. /\ s \in Book!Lines /\ "set" \in Book!Effect /\ Own \in SUBSET Id
        /\ Book!Named(s) \subseteq Own
    BY StockAssumption DEF Book!Effect, Own
  <2>3. QED
    BY <2>1, <2>2, BeginIInv
<1>3. ASSUME NEW w \in Worker, BeginSync(w) PROVE IInv'
  <2>1. "none" \in Book!Effect /\ Own \in SUBSET Id
    BY StockAssumption DEF Book!Effect, Own
  <2>2. QED
    BY <1>3, <2>1, BlankLines, BeginIInv DEF BeginSync
<1>4. ASSUME NEW w \in Worker, BeginUndo(w) PROVE IInv'
  <2>1. PICK l \in DOMAIN history :
           /\ history[l].is = "standing"
           /\ Begin(w, Book!Inverse(history[l].effect), history[l].lines, l,
                    Book!Named(history[l].lines))
    BY <1>4 DEF BeginUndo
  <2>2. l \in Nat /\ l # 0 /\ history[l] \in Entry
    BY ElementOfSeq, LenProperties DEF IInv, TypeOK
  <2>3. /\ history[l].lines \in Book!Lines
        /\ Book!Inverse(history[l].effect) \in {"take", "add"}
        /\ Book!Inverse(history[l].effect) \in Book!Effect
        /\ Book!Named(history[l].lines) \in SUBSET Id
    BY <2>2, InverseType, AmountsAreLines DEF Entry, Book!Effect, Book!Named
  <2>4. QED
    BY <2>1, <2>2, <2>3, BeginIInv
<1>5. ASSUME NEW w \in Worker, CommitRest(w) PROVE IInv'
  BY <1>5, StoredType, CloseIInv DEF CommitRest, IInv, TypeOK
<1>6. CASE UNCHANGED vars
  BY <1>6 DEF vars, mine, IInv, TypeOK, Tidy, Ascending, Exclusive, Current, Covers,
              Origins, IsAction
<1>7. QED
  BY <1>1, <1>2, <1>3, <1>4, <1>5, <1>6, LockIInv, SkipIInv, TrimIInv, RollBackIInv,
     CommitActionIInv, CommitUndoIInv
  DEF Next, Step, Forbid, Break, CommitNothing, UndoFails

\* The invariant holds in every reachable state.
LEMMA Invariance == Spec => []IInv
<1>1. QED
  BY InitIInv, NextIInv, PTL DEF Spec

\* Whatever the number of requests, every record stays well formed, and a
\* variant is recorded below zero only as far as a sheet counted it so (or as it
\* was to begin with): no sale, receipt or undo takes it there or further down
\* (pos_transaction and pos_undo with their floor at zero; the import has none).
THEOREM TypeCorrect == Spec => []TypeOK
<1>1. IInv => TypeOK
  BY DEF IInv
<1>2. QED
  BY <1>1, Invariance, PTL

-----------------------------------------------------------------------------
(* No deadlock.                                                            *)

\* A set of natural numbers that is not empty has a least element.
LEMMA LeastElement ==
    ASSUME NEW T \in SUBSET Nat, T # {}
    PROVE  \E m \in T : \A n \in T : m <= n
<1> DEFINE Less == {ss \in Nat \X Nat : ss[1] < ss[2]}
<1>1. IsWellFoundedOn(Less, Nat)
  BY NatLessThanWellFounded DEF OpToRel
<1>2. PICK m \in T : \A n \in T : ~ (<<n, m>> \in Less)
  <2> HIDE DEF Less
  <2>1. QED
    BY <1>1, WFMin
<1>3. ASSUME NEW n \in T PROVE m <= n
  <2>1. ~ (n < m)
    BY <1>2
  <2>2. QED
    BY <2>1
<1>4. QED
  BY <1>3

\* Of a set of requests that each wait, the one that waits for the largest row
\* waits for none of the set: who held that row would wait for a larger one.
LEMMA LargestWaitsNot == IInv => NoWaitCycle
<1> SUFFICES ASSUME IInv,
                    NEW S \in SUBSET {w \in Worker : effect[w] # "none"}, S # {},
                    \A w \in S : \E x \in S : WaitsFor(w, x)
             PROVE  FALSE
  BY DEF NoWaitCycle
<1> DEFINE Wanted == {v \in Row : \E w \in S : IsNext(w, v)}
           T == {MaxId - v : v \in Wanted}
<1>1. \A v \in Row : v \in Nat /\ MaxId - v \in Nat
  BY StockAssumption
<1>2. T \in SUBSET Nat /\ T # {}
  BY <1>1 DEF WaitsFor
<1>3. PICK m \in T : \A n \in T : m <= n
  BY <1>2, LeastElement
<1>4. PICK top \in Wanted : m = MaxId - top
  OBVIOUS
<1>5. \A v \in Wanted : v <= top
  <2>1. TAKE v \in Wanted
  <2>2. MaxId - top <= MaxId - v
    BY <1>3, <1>4
  <2>3. QED
    BY <1>1, <1>4, <2>2, StockAssumption
<1>6. PICK w \in S : IsNext(w, top)
  BY <1>4
<1>7. PICK x \in S, v \in Row : IsNext(w, v) /\ v \in held[x]
  BY DEF WaitsFor
<1>8. v = top
  BY <1>1, <1>4, <1>6, <1>7 DEF IsNext
<1>9. PICK u \in Row : IsNext(x, u)
  BY DEF WaitsFor
<1>10. top < u
  BY <1>7, <1>8, <1>9 DEF IInv, Ascending, IsNext
<1>11. u <= top
  BY <1>5, <1>9
<1>12. QED
  BY <1>1, <1>4, <1>9, <1>10, <1>11

\* Requests that lock in ascending order never deadlock among themselves, for
\* any number of them and any baskets (pos/routes.py 280-285).
THEOREM NoDeadlock == Spec => []NoWaitCycle
<1>1. QED
  BY Invariance, LargestWaitsNot, PTL

-----------------------------------------------------------------------------
(* The refinement.                                                         *)

\* What a request with every row locked stores is its lines applied to the
\* stock as it is committed at that moment.
LEMMA StoredIsApplied ==
    ASSUME IInv, NEW w \in Worker, todo[w] = {}
    PROVE  Stored(w) = Book!Applied(effect[w], lines[w], stock)
<1>1. ASSUME NEW v \in Row
      PROVE  Stored(w)[v] = Book!After(effect[w], stock[v], lines[w][v])
  <2>1. CASE v \in held[w]
    BY <2>1 DEF Stored, IInv, Current
  <2>2. CASE v \notin held[w]
    <3>1. lines[w][v] = Unset
      BY <2>2, StockAssumption DEF IInv, Covers, Book!Named
    <3>2. QED
      BY <2>2, <3>1, AfterUnset DEF Stored
  <2>3. QED
    BY <2>1, <2>2
<1>2. QED
  BY <1>1 DEF Stored, Book!Applied

\* Lines of ids that are not variants change no variant.
LEMMA OnlyRows ==
    ASSUME NEW ls, NEW e, NEW s
    PROVE  Book!Applied(e, Book!Only(Row, ls), s) = Book!Applied(e, ls, s)
BY StockAssumption DEF Book!Applied, Book!Only

\* A request that ends without a commit withdraws what it asked.
LEMMA RollBackRefines ==
    ASSUME IInv, NEW w \in Worker, RollBack(w)
    PROVE  Book!Next
BY DEF RollBack, Close, Book!Next, Book!Withdraw

\* A committed sale or receipt is entered as one step of the book.
LEMMA CommitActionRefines ==
    ASSUME IInv, NEW w \in Worker, CommitAction(w)
    PROVE  Book!Next
<1> DEFINE b == lines[w]
<1>1. /\ effect[w] \in {"take", "add"} /\ undoes[w] = 0 /\ todo[w] = {} /\ b \in Baskets
  BY DEF IInv, Tidy, Origins, CommitAction, IsAction
<1>2. stock' = Book!Applied(effect[w], Book!Only(Row, b), stock)
  BY <1>1, StoredIsApplied, OnlyRows DEF CommitAction
<1>3. Snapshot(w) = Book!Only(Row, b)
  <2>1. ASSUME NEW i \in Id, i \in Row, i \notin held[w] PROVE b[i] = Unset
    BY <1>1, <2>1 DEF IInv, Covers, Book!Named
  <2>2. held[w] \subseteq Row
    BY DEF IInv, TypeOK
  <2>3. QED
    BY <2>1, <2>2 DEF Snapshot, Book!Only
<1>4. undoes' = undoes
  BY <1>1 DEF CommitAction, Close, IInv, TypeOK
<1>5. doomed[w] \in SUBSET DOMAIN history
  BY DEF IInv, Tidy
<1>6. Book!Enter(effect[w], Book!Only(Row, b))
  BY <1>2, <1>3, <1>4, <1>5 DEF CommitAction, Book!Enter
<1>7. QED
  BY <1>1, <1>6 DEF Book!Next

\* A committed undo gives back what its entry took.
LEMMA CommitUndoRefines ==
    ASSUME IInv, NEW w \in Worker, CommitUndo(w)
    PROVE  Book!Next
<1> DEFINE l == undoes[w]
<1>1. /\ l # 0 /\ history[l].is # "forgotten" /\ todo[w] = {}
      /\ effect[w] = Book!Inverse(history[l].effect) /\ lines[w] = history[l].lines
  BY DEF CommitUndo, Locked, IInv, Origins
<1>2. stock' = Book!Applied(Book!Inverse(history[l].effect), history[l].lines, stock)
  BY <1>1, StoredIsApplied DEF CommitUndo
<1>3. Book!Undo(w)
  BY <1>1, <1>2 DEF CommitUndo, Close, Book!Undo
<1>4. QED
  BY <1>3 DEF Book!Next

\* A committed import is a count; the synchronisation changes no quantity.
LEMMA CommitRestRefines ==
    ASSUME IInv, NEW w \in Worker, CommitRest(w)
    PROVE  [Book!Next]_<<stock, history, undoes>>
<1>1. /\ todo[w] = {} /\ effect[w] \in {"set", "none"} /\ undoes[w] = 0
      /\ effect[w] = "set" => lines[w] \in Sheets
      /\ effect[w] = "none" => lines[w] = Blank
  BY DEF CommitRest, Locked, IInv, Origins
<1>2. stock' = Book!Applied(effect[w], lines[w], stock) /\ history' = history
  BY <1>1, StoredIsApplied DEF CommitRest
<1>3. undoes' = undoes
  BY <1>1 DEF CommitRest, Close, IInv, TypeOK
<1>4. CASE effect[w] = "set"
  BY <1>1, <1>2, <1>3, <1>4 DEF Book!Next, Book!Count
<1>5. CASE effect[w] = "none"
  <2>1. \A v \in Row : Book!After("none", stock[v], Blank[v]) = stock[v]
    BY AfterUnset, StockAssumption DEF Blank
  <2>2. stock' = stock
    BY <1>1, <1>2, <1>5, <2>1 DEF Book!Applied, IInv, TypeOK
  <2>3. QED
    BY <1>2, <1>3, <2>2
<1>6. QED
  BY <1>1, <1>4, <1>5

\* A request that begins asks for an undo or nothing.
LEMMA BeginRefines ==
    ASSUME IInv, NEW w \in Worker, NEW e, NEW ls, NEW l, NEW ids, Begin(w, e, ls, l, ids),
           l # 0 => l \in DOMAIN history /\ history[l].is = "standing"
    PROVE  [Book!Next]_<<stock, history, undoes>>
<1>1. undoes[w] = 0 /\ stock' = stock /\ history' = history
      /\ undoes' = [undoes EXCEPT ![w] = l]
  BY DEF Begin, IInv, Tidy
<1>2. CASE l = 0
  BY <1>1, <1>2 DEF IInv, TypeOK
<1>3. CASE l # 0
  BY <1>1, <1>3 DEF Book!Next, Book!Ask
<1>4. QED
  BY <1>2, <1>3

\* Requests of the point of sale and imports, however they interleave with each
\* other, with the catalogue's synchronisation and with what breaks, take effect
\* one at a time, whole or not at all, and an action is undone only by a request
\* that found it standing (pos_transaction, pos_undo, _apply_warehouse_xlsx).
THEOREM Refinement == Spec => BookKept
<1>1. Init => Book!Init
  BY StockAssumption DEF Init, Book!Init
<1>2. IInv /\ [Next]_vars => [Book!Next]_<<stock, history, undoes>>
  <2> SUFFICES ASSUME IInv, [Next]_vars PROVE [Book!Next]_<<stock, history, undoes>>
    OBVIOUS
  <2>1. ASSUME NEW w \in Worker, BeginSale(w) \/ BeginStockIn(w) \/ BeginImport(w)
                                \/ BeginSync(w)
        PROVE  [Book!Next]_<<stock, history, undoes>>
    BY <2>1, BeginRefines DEF BeginSale, BeginStockIn, BeginImport, BeginSync
  <2>2. ASSUME NEW w \in Worker, BeginUndo(w)
        PROVE  [Book!Next]_<<stock, history, undoes>>
    BY <2>2, BeginRefines DEF BeginUndo
  <2>3. ASSUME NEW w \in Worker,
               LockRow(w) \/ SkipLine(w) \/ TrimReads(w) \/ TrimDeletes(w)
        PROVE  UNCHANGED <<stock, history, undoes>>
    BY <2>3 DEF LockRow, SkipLine, TrimReads, TrimDeletes
  <2>4. ASSUME UNCHANGED vars PROVE UNCHANGED <<stock, history, undoes>>
    BY <2>4 DEF vars, mine
  <2>5. QED
    BY <2>1, <2>2, <2>3, <2>4, RollBackRefines, CommitActionRefines, CommitUndoRefines,
       CommitRestRefines
    DEF Next, Step, Forbid, Break, CommitNothing, UndoFails
<1>3. QED
  BY <1>1, <1>2, Invariance, PTL DEF Spec, BookKept, Book!Spec, Book!bookVars

-----------------------------------------------------------------------------
(* What the history keeps.                                                 *)

\* A trim that has read would delete, of what it had seen, only what has Keep
\* newer actions by now; and so it is with what it has deleted.
Remembered ==
    \A w \in Worker :
       /\ seen[w] <= Len(history)
       /\ at[w] = "trim" =>
             \A l \in Shown : l <= seen[w] /\ l \notin kept[w] => Len(history) - l >= Keep
       /\ \A l \in doomed[w] : l > seen[w] \/ Len(history) - l >= Keep

\* The history grows at its end, and what it has forgotten does not come back.
Grows ==
    /\ Len(history) <= Len(history') /\ Len(history') \in Nat
    /\ \A l \in DOMAIN history : l \in Shown' => l \in Shown

LEMMA RollBackGrows == ASSUME IInv, UNCHANGED history PROVE Grows /\ Shown' = Shown
<1>1. Len(history) \in Nat /\ Len(history') = Len(history)
  BY LenProperties DEF IInv, TypeOK
<1>2. Shown' = Shown
  BY DEF Shown
<1>3. QED
  BY <1>1, <1>2 DEF Grows

\* Only a commit of an action forgets, and what its trim has deleted.
LEMMA CommitActionGrows ==
    ASSUME IInv, NEW w \in Worker, CommitAction(w)
    PROVE  Grows /\ \A l \in Shown : l \notin Shown' => l \in doomed[w]
<1> DEFINE old == Book!Forget(history, doomed[w])
           e == [effect |-> effect[w], lines |-> Snapshot(w), is |-> "standing"]
<1>1. history' = Append(old, e) /\ history \in Seq(Entry)
  BY DEF CommitAction, IInv, TypeOK
<1>2. old \in Seq(Entry) /\ Len(old) = Len(history)
  BY <1>1, ForgetType
<1>3. Len(history) \in Nat /\ DOMAIN history = 1..Len(history) /\ DOMAIN old = 1..Len(history)
  BY <1>1, <1>2, LenProperties
<1>4. \A l \in DOMAIN history :
         old[l] = IF l \in doomed[w] THEN [history[l] EXCEPT !.is = "forgotten"] ELSE history[l]
  BY DEF Book!Forget
<1> HIDE DEF old, e
<1>5. /\ Len(history') = Len(history) + 1 /\ DOMAIN history \subseteq DOMAIN history'
      /\ \A l \in DOMAIN history : history'[l] = old[l]
  BY <1>1, <1>2, <1>3
<1>6. \A l \in DOMAIN history : history[l] \in Entry
  BY <1>1
<1>7. \A l \in DOMAIN history :
         history'[l].is = IF l \in doomed[w] THEN "forgotten" ELSE history[l].is
  <2>1. TAKE l \in DOMAIN history
  <2>2. history[l] \in Entry /\ history'[l] = old[l]
    BY <1>5, <1>6
  <2>3. [history[l] EXCEPT !.is = "forgotten"].is = "forgotten"
    BY <2>2 DEF Entry
  <2>4. QED
    BY <1>4, <2>2, <2>3
<1>8. \A l \in DOMAIN history : l \in Shown' => l \in Shown
  BY <1>7 DEF Shown
<1>9. \A l \in Shown : l \notin Shown' => l \in doomed[w]
  BY <1>5, <1>7 DEF Shown
<1>10. QED
  BY <1>3, <1>5, <1>8, <1>9 DEF Grows

\* An undo forgets nothing.
LEMMA CommitUndoGrows ==
    ASSUME IInv, NEW w \in Worker, CommitUndo(w)
    PROVE  Grows /\ Shown \subseteq Shown'
<1> DEFINE u == undoes[w]
<1>1. u \in DOMAIN history /\ history \in Seq(Entry) /\ history[u].is # "forgotten"
      /\ history' = [history EXCEPT ![u].is = "reverted"]
  BY DEF IInv, TypeOK, CommitUndo
<1>2. Len(history) \in Nat /\ DOMAIN history = 1..Len(history)
      /\ \A l \in DOMAIN history : history[l] \in Entry
  BY <1>1, LenProperties
<1> HIDE DEF u
<1>3. DOMAIN history' = DOMAIN history /\ Len(history') = Len(history)
  <2>1. [history[u] EXCEPT !.is = "reverted"] \in Entry
    BY <1>1, <1>2 DEF Entry
  <2>2. history' \in Seq(Entry) /\ Len(history') = Len(history)
    BY <1>1, <2>1, ExceptSeq
  <2>3. QED
    BY <1>2, <2>2, LenProperties
<1>4. \A l \in DOMAIN history : history'[l].is = IF l = u THEN "reverted" ELSE history[l].is
  BY <1>1, <1>2 DEF Entry
<1>5. Shown' = Shown
  BY <1>1, <1>3, <1>4 DEF Shown
<1>6. QED
  BY <1>2, <1>3, <1>5 DEF Grows

\* What a step does to the trims.
LEMMA StepTrims ==
    ASSUME IInv, NEW w \in Worker, Step(w), NEW x \in Worker
    PROVE  \/ doomed'[x] = {} /\ seen'[x] = 0 /\ at'[x] # "trim"
           \/ /\ doomed'[x] = doomed[x] /\ seen'[x] = seen[x] /\ kept'[x] = kept[x]
              /\ at'[x] = "trim" => at[x] = "trim"
           \/ x = w /\ TrimReads(w)
           \/ x = w /\ TrimDeletes(w)
<1>1. /\ at \in [Worker -> {"idle", "lock", "trim", "write"}]
      /\ kept \in [Worker -> SUBSET Nat] /\ doomed \in [Worker -> SUBSET Nat]
      /\ seen \in [Worker -> Nat]
  BY DEF IInv, TypeOK
<1>2. CASE BeginSale(w) \/ BeginStockIn(w) \/ BeginImport(w) \/ BeginSync(w) \/ BeginUndo(w)
  BY <1>1, <1>2 DEF BeginSale, BeginStockIn, BeginImport, BeginSync, BeginUndo, Begin
<1>3. CASE LockRow(w) \/ SkipLine(w)
  BY <1>3 DEF LockRow, SkipLine
<1>4. CASE TrimReads(w) \/ TrimDeletes(w)
  BY <1>1, <1>4 DEF TrimReads, TrimDeletes
<1>5. CASE Close(w)
  BY <1>1, <1>5 DEF Close
<1>6. QED
  BY <1>2, <1>3, <1>4, <1>5
  DEF Step, Forbid, Break, RollBack, CommitAction, CommitNothing, CommitUndo, UndoFails, CommitRest

LEMMA StepGrows ==
    ASSUME IInv, NEW w \in Worker, Step(w)
    PROVE  Grows /\ \A l \in Shown : l \notin Shown' => l \in doomed[w]
<1>1. CASE CommitAction(w)
  BY <1>1, CommitActionGrows
<1>2. CASE CommitUndo(w)
  BY <1>2, CommitUndoGrows
<1>3. CASE UNCHANGED history
  BY <1>3, RollBackGrows
<1>4. QED
  BY <1>1, <1>2, <1>3
  DEF Step, BeginSale, BeginStockIn, BeginImport, BeginSync, BeginUndo, Begin, LockRow, SkipLine,
      Forbid, Break, RollBack, TrimReads, TrimDeletes, CommitNothing, UndoFails, CommitRest

\* An action that was seen and is not among the newest has Keep newer ones.
LEMMA NotNewest ==
    ASSUME IInv, NEW l \in Shown, l \notin Newest
    PROVE  Len(history) - l >= Keep
<1> DEFINE n == Len(history)
           later == {m \in Shown : m > l}
<1>1. n \in Nat /\ DOMAIN history = 1..n /\ Keep \in Nat
  BY LenProperties, StockAssumption DEF IInv, TypeOK
<1>2. l \in 1..n /\ later \in SUBSET ((l + 1)..n)
  <2>1. \A m \in Shown : m \in 1..n
    BY <1>1 DEF Shown
  <2>2. \A m \in Shown : m > l => m \in (l + 1)..n
    BY <1>1, <2>1
  <2>3. QED
    BY <2>1, <2>2
<1>3. ~(Cardinality(later) < Keep)
  BY DEF Newest
<1> HIDE DEF n, later
<1>4. IsFiniteSet((l + 1)..n) /\ Cardinality((l + 1)..n) = n - l
  <2>1. l + 1 \in Int /\ n \in Int
    BY <1>1, <1>2
  <2>2. /\ IsFiniteSet((l + 1)..n)
        /\ Cardinality((l + 1)..n) = IF l + 1 > n THEN 0 ELSE n - (l + 1) + 1
    BY <2>1, FS_Interval
  <2>3. (IF l + 1 > n THEN 0 ELSE n - (l + 1) + 1) = n - l
    BY <1>1, <1>2
  <2>4. QED
    BY <2>2, <2>3
<1>5. Cardinality(later) <= n - l /\ Cardinality(later) \in Nat
  <2>1. IsFiniteSet(later) /\ Cardinality(later) <= Cardinality((l + 1)..n)
    BY <1>2, <1>4, FS_Subset
  <2>2. QED
    BY <1>4, <2>1, FS_CardinalityType
<1>6. n - l >= Keep
  BY <1>1, <1>2, <1>3, <1>5
<1>7. QED
  BY <1>6 DEF n

LEMMA InitRemembered == Init => Remembered
BY EmptySeq DEF Init, Remembered, Shown

LEMMA StepRemembered ==
    ASSUME IInv, Remembered, NEW w \in Worker, Step(w)
    PROVE  Remembered'
<1>1. /\ Grows /\ Len(history) \in Nat /\ Keep \in Nat
      /\ history \in Seq(Entry) /\ DOMAIN history = 1..Len(history)
      /\ seen \in [Worker -> Nat]
  BY StepGrows, LenProperties, StockAssumption DEF IInv, TypeOK
<1>2. ASSUME NEW l \in Nat, Len(history) - l >= Keep PROVE Len(history') - l >= Keep
  BY <1>1, <1>2 DEF Grows
<1> DEFINE Good(x) ==
             /\ seen'[x] <= Len(history')
             /\ at'[x] = "trim" =>
                   \A l \in Shown' : l <= seen'[x] /\ l \notin kept'[x] => Len(history') - l >= Keep
             /\ \A l \in doomed'[x] : l > seen'[x] \/ Len(history') - l >= Keep
<1>3. ASSUME NEW x \in Worker PROVE Good(x)
  <2>1. /\ seen[x] \in Nat /\ seen[x] <= Len(history)
        /\ doomed[x] \subseteq DOMAIN history
        /\ \A l \in doomed[x] : l > seen[x] \/ Len(history) - l >= Keep
    BY <1>1 DEF Remembered, IInv, Tidy
  <2>2. CASE doomed'[x] = {} /\ seen'[x] = 0 /\ at'[x] # "trim"
    BY <1>1, <2>2 DEF Grows
  <2>3. CASE /\ doomed'[x] = doomed[x] /\ seen'[x] = seen[x] /\ kept'[x] = kept[x]
             /\ at'[x] = "trim" => at[x] = "trim"
    <3>1. seen'[x] <= Len(history')
      BY <1>1, <2>1, <2>3 DEF Grows
    <3>2. ASSUME at'[x] = "trim", NEW l \in Shown', l <= seen'[x], l \notin kept'[x]
          PROVE  Len(history') - l >= Keep
      <4>1. l \in Nat /\ l >= 1
        <5>1. l \in DOMAIN history'
          BY <3>2 DEF Shown
        <5>2. history' \in Seq(Entry)
          BY NextIInv DEF IInv, TypeOK, Next
        <5>3. QED
          BY <5>1, <5>2, LenProperties
      <4>2. l \in DOMAIN history
        BY <1>1, <2>1, <2>3, <3>2, <4>1
      <4>3. l \in Shown
        BY <1>1, <3>2, <4>2 DEF Grows
      <4>4. Len(history) - l >= Keep
        BY <2>3, <3>2, <4>3 DEF Remembered
      <4>5. QED
        BY <1>2, <4>1, <4>4
    <3>3. ASSUME NEW l \in doomed'[x] PROVE l > seen'[x] \/ Len(history') - l >= Keep
      <4>1. l \in Nat
        BY <1>1, <2>1, <2>3, <3>3
      <4>2. QED
        BY <1>2, <2>1, <2>3, <3>3, <4>1
    <3>4. QED
      BY <3>1, <3>2, <3>3
  <2>4. CASE x = w /\ TrimReads(w)
    <3>1. /\ UNCHANGED history /\ seen'[x] = Len(history) /\ kept'[x] = Newest
          /\ doomed'[x] = doomed[x]
      BY <2>4 DEF TrimReads, IInv, TypeOK
    <3>2. Shown' = Shown /\ Len(history') = Len(history)
      BY <3>1 DEF Shown
    <3>3. doomed[x] = {}
      BY <2>4 DEF TrimReads, Locked, IInv, Tidy
    <3>4. QED
      BY <1>1, <3>1, <3>2, <3>3, NotNewest
  <2>5. CASE x = w /\ TrimDeletes(w)
    <3>1. /\ UNCHANGED history /\ seen'[x] = seen[x] /\ at[x] = "trim" /\ at'[x] = "write"
          /\ doomed'[x] = IF kept[x] = {} THEN {} ELSE Shown \ kept[x]
      BY <2>5 DEF TrimDeletes, IInv, TypeOK
    <3>2. ASSUME NEW l \in doomed'[x], ~(l > seen[x]) PROVE Len(history) - l >= Keep
      <4>1. l \in Shown /\ l \notin kept[x]
        BY <3>1, <3>2
      <4>2. l \in Nat
        BY <1>1, <4>1 DEF Shown
      <4>3. l <= seen[x]
        BY <2>1, <3>2, <4>2
      <4>4. QED
        BY <3>1, <4>1, <4>3 DEF Remembered
    <3>3. Len(history') = Len(history)
      BY <3>1
    <3>4. QED
      BY <1>1, <2>1, <3>1, <3>2, <3>3
  <2>6. QED
    BY <2>2, <2>3, <2>4, <2>5, StepTrims
<1>4. QED
  BY <1>3 DEF Remembered

\* An action leaves the history only when Keep newer ones have been entered, or
\* by the trim of a request that had read before it was written, for any
\* number of requests and any length of the history (_trim_pos_history).
THEOREM HistoryKept == Spec => RecentKept
<1> DEFINE Leaves == \A l \in Shown : l \notin Shown' =>
                        \/ Len(history) - l >= Keep
                        \/ \E w \in Worker : l \in doomed[w] /\ l > seen[w]
<1>1. IInv /\ Remembered /\ [Next]_vars => Remembered'
  <2> SUFFICES ASSUME IInv, Remembered, [Next]_vars PROVE Remembered'
    OBVIOUS
  <2>1. CASE UNCHANGED vars
    BY <2>1 DEF vars, mine, Remembered, Shown
  <2>2. QED
    BY <2>1, StepRemembered DEF Next
<1>2. IInv /\ Remembered /\ [Next]_vars => [Leaves]_vars
  <2> SUFFICES ASSUME IInv, Remembered, Next, NEW l \in Shown, l \notin Shown'
               PROVE  \/ Len(history) - l >= Keep
                      \/ \E w \in Worker : l \in doomed[w] /\ l > seen[w]
    OBVIOUS
  <2>1. PICK w \in Worker : l \in doomed[w]
    BY StepGrows DEF Next
  <2>2. QED
    BY <2>1 DEF Remembered
<1>3. QED
  BY <1>1, <1>2, InitRemembered, Invariance, PTL DEF Spec, RecentKept
=============================================================================
