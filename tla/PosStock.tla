------------------------------- MODULE PosStock -------------------------------
(***************************************************************************)
(* The warehouse stock of one seller.  Requests of the point of sale       *)
(* (pos_transaction, pos_undo) and imports of counted sheets               *)
(* (_apply_warehouse_xlsx) read, change and write variants, one row lock   *)
(* after another, and keep the locks to the commit; the catalogue's        *)
(* synchronisation (_sync_products_via_openapi) locks the same rows in the *)
(* order of Uzum's feed.  A sale or a receipt is written to the history,   *)
(* which is trimmed to the newest Keep actions by a read and a delete; an  *)
(* undo reads its action without a lock.                                   *)
(***************************************************************************)
EXTENDS Integers, Sequences, FiniteSets

CONSTANTS
    Worker,         \* the threads and processes that serve requests
    Row,            \* the variants, by id
    Foreign,        \* those of other sellers' shops
    Id,             \* the ids a basket may name
    MaxId,          \* the largest there can be (a Postgres integer)
    Opening,        \* the stocks to begin with
    Baskets,        \* what is sold or received
    Sheets,         \* what is imported: a cell may be below zero
    Unset,          \* where a request has no line
    Keep,           \* POS_HISTORY_LIMIT
    MaxBegun        \* bound on the requests begun

VARIABLES
    stock,      \* variant -> warehouse_quantity, as committed
    history,    \* pos_action_log, by id
    at,         \* worker -> how far its request is
    effect,     \* worker -> what its lines do to a quantity
    lines,      \* worker -> its lines
    undoes,     \* worker -> the action it undoes, or 0
    todo,       \* worker -> the ids it has still to lock
    held,       \* worker -> the rows it has locked
    new,        \* worker -> the quantities it will write to them
    kept,       \* worker -> the actions its trim means to keep
    doomed,     \* worker -> the actions it has deleted
    seen,       \* ghost: worker -> how many actions there had been when it read
    begun

Book == INSTANCE StockBook WITH Request <- Worker, asked <- undoes

mine == <<at, effect, lines, undoes, todo, held, new, kept, doomed, seen>>
vars == <<stock, history, mine, begun>>

Own == Row \ Foreign
Blank == [i \in Id |-> Unset]
Entry == [effect : {"take", "add"}, lines : Book!Amounts,
          is : {"standing", "reverted", "forgotten"}]

ASSUME StockAssumption ==
    /\ Row \subseteq Id /\ Id \subseteq 0..MaxId /\ MaxId \in Nat /\ Foreign \subseteq Row
    /\ Opening \subseteq [Row -> Int] /\ Unset \notin Int
    /\ Baskets \subseteq Book!Amounts /\ Sheets \subseteq Book!Lines
    /\ \A s \in Sheets : Book!Named(s) \subseteq Own
    /\ Keep \in Nat /\ MaxBegun \in Nat

\* What may be recorded of a variant.  A quantity below zero comes from a sheet
\* that counted it so, or was there to begin with, and only grows from there:
\* the floor of a sale (pos_transaction) and of the undo of a receipt (pos_undo).
Quantity(v) ==
    {n \in Int : \/ n >= 0
                 \/ \E s \in Sheets : s[v] # Unset /\ s[v] <= n
                 \/ \E o \in Opening : o[v] <= n}

\* Every variable has its type, and every variant a quantity it may have.
TypeOK ==
    /\ stock \in [Row -> Int] /\ \A v \in Row : stock[v] \in Quantity(v)
    /\ history \in Seq(Entry)
    /\ at \in [Worker -> {"idle", "lock", "trim", "write"}]
    /\ effect \in [Worker -> Book!Effect]
    /\ lines \in [Worker -> Book!Lines]
    /\ undoes \in [Worker -> Nat]
    /\ \A w \in Worker : undoes[w] # 0 => undoes[w] \in DOMAIN history
    /\ todo \in [Worker -> SUBSET Id]
    /\ held \in [Worker -> SUBSET Row]
    /\ new \in [Worker -> [Row -> Int]]
    /\ kept \in [Worker -> SUBSET Nat]
    /\ doomed \in [Worker -> SUBSET Nat]
    /\ seen \in [Worker -> Nat]
    /\ begun \in 0..MaxBegun

Init ==
    /\ stock \in Opening
    /\ history = <<>>
    /\ at = [w \in Worker |-> "idle"]
    /\ effect = [w \in Worker |-> "none"]
    /\ lines = [w \in Worker |-> Blank]
    /\ undoes = [w \in Worker |-> 0]
    /\ todo = [w \in Worker |-> {}]
    /\ held = [w \in Worker |-> {}]
    /\ new = [w \in Worker |-> [v \in Row |-> 0]]
    /\ kept = [w \in Worker |-> {}]
    /\ doomed = [w \in Worker |-> {}]
    /\ seen = [w \in Worker |-> 0]
    /\ begun = 0

\* The rows of pos_action_log that are there.
Shown == {l \in DOMAIN history : history[l].is # "forgotten"}

-----------------------------------------------------------------------------
(* A request begins.                                                       *)

Begin(w, e, ls, l, ids) ==
    /\ at[w] = "idle" /\ begun < MaxBegun
    /\ begun' = begun + 1
    /\ at' = [at EXCEPT ![w] = "lock"]
    /\ effect' = [effect EXCEPT ![w] = e]
    /\ lines' = [lines EXCEPT ![w] = ls]
    /\ undoes' = [undoes EXCEPT ![w] = l]
    /\ todo' = [todo EXCEPT ![w] = ids]
    /\ UNCHANGED <<stock, history, held, new, kept, doomed, seen>>

BeginSale(w) == \E b \in Baskets : Begin(w, "take", b, 0, Book!Named(b))
BeginStockIn(w) == \E b \in Baskets : Begin(w, "add", b, 0, Book!Named(b))
BeginImport(w) == \E s \in Sheets : Begin(w, "set", s, 0, Own)
BeginSync(w) == Begin(w, "none", Blank, 0, Own)

\* The action is read without a lock; one that is reverted is refused.
BeginUndo(w) ==
    \E l \in DOMAIN history :
       /\ history[l].is = "standing"
       /\ Begin(w, Book!Inverse(history[l].effect), history[l].lines, l,
                Book!Named(history[l].lines))

-----------------------------------------------------------------------------
(* It locks its rows.                                                      *)

\* Mutant of IsNext: the order of the basket.
IsNextInBasket(w, i) == at[w] = "lock" /\ i \in todo[w]

\* Ids in ascending order; the catalogue's synchronisation in any.
IsNext(w, i) ==
    /\ at[w] = "lock" /\ i \in todo[w]
    /\ effect[w] # "none" => \A j \in todo[w] : i <= j

\* Mutant of Free: the rows are read without FOR UPDATE.
FreeAlways(v) == v \in Row

Free(v) == \A w \in Worker : v \notin held[w]

LockRow(w) ==
    \E v \in Own :
       /\ IsNext(w, v) /\ Free(v)
       /\ todo' = [todo EXCEPT ![w] = @ \ {v}]
       /\ held' = [held EXCEPT ![w] = @ \cup {v}]
       /\ new' = [new EXCEPT ![w][v] = Book!After(effect[w], stock[v], lines[w][v])]
       /\ UNCHANGED <<stock, history, at, effect, lines, undoes, kept, doomed, seen,
                      begun>>

\* No such variant: the line is passed over.
SkipLine(w) ==
    \E i \in Id \ Row :
       /\ IsNext(w, i)
       /\ todo' = [todo EXCEPT ![w] = @ \ {i}]
       /\ UNCHANGED <<stock, history, at, effect, lines, undoes, held, new, kept,
                      doomed, seen, begun>>

\* The request is over and its locks are free.
Close(w) ==
    /\ at' = [at EXCEPT ![w] = "idle"]
    /\ effect' = [effect EXCEPT ![w] = "none"]
    /\ lines' = [lines EXCEPT ![w] = Blank]
    /\ undoes' = [undoes EXCEPT ![w] = 0]
    /\ todo' = [todo EXCEPT ![w] = {}]
    /\ held' = [held EXCEPT ![w] = {}]
    /\ new' = [new EXCEPT ![w] = [v \in Row |-> 0]]
    /\ kept' = [kept EXCEPT ![w] = {}]
    /\ doomed' = [doomed EXCEPT ![w] = {}]
    /\ seen' = [seen EXCEPT ![w] = 0]
    /\ UNCHANGED begun

RollBack(w) == Close(w) /\ UNCHANGED <<stock, history>>

\* A line names another seller's variant: 403, and nothing of it is kept.
Forbid(w) == (\E v \in Foreign : IsNext(w, v)) /\ RollBack(w)

\* The process dies, the connection breaks, or Postgres ends a deadlock.
Break(w) == at[w] # "idle" /\ RollBack(w)

-----------------------------------------------------------------------------
(* It writes.                                                              *)

Locked(w) == at[w] = "lock" /\ todo[w] = {}
IsAction(w) == effect[w] \in {"take", "add"} /\ undoes[w] = 0

\* Mutant of Newest: the order of the history is forgotten to be descending.
Oldest == {l \in Shown : Cardinality({m \in Shown : m < l}) < Keep}

\* Which actions the history keeps: the newest Keep of those it can see (its
\* own is not among them yet).
Newest == {l \in Shown : Cardinality({m \in Shown : m > l}) < Keep}

TrimReads(w) ==
    /\ Locked(w) /\ IsAction(w) /\ held[w] # {}
    /\ at' = [at EXCEPT ![w] = "trim"]
    /\ kept' = [kept EXCEPT ![w] = Newest]
    /\ seen' = [seen EXCEPT ![w] = Len(history)]
    /\ UNCHANGED <<stock, history, effect, lines, undoes, todo, held, new, doomed, begun>>

\* The others, of those it can see by now; none at all where it keeps none.
TrimDeletes(w) ==
    /\ at[w] = "trim"
    /\ at' = [at EXCEPT ![w] = "write"]
    /\ doomed' = [doomed EXCEPT ![w] = IF kept[w] = {} THEN {} ELSE Shown \ kept[w]]
    /\ UNCHANGED <<stock, history, effect, lines, undoes, todo, held, new, kept, seen,
                   begun>>

Stored(w) == [v \in Row |-> IF v \in held[w] THEN new[w][v] ELSE stock[v]]

\* The lines that found their variant.
Snapshot(w) == Book!Only(held[w], lines[w])

CommitAction(w) ==
    /\ at[w] = "write"
    /\ stock' = Stored(w)
    /\ history' = Append(Book!Forget(history, doomed[w]),
                         [effect |-> effect[w], lines |-> Snapshot(w),
                          is |-> "standing"])
    /\ Close(w)

\* No line found a variant: there is nothing to enter.
CommitNothing(w) ==
    /\ Locked(w) /\ IsAction(w) /\ held[w] = {}
    /\ RollBack(w)

CommitUndo(w) ==
    /\ Locked(w) /\ undoes[w] # 0
    /\ history[undoes[w]].is # "forgotten"
    /\ stock' = Stored(w)
    /\ history' = [history EXCEPT ![undoes[w]].is = "reverted"]
    /\ Close(w)

\* The action was trimmed meanwhile: its update matches no row and raises.
UndoFails(w) ==
    /\ Locked(w) /\ undoes[w] # 0
    /\ history[undoes[w]].is = "forgotten"
    /\ RollBack(w)

\* An import writes the quantities it changes, the synchronisation none of them.
CommitRest(w) ==
    /\ Locked(w) /\ effect[w] \in {"set", "none"}
    /\ stock' = Stored(w)
    /\ UNCHANGED history
    /\ Close(w)

Step(w) ==
    \/ BeginSale(w) \/ BeginStockIn(w) \/ BeginImport(w) \/ BeginSync(w) \/ BeginUndo(w)
    \/ LockRow(w) \/ SkipLine(w) \/ Forbid(w) \/ Break(w)
    \/ TrimReads(w) \/ TrimDeletes(w) \/ CommitAction(w) \/ CommitNothing(w)
    \/ CommitUndo(w) \/ UndoFails(w) \/ CommitRest(w)

Next == \E w \in Worker : Step(w)

Spec == Init /\ [][Next]_vars

-----------------------------------------------------------------------------
(* What must hold.                                                         *)

WaitsFor(w, x) == \E v \in Row : IsNext(w, v) /\ v \in held[x]

\* Two requests never wait for each other: in every set of them, without the
\* catalogue's synchronisation, one waits for no other of the set (the stable
\* order of the locks, pos/routes.py 276-284, with the import's and the undo's).
NoWaitCycle ==
    \A S \in SUBSET {w \in Worker : effect[w] # "none"} :
       S # {} => \E w \in S : \A x \in S : ~WaitsFor(w, x)

\* An action leaves the history only when Keep newer ones have been entered, or
\* by the trim of a request that had read what to keep before the action was
\* written: then even the newest action is lost (_trim_pos_history).
RecentKept ==
    [][\A l \in Shown : l \notin Shown' =>
          \/ Len(history) - l >= Keep
          \/ \E w \in Worker : l \in doomed[w] /\ l > seen[w]]_vars

\* Every request takes effect as if it were alone, whole or not at all, and an
\* action is undone only by a request that found it standing.
BookKept == Book!Spec
=============================================================================
