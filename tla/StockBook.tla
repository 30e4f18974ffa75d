------------------------------ MODULE StockBook ------------------------------
(***************************************************************************)
(* What the stock operations of the point of sale promise: however the     *)
(* requests interleave, each takes effect as if it were alone, all of its  *)
(* lines at once or none of them, and an action is undone by a request     *)
(* that found it standing.  The history may forget actions.                *)
(***************************************************************************)
EXTENDS Integers, Sequences

CONSTANTS Row,          \* the variants
          Id,           \* what a line may name
          Baskets,      \* what is sold or received: lines of amounts
          Sheets,       \* what is counted: lines of any integers
          Unset,        \* where a request has no line
          Request       \* who undoes

Lines == [Id -> Int \cup {Unset}]
Amounts == [Id -> Nat \cup {Unset}]
Effect == {"take", "add", "set", "none"}

VARIABLES
    stock,      \* variant -> warehouse_quantity
    history,    \* the actions entered, in order: which effect, which lines, and
                \* whether each stands, is reverted or is forgotten
    asked       \* request -> the action it found standing and is to undo, or 0

bookVars == <<stock, history, asked>>

Named(ls) == {i \in Id : ls[i] # Unset}

\* The lines of a set of ids.
Only(ids, ls) == [i \in Id |-> IF i \in ids THEN ls[i] ELSE Unset]

\* Mutant of After: a sale is not cut off at zero.
AfterBelowZero(does, have, n) ==
    IF n = Unset THEN have
    ELSE CASE does = "take" -> have - n
           [] does = "add"  -> have + n
           [] does = "set"  -> n
           [] does = "none" -> have

\* A quantity after one line: what is taken is cut off at zero, what is counted
\* is written as it stands.
After(does, have, n) ==
    IF n = Unset THEN have
    ELSE CASE does = "take" -> IF n > have THEN 0 ELSE have - n
           [] does = "add"  -> have + n
           [] does = "set"  -> n
           [] does = "none" -> have

Applied(does, ls, s) == [v \in Row |-> After(does, s[v], ls[v])]

Inverse(does) == IF does = "take" THEN "add" ELSE "take"

\* The history without the actions of a set.
Forget(h, gone) ==
    [l \in DOMAIN h |-> IF l \in gone THEN [h[l] EXCEPT !.is = "forgotten"] ELSE h[l]]

Init ==
    /\ stock \in [Row -> Int]
    /\ history = <<>>
    /\ asked = [r \in Request |-> 0]

\* A sale or a receipt of goods.
Enter(does, ls) ==
    /\ stock' = Applied(does, ls, stock)
    /\ \E gone \in SUBSET DOMAIN history :
          history' = Append(Forget(history, gone),
                            [effect |-> does, lines |-> ls, is |-> "standing"])
    /\ UNCHANGED asked

\* A sheet of counted quantities.
Count(ls) ==
    /\ stock' = Applied("set", ls, stock)
    /\ UNCHANGED <<history, asked>>

Ask(r, l) ==
    /\ asked[r] = 0 /\ history[l].is = "standing"
    /\ asked' = [asked EXCEPT ![r] = l]
    /\ UNCHANGED <<stock, history>>

Withdraw(r) ==
    /\ asked' = [asked EXCEPT ![r] = 0]
    /\ UNCHANGED <<stock, history>>

Undo(r) ==
    LET l == asked[r] IN
    /\ l # 0 /\ history[l].is # "forgotten"
    /\ stock' = Applied(Inverse(history[l].effect), history[l].lines, stock)
    /\ history' = [history EXCEPT ![l].is = "reverted"]
    /\ asked' = [asked EXCEPT ![r] = 0]

Next ==
    \/ \E b \in Baskets : Enter("take", Only(Row, b)) \/ Enter("add", Only(Row, b))
    \/ \E s \in Sheets : Count(s)
    \/ \E r \in Request : Withdraw(r) \/ Undo(r)
                          \/ \E l \in DOMAIN history : Ask(r, l)

Spec == Init /\ [][Next]_bookVars
=============================================================================
