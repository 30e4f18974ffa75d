------------------------------ MODULE AutoSupply ------------------------------
(***************************************************************************)
(* The "auto" supply of one shop: postavki/auto_plan.py packs what is      *)
(* needed and in stock into invoices within the seller's limits; the page  *)
(* shows them as cards; /postavki/api/auto/create opens the chosen ones at *)
(* Uzum, one after another.  Opening is for real and is not undone, while  *)
(* answers get lost between the page, the server and Uzum.                 *)
(*                                                                         *)
(* Skus are numbered in the order _group_order puts them in.  Whether an   *)
(* opened invoice got a slot at once or joined the queue (AutoslotPlans)   *)
(* makes no difference here.                                               *)
(***************************************************************************)
EXTENDS Naturals, FiniteSets, Sequences

CONSTANTS
    NumSkus,
    Goods,          \* what the tables and Uzum may say of a sku
    Rules,          \* the seller's limits, as clamp_config leaves them
    MaxInvoices,    \* MAX_INVOICES
    MaxPresses,     \* bound on the presses of a button
    MaxFaults       \* bound on lost answers, changed rules and recalculations

Sku == 1..NumSkus

\* clamp_config
IsRules(c) ==
    /\ c \in [units : Nat \ {0}, skus : Nat \ {0}, min : Nat \ {0}]
    /\ c.min <= c.units

ASSUME SupplyAssumption ==
    /\ NumSkus \in Nat /\ MaxInvoices \in Nat \ {0}
    /\ MaxPresses \in Nat /\ MaxFaults \in Nat
    /\ \A c \in Rules : IsRules(c)
    /\ Goods \subseteq [sold : Nat, active : Nat, stock : Nat, priced : BOOLEAN,
                        blocked : BOOLEAN]

VARIABLES
    rules,      \* the row of postavka_auto_config
    used,       \* the rules the draft was made with
    goods,
    stage,      \* "pack" while pack_invoices runs, "shown" afterwards
    sku, left,  \* the sku it is at, and what of it is still to be packed
    cur,        \* the invoice being filled
    packs,      \* the invoices closed
    refused,    \* skus skipped as "too_many"
    shown,      \* indices of the packs on the page
    request,    \* press -> its create request
    awaited,    \* the press the page waits for, 0 if none
    opened,     \* pack -> how many invoices were opened for it at Uzum
    doubts,     \* ghost: pack -> how often its fate got out of the page's sight
    faults

draft == <<used, goods, stage, sku, left, cur, packs, refused>>
vars == <<rules, draft, shown, request, awaited, opened, doubts, faults>>

Press == 1..MaxPresses
Nobody == [s \in Sku |-> 0]
EmptyPack == [take |-> Nobody, units |-> 0, skus |-> 0]
NoRequest == [at |-> "none", all |-> FALSE, todo |-> {}, made |-> {}, from |-> {}]

RequestType(S) ==
    [at : {"none", "check", "create", "answered", "over"}, all : BOOLEAN,
     todo : SUBSET S, made : SUBSET S, from : SUBSET S]

PackType == [take : [Sku -> Nat], units : Nat, skus : Nat]

SupplyTypeOK ==
    /\ rules \in Rules /\ used \in Rules
    /\ goods \in [Sku -> Goods]
    /\ stage \in {"pack", "shown"}
    /\ sku \in 0..NumSkus /\ left \in Nat
    /\ cur \in PackType /\ packs \in Seq(PackType)
    /\ refused \subseteq Sku
    /\ shown \subseteq DOMAIN packs
    /\ request \in [Press -> RequestType(DOMAIN packs)]
    /\ awaited \in Press \cup {0}
    /\ stage = "shown" => /\ opened \in [DOMAIN packs -> Nat]
                          /\ doubts \in [DOMAIN packs -> Nat]
    /\ faults \in 0..MaxFaults

Init ==
    /\ rules \in Rules /\ used = rules
    /\ goods \in [Sku -> Goods]
    /\ stage = "pack" /\ sku = 0 /\ left = 0
    /\ cur = EmptyPack /\ packs = <<>> /\ refused = {}
    /\ shown = {} /\ request = [p \in Press |-> NoRequest] /\ awaited = 0
    /\ opened = <<>> /\ doubts = <<>> /\ faults = 0

Fault == faults < MaxFaults /\ faults' = faults + 1

-----------------------------------------------------------------------------
(* What to send.                                                           *)

Lesser(a, b) == IF a <= b THEN a ELSE b
Greater(a, b) == IF a >= b THEN a ELSE b
Minus(a, b) == IF a > b THEN a - b ELSE 0

\* build_plan: what was sold beyond what Uzum still has, and the part in stock.
need(g) == Minus(g.sold, g.active)
recommend(g) == Lesser(need(g), g.stock)

\* Mutant of Quantity: the minimum is not held against the stock.
QuantityUnstocked(g, c) ==
    IF g.blocked \/ recommend(g) = 0 \/ ~g.priced THEN 0
    ELSE Greater(recommend(g), c.min)

\* _eligible
Quantity(g, c) ==
    IF g.blocked \/ recommend(g) = 0 \/ ~g.priced THEN 0
    ELSE Lesser(Greater(recommend(g), c.min), g.stock)

-----------------------------------------------------------------------------
(* pack_invoices.                                                          *)

Packing == stage = "pack"
beside == <<rules, shown, request, awaited, opened, doubts, faults>>

NextSku ==
    /\ Packing /\ left = 0 /\ sku < NumSkus
    /\ sku' = sku + 1
    /\ left' = Quantity(goods[sku + 1], used)
    /\ UNCHANGED <<used, goods, stage, cur, packs, refused, beside>>

room == used.units - cur.units

\* Mutant of Full: a line is added as long as there is any room.
FullOfUnits == room = 0

Full == cur.skus >= used.skus \/ room < Lesser(used.min, left)

close == IF cur.skus > 0 THEN Append(packs, cur) ELSE packs

\* The invoice is full; past the cap the rest of the sku is left out and the
\* loop goes on with the next one.
CloseFull ==
    /\ Packing /\ left > 0 /\ Full
    /\ packs' = close /\ cur' = EmptyPack
    /\ IF Len(close) >= MaxInvoices
       THEN left' = 0 /\ refused' = refused \cup {sku}
       ELSE UNCHANGED <<left, refused>>
    /\ UNCHANGED <<used, goods, stage, sku, beside>>

\* Mutant of Portion: a line fills the room, whatever is left to be sent.
PortionOfRoom == room

\* A line of the invoice; no less than `min` is left over if the line can spare it.
Portion ==
    LET most  == Lesser(left, room)
        short == Minus(used.min, left - most)
    IN  IF left > most /\ short > 0 /\ most >= used.min + short THEN most - short ELSE most

Take ==
    /\ Packing /\ left > 0 /\ ~Full
    /\ cur' = [take |-> [cur.take EXCEPT ![sku] = @ + Portion],
               units |-> cur.units + Portion, skus |-> cur.skus + 1]
    /\ left' = left - Portion
    /\ UNCHANGED <<used, goods, stage, sku, packs, refused, beside>>

\* The last invoice is closed and the draft is shown.
Preview ==
    /\ Packing /\ left = 0 /\ sku = NumSkus
    /\ stage' = "shown" /\ packs' = close /\ cur' = EmptyPack
    /\ shown' = DOMAIN close
    /\ opened' = [k \in DOMAIN close |-> 0] /\ doubts' = [k \in DOMAIN close |-> 0]
    /\ UNCHANGED <<rules, used, goods, sku, left, refused, request, awaited, faults>>

-----------------------------------------------------------------------------
(* The page.                                                               *)

Offered == stage = "shown" /\ UNCHANGED draft
Doubted(S) == [k \in DOMAIN packs |-> IF k \in S THEN doubts[k] + 1 ELSE doubts[k]]

\* "Create" of a card or "Create all": the buttons are disabled while it waits.
autoCreate(p, which, all) ==
    /\ Offered /\ awaited = 0 /\ which # {}
    /\ request[p].at = "none" /\ \A q \in 1..(p - 1) : request[q].at # "none"
    /\ request' = [request EXCEPT ![p] = [at |-> "check", all |-> all, todo |-> which,
                                          made |-> {}, from |-> shown]]
    /\ awaited' = p
    /\ UNCHANGED <<rules, shown, opened, doubts, faults>>

\* Mutant of Remaining: the cards are removed by their place in the request.
RemainingByPlace(r) == {k \in r.from : \A m \in r.made : k # Cardinality({j \in r.made : j <= m})}

\* The cards left after an answer: none if that was all of them.
Remaining(r) == IF r.all \/ r.made = r.from THEN {} ELSE r.from \ r.made

\* The answer arrives: an error if nothing was created.
Arrives(p) ==
    /\ Offered /\ awaited = p /\ request[p].at = "answered"
    /\ shown' = IF request[p].made = {} THEN shown ELSE Remaining(request[p])
    /\ awaited' = 0
    /\ request' = [request EXCEPT ![p].at = "over"]
    /\ UNCHANGED <<rules, opened, doubts, faults>>

\* The page gets no answer in time; the cards stay and the server goes on.
GivesUp(p) ==
    /\ Offered /\ awaited = p /\ p # 0 /\ Fault
    /\ awaited' = 0
    /\ doubts' = Doubted(request[p].todo \cup request[p].made)
    /\ UNCHANGED <<rules, shown, request, opened>>

\* "Recalculate": sales and stock know nothing of the invoices just opened, and
\* the same draft comes back, cards that are done or still at the server with it.
Recalculate ==
    /\ Offered /\ rules = used /\ Fault
    /\ shown' = DOMAIN packs
    /\ doubts' = Doubted({k \in DOMAIN packs : k \notin shown})
    /\ UNCHANGED <<rules, request, awaited, opened>>

\* The rules are saved on another page.
SaveRules ==
    /\ Offered /\ Fault
    /\ rules' \in Rules \ {rules}
    /\ UNCHANGED <<shown, request, awaited, opened, doubts>>

-----------------------------------------------------------------------------
(* postavki_auto_create.                                                   *)

Accepted(S) ==
    /\ Cardinality(S) <= MaxInvoices
    /\ \A k \in S : packs[k].skus <= rules.skus /\ packs[k].units <= rules.units

\* The limits are held against the rules of now; on an error nothing is opened.
Check(p) ==
    /\ Offered /\ request[p].at = "check"
    /\ request' = [request EXCEPT
                     ![p].at = IF Accepted(request[p].todo) THEN "create" ELSE "answered"]
    /\ UNCHANGED <<rules, shown, awaited, opened, doubts, faults>>

IsNext(p, k) ==
    /\ Offered /\ request[p].at = "create"
    /\ k \in request[p].todo /\ \A j \in request[p].todo : k <= j

\* Pack k ends, `got` is what was opened: the next one, or the answer after the
\* last one or an error.
Goes(p, k, got) ==
    LET rest == request[p].todo \ {k}
    IN  request' = [request EXCEPT
          ![p].todo = rest,
          ![p].made = @ \cup got,
          ![p].at   = IF got # {} /\ rest # {} THEN "create" ELSE "answered"]

CreateOne(p, k) ==
    /\ IsNext(p, k) /\ Goes(p, k, {k})
    /\ opened' = [opened EXCEPT ![k] = @ + 1]
    /\ UNCHANGED <<rules, shown, awaited, doubts, faults>>

\* The session sends a POST again that got a 5xx or no answer (three times at
\* most, once here), though Uzum may have opened the invoice.
CreateResent(p, k) ==
    /\ IsNext(p, k) /\ Goes(p, k, {k}) /\ Fault
    /\ opened' = [opened EXCEPT ![k] = @ + 2]
    /\ doubts' = Doubted({k})
    /\ UNCHANGED <<rules, shown, awaited>>

\* No stock, no slots, Uzum refuses, or its answer is lost for good: in the last
\* case the invoice may be open.
CreateFails(p, k) ==
    /\ IsNext(p, k) /\ Goes(p, k, {}) /\ Fault
    /\ \/ UNCHANGED <<opened, doubts>>
       \/ opened' = [opened EXCEPT ![k] = @ + 1] /\ doubts' = Doubted({k})
    /\ UNCHANGED <<rules, shown, awaited>>

-----------------------------------------------------------------------------
PackStep == NextSku \/ CloseFull \/ Take \/ Preview

PageStep ==
    \/ \E p \in Press : \/ autoCreate(p, shown, TRUE)
                        \/ \E k \in shown : autoCreate(p, {k}, FALSE)
                        \/ Arrives(p) \/ GivesUp(p)
    \/ Recalculate \/ SaveRules

ServerStep ==
    \E p \in Press :
       \/ Check(p)
       \/ \E k \in DOMAIN packs : CreateOne(p, k) \/ CreateResent(p, k) \/ CreateFails(p, k)

Next == PackStep \/ PageStep \/ ServerStep

Spec == Init /\ [][Next]_vars

-----------------------------------------------------------------------------
(* Properties.                                                             *)

Within(pack, c) == /\ pack.skus \in 1..c.skus
                   /\ pack.units \in 1..c.units

\* The server would open any card of the page, unless the rules have changed:
\* what pack_invoices closes passes the checks of postavki_auto_create.
PacksFit == \A k \in DOMAIN packs : Within(packs[k], used)

\* The units of a line, one for each: of the invoices closed that sku s is in,
\* of an invoice.
Closed(s) == UNION {{k} \X (1..packs[k].take[s]) : k \in DOMAIN packs}
Units(take) == UNION {{s} \X (1..take[s]) : s \in Sku}
Lines(take) == {s \in Sku : take[s] > 0}

Placed(s) == Cardinality(Closed(s)) + cur.take[s]

\* Every unit to be sent is in exactly one invoice, none beyond the stock, or
\* its sku is reported as left out; what an invoice says of itself is true.
NothingLost ==
    /\ \A s \in 1..sku :
          /\ Placed(s) + (IF s = sku THEN left ELSE 0) <= goods[s].stock
          /\ \/ Placed(s) + (IF s = sku THEN left ELSE 0) = Quantity(goods[s], used)
             \/ s \in refused
    /\ \A k \in DOMAIN packs :
          /\ packs[k].skus = Cardinality(Lines(packs[k].take))
          /\ packs[k].units = Cardinality(Units(packs[k].take))

DraftSound == PacksFit /\ NothingLost

\* A card's invoice is opened a second time only if the page has lost sight of
\* the first: an answer was lost on the way, or the draft was made anew.
OpenedOnce == stage = "shown" => \A k \in DOMAIN packs : opened[k] <= 1 + doubts[k]
=============================================================================
