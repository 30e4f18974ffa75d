--------------------------- MODULE AutoSupplyProofs ---------------------------
(***************************************************************************)
(* Proofs about AutoSupply, for any goods, rules, cap and presses: what    *)
(* pack_invoices closes is within the rules and sends what there is to     *)
(* send, and no invoice of a card is opened twice while the page knows     *)
(* what became of it.                                                      *)
(***************************************************************************)
EXTENDS AutoSupply, FiniteSetTheorems, TLAPS

\* The invoice being filled never gets over the rules; what is left is of a sku.
Filling ==
    /\ cur.units <= used.units /\ cur.skus <= used.skus
    /\ cur.skus > 0 => cur.units > 0
    /\ left > 0 => sku \in Sku

\* There is nothing to press before the draft is shown.
Quiet ==
    stage = "pack" => /\ shown = {} /\ awaited = 0
                      /\ request = [p \in Press |-> NoRequest]

\* While the page waits its cards stay, those of the request among them.
Waiting ==
    awaited # 0 => /\ request[awaited].from \subseteq shown
                   /\ request[awaited].at # "none"

Busy(r) == r.at \in {"check", "create"}

\* The requests that may still open pack k, and whether the page waits for news
\* of it or offers it.
Live(k) == {p \in Press : Busy(request[p]) /\ k \in request[p].todo}

AtServer(k) ==
    /\ awaited # 0
    /\ \/ k \in request[awaited].made
       \/ Busy(request[awaited]) /\ k \in request[awaited].todo

Offers(k) == IF k \in shown /\ ~AtServer(k) THEN 1 ELSE 0

\* A pack has one chance to be opened, and one more for each time its fate got
\* out of sight: it is opened, on its way at the server, or offered.
Accounted ==
    stage = "shown" =>
       \A k \in DOMAIN packs : opened[k] + Cardinality(Live(k)) + Offers(k) <= 1 + doubts[k]

IInv == SupplyTypeOK /\ Filling /\ PacksFit /\ Quiet /\ Waiting /\ Accounted

-----------------------------------------------------------------------------
(* What is packed.                                                         *)

\* What _eligible asks for is a quantity.
LEMMA QuantityType ==
    ASSUME NEW g \in Goods, NEW c \in Rules
    PROVE  Quantity(g, c) \in Nat
<1>1. /\ g.sold \in Nat /\ g.active \in Nat /\ g.stock \in Nat
      /\ c.min \in Nat
  BY SupplyAssumption DEF IsRules
<1>2. recommend(g) \in Nat
  BY <1>1 DEF recommend, need, Lesser, Minus
<1>3. QED
  BY <1>1, <1>2 DEF Quantity, Lesser, Greater

\* A line is at least one unit and goes into the room of an invoice that is
\* not full.
LEMMA PortionFits ==
    ASSUME SupplyTypeOK, Filling, left > 0, ~Full
    PROVE  /\ Portion \in Nat /\ Portion > 0 /\ Portion <= left
           /\ cur.units + Portion <= used.units
           /\ cur.skus + 1 <= used.skus
<1>1. /\ used.units \in Nat \ {0} /\ used.skus \in Nat \ {0} /\ used.min \in Nat \ {0}
      /\ cur.units \in Nat /\ cur.skus \in Nat /\ left \in Nat
  BY SupplyAssumption DEF SupplyTypeOK, PackType, IsRules
<1>2. cur.units <= used.units
  BY DEF Filling
<1>3. cur.skus < used.skus /\ room >= Lesser(used.min, left)
  BY <1>1, <1>2 DEF Full, room, Lesser
<1>4. room \in Nat /\ room > 0 /\ cur.units + room = used.units
  BY <1>1, <1>2, <1>3 DEF room, Lesser
<1> DEFINE most == Lesser(left, room)
           short == Minus(used.min, left - most)
<1>5. most \in Nat /\ most > 0 /\ most <= left /\ most <= room
  BY <1>1, <1>4 DEF Lesser
<1>6. short \in Nat
  BY <1>1, <1>5 DEF Minus
<1>7. Portion = IF left > most /\ short > 0 /\ most >= used.min + short
                THEN most - short ELSE most
  BY DEF Portion
<1> HIDE DEF most, short
<1>8. Portion \in Nat /\ Portion > 0 /\ Portion <= most
  BY <1>1, <1>5, <1>6, <1>7
<1>9. QED
  BY <1>1, <1>3, <1>4, <1>5, <1>8

\* An invoice that is closed is within the rules, if any is.
LEMMA CloseFits ==
    ASSUME SupplyTypeOK, Filling, PacksFit
    PROVE  /\ close \in Seq(PackType) /\ DOMAIN packs \subseteq DOMAIN close
           /\ \A k \in DOMAIN close : Within(close[k], used)
<1>1. CASE ~(cur.skus > 0)
  BY <1>1 DEF close, SupplyTypeOK, PacksFit
<1>2. CASE cur.skus > 0
  <2>1. Within(cur, used)
    BY <1>2, SupplyAssumption DEF Within, Filling, SupplyTypeOK, PackType, IsRules
  <2>2. close = Append(packs, cur) /\ packs \in Seq(PackType) /\ cur \in PackType
    BY <1>2 DEF close, SupplyTypeOK
  <2>3. QED
    BY <2>1, <2>2 DEF PacksFit
<1>3. QED
  BY <1>1, <1>2

-----------------------------------------------------------------------------
(* The initial states and the steps.                                       *)

LEMMA Start == Init => IInv
<1> SUFFICES ASSUME Init PROVE IInv
  OBVIOUS
<1> USE DEF Init
<1>1. EmptyPack \in PackType
  BY DEF EmptyPack, PackType, Nobody
<1>2. SupplyTypeOK
  BY <1>1, SupplyAssumption DEF SupplyTypeOK, NoRequest, RequestType, Sku
<1>3. Filling
  BY SupplyAssumption DEF Filling, EmptyPack, IsRules
<1>4. PacksFit
  BY DEF PacksFit
<1>5. Quiet /\ Waiting /\ Accounted
  BY DEF Quiet, Waiting, Accounted
<1>6. QED
  BY <1>2, <1>3, <1>4, <1>5 DEF IInv


\* pack_invoices keeps the types and the rules; the page is not there yet.
LEMMA PackKeeps ==
    ASSUME SupplyTypeOK, Filling, PacksFit, Quiet, PackStep
    PROVE  /\ SupplyTypeOK' /\ Filling' /\ PacksFit'
           /\ UNCHANGED <<request, awaited>>
           /\ stage' = "pack" => shown' = {}
<1>1. stage = "pack" /\ shown = {} /\ awaited = 0
  BY DEF Quiet, PackStep, NextSku, CloseFull, Take, Preview, Packing
<1>2. /\ cur \in PackType /\ packs \in Seq(PackType) /\ used \in Rules
      /\ goods \in [Sku -> Goods] /\ sku \in 0..NumSkus /\ left \in Nat
      /\ refused \subseteq Sku
  BY DEF SupplyTypeOK
<1>3. EmptyPack \in PackType /\ EmptyPack.units = 0 /\ EmptyPack.skus = 0
  BY DEF EmptyPack, PackType, Nobody
<1>4. 0 <= used.units /\ 0 <= used.skus
  BY <1>2, SupplyAssumption DEF IsRules
<1>5. \A S : NoRequest \in RequestType(S)
  BY DEF NoRequest, RequestType
<1>6. CASE NextSku
  <2>1. /\ Quantity(goods[sku + 1], used) \in Nat
        /\ sku + 1 \in 0..NumSkus /\ sku + 1 \in Sku
    BY <1>2, <1>6, QuantityType, SupplyAssumption DEF NextSku, Sku
  <2>2. QED
    BY <1>1, <1>6, <2>1 DEF NextSku, Packing, beside, SupplyTypeOK, Filling, PacksFit, Within
<1>7. CASE CloseFull
  <2>1. /\ close \in Seq(PackType) /\ DOMAIN packs \subseteq DOMAIN close
        /\ \A k \in DOMAIN close : Within(close[k], used)
    BY CloseFits
  <2>2. refused' \subseteq Sku /\ left' \in Nat /\ (left' > 0 => sku' \in Sku)
    BY <1>2, <1>7 DEF CloseFull, Filling
  <2>3. /\ packs' = close /\ cur' = EmptyPack
        /\ UNCHANGED <<rules, used, goods, stage, sku, shown, request, awaited, faults>>
    BY <1>7 DEF CloseFull, beside
  <2>4. request' \in [Press -> RequestType(DOMAIN close)]
    BY <1>1, <2>3, <1>5 DEF Quiet
  <2>5. SupplyTypeOK'
    BY <1>1, <1>3, <2>1, <2>2, <2>3, <2>4 DEF SupplyTypeOK
  <2>6. QED
    BY <1>1, <1>3, <1>4, <2>1, <2>2, <2>3, <2>5 DEF Filling, PacksFit, Within
<1>8. CASE Take
  <2>1. /\ Portion \in Nat /\ Portion > 0 /\ Portion <= left
        /\ cur.units + Portion <= used.units
        /\ cur.skus + 1 <= used.skus
    BY <1>8, PortionFits DEF Take
  <2>2. /\ cur' = [take |-> [cur.take EXCEPT ![sku] = @ + Portion],
                   units |-> cur.units + Portion, skus |-> cur.skus + 1]
        /\ left' = left - Portion
        /\ UNCHANGED <<rules, used, goods, stage, sku, packs, refused, shown, request,
                       awaited, faults>>
    BY <1>8 DEF Take, beside
  <2>3. cur' \in PackType /\ cur'.units = cur.units + Portion /\ cur'.skus = cur.skus + 1
    <3>1. cur.take \in [Sku -> Nat] /\ cur.units \in Nat /\ cur.skus \in Nat
      BY <1>2 DEF PackType
    <3>2. [cur.take EXCEPT ![sku] = @ + Portion] \in [Sku -> Nat]
      BY <1>8, <2>1, <3>1 DEF Take, Filling
    <3>3. QED
      BY <2>1, <2>2, <3>1, <3>2 DEF PackType
  <2>4. SupplyTypeOK'
    BY <1>1, <1>2, <2>1, <2>2, <2>3 DEF SupplyTypeOK
  <2>5. cur.units \in Nat /\ cur.skus \in Nat
    BY <1>2 DEF PackType
  <2>6. Filling'
    <3>1. left' > 0 => sku' \in Sku
      BY <1>8, <2>2 DEF Take, Filling
    <3>2. QED
      BY <2>1, <2>2, <2>3, <2>5, <3>1 DEF Filling
  <2>7. QED
    BY <1>1, <2>2, <2>4, <2>6 DEF PacksFit, Within
<1>9. CASE Preview
  <2>1. /\ close \in Seq(PackType) /\ DOMAIN packs \subseteq DOMAIN close
        /\ \A k \in DOMAIN close : Within(close[k], used)
    BY CloseFits
  <2>2. /\ packs' = close /\ cur' = EmptyPack /\ stage' = "shown" /\ shown' = DOMAIN close
        /\ opened' = [k \in DOMAIN close |-> 0] /\ doubts' = [k \in DOMAIN close |-> 0]
        /\ UNCHANGED <<rules, used, goods, sku, left, refused, request, awaited, faults>>
    BY <1>9 DEF Preview
  <2>3. request' \in [Press -> RequestType(DOMAIN close)]
    BY <1>1, <2>2, <1>5 DEF Quiet
  <2>4. SupplyTypeOK'
    BY <1>3, <2>1, <2>2, <2>3 DEF SupplyTypeOK
  <2>5. QED
    BY <1>3, <1>4, <2>1, <2>2, <2>4 DEF Filling, PacksFit, Within
<1>10. QED
  BY <1>6, <1>7, <1>8, <1>9 DEF PackStep


\* A pack more whose fate is not known.
LEMMA DoubtedType ==
    ASSUME SupplyTypeOK, stage = "shown", NEW S
    PROVE  /\ Doubted(S) \in [DOMAIN packs -> Nat]
           /\ \A k \in DOMAIN packs : Doubted(S)[k] = IF k \in S THEN doubts[k] + 1 ELSE doubts[k]
BY DEF SupplyTypeOK, Doubted

\* The page's steps keep the types.
LEMMA PageTypes ==
    ASSUME SupplyTypeOK, PageStep
    PROVE  SupplyTypeOK' /\ stage = "shown" /\ UNCHANGED draft
<1>1. stage = "shown" /\ UNCHANGED draft
  BY DEF PageStep, autoCreate, Arrives, GivesUp, Recalculate, SaveRules, Offered
<1>2. UNCHANGED <<used, goods, stage, sku, left, cur, packs, refused>>
  BY <1>1 DEF draft
<1>3. /\ rules \in Rules /\ shown \subseteq DOMAIN packs
      /\ request \in [Press -> RequestType(DOMAIN packs)]
      /\ awaited \in Press \cup {0} /\ faults \in 0..MaxFaults
      /\ opened \in [DOMAIN packs -> Nat] /\ doubts \in [DOMAIN packs -> Nat]
  BY <1>1 DEF SupplyTypeOK
<1>4. Fault => faults' \in 0..MaxFaults
  BY <1>3, SupplyAssumption DEF Fault
<1>5. \A S : Doubted(S) \in [DOMAIN packs -> Nat]
  BY <1>1, DoubtedType
<1> DEFINE Typed ==
             /\ rules' \in Rules /\ shown' \subseteq DOMAIN packs
             /\ request' \in [Press -> RequestType(DOMAIN packs)]
             /\ awaited' \in Press \cup {0} /\ faults' \in 0..MaxFaults
             /\ opened' \in [DOMAIN packs -> Nat] /\ doubts' \in [DOMAIN packs -> Nat]
<1>6. Typed
  <2>1. ASSUME NEW p \in Press, NEW which \in SUBSET shown, NEW all \in BOOLEAN,
               autoCreate(p, which, all)
        PROVE  Typed
    <3>1. [at |-> "check", all |-> all, todo |-> which, made |-> {}, from |-> shown]
             \in RequestType(DOMAIN packs)
      BY <1>3 DEF RequestType
    <3>2. QED
      BY <1>3, <2>1, <3>1 DEF autoCreate
  <2>2. ASSUME NEW p \in Press, Arrives(p)
        PROVE  Typed
    BY <1>3, <2>2 DEF Arrives, Remaining, RequestType
  <2>3. ASSUME NEW p \in Press, GivesUp(p)
        PROVE  Typed
    BY <1>3, <1>4, <1>5, <2>3 DEF GivesUp
  <2>4. CASE Recalculate
    BY <1>3, <1>4, <1>5, <2>4 DEF Recalculate
  <2>5. CASE SaveRules
    BY <1>3, <1>4, <2>5 DEF SaveRules
  <2>6. QED
    BY <2>1, <2>2, <2>3, <2>4, <2>5 DEF PageStep
<1>7. QED
  BY <1>1, <1>2, <1>6 DEF SupplyTypeOK


\* What Goes makes of a request.
LEMMA GoesTo ==
    ASSUME request \in [Press -> RequestType(DOMAIN packs)],
           NEW p \in Press, NEW k \in DOMAIN packs, NEW got \in SUBSET {k}, Goes(p, k, got)
    PROVE  /\ request' \in [Press -> RequestType(DOMAIN packs)]
           /\ \A q \in Press : q # p => request'[q] = request[q]
           /\ request'[p].todo = request[p].todo \ {k}
           /\ request'[p].made = request[p].made \cup got
           /\ request'[p].from = request[p].from
           /\ request'[p].at = IF got # {} /\ request[p].todo \ {k} # {} THEN "create" ELSE "answered"
<1> DEFINE rest == request[p].todo \ {k}
           made == request[p].made \cup got
           at == IF got # {} /\ rest # {} THEN "create" ELSE "answered"
           r == [request[p] EXCEPT !.todo = rest, !.made = made, !.at = at]
<1>1. request' = [request EXCEPT ![p] = r]
  BY DEF Goes
<1>2. request[p] \in RequestType(DOMAIN packs)
  OBVIOUS
<1>3. rest \subseteq DOMAIN packs /\ made \subseteq DOMAIN packs
  BY <1>2 DEF RequestType
<1>4. at \in {"create", "answered"}
  OBVIOUS
<1> HIDE DEF rest, made, at
<1>5. r \in RequestType(DOMAIN packs)
  BY <1>2, <1>3, <1>4 DEF RequestType
<1>6. r.todo = rest /\ r.made = made /\ r.at = at /\ r.from = request[p].from
  BY <1>2 DEF RequestType
<1> HIDE DEF r
<1>7. request'[p] = r /\ \A q \in Press : q # p => request'[q] = request[q]
  BY <1>1
<1>8. request' \in [Press -> RequestType(DOMAIN packs)]
  BY <1>1, <1>5
<1>9. QED
  BY <1>6, <1>7, <1>8 DEF rest, made, at

\* A press's request is changed into one of the same kind.
LEMMA ServerTypes ==
    ASSUME SupplyTypeOK, ServerStep
    PROVE  SupplyTypeOK' /\ stage = "shown" /\ UNCHANGED draft
<1>1. stage = "shown" /\ UNCHANGED draft
  BY DEF ServerStep, Check, CreateOne, CreateResent, CreateFails, IsNext, Offered
<1>2. UNCHANGED <<used, goods, stage, sku, left, cur, packs, refused>>
  BY <1>1 DEF draft
<1>3. /\ rules \in Rules /\ shown \subseteq DOMAIN packs
      /\ request \in [Press -> RequestType(DOMAIN packs)]
      /\ awaited \in Press \cup {0} /\ faults \in 0..MaxFaults
      /\ opened \in [DOMAIN packs -> Nat] /\ doubts \in [DOMAIN packs -> Nat]
  BY <1>1 DEF SupplyTypeOK
<1>4. Fault => faults' \in 0..MaxFaults
  BY <1>3, SupplyAssumption DEF Fault
<1>5. \A S : Doubted(S) \in [DOMAIN packs -> Nat]
  BY <1>1, DoubtedType
<1> DEFINE Typed ==
             /\ UNCHANGED <<rules, shown, awaited>>
             /\ request' \in [Press -> RequestType(DOMAIN packs)]
             /\ faults' \in 0..MaxFaults
             /\ opened' \in [DOMAIN packs -> Nat] /\ doubts' \in [DOMAIN packs -> Nat]
<1>6. ASSUME NEW p \in Press, Check(p)
      PROVE  Typed
  BY <1>3, <1>6 DEF Check, RequestType
<1>7. ASSUME NEW p \in Press, NEW k \in DOMAIN packs, NEW got \in SUBSET {k}, Goes(p, k, got)
      PROVE  request' \in [Press -> RequestType(DOMAIN packs)]
  BY <1>3, <1>7, GoesTo
<1>8. ASSUME NEW p \in Press, NEW k \in DOMAIN packs,
             CreateOne(p, k) \/ CreateResent(p, k) \/ CreateFails(p, k)
      PROVE  Typed
  <2>1. request' \in [Press -> RequestType(DOMAIN packs)]
    BY <1>7, <1>8 DEF CreateOne, CreateResent, CreateFails
  <2>2. CASE CreateOne(p, k)
    BY <1>3, <2>1, <2>2 DEF CreateOne
  <2>3. CASE CreateResent(p, k)
    BY <1>3, <1>4, <1>5, <2>1, <2>3 DEF CreateResent
  <2>4. CASE CreateFails(p, k)
    <3>1. UNCHANGED <<rules, shown, awaited>> /\ faults' \in 0..MaxFaults
      BY <1>4, <2>4 DEF CreateFails
    <3>2. CASE UNCHANGED <<opened, doubts>>
      BY <1>3, <2>1, <3>1, <3>2
    <3>3. CASE opened' = [opened EXCEPT ![k] = @ + 1] /\ doubts' = Doubted({k})
      BY <1>3, <1>5, <2>1, <3>1, <3>3
    <3>4. QED
      BY <2>4, <3>2, <3>3 DEF CreateFails
  <2>5. QED
    BY <1>8, <2>2, <2>3, <2>4
<1>9. Typed
  BY <1>6, <1>8 DEF ServerStep
<1>10. QED
  BY <1>1, <1>2, <1>3, <1>9 DEF SupplyTypeOK


-----------------------------------------------------------------------------
(* Opened once.                                                            *)

\* How the number of requests that may still open a pack goes up and down.
LEMMA LiveSize ==
    ASSUME NEW k
    PROVE  /\ Cardinality(Live(k)) \in Nat
           /\ \A p : p \notin Live(k) => Cardinality(Live(k) \cup {p}) = Cardinality(Live(k)) + 1
           /\ \A p \in Live(k) : Cardinality(Live(k) \ {p}) = Cardinality(Live(k)) - 1
<1>1. IsFiniteSet(Press)
  BY FS_Interval, SupplyAssumption DEF Press
<1>2. IsFiniteSet(Live(k))
  BY <1>1, FS_Subset DEF Live
<1>3. QED
  BY <1>2, FS_CardinalityType, FS_AddElement, FS_RemoveElement

\* What is known of a pack of a draft that is shown.
LEMMA Account ==
    ASSUME SupplyTypeOK, Accounted, stage = "shown", NEW k \in DOMAIN packs
    PROVE  /\ opened[k] \in Nat /\ doubts[k] \in Nat /\ Cardinality(Live(k)) \in Nat
           /\ opened[k] + Cardinality(Live(k)) + Offers(k) <= 1 + doubts[k]
           /\ Offers(k) \in {0, 1}
BY LiveSize DEF SupplyTypeOK, Accounted, Offers

\* A press: the card is not on offer any more, but on its way.
LEMMA PressKeeps ==
    ASSUME SupplyTypeOK, Accounted, NEW p \in Press, NEW which \in SUBSET shown,
           NEW all \in BOOLEAN, autoCreate(p, which, all)
    PROVE  Waiting' /\ Accounted'
<1>1. /\ stage = "shown" /\ stage' = "shown" /\ packs' = packs /\ awaited = 0
      /\ awaited' = p /\ request[p].at = "none"
      /\ UNCHANGED <<rules, shown, opened, doubts>>
  BY DEF autoCreate, Offered, draft
<1> DEFINE r == [at |-> "check", all |-> all, todo |-> which, made |-> {}, from |-> shown]
<1>2. request' = [request EXCEPT ![p] = r]
  BY DEF autoCreate
<1>3. r.at = "check" /\ r.todo = which /\ r.made = {} /\ r.from = shown
  OBVIOUS
<1> HIDE DEF r
<1>4. request'[p] = r /\ \A q \in Press : q # p => request'[q] = request[q]
  BY <1>2 DEF SupplyTypeOK
<1>5. Waiting'
  BY <1>1, <1>3, <1>4 DEF Waiting
<1>6. ASSUME NEW k \in DOMAIN packs
      PROVE  opened'[k] + Cardinality(Live(k)') + Offers(k)' <= 1 + doubts'[k]
  <2>1. CASE k \in which
    <3>1. Live(k)' = Live(k) \cup {p} /\ p \notin Live(k)
      BY <1>1, <1>3, <1>4, <2>1 DEF Live, Busy
    <3>2. Offers(k) = 1 /\ Offers(k)' = 0
      <4>1. k \in shown /\ ~AtServer(k)
        BY <1>1, <2>1 DEF AtServer
      <4>2. p # 0
        BY SupplyAssumption DEF Press
      <4>3. AtServer(k)'
        BY <1>1, <1>3, <1>4, <2>1, <4>2 DEF AtServer, Busy
      <4>4. QED
        BY <4>1, <4>3 DEF Offers
    <3>3. Cardinality(Live(k)') = Cardinality(Live(k)) + 1
      BY <3>1, LiveSize
    <3>4. QED
      BY <1>1, <3>2, <3>3, Account
  <2>2. CASE k \notin which
    <3>1. Live(k)' = Live(k)
      BY <1>1, <1>3, <1>4, <2>2 DEF Live, Busy
    <3>2. Offers(k)' = Offers(k)
      BY <1>1, <1>3, <1>4, <2>2 DEF Offers, AtServer, Busy
    <3>3. QED
      BY <1>1, <3>1, <3>2, Account
  <2>3. QED
    BY <2>1, <2>2
<1>7. QED
  BY <1>1, <1>5, <1>6 DEF Accounted


\* An answer: a card is on the page afterwards only if it was on offer already.
LEMMA AnswerKeeps ==
    ASSUME SupplyTypeOK, Accounted, Waiting, NEW p \in Press, Arrives(p)
    PROVE  Waiting' /\ Accounted'
<1>1. /\ stage = "shown" /\ stage' = "shown" /\ packs' = packs /\ awaited = p
      /\ awaited' = 0 /\ request[p].at = "answered"
      /\ shown' = IF request[p].made = {} THEN shown ELSE Remaining(request[p])
      /\ UNCHANGED <<opened, doubts>>
  BY DEF Arrives, Offered, draft
<1>2. p # 0
  BY SupplyAssumption DEF Press
<1>3. request' = [request EXCEPT ![p].at = "over"]
  BY DEF Arrives
<1>4. /\ \A q \in Press : q # p => request'[q] = request[q]
      /\ ~Busy(request'[p])
  BY <1>3 DEF SupplyTypeOK, RequestType, Busy
<1>5. Waiting'
  BY <1>1 DEF Waiting
<1>6. ASSUME NEW k \in DOMAIN packs
      PROVE  opened'[k] + Cardinality(Live(k)') + Offers(k)' <= 1 + doubts'[k]
  <2>1. Live(k)' = Live(k)
    BY <1>1, <1>4 DEF Live, Busy
  <2>2. k \in shown' => k \in shown /\ k \notin request[p].made
    BY <1>1, <1>2 DEF Remaining, Waiting
  <2>3. k \in shown' => k \in shown /\ ~AtServer(k)
    BY <1>1, <2>2 DEF AtServer, Busy
  <2>4. Offers(k)' <= Offers(k)
    BY <1>1, <2>3 DEF Offers
  <2>5. Offers(k)' \in {0, 1}
    BY DEF Offers
  <2>6. QED
    BY <1>1, <2>1, <2>4, <2>5, Account
<1>7. QED
  BY <1>1, <1>5, <1>6 DEF Accounted

\* The page stops waiting: what is on offer again is in doubt.
LEMMA TimeoutKeeps ==
    ASSUME SupplyTypeOK, Accounted, NEW p \in Press, GivesUp(p)
    PROVE  Waiting' /\ Accounted'
<1>1. /\ stage = "shown" /\ stage' = "shown" /\ packs' = packs /\ awaited = p
      /\ awaited' = 0 /\ doubts' = Doubted(request[p].todo \cup request[p].made)
      /\ UNCHANGED <<shown, request, opened>>
  BY DEF GivesUp, Offered, draft
<1>2. Waiting'
  BY <1>1 DEF Waiting
<1>3. ASSUME NEW k \in DOMAIN packs
      PROVE  opened'[k] + Cardinality(Live(k)') + Offers(k)' <= 1 + doubts'[k]
  <2>1. Live(k)' = Live(k)
    BY <1>1 DEF Live, Busy
  <2>2. Offers(k)' \in {0, 1}
    BY DEF Offers
  <2>3. CASE k \in request[p].todo \cup request[p].made
    <3>1. doubts'[k] = doubts[k] + 1
      BY <1>1, <2>3, DoubtedType
    <3>2. QED
      BY <1>1, <2>1, <2>2, <3>1, Account
  <2>4. CASE k \notin request[p].todo \cup request[p].made
    <3>1. doubts'[k] = doubts[k]
      BY <1>1, <2>4, DoubtedType
    <3>2. Offers(k)' = Offers(k)
      BY <1>1, <2>4 DEF Offers, AtServer
    <3>3. QED
      BY <1>1, <2>1, <3>1, <3>2, Account
  <2>5. QED
    BY <2>3, <2>4
<1>4. QED
  BY <1>1, <1>2, <1>3 DEF Accounted

\* The draft made anew: the cards that come back are in doubt.
LEMMA AnewKeeps ==
    ASSUME SupplyTypeOK, Accounted, Waiting, Recalculate
    PROVE  Waiting' /\ Accounted'
<1>1. /\ stage = "shown" /\ stage' = "shown" /\ packs' = packs
      /\ shown' = DOMAIN packs /\ doubts' = Doubted({k \in DOMAIN packs : k \notin shown})
      /\ UNCHANGED <<request, awaited, opened>>
  BY DEF Recalculate, Offered, draft
<1>2. shown \subseteq shown'
  BY <1>1 DEF SupplyTypeOK
<1>3. Waiting'
  BY <1>1, <1>2 DEF Waiting
<1>4. ASSUME NEW k \in DOMAIN packs
      PROVE  opened'[k] + Cardinality(Live(k)') + Offers(k)' <= 1 + doubts'[k]
  <2>1. Live(k)' = Live(k)
    BY <1>1 DEF Live, Busy
  <2>2. Offers(k)' \in {0, 1}
    BY DEF Offers
  <2>3. CASE k \notin shown
    <3>1. doubts'[k] = doubts[k] + 1
      BY <1>1, <2>3, DoubtedType
    <3>2. QED
      BY <1>1, <2>1, <2>2, <3>1, Account
  <2>4. CASE k \in shown
    <3>1. doubts'[k] = doubts[k]
      BY <1>1, <2>4, DoubtedType
    <3>2. Offers(k)' = Offers(k)
      BY <1>1, <1>2, <2>4 DEF Offers, AtServer
    <3>3. QED
      BY <1>1, <2>1, <3>1, <3>2, Account
  <2>5. QED
    BY <2>3, <2>4
<1>5. QED
  BY <1>1, <1>3, <1>4 DEF Accounted

\* The check: the request goes on, or gives back all it has asked for.
LEMMA CheckKeeps ==
    ASSUME SupplyTypeOK, Accounted, Waiting, NEW p \in Press, Check(p)
    PROVE  Waiting' /\ Accounted'
<1>1. /\ stage = "shown" /\ stage' = "shown" /\ packs' = packs
      /\ request[p].at = "check"
      /\ UNCHANGED <<shown, awaited, opened, doubts>>
  BY DEF Check, Offered, draft
<1> DEFINE next == IF Accepted(request[p].todo) THEN "create" ELSE "answered"
<1>2. request' = [request EXCEPT ![p].at = next]
  BY DEF Check
<1>3. next \in {"create", "answered"}
  OBVIOUS
<1> HIDE DEF next
<1>4. /\ \A q \in Press : q # p => request'[q] = request[q]
      /\ request'[p].at = next /\ request'[p].from = request[p].from
      /\ request'[p].todo = request[p].todo /\ request'[p].made = request[p].made
  BY <1>2 DEF SupplyTypeOK, RequestType
<1>5. awaited \in Press \cup {0}
  BY DEF SupplyTypeOK
<1>6. Waiting'
  BY <1>1, <1>3, <1>4, <1>5 DEF Waiting
<1>7. ASSUME NEW k \in DOMAIN packs
      PROVE  opened'[k] + Cardinality(Live(k)') + Offers(k)' <= 1 + doubts'[k]
  <2>1. CASE next = "create" \/ k \notin request[p].todo
    <3>1. Live(k)' = Live(k)
      BY <1>1, <1>4, <2>1 DEF Live, Busy
    <3>2. Offers(k)' = Offers(k)
      BY <1>1, <1>4, <1>5, <2>1 DEF Offers, AtServer, Busy
    <3>3. QED
      BY <1>1, <3>1, <3>2, Account
  <2>2. CASE next = "answered" /\ k \in request[p].todo
    <3>1. Live(k)' = Live(k) \ {p} /\ p \in Live(k)
      BY <1>1, <1>4, <2>2 DEF Live, Busy
    <3>2. Cardinality(Live(k)') = Cardinality(Live(k)) - 1
      BY <3>1, LiveSize
    <3>3. CASE awaited = p
      <4>1. Offers(k) = 0 /\ Offers(k)' \in {0, 1}
        BY <1>1, <2>2, <3>3, SupplyAssumption DEF Offers, AtServer, Busy, Press
      <4>2. QED
        BY <1>1, <3>2, <4>1, Account
    <3>4. CASE awaited # p
      <4>1. Offers(k)' = Offers(k)
        BY <1>1, <1>4, <1>5, <3>4 DEF Offers, AtServer, Busy
      <4>2. QED
        BY <1>1, <3>2, <4>1, Account
    <3>5. QED
      BY <3>3, <3>4
  <2>3. QED
    BY <1>3, <2>1, <2>2
<1>8. QED
  BY <1>1, <1>6, <1>7 DEF Accounted


\* Pack k of a request ends; the packs after it go on, or are given back.
LEMMA GoesOn ==
    ASSUME SupplyTypeOK, stage = "shown", Waiting, NEW p \in Press, NEW k \in DOMAIN packs,
           NEW got \in SUBSET {k}, IsNext(p, k), Goes(p, k, got), UNCHANGED <<shown, awaited>>
    PROVE  /\ Waiting'
           /\ Cardinality(Live(k)') = Cardinality(Live(k)) - 1
           /\ got # {} => Offers(k)' = Offers(k)
           /\ got = {} => Offers(k)' <= Offers(k) + 1
           /\ \A j \in DOMAIN packs \ {k} :
                 Cardinality(Live(j)') + Offers(j)' <= Cardinality(Live(j)) + Offers(j)
<1> DEFINE at == IF got # {} /\ request[p].todo \ {k} # {} THEN "create" ELSE "answered"
<1>1. /\ request \in [Press -> RequestType(DOMAIN packs)]
      /\ request[p].at = "create" /\ k \in request[p].todo /\ awaited \in Press \cup {0}
  BY DEF SupplyTypeOK, IsNext
<1>2. /\ \A q \in Press : q # p => request'[q] = request[q]
      /\ request'[p].todo = request[p].todo \ {k}
      /\ request'[p].made = request[p].made \cup got
      /\ request'[p].from = request[p].from
      /\ request'[p].at = IF got # {} /\ request[p].todo \ {k} # {} THEN "create" ELSE "answered"
  BY <1>1, GoesTo
<1>3. at \in {"create", "answered"}
  OBVIOUS
<1>4. p # 0
  BY SupplyAssumption DEF Press
<1>5. Waiting'
  BY <1>1, <1>2, <1>3 DEF Waiting
<1>6. Live(k)' = Live(k) \ {p} /\ p \in Live(k)
  BY <1>1, <1>2 DEF Live, Busy
<1>7. Cardinality(Live(k)') = Cardinality(Live(k)) - 1
  BY <1>6, LiveSize
<1>8. \A j : Offers(j) \in {0, 1} /\ Offers(j)' \in {0, 1}
  BY DEF Offers
<1>9. ASSUME awaited # p, NEW j
      PROVE  Offers(j)' = Offers(j)
  BY <1>1, <1>2, <1>9 DEF Offers, AtServer, Busy
<1>10. ASSUME got # {}
       PROVE  Offers(k)' = Offers(k)
  <2>1. CASE awaited = p
    <3>1. AtServer(k) /\ AtServer(k)'
      BY <1>1, <1>2, <1>4, <1>10, <2>1 DEF AtServer, Busy
    <3>2. QED
      BY <3>1 DEF Offers
  <2>2. QED
    BY <1>9, <2>1
<1>11. ASSUME NEW j \in DOMAIN packs \ {k}
       PROVE  Cardinality(Live(j)') + Offers(j)' <= Cardinality(Live(j)) + Offers(j)
  <2>1. CASE j \notin request[p].todo \/ at = "create"
    <3>1. Live(j)' = Live(j)
      BY <1>1, <1>2, <2>1 DEF Live, Busy
    <3>2. AtServer(j)' <=> AtServer(j)
      BY <1>1, <1>2, <2>1 DEF AtServer, Busy
    <3>3. Offers(j)' = Offers(j)
      BY <3>2 DEF Offers
    <3>4. QED
      BY <1>8, <3>1, <3>3, LiveSize
  <2>2. CASE j \in request[p].todo /\ at = "answered"
    <3>1. Live(j)' = Live(j) \ {p} /\ p \in Live(j)
      BY <1>1, <1>2, <2>2 DEF Live, Busy
    <3>2. Cardinality(Live(j)') = Cardinality(Live(j)) - 1 /\ Cardinality(Live(j)) \in Nat
      BY <3>1, LiveSize
    <3>3. QED
      BY <1>8, <3>2
  <2>3. QED
    BY <1>3, <2>1, <2>2
<1>12. QED
  BY <1>5, <1>7, <1>8, <1>10, <1>11

\* An invoice is opened, once or by a repeated call, or the call fails.
LEMMA CreateKeeps ==
    ASSUME SupplyTypeOK, Accounted, Waiting, NEW p \in Press, NEW k \in DOMAIN packs,
           CreateOne(p, k) \/ CreateResent(p, k) \/ CreateFails(p, k)
    PROVE  Waiting' /\ Accounted'
<1>1. /\ stage = "shown" /\ stage' = "shown" /\ packs' = packs
      /\ IsNext(p, k) /\ UNCHANGED <<shown, awaited>>
  BY DEF CreateOne, CreateResent, CreateFails, IsNext, Offered, draft
<1>2. opened \in [DOMAIN packs -> Nat] /\ doubts \in [DOMAIN packs -> Nat]
  BY <1>1 DEF SupplyTypeOK
<1>3. \A j : Offers(j) \in {0, 1} /\ Offers(j)' \in {0, 1}
  BY DEF Offers
<1>4. Cardinality(Live(k)) \in Nat
  BY LiveSize
<1>5. ASSUME NEW got \in SUBSET {k}, Goes(p, k, got),
             \A j \in DOMAIN packs \ {k} : opened'[j] = opened[j] /\ doubts'[j] = doubts[j],
             \/ opened'[k] + doubts[k] <= opened[k] + doubts'[k]
             \/ got # {} /\ opened'[k] + doubts[k] <= opened[k] + doubts'[k] + 1,
             opened'[k] \in Nat, doubts'[k] \in Nat
      PROVE  Waiting' /\ Accounted'
  <2>1. /\ Waiting'
        /\ Cardinality(Live(k)') = Cardinality(Live(k)) - 1
        /\ got # {} => Offers(k)' = Offers(k)
        /\ got = {} => Offers(k)' <= Offers(k) + 1
        /\ \A j \in DOMAIN packs \ {k} :
              Cardinality(Live(j)') + Offers(j)' <= Cardinality(Live(j)) + Offers(j)
    BY <1>1, <1>5, GoesOn
  <2>2. opened'[k] + Cardinality(Live(k)') + Offers(k)' <= 1 + doubts'[k]
    BY <1>1, <1>3, <1>4, <1>5, <2>1, Account
  <2>3. ASSUME NEW j \in DOMAIN packs \ {k}
        PROVE  opened'[j] + Cardinality(Live(j)') + Offers(j)' <= 1 + doubts'[j]
    <3>1. Cardinality(Live(j)') \in Nat
      <4>1. IsFiniteSet(Press) /\ Live(j)' \subseteq Press
        BY FS_Interval, SupplyAssumption DEF Press, Live
      <4>2. QED
        BY <4>1, FS_Subset, FS_CardinalityType
    <3>2. QED
      BY <1>1, <1>3, <1>5, <2>1, <3>1, Account
  <2>4. QED
    BY <1>1, <2>1, <2>2, <2>3 DEF Accounted
<1>6. CASE CreateOne(p, k)
  <2>1. Goes(p, k, {k})
    BY <1>6 DEF CreateOne
  <2>2. /\ opened'[k] = opened[k] + 1 /\ doubts' = doubts
        /\ \A j \in DOMAIN packs \ {k} : opened'[j] = opened[j]
    BY <1>2, <1>6 DEF CreateOne
  <2>3. QED
    BY <1>2, <1>5, <2>1, <2>2
<1>7. doubts' = Doubted({k}) => /\ doubts'[k] = doubts[k] + 1
                               /\ \A j \in DOMAIN packs \ {k} : doubts'[j] = doubts[j]
  BY <1>1, DoubtedType
<1>8. CASE CreateResent(p, k)
  <2>1. Goes(p, k, {k}) /\ doubts' = Doubted({k})
    BY <1>8 DEF CreateResent
  <2>2. /\ opened'[k] = opened[k] + 2
        /\ \A j \in DOMAIN packs \ {k} : opened'[j] = opened[j]
    BY <1>2, <1>8 DEF CreateResent
  <2>3. /\ doubts'[k] = doubts[k] + 1
        /\ \A j \in DOMAIN packs \ {k} : doubts'[j] = doubts[j]
    BY <1>7, <2>1
  <2>4. opened[k] \in Nat /\ doubts[k] \in Nat
    BY <1>2
  <2>5. opened'[k] + doubts[k] <= opened[k] + doubts'[k] + 1
    BY <2>2, <2>3, <2>4
  <2>6. opened'[k] \in Nat /\ doubts'[k] \in Nat
    BY <2>2, <2>3, <2>4
  <2>7. QED
    BY <1>5, <2>1, <2>2, <2>3, <2>5, <2>6
<1>9. CASE CreateFails(p, k)
  <2>1. Goes(p, k, {})
    BY <1>9 DEF CreateFails
  <2>2. CASE UNCHANGED <<opened, doubts>>
    BY <1>2, <1>5, <2>1, <2>2
  <2>3. CASE opened' = [opened EXCEPT ![k] = @ + 1] /\ doubts' = Doubted({k})
    <3>1. /\ opened'[k] = opened[k] + 1
          /\ \A j \in DOMAIN packs \ {k} : opened'[j] = opened[j]
      BY <1>2, <2>3
    <3>2. /\ doubts'[k] = doubts[k] + 1
          /\ \A j \in DOMAIN packs \ {k} : doubts'[j] = doubts[j]
      BY <1>7, <2>3
    <3>3. opened[k] \in Nat /\ doubts[k] \in Nat
      BY <1>2
    <3>4. opened'[k] + doubts[k] <= opened[k] + doubts'[k]
      BY <3>1, <3>2, <3>3
    <3>5. opened'[k] \in Nat /\ doubts'[k] \in Nat
      BY <3>1, <3>2, <3>3
    <3>6. QED
      BY <1>5, <2>1, <3>1, <3>2, <3>4, <3>5
  <2>4. QED
    BY <1>9, <2>2, <2>3 DEF CreateFails
<1>10. QED
  BY <1>6, <1>8, <1>9

-----------------------------------------------------------------------------
(* The theorems.                                                           *)

\* The three kinds of steps keep the invariant.
LEMMA StepKeeps == IInv /\ [Next]_vars => IInv'
<1> SUFFICES ASSUME IInv, [Next]_vars PROVE IInv'
  OBVIOUS
<1>1. SupplyTypeOK /\ Filling /\ PacksFit /\ Quiet /\ Waiting /\ Accounted
  BY DEF IInv
<1>2. CASE PackStep
  <2>1. /\ SupplyTypeOK' /\ Filling' /\ PacksFit' /\ UNCHANGED <<request, awaited>>
        /\ stage' = "pack" => shown' = {}
    BY <1>1, <1>2, PackKeeps
  <2>2. stage = "pack" /\ awaited = 0 /\ request = [p \in Press |-> NoRequest]
    BY <1>1, <1>2 DEF Quiet, PackStep, NextSku, CloseFull, Take, Preview, Packing
  <2>3. Quiet' /\ Waiting'
    BY <2>1, <2>2 DEF Quiet, Waiting
  <2>4. Accounted'
    <3>1. CASE NextSku \/ CloseFull \/ Take
      BY <2>2, <3>1 DEF NextSku, CloseFull, Take, Accounted
    <3>2. CASE Preview
      <4>1. /\ packs' = close /\ opened' = [k \in DOMAIN close |-> 0]
            /\ doubts' = [k \in DOMAIN close |-> 0]
        BY <3>2 DEF Preview
      <4>2. ASSUME NEW k \in DOMAIN close
            PROVE  opened'[k] + Cardinality(Live(k)') + Offers(k)' <= 1 + doubts'[k]
        <5>1. Live(k)' = {}
          BY <2>1, <2>2 DEF Live, Busy, NoRequest
        <5>2. Cardinality(Live(k)') = 0
          BY <5>1, FS_EmptySet
        <5>3. Offers(k)' \in {0, 1}
          BY DEF Offers
        <5>4. QED
          BY <4>1, <5>2, <5>3
      <4>3. QED
        BY <4>1, <4>2 DEF Accounted
    <3>3. QED
      BY <1>2, <3>1, <3>2 DEF PackStep
  <2>5. QED
    BY <2>1, <2>3, <2>4 DEF IInv
<1>3. CASE PageStep \/ ServerStep
  <2>1. SupplyTypeOK' /\ stage = "shown" /\ UNCHANGED draft
    BY <1>1, <1>3, PageTypes, ServerTypes
  <2>2. Filling' /\ PacksFit' /\ Quiet'
    BY <1>1, <2>1 DEF draft, Filling, PacksFit, Within, Quiet
  <2>3. Waiting' /\ Accounted'
    <3>1. ASSUME NEW p \in Press,
                 autoCreate(p, shown, TRUE) \/ \E k \in shown : autoCreate(p, {k}, FALSE)
          PROVE  Waiting' /\ Accounted'
      BY <1>1, <3>1, PressKeeps
    <3>2. ASSUME NEW p \in Press, Arrives(p) \/ GivesUp(p) \/ Check(p)
          PROVE  Waiting' /\ Accounted'
      BY <1>1, <3>2, AnswerKeeps, TimeoutKeeps, CheckKeeps
    <3>3. CASE Recalculate
      BY <1>1, <3>3, AnewKeeps
    <3>4. CASE SaveRules
      BY <1>1, <3>4 DEF SaveRules, Offered, draft, Waiting, Accounted, Live, Offers,
                        AtServer, Busy
    <3>5. ASSUME NEW p \in Press, NEW k \in DOMAIN packs,
                 CreateOne(p, k) \/ CreateResent(p, k) \/ CreateFails(p, k)
          PROVE  Waiting' /\ Accounted'
      BY <1>1, <3>5, CreateKeeps
    <3>6. QED
      BY <1>3, <3>1, <3>2, <3>3, <3>4, <3>5 DEF PageStep, ServerStep
  <2>4. QED
    BY <2>1, <2>2, <2>3 DEF IInv
<1>4. CASE UNCHANGED vars
  BY <1>1, <1>4 DEF vars, draft, IInv, SupplyTypeOK, Filling, PacksFit, Within, Quiet, Waiting,
                    Accounted, Live, Offers, AtServer, Busy
<1>5. QED
  BY <1>2, <1>3, <1>4 DEF Next

LEMMA Inductive == Spec => []IInv
BY Start, StepKeeps, PTL DEF Spec

\* The variables of the draft, of the page and of the requests keep their types.
THEOREM TypeCorrect == Spec => []SupplyTypeOK
BY Inductive, PTL DEF IInv

\* Every invoice pack_invoices closes is within the rules: none is empty, none
\* is refused by the check of postavki_auto_create under the same rules.
THEOREM WithinRules == Spec => []PacksFit
BY Inductive, PTL DEF IInv

\* A card's invoice is opened again only after the page has lost sight of the
\* first one: neither the retry of the rest of a broken "Create all" nor the
\* renumbering of the cards opens one twice.
THEOREM NotTwice == Spec => []OpenedOnce
<1>1. IInv => OpenedOnce
  <2> SUFFICES ASSUME IInv, stage = "shown", NEW k \in DOMAIN packs
               PROVE  opened[k] <= 1 + doubts[k]
    BY DEF OpenedOnce
  <2>1. QED
    BY Account DEF IInv
<1>2. QED
  BY <1>1, Inductive, PTL

-----------------------------------------------------------------------------
(* Counting lines and units.                                               *)

\* The closed invoices' units of a sku, for any invoices.
InPacks(ps, s) == UNION {{k} \X (1..ps[k].take[s]) : k \in DOMAIN ps}

\* A finite union of finite lines.
LEMMA FiniteTally ==
    ASSUME NEW I, IsFiniteSet(I), NEW f \in [I -> Nat]
    PROVE  IsFiniteSet(UNION {{i} \X (1..f[i]) : i \in I})
<1> DEFINE Family == {{i} \X (1..f[i]) : i \in I}
           Of == [i \in I |-> {i} \X (1..f[i])]
<1>1. IsFiniteSet(Family)
  <2>1. Of \in Surjection(I, Family)
    BY DEF Surjection
  <2> HIDE DEF Of, Family
  <2>2. QED
    BY <2>1, FS_Surjection
<1>2. ASSUME NEW i \in I PROVE IsFiniteSet({i} \X (1..f[i]))
  <2>1. f[i] \in Int
    OBVIOUS
  <2>2. IsFiniteSet(1..f[i])
    BY <2>1, FS_Interval
  <2>3. IsFiniteSet({i})
    BY FS_Singleton
  <2>4. QED
    BY <2>2, <2>3, FS_Product
<1>3. \A T \in Family : IsFiniteSet(T)
  BY <1>2
<1> HIDE DEF Family
<1>4. IsFiniteSet(UNION Family)
  BY <1>1, <1>3, FS_UNION
<1>5. QED
  BY <1>4 DEF Family

\* k units more.
LEMMA Adds ==
    ASSUME NEW T, IsFiniteSet(T), NEW i, NEW k \in Nat,
           NEW own, own = {i} \X (1..k), T \cap own = {}
    PROVE  Cardinality(T \cup own) = Cardinality(T) + k
<1>1. IsFiniteSet(own) /\ Cardinality(own) = 1 * k
  <2>1. 1 \in Int /\ k \in Int
    OBVIOUS
  <2>2. IsFiniteSet(1..k) /\ Cardinality(1..k) = IF 1 > k THEN 0 ELSE k - 1 + 1
    BY <2>1, FS_Interval
  <2>3. (IF 1 > k THEN 0 ELSE k - 1 + 1) = k
    OBVIOUS
  <2>4. IsFiniteSet({i}) /\ Cardinality({i}) = 1
    BY FS_Singleton
  <2>5. Cardinality(1..k) = k
    BY <2>2, <2>3
  <2>6. IsFiniteSet(own) /\ Cardinality(own) = Cardinality({i}) * Cardinality(1..k)
    BY <2>2, <2>4, FS_Product
  <2>7. QED
    BY <2>4, <2>5, <2>6
<1>2. Cardinality(T \cup own) = Cardinality(T) + Cardinality(own) - Cardinality({})
  BY <1>1, FS_Union
<1>3. Cardinality(T) \in Nat /\ Cardinality({}) = 0
  BY FS_CardinalityType, FS_EmptySet
<1>4. QED
  BY <1>1, <1>2, <1>3

LEMMA SkusFinite == IsFiniteSet(Sku)
<1>1. 1 \in Int /\ NumSkus \in Int
  BY SupplyAssumption
<1>2. QED
  BY <1>1, FS_Interval DEF Sku

\* A line more of a sku.
LEMMA LineAdds ==
    ASSUME NEW take \in [Sku -> Nat], NEW s \in Sku, NEW k \in Nat, k > 0, take[s] = 0
    PROVE  LET more == [take EXCEPT ![s] = @ + k] IN
           /\ Cardinality(Lines(more)) = Cardinality(Lines(take)) + 1
           /\ Cardinality(Units(more)) = Cardinality(Units(take)) + k
<1> DEFINE more == [take EXCEPT ![s] = @ + k]
<1>1. more \in [Sku -> Nat] /\ more[s] = k /\ \A r \in Sku \ {s} : more[r] = take[r]
  OBVIOUS
<1> HIDE DEF more
<1>2. Lines(more) = Lines(take) \cup {s} /\ s \notin Lines(take)
  BY <1>1 DEF Lines
<1>3. IsFiniteSet(Lines(take))
  BY SkusFinite, FS_Subset DEF Lines
<1>4. Cardinality(Lines(more)) = Cardinality(Lines(take)) + 1
  BY <1>2, <1>3, FS_AddElement
<1>5. IsFiniteSet(Units(take))
  BY SkusFinite, FiniteTally DEF Units
<1>6. PICK own : own = {s} \X (1..k)
  OBVIOUS
<1>7. Units(more) = Units(take) \cup own /\ Units(take) \cap own = {}
  <2>1. 1..take[s] = {} /\ 1..more[s] = 1..k
    BY <1>1
  <2>2. QED
    BY <1>1, <1>6, <2>1 DEF Units
<1>8. Cardinality(Units(take) \cup own) = Cardinality(Units(take)) + k
  <2>1. Units(take) \cap own = {}
    BY <1>7
  <2>2. QED
    BY <1>5, <1>6, <2>1, Adds
<1>9. Cardinality(Units(more)) = Cardinality(Units(take)) + k
  BY <1>7, <1>8
<1>10. QED
  BY <1>4, <1>9 DEF more

\* An invoice more.
LEMMA PackAdds ==
    ASSUME NEW ps \in Seq(PackType), NEW pack \in PackType, NEW s \in Sku
    PROVE  /\ Cardinality(InPacks(Append(ps, pack), s)) = Cardinality(InPacks(ps, s)) + pack.take[s]
           /\ Cardinality(InPacks(ps, s)) \in Nat
<1> DEFINE n == Len(ps)
           k == pack.take[s]
           f == [i \in DOMAIN ps |-> ps[i].take[s]]
<1>1. n \in Nat /\ k \in Nat /\ DOMAIN ps = 1..n
  BY DEF PackType
<1>2. /\ DOMAIN Append(ps, pack) = (1..n) \cup {n + 1}
      /\ Append(ps, pack)[n + 1] = pack
      /\ \A i \in 1..n : Append(ps, pack)[i] = ps[i]
  BY <1>1
<1>3. IsFiniteSet(InPacks(ps, s))
  <2>1. f \in [DOMAIN ps -> Nat]
    <3>1. ASSUME NEW i \in DOMAIN ps PROVE ps[i].take[s] \in Nat
      <4>1. ps[i] \in PackType
        OBVIOUS
      <4>2. QED
        BY <4>1 DEF PackType
    <3>2. QED
      BY <3>1
  <2>2. IsFiniteSet(DOMAIN ps)
    <3>1. 1 \in Int /\ n \in Int
      BY <1>1
    <3>2. IsFiniteSet(1..n)
      BY <3>1, FS_Interval
    <3>3. QED
      BY <1>1, <3>2
  <2>3. InPacks(ps, s) = UNION {{i} \X (1..f[i]) : i \in DOMAIN ps}
    BY DEF InPacks
  <2> HIDE DEF f
  <2>4. QED
    BY <2>1, <2>2, <2>3, FiniteTally
<1> HIDE DEF n, k, f
<1>4. PICK own : own = {n + 1} \X (1..k)
  OBVIOUS
<1>5. InPacks(Append(ps, pack), s) = InPacks(ps, s) \cup own
  BY <1>1, <1>2, <1>4 DEF InPacks, k
<1>6. InPacks(ps, s) \cap own = {}
  <2>1. n + 1 \notin DOMAIN ps
    BY <1>1
  <2>2. QED
    BY <1>4, <2>1 DEF InPacks
<1>7. Cardinality(InPacks(Append(ps, pack), s)) = Cardinality(InPacks(ps, s)) + k
  <2>1. Cardinality(InPacks(ps, s) \cup own) = Cardinality(InPacks(ps, s)) + k
    BY <1>1, <1>3, <1>4, <1>6, Adds
  <2>2. QED
    BY <1>5, <2>1
<1>8. QED
  BY <1>3, <1>7, FS_CardinalityType DEF k

-----------------------------------------------------------------------------
(* No unit is lost.                                                        *)

\* What an invoice says of itself is true.
TrueOf(pack) ==
    /\ pack.skus = Cardinality(Lines(pack.take))
    /\ pack.units = Cardinality(Units(pack.take))

Counts == TrueOf(cur) /\ \A k \in DOMAIN packs : TrueOf(packs[k])

\* An invoice gets a second line of a sku never: what is left of it does not go
\* into the room of the one it is in.
OnceEach == left > 0 /\ cur.take[sku] > 0 => Full

Unreached ==
    \A s \in Sku : s > sku => cur.take[s] = 0 /\ \A k \in DOMAIN packs : packs[k].take[s] = 0

Rest(s) == IF s = sku THEN left ELSE 0

Sent ==
    \A s \in 1..sku : /\ Placed(s) + Rest(s) <= goods[s].stock
                      /\ Placed(s) + Rest(s) = Quantity(goods[s], used) \/ s \in refused

DInv == Counts /\ OnceEach /\ Unreached /\ Sent

\* No more is asked for than there is.
LEMMA QuantityInStock ==
    ASSUME NEW g \in Goods, NEW c \in Rules
    PROVE  Quantity(g, c) <= g.stock /\ g.stock \in Nat
<1>1. /\ g.sold \in Nat /\ g.active \in Nat /\ g.stock \in Nat
      /\ c.min \in Nat
  BY SupplyAssumption DEF IsRules
<1>2. recommend(g) \in Nat
  BY <1>1 DEF recommend, need, Lesser, Minus
<1>3. QED
  BY <1>1, <1>2 DEF Quantity, Lesser, Greater

\* What does not go into an invoice any more does not after a line of it either.
LEMMA PortionFills ==
    ASSUME SupplyTypeOK, Filling, left > 0, ~Full, Portion # left
    PROVE  used.units - (cur.units + Portion) < Lesser(used.min, left - Portion)
<1>1. /\ used.units \in Nat \ {0} /\ used.skus \in Nat \ {0} /\ used.min \in Nat \ {0}
      /\ cur.units \in Nat /\ cur.skus \in Nat /\ left \in Nat
  BY SupplyAssumption DEF SupplyTypeOK, PackType, IsRules
<1>2. cur.units <= used.units
  BY DEF Filling
<1>3. room \in Nat /\ room > 0 /\ cur.units + room = used.units
  BY <1>1, <1>2 DEF Full, room, Lesser
<1> DEFINE most == Lesser(left, room)
           short == Minus(used.min, left - most)
<1>4. most \in Nat /\ most <= left /\ (most < left => most = room) /\ (most = left \/ most < left)
  BY <1>1, <1>3 DEF Lesser
<1>5. short \in Nat /\ (short > 0 => short = used.min - (left - most))
      /\ (short = 0 => left - most >= used.min)
  BY <1>1, <1>4 DEF Minus
<1>6. Portion = IF left > most /\ short > 0 /\ most >= used.min + short
                THEN most - short ELSE most
  BY DEF Portion
<1> HIDE DEF most, short
<1>7. most < left /\ most = room
  BY <1>1, <1>4, <1>5, <1>6
<1>8. CASE Portion = most
  BY <1>1, <1>3, <1>7, <1>8 DEF Lesser
<1>9. CASE Portion = most - short /\ short > 0
  BY <1>1, <1>3, <1>5, <1>7, <1>9 DEF Lesser
<1>10. QED
  BY <1>6, <1>8, <1>9

LEMMA EmptyTrue == TrueOf(EmptyPack) /\ \A s \in Sku : EmptyPack.take[s] = 0
<1>1. EmptyPack.take = Nobody /\ EmptyPack.units = 0 /\ EmptyPack.skus = 0
  BY DEF EmptyPack
<1>2. Lines(Nobody) = {}
  BY DEF Lines, Nobody
<1>3. Units(Nobody) = {}
  <2>1. \A s \in Sku : 1..Nobody[s] = {}
    BY DEF Nobody
  <2>2. QED
    BY <2>1 DEF Units
<1>4. QED
  BY <1>1, <1>2, <1>3, FS_EmptySet DEF TrueOf, Nobody

LEMMA PlacedIs ==
    ASSUME NEW s
    PROVE  /\ Placed(s) = Cardinality(InPacks(packs, s)) + cur.take[s]
           /\ Placed(s)' = Cardinality(InPacks(packs', s)) + cur'.take[s]
BY DEF Placed, Closed, InPacks

\* An invoice is closed with all its lines, and left away only if it has none.
LEMMA CloseCounts ==
    ASSUME SupplyTypeOK, Counts
    PROVE  /\ \A k \in DOMAIN close : TrueOf(close[k])
           /\ \A s \in Sku :
                 /\ Cardinality(InPacks(close, s)) = Cardinality(InPacks(packs, s)) + cur.take[s]
                 /\ cur.take[s] = 0 /\ (\A k \in DOMAIN packs : packs[k].take[s] = 0)
                    => \A k \in DOMAIN close : close[k].take[s] = 0
<1>1. /\ packs \in Seq(PackType) /\ cur \in PackType
      /\ cur.take \in [Sku -> Nat] /\ cur.skus \in Nat
  BY DEF SupplyTypeOK, PackType
<1>2. CASE cur.skus > 0
  <2>1. close = Append(packs, cur)
    BY <1>2 DEF close
  <2>2. \A k \in DOMAIN close : close[k] = cur \/ (k \in DOMAIN packs /\ close[k] = packs[k])
    BY <1>1, <2>1
  <2>3. \A s \in Sku : Cardinality(InPacks(close, s)) = Cardinality(InPacks(packs, s)) + cur.take[s]
    BY <1>1, <2>1, PackAdds
  <2>4. \A k \in DOMAIN close : TrueOf(close[k])
    BY <2>2 DEF Counts
  <2>5. QED
    BY <2>2, <2>3, <2>4
<1>3. CASE ~(cur.skus > 0)
  <2>1. close = packs
    BY <1>3 DEF close
  <2>2. Lines(cur.take) = {}
    <3>1. IsFiniteSet(Lines(cur.take))
      BY SkusFinite, FS_Subset DEF Lines
    <3>2. Cardinality(Lines(cur.take)) = 0
      BY <1>1, <1>3 DEF Counts, TrueOf
    <3>3. QED
      BY <3>1, <3>2, FS_EmptySet
  <2>3. \A s \in Sku : cur.take[s] = 0
    BY <1>1, <2>2 DEF Lines
  <2>4. \A s \in Sku : Cardinality(InPacks(packs, s)) \in Nat
    BY <1>1, PackAdds
  <2>5. QED
    BY <2>1, <2>3, <2>4 DEF Counts
<1>4. QED
  BY <1>2, <1>3

LEMMA StartDraft == Init => DInv
<1> SUFFICES ASSUME Init PROVE DInv
  OBVIOUS
<1>1. cur = EmptyPack /\ packs = <<>> /\ left = 0 /\ sku = 0
  BY DEF Init
<1>2. Counts /\ Unreached
  BY <1>1, EmptyTrue DEF Counts, Unreached
<1>3. OnceEach /\ Sent
  BY <1>1 DEF OnceEach, Sent
<1>4. QED
  BY <1>2, <1>3 DEF DInv

\* Closing an invoice moves its lines and loses none.
LEMMA CloseKeeps ==
    ASSUME SupplyTypeOK, Filling, DInv, packs' = close, cur' = EmptyPack, UNCHANGED <<used, goods, sku>>,
           left' \in Nat, left' <= left, refused \subseteq refused',
           left' = left \/ sku \in refused'
    PROVE  DInv'
<1>1. Counts /\ Unreached /\ Sent
  BY DEF DInv
<1>2. /\ cur \in PackType /\ goods \in [Sku -> Goods] /\ sku \in 0..NumSkus /\ left \in Nat
      /\ packs \in Seq(PackType) /\ used \in Rules /\ NumSkus \in Nat
  BY SupplyAssumption DEF SupplyTypeOK
<1>3. \A s \in Sku : cur'.take[s] = 0
  BY EmptyTrue
<1>4. Counts'
  <2>1. TrueOf(cur') /\ \A k \in DOMAIN packs' : TrueOf(packs'[k])
    BY <1>1, CloseCounts, EmptyTrue
  <2>2. QED
    BY <2>1 DEF Counts, TrueOf
<1>5. OnceEach'
  <2>1. left' > 0 => sku' \in Sku
    BY <1>2 DEF Filling
  <2>2. QED
    BY <1>3, <2>1 DEF OnceEach
<1>6. Unreached'
  BY <1>1, <1>3, CloseCounts DEF Unreached
<1>7. Sent'
  <2>1. SUFFICES ASSUME NEW s \in 1..sku
                 PROVE  /\ Placed(s)' + Rest(s)' <= goods[s].stock
                        /\ Placed(s)' + Rest(s)' = Quantity(goods[s], used) \/ s \in refused'
    BY DEF Sent
  <2>2. s \in Sku
    BY <1>2 DEF Sku
  <2>3. Placed(s)' = Placed(s)
    <3>1. cur.take[s] \in Nat /\ Cardinality(InPacks(packs, s)) \in Nat
      BY <1>2, <2>2, PackAdds DEF PackType
    <3>2. QED
      BY <1>1, <1>3, <2>2, <3>1, PlacedIs, CloseCounts
  <2>4. Placed(s) \in Nat
    <3>1. cur.take[s] \in Nat /\ Cardinality(InPacks(packs, s)) \in Nat
      BY <1>2, <2>2, PackAdds DEF PackType
    <3>2. QED
      BY <3>1, PlacedIs
  <2>5. Rest(s)' \in Nat /\ Rest(s) \in Nat /\ Rest(s)' <= Rest(s)
        /\ (Rest(s)' = Rest(s) \/ s \in refused')
    BY <1>2 DEF Rest
  <2>6. goods[s].stock \in Nat
    BY <1>2, <2>2, SupplyAssumption
  <2>7. /\ Placed(s) + Rest(s) <= goods[s].stock
        /\ Placed(s) + Rest(s) = Quantity(goods[s], used) \/ s \in refused
    BY <1>1 DEF Sent
  <2>8. QED
    BY <2>3, <2>4, <2>5, <2>6, <2>7
<1>8. QED
  BY <1>4, <1>5, <1>6, <1>7 DEF DInv

\* The next sku: nothing of it is packed yet.
LEMMA NextSkuKeeps == ASSUME SupplyTypeOK, DInv, NextSku PROVE DInv'
<1>1. Counts /\ Unreached /\ Sent
  BY DEF DInv
<1>2. /\ cur \in PackType /\ goods \in [Sku -> Goods] /\ sku \in Nat /\ sku < NumSkus
      /\ packs \in Seq(PackType) /\ used \in Rules /\ NumSkus \in Nat
  BY SupplyAssumption DEF SupplyTypeOK, NextSku
<1>3. /\ left = 0 /\ sku' = sku + 1 /\ left' = Quantity(goods[sku + 1], used)
      /\ UNCHANGED <<used, goods, cur, packs, refused>>
  BY DEF NextSku
<1>4. sku + 1 \in Sku /\ sku + 1 > sku /\ sku + 1 # sku
  BY <1>2 DEF Sku
<1>5. cur.take[sku + 1] = 0 /\ \A k \in DOMAIN packs : packs[k].take[sku + 1] = 0
  BY <1>1, <1>4 DEF Unreached
<1>6. Counts'
  BY <1>1, <1>3 DEF Counts, TrueOf
<1>7. OnceEach'
  BY <1>3, <1>5 DEF OnceEach
<1>8. Unreached'
  <2>1. \A s \in Sku : s > sku + 1 => s > sku
    BY <1>2 DEF Sku
  <2>2. QED
    BY <1>1, <1>3, <2>1 DEF Unreached
<1>9. \A s : Placed(s)' = Placed(s)
  BY <1>3 DEF Placed, Closed
<1>10. Placed(sku + 1) = 0
  <2>1. \A k \in DOMAIN packs : 1..packs[k].take[sku + 1] = {}
    BY <1>5
  <2>2. Closed(sku + 1) = {}
    BY <2>1 DEF Closed
  <2>3. Cardinality({}) = 0
    BY FS_EmptySet
  <2>4. Cardinality(Closed(sku + 1)) = 0
    BY <2>2, <2>3
  <2>5. QED
    BY <1>5, <2>4 DEF Placed
<1>11. Sent'
  <2>1. SUFFICES ASSUME NEW s \in 1..(sku + 1)
                 PROVE  /\ Placed(s) + Rest(s)' <= goods[s].stock
                        /\ Placed(s) + Rest(s)' = Quantity(goods[s], used) \/ s \in refused
    BY <1>3, <1>9 DEF Sent
  <2>2. CASE s = sku + 1
    <3>1. Rest(s)' = Quantity(goods[sku + 1], used)
      BY <1>3, <2>2 DEF Rest
    <3>2. /\ Quantity(goods[sku + 1], used) <= goods[sku + 1].stock
          /\ Quantity(goods[sku + 1], used) \in Nat
      BY <1>2, <1>4, QuantityInStock, QuantityType
    <3>3. QED
      BY <1>10, <2>2, <3>1, <3>2
  <2>3. CASE s # sku + 1
    <3>1. s \in 1..sku
      BY <1>2, <2>3
    <3>2. Rest(s)' = 0 /\ Rest(s) = 0
      BY <1>3, <2>3 DEF Rest
    <3>3. QED
      BY <1>1, <3>1, <3>2 DEF Sent
  <2>4. QED
    BY <2>2, <2>3
<1>12. QED
  BY <1>6, <1>7, <1>8, <1>11 DEF DInv

\* A line: what it takes is no longer left, and what is left then does not go
\* into the same invoice.
LEMMA TakeKeeps == ASSUME SupplyTypeOK, Filling, DInv, Take PROVE DInv'
<1>1. Counts /\ OnceEach /\ Unreached /\ Sent
  BY DEF DInv
<1>2. /\ cur \in PackType /\ cur.take \in [Sku -> Nat] /\ cur.units \in Nat /\ cur.skus \in Nat
      /\ packs \in Seq(PackType) /\ sku \in 0..NumSkus /\ NumSkus \in Nat /\ left \in Nat
  BY SupplyAssumption DEF SupplyTypeOK, PackType
<1>3. left > 0 /\ ~Full /\ sku \in Sku
  BY DEF Take, Filling
<1>4. Portion \in Nat /\ Portion > 0 /\ Portion <= left
  BY <1>3, PortionFits
<1>5. PICK k \in Nat : k = Portion
  BY <1>4
<1>6. /\ cur' = [take |-> [cur.take EXCEPT ![sku] = @ + k],
                 units |-> cur.units + k, skus |-> cur.skus + 1]
      /\ left' = left - k
      /\ UNCHANGED <<used, goods, sku, packs, refused>>
  BY <1>5 DEF Take
<1>7. cur.take[sku] = 0
  BY <1>1, <1>2, <1>3 DEF OnceEach
<1>8. /\ cur'.take = [cur.take EXCEPT ![sku] = @ + k]
      /\ cur'.units = cur.units + k /\ cur'.skus = cur.skus + 1
  BY <1>6
<1>9. Counts'
  <2>1. /\ Cardinality(Lines(cur'.take)) = Cardinality(Lines(cur.take)) + 1
        /\ Cardinality(Units(cur'.take)) = Cardinality(Units(cur.take)) + k
    <3>1. cur.take \in [Sku -> Nat] /\ k \in Nat /\ k > 0
      BY <1>2, <1>4, <1>5
    <3>2. /\ Cardinality(Lines([cur.take EXCEPT ![sku] = @ + k])) = Cardinality(Lines(cur.take)) + 1
          /\ Cardinality(Units([cur.take EXCEPT ![sku] = @ + k])) = Cardinality(Units(cur.take)) + k
      BY <1>3, <1>7, <3>1, LineAdds
    <3>. QED
      BY <1>8, <3>2
  <2>2. TrueOf(cur') /\ \A i \in DOMAIN packs : TrueOf(packs[i])
    BY <1>1, <1>8, <2>1 DEF Counts, TrueOf
  <2>3. QED
    BY <1>6, <2>2 DEF Counts, TrueOf
<1>10. OnceEach'
  <2>1. SUFFICES ASSUME left' > 0 PROVE Full'
    BY DEF OnceEach
  <2>2. Portion # left
    BY <1>2, <1>5, <1>6, <2>1
  <2>3. used.units - (cur.units + k) < Lesser(used.min, left - k)
    BY <1>3, <1>5, <2>2, PortionFills
  <2>4. QED
    BY <1>6, <1>8, <2>3 DEF Full, room
<1>11. Unreached'
  <2>1. \A s \in Sku : s > sku => cur'.take[s] = cur.take[s]
    BY <1>2, <1>3, <1>8 DEF Sku
  <2>2. QED
    BY <1>1, <1>6, <2>1 DEF Unreached
<1>12. Sent'
  <2>1. SUFFICES ASSUME NEW s \in 1..sku PROVE Placed(s)' + Rest(s)' = Placed(s) + Rest(s)
    BY <1>1, <1>6 DEF Sent
  <2>2. s \in Sku
    BY <1>2 DEF Sku
  <2>3. /\ Placed(s)' = Cardinality(InPacks(packs, s)) + cur'.take[s]
        /\ Placed(s) = Cardinality(InPacks(packs, s)) + cur.take[s]
        /\ Cardinality(InPacks(packs, s)) \in Nat /\ cur.take[s] \in Nat
    BY <1>2, <1>6, <2>2, PlacedIs, PackAdds
  <2>4. CASE s = sku
    <3>1. cur'.take[s] = cur.take[s] + k /\ Rest(s)' = left - k /\ Rest(s) = left
      BY <1>2, <1>3, <1>6, <1>8, <2>4 DEF Rest
    <3>2. QED
      BY <1>2, <2>3, <3>1
  <2>5. CASE s # sku
    <3>1. cur'.take[s] = cur.take[s] /\ Rest(s)' = 0 /\ Rest(s) = 0
      BY <1>2, <1>6, <1>8, <2>2, <2>5 DEF Rest
    <3>2. QED
      BY <2>3, <3>1
  <2>6. QED
    BY <2>4, <2>5
<1>13. QED
  BY <1>9, <1>10, <1>11, <1>12 DEF DInv

LEMMA DraftKeeps == IInv /\ DInv /\ [Next]_vars => DInv'
<1> SUFFICES ASSUME IInv, DInv, [Next]_vars PROVE DInv'
  OBVIOUS
<1>1. SupplyTypeOK /\ Filling
  BY DEF IInv
<1>2. CASE NextSku
  BY <1>1, <1>2, NextSkuKeeps
<1>3. CASE CloseFull
  <2>1. /\ packs' = close /\ cur' = EmptyPack /\ UNCHANGED <<used, goods, sku>>
        /\ refused \subseteq refused' /\ ((left' = left) \/ (left' = 0 /\ sku \in refused'))
    BY <1>3 DEF CloseFull
  <2>2. left \in Nat
    BY <1>1 DEF SupplyTypeOK
  <2>3. QED
    BY <1>1, <2>1, <2>2, CloseKeeps
<1>4. CASE Take
  BY <1>1, <1>4, TakeKeeps
<1>5. CASE Preview
  <2>1. /\ packs' = close /\ cur' = EmptyPack
        /\ UNCHANGED <<used, goods, sku, left, refused>>
    BY <1>5 DEF Preview
  <2>2. left \in Nat
    BY <1>1 DEF SupplyTypeOK
  <2>3. QED
    BY <1>1, <2>1, <2>2, CloseKeeps
<1>6. CASE PageStep \/ ServerStep \/ UNCHANGED vars
  <2>1. UNCHANGED <<used, goods, sku, left, cur, packs, refused>>
    BY <1>1, <1>6, PageTypes, ServerTypes DEF draft, vars
  <2>2. Counts' /\ OnceEach' /\ Unreached'
    BY <2>1 DEF DInv, Counts, TrueOf, OnceEach, Full, room, Unreached
  <2>3. Sent'
    BY <2>1 DEF DInv, Sent, Placed, Closed, Rest
  <2>4. QED
    BY <2>2, <2>3 DEF DInv
<1>7. QED
  BY <1>2, <1>3, <1>4, <1>5, <1>6 DEF Next, PackStep

\* The draft is sound, for any number of goods and any rules: every invoice is
\* within the rules and says of itself what is in it, and every unit to be sent
\* is in exactly one of them, none beyond the stock, or its sku is reported as
\* left out.
THEOREM Sound == Spec => []DraftSound
<1>1. Init => DInv
  BY StartDraft
<1>2. IInv /\ DInv => DraftSound
  <2> SUFFICES ASSUME IInv, DInv PROVE DraftSound
    OBVIOUS
  <2>1. PacksFit
    BY DEF IInv
  <2>2. \A s \in 1..sku :
          /\ Placed(s) + (IF s = sku THEN left ELSE 0) <= goods[s].stock
          /\ Placed(s) + (IF s = sku THEN left ELSE 0) = Quantity(goods[s], used) \/ s \in refused
    BY DEF DInv, Sent, Rest
  <2>3. \A k \in DOMAIN packs : /\ packs[k].skus = Cardinality(Lines(packs[k].take))
                                /\ packs[k].units = Cardinality(Units(packs[k].take))
    BY DEF DInv, Counts, TrueOf
  <2>4. NothingLost
    BY <2>2, <2>3 DEF NothingLost
  <2>5. QED
    BY <2>1, <2>4 DEF DraftSound
<1>3. QED
  BY <1>1, <1>2, Inductive, DraftKeeps, PTL DEF Spec
=============================================================================
