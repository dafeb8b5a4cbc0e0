---------------------------- MODULE Ledger_proofs ----------------------------
(***************************************************************************)
(* Proofs about a portfolio, for every number of trades and requests: what *)
(* the check of a sale promises, the lots that the calculator makes of any *)
(* list of trades, and the value of the holdings on the chart.             *)
(***************************************************************************)
EXTENDS MCTradeLedger, FoldLaws

-----------------------------------------------------------------------------
(* The folds of the ledger. *)

NetStep == [x \in Int \X Trade |-> x[1] + Signed(x[2])]

LEMMA SignedType == ASSUME NEW e \in Trade PROVE Signed(e) \in Int
<1>1. e.quantity \in Nat
  BY LedgerAssumption DEF Trade
<1> QED
  BY <1>1 DEF Signed

LEMMA NetStepType == NetStep \in [Int \X Trade -> Int]
<1>1. \A x \in Int \X Trade : x[1] \in Int /\ x[2] \in Trade
  OBVIOUS
<1>2. \A x \in Int \X Trade : x[1] + Signed(x[2]) \in Int
  BY <1>1, SignedType
<1> QED
  BY <1>2 DEF NetStep

LEMMA ZeroInt == 0 \in Int
OBVIOUS

LEMMA NetIsFold ==
    ASSUME NEW s \in Seq(Trade)
    PROVE  NetOf(s) = Folded(NetStep, 0, s)
<1> DEFINE Rec(it) == [S \in SUBSET DOMAIN s |->
                          IF S = {} THEN 0 ELSE it[S \ {Max(S)}] + Signed(s[Max(S)])]
           jt == CHOOSE it : it = Rec(it)
<1>0. \A S \in SUBSET DOMAIN s : S # {} => S \ {Max(S)} \in SUBSET DOMAIN s /\ s[Max(S)] \in Trade
  BY Places
<1>1. PICK it : Folds(it, Int, NetStep, 0, s)
  BY NetStepType, ZeroInt, FoldExists, Zenon
<1>2. it = Rec(it)
  <2>1. it \in [SUBSET DOMAIN s -> Int] /\ \A S \in SUBSET DOMAIN s : it[S] = Value(NetStep, 0, s, it, S)
    BY <1>1 DEF Folds
  <2>2. ASSUME NEW S \in SUBSET DOMAIN s
        PROVE  it[S] = IF S = {} THEN 0 ELSE it[S \ {Max(S)}] + Signed(s[Max(S)])
    <3>1. S # {} => it[S \ {Max(S)}] \in Int /\ s[Max(S)] \in Trade
      BY <1>0, <2>1
    <3> QED
      BY <2>1, <3>1 DEF Value, NetStep
  <2> QED
    BY <2>1, <2>2
<1>3. jt = Rec(jt)
  BY <1>2, Zenon
<1>4. NetOf(s) = jt[DOMAIN s]
  BY DEF NetOf, FoldLeft, MapThenFoldSet
<1> HIDE DEF jt
<1>5. jt[{}] = 0
  BY <1>3
<1>6. ASSUME NEW S \in SUBSET DOMAIN s, S # {}, jt[S \ {Max(S)}] \in Int
      PROVE  jt[S] = NetStep[<<jt[S \ {Max(S)}], s[Max(S)]>>]
  <2>1. jt[S] = jt[S \ {Max(S)}] + Signed(s[Max(S)])
    BY <1>3, <1>6
  <2> QED
    BY <1>0, <1>6, <2>1 DEF NetStep
<1>7. IsFold(jt, NetStep, 0, s)
  <2>1. Unfolds(jt, Int, NetStep, 0, s)
    BY <1>5, <1>6 DEF Unfolds
  <2> QED
    BY <2>1, NetStepType, ZeroInt, FoldIs, Zenon
<1> QED
  BY <1>4, <1>7 DEF IsFold

\* What a list of trades leaves.
LEMMA NetLaws ==
    /\ NetOf(<<>>) = 0
    /\ \A s \in Seq(Trade) : NetOf(s) \in Int
    /\ \A s \in Seq(Trade), e \in Trade : NetOf(Append(s, e)) = NetOf(s) + Signed(e)
<1>1. <<>> \in Seq(Trade) /\ \A s \in Seq(Trade), e \in Trade : Append(s, e) \in Seq(Trade)
  OBVIOUS
<1>2. FoldLaws(NetStep, 0, Trade)
  BY NetStepType, ZeroInt, FoldedLaws, Zenon
<1>3. ASSUME NEW s \in Seq(Trade) PROVE Folded(NetStep, 0, s) \in Int
  BY NetStepType, ZeroInt, FoldedType, Zenon
<1>4. ASSUME NEW s \in Seq(Trade), NEW e \in Trade
      PROVE  Folded(NetStep, 0, Append(s, e)) = Folded(NetStep, 0, s) + Signed(e)
  <2> QED
    BY <1>2, <1>3 DEF NetStep, FoldLaws
<1> QED
  BY <1>1, <1>2, <1>3, <1>4, NetIsFold DEF FoldLaws

\* The trades of an asset, in a list of trades.
Of(s, asset) == FoldLeft(LAMBDA kept, trade : IF trade.asset = asset THEN Append(kept, trade) ELSE kept, <<>>, s)

OfStep(asset) ==
    [x \in Seq(Trade) \X Trade |-> IF x[2].asset = asset THEN Append(x[1], x[2]) ELSE x[1]]

LEMMA OfStepType ==
    ASSUME NEW asset
    PROVE  OfStep(asset) \in [Seq(Trade) \X Trade -> Seq(Trade)] /\ <<>> \in Seq(Trade)
<1>1. \A x \in Seq(Trade) \X Trade :
          x[1] \in Seq(Trade) /\ Append(x[1], x[2]) \in Seq(Trade)
  OBVIOUS
<1> QED
  BY <1>1 DEF OfStep

LEMMA OfIsFold ==
    ASSUME NEW asset, NEW s \in Seq(Trade)
    PROVE  Of(s, asset) = Folded(OfStep(asset), <<>>, s)
<1> DEFINE Rec(it) == [S \in SUBSET DOMAIN s |->
                          IF S = {} THEN <<>>
                          ELSE IF s[Max(S)].asset = asset THEN Append(it[S \ {Max(S)}], s[Max(S)])
                                                          ELSE it[S \ {Max(S)}]]
           jt == CHOOSE it : it = Rec(it)
<1>0. \A S \in SUBSET DOMAIN s : S # {} => S \ {Max(S)} \in SUBSET DOMAIN s /\ s[Max(S)] \in Trade
  BY Places
<1>1. PICK it : Folds(it, Seq(Trade), OfStep(asset), <<>>, s)
  BY OfStepType, FoldExists
<1>2. it = Rec(it)
  <2>1. /\ it \in [SUBSET DOMAIN s -> Seq(Trade)]
        /\ \A S \in SUBSET DOMAIN s : it[S] = Value(OfStep(asset), <<>>, s, it, S)
    BY <1>1 DEF Folds
  <2>2. ASSUME NEW S \in SUBSET DOMAIN s PROVE it[S] = Rec(it)[S]
    <3>1. S # {} => it[S \ {Max(S)}] \in Seq(Trade) /\ s[Max(S)] \in Trade
      BY <1>0, <2>1
    <3> QED
      BY <2>1, <3>1 DEF Value, OfStep
  <2>3. DOMAIN Rec(it) = SUBSET DOMAIN s /\ Rec(it) = [S \in DOMAIN Rec(it) |-> Rec(it)[S]]
    OBVIOUS
  <2> HIDE DEF Rec
  <2> QED
    BY <2>1, <2>2, <2>3
<1>3. jt = Rec(jt)
  BY <1>2, Zenon
<1>4. Of(s, asset) = jt[DOMAIN s]
  BY DEF Of, FoldLeft, MapThenFoldSet
<1> HIDE DEF jt
<1>5. jt[{}] = <<>>
  BY <1>3
<1>6. ASSUME NEW S \in SUBSET DOMAIN s, S # {}, jt[S \ {Max(S)}] \in Seq(Trade)
      PROVE  jt[S] = OfStep(asset)[<<jt[S \ {Max(S)}], s[Max(S)]>>]
  <2>1. jt[S] = IF s[Max(S)].asset = asset THEN Append(jt[S \ {Max(S)}], s[Max(S)]) ELSE jt[S \ {Max(S)}]
    BY <1>3, <1>6
  <2> QED
    BY <1>0, <1>6, <2>1 DEF OfStep
<1>7. IsFold(jt, OfStep(asset), <<>>, s)
  <2>1. Unfolds(jt, Seq(Trade), OfStep(asset), <<>>, s)
    BY <1>5, <1>6 DEF Unfolds
  <2> QED
    BY <2>1, OfStepType, FoldIs, Zenon
<1> QED
  BY <1>4, <1>7 DEF IsFold

LEMMA OfLaws ==
    ASSUME NEW asset
    PROVE  /\ \A s \in Seq(Trade) : Of(s, asset) \in Seq(Trade)
           /\ Of(<<>>, asset) = <<>>
           /\ \A s \in Seq(Trade), e \in Trade :
                 Of(Append(s, e), asset) = IF e.asset = asset THEN Append(Of(s, asset), e) ELSE Of(s, asset)
<1>1. <<>> \in Seq(Trade) /\ \A s \in Seq(Trade), e \in Trade : Append(s, e) \in Seq(Trade)
  OBVIOUS
<1>2. FoldLaws(OfStep(asset), <<>>, Trade)
  BY OfStepType, FoldedLaws, Zenon
<1>3. ASSUME NEW s \in Seq(Trade) PROVE Folded(OfStep(asset), <<>>, s) \in Seq(Trade)
  BY OfStepType, FoldedType, Zenon
<1>4. ASSUME NEW s \in Seq(Trade), NEW e \in Trade
      PROVE  Folded(OfStep(asset), <<>>, Append(s, e)) =
                 IF e.asset = asset THEN Append(Folded(OfStep(asset), <<>>, s), e)
                                    ELSE Folded(OfStep(asset), <<>>, s)
  BY <1>2, <1>3 DEF OfStep, FoldLaws
<1>5. \A s \in Seq(Trade) : Of(s, asset) = Folded(OfStep(asset), <<>>, s)
  BY OfIsFold
<1> QED
  BY <1>1, <1>2, <1>3, <1>4, <1>5, ZenonT(60) DEF FoldLaws

-----------------------------------------------------------------------------
(* The folds of the calculator. *)

Lot == [of: Nat, quantity: Nat]

HeldStep == [x \in Nat \X Lot |-> x[1] + x[2].quantity]

LEMMA HeldStepType == HeldStep \in [Nat \X Lot -> Nat] /\ 0 \in Nat
<1>1. \A x \in Nat \X Lot : x[1] + x[2].quantity \in Nat
  BY DEF Lot
<1> QED
  BY <1>1 DEF HeldStep

LEMMA HeldIsFold ==
    ASSUME NEW s \in Seq(Lot)
    PROVE  Held(s) = Folded(HeldStep, 0, s)
<1> DEFINE Rec(it) == [S \in SUBSET DOMAIN s |->
                          IF S = {} THEN 0 ELSE it[S \ {Max(S)}] + s[Max(S)].quantity]
           jt == CHOOSE it : it = Rec(it)
<1>0. \A S \in SUBSET DOMAIN s : S # {} => S \ {Max(S)} \in SUBSET DOMAIN s /\ s[Max(S)] \in Lot
  BY Places
<1>1. PICK it : Folds(it, Nat, HeldStep, 0, s)
  BY HeldStepType, FoldExists, Zenon
<1>2. it = Rec(it)
  <2>1. it \in [SUBSET DOMAIN s -> Nat] /\ \A S \in SUBSET DOMAIN s : it[S] = Value(HeldStep, 0, s, it, S)
    BY <1>1 DEF Folds
  <2>2. ASSUME NEW S \in SUBSET DOMAIN s
        PROVE  it[S] = IF S = {} THEN 0 ELSE it[S \ {Max(S)}] + s[Max(S)].quantity
    <3>1. S # {} => it[S \ {Max(S)}] \in Nat /\ s[Max(S)] \in Lot
      BY <1>0, <2>1
    <3> QED
      BY <2>1, <3>1 DEF Value, HeldStep
  <2> QED
    BY <2>1, <2>2
<1>3. jt = Rec(jt)
  BY <1>2, Zenon
<1>4. Held(s) = jt[DOMAIN s]
  BY DEF Held, FoldLeft, MapThenFoldSet
<1> HIDE DEF jt
<1>5. jt[{}] = 0
  BY <1>3
<1>6. ASSUME NEW S \in SUBSET DOMAIN s, S # {}, jt[S \ {Max(S)}] \in Nat
      PROVE  jt[S] = HeldStep[<<jt[S \ {Max(S)}], s[Max(S)]>>]
  <2>1. jt[S] = jt[S \ {Max(S)}] + s[Max(S)].quantity
    BY <1>3, <1>6
  <2> QED
    BY <1>0, <1>6, <2>1 DEF HeldStep
<1>7. IsFold(jt, HeldStep, 0, s)
  <2>1. Unfolds(jt, Nat, HeldStep, 0, s)
    BY <1>5, <1>6 DEF Unfolds
  <2> QED
    BY <2>1, HeldStepType, FoldIs, Zenon
<1> QED
  BY <1>4, <1>7 DEF IsFold

LEMMA HeldLaws ==
    /\ Held(<<>>) = 0
    /\ \A s \in Seq(Lot) : Held(s) \in Nat
    /\ \A s \in Seq(Lot), e \in Lot : Held(Append(s, e)) = Held(s) + e.quantity
<1>1. <<>> \in Seq(Lot) /\ \A s \in Seq(Lot), e \in Lot : Append(s, e) \in Seq(Lot)
  OBVIOUS
<1>2. FoldLaws(HeldStep, 0, Lot)
  BY HeldStepType, FoldedLaws, Zenon
<1>3. ASSUME NEW s \in Seq(Lot) PROVE Folded(HeldStep, 0, s) \in Nat
  BY HeldStepType, FoldedType, Zenon
<1>4. ASSUME NEW s \in Seq(Lot), NEW e \in Lot
      PROVE  Folded(HeldStep, 0, Append(s, e)) = Folded(HeldStep, 0, s) + e.quantity
  BY <1>2, <1>3 DEF HeldStep, FoldLaws
<1> QED
  BY <1>1, <1>2, <1>3, <1>4, HeldIsFold DEF FoldLaws

\* What a sale has taken when it has seen some of the lots.
Taken == [remaining: Nat, kept: Seq(Lot)]

Take(acc, lot) ==
    LET used == Lesser(acc.remaining, lot.quantity) IN
    [remaining |-> acc.remaining - used,
     kept |-> IF used = lot.quantity THEN acc.kept
              ELSE Append(acc.kept, [lot EXCEPT !.quantity = @ - used])]

TakeStep == [x \in Taken \X Lot |-> Take(x[1], x[2])]

Asked(quantity) == [remaining |-> quantity, kept |-> <<>>]

Taking(s, quantity) ==
    FoldLeft(LAMBDA acc, lot :
                LET used == Lesser(acc.remaining, lot.quantity) IN
                [remaining |-> acc.remaining - used,
                 kept |-> IF used = lot.quantity THEN acc.kept
                          ELSE Append(acc.kept, [lot EXCEPT !.quantity = @ - used])],
             [remaining |-> quantity, kept |-> <<>>], s)

LEMMA TakeType == ASSUME NEW acc \in Taken, NEW lot \in Lot PROVE Take(acc, lot) \in Taken
<1>1. acc.remaining \in Nat /\ acc.kept \in Seq(Lot) /\ lot.quantity \in Nat
  BY DEF Taken, Lot
<1> DEFINE used == Lesser(acc.remaining, lot.quantity)
<1>2. used \in Nat /\ acc.remaining - used \in Nat /\ lot.quantity - used \in Nat
  BY <1>1 DEF Lesser
<1> HIDE DEF used
<1>3. [lot EXCEPT !.quantity = @ - used] \in Lot
  BY <1>2 DEF Lot
<1>4. Append(acc.kept, [lot EXCEPT !.quantity = @ - used]) \in Seq(Lot)
  BY <1>1, <1>3
<1> QED
  BY <1>1, <1>2, <1>4 DEF Take, Taken, used

LEMMA TakeStepType ==
    TakeStep \in [Taken \X Lot -> Taken] /\ \A quantity \in Nat : Asked(quantity) \in Taken
<1>1. \A x \in Taken \X Lot : x[1] \in Taken /\ x[2] \in Lot
  OBVIOUS
<1>2. \A x \in Taken \X Lot : Take(x[1], x[2]) \in Taken
  BY <1>1, TakeType
<1>3. \A quantity \in Nat : Asked(quantity) \in Taken
  BY DEF Asked, Taken
<1> QED
  BY <1>2, <1>3 DEF TakeStep

LEMMA TakingIsFold ==
    ASSUME NEW quantity \in Nat, NEW s \in Seq(Lot)
    PROVE  Taking(s, quantity) = Folded(TakeStep, Asked(quantity), s)
<1> DEFINE Rec(it) == [S \in SUBSET DOMAIN s |->
                          IF S = {} THEN Asked(quantity) ELSE Take(it[S \ {Max(S)}], s[Max(S)])]
           jt == CHOOSE it : it = Rec(it)
<1>0. \A S \in SUBSET DOMAIN s : S # {} => S \ {Max(S)} \in SUBSET DOMAIN s /\ s[Max(S)] \in Lot
  BY Places
<1>1. PICK it : Folds(it, Taken, TakeStep, Asked(quantity), s)
  BY TakeStepType, FoldExists, Zenon
<1>2. it = Rec(it)
  <2>1. /\ it \in [SUBSET DOMAIN s -> Taken]
        /\ \A S \in SUBSET DOMAIN s : it[S] = Value(TakeStep, Asked(quantity), s, it, S)
    BY <1>1 DEF Folds
  <2>2. ASSUME NEW S \in SUBSET DOMAIN s
        PROVE  it[S] = IF S = {} THEN Asked(quantity) ELSE Take(it[S \ {Max(S)}], s[Max(S)])
    <3>1. S # {} => it[S \ {Max(S)}] \in Taken /\ s[Max(S)] \in Lot
      BY <1>0, <2>1
    <3> QED
      BY <2>1, <3>1 DEF Value, TakeStep
  <2> QED
    BY <2>1, <2>2
<1>3. jt = Rec(jt)
  BY <1>2, Zenon
<1>4. Taking(s, quantity) = jt[DOMAIN s]
  BY DEF Taking, Take, Asked, FoldLeft, MapThenFoldSet
<1> HIDE DEF jt
<1>5. jt[{}] = Asked(quantity)
  BY <1>3
<1>6. ASSUME NEW S \in SUBSET DOMAIN s, S # {}, jt[S \ {Max(S)}] \in Taken
      PROVE  jt[S] = TakeStep[<<jt[S \ {Max(S)}], s[Max(S)]>>]
  <2>1. jt[S] = Take(jt[S \ {Max(S)}], s[Max(S)])
    BY <1>3, <1>6
  <2> QED
    BY <1>0, <1>6, <2>1 DEF TakeStep
<1>7. IsFold(jt, TakeStep, Asked(quantity), s)
  <2>1. Unfolds(jt, Taken, TakeStep, Asked(quantity), s)
    BY <1>5, <1>6 DEF Unfolds
  <2> QED
    BY <2>1, TakeStepType, FoldIs, Zenon
<1> QED
  BY <1>4, <1>7 DEF IsFold

LEMMA TakingLaws ==
    ASSUME NEW quantity \in Nat
    PROVE  /\ Taking(<<>>, quantity) = Asked(quantity)
           /\ \A s \in Seq(Lot) : Taking(s, quantity) \in Taken
           /\ \A s \in Seq(Lot), e \in Lot : Taking(Append(s, e), quantity) = Take(Taking(s, quantity), e)
<1>1. <<>> \in Seq(Lot) /\ \A s \in Seq(Lot), e \in Lot : Append(s, e) \in Seq(Lot)
  OBVIOUS
<1>2. FoldLaws(TakeStep, Asked(quantity), Lot)
  BY TakeStepType, FoldedLaws, Zenon
<1>3. ASSUME NEW s \in Seq(Lot) PROVE Folded(TakeStep, Asked(quantity), s) \in Taken
  BY TakeStepType, FoldedType, Zenon
<1>4. ASSUME NEW s \in Seq(Lot), NEW e \in Lot
      PROVE  Folded(TakeStep, Asked(quantity), Append(s, e)) = Take(Folded(TakeStep, Asked(quantity), s), e)
  BY <1>2, <1>3 DEF TakeStep, FoldLaws
<1>5. \A s \in Seq(Lot) : Taking(s, quantity) = Folded(TakeStep, Asked(quantity), s)
  BY TakingIsFold
<1> QED
  BY <1>1, <1>2, <1>3, <1>4, <1>5 DEF FoldLaws

LEMMA ConsumeIsTaking ==
    ASSUME NEW quantity \in Nat, NEW s \in Seq(Lot)
    PROVE  Consume(s, quantity) = Taking(s, quantity).kept /\ Consume(s, quantity) \in Seq(Lot)
<1>1. Consume(s, quantity) = Taking(s, quantity).kept
  BY DEF Consume, Taking
<1>2. Taking(s, quantity) \in Taken
  BY TakingLaws
<1> QED
  BY <1>1, <1>2 DEF Taken

LotStep(s) ==
    [x \in Seq(Lot) \X DOMAIN s |->
        IF s[x[2]].side = "BUY" THEN Append(x[1], [of |-> x[2], quantity |-> s[x[2]].quantity])
        ELSE Consume(x[1], s[x[2]].quantity)]

LEMMA LotStepType ==
    ASSUME NEW s \in Seq(Trade)
    PROVE  LotStep(s) \in [Seq(Lot) \X DOMAIN s -> Seq(Lot)] /\ <<>> \in Seq(Lot)
<1>1. DOMAIN s \subseteq Nat /\ \A i \in DOMAIN s : s[i].quantity \in Nat
  <2>1. DOMAIN s \subseteq Nat /\ \A i \in DOMAIN s : s[i] \in Trade
    OBVIOUS
  <2>2. \A e \in Trade : e.quantity \in Nat
    BY LedgerAssumption DEF Trade
  <2> QED
    BY <2>1, <2>2
<1>2. ASSUME NEW x \in Seq(Lot) \X DOMAIN s
      PROVE  /\ Append(x[1], [of |-> x[2], quantity |-> s[x[2]].quantity]) \in Seq(Lot)
             /\ Consume(x[1], s[x[2]].quantity) \in Seq(Lot)
  <2>1. x[1] \in Seq(Lot) /\ x[2] \in Nat /\ s[x[2]].quantity \in Nat
    BY <1>1
  <2>2. [of |-> x[2], quantity |-> s[x[2]].quantity] \in Lot
    BY <2>1 DEF Lot
  <2> QED
    BY <2>1, <2>2, ConsumeIsTaking
<1> QED
  BY <1>2 DEF LotStep

\* The lots after each trade of a list.
LotRun(p, s) ==
    /\ p \in [0 .. Len(s) -> Seq(Lot)] /\ p[0] = <<>> /\ Lots(s) = p[Len(s)]
    /\ \A n \in 1 .. Len(s) :
          p[n] = IF s[n].side = "BUY" THEN Append(p[n - 1], [of |-> n, quantity |-> s[n].quantity])
                 ELSE Consume(p[n - 1], s[n].quantity)

LEMMA LotsRun ==
    ASSUME NEW s \in Seq(Trade)
    PROVE  \E p : LotRun(p, s)
<1> DEFINE u == [i \in DOMAIN s |-> i]
           E == DOMAIN s
           Rec(it) == [S \in SUBSET DOMAIN u |->
                          IF S = {} THEN <<>>
                          ELSE IF s[u[Max(S)]].side = "BUY"
                               THEN Append(it[S \ {Max(S)}], [of |-> u[Max(S)], quantity |-> s[u[Max(S)]].quantity])
                               ELSE Consume(it[S \ {Max(S)}], s[u[Max(S)]].quantity)]
           jt == CHOOSE it : it = Rec(it)
<1>a. u \in Seq(E) /\ Len(u) = Len(s) /\ DOMAIN u = DOMAIN s /\ Len(s) \in Nat /\ DOMAIN s = 1 .. Len(s)
      /\ \A n \in 1 .. Len(s) : u[n] = n
  OBVIOUS
<1>b. Lots(s) = jt[DOMAIN u]
  BY DEF Lots, FoldLeft, MapThenFoldSet
<1> HIDE DEF u
<1>c. LotStep(s) \in [Seq(Lot) \X E -> Seq(Lot)] /\ <<>> \in Seq(Lot)
  BY LotStepType
<1>0. \A S \in SUBSET DOMAIN u : S # {} => S \ {Max(S)} \in SUBSET DOMAIN u /\ u[Max(S)] \in E
  BY <1>a, Places
<1> HIDE DEF E
<1>1. PICK it : Folds(it, Seq(Lot), LotStep(s), <<>>, u)
  BY <1>a, <1>c, FoldExists, Zenon
<1>2. it = Rec(it)
  <2>1. /\ it \in [SUBSET DOMAIN u -> Seq(Lot)]
        /\ \A S \in SUBSET DOMAIN u : it[S] = Value(LotStep(s), <<>>, u, it, S)
    BY <1>1 DEF Folds
  <2>2. ASSUME NEW S \in SUBSET DOMAIN u PROVE it[S] = Rec(it)[S]
    <3>1. S # {} => it[S \ {Max(S)}] \in Seq(Lot) /\ u[Max(S)] \in E
      BY <1>0, <2>1
    <3> QED
      BY <2>1, <3>1 DEF Value, LotStep, E
  <2>3. DOMAIN Rec(it) = SUBSET DOMAIN u /\ Rec(it) = [S \in DOMAIN Rec(it) |-> Rec(it)[S]]
    OBVIOUS
  <2> HIDE DEF Rec
  <2> QED
    BY <2>1, <2>2, <2>3
<1>3. jt = Rec(jt)
  BY <1>2, Zenon
<1> HIDE DEF jt
<1>5. jt[{}] = <<>>
  BY <1>3
<1>6. ASSUME NEW S \in SUBSET DOMAIN u, S # {}, jt[S \ {Max(S)}] \in Seq(Lot)
      PROVE  jt[S] = LotStep(s)[<<jt[S \ {Max(S)}], u[Max(S)]>>]
  <2>1. jt[S] = IF s[u[Max(S)]].side = "BUY"
                THEN Append(jt[S \ {Max(S)}], [of |-> u[Max(S)], quantity |-> s[u[Max(S)]].quantity])
                ELSE Consume(jt[S \ {Max(S)}], s[u[Max(S)]].quantity)
    BY <1>3, <1>6
  <2> QED
    BY <1>0, <1>6, <2>1 DEF LotStep, E
<1>7. IsFold(jt, LotStep(s), <<>>, u)
  <2>1. Unfolds(jt, Seq(Lot), LotStep(s), <<>>, u)
    BY <1>5, <1>6 DEF Unfolds
  <2> QED
    BY <1>a, <1>c, <2>1, FoldIs, Zenon
<1>8. PICK p \in [0 .. Len(u) -> Seq(Lot)] : Runs(p, LotStep(s), <<>>, u)
  BY <1>a, <1>c, RunExists
<1>9. p[Len(u)] = Folded(LotStep(s), <<>>, u)
  <2>1. Runs(CHOOSE q : Runs(q, LotStep(s), <<>>, u), LotStep(s), <<>>, u)
    BY <1>8
  <2> QED
    BY <1>a, <1>8, <2>1, RunsAgree DEF Folded
<1>10. ASSUME NEW n \in 1 .. Len(s)
       PROVE  p[n] = IF s[n].side = "BUY" THEN Append(p[n - 1], [of |-> n, quantity |-> s[n].quantity])
                     ELSE Consume(p[n - 1], s[n].quantity)
  <2>1. n \in 1 .. Len(u) /\ u[n] = n /\ n \in DOMAIN s /\ p[n - 1] \in Seq(Lot)
    BY <1>a, <1>8
  <2>2. p[n] = LotStep(s)[<<p[n - 1], n>>]
    BY <2>1, <1>8 DEF Runs
  <2> QED
    BY <2>1, <2>2 DEF LotStep
<1>11. LotRun(p, s)
  BY <1>a, <1>b, <1>7, <1>8, <1>9, <1>10 DEF LotRun, Runs, IsFold
<1> QED
  BY <1>11

-----------------------------------------------------------------------------
(* What a sale leaves of the lots. *)

Full == [of: Nat, quantity: Nat \ {0}]

LEMMA FullLot == Full \subseteq Lot /\ Seq(Full) \subseteq Seq(Lot)
<1>1. ASSUME NEW e \in Full PROVE e \in Lot
  BY DEF Full, Lot
<1>2. Full \subseteq Lot
  BY <1>1
<1> QED
  BY <1>2

\* All but the first k lots are kept, whole but for the head.
Cut(s, kept, k) ==
    /\ k \in 0 .. Len(s) /\ Len(kept) = Len(s) - k
    /\ \A i \in DOMAIN kept :
          /\ kept[i].of = s[i + k].of
          /\ kept[i].quantity \in 1 .. s[i + k].quantity
          /\ i > 1 => kept[i].quantity = s[i + k].quantity

Cuts(s, quantity) ==
    LET acc == Taking(s, quantity) IN
    /\ \E k \in 0 .. Len(s) : Cut(s, acc.kept, k)
    /\ acc.remaining <= quantity
    /\ Held(acc.kept) + (quantity - acc.remaining) = Held(s)
    /\ acc.kept # <<>> => acc.remaining = 0

LEMMA TakingCuts ==
    ASSUME NEW quantity \in Nat, NEW s \in Seq(Full)
    PROVE  Cuts(s, quantity)
<1> DEFINE G == {z \in Seq(Full) : Cuts(z, quantity)}
<1>0. Full \subseteq Lot /\ Seq(Full) \subseteq Seq(Lot)
  BY FullLot
<1>1. <<>> \in G
  <2>1. Taking(<<>>, quantity) = [remaining |-> quantity, kept |-> <<>>]
    BY TakingLaws DEF Asked
  <2>2. Cut(<<>>, <<>>, 0) /\ 0 \in 0 .. Len(<<>>)
    BY DEF Cut
  <2>3. Held(<<>>) = 0
    BY HeldLaws
  <2> QED
    BY <2>1, <2>2, <2>3 DEF Cuts
<1>2. ASSUME NEW z \in Seq(Full), NEW e \in Full, z \in G PROVE Append(z, e) \in G
  <2> DEFINE acc == Taking(z, quantity)
             used == Lesser(acc.remaining, e.quantity)
             rest == [e EXCEPT !.quantity = e.quantity - used]
             next == Taking(Append(z, e), quantity)
             N == Len(z)
  <2>1. /\ acc.remaining \in Nat /\ acc.kept \in Seq(Lot) /\ acc.remaining <= quantity
        /\ Held(acc.kept) + (quantity - acc.remaining) = Held(z)
        /\ acc.kept # <<>> => acc.remaining = 0
    <3>1. acc \in Taken
      BY <1>0, TakingLaws
    <3> QED
      BY <3>1, <1>2 DEF Taken, Cuts
  <2>2. PICK k \in 0 .. Len(z) : Cut(z, acc.kept, k)
    BY <1>2 DEF Cuts
  <2>3. next = [remaining |-> acc.remaining - used,
                kept |-> IF used = e.quantity THEN acc.kept ELSE Append(acc.kept, rest)]
    <3>1. next = Take(acc, e)
      BY <1>0, TakingLaws
    <3> QED
      BY <3>1 DEF Take
  <2>4. /\ e.quantity \in Nat /\ e.quantity > 0 /\ e.of \in Nat
        /\ used \in Nat /\ used <= acc.remaining /\ used <= e.quantity
        /\ used = acc.remaining \/ used = e.quantity
        /\ acc.kept # <<>> => used = 0
    BY <2>1 DEF Full, Lesser
  <2>5. rest \in Lot /\ rest.of = e.of /\ rest.quantity = e.quantity - used
    <3>1. used \in Nat /\ e.quantity - used \in Nat
      BY <2>4
    <3> HIDE DEF used
    <3> QED
      BY <1>0, <3>1 DEF Full, Lot
  <2>6. /\ N \in Nat /\ Append(z, e) \in Seq(Full) /\ Len(Append(z, e)) = N + 1
        /\ \A i \in 1 .. N : Append(z, e)[i] = z[i]
        /\ Append(z, e)[N + 1] = e
        /\ e \in Lot /\ z \in Seq(Lot)
    BY <1>0
  <2>7. Held(Append(z, e)) = Held(z) + e.quantity /\ Held(z) \in Nat
    BY <2>6, HeldLaws
  <2>8. k \in 0 .. N /\ Len(acc.kept) = N - k
        /\ \A i \in DOMAIN acc.kept :
              /\ acc.kept[i].of = z[i + k].of
              /\ acc.kept[i].quantity \in 1 .. z[i + k].quantity
              /\ i > 1 => acc.kept[i].quantity = z[i + k].quantity
    BY <2>2 DEF Cut
  <2> DEFINE y == Append(z, e)
  <2> HIDE DEF acc, used, rest, next, N, y
  <2>11. y \in Seq(Full)
    BY <2>6 DEF y
  <2>12. /\ \E m \in 0 .. Len(y) : Cut(y, next.kept, m)
         /\ next.remaining <= quantity
         /\ Held(next.kept) + (quantity - next.remaining) = Held(y)
         /\ next.kept # <<>> => next.remaining = 0
         => Cuts(y, quantity)
    BY DEF Cuts, next, y
  <2>9. CASE used = e.quantity
    <3>1. next.kept = acc.kept /\ next.remaining = acc.remaining - used
      BY <2>3, <2>9
    <3>2. acc.kept = <<>>
      BY <2>4, <2>9
    <3>3. Cut(y, next.kept, N + 1) /\ N + 1 \in 0 .. Len(y)
      BY <3>1, <3>2, <2>6 DEF Cut, y
    <3>4. Held(next.kept) + (quantity - next.remaining) = Held(y)
      <4>1. Held(acc.kept) \in Nat
        BY <2>1, HeldLaws
      <4> QED
        BY <3>1, <4>1, <2>1, <2>4, <2>7, <2>9, SMTT(30) DEF y
    <3>5. next.remaining <= quantity /\ (next.kept # <<>> => next.remaining = 0)
      BY <3>1, <3>2, <2>1, <2>4
    <3>6. Cuts(y, quantity)
      BY <3>3, <3>4, <3>5, <2>12
    <3> QED
      BY <3>6, <2>11 DEF y
  <2>10. CASE used # e.quantity
    <3>1. next.kept = Append(acc.kept, rest) /\ next.remaining = 0
      BY <2>1, <2>3, <2>4, <2>10, SMTT(30)
    <3>2. Held(next.kept) = Held(acc.kept) + rest.quantity /\ Held(acc.kept) \in Nat
      BY <2>1, <2>5, <3>1, HeldLaws
    <3>3. Cut(y, next.kept, k) /\ k \in 0 .. Len(y)
      <4> DEFINE w == next.kept
      <4>1. /\ Len(w) = N - k + 1 /\ DOMAIN w = 1 .. (N - k) + 1 /\ DOMAIN acc.kept = 1 .. N - k
            /\ w[N - k + 1] = rest
            /\ \A i \in 1 .. N - k : w[i] = acc.kept[i]
        <5>1. Len(acc.kept) = N - k /\ N - k \in Nat /\ acc.kept \in Seq(Lot)
          BY <2>1, <2>6, <2>8
        <5> HIDE DEF w
        <5>2. w = Append(acc.kept, rest)
          BY <3>1 DEF w
        <5> QED
          BY <5>1, <5>2, <2>5
      <4>2. Len(y) = N + 1 /\ y[N + 1] = e /\ \A i \in 1 .. N : y[i] = z[i]
        BY <2>6 DEF y
      <4>3. ASSUME NEW i \in 1 .. N - k
            PROVE  /\ w[i].of = y[i + k].of /\ w[i].quantity \in 1 .. y[i + k].quantity
                   /\ i > 1 => w[i].quantity = y[i + k].quantity
        <5>1. i + k \in 1 .. N /\ i \in DOMAIN acc.kept
          BY <4>1, <2>6, <2>8
        <5>2. y[i + k] = z[i + k] /\ w[i] = acc.kept[i]
          BY <4>1, <4>2, <5>1
        <5> QED
          BY <5>1, <5>2, <2>8
      <4>4. /\ w[N - k + 1].of = y[N - k + 1 + k].of /\ w[N - k + 1].quantity \in 1 .. y[N - k + 1 + k].quantity
            /\ N - k + 1 > 1 => w[N - k + 1].quantity = y[N - k + 1 + k].quantity
        <5>1. N - k + 1 + k = N + 1
          BY <2>6, <2>8
        <5>2. N - k + 1 > 1 => used = 0
          <6>1. N - k + 1 > 1 => Len(acc.kept) # 0
            BY <2>8, <2>6
          <6>2. N - k + 1 > 1 => acc.kept # <<>>
            BY <6>1
          <6> QED
            BY <6>2, <2>4
        <5>3. rest.quantity \in 1 .. e.quantity /\ rest.of = e.of
          BY <2>4, <2>5, <2>10
        <5> QED
          BY <5>1, <5>2, <5>3, <4>1, <4>2, <2>4, <2>5, SMTT(30)
      <4>5. k \in 0 .. N + 1 /\ N + 1 - k = N - k + 1 /\ N \in Nat
        BY <2>6, <2>8
      <4> HIDE DEF w
      <4>6. \A i \in DOMAIN w : i \in 1 .. N - k \/ i = N - k + 1
        BY <4>1, <2>6, <2>8
      <4>7. Cut(y, w, k)
        BY <4>1, <4>2, <4>3, <4>4, <4>5, <4>6, SMTT(30) DEF Cut
      <4> QED
        BY <4>2, <4>5, <4>7 DEF w
    <3>4. Held(next.kept) + (quantity - next.remaining) = Held(y)
      <4>1. used = acc.remaining
        BY <2>4, <2>10
      <4> QED
        BY <3>1, <3>2, <4>1, <2>1, <2>4, <2>5, <2>7 DEF y
    <3>5. Cuts(y, quantity)
      BY <3>1, <3>3, <3>4, <2>12
    <3> QED
      BY <3>5, <2>11 DEF y
  <2> QED
    BY <2>9, <2>10 DEF y
<1> HIDE DEF G
<1>3. \A z \in Seq(Full), e \in Full : z \in G => Append(z, e) \in G
  BY <1>2
<1>4. Seq(Full) \subseteq G
  BY <1>1, <1>3, AllLists
<1>5. s \in G
  BY <1>4
<1> QED
  BY <1>5 DEF G

\* A sale takes from the oldest lots, and no more than it is for: what is left is less by the
\* whole sale, if there was as much.
LEMMA ConsumeCuts ==
    ASSUME NEW quantity \in Nat, NEW s \in Seq(Full)
    PROVE  /\ Consume(s, quantity) \in Seq(Full)
           /\ \E k \in 0 .. Len(s) : Cut(s, Consume(s, quantity), k)
           /\ Held(s) >= quantity => Held(Consume(s, quantity)) = Held(s) - quantity
<1> DEFINE acc == Taking(s, quantity)
<1>1. Full \subseteq Lot /\ s \in Seq(Lot)
  BY FullLot
<1>2. acc \in Taken /\ Consume(s, quantity) = acc.kept
  BY <1>1, TakingLaws, ConsumeIsTaking
<1>3. /\ acc.remaining \in Nat /\ acc.kept \in Seq(Lot) /\ acc.remaining <= quantity
      /\ Held(acc.kept) + (quantity - acc.remaining) = Held(s)
      /\ acc.kept # <<>> => acc.remaining = 0
  BY <1>2, TakingCuts DEF Taken, Cuts
<1>4. PICK k \in 0 .. Len(s) : Cut(s, acc.kept, k)
  BY TakingCuts DEF Cuts
<1> HIDE DEF acc
<1>5. acc.kept \in Seq(Full)
  <2>1. ASSUME NEW i \in DOMAIN acc.kept PROVE acc.kept[i] \in Full
    <3>1. acc.kept[i] \in Lot
      BY <1>3
    <3>2. i \in 1 .. Len(s) - k /\ acc.kept[i].quantity \in 1 .. s[i + k].quantity
      BY <1>3, <1>4 DEF Cut
    <3>3. i + k \in DOMAIN s
      BY <1>4, <3>2
    <3>4. s[i + k] \in Full
      BY <3>3
    <3>5. s[i + k].quantity \in Nat
      BY <3>4 DEF Full
    <3>6. acc.kept[i].quantity \in Nat \ {0}
      BY <3>2, <3>5
    <3> QED
      BY <3>1, <3>6 DEF Full, Lot
  <2> QED
    BY <2>1, <1>3
<1>6. Held(s) >= quantity => Held(acc.kept) = Held(s) - quantity
  <2>1. Held(s) \in Nat /\ Held(acc.kept) \in Nat
    BY <1>1, <1>3, HeldLaws
  <2>2. acc.kept = <<>> => Held(acc.kept) = 0
    BY HeldLaws
  <2> QED
    BY <1>3, <2>1, <2>2
<1> QED
  BY <1>2, <1>4, <1>5, <1>6

\* The lots after n trades are the latest purchases of them.
Latest(s, n, lots) ==
    /\ lots \in Seq(Full)
    /\ \A i \in DOMAIN lots :
          /\ lots[i].of \in 1 .. n /\ s[lots[i].of].side = "BUY"
          /\ lots[i].quantity \in 1 .. s[lots[i].of].quantity
          /\ i > 1 => lots[i].quantity = s[lots[i].of].quantity
          /\ \A j \in DOMAIN lots : i < j => lots[i].of < lots[j].of
    /\ lots # <<>> => \A k \in 1 .. n :
          s[k].side = "BUY" /\ lots[1].of <= k => \E i \in DOMAIN lots : lots[i].of = k

LEMMA BoughtIsLatest ==
    ASSUME NEW s, NEW n \in Nat, NEW lots, Latest(s, n, lots),
           s[n + 1].side = "BUY", s[n + 1].quantity \in Nat \ {0}
    PROVE  Latest(s, n + 1, Append(lots, [of |-> n + 1, quantity |-> s[n + 1].quantity]))
<1> DEFINE lot == [of |-> n + 1, quantity |-> s[n + 1].quantity]
           next == Append(lots, lot)
           N == Len(lots)
<1>1. lots \in Seq(Full) /\ N \in Nat /\ DOMAIN lots = 1 .. N
  BY DEF Latest
<1>2. lot \in Full /\ lot.of = n + 1 /\ lot.quantity = s[n + 1].quantity
  BY DEF Full
<1> HIDE DEF lot
<1>3. /\ next \in Seq(Full) /\ DOMAIN next = 1 .. N + 1 /\ next[N + 1] = lot
      /\ \A i \in DOMAIN lots : i \in DOMAIN next /\ next[i] = lots[i] /\ lots[i].of \in Nat /\ lots[i].of < n + 1
  BY <1>1, <1>2 DEF Latest
<1> HIDE DEF next, N
<1>4. \A i \in DOMAIN next : i \in DOMAIN lots \/ i = N + 1
  BY <1>1, <1>3
<1>5. ASSUME NEW i \in DOMAIN next
      PROVE  /\ next[i].of \in 1 .. (n + 1) /\ s[next[i].of].side = "BUY"
             /\ next[i].quantity \in 1 .. s[next[i].of].quantity
             /\ i > 1 => next[i].quantity = s[next[i].of].quantity
             /\ \A j \in DOMAIN next : i < j => next[i].of < next[j].of
  <2>1. CASE i \in DOMAIN lots
    <3>1. /\ lots[i].of \in 1 .. n /\ s[lots[i].of].side = "BUY"
          /\ lots[i].quantity \in 1 .. s[lots[i].of].quantity
          /\ i > 1 => lots[i].quantity = s[lots[i].of].quantity
          /\ \A j \in DOMAIN lots : i < j => lots[i].of < lots[j].of
      BY <2>1 DEF Latest
    <3>2. next[i] = lots[i]
      BY <1>3, <2>1
    <3>3. \A j \in DOMAIN next : i < j => next[i].of < next[j].of
      BY <1>2, <1>3, <1>4, <3>1, <3>2
    <3>4. next[i].of \in 1 .. (n + 1)
      BY <3>1, <3>2
    <3> QED
      BY <3>1, <3>2, <3>3, <3>4
  <2>2. CASE i = N + 1
    <3>1. next[i].of = n + 1 /\ next[i].quantity = s[n + 1].quantity
      BY <1>2, <1>3, <2>2
    <3>2. \A j \in DOMAIN next : ~(i < j)
      BY <1>1, <1>3, <2>2
    <3> QED
      BY <3>1, <3>2
  <2> QED
    BY <1>4, <2>1, <2>2
<1>6. ASSUME NEW k \in 1 .. (n + 1), s[k].side = "BUY", next[1].of <= k
      PROVE  \E i \in DOMAIN next : next[i].of = k
  <2>1. CASE k = n + 1
    <3>1. N + 1 \in DOMAIN next
      BY <1>1, <1>3
    <3> QED
      BY <1>2, <1>3, <2>1, <3>1
  <2>2. CASE k # n + 1
    <3>1. k \in 1 .. n
      BY <2>2
    <3>2. lots # <<>>
      <4>1. SUFFICES ASSUME lots = <<>> PROVE FALSE
        OBVIOUS
      <4>2. N = 0
        BY <4>1 DEF N
      <4>3. next[1] = lot
        BY <1>3, <4>2
      <4> QED
        BY <4>3, <1>2, <1>6, <3>1
    <3>3. 1 \in DOMAIN lots
      BY <1>1, <3>2
    <3>4. lots[1].of <= k
      BY <1>3, <1>6, <3>3
    <3>5. PICK i \in DOMAIN lots : lots[i].of = k
      BY <1>6, <3>1, <3>2, <3>4 DEF Latest
    <3> QED
      BY <1>3, <3>5
  <2> QED
    BY <2>1, <2>2
<1>7. Latest(s, n + 1, next)
  BY <1>3, <1>5, <1>6 DEF Latest
<1> QED
  BY <1>7 DEF next, lot

LEMMA SoldIsLatest ==
    ASSUME NEW s, NEW n \in Nat, NEW lots, Latest(s, n, lots),
           s[n + 1].side # "BUY", NEW quantity \in Nat, \A i \in 1 .. n : s[i].quantity \in Nat
    PROVE  Latest(s, n + 1, Consume(lots, quantity))
<1> DEFINE next == Consume(lots, quantity)
           N == Len(lots)
<1>1. lots \in Seq(Full) /\ N \in Nat /\ DOMAIN lots = 1 .. N
  BY DEF Latest
<1>2. next \in Seq(Full) /\ \E m \in 0 .. N : Cut(lots, next, m)
  BY <1>1, ConsumeCuts
<1> HIDE DEF next, N
<1>3. PICK m \in 0 .. N : Cut(lots, next, m)
  BY <1>2
<1>4. /\ DOMAIN next = 1 .. N - m
      /\ \A i \in DOMAIN next :
            /\ i \in Nat /\ i + m \in DOMAIN lots /\ next[i].of = lots[i + m].of
            /\ next[i].quantity \in 1 .. lots[i + m].quantity
            /\ i > 1 => i + m > 1 /\ next[i].quantity = lots[i + m].quantity
  BY <1>1, <1>2, <1>3 DEF Cut, N
<1>5. ASSUME NEW i \in DOMAIN next
      PROVE  /\ next[i].of \in 1 .. (n + 1) /\ s[next[i].of].side = "BUY"
             /\ next[i].quantity \in 1 .. s[next[i].of].quantity
             /\ i > 1 => next[i].quantity = s[next[i].of].quantity
             /\ \A j \in DOMAIN next : i < j => next[i].of < next[j].of
  <2> DEFINE h == i + m
  <2>1. /\ h \in DOMAIN lots /\ next[i].of = lots[h].of /\ next[i].quantity \in 1 .. lots[h].quantity
        /\ i > 1 => h > 1 /\ next[i].quantity = lots[h].quantity
    BY <1>4
  <2>0. \A j \in DOMAIN next : i < j => h < j + m
    BY <1>4
  <2> HIDE DEF h
  <2>2. /\ lots[h].of \in 1 .. n /\ s[lots[h].of].side = "BUY"
        /\ lots[h].quantity \in 1 .. s[lots[h].of].quantity
        /\ h > 1 => lots[h].quantity = s[lots[h].of].quantity
        /\ \A j \in DOMAIN lots : h < j => lots[h].of < lots[j].of
    BY <2>1 DEF Latest
  <2>3. \A j \in DOMAIN next : i < j => next[i].of < next[j].of
    <3> SUFFICES ASSUME NEW j \in DOMAIN next, i < j PROVE next[i].of < next[j].of
      OBVIOUS
    <3>1. j + m \in DOMAIN lots /\ next[j].of = lots[j + m].of /\ h < j + m
      BY <1>4, <2>0
    <3> QED
      BY <3>1, <2>1, <2>2
  <2>4. lots[h].quantity \in Nat /\ s[lots[h].of].quantity \in Nat
    <3>1. lots[h] \in Full
      BY <1>1, <2>1
    <3>2. lots[h].quantity \in Nat
      BY <3>1 DEF Full
    <3> QED
      BY <3>2, <2>2
  <2>5. next[i].quantity \in 1 .. s[next[i].of].quantity
    BY <2>1, <2>2, <2>4
  <2>6. next[i].of \in 1 .. (n + 1)
    BY <2>1, <2>2
  <2> QED
    BY <2>1, <2>2, <2>3, <2>5, <2>6
<1>6. ASSUME next # <<>>, NEW k \in 1 .. (n + 1), s[k].side = "BUY", next[1].of <= k
      PROVE  \E i \in DOMAIN next : next[i].of = k
  <2>1. 1 \in DOMAIN next
    BY <1>2, <1>6
  <2>2. 1 + m \in DOMAIN lots /\ next[1].of = lots[1 + m].of /\ 1 \in DOMAIN lots /\ lots # <<>>
    BY <1>1, <1>4, <2>1
  <2>3. k \in 1 .. n
    <3>1. k # n + 1
      BY <1>6
    <3> QED
      BY <3>1
  <2>4. \A i \in DOMAIN lots : lots[i].of \in Nat
    BY DEF Latest
  <2>5. lots[1].of <= lots[1 + m].of
    <3>1. 1 < 1 + m => lots[1].of < lots[1 + m].of
      BY <2>2 DEF Latest
    <3>2. m \in Nat
      OBVIOUS
    <3> QED
      BY <3>1, <3>2, <2>2, <2>4
  <2>6. lots[1].of <= k
    BY <1>6, <2>2, <2>4, <2>5
  <2>7. PICK i \in DOMAIN lots : lots[i].of = k
    BY <1>6, <2>2, <2>3, <2>6 DEF Latest
  <2>8. i >= 1 + m
    <3> SUFFICES ASSUME i < 1 + m PROVE FALSE
      BY <1>1
    <3>1. lots[i].of < lots[1 + m].of
      BY <2>2 DEF Latest
    <3> QED
      BY <3>1, <1>6, <2>2, <2>4, <2>7
  <2>9. i - m \in DOMAIN next /\ (i - m) + m = i
    BY <1>1, <1>4, <2>8
  <2>10. next[i - m].of = lots[(i - m) + m].of
    BY <1>4, <2>9
  <2> QED
    BY <2>7, <2>9, <2>10
<1>7. Latest(s, n + 1, next)
  BY <1>2, <1>5, <1>6 DEF Latest
<1> QED
  BY <1>7 DEF next

LEMMA TradeFields ==
    ASSUME NEW e \in Trade
    PROVE  e.side \in {"BUY", "SELL"} /\ e.quantity \in Nat \ {0} /\ e.executedAt \in Nat /\ e.asset \in Assets
BY LedgerAssumption DEF Trade, Sides

\* Of any list of trades, in any order, overdrawn or not.
LEMMA LotsLatest ==
    ASSUME NEW s \in Seq(Trade)
    PROVE  Latest(s, Len(s), Lots(s))
<1>1. PICK p : LotRun(p, s)
  BY LotsRun
<1> DEFINE N == Len(s)
           G == {n \in 0 .. N : Latest(s, n, p[n])}
<1>2. /\ N \in Nat /\ p[0] = <<>> /\ Lots(s) = p[N]
      /\ \A n \in 1 .. N : /\ s[n] \in Trade
                           /\ p[n] = IF s[n].side = "BUY"
                                     THEN Append(p[n - 1], [of |-> n, quantity |-> s[n].quantity])
                                     ELSE Consume(p[n - 1], s[n].quantity)
  BY <1>1 DEF LotRun
<1> HIDE DEF N
<1>3. 0 \in G
  <2>1. Latest(s, 0, <<>>)
    BY DEF Latest
  <2> QED
    BY <1>2, <2>1
<1>4. ASSUME NEW n \in 0 .. (N - 1), n \in G PROVE n + 1 \in G
  <2>1. n + 1 \in 1 .. N /\ (n + 1) - 1 = n /\ n \in Nat
    BY <1>2
  <2>2. /\ s[n + 1] \in Trade
        /\ p[n + 1] = IF s[n + 1].side = "BUY"
                      THEN Append(p[n], [of |-> n + 1, quantity |-> s[n + 1].quantity])
                      ELSE Consume(p[n], s[n + 1].quantity)
    BY <1>2, <2>1
  <2>3. s[n + 1].quantity \in Nat \ {0}
    BY <2>2, TradeFields
  <2>4. \A i \in 1 .. n : s[i].quantity \in Nat
    <3>1. \A i \in 1 .. n : i \in 1 .. N
      BY <1>2
    <3>2. \A i \in 1 .. n : s[i] \in Trade
      BY <1>2, <3>1
    <3> QED
      BY <3>2, TradeFields
  <2>5. Latest(s, n, p[n])
    BY <1>4
  <2>6. CASE s[n + 1].side = "BUY"
    <3>1. Latest(s, n + 1, Append(p[n], [of |-> n + 1, quantity |-> s[n + 1].quantity]))
      BY <2>1, <2>3, <2>5, <2>6, BoughtIsLatest
    <3>2. p[n + 1] = Append(p[n], [of |-> n + 1, quantity |-> s[n + 1].quantity])
      BY <2>2, <2>6
    <3>3. Latest(s, n + 1, p[n + 1])
      BY <3>1, <3>2
    <3> QED
      BY <3>3, <2>1
  <2>7. CASE s[n + 1].side # "BUY"
    <3>1. Latest(s, n + 1, Consume(p[n], s[n + 1].quantity))
      BY <2>1, <2>3, <2>4, <2>5, <2>7, SoldIsLatest
    <3> QED
      BY <3>1, <2>1, <2>2, <2>7
  <2> QED
    BY <2>6, <2>7
<1> HIDE DEF G
<1>5. \A n \in 0 .. (N - 1) : n \in G => n + 1 \in G
  BY <1>4
<1>6. 0 .. N \subseteq G
  BY <1>2, <1>3, <1>5, AllUpTo
<1>7. N \in G
  BY <1>2, <1>6
<1> QED
  BY <1>2, <1>7 DEF G, N

LEMMA PrefixNet ==
    ASSUME NEW s \in Seq(Trade)
    PROVE  /\ NetOf(SubSeq(s, 1, 0)) = 0
           /\ SubSeq(s, 1, Len(s)) = s
           /\ \A n \in 0 .. (Len(s) - 1) :
                 /\ NetOf(SubSeq(s, 1, n)) \in Int
                 /\ NetOf(SubSeq(s, 1, n + 1)) = NetOf(SubSeq(s, 1, n)) + Signed(s[n + 1])
<1>1. SubSeq(s, 1, 0) = <<>> /\ SubSeq(s, 1, Len(s)) = s
  OBVIOUS
<1>2. ASSUME NEW n \in 0 .. (Len(s) - 1)
      PROVE  /\ SubSeq(s, 1, n) \in Seq(Trade) /\ s[n + 1] \in Trade
             /\ SubSeq(s, 1, n + 1) = Append(SubSeq(s, 1, n), s[n + 1])
  OBVIOUS
<1> QED
  BY <1>1, <1>2, NetLaws, ZenonT(60)

NeverShort(s) == \A n \in 0 .. Len(s) : NetOf(SubSeq(s, 1, n)) >= 0

\* Where no sale was of more than there was, the lots hold what the trades leave.
LEMMA HeldIsNet ==
    ASSUME NEW s \in Seq(Trade), NeverShort(s)
    PROVE  Held(Lots(s)) = NetOf(s)
<1>1. PICK p : LotRun(p, s)
  BY LotsRun
<1> DEFINE N == Len(s)
           net(n) == NetOf(SubSeq(s, 1, n))
           G == {n \in 0 .. N : p[n] \in Seq(Full) /\ Held(p[n]) = net(n)}
<1>2. /\ N \in Nat /\ p[0] = <<>> /\ Lots(s) = p[N]
      /\ \A n \in 1 .. N : /\ s[n] \in Trade
                           /\ p[n] = IF s[n].side = "BUY"
                                     THEN Append(p[n - 1], [of |-> n, quantity |-> s[n].quantity])
                                     ELSE Consume(p[n - 1], s[n].quantity)
  BY <1>1 DEF LotRun
<1>3. /\ net(0) = 0 /\ net(N) = NetOf(s)
      /\ \A n \in 0 .. (N - 1) : net(n) \in Int /\ net(n + 1) = net(n) + Signed(s[n + 1])
  BY PrefixNet
<1>4. \A n \in 0 .. N : net(n) >= 0
  BY DEF NeverShort
<1> HIDE DEF N, net
<1>5. 0 \in G
  <2>1. <<>> \in Seq(Full) /\ Held(<<>>) = 0
    BY HeldLaws
  <2>2. p[0] \in Seq(Full) /\ Held(p[0]) = net(0)
    BY <1>2, <1>3, <2>1
  <2>3. 0 \in 0 .. N
    BY <1>2
  <2> QED
    BY <2>2, <2>3
<1>6. ASSUME NEW n \in 0 .. (N - 1), n \in G PROVE n + 1 \in G
  <2>1. n + 1 \in 1 .. N /\ (n + 1) - 1 = n /\ n \in Nat /\ n + 1 \in 0 .. N
    BY <1>2
  <2>2. /\ s[n + 1] \in Trade
        /\ p[n + 1] = IF s[n + 1].side = "BUY"
                      THEN Append(p[n], [of |-> n + 1, quantity |-> s[n + 1].quantity])
                      ELSE Consume(p[n], s[n + 1].quantity)
    BY <1>2, <2>1
  <2>3. s[n + 1].quantity \in Nat \ {0} /\ s[n + 1].side \in {"BUY", "SELL"}
    BY <2>2, TradeFields
  <2>4. p[n] \in Seq(Full) /\ Held(p[n]) = net(n)
    BY <1>6
  <2>5. net(n) \in Int /\ net(n + 1) = net(n) + Signed(s[n + 1]) /\ net(n + 1) >= 0
    BY <1>3, <1>4, <2>1
  <2>6. CASE s[n + 1].side = "BUY"
    <3> DEFINE lot == [of |-> n + 1, quantity |-> s[n + 1].quantity]
    <3>1. lot \in Full /\ lot \in Lot /\ p[n] \in Seq(Lot) /\ lot.quantity = s[n + 1].quantity
      BY <2>1, <2>3, <2>4, FullLot DEF Full, Lot
    <3>2. p[n + 1] = Append(p[n], lot)
      BY <2>2, <2>6
    <3> HIDE DEF lot
    <3>3. Held(p[n + 1]) = Held(p[n]) + s[n + 1].quantity
      BY <3>1, <3>2, HeldLaws
    <3>4. p[n + 1] \in Seq(Full)
      BY <2>4, <3>1, <3>2
    <3>5. net(n + 1) = net(n) + s[n + 1].quantity
      BY <2>5, <2>6 DEF Signed
    <3> QED
      BY <2>1, <2>4, <3>3, <3>4, <3>5
  <2>7. CASE s[n + 1].side # "BUY"
    <3>1. net(n + 1) = net(n) - s[n + 1].quantity
      BY <2>3, <2>5, <2>7 DEF Signed
    <3>2. Held(p[n]) >= s[n + 1].quantity
      BY <2>3, <2>4, <2>5, <3>1
    <3>3. p[n + 1] = Consume(p[n], s[n + 1].quantity)
      BY <2>2, <2>7
    <3>4. p[n + 1] \in Seq(Full) /\ Held(p[n + 1]) = Held(p[n]) - s[n + 1].quantity
      BY <2>3, <2>4, <3>2, <3>3, ConsumeCuts
    <3> QED
      BY <2>1, <2>4, <3>1, <3>4
  <2> QED
    BY <2>6, <2>7
<1> HIDE DEF G
<1>7. \A n \in 0 .. (N - 1) : n \in G => n + 1 \in G
  BY <1>6
<1>8. 0 .. N \subseteq G
  BY <1>2, <1>5, <1>7, AllUpTo
<1>9. N \in G
  BY <1>2, <1>8
<1> QED
  BY <1>2, <1>3, <1>9 DEF G

-----------------------------------------------------------------------------
(* The trades in another order: sums over sets of their places. *)

Sums(sum, t) ==
    /\ sum \in [SUBSET DOMAIN t -> Int] /\ sum[{}] = 0
    /\ \A n \in DOMAIN t : \A S \in SUBSET (1 .. n) : n \in S => sum[S] = sum[S \ {n}] + Signed(t[n])

LEMMA SumsExist ==
    ASSUME NEW t \in Seq(Trade)
    PROVE  \E sum : Sums(sum, t)
<1>1. PICK sum : Folds(sum, Int, NetStep, 0, t)
  BY NetStepType, ZeroInt, FoldExists, Zenon
<1>2. sum \in [SUBSET DOMAIN t -> Int] /\ \A S \in SUBSET DOMAIN t : sum[S] = Value(NetStep, 0, t, sum, S)
  BY <1>1 DEF Folds
<1>3. sum[{}] = 0
  BY <1>2 DEF Value
<1>4. ASSUME NEW n \in DOMAIN t, NEW S \in SUBSET (1 .. n), n \in S
      PROVE  sum[S] = sum[S \ {n}] + Signed(t[n])
  <2>1. n \in Nat /\ DOMAIN t = 1 .. Len(t) /\ S \in SUBSET DOMAIN t /\ t[n] \in Trade
    <3>1. DOMAIN t = 1 .. Len(t) /\ Len(t) \in Nat /\ t[n] \in Trade
      OBVIOUS
    <3>2. 1 .. n \subseteq 1 .. Len(t) /\ n \in Nat
      BY <3>1
    <3> QED
      BY <3>1, <3>2
  <2>2. Max(S) \in S /\ \A y \in S : y <= Max(S)
    BY <1>4, <2>1, MaxThere
  <2>3. Max(S) = n
    <3>1. Max(S) \in 1 .. n /\ n <= Max(S)
      BY <1>4, <2>2
    <3> QED
      BY <3>1, <2>1
  <2>4. sum[S] = NetStep[<<sum[S \ {n}], t[n]>>]
    BY <1>2, <1>4, <2>1, <2>3 DEF Value
  <2>5. sum[S \ {n}] \in Int
    BY <1>2, <2>1
  <2> QED
    BY <2>1, <2>4, <2>5 DEF NetStep
<1>5. Sums(sum, t)
  BY <1>2, <1>3, <1>4 DEF Sums
<1> QED
  BY <1>5

\* Any place can be taken out of the sum.
LEMMA SumWithout ==
    ASSUME NEW t \in Seq(Trade), NEW sum, Sums(sum, t), NEW S \in SUBSET DOMAIN t, NEW x \in S
    PROVE  sum[S] = sum[S \ {x}] + Signed(t[x])
<1> DEFINE N == Len(t)
           G == {n \in 0 .. N : \A T \in SUBSET (1 .. n) : \A y \in T : sum[T] = sum[T \ {y}] + Signed(t[y])}
<1>1. N \in Nat /\ DOMAIN t = 1 .. N /\ \A n \in 1 .. N : t[n] \in Trade
  OBVIOUS
<1>2. sum \in [SUBSET (1 .. N) -> Int]
      /\ \A n \in 1 .. N : \A T \in SUBSET (1 .. n) : n \in T => sum[T] = sum[T \ {n}] + Signed(t[n])
  BY <1>1 DEF Sums
<1> HIDE DEF N
<1>3. 0 \in G
  <2>1. 1 .. 0 = {}
    OBVIOUS
  <2> QED
    BY <1>1, <2>1
<1>4. ASSUME NEW n \in 0 .. (N - 1), n \in G PROVE n + 1 \in G
  <2> DEFINE m == n + 1
  <2>1. /\ m \in 1 .. N /\ 1 .. m \subseteq 1 .. N
        /\ \A T \in SUBSET (1 .. m) : T \ {m} \in SUBSET (1 .. n)
    BY <1>1
  <2>2. \A T \in SUBSET (1 .. n) : \A y \in T : sum[T] = sum[T \ {y}] + Signed(t[y])
    BY <1>4
  <2> HIDE DEF m
  <2>3. ASSUME NEW T \in SUBSET (1 .. m), NEW y \in T
        PROVE  sum[T] = sum[T \ {y}] + Signed(t[y])
    <3>1. CASE m \notin T
      <4>1. T \ {m} = T
        BY <3>1
      <4>2. T \in SUBSET (1 .. n)
        BY <4>1, <2>1
      <4> QED
        BY <4>2, <2>2
    <3>2. CASE y = m
      BY <3>2, <1>2, <2>1
    <3>3. CASE m \in T /\ y # m
      <4> DEFINE R == T \ {m}
                 U == T \ {y}
      <4>1. sum[T] = sum[R] + Signed(t[m])
        BY <3>3, <1>2, <2>1
      <4>2. sum[R] = sum[R \ {y}] + Signed(t[y])
        <5>1. R \in SUBSET (1 .. n) /\ y \in R
          BY <3>3, <2>1
        <5> HIDE DEF R
        <5> QED
          BY <5>1, <2>2
      <4>3. sum[U] = sum[U \ {m}] + Signed(t[m])
        <5>1. U \in SUBSET (1 .. m) /\ m \in U
          BY <3>3
        <5> HIDE DEF U
        <5> QED
          BY <5>1, <2>1, <1>2
      <4>4. U \ {m} = R \ {y} /\ R \ {y} \in SUBSET (1 .. N)
        BY <2>1
      <4>5. sum[R \ {y}] \in Int
        BY <1>2, <4>4
      <4>6. Signed(t[m]) \in Int /\ Signed(t[y]) \in Int
        <5>1. y \in 1 .. N
          BY <2>1
        <5> QED
          BY <5>1, <1>1, <2>1, SignedType
      <4> DEFINE V == R \ {y}
      <4>8. sum[R] = sum[V] + Signed(t[y]) /\ sum[V] \in Int
        BY <4>2, <4>5
      <4>9. sum[U] = sum[V] + Signed(t[m])
        <5>1. U \ {m} = V
          BY <4>4
        <5> HIDE DEF V, U, R
        <5> QED
          BY <4>3, <5>1
      <4> HIDE DEF R, U, V
      <4>7. sum[T] = sum[U] + Signed(t[y])
        BY <4>1, <4>6, <4>8, <4>9
      <4> QED
        BY <4>7 DEF U
    <3> QED
      BY <3>1, <3>2, <3>3
  <2>4. m \in 0 .. N
    BY <1>1, <2>1
  <2> QED
    BY <2>3, <2>4 DEF m
<1> HIDE DEF G
<1>5. \A n \in 0 .. (N - 1) : n \in G => n + 1 \in G
  BY <1>4
<1>6. 0 .. N \subseteq G
  BY <1>1, <1>3, <1>5, AllUpTo
<1>7. N \in G
  BY <1>1, <1>6
<1>8. S \in SUBSET (1 .. N)
  BY <1>1
<1> QED
  BY <1>7, <1>8 DEF G

\* What is only in A adds to the sum, what is only in B takes from it.
LEMMA SumAtLeast ==
    ASSUME NEW t \in Seq(Trade), NEW sum, Sums(sum, t),
           NEW A \in SUBSET DOMAIN t, NEW B \in SUBSET DOMAIN t,
           \A x \in A \ B : Signed(t[x]) >= 0, \A x \in B \ A : Signed(t[x]) <= 0
    PROVE  sum[A] >= sum[B]
<1> DEFINE N == Len(t)
           upto(S, n) == {x \in S : x <= n}
           G == {n \in 0 .. N : sum[upto(A, n)] >= sum[upto(B, n)]}
<1>1. N \in Nat /\ DOMAIN t = 1 .. N /\ \A n \in 1 .. N : Signed(t[n]) \in Int
  BY SignedType
<1>2. /\ sum \in [SUBSET (1 .. N) -> Int] /\ sum[{}] = 0
      /\ \A n \in 1 .. N : \A T \in SUBSET (1 .. n) : n \in T => sum[T] = sum[T \ {n}] + Signed(t[n])
  BY <1>1 DEF Sums
<1> HIDE DEF N
<1>3. 0 \in G
  <2>1. upto(A, 0) = {} /\ upto(B, 0) = {}
    BY <1>1
  <2>2. sum[upto(A, 0)] = 0 /\ sum[upto(B, 0)] = 0
    BY <2>1, <1>2
  <2> HIDE DEF upto
  <2> QED
    BY <2>2, <1>1
<1>4. ASSUME NEW n \in 0 .. (N - 1), n \in G PROVE n + 1 \in G
  <2> DEFINE m == n + 1
  <2>1. m \in 1 .. N
    BY <1>1
  <2>2. ASSUME NEW S \in SUBSET DOMAIN t
        PROVE  /\ sum[upto(S, n)] \in Int
               /\ sum[upto(S, m)] = IF m \in S THEN sum[upto(S, n)] + Signed(t[m]) ELSE sum[upto(S, n)]
    <3>1. upto(S, m) \in SUBSET (1 .. m) /\ upto(S, m) \ {m} = upto(S, n) /\ (m \in upto(S, m) <=> m \in S)
          /\ upto(S, n) \in SUBSET (1 .. N)
      BY <1>1
    <3> HIDE DEF upto, m
    <3>2. m \notin S => upto(S, m) = upto(S, n)
      BY <3>1
    <3>3. m \in S => sum[upto(S, m)] = sum[upto(S, m) \ {m}] + Signed(t[m])
      BY <3>1, <2>1, <1>2
    <3> QED
      BY <3>1, <3>2, <3>3, <1>2
  <2>3. sum[upto(A, n)] >= sum[upto(B, n)]
    BY <1>4
  <2>4. m \in A \ B => Signed(t[m]) >= 0
    OBVIOUS
  <2>5. m \in B \ A => Signed(t[m]) <= 0
    OBVIOUS
  <2> HIDE DEF m
  <2>6. Signed(t[m]) \in Int
    BY <1>1, <2>1
  <2>7. sum[upto(A, m)] >= sum[upto(B, m)]
    <3>1. /\ sum[upto(A, n)] \in Int /\ sum[upto(B, n)] \in Int
          /\ sum[upto(A, m)] = IF m \in A THEN sum[upto(A, n)] + Signed(t[m]) ELSE sum[upto(A, n)]
          /\ sum[upto(B, m)] = IF m \in B THEN sum[upto(B, n)] + Signed(t[m]) ELSE sum[upto(B, n)]
      BY <2>2
    <3> HIDE DEF upto
    <3> QED
      BY <3>1, <2>3, <2>4, <2>5, <2>6
  <2> QED
    BY <1>1, <2>1, <2>7 DEF m
<1> HIDE DEF G
<1>5. \A n \in 0 .. (N - 1) : n \in G => n + 1 \in G
  BY <1>4
<1>6. 0 .. N \subseteq G
  BY <1>1, <1>3, <1>5, AllUpTo
<1>7. N \in G
  BY <1>1, <1>6
<1>8. upto(A, N) = A /\ upto(B, N) = B
  BY <1>1
<1> QED
  BY <1>7, <1>8 DEF G

\* The sum over the places of a prefix, in any order, is what the trades of the prefix leave.
LEMMA SumOfPrefix ==
    ASSUME NEW t \in Seq(Trade), NEW sum, Sums(sum, t),
           NEW p \in [DOMAIN t -> DOMAIN t], IsInjective(p), NEW n \in 0 .. Len(t)
    PROVE  NetOf(SubSeq([i \in DOMAIN t |-> t[p[i]]], 1, n)) = sum[{p[i] : i \in 1 .. n}]
<1> DEFINE N == Len(t)
           s == [i \in DOMAIN t |-> t[p[i]]]
           net(k) == NetOf(SubSeq(s, 1, k))
           places(k) == {p[i] : i \in 1 .. k}
           G == {k \in 0 .. N : net(k) = sum[places(k)]}
<1>1. N \in Nat /\ DOMAIN t = 1 .. N /\ s \in Seq(Trade) /\ Len(s) = N /\ \A k \in 1 .. N : s[k] = t[p[k]]
  BY SMTT(30)
<1>2. net(0) = 0 /\ \A k \in 0 .. (N - 1) : net(k) \in Int /\ net(k + 1) = net(k) + Signed(s[k + 1])
  <2> HIDE DEF s
  <2> QED
    BY <1>1, PrefixNet
<1> HIDE DEF s, net, N
<1>3. 0 \in G
  <2>1. places(0) = {}
    OBVIOUS
  <2>2. sum[{}] = 0 /\ 0 \in 0 .. N
    BY <1>1 DEF Sums
  <2>3. net(0) = sum[places(0)]
    BY <2>1, <2>2, <1>2
  <2> HIDE DEF places
  <2> QED
    BY <2>2, <2>3
<1>4. ASSUME NEW k \in 0 .. (N - 1), k \in G PROVE k + 1 \in G
  <2> DEFINE m == k + 1
             S == places(m)
  <2>1. m \in 1 .. N /\ m \in 0 .. N /\ \A i \in 1 .. m : i \in DOMAIN t
    BY <1>1
  <2>2. S \in SUBSET DOMAIN t /\ p[m] \in S
    BY <2>1, <1>1
  <2>3. S \ {p[m]} = places(k)
    <3>0. m \in DOMAIN p /\ \A i \in 1 .. k : i \in DOMAIN p /\ i # m
      BY <1>1, <2>1
    <3>1. \A i \in 1 .. k : i \in DOMAIN t /\ i # m /\ p[i] # p[m]
      <4> HIDE DEF m
      <4> QED
        BY <3>0 DEF IsInjective
    <3>2. \A i \in 1 .. m : i = m \/ i \in 1 .. k
      BY <1>1
    <3>3. \A i \in 1 .. k : i \in 1 .. m
      BY <1>1
    <3> HIDE DEF m
    <3> QED
      BY <3>1, <3>2, <3>3
  <2>4. sum[S] = sum[S \ {p[m]}] + Signed(t[p[m]])
    <3> HIDE DEF S, m
    <3> QED
      BY <2>2, SumWithout
  <2>5. net(m) = net(k) + Signed(t[p[m]])
    BY <1>1, <1>2, <2>1
  <2>6. net(k) = sum[places(k)]
    BY <1>4
  <2> HIDE DEF m, places
  <2>7. net(m) = sum[places(m)]
    BY <2>3, <2>4, <2>5, <2>6
  <2> QED
    BY <2>1, <2>7 DEF m
<1> HIDE DEF G
<1>5. \A k \in 0 .. (N - 1) : k \in G => k + 1 \in G
  BY <1>4
<1>6. 0 .. N \subseteq G
  BY <1>1, <1>3, <1>5, AllUpTo
<1>7. n \in G
  BY <1>6 DEF N
<1> QED
  BY <1>7 DEF G, net, s

Backdated(t) ==
    \E i, j \in DOMAIN t :
        /\ i < j
        /\ t[i].side = "BUY" /\ t[j].side = "SELL"
        /\ t[j].executedAt <= t[i].executedAt

\* Where no sale is dated no later than a purchase recorded before it, the order of the dates
\* leaves no less than the order of recording at the same sale.
LEMMA SortedNeverShort ==
    ASSUME NEW t \in Seq(Trade), NeverShort(t), ~Backdated(t),
           NEW p \in [DOMAIN t -> DOMAIN t], IsInjective(p), InOrder([i \in DOMAIN t |-> t[p[i]]])
    PROVE  /\ NeverShort([i \in DOMAIN t |-> t[p[i]]])
           /\ NetOf([i \in DOMAIN t |-> t[p[i]]]) = NetOf(t)
<1> DEFINE N == Len(t)
           s == [i \in DOMAIN t |-> t[p[i]]]
           id == [i \in DOMAIN t |-> i]
<1>1. /\ N \in Nat /\ DOMAIN t = 1 .. N /\ s \in Seq(Trade) /\ Len(s) = N
      /\ \A i \in 1 .. N : s[i] = t[p[i]] /\ p[i] \in 1 .. N /\ t[i] \in Trade
  OBVIOUS
<1>2. \A j \in 1 .. N : \E i \in 1 .. N : p[i] = j
  <2>1. IsFiniteSet(DOMAIN t)
    BY <1>1, FS_Interval
  <2>2. p \in Injection(DOMAIN t, DOMAIN t)
    BY DEF Injection
  <2>3. p \in Surjection(DOMAIN t, DOMAIN t)
    BY <2>1, <2>2, FS_Injection
  <2> QED
    BY <1>1, <2>3 DEF Surjection
<1>3. PICK sum : Sums(sum, t)
  BY SumsExist
<1>4. \A n \in 0 .. N : NetOf(SubSeq(s, 1, n)) = sum[{p[i] : i \in 1 .. n}]
  BY <1>3, SumOfPrefix
<1>5. \A n \in 0 .. N : NetOf(SubSeq(t, 1, n)) = sum[1 .. n]
  <2>1. id \in [DOMAIN t -> DOMAIN t] /\ IsInjective(id)
    BY DEF IsInjective
  <2>2. [i \in DOMAIN t |-> t[id[i]]] = t
    BY <1>1
  <2>3. ASSUME NEW n \in 0 .. N PROVE {id[i] : i \in 1 .. n} = 1 .. n
    <3>1. \A i \in 1 .. n : i \in DOMAIN t /\ id[i] = i
      BY <1>1
    <3> HIDE DEF id
    <3> QED
      BY <3>1
  <2> HIDE DEF id
  <2>4. \A n \in 0 .. N : NetOf(SubSeq([i \in DOMAIN t |-> t[id[i]]], 1, n)) = sum[{id[i] : i \in 1 .. n}]
    BY <1>3, <2>1, SumOfPrefix
  <2> QED
    BY <2>2, <2>3, <2>4
<1>6. \A i, j \in 1 .. N : i < j => t[p[i]].executedAt <= t[p[j]].executedAt
  BY <1>1 DEF InOrder
<1> HIDE DEF s
<1>7. ASSUME NEW n \in 0 .. N PROVE NetOf(SubSeq(s, 1, n)) >= 0
  <2> DEFINE P == {p[i] : i \in 1 .. n}
             Sold == {j \in P : t[j].side = "SELL"}
             J == IF Sold = {} THEN 0 ELSE Max(Sold)
             B == 1 .. J
  <2>1. P \in SUBSET (1 .. N) /\ Sold \in SUBSET (1 .. N)
    BY <1>1
  <2>2. J \in 0 .. N /\ (J # 0 => J \in Sold) /\ \A j \in Sold : j <= J
    <3> HIDE DEF Sold
    <3>1. Sold # {} => Max(Sold) \in Sold /\ \A j \in Sold : j <= Max(Sold)
      BY <1>1, <2>1, MaxThere
    <3>2. CASE Sold = {}
      BY <1>1, <3>2
    <3>3. CASE Sold # {}
      <4>1. J \in Sold /\ \A j \in Sold : j <= J
        BY <3>1, <3>3
      <4>2. J \in 1 .. N
        BY <4>1, <2>1
      <4> HIDE DEF J
      <4> QED
        BY <4>1, <4>2, <1>1
    <3> QED
      BY <3>2, <3>3
  <2>3. ASSUME NEW j \in 1 .. N PROVE Signed(t[j]) >= 0 <=> t[j].side = "BUY"
    <3>1. t[j].side \in {"BUY", "SELL"} /\ t[j].quantity \in Nat \ {0}
      BY <1>1, TradeFields
    <3> QED
      BY <3>1 DEF Signed
  <2>4. ASSUME NEW j \in 1 .. N PROVE Signed(t[j]) <= 0 <=> t[j].side = "SELL"
    <3>1. t[j].side \in {"BUY", "SELL"} /\ t[j].quantity \in Nat \ {0}
      BY <1>1, TradeFields
    <3> QED
      BY <3>1 DEF Signed
  <2>5. \A x \in P \ B : Signed(t[x]) >= 0
    <3> SUFFICES ASSUME NEW x \in P, x \notin B PROVE Signed(t[x]) >= 0
      OBVIOUS
    <3>1. x \in 1 .. N /\ t[x].side \in {"BUY", "SELL"}
      BY <1>1, <2>1, TradeFields
    <3>2. x \notin Sold
      <4> HIDE DEF Sold, P, J
      <4> QED
        BY <1>1, <2>2, <3>1
    <3>3. t[x].side = "BUY"
      BY <3>1, <3>2
    <3> QED
      BY <2>3, <3>1, <3>3
  <2>6. \A x \in B \ P : Signed(t[x]) <= 0
    <3> SUFFICES ASSUME NEW x \in B, x \notin P PROVE Signed(t[x]) <= 0
      OBVIOUS
    <3>1. x \in 1 .. N /\ x \in Nat /\ J # 0 /\ x <= J /\ J \in 1 .. N
      <4> HIDE DEF J
      <4> QED
        BY <1>1, <2>2
    <3>2. J \in Sold /\ J \in P /\ t[J].side = "SELL"
      <4>1. J \in Sold
        BY <2>2, <3>1
      <4> HIDE DEF J
      <4> QED
        BY <4>1
    <3> HIDE DEF J, Sold
    <3>3. x < J
      BY <3>1, <3>2
    <3>4. SUFFICES ASSUME t[x].side = "BUY" PROVE FALSE
      <4>1. t[x].side \in {"BUY", "SELL"}
        BY <1>1, <3>1, TradeFields
      <4> QED
        BY <4>1, <2>4, <3>1
    <3>5. ~(t[J].executedAt <= t[x].executedAt)
      BY <1>1, <3>1, <3>2, <3>3, <3>4 DEF Backdated
    <3>6. PICK k \in 1 .. n : p[k] = J
      BY <3>2
    <3>7. PICK h \in 1 .. N : p[h] = x
      BY <1>2, <3>1
    <3>8. h \notin 1 .. n
      BY <3>4, <3>7
    <3>9. k \in 1 .. N /\ k < h
      BY <1>1, <3>6, <3>7, <3>8
    <3>10. t[J].executedAt <= t[x].executedAt
      BY <1>6, <3>6, <3>7, <3>9
    <3> QED
      BY <3>5, <3>10
  <2>7. sum[P] >= sum[B]
    <3>1. B \in SUBSET (1 .. N)
      <4> HIDE DEF J
      <4> QED
        BY <1>1, <2>2
    <3> HIDE DEF B, P
    <3>2. P \in SUBSET DOMAIN t /\ B \in SUBSET DOMAIN t
      BY <1>1, <2>1, <3>1
    <3> QED
      BY <1>3, <2>5, <2>6, <3>2, SumAtLeast
  <2>8. sum[B] >= 0
    <3>1. NetOf(SubSeq(t, 1, J)) >= 0 /\ NetOf(SubSeq(t, 1, J)) = sum[B]
      BY <1>5, <2>2 DEF NeverShort
    <3> QED
      BY <3>1
  <2>9. sum[P] \in Int /\ sum[B] \in Int
    <3>1. B \in SUBSET (1 .. N)
      <4> HIDE DEF J
      <4> QED
        BY <1>1, <2>2
    <3> HIDE DEF B, P
    <3> QED
      BY <1>1, <1>3, <2>1, <3>1 DEF Sums
  <2>10. NetOf(SubSeq(s, 1, n)) = sum[P]
    BY <1>4
  <2> HIDE DEF P, B
  <2> QED
    BY <2>7, <2>8, <2>9, <2>10
<1>8. NetOf(s) = NetOf(t)
  <2>1. SubSeq(s, 1, N) = s /\ SubSeq(t, 1, N) = t
    BY <1>1, PrefixNet
  <2>2. {p[i] : i \in 1 .. N} = 1 .. N
    BY <1>1, <1>2
  <2>4. N \in 0 .. N
    BY <1>1
  <2> HIDE DEF N
  <2>3. NetOf(SubSeq(s, 1, N)) = sum[{p[i] : i \in 1 .. N}] /\ NetOf(SubSeq(t, 1, N)) = sum[1 .. N]
    BY <2>4, <1>4, <1>5
  <2> QED
    BY <2>1, <2>2, <2>3
<1>9. NeverShort(s)
  BY <1>1, <1>7 DEF NeverShort
<1> QED
  BY <1>8, <1>9 DEF s

-----------------------------------------------------------------------------
(* The check of a sale. *)

Jobs ==
    \A r \in Requests :
        LET job == req[r] IN
        /\ job.pc = "opened" => job.order \in Order
        /\ job.pc = "saving" /\ job.order.side = "SELL" =>
              /\ job.read <= sales[job.order.asset]
              /\ job.read = sales[job.order.asset] => NetOf(Of(trades, job.order.asset)) >= job.order.quantity

Covered == \A a \in Assets \ overtaken : NeverShort(Of(trades, a))

\* While no sale was inserted since its check, the check still covers it; and so no list of
\* trades, and no beginning of one, leaves less than nothing.
Solvent == TypeOK /\ Jobs /\ Covered

LEMMA OfTrades == \A a : TradesOf(a) = Of(trades, a) /\ Available(a) = NetOf(Of(trades, a))
BY DEF TradesOf, Of, Available

LEMMA ShortAppend ==
    ASSUME NEW s \in Seq(Trade), NEW e \in Trade, NeverShort(s), NetOf(s) + Signed(e) >= 0
    PROVE  NeverShort(Append(s, e))
<1> DEFINE y == Append(s, e)
           N == Len(s)
<1>1. /\ N \in Nat /\ Len(y) = N + 1 /\ SubSeq(y, 1, N + 1) = y
      /\ \A n \in 0 .. N : SubSeq(y, 1, n) = SubSeq(s, 1, n)
  OBVIOUS
<1>2. NetOf(y) >= 0
  BY NetLaws
<1> HIDE DEF y, N
<1>3. ASSUME NEW n \in 0 .. Len(y) PROVE NetOf(SubSeq(y, 1, n)) >= 0
  <2>1. n \in 0 .. N \/ n = N + 1
    BY <1>1
  <2>2. n \in 0 .. N => NetOf(SubSeq(y, 1, n)) >= 0
    BY <1>1 DEF NeverShort, N
  <2> QED
    BY <1>1, <1>2, <2>1, <2>2
<1>4. NeverShort(y)
  BY <1>3 DEF NeverShort
<1> QED
  BY <1>4 DEF y

LEMMA NeverShortNet == ASSUME NEW s \in Seq(Trade), NeverShort(s) PROVE NetOf(s) >= 0
<1>1. Len(s) \in 0 .. Len(s) /\ SubSeq(s, 1, Len(s)) = s
  OBVIOUS
<1> QED
  BY <1>1 DEF NeverShort

LEMMA TradeOrder == Trade \subseteq Order
BY DEF Trade, Order

LEMMA DatedIsTrade ==
    ASSUME NEW order \in Order, now \in Nat
    PROVE  /\ Dated(order) \in Trade /\ Dated(order).asset = order.asset
           /\ Dated(order).side = order.side /\ Dated(order).quantity = order.quantity
<1>1. IF order.executedAt = Null THEN now \in Nat ELSE order.executedAt \in Nat
  BY DEF Order
<1> QED
  BY <1>1 DEF Dated, Order, Trade

LEMMA TypesInit == ASSUME Init PROVE TypeOK
<1>1. [pc |-> "idle", order |-> Null, read |-> 0] \in Job
  BY DEF Job
<1>2. <<>> \in Seq(Trade)
  OBVIOUS
<1>3. 0 \in 0 .. MaxTime
  BY LedgerAssumption
<1>4. req \in [Requests -> Job] /\ \A t \in Requests : req[t].pc # "saving"
  BY <1>1 DEF Init
<1> QED
  BY <1>2, <1>3, <1>4 DEF Init, TypeOK

LEMMA OneRequest ==
    ASSUME TypeOK, NEW t \in Requests, NEW job \in Job, req' = [req EXCEPT ![t] = job],
           job.pc = "saving" => job.order \in Trade
    PROVE  /\ req' \in [Requests -> Job] /\ req'[t] = job
           /\ \A r \in Requests : r # t => req'[r] = req[r]
           /\ \A r \in Requests : req'[r].pc = "saving" => req'[r].order \in Trade
<1>1. req \in [Requests -> Job] /\ \A r \in Requests : req[r].pc = "saving" => req[r].order \in Trade
  BY DEF TypeOK
<1>2. req' \in [Requests -> Job] /\ req'[t] = job /\ \A r \in Requests : r # t => req'[r] = req[r]
  BY <1>1
<1> QED
  BY <1>1, <1>2

LEMMA FinishedJob == Finished \in Job /\ Finished.pc = "done"
BY DEF Finished, Job

\* What Next does to the request, the rows and the history.
LEMMA SolventStep ==
    ASSUME Solvent, [Next]_vars
    PROVE  Solvent'
<1> USE DEF Solvent
<1>0. /\ now \in Nat /\ now \in 0 .. MaxTime /\ MaxTime \in Nat /\ live \in BOOLEAN /\ trades \in Seq(Trade)
      /\ req \in [Requests -> Job] /\ sales \in [Assets -> Nat] /\ overtaken \in SUBSET Assets
      /\ \A r \in Requests : req[r].pc = "saving" => req[r].order \in Trade
  BY LedgerAssumption DEF TypeOK
<1>1. ASSUME NEW t \in Requests, NEW job \in Job, req' = [req EXCEPT ![t] = job],
             job.pc = "saving" => job.order \in Trade,
             job.pc = "opened" => job.order \in Order,
             job.pc = "saving" /\ job.order.side = "SELL" =>
                /\ job.read <= sales[job.order.asset]
                /\ job.read = sales[job.order.asset] => NetOf(Of(trades, job.order.asset)) >= job.order.quantity,
             now' = now, live' \in BOOLEAN, UNCHANGED <<trades, sales, overtaken>>
      PROVE  Solvent'
  <2>1. /\ req' \in [Requests -> Job] /\ req'[t] = job
        /\ \A r \in Requests : r # t => req'[r] = req[r]
        /\ \A r \in Requests : req'[r].pc = "saving" => req'[r].order \in Trade
    BY <1>1, OneRequest
  <2>2. TypeOK'
    BY <1>0, <1>1, <2>1 DEF TypeOK
  <2>4. Jobs'
    BY <1>1, <2>1 DEF Jobs
  <2>5. Covered'
    BY <1>1 DEF Covered
  <2> QED
    BY <2>2, <2>4, <2>5
<1>2. ASSUME NEW t \in Requests, Open(t) PROVE Solvent'
  <2>1. PICK order \in [asset: Assets, side: Sides, quantity: Quantities, executedAt: 0 .. MaxTime \cup {Null}] :
            req' = [req EXCEPT ![t] = [pc |-> "opened", order |-> order, read |-> 0]]
    BY <1>2 DEF Open
  <2>2. order \in Order
    BY <1>0 DEF Order
  <2> DEFINE job == [pc |-> "opened", order |-> order, read |-> 0]
  <2>3. job \in Job /\ job.pc = "opened" /\ job.order = order
    BY <2>2 DEF Job
  <2>4. req' = [req EXCEPT ![t] = job]
    BY <2>1
  <2> HIDE DEF job
  <2> QED
    BY <1>0, <1>1, <1>2, <2>2, <2>3, <2>4 DEF Open
<1>3. ASSUME NEW t \in Requests, Check(t) PROVE Solvent'
  <2> DEFINE order == req[t].order
             job == [pc |-> "saving", order |-> Dated(order), read |-> sales[order.asset]]
  <2>1. order \in Order
    BY <1>3 DEF Check, Jobs
  <2>2. /\ Dated(order) \in Trade /\ Dated(order).asset = order.asset
        /\ Dated(order).side = order.side /\ Dated(order).quantity = order.quantity
    <3> HIDE DEF order
    <3> QED
      BY <1>0, <2>1, DatedIsTrade
  <2>3. order.asset \in Assets
    BY <2>1 DEF Order
  <2>4. /\ req' = [req EXCEPT ![t] = job]
        /\ order.side = "SELL" => NetOf(Of(trades, order.asset)) >= order.quantity
        /\ UNCHANGED <<now, live, trades, sales, overtaken>>
    BY <1>3, OfTrades DEF Check
  <2> HIDE DEF order
  <2>5. job \in Job
    BY <1>0, <2>2, <2>3, TradeOrder DEF Job
  <2>6. job.pc = "saving" /\ job.order = Dated(order) /\ job.read = sales[order.asset] /\ sales[order.asset] \in Nat
    BY <1>0, <2>3
  <2> HIDE DEF job
  <2>7. /\ job.pc = "saving" => job.order \in Trade
        /\ job.pc = "opened" => job.order \in Order
        /\ job.pc = "saving" /\ job.order.side = "SELL" =>
              /\ job.read <= sales[job.order.asset]
              /\ job.read = sales[job.order.asset] => NetOf(Of(trades, job.order.asset)) >= job.order.quantity
    BY <2>2, <2>4, <2>6
  <2>8. now' = now /\ live' \in BOOLEAN /\ UNCHANGED <<trades, sales, overtaken>>
    BY <1>0, <2>4
  <2>9. req' = [req EXCEPT ![t] = job]
    BY <2>4
  <2> HIDE DEF Solvent
  <2> QED
    BY <1>1, <2>5, <2>7, <2>8, <2>9
<1>4. ASSUME NEW t \in Requests, Save(t) PROVE Solvent'
  <2> DEFINE o == req[t].order
             a == o.asset
  <2>1. req[t].pc = "saving" /\ o \in Trade /\ a \in Assets /\ o.side \in {"BUY", "SELL"} /\ o.quantity \in Nat \ {0}
    BY <1>0, <1>4, TradeFields DEF Save
  <2>2. /\ trades' = Append(trades, o) /\ req' = [req EXCEPT ![t] = Finished] /\ UNCHANGED <<now, live>>
        /\ o.side = "SELL" => /\ sales' = [sales EXCEPT ![a] = sales[a] + 1]
                              /\ overtaken' = IF req[t].read # sales[a] THEN overtaken \cup {a} ELSE overtaken
        /\ o.side # "SELL" => sales' = sales /\ overtaken' = overtaken
    BY <1>4 DEF Save, Insert
  <2>3. o.side = "SELL" /\ req[t].read = sales[a] => NetOf(Of(trades, a)) >= o.quantity
    BY <2>1 DEF Jobs
  <2> HIDE DEF o, a
  <2>4. /\ req' \in [Requests -> Job] /\ req'[t] = Finished
        /\ \A r \in Requests : r # t => req'[r] = req[r]
        /\ \A r \in Requests : req'[r].pc = "saving" => req'[r].order \in Trade
    BY <2>2, FinishedJob, OneRequest
  <2>5. trades' \in Seq(Trade)
    BY <1>0, <2>1, <2>2
  <2>6. sales' \in [Assets -> Nat] /\ overtaken' \in SUBSET Assets /\ overtaken \subseteq overtaken'
    BY <1>0, <2>1, <2>2
  <2>7. TypeOK'
    BY <1>0, <2>2, <2>4, <2>5, <2>6 DEF TypeOK
  <2>9. \A b : Of(trades, b) \in Seq(Trade)
    BY <1>0, OfLaws
  <2>10. \A b : Of(trades', b) = IF a = b THEN Append(Of(trades, b), o) ELSE Of(trades, b)
    BY <1>0, <2>1, <2>2, OfLaws DEF a
  <2>11. /\ NetOf(Of(trades', a)) = NetOf(Of(trades, a)) + Signed(o) /\ Signed(o) \in Int
         /\ \A b : NetOf(Of(trades, b)) \in Int /\ (b # a => Of(trades', b) = Of(trades, b))
    BY <2>1, <2>9, <2>10, NetLaws, SignedType
  <2>12. ASSUME NEW r \in Requests
         PROVE  /\ req'[r].pc = "opened" => req'[r].order \in Order
                /\ req'[r].pc = "saving" /\ req'[r].order.side = "SELL" =>
                     /\ req'[r].read <= sales'[req'[r].order.asset]
                     /\ req'[r].read = sales'[req'[r].order.asset] =>
                            NetOf(Of(trades', req'[r].order.asset)) >= req'[r].order.quantity
    <3>1. CASE r = t
      BY <3>1, <2>4, FinishedJob
    <3>2. CASE r # t
      <4> DEFINE b == req[r].order.asset
                 q == req[r].order.quantity
      <4>1. req'[r] = req[r] /\ (req[r].pc = "opened" => req[r].order \in Order)
        BY <2>4, <3>2 DEF Jobs
      <4> SUFFICES ASSUME req[r].pc = "saving", req[r].order.side = "SELL"
                   PROVE  req[r].read <= sales'[b] /\ (req[r].read = sales'[b] => NetOf(Of(trades', b)) >= q)
        BY <4>1
      <4>2. req[r].read <= sales[b] /\ (req[r].read = sales[b] => NetOf(Of(trades, b)) >= q)
        BY DEF Jobs
      <4>3. b \in Assets /\ q \in Nat
        BY <1>0, TradeFields
      <4>6. req[r].read \in Nat
        BY <1>0 DEF Job
      <4> HIDE DEF b, q
      <4>4. CASE b = a /\ o.side = "SELL"
        <5>1. sales'[b] = sales[b] + 1 /\ sales[b] \in Nat
          BY <1>0, <2>1, <2>2, <4>4
        <5> QED
          BY <5>1, <4>2, <4>6
      <4>5. CASE ~(b = a /\ o.side = "SELL")
        <5>1. sales'[b] = sales[b]
          BY <1>0, <2>2, <4>3, <4>5
        <5>2. NetOf(Of(trades', b)) >= NetOf(Of(trades, b)) /\ NetOf(Of(trades, b)) \in Int /\ NetOf(Of(trades', b)) \in Int
          <6>1. b = a => Signed(o) = o.quantity
            BY <2>1, <4>5 DEF Signed
          <6> QED
            BY <2>1, <2>11, <6>1
        <5> QED
          BY <5>1, <5>2, <4>2, <4>3
      <4> QED
        BY <4>4, <4>5
    <3> QED
      BY <3>1, <3>2
  <2>13. Jobs'
    BY <2>12 DEF Jobs
  <2>14. ASSUME NEW b \in Assets \ overtaken' PROVE NeverShort(Of(trades', b))
    <3>1. b \notin overtaken /\ NeverShort(Of(trades, b))
      BY <2>6, <2>14 DEF Covered
    <3>2. CASE b # a
      BY <3>1, <3>2, <2>10
    <3>3. CASE b = a
      <4>1. NetOf(Of(trades, a)) >= 0 /\ NetOf(Of(trades, a)) \in Int
        BY <2>9, <3>1, <3>3, NeverShortNet, NetLaws
      <4>2. o.side = "SELL" => req[t].read = sales[a]
        BY <2>2, <2>14, <3>3
      <4>3. NetOf(Of(trades, a)) + Signed(o) >= 0
        BY <2>1, <2>3, <4>1, <4>2 DEF Signed
      <4>4. Of(trades', a) = Append(Of(trades, a), o)
        BY <2>10
      <4>5. NeverShort(Of(trades', a))
        BY <2>1, <2>9, <3>1, <3>3, <4>3, <4>4, ShortAppend
      <4> QED
        BY <4>5, <3>3
    <3> QED
      BY <3>2, <3>3
  <2>15. Covered'
    BY <2>14 DEF Covered
  <2> QED
    BY <2>7, <2>13, <2>15
<1>5. ASSUME NEW t \in Requests, Refuse(t) PROVE Solvent'
  BY <1>0, <1>1, <1>5, FinishedJob DEF Refuse
<1>6. ASSUME NEW t \in Requests, DeleteFind(t) PROVE Solvent'
  <2> DEFINE job == [req[t] EXCEPT !.pc = "deleting"]
  <2>1. job \in Job /\ job.pc = "deleting"
    BY <1>0 DEF Job
  <2>2. req' = [req EXCEPT ![t] = job]
    BY <1>6 DEF DeleteFind
  <2> HIDE DEF job
  <2> QED
    BY <1>0, <1>1, <1>6, <2>1, <2>2 DEF DeleteFind
<1>7. ASSUME NEW t \in Requests, DeleteSave(t) PROVE Solvent'
  BY <1>0, <1>1, <1>7, FinishedJob DEF DeleteSave
<1>8. CASE Tick \/ UNCHANGED vars
  <2>1. UNCHANGED <<live, trades, req, sales, overtaken>> /\ now' \in 0 .. MaxTime
    BY <1>0, <1>8 DEF Tick, vars
  <2>3. TypeOK'
    BY <1>0, <2>1 DEF TypeOK
  <2>4. Jobs'
    BY <2>1 DEF Jobs
  <2>5. Covered'
    BY <2>1 DEF Covered
  <2> QED
    BY <2>3, <2>4, <2>5
<1> QED
  BY <1>2, <1>3, <1>4, <1>5, <1>6, <1>7, <1>8 DEF Next

LEMMA SolventInit == ASSUME Init PROVE Solvent
<1>1. /\ trades = <<>> /\ overtaken = {} /\ now = 0 /\ live = TRUE /\ sales = [a \in Assets |-> 0]
      /\ \A t \in Requests : req[t] = [pc |-> "idle", order |-> Null, read |-> 0]
      /\ req \in [Requests -> Job]
  <2>1. [pc |-> "idle", order |-> Null, read |-> 0] \in Job
    BY DEF Job
  <2> QED
    BY <2>1 DEF Init
<1>2. TypeOK
  <2>1. 0 \in 0 .. MaxTime /\ <<>> \in Seq(Trade)
    BY LedgerAssumption
  <2> QED
    BY <1>1, <2>1 DEF TypeOK
<1>3. Jobs
  BY <1>1 DEF Jobs
<1>4. NeverShort(<<>>)
  <2>1. \A n \in 0 .. Len(<<>>) : SubSeq(<<>>, 1, n) = <<>>
    OBVIOUS
  <2>2. NetOf(<<>>) = 0
    BY NetLaws
  <2>3. \A n \in 0 .. Len(<<>>) : NetOf(SubSeq(<<>>, 1, n)) = 0
    BY <2>1, <2>2
  <2> QED
    BY <2>3 DEF NeverShort
<1>5. Covered
  <2>1. \A a : Of(<<>>, a) = <<>>
    BY OfLaws
  <2> QED
    BY <1>1, <1>4, <2>1 DEF Covered
<1> QED
  BY <1>2, <1>3, <1>5 DEF Solvent

LEMMA SolventAlways == Spec => []Solvent
<1>1. Solvent /\ [Next]_vars => Solvent'
  BY SolventStep
<1> QED
  BY SolventInit, <1>1, PTL DEF Spec

LEMMA OfTradesType == ASSUME TypeOK PROVE \A a : TradesOf(a) \in Seq(Trade) /\ TradesOf(a) = Of(trades, a)
<1>1. trades \in Seq(Trade)
  BY DEF TypeOK
<1> QED
  BY <1>1, OfLaws, OfTrades

\* recordTrade checks a sale against the trades it reads and saves it after further awaits: for
\* every number of requests, no more of an asset is sold than was bought unless a sale was
\* inserted after another one that its check did not see.
THEOREM NoOversale == Spec => []SolventUnlessOvertaken
<1>1. ASSUME Solvent, NEW a \in Assets \ overtaken PROVE NetOf(TradesOf(a)) >= 0
  <2>1. TradesOf(a) \in Seq(Trade) /\ NeverShort(TradesOf(a))
    BY <1>1, OfTradesType DEF Solvent, Covered
  <2> QED
    BY <2>1, NeverShortNet
<1>2. Solvent => SolventUnlessOvertaken
  BY <1>1 DEF SolventUnlessOvertaken
<1> QED
  BY SolventAlways, <1>2, PTL

LEMMA SortedIsList ==
    ASSUME NEW t \in Seq(Trade), NEW p \in [DOMAIN t -> DOMAIN t]
    PROVE  [i \in DOMAIN t |-> t[p[i]]] \in Seq(Trade)
BY SMTT(30)

\* calculateHoldings: whatever was sold and in which order, overdrawn or not, the lots of every
\* sorted list of trades are its latest purchases, whole but for the oldest of them.
THEOREM LotsFollow == Spec => []LotsAreLatestPurchases
<1>1. ASSUME TypeOK, NEW a \in Assets, NEW s \in Sorted(a)
      PROVE  LET lots == Lots(s) IN
             /\ \A i \in DOMAIN lots :
                   /\ lots[i].of \in DOMAIN s /\ s[lots[i].of].side = "BUY"
                   /\ lots[i].quantity \in 1 .. s[lots[i].of].quantity
                   /\ i > 1 => /\ lots[i].quantity = s[lots[i].of].quantity
                               /\ lots[i - 1].of < lots[i].of
             /\ \A k \in DOMAIN s :
                   s[k].side = "BUY" /\ lots # <<>> /\ lots[1].of <= k => \E i \in DOMAIN lots : lots[i].of = k
  <2>1. s \in Seq(Trade)
    <3>1. TradesOf(a) \in Seq(Trade)
      BY <1>1, OfTradesType
    <3> QED
      BY <3>1, SortedIsList DEF Sorted
  <2> DEFINE lots == Lots(s)
  <2>2. Latest(s, Len(s), lots) /\ DOMAIN s = 1 .. Len(s)
    BY <2>1, LotsLatest
  <2> HIDE DEF lots
  <2>3. ASSUME NEW i \in DOMAIN lots, i > 1 PROVE lots[i - 1].of < lots[i].of
    <3>1. i - 1 \in DOMAIN lots /\ i - 1 < i
      BY <2>2, <2>3 DEF Latest
    <3> QED
      BY <3>1, <2>2 DEF Latest
  <2>4. /\ \A i \in DOMAIN lots :
              /\ lots[i].of \in DOMAIN s /\ s[lots[i].of].side = "BUY"
              /\ lots[i].quantity \in 1 .. s[lots[i].of].quantity
              /\ i > 1 => lots[i].quantity = s[lots[i].of].quantity
        /\ \A k \in DOMAIN s :
              s[k].side = "BUY" /\ lots # <<>> /\ lots[1].of <= k => \E i \in DOMAIN lots : lots[i].of = k
    BY <2>2 DEF Latest
  <2> QED
    BY <2>3, <2>4 DEF lots
<1>2. TypeOK => LotsAreLatestPurchases
  BY <1>1 DEF LotsAreLatestPurchases
<1>3. Solvent => TypeOK
  BY DEF Solvent
<1> QED
  BY SolventAlways, <1>2, <1>3, PTL

\* getPortfolioHoldings: what a user is shown to hold is what was bought less what was sold,
\* although the check runs in the order of recording and the lots in that of the dates, unless
\* a sale is dated no later than a purchase recorded before it, or was overtaken.
THEOREM HoldingsAgree == Spec => []HoldingsShowNet
<1>1. ASSUME Solvent, NEW a \in Assets \ overtaken, NEW s \in Sorted(a), ~BackdatedSale(a)
      PROVE  Held(Lots(s)) = NetOf(s)
  <2> DEFINE t == TradesOf(a)
  <2>1. t \in Seq(Trade) /\ NeverShort(t)
    BY <1>1, OfTradesType DEF Solvent, Covered
  <2>2. ~Backdated(t)
    BY <1>1 DEF BackdatedSale, Backdated
  <2>3. PICK p \in [DOMAIN t -> DOMAIN t] :
            IsInjective(p) /\ InOrder([i \in DOMAIN t |-> t[p[i]]]) /\ s = [i \in DOMAIN t |-> t[p[i]]]
    BY DEF Sorted
  <2> HIDE DEF t
  <2>4. NeverShort(s)
    BY <2>1, <2>2, <2>3, SortedNeverShort
  <2>5. s \in Seq(Trade)
    BY <2>1, <2>3, SortedIsList
  <2> QED
    BY <2>4, <2>5, HeldIsNet
<1>2. Solvent => HoldingsShowNet
  BY <1>1 DEF HoldingsShowNet
<1> QED
  BY SolventAlways, <1>2, PTL

-----------------------------------------------------------------------------
(* What a user is shown of a portfolio. *)

\* The latest of some days.
LEMMA MaxDay ==
    ASSUME NEW S \in SUBSET Days, S # {}
    PROVE  Max(S) \in S /\ \A d \in S : d <= Max(S)
<1> DEFINE T == S \ {0}
<1>1. LastDay \in Nat /\ Days = 0 .. LastDay /\ T \in SUBSET (1 .. LastDay)
  BY ReadsAssumption DEF Days
<1>2. \E x \in S : \A d \in S : x >= d
  <2>1. CASE T = {}
    <3>1. S = {0}
      BY <2>1
    <3> QED
      BY <3>1
  <2>2. CASE T # {}
    <3>1. Max(T) \in T /\ \A d \in T : d <= Max(T)
      BY <1>1, <2>2, MaxThere
    <3>2. Max(T) \in S /\ Max(T) \in 1 .. LastDay
      BY <1>1, <3>1
    <3>3. \A d \in S : d = 0 \/ d \in T
      OBVIOUS
    <3>4. \A d \in S : d \in Nat
      BY <1>1
    <3> HIDE DEF T
    <3> QED
      BY <1>1, <3>1, <3>2, <3>3, <3>4
  <2> QED
    BY <2>1, <2>2
<1>3. \A x, d \in S : x >= d <=> d <= x
  BY <1>1
<1> QED
  BY <1>2, <1>3 DEF Max

LEMMA LatestDay ==
    ASSUME NEW s, DaysOf(s) # {}
    PROVE  /\ LatestOf(s) \in Days /\ s[LatestOf(s)] # NoQuote
           /\ \A d \in Days : s[d] # NoQuote => d <= LatestOf(s)
<1>1. DaysOf(s) \in SUBSET Days
  BY DEF DaysOf
<1>2. Max(DaysOf(s)) \in DaysOf(s) /\ \A d \in DaysOf(s) : d <= Max(DaysOf(s))
  BY <1>1, MaxDay
<1> QED
  BY <1>2 DEF LatestOf, DaysOf

Looking == [pc : {"idle", "pricing", "charting", "done"}, view : {"holdings", "distribution", "performance"},
            left : SUBSET Papers, asked : SUBSET Papers, price : [Papers -> Nat],
            dated : [Papers -> Days \cup {-1}], series : [Papers -> Series], end : Days,
            groups : SUBSET SUBSET Papers]

RowsOf(s, end) == [d \in Days |-> IF end - Period <= d /\ d <= end THEN s[d] ELSE NoQuote]
Drawn(s) == [d \in Days |-> IF s[d] = 0 THEN NoQuote ELSE s[d]]
CarriedBy(s, price, day) ==
    LET known == {d \in DaysOf(s) : d <= day} IN
    IF DaysOf(s) = {} THEN price ELSE IF known # {} THEN s[Max(known)] ELSE s[Min(DaysOf(s))]

\* The price of a paper is the one of its latest row still, or it was not in the catalog.
StillKnown(p) ==
    \/ p \notin catalog /\ look.dated[p] = -1
    \/ /\ p \in catalog /\ DaysOf(quotes[p]) # {}
       /\ look.dated[p] = LatestOf(quotes[p])
       /\ look.price[p] = quotes[p][look.dated[p]]

Quiet(p) == p \notin shaken /\ look.price[p] > 0

Requested ==
    /\ look.left \subseteq held
    /\ look.asked \subseteq look.left
    /\ look.pc \in {"idle", "done"} => look.left = {}
    /\ \A p \in Papers : \A d \in Days : quotes[p][d] # NoQuote => d <= today

WhilePricing ==
    look.pc = "pricing" => \A p \in held :
        /\ p \notin look.left /\ Quiet(p) => StillKnown(p)
        /\ p \in look.asked /\ p \notin shaken => p \in catalog /\ DaysOf(quotes[p]) = {}

WhileCharting ==
    look.pc = "charting" => \A p \in held :
        /\ p \notin shaken => look.end = today
        /\ p \in look.left /\ Quiet(p) => StillKnown(p)
        /\ p \in look.asked /\ p \notin shaken => p \in catalog /\ DaysOf(RowsOf(quotes[p], look.end)) = {}

ChartDrawn ==
    look.pc \in {"charting", "done"} /\ look.view = "performance" =>
        \A p \in held \ look.left : Settled(p) => CarriedBy(look.series[p], look.price[p], look.end) = look.price[p]

\* A paper that nothing happened to is charted by the row that gave its price.
ReadsInv == ReadsTypeOK /\ Requested /\ WhilePricing /\ WhileCharting /\ ChartDrawn

LEMMA ReadsTypes ==
    ASSUME ReadsTypeOK
    PROVE  /\ held \subseteq Papers /\ catalog \subseteq Papers /\ shaken \subseteq Papers
           /\ quotes \in [Papers -> Series] /\ today \in Days /\ look \in Looking
           /\ look.pc \in {"idle", "pricing", "charting", "done"}
           /\ look.view \in {"holdings", "distribution", "performance"}
           /\ look.left \in SUBSET Papers /\ look.asked \in SUBSET Papers /\ look.price \in [Papers -> Nat]
           /\ look.dated \in [Papers -> Days \cup {-1}] /\ look.series \in [Papers -> Series]
           /\ look.end \in Days /\ look.groups \in SUBSET SUBSET Papers
<1>1. look \in Looking
  BY DEF ReadsTypeOK, Looking
<1>2. look \in Looking => /\ look.pc \in {"idle", "pricing", "charting", "done"}
                          /\ look.view \in {"holdings", "distribution", "performance"}
                          /\ look.left \in SUBSET Papers /\ look.asked \in SUBSET Papers
                          /\ look.price \in [Papers -> Nat] /\ look.dated \in [Papers -> Days \cup {-1}]
                          /\ look.series \in [Papers -> Series] /\ look.end \in Days
                          /\ look.groups \in SUBSET SUBSET Papers
  BY DEF Looking
<1> QED
  BY <1>1, <1>2 DEF ReadsTypeOK

LEMMA ReadsTyped ==
    ASSUME held \subseteq Papers, catalog \subseteq Papers, shaken \subseteq Papers,
           quotes \in [Papers -> Series], today \in Days, look \in Looking
    PROVE  ReadsTypeOK
BY DEF ReadsTypeOK, Looking

LEMMA DaysAre == Days = 0 .. LastDay /\ Days \subseteq Nat /\ LastDay \in Nat /\ Period \in Nat /\ -1 \notin Days
BY ReadsAssumption DEF Days

LEMMA SeriesOf ==
    /\ NoSeries \in Series /\ DaysOf(NoSeries) = {}
    /\ \A s \in Series : \A d \in Days : s[d] \in Nat \/ s[d] = NoQuote
    /\ \A s \in Series : \A back : Within(s, back) \in Series
    /\ \A s \in Series : \A end : RowsOf(s, end) \in Series
    /\ \A s \in Series : Drawn(s) \in Series
<1>1. Prices \subseteq Nat /\ NoQuote \notin Nat
  BY ReadsAssumption
<1>2. NoSeries \in Series /\ DaysOf(NoSeries) = {}
  BY DEF NoSeries, Series, DaysOf
<1>3. \A s \in Series : \A d \in Days : s[d] \in Prices \cup {NoQuote}
  BY DEF Series
<1>4. \A s \in Series : \A back : Within(s, back) \in Series
  BY <1>3 DEF Series, Within
<1>5. \A s \in Series : \A end : RowsOf(s, end) \in Series
  BY <1>3 DEF Series, RowsOf
<1>6. \A s \in Series : Drawn(s) \in Series
  BY <1>3 DEF Series, Drawn
<1> QED
  BY <1>1, <1>2, <1>3, <1>4, <1>5, <1>6

LEMMA ReadsAre ==
    /\ \A p : RowsOfPeriod(p) = RowsOf(quotes[p], look.end)
    /\ \A p, day : Carried(p, day) = CarriedBy(look.series[p], look.price[p], day)
BY DEF RowsOfPeriod, RowsOf, Carried, CarriedBy

\* A row is stored, a paper leaves the catalog, the day changes: what it is about is shaken.
LEMMA MarketChanges ==
    ASSUME ReadsInv, look' = look, held' = held, catalog' \subseteq Papers,
           quotes' \in [Papers -> Series], today' \in Days,
           shaken \subseteq shaken', shaken' \subseteq Papers,
           \A p \in Papers : \A d \in Days : quotes'[p][d] # NoQuote => d <= today',
           \A p \in held : p \in Priced =>
               \/ p \in shaken'
               \/ quotes'[p] = quotes[p] /\ (p \in catalog' <=> p \in catalog) /\ (look.pc = "charting" => today' = today)
    PROVE  ReadsInv'
<1> USE DEF ReadsInv
<1>1. ReadsTypeOK'
  <2>1. look' \in Looking /\ held' \subseteq Papers
    BY ReadsTypes
  <2> QED
    BY <2>1 DEF ReadsTypeOK, Looking
<1>2. Requested'
  BY DEF Requested
<1>3. ASSUME NEW p \in held, look.pc = "pricing"
      PROVE  /\ p \notin look'.left /\ Quiet(p)' => StillKnown(p)'
             /\ p \in look'.asked /\ p \notin shaken' => p \in catalog' /\ DaysOf(quotes'[p]) = {}
  <2>1. p \notin look.left \/ p \in look.asked => p \in Priced
    BY <1>3 DEF Priced, Begun
  <2> QED
    BY <1>3, <2>1 DEF WhilePricing, Quiet, StillKnown
<1>4. ASSUME NEW p \in held, look.pc = "charting"
      PROVE  /\ p \notin shaken' => look'.end = today'
             /\ p \in look'.left /\ Quiet(p)' => StillKnown(p)'
             /\ p \in look'.asked /\ p \notin shaken' => p \in catalog' /\ DaysOf(RowsOf(quotes'[p], look'.end)) = {}
  <2>1. p \in Priced
    BY <1>4 DEF Priced
  <2> QED
    BY <1>4, <2>1 DEF WhileCharting, Quiet, StillKnown
<1>5. ChartDrawn'
  <2>1. \A p : Settled(p)' => Settled(p)
    BY DEF Settled
  <2> QED
    BY <2>1 DEF ChartDrawn
<1>6. WhilePricing'
  BY <1>3 DEF WhilePricing
<1>7. WhileCharting'
  BY <1>4 DEF WhileCharting
<1> QED
  BY <1>1, <1>2, <1>5, <1>6, <1>7

LEMMA PricedFields ==
    ASSUME ReadsTypeOK, NEW p \in Papers, NEW s \in Series, PricedBy(p, s)
    PROVE  /\ look' \in Looking /\ look'.pc = look.pc /\ look'.view = look.view /\ look'.end = look.end
           /\ look'.left = look.left \ {p} /\ look'.asked = {} /\ look'.series = look.series
           /\ \A q \in Papers : q # p => look'.price[q] = look.price[q] /\ look'.dated[q] = look.dated[q]
           /\ DaysOf(s) = {} => look'.price[p] = 0
           /\ DaysOf(s) # {} => look'.price[p] = s[LatestOf(s)] /\ look'.dated[p] = LatestOf(s)
<1> DEFINE value == IF DaysOf(s) # {} THEN s[LatestOf(s)] ELSE 0
           day == IF DaysOf(s) # {} THEN LatestOf(s) ELSE -1
           price == [look.price EXCEPT ![p] = value]
           dated == [look.dated EXCEPT ![p] = day]
           left == look.left \ {p}
           r == [look EXCEPT !.left = left, !.asked = {}, !.price = price, !.dated = dated]
<1>1. value \in Nat /\ day \in Days \cup {-1}
  BY LatestDay, SeriesOf
<1>2. look' = r
  <2>1. look \in Looking
    BY ReadsTypes
  <2> QED
    BY <2>1 DEF PricedBy, Looking
<1>3. /\ DaysOf(s) = {} => value = 0
      /\ DaysOf(s) # {} => value = s[LatestOf(s)] /\ day = LatestOf(s)
  OBVIOUS
<1> HIDE DEF value, day
<1>4. /\ price \in [Papers -> Nat] /\ dated \in [Papers -> Days \cup {-1}] /\ left \in SUBSET Papers
      /\ price[p] = value /\ dated[p] = day
      /\ \A q \in Papers : q # p => price[q] = look.price[q] /\ dated[q] = look.dated[q]
  BY <1>1, ReadsTypes
<1> HIDE DEF price, dated, left
<1>5. /\ r \in Looking /\ r.pc = look.pc /\ r.view = look.view /\ r.end = look.end
      /\ r.left = left /\ r.asked = {} /\ r.series = look.series /\ r.price = price /\ r.dated = dated
  <2>1. look \in Looking
    BY ReadsTypes
  <2> QED
    BY <1>4, <2>1 DEF Looking
<1> HIDE DEF r
<1> QED
  BY <1>2, <1>3, <1>4, <1>5 DEF left

LEMMA ChartedFields ==
    ASSUME ReadsTypeOK, NEW p \in Papers, NEW s \in Series, Charted(p, s)
    PROVE  /\ look' \in Looking /\ look'.pc = look.pc /\ look'.view = look.view /\ look'.end = look.end
           /\ look'.left = look.left \ {p} /\ look'.asked = {}
           /\ look'.price = look.price /\ look'.dated = look.dated
           /\ \A q \in Papers : q # p => look'.series[q] = look.series[q]
           /\ look'.series[p] = Drawn(s)
<1> DEFINE series == [look.series EXCEPT ![p] = Drawn(s)]
           left == look.left \ {p}
           r == [look EXCEPT !.left = left, !.asked = {}, !.series = series]
<1>1. look' = r
  <2>1. look \in Looking
    BY ReadsTypes
  <2> QED
    BY <2>1 DEF Charted, Looking, Drawn
<1>2. /\ series \in [Papers -> Series] /\ left \in SUBSET Papers /\ series[p] = Drawn(s)
      /\ \A q \in Papers : q # p => series[q] = look.series[q]
  BY ReadsTypes, SeriesOf
<1> HIDE DEF series, left
<1>3. /\ r \in Looking /\ r.pc = look.pc /\ r.view = look.view /\ r.end = look.end
      /\ r.left = left /\ r.asked = {} /\ r.series = series /\ r.price = look.price /\ r.dated = look.dated
  <2>1. look \in Looking
    BY ReadsTypes
  <2> QED
    BY <1>2, <2>1 DEF Looking
<1> HIDE DEF r
<1> QED
  BY <1>1, <1>2, <1>3 DEF left

\* One paper is priced, the others are as they were.
LEMMA PricingStep ==
    ASSUME ReadsInv, NEW p \in Papers, p \in look.left, NEW s \in Series, PricedBy(p, s), look.pc = "pricing",
           UNCHANGED <<held, catalog, today, shaken>>, quotes' \in [Papers -> Series],
           \A q \in Papers : q # p => quotes'[q] = quotes[q],
           \A d \in Days : quotes'[p][d] # NoQuote => d <= today,
           p \notin shaken /\ DaysOf(s) # {} /\ s[LatestOf(s)] > 0 => p \in catalog /\ quotes'[p] = s
    PROVE  ReadsInv'
<1> USE DEF ReadsInv
<1>1. /\ look' \in Looking /\ look'.pc = look.pc /\ look'.view = look.view /\ look'.end = look.end
      /\ look'.left = look.left \ {p} /\ look'.asked = {} /\ look'.series = look.series
      /\ \A q \in Papers : q # p => look'.price[q] = look.price[q] /\ look'.dated[q] = look.dated[q]
      /\ DaysOf(s) = {} => look'.price[p] = 0
      /\ DaysOf(s) # {} => look'.price[p] = s[LatestOf(s)] /\ look'.dated[p] = LatestOf(s)
  BY PricedFields
<1>2. ReadsTypeOK'
  <2>1. /\ held' \subseteq Papers /\ catalog' \subseteq Papers /\ shaken' \subseteq Papers /\ today' \in Days
    BY ReadsTypes
  <2> QED
    BY <1>1, <2>1 DEF ReadsTypeOK, Looking
<1>3. Requested'
  BY <1>1 DEF Requested
<1>4. ASSUME NEW q \in held
      PROVE  /\ q \notin look'.left /\ Quiet(q)' => StillKnown(q)'
             /\ q \in look'.asked /\ q \notin shaken' => q \in catalog' /\ DaysOf(quotes'[q]) = {}
  <2>1. q \in Papers
    BY ReadsTypes
  <2>2. q \notin look'.asked
    BY <1>1
  <2>3. CASE q # p
    <3>1. q \notin look'.left => q \notin look.left
      BY <1>1, <2>3
    <3>2. /\ look'.price[q] = look.price[q] /\ look'.dated[q] = look.dated[q] /\ quotes'[q] = quotes[q]
      BY <1>1, <2>1, <2>3
    <3>3. q \notin look.left /\ Quiet(q) => StillKnown(q)
      BY DEF WhilePricing
    <3>4. (Quiet(q)' => Quiet(q)) /\ (StillKnown(q) => StillKnown(q)')
      BY <3>2 DEF Quiet, StillKnown
    <3> QED
      BY <2>2, <3>1, <3>3, <3>4
  <2>4. CASE q = p
    <3>1. ASSUME Quiet(p)' PROVE StillKnown(p)'
      <4>1. DaysOf(s) # {} /\ p \notin shaken /\ s[LatestOf(s)] > 0
        BY <1>1, <3>1 DEF Quiet
      <4>2. p \in catalog' /\ quotes'[p] = s
        BY <4>1
      <4> QED
        BY <1>1, <4>1, <4>2 DEF StillKnown
    <3> QED
      BY <2>2, <2>4, <3>1
  <2> QED
    BY <2>3, <2>4
<1>5. WhilePricing'
  BY <1>4 DEF WhilePricing
<1>6. WhileCharting' /\ ChartDrawn'
  BY <1>1 DEF WhileCharting, ChartDrawn
<1> QED
  BY <1>2, <1>3, <1>5, <1>6

\* What a settled paper that waits for its chart was priced by.
LEMMA RowOfPrice ==
    ASSUME ReadsInv, look.pc = "charting", NEW p \in held, p \in look.left, Settled(p)
    PROVE  \/ p \notin catalog
           \/ LET day == look.dated[p] IN
              /\ day \in Days /\ day <= look.end /\ RowsOf(quotes[p], look.end)[day] = look.price[p]
              /\ look.price[p] \in Nat \ {0}
              /\ \A d \in Days : RowsOf(quotes[p], look.end)[d] # NoQuote => d <= day
<1> USE DEF ReadsInv
<1> DEFINE day == look.dated[p]
<1>0. p \in Papers /\ look.price[p] \in Nat /\ look.end \in Days
  BY ReadsTypes
<1>1. p \notin shaken /\ look.price[p] > 0 /\ (day = -1 \/ day >= look.end - Period)
  BY DEF Settled
<1>2. StillKnown(p) /\ look.end = today
  BY <1>1 DEF WhileCharting, Quiet
<1>3. CASE p \in catalog
  <2>1. DaysOf(quotes[p]) # {} /\ day = LatestOf(quotes[p]) /\ look.price[p] = quotes[p][day]
    BY <1>2, <1>3 DEF StillKnown
  <2>2. day \in Days /\ quotes[p][day] # NoQuote /\ \A d \in Days : quotes[p][d] # NoQuote => d <= day
    BY <2>1, LatestDay
  <2>3. day <= look.end
    BY <1>0, <1>2, <2>2 DEF Requested
  <2>4. day >= look.end - Period
    BY <1>1, <2>2, DaysAre
  <2>5. RowsOf(quotes[p], look.end)[day] = look.price[p]
    BY <2>1, <2>2, <2>3, <2>4 DEF RowsOf
  <2>6. \A d \in Days : RowsOf(quotes[p], look.end)[d] # NoQuote => d <= day
    BY <2>2 DEF RowsOf
  <2> QED
    BY <1>0, <1>1, <2>2, <2>3, <2>5, <2>6
<1> QED
  BY <1>3

\* A series that ends, by the end of the period, with a price carries that price.
LEMMA CarriedIs ==
    ASSUME NEW s \in Series, NEW day \in Days, NEW end \in Days, NEW price \in Nat \ {0}, day <= end,
           s[day] = price, \A d \in Days : s[d] # NoQuote => d <= day, NEW other
    PROVE  CarriedBy(Drawn(s), other, end) = price
<1> DEFINE r == Drawn(s)
           known == {d \in DaysOf(r) : d <= end}
<1>1. r[day] = price /\ price # NoQuote /\ \A d \in Days : r[d] # NoQuote => d <= day
  BY ReadsAssumption DEF Drawn
<1>2. day \in known /\ known \in SUBSET Days /\ \A d \in known : d <= day
  BY <1>1 DEF DaysOf
<1> HIDE DEF r
<1>3. Max(known) \in known /\ \A d \in known : d <= Max(known)
  BY <1>2, MaxDay
<1>4. Max(known) = day
  <2>1. Max(known) \in Days /\ Max(known) <= day /\ day <= Max(known)
    BY <1>2, <1>3
  <2> HIDE DEF known
  <2> QED
    BY <2>1, DaysAre
<1>5. DaysOf(r) # {} /\ known # {}
  BY <1>2
<1>6. CarriedBy(r, other, end) = r[Max(known)]
  BY <1>5 DEF CarriedBy
<1> QED
  BY <1>1, <1>4, <1>6 DEF r

\* One paper is charted, the others are as they were.
LEMMA ChartingStep ==
    ASSUME ReadsInv, NEW p \in Papers, p \in look.left, NEW s \in Series, Charted(p, s), look.pc = "charting",
           UNCHANGED <<held, catalog, today, shaken>>, quotes' \in [Papers -> Series],
           \A q \in Papers : q # p => quotes'[q] = quotes[q],
           \A d \in Days : quotes'[p][d] # NoQuote => d <= today,
           Settled(p) => CarriedBy(Drawn(s), look.price[p], look.end) = look.price[p]
    PROVE  ReadsInv'
<1> USE DEF ReadsInv
<1>1. /\ look' \in Looking /\ look'.pc = look.pc /\ look'.view = look.view /\ look'.end = look.end
      /\ look'.left = look.left \ {p} /\ look'.asked = {}
      /\ look'.price = look.price /\ look'.dated = look.dated
      /\ \A q \in Papers : q # p => look'.series[q] = look.series[q]
      /\ look'.series[p] = Drawn(s)
  BY ChartedFields
<1>2. ReadsTypeOK'
  <2>1. /\ held' \subseteq Papers /\ catalog' \subseteq Papers /\ shaken' \subseteq Papers /\ today' \in Days
    BY ReadsTypes
  <2> QED
    BY <1>1, <2>1 DEF ReadsTypeOK, Looking
<1>3. Requested'
  BY <1>1 DEF Requested
<1>4. ASSUME NEW q \in held
      PROVE  /\ q \notin shaken' => look'.end = today'
             /\ q \in look'.left /\ Quiet(q)' => StillKnown(q)'
             /\ q \in look'.asked /\ q \notin shaken' => q \in catalog' /\ DaysOf(RowsOf(quotes'[q], look'.end)) = {}
  <2>1. q \in Papers /\ q \notin look'.asked
    BY <1>1, ReadsTypes
  <2>2. q \notin shaken' => look'.end = today'
    BY <1>1 DEF WhileCharting
  <2>3. ASSUME q \in look'.left, Quiet(q)' PROVE StillKnown(q)'
    <3>1. q \in look.left /\ quotes'[q] = quotes[q]
      BY <1>1, <2>1, <2>3
    <3>2. StillKnown(q)
      BY <1>1, <2>3, <3>1 DEF WhileCharting, Quiet
    <3> QED
      BY <1>1, <3>1, <3>2 DEF StillKnown
  <2> QED
    BY <2>1, <2>2, <2>3
<1>5. WhileCharting'
  BY <1>4 DEF WhileCharting
<1>6. WhilePricing'
  BY <1>1 DEF WhilePricing
<1>7. ASSUME NEW q \in held' \ look'.left, look'.view = "performance", Settled(q)'
      PROVE  CarriedBy(look'.series[q], look'.price[q], look'.end) = look'.price[q]
  <2>1. q \in Papers /\ Settled(q)
    BY <1>1, <1>7, ReadsTypes DEF Settled
  <2>2. CASE q = p
    BY <1>1, <2>1, <2>2
  <2>3. CASE q # p
    <3>1. q \in held \ look.left /\ look.view = "performance"
      BY <1>1, <1>7, <2>3
    <3>2. CarriedBy(look.series[q], look.price[q], look.end) = look.price[q]
      BY <2>1, <3>1 DEF ChartDrawn
    <3> QED
      BY <1>1, <2>1, <2>3, <3>2
  <2> QED
    BY <2>2, <2>3
<1>8. ChartDrawn'
  BY <1>7 DEF ChartDrawn
<1> QED
  BY <1>2, <1>3, <1>5, <1>6, <1>8

LEMMA ReadsInvInit == ASSUME ReadsInit PROVE ReadsInv
<1>1. NotLooking \in Looking /\ NotLooking.pc = "idle" /\ NotLooking.left = {} /\ NotLooking.asked = {}
  <2>1. 0 \in Days /\ [p \in Papers |-> 0] \in [Papers -> Nat] /\ [p \in Papers |-> -1] \in [Papers -> Days \cup {-1}]
    BY DaysAre
  <2>2. [p \in Papers |-> NoSeries] \in [Papers -> Series]
    BY SeriesOf
  <2> QED
    BY <2>1, <2>2 DEF NotLooking, Looking
<1>2. quotes \in [Papers -> Series] /\ \A p \in Papers : \A d \in Days : quotes[p][d] = NoQuote
  BY SeriesOf DEF ReadsInit, NoSeries
<1>3. look = NotLooking /\ held \subseteq Papers /\ catalog = Papers /\ today \in Days /\ shaken = {}
  BY DaysAre DEF ReadsInit
<1> HIDE DEF NotLooking
<1>4. ReadsTypeOK
  BY <1>1, <1>2, <1>3, ReadsTyped
<1>5. Requested /\ WhilePricing /\ WhileCharting /\ ChartDrawn
  BY <1>1, <1>2, <1>3 DEF Requested, WhilePricing, WhileCharting, ChartDrawn
<1> QED
  BY <1>4, <1>5 DEF ReadsInv

\* The request begins, waits, or ends: prices and charts are as they were.
LEMMA RequestStep ==
    ASSUME ReadsInv, UNCHANGED <<held, catalog, quotes, today>>, shaken' \subseteq Papers, look' \in Looking,
           look'.left \subseteq held, look'.asked \subseteq look'.left,
           look'.pc \in {"idle", "done"} => look'.left = {},
           WhilePricing', WhileCharting', ChartDrawn'
    PROVE  ReadsInv'
<1>1. /\ held' \subseteq Papers /\ catalog' \subseteq Papers /\ today' \in Days /\ quotes' \in [Papers -> Series]
  BY ReadsTypes DEF ReadsInv
<1>2. ReadsTypeOK'
  BY <1>1 DEF ReadsTypeOK, Looking
<1>3. Requested'
  BY DEF ReadsInv, Requested
<1> QED
  BY <1>2, <1>3 DEF ReadsInv

LEMMA MarketSteps ==
    ASSUME ReadsInv,
           \/ \E p \in Papers : \E d \in Days, v \in Prices : StoreRow(p, d, v)
           \/ \E p \in Papers : LeaveCatalog(p)
           \/ NextDay \/ UNCHANGED readsVars
    PROVE  ReadsInv'
<1>0. /\ held \subseteq Papers /\ catalog \subseteq Papers /\ shaken \subseteq Papers /\ quotes \in [Papers -> Series]
      /\ today \in Days /\ Priced \subseteq held
      /\ \A p \in Papers : \A d \in Days : quotes[p][d] # NoQuote => d <= today
  <2>1. Priced \subseteq held
    BY DEF Priced, Begun
  <2> QED
    BY <2>1, ReadsTypes DEF ReadsInv, Requested
<1>1. ASSUME NEW p \in Papers, NEW d \in Days, NEW v \in Prices, StoreRow(p, d, v) PROVE ReadsInv'
  <2>1. /\ d <= today /\ quotes' = [quotes EXCEPT ![p][d] = v] /\ look' = look /\ held' = held
        /\ catalog' = catalog /\ today' = today /\ shaken' = IF p \in Priced THEN shaken \cup {p} ELSE shaken
    BY <1>1 DEF StoreRow
  <2> DEFINE row == [quotes[p] EXCEPT ![d] = v]
  <2>2. row \in Series
    <3>1. quotes[p] \in Series
      BY <1>0
    <3> QED
      BY <3>1 DEF Series
  <2>3. quotes' = [quotes EXCEPT ![p] = row]
    BY <2>1
  <2>4. \A e \in Days : row[e] # NoQuote => e <= today
    <3>1. \A e \in Days : row[e] = IF e = d THEN v ELSE quotes[p][e]
      BY <1>0 DEF Series
    <3> QED
      BY <1>0, <2>1, <3>1
  <2> HIDE DEF row
  <2>5. /\ quotes' \in [Papers -> Series] /\ quotes'[p] = row /\ \A q \in Papers : q # p => quotes'[q] = quotes[q]
    BY <1>0, <2>2, <2>3
  <2>6. \A q \in Papers : \A e \in Days : quotes'[q][e] # NoQuote => e <= today'
    BY <1>0, <2>1, <2>4, <2>5
  <2>7. \A q \in held : q \in Priced => \/ q \in shaken'
                                        \/ quotes'[q] = quotes[q] /\ (q \in catalog' <=> q \in catalog)
                                           /\ (look.pc = "charting" => today' = today)
    BY <1>0, <2>1, <2>5
  <2> QED
    BY <1>0, <2>1, <2>5, <2>6, <2>7, MarketChanges
<1>2. ASSUME NEW p \in Papers, LeaveCatalog(p) PROVE ReadsInv'
  BY <1>0, <1>2, MarketChanges DEF LeaveCatalog
<1>3. CASE NextDay
  <2>1. /\ today' = today + 1 /\ today < LastDay /\ look' = look /\ held' = held
        /\ catalog' = catalog /\ quotes' = quotes /\ shaken' = shaken \cup Priced
    BY <1>3 DEF NextDay
  <2>2. today' \in Days
    BY <1>0, <2>1, DaysAre
  <2>3. \A q \in Papers : \A e \in Days : quotes'[q][e] # NoQuote => e <= today'
    BY <1>0, <2>1, DaysAre
  <2> QED
    BY <1>0, <2>1, <2>2, <2>3, MarketChanges
<1>4. CASE UNCHANGED readsVars
  BY <1>0, <1>4, MarketChanges DEF readsVars
<1> QED
  BY <1>1, <1>2, <1>3, <1>4

LEMMA PricingSteps ==
    ASSUME ReadsInv, NEW p \in Papers,
           PriceFromRows(p) \/ AskForPrice(p) \/ ProviderPrices(p) \/ PricingFails(p)
    PROVE  ReadsInv'
<1>0. /\ quotes \in [Papers -> Series] /\ quotes[p] \in Series /\ today \in Days /\ shaken \subseteq Papers
      /\ look.asked \subseteq look.left /\ look.left \subseteq held /\ look \in Looking
      /\ \A q \in Papers : \A d \in Days : quotes[q][d] # NoQuote => d <= today
  BY ReadsTypes DEF ReadsInv, Requested
<1>1. CASE PriceFromRows(p)
  <2>1. /\ look.pc = "pricing" /\ p \in look.left /\ p \in catalog /\ PricedBy(p, quotes[p])
        /\ UNCHANGED <<held, catalog, quotes, today, shaken>>
    BY <1>1 DEF PriceFromRows
  <2> QED
    BY <1>0, <2>1, PricingStep
<1>2. CASE AskForPrice(p)
  <2> DEFINE r == [look EXCEPT !.asked = {p}]
  <2>1. /\ look.pc = "pricing" /\ p \in look.left /\ p \in catalog /\ DaysOf(quotes[p]) = {} /\ look' = r
        /\ UNCHANGED <<held, catalog, quotes, today, shaken>>
    BY <1>2 DEF AskForPrice
  <2>2. /\ r \in Looking /\ r.pc = look.pc /\ r.left = look.left /\ r.asked = {p}
        /\ r.price = look.price /\ r.dated = look.dated
    BY <1>0 DEF Looking
  <2> HIDE DEF r
  <2>3. WhilePricing'
    <3>1. \A q \in held : /\ StillKnown(q)' <=> StillKnown(q)
                          /\ Quiet(q)' <=> Quiet(q)
      BY <2>1, <2>2 DEF StillKnown, Quiet
    <3> QED
      BY <2>1, <2>2, <3>1 DEF WhilePricing, ReadsInv
  <2>4. WhileCharting' /\ ChartDrawn'
    BY <2>1, <2>2 DEF WhileCharting, ChartDrawn
  <2>5. look' \in Looking /\ look'.left \subseteq held /\ look'.asked \subseteq look'.left
        /\ look'.pc \notin {"idle", "done"}
    BY <1>0, <2>1, <2>2
  <2> QED
    BY <1>0, <2>1, <2>3, <2>4, <2>5, RequestStep
<1>3. CASE ProviderPrices(p)
  <2>1. /\ look.pc = "pricing" /\ p \in look.asked
        /\ UNCHANGED <<held, catalog, today, shaken>>
    BY <1>3 DEF ProviderPrices
  <2>2. PICK s \in Answers(2) : quotes' = Upserted(p, s) /\ PricedBy(p, s)
    BY <1>3 DEF ProviderPrices
  <2>3. s \in Series /\ \A d \in Days : s[d] # NoQuote => d <= today
    <3>1. s \in Series /\ s = Within(s, 2)
      BY DEF Answers
    <3>2. \A d \in Days : Within(s, 2)[d] # NoQuote => d <= today
      BY DEF Within
    <3> QED
      BY <3>1, <3>2
  <2> DEFINE row == [d \in Days |-> IF s[d] # NoQuote THEN s[d] ELSE quotes[p][d]]
  <2>4. quotes' = [quotes EXCEPT ![p] = row]
    BY <2>2 DEF Upserted
  <2>5. /\ row \in Series
        /\ \A d \in Days : row[d] # NoQuote => d <= today
        /\ DaysOf(quotes[p]) = {} => row = s
    <3>1. row \in Series
      BY <1>0, <2>3 DEF Series
    <3>2. \A d \in Days : row[d] # NoQuote => d <= today
      BY <1>0, <2>3
    <3>3. ASSUME DaysOf(quotes[p]) = {} PROVE row = s
      <4>1. \A d \in Days : quotes[p][d] = NoQuote
        BY <3>3 DEF DaysOf
      <4> QED
        BY <2>3, <4>1 DEF Series
    <3> QED
      BY <3>1, <3>2, <3>3
  <2> HIDE DEF row
  <2>6. /\ quotes' \in [Papers -> Series] /\ quotes'[p] = row /\ \A q \in Papers : q # p => quotes'[q] = quotes[q]
    BY <1>0, <2>4, <2>5
  <2>7. p \notin shaken => p \in catalog /\ quotes'[p] = s
    BY <1>0, <2>1, <2>5, <2>6 DEF ReadsInv, WhilePricing
  <2> QED
    BY <1>0, <2>1, <2>2, <2>3, <2>5, <2>6, <2>7, PricingStep
<1>4. CASE PricingFails(p)
  <2>1. /\ look.pc = "pricing" /\ p \in look.left /\ UNCHANGED <<held, catalog, quotes, today, shaken>>
    BY <1>4 DEF PricingFails
  <2>2. PICK s \in Series : PricedBy(p, s) /\ (p \notin shaken => DaysOf(s) = {})
    <3>1. CASE p \in look.asked /\ PricedBy(p, Within(quotes[p], 2))
      <4>1. p \notin shaken => DaysOf(quotes[p]) = {}
        BY <1>0, <2>1, <3>1 DEF ReadsInv, WhilePricing
      <4>2. DaysOf(quotes[p]) = {} => DaysOf(Within(quotes[p], 2)) = {}
        BY DEF DaysOf, Within
      <4> QED
        BY <1>0, <3>1, <4>1, <4>2, SeriesOf
    <3>2. CASE PricedBy(p, NoSeries)
      BY <3>2, SeriesOf
    <3> QED
      BY <1>4, <3>1, <3>2 DEF PricingFails
  <2> QED
    BY <1>0, <2>1, <2>2, PricingStep
<1> QED
  BY <1>1, <1>2, <1>3, <1>4

LEMMA ChartingSteps ==
    ASSUME ReadsInv, NEW p \in Papers,
           ChartFromRows(p) \/ AskForChart(p) \/ ProviderCharts(p) \/ ChartingFails(p)
    PROVE  ReadsInv'
<1>0. /\ quotes \in [Papers -> Series] /\ quotes[p] \in Series /\ today \in Days /\ shaken \subseteq Papers
      /\ look.asked \subseteq look.left /\ look.left \subseteq held /\ look \in Looking /\ look.end \in Days
      /\ \A q \in Papers : \A d \in Days : quotes[q][d] # NoQuote => d <= today
  BY ReadsTypes DEF ReadsInv, Requested
<1>1. CASE ChartFromRows(p)
  <2> DEFINE rows == RowsOf(quotes[p], look.end)
  <2>1. /\ look.pc = "charting" /\ p \in look.left /\ p \in catalog /\ Charted(p, rows)
        /\ UNCHANGED <<held, catalog, quotes, today, shaken>>
    BY <1>1, ReadsAre DEF ChartFromRows
  <2>2. rows \in Series
    BY <1>0, SeriesOf
  <2>3. Settled(p) => CarriedBy(Drawn(rows), look.price[p], look.end) = look.price[p]
    <3> SUFFICES ASSUME Settled(p) PROVE CarriedBy(Drawn(rows), look.price[p], look.end) = look.price[p]
      OBVIOUS
    <3> DEFINE day == look.dated[p]
    <3>1. /\ day \in Days /\ day <= look.end /\ rows[day] = look.price[p]
          /\ look.price[p] \in Nat \ {0}
          /\ \A d \in Days : rows[d] # NoQuote => d <= day
      BY <1>0, <2>1, RowOfPrice
    <3> HIDE DEF rows, day
    <3> QED
      BY <1>0, <2>2, <3>1, CarriedIs
  <2> HIDE DEF rows
  <2> QED
    BY <1>0, <2>1, <2>2, <2>3, ChartingStep
<1>2. CASE AskForChart(p)
  <2> DEFINE r == [look EXCEPT !.asked = {p}]
  <2>1. /\ look.pc = "charting" /\ p \in look.left /\ p \in catalog /\ DaysOf(RowsOf(quotes[p], look.end)) = {}
        /\ look' = r /\ UNCHANGED <<held, catalog, quotes, today, shaken>>
    BY <1>2, ReadsAre DEF AskForChart
  <2>2. /\ r \in Looking /\ r.pc = look.pc /\ r.view = look.view /\ r.left = look.left /\ r.asked = {p}
        /\ r.price = look.price /\ r.dated = look.dated /\ r.end = look.end /\ r.series = look.series
    BY <1>0 DEF Looking
  <2> HIDE DEF r
  <2>3. WhileCharting' /\ ChartDrawn'
    <3>1. \A q \in held : /\ StillKnown(q)' <=> StillKnown(q)
                          /\ Quiet(q)' <=> Quiet(q)
                          /\ Settled(q)' <=> Settled(q)
      BY <2>1, <2>2 DEF StillKnown, Quiet, Settled
    <3> QED
      BY <2>1, <2>2, <3>1 DEF WhileCharting, ChartDrawn, ReadsInv
  <2>4. WhilePricing'
    BY <2>1, <2>2 DEF WhilePricing
  <2>5. look' \in Looking /\ look'.left \subseteq held /\ look'.asked \subseteq look'.left
        /\ look'.pc \notin {"idle", "done"}
    BY <1>0, <2>1, <2>2
  <2> QED
    BY <1>0, <2>1, <2>3, <2>4, <2>5, RequestStep
<1>a. ASSUME look.pc = "charting", p \in look.asked PROVE ~Settled(p)
  <2> SUFFICES ASSUME Settled(p) PROVE FALSE
    OBVIOUS
  <2>1. p \in held /\ p \in look.left
    BY <1>0, <1>a
  <2>2. p \in catalog /\ DaysOf(RowsOf(quotes[p], look.end)) = {}
    BY <1>a, <2>1 DEF ReadsInv, WhileCharting, Settled
  <2> DEFINE day == look.dated[p]
             rows == RowsOf(quotes[p], look.end)
  <2>3. day \in Days /\ rows[day] = look.price[p] /\ look.price[p] \in Nat \ {0}
    BY <1>a, <2>1, <2>2, RowOfPrice
  <2>4. rows[day] = NoQuote
    BY <2>2, <2>3 DEF DaysOf
  <2> QED
    BY <2>3, <2>4, ReadsAssumption
<1>3. CASE ProviderCharts(p)
  <2>1. /\ look.pc = "charting" /\ p \in look.asked
        /\ UNCHANGED <<held, catalog, today, shaken>>
    BY <1>3 DEF ProviderCharts
  <2>2. PICK s \in Answers(Period + 2) : quotes' = Upserted(p, s) /\ Charted(p, s)
    BY <1>3 DEF ProviderCharts
  <2>3. s \in Series /\ \A d \in Days : s[d] # NoQuote => d <= today
    <3>1. s \in Series /\ s = Within(s, Period + 2)
      BY DEF Answers
    <3>2. \A d \in Days : Within(s, Period + 2)[d] # NoQuote => d <= today
      BY DEF Within
    <3> QED
      BY <3>1, <3>2
  <2> DEFINE row == [d \in Days |-> IF s[d] # NoQuote THEN s[d] ELSE quotes[p][d]]
  <2>4. quotes' = [quotes EXCEPT ![p] = row]
    BY <2>2 DEF Upserted
  <2>5. row \in Series /\ \A d \in Days : row[d] # NoQuote => d <= today
    <3>1. row \in Series
      BY <1>0, <2>3 DEF Series
    <3>2. \A d \in Days : row[d] # NoQuote => d <= today
      BY <1>0, <2>3
    <3> QED
      BY <3>1, <3>2
  <2> HIDE DEF row
  <2>6. /\ quotes' \in [Papers -> Series] /\ quotes'[p] = row /\ \A q \in Papers : q # p => quotes'[q] = quotes[q]
    BY <1>0, <2>4, <2>5
  <2> QED
    BY <1>0, <1>a, <2>1, <2>2, <2>3, <2>5, <2>6, ChartingStep
<1>4. CASE ChartingFails(p)
  <2>1. /\ look.pc = "charting" /\ p \in look.left /\ UNCHANGED <<held, catalog, quotes, today, shaken>>
    BY <1>4 DEF ChartingFails
  <2>2. CASE p \in look.asked /\ Charted(p, Within(quotes[p], Period + 2))
    <3>1. Within(quotes[p], Period + 2) \in Series
      BY <1>0, SeriesOf
    <3> QED
      BY <1>0, <1>a, <2>1, <2>2, <3>1, ChartingStep
  <2>3. CASE Charted(p, NoSeries)
    <3>1. DaysOf(Drawn(NoSeries)) = {}
      BY ReadsAssumption DEF DaysOf, Drawn, NoSeries
    <3>2. CarriedBy(Drawn(NoSeries), look.price[p], look.end) = look.price[p]
      BY <3>1 DEF CarriedBy
    <3> QED
      BY <1>0, <2>1, <2>3, <3>2, SeriesOf, ChartingStep
  <2> QED
    BY <1>4, <2>2, <2>3 DEF ChartingFails
<1> QED
  BY <1>1, <1>2, <1>3, <1>4

LEMMA RequestSteps ==
    ASSUME ReadsInv,
           \/ \E view \in {"holdings", "distribution", "performance"} : Look(view)
           \/ Answer \/ Distribute \/ BeginChart \/ Draw \/ Leave
    PROVE  ReadsInv'
<1>0. /\ look \in Looking /\ shaken \subseteq Papers /\ held \subseteq Papers /\ today \in Days
      /\ look.asked \subseteq look.left /\ look.left \subseteq held
  BY ReadsTypes DEF ReadsInv, Requested
<1>i. /\ NotLooking \in Looking /\ NotLooking.pc = "idle" /\ NotLooking.left = {} /\ NotLooking.asked = {}
      /\ NotLooking.dated = [p \in Papers |-> -1]
  <2>1. 0 \in Days /\ [p \in Papers |-> 0] \in [Papers -> Nat] /\ [p \in Papers |-> -1] \in [Papers -> Days \cup {-1}]
    BY DaysAre
  <2>2. [p \in Papers |-> NoSeries] \in [Papers -> Series]
    BY SeriesOf
  <2> QED
    BY <2>1, <2>2 DEF NotLooking, Looking
<1>1. ASSUME NEW view \in {"holdings", "distribution", "performance"}, Look(view) PROVE ReadsInv'
  <2> DEFINE left == held \cap catalog
             price == [p \in Papers |-> IF p \in catalog THEN 0 ELSE Cost]
             r == [NotLooking EXCEPT !.pc = "pricing", !.view = view, !.left = left, !.price = price]
  <2>1. look' = r /\ shaken' = {} /\ UNCHANGED <<held, catalog, quotes, today>>
    BY <1>1 DEF Look
  <2>2. price \in [Papers -> Nat] /\ left \in SUBSET Papers /\ left \subseteq held
    BY <1>0, ReadsAssumption
  <2>3. \A p \in held : p \notin left => p \notin catalog
    OBVIOUS
  <2> HIDE DEF left, price
  <2>4. /\ r \in Looking /\ r.pc = "pricing" /\ r.left = left /\ r.asked = {} /\ r.dated = [p \in Papers |-> -1]
    BY <1>i, <2>2 DEF Looking
  <2> HIDE DEF r
  <2>5. WhilePricing'
    <3>1. ASSUME NEW p \in held, p \notin look'.left PROVE StillKnown(p)'
      <4>1. p \notin catalog' /\ look'.dated[p] = -1
        BY <1>0, <2>1, <2>3, <2>4, <3>1
      <4> QED
        BY <4>1 DEF StillKnown
    <3>2. \A p \in held : p \notin look'.asked
      BY <2>1, <2>4
    <3> QED
      BY <2>1, <3>1, <3>2 DEF WhilePricing
  <2>6. WhileCharting' /\ ChartDrawn'
    BY <2>1, <2>4 DEF WhileCharting, ChartDrawn
  <2>7. /\ shaken' \subseteq Papers /\ look' \in Looking /\ look'.left \subseteq held
        /\ look'.asked \subseteq look'.left /\ look'.pc \notin {"idle", "done"}
    BY <2>1, <2>2, <2>4
  <2> QED
    BY <2>1, <2>5, <2>6, <2>7, RequestStep
<1>2. CASE Answer \/ Distribute
  <2>1. PICK groups \in SUBSET SUBSET Papers :
            look' = [look EXCEPT !.pc = "done", !.groups = groups]
    <3>1. CASE Answer
      <4>1. look' = [look EXCEPT !.pc = "done", !.groups = look.groups] /\ look.groups \in SUBSET SUBSET Papers
        BY <1>0, <3>1 DEF Answer, Looking
      <4> QED
        BY <4>1
    <3>2. CASE Distribute
      <4>1. {held \cap catalog, held \ catalog} \ {{}} \in SUBSET SUBSET Papers
        BY <1>0
      <4> QED
        BY <3>2, <4>1 DEF Distribute
    <3> QED
      BY <1>2, <3>1, <3>2
  <2>2. /\ look.pc = "pricing" /\ look.left = {} /\ look.view \in {"holdings", "distribution"}
        /\ UNCHANGED <<held, catalog, quotes, today, shaken>>
    BY <1>2 DEF Answer, Distribute
  <2>3. look' \in Looking /\ look'.pc = "done" /\ look'.left = {} /\ look'.asked = {} /\ look'.view = look.view
    <3>1. look' \in Looking
      <4> HIDE DEF Looking
      <4>1. look \in Looking
        BY <1>0
      <4> QED
        BY <2>1, <4>1 DEF Looking
    <3>2. look'.pc = "done" /\ look'.left = look.left /\ look'.asked = look.asked /\ look'.view = look.view
      BY <1>0, <2>1 DEF Looking
    <3> QED
      BY <1>0, <2>2, <3>1, <3>2
  <2>4. WhilePricing' /\ WhileCharting' /\ ChartDrawn'
    BY <2>2, <2>3 DEF WhilePricing, WhileCharting, ChartDrawn
  <2> QED
    BY <1>0, <2>2, <2>3, <2>4, RequestStep
<1>3. CASE BeginChart
  <2> DEFINE pc == IF held = {} THEN "done" ELSE "charting"
             r == [look EXCEPT !.pc = pc, !.left = held, !.end = today]
  <2>1. /\ look.pc = "pricing" /\ look.left = {} /\ look' = r
        /\ UNCHANGED <<held, catalog, quotes, today, shaken>>
    BY <1>3 DEF BeginChart
  <2>2. pc \in {"done", "charting"} /\ (pc = "done" => held = {})
    OBVIOUS
  <2> HIDE DEF pc
  <2>3. /\ r \in Looking /\ r.pc = pc /\ r.left = held /\ r.end = today /\ r.asked = look.asked
        /\ r.price = look.price /\ r.dated = look.dated
    BY <1>0, <2>2 DEF Looking
  <2> HIDE DEF r
  <2>4. WhileCharting'
    <3>1. ASSUME NEW p \in held, Quiet(p)' PROVE StillKnown(p)'
      <4>1. Quiet(p) /\ p \notin look.left
        BY <2>1, <2>3, <3>1 DEF Quiet
      <4>2. StillKnown(p)
        BY <2>1, <4>1 DEF ReadsInv, WhilePricing
      <4> QED
        BY <2>1, <2>3, <4>2 DEF StillKnown
    <3>2. look'.asked = {}
      BY <1>0, <2>1, <2>3
    <3> QED
      BY <2>1, <2>3, <3>1, <3>2 DEF WhileCharting
  <2>5. WhilePricing' /\ ChartDrawn'
    BY <2>1, <2>2, <2>3 DEF WhilePricing, ChartDrawn
  <2>6. /\ look' \in Looking /\ look'.left \subseteq held /\ look'.asked \subseteq look'.left
        /\ look'.pc \in {"idle", "done"} => look'.left = {}
    BY <1>0, <2>1, <2>2, <2>3
  <2> QED
    BY <1>0, <2>1, <2>4, <2>5, <2>6, RequestStep
<1>4. CASE Draw
  <2> DEFINE r == [look EXCEPT !.pc = "done"]
  <2>1. /\ look.pc = "charting" /\ look.left = {} /\ look' = r
        /\ UNCHANGED <<held, catalog, quotes, today, shaken>>
    BY <1>4 DEF Draw
  <2>2. /\ r \in Looking /\ r.pc = "done" /\ r.view = look.view /\ r.left = look.left /\ r.asked = look.asked
        /\ r.price = look.price /\ r.dated = look.dated /\ r.end = look.end /\ r.series = look.series
    BY <1>0 DEF Looking
  <2> HIDE DEF r
  <2>3. ChartDrawn'
    <3>1. \A q \in held : Settled(q)' <=> Settled(q)
      BY <2>1, <2>2 DEF Settled
    <3> QED
      BY <2>1, <2>2, <3>1 DEF ChartDrawn, ReadsInv
  <2>4. WhilePricing' /\ WhileCharting'
    BY <2>1, <2>2 DEF WhilePricing, WhileCharting
  <2>5. /\ look' \in Looking /\ look'.left \subseteq held /\ look'.asked \subseteq look'.left
        /\ look'.left = {}
    BY <1>0, <2>1, <2>2
  <2> QED
    BY <1>0, <2>1, <2>3, <2>4, <2>5, RequestStep
<1>5. CASE Leave
  <2>1. look' = NotLooking /\ shaken' = {} /\ UNCHANGED <<held, catalog, quotes, today>>
    BY <1>5 DEF Leave
  <2> HIDE DEF NotLooking
  <2>2. WhilePricing' /\ WhileCharting' /\ ChartDrawn'
    BY <1>i, <2>1 DEF WhilePricing, WhileCharting, ChartDrawn
  <2>3. /\ shaken' \subseteq Papers /\ look' \in Looking /\ look'.left \subseteq held
        /\ look'.asked \subseteq look'.left /\ look'.left = {}
    BY <1>i, <2>1
  <2> QED
    BY <2>1, <2>2, <2>3, RequestStep
<1> QED
  BY <1>1, <1>2, <1>3, <1>4, <1>5

LEMMA ReadsAlways == ReadsSpec => []ReadsInv
<1>1. ASSUME ReadsInv, [ReadsNext]_readsVars PROVE ReadsInv'
  BY <1>1, MarketSteps, PricingSteps, ChartingSteps, RequestSteps DEF ReadsNext
<1>2. ReadsInv /\ [ReadsNext]_readsVars => ReadsInv'
  BY <1>1
<1> QED
  BY ReadsInvInit, <1>2, PTL DEF ReadsSpec

\* getPortfolioHoldings and getPortfolioPerformance: for every number of papers, prices and
\* days, the chart ends where the holdings of the same request stand, unless a quote was stored
\* or the day changed in between, the latest quote is older than the period, or its price is 0.
THEOREM ChartEndsAtHoldings == ReadsSpec => []ChartMeetsHoldings
<1>1. ASSUME ReadsInv, look.pc = "done", look.view = "performance", \A p \in held : Settled(p)
      PROVE  Point(look.end) = MapThenSumSet(LAMBDA p : look.price[p], held)
  <2> DEFINE end == look.end
             A(it) == [S \in SUBSET held |-> IF S = {} THEN 0
                          ELSE Carried(CHOOSE p \in S : TRUE, end) + it[S \ {CHOOSE p \in S : TRUE}]]
             B(it) == [S \in SUBSET held |-> IF S = {} THEN 0
                          ELSE look.price[CHOOSE p \in S : TRUE] + it[S \ {CHOOSE p \in S : TRUE}]]
  <2>1. \A p \in held : Carried(p, end) = look.price[p]
    <3>1. \A p \in held : p \notin look.left
      BY <1>1 DEF ReadsInv, Requested
    <3> QED
      BY <1>1, <3>1, ReadsAre DEF ReadsInv, ChartDrawn
  <2>2. \A it : A(it) = B(it)
    <3>1. \A S \in SUBSET held : S # {} => (CHOOSE p \in S : TRUE) \in held
      OBVIOUS
    <3> HIDE DEF end
    <3> QED
      BY <2>1, <3>1
  <2>3. Point(end) = (CHOOSE it : it = A(it))[held]
    BY DEF Point, MapThenSumSet, MapThenFoldSet
  <2>4. MapThenSumSet(LAMBDA p : look.price[p], held) = (CHOOSE it : it = B(it))[held]
    BY DEF MapThenSumSet, MapThenFoldSet
  <2> HIDE DEF A, B
  <2>5. \A it : (it = A(it)) <=> (it = B(it))
    BY <2>2
  <2>6. (CHOOSE it : it = A(it)) = (CHOOSE it : it = B(it))
    BY <2>5
  <2> QED
    BY <2>3, <2>4, <2>6
<1>2. ReadsInv => ChartMeetsHoldings
  BY <1>1 DEF ChartMeetsHoldings
<1> QED
  BY ReadsAlways, <1>2, PTL

-----------------------------------------------------------------------------
(* Both. *)

\* A behaviour of the two together is one of each.
LEMMA EachOfBoth == LedgerSpec => Spec /\ ReadsSpec
<1>1. LedgerInit => Init /\ ReadsInit
  BY DEF LedgerInit
<1>2. [LedgerNext]_<<focus, vars, readsVars>> => [Next]_vars /\ [ReadsNext]_readsVars
  BY DEF LedgerNext
<1> QED
  BY <1>1, <1>2, PTL DEF LedgerSpec, Spec, ReadsSpec

\* Types of the trades, the requests that make them, the history of the sales, the quotes and
\* the request that reads the portfolio: every row that recordTrade inserts has a date.
THEOREM LedgerTypes == LedgerSpec => []LedgerTypeOK
<1>1. Solvent /\ ReadsInv => LedgerTypeOK
  BY DEF Solvent, ReadsInv, LedgerTypeOK
<1> QED
  BY EachOfBoth, SolventAlways, ReadsAlways, <1>1, PTL

\* What a user is shown of a portfolio is what its trades made of it: the quantities, and their
\* value on the chart of the same request.
THEOREM PortfolioIsShown == LedgerSpec => []PortfolioShowsTrades
<1>1. HoldingsShowNet /\ ChartMeetsHoldings => PortfolioShowsTrades
  BY DEF PortfolioShowsTrades
<1> QED
  BY EachOfBoth, HoldingsAgree, ChartEndsAtHoldings, <1>1, PTL

\* What the run of the composition checks of the trades, for every behaviour of it.
THEOREM LedgerHolds == LedgerSpec => [](SolventUnlessOvertaken /\ LotsAreLatestPurchases)
  BY EachOfBoth, NoOversale, LotsFollow, PTL
=============================================================================
